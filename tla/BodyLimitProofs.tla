-------------------------- MODULE BodyLimitProofs ---------------------------
(***************************************************************************)
(* Proofs about BodyLimit, for every limit, every set of chunk sizes and   *)
(* every number of messages.                                               *)
(***************************************************************************)
EXTENDS BodyLimit, SequenceTheorems, TLAPS

\* The stream: a disconnect is its last message, and a chunk without
\* more_body is followed by nothing but a disconnect.
StreamEnds ==
    \A i \in DOMAIN wire :
        /\ wire[i].type = "http.disconnect" =>
               client = "gone" /\ i = Len(wire) /\ wire[i].size = 0
        /\ wire[i].type = "http.request" /\ ~ wire[i].more_body =>
               /\ client # "sending"
               /\ \A j \in DOMAIN wire : j > i => wire[j].type = "http.disconnect"

\* While the loop reads, its count is that of the messages received, and the
\* messages to come go on from there.
CountIsExact ==
    pc = "reading" =>
        /\ received_bytes <= MAX_REQUEST_BODY_BYTES
        /\ wire = << >> => sent = received_bytes
        /\ wire # << >> => /\ wire[1].upto = received_bytes + wire[1].size
                           /\ wire[Len(wire)].upto = sent
        /\ \A i, j \in DOMAIN wire :
               j = i + 1 => wire[j].upto = wire[i].upto + wire[j].size

UptoSent ==
    \A i \in DOMAIN wire : wire[i].upto <= sent

\* The application starts with the whole count settled.
AppStartsSettled ==
    pc \in {"app", "done"} => sent <= MAX_REQUEST_BODY_BYTES

BufferWithinLimit ==
    pc # "rejected" =>
        \A i \in DOMAIN received_messages :
            received_messages[i].upto <= MAX_REQUEST_BODY_BYTES

ReadBeforeApp ==
    pc \in {"reading", "rejected"} => delivered = << >>

IInv ==
    /\ TypeOK
    /\ StreamEnds
    /\ CountIsExact
    /\ UptoSent
    /\ AppStartsSettled
    /\ BufferWithinLimit
    /\ ReadBeforeApp
    /\ BodyWithinLimit
    /\ ReplayIsFaithful
    /\ RejectedOnlyIfTooLong
    /\ AppRunsOnWholeBody

-----------------------------------------------------------------------------
(* What appending to and taking from a queue of messages does to it        *)

LEMMA AppendMessage ==
    ASSUME NEW q \in Seq(Message), NEW m \in Message
    PROVE  /\ Append(q, m) \in Seq(Message)
           /\ Append(q, m) # << >>
           /\ Len(q) \in Nat /\ Len(Append(q, m)) = Len(q) + 1
           /\ DOMAIN q = 1..Len(q) /\ DOMAIN Append(q, m) = 1..(Len(q) + 1)
           /\ \A i \in 1..Len(q) : Append(q, m)[i] = q[i]
           /\ Append(q, m)[Len(q) + 1] = m
  BY AppendProperties, LenProperties

LEMMA TakeMessage ==
    ASSUME NEW q \in Seq(Message), q # << >>
    PROVE  /\ Head(q) \in Message /\ Head(q) = q[1]
           /\ Tail(q) \in Seq(Message)
           /\ Len(q) \in Nat \ {0} /\ Len(Tail(q)) = Len(q) - 1
           /\ DOMAIN q = 1..Len(q) /\ DOMAIN Tail(q) = 1..(Len(q) - 1)
           /\ \A i \in 1..(Len(q) - 1) : Tail(q)[i] = q[i + 1]
           /\ Len(q) = 1 => Tail(q) = << >>
           /\ Len(q) > 1 => Tail(q) # << >>
  <1>1. Len(q) \in Nat \ {0} /\ DOMAIN q = 1..Len(q)
    BY LenProperties, EmptySeq
  <1>2. /\ Head(q) \in Message /\ Tail(q) \in Seq(Message)
        /\ Len(Tail(q)) = Len(q) - 1
        /\ \A i \in 1..Len(Tail(q)) : Tail(q)[i] = q[i + 1]
    BY HeadTailProperties
  <1>3. DOMAIN Tail(q) = 1..(Len(q) - 1)
    BY <1>1, <1>2, LenProperties
  <1>4. Head(q) = q[1]
    BY <1>1
  <1>5. (Len(q) = 1 => Tail(q) = << >>) /\ (Len(q) > 1 => Tail(q) # << >>)
    <2>1. Tail(q) # << >> => Len(Tail(q)) \in Nat \ {0}
      BY <1>2, EmptySeq
    <2>2. Len(<< >>) = 0
      BY EmptySeq
    <2>3. (Len(q) = 1 => Len(Tail(q)) = 0) /\ (Len(q) > 1 => Len(Tail(q)) # 0)
      BY <1>1, <1>2
    <2>4. (Len(q) = 1 => Len(Tail(q)) \notin Nat \ {0})
      BY <2>3
    <2> QED
      BY <2>1, <2>2, <2>3, <2>4, Zenon
  <1> QED
    BY <1>1, <1>2, <1>3, <1>4, <1>5

LEMMA EmptyQueue ==
    /\ << >> \in Seq(Message) /\ Len(<< >>) = 0 /\ DOMAIN << >> = {}
  BY EmptySeq, LenProperties

LEMMA InitIInv == Init => IInv
  BY EmptyQueue, BodyLimitAssumption
  DEF Init, IInv, TypeOK, StreamEnds, CountIsExact, UptoSent, AppStartsSettled,
      BufferWithinLimit, ReadBeforeApp, BodyWithinLimit, ReplayIsFaithful,
      RejectedOnlyIfTooLong, AppRunsOnWholeBody
-----------------------------------------------------------------------------
(* Every step preserves the invariant                                      *)

LEMMA SendChunkIInv ==
    ASSUME IInv, NEW size \in Sizes, NEW more \in BOOLEAN, SendChunk(size, more)
    PROVE  IInv'
  <1> DEFINE m == [type |-> "http.request", size |-> size, more_body |-> more,
                   number |-> Handed + 1, upto |-> sent']
  <1>1. TypeOK /\ pc \in {"reading", "rejected"} /\ client = "sending" /\ delivered = << >>
    BY DEF IInv, AppRunsOnWholeBody, ReadBeforeApp, SendChunk, TypeOK
  <1>2. Len(delivered) = 0 /\ Len(received_messages) \in Nat /\ Len(wire) \in Nat
    BY <1>1, LenProperties, EmptyQueue DEF TypeOK
  <1>3. /\ sent \in Nat /\ size \in Nat /\ sent' = sent + size /\ sent' \in Nat
        /\ Handed = Len(received_messages) + Len(wire)
        /\ m \in Message /\ wire' = Append(wire, m)
        /\ client' \in {"sending", "complete"}
        /\ UNCHANGED <<pc, received_bytes, received_messages, delivered>>
    BY <1>1, <1>2, BodyLimitAssumption DEF SendChunk, Message, Handed, TypeOK
  <1>4. /\ wire' \in Seq(Message) /\ wire' # << >> /\ Len(wire') = Len(wire) + 1
        /\ DOMAIN wire = 1..Len(wire) /\ DOMAIN wire' = 1..(Len(wire) + 1)
        /\ \A i \in 1..Len(wire) : wire'[i] = wire[i]
        /\ wire'[Len(wire) + 1] = m
    BY <1>1, <1>3, AppendMessage DEF TypeOK
  <1>5. m.type = "http.request" /\ m.size = size /\ m.more_body = more
        /\ m.number = Len(received_messages) + Len(wire) + 1 /\ m.upto = sent + size
    BY <1>3
  <1>6. \A i \in 1..Len(wire) : wire[i] \in Message
    BY <1>1, ElementOfSeq DEF TypeOK
  <1> HIDE DEF m
  <1>7. TypeOK'
    BY <1>1, <1>3, <1>4 DEF TypeOK
  <1>8. StreamEnds'
    <2>1. \A i \in 1..Len(wire) :
             wire[i].type = "http.request" /\ wire[i].more_body
      BY <1>1, <1>4, <1>6 DEF IInv, StreamEnds, Message
    <2> QED
      BY <1>2, <1>3, <1>4, <1>5, <2>1, SMT DEF StreamEnds, SendChunk
  <1>9. CountIsExact'
    <2>1. wire = << >> <=> Len(wire) = 0
      BY <1>1, EmptySeq DEF TypeOK
    <2>2. pc = "reading" =>
             /\ wire'[1].upto = received_bytes + wire'[1].size
             /\ wire'[Len(wire')].upto = sent'
      <3>1. CASE wire = << >>
        BY <1>3, <1>4, <1>5, <2>1, <3>1 DEF IInv, CountIsExact
      <3>2. CASE wire # << >>
        BY <1>2, <1>3, <1>4, <1>5, <2>1, <3>2 DEF IInv, CountIsExact
      <3> QED
        BY <3>1, <3>2
    <2>3. ASSUME pc = "reading", NEW i \in DOMAIN wire', NEW j \in DOMAIN wire', j = i + 1
          PROVE  wire'[j].upto = wire'[i].upto + wire'[j].size
      <3>1. CASE j = Len(wire) + 1
        BY <1>2, <1>3, <1>4, <1>5, <2>1, <2>3, <3>1 DEF IInv, CountIsExact
      <3>2. CASE j # Len(wire) + 1
        BY <1>2, <1>4, <2>3, <3>2 DEF IInv, CountIsExact
      <3> QED
        BY <3>1, <3>2
    <2> QED
      BY <1>3, <1>4, <2>2, <2>3 DEF IInv, CountIsExact
  <1>10. UptoSent'
    BY <1>2, <1>3, <1>4, <1>5, <1>6 DEF IInv, UptoSent, Message
  <1>11. AppStartsSettled' /\ AppRunsOnWholeBody'
    BY <1>1, <1>3 DEF AppStartsSettled, AppRunsOnWholeBody
  <1>12. BufferWithinLimit' /\ ReadBeforeApp' /\ BodyWithinLimit'
    BY <1>3 DEF IInv, BufferWithinLimit, ReadBeforeApp, BodyWithinLimit
  <1>13. ReplayIsFaithful'
    BY <1>2, <1>3, <1>4, <1>5 DEF IInv, ReplayIsFaithful
  <1>14. RejectedOnlyIfTooLong'
    BY <1>3, BodyLimitAssumption DEF IInv, RejectedOnlyIfTooLong
  <1> QED
    BY <1>7, <1>8, <1>9, <1>10, <1>11, <1>12, <1>13, <1>14 DEF IInv

LEMMA DisconnectIInv ==
    ASSUME IInv, Disconnect
    PROVE  IInv'
  <1> DEFINE m == [type |-> "http.disconnect", size |-> 0, more_body |-> FALSE,
                   number |-> Handed + 1, upto |-> sent]
  <1>1. TypeOK /\ client # "gone"
    BY DEF IInv, Disconnect
  <1>2. Len(delivered) \in Nat /\ Len(received_messages) \in Nat /\ Len(wire) \in Nat
    BY <1>1, LenProperties DEF TypeOK
  <1>3. /\ sent \in Nat /\ m \in Message /\ wire' = Append(wire, m)
        /\ Handed = Len(delivered) + Len(received_messages) + Len(wire)
        /\ client' = "gone"
        /\ UNCHANGED <<sent, pc, received_bytes, received_messages, delivered>>
    BY <1>1, <1>2 DEF Disconnect, Message, Handed, TypeOK
  <1>4. /\ wire' \in Seq(Message) /\ wire' # << >> /\ Len(wire') = Len(wire) + 1
        /\ DOMAIN wire = 1..Len(wire) /\ DOMAIN wire' = 1..(Len(wire) + 1)
        /\ \A i \in 1..Len(wire) : wire'[i] = wire[i]
        /\ wire'[Len(wire) + 1] = m
    BY <1>1, <1>3, AppendMessage DEF TypeOK
  <1>5. m.type = "http.disconnect" /\ m.size = 0 /\ m.upto = sent
        /\ m.number = Len(delivered) + Len(received_messages) + Len(wire) + 1
    BY <1>3
  <1> HIDE DEF m
  <1>6. TypeOK'
    BY <1>1, <1>3, <1>4 DEF TypeOK
  <1>7. StreamEnds'
    BY <1>1, <1>2, <1>3, <1>4, <1>5 DEF IInv, StreamEnds
  <1>8. CountIsExact'
    <2>1. wire = << >> <=> Len(wire) = 0
      BY <1>1, EmptySeq DEF TypeOK
    <2>2. pc = "reading" =>
             /\ wire'[1].upto = received_bytes + wire'[1].size
             /\ wire'[Len(wire')].upto = sent'
      <3>1. CASE wire = << >>
        BY <1>1, <1>3, <1>4, <1>5, <2>1, <3>1 DEF IInv, CountIsExact, TypeOK
      <3>2. CASE wire # << >>
        BY <1>2, <1>3, <1>4, <1>5, <2>1, <3>2 DEF IInv, CountIsExact
      <3> QED
        BY <3>1, <3>2
    <2>3. ASSUME pc = "reading", NEW i \in DOMAIN wire', NEW j \in DOMAIN wire', j = i + 1
          PROVE  wire'[j].upto = wire'[i].upto + wire'[j].size
      <3>1. CASE j = Len(wire) + 1
        BY <1>2, <1>3, <1>4, <1>5, <2>1, <2>3, <3>1 DEF IInv, CountIsExact
      <3>2. CASE j # Len(wire) + 1
        BY <1>2, <1>4, <2>3, <3>2 DEF IInv, CountIsExact
      <3> QED
        BY <3>1, <3>2
    <2> QED
      BY <1>3, <1>4, <2>2, <2>3 DEF IInv, CountIsExact
  <1>9. UptoSent'
    BY <1>2, <1>3, <1>4, <1>5 DEF IInv, UptoSent
  <1>10. AppStartsSettled' /\ AppRunsOnWholeBody' /\ RejectedOnlyIfTooLong'
    BY <1>3 DEF IInv, AppStartsSettled, AppRunsOnWholeBody, RejectedOnlyIfTooLong
  <1>11. BufferWithinLimit' /\ ReadBeforeApp' /\ BodyWithinLimit'
    BY <1>3 DEF IInv, BufferWithinLimit, ReadBeforeApp, BodyWithinLimit
  <1>12. ReplayIsFaithful'
    BY <1>2, <1>3, <1>4, <1>5 DEF IInv, ReplayIsFaithful
  <1> QED
    BY <1>6, <1>7, <1>8, <1>9, <1>10, <1>11, <1>12 DEF IInv

LEMMA ReadIInv ==
    ASSUME IInv, Read
    PROVE  IInv'
  <1> DEFINE m == Head(wire)
             total == received_bytes + m.size
  <1>1. TypeOK /\ pc = "reading" /\ wire # << >> /\ delivered = << >>
    BY DEF IInv, ReadBeforeApp, Read
  <1>2. /\ received_messages' = Append(received_messages, m) /\ wire' = Tail(wire)
        /\ UNCHANGED <<client, sent, delivered>>
    BY DEF Read
  <1>3. /\ m \in Message /\ m = wire[1] /\ wire' \in Seq(Message)
        /\ Len(wire) \in Nat \ {0} /\ Len(wire') = Len(wire) - 1
        /\ DOMAIN wire = 1..Len(wire) /\ DOMAIN wire' = 1..(Len(wire) - 1)
        /\ \A i \in 1..(Len(wire) - 1) : wire'[i] = wire[i + 1]
        /\ (Len(wire) = 1 => wire' = << >>) /\ (Len(wire) > 1 => wire' # << >>)
    BY <1>1, <1>2, TakeMessage DEF TypeOK
  <1>4. /\ received_messages' \in Seq(Message)
        /\ Len(received_messages) \in Nat
        /\ Len(received_messages') = Len(received_messages) + 1
        /\ DOMAIN received_messages = 1..Len(received_messages)
        /\ DOMAIN received_messages' = 1..(Len(received_messages) + 1)
        /\ \A i \in 1..Len(received_messages) :
               received_messages'[i] = received_messages[i]
        /\ received_messages'[Len(received_messages) + 1] = m
    BY <1>1, <1>2, <1>3, AppendMessage DEF TypeOK
  <1>5. /\ received_bytes \in Nat /\ sent \in Nat
        /\ received_bytes <= MAX_REQUEST_BODY_BYTES
        /\ m.size \in Nat /\ m.type \in {"http.request", "http.disconnect"}
        /\ m.upto = received_bytes + m.size /\ m.upto <= sent
    <2>1. received_bytes \in Nat /\ sent \in Nat
      BY <1>1 DEF TypeOK
    <2>2. m.size \in Nat /\ m.type \in {"http.request", "http.disconnect"}
      BY <1>3 DEF Message
    <2>3. received_bytes <= MAX_REQUEST_BODY_BYTES /\ m.upto = received_bytes + m.size
      BY <1>1, <1>3 DEF IInv, CountIsExact
    <2>4. m.upto <= sent
      BY <1>3 DEF IInv, UptoSent
    <2> QED
      BY <2>1, <2>2, <2>3, <2>4
  <1>6. \/ /\ m.type = "http.disconnect" /\ pc' = "app" /\ received_bytes' = received_bytes
           /\ client = "gone" /\ Len(wire) = 1 /\ m.size = 0
        \/ /\ m.type = "http.request" /\ received_bytes' = total
           /\ pc' = "rejected" /\ total > MAX_REQUEST_BODY_BYTES
        \/ /\ m.type = "http.request" /\ received_bytes' = total
           /\ pc' = "reading" /\ total <= MAX_REQUEST_BODY_BYTES
        \/ /\ m.type = "http.request" /\ received_bytes' = total
           /\ pc' = "app" /\ total <= MAX_REQUEST_BODY_BYTES
           /\ client # "sending"
           /\ \A j \in 2..Len(wire) : wire[j].type = "http.disconnect"
    <2>1. CASE m.type = "http.disconnect"
      <3>1. client = "gone" /\ Len(wire) = 1 /\ m.size = 0
        BY <1>3, <2>1 DEF IInv, StreamEnds
      <3> QED
        BY <1>5, <2>1, <3>1 DEF Read, Counted, AfterMessage
    <2>2. CASE m.type = "http.request"
      <3>1. ~ m.more_body => /\ client # "sending"
                             /\ \A j \in 2..Len(wire) : wire[j].type = "http.disconnect"
        BY <1>3, <2>2 DEF IInv, StreamEnds
      <3>2. /\ received_bytes' = total
            /\ pc' = IF total > MAX_REQUEST_BODY_BYTES THEN "rejected"
                     ELSE IF m.more_body THEN "reading" ELSE "app"
        BY <2>2 DEF Read, Counted, AfterMessage, TooLong
      <3> QED
        BY <1>5, <2>2, <3>1, <3>2, BodyLimitAssumption
    <2> QED
      BY <1>5, <2>1, <2>2
  <1> HIDE DEF m
  <1>7. TypeOK'
    BY <1>1, <1>2, <1>3, <1>4, <1>5, <1>6 DEF TypeOK
  <1>8. StreamEnds'
    BY <1>1, <1>2, <1>3 DEF IInv, StreamEnds
  <1>9. CountIsExact'
    <2> SUFFICES ASSUME pc' = "reading"
                 PROVE  CountIsExact'
      BY DEF CountIsExact
    <2>1. received_bytes' = m.upto /\ received_bytes' <= MAX_REQUEST_BODY_BYTES
      BY <1>5, <1>6
    <2>2. wire' = << >> => sent' = received_bytes'
      BY <1>1, <1>2, <1>3, <2>1 DEF IInv, CountIsExact
    <2>3. wire' # << >> => /\ wire'[1].upto = received_bytes' + wire'[1].size
                           /\ wire'[Len(wire')].upto = sent'
      <3> SUFFICES ASSUME wire' # << >>
                   PROVE  /\ wire'[1].upto = received_bytes' + wire'[1].size
                          /\ wire'[Len(wire')].upto = sent'
        OBVIOUS
      <3>1. /\ 1 \in DOMAIN wire /\ 2 \in DOMAIN wire /\ wire'[1] = wire[2]
            /\ wire'[Len(wire')] = wire[Len(wire)]
        BY <1>3
      <3>2. wire[2].upto = wire[1].upto + wire[2].size /\ wire[Len(wire)].upto = sent
        BY <1>1, <3>1 DEF IInv, CountIsExact
      <3> QED
        BY <1>2, <1>3, <2>1, <3>1, <3>2
    <2>4. ASSUME NEW i \in DOMAIN wire', NEW j \in DOMAIN wire', j = i + 1
          PROVE  wire'[j].upto = wire'[i].upto + wire'[j].size
      <3>1. /\ i + 1 \in DOMAIN wire /\ j + 1 \in DOMAIN wire /\ j + 1 = (i + 1) + 1
            /\ wire'[i] = wire[i + 1] /\ wire'[j] = wire[j + 1]
        BY <1>3, <2>4
      <3> QED
        BY <1>1, <3>1 DEF IInv, CountIsExact
    <2> QED
      BY <2>1, <2>2, <2>3, <2>4 DEF CountIsExact
  <1>10. UptoSent'
    BY <1>2, <1>3 DEF IInv, UptoSent
  <1>11. pc' = "app" => sent = total
    <2>1. CASE Len(wire) = 1
      BY <1>1, <1>3, <1>5, <2>1 DEF IInv, CountIsExact
    <2>2. CASE Len(wire) # 1 /\ pc' = "app"
      <3>1. wire[2].type = "http.disconnect" /\ wire[2].size = 0 /\ Len(wire) = 2
        BY <1>3, <1>6, <2>2 DEF IInv, StreamEnds
      <3>2. wire[2].upto = wire[1].upto
        BY <1>1, <1>3, <1>5, <3>1 DEF IInv, CountIsExact
      <3> QED
        BY <1>1, <1>3, <1>5, <3>1, <3>2 DEF IInv, CountIsExact
    <2> QED
      BY <2>1, <2>2
  <1>12. AppStartsSettled' /\ AppRunsOnWholeBody'
    BY <1>2, <1>5, <1>6, <1>11 DEF AppStartsSettled, AppRunsOnWholeBody
  <1>13. BufferWithinLimit'
    BY <1>1, <1>4, <1>5, <1>6 DEF IInv, BufferWithinLimit
  <1>14. ReadBeforeApp' /\ BodyWithinLimit'
    BY <1>1, <1>2, EmptyQueue DEF ReadBeforeApp, BodyWithinLimit
  <1>15. ReplayIsFaithful'
    <2>1. /\ Len(delivered) = 0 /\ DOMAIN delivered = {}
          /\ \A i \in DOMAIN received_messages : received_messages[i].number = i
          /\ \A i \in DOMAIN wire : wire[i].number = Len(received_messages) + i
      BY <1>1, <1>4, EmptyQueue DEF IInv, ReplayIsFaithful, TypeOK
    <2>2. \A i \in DOMAIN received_messages' : received_messages'[i].number = i
      BY <1>3, <1>4, <2>1
    <2>3. ASSUME NEW i \in DOMAIN wire'
          PROVE  wire'[i].number = Len(received_messages') + i
      <3>1. i \in Nat /\ i + 1 \in DOMAIN wire /\ wire'[i] = wire[i + 1]
        BY <1>3
      <3>2. wire[i + 1].number = Len(received_messages) + (i + 1)
        BY <2>1, <3>1
      <3> QED
        BY <1>4, <3>1, <3>2
    <2> QED
      BY <1>2, <1>3, <1>4, <2>1, <2>2, <2>3 DEF ReplayIsFaithful
  <1>16. RejectedOnlyIfTooLong'
    BY <1>1, <1>2, <1>5, <1>6, BodyLimitAssumption DEF RejectedOnlyIfTooLong
  <1> QED
    BY <1>7, <1>8, <1>9, <1>10, <1>12, <1>13, <1>14, <1>15, <1>16 DEF IInv

LEMMA ReplayIInv ==
    ASSUME IInv, Replay
    PROVE  IInv'
  <1> DEFINE m == Head(received_messages)
  <1>1. TypeOK /\ pc = "app" /\ received_messages # << >>
    BY DEF IInv, Replay
  <1>2. /\ delivered' = Append(delivered, m) /\ received_messages' = Tail(received_messages)
        /\ UNCHANGED <<client, sent, wire, pc, received_bytes>>
    BY DEF Replay
  <1>3. /\ m \in Message /\ m = received_messages[1]
        /\ received_messages' \in Seq(Message)
        /\ Len(received_messages) \in Nat \ {0}
        /\ Len(received_messages') = Len(received_messages) - 1
        /\ DOMAIN received_messages = 1..Len(received_messages)
        /\ DOMAIN received_messages' = 1..(Len(received_messages) - 1)
        /\ \A i \in 1..(Len(received_messages) - 1) :
               received_messages'[i] = received_messages[i + 1]
    BY <1>1, <1>2, TakeMessage DEF TypeOK
  <1>4. /\ delivered' \in Seq(Message) /\ Len(delivered) \in Nat
        /\ Len(delivered') = Len(delivered) + 1
        /\ DOMAIN delivered = 1..Len(delivered)
        /\ DOMAIN delivered' = 1..(Len(delivered) + 1)
        /\ \A i \in 1..Len(delivered) : delivered'[i] = delivered[i]
        /\ delivered'[Len(delivered) + 1] = m
    BY <1>1, <1>2, <1>3, AppendMessage DEF TypeOK
  <1> HIDE DEF m
  <1>5. TypeOK'
    BY <1>1, <1>2, <1>3, <1>4 DEF TypeOK
  <1>6. StreamEnds' /\ CountIsExact' /\ UptoSent' /\ AppStartsSettled' /\ AppRunsOnWholeBody'
    BY <1>1, <1>2 DEF IInv, StreamEnds, CountIsExact, UptoSent, AppStartsSettled,
                      AppRunsOnWholeBody
  <1>7. BufferWithinLimit' /\ BodyWithinLimit'
    BY <1>1, <1>2, <1>3, <1>4 DEF IInv, BufferWithinLimit, BodyWithinLimit
  <1>8. ReadBeforeApp' /\ RejectedOnlyIfTooLong'
    BY <1>1, <1>2 DEF ReadBeforeApp, RejectedOnlyIfTooLong
  <1>9. ReplayIsFaithful'
    <2>1. m.number = Len(delivered) + 1
      BY <1>3 DEF IInv, ReplayIsFaithful
    <2>2. \A i \in DOMAIN delivered' : delivered'[i].number = i
      BY <1>4, <2>1 DEF IInv, ReplayIsFaithful
    <2>3. \A i \in DOMAIN received_messages' :
              received_messages'[i].number = Len(delivered') + i
      <3> TAKE i \in DOMAIN received_messages'
      <3>1. /\ i \in Nat /\ i + 1 \in DOMAIN received_messages
            /\ received_messages'[i] = received_messages[i + 1]
        BY <1>3
      <3>2. received_messages[i + 1].number = Len(delivered) + (i + 1)
        BY <3>1 DEF IInv, ReplayIsFaithful
      <3> QED
        BY <1>4, <3>1, <3>2
    <2>4. Len(delivered') + Len(received_messages') = Len(delivered) + Len(received_messages)
      BY <1>3, <1>4
    <2> QED
      BY <1>2, <2>2, <2>3, <2>4 DEF IInv, ReplayIsFaithful
  <1> QED
    BY <1>5, <1>6, <1>7, <1>8, <1>9 DEF IInv

LEMMA ReadOnIInv ==
    ASSUME IInv, ReadOn
    PROVE  IInv'
  <1> DEFINE m == Head(wire)
  <1>1. TypeOK /\ pc = "app" /\ received_messages = << >> /\ wire # << >>
    BY DEF IInv, ReadOn
  <1>2. /\ delivered' = Append(delivered, m) /\ wire' = Tail(wire)
        /\ UNCHANGED <<client, sent, pc, received_bytes, received_messages>>
    BY DEF ReadOn
  <1>3. /\ m \in Message /\ m = wire[1] /\ wire' \in Seq(Message)
        /\ Len(wire) \in Nat \ {0} /\ Len(wire') = Len(wire) - 1
        /\ DOMAIN wire = 1..Len(wire) /\ DOMAIN wire' = 1..(Len(wire) - 1)
        /\ \A i \in 1..(Len(wire) - 1) : wire'[i] = wire[i + 1]
    BY <1>1, <1>2, TakeMessage DEF TypeOK
  <1>4. /\ delivered' \in Seq(Message) /\ Len(delivered) \in Nat
        /\ Len(delivered') = Len(delivered) + 1
        /\ DOMAIN delivered = 1..Len(delivered)
        /\ DOMAIN delivered' = 1..(Len(delivered) + 1)
        /\ \A i \in 1..Len(delivered) : delivered'[i] = delivered[i]
        /\ delivered'[Len(delivered) + 1] = m
    BY <1>1, <1>2, <1>3, AppendMessage DEF TypeOK
  <1> HIDE DEF m
  <1>5. TypeOK'
    BY <1>1, <1>2, <1>3, <1>4 DEF TypeOK
  <1>6. StreamEnds'
    BY <1>2, <1>3 DEF IInv, StreamEnds
  <1>7. CountIsExact' /\ ReadBeforeApp' /\ RejectedOnlyIfTooLong'
    BY <1>1, <1>2 DEF CountIsExact, ReadBeforeApp, RejectedOnlyIfTooLong
  <1>8. UptoSent' /\ AppStartsSettled' /\ AppRunsOnWholeBody' /\ BufferWithinLimit'
    BY <1>2, <1>3 DEF IInv, UptoSent, AppStartsSettled, AppRunsOnWholeBody,
                      BufferWithinLimit
  <1>9. BodyWithinLimit'
    <2>1. m.upto \in Nat /\ sent \in Nat
      BY <1>1, <1>3 DEF TypeOK, Message
    <2>2. m.upto <= sent
      BY <1>3 DEF IInv, UptoSent
    <2>3. sent <= MAX_REQUEST_BODY_BYTES
      BY <1>1 DEF IInv, AppStartsSettled
    <2>4. m.upto <= MAX_REQUEST_BODY_BYTES
      BY <2>1, <2>2, <2>3, BodyLimitAssumption
    <2> QED
      BY <1>4, <2>4 DEF IInv, BodyWithinLimit
  <1>10. ReplayIsFaithful'
    <2>1. m.number = Len(delivered) + 1
      BY <1>1, <1>3, <1>4, EmptyQueue DEF IInv, ReplayIsFaithful
    <2>2. \A i \in DOMAIN delivered' : delivered'[i].number = i
      BY <1>4, <2>1 DEF IInv, ReplayIsFaithful
    <2>3. \A i \in DOMAIN wire' : wire'[i].number = Len(delivered') + i
      <3> TAKE i \in DOMAIN wire'
      <3>1. i \in Nat /\ i + 1 \in DOMAIN wire /\ wire'[i] = wire[i + 1]
        BY <1>3
      <3>2. Len(received_messages) = 0
        BY <1>1, EmptyQueue
      <3>3. wire[i + 1].number = Len(delivered) + Len(received_messages) + (i + 1)
        BY <3>1 DEF IInv, ReplayIsFaithful
      <3> QED
        BY <1>4, <3>1, <3>2, <3>3
    <2> QED
      BY <1>1, <1>2, <1>3, <1>4, <2>2, <2>3, EmptyQueue DEF ReplayIsFaithful
  <1> QED
    BY <1>5, <1>6, <1>7, <1>8, <1>9, <1>10 DEF IInv

LEMMA StepIInv == IInv /\ [Next]_vars => IInv'
  <1> SUFFICES ASSUME IInv, [Next]_vars
               PROVE  IInv'
    OBVIOUS
  <1>1. CASE \E size \in Sizes, more \in BOOLEAN : SendChunk(size, more)
    BY <1>1, SendChunkIInv
  <1>2. CASE Disconnect
    BY <1>2, DisconnectIInv
  <1>3. CASE Read
    BY <1>3, ReadIInv
  <1>4. CASE Replay
    BY <1>4, ReplayIInv
  <1>5. CASE ReadOn
    BY <1>5, ReadOnIInv
  <1>6. CASE Respond
    <2>1. /\ pc = "app" /\ pc' = "done"
          /\ UNCHANGED <<client, sent, wire, received_bytes, received_messages, delivered>>
      BY <1>6 DEF Respond
    <2>2. TypeOK' /\ StreamEnds' /\ CountIsExact' /\ UptoSent' /\ AppStartsSettled'
      BY <2>1 DEF IInv, TypeOK, StreamEnds, CountIsExact, UptoSent, AppStartsSettled
    <2>3. /\ BufferWithinLimit' /\ ReadBeforeApp' /\ BodyWithinLimit'
          /\ ReplayIsFaithful' /\ RejectedOnlyIfTooLong' /\ AppRunsOnWholeBody'
      BY <2>1 DEF IInv, BufferWithinLimit, ReadBeforeApp, BodyWithinLimit,
                  ReplayIsFaithful, RejectedOnlyIfTooLong, AppRunsOnWholeBody
    <2> QED
      BY <2>2, <2>3 DEF IInv
  <1>7. CASE UNCHANGED vars
    BY <1>7 DEF IInv, vars, TypeOK, StreamEnds, CountIsExact, UptoSent,
                AppStartsSettled, BufferWithinLimit, ReadBeforeApp, BodyWithinLimit,
                ReplayIsFaithful, RejectedOnlyIfTooLong, AppRunsOnWholeBody
  <1> QED
    BY <1>1, <1>2, <1>3, <1>4, <1>5, <1>6, <1>7 DEF Next

LEMMA Invariance == Spec => []IInv
  BY InitIInv, StepIInv, PTL DEF Spec

-----------------------------------------------------------------------------
(* The theorems                                                            *)

\* The variables keep their types.
THEOREM TypeCorrect == Spec => []TypeOK
  <1>1. IInv => TypeOK
    BY DEF IInv
  <1> QED
    BY <1>1, Invariance, PTL

\* Whatever the chunking, the application never gets a body over the limit.
THEOREM LimitHolds == Spec => []BodyWithinLimit
  <1>1. IInv => BodyWithinLimit
    BY DEF IInv
  <1> QED
    BY <1>1, Invariance, PTL

\* The application gets the client's messages, each once and in order.
THEOREM ReplayFaithful == Spec => []ReplayIsFaithful
  <1>1. IInv => ReplayIsFaithful
    BY DEF IInv
  <1> QED
    BY <1>1, Invariance, PTL

\* 413 answers only a body that is too long, and is the only answer to it.
THEOREM RejectionSound == Spec => []RejectedOnlyIfTooLong
  <1>1. IInv => RejectedOnlyIfTooLong
    BY DEF IInv
  <1> QED
    BY <1>1, Invariance, PTL

\* The application starts on a whole body, or on one its client gave up.
THEOREM WholeBody == Spec => []AppRunsOnWholeBody
  <1>1. IInv => AppRunsOnWholeBody
    BY DEF IInv
  <1> QED
    BY <1>1, Invariance, PTL
=============================================================================

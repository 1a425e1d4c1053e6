----------------------------- MODULE BodyLimit ------------------------------
(***************************************************************************)
(* RequestBodyLimitMiddleware (http_api/body_limit.py) on one http scope:  *)
(* it reads the request body ahead of the application, counting bytes;     *)
(* past the limit it answers 413 itself, otherwise it runs the application *)
(* with a receive() that replays what was read before it reads on.         *)
(*                                                                         *)
(* The ASGI server is the environment: it turns what the client sends      *)
(* into http.request messages of any size and ends the stream with a       *)
(* message without more_body, or with http.disconnect at any moment.  The  *)
(* middleware skips messages of other types; servers send none here.       *)
(***************************************************************************)
EXTENDS Integers, Sequences

CONSTANTS
    MAX_REQUEST_BODY_BYTES,
    Sizes,        \* the chunk sizes the server may hand over
    MaxMessages   \* bound: messages the server hands over for one request

ASSUME BodyLimitAssumption ==
    /\ MAX_REQUEST_BODY_BYTES \in Nat
    /\ Sizes \subseteq Nat
    /\ MaxMessages \in Nat

VARIABLES
    client,             \* "sending" the body, "complete" or "gone"
    sent,               \* bytes of the body handed over so far
    wire,               \* messages the server holds that nobody has received
    pc,                 \* "reading", "app", "rejected" or "done"
    received_bytes,
    received_messages,  \* the deque
    delivered           \* what the application's receive() calls returned

vars == <<client, sent, wire, pc, received_bytes, received_messages, delivered>>

\* A message also carries its number in the stream and the bytes the stream
\* has up to it, which no code reads.
Message == [type : {"http.request", "http.disconnect"}, size : Nat,
            more_body : BOOLEAN, number : Nat, upto : Nat]

Handed == Len(delivered) + Len(received_messages) + Len(wire)

Init ==
    /\ client = "sending" /\ sent = 0 /\ wire = << >>
    /\ pc = "reading" /\ received_bytes = 0
    /\ received_messages = << >> /\ delivered = << >>

-----------------------------------------------------------------------------
(* The server                                                              *)

SendChunk(size, more) ==
    /\ client = "sending"
    /\ Handed < MaxMessages
    /\ sent' = sent + size
    /\ wire' = Append(wire, [type |-> "http.request", size |-> size,
                             more_body |-> more, number |-> Handed + 1,
                             upto |-> sent'])
    /\ client' = IF more THEN "sending" ELSE "complete"
    /\ UNCHANGED <<pc, received_bytes, received_messages, delivered>>

Disconnect ==
    /\ client # "gone"
    /\ wire' = Append(wire, [type |-> "http.disconnect", size |-> 0,
                             more_body |-> FALSE, number |-> Handed + 1,
                             upto |-> sent])
    /\ client' = "gone"
    /\ UNCHANGED <<sent, pc, received_bytes, received_messages, delivered>>

-----------------------------------------------------------------------------
(* The middleware's loop                                                   *)

\* A mutant of Counted: the limit is applied to each chunk on its own.
CountedPerChunk(message) == message.size

\* A disconnect has no body.
Counted(message) == received_bytes + message.size

TooLong(total) == total > MAX_REQUEST_BODY_BYTES

\* Mutants of AfterMessage: the comparison is off by one; more_body is ignored; a
\* disconnect does not end the loop.
AfterMessageAtLimit(message, total) ==
    CASE message.type = "http.disconnect" -> "app"
      [] total >= MAX_REQUEST_BODY_BYTES  -> "rejected"
      [] OTHER -> IF message.more_body THEN "reading" ELSE "app"

AfterMessageOneChunk(message, total) ==
    IF TooLong(total) THEN "rejected" ELSE "app"

AfterMessageNoDisconnect(message, total) ==
    CASE message.type = "http.disconnect" -> "reading"
      [] TooLong(total) -> "rejected"
      [] OTHER -> IF message.more_body THEN "reading" ELSE "app"

\* Where the loop goes after a message: it stops at a disconnect, at a body
\* that is too long, and at the end of the body.
AfterMessage(message, total) ==
    CASE message.type = "http.disconnect" -> "app"
      [] message.type # "http.disconnect" /\ TooLong(total) -> "rejected"
      [] OTHER -> IF message.more_body THEN "reading" ELSE "app"

\* One turn of the loop: receive, buffer, count, and stop or go on.
Read ==
    /\ pc = "reading" /\ wire # << >>
    /\ LET message == Head(wire)
       IN  /\ wire' = Tail(wire)
           /\ received_messages' = Append(received_messages, message)
           /\ received_bytes' = Counted(message)
           /\ pc' = AfterMessage(message, Counted(message))
    /\ UNCHANGED <<client, sent, delivered>>

-----------------------------------------------------------------------------
(* The application, through replay_receive                                 *)

\* A mutant of Replay: the deque is popped at the wrong end.
ReplayLastFirst ==
    /\ pc = "app" /\ received_messages # << >>
    /\ delivered' = Append(delivered, received_messages[Len(received_messages)])
    /\ received_messages' = SubSeq(received_messages, 1, Len(received_messages) - 1)
    /\ UNCHANGED <<client, sent, wire, pc, received_bytes>>

Replay ==
    /\ pc = "app" /\ received_messages # << >>
    /\ delivered' = Append(delivered, Head(received_messages))
    /\ received_messages' = Tail(received_messages)
    /\ UNCHANGED <<client, sent, wire, pc, received_bytes>>

ReadOn ==
    /\ pc = "app" /\ received_messages = << >> /\ wire # << >>
    /\ delivered' = Append(delivered, Head(wire))
    /\ wire' = Tail(wire)
    /\ UNCHANGED <<client, sent, pc, received_bytes, received_messages>>

\* The application may answer at any time, without having read the body.
Respond ==
    /\ pc = "app"
    /\ pc' = "done"
    /\ UNCHANGED <<client, sent, wire, received_bytes, received_messages, delivered>>

-----------------------------------------------------------------------------
Next ==
    \/ \E size \in Sizes, more \in BOOLEAN : SendChunk(size, more)
    \/ Disconnect
    \/ Read
    \/ Replay
    \/ ReadOn
    \/ Respond

\* The event loop resumes the middleware whenever a message is there.
Spec == Init /\ [][Next]_vars /\ WF_vars(Read)

-----------------------------------------------------------------------------
(* Properties                                                              *)

TypeOK ==
    /\ client \in {"sending", "complete", "gone"}
    /\ sent \in Nat
    /\ wire \in Seq(Message)
    /\ pc \in {"reading", "app", "rejected", "done"}
    /\ received_bytes \in Nat
    /\ received_messages \in Seq(Message)
    /\ delivered \in Seq(Message)

\* The application never sees a body over the limit, however it is cut into
\* chunks and whatever it receives after the replay (body_limit.py:42-70).
BodyWithinLimit ==
    \A i \in DOMAIN delivered : delivered[i].upto <= MAX_REQUEST_BODY_BYTES

\* The replay loses, repeats and reorders nothing: what the application got,
\* what is buffered for it and what is still to be received are the messages
\* of the client, one after the other (body_limit.py:34, 65-68).
ReplayIsFaithful ==
    /\ \A i \in DOMAIN delivered : delivered[i].number = i
    /\ \A i \in DOMAIN received_messages :
           received_messages[i].number = Len(delivered) + i
    /\ \A i \in DOMAIN wire :
           wire[i].number = Len(delivered) + Len(received_messages) + i

\* A request is rejected only for a body that is too long, and then the
\* application is never run (body_limit.py:46-60).
RejectedOnlyIfTooLong ==
    pc = "rejected" => sent > MAX_REQUEST_BODY_BYTES /\ delivered = << >>

\* The application runs only on a request that is all there, or that its
\* client abandoned: it never waits for body chunks itself.
AppRunsOnWholeBody ==
    pc \in {"app", "done"} => client # "sending"

\* A request that has ended, completed or abandoned, does not stay in the
\* loop.
LoopEnds ==
    client # "sending" ~> pc # "reading"
=============================================================================

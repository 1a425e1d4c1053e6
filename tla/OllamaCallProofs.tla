-------------------------- MODULE OllamaCallProofs ---------------------------
(***************************************************************************)
(* The limits of config/ollama.yaml, for any number of calls and any       *)
(* contents of the file.                                                   *)
(***************************************************************************)
EXTENDS OllamaCall, FiniteSetTheorems, TLAPS

(***************************************************************************)
(* The inductive invariant.  FromFile: a client in service is built of a   *)
(* file that was accepted, its four limits each from the field of that     *)
(* name.  OnTime: no wait is longer than its limit, so that one that ends  *)
(* at the limit has lasted exactly as long as the field says.              *)
(***************************************************************************)
Outcomes == {None, Answered} \cup DOMAIN ExecutionCode

Shape ==
    /\ ended \in [Calls -> Outcomes] /\ file \in Files
    /\ kept \in Nat /\ (~Serving => kept = 0)

FromFile ==
    Serving => /\ ValidFile(file)
               /\ client = [timeouts |-> ClientTimeouts(file.timeouts),
                            limits |-> ClientLimits(file.limits)]

OnTime == \A c \in Calls : phase[c] \in Waits => waited[c] <= Limit(c)

IInv ==
    /\ TypeOK /\ Shape /\ FromFile /\ OnTime
    /\ TimeoutNamesItsField /\ ConnectionsWithinLimits

-----------------------------------------------------------------------------
(* Facts of the operators                                                  *)

\* The code a wait ends with when its time is over, and the field it names.
LEMMA WaitNamesField ==
    ASSUME NEW w \in Waits, NEW t
    PROVE  /\ TransportCode(Exception(w)) \in TimeoutCodes \cup {"POOL_TIMEOUT"}
           /\ TransportCode(Exception(w)) \in Outcomes \ {None}
           /\ ClientTimeouts(t)[w] = t[FieldOf(TransportCode(Exception(w)))].n
<1>1. CASE w = "pool"
    BY <1>1, FilesAssumption DEF TransportCode, Exception, TimeoutCodes, FieldOf,
       ClientTimeouts, Outcomes, ExecutionCode
<1>2. CASE w = "connect"
    BY <1>2, FilesAssumption DEF TransportCode, Exception, TimeoutCodes, FieldOf,
       ClientTimeouts, Outcomes, ExecutionCode
<1>3. CASE w = "write"
    BY <1>3, FilesAssumption DEF TransportCode, Exception, TimeoutCodes, FieldOf,
       ClientTimeouts, Outcomes, ExecutionCode
<1>4. CASE w = "read"
    BY <1>4, FilesAssumption DEF TransportCode, Exception, TimeoutCodes, FieldOf,
       ClientTimeouts, Outcomes, ExecutionCode
<1> QED BY <1>1, <1>2, <1>3, <1>4 DEF Waits

\* A lost connection is no timeout.
LEMMA DropNamesNoField ==
    /\ TransportCode("ReadError") \in Outcomes \ {None}
    /\ TransportCode("ReadError") \notin TimeoutCodes \cup {"POOL_TIMEOUT"}
    /\ Answered \in Outcomes \ {None}
    /\ Answered \notin TimeoutCodes \cup {"POOL_TIMEOUT"}
    /\ None \notin TimeoutCodes \cup {"POOL_TIMEOUT"}
BY FilesAssumption DEF TransportCode, Outcomes, ExecutionCode, TimeoutCodes, Answered

\* What an accepted file gives the client.
LEMMA BuiltOfValid ==
    ASSUME NEW f \in Files, ValidFile(f)
    PROVE  /\ ClientTimeouts(f.timeouts) \in [Waits -> 1..MaxWait - 1]
           /\ ClientLimits(f.limits).connections = f.limits.max_connections.n
           /\ ClientLimits(f.limits).kept = f.limits.max_keepalive_connections.n
           /\ f.limits.max_connections.n \in Nat \ {0}
           /\ f.limits.max_keepalive_connections.n \in Nat
<1>1. \A t \in DOMAIN f.timeouts : f.timeouts[t].n \in 1..MaxWait - 1
    BY FilesAssumption DEF ValidFile, ValidTimeouts, PositiveFloat
<1>3. /\ f.limits.max_connections.n \in Int
      /\ f.limits.max_keepalive_connections.n \in Int
    BY FilesAssumption DEF ValidFile, ValidLimits, StrictInt
<1>2. /\ DOMAIN f.timeouts = {"connect_seconds", "read_seconds", "write_seconds", "pool_seconds"}
      /\ f.limits.max_connections.n > 0 /\ f.limits.max_keepalive_connections.n >= 0
    BY DEF ValidFile, ValidTimeouts, ValidLimits
<1>4. ClientTimeouts(f.timeouts) \in [Waits -> 1..MaxWait - 1]
    BY <1>1, <1>2 DEF ClientTimeouts, Waits
<1> QED BY <1>2, <1>3, <1>4 DEF ClientLimits

\* A call in a wait is in service.
LEMMA InService ==
    ASSUME IInv, NEW c \in Calls, phase[c] # "none"
    PROVE  /\ Serving /\ ValidFile(file) /\ file \in Files
           /\ client.timeouts = ClientTimeouts(file.timeouts)
           /\ client.limits = ClientLimits(file.limits)
BY DEF IInv, TypeOK, FromFile, Shape

\* Connections in use are finitely many, and one more or one less changes their
\* number by one.
LEMMA BusyNumber ==
    /\ IsFiniteSet(Busy) /\ Cardinality(Busy) \in Nat
    /\ \A c : /\ Cardinality(Busy \cup {c}) =
                     IF c \in Busy THEN Cardinality(Busy) ELSE Cardinality(Busy) + 1
              /\ Cardinality(Busy \ {c}) =
                     IF c \in Busy THEN Cardinality(Busy) - 1 ELSE Cardinality(Busy)
<1>1. IsFiniteSet(Busy)
    BY FS_Subset, FilesAssumption DEF Busy
<1> QED BY <1>1, FS_CardinalityType, FS_AddElement, FS_RemoveElement
-----------------------------------------------------------------------------
(* The steps                                                               *)

LEMMA InitIInv == Init => IInv
<1> SUFFICES ASSUME Init PROVE IInv
    OBVIOUS
<1>1. ~Serving /\ \A c \in Calls : phase[c] = "none" /\ ended[c] = None
    BY DEF Init, Serving
<1>2. TypeOK
    BY <1>1, FilesAssumption DEF Init, TypeOK
<1>3. Shape
    BY FilesAssumption DEF Init, Shape, Outcomes
<1>4. FromFile /\ OnTime /\ ConnectionsWithinLimits
    BY <1>1 DEF FromFile, OnTime, ConnectionsWithinLimits, Waits
<1>5. TimeoutNamesItsField
    BY <1>1, DropNamesNoField DEF TimeoutNamesItsField
<1> QED BY <1>2, <1>3, <1>4, <1>5 DEF IInv

\* Before it is loaded nothing runs; after, the client is the file's.
LEMMA LoadKeepsIInv ==
    ASSUME IInv, Load
    PROVE  IInv'
<1>1. \A c \in Calls : phase[c] = "none" /\ phase'[c] = "none"
    BY DEF IInv, TypeOK, Load, Serving
<1>2. FromFile'
    BY DEF Load, FromFile, Serving
<1>3. Serving' => ValidFile(file) /\ file \in Files /\ file' = file
    BY DEF Load, Serving, IInv, Shape
<1>4. TypeOK'
    BY <1>1, <1>2, <1>3, BuiltOfValid DEF IInv, TypeOK, Load, FromFile
<1>5. Shape' /\ OnTime' /\ TimeoutNamesItsField'
    BY <1>1 DEF IInv, Shape, OnTime, TimeoutNamesItsField, Load, Waits, Serving
<1>6. Open' = 0 /\ kept' = 0
    <2>1. Busy' = {}
        BY <1>1 DEF Busy, Waits
    <2> QED BY <2>1, FS_EmptySet DEF Open, Load, IInv, Shape, Serving
<1>7. ConnectionsWithinLimits'
    BY <1>3, <1>6, BuiltOfValid DEF ConnectionsWithinLimits
<1> QED BY <1>2, <1>4, <1>5, <1>7 DEF IInv

\* A call that enters a wait has spent no time in it.
LEMMA EnteringKeepsTime ==
    ASSUME IInv, Serving, NEW c \in Calls, phase[c] # "ended", NEW w \in Waits, Enter(c, w),
           UNCHANGED <<file, client, ended>>, kept' \in Nat,
           pieces' \in [Calls -> 0..MaxPieces]
    PROVE  TypeOK' /\ Shape' /\ FromFile' /\ OnTime' /\ TimeoutNamesItsField'
<1>1. TypeOK' /\ Shape' /\ FromFile'
    <2>1. phase' \in [Calls -> Waits \cup {"none", "ended"}] /\ waited' \in [Calls -> 0..MaxWait]
        BY FilesAssumption DEF IInv, TypeOK, Enter
    <2>2. Serving' /\ Shape' /\ FromFile'
        BY DEF IInv, Shape, FromFile, Serving
    <2>3. \A d \in Calls : (ended'[d] # None) = (phase'[d] = "ended")
        <3>1. \A d \in Calls : phase'[d] = IF d = c THEN w ELSE phase[d]
            BY DEF IInv, TypeOK, Enter
        <3>2. w # "ended"
            BY DEF Waits
        <3> QED BY <3>1, <3>2 DEF IInv, TypeOK
    <2> QED BY <2>1, <2>2, <2>3 DEF IInv, TypeOK
<1>2. OnTime'
    <2> SUFFICES ASSUME NEW d \in Calls, phase'[d] \in Waits
                 PROVE  waited'[d] <= client.timeouts[phase'[d]]
        BY DEF OnTime, Limit
    <2>1. client.timeouts \in [Waits -> 1..MaxWait - 1]
        BY DEF IInv, TypeOK
    <2>2. d # c => phase'[d] = phase[d] /\ waited'[d] = waited[d]
        BY DEF IInv, TypeOK, Enter
    <2>3. d = c => waited'[d] = 0
        BY DEF IInv, TypeOK, Enter
    <2>4. d = c => waited'[d] <= client.timeouts[phase'[d]]
        BY <2>1, <2>3, FilesAssumption
    <2> QED BY <2>2, <2>4 DEF IInv, OnTime, Limit
<1>3. TimeoutNamesItsField'
    <2>1. ended[c] = None
        BY DEF IInv, TypeOK
    <2> QED BY <2>1, DropNamesNoField DEF IInv, TypeOK, TimeoutNamesItsField, Enter
<1> QED BY <1>1, <1>2, <1>3

\* A call that ends keeps the time of its last wait.
LEMMA EndingKeepsTime ==
    ASSUME IInv, NEW c \in Calls, phase[c] \in Waits, NEW how \in Outcomes \ {None},
           End(c, how), kept' \in Nat,
           how \in TimeoutCodes \cup {"POOL_TIMEOUT"} =>
               waited[c] = file.timeouts[FieldOf(how)].n /\ waited[c] > 0
    PROVE  TypeOK' /\ Shape' /\ FromFile' /\ OnTime' /\ TimeoutNamesItsField'
<1>1. Serving
    BY InService DEF Waits
<1>2. TypeOK' /\ Shape' /\ FromFile'
    BY <1>1 DEF IInv, TypeOK, Shape, FromFile, End, Waits, Serving
<1>3. OnTime'
    BY DEF IInv, TypeOK, OnTime, End, Limit, Waits
<1>4. TimeoutNamesItsField'
    BY DEF IInv, TypeOK, Shape, TimeoutNamesItsField, End
<1> QED BY <1>2, <1>3, <1>4

\* Who holds a connection after a call has changed its place.
LEMMA BusyAfter ==
    ASSUME NEW c \in Calls, NEW w, phase \in [Calls -> Waits \cup {"none", "ended"}],
           phase' = [phase EXCEPT ![c] = w]
    PROVE  Busy' = IF w \in Waits \ {"pool"} THEN Busy \cup {c} ELSE Busy \ {c}
BY DEF Busy, Waits

LEMMA AskKeepsIInv ==
    ASSUME IInv, NEW c \in Calls, Ask(c)
    PROVE  IInv'
<1>1. Busy' = Busy
    BY BusyAfter DEF Ask, Enter, IInv, TypeOK, Busy, Waits
<1>2. ConnectionsWithinLimits'
    BY <1>1 DEF Ask, IInv, ConnectionsWithinLimits, Open, Serving
<1> QED BY <1>2, EnteringKeepsTime DEF IInv, Ask, Waits, Shape, TypeOK

\* Assigned, a connection that was kept is in use, or a new one is and there was room.
LEMMA AssignKeepsIInv ==
    ASSUME IInv, NEW c \in Calls, Assign(c)
    PROVE  IInv'
<1>1. Serving
    BY InService DEF Assign
<1>2. Cardinality(Busy') = Cardinality(Busy) + 1
    <2>1. c \notin Busy /\ Busy' = Busy \cup {c}
        BY BusyAfter DEF Assign, Enter, IInv, TypeOK, Busy, Waits
    <2> QED BY <2>1, BusyNumber
<1>3. client.limits.connections = file.limits.max_connections.n
      /\ file.limits.max_connections.n \in Nat
      /\ file.limits.max_keepalive_connections.n \in Nat
    BY InService, BuiltOfValid DEF Assign
<1>4. kept \in Nat /\ kept' \in Nat /\ file' = file /\ Cardinality(Busy) \in Nat
    BY BusyNumber DEF Assign, IInv, Shape
<1>5. ConnectionsWithinLimits'
    <2>1. CASE kept > 0
        BY <1>1, <1>2, <1>3, <1>4, <2>1 DEF Assign, IInv, ConnectionsWithinLimits, Open, Serving
    <2>2. CASE ~(kept > 0)
        <3>1. kept = 0 /\ kept' = 0 /\ Open < file.limits.max_connections.n
            BY <1>3, <1>4, <2>2 DEF Assign, CanAssign
        <3> QED BY <1>2, <1>3, <1>4, <3>1 DEF ConnectionsWithinLimits, Open
    <2> QED BY <2>1, <2>2
<1> QED BY <1>1, <1>4, <1>5, EnteringKeepsTime DEF IInv, Assign, Waits, TypeOK

\* From wait to wait, the connection stays in use.
LEMMA MovingKeepsIInv ==
    ASSUME IInv, NEW c \in Calls, Connected(c) \/ Written(c) \/ Piece(c)
    PROVE  IInv'
<1>1. Serving
    BY InService DEF Connected, Written, Piece
<1>2. PICK w \in {"write", "read"} : Enter(c, w)
    BY DEF Connected, Written, Piece
<1>3. Busy' = Busy
    BY <1>2, BusyAfter DEF Connected, Written, Piece, Enter, IInv, TypeOK, Busy, Waits
<1>4. ConnectionsWithinLimits'
    BY <1>3 DEF Connected, Written, Piece, IInv, ConnectionsWithinLimits, Open, Serving
<1>5. pieces' \in [Calls -> 0..MaxPieces]
    BY FilesAssumption DEF Connected, Written, Piece, IInv, TypeOK
<1> QED BY <1>1, <1>2, <1>4, <1>5, EnteringKeepsTime
           DEF IInv, Connected, Written, Piece, Waits, Shape

\* The connection of a call that ends is kept, if there is room, or closed.
LEMMA EndingKeepsConnections ==
    ASSUME IInv, NEW c \in Calls, phase[c] \in Waits, NEW how, End(c, how),
           \/ UNCHANGED kept
           \/ /\ c \in Busy
              /\ kept' = IF kept < client.limits.kept THEN kept + 1 ELSE kept
    PROVE  ConnectionsWithinLimits'
<1>1. /\ client.limits.kept = file.limits.max_keepalive_connections.n
      /\ file.limits.max_connections.n \in Nat
      /\ file.limits.max_keepalive_connections.n \in Nat /\ Serving
    BY InService, BuiltOfValid DEF Waits
<1>2. Busy' = Busy \ {c}
    <2>1. phase' = [phase EXCEPT ![c] = "ended"]
        BY DEF End
    <2>2. phase \in [Calls -> Waits \cup {"none", "ended"}]
        BY DEF IInv, TypeOK
    <2>3. "ended" \notin Waits
        BY DEF Waits
    <2> QED BY <2>1, <2>2, <2>3 DEF Busy
<1>3. Cardinality(Busy') = IF c \in Busy THEN Cardinality(Busy) - 1 ELSE Cardinality(Busy)
    BY <1>2, BusyNumber
<1>4. kept \in Nat /\ Cardinality(Busy) \in Nat /\ file' = file
    BY BusyNumber DEF IInv, Shape, End
<1> QED BY <1>1, <1>3, <1>4 DEF IInv, ConnectionsWithinLimits, Open, Serving

LEMMA ReplyKeepsIInv ==
    ASSUME IInv, NEW c \in Calls, Reply(c)
    PROVE  IInv'
<1>1. phase[c] \in Waits /\ c \in Busy
    BY DEF Reply, Waits, Busy
<1>2. kept' \in Nat
    BY DEF Reply, IInv, Shape
<1>3. ConnectionsWithinLimits'
    BY <1>1, EndingKeepsConnections DEF Reply
<1> QED BY <1>1, <1>2, <1>3, DropNamesNoField, EndingKeepsTime DEF Reply, IInv

\* What ends for its time has waited as long as the field says.
LEMMA TimeOutKeepsIInv ==
    ASSUME IInv, NEW c \in Calls, TimeOut(c)
    PROVE  IInv'
<1>1. phase[c] \in Waits /\ waited[c] = client.timeouts[phase[c]]
    BY DEF TimeOut, Limit
<1>2. /\ client.timeouts = ClientTimeouts(file.timeouts)
      /\ client.timeouts \in [Waits -> 1..MaxWait - 1]
    BY <1>1, InService DEF Waits, IInv, TypeOK
<1>3. waited[c] = file.timeouts[FieldOf(TransportCode(Exception(phase[c])))].n
      /\ waited[c] > 0
    BY <1>1, <1>2, WaitNamesField, FilesAssumption
<1>4. ConnectionsWithinLimits'
    BY <1>1, EndingKeepsConnections DEF TimeOut
<1> QED BY <1>1, <1>3, <1>4, WaitNamesField, EndingKeepsTime DEF TimeOut, IInv, Shape

LEMMA DropKeepsIInv ==
    ASSUME IInv, NEW c \in Calls, Drop(c)
    PROVE  IInv'
<1>1. phase[c] \in Waits
    BY DEF Drop, Busy
<1>2. ConnectionsWithinLimits'
    BY <1>1, EndingKeepsConnections DEF Drop
<1> QED BY <1>1, <1>2, DropNamesNoField, EndingKeepsTime DEF Drop, IInv, Shape

\* Time passes only for calls whose limit is not reached.
LEMMA TickKeepsIInv ==
    ASSUME IInv, Tick
    PROVE  IInv'
<1>1. waited' \in [Calls -> 0..MaxWait]
      /\ \A c \in Calls : phase[c] \notin Waits => waited'[c] = waited[c]
    BY FilesAssumption DEF Tick, IInv, TypeOK
<1>2. TypeOK' /\ Shape' /\ FromFile'
    BY <1>1 DEF Tick, IInv, TypeOK, Shape, FromFile, Serving
<1>3. OnTime'
    <2> SUFFICES ASSUME NEW c \in Calls, phase[c] \in Waits
                 PROVE  waited'[c] <= Limit(c)
        BY DEF Tick, OnTime, Limit
    <2>1. waited[c] \in 0..MaxWait /\ Limit(c) \in 1..MaxWait - 1
        BY DEF Tick, IInv, TypeOK, Limit
    <2>2. waited[c] <= Limit(c) /\ waited[c] # Limit(c)
        BY DEF Tick, IInv, OnTime
    <2> QED BY <2>1, <2>2, FilesAssumption DEF Tick
<1>4. TimeoutNamesItsField'
    <2>1. \A c \in Calls : ended[c] # None => phase[c] \notin Waits
        BY DEF IInv, TypeOK, Waits
    <2> QED BY <1>1, <2>1, DropNamesNoField DEF Tick, IInv, TimeoutNamesItsField
<1>5. ConnectionsWithinLimits'
    BY DEF Tick, IInv, ConnectionsWithinLimits, Serving, Open, Busy
<1> QED BY <1>2, <1>3, <1>4, <1>5 DEF IInv

LEMMA ExpireKeepsIInv ==
    ASSUME IInv, Expire
    PROVE  IInv'
<1>1. kept \in Nat /\ kept' \in Nat /\ kept' < kept
    BY DEF Expire, IInv, Shape
<1>2. TypeOK' /\ Shape' /\ FromFile' /\ OnTime' /\ TimeoutNamesItsField'
    BY <1>1 DEF Expire, IInv, TypeOK, Shape, FromFile, OnTime, Limit, TimeoutNamesItsField,
                Serving
<1>3. ConnectionsWithinLimits'
    <2> SUFFICES ASSUME Serving PROVE ConnectionsWithinLimits'
        BY DEF Expire, ConnectionsWithinLimits, Serving
    <2>1. Busy' = Busy /\ Cardinality(Busy) \in Nat
        BY BusyNumber DEF Expire, Busy
    <2>2. file.limits.max_connections.n \in Nat /\ file.limits.max_keepalive_connections.n \in Nat
        BY BuiltOfValid DEF IInv, FromFile, Shape
    <2> QED BY <1>1, <2>1, <2>2 DEF Expire, IInv, ConnectionsWithinLimits, Open, Serving
<1> QED BY <1>2, <1>3 DEF IInv

LEMMA NextKeepsIInv == IInv /\ [Next]_vars => IInv'
<1> SUFFICES ASSUME IInv, [Next]_vars PROVE IInv'
    OBVIOUS
<1>1. CASE UNCHANGED vars
    BY <1>1 DEF vars, IInv, TypeOK, Shape, FromFile, OnTime, Limit, TimeoutNamesItsField,
                ConnectionsWithinLimits, Serving, Open, Busy
<1> QED BY <1>1, LoadKeepsIInv, ExpireKeepsIInv, TickKeepsIInv, AskKeepsIInv,
           AssignKeepsIInv, MovingKeepsIInv, ReplyKeepsIInv, TimeOutKeepsIInv,
           DropKeepsIInv DEF Next

LEMMA Invariance == Spec => []IInv
BY InitIInv, NextKeepsIInv, PTL DEF Spec

-----------------------------------------------------------------------------
(* The theorems                                                            *)

\* Types; every wait of a client in service has a limit, and it is finite
\* (config.py:30-58).
THEOREM TypeCorrect == Spec => []TypeOK
BY Invariance, PTL DEF IInv

\* A timeout is reported under the field that ran out, after exactly that long
\* (factory.py:17-22, httpx2_transport.py:42-68).
THEOREM TimeoutNamed == Spec => []TimeoutNamesItsField
BY Invariance, PTL DEF IInv

\* Connections stay within the limits of the file (factory.py:24-36).
THEOREM ConnectionsBounded == Spec => []ConnectionsWithinLimits
BY Invariance, PTL DEF IInv
=============================================================================

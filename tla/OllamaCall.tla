----------------------------- MODULE OllamaCall ------------------------------
(***************************************************************************)
(* config/ollama.yaml from the file to the wire: the validation of its     *)
(* values (ollama_execution/config.py, config_loader.py), the client the   *)
(* factory builds of them (factory.py), and the time that client gives     *)
(* each part of a call.                                                    *)
(*                                                                         *)
(* Time is counted in seconds that pass for all calls at once.  A value of *)
(* the file is [type, n], n a number or Infinite (which stands for nan     *)
(* too); an address keeps, of each part of a URL, what the validator tells *)
(* apart.  The client is external: it waits for a connection, connects     *)
(* unless one was kept alive, sends the request, and reads the reply in    *)
(* pieces, and it gives each of these waits, each piece included, a limit  *)
(* of its own (TLS, a second wait like that of connecting, is left out).   *)
(* PromptService has these calls without time.                             *)
(***************************************************************************)
EXTENDS OllamaExecution, FiniteSets

CONSTANTS
    Calls,      \* the calls that may be made
    Files,      \* the contents config/ollama.yaml may have
    Infinite, Refused,
    MaxWait,    \* bound: seconds told apart, more than any finite limit in Files
    MaxPieces   \* bound: pieces of a reply before its last

VARIABLES
    file,       \* what config/ollama.yaml holds
    client,     \* the client built from it; None before, Refused if it is not valid
    phase,      \* where each call is
    waited,     \* seconds since the call entered this wait
    pieces,     \* pieces of the reply each call has read
    kept,       \* connections kept alive, idle
    ended       \* how each call ended: a transport code, or Answered

vars == <<file, client, phase, waited, pieces, kept, ended>>

Answered == "Answered"
Waits == {"pool", "connect", "write", "read"}

Init ==
    /\ file \in Files /\ client = None
    /\ phase = [c \in Calls |-> "none"] /\ ended = [c \in Calls |-> None]
    /\ waited = [c \in Calls |-> 0] /\ pieces = [c \in Calls |-> 0]
    /\ kept = 0

-----------------------------------------------------------------------------
(* The file                                                                *)

\* A strict float, finite and greater than zero; the mutant allows the infinite.
PositiveFloatAny(v) == v.type = "float" /\ (v.n = Infinite \/ v.n > 0)

PositiveFloat(v) == v.type = "float" /\ v.n # Infinite /\ v.n > 0

StrictInt(v) == v.type = "int"

\* OllamaTimeoutConfig and OllamaConnectionLimits: no field missing, no other.
ValidTimeouts(t) ==
    /\ DOMAIN t = {"connect_seconds", "read_seconds", "write_seconds", "pool_seconds"}
    /\ \A f \in DOMAIN t : PositiveFloat(t[f])

ValidLimits(l) ==
    /\ DOMAIN l = {"max_connections", "max_keepalive_connections",
                   "keepalive_expiry_seconds"}
    /\ StrictInt(l.max_connections) /\ l.max_connections.n > 0
    /\ StrictInt(l.max_keepalive_connections) /\ l.max_keepalive_connections.n >= 0
    /\ PositiveFloat(l.keepalive_expiry_seconds)
    /\ l.max_keepalive_connections.n <= l.max_connections.n

\* validate_base_url
ValidUrl(u) ==
    /\ u.scheme \in {"http", "https"} /\ u.host /\ u.port # "invalid"
    /\ ~u.credentials /\ ~u.query /\ ~u.fragment /\ ~u.space
    /\ u.path \in {"", "/"}

ValidFile(f) == ValidTimeouts(f.timeouts) /\ ValidLimits(f.limits) /\ ValidUrl(f.base_url)

\* Numbers are numbers, and no finite timeout is longer than the seconds told apart.
ASSUME FilesAssumption ==
    /\ MaxWait \in Nat /\ MaxPieces \in Nat /\ IsFiniteSet(Calls)
    /\ None \notin {Answered} \cup DOMAIN ExecutionCode
    /\ \A f \in Files :
           /\ \A t \in DOMAIN f.timeouts :
                  \/ f.timeouts[t].n = Infinite
                  \/ f.timeouts[t].n \in Int /\ f.timeouts[t].n < MaxWait
           /\ \A l \in DOMAIN f.limits :
                  f.limits[l].type = "int" => f.limits[l].n \in Int

-----------------------------------------------------------------------------
(* The client                                                              *)

\* httpx2.Timeout, by the names of the file; the mutant mixes two of them up.
ClientTimeoutsMixed(t) ==
    [pool |-> t.pool_seconds.n, connect |-> t.read_seconds.n,
     write |-> t.write_seconds.n, read |-> t.connect_seconds.n]

ClientTimeouts(t) ==
    [pool |-> t.pool_seconds.n, connect |-> t.connect_seconds.n,
     write |-> t.write_seconds.n, read |-> t.read_seconds.n]

\* httpx2.Limits, in the same way.
ClientLimitsMixed(l) ==
    [connections |-> l.max_connections.n, kept |-> l.max_connections.n]

ClientLimits(l) ==
    [connections |-> l.max_connections.n, kept |-> l.max_keepalive_connections.n]

\* load_ollama_client_config and create_ollama_executor, in the start of the lifespan.
Load ==
    /\ client = None
    /\ client' = IF ValidFile(file)
                 THEN [timeouts |-> ClientTimeouts(file.timeouts),
                       limits |-> ClientLimits(file.limits)]
                 ELSE Refused
    /\ UNCHANGED <<file, phase, waited, pieces, kept, ended>>

-----------------------------------------------------------------------------
(* A call                                                                  *)

Serving == client \notin {None, Refused}

In(p) == {c \in Calls : phase[c] = p}

Busy == {c \in Calls : phase[c] \in Waits \ {"pool"}}

Open == Cardinality(Busy) + kept

Limit(c) == client.timeouts[phase[c]]

Enter(c, p) == phase' = [phase EXCEPT ![c] = p] /\ waited' = [waited EXCEPT ![c] = 0]

Ask(c) ==
    /\ Serving /\ phase[c] = "none"
    /\ Enter(c, "pool")
    /\ UNCHANGED <<file, client, pieces, kept, ended>>

\* A connection kept alive is used before a new one is opened.
CanAssign == kept > 0 \/ Open < client.limits.connections

Assign(c) ==
    /\ phase[c] = "pool" /\ CanAssign
    /\ Enter(c, IF kept > 0 THEN "write" ELSE "connect")
    /\ kept' = IF kept > 0 THEN kept - 1 ELSE 0
    /\ UNCHANGED <<file, client, pieces, ended>>

Connected(c) ==
    /\ phase[c] = "connect"
    /\ Enter(c, "write")
    /\ UNCHANGED <<file, client, pieces, kept, ended>>

Written(c) ==
    /\ phase[c] = "write"
    /\ Enter(c, "read")
    /\ UNCHANGED <<file, client, pieces, kept, ended>>

\* A piece of the reply, which starts the wait for the next.
Piece(c) ==
    /\ phase[c] = "read" /\ pieces[c] < MaxPieces
    /\ Enter(c, "read") /\ pieces' = [pieces EXCEPT ![c] = @ + 1]
    /\ UNCHANGED <<file, client, kept, ended>>

End(c, how) ==
    /\ phase' = [phase EXCEPT ![c] = "ended"] /\ ended' = [ended EXCEPT ![c] = how]
    /\ UNCHANGED <<file, client, waited, pieces>>

\* The last piece: the connection is kept if there are not too many already.
Reply(c) ==
    /\ phase[c] = "read"
    /\ End(c, Answered)
    /\ kept' = IF kept < client.limits.kept THEN kept + 1 ELSE kept

Exception(wait) ==
    CASE wait = "pool" -> "PoolTimeout"   [] wait = "connect" -> "ConnectTimeout"
      [] wait = "write" -> "WriteTimeout" [] OTHER -> "ReadTimeout"

\* The time of a wait is over, and chat reports it by its code.
TimeOut(c) ==
    /\ phase[c] \in Waits /\ waited[c] = Limit(c)
    /\ End(c, TransportCode(Exception(phase[c]))) /\ UNCHANGED kept

\* Ollama or the network drops a connection, in use or kept.
Drop(c) ==
    /\ c \in Busy
    /\ End(c, TransportCode("ReadError")) /\ UNCHANGED kept

Expire ==
    /\ kept > 0 /\ kept' = kept - 1
    /\ UNCHANGED <<file, client, phase, waited, pieces, ended>>

\* A second passes, unless a timer is due or a connection can be given out.
Tick ==
    /\ Serving /\ \E c \in Calls : phase[c] \in Waits
    /\ \A c \in Calls : phase[c] \in Waits => waited[c] # Limit(c)
    /\ In("pool") # {} => ~CanAssign
    /\ waited' = [c \in Calls |-> IF phase[c] \in Waits /\ waited[c] < MaxWait
                                  THEN waited[c] + 1 ELSE waited[c]]
    /\ UNCHANGED <<file, client, phase, pieces, kept, ended>>

Next ==
    \/ Load \/ Expire \/ Tick
    \/ \E c \in Calls :
           \/ Ask(c) \/ Assign(c) \/ Connected(c) \/ Written(c)
           \/ Piece(c) \/ Reply(c) \/ TimeOut(c) \/ Drop(c)

\* Time passes, and the client acts when it can.  Ollama owes nothing.
Spec ==
    /\ Init /\ [][Next]_vars
    /\ WF_vars(Tick) /\ \A c \in Calls : WF_vars(Assign(c)) /\ WF_vars(TimeOut(c))

-----------------------------------------------------------------------------
(* Properties                                                              *)

FieldOf(code) ==
    CASE code = "POOL_TIMEOUT"    -> "pool_seconds"
      [] code = "CONNECT_TIMEOUT" -> "connect_seconds"
      [] code = "WRITE_TIMEOUT"   -> "write_seconds"
      [] OTHER                    -> "read_seconds"

\* The type invariant: in particular every wait of a client in service has a limit,
\* and no call is under way without a client (config.py:30-58, config_loader.py:18).
TypeOK ==
    /\ phase \in [Calls -> Waits \cup {"none", "ended"}]
    /\ waited \in [Calls -> 0..MaxWait] /\ pieces \in [Calls -> 0..MaxPieces]
    /\ \A c \in Calls : (ended[c] # None) = (phase[c] = "ended")
    /\ Serving => client.timeouts \in [Waits -> 1..MaxWait - 1]
    /\ ~Serving => \A c \in Calls : phase[c] = "none"

\* What a call that took too long reports is the limit of the file that ran out:
\* it waited exactly as long as the field of that name says, which is never no
\* time at all (config.py:30-58, factory.py:17-22, httpx2_transport.py:42-68).
TimeoutNamesItsField ==
    \A c \in Calls :
        ended[c] \in TimeoutCodes \cup {"POOL_TIMEOUT"} =>
            waited[c] = file.timeouts[FieldOf(ended[c])].n /\ waited[c] > 0

\* Calls and connections kept alive together never hold more connections than the
\* file allows, and no more are kept than it says (config.py:87-100, factory.py:24-36).
ConnectionsWithinLimits ==
    Serving => /\ Open <= file.limits.max_connections.n
               /\ kept <= file.limits.max_keepalive_connections.n

\* Whatever valid file there is and however silent Ollama is, every call ends
\* (config.py:16-19: no timeout is infinite).
EveryCallEnds == \A c \in Calls : phase[c] = "pool" ~> phase[c] = "ended"
=============================================================================

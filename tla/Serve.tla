-------------------------------- MODULE Serve --------------------------------
(***************************************************************************)
(* "villaz-router serve" as a process under a supervisor: the command line *)
(* (cli.py), the packaged configuration it serves from unless told         *)
(* otherwise (runtime_resources.py), create_app, the server it runs, and   *)
(* the exit status the supervisor decides by.                              *)
(*                                                                         *)
(* Reading the configuration, seven files in Startup, is one step here: it *)
(* succeeds if the tree is there and sound.  The server is external:       *)
(* uvicorn runs the start of the lifespan, then binds; it leaves by        *)
(* SystemExit when either fails, returns after an interrupt, and raises a  *)
(* SIGTERM it was stopped by once more when it is done, which ends the     *)
(* process where it stands.  The supervisor is systemd with                *)
(* Restart=on-failure (docs/PROJECT_STATUS.md:79).                         *)
(***************************************************************************)
EXTENDS Naturals

CONSTANTS
    None,
    MaxCrashes   \* bound: times the process is killed from outside

VARIABLES
    command,    \* [root, valid]: the tree named, and whether the arguments parse
    zipped,     \* the package is imported from an archive, not from files
    sound,      \* which trees hold a configuration that loads
    port_free,  \* no other process listens on the port
    pc,         \* how far the process is
    tree,       \* a copy of the packaged tree is extracted for this process
    loaded,     \* the tree the running application was loaded from
    code,       \* the exit status the process is about to end with
    exit,       \* how the last process ended
    wanted,     \* the operator has not stopped the service
    crashes

given == <<command, zipped>>
world == <<sound, port_free>>
process == <<pc, tree, loaded, code, exit>>
vars == <<given, world, process, wanted, crashes>>

Roots == {"packaged", "override"}

\* The status a shell reports for a process a signal ended.
SIGTERM == 143
SIGKILL == 137

Init ==
    /\ command \in [root : Roots, valid : BOOLEAN]
    /\ zipped \in BOOLEAN
    /\ sound \in {s \in [Roots -> BOOLEAN] : s["packaged"]}
    /\ port_free \in BOOLEAN
    /\ pc = "off" /\ tree = FALSE /\ loaded = None /\ code = None /\ exit = None
    /\ wanted = TRUE /\ crashes = 0

-----------------------------------------------------------------------------
(* The process                                                             *)

\* main and _serve up to the call of _run_server: the arguments are parsed (the
\* parser exits with 2), and the packaged tree is entered if none was named.
Parse ==
    /\ pc = "off" /\ wanted
    /\ IF command.valid
       THEN pc' = "entered" /\ tree' = (command.root = "packaged" /\ zipped)
            /\ UNCHANGED <<code, exit>>
       ELSE pc' = "exited" /\ exit' = 2 /\ UNCHANGED <<tree, code>>
    /\ loaded' = None
    /\ UNCHANGED <<given, world, wanted, crashes>>

\* The tree the application is created with
ChosenRoot == command.root

Present(root) == root = "override" \/ ~zipped \/ tree

Loads(root) == Present(root) /\ sound[root]

\* create_app, which reads nothing.  The mutant leaves the packaged tree first.
CreateAppOutside ==
    /\ pc = "entered"
    /\ pc' = "created" /\ tree' = FALSE
    /\ UNCHANGED <<given, world, loaded, code, exit, wanted, crashes>>

CreateApp ==
    /\ pc = "entered"
    /\ pc' = "created"
    /\ UNCHANGED <<given, world, tree, loaded, code, exit, wanted, crashes>>

\* The start of the lifespan.  The mutant reports a failure as success.
LoadQuietly ==
    /\ pc = "created"
    /\ IF Loads(ChosenRoot)
       THEN pc' = "loaded" /\ loaded' = ChosenRoot /\ UNCHANGED code
       ELSE pc' = "leaving" /\ code' = 0 /\ UNCHANGED loaded
    /\ UNCHANGED <<given, world, tree, exit, wanted, crashes>>

Load ==
    /\ pc = "created"
    /\ IF Loads(ChosenRoot)
       THEN pc' = "loaded" /\ loaded' = ChosenRoot /\ UNCHANGED code
       ELSE pc' = "leaving" /\ code' = 3 /\ UNCHANGED loaded
    /\ UNCHANGED <<given, world, tree, exit, wanted, crashes>>

\* The server binds once the lifespan has started, and ends it again if it cannot.
Bind ==
    /\ pc = "loaded"
    /\ IF port_free THEN pc' = "serving" /\ UNCHANGED code
                    ELSE pc' = "leaving" /\ code' = 1
    /\ UNCHANGED <<given, world, tree, loaded, exit, wanted, crashes>>

\* The with statement of _serve is left, by return or by exception; the mutant
\* cleans up only after a return.
LeaveOnReturn ==
    /\ pc = "leaving"
    /\ pc' = "exited" /\ exit' = code
    /\ tree' = (tree /\ code # 0) /\ loaded' = None /\ code' = None
    /\ UNCHANGED <<given, world, wanted, crashes>>

Leave ==
    /\ pc = "leaving"
    /\ pc' = "exited" /\ exit' = code
    /\ tree' = FALSE /\ loaded' = None /\ code' = None
    /\ UNCHANGED <<given, world, wanted, crashes>>

-----------------------------------------------------------------------------
(* The operator, the supervisor and the machine                            *)

\* An interrupt lets uvicorn.run return; SIGTERM ends the process in it.
Interrupt ==
    /\ pc = "serving"
    /\ pc' = "leaving" /\ code' = 0 /\ wanted' = FALSE
    /\ UNCHANGED <<given, world, tree, loaded, exit, crashes>>

Die(signal) ==
    /\ pc' = "exited" /\ exit' = signal /\ loaded' = None /\ code' = None
    /\ UNCHANGED <<given, world, tree>>

Terminate ==
    /\ pc = "serving"
    /\ wanted' = FALSE
    /\ Die(SIGTERM) /\ UNCHANGED crashes

Crash ==
    /\ pc \notin {"off", "exited"} /\ crashes < MaxCrashes
    /\ crashes' = crashes + 1
    /\ Die(SIGKILL) /\ UNCHANGED wanted

\* Restart=on-failure: 0 and SIGTERM are no failures.
Restart ==
    /\ pc = "exited" /\ exit \notin {0, SIGTERM} /\ wanted
    /\ pc' = "off" /\ tree' = FALSE
    /\ UNCHANGED <<given, world, loaded, code, exit, wanted, crashes>>

\* The operator breaks or mends the tree of --configuration-root; another process
\* takes or frees the port.
Change ==
    /\ \/ \E s \in BOOLEAN : sound' = [sound EXCEPT !["override"] = s]
          /\ UNCHANGED port_free
       \/ pc # "serving" /\ port_free' \in BOOLEAN /\ UNCHANGED sound
    /\ UNCHANGED <<given, process, wanted, crashes>>

Run == Parse \/ CreateApp \/ Load \/ Bind \/ Leave

Next == Run \/ Interrupt \/ Terminate \/ Crash \/ Restart \/ Change

\* The process and the supervisor go on; nothing is owed by the others.
Spec == Init /\ [][Next]_vars /\ WF_vars(Run) /\ WF_vars(Restart)

-----------------------------------------------------------------------------
(* Properties                                                              *)

\* The type invariant: in particular something is loaded exactly from the end of a
\* start to the end of the process, and only from the tree the operator chose,
\* never from the other one in its stead (cli.py:71-84, docs/INSTALLATION.md:132).
TypeOK ==
    /\ command \in [root : Roots, valid : BOOLEAN] /\ zipped \in BOOLEAN
    /\ sound \in [Roots -> BOOLEAN] /\ port_free \in BOOLEAN
    /\ pc \in {"off", "entered", "created", "loaded", "serving", "leaving", "exited"}
    /\ {tree, wanted} \subseteq BOOLEAN
    /\ loaded \in Roots \cup {None} /\ code \in {None, 0, 1, 3}
    /\ exit \in {None, 0, 1, 2, 3, SIGTERM, SIGKILL}
    /\ pc \in {"loaded", "serving"} => loaded = command.root

\* A start fails only because of the tree the operator named or of the port: the
\* packaged tree, extracted or not, is there for as long as the server may read it
\* (cli.py:79-84, runtime_resources.py:10-15).
FailureIsTheTrees ==
    [][pc = "created" /\ pc' = "leaving" => ~sound[command.root]]_vars

\* A process that ends by itself, well or not, leaves no extracted copy behind; only
\* a signal does.
CleansUp == pc = "exited" /\ exit \in {0, 1, 2, 3} => ~tree

\* A failure is visible to the supervisor: whatever went wrong before, a service
\* nobody stopped serves in the end, once its tree is sound and its port free.
ComesBack ==
    command.valid =>
        (<>[](sound[command.root] /\ port_free /\ wanted) => <>[](pc = "serving"))
=============================================================================

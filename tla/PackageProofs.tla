----------------------------- MODULE PackageProofs -----------------------------
(***************************************************************************)
(* The package, from its release to its service: what was built, inspected *)
(* and checked, for any files and modules, any number of edits and any     *)
(* leftovers of earlier builds (Release); and the process that serves from *)
(* it, for any number of crashes (Serve).                                  *)
(***************************************************************************)
EXTENDS Release, Serve, TLAPS

-----------------------------------------------------------------------------
(* The release                                                             *)

(***************************************************************************)
(* The inductive invariant.  Fresh: as long as the steps after a build     *)
(* pass, dist holds the two artefacts of that build, made from the source  *)
(* as it still is.  Single: past the inspection it holds no others.        *)
(* Chosen: so the wheel that is installed is the one built.  Covered:      *)
(* nothing leaves build/lib, so that it covers every wheel in dist.        *)
(***************************************************************************)
Within(F, G) == F.data \subseteq G.data /\ F.code \subseteq G.code

Covered == \A a \in dist : a.kind = "wheel" => Within(a.files, build_lib)

Types ==
    /\ source \in Files /\ drifted \subseteq source.data \cap RuntimeData
    /\ version \in 1..MaxVersion /\ edits \in 0..MaxEdits
    /\ build_lib \in Files /\ dist \subseteq Artefacts
    /\ step \in {"none", "built", "inspected", "installed", "checked", "helped"}
    /\ wheel \in Artefacts \cup {NoWheel} /\ tested \in BOOLEAN

Fresh ==
    step # "none" =>
        /\ Artefact("wheel", build_lib) \in dist /\ Artefact("sdist", source) \in dist
        /\ Within(source, build_lib)

Single ==
    step \in {"inspected", "installed", "checked", "helped"} =>
        /\ OfKind("wheel") = {Artefact("wheel", build_lib)}
        /\ OfKind("sdist") = {Artefact("sdist", source)}
        /\ ValidWheel(build_lib) /\ ValidSdist(source)

Chosen ==
    /\ wheel # NoWheel => wheel = Artefact("wheel", build_lib) /\ Within(source, build_lib)
    /\ step \in {"installed", "checked", "helped"} => wheel = Artefact("wheel", build_lib)
    /\ step \in {"checked", "helped"} => wheel.files.data = RuntimeData
    /\ step = "helped" => wheel.files.code = Code
    /\ tested => TestsPass

ReleaseInv == Types /\ Covered /\ Fresh /\ Single /\ Chosen

-----------------------------------------------------------------------------
\* Joining adds, and adds nothing to what covers it.
LEMMA UnionProperties ==
    ASSUME NEW F \in Files, NEW G \in Files
    PROVE  /\ Union(F, G) \in Files
           /\ Within(F, Union(F, G)) /\ Within(G, Union(F, G))
           /\ Union(F, G) = G <=> Within(F, G)
<1>1. Union(F, G) \in Files
    BY DEF Union, Files
<1>2. Within(F, Union(F, G)) /\ Within(G, Union(F, G))
    BY DEF Union, Within
<1>3. ASSUME Within(F, G) PROVE Union(F, G) = G
    <2>1. F.data \cup G.data = G.data /\ F.code \cup G.code = G.code
        BY <1>3 DEF Within
    <2>2. G = [data |-> G.data, code |-> G.code]
        BY DEF Files
    <2> QED BY <2>1, <2>2 DEF Union
<1> QED BY <1>1, <1>2, <1>3

LEMMA ArtefactType ==
    ASSUME ReleaseInv, NEW kind \in {"wheel", "sdist"}, NEW F \in Files
    PROVE  Artefact(kind, F) \in Artefacts
BY DEF ReleaseInv, Types, Artefact, Artefacts

LEMMA ReleaseInitInv == ReleaseInit => ReleaseInv
<1> SUFFICES ASSUME ReleaseInit PROVE ReleaseInv
    OBVIOUS
<1>1. source \in Files /\ drifted \subseteq source.data \cap RuntimeData /\ build_lib \in Files
    BY DEF ReleaseInit, Files, NoFiles, Data
<1>2. version \in 1..MaxVersion /\ edits \in 0..MaxEdits
    BY BoundsAssumption DEF ReleaseInit
<1>3. Types
    BY <1>1, <1>2 DEF ReleaseInit, Types
<1>4. Covered /\ Fresh /\ Single /\ Chosen
    BY DEF ReleaseInit, Covered, Fresh, Single, Chosen
<1> QED BY <1>3, <1>4 DEF ReleaseInv

-----------------------------------------------------------------------------
\* An edit and a checkout end the job they happen in.
LEMMA EditKeepsInv ==
    ASSUME ReleaseInv, Edit
    PROVE  ReleaseInv'
<1>1. step' = "none" /\ wheel' = NoWheel /\ tested' = FALSE /\ UNCHANGED output
    BY DEF Edit
<1>2. edits' \in 0..MaxEdits
    BY BoundsAssumption DEF Edit, ReleaseInv, Types
<1>3. source' \in Files /\ drifted' \subseteq source'.data \cap RuntimeData
          /\ version' \in 1..MaxVersion
    <2>1. CASE \E f \in Data : source' = [source EXCEPT !.data = Toggled(@, f)]
               /\ drifted' = drifted \cap source'.data /\ UNCHANGED version
        BY <2>1 DEF ReleaseInv, Types, Files, Toggled
    <2>2. CASE /\ \E f \in Code : source' = [source EXCEPT !.code = Toggled(@, f)]
               /\ UNCHANGED <<drifted, version>>
        BY <2>2 DEF ReleaseInv, Types, Files, Toggled
    <2>3. CASE /\ \E f \in source.data \cap RuntimeData : drifted' = Toggled(drifted, f)
               /\ UNCHANGED <<source, version>>
        BY <2>3 DEF ReleaseInv, Types, Files, Toggled
    <2>4. CASE /\ version < MaxVersion /\ version' = version + 1
               /\ UNCHANGED <<source, drifted>>
        BY <2>4, BoundsAssumption DEF ReleaseInv, Types
    <2> QED BY <2>1, <2>2, <2>3, <2>4 DEF Edit
<1>4. Types'
    BY <1>1, <1>2, <1>3 DEF output, ReleaseInv, Types
<1>5. Covered' /\ Fresh' /\ Single' /\ Chosen'
    BY <1>1 DEF output, ReleaseInv, Covered, Fresh, Single, Chosen
<1> QED BY <1>4, <1>5 DEF ReleaseInv

LEMMA CheckoutKeepsInv ==
    ASSUME ReleaseInv, Checkout
    PROVE  ReleaseInv'
BY DEF Checkout, sources, NoFiles, Files, ReleaseInv, Types, Covered, Fresh, Single, Chosen, TestsPass

LEMMA TestKeepsInv ==
    ASSUME ReleaseInv, Test
    PROVE  ReleaseInv'
<1>1. /\ UNCHANGED <<source, drifted, version, edits, build_lib, dist, step, wheel>>
      /\ tested' = TestsPass
    BY DEF Test, sources, output
<1>2. tested' \in BOOLEAN /\ (tested' => TestsPass')
    BY <1>1 DEF TestsPass
<1> QED BY <1>1, <1>2 DEF ReleaseInv, Types, Covered, Fresh, Single, Chosen, Artefact,
                         OfKind, ValidWheel, ValidSdist

\* A build joins the source to build/lib and puts two artefacts into dist, in the
\* place of those that have their names.
LEMMA BuildKeepsInv ==
    ASSUME ReleaseInv, Build
    PROVE  ReleaseInv'
<1> DEFINE lib == Union(build_lib, source)
<1>1. /\ UNCHANGED <<source, drifted, version, edits, tested>>
      /\ build_lib' = lib /\ step' = "built" /\ wheel' = NoWheel
    BY DEF Build, sources
<1>2. /\ source \in Files /\ build_lib \in Files /\ lib \in Files
      /\ Within(build_lib, lib) /\ Within(source, lib)
    BY UnionProperties DEF ReleaseInv, Types
<1>3. \A kind, F : Artefact(kind, F)' = Artefact(kind, F)
    BY <1>1 DEF Artefact
<1>4. /\ Artefact("wheel", lib) \in dist' /\ Artefact("sdist", source) \in dist'
      /\ \A a \in dist' : a \in dist \/ a = Artefact("wheel", lib)
                                     \/ a = Artefact("sdist", source)
    BY DEF Build
<1> HIDE DEF lib
<1>5. dist' \subseteq Artefacts
    BY <1>2, <1>4, ArtefactType DEF ReleaseInv, Types
<1>6. Covered'
    <2>1. \A a \in dist : a.kind = "wheel" => Within(a.files, lib)
        BY <1>2 DEF ReleaseInv, Covered, Within
    <2>2. Artefact("wheel", lib).files = lib /\ Artefact("sdist", source).kind = "sdist"
        BY DEF Artefact
    <2>3. Within(lib, lib)
        BY DEF Within
    <2> QED BY <1>1, <1>4, <2>1, <2>2, <2>3 DEF Covered
<1>7. Fresh'
    BY <1>1, <1>2, <1>4 DEF Fresh, Artefact, Within
<1>8. Types' /\ Single' /\ Chosen'
    BY <1>1, <1>2, <1>5 DEF ReleaseInv, Types, Single, Chosen, TestsPass
<1> QED BY <1>6, <1>7, <1>8 DEF ReleaseInv

-----------------------------------------------------------------------------
\* The steps of a job change nothing but how far it is and what it installs.
JobOnly == UNCHANGED <<source, drifted, version, edits, build_lib, dist, tested>>

LEMMA JobKeepsTheRest ==
    ASSUME ReleaseInv, JobOnly, step' # "none" => step # "none",
           step' \in {"none", "built", "inspected", "installed", "checked", "helped"},
           wheel' \in Artefacts \cup {NoWheel}, Single', Chosen'
    PROVE  ReleaseInv'
<1>1. Types' /\ Covered'
    BY DEF JobOnly, ReleaseInv, Types, Covered
<1>2. Fresh'
    BY DEF JobOnly, ReleaseInv, Fresh, Artefact
<1> QED BY <1>1, <1>2 DEF ReleaseInv

\* An inspection that passes leaves no doubt about which artefacts it saw.
LEMMA InspectKeepsInv ==
    ASSUME ReleaseInv, Inspect
    PROVE  ReleaseInv'
<1>1. JobOnly /\ UNCHANGED wheel /\ step = "built" /\ step' \in {"inspected", "none"}
    BY DEF Inspect, Passed, JobOnly, sources, output
<1>2. Chosen'
    BY <1>1 DEF JobOnly, ReleaseInv, Chosen, Artefact, TestsPass
<1>3. ASSUME step' = "inspected" PROVE Single'
    <2>1. /\ ExactlyOne("wheel") /\ ExactlyOne("sdist")
          /\ \A a \in OfKind("wheel") : ValidWheel(a.files)
          /\ \A a \in OfKind("sdist") : ValidSdist(a.files)
        BY <1>3 DEF Inspect, Passed
    <2>2. Artefact("wheel", build_lib) \in OfKind("wheel")
          /\ Artefact("sdist", source) \in OfKind("sdist")
        BY <1>1 DEF ReleaseInv, Fresh, OfKind, Artefact
    <2>3. /\ OfKind("wheel") = {Artefact("wheel", build_lib)}
          /\ OfKind("sdist") = {Artefact("sdist", source)}
        BY <2>1, <2>2 DEF ExactlyOne
    <2>4. ValidWheel(build_lib) /\ ValidSdist(source)
        BY <2>1, <2>2 DEF Artefact
    <2> QED BY <1>1, <2>3, <2>4 DEF JobOnly, Single, OfKind, Artefact, ValidWheel,
                                    ValidSdist
<1>4. Single'
    BY <1>1, <1>3 DEF Single
<1> QED BY <1>1, <1>2, <1>4, JobKeepsTheRest DEF ReleaseInv, Types

LEMMA InstallKeepsInv ==
    ASSUME ReleaseInv, Install
    PROVE  ReleaseInv'
<1>1. JobOnly /\ step = "inspected" /\ step' = "installed" /\ wheel' \in OfKind("wheel")
    BY DEF Install, JobOnly, sources, output
<1>2. wheel' = Artefact("wheel", build_lib)
    BY <1>1 DEF ReleaseInv, Single
<1>3. Single'
    BY <1>1 DEF JobOnly, ReleaseInv, Single, OfKind, Artefact, ValidWheel, ValidSdist
<1>4. Chosen'
    BY <1>1, <1>2 DEF JobOnly, ReleaseInv, Fresh, Chosen, Artefact, TestsPass
<1>5. wheel' \in Artefacts
    BY <1>1 DEF OfKind, ReleaseInv, Types
<1> QED BY <1>1, <1>3, <1>4, <1>5, JobKeepsTheRest

LEMMA ChecksKeepInv ==
    ASSUME ReleaseInv, CheckInstalled \/ Help
    PROVE  ReleaseInv'
<1>1. /\ JobOnly /\ UNCHANGED wheel /\ step \in {"installed", "checked"}
      /\ \/ step' = "none"
         \/ step' = "checked" /\ wheel.files.data = RuntimeData
         \/ step = "checked" /\ step' = "helped" /\ wheel.files.code = Code
    BY DEF CheckInstalled, Help, Passed, JobOnly, sources, output
<1>2. Single'
    BY <1>1 DEF JobOnly, ReleaseInv, Single, OfKind, Artefact, ValidWheel, ValidSdist
<1>3. Chosen'
    BY <1>1 DEF JobOnly, ReleaseInv, Chosen, Artefact, TestsPass
<1> QED BY <1>1, <1>2, <1>3, JobKeepsTheRest DEF ReleaseInv, Types

LEMMA ReleaseNextKeepsInv == ReleaseInv /\ [ReleaseNext]_release_vars => ReleaseInv'
<1> SUFFICES ASSUME ReleaseInv, [ReleaseNext]_release_vars PROVE ReleaseInv'
    OBVIOUS
<1>1. CASE UNCHANGED release_vars
    BY <1>1 DEF release_vars, sources, output, ReleaseInv, Types, Covered, Fresh, Single, Chosen,
                Artefact, OfKind, ValidWheel, ValidSdist, TestsPass
<1> QED BY <1>1, EditKeepsInv, CheckoutKeepsInv, TestKeepsInv, BuildKeepsInv,
           InspectKeepsInv, InstallKeepsInv, ChecksKeepInv DEF ReleaseNext

LEMMA ReleaseInvariance == ReleaseSpec => []ReleaseInv
BY ReleaseInitInv, ReleaseNextKeepsInv, PTL DEF ReleaseSpec

-----------------------------------------------------------------------------
\* Types, and build/lib covers every wheel in dist.
THEOREM ReleaseTypeCorrect == ReleaseSpec => []ReleaseTypeOK
<1>1. ReleaseInv => ReleaseTypeOK
    <2> SUFFICES ASSUME ReleaseInv PROVE ReleaseTypeOK
        OBVIOUS
    <2>1. ASSUME NEW a \in OfKind("wheel") PROVE Union(a.files, build_lib) = build_lib
        <3>1. a.files \in Files /\ Within(a.files, build_lib)
            BY <2>1 DEF OfKind, ReleaseInv, Types, Covered, Artefacts
        <3> QED BY <3>1, UnionProperties DEF ReleaseInv, Types
    <2> QED BY <2>1 DEF ReleaseInv, Types, ReleaseTypeOK
<1> QED BY <1>1, ReleaseInvariance, PTL

\* What an earlier build left in build/lib hides no loss and no stray from the
\* inspection, although the sdist is not checked for strays
\* (validate_distribution.py:163, 231).
THEOREM SdistRebuilds == ReleaseSpec => []InspectedSdistRebuilds
<1>1. ReleaseInv => InspectedSdistRebuilds
    <2> SUFFICES ASSUME ReleaseInv, step \in {"inspected", "installed", "checked", "helped"},
                        NEW a \in OfKind("sdist")
                 PROVE  a.files.data = RuntimeData /\ Entries \subseteq a.files.code
        BY DEF InspectedSdistRebuilds
    <2>1. a.files = source /\ ValidWheel(build_lib) /\ ValidSdist(source)
        BY DEF ReleaseInv, Single, Artefact
    <2>2. Within(source, build_lib)
        BY DEF ReleaseInv, Fresh
    <2> QED BY <2>1, <2>2 DEF Within, ValidWheel, ValidSdist
<1> QED BY <1>1, ReleaseInvariance, PTL

\* The wheel that is checked is the one built, and once both jobs have passed it is
\* complete, exact and undrifted (validate_distribution.py:84-93,
\* validate_installed_package.py:9-65).
THEOREM ReleaseServes == ReleaseSpec => []CheckedServes
<1>1. ReleaseInv => CheckedServes
    <2> SUFFICES ASSUME ReleaseInv PROVE CheckedServes
        OBVIOUS
    <2>1. ASSUME wheel # NoWheel
          PROVE  wheel.version = version /\ Union(source, wheel.files) = wheel.files
        BY <2>1, UnionProperties DEF ReleaseInv, Types, Chosen, Artefact
    <2>2. ASSUME step = "helped", tested
          PROVE  /\ wheel.files = [data |-> RuntimeData, code |-> Code]
                 /\ wheel.drifted = {}
        <3>1. wheel = Artefact("wheel", build_lib) /\ TestsPass
            BY <2>2 DEF ReleaseInv, Chosen, Artefact
        <3>2. build_lib = [data |-> build_lib.data, code |-> build_lib.code]
            BY DEF ReleaseInv, Types, Files
        <3>3. wheel.files.data = RuntimeData /\ wheel.files.code = Code
            BY <2>2 DEF ReleaseInv, Chosen
        <3> QED BY <3>1, <3>2, <3>3 DEF Artefact, TestsPass
    <2> QED BY <2>1, <2>2 DEF CheckedServes
<1> QED BY <1>1, ReleaseInvariance, PTL

-----------------------------------------------------------------------------
(* The process                                                             *)

(***************************************************************************)
(* The inductive invariant.  Intact: the package's own tree is not edited. *)
(* Extracted: from the moment it is entered until the process has read it, *)
(* the packaged tree is there, extracted if it has to be.  Codes: the with *)
(* statement is left only with a status that was set.                      *)
(***************************************************************************)
Intact == sound["packaged"]

Extracted ==
    /\ pc = "off" => ~tree
    /\ pc \in {"entered", "created"} /\ command.root = "packaged" /\ zipped => tree

Codes == pc = "leaving" => code \in {0, 1, 3}

ServeInv == TypeOK /\ Intact /\ Extracted /\ Codes /\ CleansUp

LEMMA ServeInitInv == Init => ServeInv
BY DEF Init, ServeInv, TypeOK, Roots, Intact, Extracted, Codes, CleansUp

\* The steps of the process itself.
LEMMA RunKeepsInv ==
    ASSUME ServeInv, Run
    PROVE  ServeInv'
<1>1. CASE Parse
    BY <1>1 DEF Parse, given, world, ServeInv, TypeOK, Roots, Intact, Extracted, Codes, CleansUp,
                SIGTERM, SIGKILL
<1>2. CASE CreateApp
    BY <1>2 DEF CreateApp, given, world, ServeInv, TypeOK, Roots, Intact, Extracted, Codes, CleansUp
<1>3. CASE Load
    BY <1>3 DEF Load, ChosenRoot, given, world, ServeInv, TypeOK, Roots, Intact, Extracted,
                Codes, CleansUp
<1>4. CASE Bind
    BY <1>4 DEF Bind, given, world, ServeInv, TypeOK, Roots, Intact, Extracted, Codes, CleansUp
<1>5. CASE Leave
    BY <1>5 DEF Leave, given, world, ServeInv, TypeOK, Roots, Intact, Extracted, Codes, CleansUp
<1> QED BY <1>1, <1>2, <1>3, <1>4, <1>5 DEF Run

\* A signal ends the process where it stands: a copy may stay behind, with a status
\* that says so.
LEMMA DeathKeepsInv ==
    ASSUME ServeInv, NEW signal \in {SIGTERM, SIGKILL}, Die(signal), wanted' \in BOOLEAN
    PROVE  ServeInv'
BY DEF Die, given, world, SIGTERM, SIGKILL, ServeInv, TypeOK, Roots, Intact, Extracted, Codes,
       CleansUp

\* What happens to the process.
LEMMA WorldKeepsInv ==
    ASSUME ServeInv, Interrupt \/ Terminate \/ Crash \/ Restart \/ Change
    PROVE  ServeInv'
<1>1. CASE Interrupt
    BY <1>1 DEF Interrupt, given, world, ServeInv, TypeOK, Roots, Intact, Extracted, Codes,
                CleansUp
<1>2. CASE Terminate
    BY <1>2, DeathKeepsInv DEF Terminate
<1>3. CASE Crash
    BY <1>3, DeathKeepsInv DEF Crash, ServeInv, TypeOK
<1>4. CASE Restart
    <2>1. TypeOK'
        BY <1>4 DEF Restart, given, world, ServeInv, TypeOK, Roots
    <2>2. Intact' /\ Extracted' /\ Codes' /\ CleansUp'
        BY <1>4 DEF Restart, given, world, ServeInv, Intact, Extracted, Codes, CleansUp
    <2> QED BY <2>1, <2>2 DEF ServeInv
<1>5. CASE Change
    BY <1>5 DEF Change, given, process, ServeInv, TypeOK, Roots, Intact, Extracted, Codes,
                CleansUp
<1> QED BY <1>1, <1>2, <1>3, <1>4, <1>5

LEMMA ServeNextKeepsInv == ServeInv /\ [Next]_vars => ServeInv'
<1> SUFFICES ASSUME ServeInv, [Next]_vars PROVE ServeInv'
    OBVIOUS
<1>1. CASE UNCHANGED vars
    BY <1>1 DEF vars, given, world, process, ServeInv, TypeOK, Intact, Extracted, Codes, CleansUp
<1> QED BY <1>1, RunKeepsInv, WorldKeepsInv DEF Next

LEMMA ServeInvariance == Spec => []ServeInv
BY ServeInitInv, ServeNextKeepsInv, PTL DEF Spec

\* Types, and what is served is the tree the operator chose, never the other one in
\* its stead (cli.py:71-84).
THEOREM ServeTypeCorrect == Spec => []TypeOK
BY ServeInvariance, PTL DEF ServeInv

\* A process that ends by itself leaves no extracted copy behind (cli.py:79-84).
THEOREM LeavesNoCopy == Spec => []CleansUp
BY ServeInvariance, PTL DEF ServeInv

\* A start fails for want of the tree that was named, and for nothing else.
LEMMA LoadBlamesTheTree ==
    ASSUME ServeInv, [Next]_vars
    PROVE  pc = "created" /\ pc' = "leaving" => ~sound[command.root]
<1> SUFFICES ASSUME pc = "created", pc' = "leaving" PROVE ~sound[command.root]
    OBVIOUS
<1>1. Load
    BY DEF Next, Run, Parse, CreateApp, Bind, Leave, Interrupt, Terminate, Crash, Die,
           Restart, Change, vars, process
<1>2. ~Loads(command.root)
    BY <1>1 DEF Load, ChosenRoot
<1>3. Present(command.root)
    BY DEF ServeInv, TypeOK, Roots, Extracted, Present
<1> QED BY <1>2, <1>3 DEF Loads

\* The packaged tree, extracted or not, is there as long as the server may read it
\* (cli.py:79-84, runtime_resources.py:10-15).
THEOREM OnlyTheTreeFails == Spec => FailureIsTheTrees
<1>1. ServeInv /\ [Next]_vars
          => [pc = "created" /\ pc' = "leaving" => ~sound[command.root]]_vars
    BY LoadBlamesTheTree
<1> QED BY <1>1, ServeInvariance, PTL DEF Spec, FailureIsTheTrees
=============================================================================

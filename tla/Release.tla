------------------------------- MODULE Release -------------------------------
(***************************************************************************)
(* From the source to a published release: the jobs of the workflow        *)
(* (.github/workflows/tests.yml), run on a fresh checkout or by a          *)
(* developer in a directory where earlier builds have left their output,   *)
(* and the two scripts that stand between a build and its publication:     *)
(* validate_distribution.py and validate_installed_package.py.             *)
(*                                                                         *)
(* A file is data of the package (RuntimeData, or a Stray the program does *)
(* not read) or a module: one the scripts ask for by name (Entries) or     *)
(* another one (Inner), which the entries import.  The build is external:  *)
(* "build --sdist --wheel" makes both artefacts from the directory it is   *)
(* run in; setuptools collects the wheel in build/lib, from which it never *)
(* removes anything, and adds the artefacts to dist.  Names in archives    *)
(* that are unsafe or forbidden in themselves, and the entry point's       *)
(* declaration, are left out.                                              *)
(***************************************************************************)
EXTENDS Naturals

CONSTANTS
    RuntimeData,   \* the configuration files of the package, as the scripts list them
    Strays,        \* other files that may lie in its data directories
    Entries,       \* the modules the scripts ask for
    Inner,         \* the modules they do not ask for
    NoWheel,
    MaxEdits, MaxVersion   \* bounds: edits of the source, releases

ASSUME BoundsAssumption == MaxEdits \in Nat /\ MaxVersion \in Nat \ {0}

Data == RuntimeData \cup Strays
Code == Entries \cup Inner
Files == [data : SUBSET Data, code : SUBSET Code]
NoFiles == [data |-> {}, code |-> {}]

VARIABLES
    source,     \* the files of the package in the source tree
    drifted,    \* packaged files that differ from the canonical copy at the root
    version, edits,
    build_lib,  \* what build/lib holds
    dist,       \* the artefacts in dist
    step,       \* the last step that passed
    wheel,      \* the wheel that was installed to be checked
    tested      \* the test suite has passed on this source

sources == <<source, drifted, version, edits>>
output == <<build_lib, dist>>
release_vars == <<sources, output, step, wheel, tested>>

ReleaseInit ==
    /\ source = [data |-> RuntimeData, code |-> Code] /\ drifted = {}
    /\ version = 1 /\ edits = 0
    /\ build_lib = NoFiles /\ dist = {}
    /\ step = "none" /\ wheel = NoWheel /\ tested = FALSE

-----------------------------------------------------------------------------
(* The developer                                                           *)

Toggled(S, x) == (S \ {x}) \cup ({x} \ S)

\* One file comes or goes, one of two copies is changed, or the version is raised;
\* every step has to be taken again afterwards (docs/TESTING.md:117).
Edit ==
    /\ edits < MaxEdits
    /\ \/ /\ \E f \in Data : source' = [source EXCEPT !.data = Toggled(@, f)]
          /\ drifted' = drifted \cap source'.data /\ UNCHANGED version
       \/ /\ \E f \in Code : source' = [source EXCEPT !.code = Toggled(@, f)]
          /\ UNCHANGED <<drifted, version>>
       \/ /\ \E f \in source.data \cap RuntimeData : drifted' = Toggled(drifted, f)
          /\ UNCHANGED <<source, version>>
       \/ /\ version < MaxVersion /\ version' = version + 1
          /\ UNCHANGED <<source, drifted>>
    /\ edits' = edits + 1
    /\ step' = "none" /\ wheel' = NoWheel /\ tested' = FALSE
    /\ UNCHANGED output

\* A fresh checkout of the same source, as the workflow starts from.
Checkout ==
    /\ build_lib' = NoFiles /\ dist' = {}
    /\ step' = "none" /\ wheel' = NoWheel
    /\ UNCHANGED <<sources, tested>>

\* The test suite on the source: it compares the packaged files with the list and
\* with the canonical copies, and imports every module.
TestsPass == source.data = RuntimeData /\ drifted = {} /\ source.code = Code

Test ==
    /\ tested' = TestsPass
    /\ UNCHANGED <<sources, output, step, wheel>>

-----------------------------------------------------------------------------
(* The jobs of the workflow                                                *)

Union(F, G) == [data |-> F.data \cup G.data, code |-> F.code \cup G.code]

Artefact(kind, F) ==
    [kind |-> kind, version |-> version, files |-> F, drifted |-> drifted]

SameName(a, b) == a.kind = b.kind /\ a.version = b.version

Build ==
    LET made == {Artefact("wheel", Union(build_lib, source)), Artefact("sdist", source)}
    IN  /\ build_lib' = Union(build_lib, source)
        /\ dist' = made \cup {a \in dist : \A b \in made : ~SameName(a, b)}
        /\ step' = "built" /\ wheel' = NoWheel
        /\ UNCHANGED <<sources, tested>>

OfKind(kind) == {a \in dist : a.kind = kind}

\* _require_exactly_one, and a mutant that is content with one.
SomeOne(kind) == OfKind(kind) # {}

ExactlyOne(kind) == \E a \in dist : OfKind(kind) = {a}

\* The wheel has the modules asked for, and exactly the data of the list.
ValidWheel(F) == F.data = RuntimeData /\ Entries \subseteq F.code

\* The sdist has at least what is asked for; the mutant looks at its modules alone.
ValidSdistModules(F) == Entries \subseteq F.code

ValidSdist(F) == RuntimeData \subseteq F.data /\ Entries \subseteq F.code

\* A step that fails ends the job.
Passed(name, ok) == step' = IF ok THEN name ELSE "none"

\* validate_distribution.
Inspect ==
    /\ step = "built"
    /\ Passed("inspected",
              /\ ExactlyOne("wheel") /\ ExactlyOne("sdist")
              /\ \A a \in OfKind("wheel") : ValidWheel(a.files)
              /\ \A a \in OfKind("sdist") : ValidSdist(a.files))
    /\ UNCHANGED <<sources, output, wheel, tested>>

\* Whichever wheel "find -print -quit" meets first, into a new environment.
Install ==
    /\ step = "inspected"
    /\ wheel' \in OfKind("wheel") /\ step' = "installed"
    /\ UNCHANGED <<sources, output, tested>>

\* validate_installed_package, away from the checkout.
CheckInstalled ==
    /\ step = "installed"
    /\ Passed("checked", wheel.files.data = RuntimeData)
    /\ UNCHANGED <<sources, output, wheel, tested>>

\* "python -m villaz_router --help" imports every module before it parses.
Help ==
    /\ step = "checked"
    /\ Passed("helped", wheel.files.code = Code)
    /\ UNCHANGED <<sources, output, wheel, tested>>

ReleaseNext ==
    \/ Edit \/ Checkout \/ Test
    \/ Build \/ Inspect \/ Install \/ CheckInstalled \/ Help

ReleaseSpec == ReleaseInit /\ [][ReleaseNext]_release_vars

-----------------------------------------------------------------------------
(* Properties                                                              *)

Artefacts ==
    [kind : {"wheel", "sdist"}, version : 1..MaxVersion, files : Files,
     drifted : SUBSET RuntimeData]

\* The type invariant: in particular build/lib has all the modules and data of every
\* wheel in dist, so that nothing ever leaves a directory that is not made anew.
ReleaseTypeOK ==
    /\ source \in Files /\ drifted \subseteq source.data \cap RuntimeData
    /\ version \in 1..MaxVersion /\ edits \in 0..MaxEdits
    /\ build_lib \in Files /\ dist \subseteq Artefacts
    /\ step \in {"none", "built", "inspected", "installed", "checked", "helped"}
    /\ wheel \in Artefacts \cup {NoWheel} /\ tested \in BOOLEAN
    /\ \A a \in OfKind("wheel") : Union(a.files, build_lib) = build_lib

\* What an earlier build left behind hides no loss and no stray from the inspection:
\* a wheel built anew from the inspected sdist would pass it too
\* (validate_distribution.py:163, 231).
InspectedSdistRebuilds ==
    step \in {"inspected", "installed", "checked", "helped"} =>
        \A a \in OfKind("sdist") :
            a.files.data = RuntimeData /\ Entries \subseteq a.files.code

\* The wheel that is installed and checked is the one just built, not that of an
\* earlier release (validate_distribution.py:84-93); and once both jobs have passed
\* it serves, with the configuration the repository shows: every module the server
\* imports, exactly the files it reads, none of them other than the canonical copy
\* (docs/INSTALLATION.md:124, test_runtime_resources.py:55).
CheckedServes ==
    /\ wheel # NoWheel =>
           wheel.version = version /\ Union(source, wheel.files) = wheel.files
    /\ step = "helped" /\ tested =>
           wheel.files = [data |-> RuntimeData, code |-> Code] /\ wheel.drifted = {}
=============================================================================

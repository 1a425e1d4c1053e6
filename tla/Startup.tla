------------------------------ MODULE Startup ------------------------------
(***************************************************************************)
(* Starting the service while an operator deploys a configuration release  *)
(* (loader.py, registry_loader.py, ollama_execution/config_loader.py,      *)
(* bootstrap.py).  The seven YAML files are read one after the other, with *)
(* no lock: an operator who rewrites them meanwhile may be seen halfway.   *)
(*                                                                         *)
(* A file is abstracted to the release its content belongs to and whether  *)
(* it is whole.  A file that is being written is Broken (absent, not       *)
(* readable, no YAML, or refused by its model), or, when it is one of      *)
(* CutFiles, it may be cut at a place where what is left is still a        *)
(* document its model accepts: a list with fewer items, a shorter number.  *)
(* What the validation compares across files is kept: ruleset_version, the *)
(* engine's major version, and the profiles of the registry.               *)
(***************************************************************************)
EXTENDS Naturals, Sequences

CONSTANTS
    LastRelease,       \* releases are numbered from 1
    RulesetVersion,    \* ruleset_version of the rule files of a release
    ExpectedMajor,     \* expected_major_version in its config/router.yaml
    MajorOf,           \* the first component of a ruleset_version
    SameProfiles,      \* <<c, d>>: content c of profiles.yaml declares the profiles
                       \* content d of the registry defines, by id and enabled flag
    CutFiles,          \* the files that are still accepted when cut short
    Broken

Releases == 1..LastRelease

Contents == [release : Releases, whole : BOOLEAN]

Whole(n) == [release |-> n, whole |-> TRUE]
Cut(n)   == [release |-> n, whole |-> FALSE]

\* Every release is itself coherent: an operator tries it before deploying it.
ASSUME ReleasesAssumption ==
    /\ LastRelease \in Nat \ {0}
    /\ \A n \in Releases : /\ MajorOf[RulesetVersion[n]] = ExpectedMajor[n]
                           /\ <<Whole(n), Whole(n)>> \in SameProfiles
    /\ Broken \notin Contents

\* The files in the order they are read.
ReadOrder == <<"router", "profiles", "domains", "intents", "routing",
               "registry", "ollama">>

Files == {ReadOrder[i] : i \in DOMAIN ReadOrder}

RuleFiles == {"profiles", "domains", "intents", "routing"}

VARIABLES
    disk,      \* the content of each file on disk
    target,    \* the release last deployed
    pending,   \* the files its deployment has not yet written
    loaded,    \* the documents read so far, in ReadOrder
    status     \* "starting", "up" or "failed"

vars == <<disk, target, pending, loaded, status>>

Doc(docs, file) == docs[CHOOSE i \in DOMAIN ReadOrder : ReadOrder[i] = file]

\* The ruleset_version a document carries; it stands at its head, before the list.
Version(content) == RulesetVersion[content.release]

\* A mutant of the comparison that leaves out the last rule file.
SameRulesetVersionButRouting(docs) ==
    \A f, g \in RuleFiles \ {"routing"} :
        Version(Doc(docs, f)) = Version(Doc(docs, g))

\* _validate_versions, the comparison of the four rule files
SameRulesetVersion(docs) ==
    \A f, g \in RuleFiles :
        Version(Doc(docs, f)) = Version(Doc(docs, g))

\* What bootstrapping compares once the document it has just read is there.  The
\* mutant knows only engines of major version 1.
CheckedMajorOne(docs) ==
    /\ ReadOrder[Len(docs)] = "routing" =>
           /\ SameRulesetVersion(docs)
           /\ MajorOf[Version(Doc(docs, "profiles"))] = 1
    /\ ReadOrder[Len(docs)] = "registry" =>
           <<Doc(docs, "profiles"), Doc(docs, "registry")>> \in SameProfiles

Checked(docs) ==
    /\ ReadOrder[Len(docs)] = "routing" =>
           /\ SameRulesetVersion(docs)
           /\ MajorOf[Version(Doc(docs, "profiles"))]
                  = ExpectedMajor[Doc(docs, "router").release]
    /\ ReadOrder[Len(docs)] = "registry" =>
           <<Doc(docs, "profiles"), Doc(docs, "registry")>> \in SameProfiles

\* The rest of the semantic validation (ids, evidence, what the routes refer to)
\* passes for a release as it was tried; of another mixture it may refuse any.
OneRelease(docs) == \E n \in Releases : \A i \in DOMAIN docs : docs[i] = Whole(n)

MayBeRefused(docs) == ReadOrder[Len(docs)] = "routing" /\ ~OneRelease(docs)

Init ==
    /\ disk = [f \in Files |-> Whole(1)] /\ target = 1 /\ pending = {}
    /\ loaded = << >> /\ status = "starting"

\* One file is read and parsed, and what can be checked with it is checked; a
\* file that cannot be read, or a check that fails, ends the start.
ReadFile ==
    /\ status = "starting"
    /\ LET content == disk[ReadOrder[Len(loaded) + 1]]
           docs    == Append(loaded, content)
           passes  == content # Broken /\ Checked(docs)
       IN  \/ /\ passes
              /\ loaded' = docs
              /\ status' = IF Len(docs) = Len(ReadOrder) THEN "up" ELSE "starting"
           \/ /\ ~passes \/ MayBeRefused(docs)
              /\ status' = "failed" /\ UNCHANGED loaded
    /\ UNCHANGED <<disk, target, pending>>

\* The supervisor starts a new process after a failure, the operator after a
\* deployment; a new process has read nothing.
Restart ==
    /\ status \in {"failed", "up"} /\ status' = "starting"
    /\ loaded' = << >>
    /\ UNCHANGED <<disk, target, pending>>

Deploy(n) ==
    /\ pending = {} /\ n > target
    /\ target' = n /\ pending' = Files
    /\ UNCHANGED <<disk, loaded, status>>

\* What a file may hold while it is being written
Partial(f) == {Broken} \cup (IF f \in CutFiles THEN {Cut(target)} ELSE {})

BeginWrite(f) ==
    /\ f \in pending
    /\ \E part \in Partial(f) : disk' = [disk EXCEPT ![f] = part]
    /\ UNCHANGED <<target, pending, loaded, status>>

EndWrite(f) ==
    /\ f \in pending /\ disk[f] \in Partial(f)
    /\ disk' = [disk EXCEPT ![f] = Whole(target)]
    /\ pending' = pending \ {f}
    /\ UNCHANGED <<target, loaded, status>>

WriteFiles == \E f \in Files : BeginWrite(f) \/ EndWrite(f)

Next == ReadFile \/ Restart \/ WriteFiles \/ \E n \in Releases : Deploy(n)

Spec == Init /\ [][Next]_vars

-----------------------------------------------------------------------------
(* Properties                                                              *)

\* The type invariant.
TypeOK ==
    /\ disk \in [Files -> Contents \cup {Broken}]
    /\ target \in Releases /\ pending \subseteq Files
    /\ loaded \in Seq(Contents) /\ Len(loaded) <= Len(ReadOrder)
    /\ status \in {"starting", "up", "failed"}
    /\ status = "up" => Len(loaded) = Len(ReadOrder)

\* A service that is up runs no mixture of rule files whose versions differ, for
\* engines of the major version its router.yaml expects, and its registry has
\* the profiles of its rules, however the reads interleaved with a deployment.
\* Nothing tells a file that was cut short: one that is accepted is run with the
\* items it has left (validation.py:58-89, runtime_compatibility.py:44-91).
NoTornRuleset ==
    status = "up" =>
        LET version == Version(loaded[2])
        IN  /\ \A i \in 2..5 : Version(loaded[i]) = version
            /\ MajorOf[version] = ExpectedMajor[loaded[1].release]
            /\ <<loaded[2], loaded[6]>> \in SameProfiles

\* A start fails only by reading into a deployment: one that begins when the last
\* release is written out, whichever it is, and ends before the next, comes up
\* (loader.py:31-72, validation.py:58-89, bootstrap.py:62-118).
FailsByDeployment ==
    status = "starting" /\ status' = "failed" =>
        pending # {} \/ \E i \in DOMAIN loaded : loaded[i] # Whole(target)

FailsOnlyByDeployment == [][FailsByDeployment]_vars
=============================================================================

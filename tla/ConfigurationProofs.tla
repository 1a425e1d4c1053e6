-------------------------- MODULE ConfigurationProofs --------------------------
(***************************************************************************)
(* Reading a configuration and identifying it: a start against a           *)
(* deployment, for any number of releases, whatever their versions and     *)
(* profiles, deployed in any order of writes; and the hashes of what was   *)
(* read, for any documents, of any length and in any order, and any edits. *)
(***************************************************************************)
EXTENDS Startup, Canonical, SequenceTheorems, FiniteSetTheorems, WellFoundedInduction, TLAPS

-----------------------------------------------------------------------------
(* Reading: Startup                                                        *)

(***************************************************************************)
(* The inductive invariant.  Compared: each comparison was made when the   *)
(* document it waits for had been read, on the documents as they were read *)
(* then, which is all that counts: the files may have changed since.       *)
(* Written: a file its deployment is done with holds the release whole.    *)
(***************************************************************************)
OneVersion(docs) ==
    /\ \A i \in 2..5 : Version(docs[i]) = Version(docs[2])
    /\ MajorOf[Version(docs[2])] = ExpectedMajor[docs[1].release]

Compared(docs) ==
    /\ Len(docs) >= 5 => OneVersion(docs)
    /\ Len(docs) >= 6 => <<docs[2], docs[6]>> \in SameProfiles

Unfinished == status = "starting" => Len(loaded) < 7

Written == \A f \in Files \ pending : disk[f] = Whole(target)

StartupInv == TypeOK /\ Unfinished /\ Compared(loaded) /\ Written

\* Numbers of documents.
LEMMA Steps ==
    /\ \A n \in Nat : n < 7 => n \in 0..6
    /\ \A n \in 0..6 : n + 1 \in 1..7
    /\ \A n \in 1..7 : n <= 7 /\ (n # 7 => n < 7)
OBVIOUS

\* The place of a file in the order of reading is the one it is listed at.
LEMMA Places ==
    /\ Len(ReadOrder) = 7 /\ DOMAIN ReadOrder = 1..7
    /\ \A docs : \A i \in 1..7 : Doc(docs, ReadOrder[i]) = docs[i]
<1>1. Len(ReadOrder) = 7 /\ DOMAIN ReadOrder = 1..7
    BY DEF ReadOrder
<1>2. \A i, j \in 1..7 : ReadOrder[i] = ReadOrder[j] => i = j
    BY DEF ReadOrder
<1>3. ASSUME NEW docs, NEW i \in 1..7 PROVE Doc(docs, ReadOrder[i]) = docs[i]
    <2>1. (CHOOSE j \in DOMAIN ReadOrder : ReadOrder[j] = ReadOrder[i]) = i
        BY <1>1, <1>2
    <2> QED BY <2>1 DEF Doc
<1> QED BY <1>1, <1>3

LEMMA ContentTypes ==
    /\ \A n \in Releases : Whole(n) \in Contents /\ Cut(n) \in Contents
    /\ target \in Releases => \A f : Partial(f) \subseteq Contents \cup {Broken}
<1>1. \A n \in Releases : Whole(n) \in Contents /\ Cut(n) \in Contents
    BY DEF Whole, Cut, Contents
<1> QED BY <1>1 DEF Partial

LEMMA InitStartupInv == Init => StartupInv
<1> SUFFICES ASSUME Init PROVE StartupInv
    OBVIOUS
<1>1. 1 \in Releases
    BY ReleasesAssumption DEF Releases
<1> QED
    BY <1>1, ContentTypes, Places
    DEF Init, StartupInv, TypeOK, Unfinished, Compared, Written

\* What a check establishes once the fifth and the sixth document are there.
LEMMA CheckedCompares ==
    ASSUME NEW docs \in Seq(Contents), Len(docs) \in 1..7, Checked(docs)
    PROVE  /\ Len(docs) = 5 => OneVersion(docs)
           /\ Len(docs) = 6 => <<docs[2], docs[6]>> \in SameProfiles
<1>1. /\ ReadOrder[1] = "router" /\ ReadOrder[2] = "profiles" /\ ReadOrder[3] = "domains"
      /\ ReadOrder[4] = "intents" /\ ReadOrder[5] = "routing"
      /\ ReadOrder[6] = "registry"
    BY DEF ReadOrder
<1>2. /\ Doc(docs, "router") = docs[1] /\ Doc(docs, "profiles") = docs[2]
      /\ Doc(docs, "domains") = docs[3] /\ Doc(docs, "intents") = docs[4]
      /\ Doc(docs, "routing") = docs[5] /\ Doc(docs, "registry") = docs[6]
    BY <1>1, Places
<1>3. CASE Len(docs) = 5
    <2>1. SameRulesetVersion(docs)
        BY <1>1, <1>3 DEF Checked
    <2>2. \A i \in 2..5 : Version(docs[i]) = Version(docs[2])
        <3>1. \A f \in RuleFiles :
                  Version(Doc(docs, f)) = Version(docs[2])
            BY <1>2, <2>1 DEF SameRulesetVersion, RuleFiles
        <3>2. \A i \in 2..5 : i = 2 \/ i = 3 \/ i = 4 \/ i = 5
            OBVIOUS
        <3> QED BY <1>2, <3>1, <3>2 DEF RuleFiles
    <2>3. MajorOf[Version(docs[2])] = ExpectedMajor[docs[1].release]
        BY <1>1, <1>2, <1>3 DEF Checked
    <2> QED BY <1>3, <2>2, <2>3 DEF OneVersion
<1>4. CASE Len(docs) = 6
    BY <1>1, <1>2, <1>4 DEF Checked
<1> QED BY <1>3, <1>4

\* A comparison that was made stays made.
LEMMA ReadingKeepsCompared ==
    ASSUME NEW old \in Seq(Contents), Len(old) \in 0..6, Compared(old),
           NEW content \in Contents, Checked(Append(old, content))
    PROVE  Compared(Append(old, content))
<1> DEFINE docs == Append(old, content)
<1>1. docs \in Seq(Contents) /\ Len(docs) = Len(old) + 1 /\ Len(docs) \in 1..7
    <2>1. docs \in Seq(Contents) /\ Len(docs) = Len(old) + 1
        BY AppendProperties
    <2> QED BY <2>1, Steps
<1>2. \A i \in 1..Len(old) : docs[i] = old[i]
    OBVIOUS
<1>3. /\ Len(docs) = 5 => OneVersion(docs)
      /\ Len(docs) = 6 => <<docs[2], docs[6]>> \in SameProfiles
    BY <1>1, CheckedCompares
<1> HIDE DEF docs
<1>4. ASSUME Len(docs) >= 6 PROVE OneVersion(docs)
    <2>1. OneVersion(old) /\ Len(old) >= 5
        BY <1>1, <1>4 DEF Compared
    <2>2. \A i \in 1..5 : docs[i] = old[i]
        BY <1>2, <2>1
    <2> QED BY <2>1, <2>2 DEF OneVersion
<1>5. ASSUME Len(docs) >= 7 PROVE <<docs[2], docs[6]>> \in SameProfiles
    <2>1. <<old[2], old[6]>> \in SameProfiles /\ Len(old) >= 6
        BY <1>1, <1>5 DEF Compared
    <2> QED BY <1>2, <2>1
<1>6. Compared(docs)
    BY <1>1, <1>3, <1>4, <1>5 DEF Compared
<1> QED BY <1>6 DEF docs

\* A document that passes is added to those that were compared; one that does not
\* ends the start.
LEMMA ReadKeepsStartupInv ==
    ASSUME StartupInv, ReadFile
    PROVE  StartupInv'
<1> DEFINE content == disk[ReadOrder[Len(loaded) + 1]]
           docs    == Append(loaded, content)
<1>1. /\ loaded \in Seq(Contents) /\ Len(loaded) \in 0..6 /\ Len(loaded) + 1 \in 1..7
      /\ UNCHANGED <<disk, target, pending>>
    <2>1. status = "starting" /\ UNCHANGED <<disk, target, pending>>
        BY DEF ReadFile
    <2>2. loaded \in Seq(Contents) /\ Len(loaded) < 7
        BY <2>1 DEF StartupInv, TypeOK, Unfinished
    <2>3. Len(loaded) \in Nat
        BY <2>2, LenProperties
    <2> QED BY <2>1, <2>2, <2>3, Steps
<1>2. CASE content # Broken /\ Checked(docs) /\ loaded' = docs
           /\ status' = IF Len(docs) = Len(ReadOrder) THEN "up" ELSE "starting"
    <2>1. content \in Contents
        <3>1. ReadOrder[Len(loaded) + 1] \in Files
            BY <1>1, Places DEF Files
        <3> QED BY <1>2, <3>1 DEF StartupInv, TypeOK
    <2>2. docs \in Seq(Contents) /\ Len(docs) = Len(loaded) + 1
        BY <1>1, <2>1
    <2>3. loaded' = docs /\ status' = IF Len(docs) = 7 THEN "up" ELSE "starting"
        BY <1>2, Places
    <2>4. Compared(docs)
        BY <1>1, <1>2, <2>1, ReadingKeepsCompared DEF StartupInv
    <2> HIDE DEF docs
    <2>5. TypeOK' /\ Unfinished'
        <3>1. Len(docs) \in 1..7
            BY <1>1, <2>2
        <3>2. UNCHANGED <<disk, target, pending>>
            BY <1>1
        <3>3. /\ status' \in {"starting", "up"} /\ Len(loaded') <= 7
              /\ status' = "up" => Len(loaded') = 7
              /\ status' = "starting" => Len(loaded') < 7
            BY <2>3, <3>1, Steps
        <3> QED BY <2>2, <2>3, <3>2, <3>3, Places DEF StartupInv, TypeOK, Unfinished
    <2>6. Written'
        BY <1>1 DEF StartupInv, Written
    <2> QED BY <2>3, <2>4, <2>5, <2>6 DEF StartupInv
<1>3. CASE status' = "failed" /\ UNCHANGED loaded
    BY <1>1, <1>3 DEF StartupInv, TypeOK, Unfinished, Compared, Written
<1> HIDE DEF docs
<1> QED BY <1>2, <1>3 DEF ReadFile, docs

\* A restart begins with nothing read, and a deployment touches nothing read.
LEMMA NextKeepsStartupInv == StartupInv /\ [Next]_vars => StartupInv'
<1> SUFFICES ASSUME StartupInv, [Next]_vars PROVE StartupInv'
    OBVIOUS
<1>1. CASE ReadFile
    BY <1>1, ReadKeepsStartupInv
<1>2. CASE Restart
    BY <1>2, Places DEF Restart, StartupInv, TypeOK, Unfinished, Compared, Written
<1>3. ASSUME NEW f \in Files, BeginWrite(f) PROVE StartupInv'
    <2>1. PICK part \in Partial(f) : disk' = [disk EXCEPT ![f] = part]
        BY <1>3 DEF BeginWrite
    <2>2. f \in pending /\ UNCHANGED <<target, pending, loaded, status>>
        BY <1>3 DEF BeginWrite
    <2>3. disk' \in [Files -> Contents \cup {Broken}]
        BY <2>1, ContentTypes DEF StartupInv, TypeOK
    <2>4. Written'
        BY <2>1, <2>2 DEF StartupInv, TypeOK, Written
    <2> QED BY <2>2, <2>3, <2>4 DEF StartupInv, TypeOK, Unfinished, Compared
<1>4. ASSUME NEW f \in Files, EndWrite(f) PROVE StartupInv'
    <2>1. /\ disk' = [disk EXCEPT ![f] = Whole(target)] /\ pending' = pending \ {f}
          /\ UNCHANGED <<target, loaded, status>>
        BY <1>4 DEF EndWrite
    <2>2. disk' \in [Files -> Contents \cup {Broken}] /\ pending' \subseteq Files
        BY <2>1, ContentTypes DEF StartupInv, TypeOK
    <2>3. Written'
        BY <2>1 DEF StartupInv, TypeOK, Written
    <2> QED BY <2>1, <2>2, <2>3 DEF StartupInv, TypeOK, Unfinished, Compared
<1>5. ASSUME NEW n \in Releases, Deploy(n) PROVE StartupInv'
    BY <1>5 DEF Deploy, StartupInv, TypeOK, Unfinished, Compared, Written
<1>6. CASE UNCHANGED vars
    BY <1>6 DEF vars, StartupInv, TypeOK, Unfinished, Compared, Written
<1> QED BY <1>1, <1>2, <1>3, <1>4, <1>5, <1>6 DEF Next, WriteFiles

LEMMA Invariance == Spec => []StartupInv
BY InitStartupInv, NextKeepsStartupInv, PTL DEF Spec

\* Types, and a service is up only once all seven documents were read.
THEOREM StartupTypeCorrect == Spec => []TypeOK
BY Invariance, PTL DEF StartupInv

\* A service that is up runs no mixture of versions, and a registry that fits, however
\* the reads interleaved with deployments (validation.py:58-89,
\* runtime_compatibility.py:44-91).
THEOREM RunsOneRuleset == Spec => []NoTornRuleset
<1>1. StartupInv => NoTornRuleset
    <2> SUFFICES ASSUME StartupInv, status = "up" PROVE NoTornRuleset
        BY DEF NoTornRuleset
    <2>1. Len(loaded) = 7
        BY Places DEF StartupInv, TypeOK
    <2>2. /\ \A i \in 2..5 : Version(loaded[i]) = Version(loaded[2])
          /\ MajorOf[Version(loaded[2])] = ExpectedMajor[loaded[1].release]
          /\ <<loaded[2], loaded[6]>> \in SameProfiles
        BY <2>1 DEF StartupInv, Compared, OneVersion
    <2> QED BY <2>2 DEF NoTornRuleset
<1> QED BY <1>1, Invariance, PTL

\* What was tried whole passes every comparison, and the rest of the validation.
LEMMA WholeReleasePasses ==
    ASSUME NEW n \in Releases, NEW docs \in Seq(Contents), Len(docs) \in 1..7,
           \A i \in 1..Len(docs) : docs[i] = Whole(n)
    PROVE  Checked(docs) /\ ~MayBeRefused(docs)
<1>1. /\ ReadOrder[1] = "router" /\ ReadOrder[2] = "profiles" /\ ReadOrder[3] = "domains"
      /\ ReadOrder[4] = "intents" /\ ReadOrder[5] = "routing"
      /\ ReadOrder[6] = "registry" /\ ReadOrder[7] = "ollama"
    BY DEF ReadOrder
<1>2. /\ Doc(docs, "router") = docs[1] /\ Doc(docs, "profiles") = docs[2]
      /\ Doc(docs, "domains") = docs[3] /\ Doc(docs, "intents") = docs[4]
      /\ Doc(docs, "routing") = docs[5] /\ Doc(docs, "registry") = docs[6]
    BY <1>1, Places
<1>3. Whole(n).release = n
    BY DEF Whole
<1>4. ASSUME ReadOrder[Len(docs)] = "routing"
      PROVE  /\ SameRulesetVersion(docs)
             /\ MajorOf[Version(Doc(docs, "profiles"))]
                    = ExpectedMajor[Doc(docs, "router").release]
    <2>1. Len(docs) = 5
        BY <1>1, <1>4, Len(docs) \in {1, 2, 3, 4, 5, 6, 7}
    <2>2. \A i \in 1..5 : docs[i] = Whole(n)
        BY <2>1
    <2>3. SameRulesetVersion(docs)
        BY <1>2, <2>2 DEF SameRulesetVersion, RuleFiles
    <2>4. MajorOf[RulesetVersion[n]] = ExpectedMajor[n]
        BY ReleasesAssumption
    <2> QED BY <1>2, <1>3, <2>2, <2>3, <2>4 DEF Version
<1>5. ASSUME ReadOrder[Len(docs)] = "registry"
      PROVE  <<Doc(docs, "profiles"), Doc(docs, "registry")>> \in SameProfiles
    <2>1. Len(docs) = 6
        BY <1>1, <1>5, Len(docs) \in {1, 2, 3, 4, 5, 6, 7}
    <2> QED BY <1>2, <2>1, ReleasesAssumption
<1>6. OneRelease(docs)
    BY DEF OneRelease
<1> QED BY <1>4, <1>5, <1>6 DEF Checked, MayBeRefused

\* A start fails only by reading into a deployment: of any number of releases, of
\* any major versions, each whole one comes up (loader.py:31-72,
\* validation.py:58-89, bootstrap.py:62-118).
THEOREM OnlyDeploymentsFailAStart == Spec => FailsOnlyByDeployment
<1>1. StartupInv /\ [Next]_vars => [FailsByDeployment]_vars
    <2> SUFFICES ASSUME StartupInv, [Next]_vars, status = "starting", status' = "failed",
                        pending = {}, \A i \in DOMAIN loaded : loaded[i] = Whole(target)
                 PROVE  FALSE
        BY DEF FailsByDeployment
    <2> DEFINE content == disk[ReadOrder[Len(loaded) + 1]]
               docs    == Append(loaded, content)
    <2>1. ReadFile
        BY DEF Next, Restart, WriteFiles, BeginWrite, EndWrite, Deploy, vars
    <2>2. loaded \in Seq(Contents) /\ Len(loaded) \in 0..6 /\ Len(loaded) + 1 \in 1..7
        <3>1. loaded \in Seq(Contents) /\ Len(loaded) < 7
            BY DEF StartupInv, TypeOK, Unfinished
        <3>2. Len(loaded) \in Nat
            BY <3>1, LenProperties
        <3> QED BY <3>1, <3>2, Steps
    <2>3. content = Whole(target) /\ target \in Releases
        <3>1. ReadOrder[Len(loaded) + 1] \in Files
            BY <2>2, Places DEF Files
        <3> QED BY <3>1 DEF StartupInv, TypeOK, Written
    <2>4. content \in Contents /\ content # Broken
        BY <2>3, ContentTypes, ReleasesAssumption
    <2>5. docs \in Seq(Contents) /\ Len(docs) = Len(loaded) + 1
        BY <2>2, <2>4, AppendProperties
    <2>6. \A i \in 1..Len(docs) : docs[i] = Whole(target)
        BY <2>2, <2>3, <2>5
    <2>7. content # Broken /\ Checked(docs) /\ ~MayBeRefused(docs)
        <3> HIDE DEF docs
        <3>1. Len(docs) \in 1..7
            BY <2>2, <2>5
        <3> QED BY <2>3, <2>4, <2>5, <2>6, <3>1, WholeReleasePasses
    <2>8. ~(content # Broken /\ Checked(docs)) \/ MayBeRefused(docs)
        <3> HIDE DEF docs
        <3> QED BY <2>1 DEF ReadFile, docs
    <2> QED BY <2>7, <2>8
<1> QED BY <1>1, Invariance, PTL DEF Spec, FailsOnlyByDeployment

-----------------------------------------------------------------------------
(* Identifying: Canonical                                                  *)

(***************************************************************************)
(* Sorting by id, when the ids of a list are told apart by their keys.     *)
(***************************************************************************)
Rises(list, key) ==
    \A i, j \in DOMAIN list : i < j => key[list[i].id] < key[list[j].id]

Keyed(items, key) ==
    /\ IsList(items) /\ UniqueIds(items)
    /\ \A a \in Ids(items) : key[a] \in Int
    /\ \A a, b \in Ids(items) : key[a] = key[b] => a = b

\* Numbers told apart can be put in order: a number stands where the count of the
\* smaller ones puts it.
LEMMA NumbersHaveOrder ==
    ASSUME NEW n \in Nat, NEW k \in [1..n -> Int],
           \A i, j \in 1..n : k[i] = k[j] => i = j
    PROVE  \E p \in [1..n -> 1..n] : \A i, j \in 1..n : i < j => k[p[i]] < k[p[j]]
<1> DEFINE D == 1..n
           Before(i) == {j \in D : k[j] < k[i]}
           rank == [i \in D |-> Cardinality(Before(i)) + 1]
<1>1. IsFiniteSet(D) /\ Cardinality(D) = n
    BY FS_Interval
<1>2. \A i \in D : IsFiniteSet(Before(i)) /\ Cardinality(Before(i)) \in Nat
    BY <1>1, FS_Subset, FS_CardinalityType
<1>3. \A i \in D : Cardinality(Before(i)) < n
    <2> SUFFICES ASSUME NEW i \in D PROVE Cardinality(Before(i)) < n
        OBVIOUS
    <2>1. Before(i) \in SUBSET D /\ i \notin Before(i)
        OBVIOUS
    <2> HIDE DEF Before, D
    <2>2. Cardinality(Before(i)) <= n /\ (n = Cardinality(Before(i)) => D = Before(i))
        BY <1>1, <2>1, FS_Subset
    <2> QED BY <1>2, <2>1, <2>2
<1>4. rank \in [D -> 1..n]
    <2> HIDE DEF Before, D
    <2>1. \A i \in D : Cardinality(Before(i)) + 1 \in 1..n
        BY <1>2, <1>3
    <2> QED BY <2>1
<1>5. \A i, j \in D : k[i] < k[j] => rank[i] < rank[j]
    <2> SUFFICES ASSUME NEW i \in D, NEW j \in D, k[i] < k[j] PROVE rank[i] < rank[j]
        OBVIOUS
    <2>1. Before(i) \in SUBSET Before(j) /\ i \in Before(j) /\ i \notin Before(i)
        OBVIOUS
    <2>5. rank[i] = Cardinality(Before(i)) + 1 /\ rank[j] = Cardinality(Before(j)) + 1
        OBVIOUS
    <2> HIDE DEF Before, D, rank
    <2>2. /\ Cardinality(Before(i)) <= Cardinality(Before(j))
          /\ Cardinality(Before(j)) = Cardinality(Before(i)) => Before(j) = Before(i)
        BY <1>2, <2>1, FS_Subset
    <2>3. Cardinality(Before(i)) < Cardinality(Before(j))
        BY <1>2, <2>1, <2>2
    <2> QED BY <1>2, <2>3, <2>5
<1>6. rank \in Injection(D, D)
    <2> HIDE DEF rank
    <2>1. ASSUME NEW i \in D, NEW j \in D, i # j PROVE rank[i] # rank[j]
        <3>1. k[i] < k[j] \/ k[j] < k[i]
            BY <2>1
        <3>2. rank[i] \in 1..n /\ rank[j] \in 1..n
            BY <1>4
        <3> QED BY <1>5, <3>1, <3>2
    <2> QED BY <1>4, <2>1 DEF Injection, IsInjective
<1>7. rank \in Surjection(D, D)
    <2> HIDE DEF rank, D
    <2> QED BY <1>1, <1>6, FS_Injection
<1> DEFINE p == [i \in D |-> CHOOSE j \in D : rank[j] = i]
<1>8. \A i \in D : p[i] \in D /\ rank[p[i]] = i
    <2> HIDE DEF rank, D
    <2>1. \A i \in D : \E j \in D : rank[j] = i
        BY <1>7 DEF Surjection
    <2> QED BY <2>1
<1>9. p \in [D -> D]
    BY <1>8
<1>10. ASSUME NEW i \in D, NEW j \in D, i < j PROVE k[p[i]] < k[p[j]]
    <2> HIDE DEF rank, p
    <2>1. p[i] \in D /\ p[j] \in D /\ rank[p[i]] = i /\ rank[p[j]] = j
        BY <1>8
    <2>2. p[i] # p[j] /\ ~ (k[p[j]] < k[p[i]])
        BY <1>5, <1>10, <2>1
    <2> QED BY <2>1, <2>2
<1> QED BY <1>9, <1>10

\* Such an order leaves out none of them.
LEMMA OrderIsComplete ==
    ASSUME NEW n \in Nat, NEW k \in [1..n -> Int], NEW p \in [1..n -> 1..n],
           \A i, j \in 1..n : i < j => k[p[i]] < k[p[j]]
    PROVE  \A i \in 1..n : \E j \in 1..n : p[j] = i
<1>1. IsFiniteSet(1..n) /\ Cardinality(1..n) = n
    BY FS_Interval
<1>2. ASSUME NEW i \in 1..n, NEW j \in 1..n, i # j PROVE p[i] # p[j]
    <2>1. i < j \/ j < i
        BY <1>2
    <2> QED BY <2>1
<1>3. p \in Injection(1..n, 1..n)
    BY <1>2 DEF Injection, IsInjective
<1>4. p \in Surjection(1..n, 1..n)
    BY <1>1, <1>3, FS_Injection
<1> QED BY <1>4 DEF Surjection

LEMMA ListDomain ==
    ASSUME NEW list, IsList(list)
    PROVE  /\ Len(list) \in Nat /\ DOMAIN list = 1..Len(list)
           /\ list = [i \in 1..Len(list) |-> list[i]]
BY DEF IsList

\* Sorting a list rearranges it in the order of the keys.
LEMMA SortedBySorts ==
    ASSUME NEW items, NEW key, Keyed(items, key)
    PROVE  /\ SortedBy(items, key) \in [1..Len(items) -> Listed(items)]
           /\ Listed(SortedBy(items, key)) = Listed(items)
           /\ Rises(SortedBy(items, key), key)
<1> DEFINE n == Len(items)
           D == DOMAIN items
           k == [i \in 1..n |-> key[items[i].id]]
           InPlace(p) == \A i, j \in D : i < j => key[items[p[i]].id] < key[items[p[j]].id]
           place == CHOOSE p \in [D -> D] : InPlace(p)
           s == SortedBy(items, key)
<1>1. n \in Nat /\ D = 1..n
    BY ListDomain DEF Keyed
<1>2. k \in [1..n -> Int] /\ \A i, j \in 1..n : k[i] = k[j] => i = j
    <2>1. \A i \in D : items[i].id \in Ids(items)
        BY DEF Ids
    <2>2. \A i \in D : key[items[i].id] \in Int
        BY <2>1 DEF Keyed
    <2>3. \A i, j \in D : key[items[i].id] = key[items[j].id] => i = j
        BY <2>1 DEF Keyed, UniqueIds
    <2> QED BY <1>1, <2>2, <2>3
<1>3. \E p \in [D -> D] : InPlace(p)
    <2>1. PICK p \in [1..n -> 1..n] : \A i, j \in 1..n : i < j => k[p[i]] < k[p[j]]
        <3> HIDE DEF k, n
        <3> QED BY <1>1, <1>2, NumbersHaveOrder
    <2>2. \A i \in 1..n : p[i] \in 1..n /\ k[p[i]] = key[items[p[i]].id]
        BY <2>1
    <2> QED BY <1>1, <2>1, <2>2
<1>4. place \in [D -> D] /\ InPlace(place)
    BY <1>3
<1>5. s = [i \in D |-> items[place[i]]]
    BY Zenon DEF SortedBy
<1> HIDE DEF place
<1>6. \A i \in D : \E j \in D : place[j] = i
    <2>1. \A i, j \in 1..n : i < j => k[place[i]] < k[place[j]]
        BY <1>1, <1>4
    <2>2. place \in [1..n -> 1..n]
        BY <1>1, <1>4
    <2>3. n \in Nat /\ k \in [1..n -> Int]
        BY <1>1, <1>2
    <2> HIDE DEF k, n, InPlace, D
    <2>4. \A i \in 1..n : \E j \in 1..n : place[j] = i
        BY <2>1, <2>2, <2>3, OrderIsComplete
    <2> QED BY <1>1, <2>4
<1> HIDE DEF s
<1>7. s \in [1..n -> Listed(items)]
    BY <1>1, <1>4, <1>5 DEF Listed
<1>8. Listed(s) = Listed(items)
    BY <1>4, <1>5, <1>6 DEF Listed
<1>9. Rises(s, key)
    BY <1>4, <1>5 DEF Rises
<1> QED BY <1>7, <1>8, <1>9 DEF s, n

\* A nonempty set of natural numbers has a least element.
LEMMA LeastNatural ==
    ASSUME NEW T \in SUBSET Nat, T # {}
    PROVE  \E n \in T : \A m \in T : n <= m
<1>1. PICK n \in T : \A m \in T : <<m, n>> \notin OpToRel(<, Nat)
    BY NatLessThanWellFounded, WFMin
<1>2. \A m \in T : ~ (m < n)
    BY <1>1 DEF OpToRel
<1> QED BY <1>2

\* The elements of a list in the order of their keys determine its length.
LEMMA RisingLength ==
    ASSUME NEW n \in Nat, NEW S, NEW s \in [1..n -> S], NEW key, Rises(s, key),
           \A x \in Listed(s) : key[x.id] \in Int
    PROVE  /\ IsFiniteSet(Listed(s)) /\ Cardinality(Listed(s)) = n
           /\ \A i, j \in 1..n : s[i] = s[j] => i = j
<1>0. DOMAIN s = 1..n
    OBVIOUS
<1>1. ASSUME NEW i \in 1..n, NEW j \in 1..n, i # j PROVE s[i] # s[j]
    <2>1. i < j \/ j < i
        BY <1>1
    <2>2. s[i] \in Listed(s) /\ s[j] \in Listed(s)
        BY <1>0 DEF Listed
    <2>3. key[s[i].id] \in Int /\ key[s[j].id] \in Int
        BY <2>2
    <2>4. key[s[i].id] < key[s[j].id] \/ key[s[j].id] < key[s[i].id]
        BY <1>0, <2>1 DEF Rises
    <2> QED BY <2>3, <2>4
<1>2. s \in Bijection(1..n, Listed(s))
    <2>1. s \in [1..n -> Listed(s)] /\ \A x \in Listed(s) : \E i \in 1..n : s[i] = x
        BY <1>0 DEF Listed
    <2> QED BY <1>1, <2>1 DEF Bijection, Injection, IsInjective, Surjection
<1>3. IsFiniteSet(1..n) /\ Cardinality(1..n) = n
    BY FS_Interval
<1>4. IsFiniteSet(Listed(s)) /\ Cardinality(Listed(s)) = n
    <2>1. ExistsBijection(1..n, Listed(s))
        BY <1>2 DEF ExistsBijection
    <2> QED BY <1>3, <2>1, FS_Bijection
<1> QED BY <1>1, <1>4

\* The same elements can be put in order in one way only: at the first place where two
\* orders differed, the lesser element would stand later in one of them.
LEMMA OneOrder ==
    ASSUME NEW n \in Nat, NEW S, NEW s \in [1..n -> S],
           NEW m \in Nat, NEW T, NEW t \in [1..m -> T], NEW key,
           Rises(s, key), Rises(t, key), Listed(s) = Listed(t),
           \A x \in Listed(s) : key[x.id] \in Int
    PROVE  s = t
<1>1. n = m
    <2>1. Cardinality(Listed(s)) = n
        BY RisingLength
    <2>2. \A x \in Listed(t) : key[x.id] \in Int
        OBVIOUS
    <2>3. Cardinality(Listed(t)) = m
        BY <2>2, RisingLength
    <2> QED BY <2>1, <2>3
<1>2. DOMAIN s = 1..n /\ DOMAIN t = 1..n
    BY <1>1
<1>3. /\ \A i \in 1..n : s[i] \in Listed(s) /\ \E j \in 1..n : t[j] = s[i]
      /\ \A i \in 1..n : t[i] \in Listed(s) /\ \E j \in 1..n : s[j] = t[i]
    BY <1>2 DEF Listed
<1>4. /\ \A i, j \in 1..n : s[i] = s[j] => i = j
      /\ \A i, j \in 1..n : t[i] = t[j] => i = j
    <2>1. \A i, j \in 1..n : s[i] = s[j] => i = j
        BY RisingLength
    <2>2. \A x \in Listed(t) : key[x.id] \in Int
        OBVIOUS
    <2>3. \A i, j \in 1..m : t[i] = t[j] => i = j
        BY <2>2, RisingLength
    <2> QED BY <1>1, <2>1, <2>3
<1> DEFINE Differ == {i \in 1..n : s[i] # t[i]}
<1>5. ASSUME Differ # {} PROVE FALSE
    <2>1. PICK i \in Differ : \A j \in Differ : i <= j
        <3>1. Differ \in SUBSET Nat
            OBVIOUS
        <3> HIDE DEF Differ
        <3> QED BY <1>5, <3>1, LeastNatural
    <2>2. \A j \in 1..n : j < i => s[j] = t[j]
        BY <2>1
    <2>3. PICK j \in 1..n : t[j] = s[i]
        BY <1>3, <2>1
    <2>4. PICK l \in 1..n : s[l] = t[i]
        BY <1>3, <2>1
    <2>5. i < j
        BY <1>4, <2>1, <2>2, <2>3
    <2>6. i < l
        BY <1>4, <2>1, <2>2, <2>4
    <2>7. key[s[i].id] < key[t[i].id]
        BY <1>2, <2>1, <2>4, <2>6 DEF Rises
    <2>8. key[t[i].id] < key[s[i].id]
        BY <1>2, <2>1, <2>3, <2>5 DEF Rises
    <2>9. key[s[i].id] \in Int /\ key[t[i].id] \in Int
        BY <1>3, <2>1
    <2> QED BY <2>7, <2>8, <2>9
<1> QED BY <1>1, <1>5

\* The key of a listed item is a number.
LEMMA KeysAreNumbers ==
    ASSUME NEW items, NEW key, Keyed(items, key)
    PROVE  \A x \in Listed(items) : x.id \in Ids(items) /\ key[x.id] \in Int
<1>1. \A x \in Listed(items) : x.id \in Ids(items)
    BY DEF Listed, Ids
<1> QED BY <1>1 DEF Keyed

\* Two lists are sorted to the same one exactly when they list the same items.
LEMMA SortedTells ==
    ASSUME NEW a, NEW b, NEW key, Keyed(a, key), Keyed(b, key)
    PROVE  SortedBy(a, key) = SortedBy(b, key) <=> Listed(a) = Listed(b)
<1> DEFINE s == SortedBy(a, key)
           t == SortedBy(b, key)
<1>1. /\ s \in [1..Len(a) -> Listed(a)] /\ Listed(s) = Listed(a) /\ Rises(s, key)
      /\ t \in [1..Len(b) -> Listed(b)] /\ Listed(t) = Listed(b) /\ Rises(t, key)
    BY SortedBySorts
<1>2. Len(a) \in Nat /\ Len(b) \in Nat
    BY ListDomain DEF Keyed
<1>3. \A x \in Listed(a) : key[x.id] \in Int
    BY KeysAreNumbers
<1> HIDE DEF s, t
<1>4. ASSUME Listed(a) = Listed(b) PROVE s = t
    BY <1>1, <1>2, <1>3, <1>4, OneOrder
<1>5. ASSUME s = t PROVE Listed(a) = Listed(b)
    BY <1>1, <1>5
<1> QED BY <1>4, <1>5 DEF s, t

-----------------------------------------------------------------------------
(* Targets, with a list in each                                            *)

SoundTarget(t) == {"id", "evidence"} \subseteq DOMAIN t /\ Keyed(t.evidence, Rank)

SoundTargets(items) == Keyed(items, Rank) /\ \A t \in Listed(items) : SoundTarget(t)

\* The fields of a target, in canonical form and without order.
LEMMA TargetFields ==
    ASSUME NEW t, SoundTarget(t)
    PROVE  /\ CanonicalTarget(t).id = t.id /\ Unordered(t).id = t.id
           /\ CanonicalTarget(t).evidence = Sorted(t.evidence)
           /\ Unordered(t).evidence = Listed(t.evidence)
           /\ DOMAIN CanonicalTarget(t) = DOMAIN t /\ DOMAIN Unordered(t) = DOMAIN t
           /\ \A f \in DOMAIN t \ {"evidence"} :
                  CanonicalTarget(t)[f] = t[f] /\ Unordered(t)[f] = t[f]
<1>1. "id" \in DOMAIN t /\ "evidence" \in DOMAIN t /\ "id" # "evidence"
    BY DEF SoundTarget
<1>2. CanonicalTarget(t)
          = [f \in DOMAIN t |-> IF f = "evidence" THEN Sorted(t.evidence) ELSE t[f]]
    BY DEF CanonicalTarget
<1>3. Unordered(t) = [f \in DOMAIN t |-> IF f = "evidence" THEN Listed(t.evidence) ELSE t[f]]
    BY DEF Unordered, EvidenceOf, Listed
<1> QED BY <1>1, <1>2, <1>3

LEMMA TargetTells ==
    ASSUME NEW t, NEW u, SoundTarget(t), SoundTarget(u)
    PROVE  CanonicalTarget(t) = CanonicalTarget(u) <=> Unordered(t) = Unordered(u)
<1>1. Sorted(t.evidence) = Sorted(u.evidence) <=> Listed(t.evidence) = Listed(u.evidence)
    BY SortedTells DEF SoundTarget, Sorted
<1>2. /\ CanonicalTarget(t)
             = [f \in DOMAIN t |-> IF f = "evidence" THEN Sorted(t.evidence) ELSE t[f]]
      /\ CanonicalTarget(u)
             = [f \in DOMAIN u |-> IF f = "evidence" THEN Sorted(u.evidence) ELSE u[f]]
    BY DEF CanonicalTarget
<1>3. /\ Unordered(t)
             = [f \in DOMAIN t |-> IF f = "evidence" THEN Listed(t.evidence) ELSE t[f]]
      /\ Unordered(u)
             = [f \in DOMAIN u |-> IF f = "evidence" THEN Listed(u.evidence) ELSE u[f]]
    BY DEF Unordered, EvidenceOf, Listed
<1>4. ASSUME CanonicalTarget(t) = CanonicalTarget(u) PROVE Unordered(t) = Unordered(u)
    <2>1. DOMAIN t = DOMAIN u /\ Sorted(t.evidence) = Sorted(u.evidence)
        BY <1>4, TargetFields
    <2>2. \A f \in DOMAIN t \ {"evidence"} : t[f] = u[f]
        BY <1>4, <2>1, TargetFields
    <2> QED BY <1>1, <1>3, <2>1, <2>2
<1>5. ASSUME Unordered(t) = Unordered(u) PROVE CanonicalTarget(t) = CanonicalTarget(u)
    <2>1. DOMAIN t = DOMAIN u /\ Listed(t.evidence) = Listed(u.evidence)
        BY <1>5, TargetFields
    <2>2. \A f \in DOMAIN t \ {"evidence"} : t[f] = u[f]
        BY <1>5, <2>1, TargetFields
    <2> QED BY <1>1, <1>2, <2>1, <2>2
<1> QED BY <1>4, <1>5

\* The canonical targets are in order, each in its canonical form.
LEMMA CanonicalTargetsSort ==
    ASSUME NEW items, SoundTargets(items)
    PROVE  /\ CanonicalTargets(items)
                  \in [1..Len(items) -> {CanonicalTarget(t) : t \in Listed(items)}]
           /\ Listed(CanonicalTargets(items)) = {CanonicalTarget(t) : t \in Listed(items)}
           /\ Rises(CanonicalTargets(items), Rank)
           /\ \A x \in Listed(CanonicalTargets(items)) : Rank[x.id] \in Int
<1> DEFINE n == Len(items)
           s == Sorted(items)
           c == CanonicalTargets(items)
<1>1. n \in Nat /\ DOMAIN items = 1..n
    BY ListDomain DEF SoundTargets, Keyed
<1>2. s \in [1..n -> Listed(items)] /\ Listed(s) = Listed(items) /\ Rises(s, Rank)
    BY SortedBySorts DEF SoundTargets, Sorted
<1>3. c = [i \in 1..n |-> CanonicalTarget(s[i])]
    BY <1>1 DEF CanonicalTargets
<1> HIDE DEF n, s, c
<1>4. \A i \in 1..n : s[i] \in Listed(items) /\ c[i] = CanonicalTarget(s[i])
    BY <1>2, <1>3
<1>5. c \in [1..n -> {CanonicalTarget(t) : t \in Listed(items)}]
    BY <1>3, <1>4
<1>6. Listed(c) = {CanonicalTarget(t) : t \in Listed(items)}
    <2>1. \A t \in Listed(items) : \E i \in 1..n : s[i] = t
        BY <1>2 DEF Listed
    <2>2. DOMAIN c = 1..n
        BY <1>3
    <2> QED BY <1>4, <2>1, <2>2 DEF Listed
<1>7. \A t \in Listed(items) : CanonicalTarget(t).id = t.id
    BY TargetFields DEF SoundTargets
<1>8. Rises(c, Rank)
    <2>1. \A i \in 1..n : c[i].id = s[i].id
        BY <1>4, <1>7
    <2>2. DOMAIN c = 1..n /\ DOMAIN s = 1..n
        BY <1>2, <1>3
    <2> QED BY <1>2, <2>1, <2>2 DEF Rises
<1>9. \A x \in Listed(c) : Rank[x.id] \in Int
    BY <1>6, <1>7, KeysAreNumbers DEF SoundTargets
<1> QED BY <1>5, <1>6, <1>8, <1>9 DEF n, c

LEMMA CanonicalTargetsTell ==
    ASSUME NEW a, NEW b, SoundTargets(a), SoundTargets(b)
    PROVE  CanonicalTargets(a) = CanonicalTargets(b)
               <=> {Unordered(t) : t \in Listed(a)} = {Unordered(t) : t \in Listed(b)}
<1> DEFINE A == Listed(a)
           B == Listed(b)
           CA == {CanonicalTarget(t) : t \in A}
           CB == {CanonicalTarget(t) : t \in B}
           c == CanonicalTargets(a)
           d == CanonicalTargets(b)
<1>1. \A t, u \in A \cup B :
          CanonicalTarget(t) = CanonicalTarget(u) <=> Unordered(t) = Unordered(u)
    BY TargetTells DEF SoundTargets
<1>2. CA = CB <=> {Unordered(t) : t \in A} = {Unordered(t) : t \in B}
    <2> HIDE DEF A, B
    <2>1. ASSUME CA = CB
          PROVE  {Unordered(t) : t \in A} = {Unordered(t) : t \in B}
        <3>1. /\ \A t \in A : \E u \in B : CanonicalTarget(t) = CanonicalTarget(u)
              /\ \A u \in B : \E t \in A : CanonicalTarget(t) = CanonicalTarget(u)
            BY <2>1
        <3>2. /\ \A t \in A : \E u \in B : Unordered(t) = Unordered(u)
              /\ \A u \in B : \E t \in A : Unordered(t) = Unordered(u)
            BY <1>1, <3>1
        <3> QED BY <3>2
    <2>2. ASSUME {Unordered(t) : t \in A} = {Unordered(t) : t \in B}
          PROVE  CA = CB
        <3>1. /\ \A t \in A : \E u \in B : Unordered(t) = Unordered(u)
              /\ \A u \in B : \E t \in A : Unordered(t) = Unordered(u)
            BY <2>2
        <3>2. /\ \A t \in A : \E u \in B : CanonicalTarget(t) = CanonicalTarget(u)
              /\ \A u \in B : \E t \in A : CanonicalTarget(t) = CanonicalTarget(u)
            BY <1>1, <3>1
        <3> QED BY <3>2
    <2> QED BY <2>1, <2>2
<1>3. /\ c \in [1..Len(a) -> CA] /\ Listed(c) = CA /\ Rises(c, Rank)
      /\ d \in [1..Len(b) -> CB] /\ Listed(d) = CB /\ Rises(d, Rank)
      /\ \A x \in Listed(c) : Rank[x.id] \in Int
    BY CanonicalTargetsSort
<1>4. Len(a) \in Nat /\ Len(b) \in Nat
    BY ListDomain DEF SoundTargets, Keyed
<1> HIDE DEF c, d, CA, CB
<1>5. c = d <=> CA = CB
    BY <1>3, <1>4, OneOrder
<1> QED BY <1>2, <1>5 DEF c, d, CA, CB, A, B

-----------------------------------------------------------------------------
(* Files that are admitted                                                 *)

\* A target is among the targets of its document.
LEMMA TargetsListed ==
    ASSUME NEW d, IsList(d.domains.items), IsList(d.intents.items)
    PROVE  \A t \in Listed(d.domains.items) \cup Listed(d.intents.items) :
               \E k \in DOMAIN Targets(d) : Targets(d)[k] = t
<1> DEFINE a == d.domains.items
           b == d.intents.items
<1>1. a \in Seq(Listed(a) \cup Listed(b)) /\ b \in Seq(Listed(a) \cup Listed(b))
    BY DEF IsList, Listed
<1>2. Targets(d) = a \o b
    BY DEF Targets
<1> HIDE DEF a, b
<1>3. /\ Len(a) \in Nat /\ Len(b) \in Nat
      /\ DOMAIN a = 1..Len(a) /\ DOMAIN b = 1..Len(b)
      /\ DOMAIN (a \o b) = 1..(Len(a) + Len(b))
      /\ \A i \in 1..Len(a) : (a \o b)[i] = a[i]
      /\ \A i \in 1..Len(b) : (a \o b)[Len(a) + i] = b[i]
    BY <1>1
<1>4. \A m, n \in Nat : /\ \A i \in 1..n : m + i \in 1..(m + n)
                        /\ \A i \in 1..m : i \in 1..(m + n)
    OBVIOUS
<1>5. \A i \in DOMAIN a : i \in DOMAIN (a \o b) /\ (a \o b)[i] = a[i]
    BY <1>3, <1>4, Zenon
<1>6. \A i \in DOMAIN b : Len(a) + i \in DOMAIN (a \o b) /\ (a \o b)[Len(a) + i] = b[i]
    BY <1>3, <1>4, Zenon
<1>7. \A t \in Listed(a) \cup Listed(b) : \E k \in DOMAIN (a \o b) : (a \o b)[k] = t
    BY <1>5, <1>6 DEF Listed
<1> QED BY <1>2, <1>7 DEF a, b

\* The evidences of a target are told apart by their ids.
LEMMA EvidenceIdsUnique ==
    ASSUME NEW d, ValidEvidence(d), NEW k \in DOMAIN Targets(d)
    PROVE  UniqueIds(Targets(d)[k].evidence)
<1> DEFINE evidence == Targets(d)[k].evidence
<1> SUFFICES ASSUME NEW i \in DOMAIN evidence, NEW j \in DOMAIN evidence,
                    evidence[i].id = evidence[j].id
             PROVE  i = j
    BY DEF UniqueIds
<1>1. <<k, i>> \in EvidencePlaces(d) /\ <<k, j>> \in EvidencePlaces(d)
    BY DEF EvidencePlaces
<1>2. EvidenceAt(d, <<k, i>>) = evidence[i] /\ EvidenceAt(d, <<k, j>>) = evidence[j]
    BY DEF EvidenceAt
<1>3. <<k, i>> = <<k, j>>
    BY <1>1, <1>2 DEF ValidEvidence
<1> QED BY <1>3

LEMMA RankKeys ==
    ASSUME NEW items, IsList(items), UniqueIds(items), Ids(items) \subseteq DOMAIN Rank
    PROVE  Keyed(items, Rank)
BY RankAssumption DEF Keyed

RouteKey(items) == [id \in Ids(items) |-> id]

\* Every list the hashes are made of can be sorted, whatever order it is in.
LEMMA AdmittedIsSortable ==
    ASSUME NEW files, Admitted(files)
    PROVE  /\ Keyed(files.ruleset.profiles.items, Rank)
           /\ SoundTargets(files.ruleset.domains.items)
           /\ SoundTargets(files.ruleset.intents.items)
           /\ Keyed(files.ruleset.routing.items, RouteKey(files.ruleset.routing.items))
           /\ Keyed(files.registry.items, Rank)
<1> DEFINE d == files.ruleset
           g == files.registry
<1>1. Parsed(files) /\ ValidRuleset(d) /\ ValidRegistry(g)
    BY DEF Admitted
<1>2. /\ ParsedDocument(d) /\ IsList(g.items)
      /\ \A t \in Listed(d.domains.items) : {"id", "evidence"} \subseteq DOMAIN t
      /\ \A t \in Listed(d.intents.items) : {"id", "evidence"} \subseteq DOMAIN t
      /\ Ids(d.profiles.items) \subseteq DOMAIN Rank
      /\ Ids(d.domains.items) \subseteq DOMAIN Rank
      /\ Ids(d.intents.items) \subseteq DOMAIN Rank
      /\ Ids(g.items) \subseteq DOMAIN Rank
      /\ \A t \in Listed(d.domains.items) \cup Listed(d.intents.items) :
             Ids(t.evidence) \subseteq DOMAIN Rank
    BY <1>1 DEF Parsed
<1>3. /\ UniqueIds(d.profiles.items) /\ UniqueIds(d.domains.items)
      /\ UniqueIds(d.intents.items) /\ UniqueIds(d.routing.items)
      /\ ValidEvidence(d)
    BY <1>1 DEF ValidRuleset
<1>4. UniqueIds(g.items)
    BY <1>1 DEF ValidRegistry, UniqueIds
<1>5. /\ IsList(d.profiles.items) /\ IsList(d.domains.items)
      /\ IsList(d.intents.items) /\ IsList(d.routing.items)
    BY <1>2 DEF ParsedDocument
<1>6. \A t \in Listed(d.domains.items) \cup Listed(d.intents.items) : IsList(t.evidence)
    BY <1>2 DEF ParsedDocument, Listed
<1>7. \A id \in Ids(d.routing.items) : id \in Int
    BY <1>2 DEF ParsedDocument, Ids
<1> HIDE DEF d, g
<1>8. \A t \in Listed(d.domains.items) \cup Listed(d.intents.items) : UniqueIds(t.evidence)
    BY <1>3, <1>5, TargetsListed, EvidenceIdsUnique
<1>9. \A t \in Listed(d.domains.items) \cup Listed(d.intents.items) : SoundTarget(t)
    BY <1>2, <1>6, <1>8, RankKeys DEF SoundTarget
<1>10. SoundTargets(d.domains.items) /\ SoundTargets(d.intents.items)
    BY <1>2, <1>3, <1>5, <1>9, RankKeys DEF SoundTargets
<1>11. Keyed(d.profiles.items, Rank) /\ Keyed(g.items, Rank)
    BY <1>2, <1>3, <1>4, <1>5, RankKeys
<1>12. Keyed(d.routing.items, RouteKey(d.routing.items))
    BY <1>3, <1>5, <1>7 DEF Keyed, RouteKey
<1> QED BY <1>10, <1>11, <1>12 DEF d, g

LEMMA RoutesTell ==
    ASSUME NEW a, NEW b, Keyed(a, RouteKey(a)), Keyed(b, RouteKey(b))
    PROVE  SortedRoutes(a) = SortedRoutes(b) <=> Listed(a) = Listed(b)
<1>1. /\ SortedRoutes(a) = SortedBy(a, RouteKey(a))
      /\ SortedRoutes(b) = SortedBy(b, RouteKey(b))
    BY DEF SortedRoutes, RouteKey
<1>2. Listed(SortedRoutes(a)) = Listed(a) /\ Listed(SortedRoutes(b)) = Listed(b)
    BY <1>1, SortedBySorts
<1>3. ASSUME Listed(a) = Listed(b) PROVE SortedRoutes(a) = SortedRoutes(b)
    <2>1. Ids(a) = {x.id : x \in Listed(a)} /\ Ids(b) = {x.id : x \in Listed(b)}
        BY DEF Ids, Listed
    <2>2. RouteKey(a) = RouteKey(b)
        BY <1>3, <2>1 DEF RouteKey
    <2> QED BY <1>1, <1>3, <2>2, SortedTells
<1> QED BY <1>2, <1>3

\* config/router.yaml is hashed whole, its schema_version under another name.
LEMMA SettingsTell ==
    ASSUME NEW c \in Settings, NEW d \in Settings
    PROVE  (/\ c.schema_version = d.schema_version
            /\ [c EXCEPT !.schema_version = None] = [d EXCEPT !.schema_version = None])
               <=> c = d
<1>1. ASSUME c.schema_version = d.schema_version,
             [c EXCEPT !.schema_version = None] = [d EXCEPT !.schema_version = None]
      PROVE  c = d
    <2>1. /\ c.expected_major_version = d.expected_major_version
          /\ c.accent_insensitive_matching = d.accent_insensitive_matching
          /\ c.router = d.router
        BY <1>1 DEF Settings
    <2> QED BY <1>1, <2>1 DEF Settings
<1> QED BY <1>1

\* The canonical payload of admitted rules tells what they mean, and nothing else.
LEMMA PayloadTellsMeaning ==
    ASSUME NEW f, NEW g, Admitted(f), Admitted(g)
    PROVE  CanonicalPayload(f.ruleset) = CanonicalPayload(g.ruleset)
               <=> Meaning(f) = Meaning(g)
<1> DEFINE r == f.ruleset
           s == g.ruleset
<1>1. r.config \in Settings /\ s.config \in Settings
    BY DEF Admitted, Parsed
<1>2. CanonicalPayload(r) = CanonicalPayload(s)
          <=> /\ r.config.schema_version = s.config.schema_version
              /\ r.profiles.ruleset_version = s.profiles.ruleset_version
              /\ [r.config EXCEPT !.schema_version = None]
                     = [s.config EXCEPT !.schema_version = None]
              /\ Sorted(r.profiles.items) = Sorted(s.profiles.items)
              /\ CanonicalTargets(r.domains.items) = CanonicalTargets(s.domains.items)
              /\ CanonicalTargets(r.intents.items) = CanonicalTargets(s.intents.items)
              /\ SortedRoutes(r.routing.items) = SortedRoutes(s.routing.items)
    BY DEF CanonicalPayload
<1>3. Meaning(f) = Meaning(g)
          <=> /\ r.config = s.config
              /\ r.profiles.ruleset_version = s.profiles.ruleset_version
              /\ Listed(r.profiles.items) = Listed(s.profiles.items)
              /\ {Unordered(t) : t \in Listed(r.domains.items)}
                     = {Unordered(t) : t \in Listed(s.domains.items)}
              /\ {Unordered(t) : t \in Listed(r.intents.items)}
                     = {Unordered(t) : t \in Listed(s.intents.items)}
              /\ Listed(r.routing.items) = Listed(s.routing.items)
    BY DEF Meaning
<1>4. (/\ r.config.schema_version = s.config.schema_version
       /\ [r.config EXCEPT !.schema_version = None]
              = [s.config EXCEPT !.schema_version = None]) <=> r.config = s.config
    BY <1>1, SettingsTell
<1>5. Sorted(r.profiles.items) = Sorted(s.profiles.items)
          <=> Listed(r.profiles.items) = Listed(s.profiles.items)
    BY AdmittedIsSortable, SortedTells DEF Sorted
<1>6. CanonicalTargets(r.domains.items) = CanonicalTargets(s.domains.items)
          <=> {Unordered(t) : t \in Listed(r.domains.items)}
                  = {Unordered(t) : t \in Listed(s.domains.items)}
    BY AdmittedIsSortable, CanonicalTargetsTell
<1>7. CanonicalTargets(r.intents.items) = CanonicalTargets(s.intents.items)
          <=> {Unordered(t) : t \in Listed(r.intents.items)}
                  = {Unordered(t) : t \in Listed(s.intents.items)}
    BY AdmittedIsSortable, CanonicalTargetsTell
<1>8. SortedRoutes(r.routing.items) = SortedRoutes(s.routing.items)
          <=> Listed(r.routing.items) = Listed(s.routing.items)
    BY AdmittedIsSortable, RoutesTell
<1> HIDE DEF r, s
<1> QED BY <1>2, <1>3, <1>4, <1>5, <1>6, <1>7, <1>8 DEF r, s

-----------------------------------------------------------------------------
(* What is made of files depends on their meaning only                     *)

\* Under an id that occurs once a dictionary holds the item listed with it.
LEMMA ItemIsListed ==
    ASSUME NEW items, IsList(items), UniqueIds(items), NEW x \in Listed(items)
    PROVE  x.id \in Ids(items) /\ ItemOf(items, x.id) = x
<1> DEFINE Last(i) == /\ items[i].id = x.id
                      /\ \A j \in DOMAIN items : items[j].id = x.id => j <= i
<1>1. PICK k \in DOMAIN items : items[k] = x
    BY DEF Listed
<1>2. k <= k
    BY <1>1, ListDomain
<1>3. Last(k)
    BY <1>1, <1>2 DEF UniqueIds
<1>4. ItemOf(items, x.id) = items[CHOOSE i \in DOMAIN items : Last(i)]
    BY DEF ItemOf
<1>5. PICK i \in DOMAIN items : i = CHOOSE c \in DOMAIN items : Last(c)
    BY <1>1, <1>3
<1>6. Last(i)
    BY <1>1, <1>3, <1>5
<1>7. i = k
    BY <1>1, <1>6 DEF UniqueIds
<1> QED BY <1>1, <1>4, <1>5, <1>7 DEF Ids

\* The same items under the same ids.
LEMMA SameItems ==
    ASSUME NEW a, NEW b, IsList(a), UniqueIds(a), IsList(b), UniqueIds(b),
           Listed(a) = Listed(b)
    PROVE  Ids(a) = Ids(b) /\ \A id \in Ids(a) : ItemOf(a, id) = ItemOf(b, id)
<1>1. Ids(a) = {x.id : x \in Listed(a)} /\ Ids(b) = {x.id : x \in Listed(b)}
    BY DEF Ids, Listed
<1>2. \A x \in Listed(a) : ItemOf(a, x.id) = x /\ ItemOf(b, x.id) = x
    BY ItemIsListed
<1> QED BY <1>1, <1>2

\* The same targets, their evidence in any order, under the same ids.
LEMMA SameTargets ==
    ASSUME NEW a, NEW b, SoundTargets(a), SoundTargets(b),
           {Unordered(t) : t \in Listed(a)} = {Unordered(t) : t \in Listed(b)}
    PROVE  /\ Ids(a) = Ids(b)
           /\ \A id \in Ids(a) : Unordered(ItemOf(a, id)) = Unordered(ItemOf(b, id))
           /\ \A id \in Ids(a) : ItemOf(a, id) \in Listed(a) /\ ItemOf(b, id) \in Listed(b)
<1>1. /\ \A t \in Listed(a) : \E u \in Listed(b) : Unordered(t) = Unordered(u)
      /\ \A u \in Listed(b) : \E t \in Listed(a) : Unordered(t) = Unordered(u)
    <2>1. \A t \in Listed(a) : Unordered(t) \in {Unordered(u) : u \in Listed(b)}
        OBVIOUS
    <2>2. \A u \in Listed(b) : Unordered(u) \in {Unordered(t) : t \in Listed(a)}
        OBVIOUS
    <2> QED BY <2>1, <2>2
<1>2. \A t \in Listed(a) \cup Listed(b) : Unordered(t).id = t.id
    BY TargetFields DEF SoundTargets
<1>3. Ids(a) = {x.id : x \in Listed(a)} /\ Ids(b) = {x.id : x \in Listed(b)}
    BY DEF Ids, Listed
<1>4. /\ \A x \in Listed(a) : ItemOf(a, x.id) = x
      /\ \A x \in Listed(b) : ItemOf(b, x.id) = x
    BY ItemIsListed DEF SoundTargets, Keyed
<1>5. \A t \in Listed(a) : \E u \in Listed(b) : u.id = t.id /\ Unordered(t) = Unordered(u)
    <2> SUFFICES ASSUME NEW t \in Listed(a)
                 PROVE  \E u \in Listed(b) : u.id = t.id /\ Unordered(t) = Unordered(u)
        OBVIOUS
    <2>1. PICK u \in Listed(b) : Unordered(t) = Unordered(u)
        BY <1>1
    <2>2. Unordered(t).id = t.id /\ Unordered(u).id = u.id
        BY <1>2
    <2> QED BY <2>1, <2>2
<1>6. \A u \in Listed(b) : \E t \in Listed(a) : u.id = t.id
    <2> SUFFICES ASSUME NEW u \in Listed(b) PROVE \E t \in Listed(a) : u.id = t.id
        OBVIOUS
    <2>1. PICK t \in Listed(a) : Unordered(t) = Unordered(u)
        BY <1>1
    <2>2. Unordered(t).id = t.id /\ Unordered(u).id = u.id
        BY <1>2
    <2> QED BY <2>1, <2>2
<1>7. Ids(a) = Ids(b)
    BY <1>3, <1>5, <1>6
<1>8. ASSUME NEW id \in Ids(a)
      PROVE  /\ Unordered(ItemOf(a, id)) = Unordered(ItemOf(b, id))
             /\ ItemOf(a, id) \in Listed(a) /\ ItemOf(b, id) \in Listed(b)
    <2>1. PICK t \in Listed(a) : t.id = id
        BY <1>3
    <2>2. PICK u \in Listed(b) : u.id = t.id /\ Unordered(t) = Unordered(u)
        BY <1>5
    <2>3. ItemOf(a, id) = t /\ ItemOf(b, id) = u
        BY <1>4, <2>1, <2>2
    <2> QED BY <2>2, <2>3
<1> QED BY <1>7, <1>8

\* An order-free target has the evidence and the capability of the target.
LEMMA TargetImages ==
    ASSUME NEW t, NEW u, SoundTarget(t), SoundTarget(u), Unordered(t) = Unordered(u)
    PROVE  /\ EvidenceOf(t) = EvidenceOf(u)
           /\ "route_capable" \in DOMAIN t => t.route_capable = u.route_capable
<1>1. EvidenceOf(t) = Listed(t.evidence) /\ EvidenceOf(u) = Listed(u.evidence)
    BY DEF EvidenceOf, Listed
<1>2. EvidenceOf(t) = EvidenceOf(u)
    BY <1>1, TargetFields
<1>3. ASSUME "route_capable" \in DOMAIN t PROVE t.route_capable = u.route_capable
    <2>1. "route_capable" \in DOMAIN t \ {"evidence"} /\ DOMAIN t = DOMAIN u
        BY <1>3, TargetFields
    <2> QED BY <2>1, TargetFields
<1> QED BY <1>2, <1>3

\* Rules that say the same become the same snapshot.
LEMMA MeaningMakesSnapshot ==
    ASSUME NEW f, NEW g, Admitted(f), Admitted(g), Meaning(f) = Meaning(g)
    PROVE  RulesetSnapshot(f.ruleset) = RulesetSnapshot(g.ruleset)
<1> DEFINE r == f.ruleset
           s == g.ruleset
<1>1. /\ r.config = s.config
      /\ r.profiles.ruleset_version = s.profiles.ruleset_version
      /\ Listed(r.profiles.items) = Listed(s.profiles.items)
      /\ {Unordered(t) : t \in Listed(r.domains.items)}
             = {Unordered(t) : t \in Listed(s.domains.items)}
      /\ {Unordered(t) : t \in Listed(r.intents.items)}
             = {Unordered(t) : t \in Listed(s.intents.items)}
      /\ Listed(r.routing.items) = Listed(s.routing.items)
    BY DEF Meaning
<1>2. /\ SoundTargets(r.domains.items) /\ SoundTargets(s.domains.items)
      /\ SoundTargets(r.intents.items) /\ SoundTargets(s.intents.items)
    BY AdmittedIsSortable
<1>3. /\ IsList(r.profiles.items) /\ UniqueIds(r.profiles.items)
      /\ IsList(s.profiles.items) /\ UniqueIds(s.profiles.items)
      /\ IsList(r.routing.items) /\ UniqueIds(r.routing.items)
      /\ IsList(s.routing.items) /\ UniqueIds(s.routing.items)
    BY AdmittedIsSortable DEF Keyed
<1>4. \A t \in Listed(r.intents.items) \cup Listed(s.intents.items) :
          "route_capable" \in DOMAIN t
    BY DEF Admitted, Parsed
<1> HIDE DEF r, s
<1>5. ById(r.profiles.items, LAMBDA p : p.enabled)
          = ById(s.profiles.items, LAMBDA p : p.enabled)
    <2>1. /\ Ids(r.profiles.items) = Ids(s.profiles.items)
          /\ \A id \in Ids(r.profiles.items) :
                 ItemOf(r.profiles.items, id) = ItemOf(s.profiles.items, id)
        BY <1>1, <1>3, SameItems
    <2> QED BY <2>1 DEF ById
<1>6. ById(r.domains.items, LAMBDA t : [evidence |-> EvidenceOf(t)])
          = ById(s.domains.items, LAMBDA t : [evidence |-> EvidenceOf(t)])
    <2> DEFINE a == r.domains.items
               b == s.domains.items
    <2>1. /\ Ids(a) = Ids(b)
          /\ \A id \in Ids(a) :
                 /\ Unordered(ItemOf(a, id)) = Unordered(ItemOf(b, id))
                 /\ ItemOf(a, id) \in Listed(a) /\ ItemOf(b, id) \in Listed(b)
        BY <1>1, <1>2, SameTargets
    <2>2. \A id \in Ids(a) : EvidenceOf(ItemOf(a, id)) = EvidenceOf(ItemOf(b, id))
        BY <1>2, <2>1, TargetImages DEF SoundTargets
    <2> HIDE DEF a, b
    <2>3. [id \in Ids(a) |-> [evidence |-> EvidenceOf(ItemOf(a, id))]]
              = [id \in Ids(b) |-> [evidence |-> EvidenceOf(ItemOf(b, id))]]
        BY <2>1, <2>2
    <2> QED BY <2>3 DEF ById, a, b
<1>7. ById(r.intents.items, LAMBDA t : [evidence |-> EvidenceOf(t),
                                        route_capable |-> t.route_capable])
          = ById(s.intents.items, LAMBDA t : [evidence |-> EvidenceOf(t),
                                              route_capable |-> t.route_capable])
    <2> DEFINE a == r.intents.items
               b == s.intents.items
    <2>1. /\ Ids(a) = Ids(b)
          /\ \A id \in Ids(a) :
                 /\ Unordered(ItemOf(a, id)) = Unordered(ItemOf(b, id))
                 /\ ItemOf(a, id) \in Listed(a) /\ ItemOf(b, id) \in Listed(b)
        BY <1>1, <1>2, SameTargets
    <2>2. \A id \in Ids(a) :
              /\ EvidenceOf(ItemOf(a, id)) = EvidenceOf(ItemOf(b, id))
              /\ ItemOf(a, id).route_capable = ItemOf(b, id).route_capable
        BY <1>2, <1>4, <2>1, TargetImages DEF SoundTargets
    <2> HIDE DEF a, b
    <2>3. [id \in Ids(a) |-> [evidence |-> EvidenceOf(ItemOf(a, id)),
                              route_capable |-> ItemOf(a, id).route_capable]]
              = [id \in Ids(b) |-> [evidence |-> EvidenceOf(ItemOf(b, id)),
                                    route_capable |-> ItemOf(b, id).route_capable]]
        BY <2>1, <2>2
    <2> QED BY <2>3 DEF ById, a, b
<1>8. ById(r.routing.items, LAMBDA x : [enabled |-> x.enabled, priority |-> x.priority,
                                        domain |-> x.domain, intent |-> x.intent,
                                        profile |-> x.profile])
          = ById(s.routing.items, LAMBDA x : [enabled |-> x.enabled,
                                              priority |-> x.priority,
                                              domain |-> x.domain, intent |-> x.intent,
                                              profile |-> x.profile])
    <2> DEFINE a == r.routing.items
               b == s.routing.items
               Image(x) == [enabled |-> x.enabled, priority |-> x.priority,
                            domain |-> x.domain, intent |-> x.intent, profile |-> x.profile]
    <2>1. Ids(a) = Ids(b) /\ \A id \in Ids(a) : ItemOf(a, id) = ItemOf(b, id)
        BY <1>1, <1>3, SameItems
    <2>2. \A id \in Ids(a) : Image(ItemOf(a, id)) = Image(ItemOf(b, id))
        BY <2>1
    <2> HIDE DEF a, b, Image
    <2>3. [id \in Ids(a) |-> Image(ItemOf(a, id))] = [id \in Ids(b) |-> Image(ItemOf(b, id))]
        BY <2>1, <2>2
    <2> QED BY <2>3 DEF ById, a, b, Image
<1> QED BY <1>1, <1>5, <1>6, <1>7, <1>8 DEF RulesetSnapshot, r, s

\* Registries of the same hash become the same snapshot.
LEMMA RegistryHashMakesSnapshot ==
    ASSUME NEW f, NEW g, Admitted(f), Admitted(g),
           RegistryPayload(f.registry) = RegistryPayload(g.registry)
    PROVE  RegistrySnapshot(f.registry) = RegistrySnapshot(g.registry)
<1> DEFINE a == f.registry.items
           b == g.registry.items
<1>1. Sorted(a) = Sorted(b)
    BY DEF RegistryPayload, CanonicalProfiles
<1>2. Keyed(a, Rank) /\ Keyed(b, Rank)
    BY AdmittedIsSortable
<1>3. /\ RegistrySnapshot(f.registry)
             = [id \in {a[i].id : i \in DOMAIN a} |->
                   LET p == CHOOSE i \in DOMAIN a : a[i].id = id
                   IN  [enabled |-> a[p].enabled, model |-> a[p].model]]
      /\ RegistrySnapshot(g.registry)
             = [id \in {b[i].id : i \in DOMAIN b} |->
                   LET p == CHOOSE i \in DOMAIN b : b[i].id = id
                   IN  [enabled |-> b[p].enabled, model |-> b[p].model]]
    BY DEF RegistrySnapshot
<1> HIDE DEF a, b
<1>4. Listed(a) = Listed(b)
    BY <1>1, <1>2, SortedTells DEF Sorted
<1>5. {a[i].id : i \in DOMAIN a} = {b[i].id : i \in DOMAIN b}
    <2>1. /\ {a[i].id : i \in DOMAIN a} = {x.id : x \in Listed(a)}
          /\ {b[i].id : i \in DOMAIN b} = {x.id : x \in Listed(b)}
        BY DEF Listed
    <2> QED BY <1>4, <2>1
<1>6. ASSUME NEW id \in {a[i].id : i \in DOMAIN a}
      PROVE  a[CHOOSE i \in DOMAIN a : a[i].id = id] = b[CHOOSE i \in DOMAIN b : b[i].id = id]
    <2> DEFINE p == CHOOSE i \in DOMAIN a : a[i].id = id
               q == CHOOSE i \in DOMAIN b : b[i].id = id
    <2>1. p \in DOMAIN a /\ a[p].id = id
        OBVIOUS
    <2>2. q \in DOMAIN b /\ b[q].id = id
        BY <1>5
    <2> HIDE DEF p, q
    <2>3. PICK k \in DOMAIN a : a[k] = b[q]
        BY <1>4, <2>2 DEF Listed
    <2>4. k = p
        BY <1>2, <2>1, <2>2, <2>3 DEF Keyed, UniqueIds
    <2> QED BY <2>3, <2>4 DEF p, q
<1> DEFINE Under(items, id) == items[CHOOSE i \in DOMAIN items : items[i].id = id]
           Entry(p) == [enabled |-> p.enabled, model |-> p.model]
           Entries(items) == [id \in {items[i].id : i \in DOMAIN items} |->
                                 Entry(Under(items, id))]
<1>7. RegistrySnapshot(f.registry) = Entries(a) /\ RegistrySnapshot(g.registry) = Entries(b)
    BY <1>3, Zenon
<1>8. \A id \in {a[i].id : i \in DOMAIN a} : Under(a, id) = Under(b, id)
    BY <1>6
<1> HIDE DEF Under, Entry
<1>9. Entries(a) = Entries(b)
    BY <1>5, <1>8
<1> QED BY <1>7, <1>9

-----------------------------------------------------------------------------
(* The theorems                                                            *)

\* No order of the profiles keeps a service from starting: what is admitted passes the
\* validators of the registry snapshot, because it was sorted for them.
THEOREM AdmittedIsAccepted == \A files : Admitted(files) => AcceptedSnapshot(files)
<1> SUFFICES ASSUME NEW files, Admitted(files) PROVE AcceptedSnapshot(files)
    OBVIOUS
<1> DEFINE items == files.registry.items
           s == CanonicalProfiles(files.registry)
<1>1. Keyed(items, Rank) /\ s = SortedBy(items, Rank)
    BY AdmittedIsSortable DEF CanonicalProfiles, Sorted
<1>2. s \in [1..Len(items) -> Listed(items)] /\ Rises(s, Rank)
    BY <1>1, SortedBySorts
<1>3. items # << >>
    BY DEF Admitted, ValidRegistry
<1> HIDE DEF items, s
<1>4. Len(items) \in Nat /\ Len(items) # 0
    BY <1>1, <1>3 DEF Keyed, IsList
<1>5. DOMAIN s = 1..Len(items) /\ Len(s) = Len(items) /\ s # << >>
    BY <1>2, <1>4
<1>6. \A i \in 1..(Len(s) - 1) : i \in DOMAIN s /\ i + 1 \in DOMAIN s /\ i < i + 1
    BY <1>4, <1>5
<1>7. \A i \in 1..(Len(s) - 1) : Rank[s[i].id] < Rank[s[i + 1].id]
    BY <1>2, <1>6 DEF Rises
<1> QED BY <1>5, <1>7 DEF AcceptedSnapshot, AcceptedRegistry, s

\* A service that runs, runs files that were admitted.
RunsAdmitted ==
    running # None => Admitted(running.files) /\ running = Running(running.files)

LEMMA AlwaysRunsAdmitted == CanonicalSpec => []RunsAdmitted
<1>1. CanonicalInit => RunsAdmitted
    BY DEF CanonicalInit, RunsAdmitted
<1>2. RunsAdmitted /\ [CanonicalNext]_canonical_vars => RunsAdmitted'
    <2> SUFFICES ASSUME RunsAdmitted, [CanonicalNext]_canonical_vars PROVE RunsAdmitted'
        OBVIOUS
    <2>1. CASE Bootstrap
        <3>1. CASE Admitted(deployed) /\ AcceptedSnapshot(deployed)
            <4>1. running' = Running(deployed)
                BY <2>1, <3>1 DEF Bootstrap
            <4>2. running'.files = deployed
                BY <4>1 DEF Running
            <4> QED BY <3>1, <4>1, <4>2 DEF RunsAdmitted
        <3>2. CASE ~ (Admitted(deployed) /\ AcceptedSnapshot(deployed))
            BY <2>1, <3>2 DEF Bootstrap, RunsAdmitted
        <3> QED BY <3>1, <3>2
    <2>2. CASE UNCHANGED running
        BY <2>2 DEF RunsAdmitted
    <2>3. Reorder \/ Change => UNCHANGED running
        BY DEF Reorder, Change, EditFiles
    <2> QED BY <2>1, <2>2, <2>3 DEF CanonicalNext, canonical_vars
<1> QED BY <1>1, <1>2, PTL DEF CanonicalSpec

\* The ruleset hash follows the meaning of the rules, for any documents, any edits and
\* any order of the lists: RulesetHashFollowsMeaning.
THEOREM HashFollowsMeaning == CanonicalSpec => RulesetHashFollowsMeaning
<1>1. RunsAdmitted /\ RunsAdmitted'
          => [Started => (running'.ruleset_hash = running.ruleset_hash
                              <=> Meaning(running'.files) = Meaning(running.files))]_canonical_vars
    <2> SUFFICES ASSUME RunsAdmitted, RunsAdmitted', Started
                 PROVE  running'.ruleset_hash = running.ruleset_hash
                            <=> Meaning(running'.files) = Meaning(running.files)
        OBVIOUS
    <2>1. /\ Admitted(running.files) /\ running = Running(running.files)
          /\ Admitted(running'.files) /\ running' = Running(running'.files)
        BY DEF Started, RunsAdmitted
    <2>2. /\ running.ruleset_hash = CanonicalPayload(running.files.ruleset)
          /\ running'.ruleset_hash = CanonicalPayload(running'.files.ruleset)
        BY <2>1 DEF Running
    <2> QED BY <2>1, <2>2, PayloadTellsMeaning
<1> QED BY <1>1, AlwaysRunsAdmitted, PTL DEF RulesetHashFollowsMeaning

\* Instances that report the same two hashes answer every request alike:
\* SameHashSameAnswers.
THEOREM EqualHashesAnswerAlike == CanonicalSpec => SameHashSameAnswers
<1>1. RunsAdmitted /\ RunsAdmitted'
          => [Started /\ running'.ruleset_hash = running.ruleset_hash
                      /\ running'.registry_hash = running.registry_hash
                 => SameAnswers]_canonical_vars
    <2> SUFFICES ASSUME RunsAdmitted, RunsAdmitted', Started,
                        running'.ruleset_hash = running.ruleset_hash,
                        running'.registry_hash = running.registry_hash
                 PROVE  SameAnswers
        OBVIOUS
    <2>1. /\ Admitted(running.files) /\ running = Running(running.files)
          /\ Admitted(running'.files) /\ running' = Running(running'.files)
        BY DEF Started, RunsAdmitted
    <2>2. /\ running.ruleset_hash = CanonicalPayload(running.files.ruleset)
          /\ running'.ruleset_hash = CanonicalPayload(running'.files.ruleset)
          /\ running.registry_hash = RegistryPayload(running.files.registry)
          /\ running'.registry_hash = RegistryPayload(running'.files.registry)
          /\ running.ruleset = RulesetSnapshot(running.files.ruleset)
          /\ running'.ruleset = RulesetSnapshot(running'.files.ruleset)
          /\ running.registry = RegistrySnapshot(running.files.registry)
          /\ running'.registry = RegistrySnapshot(running'.files.registry)
        BY <2>1 DEF Running
    <2>3. running'.ruleset = running.ruleset
        BY <2>1, <2>2, PayloadTellsMeaning, MeaningMakesSnapshot
    <2>4. running'.registry = running.registry
        BY <2>1, <2>2, RegistryHashMakesSnapshot
    <2> QED BY <2>3, <2>4 DEF SameAnswers
<1> QED BY <1>1, AlwaysRunsAdmitted, PTL DEF SameHashSameAnswers
================================================================================

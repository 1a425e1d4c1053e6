-------------------------- MODULE TermSearchProofs --------------------------
(***************************************************************************)
(* The search for an evidence value is partially correct, for all messages *)
(* and values: see IInv for the argument.                                  *)
(***************************************************************************)
EXTENDS TermSearch, TLAPS

(***************************************************************************)
(* The inductive invariant: no place a match may be at lies before         *)
(* search_from (a phrase never moves it), and a result is what the two     *)
(* properties say of it.                                                   *)
(***************************************************************************)
NoneBehind == ~done => /\ \A s \in Places : search_from <= s
                       /\ span = None

IInv == TypeOK /\ NoneBehind /\ FirstPlace /\ NothingMissed

\* What the assumptions say of the text at hand.
LEMMA Texts ==
    ASSUME TypeOK
    PROVE  /\ message \in Seq(Char) /\ value \in Seq(Char)
           /\ Len(message) \in Nat /\ Len(value) \in Nat
BY TextsAssumption DEF TypeOK

\* An occurrence that passes the test of its type is a place.
LEMMA InPlaces ==
    ASSUME TypeOK, Searching, NEW s \in 0..Len(message), Occurs(s),
           type = "term" => Bounded(s)
    PROVE  s \in Places
BY DEF Searching, Places

LEMMA InitIInv == Init => IInv
<1> SUFFICES ASSUME Init PROVE IInv
    OBVIOUS
<1>1. TypeOK
    <2>1. message \in Seq(Char) /\ Len(message) \in Nat
        BY TextsAssumption DEF Init
    <2>2. search_from \in 0..Len(message) + 1
        BY <2>1 DEF Init
    <2>3. span \in (Nat \X Nat) \cup {None}
        BY DEF Init
    <2> QED BY <2>2, <2>3 DEF Init, TypeOK
<1>2. \A s \in Places : 0 <= s
    BY DEF Places
<1> QED BY <1>1, <1>2 DEF Init, IInv, NoneBehind, FirstPlace, NothingMissed

\* A span is no None.
LEMMA SpanIsNotNone == \A s, e \in Nat : <<s, e>> # None
BY NoneAssumption

LEMMA EmptyKeepsIInv == IInv /\ Empty => IInv'
<1> SUFFICES ASSUME IInv, Empty PROVE IInv'
    OBVIOUS
<1>1. TypeOK'
    BY DEF IInv, TypeOK, Empty
<1>2. Places' = {} /\ span' = None
    BY DEF Empty, IInv, NoneBehind, Places
<1> QED BY <1>1, <1>2 DEF IInv, NoneBehind, FirstPlace, NothingMissed, Empty

LEMMA FailKeepsIInv == IInv /\ Fail => IInv'
<1> SUFFICES ASSUME IInv, Fail PROVE IInv'
    OBVIOUS
<1>1. TypeOK'
    BY DEF IInv, TypeOK, Fail
<1>2. Places = {}
    <2> SUFFICES ASSUME NEW s \in Places PROVE FALSE
        OBVIOUS
    <2>1. s \in 0..Len(message) /\ Occurs(s) /\ search_from <= s
        BY DEF Places, IInv, NoneBehind, Fail, Searching
    <2>2. s \in search_from..Len(message)
        BY <2>1, Texts DEF IInv, TypeOK
    <2> QED BY <2>1, <2>2 DEF Fail, NotFound
<1>3. Places' = Places /\ span' = None
    BY DEF Fail, Searching, IInv, NoneBehind, Places, Occurs, Bounded
<1> QED BY <1>1, <1>2, <1>3 DEF IInv, NoneBehind, FirstPlace, NothingMissed, Fail

LEMMA AcceptKeepsIInv ==
    ASSUME IInv, NEW start \in 0..Len(message), Accept(start)
    PROVE  IInv'
<1>1. TypeOK /\ Len(message) \in Nat /\ Len(value) \in Nat
    BY Texts DEF IInv
<1>2. TypeOK'
    BY <1>1 DEF TypeOK, Accept
<1>3. Places' = Places
    BY DEF Accept, Places, Occurs, Bounded
<1>4. start \in Places
    BY <1>1, InPlaces DEF Accept, FoundAt
<1>5. ASSUME NEW t \in Places PROVE start <= t
    <2>1. t \in 0..Len(message) /\ Occurs(t) /\ search_from <= t
        BY DEF Places, IInv, NoneBehind, Accept, Searching
    <2>2. t \in search_from..Len(message)
        BY <1>1, <2>1 DEF TypeOK
    <2> QED BY <2>1, <2>2 DEF Accept, FoundAt
<1>6. span' = <<start, start + Len(value)>> /\ value' = value
    BY DEF Accept
<1>7. FirstPlace'
    BY <1>3, <1>4, <1>5, <1>6 DEF FirstPlace
<1>8. NothingMissed'
    BY <1>1, <1>6, SpanIsNotNone DEF NothingMissed
<1> QED BY <1>2, <1>7, <1>8 DEF IInv, NoneBehind, Accept

LEMMA RejectKeepsIInv ==
    ASSUME IInv, NEW start \in 0..Len(message), Reject(start)
    PROVE  IInv'
<1>1. TypeOK /\ Len(message) \in Nat /\ Len(value) \in Nat
    BY Texts DEF IInv
<1>2. TypeOK'
    BY <1>1 DEF TypeOK, Reject
<1>3. Places' = Places
    BY DEF Reject, Places, Occurs, Bounded
<1>4. ASSUME NEW t \in Places PROVE start + 1 <= t
    <2>1. t \in 0..Len(message) /\ Occurs(t) /\ search_from <= t
        BY DEF Places, IInv, NoneBehind, Reject, Searching
    <2>2. t \in search_from..Len(message)
        BY <1>1, <2>1 DEF TypeOK
    <2>3. start <= t
        BY <2>1, <2>2 DEF Reject, FoundAt
    <2>4. Bounded(t)
        BY DEF Places, Reject, Searching
    <2>5. t # start
        BY <2>4 DEF Reject
    <2> QED BY <2>1, <2>3, <2>5
<1>5. ~done' /\ span' = None /\ search_from' = start + 1
    BY DEF Reject, Searching, IInv, NoneBehind
<1> QED BY <1>2, <1>3, <1>4, <1>5 DEF IInv, NoneBehind, FirstPlace, NothingMissed

LEMMA StepIInv == IInv /\ [Next]_vars => IInv'
<1> SUFFICES ASSUME IInv, [Next]_vars PROVE IInv'
    OBVIOUS
<1>1. CASE Empty
    BY <1>1, EmptyKeepsIInv
<1>2. CASE Fail
    BY <1>2, FailKeepsIInv
<1>3. CASE \E start \in 0..Len(message) : Accept(start)
    BY <1>3, AcceptKeepsIInv
<1>4. CASE \E start \in 0..Len(message) : Reject(start)
    BY <1>4, RejectKeepsIInv
<1>5. CASE UNCHANGED vars
    BY <1>5 DEF vars, IInv, TypeOK, NoneBehind, FirstPlace, NothingMissed, Places,
                Occurs, Bounded
<1> QED BY <1>1, <1>2, <1>3, <1>4, <1>5 DEF Next

LEMMA Invariance == Spec => []IInv
BY InitIInv, StepIInv, PTL DEF Spec

(***************************************************************************)
(* The variables keep their types, and the search never leaves the message *)
(* (matcher.py:38-56).                                                     *)
(***************************************************************************)
THEOREM TypeCorrect == Spec => []TypeOK
<1>1. IInv => TypeOK
    BY DEF IInv
<1> QED BY <1>1, Invariance, PTL

(***************************************************************************)
(* A span that is returned is the first place a match may be at, for every *)
(* message and every value (matcher.py:24-56).                             *)
(***************************************************************************)
THEOREM ReturnsFirstPlace == Spec => []FirstPlace
<1>1. IInv => FirstPlace
    BY DEF IInv
<1> QED BY <1>1, Invariance, PTL

(***************************************************************************)
(* When None is returned there is no place a match may be at, for every    *)
(* message and every value (matcher.py:40-56).                             *)
(***************************************************************************)
THEOREM MissesNothing == Spec => []NothingMissed
<1>1. IInv => NothingMissed
    BY DEF IInv
<1> QED BY <1>1, Invariance, PTL
=============================================================================

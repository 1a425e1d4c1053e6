---------------------------- MODULE MCTermSearch ----------------------------
(***************************************************************************)
(* Two word characters and a space: values of up to three characters that  *)
(* may overlap themselves ("aba", "a a"), in all messages of up to six.    *)
(* Both are normalised: no space at an end, and no two in a row.           *)
(***************************************************************************)
EXTENDS TermSearch

MCChar      == {"a", "b", " "}
MCWordChars == {"a", "b"}

Normal(t) ==
    /\ t # << >> => t[1] # " " /\ t[Len(t)] # " "
    /\ \A i \in 1..Len(t) - 1 : t[i] # " " \/ t[i + 1] # " "

TextsUpTo(n) == {t \in UNION {[1..k -> MCChar] : k \in 0..n} : Normal(t)}

MCMessages == TextsUpTo(6)
MCValues   == TextsUpTo(3)
=============================================================================

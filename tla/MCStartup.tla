----------------------------- MODULE MCStartup -----------------------------
(***************************************************************************)
(* Three releases: the second bumps ruleset_version and changes the        *)
(* profiles, the third is of the next major version with the profiles of   *)
(* the second.  The second's profiles.yaml may be cut down to the profiles *)
(* of the first, and cut files may agree with each other.                  *)
(***************************************************************************)
EXTENDS Startup

MCRulesetVersion == <<"1.0.0", "1.1.0", "2.0.0">>
MCExpectedMajor  == <<1, 1, 2>>
MCMajorOf        == [v \in {"1.0.0", "1.1.0", "2.0.0"} |-> IF v = "2.0.0" THEN 2 ELSE 1]

MCSameProfiles ==
    {<<Whole(1), Whole(1)>>, <<Cut(2), Whole(1)>>}
    \cup {<<Whole(m), Whole(n)>> : m \in {2, 3}, n \in {2, 3}}
    \cup {<<Cut(m), Cut(n)>> : m \in {2, 3}, n \in {2, 3}}
=============================================================================

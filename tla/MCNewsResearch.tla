---------------------------- MODULE MCNewsResearch ----------------------------
(***************************************************************************)
(* Instances of NewsResearch for TLC.                                      *)
(***************************************************************************)
EXTENDS NewsResearch

CONSTANTS s1, s2, l1, l2, days

MCSimilar == {<<s1, s2>>, <<s2, s1>>}
=============================================================================

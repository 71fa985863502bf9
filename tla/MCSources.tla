------------------------------- MODULE MCSources -------------------------------
(***************************************************************************)
(* Instances of SourceControl for TLC: the scraper is the only agent.      *)
(***************************************************************************)
EXTENDS SourceControl

CONSTANTS scraper, r1
=============================================================================

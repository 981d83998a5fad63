------------------------------- MODULE MCRms -------------------------------
(* Two cells, one routine that counts and one that is skipped, a stack of   *)
(* three activations and an id counter that wraps after five of them.       *)
EXTENDS RmsRefinement
CONSTANTS c1, c2, main, resolve
MCCell    == {c1, c2}
MCRoutine == {main, resolve}
MCSkipped == {resolve}
=============================================================================

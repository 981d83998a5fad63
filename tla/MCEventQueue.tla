---------------------------- MODULE MCEventQueue ----------------------------
(* Two addresses, one of them accessed with two sizes, and blocks of up to *)
(* six accesses, instructions and exits over a queue of three events.      *)
EXTENDS EventQueue

MCLocation == {<<"a", 1>>, <<"a", 2>>, <<"b", 1>>}
=============================================================================

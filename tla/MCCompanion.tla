---------------------------- MODULE MCCompanion ----------------------------
(* Bounded instance of Companion. *)
EXTENDS Companion
CONSTANTS o1, m1, c1, c2, r1
=============================================================================

-------------------------- MODULE MCPrivateSession --------------------------
(* Two tabs, which are alike. *)
EXTENDS PrivateSession, TLC

Alike == Permutations(Tabs)
=============================================================================

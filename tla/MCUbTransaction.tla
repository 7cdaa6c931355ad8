-------------------------- MODULE MCUbTransaction --------------------------
(***************************************************************************)
(* Instances of UbTransaction: which TPs the jetties are bound to.         *)
(***************************************************************************)
EXTENDS UbTransaction

CONSTANTS j1, t1, t2

\* Every jetty is bound to both TPs, in multi-path mode.
BothPaths == [j \in Jetties |-> <<t1, t2>>]
=============================================================================

---------------------------- MODULE MCRpcSocket ----------------------------
(***************************************************************************)
(* Values for the constants of RpcSocket: who starts what.                 *)
(***************************************************************************)
EXTENDS RpcSocket

CONSTANTS alice, bob,
  Bobs  \* what bob starts; the rest is alice's

MCOwner == [x \in Servers \cup Callers |-> IF x \in Bobs THEN bob ELSE alice]
=============================================================================

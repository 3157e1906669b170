------------------------- MODULE MCRpcDocumentation -------------------------
(***************************************************************************)
(* Values for the constants of RpcDocumentation.                           *)
(***************************************************************************)
EXTENDS RpcDocumentation, MCRpcMapper

\* Also a function with as many parameters as need two digits.
AllCandidates ==
  Registered \cup {Cand("g", 2, 9, "str", [i \in 1..10 |-> "void"])}
=============================================================================

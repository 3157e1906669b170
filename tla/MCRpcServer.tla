---------------------------- MODULE MCRpcServer ----------------------------
(***************************************************************************)
(* Values for the constants of RpcServer.                                  *)
(***************************************************************************)
EXTENDS RpcServer, TLC

\* One function for each way a body can end.
MCFunctions  == {"plus", "division", "identity", "shutdown"}
ShutdownOnly == {"shutdown"}
DivisionOnly == {"division"}
IdentityOnly == {"identity"}

Sig(r, a) == [return_type |-> r, argv |-> a]

AllSignatures ==
  "plus" :> Sig("int", <<"int", "int">>) @@
  "division" :> Sig("int", <<"int", "int">>) @@
  "identity" :> Sig("str", <<"str">>) @@
  "shutdown" :> Sig("void", <<"str">>)

AllOutcomes ==
  "plus" :> {"returns"} @@
  "division" :> {"returns", "traps"} @@
  "identity" :> {"returns", "null"} @@
  "shutdown" :> {"returns", "kills"}

MCSignature == [f \in Functions |-> AllSignatures[f]]
MCOutcomes  == [f \in Functions |-> AllOutcomes[f]]

Msg(f, r, a) == [command |-> f, return_type |-> r, argv |-> a, decodes |-> TRUE]

Call(f) == Msg(f, AllSignatures[f].return_type, AllSignatures[f].argv)

\* One message for each error of verification_function and search_function.
Malformed == {Msg("modulo", "int", <<"int", "int">>),
              Msg("shutdown", "void", << >>),
              Msg("shutdown", "void", <<"int">>),
              Msg("shutdown", "int", <<"str">>)}

\* The requests of a run.
JudgedRequests     == Malformed \cup {Call("shutdown")}
TrackedRequests    == {Call("division"), [Call("division") EXCEPT !.decodes = FALSE]}
DivisionRequests   == {Call("division")}
IdentityRequests   == {Call("identity")}

Symmetry == Permutations(Clients) \cup Permutations(Sons)
=============================================================================

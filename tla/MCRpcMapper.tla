---------------------------- MODULE MCRpcMapper ----------------------------
(***************************************************************************)
(* Values for the constants of RpcMapper.                                  *)
(***************************************************************************)
EXTENDS RpcMapper

Cand(n, len, doc, r, a) ==
  [name |-> n, name_length |-> len, description_length |-> doc,
   return_type |-> r, argv |-> a]

\* Two functions under one name, one of them without a description, one function
\* under another name, one whose name is too long, one whose type does not exist.
Registered == {Cand("f", 1, 3, "int", <<"int", "int">>),
               Cand("f", 1, NULL, "void", << >>),
               Cand("g", 3, 3, "str", <<"str">>),
               Cand("g", 4, 3, "str", <<"str">>),
               Cand("g", 3, 3, "char", <<"str">>)}

MCNames == {"", "f", "g"}
=============================================================================

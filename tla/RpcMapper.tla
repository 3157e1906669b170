----------------------------- MODULE RpcMapper -----------------------------
(***************************************************************************)
(* The function memory (s_mapper.c): a singly headed list of functions     *)
(* that add_function extends at its head and the other operations search   *)
(* from its head, and a counter kept beside it.                            *)
(*                                                                         *)
(* A caller fills a structure with create_function and adds a copy of it,  *)
(* and, like add_default_functions, does not look at what create_function  *)
(* returns.  A function is abstracted to its name, the length of its name  *)
(* and of its description, and its types.                                  *)
(*                                                                         *)
(* Left out: the memory argument is never NULL (every caller passes the    *)
(* address of function_memory), and create_function does not look at the   *)
(* length of a description or at argc, so those are assumed within         *)
(* MAX_DESCRIPTION_LENGTH and MAX_PARAMETERS.                              *)
(***************************************************************************)
EXTENDS Integers, SequencesExt

CONSTANTS
  Names,              \* the names that are registered or sought
  Candidates,         \* the arguments create_function is called with
  FunctionNameLength, \* FUNCTION_NAME_LENGTH
  MaxFunctions,       \* bound: how many functions the runs register
  NULL

Types == {"void", "int", "str"}

ASSUME MapperAssumption ==
  /\ FunctionNameLength \in Nat /\ MaxFunctions \in Nat
  /\ "" \in Names
  /\ \A c \in Candidates :
       /\ c.name \in Names
       /\ c.name_length \in Nat
       /\ c.description_length \in Nat \cup {NULL}
       /\ c.argv \in Seq(Types)

VARIABLES
  map,          \* the structure of the caller
  initialized,  \* the list head has been initialized
  fmap,         \* the list, its head first
  size,         \* memory->size
  ret,          \* the code the last operation returned
  found         \* the pointer get_function returned last

vars == <<map, initialized, fmap, size, ret, found>>

\* The caller's structure after memset.
Zeroed == [name |-> "", name_length |-> 0, description_length |-> 0,
           return_type |-> "void", argv |-> << >>]

Init ==
  /\ map = Zeroed
  /\ initialized = FALSE
  /\ fmap = << >>
  /\ size = 0
  /\ ret = 0
  /\ found = NULL

-----------------------------------------------------------------------------
\* The structure that create_function fills in.  A NULL description is one of
\* length 0.
Mapper(c) ==
  [name |-> c.name, name_length |-> c.name_length,
   description_length |->
     IF c.description_length = NULL THEN 0 ELSE c.description_length,
   return_type |-> c.return_type, argv |-> c.argv]

\* Mutant of CreateFunction: the comparison with FUNCTION_NAME_LENGTH is off by
\* one.
CreateFunctionTooLong(c) ==
  /\ ret' = IF c.name_length > FunctionNameLength + 1 THEN -2
            ELSE IF c.return_type \notin Types THEN -3
            ELSE 0
  /\ map' = IF ret' = 0 THEN Mapper(c) ELSE map
  /\ UNCHANGED <<initialized, fmap, size, found>>

CreateFunction(c) ==
  /\ ret' = IF c.name_length > FunctionNameLength THEN -2
            ELSE IF c.return_type \notin Types THEN -3
            ELSE 0
  /\ map' = IF ret' = 0 THEN Mapper(c) ELSE map
  /\ UNCHANGED <<initialized, fmap, size, found>>

\* Mutant of AddFunction: the function goes to the end of the list.
AddFunctionLast ==
  /\ Len(fmap) < MaxFunctions
  /\ initialized' = TRUE
  /\ fmap' = Append(fmap, map)
  /\ size' = size + 1
  /\ ret' = 0
  /\ UNCHANGED <<map, found>>

AddFunction ==
  /\ Len(fmap) < MaxFunctions
  /\ initialized' = TRUE
  /\ fmap' = <<map>> \o fmap
  /\ size' = size + 1
  /\ ret' = 0
  /\ UNCHANGED <<map, found>>

\* malloc has no memory left: the list is initialized and nothing added.
AddFunctionFails ==
  /\ initialized' = TRUE
  /\ ret' = -1
  /\ UNCHANGED <<map, fmap, size, found>>

\* The caller clears its structure, as add_default_functions does before its
\* first function and after each: if the next create_function fails, the
\* add_function behind it adds the cleared one.
Memset ==
  /\ map' = Zeroed
  /\ UNCHANGED <<initialized, fmap, size, ret, found>>

\* The place of the first function named n, or 0: the loop that exist_function,
\* get_function and remove_function share.
Find(n) == SelectInSeq(fmap, LAMBDA m : m.name = n)

ExistFunction(n) ==
  /\ ret' = IF Find(n) # 0 THEN 1 ELSE 0
  /\ UNCHANGED <<map, initialized, fmap, size, found>>

GetFunction(n) ==
  /\ found' = IF Find(n) # 0 THEN fmap[Find(n)] ELSE NULL
  /\ UNCHANGED <<map, initialized, fmap, size, ret>>

RemoveFunction(n) ==
  /\ IF Find(n) # 0
     THEN /\ fmap' = RemoveAt(fmap, Find(n))
          /\ size' = size - 1
          /\ ret' = 0
     ELSE ret' = -1 /\ UNCHANGED <<fmap, size>>
  /\ UNCHANGED <<map, initialized, found>>

\* clear_mapper frees every function; the list stays initialized.
ClearMapper ==
  /\ fmap' = << >>
  /\ size' = 0
  /\ UNCHANGED <<map, initialized, ret, found>>

Next ==
  \/ \E c \in Candidates : CreateFunction(c)
  \/ AddFunction
  \/ AddFunctionFails
  \/ Memset
  \/ \E n \in Names : ExistFunction(n) \/ GetFunction(n) \/ RemoveFunction(n)
  \/ ClearMapper

Spec == Init /\ [][Next]_vars

-----------------------------------------------------------------------------
FunctionMapper ==
  [name : Names, name_length : 0..FunctionNameLength, description_length : Nat,
   return_type : Types, argv : Seq(Types)]

\* What create_function lets through fits the structure, whatever it was called
\* with, and so does every function in the list; the list is empty until
\* add_function has initialized it; the counter, a size_t, is never negative.
TypeOK ==
  /\ map \in FunctionMapper
  /\ initialized \in BOOLEAN
  /\ fmap \in Seq(FunctionMapper)
  /\ fmap # << >> => initialized
  /\ size \in Nat
  /\ ret \in {-3, -2, -1, 0, 1}
  /\ found \in FunctionMapper \cup {NULL}

\* The places of the functions named n in the list q, the k-th of a set of places
\* from the head, and the functions at those places in their order.
Places(q, n) == {i \in DOMAIN q : q[i].name = n}
Nth(I, k)    == CHOOSE i \in I : Cardinality({j \in I : j <= i}) = k
Stack(q, n)  == LET I == Places(q, n) IN [k \in 1..Cardinality(I) |-> q[Nth(I, k)]]

\* The list is a registry: searching it from the head finds the function that
\* was registered last under a name, removing that one uncovers the one before,
\* no operation touches the other names, and memory->size counts them all.
Registry == INSTANCE RpcRegistry WITH
  Mappers <- {Mapper(c) : c \in Candidates} \cup {Zeroed},
  stacks  <- [n \in Names |-> Stack(fmap, n)],
  count   <- size

ImplementsRegistry == Registry!Spec
=============================================================================

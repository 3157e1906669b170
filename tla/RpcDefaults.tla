----------------------------- MODULE RpcDefaults -----------------------------
(***************************************************************************)
(* The functions a server registers (s_defaults.c): their signatures, what *)
(* they return, and what becomes of a message that asks for one of them    *)
(* (search_function, verification_function and execute_function).          *)
(*                                                                         *)
(* The generated cases of execute_function, one for each argc, all pass    *)
(* the arguments on in order and are one case here.  The signal shutdown   *)
(* sends is a matter of RpcServer; to its caller it returns in any case.   *)
(***************************************************************************)
EXTENDS RpcCodec, RpcDocText

Entry(name, name_length, description_length, return_type, argv) ==
  [name |-> name, name_length |-> name_length,
   description_length |-> description_length,
   return_type |-> return_type, argv |-> argv]

BinaryOperator(name, name_length) ==
  Entry(name, name_length, name_length + 10, "int", <<"int", "int">>)

\* add_default_functions.
DefaultFunctions ==
  <<Entry("documentation", 13, 48, "str", << >>),
    Entry("concat", 6, 23, "str", <<"str", "str">>),
    Entry("identity", 8, 19, "str", <<"str">>),
    Entry("shutdown", 8, 19, "void", <<"str">>),
    BinaryOperator("plus", 4), BinaryOperator("minus", 5),
    BinaryOperator("multiplication", 14), BinaryOperator("division", 8),
    BinaryOperator("power", 5),
    Entry("square", 6, 15, "int", <<"int">>),
    Entry("string_length", 13, 22, "int", <<"str">>)>>

Named(name) == {i \in DOMAIN DefaultFunctions : DefaultFunctions[i].name = name}
TheFunction(name) == DefaultFunctions[CHOOSE i \in Named(name) : TRUE]

\* The text that generate_documentation leaves, without its NUL.
Documentation == [i \in 1..(Sum(EntryWritten, DefaultFunctions) + 1) |-> 100]

-----------------------------------------------------------------------------
(* The bodies.  An int wraps round.                                        *)

\* C's division.
Divide(a, b) ==
  LET abs(n) == IF n < 0 THEN -n ELSE n
      q == abs(a) \div abs(b)
  IN IF (a < 0) = (b < 0) THEN q ELSE -q

\* Mutant of Power: the loop goes on while cpt > 0.
PowerOnceMore(a, b) ==
  IF b = 0 THEN 1
  ELSE FoldLeft(LAMBDA res, x : AsInt(res * x), a, [i \in 1..b |-> a])

\* res starts as *a and is multiplied while cpt > 1.
Power(a, b) ==
  IF b = 0 THEN 1
  ELSE FoldLeft(LAMBDA res, x : AsInt(res * x), a, [i \in 1..(b - 1) |-> a])

\* Mutant of Traps: the quotient is taken to be an int always.
TrapsByZero(name, a) == name = "division" /\ a[2] = 0

\* A division that the processor refuses: by zero, or beyond the largest int.
Traps(name, a) ==
  /\ name = "division"
  /\ a[2] = 0 \/ (a[1] = -(2^(IntBits - 1)) /\ a[2] = -1)

\* What the function of that name returns for the data a.
Apply(name, a) ==
  CASE name = "documentation"  -> Documentation
    [] name = "concat"         -> a[1] \o a[2]
    [] name = "identity"       -> a[1]
    [] name = "shutdown"       -> NULL
    [] name = "plus"           -> AsInt(a[1] + a[2])
    [] name = "minus"          -> AsInt(a[1] - a[2])
    [] name = "multiplication" -> AsInt(a[1] * a[2])
    [] name = "division"       -> Divide(a[1], a[2])
    [] name = "power"          -> Power(a[1], a[2])
    [] name = "square"         -> Power(a[1], 2)
    [] name = "string_length"  -> AsInt(Len(a[1]))

-----------------------------------------------------------------------------
(* From a message to its answer.                                           *)

Protocol == INSTANCE RpcProtocol WITH
  Functions <- {DefaultFunctions[i].name : i \in DOMAIN DefaultFunctions},
  Signature <- [f \in {DefaultFunctions[i].name : i \in DOMAIN DefaultFunctions} |->
                  [return_type |-> TheFunction(f).return_type, argv |-> TheFunction(f).argv]],
  Outcomes  <- << >>,
  Requests  <- {}

\* The types of a message, by name.
TypeName == [t \in {Void, Int32, Str} |->
               CASE t = Void -> "void" [] t = Int32 -> "int" [] t = Str -> "str"]

TypesOf(m) == [return_type |-> TypeName[m.return_type],
               argv |-> [i \in DOMAIN m.argv |-> TypeName[m.argv[i].typ]]]

\* The octet of a status.
Code == [OK |-> 0, UNKNOWN_FUNC |-> 1, WRONG_ARG |-> 2, NO_ANSWER |-> 3,
         WRONG_TYP |-> 4, WRONG_NUMBER_ARGS |-> 5]

\* search_function and verification_function.
Verdict(m) ==
  IF Named(m.command) = {} THEN Code.UNKNOWN_FUNC
  ELSE Code[Protocol!Verification(TheFunction(m.command), TypesOf(m))]

DataOf(m) == [i \in DOMAIN m.argv |-> m.argv[i].data]

\* The argument execute_function serializes for a message that passed.
ExecuteFunction(m) ==
  [typ |-> m.return_type, data |-> Apply(m.command, DataOf(m))]
=============================================================================

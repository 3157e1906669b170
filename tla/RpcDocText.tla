------------------------------ MODULE RpcDocText ------------------------------
(***************************************************************************)
(* The length of the documentation of a function (s_specials.c), measured  *)
(* by documentation_size and as generate_documentation writes it: two      *)
(* computations that the code keeps apart.                                 *)
(***************************************************************************)
EXTENDS Integers, SequencesExt

\* The lengths of the fixed texts.
HdName == 6         \* "NAME: "
HdDoc == 5          \* "DOC: "
NoDoc == 20         \* "- no documentation -"
HdRetType == 15     \* "RETURNED TYPE: "
HdNbParam == 22     \* "NUMBER OF PARAMETERS: "
HdParamTypes == 17  \* "PARAMETERS TYPE: "

TypeSize(typ) == IF typ = "void" THEN 6 ELSE 5   \* "<void>", "<int>", "<str>"

\* The decimal digits of i, none for 0.
IntSize[i \in Nat] == IF i = 0 THEN 0 ELSE 1 + IntSize[i \div 10]

Sum(op(_), s) == FoldLeft(LAMBDA acc, x : acc + op(x), 0, s)

-----------------------------------------------------------------------------
\* Mutant of EntrySize: the separator after each type is not counted.
EntrySizeWithoutCommas(m) ==
  LET argc == Len(m.argv) IN
    HdName + m.name_length + 1
    + HdDoc + m.description_length + 1
    + HdRetType + TypeSize(m.return_type) + 1
    + HdNbParam + IntSize[argc] + 1
    + (IF argc > 0 THEN HdParamTypes + Sum(TypeSize, m.argv) + 1 ELSE 0)

\* What documentation_size adds for the function m.
EntrySize(m) ==
  LET argc == Len(m.argv) IN
    HdName + m.name_length + 1
    + HdDoc + m.description_length + 1
    + HdRetType + TypeSize(m.return_type) + 1
    + HdNbParam + IntSize[argc] + 1
    + (IF argc > 0
       THEN HdParamTypes + Sum(LAMBDA typ : TypeSize(typ) + 1, m.argv) + 1
       ELSE 0)

\* How far the writing of the function m moves the cursor cpt.
EntryWritten(m) ==
  LET argc == Len(m.argv)
      doc  == IF m.description_length > 0 THEN m.description_length ELSE NoDoc
  IN HdName + m.name_length + 1
     + HdDoc + doc + 1
     + HdRetType + TypeSize(m.return_type) + 1
     + HdNbParam + IntSize[argc] + 1
     + (IF argc > 0
        THEN HdParamTypes + Sum(TypeSize, m.argv) + argc + 1
        ELSE 0)
=============================================================================

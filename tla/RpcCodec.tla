------------------------------ MODULE RpcCodec ------------------------------
(***************************************************************************)
(* The serialization of messages and answers (u_rpc_data.c).               *)
(*                                                                         *)
(* A frame is the fixed fields, which are copied and never recomputed, and *)
(* the bytes of the arguments, each a signed char.  An argument is         *)
(* [typ, data]: data is an integer of IntBits bits, a string given as its  *)
(* bytes, or NULL.  Arithmetic that overflows wraps round, as gcc's does.  *)
(*                                                                         *)
(* A reader is given what it received: the announced size, and its buffer, *)
(* as many bytes as arrived and then memory that was never set.            *)
(*                                                                         *)
(* Left out: failures of malloc for a sensible size.                       *)
(***************************************************************************)
EXTENDS Integers, SequencesExt

CONSTANTS
  IntBits,  \* the bits of an int
  NULL

\* RPC_TY_VOID, RPC_TY_INT, RPC_TY_STR
Void == 0
Int32 == 1
Str == 2

\* RPC_RET_OK, and the return codes of an error
OK == 0
Statuses == OK..5

\* A char, an int, and a string without its NUL.
CharType   == -128..127
IntType    == -(2^(IntBits - 1))..(2^(IntBits - 1) - 1)
StringType == Seq(CharType \ {0})

\* struct rpc_arg, with data as its typ says, and struct message.
TypeCodes == {Void, Int32, Str}
ArgType ==
  [typ : {Void}, data : {NULL}] \cup [typ : {Int32}, data : IntType]
    \cup [typ : {Str}, data : StringType]
MessageType == [command : STRING, return_type : TypeCodes, argv : Seq(ArgType)]

\* NULL is none of the values that a reader returns.
ASSUME CodecAssumption ==
  /\ IntBits \in 4..32
  /\ NULL \notin MessageType /\ NULL \notin [argv : Seq(ArgType), next : Nat]

\* (char)n and (int)n
Wrap(n, bits) == ((n + 2^(bits - 1)) % 2^bits) - 2^(bits - 1)
Char(n) == Wrap(n, 8)
AsInt(n) == Wrap(n, IntBits)

\* C's division and remainder round towards zero.
Quot(n) == IF n < 0 THEN -((-n) \div 10) ELSE n \div 10
Rem(n) == n - 10 * Quot(n)

Zero == 48   \* '0'
Minus == 45  \* '-'

-----------------------------------------------------------------------------
(* Integers.                                                               *)

\* The digits of an int, found by dividing until nothing is left: how many arg_size
\* counts, and which ones serialize_integer writes.
DigitCount[n \in Int] == IF n = 0 THEN 0 ELSE 1 + DigitCount[Quot(n)]
Digits[n \in Int] ==
  IF n = 0 THEN << >> ELSE Append(Digits[Quot(n)], Char(Zero + Rem(n)))

SerializeInteger(n) ==
  LET i == IF n < 0 THEN AsInt(-n) ELSE n
      text == (IF n < 0 THEN <<Minus>> ELSE << >>) \o Digits[i]
  IN IF n = 0 THEN <<1, Zero>> ELSE <<Char(Len(text))>> \o text

\* Mutant of DeserializeInteger: the sign is skipped and then forgotten.
DeserializeIntegerUnsigned(b) ==
  LET cpt == IF b[2] = Minus THEN 2 ELSE 1
  IN [data |-> FoldLeft(LAMBDA res, ch : AsInt(res * 10 + ch - Zero), 0,
                        SubSeq(b, cpt + 1, b[1] + 1)),
      next |-> Max({b[1] + 1, cpt})]

\* The integer read at the head of the bytes b, and how many bytes it took.
DeserializeInteger(b) ==
  LET neg == b[2] = Minus
      cpt == IF neg THEN 2 ELSE 1
      res == FoldLeft(LAMBDA acc, ch : AsInt(acc * 10 + ch - Zero), 0,
                      SubSeq(b, cpt + 1, b[1] + 1))
  IN [data |-> IF neg THEN AsInt(-res) ELSE res,
      next |-> Max({b[1] + 1, cpt})]

-----------------------------------------------------------------------------
(* Arguments.                                                              *)

\* Mutant of ArgSize: the sign of an integer is not counted.
ArgSizeUnsigned(args) ==
  LET size(a) ==
        CASE a.typ = Void -> 1
          [] a.typ = Str  -> 2 + Len(a.data)
          [] a.typ = Int32 -> 2 + (IF a.data = 0 THEN 1 ELSE DigitCount[AsInt(a.data)])
  IN FoldLeft(LAMBDA acc, a : acc + size(a), 0, args)

\* arg_size: the bytes the caller allocates for the arguments.
ArgSize(args) ==
  LET tmp(a) == IF a.data < 0 THEN AsInt(-a.data) ELSE a.data
      size(a) ==
        CASE a.typ = Void -> 1
          [] a.typ = Str  -> 2 + Len(a.data)
          [] a.typ = Int32 -> 2 + (IF a.data < 0 THEN 1 ELSE 0)
                                + (IF a.data = 0 THEN 1 ELSE DigitCount[tmp(a)])
  IN FoldLeft(LAMBDA acc, a : acc + size(a), 0, args)

\* The bytes serialize_message writes for an argument.
SerializeArg(a) ==
  CASE a.typ = Void -> <<Void>>
    [] a.typ = Int32 -> <<Int32>> \o SerializeInteger(a.data)
    [] a.typ = Str -> <<Str, Char(Len(a.data))>> \o a.data

\* The string in a buffer of bytes: it ends at the first NUL.
CString(bytes) ==
  LET nul == SelectInSeq(bytes, LAMBDA b : b = 0)
  IN IF nul = 0 THEN bytes ELSE SubSeq(bytes, 1, nul - 1)

\* Mutant of DeserializeArg: the length of a string is an unsigned char.
DeserializeArgOctet(b) ==
  LET read(arg, next) == [ok |-> TRUE, arg |-> arg, next |-> next]
      length == b[2] % 256
  IN CASE b[1] = Void -> read([typ |-> Void, data |-> NULL], 1)
       [] b[1] = Int32 ->
            LET i == DeserializeInteger(Tail(b))
            IN read([typ |-> Int32, data |-> i.data], 1 + i.next)
       [] b[1] = Str ->
            read([typ |-> Str, data |-> CString(SubSeq(b, 3, 2 + length))], 2 + length)
       [] OTHER -> [ok |-> FALSE]

\* The argument deserialize_message reads at the head of the bytes b.  The
\* length of a string is a signed char: a malloc of a negative size fails, or,
\* for -1, asks for no bytes and succeeds, and the memcpy that follows crashes.
DeserializeArg(b) ==
  LET read(arg, next) == [ok |-> TRUE, arg |-> arg, next |-> next]
  IN CASE b[1] = Void -> read([typ |-> Void, data |-> NULL], 1)
       [] b[1] = Int32 ->
            LET i == DeserializeInteger(Tail(b))
            IN read([typ |-> Int32, data |-> i.data], 1 + i.next)
       [] b[1] = Str /\ b[2] >= 0 ->
            read([typ |-> Str, data |-> CString(SubSeq(b, 3, 2 + b[2]))], 2 + b[2])
       [] OTHER -> [ok |-> FALSE]

\* The argc arguments of a message and how many bytes they took, or NULL.
DeserializeArgs(b, argc) ==
  FoldLeft(LAMBDA acc, i :
             IF acc = NULL THEN NULL
             ELSE LET d == DeserializeArg(SubSeq(b, acc.next + 1, Len(b)))
                  IN IF d.ok THEN [argv |-> Append(acc.argv, d.arg), next |-> acc.next + d.next]
                             ELSE NULL,
           [argv |-> << >>, next |-> 0], [i \in 1..argc |-> i])

-----------------------------------------------------------------------------
(* Frames: the size that is announced, and the bytes that are written.     *)

SerializeMessage(m) ==
  [command |-> m.command, return_type |-> m.return_type, argc |-> Len(m.argv),
   size |-> ArgSize(m.argv),
   bytes |-> FlattenSeq([i \in DOMAIN m.argv |-> SerializeArg(m.argv[i])])]

\* The message in a buffer, or NULL.  deserialize_message returns how many bytes
\* it took too many or too few; read_msg compares that with -1, the code of an
\* error, and so refuses a message with one byte left over and no other.
DeserializeMessage(w, buffer) ==
  LET args == DeserializeArgs(buffer, w.argc)
  IN IF args = NULL \/ args.next - w.size = -1 THEN NULL
     ELSE [command |-> w.command, return_type |-> w.return_type, argv |-> args.argv]

\* serialize_answer: a status, and a result unless the status is an error.
SerializeAnswer(status, r) ==
  IF status # OK THEN [size |-> 1, bytes |-> <<status>>]
  ELSE [size |-> 1 + ArgSize(<<r>>), bytes |-> <<status>> \o SerializeArg(r)]

\* Mutant of DeserializeAnswer: the length of a string is read from its octet,
\* as the line that the code comments out does.
DeserializeAnswerByOctet(w, buffer) ==
  IF buffer[1] # OK THEN [status |-> buffer[1], arg |-> NULL]
  ELSE LET d == DeserializeArg(Tail(buffer))
       IN IF d.ok THEN [status |-> OK, arg |-> d.arg]
                  ELSE [status |-> -1, arg |-> NULL]

\* deserialize_answer: the length of a string is what is left of the frame.
DeserializeAnswer(w, buffer) ==
  LET typ == buffer[2]
      data == CASE typ = Int32 -> DeserializeInteger(SubSeq(buffer, 3, Len(buffer))).data
                [] typ = Str -> CString(SubSeq(buffer, 4, w.size))
                [] OTHER -> NULL
  IN IF buffer[1] # OK THEN [status |-> buffer[1], arg |-> NULL]
     ELSE [status |-> OK, arg |-> [typ |-> typ, data |-> data]]
=============================================================================

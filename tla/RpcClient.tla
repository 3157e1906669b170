------------------------------ MODULE RpcClient ------------------------------
(***************************************************************************)
(* One run of a client program against a server with the default           *)
(* functions (c_client.c): the command line, or a program that uses the    *)
(* library, makes a message; it goes to a son of the server as bytes, the  *)
(* son decodes, judges and executes it, and its answer comes back into the *)
(* buffer of the program.                                                  *)
(*                                                                         *)
(* A word of a command line is a name; Number and Text say what atoi makes *)
(* of it and what its bytes are.  A frame of more than Chunk bytes of      *)
(* arguments may arrive in pieces: the one recv that the code makes then   *)
(* returns some of them, and the rest of its buffer is memory never set,   *)
(* which holds one of Garbage over and over: any bytes at all, if that one *)
(* is long enough.  The fixed fields of a frame are never cut.             *)
(*                                                                         *)
(* Left out: ends of connections and processes other than a son that dies  *)
(* before it answers, which leaves the caller to what RpcServer says; and  *)
(* library calls with a type that does not exist.                          *)
(***************************************************************************)
EXTENDS RpcDefaults

CONSTANTS
  Lines,     \* the command lines, as sequences of words, argv[0] included
  Number,    \* word -> atoi of it
  Text,      \* word -> its bytes
  Messages,  \* the messages of programs that call external_call
  Chunk,     \* a frame with no more bytes than this arrives as a whole
  Garbage    \* what memory that was never set may hold, as sequences of bytes

\* A call: who makes it, its message and the bytes the buffer of a string has room
\* for.
CallType == [from : {"-l", "-s", "-c", "library"}, msg : MessageType, room : Nat \cup {NULL}]

\* A piece holds the fixed fields and any integer.  (That a name is a string has to be
\* said for the provers.)
ASSUME ClientAssumption ==
  /\ Lines \subseteq Seq(STRING)
  /\ \A line \in Lines : \A i \in DOMAIN line :
       Number[line[i]] \in IntType /\ Text[line[i]] \in StringType
  /\ Messages \subseteq MessageType
  /\ Chunk \in Nat /\ Chunk >= 16
  /\ Garbage # {} /\ \A g \in Garbage : g \in Seq(CharType) /\ g # << >>
  /\ NULL \notin CallType
  /\ {"documentation", "shutdown"} \subseteq STRING

VARIABLES
  argv,      \* the command line, or NULL for a program that uses the library
  cpt,       \* main's place in it
  exit,      \* the exit status, or what external_call returns; "none" before
  call,      \* the call being made or made last, or NULL
  stage,     \* how far that call has come
  wire,      \* the frame sent last
  arrived,   \* how many bytes of it recv returned
  whole,     \* every frame of this call arrived as a whole
  received,  \* the message the son decoded
  answer,    \* the status and the result the son answered with
  got,       \* the status and the result the client decoded
  printed    \* what main printed, or NULL

wireVars == <<wire, arrived, whole, received, answer, got>>
vars == <<argv, cpt, exit, call, stage, wireVars, printed>>

Init ==
  /\ argv \in Lines \cup {NULL}
  /\ cpt = 1
  /\ exit = "none" /\ stage = "idle"
  /\ call = NULL /\ wire = NULL /\ arrived = 0 /\ whole = TRUE
  /\ received = NULL /\ answer = NULL /\ got = NULL /\ printed = NULL

-----------------------------------------------------------------------------
(* The command line.                                                       *)

Argc == Len(argv)

\* argv[i], as C counts.
Arg(i) == argv[i + 1]

InMain == argv # NULL /\ exit = "none" /\ stage = "idle"
AtOption(flags) == InMain /\ cpt < Argc /\ Arg(cpt) \in flags

ListFlags == {"-l", "--list"}
ShutdownFlags == {"-s", "--shutdown"}
HelpFlags == {"-h", "--help"}
CommandFlags == {"-c", "--command"}

Exits(code) ==
  /\ exit' = code
  /\ UNCHANGED <<argv, cpt, call, stage, wireVars, printed>>

\* A call is made: sendCmd comes next.
Calls(from, m, room) ==
  /\ stage' = "call"
  /\ call' = [from |-> from, msg |-> m, room |-> room]
  /\ wire' = NULL /\ arrived' = 0 /\ whole' = TRUE
  /\ received' = NULL /\ answer' = NULL /\ got' = NULL
  /\ UNCHANGED <<argv, exit, printed>>

\* external_call copies the arguments into a message of its own.
Message(command, return_type, args) ==
  [command |-> command, return_type |-> return_type, argv |-> args]

CallDocumentation ==
  /\ AtOption(ListFlags)
  /\ Calls("-l", Message("documentation", Str, << >>), 2048)
  /\ UNCHANGED cpt

CallShutdown ==
  /\ AtOption(ShutdownFlags)
  /\ cpt + 1 < Argc
  /\ cpt' = cpt + 1
  /\ Calls("-s", Message("shutdown", Void, <<[typ |-> Str, data |-> Text[Arg(cpt')]]>>), 0)

NoPassword ==
  /\ AtOption(ShutdownFlags)
  /\ cpt + 1 >= Argc
  /\ Exits("failure")

Help == AtOption(HelpFlags) /\ Exits("success")

TypeWords == {"-int", "-str", "-void"}

\* returned_type: whatever is not one of the other two is void.
ReturnedType(word) == CASE word = "-int" -> Int32 [] word = "-str" -> Str [] OTHER -> Void

\* The places where check_command and parse_command expect the type of an
\* argument, for a command at place c.
TypePlaces(c) == {k \in (c + 3)..(Argc - 1) : (k - c - 3) % 2 = 0}

\* Mutant of CheckCommand: the word after the last type is not asked for.
CheckCommandLoosely(c) ==
  /\ c + 2 < Argc
  /\ \A k \in TypePlaces(c) : Arg(k) \in TypeWords

CheckCommand(c) ==
  /\ c + 2 < Argc
  /\ \A k \in TypePlaces(c) :
       /\ Arg(k) \in TypeWords
       /\ ReturnedType(Arg(k)) # Void => k + 1 < Argc

\* parse_command looks for -ret at one place, and takes no void.
ParseCommand(c) ==
  /\ Arg(3) = "-ret"
  /\ \A k \in TypePlaces(c) : ReturnedType(Arg(k)) # Void

\* The loop of parse_command takes the word after the last type where there is none:
\* argv[argc] is a null pointer.
Overruns(c) == \E k \in TypePlaces(c) : k + 1 >= Argc

\* The argument of the type at place k.
ParseArg(k) ==
  IF ReturnedType(Arg(k)) = Int32 THEN [typ |-> Int32, data |-> Number[Arg(k + 1)]]
  ELSE [typ |-> Str, data |-> Text[Arg(k + 1)]]

\* The message of parse_command.
Parsed(c) ==
  Message(Arg(c), ReturnedType(Arg(c + 2)),
          [i \in 1..Cardinality(TypePlaces(c)) |-> ParseArg(c + 1 + 2 * i)])

Command ==
  /\ AtOption(CommandFlags)
  /\ CheckCommand(cpt + 1) /\ ParseCommand(cpt + 1)
  /\ LET m == Parsed(cpt + 1) IN
       IF Overruns(cpt + 1) THEN Exits("crash")
       ELSE Calls("-c", m, IF m.return_type = Str THEN 256 ELSE 0) /\ UNCHANGED cpt

CommandRefused ==
  /\ AtOption(CommandFlags)
  /\ ~(CheckCommand(cpt + 1) /\ ParseCommand(cpt + 1))
  /\ Exits("failure")

Unknown ==
  /\ InMain /\ cpt < Argc
  /\ Arg(cpt) \notin UNION {ListFlags, ShutdownFlags, HelpFlags, CommandFlags}
  /\ Exits("failure")

EndOfLine == InMain /\ cpt >= Argc /\ Exits("success")

\* A program of its own calls the library once.
ExternalCall(m) ==
  /\ argv = NULL /\ stage = "idle" /\ exit = "none"
  /\ Calls("library", m, NULL)
  /\ UNCHANGED cpt

-----------------------------------------------------------------------------
(* transmition: sendCmd and getAnswer, and the son between them.           *)

\* How many bytes the second recv of a frame may return.
Arrivals == {wire.size} \cup {k \in 1..wire.size : k % Chunk = 0}

\* Byte i of memory that was never set and holds g.
Unset(g, i) == g[((i - 1) % Len(g)) + 1]

\* The buffer of the reader, and the memory behind it: the type, the length and the
\* bytes it announces take an argument no further than 129 bytes.
Beyond == 129 * (Len(call.msg.argv) + 1)
Buffer(n, g) ==
  [i \in 1..(wire.size + Beyond) |-> IF i <= n THEN wire.bytes[i] ELSE Unset(g, i)]

Receives(n) ==
  /\ arrived' = n
  /\ whole' = (whole /\ n = wire.size)

\* The end of a call, in whoever made it.  call_shutdown ignores the result, and
\* main goes on with the next option.
Return(ok, arg) ==
  IF call.from = "-s"
  THEN /\ stage' = "idle" /\ cpt' = cpt + 1
       /\ UNCHANGED <<exit, printed>>
  ELSE /\ stage' = "done"
       /\ exit' = IF ok THEN "success" ELSE "failure"
       /\ printed' = IF ok THEN arg ELSE NULL
       /\ UNCHANGED cpt

SendCmd ==
  /\ stage = "call"
  /\ stage' = "request"
  /\ wire' = SerializeMessage(call.msg)
  /\ UNCHANGED <<argv, cpt, exit, call, arrived, whole, received, answer, got, printed>>

\* clt_sock or send fails.
SendCmdFails ==
  /\ stage = "call"
  /\ Return(FALSE, NULL)
  /\ UNCHANGED <<argv, call, wireVars>>

ReadMsg ==
  /\ stage = "request"
  /\ \E n \in Arrivals, g \in Garbage :
       /\ Receives(n)
       /\ received' = DeserializeMessage(wire, Buffer(n, g))
  /\ stage' = IF received' = NULL THEN "dead" ELSE "running"
  /\ UNCHANGED <<argv, cpt, exit, call, wire, answer, got, printed>>

Answers(status, r) ==
  /\ answer' = [status |-> status, arg |-> r]
  /\ wire' = SerializeAnswer(status, r)
  /\ stage' = "answer"
  /\ UNCHANGED <<argv, cpt, exit, call, arrived, whole, received, got, printed>>

SendError ==
  /\ stage = "running" /\ Verdict(received) # OK
  /\ Answers(Verdict(received), NULL)

SendAnswer ==
  /\ stage = "running" /\ Verdict(received) = OK
  /\ ~Traps(received.command, DataOf(received))
  /\ Answers(OK, ExecuteFunction(received))

ExecuteTraps ==
  /\ stage = "running" /\ Verdict(received) = OK
  /\ Traps(received.command, DataOf(received))
  /\ stage' = "dead"
  /\ UNCHANGED <<argv, cpt, exit, call, wireVars, printed>>

\* The five seconds are over, also for a son that has not read its message yet.
Timeout == stage \in {"request", "running"} /\ Answers(Code.NO_ANSWER, NULL)

GetAnswer ==
  /\ stage = "answer"
  /\ \E n \in Arrivals, g \in Garbage :
       /\ Receives(n)
       /\ got' = DeserializeAnswer(wire, Buffer(n, g))
  /\ Return(got'.status = OK /\ got'.arg.typ = call.msg.return_type, got'.arg)
  /\ UNCHANGED <<argv, call, wire, received, answer>>

-----------------------------------------------------------------------------
Main ==
  \/ CallDocumentation \/ CallShutdown \/ NoPassword \/ Help
  \/ Command \/ CommandRefused \/ Unknown \/ EndOfLine

Next ==
  \/ Main
  \/ \E m \in Messages : ExternalCall(m)
  \/ SendCmd \/ SendCmdFails \/ ReadMsg
  \/ SendError \/ SendAnswer \/ ExecuteTraps \/ Timeout
  \/ GetAnswer

Spec == Init /\ [][Next]_vars

-----------------------------------------------------------------------------
AnswerType == [status : {OK}, arg : ArgType] \cup [status : Statuses \ {OK}, arg : {NULL}]

\* The types of a call, of its frames and of what is decoded from them: no integer
\* leaves the range of an int and no string holds a NUL, the decoders never read
\* further than the memory they are given, whatever it holds, and a son that has a message
\* answers with the type of the function or is killed by it.
TypeOK ==
  /\ argv \in Seq(STRING) \cup {NULL} /\ cpt \in Nat
  /\ exit \in {"none", "success", "failure", "crash"}
  /\ stage \in {"idle", "call", "request", "running", "answer", "dead", "done"}
  /\ call \in CallType \cup {NULL} /\ (stage # "idle" => call # NULL)
  /\ stage = "request" =>
       wire \in [command : STRING, return_type : TypeCodes, argc : Nat, size : Nat,
                 bytes : Seq(CharType)]
  /\ stage = "answer" => wire \in [size : Nat, bytes : Seq(CharType)] /\ answer \in AnswerType
  /\ arrived \in Nat /\ whole \in BOOLEAN
  /\ received \in MessageType \cup {NULL} /\ (stage = "running" => received # NULL)
  /\ answer \in AnswerType \cup {NULL} /\ got \in AnswerType \cup {NULL}
  /\ printed \in ArgType \cup {NULL}

\* Every frame announces exactly the bytes that were written: the two ways the
\* code counts digits and signs, in arg_size and in serialize_integer, agree on
\* every integer, the least one included, so malloc is never overrun and the
\* reader never waits for more or stops short.
SizeAgrees ==
  stage \in {"request", "answer"} => wire.size = Len(wire.bytes)

\* A length that the signed octet of a message holds.
OctetHolds(a) == a.typ = Str => Len(a.data) <= 127

\* What is left of an argument when its length loses its high bits.
Shortened(a) ==
  IF a.typ = Str THEN [a EXCEPT !.data = SubSeq(@, 1, Len(@) % 256)] ELSE a

\* What a son runs on.  The command, the return type and the number of arguments
\* are the caller's; so is every argument that arrived in time and comes after
\* no string longer than 127 bytes, except that a string of 256 bytes or more may
\* have lost its end.  A son refuses a message only if it was cut or holds such
\* a string.
RequestFaithful ==
  LET args == call.msg.argv IN
  /\ stage = "running" =>
       /\ received.command = call.msg.command
       /\ received.return_type = call.msg.return_type
       /\ DOMAIN received.argv = DOMAIN args
       /\ \A i \in DOMAIN args :
            /\ arrived >= ArgSize(SubSeq(args, 1, i))
            /\ \A j \in 1..(i - 1) : OctetHolds(args[j])
            => received.argv[i] = Shortened(args[i])
  /\ stage = "dead" /\ received = NULL =>
       arrived < wire.size \/ \E i \in DOMAIN args : ~OctetHolds(args[i])

\* What the client gets is the status and the result the son answered with,
\* whatever the length of a string: deserialize_answer takes it from the frame,
\* not from the octet that overflows (the documentation is longer than 127
\* bytes).  Of an answer that was cut the status, the type and the bytes that
\* arrived are true.
AnswerFaithful ==
  got # NULL =>
    /\ got.status = answer.status
    /\ arrived = wire.size => got.arg = answer.arg
    /\ arrived < wire.size =>
         /\ got.arg.typ = answer.arg.typ
         /\ Len(got.arg.data) <= Len(answer.arg.data)
         /\ IsPrefix(SubSeq(answer.arg.data, 1, arrived - 3), got.arg.data)

\* The form HELP (c_client.h) gives a command behind -ret -TYP, when the types of its
\* arguments are at the given places: each is int, str or void, and an ARG follows it
\* unless it is void.
CommandForm(line, types) ==
  /\ Len(line) >= 5
  /\ line[2] \in CommandFlags /\ line[4] = "-ret"
  /\ \A k \in types : line[k] \in TypeWords
  /\ types \cup {Len(line) + 1} =
       {6} \cup {k + (IF line[k] = "-void" THEN 1 ELSE 2) : k \in types}

\* The lines of that form that the code sends: those without a void argument.
Taken(line) ==
  \E types \in SUBSET (6..Len(line)) :
    CommandForm(line, types) /\ \A k \in types : line[k] # "-void"

\* A command line is sent if it has the form HELP gives, with two departures, and
\* refused otherwise: where HELP says that TYP has to be int, str or void, any word
\* does behind -ret and is taken for void; and a void argument, which HELP allows
\* without an ARG, is refused.  main never reads past the end of argv: the tests of
\* check_command and parse_command, which look at different places, cover each other.
UsageExact ==
  argv # NULL =>
    /\ exit # "crash"
    /\ call # NULL /\ call.from = "-c" => Taken(argv)
    /\ exit = "failure" /\ call = NULL => ~Taken(argv)

\* The product of n factors a.
Raised(a, n) == FoldLeft(LAMBDA res, x : res * x, 1, [i \in 1..n |-> a])

\* What the user of a line that is sent asks for, read from its words.  A power is a
\* product of b factors a, 1 for none, and a itself when b is negative.
Asked(line) ==
  LET data == [i \in 1..((Len(line) - 5) \div 2) |->
                 IF line[4 + 2 * i] = "-int" THEN Number[line[5 + 2 * i]]
                                             ELSE Text[line[5 + 2 * i]]]
  IN CASE line[3] = "power" /\ data[2] > 0 -> AsInt(Raised(data[1], data[2]))
       [] line[3] = "power" /\ data[2] = 0 -> 1
       [] line[3] = "power" /\ data[2] < 0 -> data[1]
       [] line[3] = "square" -> AsInt(data[1] * data[1])
       [] OTHER -> Apply(line[3], data)

\* The client prints the value of the function for the words of the line, or
\* fails because the server said so: provided that no frame was cut and no
\* string was too long, nothing between the line and the printed value changes
\* either, and getAnswer's own comparison of types never fails.
CommandAnswered ==
  (/\ call # NULL /\ call.from = "-c" /\ got # NULL /\ whole
   /\ \A i \in DOMAIN call.msg.argv : OctetHolds(call.msg.argv[i])) =>
     IF got.status = OK
     THEN exit = "success" /\ printed = [typ |-> ReturnedType(argv[5]), data |-> Asked(argv)]
     ELSE exit = "failure"

\* The buffers of the command line hold every string a default function returns,
\* with its NUL, except the documentation asked for by name: 256 bytes are
\* enough for concat only because the octet of a length is signed.
AnswerFits ==
  (/\ got # NULL /\ got.status = OK /\ got.arg.typ = Str
   /\ call.msg.return_type = Str /\ call.room # NULL) =>
     \/ Len(got.arg.data) + 1 <= call.room
     \/ call.from = "-c" /\ call.msg.command = "documentation"

\* deserialize_message is given the size of the message to check that all of it
\* has been read (u_rpc_data.h:225), so a son runs on the message as it was sent.
MessageReadWhole ==
  stage = "running" => received = call.msg
=============================================================================

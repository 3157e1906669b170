# A verification development of the remote procedure control

The repository holds a small remote procedure call system in C: a server that forks one
process per call, a client library and command line, and the code they share.  This
directory holds TLA+ models of it, the TLC configurations that check them, and proofs that
TLAPS checks.  Paths below are relative to `src/src/`.

## The system

| Part | State it keeps | Operations | What makes it correct |
|---|---|---|---|
| Acceptor, `loop_server` (s_server.c) | the client just accepted, the son just forked, the open descriptors | accept, fork, lock, `keep_track_of_client`, unlock | every son forked is recorded once, with its own client |
| Tracker, `check_client_track` (s_server.c) | its place in `processus_alive`, what waitpid said | sleep, lock, waitpid, remove, `send_error`, unlock | no record is freed twice or lost; the acceptor is not shut out |
| Son, `gestion_client` and `execute_client` (s_server.c) | its client, timer, copy of the mapper and of the descriptors | set the timer, read, search, verify, execute, answer, exit | a function runs for a legal call only, once, before the caller is answered; the son ends |
| Signals: `timeout_handler`, `kill_handler`, SIGPIPE | pending signals | end a son, end the server | at most one meaningful answer; the mapper dies in order |
| Client library, `external_call` (c_client.c) | one connection | connect, send, receive, decode | success means an answer was received |
| Protocol (u_rpc_data.h) and `verification_function` | none | three checks in a fixed order | the verdict is the right one |
| Serialization (u_rpc_data.c) | none | arguments and integers to bytes and back | what is decoded is what was encoded; sizes agree |
| Function memory (s_mapper.c) | a list and a counter | create, add, exist, get, remove, clear | it is a registry in which the last registration wins |
| Documentation (s_specials.c) | one buffer | measure, write | the text fits |
| Function handler (s_function_handler.c.pump) | none | dispatch on type and argument count | NULL results and traps |
| Default functions (s_defaults.c) | none | the registered bodies | values wrap as an int does; `shutdown` and `division` end more than themselves |
| Client command line, `main` of c_client.c | its place in argv, one message | options, `check_command`, `parse_command` | a line is sent as its words say, or refused; argv is never overrun |
| Server socket, `serv_sock` (s_server.c), `clt_sock` (c_client.c) | the path, the backlog | socket, unlink, bind, listen, connect | a server can start over what servers of its user left; callers find the last one |
| Logging, tests, examples | | | not modelled, see below |

**How they interact.**  The main process is two threads that share `processus_alive` under
one mutex.  Each accepted connection is handed to a son by fork; the parent keeps its copy of
the descriptor open, so a caller sees the end of the file only when the main process is gone
too.  A son inherits the listening socket as well, and nothing removes the path when a
server ends.  A son talks to its caller by one `send`, to the main process only by its exit status
and by SIGUSR1.  The caller has no timeout of its own: it depends on the son's SIGALRM.

**What is hard about it.**  fork is outside the mutex, so a pid may end, be reaped and come
back between two steps of the acceptor; signal handlers run arbitrary code, including
`malloc` and `_exit`, at any instruction; the same `send_error` runs in sons and in the
tracker thread, where its `_exit` ends the server; errors of `recv` are tested but ends of
file are not; either thread may run `exit`, and so free the mapper, while the other forks.
Two servers may run `serv_sock` at a time.  Lengths of strings are signed octets on one side
and frame sizes on the other, and one recv is taken to return a whole frame.
`PROJECT.json` lists these hazards at their lines with the properties that watch them.

## The modules

| Module | Models | Built on |
|---|---|---|
| `RpcProtocol` | types, statuses, signatures, `Verification`, and what a legal call is (`Callable`) | |
| `RpcService` | abstract: what the server promises its callers | `RpcProtocol` |
| `RpcServer` | the main process, its sons, the signals, the callers | `RpcProtocol`, instantiates `RpcService` |
| `RpcListProofs` | lemmas about sequences, finite sets, recursion, folds, sums and concatenations that the proofs share | |
| `RpcServerProofs` | type correctness of `RpcServer` | `RpcServer`, `RpcListProofs` |
| `RpcServerSafetyProofs` | the mutex, the descriptors, the runs and the records of `RpcServer` | `RpcServerProofs` |
| `RpcServerAnswerProofs` | who has each call in hand, how often it is answered, and that `RpcServer` implements `RpcService` | `RpcServerSafetyProofs` |
| `RpcRegistry` | abstract: a registry of named stacks | |
| `RpcMapper` | s_mapper.c | instantiates `RpcRegistry` |
| `RpcDocText` | s_specials.c, the length of one function's text: measured and written | |
| `RpcDocumentation` | s_specials.c over the list of `RpcMapper` | `RpcMapper`, `RpcDocText` |
| `RpcDocTextProofs` | both computations of that length are sums, and how they differ | `RpcDocText`, `RpcListProofs` |
| `RpcMapperProofs` | type correctness, the refinement, and the documentation's measure | `RpcDocumentation`, `RpcDocTextProofs` |
| `RpcCodec` | u_rpc_data.c as operators: integers, arguments, messages, answers, with the width of `int` and `char` | |
| `RpcDefaults` | s_defaults.c and the way of a message through `search_function`, `verification_function` and `execute_function`, as operators | `RpcCodec`, `RpcDocText`, instantiates `RpcProtocol` |
| `RpcClient` | c_client.c: one run of the command line or of a library user, end to end | `RpcDefaults` |
| `RpcClientProofs` | the types and sizes of a call, which command lines are sent, what is read of what was written, and what a command line prints | `RpcClient`, `RpcDocTextProofs` |
| `RpcSocket` | `serv_sock` and `clt_sock`: several servers and callers around one path | |
| `RpcSocketProofs` | three theorems about `RpcSocket` | `RpcSocket` |
| `MC*` | values for the constants | the module of the same name |

Definitions that are used only to show that a property is not vacuous (a plausible bug in
the code) are marked "Mutant of" and stand before the definition they would replace.

### RpcServer and the code

One variable stands for one piece of the program or of the kernel the program relies on:

* `server`, `dying`, `killed`: the main process, the thread in `kill_handler`, a pending
  SIGUSR1 or SIGINT; `mapper`: what `clear_mapper` has not freed yet of `function_memory`.
* `mutex`, `alive`: the mutex and `processus_alive`; `apc, aclient, ason` and
  `tpc, p, info, tclient`: program counters and locals of the two threads.
* `phase, who, status, armed, sonfds, sonmap, interrupted`: for each pid, where the son is
  (named after the C function it is about to enter), `current_client`, the status passed to
  `send_error`, its interval timer, the descriptors and the mapper it inherited, a pending
  SIGINT.
* `queue`, `cpc`, `req`, `inbox`, `answers`: the listen backlog, and for each caller its
  place, its message, the request and the answers on its connection.
* `ran`: history, how often the function of a call ended; read by properties only.

An action is one step of one thread or process between two points where another can be seen:
a system call, a lock, or the entry to a function.  Actions have the name of the C function
(`ReadMsg`, `SearchFunction`, `KeepTrackOfClient`), of the system call (`Fork`, `Accept`,
`Reap`), or of the branch (`RemoveExited`, `RemoveSignaled`).  Failures are actions of their
own (`ForkFails`, `ReadEof`, `SendErrorFails`).  Undefined behaviour is a choice over its
outcomes: `GetEof` lets a caller that decodes memory never set succeed, fail or crash,
`ReadMsg` lets a failed decoding exit or crash.  `clear_mapper` leaves the nodes it has freed
in the list until its `LIST_INIT`, so a search in a son that was forked meanwhile walks through
freed memory: it finds any of the functions or none (`Found`), or crashes (`SearchCrashes`).
A NULL answer goes through `send_answer` like any other (`SendNull`): nothing is transferred, but
SIGALRM may come first, and SIGPIPE may end the son.

Polling with the mutex held (`continue` on a son that has not finished) changes nothing, so
it is a tracker that has no enabled action until the son at `p` is a zombie.

A caller makes one call, so callers, calls and connections share a name.  A caller that makes
several calls is several callers; the library keeps nothing between calls.

### RpcClient and the code

`argv` and `cpt` are those of `main`; an option is an action (`CallDocumentation`,
`CallShutdown`, `Help`, `Command`, and for its errors `NoPassword`, `CommandRefused`,
`Unknown`).  A word is a name, `Number` and `Text` say what `atoi` and `strcpy` make of it.
`call` is the message with the room its buffer has, `wire` the frame sent last as announced
size and signed bytes.  A reader receives `arrived` of them (`Receives`), and decodes a
`Buffer` in which the rest is memory that was never set, filled from any of `Garbage`; `received`, `answer` and `got` are
what the son decoded, answered, and what the client made of that.  `ExternalCall` starts from
a message of a program that uses the library instead of a command line.

`RpcServer` and `RpcClient` look at the same path from two sides: `RpcServer` has every order
of processes, signals and failures and abstracts a message to its signature; `RpcClient` has
one call without those and keeps every value and byte of it.  Both judge with
`Verification` of `RpcProtocol`.

### RpcSocket and the code

`pc` is the place of each server in `serv_sock`, one system call at a time, or how it failed:
"failed" where bind found the path taken, "denied" where unlink met a path of another user (`Owner`,
`Allowed`: /tmp is sticky), "lacking" where any call lacked a descriptor or memory.  `path` is the
server whose socket SOCK_PATH leads to; `place` and `conn` follow each caller into a backlog
and to a son.  `Listening` is the kernel's rule that a socket listens as long as any process
holds it, `Reset` what happens to a backlog when none does.  `rivals` and `bound` are
history: the servers that were in `serv_sock` together with a server or after it, and those that have
bound the path.

## What the runs check

| Run | Instance | Checks |
|---|---|---|
| `ServerCalls` | 2 callers, 2 pids, `shutdown` called rightly and in each wrong way, and an unknown function | `RanOnlyLegal`, `SecondAnswerIsTimeout`, `ImplementsService` |
| `ServerSilent` | 2 callers that may be killed, 2 pids, NULL results, Ctrl-C | `EofOnlyAfterMainEnds`, `ImplementsService` |
| `ServerTracking` | 3 callers, 2 pids, traps, undecodable requests, hanging handlers | `TypeOK`, `TrackingExact`, `ListExclusive` |
| `ServerLiveSons` | 2 callers, 2 pids, division, with fairness | `SonsEnd`, `AcceptorGoesOn`, `CallsAccountedFor` |
| `ServerLiveCalls` | 3 callers, 1 pid, 2 descriptors, identity, with fairness | `CallsAccountedFor` |
| `Mapper` | 2 entries of 3 names and lengths and cleared ones, with 0 to 10 parameters, with and without description | `TypeOK`, `ImplementsRegistry`, `WritesMeasuredAndPlaceholders` |
| `Socket` | 3 servers and 2 callers of two users, with fairness | `TypeOK`, `FailsOnlyToOthers`, `Reachable`, `QueuedMovesOn` |
| `Call` | 2,605 command lines, most of them cut short somewhere; all integers of 10 bits, strings around 127 and 255 bytes, frames in pieces | `TypeOK`, `SizeAgrees`, `RequestFaithful`, `AnswerFaithful`, `UsageExact`, `CommandAnswered`, `AnswerFits` |

* `ImplementsService` is the refinement of `RpcService`: a function runs at most once, only
  for a legal call, and never after its caller was answered; the first answer is final and
  true: OK only after the function has run, an error only if the call has that error (or the
  server is closing), NO_ANSWER at any time.  It says nothing about being answered.
* `TrackingExact` relates the list to the sons that exist, with the one record each thread
  may hold in its locals.  It is why waitpid never fails with ECHILD; the branch for it reads
  a status that was never set and could free a record twice.
* `CallsAccountedFor` is as much as can be said about answers: a caller that waits gets a
  result, or its son exited silently or was never forked (`Silent`), or there is no
  descriptor left to accept it with (`Starved`).  The descriptors of exited sons are never
  closed, so starvation is a matter of time.
* `WritesMeasuredAndPlaceholders` and `SizeAgrees` compare code that measures with code that
  writes.  The first says where they differ: the placeholder of a function whose description
  is NULL, which s_mapper.h:179 allows, is written past the end of the buffer.
* `RequestFaithful` says what a son may run on: the command, the return type and the number of
  arguments are always the caller's; an argument is, if it arrived and no string before it is
  longer than 127 bytes.  The length of a string is one octet in the protocol
  (u_rpc_data.h:38) and a signed char in the code, so a longer one is refused, or, from 256 bytes
  on, may lose its end.  `AnswerFaithful` is the way back, where the frame size is used instead.
* `CommandAnswered` is the end-to-end statement: the value printed is the function of the words
  of the line, computed independently of the code's conversions, or the client fails because
  the server said so.  With it, the type check of `getAnswer` never fails.
* `UsageExact` holds although `check_command` and `parse_command` look at different places of
  argv: `-ret` is expected in `argv[3]` wherever the command is, so a command after another
  option (`-s pw -c ...`) is refused.  It states the form HELP gives (`CommandForm`) and the two
  departures of the code from it (`Taken`): HELP says that TYP has to be int, str or void
  (c_client.h:44), and any word does for the return type, a mistyped one being taken for `-void`;
  and HELP allows a void argument without a value (c_client.h:45), which `parse_command` refuses.
* `AnswerFits` shows that the 256 bytes `main` has for a string hold every answer but the
  documentation asked for by name, and only because two arguments of more than 127 bytes cannot
  reach `concat` whole.
* `FailsOnlyToOthers` and `Reachable` are the two halves of a restart: where the kernel has what the
  calls need, a server that starts alone gets the path from whatever a server of its user left, and
  keeps it.  Two servers in `serv_sock` together may end with one of them failed, or serving where
  nobody can find it; and a path that another user's server has bound stays, with or without that
  server, so unlink is denied (s_server.c:275).
* `QueuedMovesOn` covers the callers that connect to a socket which only sons of a dead server
  hold: they are reset when the last of these sons ends, at the latest by its timer.

Four more runs check what the repository says of itself and the code does not do:

| Run | Statement | What happens |
|---|---|---|
| `FindMainEnds` | the tracker removes clients that are not alive (s_server.h:82) | after one son is ended by a signal, by a division by zero or a timer that expires before its handler is there, it ends the server |
| `FindSuccess` | `external_call` returns 0 if the operation is successful (c_client.h:61) | it may return 0 at an end of file |
| `FindHung` | a process still running after 5 seconds is killed (s_server.h:88) | the handler can block in `malloc`; the son stays |
| `FindTruncated` | the size is used to check that all data has been read (u_rpc_data.h:225) | a string of 300 bytes arrives as 44, and the function runs |

Three smaller things seen on the way, which no run reports: the departures from HELP that `UsageExact`
names; and, with no property about them, `printErrorStatus` falls
through from RPC_WRONG_NUMBER_ARGS to the text of RPC_RET_NO_ANSWER (c_client.c:198-202), and
`call_shutdown` ignores its result, so `client -s password` succeeds when no server runs.

### Bounds, and why they are enough

Two pids are the least with which the tracker waits for one son while the acceptor has forked
another; three callers on two pids make a pid come back; one pid makes fork fail.  `MaxFds`
is below the number of callers where starvation matters, and the backlog is 2 where accept
order matters.  Requests contain one example of each verdict and, over the runs, of each way a function ends,
since the server compares nothing else.  One function is registered where functions are freed: a son
searches for one name only.  Callers and pids are interchangeable and are declared
symmetric in the runs without liveness properties.

In `Call`, `IntBits` is 10: everything the code does with an integer depends on its sign, its
digits and whether its opposite exists.  String lengths surround the limits of a signed and an
unsigned char.  A frame of up to `Chunk` = 160 bytes arrives whole and a longer one in multiples of
that (a Unix socket cuts at its buffer size, a few hundred kilobytes; the code makes one recv
in either case, and the shape of the cut does not matter to it).  `Garbage` fills memory that
was never set with zeros, with a type that exists, with one that does not, or with an encoded
string, an encoded integer and what is neither, over and over; the proofs have any bytes.  `Beyond` bounds how far behind a
buffer a decoder reads; `ClientTypeCorrect` proves that no decoder reads further.  Exponents are at most 9 in library calls and 7 on command lines.

In `Socket`, three servers are the least with which one is replaced while another starts, and
two callers let one be served by an orphan son while another is in the same backlog.  The third
server and the second caller belong to another user.
`MaxFunctions` is 2 entries: the list operations look at one entry and the rest of the list.
Deadlock is not checked in the server, socket and client runs: the callers finish, and the
server waits for more.

### Fairness, and why the code justifies it

`Fairness` has weak fairness for the acceptor, the tracker, `exit`, each son's own steps, its
timer, and a caller's receive: the scheduler runs what can run, an interval timer expires,
and a blocking recv returns when there is something to return.  Strong fairness is assumed
for `AcceptorLock` only: the tracker gives the mutex back again and again, and sleeps five
seconds each time, while the acceptor is blocked in `pthread_mutex_lock`.  No fairness is
given to a registered function (it may run for ever), to a caller's connect, send or
death, to the operator, or to a handler that hangs.

`RpcSocket` assumes weak fairness of `Accept` (the loop of a serving main process) and of a
son's timer, and nothing of operators and callers.

## What is proved

The three modules about `RpcServer` prove, for all sets of callers and pids, all limits,
functions and requests, under `ProtocolAssumption` and `ServerAssumption` only:

* `TypeCorrect`: `Spec => []TypeOK`.  `TypeOK` is inductive: beside the types it says which
  locals (client, pid, record) a thread or a son has at each place of its code, and that is
  what the other proofs use of it.
* `ListProtected`: `Spec => []ListExclusive`.  Inductive as it stands: lock is the only way
  into either critical section, and unlock the only way out.  It holds through the end of
  the main process too, where the mutex vanishes with the threads.
* `NoEofWhileUp`: `Spec => []EofOnlyAfterMainEnds`.  Not inductive; the strengthening is
  `Held`: as long as the main process is up, a connected caller is in the backlog or among the
  descriptors of the main process.  The lemma `HeadTail` says that accept moves a caller from
  the first to the second, and no step closes a descriptor of the main process.
* `LegalRuns`: `Spec => []RanOnlyLegal`.  Not inductive; the strengthening is `Judged`: what
  a son knows of its message at each place (it decodes; its command is registered; it has
  the signature of its command).  The lemma `VerifiedIsCallable` shows that the three tests of
  `verification_function`, in their order, amount to equality of the signatures, and
  `RanByExecute` that nothing else counts as a run.  SIGALRM may interrupt any of these
  places, but it only leads away from them (`MovesAreQuiet`).
* `SonsTracked`: `Spec => []TrackingExact`.  The strengthening `Tracking` states it son by son,
  which is how steps disturb it: a record that is not about to be removed names a son that exists
  and that no other record and not the acceptor has (`RecordsTrue`), the son in the acceptor's
  hands exists and serves the client it has (`PendingTrue`), and no son is forgotten
  (`NoneForgotten`).  A pid that comes back between two steps of the acceptor cannot be in the
  list any more, because it was reaped by the tracker, which then holds it as stale.
* `SecondAnswersAreTimeouts`: `Spec => []SecondAnswerIsTimeout`.  Two invariants lead there.
  `OneHandler`: a call is in one place only, the backlog, the acceptor's hands, one son, or the
  tracker's hands.  `Progress`: what each handler may have sent already, from its place in the
  code; a son that has sent an answer is about to exit and nothing but its timer can
  still make it send, and a call whose son the tracker reports has no answer or no reader.
* `ServerImplementsService`: `Spec => ImplementsService`.  Every step of the server is taken apart
  by what it shows to the service: it sends (`SendsServe`), ends a function (`ExecuteRuns`),
  reports a dead son (`ReportGivesUp`), or shows nothing (`OthersUnseen`).  That a first answer is
  true is `Judged` together with `Progress`: at the place where a son rejects a call, the call
  has the error that will be sent, or the server is closing and its mapper is being freed; a son whose
  search may miss a function was forked while that went on.

`RpcSocketProofs` proves, for all sets of servers and callers:

* `SocketTypeCorrect`: `Spec => []TypeOK`, inductive as it stands.  Beside the types it says that
  a caller in a backlog is connected to a socket that some process still holds.
* `StartFailsToOthers` and `LastServerReachable`: `FailsOnlyToOthers` and `Reachable`.  Neither is
  inductive.  The strengthening has three parts.  `PathBound`: the path leads to a server that has
  bound it.  `Met`: a server that was started counts every other server that is in
  `serv_sock` among its rivals.  `Undisturbed`: a server that met nobody finds no path
  behind its unlink, and one that met only servers that may not remove its path keeps it.
  The steps of callers and the ends of servers leave all of them alone (`CallersLeavePath`,
  `EndLeavesPath`); `StartMakesRivals` has the step that changes `Met`, and `ServSockStep` the
  others of `serv_sock`.

`RpcMapperProofs` proves, for all names, functions and bounds on their number:

* `MapperTypeCorrect`: `Spec => []TypeOK`.  Not inductive, since `remove_function` subtracts
  one from the counter without a test: the strengthening says that the counter is the length of
  the list, and that the list is initialized before it holds a function.
* `MapperImplementsRegistry`: `Spec => ImplementsRegistry`.  The stack of a name is the functions at
  its places in the list, in their order (`Places`, `Nth`, `Stack`); `NthMoves` says what a shift of the places
  does to that order, `StackAdd` and `StackRemove` what a change of the list does to every stack, and
  `StackHead` that a search from the head of the list finds the top of a stack.
* `WrittenAsMeasured`: `DocSpec => WritesMeasuredAndPlaceholders`.  Measuring and writing are two
  loops over the list, and within it over the types of a function; both are sums (`SumOfEntries`,
  `SumOfTypes`) whose terms differ by the placeholder only (`EntryDiffers`).  `DocumentationReads`
  says that `DocSpec` implies `Spec`, so the two theorems above hold of the run's specification.

`RpcClientProofs` proves, for all command lines, messages, sizes of a piece and contents of memory that
was never set, and ints of 4 to 32 bits (`CodecAssumption`, which bounds the powers of two the solver
must know, includes the 32 bits of the program and the 10 of TLC's runs, and keeps NULL apart from
what a reader returns; `ClientAssumption` gives words their numbers and bytes):

* `LinesAreChecked`: `Spec => []UsageExact`.  Not inductive; `MainInv` adds where `main` can stand:
  behind its first option only after `-s` and a password (`Walk`), so that `-ret` in `argv[3]`, which
  `parse_command` tests at a fixed place, is behind the command or behind nothing that is accepted.
  `Tests` shows that the two scattered tests amount to the places of `Regular`, `TakenIsRegular` that
  these are the lines of `Taken` (by least counterexamples over the places of the types), and
  `WellParsed` that such a line is read within argv and makes a message of well-typed arguments.
* `ClientTypeCorrect`: `Spec => []TypeOK`.  The strengthening `CallInv` adds to `MainInv` what is
  known of the frame at each stage of a call.  The weight is in the decoders: an argument, read from
  any bytes, is refused or well typed and ends within 129 bytes (`ArgumentRead`), so that
  the loop over the arguments keeps within 129 bytes each (`FoldWithin`) and never leaves the memory
  the model provides (`BufferFilled`); and in the functions, whose results for arguments of
  their signature are of the declared type (`Verdicts`, `Executed`).
* `SizesAgree`: `Spec => []SizeAgrees`.  `arg_size` counts the digits of an integer by the divisions
  that `serialize_integer` repeats to write them (`DigitsCounted`), for the least integer,
  whose opposite is itself, too; a frame is then as long as the sum that was allocated
  (`MessageWritten`, `AnswerWritten`).
* `RequestsAreTold` and `AnswersAreTold`: `RequestFaithful` and `AnswerFaithful`.  What was written is read
  again.  An integer (`IntegerReadBack`): the loop of `deserialize_integer` undoes the divisions one by
  one; the least integer, whose opposite is itself, is written with digits below zero, read with
  them, and negated into itself again.  A message (`MessageReadBack`): argument k is read from its place
  as long as the lengths before it survived their octets, so what was read and what was written
  agree up to the first argument that was cut or comes after an octet that overflowed; the
  size of the frame is met exactly if there is none, so the comparison with -1 in `read_msg`
  refuses nothing else.  An answer (`AnswerReadBack`): the length of its string is what
  is left of the frame.  The steps of the client add that a frame is kept from its writer to its
  reader (`RequestArrives`, `AnswerArrives`) and that nothing touches an answer afterwards (`Kept`).
* `CommandsAreAnswered`: `Spec => []CommandAnswered`.  `LineInv` chains the pieces: the message is the one the
  words spell (`LineCalled`), a son that runs on a call without cuts and long strings has it whole
  (`WholeMessageReadBack`) and answers with its function's value or an error (`SoundlyAnswered`), and `main`
  prints what the client decoded (`Finished`).  `AskedFor` compares the functions with what the line
  asks for: the loop of `power`, which overflows at every turn, has the value of the whole product
  modulo the width (`IntTimes`, `PowerRaises`), 1 when there is no turn, and its base when the exponent is
  negative (`PowerOfNegative`).
* `AnswersFit`: `Spec => []AnswerFits`.  `FitInv` carries a bound from the octets to the buffer: the strings of a
  received message have 127 bytes at most (`MessageRead`), whatever the sender wrote, so a result has
  at most 254 (`StringsFit`), the documentation, the sum over eleven functions,
  at most 2047 (`DocumentationFits`), and decoding makes nothing longer.

Induction over data is not available with an operator as parameter.  `RpcListProofs` gets what these
proofs need of it from least counterexamples (`LeastPlace`, `UpTo`) and from the existence of functions
that descend along a rank (`RecursionByRank`, `InductionByRank`), on which the lemmas about sums, folds and
concatenations rest.

Model-checked only: the liveness properties (`SonsEnd`, `AcceptorGoesOn`, `CallsAccountedFor`,
`QueuedMovesOn`), which need fairness and are out of the prover's reach.

## What is not modelled, and why

* A full listen backlog (100 callers) in `RpcSocket`; it blocks `connect` and nothing else.
* Freed memory in which, by chance, something that was never registered looks like a function to a
  son that walks through it (s_mapper.c:136-148); a search there finds a function, or none, or crashes.
* A run that reports the departures from HELP: `UsageExact` states them instead.
* Failures of `malloc` for a sensible size, of `setitimer`, the mutex functions, and waitpid's
  unexpected errors; with them the `fail:` branches of u_rpc_data.c, among them the loop of
  `create_message` that never advances (u_rpc_data.c:97).
* The allocator: `parse_command` writes the NUL of every word one byte past its block
  (c_client.c:296, 327).
* Library calls with a type that does not exist: `create_message` refuses such a return type,
  and `external_call` goes on with a message that was never set.
* The wording of texts, logging, debug printing, tests, examples, build files: no state depends
  on them.

## Plan

1. Done: `RpcProtocol`, `RpcServer` with `RpcService`, `RpcMapper` with `RpcRegistry`,
   `RpcDocumentation`; type correctness of the server proved and three of its safety invariants.
2. Done: the client's command line and a call end to end with frames in pieces (`RpcClient`),
   starting and restarting the server (`RpcSocket`), and its three theorems.
3. Done: `TrackingExact`, `SecondAnswerIsTimeout` and the steps of `ImplementsService`; type
   correctness of `RpcMapper`, that it implements `RpcRegistry`, and the measure of the documentation.
4. Done: proofs about `RpcClient`: `UsageExact` for any command lines, the types of a call, and
   `SizeAgrees` for any messages.
5. Done: that messages and answers are read as they were written, for `RequestFaithful` and
   `AnswerFaithful`; `CommandAnswered` and `AnswerFits`.  Every invariant the passing runs check is now a
   theorem.
6. Left: the refinements restated with the invariants they use as parts of one, should the server
   or the mapper be extended.

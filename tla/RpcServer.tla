----------------------------- MODULE RpcServer -----------------------------
(***************************************************************************)
(* The server of the remote procedure control (s_server.c) with the        *)
(* callers that use it (getAnswer and sendCmd of c_client.c).              *)
(*                                                                         *)
(* The main process runs two threads: the acceptor (loop_server) forks a   *)
(* son for every connection and records it in the list processus_alive;    *)
(* the tracker (check_client_track) reaps the recorded sons.  A mutex      *)
(* protects the list.  Each son answers one call and ends.  Signals cut    *)
(* through all of them: SIGALRM ends a son after five seconds, SIGUSR1     *)
(* (the remote shutdown) and SIGINT end the main process, SIGPIPE ends     *)
(* whoever sends to a caller that is gone.                                 *)
(*                                                                         *)
(* A caller makes one call, so a caller and its call have one name.  What  *)
(* the operating system does (pids, descriptors, the backlog, the reaping  *)
(* of orphans) is modelled as far as the code depends on it.               *)
(*                                                                         *)
(* Left out: failures of malloc, of the mutex functions and of waitpid     *)
(* (other than those the list makes possible), a partial recv, a second    *)
(* kill signal taken by one thread while the other is in exit(), and freed *)
(* memory whose new content happens to look like a registered function.    *)
(***************************************************************************)
EXTENDS RpcProtocol, SequencesExt

CONSTANTS
  Clients,        \* the callers, each making one call
  Sons,           \* the pids fork can give; their number is the process limit
  None,           \* no caller, no pid
  Backlog,        \* pending connections the kernel holds (listen's 100)
  MaxFds,         \* client descriptors the main process can have open
  Mortal,         \* the callers that may be killed while they wait
  Interrupts,     \* whether the operator may press Ctrl-C
  HandlerMayHang  \* whether the SIGALRM handler may deadlock in malloc

ASSUME ServerAssumption ==
  /\ IsFiniteSet(Clients) /\ IsFiniteSet(Sons)
  /\ None \notin Clients /\ None \notin Sons
  /\ Backlog \in Nat \ {0} /\ MaxFds \in Nat \ {0}
  /\ Mortal \subseteq Clients
  /\ Interrupts \in BOOLEAN /\ HandlerMayHang \in BOOLEAN

VARIABLES
  server,    \* "up" or "down": the main process
  dying,     \* the thread that runs kill_handler, or "nobody"
  killed,    \* a SIGUSR1 or SIGINT is pending for the main process
  mapper,    \* the functions of function_memory that are not freed
  mainfds,   \* the callers whose descriptor the main process has open
  mutex,     \* "free", "acceptor" or "tracker"
  alive,     \* processus_alive: [son, client] records, newest first
  apc, aclient, ason,       \* the acceptor: its place, client and son
  tpc, p, info, tclient,    \* the tracker: its place, p, what waitpid said,
                            \* the client of the record it took out
  phase,     \* son -> where it is, or how it ended until it is reaped
  who,       \* son -> current_client
  status,    \* son -> the status send_error is about to send
  armed,     \* son -> its interval timer is set
  sonfds,    \* son -> the callers whose descriptor it has open
  sonmap,    \* son -> the functions a search of its function_memory finds
  interrupted, \* the sons with a SIGINT pending
  queue,     \* connections waiting for accept
  cpc,       \* caller -> where it is
  req,       \* caller -> the message it sends
  inbox,     \* caller -> its request, on the server's side of the connection
  answers,   \* caller -> the answers sent to it
  ran        \* caller -> how many times its function ended (history)

threadVars == <<mutex, alive, apc, aclient, ason, tpc, p, info, tclient>>
mainVars   == <<server, dying, killed, mapper, mainfds, threadVars>>
sonVars    == <<phase, who, status, armed, sonfds, sonmap, interrupted>>
callVars   == <<queue, cpc, req, inbox, answers, ran>>
vars       == <<mainVars, sonVars, callVars>>

Threads  == {"acceptor", "tracker"}

\* A son is forked in gestion_client and goes through set_timeout (where its
\* timer is set but not its handler), then the functions of execute_client.
\* "send_null" is send_answer without an answer, "close" send_error after its
\* send, "exit" a son about to call _exit, "hung" one whose handler waits for a
\* lock that its own main program holds.
Working  == {"gestion_client", "set_timeout", "read_msg", "search_function",
             "verification_function", "execute_function", "send_answer",
             "send_null", "send_error", "close", "exit"}
Handling == Working \ {"gestion_client", "set_timeout"}
Zombie   == {"exited", "signaled"}

Phases   == Working \cup Zombie \cup {"none", "hung"}

Record == [son : Sons, client : Clients]
Answer == [status : Status, typ : Types]

Running(s) == phase[s] \in Working \cup {"hung"}

\* The main process and every son inherit the listening socket.
ListenerOpen == server = "up" \/ \E s \in Sons : Running(s)

\* Some process still holds the server's end, or the caller's end.
ServerEnd(c) ==
  \/ c \in mainfds
  \/ \E s \in Sons : c \in sonfds[s]
  \/ ListenerOpen /\ c \in ToSet(queue)

ClientEnd(c) == cpc[c] \in {"connected", "waiting"}

ErrorAnswer(st) == [status |-> st, typ |-> "void"]

-----------------------------------------------------------------------------
Init ==
  /\ server = "up" /\ dying = "nobody" /\ killed = FALSE
  /\ mapper = Functions /\ mainfds = {}
  /\ mutex = "free" /\ alive = << >>
  /\ apc = "accept" /\ aclient = None /\ ason = None
  /\ tpc = "sleep" /\ p = 1 /\ info = "none" /\ tclient = None
  /\ phase = [s \in Sons |-> "none"]
  /\ who = [s \in Sons |-> None]
  /\ status = [s \in Sons |-> "OK"]
  /\ armed = [s \in Sons |-> FALSE]
  /\ sonfds = [s \in Sons |-> {}]
  /\ sonmap = [s \in Sons |-> {}]
  /\ interrupted = {}
  /\ queue = << >>
  /\ cpc = [c \in Clients |-> "idle"]
  /\ req \in [Clients -> Requests]
  /\ inbox = [c \in Clients |-> "empty"]
  /\ answers = [c \in Clients |-> << >>]
  /\ ran = [c \in Clients |-> 0]

-----------------------------------------------------------------------------
(* How processes end.                                                      *)

\* A son ends: all its descriptors close.  It stays a zombie until the tracker
\* reaps it, unless the main process is gone and init reaps it at once.
SonEnds(s, how) ==
  /\ phase' = [phase EXCEPT ![s] = IF server = "up" THEN how ELSE "none"]
  /\ who' = [who EXCEPT ![s] = IF server = "up" THEN @ ELSE None]
  /\ status' = [status EXCEPT ![s] = "OK"]
  /\ armed' = [armed EXCEPT ![s] = FALSE]
  /\ sonfds' = [sonfds EXCEPT ![s] = {}]
  /\ sonmap' = [sonmap EXCEPT ![s] = {}]
  /\ interrupted' = interrupted \ {s}

\* The main process ends, whichever thread ends it: its memory and descriptors
\* vanish and init reaps its zombies.  The sons at work go on as orphans.
MainEnds ==
  /\ server' = "down" /\ dying' = "nobody" /\ killed' = FALSE
  /\ mapper' = {} /\ mainfds' = {}
  /\ mutex' = "free" /\ alive' = << >>
  /\ apc' = "accept" /\ aclient' = None /\ ason' = None
  /\ tpc' = "sleep" /\ p' = 1 /\ info' = "none" /\ tclient' = None
  /\ phase' = [s \in Sons |-> IF phase[s] \in Zombie THEN "none" ELSE phase[s]]
  /\ who' = [s \in Sons |-> IF phase[s] \in Zombie THEN None ELSE who[s]]
  /\ UNCHANGED <<status, armed, sonfds, sonmap, interrupted>>

-----------------------------------------------------------------------------
(* The acceptor: loop_server.                                              *)

AcceptorAt(pc) == server = "up" /\ dying # "acceptor" /\ apc = pc

\* accept takes the oldest pending connection.  With no descriptor left it
\* fails, and the loop tries again.
Accept ==
  /\ AcceptorAt("accept")
  /\ queue # << >>
  /\ Cardinality(mainfds) < MaxFds
  /\ aclient' = Head(queue)
  /\ queue' = Tail(queue)
  /\ mainfds' = mainfds \cup {Head(queue)}
  /\ apc' = "fork"
  /\ UNCHANGED <<server, dying, killed, mapper, mutex, alive, ason, tpc, p,
                 info, tclient, sonVars, cpc, req, inbox, answers, ran>>

\* What a search finds in function_memory now: the registered functions, unless
\* clear_mapper is at work.  It leaves the nodes it freed in the list until its
\* LIST_INIT, so a search walks through freed memory and finds, by what that
\* memory still holds, any of them, or none.
Found == IF mapper = Functions THEN {Functions} ELSE SUBSET Functions

\* The son is a copy of the main process: it has every client descriptor the
\* main process had open, and function_memory as it was.
Fork(s) ==
  /\ AcceptorAt("fork")
  /\ phase[s] = "none"
  /\ phase' = [phase EXCEPT ![s] = "gestion_client"]
  /\ who' = [who EXCEPT ![s] = aclient]
  /\ sonfds' = [sonfds EXCEPT ![s] = mainfds]
  /\ \E found \in Found : sonmap' = [sonmap EXCEPT ![s] = found]
  /\ ason' = s
  /\ apc' = "lock"
  /\ UNCHANGED <<server, dying, killed, mapper, mainfds, mutex, alive, aclient,
                 tpc, p, info, tclient, status, armed, interrupted, callVars>>

\* Mutant of ForkFails: the test of fork's result is missing.
ForkFailureIgnored ==
  /\ AcceptorAt("fork")
  /\ \A s \in Sons : phase[s] # "none"
  /\ apc' = "lock"
  /\ UNCHANGED <<server, dying, killed, mapper, mainfds, mutex, alive, aclient,
                 ason, tpc, p, info, tclient, sonVars, callVars>>

\* No pid is left: the loop continues, and nobody closes the descriptor or
\* answers the caller.
ForkFails ==
  /\ AcceptorAt("fork")
  /\ \A s \in Sons : phase[s] # "none"
  /\ apc' = "accept" /\ aclient' = None
  /\ UNCHANGED <<server, dying, killed, mapper, mainfds, mutex, alive, ason,
                 tpc, p, info, tclient, sonVars, callVars>>

\* Mutant of AcceptorLock: keep_track_of_client is called without the mutex.
AcceptorDoesNotLock ==
  /\ AcceptorAt("lock")
  /\ apc' = "track"
  /\ UNCHANGED <<server, dying, killed, mapper, mainfds, mutex, alive, aclient,
                 ason, tpc, p, info, tclient, sonVars, callVars>>

AcceptorLock ==
  /\ AcceptorAt("lock")
  /\ mutex = "free"
  /\ mutex' = "acceptor" /\ apc' = "track"
  /\ UNCHANGED <<server, dying, killed, mapper, mainfds, alive, aclient, ason,
                 tpc, p, info, tclient, sonVars, callVars>>

\* Mutant of KeepTrackOfClient: the parent closes the descriptor that it left
\* to its son, as servers that fork often do.
KeepTrackAndClose ==
  /\ AcceptorAt("track")
  /\ alive' = <<[son |-> ason, client |-> aclient]>> \o alive
  /\ mainfds' = mainfds \ {aclient}
  /\ aclient' = None /\ ason' = None
  /\ apc' = "unlock"
  /\ UNCHANGED <<server, dying, killed, mapper, mutex,
                 tpc, p, info, tclient, sonVars, callVars>>

KeepTrackOfClient ==
  /\ AcceptorAt("track")
  /\ alive' = <<[son |-> ason, client |-> aclient]>> \o alive
  /\ aclient' = None /\ ason' = None
  /\ apc' = "unlock"
  /\ UNCHANGED <<server, dying, killed, mapper, mainfds, mutex,
                 tpc, p, info, tclient, sonVars, callVars>>

AcceptorUnlock ==
  /\ AcceptorAt("unlock")
  /\ mutex' = "free" /\ apc' = "accept"
  /\ UNCHANGED <<server, dying, killed, mapper, mainfds, alive, aclient, ason,
                 tpc, p, info, tclient, sonVars, callVars>>

-----------------------------------------------------------------------------
(* The tracker: check_client_track.                                        *)

TrackerAt(pc) == server = "up" /\ dying # "tracker" /\ tpc = pc

\* The five seconds of sleep end and the tracker gets the mutex.
TrackerLock ==
  /\ TrackerAt("sleep")
  /\ mutex = "free"
  /\ mutex' = "tracker" /\ tpc' = "scan" /\ p' = 1
  /\ UNCHANGED <<server, dying, killed, mapper, mainfds, alive, apc, aclient,
                 ason, info, tclient, sonVars, callVars>>

\* waitpid reaps the son of the record p points to; from here on fork may give
\* its pid again.  While that son has not finished, the loop asks again about
\* the same record, with the mutex held: the tracker takes no step.
Reap ==
  /\ TrackerAt("scan")
  /\ p <= Len(alive)
  /\ LET s == alive[p].son IN
       /\ phase[s] \in Zombie
       /\ info' = phase[s]
       /\ phase' = [phase EXCEPT ![s] = "none"]
       /\ who' = [who EXCEPT ![s] = None]
  /\ tpc' = "remove"
  /\ UNCHANGED <<server, dying, killed, mapper, mainfds, mutex, alive, apc,
                 aclient, ason, p, tclient, status, armed, sonfds, sonmap,
                 interrupted, callVars>>

\* Mutant of RemoveExited: LIST_REMOVE is forgotten.
ExitedStaysRecorded ==
  /\ TrackerAt("remove") /\ info = "exited"
  /\ p' = p + 1
  /\ tpc' = "scan" /\ info' = "none"
  /\ UNCHANGED <<server, dying, killed, mapper, mainfds, mutex, alive, apc,
                 aclient, ason, tclient, sonVars, callVars>>

\* The record of a son that exited is removed; the descriptor of its client is
\* not closed.  The next record is now the one at p.
RemoveExited ==
  /\ TrackerAt("remove") /\ info = "exited"
  /\ alive' = RemoveAt(alive, p)
  /\ tpc' = "scan" /\ info' = "none"
  /\ UNCHANGED <<server, dying, killed, mapper, mainfds, mutex, apc, aclient,
                 ason, p, tclient, sonVars, callVars>>

\* The record of a son that a signal ended is removed, and send_error is called
\* for its client, in the main process.
RemoveSignaled ==
  /\ TrackerAt("remove") /\ info = "signaled"
  /\ alive' = RemoveAt(alive, p)
  /\ tclient' = alive[p].client
  /\ tpc' = "report" /\ info' = "none"
  /\ UNCHANGED <<server, dying, killed, mapper, mainfds, mutex, apc, aclient,
                 ason, p, sonVars, callVars>>

\* The send of send_error.  SIGPIPE ends the main process when the caller is
\* gone.
Report ==
  /\ TrackerAt("report")
  /\ IF ClientEnd(tclient)
     THEN /\ answers' = [answers EXCEPT ![tclient] =
                                      Append(@, ErrorAnswer("NO_ANSWER"))]
          /\ tpc' = "exit"
          /\ UNCHANGED <<server, dying, killed, mapper, mainfds, mutex, alive,
                         apc, aclient, ason, p, info, tclient, sonVars>>
     ELSE MainEnds /\ UNCHANGED answers
  /\ UNCHANGED <<queue, cpc, req, inbox, ran>>

\* send_error closes the descriptor and calls _exit: the main process ends.
TrackerExit ==
  /\ TrackerAt("exit")
  /\ MainEnds
  /\ UNCHANGED callVars

\* Mutant of TrackerUnlock: the mutex is not given back.
TrackerDoesNotUnlock ==
  /\ TrackerAt("scan")
  /\ p > Len(alive)
  /\ tpc' = "sleep" /\ p' = 1
  /\ UNCHANGED <<server, dying, killed, mapper, mainfds, mutex, alive, apc,
                 aclient, ason, info, tclient, sonVars, callVars>>

TrackerUnlock ==
  /\ TrackerAt("scan")
  /\ p > Len(alive)
  /\ mutex' = "free" /\ tpc' = "sleep" /\ p' = 1
  /\ UNCHANGED <<server, dying, killed, mapper, mainfds, alive, apc, aclient,
                 ason, info, tclient, sonVars, callVars>>

-----------------------------------------------------------------------------
(* Shutting down: kill_handler, exit and clear_default_mapper.             *)

\* A thread of the main process takes the pending signal and calls exit.  It
\* does nothing else any more, even if it holds the mutex; the other thread
\* goes on.
HandleKill(t) ==
  /\ server = "up" /\ killed /\ dying = "nobody"
  /\ dying' = t /\ killed' = FALSE
  /\ UNCHANGED <<server, mapper, mainfds, threadVars, sonVars, callVars>>

\* clear_mapper frees the registered functions one after the other; a son
\* forked meanwhile has them in its list all the same (Found).
ClearMapper(f) ==
  /\ dying # "nobody" /\ f \in mapper
  /\ mapper' = mapper \ {f}
  /\ UNCHANGED <<server, dying, killed, mainfds, threadVars, sonVars, callVars>>

ExitMain ==
  /\ dying # "nobody" /\ mapper = {}
  /\ MainEnds
  /\ UNCHANGED callVars

\* Ctrl-C reaches the main process and its sons.
Interrupt ==
  /\ Interrupts /\ server = "up" /\ dying = "nobody" /\ ~killed
  /\ killed' = TRUE
  /\ interrupted' = {s \in Sons : phase[s] \in Working}
  /\ UNCHANGED <<server, dying, mapper, mainfds, threadVars, phase, who, status,
                 armed, sonfds, sonmap, callVars>>

\* A son inherits kill_handler: it exits without answering.
HandleInterrupt(s) ==
  /\ s \in interrupted /\ phase[s] \in Working
  /\ SonEnds(s, "exited")
  /\ UNCHANGED <<mainVars, callVars>>

-----------------------------------------------------------------------------
(* A son: gestion_client, execute_client and what they call.               *)

\* A step of son s from place pc to place next that leaves the rest alone.
Moves(s, pc, next) ==
  /\ phase[s] = pc
  /\ phase' = [phase EXCEPT ![s] = next]
  /\ UNCHANGED <<mainVars, who, sonfds, sonmap, interrupted>>

\* send_error(client, st) is called.
Rejects(s, pc, st) ==
  /\ Moves(s, pc, "send_error")
  /\ status' = [status EXCEPT ![s] = st]

\* Mutant of SetTimer: setitimer fails, and set_timeout returns without a timer.
SetTimerFails(s) ==
  /\ Moves(s, "gestion_client", "set_timeout")
  /\ UNCHANGED <<status, armed, callVars>>

\* set_timeout starts the timer first and installs the handler afterwards.
SetTimer(s) ==
  /\ Moves(s, "gestion_client", "set_timeout")
  /\ armed' = [armed EXCEPT ![s] = TRUE]
  /\ UNCHANGED <<status, callVars>>

InstallHandler(s) ==
  /\ Moves(s, "set_timeout", "read_msg")
  /\ UNCHANGED <<status, armed, callVars>>

ReadMsg(s) ==
  LET c == who[s] IN
  /\ phase[s] = "read_msg" /\ inbox[c] = "request"
  /\ inbox' = [inbox EXCEPT ![c] = "read"]
  /\ UNCHANGED <<queue, cpc, req, answers, ran>>
  /\ \/ /\ req[c].decodes
        /\ Moves(s, "read_msg", "search_function")
        /\ UNCHANGED <<status, armed>>
     \* deserialize_message fails; its failure path frees pointers that were
     \* never set, so it returns -1, and read_msg exits without an answer, or
     \* it crashes.
     \/ /\ ~req[c].decodes
        /\ \E how \in Zombie : SonEnds(s, how)
        /\ UNCHANGED mainVars

\* The caller is gone and sent nothing: recv returns 0, which read_msg does not
\* test, and the length it goes on with was never set.  Decoding the garbage
\* fails or crashes.
ReadEof(s) ==
  /\ phase[s] = "read_msg"
  /\ inbox[who[s]] = "empty" /\ ~ClientEnd(who[s])
  /\ \E how \in Zombie : SonEnds(s, how)
  /\ UNCHANGED <<mainVars, callVars>>

SearchFunction(s) ==
  /\ phase[s] = "search_function"
  /\ IF req[who[s]].command \in sonmap[s]
     THEN /\ Moves(s, "search_function", "verification_function")
          /\ UNCHANGED status
     ELSE Rejects(s, "search_function", "UNKNOWN_FUNC")
  /\ UNCHANGED <<armed, callVars>>

\* The walk through freed memory follows what is no pointer any more.
SearchCrashes(s) ==
  /\ phase[s] = "search_function" /\ sonmap[s] # Functions
  /\ SonEnds(s, "signaled")
  /\ UNCHANGED <<mainVars, callVars>>

VerificationFunction(s) ==
  LET m == req[who[s]] IN
  /\ phase[s] = "verification_function"
  /\ LET verdict == Verification(Signature[m.command], m) IN
       IF verdict = "OK"
       THEN /\ Moves(s, "verification_function", "execute_function")
            /\ UNCHANGED status
       ELSE Rejects(s, "verification_function", verdict)
  /\ UNCHANGED <<armed, callVars>>

\* The function of son s ends in the given way; a function may also never end.
Executes(s, ending) ==
  /\ phase[s] = "execute_function"
  /\ ending \in Outcomes[req[who[s]].command]
  /\ ran' = [ran EXCEPT ![who[s]] = @ + 1]
  /\ UNCHANGED <<queue, cpc, req, inbox, answers>>

ExecuteReturns(s) ==
  /\ Executes(s, "returns")
  /\ Moves(s, "execute_function", "send_answer")
  /\ UNCHANGED <<status, armed>>

\* A NULL string leaves the answer NULL and its size unset.
ExecuteNull(s) ==
  /\ Executes(s, "null")
  /\ Moves(s, "execute_function", "send_null")
  /\ UNCHANGED <<status, armed>>

ExecuteTraps(s) ==
  /\ Executes(s, "traps")
  /\ SonEnds(s, "signaled")
  /\ UNCHANGED mainVars

\* shutdown sends SIGUSR1 to its parent, the main process unless that is gone,
\* and returns.
ExecuteKills(s) ==
  /\ Executes(s, "kills")
  /\ phase' = [phase EXCEPT ![s] = "send_answer"]
  /\ killed' = (killed \/ server = "up")
  /\ UNCHANGED <<server, dying, mapper, mainfds, threadVars,
                 who, status, armed, sonfds, sonmap, interrupted>>

\* The send of an answer a on the son's connection, after which the son is at
\* next; SIGPIPE ends it when the caller is gone.
Sends(s, pc, a, next) ==
  LET c == who[s] IN
  /\ phase[s] = pc /\ c \in sonfds[s]
  /\ IF ClientEnd(c)
     THEN /\ Moves(s, pc, next)
          /\ answers' = [answers EXCEPT ![c] = Append(@, a)]
          /\ UNCHANGED <<status, armed>>
     ELSE /\ SonEnds(s, "signaled")
          /\ UNCHANGED <<mainVars, answers>>
  /\ UNCHANGED <<queue, cpc, req, inbox, ran>>

SendAnswer(s) ==
  Sends(s, "send_answer",
        [status |-> "OK", typ |-> req[who[s]].return_type], "exit")

\* send_answer with NULL and a size that was never set: the send transfers
\* nothing, whether it fails or not, and the son exits.  When the caller is gone
\* SIGPIPE may end it, unless the kernel refuses the buffer first.
SendNull(s) ==
  /\ phase[s] = "send_null"
  /\ \E how \in IF ClientEnd(who[s]) THEN {"exited"} ELSE Zombie : SonEnds(s, how)
  /\ UNCHANGED <<mainVars, callVars>>

SendError(s) == Sends(s, "send_error", ErrorAnswer(status[s]), "close")

\* The timeout came after send_error had closed the descriptor: the second
\* send fails and err() exits.
SendErrorFails(s) ==
  /\ phase[s] = "send_error" /\ who[s] \notin sonfds[s]
  /\ SonEnds(s, "exited")
  /\ UNCHANGED <<mainVars, callVars>>

CloseClient(s) ==
  /\ phase[s] = "close"
  /\ phase' = [phase EXCEPT ![s] = "exit"]
  /\ sonfds' = [sonfds EXCEPT ![s] = @ \ {who[s]}]
  /\ UNCHANGED <<mainVars, who, status, armed, sonmap, interrupted, callVars>>

ExitSon(s) ==
  /\ phase[s] = "exit"
  /\ SonEnds(s, "exited")
  /\ UNCHANGED <<mainVars, callVars>>

-----------------------------------------------------------------------------
(* SIGALRM.                                                                *)

\* Mutant of Alarm: the handler sends the error and returns to what it
\* interrupted.
AlarmReturns(s) ==
  /\ armed[s] /\ phase[s] \in Handling
  /\ armed' = [armed EXCEPT ![s] = FALSE]
  /\ answers' = [answers EXCEPT ![who[s]] = Append(@, ErrorAnswer("NO_ANSWER"))]
  /\ UNCHANGED <<mainVars, phase, who, status, sonfds, sonmap, interrupted,
                 queue, cpc, req, inbox, ran>>

\* Mutant of Alarm: it_interval is set too, and the timer starts again.
AlarmRepeats(s) ==
  /\ armed[s] /\ phase[s] \in Handling
  /\ Rejects(s, phase[s], "NO_ANSWER")
  /\ UNCHANGED <<armed, callVars>>

\* timeout_handler calls send_error and never gives control back.
Alarm(s) ==
  /\ armed[s] /\ phase[s] \in Handling
  /\ Rejects(s, phase[s], "NO_ANSWER")
  /\ armed' = [armed EXCEPT ![s] = FALSE]
  /\ UNCHANGED callVars

\* The handler is not installed yet: the signal ends the son.
AlarmDefault(s) ==
  /\ armed[s] /\ phase[s] = "set_timeout"
  /\ SonEnds(s, "signaled")
  /\ UNCHANGED <<mainVars, callVars>>

\* The signal arrives inside malloc and the handler calls malloc too.
AlarmHangs(s) ==
  /\ HandlerMayHang
  /\ armed[s] /\ phase[s] \in Handling
  /\ Moves(s, phase[s], "hung")
  /\ armed' = [armed EXCEPT ![s] = FALSE]
  /\ UNCHANGED <<status, callVars>>

-----------------------------------------------------------------------------
(* A caller: sendCmd and getAnswer.                                        *)

Connect(c) ==
  /\ cpc[c] = "idle" /\ ListenerOpen /\ Len(queue) < Backlog
  /\ cpc' = [cpc EXCEPT ![c] = "connected"]
  /\ queue' = Append(queue, c)
  /\ UNCHANGED <<mainVars, sonVars, req, inbox, answers, ran>>

ConnectFails(c) ==
  /\ cpc[c] = "idle" /\ ~ListenerOpen
  /\ cpc' = [cpc EXCEPT ![c] = "failed"]
  /\ UNCHANGED <<mainVars, sonVars, queue, req, inbox, answers, ran>>

\* The send raises SIGPIPE when nobody holds the server's end.
SendCmd(c) ==
  /\ cpc[c] = "connected"
  /\ IF ServerEnd(c)
     THEN /\ cpc' = [cpc EXCEPT ![c] = "waiting"]
          /\ inbox' = [inbox EXCEPT ![c] = "request"]
     ELSE /\ cpc' = [cpc EXCEPT ![c] = "dead"]
          /\ UNCHANGED inbox
  /\ UNCHANGED <<mainVars, sonVars, queue, req, answers, ran>>

\* getAnswer reads one answer, the first; it succeeds when the status is OK and
\* the type is the one the caller asked for.
GetAnswer(c) ==
  /\ cpc[c] = "waiting" /\ answers[c] # << >>
  /\ LET a == Head(answers[c]) IN
       cpc' = [cpc EXCEPT ![c] =
                IF a.status = "OK" /\ a.typ = req[c].return_type
                THEN "succeeded" ELSE "failed"]
  /\ UNCHANGED <<mainVars, sonVars, queue, req, inbox, answers, ran>>

\* Nobody holds the server's end.  If the request was never read, recv fails
\* with ECONNRESET.  Otherwise recv returns 0, which getAnswer does not test,
\* and it decodes an answer whose length and bytes were never set.
GetEof(c) ==
  /\ cpc[c] = "waiting" /\ answers[c] = << >> /\ ~ServerEnd(c)
  /\ \E r \in IF inbox[c] = "request" THEN {"failed"}
              ELSE {"succeeded", "failed", "dead"} :
        cpc' = [cpc EXCEPT ![c] = r]
  /\ UNCHANGED <<mainVars, sonVars, queue, req, inbox, answers, ran>>

ClientDies(c) ==
  /\ c \in Mortal /\ ClientEnd(c)
  /\ cpc' = [cpc EXCEPT ![c] = "dead"]
  /\ UNCHANGED <<mainVars, sonVars, queue, req, inbox, answers, ran>>

-----------------------------------------------------------------------------
Acceptor == \/ Accept
            \/ \E s \in Sons : Fork(s)
            \/ ForkFails
            \/ AcceptorLock
            \/ KeepTrackOfClient
            \/ AcceptorUnlock

Tracker == \/ TrackerLock
           \/ Reap
           \/ RemoveExited
           \/ RemoveSignaled
           \/ Report
           \/ TrackerExit
           \/ TrackerUnlock

Exit == \/ \E t \in Threads : HandleKill(t)
        \/ \E f \in Functions : ClearMapper(f)
        \/ ExitMain

\* The steps of a son that its code takes without waiting for a caller, a
\* function or the clock.
SonStep(s) == \/ SetTimer(s)
              \/ InstallHandler(s)
              \/ ReadMsg(s)
              \/ ReadEof(s)
              \/ SearchFunction(s)
              \/ SearchCrashes(s)
              \/ VerificationFunction(s)
              \/ SendAnswer(s)
              \/ SendNull(s)
              \/ SendError(s)
              \/ SendErrorFails(s)
              \/ CloseClient(s)
              \/ ExitSon(s)
              \/ HandleInterrupt(s)

Execute(s) == \/ ExecuteReturns(s)
              \/ ExecuteNull(s)
              \/ ExecuteTraps(s)
              \/ ExecuteKills(s)

Timeout(s) == Alarm(s) \/ AlarmHangs(s)

Receive(c) == GetAnswer(c) \/ GetEof(c)

Caller(c) == \/ Connect(c)
             \/ ConnectFails(c)
             \/ SendCmd(c)
             \/ Receive(c)
             \/ ClientDies(c)

Next == \/ Acceptor
        \/ Tracker
        \/ Exit
        \/ Interrupt
        \/ \E s \in Sons : SonStep(s) \/ Execute(s) \/ Timeout(s) \/ AlarmDefault(s)
        \/ \E c \in Clients : Caller(c)

Spec == Init /\ [][Next]_vars

\* A thread or a process that can run does run; the timer expires; a caller
\* reads what is there.  pthread_mutex_lock is fair to the acceptor because the
\* tracker sleeps five seconds between two turns.  Nothing makes a registered
\* function end, a caller send, connect or die, or an operator press Ctrl-C.
Fairness ==
  /\ WF_vars(Acceptor) /\ SF_vars(AcceptorLock)
  /\ WF_vars(Tracker)
  /\ WF_vars(Exit)
  /\ \A s \in Sons : WF_vars(SonStep(s)) /\ WF_vars(Timeout(s))
  /\ \A c \in Clients : WF_vars(Receive(c))

FairSpec == Spec /\ Fairness

-----------------------------------------------------------------------------
(* Safety.                                                                 *)

MainTypeOK ==
  /\ server \in {"up", "down"}
  /\ dying \in Threads \cup {"nobody"}
  /\ killed \in BOOLEAN
  /\ mapper \subseteq Functions
  /\ mainfds \subseteq Clients

ThreadsTypeOK ==
  /\ mutex \in Threads \cup {"free"}
  /\ alive \in Seq(Record)
  /\ apc \in {"accept", "fork", "lock", "track", "unlock"}
  /\ aclient \in Clients \cup {None}
  /\ apc \in {"fork", "lock", "track"} => aclient \in Clients
  /\ ason \in Sons \cup {None}
  /\ apc \in {"lock", "track"} => ason \in Sons
  /\ tpc \in {"sleep", "scan", "remove", "report", "exit"}
  /\ p \in Nat \ {0}
  /\ tpc = "remove" => p <= Len(alive)
  /\ info \in Zombie \cup {"none"}
  /\ tclient \in Clients \cup {None}
  /\ tpc \in {"report", "exit"} => tclient \in Clients

SonsTypeOK ==
  /\ phase \in [Sons -> Phases]
  /\ who \in [Sons -> Clients \cup {None}]
  /\ \A s \in Sons : phase[s] # "none" => who[s] \in Clients
  /\ status \in [Sons -> Status]
  /\ armed \in [Sons -> BOOLEAN]
  /\ sonfds \in [Sons -> SUBSET Clients]
  /\ sonmap \in [Sons -> SUBSET Functions]
  /\ interrupted \subseteq Sons

CallsTypeOK ==
  /\ queue \in Seq(Clients)
  /\ cpc \in [Clients -> {"idle", "connected", "waiting", "succeeded",
                          "failed", "dead"}]
  /\ req \in [Clients -> Requests]
  /\ inbox \in [Clients -> {"empty", "request", "read"}]
  /\ answers \in [Clients -> Seq(Answer)]
  /\ ran \in [Clients -> Nat]

\* The types, and that the threads and the sons have the client, the son and
\* the record that their place needs.
TypeOK == MainTypeOK /\ ThreadsTypeOK /\ SonsTypeOK /\ CallsTypeOK

\* The sons the main process has forked and not reaped are exactly those in
\* processus_alive, the record the tracker is about to remove apart, and the one
\* the acceptor is about to record; no record names two sons or the wrong
\* client.  So waitpid never fails with ECHILD, whose branch of
\* check_client_track would free the record twice, and no son is forgotten.
\* While fork runs without the mutex, a pid may be both reaped and forked again.
TrackingExact ==
  server = "up" =>
    LET stale   == IF tpc = "remove" THEN {p} ELSE {}
        tracked == DOMAIN alive \ stale
        pending == IF apc \in {"lock", "track"} THEN {ason} ELSE {}
    IN /\ stale \subseteq DOMAIN alive
       /\ {s \in Sons : phase[s] # "none"} = {alive[i].son : i \in tracked} \cup pending
       /\ \A i \in tracked :
             /\ alive[i].son \notin pending
             /\ who[alive[i].son] = alive[i].client
             /\ \A j \in tracked : alive[i].son = alive[j].son => i = j
       /\ \A s \in pending : who[s] = aclient

\* processus_alive is touched by one thread at a time (the mutex of s_server.c),
\* also when one of them is stopped for good inside kill_handler.
ListExclusive ==
  /\ apc \in {"track", "unlock"} <=> mutex = "acceptor"
  /\ tpc # "sleep" <=> mutex = "tracker"

\* A caller that waits never reads the end of the file while the main process
\* is up: the main process keeps every client descriptor open, and no son
\* closes it for the others.  getAnswer, which does not test for the end of
\* file, depends on it.
EofOnlyAfterMainEnds ==
  \A c \in Clients : ClientEnd(c) /\ ~ServerEnd(c) => server = "down"

\* A second answer on a connection is the timeout's, and there is no third:
\* the frame that a caller reads first is never followed by a contradicting
\* verdict of send_answer, verification_function or the tracker.
SecondAnswerIsTimeout ==
  \A c \in Clients :
    /\ Len(answers[c]) <= 2
    /\ Len(answers[c]) = 2 => answers[c][2].status = "NO_ANSWER"

\* A function runs for legal calls only, whatever the son's copy of the mapper
\* was (search_function and verification_function before execute_function).
RanOnlyLegal == \A c \in Clients : ran[c] > 0 => Callable(req[c])

-----------------------------------------------------------------------------
(* The server implements RpcService.                                       *)

Service == INSTANCE RpcService WITH
  reply   <- [c \in Clients |->
                IF answers[c] = << >> THEN "none" ELSE Head(answers[c]).status],
  closing <- mapper # Functions

\* Every behaviour of the server, with all its processes, threads and signals,
\* is one that RpcService allows.
ImplementsService == Service!Spec

-----------------------------------------------------------------------------
(* Liveness.                                                               *)

\* A son ends: by itself, or by the timer of set_timeout.
SonsEnd == \A s \in Sons : Running(s) ~> ~Running(s)

\* The tracker holds the mutex while it waits for a son that has not finished;
\* still the acceptor, which needs it after every fork, gets it.
AcceptorGoesOn == apc = "lock" ~> apc # "lock"

\* The call c was accepted and nothing in the server will ever answer it: fork
\* failed, or its son exited without sending.
Silent(c) ==
  /\ c \in mainfds /\ answers[c] = << >>
  /\ ~(apc = "fork" /\ aclient = c)
  /\ \A s \in Sons : who[s] = c => phase[s] = "exited"
  /\ ~(tpc = "remove" /\ info = "signaled" /\ alive[p].client = c)
  /\ ~(tpc = "report" /\ tclient = c)

\* The call c waits for a descriptor that the main process will never free.
Starved(c) == c \in ToSet(queue) /\ Cardinality(mainfds) = MaxFds

\* A caller that has sent its request gets a result, or it is one of those that
\* the server leaves without an answer for one of the reasons above.
CallsAccountedFor ==
  \A c \in Clients :
    cpc[c] = "waiting" ~>
      cpc[c] \in {"succeeded", "failed", "dead"} \/ Silent(c) \/ Starved(c)

-----------------------------------------------------------------------------
(* What the repository says of the server, and the code does not do.       *)

\* check_client_track removes the sons that are not alive any more
\* (s_server.h); the server itself ends when it is told to (kill_handler), and
\* not because one son was ended by a signal.
MainEndsOnlyByKill ==
  [][server = "up" /\ server' = "down" => dying # "nobody"]_vars

\* external_call returns 0 only if the operation is successful (c_client.h):
\* the server answered OK.
SuccessMeansAnswered ==
  \A c \in Clients :
    cpc[c] = "succeeded" => answers[c] # << >> /\ Head(answers[c]).status = "OK"
=============================================================================

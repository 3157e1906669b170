------------------------ MODULE RpcServerSafetyProofs ------------------------
(***************************************************************************)
(* Proofs of the safety invariants of RpcServer.                           *)
(***************************************************************************)
EXTENDS RpcServerProofs

-----------------------------------------------------------------------------
(* What the steps of each process leave alone.                             *)

\* A son changes nothing of the main process but its pending signal.
LEMMA SonsLeaveMain ==
  ASSUME NEW s \in Sons,
         SonStep(s) \/ Execute(s) \/ Timeout(s) \/ AlarmDefault(s)
  PROVE  UNCHANGED <<server, dying, mapper, mainfds, threadVars>>
<1>1. CASE SonStep(s)
  BY <1>1 DEF SonStep, SetTimer, InstallHandler, ReadMsg, ReadEof, SearchFunction,
     SearchCrashes, VerificationFunction, SendAnswer, SendNull, SendError,
     SendErrorFails, CloseClient, ExitSon, HandleInterrupt, Sends, Rejects, Moves, mainVars, threadVars
<1>2. CASE Execute(s)
  BY <1>2 DEF Execute, ExecuteReturns, ExecuteNull, ExecuteTraps, ExecuteKills,
     Moves, mainVars, threadVars
<1>3. CASE Timeout(s) \/ AlarmDefault(s)
  BY <1>3 DEF Timeout, Alarm, AlarmHangs, AlarmDefault, Rejects, Moves, mainVars,
     threadVars
<1> QED BY <1>1, <1>2, <1>3

\* A caller changes neither the main process nor a son.
LEMMA CallersLeaveServer ==
  ASSUME NEW c \in Clients, Caller(c)
  PROVE  UNCHANGED <<mainVars, sonVars>>
BY DEF Caller, Connect, ConnectFails, SendCmd, Receive, GetAnswer, GetEof, ClientDies

\* An interrupt by the operator changes no thread, and nothing that a caller or
\* a connection knows.
LEMMA InterruptLeaves ==
  ASSUME Interrupt
  PROVE  UNCHANGED <<server, dying, mapper, mainfds, threadVars, phase, who, sonfds,
                     sonmap, callVars>>
BY DEF Interrupt, threadVars

\* The message of a caller never changes.
LEMMA RequestsStay == Next => req' = req
<1>1. Acceptor => req' = req
  BY DEF Acceptor, Accept, Fork, ForkFails, AcceptorLock, KeepTrackOfClient,
     AcceptorUnlock, callVars
<1>2. Tracker => req' = req
  BY DEF Tracker, TrackerLock, Reap, RemoveExited, RemoveSignaled, Report, TrackerExit,
     TrackerUnlock, callVars
<1>3. Exit \/ Interrupt => req' = req
  BY DEF Exit, HandleKill, ClearMapper, ExitMain, Interrupt, callVars
<1>4. ASSUME NEW s \in Sons PROVE SonStep(s) => req' = req
  BY DEF SonStep, SetTimer, InstallHandler, ReadMsg, ReadEof, SearchFunction,
     SearchCrashes, VerificationFunction, SendAnswer, SendNull, SendError,
     SendErrorFails, CloseClient, ExitSon, HandleInterrupt, Sends, callVars
<1>5. ASSUME NEW s \in Sons
      PROVE  Execute(s) \/ Timeout(s) \/ AlarmDefault(s) => req' = req
  BY DEF Execute, ExecuteReturns, ExecuteNull, ExecuteTraps, ExecuteKills, Executes,
     Timeout, Alarm, AlarmHangs, AlarmDefault, callVars
<1>6. ASSUME NEW c \in Clients PROVE Caller(c) => req' = req
  BY DEF Caller, Connect, ConnectFails, SendCmd, Receive, GetAnswer, GetEof, ClientDies
<1> QED BY <1>1, <1>2, <1>3, <1>4, <1>5, <1>6 DEF Next

-----------------------------------------------------------------------------
(* The mutex and the list.                                                 *)

\* The acceptor inserts a record and the tracker works on the list only while
\* they hold the mutex, in every interleaving, shutdown included.
THEOREM ListProtected == Spec => []ListExclusive
<1>1. Init => ListExclusive
  BY DEF Init, ListExclusive
<1>2. ListExclusive /\ [Next]_vars => ListExclusive'
  <2> SUFFICES ASSUME ListExclusive, [Next]_vars
               PROVE  ListExclusive'
    OBVIOUS
  <2>1. MainEnds => ListExclusive'
    BY DEF MainEnds, ListExclusive
  <2>2. UNCHANGED threadVars => ListExclusive'
    BY DEF ListExclusive, threadVars
  <2>3. CASE Acceptor
    BY <2>3 DEF Acceptor, Accept, Fork, ForkFails, AcceptorLock, KeepTrackOfClient,
       AcceptorUnlock, AcceptorAt, ListExclusive
  <2>4. CASE Tracker
    BY <2>1, <2>4 DEF Tracker, TrackerLock, Reap, RemoveExited, RemoveSignaled, Report,
       TrackerExit, TrackerUnlock, TrackerAt, ListExclusive
  <2>5. CASE Exit
    BY <2>1, <2>2, <2>5 DEF Exit, HandleKill, ClearMapper, ExitMain
  <2>6. CASE Interrupt
    BY <2>2, <2>6, InterruptLeaves
  <2>7. ASSUME NEW s \in Sons,
               SonStep(s) \/ Execute(s) \/ Timeout(s) \/ AlarmDefault(s)
        PROVE  ListExclusive'
    BY <2>2, <2>7, SonsLeaveMain
  <2>8. ASSUME NEW c \in Clients, Caller(c)
        PROVE  ListExclusive'
    BY <2>2, <2>8, CallersLeaveServer DEF mainVars
  <2>9. CASE UNCHANGED vars
    BY <2>2, <2>9 DEF vars, mainVars
  <2> QED BY <2>3, <2>4, <2>5, <2>6, <2>7, <2>8, <2>9 DEF Next
<1> QED BY <1>1, <1>2, PTL DEF Spec

-----------------------------------------------------------------------------
(* Connections.                                                            *)

\* While the main process is up it holds the server's end of every connection
\* that a caller has open, or the connection waits for accept.
Held ==
  server = "up" =>
    \A c \in Clients : ClientEnd(c) => c \in mainfds \cup ToSet(queue)

\* Taking the head of a queue, or appending to it, loses no element.
LEMMA HeadTail ==
  ASSUME NEW S, NEW q \in Seq(S), q # << >>
  PROVE  ToSet(q) = {Head(q)} \cup ToSet(Tail(q))
<1>1. /\ Len(q) \in Nat /\ Len(q) > 0 /\ DOMAIN q = 1..Len(q)
      /\ Tail(q) \in Seq(S) /\ Len(Tail(q)) = Len(q) - 1 /\ Head(q) = q[1]
      /\ \A i \in 1..Len(Tail(q)) : Tail(q)[i] = q[i + 1]
  BY HeadTailProperties, LenProperties, EmptySeq
<1>2. DOMAIN Tail(q) = 1..(Len(q) - 1)
  BY <1>1, LenProperties
<1>3. ASSUME NEW i \in DOMAIN q
      PROVE  q[i] \in {Head(q)} \cup ToSet(Tail(q))
  <2>1. CASE i = 1
    BY <1>1, <2>1
  <2>2. CASE i # 1
    <3>1. i - 1 \in DOMAIN Tail(q) /\ Tail(q)[i - 1] = q[i]
      BY <1>1, <1>2, <2>2
    <3> QED BY <3>1 DEF ToSet
  <2> QED BY <2>1, <2>2
<1>4. ASSUME NEW i \in DOMAIN Tail(q)
      PROVE  Tail(q)[i] \in ToSet(q)
  <2>1. i + 1 \in DOMAIN q /\ Tail(q)[i] = q[i + 1]
    BY <1>1, <1>2
  <2> QED BY <2>1 DEF ToSet
<1>5. Head(q) \in ToSet(q)
  BY <1>1 DEF ToSet
<1> QED BY <1>3, <1>4, <1>5 DEF ToSet

LEMMA AppendKeeps ==
  ASSUME NEW S, NEW q \in Seq(S), NEW e \in S
  PROVE  ToSet(Append(q, e)) = ToSet(q) \cup {e}
<1>1. /\ Append(q, e) \in Seq(S) /\ Len(Append(q, e)) = Len(q) + 1
      /\ Append(q, e)[Len(q) + 1] = e
      /\ \A i \in 1..Len(q) : Append(q, e)[i] = q[i]
  BY AppendProperties
<1>2. /\ DOMAIN q = 1..Len(q) /\ Len(q) \in Nat
      /\ DOMAIN Append(q, e) = 1..(Len(q) + 1)
  BY <1>1, LenProperties
<1>3. ASSUME NEW x
      PROVE  x \in ToSet(Append(q, e)) <=> x \in ToSet(q) \cup {e}
  <2>1. ASSUME NEW i \in DOMAIN q, x = q[i] PROVE x \in ToSet(Append(q, e))
    BY <1>1, <1>2, <2>1 DEF ToSet
  <2>2. e \in ToSet(Append(q, e))
    BY <1>1, <1>2 DEF ToSet
  <2>3. ASSUME NEW i \in DOMAIN Append(q, e), x = Append(q, e)[i]
        PROVE  x \in ToSet(q) \cup {e}
    BY <1>1, <1>2, <2>3 DEF ToSet
  <2> QED BY <2>1, <2>2, <2>3 DEF ToSet
<1> QED BY <1>3

\* Neither a son nor the main process touches what the callers do, and only
\* accept takes from the queue.
LEMMA ServerLeavesCallers ==
  /\ Acceptor => cpc' = cpc /\ (~Accept => queue' = queue)
  /\ Tracker \/ Exit \/ Interrupt => UNCHANGED <<cpc, queue>>
  /\ \A s \in Sons : SonStep(s) \/ Execute(s) \/ Timeout(s) \/ AlarmDefault(s)
                       => UNCHANGED <<cpc, queue>>
<1>1. Acceptor => cpc' = cpc /\ (~Accept => queue' = queue)
  BY DEF Acceptor, Accept, Fork, ForkFails, AcceptorLock, KeepTrackOfClient,
     AcceptorUnlock, callVars
<1>2. Tracker \/ Exit \/ Interrupt => UNCHANGED <<cpc, queue>>
  BY DEF Tracker, TrackerLock, Reap, RemoveExited, RemoveSignaled, Report, TrackerExit,
     TrackerUnlock, Exit, HandleKill, ClearMapper, ExitMain, Interrupt, callVars
<1>3. ASSUME NEW s \in Sons PROVE SonStep(s) => UNCHANGED <<cpc, queue>>
  BY DEF SonStep, SetTimer, InstallHandler, ReadMsg, ReadEof, SearchFunction,
     SearchCrashes, VerificationFunction, SendAnswer, SendNull, SendError,
     SendErrorFails, CloseClient, ExitSon, HandleInterrupt, Sends, callVars
<1>4. ASSUME NEW s \in Sons
      PROVE  Execute(s) \/ Timeout(s) \/ AlarmDefault(s) => UNCHANGED <<cpc, queue>>
  BY DEF Execute, ExecuteReturns, ExecuteNull, ExecuteTraps, ExecuteKills, Executes,
     Timeout, Alarm, AlarmHangs, AlarmDefault, callVars
<1> QED BY <1>1, <1>2, <1>3, <1>4

LEMMA HeldNext ==
  ASSUME TypeOK, Held, [Next]_vars
  PROVE  Held'
<1>1. ASSUME UNCHANGED <<cpc, queue>>, mainfds' = mainfds, server' = server
      PROVE  Held'
  BY <1>1 DEF Held, ClientEnd
<1>2. MainEnds => Held'
  BY DEF MainEnds, Held
<1>3. CASE Accept
  <2>1. queue \in Seq(Clients)
    BY DEF TypeOK, CallsTypeOK
  <2>2. ToSet(queue) = {Head(queue)} \cup ToSet(queue')
    BY <1>3, <2>1, HeadTail DEF Accept
  <2>3. mainfds' = mainfds \cup {Head(queue)} /\ server' = server /\ cpc' = cpc
    BY <1>3 DEF Accept
  <2> QED BY <2>2, <2>3 DEF Held, ClientEnd
<1>4. CASE Acceptor /\ ~Accept
  <2>1. mainfds' = mainfds /\ server' = server
    BY <1>4 DEF Acceptor, Fork, ForkFails, AcceptorLock, KeepTrackOfClient,
       AcceptorUnlock
  <2> QED BY <1>1, <1>4, <2>1, ServerLeavesCallers
<1>5. CASE Tracker \/ Exit \/ Interrupt
  <2>1. MainEnds \/ (mainfds' = mainfds /\ server' = server)
    BY <1>5 DEF Tracker, TrackerLock, Reap, RemoveExited, RemoveSignaled, Report,
       TrackerExit, TrackerUnlock, Exit, HandleKill, ClearMapper, ExitMain, Interrupt
  <2> QED BY <1>1, <1>2, <1>5, <2>1, ServerLeavesCallers
<1>6. ASSUME NEW s \in Sons,
             SonStep(s) \/ Execute(s) \/ Timeout(s) \/ AlarmDefault(s)
      PROVE  Held'
  BY <1>1, <1>6, SonsLeaveMain, ServerLeavesCallers
<1>7. ASSUME NEW c \in Clients, Connect(c)
      PROVE  Held'
  <2>1. queue \in Seq(Clients) /\ cpc \in [Clients -> {"idle", "connected", "waiting",
                                             "succeeded", "failed", "dead"}]
    BY DEF TypeOK, CallsTypeOK
  <2>2. ToSet(queue') = ToSet(queue) \cup {c}
    BY <1>7, <2>1, AppendKeeps DEF Connect
  <2>3. /\ mainfds' = mainfds /\ server' = server
        /\ cpc' = [cpc EXCEPT ![c] = "connected"]
    BY <1>7 DEF Connect, mainVars
  <2> QED BY <2>1, <2>2, <2>3 DEF Held, ClientEnd
<1>8. ASSUME NEW c \in Clients, Caller(c), ~Connect(c)
      PROVE  Held'
  <2>1. /\ mainfds' = mainfds /\ server' = server /\ queue' = queue
        /\ \A d \in Clients : ClientEnd(d)' => ClientEnd(d)
    BY <1>8 DEF Caller, ConnectFails, SendCmd, Receive, GetAnswer, GetEof, ClientDies,
       mainVars, ClientEnd, TypeOK, CallsTypeOK
  <2> QED BY <2>1 DEF Held
<1>9. CASE UNCHANGED vars
  BY <1>1, <1>9 DEF vars, mainVars, callVars
<1> QED BY <1>3, <1>4, <1>5, <1>6, <1>7, <1>8, <1>9 DEF Next

\* A caller never meets the end of the file on a connection while the main
\* process is up, however its son ended.
THEOREM NoEofWhileUp == Spec => []EofOnlyAfterMainEnds
<1>1. Init => Held
  BY DEF Init, Held, ClientEnd
<1>2. TypeOK /\ Held /\ [Next]_vars => Held'
  BY HeldNext
<1>3. TypeOK /\ Held => EofOnlyAfterMainEnds
  BY DEF TypeOK, MainTypeOK, Held, EofOnlyAfterMainEnds, ServerEnd, ListenerOpen
<1> QED BY <1>1, <1>2, <1>3, TypeCorrect, PTL DEF Spec

-----------------------------------------------------------------------------
(* Legal calls.                                                            *)

\* The places of a son between the read of its message and the end of the
\* function, and what is known of the message there.
Judging == {"search_function", "verification_function", "execute_function"}

Judged ==
  \A s \in Sons : LET m == req[who[s]] IN
    /\ phase[s] \in Judging => m.decodes
    /\ phase[s] \in Judging \ {"search_function"} => m.command \in Functions
    /\ phase[s] = "execute_function" => Callable(m)

\* A message that passes every check against the signature of its command is
\* legal.
LEMMA VerifiedIsCallable ==
  ASSUME NEW m \in Requests, m.decodes, m.command \in Functions,
         Verification(Signature[m.command], m) = "OK"
  PROVE  Callable(m)
<1> DEFINE f == Signature[m.command]
<1>1. f \in SignatureType /\ f.argv \in Seq(Types) /\ m.argv \in Seq(Types)
  BY ProtocolAssumption DEF SignatureType
<1>2. /\ Len(f.argv) = Len(m.argv)
      /\ \A i \in DOMAIN f.argv : f.argv[i] = m.argv[i]
      /\ f.return_type = m.return_type
  BY DEF Verification
<1>3. f.argv = m.argv
  BY <1>1, <1>2, SeqEqual, LenProperties
<1>4. f = [return_type |-> f.return_type, argv |-> f.argv]
  BY <1>1 DEF SignatureType
<1> HIDE DEF f
<1>5. f = [return_type |-> m.return_type, argv |-> m.argv]
  BY <1>2, <1>3, <1>4
<1> QED BY <1>5 DEF Callable, f

\* A step that brings no son to one of those places keeps what is known.
LEMMA JudgedStays ==
  ASSUME Judged, req' = req,
         \A s \in Sons : phase'[s] \in Judging => phase'[s] = phase[s] /\ who'[s] = who[s]
  PROVE  Judged'
BY DEF Judged, Judging, Callable

\* The end of a son, or of the main process, brings no son there.
LEMMA EndsAreQuiet ==
  ASSUME SonsTypeOK
  PROVE  /\ MainEnds => \A s \in Sons : phase'[s] \in Judging =>
                           phase'[s] = phase[s] /\ who'[s] = who[s]
         /\ \A t \in Sons, how \in Zombie : SonEnds(t, how) =>
              \A s \in Sons : phase'[s] \in Judging =>
                           phase'[s] = phase[s] /\ who'[s] = who[s]
<1>1. MainEnds => \A s \in Sons : phase'[s] \in Judging =>
                     phase'[s] = phase[s] /\ who'[s] = who[s]
  BY DEF MainEnds, SonsTypeOK, Judging, Zombie
<1>2. ASSUME NEW t \in Sons, NEW how \in Zombie, SonEnds(t, how), NEW s \in Sons,
             phase'[s] \in Judging
      PROVE  phase'[s] = phase[s] /\ who'[s] = who[s]
  BY <1>2 DEF SonEnds, SonsTypeOK, Judging, Zombie
<1> QED BY <1>1, <1>2

\* So do the moves of a son to the other places.
LEMMA MovesAreQuiet ==
  ASSUME SonsTypeOK, NEW t \in Sons, NEW pc, NEW next, next \notin Judging,
         Moves(t, pc, next)
  PROVE  \A s \in Sons : phase'[s] \in Judging => phase'[s] = phase[s] /\ who'[s] = who[s]
BY DEF Moves, SonsTypeOK

LEMMA JudgedSonStep ==
  ASSUME TypeOK, Judged, req' = req, NEW t \in Sons, SonStep(t)
  PROVE  Judged'
<1> SonsTypeOK /\ \A s \in Sons : phase[s] # "none" => req[who[s]] \in Requests
  BY DEF TypeOK, SonsTypeOK, CallsTypeOK
<1>1. CASE SetTimer(t) \/ InstallHandler(t)
  BY <1>1, MovesAreQuiet, JudgedStays DEF SetTimer, InstallHandler, Judging
<1>2. CASE ReadMsg(t)
  <2>1. CASE req[who[t]].decodes /\ Moves(t, "read_msg", "search_function")
    BY <2>1 DEF Moves, Judged, Judging, SonsTypeOK
  <2>2. CASE \E how \in Zombie : SonEnds(t, how)
    BY <2>2, EndsAreQuiet, JudgedStays
  <2> QED BY <1>2, <2>1, <2>2 DEF ReadMsg
<1>3. CASE ReadEof(t)
  BY <1>3, EndsAreQuiet, JudgedStays DEF ReadEof
<1>4. CASE SearchFunction(t)
  <2>1. CASE req[who[t]].command \in sonmap[t]
    <3>1. req[who[t]].command \in Functions
      BY <2>1 DEF SonsTypeOK
    <3> QED BY <1>4, <2>1, <3>1 DEF SearchFunction, Moves, Judged, Judging, SonsTypeOK
  <2>2. CASE req[who[t]].command \notin sonmap[t]
    BY <1>4, <2>2, MovesAreQuiet, JudgedStays DEF SearchFunction, Rejects, Judging
  <2> QED BY <2>1, <2>2
<1>5. CASE VerificationFunction(t)
  <2> DEFINE m == req[who[t]]
             verdict == Verification(Signature[m.command], m)
  <2>1. CASE verdict = "OK"
    <3>1. m.decodes /\ m.command \in Functions /\ m \in Requests
      BY <1>5 DEF VerificationFunction, Judged, Judging
    <3>2. Callable(m)
      BY <2>1, <3>1, VerifiedIsCallable
    <3>3. Moves(t, "verification_function", "execute_function")
      BY <1>5, <2>1 DEF VerificationFunction
    <3> QED BY <3>1, <3>2, <3>3 DEF Moves, Judged, Judging, SonsTypeOK
  <2>2. CASE verdict # "OK"
    BY <1>5, <2>2, MovesAreQuiet, JudgedStays
       DEF VerificationFunction, Rejects, Judging
  <2> QED BY <2>1, <2>2
<1>6. CASE SendAnswer(t) \/ SendError(t)
  <2>1. \/ \E pc : Moves(t, pc, "exit") \/ Moves(t, pc, "close")
        \/ SonEnds(t, "signaled")
    BY <1>6 DEF SendAnswer, SendError, Sends
  <2> QED BY <2>1, MovesAreQuiet, EndsAreQuiet, JudgedStays DEF Judging, Zombie
<1>7. CASE SendErrorFails(t) \/ ExitSon(t) \/ HandleInterrupt(t)
  BY <1>7, EndsAreQuiet, JudgedStays
     DEF SendErrorFails, ExitSon, HandleInterrupt, Zombie
<1>8. CASE CloseClient(t)
  BY <1>8, JudgedStays DEF CloseClient, SonsTypeOK, Judging
<1>9. CASE SearchCrashes(t) \/ SendNull(t)
  BY <1>9, EndsAreQuiet, JudgedStays DEF SearchCrashes, SendNull, Zombie
<1> QED BY <1>1, <1>2, <1>3, <1>4, <1>5, <1>6, <1>7, <1>8, <1>9 DEF SonStep

LEMMA JudgedNext ==
  ASSUME TypeOK, Judged, [Next]_vars
  PROVE  Judged'
<1> SonsTypeOK
  BY DEF TypeOK
<1>1. req' = req
  BY RequestsStay DEF vars, callVars
<1>2. CASE Acceptor
  <2>1. \A s \in Sons : phase'[s] \in Judging => phase'[s] = phase[s] /\ who'[s] = who[s]
    BY <1>2 DEF Acceptor, Accept, Fork, ForkFails, AcceptorLock, KeepTrackOfClient,
       AcceptorUnlock, sonVars, SonsTypeOK, Judging
  <2> QED BY <1>1, <2>1, JudgedStays
<1>3. CASE Tracker
  <2>1. CASE Reap
    <3>1. \A s \in Sons : phase'[s] \in Judging =>
             phase'[s] = phase[s] /\ who'[s] = who[s]
      BY <2>1 DEF Reap, SonsTypeOK, Judging
    <3> QED BY <1>1, <3>1, JudgedStays
  <2>2. CASE ~Reap
    <3>1. MainEnds \/ UNCHANGED sonVars
      BY <1>3, <2>2 DEF Tracker, TrackerLock, RemoveExited, RemoveSignaled, Report,
         TrackerExit, TrackerUnlock
    <3> QED BY <1>1, <3>1, EndsAreQuiet, JudgedStays DEF sonVars
  <2> QED BY <2>1, <2>2
<1>4. CASE Exit \/ Interrupt
  <2>1. MainEnds \/ UNCHANGED <<phase, who>>
    BY <1>4 DEF Exit, HandleKill, ClearMapper, ExitMain, Interrupt, sonVars
  <2> QED BY <1>1, <2>1, EndsAreQuiet, JudgedStays
<1>5. ASSUME NEW t \in Sons, SonStep(t) PROVE Judged'
  BY <1>1, <1>5, JudgedSonStep
<1>6. ASSUME NEW t \in Sons, Execute(t) PROVE Judged'
  <2>1. CASE ExecuteReturns(t) \/ ExecuteNull(t)
    BY <1>1, <2>1, MovesAreQuiet, JudgedStays DEF ExecuteReturns, ExecuteNull, Judging
  <2>2. CASE ExecuteTraps(t)
    BY <1>1, <2>2, EndsAreQuiet, JudgedStays DEF ExecuteTraps, Zombie
  <2>3. CASE ExecuteKills(t)
    BY <1>1, <2>3, JudgedStays DEF ExecuteKills, SonsTypeOK, Judging
  <2> QED BY <1>6, <2>1, <2>2, <2>3 DEF Execute
<1>7. ASSUME NEW t \in Sons, Timeout(t) \/ AlarmDefault(t) PROVE Judged'
  <2>1. CASE Alarm(t) \/ AlarmHangs(t)
    BY <1>1, <2>1, MovesAreQuiet, JudgedStays DEF Alarm, AlarmHangs, Rejects, Judging
  <2>2. CASE AlarmDefault(t)
    BY <1>1, <2>2, EndsAreQuiet, JudgedStays DEF AlarmDefault, Zombie
  <2> QED BY <1>7, <2>1, <2>2 DEF Timeout
<1>8. ASSUME NEW c \in Clients, Caller(c) PROVE Judged'
  BY <1>1, <1>8, CallersLeaveServer, JudgedStays DEF sonVars
<1>9. CASE UNCHANGED vars
  BY <1>1, <1>9, JudgedStays DEF vars, sonVars
<1> QED BY <1>2, <1>3, <1>4, <1>5, <1>6, <1>7, <1>8, <1>9 DEF Next

\* Only the end of a function counts as a run.
LEMMA RanByExecute ==
  ASSUME TypeOK, [Next]_vars
  PROVE  \/ ran' = ran
         \/ \E s \in Sons : /\ phase[s] = "execute_function"
                            /\ ran' = [ran EXCEPT ![who[s]] = @ + 1]
<1>1. Acceptor \/ Tracker \/ Exit \/ Interrupt => ran' = ran
  BY DEF Acceptor, Accept, Fork, ForkFails, AcceptorLock, KeepTrackOfClient,
     AcceptorUnlock, Tracker, TrackerLock, Reap, RemoveExited, RemoveSignaled, Report,
     TrackerExit, TrackerUnlock, Exit, HandleKill, ClearMapper, ExitMain, Interrupt,
     callVars
<1>2. ASSUME NEW s \in Sons PROVE SonStep(s) => ran' = ran
  BY DEF SonStep, SetTimer, InstallHandler, ReadMsg, ReadEof, SearchFunction,
     SearchCrashes, VerificationFunction, SendAnswer, SendNull, SendError,
     SendErrorFails, CloseClient, ExitSon, HandleInterrupt, Sends, callVars
<1>3. ASSUME NEW s \in Sons
      PROVE  Execute(s) => /\ phase[s] = "execute_function"
                           /\ ran' = [ran EXCEPT ![who[s]] = @ + 1]
  BY DEF Execute, ExecuteReturns, ExecuteNull, ExecuteTraps, ExecuteKills, Executes
<1>4. ASSUME NEW s \in Sons PROVE Timeout(s) \/ AlarmDefault(s) => ran' = ran
  BY DEF Timeout, Alarm, AlarmHangs, AlarmDefault, callVars
<1>5. ASSUME NEW c \in Clients PROVE Caller(c) => ran' = ran
  BY DEF Caller, Connect, ConnectFails, SendCmd, Receive, GetAnswer, GetEof, ClientDies
<1>6. UNCHANGED vars => ran' = ran
  BY DEF vars, callVars
<1> QED BY <1>1, <1>2, <1>3, <1>4, <1>5, <1>6 DEF Next

\* No function of the server is ever called with other arguments or another
\* result than it was registered with.
THEOREM LegalRuns == Spec => []RanOnlyLegal
<1>1. Init => Judged /\ RanOnlyLegal
  BY DEF Init, Judged, Judging, RanOnlyLegal
<1>2. TypeOK /\ Judged /\ [Next]_vars => Judged'
  BY JudgedNext
<1>3. TypeOK /\ Judged /\ RanOnlyLegal /\ [Next]_vars => RanOnlyLegal'
  <2> SUFFICES ASSUME TypeOK, Judged, RanOnlyLegal, [Next]_vars
               PROVE  RanOnlyLegal'
    OBVIOUS
  <2>1. req' = req /\ ran \in [Clients -> Nat]
    BY RequestsStay DEF vars, callVars, TypeOK, CallsTypeOK
  <2>2. CASE ran' = ran
    BY <2>1, <2>2 DEF RanOnlyLegal, Callable
  <2>3. ASSUME NEW s \in Sons, phase[s] = "execute_function",
               ran' = [ran EXCEPT ![who[s]] = @ + 1]
        PROVE  RanOnlyLegal'
    <3>1. Callable(req[who[s]])
      BY <2>3 DEF Judged
    <3>2. \A c \in Clients : ran'[c] > 0 => ran[c] > 0 \/ c = who[s]
      BY <2>1, <2>3
    <3> QED BY <2>1, <3>1, <3>2 DEF RanOnlyLegal, Callable
  <2> QED BY <2>2, <2>3, RanByExecute
<1> QED BY <1>1, <1>2, <1>3, TypeCorrect, PTL DEF Spec

-----------------------------------------------------------------------------
(* TrackingExact, said of one son or one record at a time.                 *)

Stale   == IF tpc = "remove" THEN {p} ELSE {}
Tracked == DOMAIN alive \ Stale
Pending == IF apc \in {"lock", "track"} THEN {ason} ELSE {}

\* A record that is not about to be removed names a son that exists, its client,
\* and no son that another record or the acceptor has.
RecordsTrue ==
  \A i \in Tracked :
    /\ phase[alive[i].son] # "none"
    /\ who[alive[i].son] = alive[i].client
    /\ alive[i].son \notin Pending
    /\ \A j \in Tracked : alive[i].son = alive[j].son => i = j

\* The son in the acceptor's hands exists and serves the client it has.
PendingTrue == \A s \in Pending : phase[s] # "none" /\ who[s] = aclient

\* A son that exists is in the list or in the acceptor's hands.
NoneForgotten ==
  \A s \in Sons : phase[s] # "none" =>
    s \in Pending \/ \E i \in Tracked : alive[i].son = s

Tracking == server = "up" => RecordsTrue /\ PendingTrue /\ NoneForgotten

\* The elements of the list are records.
LEMMA AliveRecords ==
  ASSUME TypeOK
  PROVE  /\ alive \in Seq(Record) /\ DOMAIN alive = 1..Len(alive) /\ Len(alive) \in Nat
         /\ \A i \in DOMAIN alive : alive[i].son \in Sons /\ alive[i].client \in Clients
<1>1. /\ alive \in Seq(Record) /\ DOMAIN alive = 1..Len(alive) /\ Len(alive) \in Nat
      /\ \A i \in DOMAIN alive : alive[i] \in Record
  BY LenProperties, ElementOfSeq DEF TypeOK, ThreadsTypeOK
<1> QED BY <1>1 DEF Record

LEMMA TrackingSuffices ==
  ASSUME TypeOK, Tracking
  PROVE  TrackingExact
<1> SUFFICES ASSUME server = "up"
             PROVE  TrackingExact
  BY DEF TrackingExact
<1>1. /\ DOMAIN alive = 1..Len(alive) /\ Len(alive) \in Nat
      /\ \A i \in DOMAIN alive : alive[i].son \in Sons
  BY AliveRecords
<1>2. RecordsTrue /\ PendingTrue /\ NoneForgotten
  BY DEF Tracking
<1>3. Stale \subseteq DOMAIN alive
  BY <1>1 DEF Stale, TypeOK, ThreadsTypeOK
<1>4. Pending \subseteq Sons
  BY DEF Pending, TypeOK, ThreadsTypeOK
<1>5. {s \in Sons : phase[s] # "none"} = {alive[i].son : i \in Tracked} \cup Pending
  <2>1. ASSUME NEW s \in Sons, phase[s] # "none"
        PROVE  s \in {alive[i].son : i \in Tracked} \cup Pending
    BY <1>2, <2>1 DEF NoneForgotten
  <2>2. ASSUME NEW i \in Tracked
        PROVE  alive[i].son \in Sons /\ phase[alive[i].son] # "none"
    BY <1>1, <1>2 DEF RecordsTrue, Tracked
  <2>3. \A s \in Pending : s \in Sons /\ phase[s] # "none"
    BY <1>2, <1>4 DEF PendingTrue
  <2> QED BY <2>1, <2>2, <2>3
<1> QED BY <1>2, <1>3, <1>5
        DEF TrackingExact, RecordsTrue, PendingTrue, Stale, Tracked, Pending

-----------------------------------------------------------------------------
(* What the steps do to the list and to the sons.                          *)

\* What the steps of one son may do to the existence of the sons and to their
\* clients.
SonsKept ==
  \A s \in Sons :
    /\ phase'[s] # "none" => phase[s] # "none" /\ who'[s] = who[s]
    /\ server = "up" /\ phase[s] # "none" => phase'[s] # "none"

\* They make no son and change no client, and while the main process is up they
\* do not unmake one either: what ends is a zombie.
LEMMA SonsRemain ==
  ASSUME SonsTypeOK, NEW t \in Sons,
         SonStep(t) \/ Execute(t) \/ Timeout(t) \/ AlarmDefault(t)
  PROVE  SonsKept
<1>1. ASSUME NEW how \in Zombie, phase[t] # "none", SonEnds(t, how)
      PROVE  SonsKept
  BY <1>1 DEF SonsKept, SonEnds, SonsTypeOK, Zombie
<1>2. ASSUME NEW pc, pc # "none", NEW next, next # "none", Moves(t, pc, next)
      PROVE  SonsKept
  BY <1>2 DEF SonsKept, Moves, SonsTypeOK
<1>3. CASE SonStep(t)
  <2>1. \/ \E pc, next : pc # "none" /\ next # "none" /\ Moves(t, pc, next)
        \/ phase[t] # "none" /\ \E how \in Zombie : SonEnds(t, how)
        \/ CloseClient(t)
    <3>1. SetTimer(t) \/ InstallHandler(t) \/ SearchFunction(t)
            \/ VerificationFunction(t) =>
              \E pc, next : pc # "none" /\ next # "none" /\ Moves(t, pc, next)
      BY Zenon DEF SetTimer, InstallHandler, SearchFunction, VerificationFunction, Rejects
    <3>2. ReadMsg(t) =>
            \/ \E pc, next : pc # "none" /\ next # "none" /\ Moves(t, pc, next)
            \/ phase[t] # "none" /\ \E how \in Zombie : SonEnds(t, how)
      BY Zenon DEF ReadMsg
    <3>3. SendAnswer(t) \/ SendError(t) =>
            \/ \E pc, next : pc # "none" /\ next # "none" /\ Moves(t, pc, next)
            \/ phase[t] # "none" /\ \E how \in Zombie : SonEnds(t, how)
      BY DEF SendAnswer, SendError, Sends, Zombie
    <3>4. ReadEof(t) \/ SendErrorFails(t) \/ ExitSon(t) \/ HandleInterrupt(t) =>
            phase[t] # "none" /\ \E how \in Zombie : SonEnds(t, how)
      BY DEF ReadEof, SendErrorFails, ExitSon, HandleInterrupt, Zombie, Working
    <3>5. SearchCrashes(t) \/ SendNull(t) =>
            phase[t] # "none" /\ \E how \in Zombie : SonEnds(t, how)
      BY DEF SearchCrashes, SendNull, Zombie
    <3> QED BY <1>3, <3>1, <3>2, <3>3, <3>4, <3>5 DEF SonStep
  <2>2. CloseClient(t) => SonsKept
    BY DEF SonsKept, CloseClient, SonsTypeOK
  <2> QED BY <1>1, <1>2, <2>1, <2>2
<1>4. CASE Execute(t)
  <2>1. CASE ExecuteReturns(t) \/ ExecuteNull(t)
    BY <1>2, <2>1 DEF ExecuteReturns, ExecuteNull
  <2>2. CASE ExecuteTraps(t)
    <3>1. phase[t] # "none" /\ \E how \in Zombie : SonEnds(t, how)
      BY <2>2 DEF ExecuteTraps, Executes, Zombie
    <3> QED BY <1>1, <3>1
  <2>3. CASE ExecuteKills(t)
    BY <2>3 DEF SonsKept, ExecuteKills, Executes, SonsTypeOK
  <2> QED BY <1>4, <2>1, <2>2, <2>3 DEF Execute
<1>5. CASE Timeout(t) \/ AlarmDefault(t)
  <2>1. CASE Alarm(t) \/ AlarmHangs(t)
    <3>1. phase[t] # "none"
      BY <2>1 DEF Alarm, AlarmHangs, Handling, Working
    <3> QED BY <1>2, <2>1, <3>1 DEF Alarm, AlarmHangs, Rejects
  <2>2. CASE AlarmDefault(t)
    <3>1. phase[t] # "none" /\ \E how \in Zombie : SonEnds(t, how)
      BY <2>2 DEF AlarmDefault, Zombie
    <3> QED BY <1>1, <3>1
  <2> QED BY <1>5, <2>1, <2>2 DEF Timeout
<1> QED BY <1>3, <1>4, <1>5

\* Tracking depends on little: on the list, on the locals of the two threads, and
\* on which sons exist for whom.
LEMMA TrackingStays ==
  ASSUME TypeOK, Tracking,
         server' = "up" =>
           /\ server = "up"
           /\ UNCHANGED <<alive, aclient, ason, tpc, p>>
           /\ Pending' = Pending
           /\ SonsKept
  PROVE  Tracking'
<1> SUFFICES ASSUME server' = "up"
             PROVE  (RecordsTrue /\ PendingTrue /\ NoneForgotten)'
  BY DEF Tracking
<1>1. /\ RecordsTrue /\ PendingTrue /\ NoneForgotten
      /\ UNCHANGED <<alive, aclient, Pending, Tracked>>
      /\ \A s \in Sons : phase[s] # "none" => phase'[s] # "none" /\ who'[s] = who[s]
      /\ \A s \in Sons : phase'[s] # "none" => phase[s] # "none"
  BY DEF Tracking, Tracked, Stale, SonsKept
<1>2. \A i \in Tracked : alive[i].son \in Sons
  BY AliveRecords DEF Tracked
<1>3. \A s \in Pending : s \in Sons
  BY DEF Pending, TypeOK, ThreadsTypeOK
<1>4. RecordsTrue'
  BY <1>1, <1>2 DEF RecordsTrue
<1>5. PendingTrue'
  BY <1>1, <1>3 DEF PendingTrue
<1>6. NoneForgotten'
  BY <1>1 DEF NoneForgotten
<1> QED BY <1>4, <1>5, <1>6

\* The acceptor: fork takes a pid that no record has; the insertion happens
\* while the tracker is not at the list.
LEMMA TrackingAcceptor ==
  ASSUME TypeOK, ListExclusive, Tracking, Acceptor
  PROVE  Tracking'
<1>1. server = "up" /\ server' = server /\ tpc' = tpc /\ p' = p
  BY DEF Acceptor, Accept, Fork, ForkFails, AcceptorLock, KeepTrackOfClient,
     AcceptorUnlock, AcceptorAt
<1>2. RecordsTrue /\ PendingTrue /\ NoneForgotten
  BY <1>1 DEF Tracking
<1>3. /\ alive \in Seq(Record) /\ DOMAIN alive = 1..Len(alive) /\ Len(alive) \in Nat
      /\ \A i \in DOMAIN alive : alive[i].son \in Sons
      /\ aclient \in Clients \cup {None}
  BY AliveRecords DEF TypeOK, ThreadsTypeOK
<1>4. CASE Accept \/ ForkFails
  <2>1. /\ Pending = {} /\ Pending' = {} /\ alive' = alive
        /\ UNCHANGED <<phase, who, Tracked>>
    BY <1>4, <1>1 DEF Accept, ForkFails, AcceptorAt, Pending, Tracked, Stale, sonVars
  <2>2. RecordsTrue' /\ PendingTrue' /\ NoneForgotten'
    BY <1>2, <2>1 DEF RecordsTrue, PendingTrue, NoneForgotten
  <2> QED BY <2>2 DEF Tracking
<1>5. ASSUME NEW s \in Sons, Fork(s)
      PROVE  Tracking'
  <2>1. /\ Pending = {} /\ Pending' = {s} /\ alive' = alive /\ Tracked' = Tracked
        /\ phase[s] = "none" /\ phase' = [phase EXCEPT ![s] = "gestion_client"]
        /\ who' = [who EXCEPT ![s] = aclient] /\ aclient' = aclient
    BY <1>5, <1>1 DEF Fork, AcceptorAt, Pending, Tracked, Stale
  <2>2. \A i \in Tracked : alive[i].son \in Sons \ {s}
    BY <1>2, <1>3, <2>1 DEF RecordsTrue, Tracked
  <2>3. RecordsTrue'
    BY <1>2, <2>1, <2>2 DEF RecordsTrue, TypeOK, SonsTypeOK
  <2>4. PendingTrue'
    BY <2>1 DEF PendingTrue, TypeOK, SonsTypeOK
  <2>5. NoneForgotten'
    BY <1>2, <2>1 DEF NoneForgotten, TypeOK, SonsTypeOK
  <2> QED BY <2>3, <2>4, <2>5 DEF Tracking
<1>6. CASE AcceptorLock \/ AcceptorUnlock
  <2>1. /\ UNCHANGED <<alive, aclient, ason, tpc, p, phase, who>>
        /\ Pending' = Pending
    BY <1>6 DEF AcceptorLock, AcceptorUnlock, AcceptorAt, Pending, sonVars
  <2> QED BY <1>1, <2>1, TrackingStays DEF SonsKept
<1>7. CASE KeepTrackOfClient
  <2> DEFINE r == [son |-> ason, client |-> aclient]
  <2>1. /\ Pending = {ason} /\ Pending' = {} /\ r \in Record
        /\ alive' = <<r>> \o alive /\ UNCHANGED <<phase, who>>
    BY <1>7 DEF KeepTrackOfClient, AcceptorAt, Pending, sonVars, Record, TypeOK,
       ThreadsTypeOK
  <2>2. tpc = "sleep"
    BY <1>7 DEF KeepTrackOfClient, AcceptorAt, ListExclusive
  <2>3. /\ Tracked = 1..Len(alive) /\ Tracked' = 1..(Len(alive) + 1)
        /\ alive'[1] = r
        /\ \A i \in Tracked' \ {1} : i - 1 \in Tracked /\ alive'[i] = alive[i - 1]
        /\ \A i \in Tracked : i + 1 \in Tracked' /\ alive'[i + 1] = alive[i]
    <3>1. /\ DOMAIN alive' = 1..(Len(alive) + 1)
          /\ alive'[1] = r
          /\ \A i \in 2..(Len(alive) + 1) : alive'[i] = alive[i - 1]
      BY <1>3, <2>1, Prepend
    <3>2. Tracked = 1..Len(alive) /\ Tracked' = 1..(Len(alive) + 1)
      BY <1>1, <1>3, <2>2, <3>1 DEF Tracked, Stale
    <3> QED BY <1>3, <3>1, <3>2
  <2>4. /\ phase[r.son] # "none" /\ who[r.son] = r.client
        /\ \A i \in Tracked : alive[i].son # r.son
    BY <1>2, <2>1 DEF RecordsTrue, PendingTrue
  <2> HIDE DEF r
  <2>5. RecordsTrue'
    <3> SUFFICES ASSUME NEW i \in Tracked'
                 PROVE  /\ phase[alive'[i].son] # "none"
                        /\ who[alive'[i].son] = alive'[i].client
                        /\ \A j \in Tracked' : alive'[i].son = alive'[j].son => i = j
      BY <2>1 DEF RecordsTrue
    <3>1. CASE i = 1
      BY <2>3, <2>4, <3>1
    <3>2. CASE i # 1
      <4>1. /\ phase[alive'[i].son] # "none"
            /\ who[alive'[i].son] = alive'[i].client
            /\ alive'[i].son # alive'[1].son
        BY <1>2, <2>3, <2>4, <3>2 DEF RecordsTrue
      <4>2. ASSUME NEW j \in Tracked', j # 1, alive'[i].son = alive'[j].son
            PROVE  i = j
        <5>1. i - 1 = j - 1
          BY <1>2, <2>3, <3>2, <4>2 DEF RecordsTrue
        <5> QED BY <2>3, <5>1
      <4> QED BY <4>1, <4>2
    <3> QED BY <3>1, <3>2
  <2>6. PendingTrue'
    BY <2>1 DEF PendingTrue
  <2>7. NoneForgotten'
    <3> SUFFICES ASSUME NEW s \in Sons, phase[s] # "none"
                 PROVE  \E i \in Tracked' : alive'[i].son = s
      BY <2>1 DEF NoneForgotten
    <3>1. CASE s = ason
      <4>1. 1 \in Tracked' /\ alive'[1].son = s
        BY <1>3, <2>3, <3>1 DEF r
      <4> QED BY <4>1
    <3>2. CASE s # ason
      <4>1. PICK i \in Tracked : alive[i].son = s
        BY <1>2, <2>1, <3>2 DEF NoneForgotten
      <4> QED BY <2>3, <4>1
    <3> QED BY <3>1, <3>2
  <2> QED BY <2>5, <2>6, <2>7 DEF Tracking
<1> QED BY <1>4, <1>5, <1>6, <1>7 DEF Acceptor

\* Taking out the record at p, which no longer counts, leaves the other records
\* and the sons they name.
LEMMA TrackingRemove ==
  ASSUME TypeOK, Tracking, server = "up", tpc = "remove", tpc' # "remove",
         alive' = RemoveAt(alive, p),
         UNCHANGED <<apc, aclient, ason, phase, who>>
  PROVE  Tracking'
<1> DEFINE old(j) == IF j < p THEN j ELSE j + 1
<1>1. /\ alive \in Seq(Record) /\ DOMAIN alive = 1..Len(alive) /\ Len(alive) \in Nat
      /\ p \in 1..Len(alive)
  BY AliveRecords DEF TypeOK, ThreadsTypeOK
<1>2. /\ alive' \in Seq(Record) /\ Len(alive') = Len(alive) - 1
      /\ \A j \in 1..(Len(alive) - 1) : alive'[j] = alive[old(j)]
  <2>1. /\ RemoveAt(alive, p) \in Seq(Record) /\ Len(RemoveAt(alive, p)) = Len(alive) - 1
        /\ \A j \in 1..(Len(alive) - 1) :
              RemoveAt(alive, p)[j] = IF j < p THEN alive[j] ELSE alive[j + 1]
    BY <1>1, RemoveAtProperties
  <2> QED BY <2>1
<1>3. /\ Tracked = 1..Len(alive) \ {p}
      /\ Tracked' = 1..(Len(alive) - 1)
  BY <1>1, <1>2, LenProperties DEF Tracked, Stale
<1>4. /\ \A j \in Tracked' : old(j) \in Tracked /\ alive'[j] = alive[old(j)]
      /\ \A i, j \in Tracked' : old(i) = old(j) => i = j
      /\ \A i \in Tracked : \E j \in Tracked' : i = old(j)
  <2>1. ASSUME NEW i \in Tracked
        PROVE  \E j \in Tracked' : i = old(j)
    <3>1. CASE i < p
      BY <1>1, <1>3, <3>1
    <3>2. CASE i > p
      <4>1. i - 1 \in Tracked' /\ i = old(i - 1)
        BY <1>1, <1>3, <3>2
      <4> QED BY <4>1
    <3> QED BY <1>1, <1>3, <3>1, <3>2
  <2> QED BY <1>1, <1>2, <1>3, <2>1
<1> HIDE DEF old
<1>5. RecordsTrue /\ PendingTrue /\ NoneForgotten /\ Pending' = Pending
  BY DEF Tracking, Pending
<1>6. RecordsTrue' /\ PendingTrue' /\ NoneForgotten'
  BY <1>4, <1>5 DEF RecordsTrue, PendingTrue, NoneForgotten
<1> QED BY <1>6 DEF Tracking

\* The tracker: waitpid and the removal are two steps, and between them the son's
\* pid is free although its record is still there.
LEMMA TrackingTracker ==
  ASSUME TypeOK, Tracking, Tracker
  PROVE  Tracking'
<1>1. CASE TrackerLock \/ TrackerUnlock \/ (Report /\ ClientEnd(tclient))
  <2>1. /\ server = "up" /\ UNCHANGED <<alive, apc, aclient, ason, phase, who>>
        /\ tpc # "remove" /\ tpc' # "remove"
    BY <1>1 DEF TrackerLock, TrackerUnlock, Report, TrackerAt, sonVars
  <2>2. Tracked' = Tracked /\ Pending' = Pending
    BY <2>1 DEF Tracked, Stale, Pending
  <2>3. RecordsTrue' /\ PendingTrue' /\ NoneForgotten'
    BY <2>1, <2>2 DEF Tracking, RecordsTrue, PendingTrue, NoneForgotten
  <2> QED BY <2>3 DEF Tracking
<1>2. CASE Reap
  <2> DEFINE s == alive[p].son
  <2>1. /\ server = "up" /\ tpc = "scan" /\ tpc' = "remove" /\ p' = p
        /\ p \in DOMAIN alive /\ s \in Sons
        /\ phase' = [phase EXCEPT ![s] = "none"] /\ who' = [who EXCEPT ![s] = None]
        /\ UNCHANGED <<alive, apc, aclient, ason>>
    BY <1>2, AliveRecords DEF Reap, TrackerAt, TypeOK, ThreadsTypeOK
  <2>2. /\ Tracked = DOMAIN alive /\ Tracked' = DOMAIN alive \ {p} /\ Pending' = Pending
        /\ Pending \subseteq Sons
        /\ \A i \in DOMAIN alive : alive[i].son \in Sons
    BY <2>1, AliveRecords DEF Tracked, Stale, Pending, TypeOK, ThreadsTypeOK
  <2>3. RecordsTrue /\ PendingTrue /\ NoneForgotten
    BY <2>1 DEF Tracking
  <2>4. s \notin Pending /\ \A i \in Tracked' : alive[i].son # s
    BY <2>1, <2>2, <2>3 DEF RecordsTrue
  <2>5. \A t \in Sons \ {s} : phase'[t] = phase[t] /\ who'[t] = who[t]
    BY <2>1 DEF TypeOK, SonsTypeOK
  <2>6. phase'[s] = "none"
    BY <2>1 DEF TypeOK, SonsTypeOK
  <2>7. s = alive[p].son
    OBVIOUS
  <2> HIDE DEF s
  <2>8. RecordsTrue'
    BY <2>1, <2>2, <2>3, <2>4, <2>5 DEF RecordsTrue
  <2>9. PendingTrue'
    BY <2>1, <2>2, <2>3, <2>4, <2>5 DEF PendingTrue
  <2>10. NoneForgotten'
    <3> SUFFICES ASSUME NEW t \in Sons, phase'[t] # "none"
                 PROVE  t \in Pending \/ \E i \in Tracked' : alive[i].son = t
      BY <2>1, <2>2 DEF NoneForgotten
    <3>1. t # s /\ phase[t] # "none"
      BY <2>5, <2>6
    <3>2. t \in Pending \/ \E i \in Tracked : alive[i].son = t
      BY <2>3, <3>1 DEF NoneForgotten
    <3> QED BY <2>2, <2>7, <3>1, <3>2
  <2> QED BY <2>8, <2>9, <2>10 DEF Tracking
<1>3. CASE RemoveExited \/ RemoveSignaled
  <2>1. /\ server = "up" /\ tpc = "remove" /\ tpc' # "remove"
        /\ alive' = RemoveAt(alive, p)
        /\ UNCHANGED <<apc, aclient, ason, phase, who>>
    BY <1>3 DEF RemoveExited, RemoveSignaled, TrackerAt, sonVars
  <2> QED BY <2>1, TrackingRemove
<1>4. CASE (Report /\ ~ClientEnd(tclient)) \/ TrackerExit
  <2>1. server' = "down"
    BY <1>4 DEF Report, TrackerExit, MainEnds
  <2> QED BY <2>1 DEF Tracking
<1> QED BY <1>1, <1>2, <1>3, <1>4 DEF Tracker

\* No son of the main process is forgotten, waited for twice, or recorded with
\* another client than its own, whichever way fork, waitpid, the two threads, the
\* signals and the ends of sons interleave.
THEOREM SonsTracked == Spec => []TrackingExact
<1>1. Init => Tracking
  <2> SUFFICES ASSUME Init PROVE Tracking
    OBVIOUS
  <2>1. Tracked = {} /\ Pending = {} /\ \A s \in Sons : phase[s] = "none"
    BY DEF Init, Tracked, Pending, Stale
  <2> QED BY <2>1 DEF Tracking, RecordsTrue, PendingTrue, NoneForgotten
<1>2. TypeOK /\ ListExclusive /\ Tracking /\ [Next]_vars => Tracking'
  <2> SUFFICES ASSUME TypeOK, ListExclusive, Tracking, [Next]_vars
               PROVE  Tracking'
    OBVIOUS
  <2>1. CASE Acceptor
    BY <2>1, TrackingAcceptor
  <2>2. CASE Tracker
    BY <2>2, TrackingTracker
  <2>3. CASE Exit
    <3>1. CASE ExitMain
      BY <3>1 DEF ExitMain, MainEnds, Tracking
    <3>2. CASE ~ExitMain
      <4>1. /\ UNCHANGED <<server, alive, apc, aclient, ason, tpc, p, phase, who>>
            /\ Pending' = Pending
        BY <2>3, <3>2 DEF Exit, HandleKill, ClearMapper, threadVars, sonVars, Pending
      <4> QED BY <4>1, TrackingStays DEF SonsKept
    <3> QED BY <3>1, <3>2
  <2>4. CASE Interrupt
    BY <2>4, InterruptLeaves, TrackingStays DEF threadVars, Pending, SonsKept
  <2>5. ASSUME NEW s \in Sons,
               SonStep(s) \/ Execute(s) \/ Timeout(s) \/ AlarmDefault(s)
        PROVE  Tracking'
    <3>1. UNCHANGED <<server, threadVars>>
      BY <2>5, SonsLeaveMain
    <3>2. SonsKept
      BY <2>5, SonsRemain DEF TypeOK
    <3> QED BY <3>1, <3>2, TrackingStays DEF threadVars, Pending
  <2>6. ASSUME NEW c \in Clients, Caller(c)
        PROVE  Tracking'
    BY <2>6, CallersLeaveServer, TrackingStays DEF mainVars, threadVars, sonVars, Pending,
       SonsKept
  <2>7. CASE UNCHANGED vars
    BY <2>7, TrackingStays DEF vars, mainVars, threadVars, sonVars, Pending, SonsKept
  <2> QED BY <2>1, <2>2, <2>3, <2>4, <2>5, <2>6, <2>7 DEF Next
<1>3. TypeOK /\ Tracking => TrackingExact
  BY TrackingSuffices
<1> QED BY <1>1, <1>2, <1>3, TypeCorrect, ListProtected, PTL DEF Spec
=============================================================================

------------------------- MODULE RpcServerAnswerProofs -------------------------
(***************************************************************************)
(* Proofs of what a caller may read on its connection, and that the server *)
(* implements RpcService.                                                  *)
(***************************************************************************)
EXTENDS RpcServerSafetyProofs

-----------------------------------------------------------------------------
(* One connection, one handler.                                            *)

\* Who has the call c in hand: nobody yet; the acceptor, between accept and fork;
\* a son; or the tracker, from waitpid on.
Waits(c)     == cpc[c] = "idle" \/ c \in ToSet(queue)
Forking(c)   == apc = "fork" /\ aclient = c
Serves(s, c) == phase[s] # "none" /\ who[s] = c
Reported(c)  == \/ tpc = "remove" /\ alive[p].client = c
                \/ tpc \in {"report", "exit"} /\ tclient = c

\* A connection is in the backlog once, and nobody is given a call that another
\* has.
QueuedOnce ==
  /\ \A i, j \in DOMAIN queue : queue[i] = queue[j] => i = j
  /\ \A c \in Clients : cpc[c] = "idle" => c \notin ToSet(queue)

HandledOnce ==
  \A c \in Clients :
    /\ Waits(c) => ~Forking(c)
    /\ Waits(c) \/ Forking(c) => ~Reported(c)
    /\ Waits(c) \/ Forking(c) \/ Reported(c) => \A s \in Sons : ~Serves(s, c)
    /\ \A s, t \in Sons : Serves(s, c) /\ Serves(t, c) => s = t

OneHandler == QueuedOnce /\ HandledOnce

\* What puts nothing into the backlog and gives nobody a new call keeps this.
LEMMA HandlersStay ==
  ASSUME OneHandler, queue' = queue,
         \A c \in Clients :
           /\ cpc'[c] = "idle" => cpc[c] = "idle"
           /\ Forking(c)' => Forking(c)
           /\ Reported(c)' => Reported(c)
           /\ \A s \in Sons : Serves(s, c)' => Serves(s, c)
  PROVE  OneHandler'
<1>1. QueuedOnce'
  BY DEF OneHandler, QueuedOnce
<1>2. \A c \in Clients : Waits(c)' => Waits(c)
  BY DEF Waits
<1>3. HandledOnce'
  BY <1>2 DEF OneHandler, HandledOnce
<1> QED BY <1>1, <1>3 DEF OneHandler

\* Taking the head of a queue without repetitions takes it out.
LEMMA HeadLeaves ==
  ASSUME NEW S, NEW q \in Seq(S), q # << >>,
         \A i, j \in DOMAIN q : q[i] = q[j] => i = j
  PROVE  /\ Head(q) \notin ToSet(Tail(q))
         /\ \A i, j \in DOMAIN Tail(q) : Tail(q)[i] = Tail(q)[j] => i = j
<1>1. /\ Len(q) \in Nat /\ Len(q) > 0 /\ DOMAIN q = 1..Len(q)
      /\ Tail(q) \in Seq(S) /\ Len(Tail(q)) = Len(q) - 1 /\ Head(q) = q[1]
      /\ \A i \in 1..Len(Tail(q)) : Tail(q)[i] = q[i + 1]
  BY HeadTailProperties, LenProperties, EmptySeq
<1>2. DOMAIN Tail(q) = 1..(Len(q) - 1)
  BY <1>1, LenProperties
<1>3. ASSUME NEW i \in DOMAIN Tail(q)
      PROVE  /\ Tail(q)[i] # Head(q)
             /\ \A j \in DOMAIN Tail(q) : Tail(q)[i] = Tail(q)[j] => i = j
  <2>1. /\ i + 1 \in DOMAIN q /\ 1 \in DOMAIN q /\ i + 1 # 1
        /\ Tail(q)[i] = q[i + 1]
    BY <1>1, <1>2
  <2>2. ASSUME NEW j \in DOMAIN Tail(q), Tail(q)[i] = Tail(q)[j]
        PROVE  i = j
    <3>1. j + 1 \in DOMAIN q /\ Tail(q)[j] = q[j + 1]
      BY <1>1, <1>2
    <3>2. i + 1 = j + 1
      BY <2>1, <2>2, <3>1
    <3> QED BY <1>2, <3>2
  <2> QED BY <1>1, <2>1, <2>2
<1> QED BY <1>3 DEF ToSet

\* Appending an element that is not in a queue without repetitions makes none.
LEMMA AppendOnce ==
  ASSUME NEW S, NEW q \in Seq(S), NEW e \in S, e \notin ToSet(q),
         \A i, j \in DOMAIN q : q[i] = q[j] => i = j
  PROVE  \A i, j \in DOMAIN Append(q, e) : Append(q, e)[i] = Append(q, e)[j] => i = j
<1>1. /\ Append(q, e) \in Seq(S) /\ Len(Append(q, e)) = Len(q) + 1
      /\ Append(q, e)[Len(q) + 1] = e
      /\ \A i \in 1..Len(q) : Append(q, e)[i] = q[i]
  BY AppendProperties
<1>2. /\ DOMAIN q = 1..Len(q) /\ Len(q) \in Nat
      /\ DOMAIN Append(q, e) = 1..(Len(q) + 1)
  BY <1>1, LenProperties
<1>3. \A i \in DOMAIN q : q[i] # e
  BY DEF ToSet
<1> QED BY <1>1, <1>2, <1>3

\* The acceptor passes a call on: from the backlog to itself, and to the son.
LEMMA OneHandlerAcceptor ==
  ASSUME TypeOK, ListExclusive, OneHandler, Acceptor
  PROVE  OneHandler'
<1>1. cpc' = cpc /\ tpc' = tpc /\ p' = p /\ tclient' = tclient
  BY DEF Acceptor, Accept, Fork, ForkFails, AcceptorLock, KeepTrackOfClient,
     AcceptorUnlock, callVars
<1>2. CASE Accept
  <2>0. PICK h \in Clients : h = Head(queue)
    BY <1>2, HeadTailProperties DEF Accept, TypeOK, CallsTypeOK
  <2>1. /\ queue \in Seq(Clients) /\ queue # << >>
        /\ queue' = Tail(queue) /\ aclient' = h
        /\ UNCHANGED <<alive, phase, who>>
    BY <1>2, <2>0 DEF Accept, TypeOK, CallsTypeOK, sonVars
  <2>2. /\ h \in ToSet(queue) /\ h \notin ToSet(queue')
        /\ ToSet(queue') \subseteq ToSet(queue)
        /\ \A i, j \in DOMAIN queue' : queue'[i] = queue'[j] => i = j
    BY <2>0, <2>1, HeadTail, HeadLeaves DEF OneHandler, QueuedOnce
  <2>3. QueuedOnce'
    BY <1>1, <2>2 DEF OneHandler, QueuedOnce
  <2>4. /\ Waits(h) /\ ~Waits(h)'
        /\ \A c \in Clients : Waits(c)' => Waits(c)
        /\ \A c \in Clients : Forking(c)' => c = h
        /\ \A c \in Clients : Reported(c)' => Reported(c)
        /\ \A c \in Clients, s \in Sons : Serves(s, c)' => Serves(s, c)
    BY <1>1, <2>1, <2>2 DEF OneHandler, QueuedOnce, Waits, Forking, Reported, Serves
  <2>5. HandledOnce'
    BY <2>4 DEF OneHandler, HandledOnce
  <2> QED BY <2>3, <2>5 DEF OneHandler
<1>3. ASSUME NEW s \in Sons, Fork(s)
      PROVE  OneHandler'
  <2>1. /\ queue' = queue /\ alive' = alive /\ aclient \in Clients /\ Forking(aclient)
        /\ phase' = [phase EXCEPT ![s] = "gestion_client"]
        /\ who' = [who EXCEPT ![s] = aclient] /\ apc' = "lock"
    BY <1>3 DEF Fork, AcceptorAt, Forking, callVars, TypeOK, ThreadsTypeOK
  <2>2. QueuedOnce'
    BY <1>1, <2>1 DEF OneHandler, QueuedOnce
  <2>3. \A c \in Clients :
          /\ Waits(c)' => Waits(c)
          /\ ~Forking(c)'
          /\ Reported(c)' => Reported(c)
          /\ \A t \in Sons : Serves(t, c)' => Serves(t, c) \/ (t = s /\ c = aclient)
    BY <1>1, <2>1 DEF Waits, Forking, Reported, Serves, TypeOK, SonsTypeOK
  <2>4. HandledOnce'
    BY <2>1, <2>3 DEF OneHandler, HandledOnce
  <2> QED BY <2>2, <2>4 DEF OneHandler
<1>4. CASE ForkFails \/ AcceptorLock \/ KeepTrackOfClient \/ AcceptorUnlock
  <2>1. /\ queue' = queue /\ apc' # "fork" /\ UNCHANGED <<phase, who>>
        /\ alive' = alive \/ tpc = "sleep"
    BY <1>4 DEF ForkFails, AcceptorLock, KeepTrackOfClient, AcceptorUnlock, AcceptorAt,
       callVars, sonVars, ListExclusive
  <2>2. \A c \in Clients :
          /\ ~Forking(c)'
          /\ Reported(c)' => Reported(c)
          /\ \A s \in Sons : Serves(s, c)' => Serves(s, c)
    BY <1>1, <2>1 DEF Forking, Reported, Serves
  <2> QED BY <1>1, <2>1, <2>2, HandlersStay
<1> QED BY <1>2, <1>3, <1>4 DEF Acceptor

\* The end of the main process takes the calls of its threads and zombies away.
LEMMA HandlersAtMainEnd ==
  ASSUME SonsTypeOK, MainEnds
  PROVE  \A c \in Clients :
           /\ ~Forking(c)' /\ ~Reported(c)'
           /\ \A s \in Sons : Serves(s, c)' => Serves(s, c)
BY DEF MainEnds, Forking, Reported, Serves, SonsTypeOK, Zombie

\* waitpid passes the call of a zombie on to the tracker.
LEMMA OneHandlerTracker ==
  ASSUME TypeOK, TrackingExact, OneHandler, Tracker
  PROVE  OneHandler'
<1>1. UNCHANGED <<cpc, queue>>
  BY ServerLeavesCallers
<1>2. CASE Reap
  <2> DEFINE s == alive[p].son
             d == alive[p].client
  <2>1. /\ server = "up" /\ tpc = "scan" /\ tpc' = "remove" /\ p \in DOMAIN alive
        /\ s \in Sons /\ d \in Clients /\ phase[s] # "none"
        /\ phase' = [phase EXCEPT ![s] = "none"] /\ who' = [who EXCEPT ![s] = None]
        /\ UNCHANGED <<apc, alive, aclient, p>>
    BY <1>2, AliveRecords DEF Reap, TrackerAt, TypeOK, ThreadsTypeOK, Zombie
  <2>2. who[s] = d
    BY <2>1 DEF TrackingExact
  <2>3. \A c \in Clients :
          /\ Waits(c)' => Waits(c)
          /\ Forking(c)' => Forking(c)
          /\ Reported(c)' <=> c = d
          /\ \A t \in Sons : Serves(t, c)' => t # s /\ Serves(t, c)
    BY <1>1, <2>1 DEF Waits, Forking, Reported, Serves, TypeOK, SonsTypeOK
  <2>4. Serves(s, d)
    BY <2>1, <2>2 DEF Serves
  <2> HIDE DEF s, d
  <2>5. HandledOnce'
    BY <2>1, <2>3, <2>4 DEF OneHandler, HandledOnce
  <2>6. QueuedOnce'
    BY <1>1 DEF OneHandler, QueuedOnce
  <2> QED BY <2>5, <2>6 DEF OneHandler
<1>3. CASE ~Reap
  <2>1. \A c \in Clients :
          /\ Forking(c)' => Forking(c)
          /\ Reported(c)' => Reported(c)
          /\ \A s \in Sons : Serves(s, c)' => Serves(s, c)
    <3>1. CASE MainEnds
      BY <3>1, HandlersAtMainEnd DEF TypeOK
    <3>2. CASE ~MainEnds
      <4>1. UNCHANGED <<apc, aclient, phase, who>>
        BY <1>3, <3>2 DEF Tracker, TrackerLock, RemoveExited, RemoveSignaled, Report,
           TrackerExit, TrackerUnlock, sonVars
      <4>2. \A c \in Clients : Reported(c)' => Reported(c)
        BY <1>3, <3>2 DEF Tracker, TrackerLock, RemoveExited, RemoveSignaled, Report,
           TrackerExit, TrackerUnlock, TrackerAt, Reported
      <4> QED BY <4>1, <4>2 DEF Forking, Serves
    <3> QED BY <3>1, <3>2
  <2> QED BY <1>1, <2>1, HandlersStay
<1> QED BY <1>2, <1>3

LEMMA OneHandlerNext ==
  ASSUME TypeOK, ListExclusive, TrackingExact, OneHandler, [Next]_vars
  PROVE  OneHandler'
<1>1. CASE Acceptor
  BY <1>1, OneHandlerAcceptor
<1>2. CASE Tracker
  BY <1>2, OneHandlerTracker
<1>3. CASE Exit \/ Interrupt
  <2>1. \A c \in Clients :
          /\ Forking(c)' => Forking(c)
          /\ Reported(c)' => Reported(c)
          /\ \A s \in Sons : Serves(s, c)' => Serves(s, c)
    <3>1. CASE MainEnds
      BY <3>1, HandlersAtMainEnd DEF TypeOK
    <3>2. CASE ~MainEnds
      BY <1>3, <3>2 DEF Exit, HandleKill, ClearMapper, ExitMain, Interrupt, threadVars,
         sonVars, Forking, Reported, Serves
    <3> QED BY <3>1, <3>2
  <2> QED BY <1>3, <2>1, ServerLeavesCallers, HandlersStay
<1>4. ASSUME NEW t \in Sons,
             SonStep(t) \/ Execute(t) \/ Timeout(t) \/ AlarmDefault(t)
      PROVE  OneHandler'
  <2>1. SonsKept /\ UNCHANGED <<threadVars, cpc, queue>>
    BY <1>4, SonsRemain, SonsLeaveMain, ServerLeavesCallers DEF TypeOK
  <2> QED BY <2>1, HandlersStay DEF SonsKept, threadVars, Forking, Reported, Serves
<1>5. ASSUME NEW d \in Clients, Connect(d)
      PROVE  OneHandler'
  <2>1. /\ cpc[d] = "idle" /\ cpc' = [cpc EXCEPT ![d] = "connected"]
        /\ queue' = Append(queue, d) /\ queue \in Seq(Clients)
        /\ UNCHANGED <<mainVars, sonVars>>
    BY <1>5 DEF Connect, TypeOK, CallsTypeOK
  <2>2. d \notin ToSet(queue)
    BY <2>1 DEF OneHandler, QueuedOnce
  <2>3. /\ ToSet(queue') = ToSet(queue) \cup {d}
        /\ \A i, j \in DOMAIN queue' : queue'[i] = queue'[j] => i = j
    BY <2>1, <2>2, AppendKeeps, AppendOnce DEF OneHandler, QueuedOnce
  <2>4. \A c \in Clients : cpc'[c] = "idle" => cpc[c] = "idle" /\ c # d
    BY <2>1 DEF TypeOK, CallsTypeOK
  <2>5. QueuedOnce'
    BY <2>3, <2>4 DEF OneHandler, QueuedOnce
  <2>6. /\ \A c \in Clients : Waits(c)' => Waits(c)
        /\ \A c \in Clients : /\ Forking(c)' => Forking(c)
                              /\ Reported(c)' => Reported(c)
                              /\ \A s \in Sons : Serves(s, c)' => Serves(s, c)
    BY <2>1, <2>3, <2>4
       DEF Waits, Forking, Reported, Serves, mainVars, threadVars, sonVars
  <2>7. HandledOnce'
    BY <2>6 DEF OneHandler, HandledOnce
  <2> QED BY <2>5, <2>7 DEF OneHandler
<1>6. ASSUME NEW d \in Clients, Caller(d), ~Connect(d)
      PROVE  OneHandler'
  <2>1. /\ queue' = queue /\ UNCHANGED <<mainVars, sonVars>>
        /\ \A c \in Clients : cpc'[c] = "idle" => cpc[c] = "idle"
    BY <1>6 DEF Caller, ConnectFails, SendCmd, Receive, GetAnswer, GetEof, ClientDies,
       TypeOK, CallsTypeOK
  <2> QED BY <2>1, HandlersStay
          DEF Forking, Reported, Serves, mainVars, threadVars, sonVars
<1>7. CASE UNCHANGED vars
  BY <1>7, HandlersStay
     DEF Forking, Reported, Serves, vars, mainVars, threadVars, sonVars, callVars
<1> QED BY <1>1, <1>2, <1>3, <1>4, <1>5, <1>6, <1>7 DEF Next

-----------------------------------------------------------------------------
(* What has happened to a call, by the place of its handler.               *)

\* Nobody has touched a call that no son was forked for.
NotBegun ==
  \A c \in Clients : Waits(c) \/ Forking(c) => answers[c] = << >> /\ ran[c] = 0

\* The places of a son that has sent nothing and whose function has not ended.
Unanswered == {"gestion_client", "set_timeout", "read_msg", "search_function",
               "verification_function", "execute_function"}

\* The status st, other than NO_ANSWER, is what a message m deserves.
Justified(m, st) ==
  IF m.command \in Functions
  THEN \/ st # "OK" /\ st = Verification(Signature[m.command], m)
       \/ st = "UNKNOWN_FUNC" /\ mapper # Functions
  ELSE st = "UNKNOWN_FUNC"

\* What a son has done for its caller.  send_error is reached with nothing sent,
\* by a check that failed, or from timeout_handler, when at most one answer was sent;
\* the timer is the only way to a second answer and goes off once.  A son that a signal
\* ended has sent nothing, or its caller is gone.
SonProgress(s) ==
  LET c == who[s] IN
  /\ phase[s] \in Unanswered => answers[c] = << >> /\ ran[c] = 0
  /\ phase[s] = "send_answer" => answers[c] = << >> /\ ran[c] = 1
  /\ phase[s] = "send_null" => answers[c] = << >>
  /\ phase[s] = "send_error" =>
       \/ answers[c] = << >> /\ ran[c] = 0 /\ Justified(req[c], status[s])
       \/ status[s] = "NO_ANSWER" /\ ~armed[s] /\ Len(answers[c]) <= 1
  /\ phase[s] \in {"close", "exit"} => Len(answers[c]) <= 1 \/ ~armed[s]
  /\ phase[s] = "signaled" => answers[c] = << >> \/ ~ClientEnd(c)
  /\ Running(s) => (sonmap[s] = Functions \/ mapper # Functions)

\* The tracker is going to answer for a son that a signal ended.
ToReport(c) == Reported(c) /\ (tpc = "report" \/ (tpc = "remove" /\ info = "signaled"))

ReportsFirst ==
  \A c \in Clients : ToReport(c) => answers[c] = << >> \/ ~ClientEnd(c)

Progress == NotBegun /\ (\A s \in Sons : SonProgress(s)) /\ ReportsFirst

-----------------------------------------------------------------------------
(* What a step leaves to the other calls.                                  *)

\* The progress of a son is its own affair and that of its connection.
LEMMA SonProgressStays ==
  ASSUME TypeOK, NEW s \in Sons, SonProgress(s), req' = req, mapper' \subseteq mapper,
         phase'[s] # "none" =>
           /\ phase'[s] = phase[s] /\ who'[s] = who[s] /\ status'[s] = status[s]
           /\ armed'[s] = armed[s] /\ sonmap'[s] = sonmap[s]
           /\ answers'[who[s]] = answers[who[s]] /\ ran'[who[s]] = ran[who[s]]
           /\ ClientEnd(who[s])' => ClientEnd(who[s])
  PROVE  SonProgress(s)'
<1>1. CASE phase'[s] = "none"
  BY <1>1 DEF SonProgress, Unanswered, Running, Working
<1>2. CASE phase'[s] # "none"
  <2>1. \A m, st : Justified(m, st) => Justified(m, st)'
    BY DEF Justified, TypeOK, MainTypeOK
  <2>2. mapper # Functions => mapper' # Functions
    BY DEF TypeOK, MainTypeOK
  <2> QED BY <1>2, <2>1, <2>2 DEF SonProgress, Running
<1> QED BY <1>1, <1>2

\* The steps of one son, seen from outside: no other son, and no call but its own.
LEMMA SonsAlone ==
  ASSUME TypeOK, NEW s \in Sons,
         SonStep(s) \/ Execute(s) \/ Timeout(s) \/ AlarmDefault(s)
  PROVE  /\ phase[s] # "none"
         /\ \A t \in Sons \ {s} :
              /\ phase'[t] = phase[t] /\ who'[t] = who[t] /\ status'[t] = status[t]
              /\ armed'[t] = armed[t] /\ sonmap'[t] = sonmap[t]
         /\ \A c \in Clients \ {who[s]} : answers'[c] = answers[c] /\ ran'[c] = ran[c]
<1> DEFINE Alone == \A t \in Sons \ {s} :
              /\ phase'[t] = phase[t] /\ who'[t] = who[t] /\ status'[t] = status[t]
              /\ armed'[t] = armed[t] /\ sonmap'[t] = sonmap[t]
           Calls == \A c \in Clients \ {who[s]} :
                       answers'[c] = answers[c] /\ ran'[c] = ran[c]
<1>1. ASSUME NEW how, SonEnds(s, how) PROVE Alone
  BY <1>1 DEF SonEnds, TypeOK, SonsTypeOK
<1>2. ASSUME NEW pc, NEW next, Moves(s, pc, next),
             status' = status \/ \E st : status' = [status EXCEPT ![s] = st],
             armed' = armed \/ \E b : armed' = [armed EXCEPT ![s] = b]
      PROVE  Alone
  BY <1>2 DEF Moves, TypeOK, SonsTypeOK
<1>3. SonStep(s) => phase[s] # "none" /\ Calls
  BY DEF SonStep, SetTimer, InstallHandler, ReadMsg, ReadEof, SearchFunction,
     SearchCrashes, VerificationFunction, SendAnswer, SendNull, SendError,
     SendErrorFails, CloseClient, ExitSon, HandleInterrupt, Sends, Rejects, Moves, Working, callVars, TypeOK, CallsTypeOK
<1>4. Execute(s) => phase[s] # "none" /\ Calls
  BY DEF Execute, ExecuteReturns, ExecuteNull, ExecuteTraps, ExecuteKills, Executes,
     TypeOK, CallsTypeOK
<1>5. Timeout(s) \/ AlarmDefault(s) => phase[s] # "none" /\ Calls
  BY DEF Timeout, Alarm, AlarmHangs, AlarmDefault, Handling, Working, callVars
<1>6. SonStep(s) => Alone
  <2>1. SetTimer(s) \/ InstallHandler(s) => Alone
    BY <1>2 DEF SetTimer, InstallHandler
  <2>2. ReadMsg(s) \/ ReadEof(s) => Alone
    BY <1>1, <1>2 DEF ReadMsg, ReadEof
  <2>3. SearchFunction(s) \/ VerificationFunction(s) => Alone
    BY <1>2 DEF SearchFunction, VerificationFunction, Rejects
  <2>4. SendAnswer(s) \/ SendError(s) => Alone
    BY <1>1, <1>2 DEF SendAnswer, SendError, Sends
  <2>5. SendErrorFails(s) \/ ExitSon(s) \/ HandleInterrupt(s)
          \/ SearchCrashes(s) \/ SendNull(s) => Alone
    BY <1>1 DEF SendErrorFails, ExitSon, HandleInterrupt, SearchCrashes, SendNull
  <2>6. CloseClient(s) => Alone
    BY DEF CloseClient, TypeOK, SonsTypeOK
  <2> QED BY <2>1, <2>2, <2>3, <2>4, <2>5, <2>6 DEF SonStep
<1>7. Execute(s) => Alone
  <2>1. ExecuteReturns(s) \/ ExecuteNull(s) => Alone
    BY <1>2 DEF ExecuteReturns, ExecuteNull
  <2>2. ExecuteTraps(s) => Alone
    BY <1>1 DEF ExecuteTraps
  <2>3. ExecuteKills(s) => Alone
    BY DEF ExecuteKills, TypeOK, SonsTypeOK
  <2> QED BY <2>1, <2>2, <2>3 DEF Execute
<1>8. Timeout(s) \/ AlarmDefault(s) => Alone
  BY <1>1, <1>2 DEF Timeout, Alarm, AlarmHangs, AlarmDefault, Rejects
<1> QED BY <1>3, <1>4, <1>5, <1>6, <1>7, <1>8

\* A caller that has connected and is gone does not come back.
LEMMA GoneForGood ==
  ASSUME TypeOK, [Next]_vars, NEW c \in Clients, cpc[c] # "idle", ClientEnd(c)'
  PROVE  ClientEnd(c)
<1>1. CASE cpc' = cpc
  BY <1>1 DEF ClientEnd
<1>2. ASSUME NEW d \in Clients, Caller(d)
      PROVE  ClientEnd(c)
  BY <1>2 DEF Caller, Connect, ConnectFails, SendCmd, Receive, GetAnswer, GetEof, ClientDies,
     ClientEnd, TypeOK, CallsTypeOK
<1> QED BY <1>1, <1>2, ServerLeavesCallers DEF Next, vars, callVars

-----------------------------------------------------------------------------
(* What a step does to the progress of the son that takes it.              *)

\* The end of a son that has sent nothing, or has nobody to send to.
LEMMA EndProgress ==
  ASSUME TypeOK, NEW s \in Sons, NEW how \in Zombie, SonEnds(s, how),
         NEW c, who[s] = c, how = "exited" \/ answers'[c] = << >> \/ ~ClientEnd(c)'
  PROVE  SonProgress(s)'
<1>1. phase'[s] = "none" \/ (phase'[s] = how /\ who'[s] = c)
  BY DEF SonEnds, TypeOK, SonsTypeOK
<1>2. phase'[s] \in {"none", "exited", "signaled"}
  BY <1>1 DEF Zombie
<1> QED BY <1>1, <1>2 DEF SonProgress, Unanswered, Running, Working

\* A call of send_error by a check that fails.
LEMMA RejectProgress ==
  ASSUME TypeOK, NEW s \in Sons, SonProgress(s), NEW pc \in Unanswered, NEW st,
         Rejects(s, pc, st), Justified(req[who[s]], st), UNCHANGED callVars
  PROVE  SonProgress(s)'
<1>1. /\ phase'[s] = "send_error" /\ who'[s] = who[s] /\ status'[s] = st
      /\ UNCHANGED <<mapper, sonmap, answers, ran, req>> /\ phase[s] \in Unanswered
  BY DEF Rejects, Moves, mainVars, callVars, TypeOK, SonsTypeOK
<1>2. Justified(req[who[s]], st)'
  BY <1>1 DEF Justified
<1>3. answers[who[s]] = << >> /\ ran[who[s]] = 0 /\ (sonmap[s] = Functions \/ mapper # Functions)
  BY <1>1 DEF SonProgress, Running, Unanswered, Working
<1> QED BY <1>1, <1>2, <1>3 DEF SonProgress, Unanswered

\* A send: one answer more, or the end of the son.
LEMMA SendProgress ==
  ASSUME TypeOK, NEW s \in Sons, SonProgress(s), NEW pc \in {"send_answer", "send_error"},
         NEW a \in Answer, NEW next \in {"close", "exit"}, Sends(s, pc, a, next),
         \/ answers[who[s]] = << >>
         \/ a.status = "NO_ANSWER" /\ ~armed[s] /\ Len(answers[who[s]]) <= 1
  PROVE  /\ SonProgress(s)'
         /\ \/ answers' = answers
            \/ /\ answers' = [answers EXCEPT ![who[s]] = Append(@, a)]
               /\ answers[who[s]] = << >> \/ a.status = "NO_ANSWER"
               /\ Len(answers[who[s]]) <= 1
<1> DEFINE c == who[s]
<1>1. c \in Clients /\ answers[c] \in Seq(Answer)
  BY DEF Sends, TypeOK, SonsTypeOK, CallsTypeOK
<1>2. CASE ClientEnd(c)
  <2>1. /\ phase'[s] = next /\ who'[s] = c /\ armed'[s] = armed[s]
        /\ sonmap'[s] = sonmap[s] /\ mapper' = mapper
        /\ answers' = [answers EXCEPT ![c] = Append(@, a)]
    BY <1>2 DEF Sends, Moves, mainVars, TypeOK, SonsTypeOK
  <2>2. /\ answers'[c] = Append(answers[c], a)
        /\ Len(answers'[c]) = Len(answers[c]) + 1
        /\ Len(answers[c]) \in Nat /\ Len(<< >>) = 0
    BY <1>1, <2>1, AppendProperties, LenProperties DEF TypeOK, CallsTypeOK
  <2>3. Len(answers'[c]) <= 1 \/ ~armed'[s]
    BY <2>1, <2>2
  <2>4. (sonmap[s] = Functions \/ mapper # Functions)
    BY DEF Sends, SonProgress, Running, Working
  <2>5. SonProgress(s)'
    BY <2>1, <2>3, <2>4 DEF SonProgress, Unanswered
  <2> QED BY <2>1, <2>2, <2>5
<1>3. CASE ~ClientEnd(c)
  <2>1. SonEnds(s, "signaled") /\ answers' = answers /\ cpc' = cpc
    BY <1>3 DEF Sends
  <2>2. PICK d : d = who[s]
    OBVIOUS
  <2>3. ~ClientEnd(d)'
    BY <1>3, <2>1, <2>2 DEF ClientEnd
  <2>4. SonProgress(s)'
    BY <2>1, <2>2, <2>3, EndProgress DEF Zombie
  <2> QED BY <2>1, <2>4
<1> QED BY <1>2, <1>3

\* A move among the places where nothing is sent yet and no function has ended.
LEMMA MoveProgress ==
  ASSUME TypeOK, NEW s \in Sons, SonProgress(s), NEW pc \in Unanswered,
         NEW next \in Unanswered, Moves(s, pc, next), UNCHANGED <<answers, ran>>
  PROVE  SonProgress(s)'
<1>1. /\ phase'[s] = next /\ who'[s] = who[s] /\ phase[s] \in Unanswered
      /\ UNCHANGED <<mapper, sonmap, answers, ran>>
  BY DEF Moves, mainVars, TypeOK, SonsTypeOK
<1>2. answers[who[s]] = << >> /\ ran[who[s]] = 0 /\ (sonmap[s] = Functions \/ mapper # Functions)
  BY <1>1 DEF SonProgress, Running, Unanswered, Working
<1> QED BY <1>1, <1>2 DEF SonProgress, Unanswered

\* The steps of a son through its code.  An answer that is not the first is the
\* timeout's.
LEMMA OwnProgress ==
  ASSUME TypeOK, Judged, NEW s \in Sons, SonProgress(s), SonStep(s)
  PROVE  /\ SonProgress(s)'
         /\ \/ answers' = answers
            \/ \E a \in Answer :
                 /\ answers' = [answers EXCEPT ![who[s]] = Append(@, a)]
                 /\ answers[who[s]] = << >> \/ a.status = "NO_ANSWER"
                 /\ Len(answers[who[s]]) <= 1
<1> USE DEF callVars
<1>0. ASSUME phase[s] \in {"search_function", "send_null"},
             NEW how \in Zombie, SonEnds(s, how), UNCHANGED callVars
      PROVE  SonProgress(s)' /\ answers' = answers
  <2>1. PICK c : c = who[s]
    OBVIOUS
  <2>2. answers[c] = << >> /\ answers' = answers
    BY <1>0, <2>1 DEF SonProgress, Unanswered
  <2> QED BY <1>0, <2>1, <2>2, EndProgress
<1>1. CASE SetTimer(s)
  BY <1>1, MoveProgress DEF SetTimer, Unanswered
<1>2. CASE InstallHandler(s)
  BY <1>2, MoveProgress DEF InstallHandler, Unanswered
<1>3. CASE ReadMsg(s)
  <2>1. answers' = answers /\ ran' = ran
    BY <1>3 DEF ReadMsg
  <2>2. CASE Moves(s, "read_msg", "search_function")
    BY <2>1, <2>2, MoveProgress DEF Unanswered
  <2>3. ASSUME NEW how \in Zombie, SonEnds(s, how)
        PROVE  SonProgress(s)'
    <3>1. PICK c : c = who[s]
      OBVIOUS
    <3>2. answers[c] = << >>
      BY <1>3, <3>1 DEF ReadMsg, SonProgress, Unanswered
    <3> QED BY <2>1, <2>3, <3>1, <3>2, EndProgress
  <2> QED BY <1>3, <2>1, <2>2, <2>3 DEF ReadMsg
<1>4. CASE ReadEof(s)
  <2>1. PICK how \in Zombie : SonEnds(s, how)
    BY <1>4 DEF ReadEof
  <2>2. PICK c : c = who[s]
    OBVIOUS
  <2>3. answers[c] = << >> /\ answers' = answers
    BY <1>4, <2>2 DEF ReadEof, SonProgress, Unanswered
  <2>4. SonProgress(s)'
    BY <2>1, <2>2, <2>3, EndProgress
  <2> QED BY <2>3, <2>4
<1>5. CASE SearchFunction(s)
  <2>1. CASE req[who[s]].command \in sonmap[s]
    BY <1>5, <2>1, MoveProgress DEF SearchFunction, Unanswered
  <2>2. CASE req[who[s]].command \notin sonmap[s]
    <3>1. (sonmap[s] = Functions \/ mapper # Functions)
      BY <1>5 DEF SearchFunction, SonProgress, Running, Working
    <3>2. Justified(req[who[s]], "UNKNOWN_FUNC")
      BY <2>2, <3>1 DEF Justified
    <3>3. Rejects(s, "search_function", "UNKNOWN_FUNC")
      BY <1>5, <2>2 DEF SearchFunction
    <3> QED BY <1>5, <3>2, <3>3, RejectProgress DEF SearchFunction, Unanswered
  <2> QED BY <2>1, <2>2
<1>6. CASE VerificationFunction(s)
  <2> DEFINE m == req[who[s]]
             verdict == Verification(Signature[m.command], m)
  <2>1. CASE verdict = "OK"
    BY <1>6, <2>1, MoveProgress DEF VerificationFunction, Unanswered
  <2>2. CASE verdict # "OK"
    <3>1. m.command \in Functions
      BY <1>6 DEF VerificationFunction, Judged, Judging
    <3>2. Justified(m, verdict)
      BY <2>2, <3>1 DEF Justified
    <3>3. Rejects(s, "verification_function", verdict)
      BY <1>6, <2>2 DEF VerificationFunction
    <3> HIDE DEF verdict
    <3> QED BY <1>6, <3>2, <3>3, RejectProgress DEF VerificationFunction, Unanswered
  <2> QED BY <2>1, <2>2
<1>7. CASE SendAnswer(s)
  <2> DEFINE a == [status |-> "OK", typ |-> req[who[s]].return_type]
  <2>1. who[s] \in Clients /\ answers[who[s]] = << >>
    BY <1>7 DEF SendAnswer, Sends, SonProgress, TypeOK, SonsTypeOK
  <2>2. a \in Answer
    BY <2>1, ProtocolAssumption DEF Answer, Status, TypeOK, CallsTypeOK
  <2>3. Sends(s, "send_answer", a, "exit")
    BY <1>7 DEF SendAnswer
  <2> HIDE DEF a
  <2> QED BY <2>1, <2>2, <2>3, SendProgress
<1>8. CASE SendError(s)
  <2> DEFINE a == ErrorAnswer(status[s])
  <2>1. a \in Answer /\ a.status = status[s]
    BY DEF ErrorAnswer, Answer, Types, TypeOK, SonsTypeOK
  <2>2. \/ answers[who[s]] = << >>
        \/ a.status = "NO_ANSWER" /\ ~armed[s] /\ Len(answers[who[s]]) <= 1
    BY <1>8, <2>1 DEF SendError, Sends, SonProgress
  <2>3. Sends(s, "send_error", a, "close")
    BY <1>8 DEF SendError
  <2> HIDE DEF a
  <2> QED BY <2>1, <2>2, <2>3, SendProgress
<1>9. CASE SendErrorFails(s) \/ ExitSon(s) \/ HandleInterrupt(s)
  BY <1>9, EndProgress DEF SendErrorFails, ExitSon, HandleInterrupt, Zombie
<1>10. CASE CloseClient(s)
  <2>1. /\ phase[s] = "close" /\ phase'[s] = "exit" /\ who'[s] = who[s]
        /\ UNCHANGED <<mapper, sonmap, armed, answers>>
    BY <1>10 DEF CloseClient, mainVars, TypeOK, SonsTypeOK
  <2>2. Len(answers[who[s]]) <= 1 \/ ~armed[s]
    BY <2>1 DEF SonProgress
  <2>3. (sonmap[s] = Functions \/ mapper # Functions)
    BY <2>1 DEF SonProgress, Running, Working
  <2> QED BY <2>1, <2>2, <2>3 DEF SonProgress, Unanswered
<1>11. CASE SearchCrashes(s)
  BY <1>0, <1>11 DEF SearchCrashes, Zombie
<1>12. CASE SendNull(s)
  BY <1>0, <1>12 DEF SendNull, Zombie
<1> QED BY <1>1, <1>2, <1>3, <1>4, <1>5, <1>6, <1>7, <1>8, <1>9, <1>10, <1>11, <1>12
        DEF SonStep

\* The end of its function, and its timer.
LEMMA ExecuteProgress ==
  ASSUME TypeOK, NEW s \in Sons, SonProgress(s), Execute(s)
  PROVE  SonProgress(s)' /\ answers' = answers
<1>1. /\ phase[s] = "execute_function" /\ answers' = answers
      /\ ran' = [ran EXCEPT ![who[s]] = @ + 1]
  BY DEF Execute, ExecuteReturns, ExecuteNull, ExecuteTraps, ExecuteKills, Executes
<1>2. /\ who[s] \in Clients /\ answers[who[s]] = << >> /\ ran[who[s]] = 0
      /\ (sonmap[s] = Functions \/ mapper # Functions)
  BY <1>1 DEF SonProgress, Unanswered, Running, Working, TypeOK, SonsTypeOK
<1>3. CASE ExecuteReturns(s) \/ ExecuteKills(s)
  <2>1. /\ phase'[s] = "send_answer" /\ who'[s] = who[s]
        /\ UNCHANGED <<mapper, sonmap>>
    BY <1>3 DEF ExecuteReturns, ExecuteKills, Moves, mainVars, TypeOK, SonsTypeOK
  <2>2. ran'[who[s]] = 1
    BY <1>1, <1>2 DEF TypeOK, CallsTypeOK
  <2> QED BY <1>1, <1>2, <2>1, <2>2 DEF SonProgress, Unanswered
<1>4. CASE ExecuteTraps(s)
  <2>1. PICK how \in Zombie : SonEnds(s, how)
    BY <1>4 DEF ExecuteTraps, Zombie
  <2>2. PICK c : c = who[s]
    OBVIOUS
  <2> QED BY <1>1, <1>2, <2>1, <2>2, EndProgress
<1>5. CASE ExecuteNull(s)
  <2>1. /\ phase'[s] = "send_null" /\ who'[s] = who[s]
        /\ UNCHANGED <<mapper, sonmap>>
    BY <1>5 DEF ExecuteNull, Moves, mainVars, TypeOK, SonsTypeOK
  <2> QED BY <1>1, <1>2, <2>1 DEF SonProgress, Unanswered
<1> QED BY <1>1, <1>3, <1>4, <1>5 DEF Execute

LEMMA AlarmProgress ==
  ASSUME TypeOK, NEW s \in Sons, SonProgress(s), Timeout(s) \/ AlarmDefault(s)
  PROVE  SonProgress(s)' /\ answers' = answers
<1>1. answers' = answers /\ armed[s]
  BY DEF Timeout, Alarm, AlarmHangs, AlarmDefault, callVars
<1>2. CASE Alarm(s)
  <2>1. /\ phase'[s] = "send_error" /\ who'[s] = who[s] /\ status'[s] = "NO_ANSWER"
        /\ ~armed'[s] /\ UNCHANGED <<mapper, sonmap>> /\ phase[s] \in Handling
    BY <1>2 DEF Alarm, Rejects, Moves, mainVars, TypeOK, SonsTypeOK
  <2>2. Len(answers[who[s]]) <= 1 /\ (sonmap[s] = Functions \/ mapper # Functions)
    <3>1. \/ phase[s] \in Unanswered
          \/ phase[s] \in {"send_answer", "send_null", "send_error", "close", "exit"}
      BY <2>1 DEF Handling, Working, Unanswered
    <3>2. Len(<< >>) = 0
      OBVIOUS
    <3>3. answers[who[s]] = << >> \/ Len(answers[who[s]]) <= 1
      BY <1>1, <3>1 DEF SonProgress
    <3>4. Len(answers[who[s]]) <= 1
      BY <3>2, <3>3
    <3>5. (sonmap[s] = Functions \/ mapper # Functions)
      BY <2>1 DEF SonProgress, Running, Handling
    <3> QED BY <3>4, <3>5
  <2> QED BY <1>1, <2>1, <2>2 DEF SonProgress, Unanswered
<1>3. CASE AlarmHangs(s)
  <2>1. /\ phase'[s] = "hung" /\ UNCHANGED <<mapper, sonmap>> /\ phase[s] \in Handling
    BY <1>3 DEF AlarmHangs, Moves, mainVars, TypeOK, SonsTypeOK
  <2>2. (sonmap[s] = Functions \/ mapper # Functions)
    BY <2>1 DEF SonProgress, Running, Handling
  <2> QED BY <1>1, <2>1, <2>2 DEF SonProgress, Unanswered
<1>4. CASE AlarmDefault(s)
  <2>1. PICK c : c = who[s]
    OBVIOUS
  <2>2. answers[c] = << >> /\ SonEnds(s, "signaled")
    BY <1>4, <2>1 DEF AlarmDefault, SonProgress, Unanswered
  <2> QED BY <1>1, <2>1, <2>2, EndProgress DEF Zombie
<1> QED BY <1>1, <1>2, <1>3, <1>4 DEF Timeout

-----------------------------------------------------------------------------
(* What the steps of the main process and of the callers do to it.         *)

\* The steps of sons apart, a call is answered by the report of the tracker only.
LEMMA OthersAnswerNot ==
  ASSUME \/ Acceptor \/ Exit \/ Interrupt \/ UNCHANGED vars
         \/ Tracker /\ ~(Report /\ ClientEnd(tclient))
         \/ \E c \in Clients : Caller(c)
  PROVE  UNCHANGED <<answers, ran>>
<1>1. Acceptor \/ Exit \/ Interrupt \/ UNCHANGED vars => UNCHANGED <<answers, ran>>
  BY DEF Acceptor, Accept, Fork, ForkFails, AcceptorLock, KeepTrackOfClient,
     AcceptorUnlock, Exit, HandleKill, ClearMapper, ExitMain, Interrupt, callVars, vars
<1>2. Tracker /\ ~(Report /\ ClientEnd(tclient)) => UNCHANGED <<answers, ran>>
  BY DEF Tracker, TrackerLock, Reap, RemoveExited, RemoveSignaled, Report, TrackerExit,
     TrackerUnlock, callVars
<1>3. \A c \in Clients : Caller(c) => UNCHANGED <<answers, ran>>
  BY DEF Caller, Connect, ConnectFails, SendCmd, Receive, GetAnswer, GetEof, ClientDies
<1> QED BY <1>1, <1>2, <1>3

\* The mapper of the main process only shrinks.
LEMMA MapperShrinks ==
  ASSUME TypeOK, [Next]_vars
  PROVE  mapper' \subseteq mapper
<1>1. MainEnds => mapper' \subseteq mapper
  BY DEF MainEnds
<1>2. Acceptor => mapper' = mapper
  BY DEF Acceptor, Accept, Fork, ForkFails, AcceptorLock, KeepTrackOfClient, AcceptorUnlock
<1>3. Tracker /\ ~MainEnds => mapper' = mapper
  BY DEF Tracker, TrackerLock, Reap, RemoveExited, RemoveSignaled, Report, TrackerExit,
     TrackerUnlock
<1>4. (Exit \/ Interrupt) /\ ~MainEnds => mapper' \subseteq mapper
  BY DEF Exit, HandleKill, ClearMapper, ExitMain, Interrupt
<1>5. \A c \in Clients : Caller(c) => mapper' = mapper
  BY CallersLeaveServer DEF mainVars
<1> QED BY <1>1, <1>2, <1>3, <1>4, <1>5, SonsLeaveMain DEF Next, vars, mainVars

\* A step keeps the progress of every call, if who has it in hand does not change but
\* for a report that is due, if it touches no call that is not begun or to be
\* reported, and if the sons and calls it changes are as they should be.
LEMMA ProgressStep ==
  ASSUME TypeOK, OneHandler, Progress, [Next]_vars,
         \A c \in Clients :
           /\ Waits(c)' \/ Forking(c)' => Waits(c) \/ Forking(c)
           /\ ToReport(c)' => ToReport(c) \/ answers[c] = << >> \/ ~ClientEnd(c)
           /\ ToReport(c)' => Reported(c)' /\ ~Waits(c)
           /\ Waits(c) \/ Forking(c) \/ ToReport(c)' =>
                answers'[c] = answers[c] /\ ran'[c] = ran[c],
         \A s \in Sons : phase'[s] # "none" =>
           \/ SonProgress(s)'
           \/ /\ phase'[s] = phase[s] /\ who'[s] = who[s] /\ status'[s] = status[s]
              /\ armed'[s] = armed[s] /\ sonmap'[s] = sonmap[s]
              /\ answers'[who[s]] = answers[who[s]] /\ ran'[who[s]] = ran[who[s]]
  PROVE  Progress'
<1>1. ASSUME NEW c \in Clients, ~Waits(c)
      PROVE  ClientEnd(c)' => ClientEnd(c)
  BY <1>1, GoneForGood DEF Waits
<1>2. ASSUME NEW s \in Sons, ~SonProgress(s)'
      PROVE  FALSE
  <2>1. req' = req /\ mapper' \subseteq mapper
    BY RequestsStay, MapperShrinks DEF vars, callVars
  <2>2. phase'[s] # "none" => (ClientEnd(who[s])' => ClientEnd(who[s]))
    <3> SUFFICES ASSUME phase'[s] # "none"
                 PROVE  ClientEnd(who[s])' => ClientEnd(who[s])
      OBVIOUS
    <3>1. PICK c \in Clients : c = who[s] /\ c = who'[s]
      BY <1>2 DEF TypeOK, SonsTypeOK
    <3>2. Serves(s, c)
      BY <1>2, <3>1 DEF Serves
    <3>3. ~Waits(c)
      BY <3>2 DEF OneHandler, HandledOnce
    <3> QED BY <1>1, <3>1, <3>3
  <2> QED BY <1>2, <2>1, <2>2, SonProgressStays DEF Progress
<1>3. NotBegun'
  BY DEF Progress, NotBegun
<1>4. ReportsFirst'
  <2> SUFFICES ASSUME NEW c \in Clients, ToReport(c)'
               PROVE  answers'[c] = << >> \/ ~ClientEnd(c)'
    BY DEF ReportsFirst
  <2> QED BY <1>1 DEF Progress, ReportsFirst
<1> QED BY <1>2, <1>3, <1>4 DEF Progress

LEMMA ProgressAcceptor ==
  ASSUME TypeOK, ListExclusive, OneHandler, Progress, [Next]_vars, Acceptor
  PROVE  Progress'
<1>1. UNCHANGED <<cpc, answers, ran, tpc, p, tclient, info>>
  BY OthersAnswerNot, ServerLeavesCallers
     DEF Acceptor, Accept, Fork, ForkFails, AcceptorLock, KeepTrackOfClient, AcceptorUnlock
<1>2. \A c \in Clients : ToReport(c)' => ToReport(c) /\ Reported(c)' /\ ~Waits(c)
  <2>1. alive' = alive \/ tpc = "sleep"
    BY DEF Acceptor, Accept, Fork, ForkFails, AcceptorLock, KeepTrackOfClient,
       AcceptorUnlock, AcceptorAt, ListExclusive
  <2>2. \A c \in Clients : Reported(c)' => Reported(c)
    BY <1>1, <2>1 DEF Reported
  <2> QED BY <1>1, <2>2 DEF ToReport, OneHandler, HandledOnce
<1>3. CASE ~\E s \in Sons : Fork(s)
  <2>1. \A c \in Clients : Waits(c)' \/ Forking(c)' => Waits(c) \/ Forking(c)
    <3>1. CASE Accept
      <4>1. /\ Head(queue) \in ToSet(queue) /\ ToSet(queue') \subseteq ToSet(queue)
            /\ aclient' = Head(queue)
        BY <3>1, HeadTail DEF Accept, TypeOK, CallsTypeOK
      <4> QED BY <1>1, <4>1 DEF Waits, Forking
    <3>2. CASE ~Accept
      BY <1>1, <1>3, <3>2, ServerLeavesCallers
         DEF Acceptor, ForkFails, AcceptorLock, KeepTrackOfClient, AcceptorUnlock,
         Waits, Forking
    <3> QED BY <3>1, <3>2
  <2>2. UNCHANGED sonVars
    BY <1>3 DEF Acceptor, Accept, ForkFails, AcceptorLock, KeepTrackOfClient,
       AcceptorUnlock
  <2> QED BY <1>1, <1>2, <2>1, <2>2, ProgressStep DEF sonVars
<1>4. ASSUME NEW s \in Sons, Fork(s)
      PROVE  Progress'
  <2>1. \A c \in Clients : Waits(c)' \/ Forking(c)' => Waits(c) \/ Forking(c)
    BY <1>1, <1>4 DEF Fork, callVars, Waits, Forking
  <2>2. SonProgress(s)'
    <3>1. /\ phase'[s] = "gestion_client" /\ who'[s] = aclient
          /\ mapper' = mapper /\ aclient \in Clients /\ Forking(aclient)
      BY <1>4 DEF Fork, AcceptorAt, Forking, TypeOK, SonsTypeOK, ThreadsTypeOK
    <3>2. sonmap'[s] = Functions \/ mapper' # Functions
      <4>1. PICK found \in Found : sonmap' = [sonmap EXCEPT ![s] = found]
        BY <1>4 DEF Fork
      <4>2. sonmap'[s] = found
        BY <4>1 DEF TypeOK, SonsTypeOK
      <4> QED BY <3>1, <4>1, <4>2 DEF Found
    <3>3. answers[aclient] = << >> /\ ran[aclient] = 0
      BY <3>1 DEF Progress, NotBegun
    <3> QED BY <1>1, <3>1, <3>2, <3>3 DEF SonProgress
  <2>3. \A t \in Sons \ {s} : /\ phase'[t] = phase[t] /\ who'[t] = who[t]
                              /\ status'[t] = status[t] /\ armed'[t] = armed[t]
                              /\ sonmap'[t] = sonmap[t]
    BY <1>4 DEF Fork, TypeOK, SonsTypeOK
  <2> QED BY <1>1, <1>2, <2>1, <2>2, <2>3, ProgressStep
<1> QED BY <1>3, <1>4

\* The main process ends: its threads report no more, and the sons at work go on.
LEMMA ProgressAtMainEnd ==
  ASSUME TypeOK, OneHandler, Progress, [Next]_vars, MainEnds,
         UNCHANGED <<queue, cpc, answers, ran>>
  PROVE  Progress'
<1>1. \A c \in Clients : Waits(c)' => Waits(c)
  BY DEF Waits
<1>2. \A c \in Clients : ~Forking(c)' /\ ~ToReport(c)'
  BY DEF MainEnds, Forking, ToReport
<1>3. \A s \in Sons : phase'[s] # "none" =>
        /\ phase'[s] = phase[s] /\ who'[s] = who[s] /\ status'[s] = status[s]
        /\ armed'[s] = armed[s] /\ sonmap'[s] = sonmap[s]
  BY DEF MainEnds, TypeOK, SonsTypeOK
<1> QED BY <1>1, <1>2, <1>3, ProgressStep

\* The tracker takes the call of a zombie over, and reports for it if nothing was
\* sent.
LEMMA ProgressTracker ==
  ASSUME TypeOK, TrackingExact, OneHandler, Progress, [Next]_vars, Tracker
  PROVE  Progress'
<1>1. UNCHANGED <<cpc, queue>> /\ \A c \in Clients : Waits(c)' => Waits(c)
  BY ServerLeavesCallers DEF Waits
<1>2. CASE MainEnds
  <2>1. UNCHANGED <<answers, ran>>
    BY <1>2, OthersAnswerNot DEF Report, MainEnds, TrackerAt, Tracker, TrackerLock, Reap,
       RemoveExited, RemoveSignaled, TrackerExit, TrackerUnlock
  <2> QED BY <1>1, <1>2, <2>1, ProgressAtMainEnd
<1>3. CASE Reap
  <2>1. PICK s \in Sons, d \in Clients : s = alive[p].son /\ d = alive[p].client
    BY <1>3, AliveRecords DEF Reap, TypeOK, ThreadsTypeOK
  <2>2. /\ server = "up" /\ tpc = "scan" /\ tpc' = "remove" /\ p \in DOMAIN alive
        /\ phase[s] \in Zombie /\ info' = phase[s]
        /\ phase' = [phase EXCEPT ![s] = "none"] /\ who' = [who EXCEPT ![s] = None]
        /\ UNCHANGED <<apc, aclient, alive, p, status, armed, sonmap>>
    BY <1>3, <2>1, AliveRecords DEF Reap, TrackerAt, TypeOK, ThreadsTypeOK
  <2>3. who[s] = d
    BY <2>1, <2>2 DEF TrackingExact
  <2>4. Serves(s, d) /\ ~Waits(d)
    BY <2>2, <2>3 DEF Serves, Zombie, OneHandler, HandledOnce
  <2>5. \A c \in Clients : ToReport(c)' => c = d /\ info' = "signaled" /\ Reported(c)'
    BY <2>1, <2>2 DEF ToReport, Reported
  <2>6. info' = "signaled" => answers[d] = << >> \/ ~ClientEnd(d)
    BY <2>2, <2>3 DEF Progress, SonProgress
  <2>7. \A c \in Clients : Forking(c)' => Forking(c)
    BY <2>2 DEF Forking
  <2>8. \A t \in Sons \ {s} : phase'[t] = phase[t] /\ who'[t] = who[t]
    BY <2>2 DEF TypeOK, SonsTypeOK
  <2>9. phase'[s] = "none" /\ UNCHANGED <<answers, ran>>
    BY <1>3, <2>2 DEF Reap, callVars, TypeOK, SonsTypeOK
  <2> QED BY <1>1, <2>2, <2>4, <2>5, <2>6, <2>7, <2>8, <2>9, ProgressStep
<1>4. CASE Report /\ ClientEnd(tclient)
  <2>1. /\ tpc = "report" /\ tpc' = "exit" /\ tclient \in Clients
        /\ answers' = [answers EXCEPT ![tclient] = Append(@, ErrorAnswer("NO_ANSWER"))]
        /\ ran' = ran /\ UNCHANGED <<apc, aclient, sonVars>>
    BY <1>4 DEF Report, TrackerAt, TypeOK, ThreadsTypeOK
  <2>2. Reported(tclient)
    BY <2>1 DEF Reported
  <2>3. \A c \in Clients : ~ToReport(c)' /\ (Forking(c)' => Forking(c))
    BY <2>1 DEF ToReport, Forking
  <2>4. \A c \in Clients \ {tclient} : answers'[c] = answers[c]
    BY <2>1 DEF TypeOK, CallsTypeOK
  <2>5. ~Waits(tclient) /\ ~Forking(tclient) /\ \A s \in Sons : ~Serves(s, tclient)
    BY <2>1, <2>2 DEF OneHandler, HandledOnce
  <2>6. \A s \in Sons : phase'[s] # "none" => who[s] \in Clients \ {tclient}
    BY <2>1, <2>5 DEF Serves, sonVars, TypeOK, SonsTypeOK
  <2> QED BY <1>1, <2>1, <2>3, <2>4, <2>5, <2>6, ProgressStep DEF sonVars
<1>5. CASE ~MainEnds /\ ~Reap /\ ~Report
  <2>1. UNCHANGED <<answers, ran, apc, aclient, sonVars>>
    BY <1>5 DEF Tracker, TrackerLock, RemoveExited, RemoveSignaled, TrackerExit,
       TrackerUnlock, callVars
  <2>2. \A c \in Clients : ToReport(c)' => ToReport(c) /\ Reported(c)'
    BY <1>5 DEF Tracker, TrackerLock, RemoveExited, RemoveSignaled, TrackerExit,
       TrackerUnlock, TrackerAt, ToReport, Reported
  <2>3. \A c \in Clients : ToReport(c)' => ~Waits(c)
    BY <2>2 DEF ToReport, OneHandler, HandledOnce
  <2>4. \A c \in Clients : Forking(c)' => Forking(c)
    BY <2>1 DEF Forking
  <2> QED BY <1>1, <2>1, <2>2, <2>3, <2>4, ProgressStep DEF sonVars
<1> QED BY <1>2, <1>3, <1>4, <1>5 DEF Report

\* A son's step is its own: the others serve other callers, and nobody else has the
\* call it answers.
LEMMA ProgressSon ==
  ASSUME TypeOK, Judged, OneHandler, Progress, [Next]_vars, NEW s \in Sons,
         SonStep(s) \/ Execute(s) \/ Timeout(s) \/ AlarmDefault(s)
  PROVE  Progress'
<1>1. SonProgress(s)'
  BY OwnProgress, ExecuteProgress, AlarmProgress DEF Progress
<1>2. /\ phase[s] # "none"
      /\ \A t \in Sons \ {s} :
           /\ phase'[t] = phase[t] /\ who'[t] = who[t] /\ status'[t] = status[t]
           /\ armed'[t] = armed[t] /\ sonmap'[t] = sonmap[t]
      /\ \A c \in Clients \ {who[s]} : answers'[c] = answers[c] /\ ran'[c] = ran[c]
  BY SonsAlone
<1>3. PICK d \in Clients : d = who[s] /\ Serves(s, d)
  BY <1>2 DEF Serves, TypeOK, SonsTypeOK
<1>4. \A c \in Clients :
        /\ Waits(c)' <=> Waits(c)
        /\ Forking(c)' <=> Forking(c)
        /\ Reported(c)' <=> Reported(c)
        /\ ToReport(c)' <=> ToReport(c)
  BY SonsLeaveMain, ServerLeavesCallers DEF threadVars, Waits, Forking, Reported, ToReport
<1>5. \A c \in Clients : Waits(c) \/ Forking(c) \/ ToReport(c) => c # d
  BY <1>3 DEF ToReport, OneHandler, HandledOnce
<1>6. \A c \in Clients : ToReport(c) => Reported(c) /\ ~Waits(c)
  BY DEF ToReport, OneHandler, HandledOnce
<1>7. \A t \in Sons \ {s} : phase'[t] # "none" => who[t] \in Clients \ {d}
  <2> SUFFICES ASSUME NEW t \in Sons \ {s}, phase'[t] # "none"
               PROVE  who[t] \in Clients \ {d}
    OBVIOUS
  <2>1. who[t] \in Clients /\ Serves(t, who[t])
    BY <1>2 DEF Serves, TypeOK, SonsTypeOK
  <2> QED BY <1>3, <2>1 DEF OneHandler, HandledOnce
<1> QED BY <1>1, <1>2, <1>3, <1>4, <1>5, <1>6, <1>7, ProgressStep

\* A caller touches no answer, and only comes to its connection from outside.
LEMMA ProgressCaller ==
  ASSUME TypeOK, OneHandler, Progress, [Next]_vars, NEW d \in Clients, Caller(d)
  PROVE  Progress'
<1>1. UNCHANGED <<mainVars, sonVars, answers, ran>>
  BY CallersLeaveServer, OthersAnswerNot
<1>2. \A c \in Clients : Waits(c)' => Waits(c)
  <2>1. CASE Connect(d)
    <3>1. /\ cpc[d] = "idle" /\ cpc' = [cpc EXCEPT ![d] = "connected"]
          /\ ToSet(queue') = ToSet(queue) \cup {d}
      BY <2>1, AppendKeeps DEF Connect, TypeOK, CallsTypeOK
    <3> QED BY <3>1 DEF Waits, TypeOK, CallsTypeOK
  <2>2. CASE ~Connect(d)
    BY <2>2 DEF Caller, ConnectFails, SendCmd, Receive, GetAnswer, GetEof, ClientDies,
       Waits, TypeOK, CallsTypeOK
  <2> QED BY <2>1, <2>2
<1>3. \A c \in Clients : /\ Forking(c)' <=> Forking(c)
                         /\ Reported(c)' <=> Reported(c)
                         /\ ToReport(c)' <=> ToReport(c)
  BY <1>1 DEF mainVars, threadVars, Forking, Reported, ToReport
<1>4. \A c \in Clients : ToReport(c) => Reported(c) /\ ~Waits(c)
  BY DEF ToReport, OneHandler, HandledOnce
<1> QED BY <1>1, <1>2, <1>3, <1>4, ProgressStep DEF sonVars

LEMMA ProgressNext ==
  ASSUME TypeOK, ListExclusive, TrackingExact, Judged, OneHandler, Progress, [Next]_vars
  PROVE  Progress'
<1>1. CASE Acceptor
  BY <1>1, ProgressAcceptor
<1>2. CASE Tracker
  BY <1>2, ProgressTracker
<1>3. CASE Exit \/ Interrupt \/ UNCHANGED vars
  <2>1. UNCHANGED <<answers, ran, cpc, queue>>
    BY <1>3, OthersAnswerNot, ServerLeavesCallers DEF vars, callVars
  <2>2. CASE MainEnds
    BY <2>1, <2>2, ProgressAtMainEnd
  <2>3. CASE ~MainEnds
    <3>1. UNCHANGED <<threadVars, phase, who, status, armed, sonmap>>
      BY <1>3, <2>3 DEF Exit, HandleKill, ClearMapper, ExitMain, Interrupt, vars, mainVars,
         sonVars
    <3>2. \A c \in Clients : /\ Waits(c)' <=> Waits(c)
                             /\ Forking(c)' <=> Forking(c)
                             /\ Reported(c)' <=> Reported(c)
                             /\ ToReport(c)' <=> ToReport(c)
      BY <2>1, <3>1 DEF threadVars, Waits, Forking, Reported, ToReport
    <3>3. \A c \in Clients : ToReport(c) => Reported(c) /\ ~Waits(c)
      BY DEF ToReport, OneHandler, HandledOnce
    <3> QED BY <2>1, <3>1, <3>2, <3>3, ProgressStep
  <2> QED BY <2>2, <2>3
<1>4. ASSUME NEW s \in Sons,
             SonStep(s) \/ Execute(s) \/ Timeout(s) \/ AlarmDefault(s)
      PROVE  Progress'
  BY <1>4, ProgressSon
<1>5. ASSUME NEW c \in Clients, Caller(c)
      PROVE  Progress'
  BY <1>5, ProgressCaller
<1> QED BY <1>1, <1>2, <1>3, <1>4, <1>5 DEF Next

-----------------------------------------------------------------------------
(* The answers.                                                            *)

\* What a step may send: the first answer to a call, or a second one that is the
\* timeout's.
LEMMA AnswersGrow ==
  ASSUME TypeOK, Judged, Progress, [Next]_vars
  PROVE  \/ answers' = answers
         \/ \E c \in Clients, a \in Answer :
              /\ answers' = [answers EXCEPT ![c] = Append(@, a)]
              /\ answers[c] = << >> \/ a.status = "NO_ANSWER"
              /\ Len(answers[c]) <= 1
<1>1. CASE Report /\ ClientEnd(tclient)
  <2> DEFINE a == ErrorAnswer("NO_ANSWER")
  <2>1. /\ tpc = "report" /\ tclient \in Clients
        /\ answers' = [answers EXCEPT ![tclient] = Append(@, a)]
    BY <1>1 DEF Report, TrackerAt, TypeOK, ThreadsTypeOK
  <2>2. a \in Answer /\ Len(<< >>) = 0
    BY DEF ErrorAnswer, Answer, Status, Types
  <2>3. answers[tclient] = << >>
    BY <1>1, <2>1 DEF Progress, ReportsFirst, ToReport, Reported
  <2>4. Len(answers[tclient]) <= 1
    BY <2>2, <2>3
  <2> HIDE DEF a
  <2> QED BY <2>1, <2>2, <2>3, <2>4
<1>2. ASSUME NEW s \in Sons, SonStep(s)
      PROVE  \/ answers' = answers
             \/ \E a \in Answer :
                  /\ answers' = [answers EXCEPT ![who[s]] = Append(@, a)]
                  /\ answers[who[s]] = << >> \/ a.status = "NO_ANSWER"
                  /\ Len(answers[who[s]]) <= 1
                  /\ who[s] \in Clients
  <2>1. who[s] \in Clients
    BY <1>2, SonsAlone DEF TypeOK, SonsTypeOK
  <2> QED BY <1>2, <2>1, OwnProgress DEF Progress
<1>3. ASSUME NEW s \in Sons, Execute(s) \/ Timeout(s) \/ AlarmDefault(s)
      PROVE  answers' = answers
  BY <1>3, ExecuteProgress, AlarmProgress DEF Progress
<1>4. \/ Acceptor \/ Exit \/ Interrupt \/ UNCHANGED vars
      \/ Tracker /\ ~(Report /\ ClientEnd(tclient))
      \/ \E c \in Clients : Caller(c)
      => answers' = answers
  BY OthersAnswerNot
<1> QED BY <1>1, <1>2, <1>3, <1>4 DEF Next

LEMMA AnswersInOrder ==
  ASSUME TypeOK, Judged, Progress, SecondAnswerIsTimeout, [Next]_vars
  PROVE  SecondAnswerIsTimeout'
<1>1. CASE answers' = answers
  BY <1>1 DEF SecondAnswerIsTimeout
<1>2. ASSUME NEW c \in Clients, NEW a \in Answer,
             answers' = [answers EXCEPT ![c] = Append(@, a)],
             answers[c] = << >> \/ a.status = "NO_ANSWER",
             Len(answers[c]) <= 1
      PROVE  SecondAnswerIsTimeout'
  <2>1. /\ answers'[c] = Append(answers[c], a)
        /\ \A d \in Clients \ {c} : answers'[d] = answers[d]
        /\ answers[c] \in Seq(Answer)
    BY <1>2 DEF TypeOK, CallsTypeOK
  <2>2. PICK n \in Nat : n = Len(answers[c])
    BY <2>1, LenProperties
  <2>3. n <= 1 /\ (n = 1 => a.status = "NO_ANSWER")
    <3>1. n <= 1
      BY <1>2, <2>2
    <3>2. answers[c] = << >> => n = 0
      BY <2>2
    <3> QED BY <1>2, <3>1, <3>2
  <2>4. Len(answers'[c]) = n + 1 /\ answers'[c][n + 1] = a
    BY <2>1, <2>2, AppendProperties
  <2>5. /\ Len(answers'[c]) <= 2
        /\ Len(answers'[c]) = 2 => answers'[c][2].status = "NO_ANSWER"
    <3>1. CASE n = 0
      BY <2>4, <3>1
    <3>2. CASE n = 1
      BY <2>3, <2>4, <3>2
    <3> QED BY <2>3, <3>1, <3>2
  <2> QED BY <2>1, <2>5 DEF SecondAnswerIsTimeout
<1> QED BY <1>1, <1>2, AnswersGrow

LEMMA InitProgress ==
  ASSUME Init
  PROVE  Judged /\ OneHandler /\ Progress /\ SecondAnswerIsTimeout
<1>1. Judged
  BY DEF Init, Judged, Judging
<1>2. ToSet(<< >>) = {} /\ Len(<< >>) = 0 /\ DOMAIN << >> = {}
  BY DEF ToSet
<1>3. OneHandler
  BY <1>2 DEF Init, OneHandler, QueuedOnce, HandledOnce, Waits, Forking, Reported, Serves
<1>4. Progress
  BY DEF Init, Progress, NotBegun, SonProgress, Unanswered, Running, Working, ReportsFirst,
     ToReport
<1>5. SecondAnswerIsTimeout
  BY <1>2 DEF Init, SecondAnswerIsTimeout
<1> QED BY <1>1, <1>3, <1>4, <1>5

\* What is true of every state of the server: whose each call is, and how far it
\* has come.
LEMMA CallsHandled == Spec => [](OneHandler /\ Progress /\ Judged)
<1>1. Init => OneHandler /\ Progress /\ Judged
  BY InitProgress
<1>2. /\ TypeOK /\ ListExclusive /\ TrackingExact
      /\ OneHandler /\ Progress /\ Judged /\ [Next]_vars
      => (OneHandler /\ Progress /\ Judged)'
  BY OneHandlerNext, ProgressNext, JudgedNext
<1> QED BY <1>1, <1>2, TypeCorrect, ListProtected, SonsTracked, PTL DEF Spec

\* Whatever the timer, the tracker, the checks and the function of a call do to each
\* other, its caller is never sent a third answer, nor a second one but the timeout's.
THEOREM SecondAnswersAreTimeouts == Spec => []SecondAnswerIsTimeout
<1>1. Init => SecondAnswerIsTimeout
  BY InitProgress
<1>2. /\ TypeOK /\ OneHandler /\ Progress /\ Judged
      /\ SecondAnswerIsTimeout /\ [Next]_vars
      => SecondAnswerIsTimeout'
  BY AnswersInOrder
<1> QED BY <1>1, <1>2, TypeCorrect, CallsHandled, PTL DEF Spec

-----------------------------------------------------------------------------
(* The abstract state of RpcService.                                       *)

\* What RpcServer puts for reply and closing.
Replies == [c \in Clients |->
              IF answers[c] = << >> THEN "none" ELSE Head(answers[c]).status]
Closing == mapper # Functions

\* What RpcService says of a step, with the state of the server put in.
LEMMA ServiceExpanded ==
  /\ Service!Init <=> /\ req \in [Clients -> Requests]
                      /\ ran = [c \in Clients |-> 0]
                      /\ Replies = [c \in Clients |-> "none"]
                      /\ Closing = FALSE
  /\ Service!serviceVars = <<req, ran, Replies, Closing>>
  /\ \A c \in Clients : Service!Run(c) <=>
       /\ Callable(req[c])
       /\ ran[c] = 0 /\ Replies[c] = "none"
       /\ ran' = [ran EXCEPT ![c] = 1]
       /\ UNCHANGED <<req, Replies, Closing>>
  /\ \A c \in Clients : \A st : Service!Reply(c, st) <=>
       /\ Replies[c] = "none"
       /\ Replies' = [Replies EXCEPT ![c] = st]
       /\ UNCHANGED <<req, ran, Closing>>
  /\ Service!Close <=> Closing' = TRUE /\ UNCHANGED <<req, ran, Replies>>
BY DEF Replies, Closing, Callable, Service!Init, Service!serviceVars, Service!Run,
   Service!Reply, Service!Close, Service!Callable

\* A step that leaves the requests, the runs and the first answers alone is a
\* stutter, or the server begins to close.
LEMMA Unseen ==
  ASSUME TypeOK, UNCHANGED <<req, ran>>, Replies' = Replies, mapper' \subseteq mapper
  PROVE  [Service!Next]_(Service!serviceVars)
<1>1. CASE Closing' = Closing
  BY <1>1, ServiceExpanded DEF Service!serviceVars, Replies, Closing
<1>2. CASE Closing' # Closing
  <2>1. Closing' = TRUE
    BY <1>2 DEF Closing, TypeOK, MainTypeOK
  <2>2. Service!Close
    BY <2>1, ServiceExpanded
  <2> QED BY <2>2 DEF Service!Next
<1> QED BY <1>1, <1>2

\* The first answer to a call decides it; another one changes nothing.
LEMMA FirstAnswerDecides ==
  ASSUME TypeOK, NEW c \in Clients, NEW a \in Answer,
         answers' = [answers EXCEPT ![c] = Append(@, a)]
  PROVE  /\ Replies[c] = "none" <=> answers[c] = << >>
         /\ answers[c] = << >> => Replies' = [Replies EXCEPT ![c] = a.status]
         /\ answers[c] # << >> => Replies' = Replies
<1>1. /\ answers[c] \in Seq(Answer) /\ answers \in [Clients -> Seq(Answer)]
      /\ answers'[c] = Append(answers[c], a)
      /\ \A d \in Clients \ {c} : answers'[d] = answers[d]
  BY DEF TypeOK, CallsTypeOK
<1>2. answers'[c] # << >>
  BY <1>1, AppendProperties
<1>3. answers[c] = << >> => Head(answers'[c]) = a
  BY <1>1
<1>4. answers[c] # << >> => Head(answers'[c]) = Head(answers[c]) /\ Head(answers[c]) \in Answer
  <2> SUFFICES ASSUME answers[c] # << >>
               PROVE  Head(answers'[c]) = Head(answers[c]) /\ Head(answers[c]) \in Answer
    OBVIOUS
  <2>1. /\ Len(answers[c]) \in Nat /\ Len(answers[c]) > 0
        /\ Head(answers[c]) = answers[c][1] /\ Head(answers[c]) \in Answer
    BY <1>1, HeadTailProperties, LenProperties, EmptySeq
  <2>2. answers'[c][1] = answers[c][1] /\ Head(answers'[c]) = answers'[c][1]
    BY <1>1, <1>2, <2>1, AppendProperties, HeadTailProperties
  <2> QED BY <2>1, <2>2
<1>5. Replies[c] = "none" <=> answers[c] = << >>
  BY <1>4 DEF Replies, Answer, Status
<1>6. answers[c] = << >> => Replies' = [Replies EXCEPT ![c] = a.status]
  BY <1>1, <1>2, <1>3 DEF Replies
<1>7. answers[c] # << >> => Replies' = Replies
  BY <1>1, <1>2, <1>4 DEF Replies
<1> QED BY <1>5, <1>6, <1>7

\* A call whose check failed deserves the status that send_error sends.
LEMMA JustifiedRejects ==
  ASSUME NEW c \in Clients, NEW st, ran[c] = 0, Justified(req[c], st),
         Service!Reply(c, st)
  PROVE  Service!Next
<1>1. Service!Reject(c)
  <2>1. CASE req[c].command \in Functions
    <3>1. CASE st = Verification(Signature[req[c].command], req[c]) /\ st # "OK"
      <4>1. st = Service!Verification(Signature[req[c].command], req[c])
        BY <3>1 DEF Verification, Service!Verification
      <4> QED BY <2>1, <3>1, <4>1 DEF Service!Reject, Service!Reply
    <3>2. CASE st = "UNKNOWN_FUNC" /\ mapper # Functions
      BY <2>1, <3>2 DEF Service!Reject
    <3> QED BY <2>1, <3>1, <3>2 DEF Justified
  <2>2. CASE req[c].command \notin Functions
    BY <2>2 DEF Justified, Service!Reject
  <2> QED BY <2>1, <2>2
<1> QED BY <1>1 DEF Service!Next

-----------------------------------------------------------------------------
(* Step simulation.                                                        *)

\* A send of a son.
LEMMA SendsServe ==
  ASSUME TypeOK, NEW s \in Sons, SonProgress(s), SendAnswer(s) \/ SendError(s)
  PROVE  [Service!Next]_(Service!serviceVars)
<1>1. PICK c \in Clients : c = who[s]
  BY DEF SendAnswer, SendError, Sends, TypeOK, SonsTypeOK
<1>2. UNCHANGED <<req, ran, mapper>>
  BY DEF SendAnswer, SendError, Sends, Moves, mainVars
<1>3. CASE ~ClientEnd(c)
  <2>1. Replies' = Replies
    BY <1>1, <1>3 DEF SendAnswer, SendError, Sends, Replies
  <2> QED BY <1>2, <2>1, Unseen
<1>4. ASSUME NEW a \in Answer, answers' = [answers EXCEPT ![c] = Append(@, a)]
      PROVE  /\ answers[c] # << >> => Replies' = Replies
             /\ answers[c] = << >> => Service!Reply(c, a.status)
  BY <1>2, <1>4, FirstAnswerDecides, ServiceExpanded DEF Closing
<1>5. CASE ClientEnd(c) /\ SendAnswer(s)
  <2> DEFINE a == [status |-> "OK", typ |-> req[c].return_type]
  <2>1. a \in Answer /\ a.status = "OK"
    BY ProtocolAssumption DEF Answer, Status, TypeOK, CallsTypeOK
  <2>2. /\ phase[s] = "send_answer"
        /\ answers' = [answers EXCEPT ![c] = Append(@, a)]
    BY <1>1, <1>5 DEF SendAnswer, Sends
  <2>3. answers[c] = << >> /\ ran[c] = 1
    BY <1>1, <2>2 DEF SonProgress
  <2> HIDE DEF a
  <2>4. Service!Reply(c, "OK")
    BY <1>4, <2>1, <2>2, <2>3
  <2> QED BY <2>3, <2>4 DEF Service!Next, Service!Succeed
<1>6. CASE ClientEnd(c) /\ SendError(s)
  <2> DEFINE a == ErrorAnswer(status[s])
  <2>1. a \in Answer /\ a.status = status[s]
    BY DEF ErrorAnswer, Answer, Types, TypeOK, SonsTypeOK
  <2>2. /\ phase[s] = "send_error"
        /\ answers' = [answers EXCEPT ![c] = Append(@, a)]
    BY <1>1, <1>6 DEF SendError, Sends
  <2> HIDE DEF a
  <2>3. PICK st : st = status[s]
    OBVIOUS
  <2>4. CASE answers[c] # << >>
    <3>1. Replies' = Replies
      BY <1>4, <2>1, <2>2, <2>4
    <3> QED BY <1>2, <3>1, Unseen
  <2>5. CASE answers[c] = << >>
    <3>1. Service!Reply(c, st)
      BY <1>4, <2>1, <2>2, <2>3, <2>5
    <3>2. \/ ran[c] = 0 /\ Justified(req[c], st)
          \/ st = "NO_ANSWER"
      BY <1>1, <2>2, <2>3 DEF SonProgress
    <3>3. CASE ran[c] = 0 /\ Justified(req[c], st)
      BY <3>1, <3>3, JustifiedRejects
    <3>4. CASE st = "NO_ANSWER"
      BY <3>1, <3>4 DEF Service!Next, Service!GiveUp
    <3> QED BY <3>2, <3>3, <3>4
  <2> QED BY <2>4, <2>5
<1> QED BY <1>3, <1>5, <1>6

\* The end of a function.
LEMMA ExecuteRuns ==
  ASSUME TypeOK, Judged, NEW s \in Sons, SonProgress(s), Execute(s)
  PROVE  [Service!Next]_(Service!serviceVars)
<1>1. /\ phase[s] = "execute_function" /\ UNCHANGED <<answers, req, mapper>>
      /\ ran' = [ran EXCEPT ![who[s]] = @ + 1]
  BY DEF Execute, ExecuteReturns, ExecuteNull, ExecuteTraps, ExecuteKills, Executes, Moves,
     mainVars
<1>2. PICK c \in Clients : c = who[s]
  BY <1>1 DEF TypeOK, SonsTypeOK
<1>3. Callable(req[c]) /\ answers[c] = << >> /\ ran[c] = 0
  BY <1>1, <1>2 DEF Judged, SonProgress, Unanswered
<1>4. ran' = [ran EXCEPT ![c] = 1] /\ Replies[c] = "none"
  BY <1>1, <1>2, <1>3 DEF Replies, TypeOK, CallsTypeOK
<1>5. UNCHANGED <<req, Replies, Closing>>
  BY <1>1 DEF Replies, Closing
<1>6. Service!Run(c)
  BY <1>3, <1>4, <1>5, ServiceExpanded
<1> QED BY <1>6 DEF Service!Next

\* The tracker's error for a son that a signal ended.
LEMMA ReportGivesUp ==
  ASSUME TypeOK, Progress, Report, ClientEnd(tclient)
  PROVE  [Service!Next]_(Service!serviceVars)
<1> DEFINE a == ErrorAnswer("NO_ANSWER")
<1>1. PICK c \in Clients : c = tclient
  BY DEF Report, TrackerAt, TypeOK, ThreadsTypeOK
<1>2. /\ tpc = "report" /\ UNCHANGED <<req, ran, mapper>>
      /\ answers' = [answers EXCEPT ![c] = Append(@, a)]
  BY <1>1 DEF Report, TrackerAt
<1>3. a \in Answer /\ a.status = "NO_ANSWER"
  BY DEF ErrorAnswer, Answer, Status, Types
<1> HIDE DEF a
<1>4. answers[c] = << >>
  BY <1>1, <1>2 DEF Progress, ReportsFirst, ToReport, Reported
<1>5. Service!Reply(c, "NO_ANSWER")
  BY <1>2, <1>3, <1>4, FirstAnswerDecides, ServiceExpanded DEF Closing
<1> QED BY <1>5 DEF Service!Next, Service!GiveUp

\* A step that ends no function and answers nobody does nothing the service shows,
\* but for its beginning to close.
LEMMA OthersUnseen ==
  ASSUME TypeOK, [Next]_vars, UNCHANGED <<answers, ran>>
  PROVE  [Service!Next]_(Service!serviceVars)
<1>1. req' = req /\ mapper' \subseteq mapper
  BY RequestsStay, MapperShrinks DEF vars, callVars
<1> QED BY <1>1, Unseen DEF Replies

LEMMA ServiceStep ==
  ASSUME TypeOK, Judged, Progress, [Next]_vars
  PROVE  [Service!Next]_(Service!serviceVars)
<1>1. ASSUME NEW s \in Sons, SendAnswer(s) \/ SendError(s)
      PROVE  [Service!Next]_(Service!serviceVars)
  BY <1>1, SendsServe DEF Progress
<1>2. ASSUME NEW s \in Sons, SonStep(s), ~SendAnswer(s), ~SendError(s)
      PROVE  [Service!Next]_(Service!serviceVars)
  <2>1. UNCHANGED <<answers, ran>>
    BY <1>2 DEF SonStep, SetTimer, InstallHandler, ReadMsg, ReadEof, SearchFunction,
       SearchCrashes, VerificationFunction, SendNull, SendErrorFails, CloseClient, ExitSon,
       HandleInterrupt, callVars
  <2> QED BY <2>1, OthersUnseen
<1>3. ASSUME NEW s \in Sons, Execute(s)
      PROVE  [Service!Next]_(Service!serviceVars)
  BY <1>3, ExecuteRuns DEF Progress
<1>4. ASSUME NEW s \in Sons, Timeout(s) \/ AlarmDefault(s)
      PROVE  [Service!Next]_(Service!serviceVars)
  <2>1. UNCHANGED <<answers, ran>>
    BY <1>4 DEF Timeout, Alarm, AlarmHangs, AlarmDefault, callVars
  <2> QED BY <2>1, OthersUnseen
<1>5. CASE Report /\ ClientEnd(tclient)
  BY <1>5, ReportGivesUp
<1>6. CASE \/ Acceptor \/ Exit \/ Interrupt \/ UNCHANGED vars
           \/ Tracker /\ ~(Report /\ ClientEnd(tclient))
           \/ \E c \in Clients : Caller(c)
  BY <1>6, OthersAnswerNot, OthersUnseen
<1> QED BY <1>1, <1>2, <1>3, <1>4, <1>5, <1>6 DEF Next

\* Every behaviour of the server, whatever its processes, threads, timers and signals
\* do, is one of the service: a function runs at most once, for a legal call and not
\* after its caller was answered, and the first answer is final and true.
THEOREM ServerImplementsService == Spec => ImplementsService
<1>1. Init => Service!Init
  <2> SUFFICES ASSUME Init PROVE Service!Init
    OBVIOUS
  <2>1. Replies = [c \in Clients |-> "none"] /\ Closing = FALSE
    BY DEF Init, Replies, Closing
  <2> QED BY <2>1, ServiceExpanded DEF Init
<1>2. TypeOK /\ Judged /\ Progress /\ [Next]_vars
      => [Service!Next]_(Service!serviceVars)
  BY ServiceStep
<1> QED BY <1>1, <1>2, TypeCorrect, CallsHandled, PTL
        DEF Spec, ImplementsService, Service!Spec
=============================================================================

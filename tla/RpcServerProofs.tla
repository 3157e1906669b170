-------------------------- MODULE RpcServerProofs --------------------------
(***************************************************************************)
(* Proofs about RpcServer, for any number of callers, sons, pending        *)
(* connections and descriptors, and any functions and requests.            *)
(***************************************************************************)
EXTENDS RpcServer, RpcListProofs

-----------------------------------------------------------------------------
(* Types.                                                                  *)

\* A step that leaves a group of variables alone keeps their types.
LEMMA MainStays ==
  ASSUME MainTypeOK, UNCHANGED <<server, dying, killed, mapper, mainfds>>
  PROVE  MainTypeOK'
BY DEF MainTypeOK

LEMMA ThreadsStay ==
  ASSUME ThreadsTypeOK, UNCHANGED threadVars
  PROVE  ThreadsTypeOK'
BY DEF ThreadsTypeOK, threadVars

LEMMA SonsStay ==
  ASSUME SonsTypeOK, UNCHANGED sonVars
  PROVE  SonsTypeOK'
BY DEF SonsTypeOK, sonVars

LEMMA CallsStay ==
  ASSUME CallsTypeOK, UNCHANGED callVars
  PROVE  CallsTypeOK'
BY DEF CallsTypeOK, callVars

LEMMA InitType == Init => TypeOK
<1> SUFFICES ASSUME Init PROVE TypeOK
  OBVIOUS
<1>1. MainTypeOK
  BY DEF Init, MainTypeOK
<1>2. ThreadsTypeOK
  BY DEF Init, ThreadsTypeOK
<1>3. SonsTypeOK
  BY DEF Init, SonsTypeOK, Phases, Status
<1>4. CallsTypeOK
  BY DEF Init, CallsTypeOK
<1> QED BY <1>1, <1>2, <1>3, <1>4 DEF TypeOK

\* A check of verification_function yields a status.
LEMMA VerificationType ==
  ASSUME NEW f, NEW m
  PROVE  Verification(f, m) \in Status
BY DEF Verification, Status

\* Ending son s keeps the sons' variables in their types.
LEMMA SonEndsType ==
  ASSUME SonsTypeOK, NEW s \in Sons, NEW how \in Zombie,
         phase[s] # "none", SonEnds(s, how)
  PROVE  SonsTypeOK'
BY DEF SonsTypeOK, SonEnds, Phases, Zombie, Status

\* So does moving it to another place.
LEMMA SonMovesType ==
  ASSUME MainTypeOK, ThreadsTypeOK, SonsTypeOK,
         NEW s \in Sons, NEW pc, pc # "none",
         NEW next \in Working \cup {"hung"}, Moves(s, pc, next),
         status' \in [Sons -> Status], armed' \in [Sons -> BOOLEAN]
  PROVE  MainTypeOK' /\ ThreadsTypeOK' /\ SonsTypeOK'
<1>1. MainTypeOK' /\ ThreadsTypeOK'
  BY MainStays, ThreadsStay DEF Moves, mainVars
<1>2. SonsTypeOK'
  BY DEF Moves, SonsTypeOK, Phases
<1> QED BY <1>1, <1>2

\* Ending the main process keeps the threads' and the sons' variables in their
\* types.
LEMMA MainEndsType ==
  ASSUME SonsTypeOK, MainEnds
  PROVE  MainTypeOK' /\ ThreadsTypeOK' /\ SonsTypeOK'
<1>1. MainTypeOK'
  BY DEF MainEnds, MainTypeOK
<1>2. ThreadsTypeOK'
  BY DEF MainEnds, ThreadsTypeOK
<1>3. SonsTypeOK'
  BY DEF MainEnds, SonsTypeOK, Phases, Zombie
<1> QED BY <1>1, <1>2, <1>3

\* Appending an answer keeps the types of the callers' variables.
LEMMA AnswersType ==
  ASSUME CallsTypeOK, NEW c \in Clients, NEW a \in Answer,
         answers' = [answers EXCEPT ![c] = Append(@, a)],
         UNCHANGED <<queue, cpc, req, inbox, ran>>
  PROVE  CallsTypeOK'
<1>1. Append(answers[c], a) \in Seq(Answer)
  BY AppendProperties DEF CallsTypeOK
<1>2. answers' \in [Clients -> Seq(Answer)]
  BY <1>1 DEF CallsTypeOK
<1> QED BY <1>2 DEF CallsTypeOK

\* So does counting the end of a function.
LEMMA ExecutesType ==
  ASSUME CallsTypeOK, SonsTypeOK, NEW s \in Sons, NEW ending,
         Executes(s, ending)
  PROVE  CallsTypeOK'
<1>1. who[s] \in Clients
  BY DEF Executes, SonsTypeOK
<1>2. ran' \in [Clients -> Nat]
  BY <1>1 DEF Executes, CallsTypeOK
<1> QED BY <1>2 DEF Executes, CallsTypeOK

\* The steps of the acceptor keep the types.
LEMMA AcceptorType ==
  ASSUME MainTypeOK, ThreadsTypeOK, SonsTypeOK, CallsTypeOK,
         Acceptor
  PROVE  TypeOK'
<1>1. CASE Accept
  <2>1. MainTypeOK'
    BY <1>1, HeadTailProperties DEF MainTypeOK, Accept, AcceptorAt, CallsTypeOK
  <2>2. ThreadsTypeOK'
    BY <1>1, HeadTailProperties DEF ThreadsTypeOK, Accept, AcceptorAt, CallsTypeOK
  <2>3. CallsTypeOK'
    BY <1>1, HeadTailProperties DEF CallsTypeOK, Accept, AcceptorAt
  <2>4. SonsTypeOK'
    BY <1>1, SonsStay DEF Accept, mainVars
  <2> QED BY <2>1, <2>2, <2>3, <2>4 DEF TypeOK
<1>2. ASSUME NEW s \in Sons, Fork(s) PROVE TypeOK'
  <2>1. ThreadsTypeOK'
    BY <1>2 DEF ThreadsTypeOK, Fork, AcceptorAt
  <2>2. PICK found \in SUBSET Functions : sonmap' = [sonmap EXCEPT ![s] = found]
    BY <1>2 DEF Fork, Found
  <2>3. SonsTypeOK'
    BY <1>2, <2>2 DEF SonsTypeOK, Fork, AcceptorAt, ThreadsTypeOK, MainTypeOK, Phases,
                      Working
  <2>4. MainTypeOK' /\ CallsTypeOK'
    BY <1>2, MainStays, CallsStay DEF Fork, mainVars
  <2> QED BY <2>1, <2>3, <2>4 DEF TypeOK
<1>3. CASE ForkFails
  <2>1. ThreadsTypeOK'
    BY <1>3 DEF ThreadsTypeOK, ForkFails, AcceptorAt
  <2>2. MainTypeOK' /\ SonsTypeOK' /\ CallsTypeOK'
    BY <1>3, MainStays, SonsStay, CallsStay DEF ForkFails, mainVars
  <2> QED BY <2>1, <2>2 DEF TypeOK
<1>4. CASE AcceptorLock
  <2>1. ThreadsTypeOK'
    BY <1>4 DEF ThreadsTypeOK, AcceptorLock, AcceptorAt, Threads
  <2>2. MainTypeOK' /\ SonsTypeOK' /\ CallsTypeOK'
    BY <1>4, MainStays, SonsStay, CallsStay DEF AcceptorLock, mainVars
  <2> QED BY <2>1, <2>2 DEF TypeOK
<1>5. CASE KeepTrackOfClient
  <2>1. ThreadsTypeOK'
    BY <1>5 DEF ThreadsTypeOK, KeepTrackOfClient, AcceptorAt, Record
  <2>2. MainTypeOK' /\ SonsTypeOK' /\ CallsTypeOK'
    BY <1>5, MainStays, SonsStay, CallsStay DEF KeepTrackOfClient, mainVars
  <2> QED BY <2>1, <2>2 DEF TypeOK
<1>6. CASE AcceptorUnlock
  <2>1. ThreadsTypeOK'
    BY <1>6 DEF ThreadsTypeOK, AcceptorUnlock, AcceptorAt
  <2>2. MainTypeOK' /\ SonsTypeOK' /\ CallsTypeOK'
    BY <1>6, MainStays, SonsStay, CallsStay DEF AcceptorUnlock, mainVars
  <2> QED BY <2>1, <2>2 DEF TypeOK
<1> QED BY <1>1, <1>2, <1>3, <1>4, <1>5, <1>6 DEF Acceptor

\* The steps of the tracker keep the types.
LEMMA TrackerType ==
  ASSUME MainTypeOK, ThreadsTypeOK, SonsTypeOK, CallsTypeOK,
         Tracker
  PROVE  TypeOK'
<1>1. CASE TrackerLock
  <2>1. ThreadsTypeOK'
    BY <1>1 DEF ThreadsTypeOK, TrackerLock, TrackerAt, Threads
  <2>2. MainTypeOK' /\ SonsTypeOK' /\ CallsTypeOK'
    BY <1>1, MainStays, SonsStay, CallsStay DEF TrackerLock, mainVars
  <2> QED BY <2>1, <2>2 DEF TypeOK
<1>2. CASE Reap
  <2>1. ThreadsTypeOK'
    BY <1>2 DEF ThreadsTypeOK, Reap, TrackerAt
  <2>2. SonsTypeOK'
    BY <1>2 DEF SonsTypeOK, Reap, TrackerAt, Phases, Zombie
  <2>3. MainTypeOK' /\ CallsTypeOK'
    BY <1>2, MainStays, CallsStay DEF Reap, mainVars
  <2> QED BY <2>1, <2>2, <2>3 DEF TypeOK
<1>3. CASE RemoveExited
  <2>1. ThreadsTypeOK'
    BY <1>3, RemoveAtProperties DEF ThreadsTypeOK, RemoveExited, TrackerAt
  <2>2. MainTypeOK' /\ SonsTypeOK' /\ CallsTypeOK'
    BY <1>3, MainStays, SonsStay, CallsStay DEF RemoveExited, mainVars
  <2> QED BY <2>1, <2>2 DEF TypeOK
<1>4. CASE RemoveSignaled
  <2>1. ThreadsTypeOK'
    <3>1. alive[p] \in Record
      BY <1>4, ElementOfSeq DEF ThreadsTypeOK, RemoveSignaled, TrackerAt
    <3>2. alive[p].client \in Clients
      BY <3>1 DEF Record
    <3> QED BY <1>4, <3>2, RemoveAtProperties
            DEF ThreadsTypeOK, RemoveSignaled, TrackerAt
  <2>2. MainTypeOK' /\ SonsTypeOK' /\ CallsTypeOK'
    BY <1>4, MainStays, SonsStay, CallsStay DEF RemoveSignaled, mainVars
  <2> QED BY <2>1, <2>2 DEF TypeOK
<1>5. CASE Report
  <2>1. CallsTypeOK'
    <3>1. ErrorAnswer("NO_ANSWER") \in Answer
      BY DEF ErrorAnswer, Answer, Status, Types
    <3>2. CASE ClientEnd(tclient)
      BY <1>5, <3>1, <3>2, AnswersType DEF Report, TrackerAt, ThreadsTypeOK
    <3>3. CASE ~ClientEnd(tclient)
      BY <1>5, <3>3, CallsStay DEF Report, callVars
    <3> QED BY <3>2, <3>3
  <2>2. CASE ClientEnd(tclient)
    <3>1. ThreadsTypeOK'
      BY <1>5, <2>2 DEF Report, TrackerAt, ThreadsTypeOK
    <3>2. MainTypeOK' /\ SonsTypeOK'
      BY <1>5, <2>2, MainStays, SonsStay DEF Report
    <3> QED BY <2>1, <3>1, <3>2 DEF TypeOK
  <2>3. CASE ~ClientEnd(tclient)
    BY <1>5, <2>1, <2>3, MainEndsType DEF Report, TypeOK
  <2> QED BY <2>2, <2>3
<1>6. CASE TrackerExit
  BY <1>6, MainEndsType, CallsStay DEF TrackerExit, TypeOK
<1>7. CASE TrackerUnlock
  <2>1. ThreadsTypeOK'
    BY <1>7 DEF ThreadsTypeOK, TrackerUnlock, TrackerAt
  <2>2. MainTypeOK' /\ SonsTypeOK' /\ CallsTypeOK'
    BY <1>7, MainStays, SonsStay, CallsStay DEF TrackerUnlock, mainVars
  <2> QED BY <2>1, <2>2 DEF TypeOK
<1> QED BY <1>1, <1>2, <1>3, <1>4, <1>5, <1>6, <1>7 DEF Tracker

\* So do those of an exit and Ctrl-C.
LEMMA ExitType ==
  ASSUME MainTypeOK, ThreadsTypeOK, SonsTypeOK, CallsTypeOK,
         Exit \/ Interrupt
  PROVE  TypeOK'
<1>1. ASSUME NEW t \in Threads, HandleKill(t) PROVE TypeOK'
  <2>1. MainTypeOK'
    BY <1>1 DEF MainTypeOK, HandleKill
  <2>2. ThreadsTypeOK' /\ SonsTypeOK' /\ CallsTypeOK'
    BY <1>1, ThreadsStay, SonsStay, CallsStay DEF HandleKill, mainVars
  <2> QED BY <2>1, <2>2 DEF TypeOK
<1>2. ASSUME NEW f \in Functions, ClearMapper(f) PROVE TypeOK'
  <2>1. MainTypeOK'
    BY <1>2 DEF MainTypeOK, ClearMapper
  <2>2. ThreadsTypeOK' /\ SonsTypeOK' /\ CallsTypeOK'
    BY <1>2, ThreadsStay, SonsStay, CallsStay DEF ClearMapper, mainVars
  <2> QED BY <2>1, <2>2 DEF TypeOK
<1>3. CASE ExitMain
  BY <1>3, MainEndsType, CallsStay DEF ExitMain, TypeOK
<1>4. CASE Interrupt
  <2>1. MainTypeOK'
    BY <1>4 DEF MainTypeOK, Interrupt
  <2>2. SonsTypeOK'
    BY <1>4 DEF SonsTypeOK, Interrupt
  <2>3. ThreadsTypeOK' /\ CallsTypeOK'
    BY <1>4, ThreadsStay, CallsStay DEF Interrupt, mainVars
  <2> QED BY <2>1, <2>2, <2>3 DEF TypeOK
<1> QED BY <1>1, <1>2, <1>3, <1>4 DEF Exit

\* Sending an answer keeps the types, whether the caller is there or not.
LEMMA SendsType ==
  ASSUME MainTypeOK, ThreadsTypeOK, SonsTypeOK, CallsTypeOK,
         NEW s \in Sons, NEW pc, pc # "none", NEW a \in Answer,
         NEW next \in Working, Sends(s, pc, a, next)
  PROVE  TypeOK'
<1>1. who[s] \in Clients
  BY DEF Sends, SonsTypeOK
<1>2. CASE ClientEnd(who[s])
  <2>1. CallsTypeOK'
    BY <1>1, <1>2, AnswersType DEF Sends
  <2>2. Moves(s, pc, next) /\ UNCHANGED <<status, armed>>
    BY <1>2 DEF Sends
  <2>3. status' \in [Sons -> Status] /\ armed' \in [Sons -> BOOLEAN]
    BY <2>2 DEF SonsTypeOK
  <2>4. MainTypeOK' /\ ThreadsTypeOK' /\ SonsTypeOK'
    BY <2>2, <2>3, SonMovesType
  <2> QED BY <2>1, <2>4 DEF TypeOK
<1>3. CASE ~ClientEnd(who[s])
  BY <1>3, SonEndsType, MainStays, ThreadsStay, CallsStay
     DEF Sends, mainVars, callVars, Zombie, TypeOK
<1> QED BY <1>2, <1>3

\* The steps of a son keep the types.
LEMMA SonStepType ==
  ASSUME MainTypeOK, ThreadsTypeOK, SonsTypeOK, CallsTypeOK,
         NEW s \in Sons, SonStep(s)
  PROVE  TypeOK'
<1>1. CASE SetTimer(s)
  <2>1. PICK next \in Working : Moves(s, "gestion_client", next)
    BY <1>1 DEF SetTimer, Rejects, Working
  <2>2. status' \in [Sons -> Status] /\ armed' \in [Sons -> BOOLEAN]
    BY <1>1 DEF SetTimer, Rejects, SonsTypeOK
  <2>3. MainTypeOK' /\ ThreadsTypeOK' /\ SonsTypeOK'
    BY <2>1, <2>2, SonMovesType
  <2> QED BY <1>1, <2>3, CallsStay DEF SetTimer, TypeOK
<1>2. CASE InstallHandler(s)
  <2>1. PICK next \in Working : Moves(s, "set_timeout", next)
    BY <1>2 DEF InstallHandler, Rejects, Working
  <2>2. status' \in [Sons -> Status] /\ armed' \in [Sons -> BOOLEAN]
    BY <1>2 DEF InstallHandler, Rejects, SonsTypeOK
  <2>3. MainTypeOK' /\ ThreadsTypeOK' /\ SonsTypeOK'
    BY <2>1, <2>2, SonMovesType
  <2> QED BY <1>2, <2>3, CallsStay DEF InstallHandler, TypeOK
<1>3. CASE ReadMsg(s)
  <2>1. CallsTypeOK'
    BY <1>3 DEF ReadMsg, CallsTypeOK
  <2>2. CASE req[who[s]].decodes
    <3>1. Moves(s, "read_msg", "search_function") /\ UNCHANGED <<status, armed>>
      BY <1>3, <2>2 DEF ReadMsg
    <3>2. status' \in [Sons -> Status] /\ armed' \in [Sons -> BOOLEAN]
      BY <3>1 DEF SonsTypeOK
    <3>3. MainTypeOK' /\ ThreadsTypeOK' /\ SonsTypeOK'
      BY <3>1, <3>2, SonMovesType DEF Working
    <3> QED BY <2>1, <3>3 DEF TypeOK
  <2>3. CASE ~req[who[s]].decodes
    <3>1. PICK how \in Zombie : SonEnds(s, how)
      BY <1>3, <2>3 DEF ReadMsg
    <3>2. SonsTypeOK'
      BY <1>3, <3>1, SonEndsType DEF ReadMsg
    <3>3. MainTypeOK' /\ ThreadsTypeOK'
      BY <1>3, <2>3, MainStays, ThreadsStay DEF ReadMsg, mainVars
    <3> QED BY <2>1, <3>2, <3>3 DEF TypeOK
  <2> QED BY <2>2, <2>3
<1>4. CASE ReadEof(s)
  <2>1. PICK how \in Zombie : SonEnds(s, how)
    BY <1>4 DEF ReadEof
  <2>2. SonsTypeOK'
    BY <1>4, <2>1, SonEndsType DEF ReadEof
  <2> QED BY <1>4, <2>2, MainStays, ThreadsStay, CallsStay
          DEF ReadEof, mainVars, TypeOK
<1>5. CASE SearchFunction(s)
  <2>1. PICK next \in Working : Moves(s, "search_function", next)
    BY <1>5 DEF SearchFunction, Rejects, Working
  <2>2. status' \in [Sons -> Status] /\ armed' \in [Sons -> BOOLEAN]
    BY <1>5 DEF SearchFunction, Rejects, SonsTypeOK, Status
  <2>3. MainTypeOK' /\ ThreadsTypeOK' /\ SonsTypeOK'
    BY <2>1, <2>2, SonMovesType
  <2> QED BY <1>5, <2>3, CallsStay DEF SearchFunction, TypeOK
<1>6. CASE VerificationFunction(s)
  <2>1. PICK next \in Working : Moves(s, "verification_function", next)
    BY <1>6 DEF VerificationFunction, Rejects, Working
  <2>2. status' \in [Sons -> Status] /\ armed' \in [Sons -> BOOLEAN]
    BY <1>6, VerificationType DEF VerificationFunction, Rejects, SonsTypeOK
  <2>3. MainTypeOK' /\ ThreadsTypeOK' /\ SonsTypeOK'
    BY <2>1, <2>2, SonMovesType
  <2> QED BY <1>6, <2>3, CallsStay DEF VerificationFunction, TypeOK
<1>7. CASE SendAnswer(s)
  <2>1. [status |-> "OK", typ |-> req[who[s]].return_type] \in Answer
    <3>1. who[s] \in Clients
      BY <1>7 DEF SendAnswer, Sends, SonsTypeOK
    <3>2. req[who[s]].return_type \in Types
      BY <3>1, ProtocolAssumption DEF CallsTypeOK
    <3> QED BY <3>2 DEF Answer, Status
  <2> QED BY <1>7, <2>1, SendsType DEF SendAnswer, Working
<1>8. CASE SendError(s)
  <2>1. ErrorAnswer(status[s]) \in Answer
    BY DEF ErrorAnswer, Answer, Types, SonsTypeOK
  <2> QED BY <1>8, <2>1, SendsType DEF SendError, Working
<1>9. CASE SendErrorFails(s)
  BY <1>9, SonEndsType, MainStays, ThreadsStay, CallsStay
     DEF SendErrorFails, mainVars, Zombie, Working, TypeOK
<1>10. CASE CloseClient(s)
  <2>1. SonsTypeOK'
    BY <1>10 DEF CloseClient, SonsTypeOK, Phases, Working
  <2> QED BY <1>10, <2>1, MainStays, ThreadsStay, CallsStay
          DEF CloseClient, mainVars, TypeOK
<1>11. CASE ExitSon(s)
  BY <1>11, SonEndsType, MainStays, ThreadsStay, CallsStay
     DEF ExitSon, mainVars, Zombie, Working, TypeOK
<1>12. CASE HandleInterrupt(s)
  BY <1>12, SonEndsType, MainStays, ThreadsStay, CallsStay
     DEF HandleInterrupt, mainVars, Zombie, Working, TypeOK
<1>13. CASE SearchCrashes(s)
  BY <1>13, SonEndsType, MainStays, ThreadsStay, CallsStay
     DEF SearchCrashes, mainVars, Zombie, Working, TypeOK
<1>14. CASE SendNull(s)
  <2>1. PICK how \in Zombie : SonEnds(s, how)
    BY <1>14 DEF SendNull, Zombie
  <2>2. SonsTypeOK'
    BY <1>14, <2>1, SonEndsType DEF SendNull
  <2> QED BY <1>14, <2>2, MainStays, ThreadsStay, CallsStay
          DEF SendNull, mainVars, TypeOK
<1> QED BY <1>1, <1>2, <1>3, <1>4, <1>5, <1>6, <1>7, <1>8, <1>9, <1>10, <1>11, <1>12,
           <1>13, <1>14 DEF SonStep

\* So does the end of a function.
LEMMA ExecuteType ==
  ASSUME MainTypeOK, ThreadsTypeOK, SonsTypeOK, CallsTypeOK,
         NEW s \in Sons, Execute(s)
  PROVE  TypeOK'
<1>1. CASE ExecuteReturns(s)
  <2>1. CallsTypeOK'
    BY <1>1, ExecutesType DEF ExecuteReturns
  <2>2. MainTypeOK' /\ ThreadsTypeOK' /\ SonsTypeOK'
    <3>1. status' \in [Sons -> Status] /\ armed' \in [Sons -> BOOLEAN]
      BY <1>1 DEF ExecuteReturns, SonsTypeOK
    <3> QED BY <1>1, <3>1, SonMovesType DEF ExecuteReturns, Working
  <2> QED BY <2>1, <2>2 DEF TypeOK
<1>2. CASE ExecuteNull(s)
  <2>1. CallsTypeOK'
    BY <1>2, ExecutesType DEF ExecuteNull
  <2>2. MainTypeOK' /\ ThreadsTypeOK' /\ SonsTypeOK'
    <3>1. status' \in [Sons -> Status] /\ armed' \in [Sons -> BOOLEAN]
      BY <1>2 DEF ExecuteNull, SonsTypeOK
    <3> QED BY <1>2, <3>1, SonMovesType DEF ExecuteNull, Working
  <2> QED BY <2>1, <2>2 DEF TypeOK
<1>3. CASE ExecuteTraps(s)
  <2>1. CallsTypeOK'
    BY <1>3, ExecutesType DEF ExecuteTraps
  <2>2. MainTypeOK' /\ ThreadsTypeOK' /\ SonsTypeOK'
    BY <1>3, SonEndsType, MainStays, ThreadsStay
       DEF ExecuteTraps, Executes, mainVars, Zombie
  <2> QED BY <2>1, <2>2 DEF TypeOK
<1>4. CASE ExecuteKills(s)
  <2>1. CallsTypeOK'
    BY <1>4, ExecutesType DEF ExecuteKills
  <2>2. MainTypeOK' /\ ThreadsTypeOK' /\ SonsTypeOK'
    <3>1. MainTypeOK'
      BY <1>4 DEF ExecuteKills, MainTypeOK
    <3>2. SonsTypeOK'
      BY <1>4 DEF ExecuteKills, Executes, SonsTypeOK, Phases, Working
    <3> QED BY <1>4, <3>1, <3>2, ThreadsStay DEF ExecuteKills
  <2> QED BY <2>1, <2>2 DEF TypeOK
<1> QED BY <1>1, <1>2, <1>3, <1>4 DEF Execute

\* So does SIGALRM.
LEMMA AlarmType ==
  ASSUME MainTypeOK, ThreadsTypeOK, SonsTypeOK, CallsTypeOK,
         NEW s \in Sons, Timeout(s) \/ AlarmDefault(s)
  PROVE  TypeOK'
<1>1. CASE Alarm(s)
  <2>1. phase[s] # "none" /\ Moves(s, phase[s], "send_error")
    BY <1>1 DEF Alarm, Rejects, Handling, Working
  <2>2. status' \in [Sons -> Status] /\ armed' \in [Sons -> BOOLEAN]
    BY <1>1 DEF Alarm, Rejects, SonsTypeOK, Status
  <2>3. MainTypeOK' /\ ThreadsTypeOK' /\ SonsTypeOK'
    BY <2>1, <2>2, SonMovesType DEF Working
  <2> QED BY <1>1, <2>3, CallsStay DEF Alarm, TypeOK
<1>2. CASE AlarmHangs(s)
  <2>1. phase[s] # "none" /\ Moves(s, phase[s], "hung")
    BY <1>2 DEF AlarmHangs, Rejects, Handling, Working
  <2>2. status' \in [Sons -> Status] /\ armed' \in [Sons -> BOOLEAN]
    BY <1>2 DEF AlarmHangs, Rejects, SonsTypeOK, Status
  <2>3. MainTypeOK' /\ ThreadsTypeOK' /\ SonsTypeOK'
    BY <2>1, <2>2, SonMovesType DEF Working
  <2> QED BY <1>2, <2>3, CallsStay DEF AlarmHangs, TypeOK
<1>3. CASE AlarmDefault(s)
  BY <1>3, SonEndsType, MainStays, ThreadsStay, CallsStay
     DEF AlarmDefault, mainVars, Zombie, Working, TypeOK
<1> QED BY <1>1, <1>2, <1>3 DEF Timeout

\* So do the steps of a caller.
LEMMA CallerType ==
  ASSUME MainTypeOK, ThreadsTypeOK, SonsTypeOK, CallsTypeOK,
         NEW c \in Clients, Caller(c)
  PROVE  TypeOK'
<1>1. CASE Connect(c)
  <2>1. CallsTypeOK'
    BY <1>1, AppendProperties DEF CallsTypeOK, Connect
  <2>2. MainTypeOK' /\ ThreadsTypeOK' /\ SonsTypeOK'
    BY <1>1, MainStays, ThreadsStay, SonsStay DEF Connect, mainVars
  <2> QED BY <2>1, <2>2 DEF TypeOK
<1>2. CASE ConnectFails(c)
  <2>1. CallsTypeOK'
    BY <1>2 DEF CallsTypeOK, ConnectFails
  <2>2. MainTypeOK' /\ ThreadsTypeOK' /\ SonsTypeOK'
    BY <1>2, MainStays, ThreadsStay, SonsStay DEF ConnectFails, mainVars
  <2> QED BY <2>1, <2>2 DEF TypeOK
<1>3. CASE SendCmd(c)
  <2>1. CallsTypeOK'
    BY <1>3 DEF CallsTypeOK, SendCmd
  <2>2. MainTypeOK' /\ ThreadsTypeOK' /\ SonsTypeOK'
    BY <1>3, MainStays, ThreadsStay, SonsStay DEF SendCmd, mainVars
  <2> QED BY <2>1, <2>2 DEF TypeOK
<1>4. CASE GetAnswer(c)
  <2>1. CallsTypeOK'
    BY <1>4 DEF CallsTypeOK, GetAnswer
  <2>2. MainTypeOK' /\ ThreadsTypeOK' /\ SonsTypeOK'
    BY <1>4, MainStays, ThreadsStay, SonsStay DEF GetAnswer, mainVars
  <2> QED BY <2>1, <2>2 DEF TypeOK
<1>5. CASE GetEof(c)
  <2>1. CallsTypeOK'
    BY <1>5 DEF CallsTypeOK, GetEof
  <2>2. MainTypeOK' /\ ThreadsTypeOK' /\ SonsTypeOK'
    BY <1>5, MainStays, ThreadsStay, SonsStay DEF GetEof, mainVars
  <2> QED BY <2>1, <2>2 DEF TypeOK
<1>6. CASE ClientDies(c)
  <2>1. CallsTypeOK'
    BY <1>6 DEF CallsTypeOK, ClientDies
  <2>2. MainTypeOK' /\ ThreadsTypeOK' /\ SonsTypeOK'
    BY <1>6, MainStays, ThreadsStay, SonsStay DEF ClientDies, mainVars
  <2> QED BY <2>1, <2>2 DEF TypeOK
<1> QED BY <1>1, <1>2, <1>3, <1>4, <1>5, <1>6 DEF Caller, Receive

\* Every variable keeps its type, and the threads and sons have what their
\* places need: no thread removes a record that is not there, reports to no
\* client or records no son.
THEOREM TypeCorrect == Spec => []TypeOK
<1>1. TypeOK /\ [Next]_vars => TypeOK'
  <2> SUFFICES ASSUME TypeOK, [Next]_vars
               PROVE  TypeOK'
    OBVIOUS
  <2> USE DEF TypeOK
  <2>1. CASE Next
    BY <2>1, AcceptorType, TrackerType, ExitType, SonStepType, ExecuteType,
       AlarmType, CallerType
       DEF Next
  <2>2. CASE UNCHANGED vars
    BY <2>2, MainStays, ThreadsStay, SonsStay, CallsStay DEF vars, mainVars
  <2> QED BY <2>1, <2>2
<1> QED BY <1>1, InitType, PTL DEF Spec
=============================================================================

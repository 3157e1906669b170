--------------------------- MODULE RpcSocketProofs ---------------------------
(***************************************************************************)
(* Theorems about RpcSocket, for every set of servers and callers.         *)
(***************************************************************************)
EXTENDS RpcSocket, TLAPS

\* The types of what serv_sock works on; the callers come later.
PathTypeOK ==
  /\ pc \in [Servers -> Starting \cup {"off", "serving", "denied", "failed", "lacking", "ended"}]
  /\ path \in Servers \cup {NULL}
  /\ rivals \in [Servers -> SUBSET Servers]
  /\ bound \subseteq Servers

\* The path leads to a server that bound it.
PathBound == path # NULL => path \in bound

\* Every server that was started and got all it asked the kernel for knows every
\* other one that is in serv_sock: the one that came second has told it, or has
\* found it there.
Met ==
  \A s, r \in Servers :
    s # r /\ pc[s] \notin {"off", "lacking"} /\ pc[r] \in Starting => r \in rivals[s]

\* A server that met nobody finds the path as it left it, and one that met only
\* servers that may not remove its path keeps it.
Undisturbed ==
  \A s \in Servers :
    /\ pc[s] = "bind" /\ rivals[s] = {} => path = NULL
    /\ pc[s] \in {"listen", "serving"} /\ (\A r \in rivals[s] : ~Allowed(r, s)) => path = s

PathInv == PathTypeOK /\ PathBound /\ Met /\ Undisturbed /\ FailsOnlyToOthers

-----------------------------------------------------------------------------
\* Starting makes rivals: whoever was started before and whoever is in
\* serv_sock know of each other from then on, and nobody forgets.
LEMMA StartMakesRivals ==
  ASSUME PathInv, NEW s \in Servers, Start(s)
  PROVE  PathInv'
<1> USE DEF PathInv, PathTypeOK, Starting
<1>1. PathTypeOK'
  BY DEF Start, InServSock
<1>2. /\ \A r \in Servers : r # s => pc'[r] = pc[r] /\ rivals[r] \subseteq rivals'[r]
      /\ pc'[s] = "unlink" /\ UNCHANGED <<path, bound>>
  BY DEF Start
<1>3. Met'
  <2> SUFFICES ASSUME NEW a \in Servers, NEW b \in Servers, a # b,
                      pc'[a] \notin {"off", "lacking"}, pc'[b] \in Starting
               PROVE  b \in rivals'[a]
    BY DEF Met
  <2>1. CASE a = s
    BY <2>1, <1>2 DEF Start, InServSock
  <2>2. CASE b = s
    BY <2>2 DEF Start
  <2>3. CASE a # s /\ b # s
    BY <2>3, <1>2 DEF Met
  <2> QED BY <2>1, <2>2, <2>3
<1>4. Undisturbed'
  BY <1>2 DEF Undisturbed
<1>5. FailsOnlyToOthers'
  BY <1>2 DEF FailsOnlyToOthers
<1>6. PathBound'
  BY <1>2 DEF PathBound
<1> QED BY <1>1, <1>3, <1>4, <1>5, <1>6

\* A step of serv_sock disturbs only servers that have met the one that makes
\* it, and takes the path only from servers whose path it may remove.
LEMMA ServSockStep ==
  ASSUME PathInv, NEW s \in Servers,
         Unlink(s) \/ UnlinkDenied(s) \/ Bind(s) \/ BindFails(s) \/ Listen(s)
  PROVE  PathInv'
<1> USE SocketAssumption DEF PathInv, PathTypeOK, Starting
<1>1. /\ pc[s] \in Starting
      /\ \E p \in {"bind", "listen", "denied", "failed", "serving"} : pc' = [pc EXCEPT ![s] = p]
      /\ rivals' = rivals /\ bound \subseteq bound'
  BY DEF Unlink, UnlinkDenied, Bind, BindFails, Listen
<1>2. PathTypeOK' /\ PathBound'
  BY <1>1 DEF PathBound, Unlink, UnlinkDenied, Bind, BindFails, Listen
<1>3. \A r \in Servers : r # s /\ pc[r] \notin {"off", "lacking"} => s \in rivals[r]
  BY <1>1 DEF Met
<1>4. Met'
  BY <1>1 DEF Met
<1>5. Undisturbed'
  <2>1. ASSUME NEW r \in Servers, pc'[r] = "bind", rivals'[r] = {}
        PROVE  path' = NULL
    <3>1. CASE r = s
      BY <2>1, <3>1, <1>1 DEF Unlink, UnlinkDenied, Bind, BindFails, Listen
    <3>2. CASE r # s
      BY <2>1, <3>2, <1>1, <1>3
    <3> QED BY <3>1, <3>2
  <2>2. ASSUME NEW r \in Servers, pc'[r] \in {"listen", "serving"},
               \A q \in rivals'[r] : ~Allowed(q, r)
        PROVE  path' = r
    <3>1. CASE r = s
      BY <2>2, <3>1, <1>1 DEF Undisturbed, Unlink, UnlinkDenied, Bind, BindFails, Listen
    <3>2. CASE r # s
      <4>1. pc[r] \in {"listen", "serving"} /\ rivals[r] = rivals'[r]
        BY <2>2, <3>2, <1>1
      <4>2. path = r /\ ~Allowed(s, r)
        BY <4>1, <2>2, <3>2, <1>3 DEF Undisturbed
      <4> QED BY <4>2 DEF Unlink, UnlinkDenied, Bind, BindFails, Listen
    <3> QED BY <3>1, <3>2
  <2> QED BY <2>1, <2>2 DEF Undisturbed
<1>6. FailsOnlyToOthers'
  <2>1. ASSUME NEW r \in Servers, pc'[r] = "failed"
        PROVE  rivals'[r] # {}
    BY <2>1, <1>1 DEF FailsOnlyToOthers, Undisturbed, Unlink, UnlinkDenied, Bind, BindFails, Listen
  <2>2. ASSUME NEW r \in Servers, pc'[r] = "denied"
        PROVE  \E q \in bound' : ~Allowed(r, q)
    <3>1. CASE r = s
      BY <2>2, <3>1, <1>1 DEF PathBound, Unlink, UnlinkDenied, Bind, BindFails, Listen
    <3>2. CASE r # s
      BY <2>2, <3>2, <1>1 DEF FailsOnlyToOthers
    <3> QED BY <3>1, <3>2
  <2> QED BY <2>1, <2>2 DEF FailsOnlyToOthers
<1> QED BY <1>2, <1>4, <1>5, <1>6

\* A failure for lack of resources and the end of a main process leave the path
\* and make nobody a rival.
LEMMA EndLeavesPath ==
  ASSUME PathInv, NEW s \in Servers, MainEnds(s) \/ Lacks(s)
  PROVE  PathInv'
<1> USE DEF PathInv, PathTypeOK, Starting
<1>1. /\ UNCHANGED <<path, rivals, bound>>
      /\ \E p \in {"ended", "lacking"} : pc' = [pc EXCEPT ![s] = p]
      /\ pc[s] \in Starting \cup {"off", "serving"} /\ (pc[s] = "off" => pc'[s] = "lacking")
  BY DEF MainEnds, Lacks
<1>2. PathTypeOK' /\ PathBound'
  BY <1>1 DEF PathBound
<1>3. Met'
  BY <1>1 DEF Met
<1>4. Undisturbed'
  BY <1>1 DEF Undisturbed
<1>5. FailsOnlyToOthers'
  BY <1>1 DEF FailsOnlyToOthers
<1> QED BY <1>2, <1>3, <1>4, <1>5

\* Callers and sons touch neither.
LEMMA CallersLeavePath ==
  ASSUME NEW c \in Callers,
         Connect(c) \/ ConnectFails(c) \/ Accept(c) \/ SonAnswers(c) \/ SonTimesOut(c)
  PROVE  UNCHANGED <<pc, path, rivals, bound>>
BY DEF Connect, ConnectFails, Accept, SonAnswers, SonTimesOut, SonExits

LEMMA PathInvariant == Spec => []PathInv
<1>1. Init => PathInv
  BY DEF Init, PathInv, PathTypeOK, PathBound, Met, Undisturbed, FailsOnlyToOthers, Starting
<1>2. PathInv /\ [Next]_vars => PathInv'
  <2> SUFFICES ASSUME PathInv, [Next]_vars PROVE PathInv'
    OBVIOUS
  <2>1. ASSUME NEW s \in Servers, ServSock(s) PROVE PathInv'
    BY <2>1, StartMakesRivals, ServSockStep, EndLeavesPath DEF ServSock
  <2>2. ASSUME NEW s \in Servers, MainEnds(s) PROVE PathInv'
    BY <2>2, EndLeavesPath
  <2>3. CASE UNCHANGED <<pc, path, rivals, bound>>
    BY <2>3 DEF PathInv, PathTypeOK, PathBound, Met, Undisturbed, FailsOnlyToOthers
  <2>4. CASE UNCHANGED vars
    BY <2>4, <2>3 DEF vars
  <2> QED BY <2>1, <2>2, <2>3, <2>4, CallersLeavePath DEF Next
<1> QED BY <1>1, <1>2, PTL DEF Spec

-----------------------------------------------------------------------------
\* Types, and the callers of a server: TypeOK is inductive.  A server keeps its
\* socket open as long as it serves or a son of its does, and the step that
\* ends the last of them resets whoever is in the backlog.
THEOREM SocketTypeCorrect == Spec => []TypeOK
<1> USE SocketAssumption DEF Starting, Places
<1>1. Init => TypeOK
  BY DEF Init, TypeOK
<1>2. TypeOK /\ [Next]_vars => TypeOK'
  <2> SUFFICES ASSUME TypeOK, [Next]_vars PROVE TypeOK'
    OBVIOUS
  <2> USE DEF TypeOK
  <2>1. ASSUME NEW s \in Servers, Start(s) PROVE TypeOK'
    BY <2>1 DEF Start, InServSock, Listening, Sons
  <2>2. ASSUME NEW s \in Servers,
               Unlink(s) \/ UnlinkDenied(s) \/ Bind(s) \/ BindFails(s) \/ Listen(s) \/ Lacks(s)
        PROVE  TypeOK'
    BY <2>2 DEF Unlink, UnlinkDenied, Bind, BindFails, Listen, Lacks, Listening, Sons
  <2>3. ASSUME NEW s \in Servers, MainEnds(s) PROVE TypeOK'
    BY <2>3 DEF MainEnds, Reset, Listening, Sons
  <2>4. ASSUME NEW c \in Callers, Connect(c) \/ ConnectFails(c) \/ Accept(c) PROVE TypeOK'
    BY <2>4 DEF Connect, ConnectFails, Accept, Listening, Sons
  <2>5. ASSUME NEW c \in Callers, NEW how \in {"answered", "timeout"}, SonExits(c, how)
        PROVE  TypeOK'
    <3> DEFINE s == conn[c]
               held == pc[s] = "serving" \/ Sons(s) # {c}
    <3>1. /\ place[c] = "served" /\ s \in Servers
          /\ UNCHANGED <<pc, path, conn, rivals, bound>>
      BY <2>5 DEF SonExits
    <3>2. /\ place' \in [Callers -> Places] /\ place'[c] = how
          /\ \A d \in Callers : d # c /\ ~(~held /\ place[d] = "queued" /\ conn[d] = s)
                                 => place'[d] = place[d]
          /\ \A d \in Callers : ~held /\ place[d] = "queued" /\ conn[d] = s
                                 => place'[d] = "reset"
      BY <2>5, <3>1 DEF SonExits, Reset
    <3>3. ASSUME NEW d \in Callers, place'[d] = "queued"
          PROVE  Listening(conn[d])'
      <4>1. place[d] = "queued" /\ Listening(conn[d]) /\ ~(~held /\ conn[d] = s)
        BY <3>2, <3>3
      <4>2. CASE conn[d] = s
        <5>1. CASE pc[s] = "serving"
          BY <5>1, <4>2, <3>1 DEF Listening
        <5>2. CASE Sons(s) # {c}
          <6>1. c \in Sons(s)
            BY <3>1 DEF Sons
          <6>2. PICK e \in Sons(s) : e # c
            BY <5>2, <6>1
          <6>3. e \in Sons(s)'
            BY <6>2, <3>1, <3>2 DEF Sons
          <6> QED BY <6>3, <4>2, <3>1 DEF Listening
        <5> QED BY <4>1, <4>2, <5>1, <5>2
      <4>3. CASE conn[d] # s
        BY <4>1, <4>3, <3>1, <3>2 DEF Listening, Sons
      <4> QED BY <4>2, <4>3
    <3>4. \A d \in Callers : conn'[d] = NULL <=> place'[d] \in {"off", "refused"}
      BY <3>1, <3>2
    <3>5. \A d \in Callers : place'[d] \in {"queued", "served"} => pc'[conn'[d]] \in {"serving", "ended"}
      BY <3>1, <3>2
    <3> QED BY <3>1, <3>2, <3>3, <3>4, <3>5
  <2>6. CASE UNCHANGED vars
    BY <2>6 DEF vars, Listening, Sons
  <2> QED BY <2>1, <2>2, <2>3, <2>4, <2>5, <2>6
          DEF Next, ServSock, SonAnswers, SonTimesOut
<1> QED BY <1>1, <1>2, PTL DEF Spec

-----------------------------------------------------------------------------
\* Where the kernel has what it needs, serv_sock fails in bind only in a server
\* that met another one there, and in unlink only when another user's server has
\* bound the path (s_server.c:275-288): a path left by a dead server of the same
\* user, a server that is serving and sons that outlive theirs never keep a new
\* server from starting.
THEOREM StartFailsToOthers == Spec => []FailsOnlyToOthers
<1>1. PathInv => FailsOnlyToOthers
  BY DEF PathInv
<1> QED BY <1>1, PathInvariant, PTL

\* A serving server that nobody who may remove its path met in serv_sock or
\* was started after has the path, whoever served before it and however that
\* ended.
THEOREM LastServerReachable == Spec => []Reachable
<1>1. PathInv => Reachable
  BY DEF PathInv, Undisturbed, Reachable
<1> QED BY <1>1, PathInvariant, PTL
=============================================================================

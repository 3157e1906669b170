------------------------------ MODULE RpcSocket ------------------------------
(***************************************************************************)
(* How a server takes SOCK_PATH (serv_sock in s_server.c) and how a caller *)
(* finds a server there (clt_sock in c_client.c), while servers are        *)
(* started, end, are killed and are started again, two at a time or one    *)
(* after the other.                                                        *)
(*                                                                         *)
(* A server is one main process: starting again is another server.  It     *)
(* goes through unlink, bind and listen, one system call at a time, and    *)
(* then accepts.  Nothing removes the path when a server ends, and a son   *)
(* inherits the listening socket, so callers can still connect to a server *)
(* whose main process is gone.  SOCK_PATH is in /tmp, where only its owner *)
(* and the superuser may remove a file.  What main process and sons do     *)
(* with a call is RpcServer; here a son is the caller it serves.           *)
(*                                                                         *)
(* Left out: a full backlog (100 callers), a failing fork, and a son that  *)
(* hangs in its handler, which RpcServer has.                              *)
(***************************************************************************)
EXTENDS FiniteSets

CONSTANTS
  Servers,  \* the main processes, each started at most once
  Callers,  \* the callers, each making one call
  Owner,    \* server or caller -> the user who started it
  Root,     \* the superuser
  NULL

ASSUME SocketAssumption == NULL \notin Servers

VARIABLES
  pc,      \* server -> the system call it makes next, or how it ended
  path,    \* the server whose socket is bound to SOCK_PATH, or NULL
  place,   \* caller -> how far its call has come
  conn,    \* caller -> the server it is connected to, or NULL
  rivals,  \* server -> the servers that were in serv_sock together with it or
           \*   after it
  bound    \* the servers that have bound the path (both are history, read by
           \*   properties only)

vars == <<pc, path, place, conn, rivals, bound>>

\* A server in serv_sock.
Starting == {"unlink", "bind", "listen"}

\* What belongs to b is open to a: it has the same owner, or a is the superuser.
Allowed(a, b) == Owner[a] \in {Owner[b], Root}

Init ==
  /\ pc = [s \in Servers |-> "off"]
  /\ path = NULL
  /\ place = [c \in Callers |-> "off"]
  /\ conn = [c \in Callers |-> NULL]
  /\ rivals = [s \in Servers |-> {}]
  /\ bound = {}

InServSock == {s \in Servers : pc[s] \in Starting}

\* The callers that a son of s serves.
Sons(s) == {c \in Callers : place[c] = "served" /\ conn[c] = s}

-----------------------------------------------------------------------------
(* serv_sock.                                                              *)

\* socket(): the server meets everyone who is in serv_sock, and everyone who
\* was started before meets it.
Start(s) ==
  /\ pc[s] = "off"
  /\ pc' = [pc EXCEPT ![s] = "unlink"]
  /\ rivals' = [r \in Servers |-> IF r = s THEN InServSock
                                  ELSE IF pc[r] # "off" THEN rivals[r] \cup {s}
                                  ELSE rivals[r]]
  /\ UNCHANGED <<path, place, conn, bound>>

\* Mutant of Unlink: the call is missing.
UnlinkMissing(s) ==
  /\ pc[s] = "unlink"
  /\ pc' = [pc EXCEPT ![s] = "bind"]
  /\ UNCHANGED <<path, place, conn, rivals, bound>>

\* A path that does not exist (ENOENT) is no error.
Unlink(s) ==
  /\ pc[s] = "unlink"
  /\ path # NULL => Allowed(s, path)
  /\ path' = NULL
  /\ pc' = [pc EXCEPT ![s] = "bind"]
  /\ UNCHANGED <<place, conn, rivals, bound>>

\* EPERM: the path is there and belongs to somebody else.
UnlinkDenied(s) ==
  /\ pc[s] = "unlink"
  /\ path # NULL /\ ~Allowed(s, path)
  /\ pc' = [pc EXCEPT ![s] = "denied"]
  /\ UNCHANGED <<path, place, conn, rivals, bound>>

Bind(s) ==
  /\ pc[s] = "bind" /\ path = NULL
  /\ path' = s
  /\ bound' = bound \cup {s}
  /\ pc' = [pc EXCEPT ![s] = "listen"]
  /\ UNCHANGED <<place, conn, rivals>>

\* EADDRINUSE: somebody bound the path since unlink.
BindFails(s) ==
  /\ pc[s] = "bind" /\ path # NULL
  /\ pc' = [pc EXCEPT ![s] = "failed"]
  /\ UNCHANGED <<path, place, conn, rivals, bound>>

Listen(s) ==
  /\ pc[s] = "listen"
  /\ pc' = [pc EXCEPT ![s] = "serving"]
  /\ UNCHANGED <<path, place, conn, rivals, bound>>

\* Any of the four calls, socket() included, fails because the kernel has no
\* descriptor, memory or writable file system for it.  A path that was bound
\* before listen stays.
Lacks(s) ==
  /\ pc[s] \in Starting \cup {"off"}
  /\ pc' = [pc EXCEPT ![s] = "lacking"]
  /\ UNCHANGED <<path, place, conn, rivals, bound>>

-----------------------------------------------------------------------------
(* The end of a process, and of the listening socket with the last one.    *)

\* When the last process that has the socket of s ends, so that it is held no
\* longer, the connections in its backlog are reset.
Reset(s, held) ==
  [c \in Callers |->
     IF ~held /\ place[c] = "queued" /\ conn[c] = s THEN "reset" ELSE place[c]]

\* Mutant of MainEnds: exit removes the path, as a tidy server would.
MainEndsTidily(s) ==
  /\ pc[s] \in Starting \cup {"serving"}
  /\ pc' = [pc EXCEPT ![s] = "ended"]
  /\ place' = Reset(s, Sons(s) # {})
  /\ path' = NULL
  /\ UNCHANGED <<conn, rivals, bound>>

\* A signal ends the main process, in serv_sock or later: kill_handler, the
\* default action, or SIGKILL.  The functions run by exit leave the path.
MainEnds(s) ==
  /\ pc[s] \in Starting \cup {"serving"}
  /\ pc' = [pc EXCEPT ![s] = "ended"]
  /\ place' = Reset(s, Sons(s) # {})
  /\ UNCHANGED <<path, conn, rivals, bound>>

\* The son of c ends, with the main process still there or not.
SonExits(c, how) ==
  LET s == conn[c] IN
  /\ place[c] = "served"
  /\ place' = [Reset(s, pc[s] = "serving" \/ Sons(s) # {c}) EXCEPT ![c] = how]
  /\ UNCHANGED <<pc, path, conn, rivals, bound>>

SonAnswers(c) == SonExits(c, "answered")

\* Mutant of SonTimesOut: a son only looks at its timer while its parent lives.
SonTimesOutWithParent(c) ==
  /\ place[c] = "served" /\ pc[conn[c]] = "serving"
  /\ SonExits(c, "timeout")

\* The caller sends nothing, or the function does not return: SIGALRM.
SonTimesOut(c) == SonExits(c, "timeout")

-----------------------------------------------------------------------------
(* Callers.                                                                *)

\* The socket at the path listens: its main process has come that far, and it
\* or a son has not closed it.
Listening(s) == pc[s] = "serving" \/ Sons(s) # {}

\* connect() succeeds at once: the caller waits in the backlog.
Connect(c) ==
  /\ place[c] = "off" /\ path # NULL
  /\ Listening(path)
  /\ place' = [place EXCEPT ![c] = "queued"]
  /\ conn' = [conn EXCEPT ![c] = path]
  /\ UNCHANGED <<pc, path, rivals, bound>>

\* Mutant of ConnectFails: the result of connect is not tested.
ConnectFailureIgnored(c) ==
  /\ place[c] = "off"
  /\ path # NULL => ~Listening(path)
  /\ place' = [place EXCEPT ![c] = "queued"]
  /\ UNCHANGED <<pc, path, conn, rivals, bound>>

\* ENOENT, ECONNREFUSED, or EACCES when the umask of the server keeps other
\* users out: clt_sock returns -1.
ConnectFails(c) ==
  /\ place[c] = "off"
  /\ path # NULL => ~Listening(path) \/ ~Allowed(c, path)
  /\ place' = [place EXCEPT ![c] = "refused"]
  /\ UNCHANGED <<pc, path, conn, rivals, bound>>

\* accept and fork in loop_server.
Accept(c) ==
  /\ place[c] = "queued" /\ pc[conn[c]] = "serving"
  /\ place' = [place EXCEPT ![c] = "served"]
  /\ UNCHANGED <<pc, path, conn, rivals, bound>>

-----------------------------------------------------------------------------
\* Whichever call fails, serv_sock returns -1 and loop_server ends the process.
ServSock(s) ==
  \/ Start(s) \/ Unlink(s) \/ UnlinkDenied(s) \/ Bind(s) \/ BindFails(s)
  \/ Listen(s) \/ Lacks(s)

Next ==
  \/ \E s \in Servers : ServSock(s) \/ MainEnds(s)
  \/ \E c \in Callers : \/ Connect(c) \/ ConnectFails(c) \/ Accept(c)
                        \/ SonAnswers(c) \/ SonTimesOut(c)

\* The loop of a main process goes on and takes its callers in order, and a
\* timer expires.  Nothing makes an operator start or end a server, or a caller
\* connect.
Fairness ==
  \A c \in Callers : WF_vars(Accept(c)) /\ WF_vars(SonTimesOut(c))

Spec == Init /\ [][Next]_vars /\ Fairness

-----------------------------------------------------------------------------
Places == {"off", "queued", "served", "answered", "timeout", "refused", "reset"}

\* The types; a caller is connected from the moment it is in a backlog; and
\* only a server that has been in its loop has callers, one in its backlog only
\* as long as a process holds the socket.
TypeOK ==
  /\ pc \in [Servers -> Starting \cup {"off", "serving", "denied", "failed", "lacking", "ended"}]
  /\ path \in Servers \cup {NULL}
  /\ place \in [Callers -> Places]
  /\ conn \in [Callers -> Servers \cup {NULL}]
  /\ rivals \in [Servers -> SUBSET Servers]
  /\ bound \subseteq Servers
  /\ \A c \in Callers : conn[c] = NULL <=> place[c] \in {"off", "refused"}
  /\ \A c \in Callers : place[c] \in {"queued", "served"} => pc[conn[c]] \in {"serving", "ended"}
  /\ \A c \in Callers : place[c] = "queued" => Listening(conn[c])

\* Where the kernel has what it needs, serv_sock fails in bind only if the server
\* met another one in serv_sock, and in unlink only if another user's server has
\* bound the path: neither the path that a server of the same user left, nor one
\* that is serving, nor the sons that hold an old socket keep a server from
\* starting.
FailsOnlyToOthers ==
  \A s \in Servers :
    /\ pc[s] = "failed" => rivals[s] # {}
    /\ pc[s] = "denied" => \E r \in bound : ~Allowed(s, r)

\* The callers reach the server that was started last: if nobody who may remove
\* its path was in serv_sock together with a serving server or after it,
\* SOCK_PATH leads to it, whoever served before and however that ended.
Reachable ==
  \A s \in Servers :
    pc[s] = "serving" /\ (\A r \in rivals[s] : ~Allowed(r, s)) => path = s

\* A caller that got through connect is served or learns that it will not be,
\* also when it connected to a server whose main process was already gone and
\* only sons held the socket.
QueuedMovesOn ==
  \A c \in Callers : place[c] = "queued" ~> place[c] # "queued"
=============================================================================

----------------------------- MODULE RpcService -----------------------------
(***************************************************************************)
(* What the server promises its callers, whatever its processes, threads   *)
(* and signals do: a function runs at most once, only for a legal call,    *)
(* and never once its caller has been answered; the answer, if there is    *)
(* one, is final and true.                                                 *)
(*                                                                         *)
(* It does not promise an answer.                                          *)
(***************************************************************************)
EXTENDS RpcProtocol

CONSTANT Clients

VARIABLES
  req,      \* caller -> its message
  ran,      \* caller -> how many times its function ended
  reply,    \* caller -> the status it is answered with, or "none"
  closing   \* the server has begun to forget its functions

serviceVars == <<req, ran, reply, closing>>

Init ==
  /\ req \in [Clients -> Requests]
  /\ ran = [c \in Clients |-> 0]
  /\ reply = [c \in Clients |-> "none"]
  /\ closing = FALSE

Run(c) ==
  /\ Callable(req[c])
  /\ ran[c] = 0 /\ reply[c] = "none"
  /\ ran' = [ran EXCEPT ![c] = 1]
  /\ UNCHANGED <<req, reply, closing>>

Reply(c, st) ==
  /\ reply[c] = "none"
  /\ reply' = [reply EXCEPT ![c] = st]
  /\ UNCHANGED <<req, ran, closing>>

\* OK: the function has run.
Succeed(c) == ran[c] = 1 /\ Reply(c, "OK")

\* NO_ANSWER: the server gave the call up, before or after its function ran.
GiveUp(c) == Reply(c, "NO_ANSWER")

\* The call is illegal in the way the status says.  A server that closes may
\* not know its functions any more.
Reject(c) ==
  /\ ran[c] = 0
  /\ LET m == req[c] IN
       IF m.command \in Functions
       THEN LET verdict == Verification(Signature[m.command], m) IN
              \/ verdict # "OK" /\ Reply(c, verdict)
              \/ closing /\ Reply(c, "UNKNOWN_FUNC")
       ELSE Reply(c, "UNKNOWN_FUNC")

Close ==
  /\ closing' = TRUE
  /\ UNCHANGED <<req, ran, reply>>

Next ==
  \/ \E c \in Clients : Run(c) \/ Succeed(c) \/ GiveUp(c) \/ Reject(c)
  \/ Close

Spec == Init /\ [][Next]_serviceVars
=============================================================================

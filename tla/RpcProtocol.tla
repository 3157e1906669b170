---------------------------- MODULE RpcProtocol ----------------------------
(***************************************************************************)
(* The vocabulary that the client and the server of the remote procedure   *)
(* control share (u_rpc_data.h), the functions the server registers, and   *)
(* the three checks that decide whether a message is a legal call.         *)
(*                                                                         *)
(* A message is abstracted to what those checks read: the command, the     *)
(* type the caller expects, the types of its arguments, and whether        *)
(* deserialize_message can decode it.  The values of the arguments and of  *)
(* the results are left out.                                               *)
(***************************************************************************)
EXTENDS Naturals, Sequences

CONSTANTS
  Functions,   \* the names add_default_functions registers
  Signature,   \* name -> [return_type |-> type, argv |-> types]
  Outcomes,    \* name -> the ways its body can end
  Requests     \* the messages the callers may send

Types  == {"void", "int", "str"}

Status == {"OK", "UNKNOWN_FUNC", "WRONG_ARG", "NO_ANSWER", "WRONG_TYP",
           "WRONG_NUMBER_ARGS"}

\* How the C function behind a name ends: it returns a value, it returns the
\* NULL string, it is killed by a signal of its own making (a division by
\* zero), or it sends SIGUSR1 to the parent process and then returns.
Endings == {"returns", "null", "traps", "kills"}

\* A signature lists the types only; [Nat -> Types] is not used because a
\* message and a function are compared position by position.
SignatureType == [return_type : Types, argv : Seq(Types)]

ASSUME ProtocolAssumption ==
  /\ Signature \in [Functions -> SignatureType]
  /\ Outcomes \in [Functions -> SUBSET Endings]
  /\ \A f \in Functions : Outcomes[f] # {}
  /\ \A m \in Requests :
        /\ m.return_type \in Types
        /\ m.argv \in Seq(Types)
        /\ m.decodes \in BOOLEAN

-----------------------------------------------------------------------------
\* Mutant of Verification: the loop over the types of the arguments is missing.
VerificationSkipsTypes(f, m) ==
  IF Len(f.argv) # Len(m.argv) THEN "WRONG_NUMBER_ARGS"
  ELSE IF f.return_type # m.return_type THEN "WRONG_TYP"
  ELSE "OK"

\* The first check of verification_function that a message fails, in the order
\* of the code, or "OK" when it passes them all.  Each failing check calls
\* send_error, which does not return, so no later check is reached.
Verification(f, m) ==
  IF Len(f.argv) # Len(m.argv) THEN "WRONG_NUMBER_ARGS"
  ELSE IF \E i \in DOMAIN f.argv : f.argv[i] # m.argv[i] THEN "WRONG_ARG"
  ELSE IF f.return_type # m.return_type THEN "WRONG_TYP"
  ELSE "OK"

-----------------------------------------------------------------------------
\* What a legal call is, independently of the checks: a decodable message for a
\* registered function, with exactly that function's signature.
Callable(m) ==
  /\ m.decodes
  /\ m.command \in Functions
  /\ Signature[m.command] = [return_type |-> m.return_type, argv |-> m.argv]
=============================================================================

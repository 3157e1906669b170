SPECIFICATION Spec
CONSTANTS
  Clients = {c1}
  Sons = {s1}
  None = None
  Backlog = 2
  MaxFds = 1
  Mortal = {}
  Interrupts = TRUE
  HandlerMayHang = FALSE
  Functions <- MCFunctions
  Signature <- MCSignature
  Outcomes <- MCOutcomes
  Requests <- IdentityRequests
INVARIANT SuccessMeansAnswered
CHECK_DEADLOCK FALSE

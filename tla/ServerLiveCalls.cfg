SPECIFICATION FairSpec
CONSTANTS
  Clients = {c1, c2, c3}
  Sons = {s1}
  None = None
  Backlog = 2
  MaxFds = 2
  Mortal = {}
  Interrupts = FALSE
  HandlerMayHang = FALSE
  Functions <- MCFunctions
  Signature <- MCSignature
  Outcomes <- MCOutcomes
  Requests <- IdentityRequests
PROPERTY CallsAccountedFor
CHECK_DEADLOCK FALSE

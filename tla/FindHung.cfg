SPECIFICATION FairSpec
CONSTANTS
  Clients = {c1}
  Sons = {s1}
  None = None
  Backlog = 2
  MaxFds = 1
  Mortal = {}
  Interrupts = FALSE
  HandlerMayHang = TRUE
  Functions <- MCFunctions
  Signature <- MCSignature
  Outcomes <- MCOutcomes
  Requests <- DivisionRequests
PROPERTY SonsEnd
CHECK_DEADLOCK FALSE

SPECIFICATION Spec
CONSTANTS
  Clients = {c1}
  Sons = {s1}
  None = None
  Backlog = 2
  MaxFds = 1
  Mortal = {}
  Interrupts = FALSE
  HandlerMayHang = FALSE
  Functions <- MCFunctions
  Signature <- MCSignature
  Outcomes <- MCOutcomes
  Requests <- DivisionRequests
PROPERTY MainEndsOnlyByKill
CHECK_DEADLOCK FALSE

SPECIFICATION Spec
CONSTANTS
  Clients = {c1, c2}
  Sons = {s1, s2}
  None = None
  Backlog = 2
  MaxFds = 2
  Mortal = {}
  Interrupts = FALSE
  HandlerMayHang = FALSE
  Functions <- ShutdownOnly
  Signature <- MCSignature
  Outcomes <- MCOutcomes
  Requests <- JudgedRequests
SYMMETRY Symmetry
INVARIANTS RanOnlyLegal SecondAnswerIsTimeout
PROPERTY ImplementsService
CHECK_DEADLOCK FALSE

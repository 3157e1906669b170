SPECIFICATION Spec
CONSTANTS
  Clients = {c1, c2}
  Sons = {s1, s2}
  None = None
  Backlog = 2
  MaxFds = 2
  Mortal = {c1, c2}
  Interrupts = TRUE
  HandlerMayHang = FALSE
  Functions <- IdentityOnly
  Signature <- MCSignature
  Outcomes <- MCOutcomes
  Requests <- IdentityRequests
SYMMETRY Symmetry
INVARIANT EofOnlyAfterMainEnds
PROPERTY ImplementsService
CHECK_DEADLOCK FALSE

SPECIFICATION Spec
CONSTANTS
  Clients = {c1, c2, c3}
  Sons = {s1, s2}
  None = None
  Backlog = 2
  MaxFds = 3
  Mortal = {}
  Interrupts = FALSE
  HandlerMayHang = TRUE
  Functions <- DivisionOnly
  Signature <- MCSignature
  Outcomes <- MCOutcomes
  Requests <- TrackedRequests
SYMMETRY Symmetry
INVARIANTS TypeOK TrackingExact ListExclusive
CHECK_DEADLOCK FALSE

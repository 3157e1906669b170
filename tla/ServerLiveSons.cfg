SPECIFICATION FairSpec
CONSTANTS
  Clients = {c1, c2}
  Sons = {s1, s2}
  None = None
  Backlog = 2
  MaxFds = 2
  Mortal = {}
  Interrupts = FALSE
  HandlerMayHang = FALSE
  Functions <- DivisionOnly
  Signature <- MCSignature
  Outcomes <- MCOutcomes
  Requests <- DivisionRequests
PROPERTIES SonsEnd AcceptorGoesOn CallsAccountedFor
CHECK_DEADLOCK FALSE

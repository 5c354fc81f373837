\* What the comment of has_pending_input says, with a brief or a report on the
\* ledger beside the human's messages.
CONSTANTS
  Root = root
  Children = {c1}
  None = none
  Requests = {r1}
  Ops <- AnyRequest
  MaxTurns = 3
  MaxIter = 1
SPECIFICATION Spec
CHECK_DEADLOCK FALSE
INVARIANT UnansweredIsPending

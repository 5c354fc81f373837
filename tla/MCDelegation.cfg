\* Any request of the human's, to the parent or the child, at any step of a
\* dispatch and of a report.
CONSTANTS
  Root = root
  Children = {c1}
  None = none
  Requests = {r1}
  Ops <- AnyRequest
  MaxTurns = 3
  MaxIter = 1
SPECIFICATION FairSpec
CHECK_DEADLOCK FALSE
INVARIANTS TypeOK ReportedOnce DispatchWhole
PROPERTY BriefHeard

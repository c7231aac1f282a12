CONSTANTS
  Request <- MCRequest
  Limit <- MCLimit
  Host <- MCHost
  Bytes <- MCBytes
  Fixed <- MCFixed
  TextBytes <- MCTextBytes
  Opened <- MCOpened
  Focused <- MCFocused
  Detail <- MCDetail
  Written <- MCWritten
  Disturbed = {"before"}
  Log <- MCLog
  Asked = {1, 3}
  AskedStatus = {"any", "failed"}
  AskedBytes = {1, 12}
SPECIFICATION Spec
INVARIANT TypeOK
INVARIANT PassIsEarned
INVARIANT EvidenceIsTrue
INVARIANT NothingSkipped
CHECK_DEADLOCK FALSE

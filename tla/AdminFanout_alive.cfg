SPECIFICATION Spec
CONSTANTS
  Servers = {s1, s2, s3}
  Own = own
  MayLeave = TRUE
INVARIANT FanoutTypeOK
PROPERTIES GatherSpec ChecksEnd
CHECK_DEADLOCK FALSE

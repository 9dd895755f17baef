SPECIFICATION Spec
CONSTANTS
  Calls <- MCCalls
  Replies <- MCReplies
  MaxMessages = 2
INVARIANTS TypeOK CallUnderstood StreamInStep PrefixRefused
CHECK_DEADLOCK FALSE

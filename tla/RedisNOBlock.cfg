SPECIFICATION Spec
CONSTANTS
  Channels = {"messagechat", "messagechat1"}
  AuthOk = TRUE
  MaxMessages = 3
  MaxInFlight = 3
INVARIANTS NothingHalfDone
PROPERTIES Subscribed LeavesChat CallsReturn

SPECIFICATION Spec
CONSTANTS
  NULL = NULL
  right = right
  wrong = wrong
  key1 = key1
  Keys = {key1}
  Values <- SmallValues
  Lengths = {1, 2}
  Passwords = {right, wrong}
  Dbs = {0, 1}
  ServerPassword = right
  ServerDbs = {0, 1}
  MaxContexts = 2
  MaxCalls = 6
INVARIANTS RedisTypeOK NoContextLeak CrashOnlyUnconnected ReadsKnownValue
CHECK_DEADLOCK FALSE

SPECIFICATION RecordsSpec
CONSTANTS
  Gateway = openclaw
  Claude = claude
  Urls = {u1, u2}
  DefaultUrl = u0
  VoiceKeys = {k1, k2}
  None = None
  MaxOps = 4
  Accounts = {a1, a2}
  Shared = held
  Main = a1
  Temps = {t1}
  Conv <- ConvOfOne
  oneConv = c1
  Foreign = {f1}
  NoAccount = none
  Torn = torn
  oneText = a
  otherText = b
  Texts = {a, b, c}
  Silent = silent
  Begins <- OneCut
  Long = {a}
  RecentMax = 2
  MaxLen = 4
  MaxTop = 4
  Limit = 2
INVARIANTS
    
    
    FilterKeeps
    ViewKeeps
PROPERTIES
    StepsKeep
CHECK_DEADLOCK FALSE

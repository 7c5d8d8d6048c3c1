CONSTANTS
  t1 = t1
  t2 = t2
  k1 = k1
  k2 = k2
  NoToken = NoToken
  NoKey = NoKey
  Slots <- MCSlots
  UserSlots <- MCUserSlots
  Role <- MCRoleRW
  Tokens <- MCTokens
  Keys <- MCKeys2
  MidMod = 3
  MaxInFlight = 2
  MaxSeq = 0
  ReqTimeout = 1
  ObsTimeout = 2
  Jitter = 0
  SendMayFail = FALSE
  StoreMayFail = FALSE
  Duplicating = FALSE
  SrvPays = {"fits"}
  MaxReenable = 1
  MaxLoss = 0
  ServerErrors = FALSE
  Booted = TRUE
  Timely = TRUE
  MaxRestarts = 0
  MaxRetransmit = 1
SPECIFICATION LiveSpec
PROPERTY ReactivationCompletes

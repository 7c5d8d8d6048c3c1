CONSTANTS
  t1 = t1
  t2 = t2
  k1 = k1
  k2 = k2
  NoToken = NoToken
  NoKey = NoKey
  Slots <- MCSlots
  UserSlots <- MCUserSlots
  Role <- MCRoleRW
  Tokens <- MCTokens
  Keys <- MCKeys1
  MidMod = 3
  MaxInFlight = 1
  MaxSeq = 0
  ReqTimeout = 1
  ObsTimeout = 2
  Jitter = 0
  SendMayFail = FALSE
  StoreMayFail = FALSE
  Duplicating = TRUE
  SrvPays = {"empty", "fits", "large"}
  MaxReenable = 0
  MaxLoss <- MCAnyLoss
  ServerErrors = TRUE
  Booted = TRUE
  Timely = FALSE
  MaxRestarts = 0
  MaxRetransmit = 1
SPECIFICATION PolledSpec
PROPERTY OpsEventuallyFinish

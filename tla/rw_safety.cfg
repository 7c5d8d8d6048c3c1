CONSTANTS
  t1 = t1
  t2 = t2
  k1 = k1
  k2 = k2
  NoToken = NoToken
  NoKey = NoKey
  Slots <- MCSlots
  UserSlots <- MCUserSlots
  Role <- MCRoleRW
  Tokens <- MCTokens
  Keys <- MCKeys2
  MidMod = 3
  MaxInFlight = 1
  MaxSeq = 0
  ReqTimeout = 1
  ObsTimeout = 2
  Jitter = 0
  SendMayFail = TRUE
  StoreMayFail = FALSE
  Duplicating = FALSE
  SrvPays = {"empty", "fits", "large"}
  MaxReenable = 1
  MaxLoss <- MCAnyLoss
  ServerErrors = FALSE
  Booted = TRUE
  Timely = FALSE
  MaxRestarts = 1
  MaxRetransmit = 1
SPECIFICATION Spec
INVARIANT TypeOK
PROPERTY LifecycleRefined

CONSTANTS
  t1 = t1
  t2 = t2
  k1 = k1
  k2 = k2
  NoToken = NoToken
  NoKey = NoKey
  Slots <- MCSlots
  UserSlots <- MCUserSlots
  Role <- MCRoleNone
  Tokens <- MCTokens
  Keys <- MCKeys1
  MidMod = 3
  MaxInFlight = 1
  MaxSeq = 0
  ReqTimeout = 1
  ObsTimeout = 2
  Jitter = 0
  SendMayFail = FALSE
  StoreMayFail = FALSE
  Duplicating = FALSE
  SrvPays = {"fits"}
  MaxReenable = 0
  MaxLoss = 1
  ServerErrors = FALSE
  Booted = FALSE
  Timely = FALSE
  MaxRestarts = 0
  MaxRetransmit = 1
SPECIFICATION LiveSpec
PROPERTY ActivationCompletes

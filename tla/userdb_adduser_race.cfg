SPECIFICATION Spec
CONSTANTS
  Star = Star  Server = Server  AnyHost = AnyHost  Del = Del  NoPw = NoPw  NULL = NULL
  chan1 = chan1  alice = alice  bob = bob  uA = uA  uB = uB  hA = hA  hB = hB
  pw1 = pw1  pw2 = pw2  MasterPw = MasterPw
  Master = r0
  MasterHost = hA
  Regs = {r0, r1, r2, r3}
  Vals = {v1, v2}
  Qids = {q1, q2}
  Users = {uA}
  Chan = {chan1}
  Hosts = {hA}
  Names = {alice, bob}
  Masks = {hA}
  Pws = {pw1}
  Tries = {pw1}
  GrantLevels = {400}
  Fields = {}
  Durations = {}
  MayStop = FALSE
  Purgeable = {}
  MaxEntries = 3
  InitialFiles <- OneOwner
  NBuckets = 1
  Bucket <- OneBucket
CHECK_DEADLOCK FALSE
INVARIANT UniqueNick

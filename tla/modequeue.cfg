SPECIFICATION Spec
CONSTANTS
  alice = alice  bob = bob  service = service  Me = Me  Key = Key
  Users = {alice, bob, service}
  Services = {service}
  OpAccess = {alice}
  Wardens = {}
  AutoOps = {alice}
  Deopable = {alice, bob}
  Bannable = {bob}
  DefFlags = {}
  DefModes <- Keyed
  Settable = {"NOOP", "STRICTOP"}
  Letters = {"o", "b"}
  Levels = {20, 75}
  MaxMembers = 2
  MaxArgs = 2
  MaxLine = 1
INVARIANTS TypeOK OnlyOpsWait
PROPERTIES OpsAgree ModesAgree BansAgree Scheduled NoOpHolds
CHECK_DEADLOCK FALSE

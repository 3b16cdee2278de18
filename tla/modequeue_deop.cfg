SPECIFICATION Spec
CONSTANTS
  alice = alice  bob = bob  service = service  Me = Me  Key = Key
  Users = {alice}
  Services = {}
  OpAccess = {alice}
  Wardens = {}
  AutoOps = {}
  Deopable = {}
  Bannable = {}
  DefFlags = {}
  DefModes <- Keyed
  Settable = {}
  Letters = {"o", "b"}
  Levels = {75}
  MaxMembers = 2
  MaxArgs = 2
  MaxLine = 1
PROPERTY DeopWorks
CHECK_DEADLOCK FALSE

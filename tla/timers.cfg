SPECIFICATION FairSpec
CONSTANTS
  alice = alice  carol = carol  hal = hal
  Clients = {alice, carol, hal}
  Users = {"al", "ca", "ha"}
  Nets = {"10.0", "2001:db8:1:0", "2001:db8:1:5", "users"}
  Nodes = {"0.1", "0.2", "0:0:0:5", "hal"}
  Long = {"2001:db8:1:0", "2001:db8:1:5"}
  Real <- Sites
  Shown <- Shows
  Hidden = {hal}
  Groups <- Shortened
  Channels = {"#a"}
  SaveFreq = 1
  FirstSave = 1
  Horizon = 2
  Hours = {1}
  Levels = {50}
  Accesses = {75, 200}
  Typed <- Typists
  Flooders = {alice, carol}
  Deopers = {alice}
  FloodTime = 1
  DeopTime = 1
  MaxBan = 1
  MaxEvents = 3
  MaxBans = 2
  IgnoreTimes = {2}
  SiteTime = 1
  MaxPerSite = 2
INVARIANTS TypeOK Ordered IgnoreScheduled BanScheduled BanOnce SilencesAgree SaveArmed
PROPERTIES OnlyExpiredGo Escalates ExpiredGo
CHECK_DEADLOCK FALSE

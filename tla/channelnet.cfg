SPECIFICATION NetSpec
CONSTANTS
  NULL = NULL  Me = Me
  Users = {u1, u2}
  Servers = {hub, leaf}
  Hub = hub
  Names = {x1}
  Cells = {c1}
  MaxNodes = 2
  MaxIn = 2
  MaxOut = 2
INVARIANT Agreement
INVARIANT Understood
INVARIANT NoDouble
INVARIANT NoAbandoned
CHECK_DEADLOCK FALSE

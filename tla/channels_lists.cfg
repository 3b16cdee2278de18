SPECIFICATION Spec
CONSTANTS
  NULL = NULL  Me = Me
  Users = {u1, u2}
  Servers = {s1, s2, s3}
  Names = {x1, x2}
  Cells = {c1, c2}
  MaxNodes = 2
INVARIANT TypeOK
INVARIANT Mirror
INVARIANT NoStray
INVARIANT OneCell
INVARIANT Attached
CHECK_DEADLOCK FALSE
SYMMETRY Alike

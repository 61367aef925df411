SPECIFICATION ThreadsSpec
CONSTANTS
  Users = {u1, u2}
  Passwords = {p1}
  GroupIds = {g1}
  FileNames = {f1}
  Digests = {d1}
  Sockets = {s1, s2}
  Addrs = {a1, a2}
  None = None
SYMMETRY Symmetry
INVARIANTS SharesAreMaintained
CONSTRAINT OneSessionEach

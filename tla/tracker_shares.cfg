SPECIFICATION Spec
CONSTANTS
  Users = {u1, u2, u3}
  Passwords = {p1}
  GroupIds = {g1, g2}
  FileNames = {f1, f2}
  Digests = {d1}
  Sockets = {s1, s2, s3}
  Addrs = {a1, a2, a3}
  None = None
SYMMETRY Symmetry
INVARIANTS TypeOK SessionsAreOpen IndexesAgree ListedFilesHaveSeeders NeverSegfaults
PROPERTIES SharesOutliveOthers ShareIndexSpec

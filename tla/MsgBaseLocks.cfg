\* One lock for each process, as the code makes them (db.py:57).
SPECIFICATION Spec
CONSTANTS
  Session = {s1, s2}
  User = {u1}
  Tag = {hub}
  ServerTag = {hub}
  NetworkTag = {}
  SharedLocks = FALSE
  Posts = {{}}
  MaxMsgs = 2
  MaxCuts = 0
PROPERTY NumbersUnique

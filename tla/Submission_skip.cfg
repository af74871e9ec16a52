SPECIFICATION Spec
CONSTANTS
  a = a
  u = u
  f = f
  x = x
  c1 = c1
  c2 = c2
  c3 = c3
  Jobs = {a, u, f, x}
  NoJob = NoJob
  Commits = {c1, c2, c3}
  Known = {c1, c2}
  NoCommit = NoCommit
  Submissions <- AllSubmissions
  CommitOf <- Names
  Forced = {f}
  Capitals = {u}
  Short <- Same
  Modes = {"push"}
  MaxFaults = 1
  MaxCrashes = 0
INVARIANTS
  AlreadyIsArchived

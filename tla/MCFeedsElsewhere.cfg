SPECIFICATION FeedsSpec
CONSTANTS
  r1 = r1
  r2 = r2
  s1 = s1
  s2 = s2
  s3 = s3
  d1 = d1
  d2 = d2
  Recorders = {r1, r2}
  Clients = {s1, s2, s3}
  MaxSubs = 2
  QueueSize = 1
  MaxEvents = 2
  Creds = {d1, d2}
  Interval = 1
  Dedup = 2
  Attempts = 3
  MaxRestarts = 1
INVARIANTS
  SeesEveryOperation

\* A stored object that cannot be read.
SPECIFICATION FairSpec
CONSTANTS
  d1 = d1
  d2 = d2
  c1 = c1
  c2 = c2
  c3 = c3
  u1 = u1
  u2 = u2
  w1 = w1
  w2 = w2
  Docs = {d1}
  NoDoc = NoDoc
  Contents = {c1}
  Uploads = {u1}
  Workers = {w1}
  MaxRetries = 1
  Batches = 2
  Broken = {}
  Unreadable = {c1}
  Faults = {}
  MaxFaults = 0
  MaxJobs = 1
PROPERTY UnreadableEndsFailed

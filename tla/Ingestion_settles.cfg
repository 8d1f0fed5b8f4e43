\* Two uploads of the same bytes under the failures the design repairs: each ends.
SPECIFICATION FairSpec
CONSTANTS
  d1 = d1
  d2 = d2
  c1 = c1
  c2 = c2
  c3 = c3
  u1 = u1
  u2 = u2
  w1 = w1
  w2 = w2
  Docs = {d1, d2}
  NoDoc = NoDoc
  Contents = {c1}
  Uploads = {u1, u2}
  Workers = {w1}
  MaxRetries = 1
  Batches = 1
  Broken = {}
  Unreadable = {}
  Faults = {"enqueue", "worker", "pipeline", "timeout"}
  MaxFaults = 1
  MaxJobs = 1
PROPERTY UploadsSettle
INVARIANT OneRowPerContent

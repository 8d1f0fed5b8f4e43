\* Two workers, sweeps, a deletion and every kind of failure on one document,
\* which may have no text in it, or bytes that cannot be read.
SPECIFICATION Spec
CONSTANTS
  d1 = d1
  d2 = d2
  c1 = c1
  c2 = c2
  c3 = c3
  u1 = u1
  u2 = u2
  w1 = w1
  w2 = w2
  Docs = {d1}
  NoDoc = NoDoc
  Contents = {c1, c2, c3}
  Uploads = {u1}
  Workers = {w1, w2}
  MaxRetries = 1
  Batches = 2
  Broken = {c2}
  Unreadable = {c3}
  Faults = {"enqueue", "retry", "redis", "worker", "storage", "pipeline", "timeout", "outcome", "request"}
  MaxFaults = 2
  MaxJobs = 1
SYMMETRY Symmetry
INVARIANT IngestTypeOK
INVARIANT LoneReadyIsIndexed
INVARIANT DeletedStaysGone
INVARIANT TransientHasAJob

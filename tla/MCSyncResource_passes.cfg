CONSTANTS
  Versions = {v1, v2}
  Batches = 2
  Destinations = {d1, d2}
  None = None
  Kinds = {"parquet", "http"}
  Resumes = {TRUE, FALSE}
  MaxChanges = 2
  HashFails = FALSE
  MaxFaults = 2
SPECIFICATION FairSpec
INVARIANTS   CheckpointIsResumable ValidatorIsSound
PROPERTIES CheckpointedCommitIsUniform 


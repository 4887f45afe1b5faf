CONSTANTS
  Versions = {v1, v2}
  Batches = 2
  Destinations = {d1}
  None = None
  Kinds = {"parquet", "http"}
  Resumes = {TRUE, FALSE}
  MaxChanges = 1
  HashFails = FALSE
  MaxFaults = 1
SPECIFICATION Spec
PROPERTIES AbortPublishesNoMixture

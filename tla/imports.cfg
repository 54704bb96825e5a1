\* One import, two executions at a time, on celery or on Modal.  No symmetry:
\* JobEnds is a liveness property.
SPECIFICATION FairSpec
CONSTANTS
  Workers = {w1, w2}
  Hosts = {"celery", "modal"}
  MaxAttempts = 2
  TaskRetries = 1
  MaxMessages = 1
  MaxKills = 1
INVARIANT TypeOK
PROPERTIES
  NoImportAfterCompletion
  JobEnds
CHECK_DEADLOCK FALSE

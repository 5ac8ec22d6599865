SPECIFICATION Spec
CONSTANTS
  r1 = r1  r2 = r2  v1 = v1  v2 = v2
  Run = {r1, r2}
  Ref = {v1, v2}
  Batch <- MCBatch
  Scope = {}
  MAX_ATTEMPTS = 2
  MaxTime = 2
  MaxNotes = 2
  MaxCrashes = 1
PROPERTY ContentSleepsAtNight

SPECIFICATION Spec
CONSTANTS
  NULL = NULL
  MAX_VOICES = 2
  MAX_NUM_OF_KEYS = 2
  Velocity <- MCVelocity
  VelMin <- MCVelMin
  VelMax <- MCVelMax
  Descriptors <- MCDescriptors
  SampledKeys <- MCSampledKeys
  Commands <- MCNotes
  MaxInputs = 3
  MaxLoads = 1
INVARIANTS
  StatusTellsPlayback
\* There may be no more input.
CHECK_DEADLOCK FALSE

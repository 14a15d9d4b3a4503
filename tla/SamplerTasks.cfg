SPECIFICATION FairSpec
CONSTANTS
  NULL = NULL
  MAX_VOICES = 2
  MAX_NUM_OF_KEYS = 2
  Velocity <- MCVelocity
  VelMin <- MCVelMin
  VelMax <- MCVelMax
  Descriptors <- MCDescriptors
  SampledKeys <- MCSampledKeys
  Commands <- MCAll
  MaxInputs = 3
  MaxLoads = 2
INVARIANTS
  TypeOK
  SerialUseIsSound
  NoKeyStuck
  AnswerMeansLoaded
PROPERTIES
  NoMidiLost
  KeysAreReceived
  CommandsReturn
\* There may be no more input.
CHECK_DEADLOCK FALSE

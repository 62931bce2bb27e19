\* From the configuration and the commands to what the decoders pass on.
SPECIFICATION Spec
CONSTANTS
  Limit       = 9
  MaxBrocas   = 4
  Openable    = {"commands"}
  Configs     <- SomeConfigs
  Files       <- SomeFiles
  Answers     <- SomeAnswers
  Media       <- SomeMedia
  QueueSize   = 1
  Workers     = 2
  MaxAnswers  = 2
  MaxFailures = 1
INVARIANTS
  LinesObeyed
PROPERTIES
  RegisteredAsConfigured
  TrackByTrack
  OpenedAsTagged
  CommandsEnd
CHECK_DEADLOCK FALSE

SPECIFICATION Spec
CHECK_DEADLOCK FALSE
CONSTANTS
  a = a
  Tasks <- MCTasks
  Requests <- MCRequests
  Recordings <- MCRecordings
  Speech <- MCAnySpeech
  Attempts = 1
  MaxPosts = 3
  MaxCrashes = 0
  ChunkLength = 4
  Overlap = 2
  GlueMax = 4
INVARIANTS
  SpeechIsKept

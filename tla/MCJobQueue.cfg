SPECIFICATION Spec
CONSTANTS
  Workers = {w1, w2, w3}
  Jobs = {a, b}
  QueueSize = 2
  MaxJobs = 4
  NoJob = NoJob
  NoWorker = NoWorker
INVARIANTS PlayedInOrder JoinedAfterLastJob
PROPERTIES PipelineSpec DrainsAndStops

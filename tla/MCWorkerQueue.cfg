CONSTANTS
  Job = {j1, j2}
  Worker = {w1, w2}
  NoJob = NoJob
SPECIFICATION Spec
INVARIANTS
  AtMostOnce
  ResultIsOwn
  ReportedIsOver
PROPERTY JobsAreTaken

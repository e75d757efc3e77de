\* Two overlapping runs, one job, one message, one fault of any kind.
SPECIFICATION FairQueueSpec
CONSTANTS
  r1 = r1
  r2 = r2
  j1 = j1
  n1 = n1
  Nothing = Nothing
  Runners <- TwoRunners
  Jobs <- OneJob
  Notes <- OneNote
  MaxAttempts = 2
  MaxFaults = 1
INVARIANTS
  JobsExclusive
  DuplicatesAreFaults
  GivesUpLate
  AttemptsBounded
PROPERTIES
  JobsEnd
  NotesEnd

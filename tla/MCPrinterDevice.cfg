\* One printer: two jobs, two handles.  No symmetry, which would be unsound for
\* temporal properties.
SPECIFICATION Spec
CONSTANTS
  Jobs = {j1, j2}
  Handles = {h1, h2}
  NoJob = NoJob
  NoHandle = NoHandle
INVARIANTS
  JournalTellsThePaper
  AnswerTellsThePaper
  BusyWhileWriting
  NeverClosedUnderWrite
  NoLostHandle
PROPERTIES
  EveryoneAnswered
  EveryJobRecorded
CHECK_DEADLOCK FALSE

SPECIFICATION Spec
CONSTANTS
  Proc <- MCProc
  Boot = 1
  NFRAMES = 8
  MaxSz = 8
  Targets <- MCTargets
  Bytes = {0, 255}
  Lens = {1, 2}
  Workloads <- MCWorkloads
INVARIANTS FramesConserved
PROPERTIES RefinesUserMemory DumpDelivers EntriesInBuffer
CHECK_DEADLOCK FALSE

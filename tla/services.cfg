SPECIFICATION Spec
CONSTANTS
  Foci = {"irq", "vsync", "pacing"}
  Raised = {5}
  DmacCauses = {1}
  IrqPrograms <- MCPrograms
  MaxHandlers = 2
  MaxAge = 1
  Frames = {f1, f2}
  Waiting = {w1, w2}
  Polling = {p1}
  NoFrame = NoFrame
  Quantum = 3
  StallPolls = 3
  MaxCatchup = 2
  MaxBurst = 8
INVARIANTS DrainsPending FlagStoreInFrame 
PROPERTIES SurvivesUntilRun PendingSettles TicksKeepComing

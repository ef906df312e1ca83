SPECIFICATION Spec
CONSTANTS
    MaxThreadId = 3
    MaxInfos = 3
    None = None
CHECK_DEADLOCK FALSE
INVARIANTS TokenHeld FiberNotReplaced StackReclaimed

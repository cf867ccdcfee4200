SPECIFICATION Spec
CONSTANTS
    Here = "here"
    Spare = "spare"
    Defs = {"top", "side"}
    Bars <- MCBars
    Leaves <- MCLeaves
    Replicas = 2
    DefaultFrame = "top"
    MaxVerbs = 3
    MaxFaults = 1
    MaxPanes = 4
INVARIANT MuxSafety
PROPERTY VerbSteps
CHECK_DEADLOCK FALSE

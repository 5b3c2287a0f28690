SPECIFICATION Spec
CONSTANTS
    Values = {"x"}
    MaxLen = 3
    MaxCount = 3
    SwitchIdx = 1
    SwitchRatio = 1
    DenseMin = 2
    DenseRatio = 2
    ShrinkMin = 1
INVARIANTS Structure ElementsAgree CallsAgree
CHECK_DEADLOCK FALSE

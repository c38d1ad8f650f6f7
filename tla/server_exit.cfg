SPECIFICATION Spec
CONSTANTS
    Descriptors <- FewDescriptors
    Workers = {w1, w2}
    MaxStarts = 3
CHECK_DEADLOCK FALSE
PROPERTIES
    ExitFindsNoQuery

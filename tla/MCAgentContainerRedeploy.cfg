SPECIFICATION ContainerSpec
CONSTANTS
    Containers = {k1}
    Configurations = {x, y}
    MaxSaved = 2
INVARIANT NextTaskTakesChange
CHECK_DEADLOCK FALSE

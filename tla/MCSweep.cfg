CONSTANTS
    ShardCount = 3
    MaxKills = 1
SPECIFICATION Spec
PROPERTY SweepCompletes
CHECK_DEADLOCK FALSE

SPECIFICATION ScalerSpec
CONSTANTS
    Minimum = 1
    Maximum = 4
    Cooldown = 3
    Windows = 3
    Bases = {0, 3}
    Backlogs = {0, 1, 9}
    Intervals = {0, 1, 2}
INVARIANT
    ScalerTypeOK
PROPERTIES
    ChangesAreEarned
    FollowsDemand

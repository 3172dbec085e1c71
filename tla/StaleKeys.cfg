\* One validation at a time and two keys; nothing is rotated and every fetch succeeds.
SPECIFICATION Spec
CONSTANTS
    Validations = {v1}
    Kids = {k1, k2}
    None = None
    TTL = 3
    Cooldown = 2
    Timeout = 1
    MaxTime = 6
    MaxChanges = 0
    MaxFaults = 0
SYMMETRY SymmetryOfNames
CHECK_DEADLOCK FALSE
PROPERTY CachedKeysUsable

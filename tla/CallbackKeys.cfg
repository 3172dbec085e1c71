\* Two validations contend for the lock while a key is published or withdrawn and a fetch may fail.
SPECIFICATION Spec
CONSTANTS
    Validations = {v1, v2}
    Kids = {k1}
    None = None
    TTL = 5
    Cooldown = 2
    Timeout = 1
    MaxTime = 7
    MaxChanges = 1
    MaxFaults = 1
SYMMETRY SymmetryOfNames
CHECK_DEADLOCK FALSE
INVARIANT TypeOK
PROPERTIES WithdrawnKeyRefused RotationNoticed

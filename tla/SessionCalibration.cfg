SPECIFICATION Spec
CONSTANTS
    s1 = s1
    s2 = s2
    Servers = {s1, s2}
    Nothing = Nothing
    Formats <- MCFormats
    MaxAttempts = 2
    MaxPages = 1
    MaxInvocations = 1
    MaxRestarts = 0
PROPERTY CalibrationFailureReported
CHECK_DEADLOCK FALSE

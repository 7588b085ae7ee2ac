SPECIFICATION LiveSpec
CONSTANTS
    s1 = s1
    s2 = s2
    Servers = {s1, s2}
    Nothing = Nothing
    Formats <- MCFormats
    MaxAttempts = 3
    MaxPages = 2
    MaxInvocations = 2
    MaxRestarts = 1
INVARIANT TypeOK
INVARIANT PagesUnderFrozen
INVARIANT FrozenWasProven
INVARIANT ResultsComparable
INVARIANT RetryPolicyFollowed
PROPERTY InvocationEnds
CHECK_DEADLOCK FALSE

CONSTANTS
    Keys = {k1, k2}
    Values = {v1}
    PartsFns = {split}
    ApplyParts <- MCApplyParts
    NoValue = NoValue
    NoParts = NoParts
    NoArg = NoArg
    ArgLists <- MCArgLists
    MaxArgs = 4
SPECIFICATION Spec
INVARIANT TypeOK
INVARIANT ArgsKeyOnce
INVARIANT OverrideWins
INVARIANT BaseValueKept
INVARIANT FirstSeenOrder
CHECK_DEADLOCK FALSE

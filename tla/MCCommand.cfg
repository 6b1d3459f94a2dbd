CONSTANTS
    Goroutines <- MCGoroutines
    Envs <- MCEnvs
SPECIFICATION Spec
INVARIANT TypeOK
INVARIANT SudoOnlyWhenAsked
PROPERTY ManageStable

CONSTANTS
    Goroutines <- MCGoroutines
    Envs <- MCGuestEnvs
SPECIFICATION Spec
INVARIANT NotFoundDistinguished

CONSTANTS
    Methods = {"Start", "Save", "Pause", "Stop", "Poweroff", "Restart", "Reset", "Delete", "Unregister"}
    CallerRefreshes = TRUE
    GuestHonoursACPI = TRUE
SPECIFICATION Spec
INVARIANT TypeOK
INVARIANT OkMeansPromised
PROPERTY MethodsReturn

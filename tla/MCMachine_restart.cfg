CONSTANTS
    Methods = {"Restart"}
    CallerRefreshes = TRUE
    GuestHonoursACPI = TRUE
SPECIFICATION Spec
INVARIANT NoSpuriousFailure

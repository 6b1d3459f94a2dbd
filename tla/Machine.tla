------------------------------ MODULE Machine ------------------------------
(***************************************************************************)
(* The lifecycle methods of Machine (machine.go): Start, Save, Pause, Stop, *)
(* Poweroff, Restart, Reset, Delete and Unregister, run by one caller on   *)
(* one Machine value, against the VM as VBoxManage keeps it.  Each method  *)
(* decides on the State cached in the Machine value when it was last read  *)
(* (GetMachine, Refresh); only Stop's polling loop re-reads it.  A method  *)
(* in progress is a stack of routine frames: a frame either issues one     *)
(* VBoxManage command, which the VM accepts or rejects by its state, or    *)
(* replaces itself with the frames of the methods it calls.                *)
(***************************************************************************)
EXTENDS Naturals, Sequences

CONSTANTS
    Methods,           \* the lifecycle methods the caller calls
    CallerRefreshes,   \* TRUE: the caller refreshes the Machine before a call
    GuestHonoursACPI   \* TRUE: a guest shuts down after an ACPI power button

AllMethods == {"Start", "Save", "Pause", "Stop", "Poweroff", "Restart",
               "Reset", "Delete", "Unregister"}

ASSUME MachineAssumption ==
    /\ Methods \subseteq AllMethods
    /\ CallerRefreshes \in BOOLEAN
    /\ GuestHonoursACPI \in BOOLEAN

\* The MachineState constants, and "absent" for an unregistered VM.
States == {"poweroff", "running", "paused", "saved", "aborted"}
Stopped == {"poweroff", "aborted", "saved"}

\* The routines a frame can be: the methods and the steps inside them.
Routines == AllMethods \cup {"SaveCmd", "StopLoop", "StopRefresh", "ResetCmd",
                             "DeleteCmd", "UnregisterCmd"}

-----------------------------------------------------------------------------
(* The VM.  The states in which VBoxManage accepts a command, and the      *)
(* state it leaves the VM in.                                              *)

Commands == {"startvm", "resume", "pause", "savestate", "poweroff",
             "acpipowerbutton", "reset", "unregistervm"}

AcceptedIn(c) ==
    CASE c = "startvm"         -> Stopped
      [] c = "resume"          -> {"paused"}
      [] c = "pause"           -> {"running"}
      [] c = "acpipowerbutton" -> {"running"}
      [] c = "unregistervm"    -> Stopped
      [] OTHER                 -> {"running", "paused"}   \* savestate, poweroff, reset

After(c, s) ==
    CASE c \in {"startvm", "resume"} -> "running"
      [] c = "pause"                 -> "paused"
      [] c = "savestate"             -> "saved"
      [] c = "poweroff"              -> "poweroff"
      [] c = "unregistervm"          -> "absent"
      [] OTHER                       -> s        \* acpipowerbutton, reset

-----------------------------------------------------------------------------
(* The methods.  Body(r, st) is what frame r does with cached State st:    *)
(* the command it runs ("none" for none) and the frames that replace it    *)
(* once that command succeeds.                                             *)

Do(c, then) == [cmd |-> c, then |-> then]
Return == Do("none", <<>>)
Calls(fs) == Do("none", fs)

\* Mutant: Stop presses the power button once and returns.
StopLoopNoWait(st) ==
    IF st = "poweroff" THEN Return ELSE Do("acpipowerbutton", <<>>)

\* Mutant: Stop's loop sleeps and refreshes without pressing the button.
StopLoopNoPress(st) ==
    IF st = "poweroff" THEN Return ELSE Calls(<<"StopRefresh", "StopLoop">>)

\* One iteration of Stop's "for m.State != Poweroff" loop.
StopLoopBody(st) ==
    IF st = "poweroff" THEN Return
    ELSE Do("acpipowerbutton", <<"StopRefresh", "StopLoop">>)

Body(r, st) ==
    CASE r = "Start" ->
            CASE st = "paused"   -> Do("resume", <<>>)
              [] st \in Stopped  -> Do("startvm", <<>>)
              [] OTHER           -> Return
      [] r = "Save" ->
            CASE st = "paused"   -> Calls(<<"Start", "SaveCmd">>)
              [] st \in Stopped  -> Return
              [] OTHER           -> Calls(<<"SaveCmd">>)
      [] r = "SaveCmd" -> Do("savestate", <<>>)
      [] r = "Pause" ->
            IF st \in Stopped \cup {"paused"} THEN Return ELSE Do("pause", <<>>)
      [] r = "Stop" ->
            CASE st \in Stopped  -> Return
              [] st = "paused"   -> Calls(<<"Start", "StopLoop">>)
              [] OTHER           -> Calls(<<"StopLoop">>)
      [] r = "StopLoop" -> StopLoopBody(st)
      [] r = "Poweroff" ->
            IF st \in Stopped THEN Return ELSE Do("poweroff", <<>>)
      [] r = "Restart" ->
            IF st \in {"paused", "saved"} THEN Calls(<<"Start", "Stop", "Start">>)
            ELSE Calls(<<"Stop", "Start">>)
      [] r = "Reset" ->
            IF st \in {"paused", "saved"} THEN Calls(<<"Start", "ResetCmd">>)
            ELSE Calls(<<"ResetCmd">>)
      [] r = "ResetCmd" -> Do("reset", <<>>)
      [] r = "Delete" -> Calls(<<"Poweroff", "DeleteCmd">>)
      [] r = "Unregister" -> Calls(<<"Poweroff", "UnregisterCmd">>)
      [] OTHER -> Do("unregistervm", <<>>)   \* DeleteCmd, UnregisterCmd

-----------------------------------------------------------------------------
VARIABLES
    vm,        \* the VM's state as VBoxManage keeps it, or "absent"
    acpi,      \* an ACPI power button press the guest has not acted on
    state,     \* Machine.State: the state cached at the last read
    stack,     \* the frames of the method in progress, <<>> when idle
    called,    \* the method called last
    from,      \* the VM's state when it was called
    ret        \* "none" while it runs, then "ok" or "err" until the next step

vars == <<vm, acpi, state, stack, called, from, ret>>

Init ==
    /\ vm \in States
    /\ acpi = FALSE
    /\ state = vm
    /\ stack = <<>>
    /\ called \in AllMethods
    /\ from = vm
    /\ ret = "none"

\* The result of a method after its last frame: ok unless one failed.
Finish(s) == IF s = <<>> THEN "ok" ELSE "none"

\* The caller calls a method on its Machine value.
Call(meth) ==
    /\ stack = <<>>
    /\ vm # "absent"
    /\ CallerRefreshes => state = vm
    /\ stack' = <<meth>>
    /\ called' = meth
    /\ from' = vm
    /\ ret' = "none"
    /\ UNCHANGED <<vm, acpi, state>>

\* Mutant: Refresh copies the result of GetMachine even when it failed.
RefreshNoErrorCheck ==
    /\ stack = <<>>
    /\ state' = vm
    /\ ret' = "none"
    /\ UNCHANGED <<vm, acpi, stack, called, from>>

\* Machine.Refresh outside a method: GetMachine by name.
Refresh ==
    /\ stack = <<>>
    /\ vm # "absent"
    /\ state' = vm
    /\ ret' = "none"
    /\ UNCHANGED <<vm, acpi, stack, called, from>>

\* CreateMachine registers a new VM and returns it read by GetMachine.
CreateMachine ==
    /\ stack = <<>>
    /\ vm = "absent"
    /\ vm' = "poweroff"
    /\ state' = "poweroff"
    /\ ret' = "none"
    /\ UNCHANGED <<acpi, stack, called, from>>

\* A frame that runs no command: it returns or calls other methods.
Local ==
    LET b == Body(Head(stack), state) IN
    /\ stack # <<>>
    /\ Head(stack) # "StopRefresh"
    /\ b.cmd = "none"
    /\ stack' = b.then \o Tail(stack)
    /\ ret' = Finish(stack')
    /\ UNCHANGED <<vm, acpi, state, called, from>>

\* A frame runs its command and the VM accepts it.
RunOk ==
    LET b == Body(Head(stack), state) IN
    /\ stack # <<>>
    /\ Head(stack) # "StopRefresh"
    /\ b.cmd # "none"
    /\ vm \in AcceptedIn(b.cmd)
    /\ vm' = After(b.cmd, vm)
    /\ acpi' = (b.cmd = "acpipowerbutton" \/ (acpi /\ b.cmd \in {"pause", "resume"}))
    /\ stack' = b.then \o Tail(stack)
    /\ ret' = Finish(stack')
    /\ UNCHANGED <<state, called, from>>

\* A frame runs its command and the VM rejects it: the error returns
\* through every caller.
RunErr ==
    LET b == Body(Head(stack), state) IN
    /\ stack # <<>>
    /\ Head(stack) # "StopRefresh"
    /\ b.cmd # "none"
    /\ vm \notin AcceptedIn(b.cmd)
    /\ stack' = <<>>
    /\ ret' = "err"
    /\ UNCHANGED <<vm, acpi, state, called, from>>

\* The m.Refresh() of Stop's loop (after its one second sleep).
StopRefresh ==
    /\ stack # <<>>
    /\ Head(stack) = "StopRefresh"
    /\ IF vm = "absent"
       THEN /\ stack' = <<>>
            /\ ret' = "err"
            /\ UNCHANGED state
       ELSE /\ state' = vm
            /\ stack' = Tail(stack)
            /\ ret' = Finish(stack')
    /\ UNCHANGED <<vm, acpi, called, from>>

\* The guest acts on an ACPI power button press and powers off.
GuestShutdown ==
    /\ GuestHonoursACPI
    /\ vm = "running"
    /\ acpi
    /\ vm' = "poweroff"
    /\ acpi' = FALSE
    /\ ret' = IF stack = <<>> THEN "none" ELSE ret
    /\ UNCHANGED <<state, stack, called, from>>

Next ==
    \/ \E meth \in Methods : Call(meth)
    \/ Refresh
    \/ CreateMachine
    \/ Local
    \/ RunOk
    \/ RunErr
    \/ StopRefresh
    \/ GuestShutdown

\* The caller's goroutine runs a method to its end; the guest is assumed to
\* act on a pending power button press.
Fairness ==
    /\ WF_vars(Local) /\ WF_vars(RunOk) /\ WF_vars(RunErr) /\ WF_vars(StopRefresh)
    /\ WF_vars(GuestShutdown)

Spec == Init /\ [][Next]_vars /\ Fairness

-----------------------------------------------------------------------------
TypeOK ==
    /\ vm \in States \cup {"absent"}
    /\ acpi \in BOOLEAN
    /\ state \in States
    /\ stack \in Seq(Routines)
    /\ called \in AllMethods
    /\ from \in States \cup {"absent"}
    /\ ret \in {"none", "ok", "err"}

\* The states a method promises when it returns without error.
Promised(meth) ==
    CASE meth \in {"Start", "Restart", "Reset"} -> {"running"}
      [] meth = "Pause"                         -> {"paused"} \cup Stopped
      [] meth \in {"Delete", "Unregister"}       -> {"absent"}
      [] OTHER                                   -> Stopped   \* Save, Stop, Poweroff

(* A lifecycle method that returns nil has brought the VM to the state it  *)
(* promises: Start, Restart and Reset leave it running, Pause paused or    *)
(* stopped, Save, Stop and Poweroff stopped, Delete and Unregister gone.   *)
OkMeansPromised == ret = "ok" => vm \in Promised(called)

\* The states in which a method cannot succeed: VBoxManage resets only a
\* running or paused VM.
Refused(meth) == IF meth = "Reset" THEN {"poweroff", "aborted"} ELSE {}

(* A lifecycle method called on a freshly read Machine returns an error    *)
(* only when the VM's state at the call forbids the operation.             *)
NoSpuriousFailure == ret = "err" => from \in Refused(called)

(* Every lifecycle method returns: Stop's polling loop ends once the guest *)
(* has powered off.                                                        *)
MethodsReturn == stack # <<>> ~> stack = <<>>

=============================================================================

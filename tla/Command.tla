------------------------------- MODULE Command -------------------------------
(***************************************************************************)
(* How the library runs VirtualBox's control program (vbmgt.go,            *)
(* vbcmd.go), and the guest-property functions that use it                 *)
(* (unnamed/part_006).  Several goroutines call the API at once.  Each     *)
(* call fetches the shared command with Manage(), whose lazy               *)
(* initialisation is unsynchronised; the guest-side calls ask for sudo     *)
(* with setOpts(sudo(true)); run, runOut and runOutErr prepare the         *)
(* process (prefixing sudo), start it and map its error.                   *)
(*                                                                         *)
(* The host is a constant of the run: the operating system, the programs   *)
(* installed, whether the user is in the sudo group, VBOX_INSTALL_PATH.    *)
(***************************************************************************)
EXTENDS Naturals, Sequences

CONSTANTS
    Goroutines,   \* the callers of the API
    Envs          \* the hosts the library may run on

\* A host: its GOOS, the installed programs, whether the user is in the
\* "sudo" group, whether VBOX_INSTALL_PATH is set and whether os.Stat of the
\* Windows default install directory fails with an error other than
\* "not exist".
Env == [goos : {"linux", "windows", "darwin"},
        installed : SUBSET {"VBoxManage", "VBoxControl", "sudo", "false"},
        sudoGroup : BOOLEAN, installPath : BOOLEAN, statErr : BOOLEAN]

ASSUME CommandAssumption ==
    /\ Goroutines # {}
    /\ Envs \subseteq Env /\ Envs # {}

\* The API functions: the four guest-property functions, and "Host" for
\* every other function, which runs Manage().run(...) (Machine methods,
\* registries, RunVBoxManageCmd with runOutErr).
GuestPropAPIs == {"SetGuestProperty", "GetGuestProperty", "WaitGuestProperty",
                  "DeleteGuestProperty"}
APIs == GuestPropAPIs \cup {"Host"}

\* A program path: a bare name, looked up in PATH by exec.Command, or an
\* absolute path, started as is.
Path == [name : {"VBoxManage", "VBoxControl", "sudo", "false"}, abs : BOOLEAN]
\* The command struct.
CommandT == [program : Path, sudoer : BOOLEAN, sudo : BOOLEAN, guest : BOOLEAN]
\* The nil interface value.
Nil == [isNil |-> TRUE]

\* Error values, compared as Go compares interfaces: dynamic type and value.
ErrNotFound == [type |-> "*errors.errorString", text |-> "executable file not found"]
ErrCommandNotFound == [type |-> "*errors.errorString", text |-> "command not found"]
ExecError == [type |-> "*exec.Error", Err |-> ErrNotFound]
PathError == [type |-> "*fs.PathError", text |-> "no such file"]
ExitError == [type |-> "*exec.ExitError", text |-> "exit status 1"]
NoError == [type |-> "nil", text |-> ""]
Errors == {ErrCommandNotFound, ExecError, PathError, ExitError, NoError}

VARIABLES
    env,     \* the host
    manage,  \* the package variable manage (Nil until Manage() sets it)
    pc,      \* per goroutine: where it is in its API call
    ret,     \* per goroutine: where Manage() returns to
    fn,      \* per goroutine: the API function being run
    todo,    \* per goroutine: the commands still to run; TRUE = asks for sudo
    cmd,     \* per goroutine: the Command value it holds
    last     \* the last command run and its result

vars == <<env, manage, pc, ret, fn, todo, cmd, last>>

-----------------------------------------------------------------------------
(* Manage(): isSudoer, LookupVBoxProgram, the fallback to "false".        *)

isSudoer(e) == e.goos = "linux" /\ e.sudoGroup

lookupVBoxProgramByExecLookPath(e, name) ==
    IF name \in e.installed THEN [ok |-> TRUE, path |-> [name |-> name, abs |-> TRUE]]
    ELSE [ok |-> FALSE, path |-> [name |-> name, abs |-> TRUE]]

LookupVBoxProgram(e, name) ==
    LET found == [ok |-> TRUE, path |-> [name |-> name, abs |-> TRUE]] IN
    IF e.goos # "windows" THEN lookupVBoxProgramByExecLookPath(e, name)
    ELSE IF e.installPath THEN found
    ELSE IF name \in e.installed THEN found
    ELSE IF e.statErr THEN [ok |-> FALSE, path |-> found.path]
    ELSE lookupVBoxProgramByExecLookPath(e, name)

\* Mutant: no fallback, so manage stays nil when no program is found.
ManageValueNoFallback(e) ==
    LET vm == LookupVBoxProgram(e, "VBoxManage")
        vc == LookupVBoxProgram(e, "VBoxControl")
    IN IF vm.ok THEN [program |-> vm.path, sudoer |-> isSudoer(e), sudo |-> FALSE, guest |-> FALSE]
       ELSE IF vc.ok THEN [program |-> vc.path, sudoer |-> isSudoer(e), sudo |-> FALSE, guest |-> TRUE]
       ELSE Nil

\* The value Manage() stores in manage.
ManageValue(e) ==
    LET vm == LookupVBoxProgram(e, "VBoxManage")
        vc == LookupVBoxProgram(e, "VBoxControl")
    IN IF vm.ok THEN [program |-> vm.path, sudoer |-> isSudoer(e), sudo |-> FALSE, guest |-> FALSE]
       ELSE IF vc.ok THEN [program |-> vc.path, sudoer |-> isSudoer(e), sudo |-> FALSE, guest |-> TRUE]
       ELSE [program |-> [name |-> "false", abs |-> FALSE],
             sudoer |-> FALSE, sudo |-> FALSE, guest |-> FALSE]

\* Mutant: setOpts with a pointer receiver, changing the shared command.
SetSudoShared(g, b) ==
    /\ cmd' = [cmd EXCEPT ![g].sudo = b]
    /\ manage' = [manage EXCEPT !.sudo = b]

\* setOpts(sudo(b)): the receiver is a copy, so only the caller's value
\* changes, never the shared manage.
SetSudo(g, b) ==
    /\ cmd' = [cmd EXCEPT ![g].sudo = b]
    /\ UNCHANGED manage

\* prepare: the program started, and whether it is sudo.
Prepare(c, e) ==
    IF c.sudoer /\ c.sudo /\ e.goos # "windows"
    THEN [name |-> "sudo", abs |-> FALSE] ELSE c.program

\* cmd.Run(): exec.Command looks a bare name up in PATH; an absolute path
\* that does not exist fails when the process is started; sudo runs the
\* program it is given; the control program succeeds or fails.
Outcomes(c, e) ==
    LET p == Prepare(c, e) IN
    IF p.name \notin e.installed THEN IF p.abs THEN {PathError} ELSE {ExecError}
    ELSE IF p.name = "false" \/ (p.name = "sudo" /\ c.program.name \notin e.installed)
    THEN {ExitError}
    ELSE {NoError, ExitError}

\* The error mapping of run, runOut and runOutErr:
\* if ee, ok := err.(*exec.Error); ok && ee == exec.ErrNotFound.
MapErr(err) ==
    IF err.type = "*exec.Error" /\ err = ErrNotFound THEN ErrCommandNotFound ELSE err

-----------------------------------------------------------------------------
(* The goroutines.  An API call is a list of commands; each starts with    *)
(* its own Manage() call, as the code calls Manage() once per use.         *)

\* The commands of an API function in guest mode (TRUE: setOpts(sudo(true))).
\* WaitGuestProperty has no else: after the guest-side wait it also runs
\* the host-side one.
GuestSteps(f) == IF f = "WaitGuestProperty" THEN <<TRUE, FALSE>> ELSE <<TRUE>>

\* Manage() returns to r.
CallManage(g, r) == pc' = [pc EXCEPT ![g] = "manage"] /\ ret' = [ret EXCEPT ![g] = r]

\* Enter an API function: a guest-property function first asks
\* Manage().isGuest(); the others go straight to their command.
Call(g, f) ==
    /\ pc[g] = "idle"
    /\ fn' = [fn EXCEPT ![g] = f]
    /\ IF f \in GuestPropAPIs
       THEN CallManage(g, "branch") /\ UNCHANGED todo
       ELSE CallManage(g, "exec") /\ todo' = [todo EXCEPT ![g] = <<FALSE>>]
    /\ UNCHANGED <<env, manage, cmd, last>>

\* Manage(): if manage != nil { return manage }.
ManageCached(g) ==
    /\ pc[g] = "manage"
    /\ manage # Nil
    /\ cmd' = [cmd EXCEPT ![g] = manage]
    /\ pc' = [pc EXCEPT ![g] = ret[g]]
    /\ UNCHANGED <<env, manage, ret, fn, todo, last>>

\* Manage() found manage nil.  The lookups run unlocked: another goroutine
\* may be doing the same, and the later store wins.
ManageNil(g) ==
    /\ pc[g] = "manage"
    /\ manage = Nil
    /\ pc' = [pc EXCEPT ![g] = "lookup"]
    /\ UNCHANGED <<env, manage, ret, fn, todo, cmd, last>>

Manage(g) ==
    /\ pc[g] = "lookup"
    /\ manage' = ManageValue(env)
    /\ cmd' = [cmd EXCEPT ![g] = ManageValue(env)]
    /\ pc' = [pc EXCEPT ![g] = ret[g]]
    /\ UNCHANGED <<env, ret, fn, todo, last>>

\* if Manage().isGuest() { ... } else { ... }
Branch(g) ==
    /\ pc[g] = "branch"
    /\ todo' = [todo EXCEPT ![g] = IF cmd[g].guest THEN GuestSteps(fn[g]) ELSE <<FALSE>>]
    /\ CallManage(g, IF cmd[g].guest THEN "opts" ELSE "exec")
    /\ UNCHANGED <<env, manage, fn, cmd, last>>

\* Manage().setOpts(sudo(true))
SetOpts(g) ==
    /\ pc[g] = "opts"
    /\ SetSudo(g, TRUE)
    /\ pc' = [pc EXCEPT ![g] = "exec"]
    /\ UNCHANGED <<env, ret, fn, todo, last>>

\* run / runOut / runOutErr: prepare, start, map the error, then the
\* deferred setOpts(sudo(false)).  A guest-side wait that fails returns;
\* otherwise the next command of the function follows.
Exec(g) ==
    /\ pc[g] = "exec"
    /\ \E err \in Outcomes(cmd[g], env) :
          /\ last' = [g |-> g, asked |-> Head(todo[g]),
                      program |-> Prepare(cmd[g], env).name,
                      vboxMissing |-> cmd[g].program.name \notin env.installed
                                      \/ cmd[g].program.name = "false",
                      err |-> MapErr(err)]
          /\ todo' = [todo EXCEPT ![g] = Tail(@)]
          /\ IF Tail(todo[g]) = <<>> \/ err # NoError
             THEN pc' = [pc EXCEPT ![g] = "idle"] /\ UNCHANGED ret
             ELSE CallManage(g, IF Head(Tail(todo[g])) THEN "opts" ELSE "exec")
    /\ SetSudo(g, FALSE)
    /\ UNCHANGED <<env, fn>>

Init ==
    /\ env \in Envs
    /\ manage = Nil
    /\ pc = [g \in Goroutines |-> "idle"]
    /\ ret = [g \in Goroutines |-> "idle"]
    /\ fn = [g \in Goroutines |-> "Host"]
    /\ todo = [g \in Goroutines |-> <<>>]
    /\ cmd = [g \in Goroutines |-> Nil]
    /\ last = Nil

Next ==
    \E g \in Goroutines :
        \/ \E f \in APIs : Call(g, f)
        \/ ManageCached(g) \/ ManageNil(g) \/ Manage(g)
        \/ Branch(g) \/ SetOpts(g) \/ Exec(g)

Spec == Init /\ [][Next]_vars

-----------------------------------------------------------------------------
(* Type correctness: every goroutine past Manage() holds a command.        *)
TypeOK ==
    /\ env \in Env
    /\ manage \in CommandT \cup {Nil}
    /\ pc \in [Goroutines -> {"idle", "manage", "lookup", "branch", "opts", "exec"}]
    /\ fn \in [Goroutines -> APIs]
    /\ todo \in [Goroutines -> Seq(BOOLEAN)]
    /\ \A g \in Goroutines : pc[g] \in {"branch", "opts", "exec"} => cmd[g] \in CommandT
    /\ last = Nil \/ last.err \in Errors

(* A command runs under sudo only when the API function that runs it asked *)
(* for sudo (setOpts(sudo(true)) on the guest side), whatever the other    *)
(* goroutines asked for in between: the request does not leak through the *)
(* shared command that Manage() returns.                                   *)
SudoOnlyWhenAsked == last # Nil /\ last.program = "sudo" => last.asked

(* Once Manage() has stored the shared command, no step changes it: a      *)
(* goroutine that raced past the nil check and stores its own lookup       *)
(* stores the same value, and setOpts on a caller's copy never writes      *)
(* through to the shared one.                                              *)
ManageStable == [][manage # Nil => manage' = manage]_vars

(* Spec (section 6): a "not found" condition is a distinguished error kind. *)
(* When the control program cannot be run (no VirtualBox program           *)
(* installed, or the sudo it must go through missing), the call returns    *)
(* ErrCommandNotFound.                                                     *)
NotFoundDistinguished ==
    last # Nil /\ (last.vboxMissing \/ last.err \in {ExecError, PathError}) =>
        last.err = ErrCommandNotFound

=============================================================================

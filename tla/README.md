# TLA+ models of go-virtualbox

This directory holds the formal models of the go-virtualbox library (`src/`).
The library drives VirtualBox through the `VBoxManage` command. It builds
argument lists, parses the tool's text output into Go values, and runs the
lifecycle and guest-property commands. The models treat VBoxManage and the VM
as the environment: a state machine that accepts or rejects commands and
prints listings. Each library operation is one action, or one operator, against
that environment.

## Inventory

| Part of the system | Source | Module | Status |
|---|---|---|---|
| Command argument builder (`CmdArgs`, `Args()`) | `natnet.go` 102-182 | `CmdArgs` | modelled |
| NAT network registry (`NATNets()`) | `natnet.go` 10-99 | `NATNets` | modelled |
| DHCP server registry (`AddInternalDHCP`, `AddHostonlyDHCP`, `DHCPs()`) | `dhcp.go` | `DHCPServers` | modelled |
| UART codec (`NewUART`, `NewUARTs`, `ModifyVMCommandParameters`, ...) | `uart.go` 1-550 | `UART` | partly |
| Storage controller codec (`NewStorageControllersFromProps`, ...) | `uart.go` 626-797 | `Storage` (refines `StorageConfig`) | modelled (not `DeviceMedia`, `CloneHD`) |
| Machine lifecycle (`Start` ... `Unregister`, `Refresh`, `CreateMachine`) | `unnamed/part_002` | `Machine` | modelled |
| Machine assembler (`GetMachine`, `Modify`, NIC and storage setters) | `unnamed/part_002` | `UART` (UART part), `Storage` (storage part and setters) | partly |
| Guest properties (`SetGuestProperty`, `WaitGuestProperty`, `WaitGuestProperties`) | `unnamed/part_006`, example in `unnamed/part_003` | `GuestProps` | partly |
| Line parser (colon-line and key=value scanners) | `vbmgt.go`, `part_002` | abstracted inside the parsers | partly |
| Command execution (`Manage`, `LookupVBoxProgram`, `setOpts`, `run*`) | `vbcmd.go`, `vbmgt.go` | `Command` | modelled |
| Disk helpers, version, scripts, Makefile, tests | `part_000/1/4/5/7/8` | none | not modelled: single commands or no state |

How the parts interact: every registry and lifecycle operation builds an
argument list, runs one VBoxManage command, and parses its output. `GetMachine`
parses `showvminfo --machinereadable` into a property map. It passes that map
to the UART and storage codecs. `Modify` writes the UARTs back with
`modifyvm`, taking the arguments from `m.UARTs.ModifyVMCmdArgs()`
(`part_002` 491). That method is not defined under `src/`; the model uses
`ModifyVMCommandParameters` (`uart.go` 302), the one the UART tests exercise. The UART model covers that
whole write-then-read loop, and the Storage model the same loop for the
storage setters (`storagectl`, `storageattach`) and `showvminfo`. Every one of
these commands goes through `Manage()`, the shared command value of
`vbmgt.go`; the Command model covers that layer with several goroutines.

## Modules

**CmdArgs** models `CmdArgs` and its builders.
- The state is the two slices, `args` and `overrides`. Each `Append*` method is
  one action.
- `AppendCmdArgs` and `AppendOverride` take a list from a small set
  (`ArgLists`), including the empty list.
- `Args()` is an operator. Its two loops are the recursive functions
  `ScanArgs` (the map `m` plus `orderK`) and `EmitArgs`.
- `ToCmdArgParts` is a constant operator `ApplyParts`.

**NATNets** models `NATNets()` and its parsing.
- The environment is a set of NAT networks, which the tool adds and removes.
- `Listing` is what `list natnets` prints for them. It comes in two dialects
  (6.x and 7.0), and the last record may or may not be followed by a blank line.
- `ParseNATNets` is the scanner loop: one `ScanLine` step per line, with the
  blank-line store and the key switch.
- Addresses are abstracted to small model values. `ParseCIDR` of the IPv4
  network and the IPv6 prefix is `ParseCIDRMask`.

**DHCPServers** models the DHCP registry.
- `AddDHCP` builds the `dhcpserver add` arguments (`AddDHCPArgs`), and the tool
  applies them.
- `DHCPs()` is `ParseDHCPs`, taken over every record order of both listing
  dialects. That includes the lower-casing of keys (`ToLower`) and storing a
  record when its name line is read (`Rebind`).

**UART** models the UART codec together with `modifyvm` and `showvminfo`.
- The state has these variables:
  - the tool's four serial slots (`tool`);
  - the caller's `UARTs` value (`uarts`);
  - the UARTs last written (`written`);
  - the last write's outcome (`lastWrite`).
- The actions:
  - `SetUART`: `NewUART` plus `NewUARTsFromUARTMap`;
  - `SwitchAllOff`: `NewUARTsAllOff`;
  - `ReadUARTs`: `NewUARTs` on the VM's `VMInfo`, as `GetMachine` calls it;
  - `WriteUARTs`: `Modify`'s UART write (`part_002` 491). It calls
    `ModifyVMCmdArgs`, which is not in the repository, so it is modelled from
    the spec with `ModifyVMCommandParameters`'s arguments.
- `commandParameters` splits each `value` at spaces. The model does the same
  with the constant operator `SplitSpace`, and `NewUARTs` splits at commas with
  `SplitComma`.
- `ApplyFrom` is `modifyvm`'s argument loop. It rejects the whole command on a
  token it cannot place.

**Machine** models one caller with one `Machine` value, and the VM.
- The VM is an abstract state machine. `AcceptedIn` says in which states
  VBoxManage accepts a command, and `After` what state the command leaves.
- A method in progress is a stack of frames. `Body(r, st)` mirrors each method's
  `switch m.State`: it runs one command, or calls other methods (for example
  `Restart` calls `Start`, `Stop`, `Start`).
- The actions:
  - `RunOk` and `RunErr`: a command is accepted, or its error returns through
    every caller;
  - `Local`: a frame that calls or returns without a command;
  - `StopRefresh`: the `m.Refresh()` in Stop's loop;
  - `Refresh` and `CreateMachine`: the caller's own calls;
  - `GuestShutdown`: the guest acting on an ACPI press.
- The constant `CallerRefreshes` says whether the caller refreshes before each
  call.

**GuestProps** models `WaitGuestProperties` with the consumer of
`ExampleWaitGuestProperties`.
- The setter goroutine writes `Len(Sets)` values.
- The waiter goroutine loops:
  1. `StartWait`: start `guestproperty wait`.
  2. `WaitReturns` (the first change after the wait started), or `WaitFails`.
  3. `Send` (the unbuffered hand-over), or `SelectDone`.
- When the waiter returns, its deferred calls run in order: `WgDone`, then
  `CloseProps`.
- The consumer receives values until it has `Reads` of them or `props` is closed
  (`RecvClosed`), then closes `done` (`CloseDone`) and waits (`WgWait`).

**StorageRules** holds what the two storage modules share.
- The constants: controller names, registered disks, the chipsets that
  `showvminfo` reports as `"unknown"`, and the small sets of
  `StorageController` and `StorageMedium` values callers pass.
- VirtualBox's rules for a controller: the bus of each chipset (`BusOf`), the
  default chipset and port count of a bus, the port counts it accepts, and its
  devices per port. These rules belong to VBoxManage, not to the repository.

**StorageConfig** is the abstract specification of the storage API.
- Its state is the list of controllers, as `GetMachine` should report them.
- One action, `Next`: a call either has its documented effect and returns ok,
  or changes nothing and returns an error.
- The effects: add a controller or change one, remove one, put a medium (or
  an empty drive) in a slot, empty a slot.
- Where the caller cannot tell which rule applies (a controller reported as
  `"unknown"`), both outcomes are allowed.

**Storage** models the code against the tool.
- The state: the tool's controllers (`ctls`), the last call and its result,
  and what `GetMachine` then decodes (`reported`).
- The four setters build their argument lists (`AddStorageCtlArgs`, ...), with
  `fmt.Sprintf("%d")` and `bool2string` modelled as the conversions
  (`Itoa`, `Bool2String`). `Tool` applies `storagectl` or `storageattach`
  atomically or rejects it.
- After every call the model reads back. `ShowVMInfo` prints the
  controllers as key/value pairs. `NewStorageControllersFromProps`,
  `findStorageControllerByIndex`, `findStorageMedia`, `maxDevicePerPort` and
  the type table decode them, with `strconv.Atoi` for the port count.
- The refinement mapping `DecodedView` keeps the decoded controllers without
  the two fields the read path cannot know: `HostIOCache` and `DriveType`.
  `A == INSTANCE StorageConfig WITH cfg <- DecodedView`, and the property
  `ASpec == A!Spec` says that every step of the code is a step of the
  abstract configuration.

**Command** models `Manage()` and the command runner.
- The state:
  - the host (`env`): OS, installed programs, sudo group, `VBOX_INSTALL_PATH`,
    and whether `os.Stat` fails;
  - the package variable `manage`;
  - each goroutine's program counter, return point, API function, remaining
    commands and command value;
  - the last command run (`last`).
- The actions:
  - `Call` enters an API function: a guest-property function
    (`SetGuestProperty`, `GetGuestProperty`, `WaitGuestProperty`,
    `DeleteGuestProperty`) or a host-only one;
  - `ManageCached`, `ManageNil` and `Manage` are `Manage()`. The check for nil
    and the store are separate steps, because the code does not lock;
  - `Branch` is `if Manage().isGuest()`;
  - `SetOpts` is `setOpts(sudo(true))` on the copy;
  - `Exec` is `prepare`, the run, the error mapping and the deferred
    `setOpts(sudo(false))`.
- `GuestSteps` keeps `WaitGuestProperty`'s missing `else`: in guest mode it
  runs a second, host-side wait after the first.
- `Outcomes` is what `exec` returns. A missing program gives an `*exec.Error`,
  or a `*fs.PathError` for an absolute path. The `"false"` fallback, or a
  missing VBoxManage behind sudo, gives an exit status.

## Runs

| Run | Expect | Shows |
|---|---|---|
| cmdargs | pass | Any ≤4 builder calls over 2 keys: each key emitted once (`ArgsKeyOnce`), the last override wins (`OverrideWins`), otherwise the last base value (`BaseValueKept`), first-seen order (`FirstSeenOrder`). |
| dhcp_servers | pass | `DHCPs()` returns exactly the servers added, for both dialects, every order, with or without a trailing blank line (`DHCPsFaithful`). |
| natnets_v6 | pass | `NATNets()` returns exactly the tool's networks for 6.x listings that end in a blank line (`NATNetsFaithful`). |
| uart_roundtrip | pass | Written UARTs read back equal (`UARTRoundTrip`), and `modifyvm` accepts every write (`WriteAccepted`). |
| machine_lifecycle | pass | A method that returns nil leaves the VM in its promised state (`OkMeansPromised`), and every method returns (`MethodsReturn`). |
| machine_restart | violation | `Restart` of a saved VM fails after starting it, acting on a stale `m.State`. |
| guestprops_waiter | pass | Changes reach the consumer in order, at most once each, never before they are made (`ReceivedInOrder`), and the waiter never stays stuck at its select (`SelectNeverStuck`). |
| guestprops_cancel | violation | After `close(done)` the waiter stays blocked in `guestproperty wait`, so `wg.Wait()` hangs. |
| storage_roundtrip | pass | Any sequence of storage calls reads back without a decode error (`GetMachineDecodes`), with well-formed controllers (`TypeOK`), and implements `StorageConfig` (`ASpec`). |
| storage_detach_reported | violation | `DetachStorage` of a medium as `GetMachine` returns it fails: its `DriveType` is `""`, and `storageattach` rejects an empty `--type`. |
| command_runner | pass | With two goroutines sharing `Manage()`, a command runs under sudo only when its own API function asked for it (`SudoOnlyWhenAsked`). Once stored, the shared command never changes (`ManageStable`). |
| command_not_found | violation | On a guest whose sudo is missing, the call returns the raw `*exec.Error`, never `ErrCommandNotFound`: `ee == exec.ErrNotFound` (`vbcmd.go` 98) is never true. The run has guest hosts only. A host with no VirtualBox program fails differently: it runs the `"false"` fallback (`vbmgt.go` 44) and gets `exit status 1`. That case is listed under hazards at `vbmgt.go` 44; no run shows it. |

Every property of a passing run has a mutant in `PROJECT.json`: a plausible bug
in the mapped code that makes TLC report the property violated.

More defects turned up while modelling. Each one shows up in a single
unit-test-sized scenario, and the project is limited in the number of runs it
keeps, so no run is spent on them:
- `NATNets()` matches only `DHCP Enabled` (`natnet.go` 89). 7.0 prints
  `DHCP Server:`, as the function's own comment shows, so every 7.0 network
  reads as DHCP disabled. The model's `SetField` keeps the code's
  single alias; setting `Dialects` to `{"7.0"}` in a NATNets cfg makes TLC
  exhibit the loss.
- `UARTModeFromStringIfSupported` maps `"client"` to `UARTModeServer`
  (`uart.go` 224-225). The model keeps that mapping.
- `NATNets()` stores a record only on a blank line (`natnet.go` 54). The last
  network is lost when the listing does not end with one. Setting `TrailingBlank`
  to `{FALSE}` in MCNATNets_v6.cfg makes `NATNetsFaithful` fail.
- `commandParameters` splits mode data at every space (`uart.go` 336), so a
  pipe or file path with a space makes `modifyvm` reject the write. Adding
  such data to `MCUART`'s inputs breaks `WriteAccepted`.
- `initUARTModeFromVMInfoMap` needs exactly two comma-separated parts
  (`uart.go` 479), so a path with a comma makes `NewUARTs`, and so
  `GetMachine`, fail. The same change to the inputs breaks `UARTRoundTrip`.
- `Stop` presses the ACPI button again whenever its last Refresh saw the VM
  running (`part_002` 199). If the guest powers off in between, the press
  fails and `Stop` returns that error. `machine_restart` checks the same
  property, `NoSpuriousFailure`.
- In guest mode `WaitGuestProperty` waits twice (`part_006` 71-77) and
  returns the second result. Command models the second wait, which runs
  without sudo.

**Bounds.**
- CmdArgs: four stored arguments over two keys. That is enough for a key
  appended, overridden, re-appended and deleted in every order.
- NATNets and DHCPServers: two networks or servers, so that record order and a
  last record without a blank line both occur.
- UART: one configurable slot (rank 2) among four. Each mode and type is
  covered, with port and IRQ values both given and empty.
- Machine: every method from every VM state.
- GuestProps: four changes and two reads, so that the consumer stops while
  changes remain.
- Storage: two controller names, one disk image, and one chipset reported as
  `"unknown"`. The inputs are five controller values and four media. They
  reach these cases:
  - a default chipset and an explicit one;
  - a second controller on a taken bus (rejected);
  - a port-count change and a chipset change;
  - an IDE slave slot;
  - attaching by path and by UUID, the same disk twice, and an empty drive;
  - detaching an occupied slot and an empty one.
  The run takes about two minutes (44,601 states).
- Command: two goroutines, so that one can ask for sudo while the other uses
  the shared command. The five hosts are Linux with VBoxManage, Linux guests
  with and without the sudo group, Linux with neither program, and a Windows
  guest. Together they reach every branch of `LookupVBoxProgram` and
  `Manage()`.

**Fairness.**
- Machine: weak fairness on the frames of a running method. A Go call runs to
  its end. The guest acting on a pending ACPI press is also weakly fair;
  `MethodsReturn` needs that, and without it Stop loops forever (a listed
  hazard).
- GuestProps: weak fairness on every goroutine step and on `guestproperty wait`
  returning once a change happened. There is none on the tool failing.

## Proofs (TLAPS)

| Module | Theorem | Statement |
|---|---|---|
| CmdArgs_proofs | TypeCorrect | `Spec => []TypeOK` |
| Machine_proofs | TypeCorrect | `Spec => []TypeOK`, with the lemmas `BodyType` (every frame body pushes routines and runs a known command), `PushType` and `AfterType` |
| GuestProps_proofs | TypeCorrect, InOrder | `Spec => []TypeOK` and `Spec => []ReceivedInOrder` |
| Machine_proofs | MethodsKeepPromises | `CallerRefreshes /\ Spec => []OkMeansPromised`, for every set of methods and both guest behaviours |
| Command_proofs | TypeCorrect, SudoNeverLeaks, ManageNeverChanges | `Spec => []TypeOK`, `Spec => []SudoOnlyWhenAsked` and the action property `Spec => ManageStable`, for every host set and every number of goroutines |
| CmdArgs_proofs | KeysOnce, OverridesWin, BaseKept, EmitOrder | `Spec => []ArgsKeyOnce`, `[]OverrideWins`, `[]BaseValueKept` and `[]FirstSeenOrder`, for all key and value sets and every bound |
| DHCPServers_proofs | TypeCorrect, DHCPsFaithfulThm | `Spec => []TypeOK` and `Spec => []DHCPsFaithful`, for all network, address and mask sets, both dialects, every record order and both endings |

`ReceivedInOrder` is not inductive. A `Send` appends `got`, and nothing in the
property says `got` is larger than what was already received. The inductive
invariant `IInv` (GuestProps_proofs) adds these facts:
- `waitFrom <= si`;
- in the select state, `got = waitFrom + 1 <= si`;
- while waiting or selecting, the last received value is `<= waitFrom`;
- `wg` is 0 exactly when the waiter has run its deferred `wg.Done`;
- the consumer is receiving only while `left > 0`.

TLC checked `IInv` as an invariant before the proof. The proofs hold for every
value of the constants under the named `ASSUME`s: `Sets` is any sequence of
strings and `Reads` any positive number.

`SudoOnlyWhenAsked` is not inductive either: it speaks only of the last
command run. The invariant `IInv` (Command_proofs) adds these facts:
- `manage`, once set, has sudo off and is not the sudo program (`ManageInv`);
- per goroutine (`GInv`):
  - a goroutine's command has sudo on only when it is about to run the
    command, and the command's own flag (the head of `todo`) asked for sudo;
  - a goroutine on its way to `setOpts` has a pending command that asks for
    sudo;
  - one on its way to a run has a pending command.
The step that matters is `Exec`: `prepare` chooses `sudo` only if the
command's sudo flag is on, and `GInv` ties that flag to the request. `Manage`
stores a value built with sudo off (`ManageValueType`). `SetOpts` changes only
the goroutine's own copy (`SetSudo`). TLC checked `IInv` on the
`command_runner` instance before the proof. The only assumptions are
`CommandAssumption`: some goroutines, and hosts from `Env`.

`ManageStable` says that once `manage` is set, no step changes it. It
rests on the invariant `MInv`: `manage` is nil or equals `ManageValue(env)`,
the lookup in the host environment, which no step changes. The lemma
`NextManage` shows that every action leaves `env` alone and either leaves
`manage` alone or stores `ManageValue(env)`. That covers the racing
`Manage` (`vbmgt.go` 28), whose later store writes the same value. A
`setOpts` with a pointer receiver (the mutant `SetSudoShared`) would break
the property.

`OkMeansPromised` (Machine) speaks only of `ret`, `vm` and `called`. Nothing
in it limits what a method still on the stack will do, so it is not inductive.
The invariant `OkInv` (Machine_proofs) adds these facts:
- while a method runs, `ret` is still `"none"`;
- `Frames`: for each method, the frame stacks it can be in, and what
  each stack implies about `vm` and the cached `state`. Example: `Restart`'s
  `<<"Stop", "Start">>` holds either a fresh `vm = state` or a running VM
  that was paused or saved;
- `AcpiInLoop`: a pending ACPI press exists only inside `Stop`'s polling
  loop, on a running VM. This is why the guest's shutdown can only move the
  VM to `poweroff` where `Stop` promises it.

TLC checked `OkInv` twice before the proof:
- as an invariant of the reachable states;
- from every `OkInv` state of the enumerated stack shapes (`OkInv` as the
  initial predicate), for both values of `GuestHonoursACPI`.

The proof has one step per action and, inside `Local` and `RunOk`, one step
per method and stack shape. It uses these lemmas:
- `BodyFacts`: each routine's body, stated without the nested `CASE`;
- `ConcatFrames` and `ConcatPush`: the frame concatenations;
- `LoopFrames` and `RefreshInLoop`: which method owns the polling loop.

The hypothesis `CallerRefreshes` is the `Call` guard `state = vm`: the
caller refreshes its `Machine` before each call, as `machine_lifecycle`
assumes. Without it the property fails. A stale `m.State` is the hazard
that the `machine_restart` violation run exhibits.

The four `CmdArgs` properties are about what `Args()` computes, and they
are invariants of every state, given `TypeOK`: each is proved as
`TypeOK => P` (`KeyOnceInv`, `OverrideInv`, `BaseInv`, `FirstSeenInv`).
The work is in `Args()`'s two loops, modelled as the recursive functions
`ScanArgs` and `EmitArgs`. `ScanStepsDef` and `EmitStepsDef` unfold each
function through `NaturalsInduction`'s `FiniteNatInductiveDef`. The loop
invariants `ScanOK` and `EmitOK` are proved by induction over the loop index
(`SetInduction` on a set defined for the one loop, so no operator
parameter is needed). `ScanOK` says what the map and `orderK` hold after
`i` arguments. `EmitOK` says which keys have been emitted after `i` keys of
`orderK`.

`DHCPsFaithful` is proved from the inductive invariant `IInv`: `TypeOK`,
finitely many servers (`Listed(servers)` is finite), and `DHCPsFaithful`.
Finiteness is needed because `DHCPs` draws the record order from
`SetToSeqs`, which lists every server only for a finite set. An `addDHCP`
changes neither `listed` nor `result`. A `DHCPs()` call replaces both, and
`ParseListing` shows the new result is faithful. It argues in these steps:
- `ParseIsRun` and `RunDef` unfold the scan of `ParseDHCPs` into the
  function `Run(st, lines)` from any scan state.
- `RunConcat`: scanning `a \o b` is scanning `b` from where `a` left off.
- A listing is the concatenation of its record blocks (`ListingRecs`,
  `PrefixFacts`, which unfold `FlattenSeq`).
- `Record5` and `Record61`: one record of either dialect takes the scan
  from "between records with map `M`" to "inside record `n`, with `n`
  stored". The per-line lemmas `NameLine`, `FieldLine`, `OtherLine` and
  `BlankLine`, and one `Set*` lemma per `switch` case, carry this.
- `ScanRecords`: by induction over the number of records, after `k`
  records the scan holds exactly the first `k` servers (`AfterRecords`).
- `OrdFacts`: the order `SetToSeqs` gives is injective and covers every
  server, so the final map's domain is the listed set.

Two changes let the prover read the model. Neither changes what it says:
- `MapPut(m, k, v)` writes `m[k] = v` as a function over
  `DOMAIN m \cup {k}`, where `@@` and `:>` were used before. tlapm has no
  definition of those two operators.
- The proof module gives the keys with a space (`"Dhcpd IP"`,
  `"    minLeaseTime"`) top-level names (`KDhcpdIP`, `KMinLease`). Its
  SMT back end cannot read string literals that contain a space.

The theorem's only assumption is `DHCPServersAssumption`, in the form TLC
also evaluates.

**What stays with TLC.**
- Liveness (`MethodsReturn`, `SelectNeverStuck`): the prover does not handle
  `ENABLED` and fairness.
- `NATNetsFaithful` (the `ParseNATNets` scan) and the Storage decoders. The
  record-by-record argument used for `DHCPs()` would carry over, but these
  proofs are not written yet. The `natnets_v6` run checks `NATNetsFaithful`
  on its instance.
- Everything in the UART module. Its `ApplyFrom` is a `RECURSIVE` operator,
  and tlapm cannot prove anything in a module that reaches one.
- The Storage refinement (`ASpec`): it rests on what the recursive decoder
  functions compute for every tool state, which is induction over data.

## Not modelled, and the plan

- **Next:**
  - `GetMachine`'s NIC decoding and `Modify`'s argument assembly (built from
    `CmdArgs`);
  - a proof of the Storage type invariant, and of `NATNetsFaithful` along
    the lines of `DHCPsFaithfulThm`;
  - `GetGuestProperty` and `DeleteGuestProperty` in the GuestProps model
    (Command already runs them, as commands).
- **Left out:**
  - `StorageControllers.DeviceMedia`, a read-only projection that no code in
    the repository calls, and `CloneHD`, a single `clonehd` call;
  - the output of the processes `Command` runs, and the `Verbose` logging;
  - the guest-side `VBoxControl` mode, whose output format is not in the
    repository;
  - scripts, the Makefile and tests.

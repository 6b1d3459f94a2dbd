--------------------------- MODULE Machine_proofs ---------------------------
(***************************************************************************)
(* Proofs about the Machine lifecycle methods.                             *)
(***************************************************************************)
EXTENDS Machine, SequenceTheorems, TLAPS

USE MachineAssumption

(* Whatever frame runs with whatever cached State, it issues a VBoxManage  *)
(* command or none, and the frames it pushes are routines of the methods.  *)
LEMMA BodyType ==
    ASSUME NEW r \in Routines, NEW st \in States
    PROVE  /\ Body(r, st).then \in Seq(Routines)
           /\ Body(r, st).cmd \in Commands \cup {"none"}
<1>1. /\ <<"Start", "SaveCmd">> \in Seq(Routines)
      /\ <<"SaveCmd">> \in Seq(Routines)
      /\ <<"Start", "StopLoop">> \in Seq(Routines)
      /\ <<"StopLoop">> \in Seq(Routines)
      /\ <<"StopRefresh", "StopLoop">> \in Seq(Routines)
      /\ <<"Start", "Stop", "Start">> \in Seq(Routines)
      /\ <<"Stop", "Start">> \in Seq(Routines)
      /\ <<"Start", "ResetCmd">> \in Seq(Routines)
      /\ <<"ResetCmd">> \in Seq(Routines)
      /\ <<"Poweroff", "DeleteCmd">> \in Seq(Routines)
      /\ <<"Poweroff", "UnregisterCmd">> \in Seq(Routines)
      /\ << >> \in Seq(Routines)
      BY DEF Routines, AllMethods
<1>2. StopLoopBody(st).then \in Seq(Routines) /\ StopLoopBody(st).cmd \in Commands \cup {"none"}
      BY <1>1 DEF StopLoopBody, Do, Return, Commands
<1>3. Body(r, st).then \in Seq(Routines)
      BY <1>1, <1>2 DEF Body, Do, Return, Calls
<1>4. Body(r, st).cmd \in Commands \cup {"none"}
      BY <1>2 DEF Body, Do, Return, Calls, Commands
<1> QED BY <1>3, <1>4

(* Pushing a frame's callees onto the rest of the stack keeps a stack of   *)
(* routines.                                                               *)
LEMMA PushType ==
    ASSUME NEW s \in Seq(Routines), s # <<>>, NEW st \in States
    PROVE  /\ Head(s) \in Routines
           /\ Body(Head(s), st).then \o Tail(s) \in Seq(Routines)
<1>1. Head(s) \in Routines /\ Tail(s) \in Seq(Routines)
      BY HeadTailProperties
<1>2. Body(Head(s), st).then \in Seq(Routines)
      BY <1>1, BodyType
<1> QED BY <1>1, <1>2, ConcatProperties

(* The VM's state after an accepted command is a VM state or "absent".      *)
LEMMA AfterType ==
    ASSUME NEW cmd \in Commands, NEW s \in States
    PROVE  After(cmd, s) \in States \cup {"absent"}
BY DEF After, Commands, States

(* Every step, of the caller, of VBoxManage or of the guest, keeps every    *)
(* variable in its type.                                                   *)
LEMMA TypeStep == TypeOK /\ [Next]_vars => TypeOK'
<1> SUFFICES ASSUME TypeOK, [Next]_vars PROVE TypeOK'
    OBVIOUS
<1>1. ASSUME NEW meth \in Methods, Call(meth) PROVE TypeOK'
      <2>1. <<meth>> \in Seq(Routines)
            BY DEF AllMethods, Routines
      <2> QED BY <1>1, <2>1 DEF Call, TypeOK, AllMethods
<1>2. CASE Refresh
      BY <1>2 DEF Refresh, TypeOK
<1>3. CASE CreateMachine
      BY <1>3 DEF CreateMachine, TypeOK, States
<1>4. CASE Local
      <2>1. stack' \in Seq(Routines)
            BY <1>4, PushType DEF Local, TypeOK
      <2>2. ret' \in {"none", "ok", "err"}
            BY <1>4 DEF Local, Finish
      <2> QED BY <1>4, <2>1, <2>2 DEF Local, TypeOK
<1>5. CASE RunOk
      <2> DEFINE b == Body(Head(stack), state)
      <2>1. stack' \in Seq(Routines)
            BY <1>5, PushType DEF RunOk, TypeOK
      <2>2. b.cmd \in Commands
            BY <1>5, PushType, BodyType DEF RunOk, TypeOK
      <2>3. vm \in States
            <3>1. vm \in AcceptedIn(b.cmd)
                  BY <1>5 DEF RunOk
            <3> QED BY <3>1, <2>2 DEF AcceptedIn, Stopped, States, Commands
      <2>4. vm' \in States \cup {"absent"}
            BY <1>5, <2>2, <2>3, AfterType DEF RunOk
      <2>5. ret' \in {"none", "ok", "err"} /\ acpi' \in BOOLEAN
            BY <1>5 DEF RunOk, Finish
      <2> QED BY <1>5, <2>1, <2>4, <2>5 DEF RunOk, TypeOK
<1>6. CASE RunErr
      BY <1>6, EmptySeq DEF RunErr, TypeOK
<1>7. CASE StopRefresh
      <2>1. CASE vm = "absent"
            BY <1>7, <2>1, EmptySeq DEF StopRefresh, TypeOK
      <2>2. CASE vm # "absent"
            <3>1. Tail(stack) \in Seq(Routines)
                  BY <1>7, HeadTailProperties DEF StopRefresh, TypeOK
            <3> QED BY <1>7, <2>2, <3>1 DEF StopRefresh, TypeOK, Finish
      <2> QED BY <2>1, <2>2
<1>8. CASE GuestShutdown
      BY <1>8 DEF GuestShutdown, TypeOK, States
<1>9. CASE UNCHANGED vars
      BY <1>9 DEF vars, TypeOK
<1> QED BY <1>1, <1>2, <1>3, <1>4, <1>5, <1>6, <1>7, <1>8, <1>9 DEF Next

(* The lifecycle methods keep every variable in its type.                  *)
THEOREM TypeCorrect == Spec => []TypeOK
<1>1. Init => TypeOK
      BY EmptySeq DEF Init, TypeOK
<1> QED BY <1>1, TypeStep, PTL DEF Spec


-----------------------------------------------------------------------------
(***************************************************************************)
(* What a method in progress looks like.  On a freshly read Machine the    *)
(* stack of a method is one of the few shapes below, each with what it     *)
(* tells of the VM: a method's frames were pushed on a State equal to the  *)
(* VM's, and each accepted command moved the VM to the state the next      *)
(* frame was written for.                                                  *)
(***************************************************************************)

\* The frames of a method just called on a State equal to the VM's.
Fresh(fs) == stack = fs /\ vm = state

\* Stop's polling loop, called by Stop or, with a Start after it, by Restart.
LoopStop == stack \in {<<"StopLoop">>, <<"StopRefresh", "StopLoop">>}
LoopRestart ==
    stack \in {<<"StopLoop", "Start">>, <<"StopRefresh", "StopLoop", "Start">>}

\* Inside the loop the VM is running or powered off, and a State read as
\* "poweroff" is the VM's.
LoopOK ==
    /\ vm \in {"running", "poweroff"}
    /\ (Head(stack) = "StopLoop" /\ state = "poweroff") => vm = "poweroff"

Frames ==
    /\ called = "Start" => Fresh(<<"Start">>)
    /\ called = "Save" =>
          \/ Fresh(<<"Save">>)
          \/ Fresh(<<"Start", "SaveCmd">>) /\ state = "paused"
          \/ stack = <<"SaveCmd">> /\ vm = "running"
    /\ called = "Pause" => Fresh(<<"Pause">>)
    /\ called = "Poweroff" => Fresh(<<"Poweroff">>)
    /\ called = "Stop" =>
          \/ Fresh(<<"Stop">>)
          \/ Fresh(<<"Start", "StopLoop">>) /\ state = "paused"
          \/ LoopStop /\ LoopOK
    /\ called = "Restart" =>
          \/ Fresh(<<"Restart">>)
          \/ Fresh(<<"Start", "Stop", "Start">>) /\ state \in {"paused", "saved"}
          \/ /\ stack = <<"Stop", "Start">>
             /\ \/ vm = state /\ state \notin {"paused", "saved"}
                \/ vm = "running" /\ state \in {"paused", "saved"}
          \/ stack = <<"Start", "StopLoop", "Start">> /\ vm = "running" /\ state = "paused"
          \/ LoopRestart /\ LoopOK
          \/ stack = <<"Start">> /\ (state = "running" => vm = "running")
    /\ called = "Reset" =>
          \/ Fresh(<<"Reset">>)
          \/ Fresh(<<"Start", "ResetCmd">>) /\ state \in {"paused", "saved"}
          \/ stack = <<"ResetCmd">> /\ vm # "paused"
    /\ called = "Delete" =>
          \/ Fresh(<<"Delete">>)
          \/ Fresh(<<"Poweroff", "DeleteCmd">>)
          \/ stack = <<"DeleteCmd">>
    /\ called = "Unregister" =>
          \/ Fresh(<<"Unregister">>)
          \/ Fresh(<<"Poweroff", "UnregisterCmd">>)
          \/ stack = <<"UnregisterCmd">>

\* A pending power button press: only inside Stop's loop, on a running VM,
\* and once the loop has re-read the State it reads "running".
AcpiInLoop ==
    acpi => /\ vm = "running"
            /\ LoopStop \/ LoopRestart
            /\ Head(stack) = "StopLoop" => state = "running"

\* A method in progress has not returned yet and has a shape of Frames.
Busy == stack # <<>> => ret = "none" /\ Frames

\* The inductive invariant behind OkMeansPromised.
OkInv == TypeOK /\ OkMeansPromised /\ AcpiInLoop /\ Busy

(* Pushing two frames onto a stack of one, as Stop's loop does in Restart. *)
LEMMA ConcatPush ==
    ASSUME NEW a, NEW b, NEW c
    PROVE  <<a, b>> \o <<c>> = <<a, b, c>>
<1> DEFINE S == {a, b, c}
<1>1. <<a, b>> \in Seq(S) /\ <<c>> \in Seq(S) /\ <<a, b, c>> \in Seq(S)
      OBVIOUS
<1>2. /\ <<a, b>> \o <<c>> \in Seq(S)
      /\ Len(<<a, b>> \o <<c>>) = 3
      /\ \A i \in 1..3 : (<<a, b>> \o <<c>>)[i] = <<a, b, c>>[i]
      BY <1>1, ConcatProperties
<1> QED BY <1>1, <1>2, SeqEqual

(* Pushing frames onto a stack: the concatenations the methods perform.   *)
LEMMA ConcatFrames ==
    ASSUME NEW a, NEW b, NEW c
    PROVE  /\ << >> \o << >> = << >>
           /\ << >> \o <<c>> = <<c>>
           /\ << >> \o <<b, c>> = <<b, c>>
           /\ <<a>> \o << >> = <<a>>
           /\ <<a, b>> \o << >> = <<a, b>>
           /\ <<a, b, c>> \o << >> = <<a, b, c>>
           /\ <<a>> \o <<c>> = <<a, c>>
           /\ <<a, b>> \o <<c>> = <<a, b, c>>
<1> DEFINE S == {a, b, c}
<1>1. /\ << >> \in Seq(S) /\ <<a>> \in Seq(S) /\ <<c>> \in Seq(S)
      /\ <<a, b>> \in Seq(S) /\ <<a, c>> \in Seq(S) /\ <<b, c>> \in Seq(S)
      /\ <<a, b, c>> \in Seq(S)
      OBVIOUS
<1>2. /\ << >> \o << >> = << >>
      /\ << >> \o <<c>> = <<c>>
      /\ << >> \o <<b, c>> = <<b, c>>
      /\ <<a>> \o << >> = <<a>>
      /\ <<a, b>> \o << >> = <<a, b>>
      /\ <<a, b, c>> \o << >> = <<a, b, c>>
      BY <1>1, ConcatEmptySeq
<1>3. <<a>> \o <<c>> = <<a, c>>
      <2>1. /\ <<a>> \o <<c>> \in Seq(S)
            /\ Len(<<a>> \o <<c>>) = 2
            /\ \A i \in 1..2 : (<<a>> \o <<c>>)[i] = <<a, c>>[i]
            BY <1>1, ConcatProperties
      <2> QED BY <1>1, <2>1, SeqEqual
<1>4. <<a, b>> \o <<c>> = <<a, b, c>>
      BY ConcatPush, Zenon
<1> QED BY <1>2, <1>3, <1>4

(* What each routine does with a cached State, one routine at a time.      *)
LEMMA BodyFacts ==
    ASSUME NEW st \in States
    PROVE  /\ Body("Start", st) =
                 IF st = "paused" THEN Do("resume", << >>)
                 ELSE IF st \in Stopped THEN Do("startvm", << >>) ELSE Return
           /\ Body("Save", st) =
                 IF st = "paused" THEN Calls(<<"Start", "SaveCmd">>)
                 ELSE IF st \in Stopped THEN Return ELSE Calls(<<"SaveCmd">>)
           /\ Body("SaveCmd", st) = Do("savestate", << >>)
           /\ Body("Pause", st) =
                 IF st \in Stopped \cup {"paused"} THEN Return ELSE Do("pause", << >>)
           /\ Body("Stop", st) =
                 IF st \in Stopped THEN Return
                 ELSE IF st = "paused" THEN Calls(<<"Start", "StopLoop">>)
                 ELSE Calls(<<"StopLoop">>)
           /\ Body("StopLoop", st) = StopLoopBody(st)
           /\ Body("Poweroff", st) =
                 IF st \in Stopped THEN Return ELSE Do("poweroff", << >>)
           /\ Body("Restart", st) =
                 IF st \in {"paused", "saved"} THEN Calls(<<"Start", "Stop", "Start">>)
                 ELSE Calls(<<"Stop", "Start">>)
           /\ Body("Reset", st) =
                 IF st \in {"paused", "saved"} THEN Calls(<<"Start", "ResetCmd">>)
                 ELSE Calls(<<"ResetCmd">>)
           /\ Body("ResetCmd", st) = Do("reset", << >>)
           /\ Body("Delete", st) = Calls(<<"Poweroff", "DeleteCmd">>)
           /\ Body("Unregister", st) = Calls(<<"Poweroff", "UnregisterCmd">>)
           /\ Body("DeleteCmd", st) = Do("unregistervm", << >>)
           /\ Body("UnregisterCmd", st) = Do("unregistervm", << >>)
BY DEF Body, Stopped, States

(* A loop stack belongs to Stop or to Restart, and then the loop's         *)
(* conditions hold.                                                        *)
LEMMA LoopFrames ==
    ASSUME TypeOK, Frames, LoopStop \/ LoopRestart
    PROVE  /\ LoopOK
           /\ LoopStop => called = "Stop"
           /\ LoopRestart => called = "Restart"
<1>1. /\ LoopStop => \/ Head(stack) = "StopLoop" /\ Len(stack) = 1
                     \/ Head(stack) = "StopRefresh" /\ Len(stack) = 2
      /\ LoopRestart => \/ Head(stack) = "StopLoop" /\ Len(stack) = 2
                        \/ Head(stack) = "StopRefresh" /\ Len(stack) = 3
      BY DEF LoopStop, LoopRestart
<1>2. Head(stack) \in {"StopLoop", "StopRefresh"}
      BY <1>1
<1>3. ~(LoopStop /\ LoopRestart)
      BY <1>1
<1>4. called \in {"Stop", "Restart"}
      BY <1>2 DEF Frames, Fresh, TypeOK, AllMethods
<1>5. CASE called = "Stop"
      BY <1>1, <1>2, <1>3, <1>5 DEF Frames, Fresh
<1>6. CASE called = "Restart"
      BY <1>1, <1>2, <1>3, <1>6 DEF Frames, Fresh
<1> QED BY <1>4, <1>5, <1>6

(* Only Stop's loop has a StopRefresh frame on top.                        *)
LEMMA RefreshInLoop ==
    ASSUME Frames, TypeOK, Head(stack) = "StopRefresh"
    PROVE  LoopStop \/ LoopRestart
BY DEF Frames, Fresh, LoopStop, LoopRestart, TypeOK, AllMethods

(* Initially no method is in progress and nothing has returned.            *)
LEMMA InitOkInv == Init => OkInv
BY EmptySeq DEF Init, OkInv, TypeOK, OkMeansPromised, AcpiInLoop, Busy

(* On a freshly read Machine every step keeps OkInv.                       *)
LEMMA NextOkInv ==
    ASSUME CallerRefreshes, OkInv, [Next]_vars
    PROVE  OkInv'
<1>0. /\ TypeOK /\ OkMeansPromised /\ AcpiInLoop /\ Busy
      /\ TypeOK'
      BY TypeStep DEF OkInv
<1>1. ASSUME NEW meth \in Methods, Call(meth) PROVE OkInv'
      BY <1>0, <1>1 DEF Call, OkInv, OkMeansPromised, AcpiInLoop, Busy, Frames,
                        Fresh, LoopStop, LoopRestart
<1>2. CASE Refresh
      BY <1>0, <1>2 DEF Refresh, OkInv, OkMeansPromised, AcpiInLoop, Busy,
                        LoopStop, LoopRestart
<1>3. CASE CreateMachine
      BY <1>0, <1>3 DEF CreateMachine, OkInv, OkMeansPromised, AcpiInLoop, Busy,
                        LoopStop, LoopRestart
<1>4. CASE Local
      <2>1. /\ stack # << >> /\ Frames
            /\ Head(stack) # "StopRefresh"
            /\ Body(Head(stack), state).cmd = "none"
            /\ stack' = Body(Head(stack), state).then \o Tail(stack)
            /\ ret' = Finish(stack')
            /\ UNCHANGED <<vm, acpi, state, called>>
            BY <1>0, <1>4 DEF Local, Busy
      <2>12. ret' = Finish(stack')
             BY <1>4 DEF Local
      <2>13. UNCHANGED <<vm, acpi, state, called>>
             BY <1>4 DEF Local
      <2>14. /\ stack' = Body(Head(stack), state).then \o Tail(stack)
             /\ Body(Head(stack), state).cmd = "none"
             BY <1>4 DEF Local
      <2>0. state \in States
            BY <1>0 DEF TypeOK
      <2>2. ~acpi
            <3> SUFFICES ASSUME acpi PROVE FALSE
                OBVIOUS
            <3>1. Head(stack) = "StopLoop" /\ state = "running"
                  BY <1>0, <2>1 DEF AcpiInLoop, LoopStop, LoopRestart
            <3> QED BY <2>0, BodyFacts, <2>1, <3>1 DEF StopLoopBody, Do
      <2> SUFFICES OkMeansPromised' /\ Busy'
          BY <1>0, <2>1, <2>2 DEF OkInv, AcpiInLoop
      <2>3. CASE called = "Start"
            <3>1. stack = <<"Start">> /\ vm = state
                  BY <2>1, <2>3 DEF Frames, Fresh
            <3>2. state = "running"
                  BY <2>0, BodyFacts, <1>0, <2>1, <3>1 DEF Do, Return, Stopped, TypeOK, States
            <3>3. stack' = << >>
                  BY <2>0, BodyFacts, <2>1, <3>1, <3>2, ConcatFrames DEF Return, Do
            <3> QED BY <2>12, <2>13, <2>3, <3>1, <3>2, <3>3 DEF OkMeansPromised, Promised, Busy, Finish
      <2>4. CASE called = "Save"
            <3>1. Fresh(<<"Save">>)
                  BY <2>0, BodyFacts, <2>1, <2>4 DEF Frames, Fresh, Do, Stopped
            <3>2. CASE state = "paused"
                  <4>1. stack' = <<"Start", "SaveCmd">>
                        BY <2>0, BodyFacts, <2>1, <3>1, <3>2, ConcatFrames DEF Fresh, Calls, Do
                  <4>2. ret' = "none"
                        BY <2>12, <4>1 DEF Finish
                  <4>3. Frames'
                        BY <2>1, <2>4, <3>1, <3>2, <4>1 DEF Frames, Fresh
                  <4> QED BY <4>2, <4>3 DEF OkMeansPromised, Busy
            <3>3. CASE state \in Stopped
                  <4>1. stack' = << >>
                        BY <2>0, BodyFacts, <2>1, <3>1, <3>3, ConcatFrames DEF Fresh, Return, Do, Stopped
                  <4> QED BY <2>12, <2>13, <2>4, <3>1, <3>3, <4>1 DEF OkMeansPromised, Promised,
                             Busy, Finish, Fresh
            <3>4. CASE state = "running"
                  <4>1. stack' = <<"SaveCmd">>
                        BY <2>0, BodyFacts, <2>1, <3>1, <3>4, ConcatFrames DEF Fresh, Calls, Do, Stopped
                  <4> QED BY <2>12, <2>13, <2>4, <3>1, <3>4, <4>1 DEF OkMeansPromised, Finish, Busy, Frames, Fresh
            <3> QED BY <1>0, <3>2, <3>3, <3>4 DEF TypeOK, States, Stopped
      <2>5. CASE called = "Pause"
            <3>1. Fresh(<<"Pause">>) /\ state \in Stopped \cup {"paused"}
                  BY <2>0, BodyFacts, <2>1, <2>5 DEF Frames, Fresh, Do, Return
            <3>2. stack' = << >>
                  BY <2>0, BodyFacts, <2>1, <3>1, ConcatFrames DEF Fresh, Return, Do
            <3> QED BY <2>12, <2>13, <2>5, <3>1, <3>2 DEF OkMeansPromised, Promised, Busy,
                       Finish, Fresh
      <2>6. CASE called = "Poweroff"
            <3>1. Fresh(<<"Poweroff">>) /\ state \in Stopped
                  BY <2>0, BodyFacts, <2>1, <2>6 DEF Frames, Fresh, Do, Return
            <3>2. stack' = << >>
                  BY <2>0, BodyFacts, <2>1, <3>1, ConcatFrames DEF Fresh, Return, Do
            <3> QED BY <2>12, <2>13, <2>6, <3>1, <3>2 DEF OkMeansPromised, Promised, Busy,
                       Finish, Fresh, Stopped
      <2>7. CASE called = "Stop"
            <3>1. \/ Fresh(<<"Stop">>)
                  \/ stack = <<"StopLoop">> /\ LoopOK
                  BY <2>0, BodyFacts, <2>1, <2>7 DEF Frames, Fresh, Do, LoopStop
            <3>2. CASE Fresh(<<"Stop">>) /\ state \in Stopped
                  <4>1. stack' = << >>
                        BY <2>0, BodyFacts, <2>1, <3>2, ConcatFrames DEF Fresh, Return, Do
                  <4> QED BY <2>12, <2>13, <2>7, <3>2, <4>1 DEF OkMeansPromised, Promised,
                             Busy, Finish, Fresh
            <3>3. CASE Fresh(<<"Stop">>) /\ state = "paused"
                  <4>1. stack' = <<"Start", "StopLoop">>
                        BY <2>0, BodyFacts, <2>1, <3>3, ConcatFrames DEF Fresh, Calls, Do, Stopped
                  <4> QED BY <2>12, <2>13, <2>7, <3>3, <4>1 DEF OkMeansPromised, Finish, Busy, Frames, Fresh
            <3>4. CASE Fresh(<<"Stop">>) /\ state = "running"
                  <4>1. stack' = <<"StopLoop">>
                        BY <2>0, BodyFacts, <2>1, <3>4, ConcatFrames DEF Fresh, Calls, Do, Stopped
                  <4> QED BY <2>12, <2>13, <2>7, <3>4, <4>1 DEF OkMeansPromised, Finish, Busy, Frames, Fresh, LoopStop,
                             LoopOK
            <3>5. CASE stack = <<"StopLoop">> /\ LoopOK
                  <4>1. state = "poweroff" /\ vm = "poweroff"
                        BY <2>0, BodyFacts, <2>1, <3>5 DEF LoopOK, StopLoopBody, Do
                  <4>2. stack' = << >>
                        BY <2>0, BodyFacts, <2>1, <3>5, <4>1, ConcatFrames DEF StopLoopBody, Return, Do
                  <4> QED BY <2>12, <2>13, <2>7, <4>1, <4>2 DEF OkMeansPromised, Promised,
                             Busy, Finish, Stopped
            <3> QED BY <1>0, <3>1, <3>2, <3>3, <3>4, <3>5 DEF TypeOK, States, Stopped
      <2>8. CASE called = "Restart"
            <3>1. \/ Fresh(<<"Restart">>)
                  \/ /\ stack = <<"Stop", "Start">>
                     /\ \/ vm = state /\ state \notin {"paused", "saved"}
                        \/ vm = "running" /\ state \in {"paused", "saved"}
                  \/ stack = <<"StopLoop", "Start">> /\ LoopOK
                  \/ stack = <<"Start">> /\ (state = "running" => vm = "running")
                  BY <2>0, BodyFacts, <2>1, <2>8 DEF Frames, Fresh, Do, Stopped, LoopRestart
            <3>2. CASE Fresh(<<"Restart">>) /\ state \in {"paused", "saved"}
                  <4>1. stack' = <<"Start", "Stop", "Start">>
                        BY <2>0, BodyFacts, <2>1, <3>2, ConcatFrames DEF Fresh, Calls, Do
                  <4>2. ret' = "none"
                        BY <2>12, <4>1 DEF Finish
                  <4> QED BY <2>13, <2>8, <3>2, <4>1, <4>2 DEF OkMeansPromised, Busy,
                             Frames, Fresh
            <3>3. CASE Fresh(<<"Restart">>) /\ state \notin {"paused", "saved"}
                  <4>1. stack' = <<"Stop", "Start">>
                        BY <2>0, BodyFacts, <2>1, <3>3, ConcatFrames DEF Fresh, Calls, Do
                  <4>2. ret' = "none"
                        BY <2>12, <4>1 DEF Finish
                  <4> QED BY <2>13, <2>8, <3>3, <4>1, <4>2 DEF OkMeansPromised, Busy,
                             Frames, Fresh
            <3>4. CASE stack = <<"Stop", "Start">> /\ state \in Stopped
                  <4>1. stack' = <<"Start">>
                        <5>1. Body(Head(stack), state).then = << >> /\ Tail(stack) = <<"Start">>
                              BY <2>0, BodyFacts, <2>14, <3>4 DEF Return, Do
                        <5> QED BY <2>14, <5>1, ConcatFrames
                  <4>2. ret' = "none"
                        BY <2>12, <4>1 DEF Finish
                  <4> QED BY <2>13, <2>8, <3>4, <4>1, <4>2 DEF OkMeansPromised, Busy,
                             Frames, Stopped
            <3>5. CASE /\ stack = <<"Stop", "Start">> /\ state = "paused"
                       /\ \/ vm = state /\ state \notin {"paused", "saved"}
                          \/ vm = "running" /\ state \in {"paused", "saved"}
                  <4>1. stack' = <<"Start", "StopLoop", "Start">>
                        <5>1. Body(Head(stack), state).then = <<"Start", "StopLoop">> /\ Tail(stack) = <<"Start">>
                              BY <2>0, BodyFacts, <2>14, <3>5 DEF Calls, Do, Stopped
                        <5>2. <<"Start", "StopLoop">> \o <<"Start">> = <<"Start", "StopLoop", "Start">>
                              BY ConcatFrames
                        <5> QED BY <2>14, <5>1, <5>2
                  <4>2. ret' = "none"
                        BY <2>12, <4>1 DEF Finish
                  <4> QED BY <2>13, <2>8, <3>5, <4>1, <4>2 DEF OkMeansPromised, Busy,
                             Frames
            <3>6. CASE /\ stack = <<"Stop", "Start">> /\ state = "running"
                       /\ \/ vm = state /\ state \notin {"paused", "saved"}
                          \/ vm = "running" /\ state \in {"paused", "saved"}
                  <4>1. stack' = <<"StopLoop", "Start">>
                        <5>1. Body(Head(stack), state).then = <<"StopLoop">> /\ Tail(stack) = <<"Start">>
                              BY <2>0, BodyFacts, <2>14, <3>6 DEF Calls, Do, Stopped
                        <5> QED BY <2>14, <5>1, ConcatFrames
                  <4>2. ret' = "none"
                        BY <2>12, <4>1 DEF Finish
                  <4> QED BY <2>13, <2>8, <3>6, <4>1, <4>2 DEF OkMeansPromised, Busy,
                             Frames, LoopRestart, LoopOK
            <3>7. CASE stack = <<"StopLoop", "Start">> /\ LoopOK
                  <4>1. state = "poweroff" /\ vm = "poweroff"
                        BY <2>0, BodyFacts, <2>1, <3>7 DEF LoopOK, StopLoopBody, Do
                  <4>2. stack' = <<"Start">>
                        <5>1. Body(Head(stack), state).then = << >> /\ Tail(stack) = <<"Start">>
                              BY <2>0, BodyFacts, <2>14, <3>7, <4>1 DEF StopLoopBody, Return, Do
                        <5> QED BY <2>14, <5>1, ConcatFrames
                  <4>3. ret' = "none"
                        BY <2>12, <4>2 DEF Finish
                  <4> QED BY <2>13, <2>8, <4>1, <4>2, <4>3 DEF OkMeansPromised, Busy,
                             Frames
            <3>8. CASE stack = <<"Start">> /\ (state = "running" => vm = "running")
                  <4>1. state = "running" /\ vm = "running"
                        BY <2>0, BodyFacts, <2>1, <3>8 DEF Do, Stopped, States
                  <4>2. stack' = << >>
                        BY <2>0, BodyFacts, <2>1, <3>8, <4>1, ConcatFrames DEF Return, Do
                  <4> QED BY <2>12, <2>13, <2>8, <4>1, <4>2 DEF OkMeansPromised, Promised,
                             Busy, Finish
            <3> QED BY <2>0, <3>1, <3>2, <3>3, <3>4, <3>5, <3>6, <3>7, <3>8
                    DEF Fresh, States, Stopped
      <2>9. CASE called = "Reset"
            <3>1. Fresh(<<"Reset">>)
                  BY <2>0, BodyFacts, <2>1, <2>9 DEF Frames, Fresh, Do, Stopped
            <3>2. CASE state \in {"paused", "saved"}
                  <4>1. stack' = <<"Start", "ResetCmd">>
                        BY <2>0, BodyFacts, <2>1, <3>1, <3>2, ConcatFrames DEF Fresh, Calls, Do
                  <4>2. ret' = "none"
                        BY <2>12, <4>1 DEF Finish
                  <4> QED BY <2>13, <2>9, <3>1, <3>2, <4>1, <4>2 DEF OkMeansPromised, Busy,
                             Frames, Fresh
            <3>3. CASE state \notin {"paused", "saved"}
                  <4>1. stack' = <<"ResetCmd">>
                        BY <2>0, BodyFacts, <2>1, <3>1, <3>3, ConcatFrames DEF Fresh, Calls, Do
                  <4>2. ret' = "none"
                        BY <2>12, <4>1 DEF Finish
                  <4> QED BY <2>13, <2>9, <3>1, <3>3, <4>1, <4>2 DEF OkMeansPromised, Busy,
                             Frames, Fresh
            <3> QED BY <3>2, <3>3
      <2>10. CASE called = "Delete"
            <3>1. CASE Fresh(<<"Delete">>)
                  <4>1. stack' = <<"Poweroff", "DeleteCmd">>
                        BY <2>0, BodyFacts, <2>1, <3>1, ConcatFrames DEF Fresh, Calls, Do
                  <4>2. ret' = "none"
                        BY <2>12, <4>1 DEF Finish
                  <4> QED BY <2>13, <2>10, <3>1, <4>1, <4>2 DEF OkMeansPromised, Busy,
                             Frames, Fresh
            <3>2. CASE Fresh(<<"Poweroff", "DeleteCmd">>)
                  <4>1. stack' = <<"DeleteCmd">>
                        <5>1. Body(Head(stack), state).then = << >> /\ Tail(stack) = <<"DeleteCmd">>
                              BY <2>0, BodyFacts, <2>14, <3>2 DEF Fresh, Return, Do, Stopped, States
                        <5> QED BY <2>14, <5>1, ConcatFrames
                  <4>2. ret' = "none"
                        BY <2>12, <4>1 DEF Finish
                  <4> QED BY <2>13, <2>10, <4>1, <4>2 DEF OkMeansPromised, Busy, Frames
            <3> QED BY <2>0, BodyFacts, <2>1, <2>10, <3>1, <3>2 DEF Frames, Fresh, Do
      <2>11. CASE called = "Unregister"
            <3>1. CASE Fresh(<<"Unregister">>)
                  <4>1. stack' = <<"Poweroff", "UnregisterCmd">>
                        BY <2>0, BodyFacts, <2>1, <3>1, ConcatFrames DEF Fresh, Calls, Do
                  <4>2. ret' = "none"
                        BY <2>12, <4>1 DEF Finish
                  <4> QED BY <2>13, <2>11, <3>1, <4>1, <4>2 DEF OkMeansPromised, Busy,
                             Frames, Fresh
            <3>2. CASE Fresh(<<"Poweroff", "UnregisterCmd">>)
                  <4>1. stack' = <<"UnregisterCmd">>
                        <5>1. Body(Head(stack), state).then = << >> /\ Tail(stack) = <<"UnregisterCmd">>
                              BY <2>0, BodyFacts, <2>14, <3>2 DEF Fresh, Return, Do, Stopped, States
                        <5> QED BY <2>14, <5>1, ConcatFrames
                  <4>2. ret' = "none"
                        BY <2>12, <4>1 DEF Finish
                  <4> QED BY <2>13, <2>11, <4>1, <4>2 DEF OkMeansPromised, Busy, Frames
            <3> QED BY <2>0, BodyFacts, <2>1, <2>11, <3>1, <3>2 DEF Frames, Fresh, Do
      <2> QED BY <1>0, <2>3, <2>4, <2>5, <2>6, <2>7, <2>8, <2>9, <2>10, <2>11 DEF TypeOK, AllMethods
<1>5. CASE RunOk
      <2>0. state \in States
            BY <1>0 DEF TypeOK
      <2>1. stack # << >> /\ Frames /\ Head(stack) # "StopRefresh"
            BY <1>0, <1>5 DEF RunOk, Busy
      <2>12. ret' = Finish(stack')
             BY <1>5 DEF RunOk
      <2>13. UNCHANGED <<state, called>>
             BY <1>5 DEF RunOk
      <2>14. /\ stack' = Body(Head(stack), state).then \o Tail(stack)
             /\ Body(Head(stack), state).cmd # "none"
             /\ vm \in AcceptedIn(Body(Head(stack), state).cmd)
             /\ vm' = After(Body(Head(stack), state).cmd, vm)
             /\ acpi' = (\/ Body(Head(stack), state).cmd = "acpipowerbutton"
                         \/ acpi /\ Body(Head(stack), state).cmd \in {"pause", "resume"})
             BY <1>5 DEF RunOk
      <2>2. called \notin {"Stop", "Restart"} => ~acpi
            BY <1>0, <2>1, LoopFrames DEF AcpiInLoop
      <2> SUFFICES OkMeansPromised' /\ AcpiInLoop' /\ Busy'
          BY <1>0 DEF OkInv
      <2>3. CASE called = "Start"
            <3>1. CASE Fresh(<<"Start">>) /\ state = "paused"
                  <4>1. Body(Head(stack), state) = Do("resume", << >>) /\ Tail(stack) = << >>
                        BY <2>0, BodyFacts, <3>1 DEF Fresh, Stopped, StopLoopBody
                  <4>2. stack' = << >>
                        <5>1. << >> \o << >> = << >>
                              BY ConcatFrames, Zenon
                        <5>2. Body(Head(stack), state).then = << >>
                              BY <4>1 DEF Do
                        <5> QED BY <2>14, <4>1, <5>1, <5>2, Zenon
                  <4>3. vm' = "running"
                        BY <2>14, <3>1, <4>1 DEF Do, AcceptedIn, After, Fresh, Stopped
                  <4>4. acpi' = FALSE
                        BY <1>0, <2>2, <2>14, <2>3, <3>1, <4>1 DEF Do, AcpiInLoop, LoopStop,
                           LoopRestart, Fresh
                  <4> QED BY <2>12, <2>13, <2>3, <3>1, <4>2, <4>3, <4>4 DEF OkMeansPromised, Promised, AcpiInLoop, Busy, Finish, Stopped
            <3>2. CASE Fresh(<<"Start">>) /\ state \in Stopped
                  <4>1. Body(Head(stack), state) = Do("startvm", << >>) /\ Tail(stack) = << >>
                        BY <2>0, BodyFacts, <3>2 DEF Fresh, Stopped, StopLoopBody
                  <4>2. stack' = << >>
                        <5>1. << >> \o << >> = << >>
                              BY ConcatFrames, Zenon
                        <5>2. Body(Head(stack), state).then = << >>
                              BY <4>1 DEF Do
                        <5> QED BY <2>14, <4>1, <5>1, <5>2, Zenon
                  <4>3. vm' = "running"
                        BY <2>14, <3>2, <4>1 DEF Do, AcceptedIn, After, Fresh, Stopped
                  <4>4. acpi' = FALSE
                        BY <1>0, <2>2, <2>14, <2>3, <3>2, <4>1 DEF Do, AcpiInLoop, LoopStop,
                           LoopRestart, Fresh
                  <4> QED BY <2>12, <2>13, <2>3, <3>2, <4>2, <4>3, <4>4 DEF OkMeansPromised, Promised, AcpiInLoop, Busy, Finish, Stopped
            <3> QED BY <2>0, <2>1, <2>3, <2>14, <3>1, <3>2, BodyFacts
                   DEF Frames, Fresh, Return, Calls, Do, Stopped, States
      <2>4. CASE called = "Save"
            <3>1. CASE Fresh(<<"Start", "SaveCmd">>) /\ state = "paused"
                  <4>1. Body(Head(stack), state) = Do("resume", << >>) /\ Tail(stack) = <<"SaveCmd">>
                        BY <2>0, BodyFacts, <3>1 DEF Fresh, Stopped, StopLoopBody
                  <4>2. stack' = <<"SaveCmd">>
                        <5>1. << >> \o <<"SaveCmd">> = <<"SaveCmd">>
                              BY ConcatFrames, Zenon
                        <5>2. Body(Head(stack), state).then = << >>
                              BY <4>1 DEF Do
                        <5> QED BY <2>14, <4>1, <5>1, <5>2, Zenon
                  <4>3. vm' = "running"
                        BY <2>14, <3>1, <4>1 DEF Do, AcceptedIn, After, Fresh, Stopped
                  <4>4. acpi' = FALSE
                        BY <1>0, <2>2, <2>14, <2>4, <3>1, <4>1 DEF Do, AcpiInLoop, LoopStop,
                           LoopRestart, Fresh
                  <4> QED BY <2>12, <2>13, <2>4, <3>1, <4>2, <4>3, <4>4 DEF OkMeansPromised, AcpiInLoop, Busy, Finish, Frames, Fresh, LoopStop, LoopRestart, LoopOK
            <3>2. CASE stack = <<"SaveCmd">> /\ vm = "running"
                  <4>1. Body(Head(stack), state) = Do("savestate", << >>) /\ Tail(stack) = << >>
                        BY <2>0, BodyFacts, <3>2 DEF Fresh, Stopped, StopLoopBody
                  <4>2. stack' = << >>
                        <5>1. << >> \o << >> = << >>
                              BY ConcatFrames, Zenon
                        <5>2. Body(Head(stack), state).then = << >>
                              BY <4>1 DEF Do
                        <5> QED BY <2>14, <4>1, <5>1, <5>2, Zenon
                  <4>3. vm' = "saved"
                        BY <2>14, <3>2, <4>1 DEF Do, AcceptedIn, After, Fresh, Stopped
                  <4>4. acpi' = FALSE
                        BY <1>0, <2>2, <2>14, <2>4, <3>2, <4>1 DEF Do, AcpiInLoop, LoopStop,
                           LoopRestart, Fresh
                  <4> QED BY <2>12, <2>13, <2>4, <3>2, <4>2, <4>3, <4>4 DEF OkMeansPromised, Promised, AcpiInLoop, Busy, Finish, Stopped
            <3> QED BY <2>0, <2>1, <2>4, <2>14, <3>1, <3>2, BodyFacts
                   DEF Frames, Fresh, Return, Calls, Do, Stopped, States
      <2>5. CASE called = "Pause"
            <3>1. CASE Fresh(<<"Pause">>) /\ state = "running"
                  <4>1. Body(Head(stack), state) = Do("pause", << >>) /\ Tail(stack) = << >>
                        BY <2>0, BodyFacts, <3>1 DEF Fresh, Stopped, StopLoopBody
                  <4>2. stack' = << >>
                        <5>1. << >> \o << >> = << >>
                              BY ConcatFrames, Zenon
                        <5>2. Body(Head(stack), state).then = << >>
                              BY <4>1 DEF Do
                        <5> QED BY <2>14, <4>1, <5>1, <5>2, Zenon
                  <4>3. vm' = "paused"
                        BY <2>14, <3>1, <4>1 DEF Do, AcceptedIn, After, Fresh, Stopped
                  <4>4. acpi' = FALSE
                        BY <1>0, <2>2, <2>14, <2>5, <3>1, <4>1 DEF Do, AcpiInLoop, LoopStop,
                           LoopRestart, Fresh
                  <4> QED BY <2>12, <2>13, <2>5, <3>1, <4>2, <4>3, <4>4 DEF OkMeansPromised, Promised, AcpiInLoop, Busy, Finish, Stopped
            <3> QED BY <2>0, <2>1, <2>5, <2>14, <3>1, BodyFacts
                   DEF Frames, Fresh, Return, Calls, Do, Stopped, States
      <2>6. CASE called = "Poweroff"
            <3>1. CASE Fresh(<<"Poweroff">>) /\ state \notin Stopped
                  <4>1. Body(Head(stack), state) = Do("poweroff", << >>) /\ Tail(stack) = << >>
                        BY <2>0, BodyFacts, <3>1 DEF Fresh, Stopped, StopLoopBody
                  <4>2. stack' = << >>
                        <5>1. << >> \o << >> = << >>
                              BY ConcatFrames, Zenon
                        <5>2. Body(Head(stack), state).then = << >>
                              BY <4>1 DEF Do
                        <5> QED BY <2>14, <4>1, <5>1, <5>2, Zenon
                  <4>3. vm' = "poweroff"
                        BY <2>14, <3>1, <4>1 DEF Do, AcceptedIn, After, Fresh, Stopped
                  <4>4. acpi' = FALSE
                        BY <1>0, <2>2, <2>14, <2>6, <3>1, <4>1 DEF Do, AcpiInLoop, LoopStop,
                           LoopRestart, Fresh
                  <4> QED BY <2>12, <2>13, <2>6, <3>1, <4>2, <4>3, <4>4 DEF OkMeansPromised, Promised, AcpiInLoop, Busy, Finish, Stopped
            <3> QED BY <2>0, <2>1, <2>6, <2>14, <3>1, BodyFacts
                   DEF Frames, Fresh, Return, Calls, Do, Stopped, States
      <2>7. CASE called = "Stop"
            <3>1. CASE Fresh(<<"Start", "StopLoop">>) /\ state = "paused"
                  <4>1. Body(Head(stack), state) = Do("resume", << >>) /\ Tail(stack) = <<"StopLoop">>
                        BY <2>0, BodyFacts, <3>1 DEF Fresh, Stopped, StopLoopBody
                  <4>2. stack' = <<"StopLoop">>
                        <5>1. << >> \o <<"StopLoop">> = <<"StopLoop">>
                              BY ConcatFrames, Zenon
                        <5>2. Body(Head(stack), state).then = << >>
                              BY <4>1 DEF Do
                        <5> QED BY <2>14, <4>1, <5>1, <5>2, Zenon
                  <4>3. vm' = "running"
                        BY <2>14, <3>1, <4>1 DEF Do, AcceptedIn, After, Fresh, Stopped
                  <4>4. acpi' = FALSE
                        BY <1>0, <2>2, <2>14, <2>7, <3>1, <4>1 DEF Do, AcpiInLoop, LoopStop,
                           LoopRestart, Fresh
                  <4> QED BY <2>12, <2>13, <2>7, <3>1, <4>2, <4>3, <4>4 DEF OkMeansPromised, AcpiInLoop, Busy, Finish, Frames, Fresh, LoopStop, LoopRestart, LoopOK
            <3>2. CASE stack = <<"StopLoop">> /\ LoopOK /\ state # "poweroff"
                  <4>1. Body(Head(stack), state) = Do("acpipowerbutton", <<"StopRefresh", "StopLoop">>) /\ Tail(stack) = << >>
                        BY <2>0, BodyFacts, <3>2 DEF Fresh, Stopped, StopLoopBody
                  <4>2. stack' = <<"StopRefresh", "StopLoop">>
                        <5>1. <<"StopRefresh", "StopLoop">> \o << >> = <<"StopRefresh", "StopLoop">>
                              BY ConcatFrames, Zenon
                        <5>2. Body(Head(stack), state).then = <<"StopRefresh", "StopLoop">>
                              BY <4>1 DEF Do
                        <5> QED BY <2>14, <4>1, <5>1, <5>2, Zenon
                  <4>3. vm' = "running"
                        BY <2>14, <3>2, <4>1 DEF Do, AcceptedIn, After, Fresh, Stopped
                  <4>4. acpi' = TRUE
                        BY <1>0, <2>2, <2>14, <2>7, <3>2, <4>1 DEF Do, AcpiInLoop, LoopStop,
                           LoopRestart, Fresh
                  <4> QED BY <2>12, <2>13, <2>7, <3>2, <4>2, <4>3, <4>4 DEF OkMeansPromised, AcpiInLoop, Busy, Finish, Frames, Fresh, LoopStop, LoopRestart, LoopOK
            <3> QED BY <2>0, <2>1, <2>7, <2>14, <3>1, <3>2, BodyFacts
                   DEF Frames, Fresh, Return, Calls, Do, Stopped, States, LoopStop, LoopOK, StopLoopBody
      <2>8. CASE called = "Restart"
            <3>1. CASE Fresh(<<"Start", "Stop", "Start">>) /\ state = "paused"
                  <4>1. Body(Head(stack), state) = Do("resume", << >>) /\ Tail(stack) = <<"Stop", "Start">>
                        BY <2>0, BodyFacts, <3>1 DEF Fresh, Stopped, StopLoopBody
                  <4>2. stack' = <<"Stop", "Start">>
                        <5>1. << >> \o <<"Stop", "Start">> = <<"Stop", "Start">>
                              BY ConcatFrames, Zenon
                        <5>2. Body(Head(stack), state).then = << >>
                              BY <4>1 DEF Do
                        <5> QED BY <2>14, <4>1, <5>1, <5>2, Zenon
                  <4>3. vm' = "running"
                        BY <2>14, <3>1, <4>1 DEF Do, AcceptedIn, After, Fresh, Stopped
                  <4>4. acpi' = FALSE
                        BY <1>0, <2>2, <2>14, <2>8, <3>1, <4>1 DEF Do, AcpiInLoop, LoopStop,
                           LoopRestart, Fresh
                  <4> QED BY <2>12, <2>13, <2>8, <3>1, <4>2, <4>3, <4>4 DEF OkMeansPromised, AcpiInLoop, Busy, Finish, Frames, Fresh, LoopStop, LoopRestart, LoopOK
            <3>2. CASE Fresh(<<"Start", "Stop", "Start">>) /\ state = "saved"
                  <4>1. Body(Head(stack), state) = Do("startvm", << >>) /\ Tail(stack) = <<"Stop", "Start">>
                        BY <2>0, BodyFacts, <3>2 DEF Fresh, Stopped, StopLoopBody
                  <4>2. stack' = <<"Stop", "Start">>
                        <5>1. << >> \o <<"Stop", "Start">> = <<"Stop", "Start">>
                              BY ConcatFrames, Zenon
                        <5>2. Body(Head(stack), state).then = << >>
                              BY <4>1 DEF Do
                        <5> QED BY <2>14, <4>1, <5>1, <5>2, Zenon
                  <4>3. vm' = "running"
                        BY <2>14, <3>2, <4>1 DEF Do, AcceptedIn, After, Fresh, Stopped
                  <4>4. acpi' = FALSE
                        BY <1>0, <2>2, <2>14, <2>8, <3>2, <4>1 DEF Do, AcpiInLoop, LoopStop,
                           LoopRestart, Fresh
                  <4> QED BY <2>12, <2>13, <2>8, <3>2, <4>2, <4>3, <4>4 DEF OkMeansPromised, AcpiInLoop, Busy, Finish, Frames, Fresh, LoopStop, LoopRestart, LoopOK
            <3>3. CASE stack = <<"Start", "StopLoop", "Start">> /\ vm = "running" /\ state = "paused"
                  <4>1. Body(Head(stack), state) = Do("resume", << >>)
                        BY <2>0, BodyFacts, <3>3
                  <4> QED BY <2>14, <3>3, <4>1 DEF Do, AcceptedIn
            <3>4. CASE stack = <<"StopLoop", "Start">> /\ LoopOK /\ state # "poweroff"
                  <4>1. Body(Head(stack), state) = Do("acpipowerbutton", <<"StopRefresh", "StopLoop">>) /\ Tail(stack) = <<"Start">>
                        BY <2>0, BodyFacts, <3>4 DEF Fresh, Stopped, StopLoopBody
                  <4>2. stack' = <<"StopRefresh", "StopLoop", "Start">>
                        <5>1. <<"StopRefresh", "StopLoop">> \o <<"Start">> = <<"StopRefresh", "StopLoop", "Start">>
                              BY ConcatPush, Zenon
                        <5>2. Body(Head(stack), state).then = <<"StopRefresh", "StopLoop">>
                              BY <4>1 DEF Do
                        <5> QED BY <2>14, <4>1, <5>1, <5>2, Zenon
                  <4>3. vm' = "running"
                        BY <2>14, <3>4, <4>1 DEF Do, AcceptedIn, After, Fresh, Stopped
                  <4>4. acpi' = TRUE
                        BY <1>0, <2>2, <2>14, <2>8, <3>4, <4>1 DEF Do, AcpiInLoop, LoopStop,
                           LoopRestart, Fresh
                  <4> QED BY <2>12, <2>13, <2>8, <3>4, <4>2, <4>3, <4>4 DEF OkMeansPromised, AcpiInLoop, Busy, Finish, Frames, Fresh, LoopStop, LoopRestart, LoopOK
            <3>5. CASE stack = <<"Start">> /\ state = "paused"
                  <4>1. Body(Head(stack), state) = Do("resume", << >>) /\ Tail(stack) = << >>
                        BY <2>0, BodyFacts, <3>5 DEF Fresh, Stopped, StopLoopBody
                  <4>2. stack' = << >>
                        <5>1. << >> \o << >> = << >>
                              BY ConcatFrames, Zenon
                        <5>2. Body(Head(stack), state).then = << >>
                              BY <4>1 DEF Do
                        <5> QED BY <2>14, <4>1, <5>1, <5>2, Zenon
                  <4>3. vm' = "running"
                        BY <2>14, <3>5, <4>1 DEF Do, AcceptedIn, After, Fresh, Stopped
                  <4>4. acpi' = FALSE
                        BY <1>0, <2>2, <2>14, <2>8, <3>5, <4>1 DEF Do, AcpiInLoop, LoopStop,
                           LoopRestart, Fresh
                  <4> QED BY <2>12, <2>13, <2>8, <3>5, <4>2, <4>3, <4>4 DEF OkMeansPromised, Promised, AcpiInLoop, Busy, Finish, Stopped
            <3>6. CASE stack = <<"Start">> /\ state \in Stopped
                  <4>1. Body(Head(stack), state) = Do("startvm", << >>) /\ Tail(stack) = << >>
                        BY <2>0, BodyFacts, <3>6 DEF Fresh, Stopped, StopLoopBody
                  <4>2. stack' = << >>
                        <5>1. << >> \o << >> = << >>
                              BY ConcatFrames, Zenon
                        <5>2. Body(Head(stack), state).then = << >>
                              BY <4>1 DEF Do
                        <5> QED BY <2>14, <4>1, <5>1, <5>2, Zenon
                  <4>3. vm' = "running"
                        BY <2>14, <3>6, <4>1 DEF Do, AcceptedIn, After, Fresh, Stopped
                  <4>4. acpi' = FALSE
                        BY <1>0, <2>2, <2>14, <2>8, <3>6, <4>1 DEF Do, AcpiInLoop, LoopStop,
                           LoopRestart, Fresh
                  <4> QED BY <2>12, <2>13, <2>8, <3>6, <4>2, <4>3, <4>4 DEF OkMeansPromised, Promised, AcpiInLoop, Busy, Finish, Stopped
            <3> QED BY <2>0, <2>1, <2>8, <2>14, <3>1, <3>2, <3>3, <3>4, <3>5, <3>6, BodyFacts
                   DEF Frames, Fresh, Return, Calls, Do, Stopped, States, LoopRestart, LoopOK, StopLoopBody
      <2>9. CASE called = "Reset"
            <3>1. CASE Fresh(<<"Start", "ResetCmd">>) /\ state = "paused"
                  <4>1. Body(Head(stack), state) = Do("resume", << >>) /\ Tail(stack) = <<"ResetCmd">>
                        BY <2>0, BodyFacts, <3>1 DEF Fresh, Stopped, StopLoopBody
                  <4>2. stack' = <<"ResetCmd">>
                        <5>1. << >> \o <<"ResetCmd">> = <<"ResetCmd">>
                              BY ConcatFrames, Zenon
                        <5>2. Body(Head(stack), state).then = << >>
                              BY <4>1 DEF Do
                        <5> QED BY <2>14, <4>1, <5>1, <5>2, Zenon
                  <4>3. vm' = "running"
                        BY <2>14, <3>1, <4>1 DEF Do, AcceptedIn, After, Fresh, Stopped
                  <4>4. acpi' = FALSE
                        BY <1>0, <2>2, <2>14, <2>9, <3>1, <4>1 DEF Do, AcpiInLoop, LoopStop,
                           LoopRestart, Fresh
                  <4> QED BY <2>12, <2>13, <2>9, <3>1, <4>2, <4>3, <4>4 DEF OkMeansPromised, AcpiInLoop, Busy, Finish, Frames, Fresh, LoopStop, LoopRestart, LoopOK
            <3>2. CASE Fresh(<<"Start", "ResetCmd">>) /\ state = "saved"
                  <4>1. Body(Head(stack), state) = Do("startvm", << >>) /\ Tail(stack) = <<"ResetCmd">>
                        BY <2>0, BodyFacts, <3>2 DEF Fresh, Stopped, StopLoopBody
                  <4>2. stack' = <<"ResetCmd">>
                        <5>1. << >> \o <<"ResetCmd">> = <<"ResetCmd">>
                              BY ConcatFrames, Zenon
                        <5>2. Body(Head(stack), state).then = << >>
                              BY <4>1 DEF Do
                        <5> QED BY <2>14, <4>1, <5>1, <5>2, Zenon
                  <4>3. vm' = "running"
                        BY <2>14, <3>2, <4>1 DEF Do, AcceptedIn, After, Fresh, Stopped
                  <4>4. acpi' = FALSE
                        BY <1>0, <2>2, <2>14, <2>9, <3>2, <4>1 DEF Do, AcpiInLoop, LoopStop,
                           LoopRestart, Fresh
                  <4> QED BY <2>12, <2>13, <2>9, <3>2, <4>2, <4>3, <4>4 DEF OkMeansPromised, AcpiInLoop, Busy, Finish, Frames, Fresh, LoopStop, LoopRestart, LoopOK
            <3>3. CASE stack = <<"ResetCmd">> /\ vm # "paused"
                  <4>1. Body(Head(stack), state) = Do("reset", << >>) /\ Tail(stack) = << >>
                        BY <2>0, BodyFacts, <3>3 DEF Fresh, Stopped, StopLoopBody
                  <4>2. stack' = << >>
                        <5>1. << >> \o << >> = << >>
                              BY ConcatFrames, Zenon
                        <5>2. Body(Head(stack), state).then = << >>
                              BY <4>1 DEF Do
                        <5> QED BY <2>14, <4>1, <5>1, <5>2, Zenon
                  <4>3. vm' = "running"
                        BY <2>14, <3>3, <4>1 DEF Do, AcceptedIn, After, Fresh, Stopped
                  <4>4. acpi' = FALSE
                        BY <1>0, <2>2, <2>14, <2>9, <3>3, <4>1 DEF Do, AcpiInLoop, LoopStop,
                           LoopRestart, Fresh
                  <4> QED BY <2>12, <2>13, <2>9, <3>3, <4>2, <4>3, <4>4 DEF OkMeansPromised, Promised, AcpiInLoop, Busy, Finish, Stopped
            <3> QED BY <2>0, <2>1, <2>9, <2>14, <3>1, <3>2, <3>3, BodyFacts
                   DEF Frames, Fresh, Return, Calls, Do, Stopped, States
      <2>10. CASE called = "Delete"
            <3>1. CASE Fresh(<<"Poweroff", "DeleteCmd">>) /\ state \notin Stopped
                  <4>1. Body(Head(stack), state) = Do("poweroff", << >>) /\ Tail(stack) = <<"DeleteCmd">>
                        BY <2>0, BodyFacts, <3>1 DEF Fresh, Stopped, StopLoopBody
                  <4>2. stack' = <<"DeleteCmd">>
                        <5>1. << >> \o <<"DeleteCmd">> = <<"DeleteCmd">>
                              BY ConcatFrames, Zenon
                        <5>2. Body(Head(stack), state).then = << >>
                              BY <4>1 DEF Do
                        <5> QED BY <2>14, <4>1, <5>1, <5>2, Zenon
                  <4>3. vm' = "poweroff"
                        BY <2>14, <3>1, <4>1 DEF Do, AcceptedIn, After, Fresh, Stopped
                  <4>4. acpi' = FALSE
                        BY <1>0, <2>2, <2>14, <2>10, <3>1, <4>1 DEF Do, AcpiInLoop, LoopStop,
                           LoopRestart, Fresh
                  <4> QED BY <2>12, <2>13, <2>10, <3>1, <4>2, <4>3, <4>4 DEF OkMeansPromised, AcpiInLoop, Busy, Finish, Frames, Fresh, LoopStop, LoopRestart, LoopOK
            <3>2. CASE stack = <<"DeleteCmd">>
                  <4>1. Body(Head(stack), state) = Do("unregistervm", << >>) /\ Tail(stack) = << >>
                        BY <2>0, BodyFacts, <3>2 DEF Fresh, Stopped, StopLoopBody
                  <4>2. stack' = << >>
                        <5>1. << >> \o << >> = << >>
                              BY ConcatFrames, Zenon
                        <5>2. Body(Head(stack), state).then = << >>
                              BY <4>1 DEF Do
                        <5> QED BY <2>14, <4>1, <5>1, <5>2, Zenon
                  <4>3. vm' = "absent"
                        BY <2>14, <3>2, <4>1 DEF Do, AcceptedIn, After, Fresh, Stopped
                  <4>4. acpi' = FALSE
                        BY <1>0, <2>2, <2>14, <2>10, <3>2, <4>1 DEF Do, AcpiInLoop, LoopStop,
                           LoopRestart, Fresh
                  <4> QED BY <2>12, <2>13, <2>10, <3>2, <4>2, <4>3, <4>4 DEF OkMeansPromised, Promised, AcpiInLoop, Busy, Finish, Stopped
            <3> QED BY <2>0, <2>1, <2>10, <2>14, <3>1, <3>2, BodyFacts
                   DEF Frames, Fresh, Return, Calls, Do, Stopped, States
      <2>11. CASE called = "Unregister"
            <3>1. CASE Fresh(<<"Poweroff", "UnregisterCmd">>) /\ state \notin Stopped
                  <4>1. Body(Head(stack), state) = Do("poweroff", << >>) /\ Tail(stack) = <<"UnregisterCmd">>
                        BY <2>0, BodyFacts, <3>1 DEF Fresh, Stopped, StopLoopBody
                  <4>2. stack' = <<"UnregisterCmd">>
                        <5>1. << >> \o <<"UnregisterCmd">> = <<"UnregisterCmd">>
                              BY ConcatFrames, Zenon
                        <5>2. Body(Head(stack), state).then = << >>
                              BY <4>1 DEF Do
                        <5> QED BY <2>14, <4>1, <5>1, <5>2, Zenon
                  <4>3. vm' = "poweroff"
                        BY <2>14, <3>1, <4>1 DEF Do, AcceptedIn, After, Fresh, Stopped
                  <4>4. acpi' = FALSE
                        BY <1>0, <2>2, <2>14, <2>11, <3>1, <4>1 DEF Do, AcpiInLoop, LoopStop,
                           LoopRestart, Fresh
                  <4> QED BY <2>12, <2>13, <2>11, <3>1, <4>2, <4>3, <4>4 DEF OkMeansPromised, AcpiInLoop, Busy, Finish, Frames, Fresh, LoopStop, LoopRestart, LoopOK
            <3>2. CASE stack = <<"UnregisterCmd">>
                  <4>1. Body(Head(stack), state) = Do("unregistervm", << >>) /\ Tail(stack) = << >>
                        BY <2>0, BodyFacts, <3>2 DEF Fresh, Stopped, StopLoopBody
                  <4>2. stack' = << >>
                        <5>1. << >> \o << >> = << >>
                              BY ConcatFrames, Zenon
                        <5>2. Body(Head(stack), state).then = << >>
                              BY <4>1 DEF Do
                        <5> QED BY <2>14, <4>1, <5>1, <5>2, Zenon
                  <4>3. vm' = "absent"
                        BY <2>14, <3>2, <4>1 DEF Do, AcceptedIn, After, Fresh, Stopped
                  <4>4. acpi' = FALSE
                        BY <1>0, <2>2, <2>14, <2>11, <3>2, <4>1 DEF Do, AcpiInLoop, LoopStop,
                           LoopRestart, Fresh
                  <4> QED BY <2>12, <2>13, <2>11, <3>2, <4>2, <4>3, <4>4 DEF OkMeansPromised, Promised, AcpiInLoop, Busy, Finish, Stopped
            <3> QED BY <2>0, <2>1, <2>11, <2>14, <3>1, <3>2, BodyFacts
                   DEF Frames, Fresh, Return, Calls, Do, Stopped, States
      <2> QED BY <1>0, <2>3, <2>4, <2>5, <2>6, <2>7, <2>8, <2>9, <2>10, <2>11 DEF TypeOK, AllMethods
<1>6. CASE RunErr
      <2>1. ~acpi
            <3> SUFFICES ASSUME acpi PROVE FALSE
                OBVIOUS
            <3>1. /\ vm = "running"
                  /\ Head(stack) \in {"StopLoop", "StopRefresh"}
                  /\ Head(stack) = "StopLoop" => state = "running"
                  BY <1>0 DEF AcpiInLoop, LoopStop, LoopRestart
            <3>2. Head(stack) = "StopLoop" /\ state = "running"
                  BY <1>6, <3>1 DEF RunErr
            <3>3. Body(Head(stack), state).cmd = "acpipowerbutton"
                  BY <3>2 DEF Body, StopLoopBody, Do
            <3> QED BY <1>6, <3>1, <3>3 DEF RunErr, AcceptedIn
      <2> QED BY <1>0, <1>6, <2>1 DEF RunErr, OkInv, OkMeansPromised, AcpiInLoop, Busy
<1>7. CASE StopRefresh
      <2>1. stack # << >> /\ ret = "none" /\ Frames /\ Head(stack) = "StopRefresh"
            BY <1>0, <1>7 DEF StopRefresh, Busy
      <2>2. \/ called = "Stop" /\ stack = <<"StopRefresh", "StopLoop">>
            \/ called = "Restart" /\ stack = <<"StopRefresh", "StopLoop", "Start">>
            BY <2>1, <1>0, RefreshInLoop, LoopFrames DEF LoopStop, LoopRestart
      <2>3. vm \in {"running", "poweroff"}
            BY <2>1, <1>0, RefreshInLoop, LoopFrames DEF LoopOK
      <2>4. /\ state' = vm /\ stack' = Tail(stack) /\ ret' = Finish(stack')
            /\ UNCHANGED <<vm, acpi, called>>
            BY <1>7, <2>3 DEF StopRefresh
      <2>5. CASE called = "Stop" /\ stack = <<"StopRefresh", "StopLoop">>
            <3>1. stack' = <<"StopLoop">> /\ ret' = "none"
                  BY <2>4, <2>5 DEF Finish
            <3> QED BY <1>0, <2>3, <2>4, <2>5, <3>1 DEF OkInv, OkMeansPromised, AcpiInLoop,
                       Busy, Frames, LoopStop, LoopRestart, LoopOK
      <2>6. CASE called = "Restart" /\ stack = <<"StopRefresh", "StopLoop", "Start">>
            <3>1. stack' = <<"StopLoop", "Start">> /\ ret' = "none"
                  BY <2>4, <2>6 DEF Finish
            <3> QED BY <1>0, <2>3, <2>4, <2>6, <3>1 DEF OkInv, OkMeansPromised, AcpiInLoop,
                       Busy, Frames, LoopStop, LoopRestart, LoopOK
      <2> QED BY <2>2, <2>5, <2>6
<1>8. CASE GuestShutdown
      <2>1. vm = "running" /\ (LoopStop \/ LoopRestart)
            BY <1>0, <1>8 DEF GuestShutdown, AcpiInLoop
      <2>2. stack # << >> /\ ret = "none" /\ Frames
            BY <1>0, <2>1 DEF Busy, LoopStop, LoopRestart
      <2>3. /\ LoopStop => called = "Stop"
            /\ LoopRestart => called = "Restart"
            BY <1>0, <2>1, <2>2, LoopFrames
      <2> QED BY <1>0, <1>8, <2>1, <2>2, <2>3 DEF GuestShutdown, OkInv,
                 OkMeansPromised, AcpiInLoop, Busy, Frames, Fresh, LoopStop,
                 LoopRestart, LoopOK
<1>9. CASE UNCHANGED vars
      BY <1>0, <1>9 DEF vars, OkInv, OkMeansPromised, AcpiInLoop, Busy, Frames,
                        Fresh, LoopStop, LoopRestart, LoopOK
<1> QED BY <1>1, <1>2, <1>3, <1>4, <1>5, <1>6, <1>7, <1>8, <1>9 DEF Next

-----------------------------------------------------------------------------
(* On a freshly read Machine, a lifecycle method that returns without     *)
(* error has brought the VM to the state it promises (Start, Restart and   *)
(* Reset running, Pause paused or stopped, Save, Stop and Poweroff stopped, *)
(* Delete and Unregister gone), whatever the guest does with the power     *)
(* button.                                                                 *)
THEOREM MethodsKeepPromises == CallerRefreshes /\ Spec => []OkMeansPromised
<1> SUFFICES ASSUME CallerRefreshes
             PROVE  Spec => []OkMeansPromised
    OBVIOUS
<1>1. Init => OkInv
      BY InitOkInv
<1>2. OkInv /\ [Next]_vars => OkInv'
      BY NextOkInv
<1>3. OkInv => OkMeansPromised
      BY DEF OkInv
<1> QED BY <1>1, <1>2, <1>3, PTL DEF Spec

=============================================================================

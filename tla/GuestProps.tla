----------------------------- MODULE GuestProps -----------------------------
(***************************************************************************)
(* WaitGuestProperties (guestprop.go) as ExampleWaitGuestProperties uses   *)
(* it: a setter goroutine changes a guest property Len(Sets) times with    *)
(* SetGuestProperty; the waiter goroutine loops on WaitGuestProperty (one  *)
(* "VBoxManage guestproperty wait", which reports the first change after   *)
(* it started) and offers each change on the unbuffered channel props,     *)
(* selecting against the done channel; the consumer receives Reads values, *)
(* then closes done and waits on the WaitGroup.  A change is named by its  *)
(* position in Sets.                                                       *)
(***************************************************************************)
EXTENDS Naturals, Sequences

CONSTANTS
    Sets,         \* the values the setter writes, in order
    Reads,        \* how many values the consumer receives
    ToolMayFail   \* TRUE: "guestproperty wait" may exit with an error

ASSUME GuestPropsAssumption ==
    /\ Sets \in Seq(STRING)
    /\ Reads \in Nat \ {0}
    /\ ToolMayFail \in BOOLEAN

VARIABLES
    si,          \* how many of Sets the setter has written
    w,           \* the waiter goroutine's place
    waitFrom,    \* changes made when its current "guestproperty wait" started
    got,         \* the change that wait reported
    c,           \* the consumer's place
    left,        \* values the consumer still wants
    received,    \* the changes the consumer received, in order
    done,        \* done has been closed
    wg,          \* the WaitGroup counter
    propsClosed  \* props has been closed

vars == <<si, w, waitFrom, got, c, left, received, done, wg, propsClosed>>

Init ==
    /\ si = 0
    /\ w = "wait"
    /\ waitFrom = 0
    /\ got = 0
    /\ c = "recv"
    /\ left = Reads
    /\ received = <<>>
    /\ done = FALSE
    /\ wg = 1            \* wg.Add(1) before the go statement
    /\ propsClosed = FALSE

\* SetGuestProperty: "guestproperty set" of the next value.
Set ==
    /\ si < Len(Sets)
    /\ si' = si + 1
    /\ UNCHANGED <<w, waitFrom, got, c, left, received, done, wg, propsClosed>>

\* WaitGuestProperty starts "guestproperty wait".
StartWait ==
    /\ w = "wait"
    /\ w' = "waiting"
    /\ waitFrom' = si
    /\ UNCHANGED <<si, got, c, left, received, done, wg, propsClosed>>

\* Mutant: the wait reports the change of the wait before it again.
WaitReturnsStale ==
    /\ w = "waiting"
    /\ si > waitFrom
    /\ w' = "select"
    /\ got' = IF got = 0 THEN waitFrom + 1 ELSE got
    /\ UNCHANGED <<si, waitFrom, c, left, received, done, wg, propsClosed>>

\* The wait returns the first change after it started; its output matches
\* waitRegexp and becomes prop.
WaitReturns ==
    /\ w = "waiting"
    /\ si > waitFrom
    /\ w' = "select"
    /\ got' = waitFrom + 1
    /\ UNCHANGED <<si, waitFrom, c, left, received, done, wg, propsClosed>>

\* The wait fails: the goroutine returns.
WaitFails ==
    /\ ToolMayFail
    /\ w = "waiting"
    /\ w' = "return"
    /\ UNCHANGED <<si, waitFrom, got, c, left, received, done, wg, propsClosed>>

\* Mutant: the consumer's loop without its "left > 0" condition.
SendIgnoresLeft ==
    /\ w = "select"
    /\ c = "recv"
    /\ w' = "wait"
    /\ received' = Append(received, got)
    /\ left' = left - 1
    /\ c' = "recv"
    /\ UNCHANGED <<si, waitFrom, got, done, wg, propsClosed>>

\* select, case props <- prop: the consumer receives it (an unbuffered
\* channel hands over only to a waiting receiver).
Send ==
    /\ w = "select"
    /\ c = "recv"
    /\ w' = "wait"
    /\ received' = Append(received, got)
    /\ left' = left - 1
    /\ c' = IF left - 1 > 0 THEN "recv" ELSE "close"
    /\ UNCHANGED <<si, waitFrom, got, done, wg, propsClosed>>

\* Mutant: the select without its done case.
SelectDoneDropped ==
    /\ FALSE
    /\ UNCHANGED vars

\* select, case <-done: the goroutine returns.
SelectDone ==
    /\ w = "select"
    /\ done
    /\ w' = "return"
    /\ UNCHANGED <<si, waitFrom, got, c, left, received, done, wg, propsClosed>>

\* The deferred calls run last-in first-out: wg.Done, then close(props).
WgDone ==
    /\ w = "return"
    /\ w' = "closeProps"
    /\ wg' = wg - 1
    /\ UNCHANGED <<si, waitFrom, got, c, left, received, done, propsClosed>>

CloseProps ==
    /\ w = "closeProps"
    /\ w' = "exited"
    /\ propsClosed' = TRUE
    /\ UNCHANGED <<si, waitFrom, got, c, left, received, done, wg>>

\* prop, ok = <-props on a closed channel: ok is false and the loop ends.
RecvClosed ==
    /\ c = "recv"
    /\ propsClosed
    /\ c' = "close"
    /\ UNCHANGED <<si, w, waitFrom, got, left, received, done, wg, propsClosed>>

\* close(done)
CloseDone ==
    /\ c = "close"
    /\ c' = "wgWait"
    /\ done' = TRUE
    /\ UNCHANGED <<si, w, waitFrom, got, left, received, wg, propsClosed>>

\* wg.Wait() returns once the counter is zero.
WgWait ==
    /\ c = "wgWait"
    /\ wg = 0
    /\ c' = "finished"
    /\ UNCHANGED <<si, w, waitFrom, got, left, received, done, wg, propsClosed>>

Next ==
    \/ Set
    \/ StartWait \/ WaitReturns \/ WaitFails \/ Send \/ SelectDone
    \/ WgDone \/ CloseProps
    \/ RecvClosed \/ CloseDone \/ WgWait

\* Every goroutine runs while it can; "guestproperty wait" returns once a
\* change happened.  Nothing forces the tool to fail.
Fairness ==
    /\ WF_vars(Set)
    /\ WF_vars(StartWait) /\ WF_vars(WaitReturns) /\ WF_vars(Send)
    /\ WF_vars(SelectDone) /\ WF_vars(WgDone) /\ WF_vars(CloseProps)
    /\ WF_vars(RecvClosed) /\ WF_vars(CloseDone) /\ WF_vars(WgWait)

Spec == Init /\ [][Next]_vars /\ Fairness

-----------------------------------------------------------------------------
TypeOK ==
    /\ si \in 0..Len(Sets)
    /\ w \in {"wait", "waiting", "select", "return", "closeProps", "exited"}
    /\ waitFrom \in 0..Len(Sets)
    /\ got \in 0..Len(Sets)
    /\ c \in {"recv", "close", "wgWait", "finished"}
    /\ left \in 0..Reads
    /\ received \in Seq(1..Len(Sets))
    /\ done \in BOOLEAN
    /\ wg \in {0, 1}
    /\ propsClosed \in BOOLEAN

(* The consumer receives changes in the order the setter made them, each  *)
(* at most once, and none before it was made: the waiter's loop never     *)
(* re-offers a change or reports one out of order.                        *)
ReceivedInOrder ==
    /\ \A i \in 1..Len(received) : received[i] <= si
    /\ \A i, j \in 1..Len(received) : i < j => received[i] < received[j]

(* The handshake on props never leaves the waiter stuck in its select:    *)
(* the consumer either receives the change or closes done.                *)
SelectNeverStuck == w = "select" ~> w # "select"

(* Closing done ends the waiter goroutine (and so lets wg.Wait return),   *)
(* as WaitGuestProperties' comment and the producer contract say.         *)
CancelEndsWaiter == done ~> w = "exited"

=============================================================================

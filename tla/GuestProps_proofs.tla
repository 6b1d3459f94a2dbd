------------------------- MODULE GuestProps_proofs -------------------------
(***************************************************************************)
(* Proofs about WaitGuestProperties: the waiter hands the consumer the     *)
(* changes in the order they were made, each at most once.                 *)
(***************************************************************************)
EXTENDS GuestProps, SequenceTheorems, TLAPS

USE GuestPropsAssumption

(* The inductive strengthening.  The last change received is at most the  *)
(* number of changes made when the running wait started, so the change    *)
(* that wait reports (waitFrom + 1) comes after it; the WaitGroup counter *)
(* drops exactly when the goroutine has run wg.Done; the consumer wants   *)
(* more values while it is receiving.                                     *)
IInv ==
    /\ TypeOK
    /\ ReceivedInOrder
    /\ waitFrom <= si
    /\ w = "select" => got = waitFrom + 1 /\ got <= si
    /\ w \in {"waiting", "select"} /\ received # <<>> =>
           received[Len(received)] <= waitFrom
    /\ wg = IF w \in {"closeProps", "exited"} THEN 0 ELSE 1
    /\ c = "recv" => left > 0

-----------------------------------------------------------------------------
(* The initial state satisfies the strengthening.                          *)
LEMMA InitIInv == Init => IInv
<1> SUFFICES ASSUME Init PROVE IInv
    OBVIOUS
<1>1. Len(Sets) \in Nat
      <2>1. Sets \in Seq(STRING)
            BY GuestPropsAssumption
      <2> QED BY <2>1, LenProperties
<1>2. <<>> \in Seq(1..Len(Sets))
      BY EmptySeq
<1>3. Reads \in 0..Reads
      OBVIOUS
<1>4. TypeOK
      <2>1. si \in 0..Len(Sets) /\ waitFrom \in 0..Len(Sets) /\ got \in 0..Len(Sets)
            BY <1>1 DEF Init
      <2>2. left \in 0..Reads /\ received \in Seq(1..Len(Sets))
            BY <1>2, <1>3 DEF Init
      <2>3. w = "wait" /\ c = "recv" /\ done = FALSE /\ wg = 1 /\ propsClosed = FALSE
            BY DEF Init
      <2> QED BY <2>1, <2>2, <2>3 DEF TypeOK
<1>5. ReceivedInOrder
      BY DEF Init, ReceivedInOrder
<1> QED BY <1>1, <1>4, <1>5 DEF Init, IInv

(* Every step of the setter, the waiter or the consumer preserves it.      *)
LEMMA NextIInv == IInv /\ [Next]_vars => IInv'
<1> SUFFICES ASSUME IInv, [Next]_vars PROVE IInv'
    OBVIOUS
<1>1. CASE Set
      BY <1>1 DEF Set, IInv, TypeOK, ReceivedInOrder
<1>2. CASE StartWait
      BY <1>2 DEF StartWait, IInv, TypeOK, ReceivedInOrder
<1>3. CASE WaitReturns
      BY <1>3 DEF WaitReturns, IInv, TypeOK, ReceivedInOrder
<1>4. CASE WaitFails
      BY <1>4 DEF WaitFails, IInv, TypeOK, ReceivedInOrder
<1>5. CASE Send
      <2> USE <1>5 DEF Send
      <2>1. got \in 1..Len(Sets) /\ got <= si /\ got = waitFrom + 1
            BY DEF IInv, TypeOK
      <2>2. received \in Seq(1..Len(Sets))
            BY DEF IInv, TypeOK
      <2>3. received' \in Seq(1..Len(Sets)) /\ Len(received') = Len(received) + 1
            /\ received'[Len(received')] = got
            /\ \A i \in 1..Len(received) : received'[i] = received[i]
            BY <2>1, <2>2
      <2>4. \A i \in 1..Len(received) : received[i] < got
            <3>1. CASE received = <<>>
                  BY <3>1
            <3>2. CASE received # <<>>
                  <4>1. received[Len(received)] <= waitFrom
                        BY <3>2 DEF IInv
                  <4>2. \A i \in 1..Len(received) : received[i] <= received[Len(received)]
                        BY <2>2, <3>2 DEF IInv, ReceivedInOrder
                  <4> QED BY <4>1, <4>2, <2>1, <2>2 DEF IInv, TypeOK
            <3> QED BY <3>1, <3>2
      <2>5. ReceivedInOrder'
            BY <2>1, <2>2, <2>3, <2>4 DEF IInv, ReceivedInOrder
      <2>6. TypeOK'
            BY <2>3 DEF IInv, TypeOK
      <2> QED BY <2>5, <2>6 DEF IInv
<1>6. CASE SelectDone
      BY <1>6 DEF SelectDone, IInv, TypeOK, ReceivedInOrder
<1>7. CASE WgDone
      BY <1>7 DEF WgDone, IInv, TypeOK, ReceivedInOrder
<1>8. CASE CloseProps
      BY <1>8 DEF CloseProps, IInv, TypeOK, ReceivedInOrder
<1>9. CASE RecvClosed
      BY <1>9 DEF RecvClosed, IInv, TypeOK, ReceivedInOrder
<1>10. CASE CloseDone
       BY <1>10 DEF CloseDone, IInv, TypeOK, ReceivedInOrder
<1>11. CASE WgWait
       BY <1>11 DEF WgWait, IInv, TypeOK, ReceivedInOrder
<1>12. CASE UNCHANGED vars
       BY <1>12 DEF vars, IInv, TypeOK, ReceivedInOrder
<1> QED BY <1>1, <1>2, <1>3, <1>4, <1>5, <1>6, <1>7, <1>8, <1>9, <1>10,
           <1>11, <1>12 DEF Next

(* The waiter goroutine and the consumer keep every variable in its type.  *)
THEOREM TypeCorrect == Spec => []TypeOK
<1>1. IInv => TypeOK
      BY DEF IInv
<1> QED BY <1>1, InitIInv, NextIInv, PTL DEF Spec

(* The consumer of WaitGuestProperties receives the changes in the order   *)
(* the setter made them, each at most once, none before it was made.      *)
THEOREM InOrder == Spec => []ReceivedInOrder
<1>1. IInv => ReceivedInOrder
      BY DEF IInv
<1> QED BY <1>1, InitIInv, NextIInv, PTL DEF Spec

=============================================================================

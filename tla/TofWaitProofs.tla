---------------------------- MODULE TofWaitProofs ----------------------------
(***************************************************************************)
(* Proofs about TofWait, for any number of threads and frames and with or   *)
(* without signals.                                                         *)
(***************************************************************************)
EXTENDS TofWait, TLAPS

\* The part of the types that the argument needs.
TypeW ==
  /\ intr_ready_flag \in {0, 1}
  /\ irq \in {"idle", "wake"}
  /\ pc \in [Threads -> Label]
  /\ asleep \subseteq Threads

\* The invariant is inductive with the types alone: a thread goes to sleep
\* only when it has just seen the flag down, after it was enqueued.
WInv == TypeW /\ NoLostWakeup

LEMMA WInvInit == Init => WInv
BY DEF Init, WInv, TypeW, NoLostWakeup, Label

LEMMA WInvInductive == WInv /\ [Next]_vars => WInv'
<1> SUFFICES ASSUME WInv, [Next]_vars PROVE WInv'
  OBVIOUS
<1> USE DEF WInv, TypeW, NoLostWakeup
<1>1. CASE DataReady
  BY <1>1 DEF DataReady
<1>2. CASE SetFlag
  BY <1>2 DEF SetFlag
<1>3. CASE WakeUp
  BY <1>3 DEF WakeUp
<1> USE DEF irqVars, At, Goto, Label
<1>4. ASSUME NEW t \in Threads, WaitCall(t) PROVE WInv'
  BY <1>4 DEF WaitCall
<1>5. ASSUME NEW t \in Threads, Test(t) PROVE WInv'
  BY <1>5 DEF Test
<1>6. ASSUME NEW t \in Threads, Prepare(t) PROVE WInv'
  BY <1>6 DEF Prepare
<1>7. ASSUME NEW t \in Threads, Recheck(t) PROVE WInv'
  BY <1>7 DEF Recheck
<1>8. ASSUME NEW t \in Threads, Resume(t) PROVE WInv'
  BY <1>8 DEF Resume
<1>9. ASSUME NEW t \in Threads, Claim(t) PROVE WInv'
  BY <1>9 DEF Claim
<1>10. ASSUME NEW t \in Threads, Cancel(t) PROVE WInv'
  BY <1>10 DEF Cancel
<1>11. ASSUME NEW t \in Threads, ReadFrame(t) PROVE WInv'
  BY <1>11 DEF ReadFrame
<1>12. ASSUME NEW t \in Threads, Signal(t) PROVE WInv'
  BY <1>12 DEF Signal
<1>13. CASE UNCHANGED vars
  BY <1>13 DEF vars
<1> QED
  BY <1>1, <1>2, <1>3, <1>4, <1>5, <1>6, <1>7, <1>8, <1>9, <1>10, <1>11, <1>12, <1>13
     DEF Next, Step

\* No thread sleeps through an interrupt, however many threads wait, however
\* often they are signalled and whenever the interrupt comes.
THEOREM NobodySleepsThrough == Spec => []NoLostWakeup
<1>1. WInv => NoLostWakeup
  BY DEF WInv
<1> QED BY <1>1, WInvInit, WInvInductive, PTL DEF Spec
-----------------------------------------------------------------------------
(* The counters: an interrupt is handled once per frame that latched it.    *)

TypeN ==
  /\ frames \in 0 .. MaxFrames
  /\ seen \in 0 .. frames /\ cut \in 0 .. frames /\ handled \in 0 .. frames
  /\ pending \in BOOLEAN
  /\ pending => handled < frames

LEMMA CountsInductive == TypeN /\ [Next]_vars => TypeN'
<1> SUFFICES ASSUME TypeN, [Next]_vars PROVE TypeN'
  OBVIOUS
<1> USE FramesAssumption DEF TypeN
<1>1. CASE DataReady
  BY <1>1 DEF DataReady
<1>2. CASE SetFlag
  <2>1. pending' = FALSE /\ handled < frames /\ handled' = handled + 1
    BY <1>2 DEF SetFlag
  <2>2. UNCHANGED <<frames, seen, cut>>
    BY <1>2 DEF SetFlag
  <2>3. /\ frames' \in 0 .. MaxFrames
        /\ seen' \in 0 .. frames' /\ cut' \in 0 .. frames' /\ handled' \in 0 .. frames'
    BY <2>1, <2>2
  <2> QED BY ONLY <2>1, <2>3, Zenon DEF TypeN
<1>3. CASE WakeUp
  BY <1>3 DEF WakeUp
<1>4. ASSUME NEW t \in Threads, Step(t) \/ Signal(t) PROVE TypeN'
  <2>1. UNCHANGED <<frames, pending, handled>>
    BY <1>4 DEF Step, WaitCall, Test, Prepare, Recheck, Resume, Claim, Cancel, ReadFrame, Signal,
                irqVars
  <2>2. seen' \in {seen, frames} /\ cut' \in {cut, frames}
    BY <1>4 DEF Step, WaitCall, Test, Prepare, Recheck, Resume, Claim, Cancel, ReadFrame, Signal
  <2> QED BY <2>1, <2>2
<1>5. CASE UNCHANGED vars
  BY <1>5 DEF vars
<1> QED BY <1>1, <1>2, <1>3, <1>4, <1>5 DEF Next

LEMMA CountsInit == Init => TypeN
<1> SUFFICES ASSUME Init PROVE TypeN
  OBVIOUS
<1>1. /\ frames \in 0 .. MaxFrames
      /\ seen \in 0 .. frames /\ cut \in 0 .. frames /\ handled \in 0 .. frames
  BY FramesAssumption DEF Init
<1>2. pending = FALSE
  BY DEF Init
<1> QED BY ONLY <1>1, <1>2, Zenon DEF TypeN

\* A thread that has seen the flag up, or would see it now, has an interrupt to its
\* credit that it has not counted.
Credit ==
  /\ oks \in [Threads -> Nat]
  /\ \A t \in Threads :
       /\ oks[t] <= handled
       /\ intr_ready_flag = 1 \/ pc[t] = "claim" => oks[t] < handled

LEMMA CreditInductive == TypeW /\ TypeN /\ Credit /\ [Next]_vars => Credit'
<1> SUFFICES ASSUME TypeW, TypeN, Credit, [Next]_vars PROVE Credit'
  OBVIOUS
<1>0. handled \in Nat /\ intr_ready_flag \in {0, 1} /\ pc \in [Threads -> Label]
  BY FramesAssumption DEF TypeN, TypeW
<1> USE DEF Credit
<1>1. CASE SetFlag
  <2>1. handled' = handled + 1 /\ UNCHANGED <<oks, pc>>
    BY <1>1 DEF SetFlag
  <2> QED BY <2>1, <1>0
<1>2. CASE DataReady \/ WakeUp
  <2>1. UNCHANGED <<handled, oks, pc, intr_ready_flag>>
    BY <1>2 DEF DataReady, WakeUp
  <2> QED BY <2>1
<1> USE <1>0 DEF irqVars, At, Goto, Label
<1>3. ASSUME NEW t \in Threads, WaitCall(t) PROVE Credit'
  BY <1>3 DEF WaitCall
<1>4. ASSUME NEW t \in Threads, Test(t) PROVE Credit'
  BY <1>4 DEF Test
<1>5. ASSUME NEW t \in Threads, Prepare(t) PROVE Credit'
  BY <1>5 DEF Prepare
<1>6. ASSUME NEW t \in Threads, Recheck(t) PROVE Credit'
  BY <1>6 DEF Recheck
<1>7. ASSUME NEW t \in Threads, Resume(t) PROVE Credit'
  BY <1>7 DEF Resume
<1>8. ASSUME NEW t \in Threads, Claim(t) PROVE Credit'
  BY <1>8 DEF Claim
<1>9. ASSUME NEW t \in Threads, Cancel(t) PROVE Credit'
  BY <1>9 DEF Cancel
<1>10. ASSUME NEW t \in Threads, ReadFrame(t) PROVE Credit'
  BY <1>10 DEF ReadFrame
<1>11. ASSUME NEW t \in Threads, Signal(t) PROVE Credit'
  BY <1>11 DEF Signal
<1>12. CASE UNCHANGED vars
  BY <1>12 DEF vars
<1> QED
  BY <1>1, <1>2, <1>3, <1>4, <1>5, <1>6, <1>7, <1>8, <1>9, <1>10, <1>11, <1>12 DEF Next, Step

LEMMA CreditInit == Init => Credit
BY DEF Init, Credit

\* A wait that returns 0 is never more than the interrupts there have been, for each
\* of any number of threads (204-213).
THEOREM NoInterruptCountedTwice == Spec => []OneReturnPerInterrupt
<1>1. TypeW /\ TypeN /\ Credit => OneReturnPerInterrupt
  BY DEF Credit, OneReturnPerInterrupt
<1>2. WInv => TypeW
  BY DEF WInv
<1> QED
  BY <1>1, <1>2, WInvInit, WInvInductive, CountsInit, CountsInductive, CreditInit, CreditInductive,
     PTL DEF Spec

\* Every variable keeps its type.
THEOREM TypeCorrect == Spec => []TypeOK
<1> DEFINE TypeS == signalled \subseteq Threads /\ force_wakeup \in {0, 1}
<1>1. Init => TypeS
  BY DEF Init
<1>2. TypeS /\ [Next]_vars => TypeS'
  BY DEF Next, vars, DataReady, SetFlag, WakeUp, Step, WaitCall, Test, Prepare, Recheck, Resume,
         Claim, Cancel, ReadFrame, Signal
<1>3. TypeW /\ TypeN /\ Credit /\ TypeS => TypeOK
  BY DEF TypeW, TypeN, Credit, TypeOK
<1>4. WInv => TypeW
  BY DEF WInv
<1> QED
  BY <1>1, <1>2, <1>3, <1>4, WInvInit, WInvInductive, CountsInit, CountsInductive,
     CreditInit, CreditInductive, PTL DEF Spec
-----------------------------------------------------------------------------
(* No frame is lost: the way from the latch over the flag to a thread that   *)
(* reads has no gap, and only a wait that is cut short leaves it.           *)

LEMMA FramesInductive == TypeW /\ TypeN /\ NoMissedFrame /\ [Next]_vars => NoMissedFrame'
<1> SUFFICES ASSUME TypeW, TypeN, NoMissedFrame, [Next]_vars PROVE NoMissedFrame'
  OBVIOUS
<1>0. frames \in Nat /\ seen \in Nat /\ cut \in Nat /\ pc \in [Threads -> Label]
  BY FramesAssumption DEF TypeN, TypeW
<1> USE DEF NoMissedFrame
<1>1. CASE DataReady
  <2>1. pending' = TRUE
    BY <1>1 DEF DataReady
  <2> QED BY <2>1
<1>2. CASE SetFlag
  <2>1. intr_ready_flag' = 1
    BY <1>2 DEF SetFlag
  <2> QED BY <2>1
<1>3. CASE WakeUp
  BY <1>3 DEF WakeUp
<1> USE <1>0 DEF irqVars, At, Goto, Label
<1>4. ASSUME NEW t \in Threads, WaitCall(t) PROVE NoMissedFrame'
  BY <1>4 DEF WaitCall
<1>5. ASSUME NEW t \in Threads, Test(t) PROVE NoMissedFrame'
  BY <1>5 DEF Test
<1>6. ASSUME NEW t \in Threads, Prepare(t) PROVE NoMissedFrame'
  BY <1>6 DEF Prepare
<1>7. ASSUME NEW t \in Threads, Recheck(t) PROVE NoMissedFrame'
  BY <1>7 DEF Recheck
<1>8. ASSUME NEW t \in Threads, Resume(t) PROVE NoMissedFrame'
  BY <1>8 DEF Resume
<1>9. ASSUME NEW t \in Threads, Claim(t) PROVE NoMissedFrame'
  <2>1. pc'[t] = "read"
    BY <1>9 DEF Claim
  <2> QED BY <2>1
<1>10. ASSUME NEW t \in Threads, Cancel(t) PROVE NoMissedFrame'
  <2>1. cut' = frames'
    BY <1>10 DEF Cancel
  <2> QED BY <2>1, <1>10 DEF Cancel
<1>11. ASSUME NEW t \in Threads, ReadFrame(t) PROVE NoMissedFrame'
  <2>1. seen' = frames'
    BY <1>11 DEF ReadFrame
  <2> QED BY <2>1, <1>11 DEF ReadFrame
<1>12. ASSUME NEW t \in Threads, Signal(t) PROVE NoMissedFrame'
  BY <1>12 DEF Signal
<1>13. CASE UNCHANGED vars
  BY <1>13 DEF vars
<1> QED
  BY <1>1, <1>2, <1>3, <1>4, <1>5, <1>6, <1>7, <1>8, <1>9, <1>10, <1>11, <1>12, <1>13
     DEF Next, Step

\* Every frame that came after the last wait cut short is on its way to somebody who
\* reads it, for any number of threads that take interrupts from one another.
THEOREM NoFrameMissed == Spec => []NoMissedFrame
<1>1. Init => NoMissedFrame
  BY FramesAssumption DEF Init, NoMissedFrame
<1>2. WInv => TypeW
  BY DEF WInv
<1> QED
  BY <1>1, <1>2, WInvInit, WInvInductive, CountsInit, CountsInductive, FramesInductive, PTL DEF Spec
=============================================================================

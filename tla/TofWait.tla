------------------------------- MODULE TofWait -------------------------------
(***************************************************************************)
(* ioctl(ST_TOF_IOCTL_WAIT_FOR_INTERRUPT) against the interrupt handler of  *)
(* stmvl53l5cx_module.c. Threads wait in the kernel for the sensor's data-  *)
(* ready edge; a threaded handler sets intr_ready_flag and wakes the queue; *)
(* a waiter clears the flag and returns to user space, which reads the      *)
(* newest frame. wait_event_interruptible() is modelled by its steps (test, *)
(* enqueue, test again, sleep), a signal by waking its target.              *)
(***************************************************************************)
EXTENDS Integers

CONSTANTS Threads,     \* the threads that call the ioctl
          MaxFrames,   \* bound: how many frames the sensor measures
          Signals      \* whether threads may be signalled

ASSUME ThreadsAssumption == Threads # {}
ASSUME FramesAssumption  == MaxFrames \in Nat
ASSUME SignalsAssumption == Signals \in BOOLEAN

VARIABLES frames,            \* frames the sensor has signalled
          pending,           \* an edge is latched in the interrupt controller
          irq,               \* the handler thread: "idle" or about to "wake"
          handled,           \* how often the handler has run
          intr_ready_flag,
          force_wakeup,
          asleep,            \* threads queued on wq in TASK_INTERRUPTIBLE
          signalled,         \* threads with a signal pending
          pc,                \* where each thread is
          seen,              \* the newest frame user space has read
          oks,               \* how many waits of each thread have returned 0
          cut                \* the newest frame when a wait was last cut short
vars == <<frames, pending, irq, handled, intr_ready_flag, force_wakeup,
          asleep, signalled, pc, seen, oks, cut>>
irqVars == <<pending, irq, handled>>

Label == {"user", "test", "prepare", "recheck", "restart", "blocked", "claim", "cancel", "read"}

TypeOK ==
  /\ frames \in 0 .. MaxFrames /\ seen \in 0 .. frames /\ cut \in 0 .. frames
  /\ handled \in 0 .. frames /\ oks \in [Threads -> Nat]
  /\ pending \in BOOLEAN
  /\ irq \in {"idle", "wake"}
  /\ intr_ready_flag \in {0, 1} /\ force_wakeup \in {0, 1}
  /\ asleep \subseteq Threads /\ signalled \subseteq Threads
  /\ pc \in [Threads -> Label]

Init ==
  /\ frames = 0 /\ seen = 0 /\ handled = 0 /\ oks = [t \in Threads |-> 0] /\ cut = 0
  /\ pending = FALSE /\ irq = "idle"
  /\ intr_ready_flag = 0 /\ force_wakeup = 0
  /\ asleep = {} /\ signalled = {}
  /\ pc = [t \in Threads |-> "user"]
-----------------------------------------------------------------------------
(* The sensor and the handler thread. The line is edge triggered and        *)
(* ONESHOT: an edge during the handler is latched, two such edges are one.  *)

DataReady ==
  /\ frames < MaxFrames
  /\ frames' = frames + 1
  /\ pending' = TRUE
  /\ UNCHANGED <<irq, handled, intr_ready_flag, force_wakeup, asleep, signalled, pc, seen, oks, cut>>

\* Mutant: the handler sets the flag and forgets the wake-up.
SetFlagOnly ==
  /\ pending /\ irq = "idle"
  /\ pending' = FALSE
  /\ handled' = handled + 1
  /\ intr_ready_flag' = 1
  /\ UNCHANGED <<frames, irq, force_wakeup, asleep, signalled, pc, seen, oks, cut>>

SetFlag ==
  /\ pending /\ irq = "idle"
  /\ pending' = FALSE
  /\ handled' = handled + 1
  /\ intr_ready_flag' = 1
  /\ irq' = "wake"
  /\ UNCHANGED <<frames, force_wakeup, asleep, signalled, pc, seen, oks, cut>>

WakeUp ==
  /\ irq = "wake"
  /\ asleep' = {}
  /\ irq' = "idle"
  /\ UNCHANGED <<frames, pending, handled, intr_ready_flag, force_wakeup, signalled, pc, seen, oks, cut>>
-----------------------------------------------------------------------------
(* The ioctl.                                                               *)

At(t, from) == pc[t] = from
Goto(t, to) == pc' = [pc EXCEPT ![t] = to]

\* Mutant: a wait starts by dropping an interrupt that came before it.
WaitCallFresh(t) ==
  /\ At(t, "user")
  /\ force_wakeup' = 0 /\ intr_ready_flag' = 0
  /\ Goto(t, "test")
  /\ UNCHANGED <<frames, irqVars, asleep, signalled, seen, oks, cut>>

WaitCall(t) ==
  /\ At(t, "user")
  /\ force_wakeup' = 0
  /\ Goto(t, "test")
  /\ UNCHANGED <<frames, irqVars, intr_ready_flag, asleep, signalled, seen, oks, cut>>

\* The condition is tested before the thread enqueues itself.
Test(t) ==
  /\ At(t, "test")
  /\ Goto(t, IF intr_ready_flag # 0 THEN "claim" ELSE "prepare")
  /\ UNCHANGED <<frames, irqVars, intr_ready_flag, force_wakeup, asleep, signalled, seen, oks, cut>>

\* Mutant: wait_event() in place of wait_event_interruptible().
PrepareUninterruptible(t) ==
  /\ At(t, "prepare")
  /\ Goto(t, "recheck") /\ asleep' = asleep \cup {t}
  /\ UNCHANGED <<frames, irqVars, intr_ready_flag, force_wakeup, signalled, seen, oks, cut>>

\* A thread with a signal pending is not enqueued but tests once more.
Prepare(t) ==
  /\ At(t, "prepare")
  /\ IF t \in signalled
     THEN Goto(t, "restart") /\ UNCHANGED asleep
     ELSE Goto(t, "recheck") /\ asleep' = asleep \cup {t}
  /\ UNCHANGED <<frames, irqVars, intr_ready_flag, force_wakeup, signalled, seen, oks, cut>>

Recheck(t) ==
  /\ pc[t] \in {"recheck", "restart"}
  /\ IF intr_ready_flag # 0
     THEN Goto(t, "claim") /\ asleep' = asleep \ {t}
     ELSE Goto(t, IF pc[t] = "restart" THEN "cancel" ELSE "blocked") /\ UNCHANGED asleep
  /\ UNCHANGED <<frames, irqVars, intr_ready_flag, force_wakeup, signalled, seen, oks, cut>>

Resume(t) ==
  /\ At(t, "blocked") /\ t \notin asleep
  /\ Goto(t, "prepare")
  /\ UNCHANGED <<frames, irqVars, intr_ready_flag, force_wakeup, asleep, signalled, seen, oks, cut>>

\* Mutant: the flag stays up when the wait succeeds.
ClaimKeepsFlag(t) ==
  /\ At(t, "claim") /\ force_wakeup = 0
  /\ oks' = [oks EXCEPT ![t] = @ + 1]
  /\ Goto(t, "read")
  /\ UNCHANGED <<frames, irqVars, intr_ready_flag, force_wakeup, asleep, signalled, seen, cut>>

\* The wait succeeded: the flag is cleared and the ioctl returns 0.
Claim(t) ==
  /\ At(t, "claim") /\ force_wakeup = 0
  /\ intr_ready_flag' = 0
  /\ oks' = [oks EXCEPT ![t] = @ + 1]
  /\ Goto(t, "read")
  /\ UNCHANGED <<frames, irqVars, force_wakeup, asleep, signalled, seen, cut>>

\* The wait was interrupted: the flag is cleared all the same, -EINTR.
Cancel(t) ==
  /\ At(t, "cancel") \/ (At(t, "claim") /\ force_wakeup # 0)
  /\ intr_ready_flag' = 0
  /\ force_wakeup' = 0
  /\ cut' = frames
  /\ signalled' = signalled \ {t}
  /\ Goto(t, "user")
  /\ UNCHANGED <<frames, irqVars, asleep, seen, oks>>
-----------------------------------------------------------------------------
(* User space and signals.                                                  *)

ReadFrame(t) ==
  /\ At(t, "read")
  /\ seen' = frames
  /\ signalled' = signalled \ {t}
  /\ Goto(t, "user")
  /\ UNCHANGED <<frames, irqVars, intr_ready_flag, force_wakeup, asleep, oks, cut>>

Signal(t) ==
  /\ Signals /\ pc[t] # "user" /\ t \notin signalled
  /\ signalled' = signalled \cup {t}
  /\ asleep' = asleep \ {t}
  /\ UNCHANGED <<frames, irqVars, intr_ready_flag, force_wakeup, pc, seen, oks, cut>>

Step(t) == \/ WaitCall(t) \/ Test(t) \/ Prepare(t) \/ Recheck(t) \/ Resume(t)
           \/ Claim(t) \/ Cancel(t) \/ ReadFrame(t)

Next == \/ DataReady \/ SetFlag \/ WakeUp
        \/ \E t \in Threads : Step(t) \/ Signal(t)

Spec == Init /\ [][Next]_vars

\* The handler thread and every thread that can run are scheduled; the
\* sensor need not measure and nobody need be signalled.
FairSpec == /\ Spec
            /\ WF_vars(SetFlag) /\ WF_vars(WakeUp)
            /\ \A t \in Threads : WF_vars(Step(t))
-----------------------------------------------------------------------------
(* Properties                                                               *)

\* Nobody sleeps through an interrupt: once the handler has finished, the
\* flag is not up while a thread is left asleep (handler 181-190, wait 206).
NoLostWakeup ==
  (intr_ready_flag = 1 /\ irq = "idle") => \A t \in Threads : pc[t] = "blocked" => t \notin asleep

\* A frame that nobody has read is still on its way: latched, flagged, or
\* claimed by a thread that has yet to read. Clearing the flag (213) between
\* a late interrupt and the read loses nothing; a wait cut short by a signal (209)
\* loses the frames up to that moment and none after it.
NoMissedFrame ==
  seen < frames /\ cut < frames =>
    \/ pending \/ intr_ready_flag = 1
    \/ \E t \in Threads : pc[t] \in {"claim", "read"}

\* Every successful wait of a thread stands for an interrupt of its own: however
\* many threads wait, a flag left over from an earlier interrupt is never
\* counted twice by one of them (204-213).
OneReturnPerInterrupt == \A t \in Threads : oks[t] <= handled

\* "Unblock the IOCTL call to return to user space" (186): every frame is
\* noticed by somebody, unless a wait is cut short after it.
FrameNoticed == (seen < frames /\ cut < frames) ~> (seen = frames \/ cut = frames)

\* A signalled thread leaves the ioctl, with or without an interrupt.
SignalReturns == \A t \in Threads : (t \in signalled) ~> (pc[t] = "user")
=============================================================================

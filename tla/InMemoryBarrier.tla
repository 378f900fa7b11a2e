-------------------------- MODULE InMemoryBarrier --------------------------
(***************************************************************************)
(* The condition-variable barrier shared by the endpoints of an in-memory  *)
(* world (crates/collectives/src/in_memory.rs, InMemoryBarrier::wait).     *)
(* Each rank is one worker thread.  What a thread does between taking the  *)
(* mutex and releasing it (by returning or by Condvar::wait_timeout) is    *)
(* one action.                                                             *)
(***************************************************************************)
EXTENDS Ranks, FiniteSets

CONSTANT GenerationLimit  \* the largest generation, u64::MAX in the code

ASSUME GenerationLimitAssumption == GenerationLimit \in Nat

VARIABLES
  generation, arrived, broken,  \* BarrierState, guarded by the mutex
  waiting,     \* ranks blocked in Condvar::wait_timeout
  signalled,   \* waiting ranks that a notify_all has reached
  mine,        \* mine[r]: the generation r read when it entered wait()
  outcome,     \* outcome[r]: how the last call of r returned
  passed, entered  \* history: the view of the abstract barrier

state == <<generation, arrived, broken>>
barrierVars == <<state, waiting, signalled, mine, outcome, passed, entered>>

Outcomes == {"none", "ok", "BarrierTimeout", "BarrierBroken", "Overflow"}

BarrierInit ==
  /\ generation = 0 /\ arrived = 0 /\ broken = FALSE
  /\ waiting = {} /\ signalled = {}
  /\ mine = [r \in Ranks |-> 0]
  /\ outcome = [r \in Ranks |-> "none"]
  /\ passed = [r \in Ranks |-> 0]
  /\ entered = [r \in Ranks |-> FALSE]

-----------------------------------------------------------------------------
(* The parts of wait(). *)

Return(r, result) == outcome' = [outcome EXCEPT ![r] = result]

(* Condvar::notify_all reaches the threads that wait at that moment. *)
NotifyAll == signalled' = waiting

PassHistory(r) ==
  /\ passed' = [passed EXCEPT ![r] = @ + 1]
  /\ entered' = [entered EXCEPT ![r] = FALSE]

StopWaiting(r) == waiting' = waiting \ {r}

(* A generation somebody already broke admits nobody. *)
EnterBroken(r) ==
  /\ r \notin waiting
  /\ broken
  /\ mine' = [mine EXCEPT ![r] = generation]
  /\ Return(r, "BarrierBroken")
  /\ UNCHANGED <<state, waiting, signalled, passed, entered>>

(* Not the last to arrive: wait for the others. *)
Arrive(r) ==
  /\ r \notin waiting
  /\ ~broken
  /\ arrived + 1 # WorldSize
  /\ arrived' = arrived + 1
  /\ mine' = [mine EXCEPT ![r] = generation]
  /\ waiting' = waiting \union {r}
  /\ entered' = [entered EXCEPT ![r] = TRUE]
  /\ UNCHANGED <<generation, broken, signalled, outcome, passed>>

(* Seeded fault: the last rank forgets to reset the count. *)
LastArrivalKeepsCount(r) ==
  /\ r \notin waiting
  /\ ~broken
  /\ arrived + 1 >= WorldSize
  /\ generation < GenerationLimit
  /\ generation' = generation + 1
  /\ mine' = [mine EXCEPT ![r] = generation]
  /\ NotifyAll
  /\ Return(r, "ok")
  /\ PassHistory(r)
  /\ UNCHANGED <<arrived, broken, waiting>>

(* Seeded fault: the last rank opens the generation and tells nobody. *)
LastArrivalSilent(r) ==
  /\ r \notin waiting
  /\ ~broken
  /\ arrived + 1 = WorldSize
  /\ generation < GenerationLimit
  /\ arrived' = 0
  /\ generation' = generation + 1
  /\ mine' = [mine EXCEPT ![r] = generation]
  /\ Return(r, "ok")
  /\ PassHistory(r)
  /\ UNCHANGED <<broken, waiting, signalled>>

(* The last to arrive opens the generation, wakes the others and returns. *)
LastArrival(r) ==
  /\ r \notin waiting
  /\ ~broken
  /\ arrived + 1 = WorldSize
  /\ generation < GenerationLimit
  /\ arrived' = 0
  /\ generation' = generation + 1
  /\ mine' = [mine EXCEPT ![r] = generation]
  /\ NotifyAll
  /\ Return(r, "ok")
  /\ PassHistory(r)
  /\ UNCHANGED <<broken, waiting>>

(* checked_add fails: the count is reset, the generation stays, nobody is  *)
(* woken and the barrier is not marked broken.                             *)
LastArrivalOverflow(r) ==
  /\ r \notin waiting
  /\ ~broken
  /\ arrived + 1 = WorldSize
  /\ generation = GenerationLimit
  /\ arrived' = 0
  /\ mine' = [mine EXCEPT ![r] = generation]
  /\ entered' = [entered EXCEPT ![r] = TRUE]
  /\ Return(r, "Overflow")
  /\ UNCHANGED <<generation, broken, waiting, signalled, passed>>

(* wait_timeout returns for one of three reasons: a notification, a        *)
(* spurious wakeup, the deadline.  The reason matters only to WakeTimedOut *)
(* below; a released generation is looked at first, and returns Ok even    *)
(* when the deadline has passed or the barrier broke in the meantime.      *)
WakeReleased(r) ==
  /\ r \in waiting
  /\ generation # mine[r]
  /\ StopWaiting(r)
  /\ signalled' = signalled \ {r}
  /\ Return(r, "ok")
  /\ PassHistory(r)
  /\ UNCHANGED <<state, mine>>

(* Seeded fault: broken is looked at before the generation. *)
WakeBrokenFirst(r) ==
  /\ r \in waiting
  /\ broken
  /\ StopWaiting(r)
  /\ signalled' = signalled \ {r}
  /\ Return(r, "BarrierBroken")
  /\ UNCHANGED <<state, mine, passed, entered>>

WakeBroken(r) ==
  /\ r \in waiting
  /\ generation = mine[r]
  /\ broken
  /\ StopWaiting(r)
  /\ signalled' = signalled \ {r}
  /\ Return(r, "BarrierBroken")
  /\ UNCHANGED <<state, mine, passed, entered>>

(* Seeded fault: Condvar::wait in place of wait_timeout, no deadline. *)
WakeTimedOutOnlyIfSignalled(r) ==
  /\ r \in waiting \intersect signalled
  /\ generation = mine[r]
  /\ ~broken
  /\ broken' = TRUE
  /\ StopWaiting(r)
  /\ signalled' = waiting \ {r}
  /\ Return(r, "BarrierTimeout")
  /\ UNCHANGED <<generation, arrived, mine, passed, entered>>

(* The deadline passes first: the rank breaks the barrier for everyone.    *)
(* This is both exits of the loop that set broken, the timed_out() one and *)
(* the one at the top of the loop after a spurious wakeup.                 *)
WakeTimedOut(r) ==
  /\ r \in waiting
  /\ generation = mine[r]
  /\ ~broken
  /\ broken' = TRUE
  /\ StopWaiting(r)
  /\ signalled' = waiting \ {r}
  /\ Return(r, "BarrierTimeout")
  /\ UNCHANGED <<generation, arrived, mine, passed, entered>>

Wait(r) == EnterBroken(r) \/ Arrive(r) \/ LastArrival(r) \/ LastArrivalOverflow(r)

Wake(r) == WakeReleased(r) \/ WakeBroken(r) \/ WakeTimedOut(r)

BarrierNext == \E r \in Ranks : Wait(r) \/ Wake(r)

(* wait_timeout is given the remaining time and returns by then, so a      *)
(* waiting thread always takes another step.                               *)
Fairness == \A r \in Ranks : WF_barrierVars(Wake(r))

BarrierSpec == BarrierInit /\ [][BarrierNext]_barrierVars /\ Fairness

-----------------------------------------------------------------------------
(* Properties. *)

BarrierTypeOK ==
  /\ generation \in 0 .. GenerationLimit
  /\ arrived \in 0 .. WorldSize - 1
  /\ broken \in BOOLEAN
  /\ waiting \subseteq Ranks
  /\ signalled \subseteq Ranks
  /\ mine \in [Ranks -> 0 .. GenerationLimit]
  /\ outcome \in [Ranks -> Outcomes]
  /\ passed \in [Ranks -> Nat]
  /\ entered \in [Ranks -> BOOLEAN]

(* The condition-variable barrier implements the abstract one: nobody's    *)
(* wait() returns Ok before all ranks have arrived at the generation.      *)
AbstractBarrier == INSTANCE Barrier
ImplementsBarrier == AbstractBarrier!Spec

(* A generation succeeds for all ranks or for none: a rank whose wait()    *)
(* fails has no peer that already got Ok for the same generation, however  *)
(* late it wakes and whatever broke in between.                            *)
AllOrNothing ==
  [][\A r \in Ranks :
       r \in waiting /\ r \notin waiting' /\ passed'[r] = passed[r] =>
         \A q \in Ranks : passed[q] <= passed[r]]_barrierVars

(* No lost wakeup: a waiting rank whose generation was opened, or whose    *)
(* barrier was broken, has been notified and need not wait for its own     *)
(* deadline.                                                               *)
NoLostWakeup ==
  \A r \in waiting : generation # mine[r] \/ broken => r \in signalled

(* Every call returns, in success or in failure. *)
EveryCallReturns == \A r \in Ranks : r \in waiting ~> r \notin waiting
=============================================================================

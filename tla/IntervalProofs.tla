--------------------------- MODULE IntervalProofs ---------------------------
(***************************************************************************)
(* The safety properties of an Interval for any set of timer identities.   *)
(***************************************************************************)
EXTENDS Interval, TLAPS

(* A disposed Interval is Terminated, and only a disposed one is.            *)
DisposedIsTerminated == (disposal # "no") <=> (state = "Terminated")

(* The inductive invariant: NotReentrant needs TimerTracked (a timer that    *)
(* fires does it in state Active, when nothing runs).                        *)
IInv == TypeOK /\ TimerTracked /\ DisposedIsTerminated /\ NotReentrant

USE DEF IntervalStates, IsExecuting, StartedState, StartArms, StoppedState,
        Reexecutes, Reschedules, FinishedState

LEMMA InitIInv == Init => IInv
  BY DEF Init, IInv, TypeOK, TimerTracked, DisposedIsTerminated, NotReentrant

(* Every step of an Interval (a call of start(), stop(), asyncDispose(), a   *)
(* timer that fires, a callback that settles) keeps the inductive invariant. *)
LEMMA NextIInv == IInv /\ [Next]_vars => IInv'
  <1> SUFFICES ASSUME IInv, [Next]_vars PROVE IInv'
    OBVIOUS
  <1> USE DEF IInv, TypeOK, TimerTracked, DisposedIsTerminated, NotReentrant, SetTimeout
  <1>1. ASSUME NEW immediate \in BOOLEAN, Start(immediate) PROVE IInv'
    BY <1>1 DEF Start
  <1>2. CASE Stop
    BY <1>2 DEF Stop
  <1>3. CASE AsyncDispose
    BY <1>3 DEF AsyncDispose
  <1>4. ASSUME NEW t \in Timers, TimerFires(t) PROVE IInv'
    BY <1>4 DEF TimerFires, AfterLoop
  <1>5. ASSUME NEW t \in Timers, CallbackSettles(t) PROVE IInv'
    BY <1>5 DEF CallbackSettles, AfterLoop
  <1>6. CASE UNCHANGED vars
    BY <1>6 DEF vars
  <1>7. QED
    BY <1>1, <1>2, <1>3, <1>4, <1>5, <1>6 DEF Next

LEMMA SpecIInv == Spec => []IInv
  BY InitIInv, NextIInv, PTL DEF Spec

(* interval.ts never leaks a timer: whatever the order of the calls and the  *)
(* callbacks, the only timer that can fire is the one that stop() and        *)
(* asyncDispose() clear.                                                     *)
THEOREM TimerIsTracked == Spec => []TimerTracked
  BY SpecIInv, PTL DEF IInv

(* The callback of an Interval is not reentered, and asyncDispose() does not *)
(* resolve while it runs, if stop() is never called in its middle.           *)
THEOREM CallbackIsNotReentered == Spec => []NotReentrant
  BY SpecIInv, PTL DEF IInv

(* After asyncDispose() the callback never begins again.                     *)
THEOREM QuietAfterAsyncDispose == Spec => QuietAfterDispose
  <1>1. ASSUME IInv, [Next]_vars
        PROVE  [disposal # "no" => runs' \subseteq runs /\ armed' = {} /\ state' = "Terminated"]_vars
    <2> USE <1>1 DEF IInv, TypeOK, TimerTracked, DisposedIsTerminated, SetTimeout
    <2>1. ASSUME NEW immediate \in BOOLEAN, Start(immediate), disposal # "no"
          PROVE  runs' \subseteq runs /\ armed' = {} /\ state' = "Terminated"
      BY <2>1 DEF Start
    <2>2. ASSUME Stop \/ AsyncDispose, disposal # "no"
          PROVE  runs' \subseteq runs /\ armed' = {} /\ state' = "Terminated"
      BY <2>2 DEF Stop, AsyncDispose
    <2>3. ASSUME NEW t \in Timers, TimerFires(t) \/ CallbackSettles(t), disposal # "no"
          PROVE  runs' \subseteq runs /\ armed' = {} /\ state' = "Terminated"
      BY <2>3 DEF TimerFires, CallbackSettles, AfterLoop
    <2>4. QED
      BY <2>1, <2>2, <2>3 DEF Next
  <1>2. QED
    BY <1>1, SpecIInv, PTL DEF Spec, QuietAfterDispose
=============================================================================

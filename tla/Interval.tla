------------------------------ MODULE Interval ------------------------------
(***************************************************************************)
(* One Interval object (private/interval.ts): a callback that is called    *)
(* periodically from a setTimeout() timer, and that may be asynchronous.   *)
(*                                                                         *)
(* A step is a piece of synchronous JavaScript.  start(), stop() and       *)
(* asyncDispose() may be called between any two steps, also while the      *)
(* callback awaits something (Pool calls stop() from its own callback).    *)
(***************************************************************************)
EXTENDS IntervalState

CONSTANTS
    Timers,  \* identities of setTimeout() timers; one is free again when the
             \* timer is neither armed nor has an activation in progress
    NoTimer  \* `undefined`, the initial #hTimer

ASSUME NoTimerAssumption == NoTimer \notin Timers

VARIABLES
    state,      \* #state
    hTimer,     \* #hTimer: the handle that stop() and asyncDispose() clear
    armed,      \* external: timers that the runtime will fire
    runs,       \* activations of the timer function that await callback()
    wantRun,    \* start(true) was called, and no callback began since then
    stopMidRun, \* stop() was called while some callback was in progress
    disposal    \* "no", "waiting" for #onEnd, or "resolved"

vars == <<state, hTimer, armed, runs, wantRun, stopMidRun, disposal>>

TypeOK ==
    /\ state \in IntervalStates
    /\ hTimer \in Timers \cup {NoTimer}
    /\ armed \in SUBSET Timers
    /\ runs \in SUBSET Timers
    /\ wantRun \in BOOLEAN
    /\ stopMidRun \in BOOLEAN
    /\ disposal \in {"no", "waiting", "resolved"}

Init ==
    /\ state = "Inactive"
    /\ hTimer = NoTimer
    /\ armed = {}
    /\ runs = {}
    /\ wantRun = FALSE
    /\ stopMidRun = FALSE
    /\ disposal = "no"

-----------------------------------------------------------------------------

\* this.#hTimer = setTimeout(...), when `others` are the other armed timers
\* and `active` the activations in progress
SetTimeout(others, active) ==
    \E t \in Timers \ (others \cup active) :
        /\ hTimer' = t
        /\ armed' = others \cup {t}

\* start(firstIterIsImmediate).  In state Active with firstIterIsImmediate it
\* clears the tracked timer first.
Start(immediate) ==
    /\ state' = StartedState(state, immediate)
    /\ IF StartArms(state, immediate)
       THEN SetTimeout(IF state = "Active" THEN armed \ {hTimer} ELSE armed, runs)
       ELSE UNCHANGED <<hTimer, armed>>
    /\ wantRun' = (wantRun \/ (immediate /\ state # "Terminated"))
    /\ UNCHANGED <<runs, stopMidRun, disposal>>

Stop ==
    /\ state' = StoppedState(state)
    /\ armed' = IF state = "Terminated" THEN armed ELSE armed \ {hTimer}
    /\ wantRun' = FALSE
    /\ stopMidRun' = (stopMidRun \/ (runs # {} /\ state # "Terminated"))
    /\ UNCHANGED <<hTimer, runs, disposal>>

\* [Symbol.asyncDispose](): called once, by Pool[Symbol.asyncDispose]()
AsyncDispose ==
    /\ disposal = "no"
    /\ state' = "Terminated"
    /\ armed' = armed \ {hTimer}
    /\ wantRun' = FALSE
    /\ disposal' = IF IsExecuting(state) THEN "waiting" ELSE "resolved"
    /\ UNCHANGED <<hTimer, runs, stopMidRun>>

\* mutant of AfterLoop: the branch that calls #onEnd is missing
AfterLoop_NoOnEnd(left, active) ==
    /\ state' = FinishedState(state)
    /\ IF Reschedules(state)
       THEN SetTimeout(left, active)
       ELSE armed' = left /\ UNCHANGED hTimer
    /\ UNCHANGED disposal

\* What follows the do-while loop of the timer function, when the runtime
\* still has the timers `left` and the activations `active` are in progress.
AfterLoop(left, active) ==
    /\ disposal' = IF state = "Terminated" /\ disposal = "waiting"
                   THEN "resolved" ELSE disposal
    /\ state' = FinishedState(state)
    /\ IF Reschedules(state)
       THEN SetTimeout(left, active)
       ELSE armed' = left /\ UNCHANGED hTimer

\* A timer fires.  In state Active it calls the callback, up to its first
\* await; in another state it goes straight to what follows the loop.
TimerFires(t) ==
    /\ t \in armed
    /\ IF state = "Active"
       THEN /\ state' = "Executing"
            /\ armed' = armed \ {t}
            /\ runs' = runs \cup {t}
            /\ wantRun' = FALSE
            /\ UNCHANGED <<hTimer, disposal>>
       ELSE /\ AfterLoop(armed \ {t}, runs)
            /\ UNCHANGED <<runs, wantRun>>
    /\ UNCHANGED stopMidRun

\* The callback of activation t settles (an exception is logged).
CallbackSettles(t) ==
    /\ t \in runs
    /\ IF Reexecutes(state)
       THEN /\ state' = "Executing"
            /\ wantRun' = FALSE
            /\ UNCHANGED <<hTimer, armed, runs, disposal>>
       ELSE /\ runs' = runs \ {t}
            /\ AfterLoop(armed, runs \ {t})
            /\ UNCHANGED wantRun
    /\ UNCHANGED stopMidRun

Next ==
    \/ \E immediate \in BOOLEAN : Start(immediate)
    \/ Stop
    \/ AsyncDispose
    \/ \E t \in Timers : TimerFires(t) \/ CallbackSettles(t)

\* The runtime fires armed timers, and the callback settles (#commonTask
\* awaits only network operations, and connection attempts with a deadline).
Fairness ==
    \A t \in Timers : WF_vars(TimerFires(t)) /\ WF_vars(CallbackSettles(t))

Spec == Init /\ [][Next]_vars /\ Fairness

-----------------------------------------------------------------------------

(* No timer is leaked: a timer is armed exactly in state Active, there is    *)
(* only one, and it is the one that stop() and asyncDispose() clear.  So an  *)
(* external start() during the trailing await of a callback that stopped     *)
(* itself does not leave a second timer (interval.ts:45, interval.test.ts).  *)
TimerTracked ==
    armed = IF state = "Active" THEN {hTimer} ELSE {}

(* After asyncDispose() no timer fires and no callback begins: the pool may  *)
(* release what the callback uses.                                           *)
QuietAfterDispose ==
    [][disposal # "no" => runs' \subseteq runs /\ armed' = {} /\ state' = "Terminated"]_vars

(* The callback is never entered twice at a time, and when asyncDispose()    *)
(* resolves, it is not running - provided that stop() was never called in    *)
(* the middle of a callback.                                                 *)
NotReentrant ==
    ~stopMidRun => /\ \A t, u \in runs : t = u
                   /\ IsExecuting(state) <=> (runs # {} /\ disposal = "no")
                   /\ disposal = "resolved" => runs = {}

(* An immediate iteration asked for with start(true) while the callback is   *)
(* in progress is not lost: the callback begins once more, unless stop() or  *)
(* asyncDispose() cancels it.  (From Active, start(true) re-arms the timer;  *)
(* calls that come faster than a timer fires could put it off forever.)      *)
ImmediateRunHappens == (wantRun /\ IsExecuting(state)) ~> ~wantRun

(* asyncDispose() resolves, even if it was called in the middle of a         *)
(* callback.                                                                 *)
DisposeResolves == (disposal = "waiting") ~> (disposal = "resolved")
=============================================================================

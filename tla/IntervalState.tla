---------------------------- MODULE IntervalState ----------------------------
(***************************************************************************)
(* The states of an Interval (private/interval.ts) and what start(),       *)
(* stop() and the end of a callback make of them.  The Interval module     *)
(* adds the timer handles and the activations of the timer function; the   *)
(* Pool module uses these operators for its #hCommonTask.                  *)
(***************************************************************************)

IntervalStates ==
    {"Terminated", "Inactive", "Active", "Executing", "ExecutingAndWantReexecute"}

IsExecuting(s) == s \in {"Executing", "ExecutingAndWantReexecute"}

\* mutants of StartedState: start() revives a disposed Interval; start(true)
\* arms a timer also while the callback is in progress
StartedState_Revives(s, immediate) ==
    IF s \in {"Inactive", "Terminated"} THEN "Active" ELSE s
StartedState_Overlaps(s, immediate) ==
    IF s = "Inactive" \/ (immediate /\ IsExecuting(s)) THEN "Active" ELSE s

\* start(firstIterIsImmediate).  From Active with firstIterIsImmediate the
\* timer is replaced by an immediate one; the state is Active again.
StartedState(s, immediate) ==
    IF s = "Inactive" THEN "Active"
    ELSE IF s = "Executing" /\ immediate THEN "ExecutingAndWantReexecute"
    ELSE s

\* start() arms a timer (a new one) exactly in these cases.
StartArms(s, immediate) == s = "Inactive" \/ (s = "Active" /\ immediate)

StoppedState(s) == IF s = "Terminated" THEN s ELSE "Inactive"

\* mutant of Reexecutes: `if` in place of `do ... while`
Reexecutes_Never(s) == FALSE

\* After `await this.callback()`: the do-while loop runs the callback again,
\* ...
Reexecutes(s) == s = "ExecutingAndWantReexecute"

\* mutant of Reschedules: the code before the check of Executing was added
Reschedules_UnlessTerminated(s) == s # "Terminated"

\* ... or the activation ends, and reschedules only from Executing.
Reschedules(s) == s = "Executing"

\* The state that the end of an activation leaves.
FinishedState(s) == IF Reschedules(s) THEN StartedState("Inactive", FALSE) ELSE s
=============================================================================

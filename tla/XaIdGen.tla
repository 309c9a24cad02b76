------------------------------ MODULE XaIdGen ------------------------------
(***************************************************************************)
(* The generator of XA ids (xa_id_gen.ts), one for all the sessions of a   *)
(* process. An id is the current second, a number within this second, and  *)
(* the process id; the text of it separates the three, so here an id is    *)
(* the pair of the first two. Xa takes each id that it gets to be new.     *)
(***************************************************************************)
EXTENDS Integers

CONSTANTS Start,    \* the second when the process starts
          MaxTime,  \* bound: the last second
          MaxIds    \* bound: ids per second

ASSUME XaIdGenAssumption == Start \in Nat \ {0} /\ MaxTime \in Nat /\ MaxIds \in Nat

VARIABLES now,       \* Date.now() in seconds
          lastTime,  \* #lastTime
          lastEnum,  \* #lastEnum
          issued,    \* history: ids that were given out
          twice      \* history: ids that were given out again

vars == <<now, lastTime, lastEnum, issued, twice>>

TypeOK ==
    /\ now \in Nat /\ lastTime \in Nat /\ lastEnum \in Nat
    /\ issued \in SUBSET (Nat \X Nat)
    /\ twice \in SUBSET (Nat \X Nat)

Init ==
    /\ now = Start
    /\ lastTime = 0 /\ lastEnum = 0
    /\ issued = {}
    /\ twice = {}

\* The clock does not go back.
Tick ==
    /\ now < MaxTime
    /\ \E t \in now + 1 .. MaxTime : now' = t
    /\ UNCHANGED <<lastTime, lastEnum, issued, twice>>

Give(id) ==
    /\ issued' = issued \cup {id}
    /\ twice' = twice \cup ({id} \cap issued)

NextId_PostIncrement ==
    /\ lastEnum < MaxIds
    /\ \/ /\ now = lastTime
          /\ lastEnum' = lastEnum + 1
          /\ Give(<<now, lastEnum>>)
          /\ UNCHANGED lastTime
       \/ /\ now # lastTime
          /\ lastTime' = now
          /\ lastEnum' = 0
          /\ Give(<<now, 0>>)
    /\ UNCHANGED now

\* next()
NextId ==
    /\ lastEnum < MaxIds
    /\ \/ /\ now = lastTime
          /\ lastEnum' = lastEnum + 1
          /\ Give(<<now, lastEnum + 1>>)
          /\ UNCHANGED lastTime
       \/ /\ now # lastTime
          /\ lastTime' = now
          /\ lastEnum' = 0
          /\ Give(<<now, 0>>)
    /\ UNCHANGED now

Next == Tick \/ NextId

Spec == Init /\ [][Next]_vars

-----------------------------------------------------------------------------
\* next() never gives an id twice in a process, however many transactions
\* start within one second and whenever the second changes between two calls.
NeverRepeats == twice = {}

\* The inductive invariant: the generator remembers the last second, and all
\* the numbers of this second that were given out are below or at #lastEnum.
IdInv ==
    /\ TypeOK /\ NeverRepeats
    /\ lastTime <= now /\ 0 < now
    /\ \A id \in issued :
          /\ id[1] <= lastTime
          /\ id[1] = lastTime => id[2] <= lastEnum
=============================================================================

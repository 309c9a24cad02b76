------------------------------- MODULE TrxLog -------------------------------
(***************************************************************************)
(* What savepoints promise to the application, with no word about when     *)
(* commands reach the server: a transaction is a log of writes and of      *)
(* points; savepoint() adds a new point, and rollback(point) takes back    *)
(* exactly what follows this point, and forgets it.                        *)
(***************************************************************************)
EXTENDS Naturals, Sequences, FiniteSets

CONSTANTS Conns, Points, Write

VARIABLES
    on,      \* whether each connection is in a transaction
    log,     \* the writes and the points of the transaction
    result   \* what rollback(point) came to: ok, and the point (to)

Elements(s) == {s[i] : i \in DOMAIN s}

Init ==
    /\ on = [k \in Conns |-> FALSE]
    /\ log = [k \in Conns |-> <<>>]
    /\ \A k \in Conns : ~result[k].ok

Same(k) == on'[k] = on[k] /\ log'[k] = log[k]

\* A transaction starts, or starts over. If the session has points already, a
\* connection that joins it has them, too.
Start(k) ==
    /\ on'[k]
    /\ Elements(log'[k]) \subseteq Points
    /\ Cardinality(Elements(log'[k])) = Len(log'[k])

\* Commit, rollback of the whole, end(), or a lost connection that is reported.
Over(k) == ~on'[k] /\ log'[k] = <<>>

Query(k) == on[k] /\ on'[k] /\ log'[k] = Append(log[k], Write)

Savepoint(k) ==
    /\ on[k] /\ on'[k]
    /\ \E x \in Points \ Elements(log[k]) : log'[k] = Append(log[k], x)

RollbackTo(k) ==
    /\ on[k] /\ on'[k]
    /\ \E i \in DOMAIN log[k] :
          /\ result'[k].ok /\ log[k][i] = result'[k].to
          /\ log'[k] = SubSeq(log[k], 1, i - 1)

\* A rollback(point) that threw: the writes stay.
RollbackFails(k) ==
    /\ on[k] /\ on'[k]
    /\ \E i \in DOMAIN log[k] :
          /\ ~result'[k].ok /\ log[k][i] = result'[k].to
          /\ log'[k] = SubSeq(log[k], 1, i - 1)
                       \o SelectSeq(SubSeq(log[k], i, Len(log[k])), LAMBDA y : y = Write)

\* An operation of the session is one of each of its connections.
Next ==
    \A k \in Conns : \/ Same(k) \/ Start(k) \/ Over(k) \/ Query(k) \/ Savepoint(k)
                     \/ RollbackTo(k) \/ RollbackFails(k)

Spec == Init /\ [][Next]_<<on, log, result>>
=============================================================================

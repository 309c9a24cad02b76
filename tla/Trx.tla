-------------------------------- MODULE Trx --------------------------------
(***************************************************************************)
(* Lazy transactions and savepoints of MyConn (my_conn.ts) and MySession   *)
(* (my_session.ts). startTrx() and savepoint() only add a command to       *)
(* pendingTrxSql; the next query connects, sends what is pending one by    *)
(* one, and then itself. If the connection was just taken from the pool    *)
(* and turns out to be dead, all of this is done again on another one.     *)
(* (Distributed transactions and the commit of a session are in Xa.)       *)
(*                                                                         *)
(* A step is a call up to its first await, or one command with its reply.  *)
(* A command is executed; or refused (SqlError); or finds the connection   *)
(* dead.                                                                   *)
(***************************************************************************)
EXTENDS Integers, Sequences, FiniteSets, SequencesExt

CONSTANTS
    Conns,       \* MyConn objects of the session, each to its own server
    MaxPoints,   \* bound: savepoints of each kind
    MaxWrites,   \* bound: writes in a transaction
    MaxFaults,   \* bound: refused commands and lost connections
    MaxRetries,  \* dsn.maxConns: the first value of nRetriesRemaining
    Allows       \* what the application does although the code is not made for it

ASSUME TrxAssumption ==
    /\ MaxPoints \in Nat /\ MaxWrites \in Nat /\ MaxFaults \in Nat /\ MaxRetries \in Nat
    /\ Allows \subseteq {"restartUnsent", "mixedUnsent", "savepointAfterRetry",
                         "endInPrepare", "startAfterEnd"}

VARIABLES
    sess,     \* the MySession: on (#trxOptions is set) and enum (#savepointEnum)
    members,  \* #connsArr
    conn,     \* the MyConns
    srv,      \* the server's side of the connection of each MyConn
    faults,   \* how many faults happened
    want,     \* history: the application knows that it is in a transaction
    live,     \* history: the points it may roll back to
    result    \* history: what rollback(toPointId) came to in the last step

vars == <<sess, members, conn, srv, faults, want, live, result>>
history == <<want, live>>

\* The commands that can be pending. A savepoint is of the connection ("p") or
\* of the session ("s").
START == <<"start", 0>>
Points == {"p", "s"} \X (1 .. MaxPoints)
Write == <<"write", 0>>

\* proto: whether there is #protocol. fresh: it is IDLE_IN_POOL. inTrans:
\* SERVER_STATUS_IN_TRANS. pending: pendingTrxSql. enum: #savepointEnum.
\* stmt: #preparedStmtsForParams has the statement for a query with named
\* parameters. op: the awaited call; sent: how many of the pending commands it
\* has sent; to: its argument; retries: nRetriesRemaining; old: what it was doing
\* when end() was called, since which it holds a terminated protocol.
NewConn == [proto |-> FALSE, fresh |-> FALSE, inTrans |-> FALSE, pending |-> <<>>, enum |-> 0,
            stmt |-> FALSE, op |-> "no", sent |-> 0, to |-> START, retries |-> 0, old |-> "no"]

Ops == {"no", "query", "named", "to", "commit", "commitChain", "rollback", "chain"}

\* log: the writes and the savepoints of the transaction.
NewThread == [alive |-> TRUE, trx |-> FALSE, log |-> <<>>, stmt |-> FALSE]

TypeOK ==
    /\ sess \in [on : BOOLEAN, enum : 0 .. MaxPoints]
    /\ members \in SUBSET Conns
    /\ \A k \in Conns :
          /\ {conn[k].proto, conn[k].fresh, conn[k].inTrans, conn[k].stmt} \subseteq BOOLEAN
          /\ Range(conn[k].pending) \subseteq Points \cup {START}
          /\ conn[k].op \in Ops /\ conn[k].enum \in 0 .. MaxPoints
          /\ conn[k].old \in {"no", "sending", "preparing", "executing"}
          /\ conn[k].old = "no" => conn[k].sent \in 0 .. Len(conn[k].pending)
          /\ conn[k].retries \in 0 .. MaxRetries
          /\ Range(srv[k].log) \subseteq Points \cup {Write}
          /\ conn[k].fresh => conn[k].proto /\ ~srv[k].trx
          /\ conn[k].proto /\ srv[k].alive => conn[k].inTrans = srv[k].trx
    /\ faults \in 0 .. MaxFaults
    /\ want \in [Conns -> BOOLEAN]
    /\ live \in [Conns -> SUBSET Points]
    /\ \A k \in Conns : result[k].ok \in BOOLEAN /\ result[k].to \in Points \cup {START}

NoResults == [k \in Conns |-> [ok |-> FALSE, to |-> START]]
NoResult == result' = NoResults

Init ==
    /\ sess = [on |-> FALSE, enum |-> 0]
    /\ members = {}
    /\ conn = [k \in Conns |-> NewConn]
    /\ srv = [k \in Conns |-> NewThread]
    /\ faults = 0
    /\ want = [k \in Conns |-> FALSE]
    /\ live = [k \in Conns |-> {}]
    /\ result = NoResults

-----------------------------------------------------------------------------
(* The server.                                                             *)

Position(log, x) == CHOOSE i \in DOMAIN log : log[i] = x

\* There is at most one savepoint of each name.
Without(log, x) == IF x \in Range(log) THEN RemoveAt(log, Position(log, x)) ELSE log

\* START commits what was there. A savepoint takes the place of the one with the
\* same name. Outside of a transaction there is nothing to keep.
Executed(t, cmd) ==
    CASE cmd = START -> [t EXCEPT !.trx = TRUE, !.log = <<>>]
      [] cmd # START /\ t.trx -> [t EXCEPT !.log = Append(IF cmd = Write THEN @ ELSE Without(@, cmd), cmd)]
      [] OTHER -> t

\* ROLLBACK TO: the savepoint itself stays.
RolledBackTo(t, x) == [t EXCEPT !.log = SubSeq(@, 1, Position(@, x))]

-----------------------------------------------------------------------------
(* MyConn. The operators give the MyConn after a synchronous piece of code. *)

Ended_KeepsStmt(c, noResetPending) ==
    [c EXCEPT !.proto = FALSE, !.fresh = FALSE, !.inTrans = FALSE, !.enum = 0,
              !.pending = IF noResetPending THEN @ ELSE <<>>]

Ended_ResetsPending(c, noResetPending) ==
    [c EXCEPT !.proto = FALSE, !.fresh = FALSE, !.inTrans = FALSE, !.enum = 0, !.stmt = FALSE,
              !.pending = <<>>]

\* #doEnd()
Ended(c, noResetPending) ==
    [c EXCEPT !.proto = FALSE, !.fresh = FALSE, !.inTrans = FALSE, !.enum = 0, !.stmt = FALSE,
              !.pending = IF noResetPending THEN @ ELSE <<>>]

\* startTrx() outside of a transaction
Started(c) == [c EXCEPT !.pending = <<START>>, !.enum = 0]

\* The awaited call returns or throws. A dead connection stays with its MyConn.
Done(c) == [c EXCEPT !.op = "no", !.sent = 0, !.to = START, !.retries = 0, !.fresh = FALSE, !.old = "no"]

Called(c, op, x) == [c EXCEPT !.op = op, !.sent = 0, !.to = x, !.retries = MaxRetries]

\* SAVEPOINT commands at the end of pendingTrxSql, of the same kind as x
PendingAt_AnyKind(c, x) == {i \in DOMAIN c.pending : c.pending[i][2] = x[2] /\ c.pending[i] # START}

PendingAt(c, x) ==
    {i \in DOMAIN c.pending : /\ c.pending[i] = x
                              /\ \A j \in i .. Len(c.pending) : c.pending[j][1] = x[1]}

\* The end of commit() and rollback()
Cleared(c) == [Done(c) EXCEPT !.pending = <<>>]

InTrans(c) == c.proto /\ c.inTrans

\* Those of the points that were set before x
Before(k, x) ==
    LET s == srv[k].log \o conn[k].pending IN
    {y \in live[k] : y # x /\ \E i, j \in DOMAIN s : s[i] = y /\ s[j] = x /\ i < j
                     /\ \A m \in j + 1 .. Len(s) : s[m] \notin {x, y}}

\* rollback(toPointId): a pending point is just dropped with what follows it;
\* else ROLLBACK TO is sent if there is a transaction, or an exception thrown.
ConnRollbackTo(k, x) ==
    IF PendingAt(conn[k], x) # {}
    THEN [conn[k] EXCEPT !.pending = SubSeq(@, 1, Max(PendingAt(conn[k], x)) - 1)]
    ELSE IF InTrans(conn[k]) THEN Called(conn[k], "to", x) ELSE conn[k]

-----------------------------------------------------------------------------
(* Calls of the application. It does not call a method of a connection     *)
(* while another one is awaited, except for end(), which it may call at    *)
(* any time, and for savepoint() while a query sends the pending commands. *)

Idle(k) == k \in members /\ conn[k].op = "no"
AllIdle == \A k \in members : Idle(k)

\* What can be called during the sending of the pending commands
Sending(k) ==
    /\ k \in members /\ conn[k].old = "no"
    /\ conn[k].op \in {"query", "named"}
    /\ conn[k].sent < Len(conn[k].pending)

SessionConn(k) ==
    LET points == [i \in 1 .. sess.enum |-> <<"s", i>>] IN
    /\ k \notin members
    /\ members' = members \cup {k}
    /\ conn' = [conn EXCEPT ![k].pending = (IF sess.on THEN <<START>> ELSE <<>>) \o points]
    /\ want' = [want EXCEPT ![k] = sess.on]
    /\ live' = [live EXCEPT ![k] = IF sess.on THEN Range(points) ELSE {}]
    /\ NoResult
    /\ UNCHANGED <<sess, srv, faults>>

\* MySession.startTrx(), when its commit() has nothing to send
StartTrx ==
    /\ \A k \in members : (Idle(k) \/ ("startAfterEnd" \in Allows /\ conn[k].old # "no")) /\ ~conn[k].inTrans
    /\ sess' = [on |-> TRUE, enum |-> 0]
    /\ conn' = [k \in Conns |-> IF k \in members THEN Started(conn[k]) ELSE conn[k]]
    /\ want' = [k \in Conns |-> k \in members]
    /\ live' = [k \in Conns |-> {}]
    /\ NoResult
    /\ UNCHANGED <<members, srv, faults>>

\* No point of the other kind is pending in a transaction that is not yet started:
\* the code could not roll back to the point below.
SameKindUnsent(k, kind) ==
    "mixedUnsent" \in Allows \/ conn[k].inTrans
    \/ \A i \in DOMAIN conn[k].pending : conn[k].pending[i][1] \in {"start", kind}

\* MyConn.savepoint()
Savepoint(k) ==
    LET x == <<"p", conn[k].enum + 1>> IN
    /\ Idle(k) \/ Sending(k)
    /\ want[k] /\ conn[k].enum < MaxPoints /\ SameKindUnsent(k, "p")
    /\ x \in live[k] => "savepointAfterRetry" \in Allows
    /\ conn' = [conn EXCEPT ![k].enum = @ + 1, ![k].pending = Append(@, x)]
    /\ live' = [live EXCEPT ![k] = @ \cup {x}]
    /\ NoResult
    /\ UNCHANGED <<sess, members, srv, faults, want>>

\* MySession.savepoint(), when all its connections are in the transaction
SessionSavepoint ==
    LET x == <<"s", sess.enum + 1>> IN
    /\ sess.on /\ sess.enum < MaxPoints
    /\ \A k \in members : want[k] /\ (Idle(k) \/ Sending(k)) /\ SameKindUnsent(k, "s")
    /\ sess' = [sess EXCEPT !.enum = @ + 1]
    /\ conn' = [k \in Conns |-> IF k \in members THEN [conn[k] EXCEPT !.pending = Append(@, x)] ELSE conn[k]]
    /\ live' = [k \in Conns |-> IF k \in members THEN live[k] \cup {x} ELSE live[k]]
    /\ NoResult
    /\ UNCHANGED <<members, srv, faults, want>>

\* The points of K to which rollback() returns at once
ReturnsAtOnce(K, x) ==
    LET Now == {k \in K : x \in live[k] /\ PendingAt(conn[k], x) # {}} IN
    /\ live' = [k \in Conns |-> IF k \in Now THEN Before(k, x) ELSE live[k]]
    /\ result' = [k \in Conns |-> IF k \in Now THEN [ok |-> TRUE, to |-> x] ELSE NoResults[k]]

\* MyConn.rollback(toPointId)
RollbackTo(k, x) ==
    /\ Idle(k) /\ x \in live[k] /\ x[1] = "p"
    /\ conn' = [conn EXCEPT ![k] = ConnRollbackTo(k, x)]
    /\ ReturnsAtOnce({k}, x)
    /\ UNCHANGED <<sess, members, srv, faults, want>>

\* MySession.rollback(toPointId), to a point that no MyConn.rollback() has taken back
SessionRollbackTo(x) ==
    /\ AllIdle /\ x[1] = "s" /\ x[2] <= sess.enum
    /\ \A k \in members : want[k] => x \in live[k]
    /\ sess' = [sess EXCEPT !.enum = x[2] - 1]
    /\ conn' = [k \in Conns |-> IF k \in members THEN ConnRollbackTo(k, x) ELSE conn[k]]
    /\ ReturnsAtOnce(members, x)
    /\ UNCHANGED <<members, srv, faults, want>>

\* Beginning of commit() and of rollback() on the connections of K. Where no
\* transaction is started on the server, its pending start is dropped, even if the
\* call asks for the transaction to go on.
EndTrx(K, op, chains) ==
    /\ chains => "restartUnsent" \in Allows \/ \A k \in K : want[k] => InTrans(conn[k])
    /\ conn' = [k \in Conns |->
          IF k \notin K THEN conn[k]
          ELSE IF InTrans(conn[k]) THEN Called(conn[k], op, START) ELSE Cleared(conn[k])]
    /\ want' = [k \in Conns |-> want[k] /\ (k \in K => chains \/ InTrans(conn[k]))]
    /\ live' = [k \in Conns |-> IF k \in K /\ ~InTrans(conn[k]) THEN {} ELSE live[k]]
    /\ NoResult
    /\ UNCHANGED <<members, srv, faults>>

\* MyConn.commit(andChain)
Commit(k, andChain) ==
    /\ Idle(k)
    /\ EndTrx({k}, IF andChain THEN "commitChain" ELSE "commit", andChain)
    /\ UNCHANGED sess

\* MySession.rollback() and rollback(0)
Rollback(toStart) ==
    /\ AllIdle
    /\ sess' = [sess EXCEPT !.on = @ /\ toStart, !.enum = 0]
    /\ EndTrx(members, IF toStart THEN "chain" ELSE "rollback", toStart)

Query(k, op) ==
    /\ Idle(k)
    /\ conn' = [conn EXCEPT ![k] = Called(@, op, START)]
    /\ NoResult
    /\ UNCHANGED <<sess, members, srv, faults, history>>

\* What the awaited call is doing
Stage(c) ==
    IF c.op \notin {"query", "named", "to"} THEN "executing"
    ELSE IF c.sent < Len(c.pending) THEN "sending"
    ELSE IF c.op = "named" /\ ~c.stmt THEN "preparing" ELSE "executing"

\* MyConn.end(). (Not during the first command on a connection from the pool: if
\* this one was dead, the call would go on with a new connection.)
End(k) ==
    LET stage == IF conn[k].op = "no" THEN "no" ELSE Stage(conn[k]) IN
    /\ k \in members /\ conn[k].proto
    /\ stage # "no" => ~conn[k].fresh
    /\ stage = "preparing" => "endInPrepare" \in Allows
    /\ conn' = [conn EXCEPT ![k] = [Ended(@, FALSE) EXCEPT !.old = stage]]
    /\ srv' = [srv EXCEPT ![k] = NewThread]
    /\ want' = [want EXCEPT ![k] = FALSE]
    /\ live' = [live EXCEPT ![k] = {}]
    /\ NoResult
    /\ UNCHANGED <<sess, members, faults>>

-----------------------------------------------------------------------------
(* Continuations of the calls.                                             *)

Fault == faults < MaxFaults /\ faults' = faults + 1

Awaits(k, ops) == k \in members /\ conn[k].op \in ops /\ conn[k].old = "no"
Queries == {"query", "named", "to"}

\* The terminated protocol answers what was asked of it, and throws CanceledError at
\* the next command. If all of pendingTrxSql was sent, it is emptied before that;
\* and the id of the statement that was prepared is remembered.
OldReturns(k) ==
    LET c == conn[k] IN
    /\ k \in members /\ c.old # "no"
    /\ conn' = [conn EXCEPT ![k] = [Done(c) EXCEPT
          !.pending = IF c.old = "sending" /\ Len(@) <= c.sent + 1 THEN <<>> ELSE @,
          !.stmt = @ \/ c.old = "preparing"]]
    /\ NoResult
    /\ UNCHANGED <<sess, members, srv, faults, history>>

\* connect(): a connection from the pool, or a new one, or an exception.
Connect(k) ==
    /\ Awaits(k, Queries) /\ ~conn[k].proto
    /\ \/ \E fresh \in BOOLEAN : conn' = [conn EXCEPT ![k].proto = TRUE, ![k].fresh = fresh]
       \/ conn' = [conn EXCEPT ![k] = Done(@)]
    /\ srv' = [srv EXCEPT ![k] = NewThread]
    /\ NoResult
    /\ UNCHANGED <<sess, members, faults, history>>

\* One command was executed and answered.
Answered(c, t) == [c EXCEPT !.fresh = FALSE, !.inTrans = t.trx, !.retries = IF @ = 0 THEN 0 ELSE @ - 1]

\* Sends the next of the pending commands.
SendPending(k) ==
    LET t == Executed(srv[k], conn[k].pending[conn[k].sent + 1]) IN
    /\ Awaits(k, Queries) /\ conn[k].proto /\ srv[k].alive
    /\ Stage(conn[k]) = "sending"
    /\ conn' = [conn EXCEPT ![k] = [Answered(conn[k], t) EXCEPT !.sent = @ + 1]]
    /\ srv' = [srv EXCEPT ![k] = t]
    /\ NoResult
    /\ UNCHANGED <<sess, members, faults, history>>

\* All is sent: pendingTrxSql is emptied, and a statement prepared if need be.
Prepare(k) ==
    /\ Awaits(k, {"named"}) /\ conn[k].proto /\ srv[k].alive
    /\ Stage(conn[k]) = "preparing"
    /\ conn' = [conn EXCEPT ![k] = [Answered(@, srv[k]) EXCEPT !.stmt = TRUE, !.pending = <<>>, !.sent = 0]]
    /\ srv' = [srv EXCEPT ![k].stmt = TRUE]
    /\ NoResult
    /\ UNCHANGED <<sess, members, faults, history>>

\* The query itself, that writes.
Execute(k) ==
    LET t == Executed(srv[k], Write) IN
    /\ Awaits(k, {"query", "named"}) /\ conn[k].proto /\ srv[k].alive
    /\ Stage(conn[k]) = "executing"
    /\ conn[k].op = "named" => srv[k].stmt
    /\ Len(SelectSeq(srv[k].log, LAMBDA y : y = Write)) < MaxWrites
    /\ conn' = [conn EXCEPT ![k] = [Cleared(Answered(@, t)) EXCEPT !.pending = <<>>]]
    /\ srv' = [srv EXCEPT ![k] = t]
    /\ NoResult
    /\ UNCHANGED <<sess, members, faults, history>>

\* ROLLBACK TO
ExecuteTo(k) ==
    LET x == conn[k].to IN
    /\ Awaits(k, {"to"}) /\ conn[k].proto /\ srv[k].alive
    /\ Stage(conn[k]) = "executing" /\ x \in Range(srv[k].log)
    /\ conn' = [conn EXCEPT ![k] = Cleared(@)]
    /\ srv' = [srv EXCEPT ![k] = RolledBackTo(@, x)]
    /\ live' = [live EXCEPT ![k] = IF x \in @ THEN Before(k, x) ELSE @]
    /\ result' = [NoResults EXCEPT ![k] = [ok |-> TRUE, to |-> x]]
    /\ UNCHANGED <<sess, members, faults, want>>

\* The server refuses a command: the call throws SqlError. (No savepoint of this name
\* is no fault.) The application does not use the point of a failed rollback() again.
Refused(k) ==
    LET sent == Stage(conn[k]) # "sending" IN
    /\ Awaits(k, Queries) /\ conn[k].proto /\ srv[k].alive
    /\ IF sent /\ (conn[k].op = "to" /\ conn[k].to \notin Range(srv[k].log))
       THEN UNCHANGED faults ELSE Fault
    /\ conn' = [conn EXCEPT ![k] = [Done(conn[k]) EXCEPT !.pending = IF sent THEN <<>> ELSE @]]
    /\ IF conn[k].op = "to" /\ conn[k].to \in live[k]
       THEN /\ live' = [live EXCEPT ![k] = Before(k, conn[k].to)]
            /\ result' = [NoResults EXCEPT ![k].to = conn[k].to]
       ELSE UNCHANGED live /\ NoResult
    /\ UNCHANGED <<sess, members, srv, want>>

\* The first command on a connection from the pool finds it dead, and #doQuery()
\* starts again: with the same pending commands if it was one of these.
Retry(k) ==
    LET sending == Stage(conn[k]) = "sending" IN
    /\ Awaits(k, Queries) /\ conn[k].fresh /\ conn[k].retries > 0 /\ Fault
    /\ conn' = [conn EXCEPT ![k] = [Ended(conn[k], sending) EXCEPT !.sent = 0, !.retries = @ - 1]]
    /\ NoResult
    /\ UNCHANGED <<sess, members, srv, history>>

\* The connection turns out to be dead: the call throws, and the transaction is over.
Broken(k) ==
    /\ Awaits(k, Queries) /\ conn[k].proto
    /\ conn[k].fresh /\ srv[k].alive => conn[k].retries = 0
    /\ IF srv[k].alive THEN Fault ELSE UNCHANGED faults
    /\ conn' = [conn EXCEPT ![k] = [Done(conn[k]) EXCEPT
          !.pending = IF Stage(conn[k]) = "sending" THEN @ ELSE <<>>]]
    /\ srv' = [srv EXCEPT ![k].alive = FALSE]
    /\ want' = [want EXCEPT ![k] = FALSE]
    /\ live' = [live EXCEPT ![k] = {}]
    /\ NoResult
    /\ UNCHANGED <<sess, members>>

Chained(t, chain) == [t EXCEPT !.trx = chain, !.log = <<>>]

\* COMMIT [AND CHAIN] or ROLLBACK [AND CHAIN] is executed. If COMMIT is refused,
\* ROLLBACK is sent, which comes to the same but for an exception.
TrxEnds(k) ==
    LET chain == conn[k].op \in {"commitChain", "chain"}
        t == Chained(srv[k], chain)
    IN  /\ Awaits(k, {"commit", "commitChain", "rollback", "chain"}) /\ srv[k].alive
        /\ conn' = [conn EXCEPT ![k] = Cleared(Answered(@, t))]
        /\ srv' = [srv EXCEPT ![k] = t]
        /\ want' = [want EXCEPT ![k] = chain]
        /\ live' = [live EXCEPT ![k] = {}]
        /\ NoResult
        /\ UNCHANGED <<sess, members, faults>>

\* ROLLBACK failed: the connection is ended; rollback(0) starts the transaction
\* again, commit(andChain) does not. ServerDisconnectedError is thrown.
TrxFails(k) ==
    /\ Awaits(k, {"commit", "commitChain", "rollback", "chain"})
    /\ IF srv[k].alive THEN Fault ELSE UNCHANGED faults
    /\ LET c == Done(Ended(conn[k], FALSE)) IN
       conn' = [conn EXCEPT ![k] = IF conn[k].op = "chain" THEN Started(c) ELSE c]
    /\ srv' = [srv EXCEPT ![k] = NewThread]
    /\ want' = [want EXCEPT ![k] = conn[k].op = "chain"]
    /\ live' = [live EXCEPT ![k] = {}]
    /\ NoResult
    /\ UNCHANGED <<sess, members>>

-----------------------------------------------------------------------------
Next ==
    \/ StartTrx \/ SessionSavepoint
    \/ \E x \in Points : SessionRollbackTo(x)
    \/ \E b \in BOOLEAN : Rollback(b)
    \/ \E k \in Conns :
          \/ SessionConn(k) \/ Savepoint(k) \/ End(k) \/ Query(k, "query") \/ Query(k, "named")
          \/ \E x \in Points : RollbackTo(k, x)
          \/ \E b \in BOOLEAN : Commit(k, b)
          \/ OldReturns(k) \/ Connect(k) \/ SendPending(k) \/ Prepare(k) \/ Execute(k) \/ ExecuteTo(k)
          \/ Refused(k) \/ Retry(k) \/ Broken(k) \/ TrxEnds(k) \/ TrxFails(k)

Spec == Init /\ [][Next]_vars

-----------------------------------------------------------------------------
(* Properties.                                                             *)

\* The commands that are still to be sent
Unsent(k) == SubSeq(conn[k].pending, conn[k].sent + 1, Len(conn[k].pending))

AllBut(log, x) == SelectSeq(log, LAMBDA y : y # x)

\* The transaction as the application sees it: what the server has of it, and what
\* is still to be sent (again, if some command was refused).
LogOf(k) ==
    LET rest == Unsent(k)
        all == (IF START \in Range(rest) THEN <<>> ELSE srv[k].log) \o AllBut(rest, START)
        Put(s, x) == Append(IF x = Write THEN s ELSE AllBut(s, x), x)
    IN  IF want[k] THEN SelectSeq(FoldLeft(Put, <<>>, all), LAMBDA y : y \in live[k] \cup {Write}) ELSE <<>>

Log == INSTANCE TrxLog WITH on <- want, log <- [k \in Conns |-> LogOf(k)]

\* Savepoints mean what they promise, although the commands are sent late, and sent
\* again when a pooled connection was dead: rollback(toPointId) takes back what was
\* written since that savepoint() and nothing else, on every connection of the session.
ImplementsTrxLog == Log!Spec

TrxBegins ==
    \A k \in Conns :
        want[k] /\ conn[k].old = "no" =>
            (conn[k].proto /\ srv[k].trx) \/ (Unsent(k) # <<>> /\ Unsent(k)[1] = START)

PointsStay ==
    \A k \in Conns : \A x \in live[k] :
        \/ PendingAt(conn[k], x) # {}
        \/ /\ InTrans(conn[k])
           /\ x \in Range(Unsent(k)) \/ (x \in Range(srv[k].log) /\ START \notin Range(Unsent(k)))

\* While the application believes to be in a transaction, the server is in it, or the
\* command that starts it is going to be sent before anything else. (A query would
\* be committed at once otherwise.) And rollback(toPointId) to a point that the
\* application has is never refused: the point is found among the pending commands,
\* or there is a transaction to which it belongs, or will when ROLLBACK TO is sent.
TrxNotLost == TrxBegins /\ PointsStay

\* The statement remembered for named parameters is one of the current connection.
CachedStmtIsHere ==
    \A k \in Conns : conn[k].stmt /\ conn[k].old = "no" => conn[k].proto /\ (srv[k].alive => srv[k].stmt)
=============================================================================

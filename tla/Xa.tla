-------------------------------- MODULE Xa --------------------------------
(***************************************************************************)
(* Transactions of a MySession (my_session.ts) over its MyConns            *)
(* (my_conn.ts): distributed (XA) ones with 2-phase commit, and plain      *)
(* ones. Each MyConn talks to a server of its own, which keeps a prepared  *)
(* transaction when the connection is gone, and the manager of dangling    *)
(* transactions (Pool.#xaTask), of this process or of another one, looks   *)
(* at these servers.                                                       *)
(*                                                                         *)
(* A step is a call of the application up to its first await, or one       *)
(* command to a server together with what the code does with the reply.    *)
(* A command is executed and answered; or refused with a SQL error; or     *)
(* finds the connection dead; or is executed, but the connection breaks    *)
(* before the reply.                                                       *)
(***************************************************************************)
EXTENDS Integers

CONSTANTS
    Conns,       \* MyConn objects of the session; each has its own server
    MaxCid,      \* bound: connections (MySQL threads) per server
    MaxTrx,      \* bound: XA ids that XaIdGen gives out
    MaxFaults,   \* bound: refused commands, lost connections, crashes
    Uses,        \* what the application does besides queries and commit()
    Crashes,     \* whether the process may crash
    Detach,      \* the servers' xa_detach_on_prepare
    HasHook,     \* whether the pool has onBeforeCommit
    PoolBreaks   \* whether a pooled connection can die before its next use

ASSUME XaAssumption ==
    /\ MaxCid \in Nat /\ MaxTrx \in Nat /\ MaxFaults \in Nat
    /\ Uses \subseteq {"plain", "xa", "chain", "rollback", "toStart", "end", "dispose"}
    /\ Detach \in BOOLEAN /\ HasHook \in BOOLEAN
    /\ PoolBreaks \in BOOLEAN /\ Crashes \in BOOLEAN

VARIABLES
    sess,     \* the MySession and its running operation
    members,  \* #connsArr
    conn,     \* the MyConns
    lastTrx,  \* the last id that XaIdGen gave out
    idle,     \* connections in the pool, per server
    ending,   \* connections in MyProtocol.end(), and the XA id given to it
    nextCid,  \* next connection id of each server
    alive,    \* threads of each server
    branch,   \* XA transactions of each server
    mgr,      \* #xaTask for each server: its next step and its list `xas`
    faults,   \* how many faults happened
    harmed,   \* history: XAs that a fault hit when they were prepared
    left      \* history: XAs that the application left by MyConn.end()

clientVars == <<sess, members, conn, lastTrx>>
poolVars == <<idle, ending, nextCid>>
serverVars == <<alive, branch>>
history == <<harmed, left>>
vars == <<clientVars, poolVars, serverVars, mgr, faults, history>>

Cids == 1 .. MaxCid
Trxs == 1 .. MaxTrx
NoCid == 0   \* no #protocol; or #curXaIdAppendConn, the id is not complete yet
NoXa == 0    \* the empty XA id

\* pc: what the session awaits. chain: andChain. start: what startTrx() that
\* awaits the commit will start. restart: wantRestartXa. failing: rollback()
\* is called from commit(), which will then throw. err: some promise of #doAll
\* was rejected. on, xa: #trxOptions. was: trxOptions saved by commit().
Sess == [pc : {"idle", "hook", "prepare", "commit", "rollback"},
         chain : BOOLEAN, start : {"no", "plain", "xa"}, restart : BOOLEAN,
         failing : BOOLEAN, err : BOOLEAN,
         on : BOOLEAN, xa : 0 .. MaxTrx, was : 0 .. MaxTrx]

NewSess == [pc |-> "idle", chain |-> FALSE, start |-> "no", restart |-> FALSE,
            failing |-> FALSE, err |-> FALSE, on |-> FALSE, xa |-> NoXa, was |-> NoXa]

\* proto, fresh, inTrans: connection id of #protocol, whether it was taken from
\* the pool and not used yet (IDLE_IN_POOL), SERVER_STATUS_IN_TRANS.
\* xa, xaCid: #curXaId without and with the connection id in it.
\* prepared: #isXaPrepared. pending: the start command in pendingTrxSql.
\* op: the command that is awaited.
Conn == [proto : 0 .. MaxCid, fresh : BOOLEAN, inTrans : BOOLEAN,
         xa : 0 .. MaxTrx, xaCid : 0 .. MaxCid, prepared : BOOLEAN,
         pending : {"no", "plain", "xa"},
         op : {"no", "query", "prepare", "commit", "undo", "rollback", "chain"}]

NewConn == [proto |-> NoCid, fresh |-> FALSE, inTrans |-> FALSE, xa |-> NoXa,
            xaCid |-> NoCid, prepared |-> FALSE, pending |-> "no", op |-> "no"]

\* A transaction on a server. It ends "aborted" when it was not prepared;
\* after PREPARE it is "undone" by its client, or "swept" by the manager.
\* id: the connection id in the XA id; by: the thread that really started it.
Branch == [st : {"none", "active", "aborted", "prepared", "committed", "undone", "swept"},
           id : 0 .. MaxCid, by : 0 .. MaxCid]

NoBranch == [st |-> "none", id |-> NoCid, by |-> NoCid]

Manager == [pc : {"recover", "filter", "sweep"}, xas : SUBSET Trxs]

IdleManager == [pc |-> "recover", xas |-> {}]

TypeOK ==
    /\ sess \in Sess
    /\ members \in SUBSET Conns
    /\ conn \in [Conns -> Conn]
    /\ lastTrx \in 0 .. MaxTrx
    /\ idle \in [Conns -> SUBSET Cids]
    /\ ending \in [Conns -> SUBSET [cid : Cids, xa : 0 .. MaxTrx]]
    /\ nextCid \in [Conns -> 1 .. MaxCid + 1]
    /\ alive \in [Conns -> SUBSET Cids]
    /\ branch \in [Conns -> [Trxs -> Branch]]
    /\ mgr \in [Conns -> Manager]
    /\ faults \in 0 .. MaxFaults
    /\ harmed \in SUBSET Trxs
    /\ left \in SUBSET Trxs

Init ==
    /\ sess = NewSess
    /\ members = {}
    /\ conn = [k \in Conns |-> NewConn]
    /\ lastTrx = 0
    /\ idle = [k \in Conns |-> {}]
    /\ ending = [k \in Conns |-> {}]
    /\ nextCid = [k \in Conns |-> 1]
    /\ alive = [k \in Conns |-> {}]
    /\ branch = [k \in Conns |-> [t \in Trxs |-> NoBranch]]
    /\ mgr = [k \in Conns |-> IdleManager]
    /\ faults = 0
    /\ harmed = {}
    /\ left = {}

-----------------------------------------------------------------------------
(* Commands to a server.                                                   *)

Fault == faults < MaxFaults /\ faults' = faults + 1

\* The transactions of server k after the end of its thread c (or the reset of
\* it): those not prepared are rolled back.
Released(bs, k, c) ==
    [bs EXCEPT ![k] = [t \in Trxs |->
        IF bs[k][t].by = c /\ bs[k][t].st = "active"
        THEN [bs[k][t] EXCEPT !.st = "aborted"] ELSE bs[k][t]]]

ThreadEnds(bs, k, c) ==
    /\ alive' = [alive EXCEPT ![k] = @ \ {c}]
    /\ branch' = Released(bs, k, c)

\* The server's side of the command that takes the XA of k from state `from` to
\* state `to`. In a plain transaction the model has nothing to change.
Executed(k, to) ==
    IF conn[k].xa = NoXa THEN branch ELSE [branch EXCEPT ![k][conn[k].xa].st = to]

Accepts(k, from) ==
    /\ conn[k].proto \in alive[k]
    /\ conn[k].xa # NoXa => branch[k][conn[k].xa].st = from

Answered(k, from, to) ==
    /\ Accepts(k, from)
    /\ branch' = Executed(k, to)
    /\ UNCHANGED <<alive, faults>>

Failed(k, from, to) ==
    \/ ~Accepts(k, from) /\ UNCHANGED <<alive, branch, faults, harmed>>
    \/ /\ Accepts(k, from) /\ Fault
       /\ harmed' = IF conn[k].op = "commit" /\ conn[k].xa # NoXa
                    THEN harmed \cup {conn[k].xa} ELSE harmed
       /\ UNCHANGED <<alive, branch>>
    \/ /\ Accepts(k, from) /\ Fault
       /\ ThreadEnds(Executed(k, to), k, conn[k].proto)
       /\ UNCHANGED harmed

-----------------------------------------------------------------------------
(* MyConn. The operators give the MyConn after a synchronous piece of code. *)

Reset_KeepsPrepared(c) == [c EXCEPT !.xa = NoXa, !.xaCid = NoCid, !.pending = "no", !.op = "no"]

\* The end of commit() and of rollback().
Reset(c) == [c EXCEPT !.xa = NoXa, !.xaCid = NoCid, !.prepared = FALSE,
                      !.pending = "no", !.op = "no"]

OutOfTrx(c) == [Reset(c) EXCEPT !.inTrans = FALSE]

\* #doEnd(). The protocol goes to `ending`.
Ended(c) == [Reset(c) EXCEPT !.proto = NoCid, !.fresh = FALSE, !.inTrans = FALSE]

Returned_Unguarded(k) ==
    ending[k] \cup {[cid |-> conn[k].proto,
                     xa |-> IF conn[k].prepared THEN conn[k].xa ELSE NoXa]}


Returned(k) ==
    IF conn[k].proto = NoCid THEN ending[k]
    ELSE ending[k] \cup {[cid |-> conn[k].proto,
                          xa |-> IF conn[k].prepared THEN conn[k].xa ELSE NoXa]}

\* startTrx() outside of a transaction.
ConnStartTrx(c, xa) ==
    [c EXCEPT !.xa = xa, !.xaCid = IF xa = NoXa THEN NoCid ELSE c.proto,
              !.pending = IF xa = NoXa THEN "plain" ELSE "xa"]

\* The conditions for which prepareCommit(), commit() and rollback() send
\* a command.
CanPrepare(c) == c.proto # NoCid /\ c.inTrans /\ c.xa # NoXa /\ ~c.prepared

HasWork(c) == c.proto # NoCid /\ (c.inTrans \/ c.prepared)

Unprepared(c) == HasWork(c) /\ c.xa # NoXa /\ ~c.prepared

-----------------------------------------------------------------------------
(* MySession. In each phase of commit() and rollback() the session calls   *)
(* the same method of all its connections, and awaits all of them.         *)

AllSettled == \A k \in Conns : conn[k].op = "no"

EnterPrepare(s) ==
    /\ sess' = [s EXCEPT !.pc = "prepare", !.err = FALSE]
    /\ conn' = [k \in Conns |->
                  IF k \in members /\ CanPrepare(conn[k])
                  THEN [conn[k] EXCEPT !.op = "prepare"] ELSE conn[k]]

EnterCommit(s) ==
    /\ sess' = [s EXCEPT !.pc = "commit", !.err = \E k \in members : Unprepared(conn[k])]
    /\ conn' = [k \in Conns |->
                  IF k \notin members \/ Unprepared(conn[k]) THEN conn[k]
                  ELSE IF HasWork(conn[k]) THEN [conn[k] EXCEPT !.op = "commit"]
                  ELSE Reset(conn[k])]

\* how: "rollback", or "chain" if MyConn.rollback() is called with 0.
EnterRollback(s, how) ==
    /\ sess' = [s EXCEPT !.pc = "rollback", !.err = FALSE]
    /\ conn' = [k \in Conns |->
                  IF k \notin members THEN conn[k]
                  ELSE IF HasWork(conn[k]) THEN [conn[k] EXCEPT !.op = how]
                  ELSE Reset(conn[k])]

\* commit() with connections.
BeginCommit(s) ==
    LET s1 == [s EXCEPT !.was = s.xa, !.on = FALSE, !.xa = NoXa] IN
    IF HasHook
    THEN sess' = [s1 EXCEPT !.pc = "hook"] /\ UNCHANGED conn
    ELSE EnterPrepare(s1)

\* The rest of startTrx(), after the commit.
Started(s, kind) ==
    LET xa == IF kind = "xa" THEN lastTrx + 1 ELSE NoXa IN
    /\ kind = "xa" => lastTrx < MaxTrx
    /\ lastTrx' = IF kind = "xa" THEN lastTrx + 1 ELSE lastTrx
    /\ sess' = [NewSess EXCEPT !.on = TRUE, !.xa = xa]
    /\ conn' = [k \in Conns |->
                  IF k \in members THEN ConnStartTrx(conn[k], xa) ELSE conn[k]]

BeginStartTrx(s, kind) ==
    IF members = {}
    THEN Started(s, kind)
    ELSE BeginCommit([s EXCEPT !.chain = FALSE, !.start = kind]) /\ UNCHANGED lastTrx

\* rollback() from within commit(), which cleared #trxOptions before.
RollbackInCommit ==
    EnterRollback([sess EXCEPT !.failing = TRUE], IF sess.chain THEN "chain" ELSE "rollback")

\* The operation ends, maybe with an exception.
Finished(s) == [NewSess EXCEPT !.on = s.on, !.xa = s.xa]

\* Nothing but the session and its connections changes.
Local == UNCHANGED <<members, poolVars, serverVars, mgr, faults, history>>

-----------------------------------------------------------------------------
(* Operations of the session, and their continuations.                     *)

\* session.conn() may be called while another operation awaits.
SessionConn(k) ==
    /\ k \notin members
    /\ members' = members \cup {k}
    /\ conn' = [conn EXCEPT ![k] = IF sess.on THEN ConnStartTrx(@, sess.xa) ELSE @]
    /\ UNCHANGED <<sess, lastTrx, poolVars, serverVars, mgr, faults, history>>

StartTrx(kind) ==
    /\ kind \in Uses
    /\ sess.pc = "idle" /\ AllSettled
    /\ kind = "xa" => lastTrx < MaxTrx
    /\ BeginStartTrx(sess, kind)
    /\ Local

Commit(andChain) ==
    /\ andChain => "chain" \in Uses
    /\ sess.pc = "idle" /\ AllSettled
    /\ andChain /\ sess.xa # NoXa => lastTrx < MaxTrx
    /\ IF members = {}
       THEN sess' = NewSess /\ UNCHANGED conn
       ELSE BeginCommit([sess EXCEPT !.chain = andChain])
    /\ UNCHANGED lastTrx
    /\ Local

HookReturns ==
    /\ sess.pc = "hook" /\ AllSettled
    /\ EnterPrepare(sess)
    /\ UNCHANGED lastTrx
    /\ Local

HookThrows ==
    /\ sess.pc = "hook" /\ AllSettled
    /\ RollbackInCommit
    /\ UNCHANGED lastTrx
    /\ Local

PrepareEnds_IgnoresErrors ==
    /\ sess.pc = "prepare" /\ AllSettled
    /\ EnterCommit(sess)
    /\ UNCHANGED lastTrx
    /\ Local


PrepareEnds ==
    /\ sess.pc = "prepare" /\ AllSettled
    /\ IF sess.err THEN RollbackInCommit ELSE EnterCommit(sess)
    /\ UNCHANGED lastTrx
    /\ Local

CommitEnds ==
    /\ sess.pc = "commit" /\ AllSettled
    /\ \/ /\ sess.err \/ (~sess.chain /\ sess.start = "no")
          /\ sess' = Finished(sess)
          /\ UNCHANGED <<conn, lastTrx>>
       \/ /\ ~sess.err /\ sess.chain
          /\ BeginStartTrx(sess, IF sess.was # NoXa THEN "xa" ELSE "plain")
       \/ /\ ~sess.err /\ ~sess.chain /\ sess.start # "no"
          /\ Started(sess, sess.start)
    /\ Local

\* toStart: rollback(0), that is to the start of the transaction.
Rollback(toStart) ==
    /\ (IF toStart THEN "toStart" ELSE "rollback") \in Uses
    /\ sess.pc = "idle" /\ AllSettled
    /\ toStart /\ sess.xa # NoXa => lastTrx < MaxTrx
    /\ IF toStart /\ sess.xa = NoXa
       THEN EnterRollback(sess, "chain")
       ELSE EnterRollback([sess EXCEPT !.on = FALSE, !.xa = NoXa, !.restart = toStart], "rollback")
    /\ UNCHANGED lastTrx
    /\ Local

RollbackEnds ==
    /\ sess.pc = "rollback" /\ AllSettled
    /\ IF sess.restart /\ ~sess.failing
       THEN BeginStartTrx([sess EXCEPT !.restart = FALSE], "xa")
       ELSE sess' = Finished(sess) /\ UNCHANGED <<conn, lastTrx>>
    /\ Local

\* Disposal of the session with its connections; then the application may
\* create a new session.
DisposeSession ==
    /\ "dispose" \in Uses
    /\ sess.pc = "idle" /\ AllSettled /\ members # {}
    /\ sess' = NewSess
    /\ members' = {}
    /\ conn' = [k \in Conns |-> NewConn]
    /\ ending' = [k \in Conns |-> Returned(k)]
    /\ UNCHANGED <<lastTrx, idle, nextCid, serverVars, mgr, faults, history>>

-----------------------------------------------------------------------------
(* Commands of a connection. The application awaits what it calls: queries *)
(* are not in flight when the session commits or rolls back. onBeforeCommit *)
(* of the session may query, too.                                          *)

Query(k) ==
    /\ sess.pc \in {"idle", "hook"} /\ k \in members /\ conn[k].op = "no"
    /\ conn' = [conn EXCEPT ![k].op = "query"]
    /\ UNCHANGED <<sess, members, lastTrx, poolVars, serverVars, mgr, faults, history>>

\* connect(): takes a connection from the pool, or a new one, or fails.
QueryConnects(k) ==
    /\ conn[k].op = "query" /\ conn[k].proto = NoCid
    /\ \/ \E c \in idle[k] :
            /\ conn' = [conn EXCEPT ![k].proto = c, ![k].fresh = TRUE]
            /\ idle' = [idle EXCEPT ![k] = @ \ {c}]
            /\ UNCHANGED <<nextCid, alive>>
       \/ /\ idle[k] = {} /\ nextCid[k] <= MaxCid
          /\ conn' = [conn EXCEPT ![k].proto = nextCid[k]]
          /\ alive' = [alive EXCEPT ![k] = @ \cup {nextCid[k]}]
          /\ nextCid' = [nextCid EXCEPT ![k] = @ + 1]
          /\ UNCHANGED idle
       \/ /\ idle[k] = {}
          /\ conn' = [conn EXCEPT ![k].op = "no"]
          /\ UNCHANGED <<idle, nextCid, alive>>
    /\ UNCHANGED <<sess, members, lastTrx, ending, branch, mgr, faults, history>>

IdCompleted_NotAppended(c) == [c EXCEPT !.fresh = FALSE]

\* The XA id is completed before XA START is sent, and stays so.
IdCompleted(c) ==
    [c EXCEPT !.xaCid = IF c.pending = "xa" /\ c.xaCid = NoCid THEN c.proto ELSE @,
              !.fresh = FALSE]

\* #doQuery(): sends the pending start of the transaction, then the query.
QueryRuns(k) ==
    LET c == IdCompleted(conn[k])
    IN  /\ conn[k].op = "query" /\ conn[k].proto \in alive[k]
        /\ conn' = [conn EXCEPT ![k] = [c EXCEPT
              !.op = "no", !.pending = "no",
              !.inTrans = c.inTrans \/ c.pending # "no"]]
        /\ branch' = IF c.pending # "xa" THEN branch
                     ELSE [branch EXCEPT ![k][c.xa] =
                             [st |-> "active", id |-> c.xaCid, by |-> c.proto]]
        /\ UNCHANGED <<sess, members, lastTrx, poolVars, alive, mgr, faults, history>>

\* The server refuses the pending command or the query.
QueryRefused(k) ==
    /\ conn[k].op = "query" /\ conn[k].proto \in alive[k] /\ Fault
    /\ conn' = [conn EXCEPT ![k] = [IdCompleted(@) EXCEPT !.op = "no"]]
    /\ UNCHANGED <<sess, members, lastTrx, poolVars, serverVars, mgr, history>>

\* The connection is dead. If it was just taken from the pool, #doQuery() tries
\* another one (#doEnd() that does not reset the pending commands).
QueryDead(k) ==
    /\ conn[k].op = "query" /\ conn[k].proto # NoCid /\ conn[k].proto \notin alive[k]
    /\ conn' = [conn EXCEPT ![k] =
          IF conn[k].fresh THEN [IdCompleted(@) EXCEPT !.proto = NoCid, !.inTrans = FALSE]
          ELSE [IdCompleted(@) EXCEPT !.op = "no"]]
    /\ UNCHANGED <<sess, members, lastTrx, poolVars, serverVars, mgr, faults, history>>

\* Each connection calls onBeforeCommit once more before it sends a command.
HookOfConnThrows == HasHook /\ UNCHANGED <<serverVars, faults, harmed>>

\* prepareCommit(): XA END and XA PREPARE.
PrepareCommit(k) ==
    /\ conn[k].op = "prepare"
    /\ \/ /\ Answered(k, "active", "prepared")
          /\ conn' = [conn EXCEPT ![k].prepared = TRUE, ![k].inTrans = ~Detach, ![k].op = "no"]
          /\ UNCHANGED <<sess, harmed>>
       \/ /\ Failed(k, "active", "prepared") \/ HookOfConnThrows
          /\ conn' = [conn EXCEPT ![k].op = "no"]
          /\ sess' = [sess EXCEPT !.err = TRUE]
    /\ UNCHANGED <<members, lastTrx, poolVars, mgr, left>>

\* commit(): XA COMMIT (or COMMIT). If this fails, XA ROLLBACK follows.
ConnCommit(k) ==
    /\ conn[k].op = "commit"
    /\ \/ /\ Answered(k, "prepared", "committed")
          /\ conn' = [conn EXCEPT ![k] = OutOfTrx(@)]
          /\ UNCHANGED <<sess, harmed>>
       \/ /\ Failed(k, "prepared", "committed")
          /\ conn' = [conn EXCEPT ![k].op = "undo"]
          /\ UNCHANGED sess
       \/ /\ conn[k].xa = NoXa /\ HookOfConnThrows
          /\ conn' = [conn EXCEPT ![k].op = "no"]
          /\ sess' = [sess EXCEPT !.err = TRUE]
    /\ UNCHANGED <<members, lastTrx, poolVars, mgr, left>>

UndoCommit_Swallows(k) ==
    /\ conn[k].op = "undo"
    /\ \/ /\ Answered(k, "prepared", "undone")
          /\ conn' = [conn EXCEPT ![k] = OutOfTrx(@)]
          /\ UNCHANGED <<ending, harmed>>
       \/ /\ Failed(k, "prepared", "undone")
          /\ conn' = [conn EXCEPT ![k] = Ended(@)]
          /\ ending' = [ending EXCEPT ![k] = Returned(k)]
    /\ UNCHANGED <<sess, members, lastTrx, idle, nextCid, mgr, left>>


UndoCommit(k) ==
    /\ conn[k].op = "undo"
    /\ \/ /\ Answered(k, "prepared", "undone")
          /\ conn' = [conn EXCEPT ![k] = OutOfTrx(@)]
          /\ UNCHANGED <<ending, harmed>>
       \/ /\ Failed(k, "prepared", "undone")
          /\ conn' = [conn EXCEPT ![k] = Ended(@)]
          /\ ending' = [ending EXCEPT ![k] = Returned(k)]
    /\ sess' = [sess EXCEPT !.err = TRUE]
    /\ UNCHANGED <<members, lastTrx, idle, nextCid, mgr, left>>

\* rollback(): ROLLBACK, or XA ROLLBACK, or XA END and XA ROLLBACK.
ConnRollback(k) ==
    LET from == IF conn[k].prepared THEN "prepared" ELSE "active"
        to   == IF conn[k].prepared THEN "undone" ELSE "aborted"
    IN  /\ conn[k].op = "rollback"
        /\ \/ /\ Answered(k, from, to)
              /\ conn' = [conn EXCEPT ![k] = OutOfTrx(@)]
              /\ UNCHANGED <<sess, ending, harmed>>
           \/ /\ Failed(k, from, to)
              /\ conn' = [conn EXCEPT ![k] = Ended(@)]
              /\ ending' = [ending EXCEPT ![k] = Returned(k)]
              /\ sess' = [sess EXCEPT !.err = TRUE]
        /\ UNCHANGED <<members, lastTrx, idle, nextCid, mgr, left>>

\* The server executes ROLLBACK AND CHAIN unless the thread is in an XA.
ChainAccepted(k) ==
    /\ conn[k].proto \in alive[k]
    /\ conn[k].xa = NoXa \/ (conn[k].prepared /\ Detach)

\* rollback(0): ROLLBACK AND CHAIN.
ConnRollbackChain(k) ==
    /\ conn[k].op = "chain"
    /\ \/ /\ ChainAccepted(k)
          /\ conn' = [conn EXCEPT ![k] = [Reset(@) EXCEPT !.inTrans = TRUE]]
          /\ UNCHANGED <<sess, ending, serverVars, faults>>
       \/ /\ \/ ~ChainAccepted(k) /\ UNCHANGED <<serverVars, faults>>
             \/ ChainAccepted(k) /\ Fault /\ UNCHANGED serverVars
             \/ ChainAccepted(k) /\ Fault /\ ThreadEnds(branch, k, conn[k].proto)
          /\ conn' = [conn EXCEPT ![k] = ConnStartTrx(Ended(@), NoXa)]
          /\ ending' = [ending EXCEPT ![k] = Returned(k)]
          /\ sess' = [sess EXCEPT !.err = TRUE]
    /\ UNCHANGED <<members, lastTrx, idle, nextCid, mgr, history>>

\* MyConn.end() by the application.
End(k) ==
    /\ "end" \in Uses
    /\ sess.pc = "idle" /\ k \in members /\ conn[k].op = "no" /\ conn[k].proto # NoCid
    /\ conn' = [conn EXCEPT ![k] = Ended(@)]
    /\ ending' = [ending EXCEPT ![k] = Returned(k)]
    /\ left' = IF conn[k].xa # NoXa THEN left \cup {conn[k].xa} ELSE left
    /\ UNCHANGED <<sess, members, lastTrx, idle, nextCid, serverVars, mgr, faults, harmed>>

-----------------------------------------------------------------------------
(* The pool, the servers and the manager.                                  *)

\* MyProtocol.end(): the protocol is already TERMINATED when it is asked to
\* send XA ROLLBACK, so nothing is sent. Then it is reset, or closed.
EndCompletes(k, e) ==
    /\ ending' = [ending EXCEPT ![k] = @ \ {e}]
    /\ \/ /\ e.cid \in alive[k]
          /\ idle' = [idle EXCEPT ![k] = @ \cup {e.cid}]
          /\ branch' = Released(branch, k, e.cid)
          /\ UNCHANGED alive
       \/ /\ ThreadEnds(branch, k, e.cid)
          /\ UNCHANGED idle
    /\ UNCHANGED <<clientVars, nextCid, mgr, faults, history>>

\* #commonTask closes a connection whose useTill passed.
PoolCloses(k, c) ==
    /\ idle' = [idle EXCEPT ![k] = @ \ {c}]
    /\ ThreadEnds(branch, k, c)
    /\ UNCHANGED <<clientVars, ending, nextCid, mgr, faults, history>>

PreparedBy(k, c) == {t \in Trxs : branch[k][t].st = "prepared" /\ branch[k][t].by = c}

ConnectionLost(k, c) ==
    /\ (c \in idle[k] \/ (conn[k].fresh /\ conn[k].proto = c)) => PoolBreaks
    /\ Fault
    /\ ThreadEnds(branch, k, c)
    /\ harmed' = harmed \cup PreparedBy(k, c)
    /\ UNCHANGED <<clientVars, poolVars, mgr, left>>

\* The process ends, and starts again with a new pool and session.
Crash ==
    /\ Crashes /\ Fault
    /\ sess' = NewSess
    /\ members' = {}
    /\ conn' = [k \in Conns |-> NewConn]
    /\ idle' = [k \in Conns |-> {}]
    /\ ending' = [k \in Conns |-> {}]
    /\ alive' = [k \in Conns |-> {}]
    /\ branch' = [k \in Conns |-> [t \in Trxs |->
                    IF branch[k][t].st = "active"
                    THEN [branch[k][t] EXCEPT !.st = "aborted"] ELSE branch[k][t]]]
    /\ harmed' = harmed \cup {t \in Trxs : \E k \in Conns : branch[k][t].st = "prepared"}
    /\ UNCHANGED <<lastTrx, nextCid, mgr, left>>

\* #xaTask: the list of ids after each of its steps.
Listed(k) == {t \in Trxs : branch[k][t].st = "prepared"}

\* mutants of OwnerDead: the threads are not looked up; the last id is lost
OwnerDead_All(k, xas) == xas

OwnerDead_DropsLast(k, xas) ==
    LET dead == {t \in xas : branch[k][t].id \notin alive[k]} IN
    {t \in dead : \E u \in dead : t < u}

OwnerDead(k, xas) == {t \in xas : branch[k][t].id \notin alive[k]}

Remaining(pc, xas) == IF xas = {} THEN IdleManager ELSE [pc |-> pc, xas |-> xas]

Recover(k) ==
    /\ mgr[k].pc = "recover" /\ Listed(k) # {}
    /\ mgr' = [mgr EXCEPT ![k] = Remaining("filter", Listed(k))]
    /\ UNCHANGED <<clientVars, poolVars, serverVars, faults, history>>

FilterAlive(k) ==
    /\ mgr[k].pc = "filter"
    /\ mgr' = [mgr EXCEPT ![k] = Remaining("sweep", OwnerDead(k, @.xas))]
    /\ UNCHANGED <<clientVars, poolVars, serverVars, faults, history>>

\* XA ROLLBACK is refused if the XA is gone, or if it belongs to a connection.
RollbackDangling(k, t) ==
    /\ mgr[k].pc = "sweep" /\ t \in mgr[k].xas
    /\ mgr' = [mgr EXCEPT ![k] = Remaining("sweep", @.xas \ {t})]
    /\ branch' = IF branch[k][t].st = "prepared" /\ (Detach \/ branch[k][t].by \notin alive[k])
                 THEN [branch EXCEPT ![k][t].st = "swept"] ELSE branch
    /\ UNCHANGED <<clientVars, poolVars, alive, faults, history>>

\* A query of the manager fails, and the task ends for this server.
ManagerFails(k) ==
    /\ mgr[k].pc # "recover" /\ Fault
    /\ mgr' = [mgr EXCEPT ![k] = IdleManager]
    /\ UNCHANGED <<clientVars, poolVars, serverVars, history>>

ManagerStep(k) == Recover(k) \/ FilterAlive(k) \/ \E t \in Trxs : RollbackDangling(k, t)

-----------------------------------------------------------------------------
SessionNext ==
    \/ \E k \in Conns : SessionConn(k)
    \/ \E kind \in {"plain", "xa"} : StartTrx(kind)
    \/ \E b \in BOOLEAN : Commit(b) \/ Rollback(b)
    \/ HookReturns \/ HookThrows \/ PrepareEnds \/ CommitEnds \/ RollbackEnds
    \/ DisposeSession

ConnNext ==
    \E k \in Conns :
        \/ Query(k) \/ QueryConnects(k) \/ QueryRuns(k) \/ QueryRefused(k) \/ QueryDead(k)
        \/ PrepareCommit(k) \/ ConnCommit(k) \/ UndoCommit(k)
        \/ ConnRollback(k) \/ ConnRollbackChain(k)
        \/ End(k)

EnvNext ==
    \/ \E k \in Conns : \E e \in ending[k] : EndCompletes(k, e)
    \/ \E k \in Conns : \E c \in idle[k] : PoolCloses(k, c)
    \/ \E k \in Conns : \E c \in alive[k] : ConnectionLost(k, c)
    \/ Crash
    \/ \E k \in Conns : ManagerStep(k) \/ ManagerFails(k)

Next == SessionNext \/ ConnNext \/ EnvNext

Spec == Init /\ [][Next]_vars

\* The manager runs periodically, and its queries end.
Fairness == \A k \in Conns : WF_vars(ManagerStep(k))

FairSpec == Spec /\ Fairness

-----------------------------------------------------------------------------
(* Properties.                                                             *)

\* 2-phase commit: when an XA is committed on some server, no other server
\* had it only active, whatever commands fail and whatever connections are
\* lost. (Unless the application gave a connection back in the middle of it.)
PreparedBeforeCommit ==
    \A t \in Trxs \ left :
        (\E k \in Conns : branch[k][t].st = "committed")
            => \A k \in Conns : branch[k][t].st \notin {"active", "aborted"}

\* When session.commit() is about to resolve, the XA is committed everywhere.
CommitOkMeansCommitted ==
    sess.pc = "commit" /\ AllSettled /\ ~sess.err /\ sess.was # NoXa /\ sess.was \notin left
        => \A k \in Conns : branch[k][sess.was].st \in {"none", "committed"}

\* All or nothing: an XA that no fault hit between PREPARE and COMMIT is not
\* committed in one place and rolled back in another, not even by the manager.
AtomicUnlessHarmed ==
    \A t \in Trxs \ (harmed \cup left) :
        (\E k \in Conns : branch[k][t].st = "committed")
            => \A k \in Conns : branch[k][t].st \in {"none", "prepared", "committed"}

\* What debugAssert in MyConn.startTrx() says, and that it needs no commit()
\* of its own there: when a start of a transaction is pending, the connection
\* is in no other transaction.
PendingIsClean ==
    \A k \in Conns : conn[k].pending # "no" => ~conn[k].prepared /\ ~conn[k].inTrans

\* The manager rolls back only XAs of threads that are dead.
ManagerSparesLive ==
    [][\A k \in Conns, t \in Trxs :
          branch[k][t].st = "prepared" /\ branch'[k][t].st = "swept"
              => branch[k][t].by \notin alive[k]]_vars

\* A prepared XA whose thread is dead does not stay: somebody resolves it.
DanglingResolved ==
    \A k \in Conns, t \in Trxs :
        branch[k][t].st = "prepared" /\ branch[k][t].id \notin alive[k]
            ~> branch[k][t].st # "prepared"
=============================================================================

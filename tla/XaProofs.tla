------------------------------ MODULE XaProofs ------------------------------
(* Theorems about Xa, for all values of its constants. *)
EXTENDS Xa, TLAPS

-----------------------------------------------------------------------------
(* Types of the operators.                                                 *)

\* What becomes of a MyConn in a synchronous piece of code is a MyConn.
LEMMA ConnTypes ==
    ASSUME NEW c \in Conn
    PROVE  /\ Reset(c) \in Conn
           /\ OutOfTrx(c) \in Conn
           /\ [Reset(c) EXCEPT !.inTrans = TRUE] \in Conn
           /\ Ended(c) \in Conn
           /\ IdCompleted(c) \in Conn
<1>0. NoXa \in 0 .. MaxTrx /\ NoCid \in 0 .. MaxCid
  BY XaAssumption DEF NoXa, NoCid
<1>1. Reset(c) \in Conn
  BY <1>0 DEF Conn, Reset
<1>2. OutOfTrx(c) \in Conn /\ [Reset(c) EXCEPT !.inTrans = TRUE] \in Conn
  BY <1>1 DEF Conn, OutOfTrx
<1>3. Ended(c) \in Conn
  BY <1>0, <1>1 DEF Conn, Ended
<1>4. IdCompleted(c) \in Conn
  BY DEF Conn, IdCompleted
<1>. QED  BY <1>1, <1>2, <1>3, <1>4

\* startTrx() of a connection keeps its type.
LEMMA ConnStartType ==
    ASSUME NEW c \in Conn, NEW xa \in 0 .. MaxTrx
    PROVE  ConnStartTrx(c, xa) \in Conn
<1>1. (IF xa = NoXa THEN NoCid ELSE c.proto) \in 0 .. MaxCid
  BY XaAssumption DEF Conn, NoCid
<1>. QED  BY <1>1 DEF Conn, ConnStartTrx

\* A new MyConn and a new MySession have their types.
LEMMA NewTypes == NewConn \in Conn /\ NewSess \in Sess /\ IdleManager \in Manager /\ NoBranch \in Branch
BY XaAssumption DEF NewConn, Conn, NewSess, Sess, IdleManager, Manager, NoBranch, Branch, NoXa, NoCid

\* The end of a thread keeps the types of the servers.
LEMMA ReleasedType ==
    ASSUME NEW bs \in [Conns -> [Trxs -> Branch]], NEW k \in Conns, NEW c
    PROVE  Released(bs, k, c) \in [Conns -> [Trxs -> Branch]]
<1>1. [t \in Trxs |-> IF bs[k][t].by = c /\ bs[k][t].st = "active"
                      THEN [bs[k][t] EXCEPT !.st = "aborted"] ELSE bs[k][t]] \in [Trxs -> Branch]
  BY DEF Branch
<1>. QED  BY <1>1 DEF Released

\* One transaction of a server changes its state.
LEMMA BranchType ==
    ASSUME NEW bs \in [Conns -> [Trxs -> Branch]], NEW k \in Conns, NEW t \in Trxs,
           NEW st \in {"none", "active", "aborted", "prepared", "committed", "undone", "swept"}
    PROVE  [bs EXCEPT ![k][t].st = st] \in [Conns -> [Trxs -> Branch]]
<1>1. [bs[k][t] EXCEPT !.st = st] \in Branch
  BY DEF Branch
<1>2. [bs[k] EXCEPT ![t] = [bs[k][t] EXCEPT !.st = st]] \in [Trxs -> Branch]
  BY <1>1
<1>3. [bs EXCEPT ![k] = [bs[k] EXCEPT ![t] = [bs[k][t] EXCEPT !.st = st]]] \in [Conns -> [Trxs -> Branch]]
  BY <1>2
<1>. QED  BY <1>3

\* A command keeps the types of the servers.
LEMMA ExecutedType ==
    ASSUME TypeOK, NEW k \in Conns,
           NEW to \in {"none", "active", "aborted", "prepared", "committed", "undone", "swept"}
    PROVE  Executed(k, to) \in [Conns -> [Trxs -> Branch]]
<1>1. CASE conn[k].xa = NoXa
  BY <1>1 DEF Executed, TypeOK
<1>2. CASE conn[k].xa # NoXa
  <2>1. conn[k].xa \in Trxs
    BY <1>2, XaAssumption DEF TypeOK, Conn, Trxs, NoXa
  <2>. QED  BY <1>2, <2>1, BranchType DEF Executed, TypeOK
<1>. QED  BY <1>1, <1>2

\* What a command changes, answered or not, keeps its type.
LEMMA CommandType ==
    ASSUME TypeOK, NEW k \in Conns,
           NEW from, NEW to \in {"aborted", "prepared", "committed", "undone"},
           (Answered(k, from, to) /\ UNCHANGED harmed) \/ Failed(k, from, to)
    PROVE  /\ alive' \in [Conns -> SUBSET Cids]
           /\ branch' \in [Conns -> [Trxs -> Branch]]
           /\ faults' \in 0 .. MaxFaults
           /\ harmed' \in SUBSET Trxs
<1>1. Executed(k, to) \in [Conns -> [Trxs -> Branch]]
  BY ExecutedType
<1>2. CASE Answered(k, from, to) /\ UNCHANGED harmed
  BY <1>1, <1>2 DEF Answered, TypeOK
<1>3. CASE Failed(k, from, to)
  <2>1. conn[k].xa # NoXa => conn[k].xa \in Trxs
    BY XaAssumption DEF TypeOK, Conn, Trxs, NoXa
  <2>2. CASE UNCHANGED <<alive, branch, faults, harmed>>
    BY <2>2 DEF TypeOK
  <2>3. CASE /\ Fault /\ UNCHANGED <<alive, branch>>
             /\ harmed' = IF conn[k].op = "commit" /\ conn[k].xa # NoXa
                          THEN harmed \cup {conn[k].xa} ELSE harmed
    <3>1. faults' \in 0 .. MaxFaults
      BY <2>3, XaAssumption DEF TypeOK, Fault
    <3>2. harmed' \in SUBSET Trxs
      BY <2>1, <2>3 DEF TypeOK
    <3>. QED  BY <2>3, <3>1, <3>2 DEF TypeOK
  <2>4. CASE Fault /\ ThreadEnds(Executed(k, to), k, conn[k].proto) /\ UNCHANGED harmed
    <3>1. branch' \in [Conns -> [Trxs -> Branch]]
      BY <1>1, <2>4, ReleasedType DEF ThreadEnds
    <3>2. alive' \in [Conns -> SUBSET Cids]
      BY <2>4 DEF TypeOK, ThreadEnds
    <3>3. faults' \in 0 .. MaxFaults
      BY <2>4, XaAssumption DEF TypeOK, Fault
    <3>. QED  BY <2>4, <3>1, <3>2, <3>3 DEF TypeOK
  <2>. QED  BY <1>3, <2>2, <2>3, <2>4 DEF Failed
<1>. QED  BY <1>2, <1>3

\* The steps of a session's operation keep the types of the session and of
\* its connections.
LEMMA PhaseTypes ==
    ASSUME TypeOK, NEW s \in Sess, NEW how \in {"rollback", "chain"}
    PROVE  /\ EnterPrepare(s) => sess' \in Sess /\ conn' \in [Conns -> Conn]
           /\ EnterCommit(s) => sess' \in Sess /\ conn' \in [Conns -> Conn]
           /\ EnterRollback(s, how) => sess' \in Sess /\ conn' \in [Conns -> Conn]
           /\ BeginCommit(s) => sess' \in Sess /\ conn' \in [Conns -> Conn]
           /\ Finished(s) \in Sess
<1>0. \A k \in Conns : conn[k] \in Conn
  BY DEF TypeOK
<1>1. ASSUME NEW s1 \in Sess PROVE EnterPrepare(s1) => sess' \in Sess /\ conn' \in [Conns -> Conn]
  <2> SUFFICES ASSUME EnterPrepare(s1) PROVE sess' \in Sess /\ conn' \in [Conns -> Conn]
    OBVIOUS
  <2>1. sess' \in Sess
    BY DEF EnterPrepare, Sess
  <2>2. \A k \in Conns : [conn[k] EXCEPT !.op = "prepare"] \in Conn
    BY <1>0 DEF Conn
  <2>. QED  BY <1>0, <2>1, <2>2 DEF EnterPrepare
<1>2. EnterCommit(s) => sess' \in Sess /\ conn' \in [Conns -> Conn]
  <2> SUFFICES ASSUME EnterCommit(s) PROVE sess' \in Sess /\ conn' \in [Conns -> Conn]
    OBVIOUS
  <2>1. sess' \in Sess
    <3>1. (\E k \in members : Unprepared(conn[k])) \in BOOLEAN
      OBVIOUS
    <3>. QED  BY <3>1 DEF EnterCommit, Sess
  <2>2. \A k \in Conns : [conn[k] EXCEPT !.op = "commit"] \in Conn
    BY <1>0 DEF Conn
  <2>3. \A k \in Conns : Reset(conn[k]) \in Conn
    BY <1>0, ConnTypes
  <2>. QED  BY <1>0, <2>1, <2>2, <2>3 DEF EnterCommit
<1>3. EnterRollback(s, how) => sess' \in Sess /\ conn' \in [Conns -> Conn]
  <2> SUFFICES ASSUME EnterRollback(s, how) PROVE sess' \in Sess /\ conn' \in [Conns -> Conn]
    OBVIOUS
  <2>1. sess' \in Sess
    BY DEF EnterRollback, Sess
  <2>2. \A k \in Conns : [conn[k] EXCEPT !.op = how] \in Conn
    BY <1>0 DEF Conn
  <2>3. \A k \in Conns : Reset(conn[k]) \in Conn
    BY <1>0, ConnTypes
  <2>. QED  BY <1>0, <2>1, <2>2, <2>3 DEF EnterRollback
<1>4. BeginCommit(s) => sess' \in Sess /\ conn' \in [Conns -> Conn]
  <2> DEFINE s1 == [s EXCEPT !.was = s.xa, !.on = FALSE, !.xa = NoXa]
  <2>0. NoXa \in 0 .. MaxTrx
    BY XaAssumption DEF NoXa
  <2>1. s1 \in Sess
    BY <2>0 DEF Sess
  <2>2. [s1 EXCEPT !.pc = "hook"] \in Sess
    BY <2>1 DEF Sess
  <2>3. EnterPrepare(s1) => sess' \in Sess /\ conn' \in [Conns -> Conn]
    BY <1>1, <2>1
  <2>. QED  BY <2>2, <2>3 DEF BeginCommit, TypeOK
<1>5. Finished(s) \in Sess
  BY NewTypes DEF Finished, Sess
<1>. QED  BY <1>1, <1>2, <1>3, <1>4, <1>5

\* So does the start of a transaction by the session.
LEMMA StartTypes ==
    ASSUME TypeOK, NEW s \in Sess, NEW kind \in {"plain", "xa"}
    PROVE  /\ Started(s, kind)
                => sess' \in Sess /\ conn' \in [Conns -> Conn] /\ lastTrx' \in 0 .. MaxTrx
           /\ BeginStartTrx(s, kind)
                => sess' \in Sess /\ conn' \in [Conns -> Conn] /\ lastTrx' \in 0 .. MaxTrx
<1>0. \A k \in Conns : conn[k] \in Conn
  BY DEF TypeOK
<1>1. Started(s, kind) => sess' \in Sess /\ conn' \in [Conns -> Conn] /\ lastTrx' \in 0 .. MaxTrx
  <2> SUFFICES ASSUME Started(s, kind)
               PROVE  sess' \in Sess /\ conn' \in [Conns -> Conn] /\ lastTrx' \in 0 .. MaxTrx
    OBVIOUS
  <2> DEFINE xa == IF kind = "xa" THEN lastTrx + 1 ELSE NoXa
  <2>1. xa \in 0 .. MaxTrx /\ lastTrx' \in 0 .. MaxTrx
    BY XaAssumption DEF Started, TypeOK, NoXa
  <2>2. [NewSess EXCEPT !.on = TRUE, !.xa = xa] \in Sess
    BY <2>1, NewTypes DEF Sess
  <2>3. \A k \in Conns : ConnStartTrx(conn[k], xa) \in Conn
    BY <1>0, <2>1, ConnStartType
  <2> HIDE DEF xa
  <2>4. /\ sess' = [NewSess EXCEPT !.on = TRUE, !.xa = xa]
        /\ conn' = [k \in Conns |-> IF k \in members THEN ConnStartTrx(conn[k], xa) ELSE conn[k]]
    BY DEF Started, xa
  <2>. QED  BY <1>0, <2>1, <2>2, <2>3, <2>4
<1>2. ASSUME BeginStartTrx(s, kind), members # {}
      PROVE  sess' \in Sess /\ conn' \in [Conns -> Conn] /\ lastTrx' \in 0 .. MaxTrx
  <2>1. [s EXCEPT !.chain = FALSE, !.start = kind] \in Sess
    BY DEF Sess
  <2>. QED  BY <1>2, <2>1, PhaseTypes DEF BeginStartTrx, TypeOK
<1>. QED  BY <1>1, <1>2 DEF BeginStartTrx

\* The connection that is returned to the pool exists.
LEMMA ReturnedType ==
    ASSUME TypeOK, NEW k \in Conns
    PROVE  Returned(k) \in SUBSET [cid : Cids, xa : 0 .. MaxTrx]
<1>0. NoXa \in 0 .. MaxTrx
  BY XaAssumption DEF NoXa
<1>1. conn[k] \in Conn /\ ending[k] \in SUBSET [cid : Cids, xa : 0 .. MaxTrx]
  BY DEF TypeOK
<1>2. CASE conn[k].proto # NoCid
  <2>1. conn[k].proto \in Cids
    BY <1>1, <1>2, XaAssumption DEF Conn, Cids, NoCid
  <2>2. (IF conn[k].prepared THEN conn[k].xa ELSE NoXa) \in 0 .. MaxTrx
    BY <1>0, <1>1 DEF Conn
  <2>. QED  BY <1>1, <1>2, <2>1, <2>2 DEF Returned
<1>. QED  BY <1>1, <1>2 DEF Returned

\* A step of the session keeps the types.
LEMMA SessionTypes == TypeOK /\ SessionNext => TypeOK'
<1> SUFFICES ASSUME TypeOK, SessionNext PROVE TypeOK'
  OBVIOUS
<1>0. \A k \in Conns : conn[k] \in Conn
  BY DEF TypeOK
<1>1. ASSUME Local, sess' \in Sess, conn' \in [Conns -> Conn], lastTrx' \in 0 .. MaxTrx
      PROVE  TypeOK'
  BY <1>1 DEF TypeOK, Local, poolVars, serverVars, history
<1>2. sess \in Sess /\ lastTrx \in 0 .. MaxTrx /\ conn \in [Conns -> Conn]
  BY DEF TypeOK
<1>3. RollbackInCommit => sess' \in Sess /\ conn' \in [Conns -> Conn]
  <2>1. [sess EXCEPT !.failing = TRUE] \in Sess
    BY <1>2 DEF Sess
  <2>. QED  BY <2>1, PhaseTypes DEF RollbackInCommit
<1>4. ASSUME NEW k \in Conns, SessionConn(k) PROVE TypeOK'
  <2>1. sess.xa \in 0 .. MaxTrx
    BY <1>2 DEF Sess
  <2>2. (IF sess.on THEN ConnStartTrx(conn[k], sess.xa) ELSE conn[k]) \in Conn
    BY <1>0, <2>1, ConnStartType
  <2>. QED  BY <1>4, <2>2 DEF SessionConn, TypeOK, poolVars, serverVars, history
<1>5. ASSUME NEW kind \in {"plain", "xa"}, StartTrx(kind) PROVE TypeOK'
  BY <1>1, <1>2, <1>5, StartTypes DEF StartTrx
<1>6. ASSUME NEW b \in BOOLEAN, Commit(b) PROVE TypeOK'
  <2>1. [sess EXCEPT !.chain = b] \in Sess
    BY <1>2 DEF Sess
  <2>. QED  BY <1>1, <1>2, <1>6, <2>1, PhaseTypes, NewTypes DEF Commit
<1>7. ASSUME NEW b \in BOOLEAN, Rollback(b) PROVE TypeOK'
  <2>0. NoXa \in 0 .. MaxTrx
    BY XaAssumption DEF NoXa
  <2>1. [sess EXCEPT !.on = FALSE, !.xa = NoXa, !.restart = b] \in Sess
    BY <1>2, <2>0 DEF Sess
  <2>. QED  BY <1>1, <1>2, <1>7, <2>1, PhaseTypes DEF Rollback
<1>8. CASE HookReturns
  BY <1>1, <1>2, <1>8, PhaseTypes DEF HookReturns
<1>9. CASE HookThrows
  BY <1>1, <1>2, <1>3, <1>9 DEF HookThrows
<1>10. CASE PrepareEnds
  BY <1>1, <1>2, <1>3, <1>10, PhaseTypes DEF PrepareEnds
<1>11. CASE CommitEnds
  <2>1. (IF sess.was # NoXa THEN "xa" ELSE "plain") \in {"plain", "xa"}
    OBVIOUS
  <2>2. sess.start # "no" => sess.start \in {"plain", "xa"}
    BY <1>2 DEF Sess
  <2>. QED  BY <1>1, <1>2, <1>11, <2>1, <2>2, PhaseTypes, StartTypes DEF CommitEnds
<1>12. CASE RollbackEnds
  <2>1. [sess EXCEPT !.restart = FALSE] \in Sess
    BY <1>2 DEF Sess
  <2>. QED  BY <1>1, <1>2, <1>12, <2>1, PhaseTypes, StartTypes DEF RollbackEnds
<1>13. CASE DisposeSession
  BY <1>13, NewTypes, ReturnedType DEF DisposeSession, TypeOK, serverVars, history
<1>. QED
  BY <1>4, <1>5, <1>6, <1>7, <1>8, <1>9, <1>10, <1>11, <1>12, <1>13 DEF SessionNext

\* A step of a connection keeps the types.
LEMMA ConnStepTypes == TypeOK /\ ConnNext => TypeOK'
<1> SUFFICES ASSUME TypeOK, NEW k \in Conns,
                    \/ Query(k) \/ QueryConnects(k) \/ QueryRuns(k) \/ QueryRefused(k) \/ QueryDead(k)
                    \/ PrepareCommit(k) \/ ConnCommit(k) \/ UndoCommit(k)
                    \/ ConnRollback(k) \/ ConnRollbackChain(k)
                    \/ End(k)
             PROVE  TypeOK'
  BY DEF ConnNext
<1>0. conn[k] \in Conn /\ sess \in Sess /\ conn \in [Conns -> Conn]
  BY DEF TypeOK
<1>1. /\ Reset(conn[k]) \in Conn /\ OutOfTrx(conn[k]) \in Conn
      /\ [Reset(conn[k]) EXCEPT !.inTrans = TRUE] \in Conn
      /\ Ended(conn[k]) \in Conn /\ IdCompleted(conn[k]) \in Conn
  BY <1>0, ConnTypes
<1>2. Returned(k) \in SUBSET [cid : Cids, xa : 0 .. MaxTrx]
  BY ReturnedType
<1>3. [sess EXCEPT !.err = TRUE] \in Sess
  BY <1>0 DEF Sess
<1>4. NoXa \in 0 .. MaxTrx /\ NoCid \in 0 .. MaxCid
  BY XaAssumption DEF NoXa, NoCid
<1>5. \A op \in {"no", "query", "prepare", "commit", "undo", "rollback", "chain"} :
         [conn[k] EXCEPT !.op = op] \in Conn
  BY <1>0 DEF Conn
<1>6. CASE Query(k)
  BY <1>0, <1>5, <1>6 DEF Query, TypeOK, poolVars, serverVars, history
<1>7. CASE QueryConnects(k)
  <2>1. ASSUME NEW c \in idle[k],
               conn' = [conn EXCEPT ![k].proto = c, ![k].fresh = TRUE],
               idle' = [idle EXCEPT ![k] = @ \ {c}],
               UNCHANGED <<nextCid, alive>>
        PROVE  TypeOK'
    <3>1. c \in 0 .. MaxCid
      BY <2>1, XaAssumption DEF TypeOK, Cids
    <3>2. conn' = [conn EXCEPT ![k] = [conn[k] EXCEPT !.proto = c, !.fresh = TRUE]]
      BY <1>0, <2>1
    <3>3. [conn[k] EXCEPT !.proto = c, !.fresh = TRUE] \in Conn
      BY <1>0, <3>1 DEF Conn
    <3>4. conn' \in [Conns -> Conn]
      BY <1>0, <3>2, <3>3
    <3>5. idle' \in [Conns -> SUBSET Cids]
      BY <2>1 DEF TypeOK
    <3>6. UNCHANGED <<sess, members, lastTrx, ending, branch, mgr, faults, history>>
      BY <1>7 DEF QueryConnects
    <3>. QED  BY <2>1, <3>4, <3>5, <3>6 DEF TypeOK, history
  <2>2. ASSUME nextCid[k] <= MaxCid,
               conn' = [conn EXCEPT ![k].proto = nextCid[k]],
               alive' = [alive EXCEPT ![k] = @ \cup {nextCid[k]}],
               nextCid' = [nextCid EXCEPT ![k] = @ + 1],
               UNCHANGED idle
        PROVE  TypeOK'
    <3>1. nextCid[k] \in Cids /\ nextCid[k] \in 0 .. MaxCid /\ nextCid[k] + 1 \in 1 .. MaxCid + 1
      BY <2>2, XaAssumption DEF TypeOK, Cids
    <3>2. [conn[k] EXCEPT !.proto = nextCid[k]] \in Conn
      BY <1>0, <3>1 DEF Conn
    <3>3. conn' \in [Conns -> Conn]
      BY <1>0, <2>2, <3>2
    <3>4. alive' \in [Conns -> SUBSET Cids] /\ nextCid' \in [Conns -> 1 .. MaxCid + 1]
      BY <2>2, <3>1 DEF TypeOK
    <3>5. UNCHANGED <<sess, members, lastTrx, ending, branch, mgr, faults, history>>
      BY <1>7 DEF QueryConnects
    <3>. QED  BY <2>2, <3>3, <3>4, <3>5 DEF TypeOK, history
  <2>3. ASSUME conn' = [conn EXCEPT ![k].op = "no"], UNCHANGED <<idle, nextCid, alive>>
        PROVE  TypeOK'
    BY <1>0, <1>5, <1>7, <2>3 DEF QueryConnects, TypeOK, history
  <2>. QED  BY <1>7, <2>1, <2>2, <2>3 DEF QueryConnects
<1>8. CASE QueryRuns(k)
  <2> DEFINE c == IdCompleted(conn[k])
             c1 == [c EXCEPT !.op = "no", !.pending = "no", !.inTrans = c.inTrans \/ c.pending # "no"]
             b == [st |-> "active", id |-> c.xaCid, by |-> c.proto]
  <2>1. c \in Conn
    BY <1>1
  <2>2. conn' = [conn EXCEPT ![k] = c1]
    BY <1>8 DEF QueryRuns
  <2>3. branch' = IF c.pending # "xa" THEN branch ELSE [branch EXCEPT ![k][c.xa] = b]
    BY <1>8 DEF QueryRuns
  <2> HIDE DEF c
  <2>4. c1 \in Conn
    <3>1. (c.inTrans \/ c.pending # "no") \in BOOLEAN
      OBVIOUS
    <3>. QED  BY <2>1, <3>1 DEF Conn
  <2>5. b \in Branch
    BY <2>1 DEF Conn, Branch
  <2>6. branch' \in [Conns -> [Trxs -> Branch]]
    <3>1. branch[k] \in [Trxs -> Branch] /\ branch \in [Conns -> [Trxs -> Branch]]
      BY DEF TypeOK
    <3>2. [branch[k] EXCEPT ![c.xa] = b] \in [Trxs -> Branch]
      BY <2>5, <3>1
    <3>3. [branch EXCEPT ![k] = [branch[k] EXCEPT ![c.xa] = b]] \in [Conns -> [Trxs -> Branch]]
      BY <3>1, <3>2
    <3>. QED  BY <2>3, <3>1, <3>3
  <2>. QED  BY <1>0, <1>8, <2>2, <2>4, <2>6 DEF QueryRuns, TypeOK, poolVars, history
<1>9. CASE QueryRefused(k)
  <2>1. [IdCompleted(conn[k]) EXCEPT !.op = "no"] \in Conn
    BY <1>1 DEF Conn
  <2>. QED
    BY <1>0, <1>9, <2>1, XaAssumption DEF QueryRefused, Fault, TypeOK, poolVars, serverVars, history
<1>10. CASE QueryDead(k)
  <2>1. /\ [IdCompleted(conn[k]) EXCEPT !.op = "no"] \in Conn
        /\ [IdCompleted(conn[k]) EXCEPT !.proto = NoCid, !.inTrans = FALSE] \in Conn
    BY <1>1, <1>4 DEF Conn
  <2>. QED  BY <1>0, <1>10, <2>1 DEF QueryDead, TypeOK, poolVars, serverVars, history
<1>11. CASE PrepareCommit(k)
  <2>1. ASSUME Answered(k, "active", "prepared"),
               conn' = [conn EXCEPT ![k].prepared = TRUE, ![k].inTrans = ~Detach, ![k].op = "no"],
               UNCHANGED <<sess, harmed>>
        PROVE  TypeOK'
    <3>1. [conn[k] EXCEPT !.prepared = TRUE, !.inTrans = ~Detach, !.op = "no"] \in Conn
      <4>1. (~Detach) \in BOOLEAN
        OBVIOUS
      <4>. QED  BY <1>0, <4>1 DEF Conn
    <3>2. conn' = [conn EXCEPT ![k] = [conn[k] EXCEPT !.prepared = TRUE, !.inTrans = ~Detach, !.op = "no"]]
      BY <1>0, <2>1
    <3>3. conn' \in [Conns -> Conn]
      BY <1>0, <3>1, <3>2
    <3>. QED  BY <1>0, <1>11, <2>1, <3>3, CommandType DEF PrepareCommit, TypeOK, poolVars
  <2>2. ASSUME Failed(k, "active", "prepared") \/ HookOfConnThrows,
               conn' = [conn EXCEPT ![k].op = "no"],
               sess' = [sess EXCEPT !.err = TRUE]
        PROVE  TypeOK'
    BY <1>0, <1>3, <1>5, <1>11, <2>2, CommandType
    DEF PrepareCommit, HookOfConnThrows, TypeOK, poolVars, serverVars
  <2>. QED  BY <1>11, <2>1, <2>2 DEF PrepareCommit
<1>12. CASE ConnCommit(k)
  <2>1. conn' \in [Conns -> Conn] /\ sess' \in Sess
    BY <1>0, <1>1, <1>3, <1>5, <1>12 DEF ConnCommit
  <2>. QED
    BY <1>12, <2>1, CommandType DEF ConnCommit, HookOfConnThrows, TypeOK, poolVars, serverVars
<1>13. CASE UndoCommit(k)
  <2>1. conn' \in [Conns -> Conn] /\ sess' \in Sess
    BY <1>0, <1>1, <1>3, <1>13 DEF UndoCommit
  <2>2. ending' \in [Conns -> SUBSET [cid : Cids, xa : 0 .. MaxTrx]]
    BY <1>2, <1>13 DEF UndoCommit, TypeOK
  <2>. QED  BY <1>13, <2>1, <2>2, CommandType DEF UndoCommit, TypeOK
<1>14. CASE ConnRollback(k)
  <2> DEFINE from == IF conn[k].prepared THEN "prepared" ELSE "active"
             to   == IF conn[k].prepared THEN "undone" ELSE "aborted"
  <2>1. conn' \in [Conns -> Conn] /\ sess' \in Sess
    BY <1>0, <1>1, <1>3, <1>14 DEF ConnRollback
  <2>2. ending' \in [Conns -> SUBSET [cid : Cids, xa : 0 .. MaxTrx]]
    BY <1>2, <1>14 DEF ConnRollback, TypeOK
  <2>3. to \in {"aborted", "prepared", "committed", "undone"}
    OBVIOUS
  <2>4. (Answered(k, from, to) /\ UNCHANGED harmed) \/ Failed(k, from, to)
    BY <1>14 DEF ConnRollback
  <2> HIDE DEF from, to
  <2>5. /\ alive' \in [Conns -> SUBSET Cids] /\ branch' \in [Conns -> [Trxs -> Branch]]
        /\ faults' \in 0 .. MaxFaults /\ harmed' \in SUBSET Trxs
    BY <2>3, <2>4, CommandType
  <2>. QED  BY <1>14, <2>1, <2>2, <2>5 DEF ConnRollback, TypeOK
<1>15. CASE ConnRollbackChain(k)
  <2>1. ConnStartTrx(Ended(conn[k]), NoXa) \in Conn
    BY <1>1, <1>4, ConnStartType
  <2>2. conn' \in [Conns -> Conn] /\ sess' \in Sess
    BY <1>0, <1>1, <1>3, <1>15, <2>1 DEF ConnRollbackChain
  <2>3. ending' \in [Conns -> SUBSET [cid : Cids, xa : 0 .. MaxTrx]]
    BY <1>2, <1>15 DEF ConnRollbackChain, TypeOK
  <2>4. /\ alive' \in [Conns -> SUBSET Cids] /\ branch' \in [Conns -> [Trxs -> Branch]]
        /\ faults' \in 0 .. MaxFaults
    BY <1>15, ReleasedType, XaAssumption DEF ConnRollbackChain, ThreadEnds, Fault, serverVars, TypeOK
  <2>. QED  BY <1>15, <2>2, <2>3, <2>4 DEF ConnRollbackChain, TypeOK, history
<1>16. CASE End(k)
  <2>1. conn[k].xa # NoXa => conn[k].xa \in Trxs
    BY <1>0, XaAssumption DEF Conn, Trxs, NoXa
  <2>. QED  BY <1>0, <1>1, <1>2, <1>16, <2>1 DEF End, TypeOK, serverVars
<1>. QED
  BY <1>6, <1>7, <1>8, <1>9, <1>10, <1>11, <1>12, <1>13, <1>14, <1>15, <1>16

\* A step of the pool, of a server or of the manager keeps the types.
LEMMA EnvTypes == TypeOK /\ EnvNext => TypeOK'
<1> SUFFICES ASSUME TypeOK, EnvNext PROVE TypeOK'
  OBVIOUS
<1>0. ASSUME NEW k \in Conns, NEW c, ThreadEnds(branch, k, c)
      PROVE  alive' \in [Conns -> SUBSET Cids] /\ branch' \in [Conns -> [Trxs -> Branch]]
  BY <1>0, ReleasedType DEF ThreadEnds, TypeOK
<1>1. ASSUME NEW k \in Conns, NEW e \in ending[k], EndCompletes(k, e) PROVE TypeOK'
  <2>1. e.cid \in Cids
    BY DEF TypeOK
  <2>2. ending' \in [Conns -> SUBSET [cid : Cids, xa : 0 .. MaxTrx]]
    BY <1>1 DEF EndCompletes, TypeOK
  <2>3. idle' \in [Conns -> SUBSET Cids]
    <3>1. idle' = idle \/ idle' = [idle EXCEPT ![k] = @ \cup {e.cid}]
      BY <1>1, Zenon DEF EndCompletes
    <3>2. idle \in [Conns -> SUBSET Cids] /\ idle[k] \cup {e.cid} \in SUBSET Cids
      BY <2>1 DEF TypeOK
    <3>. QED  BY <3>1, <3>2
  <2>4. alive' \in [Conns -> SUBSET Cids] /\ branch' \in [Conns -> [Trxs -> Branch]]
    BY <1>0, <1>1, ReleasedType DEF EndCompletes, TypeOK
  <2>. QED  BY <1>1, <2>2, <2>3, <2>4 DEF EndCompletes, TypeOK, clientVars, history
<1>2. ASSUME NEW k \in Conns, NEW c \in idle[k], PoolCloses(k, c) PROVE TypeOK'
  BY <1>0, <1>2 DEF PoolCloses, TypeOK, clientVars, history
<1>3. ASSUME NEW k \in Conns, NEW c \in alive[k], ConnectionLost(k, c) PROVE TypeOK'
  <2>1. PreparedBy(k, c) \in SUBSET Trxs
    BY DEF PreparedBy
  <2>. QED
    BY <1>0, <1>3, <2>1, XaAssumption DEF ConnectionLost, Fault, TypeOK, clientVars, poolVars
<1>4. CASE Crash
  <2>1. branch' \in [Conns -> [Trxs -> Branch]]
    <3>1. \A k \in Conns : \A t \in Trxs :
             branch[k][t] \in Branch /\ [branch[k][t] EXCEPT !.st = "aborted"] \in Branch
      BY DEF TypeOK, Branch
    <3>. QED  BY <1>4, <3>1 DEF Crash
  <2>2. harmed' \in SUBSET Trxs
    BY <1>4 DEF Crash, TypeOK
  <2>3. faults' \in 0 .. MaxFaults
    BY <1>4, XaAssumption DEF Crash, Fault, TypeOK
  <2>. QED  BY <1>4, <2>1, <2>2, <2>3, NewTypes DEF Crash, TypeOK
<1>5. ASSUME NEW pc \in {"filter", "sweep"}, NEW xas \in SUBSET Trxs
      PROVE  Remaining(pc, xas) \in Manager
  BY NewTypes DEF Remaining, Manager
<1>6. ASSUME NEW k \in Conns, Recover(k) PROVE TypeOK'
  <2>1. Remaining("filter", Listed(k)) \in Manager
    BY <1>5 DEF Listed
  <2>. QED  BY <1>6, <2>1 DEF Recover, TypeOK, clientVars, poolVars, serverVars, history
<1>7. ASSUME NEW k \in Conns, FilterAlive(k) PROVE TypeOK'
  <2>0. mgr[k].xas \in SUBSET Trxs
    BY DEF TypeOK, Manager
  <2>1. Remaining("sweep", OwnerDead(k, mgr[k].xas)) \in Manager
    BY <1>5, <2>0 DEF OwnerDead
  <2>. QED  BY <1>7, <2>1 DEF FilterAlive, TypeOK, clientVars, poolVars, serverVars, history
<1>8. ASSUME NEW k \in Conns, NEW t \in Trxs, RollbackDangling(k, t) PROVE TypeOK'
  <2>1. mgr[k].xas \ {t} \in SUBSET Trxs
    BY DEF TypeOK, Manager
  <2>2. Remaining("sweep", mgr[k].xas \ {t}) \in Manager
    BY <1>5, <2>1
  <2>3. branch' \in [Conns -> [Trxs -> Branch]]
    BY <1>8, BranchType DEF RollbackDangling, TypeOK
  <2>. QED
    BY <1>8, <2>2, <2>3 DEF RollbackDangling, TypeOK, clientVars, poolVars, history
<1>9. ASSUME NEW k \in Conns, ManagerFails(k) PROVE TypeOK'
  BY <1>9, NewTypes, XaAssumption
  DEF ManagerFails, Fault, TypeOK, clientVars, poolVars, serverVars, history
<1>. QED
  BY <1>1, <1>2, <1>3, <1>4, <1>6, <1>7, <1>8, <1>9 DEF EnvNext, ManagerStep

-----------------------------------------------------------------------------
\* Type correctness: in particular a connection that returns to the pool is
\* one that the MyConn really has, and the commands of XAs name XAs that
\* XaIdGen gave out.
THEOREM XaTypeCorrect == Spec => []TypeOK
<1>1. Init => TypeOK
  BY NewTypes, XaAssumption DEF Init, TypeOK
<1>2. TypeOK /\ [Next]_vars => TypeOK'
  <2>1. TypeOK /\ UNCHANGED vars => TypeOK'
    BY DEF TypeOK, vars, clientVars, poolVars, serverVars, history
  <2>. QED  BY <2>1, SessionTypes, ConnStepTypes, EnvTypes DEF Next
<1>. QED  BY <1>1, <1>2, PTL DEF Spec

-----------------------------------------------------------------------------
(* The inductive invariant of the 2-phase commit.                          *)

\* The transaction t of server k began and was not prepared.
Open(k, t) == branch[k][t].st \in {"active", "aborted"}

\* A MyConn that the session does not have is a new one. A connection that
\* was not used yet, or waits to start a transaction, is in no transaction.
ConnInv ==
    \A k \in Conns :
        /\ k \notin members => conn[k] = NewConn
        /\ conn[k].proto = NoCid \/ conn[k].fresh \/ conn[k].pending # "no"
             => ~conn[k].inTrans /\ ~conn[k].prepared
        /\ conn[k].op = "prepare" => CanPrepare(conn[k])
        /\ conn[k].op = "chain" => HasWork(conn[k])
        /\ conn[k].xa <= lastTrx

\* While the session commits or rolls back, new connections join no XA.
SessInv == sess.xa <= lastTrx /\ (sess.pc # "idle" => sess.xa = NoXa)

\* A command of a connection belongs to what the session awaits.
OpInv ==
    \A k \in Conns :
        /\ conn[k].op = "query" => sess.pc \in {"idle", "hook"}
        /\ conn[k].op = "prepare" => sess.pc = "prepare"
        /\ conn[k].op \in {"commit", "undo"} => sess.pc = "commit"
        /\ conn[k].op \in {"rollback", "chain"} => sess.pc = "rollback"

\* No connection is left out of a phase, unless the phase fails.
PhaseInv ==
    \A k \in Conns :
        /\ sess.pc = "prepare" /\ ~sess.err /\ Unprepared(conn[k]) => conn[k].op = "prepare"
        /\ sess.pc = "commit" /\ ~sess.err /\ conn[k].op = "no"
             => ~conn[k].inTrans /\ ~conn[k].prepared
        /\ sess.pc = "rollback" /\ conn[k].xa # NoXa => conn[k].op \in {"rollback", "chain"}

\* The MyConn knows that it is in the transaction t and must prepare it; or
\* nobody is going to commit t any more.
Holds(k, t) == conn[k].xa = t /\ conn[k].inTrans /\ ~conn[k].prepared

Doomed(t) ==
    /\ t <= lastTrx /\ sess.xa # t
    /\ \A k \in Conns : conn[k].xa = t => sess.pc = "rollback"

OpenInv == \A k \in Conns, t \in Trxs \ left : Open(k, t) => Holds(k, t) \/ Doomed(t)

\* A transaction that is being committed is prepared wherever it began, and
\* begins nowhere else.
Committing(t) == \E k \in Conns :
    branch[k][t].st = "committed" \/ (conn[k].xa = t /\ conn[k].op \in {"commit", "undo"})

CommitInv ==
    \A t \in Trxs \ left : Committing(t) =>
        /\ t <= lastTrx /\ sess.xa # t
        /\ \A k \in Conns : ~Open(k, t) /\ (conn[k].xa = t => conn[k].pending = "no")

XaInv == TypeOK /\ ConnInv /\ SessInv /\ OpInv /\ PhaseInv /\ OpenInv /\ CommitInv

XaCore == ConnInv /\ SessInv /\ OpInv /\ PhaseInv /\ OpenInv /\ CommitInv

\* The fields of a new MyConn.
LEMMA NewFields ==
    /\ NewConn.xa = NoXa /\ NewConn.proto = NoCid /\ NewConn.pending = "no" /\ NewConn.op = "no"
    /\ ~NewConn.prepared /\ ~NewConn.inTrans /\ ~NewConn.fresh
    /\ ~HasWork(NewConn)
BY DEF NewConn, HasWork

\* Reset(), the end of a transaction, and end() of a connection: fields.
LEMMA ResetFields ==
    ASSUME NEW c \in Conn
    PROVE  /\ Reset(c).proto = c.proto /\ Reset(c).fresh = c.fresh /\ Reset(c).inTrans = c.inTrans
           /\ Reset(c).pending = "no" /\ Reset(c).xa = NoXa /\ Reset(c).op = "no" /\ ~Reset(c).prepared
           /\ OutOfTrx(c).proto = c.proto /\ OutOfTrx(c).fresh = c.fresh /\ ~OutOfTrx(c).inTrans
           /\ OutOfTrx(c).pending = "no" /\ OutOfTrx(c).xa = NoXa /\ OutOfTrx(c).op = "no"
           /\ ~OutOfTrx(c).prepared
           /\ Ended(c).proto = NoCid /\ ~Ended(c).fresh /\ ~Ended(c).inTrans
           /\ Ended(c).pending = "no" /\ Ended(c).xa = NoXa /\ Ended(c).op = "no" /\ ~Ended(c).prepared
<1>1. /\ Reset(c).proto = c.proto /\ Reset(c).fresh = c.fresh /\ Reset(c).inTrans = c.inTrans
      /\ Reset(c).pending = "no" /\ Reset(c).xa = NoXa /\ Reset(c).op = "no" /\ ~Reset(c).prepared
  BY DEF Reset, Conn
<1>2. Reset(c) \in Conn
  BY ConnTypes
<1>3. /\ OutOfTrx(c).proto = c.proto /\ OutOfTrx(c).fresh = c.fresh /\ ~OutOfTrx(c).inTrans
      /\ OutOfTrx(c).pending = "no" /\ OutOfTrx(c).xa = NoXa /\ OutOfTrx(c).op = "no"
      /\ ~OutOfTrx(c).prepared
  BY <1>1, <1>2 DEF OutOfTrx, Conn
<1>4. /\ Ended(c).proto = NoCid /\ ~Ended(c).fresh /\ ~Ended(c).inTrans
      /\ Ended(c).pending = "no" /\ Ended(c).xa = NoXa /\ Ended(c).op = "no" /\ ~Ended(c).prepared
  BY <1>1, <1>2 DEF Ended, Conn
<1>. QED  BY <1>1, <1>3, <1>4

\* When all is settled, a doomed transaction has no connections.
LEMMA SettledDoomed ==
    ASSUME TypeOK, XaCore, AllSettled, NEW t \in Trxs, Doomed(t)
    PROVE  \A k \in Conns : conn[k].xa # t
<1> SUFFICES ASSUME NEW k \in Conns, conn[k].xa = t PROVE FALSE
  OBVIOUS
<1>1. sess.pc = "rollback" /\ conn[k].op = "no"
  BY DEF Doomed, AllSettled
<1>2. conn[k].xa # NoXa
  BY XaAssumption DEF Trxs, NoXa
<1>. QED  BY <1>1, <1>2 DEF XaCore, PhaseInv

\* The prepare phase begins.
LEMMA PrepareBegins ==
    ASSUME TypeOK, XaCore, AllSettled, NEW s \in Sess, s.xa = NoXa, EnterPrepare(s),
           UNCHANGED <<members, lastTrx, branch, left>>
    PROVE  XaCore'
<1>0. \A k \in Conns : conn[k] \in Conn /\ conn[k].op = "no"
  BY DEF TypeOK, AllSettled
<1>1. \A k \in Conns :
        /\ conn'[k].proto = conn[k].proto /\ conn'[k].fresh = conn[k].fresh
        /\ conn'[k].inTrans = conn[k].inTrans /\ conn'[k].prepared = conn[k].prepared
        /\ conn'[k].pending = conn[k].pending /\ conn'[k].xa = conn[k].xa
        /\ conn'[k].op = IF k \in members /\ CanPrepare(conn[k]) THEN "prepare" ELSE "no"
        /\ k \notin members => conn'[k] = conn[k]
  BY <1>0 DEF EnterPrepare, Conn
<1>2. sess'.pc = "prepare" /\ sess'.xa = NoXa
  BY DEF EnterPrepare, Sess
<1>3. ConnInv'
  BY <1>1 DEF XaCore, ConnInv, CanPrepare, HasWork
<1>4. SessInv'
  BY <1>2, XaAssumption DEF SessInv, TypeOK, NoXa
<1>5. OpInv'
  BY <1>1, <1>2 DEF OpInv
<1>6. PhaseInv'
  <2>1. \A k \in Conns : k \notin members => ~Unprepared(conn[k])
    BY DEF XaCore, ConnInv, NewConn, Unprepared, NoXa
  <2>. QED  BY <1>0, <1>1, <1>2, <2>1 DEF PhaseInv, Unprepared, HasWork, CanPrepare, XaCore, ConnInv
<1>7. OpenInv'
  <2> SUFFICES ASSUME NEW k \in Conns, NEW t \in Trxs \ left, Open(k, t)
               PROVE  Holds(k, t)' \/ Doomed(t)'
    BY DEF OpenInv, Open
  <2>1. CASE Holds(k, t)
    BY <1>1, <2>1 DEF Holds
  <2>2. CASE Doomed(t)
    <3>1. \A j \in Conns : conn'[j].xa # t
      BY <1>1, <2>2, SettledDoomed
    <3>. QED  BY <1>2, <2>2, <3>1, XaAssumption DEF Doomed, Trxs, NoXa
  <2>. QED  BY <2>1, <2>2 DEF XaCore, OpenInv
<1>8. CommitInv'
  <2> SUFFICES ASSUME NEW t \in Trxs \ left, Committing(t)'
               PROVE  /\ t <= lastTrx /\ sess'.xa # t
                      /\ \A k \in Conns : ~Open(k, t) /\ (conn'[k].xa = t => conn'[k].pending = "no")
    BY DEF CommitInv, Open
  <2>1. Committing(t)
    BY <1>1 DEF Committing
  <2>. QED  BY <1>1, <1>2, <2>1, XaAssumption DEF XaCore, CommitInv, Trxs, NoXa
<1>. QED  BY <1>3, <1>4, <1>5, <1>6, <1>7, <1>8 DEF XaCore

\* The commit phase begins: nothing is open then.
LEMMA CommitBegins ==
    ASSUME TypeOK, XaCore, AllSettled, sess.pc = "prepare", ~sess.err, EnterCommit(sess),
           UNCHANGED <<members, lastTrx, branch, left>>
    PROVE  XaCore'
<1>0. \A k \in Conns : conn[k] \in Conn /\ conn[k].op = "no"
  BY DEF TypeOK, AllSettled
<1>1. \A k \in Conns : ~Unprepared(conn[k])
  BY <1>0 DEF XaCore, PhaseInv
<1>2. \A k \in Conns : k \notin members => conn[k] = NewConn /\ ~HasWork(conn[k]) /\ conn'[k] = conn[k]
  BY NewFields DEF XaCore, ConnInv, EnterCommit
<1>3. \A k \in Conns :
        /\ conn'[k].proto = conn[k].proto /\ conn'[k].fresh = conn[k].fresh
        /\ conn'[k].inTrans = conn[k].inTrans
        /\ HasWork(conn[k]) => /\ conn'[k].prepared = conn[k].prepared
                               /\ conn'[k].pending = conn[k].pending /\ conn'[k].xa = conn[k].xa
                               /\ conn'[k].op = "commit"
        /\ ~HasWork(conn[k]) => /\ ~conn'[k].prepared
                                /\ conn'[k].pending = "no" /\ conn'[k].xa = NoXa
                                /\ conn'[k].op = "no"
        /\ k \notin members => conn'[k] = conn[k]
  <2> TAKE k \in Conns
  <2>1. CASE k \notin members
    BY <1>2, <2>1, NewFields
  <2>2. CASE k \in members /\ HasWork(conn[k])
    <3>1. conn'[k] = [conn[k] EXCEPT !.op = "commit"]
      BY <1>1, <2>2 DEF EnterCommit
    <3>. QED  BY <1>0, <2>2, <3>1 DEF Conn
  <2>3. CASE k \in members /\ ~HasWork(conn[k])
    <3>1. conn'[k] = Reset(conn[k])
      BY <1>1, <2>3 DEF EnterCommit
    <3>. QED  BY <1>0, <2>3, <3>1, ResetFields
  <2>. QED  BY <2>1, <2>2, <2>3
<1>4. sess'.pc = "commit" /\ sess'.xa = NoXa
  BY DEF EnterCommit, TypeOK, Sess, XaCore, SessInv
<1>5. ConnInv'
  <2> SUFFICES ASSUME NEW k \in Conns
               PROVE  /\ k \notin members => conn'[k] = NewConn
                      /\ conn'[k].proto = NoCid \/ conn'[k].fresh \/ conn'[k].pending # "no"
                           => ~conn'[k].inTrans /\ ~conn'[k].prepared
                      /\ conn'[k].op = "prepare" => CanPrepare(conn'[k])
                      /\ conn'[k].op = "chain" => HasWork(conn'[k])
                      /\ conn'[k].xa <= lastTrx
    BY DEF ConnInv
  <2>1. /\ k \notin members => conn[k] = NewConn
        /\ conn[k].proto = NoCid \/ conn[k].fresh \/ conn[k].pending # "no"
             => ~conn[k].inTrans /\ ~conn[k].prepared
        /\ conn[k].xa <= lastTrx /\ NoXa <= lastTrx
    BY XaAssumption DEF XaCore, ConnInv, TypeOK, NoXa
  <2>2. CASE HasWork(conn[k])
    BY <1>3, <2>1, <2>2
  <2>3. CASE ~HasWork(conn[k])
    BY <1>3, <2>1, <2>3 DEF HasWork
  <2>. QED  BY <2>2, <2>3
<1>6. SessInv'
  BY <1>4, XaAssumption DEF SessInv, TypeOK, NoXa
<1>7. OpInv'
  BY <1>3, <1>4 DEF OpInv
<1>8. PhaseInv'
  BY <1>3, <1>4 DEF PhaseInv, HasWork, XaCore, ConnInv
<1>9. \A t \in Trxs \ left, k, j \in Conns : conn[k].xa = t => ~Open(j, t)
  <2> SUFFICES ASSUME NEW t \in Trxs \ left, NEW k \in Conns, NEW j \in Conns,
                      conn[k].xa = t, Open(j, t)
               PROVE  FALSE
    OBVIOUS
  <2>1. ~Doomed(t)
    BY SettledDoomed
  <2>2. Holds(j, t)
    BY <2>1 DEF XaCore, OpenInv
  <2>3. Unprepared(conn[j])
    BY <2>2, XaAssumption DEF Holds, Unprepared, HasWork, XaCore, ConnInv, Trxs, NoXa
  <2>. QED  BY <1>1, <2>3
<1>10. OpenInv'
  <2> SUFFICES ASSUME NEW k \in Conns, NEW t \in Trxs \ left, Open(k, t)
               PROVE  Doomed(t)'
    BY DEF OpenInv, Open
  <2>1. \A j \in Conns : conn[j].xa # t
    BY <1>9
  <2>2. Doomed(t)
    BY <2>1 DEF XaCore, OpenInv, Holds
  <2>. QED  BY <1>3, <1>4, <2>1, <2>2, XaAssumption DEF Doomed, Trxs, NoXa
<1>11. CommitInv'
  <2> SUFFICES ASSUME NEW t \in Trxs \ left, Committing(t)'
               PROVE  /\ t <= lastTrx /\ sess'.xa # t
                      /\ \A k \in Conns : ~Open(k, t) /\ (conn'[k].xa = t => conn'[k].pending = "no")
    BY DEF CommitInv, Open
  <2>0. t # NoXa
    BY XaAssumption DEF Trxs, NoXa
  <2>1. \A k \in Conns : conn'[k].xa = t => conn'[k].pending = "no"
    BY <1>3, <2>0 DEF HasWork, XaCore, ConnInv
  <2>2. CASE Committing(t)
    BY <1>4, <2>0, <2>1, <2>2 DEF XaCore, CommitInv
  <2>3. ASSUME NEW k \in Conns, conn'[k].xa = t
        PROVE  t <= lastTrx /\ \A j \in Conns : ~Open(j, t)
    <3>1. conn[k].xa = t
      BY <1>3, <2>0, <2>3
    <3>. QED  BY <1>9, <3>1 DEF XaCore, ConnInv
  <2>. QED  BY <1>4, <2>0, <2>1, <2>2, <2>3 DEF Committing
<1>. QED  BY <1>5, <1>6, <1>7, <1>8, <1>10, <1>11 DEF XaCore

\* A rollback begins: from now on nobody commits what is open.
LEMMA RollbackBegins ==
    ASSUME TypeOK, XaCore, AllSettled, NEW s \in Sess, s.xa = NoXa,
           NEW how \in {"rollback", "chain"}, EnterRollback(s, how),
           UNCHANGED <<members, lastTrx, branch, left>>
    PROVE  XaCore'
<1>0. \A k \in Conns : conn[k] \in Conn /\ conn[k].op = "no"
  BY DEF TypeOK, AllSettled
<1>1. \A k \in Conns : k \notin members => conn[k] = NewConn /\ ~HasWork(conn[k]) /\ conn'[k] = conn[k]
  BY NewFields DEF XaCore, ConnInv, EnterRollback
<1>2. \A k \in Conns :
        /\ conn'[k].proto = conn[k].proto /\ conn'[k].fresh = conn[k].fresh
        /\ conn'[k].inTrans = conn[k].inTrans
        /\ HasWork(conn[k]) => /\ conn'[k].prepared = conn[k].prepared
                               /\ conn'[k].pending = conn[k].pending /\ conn'[k].xa = conn[k].xa
                               /\ conn'[k].op = how
        /\ ~HasWork(conn[k]) => /\ ~conn'[k].prepared
                                /\ conn'[k].pending = "no" /\ conn'[k].xa = NoXa
                                /\ conn'[k].op = "no"
        /\ k \notin members => conn'[k] = conn[k]
  <2> TAKE k \in Conns
  <2>1. CASE k \notin members
    BY <1>1, <2>1, NewFields
  <2>2. CASE k \in members /\ HasWork(conn[k])
    <3>1. conn'[k] = [conn[k] EXCEPT !.op = how]
      BY <2>2 DEF EnterRollback
    <3>. QED  BY <1>0, <2>2, <3>1 DEF Conn
  <2>3. CASE k \in members /\ ~HasWork(conn[k])
    <3>1. conn'[k] = Reset(conn[k])
      BY <2>3 DEF EnterRollback
    <3>. QED  BY <1>0, <2>3, <3>1, ResetFields
  <2>. QED  BY <2>1, <2>2, <2>3
<1>3. sess'.pc = "rollback" /\ sess'.xa = NoXa
  BY DEF EnterRollback, Sess
<1>4. ConnInv'
  BY <1>2, XaAssumption DEF XaCore, ConnInv, HasWork, TypeOK, NoXa
<1>5. SessInv'
  BY <1>3, XaAssumption DEF SessInv, TypeOK, NoXa
<1>6. OpInv'
  BY <1>2, <1>3 DEF OpInv
<1>7. PhaseInv'
  BY <1>2, <1>3 DEF PhaseInv
<1>8. OpenInv'
  <2> SUFFICES ASSUME NEW k \in Conns, NEW t \in Trxs \ left, Open(k, t)
               PROVE  Doomed(t)'
    BY DEF OpenInv, Open
  <2>1. t <= lastTrx
    BY DEF XaCore, OpenInv, ConnInv, Holds, Doomed
  <2>. QED  BY <1>3, <2>1, XaAssumption DEF Doomed, Trxs, NoXa
<1>9. CommitInv'
  <2> SUFFICES ASSUME NEW t \in Trxs \ left, Committing(t)'
               PROVE  /\ t <= lastTrx /\ sess'.xa # t
                      /\ \A k \in Conns : ~Open(k, t) /\ (conn'[k].xa = t => conn'[k].pending = "no")
    BY DEF CommitInv, Open
  <2>0. t # NoXa
    BY XaAssumption DEF Trxs, NoXa
  <2>1. Committing(t)
    BY <1>2 DEF Committing
  <2>. QED  BY <1>2, <1>3, <2>0, <2>1 DEF XaCore, CommitInv
<1>. QED  BY <1>4, <1>5, <1>6, <1>7, <1>8, <1>9 DEF XaCore

\* startTrx() gives all the connections a new XA id, or none.
LEMMA TransactionStarts ==
    ASSUME TypeOK, XaCore, AllSettled, NEW s, NEW kind \in {"plain", "xa"}, Started(s, kind),
           \A k \in members : ~conn[k].inTrans /\ ~conn[k].prepared,
           UNCHANGED <<members, branch, left>>
    PROVE  XaCore'
<1> DEFINE xa == IF kind = "xa" THEN lastTrx + 1 ELSE NoXa
<1>0. \A k \in Conns : conn[k] \in Conn /\ conn[k].op = "no"
  BY DEF TypeOK, AllSettled
<1>1. /\ sess' = [NewSess EXCEPT !.on = TRUE, !.xa = xa]
      /\ conn' = [k \in Conns |-> IF k \in members THEN ConnStartTrx(conn[k], xa) ELSE conn[k]]
      /\ lastTrx' = IF kind = "xa" THEN lastTrx + 1 ELSE lastTrx
  BY DEF Started
<1>2. /\ lastTrx \in Nat /\ lastTrx' \in Nat /\ xa \in Nat
      /\ lastTrx <= lastTrx' /\ xa <= lastTrx' /\ (xa = NoXa \/ xa = lastTrx + 1)
  BY <1>1, XaAssumption DEF TypeOK, NoXa
<1> HIDE DEF xa
<1>3. sess'.pc = "idle" /\ sess'.xa = xa
  BY <1>1 DEF NewSess
<1>4. \A k \in Conns :
        /\ conn'[k].proto = conn[k].proto /\ conn'[k].fresh = conn[k].fresh
        /\ conn'[k].inTrans = conn[k].inTrans /\ conn'[k].prepared = conn[k].prepared
        /\ conn'[k].op = "no"
        /\ k \in members => conn'[k].xa = xa /\ conn'[k].pending # "no"
        /\ k \notin members => conn'[k] = conn[k] /\ conn[k] = NewConn
        /\ ~conn[k].inTrans /\ ~conn[k].prepared
  <2> TAKE k \in Conns
  <2>1. CASE k \notin members
    BY <1>1, <2>1, NewFields DEF XaCore, ConnInv
  <2>2. CASE k \in members
    <3>1. conn'[k] = ConnStartTrx(conn[k], xa)
      BY <1>1, <2>2
    <3>2. /\ conn'[k].proto = conn[k].proto /\ conn'[k].fresh = conn[k].fresh
          /\ conn'[k].inTrans = conn[k].inTrans /\ conn'[k].prepared = conn[k].prepared
      BY <1>0, <3>1 DEF ConnStartTrx, Conn
    <3>3. conn'[k].op = "no" /\ conn'[k].xa = xa /\ conn'[k].pending # "no"
      BY <1>0, <3>1 DEF ConnStartTrx, Conn
    <3>. QED  BY <2>2, <3>2, <3>3
  <2>. QED  BY <2>1, <2>2
<1>5. ConnInv'
  <2>1. \A k \in Conns : conn'[k].xa <= lastTrx'
    BY <1>2, <1>4, NewFields DEF NoXa
  <2>. QED  BY <1>4, <2>1 DEF ConnInv
<1>6. SessInv'
  BY <1>2, <1>3 DEF SessInv
<1>7. OpInv'
  BY <1>4 DEF OpInv
<1>8. PhaseInv'
  BY <1>3, <1>4 DEF PhaseInv
<1>9. \A t \in Trxs : t <= lastTrx => t # xa /\ \A k \in Conns : conn'[k].xa # t
  BY <1>2, <1>4, NewFields, XaAssumption DEF Trxs, NoXa
<1>10. OpenInv'
  <2> SUFFICES ASSUME NEW k \in Conns, NEW t \in Trxs \ left, Open(k, t)
               PROVE  Doomed(t)'
    BY DEF OpenInv, Open
  <2>1. Doomed(t)
    BY <1>4 DEF XaCore, OpenInv, Holds
  <2>2. t <= lastTrx /\ t \in Int
    BY <2>1 DEF Doomed, Trxs
  <2>3. t <= lastTrx'
    BY <1>2, <2>2
  <2>. QED  BY <1>3, <1>9, <2>2, <2>3 DEF Doomed
<1>11. CommitInv'
  <2> SUFFICES ASSUME NEW t \in Trxs \ left, Committing(t)'
               PROVE  /\ t <= lastTrx' /\ sess'.xa # t
                      /\ \A k \in Conns : ~Open(k, t) /\ (conn'[k].xa = t => conn'[k].pending = "no")
    BY DEF CommitInv, Open
  <2>1. Committing(t)
    BY <1>4 DEF Committing
  <2>2. t <= lastTrx /\ \A k \in Conns : ~Open(k, t)
    BY <2>1 DEF XaCore, CommitInv
  <2>3. t <= lastTrx'
    BY <1>1, <2>2, XaAssumption DEF TypeOK, Trxs
  <2>. QED  BY <1>3, <1>9, <2>2, <2>3
<1>. QED  BY <1>5, <1>6, <1>7, <1>8, <1>10, <1>11 DEF XaCore

\* commit() begins: onBeforeCommit, or the prepare phase.
LEMMA CommitCalled ==
    ASSUME TypeOK, XaCore, AllSettled, NEW s \in Sess, BeginCommit(s),
           UNCHANGED <<members, lastTrx, branch, left>>
    PROVE  XaCore'
<1> DEFINE s1 == [s EXCEPT !.was = s.xa, !.on = FALSE, !.xa = NoXa]
<1>0. NoXa \in 0 .. MaxTrx
  BY XaAssumption DEF NoXa
<1>1. s1 \in Sess /\ s1.xa = NoXa
  BY <1>0 DEF Sess
<1>2. HasHook => sess' = [s1 EXCEPT !.pc = "hook"] /\ UNCHANGED conn
  BY DEF BeginCommit
<1>3. ~HasHook => EnterPrepare(s1)
  BY DEF BeginCommit
<1> HIDE DEF s1
<1>4. CASE ~HasHook
  BY <1>1, <1>3, <1>4, PrepareBegins
<1>5. CASE HasHook
  <2>1. sess'.pc = "hook" /\ sess'.xa = NoXa /\ UNCHANGED conn
    BY <1>1, <1>2, <1>5 DEF Sess
  <2>2. ConnInv' /\ SessInv'
    BY <2>1, XaAssumption DEF XaCore, ConnInv, SessInv, TypeOK, NoXa
  <2>3. OpInv' /\ PhaseInv'
    BY <2>1 DEF OpInv, PhaseInv, AllSettled
  <2>4. OpenInv'
    <3> SUFFICES ASSUME NEW k \in Conns, NEW t \in Trxs \ left, Open(k, t)
                 PROVE  Holds(k, t)' \/ Doomed(t)'
      BY DEF OpenInv, Open
    <3>1. CASE Holds(k, t)
      BY <2>1, <3>1 DEF Holds
    <3>2. CASE Doomed(t)
      BY <2>1, <3>2, SettledDoomed, XaAssumption DEF Doomed, Trxs, NoXa
    <3>. QED  BY <3>1, <3>2 DEF XaCore, OpenInv
  <2>5. CommitInv'
    BY <2>1, XaAssumption DEF XaCore, CommitInv, Committing, Open, Trxs, NoXa
  <2>. QED  BY <2>2, <2>3, <2>4, <2>5 DEF XaCore
<1>. QED  BY <1>4, <1>5

\* startTrx() begins, outside of a transaction or by a commit of it.
LEMMA StartCalled ==
    ASSUME TypeOK, XaCore, AllSettled, NEW s \in Sess, NEW kind \in {"plain", "xa"},
           BeginStartTrx(s, kind), UNCHANGED <<members, branch, left>>
    PROVE  XaCore'
<1>1. CASE members = {}
  BY <1>1, TransactionStarts DEF BeginStartTrx
<1>2. CASE members # {}
  <2>1. [s EXCEPT !.chain = FALSE, !.start = kind] \in Sess
    BY DEF Sess
  <2>. QED  BY <1>2, <2>1, CommitCalled DEF BeginStartTrx
<1>. QED  BY <1>1, <1>2

\* A commit or a rollback ends, and the session is idle.
LEMMA OperationEnds ==
    ASSUME TypeOK, XaCore, AllSettled, sess'.pc = "idle", sess'.xa = NoXa,
           UNCHANGED <<members, conn, lastTrx, branch, left>>
    PROVE  XaCore'
<1>1. ConnInv' /\ SessInv'
  BY XaAssumption DEF XaCore, ConnInv, SessInv, TypeOK, NoXa
<1>2. OpInv' /\ PhaseInv'
  BY DEF OpInv, PhaseInv, AllSettled
<1>3. OpenInv'
  <2> SUFFICES ASSUME NEW k \in Conns, NEW t \in Trxs \ left, Open(k, t)
               PROVE  Holds(k, t)' \/ Doomed(t)'
    BY DEF OpenInv, Open
  <2>1. CASE Holds(k, t)
    BY <2>1 DEF Holds
  <2>2. CASE Doomed(t)
    BY <2>2, SettledDoomed, XaAssumption DEF Doomed, Trxs, NoXa
  <2>. QED  BY <2>1, <2>2 DEF XaCore, OpenInv
<1>4. CommitInv'
  BY XaAssumption DEF XaCore, CommitInv, Committing, Open, Trxs, NoXa
<1>. QED  BY <1>1, <1>2, <1>3, <1>4 DEF XaCore

\* What the servers may do without the command that starts a transaction and
\* the one that commits it.
Calm ==
    \A k \in Conns, t \in Trxs :
        /\ Open(k, t)' => Open(k, t)
        /\ branch'[k][t].st = "committed" => branch[k][t].st = "committed"

\* A step of the servers only.
LEMMA ServerSteps ==
    ASSUME TypeOK, XaCore, Calm, UNCHANGED <<clientVars, left>>
    PROVE  XaCore'
<1>1. ConnInv' /\ SessInv' /\ OpInv' /\ PhaseInv'
  BY DEF XaCore, ConnInv, SessInv, OpInv, PhaseInv, clientVars
<1>2. OpenInv'
  BY DEF XaCore, OpenInv, Calm, Holds, Doomed, clientVars
<1>3. CommitInv'
  <2> SUFFICES ASSUME NEW t \in Trxs \ left, Committing(t)'
               PROVE  /\ t <= lastTrx /\ sess.xa # t
                      /\ \A k \in Conns : ~Open(k, t)' /\ (conn[k].xa = t => conn[k].pending = "no")
    BY DEF CommitInv, clientVars
  <2>1. Committing(t)
    BY DEF Committing, Calm, clientVars
  <2>. QED  BY <2>1 DEF XaCore, CommitInv, Calm
<1>. QED  BY <1>1, <1>2, <1>3 DEF XaCore

\* All the connections are given up together with the session.
LEMMA SessionGone ==
    ASSUME TypeOK, XaCore, Calm, sess' = NewSess, members' = {},
           conn' = [k \in Conns |-> NewConn], UNCHANGED <<lastTrx, left>>
    PROVE  XaCore'
<1>0. sess'.pc = "idle" /\ sess'.xa = NoXa /\ \A k \in Conns : conn'[k] = NewConn
  BY DEF NewSess
<1>1. ConnInv' /\ SessInv' /\ OpInv' /\ PhaseInv'
  <2>1. NoXa <= lastTrx'
    BY XaAssumption DEF TypeOK, NoXa
  <2>. QED  BY <1>0, <2>1, NewFields DEF ConnInv, SessInv, OpInv, PhaseInv
<1>2. \A t \in Trxs : t # NoXa
  BY XaAssumption DEF Trxs, NoXa
<1>3. OpenInv'
  <2> SUFFICES ASSUME NEW k \in Conns, NEW t \in Trxs \ left, Open(k, t) PROVE Doomed(t)'
    BY DEF OpenInv, Calm
  <2>1. t <= lastTrx
    BY DEF XaCore, OpenInv, ConnInv, Holds, Doomed
  <2>. QED  BY <1>0, <1>2, <2>1, NewFields DEF Doomed
<1>4. CommitInv'
  <2> SUFFICES ASSUME NEW t \in Trxs \ left, Committing(t)'
               PROVE  /\ t <= lastTrx /\ sess'.xa # t
                      /\ \A k \in Conns : ~Open(k, t)' /\ conn'[k].xa # t
    BY DEF CommitInv
  <2>1. Committing(t)
    BY <1>0, NewFields DEF Committing, Calm
  <2>. QED  BY <1>0, <1>2, <2>1, NewFields DEF XaCore, CommitInv, Calm
<1>. QED  BY <1>1, <1>3, <1>4 DEF XaCore

\* A step of the session preserves the invariant.
LEMMA SessionSteps == TypeOK /\ XaCore /\ SessionNext => XaCore'
<1> SUFFICES ASSUME TypeOK, XaCore, SessionNext PROVE XaCore'
  OBVIOUS
<1>0. sess \in Sess /\ conn \in [Conns -> Conn] /\ lastTrx \in 0 .. MaxTrx
  BY DEF TypeOK
<1>1. Local => UNCHANGED <<members, branch, left>>
  BY DEF Local, serverVars, history
<1>2. sess.pc # "idle" => sess.xa = NoXa
  BY DEF XaCore, SessInv
<1>3. ASSUME AllSettled, sess.pc # "idle", RollbackInCommit, UNCHANGED <<members, lastTrx, branch, left>>
      PROVE  XaCore'
  <2>1. [sess EXCEPT !.failing = TRUE] \in Sess /\ [sess EXCEPT !.failing = TRUE].xa = NoXa
    BY <1>0, <1>2, <1>3 DEF Sess
  <2>. QED  BY <1>3, <2>1, RollbackBegins DEF RollbackInCommit
<1>4. ASSUME NEW k \in Conns, SessionConn(k) PROVE XaCore'
  <2>1. /\ conn[k] = NewConn /\ conn[k] \in Conn
        /\ members' = members \cup {k}
        /\ UNCHANGED <<sess, lastTrx, branch, left>>
    BY <1>0, <1>4 DEF SessionConn, XaCore, ConnInv, serverVars, history
  <2>2. conn' = [conn EXCEPT ![k] = IF sess.on THEN ConnStartTrx(conn[k], sess.xa) ELSE conn[k]]
    BY <1>4 DEF SessionConn
  <2>3. /\ conn'[k].proto = NoCid /\ ~conn'[k].fresh
        /\ ~conn'[k].inTrans /\ ~conn'[k].prepared /\ conn'[k].op = "no"
        /\ conn'[k].xa = NoXa \/ conn'[k].xa = sess.xa
    <3>1. CASE sess.on
      <4>1. conn'[k] = ConnStartTrx(conn[k], sess.xa)
        BY <1>0, <2>2, <3>1
      <4>2. conn'[k].proto = NoCid /\ conn'[k].op = "no" /\ conn'[k].xa = sess.xa
        BY <2>1, <4>1, NewFields DEF ConnStartTrx, Conn
      <4>3. ~conn'[k].fresh /\ ~conn'[k].inTrans /\ ~conn'[k].prepared
        BY <2>1, <4>1, NewFields DEF ConnStartTrx, Conn
      <4>. QED  BY <4>2, <4>3
    <3>2. CASE ~sess.on
      BY <1>0, <2>1, <2>2, <3>2, NewFields
    <3>. QED  BY <3>1, <3>2
  <2>4. \A j \in Conns : j # k => conn'[j] = conn[j]
    BY <1>0, <2>2
  <2>5. ConnInv'
    <3>1. conn'[k].xa <= lastTrx
      BY <1>0, <2>3, XaAssumption DEF XaCore, SessInv, NoXa
    <3>. QED  BY <2>1, <2>3, <2>4, <3>1 DEF XaCore, ConnInv
  <2>6. SessInv' /\ OpInv'
    BY <2>1, <2>3, <2>4 DEF XaCore, SessInv, OpInv
  <2>7. PhaseInv'
    BY <1>2, <2>1, <2>3, <2>4 DEF XaCore, PhaseInv, Unprepared, HasWork
  <2>8. OpenInv'
    <3> SUFFICES ASSUME NEW j \in Conns, NEW t \in Trxs \ left, Open(j, t)
                 PROVE  Holds(j, t)' \/ Doomed(t)'
      BY <2>1 DEF OpenInv, Open
    <3>0. t # NoXa
      BY XaAssumption DEF Trxs, NoXa
    <3>1. CASE Holds(j, t)
      BY <2>1, <2>4, <3>1, NewFields DEF Holds
    <3>2. CASE Doomed(t)
      BY <2>1, <2>3, <2>4, <3>0, <3>2 DEF Doomed
    <3>. QED  BY <3>1, <3>2 DEF XaCore, OpenInv
  <2>9. CommitInv'
    <3> SUFFICES ASSUME NEW t \in Trxs \ left, Committing(t)'
                 PROVE  /\ t <= lastTrx /\ sess.xa # t
                        /\ \A j \in Conns : ~Open(j, t) /\ (conn'[j].xa = t => conn'[j].pending = "no")
      BY <2>1 DEF CommitInv, Open
    <3>0. t # NoXa
      BY XaAssumption DEF Trxs, NoXa
    <3>1. Committing(t)
      BY <2>1, <2>3, <2>4 DEF Committing
    <3>. QED  BY <2>3, <2>4, <3>0, <3>1 DEF XaCore, CommitInv
  <2>. QED  BY <2>5, <2>6, <2>7, <2>8, <2>9 DEF XaCore
<1>5. ASSUME NEW kind \in {"plain", "xa"}, StartTrx(kind) PROVE XaCore'
  BY <1>0, <1>1, <1>5, StartCalled DEF StartTrx
<1>6. ASSUME NEW b \in BOOLEAN, Commit(b) PROVE XaCore'
  <2>1. [sess EXCEPT !.chain = b] \in Sess
    BY <1>0 DEF Sess
  <2>2. NewSess.pc = "idle" /\ NewSess.xa = NoXa
    BY DEF NewSess
  <2>. QED  BY <1>1, <1>6, <2>1, <2>2, CommitCalled, OperationEnds DEF Commit
<1>7. ASSUME NEW b \in BOOLEAN, Rollback(b) PROVE XaCore'
  <2>0. NoXa \in 0 .. MaxTrx
    BY XaAssumption DEF NoXa
  <2> DEFINE s == [sess EXCEPT !.on = FALSE, !.xa = NoXa, !.restart = b]
  <2>1. s \in Sess /\ s.xa = NoXa
    BY <1>0, <2>0 DEF Sess
  <2>2. AllSettled /\ UNCHANGED <<members, lastTrx, branch, left>>
    BY <1>1, <1>7 DEF Rollback
  <2>3. (sess.xa = NoXa /\ EnterRollback(sess, "chain")) \/ EnterRollback(s, "rollback")
    BY <1>7 DEF Rollback
  <2> HIDE DEF s
  <2>. QED  BY <1>0, <2>1, <2>2, <2>3, RollbackBegins
<1>8. CASE HookReturns
  BY <1>0, <1>1, <1>2, <1>8, PrepareBegins DEF HookReturns
<1>9. CASE HookThrows
  BY <1>1, <1>3, <1>9 DEF HookThrows
<1>10. CASE PrepareEnds
  BY <1>1, <1>3, <1>10, CommitBegins DEF PrepareEnds
<1>11. Finished(sess).pc = "idle" /\ Finished(sess).xa = sess.xa
  BY DEF Finished, NewSess
<1>12. CASE CommitEnds
  <2>1. AllSettled /\ sess.pc = "commit" /\ UNCHANGED <<members, branch, left>>
    BY <1>1, <1>12 DEF CommitEnds
  <2>2. CASE sess' = Finished(sess) /\ UNCHANGED <<conn, lastTrx>>
    BY <1>2, <1>11, <2>1, <2>2, OperationEnds
  <2>3. CASE BeginStartTrx(sess, IF sess.was # NoXa THEN "xa" ELSE "plain")
    <3>1. (IF sess.was # NoXa THEN "xa" ELSE "plain") \in {"plain", "xa"}
      OBVIOUS
    <3>. QED  BY <1>0, <2>1, <2>3, <3>1, StartCalled
  <2>4. CASE ~sess.err /\ sess.start # "no" /\ Started(sess, sess.start)
    <3>1. \A k \in members : ~conn[k].inTrans /\ ~conn[k].prepared
      BY <2>1, <2>4 DEF XaCore, PhaseInv, AllSettled, TypeOK
    <3>2. sess.start \in {"plain", "xa"}
      BY <1>0, <2>4 DEF Sess
    <3>. QED  BY <2>1, <2>4, <3>1, <3>2, TransactionStarts
  <2>. QED  BY <1>12, <2>2, <2>3, <2>4 DEF CommitEnds
<1>13. CASE RollbackEnds
  <2>1. AllSettled /\ sess.pc = "rollback" /\ UNCHANGED <<members, branch, left>>
    BY <1>1, <1>13 DEF RollbackEnds
  <2>2. CASE sess' = Finished(sess) /\ UNCHANGED <<conn, lastTrx>>
    BY <1>2, <1>11, <2>1, <2>2, OperationEnds
  <2>3. CASE BeginStartTrx([sess EXCEPT !.restart = FALSE], "xa")
    <3>1. [sess EXCEPT !.restart = FALSE] \in Sess
      BY <1>0 DEF Sess
    <3>. QED  BY <2>1, <2>3, <3>1, StartCalled
  <2>. QED  BY <1>13, <2>2, <2>3 DEF RollbackEnds
<1>14. CASE DisposeSession
  <2>1. Calm
    BY <1>14 DEF DisposeSession, Calm, Open, serverVars
  <2>. QED  BY <1>14, <2>1, SessionGone DEF DisposeSession, history
<1>. QED
  BY <1>4, <1>5, <1>6, <1>7, <1>8, <1>9, <1>10, <1>12, <1>13, <1>14 DEF SessionNext

\* What a step of the connection k leaves alone, and how its XA may change.
ConnFrame(k) ==
    /\ \A j \in Conns \ {k} : conn'[j] = conn[j]
    /\ UNCHANGED <<members, lastTrx>> /\ left \subseteq left'
    /\ sess'.pc = sess.pc /\ sess'.xa = sess.xa /\ (sess.err => sess'.err)
    /\ conn'[k].xa \in {NoXa, conn[k].xa}
    /\ conn'[k].pending # "no" /\ conn'[k].xa # NoXa => conn[k].pending # "no"

\* The parts of the invariant that are about the connection k alone.
LocalInv(k) ==
    /\ conn[k].proto = NoCid \/ conn[k].fresh \/ conn[k].pending # "no"
         => ~conn[k].inTrans /\ ~conn[k].prepared
    /\ conn[k].op = "prepare" => CanPrepare(conn[k])
    /\ conn[k].op = "chain" => HasWork(conn[k])

LocalPhase(k) ==
    /\ conn[k].op = "query" => sess.pc \in {"idle", "hook"}
    /\ conn[k].op = "prepare" => sess.pc = "prepare"
    /\ conn[k].op \in {"commit", "undo"} => sess.pc = "commit"
    /\ conn[k].op \in {"rollback", "chain"} => sess.pc = "rollback"
    /\ sess.pc = "prepare" /\ ~sess.err /\ Unprepared(conn[k]) => conn[k].op = "prepare"
    /\ sess.pc = "commit" /\ ~sess.err /\ conn[k].op = "no"
         => ~conn[k].inTrans /\ ~conn[k].prepared
    /\ sess.pc = "rollback" /\ conn[k].xa # NoXa => conn[k].op \in {"rollback", "chain"}

\* How a step of the connection k may change the servers.
ServerFrame(k) ==
    /\ \A j \in Conns, t \in Trxs \ left' :
          Open(j, t)' => Open(j, t) \/ (j = k /\ Holds(k, t)' /\ conn[k].pending # "no")
    /\ \A t \in Trxs \ left' : Committing(t)' => Committing(t)
    /\ \A t \in Trxs \ left' : Holds(k, t) /\ Open(k, t)' => Holds(k, t)' \/ sess.pc = "rollback"

\* A step of a connection within this frame preserves the invariant.
LEMMA ConnPreserves ==
    ASSUME TypeOK, XaCore, NEW k \in Conns, k \in members,
           ConnFrame(k), LocalInv(k)', LocalPhase(k)', ServerFrame(k)
    PROVE  XaCore'
<1>0. \A t \in Trxs : t # NoXa
  BY XaAssumption DEF Trxs, NoXa
<1>1. ConnInv'
  <2>1. conn'[k].xa <= lastTrx
    BY XaAssumption DEF ConnFrame, XaCore, ConnInv, TypeOK, NoXa
  <2>2. \A j \in Conns : j # k => conn'[j] = conn[j]
    BY DEF ConnFrame
  <2>3. UNCHANGED <<members, lastTrx>>
    BY DEF ConnFrame
  <2>. QED  BY <2>1, <2>2, <2>3 DEF LocalInv, XaCore, ConnInv
<1>2. SessInv'
  BY DEF ConnFrame, XaCore, SessInv
<1>3. OpInv'
  BY DEF ConnFrame, LocalPhase, XaCore, OpInv
<1>4. PhaseInv'
  BY DEF ConnFrame, LocalPhase, XaCore, PhaseInv
<1>5. OpenInv'
  <2> SUFFICES ASSUME NEW j \in Conns, NEW t \in Trxs \ left', Open(j, t)'
               PROVE  Holds(j, t)' \/ Doomed(t)'
    BY DEF OpenInv
  <2>1. CASE j = k /\ Holds(k, t)'
    BY <2>1
  <2>2. CASE Open(j, t) /\ Doomed(t)
    BY <1>0, <2>2 DEF Doomed, ConnFrame
  <2>3. CASE Open(j, t) /\ Holds(j, t)
    <3>1. CASE j # k
      BY <2>3, <3>1 DEF Holds, ConnFrame
    <3>2. CASE j = k /\ sess.pc = "rollback"
      <4>1. t <= lastTrx /\ sess.xa # t
        BY <1>0, <2>3, <3>2 DEF Holds, XaCore, ConnInv, SessInv
      <4>. QED  BY <3>2, <4>1 DEF Doomed, ConnFrame
    <3>. QED  BY <2>3, <3>1, <3>2 DEF ServerFrame
  <2>4. t \in Trxs \ left
    BY DEF ConnFrame
  <2>. QED  BY <2>1, <2>2, <2>3, <2>4 DEF ServerFrame, XaCore, OpenInv
<1>6. CommitInv'
  <2> SUFFICES ASSUME NEW t \in Trxs \ left', Committing(t)'
               PROVE  /\ t <= lastTrx' /\ sess'.xa # t
                      /\ \A j \in Conns : ~Open(j, t)' /\ (conn'[j].xa = t => conn'[j].pending = "no")
    BY DEF CommitInv
  <2>1. t \in Trxs \ left /\ Committing(t)
    BY DEF ConnFrame, ServerFrame
  <2>2. /\ t <= lastTrx /\ sess.xa # t
        /\ \A j \in Conns : ~Open(j, t) /\ (conn[j].xa = t => conn[j].pending = "no")
    BY <2>1 DEF XaCore, CommitInv
  <2>3. ASSUME NEW j \in Conns PROVE conn'[j].xa = t => conn'[j].pending = "no"
    BY <1>0, <2>2 DEF ConnFrame
  <2>4. ASSUME NEW j \in Conns, Open(j, t)' PROVE FALSE
    <3>1. j = k /\ Holds(k, t)' /\ conn[k].pending # "no"
      BY <2>2, <2>4 DEF ServerFrame
    <3>2. conn[k].xa = t
      BY <1>0, <3>1 DEF Holds, ConnFrame
    <3>. QED  BY <2>2, <3>1, <3>2
  <2>. QED  BY <2>2, <2>3, <2>4 DEF ConnFrame
<1>. QED  BY <1>1, <1>2, <1>3, <1>4, <1>5, <1>6 DEF XaCore

\* The end of a thread only makes active transactions aborted.
LEMMA ReleasedStates ==
    ASSUME NEW bs \in [Conns -> [Trxs -> Branch]], NEW k \in Conns, NEW c,
           NEW j \in Conns, NEW t \in Trxs
    PROVE  \/ Released(bs, k, c)[j][t].st = bs[j][t].st
           \/ bs[j][t].st = "active" /\ Released(bs, k, c)[j][t].st = "aborted"
<1>0. bs[j][t] \in Branch /\ bs[k][t] \in Branch
  OBVIOUS
<1>1. CASE j # k
  BY <1>1 DEF Released
<1>2. CASE j = k
  <2>1. Released(bs, k, c)[k][t] =
           IF bs[k][t].by = c /\ bs[k][t].st = "active"
           THEN [bs[k][t] EXCEPT !.st = "aborted"] ELSE bs[k][t]
    BY DEF Released
  <2>2. [bs[k][t] EXCEPT !.st = "aborted"].st = "aborted"
    BY <1>0 DEF Branch
  <2>. QED  BY <1>2, <2>1, <2>2
<1>. QED  BY <1>1, <1>2

\* A step that only ends a thread opens and commits nothing.
LEMMA ThreadEndsCalm ==
    ASSUME TypeOK, NEW k \in Conns, NEW c, branch' = Released(branch, k, c)
    PROVE  Calm
<1>0. branch \in [Conns -> [Trxs -> Branch]]
  BY DEF TypeOK
<1> SUFFICES ASSUME NEW j \in Conns, NEW t \in Trxs
             PROVE  /\ Open(j, t)' => Open(j, t)
                    /\ branch'[j][t].st = "committed" => branch[j][t].st = "committed"
  BY DEF Calm
<1>1. \/ branch'[j][t].st = branch[j][t].st
      \/ branch[j][t].st = "active" /\ branch'[j][t].st = "aborted"
  BY <1>0, ReleasedStates
<1>. QED  BY <1>1 DEF Open

\* A command that is executed takes the XA of its connection from one state to
\* another, and no other.
LEMMA ExecutedStates ==
    ASSUME TypeOK, NEW k \in Conns, NEW from,
           NEW to \in {"aborted", "prepared", "committed", "undone"}, Accepts(k, from),
           NEW j \in Conns, NEW t \in Trxs
    PROVE  \/ Executed(k, to)[j][t].st = branch[j][t].st
           \/ /\ j = k /\ conn[k].xa = t
              /\ branch[j][t].st = from /\ Executed(k, to)[j][t].st = to
<1>0. branch \in [Conns -> [Trxs -> Branch]]
  BY DEF TypeOK
<1> DEFINE ex == Executed(k, to)
<1> SUFFICES \/ ex[j][t].st = branch[j][t].st
             \/ j = k /\ conn[k].xa = t /\ branch[j][t].st = from /\ ex[j][t].st = to
  OBVIOUS
<1>1. CASE conn[k].xa = NoXa
  BY <1>1 DEF Executed
<1>2. CASE conn[k].xa # NoXa
  <2>1. ex = [branch EXCEPT ![k][conn[k].xa].st = to]
    BY <1>2 DEF Executed
  <2>2. conn[k].xa \in Trxs /\ branch[k][conn[k].xa].st = from
    BY <1>2, XaAssumption DEF Accepts, TypeOK, Conn, Trxs, NoXa
  <2> HIDE DEF ex
  <2>3. CASE j = k /\ conn[k].xa = t
    <3>1. ex[j][t] = [branch[j][t] EXCEPT !.st = to]
      BY <1>0, <2>1, <2>2, <2>3
    <3>2. branch[j][t] \in Branch
      BY <1>0
    <3>3. ex[j][t].st = to
      BY <3>1, <3>2 DEF Branch
    <3>. QED  BY <2>2, <2>3, <3>3
  <2>4. CASE ~(j = k /\ conn[k].xa = t)
    <3>1. ex[j][t] = branch[j][t]
      BY <1>0, <2>1, <2>2, <2>4
    <3>. QED  BY <3>1
  <2>. QED  BY <2>3, <2>4
<1>. QED  BY <1>1, <1>2

\* What the server does with a command, whether the reply comes or not.
LEMMA CommandStates ==
    ASSUME TypeOK, NEW k \in Conns,
           NEW from \in {"active", "prepared"},
           NEW to \in {"aborted", "prepared", "committed", "undone"},
           to = "aborted" => from = "active",
           Answered(k, from, to) \/ Failed(k, from, to)
    PROVE  \A j \in Conns, t \in Trxs :
              /\ Open(j, t)' => Open(j, t)
              /\ branch'[j][t].st = "committed"
                   => \/ branch[j][t].st = "committed"
                      \/ to = "committed" /\ j = k /\ conn[k].xa = t
              /\ branch'[j][t].st # "none" => branch[j][t].st # "none"
              /\ branch[j][t].st = "committed" => branch'[j][t].st = "committed"
<1> SUFFICES ASSUME NEW j \in Conns, NEW t \in Trxs
             PROVE  /\ Open(j, t)' => Open(j, t)
                    /\ branch'[j][t].st = "committed"
                         => \/ branch[j][t].st = "committed"
                            \/ to = "committed" /\ j = k /\ conn[k].xa = t
                    /\ branch'[j][t].st # "none" => branch[j][t].st # "none"
                    /\ branch[j][t].st = "committed" => branch'[j][t].st = "committed"
  OBVIOUS
<1> DEFINE ex == Executed(k, to)
<1>1. ex \in [Conns -> [Trxs -> Branch]]
  BY ExecutedType DEF TypeOK
<1>2. ASSUME Accepts(k, from)
      PROVE  \/ ex[j][t].st = branch[j][t].st
             \/ j = k /\ conn[k].xa = t /\ branch[j][t].st = from /\ ex[j][t].st = to
  BY <1>2, ExecutedStates
<1> HIDE DEF ex
<1>3. CASE UNCHANGED branch
  BY <1>3 DEF Open
<1>4. CASE Accepts(k, from) /\ branch' = ex
  BY <1>2, <1>4 DEF Open
<1>5. CASE Accepts(k, from) /\ branch' = Released(ex, k, conn[k].proto)
  <2>1. \/ branch'[j][t].st = ex[j][t].st
        \/ ex[j][t].st = "active" /\ branch'[j][t].st = "aborted"
    BY <1>1, <1>5, ReleasedStates
  <2>. QED  BY <1>2, <1>5, <2>1 DEF Open
<1>. QED  BY <1>3, <1>4, <1>5 DEF Answered, Failed, ThreadEnds, ex

\* An answered command has been executed.
LEMMA AnsweredState ==
    ASSUME TypeOK, NEW k \in Conns, NEW from,
           NEW to \in {"aborted", "prepared", "committed", "undone"},
           Answered(k, from, to), conn[k].xa # NoXa
    PROVE  branch'[k][conn[k].xa].st = to
<1>0. branch \in [Conns -> [Trxs -> Branch]]
  BY DEF TypeOK
<1>1. conn[k].xa \in Trxs
  BY XaAssumption DEF TypeOK, Conn, Trxs, NoXa
<1>2. branch' = [branch EXCEPT ![k][conn[k].xa].st = to]
  BY DEF Answered, Executed
<1>3. branch'[k][conn[k].xa] = [branch[k][conn[k].xa] EXCEPT !.st = to]
  BY <1>0, <1>1, <1>2
<1>4. branch[k][conn[k].xa] \in Branch
  BY <1>0, <1>1
<1>. QED  BY <1>3, <1>4 DEF Branch

\* The fields of a MyConn whose XA id is completed.
LEMMA CompletedFields ==
    ASSUME NEW c \in Conn
    PROVE  /\ IdCompleted(c).proto = c.proto /\ ~IdCompleted(c).fresh
           /\ IdCompleted(c).inTrans = c.inTrans /\ IdCompleted(c).prepared = c.prepared
           /\ IdCompleted(c).pending = c.pending /\ IdCompleted(c).xa = c.xa
           /\ IdCompleted(c).op = c.op
BY DEF IdCompleted, Conn

\* A step of a connection that neither commits nor forgets an open XA is
\* within the frame.
LEMMA WithinServerFrame ==
    ASSUME NEW k \in Conns, ConnFrame(k),
           conn'[k].op \in {"commit", "undo"} => conn[k].op = "commit" /\ conn'[k].xa = conn[k].xa,
           \A j \in Conns, t \in Trxs :
              /\ Open(j, t)' => Open(j, t) \/ (j = k /\ Holds(k, t)' /\ conn[k].pending # "no")
              /\ branch'[j][t].st = "committed"
                   => branch[j][t].st = "committed" \/ (j = k /\ conn[k].xa = t /\ conn[k].op = "commit"),
           \A t \in Trxs \ left' :
              Holds(k, t) /\ Open(k, t)' => Holds(k, t)' \/ sess.pc = "rollback"
    PROVE  ServerFrame(k)
<1>1. ASSUME NEW t \in Trxs \ left', Committing(t)' PROVE Committing(t)
  BY <1>1 DEF Committing, ConnFrame
<1>. QED  BY <1>1 DEF ServerFrame

\* A step of a connection preserves the invariant.
LEMMA ConnSteps == TypeOK /\ XaCore /\ ConnNext => XaCore'
<1> SUFFICES ASSUME TypeOK, XaCore, NEW k \in Conns,
                    \/ Query(k) \/ QueryConnects(k) \/ QueryRuns(k) \/ QueryRefused(k) \/ QueryDead(k)
                    \/ PrepareCommit(k) \/ ConnCommit(k) \/ UndoCommit(k)
                    \/ ConnRollback(k) \/ ConnRollbackChain(k)
                    \/ End(k)
             PROVE  XaCore'
  BY DEF ConnNext
<1>0. conn[k] \in Conn /\ sess \in Sess /\ conn \in [Conns -> Conn]
  BY DEF TypeOK
<1>1. LocalInv(k) /\ LocalPhase(k)
  BY DEF XaCore, ConnInv, OpInv, PhaseInv, LocalInv, LocalPhase
<1>2. conn[k].op # "no" => k \in members
  BY NewFields DEF XaCore, ConnInv
<1>3. UNCHANGED branch =>
        \A j \in Conns, t \in Trxs :
           /\ Open(j, t)' => Open(j, t)
           /\ branch'[j][t].st = "committed" => branch[j][t].st = "committed"
  BY DEF Open
<1>4. \A t \in Trxs : t # NoXa
  BY XaAssumption DEF Trxs, NoXa
<1>5. ASSUME NEW c \in Conn, conn' = [conn EXCEPT ![k] = c], k \in members,
             UNCHANGED <<members, lastTrx, left>>,
             sess' = sess \/ sess' = [sess EXCEPT !.err = TRUE],
             c.xa \in {NoXa, conn[k].xa},
             c.pending # "no" /\ c.xa # NoXa => conn[k].pending # "no"
      PROVE  /\ ConnFrame(k) /\ conn'[k] = c /\ sess'.pc = sess.pc
             /\ sess' = [sess EXCEPT !.err = TRUE] => sess'.err
  <2>1. sess'.pc = sess.pc /\ sess'.xa = sess.xa /\ (sess.err => sess'.err)
    BY <1>0, <1>5 DEF Sess
  <2>2. sess' = [sess EXCEPT !.err = TRUE] => sess'.err
    BY <1>0 DEF Sess
  <2>. QED  BY <1>0, <1>5, <2>1, <2>2 DEF ConnFrame
<1>6. CASE Query(k)
  <2> DEFINE c == [conn[k] EXCEPT !.op = "query"]
  <2>1. c \in Conn /\ c.op = "query" /\ c.xa = conn[k].xa /\ c.pending = conn[k].pending
    BY <1>0 DEF Conn
  <2>2. /\ c.inTrans = conn[k].inTrans /\ c.prepared = conn[k].prepared
        /\ c.proto = conn[k].proto /\ c.fresh = conn[k].fresh
    BY <1>0 DEF Conn
  <2>3. /\ conn' = [conn EXCEPT ![k] = c] /\ k \in members /\ sess' = sess
        /\ sess.pc \in {"idle", "hook"}
        /\ UNCHANGED <<members, lastTrx, left, branch>>
    BY <1>6 DEF Query, serverVars, history
  <2> HIDE DEF c
  <2>4. ConnFrame(k) /\ conn'[k] = c
    BY <1>5, <2>1, <2>3
  <2>5. LocalInv(k)' /\ LocalPhase(k)'
    BY <1>1, <2>1, <2>2, <2>3, <2>4 DEF LocalInv, LocalPhase
  <2>6. \A t \in Trxs : Holds(k, t) => Holds(k, t)'
    BY <2>1, <2>2, <2>4 DEF Holds
  <2>7. ServerFrame(k)
    BY <1>3, <2>1, <2>3, <2>4, <2>6, WithinServerFrame
  <2>. QED  BY <2>3, <2>4, <2>5, <2>7, ConnPreserves
<1>7. CASE QueryConnects(k)
  <2>1. /\ k \in members /\ sess' = sess /\ conn[k].op = "query" /\ conn[k].proto = NoCid
        /\ ~conn[k].inTrans /\ ~conn[k].prepared
        /\ UNCHANGED <<members, lastTrx, left, branch>>
    BY <1>1, <1>2, <1>7 DEF QueryConnects, LocalInv, history
  <2>2. ASSUME NEW c \in Conn, conn' = [conn EXCEPT ![k] = c],
               c.op \in {"query", "no"}, c.xa = conn[k].xa, c.pending = conn[k].pending,
               ~c.inTrans, ~c.prepared
        PROVE  XaCore'
    <3>1. ConnFrame(k) /\ conn'[k] = c
      BY <1>5, <2>1, <2>2
    <3>2. LocalInv(k)' /\ LocalPhase(k)'
      BY <1>1, <2>1, <2>2, <3>1 DEF LocalInv, LocalPhase, Unprepared, HasWork
    <3>3. \A t \in Trxs : ~Holds(k, t)
      BY <2>1 DEF Holds
    <3>4. ServerFrame(k)
      BY <1>3, <2>1, <2>2, <3>1, <3>3, WithinServerFrame
    <3>. QED  BY <2>1, <3>1, <3>2, <3>4, ConnPreserves
  <2>3. ASSUME NEW c \in 0 .. MaxCid, conn' = [conn EXCEPT ![k] = [conn[k] EXCEPT !.proto = c, !.fresh = TRUE]]
        PROVE  XaCore'
    <3> DEFINE d == [conn[k] EXCEPT !.proto = c, !.fresh = TRUE]
    <3>1. d \in Conn /\ d.op = "query" /\ d.xa = conn[k].xa /\ d.pending = conn[k].pending
      BY <1>0, <2>1 DEF Conn
    <3>2. ~d.inTrans /\ ~d.prepared
      BY <1>0, <2>1 DEF Conn
    <3> HIDE DEF d
    <3>. QED  BY <2>2, <2>3, <3>1, <3>2 DEF d
  <2>4. ASSUME NEW c \in 0 .. MaxCid, conn' = [conn EXCEPT ![k] = [conn[k] EXCEPT !.proto = c]]
        PROVE  XaCore'
    <3> DEFINE d == [conn[k] EXCEPT !.proto = c]
    <3>1. d \in Conn /\ d.op = "query" /\ d.xa = conn[k].xa /\ d.pending = conn[k].pending
      BY <1>0, <2>1 DEF Conn
    <3>2. ~d.inTrans /\ ~d.prepared
      BY <1>0, <2>1 DEF Conn
    <3> HIDE DEF d
    <3>. QED  BY <2>2, <2>4, <3>1, <3>2 DEF d
  <2>5. ASSUME conn' = [conn EXCEPT ![k] = [conn[k] EXCEPT !.op = "no"]]
        PROVE  XaCore'
    <3> DEFINE d == [conn[k] EXCEPT !.op = "no"]
    <3>1. d \in Conn /\ d.op = "no" /\ d.xa = conn[k].xa /\ d.pending = conn[k].pending
      BY <1>0, <2>1 DEF Conn
    <3>2. ~d.inTrans /\ ~d.prepared
      BY <1>0, <2>1 DEF Conn
    <3> HIDE DEF d
    <3>. QED  BY <2>2, <2>5, <3>1, <3>2 DEF d
  <2>6. ASSUME NEW c \in idle[k], conn' = [conn EXCEPT ![k].proto = c, ![k].fresh = TRUE]
        PROVE  XaCore'
    <3>1. c \in 0 .. MaxCid
      BY XaAssumption DEF TypeOK, Cids
    <3>2. conn' = [conn EXCEPT ![k] = [conn[k] EXCEPT !.proto = c, !.fresh = TRUE]]
      BY <1>0, <2>6
    <3>. QED  BY <2>3, <3>1, <3>2
  <2>7. ASSUME nextCid[k] <= MaxCid, conn' = [conn EXCEPT ![k].proto = nextCid[k]]
        PROVE  XaCore'
    <3>1. nextCid[k] \in 0 .. MaxCid
      BY <2>7, XaAssumption DEF TypeOK
    <3>. QED  BY <2>4, <2>7, <3>1
  <2>. QED  BY <1>7, <2>5, <2>6, <2>7 DEF QueryConnects
<1>8. ASSUME NEW c \in Conn, conn' = [conn EXCEPT ![k] = c], k \in members,
             UNCHANGED <<sess, members, lastTrx, left, branch>>,
             conn[k].op = "query", c.op = "no", c.proto = conn[k].proto, ~c.fresh,
             c.inTrans = conn[k].inTrans, c.prepared = conn[k].prepared,
             c.pending = conn[k].pending, c.xa = conn[k].xa
      PROVE  XaCore'
  <2>1. ConnFrame(k) /\ conn'[k] = c
    BY <1>5, <1>8
  <2>2. LocalInv(k)' /\ LocalPhase(k)'
    BY <1>1, <1>8, <2>1 DEF LocalInv, LocalPhase
  <2>3. \A t \in Trxs : Holds(k, t) => Holds(k, t)'
    BY <1>8, <2>1 DEF Holds
  <2>4. ServerFrame(k)
    BY <1>3, <1>8, <2>1, <2>3, WithinServerFrame
  <2>. QED  BY <1>8, <2>1, <2>2, <2>4, ConnPreserves
<1>9. /\ [IdCompleted(conn[k]) EXCEPT !.op = "no"] \in Conn
      /\ [IdCompleted(conn[k]) EXCEPT !.op = "no"].op = "no"
      /\ [IdCompleted(conn[k]) EXCEPT !.op = "no"].proto = conn[k].proto
      /\ ~[IdCompleted(conn[k]) EXCEPT !.op = "no"].fresh
      /\ [IdCompleted(conn[k]) EXCEPT !.op = "no"].inTrans = conn[k].inTrans
      /\ [IdCompleted(conn[k]) EXCEPT !.op = "no"].prepared = conn[k].prepared
      /\ [IdCompleted(conn[k]) EXCEPT !.op = "no"].pending = conn[k].pending
      /\ [IdCompleted(conn[k]) EXCEPT !.op = "no"].xa = conn[k].xa
  <2>1. IdCompleted(conn[k]) \in Conn
    BY <1>0, ConnTypes
  <2>. QED  BY <1>0, <2>1, CompletedFields DEF Conn
<1>10. CASE QueryRefused(k)
  BY <1>2, <1>8, <1>9, <1>10 DEF QueryRefused, serverVars, history
<1>11. CASE QueryDead(k) /\ ~conn[k].fresh
  BY <1>2, <1>8, <1>9, <1>11 DEF QueryDead, serverVars, history
<1>12. CASE QueryDead(k) /\ conn[k].fresh
  <2> DEFINE c == [IdCompleted(conn[k]) EXCEPT !.proto = NoCid, !.inTrans = FALSE]
  <2>00. NoCid \in 0 .. MaxCid
    BY XaAssumption DEF NoCid
  <2>0. NoCid \in 0 .. MaxCid /\ IdCompleted(conn[k]) \in Conn
    BY <1>0, <2>00, ConnTypes
  <2>1. c \in Conn /\ c.op = conn[k].op /\ c.xa = conn[k].xa /\ c.pending = conn[k].pending
    BY <1>0, <2>0, CompletedFields DEF Conn
  <2>2. ~c.inTrans /\ c.prepared = conn[k].prepared
    BY <1>0, <2>0, CompletedFields DEF Conn
  <2>3. /\ conn' = [conn EXCEPT ![k] = c] /\ k \in members /\ sess' = sess /\ conn[k].op = "query"
        /\ ~conn[k].inTrans /\ ~conn[k].prepared
        /\ UNCHANGED <<members, lastTrx, left, branch>>
    BY <1>1, <1>2, <1>12 DEF QueryDead, LocalInv, serverVars, history
  <2> HIDE DEF c
  <2>4. ConnFrame(k) /\ conn'[k] = c
    BY <1>5, <2>1, <2>3
  <2>5. LocalInv(k)' /\ LocalPhase(k)'
    BY <1>1, <2>1, <2>2, <2>3, <2>4 DEF LocalInv, LocalPhase
  <2>6. \A t \in Trxs : ~Holds(k, t)
    BY <2>3 DEF Holds
  <2>7. ServerFrame(k)
    BY <1>3, <2>1, <2>3, <2>4, <2>6, WithinServerFrame
  <2>. QED  BY <2>3, <2>4, <2>5, <2>7, ConnPreserves
<1>13. CASE QueryRuns(k)
  <2> DEFINE d == IdCompleted(conn[k])
             c == [d EXCEPT !.op = "no", !.pending = "no", !.inTrans = d.inTrans \/ d.pending # "no"]
             b == [st |-> "active", id |-> d.xaCid, by |-> d.proto]
  <2>1. /\ conn' = [conn EXCEPT ![k] = c] /\ k \in members /\ sess' = sess /\ conn[k].op = "query"
        /\ conn[k].proto \in alive[k]
        /\ branch' = IF d.pending # "xa" THEN branch ELSE [branch EXCEPT ![k][d.xa] = b]
        /\ UNCHANGED <<members, lastTrx, left>>
    BY <1>2, <1>13 DEF QueryRuns, history
  <2>2. /\ d \in Conn /\ d.proto = conn[k].proto /\ ~d.fresh
        /\ d.inTrans = conn[k].inTrans /\ d.prepared = conn[k].prepared
        /\ d.pending = conn[k].pending /\ d.xa = conn[k].xa
    BY <1>0, ConnTypes, CompletedFields
  <2> HIDE DEF d
  <2>3. (d.inTrans \/ d.pending # "no") \in BOOLEAN
    OBVIOUS
  <2>4. c \in Conn /\ c.op = "no" /\ c.pending = "no" /\ c.xa = conn[k].xa /\ c.proto = conn[k].proto
    BY <2>2, <2>3 DEF Conn
  <2>5. ~c.fresh /\ c.prepared = conn[k].prepared
    BY <2>2 DEF Conn
  <2>6. c.inTrans = (conn[k].inTrans \/ conn[k].pending # "no")
    BY <2>2, <2>3 DEF Conn
  <2> HIDE DEF c
  <2>7. ConnFrame(k) /\ conn'[k] = c
    BY <1>5, <2>1, <2>4
  <2>8. conn[k].proto # NoCid
    BY <2>1, XaAssumption DEF TypeOK, Cids, NoCid
  <2>9. LocalInv(k)'
    BY <2>4, <2>5, <2>7, <2>8 DEF LocalInv
  <2>10. LocalPhase(k)'
    BY <1>1, <2>1, <2>4, <2>7 DEF LocalPhase
  <2>11. \A t \in Trxs : Holds(k, t) => Holds(k, t)'
    BY <2>4, <2>5, <2>6, <2>7 DEF Holds
  <2>12. ASSUME NEW j \in Conns, NEW t \in Trxs
         PROVE  \/ branch'[j][t] = branch[j][t]
                \/ /\ j = k /\ Holds(k, t)' /\ conn[k].pending # "no"
                   /\ branch'[j][t].st = "active"
    <3>0. branch \in [Conns -> [Trxs -> Branch]]
      BY DEF TypeOK
    <3>1. CASE d.pending # "xa"
      BY <2>1, <3>1
    <3>2. CASE d.pending = "xa" /\ j = k /\ t = d.xa
      <4>1. branch'[j][t] = b
        BY <2>1, <3>0, <3>2
      <4>2. Holds(k, t)'
        <5>1. ~conn[k].prepared /\ conn[k].pending # "no"
          BY <1>1, <2>2, <3>2 DEF LocalInv
        <5>. QED  BY <2>2, <2>4, <2>5, <2>6, <2>7, <3>2, <5>1 DEF Holds
      <4>. QED  BY <2>2, <3>2, <4>1, <4>2
    <3>3. CASE d.pending = "xa" /\ ~(j = k /\ t = d.xa)
      BY <2>1, <3>0, <3>3
    <3>. QED  BY <3>1, <3>2, <3>3
  <2>13. ServerFrame(k)
    <3>1. \A j \in Conns, t \in Trxs :
             /\ Open(j, t)' => Open(j, t) \/ (j = k /\ Holds(k, t)' /\ conn[k].pending # "no")
             /\ branch'[j][t].st = "committed" => branch[j][t].st = "committed"
      BY <2>12 DEF Open
    <3>. QED  BY <2>4, <2>7, <2>11, <3>1, WithinServerFrame
  <2>. QED  BY <2>1, <2>7, <2>9, <2>10, <2>13, ConnPreserves
<1>14. CASE PrepareCommit(k)
  <2>1. /\ k \in members /\ conn[k].op = "prepare" /\ CanPrepare(conn[k]) /\ sess.pc = "prepare"
        /\ UNCHANGED <<members, lastTrx, left>>
    BY <1>1, <1>2, <1>14 DEF PrepareCommit, LocalInv, LocalPhase
  <2>2. /\ conn[k].proto # NoCid /\ conn[k].inTrans /\ conn[k].xa # NoXa /\ ~conn[k].prepared
        /\ ~conn[k].fresh /\ conn[k].pending = "no"
    BY <1>1, <2>1 DEF LocalInv, CanPrepare
  <2>3. CASE /\ Answered(k, "active", "prepared")
             /\ conn' = [conn EXCEPT ![k].prepared = TRUE, ![k].inTrans = ~Detach, ![k].op = "no"]
             /\ UNCHANGED sess
    <3> DEFINE c == [conn[k] EXCEPT !.prepared = TRUE, !.inTrans = ~Detach, !.op = "no"]
    <3>1. conn' = [conn EXCEPT ![k] = c]
      BY <1>0, <2>3
    <3>2. (~Detach) \in BOOLEAN
      OBVIOUS
    <3>3. c \in Conn /\ c.op = "no" /\ c.pending = "no" /\ c.xa = conn[k].xa /\ c.proto # NoCid
      BY <1>0, <2>2, <3>2 DEF Conn
    <3>4. ~c.fresh /\ c.prepared
      BY <1>0, <2>2, <3>2 DEF Conn
    <3> HIDE DEF c
    <3>5. ConnFrame(k) /\ conn'[k] = c /\ sess'.pc = sess.pc
      BY <1>5, <2>1, <2>3, <3>1, <3>3
    <3>6. LocalInv(k)' /\ LocalPhase(k)'
      BY <2>1, <3>3, <3>4, <3>5 DEF LocalInv, LocalPhase, Unprepared
    <3>7. branch'[k][conn[k].xa].st = "prepared"
      BY <2>2, <2>3, AnsweredState
    <3>8. \A t \in Trxs : Holds(k, t) => ~Open(k, t)'
      BY <3>7 DEF Holds, Open
    <3>9. \A j \in Conns, t \in Trxs :
             /\ Open(j, t)' => Open(j, t)
             /\ branch'[j][t].st = "committed" => branch[j][t].st = "committed"
      BY <2>3, CommandStates
    <3>10. ServerFrame(k)
      BY <3>3, <3>5, <3>8, <3>9, WithinServerFrame
    <3>. QED  BY <2>1, <3>5, <3>6, <3>10, ConnPreserves
  <2>4. CASE /\ Failed(k, "active", "prepared") \/ HookOfConnThrows
             /\ conn' = [conn EXCEPT ![k].op = "no"]
             /\ sess' = [sess EXCEPT !.err = TRUE]
    <3> DEFINE c == [conn[k] EXCEPT !.op = "no"]
    <3>1. conn' = [conn EXCEPT ![k] = c]
      BY <1>0, <2>4
    <3>2. c \in Conn /\ c.op = "no" /\ c.pending = "no" /\ c.xa = conn[k].xa /\ c.proto # NoCid
      BY <1>0, <2>2 DEF Conn
    <3>3. ~c.fresh /\ c.inTrans /\ ~c.prepared
      BY <1>0, <2>2 DEF Conn
    <3> HIDE DEF c
    <3>4. ConnFrame(k) /\ conn'[k] = c /\ sess'.pc = sess.pc /\ sess'.err
      BY <1>5, <2>1, <2>4, <3>1, <3>2
    <3>5. LocalInv(k)' /\ LocalPhase(k)'
      BY <2>1, <3>2, <3>3, <3>4 DEF LocalInv, LocalPhase
    <3>6. \A t \in Trxs : Holds(k, t) => Holds(k, t)'
      BY <3>2, <3>3, <3>4 DEF Holds
    <3>7. \A j \in Conns, t \in Trxs :
             /\ Open(j, t)' => Open(j, t)
             /\ branch'[j][t].st = "committed" => branch[j][t].st = "committed"
      BY <1>3, <2>4, CommandStates DEF HookOfConnThrows, serverVars
    <3>8. ServerFrame(k)
      BY <3>2, <3>4, <3>6, <3>7, WithinServerFrame
    <3>. QED  BY <2>1, <3>4, <3>5, <3>8, ConnPreserves
  <2>. QED  BY <1>14, <2>3, <2>4 DEF PrepareCommit
<1>15. ASSUME NEW c \in Conn, conn' = [conn EXCEPT ![k] = c], k \in members,
              c.xa = NoXa, c.op = "no",
              c.proto = NoCid \/ c.fresh \/ c.pending # "no" => ~c.inTrans /\ ~c.prepared,
              sess.pc = "rollback" \/ (~c.inTrans /\ ~c.prepared),
              sess' = sess \/ sess' = [sess EXCEPT !.err = TRUE],
              UNCHANGED <<members, lastTrx, left>>,
              \A j \in Conns, t \in Trxs :
                 /\ Open(j, t)' => Open(j, t)
                 /\ branch'[j][t].st = "committed"
                      => branch[j][t].st = "committed" \/ (j = k /\ conn[k].xa = t /\ conn[k].op = "commit"),
              sess.pc = "rollback" \/ \A t \in Trxs \ left : conn[k].xa = t => ~Open(k, t)
       PROVE  XaCore'
  <2>1. ConnFrame(k) /\ conn'[k] = c /\ sess'.pc = sess.pc
    BY <1>5, <1>15
  <2>2. LocalInv(k)' /\ LocalPhase(k)'
    BY <1>15, <2>1 DEF LocalInv, LocalPhase, Unprepared
  <2>3. ServerFrame(k)
    BY <1>15, <2>1, WithinServerFrame DEF Holds
  <2>. QED  BY <1>15, <2>1, <2>2, <2>3, ConnPreserves
<1>16. ASSUME conn[k].op \in {"commit", "undo"}, NEW t \in Trxs \ left, conn[k].xa = t
       PROVE  ~Open(k, t)
  BY <1>16 DEF XaCore, CommitInv, Committing
<1>17. /\ OutOfTrx(conn[k]) \in Conn /\ OutOfTrx(conn[k]).xa = NoXa /\ OutOfTrx(conn[k]).op = "no"
       /\ ~OutOfTrx(conn[k]).inTrans /\ ~OutOfTrx(conn[k]).prepared
       /\ Ended(conn[k]) \in Conn /\ Ended(conn[k]).xa = NoXa /\ Ended(conn[k]).op = "no"
       /\ ~Ended(conn[k]).inTrans /\ ~Ended(conn[k]).prepared
  BY <1>0, ConnTypes, ResetFields
<1>18. CASE ConnCommit(k)
  <2>1. /\ k \in members /\ conn[k].op = "commit" /\ sess.pc = "commit"
        /\ UNCHANGED <<members, lastTrx, left>>
    BY <1>1, <1>2, <1>18 DEF ConnCommit, LocalPhase
  <2>2. ASSUME Answered(k, "prepared", "committed") \/ Failed(k, "prepared", "committed")
        PROVE  \A j \in Conns, t \in Trxs :
                 /\ Open(j, t)' => Open(j, t)
                 /\ branch'[j][t].st = "committed"
                      => branch[j][t].st = "committed" \/ (j = k /\ conn[k].xa = t /\ conn[k].op = "commit")
    BY <2>1, <2>2, CommandStates
  <2>3. CASE /\ Answered(k, "prepared", "committed") /\ UNCHANGED sess
             /\ conn' = [conn EXCEPT ![k] = OutOfTrx(@)]
    BY <1>15, <1>16, <1>17, <2>1, <2>2, <2>3
  <2> DEFINE c == [conn[k] EXCEPT !.op = "undo"]
             d == [conn[k] EXCEPT !.op = "no"]
  <2>4. /\ c \in Conn /\ c.op = "undo" /\ c.pending = conn[k].pending /\ c.xa = conn[k].xa
        /\ c.proto = conn[k].proto
        /\ d \in Conn /\ d.op = "no" /\ d.pending = conn[k].pending /\ d.xa = conn[k].xa
        /\ d.proto = conn[k].proto
    BY <1>0 DEF Conn
  <2>5. /\ c.fresh = conn[k].fresh /\ c.inTrans = conn[k].inTrans /\ c.prepared = conn[k].prepared
        /\ d.fresh = conn[k].fresh /\ d.inTrans = conn[k].inTrans /\ d.prepared = conn[k].prepared
    BY <1>0 DEF Conn
  <2>6. CASE /\ Failed(k, "prepared", "committed") /\ UNCHANGED sess
             /\ conn' = [conn EXCEPT ![k].op = "undo"]
    <3>1. conn' = [conn EXCEPT ![k] = c]
      BY <1>0, <2>6
    <3> HIDE DEF c, d
    <3>2. ConnFrame(k) /\ conn'[k] = c /\ sess'.pc = sess.pc
      BY <1>5, <2>1, <2>4, <2>6, <3>1
    <3>3. LocalInv(k)' /\ LocalPhase(k)'
      BY <1>1, <2>1, <2>4, <2>5, <3>2 DEF LocalInv, LocalPhase
    <3>4. \A t \in Trxs : Holds(k, t) => Holds(k, t)'
      BY <2>4, <2>5, <3>2 DEF Holds
    <3>5. ServerFrame(k)
      BY <2>1, <2>2, <2>4, <2>6, <3>2, <3>4, WithinServerFrame
    <3>. QED  BY <2>1, <3>2, <3>3, <3>5, ConnPreserves
  <2>7. CASE /\ conn[k].xa = NoXa /\ HookOfConnThrows /\ sess' = [sess EXCEPT !.err = TRUE]
             /\ conn' = [conn EXCEPT ![k].op = "no"]
    <3>1. conn' = [conn EXCEPT ![k] = d] /\ UNCHANGED branch
      BY <1>0, <2>7 DEF HookOfConnThrows, serverVars
    <3> HIDE DEF c, d
    <3>2. ConnFrame(k) /\ conn'[k] = d /\ sess'.pc = sess.pc /\ sess'.err
      BY <1>5, <2>1, <2>4, <2>7, <3>1
    <3>3. LocalInv(k)' /\ LocalPhase(k)'
      BY <1>1, <2>1, <2>4, <2>5, <3>2 DEF LocalInv, LocalPhase
    <3>4. \A t \in Trxs : ~Holds(k, t)
      BY <1>4, <2>7 DEF Holds
    <3>5. ServerFrame(k)
      BY <1>3, <2>4, <3>1, <3>2, <3>4, WithinServerFrame
    <3>. QED  BY <2>1, <3>2, <3>3, <3>5, ConnPreserves
  <2>. QED  BY <1>18, <2>3, <2>6, <2>7 DEF ConnCommit
<1>19. CASE UndoCommit(k)
  <2>1. /\ k \in members /\ conn[k].op = "undo"
        /\ sess' = [sess EXCEPT !.err = TRUE] /\ UNCHANGED <<members, lastTrx, left>>
    BY <1>2, <1>19 DEF UndoCommit
  <2>2. \A j \in Conns, t \in Trxs :
          /\ Open(j, t)' => Open(j, t)
          /\ branch'[j][t].st = "committed" => branch[j][t].st = "committed"
    BY <1>19, CommandStates DEF UndoCommit
  <2>3. conn' = [conn EXCEPT ![k] = OutOfTrx(conn[k])] \/ conn' = [conn EXCEPT ![k] = Ended(conn[k])]
    BY <1>19 DEF UndoCommit
  <2>. QED  BY <1>15, <1>16, <1>17, <2>1, <2>2, <2>3
<1>20. CASE ConnRollback(k)
  <2> DEFINE from == IF conn[k].prepared THEN "prepared" ELSE "active"
             to   == IF conn[k].prepared THEN "undone" ELSE "aborted"
  <2>1. /\ k \in members /\ sess.pc = "rollback"
        /\ sess' = sess \/ sess' = [sess EXCEPT !.err = TRUE]
        /\ UNCHANGED <<members, lastTrx, left>>
        /\ Answered(k, from, to) \/ Failed(k, from, to)
        /\ conn' = [conn EXCEPT ![k] = OutOfTrx(conn[k])] \/ conn' = [conn EXCEPT ![k] = Ended(conn[k])]
    BY <1>1, <1>2, <1>20 DEF ConnRollback, LocalPhase
  <2>2. /\ to \in {"aborted", "prepared", "committed", "undone"} /\ from \in {"active", "prepared"}
        /\ to = "aborted" => from = "active"
        /\ to # "committed"
    OBVIOUS
  <2> HIDE DEF from, to
  <2>3. \A j \in Conns, t \in Trxs :
          /\ Open(j, t)' => Open(j, t)
          /\ branch'[j][t].st = "committed" => branch[j][t].st = "committed"
    BY <2>1, <2>2, CommandStates
  <2>. QED  BY <1>15, <1>17, <2>1, <2>3
<1>21. CASE ConnRollbackChain(k)
  <2>1. /\ k \in members /\ sess.pc = "rollback" /\ HasWork(conn[k])
        /\ sess' = sess \/ sess' = [sess EXCEPT !.err = TRUE]
        /\ UNCHANGED <<members, lastTrx, left>>
    BY <1>1, <1>2, <1>21 DEF ConnRollbackChain, LocalInv, LocalPhase, history
  <2>2. UNCHANGED branch \/ branch' = Released(branch, k, conn[k].proto)
    BY <1>21 DEF ConnRollbackChain, ThreadEnds, serverVars
  <2>3. Calm
    BY <1>3, <2>2, ThreadEndsCalm DEF Calm
  <2> DEFINE c == [Reset(conn[k]) EXCEPT !.inTrans = TRUE]
             d == ConnStartTrx(Ended(conn[k]), NoXa)
  <2>4. Reset(conn[k]) \in Conn /\ Ended(conn[k]) \in Conn /\ c \in Conn
    BY <1>0, ConnTypes
  <2>5. c.xa = NoXa /\ c.op = "no" /\ c.pending = "no" /\ c.proto = conn[k].proto /\ c.fresh = conn[k].fresh
    BY <1>0, <2>4, ResetFields DEF Conn
  <2>6. NoXa \in 0 .. MaxTrx
    BY XaAssumption DEF NoXa
  <2>7. d \in Conn
    BY <2>4, <2>6, ConnStartType
  <2>8. d.xa = NoXa /\ d.op = "no"
    BY <1>0, <2>4, ResetFields DEF ConnStartTrx, Conn
  <2>9. ~d.inTrans /\ ~d.prepared
    BY <1>0, <2>4, ResetFields DEF ConnStartTrx, Conn
  <2>10. conn' = [conn EXCEPT ![k] = c] \/ conn' = [conn EXCEPT ![k] = d]
    BY <1>21 DEF ConnRollbackChain
  <2> HIDE DEF c, d
  <2>11. c.proto # NoCid /\ ~c.fresh
    BY <1>1, <2>1, <2>5 DEF HasWork, LocalInv
  <2>. QED  BY <1>15, <2>1, <2>3, <2>4, <2>5, <2>7, <2>8, <2>9, <2>10, <2>11 DEF Calm
<1>22. CASE End(k)
  <2>1. /\ k \in members /\ sess' = sess /\ conn[k].op = "no" /\ sess.pc = "idle"
        /\ UNCHANGED <<members, lastTrx, branch>>
        /\ conn' = [conn EXCEPT ![k] = Ended(conn[k])]
        /\ left' = IF conn[k].xa # NoXa THEN left \cup {conn[k].xa} ELSE left
    BY <1>22 DEF End, serverVars
  <2>2. conn'[k] = Ended(conn[k])
    BY <1>0, <2>1
  <2>3. ConnFrame(k)
    BY <1>0, <1>17, <2>1, <2>2 DEF ConnFrame
  <2>4. LocalInv(k)' /\ LocalPhase(k)'
    BY <1>17, <2>1, <2>2 DEF LocalInv, LocalPhase
  <2>5. \A t \in Trxs \ left' : ~Holds(k, t)
    BY <1>4, <2>1 DEF Holds
  <2>6. ServerFrame(k)
    BY <1>3, <1>17, <2>1, <2>2, <2>3, <2>5, WithinServerFrame
  <2>. QED  BY <2>1, <2>3, <2>4, <2>6, ConnPreserves
<1>. QED
  BY <1>6, <1>7, <1>10, <1>11, <1>12, <1>13, <1>14, <1>18, <1>19, <1>20, <1>21, <1>22

\* A step of the pool, of a server or of the manager preserves the invariant.
LEMMA EnvSteps == TypeOK /\ XaCore /\ EnvNext => XaCore'
<1> SUFFICES ASSUME TypeOK, XaCore, EnvNext PROVE XaCore'
  OBVIOUS
<1>0. UNCHANGED branch => Calm
  BY DEF Calm, Open
<1>1. ASSUME NEW k \in Conns, NEW e \in ending[k], EndCompletes(k, e) PROVE XaCore'
  <2>1. branch' = Released(branch, k, e.cid) /\ UNCHANGED <<clientVars, left>>
    BY <1>1 DEF EndCompletes, ThreadEnds, history
  <2>. QED  BY <2>1, ThreadEndsCalm, ServerSteps
<1>2. ASSUME NEW k \in Conns, NEW c \in idle[k], PoolCloses(k, c) PROVE XaCore'
  <2>1. branch' = Released(branch, k, c) /\ UNCHANGED <<clientVars, left>>
    BY <1>2 DEF PoolCloses, ThreadEnds, history
  <2>. QED  BY <2>1, ThreadEndsCalm, ServerSteps
<1>3. ASSUME NEW k \in Conns, NEW c \in alive[k], ConnectionLost(k, c) PROVE XaCore'
  <2>1. branch' = Released(branch, k, c) /\ UNCHANGED <<clientVars, left>>
    BY <1>3 DEF ConnectionLost, ThreadEnds
  <2>. QED  BY <2>1, ThreadEndsCalm, ServerSteps
<1>4. CASE Crash
  <2>1. ASSUME NEW k \in Conns, NEW t \in Trxs
        PROVE  \/ branch'[k][t] = branch[k][t]
               \/ branch[k][t].st = "active" /\ branch'[k][t].st = "aborted"
    <3>1. branch[k][t] \in Branch
      BY DEF TypeOK
    <3>2. [branch[k][t] EXCEPT !.st = "aborted"].st = "aborted"
      BY <3>1 DEF Branch
    <3>. QED  BY <1>4, <3>2 DEF Crash
  <2>2. Calm
    BY <2>1 DEF Calm, Open
  <2>. QED  BY <1>4, <2>2, SessionGone DEF Crash
<1>5. ASSUME NEW k \in Conns, Recover(k) \/ FilterAlive(k) \/ ManagerFails(k) PROVE XaCore'
  <2>1. UNCHANGED <<clientVars, branch, left>>
    BY <1>5 DEF Recover, FilterAlive, ManagerFails, serverVars, history
  <2>. QED  BY <1>0, <2>1, ServerSteps
<1>6. ASSUME NEW k \in Conns, NEW t \in Trxs, RollbackDangling(k, t) PROVE XaCore'
  <2>1. UNCHANGED <<clientVars, left>>
    BY <1>6 DEF RollbackDangling, history
  <2>2. CASE UNCHANGED branch
    BY <1>0, <2>1, <2>2, ServerSteps
  <2>3. CASE branch' = [branch EXCEPT ![k][t].st = "swept"]
    <3>0. branch \in [Conns -> [Trxs -> Branch]]
      BY DEF TypeOK
    <3>1. ASSUME NEW j \in Conns, NEW u \in Trxs
          PROVE  branch'[j][u] = branch[j][u] \/ branch'[j][u].st = "swept"
      <4>1. CASE j = k /\ u = t
        <5>1. branch'[j][u] = [branch[j][u] EXCEPT !.st = "swept"]
          BY <2>3, <3>0, <4>1
        <5>2. branch[j][u] \in Branch
          BY <3>0
        <5>. QED  BY <5>1, <5>2 DEF Branch
      <4>2. CASE ~(j = k /\ u = t)
        BY <2>3, <3>0, <4>2
      <4>. QED  BY <4>1, <4>2
    <3>2. Calm
      BY <3>1 DEF Calm, Open
    <3>. QED  BY <2>1, <3>2, ServerSteps
  <2>. QED  BY <1>6, <2>2, <2>3 DEF RollbackDangling
<1>. QED
  BY <1>1, <1>2, <1>3, <1>4, <1>5, <1>6 DEF EnvNext, ManagerStep

-----------------------------------------------------------------------------
\* The session and its connections keep the invariant, whatever fails.
THEOREM XaInvariant == Spec => []XaInv
<1>1. Init => XaInv
  <2> SUFFICES ASSUME Init PROVE XaInv
    OBVIOUS
  <2>1. TypeOK
    BY NewTypes, XaAssumption DEF Init, TypeOK
  <2>2. sess.pc = "idle" /\ sess.xa = NoXa /\ \A k \in Conns : conn[k] = NewConn
    BY DEF Init, NewSess
  <2>3. NoXa <= lastTrx
    BY DEF Init, NoXa
  <2>4. \A k \in Conns, t \in Trxs : branch[k][t].st = "none"
    BY DEF Init, NoBranch
  <2>5. ConnInv /\ SessInv /\ OpInv /\ PhaseInv
    BY <2>2, <2>3, NewFields DEF ConnInv, SessInv, OpInv, PhaseInv
  <2>6. OpenInv /\ CommitInv
    BY <2>2, <2>4, NewFields DEF OpenInv, CommitInv, Committing, Open
  <2>. QED  BY <2>1, <2>5, <2>6 DEF XaInv
<1>2. XaInv /\ [Next]_vars => XaInv'
  <2> SUFFICES ASSUME XaInv, [Next]_vars PROVE XaInv'
    OBVIOUS
  <2>1. TypeOK /\ XaCore
    BY DEF XaInv, XaCore
  <2>2. CASE UNCHANGED vars
    <3>1. TypeOK'
      BY <2>1, <2>2 DEF TypeOK, vars, clientVars, poolVars, serverVars, history
    <3>2. Calm /\ UNCHANGED <<clientVars, left>>
      BY <2>2 DEF vars, Calm, Open, serverVars, history
    <3>. QED  BY <2>1, <3>1, <3>2, ServerSteps DEF XaInv, XaCore
  <2>3. CASE SessionNext
    BY <2>1, <2>3, SessionTypes, SessionSteps DEF XaInv, XaCore
  <2>4. CASE ConnNext
    BY <2>1, <2>4, ConnStepTypes, ConnSteps DEF XaInv, XaCore
  <2>5. CASE EnvNext
    BY <2>1, <2>5, EnvTypes, EnvSteps DEF XaInv, XaCore
  <2>. QED  BY <2>2, <2>3, <2>4, <2>5 DEF Next
<1>. QED  BY <1>1, <1>2, PTL DEF Spec

\* 2-phase commit, for any number of connections and faults: when an XA is
\* committed on one server, it is prepared on every server where it began.
THEOREM XaTwoPhase == Spec => []PreparedBeforeCommit
<1>1. XaInv => PreparedBeforeCommit
  BY DEF XaInv, CommitInv, Committing, Open, PreparedBeforeCommit
<1>. QED  BY <1>1, XaInvariant, PTL

\* A connection with a start of a transaction pending is in no transaction:
\* the assertion of MyConn.startTrx(), and why it never has to commit there.
THEOREM XaPendingIsClean == Spec => []PendingIsClean
<1>1. XaInv => PendingIsClean
  BY DEF XaInv, ConnInv, PendingIsClean
<1>. QED  BY <1>1, XaInvariant, PTL

-----------------------------------------------------------------------------
\* What commit() may conclude from the absence of errors.

\* The session is in t, or it commits t and has not sent a XA COMMIT yet.
Joining(t) ==
    \/ sess.pc = "idle" /\ sess.xa = t
    \/ sess.pc \in {"hook", "prepare"} /\ sess.was = t

\* The session awaits the XA COMMITs of t, and saw no error.
Resolving(t) == sess.pc = "commit" /\ ~sess.err /\ sess.was = t

InTrx(k, t) == conn[k].xa = t /\ (conn[k].inTrans \/ conn[k].prepared)

Settling(k, t) == conn[k].xa = t /\ conn[k].op \in {"commit", "undo"}

\* A server where t began is one whose MyConn takes part in the commit, and no
\* MyConn leaves it without XA COMMIT or an error. Ids not given out are unused.
JoinInv ==
    \A k \in Conns, t \in Trxs \ left : branch[k][t].st # "none" =>
        /\ t <= lastTrx
        /\ Joining(t) => InTrx(k, t)
        /\ Resolving(t) => branch[k][t].st = "committed" \/ Settling(k, t)

\* A step that begins nothing, and where what is committed remains so.
Steady ==
    \A j \in Conns, t \in Trxs :
        /\ branch'[j][t].st # "none" => branch[j][t].st # "none"
        /\ branch[j][t].st = "committed" => branch'[j][t].st = "committed"

\* The end of a thread is such a step.
LEMMA ReleasedSteady ==
    ASSUME TypeOK, NEW k \in Conns, NEW c, branch' = Released(branch, k, c)
    PROVE  Steady
<1> SUFFICES ASSUME NEW j \in Conns, NEW t \in Trxs
             PROVE  /\ branch'[j][t].st # "none" => branch[j][t].st # "none"
                    /\ branch[j][t].st = "committed" => branch'[j][t].st = "committed"
  BY DEF Steady
<1>1. \/ branch'[j][t].st = branch[j][t].st
      \/ branch[j][t].st = "active" /\ branch'[j][t].st = "aborted"
  BY ReleasedStates DEF TypeOK
<1>. QED  BY <1>1

\* The servers and the pool alone.
LEMMA ServerJoins ==
    ASSUME JoinInv, Steady, UNCHANGED <<clientVars, left>>
    PROVE  JoinInv'
BY DEF JoinInv, Steady, Joining, Resolving, InTrx, Settling, clientVars

\* A session that has no XA, or rolls it back.
LEMMA NothingJoins ==
    ASSUME JoinInv, Steady, UNCHANGED <<lastTrx, left>>,
           sess'.pc = "rollback" \/ (sess'.pc = "idle" /\ sess'.xa = NoXa)
    PROVE  JoinInv'
<1>1. \A t \in Trxs : t # NoXa
  BY XaAssumption DEF Trxs, NoXa
<1>. QED  BY <1>1 DEF JoinInv, Steady, Joining, Resolving

\* The prepare phase begins.
LEMMA PrepareJoins ==
    ASSUME TypeOK, JoinInv, NEW s \in Sess, \A t \in Trxs : s.was = t => Joining(t),
           EnterPrepare(s), UNCHANGED <<lastTrx, branch, left>>
    PROVE  JoinInv'
<1>1. sess'.pc = "prepare" /\ sess'.was = s.was
  BY DEF EnterPrepare, Sess
<1>2. ASSUME NEW k \in Conns, NEW t, InTrx(k, t) PROVE InTrx(k, t)'
  <2>1. conn[k] \in Conn
    BY DEF TypeOK
  <2>2. /\ conn'[k].xa = conn[k].xa /\ conn'[k].inTrans = conn[k].inTrans
        /\ conn'[k].prepared = conn[k].prepared
    BY <2>1 DEF EnterPrepare, Conn
  <2>. QED  BY <1>2, <2>2 DEF InTrx
<1>. QED  BY <1>1, <1>2 DEF JoinInv, Joining, Resolving

\* commit() is called, for the transaction of s.
LEMMA CommitJoins ==
    ASSUME TypeOK, JoinInv, NEW s \in Sess, \A t \in Trxs : s.xa = t => Joining(t),
           BeginCommit(s), UNCHANGED <<lastTrx, branch, left>>
    PROVE  JoinInv'
<1> DEFINE s1 == [s EXCEPT !.was = s.xa, !.on = FALSE, !.xa = NoXa]
<1>0. NoXa \in 0 .. MaxTrx
  BY XaAssumption DEF NoXa
<1>1. s1 \in Sess /\ s1.was = s.xa
  BY <1>0 DEF Sess
<1>2. CASE HasHook
  <2>1. sess' = [s1 EXCEPT !.pc = "hook"] /\ UNCHANGED conn
    BY <1>2 DEF BeginCommit
  <2>2. sess'.pc = "hook" /\ sess'.was = s.xa
    BY <1>1, <2>1 DEF Sess
  <2>. QED  BY <2>1, <2>2 DEF JoinInv, Joining, Resolving, InTrx
<1>3. CASE ~HasHook
  <2>1. EnterPrepare(s1)
    BY <1>3 DEF BeginCommit
  <2> HIDE DEF s1
  <2>. QED  BY <1>1, <2>1, PrepareJoins
<1>. QED  BY <1>2, <1>3

\* startTrx() goes on: nobody used the next XA id before.
LEMMA StartJoins ==
    ASSUME TypeOK, JoinInv, NEW s, NEW kind, Started(s, kind), UNCHANGED <<branch, left>>
    PROVE  JoinInv'
<1> DEFINE xa == IF kind = "xa" THEN lastTrx + 1 ELSE NoXa
<1>1. xa \in 0 .. MaxTrx /\ lastTrx \in Nat /\ lastTrx' \in {lastTrx, lastTrx + 1}
  BY XaAssumption DEF Started, TypeOK, NoXa
<1>2. sess' = [NewSess EXCEPT !.on = TRUE, !.xa = xa]
  BY DEF Started
<1>3. sess'.pc = "idle" /\ sess'.xa = xa
  BY <1>2 DEF NewSess
<1>4. \A t \in Trxs : t \in Nat /\ t # NoXa
  BY XaAssumption DEF Trxs, NoXa
<1>5. \A t \in Trxs : t <= lastTrx => t # xa /\ t <= lastTrx'
  BY <1>1, <1>4
<1>. QED  BY <1>3, <1>5 DEF JoinInv, Joining, Resolving

\* startTrx(), that commits first.
LEMMA StartTrxJoins ==
    ASSUME TypeOK, JoinInv, NEW s \in Sess, NEW kind \in {"plain", "xa"},
           \A t \in Trxs : s.xa = t => Joining(t),
           BeginStartTrx(s, kind), UNCHANGED <<branch, left>>
    PROVE  JoinInv'
<1>1. CASE members = {}
  BY <1>1, StartJoins DEF BeginStartTrx
<1>2. CASE members # {}
  <2> DEFINE s1 == [s EXCEPT !.chain = FALSE, !.start = kind]
  <2>1. s1 \in Sess /\ s1.xa = s.xa
    BY DEF Sess
  <2>2. BeginCommit(s1) /\ UNCHANGED lastTrx
    BY <1>2 DEF BeginStartTrx
  <2> HIDE DEF s1
  <2>. QED  BY <2>1, <2>2, CommitJoins
<1>. QED  BY <1>1, <1>2

\* The commit phase begins: who is in the transaction commits, or is an error.
LEMMA ResolveBegins ==
    ASSUME TypeOK, ConnInv, JoinInv, sess.pc = "prepare", EnterCommit(sess),
           UNCHANGED <<lastTrx, branch, left>>
    PROVE  JoinInv'
<1>1. sess' = [sess EXCEPT !.pc = "commit", !.err = \E k \in members : Unprepared(conn[k])]
  BY DEF EnterCommit
<1> DEFINE e == \E k \in members : Unprepared(conn[k])
<1>2. sess'.pc = "commit" /\ sess'.was = sess.was /\ sess'.err = e
  <2> HIDE DEF e
  <2>1. sess' = [sess EXCEPT !.pc = "commit", !.err = e]
    BY <1>1 DEF e
  <2>. QED  BY <2>1 DEF TypeOK, Sess
<1>3. ASSUME NEW k \in Conns, NEW t \in Trxs, InTrx(k, t), ~e PROVE Settling(k, t)'
  <2>1. k \in members
    BY <1>3, NewFields DEF InTrx, ConnInv
  <2>2. HasWork(conn[k]) /\ ~Unprepared(conn[k])
    BY <1>3, <2>1 DEF InTrx, ConnInv, HasWork
  <2>3. conn'[k] = [conn[k] EXCEPT !.op = "commit"]
    BY <2>1, <2>2 DEF EnterCommit
  <2>4. conn[k] \in Conn
    BY DEF TypeOK
  <2>5. conn'[k].op = "commit" /\ conn'[k].xa = conn[k].xa
    BY <2>3, <2>4 DEF Conn
  <2>. QED  BY <1>3, <2>5 DEF InTrx, Settling
<1>4. \A t \in Trxs : Resolving(t)' => Joining(t) /\ ~e
  BY <1>2 DEF Resolving, Joining
<1>5. \A t : ~Joining(t)'
  BY <1>2 DEF Joining
<1> HIDE DEF e
<1>. QED  BY <1>3, <1>4, <1>5 DEF JoinInv

\* A connection joins the session: a new MyConn was in no transaction.
LEMMA MemberJoins ==
    ASSUME TypeOK, ConnInv, JoinInv, NEW k \in Conns, SessionConn(k)
    PROVE  JoinInv'
<1>1. conn[k] = NewConn
  BY DEF SessionConn, ConnInv
<1>2. UNCHANGED <<sess, lastTrx, branch, left>>
  BY DEF SessionConn, serverVars, history
<1>3. \A j \in Conns : j # k => conn'[j] = conn[j]
  BY DEF SessionConn
<1>4. \A t \in Trxs : ~InTrx(k, t) /\ ~Settling(k, t)
  BY <1>1, NewFields DEF InTrx, Settling
<1>. QED  BY <1>2, <1>3, <1>4 DEF JoinInv, Joining, Resolving, InTrx, Settling

\* The session's operations keep JoinInv.
LEMMA SessionJoins == TypeOK /\ XaCore /\ JoinInv /\ SessionNext => JoinInv'
<1> SUFFICES ASSUME TypeOK, XaCore, JoinInv, SessionNext PROVE JoinInv'
  OBVIOUS
<1>0. /\ sess \in Sess /\ ConnInv /\ (sess.pc # "idle" => sess.xa = NoXa)
      /\ \A t \in Trxs : t # NoXa
  BY XaAssumption DEF TypeOK, XaCore, SessInv, Trxs, NoXa
<1>1. Local => UNCHANGED <<branch, left>> /\ (UNCHANGED <<branch, left>> => Steady)
  BY DEF Local, serverVars, history, Steady
<1>2. ASSUME NEW s \in Sess, s.xa = NoXa, Local, UNCHANGED lastTrx,
             sess' = Finished(s) \/ \E how \in {"rollback", "chain"} : EnterRollback(s, how)
      PROVE  JoinInv'
  <2>1. sess'.pc = "rollback" \/ (sess'.pc = "idle" /\ sess'.xa = NoXa)
    BY <1>2, NewTypes DEF Finished, EnterRollback, NewSess, Sess
  <2>. QED  BY <1>1, <1>2, <2>1, NothingJoins
<1>3. ASSUME NEW k \in Conns, SessionConn(k) PROVE JoinInv'
  BY <1>0, <1>3, MemberJoins
<1>4. ASSUME NEW kind \in {"plain", "xa"}, StartTrx(kind) PROVE JoinInv'
  <2>1. sess.pc = "idle" /\ BeginStartTrx(sess, kind) /\ Local
    BY <1>4 DEF StartTrx
  <2>. QED  BY <1>0, <1>1, <2>1, StartTrxJoins DEF Joining
<1>5. ASSUME NEW b \in BOOLEAN, Commit(b) PROVE JoinInv'
  <2>1. sess.pc = "idle" /\ Local /\ UNCHANGED lastTrx
    BY <1>5 DEF Commit
  <2>2. CASE members = {}
    <3>1. sess' = NewSess
      BY <1>5, <2>2 DEF Commit
    <3>. QED  BY <1>1, <2>1, <3>1, NothingJoins DEF NewSess
  <2>3. CASE members # {}
    <3> DEFINE s == [sess EXCEPT !.chain = b]
    <3>1. s \in Sess /\ s.xa = sess.xa
      BY <1>0 DEF Sess
    <3>2. BeginCommit(s)
      BY <1>5, <2>3 DEF Commit
    <3> HIDE DEF s
    <3>. QED  BY <1>1, <2>1, <3>1, <3>2, CommitJoins DEF Joining
  <2>. QED  BY <2>2, <2>3
<1>6. ASSUME NEW b \in BOOLEAN, Rollback(b) PROVE JoinInv'
  <2>1. Local /\ UNCHANGED lastTrx
    BY <1>6 DEF Rollback
  <2>2. CASE b /\ sess.xa = NoXa
    BY <1>0, <1>2, <1>6, <2>1, <2>2 DEF Rollback
  <2>3. CASE ~(b /\ sess.xa = NoXa)
    <3> DEFINE s == [sess EXCEPT !.on = FALSE, !.xa = NoXa, !.restart = b]
    <3>0. NoXa \in 0 .. MaxTrx
      BY XaAssumption DEF NoXa
    <3>1. s \in Sess /\ s.xa = NoXa
      BY <1>0, <3>0 DEF Sess
    <3>2. EnterRollback(s, "rollback")
      BY <1>6, <2>3 DEF Rollback
    <3> HIDE DEF s
    <3>. QED  BY <1>2, <2>1, <3>1, <3>2
  <2>. QED  BY <2>2, <2>3
<1>7. CASE HookReturns
  <2>1. sess.pc = "hook" /\ EnterPrepare(sess) /\ Local /\ UNCHANGED lastTrx
    BY <1>7 DEF HookReturns
  <2>. QED  BY <1>0, <1>1, <2>1, PrepareJoins DEF Joining
<1>8. ASSUME RollbackInCommit, sess.pc # "idle", Local, UNCHANGED lastTrx PROVE JoinInv'
  <2> DEFINE s == [sess EXCEPT !.failing = TRUE]
  <2>1. s \in Sess /\ s.xa = NoXa
    BY <1>0, <1>8 DEF Sess
  <2>2. \E how \in {"rollback", "chain"} : EnterRollback(s, how)
    BY <1>8 DEF RollbackInCommit
  <2> HIDE DEF s
  <2>. QED  BY <1>2, <1>8, <2>1, <2>2
<1>9. CASE HookThrows
  BY <1>8, <1>9 DEF HookThrows
<1>10. CASE PrepareEnds
  <2>1. sess.pc = "prepare" /\ Local /\ UNCHANGED lastTrx
    BY <1>10 DEF PrepareEnds
  <2>2. CASE sess.err
    BY <1>8, <1>10, <2>1, <2>2 DEF PrepareEnds
  <2>3. CASE ~sess.err
    BY <1>0, <1>1, <1>10, <2>1, <2>3, ResolveBegins DEF PrepareEnds
  <2>. QED  BY <2>2, <2>3
<1>11. CASE CommitEnds
  <2>1. sess.pc = "commit" /\ sess.xa = NoXa /\ Local
    BY <1>0, <1>11 DEF CommitEnds
  <2>2. CASE sess' = Finished(sess) /\ UNCHANGED lastTrx
    BY <1>0, <1>2, <2>1, <2>2
  <2>3. CASE BeginStartTrx(sess, IF sess.was # NoXa THEN "xa" ELSE "plain")
    BY <1>0, <1>1, <2>1, <2>3, StartTrxJoins
  <2>4. CASE Started(sess, sess.start)
    BY <1>1, <2>1, <2>4, StartJoins
  <2>. QED  BY <1>11, <2>2, <2>3, <2>4 DEF CommitEnds
<1>12. CASE RollbackEnds
  <2>1. sess.pc = "rollback" /\ sess.xa = NoXa /\ Local
    BY <1>0, <1>12 DEF RollbackEnds
  <2>2. CASE sess' = Finished(sess) /\ UNCHANGED lastTrx
    BY <1>0, <1>2, <2>1, <2>2
  <2>3. CASE BeginStartTrx([sess EXCEPT !.restart = FALSE], "xa")
    <3>1. [sess EXCEPT !.restart = FALSE] \in Sess /\ [sess EXCEPT !.restart = FALSE].xa = NoXa
      BY <1>0, <2>1 DEF Sess
    <3>. QED  BY <1>0, <1>1, <2>1, <2>3, <3>1, StartTrxJoins
  <2>. QED  BY <1>12, <2>2, <2>3 DEF RollbackEnds
<1>13. CASE DisposeSession
  <2>1. sess' = NewSess /\ UNCHANGED <<lastTrx, branch, left>>
    BY <1>13 DEF DisposeSession, serverVars, history
  <2>. QED  BY <2>1, NothingJoins DEF NewSess, Steady
<1>. QED
  BY <1>3, <1>4, <1>5, <1>6, <1>7, <1>9, <1>10, <1>11, <1>12, <1>13 DEF SessionNext

\* A step of the connection k, in an operation of the session that goes on.
LEMMA ConnJoins ==
    ASSUME JoinInv, Steady, NEW k \in Conns,
           \A j \in Conns \ {k} : conn'[j] = conn[j],
           UNCHANGED lastTrx, left \subseteq left',
           sess'.pc = sess.pc, sess'.xa = sess.xa, sess'.was = sess.was, sess.err => sess'.err,
           \A t \in Trxs \ left' : Joining(t) /\ InTrx(k, t) => InTrx(k, t)',
           \A t \in Trxs \ left' : Resolving(t)' /\ Settling(k, t)
                => Settling(k, t)' \/ branch'[k][t].st = "committed"
    PROVE  JoinInv'
<1> SUFFICES ASSUME NEW j \in Conns, NEW t \in Trxs \ left', branch'[j][t].st # "none"
             PROVE  /\ t <= lastTrx'
                    /\ Joining(t)' => InTrx(j, t)'
                    /\ Resolving(t)' => branch'[j][t].st = "committed" \/ Settling(j, t)'
  BY DEF JoinInv
<1>1. /\ t <= lastTrx /\ (Joining(t) => InTrx(j, t))
      /\ Resolving(t) => branch[j][t].st = "committed" \/ Settling(j, t)
  BY DEF JoinInv, Steady
<1>2. (Joining(t)' <=> Joining(t)) /\ (Resolving(t)' => Resolving(t))
  BY DEF Joining, Resolving
<1>3. CASE j = k
  BY <1>1, <1>2, <1>3 DEF Steady
<1>4. CASE j # k
  BY <1>1, <1>2, <1>4 DEF Steady, InTrx, Settling
<1>. QED  BY <1>3, <1>4

\* A query of a connection: it may begin the transaction, then the MyConn is in it.
LEMMA QueryJoins ==
    ASSUME TypeOK, XaCore, JoinInv, NEW k \in Conns,
           Query(k) \/ QueryConnects(k) \/ QueryRuns(k) \/ QueryRefused(k) \/ QueryDead(k)
    PROVE  JoinInv'
<1>0. /\ conn[k] \in Conn /\ branch \in [Conns -> [Trxs -> Branch]]
      /\ UNCHANGED <<sess, lastTrx, left>> /\ \A j \in Conns \ {k} : conn'[j] = conn[j]
  BY DEF TypeOK, Query, QueryConnects, QueryRuns, QueryRefused, QueryDead, history
<1>1. sess.pc \in {"idle", "hook"}
  BY DEF XaCore, OpInv, Query, QueryConnects, QueryRuns, QueryRefused, QueryDead
<1>2. \A t \in Trxs : ~Resolving(t) /\ ~Resolving(t)' /\ (Joining(t)' <=> Joining(t))
  BY <1>0, <1>1 DEF Resolving, Joining
<1>3. CASE QueryRuns(k)
  <2> DEFINE c == IdCompleted(conn[k])
             pend == c.pending # "no"
             inT == c.inTrans \/ pend
             c1 == [c EXCEPT !.op = "no", !.pending = "no", !.inTrans = inT]
             b == [st |-> "active", id |-> c.xaCid, by |-> c.proto]
  <2>1. c \in Conn /\ c.xa = conn[k].xa /\ c.inTrans = conn[k].inTrans /\ c.prepared = conn[k].prepared
    BY <1>0, ConnTypes, CompletedFields
  <2>2. conn' = [conn EXCEPT ![k] = c1]
    BY <1>3 DEF QueryRuns
  <2>3. branch' = IF c.pending # "xa" THEN branch ELSE [branch EXCEPT ![k][c.xa] = b]
    BY <1>3 DEF QueryRuns
  <2>4. conn'[k] = c1
    BY <2>2 DEF TypeOK
  <2>5. inT \in BOOLEAN /\ (inT <=> c.inTrans \/ pend)
    BY <2>1 DEF Conn
  <2> HIDE DEF c, inT
  <2>6. conn'[k].xa = conn[k].xa /\ conn'[k].prepared = conn[k].prepared /\ conn'[k].inTrans = inT
    BY <2>1, <2>4, <2>5 DEF Conn
  <2>7. \A t \in Trxs : InTrx(k, t) => InTrx(k, t)'
    BY <2>1, <2>5, <2>6 DEF InTrx
  <2>8. b.st = "active"
    OBVIOUS
  <2> HIDE DEF b
  <2>9. \A j \in Conns, t \in Trxs :
           branch'[j][t].st # "none"
             => \/ branch[j][t].st # "none"
                \/ j = k /\ t = conn[k].xa /\ c.pending = "xa"
    <3> TAKE j \in Conns, t \in Trxs
    <3>1. CASE c.pending = "xa" /\ ~(j = k /\ t = c.xa)
      <4>1. branch'[j][t] = branch[j][t]
        BY <1>0, <2>3, <3>1
      <4>. QED  BY <4>1
    <3>. QED  BY <2>1, <2>3, <3>1
  <2>10. conn[k].xa <= lastTrx
    BY DEF XaCore, ConnInv
  <2>11. \A t \in Trxs : t = conn[k].xa /\ c.pending = "xa" => InTrx(k, t)'
    BY <2>5, <2>6 DEF InTrx
  <2> SUFFICES ASSUME NEW j \in Conns, NEW t \in Trxs \ left', branch'[j][t].st # "none"
               PROVE  t <= lastTrx /\ (Joining(t) => InTrx(j, t)')
    BY <1>0, <1>2 DEF JoinInv
  <2>12. CASE branch[j][t].st # "none"
    <3>1. t <= lastTrx /\ (Joining(t) => InTrx(j, t))
      BY <1>0, <2>12 DEF JoinInv
    <3>2. InTrx(j, t) => InTrx(j, t)'
      BY <1>0, <2>7 DEF InTrx
    <3>. QED  BY <3>1, <3>2
  <2>13. CASE j = k /\ t = conn[k].xa /\ c.pending = "xa"
    BY <2>10, <2>11, <2>13
  <2>. QED  BY <2>9, <2>12, <2>13
<1>4. CASE Query(k) \/ QueryConnects(k) \/ QueryRefused(k) \/ QueryDead(k)
  <2>1. Steady
    BY <1>4 DEF Steady, Query, QueryConnects, QueryRefused, QueryDead, serverVars
  <2>2. CASE Query(k) \/ QueryConnects(k)
    <3>1. /\ conn'[k].xa = conn[k].xa /\ conn'[k].prepared = conn[k].prepared
          /\ conn'[k].inTrans = conn[k].inTrans
      <4>1. CASE Query(k)
        BY <1>0, <4>1 DEF Query, TypeOK, Conn
      <4>2. CASE QueryConnects(k)
        <5>1. PICK c, op :
                 \/ conn'[k] = [conn[k] EXCEPT !.proto = c, !.fresh = TRUE]
                 \/ conn'[k] = [conn[k] EXCEPT !.proto = c]
                 \/ conn'[k] = [conn[k] EXCEPT !.op = op]
          <6>1. conn \in [Conns -> Conn]
            BY DEF TypeOK
          <6>. QED  BY <4>2, <6>1 DEF QueryConnects
        <5>. QED  BY <1>0, <5>1 DEF Conn
      <4>. QED  BY <2>2, <4>1, <4>2
    <3>2. \A t \in Trxs : InTrx(k, t) => InTrx(k, t)'
      BY <3>1 DEF InTrx
    <3>. QED  BY <1>0, <1>2, <2>1, <3>2, ConnJoins
  <2>3. CASE QueryRefused(k) \/ QueryDead(k)
    <3> DEFINE c == IdCompleted(conn[k])
    <3>1. /\ c \in Conn /\ c.xa = conn[k].xa /\ c.inTrans = conn[k].inTrans
          /\ c.prepared = conn[k].prepared
      BY <1>0, ConnTypes, CompletedFields
    <3>2. \/ conn'[k] = [c EXCEPT !.op = "no"]
          \/ conn[k].fresh /\ conn'[k] = [c EXCEPT !.proto = NoCid, !.inTrans = FALSE]
      BY <2>3 DEF QueryRefused, QueryDead, TypeOK
    <3> HIDE DEF c
    <3>3. /\ conn'[k].xa = conn[k].xa /\ conn'[k].prepared = conn[k].prepared
          /\ conn'[k].inTrans = conn[k].inTrans \/ conn[k].fresh
      BY <3>1, <3>2 DEF Conn
    <3>4. conn[k].fresh => ~conn[k].inTrans /\ ~conn[k].prepared
      BY DEF XaCore, ConnInv
    <3>5. \A t \in Trxs : InTrx(k, t) => InTrx(k, t)'
      BY <3>3, <3>4 DEF InTrx
    <3>. QED  BY <1>0, <1>2, <2>1, <3>5, ConnJoins
  <2>. QED  BY <1>4, <2>2, <2>3
<1>. QED  BY <1>3, <1>4

\* prepareCommit() and the rollbacks: nobody leaves while the session commits.
LEMMA OtherCommandJoins ==
    ASSUME TypeOK, XaCore, JoinInv, NEW k \in Conns,
           PrepareCommit(k) \/ ConnRollback(k) \/ ConnRollbackChain(k)
    PROVE  JoinInv'
<1>0. conn[k] \in Conn /\ sess \in Sess
  BY DEF TypeOK
<1>1. CASE PrepareCommit(k)
  <2>1. sess.pc = "prepare"
    BY <1>1 DEF PrepareCommit, XaCore, OpInv
  <2>2. UNCHANGED <<lastTrx, left>> /\ (sess' = sess \/ sess' = [sess EXCEPT !.err = TRUE])
    BY <1>1 DEF PrepareCommit
  <2>3. Steady
    <3>1. \/ Answered(k, "active", "prepared") \/ Failed(k, "active", "prepared")
          \/ UNCHANGED branch
      BY <1>1 DEF PrepareCommit, HookOfConnThrows, serverVars
    <3>. QED  BY <3>1, CommandStates DEF Steady
  <2>4. \/ conn' = [conn EXCEPT ![k].prepared = TRUE, ![k].inTrans = ~Detach, ![k].op = "no"]
        \/ conn' = [conn EXCEPT ![k].op = "no"]
    BY <1>1 DEF PrepareCommit
  <2>8. \A j \in Conns \ {k} : conn'[j] = conn[j]
    BY <2>4 DEF TypeOK
  <2>5. /\ conn'[k].xa = conn[k].xa
        /\ conn'[k].prepared \/ (/\ conn'[k].inTrans = conn[k].inTrans
                                 /\ conn'[k].prepared = conn[k].prepared)
    BY <1>0, <2>4 DEF TypeOK, Conn
  <2>6. \A t \in Trxs : InTrx(k, t) => InTrx(k, t)'
    BY <2>5 DEF InTrx
  <2>7. sess'.pc = sess.pc /\ sess'.xa = sess.xa /\ sess'.was = sess.was /\ (sess.err => sess'.err)
    BY <1>0, <2>2 DEF Sess
  <2>. QED  BY <2>1, <2>2, <2>3, <2>6, <2>7, <2>8, ConnJoins DEF Resolving
<1>2. CASE ConnRollback(k) \/ ConnRollbackChain(k)
  <2>1. sess.pc = "rollback"
    BY <1>2 DEF ConnRollback, ConnRollbackChain, XaCore, OpInv
  <2>2. sess' = sess \/ sess' = [sess EXCEPT !.err = TRUE]
    BY <1>2 DEF ConnRollback, ConnRollbackChain
  <2>3. sess'.pc = "rollback"
    BY <1>0, <2>1, <2>2 DEF Sess
  <2>4. UNCHANGED <<lastTrx, left>>
    BY <1>2 DEF ConnRollback, ConnRollbackChain, history
  <2>5. CASE ConnRollback(k)
    <3>1. \E from \in {"active", "prepared"}, to \in {"aborted", "undone"} :
             /\ to = "aborted" => from = "active"
             /\ Answered(k, from, to) \/ Failed(k, from, to)
      <4> DEFINE from == IF conn[k].prepared THEN "prepared" ELSE "active"
                 to == IF conn[k].prepared THEN "undone" ELSE "aborted"
      <4>1. from \in {"active", "prepared"} /\ to \in {"aborted", "undone"}
            /\ (to = "aborted" => from = "active")
        OBVIOUS
      <4>2. Answered(k, from, to) \/ Failed(k, from, to)
        BY <2>5 DEF ConnRollback
      <4> HIDE DEF from, to
      <4>. QED  BY <4>1, <4>2
    <3>2. Steady
      BY <3>1, CommandStates DEF Steady
    <3>. QED  BY <2>3, <2>4, <3>2, NothingJoins
  <2>6. CASE ConnRollbackChain(k)
    <3>1. UNCHANGED branch \/ branch' = Released(branch, k, conn[k].proto)
      BY <2>6 DEF ConnRollbackChain, ThreadEnds, serverVars
    <3>2. Steady
      BY <3>1, ReleasedSteady DEF Steady
    <3>. QED  BY <2>3, <2>4, <3>2, NothingJoins
  <2>. QED  BY <1>2, <2>5, <2>6
<1>. QED  BY <1>1, <1>2

\* commit() of a connection: it committed, or goes on with XA ROLLBACK, or there
\* is an error.
LEMMA CommitCommandJoins ==
    ASSUME TypeOK, XaCore, JoinInv, NEW k \in Conns, ConnCommit(k) \/ UndoCommit(k)
    PROVE  JoinInv'
<1>0. conn[k] \in Conn /\ sess \in Sess /\ \A t \in Trxs : t # NoXa
  BY XaAssumption DEF TypeOK, Trxs, NoXa
<1>1. sess.pc = "commit"
  BY DEF ConnCommit, UndoCommit, XaCore, OpInv
<1>2. /\ UNCHANGED <<lastTrx, left>> /\ \A j \in Conns \ {k} : conn'[j] = conn[j]
      /\ sess' = sess \/ sess' = [sess EXCEPT !.err = TRUE]
  <2>1. UNCHANGED lastTrx /\ (sess' = sess \/ sess' = [sess EXCEPT !.err = TRUE])
    BY DEF ConnCommit, UndoCommit
  <2>2. UNCHANGED left
    BY DEF ConnCommit, UndoCommit, HookOfConnThrows
  <2>3. \A j \in Conns \ {k} : conn'[j] = conn[j]
    BY DEF ConnCommit, UndoCommit, TypeOK
  <2>. QED  BY <2>1, <2>2, <2>3
<1>3. sess'.pc = sess.pc /\ sess'.xa = sess.xa /\ sess'.was = sess.was /\ (sess.err => sess'.err)
  BY <1>0, <1>2 DEF Sess
<1>4. \A t \in Trxs : ~Joining(t)
  BY <1>1 DEF Joining
<1>5. Steady
  <2>1. \/ Answered(k, "prepared", "committed") \/ Failed(k, "prepared", "committed")
        \/ Answered(k, "prepared", "undone") \/ Failed(k, "prepared", "undone")
        \/ UNCHANGED branch
    BY DEF ConnCommit, UndoCommit, HookOfConnThrows, serverVars
  <2>. QED  BY <2>1, CommandStates DEF Steady
<1>6. ASSUME NEW t \in Trxs, Resolving(t)', Settling(k, t)
      PROVE  Settling(k, t)' \/ branch'[k][t].st = "committed"
  <2>1. ~sess'.err
    BY <1>6 DEF Resolving
  <2>2. ~UndoCommit(k) /\ sess' # [sess EXCEPT !.err = TRUE]
    BY <1>0, <2>1 DEF UndoCommit, Sess
  <2>3. conn[k].xa = t
    BY <1>6 DEF Settling
  <2>4. CASE Answered(k, "prepared", "committed")
    BY <1>0, <2>3, <2>4, AnsweredState
  <2>5. CASE conn' = [conn EXCEPT ![k].op = "undo"]
    <3>1. conn'[k].xa = conn[k].xa /\ conn'[k].op = "undo"
      BY <1>0, <2>5 DEF TypeOK, Conn
    <3>. QED  BY <2>3, <3>1 DEF Settling
  <2>. QED  BY <1>0, <2>2, <2>3, <2>4, <2>5 DEF ConnCommit
<1>. QED  BY <1>2, <1>3, <1>4, <1>5, <1>6, ConnJoins

\* MyConn.end() by the application, that leaves its XA.
LEMMA EndJoins ==
    ASSUME TypeOK, JoinInv, NEW k \in Conns, End(k)
    PROVE  JoinInv'
<1>1. /\ \A j \in Conns \ {k} : conn'[j] = conn[j]
      /\ sess.pc = "idle" /\ UNCHANGED <<sess, lastTrx, branch>>
      /\ left' = IF conn[k].xa # NoXa THEN left \cup {conn[k].xa} ELSE left
  BY DEF End, serverVars
<1>2. \A t \in Trxs \ left' : ~InTrx(k, t)
  BY <1>1, XaAssumption DEF InTrx, Trxs, NoXa
<1>3. Steady
  BY <1>1 DEF Steady
<1>. QED  BY <1>1, <1>2, <1>3, ConnJoins DEF Resolving

\* The environment keeps JoinInv.
LEMMA EnvJoins == TypeOK /\ JoinInv /\ EnvNext => JoinInv'
<1> SUFFICES ASSUME TypeOK, JoinInv, EnvNext PROVE JoinInv'
  OBVIOUS
<1>0. UNCHANGED branch => Steady
  BY DEF Steady
<1>1. ASSUME NEW k \in Conns, NEW c, branch' = Released(branch, k, c), UNCHANGED <<clientVars, left>>
      PROVE  JoinInv'
  BY <1>1, ReleasedSteady, ServerJoins
<1>2. ASSUME NEW k \in Conns, NEW e \in ending[k], EndCompletes(k, e) PROVE JoinInv'
  BY <1>1, <1>2 DEF EndCompletes, ThreadEnds, history
<1>3. ASSUME NEW k \in Conns, NEW c \in idle[k], PoolCloses(k, c) PROVE JoinInv'
  BY <1>1, <1>3 DEF PoolCloses, ThreadEnds, history
<1>4. ASSUME NEW k \in Conns, NEW c \in alive[k], ConnectionLost(k, c) PROVE JoinInv'
  BY <1>1, <1>4 DEF ConnectionLost, ThreadEnds
<1>5. CASE Crash
  <2>1. ASSUME NEW k \in Conns, NEW t \in Trxs
        PROVE  \/ branch'[k][t] = branch[k][t]
               \/ branch[k][t].st = "active" /\ branch'[k][t].st = "aborted"
    <3>1. branch[k][t] \in Branch
      BY DEF TypeOK
    <3>2. [branch[k][t] EXCEPT !.st = "aborted"].st = "aborted"
      BY <3>1 DEF Branch
    <3>. QED  BY <1>5, <3>2 DEF Crash
  <2>2. Steady
    BY <2>1 DEF Steady
  <2>3. sess'.pc = "idle" /\ sess'.xa = NoXa /\ UNCHANGED <<lastTrx, left>>
    BY <1>5 DEF Crash, NewSess
  <2>. QED  BY <2>2, <2>3, NothingJoins
<1>6. ASSUME NEW k \in Conns, Recover(k) \/ FilterAlive(k) \/ ManagerFails(k) PROVE JoinInv'
  <2>1. UNCHANGED <<clientVars, branch, left>>
    BY <1>6 DEF Recover, FilterAlive, ManagerFails, serverVars, history
  <2>. QED  BY <1>0, <2>1, ServerJoins
<1>7. ASSUME NEW k \in Conns, NEW t \in Trxs, RollbackDangling(k, t) PROVE JoinInv'
  <2>1. UNCHANGED <<clientVars, left>>
    BY <1>7 DEF RollbackDangling, history
  <2>2. CASE UNCHANGED branch
    BY <1>0, <2>1, <2>2, ServerJoins
  <2>3. CASE branch[k][t].st = "prepared" /\ branch' = [branch EXCEPT ![k][t].st = "swept"]
    <3>0. branch \in [Conns -> [Trxs -> Branch]]
      BY DEF TypeOK
    <3>1. \A j \in Conns, u \in Trxs :
             branch'[j][u] = branch[j][u] \/ branch[j][u].st = "prepared"
      BY <2>3, <3>0
    <3>2. \A j \in Conns, u \in Trxs : branch'[j][u].st # "none" => branch[j][u].st # "none"
      BY <3>1
    <3>3. \A j \in Conns, u \in Trxs :
             branch[j][u].st = "committed" => branch'[j][u].st = "committed"
      BY <3>1
    <3>. QED  BY <2>1, <3>2, <3>3, ServerJoins DEF Steady
  <2>. QED  BY <1>7, <2>2, <2>3 DEF RollbackDangling
<1>. QED
  BY <1>2, <1>3, <1>4, <1>5, <1>6, <1>7 DEF EnvNext, ManagerStep

\* When session.commit() is about to resolve, the XA is committed on every
\* server where it began, for any number of connections, faults and XAs, and
\* whatever the manager of any process rolls back meanwhile: a connection that
\* could not commit is an error of #doAll() (my_session.ts:244-279), never a
\* silent success.
THEOREM XaCommitOk == Spec => []CommitOkMeansCommitted
<1>1. Init => JoinInv
  BY DEF Init, JoinInv, NoBranch
<1>2. XaInv /\ JoinInv /\ [Next]_vars => JoinInv'
  <2> SUFFICES ASSUME XaInv, JoinInv, [Next]_vars PROVE JoinInv'
    OBVIOUS
  <2>1. TypeOK /\ XaCore
    BY DEF XaInv, XaCore
  <2>2. CASE UNCHANGED vars
    BY <2>2, ServerJoins DEF vars, serverVars, history, Steady
  <2>3. CASE ConnNext
    BY <2>1, <2>3, QueryJoins, OtherCommandJoins, CommitCommandJoins, EndJoins DEF ConnNext
  <2>. QED  BY <2>1, <2>2, <2>3, SessionJoins, EnvJoins DEF Next
<1>3. XaInv /\ JoinInv => CommitOkMeansCommitted
  <2> SUFFICES ASSUME XaInv, JoinInv, sess.pc = "commit", AllSettled, ~sess.err, sess.was # NoXa,
                      sess.was \notin left, NEW k \in Conns
               PROVE  branch[k][sess.was].st \in {"none", "committed"}
    BY DEF CommitOkMeansCommitted
  <2>1. sess.was \in Trxs /\ Resolving(sess.was)
    BY XaAssumption DEF XaInv, TypeOK, Sess, Trxs, NoXa, Resolving
  <2>2. ~Settling(k, sess.was)
    BY DEF AllSettled, Settling
  <2>. QED  BY <2>1, <2>2 DEF JoinInv
<1>. QED  BY <1>1, <1>2, <1>3, XaInvariant, PTL DEF Spec

-----------------------------------------------------------------------------
(* Whose the threads and the transactions of a server are, if a pooled       *)
(* connection does not die before its next use.                              *)

Used(k) == 1 .. nextCid[k] - 1

\* A connection of the server k is in one place only: with its MyConn, in the
\* pool, or on its way there. What comes from the pool is alive. The XA id of
\* a MyConn names its own connection.
ThreadOk(k) ==
    /\ idle[k] \subseteq alive[k] /\ alive[k] \subseteq Used(k)
    /\ conn[k].proto # NoCid => conn[k].proto \in Used(k) /\ conn[k].proto \notin idle[k]
    /\ \A e \in ending[k] : e.cid \in Used(k) /\ e.cid \notin idle[k] /\ e.cid # conn[k].proto
    /\ \A e, f \in ending[k] : e.cid = f.cid => e = f
    /\ conn[k].fresh => conn[k].proto \in alive[k]
    /\ conn[k].xaCid \in {NoCid, conn[k].proto}
    /\ conn[k].op \notin {"no", "query"} => ~conn[k].fresh

\* A transaction that began on the server k has the id of the thread that began
\* it, and is not going to begin again.
OwnerOk(k) ==
    \A t \in Trxs : branch[k][t].st # "none" =>
        /\ branch[k][t].id = branch[k][t].by /\ branch[k][t].by \in Used(k)
        /\ t <= lastTrx /\ (sess.xa = t => k \in members)
        /\ conn[k].xa = t => conn[k].pending # "xa" /\ conn[k].proto = branch[k][t].by

\* The manager has a list of transactions that began, and sweeps those whose
\* thread is dead. No thread comes to life again.
SweepOk(k) ==
    mgr[k].pc # "recover" => \A t \in mgr[k].xas :
        /\ branch[k][t].st # "none"
        /\ mgr[k].pc = "sweep" => branch[k][t].id \notin alive[k]

OwnInv == \A k \in Conns : ThreadOk(k) /\ OwnerOk(k) /\ SweepOk(k)

\* A step at one server
OneServer(k) == \A j \in Conns \ {k} :
    /\ conn'[j] = conn[j] /\ branch'[j] = branch[j] /\ alive'[j] = alive[j]
    /\ idle'[j] = idle[j] /\ ending'[j] = ending[j] /\ nextCid'[j] = nextCid[j]
    /\ mgr'[j] = mgr[j]

\* A step at one server leaves the others as they are.
LEMMA OthersOwn ==
    ASSUME OwnInv, NEW k \in Conns, OneServer(k),
           UNCHANGED <<members, lastTrx>>, sess'.xa = sess.xa,
           (ThreadOk(k) /\ OwnerOk(k) /\ SweepOk(k))'
    PROVE  OwnInv'
<1> SUFFICES ASSUME NEW j \in Conns, j # k PROVE (ThreadOk(j) /\ OwnerOk(j) /\ SweepOk(j))'
  BY DEF OwnInv
<1>0. /\ conn'[j] = conn[j] /\ branch'[j] = branch[j] /\ alive'[j] = alive[j]
      /\ idle'[j] = idle[j] /\ ending'[j] = ending[j] /\ nextCid'[j] = nextCid[j]
      /\ mgr'[j] = mgr[j]
  BY DEF OneServer
<1>1. ThreadOk(j)'
  BY <1>0 DEF OwnInv, ThreadOk, Used
<1>2. OwnerOk(j)'
  BY <1>0 DEF OwnInv, OwnerOk, Used
<1>3. SweepOk(j)'
  BY <1>0 DEF OwnInv, SweepOk
<1>. QED  BY <1>1, <1>2, <1>3

\* A transaction as it was, or in another state
SameOwner(k) == \A t \in Trxs :
    /\ branch'[k][t].id = branch[k][t].id /\ branch'[k][t].by = branch[k][t].by
    /\ branch'[k][t].st = "none" <=> branch[k][t].st = "none"

\* The manager is not concerned.
LEMMA SweepKept ==
    ASSUME TypeOK, NEW k \in Conns, OwnerOk(k), SweepOk(k), mgr'[k] = mgr[k],
           \A t \in Trxs : branch[k][t].st # "none" =>
               branch'[k][t].st # "none" /\ branch'[k][t].id = branch[k][t].id,
           alive'[k] \subseteq alive[k] \cup {nextCid[k]}
    PROVE  SweepOk(k)'
<1>1. mgr[k].xas \subseteq Trxs
  BY DEF TypeOK, Manager
<1>2. ASSUME NEW t \in mgr[k].xas, mgr[k].pc # "recover"
      PROVE  branch[k][t].st # "none" /\ branch[k][t].id # nextCid[k]
  <2>1. branch[k][t].st # "none" /\ branch[k][t].id \in Used(k)
    BY <1>1, <1>2 DEF SweepOk, OwnerOk
  <2>. QED  BY <2>1 DEF Used, TypeOK
<1>. QED  BY <1>1, <1>2 DEF SweepOk

\* A MyConn after a synchronous piece of code
Follows(c, d) ==
    /\ d.proto = c.proto
    /\ d.fresh => c.fresh
    /\ d.xaCid \in {NoCid, c.xaCid, c.proto}
    /\ d.op \notin {"no", "query"} => ~d.fresh

\* ... that keeps its connection, which may be lost.
LEMMA ThreadKept ==
    ASSUME TypeOK, NEW k \in Conns, ThreadOk(k), Follows(conn[k], conn'[k]),
           idle'[k] = idle[k], ending'[k] = ending[k], nextCid'[k] = nextCid[k],
           \/ alive'[k] = alive[k]
           \/ ~conn'[k].fresh /\ alive'[k] = alive[k] \ {conn[k].proto}
    PROVE  ThreadOk(k)'
<1>1. conn[k].proto \notin idle[k]
  BY DEF ThreadOk, TypeOK, Cids, NoCid
<1>. QED  BY <1>1 DEF ThreadOk, Used, Follows

\* ... that gives its connection back.
LEMMA ThreadReturned ==
    ASSUME TypeOK, NEW k \in Conns, ThreadOk(k),
           conn'[k].proto = NoCid, ~conn'[k].fresh, conn'[k].xaCid = NoCid,
           idle'[k] = idle[k], ending'[k] = Returned(k), nextCid'[k] = nextCid[k],
           \/ alive'[k] = alive[k]
           \/ alive'[k] = alive[k] \ {conn[k].proto}
    PROVE  ThreadOk(k)'
<1>0. conn[k].proto \notin idle[k]
  BY DEF ThreadOk, TypeOK, Cids, NoCid
<1>1. \A e \in ending[k] : e.cid # NoCid
  BY DEF TypeOK, Cids, NoCid
<1>2. \A e \in ending'[k] : e \in ending[k] \/ (e.cid = conn[k].proto /\ conn[k].proto # NoCid)
  BY DEF Returned
<1>3. \A e, f \in ending'[k] : e.cid = f.cid => e = f
  BY DEF Returned, ThreadOk
<1>4. \A e \in ending'[k] : e.cid \in Used(k) /\ e.cid \notin idle[k] /\ e.cid # NoCid
  BY <1>1, <1>2 DEF ThreadOk
<1>5. alive'[k] \subseteq alive[k] /\ idle[k] \subseteq alive'[k]
  BY <1>0 DEF ThreadOk
<1>. QED  BY <1>3, <1>4, <1>5 DEF ThreadOk, Used

\* A MyConn stays in its transaction, or leaves it.
StaysOrLeaves(c, d) ==
    \/ d.xa = NoXa
    \/ d.xa = c.xa /\ d.proto = c.proto /\ (d.pending = "xa" => c.pending = "xa")

LEMMA OwnerKept ==
    ASSUME NEW k \in Conns, OwnerOk(k), SameOwner(k), StaysOrLeaves(conn[k], conn'[k]),
           nextCid'[k] = nextCid[k], lastTrx' = lastTrx, members \subseteq members',
           sess'.xa \in {NoXa, sess.xa}
    PROVE  OwnerOk(k)'
<1>1. \A t \in Trxs : t # NoXa
  BY XaAssumption DEF Trxs, NoXa
<1>. QED  BY <1>1 DEF OwnerOk, SameOwner, StaysOrLeaves, Used

-----------------------------------------------------------------------------
\* What the end of a thread does to the transactions of the servers.
LEMMA ReleasedFacts ==
    ASSUME NEW bs \in [Conns -> [Trxs -> Branch]], NEW k \in Conns, NEW c
    PROVE  /\ \A j \in Conns \ {k} : Released(bs, k, c)[j] = bs[j]
           /\ \A t \in Trxs :
                 /\ Released(bs, k, c)[k][t].id = bs[k][t].id
                 /\ Released(bs, k, c)[k][t].by = bs[k][t].by
                 /\ \/ Released(bs, k, c)[k][t].st = bs[k][t].st
                    \/ bs[k][t].st = "active" /\ Released(bs, k, c)[k][t].st = "aborted"
<1>1. \A j \in Conns \ {k} : Released(bs, k, c)[j] = bs[j]
  BY DEF Released
<1>2. ASSUME NEW t \in Trxs
      PROVE  /\ Released(bs, k, c)[k][t].id = bs[k][t].id
             /\ Released(bs, k, c)[k][t].by = bs[k][t].by
  <2>1. bs[k][t] \in Branch
    OBVIOUS
  <2>2. [bs[k][t] EXCEPT !.st = "aborted"].id = bs[k][t].id
        /\ [bs[k][t] EXCEPT !.st = "aborted"].by = bs[k][t].by
    BY <2>1 DEF Branch
  <2>3. Released(bs, k, c)[k][t] =
           IF bs[k][t].by = c /\ bs[k][t].st = "active"
           THEN [bs[k][t] EXCEPT !.st = "aborted"] ELSE bs[k][t]
    BY DEF Released
  <2>. QED  BY <2>2, <2>3
<1>. QED  BY <1>1, <1>2, ReleasedStates

\* The end of a thread leaves it to whom the transactions belong.
LEMMA ReleasedOwners ==
    ASSUME TypeOK, NEW k \in Conns, NEW c, branch' = Released(branch, k, c)
    PROVE  SameOwner(k) /\ \A j \in Conns \ {k} : branch'[j] = branch[j]
<1>1. branch \in [Conns -> [Trxs -> Branch]]
  BY DEF TypeOK
<1>2. \A j \in Conns \ {k} : branch'[j] = branch[j]
  BY <1>1, ReleasedFacts
<1>3. ASSUME NEW t \in Trxs
      PROVE  /\ branch'[k][t].id = branch[k][t].id /\ branch'[k][t].by = branch[k][t].by
             /\ \/ branch'[k][t].st = branch[k][t].st
                \/ branch[k][t].st = "active" /\ branch'[k][t].st = "aborted"
  BY <1>1, ReleasedFacts
<1>. QED  BY <1>2, <1>3 DEF SameOwner

\* What a command does to them, also if it is not answered: the transaction of
\* the MyConn goes on to its next state, and those of the thread may be lost.
LEMMA CommandFacts ==
    ASSUME TypeOK, NEW k \in Conns, NEW from,
           NEW to \in {"aborted", "prepared", "committed", "undone"},
           from # "none",
           Answered(k, from, to) \/ Failed(k, from, to)
    PROVE  /\ \A j \in Conns \ {k} : branch'[j] = branch[j] /\ alive'[j] = alive[j]
           /\ SameOwner(k)
           /\ alive'[k] = alive[k] \/ alive'[k] = alive[k] \ {conn[k].proto}
           /\ \A t \in Trxs : \/ branch'[k][t].st = branch[k][t].st
                              \/ branch[k][t].st = "active" /\ branch'[k][t].st = "aborted"
                              \/ /\ conn[k].xa = t /\ branch[k][t].st = from
                                 /\ branch'[k][t].st = to
<1> DEFINE ex == Executed(k, to)
<1>1. ex \in [Conns -> [Trxs -> Branch]]
  BY ExecutedType DEF TypeOK
<1>2. \A j \in Conns \ {k} : ex[j] = branch[j]
  BY DEF Executed, TypeOK
<1>3. ASSUME NEW t \in Trxs
      PROVE  ex[k][t].id = branch[k][t].id /\ ex[k][t].by = branch[k][t].by
  <2>1. branch[k][t] \in Branch /\ branch \in [Conns -> [Trxs -> Branch]]
    BY DEF TypeOK
  <2>2. [branch[k][t] EXCEPT !.st = to].id = branch[k][t].id
        /\ [branch[k][t] EXCEPT !.st = to].by = branch[k][t].by
    BY <2>1 DEF Branch
  <2>3. ex[k][t] \in {branch[k][t], [branch[k][t] EXCEPT !.st = to]}
    BY <2>1 DEF Executed
  <2>. QED  BY <2>2, <2>3
<1>4. ASSUME Accepts(k, from), NEW t \in Trxs
      PROVE  \/ ex[k][t].st = branch[k][t].st
             \/ conn[k].xa = t /\ branch[k][t].st = from /\ ex[k][t].st = to
  BY <1>4, ExecutedStates
<1> HIDE DEF ex
<1>5. CASE UNCHANGED <<branch, alive>>
  BY <1>5 DEF SameOwner
<1>6. CASE Accepts(k, from) /\ branch' = ex /\ alive' = alive
  BY <1>2, <1>3, <1>4, <1>6 DEF SameOwner
<1>7. CASE Accepts(k, from) /\ ThreadEnds(ex, k, conn[k].proto)
  <2>1. /\ branch' = Released(ex, k, conn[k].proto)
        /\ alive' = [alive EXCEPT ![k] = @ \ {conn[k].proto}]
    BY <1>7 DEF ThreadEnds
  <2>2. \A j \in Conns \ {k} : branch'[j] = branch[j] /\ alive'[j] = alive[j]
    <3>1. \A j \in Conns \ {k} : branch'[j] = branch[j]
      BY <1>1, <1>2, <2>1, ReleasedFacts
    <3>2. \A j \in Conns \ {k} : alive'[j] = alive[j]
      BY <2>1 DEF TypeOK
    <3>. QED  BY <3>1, <3>2
  <2>3. alive'[k] = alive[k] \ {conn[k].proto}
    BY <2>1 DEF TypeOK
  <2>4. ASSUME NEW t \in Trxs
        PROVE  /\ branch'[k][t].id = branch[k][t].id /\ branch'[k][t].by = branch[k][t].by
               /\ \/ branch'[k][t].st = ex[k][t].st
                  \/ ex[k][t].st = "active" /\ branch'[k][t].st = "aborted"
    BY <1>1, <1>3, <2>1, ReleasedFacts
  <2>5. ASSUME NEW t \in Trxs
        PROVE  \/ branch'[k][t].st = branch[k][t].st
               \/ branch[k][t].st = "active" /\ branch'[k][t].st = "aborted"
               \/ /\ conn[k].xa = t /\ branch[k][t].st = from
                  /\ branch'[k][t].st = to
    BY <1>4, <1>7, <2>4
  <2>6. SameOwner(k)
    BY <2>4, <2>5 DEF SameOwner
  <2>. QED  BY <2>2, <2>3, <2>5, <2>6
<1>. QED  BY <1>5, <1>6, <1>7 DEF Answered, Failed, ex

-----------------------------------------------------------------------------
\* A MyConn with a transaction goes on with a command; one without is reset.
Carried(k) ==
    /\ conn'[k].proto = conn[k].proto /\ conn'[k].fresh = conn[k].fresh
    /\ conn'[k].xaCid = conn[k].xaCid /\ conn'[k].xa = conn[k].xa
    /\ conn'[k].prepared = conn[k].prepared /\ conn'[k].pending = conn[k].pending
    /\ \/ conn'[k].op = "no"
       \/ conn'[k].op \in {"prepare", "commit", "rollback", "chain"} /\ HasWork(conn[k])

Dropped(k) ==
    /\ conn'[k].proto = conn[k].proto /\ conn'[k].fresh = conn[k].fresh
    /\ conn'[k].xaCid = NoCid /\ conn'[k].xa = NoXa
    /\ ~conn'[k].prepared /\ conn'[k].pending = "no" /\ conn'[k].op = "no"
    /\ ~HasWork(conn[k])

AllMove == \A k \in Conns : Carried(k) \/ Dropped(k)

\* The session goes from one phase to the next, or ends its operation.
MovesOn ==
    /\ AllSettled /\ AllMove
    /\ UNCHANGED <<members, lastTrx, poolVars, serverVars, mgr, faults, history>>
    /\ sess'.xa \in {NoXa, sess.xa}
    /\ sess.pc = "prepare" /\ sess.err => sess'.pc = "rollback"
    /\ sess'.pc = "commit" => \A k \in Conns :
          conn'[k].xa # NoXa => conn'[k].op = "commit" /\ conn'[k].prepared

\* The session starts a transaction in all its connections.
StartsAll ==
    /\ AllSettled
    /\ \A k \in Conns : conn'[k] = IF k \in members THEN ConnStartTrx(conn[k], sess'.xa) ELSE conn[k]
    /\ UNCHANGED <<members, poolVars, serverVars, mgr, faults, history>>
    /\ sess'.xa = NoXa \/ sess'.xa = lastTrx + 1
    /\ lastTrx <= lastTrx' /\ sess'.pc = "idle"
    /\ members # {} => sess.pc = "commit"

\* The phases of the session are such steps.
LEMMA ResetCid == ASSUME NEW c \in Conn PROVE Reset(c).xaCid = NoCid
BY ConnTypes DEF Reset, Conn

LEMMA PrepareMoves ==
    ASSUME TypeOK, AllSettled, NEW s \in Sess, EnterPrepare(s)
    PROVE  AllMove /\ sess'.xa = s.xa /\ sess'.pc = "prepare"
<1>1. sess'.xa = s.xa /\ sess'.pc = "prepare"
  BY DEF EnterPrepare, Sess
<1>2. ASSUME NEW k \in Conns PROVE Carried(k)
  <2>0. conn[k] \in Conn /\ conn[k].op = "no"
    BY DEF TypeOK, AllSettled
  <2>1. CASE k \in members /\ CanPrepare(conn[k])
    <3>1. conn'[k] = [conn[k] EXCEPT !.op = "prepare"]
      BY <2>1 DEF EnterPrepare
    <3>2. HasWork(conn[k])
      BY <2>1 DEF CanPrepare, HasWork
    <3>. QED  BY <2>0, <3>1, <3>2 DEF Carried, Conn
  <2>2. CASE ~(k \in members /\ CanPrepare(conn[k]))
    <3>1. conn'[k] = conn[k]
      BY <2>2 DEF EnterPrepare
    <3>. QED  BY <2>0, <3>1 DEF Carried
  <2>. QED  BY <2>1, <2>2
<1>. QED  BY <1>1, <1>2 DEF AllMove

LEMMA CommitMoves ==
    ASSUME TypeOK, XaCore, AllSettled, sess.pc = "prepare", ~sess.err, EnterCommit(sess)
    PROVE  /\ AllMove /\ sess'.xa = sess.xa /\ sess'.pc = "commit"
           /\ \A k \in Conns :
                 conn'[k].xa # NoXa => conn'[k].op = "commit" /\ conn'[k].prepared
<1>1. sess'.xa = sess.xa /\ sess'.pc = "commit"
  <2>1. sess \in Sess
    BY DEF TypeOK
  <2>. QED  BY <2>1 DEF EnterCommit, Sess
<1>2. ASSUME NEW k \in Conns
      PROVE  /\ Carried(k) \/ Dropped(k)
             /\ conn'[k].xa # NoXa => conn'[k].op = "commit" /\ conn'[k].prepared
  <2>0. conn[k] \in Conn /\ conn[k].op = "no" /\ ~Unprepared(conn[k])
    BY DEF TypeOK, AllSettled, XaCore, PhaseInv
  <2>1. CASE k \in members /\ HasWork(conn[k])
    <3>1. conn'[k] = [conn[k] EXCEPT !.op = "commit"]
      BY <2>0, <2>1 DEF EnterCommit
    <3>2. conn'[k].op = "commit" /\ conn'[k].xa = conn[k].xa /\ conn'[k].prepared = conn[k].prepared
      BY <2>0, <3>1 DEF Conn
    <3>3. Carried(k)
      BY <2>0, <2>1, <3>1 DEF Carried, Conn
    <3>. QED  BY <2>0, <2>1, <3>2, <3>3 DEF Unprepared
  <2>2. CASE k \in members /\ ~HasWork(conn[k])
    <3>1. conn'[k] = Reset(conn[k])
      BY <2>0, <2>2 DEF EnterCommit
    <3>2. conn'[k].xa = NoXa /\ Dropped(k)
      BY <2>0, <2>2, <3>1, ResetFields, ResetCid DEF Dropped
    <3>. QED  BY <3>2
  <2>3. CASE k \notin members
    <3>1. conn'[k] = conn[k] /\ conn[k].xa = NoXa
      BY <2>3, NewFields DEF EnterCommit, XaCore, ConnInv
    <3>. QED  BY <2>0, <3>1 DEF Carried
  <2>. QED  BY <2>1, <2>2, <2>3
<1>. QED  BY <1>1, <1>2 DEF AllMove

LEMMA RollbackMoves ==
    ASSUME TypeOK, AllSettled, NEW s \in Sess, NEW how \in {"rollback", "chain"},
           EnterRollback(s, how)
    PROVE  AllMove /\ sess'.xa = s.xa /\ sess'.pc = "rollback"
<1>1. sess'.xa = s.xa /\ sess'.pc = "rollback"
  BY DEF EnterRollback, Sess
<1>2. ASSUME NEW k \in Conns PROVE Carried(k) \/ Dropped(k)
  <2>0. conn[k] \in Conn /\ conn[k].op = "no"
    BY DEF TypeOK, AllSettled
  <2>1. CASE k \in members /\ HasWork(conn[k])
    <3>1. conn'[k] = [conn[k] EXCEPT !.op = how]
      BY <2>0, <2>1 DEF EnterRollback
    <3>2. Carried(k)
      BY <2>0, <2>1, <3>1 DEF Carried, Conn
    <3>. QED  BY <3>2
  <2>2. CASE k \in members /\ ~HasWork(conn[k])
    <3>1. conn'[k] = Reset(conn[k])
      BY <2>0, <2>2 DEF EnterRollback
    <3>2. Dropped(k)
      BY <2>0, <2>2, <3>1, ResetFields, ResetCid DEF Dropped
    <3>. QED  BY <3>2
  <2>3. CASE k \notin members
    <3>1. conn'[k] = conn[k]
      BY <2>3 DEF EnterRollback
    <3>. QED  BY <2>0, <3>1 DEF Carried
  <2>. QED  BY <2>1, <2>2, <2>3
<1>. QED  BY <1>1, <1>2 DEF AllMove

\* A MyConn that nothing happens to
LEMMA NothingMoves == AllSettled /\ UNCHANGED conn => AllMove
BY DEF AllSettled, AllMove, Carried

\* commit() begins.
LEMMA CommitCalledMoves ==
    ASSUME TypeOK, AllSettled, NEW s \in Sess, BeginCommit(s)
    PROVE  AllMove /\ sess'.xa = NoXa /\ sess'.pc \in {"hook", "prepare"}
<1> DEFINE s1 == [s EXCEPT !.was = s.xa, !.on = FALSE, !.xa = NoXa]
<1>0. NoXa \in 0 .. MaxTrx
  BY XaAssumption DEF NoXa
<1>1. s1 \in Sess /\ s1.xa = NoXa
  BY <1>0 DEF Sess
<1>2. HasHook => sess' = [s1 EXCEPT !.pc = "hook"] /\ UNCHANGED conn
  BY DEF BeginCommit
<1>3. ~HasHook => EnterPrepare(s1)
  BY DEF BeginCommit
<1> HIDE DEF s1
<1>4. CASE ~HasHook
  BY <1>1, <1>3, <1>4, PrepareMoves
<1>5. CASE HasHook
  <2>1. sess'.pc = "hook" /\ sess'.xa = NoXa
    BY <1>1, <1>2, <1>5 DEF Sess
  <2>. QED  BY <1>2, <1>5, <2>1, NothingMoves
<1>. QED  BY <1>4, <1>5

\* startTrx() begins with a commit, or at once.
LEMMA StartCalledMoves ==
    ASSUME TypeOK, XaCore, AllSettled, NEW s \in Sess, NEW kind \in {"plain", "xa"},
           BeginStartTrx(s, kind), sess.pc # "prepare", Local
    PROVE  MovesOn \/ StartsAll
<1>1. ASSUME members = {} PROVE StartsAll
  <2>1. Started(s, kind)
    BY <1>1 DEF BeginStartTrx
  <2> DEFINE xa == IF kind = "xa" THEN lastTrx + 1 ELSE NoXa
  <2>2. sess' = [NewSess EXCEPT !.on = TRUE, !.xa = xa]
    BY <2>1 DEF Started
  <2>3. sess'.pc = "idle" /\ sess'.xa = xa
    BY <2>2 DEF NewSess
  <2>. QED  BY <1>1, <2>1, <2>3, XaAssumption DEF Started, StartsAll, Local, TypeOK
<1>2. ASSUME members # {} PROVE MovesOn
  <2>1. [s EXCEPT !.chain = FALSE, !.start = kind] \in Sess
    BY DEF Sess
  <2>2. BeginCommit([s EXCEPT !.chain = FALSE, !.start = kind]) /\ UNCHANGED lastTrx
    BY <1>2 DEF BeginStartTrx
  <2>3. AllMove /\ sess'.xa = NoXa /\ sess'.pc \in {"hook", "prepare"}
    BY <2>1, <2>2, CommitCalledMoves
  <2>. QED  BY <1>2, <2>2, <2>3 DEF MovesOn, Local
<1>. QED  BY <1>1, <1>2

\* Every step of a session that is not joined and not disposed is one of these.
LEMMA SessionKinds ==
    ASSUME TypeOK, XaCore, SessionNext
    PROVE  \/ \E k \in Conns : SessionConn(k)
           \/ MovesOn \/ StartsAll \/ DisposeSession
<1>0. sess \in Sess /\ NoXa \in 0 .. MaxTrx
  BY XaAssumption DEF TypeOK, NoXa
<1>1. ASSUME AllSettled, Local, UNCHANGED lastTrx, AllMove, sess'.xa \in {NoXa, sess.xa},
             sess.pc # "prepare" \/ sess'.pc = "rollback", sess'.pc # "commit"
      PROVE  MovesOn
  BY <1>1 DEF MovesOn, Local
<1>2. ASSUME NEW s \in Sess, NEW how \in {"rollback", "chain"}, EnterRollback(s, how),
             AllSettled, Local, UNCHANGED lastTrx, s.xa \in {NoXa, sess.xa}
      PROVE  MovesOn
  BY <1>1, <1>2, RollbackMoves
<1>3. ASSUME RollbackInCommit, AllSettled, Local, UNCHANGED lastTrx PROVE MovesOn
  <2>1. [sess EXCEPT !.failing = TRUE] \in Sess /\ [sess EXCEPT !.failing = TRUE].xa = sess.xa
    BY <1>0 DEF Sess
  <2>. QED  BY <1>2, <1>3, <2>1 DEF RollbackInCommit
<1>4. ASSUME AllSettled, Local, sess.pc # "prepare", UNCHANGED <<conn, lastTrx>>,
             sess' = Finished(sess) \/ sess' = NewSess
      PROVE  MovesOn
  <2>1. sess'.pc = "idle" /\ sess'.xa \in {NoXa, sess.xa}
    <3>1. NewSess.pc = "idle" /\ NewSess.xa = NoXa /\ NewSess \in Sess
      BY NewTypes DEF NewSess
    <3>2. Finished(sess).pc = NewSess.pc /\ Finished(sess).xa = sess.xa
      BY <3>1 DEF Finished, Sess
    <3>. QED  BY <1>4, <3>1, <3>2
  <2>. QED  BY <1>1, <1>4, <2>1, NothingMoves
<1>5. ASSUME NEW kind \in {"plain", "xa"}, StartTrx(kind) PROVE MovesOn \/ StartsAll
  BY <1>0, <1>5, StartCalledMoves DEF StartTrx
<1>6. ASSUME NEW b \in BOOLEAN, Commit(b) PROVE MovesOn
  <2>1. AllSettled /\ Local /\ sess.pc = "idle" /\ UNCHANGED lastTrx
    BY <1>6 DEF Commit
  <2>2. CASE members = {}
    BY <1>4, <1>6, <2>1, <2>2 DEF Commit
  <2>3. CASE members # {}
    <3>1. [sess EXCEPT !.chain = b] \in Sess
      BY <1>0 DEF Sess
    <3>2. BeginCommit([sess EXCEPT !.chain = b])
      BY <1>6, <2>3 DEF Commit
    <3>3. AllMove /\ sess'.xa = NoXa /\ sess'.pc \in {"hook", "prepare"}
      BY <2>1, <3>1, <3>2, CommitCalledMoves
    <3>. QED  BY <1>1, <2>1, <3>3
  <2>. QED  BY <2>2, <2>3
<1>7. ASSUME NEW b \in BOOLEAN, Rollback(b) PROVE MovesOn
  <2>1. AllSettled /\ Local /\ UNCHANGED lastTrx
    BY <1>7 DEF Rollback
  <2> DEFINE s == [sess EXCEPT !.on = FALSE, !.xa = NoXa, !.restart = b]
  <2>2. s \in Sess /\ s.xa = NoXa
    BY <1>0 DEF Sess
  <2>3. EnterRollback(sess, "chain") \/ EnterRollback(s, "rollback")
    BY <1>7 DEF Rollback
  <2> HIDE DEF s
  <2>. QED  BY <1>0, <1>2, <2>1, <2>2, <2>3
<1>8. CASE HookReturns
  <2>1. AllMove /\ sess'.xa = sess.xa /\ sess'.pc = "prepare"
    BY <1>0, <1>8, PrepareMoves DEF HookReturns
  <2>. QED  BY <1>1, <1>8, <2>1 DEF HookReturns
<1>9. CASE HookThrows
  BY <1>3, <1>9 DEF HookThrows
<1>10. CASE PrepareEnds
  <2>1. CASE sess.err
    BY <1>3, <1>10, <2>1 DEF PrepareEnds
  <2>2. CASE ~sess.err
    <3>1. /\ AllMove /\ sess'.xa = sess.xa
          /\ \A k \in Conns :
                 conn'[k].xa # NoXa => conn'[k].op = "commit" /\ conn'[k].prepared
      BY <1>10, <2>2, CommitMoves DEF PrepareEnds
    <3>. QED  BY <1>10, <2>2, <3>1 DEF PrepareEnds, MovesOn, Local
  <2>. QED  BY <1>0, <2>1, <2>2 DEF Sess
<1>11. CASE CommitEnds
  <2>1. AllSettled /\ Local /\ sess.pc = "commit"
    BY <1>11 DEF CommitEnds
  <2>2. (IF sess.was # NoXa THEN "xa" ELSE "plain") \in {"plain", "xa"}
    OBVIOUS
  <2>3. sess.start # "no" => sess.start \in {"plain", "xa"}
    BY <1>0 DEF Sess
  <2>4. CASE sess' = Finished(sess) /\ UNCHANGED <<conn, lastTrx>>
    BY <1>4, <2>1, <2>4
  <2>5. CASE BeginStartTrx(sess, IF sess.was # NoXa THEN "xa" ELSE "plain")
    BY <1>0, <2>1, <2>2, <2>5, StartCalledMoves
  <2>6. ASSUME NEW kind \in {"plain", "xa"}, Started(sess, kind) PROVE StartsAll
    <3> DEFINE xa == IF kind = "xa" THEN lastTrx + 1 ELSE NoXa
    <3>1. sess' = [NewSess EXCEPT !.on = TRUE, !.xa = xa]
      BY <2>6 DEF Started
    <3>2. sess'.pc = "idle" /\ sess'.xa = xa
      BY <3>1 DEF NewSess
    <3>. QED  BY <2>1, <2>6, <3>2, XaAssumption DEF Started, StartsAll, Local, TypeOK
  <2>. QED  BY <1>11, <2>3, <2>4, <2>5, <2>6 DEF CommitEnds
<1>12. CASE RollbackEnds
  <2>1. AllSettled /\ Local /\ sess.pc = "rollback"
    BY <1>12 DEF RollbackEnds
  <2>2. CASE sess' = Finished(sess) /\ UNCHANGED <<conn, lastTrx>>
    BY <1>4, <2>1, <2>2
  <2>3. CASE BeginStartTrx([sess EXCEPT !.restart = FALSE], "xa")
    <3>1. [sess EXCEPT !.restart = FALSE] \in Sess
      BY <1>0 DEF Sess
    <3>. QED  BY <2>1, <2>3, <3>1, StartCalledMoves
  <2>. QED  BY <1>12, <2>2, <2>3 DEF RollbackEnds
<1>. QED
  BY <1>5, <1>6, <1>7, <1>8, <1>9, <1>10, <1>11, <1>12 DEF SessionNext

-----------------------------------------------------------------------------
\* startTrx() of a MyConn gives it the transaction.
LEMMA StartFields ==
    ASSUME NEW c \in Conn, NEW xa
    PROVE  /\ ConnStartTrx(c, xa).proto = c.proto /\ ConnStartTrx(c, xa).fresh = c.fresh
           /\ ConnStartTrx(c, xa).inTrans = c.inTrans /\ ConnStartTrx(c, xa).prepared = c.prepared
           /\ ConnStartTrx(c, xa).op = c.op /\ ConnStartTrx(c, xa).xa = xa
           /\ ConnStartTrx(c, xa).xaCid \in {NoCid, c.proto}
           /\ ConnStartTrx(c, xa).pending \in {"plain", "xa"}
BY DEF ConnStartTrx, Conn

LEMMA NewCid == NewConn.xaCid = NoCid /\ NewConn \in Conn
BY NewTypes DEF NewConn

\* When it concerns no server, a step keeps all that is not its MyConn.
LEMMA ClientOwns ==
    ASSUME TypeOK, OwnInv, UNCHANGED <<poolVars, serverVars, mgr>>,
           \A k \in Conns : Follows(conn[k], conn'[k]) /\ OwnerOk(k)'
    PROVE  OwnInv'
<1> SUFFICES ASSUME NEW k \in Conns PROVE (ThreadOk(k) /\ OwnerOk(k) /\ SweepOk(k))'
  BY DEF OwnInv
<1>1. UNCHANGED <<idle, ending, nextCid, alive, branch, mgr>>
  BY DEF poolVars, serverVars
<1>2. ThreadOk(k)'
  BY <1>1, ThreadKept DEF OwnInv
<1>3. SweepOk(k)'
  BY <1>1, SweepKept DEF OwnInv
<1>. QED  BY <1>2, <1>3

\* A step of the session
LEMMA SessionOwns == TypeOK /\ XaCore /\ OwnInv /\ SessionNext => OwnInv'
<1> SUFFICES ASSUME TypeOK, XaCore, OwnInv, SessionNext PROVE OwnInv'
  OBVIOUS
<1>0. /\ \A k \in Conns : conn[k] \in Conn /\ (conn[k].op \notin {"no", "query"} => ~conn[k].fresh)
      /\ \A t \in Trxs : t # NoXa
  BY XaAssumption DEF OwnInv, ThreadOk, TypeOK, Trxs, NoXa
<1>1. ASSUME NEW k \in Conns, SessionConn(k) PROVE OwnInv'
  <2> DEFINE c == ConnStartTrx(conn[k], sess.xa)
  <2>1. /\ UNCHANGED <<sess, lastTrx, poolVars, serverVars, mgr>>
        /\ members' = members \cup {k} /\ k \notin members
        /\ \A j \in Conns \ {k} : conn'[j] = conn[j]
        /\ conn'[k] = IF sess.on THEN c ELSE conn[k]
    BY <1>1 DEF SessionConn, TypeOK
  <2>2. c.proto = conn[k].proto /\ c.fresh = conn[k].fresh /\ c.op = conn[k].op
        /\ c.xa = sess.xa /\ c.xaCid \in {NoCid, conn[k].proto}
    BY <1>0, StartFields
  <2> HIDE DEF c
  <2>3. \A j \in Conns : Follows(conn[j], conn'[j])
    BY <1>0, <2>1, <2>2 DEF Follows
  <2>4. ASSUME NEW j \in Conns PROVE OwnerOk(j)'
    <3>1. CASE j = k
      <4>1. \A t \in Trxs : branch[k][t].st # "none" => sess.xa # t /\ conn[k].xa # t
        BY <1>0, <2>1, NewFields DEF OwnInv, OwnerOk, XaCore, ConnInv
      <4>2. \A t \in Trxs : branch[k][t].st # "none" => conn'[k].xa # t
        BY <2>1, <2>2, <4>1
      <4>3. branch' = branch /\ nextCid' = nextCid /\ sess' = sess /\ lastTrx' = lastTrx
        BY <2>1 DEF serverVars, poolVars
      <4>. QED  BY <3>1, <4>1, <4>2, <4>3 DEF OwnInv, OwnerOk, Used
    <3>2. CASE j # k
      <4>1. conn'[j] = conn[j] /\ branch' = branch /\ nextCid' = nextCid /\ sess' = sess /\ lastTrx' = lastTrx
            /\ members \subseteq members'
        BY <2>1, <3>2 DEF serverVars, poolVars
      <4>. QED  BY <4>1 DEF OwnInv, OwnerOk, Used
    <3>. QED  BY <3>1, <3>2
  <2>. QED  BY <2>1, <2>3, <2>4, ClientOwns
<1>2. CASE MovesOn
  <2>1. UNCHANGED <<members, lastTrx, poolVars, serverVars, mgr>> /\ sess'.xa \in {NoXa, sess.xa}
    BY <1>2 DEF MovesOn
  <2>2. ASSUME NEW k \in Conns PROVE Follows(conn[k], conn'[k]) /\ StaysOrLeaves(conn[k], conn'[k])
    <3>1. HasWork(conn[k]) => ~conn[k].fresh
      BY DEF XaCore, ConnInv, HasWork
    <3>2. Carried(k) \/ Dropped(k)
      BY <1>2 DEF MovesOn, AllMove
    <3>. QED  BY <3>1, <3>2 DEF Carried, Dropped, Follows, StaysOrLeaves
  <2>3. ASSUME NEW k \in Conns PROVE OwnerOk(k)'
    <3>1. SameOwner(k) /\ nextCid'[k] = nextCid[k]
      BY <2>1 DEF SameOwner, serverVars, poolVars
    <3>. QED  BY <2>1, <2>2, <3>1, OwnerKept DEF OwnInv
  <2>. QED  BY <2>1, <2>2, <2>3, ClientOwns
<1>3. CASE StartsAll
  <2>1. UNCHANGED <<members, poolVars, serverVars, mgr>>
    BY <1>3 DEF StartsAll
  <2>2. ASSUME NEW k \in Conns
        PROVE  Follows(conn[k], conn'[k]) /\ (k \in members => conn'[k].xa = sess'.xa)
    <3>1. conn'[k] = IF k \in members THEN ConnStartTrx(conn[k], sess'.xa) ELSE conn[k]
      BY <1>3 DEF StartsAll
    <3>. QED  BY <1>0, <3>1, StartFields DEF Follows
  <2>3. ASSUME NEW k \in Conns PROVE OwnerOk(k)'
    <3>1. ASSUME NEW t \in Trxs, branch[k][t].st # "none"
          PROVE  t <= lastTrx' /\ sess'.xa # t /\ conn'[k].xa # t
      <4>1. t <= lastTrx
        BY <3>1 DEF OwnInv, OwnerOk
      <4>2. sess'.xa # t /\ t <= lastTrx'
        <5>1. t \in Nat /\ lastTrx \in Nat /\ lastTrx' \in Nat
          BY SessionTypes, XaAssumption DEF TypeOK, Trxs
        <5>. QED  BY <1>0, <1>3, <4>1, <5>1 DEF StartsAll
      <4>3. k \notin members => conn'[k].xa = NoXa
        BY <1>3, NewFields DEF StartsAll, XaCore, ConnInv
      <4>. QED  BY <1>0, <2>2, <4>2, <4>3
    <3>2. branch' = branch /\ nextCid' = nextCid
      BY <2>1 DEF serverVars, poolVars
    <3>. QED  BY <3>1, <3>2 DEF OwnInv, OwnerOk, Used
  <2>. QED  BY <2>1, <2>2, <2>3, ClientOwns
<1>4. CASE DisposeSession
  <2>1. /\ sess'.xa = NoXa /\ members' = {} /\ UNCHANGED <<lastTrx, idle, nextCid, alive, branch, mgr>>
        /\ \A k \in Conns : conn'[k] = NewConn /\ ending'[k] = Returned(k)
    BY <1>4 DEF DisposeSession, NewSess, serverVars
  <2>2. ASSUME NEW k \in Conns PROVE (ThreadOk(k) /\ OwnerOk(k) /\ SweepOk(k))'
    <3>1. ThreadOk(k)'
      BY <2>1, NewFields, NewCid, ThreadReturned DEF OwnInv
    <3>2. OwnerOk(k)'
      BY <1>0, <2>1, NewFields DEF OwnInv, OwnerOk, Used
    <3>3. SweepOk(k)'
      BY <2>1 DEF OwnInv, SweepOk
    <3>. QED  BY <3>1, <3>2, <3>3
  <2>. QED  BY <2>2 DEF OwnInv
<1>. QED  BY <1>1, <1>2, <1>3, <1>4, SessionKinds

-----------------------------------------------------------------------------
\* A step of a connection concerns its server only.
LEMMA StepAt ==
    ASSUME TypeOK, NEW k \in Conns, NEW c \in Conn, conn' = [conn EXCEPT ![k] = c],
           sess' = sess \/ sess' = [sess EXCEPT !.err = TRUE],
           UNCHANGED <<members, lastTrx, mgr>>,
           \A j \in Conns \ {k} : /\ branch'[j] = branch[j] /\ alive'[j] = alive[j]
                                  /\ idle'[j] = idle[j] /\ ending'[j] = ending[j]
                                  /\ nextCid'[j] = nextCid[j]
    PROVE  /\ OneServer(k) /\ conn'[k] = c /\ mgr'[k] = mgr[k]
           /\ sess'.xa = sess.xa /\ sess'.pc = sess.pc
<1>1. sess \in Sess
  BY DEF TypeOK
<1>2. sess'.xa = sess.xa /\ sess'.pc = sess.pc
  BY <1>1 DEF Sess
<1>. QED  BY <1>2 DEF OneServer, TypeOK

\* A command that the MyConn sends, whatever becomes of it
LEMMA CommandOwns ==
    ASSUME TypeOK, OwnInv, NEW k \in Conns, NEW c \in Conn, conn' = [conn EXCEPT ![k] = c],
           sess' = sess \/ sess' = [sess EXCEPT !.err = TRUE],
           UNCHANGED <<members, lastTrx, mgr, idle, nextCid>>,
           \A j \in Conns \ {k} : branch'[j] = branch[j] /\ alive'[j] = alive[j],
           SameOwner(k),
           alive'[k] = alive[k] \/ alive'[k] = alive[k] \ {conn[k].proto},
           c.xa \in {NoXa, conn[k].xa}, ~c.fresh,
           c.pending = "xa" => conn[k].pending = "xa",
           \/ c.proto = conn[k].proto /\ UNCHANGED ending /\ c.xaCid \in {NoCid, conn[k].xaCid}
           \/ /\ c.proto = NoCid /\ c.xaCid = NoCid /\ c.xa = NoXa
              /\ ending' = [ending EXCEPT ![k] = Returned(k)]
    PROVE  OwnInv'
<1>0. \A j \in Conns \ {k} : ending'[j] = ending[j]
  BY DEF TypeOK
<1>1. /\ OneServer(k) /\ conn'[k] = c /\ sess'.xa = sess.xa /\ mgr'[k] = mgr[k]
      /\ idle'[k] = idle[k] /\ nextCid'[k] = nextCid[k] /\ UNCHANGED <<members, lastTrx>>
  BY <1>0, StepAt
<1>2. ThreadOk(k)'
  <2>1. CASE c.proto = conn[k].proto /\ UNCHANGED ending /\ c.xaCid \in {NoCid, conn[k].xaCid}
    <3>1. Follows(conn[k], conn'[k]) /\ ending'[k] = ending[k]
      BY <1>1, <2>1 DEF Follows
    <3>. QED  BY <1>1, <3>1, ThreadKept DEF OwnInv
  <2>2. CASE /\ c.proto = NoCid /\ c.xaCid = NoCid
             /\ ending' = [ending EXCEPT ![k] = Returned(k)]
    <3>1. ending'[k] = Returned(k)
      BY <2>2 DEF TypeOK
    <3>. QED  BY <1>1, <2>2, <3>1, ThreadReturned DEF OwnInv
  <2>. QED  BY <2>1, <2>2
<1>3. OwnerOk(k)'
  <2>1. StaysOrLeaves(conn[k], conn'[k])
    BY <1>1 DEF StaysOrLeaves
  <2>. QED  BY <1>1, <2>1, OwnerKept DEF OwnInv
<1>4. SweepOk(k)'
  <2>1. alive'[k] \subseteq alive[k]
    OBVIOUS
  <2>. QED  BY <1>1, <2>1, SweepKept DEF OwnInv, SameOwner
<1>. QED  BY <1>1, <1>2, <1>3, <1>4, OthersOwn

\* The fields that the ends of transactions set
LEMMA EndFields ==
    ASSUME NEW c \in Conn
    PROVE  /\ Reset(c).xaCid = NoCid /\ OutOfTrx(c).xaCid = NoCid /\ Ended(c).xaCid = NoCid
           /\ OutOfTrx(c) \in Conn /\ Ended(c) \in Conn /\ Reset(c) \in Conn
<1>1. Reset(c) \in Conn /\ OutOfTrx(c) \in Conn /\ Ended(c) \in Conn
  BY ConnTypes
<1>. QED  BY <1>1, ResetCid DEF OutOfTrx, Ended, Conn

\* A step of a connection
LEMMA ConnOwns == TypeOK /\ XaCore /\ OwnInv /\ ConnNext => OwnInv'
<1> SUFFICES ASSUME TypeOK, XaCore, OwnInv, NEW k \in Conns,
                    \/ Query(k) \/ QueryConnects(k) \/ QueryRuns(k) \/ QueryRefused(k) \/ QueryDead(k)
                    \/ PrepareCommit(k) \/ ConnCommit(k) \/ UndoCommit(k)
                    \/ ConnRollback(k) \/ ConnRollbackChain(k)
                    \/ End(k)
             PROVE  OwnInv'
  BY DEF ConnNext
<1>0. conn[k] \in Conn /\ conn \in [Conns -> Conn] /\ ThreadOk(k) /\ OwnerOk(k) /\ SweepOk(k)
  BY DEF TypeOK, OwnInv
<1>1. conn[k].op # "no" => k \in members
  BY NewFields DEF XaCore, ConnInv
<1>2. UNCHANGED branch => SameOwner(k)
  BY DEF SameOwner
<1>3. ASSUME NEW c \in Conn, conn' = [conn EXCEPT ![k] = c], UNCHANGED <<sess, members, lastTrx, mgr>>,
             UNCHANGED <<idle, ending, nextCid, alive, branch>>,
             Follows(conn[k], c), StaysOrLeaves(conn[k], c)
      PROVE  OwnInv'
  <2>1. OneServer(k) /\ conn'[k] = c
    BY <1>3, StepAt
  <2>2. ThreadOk(k)'
    BY <1>0, <1>3, <2>1, ThreadKept
  <2>3. OwnerOk(k)'
    BY <1>0, <1>2, <1>3, <2>1, OwnerKept
  <2>4. SweepOk(k)'
    BY <1>0, <1>3, SweepKept
  <2>. QED  BY <1>3, <2>1, <2>2, <2>3, <2>4, OthersOwn
<1>4. CASE Query(k)
  <2> DEFINE c == [conn[k] EXCEPT !.op = "query"]
  <2>1. c \in Conn /\ Follows(conn[k], c) /\ StaysOrLeaves(conn[k], c)
    BY <1>0 DEF Conn, Follows, StaysOrLeaves
  <2>2. conn' = [conn EXCEPT ![k] = c] /\ UNCHANGED <<sess, members, lastTrx, mgr>>
        /\ UNCHANGED <<idle, ending, nextCid, alive, branch>>
    BY <1>4 DEF Query, poolVars, serverVars
  <2> HIDE DEF c
  <2>. QED  BY <1>3, <2>1, <2>2
<1>5. CASE QueryConnects(k)
  <2>0. /\ conn[k].op = "query" /\ conn[k].proto = NoCid /\ conn[k].xaCid = NoCid
        /\ UNCHANGED <<sess, members, lastTrx, ending, branch, mgr>>
    BY <1>0, <1>5 DEF QueryConnects, ThreadOk
  <2>1. \A t \in Trxs : branch[k][t].st # "none" => conn[k].xa # t
    BY <1>0, <2>0 DEF OwnerOk, Used, NoCid
  <2>2. ASSUME NEW c \in Conn, conn' = [conn EXCEPT ![k] = c], c.xa = conn[k].xa,
               \A j \in Conns \ {k} : /\ alive'[j] = alive[j] /\ idle'[j] = idle[j]
                                      /\ nextCid'[j] = nextCid[j],
               nextCid'[k] \in {nextCid[k], nextCid[k] + 1},
               alive'[k] \in {alive[k], alive[k] \cup {nextCid[k]}}, ThreadOk(k)'
        PROVE  OwnInv'
    <3>0. \A j \in Conns \ {k} : branch'[j] = branch[j] /\ ending'[j] = ending[j]
      BY <2>0
    <3>1. OneServer(k) /\ conn'[k] = c
      BY <2>0, <2>2, <3>0, StepAt, Zenon
    <3>2. OwnerOk(k)'
      BY <1>0, <2>0, <2>1, <2>2, <3>1 DEF OwnerOk, Used, TypeOK
    <3>3. SweepOk(k)'
      BY <1>0, <2>0, <2>2, SweepKept
    <3>. QED  BY <2>0, <2>2, <3>1, <3>2, <3>3, OthersOwn
  <2>3. ASSUME NEW c \in idle[k], conn' = [conn EXCEPT ![k].proto = c, ![k].fresh = TRUE],
               idle' = [idle EXCEPT ![k] = @ \ {c}], UNCHANGED <<nextCid, alive>>
        PROVE  OwnInv'
    <3> DEFINE d == [conn[k] EXCEPT !.proto = c, !.fresh = TRUE]
    <3>1. conn' = [conn EXCEPT ![k] = d]
      BY <1>0, <2>3
    <3>2. c \in 0 .. MaxCid /\ c \in alive[k] /\ c \in Used(k)
      BY <1>0, XaAssumption DEF ThreadOk, TypeOK, Cids
    <3>3. /\ d \in Conn /\ d.xa = conn[k].xa /\ d.proto = c /\ d.op = "query"
          /\ d.xaCid = NoCid
      BY <1>0, <2>0, <3>2 DEF Conn
    <3> HIDE DEF d
    <3>4. idle'[k] = idle[k] \ {c} /\ conn'[k] = d /\ \A j \in Conns \ {k} : idle'[j] = idle[j]
      BY <1>0, <2>3, <3>1 DEF TypeOK
    <3>5. ThreadOk(k)'
      BY <1>0, <2>0, <2>3, <3>2, <3>3, <3>4 DEF ThreadOk, Used
    <3>. QED  BY <2>2, <2>3, <3>1, <3>3, <3>4, <3>5
  <2>4. ASSUME nextCid[k] <= MaxCid, conn' = [conn EXCEPT ![k].proto = nextCid[k]],
               alive' = [alive EXCEPT ![k] = @ \cup {nextCid[k]}],
               nextCid' = [nextCid EXCEPT ![k] = @ + 1], UNCHANGED idle
        PROVE  OwnInv'
    <3> DEFINE d == [conn[k] EXCEPT !.proto = nextCid[k]]
    <3>1. conn' = [conn EXCEPT ![k] = d]
      BY <1>0, <2>4
    <3>2. nextCid[k] \in 0 .. MaxCid /\ nextCid[k] \in Nat /\ nextCid[k] >= 1
      BY <2>4, XaAssumption DEF TypeOK
    <3>3. /\ d \in Conn /\ d.xa = conn[k].xa /\ d.proto = nextCid[k] /\ d.op = "query"
          /\ d.xaCid = NoCid /\ d.fresh = conn[k].fresh
      BY <1>0, <2>0, <3>2 DEF Conn
    <3> HIDE DEF d
    <3>4. /\ conn'[k] = d /\ alive'[k] = alive[k] \cup {nextCid[k]} /\ nextCid'[k] = nextCid[k] + 1
          /\ \A j \in Conns \ {k} : alive'[j] = alive[j] /\ nextCid'[j] = nextCid[j]
      BY <1>0, <2>4, <3>1 DEF TypeOK
    <3>5. nextCid[k] \notin Used(k) /\ Used(k)' = Used(k) \cup {nextCid[k]}
      BY <3>2, <3>4 DEF Used
    <3>6. ThreadOk(k)'
      <4>1. conn'[k].proto # NoCid /\ conn'[k].proto \in Used(k)' /\ conn'[k].proto \notin idle[k]
        BY <1>0, <3>2, <3>3, <3>4, <3>5 DEF ThreadOk, NoCid
      <4>2. \A e \in ending[k] : e.cid # conn'[k].proto
        BY <1>0, <3>3, <3>4, <3>5 DEF ThreadOk
      <4>3. alive'[k] \subseteq Used(k)'
        BY <1>0, <3>4, <3>5 DEF ThreadOk
      <4>. QED  BY <1>0, <2>0, <2>4, <3>3, <3>4, <3>5, <4>1, <4>2, <4>3 DEF ThreadOk
    <3>. QED  BY <2>2, <2>4, <3>1, <3>3, <3>4, <3>6
  <2>5. ASSUME conn' = [conn EXCEPT ![k].op = "no"], UNCHANGED <<idle, nextCid, alive>>
        PROVE  OwnInv'
    <3> DEFINE d == [conn[k] EXCEPT !.op = "no"]
    <3>1. d \in Conn /\ Follows(conn[k], d) /\ StaysOrLeaves(conn[k], d)
      BY <1>0 DEF Conn, Follows, StaysOrLeaves
    <3>2. conn' = [conn EXCEPT ![k] = d]
      BY <2>5
    <3> HIDE DEF d
    <3>. QED  BY <1>3, <2>0, <2>5, <3>1, <3>2
  <2>. QED  BY <1>5, <2>3, <2>4, <2>5 DEF QueryConnects
<1>6. /\ IdCompleted(conn[k]) \in Conn
      /\ \/ IdCompleted(conn[k]).xaCid = conn[k].xaCid
         \/ conn[k].pending = "xa" /\ IdCompleted(conn[k]).xaCid = conn[k].proto
      /\ conn[k].pending = "xa" => IdCompleted(conn[k]).xaCid = conn[k].proto
  <2>1. IdCompleted(conn[k]).xaCid =
           IF conn[k].pending = "xa" /\ conn[k].xaCid = NoCid THEN conn[k].proto ELSE conn[k].xaCid
    BY <1>0 DEF IdCompleted, Conn
  <2>2. IdCompleted(conn[k]) \in Conn
    BY <1>0, ConnTypes
  <2>3. conn[k].xaCid \in {NoCid, conn[k].proto}
    BY <1>0 DEF ThreadOk
  <2>. QED  BY <2>1, <2>2, <2>3
<1>7. CASE QueryRuns(k)
  <2> DEFINE c == IdCompleted(conn[k])
             d == [c EXCEPT !.op = "no", !.pending = "no", !.inTrans = c.inTrans \/ c.pending # "no"]
             b == [st |-> "active", id |-> c.xaCid, by |-> c.proto]
  <2>0. /\ c \in Conn /\ c.proto = conn[k].proto /\ c.pending = conn[k].pending /\ c.xa = conn[k].xa
        /\ ~c.fresh
    BY <1>0, <1>6, CompletedFields
  <2>1. /\ conn' = [conn EXCEPT ![k] = d] /\ conn[k].op = "query" /\ conn[k].proto \in alive[k]
        /\ branch' = IF c.pending # "xa" THEN branch ELSE [branch EXCEPT ![k][c.xa] = b]
        /\ UNCHANGED <<sess, members, lastTrx, alive, mgr, idle, ending, nextCid>>
    BY <1>7 DEF QueryRuns, poolVars
  <2>2. /\ d \in Conn /\ d.proto = c.proto /\ d.fresh = c.fresh /\ d.xaCid = c.xaCid
        /\ d.xa = c.xa /\ d.op = "no" /\ d.pending = "no"
    <3>1. (c.inTrans \/ c.pending # "no") \in BOOLEAN
      OBVIOUS
    <3>. QED  BY <2>0, <3>1 DEF Conn
  <2>3. b.st = "active" /\ b.id = c.xaCid /\ b.by = c.proto
    OBVIOUS
  <2> HIDE DEF c, d, b
  <2>4. Follows(conn[k], d) /\ StaysOrLeaves(conn[k], d)
    BY <1>6, <2>0, <2>2 DEF Follows, StaysOrLeaves, c
  <2>5. CASE conn[k].pending # "xa"
    BY <1>3, <2>0, <2>1, <2>2, <2>4, <2>5
  <2>6. CASE conn[k].pending = "xa"
    <3>0. branch \in [Conns -> [Trxs -> Branch]]
      BY DEF TypeOK
    <3>1. /\ \A j \in Conns \ {k} : branch'[j] = branch[j]
          /\ \A t \in Trxs : branch'[k][t] = IF t = conn[k].xa THEN b ELSE branch[k][t]
      BY <2>0, <2>1, <2>6, <3>0
    <3>2. OneServer(k) /\ conn'[k] = d
      BY <2>1, <2>2, <3>1, StepAt
    <3>3. ThreadOk(k)'
      BY <1>0, <2>1, <2>4, <3>2, ThreadKept
    <3>4. b.id = conn[k].proto /\ b.by = conn[k].proto /\ conn[k].proto \in Used(k)
      BY <1>0, <1>6, <2>0, <2>1, <2>3, <2>6 DEF ThreadOk, c
    <3>5. conn[k].xa <= lastTrx /\ k \in members
      BY <1>1, <2>1 DEF XaCore, ConnInv
    <3>6. OwnerOk(k)'
      BY <1>0, <2>0, <2>1, <2>2, <3>1, <3>2, <3>4, <3>5 DEF OwnerOk, Used
    <3>7. \A t \in Trxs : branch[k][t].st # "none" => branch'[k][t] = branch[k][t]
      BY <1>0, <2>6, <3>1 DEF OwnerOk
    <3>8. SweepOk(k)'
      BY <1>0, <2>1, <3>7, SweepKept
    <3>. QED  BY <2>1, <3>2, <3>3, <3>6, <3>8, OthersOwn
  <2>. QED  BY <2>5, <2>6
<1>8. CASE QueryRefused(k) \/ QueryDead(k)
  <2> DEFINE d == [IdCompleted(conn[k]) EXCEPT !.op = "no"]
  <2>1. d \in Conn /\ Follows(conn[k], d) /\ StaysOrLeaves(conn[k], d)
    BY <1>0, <1>6, CompletedFields DEF Conn, Follows, StaysOrLeaves
  <2>2. UNCHANGED <<sess, members, lastTrx, mgr>> /\ UNCHANGED <<idle, ending, nextCid, alive, branch>>
    BY <1>8 DEF QueryRefused, QueryDead, poolVars, serverVars
  <2>3. conn' = [conn EXCEPT ![k] = d]
    <3>1. QueryDead(k) => ~conn[k].fresh
      BY <1>0 DEF QueryDead, ThreadOk
    <3>. QED  BY <1>0, <1>8, <3>1 DEF QueryRefused, QueryDead
  <2> HIDE DEF d
  <2>. QED  BY <1>3, <2>1, <2>2, <2>3
<1>9. Reset(conn[k]) \in Conn /\ OutOfTrx(conn[k]) \in Conn /\ Ended(conn[k]) \in Conn
  BY <1>0, ConnTypes
<1>10. conn[k].op \notin {"no", "query"} => ~conn[k].fresh
  BY <1>0 DEF ThreadOk
<1>11. ASSUME NEW from, NEW to \in {"aborted", "prepared", "committed", "undone"}, from # "none",
              Answered(k, from, to) \/ Failed(k, from, to) \/ UNCHANGED serverVars
       PROVE  /\ \A j \in Conns \ {k} : branch'[j] = branch[j] /\ alive'[j] = alive[j]
              /\ SameOwner(k)
              /\ alive'[k] = alive[k] \/ alive'[k] = alive[k] \ {conn[k].proto}
  BY <1>2, <1>11, CommandFacts DEF serverVars
\* what stays with the MyConn, and what it gives back
<1>12. ASSUME NEW from, NEW to \in {"aborted", "prepared", "committed", "undone"}, from # "none",
              Answered(k, from, to) \/ Failed(k, from, to) \/ UNCHANGED serverVars,
              sess' = sess \/ sess' = [sess EXCEPT !.err = TRUE],
              UNCHANGED <<members, lastTrx, mgr, idle, nextCid>>,
              conn[k].op \notin {"no", "query"},
              \/ /\ UNCHANGED ending
                 /\ \E c \in Conn : /\ conn' = [conn EXCEPT ![k] = c]
                                    /\ c.proto = conn[k].proto /\ c.xaCid \in {NoCid, conn[k].xaCid}
                                    /\ c.xa \in {NoXa, conn[k].xa} /\ ~c.fresh
                                    /\ c.pending = "xa" => conn[k].pending = "xa"
              \/ /\ ending' = [ending EXCEPT ![k] = Returned(k)]
                 /\ conn' = [conn EXCEPT ![k] = Ended(conn[k])]
       PROVE  OwnInv'
  <2>1. /\ \A j \in Conns \ {k} : branch'[j] = branch[j] /\ alive'[j] = alive[j]
        /\ SameOwner(k)
        /\ alive'[k] = alive[k] \/ alive'[k] = alive[k] \ {conn[k].proto}
    BY <1>11, <1>12
  <2>2. ASSUME NEW c \in Conn, UNCHANGED ending, conn' = [conn EXCEPT ![k] = c],
               c.proto = conn[k].proto, c.xaCid \in {NoCid, conn[k].xaCid},
               c.xa \in {NoXa, conn[k].xa}, ~c.fresh,
               c.pending = "xa" => conn[k].pending = "xa"
        PROVE  OwnInv'
    BY <1>12, <2>1, <2>2, CommandOwns
  <2>3. ASSUME ending' = [ending EXCEPT ![k] = Returned(k)], conn' = [conn EXCEPT ![k] = Ended(conn[k])]
        PROVE  OwnInv'
    <3>1. /\ Ended(conn[k]).proto = NoCid /\ Ended(conn[k]).xaCid = NoCid
          /\ Ended(conn[k]).xa = NoXa /\ ~Ended(conn[k]).fresh /\ Ended(conn[k]).pending = "no"
      BY <1>0, ResetFields, EndFields
    <3>. QED  BY <1>9, <1>12, <2>1, <2>3, <3>1, CommandOwns
  <2>. QED  BY <1>12, <2>2, <2>3
<1>13. CASE PrepareCommit(k)
  <2> DEFINE c == [conn[k] EXCEPT !.prepared = TRUE, !.inTrans = ~Detach, !.op = "no"]
             d == [conn[k] EXCEPT !.op = "no"]
  <2>1. conn[k].op = "prepare" /\ UNCHANGED <<members, lastTrx, mgr, idle, ending, nextCid>>
        /\ (sess' = sess \/ sess' = [sess EXCEPT !.err = TRUE])
    BY <1>13 DEF PrepareCommit, poolVars
  <2>2. Answered(k, "active", "prepared") \/ Failed(k, "active", "prepared") \/ UNCHANGED serverVars
    BY <1>13 DEF PrepareCommit, HookOfConnThrows
  <2>3. conn' = [conn EXCEPT ![k] = c] \/ conn' = [conn EXCEPT ![k] = d]
    BY <1>0, <1>13 DEF PrepareCommit
  <2>4. /\ c \in Conn /\ c.proto = conn[k].proto /\ c.xaCid = conn[k].xaCid /\ c.xa = conn[k].xa
        /\ c.fresh = conn[k].fresh /\ c.pending = conn[k].pending
    <3>1. (~Detach) \in BOOLEAN
      OBVIOUS
    <3>. QED  BY <1>0, <3>1 DEF Conn
  <2>5. /\ d \in Conn /\ d.proto = conn[k].proto /\ d.xaCid = conn[k].xaCid /\ d.xa = conn[k].xa
        /\ d.fresh = conn[k].fresh /\ d.pending = conn[k].pending
    BY <1>0 DEF Conn
  <2> HIDE DEF c, d
  <2>. QED  BY <1>10, <1>12, <2>1, <2>2, <2>3, <2>4, <2>5
<1>14. /\ OutOfTrx(conn[k]).proto = conn[k].proto /\ OutOfTrx(conn[k]).xaCid = NoCid
       /\ OutOfTrx(conn[k]).xa = NoXa /\ OutOfTrx(conn[k]).fresh = conn[k].fresh
       /\ OutOfTrx(conn[k]).pending = "no"
  BY <1>0, ResetFields, EndFields
<1>15. ASSUME NEW op \in {"no", "undo"}
       PROVE  /\ [conn[k] EXCEPT !.op = op] \in Conn
              /\ [conn[k] EXCEPT !.op = op].proto = conn[k].proto
              /\ [conn[k] EXCEPT !.op = op].xaCid = conn[k].xaCid
              /\ [conn[k] EXCEPT !.op = op].xa = conn[k].xa
              /\ [conn[k] EXCEPT !.op = op].fresh = conn[k].fresh
              /\ [conn[k] EXCEPT !.op = op].pending = conn[k].pending
  BY <1>0 DEF Conn
<1>16. CASE ConnCommit(k)
  <2>1. conn[k].op = "commit" /\ UNCHANGED <<members, lastTrx, mgr, idle, ending, nextCid>>
        /\ (sess' = sess \/ sess' = [sess EXCEPT !.err = TRUE])
    BY <1>16 DEF ConnCommit, poolVars
  <2>2. \/ Answered(k, "prepared", "committed") \/ Failed(k, "prepared", "committed")
        \/ UNCHANGED serverVars
    BY <1>16 DEF ConnCommit, HookOfConnThrows
  <2>3. \/ conn' = [conn EXCEPT ![k] = OutOfTrx(conn[k])]
        \/ conn' = [conn EXCEPT ![k] = [conn[k] EXCEPT !.op = "no"]]
        \/ conn' = [conn EXCEPT ![k] = [conn[k] EXCEPT !.op = "undo"]]
    BY <1>0, <1>16 DEF ConnCommit
  <2>. QED  BY <1>9, <1>10, <1>12, <1>14, <1>15, <2>1, <2>2, <2>3
<1>17. CASE UndoCommit(k)
  <2>1. conn[k].op = "undo" /\ UNCHANGED <<members, lastTrx, mgr, idle, nextCid>>
        /\ sess' = [sess EXCEPT !.err = TRUE]
    BY <1>17 DEF UndoCommit
  <2>2. Answered(k, "prepared", "undone") \/ Failed(k, "prepared", "undone")
    BY <1>17 DEF UndoCommit
  <2>3. \/ conn' = [conn EXCEPT ![k] = OutOfTrx(conn[k])] /\ UNCHANGED ending
        \/ /\ conn' = [conn EXCEPT ![k] = Ended(conn[k])]
           /\ ending' = [ending EXCEPT ![k] = Returned(k)]
    BY <1>0, <1>17 DEF UndoCommit
  <2>. QED  BY <1>9, <1>10, <1>12, <1>14, <2>1, <2>2, <2>3
<1>18. CASE ConnRollback(k)
  <2> DEFINE from == IF conn[k].prepared THEN "prepared" ELSE "active"
             to == IF conn[k].prepared THEN "undone" ELSE "aborted"
  <2>1. conn[k].op = "rollback" /\ UNCHANGED <<members, lastTrx, mgr, idle, nextCid>>
        /\ (sess' = sess \/ sess' = [sess EXCEPT !.err = TRUE])
    BY <1>18 DEF ConnRollback
  <2>2. /\ to \in {"aborted", "prepared", "committed", "undone"} /\ from # "none"
        /\ Answered(k, from, to) \/ Failed(k, from, to)
    BY <1>18 DEF ConnRollback
  <2>3. \/ conn' = [conn EXCEPT ![k] = OutOfTrx(conn[k])] /\ UNCHANGED ending
        \/ /\ conn' = [conn EXCEPT ![k] = Ended(conn[k])]
           /\ ending' = [ending EXCEPT ![k] = Returned(k)]
    BY <1>0, <1>18 DEF ConnRollback
  <2> HIDE DEF from, to
  <2>. QED  BY <1>9, <1>10, <1>12, <1>14, <2>1, <2>2, <2>3
<1>19. ASSUME NEW c \in Conn, conn' = [conn EXCEPT ![k] = c], ending' = [ending EXCEPT ![k] = Returned(k)],
              c.proto = NoCid, c.xaCid = NoCid, c.xa = NoXa, ~c.fresh, c.pending # "xa",
              sess' = sess \/ sess' = [sess EXCEPT !.err = TRUE],
              UNCHANGED <<members, lastTrx, mgr, idle, nextCid>>,
              UNCHANGED serverVars \/ ThreadEnds(branch, k, conn[k].proto)
       PROVE  OwnInv'
  <2>1. CASE UNCHANGED serverVars
    BY <1>2, <1>19, <2>1, CommandOwns DEF serverVars
  <2>2. CASE ThreadEnds(branch, k, conn[k].proto)
    <3>1. branch' = Released(branch, k, conn[k].proto) /\ alive' = [alive EXCEPT ![k] = @ \ {conn[k].proto}]
      BY <2>2 DEF ThreadEnds
    <3>2. /\ alive'[k] = alive[k] \ {conn[k].proto}
          /\ \A j \in Conns \ {k} : alive'[j] = alive[j]
      BY <3>1 DEF TypeOK
    <3>3. SameOwner(k) /\ \A j \in Conns \ {k} : branch'[j] = branch[j]
      BY <3>1, ReleasedOwners
    <3>. QED  BY <1>19, <3>2, <3>3, CommandOwns
  <2>. QED  BY <1>19, <2>1, <2>2
<1>20. CASE ConnRollbackChain(k)
  <2>1. /\ conn[k].op = "chain" /\ UNCHANGED <<members, lastTrx, mgr, idle, nextCid>>
        /\ (sess' = sess \/ sess' = [sess EXCEPT !.err = TRUE])
        /\ UNCHANGED serverVars \/ ThreadEnds(branch, k, conn[k].proto)
    BY <1>20 DEF ConnRollbackChain
  <2>2. CASE conn' = [conn EXCEPT ![k] = [Reset(conn[k]) EXCEPT !.inTrans = TRUE]]
             /\ UNCHANGED <<ending, serverVars>>
    <3> DEFINE c == [Reset(conn[k]) EXCEPT !.inTrans = TRUE]
    <3> DEFINE r == Reset(conn[k])
    <3>0. /\ r \in Conn /\ r.proto = conn[k].proto /\ r.xaCid = NoCid /\ r.xa = NoXa
          /\ r.fresh = conn[k].fresh /\ r.pending = "no" /\ c = [r EXCEPT !.inTrans = TRUE]
      BY <1>0, <1>9, ResetFields, EndFields
    <3>4. conn' = [conn EXCEPT ![k] = c] /\ UNCHANGED <<ending, alive, branch>>
      BY <2>2 DEF serverVars
    <3> HIDE DEF c, r
    <3>1. /\ c \in Conn /\ c.proto = conn[k].proto /\ c.xaCid = NoCid /\ c.xa = NoXa
          /\ c.fresh = conn[k].fresh /\ c.pending = "no"
      BY <3>0 DEF Conn
    <3>. QED  BY <1>2, <1>10, <2>1, <3>1, <3>4, CommandOwns
  <2>3. CASE conn' = [conn EXCEPT ![k] = ConnStartTrx(Ended(conn[k]), NoXa)]
             /\ ending' = [ending EXCEPT ![k] = Returned(k)]
    <3> DEFINE e == Ended(conn[k])
               c == ConnStartTrx(e, NoXa)
    <3>1. e \in Conn /\ e.proto = NoCid /\ ~e.fresh
      BY <1>0, <1>9, ResetFields
    <3> HIDE DEF e
    <3>2. c.proto = NoCid /\ c.xaCid = NoCid /\ c.xa = NoXa /\ ~c.fresh /\ c.pending = "plain"
      BY <3>1, StartFields DEF ConnStartTrx, Conn
    <3>3. c \in Conn
      <4>1. NoXa \in 0 .. MaxTrx
        BY XaAssumption DEF NoXa
      <4>. QED  BY <3>1, <4>1, ConnStartType
    <3> HIDE DEF c
    <3>. QED  BY <1>19, <2>1, <2>3, <3>2, <3>3 DEF c, e
  <2>4. \/ conn' = [conn EXCEPT ![k] = [Reset(conn[k]) EXCEPT !.inTrans = TRUE]]
           /\ UNCHANGED <<ending, serverVars>>
        \/ conn' = [conn EXCEPT ![k] = ConnStartTrx(Ended(conn[k]), NoXa)]
           /\ ending' = [ending EXCEPT ![k] = Returned(k)]
    BY <1>0, <1>20 DEF ConnRollbackChain
  <2>. QED  BY <2>2, <2>3, <2>4
<1>21. CASE End(k)
  <2>1. /\ conn' = [conn EXCEPT ![k] = Ended(conn[k])] /\ ending' = [ending EXCEPT ![k] = Returned(k)]
        /\ UNCHANGED <<sess, members, lastTrx, mgr, idle, nextCid, serverVars>>
    BY <1>0, <1>21 DEF End
  <2>2. /\ Ended(conn[k]).proto = NoCid /\ Ended(conn[k]).xaCid = NoCid
        /\ Ended(conn[k]).xa = NoXa /\ ~Ended(conn[k]).fresh /\ Ended(conn[k]).pending = "no"
    BY <1>0, ResetFields, EndFields
  <2>. QED  BY <1>9, <1>19, <2>1, <2>2
<1>. QED
  BY <1>4, <1>5, <1>7, <1>8, <1>13, <1>16, <1>17, <1>18, <1>20, <1>21

-----------------------------------------------------------------------------
\* A step of a server that ends a thread, or takes it back into the pool
LEMMA ServerOwns ==
    ASSUME TypeOK, OwnInv, NEW k \in Conns, OneServer(k), SameOwner(k), ThreadOk(k)',
           UNCHANGED <<clientVars, nextCid, mgr>>, alive'[k] \subseteq alive[k]
    PROVE  OwnInv'
<1>1. UNCHANGED <<sess, members, conn, lastTrx, nextCid, mgr>>
  BY DEF clientVars
<1>2. OwnerOk(k)'
  BY <1>1, OwnerKept DEF OwnInv, StaysOrLeaves
<1>3. SweepOk(k)'
  BY <1>1, SweepKept DEF OwnInv, SameOwner
<1>. QED  BY <1>1, <1>2, <1>3, OthersOwn

\* The manager's list after one of its steps
LEMMA RemainingFields ==
    ASSUME NEW pc \in {"filter", "sweep"}, NEW xas \in SUBSET Trxs
    PROVE  /\ Remaining(pc, xas).xas = xas
           /\ Remaining(pc, xas).pc \in {"recover", pc}
BY DEF Remaining, IdleManager

\* A step of the manager
LEMMA ManagerOwns ==
    ASSUME TypeOK, OwnInv, NEW k \in Conns, SameOwner(k), SweepOk(k)',
           \A j \in Conns \ {k} : mgr'[j] = mgr[j] /\ branch'[j] = branch[j],
           UNCHANGED <<clientVars, poolVars, alive>>
    PROVE  OwnInv'
<1>1. UNCHANGED <<sess, members, conn, lastTrx, idle, ending, nextCid>>
  BY DEF clientVars, poolVars
<1>2. OneServer(k)
  BY <1>1 DEF OneServer
<1>3. OwnerOk(k)'
  BY <1>1, OwnerKept DEF OwnInv, StaysOrLeaves
<1>4. ThreadOk(k)'
  BY <1>1 DEF OwnInv, ThreadOk, Used
<1>. QED  BY <1>1, <1>2, <1>3, <1>4, OthersOwn

\* What XA ROLLBACK of the manager does to the transactions of the servers
LEMMA SweptFacts ==
    ASSUME TypeOK, NEW k \in Conns, NEW t \in Trxs, RollbackDangling(k, t)
    PROVE  /\ \A j \in Conns, u \in Trxs :
                 /\ branch'[j][u].id = branch[j][u].id /\ branch'[j][u].by = branch[j][u].by
                 /\ \/ branch'[j][u].st = branch[j][u].st
                    \/ /\ j = k /\ u = t /\ branch[k][t].st = "prepared"
                       /\ branch'[k][t].st = "swept"
           /\ \A j \in Conns \ {k} : branch'[j] = branch[j]
<1>0. branch \in [Conns -> [Trxs -> Branch]]
  BY DEF TypeOK
<1>1. CASE UNCHANGED branch
  BY <1>1
<1>2. CASE branch[k][t].st = "prepared" /\ branch' = [branch EXCEPT ![k][t].st = "swept"]
  <2>1. \A j \in Conns \ {k} : branch'[j] = branch[j]
    BY <1>0, <1>2
  <2>2. \A u \in Trxs \ {t} : branch'[k][u] = branch[k][u]
    BY <1>0, <1>2
  <2>3. branch'[k][t] = [branch[k][t] EXCEPT !.st = "swept"] /\ branch[k][t] \in Branch
    BY <1>0, <1>2
  <2>4. /\ branch'[k][t].id = branch[k][t].id /\ branch'[k][t].by = branch[k][t].by
        /\ branch'[k][t].st = "swept"
    BY <2>3 DEF Branch
  <2>. QED  BY <1>2, <2>1, <2>2, <2>4
<1>. QED  BY <1>1, <1>2 DEF RollbackDangling

\* What a crash does to them
LEMMA CrashFacts ==
    ASSUME TypeOK, Crash, NEW k \in Conns, NEW t \in Trxs
    PROVE  /\ branch'[k][t].id = branch[k][t].id /\ branch'[k][t].by = branch[k][t].by
           /\ \/ branch'[k][t].st = branch[k][t].st
              \/ branch[k][t].st = "active" /\ branch'[k][t].st = "aborted"
<1>1. branch[k][t] \in Branch
  BY DEF TypeOK
<1>2. /\ [branch[k][t] EXCEPT !.st = "aborted"].id = branch[k][t].id
      /\ [branch[k][t] EXCEPT !.st = "aborted"].by = branch[k][t].by
      /\ [branch[k][t] EXCEPT !.st = "aborted"].st = "aborted"
  BY <1>1 DEF Branch
<1>3. branch'[k][t] = IF branch[k][t].st = "active"
                      THEN [branch[k][t] EXCEPT !.st = "aborted"] ELSE branch[k][t]
  BY DEF Crash
<1>. QED  BY <1>2, <1>3

\* A step of the pool, the servers and the manager. Here it matters that the
\* pool's connections do not die: else #doQuery() takes another one, and the
\* XA id keeps the number of the first.
LEMMA EnvOwns == ~PoolBreaks /\ TypeOK /\ OwnInv /\ EnvNext => OwnInv'
<1> SUFFICES ASSUME ~PoolBreaks, TypeOK, OwnInv, EnvNext PROVE OwnInv'
  OBVIOUS
<1>0. ASSUME NEW k \in Conns
      PROVE  /\ ThreadOk(k) /\ OwnerOk(k) /\ SweepOk(k)
             /\ mgr[k].xas \in SUBSET Trxs /\ NoCid \notin alive[k] /\ NoCid \notin idle[k]
  <2>1. mgr[k].xas \in SUBSET Trxs
    BY DEF TypeOK, Manager
  <2>2. NoCid \notin alive[k] /\ NoCid \notin idle[k]
    BY DEF TypeOK, Cids, NoCid
  <2>. QED  BY <2>1, <2>2 DEF OwnInv
<1>1. ASSUME NEW k \in Conns, NEW c, branch' = Released(branch, k, c),
             UNCHANGED <<clientVars, nextCid, mgr>>,
             \A j \in Conns \ {k} : /\ idle'[j] = idle[j] /\ ending'[j] = ending[j]
                                    /\ alive'[j] = alive[j],
             alive'[k] \subseteq alive[k], ThreadOk(k)'
      PROVE  OwnInv'
  <2>1. SameOwner(k) /\ \A j \in Conns \ {k} : branch'[j] = branch[j]
    BY <1>1, ReleasedOwners
  <2>2. OneServer(k)
    BY <1>1, <2>1 DEF OneServer, clientVars
  <2>. QED  BY <1>1, <2>1, <2>2, ServerOwns
<1>2. ASSUME NEW k \in Conns, NEW e \in ending[k], EndCompletes(k, e) PROVE OwnInv'
  <2>1. /\ UNCHANGED <<clientVars, nextCid, mgr>> /\ branch' = Released(branch, k, e.cid)
        /\ ending' = [ending EXCEPT ![k] = @ \ {e}]
        /\ \/ /\ e.cid \in alive[k] /\ idle' = [idle EXCEPT ![k] = @ \cup {e.cid}]
              /\ UNCHANGED alive
           \/ /\ alive' = [alive EXCEPT ![k] = @ \ {e.cid}] /\ UNCHANGED idle
    BY <1>2 DEF EndCompletes, ThreadEnds
  <2>2. /\ ending'[k] = ending[k] \ {e}
        /\ \/ e.cid \in alive[k] /\ idle'[k] = idle[k] \cup {e.cid} /\ alive'[k] = alive[k]
           \/ alive'[k] = alive[k] \ {e.cid} /\ idle'[k] = idle[k]
        /\ \A j \in Conns \ {k} : /\ idle'[j] = idle[j] /\ ending'[j] = ending[j]
                                  /\ alive'[j] = alive[j]
    BY <2>1 DEF TypeOK
  <2>3. conn' = conn /\ nextCid' = nextCid
    BY <2>1 DEF clientVars
  <2>4. ThreadOk(k)'
    BY <1>0, <1>2, <2>2, <2>3 DEF ThreadOk, Used
  <2>. QED  BY <1>1, <2>1, <2>2, <2>4
<1>3. ASSUME NEW k \in Conns, NEW c \in idle[k], PoolCloses(k, c) PROVE OwnInv'
  <2>1. /\ UNCHANGED <<clientVars, nextCid, mgr, ending>> /\ branch' = Released(branch, k, c)
        /\ idle' = [idle EXCEPT ![k] = @ \ {c}] /\ alive' = [alive EXCEPT ![k] = @ \ {c}]
    BY <1>3 DEF PoolCloses, ThreadEnds
  <2>2. /\ ending'[k] = ending[k] /\ idle'[k] = idle[k] \ {c} /\ alive'[k] = alive[k] \ {c}
        /\ \A j \in Conns \ {k} : /\ idle'[j] = idle[j] /\ ending'[j] = ending[j]
                                  /\ alive'[j] = alive[j]
    BY <2>1 DEF TypeOK
  <2>3. conn' = conn /\ nextCid' = nextCid
    BY <2>1 DEF clientVars
  <2>4. ThreadOk(k)'
    BY <1>0, <1>3, <2>2, <2>3 DEF ThreadOk, Used
  <2>. QED  BY <1>1, <2>1, <2>2, <2>4
<1>4. ASSUME NEW k \in Conns, NEW c \in alive[k], ConnectionLost(k, c) PROVE OwnInv'
  <2>1. /\ UNCHANGED <<clientVars, poolVars, mgr>> /\ branch' = Released(branch, k, c)
        /\ alive' = [alive EXCEPT ![k] = @ \ {c}]
        /\ c \notin idle[k] /\ ~(conn[k].fresh /\ conn[k].proto = c)
    BY <1>4 DEF ConnectionLost, ThreadEnds
  <2>2. alive'[k] = alive[k] \ {c} /\ \A j \in Conns \ {k} : alive'[j] = alive[j]
    BY <2>1 DEF TypeOK
  <2>3. UNCHANGED <<conn, nextCid, idle, ending>>
    BY <2>1 DEF clientVars, poolVars
  <2>4. ThreadOk(k)'
    BY <1>0, <2>1, <2>2, <2>3 DEF ThreadOk, Used
  <2>. QED  BY <1>1, <2>1, <2>2, <2>3, <2>4
<1>5. CASE Crash
  <2> SUFFICES ASSUME NEW k \in Conns PROVE (ThreadOk(k) /\ OwnerOk(k) /\ SweepOk(k))'
    BY DEF OwnInv
  <2>1. /\ conn'[k] = NewConn /\ idle'[k] = {} /\ ending'[k] = {} /\ alive'[k] = {}
        /\ sess'.xa = NoXa /\ UNCHANGED <<lastTrx, nextCid, mgr>>
    BY <1>5 DEF Crash, NewSess
  <2>2. \A t \in Trxs : t # NoXa
    BY XaAssumption DEF Trxs, NoXa
  <2>3. SameOwner(k)
    BY <1>5, CrashFacts DEF SameOwner
  <2>4. ThreadOk(k)'
    BY <2>1, NewFields, NewCid DEF ThreadOk
  <2>5. OwnerOk(k)'
    BY <1>0, <2>1, <2>2, <2>3, NewFields DEF OwnerOk, SameOwner, Used
  <2>6. SweepOk(k)'
    BY <1>0, <2>1, <2>3, SweepKept DEF SameOwner
  <2>. QED  BY <2>4, <2>5, <2>6
<1>6. ASSUME NEW k \in Conns, UNCHANGED <<clientVars, poolVars, serverVars>>,
             NEW m, mgr' = [mgr EXCEPT ![k] = m],
             m.pc # "recover" => \A t \in m.xas :
                branch[k][t].st # "none" /\ (m.pc = "sweep" => branch[k][t].id \notin alive[k])
      PROVE  OwnInv'
  <2>1. mgr'[k] = m /\ \A j \in Conns \ {k} : mgr'[j] = mgr[j]
    BY <1>6 DEF TypeOK
  <2>2. UNCHANGED <<alive, branch>>
    BY <1>6 DEF serverVars
  <2>3. SweepOk(k)' /\ SameOwner(k)
    BY <1>6, <2>1, <2>2 DEF SweepOk, SameOwner
  <2>. QED  BY <1>6, <2>1, <2>2, <2>3, ManagerOwns
<1>7. ASSUME NEW k \in Conns, Recover(k) PROVE OwnInv'
  <2>1. Listed(k) \in SUBSET Trxs /\ \A t \in Listed(k) : branch[k][t].st # "none"
    BY DEF Listed
  <2>2. mgr' = [mgr EXCEPT ![k] = Remaining("filter", Listed(k))]
    BY <1>7 DEF Recover
  <2>3. /\ Remaining("filter", Listed(k)).xas = Listed(k)
        /\ Remaining("filter", Listed(k)).pc \in {"recover", "filter"}
    BY <2>1, RemainingFields
  <2>. QED  BY <1>6, <1>7, <2>1, <2>2, <2>3 DEF Recover
<1>8. ASSUME NEW k \in Conns, FilterAlive(k) PROVE OwnInv'
  <2> DEFINE dead == OwnerDead(k, mgr[k].xas)
  <2>1. dead \in SUBSET Trxs
        /\ \A t \in dead : branch[k][t].st # "none" /\ branch[k][t].id \notin alive[k]
    BY <1>0, <1>8 DEF OwnerDead, FilterAlive, SweepOk
  <2>2. mgr' = [mgr EXCEPT ![k] = Remaining("sweep", dead)]
    BY <1>8 DEF FilterAlive
  <2> HIDE DEF dead
  <2>3. Remaining("sweep", dead).xas = dead
    BY <2>1, RemainingFields
  <2>. QED  BY <1>6, <1>8, <2>1, <2>2, <2>3 DEF FilterAlive
<1>9. ASSUME NEW k \in Conns, ManagerFails(k) PROVE OwnInv'
  <2>1. IdleManager.pc = "recover"
    BY DEF IdleManager
  <2>. QED  BY <1>6, <1>9, <2>1 DEF ManagerFails
<1>10. ASSUME NEW k \in Conns, NEW t \in Trxs, RollbackDangling(k, t) PROVE OwnInv'
  <2> DEFINE m == Remaining("sweep", mgr[k].xas \ {t})
  <2>1. mgr' = [mgr EXCEPT ![k] = m] /\ mgr[k].pc = "sweep" /\ UNCHANGED <<clientVars, poolVars, alive>>
    BY <1>10 DEF RollbackDangling
  <2>2. m.xas = mgr[k].xas \ {t}
    BY <1>0, RemainingFields
  <2> HIDE DEF m
  <2>3. mgr'[k] = m /\ \A j \in Conns \ {k} : mgr'[j] = mgr[j]
    BY <2>1 DEF TypeOK
  <2>4. SameOwner(k) /\ \A j \in Conns \ {k} : branch'[j] = branch[j]
    BY <1>10, SweptFacts DEF SameOwner
  <2>5. SweepOk(k)'
    BY <1>0, <2>1, <2>2, <2>3, <2>4 DEF SweepOk, SameOwner
  <2>. QED  BY <2>1, <2>3, <2>4, <2>5, ManagerOwns
<1>. QED
  BY <1>2, <1>3, <1>4, <1>5, <1>7, <1>8, <1>9, <1>10 DEF EnvNext, ManagerStep

\* Threads and transactions keep their owners.
LEMMA XaOwners == ASSUME ~PoolBreaks PROVE Spec => [](XaInv /\ OwnInv)
<1>1. Init => OwnInv
  <2> SUFFICES ASSUME Init PROVE OwnInv
    OBVIOUS
  <2>1. \A k \in Conns : /\ conn[k] = NewConn /\ idle[k] = {} /\ ending[k] = {} /\ alive[k] = {}
                         /\ mgr[k].pc = "recover" /\ \A t \in Trxs : branch[k][t].st = "none"
    BY DEF Init, IdleManager, NoBranch
  <2>. QED  BY <2>1, NewFields, NewCid DEF OwnInv, ThreadOk, OwnerOk, SweepOk
<1>2. XaInv /\ OwnInv /\ [Next]_vars => OwnInv'
  <2> SUFFICES ASSUME XaInv, OwnInv, [Next]_vars PROVE OwnInv'
    OBVIOUS
  <2>1. TypeOK /\ XaCore
    BY DEF XaInv, XaCore
  <2>2. CASE UNCHANGED vars
    BY <2>2 DEF OwnInv, ThreadOk, OwnerOk, SweepOk, Used, vars, clientVars, poolVars, serverVars
  <2>. QED  BY <2>1, <2>2, SessionOwns, ConnOwns, EnvOwns DEF Next
<1>. QED  BY <1>1, <1>2, XaInvariant, PTL DEF Spec

-----------------------------------------------------------------------------
\* What the end of the connection's own thread does to its server
LEMMA OwnThreadEnds ==
    ASSUME TypeOK, NEW k \in Conns, UNCHANGED serverVars \/ ThreadEnds(branch, k, conn[k].proto)
    PROVE  /\ \A j \in Conns \ {k} : branch'[j] = branch[j] /\ alive'[j] = alive[j]
           /\ \A t \in Trxs : \/ branch'[k][t].st = branch[k][t].st
                              \/ branch[k][t].st = "active" /\ branch'[k][t].st = "aborted"
<1>1. CASE UNCHANGED serverVars
  BY <1>1 DEF serverVars
<1>2. CASE ThreadEnds(branch, k, conn[k].proto)
  <2>1. /\ branch' = Released(branch, k, conn[k].proto) /\ branch \in [Conns -> [Trxs -> Branch]]
        /\ alive' = [alive EXCEPT ![k] = @ \ {conn[k].proto}]
    BY <1>2 DEF ThreadEnds, TypeOK
  <2>2. \A j \in Conns \ {k} : alive'[j] = alive[j]
    BY <2>1 DEF TypeOK
  <2>. QED  BY <2>1, <2>2, ReleasedFacts
<1>. QED  BY <1>1, <1>2

\* A transaction that begins on a server
LEMMA QueryRunsFacts ==
    ASSUME TypeOK, NEW k \in Conns, QueryRuns(k)
    PROVE  /\ \A j \in Conns \ {k} : branch'[j] = branch[j]
           /\ \A t \in Trxs : \/ branch'[k][t] = branch[k][t]
                              \/ /\ conn[k].xa = t /\ conn[k].pending = "xa"
                                 /\ branch'[k][t].st = "active"
           /\ UNCHANGED <<sess, members, lastTrx, alive, harmed, left>>
           /\ conn[k].op = "query"
<1> DEFINE c == IdCompleted(conn[k])
           b == [st |-> "active", id |-> c.xaCid, by |-> c.proto]
<1>1. c.pending = conn[k].pending /\ c.xa = conn[k].xa /\ branch \in [Conns -> [Trxs -> Branch]]
  BY CompletedFields DEF TypeOK
<1>2. /\ branch' = IF c.pending # "xa" THEN branch ELSE [branch EXCEPT ![k][c.xa] = b]
      /\ UNCHANGED <<sess, members, lastTrx, alive, harmed, left>> /\ conn[k].op = "query"
  BY DEF QueryRuns, history
<1>3. b.st = "active"
  OBVIOUS
<1> HIDE DEF b, c
<1>4. CASE c.pending # "xa"
  BY <1>2, <1>4
<1>5. CASE c.pending = "xa"
  <2>1. branch' = [branch EXCEPT ![k][c.xa] = b]
    BY <1>2, <1>5
  <2>2. \A t \in Trxs : branch'[k][t] = IF t = c.xa THEN b ELSE branch[k][t]
    BY <1>1, <2>1
  <2>. QED  BY <1>1, <1>2, <1>3, <1>5, <2>1, <2>2
<1>. QED  BY <1>4, <1>5

\* A connection never sweeps.
LEMMA ConnSweepsNot ==
    TypeOK /\ ConnNext => \A j \in Conns, t \in Trxs :
        branch'[j][t].st = "swept" => branch[j][t].st = "swept"
<1> SUFFICES ASSUME TypeOK, NEW k \in Conns,
                    \/ Query(k) \/ QueryConnects(k) \/ QueryRuns(k) \/ QueryRefused(k) \/ QueryDead(k)
                    \/ PrepareCommit(k) \/ ConnCommit(k) \/ UndoCommit(k)
                    \/ ConnRollback(k) \/ ConnRollbackChain(k)
                    \/ End(k),
                    NEW j \in Conns, NEW t \in Trxs, branch'[j][t].st = "swept"
             PROVE  branch[j][t].st = "swept"
  BY DEF ConnNext
<1>1. CASE UNCHANGED branch
  BY <1>1
<1>2. ASSUME NEW from \in {"active", "prepared"},
             NEW to \in {"aborted", "prepared", "committed", "undone"},
             Answered(k, from, to) \/ Failed(k, from, to)
      PROVE  branch[j][t].st = "swept"
  BY <1>2, CommandFacts
<1>3. CASE QueryRuns(k)
  BY <1>3, QueryRunsFacts
<1>4. CASE Query(k) \/ QueryConnects(k) \/ QueryRefused(k) \/ QueryDead(k) \/ End(k)
  BY <1>1, <1>4 DEF Query, QueryConnects, QueryRefused, QueryDead, End, serverVars
<1>5. CASE PrepareCommit(k)
  BY <1>1, <1>2, <1>5 DEF PrepareCommit, HookOfConnThrows, serverVars
<1>6. CASE ConnCommit(k)
  BY <1>1, <1>2, <1>6 DEF ConnCommit, HookOfConnThrows, serverVars
<1>7. CASE UndoCommit(k)
  BY <1>2, <1>7 DEF UndoCommit
<1>8. CASE ConnRollback(k)
  <2> DEFINE from == IF conn[k].prepared THEN "prepared" ELSE "active"
             to == IF conn[k].prepared THEN "undone" ELSE "aborted"
  <2>1. /\ from \in {"active", "prepared"} /\ to \in {"aborted", "prepared", "committed", "undone"}
        /\ Answered(k, from, to) \/ Failed(k, from, to)
    BY <1>8 DEF ConnRollback
  <2> HIDE DEF from, to
  <2>. QED  BY <1>2, <2>1
<1>9. CASE ConnRollbackChain(k)
  <2>1. UNCHANGED serverVars \/ ThreadEnds(branch, k, conn[k].proto)
    BY <1>9 DEF ConnRollbackChain
  <2>. QED  BY <2>1, OwnThreadEnds
<1>. QED  BY <1>3, <1>4, <1>5, <1>6, <1>7, <1>8, <1>9

\* The manager of dangling transactions rolls back no XA whose thread is alive,
\* in one process or in several: the id that it reads is that of the thread
\* that began the XA, and between its look at the threads and its XA ROLLBACK
\* no thread comes to life. If a pooled connection dies before its next use,
\* XA START is retried with the id of the dead one, and this does not hold.
THEOREM XaManagerSparesLive == ASSUME ~PoolBreaks PROVE Spec => ManagerSparesLive
<1>1. XaInv /\ OwnInv /\ [Next]_vars =>
        [\A k \in Conns, t \in Trxs :
            branch[k][t].st = "prepared" /\ branch'[k][t].st = "swept"
                => branch[k][t].by \notin alive[k]]_vars
  <2> SUFFICES ASSUME XaInv, OwnInv, [Next]_vars, NEW k \in Conns, NEW t \in Trxs,
                      branch[k][t].st = "prepared", branch'[k][t].st = "swept"
               PROVE  branch[k][t].by \notin alive[k]
    OBVIOUS
  <2>0. TypeOK /\ XaCore
    BY DEF XaInv, XaCore
  <2>1. branch'[k][t].st # branch[k][t].st
    OBVIOUS
  <2>2. ~ UNCHANGED vars
    BY <2>1 DEF vars, serverVars
  <2>3. ~ SessionNext
    <3>1. SessionNext => UNCHANGED branch
      BY <2>0, SessionKinds DEF SessionConn, MovesOn, StartsAll, DisposeSession, serverVars
    <3>. QED  BY <2>1, <3>1
  <2>4. ~ ConnNext
    BY <2>0, ConnSweepsNot
  <2>5. ASSUME NEW j \in Conns, NEW c, branch' = Released(branch, j, c) PROVE FALSE
    <3>1. branch \in [Conns -> [Trxs -> Branch]]
      BY <2>0 DEF TypeOK
    <3>. QED  BY <2>5, <3>1, ReleasedStates
  <2>6. ~ Crash
    BY <2>0, CrashFacts
  <2>7. ASSUME NEW j \in Conns, NEW u \in Trxs, RollbackDangling(j, u) PROVE branch[k][t].by \notin alive[k]
    <3>1. j = k /\ u = t
      BY <2>0, <2>1, <2>7, SweptFacts
    <3>2. mgr[k].pc = "sweep" /\ t \in mgr[k].xas
      BY <2>7, <3>1 DEF RollbackDangling
    <3>. QED  BY <3>2 DEF OwnInv, SweepOk, OwnerOk
  <2>8. CASE EnvNext
    BY <2>1, <2>5, <2>6, <2>7, <2>8
    DEF EnvNext, EndCompletes, PoolCloses, ConnectionLost, ThreadEnds, ManagerStep,
        Recover, FilterAlive, ManagerFails, serverVars
  <2>. QED  BY <2>2, <2>3, <2>4, <2>8 DEF Next
<1>. QED  BY <1>1, XaOwners, PTL DEF Spec, ManagerSparesLive

-----------------------------------------------------------------------------
\* What may become of a transaction that no fault hit when it was prepared.
Safe == Trxs \ (harmed \cup left)

\* Its MyConn will still commit or roll it back.
Kept(k, t) == conn[k].xa = t /\ conn[k].prepared

Lost(k, t) ==
    branch[k][t].st \in {"undone", "swept"} \/ (branch[k][t].st = "prepared" /\ ~Kept(k, t))

\* The session is not going to commit t any more.
GivenUp(t) ==
    /\ t <= lastTrx /\ sess.xa # t
    /\ \A k \in Conns : conn[k].xa = t
          => sess.pc = "rollback" \/ (sess.pc = "prepare" /\ sess.err)

Uncommitted(t) == \A k \in Conns : branch[k][t].st # "committed"

\* A transaction is lost somewhere only when it is given up.
LostInv == \A t \in Safe : (\E j \in Conns : Lost(j, t)) => GivenUp(t) /\ Uncommitted(t)

\* A MyConn that prepared its transaction knows the state of it, and its thread
\* lives. It undoes a commit when the server did commit, and the reply was lost.
PrepOk(k) ==
    \A t \in Safe : conn[k].xa = t =>
        /\ conn[k].op \in {"commit", "undo"} => conn[k].prepared
        /\ conn[k].prepared /\ conn[k].op = "undo" => branch[k][t].st = "committed"
        /\ conn[k].prepared /\ conn[k].op # "undo"
             => branch[k][t].st = "prepared" /\ conn[k].proto \in alive[k]

PrepInv == \A k \in Conns : PrepOk(k)

\* While the session commits, no connection is out of it; and it does not go on
\* with a transaction that is committed.
Closing(t) == \A k \in Conns : conn[k].xa = t => conn[k].op \in {"commit", "undo"}

CloseInv ==
    /\ sess.pc = "commit" => \A k \in Conns : conn[k].xa # NoXa => conn[k].op \in {"commit", "undo"}
    /\ \A t \in Safe : ~Uncommitted(t) => sess.xa # t /\ Closing(t)

FateInv == LostInv /\ PrepInv /\ CloseInv

\* A step of the connection k, as far as the fate of transactions goes
FateFrame(k) ==
    /\ \A j \in Conns \ {k} : conn'[j] = conn[j] /\ branch'[j] = branch[j] /\ alive'[j] = alive[j]
    /\ UNCHANGED <<members, lastTrx>> /\ harmed \subseteq harmed' /\ left \subseteq left'
    /\ sess'.pc = sess.pc /\ sess'.xa = sess.xa /\ (sess.err => sess'.err)
    /\ conn'[k].xa \in {NoXa, conn[k].xa}
    /\ conn'[k].xa # NoXa /\ conn[k].op \in {"commit", "undo"} => conn'[k].op \in {"commit", "undo"}

\* It loses a transaction only when that is given up, and commits only what the
\* session commits.
FateStep(k) == \A t \in Trxs \ (harmed' \cup left') :
    /\ Lost(k, t)' => Lost(k, t) \/ (GivenUp(t)' /\ Uncommitted(t)')
    /\ branch'[k][t].st = "committed"
         => branch[k][t].st = "committed" \/ (conn[k].xa = t /\ conn[k].op = "commit")

\* Such a step preserves the invariant.
LEMMA FatePreserved ==
    ASSUME TypeOK, XaCore, FateInv, NEW k \in Conns, FateFrame(k), PrepOk(k)', FateStep(k)
    PROVE  FateInv'
<1>0. /\ Safe' \subseteq Safe /\ \A t \in Safe : t # NoXa
      /\ \A j \in Conns \ {k} : conn'[j] = conn[j] /\ branch'[j] = branch[j] /\ alive'[j] = alive[j]
      /\ UNCHANGED <<members, lastTrx>>
      /\ sess'.pc = sess.pc /\ sess'.xa = sess.xa /\ (sess.err => sess'.err)
      /\ conn'[k].xa \in {NoXa, conn[k].xa}
      /\ conn'[k].xa # NoXa /\ conn[k].op \in {"commit", "undo"} => conn'[k].op \in {"commit", "undo"}
  BY XaAssumption DEF FateFrame, Safe, Trxs, NoXa
<1>4. \A t \in Safe' :
         /\ Lost(k, t)' => Lost(k, t) \/ (GivenUp(t)' /\ Uncommitted(t)')
         /\ branch'[k][t].st = "committed"
              => branch[k][t].st = "committed" \/ (conn[k].xa = t /\ conn[k].op = "commit")
  BY DEF FateStep, Safe
<1>1. LostInv'
  <2> SUFFICES ASSUME NEW t \in Safe', NEW j \in Conns, Lost(j, t)'
               PROVE  GivenUp(t)' /\ Uncommitted(t)'
    BY DEF LostInv
  <2>1. CASE \E i \in Conns : Lost(i, t)
    <3>1. GivenUp(t) /\ Uncommitted(t)
      BY <1>0, <2>1 DEF FateInv, LostInv
    <3>2. GivenUp(t)'
      BY <1>0, <3>1 DEF GivenUp
    <3>3. Uncommitted(t)'
      <4> SUFFICES ASSUME branch'[k][t].st = "committed" PROVE FALSE
        BY <1>0, <3>1 DEF Uncommitted
      <4>1. conn[k].xa = t /\ conn[k].op = "commit"
        BY <1>4, <3>1 DEF Uncommitted
      <4>2. sess.pc = "commit"
        BY <4>1 DEF XaCore, OpInv
      <4>. QED  BY <3>1, <4>1, <4>2 DEF GivenUp
    <3>. QED  BY <3>2, <3>3
  <2>2. CASE j # k
    <3>1. Lost(j, t)
      BY <1>0, <2>2 DEF Lost, Kept
    <3>. QED  BY <2>1, <3>1
  <2>. QED  BY <1>4, <2>1, <2>2
<1>2. PrepInv'
  <2> SUFFICES ASSUME NEW j \in Conns, j # k PROVE PrepOk(j)'
    BY DEF PrepInv
  <2>. QED  BY <1>0 DEF FateInv, PrepInv, PrepOk
<1>3. CloseInv'
  <2>1. sess'.pc = "commit" => \A j \in Conns : conn'[j].xa # NoXa => conn'[j].op \in {"commit", "undo"}
    BY <1>0 DEF FateInv, CloseInv
  <2>2. ASSUME NEW t \in Safe', ~Uncommitted(t)' PROVE sess'.xa # t /\ Closing(t)'
    <3>1. CASE ~Uncommitted(t)
      BY <1>0, <3>1 DEF FateInv, CloseInv, Closing
    <3>2. CASE Uncommitted(t)
      <4>1. conn[k].xa = t /\ conn[k].op = "commit"
        BY <1>0, <1>4, <2>2, <3>2 DEF Uncommitted
      <4>2. sess.pc = "commit" /\ sess.xa = NoXa
        BY <4>1 DEF XaCore, OpInv, SessInv
      <4>. QED  BY <1>0, <2>1, <4>2 DEF Closing
    <3>. QED  BY <3>1, <3>2
  <2>. QED  BY <2>1, <2>2 DEF CloseInv
<1>. QED  BY <1>1, <1>2, <1>3 DEF FateInv

\* The MyConn k goes on as c. What becomes of its own transaction decides.
FateAt(k, c) == \A t \in Trxs \ (harmed' \cup left') :
    IF conn[k].xa # t
    THEN \/ branch'[k][t].st = branch[k][t].st
         \/ branch[k][t].st = "active" /\ branch'[k][t].st = "aborted"
    ELSE /\ Lost(k, t)' => Lost(k, t) \/ (GivenUp(t)' /\ Uncommitted(t)')
         /\ branch'[k][t].st = "committed" => branch[k][t].st = "committed" \/ conn[k].op = "commit"
         /\ c.xa = t =>
              /\ c.op \in {"commit", "undo"} => c.prepared
              /\ c.prepared /\ c.op = "undo" => branch'[k][t].st = "committed"
              /\ c.prepared /\ c.op # "undo"
                   => branch'[k][t].st = "prepared" /\ c.proto \in alive'[k]

LEMMA CommandFate ==
    ASSUME TypeOK, XaCore, FateInv, NEW k \in Conns, NEW c \in Conn,
           conn' = [conn EXCEPT ![k] = c],
           sess' = sess \/ sess' = [sess EXCEPT !.err = TRUE],
           UNCHANGED <<members, lastTrx>>, harmed \subseteq harmed', left \subseteq left',
           \A j \in Conns \ {k} : branch'[j] = branch[j] /\ alive'[j] = alive[j],
           c.xa \in {NoXa, conn[k].xa},
           c.xa # NoXa /\ conn[k].op \in {"commit", "undo"} => c.op \in {"commit", "undo"},
           FateAt(k, c)
    PROVE  FateInv'
<1>1. /\ conn'[k] = c /\ \A j \in Conns \ {k} : conn'[j] = conn[j]
      /\ Safe' \subseteq Safe /\ \A t \in Safe : t # NoXa
  BY XaAssumption DEF TypeOK, Safe, Trxs, NoXa
<1>2. FateFrame(k)
  <2>1. sess \in Sess
    BY DEF TypeOK
  <2>2. sess'.pc = sess.pc /\ sess'.xa = sess.xa /\ (sess.err => sess'.err)
    BY <2>1 DEF Sess
  <2>. QED  BY <1>1, <2>2 DEF FateFrame
<1>3. PrepOk(k)'
  BY <1>1 DEF PrepOk, FateAt, Safe
<1>4. ASSUME NEW t \in Safe', Lost(k, t)', conn[k].xa # t PROVE Lost(k, t)
  BY <1>1, <1>4 DEF Lost, Kept, FateAt, Safe
<1>5. FateStep(k)
  <2> SUFFICES ASSUME NEW t \in Safe'
               PROVE  /\ Lost(k, t)' => Lost(k, t) \/ (GivenUp(t)' /\ Uncommitted(t)')
                      /\ branch'[k][t].st = "committed"
                           => branch[k][t].st = "committed" \/ (conn[k].xa = t /\ conn[k].op = "commit")
    BY DEF FateStep, Safe
  <2>. QED  BY <1>4 DEF FateAt, Safe
<1>. QED  BY <1>2, <1>3, <1>5, FatePreserved

\* A transaction that is rolled back is given up, and is committed nowhere.
LEMMA RolledBackFate ==
    ASSUME TypeOK, XaCore, FateInv, NEW k \in Conns, NEW t \in Safe', conn[k].xa = t,
           sess.pc = "rollback", conn[k].op \notin {"commit", "undo"}, Safe' \subseteq Safe,
           \A j \in Conns : branch'[j][t].st = "committed" => branch[j][t].st = "committed",
           sess' = sess \/ sess' = [sess EXCEPT !.err = TRUE], UNCHANGED lastTrx
    PROVE  GivenUp(t)' /\ Uncommitted(t)'
<1>1. Uncommitted(t)
  BY DEF FateInv, CloseInv, Closing
<1>2. t <= lastTrx /\ sess.xa = NoXa /\ t # NoXa
  BY XaAssumption DEF XaCore, ConnInv, SessInv, Safe, Trxs, NoXa
<1>3. sess'.pc = sess.pc /\ sess'.xa = sess.xa
  <2>1. sess \in Sess
    BY DEF TypeOK
  <2>. QED  BY <2>1 DEF Sess
<1>. QED  BY <1>1, <1>2, <1>3 DEF Uncommitted, GivenUp

\* A query, and what the application does with the connection
LEMMA QueryFate ==
    ASSUME TypeOK, XaCore, OwnInv, FateInv, NEW k \in Conns,
           \/ Query(k) \/ QueryConnects(k) \/ QueryRuns(k) \/ QueryRefused(k) \/ QueryDead(k)
    PROVE  FateInv'
<1>0. conn[k] \in Conn /\ conn \in [Conns -> Conn] /\ PrepOk(k) /\ ThreadOk(k)
  BY DEF TypeOK, FateInv, PrepInv, OwnInv
<1>1. ASSUME NEW c \in Conn, conn' = [conn EXCEPT ![k] = c],
             UNCHANGED <<sess, members, lastTrx, harmed, left>>,
             \A j \in Conns \ {k} : branch'[j] = branch[j] /\ alive'[j] = alive[j],
             conn[k].op \in {"no", "query"}, c.op \in {"no", "query"},
             c.xa = conn[k].xa, c.prepared = conn[k].prepared,
             conn[k].prepared => c.proto = conn[k].proto /\ UNCHANGED <<alive, branch>>,
             \A t \in Trxs : \/ branch'[k][t].st = branch[k][t].st
                             \/ conn[k].xa = t /\ branch'[k][t].st = "active"
      PROVE  FateInv'
  <2>1. conn'[k] = c /\ Safe' = Safe /\ Safe \subseteq Trxs
    BY <1>1 DEF TypeOK, Safe
  <2>2. ASSUME NEW t \in Safe, conn[k].xa = t
        PROVE  /\ Lost(k, t)' => Lost(k, t)
               /\ branch'[k][t].st = "committed" => branch[k][t].st = "committed"
               /\ c.prepared => branch'[k][t].st = "prepared" /\ c.proto \in alive'[k]
    BY <1>0, <1>1, <2>1, <2>2 DEF PrepOk, Lost, Kept
  <2>3. \A t \in Safe : conn[k].xa # t => branch'[k][t].st = branch[k][t].st
    BY <1>1, <2>1
  <2>4. c.xa # NoXa /\ conn[k].op \in {"commit", "undo"} => c.op \in {"commit", "undo"}
    BY <1>1
  <2>5. \A t \in Safe : conn[k].xa = t =>
           /\ c.op \in {"commit", "undo"} => c.prepared
           /\ c.prepared /\ c.op = "undo" => branch'[k][t].st = "committed"
           /\ c.prepared /\ c.op # "undo" => branch'[k][t].st = "prepared" /\ c.proto \in alive'[k]
    BY <1>1, <2>2
  <2>6. FateAt(k, c)
    BY <1>1, <2>1, <2>2, <2>3, <2>4, <2>5 DEF FateAt, Safe
  <2>. QED  BY <1>1, <2>1, <2>2, <2>3, <2>4, <2>5, <2>6, CommandFate
<1>2. CASE Query(k)
  <2> DEFINE c == [conn[k] EXCEPT !.op = "query"]
  <2>1. c \in Conn /\ c.op = "query" /\ c.xa = conn[k].xa /\ c.prepared = conn[k].prepared
        /\ c.proto = conn[k].proto
    BY <1>0 DEF Conn
  <2>2. /\ conn' = [conn EXCEPT ![k] = c] /\ conn[k].op = "no"
        /\ UNCHANGED <<sess, members, lastTrx, harmed, left, alive, branch>>
    BY <1>2 DEF Query, serverVars, history
  <2> HIDE DEF c
  <2>. QED  BY <1>1, <2>1, <2>2
<1>3. CASE QueryConnects(k)
  <2>1. /\ conn[k].op = "query" /\ ~conn[k].prepared
        /\ UNCHANGED <<sess, members, lastTrx, harmed, left, branch>>
    BY <1>3 DEF QueryConnects, XaCore, ConnInv, history
  <2>2. \A j \in Conns \ {k} : alive'[j] = alive[j]
    BY <1>3 DEF QueryConnects, TypeOK
  <2>3. ASSUME NEW p \in 0 .. MaxCid, NEW f \in BOOLEAN,
               conn' = [conn EXCEPT ![k] = [conn[k] EXCEPT !.proto = p, !.fresh = f]]
        PROVE  FateInv'
    <3> DEFINE c == [conn[k] EXCEPT !.proto = p, !.fresh = f]
    <3>1. c \in Conn /\ c.op = conn[k].op /\ c.xa = conn[k].xa /\ c.prepared = conn[k].prepared
      BY <1>0 DEF Conn
    <3> HIDE DEF c
    <3>. QED  BY <1>1, <2>1, <2>2, <2>3, <3>1 DEF c
  <2>4. ASSUME conn' = [conn EXCEPT ![k].op = "no"] PROVE FateInv'
    <3> DEFINE c == [conn[k] EXCEPT !.op = "no"]
    <3>1. c \in Conn /\ c.op = "no" /\ c.xa = conn[k].xa /\ c.prepared = conn[k].prepared
      BY <1>0 DEF Conn
    <3>2. conn' = [conn EXCEPT ![k] = c]
      BY <2>4
    <3> HIDE DEF c
    <3>. QED  BY <1>1, <2>1, <2>2, <3>1, <3>2
  <2>5. ASSUME NEW c \in idle[k], conn' = [conn EXCEPT ![k].proto = c, ![k].fresh = TRUE]
        PROVE  FateInv'
    <3>1. c \in 0 .. MaxCid
      BY XaAssumption DEF TypeOK, Cids
    <3>2. conn' = [conn EXCEPT ![k] = [conn[k] EXCEPT !.proto = c, !.fresh = TRUE]]
      BY <1>0, <2>5
    <3>. QED  BY <2>3, <3>1, <3>2
  <2>6. ASSUME nextCid[k] <= MaxCid, conn' = [conn EXCEPT ![k].proto = nextCid[k]] PROVE FateInv'
    <3>1. nextCid[k] \in 0 .. MaxCid
      BY <2>6, XaAssumption DEF TypeOK
    <3>2. conn' = [conn EXCEPT ![k] = [conn[k] EXCEPT !.proto = nextCid[k], !.fresh = conn[k].fresh]]
      BY <1>0, <2>6 DEF Conn
    <3>3. conn[k].fresh \in BOOLEAN
      BY <1>0 DEF Conn
    <3>. QED  BY <2>3, <3>1, <3>2, <3>3
  <2>. QED  BY <1>3, <2>4, <2>5, <2>6 DEF QueryConnects
<1>4. CASE QueryRuns(k)
  <2> DEFINE i == IdCompleted(conn[k])
             d == [i EXCEPT !.op = "no", !.pending = "no", !.inTrans = i.inTrans \/ i.pending # "no"]
  <2>0. /\ i \in Conn /\ i.proto = conn[k].proto /\ i.xa = conn[k].xa /\ i.prepared = conn[k].prepared
    BY <1>0, ConnTypes, CompletedFields
  <2>1. conn' = [conn EXCEPT ![k] = d]
    BY <1>4 DEF QueryRuns
  <2> HIDE DEF i
  <2>2. d \in Conn /\ d.proto = i.proto /\ d.xa = i.xa /\ d.prepared = i.prepared /\ d.op = "no"
    <3>1. (i.inTrans \/ i.pending # "no") \in BOOLEAN
      OBVIOUS
    <3>. QED  BY <2>0, <3>1 DEF Conn
  <2> HIDE DEF d
  <2>3. conn[k].prepared => conn[k].pending # "xa"
    BY DEF XaCore, ConnInv
  <2>4. conn[k].prepared => UNCHANGED branch
    <3> DEFINE b == [st |-> "active", id |-> i.xaCid, by |-> i.proto]
    <3>1. i.pending = conn[k].pending
      BY <1>0, CompletedFields DEF i
    <3>2. i.pending # "xa" => branch' = branch
      BY <1>4 DEF QueryRuns, i
    <3>. QED  BY <2>3, <3>1, <3>2
  <2>5. /\ \A j \in Conns \ {k} : branch'[j] = branch[j]
        /\ \A t \in Trxs : \/ branch'[k][t].st = branch[k][t].st
                           \/ conn[k].xa = t /\ branch'[k][t].st = "active"
        /\ UNCHANGED <<sess, members, lastTrx, alive, harmed, left>> /\ conn[k].op = "query"
    BY <1>4, QueryRunsFacts
  <2>. QED  BY <1>1, <2>0, <2>1, <2>2, <2>4, <2>5
<1>5. CASE QueryRefused(k) \/ QueryDead(k)
  <2> DEFINE i == IdCompleted(conn[k])
             d == [i EXCEPT !.op = "no"]
  <2>0. i \in Conn /\ i.proto = conn[k].proto /\ i.xa = conn[k].xa /\ i.prepared = conn[k].prepared
    BY <1>0, ConnTypes, CompletedFields
  <2>1. conn' = [conn EXCEPT ![k] = d]
    <3>1. QueryDead(k) => ~conn[k].fresh
      BY <1>0 DEF QueryDead, ThreadOk
    <3>. QED  BY <1>0, <1>5, <3>1 DEF QueryRefused, QueryDead
  <2> HIDE DEF i
  <2>2. d \in Conn /\ d.proto = i.proto /\ d.xa = i.xa /\ d.prepared = i.prepared /\ d.op = "no"
    BY <2>0 DEF Conn
  <2> HIDE DEF d
  <2>3. UNCHANGED <<sess, members, lastTrx, alive, branch, harmed, left>> /\ conn[k].op = "query"
    BY <1>5 DEF QueryRefused, QueryDead, serverVars, history
  <2>. QED  BY <1>1, <2>0, <2>1, <2>2, <2>3
<1>. QED  BY <1>2, <1>3, <1>4, <1>5

\* A command concerns the transaction of its MyConn only; others may be aborted
\* with the thread.
LEMMA CommandOthers ==
    ASSUME TypeOK, NEW k \in Conns, NEW from \in {"active", "prepared"},
           NEW to \in {"aborted", "prepared", "committed", "undone"},
           (Answered(k, from, to) /\ UNCHANGED harmed) \/ Failed(k, from, to)
    PROVE  /\ harmed \subseteq harmed'
           /\ \A j \in Conns \ {k} : branch'[j] = branch[j] /\ alive'[j] = alive[j]
           /\ \A t \in Trxs : conn[k].xa # t =>
                 \/ branch'[k][t].st = branch[k][t].st
                 \/ branch[k][t].st = "active" /\ branch'[k][t].st = "aborted"
<1>1. harmed \subseteq harmed'
  BY DEF Failed
<1>. QED  BY <1>1, CommandFacts

\* A command that is executed, also if its thread ends then, has its effect.
LEMMA EffectStays ==
    ASSUME TypeOK, NEW k \in Conns, NEW to \in {"aborted", "prepared", "committed", "undone"},
           conn[k].xa # NoXa, ThreadEnds(Executed(k, to), k, conn[k].proto)
    PROVE  branch'[k][conn[k].xa].st = to
<1>0. branch \in [Conns -> [Trxs -> Branch]]
  BY DEF TypeOK
<1>1. conn[k].xa \in Trxs
  BY XaAssumption DEF TypeOK, Conn, Trxs, NoXa
<1> DEFINE ex == Executed(k, to)
<1>2. ex = [branch EXCEPT ![k][conn[k].xa].st = to]
  BY DEF Executed
<1>3. ex \in [Conns -> [Trxs -> Branch]] /\ branch' = Released(ex, k, conn[k].proto)
  BY ExecutedType DEF ThreadEnds
<1> HIDE DEF ex
<1>4. ex[k][conn[k].xa] = [branch[k][conn[k].xa] EXCEPT !.st = to]
  BY <1>0, <1>1, <1>2
<1>5. branch[k][conn[k].xa] \in Branch
  BY <1>0, <1>1
<1>6. ex[k][conn[k].xa].st = to
  BY <1>4, <1>5 DEF Branch
<1>. QED  BY <1>1, <1>3, <1>6, ReleasedStates

\* PREPARE. When it fails after it was executed, commit() rolls back.
LEMMA PrepareFate ==
    ASSUME TypeOK, XaCore, FateInv, NEW k \in Conns, PrepareCommit(k)
    PROVE  FateInv'
<1>0. /\ conn[k].op = "prepare" /\ sess.pc = "prepare" /\ ~conn[k].prepared /\ conn[k].xa # NoXa
      /\ sess.xa = NoXa /\ conn[k].xa <= lastTrx
  BY DEF PrepareCommit, XaCore, ConnInv, OpInv, SessInv, CanPrepare
<1>1. conn[k] \in Conn /\ conn \in [Conns -> Conn] /\ sess \in Sess /\ Safe' \subseteq Trxs
      /\ NoXa \notin Trxs
  BY XaAssumption DEF TypeOK, Safe, Trxs, NoXa
<1>2. UNCHANGED <<members, lastTrx, left>>
  BY DEF PrepareCommit
<1>3. ASSUME Answered(k, "active", "prepared"), UNCHANGED <<sess, harmed>>,
             conn' = [conn EXCEPT ![k].prepared = TRUE, ![k].inTrans = ~Detach, ![k].op = "no"]
      PROVE  FateInv'
  <2> DEFINE c == [conn[k] EXCEPT !.prepared = TRUE, !.inTrans = ~Detach, !.op = "no"]
  <2>1. conn' = [conn EXCEPT ![k] = c]
    BY <1>1, <1>3
  <2>2. c \in Conn /\ c.xa = conn[k].xa /\ c.proto = conn[k].proto /\ c.prepared /\ c.op = "no"
    <3>1. (~Detach) \in BOOLEAN
      OBVIOUS
    <3>. QED  BY <1>1, <3>1 DEF Conn
  <2> HIDE DEF c
  <2>3. conn'[k] = c /\ branch'[k][conn[k].xa].st = "prepared" /\ c.proto \in alive'[k]
    BY <1>0, <1>1, <1>3, <2>1, <2>2, AnsweredState DEF Answered, Accepts
  <2>4. ASSUME NEW t \in Safe', conn[k].xa = t PROVE ~Lost(k, t)'
    BY <2>2, <2>3, <2>4 DEF Lost, Kept
  <2>5. /\ \A j \in Conns \ {k} : branch'[j] = branch[j] /\ alive'[j] = alive[j]
        /\ \A t \in Trxs : conn[k].xa # t =>
              \/ branch'[k][t].st = branch[k][t].st
              \/ branch[k][t].st = "active" /\ branch'[k][t].st = "aborted"
    BY <1>3, CommandOthers
  <2>6. FateAt(k, c)
    BY <1>0, <1>1, <1>2, <1>3, <2>1, <2>2, <2>3, <2>4, <2>5 DEF FateAt, Safe
  <2>. QED  BY <1>0, <1>1, <1>2, <1>3, <2>1, <2>2, <2>3, <2>4, <2>5, <2>6, CommandFate
<1>4. ASSUME Failed(k, "active", "prepared") \/ UNCHANGED <<serverVars, harmed>>,
             conn' = [conn EXCEPT ![k].op = "no"], sess' = [sess EXCEPT !.err = TRUE]
      PROVE  FateInv'
  <2> DEFINE c == [conn[k] EXCEPT !.op = "no"]
  <2>1. conn' = [conn EXCEPT ![k] = c]
    BY <1>1, <1>4
  <2>2. c \in Conn /\ c.xa = conn[k].xa /\ ~c.prepared /\ c.op = "no"
    BY <1>0, <1>1 DEF Conn
  <2> HIDE DEF c
  <2>3. sess'.pc = "prepare" /\ sess'.xa = NoXa /\ sess'.err
    BY <1>0, <1>1, <1>4 DEF Sess
  <2>4. /\ \A j \in Conns \ {k} : branch'[j] = branch[j] /\ alive'[j] = alive[j]
        /\ harmed \subseteq harmed'
        /\ \A t \in Trxs : \/ branch'[k][t].st = branch[k][t].st
                           \/ branch[k][t].st = "active" /\ branch'[k][t].st = "aborted"
                           \/ /\ conn[k].xa = t /\ branch[k][t].st = "active"
                              /\ branch'[k][t].st = "prepared"
    <3>1. CASE Failed(k, "active", "prepared")
      BY <3>1, CommandFacts, CommandOthers
    <3>2. CASE UNCHANGED <<serverVars, harmed>>
      BY <3>2 DEF serverVars
    <3>. QED  BY <1>4, <3>1, <3>2
  <2>5. conn'[k] = c /\ Safe' \subseteq Trxs \ left
    BY <1>1, <1>2, <2>1 DEF Safe
  <2>6. ASSUME NEW t \in Safe', conn[k].xa = t, Lost(k, t)'
        PROVE  Lost(k, t) \/ (GivenUp(t)' /\ Uncommitted(t)')
    <3>1. CASE branch'[k][t].st = branch[k][t].st
      BY <1>0, <2>6, <3>1 DEF Lost, Kept
    <3>2. CASE branch[k][t].st = "active" /\ branch'[k][t].st = "aborted"
      BY <2>6, <3>2 DEF Lost
    <3>3. CASE branch[k][t].st = "active" /\ branch'[k][t].st = "prepared"
      <4>1. Uncommitted(t)
        BY <2>5, <3>3 DEF XaCore, CommitInv, Committing, Open, Uncommitted
      <4>2. Uncommitted(t)'
        BY <2>4, <3>3, <4>1 DEF Uncommitted
      <4>3. GivenUp(t)'
        BY <1>0, <1>1, <1>2, <2>3, <2>6 DEF GivenUp
      <4>. QED  BY <4>2, <4>3
    <3>. QED  BY <1>1, <2>4, <3>1, <3>2, <3>3
  <2>7. \A t \in Safe' : branch'[k][t].st = "committed" => branch[k][t].st = "committed"
    BY <1>1, <2>4
  <2>8. \A t \in Safe' : conn[k].xa # t =>
              \/ branch'[k][t].st = branch[k][t].st
              \/ branch[k][t].st = "active" /\ branch'[k][t].st = "aborted"
    BY <1>1, <2>4
  <2>9. FateAt(k, c)
    BY <1>0, <1>2, <1>4, <2>1, <2>2, <2>4, <2>6, <2>7, <2>8 DEF FateAt, Safe
  <2>. QED  BY <1>0, <1>2, <1>4, <2>1, <2>2, <2>4, <2>6, <2>7, <2>8, <2>9, CommandFate
<1>. QED  BY <1>3, <1>4 DEF PrepareCommit, HookOfConnThrows

\* COMMIT. It does not fail for a prepared transaction of a living thread, but
\* by a fault that harms the transaction, or after it was executed.
LEMMA CommitFate ==
    ASSUME TypeOK, XaCore, FateInv, NEW k \in Conns, ConnCommit(k)
    PROVE  FateInv'
<1>0. conn[k].op = "commit" /\ PrepOk(k) /\ UNCHANGED <<members, lastTrx, left>>
  BY DEF ConnCommit, FateInv, PrepInv
<1>1. /\ conn[k] \in Conn /\ conn \in [Conns -> Conn] /\ Safe' \subseteq Trxs
      /\ NoXa \notin Trxs /\ NoXa \in 0 .. MaxTrx
  BY XaAssumption DEF TypeOK, Safe, Trxs, NoXa
<1>2. ASSUME Answered(k, "prepared", "committed"), UNCHANGED <<sess, harmed>>,
             conn' = [conn EXCEPT ![k] = OutOfTrx(conn[k])]
      PROVE  FateInv'
  <2>1. OutOfTrx(conn[k]) \in Conn /\ OutOfTrx(conn[k]).xa = NoXa
    BY <1>1, ResetFields, ConnTypes
  <2>2. ASSUME NEW t \in Safe', conn[k].xa = t PROVE ~Lost(k, t)'
    <3>1. branch'[k][t].st = "committed"
      BY <1>1, <1>2, <2>2, AnsweredState
    <3>. QED  BY <3>1 DEF Lost
  <2>3. /\ \A j \in Conns \ {k} : branch'[j] = branch[j] /\ alive'[j] = alive[j]
        /\ \A t \in Trxs : conn[k].xa # t =>
              \/ branch'[k][t].st = branch[k][t].st
              \/ branch[k][t].st = "active" /\ branch'[k][t].st = "aborted"
    BY <1>2, CommandOthers
  <2>4. FateAt(k, OutOfTrx(conn[k]))
    BY <1>0, <1>1, <1>2, <2>1, <2>2, <2>3 DEF FateAt, Safe
  <2>. QED  BY <1>0, <1>1, <1>2, <2>1, <2>2, <2>3, <2>4, CommandFate
<1>3. ASSUME Failed(k, "prepared", "committed"), UNCHANGED sess, conn' = [conn EXCEPT ![k].op = "undo"]
      PROVE  FateInv'
  <2> DEFINE c == [conn[k] EXCEPT !.op = "undo"]
  <2>1. conn' = [conn EXCEPT ![k] = c]
    BY <1>1, <1>3
  <2>2. c \in Conn /\ c.xa = conn[k].xa /\ c.prepared = conn[k].prepared /\ c.op = "undo"
    BY <1>1 DEF Conn
  <2> HIDE DEF c
  <2>3. /\ \A j \in Conns \ {k} : branch'[j] = branch[j] /\ alive'[j] = alive[j]
        /\ harmed \subseteq harmed'
        /\ \A t \in Trxs : conn[k].xa # t =>
              \/ branch'[k][t].st = branch[k][t].st
              \/ branch[k][t].st = "active" /\ branch'[k][t].st = "aborted"
    BY <1>3, CommandOthers
  <2>4. ASSUME NEW t \in Safe', conn[k].xa = t
        PROVE  branch'[k][t].st = "committed" /\ conn[k].prepared
    <3>1. t \in Safe /\ t \notin harmed'
      BY <1>0, <1>1, <2>3 DEF Safe
    <3>2. /\ conn[k].prepared /\ branch[k][t].st = "prepared" /\ conn[k].proto \in alive[k]
      BY <1>0, <2>4, <3>1 DEF PrepOk
    <3>3. Accepts(k, "prepared") /\ conn[k].xa # NoXa
      BY <1>1, <2>4, <3>2 DEF Accepts
    <3>4. ~(harmed' = harmed \cup {conn[k].xa})
      BY <2>4, <3>1
    <3>5. ThreadEnds(Executed(k, "committed"), k, conn[k].proto)
      BY <1>0, <1>3, <3>3, <3>4 DEF Failed
    <3>. QED  BY <2>4, <3>2, <3>3, <3>5, EffectStays
  <2>5. ASSUME NEW t \in Safe', conn[k].xa = t PROVE ~Lost(k, t)'
    BY <2>4, <2>5 DEF Lost
  <2>6. \A t \in Safe' : conn[k].xa # t =>
              \/ branch'[k][t].st = branch[k][t].st
              \/ branch[k][t].st = "active" /\ branch'[k][t].st = "aborted"
    BY <1>1, <2>3
  <2>7. \A t \in Safe' : conn[k].xa = t =>
           /\ ~Lost(k, t)' /\ c.prepared /\ branch'[k][t].st = "committed"
    BY <2>2, <2>4, <2>5
  <2>8. FateAt(k, c)
    BY <1>0, <1>3, <2>1, <2>2, <2>3, <2>6, <2>7 DEF FateAt, Safe
  <2>. QED  BY <1>0, <1>3, <2>1, <2>2, <2>3, <2>6, <2>7, <2>8, CommandFate
<1>4. ASSUME conn[k].xa = NoXa, UNCHANGED <<serverVars, harmed>>,
             conn' = [conn EXCEPT ![k].op = "no"], sess' = [sess EXCEPT !.err = TRUE]
      PROVE  FateInv'
  <2> DEFINE c == [conn[k] EXCEPT !.op = "no"]
  <2>1. conn' = [conn EXCEPT ![k] = c]
    BY <1>1, <1>4
  <2>2. c \in Conn /\ c.xa = NoXa
    BY <1>1, <1>4 DEF Conn
  <2>3. UNCHANGED <<alive, branch>>
    BY <1>4 DEF serverVars
  <2> HIDE DEF c
  <2>4. FateAt(k, c)
    BY <1>0, <1>1, <1>4, <2>1, <2>2, <2>3 DEF FateAt, Safe
  <2>. QED  BY <1>0, <1>1, <1>4, <2>1, <2>2, <2>3, <2>4, CommandFate
<1>. QED  BY <1>0, <1>2, <1>3, <1>4 DEF ConnCommit, HookOfConnThrows

\* XA ROLLBACK after a failed commit. The server refuses it for a transaction
\* that no fault hit: it is committed.
LEMMA UndoFate ==
    ASSUME TypeOK, XaCore, FateInv, NEW k \in Conns, UndoCommit(k)
    PROVE  FateInv'
<1>0. /\ conn[k].op = "undo" /\ PrepOk(k) /\ UNCHANGED <<members, lastTrx, left>>
      /\ sess' = [sess EXCEPT !.err = TRUE]
      /\ (Answered(k, "prepared", "undone") /\ UNCHANGED harmed) \/ Failed(k, "prepared", "undone")
  BY DEF UndoCommit, FateInv, PrepInv
<1>1. /\ conn[k] \in Conn /\ conn \in [Conns -> Conn] /\ Safe' \subseteq Trxs
      /\ NoXa \notin Trxs /\ NoXa \in 0 .. MaxTrx
  BY XaAssumption DEF TypeOK, Safe, Trxs, NoXa
<1>2. /\ \A j \in Conns \ {k} : branch'[j] = branch[j] /\ alive'[j] = alive[j]
      /\ harmed \subseteq harmed'
      /\ \A t \in Trxs : conn[k].xa # t =>
            \/ branch'[k][t].st = branch[k][t].st
            \/ branch[k][t].st = "active" /\ branch'[k][t].st = "aborted"
  BY <1>0, CommandOthers
<1>3. ASSUME NEW t \in Safe', conn[k].xa = t
      PROVE  ~Lost(k, t)' /\ branch'[k][t].st = branch[k][t].st
  <2>1. t \in Safe
    BY <1>0, <1>1, <1>2 DEF Safe
  <2>2. branch[k][t].st = "committed"
    BY <1>0, <1>3, <2>1 DEF PrepOk
  <2>3. ~Accepts(k, "prepared")
    BY <1>1, <1>3, <2>2 DEF Accepts
  <2>4. UNCHANGED branch
    BY <1>0, <2>3 DEF Answered, Failed
  <2>. QED  BY <2>2, <2>4 DEF Lost
<1>4. ASSUME NEW c \in Conn, c.xa = NoXa, conn' = [conn EXCEPT ![k] = c] PROVE FateInv'
  <2>1. \A t \in Safe' : conn[k].xa # t =>
              \/ branch'[k][t].st = branch[k][t].st
              \/ branch[k][t].st = "active" /\ branch'[k][t].st = "aborted"
    BY <1>1, <1>2
  <2>2. \A t \in Safe' : c.xa # t
    BY <1>1, <1>4
  <2>3. FateAt(k, c)
    BY <1>0, <1>2, <1>3, <1>4, <2>1, <2>2 DEF FateAt, Safe
  <2>. QED  BY <1>0, <1>2, <1>3, <1>4, <2>1, <2>2, <2>3, CommandFate
<1>5. /\ OutOfTrx(conn[k]) \in Conn /\ OutOfTrx(conn[k]).xa = NoXa
      /\ Ended(conn[k]) \in Conn /\ Ended(conn[k]).xa = NoXa
  BY <1>1, ResetFields, ConnTypes
<1>6. conn' = [conn EXCEPT ![k] = OutOfTrx(conn[k])] \/ conn' = [conn EXCEPT ![k] = Ended(conn[k])]
  BY <1>1 DEF UndoCommit
<1>. QED  BY <1>4, <1>5, <1>6

\* ROLLBACK, whatever becomes of it
LEMMA RollbackFate ==
    ASSUME TypeOK, XaCore, FateInv, NEW k \in Conns, ConnRollback(k) \/ ConnRollbackChain(k)
    PROVE  FateInv'
<1>0. /\ sess.pc = "rollback" /\ conn[k].op \in {"rollback", "chain"}
      /\ UNCHANGED <<members, lastTrx, left>>
      /\ sess' = sess \/ sess' = [sess EXCEPT !.err = TRUE]
  BY DEF ConnRollback, ConnRollbackChain, XaCore, OpInv, history
<1>1. /\ conn[k] \in Conn /\ conn \in [Conns -> Conn] /\ Safe' \subseteq Trxs
      /\ NoXa \notin Trxs /\ NoXa \in 0 .. MaxTrx
  BY XaAssumption DEF TypeOK, Safe, Trxs, NoXa
<1>2. ASSUME NEW c \in Conn, c.xa = NoXa, conn' = [conn EXCEPT ![k] = c], harmed \subseteq harmed',
             \A j \in Conns \ {k} : branch'[j] = branch[j] /\ alive'[j] = alive[j],
             \A t \in Trxs : conn[k].xa # t =>
                \/ branch'[k][t].st = branch[k][t].st
                \/ branch[k][t].st = "active" /\ branch'[k][t].st = "aborted",
             \A t \in Trxs : branch'[k][t].st = "committed" => branch[k][t].st = "committed"
      PROVE  FateInv'
  <2>1. Safe' \subseteq Safe
    BY <1>0, <1>2 DEF Safe
  <2>2. ASSUME NEW t \in Safe', conn[k].xa = t PROVE GivenUp(t)' /\ Uncommitted(t)'
    <3>1. \A j \in Conns : branch'[j][t].st = "committed" => branch[j][t].st = "committed"
      BY <1>1, <1>2
    <3>. QED  BY <1>0, <2>1, <2>2, <3>1, RolledBackFate
  <2>3. \A t \in Safe' : conn[k].xa # t =>
              \/ branch'[k][t].st = branch[k][t].st
              \/ branch[k][t].st = "active" /\ branch'[k][t].st = "aborted"
    BY <1>1, <1>2
  <2>4. \A t \in Safe' : branch'[k][t].st = "committed" => branch[k][t].st = "committed"
    BY <1>1, <1>2
  <2>5. \A t \in Safe' : c.xa # t
    BY <1>1, <1>2
  <2>6. FateAt(k, c)
    BY <1>0, <1>2, <2>2, <2>3, <2>4, <2>5 DEF FateAt, Safe
  <2>. QED  BY <1>0, <1>2, <2>2, <2>3, <2>4, <2>5, <2>6, CommandFate
<1>3. /\ OutOfTrx(conn[k]) \in Conn /\ OutOfTrx(conn[k]).xa = NoXa
      /\ Ended(conn[k]) \in Conn /\ Ended(conn[k]).xa = NoXa
      /\ [Reset(conn[k]) EXCEPT !.inTrans = TRUE] \in Conn /\ Reset(conn[k]) \in Conn
      /\ Reset(conn[k]).xa = NoXa
  BY <1>1, ResetFields, ConnTypes
<1>4. CASE ConnRollback(k)
  <2> DEFINE from == IF conn[k].prepared THEN "prepared" ELSE "active"
             to == IF conn[k].prepared THEN "undone" ELSE "aborted"
  <2>1. /\ from \in {"active", "prepared"} /\ to \in {"aborted", "undone"}
        /\ (Answered(k, from, to) /\ UNCHANGED harmed) \/ Failed(k, from, to)
    BY <1>4 DEF ConnRollback
  <2>2. conn' = [conn EXCEPT ![k] = OutOfTrx(conn[k])] \/ conn' = [conn EXCEPT ![k] = Ended(conn[k])]
    BY <1>1, <1>4 DEF ConnRollback
  <2> HIDE DEF from, to
  <2>3. /\ harmed \subseteq harmed'
        /\ \A j \in Conns \ {k} : branch'[j] = branch[j] /\ alive'[j] = alive[j]
        /\ \A t \in Trxs : conn[k].xa # t =>
              \/ branch'[k][t].st = branch[k][t].st
              \/ branch[k][t].st = "active" /\ branch'[k][t].st = "aborted"
    BY <2>1, CommandOthers
  <2>4. \A t \in Trxs : branch'[k][t].st = "committed" => branch[k][t].st = "committed"
    BY <2>1, CommandFacts
  <2>. QED  BY <1>2, <1>3, <2>2, <2>3, <2>4
<1>5. CASE ConnRollbackChain(k)
  <2>1. /\ UNCHANGED serverVars \/ ThreadEnds(branch, k, conn[k].proto)
        /\ UNCHANGED harmed
    BY <1>5 DEF ConnRollbackChain, history
  <2>2. /\ \A j \in Conns \ {k} : branch'[j] = branch[j] /\ alive'[j] = alive[j]
        /\ \A t \in Trxs : \/ branch'[k][t].st = branch[k][t].st
                           \/ branch[k][t].st = "active" /\ branch'[k][t].st = "aborted"
    BY <2>1, OwnThreadEnds
  <2>3. ASSUME NEW c \in Conn, c.xa = NoXa, conn' = [conn EXCEPT ![k] = c] PROVE FateInv'
    <3>1. \A t \in Trxs : branch'[k][t].st = "committed" => branch[k][t].st = "committed"
      BY <2>2
    <3>. QED  BY <1>2, <2>1, <2>2, <2>3, <3>1
  <2>4. [Reset(conn[k]) EXCEPT !.inTrans = TRUE].xa = NoXa
    <3> DEFINE r == Reset(conn[k])
    <3>1. r \in Conn /\ r.xa = NoXa
      BY <1>3
    <3> HIDE DEF r
    <3>2. [r EXCEPT !.inTrans = TRUE].xa = NoXa
      BY <3>1 DEF Conn
    <3>. QED  BY <3>2 DEF r
  <2>5. /\ ConnStartTrx(Ended(conn[k]), NoXa) \in Conn
        /\ ConnStartTrx(Ended(conn[k]), NoXa).xa = NoXa
    BY <1>1, <1>3, ConnStartType, StartFields
  <2>6. \/ conn' = [conn EXCEPT ![k] = [Reset(conn[k]) EXCEPT !.inTrans = TRUE]]
        \/ conn' = [conn EXCEPT ![k] = ConnStartTrx(Ended(conn[k]), NoXa)]
    BY <1>1, <1>5 DEF ConnRollbackChain
  <2>. QED  BY <1>3, <2>3, <2>4, <2>5, <2>6
<1>. QED  BY <1>4, <1>5

\* The application gives the connection back, and leaves the transaction.
LEMMA EndFate ==
    ASSUME TypeOK, XaCore, FateInv, NEW k \in Conns, End(k)
    PROVE  FateInv'
<1>1. /\ conn[k] \in Conn /\ conn \in [Conns -> Conn] /\ NoXa \in 0 .. MaxTrx /\ NoXa \notin Trxs
  BY XaAssumption DEF TypeOK, NoXa, Trxs
<1>2. /\ conn' = [conn EXCEPT ![k] = Ended(conn[k])]
      /\ UNCHANGED <<sess, members, lastTrx, alive, branch, harmed>>
      /\ left \subseteq left' /\ (conn[k].xa # NoXa => conn[k].xa \in left')
  BY <1>1 DEF End, serverVars
<1>3. Ended(conn[k]) \in Conn /\ Ended(conn[k]).xa = NoXa
  BY <1>1, ResetFields, ConnTypes
<1>4. \A t \in Safe' : conn[k].xa # t
  BY <1>1, <1>2 DEF Safe
<1>5. FateAt(k, Ended(conn[k]))
  BY <1>2, <1>3, <1>4 DEF FateAt, Safe
<1>. QED  BY <1>2, <1>3, <1>4, <1>5, CommandFate

\* A step of a connection
LEMMA ConnFate == TypeOK /\ XaCore /\ OwnInv /\ FateInv /\ ConnNext => FateInv'
BY QueryFate, PrepareFate, CommitFate, UndoFate, RollbackFate, EndFate DEF ConnNext

-----------------------------------------------------------------------------
\* A step of the session: the servers do nothing, and the session gives up what
\* is lost, or the connections that have it do not have it any more.
LEMMA SessionFate ==
    TypeOK /\ XaCore /\ OwnInv /\ FateInv /\ SessionNext /\ XaCore' => FateInv'
<1> SUFFICES ASSUME TypeOK, XaCore, OwnInv, FateInv, SessionNext, XaCore' PROVE FateInv'
  OBVIOUS
<1>0. /\ \A t \in Safe : t # NoXa /\ t \in Trxs
      /\ \A k \in Conns : conn[k] \in Conn /\ PrepOk(k)
  BY XaAssumption DEF TypeOK, FateInv, PrepInv, Safe, Trxs, NoXa
<1>1. ASSUME UNCHANGED <<alive, branch, harmed, left>>,
             \A t \in Safe : (\E k \in Conns : Lost(k, t)') => GivenUp(t)' /\ Uncommitted(t),
             \A k \in Conns, t \in Safe : conn'[k].xa = t =>
                \/ ~conn'[k].prepared /\ conn'[k].op \notin {"commit", "undo"}
                \/ /\ conn[k].xa = t /\ conn[k].prepared /\ conn'[k].prepared
                   /\ conn[k].op # "undo" /\ conn'[k].op # "undo" /\ conn'[k].proto = conn[k].proto,
             sess'.pc = "commit" => \A k \in Conns :
                conn'[k].xa # NoXa => conn'[k].op \in {"commit", "undo"},
             \A t \in Safe : ~Uncommitted(t) => sess'.xa # t /\ \A k \in Conns : conn'[k].xa # t
      PROVE  FateInv'
  <2>1. Safe' = Safe /\ \A t \in Safe : Uncommitted(t)' <=> Uncommitted(t)
    BY <1>1 DEF Safe, Uncommitted
  <2>2. LostInv'
    BY <1>1, <2>1 DEF LostInv
  <2>3. PrepInv'
    <3> SUFFICES ASSUME NEW k \in Conns, NEW t \in Safe, conn'[k].xa = t
                 PROVE  /\ conn'[k].op \in {"commit", "undo"} => conn'[k].prepared
                        /\ conn'[k].prepared /\ conn'[k].op = "undo" => branch'[k][t].st = "committed"
                        /\ conn'[k].prepared /\ conn'[k].op # "undo"
                             => branch'[k][t].st = "prepared" /\ conn'[k].proto \in alive'[k]
      BY <2>1 DEF PrepInv, PrepOk
    <3>1. CASE ~conn'[k].prepared /\ conn'[k].op \notin {"commit", "undo"}
      BY <3>1
    <3>2. CASE /\ conn[k].xa = t /\ conn[k].prepared /\ conn'[k].prepared
               /\ conn[k].op # "undo" /\ conn'[k].op # "undo" /\ conn'[k].proto = conn[k].proto
      <4>1. branch[k][t].st = "prepared" /\ conn[k].proto \in alive[k]
        BY <1>0, <3>2 DEF PrepOk
      <4>. QED  BY <1>1, <3>2, <4>1
    <3>. QED  BY <1>1, <3>1, <3>2
  <2>4. CloseInv'
    BY <1>1, <2>1 DEF CloseInv, Closing
  <2>. QED  BY <2>2, <2>3, <2>4 DEF FateInv
<1>2. \A t \in Safe : (\E k \in Conns : Lost(k, t)) => GivenUp(t) /\ Uncommitted(t)
  BY DEF FateInv, LostInv
<1>3. \A t \in Safe : ~Uncommitted(t) => sess.xa # t /\ Closing(t)
  BY DEF FateInv, CloseInv
<1>4. ASSUME NEW k \in Conns, SessionConn(k) PROVE FateInv'
  <2> DEFINE c == ConnStartTrx(conn[k], sess.xa)
  <2>1. /\ UNCHANGED <<sess, lastTrx, alive, branch, harmed, left>> /\ k \notin members
        /\ \A j \in Conns \ {k} : conn'[j] = conn[j]
        /\ conn'[k] = IF sess.on THEN c ELSE conn[k]
    BY <1>4 DEF SessionConn, TypeOK, serverVars, history
  <2>2. /\ c.xa = sess.xa /\ c.op = conn[k].op /\ c.prepared = conn[k].prepared
    BY <1>0, StartFields
  <2> HIDE DEF c
  <2>3. conn[k].xa = NoXa /\ conn[k].op = "no" /\ ~conn[k].prepared
    BY <2>1, NewFields DEF XaCore, ConnInv
  <2>4. conn'[k].xa \in {NoXa, sess.xa} /\ conn'[k].op = "no" /\ ~conn'[k].prepared
    BY <2>1, <2>2, <2>3
  <2>5. ASSUME NEW t \in Safe, NEW j \in Conns, Lost(j, t)'
        PROVE  GivenUp(t)' /\ Uncommitted(t)
    <3>1. Lost(j, t)
      BY <1>0, <2>1, <2>3, <2>5 DEF Lost, Kept
    <3>2. GivenUp(t) /\ Uncommitted(t)
      BY <1>2, <3>1
    <3>. QED  BY <1>0, <2>1, <2>4, <3>2 DEF GivenUp
  <2>6. PrepInv'
    <3>1. Safe' = Safe
      BY <2>1 DEF Safe
    <3>. QED  BY <1>0, <2>1, <2>4, <3>1 DEF PrepInv, PrepOk
  <2>7. LostInv'
    <3>1. Safe' = Safe /\ \A t \in Safe : Uncommitted(t)' <=> Uncommitted(t)
      BY <2>1 DEF Safe, Uncommitted
    <3>. QED  BY <2>5, <3>1 DEF LostInv
  <2>8. CloseInv'
    <3>1. Safe' = Safe /\ \A t \in Safe : Uncommitted(t)' <=> Uncommitted(t)
      BY <2>1 DEF Safe, Uncommitted
    <3>2. sess.pc = "commit" => conn'[k].xa = NoXa
      BY <2>4 DEF XaCore, SessInv
    <3>3. sess'.pc = "commit" => \A j \in Conns : conn'[j].xa # NoXa => conn'[j].op \in {"commit", "undo"}
      BY <2>1, <3>2 DEF FateInv, CloseInv
    <3>4. \A t \in Safe : ~Uncommitted(t) => sess'.xa # t /\ Closing(t)'
      BY <1>0, <1>3, <2>1, <2>4 DEF Closing
    <3>. QED  BY <3>1, <3>3, <3>4 DEF CloseInv
  <2>. QED  BY <2>6, <2>7, <2>8 DEF FateInv
<1>5. CASE MovesOn
  <2>1. /\ \A k \in Conns : conn[k].op = "no" /\ (Carried(k) \/ Dropped(k))
        /\ UNCHANGED <<lastTrx, alive, branch, harmed, left>> /\ sess'.xa \in {NoXa, sess.xa}
        /\ sess.pc = "prepare" /\ sess.err => sess'.pc = "rollback"
        /\ sess'.pc = "commit" => \A k \in Conns :
              conn'[k].xa # NoXa => conn'[k].op = "commit" /\ conn'[k].prepared
    BY <1>5 DEF MovesOn, AllSettled, AllMove, serverVars, history
  <2>2. ASSUME NEW k \in Conns
        PROVE  /\ conn'[k].xa \in {NoXa, conn[k].xa} /\ conn'[k].op # "undo"
               /\ conn'[k].xa # NoXa => conn'[k].proto = conn[k].proto /\ conn'[k].prepared = conn[k].prepared
               /\ conn[k].prepared => conn'[k].xa = conn[k].xa /\ conn'[k].prepared
    <3>1. CASE Carried(k)
      BY <3>1 DEF Carried
    <3>2. CASE Dropped(k)
      <4>1. ~conn[k].prepared
        BY <3>2 DEF Dropped, HasWork, XaCore, ConnInv
      <4>. QED  BY <3>2, <4>1 DEF Dropped
    <3>. QED  BY <2>1, <3>1, <3>2
  <2>3. ASSUME NEW t \in Safe, NEW j \in Conns, Lost(j, t)'
        PROVE  GivenUp(t)' /\ Uncommitted(t)
    <3>1. Lost(j, t)
      BY <1>0, <2>1, <2>2, <2>3 DEF Lost, Kept
    <3>2. GivenUp(t) /\ Uncommitted(t)
      BY <1>2, <3>1
    <3>3. ASSUME NEW k \in Conns, conn[k].xa = t PROVE sess'.pc = "rollback"
      <4>1. sess.pc # "rollback"
        BY <1>0, <2>1, <3>3 DEF XaCore, PhaseInv
      <4>. QED  BY <2>1, <3>2, <3>3, <4>1 DEF GivenUp
    <3>4. GivenUp(t)'
      BY <1>0, <2>1, <2>2, <3>2, <3>3 DEF GivenUp
    <3>. QED  BY <3>2, <3>4
  <2>4. ASSUME NEW k \in Conns, NEW t \in Safe, conn'[k].xa = t
        PROVE  \/ ~conn'[k].prepared /\ conn'[k].op \notin {"commit", "undo"}
               \/ /\ conn[k].xa = t /\ conn[k].prepared /\ conn'[k].prepared
                  /\ conn[k].op # "undo" /\ conn'[k].op # "undo" /\ conn'[k].proto = conn[k].proto
    <3>1. conn'[k].op = "commit" => conn'[k].prepared
      BY <1>0, <2>1, <2>4 DEF XaCore, OpInv
    <3>. QED  BY <1>0, <2>1, <2>2, <2>4, <3>1
  <2>5. \A t \in Safe : ~Uncommitted(t) => sess'.xa # t /\ \A k \in Conns : conn'[k].xa # t
    BY <1>0, <1>3, <2>1, <2>2 DEF Closing
  <2>. QED  BY <1>1, <2>1, <2>3, <2>4, <2>5
<1>6. CASE StartsAll
  <2>1. /\ \A k \in Conns : /\ conn[k].op = "no"
                            /\ conn'[k] = IF k \in members THEN ConnStartTrx(conn[k], sess'.xa) ELSE conn[k]
        /\ UNCHANGED <<alive, branch, harmed, left>>
        /\ sess'.xa = NoXa \/ sess'.xa = lastTrx + 1
        /\ lastTrx <= lastTrx' /\ sess'.pc = "idle" /\ (members # {} => sess.pc = "commit")
    BY <1>6 DEF StartsAll, AllSettled, serverVars, history
  <2>2. \A k \in Conns : conn[k].xa = NoXa
    BY <2>1, NewFields DEF XaCore, ConnInv, FateInv, CloseInv
  <2>3. \A k \in Conns : conn'[k].xa \in {NoXa, sess'.xa} /\ conn'[k].op = "no"
    BY <1>0, <2>1, <2>2, StartFields
  <2>4. ASSUME NEW k \in Conns PROVE conn'[k].xa # NoXa => ~conn'[k].prepared
    <3>1. CASE k \in members
      <4>1. conn'[k].pending # "no"
        BY <1>0, <2>1, <3>1, StartFields
      <4>. QED  BY <4>1 DEF XaCore, ConnInv
    <3>2. CASE k \notin members
      BY <2>1, <2>2, <3>2
    <3>. QED  BY <3>1, <3>2
  <2>5. ASSUME NEW t \in Safe, t <= lastTrx PROVE sess'.xa # t /\ t <= lastTrx'
    <3>1. t \in Nat /\ lastTrx \in Nat /\ lastTrx' \in Nat
      BY SessionTypes, XaAssumption DEF TypeOK, Safe, Trxs
    <3>. QED  BY <1>0, <2>1, <2>5, <3>1
  <2>6. ASSUME NEW t \in Safe, NEW j \in Conns, Lost(j, t)'
        PROVE  GivenUp(t)' /\ Uncommitted(t)
    <3>1. Lost(j, t)
      BY <1>0, <2>1, <2>2, <2>6 DEF Lost, Kept
    <3>2. GivenUp(t) /\ Uncommitted(t)
      BY <1>2, <3>1
    <3>3. sess'.xa # t /\ t <= lastTrx'
      BY <2>5, <3>2 DEF GivenUp
    <3>. QED  BY <1>0, <2>3, <3>2, <3>3 DEF GivenUp
  <2>7. ASSUME NEW t \in Safe, ~Uncommitted(t) PROVE sess'.xa # t /\ \A k \in Conns : conn'[k].xa # t
    <3>1. t <= lastTrx
      BY <1>0, <2>7 DEF Uncommitted, OwnInv, OwnerOk
    <3>. QED  BY <1>0, <2>3, <2>5, <3>1
  <2>8. \A k \in Conns, t \in Safe : conn'[k].xa = t =>
           ~conn'[k].prepared /\ conn'[k].op \notin {"commit", "undo"}
    BY <1>0, <2>3, <2>4
  <2>. QED  BY <1>1, <2>1, <2>6, <2>7, <2>8
<1>7. CASE DisposeSession
  <2>1. /\ sess.pc = "idle" /\ sess'.xa = NoXa /\ sess'.pc = "idle"
        /\ \A k \in Conns : conn'[k] = NewConn /\ conn[k].op = "no"
        /\ UNCHANGED <<lastTrx, alive, branch, harmed, left>>
    BY <1>7 DEF DisposeSession, AllSettled, NewSess, serverVars, history
  <2>2. ASSUME NEW t \in Safe, NEW j \in Conns, Lost(j, t)'
        PROVE  GivenUp(t)' /\ Uncommitted(t)
    <3>1. branch[j][t].st # "none"
      BY <2>1, <2>2 DEF Lost
    <3>2. GivenUp(t)'
      BY <1>0, <2>1, <3>1, NewFields DEF GivenUp, OwnInv, OwnerOk
    <3>3. CASE Lost(j, t)
      BY <1>2, <3>2, <3>3
    <3>4. CASE conn[j].xa = t
      BY <1>3, <2>1, <3>2, <3>4 DEF Closing
    <3>. QED  BY <2>1, <2>2, <3>2, <3>3, <3>4 DEF Lost, Kept
  <2>. QED  BY <1>0, <1>1, <2>1, <2>2, NewFields
<1>. QED  BY <1>4, <1>5, <1>6, <1>7, SessionKinds

-----------------------------------------------------------------------------
\* A step of the servers loses nothing that the session has not given up, and
\* ends no thread with a prepared transaction, but with harm.
LEMMA ServerFate ==
    ASSUME TypeOK, FateInv, UNCHANGED <<clientVars, left>>, harmed \subseteq harmed',
           \A k \in Conns, t \in Safe' :
              \/ branch'[k][t].st = branch[k][t].st
              \/ branch[k][t].st = "active" /\ branch'[k][t].st = "aborted"
              \/ Lost(k, t) /\ branch[k][t].st = "prepared" /\ branch'[k][t].st = "swept",
           \A k \in Conns, t \in Safe' :
              Kept(k, t) /\ conn[k].op # "undo" => conn[k].proto \in alive'[k]
    PROVE  FateInv'
<1>1. Safe' \subseteq Safe /\ UNCHANGED <<sess, conn, lastTrx>>
  BY DEF Safe, clientVars
<1>2. ASSUME NEW t \in Safe' PROVE Uncommitted(t)' <=> Uncommitted(t)
  BY DEF Uncommitted
<1>3. LostInv'
  <2> SUFFICES ASSUME NEW t \in Safe', NEW k \in Conns, Lost(k, t)'
               PROVE  GivenUp(t)' /\ Uncommitted(t)'
    BY DEF LostInv
  <2>1. Lost(k, t)
    BY <1>1 DEF Lost, Kept
  <2>2. GivenUp(t) /\ Uncommitted(t)
    BY <1>1, <2>1 DEF FateInv, LostInv
  <2>. QED  BY <1>1, <1>2, <2>2 DEF GivenUp
<1>4. PrepInv'
  <2> SUFFICES ASSUME NEW k \in Conns, NEW t \in Safe', conn[k].xa = t
               PROVE  /\ conn[k].op \in {"commit", "undo"} => conn[k].prepared
                      /\ conn[k].prepared /\ conn[k].op = "undo" => branch'[k][t].st = "committed"
                      /\ conn[k].prepared /\ conn[k].op # "undo"
                           => branch'[k][t].st = "prepared" /\ conn[k].proto \in alive'[k]
    BY <1>1 DEF PrepInv, PrepOk
  <2>1. /\ conn[k].op \in {"commit", "undo"} => conn[k].prepared
        /\ conn[k].prepared /\ conn[k].op = "undo" => branch[k][t].st = "committed"
        /\ conn[k].prepared /\ conn[k].op # "undo" => branch[k][t].st = "prepared"
    BY <1>1 DEF FateInv, PrepInv, PrepOk
  <2>2. conn[k].prepared => ~Lost(k, t)
    BY <2>1 DEF Lost, Kept
  <2>. QED  BY <2>1, <2>2 DEF Kept
<1>5. CloseInv'
  BY <1>1, <1>2 DEF FateInv, CloseInv, Closing
<1>. QED  BY <1>3, <1>4, <1>5 DEF FateInv

\* A step of the pool, the servers and the manager
LEMMA EnvFate == ~PoolBreaks /\ TypeOK /\ OwnInv /\ FateInv /\ EnvNext => FateInv'
<1> SUFFICES ASSUME ~PoolBreaks, TypeOK, OwnInv, FateInv, EnvNext PROVE FateInv'
  OBVIOUS
<1>0. \A t \in Safe : t # NoXa /\ t \in Trxs
  BY XaAssumption DEF Safe, Trxs, NoXa
<1>1. ASSUME NEW k \in Conns, NEW t \in Safe, Kept(k, t), conn[k].op # "undo"
      PROVE  /\ branch[k][t].st = "prepared" /\ conn[k].proto \in alive[k]
             /\ conn[k].proto = branch[k][t].by
  <2>1. branch[k][t].st = "prepared" /\ conn[k].proto \in alive[k]
    BY <1>1 DEF FateInv, PrepInv, PrepOk, Kept
  <2>2. conn[k].proto = branch[k][t].by
    BY <1>0, <1>1, <2>1 DEF OwnInv, OwnerOk, Kept
  <2>. QED  BY <2>1, <2>2
<1>2. ASSUME NEW k \in Conns, NEW c, branch' = Released(branch, k, c),
             UNCHANGED <<clientVars, left>>, harmed \subseteq harmed',
             alive' \in {alive, [alive EXCEPT ![k] = @ \ {c}]},
             \A t \in Safe' : Kept(k, t) /\ conn[k].op # "undo" => conn[k].proto # c
      PROVE  FateInv'
  <2>1. Safe' \subseteq Safe
    BY <1>2 DEF Safe
  <2>2. \A j \in Conns, t \in Safe' : \/ branch'[j][t].st = branch[j][t].st
                                      \/ branch[j][t].st = "active" /\ branch'[j][t].st = "aborted"
    BY <1>0, <1>2, <2>1, ReleasedStates DEF TypeOK
  <2>3. ASSUME NEW j \in Conns, NEW t \in Safe', Kept(j, t), conn[j].op # "undo"
        PROVE  conn[j].proto \in alive'[j]
    <3>1. conn[j].proto \in alive[j]
      BY <1>1, <2>1, <2>3
    <3>2. j = k => conn[j].proto # c
      BY <1>2, <2>3
    <3>. QED  BY <1>2, <3>1, <3>2 DEF TypeOK
  <2>. QED  BY <1>2, <2>2, <2>3, ServerFate
<1>3. ASSUME NEW k \in Conns, NEW e \in ending[k], EndCompletes(k, e) PROVE FateInv'
  <2>1. /\ UNCHANGED <<clientVars, harmed, left>> /\ branch' = Released(branch, k, e.cid)
        /\ alive' \in {alive, [alive EXCEPT ![k] = @ \ {e.cid}]}
    BY <1>3 DEF EndCompletes, ThreadEnds, history
  <2>2. conn[k].proto # e.cid
    BY DEF OwnInv, ThreadOk
  <2>. QED  BY <1>2, <2>1, <2>2
<1>4. ASSUME NEW k \in Conns, NEW c \in idle[k], PoolCloses(k, c) PROVE FateInv'
  <2>1. /\ UNCHANGED <<clientVars, harmed, left>> /\ branch' = Released(branch, k, c)
        /\ alive' = [alive EXCEPT ![k] = @ \ {c}]
    BY <1>4 DEF PoolCloses, ThreadEnds, history
  <2>2. conn[k].proto # c
    BY DEF OwnInv, ThreadOk, TypeOK, Cids, NoCid
  <2>. QED  BY <1>2, <2>1, <2>2
<1>5. ASSUME NEW k \in Conns, NEW c \in alive[k], ConnectionLost(k, c) PROVE FateInv'
  <2>1. /\ UNCHANGED <<clientVars, left>> /\ branch' = Released(branch, k, c)
        /\ alive' = [alive EXCEPT ![k] = @ \ {c}] /\ harmed' = harmed \cup PreparedBy(k, c)
    BY <1>5 DEF ConnectionLost, ThreadEnds
  <2>2. ASSUME NEW t \in Safe', Kept(k, t), conn[k].op # "undo", conn[k].proto = c PROVE FALSE
    <3>1. t \in Safe /\ t \notin PreparedBy(k, c)
      BY <2>1 DEF Safe
    <3>2. branch[k][t].st = "prepared" /\ branch[k][t].by = c
      BY <1>1, <2>2, <3>1
    <3>. QED  BY <1>0, <3>1, <3>2 DEF PreparedBy
  <2>3. harmed \subseteq harmed' /\ \A t \in Safe' : Kept(k, t) /\ conn[k].op # "undo" => conn[k].proto # c
    BY <2>1, <2>2
  <2>. QED  BY <1>2, <2>1, <2>3
<1>6. CASE Crash
  <2>1. /\ UNCHANGED <<lastTrx, left>> /\ sess'.xa = NoXa /\ sess'.pc = "idle"
        /\ \A k \in Conns : conn'[k] = NewConn
        /\ harmed' = harmed \cup {t \in Trxs : \E k \in Conns : branch[k][t].st = "prepared"}
    BY <1>6 DEF Crash, NewSess
  <2>2. Safe' \subseteq Safe /\ \A t \in Safe' : \A k \in Conns : branch[k][t].st # "prepared"
    BY <2>1 DEF Safe
  <2>3. ASSUME NEW t \in Safe', NEW k \in Conns
        PROVE  \/ branch'[k][t].st = branch[k][t].st
               \/ branch[k][t].st = "active" /\ branch'[k][t].st = "aborted"
    BY <1>0, <1>6, <2>2, CrashFacts
  <2>4. ASSUME NEW t \in Safe', NEW k \in Conns, Lost(k, t)' PROVE GivenUp(t)' /\ Uncommitted(t)'
    <3>1. Lost(k, t)
      BY <2>2, <2>3, <2>4 DEF Lost
    <3>2. GivenUp(t) /\ Uncommitted(t)
      BY <2>2, <3>1 DEF FateInv, LostInv
    <3>3. Uncommitted(t)'
      BY <2>3, <3>2 DEF Uncommitted
    <3>4. GivenUp(t)'
      BY <1>0, <2>1, <2>2, <3>2, NewFields DEF GivenUp
    <3>. QED  BY <3>3, <3>4
  <2>5. LostInv'
    BY <2>4 DEF LostInv
  <2>6. PrepInv' /\ CloseInv'
    BY <1>0, <2>1, <2>2, NewFields DEF PrepInv, PrepOk, CloseInv, Closing
  <2>. QED  BY <2>5, <2>6 DEF FateInv
<1>7. ASSUME NEW k \in Conns, Recover(k) \/ FilterAlive(k) \/ ManagerFails(k) PROVE FateInv'
  <2>1. UNCHANGED <<clientVars, alive, branch, harmed, left>>
    BY <1>7 DEF Recover, FilterAlive, ManagerFails, serverVars, history
  <2>2. Safe' = Safe
    BY <2>1 DEF Safe
  <2>. QED  BY <1>1, <2>1, <2>2, ServerFate
<1>8. ASSUME NEW k \in Conns, NEW u \in Trxs, RollbackDangling(k, u) PROVE FateInv'
  <2>1. UNCHANGED <<clientVars, alive, harmed, left>> /\ mgr[k].pc = "sweep" /\ u \in mgr[k].xas
    BY <1>8 DEF RollbackDangling, poolVars, history
  <2>2. Safe' = Safe
    BY <2>1 DEF Safe
  <2>3. branch[k][u].by \notin alive[k]
    BY <2>1 DEF OwnInv, SweepOk, OwnerOk
  <2>4. u \in Safe /\ branch[k][u].st = "prepared" => Lost(k, u)
    <3> SUFFICES ASSUME u \in Safe, branch[k][u].st = "prepared", Kept(k, u) PROVE FALSE
      BY DEF Lost
    <3>1. conn[k].op # "undo"
      BY DEF FateInv, PrepInv, PrepOk, Kept
    <3>. QED  BY <1>1, <2>3, <3>1
  <2>5. \A j \in Conns, t \in Safe :
              \/ branch'[j][t].st = branch[j][t].st
              \/ Lost(j, t) /\ branch[j][t].st = "prepared" /\ branch'[j][t].st = "swept"
    BY <1>0, <1>8, <2>4, SweptFacts
  <2>. QED  BY <1>1, <2>1, <2>2, <2>5, ServerFate
<1>. QED
  BY <1>3, <1>4, <1>5, <1>6, <1>7, <1>8 DEF EnvNext, ManagerStep

\* All or nothing: a transaction that no fault hit between PREPARE and COMMIT is
\* not committed on one server and rolled back on another, whatever else fails,
\* by the session, its connections or the manager, for any number of servers,
\* if a pooled connection does not die before its next use.
THEOREM XaAtomicUnlessHarmed == ASSUME ~PoolBreaks PROVE Spec => []AtomicUnlessHarmed
<1>1. Init => FateInv
  <2> SUFFICES ASSUME Init PROVE FateInv
    OBVIOUS
  <2>1. /\ sess.pc = "idle" /\ \A k \in Conns : conn[k] = NewConn
        /\ \A k \in Conns, t \in Trxs : branch[k][t].st = "none"
    BY DEF Init, NewSess, NoBranch
  <2>2. \A t \in Safe : t \in Trxs /\ t # NoXa
    BY XaAssumption DEF Safe, Trxs, NoXa
  <2>. QED
    BY <2>1, <2>2, NewFields
    DEF FateInv, LostInv, PrepInv, PrepOk, CloseInv, Closing, Lost, Uncommitted
<1>2. XaInv /\ OwnInv /\ FateInv /\ [Next]_vars /\ XaInv' => FateInv'
  <2> SUFFICES ASSUME XaInv, OwnInv, FateInv, [Next]_vars, XaInv' PROVE FateInv'
    OBVIOUS
  <2>1. TypeOK /\ XaCore /\ XaCore'
    BY DEF XaInv, XaCore
  <2>2. CASE UNCHANGED vars
    <3>1. UNCHANGED <<sess, conn, lastTrx, alive, branch, harmed, left>>
      BY <2>2 DEF vars, clientVars, serverVars, history
    <3>. QED
      BY <3>1 DEF FateInv, LostInv, PrepInv, PrepOk, CloseInv, Closing, Lost, Kept, GivenUp,
                  Uncommitted, Safe
  <2>. QED  BY <2>1, <2>2, SessionFate, ConnFate, EnvFate DEF Next
<1>3. XaInv /\ FateInv => AtomicUnlessHarmed
  <2> SUFFICES ASSUME XaInv, FateInv, NEW t \in Safe, NEW j \in Conns, branch[j][t].st = "committed",
                      NEW k \in Conns
               PROVE  branch[k][t].st \in {"none", "prepared", "committed"}
    BY DEF AtomicUnlessHarmed, Safe
  <2>1. branch[k][t].st \notin {"active", "aborted"}
    BY DEF XaInv, CommitInv, Committing, Open, Safe
  <2>2. branch[k][t].st \notin {"undone", "swept"}
    BY DEF FateInv, LostInv, Lost, Uncommitted
  <2>3. branch[k][t] \in Branch
    BY DEF XaInv, TypeOK, Safe
  <2>. QED  BY <2>1, <2>2, <2>3 DEF Branch
<1>. QED  BY <1>1, <1>2, <1>3, XaOwners, PTL DEF Spec

=============================================================================

------------------------------ MODULE TrxProofs ------------------------------
(* Theorems about Trx, for all values of its constants. *)
EXTENDS Trx, SequenceTheorems, FiniteSetTheorems, TLAPS

\* What the application does not do. See the guards of EndTrx, of Savepoint and of
\* SessionSavepoint, and of StartTrx.
Usage == Allows \cap {"restartUnsent", "mixedUnsent", "startAfterEnd"} = {}

-----------------------------------------------------------------------------
(* The inductive invariant: for each connection, what relates the MyConn   *)
(* (c), its thread in the server (s), and what the application knows: that *)
(* it is in a transaction (w), and the points that it has (l).             *)

MyConns == [proto : BOOLEAN, fresh : BOOLEAN, inTrans : BOOLEAN, pending : Seq(Points \cup {START}),
            enum : 0 .. MaxPoints, stmt : BOOLEAN, op : Ops, sent : Nat, to : Points \cup {START},
            retries : 0 .. MaxRetries, old : {"no", "sending", "preparing", "executing"}]

Threads == [alive : BOOLEAN, trx : BOOLEAN, log : Seq(Points \cup {Write}), stmt : BOOLEAN]

Typed(c, s, w, l) == c \in MyConns /\ s \in Threads /\ w \in BOOLEAN /\ l \subseteq Points

\* What is true of the calls that are awaited. A terminated protocol has nothing.
Phases(c, w, l) ==
    /\ c.op = "no" => c.old = "no" /\ c.sent = 0
    /\ c.old # "no" => ~w /\ ~c.proto /\ c.pending = <<>>
    /\ c.old = "no" => c.sent <= Len(c.pending)
    /\ c.old = "no" /\ c.op \in {"commit", "commitChain", "rollback", "chain"} => c.proto
    /\ c.old = "no" /\ c.op = "to" /\ w => c.to \in l
    /\ l # {} => w

\* What the MyConn knows of the thread
Flags(c, s, w) ==
    /\ c.fresh => c.proto /\ ~s.trx /\ ~c.inTrans
    /\ c.inTrans => c.proto
    /\ s.trx => c.proto
    /\ c.proto /\ s.alive => c.inTrans = s.trx
    /\ w /\ c.inTrans => s.alive

\* The start of the transaction is executed, or the next command to send.
Begins(c, s, w) ==
    /\ \A i \in 1 .. Len(c.pending) : c.pending[i] = START => i = 1
    /\ w /\ c.old = "no" => s.trx \/ (c.sent < Len(c.pending) /\ c.pending[c.sent + 1] = START)

\* rollback(toPointId) finds a point that is pending in a transaction not yet started.
OneKind(c) ==
    ~c.inTrans => \A i, j \in 1 .. Len(c.pending) :
                     c.pending[i] # START /\ c.pending[j] # START => c.pending[i][1] = c.pending[j][1]

\* No point is in the log twice.
PointsOnce(log) == \A a, b \in 1 .. Len(log) : log[a] = log[b] /\ log[a] \in Points => a = b

\* The log of the thread
LogOnce(s) == (~s.trx => s.log = <<>>) /\ PointsOnce(s.log)

\* The pending commands that are sent are in the log, and in it, what follows one of
\* them follows it among the pending ones, too.
InLog(c, s) ==
    c.old = "no" =>
        /\ s.trx => \A i \in 1 .. c.sent : c.pending[i] # START =>
                       \E a \in 1 .. Len(s.log) : s.log[a] = c.pending[i]
        /\ \A a, b \in 1 .. Len(s.log) : \A j \in 1 .. c.sent :
               a < b /\ s.log[a] = c.pending[j] => \E m \in j + 1 .. c.sent : c.pending[m] = s.log[b]

\* The points that the application has
Kept(c, s, l) ==
    \A x \in l : \/ \E i \in 1 .. Len(c.pending) : c.pending[i] = x
                 \/ /\ c.inTrans
                    /\ \E a \in 1 .. Len(s.log) : s.log[a] = x
                    /\ \A i \in 1 .. Len(c.pending) : c.pending[i] # START

Good(c, s, w, l) ==
    /\ Typed(c, s, w, l) /\ Phases(c, w, l) /\ Flags(c, s, w) /\ Begins(c, s, w)
    /\ OneKind(c) /\ LogOnce(s) /\ InLog(c, s) /\ Kept(c, s, l)

TrxInv ==
    /\ conn \in [Conns -> MyConns] /\ srv \in [Conns -> Threads]
    /\ want \in [Conns -> BOOLEAN] /\ live \in [Conns -> SUBSET Points]
    /\ sess \in [on : BOOLEAN, enum : 0 .. MaxPoints] /\ members \subseteq Conns
    /\ \A k \in Conns : /\ Good(conn[k], srv[k], want[k], live[k])
                        /\ k \notin members => conn[k] = NewConn /\ srv[k] = NewThread /\ ~want[k] /\ live[k] = {}

-----------------------------------------------------------------------------
(* Sequences, and the server.                                              *)

LEMMA Names ==
    /\ START \notin Points /\ Write \notin Points /\ START # Write
    /\ \A x \in Points : x # START /\ x # Write
BY DEF START, Points, Write

LEMMA RangeIs ==
    ASSUME NEW S, NEW q \in Seq(S), NEW x
    PROVE  x \in Range(q) <=> \E i \in 1 .. Len(q) : q[i] = x
BY DEF Range

\* A set of positions has a last one.
LEMMA MaxExists ==
    ASSUME NEW n \in Nat, NEW S \in SUBSET (1 .. n), S # {}
    PROVE  Max(S) \in S /\ \A y \in S : y <= Max(S)
<1> DEFINE T == {i .. n : i \in S}
<1>1. IsFiniteSet(1 .. n)
  BY FS_Interval
<1>2. IsWellFoundedOn(StrictSubsetOrdering(1 .. n), SUBSET (1 .. n))
  BY <1>1, FS_StrictSubsetOrderingWellFounded, FS_FiniteSubsetsOfFinite
<1>3. T \subseteq SUBSET (1 .. n) /\ T # {}
  <2>1. \A i \in S : i .. n \in SUBSET (1 .. n)
    OBVIOUS
  <2>2. QED
    BY <2>1
<1>4. PICK x \in T : \A y \in T : ~ (<<y, x>> \in StrictSubsetOrdering(1 .. n))
  BY <1>2, <1>3, WFMin
<1>5. PICK i \in S : x = i .. n
  OBVIOUS
<1>6. \A y \in S : i >= y
  <2> SUFFICES ASSUME NEW y \in S, y > i
               PROVE  FALSE
    OBVIOUS
  <2>1. i \in 1 .. n /\ y \in 1 .. n
    OBVIOUS
  <2>2. i \in i .. n /\ i \notin y .. n /\ y .. n \subseteq i .. n
    BY <2>1
  <2>3. y .. n \in T /\ y .. n \in SUBSET (1 .. n) /\ i .. n \in SUBSET (1 .. n)
    BY <2>1
  <2>4. <<y .. n, i .. n>> \in StrictSubsetOrdering(1 .. n)
    BY <2>2, <2>3 DEF StrictSubsetOrdering
  <2>5. QED
    BY <1>4, <1>5, <2>3, <2>4
<1>7. Max(S) \in S /\ \A y \in S : Max(S) >= y
  BY <1>6 DEF Max
<1>8. QED
  BY <1>7

\* u is what is left of the log when x is taken away: the rest stays in its order.
Thinned(u, log, x) ==
    /\ u \in Seq(Points \cup {Write})
    /\ \E f \in [1 .. Len(u) -> 1 .. Len(log)] :
          /\ \A a \in 1 .. Len(u) : u[a] = log[f[a]] /\ u[a] # x
          /\ \A a, b \in 1 .. Len(u) : a < b => f[a] < f[b]
          /\ \A b \in 1 .. Len(log) : log[b] # x => \E a \in 1 .. Len(u) : f[a] = b

LEMMA WithoutFacts ==
    ASSUME NEW log \in Seq(Points \cup {Write}), NEW x \in Points, PointsOnce(log)
    PROVE  Thinned(Without(log, x), log, x)
<1> DEFINE u == Without(log, x)
<1>1. CASE x \notin Range(log)
  <2>1. u = log
    BY <1>1 DEF Without
  <2>2. \A a \in 1 .. Len(log) : log[a] # x
    BY <1>1, RangeIs
  <2>3. [a \in 1 .. Len(log) |-> a] \in [1 .. Len(u) -> 1 .. Len(log)]
    BY <2>1
  <2>4. QED
    BY <2>1, <2>2, <2>3 DEF Thinned
<1>2. CASE x \in Range(log)
  <2> DEFINE p == Position(log, x)
             n == Len(log)
  <2>1. p \in 1 .. n /\ log[p] = x
    BY <1>2, RangeIs DEF Position
  <2> HIDE DEF p
  <2>2. u = SubSeq(log, 1, p - 1) \o SubSeq(log, p + 1, n)
    BY <1>2 DEF Without, RemoveAt, p
  <2> DEFINE q == SubSeq(log, 1, p - 1)
             r == SubSeq(log, p + 1, n)
  <2>q. q \in Seq(Points \cup {Write}) /\ Len(q) = p - 1 /\ \A a \in 1 .. p - 1 : q[a] = log[a]
    <3>1. \A a \in 1 .. p - 1 : log[a] \in Points \cup {Write}
      BY <2>1
    <3>2. QED
      BY <2>1, <3>1, SubSeqProperties
  <2>r. r \in Seq(Points \cup {Write}) /\ Len(r) = n - p /\ \A a \in 1 .. n - p : r[a] = log[p + a]
    <3>1. \A a \in p + 1 .. n : log[a] \in Points \cup {Write}
      BY <2>1
    <3>2. \A a \in 1 .. n - p : r[a] = log[(p + 1) + a - 1]
      BY <2>1, <3>1, SubSeqProperties
    <3>3. r \in Seq(Points \cup {Write}) /\ Len(r) = n - p
      BY <2>1, <3>1, SubSeqProperties
    <3>4. QED
      BY <2>1, <3>2, <3>3
  <2>s. u = q \o r
    BY <2>2
  <2> HIDE DEF u, q, r
  <2>3. u \in Seq(Points \cup {Write}) /\ Len(u) = n - 1
    <3>1. u \in Seq(Points \cup {Write}) /\ Len(u) = Len(q) + Len(r)
      BY <2>q, <2>r, <2>s, ConcatProperties
    <3>2. QED
      BY <2>1, <2>q, <2>r, <3>1
  <2>4. \A a \in 1 .. n - 1 : u[a] = IF a < p THEN log[a] ELSE log[a + 1]
    <3>1. \A a \in 1 .. n - 1 : u[a] = IF a <= p - 1 THEN q[a] ELSE r[a - (p - 1)]
      BY <2>1, <2>q, <2>r, <2>s, ConcatProperties
    <3> SUFFICES ASSUME NEW a \in 1 .. n - 1
                 PROVE  u[a] = IF a < p THEN log[a] ELSE log[a + 1]
      OBVIOUS
    <3>2. CASE a < p
      BY <2>1, <2>q, <3>1, <3>2
    <3>3. CASE a >= p
      <4>1. a - (p - 1) \in 1 .. n - p /\ p + (a - (p - 1)) = a + 1
        BY <2>1, <3>3
      <4>2. u[a] = r[a - (p - 1)]
        BY <2>1, <3>1, <3>3
      <4>3. r[a - (p - 1)] = log[a + 1]
        BY <2>r, <4>1
      <4>4. ~(a < p)
        BY <2>1, <3>3
      <4>5. QED
        BY <4>2, <4>3, <4>4
    <3>4. QED
      BY <2>1, <3>2, <3>3
  <2> DEFINE f == [a \in 1 .. n - 1 |-> IF a < p THEN a ELSE a + 1]
  <2>5. f \in [1 .. Len(u) -> 1 .. n] /\ \A a \in 1 .. n - 1 : f[a] = (IF a < p THEN a ELSE a + 1)
    BY <2>1, <2>3
  <2> HIDE DEF f
  <2>6. \A a \in 1 .. n - 1 : u[a] = log[f[a]] /\ f[a] # p /\ f[a] \in 1 .. n
    BY <2>1, <2>4, <2>5
  <2>7. \A a \in 1 .. n - 1 : u[a] # x
    BY <2>1, <2>6 DEF PointsOnce
  <2>8. \A a, b \in 1 .. n - 1 : a < b => f[a] < f[b]
    BY <2>1, <2>5
  <2>9. \A b \in 1 .. n : log[b] # x => \E a \in 1 .. n - 1 : f[a] = b
    <3> SUFFICES ASSUME NEW b \in 1 .. n, log[b] # x
                 PROVE  \E a \in 1 .. n - 1 : f[a] = b
      OBVIOUS
    <3>1. b # p
      BY <2>1
    <3>2. CASE b < p
      BY <2>1, <2>5, <3>2
    <3>3. CASE b > p
      <4>1. b - 1 \in 1 .. n - 1 /\ ~(b - 1 < p)
        BY <2>1, <3>3
      <4>2. f[b - 1] = b
        BY <2>5, <4>1
      <4>3. QED
        BY <4>1, <4>2
    <3>4. QED
      BY <2>1, <3>1, <3>2, <3>3
  <2>10. \E g \in [1 .. Len(u) -> 1 .. Len(log)] :
            /\ \A a \in 1 .. Len(u) : u[a] = log[g[a]] /\ u[a] # x
            /\ \A a, b \in 1 .. Len(u) : a < b => g[a] < g[b]
            /\ \A b \in 1 .. Len(log) : log[b] # x => \E a \in 1 .. Len(u) : g[a] = b
    <3>1. f \in [1 .. Len(u) -> 1 .. Len(log)]
      BY <2>5
    <3> WITNESS f \in [1 .. Len(u) -> 1 .. Len(log)]
    <3>3. QED
      BY <2>3, <2>6, <2>7, <2>8, <2>9
  <2>11. QED
    BY <2>3, <2>10 DEF Thinned, u
<1>3. QED
  BY <1>1, <1>2

\* A command of a transaction is executed.
LEMMA ExecutedFacts ==
    ASSUME NEW s \in Threads, LogOnce(s), NEW cmd \in Points \cup {START, Write}
    PROVE  LET t == Executed(s, cmd) IN
           /\ t \in Threads /\ LogOnce(t) /\ t.alive = s.alive /\ t.stmt = s.stmt
           /\ t.trx = (s.trx \/ cmd = START)
           /\ cmd = START => t.log = <<>>
           /\ cmd # START /\ s.trx =>
                 t.log = Append(IF cmd = Write THEN s.log ELSE Without(s.log, cmd), cmd)
<1> DEFINE t == Executed(s, cmd)
<1>1. CASE cmd = START
  <2> DEFINE e == <<>>
  <2>1. t = [s EXCEPT !.trx = TRUE, !.log = e] /\ e \in Seq(Points \cup {Write})
    BY <1>1 DEF Executed
  <2> HIDE DEF t, e
  <2>e. t \in Threads /\ t.alive = s.alive /\ t.stmt = s.stmt /\ t.trx = TRUE /\ t.log = e
    BY <2>1 DEF Threads
  <2>2. t \in Threads /\ t.alive = s.alive /\ t.stmt = s.stmt /\ t.trx = TRUE /\ t.log = <<>>
    BY <2>e DEF e
  <2>3. LogOnce(t)
    BY <2>2 DEF LogOnce, PointsOnce
  <2>4. QED
    BY <1>1, <2>2, <2>3 DEF t
<1>2. CASE cmd # START /\ ~s.trx
  <2>1. t = s
    BY <1>2 DEF Executed
  <2>2. QED
    BY <1>2, <2>1 DEF Threads
<1>3. CASE cmd # START /\ s.trx
  <2> DEFINE u == IF cmd = Write THEN s.log ELSE Without(s.log, cmd)
  <2>1. t = [s EXCEPT !.log = Append(u, cmd)]
    BY <1>3 DEF Executed
  <2>2. s.log \in Seq(Points \cup {Write}) /\ cmd \in Points \cup {Write}
    BY <1>3 DEF Threads
  <2>3. /\ u \in Seq(Points \cup {Write})
        /\ \A a, b \in 1 .. Len(u) : u[a] = u[b] /\ u[a] \in Points => a = b
        /\ cmd \in Points => \A a \in 1 .. Len(u) : u[a] # cmd
    <3>1. CASE cmd = Write
      BY <2>2, <3>1, Names DEF LogOnce, PointsOnce
    <3>2. CASE cmd # Write
      <4>1. cmd \in Points /\ u = Without(s.log, cmd)
        BY <2>2, <3>2
      <4>2. PointsOnce(s.log)
        BY DEF LogOnce
      <4>a. Thinned(u, s.log, cmd)
        BY <2>2, <4>1, <4>2, WithoutFacts
      <4> HIDE DEF u
      <4>3. /\ u \in Seq(Points \cup {Write})
            /\ \E f \in [1 .. Len(u) -> 1 .. Len(s.log)] :
                  /\ \A a \in 1 .. Len(u) : u[a] = s.log[f[a]] /\ u[a] # cmd
                  /\ \A a, b \in 1 .. Len(u) : a < b => f[a] < f[b]
        BY <4>a DEF Thinned
      <4>4. PICK f \in [1 .. Len(u) -> 1 .. Len(s.log)] :
                  /\ \A a \in 1 .. Len(u) : u[a] = s.log[f[a]] /\ u[a] # cmd
                  /\ \A a, b \in 1 .. Len(u) : a < b => f[a] < f[b]
        BY <4>3
      <4>5. \A a, b \in 1 .. Len(u) : u[a] = u[b] /\ u[a] \in Points => a = b
        <5> SUFFICES ASSUME NEW a \in 1 .. Len(u), NEW b \in 1 .. Len(u), u[a] = u[b], u[a] \in Points
                     PROVE  a = b
          OBVIOUS
        <5>1. f[a] \in 1 .. Len(s.log) /\ f[b] \in 1 .. Len(s.log) /\ s.log[f[a]] = s.log[f[b]]
          BY <4>4
        <5>2. f[a] = f[b]
          BY <4>2, <4>4, <5>1 DEF PointsOnce
        <5>3. ~(a < b) /\ ~(b < a)
          BY <4>4, <5>1, <5>2
        <5>4. QED
          BY <4>3, <5>3
      <4>6. QED
        BY <4>3, <4>4, <4>5
    <3>3. QED
      BY <3>1, <3>2
  <2> HIDE DEF u
  <2>4. /\ Append(u, cmd) \in Seq(Points \cup {Write}) /\ Len(Append(u, cmd)) = Len(u) + 1
        /\ \A a \in 1 .. Len(u) : Append(u, cmd)[a] = u[a]
        /\ Append(u, cmd)[Len(u) + 1] = cmd /\ Len(u) \in Nat
    BY <2>2, <2>3
  <2>5. \A a, b \in 1 .. Len(u) + 1 : Append(u, cmd)[a] = Append(u, cmd)[b] /\ Append(u, cmd)[a] \in Points
                                         => a = b
    <3> DEFINE v == Append(u, cmd)
    <3>1. \A a \in 1 .. Len(u) : v[Len(u) + 1] \in Points => v[a] # v[Len(u) + 1]
      BY <2>3, <2>4
    <3>2. \A a, b \in 1 .. Len(u) : v[a] = v[b] /\ v[a] \in Points => a = b
      BY <2>3, <2>4
    <3> HIDE DEF v
    <3>3. \A a, b \in 1 .. Len(u) + 1 : v[a] = v[b] /\ v[a] \in Points => a = b
      <4> SUFFICES ASSUME NEW a \in 1 .. Len(u) + 1, NEW b \in 1 .. Len(u) + 1, v[a] = v[b], v[a] \in Points
                   PROVE  a = b
        OBVIOUS
      <4>1. a \in 1 .. Len(u) \/ a = Len(u) + 1
        BY <2>4
      <4>2. b \in 1 .. Len(u) \/ b = Len(u) + 1
        BY <2>4
      <4>3. QED
        BY <3>1, <3>2, <4>1, <4>2
    <3>4. QED
      BY <3>3 DEF v
  <2>6. t \in Threads /\ t.alive = s.alive /\ t.stmt = s.stmt /\ t.trx = s.trx /\ t.log = Append(u, cmd)
    BY <2>1, <2>4 DEF Threads
  <2> HIDE DEF t
  <2>7. LogOnce(t)
    BY <1>3, <2>4, <2>5, <2>6 DEF LogOnce, PointsOnce
  <2>8. QED
    BY <1>3, <2>6, <2>7 DEF t, u
<1>4. QED
  BY <1>1, <1>2, <1>3

-----------------------------------------------------------------------------
(* Good is kept by each kind of step of one connection.                    *)

\* What the code reads from pendingTrxSql
LEMMA PendingFacts ==
    ASSUME NEW c \in MyConns
    PROVE  /\ c.pending \in Seq(Points \cup {START}) /\ Len(c.pending) \in Nat /\ c.sent \in Nat
           /\ \A i \in 1 .. Len(c.pending) : c.pending[i] \in Points \cup {START}
BY DEF MyConns

\* Nothing is pending after the step.
LEMMA NonePending ==
    ASSUME NEW c, NEW s, NEW w, NEW l, Typed(c, s, w, l), Flags(c, s, w), LogOnce(s),
           c.pending = <<>>, c.sent = 0, c.old = "no",
           c.op \in {"commit", "commitChain", "rollback", "chain"} => c.proto,
           c.op = "to" /\ w => c.to \in l, w => s.trx, l # {} => w,
           \A x \in l : c.inTrans /\ \E a \in 1 .. Len(s.log) : s.log[a] = x
    PROVE  Good(c, s, w, l)
BY DEF Good, Phases, Begins, OneKind, InLog, Kept

\* All that was pending is sent.
LEMMA AllSent ==
    ASSUME NEW c, NEW s, NEW w, NEW l, Good(c, s, w, l), c.old = "no", s.alive, ~(c.sent < Len(c.pending))
    PROVE  /\ w => s.trx /\ c.inTrans /\ c.proto
           /\ \A x \in l : c.inTrans /\ \E a \in 1 .. Len(s.log) : s.log[a] = x
<1>1. /\ c \in MyConns /\ Len(c.pending) \in Nat /\ c.sent \in Nat /\ c.sent = Len(c.pending)
      /\ \A i \in 1 .. Len(c.pending) : c.pending[i] \in Points \cup {START}
  BY PendingFacts DEF Good, Typed, Phases
<1>2. w => s.trx
  BY <1>1 DEF Good, Begins
<1>3. s \in Threads /\ (s.trx => c.inTrans /\ c.proto)
  BY DEF Good, Flags, Typed, Threads, MyConns
<1>4. ASSUME NEW x \in l
      PROVE  c.inTrans /\ \E a \in 1 .. Len(s.log) : s.log[a] = x
  <2>1. w /\ x \in Points
    BY DEF Good, Phases, Typed
  <2>2. CASE \E i \in 1 .. Len(c.pending) : c.pending[i] = x
    BY <1>1, <1>2, <1>3, <2>1, <2>2, Names DEF Good, InLog
  <2>3. CASE \A i \in 1 .. Len(c.pending) : c.pending[i] # x
    BY <2>3 DEF Good, Kept
  <2>4. QED
    BY <2>2, <2>3
<1>5. QED
  BY <1>2, <1>3, <1>4

\* What is pending stays, and is sent from its beginning, or from where it was.
LEMMA SamePending ==
    ASSUME NEW c, NEW s, NEW w, NEW l, Good(c, s, w, l), c.old = "no",
           NEW c2, NEW s2, NEW w2, NEW l2, Typed(c2, s2, w2, l2), Flags(c2, s2, w2),
           c2.pending = c.pending, c2.sent \in {0, c.sent}, c2.old = "no", c2.inTrans = c.inTrans,
           c2.op = "no" => c2.sent = 0,
           c2.op \in {"commit", "commitChain", "rollback", "chain"} => c2.proto,
           c2.op = "to" /\ w2 => c2.to \in l2,
           s2.trx = s.trx, s2.log = s.log, w2 => w, l2 \subseteq l, l2 # {} => w2
    PROVE  Good(c2, s2, w2, l2)
<1>1. /\ c \in MyConns /\ Len(c.pending) \in Nat /\ c.sent \in Nat /\ c.sent <= Len(c.pending)
      /\ \A i \in 1 .. Len(c.pending) : c.pending[i] \in Points \cup {START}
  BY PendingFacts DEF Good, Typed, Phases
<1>2. Phases(c2, w2, l2)
  BY <1>1 DEF Phases
<1>3. Begins(c2, s2, w2)
  <2>1. \A i \in 1 .. Len(c.pending) : c.pending[i] = START => i = 1
    BY DEF Good, Begins
  <2>2. ASSUME w2, ~s2.trx
        PROVE  c2.sent < Len(c2.pending) /\ c2.pending[c2.sent + 1] = START
    <3>1. c.sent < Len(c.pending) /\ c.pending[c.sent + 1] = START
      BY <2>2 DEF Good, Begins
    <3>2. c.sent = 0
      BY <1>1, <2>1, <3>1
    <3>3. QED
      BY <3>1, <3>2
  <2>3. QED
    BY <2>1, <2>2 DEF Begins
<1>4. OneKind(c2)
  BY DEF Good, OneKind
<1>5. LogOnce(s2)
  BY DEF Good, LogOnce, PointsOnce
<1>6. InLog(c2, s2)
  <2>1. CASE c2.sent = 0
    BY <2>1 DEF InLog
  <2>2. CASE c2.sent = c.sent
    BY <2>2 DEF Good, InLog
  <2>3. QED
    BY <2>1, <2>2
<1>7. Kept(c2, s2, l2)
  BY DEF Good, Kept
<1>8. QED
  BY <1>2, <1>3, <1>4, <1>5, <1>6, <1>7 DEF Good

\* One of the pending commands is executed.
LEMMA NextSent ==
    ASSUME NEW c, NEW s, NEW w, NEW l, Good(c, s, w, l), c.old = "no", c.op # "no", c.proto, s.alive,
           c.sent < Len(c.pending), NEW t, t = Executed(s, c.pending[c.sent + 1]),
           NEW c2 \in MyConns, c2.proto, ~c2.fresh, c2.inTrans = t.trx, c2.pending = c.pending,
           c2.sent = c.sent + 1, c2.op = c.op, c2.to = c.to, c2.old = "no"
    PROVE  Good(c2, t, w, l)
<1> DEFINE cmd == c.pending[c.sent + 1]
           n == c.sent
<1>1. /\ c \in MyConns /\ Len(c.pending) \in Nat /\ n \in Nat /\ n + 1 \in 1 .. Len(c.pending)
      /\ \A i \in 1 .. Len(c.pending) : c.pending[i] \in Points \cup {START}
  BY PendingFacts DEF Good, Typed
<1>2. cmd \in Points \cup {START} /\ cmd # Write
  BY <1>1, Names
<1>3. \A i \in 1 .. Len(c.pending) : c.pending[i] = START => i = 1
  BY DEF Good, Begins
<1>4. s \in Threads /\ LogOnce(s) /\ s.log \in Seq(Points \cup {Write}) /\ Len(s.log) \in Nat
  BY DEF Good, Typed, Threads
<1> HIDE DEF cmd
<1>5. t = Executed(s, cmd)
  BY DEF cmd
<1>6. /\ t \in Threads /\ LogOnce(t) /\ t.alive /\ t.trx = (s.trx \/ cmd = START)
      /\ cmd = START => t.log = <<>>
      /\ cmd # START /\ s.trx => t.log = Append(Without(s.log, cmd), cmd)
  BY <1>2, <1>4, <1>5, ExecutedFacts
<1>7. Typed(c2, t, w, l)
  BY <1>6 DEF Good, Typed
<1>8. Phases(c2, w, l)
  BY <1>1 DEF Good, Phases
<1>9. Flags(c2, t, w)
  BY <1>6 DEF Flags
<1>10. Begins(c2, t, w)
  <2>1. w => t.trx
    BY <1>6 DEF Good, Begins, cmd
  <2>2. QED
    BY <1>3, <2>1 DEF Begins
<1>11. c.inTrans => c2.inTrans
  BY <1>6 DEF Good, Flags
<1>12. OneKind(c2)
  BY <1>11 DEF Good, OneKind
<1>13. InLog(c2, t) /\ Kept(c2, t, l)
  <2>1. CASE cmd = START
    <3>1. n = 0 /\ c.pending[1] = START /\ t.log = <<>>
      BY <1>1, <1>3, <1>6, <2>1 DEF cmd
    <3>2. \A i \in 1 .. c2.sent : c2.pending[i] = START
      BY <3>1
    <3>3. QED
      BY <1>1, <3>1, <3>2 DEF InLog, Kept, Good
  <2>2. CASE cmd # START /\ ~s.trx
    <3>1. ~t.trx /\ t.log = <<>> /\ ~c.inTrans
      BY <1>6, <2>2 DEF LogOnce, PointsOnce, Good, Flags
    <3>2. QED
      BY <3>1 DEF InLog, Kept, Good
  <2>3. CASE cmd # START /\ s.trx
    <3> DEFINE u == Without(s.log, cmd)
               k == Len(u)
    <3>1. cmd \in Points /\ t.log = Append(u, cmd) /\ t.trx
      BY <1>2, <1>6, <2>3
    <3>2. PointsOnce(s.log)
      BY <1>4 DEF LogOnce
    <3>a. Thinned(u, s.log, cmd)
      BY <1>4, <3>1, <3>2, WithoutFacts
    <3>3. /\ u \in Seq(Points \cup {Write})
          /\ \E f \in [1 .. k -> 1 .. Len(s.log)] :
                /\ \A a \in 1 .. k : u[a] = s.log[f[a]] /\ u[a] # cmd
                /\ \A a, b \in 1 .. k : a < b => f[a] < f[b]
                /\ \A b \in 1 .. Len(s.log) : s.log[b] # cmd => \E a \in 1 .. k : f[a] = b
      BY <3>a DEF Thinned
    <3>4. PICK f \in [1 .. k -> 1 .. Len(s.log)] :
                /\ \A a \in 1 .. k : u[a] = s.log[f[a]] /\ u[a] # cmd
                /\ \A a, b \in 1 .. k : a < b => f[a] < f[b]
                /\ \A b \in 1 .. Len(s.log) : s.log[b] # cmd => \E a \in 1 .. k : f[a] = b
      BY <3>3
    <3>5. /\ k \in Nat /\ Len(t.log) = k + 1 /\ t.log[k + 1] = cmd
          /\ \A a \in 1 .. k : t.log[a] = u[a]
      BY <3>1, <3>3
    <3> HIDE DEF u, k
    <3>f. \A a \in 1 .. k : f[a] \in 1 .. Len(s.log) /\ t.log[a] = s.log[f[a]] /\ t.log[a] # cmd
      <4> SUFFICES ASSUME NEW a \in 1 .. k
                   PROVE  f[a] \in 1 .. Len(s.log) /\ t.log[a] = s.log[f[a]] /\ t.log[a] # cmd
        OBVIOUS
      <4>1. t.log[a] = u[a]
        BY <3>5
      <4>2. f[a] \in 1 .. Len(s.log) /\ u[a] = s.log[f[a]] /\ u[a] # cmd
        BY <3>4
      <4>3. QED
        BY <4>1, <4>2
    <3>g. \A a, b \in 1 .. k : a < b => f[a] < f[b]
      BY <3>4
    <3>6. \A b \in 1 .. Len(s.log) : s.log[b] # cmd => \E a \in 1 .. k : t.log[a] = s.log[b]
      <4> SUFFICES ASSUME NEW b \in 1 .. Len(s.log), s.log[b] # cmd
                   PROVE  \E a \in 1 .. k : t.log[a] = s.log[b]
        OBVIOUS
      <4>1. PICK a \in 1 .. k : f[a] = b
        BY <3>4
      <4>2. t.log[a] = s.log[b]
        BY <3>f, <4>1
      <4>3. QED
        BY <4>2
    <3>i. \A a, b \in 1 .. Len(s.log) : \A j \in 1 .. n :
              a < b /\ s.log[a] = c.pending[j] => \E m \in j + 1 .. n : c.pending[m] = s.log[b]
      BY DEF Good, InLog
    <3>7. \A i \in 1 .. n + 1 : c.pending[i] # START =>
              \E a \in 1 .. Len(t.log) : t.log[a] = c.pending[i]
      <4> SUFFICES ASSUME NEW i \in 1 .. n + 1, c.pending[i] # START
                   PROVE  \E a \in 1 .. k + 1 : t.log[a] = c.pending[i]
        BY <3>5
      <4>1. CASE c.pending[i] = cmd
        <5>1. k + 1 \in 1 .. k + 1 /\ t.log[k + 1] = c.pending[i]
          BY <3>5, <4>1
        <5>2. QED
          BY <5>1
      <4>2. CASE c.pending[i] # cmd
        <5>1. i \in 1 .. n
          BY <1>1, <4>2 DEF cmd
        <5>2. PICK b \in 1 .. Len(s.log) : s.log[b] = c.pending[i]
          BY <2>3, <5>1 DEF Good, InLog
        <5>3. PICK a \in 1 .. k : t.log[a] = s.log[b]
          BY <3>6, <4>2, <5>2
        <5>4. a \in 1 .. k + 1
          BY <3>5
        <5>5. QED
          BY <5>2, <5>3, <5>4
      <4>3. QED
        BY <4>1, <4>2
    <3>8. \A a, b \in 1 .. k + 1 : \A j \in 1 .. n + 1 :
              a < b /\ t.log[a] = c.pending[j] => \E m \in j + 1 .. n + 1 : c.pending[m] = t.log[b]
      <4> SUFFICES ASSUME NEW a \in 1 .. k + 1, NEW b \in 1 .. k + 1, NEW j \in 1 .. n + 1,
                          a < b, t.log[a] = c.pending[j]
                   PROVE  \E m \in j + 1 .. n + 1 : c.pending[m] = t.log[b]
        OBVIOUS
      <4>0. a \in 1 .. k
        BY <3>5
      <4>1. t.log[a] = s.log[f[a]] /\ t.log[a] # cmd
        BY <3>f, <4>0
      <4>2. j \in 1 .. n
        <5>1. j # n + 1
          BY <4>1 DEF cmd
        <5>2. QED
          BY <1>1, <5>1
      <4>3. CASE b = k + 1
        <5>1. c.pending[n + 1] = t.log[b]
          BY <3>5, <4>3 DEF cmd
        <5> HIDE DEF n
        <5>2. n + 1 \in j + 1 .. n + 1
          BY <1>1, <4>2
        <5>3. QED
          BY <5>1, <5>2
      <4>4. CASE b \in 1 .. k
        <5>1. t.log[b] = s.log[f[b]] /\ f[a] < f[b] /\ f[a] \in 1 .. Len(s.log) /\ f[b] \in 1 .. Len(s.log)
          BY <3>f, <3>g, <4>0, <4>4
        <5>a. s.log[f[a]] = c.pending[j]
          BY <4>1
        <5>2. PICK m \in j + 1 .. n : c.pending[m] = s.log[f[b]]
          <6> HIDE DEF n
          <6>1. QED
            BY <3>i, <4>2, <5>1, <5>a
        <5>3. m \in j + 1 .. n + 1
          BY <1>1, <4>2
        <5>4. QED
          BY <5>1, <5>2, <5>3
      <4>5. QED
        BY <3>5, <4>3, <4>4
    <3>9. InLog(c2, t)
      BY <1>1, <3>5, <3>7, <3>8 DEF InLog
    <3>10. Kept(c2, t, l)
      <4> SUFFICES ASSUME NEW x \in l, \A i \in 1 .. Len(c.pending) : c.pending[i] # x
                   PROVE  /\ c2.inTrans
                          /\ \E a \in 1 .. Len(t.log) : t.log[a] = x
                          /\ \A i \in 1 .. Len(c.pending) : c.pending[i] # START
        BY DEF Kept
      <4>1. /\ \A i \in 1 .. Len(c.pending) : c.pending[i] # START
            /\ \E b \in 1 .. Len(s.log) : s.log[b] = x
        BY DEF Good, Kept
      <4>2. x # cmd
        BY <1>1 DEF cmd
      <4>3. PICK a \in 1 .. k : t.log[a] = x
        BY <3>6, <4>1, <4>2
      <4>4. a \in 1 .. Len(t.log)
        BY <3>5
      <4>5. QED
        BY <3>1, <4>1, <4>3, <4>4
    <3>11. QED
      BY <3>9, <3>10
  <2>4. QED
    BY <2>1, <2>2, <2>3
<1>14. QED
  BY <1>6, <1>7, <1>8, <1>9, <1>10, <1>12, <1>13 DEF Good

\* What is sent does not change.
LEMMA InLogSame ==
    ASSUME NEW c, NEW s, InLog(c, s), c.old = "no", c.sent \in Nat,
           NEW c2, c2.sent = c.sent, \A i \in 1 .. c.sent : c2.pending[i] = c.pending[i]
    PROVE  InLog(c2, s)
<1>1. \A j \in 1 .. c.sent : \A m \in j + 1 .. c.sent : c2.pending[m] = c.pending[m]
  OBVIOUS
<1>2. s.trx => \A i \in 1 .. c.sent : c2.pending[i] # START =>
                   \E a \in 1 .. Len(s.log) : s.log[a] = c2.pending[i]
  BY DEF InLog
<1>3. \A a, b \in 1 .. Len(s.log) : \A j \in 1 .. c.sent :
          a < b /\ s.log[a] = c2.pending[j] => \E m \in j + 1 .. c.sent : c2.pending[m] = s.log[b]
  <2> SUFFICES ASSUME NEW a \in 1 .. Len(s.log), NEW b \in 1 .. Len(s.log), NEW j \in 1 .. c.sent,
                      a < b, s.log[a] = c2.pending[j]
               PROVE  \E m \in j + 1 .. c.sent : c2.pending[m] = s.log[b]
    OBVIOUS
  <2>1. PICK m \in j + 1 .. c.sent : c.pending[m] = s.log[b]
    BY DEF InLog
  <2>2. c2.pending[m] = s.log[b]
    BY <1>1, <2>1
  <2>3. QED
    BY <2>2
<1>4. QED
  BY <1>2, <1>3 DEF InLog

\* A savepoint is added to what is pending.
LEMMA PointAdded ==
    ASSUME NEW c, NEW s, NEW w, NEW l, Good(c, s, w, l), w, NEW x \in Points,
           c.inTrans \/ \A i \in DOMAIN c.pending : c.pending[i][1] \in {"start", x[1]},
           NEW c2 \in MyConns, c2.pending = Append(c.pending, x), c2.proto = c.proto, c2.fresh = c.fresh,
           c2.inTrans = c.inTrans, c2.op = c.op, c2.to = c.to, c2.sent = c.sent,
           c2.old = c.old
    PROVE  Good(c2, s, w, l \cup {x})
<1> DEFINE n == Len(c.pending)
<1>1. /\ c \in MyConns /\ n \in Nat /\ c.sent \in Nat /\ c.old = "no" /\ c.sent <= n
      /\ \A i \in 1 .. n : c.pending[i] \in Points \cup {START}
  BY PendingFacts DEF Good, Typed, Phases
<1>2. /\ Len(c2.pending) = n + 1 /\ c2.pending[n + 1] = x /\ x # START
      /\ \A i \in 1 .. n : c2.pending[i] = c.pending[i]
  BY <1>1, PendingFacts, Names
<1> HIDE DEF n
<1>3. Typed(c2, s, w, l \cup {x}) /\ Phases(c2, w, l \cup {x}) /\ Flags(c2, s, w) /\ LogOnce(s)
  BY <1>1, <1>2 DEF Good, Typed, Phases, Flags, n
<1>4. \A i \in 1 .. n + 1 : i \in 1 .. n \/ i = n + 1
  BY <1>1
<1>5. Begins(c2, s, w)
  <2>1. \A i \in 1 .. n + 1 : c2.pending[i] = START => i = 1
    BY <1>2, <1>4 DEF Good, Begins, n
  <2>2. s.trx \/ (c.sent < n /\ c.pending[c.sent + 1] = START)
    BY <1>1 DEF Good, Begins, n
  <2>3. c.sent < n => c.sent + 1 \in 1 .. n
    BY <1>1
  <2>4. QED
    BY <1>1, <1>2, <2>1, <2>2, <2>3 DEF Begins
<1>6. OneKind(c2)
  <2> SUFFICES ASSUME ~c.inTrans, NEW i \in 1 .. n + 1, NEW j \in 1 .. n + 1,
                      c2.pending[i] # START, c2.pending[j] # START
               PROVE  c2.pending[i][1] = c2.pending[j][1]
    BY <1>2 DEF OneKind
  <2>1. \A m \in 1 .. n : c.pending[m] # START => c.pending[m][1] = x[1]
    <3> SUFFICES ASSUME NEW m \in 1 .. n, c.pending[m] # START
                 PROVE  c.pending[m][1] = x[1]
      OBVIOUS
    <3>1. c.pending[m] \in Points
      BY <1>1
    <3>2. c.pending[m][1] \in {"p", "s"}
      BY <3>1 DEF Points
    <3>3. m \in DOMAIN c.pending
      BY PendingFacts, <1>1 DEF n
    <3>4. QED
      BY <3>2, <3>3
  <2>2. QED
    BY <1>2, <1>4, <2>1
<1>7. InLog(c2, s)
  <2>1. \A i \in 1 .. c.sent : c2.pending[i] = c.pending[i]
    BY <1>1, <1>2
  <2>2. QED
    BY <1>1, <2>1, InLogSame DEF Good
<1>8. Kept(c2, s, l \cup {x})
  <2> SUFFICES ASSUME NEW y \in l \cup {x}, \A i \in 1 .. n + 1 : c2.pending[i] # y
               PROVE  /\ c.inTrans
                      /\ \E a \in 1 .. Len(s.log) : s.log[a] = y
                      /\ \A i \in 1 .. n + 1 : c2.pending[i] # START
    BY <1>2 DEF Kept
  <2>1. y \in l /\ \A i \in 1 .. n : c.pending[i] # y
    BY <1>1, <1>2, <1>4
  <2>2. /\ c.inTrans
        /\ \E a \in 1 .. Len(s.log) : s.log[a] = y
        /\ \A i \in 1 .. n : c.pending[i] # START
    BY <2>1 DEF Good, Kept, n
  <2>3. QED
    BY <1>2, <1>4, <2>2
<1>9. QED
  BY <1>3, <1>5, <1>6, <1>7, <1>8 DEF Good

\* The points of l whose last occurrence in q is before the last one of x. See Before.
BeforeIn(q, l, x) ==
    {y \in l : y # x /\ \E i, j \in DOMAIN q : q[i] = y /\ q[j] = x /\ i < j
                     /\ \A m \in j + 1 .. Len(q) : q[m] \notin {x, y}}

\* The log, followed by what is pending
LEMMA LogThenPending ==
    ASSUME NEW c \in MyConns, NEW s \in Threads
    PROVE  LET q == s.log \o c.pending IN
           /\ Len(s.log) \in Nat /\ Len(c.pending) \in Nat
           /\ DOMAIN q = 1 .. Len(s.log) + Len(c.pending) /\ Len(q) = Len(s.log) + Len(c.pending)
           /\ \A i \in 1 .. Len(s.log) : q[i] = s.log[i]
           /\ \A i \in 1 .. Len(c.pending) : q[Len(s.log) + i] = c.pending[i]
<1> DEFINE S == Points \cup {START, Write}
           q == s.log \o c.pending
           L == Len(s.log)
           n == Len(c.pending)
<1>1. s.log \in Seq(S) /\ c.pending \in Seq(S)
  BY DEF MyConns, Threads
<1>2. /\ q \in Seq(S) /\ Len(q) = L + n
      /\ \A i \in 1 .. L + n : q[i] = IF i <= L THEN s.log[i] ELSE c.pending[i - L]
  BY <1>1, ConcatProperties
<1>3. L \in Nat /\ n \in Nat
  BY <1>1
<1>4. DOMAIN q = 1 .. L + n
  BY <1>2
<1> HIDE DEF q, L, n
<1>5. \A i \in 1 .. L : q[i] = s.log[i]
  BY <1>2, <1>3
<1>6. \A i \in 1 .. n : q[L + i] = c.pending[i]
  <2> SUFFICES ASSUME NEW i \in 1 .. n
               PROVE  q[L + i] = c.pending[i]
    OBVIOUS
  <2>1. L + i \in 1 .. L + n /\ ~(L + i <= L) /\ (L + i) - L = i
    BY <1>3
  <2>2. QED
    BY <1>2, <2>1
<1>7. QED
  BY <1>2, <1>3, <1>4, <1>5, <1>6 DEF q, L, n

\* The last occurrence of a pending point
LastPending(c, x, p) ==
    /\ p \in 1 .. Len(c.pending) /\ c.pending[p] = x
    /\ \A j \in p + 1 .. Len(c.pending) : c.pending[j] # x

\* What rollback() leaves of what is pending
LEMMA CutFacts ==
    ASSUME NEW c \in MyConns, NEW x, PendingAt(c, x) # {}
    PROVE  LET p == Max(PendingAt(c, x))
               r == SubSeq(c.pending, 1, p - 1)
           IN  /\ LastPending(c, x, p) /\ r \in Seq(Points \cup {START})
               /\ Len(r) = p - 1 /\ \A i \in 1 .. p - 1 : r[i] = c.pending[i]
<1> DEFINE n == Len(c.pending)
           p == Max(PendingAt(c, x))
<1>1. /\ n \in Nat /\ c.pending \in Seq(Points \cup {START})
      /\ \A i \in 1 .. n : c.pending[i] \in Points \cup {START}
  BY PendingFacts
<1>2. PendingAt(c, x) \in SUBSET (1 .. n)
  BY <1>1 DEF PendingAt
<1>3. p \in PendingAt(c, x) /\ \A i \in PendingAt(c, x) : i <= p
  BY <1>1, <1>2, MaxExists
<1> HIDE DEF p, n
<1>4. p \in 1 .. n /\ c.pending[p] = x /\ \A j \in p .. n : c.pending[j][1] = x[1]
  BY <1>2, <1>3 DEF PendingAt, n
<1>5. \A j \in p + 1 .. n : c.pending[j] # x
  <2> SUFFICES ASSUME NEW j \in p + 1 .. n, c.pending[j] = x
               PROVE  FALSE
    OBVIOUS
  <2>1. j \in 1 .. n /\ \A i \in j .. n : i \in p .. n
    BY <1>1, <1>4
  <2>2. j \in DOMAIN c.pending
    BY <1>1, <2>1 DEF n
  <2>3. j \in PendingAt(c, x)
    BY <1>4, <2>1, <2>2 DEF PendingAt, n
  <2>4. j <= p
    BY <1>3, <2>3
  <2>5. QED
    BY <1>1, <1>4, <2>4
<1> DEFINE r == SubSeq(c.pending, 1, p - 1)
<1>6. r \in Seq(Points \cup {START}) /\ Len(r) = p - 1 /\ \A i \in 1 .. p - 1 : r[i] = c.pending[i]
  <2>1. \A i \in 1 .. p - 1 : c.pending[i] \in Points \cup {START}
    BY <1>1, <1>4
  <2>2. QED
    BY <1>1, <1>4, <2>1, SubSeqProperties
<1>7. QED
  BY <1>4, <1>5, <1>6 DEF LastPending, p, n

\* rollback(toPointId) to a point that is pending
LEMMA CutPending ==
    ASSUME NEW c, NEW s, NEW w, NEW l, Good(c, s, w, l), c.op = "no", NEW x \in Points,
           NEW p, LastPending(c, x, p), w => x \in l,
           NEW c2 \in MyConns, Len(c2.pending) = p - 1, \A i \in 1 .. p - 1 : c2.pending[i] = c.pending[i],
           c2.proto = c.proto, c2.fresh = c.fresh, c2.inTrans = c.inTrans, c2.op = "no", c2.sent = 0,
           c2.old = "no", NEW l2, l2 = IF x \in l THEN BeforeIn(s.log \o c.pending, l, x) ELSE l
    PROVE  Good(c2, s, w, l2)
<1> DEFINE n == Len(c.pending)
           q == s.log \o c.pending
           L == Len(s.log)
<1>1. /\ c \in MyConns /\ s \in Threads /\ n \in Nat /\ c.sent = 0 /\ c.old = "no"
      /\ \A i \in 1 .. n : c.pending[i] \in Points \cup {START}
  BY PendingFacts DEF Good, Typed, Phases
<1> HIDE DEF n
<1>4. p \in 1 .. n /\ c.pending[p] = x
  BY DEF LastPending, n
<1>5. \A j \in p + 1 .. n : c.pending[j] # x
  BY DEF LastPending, n
<1>6. Len(c2.pending) = p - 1 /\ \A i \in 1 .. p - 1 : c2.pending[i] = c.pending[i]
  OBVIOUS
<1>7. l2 \subseteq l
  BY DEF BeforeIn
<1>8. Typed(c2, s, w, l2) /\ Phases(c2, w, l2) /\ Flags(c2, s, w) /\ LogOnce(s)
  <2>1. 0 <= p - 1
    BY <1>1, <1>4
  <2>2. QED
    BY <1>1, <1>6, <1>7, <2>1 DEF Good, Typed, Phases, Flags
<1>9. Begins(c2, s, w)
  <2>1. \A i \in 1 .. n : c.pending[i] = START => i = 1
    BY DEF Good, Begins, n
  <2>2. ASSUME w, ~s.trx
        PROVE  0 < p - 1 /\ c.pending[1] = START
    <3>1. c.pending[1] = START
      BY <1>1, <2>2 DEF Good, Begins
    <3>2. p # 1
      BY <1>4, <3>1, Names
    <3>3. QED
      BY <1>4, <3>1, <3>2
  <2>3. \A i \in 1 .. p - 1 : c2.pending[i] = START => i = 1
    <3> SUFFICES ASSUME NEW i \in 1 .. p - 1, c2.pending[i] = START
                 PROVE  i = 1
      OBVIOUS
    <3>1. i \in 1 .. n /\ c.pending[i] = START
      BY <1>1, <1>4, <1>6
    <3>2. QED
      BY <2>1, <3>1
  <2>4. w /\ ~s.trx => c2.pending[1] = START
    <3>1. 0 < p - 1 => 1 \in 1 .. p - 1
      BY <1>1, <1>4
    <3>2. QED
      BY <1>6, <2>2, <3>1
  <2>5. QED
    BY <1>1, <1>6, <2>2, <2>3, <2>4 DEF Begins
<1>10. OneKind(c2)
  <2>1. \A i \in 1 .. p - 1 : i \in 1 .. n
    BY <1>1, <1>4
  <2> SUFFICES ASSUME ~c.inTrans, NEW i \in 1 .. p - 1, NEW j \in 1 .. p - 1,
                      c2.pending[i] # START, c2.pending[j] # START
               PROVE  c2.pending[i][1] = c2.pending[j][1]
    BY <1>6 DEF OneKind
  <2>2. i \in 1 .. n /\ j \in 1 .. n /\ c2.pending[i] = c.pending[i] /\ c2.pending[j] = c.pending[j]
    BY <1>6, <2>1
  <2>3. QED
    BY <2>2 DEF Good, OneKind, n
<1>11. InLog(c2, s)
  BY DEF InLog
<1>12. /\ L \in Nat /\ DOMAIN q = 1 .. L + n /\ Len(q) = L + n
       /\ \A i \in 1 .. L : q[i] = s.log[i]
       /\ \A i \in 1 .. n : q[L + i] = c.pending[i]
  BY <1>1, LogThenPending DEF n
<1> HIDE DEF q, L
<1>13. Kept(c2, s, l2)
  <2> SUFFICES ASSUME NEW y \in l2, \A i \in 1 .. p - 1 : c2.pending[i] # y
               PROVE  /\ c.inTrans
                      /\ \E a \in 1 .. L : s.log[a] = y
                      /\ \A i \in 1 .. p - 1 : c2.pending[i] # START
    BY <1>6 DEF Kept, L
  <2>1. x \in l
    BY <1>7 DEF Good, Phases
  <2>2. y \in l /\ y # x /\ \E i, j \in DOMAIN q : /\ q[i] = y /\ q[j] = x /\ i < j
                                                  /\ \A m \in j + 1 .. Len(q) : q[m] \notin {x, y}
    BY <2>1 DEF BeforeIn, q
  <2>3. PICK i \in 1 .. L + n, j \in 1 .. L + n : /\ q[i] = y /\ q[j] = x /\ i < j
                                                 /\ \A m \in j + 1 .. L + n : q[m] \notin {x, y}
    BY <1>12, <2>2
  <2>4. j >= L + p
    <3>0. n \in Nat /\ L \in Nat /\ p \in 1 .. n
      BY <1>1, <1>4, <1>12 DEF n
    <3>a. q[L + p] = x
      BY <1>4, <1>12
    <3> HIDE DEF L, q
    <3>1. q[L + p] = x /\ L + p \in 1 .. L + n
      BY <3>0, <3>a
    <3>2. ~(L + p \in j + 1 .. L + n)
      BY <2>3, <3>1
    <3>3. QED
      BY <2>3, <3>0, <3>1, <3>2
  <2>5. \A m \in 1 .. n : c.pending[m] # y
    <3> SUFFICES ASSUME NEW m \in 1 .. n, c.pending[m] = y
                 PROVE  FALSE
      OBVIOUS
    <3>0. n \in Nat
      BY <1>1 DEF n
    <3>1. CASE m < p
      <4>1. m \in 1 .. p - 1
        BY <1>4, <3>1
      <4>2. QED
        BY <1>6, <4>1
    <3>2. CASE m = p
      BY <1>4, <2>2, <3>2
    <3>3. CASE m > p
      <4>1. j = L + p
        <5>1. CASE j > L + p
          <6>1. j - L \in p + 1 .. n /\ L + (j - L) = j /\ j - L \in 1 .. n
            BY <1>4, <1>12, <2>3, <3>0, <5>1
          <6>2. c.pending[j - L] = x
            BY <1>12, <2>3, <6>1
          <6>3. QED
            BY <1>5, <6>1, <6>2 DEF n
        <5>2. QED
          BY <1>4, <1>12, <2>3, <2>4, <3>0, <5>1
      <4>2. L + m \in j + 1 .. L + n
        BY <1>4, <1>12, <3>0, <3>3, <4>1
      <4>a. q[L + m] = y
        BY <1>12
      <4>3. QED
        BY <2>3, <4>2, <4>a
    <3>4. QED
      BY <1>4, <3>0, <3>1, <3>2, <3>3
  <2>6. /\ c.inTrans
        /\ \E a \in 1 .. L : s.log[a] = y
        /\ \A m \in 1 .. n : c.pending[m] # START
    BY <2>2, <2>5 DEF Good, Kept, n, L
  <2>7. \A m \in 1 .. p - 1 : m \in 1 .. n
    BY <1>1, <1>4 DEF n
  <2>8. QED
    BY <1>6, <2>6, <2>7
<1>14. QED
  BY <1>8, <1>9, <1>10, <1>11, <1>13 DEF Good

\* ROLLBACK TO is executed.
LEMMA BackTo ==
    ASSUME NEW c, NEW s, NEW w, NEW l, Good(c, s, w, l), c.old = "no", s.alive, ~(c.sent < Len(c.pending)),
           NEW x \in Points, x \in Range(s.log), w => x \in l,
           NEW t, t = RolledBackTo(s, x),
           NEW c2 \in MyConns, c2.proto = c.proto, ~c2.fresh, c2.inTrans = c.inTrans, c2.pending = <<>>,
           c2.sent = 0, c2.op = "no", c2.old = "no",
           NEW l2, l2 = IF x \in l THEN BeforeIn(s.log \o c.pending, l, x) ELSE l
    PROVE  Good(c2, t, w, l2)
<1> DEFINE n == Len(c.pending)
           q == s.log \o c.pending
           L == Len(s.log)
           p == Position(s.log, x)
           r == SubSeq(s.log, 1, p)
<1>1. /\ c \in MyConns /\ s \in Threads /\ n \in Nat /\ c.sent = n
      /\ s.log \in Seq(Points \cup {Write}) /\ L \in Nat
      /\ \A i \in 1 .. L : s.log[i] \in Points \cup {Write}
      /\ \A i \in 1 .. n : c.pending[i] \in Points \cup {START}
  BY PendingFacts DEF Good, Typed, Phases, Threads
<1>2. p \in 1 .. L /\ s.log[p] = x
  BY <1>1, RangeIs DEF Position
<1>3. /\ DOMAIN q = 1 .. L + n /\ Len(q) = L + n
      /\ \A i \in 1 .. L : q[i] = s.log[i]
      /\ \A i \in 1 .. n : q[L + i] = c.pending[i]
  BY <1>1, LogThenPending
<1>4. t = [s EXCEPT !.log = r]
  BY DEF RolledBackTo
<1> HIDE DEF p
<1>5. r \in Seq(Points \cup {Write}) /\ Len(r) = p /\ \A i \in 1 .. p : r[i] = s.log[i]
  <2>1. \A i \in 1 .. p : s.log[i] \in Points \cup {Write}
    BY <1>1, <1>2
  <2>2. QED
    BY <1>1, <1>2, <2>1, SubSeqProperties
<1> HIDE DEF r, L, n, q
<1>6. t \in Threads /\ t.alive = s.alive /\ t.trx = s.trx /\ t.log = r
  BY <1>1, <1>4, <1>5 DEF Threads
<1>7. \A a, b \in 1 .. L : s.log[a] = s.log[b] /\ s.log[a] \in Points => a = b
  BY DEF Good, LogOnce, PointsOnce, L
<1>8. s.trx
  <2>1. L # 0
    BY <1>1, <1>2
  <2>2. QED
    BY <2>1 DEF Good, LogOnce, PointsOnce, L
<1>9. LogOnce(t)
  <2>1. \A a \in 1 .. p : a \in 1 .. L
    BY <1>1, <1>2
  <2>2. \A a, b \in 1 .. p : r[a] = r[b] /\ r[a] \in Points => a = b
    BY <1>5, <1>7, <2>1
  <2>3. QED
    BY <1>5, <1>6, <1>8, <2>2 DEF LogOnce, PointsOnce
<1>10. Flags(c2, t, w) /\ l2 \subseteq l
  BY <1>6 DEF Good, Flags, BeforeIn
<1>11. Typed(c2, t, w, l2)
  BY <1>6, <1>10 DEF Good, Typed
<1>12. ASSUME NEW y \in l2
       PROVE  c2.inTrans /\ \E a \in 1 .. Len(t.log) : t.log[a] = y
  <2>1. x \in l /\ w /\ y \in Points
    BY <1>10 DEF Good, Phases, Typed
  <2>2. y \in l /\ y # x /\ \E i, j \in DOMAIN q : /\ q[i] = y /\ q[j] = x /\ i < j
                                                  /\ \A m \in j + 1 .. Len(q) : q[m] \notin {x, y}
    BY <2>1 DEF BeforeIn, q
  <2>3. PICK i \in 1 .. L + n, j \in 1 .. L + n : /\ q[i] = y /\ q[j] = x /\ i < j
                                                 /\ \A m \in j + 1 .. L + n : q[m] \notin {x, y}
    BY <1>3, <2>2
  <2>4. c2.inTrans /\ \E a \in 1 .. Len(s.log) : s.log[a] = y
    BY <1>10, AllSent
  <2>5. PICK b \in 1 .. L : s.log[b] = y
    BY <2>4 DEF L
  <2>6. b <= p
    <3> SUFFICES ASSUME b > p
                 PROVE  FALSE
      BY <1>1, <1>2
    <3>1. CASE j > L
      <4>1. j - L \in 1 .. n /\ L + (j - L) = j
        BY <1>1, <2>3, <3>1
      <4>2. c.pending[j - L] = x
        BY <1>3, <2>3, <4>1
      <4>3. \A aa, bb \in 1 .. L : \A jj \in 1 .. n :
               aa < bb /\ s.log[aa] = c.pending[jj] => \E m \in jj + 1 .. n : c.pending[m] = s.log[bb]
        BY <1>1 DEF Good, InLog, L
      <4>4. PICK m \in (j - L) + 1 .. n : c.pending[m] = y
        BY <1>2, <2>5, <4>1, <4>2, <4>3
      <4>5. m \in 1 .. n /\ L + m \in j + 1 .. L + n
        BY <1>1, <4>1, <4>4
      <4>6. q[L + m] = y
        BY <1>3, <4>4, <4>5
      <4>7. QED
        BY <2>3, <4>5, <4>6
    <3>2. CASE j <= L
      <4>1. j \in 1 .. L /\ s.log[j] = x
        BY <1>1, <1>3, <2>3, <3>2
      <4>2. j = p
        BY <1>2, <1>7, <4>1
      <4>3. b \in j + 1 .. L + n /\ q[b] = y
        BY <1>1, <1>3, <2>5, <4>2
      <4>4. QED
        BY <2>3, <4>3
    <3>3. QED
      BY <1>1, <2>3, <3>1, <3>2
  <2>7. b \in 1 .. Len(t.log) /\ t.log[b] = y
    BY <1>2, <1>5, <1>6, <2>5, <2>6
  <2>8. QED
    BY <2>4, <2>7
<1>13. l2 # {} => w
  BY <1>10 DEF Good, Phases
<1>14. QED
  BY <1>6, <1>8, <1>9, <1>10, <1>11, <1>12, <1>13, NonePending

-----------------------------------------------------------------------------
(* What the pieces of code do to the fields of a MyConn.                   *)

LEMMA NoneOfType == <<>> \in Seq(Points \cup {START}) /\ <<>> \in Seq(Points \cup {Write}) /\ Len(<<>>) = 0
OBVIOUS

LEMMA DoneFields ==
    ASSUME NEW c \in MyConns
    PROVE  LET d == Done(c) IN
           /\ d \in MyConns /\ d.op = "no" /\ d.sent = 0 /\ ~d.fresh /\ d.old = "no"
           /\ d.proto = c.proto /\ d.inTrans = c.inTrans /\ d.pending = c.pending /\ d.stmt = c.stmt
<1>1. 0 \in 0 .. MaxRetries /\ START \in Points \cup {START}
  BY TrxAssumption
<1>2. QED
  BY <1>1 DEF Done, MyConns, Ops

LEMMA CalledFields ==
    ASSUME NEW c \in MyConns, NEW op \in Ops, NEW x \in Points \cup {START}
    PROVE  LET d == Called(c, op, x) IN
           /\ d \in MyConns /\ d.op = op /\ d.sent = 0 /\ d.to = x /\ d.fresh = c.fresh /\ d.old = c.old
           /\ d.proto = c.proto /\ d.inTrans = c.inTrans /\ d.pending = c.pending /\ d.stmt = c.stmt
<1>1. MaxRetries \in 0 .. MaxRetries
  BY TrxAssumption
<1>2. QED
  BY <1>1 DEF Called, MyConns

LEMMA EndedFields ==
    ASSUME NEW c \in MyConns, NEW keep \in BOOLEAN
    PROVE  LET d == Ended(c, keep) IN
           /\ d \in MyConns /\ ~d.proto /\ ~d.fresh /\ ~d.inTrans /\ ~d.stmt
           /\ d.pending = (IF keep THEN c.pending ELSE <<>>)
           /\ d.op = c.op /\ d.to = c.to /\ d.sent = c.sent /\ d.old = c.old
<1> DEFINE e == IF keep THEN c.pending ELSE <<>>
<1>1. Ended(c, keep) = [c EXCEPT !.proto = FALSE, !.fresh = FALSE, !.inTrans = FALSE, !.enum = 0,
                                 !.stmt = FALSE, !.pending = e]
  BY DEF Ended
<1>2. e \in Seq(Points \cup {START}) /\ 0 \in 0 .. MaxPoints
  BY TrxAssumption, NoneOfType DEF MyConns
<1> HIDE DEF e
<1> DEFINE d == Ended(c, keep)
<1>3. d \in MyConns
  BY <1>1, <1>2 DEF MyConns
<1>4. ~d.proto /\ ~d.fresh /\ ~d.inTrans /\ ~d.stmt /\ d.pending = e
  BY <1>1 DEF MyConns
<1>5. d.op = c.op /\ d.to = c.to /\ d.sent = c.sent /\ d.old = c.old
  BY <1>1 DEF MyConns
<1>6. QED
  BY <1>3, <1>4, <1>5 DEF e

LEMMA PendingFields ==
    ASSUME NEW c \in MyConns, NEW e \in Seq(Points \cup {START})
    PROVE  LET d == [c EXCEPT !.pending = e] IN
           /\ d \in MyConns /\ d.pending = e /\ d.op = c.op /\ d.sent = c.sent /\ d.to = c.to
           /\ d.fresh = c.fresh /\ d.old = c.old /\ d.proto = c.proto /\ d.inTrans = c.inTrans
           /\ d.stmt = c.stmt
BY DEF MyConns

LEMMA ClearedFields ==
    ASSUME NEW c \in MyConns
    PROVE  LET d == Cleared(c) IN
           /\ d \in MyConns /\ d.op = "no" /\ d.sent = 0 /\ ~d.fresh /\ d.old = "no" /\ d.pending = <<>>
           /\ d.proto = c.proto /\ d.inTrans = c.inTrans /\ d.stmt = c.stmt
<1> DEFINE e == <<>>
<1>1. Cleared(c) = [Done(c) EXCEPT !.pending = e] /\ e \in Seq(Points \cup {START})
  BY NoneOfType DEF Cleared
<1> HIDE DEF e
<1>2. LET d == Cleared(c) IN
           /\ d \in MyConns /\ d.op = "no" /\ d.sent = 0 /\ ~d.fresh /\ d.old = "no" /\ d.pending = e
           /\ d.proto = c.proto /\ d.inTrans = c.inTrans /\ d.stmt = c.stmt
  BY <1>1, DoneFields, PendingFields
<1>3. QED
  BY <1>2 DEF e

LEMMA StartedFields ==
    ASSUME NEW c \in MyConns
    PROVE  LET d == Started(c) IN
           /\ d \in MyConns /\ Len(d.pending) = 1 /\ d.pending[1] = START /\ d.op = c.op /\ d.sent = c.sent /\ d.to = c.to
           /\ d.fresh = c.fresh /\ d.old = c.old /\ d.proto = c.proto /\ d.inTrans = c.inTrans
           /\ d.stmt = c.stmt
<1> DEFINE e == <<START>>
<1>1. Started(c) = [c EXCEPT !.pending = e, !.enum = 0]
  BY DEF Started
<1>2. e \in Seq(Points \cup {START}) /\ 0 \in 0 .. MaxPoints
  BY TrxAssumption
<1> HIDE DEF e
<1>3. LET d == Started(c) IN
           /\ d \in MyConns /\ d.pending = e /\ d.op = c.op /\ d.sent = c.sent /\ d.to = c.to
           /\ d.fresh = c.fresh /\ d.old = c.old /\ d.proto = c.proto /\ d.inTrans = c.inTrans
           /\ d.stmt = c.stmt
  BY <1>1, <1>2 DEF MyConns
<1>4. Len(e) = 1 /\ e[1] = START
  BY DEF e
<1>5. QED
  BY <1>3, <1>4

LEMMA AnsweredFields ==
    ASSUME NEW c \in MyConns, NEW t \in Threads
    PROVE  LET d == Answered(c, t) IN
           /\ d \in MyConns /\ ~d.fresh /\ d.inTrans = t.trx /\ d.pending = c.pending /\ d.op = c.op
           /\ d.sent = c.sent /\ d.to = c.to /\ d.old = c.old /\ d.proto = c.proto /\ d.stmt = c.stmt
<1> DEFINE e == IF c.retries = 0 THEN 0 ELSE c.retries - 1
<1>1. Answered(c, t) = [c EXCEPT !.fresh = FALSE, !.inTrans = t.trx, !.retries = e]
  BY DEF Answered
<1>2. e \in 0 .. MaxRetries /\ t.trx \in BOOLEAN
  BY TrxAssumption DEF MyConns, Threads
<1> HIDE DEF e
<1>3. QED
  BY <1>1, <1>2 DEF MyConns

LEMMA NewFields ==
    /\ NewConn \in MyConns /\ ~NewConn.proto /\ ~NewConn.fresh /\ ~NewConn.inTrans /\ NewConn.pending = <<>>
    /\ NewConn.op = "no" /\ NewConn.sent = 0 /\ NewConn.old = "no" /\ ~NewConn.stmt
    /\ NewThread \in Threads /\ NewThread.alive /\ ~NewThread.trx /\ NewThread.log = <<>> /\ ~NewThread.stmt
<1>1. 0 \in 0 .. MaxRetries /\ 0 \in 0 .. MaxPoints
  BY TrxAssumption
<1>2. QED
  BY <1>1, NoneOfType DEF NewConn, NewThread, MyConns, Threads, Ops

LEMMA NewGood == Good(NewConn, NewThread, FALSE, {})
<1>1. Typed(NewConn, NewThread, FALSE, {}) /\ Flags(NewConn, NewThread, FALSE) /\ LogOnce(NewThread)
  BY NewFields, NoneOfType DEF Typed, Flags, LogOnce, PointsOnce
<1>2. QED
  BY <1>1, NewFields, NonePending

\* The start of a transaction is all that is pending.
LEMMA StartPending ==
    ASSUME NEW d \in MyConns, NEW s, Typed(d, s, TRUE, {}), Flags(d, s, TRUE), LogOnce(s),
           Len(d.pending) = 1, d.pending[1] = START, d.op = "no", d.sent = 0, d.old = "no"
    PROVE  Good(d, s, TRUE, {})
<1>1. \A i \in 1 .. Len(d.pending) : i = 1
  OBVIOUS
<1>2. Phases(d, TRUE, {}) /\ Begins(d, s, TRUE) /\ OneKind(d)
  BY <1>1 DEF Phases, Begins, OneKind
<1>3. InLog(d, s) /\ Kept(d, s, {})
  BY DEF InLog, Kept
<1>4. QED
  BY <1>2, <1>3 DEF Good

-----------------------------------------------------------------------------
(* The actions on one connection.                                          *)

LEMMA Update ==
    ASSUME NEW S, NEW D, NEW f \in [D -> S], NEW k \in D, NEW v \in S
    PROVE  LET g == [f EXCEPT ![k] = v] IN
           /\ g \in [D -> S] /\ g[k] = v /\ \A j \in D \ {k} : g[j] = f[j]
OBVIOUS

\* A step of one connection of the session
StepOf(k, c2, s2, w2, l2) ==
    /\ k \in members /\ members' = members /\ sess' = sess
    /\ conn' = [conn EXCEPT ![k] = c2] /\ srv' = [srv EXCEPT ![k] = s2]
    /\ want' = [want EXCEPT ![k] = w2] /\ live' = [live EXCEPT ![k] = l2]

LEMMA OneConn ==
    ASSUME TrxInv, NEW k, NEW c2, NEW s2, NEW w2, NEW l2,
           StepOf(k, c2, s2, w2, l2), Good(c2, s2, w2, l2)
    PROVE  TrxInv'
<1>0. /\ k \in members /\ members' = members /\ sess' = sess
      /\ conn' = [conn EXCEPT ![k] = c2] /\ srv' = [srv EXCEPT ![k] = s2]
      /\ want' = [want EXCEPT ![k] = w2] /\ live' = [live EXCEPT ![k] = l2]
  BY DEF StepOf
<1>1. c2 \in MyConns /\ s2 \in Threads /\ w2 \in BOOLEAN /\ l2 \in SUBSET Points
  BY DEF Good, Typed
<1>2. k \in Conns
  BY <1>0 DEF TrxInv
<1>3. conn' \in [Conns -> MyConns] /\ conn'[k] = c2 /\ \A j \in Conns \ {k} : conn'[j] = conn[j]
  BY <1>0, <1>1, <1>2, Update DEF TrxInv
<1>4. srv' \in [Conns -> Threads] /\ srv'[k] = s2 /\ \A j \in Conns \ {k} : srv'[j] = srv[j]
  BY <1>0, <1>1, <1>2, Update DEF TrxInv
<1>5. want' \in [Conns -> BOOLEAN] /\ want'[k] = w2 /\ \A j \in Conns \ {k} : want'[j] = want[j]
  BY <1>0, <1>1, <1>2, Update DEF TrxInv
<1>6. live' \in [Conns -> SUBSET Points] /\ live'[k] = l2 /\ \A j \in Conns \ {k} : live'[j] = live[j]
  BY <1>0, <1>1, <1>2, Update DEF TrxInv
<1>7. ASSUME NEW j \in Conns
      PROVE  /\ Good(conn'[j], srv'[j], want'[j], live'[j])
             /\ j \notin members => conn'[j] = NewConn /\ srv'[j] = NewThread /\ ~want'[j] /\ live'[j] = {}
  <2>1. CASE j = k
    BY <1>0, <1>3, <1>4, <1>5, <1>6, <2>1
  <2>2. CASE j # k
    BY <1>0, <1>3, <1>4, <1>5, <1>6, <2>2 DEF TrxInv
  <2>3. QED
    BY <2>1, <2>2
<1>8. QED
  BY <1>0, <1>3, <1>4, <1>5, <1>6, <1>7 DEF TrxInv

\* The parts of the invariant for one connection
LEMMA OneOf ==
    ASSUME TrxInv, NEW k \in Conns
    PROVE  /\ Good(conn[k], srv[k], want[k], live[k])
           /\ conn[k] \in MyConns /\ srv[k] \in Threads /\ want[k] \in BOOLEAN /\ live[k] \subseteq Points
           /\ conn = [conn EXCEPT ![k] = conn[k]] /\ srv = [srv EXCEPT ![k] = srv[k]]
           /\ want = [want EXCEPT ![k] = want[k]] /\ live = [live EXCEPT ![k] = live[k]]
           /\ members \subseteq Conns
<1>1. Good(conn[k], srv[k], want[k], live[k]) /\ members \subseteq Conns
  BY DEF TrxInv
<1>2. conn = [conn EXCEPT ![k] = conn[k]] /\ srv = [srv EXCEPT ![k] = srv[k]]
  BY DEF TrxInv
<1>3. want = [want EXCEPT ![k] = want[k]] /\ live = [live EXCEPT ![k] = live[k]]
  BY DEF TrxInv
<1>4. QED
  BY <1>1, <1>2, <1>3 DEF Good, Typed

\* The branches of the invariant that a call which is awaited needs
LEMMA Awaited ==
    ASSUME TrxInv, NEW k, NEW ops, Awaits(k, ops)
    PROVE  /\ k \in members /\ k \in Conns /\ conn[k].op \in ops /\ conn[k].old = "no"
           /\ Good(conn[k], srv[k], want[k], live[k])
           /\ conn[k] \in MyConns /\ srv[k] \in Threads
BY DEF Awaits, TrxInv, Good, Typed

LEMMA QueryKeeps ==
    ASSUME TrxInv, NEW k \in Conns, NEW op \in {"query", "named"}, Query(k, op)
    PROVE  TrxInv'
<1> DEFINE c == conn[k]
           c2 == Called(c, op, START)
<1>1. k \in members /\ c.op = "no" /\ c.old = "no"
  BY OneOf DEF Query, Idle, Good, Phases
<1>2. /\ c2 \in MyConns /\ c2.op = op /\ c2.sent = 0 /\ c2.fresh = c.fresh /\ c2.old = c.old
      /\ c2.proto = c.proto /\ c2.inTrans = c.inTrans /\ c2.pending = c.pending
  BY OneOf, CalledFields DEF Ops
<1>3. Typed(c2, srv[k], want[k], live[k]) /\ Flags(c2, srv[k], want[k])
  BY <1>2, OneOf DEF Good, Typed, Flags
<1>4. live[k] # {} => want[k]
  BY OneOf DEF Good, Phases
<1>5. Good(c2, srv[k], want[k], live[k])
  BY <1>1, <1>2, <1>3, <1>4, OneOf, SamePending
<1>6. conn' = [conn EXCEPT ![k] = c2] /\ UNCHANGED <<sess, members, srv, want, live>>
  BY DEF Query, history
<1>7. StepOf(k, c2, srv[k], want[k], live[k])
  BY <1>1, <1>6, OneOf DEF StepOf
<1>8. QED
  BY <1>5, <1>7, OneConn

LEMMA SavepointKeeps ==
    ASSUME Usage, TrxInv, NEW k \in Conns, Savepoint(k)
    PROVE  TrxInv'
<1> DEFINE c == conn[k]
           x == <<"p", c.enum + 1>>
           e == Append(c.pending, x)
           c2 == [c EXCEPT !.enum = @ + 1, !.pending = e]
<1>1. /\ k \in members /\ want[k] /\ c.enum < MaxPoints /\ SameKindUnsent(k, "p")
      /\ UNCHANGED <<sess, members, srv, want>>
      /\ conn' = [conn EXCEPT ![k].enum = @ + 1, ![k].pending = Append(@, x)]
      /\ live' = [live EXCEPT ![k] = @ \cup {x}]
  BY DEF Savepoint, Idle, Sending
<1>2. c \in MyConns /\ c.enum \in 0 .. MaxPoints /\ c.pending \in Seq(Points \cup {START})
  BY OneOf DEF MyConns
<1>3. c.enum + 1 \in 0 .. MaxPoints /\ c.enum + 1 \in 1 .. MaxPoints
  BY <1>1, <1>2, TrxAssumption
<1>4. x \in Points /\ x[1] = "p"
  BY <1>3 DEF Points
<1>5. conn' = [conn EXCEPT ![k] = c2] /\ live' = [live EXCEPT ![k] = live[k] \cup {x}]
  BY <1>1
<1>6. e \in Seq(Points \cup {START})
  BY <1>2, <1>4
<1> HIDE DEF e, x
<1>7. /\ c2 \in MyConns /\ c2.pending = e /\ c2.proto = c.proto /\ c2.fresh = c.fresh
      /\ c2.inTrans = c.inTrans /\ c2.op = c.op /\ c2.to = c.to /\ c2.sent = c.sent /\ c2.old = c.old
  BY <1>2, <1>3, <1>6 DEF MyConns
<1>8. c.inTrans \/ \A i \in DOMAIN c.pending : c.pending[i][1] \in {"start", x[1]}
  BY <1>1, <1>4 DEF SameKindUnsent, Usage
<1>9. Good(c2, srv[k], want[k], live[k] \cup {x})
  BY <1>1, <1>4, <1>7, <1>8, OneOf, PointAdded DEF e
<1>10. StepOf(k, c2, srv[k], want[k], live[k] \cup {x})
  BY <1>1, <1>5, OneOf DEF StepOf
<1>11. QED
  BY <1>9, <1>10, OneConn

LEMMA OldFields ==
    ASSUME NEW c \in MyConns, NEW st \in {"no", "sending", "preparing", "executing"}
    PROVE  LET d == [c EXCEPT !.old = st] IN
           /\ d \in MyConns /\ d.old = st /\ d.pending = c.pending /\ d.op = c.op /\ d.sent = c.sent
           /\ d.fresh = c.fresh /\ d.proto = c.proto /\ d.inTrans = c.inTrans /\ d.stmt = c.stmt
BY DEF MyConns

LEMMA Stages == \A c : Stage(c) \in {"sending", "preparing", "executing"}
BY DEF Stage

LEMMA EndKeeps ==
    ASSUME TrxInv, NEW k \in Conns, End(k)
    PROVE  TrxInv'
<1> DEFINE c == conn[k]
           st == IF c.op = "no" THEN "no" ELSE Stage(c)
           d == Ended(c, FALSE)
           c2 == [d EXCEPT !.old = st]
<1>1. /\ k \in members /\ c.proto /\ UNCHANGED <<sess, members>>
      /\ conn' = [conn EXCEPT ![k] = c2] /\ srv' = [srv EXCEPT ![k] = NewThread]
      /\ want' = [want EXCEPT ![k] = FALSE] /\ live' = [live EXCEPT ![k] = {}]
  BY DEF End
<1>2. /\ d \in MyConns /\ ~d.proto /\ ~d.fresh /\ ~d.inTrans /\ d.pending = <<>> /\ d.op = c.op /\ d.sent = c.sent
  BY OneOf, EndedFields
<1>3. st \in {"no", "sending", "preparing", "executing"} /\ (st = "no" => c.op = "no") /\ (c.op = "no" => st = "no")
  BY Stages
<1> HIDE DEF d, st
<1>4. /\ c2 \in MyConns /\ ~c2.proto /\ ~c2.fresh /\ ~c2.inTrans /\ c2.pending = <<>> /\ c2.op = c.op
      /\ c2.sent = c.sent /\ c2.old = st
  BY <1>2, <1>3 DEF MyConns
<1>5. c.op = "no" => c.sent = 0
  BY OneOf DEF Good, Phases
<1> HIDE DEF c2
<1>6. Typed(c2, NewThread, FALSE, {}) /\ Flags(c2, NewThread, FALSE) /\ LogOnce(NewThread)
  BY <1>4, NewFields, NoneOfType DEF Typed, Flags, LogOnce, PointsOnce
<1>7. Phases(c2, FALSE, {})
  BY <1>3, <1>4, <1>5, NoneOfType DEF Phases
<1>8. Begins(c2, NewThread, FALSE) /\ OneKind(c2) /\ Kept(c2, NewThread, {})
  BY <1>4, NoneOfType DEF Begins, OneKind, Kept
<1>9. InLog(c2, NewThread)
  BY NewFields, NoneOfType DEF InLog
<1>10. Good(c2, NewThread, FALSE, {})
  BY <1>6, <1>7, <1>8, <1>9 DEF Good
<1>11. StepOf(k, c2, NewThread, FALSE, {})
  BY <1>1 DEF StepOf, c2
<1>12. QED
  BY <1>10, <1>11, OneConn

\* rollback(toPointId) of one connection, in itself and as a part of the session's
LEMMA RollbackOne ==
    ASSUME TrxInv, NEW k \in members, conn[k].op = "no", NEW x \in Points, want[k] => x \in live[k],
           NEW l2, l2 = IF x \in live[k] /\ PendingAt(conn[k], x) # {} THEN Before(k, x) ELSE live[k]
    PROVE  ConnRollbackTo(k, x) \in MyConns /\ Good(ConnRollbackTo(k, x), srv[k], want[k], l2)
<1> DEFINE c == conn[k]
           c2 == ConnRollbackTo(k, x)
<1>1. k \in Conns /\ c.sent = 0 /\ c.old = "no" /\ c \in MyConns /\ srv[k] \in Threads
  BY OneOf DEF TrxInv, Good, Phases
<1>2. CASE PendingAt(c, x) # {}
  <2> DEFINE p == Max(PendingAt(c, x))
             r == SubSeq(c.pending, 1, p - 1)
  <2>1. c2 = [c EXCEPT !.pending = r]
    BY <1>2 DEF ConnRollbackTo
  <2>2. LastPending(c, x, p) /\ r \in Seq(Points \cup {START}) /\ Len(r) = p - 1 /\ \A i \in 1 .. p - 1 : r[i] = c.pending[i]
    BY <1>1, <1>2, CutFacts
  <2> HIDE DEF p, r, c2
  <2>3. /\ c2 \in MyConns /\ Len(c2.pending) = p - 1 /\ \A i \in 1 .. p - 1 : c2.pending[i] = c.pending[i]
        /\ c2.proto = c.proto /\ c2.fresh = c.fresh /\ c2.inTrans = c.inTrans /\ c2.op = "no" /\ c2.sent = 0
        /\ c2.old = "no"
    BY <1>1, <2>1, <2>2 DEF MyConns
  <2>4. l2 = IF x \in live[k] THEN BeforeIn(srv[k].log \o c.pending, live[k], x) ELSE live[k]
    BY <1>2 DEF Before, BeforeIn
  <2>5. Good(c2, srv[k], want[k], l2)
    BY <1>1, <2>2, <2>3, <2>4, OneOf, CutPending
  <2>6. QED
    BY <2>3, <2>5 DEF c2
<1>3. CASE PendingAt(c, x) = {} /\ InTrans(c)
  <2>1. c2 = Called(c, "to", x)
    BY <1>3 DEF ConnRollbackTo
  <2>2. /\ c2 \in MyConns /\ c2.op = "to" /\ c2.sent = 0 /\ c2.to = x /\ c2.fresh = c.fresh /\ c2.old = c.old
        /\ c2.proto = c.proto /\ c2.inTrans = c.inTrans /\ c2.pending = c.pending
    <3>1. "to" \in Ops /\ x \in Points \cup {START}
      BY DEF Ops
    <3> HIDE DEF c2
    <3>2. QED
      BY <1>1, <2>1, <3>1, CalledFields
  <2> HIDE DEF c2
  <2>3. Typed(c2, srv[k], want[k], live[k]) /\ Flags(c2, srv[k], want[k])
    BY <1>1, <2>2, OneOf DEF Good, Typed, Flags
  <2>4. live[k] # {} => want[k]
    BY <1>1, OneOf DEF Good, Phases
  <2>5. Good(c2, srv[k], want[k], live[k])
    BY <1>1, <2>2, <2>3, <2>4, OneOf, SamePending
  <2>6. QED
    BY <1>3, <2>2, <2>5 DEF c2
<1>4. CASE PendingAt(c, x) = {} /\ ~InTrans(c)
  BY <1>1, <1>4, OneOf DEF ConnRollbackTo
<1>5. QED
  BY <1>2, <1>3, <1>4

LEMMA RollbackToKeeps ==
    ASSUME TrxInv, NEW k \in Conns, NEW x \in Points, RollbackTo(k, x)
    PROVE  TrxInv'
<1> DEFINE c2 == ConnRollbackTo(k, x)
           l2 == IF x \in live[k] /\ PendingAt(conn[k], x) # {} THEN Before(k, x) ELSE live[k]
<1>1. /\ k \in members /\ conn[k].op = "no" /\ x \in live[k] /\ UNCHANGED <<sess, members, srv, want>>
      /\ conn' = [conn EXCEPT ![k] = c2]
  BY DEF RollbackTo, Idle
<1>2. Good(c2, srv[k], want[k], l2)
  BY <1>1, RollbackOne
<1>3. live' = [live EXCEPT ![k] = l2]
  <2>1. live' = [j \in Conns |-> IF j \in {i \in {k} : x \in live[i] /\ PendingAt(conn[i], x) # {}}
                                 THEN Before(j, x) ELSE live[j]]
    BY DEF RollbackTo, ReturnsAtOnce
  <2> HIDE DEF l2
  <2>2. live' = [j \in Conns |-> IF j = k THEN l2 ELSE live[j]]
    BY <2>1 DEF l2
  <2>3. QED
    BY <2>2 DEF TrxInv
<1>4. StepOf(k, c2, srv[k], want[k], l2)
  BY <1>1, <1>3, OneOf DEF StepOf
<1>5. QED
  BY <1>2, <1>4, OneConn

\* The beginning of commit() or of rollback() of one connection
LEMMA EndTrxOne ==
    ASSUME NEW c, NEW s, NEW w, NEW l, Good(c, s, w, l), c.op = "no",
           NEW chains \in BOOLEAN, chains /\ w => InTrans(c),
           NEW op \in {"commit", "commitChain", "rollback", "chain"},
           NEW c2, c2 = IF InTrans(c) THEN Called(c, op, START) ELSE Cleared(c),
           NEW w2, w2 = (w /\ (chains \/ InTrans(c))), NEW l2, l2 = IF InTrans(c) THEN l ELSE {}
    PROVE  Good(c2, s, w2, l2)
<1>1. c \in MyConns /\ s \in Threads /\ w \in BOOLEAN /\ c.sent = 0 /\ c.old = "no" /\ l \subseteq Points
      /\ (l # {} => w)
  BY DEF Good, Typed, Phases
<1>2. CASE InTrans(c)
  <2>1. c2 = Called(c, op, START) /\ w2 = w /\ l2 = l
    BY <1>1, <1>2
  <2>2. /\ c2 \in MyConns /\ c2.op = op /\ c2.sent = 0 /\ c2.fresh = c.fresh /\ c2.old = c.old
        /\ c2.proto = c.proto /\ c2.inTrans = c.inTrans /\ c2.pending = c.pending /\ c2.proto
    <3>1. op \in Ops /\ START \in Points \cup {START}
      BY DEF Ops
    <3>2. LET d == Called(c, op, START) IN
          /\ d \in MyConns /\ d.op = op /\ d.sent = 0 /\ d.fresh = c.fresh /\ d.old = c.old
          /\ d.proto = c.proto /\ d.inTrans = c.inTrans /\ d.pending = c.pending
      BY <1>1, <3>1, CalledFields
    <3>3. c.proto
      BY <1>2 DEF InTrans
    <3>4. QED
      BY <2>1, <3>2, <3>3
  <2>3. Typed(c2, s, w, l) /\ Flags(c2, s, w)
    BY <2>2 DEF Good, Typed, Flags
  <2>4. Good(c2, s, w, l)
    BY <1>1, <2>2, <2>3, SamePending
  <2>5. QED
    BY <2>1, <2>4
<1>3. CASE ~InTrans(c)
  <2>1. c2 = Cleared(c) /\ w2 = FALSE /\ l2 = {}
    BY <1>1, <1>3
  <2>2. /\ c2 \in MyConns /\ c2.op = "no" /\ c2.sent = 0 /\ ~c2.fresh /\ c2.old = "no" /\ c2.pending = <<>>
        /\ c2.proto = c.proto /\ c2.inTrans = c.inTrans
    BY <1>1, <2>1, ClearedFields
  <2>3. Typed(c2, s, FALSE, {}) /\ Flags(c2, s, FALSE) /\ LogOnce(s)
    BY <2>2 DEF Good, Typed, Flags
  <2>4. Good(c2, s, FALSE, {})
    BY <2>2, <2>3, NonePending
  <2>5. QED
    BY <2>1, <2>4
<1>4. QED
  BY <1>2, <1>3

\* A step of several connections
LEMMA ManyConns ==
    ASSUME members' \subseteq Conns, sess' \in [on : BOOLEAN, enum : 0 .. MaxPoints],
           conn' = [k \in Conns |-> conn'[k]], srv' = [k \in Conns |-> srv'[k]],
           want' = [k \in Conns |-> want'[k]], live' = [k \in Conns |-> live'[k]],
           \A k \in Conns : /\ Good(conn'[k], srv'[k], want'[k], live'[k])
                            /\ k \notin members' => /\ conn'[k] = NewConn /\ srv'[k] = NewThread
                                                    /\ ~want'[k] /\ live'[k] = {}
    PROVE  TrxInv'
<1>1. \A k \in Conns : conn'[k] \in MyConns /\ srv'[k] \in Threads /\ want'[k] \in BOOLEAN /\ live'[k] \in SUBSET Points
  BY DEF Good, Typed
<1>2. conn' \in [Conns -> MyConns]
  BY <1>1
<1>3. srv' \in [Conns -> Threads]
  BY <1>1
<1>4. want' \in [Conns -> BOOLEAN]
  BY <1>1
<1>5. live' \in [Conns -> SUBSET Points]
  BY <1>1
<1>6. QED
  BY <1>2, <1>3, <1>4, <1>5 DEF TrxInv

LEMMA EndTrxKeeps ==
    ASSUME Usage, TrxInv, NEW K \in SUBSET members, \A k \in K : conn[k].op = "no",
           NEW chains \in BOOLEAN, NEW op \in {"commit", "commitChain", "rollback", "chain"},
           EndTrx(K, op, chains), sess' \in [on : BOOLEAN, enum : 0 .. MaxPoints]
    PROVE  TrxInv'
<1>1. /\ members' = members /\ srv' = srv
      /\ conn' = [k \in Conns |->
            IF k \notin K THEN conn[k]
            ELSE IF InTrans(conn[k]) THEN Called(conn[k], op, START) ELSE Cleared(conn[k])]
      /\ want' = [k \in Conns |-> want[k] /\ (k \in K => chains \/ InTrans(conn[k]))]
      /\ live' = [k \in Conns |-> IF k \in K /\ ~InTrans(conn[k]) THEN {} ELSE live[k]]
      /\ chains => \A k \in K : want[k] => InTrans(conn[k])
  BY DEF EndTrx, Usage
<1>2. K \subseteq members /\ members \subseteq Conns /\ srv = [k \in Conns |-> srv[k]]
  BY DEF TrxInv
<1>3. ASSUME NEW k \in Conns
      PROVE  /\ Good(conn'[k], srv'[k], want'[k], live'[k])
             /\ k \notin members' => conn'[k] = NewConn /\ srv'[k] = NewThread /\ ~want'[k] /\ live'[k] = {}
  <2>1. CASE k \in K
    <3>1. /\ conn'[k] = IF InTrans(conn[k]) THEN Called(conn[k], op, START) ELSE Cleared(conn[k])
          /\ want'[k] = (want[k] /\ (chains \/ InTrans(conn[k])))
          /\ live'[k] = IF InTrans(conn[k]) THEN live[k] ELSE {}
      BY <1>1, <2>1
    <3>2. Good(conn'[k], srv[k], want'[k], live'[k])
      <4>1. Good(conn[k], srv[k], want[k], live[k]) /\ conn[k].op = "no"
        BY <2>1, OneOf
      <4>2. chains /\ want[k] => InTrans(conn[k])
        BY <1>1, <2>1
      <4>3. QED
        BY <3>1, <4>1, <4>2, EndTrxOne
    <3>3. QED
      BY <1>1, <1>2, <2>1, <3>2
  <2>2. CASE k \notin K
    <3>1. conn'[k] = conn[k] /\ live'[k] = live[k] /\ want'[k] = want[k]
      BY <1>1, <2>2, OneOf
    <3>2. QED
      BY <1>1, <3>1 DEF TrxInv
  <2>3. QED
    BY <2>1, <2>2
<1>4. conn' = [k \in Conns |-> conn'[k]] /\ want' = [k \in Conns |-> want'[k]] /\ live' = [k \in Conns |-> live'[k]]
  BY <1>1
<1>5. QED
  BY <1>1, <1>2, <1>3, <1>4, ManyConns

LEMMA CommitKeeps ==
    ASSUME Usage, TrxInv, NEW k \in Conns, NEW b \in BOOLEAN, Commit(k, b)
    PROVE  TrxInv'
<1>1. /\ {k} \in SUBSET members /\ \A j \in {k} : conn[j].op = "no"
      /\ sess' \in [on : BOOLEAN, enum : 0 .. MaxPoints]
      /\ EndTrx({k}, IF b THEN "commitChain" ELSE "commit", b)
  BY DEF Commit, Idle, TrxInv
<1>2. QED
  BY <1>1, EndTrxKeeps

LEMMA RollbackKeeps ==
    ASSUME Usage, TrxInv, NEW b \in BOOLEAN, Rollback(b)
    PROVE  TrxInv'
<1>1. members \in SUBSET members /\ \A j \in members : conn[j].op = "no"
  BY DEF Rollback, AllIdle, Idle
<1>2. EndTrx(members, IF b THEN "chain" ELSE "rollback", b)
  BY DEF Rollback
<1>3. sess' \in [on : BOOLEAN, enum : 0 .. MaxPoints]
  <2> DEFINE on == sess.on /\ b
  <2>1. sess' = [sess EXCEPT !.on = on, !.enum = 0]
    BY DEF Rollback
  <2>2. on \in BOOLEAN /\ 0 \in 0 .. MaxPoints
    BY TrxAssumption
  <2> HIDE DEF on
  <2>3. QED
    BY <2>1, <2>2 DEF TrxInv
<1>4. QED
  BY <1>1, <1>2, <1>3, EndTrxKeeps

LEMMA StartTrxKeeps ==
    ASSUME Usage, TrxInv, StartTrx
    PROVE  TrxInv'
<1>1. /\ members' = members /\ srv' = srv
      /\ \A k \in members : conn[k].op = "no" /\ ~conn[k].inTrans
      /\ sess' = [on |-> TRUE, enum |-> 0]
      /\ conn' = [k \in Conns |-> IF k \in members THEN Started(conn[k]) ELSE conn[k]]
      /\ want' = [k \in Conns |-> k \in members] /\ live' = [k \in Conns |-> {}]
  BY DEF StartTrx, Usage, Idle
<1>2. sess' \in [on : BOOLEAN, enum : 0 .. MaxPoints] /\ members \subseteq Conns /\ srv = [k \in Conns |-> srv[k]]
  <2>1. 0 \in 0 .. MaxPoints
    BY TrxAssumption
  <2>2. QED
    BY <1>1, <2>1 DEF TrxInv
<1>3. ASSUME NEW k \in Conns
      PROVE  /\ Good(conn'[k], srv'[k], want'[k], live'[k])
             /\ k \notin members' => conn'[k] = NewConn /\ srv'[k] = NewThread /\ ~want'[k] /\ live'[k] = {}
  <2>1. CASE k \in members
    <3> DEFINE c == conn[k]
               d == Started(c)
    <3>1. conn'[k] = d /\ want'[k] = TRUE /\ live'[k] = {}
      BY <1>1, <2>1
    <3>2. c \in MyConns /\ c.op = "no" /\ ~c.inTrans /\ c.sent = 0 /\ c.old = "no"
      BY <1>1, <2>1, OneOf DEF Good, Phases
    <3>3. /\ d \in MyConns /\ Len(d.pending) = 1 /\ d.pending[1] = START /\ d.op = "no" /\ d.sent = 0
          /\ d.fresh = c.fresh /\ d.old = "no" /\ d.proto = c.proto /\ ~d.inTrans
      BY <3>2, StartedFields
    <3> HIDE DEF d
    <3> HIDE DEF c
    <3>4. Typed(d, srv[k], TRUE, {}) /\ Flags(d, srv[k], TRUE) /\ LogOnce(srv[k])
      <4>1. Flags(c, srv[k], want[k]) /\ LogOnce(srv[k]) /\ srv[k] \in Threads
        BY OneOf DEF Good, c
      <4>2. Flags(d, srv[k], TRUE)
        BY <3>2, <3>3, <4>1 DEF Flags, MyConns, Threads
      <4>3. QED
        BY <3>3, <4>1, <4>2 DEF Typed
    <3>5. Good(d, srv[k], TRUE, {})
      BY <3>3, <3>4, StartPending
    <3>6. QED
      BY <1>1, <2>1, <3>1, <3>5
  <2>2. CASE k \notin members
    <3>a. want'[k] = (k \in members)
      BY <1>1
    <3>b. ~want'[k]
      BY <2>2, <3>a
    <3>c. want'[k] \in BOOLEAN
      BY <3>a
    <3>1. conn'[k] = conn[k] /\ want'[k] = FALSE /\ live'[k] = {}
      BY <1>1, <2>2, <3>b, <3>c
    <3>2. conn[k] = NewConn /\ srv[k] = NewThread
      BY <2>2 DEF TrxInv
    <3>3. QED
      BY <1>1, <3>1, <3>2, NewGood
  <2>3. QED
    BY <2>1, <2>2
<1>4. conn' = [k \in Conns |-> conn'[k]] /\ want' = [k \in Conns |-> want'[k]] /\ live' = [k \in Conns |-> live'[k]]
  BY <1>1
<1>5. QED
  BY <1>1, <1>2, <1>3, <1>4, ManyConns

LEMMA SessionSavepointKeeps ==
    ASSUME Usage, TrxInv, SessionSavepoint
    PROVE  TrxInv'
<1> DEFINE x == <<"s", sess.enum + 1>>
<1>1. /\ members' = members /\ srv' = srv /\ want' = want /\ sess.enum < MaxPoints
      /\ \A k \in members : want[k] /\ SameKindUnsent(k, "s")
      /\ sess' = [sess EXCEPT !.enum = @ + 1]
      /\ conn' = [k \in Conns |-> IF k \in members THEN [conn[k] EXCEPT !.pending = Append(@, x)] ELSE conn[k]]
      /\ live' = [k \in Conns |-> IF k \in members THEN live[k] \cup {x} ELSE live[k]]
  BY DEF SessionSavepoint
<1>2. sess \in [on : BOOLEAN, enum : 0 .. MaxPoints] /\ members \subseteq Conns
      /\ srv = [k \in Conns |-> srv[k]] /\ want = [k \in Conns |-> want[k]]
  BY DEF TrxInv
<1>3. sess.enum + 1 \in 0 .. MaxPoints /\ sess.enum + 1 \in 1 .. MaxPoints
  BY <1>1, <1>2, TrxAssumption
<1>4. x \in Points /\ x[1] = "s"
  BY <1>3 DEF Points
<1>5. sess' \in [on : BOOLEAN, enum : 0 .. MaxPoints]
  BY <1>1, <1>2, <1>3
<1> HIDE DEF x
<1>6. ASSUME NEW k \in Conns
      PROVE  /\ Good(conn'[k], srv'[k], want'[k], live'[k])
             /\ k \notin members' => conn'[k] = NewConn /\ srv'[k] = NewThread /\ ~want'[k] /\ live'[k] = {}
  <2>1. CASE k \in members
    <3> DEFINE c == conn[k]
               e == Append(c.pending, x)
               c2 == [c EXCEPT !.pending = e]
    <3>1. conn'[k] = c2 /\ live'[k] = live[k] \cup {x}
      BY <1>1, <2>1
    <3>2. c \in MyConns /\ e \in Seq(Points \cup {START})
      BY <1>4, OneOf DEF MyConns
    <3> HIDE DEF e
    <3>3. /\ c2 \in MyConns /\ c2.pending = e /\ c2.proto = c.proto /\ c2.fresh = c.fresh
          /\ c2.inTrans = c.inTrans /\ c2.op = c.op /\ c2.to = c.to /\ c2.sent = c.sent /\ c2.old = c.old
      BY <3>2 DEF MyConns
    <3>4. c.inTrans \/ \A i \in DOMAIN c.pending : c.pending[i][1] \in {"start", x[1]}
      BY <1>1, <1>4, <2>1 DEF SameKindUnsent, Usage
    <3> HIDE DEF c2
    <3>5. Good(c2, srv[k], want[k], live[k] \cup {x})
      BY <1>1, <1>4, <2>1, <3>3, <3>4, OneOf, PointAdded DEF e
    <3>6. QED
      BY <1>1, <2>1, <3>1, <3>5
  <2>2. CASE k \notin members
    BY <1>1, <2>2 DEF TrxInv
  <2>3. QED
    BY <2>1, <2>2
<1>7. conn' = [k \in Conns |-> conn'[k]] /\ live' = [k \in Conns |-> live'[k]]
  BY <1>1
<1>8. QED
  BY <1>1, <1>2, <1>5, <1>6, <1>7, ManyConns

LEMMA SessionRollbackToKeeps ==
    ASSUME TrxInv, NEW x \in Points, SessionRollbackTo(x)
    PROVE  TrxInv'
<1>1. /\ members' = members /\ srv' = srv /\ want' = want /\ x[2] <= sess.enum
      /\ \A k \in members : conn[k].op = "no" /\ (want[k] => x \in live[k])
      /\ sess' = [sess EXCEPT !.enum = x[2] - 1]
      /\ conn' = [k \in Conns |-> IF k \in members THEN ConnRollbackTo(k, x) ELSE conn[k]]
      /\ ReturnsAtOnce(members, x)
  BY DEF SessionRollbackTo, AllIdle, Idle
<1>2. sess \in [on : BOOLEAN, enum : 0 .. MaxPoints] /\ members \subseteq Conns
      /\ srv = [k \in Conns |-> srv[k]] /\ want = [k \in Conns |-> want[k]]
  BY DEF TrxInv
<1>3. x[2] - 1 \in 0 .. MaxPoints
  <2>1. x[2] \in 1 .. MaxPoints
    BY DEF Points
  <2>2. QED
    BY <2>1, TrxAssumption
<1>4. sess' \in [on : BOOLEAN, enum : 0 .. MaxPoints]
  BY <1>1, <1>2, <1>3
<1>5. live' = [k \in Conns |-> IF k \in members /\ x \in live[k] /\ PendingAt(conn[k], x) # {}
                               THEN Before(k, x) ELSE live[k]]
  BY <1>1 DEF ReturnsAtOnce
<1>6. ASSUME NEW k \in Conns
      PROVE  /\ Good(conn'[k], srv'[k], want'[k], live'[k])
             /\ k \notin members' => conn'[k] = NewConn /\ srv'[k] = NewThread /\ ~want'[k] /\ live'[k] = {}
  <2>1. CASE k \in members
    <3>1. /\ conn'[k] = ConnRollbackTo(k, x)
          /\ live'[k] = IF x \in live[k] /\ PendingAt(conn[k], x) # {} THEN Before(k, x) ELSE live[k]
      BY <1>1, <1>5, <2>1
    <3>2. Good(ConnRollbackTo(k, x), srv[k], want[k], live'[k])
      BY <1>1, <2>1, <3>1, RollbackOne
    <3>3. QED
      BY <1>1, <2>1, <3>1, <3>2
  <2>2. CASE k \notin members
    BY <1>1, <1>5, <2>2 DEF TrxInv
  <2>3. QED
    BY <2>1, <2>2
<1>7. conn' = [k \in Conns |-> conn'[k]] /\ live' = [k \in Conns |-> live'[k]]
  BY <1>1, <1>5
<1>8. QED
  BY <1>1, <1>2, <1>4, <1>6, <1>7, ManyConns

LEMMA SessionConnKeeps ==
    ASSUME TrxInv, NEW k \in Conns, SessionConn(k)
    PROVE  TrxInv'
<1> DEFINE S == Points \cup {START}
           points == [i \in 1 .. sess.enum |-> <<"s", i>>]
           first == IF sess.on THEN <<START>> ELSE <<>>
           e == first \o points
           c2 == [NewConn EXCEPT !.pending = e]
           l2 == IF sess.on THEN Range(points) ELSE {}
           f == IF sess.on THEN 1 ELSE 0
           n == sess.enum
<1>1. /\ k \notin members /\ members' = members \cup {k} /\ srv' = srv /\ sess' = sess
      /\ conn' = [conn EXCEPT ![k].pending = e] /\ want' = [want EXCEPT ![k] = sess.on]
      /\ live' = [live EXCEPT ![k] = l2]
  BY DEF SessionConn
<1>2. conn[k] = NewConn /\ srv[k] = NewThread /\ sess.on \in BOOLEAN /\ n \in 0 .. MaxPoints /\ n \in Nat
  BY <1>1, TrxAssumption DEF TrxInv
<1>3. points \in Seq(S) /\ Len(points) = n /\ \A i \in 1 .. n : points[i] = <<"s", i>> /\ points[i] \in Points
  <2>1. \A i \in 1 .. n : <<"s", i>> \in Points
    <3>1. \A i \in 1 .. n : i \in 1 .. MaxPoints
      BY <1>2, TrxAssumption
    <3>2. QED
      BY <3>1 DEF Points
  <2>2. \A i \in 1 .. n : points[i] = <<"s", i>> /\ points[i] \in Points
    BY <2>1
  <2>3. points \in [1 .. n -> S]
    BY <2>1
  <2>4. points \in Seq(S) /\ Len(points) = n
    BY <1>2, <2>3
  <2>5. QED
    BY <2>2, <2>4
<1>4. first \in Seq(S) /\ Len(first) = f /\ f \in {0, 1} /\ (f = 1 => first[1] = START) /\ (f = 0 => ~sess.on)
  <2>1. CASE sess.on
    <3>1. first = <<START>> /\ f = 1
      BY <2>1
    <3>2. <<START>> \in Seq(S) /\ Len(<<START>>) = 1 /\ <<START>>[1] = START
      OBVIOUS
    <3> HIDE DEF first, f
    <3>3. QED
      BY <3>1, <3>2
  <2>2. CASE ~sess.on
    <3>1. first = <<>> /\ f = 0
      BY <2>2
    <3> HIDE DEF first, f
    <3>2. QED
      BY <2>2, <3>1, NoneOfType
  <2>3. QED
    BY <2>1, <2>2
<1> HIDE DEF points, first, f, n
<1>5. e \in Seq(S) /\ Len(e) = f + n /\ \A i \in 1 .. f + n : e[i] = IF i <= f THEN first[i] ELSE points[i - f]
  BY <1>3, <1>4, ConcatProperties
<1> HIDE DEF e
<1>6. \A i \in 1 .. f + n : (i = f /\ f = 1 /\ e[i] = START) \/ (i - f \in 1 .. n /\ e[i] = <<"s", i - f>> /\ e[i] \in Points)
  <2> SUFFICES ASSUME NEW i \in 1 .. f + n
               PROVE  (i = f /\ f = 1 /\ e[i] = START) \/ (i - f \in 1 .. n /\ e[i] = <<"s", i - f>> /\ e[i] \in Points)
    OBVIOUS
  <2>0. n \in Nat /\ f \in Nat
    BY <1>2, <1>4 DEF n
  <2>1. CASE i <= f
    BY <1>4, <1>5, <2>0, <2>1
  <2>2. CASE ~(i <= f)
    <3>1. i - f \in 1 .. n
      BY <2>0, <2>2
    <3>2. QED
      BY <1>3, <1>5, <2>2, <3>1
  <2>3. QED
    BY <2>1, <2>2
<1>7. /\ c2 \in MyConns /\ c2.pending = e /\ ~c2.proto /\ ~c2.fresh /\ ~c2.inTrans
      /\ c2.op = "no" /\ c2.sent = 0 /\ c2.old = "no"
  BY <1>5, NewFields DEF MyConns
<1> HIDE DEF c2
<1>8. l2 \subseteq Points /\ (l2 # {} => sess.on) /\ \A x \in l2 : \E i \in 1 .. n : points[i] = x
  <2>1. CASE sess.on
    BY <1>3, <2>1 DEF Range
  <2>2. CASE ~sess.on
    BY <2>2
  <2>3. QED
    BY <2>1, <2>2
<1> HIDE DEF l2
<1>9. Typed(c2, NewThread, sess.on, l2) /\ Flags(c2, NewThread, sess.on) /\ LogOnce(NewThread)
  BY <1>2, <1>7, <1>8, NewFields, NoneOfType DEF Typed, Flags, LogOnce, PointsOnce
<1>10. Phases(c2, sess.on, l2)
  <2>1. 0 <= f + n
    BY <1>2, <1>4 DEF n
  <2>2. QED
    BY <1>5, <1>7, <1>8, <2>1 DEF Phases
<1>11. Begins(c2, NewThread, sess.on)
  <2>1. \A i \in 1 .. f + n : e[i] = START => i = 1
    BY <1>6, Names
  <2>2. sess.on => 0 < f + n /\ e[0 + 1] = START
    <3>1. sess.on => f = 1
      BY <1>4
    <3>2. f = 1 => 1 \in 1 .. f + n
      BY <1>2 DEF n
    <3>3. f = 1 => e[1] = START
      BY <1>4, <1>5, <3>2
    <3>4. f = 1 => 0 < f + n
      BY <1>2 DEF n
    <3>5. QED
      BY <3>1, <3>3, <3>4
  <2>3. QED
    BY <1>5, <1>7, <2>1, <2>2 DEF Begins
<1>12. OneKind(c2)
  <2>1. \A i \in 1 .. f + n : e[i] # START => e[i][1] = "s"
    BY <1>6
  <2>2. QED
    BY <1>5, <1>7, <2>1 DEF OneKind
<1>13. InLog(c2, NewThread)
  BY <1>7 DEF InLog
<1>14. Kept(c2, NewThread, l2)
  <2> SUFFICES ASSUME NEW x \in l2
               PROVE  \E i \in 1 .. f + n : e[i] = x
    BY <1>5, <1>7 DEF Kept
  <2>1. PICK i \in 1 .. n : points[i] = x
    BY <1>8
  <2>2. f + i \in 1 .. f + n /\ (f + i) - f = i /\ ~(f + i <= f)
    BY <1>2, <1>4 DEF n
  <2>3. e[f + i] = x
    BY <1>5, <2>1, <2>2
  <2>4. QED
    BY <2>2, <2>3
<1>15. Good(c2, NewThread, sess.on, l2)
  BY <1>9, <1>10, <1>11, <1>12, <1>13, <1>14 DEF Good
<1>16. conn' \in [Conns -> MyConns] /\ conn'[k] = c2 /\ \A j \in Conns \ {k} : conn'[j] = conn[j]
  <2>1. conn' = [conn EXCEPT ![k] = c2]
    BY <1>1, <1>2 DEF c2
  <2>2. QED
    BY <1>7, <2>1, Update DEF TrxInv
<1>17. want' \in [Conns -> BOOLEAN] /\ want'[k] = sess.on /\ \A j \in Conns \ {k} : want'[j] = want[j]
  BY <1>1, <1>2, Update DEF TrxInv
<1>18. live' \in [Conns -> SUBSET Points] /\ live'[k] = l2 /\ \A j \in Conns \ {k} : live'[j] = live[j]
  BY <1>1, <1>8, Update DEF TrxInv
<1>19. ASSUME NEW j \in Conns
       PROVE  /\ Good(conn'[j], srv'[j], want'[j], live'[j])
              /\ j \notin members' => conn'[j] = NewConn /\ srv'[j] = NewThread /\ ~want'[j] /\ live'[j] = {}
  <2>1. CASE j = k
    BY <1>1, <1>2, <1>15, <1>16, <1>17, <1>18, <2>1
  <2>2. CASE j # k
    BY <1>1, <1>16, <1>17, <1>18, <2>2 DEF TrxInv
  <2>3. QED
    BY <2>1, <2>2
<1>20. QED
  BY <1>1, <1>16, <1>17, <1>18, <1>19 DEF TrxInv

LEMMA OldReturnsKeeps ==
    ASSUME TrxInv, NEW k \in Conns, OldReturns(k)
    PROVE  TrxInv'
<1> DEFINE c == conn[k]
           e == IF c.old = "sending" /\ Len(c.pending) <= c.sent + 1 THEN <<>> ELSE c.pending
           b == c.stmt \/ c.old = "preparing"
           c2 == [Done(c) EXCEPT !.pending = e, !.stmt = b]
<1>1. k \in members /\ c.old # "no" /\ UNCHANGED <<sess, members, srv, want, live>>
  BY DEF OldReturns, history
<1>2. c \in MyConns /\ c.pending = <<>> /\ ~want[k] /\ live[k] = {} /\ ~c.proto /\ want[k] \in BOOLEAN
  BY <1>1, OneOf DEF Good, Phases
<1>3. e = <<>>
  BY <1>2
<1>4. b \in BOOLEAN /\ e \in Seq(Points \cup {START})
  BY <1>2, <1>3, NoneOfType DEF MyConns
<1>5. conn' = [conn EXCEPT ![k] = c2]
  <2>1. Done(c).pending = c.pending /\ Done(c).stmt = c.stmt
    BY <1>2, DoneFields
  <2>2. QED
    BY <2>1 DEF OldReturns
<1> HIDE DEF e, b
<1>6. /\ c2 \in MyConns /\ c2.op = "no" /\ c2.sent = 0 /\ ~c2.fresh /\ c2.old = "no" /\ c2.proto = c.proto
      /\ c2.inTrans = c.inTrans /\ c2.pending = <<>>
  <2>1. /\ Done(c) \in MyConns /\ Done(c).op = "no" /\ Done(c).sent = 0 /\ ~Done(c).fresh /\ Done(c).old = "no"
        /\ Done(c).proto = c.proto /\ Done(c).inTrans = c.inTrans
    BY <1>2, DoneFields
  <2>2. QED
    BY <1>3, <1>4, <2>1 DEF MyConns
<1> HIDE DEF c2
<1>7. Typed(c2, srv[k], want[k], live[k]) /\ Flags(c2, srv[k], want[k]) /\ LogOnce(srv[k])
  BY <1>2, <1>6, OneOf DEF Good, Typed, Flags
<1>8. Good(c2, srv[k], want[k], live[k])
  BY <1>2, <1>6, <1>7, NonePending
<1>9. StepOf(k, c2, srv[k], want[k], live[k])
  BY <1>1, <1>5, OneOf DEF StepOf
<1>10. QED
  BY <1>8, <1>9, OneConn

LEMMA ConnectKeeps ==
    ASSUME TrxInv, NEW k \in Conns, Connect(k)
    PROVE  TrxInv'
<1> DEFINE c == conn[k]
<1>1. Awaits(k, Queries) /\ ~c.proto /\ UNCHANGED <<sess, members, want, live>> /\ srv' = [srv EXCEPT ![k] = NewThread]
  BY DEF Connect, history
<1>2. /\ k \in members /\ c.op \in {"query", "named", "to"} /\ c.old = "no" /\ c \in MyConns
      /\ Good(c, srv[k], want[k], live[k])
  BY <1>1, Awaited DEF Queries
<1>3. /\ ~srv[k].trx /\ srv[k].log = <<>> /\ ~c.inTrans /\ (live[k] # {} => want[k])
      /\ (c.op = "to" /\ want[k] => c.to \in live[k])
  BY <1>1, <1>2 DEF Good, Flags, LogOnce, PointsOnce, Phases
<1>a. NewThread.trx = srv[k].trx /\ NewThread.log = srv[k].log
  BY <1>3, NewFields, OneOf DEF Threads
<1>4. ASSUME NEW fresh \in BOOLEAN, conn' = [conn EXCEPT ![k].proto = TRUE, ![k].fresh = fresh]
      PROVE  TrxInv'
  <2> DEFINE c2 == [c EXCEPT !.proto = TRUE, !.fresh = fresh]
  <2>1. conn' = [conn EXCEPT ![k] = c2]
    BY <1>4
  <2>2. /\ c2 \in MyConns /\ c2.proto /\ c2.inTrans = c.inTrans /\ c2.pending = c.pending /\ c2.sent = c.sent
        /\ c2.op = c.op /\ c2.to = c.to /\ c2.old = "no"
    BY <1>2 DEF MyConns
  <2> HIDE DEF c2
  <2>3. Typed(c2, NewThread, want[k], live[k])
    BY <2>2, NewFields, OneOf DEF Typed
  <2>4. Flags(c2, NewThread, want[k])
    BY <1>2, <1>3, <2>2, NewFields DEF Flags, MyConns, Threads
  <2>5. Good(c2, NewThread, want[k], live[k])
    BY <1>2, <1>3, <1>a, <2>2, <2>3, <2>4, SamePending
  <2>6. StepOf(k, c2, NewThread, want[k], live[k])
    BY <1>1, <1>2, <2>1, OneOf DEF StepOf
  <2>7. QED
    BY <2>5, <2>6, OneConn
<1>5. ASSUME conn' = [conn EXCEPT ![k] = Done(@)]
      PROVE  TrxInv'
  <2> DEFINE c2 == Done(c)
  <2>1. conn' = [conn EXCEPT ![k] = c2]
    BY <1>5
  <2>2. /\ c2 \in MyConns /\ c2.op = "no" /\ c2.sent = 0 /\ ~c2.fresh /\ c2.old = "no"
        /\ c2.proto = c.proto /\ c2.inTrans = c.inTrans /\ c2.pending = c.pending
    BY <1>2, DoneFields
  <2> HIDE DEF c2
  <2>3. Typed(c2, NewThread, want[k], live[k])
    BY <2>2, NewFields, OneOf DEF Typed
  <2>4. Flags(c2, NewThread, want[k])
    BY <1>1, <1>3, <2>2, NewFields DEF Flags
  <2>5. Good(c2, NewThread, want[k], live[k])
    BY <1>2, <1>3, <1>a, <2>2, <2>3, <2>4, SamePending
  <2>6. StepOf(k, c2, NewThread, want[k], live[k])
    BY <1>1, <1>2, <2>1, OneOf DEF StepOf
  <2>7. QED
    BY <2>5, <2>6, OneConn
<1>6. QED
  BY <1>4, <1>5 DEF Connect

\* Whether all of the pending commands are sent
LEMMA StageIs ==
    ASSUME NEW c, c.op \in {"query", "named", "to"}
    PROVE  Stage(c) = "sending" <=> c.sent < Len(c.pending)
BY DEF Stage

LEMMA SendPendingKeeps ==
    ASSUME TrxInv, NEW k \in Conns, SendPending(k)
    PROVE  TrxInv'
<1> DEFINE c == conn[k]
           cmd == c.pending[c.sent + 1]
           t == Executed(srv[k], cmd)
           d == Answered(c, t)
           c2 == [d EXCEPT !.sent = @ + 1]
<1>1. /\ Awaits(k, Queries) /\ c.proto /\ srv[k].alive /\ Stage(c) = "sending"
      /\ UNCHANGED <<sess, members, want, live>> /\ srv' = [srv EXCEPT ![k] = t]
  BY DEF SendPending, history
<1>a. conn' = [conn EXCEPT ![k] = c2]
  BY DEF SendPending
<1>2. /\ k \in members /\ c.op \in {"query", "named", "to"} /\ c.old = "no" /\ c \in MyConns
      /\ srv[k] \in Threads /\ Good(c, srv[k], want[k], live[k])
  BY <1>1, Awaited DEF Queries
<1>3. c.sent < Len(c.pending)
  BY <1>1, <1>2, StageIs
<1>4. cmd \in Points \cup {START, Write}
  BY <1>2, <1>3, PendingFacts
<1>5. t \in Threads
  BY <1>2, <1>4, ExecutedFacts DEF Good
<1> HIDE DEF t
<1>6. /\ d \in MyConns /\ ~d.fresh /\ d.inTrans = t.trx /\ d.pending = c.pending /\ d.op = c.op
      /\ d.sent = c.sent /\ d.to = c.to /\ d.old = c.old /\ d.proto = c.proto
  BY <1>2, <1>5, AnsweredFields
<1> HIDE DEF d
<1>7. /\ c2 \in MyConns /\ ~c2.fresh /\ c2.inTrans = t.trx /\ c2.pending = c.pending /\ c2.op = c.op
      /\ c2.sent = c.sent + 1 /\ c2.to = c.to /\ c2.old = c.old /\ c2.proto = c.proto
  BY <1>6 DEF MyConns
<1> HIDE DEF c2
<1>8. Good(c2, t, want[k], live[k])
  BY <1>1, <1>2, <1>3, <1>7, NextSent DEF t
<1>9. StepOf(k, c2, t, want[k], live[k])
  BY <1>1, <1>2, <1>a, OneOf DEF StepOf, c2, d
<1>10. QED
  BY <1>8, <1>9, OneConn

LEMMA PrepareKeeps ==
    ASSUME TrxInv, NEW k \in Conns, Prepare(k)
    PROVE  TrxInv'
<1> DEFINE c == conn[k]
           e == <<>>
           d == Answered(c, srv[k])
           c2 == [d EXCEPT !.stmt = TRUE, !.pending = e, !.sent = 0]
           s2 == [srv[k] EXCEPT !.stmt = TRUE]
<1>1. /\ Awaits(k, {"named"}) /\ c.proto /\ srv[k].alive /\ Stage(c) = "preparing"
      /\ UNCHANGED <<sess, members, want, live>>
      /\ conn' = [conn EXCEPT ![k] = c2] /\ srv' = [srv EXCEPT ![k] = s2]
  BY DEF Prepare, history
<1>2. /\ k \in members /\ c.op = "named" /\ c.old = "no" /\ c \in MyConns
      /\ srv[k] \in Threads /\ Good(c, srv[k], want[k], live[k])
  BY <1>1, Awaited
<1>3. ~(c.sent < Len(c.pending))
  BY <1>1, <1>2, StageIs
<1>4. e \in Seq(Points \cup {START}) /\ e = <<>>
  BY NoneOfType
<1>5. /\ d \in MyConns /\ ~d.fresh /\ d.inTrans = srv[k].trx /\ d.op = c.op /\ d.old = c.old /\ d.proto = c.proto
  BY <1>2, AnsweredFields
<1> HIDE DEF d, e
<1>6. /\ c2 \in MyConns /\ ~c2.fresh /\ c2.inTrans = srv[k].trx /\ c2.pending = <<>> /\ c2.op = "named"
      /\ c2.sent = 0 /\ c2.old = "no" /\ c2.proto
  BY <1>1, <1>2, <1>4, <1>5 DEF MyConns
<1>7. s2 \in Threads /\ s2.trx = srv[k].trx /\ s2.log = srv[k].log /\ s2.alive
  BY <1>1, <1>2 DEF Threads
<1> HIDE DEF c2, s2
<1>8. /\ want[k] => srv[k].trx /\ c.inTrans /\ c.proto
      /\ \A x \in live[k] : c.inTrans /\ \E a \in 1 .. Len(srv[k].log) : srv[k].log[a] = x
  BY <1>1, <1>2, <1>3, AllSent
<1>9. (live[k] # {} => want[k]) /\ (c.inTrans => srv[k].trx)
  BY <1>1, <1>2 DEF Good, Phases, Flags
<1>10. Typed(c2, s2, want[k], live[k]) /\ Flags(c2, s2, want[k]) /\ LogOnce(s2)
  BY <1>2, <1>6, <1>7 DEF Good, Typed, Flags, LogOnce, PointsOnce
<1>11. Good(c2, s2, want[k], live[k])
  BY <1>6, <1>7, <1>8, <1>9, <1>10, NonePending
<1>12. StepOf(k, c2, s2, want[k], live[k])
  BY <1>1, <1>2, OneOf DEF StepOf, c2, s2, d, e
<1>13. QED
  BY <1>11, <1>12, OneConn

LEMMA ExecuteKeeps ==
    ASSUME TrxInv, NEW k \in Conns, Execute(k)
    PROVE  TrxInv'
<1> DEFINE c == conn[k]
           e == <<>>
           s == srv[k]
           t == Executed(s, Write)
           d == Cleared(Answered(c, t))
           c2 == [d EXCEPT !.pending = e]
<1>1. /\ Awaits(k, {"query", "named"}) /\ c.proto /\ s.alive /\ Stage(c) = "executing"
      /\ UNCHANGED <<sess, members, want, live>>
      /\ conn' = [conn EXCEPT ![k] = c2] /\ srv' = [srv EXCEPT ![k] = t]
  BY DEF Execute, history
<1>2. /\ k \in members /\ c.op \in {"query", "named"} /\ c.old = "no" /\ c \in MyConns
      /\ s \in Threads /\ Good(c, s, want[k], live[k])
  BY <1>1, Awaited
<1>3. ~(c.sent < Len(c.pending))
  BY <1>1, <1>2, StageIs
<1>4. e \in Seq(Points \cup {START}) /\ e = <<>>
  BY NoneOfType
<1>5. t \in Threads /\ LogOnce(t) /\ t.alive = s.alive /\ t.trx = s.trx /\ (s.trx => t.log = Append(s.log, Write))
  BY <1>2, Names, ExecutedFacts DEF Good, Threads
<1> HIDE DEF t
<1>6. /\ d \in MyConns /\ ~d.fresh /\ d.inTrans = t.trx /\ d.op = "no" /\ d.sent = 0 /\ d.old = "no" /\ d.proto = c.proto
  BY <1>2, <1>5, AnsweredFields, ClearedFields
<1> HIDE DEF d, e
<1>7. /\ c2 \in MyConns /\ ~c2.fresh /\ c2.inTrans = t.trx /\ c2.pending = <<>> /\ c2.op = "no"
      /\ c2.sent = 0 /\ c2.old = "no" /\ c2.proto
  BY <1>1, <1>4, <1>6 DEF MyConns
<1> HIDE DEF c2
<1>8. /\ want[k] => s.trx /\ c.inTrans /\ c.proto
      /\ \A x \in live[k] : c.inTrans /\ \E a \in 1 .. Len(s.log) : s.log[a] = x
  BY <1>1, <1>2, <1>3, AllSent
<1>9. (live[k] # {} => want[k]) /\ (c.inTrans => s.trx)
  BY <1>1, <1>2 DEF Good, Phases, Flags
<1>10. ASSUME NEW x \in live[k]
       PROVE  c2.inTrans /\ \E a \in 1 .. Len(t.log) : t.log[a] = x
  <2>1. s.trx /\ s.log \in Seq(Points \cup {Write})
    BY <1>2, <1>8, <1>9 DEF Threads
  <2>2. PICK a \in 1 .. Len(s.log) : s.log[a] = x
    BY <1>8
  <2>3. a \in 1 .. Len(Append(s.log, Write)) /\ Append(s.log, Write)[a] = x
    BY <2>1, <2>2
  <2>4. QED
    BY <1>5, <1>7, <2>1, <2>3
<1>11. Typed(c2, t, want[k], live[k]) /\ Flags(c2, t, want[k])
  BY <1>1, <1>2, <1>5, <1>7 DEF Good, Typed, Flags
<1>12. Good(c2, t, want[k], live[k])
  BY <1>5, <1>7, <1>8, <1>9, <1>10, <1>11, NonePending
<1>13. StepOf(k, c2, t, want[k], live[k])
  BY <1>1, <1>2, OneOf DEF StepOf, c2, d, e
<1>14. QED
  BY <1>12, <1>13, OneConn

LEMMA ExecuteToKeeps ==
    ASSUME TrxInv, NEW k \in Conns, ExecuteTo(k)
    PROVE  TrxInv'
<1> DEFINE c == conn[k]
           x == c.to
           s == srv[k]
           l2 == IF x \in live[k] THEN Before(k, x) ELSE live[k]
           c2 == Cleared(c)
           t == RolledBackTo(s, x)
<1>1. /\ Awaits(k, {"to"}) /\ c.proto /\ s.alive /\ Stage(c) = "executing" /\ x \in Range(s.log)
      /\ UNCHANGED <<sess, members, want>>
      /\ conn' = [conn EXCEPT ![k] = c2] /\ srv' = [srv EXCEPT ![k] = t] /\ live' = [live EXCEPT ![k] = l2]
  BY DEF ExecuteTo
<1>2. /\ k \in members /\ c.op = "to" /\ c.old = "no" /\ c \in MyConns
      /\ s \in Threads /\ Good(c, s, want[k], live[k])
  BY <1>1, Awaited
<1>3. ~(c.sent < Len(c.pending))
  BY <1>1, <1>2, StageIs
<1>4. x \in Points /\ (want[k] => x \in live[k])
  <2>1. s.log \in Seq(Points \cup {Write}) /\ x \in Points \cup {START}
    BY <1>2 DEF Threads, MyConns
  <2>2. x \in Points \cup {Write}
    BY <1>1, <2>1, RangeIs
  <2>3. want[k] => x \in live[k]
    BY <1>2 DEF Good, Phases
  <2>4. QED
    BY <2>1, <2>2, <2>3, Names
<1>5. /\ c2 \in MyConns /\ c2.op = "no" /\ c2.sent = 0 /\ ~c2.fresh /\ c2.old = "no" /\ c2.pending = <<>>
      /\ c2.proto = c.proto /\ c2.inTrans = c.inTrans
  BY <1>2, ClearedFields
<1>6. l2 = IF x \in live[k] THEN BeforeIn(s.log \o c.pending, live[k], x) ELSE live[k]
  BY DEF Before, BeforeIn
<1> HIDE DEF c2, l2, t
<1>a. t = RolledBackTo(s, x) /\ s.alive /\ x \in Range(s.log)
  BY <1>1 DEF t
<1>7. Good(c2, t, want[k], l2)
  BY <1>2, <1>3, <1>4, <1>5, <1>6, <1>a, BackTo
<1>8. StepOf(k, c2, t, want[k], l2)
  BY <1>1, <1>2, OneOf DEF StepOf
<1>9. QED
  BY <1>7, <1>8, OneConn

\* The points that are left after a call to rollback(toPointId)
LEMMA BeforeIsLess == \A k, x : Before(k, x) \subseteq live[k]
BY DEF Before

LEMMA RefusedKeeps ==
    ASSUME TrxInv, NEW k \in Conns, Refused(k)
    PROVE  TrxInv'
<1> DEFINE c == conn[k]
           s == srv[k]
           sent == Stage(c) # "sending"
           e == IF sent THEN <<>> ELSE c.pending
           c2 == [Done(c) EXCEPT !.pending = e]
           l2 == IF c.op = "to" /\ c.to \in live[k] THEN Before(k, c.to) ELSE live[k]
<1>1. Awaits(k, Queries) /\ c.proto /\ s.alive /\ UNCHANGED <<sess, members, srv, want>>
  BY DEF Refused
<1>2. /\ k \in members /\ c.op \in {"query", "named", "to"} /\ c.old = "no" /\ c \in MyConns
      /\ s \in Threads /\ Good(c, s, want[k], live[k])
  BY <1>1, Awaited DEF Queries
<1>3. /\ Done(c) \in MyConns /\ Done(c).op = "no" /\ Done(c).sent = 0 /\ ~Done(c).fresh /\ Done(c).old = "no"
      /\ Done(c).proto = c.proto /\ Done(c).inTrans = c.inTrans /\ Done(c).pending = c.pending
  BY <1>2, DoneFields
<1>4. conn' = [conn EXCEPT ![k] = c2]
  BY <1>3 DEF Refused
<1>5. live' = [live EXCEPT ![k] = l2]
  <2>1. CASE c.op = "to" /\ c.to \in live[k]
    BY <2>1 DEF Refused
  <2>2. CASE ~(c.op = "to" /\ c.to \in live[k])
    <3>1. live' = live /\ l2 = live[k]
      BY <2>2 DEF Refused
    <3>2. QED
      BY <3>1, OneOf
  <2>3. QED
    BY <2>1, <2>2
<1>6. l2 \subseteq live[k]
  BY BeforeIsLess
<1>7. e \in Seq(Points \cup {START}) /\ (sent => e = <<>>) /\ (~sent => e = c.pending)
  BY <1>2, NoneOfType DEF MyConns
<1>8. (live[k] # {} => want[k]) /\ live[k] \subseteq Points /\ want[k] \in BOOLEAN
  BY <1>2, OneOf DEF Good, Phases
<1> HIDE DEF e, l2
<1>9. /\ c2 \in MyConns /\ c2.pending = e /\ c2.op = "no" /\ c2.sent = 0 /\ ~c2.fresh /\ c2.old = "no"
      /\ c2.proto = c.proto /\ c2.inTrans = c.inTrans
  BY <1>3, <1>7, PendingFields
<1> HIDE DEF c2
<1>10. Typed(c2, s, want[k], l2) /\ Flags(c2, s, want[k]) /\ LogOnce(s)
  BY <1>2, <1>6, <1>8, <1>9 DEF Good, Typed, Flags
<1>11. Good(c2, s, want[k], l2)
  <2>1. CASE sent
    <3>1. ~(c.sent < Len(c.pending))
      BY <1>2, <2>1, StageIs
    <3>2. /\ want[k] => s.trx
          /\ \A x \in live[k] : c.inTrans /\ \E a \in 1 .. Len(s.log) : s.log[a] = x
      BY <1>1, <1>2, <3>1, AllSent
    <3>3. c2.pending = <<>>
      BY <1>7, <1>9, <2>1
    <3>4. QED
      BY <1>6, <1>8, <1>9, <1>10, <3>2, <3>3, NonePending
  <2>2. CASE ~sent
    <3>1. c2.pending = c.pending /\ (l2 # {} => want[k])
      BY <1>6, <1>7, <1>8, <1>9, <2>2
    <3>2. QED
      BY <1>2, <1>6, <1>9, <1>10, <3>1, SamePending
  <2>3. QED
    BY <2>1, <2>2
<1>12. StepOf(k, c2, s, want[k], l2)
  BY <1>1, <1>2, <1>4, <1>5, OneOf DEF StepOf
<1>13. QED
  BY <1>11, <1>12, OneConn

LEMMA RetryKeeps ==
    ASSUME TrxInv, NEW k \in Conns, Retry(k)
    PROVE  TrxInv'
<1> DEFINE c == conn[k]
           s == srv[k]
           sending == Stage(c) = "sending"
           d == Ended(c, sending)
           c2 == [d EXCEPT !.sent = 0, !.retries = c.retries - 1]
<1>1. /\ Awaits(k, Queries) /\ c.fresh /\ c.retries > 0
      /\ UNCHANGED <<sess, members, srv, want, live>>
  BY DEF Retry, history
<1>2. /\ k \in members /\ c.op \in {"query", "named", "to"} /\ c.old = "no" /\ c \in MyConns
      /\ s \in Threads /\ Good(c, s, want[k], live[k])
  BY <1>1, Awaited DEF Queries
<1>3. sending \in BOOLEAN /\ c.retries - 1 \in 0 .. MaxRetries
  BY <1>1, <1>2, TrxAssumption DEF MyConns
<1>4. d.retries = c.retries
  BY <1>2 DEF Ended, MyConns
<1>5. conn' = [conn EXCEPT ![k] = c2]
  BY <1>4 DEF Retry
<1>6. /\ d \in MyConns /\ ~d.proto /\ ~d.fresh /\ ~d.inTrans /\ d.pending = (IF sending THEN c.pending ELSE <<>>)
      /\ d.op = c.op /\ d.to = c.to /\ d.old = c.old
  BY <1>2, <1>3, EndedFields
<1>7. (sending => d.pending = c.pending) /\ (~sending => d.pending = <<>>)
  BY <1>6
<1> HIDE DEF d
<1>8. /\ c2 \in MyConns /\ ~c2.proto /\ ~c2.fresh /\ ~c2.inTrans /\ c2.pending = d.pending
      /\ c2.op = c.op /\ c2.to = c.to /\ c2.old = "no" /\ c2.sent = 0
  BY <1>2, <1>3, <1>6 DEF MyConns
<1> HIDE DEF c2
<1>9. /\ ~s.trx /\ ~c.inTrans /\ (live[k] # {} => want[k]) /\ (c.op = "to" /\ want[k] => c.to \in live[k])
  BY <1>1, <1>2 DEF Good, Flags, Phases
<1>10. Typed(c2, s, want[k], live[k]) /\ Flags(c2, s, want[k]) /\ LogOnce(s)
  BY <1>2, <1>8, <1>9 DEF Good, Typed, Flags
<1>11. Good(c2, s, want[k], live[k])
  <2>1. CASE sending
    <3>1. c2.pending = c.pending /\ c2.inTrans = c.inTrans
      BY <1>2, <1>7, <1>8, <1>9, <2>1 DEF MyConns
    <3>2. QED
      BY <1>2, <1>8, <1>9, <1>10, <3>1, SamePending
  <2>2. CASE ~sending
    <3>1. ~(c.sent < Len(c.pending))
      BY <1>2, <2>2, StageIs
    <3>2. ~want[k] /\ live[k] = {} /\ c2.pending = <<>>
      BY <1>2, <1>7, <1>8, <1>9, <2>2, <3>1 DEF Good, Begins
    <3>3. QED
      BY <1>2, <1>8, <1>10, <3>2, NonePending
  <2>3. QED
    BY <2>1, <2>2
<1>12. StepOf(k, c2, s, want[k], live[k])
  BY <1>1, <1>2, <1>5, OneOf DEF StepOf
<1>13. QED
  BY <1>11, <1>12, OneConn

LEMMA BrokenKeeps ==
    ASSUME TrxInv, NEW k \in Conns, Broken(k)
    PROVE  TrxInv'
<1> DEFINE c == conn[k]
           s == srv[k]
           sending == Stage(c) = "sending"
           e == IF sending THEN c.pending ELSE <<>>
           c2 == [Done(c) EXCEPT !.pending = e]
           s2 == [s EXCEPT !.alive = FALSE]
<1>1. /\ Awaits(k, Queries) /\ c.proto /\ UNCHANGED <<sess, members>>
      /\ srv' = [srv EXCEPT ![k] = s2]
      /\ want' = [want EXCEPT ![k] = FALSE] /\ live' = [live EXCEPT ![k] = {}]
  BY DEF Broken
<1>2. /\ k \in members /\ c.op \in {"query", "named", "to"} /\ c.old = "no" /\ c \in MyConns
      /\ s \in Threads /\ Good(c, s, want[k], live[k])
  BY <1>1, Awaited DEF Queries
<1>3. /\ Done(c) \in MyConns /\ Done(c).op = "no" /\ Done(c).sent = 0 /\ ~Done(c).fresh /\ Done(c).old = "no"
      /\ Done(c).proto = c.proto /\ Done(c).inTrans = c.inTrans /\ Done(c).pending = c.pending
  BY <1>2, DoneFields
<1>4. conn' = [conn EXCEPT ![k] = c2]
  BY <1>3 DEF Broken
<1>5. e \in Seq(Points \cup {START}) /\ (~sending => e = <<>>) /\ (sending => e = c.pending)
  BY <1>2, NoneOfType DEF MyConns
<1>6. s2 \in Threads /\ ~s2.alive /\ s2.trx = s.trx /\ s2.log = s.log
  BY <1>2 DEF Threads
<1> HIDE DEF e, s2
<1>7. /\ c2 \in MyConns /\ c2.pending = e /\ c2.op = "no" /\ c2.sent = 0 /\ ~c2.fresh /\ c2.old = "no"
      /\ c2.proto = c.proto /\ c2.inTrans = c.inTrans
  BY <1>3, <1>5, PendingFields
<1> HIDE DEF c2
<1>8. Typed(c2, s2, FALSE, {}) /\ Flags(c2, s2, FALSE) /\ LogOnce(s2)
  BY <1>1, <1>2, <1>6, <1>7 DEF Good, Typed, Flags, LogOnce, PointsOnce
<1>9. Good(c2, s2, FALSE, {})
  <2>1. CASE sending
    <3>1. c2.pending = c.pending
      BY <1>5, <1>7, <2>1
    <3>2. QED
      BY <1>2, <1>6, <1>7, <1>8, <3>1, SamePending
  <2>2. CASE ~sending
    <3>1. c2.pending = <<>>
      BY <1>5, <1>7, <2>2
    <3>2. QED
      BY <1>7, <1>8, <3>1, NonePending
  <2>3. QED
    BY <2>1, <2>2
<1>10. StepOf(k, c2, s2, FALSE, {})
  BY <1>1, <1>2, <1>4, OneOf DEF StepOf
<1>11. QED
  BY <1>9, <1>10, OneConn

LEMMA TrxEndsKeeps ==
    ASSUME TrxInv, NEW k \in Conns, TrxEnds(k)
    PROVE  TrxInv'
<1> DEFINE c == conn[k]
           s == srv[k]
           chain == c.op \in {"commitChain", "chain"}
           e == <<>>
           t == Chained(s, chain)
           c2 == Cleared(Answered(c, t))
<1>1. /\ Awaits(k, {"commit", "commitChain", "rollback", "chain"}) /\ s.alive /\ UNCHANGED <<sess, members>>
      /\ conn' = [conn EXCEPT ![k] = c2] /\ srv' = [srv EXCEPT ![k] = t]
      /\ want' = [want EXCEPT ![k] = chain] /\ live' = [live EXCEPT ![k] = {}]
  BY DEF TrxEnds
<1>2. /\ k \in members /\ c.old = "no" /\ c \in MyConns /\ s \in Threads /\ Good(c, s, want[k], live[k])
      /\ c.op \in {"commit", "commitChain", "rollback", "chain"}
  BY <1>1, Awaited
<1>3. chain \in BOOLEAN /\ e \in Seq(Points \cup {Write}) /\ e = <<>> /\ t = [s EXCEPT !.trx = chain, !.log = e]
  BY NoneOfType DEF Chained
<1> HIDE DEF chain, e, t
<1>4. t \in Threads /\ t.trx = chain /\ t.log = <<>> /\ t.alive = s.alive
  BY <1>2, <1>3 DEF Threads
<1>a. Answered(c, t) \in MyConns /\ Answered(c, t).proto = c.proto /\ Answered(c, t).inTrans = t.trx
  BY <1>2, <1>4, AnsweredFields
<1>5. /\ c2 \in MyConns /\ c2.op = "no" /\ c2.sent = 0 /\ ~c2.fresh /\ c2.old = "no" /\ c2.pending = <<>>
      /\ c2.proto = c.proto /\ c2.inTrans = t.trx
  BY <1>a, ClearedFields
<1>6. c.proto
  BY <1>2 DEF Good, Phases
<1> HIDE DEF c2
<1>7. Typed(c2, t, chain, {}) /\ Flags(c2, t, chain) /\ LogOnce(t)
  BY <1>1, <1>3, <1>4, <1>5, <1>6, NoneOfType DEF Typed, Flags, LogOnce, PointsOnce
<1>8. Good(c2, t, chain, {})
  BY <1>4, <1>5, <1>7, NonePending
<1>9. StepOf(k, c2, t, chain, {})
  BY <1>1, <1>2 DEF StepOf
<1>10. QED
  BY <1>8, <1>9, OneConn

LEMMA TrxFailsKeeps ==
    ASSUME TrxInv, NEW k \in Conns, TrxFails(k)
    PROVE  TrxInv'
<1> DEFINE c == conn[k]
           chain == c.op = "chain"
           d == Ended(c, FALSE)
           c1 == Done(d)
           c2 == IF chain THEN Started(c1) ELSE c1
<1>1. /\ Awaits(k, {"commit", "commitChain", "rollback", "chain"}) /\ UNCHANGED <<sess, members>>
      /\ conn' = [conn EXCEPT ![k] = c2] /\ srv' = [srv EXCEPT ![k] = NewThread]
      /\ want' = [want EXCEPT ![k] = chain] /\ live' = [live EXCEPT ![k] = {}]
  BY DEF TrxFails
<1>2. k \in members /\ c \in MyConns
  BY <1>1, Awaited
<1>3. d \in MyConns /\ ~d.proto /\ ~d.inTrans /\ d.pending = <<>>
  BY <1>2, EndedFields
<1> HIDE DEF d
<1>4. /\ c1 \in MyConns /\ c1.op = "no" /\ c1.sent = 0 /\ ~c1.fresh /\ c1.old = "no"
      /\ c1.proto = d.proto /\ c1.inTrans = d.inTrans /\ c1.pending = d.pending
  BY <1>3, DoneFields
<1> HIDE DEF c1
<1>5. chain \in BOOLEAN /\ LogOnce(NewThread)
  BY NewFields, NoneOfType DEF LogOnce, PointsOnce
<1>6. Good(c2, NewThread, chain, {})
  <2>1. CASE chain
    <3>1. /\ c2 \in MyConns /\ Len(c2.pending) = 1 /\ c2.pending[1] = START /\ c2.op = "no" /\ c2.sent = 0
          /\ ~c2.proto /\ ~c2.inTrans /\ ~c2.fresh /\ c2.old = "no"
      BY <1>3, <1>4, <2>1, StartedFields
    <3> HIDE DEF c2
    <3>2. Typed(c2, NewThread, TRUE, {}) /\ Flags(c2, NewThread, TRUE)
      BY <3>1, NewFields DEF Typed, Flags
    <3>3. Good(c2, NewThread, TRUE, {})
      BY <1>5, <3>1, <3>2, StartPending
    <3>4. QED
      BY <2>1, <3>3
  <2>2. CASE ~chain
    <3>1. /\ c2 \in MyConns /\ c2.pending = <<>> /\ c2.op = "no" /\ c2.sent = 0
          /\ ~c2.proto /\ ~c2.inTrans /\ ~c2.fresh /\ c2.old = "no"
      BY <1>3, <1>4, <2>2
    <3> HIDE DEF c2
    <3>2. Typed(c2, NewThread, FALSE, {}) /\ Flags(c2, NewThread, FALSE)
      BY <3>1, NewFields DEF Typed, Flags
    <3>3. Good(c2, NewThread, FALSE, {})
      BY <1>5, <3>1, <3>2, NonePending
    <3>4. QED
      BY <2>2, <3>3
  <2>3. QED
    BY <2>1, <2>2
<1> HIDE DEF c2, chain
<1>7. StepOf(k, c2, NewThread, chain, {})
  BY <1>1, <1>2 DEF StepOf
<1>8. QED
  BY <1>6, <1>7, OneConn

-----------------------------------------------------------------------------
(* The theorems.                                                           *)

LEMMA TrxInit == Init => TrxInv
<1> SUFFICES ASSUME Init
             PROVE  TrxInv
  OBVIOUS
<1>1. /\ conn = [k \in Conns |-> NewConn] /\ srv = [k \in Conns |-> NewThread]
      /\ want = [k \in Conns |-> FALSE] /\ live = [k \in Conns |-> {}] /\ members = {}
      /\ sess = [on |-> FALSE, enum |-> 0]
  BY DEF Init
<1>2. sess \in [on : BOOLEAN, enum : 0 .. MaxPoints]
  BY <1>1, TrxAssumption
<1>3. NewConn \in MyConns /\ NewThread \in Threads /\ Good(NewConn, NewThread, FALSE, {})
  BY NewFields, NewGood
<1>4. QED
  BY <1>1, <1>2, <1>3 DEF TrxInv

LEMMA TrxNext ==
    ASSUME Usage, TrxInv, [Next]_vars
    PROVE  TrxInv'
<1>1. CASE StartTrx
  BY <1>1, StartTrxKeeps
<1>2. CASE SessionSavepoint
  BY <1>2, SessionSavepointKeeps
<1>3. ASSUME NEW x \in Points, SessionRollbackTo(x)
      PROVE  TrxInv'
  BY <1>3, SessionRollbackToKeeps
<1>4. ASSUME NEW b \in BOOLEAN, Rollback(b)
      PROVE  TrxInv'
  BY <1>4, RollbackKeeps
<1>5. ASSUME NEW k \in Conns, SessionConn(k) \/ Savepoint(k) \/ End(k)
      PROVE  TrxInv'
  BY <1>5, SessionConnKeeps, SavepointKeeps, EndKeeps
<1>6. ASSUME NEW k \in Conns, Query(k, "query") \/ Query(k, "named")
      PROVE  TrxInv'
  BY <1>6, QueryKeeps
<1>7. ASSUME NEW k \in Conns, NEW x \in Points, RollbackTo(k, x)
      PROVE  TrxInv'
  BY <1>7, RollbackToKeeps
<1>8. ASSUME NEW k \in Conns, NEW b \in BOOLEAN, Commit(k, b)
      PROVE  TrxInv'
  BY <1>8, CommitKeeps
<1>9. ASSUME NEW k \in Conns, OldReturns(k) \/ Connect(k) \/ SendPending(k) \/ Prepare(k)
      PROVE  TrxInv'
  BY <1>9, OldReturnsKeeps, ConnectKeeps, SendPendingKeeps, PrepareKeeps
<1>10. ASSUME NEW k \in Conns, Execute(k) \/ ExecuteTo(k) \/ Refused(k)
       PROVE  TrxInv'
  BY <1>10, ExecuteKeeps, ExecuteToKeeps, RefusedKeeps
<1>11. ASSUME NEW k \in Conns, Retry(k) \/ Broken(k) \/ TrxEnds(k) \/ TrxFails(k)
       PROVE  TrxInv'
  BY <1>11, RetryKeeps, BrokenKeeps, TrxEndsKeeps, TrxFailsKeeps
<1>12. CASE UNCHANGED vars
  BY <1>12 DEF vars, TrxInv
<1>13. QED
  BY <1>1, <1>2, <1>3, <1>4, <1>5, <1>6, <1>7, <1>8, <1>9, <1>10, <1>11, <1>12 DEF Next

\* What is in the part of the pending commands that is still to be sent
LEMMA UnsentIs ==
    ASSUME TrxInv, NEW k \in Conns, conn[k].old = "no"
    PROVE  /\ \A x : x \in Range(Unsent(k)) <=>
                        \E i \in 1 .. Len(conn[k].pending) : i > conn[k].sent /\ conn[k].pending[i] = x
           /\ conn[k].sent < Len(conn[k].pending) =>
                 Unsent(k) # <<>> /\ Unsent(k)[1] = conn[k].pending[conn[k].sent + 1]
<1> DEFINE c == conn[k]
           q == c.pending
           n == Len(q)
           m == c.sent
           u == Unsent(k)
           S == Points \cup {START}
<1>1. q \in Seq(S) /\ n \in Nat /\ m \in Nat /\ m <= n /\ \A i \in 1 .. n : q[i] \in S
  BY OneOf, PendingFacts DEF Good, Phases
<1>2. u \in Seq(S) /\ Len(u) = n - m /\ \A i \in 1 .. n - m : u[i] = q[m + i]
  <2>1. u = SubSeq(q, m + 1, n) /\ \A i \in m + 1 .. n : q[i] \in S
    BY <1>1 DEF Unsent
  <2> HIDE DEF u, q, n, m, S
  <2>2. CASE m + 1 <= n + 1
    <3>1. \A i \in 1 .. n - m : u[i] = q[(m + 1) + i - 1]
      BY <1>1, <2>1, SubSeqProperties
    <3>2. u \in Seq(S) /\ Len(u) = n - m
      BY <1>1, <2>1, SubSeqProperties
    <3>3. QED
      BY <1>1, <3>1, <3>2
  <2>3. QED
    BY <1>1, <2>2
<1> HIDE DEF u, q, n, m, S
<1>3. ASSUME NEW x
      PROVE  x \in Range(u) <=> \E i \in 1 .. n : i > m /\ q[i] = x
  <2>1. x \in Range(u) <=> \E a \in 1 .. n - m : u[a] = x
    BY <1>2, RangeIs
  <2>2. ASSUME NEW a \in 1 .. n - m, u[a] = x
        PROVE  \E i \in 1 .. n : i > m /\ q[i] = x
    <3>1. m + a \in 1 .. n /\ m + a > m
      BY <1>1
    <3>2. QED
      BY <1>2, <2>2, <3>1
  <2>3. ASSUME NEW i \in 1 .. n, i > m, q[i] = x
        PROVE  \E a \in 1 .. n - m : u[a] = x
    <3>1. i - m \in 1 .. n - m /\ m + (i - m) = i
      BY <1>1, <2>3
    <3>2. QED
      BY <1>2, <2>3, <3>1
  <2>4. QED
    BY <2>1, <2>2, <2>3
<1>4. m < n => u # <<>> /\ u[1] = q[m + 1]
  BY <1>1, <1>2
<1>5. QED
  BY <1>3, <1>4 DEF u, q, n, m

LEMMA TrxBeginsHolds == TrxInv => TrxBegins
<1> SUFFICES ASSUME TrxInv, NEW k \in Conns, want[k], conn[k].old = "no", ~(conn[k].proto /\ srv[k].trx)
             PROVE  Unsent(k) # <<>> /\ Unsent(k)[1] = START
  BY DEF TrxBegins
<1>1. ~srv[k].trx
  BY OneOf DEF Good, Flags
<1>2. conn[k].sent < Len(conn[k].pending) /\ conn[k].pending[conn[k].sent + 1] = START
  BY <1>1, OneOf DEF Good, Begins
<1>3. QED
  BY <1>2, UnsentIs

LEMMA PointsStayHolds == TrxInv => PointsStay
<1> SUFFICES ASSUME TrxInv, NEW k \in Conns, NEW x \in live[k], PendingAt(conn[k], x) = {}
             PROVE  /\ InTrans(conn[k])
                    /\ x \in Range(Unsent(k)) \/ (x \in Range(srv[k].log) /\ START \notin Range(Unsent(k)))
  BY DEF PointsStay
<1> DEFINE c == conn[k]
           s == srv[k]
           q == c.pending
           n == Len(q)
<1>1. Good(c, s, want[k], live[k]) /\ c \in MyConns /\ s \in Threads /\ x \in Points /\ want[k]
  BY OneOf DEF Good, Phases
<1>2. /\ q \in Seq(Points \cup {START}) /\ n \in Nat /\ c.sent \in Nat /\ c.old = "no"
      /\ \A i \in 1 .. n : q[i] \in Points \cup {START}
  BY <1>1, PendingFacts DEF Good, Phases
<1>3. c.inTrans
  <2> SUFFICES ASSUME ~c.inTrans
               PROVE  FALSE
    OBVIOUS
  <2>1. PICK i \in 1 .. n : q[i] = x
    BY <1>1 DEF Good, Kept
  <2>2. \A j \in 1 .. n : q[j] = START => j = 1
    BY <1>1 DEF Good, Begins
  <2>3. \A j \in i .. n : j \in 1 .. n /\ q[j] # START
    <3>1. ASSUME NEW j \in i .. n
          PROVE  j \in 1 .. n /\ q[j] # START
      <4>1. j \in 1 .. n /\ (j = 1 => i = 1)
        BY <1>2
      <4>2. q[j] # START
        BY <1>1, <2>1, <2>2, <4>1, Names
      <4>3. QED
        BY <4>1, <4>2
    <3>2. QED
      BY <3>1
  <2>4. \A j \in i .. n : q[j][1] = x[1]
    BY <1>1, <2>1, <2>3, Names DEF Good, OneKind
  <2>5. i \in PendingAt(c, x)
    BY <1>2, <2>1, <2>4 DEF PendingAt
  <2>6. QED
    BY <2>5
<1>4. c.proto /\ s.alive /\ s.trx
  BY <1>1, <1>3 DEF Good, Flags, MyConns, Threads
<1>5. x \in Range(Unsent(k)) <=> \E i \in 1 .. n : i > c.sent /\ q[i] = x
  BY <1>2, UnsentIs
<1>6. CASE \E i \in 1 .. n : i > c.sent /\ q[i] = x
  BY <1>3, <1>4, <1>5, <1>6 DEF InTrans
<1>7. CASE ~ \E i \in 1 .. n : i > c.sent /\ q[i] = x
  <2>1. \E a \in 1 .. Len(s.log) : s.log[a] = x
    <3>1. CASE \E i \in 1 .. n : q[i] = x
      <4>1. PICK i \in 1 .. n : q[i] = x
        BY <3>1
      <4>2. i \in 1 .. c.sent
        BY <1>2, <1>7, <4>1
      <4>3. QED
        BY <1>1, <1>2, <1>4, <4>1, <4>2, Names DEF Good, InLog
    <3>2. CASE ~ \E i \in 1 .. n : q[i] = x
      BY <1>1, <3>2 DEF Good, Kept
    <3>3. QED
      BY <3>1, <3>2
  <2>2. x \in Range(s.log)
    BY <1>1, <2>1, RangeIs DEF Threads
  <2>3. ASSUME NEW i \in 1 .. n, i > c.sent, q[i] = START
        PROVE  FALSE
    <3>1. i = 1 /\ c.sent = 0
      BY <1>1, <1>2, <2>3 DEF Good, Begins
    <3>2. CASE \E j \in 1 .. n : q[j] = x
      BY <1>2, <1>7, <3>1, <3>2
    <3>3. CASE ~ \E j \in 1 .. n : q[j] = x
      BY <1>1, <2>3, <3>3 DEF Good, Kept
    <3>4. QED
      BY <3>2, <3>3
  <2>4. START \notin Range(Unsent(k))
    BY <1>2, <2>3, UnsentIs
  <2>5. QED
    BY <1>3, <1>4, <2>2, <2>4 DEF InTrans
<1>8. QED
  BY <1>6, <1>7

\* While the application believes to be in a transaction, the server is in it or is
\* going to be before any other command is sent (startTrx() is lazy, and a dead pooled
\* connection is replaced with all the pending commands sent again); and the points
\* that it may roll back to stay where rollback(toPointId) finds them.
THEOREM TransactionStays == ASSUME Usage PROVE Spec => []TrxNotLost
<1>1. TrxInv => TrxNotLost
  BY TrxBeginsHolds, PointsStayHolds DEF TrxNotLost
<1>2. TrxInv /\ [Next]_vars => TrxInv'
  BY TrxNext
<1>3. QED
  BY <1>1, <1>2, TrxInit, PTL DEF Spec

-----------------------------------------------------------------------------
(* Prepared statements die with their connection.                          *)

\* No id of a statement outlives the protocol, and no end() came during PREPARE.
StmtOf(c, s) ==
    /\ c.stmt => c.proto /\ c.old = "no" /\ (s.alive => s.stmt)
    /\ c.old # "preparing"

StmtInv == \A k \in Conns : StmtOf(conn[k], srv[k])

\* Nothing becomes of the statement, or it is forgotten.
LEMMA StmtStays ==
    ASSUME NEW c, NEW s, StmtOf(c, s), NEW c2, NEW s2, c2.old \in {"no", c.old},
           ~c2.stmt \/ (c2.stmt = c.stmt /\ c2.proto = c.proto /\ s2.stmt = s.stmt /\ (s2.alive => s.alive))
    PROVE  StmtOf(c2, s2)
BY DEF StmtOf

\* A step of one connection
LEMMA OneStmt ==
    ASSUME TrxInv, StmtInv, NEW k \in Conns, NEW c2, NEW s2,
           conn' = [conn EXCEPT ![k] = c2], srv' = [srv EXCEPT ![k] = s2], StmtOf(c2, s2)
    PROVE  StmtInv'
<1>1. conn'[k] = c2 /\ srv'[k] = s2
  BY DEF TrxInv
<1>2. \A j \in Conns \ {k} : conn'[j] = conn[j] /\ srv'[j] = srv[j]
  BY DEF TrxInv
<1>3. QED
  BY <1>1, <1>2 DEF StmtInv

\* A step that only touches what is pending, or what is awaited
LEMMA StmtUntouched ==
    ASSUME StmtInv, srv' = srv,
           \A k \in Conns : /\ conn'[k].stmt = conn[k].stmt /\ conn'[k].proto = conn[k].proto
                            /\ conn'[k].old \in {"no", conn[k].old}
    PROVE  StmtInv'
<1>1. ASSUME NEW k \in Conns
      PROVE  StmtOf(conn'[k], srv'[k])
  BY StmtStays DEF StmtInv
<1>2. QED
  BY <1>1 DEF StmtInv

\* The fields that StmtOf is about
SameStmt(d, c) == d.stmt = c.stmt /\ d.proto = c.proto /\ d.old \in {"no", c.old}

LEMMA SameFields ==
    ASSUME NEW c \in MyConns
    PROVE  /\ SameStmt(Started(c), c) /\ SameStmt(Cleared(c), c) /\ SameStmt(Done(c), c) /\ SameStmt(c, c)
           /\ \A op \in Ops, x \in Points \cup {START} : SameStmt(Called(c, op, x), c)
           /\ \A e : SameStmt([c EXCEPT !.pending = e], c)
           /\ \A t \in Threads : Answered(c, t) \in MyConns /\ SameStmt(Answered(c, t), c)
<1>1. SameStmt(Started(c), c) /\ SameStmt(Cleared(c), c) /\ SameStmt(Done(c), c) /\ SameStmt(c, c)
  BY StartedFields, ClearedFields, DoneFields DEF SameStmt
<1>2. \A op \in Ops, x \in Points \cup {START} : SameStmt(Called(c, op, x), c)
  BY CalledFields DEF SameStmt
<1>3. \A e : SameStmt([c EXCEPT !.pending = e], c)
  BY DEF SameStmt, MyConns
<1>4. \A t \in Threads : Answered(c, t) \in MyConns /\ SameStmt(Answered(c, t), c)
  BY AnsweredFields DEF SameStmt
<1>5. QED
  BY <1>1, <1>2, <1>3, <1>4

LEMMA RollbackToSame ==
    ASSUME NEW k, conn[k] \in MyConns, NEW x \in Points
    PROVE  SameStmt(ConnRollbackTo(k, x), conn[k])
<1> DEFINE e == SubSeq(conn[k].pending, 1, Max(PendingAt(conn[k], x)) - 1)
<1>1. ConnRollbackTo(k, x) \in {[conn[k] EXCEPT !.pending = e], Called(conn[k], "to", x), conn[k]}
  BY DEF ConnRollbackTo
<1> HIDE DEF e
<1>2. QED
  BY <1>1, SameFields DEF Ops

LEMMA StmtManyConns ==
    ASSUME TrxInv, StmtInv, srv' = srv, \A k \in Conns : SameStmt(conn'[k], conn[k])
    PROVE  StmtInv'
BY StmtUntouched DEF SameStmt

\* The calls, but for end()
LEMMA StmtCalls ==
    ASSUME TrxInv, StmtInv
    PROVE  /\ StartTrx => StmtInv'
           /\ SessionSavepoint => StmtInv'
           /\ \A x \in Points : SessionRollbackTo(x) => StmtInv'
           /\ \A b \in BOOLEAN : Rollback(b) => StmtInv'
           /\ \A k \in Conns : \A b \in BOOLEAN : Commit(k, b) => StmtInv'
           /\ \A k \in Conns : \A x \in Points : RollbackTo(k, x) => StmtInv'
           /\ \A k \in Conns : SessionConn(k) \/ Savepoint(k) => StmtInv'
           /\ \A k \in Conns : Query(k, "query") \/ Query(k, "named") => StmtInv'
<1>0. \A k \in Conns : conn[k] \in MyConns
  BY DEF TrxInv
<1>1. ASSUME StartTrx
      PROVE  StmtInv'
  <2>1. srv' = srv /\ \A k \in Conns : conn'[k] = Started(conn[k]) \/ conn'[k] = conn[k]
    BY <1>1 DEF StartTrx
  <2>2. QED
    BY <1>0, <2>1, SameFields, StmtManyConns
<1>2. ASSUME SessionSavepoint
      PROVE  StmtInv'
  <2> DEFINE x == <<"s", sess.enum + 1>>
  <2>1. srv' = srv /\ \A k \in Conns : \/ conn'[k] = [conn[k] EXCEPT !.pending = Append(conn[k].pending, x)]
                                       \/ conn'[k] = conn[k]
    BY <1>2 DEF SessionSavepoint
  <2>2. QED
    BY <1>0, <2>1, SameFields, StmtManyConns
<1>3. ASSUME NEW x \in Points, SessionRollbackTo(x)
      PROVE  StmtInv'
  <2>1. srv' = srv /\ \A k \in Conns : conn'[k] = ConnRollbackTo(k, x) \/ conn'[k] = conn[k]
    BY <1>3 DEF SessionRollbackTo
  <2>2. QED
    BY <1>0, <2>1, SameFields, RollbackToSame, StmtManyConns
<1>4. ASSUME NEW K, NEW op \in Ops, NEW b, EndTrx(K, op, b)
      PROVE  StmtInv'
  <2>1. srv' = srv /\ \A k \in Conns : conn'[k] \in {Called(conn[k], op, START), Cleared(conn[k]), conn[k]}
    BY <1>4 DEF EndTrx
  <2>2. QED
    BY <1>0, <2>1, SameFields, StmtManyConns
<1>5. ASSUME NEW b \in BOOLEAN, Rollback(b)
      PROVE  StmtInv'
  BY <1>4, <1>5 DEF Rollback, Ops
<1>6. ASSUME NEW k \in Conns, NEW b \in BOOLEAN, Commit(k, b)
      PROVE  StmtInv'
  BY <1>4, <1>6 DEF Commit, Ops
<1>7. ASSUME NEW k \in Conns, NEW x \in Points, RollbackTo(k, x)
      PROVE  StmtInv'
  <2>1. srv' = srv /\ \A j \in Conns : conn'[j] = ConnRollbackTo(j, x) \/ conn'[j] = conn[j]
    BY <1>7 DEF RollbackTo, TrxInv
  <2>2. QED
    BY <1>0, <2>1, SameFields, RollbackToSame, StmtManyConns
<1>8. ASSUME NEW k \in Conns, SessionConn(k)
      PROVE  StmtInv'
  <2> DEFINE e == (IF sess.on THEN <<START>> ELSE <<>>) \o [i \in 1 .. sess.enum |-> <<"s", i>>]
  <2>1. srv' = srv /\ conn' = [conn EXCEPT ![k] = [conn[k] EXCEPT !.pending = e]]
    BY <1>8 DEF SessionConn
  <2> HIDE DEF e
  <2>2. \A j \in Conns : conn'[j] = [conn[j] EXCEPT !.pending = e] \/ conn'[j] = conn[j]
    BY <2>1 DEF TrxInv
  <2>3. QED
    BY <1>0, <2>1, <2>2, SameFields, StmtManyConns
<1>9. ASSUME NEW k \in Conns, Savepoint(k)
      PROVE  StmtInv'
  <2> DEFINE e == Append(conn[k].pending, <<"p", conn[k].enum + 1>>)
             n == conn[k].enum + 1
  <2>1. srv' = srv /\ conn' = [conn EXCEPT ![k] = [conn[k] EXCEPT !.enum = n, !.pending = e]]
    BY <1>9 DEF Savepoint
  <2> HIDE DEF e, n
  <2>2. conn'[k] = [conn[k] EXCEPT !.enum = n, !.pending = e] /\ \A j \in Conns \ {k} : conn'[j] = conn[j]
    BY <2>1 DEF TrxInv
  <2>3. SameStmt(conn'[k], conn[k])
    BY <1>0, <2>2 DEF SameStmt, MyConns
  <2>4. \A j \in Conns \ {k} : SameStmt(conn'[j], conn[j])
    BY <1>0, <2>2, SameFields
  <2>5. QED
    BY <2>1, <2>3, <2>4, StmtManyConns
<1>10. ASSUME NEW k \in Conns, NEW op \in {"query", "named"}, Query(k, op)
       PROVE  StmtInv'
  <2>1. srv' = srv /\ conn' = [conn EXCEPT ![k] = Called(conn[k], op, START)]
    BY <1>10 DEF Query
  <2>2. \A j \in Conns : conn'[j] = Called(conn[j], op, START) \/ conn'[j] = conn[j]
    BY <2>1 DEF TrxInv
  <2>3. op \in Ops
    BY DEF Ops
  <2>4. QED
    BY <1>0, <2>1, <2>2, <2>3, SameFields, StmtManyConns
<1>11. QED
  BY <1>1, <1>2, <1>3, <1>5, <1>6, <1>7, <1>8, <1>9, <1>10

\* end(), and the continuations
LEMMA StmtEnds ==
    ASSUME TrxInv, StmtInv, NEW k \in Conns, "endInPrepare" \notin Allows
    PROVE  End(k) \/ Retry(k) \/ Broken(k) \/ TrxEnds(k) \/ TrxFails(k) => StmtInv'
<1> DEFINE c == conn[k]
           s == srv[k]
<1>0. c \in MyConns /\ s \in Threads /\ StmtOf(c, s) /\ srv = [srv EXCEPT ![k] = s]
  BY DEF TrxInv, StmtInv
<1>1. ASSUME End(k)
      PROVE  StmtInv'
  <2> DEFINE st == IF c.op = "no" THEN "no" ELSE Stage(c)
             d == Ended(c, FALSE)
             c2 == [d EXCEPT !.old = st]
  <2>1. conn' = [conn EXCEPT ![k] = c2] /\ srv' = [srv EXCEPT ![k] = NewThread] /\ st # "preparing"
    BY <1>1 DEF End
  <2>2. d \in MyConns /\ ~d.stmt /\ st \in {"no", "sending", "preparing", "executing"}
    BY <1>0, EndedFields, Stages
  <2> HIDE DEF d, st
  <2>3. ~c2.stmt /\ c2.old = st
    BY <2>2, OldFields
  <2>4. StmtOf(c2, NewThread)
    BY <2>1, <2>3 DEF StmtOf
  <2> HIDE DEF c2
  <2>5. QED
    BY <2>1, <2>4, OneStmt
<1>2. ASSUME Retry(k)
      PROVE  StmtInv'
  <2> DEFINE d == Ended(c, Stage(c) = "sending")
             c2 == [d EXCEPT !.sent = 0, !.retries = d.retries - 1]
  <2>1. conn' = [conn EXCEPT ![k] = c2] /\ srv' = [srv EXCEPT ![k] = s] /\ c.old = "no"
    BY <1>0, <1>2 DEF Retry, Awaits
  <2>2. d \in MyConns /\ ~d.stmt /\ d.old = c.old
    BY <1>0, EndedFields
  <2> HIDE DEF d
  <2>3. ~c2.stmt /\ c2.old = "no"
    BY <2>1, <2>2 DEF MyConns
  <2>4. StmtOf(c2, s)
    BY <2>3 DEF StmtOf
  <2> HIDE DEF c2
  <2>5. QED
    BY <2>1, <2>4, OneStmt
<1>3. ASSUME Broken(k)
      PROVE  StmtInv'
  <2> DEFINE d == Done(c)
             e == IF Stage(c) = "sending" THEN d.pending ELSE <<>>
             c2 == [d EXCEPT !.pending = e]
             s2 == [s EXCEPT !.alive = FALSE]
  <2>1. conn' = [conn EXCEPT ![k] = c2] /\ srv' = [srv EXCEPT ![k] = s2]
    BY <1>3 DEF Broken
  <2>2. d \in MyConns /\ SameStmt(d, c) /\ SameStmt(c2, d)
    BY <1>0, DoneFields, SameFields
  <2>3. s2.stmt = s.stmt /\ ~s2.alive
    BY <1>0 DEF Threads
  <2> HIDE DEF d, c2, s2
  <2>4. StmtOf(c2, s2)
    BY <1>0, <2>2, <2>3 DEF StmtOf, SameStmt
  <2>5. QED
    BY <2>1, <2>4, OneStmt
<1>4. ASSUME TrxEnds(k)
      PROVE  StmtInv'
  <2> DEFINE chain == c.op \in {"commitChain", "chain"}
             e == <<>>
             t == [s EXCEPT !.trx = chain, !.log = e]
             d == Answered(c, t)
             c2 == Cleared(d)
  <2>1. conn' = [conn EXCEPT ![k] = c2] /\ srv' = [srv EXCEPT ![k] = t]
    BY <1>4 DEF TrxEnds, Chained
  <2>2. chain \in BOOLEAN /\ e \in Seq(Points \cup {Write})
    BY NoneOfType
  <2> HIDE DEF chain, e
  <2>3. t \in Threads /\ t.stmt = s.stmt /\ t.alive = s.alive
    BY <1>0, <2>2 DEF Threads
  <2> HIDE DEF t
  <2>4. d \in MyConns /\ SameStmt(d, c) /\ SameStmt(c2, d)
    BY <1>0, <2>3, SameFields
  <2> HIDE DEF d, c2
  <2>5. StmtOf(c2, t)
    BY <1>0, <2>3, <2>4, StmtStays DEF SameStmt
  <2>6. QED
    BY <2>1, <2>5, OneStmt
<1>5. ASSUME TrxFails(k)
      PROVE  StmtInv'
  <2> DEFINE d == Ended(c, FALSE)
             f == Done(d)
             c2 == IF c.op = "chain" THEN Started(f) ELSE f
  <2>1. conn' = [conn EXCEPT ![k] = c2] /\ srv' = [srv EXCEPT ![k] = NewThread]
    BY <1>5 DEF TrxFails
  <2>2. d \in MyConns /\ ~d.stmt
    BY <1>0, EndedFields
  <2> HIDE DEF d
  <2>3. f \in MyConns /\ ~f.stmt /\ f.old = "no"
    BY <2>2, DoneFields
  <2> HIDE DEF f
  <2>4. ~c2.stmt /\ c2.old = "no"
    BY <2>3, StartedFields
  <2>5. StmtOf(c2, NewThread)
    BY <2>4 DEF StmtOf
  <2> HIDE DEF c2
  <2>6. QED
    BY <2>1, <2>5, OneStmt
<1>6. QED
  BY <1>1, <1>2, <1>3, <1>4, <1>5

LEMMA StmtContinues ==
    ASSUME TrxInv, StmtInv, NEW k \in Conns
    PROVE  /\ OldReturns(k) \/ Connect(k) \/ SendPending(k) \/ Prepare(k) => StmtInv'
           /\ Execute(k) \/ ExecuteTo(k) \/ Refused(k) => StmtInv'
<1> DEFINE c == conn[k]
           s == srv[k]
<1>0. c \in MyConns /\ s \in Threads /\ StmtOf(c, s) /\ srv = [srv EXCEPT ![k] = s] /\ LogOnce(s)
  BY DEF TrxInv, StmtInv, Good
<1>1. ASSUME OldReturns(k)
      PROVE  StmtInv'
  <2> DEFINE d == Done(c)
             e == IF c.old = "sending" /\ Len(d.pending) <= c.sent + 1 THEN <<>> ELSE d.pending
             b == d.stmt \/ c.old = "preparing"
             c2 == [d EXCEPT !.pending = e, !.stmt = b]
  <2>1. conn' = [conn EXCEPT ![k] = c2] /\ srv' = [srv EXCEPT ![k] = s] /\ c.old # "no"
    BY <1>0, <1>1 DEF OldReturns
  <2>2. d \in MyConns /\ d.stmt = c.stmt /\ d.old = "no"
    BY <1>0, DoneFields
  <2>3. ~b
    BY <1>0, <2>1, <2>2 DEF StmtOf
  <2>a. b \in BOOLEAN
    BY <2>2 DEF MyConns
  <2> HIDE DEF d, e, b
  <2>4. ~c2.stmt /\ c2.old = "no"
    BY <2>2, <2>3, <2>a DEF MyConns
  <2>5. StmtOf(c2, s)
    BY <2>4 DEF StmtOf
  <2> HIDE DEF c2
  <2>6. QED
    BY <2>1, <2>5, OneStmt
<1>2. ASSUME Connect(k)
      PROVE  StmtInv'
  <2>1. srv' = [srv EXCEPT ![k] = NewThread] /\ ~c.proto /\ ~c.stmt /\ c.old = "no"
    BY <1>0, <1>2 DEF Connect, Awaits, StmtOf
  <2>2. ASSUME NEW fresh \in BOOLEAN, conn' = [conn EXCEPT ![k].proto = TRUE, ![k].fresh = fresh]
        PROVE  StmtInv'
    <3> DEFINE c2 == [c EXCEPT !.proto = TRUE, !.fresh = fresh]
    <3>1. conn' = [conn EXCEPT ![k] = c2]
      BY <2>2
    <3>2. ~c2.stmt /\ c2.old = "no"
      BY <1>0, <2>1 DEF MyConns
    <3>3. StmtOf(c2, NewThread)
      BY <3>2 DEF StmtOf
    <3> HIDE DEF c2
    <3>4. QED
      BY <2>1, <3>1, <3>3, OneStmt
  <2>3. ASSUME conn' = [conn EXCEPT ![k] = Done(@)]
        PROVE  StmtInv'
    <3>1. ~Done(c).stmt /\ Done(c).old = "no"
      BY <1>0, <2>1, DoneFields
    <3>2. StmtOf(Done(c), NewThread)
      BY <3>1 DEF StmtOf
    <3>3. QED
      BY <2>1, <2>3, <3>2, OneStmt
  <2>4. QED
    BY <1>2, <2>2, <2>3 DEF Connect
<1>3. ASSUME SendPending(k)
      PROVE  StmtInv'
  <2> DEFINE t == Executed(s, c.pending[c.sent + 1])
             d == Answered(c, t)
             c2 == [d EXCEPT !.sent = d.sent + 1]
  <2>1. /\ conn' = [conn EXCEPT ![k] = c2] /\ srv' = [srv EXCEPT ![k] = t]
        /\ Awaits(k, Queries) /\ Stage(c) = "sending"
    BY <1>3 DEF SendPending
  <2>2. c.sent < Len(c.pending)
    BY <2>1, StageIs DEF Awaits, Queries
  <2>3. c.pending[c.sent + 1] \in Points \cup {START, Write}
    BY <1>0, <2>2, PendingFacts
  <2>4. t \in Threads /\ t.stmt = s.stmt /\ t.alive = s.alive
    BY <1>0, <2>3, ExecutedFacts
  <2> HIDE DEF t
  <2>5. d \in MyConns /\ SameStmt(d, c)
    BY <1>0, <2>4, SameFields
  <2> HIDE DEF d
  <2>6. c2.stmt = d.stmt /\ c2.proto = d.proto /\ c2.old = d.old
    BY <2>5 DEF MyConns
  <2> HIDE DEF c2
  <2>7. StmtOf(c2, t)
    BY <1>0, <2>4, <2>5, <2>6, StmtStays DEF SameStmt
  <2>8. QED
    BY <2>1, <2>7, OneStmt
<1>4. ASSUME Prepare(k)
      PROVE  StmtInv'
  <2> DEFINE d == Answered(c, s)
             e == <<>>
             c2 == [d EXCEPT !.stmt = TRUE, !.pending = e, !.sent = 0]
             s2 == [s EXCEPT !.stmt = TRUE]
  <2>1. conn' = [conn EXCEPT ![k] = c2] /\ srv' = [srv EXCEPT ![k] = s2] /\ c.proto /\ c.old = "no"
    BY <1>4 DEF Prepare, Awaits
  <2>2. d \in MyConns /\ d.proto = c.proto /\ d.old = c.old
    BY <1>0, AnsweredFields
  <2> HIDE DEF d, e
  <2>3. c2.proto = c.proto /\ c2.old = "no"
    BY <2>1, <2>2 DEF MyConns
  <2>4. s2.stmt = TRUE
    BY <1>0 DEF Threads
  <2> HIDE DEF c2, s2
  <2>5. StmtOf(c2, s2)
    BY <2>1, <2>3, <2>4 DEF StmtOf
  <2>6. QED
    BY <2>1, <2>5, OneStmt
<1>5. ASSUME Execute(k)
      PROVE  StmtInv'
  <2> DEFINE t == Executed(s, Write)
             d == Answered(c, t)
             f == Cleared(d)
             e == <<>>
             c2 == [f EXCEPT !.pending = e]
  <2>1. conn' = [conn EXCEPT ![k] = c2] /\ srv' = [srv EXCEPT ![k] = t]
    BY <1>5 DEF Execute
  <2>2. t \in Threads /\ t.stmt = s.stmt /\ t.alive = s.alive
    BY <1>0, ExecutedFacts
  <2> HIDE DEF t, e
  <2>3. d \in MyConns /\ SameStmt(d, c)
    BY <1>0, <2>2, SameFields
  <2> HIDE DEF d
  <2>4. f \in MyConns /\ SameStmt(f, d)
    BY <2>3, ClearedFields, SameFields
  <2> HIDE DEF f
  <2>5. SameStmt(c2, f)
    BY <2>4, SameFields
  <2> HIDE DEF c2
  <2>6. StmtOf(c2, t)
    BY <1>0, <2>2, <2>3, <2>4, <2>5, StmtStays DEF SameStmt
  <2>7. QED
    BY <2>1, <2>6, OneStmt
<1>6. ASSUME ExecuteTo(k)
      PROVE  StmtInv'
  <2> DEFINE e == SubSeq(s.log, 1, Position(s.log, c.to))
             t == [s EXCEPT !.log = e]
  <2>1. conn' = [conn EXCEPT ![k] = Cleared(c)] /\ srv' = [srv EXCEPT ![k] = t]
    BY <1>6 DEF ExecuteTo, RolledBackTo
  <2> HIDE DEF e
  <2>2. t.stmt = s.stmt /\ t.alive = s.alive
    BY <1>0 DEF Threads
  <2> HIDE DEF t
  <2>3. StmtOf(Cleared(c), t)
    BY <1>0, <2>2, SameFields, StmtStays DEF SameStmt
  <2>4. QED
    BY <2>1, <2>3, OneStmt
<1>7. ASSUME Refused(k)
      PROVE  StmtInv'
  <2> DEFINE d == Done(c)
             e == IF Stage(c) # "sending" THEN <<>> ELSE d.pending
             c2 == [d EXCEPT !.pending = e]
  <2>1. conn' = [conn EXCEPT ![k] = c2] /\ srv' = [srv EXCEPT ![k] = s]
    BY <1>0, <1>7 DEF Refused
  <2>2. d \in MyConns /\ SameStmt(d, c)
    BY <1>0, DoneFields, SameFields
  <2> HIDE DEF d, e
  <2>3. SameStmt(c2, d)
    BY <2>2, SameFields
  <2> HIDE DEF c2
  <2>4. StmtOf(c2, s)
    BY <1>0, <2>2, <2>3, StmtStays DEF SameStmt
  <2>5. QED
    BY <2>1, <2>4, OneStmt
<1>8. QED
  BY <1>1, <1>2, <1>3, <1>4, <1>5, <1>6, <1>7

\* A query with named parameters never uses the id of a statement that the current
\* connection does not have: it is forgotten by #doEnd(), whichever way the
\* connection was replaced (end(), a retry, or a failed ROLLBACK).
THEOREM StatementIsHere ==
    ASSUME Usage, "endInPrepare" \notin Allows
    PROVE  Spec => []CachedStmtIsHere
<1>1. Init => StmtInv
  <2> SUFFICES ASSUME Init, NEW k \in Conns
               PROVE  StmtOf(NewConn, NewThread)
    BY DEF Init, StmtInv
  <2>1. QED
    BY NewFields DEF StmtOf
<1>2. TrxInv /\ StmtInv /\ [Next]_vars => StmtInv'
  <2> SUFFICES ASSUME TrxInv, StmtInv, [Next]_vars
               PROVE  StmtInv'
    OBVIOUS
  <2>1. CASE UNCHANGED vars
    BY <2>1 DEF vars, StmtInv
  <2>2. CASE Next
    BY <2>2, StmtCalls, StmtEnds, StmtContinues DEF Next
  <2>3. QED
    BY <2>1, <2>2
<1>3. TrxInv /\ [Next]_vars => TrxInv'
  BY TrxNext
<1>4. StmtInv => CachedStmtIsHere
  BY DEF StmtInv, StmtOf, CachedStmtIsHere
<1>5. QED
  BY <1>1, <1>2, <1>3, <1>4, TrxInit, PTL DEF Spec

=============================================================================

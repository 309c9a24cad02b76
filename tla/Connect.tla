------------------------------ MODULE Connect ------------------------------
(***************************************************************************)
(* ProtocolsFactory.newConn() (my_pool.ts) for several concurrent callers  *)
(* with one DSN, each attempt of which is a Handshake, and the HealthStatus *)
(* (health_status.ts) where Pool.getProtocol() records the outcomes.       *)
(*                                                                         *)
(* A caller whose attempt failed waits for a timer, or for the caller that *)
(* already waits for one, and then tries again, until its connectTill.     *)
(*                                                                         *)
(* A handshake shares nothing with the rest until it ends, so nothing else *)
(* happens here from its beginning to its end; the time that an attempt    *)
(* takes passes before. A timer fires when it is due: the clock waits.     *)
(***************************************************************************)
EXTENDS Handshake, FiniteSets, FiniteSetsExt

CONSTANTS
    Callers,   \* concurrent callers of Pool.getProtocol()
    NoCaller,
    MaxCalls,  \* bound: calls
    MaxConns,  \* bound: attempts that reach the server
    MaxTime,   \* bound: the clock (in seconds)
    Track,     \* TRACK_HEALH_STATUS_FOR_PERIOD_SEC
    Lim        \* 0x10000, the number of values of a counter of HealthStatus

ASSUME ConnectAssumption ==
    /\ NoCaller \notin Callers
    /\ MaxCalls \in Nat /\ MaxConns \in Nat /\ MaxTime \in Nat
    /\ Track \in Nat \ {0}
    \* a counter is read with a signed shift: it is right below Lim \div 2
    /\ Lim \in Nat /\ MaxCalls < Lim \div 2

VARIABLES
    now,     \* Date.now()
    call,    \* the callers
    who,     \* whose attempt h is
    map,     \* #curRetryingPromises.get(dsn.hash): whose timer it waits for
    health,  \* the HealthStatus
    calls,   \* how many calls were made
    conns,   \* how many attempts reached the server
    logged   \* history: the outcomes that were recorded

vars == <<dsn, h, now, call, who, map, health, calls, conns, logged>>

\* pc: "connecting" in Deno.connect(), "shaking", "retrying" with its own timer
\* `due`, "waiting" for the timer of caller `on`. since: `now` of getProtocol().
NewCall == [pc |-> "no", since |-> 0, till |-> 0, due |-> 0, on |-> NoCaller]

TypeOK ==
    /\ HandshakeTypeOK
    /\ now \in 0 .. MaxTime
    /\ \A c \in Callers :
          /\ call[c].pc \in {"no", "connecting", "shaking", "retrying", "waiting"}
          /\ call[c].pc = "shaking" <=> who = c
    /\ who = NoCaller <=> h.pc = "no"
    /\ calls \in 0 .. MaxCalls /\ conns \in 0 .. MaxConns
    /\ health.i \in 0 .. Track - 1 /\ health.iSec <= now
    /\ DOMAIN health.data = 0 .. Track - 1

Init ==
    /\ dsn \in Dsns
    /\ h = NoAttempt
    /\ now = 0
    /\ call = [c \in Callers |-> NewCall]
    /\ who = NoCaller
    /\ map = NoCaller
    \* #iSec is 0 and the clock is far from it: long ago
    /\ health = [data |-> [i \in 0 .. Track - 1 |-> 0], i |-> 0, iSec |-> 0 - Track - 1]
    /\ calls = 0 /\ conns = 0
    /\ logged = {}

-----------------------------------------------------------------------------
(* HealthStatus *)

\* The counters of successes and failures packed in one number
OkCount(value) == value % Lim
FailCount(value) ==
    LET n == (value \div Lim) % Lim IN IF n >= Lim \div 2 THEN n - Lim ELSE n

Counted(value, ok) ==
    IF (IF ok THEN OkCount(value) ELSE FailCount(value)) < Lim - 1
    THEN (value + (IF ok THEN 1 ELSE Lim)) % (Lim * Lim)
    ELSE IF (IF ok THEN FailCount(value) ELSE OkCount(value)) >= Lim \div 2
    THEN value - (IF ok THEN Lim ELSE 1)
    ELSE value

\* log(ok, sec): the cells of the seconds since the last record are cleared
Log_KeepsCells(ok, sec) ==
    LET diff == sec - health.iSec
        i == IF diff >= Track THEN health.i ELSE (health.i + diff) % Track
        data == IF diff >= Track THEN [j \in DOMAIN health.data |-> 0] ELSE health.data
    IN  IF diff < 0 THEN health
        ELSE [data |-> [data EXCEPT ![i] = Counted(@, ok)], i |-> i, iSec |-> sec]

Log(ok, sec) ==
    LET diff == sec - health.iSec
        i == IF diff >= Track THEN health.i ELSE (health.i + diff) % Track
        cleared == IF diff >= Track THEN DOMAIN health.data ELSE {(health.i + k) % Track : k \in 1 .. diff}
        data == [j \in DOMAIN health.data |-> IF j \in cleared THEN 0 ELSE health.data[j]]
    IN  IF diff < 0 THEN health
        ELSE [data |-> [data EXCEPT ![i] = Counted(@, ok)], i |-> i, iSec |-> sec]

\* getHealthStatusForPeriod(period): nOk and nFail, when it is not NaN. The
\* cells are visited from the last one back.
Visited(period) == {(health.i - k) % Track : k \in 0 .. period - (now - health.iSec) - 1}
NOk(period) == MapThenSumSet(LAMBDA j : OkCount(health.data[j]), Visited(period))
NFail(period) == MapThenSumSet(LAMBDA j : FailCount(health.data[j]), Visited(period))

\* getProtocol(): the outcome of newConn() is recorded at the time when
\* getProtocol() began to connect. log() drops it if one with a later time was
\* recorded already.
Record(c, ok) ==
    /\ health' = Log(ok, call[c].since)
    /\ logged' = IF \E e \in logged : e.sec > call[c].since THEN logged
                 ELSE logged \cup {[id |-> Cardinality(logged), sec |-> call[c].since, ok |-> ok]}

-----------------------------------------------------------------------------
(* newConn() *)

\* getProtocol() calls newConn(), which calls inst(), which calls Deno.connect().
NewConn(c) ==
    /\ call[c].pc = "no" /\ calls < MaxCalls /\ who = NoCaller
    /\ now + dsn.timeout < MaxTime
    /\ calls' = calls + 1
    /\ call' = [call EXCEPT ![c] = [NewCall EXCEPT !.pc = "connecting", !.since = now,
                                                   !.till = now + dsn.timeout]]
    /\ UNCHANGED <<dsn, h, now, who, map, health, conns, logged>>

Ends(c, ok) ==
    /\ call' = [call EXCEPT ![c] = NewCall]
    /\ Record(c, ok)
    /\ UNCHANGED map

CannotRetry_WholeInterval(c, err) ==
    dsn.interval = 0 \/ now + dsn.interval >= call[c].till \/ err = "fatal"

CannotRetry(c, err) == dsn.interval = 0 \/ now >= call[c].till \/ err = "fatal"

\* When the timer of the retry is due
RetryAfter(c) == Min({now + dsn.interval, call[c].till})

\* The catch clause
Caught_OwnTimer(c, err) ==
    \/ /\ CannotRetry(c, err)
       /\ Ends(c, FALSE)
    \/ /\ ~CannotRetry(c, err)
       /\ call' = [call EXCEPT ![c].pc = "retrying", ![c].due = RetryAfter(c)]
       /\ map' = c
       /\ UNCHANGED <<health, logged>>

Caught(c, err) ==
    \/ /\ CannotRetry(c, err)
       /\ Ends(c, FALSE)
    \/ /\ ~CannotRetry(c, err) /\ map # NoCaller
       /\ call' = [call EXCEPT ![c].pc = "waiting", ![c].on = map]
       /\ UNCHANGED <<map, health, logged>>
    \/ /\ ~CannotRetry(c, err) /\ map = NoCaller
       /\ call' = [call EXCEPT ![c].pc = "retrying", ![c].due = RetryAfter(c)]
       /\ map' = c
       /\ UNCHANGED <<health, logged>>

\* Deno.connect() throws ConnectionRefused or another error, or inst() throws
\* before it.
ConnectFails(c, err) ==
    /\ call[c].pc = "connecting" /\ who = NoCaller
    /\ who' = c
    /\ h' = Throw(NoAttempt, err)
    /\ call' = [call EXCEPT ![c].pc = "shaking"]
    /\ UNCHANGED <<dsn, now, map, health, calls, conns, logged>>

\* Deno.connect() returned a connection.
Connected(c) ==
    /\ call[c].pc = "connecting" /\ who = NoCaller /\ conns < MaxConns
    /\ conns' = conns + 1
    /\ who' = c
    /\ h' = Accepted
    /\ call' = [call EXCEPT ![c].pc = "shaking"]
    /\ UNCHANGED <<dsn, now, map, health, calls, logged>>

InstReturns(c) ==
    /\ who = c /\ h.pc = "done"
    /\ who' = NoCaller /\ h' = NoAttempt
    /\ Ends(c, TRUE)
    /\ UNCHANGED <<dsn, now, calls, conns>>

InstThrows(c) ==
    /\ who = c /\ h.pc = "thrown"
    /\ who' = NoCaller /\ h' = NoAttempt
    /\ Caught(c, h.err)
    /\ UNCHANGED <<dsn, now, calls, conns>>

\* The timer of a retry: all that wait for it try again.
RetryTimer(c) ==
    /\ call[c].pc = "retrying" /\ now >= call[c].due /\ who = NoCaller
    /\ map' = NoCaller
    /\ call' = [k \in Callers |->
                  IF k = c \/ (call[k].pc = "waiting" /\ call[k].on = c)
                  THEN [call[k] EXCEPT !.pc = "connecting", !.due = 0, !.on = NoCaller]
                  ELSE call[k]]
    /\ UNCHANGED <<dsn, h, now, who, health, calls, conns, logged>>

\* promiseNo: a waiting caller gives up at its connectTill.
Deadline(c) ==
    /\ call[c].pc = "waiting" /\ now >= call[c].till /\ who = NoCaller
    /\ Ends(c, FALSE)
    /\ UNCHANGED <<dsn, h, now, who, calls, conns>>

TimerDue ==
    \E c \in Callers : \/ call[c].pc = "retrying" /\ now >= call[c].due
                       \/ call[c].pc = "waiting" /\ now >= call[c].till

Tick ==
    /\ now < MaxTime /\ ~TimerDue /\ who = NoCaller
    /\ now' = now + 1
    /\ UNCHANGED <<dsn, h, call, who, map, health, calls, conns, logged>>

Others == <<now, call, who, map, health, calls, conns, logged>>

Next ==
    \/ \E c \in Callers :
          \/ NewConn(c) \/ ConnectFails(c, "refused") \/ ConnectFails(c, "fatal") \/ Connected(c)
          \/ InstReturns(c) \/ InstThrows(c) \/ RetryTimer(c) \/ Deadline(c)
    \/ Tick
    \/ ReadHandshake /\ UNCHANGED Others
    \/ UpgradeToTls /\ UNCHANGED Others
    \/ UpgradeFails /\ UNCHANGED Others
    \/ ReadAuthResponse /\ UNCHANGED Others
    \/ ReadMore /\ UNCHANGED Others
    \/ ReadInitSql /\ UNCHANGED Others
    \/ ServerGreets /\ UNCHANGED Others
    \/ ServerAnswers /\ UNCHANGED Others
    \/ ServerJudges /\ UNCHANGED Others
    \/ ServerExecutes /\ UNCHANGED Others
    \/ Disconnects /\ UNCHANGED Others

Spec == Init /\ [][Next]_vars

\* The clock and the timers run, Deno.connect() settles (the operating system has
\* a timeout for it), and the server answers when it has the word: newConn() has
\* no timer for a server that accepts a connection and says nothing. Nothing says
\* that a silent connection is ever lost.
Fairness ==
    /\ WF_vars(Tick)
    /\ \A c \in Callers :
          /\ WF_vars(Connected(c) \/ ConnectFails(c, "refused"))
          /\ WF_vars(InstReturns(c) \/ InstThrows(c))
          /\ WF_vars(RetryTimer(c))
          /\ WF_vars(Deadline(c))
    /\ WF_vars((ReadHandshake \/ UpgradeToTls \/ ReadAuthResponse \/ ReadMore \/ ReadInitSql)
                 /\ UNCHANGED Others)
    /\ WF_vars((ServerGreets \/ ServerAnswers \/ ServerJudges \/ ServerExecutes)
                 /\ UNCHANGED Others)

FairSpec == Spec /\ Fairness

-----------------------------------------------------------------------------
\* Of the callers with one DSN whose attempts failed, one has the timer of the
\* retry, the others wait for this one, and it is in #curRetryingPromises: nobody
\* waits for a promise that was resolved or replaced.
OneRetrier ==
    /\ \A c \in Callers : call[c].pc = "retrying" <=> map = c
    /\ \A c \in Callers : call[c].pc = "waiting" => call[c].on = map /\ map # NoCaller

\* newConn() tries for the time that connectionTimeout gives it, no longer and no
\* shorter. It does not wait beyond: the last wait for a retry is cut short, and a
\* caller that waits for another's retry has a timer of its own. And it reports
\* that the server is not there only when this time passed since its call, or
\* retrying is switched off: a caller that waits for another's retry does not fail
\* with it, and tries at least once again.
DeadlineKept ==
    /\ [](\A c \in Callers : call[c].pc \in {"retrying", "waiting"} => now <= call[c].till)
    /\ [][ \A c \in Callers :
             (call[c].pc # "no" /\ call'[c].pc = "no" /\ h.pc # "done") =>
                dsn.interval = 0 \/ now >= call[c].till \/ h.err = "fatal" ]_vars

\* Every newConn() returns or throws: callers do not wait for each other in vain,
\* and in the handshake the client never waits for a server that waits for it.
CallsReturn == \A c \in Callers : call[c].pc # "no" ~> call[c].pc = "no"

\* getHealthStatusForPeriod() counts exactly the outcomes that were recorded for
\* the last `period` seconds, whatever the pauses between them.
HealthExact ==
    \A period \in 1 .. Track :
        LET recent == {e \in logged : e.sec > now - period} IN
        /\ NOk(period) = Cardinality({e \in recent : e.ok})
        /\ NFail(period) = Cardinality({e \in recent : ~e.ok})
=============================================================================

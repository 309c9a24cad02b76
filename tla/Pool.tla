-------------------------------- MODULE Pool --------------------------------
(***************************************************************************)
(* The connections pool: class Pool of private/my_pool.ts with the parts   *)
(* of MyConn (private/my_conn.ts) that take connections from it and give   *)
(* them back, and the part of MyProtocol.inst() (private/my_protocol.ts)   *)
(* that settles what forceImmediateDisconnect() left behind.               *)
(*                                                                         *)
(* JavaScript runs to completion: a step is the code between two awaits.   *)
(* Where that code is a loop, it is several steps, and InSync keeps        *)
(* everything else out until the loop ends.  Continuations of settled      *)
(* promises (microtasks) run before any timer or I/O event (Macrotask).    *)
(*                                                                         *)
(* A "proto" is a server connection, in the hands of one MyProtocol object *)
(* or of the next (MyProtocol.end() makes a new object for a recycled      *)
(* connection).  Time is abstracted to the events it causes: a timer that  *)
(* fires, a useTill that passes, a health status that becomes empty.       *)
(***************************************************************************)
EXTENDS IntervalState, Integers, FiniteSets

CONSTANTS
    Conns,        \* MyConn objects
    Dsns,         \* Dsn objects, each with a hash of its own
    Protos,       \* server connections
    Entries,      \* objects of class Protocols
    Calls,        \* activations of getProtocol()
    Ticks,        \* activations of #commonTask() from its timer
    Final,        \* the activation of #commonTask(true)
    DsnOf,        \* the Dsn of a MyConn
    HostOf,       \* hashNoSchema of a Dsn
    WithSchema,   \* the Dsns with a nonempty schema
    MaxConns,     \* Dsn.maxConns
    MaxWaitQueue, \* options.maxConnsWaitQueue
    Killers,      \* MyConns whose owner calls killQuery()
    Forcers,      \* MyConns whose owner calls forceImmediateDisconnect()
    Disposes,     \* whether the owner of the pool disposes it
    None          \* undefined

ASSUME PoolAssumption ==
    /\ IsFiniteSet(Protos) /\ IsFiniteSet(Calls)
    /\ DsnOf \in [Conns -> Dsns]
    /\ WithSchema \subseteq Dsns
    /\ MaxConns \in [Dsns -> Nat \ {0}]
    /\ \A d1, d2 \in Dsns : HostOf[d1] = HostOf[d2] => MaxConns[d1] = MaxConns[d2]
    /\ MaxWaitQueue \in Nat
    /\ Killers \subseteq Conns /\ Forcers \subseteq Conns
    /\ Disposes \in BOOLEAN
    /\ None \notin Conns \cup Dsns \cup Protos \cup Entries \cup Calls
    /\ Final \notin Ticks

VARIABLES
    entryOf,    \* #protocolsPerSchema
    busy,       \* Protocols.busy
    idle,       \* Protocols.idle
    nConnecting,\* Protocols.nConnecting
    cb,         \* Protocols.haveSlotsCallbacks: the calls that wait for theirs
    stale,      \* entries whose haveSlotsCallbacks also holds timed out callbacks
    logged,     \* entries for which !healthStatus.isEmpty()
    nBusyAll,   \* #nBusyAll
    nIdleAll,   \* #nIdleAll
    useCnt,     \* #useCnt
    takeCare,   \* #takeCareOfDisconneced: the disconnected protos it is about
    timer,      \* state of #hCommonTask
    run,        \* activations of #commonTask
    phase,      \* progress of [Symbol.asyncDispose]
    call,       \* activations of getProtocol, and what their callers do then
    pdsn,       \* MyProtocol.dsn
    expired,    \* protos whose useTill passed
    closing,    \* protos in #closeConn: the entry whose callbacks it was given
    returning,  \* protos in returnProtocol: "no", "recycle" or "close"
    unrefThen,  \* protos in returnProtocol with `promise.finally(() => unref())`
    unrefs,     \* how many of these continuations are pending
    conn        \* MyConn objects

entryVars == <<entryOf, busy, idle, nConnecting, cb, stale, logged>>
countVars == <<nBusyAll, nIdleAll, useCnt>>
protoVars == <<pdsn, expired, closing, returning, unrefThen, unrefs>>
taskVars  == <<takeCare, timer, run, phase>>
vars == <<entryVars, countVars, protoVars, taskVars, call, conn>>

Runs == Ticks \cup {Final}

Call == [pc : {"free", "waiting", "woken", "late", "popping", "connecting",
               "delivered", "failed", "killing", "returning"},
         kind : {"connect", "kill", "care"},
         conn : Conns \cup {None},
         info : Protos \cup {None},
         dsn : Dsns \cup {None},
         entry : Entries \cup {None},
         proto : Protos \cup {None},
         held : SUBSET Protos]

FreeCall == [pc |-> "free", kind |-> "connect", conn |-> None, info |-> None,
             dsn |-> None, entry |-> None, proto |-> None, held |-> {}]

\* An activation of #commonTask: the items of its snapshot that are still to
\* do, and the protos and the calls that its promises are about.
Run == [st : {"off", "start", "loop", "await"},
        todo : SUBSET Protos, protos : SUBSET Protos, calls : SUBSET Calls]

NoRun == [st |-> "off", todo |-> {}, protos |-> {}, calls |-> {}]

Conn == [st : {"unborn", "live", "disposed"},
         proto : Protos \cup {None}, isConnecting : BOOLEAN]

TypeOK ==
    /\ entryOf \in [Dsns -> Entries \cup {None}]
    /\ busy \in [Entries -> SUBSET Protos]
    /\ idle \in [Entries -> SUBSET Protos]
    /\ nConnecting \in [Entries -> Int]
    /\ cb \in [Entries -> SUBSET Calls]
    /\ stale \in SUBSET Entries
    /\ logged \in SUBSET Entries
    /\ nBusyAll \in Int /\ nIdleAll \in Int /\ useCnt \in Int
    /\ takeCare \in SUBSET Protos
    /\ timer \in IntervalStates
    /\ run \in [Runs -> Run]
    /\ phase \in {"open", "waitEnd", "ended", "waitTask", "intervalsDone", "final", "done"}
    /\ call \in [Calls -> Call]
    /\ pdsn \in [Protos -> Dsns \cup {None}]
    /\ expired \in SUBSET Protos
    /\ closing \in [Protos -> Entries \cup {None}]
    /\ returning \in [Protos -> {"no", "recycle", "close"}]
    /\ unrefThen \in SUBSET Protos
    /\ unrefs \in Nat
    /\ conn \in [Conns -> Conn]

Init ==
    /\ entryOf = [d \in Dsns |-> None]
    /\ busy = [e \in Entries |-> {}]
    /\ idle = [e \in Entries |-> {}]
    /\ nConnecting = [e \in Entries |-> 0]
    /\ cb = [e \in Entries |-> {}]
    /\ stale = {}
    /\ logged = {}
    /\ nBusyAll = 0 /\ nIdleAll = 0 /\ useCnt = 0
    /\ takeCare = {}
    /\ timer = "Inactive"
    /\ run = [r \in Runs |-> NoRun]
    /\ phase = "open"
    /\ call = [c \in Calls |-> FreeCall]
    /\ pdsn = [p \in Protos |-> None]
    /\ expired = {}
    /\ closing = [p \in Protos |-> None]
    /\ returning = [p \in Protos |-> "no"]
    /\ unrefThen = {}
    /\ unrefs = 0
    /\ conn = [k \in Conns |-> [st |-> "unborn", proto |-> None, isConnecting |-> FALSE]]

-----------------------------------------------------------------------------
(* Scheduling *)

\* A synchronous loop is in progress: the one of getProtocol that pops idle
\* protos, or #commonTask before its await.
InSync ==
    \/ \E c \in Calls : call[c].pc = "popping"
    \/ \E r \in Runs : run[r].st \in {"start", "loop"}

\* #commonTask awaits promises that are all settled
Settled(r) == run[r].st = "await" /\ run[r].protos = {} /\ run[r].calls = {}

MicrotaskPending ==
    \/ \E c \in Calls : call[c].pc \in {"woken", "late", "delivered", "failed"}
    \/ \E r \in Runs : Settled(r)
    \/ unrefs > 0
    \/ phase \in {"ended", "intervalsDone"}

Microtask == ~InSync
Macrotask == ~InSync /\ ~MicrotaskPending

-----------------------------------------------------------------------------
(* Helpers *)

\* mutant of InUse: connections that are being established do not count
InUse_BusyOnly(e) == Cardinality(busy[e])

InUse(e) == Cardinality(busy[e]) + nConnecting[e]

Mapped == {entryOf[d] : d \in Dsns} \ {None}

FreeEntries ==
    {e \in Entries \ Mapped :
        /\ busy[e] \cup idle[e] = {}
        /\ \A c \in Calls : call[c].entry # e
        /\ \A p \in Protos : closing[p] # e}

\* The disconnected protos for which KILL or XA ROLLBACK is yet to be done
Outstanding ==
    takeCare \cup UNION {run[r].todo : r \in Runs}
             \cup UNION {call[c].held : c \in Calls}
             \cup ({call[c].info : c \in Calls} \ {None})

FreeProtos ==
    {p \in Protos \ Outstanding :
        /\ \A e \in Entries : p \notin busy[e] \cup idle[e]
        /\ closing[p] = None /\ returning[p] = "no"
        /\ \A c \in Calls : call[c].proto # p
        /\ \A k \in Conns : conn[k].proto # p}

\* this.#onend?.()
OnEnd(ph) == IF ph = "waitEnd" THEN "ended" ELSE ph

\* mutant of DecNBusyAll: the task is stopped although there are idle
\* connections
DecNBusyAll_StopsTask(d, e, calls, idleAll, care, tm) ==
    /\ nBusyAll' = nBusyAll - 1
    /\ timer' = IF nBusyAll = 1 /\ care = {} THEN StoppedState(tm) ELSE tm
    /\ call' = [c \in Calls |-> IF c \in cb[e] THEN [calls[c] EXCEPT !.pc = "woken"] ELSE calls[c]]
    /\ cb' = [cb EXCEPT ![e] = {}]
    /\ stale' = stale \ {e}
    /\ phase' = IF nBusyAll = 1 /\ useCnt = 0 THEN OnEnd(phase) ELSE phase

\* #decNBusyAll(maxConns, haveSlotsCallbacks), with the callbacks of entry e
\* and the values that the caller gave before to `call` (calls), #nIdleAll,
\* #takeCareOfDisconneced and the state of #hCommonTask.  The callbacks are
\* called, and the array emptied, only when it is not empty.
DecNBusyAll(d, e, calls, idleAll, care, tm) ==
    LET left == nBusyAll - 1 IN
    /\ nBusyAll' = left
    /\ IF cb[e] = {} /\ e \notin stale
       THEN /\ timer' = IF left = 0 /\ idleAll = 0 /\ care = {} THEN StoppedState(tm) ELSE tm
            /\ phase' = IF left = 0 /\ useCnt = 0 THEN OnEnd(phase) ELSE phase
            /\ call' = calls
            /\ UNCHANGED <<cb, stale>>
       ELSE /\ IF left < MaxConns[d]
               THEN /\ call' = [c \in Calls |-> IF c \in cb[e] THEN [calls[c] EXCEPT !.pc = "woken"]
                                                             ELSE calls[c]]
                    /\ cb' = [cb EXCEPT ![e] = {}]
                    /\ stale' = stale \ {e}
               ELSE call' = calls /\ UNCHANGED <<cb, stale>>
            /\ timer' = tm
            /\ UNCHANGED phase

-----------------------------------------------------------------------------
(* getProtocol(): the steps of call c *)

\* The loop `while (busy.length+conns.nConnecting >= maxConns)` with
\* #waitHaveSlots(), for a call with the fields rec.  It goes on with entry
\* rec.entry, waits, or throws: the time is over, or the queue is full.
WaitForSlot(c, rec, late) ==
    LET e == rec.entry
        next(pc) == call' = [call EXCEPT ![c] = [rec EXCEPT !.pc = pc]]
    IN
    \/ /\ InUse(e) < MaxConns[rec.dsn]
       /\ next("popping")
       /\ UNCHANGED <<cb, stale>>
    \/ /\ InUse(e) >= MaxConns[rec.dsn]
       /\ late
       /\ next("failed")
       /\ UNCHANGED <<cb, stale>>
    \/ /\ InUse(e) >= MaxConns[rec.dsn]
       /\ ~late
       /\ IF Cardinality(cb[e]) >= MaxWaitQueue
          THEN next("failed") /\ UNCHANGED cb
          ELSE next("waiting") /\ cb' = [cb EXCEPT ![e] = @ \cup {c}]
       /\ stale' = stale \ {e}

\* getProtocol(dsn) is called: finds or creates the Protocols object.
\* (connectionTimeout is positive: with 0 a call that finds no slot throws,
\* as with MaxWaitQueue = 0.)
GetProtocol(c, d, kind, k, info) ==
    LET activation(pc, e) ==
            [pc |-> pc, kind |-> kind, conn |-> k, info |-> info,
             dsn |-> d, entry |-> e, proto |-> None, held |-> {}]
    IN
    /\ call[c].pc = "free"
    /\ IF entryOf[d] # None
       THEN /\ WaitForSlot(c, activation("free", entryOf[d]), FALSE)
            /\ UNCHANGED <<entryOf, logged>>
       ELSE \E e \in FreeEntries :
            /\ entryOf' = [entryOf EXCEPT ![d] = e]
            /\ logged' = logged \ {e}
            /\ stale' = stale \ {e}
            /\ UNCHANGED cb
            /\ call' = [call EXCEPT ![c] = activation("popping", e)]

\* mutant of WaitTimesOut: `till` is computed anew in each iteration
WaitTimesOut_NeverLate(c, late) ==
    /\ Macrotask
    /\ call[c].pc = "waiting"
    /\ call' = [call EXCEPT ![c].pc = "woken"]
    /\ cb' = [cb EXCEPT ![call[c].entry] = @ \ {c}]
    /\ stale' = stale \cup {call[c].entry}
    /\ UNCHANGED <<entryOf, busy, idle, nConnecting, logged, countVars, protoVars,
                   taskVars, conn>>

\* setTimeout of #waitHaveSlots() fires; `late`: it is now past `till`.  The
\* callback stays in the array until somebody calls #closeHaveSlotsTimedOut().
WaitTimesOut(c, late) ==
    /\ Macrotask
    /\ call[c].pc = "waiting"
    /\ call' = [call EXCEPT ![c].pc = IF late THEN "late" ELSE "woken"]
    /\ cb' = [cb EXCEPT ![call[c].entry] = @ \ {c}]
    /\ stale' = stale \cup {call[c].entry}
    /\ UNCHANGED <<entryOf, busy, idle, nConnecting, logged, countVars, protoVars, taskVars, conn>>

\* The call goes on after #waitHaveSlots()
WaitEnds(c) ==
    /\ Microtask
    /\ call[c].pc \in {"woken", "late"}
    /\ WaitForSlot(c, call[c], call[c].pc = "late")
    /\ UNCHANGED <<entryOf, busy, idle, nConnecting, logged,
                   countVars, protoVars, taskVars, conn>>

\* The idle protos that the next iteration of the loop may pop: of the own
\* entry, or of one with the same host (#stealIdleProtocolWithTheSameHost).
\* The arrays are sets here: any proto may be the last one.
Poppable(c) ==
    LET own == idle[call[c].entry] IN
    IF own # {} THEN own
    ELSE IF call[c].dsn \notin WithSchema THEN {}
    ELSE {p \in Protos : /\ \E e \in Mapped : p \in idle[e]
                         /\ HostOf[pdsn[p]] = HostOf[call[c].dsn]}

\* mutants of PopIdle: a stolen proto stays in the array of its former entry;
\* it keeps its former Dsn
PopIdle_StealsCopy(c, p) ==
    /\ call[c].pc = "popping"
    /\ p \in Poppable(c)
    /\ idle' = [idle EXCEPT ![call[c].entry] = @ \ {p}]
    /\ pdsn' = [pdsn EXCEPT ![p] = call[c].dsn]
    /\ nIdleAll' = nIdleAll - 1
    /\ nBusyAll' = nBusyAll + 1
    /\ timer' = StartedState(timer, FALSE)
    /\ busy' = [busy EXCEPT ![call[c].entry] = @ \cup {p}]
    /\ call' = [call EXCEPT ![c].pc = "delivered", ![c].proto = p]
    /\ UNCHANGED <<entryOf, nConnecting, cb, stale, logged, useCnt, expired, closing,
                   returning, unrefThen, unrefs, takeCare, run, phase, conn>>
\* One iteration of the loop, when it pops an idle proto
PopIdle(c, p) ==
    LET e == call[c].entry
        d == call[c].dsn
    IN
    /\ call[c].pc = "popping"
    /\ p \in Poppable(c)
    /\ idle' = [x \in Entries |-> idle[x] \ {p}]
    /\ pdsn' = [pdsn EXCEPT ![p] = d]
    /\ nIdleAll' = nIdleAll - 1
    /\ nBusyAll' = nBusyAll + 1
    /\ IF p \in expired
       THEN /\ closing' = [closing EXCEPT ![p] = e]
            /\ UNCHANGED <<busy, call, timer>>
       ELSE /\ timer' = StartedState(timer, FALSE)
            /\ busy' = [busy EXCEPT ![e] = @ \cup {p}]
            /\ call' = [call EXCEPT ![c].pc = "delivered", ![c].proto = p]
            /\ UNCHANGED closing
    /\ UNCHANGED <<entryOf, nConnecting, cb, stale, logged, useCnt, expired, returning,
                   unrefThen, unrefs, takeCare, run, phase, conn>>

\* One iteration of the loop, when there is none: ProtocolsFactory.newConn()
PopNothing(c) ==
    /\ call[c].pc = "popping"
    /\ Poppable(c) = {}
    /\ nConnecting' = [nConnecting EXCEPT ![call[c].entry] = @ + 1]
    /\ nBusyAll' = nBusyAll + 1
    /\ call' = [call EXCEPT ![c].pc = "connecting"]
    /\ UNCHANGED <<entryOf, busy, idle, cb, stale, logged, nIdleAll, useCnt,
                   protoVars, taskVars, conn>>

\* MyProtocol.#clearDisconnected(), one iteration: the new connection takes
\* an item with its host out of the list, to do KILL and XA ROLLBACK
ClearDisconnected(c) ==
    /\ Macrotask
    /\ call[c].pc = "connecting"
    /\ \E i \in takeCare :
        /\ HostOf[pdsn[i]] = HostOf[call[c].dsn]
        /\ takeCare' = takeCare \ {i}
        /\ call' = [call EXCEPT ![c].held = @ \cup {i}]
    /\ UNCHANGED <<entryVars, countVars, protoVars, timer, run, phase, conn>>

\* newConn() returns: nothing in the list is for this host any more, and the
\* items that could not be settled are back in the list
NewConnOk(c) ==
    LET e == call[c].entry IN
    /\ Macrotask
    /\ call[c].pc = "connecting"
    /\ \A i \in takeCare : HostOf[pdsn[i]] # HostOf[call[c].dsn]
    /\ \E failed \in SUBSET call[c].held : takeCare' = takeCare \cup failed
    /\ \E p \in FreeProtos :
        /\ busy' = [busy EXCEPT ![e] = @ \cup {p}]
        /\ pdsn' = [pdsn EXCEPT ![p] = call[c].dsn]
        /\ expired' = expired \ {p}
        /\ call' = [call EXCEPT ![c].pc = "delivered", ![c].proto = p, ![c].held = {}]
    /\ nConnecting' = [nConnecting EXCEPT ![e] = @ - 1]
    /\ logged' = logged \cup {e}
    /\ timer' = StartedState(timer, FALSE)
    /\ UNCHANGED <<entryOf, idle, cb, stale, countVars, closing, returning, unrefThen,
                   unrefs, run, phase, conn>>

\* mutant of NewConnFails: #nBusyAll is not decremented
NewConnFails_NoDec(c) ==
    /\ Macrotask
    /\ call[c].pc = "connecting"
    /\ takeCare' = takeCare \cup call[c].held
    /\ nConnecting' = [nConnecting EXCEPT ![call[c].entry] = @ - 1]
    /\ call' = [call EXCEPT ![c].pc = "failed", ![c].held = {}]
    /\ logged' = logged \cup {call[c].entry}
    /\ UNCHANGED <<entryOf, busy, idle, cb, stale, countVars, protoVars, timer, run,
                   phase, conn>>

\* newConn() throws
NewConnFails(c) ==
    LET e == call[c].entry IN
    /\ Macrotask
    /\ call[c].pc = "connecting"
    /\ \E failed \in SUBSET call[c].held : takeCare' = takeCare \cup failed
    /\ nConnecting' = [nConnecting EXCEPT ![e] = @ - 1]
    /\ DecNBusyAll(call[c].dsn, e,
                   [call EXCEPT ![c].pc = "failed", ![c].held = {}],
                   nIdleAll, takeCare', timer)
    /\ logged' = logged \cup {e}
    /\ UNCHANGED <<entryOf, busy, idle, nIdleAll, useCnt, protoVars, run, conn>>

-----------------------------------------------------------------------------
(* Giving protos back *)

\* returnProtocol(p) up to its await.  The decision to recycle is made now,
\* and useTill may pass before it is carried out.  (useNTimes is abstracted:
\* when it is used up, the proto is closed as when its reset fails.)
ReturnProtocol(p, mayRecycle, thenUnref) ==
    /\ returning' = [returning EXCEPT ![p] =
                        IF mayRecycle /\ p \notin expired THEN "recycle" ELSE "close"]
    /\ unrefThen' = IF thenUnref THEN unrefThen \cup {p} ELSE unrefThen

\* Where #doReturnProtocol(p) finds what to remove: p in the entry of its
\* Dsn, or else any busy proto with the same Dsn object.
BusyPlaces(p) ==
    IF entryOf[pdsn[p]] # None /\ p \in busy[entryOf[pdsn[p]]]
    THEN {<<entryOf[pdsn[p]], p>>}
    ELSE {ep \in Mapped \X Protos : ep[2] \in busy[ep[1]] /\ pdsn[ep[2]] = pdsn[p]}

\* #doReturnProtocol(p, protocolForReuse).  A proto that is not found is
\* taken for one already returned, and nothing is done.
DoReturnProtocol(p, forReuse, calls, care, tm) ==
    \/ \E place \in BusyPlaces(p) :
        LET e == place[1] IN
        /\ busy' = [busy EXCEPT ![e] = @ \ {place[2]}]
        /\ idle' = IF forReuse THEN [idle EXCEPT ![e] = @ \cup {p}] ELSE idle
        /\ nIdleAll' = IF forReuse THEN nIdleAll + 1 ELSE nIdleAll
        /\ DecNBusyAll(pdsn[p], e, calls, nIdleAll', care, tm)
    \/ /\ BusyPlaces(p) = {}
       /\ call' = calls
       /\ timer' = tm
       /\ UNCHANGED <<busy, idle, nIdleAll, nBusyAll, cb, stale, phase>>

\* MyProtocol.end() completes, and returnProtocol(p) goes on.  The reset of a
\* connection may fail; then it is closed.
ReturnCompletes(p) ==
    /\ Macrotask
    /\ returning[p] # "no"
    /\ \E forReuse \in (IF returning[p] = "recycle" THEN BOOLEAN ELSE {FALSE}) :
        DoReturnProtocol(p, forReuse,
            [c \in Calls |-> IF call[c].pc = "returning" /\ call[c].proto = p
                             THEN FreeCall ELSE call[c]],
            takeCare, timer)
    /\ returning' = [returning EXCEPT ![p] = "no"]
    /\ unrefThen' = unrefThen \ {p}
    /\ unrefs' = IF p \in unrefThen THEN unrefs + 1 ELSE unrefs
    /\ expired' = {x \in expired : \E e \in Entries : x \in busy'[e] \cup idle'[e]}
    /\ run' = [r \in Runs |->
                  [run[r] EXCEPT !.calls = {c \in @ : call'[c].pc # "free"}]]
    /\ UNCHANGED <<entryOf, nConnecting, logged, useCnt, pdsn, closing, takeCare, conn>>

\* #closeConn(p): its await ends
CloseCompletes(p) ==
    /\ Macrotask
    /\ closing[p] # None
    /\ DecNBusyAll(pdsn[p], closing[p], call, nIdleAll, takeCare, timer)
    /\ closing' = [closing EXCEPT ![p] = None]
    /\ expired' = expired \ {p}
    /\ run' = [r \in Runs |-> [run[r] EXCEPT !.protos = @ \ {p}]]
    /\ UNCHANGED <<entryOf, busy, idle, nConnecting, logged, nIdleAll, useCnt, pdsn,
                   returning, unrefThen, unrefs, takeCare, conn>>

\* unref()
Unref ==
    /\ useCnt' = useCnt - 1
    /\ phase' = IF useCnt = 1 /\ nBusyAll = 0 THEN OnEnd(phase) ELSE phase

\* mutant of UnrefLater: unref() is called when nothing was disposed
UnrefLater_Unguarded ==
    /\ Microtask
    /\ unrefs' = unrefs - 1
    /\ Unref
    /\ UNCHANGED <<entryVars, nBusyAll, nIdleAll, pdsn, expired, closing, returning,
                   unrefThen, takeCare, timer, run, call, conn>>

\* promise.finally(() => this.#pool.unref())
UnrefLater ==
    /\ Microtask
    /\ unrefs > 0
    /\ unrefs' = unrefs - 1
    /\ Unref
    /\ UNCHANGED <<entryVars, nBusyAll, nIdleAll, pdsn, expired, closing, returning,
                   unrefThen, takeCare, timer, run, call, conn>>

-----------------------------------------------------------------------------
(* MyConn k *)

\* new MyConn: pool.ref()
Create(k) ==
    /\ Microtask
    /\ conn[k].st = "unborn"
    /\ conn' = [conn EXCEPT ![k].st = "live"]
    /\ useCnt' = useCnt + 1
    /\ UNCHANGED <<entryVars, nBusyAll, nIdleAll, protoVars, taskVars, call>>

\* connect(), that each query also calls, when there is no protocol yet
Connect(k, c) ==
    /\ ~InSync
    /\ conn[k].st = "live"
    /\ conn[k].proto = None /\ ~conn[k].isConnecting
    /\ conn' = [conn EXCEPT ![k].isConnecting = TRUE]
    /\ GetProtocol(c, DsnOf[k], "connect", k, None)
    /\ UNCHANGED <<busy, idle, nConnecting, countVars, protoVars, taskVars>>

\* mutant of Connected: does not check that end() was called
Connected_NoCheck(c) ==
    /\ Microtask
    /\ call[c].pc = "delivered" /\ call[c].kind = "connect"
    /\ conn' = [conn EXCEPT ![call[c].conn].proto = call[c].proto,
                            ![call[c].conn].isConnecting = FALSE]
    /\ call' = [call EXCEPT ![c] = FreeCall]
    /\ UNCHANGED <<entryVars, countVars, protoVars, taskVars>>

\* connect() goes on after getProtocol() returned: if end() was called, the
\* proto goes back to the pool.  `finally` clears #isConnecting in any case.
Connected(c) ==
    LET k == call[c].conn
        p == call[c].proto
    IN
    /\ Microtask
    /\ call[c].pc = "delivered" /\ call[c].kind = "connect"
    /\ IF conn[k].isConnecting
       THEN /\ conn' = [conn EXCEPT ![k].proto = p, ![k].isConnecting = FALSE]
            /\ UNCHANGED <<returning, unrefThen>>
       ELSE /\ ReturnProtocol(p, TRUE, FALSE)
            /\ UNCHANGED conn
    /\ call' = [call EXCEPT ![c] = FreeCall]
    /\ UNCHANGED <<entryVars, countVars, pdsn, expired, closing, unrefs, taskVars>>

\* ... or after it threw
ConnectFails(c) ==
    /\ Microtask
    /\ call[c].pc = "failed" /\ call[c].kind = "connect"
    /\ conn' = [conn EXCEPT ![call[c].conn].isConnecting = FALSE]
    /\ call' = [call EXCEPT ![c] = FreeCall]
    /\ UNCHANGED <<entryVars, countVars, protoVars, taskVars>>

\* What #doEnd() does to the MyConn; st is "disposed" in [Symbol.dispose]()
ConnEnded(k, st) ==
    conn' = [conn EXCEPT ![k] = [st |-> st, proto |-> None, isConnecting |-> FALSE]]

\* end(), also called by a query that met a fatal error
End(k) ==
    /\ ~InSync
    /\ conn[k].st = "live"
    /\ conn[k].proto # None \/ conn[k].isConnecting
    /\ ConnEnded(k, "live")
    /\ IF conn[k].proto # None
       THEN ReturnProtocol(conn[k].proto, TRUE, FALSE)
       ELSE UNCHANGED <<returning, unrefThen>>
    /\ UNCHANGED <<entryVars, countVars, pdsn, expired, closing, unrefs, taskVars, call>>

\* [Symbol.dispose](), the first time
Dispose(k) ==
    /\ ~InSync
    /\ conn[k].st = "live"
    /\ ConnEnded(k, "disposed")
    /\ IF conn[k].proto # None
       THEN ReturnProtocol(conn[k].proto, TRUE, TRUE) /\ UNCHANGED <<useCnt, phase>>
       ELSE Unref /\ UNCHANGED <<returning, unrefThen>>
    /\ UNCHANGED <<entryVars, nBusyAll, nIdleAll, pdsn, expired, closing, unrefs,
                   takeCare, timer, run, call>>

\* forceImmediateDisconnect(): care means that a query was running (and is to
\* be killed) or that an XA transaction was prepared (and is to be rolled back)
ForceImmediateDisconnect(k, care) ==
    LET p == conn[k].proto
        tm == IF care THEN StartedState(timer, TRUE) ELSE timer
    IN
    /\ ~InSync
    /\ k \in Forcers
    /\ conn[k].st = "live" /\ p # None
    /\ ConnEnded(k, "live")
    /\ takeCare' = IF care THEN takeCare \cup {p} ELSE takeCare
    /\ DoReturnProtocol(p, FALSE, call, takeCare', tm)
    /\ UNCHANGED <<entryOf, nConnecting, logged, useCnt, protoVars, run>>

\* killQuery(): in a connection of its own, and without a reference to the pool
KillQuery(k, c) ==
    /\ ~InSync
    /\ k \in Killers
    /\ conn[k].proto # None
    /\ GetProtocol(c, DsnOf[k], "kill", k, None)
    /\ UNCHANGED <<busy, idle, nConnecting, countVars, protoVars, taskVars, conn>>

KillSend(c) ==
    /\ Microtask
    /\ call[c].pc = "delivered" /\ call[c].kind = "kill"
    /\ call' = [call EXCEPT ![c].pc = "killing"]
    /\ UNCHANGED <<entryVars, countVars, protoVars, taskVars, conn>>

\* mutant of KillSent: returnProtocol() is not in `finally`, and KILL failed
KillSent_NotReturned(c) ==
    /\ Macrotask
    /\ call[c].pc = "killing"
    /\ call' = [call EXCEPT ![c] = FreeCall]
    /\ UNCHANGED <<entryVars, countVars, protoVars, taskVars, conn>>

\* KILL QUERY was executed, or failed: the proto goes back in any case
KillSent(c) ==
    /\ Macrotask
    /\ call[c].pc = "killing"
    /\ ReturnProtocol(call[c].proto, TRUE, FALSE)
    /\ call' = [call EXCEPT ![c] = FreeCall]
    /\ UNCHANGED <<entryVars, countVars, pdsn, expired, closing, unrefs, taskVars, conn>>

KillFails(c) ==
    /\ Microtask
    /\ call[c].pc = "failed" /\ call[c].kind = "kill"
    /\ call' = [call EXCEPT ![c] = FreeCall]
    /\ UNCHANGED <<entryVars, countVars, protoVars, taskVars, conn>>

-----------------------------------------------------------------------------
(* #commonTask(): activation r *)

\* The timer of #hCommonTask fires, and calls #commonTask()
TimerFires(r) ==
    /\ Macrotask
    /\ timer = "Active"
    /\ r \in Ticks /\ run[r].st = "off"
    /\ timer' = "Executing"
    /\ run' = [run EXCEPT ![r].st = "start"]
    /\ UNCHANGED <<entryVars, countVars, protoVars, takeCare, phase, call, conn>>

\* mutant of IdleToClose: useTill is not looked at
IdleToClose_NotExpired(e, closeAllIdle) ==
    IF closeAllIdle \/ \E i \in takeCare : entryOf[pdsn[i]] = e
    THEN idle[e] ELSE {}

\* The idle protos of entry e that #commonTask(closeAllIdle) closes
IdleToClose(e, closeAllIdle) ==
    IF closeAllIdle \/ \E i \in takeCare : entryOf[pdsn[i]] = e
    THEN idle[e] ELSE idle[e] \cap expired

\* "All removed?": an entry that is deleted from the map.  Its callbacks do
\* not count.
Removable(e) ==
    /\ busy[e] = {}
    /\ nConnecting[e] = 0
    /\ e \notin logged

\* The loop over #protocolsPerSchema, and the snapshot of the list of
\* disconnected protos.  (Bound: there is a free call for each of them.)
TaskBegins(r) ==
    LET close(e) == IdleToClose(e, r = Final)
        closed   == UNION {close(e) : e \in Mapped}
    IN
    /\ run[r].st = "start"
    /\ Cardinality(takeCare) <= Cardinality({c \in Calls : call[c].pc = "free"})
    /\ idle' = [e \in Entries |-> IF e \in Mapped THEN idle[e] \ close(e) ELSE idle[e]]
    /\ nIdleAll' = nIdleAll - Cardinality(closed)
    /\ nBusyAll' = nBusyAll + Cardinality(closed)
    /\ closing' = [p \in Protos |->
                      IF p \in closed
                      THEN CHOOSE e \in Mapped : p \in close(e)
                      ELSE closing[p]]
    /\ entryOf' = [d \in Dsns |->
                      IF /\ entryOf[d] # None
                         /\ Removable(entryOf[d]) /\ idle'[entryOf[d]] = {}
                      THEN None ELSE entryOf[d]]
    /\ stale' = stale \ Mapped
    /\ run' = [run EXCEPT ![r] = [st |-> "loop", todo |-> takeCare,
                                  protos |-> closed, calls |-> {}]]
    /\ takeCare' = {}
    /\ UNCHANGED <<busy, nConnecting, cb, logged, useCnt, pdsn, expired, returning,
                   unrefThen, unrefs, timer, phase, call, conn>>

\* The DSN has all its maxConns in use
Saturated(d) == entryOf[d] # None /\ InUse(entryOf[d]) >= MaxConns[d]

\* The loop over the snapshot, one item: it goes back to the list, ...
TaskRequeues(r, i) ==
    /\ run[r].st = "loop" /\ i \in run[r].todo
    /\ \A c \in Calls : call[c].pc # "popping"
    /\ Saturated(pdsn[i])
    /\ takeCare' = takeCare \cup {i}
    /\ run' = [run EXCEPT ![r].todo = @ \ {i}]
    /\ UNCHANGED <<entryVars, countVars, protoVars, timer, phase, call, conn>>

\* ... or getProtocol() is called for it
TaskCares(r, i, c) ==
    /\ run[r].st = "loop" /\ i \in run[r].todo
    /\ \A x \in Calls : call[x].pc # "popping"
    /\ ~Saturated(pdsn[i])
    /\ GetProtocol(c, pdsn[i], "care", None, i)
    /\ run' = [run EXCEPT ![r].todo = @ \ {i}, ![r].calls = @ \cup {c}]
    /\ UNCHANGED <<busy, idle, nConnecting, countVars, protoVars, takeCare, timer,
                   phase, conn>>

\* The end of the synchronous part
TaskAwaits(r) ==
    /\ run[r].st = "loop" /\ run[r].todo = {}
    /\ \A c \in Calls : call[c].pc # "popping"
    /\ timer' = IF nBusyAll + nIdleAll = 0 /\ takeCare = {} THEN StoppedState(timer) ELSE timer
    /\ run' = [run EXCEPT ![r].st = "await"]
    /\ UNCHANGED <<entryVars, countVars, protoVars, takeCare, phase, call, conn>>

\* getProtocol() of TaskCares returned: the proto goes back at once
CareDelivered(c) ==
    /\ Microtask
    /\ call[c].pc = "delivered" /\ call[c].kind = "care"
    /\ ReturnProtocol(call[c].proto, c \notin run[Final].calls, FALSE)
    /\ call' = [call EXCEPT ![c].pc = "returning", ![c].info = None]
    /\ UNCHANGED <<entryVars, countVars, pdsn, expired, closing, unrefs, taskVars, conn>>

\* ... or it threw: the item goes back to the list
CareFails(c) ==
    /\ Microtask
    /\ call[c].pc = "failed" /\ call[c].kind = "care"
    /\ takeCare' = takeCare \cup {call[c].info}
    /\ call' = [call EXCEPT ![c] = FreeCall]
    /\ run' = [r \in Runs |-> [run[r] EXCEPT !.calls = @ \ {c}]]
    /\ UNCHANGED <<entryVars, countVars, protoVars, timer, phase, conn>>

\* All the promises are settled: #commonTask() ends, and the timer function
\* of the Interval goes on (see CallbackSettles of module Interval)
TaskEnds(r) ==
    /\ Microtask
    /\ r \in Ticks /\ Settled(r)
    /\ IF Reexecutes(timer)
       THEN /\ timer' = "Executing"
            /\ run' = [run EXCEPT ![r] = [NoRun EXCEPT !.st = "start"]]
            /\ UNCHANGED phase
       ELSE /\ timer' = FinishedState(timer)
            /\ run' = [run EXCEPT ![r] = NoRun]
            /\ phase' = IF timer = "Terminated" /\ phase = "waitTask"
                        THEN "intervalsDone" ELSE phase
    /\ UNCHANGED <<entryVars, countVars, protoVars, takeCare, call, conn>>

-----------------------------------------------------------------------------
(* [Symbol.asyncDispose]() of the pool.  #hXaTask is not in use here. *)

\* await Promise.all([this.#hCommonTask[Symbol.asyncDispose](), ...])
DisposeIntervals ==
    /\ timer' = "Terminated"
    /\ phase' = IF IsExecuting(timer) THEN "waitTask" ELSE "intervalsDone"

AsyncDispose ==
    /\ ~InSync
    /\ Disposes
    /\ phase = "open"
    /\ IF useCnt # 0 \/ nBusyAll # 0
       THEN phase' = "waitEnd" /\ UNCHANGED timer
       ELSE DisposeIntervals
    /\ UNCHANGED <<entryVars, countVars, protoVars, takeCare, run, call, conn>>

\* #onend was called
AllEnded ==
    /\ Microtask
    /\ phase = "ended"
    /\ DisposeIntervals
    /\ UNCHANGED <<entryVars, countVars, protoVars, takeCare, run, call, conn>>

\* await this.#commonTask(true)
CloseIdle ==
    /\ Microtask
    /\ phase = "intervalsDone"
    /\ phase' = "final"
    /\ run' = [run EXCEPT ![Final].st = "start"]
    /\ UNCHANGED <<entryVars, countVars, protoVars, takeCare, timer, call, conn>>

Disposed ==
    /\ Microtask
    /\ Settled(Final)
    /\ phase' = "done"
    /\ run' = [run EXCEPT ![Final] = NoRun]
    /\ UNCHANGED <<entryVars, countVars, protoVars, takeCare, timer, call, conn>>

-----------------------------------------------------------------------------
(* Time *)

\* useTill of proto p passes
Expire(p) ==
    /\ Macrotask
    /\ p \notin expired
    /\ \E e \in Entries : p \in busy[e] \cup idle[e]
    /\ expired' = expired \cup {p}
    /\ UNCHANGED <<entryVars, countVars, pdsn, closing, returning, unrefThen, unrefs,
                   taskVars, call, conn>>

\* More than TRACK_HEALH_STATUS_FOR_PERIOD_SEC passed since the last log()
HealthLapses(e) ==
    /\ Macrotask
    /\ e \in logged
    /\ logged' = logged \ {e}
    /\ UNCHANGED <<entryOf, busy, idle, nConnecting, cb, stale, countVars, protoVars,
                   taskVars, call, conn>>

-----------------------------------------------------------------------------

CallNext(c) ==
    \/ \E late \in BOOLEAN : WaitTimesOut(c, late)
    \/ WaitEnds(c)
    \/ \E p \in Protos : PopIdle(c, p)
    \/ PopNothing(c)
    \/ ClearDisconnected(c) \/ NewConnOk(c) \/ NewConnFails(c)
    \/ Connected(c) \/ ConnectFails(c)
    \/ KillSend(c) \/ KillSent(c) \/ KillFails(c)
    \/ CareDelivered(c) \/ CareFails(c)

ProtoNext(p) == ReturnCompletes(p) \/ CloseCompletes(p) \/ Expire(p)

ConnNext(k) ==
    \/ Create(k) \/ End(k) \/ Dispose(k)
    \/ \E care \in BOOLEAN : ForceImmediateDisconnect(k, care)
    \/ \E c \in Calls : Connect(k, c) \/ KillQuery(k, c)

TaskNext(r) ==
    \/ TimerFires(r) \/ TaskBegins(r) \/ TaskAwaits(r) \/ TaskEnds(r)
    \/ \E i \in Protos : TaskRequeues(r, i)
    \/ \E i \in Protos, c \in Calls : TaskCares(r, i, c)

DisposeNext == AsyncDispose \/ AllEnded \/ CloseIdle \/ Disposed

Next ==
    \/ \E c \in Calls : CallNext(c)
    \/ \E p \in Protos : ProtoNext(p)
    \/ \E k \in Conns : ConnNext(k)
    \/ \E r \in Runs : TaskNext(r)
    \/ \E e \in Entries : HealthLapses(e)
    \/ UnrefLater
    \/ DisposeNext

Spec == Init /\ [][Next]_vars

\* The continuations of call c that wait for nothing, and the timers and
\* network events it waits for (they come, if only as a failure).
CallContinues(c) ==
    \/ WaitEnds(c)
    \/ \E p \in Protos : PopIdle(c, p)
    \/ PopNothing(c)
    \/ Connected(c) \/ ConnectFails(c)
    \/ KillSend(c) \/ KillFails(c)
    \/ CareDelivered(c) \/ CareFails(c)

CallEvent(c) ==
    \/ WaitTimesOut(c, TRUE)
    \/ ClearDisconnected(c) \/ NewConnOk(c) \/ NewConnFails(c)
    \/ KillSent(c)

\* The event loop serves every continuation, timer and network event that
\* recurs (strong fairness, because each of them has to wait while others
\* run).
Fairness ==
    /\ \A c \in Calls : SF_vars(CallContinues(c)) /\ SF_vars(CallEvent(c))
    /\ \A p \in Protos : SF_vars(ReturnCompletes(p) \/ CloseCompletes(p))
    /\ \A r \in Runs : SF_vars(TaskNext(r))
    /\ SF_vars(UnrefLater \/ AllEnded \/ CloseIdle \/ Disposed)

FairSpec == Spec /\ Fairness

-----------------------------------------------------------------------------
(* Safety *)

InBusy(p) == \E e \in Entries : p \in busy[e]

(* An entry of the pool never has more than maxConns connections that are in *)
(* use or being established, although getProtocol() checks it before, and    *)
(* the connection appears after, an await (my_pool.ts:305, 323, 351).        *)
SlotLimit ==
    \A d \in Dsns : entryOf[d] # None =>
        Cardinality(busy[entryOf[d]]) + nConnecting[entryOf[d]] <= MaxConns[d]

(* The counters of the pool tell the truth after every step: #nBusyAll is    *)
(* the number of connections in use, being established or being closed, and  *)
(* #nIdleAll the number of idle ones.  The stop of the task and the end of   *)
(* asyncDispose() depend on them (my_pool.ts:443-462, 533).                  *)
CountersExact ==
    /\ nBusyAll = Cardinality({ep \in Entries \X Protos : ep[2] \in busy[ep[1]]})
                  + Cardinality({c \in Calls : call[c].pc = "connecting"})
                  + Cardinality({p \in Protos : closing[p] # None})
    /\ nIdleAll = Cardinality({ep \in Entries \X Protos : ep[2] \in idle[ep[1]]})

\* Who may send commands to proto p now
Users(p) ==
    {<<"conn", k>> : k \in {k \in Conns : conn[k].proto = p}}
    \cup {<<"call", c>> : c \in {c \in Calls : call[c].proto = p
                                            /\ call[c].pc \in {"delivered", "killing"}}}
    \cup (IF returning[p] # "no" THEN {<<"returnProtocol", p>>} ELSE {})
    \cup (IF closing[p] # None THEN {<<"closeConn", closing[p]>>} ELSE {})

(* A connection has at most one user: whatever the interleaving of connect() *)
(* and end(), of popping, stealing and closing idle connections, no two of   *)
(* them speak to the server at the same time, and an idle one has no user.   *)
(* One in use is in the busy array where #doReturnProtocol() looks for it,   *)
(* also when it was stolen or its entry was deleted: "assume: returnProtocol *)
(* already called" (my_pool.ts:391) never applies to it.                     *)
ExclusiveUse ==
    \A p \in Protos :
        /\ Cardinality(Users(p)) <= 1
        /\ (\E u \in Users(p) : u[1] # "closeConn")
              => entryOf[pdsn[p]] # None /\ p \in busy[entryOf[pdsn[p]]]
        /\ \A e, f \in Entries : p \in idle[e] =>
              /\ Users(p) = {}
              /\ p \in idle[f] => e = f

(* No connection is leaked: one that occupies a slot has a user, or is on    *)
(* its way back, so that the slot will be free again (each path of connect() *)
(* and killQuery() that got a connection from the pool gives it back). Nor   *)
(* is a reference to the pool: their count is the number of MyConns in use,  *)
(* also while a connection is on its way back.                               *)
NoneLeaked ==
    /\ \A p \in Protos : InBusy(p) => Users(p) # {}
    /\ useCnt = Cardinality({k \in Conns : conn[k].st = "live"}) + Cardinality(unrefThen) + unrefs

(* The periodic task is scheduled (or runs) as long as the pool has a        *)
(* connection, idle or in use: else an idle connection would outlive its     *)
(* keepAliveTimeout (stop() in my_pool.ts:449 and 534 races with start() in  *)
(* getProtocol()), up to the disposal of the pool, which closes the idle     *)
(* connections itself. And it is never entered while a previous activation   *)
(* has something left to await, not even when stop() and start(true) come in *)
(* the middle of it. (The #commonTask(true) of asyncDispose() can overlap    *)
(* with an activation that was stopped: the Interval does not wait for it.)  *)
JanitorScheduled ==
    /\ (nIdleAll > 0 \/ \E p \in Protos : InBusy(p)) => timer # "Inactive"
    /\ \A r, s \in Ticks :
          /\ run[r].st # "off" /\ ~Settled(r)
          /\ run[s].st # "off" /\ ~Settled(s)
          => r = s

(* A MyConn that is connecting holds no connection, so that the one that     *)
(* connect() gets never replaces another, also when calls of connect() and   *)
(* end() overlap; a disposed MyConn never gets one.                          *)
ConnectNeverOverwrites ==
    \A k \in Conns : /\ conn[k].isConnecting => conn[k].proto = None
                     /\ conn[k].st # "live" => conn[k].proto = None

-----------------------------------------------------------------------------
(* Liveness, under Fairness *)

(* Every getProtocol() ends, with a connection or with an exception, even if *)
(* no MyConn ever gives its connection back.                                 *)
CallsEnd == \A c \in Calls : (call[c].pc # "free") ~> (call[c].pc = "free")

(* An idle connection past its useTill does not stay in a pool that was not  *)
(* disposed of.                                                              *)
ExpiredIsClosed ==
    \A p \in Protos :
        (p \in expired /\ \E e \in Entries : p \in idle[e])
            ~> (phase # "open" \/ \A e \in Entries : p \notin idle[e])
=============================================================================

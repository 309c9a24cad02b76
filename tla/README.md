# Verification of office_spirit_mysql

TLA+ models of the MySQL client library in `src/` (TypeScript, Deno), the TLC
configurations that check them on small instances, and TLAPS proofs of the
properties that matter most. The models are translated from the code in
`src/private/`; `PROJECT.json` says which lines each definition stands for.

## 1. The system

The library has no threads. Concurrency comes from the event loop: every
`await` is a point where other callers, timers and network events run. The
state that they share is in the pool, and in a connection that several of them
use.

| Component | State | Operations | Talks to | What makes it correct |
|---|---|---|---|---|
| `Interval` (`interval.ts`) | state, handle of the timer, `#onEnd` | start, stop, asyncDispose, the timer function | `Pool` owns two | one timer at most, no run after disposal, no wanted run lost |
| `Pool` (`my_pool.ts`) | map of `Protocols` (idle, busy, connecting, waiters, health), three counters, list of disconnected connections to take care of | getProtocol, returnProtocol, forced return, `#commonTask`, `#xaTask`, asyncDispose, ref, unref | `MyConn`, `MySession`, `ProtocolsFactory`, `Interval` | `maxConns` is respected, counters are exact, one user per connection, nothing leaks, callers and shutdown end, deferred KILL / XA ROLLBACK happen |
| `ProtocolsFactory` (`my_pool.ts`) | recycled buffers, retrying promises per DSN | newConn (retries), closeConn | `MyProtocol` | attempts end by `connectionTimeout` |
| `MyConn` (`my_conn.ts`) | protocol, `#isConnecting`, pending transaction SQL, XA id and whether it is prepared, savepoints | connect, end, dispose, forceImmediateDisconnect, killQuery, queries, startTrx, savepoint, rollback, prepareCommit, commit | `Pool`, `MyProtocol` | a late connection is given back; pending SQL precedes the first query; no XA is lost |
| `MySession` (`my_session.ts`) | its connections, transaction options, savepoint counter | conn, startTrx, savepoint, rollback, commit (2-phase), dispose | `MyConn` | all the connections of a distributed transaction commit, or none, up to the documented exceptions |
| `MyProtocol` (`my_protocol.ts`) | `ProtocolState`, unread resultsets, pending close of statements, status flags | inst, sendComQuery and other commands, reading of rows, end, forceImmediateDisconnect | server, `Resultsets` | one command at a time, packets are read by the one who awaits them, a recycled connection is clean |
| `Resultsets` (`resultsets.ts`) | columns, row type, link to the protocol | iteration, store, discard, exec, disposal | `MyProtocol` | rows go to their reader only |
| Framing (`my_protocol_reader*.ts`) | buffer, packet header, sequence ids, deferred packets | read and write of packets, compressed or not | socket | every byte once, in order, across packet, buffer and character boundaries |
| Handshake (`MyProtocol.inst`, `auth_plugins.ts`) | capabilities, plugin and its state, `#closer` | readHandshake, TLS, auth response, switch, progress, initSql | server | success only when the server accepted; the password travels protected; no socket is left open |
| `HealthStatus`, `XaIdGen` | ring buffer of counters; last second and enumerator | log, isEmpty, getHealthStatusForPeriod; next, decode | `Pool`; `MySession` | counters do not overflow into each other; ids are unique |
| Dsn, value conversion, SQL logging, errors, constants | | | | data processing; see section 7 |

Hard behaviours: state that is read before an `await` and used after it
(`getProtocol`, `connect`, `#commonTask`), timeouts that race with the event
waited for (`#waitHaveSlots`), tasks that stop and start themselves, deferred
work for connections that were cut off, and shutdown while all of it goes on;
end() of a connection that somebody reads from; replies of several commands in
one round-trip of which some are errors; commands that are deferred, retried in
another connection, or split across packets; and, in distributed transactions, servers that keep a prepared transaction
when the client, the connection or the reply is lost.
`PROJECT.json` lists these hazards at their lines.

## 2. Modules

`IntervalState` - the states of an `Interval` and what start(), stop() and the
end of a callback make of them, as operators. Used by both models below.

`Interval` - one `Interval` with its timers and the activations of its timer
function. `state`, `hTimer` and `disposal` are `#state`, `#hTimer` and
`#onEnd` with its promise; `armed` are the timers that the runtime has;
`runs` the activations that await the callback. `wantRun` and `stopMidRun`
are history variables for the properties.

`Pool` - the pool with the `MyConn`s that use it. A step is the code between
two awaits. Where this code is a loop (popping idle connections in
`getProtocol`, the body of `#commonTask`) it is several steps, and `InSync`
excludes all others until the loop ends. `MicrotaskPending` says that some
promise continuation is ready: such continuations run before any timer or
network event (`Macrotask`). Calls of the library by the application may come
from a continuation too, so they need only `~InSync`.

| Variable | In the code |
|---|---|
| `entryOf` | `#protocolsPerSchema`, from DSN to `Protocols` object |
| `busy`, `idle`, `nConnecting`, `cb` with `stale`, `logged` | fields of a `Protocols` object: the arrays as sets, the callbacks split into the live ones and whether there are timed out ones, `!healthStatus.isEmpty()` |
| `nBusyAll`, `nIdleAll`, `useCnt` | the counters |
| `takeCare` | `#takeCareOfDisconneced`; an item is named by the connection it is about |
| `timer`, `run` | state of `#hCommonTask`; activations of `#commonTask` |
| `phase` | progress of `[Symbol.asyncDispose]` |
| `call` | activations of `getProtocol` with what their callers (`connect`, `killQuery`, `#commonTask`) do afterwards |
| `pdsn`, `expired`, `closing`, `returning`, `unrefThen`, `unrefs` | what a connection is bound to and which asynchronous operations run on it |
| `conn` | `MyConn`: `#isDisposed`, `#protocol`, `#isConnecting` |

Actions are named for the operation, or for the point where it goes on:
`Connect`, then `WaitEnds`, `PopIdle`, `PopNothing`, `NewConnOk` or
`NewConnFails` of its call, then `Connected` or `ConnectFails`.

Abstractions. Time is the events it causes: a timer fires, `useTill` passes
(`Expire`), a health status becomes empty (`HealthLapses`). A waiter's callback
whose time is over is woken by its own timer, that is due at the same moment;
that `#closeHaveSlotsTimedOut` may wake it first is the same step. `useNTimes`
that is used up is one of the reasons for which a returned connection is not
reused. `connectionTimeout` is positive. `newConn` with its retries is one
operation that succeeds or fails. It succeeds only when nothing is left in
the list of items to take care of for its host; what is pushed after
`#clearDisconnected` looked, and before `newConn` returned, is taken in the model
by that connection, in the code by a later one, and no property depends on
it. The arrays are sets: which idle connection
is the last one is a nondeterministic choice. A `MySession` holds a reference
to the pool as a `MyConn` that is not connected does. DSN objects are not
edited while in use; DSNs that share a host have the same `maxConns`.

`XaIdGen` - the generator of XA ids: `lastTime` and `lastEnum` are the fields,
`now` the clock in seconds, that does not go back. `issued` and `twice` are
history variables.

`Xa` - transactions of a `MySession` over its `MyConn`s. A step is a call up
to its first await, or one command together with what the code does with the
reply. A command is answered; or refused; or finds the connection dead; or is
executed, but the connection is lost before the reply. Each `MyConn` has a
server of its own, since a session has one connection per DSN.

| Variable | In the code |
|---|---|
| `sess` | `MySession`: `pc` is what its operation awaits; `on`, `xa` are `#trxOptions`; the others are parameters and local variables of the operation (`andChain`, `wantRestartXa`, `trxOptions` of commit(), whether #doAll() saw an error) |
| `members` | `#connsArr` |
| `conn` | `MyConn`: `proto` (connection id of `#protocol`), `fresh` (its state is IDLE_IN_POOL), `inTrans` (SERVER_STATUS_IN_TRANS), `xa` with `xaCid` (`#curXaId`; `xaCid` 0 is `#curXaIdAppendConn`), `prepared` (`#isXaPrepared`), `pending` (`pendingTrxSql`), `op` (the command that is awaited) |
| `lastTrx` | ids given out by `XaIdGen`, that is proved not to repeat them |
| `idle`, `ending`, `nextCid` | the pool, as far as it hands connections on: idle ones, those in `MyProtocol.end()`, the next connection id |
| `alive`, `branch` | external: threads of each server, and the state of each XA there with the connection id that is in its name and the thread that started it |
| `mgr` | `#xaTask` for each server, of any process: the step it is at, and its list `xas` |
| `faults`, `harmed`, `left` | number of faults; history variables for the properties |

The session's operations (`StartTrx`, `Commit`, `Rollback`, `SessionConn`,
`DisposeSession`) put every connection to work (`EnterPrepare`, `EnterCommit`,
`EnterRollback`), the connections run their commands (`PrepareCommit`,
`ConnCommit`, then `UndoCommit` if it failed, `ConnRollback`,
`ConnRollbackChain`), and `PrepareEnds`, `CommitEnds`, `RollbackEnds` go on
when all are settled. Queries are `Query`, `QueryConnects`, then `QueryRuns`,
`QueryRefused` or `QueryDead`; the first one sends the pending start.

Abstractions. The application awaits its queries before it calls the session
(`onBeforeCommit` of the session may query), starts transactions through the
session only, and calls what `Uses` allows; `left` marks the XAs that it
abandons by `MyConn.end()`. Savepoints are not there. Both sides see the loss
of a connection at once. A thread that ends or is reset (COM_RESET_CONNECTION)
loses its XA unless it is prepared; so an XA START that was executed, but whose
reply was lost, leaves the same state as one that was not. `Detach` is the server's
`xa_detach_on_prepare`: with it, a prepared XA belongs to no thread. The
connections to the pool never run out of retries (`nRetriesRemaining` is
`maxConns`). Other sessions, and the manager's own connections, are not in
`idle`. A crash is that of the whole process, which then begins anew.

`Protocol` - one established `MyProtocol` with the `ResultsetsInternal` objects
that read from it. Tasks call it, `Ender` calls end() (in the code, the pool
does). A step is the code between two awaits, and reading a packet is an await.

| Variable | In the code |
|---|---|
| `state`, `cur`, `lastReader`, `pendingCloseStmts` | `#state`, `#curResultsets`, `#curLastColumnReader`, `#pendingCloseStmts` |
| `moreExists` | SERVER_MORE_RESULTS_EXISTS of `statusFlags` |
| `onEndSession`, `endState` | `#onEndSession`, the callback by which `#setState` tells end() that the call in progress is over |
| `isReading`, `colLeft` | local variables of the reader of a last column |
| `rs` | `ResultsetsInternal` objects, by the command that made them |
| `op` | the call that each task is in, with its local variables |
| `ended` | what end() returned: a connection to recycle, or none |
| `conn`, `wire`, `srvStmts` | external: socket, packets that nobody read yet (each with the command it answers), prepared statements of the server |

`SendComQuery`, `SendThreeQueries`, `SendComStmtPrepare` and `ExecStmt` run up
to the first await; `Send`, `ReadAux`, `Response` (of execStmt: `ExecResponse`),
`LocalInfile`, `ReadRow`, `ReadChunk`, `NextResponse`, `Discard` and `IoFails` go on from there; `End` goes
on as `EndResumes`, `Discard`, `EndFinishes`, `ResetRead`, `InitSqlRead` or `ResetFails`.

Abstractions. A packet is what the state machine tells apart of it (`Kinds`);
column definitions are one packet with the column count. A call that throws at
once changes nothing and is no step. SQL loggers are not there: with one,
there are more awaits. An OK packet that is taken for the response to COM_STMT_PREPARE
(`TakesOkForStmt`) has any numbers in it: so many packets are read, or it fails, or it waits
for bytes that do not come (pc "columns"); the flag in the EOF behind column definitions,
that CLIENT_DEPRECATE_EOF leaves out, is any. Assertions are off, as in production. `Replies` are the replies that the server gives: `WellFormed`
says which sequences of packets are one (`Follows`). An error that lets retry (`errR`) is only
a first packet: behind another result nothing is retried, so it is like `err`; behind LOCAL INFILE
it is left out. `RepliesToReads`,
`RepliesAfterErr`, `RepliesToExec`, `AuxMayFail`, `UsesFailed` and `ExecsOnStaleFlag` leave out
what the code does not get right (section 4, Protocol): `CopedWith` names the replies with which it copes, TLC evaluates it on
the instance, and the theorems assume it.

`FlatStream` - what the reader promises: fields read one after the other from a
stream of payload bytes, without packets.

`PacketReader` - `MyProtocolReader`. `r` has the fields of the object
(`bufferStart`, the bytes up to `bufferEnd`, `payloadLength`, `packetOffset`,
`sequenceId`, `totalBytesInPacket`), `frame` is `#inflated` or
`#verbatimRemaining`, `wire` the bytes to come, in chunks of any size. `Call` is
`readX()`, and, if it returned nothing, the beginning of `readXAsync()`, whose steps are
`todo`. 0xFFFFFF, the header's 4 bytes, the buffer and the longest length-encoded integer are
constants, scaled down together. It implements `FlatStream`: the payload
bytes are numbered, so the mapping is the identity on `fields`, `nRead`, `value`, `broken`.

`PacketWriter` - `MyProtocolReaderWriter` with the batches of commands that its
callers write: variables are its fields, `job` the local variables of
`sendWithData()`, `srv` the server, which reassembles packets and notes what is
wrong. A `Program` is what one round-trip writes. Bytes are numbered.

`TrxLog` - what savepoints promise: a log of writes and points that rollback() cuts.

`Trx` - transactions and savepoints of a session and of its `MyConn`s, with
commands that wait in `pendingTrxSql`. Its `conn` is another view of the
`MyConn` of `Xa`: no distributed transactions, and instead the list of pending
commands with the number of those sent (`sent`), the two kinds of savepoints
(`enum`, `sess.enum`), the cached statement (`stmt`) and a call whose connection was
ended under it (`old`). `srv` is the server's thread. `want`, `live`, `result` are
history variables: what the application was told. `Trx` implements `TrxLog` by
`LogOf`: the server's log and what is still to be sent, without the points
that the application cannot use. `Allows` is empty in the run: each element is something
that an application can do and for which the code fails (section 4, Transactions).

`Handshake` - one attempt of `MyProtocol.inst()`: `h` is the state of both
sides, `dsn` the options. Tokens are named by how they carry the password. The
server is external: it follows the protocol, chooses the plugins freely, refuses
or disconnects at any point. A read may also reject with another error of the socket, and
`Deno.startTls()` before or in the TLS handshake: these are not retried. Each plugin class has its two operators
(`CachingSha2QuickAuth`, `CachingSha2Progress` and so on).

`Connect` - `ProtocolsFactory.newConn()` for concurrent callers of one DSN
(`call`), composed with `Handshake` for each attempt that reaches the server,
and with `HealthStatus`, where `getProtocol()` records the outcomes. `map` is the entry of
`#curRetryingPromises`, `health` the ring buffer with its packed counters, `logged` a
history variable. A handshake shares nothing with other callers until it
ends, so it is not interleaved with them: whatever happens meanwhile could happen before
it. Time passes in `Deno.connect()`. Timers are prompt.

`MCInterval`, `MCPool`, `MCXaIdGen`, `MCXa`, `MCProtocol`, `MCPacketReader`,
`MCPacketWriter`, `MCTrx`, `MCConnect` - the instances for TLC.

`IntervalProofs`, `PoolProofs`, `PoolUseProofs` (extends it), `XaIdGenProofs`, `XaProofs`,
`ConnectProofs` (with `Handshake`), `ProtocolProofs`, `TrxProofs` - theorems.

The operators called `X_Something` next to a definition `X` are its mutants:
plausible bugs in the same code. Each property of a run is violated
when the mutant that `PROJECT.json` names for it takes the place of `X`.

## 3. Runs

| Run | Instance | Shows |
|---|---|---|
| `interval` | 3 timers: two overlapping activations and an armed timer | no timer is leaked, the callback is not reentered, disposal is final and resolves, a wanted immediate run happens |
| `pool_slots` | 2 MyConns, 1 DSN, `maxConns` 1, queue of 1, 2 connections, 2 calls, 2 entries | `TypeOK`, `SlotLimit`, `CountersExact`, `ConnectNeverOverwrites` under connect, end, dispose, failures, expiry, the task |
| `pool_steal` | 2 MyConns of 2 DSNs on one host, `maxConns` 2, queue of 0; one calls killQuery(), the other disconnects forcibly | stealing never gives a connection two users, hides it from the accounting or leaks it; references are exact although killQuery() holds none; the task is scheduled while there are connections and never overlaps with itself, although the code stops and starts it from within itself |
| `pool_wait` | 1 MyConn that also calls killQuery(), 2 calls, queue of 1, shutdown, fair | every getProtocol() ends even if no connection is ever returned, and during shutdown; expired idle connections are closed |
| `xa_ids` | 4 seconds, at most 4 ids in each | ids never repeat |
| `xa_commit` | 2 transactions, XA or plain, commit(true), rollback(0); 2 connections of 2 threads each, 1 fault, pooled connections may be dead, `xa_detach_on_prepare` | nothing is committed before all is prepared; when commit() resolves, the XA is committed everywhere; a transaction starts only on connections that are in no other one |
| `xa_dangling` | 1 XA, 2 faults, crashes, `onBeforeCommit`, rollback, dispose, end(), the manager, fair | an XA is committed here and rolled back there only if a fault hit it between PREPARE and COMMIT; the manager spares live threads; every prepared XA of a dead thread is resolved |
| `protocol` | 2 tasks and end(), 2 commands, 12 replies (rows, several resultsets, errors at each place, an error that lets retry, LOCAL INFILE at once and while end() discards; 6 of them to an executed statement, none with an OK packet among several results), auxiliary commands that fail, 1 retry, disconnection, fair | one task at a time reads, and what is for it; an IDLE connection has nothing unread; end() makes it unusable and completes; what is recycled is clean; sockets and statements are not forgotten; calls return |
| `reader` | packet limit 8, header 2, buffer 6; a field of every kind at every distance from the packet boundary, with fields after it; chunks of all sizes; compressed frames of up to 3 bytes | each field gives its bytes once and the reader never waits for bytes that do not come (`ImplementsFlatStream`, with liveness); a message is read whole, its length and sequence id are right |
| `writer` | packet limit 12, header 2, buffer 10; about 190 batches: data as bytes, string (characters of 2 and 3 bytes) or stream, of lengths around the limits, after a deferred packet or before COM_STMT_EXECUTE; compressed or not | the server gets every command whole and in order, with the numbers it expects; nothing is written outside the buffer; sending ends |
| `trx` | 1 connection in a session, 2 savepoints of each kind, 1 write, 1 fault, 1 retry | a transaction that the application knows of is started before anything else; its points are found; cached statements are of this connection; `ImplementsTrxLog` |
| `connect` | 2 callers, 3 calls, 1 attempt that reaches the server, 5 seconds, 9 DSNs, 2 servers' capabilities, all plugins and switches between them, ring of 3 seconds with counters of 3 bits, fair | one caller retries and the others wait for it, not beyond the deadline and not less; inst() returns only what the server accepted, both in the same format; passwords are protected; the open socket can be closed; health counts are exact; calls return |

Type invariants are properties of a run where they say more than the shape of
the variables, or are proved: `TypeOK` of `Pool` and `Xa`, and, as a part of
`WholeMessageRead` and `ServerGetsCommands`, the bounds of the buffers. Elsewhere `TypeOK`
states the domains of the variables.

Bounds. Two callers and one slot are enough for every conflict over a slot; two
entries let one be deleted and created again while the first is still
referenced; two activations of the task let it stop,
start and overlap. An identity is used
again as soon as nothing refers to it, so behaviours are not bounded in length.
When all of `Entries`, `Protos`, `Calls` or `Ticks` are taken, the step that
needs one more does not happen; `TaskBegins` needs a free call per item of the list.

In `Xa` two connections are enough for one that commits and one that fails;
two threads per server for a retry in a second connection and for a dead
thread beside a live one; two XAs (`xa_commit`) for one that follows on what
another one left; the second fault for one that hits the reaction to the first.
`MaxTrx` bounds the XAs and `MaxCid` the threads that ever exist: an
operation that would need another XA is not called, and a connection
attempt beyond it fails. Symmetry of the connections is used for safety only.

In `Protocol` two commands are enough for one whose replies the other could
read, and for a statement that is prepared and executed, and two tasks with end() for the three that can meet; the replies put
an error, a further resultset and rows at each place where the code looks. In
`PacketReader` and `PacketWriter` the limits are scaled down together, in the
order that the real ones have (header < longest integer < buffer < packet), and
lengths go over both sides of each limit. In `Trx` the connections of a
session share only the counter of savepoints and the calls that are made on all of
them, so one connection shows what the deferred commands do. In `Connect` the interval
does not divide the timeout, so that the last wait is cut short; one
attempt that reaches the server visits the whole handshake, since attempts share
nothing; a ring of 3 cells wraps within 5 seconds.

Most runs say `CHECK_DEADLOCK FALSE`: a pool whose MyConns are all disposed
has nothing to do, nor has a session or a connection whose bounds are used up, or a
program that has sent and read everything. `interval` and `trx` check it.

Fairness. `Interval`: the runtime fires armed timers, and the callback settles
(it awaits network operations with a deadline). `Pool`: the event loop serves
every continuation, timer and network event that keeps recurring. It is strong
fairness, because an event has to wait while continuations run, and these come
again and again. A connection attempt or a closing handshake ends, if only by
failure. No fairness is assumed of the application. `Xa`: the manager goes on (`#hXaTask` is an Interval, and its queries
end, if only by failure); nothing is assumed of the session, which may stop
in the middle of a commit. `Protocol`: the event loop continues a call whose packet
has come, and the server answers what was sent, or the connection breaks; no task
has to read on or to call anything. `PacketReader`: the program reads its
fields, and the bytes that the server sent arrive. `PacketWriter`: the socket
accepts, a stream gives its data. `Connect`: the clock and the timers run,
`Deno.connect()` settles, and the server answers when it is its turn: the code has
no timer for a server that is silent. That a connection is ever lost is not
assumed.

## 4. Where the code and its documents disagree

Found while modelling. The models follow the code; where a property would fail for
one of these, the README says here which constant or fairness keeps it out of the run.

Pool:

- `#commonTask` empties the list of KILL / XA ROLLBACK items (`my_pool.ts:505`)
  before it opens the connection that is to execute them, so that connection finds
  nothing to do (`my_protocol.ts:170`), and the item is lost; `my_pool.ts:513`
  says that items are put back "instead of being dropped".
- A waiter timed out, then the last connection is returned: `#decNBusyAll`
  (`my_pool.ts:446`) finds the dead callback in the array, empties the array,
  and does not call `#onend`. asyncDispose() never resolves (`my_pool.ts:160`).
- If the connection that is to take care of an item fails, the task is stopped
  before the item is put back (`CareFails`), and nothing retries it until a
  connection is made; `my_pool.ts:513` speaks of "a later tick".
- The task deletes an entry that callers are waiting for (`Removable`). They go
  on in the orphaned one, others in a new one: more than `maxConns`
  connections, and one that returns to the orphaned entry is not found there. It
  needs an entry whose last attempt is older than 60 s. Without waiters it does
  not happen: `ExclusiveUse` and `NoneLeaked` in `pool_steal`, whose queue is empty,
  and `PoolNoQueueSafe` (section 5). It is the only thing that breaks them: in behaviours
  without it they are proved for queues of any length.
- Connections asked for after asyncDispose() are neither rejected nor closed
  (`GetProtocol` has no guard for it); `my_pool.ts:160` says that they are.

Distributed transactions:

- XA START that is retried in a new connection keeps the id of the dead one
  (`my_conn.ts:725`). The manager takes the XA for dangling, and rolls it back
  in the middle of its commit (README.md:1612 of the repository). In `xa_dangling` pooled
  connections do not die before their next use: `ManagerSparesLive` and
  `AtomicUnlessHarmed` fail otherwise.
- `MyProtocol.end()` is TERMINATED when it wants to send XA END and XA ROLLBACK,
  so it cannot (`my_protocol.ts:2103`; `EndCompletes` of `Xa`). The prepared XA of a
  rollback that failed stays with the pooled connection, and the manager
  spares it as long as that lives.
- A commit(true) of an XA that fails does not restart the XA, because commit()
  forgot that it is one before it called rollback(0) (`RollbackInCommit`).
- A crash between two XA COMMITs leaves the XA half committed: the manager
  only rolls back (`RollbackDangling`). `AtomicUnlessHarmed` excepts it.

Protocol:

- In sendThreeQueries() an error of the first statement is thrown at once and leaves
  the replies of the others unread (`AuxMayFail`). An error of COM_INIT_DB or
  of a query before the main one, when the main one returns rows, makes the state
  IDLE with these rows unread; the same with COM_STMT_PREPARE forgets the
  statement in the server (`RepliesAfterErr`). If the main one is a LOCAL INFILE that is
  rejected, the state is IDLE and the server still waits for the file.
- execStmt() reads the response in the mode ROWS_OR_PREPARED_STMT, in which #readPacket
  does not parse an OK packet (`my_protocol.ts:492`, 543). Whether more results follow is
  decided by `statusFlags` as an earlier packet left it (1846); that of this packet is
  read afterwards (1850, 1858). `ExecResponse` does so. A statement answered with an OK that announces more
  results, as that of a CALL, leaves the state IDLE and these results unread: with
  `<<"okM", "cols", "eof">>` in `RepliesToExec`, `NothingUnread` and `OneReader` fail. A
  flag that remains of a command whose later statement failed (`<<"okM", "err">>`) makes the
  next execStmt() return with HAS_MORE_RESULTSETS and nothing to come: with
  `ExecsOnStaleFlag` and three commands, `CallsReturn` fails.
- The next results of a prepared statement are read in this mode too (2032, 2078), and
  there #readQueryResponse takes an OK packet for the response to
  COM_STMT_PREPARE (709-718): `stmtId` is overwritten, so the statement of the server is
  never closed; the numbers of columns and placeholders are read in part beyond the
  packet, so it may skip packets, fail, or wait for ever; flags are not updated. The
  assertion at 698, `resultsets.stmtId < 0`, says that the function is not called so; with
  assertions on, every further result of a prepared statement that is not disposed fails on it.
  `TakesOkForStmt` models it. A prepared CALL that selects rows is answered so: with
  `<<"cols", "row", "eofM", "ok">>` in `RepliesToExec`, `NothingLeaked` and
  `CallsReturn` fail. `CopedWith` leaves both out: an OK answers an execution alone, and no
  statement is executed with the flag set. Several results of a prepared statement are in the run
  as far as each of them has rows or is an error.
- An error in the middle of rows leaves the Resultsets attached to the protocol
  (`UsesFailed`), and after a last column leaves `#curLastColumnReader` set
  (`RepliesToReads`).
- end() during the fetch of a row with the reader of a last column waits for the
  program to read it (`WaitsForProgram`). nextResultset() that meets end() can
  overwrite TERMINATED. With a SQL logger, its await in `#rethrowError` can do the same.
- Cancelling the reader of a last column by end() closes the socket, so the
  connection is not recycled.
- `#doDiscard` takes a text row whose first column is the empty string for the
  end of the rows (kind "row0", in no reply of the run), and skips only one packet of
  a row of several packets.
- A row whose length is a multiple of 0xFFFFFF has a trailing empty packet that
  only the reader of a last column reads (`Readable` in `MCPacketReader`).

Writer (`my_protocol_reader_writer.ts`; such batches are not in `MCPacketWriter`):

- Two long parameters given as Uint8Array: the tail of the first, that waits in the
  buffer (458-463), is lost by startWritingNewPacket() (75-79). discardPacket() after
  a packet that waits loses that packet.
- A stream whose length is a multiple of 0xFFFFFF sends no trailing empty packet.
- `MAX_CAN_WAIT_PACKET_PRELUDE_BYTES` is 12, less than a header with the first part of
  COM_STMT_EXECUTE: writing it throws RangeError. `Prelude` in the run is large enough.

Transactions (`Allows` of `Trx`):

- "restartUnsent": rollback(0) or commit(andChain) while START is still pending clears
  it, and queries run outside of a transaction (`my_conn.ts:640`, 691).
- "mixedUnsent": savepoint() of the connection, then of the session, before any query:
  rollback to the first says "No such SAVEPOINT" (`my_conn.ts:595`).
- "savepointAfterRetry": a retry in a new connection resets `#savepointEnum`
  (`my_conn.ts:217`), so two points get one name.
- "endInPrepare": end() while a statement is being prepared stores its id for the
  next connection (`my_conn.ts:904`).
- "startAfterEnd": end() and startTrx() while an old query is on its way: that one
  clears the new START when it returns (`my_conn.ts:736`).
- end() during the first command on a dead pooled connection: the query is retried
  outside of the transaction (`my_conn.ts:731`).

Connecting:

- A request for a further authentication factor that comes after "more data" is
  taken for success (`my_protocol.ts:444`; `Allows` of `Handshake`), while the one
  that comes first is an error. A second switch of the plugin is ignored (165).
- `connectionTimeout` bounds the retries only, as `dsn.ts:209` says: a server that
  accepts a connection and is silent keeps newConn() waiting (`my_pool.ts:616`).
- Outcomes are logged with the time from before newConn(): one that is overtaken by a
  second is dropped (`health_status.ts:17`; the model's `Log` does it too).
- The counter of failures is read with a signed shift: from 0x8000 in a second it
  is negative, and its limit never holds (`health_status.ts:35`). With a clock that
  goes back getHealthStatusForPeriod() counts cells twice (49).

## 5. Proofs

All for arbitrary values of the constants under `NoTimerAssumption`,
`XaIdGenAssumption` and `XaAssumption` (bounds are natural numbers),
`PoolAssumption` (finite sets of connections and calls, `maxConns` at least 1
and equal for DSNs of one host, `None` distinct from everything), and the assumptions of
`Protocol`, `Handshake`, `Connect` and `Trx` on the kinds of their constants. Some more are
hypotheses of the theorems that need them, because the code does not hold without:
`StrandsNone` or `MaxWaitQueue = 0` for `PoolUseProofs`,
`~PoolBreaks` for the last two theorems of `Xa`, `CopedWith` of `Protocol`,
`"factorAfterMore" \notin Allows` of `Handshake`, and for `Trx`
`Usage` (none of "restartUnsent", "mixedUnsent" and "startAfterEnd" is in its `Allows`) and
`"endInPrepare" \notin Allows`. Section 4 says what happens without each of them.

`IntervalProofs`: `TimerIsTracked`, `CallbackIsNotReentered`,
`QuietAfterAsyncDispose`. The inductive invariant adds that exactly a disposed
Interval is Terminated, and joins `TimerTracked` with `NotReentrant`: a timer
fires only in state Active, when nothing runs.

`PoolProofs`:

- `PoolTypeCorrect`, `Spec => []TypeOK`. `WfInv` adds to it: a call that is not
  free has a DSN and an entry, whose kind is "care" has an item (`CallsOk`); a
  live callback in an array belongs to a call that waits for that entry
  (`CbWaits`); every connection that somebody uses, returns or has to take care
  of has a DSN (`DsnKnown`). Without these, `entryOf[pdsn[p]]` could be
  meaningless and `MaxConns[d]` undefined.
- `PoolSlotLimit`, `Spec => []SlotLimit`. `SlotInv` adds: only one call is in
  the popping loop (`OnePopping`: the loop is synchronous); this call passed
  the check, and the entry still has a free slot (`PoppingHasSlot`), because
  nothing else runs in between; an entry is mapped from one DSN only, the one
  of the calls that hold it (`EntryOwner`); `nConnecting` is the number of calls
  that are connecting (`ConnectingExact`), so it does not go negative and hide
  an excess. Each action either leaves the accounting alone (`QuietSlot`),
  passes the check (`CheckSlot`), or moves one unit between popping, connecting
  and busy.

- `PoolConnectNeverOverwrites`, `Spec => []ConnectNeverOverwrites`. `ConnInv` adds that only a
  live MyConn is connecting. connect() looks at `#isConnecting` before its await, and what
  it found holds after it, because of two calls that overlap (with end() between them)
  the first that returns takes the flag away from the other.

`PoolUseProofs`: who has the connections. `PoolExclusiveUse`, `PoolNoneLeaked`,
`PoolCountersExact` and `PoolJanitorScheduled` are of the form
`Spec /\ StrandsNone => []P`, where `StrandsNone` says that no step deletes an entry that a
call waits for, or goes on to (section 4; such a step is always the one of `#commonTask`).
`PoolNoQueueSafe` has all four without it, if `MaxWaitQueue` is 0: then no call ever waits.

- `HInv` is inductive for the first two. To `SlotInv` and `ConnInv` it adds: a call that has or
  awaits a slot has it in the entry that its DSN is mapped to now (`Attached`, which is what
  stranding breaks), and the task does not look at the entries while a call is in the popping
  loop (`OneLoop`); a connection that is idle or in use is in the entry that its own DSN is
  mapped to (`Home`: `returnProtocol()` looks there), in one entry and one array only (`Apart`);
  it is in use exactly if a MyConn or a call has it, or it is being returned (`BusyIfUsed`),
  and only one of these, once (`OneUser`); a call that got a connection has one, and one that awaits its return gave it to be
  returned (`HandsOk`). `RefInv` counts the references. Each action leaves
  a connection as it is (`UseSame`), or is one of the few ways to take it, steal it, or give it back.
- `CountInv` says what the counters are the cardinalities of: connections in use, calls that
  connect, idle connections that are being closed. That `CountersExact`, which
  counts pairs of an entry and a connection, is the same, follows from `Apart`.
- `TickInv`: at most one activation of the task is under way; where the timer says that none is
  (Inactive, Active), that one has nothing left to await (`Finishing`); and when the timer is
  Inactive, there is no connection. `stop()` is called from `#decNBusyAll()` and
  the task's own end when both counters are zero, and it is here that they have to be exact: the
  activation in progress then awaits no closing and no call, because each
  of those would be counted (`CareInv`: what an activation awaits is really in progress).

`XaIdGenProofs`: `IdsNeverRepeat`. `IdInv` adds that no second after
`#lastTime` has ids, and no number of `#lastTime` after `#lastEnum`.

`XaProofs`:

- `XaTypeCorrect`, `Spec => []TypeOK`.
- `XaInvariant`, from which follow `XaTwoPhase`, `Spec => []PreparedBeforeCommit`,
  and `XaPendingIsClean`, `Spec => []PendingIsClean`. The client decides by
  what it knows, not by the servers' states, so `XaInv` relates the two:
  a transaction that began and is not prepared (`Open`) is one whose MyConn
  knows that it has to prepare it (`Holds`), or one that nobody commits any
  more (`Doomed`) (`OpenInv`); a transaction that is being committed is open
  nowhere, and no connection can still begin it (`CommitInv`). In between:
  the session's phase and the connections' commands agree (`OpInv`), a phase
  without errors leaves nobody out (`PhaseInv`), connections that join
  meanwhile join no XA (`SessInv`), and a MyConn that was not used, or waits
  to start, is in no transaction (`ConnInv`). The entry into each phase is a
  lemma; a step of a connection preserves the invariant if it stays in
  `ConnFrame` and `ServerFrame`; servers alone are `Calm`.
- `XaCommitOk`, `Spec => []CommitOkMeansCommitted`: what no error of #doAll() means.
  `JoinInv` adds to `XaInv`: an XA that began on a server has a MyConn that is in it
  until the session sends XA COMMIT (`InTrx`), and from then on, as long as there was no
  error, it is committed there or its MyConn still awaits the answer (`Settling`). The
  manager, crashes and lost connections are `Steady`: they begin and uncommit nothing.
- `XaManagerSparesLive`, `Spec => ManagerSparesLive` if pooled connections do not die before
  their next use (`~PoolBreaks`). The manager trusts the id in the name of an XA, so `OwnInv` says whose the
  threads are: a connection is in one place only, with its MyConn, in the pool, or on its way
  there, and what comes from the pool is alive (`ThreadOk`); the id of an XA is that of the
  thread that began it (`OwnerOk`); what the manager sweeps began, its thread is dead, and none
  comes to life again between the two queries (`SweepOk`).
- `XaAtomicUnlessHarmed`, `Spec => []AtomicUnlessHarmed`, under the same condition, for
  any number of servers, faults and crashes. `FateInv` follows each transaction that no
  fault hit while it was prepared: one that is undone or swept somewhere, or is left
  with nobody to commit it, is one that the session has given up, and it is committed nowhere
  (`LostInv`); a MyConn that prepared its transaction knows the state that the server has it
  in, and its thread lives, which keeps the manager away (`PrepOk`); while the session
  commits, every MyConn that is in the transaction has sent its XA COMMIT or deals with the
  failure of it, and what is committed anywhere is finished like that (`CloseInv`). It needs
  `XaInv` for the order of the phases and `OwnInv` for the manager.

`ConnectProofs`:

- `ConnectTypeCorrect` and `HandshakePasswordGuarded`, `HandshakeReady`: of one attempt, `Turn`
  says whose turn it is (the server's to greet, the client's to go to TLS, a
  token that the server is to judge, an answer that the plugin is to read, the
  initial SQL, rest), and which tokens a plugin can have sent in which of its
  states (`Fits`). With it, `Agree` (the compression of both sides), `Guarded` (clear
  text needs TLS or what the DSN allows) and `Closes` (`#closer` is the socket in use) are
  inductive. Each plugin's `QuickAuth` and `Progress` has a lemma.
- `ConnectOneRetrier`, and `ConnectDeadlineKept`, that is an action property and an
  invariant: `TimersInTime` says that the timer of who retries is due by `connectTill`;
  `Shakes` that an attempt's handshake is in progress for one caller only.

`ProtocolProofs`, all under `CopedWith`:

- `ProtocolTypeCorrect`, `ProtocolNothingUnread`, `ProtocolOneReader`,
  `ProtocolEndedIsUnusable` follow from `MutexInv` and `PreparedInv`. The first: `#state` is a mutex. For each value
  of `#state` and `#onEndSession` one of these is true (`Turn`): one task is in a call and
  has the connection, and end() may wait for it (`TaskTurn`); the program has the reader of
  a last column (`ReaderTurn`); nobody is in a call, and the state tells what is unread
  (`ReadyTurn`); the call that end() waited for told it where it stopped (`ToldTurn`);
  end() cancels a reader (`EndReadsTurn`); end() discards what is left and resets
  (`EndTurn`); it gave the connection back (`OverTurn`). Who has the
  connection is at a known place in the reply of its own command: `Unread` and `Replied`
  say of the packets that nobody read that they are the rest of a well formed reply
  (`Chain`), all of one command (`Tagged`), and, where the program reads a last
  column, without an error. `PreparedInv` is inductive together with it: what remains of the
  replies to an executed statement has no OK packet, unless the one that is the whole
  reply (`NoOks`, `PreparedReplied`), the flag is not set when the response is read, and no statement id is
  wrong. So `ExecResponse`, `NextResponse` and `Discard` go on by what the packet says
  (`ExecReplied`, `NoOkForStmt`). Without `CopedWith` they do not. Once the socket is closed only `Closed` is known, and it is enough.
- `ProtocolNothingLeaked` needs `StmtInv` besides: a statement that the server has prepared is
  one of a Resultsets, or to be closed, or its reply is the next that the task in
  sendComStmtPrepare() will read; after a reset there is none. It also needs `PreparedInv`:
  the id of no Resultsets is overwritten.

  The attempt to prove `MutexInv` showed that the model lacked a step: a LOCAL INFILE
  behind another resultset, that end() discards (`#doDiscard` reads the response, and
  `#readQueryResponse` rejects it). It is in `LocalInfile` and in the replies of the run now.

`TrxProofs`:

- `TransactionStays`, `Spec => []TrxNotLost` under `Usage`, for any number of connections,
  savepoints, faults and retries. `TrxInv` says `Good` of each connection, that relates its
  MyConn, its thread, and what the application was told: what is awaited agrees with what is
  pending, and a MyConn that was ended has nothing (`Phases`); what the MyConn knows of the
  thread (`Flags`); START is first among the pending commands, and if the thread is in no
  transaction, it is the next to be sent (`Begins`); before the start, only savepoints of one
  kind are pending (`OneKind`); the server has no savepoint twice (`LogOnce`). The
  commands that are sent stay in `pendingTrxSql` until the last one is, so they are there and
  in the server's log: what follows one of them in the log follows it among the pending
  ones too (`InLog`). Without this, rollback(toPointId) between two of them could keep a
  point that the server has dropped. So each point of the application is pending, or in the
  log of a transaction that is not started anew (`Kept`). The actions on one connection come to a
  few kinds of steps, each with its lemma: nothing stays pending (`NonePending`), it stays as it is
  (`SamePending`), grows (`PointAdded`), is sent (`NextSent`) or cut (`CutPending`), and
  ROLLBACK TO is executed (`BackTo`); `OneConn` and `ManyConns` do the rest.
- `StatementIsHere`, `Spec => []CachedStmtIsHere`, if end() does not come during PREPARE as
  well. `StmtInv` adds that an ended MyConn has no statement: #doEnd() forgets it.

  `TrxNotLost` says where a point is in terms of what is pending and what the server has, and
  a savepoint takes the place of the one of its name (`Without`): both without a filter of a
  sequence, about which nothing can be proved here.

What is only model-checked: the modules `PacketReader` and `PacketWriter`, both refinements, and all
liveness, that the prover cannot do. `HealthExact` compares the ring buffer with a fold over
the history, and `ImplementsTrxLog` maps to a fold over the log, with filters: both would need
an induction over data. `TypeOK` of `Trx` is in no run, `TrxInv` has what is needed of it.

## 6. Plan

1. Done: `Interval`, `Pool`, `XaIdGen`, `Xa`; `Protocol`; `FlatStream`,
   `PacketReader`, `PacketWriter`; `TrxLog`, `Trx`; `Handshake`, `Connect`.
2. Proved: `Connect` and `Handshake`; `Protocol`; `Trx`; of `Pool` all its safety properties;
   all safety properties of `Xa` and `ManagerSparesLive`. To come: `PacketReader` and
   `PacketWriter`, as far as it takes no induction over the data.
3. An abstract specification of atomic commitment for `Xa`, implemented under the
   condition of `AtomicUnlessHarmed`.

## 7. Not modelled

- Parsing of DSN strings, conversion of column values, digests and signatures
  (`ed25519.ts`), compression algorithms, SQL logging and its colouring, tables of
  constants: data processing without shared state. A connection
  attempt, a command or a frame that fails for whatever reason is in the models.
- `StoredResultsets`: rows that are kept in memory or in a file. They own what
  they read; what they read it from is `Protocol`.
- `Pool.updateOptions()` and `getStatus()`, `setSqlLogger()`, and the methods of
  `MyConn` that only pass their arguments to `#doQuery`.
- Awaits of the SQL logger between the steps of `MyProtocol`.
- Memory buffers that `ProtocolsFactory` recycles have no behaviour of
  their own there.

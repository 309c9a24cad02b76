------------------------------ MODULE Protocol ------------------------------
(***************************************************************************)
(* MyProtocol (src/private/my_protocol.ts) and the live part of            *)
(* ResultsetsInternal (src/private/resultsets.ts): the command state       *)
(* machine of one established connection.                                  *)
(*                                                                         *)
(* Several tasks of the program share the MyProtocol object: one starts a  *)
(* query, another iterates over the rows, a third disposes a prepared      *)
(* statement, and the owner calls end() at any moment.  There is no mutex: *)
(* `#state` decides who may talk to the server.  Code runs to completion   *)
(* between awaits, so an action is what runs from one await to the next,   *)
(* and reading each packet is an await.                                    *)
(*                                                                         *)
(* `wire` holds the packets the server has answered and nobody has read.   *)
(* Each is tagged with the command it answers.  The reply is chosen when   *)
(* the command is sent; the client sees it packet by packet.  A call that  *)
(* throws at once (BusyError, CanceledError, ...) changes nothing and is a *)
(* stuttering step.                                                        *)
(***************************************************************************)
EXTENDS Naturals, Sequences, FiniteSets

CONSTANTS
    Tasks,              \* the tasks of the program that use the connection
    Ender,              \* the task that calls end()
    MaxCmds,            \* bound: commands sent
    MaxRetries,         \* #retryQueryTimes
    ColLen,             \* length of a last column, in calls of its reader
    Replies,            \* replies to COM_QUERY: sequences of packet kinds
    RepliesToReads,     \* those to a query whose last column is read by a reader
    RepliesAfterErr,    \* those replies that can follow the error of an auxiliary command
    AuxLists,           \* the auxiliary commands that precede a query in its round-trip
    UsesFailed,         \* the program goes on with a Resultsets that has thrown an error
    AuxMayFail,         \* the auxiliary commands that the server can answer with an error
    RepliesToExec,      \* those replies that answer COM_STMT_EXECUTE
    ExecsOnStaleFlag    \* the program executes a statement while `statusFlags` still tells of
                        \* more results, that were lost with an earlier error

Actors == Tasks \cup {Ender}
Cmds == 1 .. MaxCmds
None == 0

ProtocolState == {"IDLE", "IDLE_IN_POOL", "QUERYING", "HAS_MORE_ROWS",
                  "HAS_MORE_RESULTSETS", "ERROR", "TERMINATED"}

\* What a packet tells the state machine.  The suffix "M" is the status flag
\* SERVER_MORE_RESULTS_EXISTS; "cols" is the column count with the column
\* definitions; "row0" is a text row whose first column is the empty string, so
\* its first byte is 0, the byte of OK; "errR" is an error with CanRetry.QUERY.
Kinds == {"ok", "okM", "cols", "row", "row0", "eof", "eofM", "err", "errR", "infile", "stmt"}
Errors == {"err", "errR"}
Oks == {"ok", "okM"}

Packets == [cmd : Cmds \cup {None}, kind : Kinds]

AuxKinds == {"initdb", "prestmt", "prequery", "ignored", "setopt"}

ASSUME ConstantsAssumption ==
    /\ Ender \notin Tasks
    /\ MaxCmds \in Nat /\ MaxRetries \in Nat /\ ColLen \in Nat
    /\ Replies \subseteq Seq(Kinds) \ {<<>>} /\ RepliesAfterErr \cup RepliesToReads \subseteq Replies
    /\ \A reply \in Replies : \A i \in 2 .. Len(reply) : reply[i] # "errR"
    /\ AuxLists \subseteq Seq(AuxKinds) /\ AuxMayFail \subseteq AuxKinds
    /\ UsesFailed \in BOOLEAN /\ ExecsOnStaleFlag \in BOOLEAN
    \* the server does not prepare LOAD DATA
    /\ RepliesToExec \subseteq Replies
    /\ \A reply \in RepliesToExec : \A i \in 1 .. Len(reply) : reply[i] # "infile"

\* What can follow a packet in a well-formed reply, and what ends one.
Follows(kind) ==
    CASE kind \in {"cols", "row"} -> {"row", "eof", "eofM", "err"}
      [] kind \in {"okM", "eofM"} -> {"ok", "okM", "cols", "infile", "err"}
      [] kind = "infile" -> {"ok", "okM", "err"}
      [] OTHER -> {}
Final == {"ok", "err", "errR", "eof", "stmt"}

WellFormed(reply) ==
    /\ reply[1] \in Follows("okM") \cup {"errR"}
    /\ reply[Len(reply)] \in Final
    /\ \A i \in 1 .. Len(reply) - 1 : reply[i + 1] \in Follows(reply[i])

\* The replies with which the code copes. See README, section 4, for the others: rows
\* or the error of preStmt after which something remains unread, an error behind a
\* row whose last column has a reader, a Resultsets that is used after its error, an OK
\* packet among several results of a prepared statement, and a stale flag.
CopedWith ==
    /\ \A reply \in Replies : WellFormed(reply)
    /\ \A reply \in RepliesAfterErr : Len(reply) = 1
    /\ \A reply \in RepliesToReads : \A i, j \in 1 .. Len(reply) :
          i < j /\ reply[i] = "cols" => reply[j] \notin Errors
    /\ "prestmt" \notin AuxMayFail
    /\ ~UsesFailed
    /\ \A reply \in RepliesToExec : reply # <<"ok">> => \A i \in 1 .. Len(reply) : reply[i] \notin Oks
    /\ ~ExecsOnStaleFlag

VARIABLES
    state,              \* #state
    onEndSession,       \* #onEndSession: "no", "armed", or "resolved" by the first call of it
    endState,           \* the state that it was called with
    moreExists,         \* SERVER_MORE_RESULTS_EXISTS of statusFlags
    cur,                \* #curResultsets
    lastReader,         \* #curLastColumnReader: the Resultsets whose last column it reads
    isReading,          \* isReading of this reader
    colLeft,            \* lastColumnReaderLen of this reader
    pendingCloseStmts,  \* #pendingCloseStmts
    rs,                 \* the ResultsetsInternal objects, named by the command that made them
    op,                 \* the call that an actor is in
    ended,              \* what end() returned: "no", "recycled" or "closed"
    conn,               \* the socket: "open", "broken" by the network, "closed" by the client
    wire,               \* packets sent by the server and not read
    srvStmts,           \* prepared statements open in the server
    ncmd                \* commands issued so far

ends == <<onEndSession, endState>>
reader == <<lastReader, isReading, colLeft>>
stmts == <<pendingCloseStmts, srvStmts>>
vars == <<state, ends, moreExists, cur, reader, stmts, rs, op, ended, conn, wire, ncmd>>

Resultsets ==
    [given : BOOLEAN,   \* the program has the object
     live : BOOLEAN,    \* protocol is set
     more : BOOLEAN,    \* hasMoreInternal
     prep : BOOLEAN,    \* isPreparedStmt
     stmt : BOOLEAN,    \* stmtId >= 0
     wrong : BOOLEAN,   \* stmtId was overwritten, and names no statement of the server
     reads : BOOLEAN,   \* rowType is LAST_COLUMN_READER or LAST_COLUMN_READABLE
     cmd : Cmds \cup {None},    \* the command whose results it has
     failed : BOOLEAN]  \* these results ended with an error before their end

NoResultsets == [given |-> FALSE, live |-> FALSE, more |-> FALSE, prep |-> FALSE,
                 stmt |-> FALSE, wrong |-> FALSE, reads |-> FALSE, cmd |-> None, failed |-> FALSE]

\* A call in progress: where it waits (pc), its method (kind), the command whose
\* results it reads, its Resultsets, the auxiliary commands whose results are
\* still to be read, whether one of them failed, whether rows are discarded
\* (RowType.VOID), retries that remain, the local `state`, and whether stmtId>=0
\* was read when the call began.
Calls == [pc : {"idle", "send", "aux", "response", "columns", "discard", "row", "chunk",
                "wait", "finish", "reset", "initsql"},
          kind : {"none", "query", "three", "prepare", "exec", "fetch", "next", "reader", "end"},
          cmd : Cmds \cup {None}, r : Cmds \cup {None}, aux : Seq(AuxKinds), err : BOOLEAN,
          void : BOOLEAN, retries : 0 .. MaxRetries, st : ProtocolState, stmt : BOOLEAN]

NoCall == [pc |-> "idle", kind |-> "none", cmd |-> None, r |-> None, aux |-> <<>>,
           err |-> FALSE, void |-> FALSE, retries |-> 0, st |-> "IDLE", stmt |-> FALSE]

\* The kinds and shapes of all variables but `moreExists`.
ShapesOK ==
    /\ state \in ProtocolState /\ endState \in ProtocolState
    /\ onEndSession \in {"no", "armed", "resolved"}
    /\ cur \in Cmds \cup {None} /\ lastReader \in Cmds \cup {None}
    /\ isReading \in {"NO", "YES", "YES_BY_END_SESSION"} /\ colLeft \in 0 .. ColLen
    /\ pendingCloseStmts \subseteq Cmds /\ srvStmts \subseteq Cmds
    /\ rs \in [Cmds -> Resultsets]
    /\ op \in [Actors -> Calls]
    /\ ended \in {"no", "recycled", "closed"} /\ conn \in {"open", "broken", "closed"}
    /\ wire \in Seq(Packets) /\ ncmd \in 0 .. MaxCmds

TypeOK == ShapesOK /\ moreExists \in BOOLEAN

Init ==
    /\ state \in {"IDLE", "IDLE_IN_POOL"}
    /\ onEndSession = "no" /\ endState = "IDLE" /\ moreExists = FALSE
    /\ cur = None /\ lastReader = None /\ isReading = "NO" /\ colLeft = 0
    /\ pendingCloseStmts = {} /\ srvStmts = {}
    /\ rs = [r \in Cmds |-> NoResultsets]
    /\ op = [a \in Actors |-> NoCall]
    /\ ended = "no" /\ conn = "open" /\ wire = <<>> /\ ncmd = 0

-----------------------------------------------------------------------------
(* Helpers.                                                                *)

SetState_IgnoresEnd(s) == state' = s /\ UNCHANGED ends

\* #setState(): while end() waits it is told the state instead.
SetState(s) ==
    IF onEndSession = "no"
    THEN state' = s /\ UNCHANGED ends
    ELSE /\ UNCHANGED state
         /\ onEndSession' = "resolved"
         /\ endState' = IF onEndSession = "armed" THEN s ELSE endState

\* An await that reads is over: the packet is there, or reading throws.
NextPacket == Head(wire)
CanRead(a, pc) == op[a].pc = pc /\ conn = "open" /\ wire # <<>>
Consume == wire' = Tail(wire) /\ UNCHANGED conn
KeepConn == UNCHANGED <<conn, wire>>

\* `statusFlags` is updated from OK and EOF packets, and, unless CLIENT_DEPRECATE_EOF is
\* negotiated, from the EOF that follows column definitions.
ReadFlags ==
    moreExists' \in CASE NextPacket.kind \in {"okM", "eofM"} -> {TRUE}
                      [] NextPacket.kind \in {"ok", "eof"} -> {FALSE}
                      [] NextPacket.kind = "cols" -> BOOLEAN
                      [] NextPacket.kind = "stmt" -> {moreExists, FALSE}
                      [] OTHER -> {moreExists}

\* The flag as it was before this packet.
StateByFlag == IF moreExists THEN "HAS_MORE_RESULTSETS" ELSE "IDLE"

\* #closer[Symbol.dispose](): what is not read is lost.
CloseConn == conn' = "closed" /\ wire' = <<>>

\* The call returns or throws. In end() the call of the reader is followed by
\* `await promise`.
Return(a) ==
    op' = [op EXCEPT ![a] = IF a = Ender
                            THEN [NoCall EXCEPT !.pc = "wait", !.kind = "end", !.void = op[a].void]
                            ELSE NoCall]

Step(a, call) == op' = [op EXCEPT ![a] = call]

EndsRows_LastOnly(kind, prep) == kind = "eof" \/ (kind = "row0" /\ ~prep)

\* The packet says that the rows are over, for the mode in which #doDiscard()
\* reads: in REGULAR mode both EOF and OK are reported as OK.
EndsRows(kind, prep) == kind \in {"eof", "eofM"} \/ (kind = "row0" /\ ~prep)

StateAfter_IgnoresMore(kind) == IF kind = "cols" THEN "HAS_MORE_ROWS" ELSE "IDLE"

\* The next state of the connection by the packet that ends something.
StateAfter(kind) ==
    CASE kind \in {"okM", "eofM"} -> "HAS_MORE_RESULTSETS"
      [] kind = "cols" -> "HAS_MORE_ROWS"
      [] OTHER -> "IDLE"

\* A Resultsets is read to the end. It stays attached if it can be executed again.
Detached(resultsets, stmt) == [resultsets EXCEPT !.more = FALSE, !.live = @ /\ stmt]

\* #rethrowError() and #rethrowErrorIfFatal() with SqlError: the connection is
\* IDLE again. #curResultsets and the Resultsets remain as they are.
ThrowSqlError(a) ==
    /\ SetState("IDLE")
    /\ rs' = [r \in Cmds |-> [rs[r] EXCEPT !.failed = @ \/ (r = cur /\ rs[r].more)]]
    /\ Return(a)

ThrowFatal_NotClosed(a) ==
    /\ KeepConn
    /\ SetState("ERROR")
    /\ Return(a)
    /\ UNCHANGED rs

\* The same functions with another error.
ThrowFatal(a) ==
    /\ CloseConn
    /\ SetState("ERROR")
    /\ Return(a)
    /\ UNCHANGED rs

\* A method fails with an error that is not SqlError. In sendComQuery() the error of
\* an auxiliary command, if there is one, is what is thrown, and end() throws nothing:
\* in these the socket remains as `left` says.
Fails(a, left) ==
    LET call == op[a] IN
    \/ /\ call.kind = "end"
       /\ Step(a, [call EXCEPT !.pc = "finish", !.void = FALSE])
       /\ cur' = None
       /\ UNCHANGED <<state, ends, rs, reader>>
       /\ left
    \/ /\ call.kind = "query" /\ call.err
       /\ ThrowSqlError(a) /\ left
       /\ UNCHANGED <<cur, reader>>
    \/ /\ call.kind = "reader"
       /\ ThrowFatal(a) /\ isReading' = "NO"
       /\ UNCHANGED <<cur, lastReader, colLeft>>
    \/ /\ call.kind \notin {"end", "reader"} /\ ~(call.kind = "query" /\ call.err)
       /\ ThrowFatal(a)
       /\ UNCHANGED <<cur, reader>>

-----------------------------------------------------------------------------
(* Commands: sendComQuery(), sendThreeQueries(), sendComStmtPrepare(),     *)
(* execStmt().                                                             *)

SetQueryingState_NoBusy ==
    /\ state \in {"IDLE", "IDLE_IN_POOL", "QUERYING"}
    /\ state' = "QUERYING"

\* #setQueryingState(): in other states it throws.
SetQueryingState ==
    /\ state \in {"IDLE", "IDLE_IN_POOL"}
    /\ state' = "QUERYING"

\* #doPending(), called until there is nothing pending: COM_STMT_CLOSE packets
\* that precede the command. The server does not answer them.
DoPending ==
    /\ pendingCloseStmts' = {}
    /\ srvStmts' = srvStmts \ pendingCloseStmts

\* A command starts: up to the point where it is sent.
Begin(t, call) ==
    /\ op[t].pc = "idle"
    /\ ncmd < MaxCmds
    /\ SetQueryingState
    /\ DoPending
    /\ ncmd' = ncmd + 1
    /\ Step(t, [call EXCEPT !.pc = "send", !.cmd = ncmd + 1])
    /\ UNCHANGED <<ends, cur, reader, ended, conn, wire, moreExists>>

AuxOnly(kinds) == {list \in AuxLists : \A i \in 1 .. Len(list) : list[i] \in kinds}

NewResultsets(t, kind, aux, void, reads) ==
    /\ Begin(t, [NoCall EXCEPT !.kind = kind, !.r = ncmd + 1, !.aux = aux, !.void = void,
                               !.retries = IF kind = "prepare" THEN 0 ELSE MaxRetries])
    /\ rs' = [rs EXCEPT ![ncmd + 1] = [NoResultsets EXCEPT !.cmd = ncmd + 1, !.reads = reads,
                                                          !.prep = kind = "prepare"]]

SendComQuery(t) ==
    \E aux \in AuxOnly({"initdb", "setopt"}), void \in BOOLEAN, reads \in BOOLEAN :
        /\ void => ~reads
        /\ NewResultsets(t, "query", aux, void, reads)

SendThreeQueries(t) ==
    \E aux \in AuxLists, void \in BOOLEAN : NewResultsets(t, "three", aux, void, FALSE)

SendComStmtPrepare(t) ==
    \E aux \in AuxOnly({"initdb"}), reads \in BOOLEAN : NewResultsets(t, "prepare", aux, FALSE, reads)

ExecStmt(t) ==
    \E r \in Cmds :
        /\ rs[r].given /\ rs[r].live /\ rs[r].stmt
        /\ moreExists => ExecsOnStaleFlag
        /\ Begin(t, [NoCall EXCEPT !.kind = "exec", !.r = r])
        /\ rs' = [rs EXCEPT ![r].cmd = ncmd + 1]

\* The packets of the round-trip are written, and the server answers each command.
\* `bad` are the auxiliary commands that it answers with an error.
Send(t) ==
    LET call == op[t]
        n == Len(call.aux)
        Aux(bad) == [i \in 1 .. n |-> [cmd |-> call.cmd, kind |-> IF call.aux[i] \in bad THEN "err" ELSE "ok"]]
        Main(reply) == [i \in 1 .. Len(reply) |-> [cmd |-> call.cmd, kind |-> reply[i]]]
    IN
    /\ call.pc = "send" /\ conn = "open"
    /\ \E bad \in SUBSET ({call.aux[i] : i \in 1 .. n} \cap AuxMayFail) :
        \E reply \in IF call.kind = "prepare"
                     THEN {<<"err">>} \cup (IF bad = {} THEN {<<"stmt">>} ELSE {})
                     ELSE IF call.kind = "exec" /\ rs[call.r].wrong THEN {<<"err">>}
                     ELSE IF bad \ {"ignored"} # {} THEN RepliesAfterErr
                     ELSE (IF rs[call.r].reads THEN RepliesToReads ELSE Replies)
                          \cap (IF call.kind = "exec" THEN RepliesToExec ELSE Replies) :
            /\ wire' = wire \o Aux(bad) \o Main(reply)
            /\ srvStmts' = srvStmts \cup (IF reply = <<"stmt">> THEN {call.r} ELSE {})
    /\ Step(t, [call EXCEPT !.pc = IF n = 0 THEN "response" ELSE "aux"])
    /\ UNCHANGED <<state, ends, cur, reader, pendingCloseStmts, rs, ended, conn, ncmd, moreExists>>

\* The result of COM_INIT_DB, of preStmt, of prequery, or of COM_SET_OPTION is
\* read. An error is kept till the end of the round-trip, but the error of
\* preStmt is thrown at once.
ReadAux(t) ==
    LET call == op[t]
        which == Head(call.aux)
        bad == NextPacket.kind \in Errors
    IN
    /\ CanRead(t, "aux")
    /\ Consume /\ ReadFlags
    /\ IF bad /\ which = "prestmt"
       THEN ThrowSqlError(t)
       ELSE /\ Step(t, [call EXCEPT !.aux = Tail(@),
                                    !.pc = IF Tail(call.aux) = <<>> THEN "response" ELSE "aux",
                                    !.err = @ \/ (bad /\ which # "ignored")])
            /\ UNCHANGED <<state, ends, rs>>
    /\ UNCHANGED <<cur, reader, stmts, ended, ncmd>>

\* The query ended with SqlError: sendComQuery() and sendThreeQueries() begin their
\* loop again, if the error is of CanRetry.QUERY. preStmt and prequery are not
\* sent again, COM_INIT_DB and COM_SET_OPTION are done.
Retries(call, kind) ==
    /\ kind = "errR" /\ call.retries > 0
    /\ call.kind = "query" => ~call.err

QueryError(t, kind) ==
    IF Retries(op[t], kind)
    THEN /\ DoPending
         /\ Step(t, [op[t] EXCEPT !.pc = "send", !.retries = @ - 1, !.err = FALSE])
         /\ UNCHANGED <<state, ends, rs>>
    ELSE ThrowSqlError(t) /\ UNCHANGED stmts

\* A query returned: with SqlError if an auxiliary command failed. In sendComQuery()
\* that is thrown after #setState(), so an end() that waits has got the state before.
QueryDone(t, r, newRs, s) ==
    /\ SetState(IF op[t].err /\ (op[t].kind = "three" \/ onEndSession = "no") THEN "IDLE" ELSE s)
    /\ rs' = [rs EXCEPT ![r] = [newRs EXCEPT !.given = @ \/ ~op[t].err]]
    /\ Return(t)

\* #readQueryResponse() of a command, and what its caller does with the result.
Response(t) ==
    LET call == op[t]
        r == call.r
        kind == NextPacket.kind
        s == StateAfter(kind)
        attached == [rs[r] EXCEPT !.live = TRUE, !.more = TRUE, !.failed = FALSE]
        skipped == call.kind = "three" /\ call.err
    IN
    /\ CanRead(t, "response") /\ call.kind \in {"query", "three", "prepare"}
    /\ kind # "infile"
    /\ Consume /\ ReadFlags
    /\ \/ kind \in Errors /\ QueryError(t, kind) /\ UNCHANGED cur
       \/ /\ kind = "stmt"
          /\ QueryDone(t, r, [rs[r] EXCEPT !.live = TRUE, !.stmt = TRUE], "IDLE")
          /\ UNCHANGED <<cur, stmts>>
       \/ /\ kind \notin Errors \cup {"stmt"} /\ (s = "IDLE" \/ skipped)
          /\ QueryDone(t, r, rs[r], s)
          /\ UNCHANGED <<cur, stmts>>
       \/ /\ s # "IDLE" /\ ~skipped
          /\ cur' = r
          /\ IF call.void
             THEN /\ rs' = [rs EXCEPT ![r] = attached]
                  /\ Step(t, [call EXCEPT !.pc = "discard", !.st = s])
                  /\ UNCHANGED <<state, ends>>
             ELSE QueryDone(t, r, attached, s)
          /\ UNCHANGED stmts
    /\ UNCHANGED <<reader, ended, ncmd>>

\* execStmt() reads the response in a mode that leaves an OK packet unread. It decides
\* by the flags of an earlier packet, and reads those of this one later.
ExecResponse(t) ==
    LET r == op[t].r
        kind == NextPacket.kind
        s == IF kind \in Oks THEN StateByFlag ELSE "HAS_MORE_ROWS"
    IN
    /\ CanRead(t, "response") /\ op[t].kind = "exec"
    /\ Consume /\ ReadFlags
    /\ \/ kind \in Errors /\ ThrowSqlError(t) /\ UNCHANGED cur
       \/ /\ kind \notin Errors
          /\ SetState(s) /\ Return(t)
          /\ IF s = "IDLE"
             THEN UNCHANGED <<rs, cur>>
             ELSE /\ rs' = [rs EXCEPT ![r].live = TRUE, ![r].more = TRUE, ![r].failed = FALSE]
                  /\ cur' = r
    /\ UNCHANGED <<reader, stmts, ended, ncmd>>

\* LOCAL INFILE: the file is sent, and the response is read again; or there is no
\* handler, or it rejects the file.
LocalInfile(a) ==
    /\ \/ CanRead(a, "response")
       \/ CanRead(a, "discard") /\ cur # None /\ op[a].st = "HAS_MORE_RESULTSETS"
    /\ NextPacket.kind = "infile"
    /\ \/ /\ Consume
          /\ UNCHANGED <<state, ends, cur, reader, rs, op>>
       \/ Fails(a, Consume)
    /\ UNCHANGED <<stmts, ended, ncmd, moreExists>>

-----------------------------------------------------------------------------
(* Reading of results: fetch(), the reader of the last column, #doDiscard(),*)
(* nextResultset().                                                        *)

\* fetch(), by the iterator of a Resultsets. In state ERROR it reads too.
Fetch(t) ==
    \E r \in Cmds :
        /\ op[t].pc = "idle"
        /\ rs[r].given /\ rs[r].live /\ rs[r].more /\ (rs[r].failed => UsesFailed)
        /\ state \in {"HAS_MORE_ROWS", "ERROR"}
        /\ state' = "QUERYING"
        /\ Step(t, [NoCall EXCEPT !.pc = "row", !.kind = "fetch", !.r = r, !.cmd = rs[r].cmd,
                                  !.stmt = cur # None /\ rs[cur].stmt])
        /\ UNCHANGED <<ends, cur, reader, stmts, rs, ended, conn, wire, ncmd, moreExists>>

\* A row, the end of the rows, or an error.
ReadRow(t) ==
    LET call == op[t]
        kind == NextPacket.kind
        s == StateAfter(kind)
    IN
    /\ CanRead(t, "row") /\ cur # None
    /\ Consume /\ ReadFlags
    /\ \/ kind \in Errors /\ ThrowSqlError(t) /\ UNCHANGED <<cur, reader>>
       \/ kind = "eofM" /\ SetState(s) /\ Return(t) /\ UNCHANGED <<rs, cur, reader>>
       \/ /\ kind = "eof"
          /\ rs' = [rs EXCEPT ![cur] = Detached(rs[cur], call.stmt)]
          /\ cur' = None
          /\ SetState(s) /\ Return(t)
          /\ UNCHANGED reader
       \/ /\ kind \notin Errors \cup {"eof", "eofM"} /\ rs[call.r].reads
          /\ lastReader' = cur /\ isReading' = "NO" /\ colLeft' = ColLen
          /\ Return(t)
          /\ UNCHANGED <<state, ends, rs, cur>>
       \/ /\ kind \notin Errors \cup {"eof", "eofM"} /\ ~rs[call.r].reads
          /\ SetState("HAS_MORE_ROWS") /\ Return(t)
          /\ UNCHANGED <<rs, cur, reader>>
    /\ UNCHANGED <<stmts, ended, ncmd>>

\* The call of read() of the last column: it reads a part of the column, or, when
\* there is no more, discards what follows. Anyone who has the row can call it.
ReaderCall == [NoCall EXCEPT !.kind = "reader", !.r = lastReader, !.cmd = rs[lastReader].cmd,
                             !.pc = IF colLeft = 0 THEN "discard" ELSE "chunk",
                             !.st = "HAS_MORE_ROWS", !.stmt = rs[lastReader].stmt]

Read(t) ==
    /\ op[t].pc = "idle"
    /\ lastReader # None /\ isReading = "NO"
    /\ isReading' = IF onEndSession = "no" THEN "YES" ELSE "YES_BY_END_SESSION"
    /\ Step(t, ReaderCall)
    /\ UNCHANGED <<state, ends, cur, lastReader, colLeft, stmts, rs, ended, conn, wire, ncmd, moreExists>>

\* A part of the last column is read. If end() is waiting, the loop goes on.
ReadChunk(a) ==
    /\ op[a].pc = "chunk" /\ conn = "open"
    /\ colLeft' = colLeft - 1
    /\ IF onEndSession = "no"
       THEN isReading' = "NO" /\ Return(a)
       ELSE /\ UNCHANGED isReading
            /\ Step(a, [op[a] EXCEPT !.pc = IF colLeft = 1 THEN "discard" ELSE "chunk"])
    /\ UNCHANGED <<state, ends, cur, lastReader, stmts, rs, ended, conn, wire, ncmd, moreExists>>

\* nextResultset()
NextResultset(t) ==
    \E r \in Cmds :
        /\ op[t].pc = "idle"
        /\ rs[r].given /\ rs[r].live /\ rs[r].more /\ (rs[r].failed => UsesFailed)
        /\ state \in {"HAS_MORE_ROWS", "HAS_MORE_RESULTSETS"}
        /\ state' = "QUERYING"
        /\ Step(t, [NoCall EXCEPT !.pc = IF state = "HAS_MORE_ROWS" THEN "discard" ELSE "response",
                                  !.kind = "next", !.r = r, !.cmd = rs[r].cmd, !.st = state,
                                  !.stmt = rs[cur].stmt])
        /\ UNCHANGED <<ends, cur, reader, stmts, rs, ended, conn, wire, ncmd, moreExists>>

\* #readQueryResponse() of a prepared statement takes an OK packet for the response to
\* COM_STMT_PREPARE. `stmtId` becomes what the bytes of the packet are, and so do the
\* numbers of columns and of placeholders, that are partly beyond the packet.
TakesOkForStmt == rs[cur].prep /\ NextPacket.kind \in Oks

Overwritten == [rs EXCEPT ![cur].stmt = TRUE, ![cur].wrong = TRUE]

\* It reads what it takes for the columns and placeholders, a number of the packets that
\* follow, and returns by these numbers and the flags of an earlier packet.
ResponseRead ==
    IF TakesOkForStmt
    THEN UNCHANGED conn /\ \E n \in 1 .. Len(wire) : wire' = SubSeq(wire, n + 1, Len(wire))
    ELSE Consume

ResponseFlags == IF TakesOkForStmt THEN UNCHANGED moreExists ELSE ReadFlags

ResponseStates ==
    IF TakesOkForStmt THEN {"HAS_MORE_ROWS", StateByFlag} ELSE {StateAfter(NextPacket.kind)}

ResponseResultsets == IF TakesOkForStmt THEN Overwritten ELSE rs

\* Or it fails, or it waits for bytes that do not come.
ResponseFails(a) ==
    /\ TakesOkForStmt
    /\ \/ Fails(a, Consume)
       \/ /\ wire' = <<>> /\ UNCHANGED conn
          /\ rs' = Overwritten
          /\ Step(a, [op[a] EXCEPT !.pc = "columns"])
          /\ UNCHANGED <<state, ends, cur, reader>>

\* The response of the next resultset, in nextResultset().
NextResponse(t) ==
    LET R == ResponseResultsets IN
    /\ CanRead(t, "response") /\ op[t].kind = "next" /\ NextPacket.kind # "infile"
    /\ ResponseFlags
    /\ \/ ResponseFails(t)
       \/ NextPacket.kind \in Errors /\ Consume /\ ThrowSqlError(t) /\ UNCHANGED <<cur, reader>>
       \/ /\ NextPacket.kind \notin Errors
          /\ ResponseRead
          /\ \E s \in ResponseStates :
                /\ SetState(s)
                /\ rs' = IF s = "IDLE" THEN [R EXCEPT ![cur] = Detached(R[cur], op[t].stmt)] ELSE R
                /\ cur' = IF s = "IDLE" THEN None ELSE cur
          /\ Return(t) /\ UNCHANGED reader
    /\ UNCHANGED <<stmts, ended, ncmd>>

\* #doDiscard() is over with this state and these Resultsets, and its caller continues.
Discarded(a, s, R, left) ==
    LET call == op[a]
        done == [R EXCEPT ![cur] = Detached(R[cur], call.stmt)]
    IN
    \/ /\ call.kind = "next" /\ s = "HAS_MORE_RESULTSETS"
       /\ state' = "QUERYING"
       /\ Step(a, [call EXCEPT !.pc = "response", !.st = s, !.stmt = R[cur].stmt])
       /\ rs' = R /\ left
       /\ UNCHANGED <<ends, cur, reader>>
    \/ /\ call.kind = "next" /\ s = "IDLE"
       /\ SetState(s)
       /\ rs' = done /\ cur' = None
       /\ Return(a)
       /\ left
       /\ UNCHANGED reader
    \/ /\ call.kind \in {"query", "three"}
       /\ QueryDone(a, cur, done[cur], s)
       /\ cur' = None
       /\ left
       /\ UNCHANGED reader
    \/ /\ call.kind = "reader"
       /\ SetState(s)
       /\ rs' = done /\ cur' = None
       /\ lastReader' = None /\ isReading' = "NO" /\ UNCHANGED colLeft
       /\ Return(a)
       \* CanceledError is thrown inside of `try`, so #rethrowError() closes the socket
       /\ IF onEndSession = "no" THEN left ELSE CloseConn
    \/ /\ call.kind = "end"
       /\ rs' = [done EXCEPT ![cur].more = TRUE] /\ cur' = None
       /\ Step(a, [call EXCEPT !.pc = "finish", !.st = s])
       /\ left
       /\ UNCHANGED <<state, ends, reader>>

\* #doDiscard() reads on, or it is over.
DiscardGoesOn(a, s, R, left) ==
    IF s = "HAS_MORE_ROWS" \/ (s = "HAS_MORE_RESULTSETS" /\ op[a].kind # "next")
    THEN /\ Step(a, [op[a] EXCEPT !.st = s])
         /\ rs' = R /\ left
         /\ UNCHANGED <<state, ends, cur, reader>>
    ELSE Discarded(a, s, R, left)

\* #doDiscard() fails with SqlError.
DiscardThrows(a) ==
    \/ op[a].kind \in {"query", "three", "next"} /\ ThrowSqlError(a) /\ UNCHANGED <<cur, reader>>
    \/ /\ op[a].kind = "reader"
       /\ ThrowSqlError(a) /\ isReading' = "NO"
       /\ UNCHANGED <<cur, lastReader, colLeft>>
    \/ /\ op[a].kind = "end"
       /\ Step(a, [op[a] EXCEPT !.pc = "finish", !.void = FALSE])
       /\ cur' = None
       /\ UNCHANGED <<state, ends, rs, reader>>

\* #doDiscard() reads a packet of the rows, or the response of the next resultset.
Discard(a) ==
    LET kind == NextPacket.kind
        rows == op[a].st = "HAS_MORE_ROWS"
    IN
    /\ CanRead(a, "discard") /\ cur # None
    /\ rows \/ kind # "infile"
    /\ IF rows THEN ReadFlags ELSE ResponseFlags
    /\ \/ kind \in Errors /\ Consume /\ DiscardThrows(a)
       \/ /\ kind \notin Errors /\ rows
          /\ DiscardGoesOn(a, IF EndsRows(kind, rs[cur].prep) THEN StateAfter(kind) ELSE "HAS_MORE_ROWS",
                           rs, Consume)
       \/ /\ kind \notin Errors /\ ~rows
          /\ \E s \in ResponseStates : DiscardGoesOn(a, s, ResponseResultsets, ResponseRead)
       \/ ~rows /\ ResponseFails(a)
    /\ UNCHANGED <<stmts, ended, ncmd>>

\* Reading or writing throws, as the socket is closed or broken.
IoFails(a) ==
    /\ op[a].pc \in {"send", "aux", "response", "columns", "discard", "row", "chunk"}
    /\ conn # "open"
    /\ Fails(a, KeepConn)
    /\ UNCHANGED <<stmts, ended, ncmd, moreExists>>

\* The state in which disposePreparedStmt() has something to do later.
PendsClose == state \notin {"ERROR", "TERMINATED"}

\* disposePreparedStmt() can be called at any time.
DisposePreparedStmt ==
    \E r \in Cmds :
        /\ rs[r].given /\ rs[r].live /\ rs[r].stmt
        /\ rs' = [rs EXCEPT ![r].stmt = FALSE, ![r].live = rs[r].more]
        /\ pendingCloseStmts' = IF PendsClose /\ ~rs[r].wrong THEN pendingCloseStmts \cup {r}
                                ELSE pendingCloseStmts
        /\ UNCHANGED <<state, ends, cur, reader, srvStmts, op, ended, conn, wire, ncmd, moreExists>>

-----------------------------------------------------------------------------
(* end(), forceImmediateDisconnect(), and the network.                     *)

\* end() after the wait: unread resultsets are discarded, if there are any.
EndCall(s, recycle) ==
    [NoCall EXCEPT !.kind = "end", !.void = recycle, !.st = s,
                   !.pc = IF cur # None /\ s \in {"HAS_MORE_ROWS", "HAS_MORE_RESULTSETS"}
                          THEN "discard" ELSE "finish",
                   !.r = cur, !.cmd = IF cur = None THEN None ELSE rs[cur].cmd,
                   !.stmt = cur # None /\ rs[cur].stmt]

\* #doDiscard() has nothing to read in state IDLE.
EndSkips(s) ==
    IF cur # None /\ s = "IDLE"
    THEN /\ rs' = [rs EXCEPT ![cur] = [Detached(rs[cur], rs[cur].stmt) EXCEPT !.more = TRUE]]
         /\ cur' = None
    ELSE UNCHANGED <<rs, cur>>

\* end(). The field `void` of its call is `recycleConnection`. While a call is
\* in progress it waits for it, and reads the rest of the last column itself, if
\* nobody is reading it.
End ==
    /\ op[Ender].pc = "idle" /\ ended = "no" /\ state # "TERMINATED"
    /\ state' = "TERMINATED"
    /\ \E recycle \in BOOLEAN :
        IF state = "QUERYING"
        THEN /\ onEndSession' = "armed" /\ UNCHANGED <<endState, rs, cur>>
             /\ IF lastReader # None /\ isReading = "NO"
                THEN Step(Ender, [ReaderCall EXCEPT !.void = recycle])
                ELSE Step(Ender, [NoCall EXCEPT !.pc = "wait", !.kind = "end", !.void = recycle])
             /\ isReading' = IF lastReader # None THEN "YES_BY_END_SESSION" ELSE isReading
        ELSE /\ Step(Ender, EndCall(state, recycle))
             /\ EndSkips(state)
             /\ UNCHANGED <<ends, isReading>>
    /\ UNCHANGED <<lastReader, colLeft, stmts, ended, conn, wire, ncmd, moreExists>>

\* end() gets the state in which the call in progress left the connection.
EndResumes ==
    /\ op[Ender].pc = "wait" /\ onEndSession = "resolved"
    /\ onEndSession' = "no" /\ UNCHANGED endState
    /\ Step(Ender, EndCall(endState, op[Ender].void))
    /\ EndSkips(endState)
    /\ UNCHANGED <<state, reader, stmts, ended, conn, wire, ncmd, moreExists>>

Finished(result) == ended' = result /\ op' = [op EXCEPT ![Ender] = NoCall]

\* The connection is not recycled: COM_QUIT, and the socket is closed, unless it
\* was when the error occurred.
Quit ==
    /\ Finished("closed")
    /\ IF op[Ender].st \in {"ERROR", "TERMINATED"} THEN KeepConn ELSE CloseConn

\* COM_RESET_CONNECTION with COM_INIT_DB. The server forgets the statements.
ResetConnection ==
    /\ \E k1, k2 \in {"ok", "err"} : wire' = wire \o <<[cmd |-> None, kind |-> k1], [cmd |-> None, kind |-> k2]>>
    /\ srvStmts' = {}

\* XA END and XA ROLLBACK are not sent: sendComQuery() throws in this state. Then the
\* connection is given to a new MyProtocol, that sends COM_RESET_CONNECTION with
\* COM_INIT_DB; or it is closed.
EndFinishes ==
    LET recycles == op[Ender].void /\ op[Ender].st \in {"IDLE", "IDLE_IN_POOL"} IN
    /\ op[Ender].pc = "finish"
    /\ lastReader' = None /\ onEndSession' = "no" /\ UNCHANGED <<isReading, colLeft, endState>>
    /\ IF recycles /\ conn = "open"
       THEN /\ ResetConnection
            /\ Step(Ender, [op[Ender] EXCEPT !.pc = "reset", !.cmd = None, !.r = None])
            /\ UNCHANGED <<ended, conn>>
       ELSE Quit /\ UNCHANGED srvStmts
    /\ UNCHANGED <<state, cur, pendingCloseStmts, rs, ncmd, moreExists>>

\* #sendComResetConnectionAndInitDb() has read the two results, and initSql is sent.
ResetRead ==
    LET ok == wire[1].kind = "ok" /\ wire[2].kind = "ok" IN
    /\ op[Ender].pc = "reset" /\ conn = "open" /\ Len(wire) >= 2
    /\ IF ok
       THEN /\ \E reply \in Replies : wire' = SubSeq(wire, 3, Len(wire)) \o
                    [i \in 1 .. Len(reply) |-> [cmd |-> None, kind |-> reply[i]]]
            /\ op' = [op EXCEPT ![Ender].pc = "initsql"]
            /\ UNCHANGED <<ended, conn>>
       ELSE Quit
    /\ UNCHANGED <<state, ends, cur, reader, stmts, rs, ncmd, moreExists>>

\* The new MyProtocol reads the results of initSql (RowType.VOID) to the end.
InitSqlRead ==
    /\ op[Ender].pc = "initsql" /\ conn = "open" /\ wire # <<>>
    /\ \/ NextPacket.kind \in Errors /\ Quit
       \/ NextPacket.kind \notin Errors /\ Len(wire) = 1 /\ Finished("recycled") /\ Consume
       \/ NextPacket.kind \notin Errors /\ Len(wire) > 1 /\ Consume /\ UNCHANGED <<op, ended>>
    /\ UNCHANGED <<state, ends, cur, reader, stmts, rs, ncmd, moreExists>>

ResetFails ==
    /\ op[Ender].pc \in {"reset", "initsql"} /\ conn # "open"
    /\ Quit
    /\ UNCHANGED <<state, ends, cur, reader, stmts, rs, ncmd, moreExists>>

\* forceImmediateDisconnect(). The pool calls either this or end().
ForceImmediateDisconnect ==
    /\ state \notin {"ERROR", "TERMINATED"} /\ op[Ender].pc = "idle" /\ ended = "no"
    /\ CloseConn
    /\ state' = "ERROR"
    /\ ended' = "closed"
    /\ UNCHANGED <<ends, cur, reader, stmts, rs, op, ncmd, moreExists>>

\* The connection breaks, and what was not read is lost.
Break ==
    /\ conn = "open" /\ ended = "no"
    /\ conn' = "broken" /\ wire' = <<>>
    /\ UNCHANGED <<state, ends, cur, reader, stmts, rs, op, ended, ncmd, moreExists>>

-----------------------------------------------------------------------------
(* The specification.                                                      *)

\* A call continues when what it awaits has happened.
Continue(a) ==
    \/ Send(a) \/ ReadAux(a) \/ Response(a) \/ ExecResponse(a) \/ LocalInfile(a)
    \/ ReadRow(a) \/ ReadChunk(a) \/ NextResponse(a) \/ Discard(a) \/ IoFails(a)

EndContinues == EndResumes \/ EndFinishes \/ ResetRead \/ InitSqlRead \/ ResetFails

Call(t) ==
    \/ SendComQuery(t) \/ SendThreeQueries(t) \/ SendComStmtPrepare(t) \/ ExecStmt(t)
    \/ Fetch(t) \/ Read(t) \/ NextResultset(t)

Next ==
    \/ \E a \in Actors : Continue(a)
    \/ EndContinues
    \/ \E t \in Tasks : Call(t)
    \/ DisposePreparedStmt \/ End \/ ForceImmediateDisconnect \/ Break

\* The server answers or the connection breaks, and the event loop runs what is
\* ready. Nobody must call anything.
Fairness == (\A a \in Actors : WF_vars(Continue(a))) /\ WF_vars(EndContinues)

Spec == Init /\ [][Next]_vars
FairSpec == Spec /\ Fairness

-----------------------------------------------------------------------------
(* Properties.                                                             *)

Reading == {a \in Actors : op[a].pc \in {"aux", "response", "columns", "discard", "row", "chunk", "reset", "initsql"}}

\* When the connection is IDLE, or end() gives it back for reuse, everything that
\* the server answered is read, and no call is still about to read.  So the next
\* command, of this user or of another one, gets its own reply.
NothingUnread ==
    conn = "open" /\ (state \in {"IDLE", "IDLE_IN_POOL"} \/ ended = "recycled") => wire = <<>> /\ Reading = {}

\* `#state` works as a mutex: of all the tasks and end(), one reads from the socket,
\* and it reads packets of its own command only; so an iteration over a Resultsets
\* gives rows of its query.
OneReader ==
    /\ conn = "open" => Cardinality(Reading) <= 1
    /\ \A a \in Reading : wire # <<>> => NextPacket.cmd = op[a].cmd

\* Once end() was called no command can be started through this object, whatever
\* was in progress, and no rows can be fetched while it works.
EndedIsUnusable ==
    op[Ender].pc # "idle" \/ ended = "recycled" =>
        state \notin {"IDLE", "IDLE_IN_POOL", "HAS_MORE_ROWS", "HAS_MORE_RESULTSETS"}

\* Nothing is leaked.  When end() or forceImmediateDisconnect() is over, or the state
\* is ERROR, the client closed the socket, unless end() gave it back for reuse, and
\* then no prepared statement is open there.  Before that, a prepared statement of
\* the server belongs to a Resultsets that can execute it, or is to be closed, or is
\* being prepared: none is forgotten.
NothingLeaked ==
    /\ ended = "closed" \/ state = "ERROR" => conn = "closed"
    /\ ended = "recycled" => srvStmts = {}
    /\ conn = "open" /\ ended = "no" /\ op[Ender].pc = "idle" => \A r \in srvStmts :
          \/ (rs[r].stmt /\ ~rs[r].wrong) \/ r \in pendingCloseStmts
          \/ \E t \in Tasks : op[t].kind = "prepare" /\ op[t].r = r

\* end() waits for a call that gave a row with the reader of its last column to the
\* program: the end of the column is what it waits for now.
WaitsForProgram == op[Ender].pc = "wait" /\ onEndSession = "armed" /\ lastReader # None /\ isReading = "NO"

\* Every call returns or throws, and end() completes, also when it is called during a
\* query or in the middle of rows or of a last column, that nobody continues to read.
\* The exception is a call of end() while the row with this column was being fetched.
CallsReturn ==
    /\ \A t \in Tasks : op[t].pc # "idle" ~> op[t].pc = "idle"
    /\ op[Ender].pc # "idle" ~> ended # "no" \/ WaitsForProgram
=============================================================================

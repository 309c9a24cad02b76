---------------------------- MODULE ProtocolProofs ----------------------------
(***************************************************************************)
(* Proofs about Protocol: that `#state` is a mutex. For each value of it   *)
(* and of `#onEndSession` it is known who may read from the socket (Turn),  *)
(* where in its reply this one is (Unread), and which Resultsets can have   *)
(* more rows (Settled). After the socket was closed only little is known   *)
(* (Closed), but enough for `#state` not to become usable again.           *)
(***************************************************************************)
EXTENDS Protocol, SequenceTheorems, FiniteSetTheorems, TLAPS

Resting == {"IDLE", "IDLE_IN_POOL"}
More == {"HAS_MORE_ROWS", "HAS_MORE_RESULTSETS"}
Commands == {"query", "three", "prepare", "exec"}

-----------------------------------------------------------------------------
(* What is not read. All about the packets of w that come after the first n. *)

Chain(w, n) ==
    /\ Len(w) > n
    /\ w[Len(w)].kind \in Final
    /\ \A i \in n + 1 .. Len(w) - 1 : w[i + 1].kind \in Follows(w[i].kind)

Tagged(w, cmd) == \A i \in 1 .. Len(w) : w[i].cmd = cmd

NoErrors(w) == \A i \in 1 .. Len(w) : w[i].kind \notin Errors

NoErrorsInRows(w, n) ==
    \A i, j \in n + 1 .. Len(w) : i < j /\ w[i].kind = "cols" => w[j].kind \notin Errors

\* In state s of the connection; `reads` is of the Resultsets of command cmd.
Unread(s, reads, cmd, w) ==
    /\ s \in Resting => w = <<>>
    /\ s \in More => Chain(w, 0) /\ Tagged(w, cmd)
    /\ s = "HAS_MORE_ROWS" => w[1].kind \in Follows("row") /\ (reads => NoErrors(w))
    /\ s = "HAS_MORE_RESULTSETS" => w[1].kind \in Follows("okM") /\ (reads => NoErrorsInRows(w, 0))

\* The replies to the auxiliary commands, and the one to the main command.
Replied(call, reads, w) ==
    LET n == Len(call.aux) IN
    /\ Chain(w, n) /\ Tagged(w, call.cmd)
    /\ \A i \in 1 .. n : w[i].kind \in {"ok", "err"} /\ (w[i].kind = "err" => call.aux[i] # "prestmt")
    /\ w[n + 1].kind \in Follows("okM") \cup {"errR", "stmt"}
    /\ reads => NoErrorsInRows(w, n)
    /\ call.err \/ (\E i \in 1 .. n : w[i].kind = "err" /\ call.aux[i] # "ignored") =>
          Len(w) = n + 1 /\ w[n + 1].kind # "stmt"

-----------------------------------------------------------------------------
(* Who has the word.                                                       *)

\* The Resultsets whose rows the program can ask for
Loose(R) == {r \in Cmds : R[r].more /\ ~R[r].failed}

\* The connection can be in state s, with #curResultsets c.
Settled(s, c, R, w, cn) ==
    /\ s \in Resting \cup More
    /\ s \in Resting => Loose(R) = {}
    /\ s \in More => c \in Cmds /\ Loose(R) \subseteq {c}
    /\ cn = "open" => Unread(s, R[c].reads, R[c].cmd, w)

\* A command was sent or is about to be, and its response is not read.
HoldsCommand(call, R, w, cn, lr) ==
    /\ call.kind \in Commands /\ call.pc \in {"send", "aux", "response"}
    /\ lr = None /\ Loose(R) = {}
    /\ call.r \in Cmds /\ R[call.r].cmd = call.cmd
    /\ call.void => call.kind \in {"query", "three"}
    /\ call.pc = "send" => ~call.err /\ (cn = "open" => w = <<>>)
    /\ call.pc = "aux" => call.aux # <<>>
    /\ call.pc = "response" => call.aux = <<>>
    /\ call.pc # "send" /\ cn = "open" => Replied(call, R[call.r].reads, w)

Position(call) == IF call.pc = "row" THEN "HAS_MORE_ROWS" ELSE call.st

\* Results are being read.
HoldsResults(call, c, R, w, cn, lr) ==
    /\ \/ call.kind = "fetch" /\ call.pc = "row"
       \/ call.kind = "next" /\ call.pc = "response" /\ call.st = "HAS_MORE_RESULTSETS"
       \/ call.kind \in {"query", "three", "next"} /\ call.pc = "discard"
    /\ call.kind = "query" => ~call.err
    /\ lr = None /\ call.r = c /\ call.cmd = R[c].cmd
    /\ Position(call) \in More /\ Settled(Position(call), c, R, w, cn)

\* The reader of a last column works, or it is with the program.
HoldsReader(call, c, R, w, cn, lr, rd, cl) ==
    /\ call.kind = "reader" /\ call.pc \in {"chunk", "discard"}
    /\ call.pc = "chunk" => call.st = "HAS_MORE_ROWS" /\ cl > 0
    /\ lr = c /\ rd # "NO" /\ call.cmd = R[c].cmd
    /\ call.st \in More /\ Settled(call.st, c, R, w, cn)
    /\ cn = "open" => NoErrors(w)

GivenReader(c, R, w, cn, lr, rd) ==
    /\ lr = c /\ rd = "NO"
    /\ Settled("HAS_MORE_ROWS", c, R, w, cn)
    /\ cn = "open" => NoErrors(w)

\* A call is in progress, and end() perhaps waits for it.
Engaged(s, oe, e, en) ==
    /\ en = "no"
    /\ \/ oe = "no" /\ e.pc = "idle" /\ s = "QUERYING"
       \/ oe = "armed" /\ e.pc = "wait" /\ s \in {"QUERYING", "TERMINATED"}

\* end() has the word, after it waited.
HoldsEnd(e, c, R, w, cn) ==
    /\ e.kind = "end" /\ e.pc \in {"discard", "finish", "reset", "initsql"}
    /\ e.st \in Resting \cup More
    /\ e.pc = "discard" => e.st \in More /\ e.cmd = R[c].cmd /\ Settled(e.st, c, R, w, cn)
    /\ e.pc = "finish" /\ e.void /\ e.st \in Resting /\ cn = "open" => w = <<>>
    /\ e.pc \in {"reset", "initsql"} => e.cmd = None /\ e.st \in Resting
    /\ e.pc = "reset" /\ cn = "open" => Len(w) = 2 /\ Tagged(w, None)
    /\ e.pc = "initsql" /\ cn = "open" => w # <<>> /\ Tagged(w, None)

Alone(O, t) == \A u \in Tasks \ {t} : O[u].pc = "idle"
AllIdle(O) == \A u \in Tasks : O[u].pc = "idle"

TaskTurn(t) ==
    /\ Alone(op, t) /\ Engaged(state, onEndSession, op[Ender], ended)
    /\ \/ HoldsCommand(op[t], rs, wire, conn, lastReader)
       \/ HoldsResults(op[t], cur, rs, wire, conn, lastReader)
       \/ HoldsReader(op[t], cur, rs, wire, conn, lastReader, isReading, colLeft)

ReaderTurn ==
    /\ AllIdle(op) /\ Engaged(state, onEndSession, op[Ender], ended)
    /\ GivenReader(cur, rs, wire, conn, lastReader, isReading)

ReadyTurn ==
    /\ AllIdle(op) /\ ended = "no" /\ onEndSession = "no" /\ op[Ender].pc = "idle" /\ lastReader = None
    /\ Settled(state, cur, rs, wire, conn)

ToldTurn ==
    /\ AllIdle(op) /\ ended = "no" /\ onEndSession = "resolved" /\ op[Ender].pc = "wait" /\ lastReader = None
    /\ state \in {"QUERYING", "TERMINATED"}
    /\ Settled(endState, cur, rs, wire, conn)

EndReadsTurn ==
    /\ AllIdle(op) /\ ended = "no" /\ onEndSession = "armed" /\ state = "TERMINATED"
    /\ HoldsReader(op[Ender], cur, rs, wire, conn, lastReader, isReading, colLeft)

EndTurn ==
    /\ AllIdle(op) /\ ended = "no" /\ onEndSession = "no" /\ lastReader = None
    /\ state \in {"QUERYING", "TERMINATED"}
    /\ HoldsEnd(op[Ender], cur, rs, wire, conn)

OverTurn ==
    /\ AllIdle(op) /\ ended = "recycled" /\ onEndSession = "no" /\ op[Ender].pc = "idle" /\ lastReader = None
    /\ state \in {"QUERYING", "TERMINATED"}
    /\ conn = "open" /\ wire = <<>>

Turn == \/ \E t \in Tasks : TaskTurn(t)
        \/ ReaderTurn \/ ReadyTurn \/ ToldTurn \/ EndReadsTurn \/ EndTurn \/ OverTurn

Closed ==
    /\ state \notin More /\ ended # "recycled"
    /\ ended = "closed" => op[Ender].pc = "idle"
    /\ ended = "no" => /\ state \in {"ERROR", "QUERYING", "TERMINATED"}
                       /\ \A t \in Tasks : op[t].pc # "idle" => op[t].kind \in {"fetch", "reader"}

\* What calls there are
CallsOk ==
    /\ op[Ender].kind \in {"none", "end", "reader"}
    /\ op[Ender].pc \in {"idle", "wait", "chunk", "discard", "finish", "reset", "initsql"}
    /\ op[Ender].pc = "chunk" => op[Ender].kind = "reader"
    /\ op[Ender].kind = "none" => op[Ender].pc = "idle"
    /\ \A t \in Tasks : /\ op[t].kind # "end"
                        /\ op[t].pc \in {"idle", "send", "aux", "response", "discard", "row", "chunk"}

MutexInv ==
    /\ ShapesOK /\ CallsOk
    /\ conn # "open" => wire = <<>>
    /\ IF conn = "closed" THEN Closed ELSE Turn

\* The response to the call's command is still to be read.
Awaits(call) == call.kind \in Commands /\ call.pc \in {"send", "aux", "response"}

NoOks(w) == \A i \in 1 .. Len(w) : w[i].kind \notin Oks

\* A prepared statement is answered so that no OK packet is read where the code takes it
\* for something else, and execStmt() finds no flag that tells of more results.
PreparedReplied(call, R, w, flag) ==
    /\ call.r \in Cmds
    /\ call.kind \in {"query", "three"} => ~R[call.r].prep
    /\ call.kind = "prepare" => \A i \in Len(call.aux) + 1 .. Len(w) : w[i].kind \in {"stmt", "err"}
    /\ call.kind = "exec" =>
          /\ call.aux = <<>> /\ ~flag
          /\ \A i \in 1 .. Len(w) : w[i].kind \notin {"infile", "stmt"}
          /\ NoOks(w) \/ (Len(w) = 1 /\ w[1].kind = "ok")

PreparedOpen ==
    /\ \A r \in Cmds : ~rs[r].wrong
    /\ \A t \in Tasks : Awaits(op[t]) => PreparedReplied(op[t], rs, wire, moreExists)
    /\ cur \in Cmds /\ rs[cur].prep /\ (\A t \in Tasks : ~Awaits(op[t])) /\ op[Ender].pc \notin {"reset", "initsql"}
          => NoOks(wire)

\* A Resultsets remains of the same kind.
SamePrepared(R) == \A r \in Cmds : R[r].prep = rs[r].prep /\ R[r].wrong = rs[r].wrong

PreparedInv == moreExists \in BOOLEAN /\ (conn = "open" => PreparedOpen)

-----------------------------------------------------------------------------
(* Reading a packet.                                                       *)

LEMMA TailFacts ==
    ASSUME NEW w \in Seq(Packets), w # <<>>
    PROVE  /\ Tail(w) \in Seq(Packets) /\ Len(w) \in Nat \ {0}
           /\ Len(Tail(w)) = Len(w) - 1 /\ Head(w) = w[1]
           /\ \A i \in 1 .. Len(w) - 1 : Tail(w)[i] = w[i + 1]
           /\ \A i \in 1 .. Len(w) : w[i] \in Packets
           /\ Len(w) = 1 => Tail(w) = <<>>
OBVIOUS

\* What comes after the first packet is still a chain, and tagged, and so on.
LEMMA TailChain ==
    ASSUME NEW w \in Seq(Packets), NEW n \in Nat, Chain(w, n)
    PROVE  /\ w # <<>>
           /\ n > 0 => Chain(Tail(w), n - 1)
           /\ n = 0 /\ Len(w) > 1 => Chain(Tail(w), 0) /\ Tail(w)[1].kind \in Follows(w[1].kind)
           /\ n = 0 /\ w[1].kind \in Final => Tail(w) = <<>>
           /\ n = 0 /\ w[1].kind \notin Final => Len(w) > 1
<1>0. w # <<>> /\ Len(w) > n /\ Len(w) \in Nat
  BY DEF Chain
<1>1. /\ Tail(w) \in Seq(Packets)
      /\ Len(Tail(w)) = Len(w) - 1
      /\ \A i \in 1 .. Len(w) - 1 : Tail(w)[i] = w[i + 1]
      /\ Len(w) = 1 => Tail(w) = <<>>
  BY <1>0, TailFacts
<1>2. w[Len(w)].kind \in Final /\ \A i \in n + 1 .. Len(w) - 1 : w[i + 1].kind \in Follows(w[i].kind)
  BY DEF Chain
<1>3. \A m \in Nat : m < Len(w) - 1 /\ m + 1 >= n => Chain(Tail(w), m)
  <2> SUFFICES ASSUME NEW m \in Nat, m < Len(w) - 1, m + 1 >= n
               PROVE  Chain(Tail(w), m)
    OBVIOUS
  <2>1. Len(Tail(w)) > m /\ Tail(w)[Len(Tail(w))].kind \in Final
    BY <1>0, <1>1, <1>2
  <2>2. \A i \in m + 1 .. Len(Tail(w)) - 1 : Tail(w)[i + 1].kind \in Follows(Tail(w)[i].kind)
    BY <1>0, <1>1, <1>2
  <2>3. QED
    BY <2>1, <2>2 DEF Chain
<1>4. n > 0 => Chain(Tail(w), n - 1)
  BY <1>0, <1>3
<1>5. n = 0 /\ Len(w) > 1 => Chain(Tail(w), 0) /\ Tail(w)[1].kind \in Follows(w[1].kind)
  BY <1>0, <1>1, <1>2, <1>3
<1>6. \A kind \in Final : Follows(kind) = {}
  BY DEF Final, Follows
<1>7. n = 0 /\ w[1].kind \in Final => Tail(w) = <<>>
  BY <1>0, <1>1, <1>5, <1>6
<1>8. n = 0 /\ w[1].kind \notin Final => Len(w) > 1
  BY <1>0, <1>2
<1>9. QED
  BY <1>0, <1>4, <1>5, <1>7, <1>8

LEMMA TailTagged ==
    ASSUME NEW w \in Seq(Packets), w # <<>>, NEW cmd
    PROVE  /\ Tagged(w, cmd) => Tagged(Tail(w), cmd) /\ Head(w).cmd = cmd
           /\ NoErrors(w) => NoErrors(Tail(w)) /\ Head(w).kind \notin Errors
           /\ \A n \in Nat : NoErrorsInRows(w, n) => NoErrorsInRows(Tail(w), IF n = 0 THEN 0 ELSE n - 1)
           /\ NoErrorsInRows(w, 0) /\ Head(w).kind = "cols" => NoErrors(Tail(w))
<1>1. /\ Len(w) \in Nat \ {0} /\ Len(Tail(w)) = Len(w) - 1 /\ Head(w) = w[1]
      /\ \A i \in 1 .. Len(w) - 1 : Tail(w)[i] = w[i + 1]
  BY TailFacts
<1>2. \A i \in 1 .. Len(Tail(w)) : Tail(w)[i] = w[i + 1] /\ i + 1 \in 1 .. Len(w)
  BY <1>1
<1>3. Tagged(w, cmd) => Tagged(Tail(w), cmd) /\ Head(w).cmd = cmd
  BY <1>1, <1>2 DEF Tagged
<1>4. NoErrors(w) => NoErrors(Tail(w)) /\ Head(w).kind \notin Errors
  BY <1>1, <1>2 DEF NoErrors
<1>5. \A n \in Nat : NoErrorsInRows(w, n) => NoErrorsInRows(Tail(w), IF n = 0 THEN 0 ELSE n - 1)
  BY <1>1, <1>2 DEF NoErrorsInRows
<1>6. NoErrorsInRows(w, 0) /\ Head(w).kind = "cols" => NoErrors(Tail(w))
  BY <1>1, <1>2 DEF NoErrorsInRows, NoErrors
<1>7. QED
  BY <1>3, <1>4, <1>5, <1>6

LEMMA FollowsFacts ==
    /\ Follows("cols") = {"row", "eof", "eofM", "err"} /\ Follows("row") = {"row", "eof", "eofM", "err"}
    /\ Follows("okM") = {"ok", "okM", "cols", "infile", "err"}
    /\ Follows("eofM") = {"ok", "okM", "cols", "infile", "err"}
    /\ Follows("infile") = {"ok", "okM", "err"}
    /\ "row" \notin Final /\ "cols" \notin Final /\ "okM" \notin Final /\ "eofM" \notin Final
    /\ "infile" \notin Final /\ {"ok", "err", "errR", "eof", "stmt"} \subseteq Final
BY DEF Follows, Final

LEMMA StateAfterFacts ==
    /\ StateAfter("okM") = "HAS_MORE_RESULTSETS" /\ StateAfter("eofM") = "HAS_MORE_RESULTSETS"
    /\ StateAfter("cols") = "HAS_MORE_ROWS"
    /\ StateAfter("ok") = "IDLE" /\ StateAfter("eof") = "IDLE" /\ StateAfter("stmt") = "IDLE"
    /\ StateAfter("err") = "IDLE" /\ StateAfter("errR") = "IDLE"
BY DEF StateAfter

\* The state of the connection when a packet was read in state s
After(s, kind) == IF s = "HAS_MORE_ROWS" /\ kind = "row" THEN s ELSE StateAfter(kind)

LEMMA UnreadStep ==
    ASSUME NEW s \in More, NEW reads, NEW cmd, NEW w \in Seq(Packets), Unread(s, reads, cmd, w)
    PROVE  /\ w # <<>> /\ Head(w).cmd = cmd
           /\ s = "HAS_MORE_ROWS" => Head(w).kind \in {"row", "eof", "eofM", "err"}
           /\ s = "HAS_MORE_RESULTSETS" => Head(w).kind \in {"ok", "okM", "cols", "infile", "err"}
           /\ Head(w).kind = "err" => Tail(w) = <<>> /\ (s = "HAS_MORE_ROWS" => ~reads)
           /\ Head(w).kind = "infile" => Unread(s, reads, cmd, Tail(w))
           /\ Head(w).kind \notin {"err", "infile"} => Unread(After(s, Head(w).kind), reads, cmd, Tail(w))
<1>1. Chain(w, 0) /\ Tagged(w, cmd)
  BY DEF Unread
<1>2. /\ w # <<>>
      /\ w[1].kind \in Final => Tail(w) = <<>>
      /\ w[1].kind \notin Final => Chain(Tail(w), 0) /\ Tail(w)[1].kind \in Follows(w[1].kind)
  BY <1>1, TailChain
<1>3. Head(w) = w[1] /\ Tagged(Tail(w), cmd) /\ Head(w).cmd = cmd
  BY <1>1, <1>2, TailFacts, TailTagged
<1>4. /\ NoErrors(w) => NoErrors(Tail(w)) /\ Head(w).kind \notin Errors
      /\ NoErrorsInRows(w, 0) => NoErrorsInRows(Tail(w), 0)
      /\ NoErrorsInRows(w, 0) /\ Head(w).kind = "cols" => NoErrors(Tail(w))
  BY <1>2, TailTagged
<1>5. NoErrors(Tail(w)) => NoErrorsInRows(Tail(w), 0)
  BY DEF NoErrors, NoErrorsInRows
<1>6. CASE s = "HAS_MORE_ROWS"
  <2>1. w[1].kind \in {"row", "eof", "eofM", "err"} /\ (reads => NoErrors(w))
    BY <1>6 DEF Unread, Follows
  <2>2. CASE w[1].kind = "row"
    BY <1>2, <1>3, <1>4, <1>6, <2>1, <2>2, FollowsFacts DEF Unread, After, More, Resting
  <2>3. CASE w[1].kind = "eof"
    BY <1>2, <1>3, <1>6, <2>3, FollowsFacts, StateAfterFacts DEF Unread, After, More, Resting
  <2>4. CASE w[1].kind = "eofM"
    BY <1>2, <1>3, <1>4, <1>5, <1>6, <2>1, <2>4, FollowsFacts, StateAfterFacts DEF Unread, After, More, Resting
  <2>5. CASE w[1].kind = "err"
    BY <1>2, <1>3, <1>4, <1>6, <2>1, <2>5 DEF Final, Errors
  <2>6. QED
    BY <2>1, <2>2, <2>3, <2>4, <2>5
<1>7. CASE s = "HAS_MORE_RESULTSETS"
  <2>1. w[1].kind \in {"ok", "okM", "cols", "infile", "err"} /\ (reads => NoErrorsInRows(w, 0))
    BY <1>7 DEF Unread, Follows
  <2>2. CASE w[1].kind \in {"ok", "err"}
    BY <1>2, <1>3, <1>7, <2>2, FollowsFacts, StateAfterFacts DEF Unread, After, More, Resting
  <2>3. CASE w[1].kind = "cols"
    BY <1>2, <1>3, <1>4, <1>7, <2>1, <2>3, FollowsFacts, StateAfterFacts DEF Unread, After, More, Resting
  <2>4. CASE w[1].kind = "okM"
    BY <1>2, <1>3, <1>4, <1>7, <2>1, <2>4, FollowsFacts, StateAfterFacts DEF Unread, After, More, Resting
  <2>5. CASE w[1].kind = "infile"
    BY <1>2, <1>3, <1>4, <1>7, <2>1, <2>5, FollowsFacts DEF Unread, More, Resting
  <2>6. QED
    BY <1>7, <2>1, <2>2, <2>3, <2>4, <2>5
<1>8. QED
  BY <1>6, <1>7 DEF More

\* The response to the main command is read.
LEMMA RepliedStep ==
    ASSUME NEW call \in Calls, NEW reads, NEW w \in Seq(Packets), call.aux = <<>>, Replied(call, reads, w)
    PROVE  /\ w # <<>> /\ Head(w).cmd = call.cmd
           /\ Head(w).kind \in {"ok", "okM", "cols", "infile", "err", "errR", "stmt"}
           /\ Head(w).kind \in Errors \cup {"stmt"} => Tail(w) = <<>>
           /\ Head(w).kind \in {"ok", "okM", "cols"} => Unread(StateAfter(Head(w).kind), reads, call.cmd, Tail(w))
           /\ Head(w).kind = "infile" => Replied(call, reads, Tail(w))
           /\ call.err => Head(w).kind \in Errors \cup {"ok"}
<1>1. Len(call.aux) = 0
  OBVIOUS
<1>2. /\ Chain(w, 0) /\ Tagged(w, call.cmd)
      /\ w[1].kind \in Follows("okM") \cup {"errR", "stmt"}
      /\ reads => NoErrorsInRows(w, 0)
      /\ call.err => Len(w) = 1 /\ w[1].kind # "stmt"
  BY <1>1 DEF Replied
<1>3. /\ w # <<>>
      /\ w[1].kind \in Final => Tail(w) = <<>>
      /\ w[1].kind \notin Final => Len(w) > 1 /\ Chain(Tail(w), 0) /\ Tail(w)[1].kind \in Follows(w[1].kind)
  BY <1>2, TailChain
<1>4. Head(w) = w[1] /\ Head(w).cmd = call.cmd /\ Tagged(Tail(w), call.cmd)
  BY <1>2, <1>3, TailFacts, TailTagged
<1>5. NoErrorsInRows(w, 0) => NoErrorsInRows(Tail(w), 0)
  BY <1>3, TailTagged
<1>6. w[1].kind \in Follows("okM") => Unread("HAS_MORE_RESULTSETS", reads, call.cmd, w)
  BY <1>2 DEF Unread, Resting, More
<1>7. Head(w).kind \in {"ok", "okM", "cols"} => Unread(StateAfter(Head(w).kind), reads, call.cmd, Tail(w))
  <2>1. Head(w).kind \in {"ok", "okM", "cols"} => w[1].kind \in Follows("okM")
    BY <1>4, FollowsFacts
  <2>2. "HAS_MORE_RESULTSETS" \in More
    BY DEF More
  <2>3. Head(w).kind \in {"ok", "okM", "cols"} =>
            Unread(After("HAS_MORE_RESULTSETS", Head(w).kind), reads, call.cmd, Tail(w))
    BY <1>6, <2>1, <2>2, UnreadStep, SMTT(20)
  <2>4. QED
    BY <2>3 DEF After
<1>8. ASSUME call.err
      PROVE  Head(w).kind \in Errors \cup {"ok"}
  <2>1. Len(w) = 1 /\ w[1].kind # "stmt"
    BY <1>2, <1>8
  <2>2. w[1].kind \in Final
    BY <1>3, <2>1
  <2>3. QED
    BY <1>2, <1>4, <2>1, <2>2, FollowsFacts DEF Errors
<1>9. ASSUME Head(w).kind = "infile"
      PROVE  Replied(call, reads, Tail(w))
  <2>1. Chain(Tail(w), 0) /\ Tail(w)[1].kind \in Follows("okM") \cup {"errR", "stmt"} /\ ~call.err
    BY <1>3, <1>4, <1>8, <1>9, FollowsFacts DEF Errors
  <2>2. Tagged(Tail(w), call.cmd) /\ (reads => NoErrorsInRows(Tail(w), 0))
    BY <1>2, <1>4, <1>5
  <2>3. ~(\E i \in 1 .. 0 : Tail(w)[i].kind = "err" /\ call.aux[i] # "ignored")
    OBVIOUS
  <2>4. ~(call.err \/ \E i \in 1 .. 0 : Tail(w)[i].kind = "err" /\ call.aux[i] # "ignored")
    BY <2>1, <2>3
  <2>5. \A i \in 1 .. 0 : Tail(w)[i].kind \in {"ok", "err"} /\ (Tail(w)[i].kind = "err" => call.aux[i] # "prestmt")
    OBVIOUS
  <2>6. 0 + 1 = 1
    OBVIOUS
  <2>7. QED
    BY <1>1, <2>1, <2>2, <2>4, <2>5, <2>6, Zenon DEF Replied
<1>10. Head(w).kind \in Errors \cup {"stmt"} => Tail(w) = <<>>
  BY <1>3, <1>4, FollowsFacts DEF Errors
<1>11. Head(w).kind \in {"ok", "okM", "cols", "infile", "err", "errR", "stmt"}
  BY <1>2, <1>4, FollowsFacts
<1>12. QED
  BY <1>3, <1>4, <1>7, <1>8, <1>9, <1>10, <1>11

\* The response to an auxiliary command is read.
LEMMA RepliedAuxStep ==
    ASSUME NEW call \in Calls, NEW reads, NEW w \in Seq(Packets), call.aux # <<>>, Replied(call, reads, w),
           NEW call2, call2.aux = Tail(call.aux), call2.cmd = call.cmd,
           call2.err <=> (call.err \/ (Head(w).kind \in Errors /\ Head(call.aux) # "ignored"))
    PROVE  /\ w # <<>> /\ Head(w).cmd = call.cmd
           /\ Head(w).kind \in Errors => Head(call.aux) # "prestmt"
           /\ Replied(call2, reads, Tail(w))
<1> DEFINE n == Len(call.aux)
<1>1. call.aux \in Seq(AuxKinds)
  BY DEF Calls
<1>2. /\ n \in Nat \ {0} /\ Len(call2.aux) = n - 1 /\ Head(call.aux) = call.aux[1]
      /\ \A i \in 1 .. n - 1 : call2.aux[i] = call.aux[i + 1]
  BY <1>1
<1>3. /\ Chain(w, n) /\ Tagged(w, call.cmd)
      /\ \A i \in 1 .. n : w[i].kind \in {"ok", "err"} /\ (w[i].kind = "err" => call.aux[i] # "prestmt")
      /\ w[n + 1].kind \in Follows("okM") \cup {"errR", "stmt"}
      /\ reads => NoErrorsInRows(w, n)
      /\ call.err \/ (\E i \in 1 .. n : w[i].kind = "err" /\ call.aux[i] # "ignored") =>
            Len(w) = n + 1 /\ w[n + 1].kind # "stmt"
  BY DEF Replied
<1>4. w # <<>> /\ Chain(Tail(w), n - 1) /\ Len(w) > n
  BY <1>2, <1>3, TailChain DEF Chain
<1>5. /\ Len(w) \in Nat \ {0} /\ Len(Tail(w)) = Len(w) - 1 /\ Head(w) = w[1]
      /\ \A i \in 1 .. Len(w) - 1 : Tail(w)[i] = w[i + 1]
  BY <1>4, TailFacts
<1>6. Head(w).cmd = call.cmd /\ Tagged(Tail(w), call.cmd) /\ (reads => NoErrorsInRows(Tail(w), n - 1))
  BY <1>2, <1>3, <1>4, TailTagged
<1>7. Head(w).kind \in Errors => Head(w).kind = "err" /\ Head(call.aux) # "prestmt"
  <2>1. 1 \in 1 .. n
    BY <1>2
  <2>2. w[1].kind \in {"ok", "err"} /\ (w[1].kind = "err" => call.aux[1] # "prestmt")
    BY <1>3, <2>1
  <2>3. QED
    BY <1>2, <1>5, <2>2 DEF Errors
<1> HIDE DEF n
<1>8. \A i \in 1 .. n - 1 : /\ Tail(w)[i].kind \in {"ok", "err"}
                            /\ Tail(w)[i].kind = "err" => call2.aux[i] # "prestmt"
  <2> SUFFICES ASSUME NEW i \in 1 .. n - 1
               PROVE  /\ Tail(w)[i].kind \in {"ok", "err"}
                      /\ Tail(w)[i].kind = "err" => call2.aux[i] # "prestmt"
    OBVIOUS
  <2>1. i + 1 \in 1 .. n /\ Tail(w)[i] = w[i + 1] /\ call2.aux[i] = call.aux[i + 1]
    BY <1>2, <1>4, <1>5
  <2>2. QED
    BY <1>3, <2>1
<1>9. Tail(w)[n].kind = w[n + 1].kind
  BY <1>2, <1>4, <1>5
<1>10. ASSUME call2.err \/ \E i \in 1 .. n - 1 : Tail(w)[i].kind = "err" /\ call2.aux[i] # "ignored"
       PROVE  Len(Tail(w)) = n /\ Tail(w)[n].kind # "stmt"
  <2>1. call.err \/ \E i \in 1 .. n : w[i].kind = "err" /\ call.aux[i] # "ignored"
    <3>1. CASE call2.err
      <4>1. call.err \/ (Head(w).kind \in Errors /\ Head(call.aux) # "ignored")
        BY <3>1
      <4>2. CASE call.err
        BY <4>2
      <4>3. CASE Head(w).kind \in Errors /\ Head(call.aux) # "ignored"
        <5>1. w[1].kind = "err" /\ call.aux[1] # "ignored"
          BY <1>2, <1>5, <1>7, <4>3
        <5>2. 1 \in 1 .. n
          BY <1>2
        <5>3. QED
          BY <5>1, <5>2
      <4>4. QED
        BY <4>1, <4>2, <4>3
    <3>2. CASE \E i \in 1 .. n - 1 : Tail(w)[i].kind = "err" /\ call2.aux[i] # "ignored"
      <4>1. PICK i \in 1 .. n - 1 : Tail(w)[i].kind = "err" /\ call2.aux[i] # "ignored"
        BY <3>2
      <4>2. i + 1 \in 1 .. n /\ w[i + 1].kind = "err" /\ call.aux[i + 1] # "ignored"
        BY <1>2, <1>4, <1>5, <4>1
      <4>3. QED
        BY <4>2
    <3>3. QED
      BY <1>10, <3>1, <3>2
  <2>2. Len(w) = n + 1 /\ w[n + 1].kind # "stmt"
    BY <1>3, <2>1
  <2>3. QED
    BY <1>2, <1>5, <1>9, <2>2
<1>11. Replied(call2, reads, Tail(w))
  <2>1. Len(call2.aux) = n - 1 /\ (n - 1) + 1 = n
    BY <1>2
  <2>2. Tagged(Tail(w), call2.cmd)
    BY <1>6
  <2>3. QED
    BY <1>3, <1>4, <1>6, <1>8, <1>9, <1>10, <2>1, <2>2 DEF Replied
<1>12. QED
  BY <1>4, <1>6, <1>7, <1>11

\* The server answers the commands of a round-trip. See Send.
RepliesTo(call, res, bad) ==
    IF call.kind = "prepare"
    THEN {<<"err">>} \cup (IF bad = {} THEN {<<"stmt">>} ELSE {})
    ELSE IF call.kind = "exec" /\ res.wrong THEN {<<"err">>}
    ELSE IF bad \ {"ignored"} # {} THEN RepliesAfterErr
    ELSE (IF res.reads THEN RepliesToReads ELSE Replies)
         \cap (IF call.kind = "exec" THEN RepliesToExec ELSE Replies)

AuxReplies(call, bad) ==
    [i \in 1 .. Len(call.aux) |-> [cmd |-> call.cmd, kind |-> IF call.aux[i] \in bad THEN "err" ELSE "ok"]]
MainReply(call, reply) == [i \in 1 .. Len(reply) |-> [cmd |-> call.cmd, kind |-> reply[i]]]

Sent(call, reads, reply, w) ==
    /\ w \in Seq(Packets) /\ w # <<>> /\ Replied(call, reads, w)
    /\ reply # <<>> /\ w[Len(call.aux) + 1].kind = reply[1] /\ Len(w) = Len(call.aux) + Len(reply)
    /\ \A i \in Len(call.aux) + 1 .. Len(w) :
          i - Len(call.aux) \in 1 .. Len(reply) /\ w[i].kind = reply[i - Len(call.aux)]

LEMMA SentReplied ==
    ASSUME CopedWith, NEW call \in Calls, ~call.err, NEW res \in Resultsets, NEW bad \in SUBSET AuxMayFail,
           NEW reply \in RepliesTo(call, res, bad), NEW w, w = AuxReplies(call, bad) \o MainReply(call, reply)
    PROVE  Sent(call, res.reads, reply, w)
<1> DEFINE n == Len(call.aux)
           m == Len(reply)
           reads == res.reads
<1>1. n \in Nat
  BY DEF Calls
<1>2. /\ reply \in Seq(Kinds) /\ reply # <<>>
      /\ reply[1] \in Follows("okM") \cup {"errR", "stmt"}
      /\ reply[m] \in Final /\ \A i \in 1 .. m - 1 : reply[i + 1] \in Follows(reply[i])
      /\ reads => \A i, j \in 1 .. m : i < j /\ reply[i] = "cols" => reply[j] \notin Errors
      /\ bad \ {"ignored"} # {} => m = 1 /\ reply[1] # "stmt"
  <2>1. ASSUME NEW x \in {"err", "stmt"}, reply = <<x>>
        PROVE  /\ reply \in Seq(Kinds) /\ reply # <<>> /\ m = 1 /\ reply[1] = x
               /\ reply[1] \in Follows("okM") \cup {"errR", "stmt"}
               /\ reply[m] \in Final
    BY <2>1, FollowsFacts DEF Kinds
  <2>2. CASE call.kind = "prepare" \/ (call.kind = "exec" /\ res.wrong)
    <3>1. reply = <<"err">> \/ (reply = <<"stmt">> /\ bad = {})
      BY <2>2 DEF RepliesTo
    <3>2. CASE reply = <<"err">>
      BY <2>1, <3>2
    <3>3. CASE reply = <<"stmt">> /\ bad = {}
      BY <2>1, <3>3
    <3>4. QED
      BY <3>1, <3>2, <3>3
  <2>3. CASE ~(call.kind = "prepare" \/ (call.kind = "exec" /\ res.wrong))
    <3>1. reply \in Replies
      BY <2>3, ConstantsAssumption DEF RepliesTo
    <3>2. reply \in Seq(Kinds) /\ reply # <<>> /\ WellFormed(reply)
      BY <3>1, ConstantsAssumption DEF CopedWith
    <3>3. bad \ {"ignored"} # {} => m = 1 /\ reply \in RepliesAfterErr
      BY <2>3 DEF CopedWith, RepliesTo
    <3>4. bad \ {"ignored"} = {} /\ reads => reply \in RepliesToReads
      BY <2>3 DEF RepliesTo
    <3>5. reads => \A i, j \in 1 .. m : i < j /\ reply[i] = "cols" => reply[j] \notin Errors
      BY <3>3, <3>4 DEF CopedWith
    <3>6. reply[1] # "stmt"
      BY <3>2, FollowsFacts DEF WellFormed
    <3>7. QED
      BY <3>2, <3>3, <3>5, <3>6 DEF WellFormed
  <2>4. QED
    BY <2>2, <2>3
<1>3. m \in Nat \ {0}
  BY <1>2
<1> DEFINE A == AuxReplies(call, bad)
           M == MainReply(call, reply)
<1>4. A \in Seq(Packets) /\ Len(A) = n
  <2>1. A \in [1 .. n -> Packets]
    BY DEF Packets, Kinds, Calls, AuxReplies
  <2> HIDE DEF A, n
  <2>2. QED
    BY <1>1, <2>1
<1>5. M \in Seq(Packets) /\ Len(M) = m
  <2>1. M \in [1 .. m -> Packets]
    BY <1>2, <1>3 DEF Packets, Calls, MainReply
  <2> HIDE DEF M, m
  <2>2. QED
    BY <1>3, <2>1
<1>6. \A i \in 1 .. n : /\ A[i].cmd = call.cmd /\ A[i].kind \in {"ok", "err"}
                        /\ A[i].kind = "err" => call.aux[i] \in bad
  BY DEF AuxReplies
<1>7. \A i \in 1 .. m : M[i].cmd = call.cmd /\ M[i].kind = reply[i]
  BY DEF MainReply
<1>8. w = A \o M
  OBVIOUS
<1> HIDE DEF A, M
<1>9. /\ w \in Seq(Packets) /\ Len(w) = n + m
      /\ \A i \in 1 .. n : w[i] = A[i]
      /\ \A i \in n + 1 .. n + m : w[i] = M[i - n]
  <2> HIDE DEF n, m
  <2>1. /\ A \o M \in Seq(Packets) /\ Len(A \o M) = Len(A) + Len(M)
        /\ \A i \in 1 .. Len(A) + Len(M) : (A \o M)[i] = IF i <= Len(A) THEN A[i] ELSE M[i - Len(A)]
    BY <1>4, <1>5, ConcatProperties
  <2>2. /\ w \in Seq(Packets) /\ Len(w) = n + m
        /\ \A i \in 1 .. n + m : w[i] = IF i <= n THEN A[i] ELSE M[i - n]
    BY <1>4, <1>5, <1>8, <2>1
  <2>3. (1 .. n) \subseteq 1 .. n + m /\ (n + 1 .. n + m) \subseteq 1 .. n + m
    BY <1>1, <1>3
  <2>4. \A i \in 1 .. n : w[i] = A[i]
    BY <1>1, <2>2, <2>3
  <2>5. \A i \in n + 1 .. n + m : w[i] = M[i - n]
    BY <1>1, <1>3, <2>2, <2>3
  <2>6. QED
    BY <2>2, <2>4, <2>5
<1> HIDE DEF n, m
<1>10. \A i \in n + 1 .. n + m : i - n \in 1 .. m /\ w[i].cmd = call.cmd /\ w[i].kind = reply[i - n]
  <2> SUFFICES ASSUME NEW i \in n + 1 .. n + m
               PROVE  i - n \in 1 .. m /\ w[i].cmd = call.cmd /\ w[i].kind = reply[i - n]
    OBVIOUS
  <2>1. i - n \in 1 .. m
    BY <1>1, <1>3
  <2>2. QED
    BY <1>7, <1>9, <2>1
<1>11. w[n + 1].kind = reply[1] /\ w[n + m].kind = reply[m]
  <2>1. n + 1 \in n + 1 .. n + m /\ n + m \in n + 1 .. n + m /\ (n + 1) - n = 1 /\ (n + m) - n = m
    BY <1>1, <1>3
  <2>2. QED
    BY <1>10, <2>1
<1>12. Chain(w, n)
  <2>1. Len(w) > n /\ w[Len(w)].kind \in Final
    BY <1>1, <1>2, <1>3, <1>9, <1>11
  <2>2. ASSUME NEW i \in n + 1 .. Len(w) - 1
        PROVE  w[i + 1].kind \in Follows(w[i].kind)
    <3>0. i \in n + 1 .. n + m /\ i + 1 \in n + 1 .. n + m
      BY <1>1, <1>3, <1>9, <2>2
    <3>1. w[i].kind = reply[i - n] /\ w[i + 1].kind = reply[(i + 1) - n]
      BY <1>10, <3>0
    <3>2. i - n \in 1 .. m - 1 /\ (i + 1) - n = (i - n) + 1
      BY <1>1, <1>3, <1>9
    <3>3. QED
      BY <1>2, <3>1, <3>2
  <2>3. QED
    BY <2>1, <2>2 DEF Chain
<1>13. Tagged(w, call.cmd)
  <2> SUFFICES ASSUME NEW i \in 1 .. Len(w)
               PROVE  w[i].cmd = call.cmd
    BY DEF Tagged
  <2>1. i \in 1 .. n \/ i \in n + 1 .. n + m
    BY <1>1, <1>3, <1>9
  <2>2. QED
    BY <1>6, <1>9, <1>10, <2>1
<1>14. reads => NoErrorsInRows(w, n)
  <2> SUFFICES ASSUME reads, NEW i \in n + 1 .. n + m, NEW j \in n + 1 .. n + m, i < j, w[i].kind = "cols"
               PROVE  w[j].kind \notin Errors
    BY <1>9 DEF NoErrorsInRows
  <2>1. i - n < j - n
    BY <1>1, <1>3
  <2>2. i - n \in 1 .. m /\ j - n \in 1 .. m /\ reply[i - n] = "cols" /\ w[j].kind = reply[j - n]
    BY <1>10
  <2>3. reply[j - n] \notin Errors
    BY <1>2, <2>1, <2>2
  <2>4. QED
    BY <2>2, <2>3
<1>15. (\E i \in 1 .. n : w[i].kind = "err" /\ call.aux[i] # "ignored") => Len(w) = n + 1 /\ w[n + 1].kind # "stmt"
  <2> SUFFICES ASSUME NEW i \in 1 .. n, w[i].kind = "err", call.aux[i] # "ignored"
               PROVE  Len(w) = n + 1 /\ w[n + 1].kind # "stmt"
    OBVIOUS
  <2>1. call.aux[i] \in bad \ {"ignored"}
    BY <1>6, <1>9
  <2>2. QED
    BY <1>2, <1>9, <1>11, <2>1
<1>16. \A i \in 1 .. n : w[i].kind \in {"ok", "err"} /\ (w[i].kind = "err" => call.aux[i] # "prestmt")
  BY <1>6, <1>9 DEF CopedWith
<1>17. Replied(call, reads, w)
  BY <1>2, <1>12, <1>13, <1>14, <1>11, <1>15, <1>16 DEF Replied, n
<1>18. w # <<>>
  BY <1>1, <1>3, <1>9
<1>19. QED
  BY <1>2, <1>9, <1>10, <1>11, <1>17, <1>18 DEF n, m, Sent

-----------------------------------------------------------------------------
(* The word passes.                                                        *)

\* A task whose call is in progress has the word.
LEMMA TaskHolds ==
    ASSUME MutexInv, conn # "closed", NEW t \in Tasks, op[t].pc # "idle"
    PROVE  TaskTurn(t)
<1>1. Turn
  BY DEF MutexInv
<1>2. ~AllIdle(op)
  BY DEF AllIdle
<1>3. PICK u \in Tasks : TaskTurn(u)
  BY <1>1, <1>2, Zenon DEF Turn, ReaderTurn, ReadyTurn, ToldTurn, EndReadsTurn, EndTurn, OverTurn
<1>4. u = t
  BY <1>3 DEF TaskTurn, Alone
<1>5. QED
  BY <1>3, <1>4

\* So does end(), when it is not over and does not wait.
LEMMA EnderHolds ==
    ASSUME MutexInv, conn # "closed", op[Ender].pc \notin {"idle", "wait"}
    PROVE  IF op[Ender].kind = "reader" THEN EndReadsTurn ELSE EndTurn
<1>1. Turn
  BY DEF MutexInv
<1>2. \A t \in Tasks : ~TaskTurn(t)
  BY DEF TaskTurn, Engaged
<1>3. ~ReaderTurn /\ ~ReadyTurn /\ ~ToldTurn /\ ~OverTurn
  BY DEF ReaderTurn, Engaged, ReadyTurn, ToldTurn, OverTurn
<1>4. EndReadsTurn \/ EndTurn
  BY <1>1, <1>2, <1>3 DEF Turn
<1>5. EndReadsTurn => op[Ender].kind = "reader"
  BY DEF EndReadsTurn, HoldsReader
<1>6. EndTurn => op[Ender].kind = "end"
  BY DEF EndTurn, HoldsEnd
<1>7. QED
  BY <1>4, <1>5, <1>6

LEMMA EnderIsNoTask == Ender \notin Tasks /\ Ender \in Actors /\ Tasks \subseteq Actors
BY ConstantsAssumption DEF Actors

\* A call of a task is over, and tells in what state the connection is.
LEMMA Returns ==
    ASSUME NEW t \in Tasks, op \in [Actors -> Calls], Alone(op, t),
           Engaged(state, onEndSession, op[Ender], ended),
           op' = [op EXCEPT ![t] = NoCall], NEW s, SetState(s), Settled(s, cur', rs', wire', conn'),
           lastReader' = None, UNCHANGED ended
    PROVE  Turn'
<1>1. op'[Ender] = op[Ender]
  BY EnderIsNoTask
<1>2. AllIdle(op')
  <2>1. \A u \in Tasks : op'[u] = IF u = t THEN NoCall ELSE op[u]
    BY EnderIsNoTask
  <2>2. QED
    BY <2>1 DEF AllIdle, Alone, NoCall
<1>3. CASE onEndSession = "no"
  <2>1. state' = s /\ onEndSession' = "no" /\ op[Ender].pc = "idle" /\ ended' = "no"
    BY <1>3 DEF SetState, ends, Engaged
  <2>2. ReadyTurn'
    BY <1>1, <1>2, <2>1 DEF ReadyTurn
  <2>3. QED
    BY <2>2 DEF Turn
<1>4. CASE onEndSession # "no"
  <2>1. /\ onEndSession' = "resolved" /\ endState' = s /\ state' = state
        /\ op[Ender].pc = "wait" /\ ended' = "no" /\ state \in {"QUERYING", "TERMINATED"}
    BY <1>4 DEF SetState, Engaged
  <2>2. ToldTurn'
    BY <1>1, <1>2, <2>1 DEF ToldTurn
  <2>3. QED
    BY <2>2 DEF Turn
<1>5. QED
  BY <1>3, <1>4

\* A call of a task goes on.
LEMMA Continues ==
    ASSUME NEW t \in Tasks, op \in [Actors -> Calls], Alone(op, t),
           Engaged(state', onEndSession, op[Ender], ended), UNCHANGED <<ends, ended>>,
           NEW call, op' = [op EXCEPT ![t] = call],
           \/ HoldsCommand(call, rs', wire', conn', lastReader')
           \/ HoldsResults(call, cur', rs', wire', conn', lastReader')
           \/ HoldsReader(call, cur', rs', wire', conn', lastReader', isReading', colLeft')
    PROVE  Turn'
<1>1. op'[Ender] = op[Ender] /\ op'[t] = call
  BY EnderIsNoTask
<1>2. Alone(op', t)
  BY EnderIsNoTask DEF Alone
<1>3. TaskTurn(t)'
  BY <1>1, <1>2 DEF TaskTurn, ends
<1>4. QED
  BY <1>3 DEF Turn

\* What calls there are, when one continues.
LEMMA CallsStep ==
    ASSUME CallsOk, op \in [Actors -> Calls], NEW a \in Actors, NEW call, op' = [op EXCEPT ![a] = call],
           IF a = Ender
           THEN /\ call.kind \in {"none", "end", "reader"}
                /\ call.pc \in {"idle", "wait", "chunk", "discard", "finish", "reset", "initsql"}
                /\ call.pc = "chunk" => call.kind = "reader"
                /\ call.kind = "none" => call.pc = "idle"
           ELSE /\ call.kind # "end"
                /\ call.pc \in {"idle", "send", "aux", "response", "discard", "row", "chunk"}
    PROVE  CallsOk'
<1>1. \A b \in Actors : op'[b] = IF b = a THEN call ELSE op[b]
  OBVIOUS
<1>2. QED
  BY <1>1, EnderIsNoTask DEF CallsOk

\* #setState() keeps the types.
LEMMA SetStateType ==
    ASSUME state \in ProtocolState, endState \in ProtocolState, onEndSession \in {"no", "armed", "resolved"},
           NEW s \in ProtocolState, SetState(s)
    PROVE  state' \in ProtocolState /\ endState' \in ProtocolState /\ onEndSession' \in {"no", "armed", "resolved"}
BY DEF SetState, ends

LEMMA CallTypes ==
    /\ NoCall \in Calls /\ NoCall.pc = "idle" /\ NoCall.kind = "none"
    /\ \A b \in BOOLEAN : LET call == [NoCall EXCEPT !.pc = "wait", !.kind = "end", !.void = b] IN
          call \in Calls /\ call.pc = "wait" /\ call.kind = "end"
<1>1. NoCall \in Calls
  <2>1. <<>> \in Seq(AuxKinds) /\ 0 \in 0 .. MaxRetries
    BY ConstantsAssumption
  <2>2. QED
    BY <2>1 DEF NoCall, Calls, ProtocolState
<1>2. QED
  BY <1>1 DEF Calls, NoCall

\* A call throws a fatal error, and the socket is closed.
LEMMA FatalThrown ==
    ASSUME MutexInv, NEW a \in Actors, op[a].pc \notin {"idle", "wait"},
           a = Ender => op[a].kind = "reader",
           ThrowFatal(a), UNCHANGED ended
    PROVE  /\ Closed' /\ CallsOk' /\ conn' = "closed" /\ wire' = <<>>
           /\ op' \in [Actors -> Calls] /\ rs' = rs
           /\ state' \in ProtocolState /\ endState' \in ProtocolState /\ onEndSession' \in {"no", "armed", "resolved"}
<1>1. /\ conn' = "closed" /\ wire' = <<>> /\ rs' = rs /\ SetState("ERROR") /\ Return(a)
  BY DEF ThrowFatal, CloseConn
<1>2. /\ op \in [Actors -> Calls] /\ CallsOk
      /\ state \in ProtocolState /\ endState \in ProtocolState /\ onEndSession \in {"no", "armed", "resolved"}
  BY DEF MutexInv, ShapesOK
<1>3. /\ state' \in ProtocolState /\ endState' \in ProtocolState /\ onEndSession' \in {"no", "armed", "resolved"}
      /\ state' = "ERROR" \/ (onEndSession # "no" /\ state' = state)
  BY <1>1, <1>2, SetStateType DEF ProtocolState, SetState
<1>4. PICK call \in Calls : /\ op' = [op EXCEPT ![a] = call]
                            /\ a # Ender => call.pc = "idle" /\ call.kind = "none"
                            /\ a = Ender => call.pc = "wait" /\ call.kind = "end"
  <2>1. op[a].void \in BOOLEAN
    BY <1>2 DEF Calls
  <2>2. CASE a = Ender
    BY <1>1, <2>1, <2>2, CallTypes DEF Return
  <2>3. CASE a # Ender
    BY <1>1, <2>3, CallTypes DEF Return
  <2>4. QED
    BY <2>2, <2>3
<1>5. CallsOk'
  BY <1>2, <1>4, CallsStep
<1>6. op' \in [Actors -> Calls]
  BY <1>2, <1>4
<1>7. \A b \in Actors : op'[b] = IF b = a THEN call ELSE op[b]
  BY <1>2, <1>4
<1>8. Closed'
  <2>1. CASE conn = "closed"
    <3>1. Closed
      BY <2>1 DEF MutexInv
    <3>2. ended = "closed" => a # Ender
      BY <3>1 DEF Closed
    <3>3. state' \notin More /\ (ended = "no" => state' \in {"ERROR", "QUERYING", "TERMINATED"})
      BY <1>3, <3>1 DEF Closed, More
    <3>4. ended = "closed" => op'[Ender].pc = "idle"
      BY <1>7, <3>1, <3>2, EnderIsNoTask DEF Closed
    <3>5. ended = "no" => \A t \in Tasks : op'[t].pc # "idle" => op'[t].kind \in {"fetch", "reader"}
      BY <1>4, <1>7, <3>1, EnderIsNoTask DEF Closed
    <3>6. QED
      BY <3>1, <3>3, <3>4, <3>5 DEF Closed
  <2>2. CASE conn # "closed"
    <3>1. ended = "no" /\ AllIdle(op') /\ (onEndSession = "no" \/ state \in {"QUERYING", "TERMINATED"})
      <4>1. CASE a = Ender
        <5>1. EndReadsTurn
          BY <2>2, <4>1, EnderHolds
        <5>2. QED
          BY <1>7, <4>1, <5>1, EnderIsNoTask DEF EndReadsTurn, AllIdle
      <4>2. CASE a # Ender
        <5>1. a \in Tasks
          BY <4>2 DEF Actors
        <5>2. TaskTurn(a)
          BY <2>2, <5>1, TaskHolds
        <5>3. AllIdle(op')
          BY <1>4, <1>7, <4>2, <5>2, EnderIsNoTask DEF TaskTurn, Alone, AllIdle
        <5>4. QED
          BY <5>2, <5>3 DEF TaskTurn, Engaged
      <4>3. QED
        BY <4>1, <4>2
    <3>2. state' \in {"ERROR", "QUERYING", "TERMINATED"}
      BY <1>3, <3>1
    <3>3. QED
      BY <3>1, <3>2 DEF Closed, AllIdle, More
  <2>3. QED
    BY <2>1, <2>2
<1>9. QED
  BY <1>1, <1>3, <1>5, <1>6, <1>8

\* After SqlError nobody has rows to ask for.
LEMMA SqlErrorFails ==
    ASSUME rs \in [Cmds -> Resultsets], NEW a, ThrowSqlError(a)
    PROVE  /\ rs' \in [Cmds -> Resultsets]
           /\ Loose(rs) \subseteq {cur} => Loose(rs') = {}
           /\ \A r \in Cmds : rs'[r].cmd = rs[r].cmd /\ rs'[r].reads = rs[r].reads /\ rs'[r].stmt = rs[r].stmt
           /\ SamePrepared(rs')
<1>1. rs' = [r \in Cmds |-> [rs[r] EXCEPT !.failed = @ \/ (r = cur /\ rs[r].more)]]
  BY DEF ThrowSqlError
<1>2. \A r \in Cmds : rs[r] \in Resultsets /\ (rs[r].failed \/ (r = cur /\ rs[r].more)) \in BOOLEAN
  BY DEF Resultsets
<1> DEFINE F(r) == rs[r].failed \/ (r = cur /\ rs[r].more)
           New(r, e) == [rs[r] EXCEPT !.failed = e]
<1>3. \A r \in Cmds : rs'[r] = New(r, F(r))
  BY <1>1
<1>4. \A r \in Cmds : \A e \in BOOLEAN :
         /\ New(r, e) \in Resultsets /\ New(r, e).failed = e
         /\ New(r, e).cmd = rs[r].cmd /\ New(r, e).reads = rs[r].reads /\ New(r, e).stmt = rs[r].stmt
         /\ New(r, e).more = rs[r].more /\ New(r, e).prep = rs[r].prep /\ New(r, e).wrong = rs[r].wrong
  BY <1>2 DEF Resultsets
<1> HIDE DEF New
<1>4a. \A r \in Cmds : F(r) \in BOOLEAN
  BY <1>2
<1>5. \A r \in Cmds : /\ rs'[r] \in Resultsets
                      /\ rs'[r].cmd = rs[r].cmd /\ rs'[r].reads = rs[r].reads /\ rs'[r].stmt = rs[r].stmt
                      /\ rs'[r].more = rs[r].more /\ rs'[r].prep = rs[r].prep /\ rs'[r].wrong = rs[r].wrong
                      /\ rs'[r].failed = F(r)
  <2> HIDE DEF F
  <2>1. QED
    BY <1>3, <1>4, <1>4a
<1>6. Loose(rs) \subseteq {cur} => Loose(rs') = {}
  BY <1>5 DEF Loose
<1>7. rs' \in [Cmds -> Resultsets]
  BY <1>1, <1>5
<1>8. QED
  BY <1>5, <1>6, <1>7 DEF SamePrepared

\* A call throws SqlError.
LEMMA SqlErrorThrown ==
    ASSUME MutexInv, NEW t \in Tasks, op[t].pc # "idle", conn # "closed", ThrowSqlError(t),
           Loose(rs) \subseteq {cur}, lastReader' = None, UNCHANGED ended,
           conn' = "open" => wire' = <<>>
    PROVE  /\ Turn' /\ CallsOk' /\ op' \in [Actors -> Calls] /\ rs' \in [Cmds -> Resultsets]
           /\ state' \in ProtocolState /\ endState' \in ProtocolState /\ onEndSession' \in {"no", "armed", "resolved"}
<1>1. SetState("IDLE") /\ Return(t)
  BY DEF ThrowSqlError
<1>2. /\ op \in [Actors -> Calls] /\ CallsOk /\ rs \in [Cmds -> Resultsets]
      /\ state \in ProtocolState /\ endState \in ProtocolState /\ onEndSession \in {"no", "armed", "resolved"}
  BY DEF MutexInv, ShapesOK
<1>3. op' = [op EXCEPT ![t] = NoCall]
  BY <1>1, EnderIsNoTask DEF Return
<1>4. rs' \in [Cmds -> Resultsets] /\ Loose(rs') = {}
  BY <1>2, SqlErrorFails
<1>5. Settled("IDLE", cur', rs', wire', conn')
  BY <1>4 DEF Settled, Unread, Resting, More
<1>6. TaskTurn(t)
  BY TaskHolds
<1>7. Turn'
  BY <1>1, <1>2, <1>3, <1>5, <1>6, Returns DEF TaskTurn
<1>8. CallsOk'
  BY <1>2, <1>3, CallsStep, CallTypes, EnderIsNoTask
<1>9. op' \in [Actors -> Calls]
  BY <1>2, <1>3, CallTypes
<1>10. QED
  BY <1>1, <1>2, <1>4, <1>7, <1>8, <1>9, SetStateType DEF ProtocolState

-----------------------------------------------------------------------------
(* Commands.                                                               *)

\* In a usable state nobody has the word.
LEMMA ReadyHolds ==
    ASSUME MutexInv, conn # "closed", state \in Resting \cup More
    PROVE  ReadyTurn
<1>1. Turn
  BY DEF MutexInv
<1>2. state \notin {"QUERYING", "TERMINATED"}
  BY DEF Resting, More
<1>3. (\A t \in Tasks : ~TaskTurn(t)) /\ ~ReaderTurn
  BY <1>2 DEF TaskTurn, ReaderTurn, Engaged
<1>4. ~ToldTurn /\ ~EndReadsTurn /\ ~EndTurn /\ ~OverTurn
  BY <1>2 DEF ToldTurn, EndReadsTurn, EndTurn, OverTurn
<1>5. QED
  BY <1>1, <1>3, <1>4 DEF Turn

LEMMA BeginInv ==
    ASSUME MutexInv, NEW t \in Tasks, NEW call \in Calls, Begin(t, call),
           call.kind \in Commands, ~call.err, call.r \in Cmds, call.void => call.kind \in {"query", "three"},
           rs' \in [Cmds -> Resultsets], Loose(rs') \subseteq Loose(rs), rs'[call.r].cmd = ncmd + 1
    PROVE  MutexInv'
<1> DEFINE new == [call EXCEPT !.pc = "send", !.cmd = ncmd + 1]
<1>1. /\ op[t].pc = "idle" /\ state \in Resting /\ state' = "QUERYING" /\ ncmd < MaxCmds /\ ncmd' = ncmd + 1
      /\ pendingCloseStmts' = {} /\ srvStmts' = srvStmts \ pendingCloseStmts
      /\ op' = [op EXCEPT ![t] = new]
      /\ UNCHANGED <<ends, cur, reader, ended, conn, wire>>
  BY DEF Begin, SetQueryingState, DoPending, Step, Resting
<1>2. ShapesOK /\ CallsOk /\ (conn # "open" => wire = <<>>)
  BY DEF MutexInv
<1>3. op \in [Actors -> Calls] /\ ncmd \in 0 .. MaxCmds /\ MaxCmds \in Nat
  BY <1>2, ConstantsAssumption DEF ShapesOK
<1>4. ncmd + 1 \in Cmds
  BY <1>1, <1>3 DEF Cmds
<1>5. /\ new \in Calls /\ new.pc = "send" /\ new.cmd = ncmd + 1 /\ new.kind = call.kind /\ new.r = call.r
      /\ new.err = call.err /\ new.void = call.void
  BY <1>4 DEF Calls
<1> HIDE DEF new
<1>6. CallsOk'
  BY <1>1, <1>2, <1>3, <1>5, CallsStep, EnderIsNoTask DEF Commands
<1>7. op' \in [Actors -> Calls]
  BY <1>1, <1>3, <1>5
<1>8. ShapesOK'
  BY <1>1, <1>2, <1>3, <1>4, <1>7 DEF ShapesOK, ends, reader, ProtocolState, Cmds
<1>9. CASE conn = "closed"
  <2>1. Closed
    BY <1>9 DEF MutexInv
  <2>2. ended # "no"
    BY <1>1, <2>1 DEF Closed, Resting
  <2>3. op'[Ender] = op[Ender]
    BY <1>1, <1>3, EnderIsNoTask
  <2>4. Closed'
    BY <1>1, <2>1, <2>2, <2>3 DEF Closed, More
  <2>5. QED
    BY <1>1, <1>2, <1>6, <1>8, <1>9, <2>4 DEF MutexInv
<1>10. CASE conn # "closed"
  <2>1. ReadyTurn
    BY <1>1, <1>10, ReadyHolds
  <2>2. Alone(op, t) /\ Engaged(state', onEndSession, op[Ender], ended) /\ lastReader = None
    BY <1>1, <2>1 DEF ReadyTurn, AllIdle, Alone, Engaged
  <2>3. Loose(rs) = {} /\ (conn = "open" => wire = <<>>)
    BY <1>1, <2>1 DEF ReadyTurn, Settled, Unread
  <2>4. HoldsCommand(new, rs', wire', conn', lastReader')
    BY <1>1, <1>5, <2>2, <2>3 DEF HoldsCommand, reader
  <2>5. Turn'
    BY <1>1, <1>3, <2>2, <2>4, Continues
  <2>6. QED
    BY <1>1, <1>2, <1>6, <1>8, <1>10, <2>5 DEF MutexInv
<1>11. QED
  BY <1>9, <1>10

LEMMA NewResultsetsInv ==
    ASSUME MutexInv, NEW t \in Tasks, NEW kind \in {"query", "three", "prepare"}, NEW aux \in AuxLists,
           NEW void \in BOOLEAN, NEW reads \in BOOLEAN, void => kind # "prepare",
           NewResultsets(t, kind, aux, void, reads)
    PROVE  MutexInv'
<1> DEFINE call == [NoCall EXCEPT !.kind = kind, !.r = ncmd + 1, !.aux = aux, !.void = void,
                                  !.retries = IF kind = "prepare" THEN 0 ELSE MaxRetries]
           res == [NoResultsets EXCEPT !.cmd = ncmd + 1, !.reads = reads, !.prep = kind = "prepare"]
<1>1. Begin(t, call) /\ rs' = [rs EXCEPT ![ncmd + 1] = res]
  BY DEF NewResultsets
<1>2. ncmd + 1 \in Cmds
  BY <1>1, ConstantsAssumption DEF MutexInv, ShapesOK, Begin, Cmds
<1>3. aux \in Seq(AuxKinds) /\ (IF kind = "prepare" THEN 0 ELSE MaxRetries) \in 0 .. MaxRetries
  BY ConstantsAssumption
<1>4. /\ call \in Calls /\ call.kind = kind /\ call.err = FALSE /\ call.r = ncmd + 1 /\ call.void = void
  <2>1. \A e \in 0 .. MaxRetries :
          LET c == [NoCall EXCEPT !.kind = kind, !.r = ncmd + 1, !.aux = aux, !.void = void, !.retries = e] IN
          c \in Calls /\ c.kind = kind /\ c.err = FALSE /\ c.r = ncmd + 1 /\ c.void = void
    <3>1. NoCall.err = FALSE
      BY DEF NoCall
    <3>2. QED
      BY <1>2, <1>3, <3>1, CallTypes DEF Calls
  <2>2. QED
    BY <1>3, <2>1
<1>5. res \in Resultsets /\ res.cmd = ncmd + 1 /\ res.more = FALSE
  <2>1. NoResultsets \in Resultsets /\ NoResultsets.more = FALSE
    BY DEF NoResultsets, Resultsets
  <2>2. \A e \in BOOLEAN : LET x == [NoResultsets EXCEPT !.cmd = ncmd + 1, !.reads = reads, !.prep = e] IN
           x \in Resultsets /\ x.cmd = ncmd + 1 /\ x.more = FALSE
    BY <1>2, <2>1 DEF Resultsets
  <2>3. (kind = "prepare") \in BOOLEAN
    OBVIOUS
  <2>4. QED
    BY <2>2, <2>3
<1> HIDE DEF call, res
<1>6. rs \in [Cmds -> Resultsets]
  BY DEF MutexInv, ShapesOK
<1>7. rs' \in [Cmds -> Resultsets] /\ rs'[ncmd + 1] = res
  BY <1>1, <1>2, <1>5, <1>6
<1>8. Loose(rs') \subseteq Loose(rs)
  <2>1. \A r \in Cmds \ {ncmd + 1} : rs'[r] = rs[r]
    BY <1>1, <1>6
  <2>2. QED
    BY <1>5, <1>7, <2>1 DEF Loose
<1>9. call.kind \in Commands /\ ~call.err /\ call.r \in Cmds /\ (call.void => call.kind \in {"query", "three"})
  BY <1>2, <1>4 DEF Commands
<1>10. rs'[call.r].cmd = ncmd + 1
  BY <1>4, <1>5, <1>7
<1>11. QED
  BY <1>1, <1>4, <1>7, <1>8, <1>9, <1>10, BeginInv

LEMMA ExecStmtInv ==
    ASSUME MutexInv, NEW t \in Tasks, ExecStmt(t)
    PROVE  MutexInv'
<1>1. PICK r \in Cmds : /\ Begin(t, [NoCall EXCEPT !.kind = "exec", !.r = r])
                        /\ rs' = [rs EXCEPT ![r].cmd = ncmd + 1]
  BY DEF ExecStmt
<1> DEFINE call == [NoCall EXCEPT !.kind = "exec", !.r = r]
           res == [rs[r] EXCEPT !.cmd = ncmd + 1]
<1>2. ncmd + 1 \in Cmds
  BY <1>1, ConstantsAssumption, SMTT(20) DEF MutexInv, ShapesOK, Begin, Cmds
<1>3. call \in Calls /\ call.kind = "exec" /\ call.err = FALSE /\ call.r = r /\ call.void = FALSE
  BY CallTypes, ZenonT(40) DEF Calls, NoCall
<1>4. rs \in [Cmds -> Resultsets]
  BY DEF MutexInv, ShapesOK
<1>5. res \in Resultsets /\ res.cmd = ncmd + 1 /\ res.more = rs[r].more /\ res.failed = rs[r].failed
  BY <1>2, <1>4 DEF Resultsets
<1>6. rs' = [rs EXCEPT ![r] = res] /\ Begin(t, call)
  BY <1>1, <1>4
<1> HIDE DEF call, res
<1>7. rs' \in [Cmds -> Resultsets] /\ rs'[r] = res /\ \A k \in Cmds \ {r} : rs'[k] = rs[k]
  BY <1>4, <1>5, <1>6
<1>8. Loose(rs') \subseteq Loose(rs)
  BY <1>5, <1>7 DEF Loose
<1>9. call.kind \in Commands /\ ~call.err /\ call.r \in Cmds /\ (call.void => call.kind \in {"query", "three"})
  BY <1>3 DEF Commands
<1>10. rs'[call.r].cmd = ncmd + 1
  BY <1>3, <1>5, <1>7
<1>11. QED
  BY <1>3, <1>6, <1>7, <1>8, <1>9, <1>10, BeginInv

LEMMA SendInv ==
    ASSUME MutexInv, CopedWith, NEW t \in Tasks, Send(t)
    PROVE  MutexInv'
<1> DEFINE call == op[t]
           new == [call EXCEPT !.pc = IF Len(call.aux) = 0 THEN "response" ELSE "aux"]
<1>1. /\ call.pc = "send" /\ conn = "open" /\ op' = [op EXCEPT ![t] = new]
      /\ UNCHANGED <<state, ends, cur, reader, pendingCloseStmts, rs, ended, conn, ncmd>>
  BY DEF Send, Step
<1>2. ShapesOK /\ CallsOk /\ op \in [Actors -> Calls] /\ call \in Calls /\ rs \in [Cmds -> Resultsets]
  BY EnderIsNoTask DEF MutexInv, ShapesOK
<1>3. TaskTurn(t) /\ HoldsCommand(call, rs, wire, conn, lastReader)
  <2>1. TaskTurn(t)
    BY <1>1, TaskHolds
  <2>2. QED
    BY <1>1, <2>1 DEF TaskTurn, HoldsResults, HoldsReader
<1>4. /\ call.kind \in Commands /\ lastReader = None /\ Loose(rs) = {} /\ call.r \in Cmds
      /\ rs[call.r].cmd = call.cmd /\ (call.void => call.kind \in {"query", "three"})
      /\ ~call.err /\ wire = <<>>
  BY <1>1, <1>3 DEF HoldsCommand
<1>5. PICK bad \in SUBSET ({call.aux[i] : i \in 1 .. Len(call.aux)} \cap AuxMayFail) :
         \E reply \in RepliesTo(call, rs[call.r], bad) :
            /\ wire' = wire \o AuxReplies(call, bad) \o MainReply(call, reply)
            /\ srvStmts' = srvStmts \cup (IF reply = <<"stmt">> THEN {call.r} ELSE {})
  BY DEF Send, RepliesTo, AuxReplies, MainReply
<1>6. PICK reply \in RepliesTo(call, rs[call.r], bad) :
         /\ wire' = wire \o AuxReplies(call, bad) \o MainReply(call, reply)
         /\ srvStmts' = srvStmts \cup (IF reply = <<"stmt">> THEN {call.r} ELSE {})
  BY <1>5
<1>7. rs[call.r] \in Resultsets /\ bad \in SUBSET AuxMayFail
  BY <1>2, <1>4
<1>8. wire' = AuxReplies(call, bad) \o MainReply(call, reply)
  BY <1>4, <1>6, <1>2 DEF AuxReplies, MainReply
<1>9. wire' \in Seq(Packets) /\ Replied(call, rs[call.r].reads, wire')
  <2>1. Sent(call, rs[call.r].reads, reply, wire')
    BY <1>2, <1>4, <1>6, <1>7, <1>8, SentReplied
  <2>2. QED
    BY <2>1 DEF Sent
<1>10. /\ new \in Calls /\ new.kind = call.kind /\ new.r = call.r /\ new.cmd = call.cmd /\ new.aux = call.aux
      /\ new.err = call.err /\ new.void = call.void
      /\ new.pc = IF call.aux = <<>> THEN "response" ELSE "aux"
  <2>1. call.aux \in Seq(AuxKinds)
    BY <1>2 DEF Calls
  <2>2. Len(call.aux) = 0 <=> call.aux = <<>>
    BY <2>1
  <2>3. \A pc \in {"response", "aux"} : LET c == [call EXCEPT !.pc = pc] IN
           /\ c \in Calls /\ c.kind = call.kind /\ c.r = call.r /\ c.cmd = call.cmd /\ c.aux = call.aux
           /\ c.err = call.err /\ c.void = call.void /\ c.pc = pc
    BY <1>2 DEF Calls
  <2>4. QED
    BY <2>2, <2>3
<1> HIDE DEF new
<1>11. CallsOk' /\ op' \in [Actors -> Calls]
  BY <1>1, <1>2, <1>4, <1>10, CallsStep, EnderIsNoTask DEF Commands
<1>12. ShapesOK'
  <2>1. srvStmts' \subseteq Cmds
    BY <1>2, <1>4, <1>6 DEF ShapesOK
  <2>2. QED
    BY <1>1, <1>2, <1>9, <1>11, <2>1 DEF ShapesOK, ends, reader
<1>13. Replied(new, rs[call.r].reads, wire')
  BY <1>9, <1>10 DEF Replied
<1>14. HoldsCommand(new, rs', wire', conn', lastReader')
  BY <1>1, <1>4, <1>10, <1>13 DEF HoldsCommand, reader
<1>15. Turn'
  <2>1. Alone(op, t) /\ Engaged(state', onEndSession, op[Ender], ended)
    BY <1>1, <1>3 DEF TaskTurn
  <2>2. QED
    BY <1>1, <1>2, <1>14, <2>1, Continues
<1>16. QED
  BY <1>1, <1>11, <1>12, <1>15 DEF MutexInv

LEMMA ReadAuxInv ==
    ASSUME MutexInv, NEW t \in Tasks, ReadAux(t)
    PROVE  MutexInv'
<1> DEFINE call == op[t]
           bad == NextPacket.kind \in Errors
           new == [call EXCEPT !.aux = Tail(@), !.pc = IF Tail(call.aux) = <<>> THEN "response" ELSE "aux",
                               !.err = @ \/ (bad /\ Head(call.aux) # "ignored")]
<1>1. /\ call.pc = "aux" /\ conn = "open" /\ wire # <<>> /\ wire' = Tail(wire) /\ conn' = conn
      /\ UNCHANGED <<cur, reader, stmts, ended, ncmd>>
      /\ ~(bad /\ Head(call.aux) = "prestmt") => Step(t, new) /\ UNCHANGED <<state, ends, rs>>
  BY DEF ReadAux, CanRead, Consume
<1>2. /\ ShapesOK /\ CallsOk /\ op \in [Actors -> Calls] /\ call \in Calls /\ rs \in [Cmds -> Resultsets]
      /\ wire \in Seq(Packets)
  BY EnderIsNoTask DEF MutexInv, ShapesOK
<1>3. TaskTurn(t) /\ HoldsCommand(call, rs, wire, conn, lastReader)
  <2>1. TaskTurn(t)
    BY <1>1, TaskHolds
  <2>2. QED
    BY <1>1, <2>1 DEF TaskTurn, HoldsResults, HoldsReader
<1>4. /\ call.kind \in Commands /\ lastReader = None /\ Loose(rs) = {} /\ call.r \in Cmds
      /\ rs[call.r].cmd = call.cmd /\ (call.void => call.kind \in {"query", "three"})
      /\ call.aux # <<>> /\ Replied(call, rs[call.r].reads, wire)
  BY <1>1, <1>3 DEF HoldsCommand
<1>5. /\ new \in Calls /\ new.kind = call.kind /\ new.r = call.r /\ new.cmd = call.cmd
      /\ new.aux = Tail(call.aux) /\ new.void = call.void
      /\ new.err <=> (call.err \/ (Head(wire).kind \in Errors /\ Head(call.aux) # "ignored"))
      /\ new.pc = IF new.aux = <<>> THEN "response" ELSE "aux"
  <2>1. Tail(call.aux) \in Seq(AuxKinds)
    BY <1>2, <1>4 DEF Calls
  <2> DEFINE e == call.err \/ (bad /\ Head(call.aux) # "ignored")
             pc == IF Tail(call.aux) = <<>> THEN "response" ELSE "aux"
             c == [call EXCEPT !.aux = Tail(call.aux), !.pc = pc, !.err = e]
  <2>3. e \in BOOLEAN
    <3> HIDE DEF call, bad
    <3>1. QED
      OBVIOUS
  <2>4. pc \in {"response", "aux"}
    OBVIOUS
  <2>5. new = c
    OBVIOUS
  <2>6. /\ c \in Calls /\ c.kind = call.kind /\ c.r = call.r /\ c.cmd = call.cmd
        /\ c.aux = Tail(call.aux) /\ c.void = call.void /\ c.err = e /\ c.pc = pc
    <3> HIDE DEF e, pc, call
    <3>1. /\ c.kind = call.kind /\ c.r = call.r /\ c.cmd = call.cmd
          /\ c.aux = Tail(call.aux) /\ c.void = call.void /\ c.err = e /\ c.pc = pc
      BY <1>2 DEF Calls
    <3>2. c \in Calls
      BY <1>2, <2>1, <2>3, <2>4 DEF Calls
    <3>3. QED
      BY <3>1, <3>2
  <2>7. e <=> (call.err \/ (Head(wire).kind \in Errors /\ Head(call.aux) # "ignored"))
    BY DEF NextPacket
  <2> HIDE DEF c, e, new
  <2>8. QED
    BY <2>5, <2>6, <2>7
<1> HIDE DEF new
<1>6. Replied(new, rs[call.r].reads, Tail(wire)) /\ (bad => Head(call.aux) # "prestmt")
  BY <1>2, <1>4, <1>5, RepliedAuxStep DEF NextPacket
<1>7. op' = [op EXCEPT ![t] = new] /\ UNCHANGED <<state, ends, rs>>
  BY <1>1, <1>6 DEF Step
<1>8. CallsOk' /\ op' \in [Actors -> Calls]
  BY <1>2, <1>4, <1>5, <1>7, CallsStep, EnderIsNoTask DEF Commands
<1>9. ShapesOK'
  <2>1. wire' \in Seq(Packets)
    BY <1>1, <1>2
  <2>2. QED
    BY <1>1, <1>2, <1>7, <1>8, <2>1 DEF ShapesOK, ends, reader, stmts
<1>10. HoldsCommand(new, rs', wire', conn', lastReader')
  BY <1>1, <1>4, <1>5, <1>6, <1>7 DEF HoldsCommand, reader
<1>11. Turn'
  <2>1. Alone(op, t) /\ Engaged(state', onEndSession, op[Ender], ended)
    BY <1>3, <1>7 DEF TaskTurn
  <2>2. QED
    BY <1>1, <1>2, <1>7, <1>10, <2>1, Continues
<1>12. QED
  BY <1>1, <1>8, <1>9, <1>11 DEF MutexInv

\* Where the connection is does not depend on what the program did with a Resultsets.
LEMMA SettledSame ==
    ASSUME NEW s, NEW c, NEW R, NEW R2, NEW w, NEW cn, Settled(s, c, R, w, cn),
           \A r \in Cmds : /\ R2[r].more = R[r].more /\ R2[r].failed = R[r].failed
                           /\ R2[r].reads = R[r].reads /\ R2[r].cmd = R[r].cmd
    PROVE  Settled(s, c, R2, w, cn)
<1>1. Loose(R2) = Loose(R)
  BY DEF Loose
<1>2. cn = "open" => Unread(s, R2[c].reads, R2[c].cmd, w)
  <2>1. CASE s \in More
    BY <2>1 DEF Settled
  <2>2. CASE s \in Resting
    BY <2>2 DEF Settled, Unread, More, Resting
  <2>3. QED
    BY <2>1, <2>2 DEF Settled
<1>3. QED
  BY <1>1, <1>2 DEF Settled

\* A query returns.
LEMMA QueryReturns ==
    ASSUME MutexInv, NEW t \in Tasks, op[t].pc # "idle", conn # "closed", NEW r \in Cmds,
           NEW res \in Resultsets, NEW s \in ProtocolState, QueryDone(t, r, res, s), op[t].err => s = "IDLE",
           lastReader' = None, UNCHANGED ended,
           Settled(s, cur', [rs EXCEPT ![r] = res], wire', conn')
    PROVE  /\ Turn' /\ CallsOk' /\ op' \in [Actors -> Calls] /\ rs' \in [Cmds -> Resultsets]
           /\ state' \in ProtocolState /\ endState' \in ProtocolState /\ onEndSession' \in {"no", "armed", "resolved"}
<1> DEFINE e == res.given \/ ~op[t].err
           res2 == [res EXCEPT !.given = e]
<1>1. /\ SetState(IF op[t].err /\ (op[t].kind = "three" \/ onEndSession = "no") THEN "IDLE" ELSE s)
      /\ rs' = [rs EXCEPT ![r] = res2] /\ Return(t)
  BY DEF QueryDone
<1>2. SetState(s)
  <2>1. (IF op[t].err /\ (op[t].kind = "three" \/ onEndSession = "no") THEN "IDLE" ELSE s) = s
    OBVIOUS
  <2>2. QED
    BY <1>1, <2>1
<1>3. /\ op \in [Actors -> Calls] /\ CallsOk /\ rs \in [Cmds -> Resultsets]
      /\ state \in ProtocolState /\ endState \in ProtocolState /\ onEndSession \in {"no", "armed", "resolved"}
  BY DEF MutexInv, ShapesOK
<1>4. op' = [op EXCEPT ![t] = NoCall]
  BY <1>1, EnderIsNoTask DEF Return
<1>5. /\ res2 \in Resultsets /\ res2.more = res.more /\ res2.failed = res.failed
      /\ res2.reads = res.reads /\ res2.cmd = res.cmd
  <2>1. \A b \in BOOLEAN : LET x == [res EXCEPT !.given = b] IN
           /\ x \in Resultsets /\ x.more = res.more /\ x.failed = res.failed
           /\ x.reads = res.reads /\ x.cmd = res.cmd
    BY DEF Resultsets
  <2>2. e \in BOOLEAN
    BY DEF Resultsets
  <2> HIDE DEF e
  <2>3. QED
    BY <2>1, <2>2
<1> HIDE DEF res2
<1>6. rs' \in [Cmds -> Resultsets]
  BY <1>1, <1>3, <1>5
<1>7. \A k \in Cmds : LET R == [rs EXCEPT ![r] = res] IN
         /\ rs'[k].more = R[k].more /\ rs'[k].failed = R[k].failed
         /\ rs'[k].reads = R[k].reads /\ rs'[k].cmd = R[k].cmd
  BY <1>1, <1>3, <1>5
<1>8. Settled(s, cur', rs', wire', conn')
  BY <1>7, SettledSame
<1>9. TaskTurn(t)
  BY TaskHolds
<1>10. Turn'
  BY <1>2, <1>3, <1>4, <1>8, <1>9, Returns DEF TaskTurn
<1>11. CallsOk'
  BY <1>3, <1>4, CallsStep, CallTypes, EnderIsNoTask
<1>12. op' \in [Actors -> Calls]
  BY <1>3, <1>4, CallTypes
<1>13. QED
  BY <1>2, <1>3, <1>6, <1>10, <1>11, <1>12, SetStateType

\* The response to a command: an error.
LEMMA ResponseErrorInv ==
    ASSUME MutexInv, NEW t \in Tasks, op[t].pc # "idle", conn = "open", conn' = conn,
           HoldsCommand(op[t], rs, wire, conn, lastReader),
           wire' = <<>>, NEW kind, QueryError(t, kind), UNCHANGED <<cur, reader, ended, ncmd>>
    PROVE  MutexInv'
<1> DEFINE call == op[t]
           new == [call EXCEPT !.pc = "send", !.retries = @ - 1, !.err = FALSE]
<1>1. ShapesOK /\ CallsOk /\ op \in [Actors -> Calls] /\ call \in Calls /\ rs \in [Cmds -> Resultsets]
  BY EnderIsNoTask DEF MutexInv, ShapesOK
<1>2. wire' \in Seq(Packets) /\ lastReader' = None /\ Loose(rs) = {}
  BY DEF reader, HoldsCommand
<1>3. CASE Retries(call, kind)
  <2>1. /\ op' = [op EXCEPT ![t] = new] /\ UNCHANGED <<state, ends, rs>> /\ call.retries > 0
        /\ pendingCloseStmts' = {} /\ srvStmts' = srvStmts \ pendingCloseStmts
    BY <1>3 DEF QueryError, Retries, DoPending, Step
  <2>2. /\ new \in Calls /\ new.kind = call.kind /\ new.r = call.r /\ new.cmd = call.cmd
        /\ new.void = call.void /\ new.err = FALSE /\ new.pc = "send"
    <3>1. call.retries - 1 \in 0 .. MaxRetries
      BY <1>1, <2>1, ConstantsAssumption DEF Calls
    <3> DEFINE e == call.retries - 1
    <3>2. new = [call EXCEPT !.pc = "send", !.retries = e, !.err = FALSE]
      OBVIOUS
    <3> HIDE DEF call, e, new
    <3>3. QED
      BY <1>1, <3>1, <3>2 DEF Calls, e
  <2> HIDE DEF new
  <2>3. CallsOk' /\ op' \in [Actors -> Calls]
    BY <1>1, <2>1, <2>2, CallsStep, EnderIsNoTask DEF HoldsCommand, Commands
  <2>4. ShapesOK'
    BY <1>1, <1>2, <2>1, <2>3 DEF ShapesOK, ends, reader
  <2>5. HoldsCommand(new, rs', wire', conn', lastReader')
    BY <1>2, <2>1, <2>2 DEF HoldsCommand
  <2>6. Alone(op, t) /\ Engaged(state', onEndSession, op[Ender], ended)
    BY <2>1, TaskHolds DEF TaskTurn
  <2>7. Turn'
    BY <1>1, <2>1, <2>5, <2>6, Continues
  <2>8. QED
    BY <2>3, <2>4, <2>7 DEF MutexInv
<1>4. CASE ~Retries(call, kind)
  <2>1. ThrowSqlError(t) /\ UNCHANGED stmts
    BY <1>4 DEF QueryError
  <2>2. /\ Turn' /\ CallsOk' /\ op' \in [Actors -> Calls] /\ rs' \in [Cmds -> Resultsets]
        /\ state' \in ProtocolState /\ endState' \in ProtocolState /\ onEndSession' \in {"no", "armed", "resolved"}
    BY <1>2, <2>1, SqlErrorThrown
  <2>3. ShapesOK'
    BY <1>1, <1>2, <2>1, <2>2 DEF ShapesOK, stmts, reader
  <2>4. QED
    BY <2>2, <2>3 DEF MutexInv
<1>5. QED
  BY <1>3, <1>4

\* A Resultsets gets results, or a prepared statement.
LEMMA AttachedFacts ==
    ASSUME NEW x \in Resultsets
    PROVE  /\ LET y == [x EXCEPT !.live = TRUE, !.more = TRUE, !.failed = FALSE] IN
              /\ y \in Resultsets /\ y.more = TRUE /\ y.failed = FALSE
              /\ y.reads = x.reads /\ y.cmd = x.cmd /\ y.prep = x.prep /\ y.wrong = x.wrong
           /\ LET y == [x EXCEPT !.live = TRUE, !.stmt = TRUE] IN
              /\ y \in Resultsets
              /\ y.reads = x.reads /\ y.cmd = x.cmd /\ y.prep = x.prep /\ y.wrong = x.wrong
<1> DEFINE y == [x EXCEPT !.live = TRUE, !.more = TRUE, !.failed = FALSE]
           z == [x EXCEPT !.live = TRUE, !.stmt = TRUE]
<1>1. /\ y.more = TRUE /\ y.failed = FALSE
      /\ y.reads = x.reads /\ y.cmd = x.cmd /\ y.prep = x.prep /\ y.wrong = x.wrong
  BY DEF Resultsets
<1>2. z.reads = x.reads /\ z.cmd = x.cmd /\ z.prep = x.prep /\ z.wrong = x.wrong
  BY DEF Resultsets
<1>3. y \in Resultsets
  BY DEF Resultsets
<1>4. z \in Resultsets
  BY DEF Resultsets
<1>5. QED
  BY <1>1, <1>2, <1>3, <1>4

\* The response to a command.
LEMMA ResponseInv ==
    ASSUME MutexInv, NEW t \in Tasks, Response(t)
    PROVE  MutexInv'
<1> DEFINE call == op[t]
           r == call.r
           kind == NextPacket.kind
           s == StateAfter(kind)
           attached == [rs[r] EXCEPT !.live = TRUE, !.more = TRUE, !.failed = FALSE]
<1>1. /\ call.pc = "response" /\ conn = "open" /\ wire # <<>> /\ wire' = Tail(wire) /\ conn' = conn
      /\ UNCHANGED <<reader, ended, ncmd>> /\ call.kind \in Commands /\ kind # "infile"
  BY DEF Response, CanRead, Consume, Commands
<1>2. /\ ShapesOK /\ CallsOk /\ op \in [Actors -> Calls] /\ call \in Calls /\ rs \in [Cmds -> Resultsets]
      /\ wire \in Seq(Packets) /\ wire' \in Seq(Packets)
  BY <1>1, EnderIsNoTask DEF MutexInv, ShapesOK
<1>3. TaskTurn(t) /\ HoldsCommand(call, rs, wire, conn, lastReader)
  <2>1. TaskTurn(t)
    BY <1>1, TaskHolds
  <2>2. QED
    BY <1>1, <2>1 DEF TaskTurn, HoldsResults, HoldsReader, Commands
<1>4. /\ call.aux = <<>> /\ Replied(call, rs[r].reads, wire) /\ lastReader = None /\ lastReader' = None
      /\ Loose(rs) = {} /\ r \in Cmds /\ rs[r].cmd = call.cmd /\ (call.void => call.kind \in {"query", "three"})
  BY <1>1, <1>3 DEF HoldsCommand, reader
<1>5. /\ kind \in {"ok", "okM", "cols", "err", "errR", "stmt"}
      /\ kind \in Errors \cup {"stmt"} => wire' = <<>>
      /\ kind \in {"ok", "okM", "cols"} => Unread(s, rs[r].reads, call.cmd, wire')
      /\ call.err => kind \in Errors \cup {"ok"}
  BY <1>1, <1>2, <1>4, RepliedStep DEF NextPacket
<1>6. CASE kind \in Errors
  <2>1. QueryError(t, kind) /\ UNCHANGED cur
    <3>1. s = "IDLE" /\ kind # "stmt"
      BY <1>6, StateAfterFacts DEF Errors
    <3>2. QED
      BY <1>6, <3>1 DEF Response
  <2>2. QED
    BY <1>1, <1>3, <1>5, <1>6, <2>1, ResponseErrorInv
<1> DEFINE Done == /\ Turn' /\ CallsOk' /\ op' \in [Actors -> Calls] /\ rs' \in [Cmds -> Resultsets]
                   /\ state' \in ProtocolState /\ endState' \in ProtocolState
                   /\ onEndSession' \in {"no", "armed", "resolved"}
<1>7. ASSUME Done, cur' \in Cmds \cup {None}, UNCHANGED stmts
      PROVE  MutexInv'
  BY <1>1, <1>2, <1>7 DEF ShapesOK, MutexInv, stmts, reader
<1>8. CASE kind = "stmt"
  <2> DEFINE res == [rs[r] EXCEPT !.live = TRUE, !.stmt = TRUE]
  <2>1. QueryDone(t, r, res, "IDLE") /\ UNCHANGED <<cur, stmts>>
    <3>1. s = "IDLE" /\ kind \notin Errors
      BY <1>8, StateAfterFacts DEF Errors
    <3>2. QED
      BY <1>8, <3>1 DEF Response
  <2>2. res \in Resultsets /\ res.more = rs[r].more /\ res.failed = rs[r].failed
    BY <1>2, <1>4, ZenonT(40) DEF Resultsets
  <2> HIDE DEF res
  <2>3. Loose([rs EXCEPT ![r] = res]) = {}
    BY <1>2, <1>4, <2>2 DEF Loose
  <2>4. Settled("IDLE", cur', [rs EXCEPT ![r] = res], wire', conn')
    BY <1>5, <1>8, <2>3 DEF Settled, Unread, Resting, More
  <2>5. "IDLE" \in ProtocolState
    BY DEF ProtocolState
  <2>6. Done
    BY <1>1, <1>4, <2>1, <2>2, <2>4, <2>5, QueryReturns
  <2> HIDE DEF Done
  <2>7. QED
    BY <1>2, <1>7, <2>1, <2>6 DEF ShapesOK
<1>9. CASE kind = "ok"
  <2>1. s = "IDLE"
    BY <1>9, StateAfterFacts
  <2>2. QueryDone(t, r, rs[r], s) /\ UNCHANGED <<cur, stmts>>
    BY <1>9, <2>1 DEF Response, Errors
  <2>3. [rs EXCEPT ![r] = rs[r]] = rs /\ rs[r] \in Resultsets
    BY <1>2, <1>4
  <2>4. Settled(s, cur', [rs EXCEPT ![r] = rs[r]], wire', conn')
    BY <1>4, <1>5, <1>9, <2>1, <2>3 DEF Settled, Unread, Resting, More
  <2>5. s \in ProtocolState
    BY <2>1 DEF ProtocolState
  <2> HIDE DEF s
  <2>6. Done
    BY <1>1, <1>4, <2>1, <2>2, <2>3, <2>4, <2>5, QueryReturns
  <2> HIDE DEF Done
  <2>7. QED
    BY <1>2, <1>7, <2>2, <2>6 DEF ShapesOK
<1>10. CASE kind \in {"okM", "cols"}
  <2>1. s \in More /\ s # "IDLE" /\ ~call.err /\ kind \notin Errors
    BY <1>5, <1>10, StateAfterFacts DEF Errors, More
  <2>2. /\ attached \in Resultsets /\ attached.more = TRUE /\ attached.failed = FALSE
        /\ attached.reads = rs[r].reads /\ attached.cmd = rs[r].cmd
    <3>1. rs[r] \in Resultsets
      BY <1>2, <1>4
    <3>2. QED
      BY <3>1, AttachedFacts
  <2>3. /\ cur' = r
        /\ call.void => /\ rs' = [rs EXCEPT ![r] = attached]
                        /\ Step(t, [call EXCEPT !.pc = "discard", !.st = s])
                        /\ UNCHANGED <<state, ends, stmts>>
        /\ ~call.void => QueryDone(t, r, attached, s) /\ UNCHANGED stmts
    <3>1. CASE call.void
      BY <1>10, <2>1, <3>1 DEF Response
    <3>2. CASE ~call.void
      BY <1>10, <2>1, <3>2 DEF Response
    <3>3. QED
      BY <3>1, <3>2
  <2>4. s \in ProtocolState
    BY <2>1 DEF ProtocolState, More
  <2> HIDE DEF attached, s
  <2>5. Loose([rs EXCEPT ![r] = attached]) \subseteq {r}
    BY <1>2, <1>4, <2>2 DEF Loose
  <2>6. LET R == [rs EXCEPT ![r] = attached] IN R[r] = attached
    BY <1>2, <1>4
  <2>7. Settled(s, cur', [rs EXCEPT ![r] = attached], wire', conn')
    <3>1. Unread(s, attached.reads, attached.cmd, wire')
      BY <1>4, <1>5, <1>10, <2>2 DEF s
    <3>2. s \notin Resting
      BY <2>1 DEF More, Resting
    <3> HIDE DEF r
    <3>3. QED
      BY <1>4, <2>1, <2>3, <2>5, <2>6, <3>1, <3>2 DEF Settled
  <2>8. CASE call.void
    <3> DEFINE new == [call EXCEPT !.pc = "discard", !.st = s]
    <3>1. rs' = [rs EXCEPT ![r] = attached] /\ op' = [op EXCEPT ![t] = new] /\ UNCHANGED <<state, ends, stmts>>
      BY <2>3, <2>8 DEF Step
    <3>2. /\ new \in Calls /\ new.pc = "discard" /\ new.st = s /\ new.r = r /\ new.kind = call.kind
          /\ new.cmd = call.cmd /\ new.err = call.err
      BY <1>2, <2>4 DEF Calls
    <3> HIDE DEF new
    <3>3. CallsOk' /\ op' \in [Actors -> Calls]
      BY <1>1, <1>2, <3>1, <3>2, CallsStep, EnderIsNoTask DEF Commands
    <3>4. rs' \in [Cmds -> Resultsets] /\ rs'[r] = attached
      BY <1>2, <1>4, <2>2, <3>1
    <3>5. HoldsResults(new, cur', rs', wire', conn', lastReader')
      BY <1>4, <2>1, <2>2, <2>3, <2>7, <2>8, <3>1, <3>2, <3>4 DEF HoldsResults, Position
    <3>6. Alone(op, t) /\ Engaged(state', onEndSession, op[Ender], ended)
      BY <1>3, <3>1 DEF TaskTurn
    <3>7. Turn'
      BY <1>1, <1>2, <3>1, <3>5, <3>6, Continues
    <3>8. ShapesOK'
      BY <1>1, <1>2, <1>4, <2>3, <3>1, <3>3, <3>4 DEF ShapesOK, ends, stmts, reader
    <3>9. QED
      BY <1>1, <3>3, <3>7, <3>8 DEF MutexInv
  <2>9. CASE ~call.void
    <3>1. Done
      BY <1>1, <1>4, <2>1, <2>2, <2>3, <2>7, <2>9, <2>4, QueryReturns
    <3> HIDE DEF Done
    <3>2. QED
      BY <1>4, <1>7, <2>3, <2>9, <3>1
  <2>10. QED
    BY <2>8, <2>9
<1>11. QED
  BY <1>5, <1>6, <1>8, <1>9, <1>10 DEF Errors

-----------------------------------------------------------------------------
(* Results.                                                                *)

\* What is known of the next packet, when more is to be read in state s.
PacketOf(s, c, R, w) ==
    /\ w # <<>> /\ Head(w).cmd = R[c].cmd /\ c \in Cmds /\ Loose(R) \subseteq {c}
    /\ s = "HAS_MORE_ROWS" => Head(w).kind \in {"row", "eof", "eofM", "err"}
    /\ s = "HAS_MORE_RESULTSETS" => Head(w).kind \in {"ok", "okM", "cols", "infile", "err"}
    /\ Head(w).kind = "err" => Tail(w) = <<>> /\ (s = "HAS_MORE_ROWS" => ~R[c].reads)
    /\ Head(w).kind = "infile" => Settled(s, c, R, Tail(w), "open")
    /\ Head(w).kind \notin {"err", "infile"} =>
          LET s2 == After(s, Head(w).kind) IN
          \/ s2 = "IDLE" /\ Tail(w) = <<>>
          \/ s2 \in More /\ Settled(s2, c, R, Tail(w), "open")

LEMMA SettledStep ==
    ASSUME NEW s \in More, NEW c, NEW R, NEW w \in Seq(Packets), Settled(s, c, R, w, "open")
    PROVE  PacketOf(s, c, R, w)
<1> DEFINE kind == Head(w).kind
           s2 == After(s, kind)
<1>1. c \in Cmds /\ Loose(R) \subseteq {c} /\ Unread(s, R[c].reads, R[c].cmd, w)
  BY DEF Settled
<1>2. /\ w # <<>> /\ Head(w).cmd = R[c].cmd
      /\ s = "HAS_MORE_ROWS" => kind \in {"row", "eof", "eofM", "err"}
      /\ s = "HAS_MORE_RESULTSETS" => kind \in {"ok", "okM", "cols", "infile", "err"}
      /\ kind = "err" => Tail(w) = <<>> /\ (s = "HAS_MORE_ROWS" => ~R[c].reads)
      /\ kind = "infile" => Unread(s, R[c].reads, R[c].cmd, Tail(w))
      /\ kind \notin {"err", "infile"} => Unread(s2, R[c].reads, R[c].cmd, Tail(w))
  BY <1>1, UnreadStep, ZenonT(40)
<1>3. \A x \in More : Unread(x, R[c].reads, R[c].cmd, Tail(w)) => Settled(x, c, R, Tail(w), "open")
  BY <1>1 DEF Settled, More, Resting
<1>4. kind \notin {"err", "infile"} => s2 \in More \/ (s2 = "IDLE" /\ Tail(w) = <<>>)
  <2>1. s2 \in More \cup {"IDLE"}
    BY DEF After, StateAfter, More
  <2>2. kind \notin {"err", "infile"} /\ s2 = "IDLE" => Tail(w) = <<>>
    BY <1>2 DEF Unread, Resting
  <2>3. QED
    BY <2>1, <2>2
<1> HIDE DEF kind, s2
<1>5. kind = "infile" => Settled(s, c, R, Tail(w), "open")
  BY <1>2, <1>3
<1>6. kind \notin {"err", "infile"} => \/ s2 = "IDLE" /\ Tail(w) = <<>>
                                       \/ s2 \in More /\ Settled(s2, c, R, Tail(w), "open")
  <2>1. kind \notin {"err", "infile"} => Unread(s2, R[c].reads, R[c].cmd, Tail(w))
    BY <1>2
  <2>2. s2 \in More /\ Unread(s2, R[c].reads, R[c].cmd, Tail(w)) => Settled(s2, c, R, Tail(w), "open")
    BY <1>3, Zenon
  <2>3. QED
    BY <1>4, <2>1, <2>2, Zenon
<1>7. QED
  BY <1>1, <1>2, <1>5, <1>6 DEF PacketOf, kind, s2

\* A Resultsets was read to the end.
LEMMA DetachedFacts ==
    ASSUME rs \in [Cmds -> Resultsets], NEW c \in Cmds, NEW b \in BOOLEAN
    PROVE  LET res == Detached(rs[c], b) IN
           /\ res \in Resultsets /\ res.more = FALSE /\ res.given = rs[c].given /\ res.stmt = rs[c].stmt
           /\ res.cmd = rs[c].cmd /\ res.reads = rs[c].reads /\ res.failed = rs[c].failed
           /\ res.prep = rs[c].prep /\ res.wrong = rs[c].wrong
           /\ [rs EXCEPT ![c] = res] \in [Cmds -> Resultsets] /\ [rs EXCEPT ![c] = res][c] = res
           /\ Loose(rs) \subseteq {c} => Loose([rs EXCEPT ![c] = res]) = {}
<1>1. \A e \in BOOLEAN : LET x == [rs[c] EXCEPT !.more = FALSE, !.live = e] IN
         /\ x \in Resultsets /\ x.more = FALSE /\ x.given = rs[c].given /\ x.stmt = rs[c].stmt
         /\ x.cmd = rs[c].cmd /\ x.reads = rs[c].reads /\ x.failed = rs[c].failed
         /\ x.prep = rs[c].prep /\ x.wrong = rs[c].wrong
  BY DEF Resultsets
<1> DEFINE e == rs[c].live /\ b
           res == Detached(rs[c], b)
<1>2. res = [rs[c] EXCEPT !.more = FALSE, !.live = e]
  BY DEF Detached
<1>3. e \in BOOLEAN
  OBVIOUS
<1> HIDE DEF e, res
<1>4. /\ res \in Resultsets /\ res.more = FALSE /\ res.given = rs[c].given /\ res.stmt = rs[c].stmt
      /\ res.cmd = rs[c].cmd /\ res.reads = rs[c].reads /\ res.failed = rs[c].failed
      /\ res.prep = rs[c].prep /\ res.wrong = rs[c].wrong
  BY <1>1, <1>2, <1>3
<1>5. [rs EXCEPT ![c] = res] \in [Cmds -> Resultsets] /\ [rs EXCEPT ![c] = res][c] = res
  BY <1>4
<1>6. Loose(rs) \subseteq {c} => Loose([rs EXCEPT ![c] = res]) = {}
  BY <1>4 DEF Loose
<1>7. QED
  BY <1>4, <1>5, <1>6 DEF res

\* A fatal error.
LEMMA FatalInv ==
    ASSUME MutexInv, NEW a \in Actors, op[a].pc \notin {"idle", "wait"},
           a = Ender => op[a].kind = "reader",
           ThrowFatal(a), isReading' \in {isReading, "NO"},
           UNCHANGED <<cur, lastReader, colLeft, stmts, ended, ncmd>>
    PROVE  MutexInv'
<1>1. /\ Closed' /\ CallsOk' /\ conn' = "closed" /\ wire' = <<>>
      /\ op' \in [Actors -> Calls] /\ rs' = rs
      /\ state' \in ProtocolState /\ endState' \in ProtocolState /\ onEndSession' \in {"no", "armed", "resolved"}
  BY FatalThrown
<1>2. ShapesOK
  BY DEF MutexInv
<1>3. ShapesOK'
  BY <1>1, <1>2 DEF ShapesOK, stmts
<1>4. QED
  BY <1>1, <1>3 DEF MutexInv

\* In end() the reading of what is left fails, and the connection is not recycled.
LEMMA EndGivesUpInv ==
    ASSUME MutexInv, op[Ender].kind = "end", op[Ender].pc = "discard",
           Step(Ender, [op[Ender] EXCEPT !.pc = "finish", !.void = FALSE]),
           cur' = None, UNCHANGED <<state, ends, rs, reader, stmts, ended, ncmd>>,
           conn' = conn, wire' \in Seq(Packets), conn # "open" => wire' = <<>>
    PROVE  MutexInv'
<1> DEFINE call == op[Ender]
           new == [call EXCEPT !.pc = "finish", !.void = FALSE]
<1>1. ShapesOK /\ CallsOk /\ op \in [Actors -> Calls] /\ call \in Calls
  BY EnderIsNoTask DEF MutexInv, ShapesOK
<1>2. op' = [op EXCEPT ![Ender] = new]
  BY DEF Step
<1>3. /\ new \in Calls /\ new.pc = "finish" /\ new.kind = "end" /\ new.st = call.st /\ new.void = FALSE
  BY <1>1 DEF Calls
<1> HIDE DEF new
<1>4. CallsOk' /\ op' \in [Actors -> Calls] /\ op'[Ender] = new
  BY <1>1, <1>2, <1>3, CallsStep, EnderIsNoTask
<1>5. ShapesOK'
  BY <1>1, <1>4 DEF ShapesOK, ends, reader, stmts
<1>6. \A t \in Tasks : op'[t] = op[t]
  BY <1>1, <1>2, EnderIsNoTask
<1>7. CASE conn = "closed"
  <2>1. Closed
    BY <1>7 DEF MutexInv
  <2>2. Closed'
    BY <1>3, <1>4, <1>6, <2>1 DEF Closed
  <2>3. QED
    BY <1>4, <1>5, <1>7, <2>2 DEF MutexInv
<1>8. CASE conn # "closed"
  <2>1. EndTurn
    BY <1>8, EnderHolds
  <2>2. HoldsEnd(new, cur', rs', wire', conn')
    BY <1>3, <2>1 DEF EndTurn, HoldsEnd
  <2>3. EndTurn'
    BY <1>4, <1>6, <2>1, <2>2 DEF EndTurn, AllIdle, ends, reader
  <2>4. QED
    BY <1>4, <1>5, <1>8, <2>3 DEF MutexInv, Turn
<1>9. QED
  BY <1>7, <1>8

\* A call that read results returns.
LEMMA ResultsReturn ==
    ASSUME MutexInv, NEW t \in Tasks, op[t].pc # "idle", conn # "closed", Return(t),
           NEW s \in ProtocolState, SetState(s), Settled(s, cur', rs', wire', conn'),
           lastReader' = None, UNCHANGED <<ended, conn, ncmd, stmts>>, wire' \in Seq(Packets),
           conn # "open" => wire' = <<>>, rs' \in [Cmds -> Resultsets], cur' \in Cmds \cup {None},
           isReading' \in {isReading, "NO"}, colLeft' = colLeft
    PROVE  MutexInv'
<1>1. ShapesOK /\ CallsOk /\ op \in [Actors -> Calls]
  BY DEF MutexInv, ShapesOK
<1>2. op' = [op EXCEPT ![t] = NoCall]
  BY EnderIsNoTask DEF Return
<1>3. CallsOk' /\ op' \in [Actors -> Calls]
  BY <1>1, <1>2, CallsStep, CallTypes, EnderIsNoTask
<1>4. state' \in ProtocolState /\ endState' \in ProtocolState /\ onEndSession' \in {"no", "armed", "resolved"}
  BY <1>1, SetStateType DEF ShapesOK
<1>5. ShapesOK'
  BY <1>1, <1>3, <1>4 DEF ShapesOK, stmts
<1>6. Turn'
  <2>1. TaskTurn(t)
    BY TaskHolds
  <2>2. QED
    BY <1>1, <1>2, <2>1, Returns DEF TaskTurn
<1>7. QED
  BY <1>3, <1>5, <1>6 DEF MutexInv

\* A call throws SqlError when nothing more is to be read.
LEMMA SqlErrorInv ==
    ASSUME MutexInv, NEW t \in Tasks, op[t].pc # "idle", conn # "closed", ThrowSqlError(t),
           Loose(rs) \subseteq {cur}, lastReader = None, wire' = <<>>,
           UNCHANGED <<cur, reader, stmts, ended, conn, ncmd>>
    PROVE  MutexInv'
<1>1. lastReader' = None /\ wire' \in Seq(Packets)
  BY DEF reader
<1>2. /\ Turn' /\ CallsOk' /\ op' \in [Actors -> Calls] /\ rs' \in [Cmds -> Resultsets]
      /\ state' \in ProtocolState /\ endState' \in ProtocolState /\ onEndSession' \in {"no", "armed", "resolved"}
  BY <1>1, SqlErrorThrown
<1>3. ShapesOK
  BY DEF MutexInv
<1>4. ShapesOK'
  BY <1>1, <1>2, <1>3 DEF ShapesOK, reader, stmts
<1>5. QED
  BY <1>2, <1>4 DEF MutexInv

\* The program asks for the next resultset, or for a row.
LEMMA AsksInv ==
    ASSUME MutexInv, CopedWith, NEW t \in Tasks, op[t].pc = "idle", conn # "closed",
           NEW r \in Cmds, rs[r].more, rs[r].failed => UsesFailed, state \in More, state' = "QUERYING",
           NEW call \in Calls, Step(t, call), call.r = r, call.cmd = rs[r].cmd,
           \/ call.kind = "fetch" /\ call.pc = "row" /\ state = "HAS_MORE_ROWS"
           \/ /\ call.kind = "next" /\ call.st = state
              /\ call.pc = IF state = "HAS_MORE_ROWS" THEN "discard" ELSE "response",
           UNCHANGED <<ends, cur, reader, stmts, rs, ended, conn, wire, ncmd>>
    PROVE  MutexInv'
<1>1. ShapesOK /\ CallsOk /\ op \in [Actors -> Calls] /\ (conn # "open" => wire = <<>>)
  BY DEF MutexInv, ShapesOK
<1>2. ReadyTurn
  BY ReadyHolds
<1>3. r = cur /\ Settled(state, cur, rs, wire, conn)
  <2>1. r \in Loose(rs)
    BY DEF Loose, CopedWith
  <2>2. QED
    BY <1>2, <2>1 DEF ReadyTurn, Settled, More, Resting
<1>4. op' = [op EXCEPT ![t] = call]
  BY DEF Step
<1>5. CallsOk' /\ op' \in [Actors -> Calls]
  BY <1>1, <1>4, CallsStep, EnderIsNoTask
<1>6. ShapesOK'
  BY <1>1, <1>5 DEF ShapesOK, ends, reader, stmts, ProtocolState
<1>7. HoldsResults(call, cur', rs', wire', conn', lastReader')
  <2>1. lastReader' = None /\ Position(call) = state
    BY <1>2 DEF ReadyTurn, reader, Position, More
  <2>2. QED
    BY <1>3, <2>1 DEF HoldsResults, More
<1>8. Alone(op, t) /\ Engaged(state', onEndSession, op[Ender], ended)
  BY <1>2 DEF ReadyTurn, AllIdle, Alone, Engaged
<1>9. Turn'
  BY <1>1, <1>4, <1>7, <1>8, Continues
<1>10. QED
  BY <1>1, <1>5, <1>6, <1>9 DEF MutexInv

\* In state ERROR the socket is closed.
LEMMA ErrorIsClosed ==
    ASSUME MutexInv, state = "ERROR"
    PROVE  conn = "closed"
<1> SUFFICES ASSUME conn # "closed"
             PROVE  FALSE
  OBVIOUS
<1>1. Turn
  BY DEF MutexInv
<1>2. (\A t \in Tasks : ~TaskTurn(t)) /\ ~ReaderTurn
  BY DEF TaskTurn, ReaderTurn, Engaged
<1>3. ~ReadyTurn /\ ~ToldTurn /\ ~EndReadsTurn /\ ~EndTurn /\ ~OverTurn
  BY DEF ReadyTurn, Settled, Resting, More, ToldTurn, EndReadsTurn, EndTurn, OverTurn
<1>4. QED
  BY <1>1, <1>2, <1>3 DEF Turn

LEMMA FetchInv ==
    ASSUME MutexInv, CopedWith, NEW t \in Tasks, Fetch(t)
    PROVE  MutexInv'
<1>1. PICK r \in Cmds :
        /\ op[t].pc = "idle"
        /\ rs[r].given /\ rs[r].live /\ rs[r].more /\ (rs[r].failed => UsesFailed)
        /\ state \in {"HAS_MORE_ROWS", "ERROR"}
        /\ state' = "QUERYING"
        /\ Step(t, [NoCall EXCEPT !.pc = "row", !.kind = "fetch", !.r = r, !.cmd = rs[r].cmd,
                                  !.stmt = cur # None /\ rs[cur].stmt])
        /\ UNCHANGED <<ends, cur, reader, stmts, rs, ended, conn, wire, ncmd>>
  BY DEF Fetch
<1> DEFINE e == cur # None /\ rs[cur].stmt
           call == [NoCall EXCEPT !.pc = "row", !.kind = "fetch", !.r = r, !.cmd = rs[r].cmd, !.stmt = e]
<1>2. ShapesOK /\ CallsOk /\ op \in [Actors -> Calls] /\ rs \in [Cmds -> Resultsets]
  BY DEF MutexInv, ShapesOK
<1>3. call \in Calls /\ call.pc = "row" /\ call.kind = "fetch" /\ call.r = r /\ call.cmd = rs[r].cmd
  <2>1. e \in BOOLEAN
    OBVIOUS
  <2> HIDE DEF e
  <2>2. rs[r].cmd \in Cmds \cup {None}
    BY <1>2 DEF Resultsets
  <2>3. call.pc = "row" /\ call.kind = "fetch" /\ call.r = r /\ call.cmd = rs[r].cmd
    BY CallTypes DEF Calls
  <2>4. call \in Calls
    BY <2>1, <2>2, CallTypes DEF Calls
  <2>5. QED
    BY <2>3, <2>4
<1>4. Step(t, call)
  BY <1>1
<1> HIDE DEF call
<1>5. CASE conn = "closed"
  <2>1. Closed
    BY <1>5 DEF MutexInv
  <2>2. op' = [op EXCEPT ![t] = call]
    BY <1>4 DEF Step
  <2>3. CallsOk' /\ op' \in [Actors -> Calls] /\ \A b \in Actors : op'[b] = IF b = t THEN call ELSE op[b]
    BY <1>2, <1>3, <2>2, CallsStep, EnderIsNoTask
  <2>4. Closed'
    BY <1>1, <1>3, <2>1, <2>3, EnderIsNoTask DEF Closed, More
  <2>5. ShapesOK'
    BY <1>1, <1>2, <2>3 DEF ShapesOK, ends, reader, stmts, ProtocolState
  <2>6. QED
    BY <1>1, <1>5, <2>3, <2>4, <2>5 DEF MutexInv
<1>6. CASE conn # "closed"
  <2>1. state = "HAS_MORE_ROWS"
    BY <1>1, <1>6, ErrorIsClosed
  <2>2. QED
    BY <1>1, <1>3, <1>4, <1>6, <2>1, AsksInv DEF More
<1>7. QED
  BY <1>5, <1>6

LEMMA NextResultsetInv ==
    ASSUME MutexInv, CopedWith, NEW t \in Tasks, NextResultset(t)
    PROVE  MutexInv'
<1> DEFINE pc == IF state = "HAS_MORE_ROWS" THEN "discard" ELSE "response"
<1>1. PICK r \in Cmds :
        /\ op[t].pc = "idle"
        /\ rs[r].given /\ rs[r].live /\ rs[r].more /\ (rs[r].failed => UsesFailed)
        /\ state \in {"HAS_MORE_ROWS", "HAS_MORE_RESULTSETS"}
        /\ state' = "QUERYING"
        /\ Step(t, [NoCall EXCEPT !.pc = pc, !.kind = "next", !.r = r, !.cmd = rs[r].cmd, !.st = state,
                                  !.stmt = rs[cur].stmt])
        /\ UNCHANGED <<ends, cur, reader, stmts, rs, ended, conn, wire, ncmd>>
  BY DEF NextResultset
<1> DEFINE call == [NoCall EXCEPT !.pc = pc, !.kind = "next", !.r = r, !.cmd = rs[r].cmd, !.st = state,
                                  !.stmt = rs[cur].stmt]
<1>2. ShapesOK /\ rs \in [Cmds -> Resultsets] /\ state \in More
  BY <1>1 DEF MutexInv, ShapesOK, More
<1>3. conn # "closed"
  BY <1>2 DEF MutexInv, Closed
<1>4. cur \in Cmds
  BY <1>2, <1>3, ReadyHolds DEF ReadyTurn, Settled
<1>5. /\ call \in Calls /\ call.pc = pc /\ call.kind = "next" /\ call.r = r /\ call.cmd = rs[r].cmd
      /\ call.st = state
  <2>1. rs[r].cmd \in Cmds \cup {None} /\ rs[cur].stmt \in BOOLEAN /\ state \in ProtocolState
    BY <1>2, <1>4 DEF Resultsets, ShapesOK
  <2>2. pc \in {"discard", "response"}
    OBVIOUS
  <2> HIDE DEF pc
  <2>3. call.pc = pc /\ call.kind = "next" /\ call.r = r /\ call.cmd = rs[r].cmd /\ call.st = state
    BY CallTypes DEF Calls
  <2>4. call \in Calls
    BY <2>1, <2>2, CallTypes DEF Calls
  <2>5. QED
    BY <2>3, <2>4
<1>6. Step(t, call)
  BY <1>1
<1> HIDE DEF call
<1>7. QED
  BY <1>1, <1>2, <1>3, <1>5, <1>6, AsksInv

\* A task that reads results, but not a last column, has the word.
LEMMA ResultsHold ==
    ASSUME MutexInv, NEW t \in Tasks, op[t].pc # "idle", conn = "open", op[t].kind # "reader",
           op[t].pc = "row" \/ op[t].kind = "next" \/ op[t].pc = "discard"
    PROVE  /\ TaskTurn(t) /\ HoldsResults(op[t], cur, rs, wire, conn, lastReader)
           /\ ShapesOK /\ op[t] \in Calls /\ wire \in Seq(Packets) /\ rs \in [Cmds -> Resultsets]
           /\ cur \in Cmds /\ op[t].r = cur /\ op[t].cmd = rs[cur].cmd /\ lastReader = None
           /\ Position(op[t]) \in More /\ Settled(Position(op[t]), cur, rs, wire, "open")
           /\ Loose(rs) \subseteq {cur} /\ op[t].stmt \in BOOLEAN
<1>1. TaskTurn(t)
  BY TaskHolds
<1>2. HoldsResults(op[t], cur, rs, wire, conn, lastReader)
  BY <1>1 DEF TaskTurn, HoldsCommand, HoldsReader, Commands
<1>3. ShapesOK /\ op[t] \in Calls /\ wire \in Seq(Packets) /\ rs \in [Cmds -> Resultsets]
  BY EnderIsNoTask DEF MutexInv, ShapesOK
<1>4. op[t].stmt \in BOOLEAN
  BY <1>3 DEF Calls
<1>5. QED
  BY <1>1, <1>2, <1>3, <1>4 DEF HoldsResults, Settled, Resting, More

\* The response to an executed statement. What is decided by the old flag is right, as the
\* flag is not set, and no OK packet is followed by more.
LEMMA ExecReplied ==
    ASSUME MutexInv, PreparedInv, NEW t \in Tasks, CanRead(t, "response"), op[t].kind = "exec"
    PROVE  LET kind == NextPacket.kind
               s == IF kind \in Oks THEN StateByFlag ELSE "HAS_MORE_ROWS"
           IN
           /\ kind \in {"ok", "cols", "err", "errR"} /\ (kind \notin Errors => s = StateAfter(kind))
           /\ ~moreExists /\ op[t].aux = <<>> /\ (kind = "cols" => NoOks(wire))
<1> DEFINE kind == NextPacket.kind
<1>1. /\ op[t].pc = "response" /\ conn = "open" /\ wire \in Seq(Packets) /\ wire # <<>> /\ op[t] \in Calls
      /\ op[t].kind \in Commands /\ op[t].kind # "next"
  BY EnderIsNoTask DEF CanRead, MutexInv, ShapesOK, Commands
<1>2. PreparedReplied(op[t], rs, wire, moreExists)
  BY <1>1 DEF PreparedInv, PreparedOpen, Awaits
<1>3. /\ op[t].aux = <<>> /\ ~moreExists /\ kind \notin {"infile", "stmt"}
      /\ kind \in Oks => kind = "ok"
      /\ kind = "cols" => NoOks(wire)
  <2>1. kind = wire[1].kind /\ 1 \in 1 .. Len(wire)
    BY <1>1, TailFacts DEF NextPacket
  <2>2. QED
    BY <1>2, <2>1 DEF PreparedReplied, NoOks, Oks
<1>4. Replied(op[t], rs[op[t].r].reads, wire)
  <2>1. TaskTurn(t)
    BY <1>1, TaskHolds
  <2>2. QED
    BY <1>1, <2>1 DEF TaskTurn, HoldsCommand, HoldsResults, HoldsReader, Commands
<1>5. kind \in {"ok", "okM", "cols", "infile", "err", "errR", "stmt"}
  BY <1>1, <1>3, <1>4, RepliedStep DEF NextPacket
<1>6. QED
  BY <1>3, <1>5, StateAfterFacts DEF Oks, Errors, StateByFlag, kind

LEMMA ExecResponseInv ==
    ASSUME MutexInv, PreparedInv, NEW t \in Tasks, ExecResponse(t)
    PROVE  MutexInv'
<1> DEFINE call == op[t]
           r == call.r
           kind == NextPacket.kind
           s == StateAfter(kind)
           attached == [rs[r] EXCEPT !.live = TRUE, !.more = TRUE, !.failed = FALSE]
<1>1. /\ call.pc = "response" /\ conn = "open" /\ wire # <<>> /\ wire' = Tail(wire) /\ conn' = conn
      /\ UNCHANGED <<reader, stmts, ended, ncmd>> /\ call.kind \in Commands
      /\ kind \in {"ok", "cols", "err", "errR"} /\ call.aux = <<>>
      /\ kind \in Errors => ThrowSqlError(t) /\ UNCHANGED cur
      /\ kind \notin Errors =>
            /\ SetState(s) /\ Return(t)
            /\ IF s = "IDLE"
               THEN UNCHANGED <<rs, cur>>
               ELSE /\ rs' = [rs EXCEPT ![r].live = TRUE, ![r].more = TRUE, ![r].failed = FALSE]
                    /\ cur' = r
  <2>1. kind \in {"ok", "cols", "err", "errR"} /\ call.aux = <<>>
    BY ExecReplied DEF ExecResponse
  <2>2. kind \notin Errors => s = IF kind \in Oks THEN StateByFlag ELSE "HAS_MORE_ROWS"
    BY ExecReplied DEF ExecResponse
  <2> HIDE DEF s
  <2>3. QED
    BY <2>1, <2>2 DEF ExecResponse, CanRead, Consume, Commands
<1>2. /\ ShapesOK /\ call \in Calls /\ rs \in [Cmds -> Resultsets]
      /\ wire \in Seq(Packets) /\ wire' \in Seq(Packets)
  BY <1>1, EnderIsNoTask DEF MutexInv, ShapesOK
<1>3. /\ Replied(call, rs[r].reads, wire) /\ lastReader = None /\ lastReader' = None
      /\ Loose(rs) = {} /\ r \in Cmds /\ rs[r].cmd = call.cmd
  <2>1. TaskTurn(t)
    BY <1>1, TaskHolds
  <2>2. QED
    BY <1>1, <2>1 DEF TaskTurn, HoldsCommand, HoldsResults, HoldsReader, Commands, reader
<1>4. /\ kind \in Errors => wire' = <<>>
      /\ kind \in {"ok", "cols"} => Unread(s, rs[r].reads, call.cmd, wire')
  BY <1>1, <1>2, <1>3, RepliedStep DEF NextPacket
<1>5. CASE kind \in Errors
  BY <1>1, <1>3, <1>4, <1>5, SqlErrorInv
<1>6. CASE kind = "ok"
  <2>1. s = "IDLE" /\ kind \notin Errors
    BY <1>6, StateAfterFacts DEF Errors
  <2> HIDE DEF s
  <2>2. SetState("IDLE") /\ Return(t) /\ UNCHANGED <<rs, cur>> /\ wire' = <<>>
    BY <1>1, <1>4, <1>6, <2>1 DEF Unread, Resting
  <2>3. Settled("IDLE", cur', rs', wire', conn') /\ "IDLE" \in ProtocolState
    BY <1>3, <2>2 DEF Settled, Unread, Resting, More, ProtocolState
  <2>4. rs' \in [Cmds -> Resultsets] /\ cur' \in Cmds \cup {None} /\ isReading' = isReading /\ colLeft' = colLeft
    BY <1>1, <1>2, <2>2 DEF ShapesOK, reader
  <2>5. QED
    BY <1>1, <1>2, <1>3, <2>2, <2>3, <2>4, ResultsReturn
<1>7. CASE kind = "cols"
  <2>1. s = "HAS_MORE_ROWS" /\ kind \notin Errors
    BY <1>7, StateAfterFacts DEF Errors
  <2> HIDE DEF s
  <2>2. /\ attached \in Resultsets /\ attached.reads = rs[r].reads /\ attached.cmd = rs[r].cmd
    BY <1>2, <1>3, ZenonT(40) DEF Resultsets
  <2>3. SetState("HAS_MORE_ROWS") /\ Return(t) /\ rs' = [rs EXCEPT ![r] = attached] /\ cur' = r
    BY <1>1, <1>2, <1>3, <2>1
  <2> HIDE DEF attached
  <2>4. rs' \in [Cmds -> Resultsets] /\ rs'[r] = attached /\ Loose(rs') \subseteq {r}
    BY <1>2, <1>3, <2>2, <2>3 DEF Loose
  <2>5. Settled("HAS_MORE_ROWS", cur', rs', wire', conn') /\ "HAS_MORE_ROWS" \in ProtocolState
    BY <1>3, <1>4, <1>7, <2>1, <2>2, <2>3, <2>4 DEF Settled, Resting, More, ProtocolState
  <2>6. cur' \in Cmds \cup {None} /\ isReading' = isReading /\ colLeft' = colLeft
    BY <1>1, <1>3, <2>3 DEF reader
  <2>7. QED
    BY <1>1, <1>2, <1>3, <2>3, <2>4, <2>5, <2>6, ResultsReturn
<1>8. QED
  BY <1>1, <1>5, <1>6, <1>7 DEF Errors

\* No OK packet is taken for the response to COM_STMT_PREPARE.
LEMMA NoOkForStmt ==
    ASSUME MutexInv, PreparedInv, NEW a \in Actors,
           CanRead(a, "discard") \/ (CanRead(a, "response") /\ op[a].kind = "next")
    PROVE  ~TakesOkForStmt
<1>1. op[a].pc # "idle" /\ op[a].pc # "wait" /\ conn = "open" /\ wire # <<>> /\ ShapesOK /\ CallsOk
      /\ op[a].pc \in {"discard", "response"} /\ ~Awaits(op[a])
  BY DEF CanRead, MutexInv, Awaits, Commands
<1>2. (\A t \in Tasks : ~Awaits(op[t])) /\ op[Ender].pc \notin {"reset", "initsql"} /\ cur \in Cmds
  <2>1. CASE a \in Tasks
    <3>1. TaskTurn(a) /\ op[Ender].pc \notin {"reset", "initsql"}
      BY <1>1, <2>1, TaskHolds DEF TaskTurn, Engaged
    <3>2. \A u \in Tasks : ~Awaits(op[u])
      BY <1>1, <3>1 DEF TaskTurn, Alone, Awaits
    <3>3. cur \in Cmds
      BY <1>1, <3>1 DEF TaskTurn, HoldsCommand, HoldsResults, HoldsReader, Settled, Resting, More, Awaits
    <3>4. QED
      BY <3>1, <3>2, <3>3
  <2>2. CASE a = Ender
    <3>1. (IF op[Ender].kind = "reader" THEN EndReadsTurn ELSE EndTurn) /\ op[Ender].pc = "discard"
      BY <1>1, <2>2, EnderHolds DEF CallsOk
    <3>2. AllIdle(op) /\ cur \in Cmds
      BY <3>1 DEF EndReadsTurn, HoldsReader, EndTurn, HoldsEnd, Settled, Resting, More
    <3>3. QED
      BY <3>1, <3>2 DEF AllIdle, Awaits
  <2>3. QED
    BY <2>1, <2>2 DEF Actors
<1>3. rs[cur].prep => NoOks(wire)
  BY <1>1, <1>2 DEF PreparedInv, PreparedOpen
<1>4. Head(wire) = wire[1] /\ 1 \in 1 .. Len(wire)
  BY <1>1, TailFacts DEF ShapesOK
<1>5. QED
  BY <1>3, <1>4 DEF TakesOkForStmt, NoOks, NextPacket

LEMMA NextResponseUnfolds ==
    ASSUME NEW t \in Tasks, NextResponse(t), ~TakesOkForStmt
    PROVE  LET kind == NextPacket.kind
               s == StateAfter(kind)
           IN
           /\ op[t].pc = "response" /\ op[t].kind = "next" /\ conn = "open" /\ kind # "infile"
           /\ Consume /\ ReadFlags /\ UNCHANGED <<reader, stmts, ended, ncmd>>
           /\ kind \in Errors => ThrowSqlError(t) /\ UNCHANGED cur
           /\ kind \notin Errors =>
                 /\ SetState(s) /\ Return(t)
                 /\ rs' = IF s = "IDLE" THEN [rs EXCEPT ![cur] = Detached(rs[cur], op[t].stmt)] ELSE rs
                 /\ cur' = IF s = "IDLE" THEN None ELSE cur
<1>1. ~ResponseFails(t)
  BY DEF ResponseFails
<1>2. ResponseResultsets = rs /\ ResponseStates = {StateAfter(NextPacket.kind)}
  BY DEF ResponseResultsets, ResponseStates
<1>3. QED
  BY <1>1, <1>2 DEF NextResponse, ResponseRead, ResponseFlags, CanRead

LEMMA NextResponseInv ==
    ASSUME MutexInv, PreparedInv, NEW t \in Tasks, NextResponse(t)
    PROVE  MutexInv'
<1> DEFINE kind == NextPacket.kind
           s == StateAfter(kind)
<1>1. /\ op[t].pc = "response" /\ op[t].kind = "next" /\ conn = "open" /\ kind # "infile"
      /\ wire' = Tail(wire) /\ conn' = conn /\ UNCHANGED <<reader, stmts, ended, ncmd>>
      /\ kind \in Errors => ThrowSqlError(t) /\ UNCHANGED cur
      /\ kind \notin Errors =>
            /\ SetState(s) /\ Return(t)
            /\ rs' = IF s = "IDLE" THEN [rs EXCEPT ![cur] = Detached(rs[cur], op[t].stmt)] ELSE rs
            /\ cur' = IF s = "IDLE" THEN None ELSE cur
  <2>1. ~TakesOkForStmt
    BY EnderIsNoTask, NoOkForStmt DEF NextResponse
  <2>2. QED
    BY <2>1, NextResponseUnfolds DEF Consume
<1>2. /\ HoldsResults(op[t], cur, rs, wire, conn, lastReader)
      /\ ShapesOK /\ wire \in Seq(Packets) /\ rs \in [Cmds -> Resultsets]
      /\ cur \in Cmds /\ lastReader = None /\ Loose(rs) \subseteq {cur} /\ op[t].stmt \in BOOLEAN
      /\ Settled("HAS_MORE_RESULTSETS", cur, rs, wire, "open")
  BY <1>1, ResultsHold DEF HoldsResults, Position
<1>3. /\ wire # <<>>
      /\ kind \in {"ok", "okM", "cols", "err"}
      /\ kind = "err" => Tail(wire) = <<>>
      /\ kind # "err" => \/ s = "IDLE" /\ Tail(wire) = <<>>
                         \/ s \in More /\ Settled(s, cur, rs, Tail(wire), "open")
  <2>1. "HAS_MORE_RESULTSETS" \in More /\ After("HAS_MORE_RESULTSETS", kind) = s
    BY DEF More, After
  <2>2. /\ wire # <<>>
        /\ kind \in {"ok", "okM", "cols", "infile", "err"}
        /\ kind = "err" => Tail(wire) = <<>>
        /\ kind \notin {"err", "infile"} => LET s2 == After("HAS_MORE_RESULTSETS", kind) IN
              \/ s2 = "IDLE" /\ Tail(wire) = <<>>
              \/ s2 \in More /\ Settled(s2, cur, rs, Tail(wire), "open")
    <3>1. PacketOf("HAS_MORE_RESULTSETS", cur, rs, wire)
      BY <1>2, <2>1, SettledStep
    <3>2. QED
      BY <2>1, <3>1 DEF PacketOf, NextPacket
  <2> HIDE DEF kind, s
  <2>3. QED
    BY <1>1, <2>1, <2>2
<1>4. wire' \in Seq(Packets) /\ lastReader' = None /\ isReading' = isReading /\ colLeft' = colLeft
  BY <1>1, <1>2, <1>3, TailFacts DEF reader
<1>5. CASE kind = "err"
  <2>1. ThrowSqlError(t) /\ UNCHANGED cur
    BY <1>1, <1>5 DEF Errors
  <2>2. QED
    BY <1>1, <1>2, <1>3, <1>5, <2>1, SqlErrorInv
<1>6. CASE kind # "err"
  <2>1. kind \notin Errors
    BY <1>3, <1>6 DEF Errors
  <2>2. /\ SetState(s) /\ Return(t)
        /\ rs' = IF s = "IDLE" THEN [rs EXCEPT ![cur] = Detached(rs[cur], op[t].stmt)] ELSE rs
        /\ cur' = IF s = "IDLE" THEN None ELSE cur
    BY <1>1, <2>1
  <2> HIDE DEF s
  <2>3. s \in ProtocolState
    BY <1>3, <1>6 DEF ProtocolState, More
  <2>4. rs' \in [Cmds -> Resultsets] /\ Settled(s, cur', rs', wire', conn')
    <3>1. CASE s = "IDLE"
      <4> DEFINE res == Detached(rs[cur], op[t].stmt)
      <4>1. rs' = [rs EXCEPT ![cur] = res]
        BY <2>2, <3>1
      <4>2. [rs EXCEPT ![cur] = res] \in [Cmds -> Resultsets] /\ Loose([rs EXCEPT ![cur] = res]) = {}
        BY <1>2, DetachedFacts
      <4>3. wire' = <<>>
        BY <1>1, <1>3, <1>6, <3>1 DEF More
      <4>4. QED
        BY <3>1, <4>1, <4>2, <4>3 DEF Settled, Unread, Resting, More
    <3>2. CASE s # "IDLE"
      BY <1>1, <1>2, <1>3, <1>6, <2>2, <3>2
    <3>3. QED
      BY <3>1, <3>2
  <2>5. QED
    BY <1>1, <1>2, <1>4, <2>2, <2>3, <2>4, ResultsReturn
<1>7. QED
  BY <1>5, <1>6

LEMMA ReadRowInv ==
    ASSUME MutexInv, NEW t \in Tasks, ReadRow(t)
    PROVE  MutexInv'
<1> DEFINE kind == NextPacket.kind
           s == StateAfter(kind)
           call == op[t]
<1>1. /\ op[t].pc = "row" /\ conn = "open" /\ wire' = Tail(wire) /\ conn' = conn
      /\ UNCHANGED <<stmts, ended, ncmd>>
  BY DEF ReadRow, CanRead, Consume
<1>2. op[t].kind # "reader"
  BY <1>1, TaskHolds DEF TaskTurn, HoldsCommand, HoldsResults, HoldsReader, Commands
<1>3. /\ TaskTurn(t) /\ HoldsResults(op[t], cur, rs, wire, conn, lastReader)
      /\ ShapesOK /\ wire \in Seq(Packets) /\ rs \in [Cmds -> Resultsets] /\ op \in [Actors -> Calls]
      /\ cur \in Cmds /\ lastReader = None /\ Loose(rs) \subseteq {cur} /\ op[t].stmt \in BOOLEAN
      /\ call.r = cur
      /\ Settled("HAS_MORE_ROWS", cur, rs, wire, "open")
  BY <1>1, <1>2, ResultsHold DEF HoldsResults, Position, ShapesOK
<1>4. /\ wire # <<>>
      /\ kind \in {"row", "eof", "eofM", "err"}
      /\ kind = "err" => Tail(wire) = <<>>
      /\ kind = "row" => Settled("HAS_MORE_ROWS", cur, rs, Tail(wire), "open")
      /\ kind = "eof" => s = "IDLE" /\ Tail(wire) = <<>>
      /\ kind = "eofM" => s = "HAS_MORE_RESULTSETS" /\ Settled(s, cur, rs, Tail(wire), "open")
  <2>1. PacketOf("HAS_MORE_ROWS", cur, rs, wire)
    BY <1>3, SettledStep DEF More
  <2>2. QED
    BY <2>1, StateAfterFacts DEF PacketOf, NextPacket, After, More
<1>5. wire' \in Seq(Packets)
  BY <1>1, <1>3, <1>4, TailFacts
<1>6. CASE kind = "err"
  <2>1. ThrowSqlError(t) /\ UNCHANGED <<cur, reader>>
    BY <1>6 DEF ReadRow, Errors
  <2>2. QED
    BY <1>1, <1>3, <1>4, <1>6, <2>1, SqlErrorInv
<1>7. CASE kind = "eofM"
  <2>1. SetState(s) /\ Return(t) /\ UNCHANGED <<rs, cur, reader>>
    BY <1>7 DEF ReadRow, Errors
  <2>2. lastReader' = None /\ isReading' = isReading /\ colLeft' = colLeft
    BY <1>3, <2>1 DEF reader
  <2> HIDE DEF s
  <2>3. s \in ProtocolState /\ Settled(s, cur', rs', wire', conn')
    BY <1>1, <1>4, <1>7, <2>1 DEF ProtocolState
  <2>4. QED
    BY <1>1, <1>3, <1>5, <2>1, <2>2, <2>3, ResultsReturn
<1>8. CASE kind = "eof"
  <2> DEFINE res == Detached(rs[cur], call.stmt)
  <2>1. /\ SetState(s) /\ Return(t) /\ UNCHANGED reader
        /\ rs' = [rs EXCEPT ![cur] = res] /\ cur' = None
    BY <1>8 DEF ReadRow, Errors
  <2>2. [rs EXCEPT ![cur] = res] \in [Cmds -> Resultsets] /\ Loose([rs EXCEPT ![cur] = res]) = {}
    BY <1>3, DetachedFacts
  <2>3. lastReader' = None /\ isReading' = isReading /\ colLeft' = colLeft
    BY <1>3, <2>1 DEF reader
  <2> HIDE DEF s, res
  <2>4. s \in ProtocolState /\ Settled(s, cur', rs', wire', conn')
    BY <1>1, <1>4, <1>8, <2>1, <2>2 DEF ProtocolState, Settled, Unread, Resting, More
  <2>5. QED
    BY <1>1, <1>3, <1>5, <2>1, <2>2, <2>3, <2>4, ResultsReturn
<1>9. CASE kind = "row" /\ ~rs[call.r].reads
  <2>1. SetState("HAS_MORE_ROWS") /\ Return(t) /\ UNCHANGED <<rs, cur, reader>>
    BY <1>9 DEF ReadRow, Errors
  <2>2. lastReader' = None /\ isReading' = isReading /\ colLeft' = colLeft
    BY <1>3, <2>1 DEF reader
  <2>3. "HAS_MORE_ROWS" \in ProtocolState /\ Settled("HAS_MORE_ROWS", cur', rs', wire', conn')
    BY <1>1, <1>4, <1>9, <2>1 DEF ProtocolState
  <2>4. QED
    BY <1>1, <1>3, <1>5, <2>1, <2>2, <2>3, ResultsReturn
<1>10. CASE kind = "row" /\ rs[call.r].reads
  <2>1. /\ lastReader' = cur /\ isReading' = "NO" /\ colLeft' = ColLen
        /\ Return(t) /\ UNCHANGED <<state, ends, rs, cur>>
    BY <1>10 DEF ReadRow, Errors
  <2>2. op' = [op EXCEPT ![t] = NoCall]
    BY <2>1, EnderIsNoTask DEF Return
  <2>3. CallsOk' /\ op' \in [Actors -> Calls]
    BY <1>3, <2>2, CallsStep, CallTypes, EnderIsNoTask DEF MutexInv
  <2>4. \A a \in Actors : op'[a] = IF a = t THEN NoCall ELSE op[a]
    BY <1>3, <2>2
  <2>5. ShapesOK'
    BY <1>1, <1>3, <1>5, <2>1, <2>3, ConstantsAssumption DEF ShapesOK, ends, stmts
  <2>6. NoErrors(wire')
    BY <1>1, <1>3, <1>4, <1>10, TailTagged DEF Settled, Unread
  <2>7. GivenReader(cur', rs', wire', conn', lastReader', isReading')
    BY <1>1, <1>4, <1>10, <2>1, <2>6 DEF GivenReader
  <2>8. AllIdle(op') /\ Engaged(state', onEndSession', op'[Ender], ended')
    <3>1. AllIdle(op')
      BY <1>3, <2>4, CallTypes, EnderIsNoTask DEF TaskTurn, Alone, AllIdle
    <3>2. op'[Ender] = op[Ender] /\ UNCHANGED <<state, onEndSession, ended>>
      BY <1>1, <2>1, <2>4, EnderIsNoTask DEF ends
    <3>3. Engaged(state, onEndSession, op[Ender], ended)
      BY <1>3 DEF TaskTurn
    <3>4. QED
      BY <3>1, <3>2, <3>3
  <2>9. ReaderTurn'
    BY <2>7, <2>8 DEF ReaderTurn
  <2>10. QED
    BY <1>1, <2>3, <2>5, <2>9 DEF MutexInv, Turn
<1>11. QED
  BY <1>4, <1>6, <1>7, <1>8, <1>9, <1>10

\* The call of a reader, when it is with the program.
LEMMA ReaderCallFacts ==
    ASSUME ShapesOK, lastReader \in Cmds
    PROVE  /\ ReaderCall \in Calls /\ ReaderCall.kind = "reader" /\ ReaderCall.cmd = rs[lastReader].cmd
           /\ ReaderCall.pc = (IF colLeft = 0 THEN "discard" ELSE "chunk")
           /\ ReaderCall.st = "HAS_MORE_ROWS"
           /\ \A b \in BOOLEAN : LET call == [ReaderCall EXCEPT !.void = b] IN
                 /\ call \in Calls /\ call.kind = "reader" /\ call.cmd = rs[lastReader].cmd
                 /\ call.pc = ReaderCall.pc /\ call.st = "HAS_MORE_ROWS"
<1>1. rs[lastReader].cmd \in Cmds \cup {None} /\ rs[lastReader].stmt \in BOOLEAN
  BY DEF ShapesOK, Resultsets
<1>2. \A pc \in {"discard", "chunk"} :
         LET call == [NoCall EXCEPT !.kind = "reader", !.r = lastReader, !.cmd = rs[lastReader].cmd, !.pc = pc,
                                    !.st = "HAS_MORE_ROWS", !.stmt = rs[lastReader].stmt] IN
         /\ call \in Calls /\ call.kind = "reader" /\ call.cmd = rs[lastReader].cmd
         /\ call.pc = pc /\ call.st = "HAS_MORE_ROWS"
  BY <1>1, CallTypes, ZenonT(40) DEF Calls, ProtocolState
<1>3. /\ ReaderCall \in Calls /\ ReaderCall.kind = "reader" /\ ReaderCall.cmd = rs[lastReader].cmd
      /\ ReaderCall.pc = (IF colLeft = 0 THEN "discard" ELSE "chunk")
      /\ ReaderCall.st = "HAS_MORE_ROWS"
  <2> DEFINE pc == IF colLeft = 0 THEN "discard" ELSE "chunk"
  <2>1. pc \in {"discard", "chunk"}
    OBVIOUS
  <2>2. ReaderCall = [NoCall EXCEPT !.kind = "reader", !.r = lastReader, !.cmd = rs[lastReader].cmd, !.pc = pc,
                                    !.st = "HAS_MORE_ROWS", !.stmt = rs[lastReader].stmt]
    BY DEF ReaderCall
  <2> HIDE DEF pc
  <2>3. /\ ReaderCall \in Calls /\ ReaderCall.kind = "reader" /\ ReaderCall.cmd = rs[lastReader].cmd
        /\ ReaderCall.pc = pc /\ ReaderCall.st = "HAS_MORE_ROWS"
    BY <1>2, <2>1, <2>2
  <2>4. QED
    BY <2>3 DEF pc
<1>4. \A b \in BOOLEAN : LET call == [ReaderCall EXCEPT !.void = b] IN
         /\ call \in Calls /\ call.kind = "reader" /\ call.cmd = rs[lastReader].cmd
         /\ call.pc = ReaderCall.pc /\ call.st = "HAS_MORE_ROWS"
  <2> DEFINE c == ReaderCall
  <2>1. c \in Calls /\ c.kind = "reader" /\ c.cmd = rs[lastReader].cmd /\ c.st = "HAS_MORE_ROWS"
    BY <1>3
  <2> HIDE DEF c
  <2>2. \A b \in BOOLEAN : LET call == [c EXCEPT !.void = b] IN
         /\ call \in Calls /\ call.kind = "reader" /\ call.cmd = rs[lastReader].cmd
         /\ call.pc = c.pc /\ call.st = "HAS_MORE_ROWS"
    BY <2>1 DEF Calls
  <2>3. QED
    BY <2>2 DEF c
<1>5. QED
  BY <1>3, <1>4

-----------------------------------------------------------------------------
(* The reader of a last column.                                            *)

LEMMA ReaderGiven ==
    ASSUME MutexInv, conn # "closed", lastReader # None, isReading = "NO"
    PROVE  ReaderTurn /\ lastReader \in Cmds
<1>1. Turn
  BY DEF MutexInv
<1>2. \A t \in Tasks : ~TaskTurn(t)
  BY DEF TaskTurn, HoldsCommand, HoldsResults, HoldsReader
<1>3. ~ReadyTurn /\ ~ToldTurn /\ ~EndReadsTurn /\ ~EndTurn /\ ~OverTurn
  BY DEF ReadyTurn, ToldTurn, EndReadsTurn, HoldsReader, EndTurn, OverTurn
<1>4. ReaderTurn
  BY <1>1, <1>2, <1>3 DEF Turn
<1>5. lastReader \in Cmds
  BY <1>4 DEF ReaderTurn, GivenReader, Settled, Resting, More
<1>6. QED
  BY <1>4, <1>5

\* Of a task, or of end().
LEMMA ReaderHolds ==
    ASSUME MutexInv, NEW a \in Actors, conn # "closed", op[a].pc \notin {"idle", "wait"},
           op[a].kind = "reader" \/ op[a].pc = "chunk"
    PROVE  /\ HoldsReader(op[a], cur, rs, wire, conn, lastReader, isReading, colLeft)
           /\ Alone(op, a) /\ ended = "no" /\ cur \in Cmds /\ state \in {"QUERYING", "TERMINATED"}
           /\ IF a = Ender THEN onEndSession = "armed" /\ state = "TERMINATED"
              ELSE a \in Tasks /\ Engaged(state, onEndSession, op[Ender], ended)
<1>1. CASE a = Ender
  <2>1. op[Ender].kind = "reader"
    BY <1>1 DEF MutexInv, CallsOk
  <2>2. EndReadsTurn
    BY <1>1, <2>1, EnderHolds
  <2>3. QED
    BY <1>1, <2>2 DEF EndReadsTurn, AllIdle, Alone, HoldsReader, Settled, Resting, More
<1>2. CASE a # Ender
  <2>1. a \in Tasks /\ TaskTurn(a)
    BY <1>2, TaskHolds DEF Actors
  <2>2. HoldsReader(op[a], cur, rs, wire, conn, lastReader, isReading, colLeft)
    BY <2>1 DEF TaskTurn, HoldsCommand, HoldsResults, Commands
  <2>3. QED
    BY <1>2, <2>1, <2>2 DEF TaskTurn, Engaged, HoldsReader, Settled, Resting, More
<1>3. QED
  BY <1>1, <1>2

LEMMA ReaderGoesOn ==
    ASSUME MutexInv, NEW a \in Actors, conn # "closed", op[a].pc \notin {"idle", "wait"}, op[a].kind = "reader",
           NEW call \in Calls, Step(a, call), UNCHANGED <<state, ends, ended, isReading, stmts, ncmd, rs, cur, lastReader>>,
           HoldsReader(call, cur, rs, wire', conn, lastReader, isReading, colLeft'), colLeft' \in 0 .. ColLen,
           conn' = conn, wire' \in Seq(Packets), conn # "open" => wire' = <<>>
    PROVE  MutexInv'
<1>1. ShapesOK /\ CallsOk /\ op \in [Actors -> Calls]
  BY DEF MutexInv, ShapesOK
<1>2. op' = [op EXCEPT ![a] = call]
  BY DEF Step
<1>3. call.kind = "reader" /\ call.pc \in {"chunk", "discard"}
  BY DEF HoldsReader
<1>4. CallsOk' /\ op' \in [Actors -> Calls]
  BY <1>1, <1>2, <1>3, CallsStep
<1>5. ShapesOK'
  BY <1>1, <1>4 DEF ShapesOK, ends, stmts
<1>6. Turn'
  <2>1. /\ Alone(op, a) /\ ended = "no"
        /\ IF a = Ender THEN onEndSession = "armed" /\ state = "TERMINATED"
           ELSE a \in Tasks /\ Engaged(state, onEndSession, op[Ender], ended)
    BY ReaderHolds
  <2>2. CASE a = Ender
    <3>1. AllIdle(op') /\ op'[Ender] = call
      BY <1>1, <1>2, <2>1, <2>2, EnderIsNoTask DEF Alone, AllIdle
    <3>2. EndReadsTurn'
      BY <2>1, <2>2, <3>1 DEF EndReadsTurn, ends
    <3>3. QED
      BY <3>2 DEF Turn
  <2>3. CASE a # Ender
    BY <1>1, <1>2, <2>1, <2>3, Continues
  <2>4. QED
    BY <2>2, <2>3
<1>7. QED
  BY <1>4, <1>5, <1>6 DEF MutexInv

LEMMA ReadInv ==
    ASSUME MutexInv, NEW t \in Tasks, Read(t)
    PROVE  MutexInv'
<1>1. /\ op[t].pc = "idle" /\ lastReader # None /\ isReading = "NO"
      /\ isReading' \in {"YES", "YES_BY_END_SESSION"}
      /\ op' = [op EXCEPT ![t] = ReaderCall]
      /\ UNCHANGED <<state, ends, cur, lastReader, colLeft, stmts, rs, ended, conn, wire, ncmd>>
  BY DEF Read, Step
<1>2. ShapesOK /\ CallsOk /\ op \in [Actors -> Calls] /\ lastReader \in Cmds /\ (conn # "open" => wire = <<>>)
  BY <1>1 DEF MutexInv, ShapesOK
<1>3. /\ ReaderCall \in Calls /\ ReaderCall.kind = "reader" /\ ReaderCall.cmd = rs[lastReader].cmd
      /\ ReaderCall.pc = (IF colLeft = 0 THEN "discard" ELSE "chunk")
      /\ ReaderCall.st = "HAS_MORE_ROWS"
  BY <1>2, ReaderCallFacts
<1> DEFINE call == ReaderCall
<1> HIDE DEF call
<1>4. call = ReaderCall
  BY DEF call
<1>5. CallsOk' /\ op' \in [Actors -> Calls] /\ \A b \in Actors : op'[b] = IF b = t THEN call ELSE op[b]
  <2>1. op' = [op EXCEPT ![t] = call]
    BY <1>1, <1>4
  <2>2. QED
    BY <1>2, <1>3, <1>4, <2>1, CallsStep, EnderIsNoTask
<1>6. ShapesOK'
  BY <1>1, <1>2, <1>5 DEF ShapesOK, ends, stmts
<1>7. CASE conn = "closed"
  <2>1. Closed
    BY <1>7 DEF MutexInv
  <2>2. Closed'
    BY <1>1, <1>3, <1>4, <1>5, <2>1, EnderIsNoTask DEF Closed
  <2>3. QED
    BY <1>1, <1>2, <1>5, <1>6, <1>7, <2>2 DEF MutexInv
<1>8. CASE conn # "closed"
  <2>1. ReaderTurn
    BY <1>1, <1>8, ReaderGiven
  <2>2. colLeft \in Nat
    BY <1>2, ConstantsAssumption DEF ShapesOK
  <2>3. HoldsReader(call, cur', rs', wire', conn', lastReader', isReading', colLeft')
    BY <1>1, <1>3, <1>4, <2>1, <2>2 DEF ReaderTurn, GivenReader, HoldsReader, More
  <2>4. Alone(op, t) /\ Engaged(state', onEndSession, op[Ender], ended)
    BY <1>1, <2>1 DEF ReaderTurn, AllIdle, Alone
  <2>5. Turn'
    BY <1>1, <1>2, <1>4, <2>3, <2>4, Continues
  <2>6. QED
    BY <1>1, <1>2, <1>5, <1>6, <1>8, <2>5 DEF MutexInv
<1>9. QED
  BY <1>7, <1>8

LEMMA ReadChunkInv ==
    ASSUME MutexInv, NEW a \in Actors, ReadChunk(a)
    PROVE  MutexInv'
<1>1. /\ op[a].pc = "chunk" /\ conn = "open" /\ colLeft' = colLeft - 1
      /\ UNCHANGED <<state, ends, cur, lastReader, stmts, rs, ended, conn, wire, ncmd>>
  BY DEF ReadChunk
<1>2. ShapesOK /\ CallsOk /\ op \in [Actors -> Calls] /\ op[a] \in Calls /\ wire \in Seq(Packets)
  BY DEF MutexInv, ShapesOK
<1>3. /\ HoldsReader(op[a], cur, rs, wire, conn, lastReader, isReading, colLeft)
      /\ Alone(op, a) /\ ended = "no"
      /\ IF a = Ender THEN onEndSession = "armed" /\ state = "TERMINATED"
         ELSE a \in Tasks /\ Engaged(state, onEndSession, op[Ender], ended)
  BY <1>1, ReaderHolds
<1>4. colLeft \in Nat /\ colLeft > 0 /\ colLeft' \in 0 .. ColLen
  BY <1>1, <1>2, <1>3, ConstantsAssumption DEF ShapesOK, HoldsReader
<1>5. CASE onEndSession = "no"
  <2>1. a \in Tasks /\ a # Ender
    BY <1>3, <1>5
  <2>2. op' = [op EXCEPT ![a] = NoCall] /\ isReading' = "NO"
    BY <1>5, <2>1 DEF ReadChunk, Return
  <2>3. CallsOk' /\ op' \in [Actors -> Calls] /\ \A b \in Actors : op'[b] = IF b = a THEN NoCall ELSE op[b]
    BY <1>2, <2>1, <2>2, CallsStep, CallTypes
  <2>4. ShapesOK'
    BY <1>1, <1>2, <1>4, <2>2, <2>3 DEF ShapesOK, ends, stmts
  <2>5. AllIdle(op')
    BY <1>3, <2>1, <2>3, CallTypes, EnderIsNoTask DEF Alone, AllIdle
  <2>6. op'[Ender] = op[Ender] /\ UNCHANGED <<state, onEndSession, ended>>
    BY <1>1, <2>1, <2>3, EnderIsNoTask DEF ends
  <2>7. Engaged(state', onEndSession', op'[Ender], ended')
    BY <1>3, <2>1, <2>6
  <2>8. GivenReader(cur', rs', wire', conn', lastReader', isReading')
    BY <1>1, <1>3, <2>2 DEF GivenReader, HoldsReader
  <2>9. ReaderTurn'
    BY <2>5, <2>7, <2>8 DEF ReaderTurn
  <2>10. QED
    BY <1>1, <2>3, <2>4, <2>9 DEF MutexInv, Turn
<1>6. CASE onEndSession # "no"
  <2> DEFINE pc == IF colLeft = 1 THEN "discard" ELSE "chunk"
             new == [op[a] EXCEPT !.pc = pc]
  <2>1. Step(a, new) /\ UNCHANGED isReading
    BY <1>6 DEF ReadChunk
  <2>2. pc \in {"discard", "chunk"} /\ (pc = "chunk" => colLeft' > 0)
    BY <1>1, <1>4
  <2> HIDE DEF pc
  <2>3. /\ new \in Calls /\ new.kind = op[a].kind /\ new.cmd = op[a].cmd /\ new.st = op[a].st /\ new.pc = pc
    BY <1>2, <2>2 DEF Calls
  <2> HIDE DEF new
  <2>4. HoldsReader(new, cur, rs, wire', conn, lastReader, isReading, colLeft')
    BY <1>1, <1>3, <2>2, <2>3 DEF HoldsReader
  <2>5. op[a].kind = "reader"
    BY <1>3 DEF HoldsReader
  <2>6. QED
    BY <1>1, <1>2, <1>4, <2>1, <2>3, <2>4, <2>5, ReaderGoesOn
<1>7. QED
  BY <1>5, <1>6

-----------------------------------------------------------------------------
(* #doDiscard().                                                           *)

DiscardState(st, kind, prep) ==
    IF st = "HAS_MORE_ROWS" /\ ~EndsRows(kind, prep) THEN "HAS_MORE_ROWS" ELSE StateAfter(kind)

DiscardOf(st, c, R, w, prep) ==
    LET s == DiscardState(st, Head(w).kind, prep) IN
    /\ w # <<>> /\ Tail(w) \in Seq(Packets) /\ c \in Cmds /\ Loose(R) \subseteq {c} /\ s \in ProtocolState
    /\ Head(w).kind \in Errors => Tail(w) = <<>>
    /\ Head(w).kind \notin Errors => \/ s = "IDLE" /\ Tail(w) = <<>>
                                     \/ s \in More /\ Settled(s, c, R, Tail(w), "open")

LEMMA DiscardFacts ==
    ASSUME NEW st \in More, NEW c, NEW R, NEW w \in Seq(Packets), Settled(st, c, R, w, "open"), NEW prep,
           st = "HAS_MORE_RESULTSETS" => Head(w).kind # "infile"
    PROVE  DiscardOf(st, c, R, w, prep)
<1> DEFINE kind == Head(w).kind
           s == DiscardState(st, kind, prep)
<1>1. /\ w # <<>> /\ c \in Cmds /\ Loose(R) \subseteq {c}
      /\ st = "HAS_MORE_ROWS" => kind \in {"row", "eof", "eofM", "err"}
      /\ st = "HAS_MORE_RESULTSETS" => kind \in {"ok", "okM", "cols", "infile", "err"}
      /\ kind = "err" => Tail(w) = <<>>
      /\ kind \notin {"err", "infile"} => LET s2 == After(st, kind) IN
            \/ s2 = "IDLE" /\ Tail(w) = <<>>
            \/ s2 \in More /\ Settled(s2, c, R, Tail(w), "open")
  <2>1. PacketOf(st, c, R, w)
    BY SettledStep
  <2>2. QED
    BY <2>1 DEF PacketOf
<1>2. Tail(w) \in Seq(Packets)
  BY <1>1, TailFacts
<1> HIDE DEF kind
<1>3. kind \in {"row", "eof", "eofM", "ok", "okM", "cols", "err"}
  BY <1>1 DEF More, kind
<1>4. kind \notin {"err", "infile"} => s = After(st, kind)
  BY <1>1 DEF DiscardState, After, EndsRows, More
<1>5. s \in ProtocolState
  BY DEF DiscardState, StateAfter, ProtocolState
<1> HIDE DEF s
<1>6. kind \in Errors <=> kind = "err"
  BY <1>3 DEF Errors
<1>7. kind \in Errors => Tail(w) = <<>>
  BY <1>1, <1>6
<1>8. kind \notin Errors => \/ s = "IDLE" /\ Tail(w) = <<>>
                            \/ s \in More /\ Settled(s, c, R, Tail(w), "open")
  <2>1. kind \notin {"err", "infile"} => \/ s = "IDLE" /\ Tail(w) = <<>>
                                         \/ s \in More /\ Settled(s, c, R, Tail(w), "open")
    BY <1>1, <1>4
  <2>2. kind \notin Errors => kind \notin {"err", "infile"}
    BY <1>3, <1>6
  <2>3. QED
    BY <2>1, <2>2, Zenon
<1>9. QED
  BY <1>1, <1>2, <1>5, <1>7, <1>8 DEF DiscardOf, kind, s

\* When no OK packet is taken for another, a packet is read and #doDiscard() goes on or ends.
LEMMA DiscardUnfolds ==
    ASSUME NEW a \in Actors, Discard(a), ~TakesOkForStmt
    PROVE  LET kind == NextPacket.kind
               s == DiscardState(op[a].st, kind, rs[cur].prep)
               goesOn == s = "HAS_MORE_ROWS" \/ (s = "HAS_MORE_RESULTSETS" /\ op[a].kind # "next")
           IN
           /\ op[a].pc = "discard" /\ conn = "open" /\ cur # None /\ UNCHANGED <<stmts, ended, ncmd>> /\ ReadFlags
           /\ op[a].st = "HAS_MORE_RESULTSETS" => kind # "infile"
           /\ \/ kind \in Errors /\ Consume /\ DiscardThrows(a)
              \/ /\ kind \notin Errors /\ goesOn
                 /\ Consume
                 /\ Step(a, [op[a] EXCEPT !.st = s])
                 /\ UNCHANGED <<state, ends, cur, reader, rs>>
              \/ kind \notin Errors /\ ~goesOn /\ Discarded(a, s, rs, Consume)
<1> DEFINE kind == NextPacket.kind
           rows == op[a].st = "HAS_MORE_ROWS"
           s == DiscardState(op[a].st, kind, rs[cur].prep)
<1>1. ~ResponseFails(a)
  BY DEF ResponseFails
<1>2. ResponseResultsets = rs /\ ResponseStates = {StateAfter(kind)}
  BY DEF ResponseResultsets, ResponseStates
<1>3. /\ op[a].pc = "discard" /\ conn = "open" /\ cur # None /\ UNCHANGED <<stmts, ended, ncmd>> /\ ReadFlags
      /\ rows \/ kind # "infile"
  BY DEF Discard, CanRead, ResponseFlags
<1>4. s = IF rows THEN (IF EndsRows(kind, rs[cur].prep) THEN StateAfter(kind) ELSE "HAS_MORE_ROWS") ELSE StateAfter(kind)
  BY DEF DiscardState
<1>5. (kind \in Errors /\ Consume /\ DiscardThrows(a)) \/ (kind \notin Errors /\ DiscardGoesOn(a, s, rs, Consume))
  <2>1. CASE kind \in Errors
    BY <1>1, <2>1 DEF Discard
  <2>2. CASE kind \notin Errors /\ rows
    BY <1>4, <2>2 DEF Discard, DiscardGoesOn
  <2>3. CASE kind \notin Errors /\ ~rows
    <3>1. \E x \in ResponseStates : DiscardGoesOn(a, x, ResponseResultsets, ResponseRead)
      BY <1>1, <2>3 DEF Discard
    <3>2. DiscardGoesOn(a, StateAfter(kind), ResponseResultsets, ResponseRead)
      BY <1>2, <3>1
    <3>3. DiscardGoesOn(a, StateAfter(kind), rs, Consume)
      BY <1>2, <3>2 DEF DiscardGoesOn, Discarded, ResponseRead
    <3>4. QED
      BY <1>4, <2>3, <3>3
  <2>4. QED
    BY <2>1, <2>2, <2>3
<1> HIDE DEF s
<1>6. DiscardGoesOn(a, s, rs, Consume) =>
         IF s = "HAS_MORE_ROWS" \/ (s = "HAS_MORE_RESULTSETS" /\ op[a].kind # "next")
         THEN Consume /\ Step(a, [op[a] EXCEPT !.st = s]) /\ UNCHANGED <<state, ends, cur, reader, rs>>
         ELSE Discarded(a, s, rs, Consume)
  BY DEF DiscardGoesOn
<1>7. op[a].st = "HAS_MORE_RESULTSETS" => ~rows
  OBVIOUS
<1> HIDE DEF kind, rows
<1>8. QED
  BY <1>3, <1>5, <1>6, <1>7 DEF kind, s

\* By a query whose rows nobody wants, or by nextResultset().
LEMMA DiscardResultsInv ==
    ASSUME MutexInv, PreparedInv, NEW t \in Tasks, Discard(t), op[t].kind # "reader"
    PROVE  MutexInv'
<1> DEFINE call == op[t]
           kind == NextPacket.kind
           s == DiscardState(call.st, kind, rs[cur].prep)
           goesOn == s = "HAS_MORE_ROWS" \/ (s = "HAS_MORE_RESULTSETS" /\ call.kind # "next")
           res == Detached(rs[cur], call.stmt)
<1>1. /\ call.pc = "discard" /\ conn = "open" /\ UNCHANGED <<stmts, ended, ncmd>>
      /\ call.st = "HAS_MORE_RESULTSETS" => kind # "infile"
      /\ \/ kind \in Errors /\ Consume /\ DiscardThrows(t)
         \/ /\ kind \notin Errors /\ goesOn
            /\ Consume
            /\ Step(t, [call EXCEPT !.st = s])
            /\ UNCHANGED <<state, ends, cur, reader, rs>>
         \/ kind \notin Errors /\ ~goesOn /\ Discarded(t, s, rs, Consume)
  <2>1. ~TakesOkForStmt
    BY EnderIsNoTask, NoOkForStmt DEF Discard
  <2>2. QED
    BY <2>1, EnderIsNoTask, DiscardUnfolds
<1>2. /\ TaskTurn(t) /\ HoldsResults(call, cur, rs, wire, conn, lastReader)
      /\ ShapesOK /\ call \in Calls /\ wire \in Seq(Packets) /\ rs \in [Cmds -> Resultsets] /\ op \in [Actors -> Calls]
      /\ cur \in Cmds /\ call.r = cur /\ call.cmd = rs[cur].cmd /\ lastReader = None
      /\ call.st \in More /\ Settled(call.st, cur, rs, wire, "open")
      /\ Loose(rs) \subseteq {cur} /\ call.stmt \in BOOLEAN
  BY <1>1, ResultsHold DEF Position, ShapesOK
<1>3. call.kind \in {"query", "three", "next"} /\ (call.kind = "query" => ~call.err)
  BY <1>1, <1>2 DEF HoldsResults
<1>4. /\ wire # <<>> /\ Tail(wire) \in Seq(Packets) /\ s \in ProtocolState
      /\ kind \in Errors => Tail(wire) = <<>>
      /\ kind \notin Errors => \/ s = "IDLE" /\ Tail(wire) = <<>>
                               \/ s \in More /\ Settled(s, cur, rs, Tail(wire), "open")
  <2>1. DiscardOf(call.st, cur, rs, wire, rs[cur].prep)
    BY <1>1, <1>2, DiscardFacts DEF NextPacket
  <2>2. QED
    BY <2>1 DEF DiscardOf, NextPacket
<1>5. /\ res \in Resultsets /\ [rs EXCEPT ![cur] = res] \in [Cmds -> Resultsets]
      /\ Loose([rs EXCEPT ![cur] = res]) = {} /\ [rs EXCEPT ![cur] = res][cur] = res
  BY <1>2, DetachedFacts
<1> HIDE DEF kind, s, res
<1>6. CASE kind \in Errors
  <2>1. ThrowSqlError(t) /\ UNCHANGED <<cur, reader>> /\ Consume
    BY <1>1, <1>3, <1>6 DEF DiscardThrows
  <2>2. QED
    BY <1>1, <1>2, <1>4, <1>6, <2>1, SqlErrorInv DEF Consume
<1>7. CASE kind \notin Errors /\ goesOn
  <2> DEFINE new == [call EXCEPT !.st = s]
  <2>1. Consume /\ op' = [op EXCEPT ![t] = new] /\ UNCHANGED <<state, ends, cur, reader, rs>>
    BY <1>1, <1>7 DEF Step
  <2>2. /\ new \in Calls /\ new.pc = "discard" /\ new.st = s /\ new.r = call.r /\ new.kind = call.kind
        /\ new.cmd = call.cmd /\ new.err = call.err
    BY <1>1, <1>2, <1>4 DEF Calls
  <2> HIDE DEF new
  <2>3. CallsOk' /\ op' \in [Actors -> Calls]
    BY <1>2, <1>3, <2>1, <2>2, CallsStep, EnderIsNoTask DEF MutexInv
  <2>4. ShapesOK'
    BY <1>1, <1>2, <1>4, <2>1, <2>3 DEF ShapesOK, ends, reader, stmts, Consume
  <2>5. s \in More /\ Settled(s, cur, rs, Tail(wire), "open")
    BY <1>4, <1>7
  <2>6. HoldsResults(new, cur', rs', wire', conn', lastReader')
    BY <1>1, <1>2, <1>3, <2>1, <2>2, <2>5 DEF HoldsResults, Position, Consume, reader
  <2>7. Turn'
    BY <1>1, <1>2, <2>1, <2>6, Continues DEF TaskTurn
  <2>8. QED
    BY <1>1, <2>1, <2>3, <2>4, <2>7 DEF MutexInv, Consume
<1>8. CASE kind \notin Errors /\ ~goesOn /\ s # "IDLE"
  <2> DEFINE new == [call EXCEPT !.pc = "response", !.st = s, !.stmt = rs[cur].stmt]
  <2>1. s = "HAS_MORE_RESULTSETS" /\ call.kind = "next" /\ Settled(s, cur, rs, Tail(wire), "open")
    BY <1>4, <1>8 DEF More
  <2>2. state' = "QUERYING" /\ op' = [op EXCEPT ![t] = new] /\ Consume /\ UNCHANGED <<ends, cur, rs, reader>>
    BY <1>1, <1>8, <2>1 DEF Discarded, Step
  <2>3. rs[cur].stmt \in BOOLEAN
    BY <1>2 DEF Resultsets
  <2>4. /\ new \in Calls /\ new.pc = "response" /\ new.st = s /\ new.r = call.r /\ new.kind = call.kind
        /\ new.cmd = call.cmd
    BY <1>2, <1>4, <2>3 DEF Calls
  <2> HIDE DEF new
  <2>5. CallsOk' /\ op' \in [Actors -> Calls]
    BY <1>2, <1>3, <2>2, <2>4, CallsStep, EnderIsNoTask DEF MutexInv
  <2>6. ShapesOK'
    BY <1>1, <1>2, <1>4, <2>2, <2>5 DEF ShapesOK, ends, reader, stmts, Consume, ProtocolState
  <2>7. HoldsResults(new, cur', rs', wire', conn', lastReader')
    BY <1>1, <1>2, <2>1, <2>2, <2>4 DEF HoldsResults, Position, Consume, reader, More
  <2>8. Alone(op, t) /\ Engaged(state', onEndSession, op[Ender], ended)
    BY <1>2, <2>2 DEF TaskTurn, Engaged
  <2>9. Turn'
    BY <1>1, <1>2, <2>2, <2>7, <2>8, Continues
  <2>10. QED
    BY <1>1, <2>2, <2>5, <2>6, <2>9 DEF MutexInv, Consume
<1>9. CASE kind \notin Errors /\ s = "IDLE"
  <2>1. ~goesOn /\ Tail(wire) = <<>>
    BY <1>4, <1>9 DEF More
  <2>2. Discarded(t, s, rs, Consume)
    BY <1>1, <1>9, <2>1
  <2>3. CASE call.kind = "next"
    <3>1. /\ SetState(s) /\ rs' = [rs EXCEPT ![cur] = res] /\ cur' = None /\ Return(t) /\ Consume
          /\ UNCHANGED reader
      BY <1>9, <2>2, <2>3 DEF Discarded, res
    <3>2. Settled(s, cur', rs', wire', conn')
      BY <1>5, <1>9, <2>1, <3>1 DEF Settled, Unread, Resting, More, Consume
    <3>3. /\ lastReader' = None /\ isReading' = isReading /\ colLeft' = colLeft /\ cur' \in Cmds \cup {None}
          /\ conn' = conn /\ wire' \in Seq(Packets) /\ rs' \in [Cmds -> Resultsets]
      BY <1>2, <1>4, <1>5, <3>1 DEF reader, Consume
    <3>4. QED
      BY <1>1, <1>4, <3>1, <3>2, <3>3, ResultsReturn
  <2>4. CASE call.kind # "next"
    <3>1. /\ QueryDone(t, cur, [rs EXCEPT ![cur] = res][cur], s) /\ cur' = None /\ Consume /\ UNCHANGED reader
      BY <1>3, <2>2, <2>4 DEF Discarded, res
    <3>2. QueryDone(t, cur, res, s)
      BY <1>5, <3>1
    <3>3. Settled(s, cur', [rs EXCEPT ![cur] = res], wire', conn')
      BY <1>5, <1>9, <2>1, <3>1 DEF Settled, Unread, Resting, More, Consume
    <3>4. lastReader' = None /\ conn' = conn /\ wire' \in Seq(Packets)
      BY <1>2, <1>4, <3>1 DEF reader, Consume
    <3>5. /\ Turn' /\ CallsOk' /\ op' \in [Actors -> Calls] /\ rs' \in [Cmds -> Resultsets]
          /\ state' \in ProtocolState /\ endState' \in ProtocolState /\ onEndSession' \in {"no", "armed", "resolved"}
      BY <1>1, <1>2, <1>4, <1>5, <1>9, <3>2, <3>3, <3>4, QueryReturns
    <3>6. ShapesOK'
      BY <1>1, <1>2, <3>1, <3>4, <3>5 DEF ShapesOK, reader, stmts
    <3>7. QED
      BY <1>1, <3>4, <3>5, <3>6 DEF MutexInv
  <2>5. QED
    BY <2>3, <2>4
<1>10. QED
  BY <1>6, <1>7, <1>8, <1>9

LEMMA ReturnFacts ==
    ASSUME ShapesOK, CallsOk, NEW a \in Actors, Return(a)
    PROVE  /\ op' \in [Actors -> Calls] /\ CallsOk'
           /\ \A b \in Actors \ {a} : op'[b] = op[b]
           /\ op'[a].pc = IF a = Ender THEN "wait" ELSE "idle"
<1>1. op \in [Actors -> Calls] /\ op[a].void \in BOOLEAN
  BY DEF ShapesOK, Calls
<1>2. PICK call \in Calls : /\ op' = [op EXCEPT ![a] = call]
                            /\ a # Ender => call.pc = "idle" /\ call.kind = "none"
                            /\ a = Ender => call.pc = "wait" /\ call.kind = "end"
  <2>1. CASE a = Ender
    BY <1>1, <2>1, CallTypes DEF Return
  <2>2. CASE a # Ender
    BY <2>2, CallTypes DEF Return
  <2>3. QED
    BY <2>1, <2>2
<1>3. CallsOk'
  BY <1>1, <1>2, CallsStep
<1>4. QED
  BY <1>1, <1>2, <1>3

\* What the reader of a last column, or end(), finds.
LEMMA DiscardReaderInv ==
    ASSUME MutexInv, PreparedInv, NEW a \in Actors, Discard(a), op[a].kind = "reader"
    PROVE  MutexInv'
<1> DEFINE call == op[a]
           kind == NextPacket.kind
           s == DiscardState(call.st, kind, rs[cur].prep)
           goesOn == s = "HAS_MORE_ROWS" \/ (s = "HAS_MORE_RESULTSETS" /\ call.kind # "next")
           res == Detached(rs[cur], call.stmt)
<1>1. /\ call.pc = "discard" /\ conn = "open" /\ UNCHANGED <<stmts, ended, ncmd>>
      /\ call.st = "HAS_MORE_RESULTSETS" => kind # "infile"
      /\ \/ kind \in Errors /\ Consume /\ DiscardThrows(a)
         \/ /\ kind \notin Errors /\ goesOn
            /\ Consume
            /\ Step(a, [call EXCEPT !.st = s])
            /\ UNCHANGED <<state, ends, cur, reader, rs>>
         \/ kind \notin Errors /\ ~goesOn /\ Discarded(a, s, rs, Consume)
  <2>1. ~TakesOkForStmt
    BY EnderIsNoTask, NoOkForStmt DEF Discard
  <2>2. QED
    BY <2>1, EnderIsNoTask, DiscardUnfolds
<1>2. /\ ShapesOK /\ CallsOk /\ call \in Calls /\ wire \in Seq(Packets) /\ rs \in [Cmds -> Resultsets]
      /\ op \in [Actors -> Calls] /\ call.stmt \in BOOLEAN
  BY DEF MutexInv, ShapesOK, Calls
<1>3. /\ HoldsReader(call, cur, rs, wire, conn, lastReader, isReading, colLeft)
      /\ Alone(op, a) /\ ended = "no" /\ cur \in Cmds /\ state \in {"QUERYING", "TERMINATED"}
      /\ IF a = Ender THEN onEndSession = "armed" /\ state = "TERMINATED"
         ELSE a \in Tasks /\ Engaged(state, onEndSession, op[Ender], ended)
  BY <1>1, ReaderHolds
<1>4. call.st \in More /\ Settled(call.st, cur, rs, wire, "open") /\ NoErrors(wire) /\ call.cmd = rs[cur].cmd
  BY <1>1, <1>3 DEF HoldsReader
<1>5. /\ wire # <<>> /\ Tail(wire) \in Seq(Packets) /\ s \in ProtocolState /\ Loose(rs) \subseteq {cur}
      /\ kind \notin Errors => \/ s = "IDLE" /\ Tail(wire) = <<>>
                               \/ s \in More /\ Settled(s, cur, rs, Tail(wire), "open")
  <2>1. DiscardOf(call.st, cur, rs, wire, rs[cur].prep)
    BY <1>1, <1>2, <1>4, DiscardFacts DEF NextPacket
  <2>2. QED
    BY <2>1 DEF DiscardOf, NextPacket
<1>6. kind \notin Errors /\ NoErrors(Tail(wire))
  BY <1>2, <1>4, <1>5, TailTagged DEF NextPacket
<1>7. /\ res \in Resultsets /\ [rs EXCEPT ![cur] = res] \in [Cmds -> Resultsets]
      /\ Loose([rs EXCEPT ![cur] = res]) = {}
  BY <1>2, <1>3, <1>5, DetachedFacts
<1> HIDE DEF kind, s, res
<1>8. CASE goesOn
  <2> DEFINE new == [call EXCEPT !.st = s]
  <2>1. Consume /\ Step(a, new) /\ UNCHANGED <<state, ends, cur, reader, rs>>
    BY <1>1, <1>6, <1>8
  <2>2. new \in Calls /\ new.pc = "discard" /\ new.st = s /\ new.kind = "reader" /\ new.cmd = call.cmd
    BY <1>1, <1>2, <1>5 DEF Calls
  <2> HIDE DEF new
  <2>3. s \in More /\ Settled(s, cur, rs, Tail(wire), "open")
    BY <1>5, <1>6, <1>8
  <2>4. HoldsReader(new, cur, rs, wire', conn, lastReader, isReading, colLeft')
    BY <1>1, <1>3, <1>6, <2>1, <2>2, <2>3 DEF HoldsReader, Consume
  <2>5. colLeft' \in 0 .. ColLen /\ UNCHANGED <<isReading, lastReader>>
    BY <1>2, <2>1 DEF reader, ShapesOK
  <2>6. QED
    BY <1>1, <1>5, <2>1, <2>2, <2>4, <2>5, ReaderGoesOn DEF Consume
<1>9. CASE ~goesOn
  <2>1. s = "IDLE" /\ Tail(wire) = <<>>
    BY <1>5, <1>6, <1>9 DEF More
  <2>2. /\ SetState(s) /\ rs' = [rs EXCEPT ![cur] = res] /\ cur' = None
        /\ lastReader' = None /\ isReading' = "NO" /\ colLeft' = colLeft /\ Return(a)
        /\ IF onEndSession = "no" THEN Consume ELSE CloseConn
    BY <1>1, <1>6, <1>9 DEF Discarded, res
  <2>3. CASE onEndSession = "no"
    <3>1. a \in Tasks
      BY <1>3, <2>3
    <3>2. Settled(s, cur', rs', wire', conn')
      BY <1>7, <2>1, <2>2, <2>3 DEF Settled, Unread, Resting, More, Consume
    <3>3. /\ lastReader' = None /\ isReading' \in {isReading, "NO"} /\ colLeft' = colLeft /\ cur' \in Cmds \cup {None}
          /\ conn' = conn /\ wire' \in Seq(Packets) /\ rs' \in [Cmds -> Resultsets]
      BY <1>5, <1>7, <2>2, <2>3 DEF Consume
    <3>4. QED
      BY <1>1, <1>5, <2>2, <3>1, <3>2, <3>3, ResultsReturn
  <2>4. CASE onEndSession # "no"
    <3>1. conn' = "closed" /\ wire' = <<>> /\ state' = state
      BY <2>2, <2>4 DEF CloseConn, SetState
    <3>2. state' \in ProtocolState /\ endState' \in ProtocolState /\ onEndSession' \in {"no", "armed", "resolved"}
      BY <1>2, <1>5, <2>2, SetStateType DEF ShapesOK
    <3>3. /\ op' \in [Actors -> Calls] /\ CallsOk'
          /\ \A b \in Actors \ {a} : op'[b] = op[b]
          /\ op'[a].pc = IF a = Ender THEN "wait" ELSE "idle"
      BY <1>2, <2>2, ReturnFacts
    <3>4. ShapesOK'
      BY <1>1, <1>2, <1>7, <2>2, <3>1, <3>2, <3>3 DEF ShapesOK, stmts
    <3>5. \A t \in Tasks : op'[t].pc = "idle"
      BY <1>3, <3>3, EnderIsNoTask DEF Alone
    <3>6. Closed'
      BY <1>1, <1>3, <3>1, <3>5 DEF Closed, More
    <3>7. QED
      BY <3>1, <3>3, <3>4, <3>6 DEF MutexInv
  <2>5. QED
    BY <2>3, <2>4
<1>10. QED
  BY <1>8, <1>9

LEMMA DiscardEndInv ==
    ASSUME MutexInv, PreparedInv, Discard(Ender), op[Ender].kind = "end"
    PROVE  MutexInv'
<1> DEFINE call == op[Ender]
           kind == NextPacket.kind
           s == DiscardState(call.st, kind, rs[cur].prep)
           goesOn == s = "HAS_MORE_ROWS" \/ (s = "HAS_MORE_RESULTSETS" /\ call.kind # "next")
           res == Detached(rs[cur], call.stmt)
<1>1. /\ call.pc = "discard" /\ conn = "open" /\ UNCHANGED <<stmts, ended, ncmd>>
      /\ call.st = "HAS_MORE_RESULTSETS" => kind # "infile"
      /\ \/ kind \in Errors /\ Consume /\ DiscardThrows(Ender)
         \/ /\ kind \notin Errors /\ goesOn
            /\ Consume
            /\ Step(Ender, [call EXCEPT !.st = s])
            /\ UNCHANGED <<state, ends, cur, reader, rs>>
         \/ kind \notin Errors /\ ~goesOn /\ Discarded(Ender, s, rs, Consume)
  <2>1. ~TakesOkForStmt
    BY EnderIsNoTask, NoOkForStmt DEF Discard
  <2>2. QED
    BY <2>1, EnderIsNoTask, DiscardUnfolds
<1>2. /\ ShapesOK /\ CallsOk /\ call \in Calls /\ wire \in Seq(Packets) /\ rs \in [Cmds -> Resultsets]
      /\ op \in [Actors -> Calls] /\ call.stmt \in BOOLEAN
  BY EnderIsNoTask DEF MutexInv, ShapesOK, Calls
<1>3. EndTurn
  BY <1>1, EnderHolds
<1>4. call.st \in More /\ Settled(call.st, cur, rs, wire, "open") /\ call.cmd = rs[cur].cmd
  BY <1>1, <1>3 DEF EndTurn, HoldsEnd
<1>5. /\ wire # <<>> /\ Tail(wire) \in Seq(Packets) /\ s \in ProtocolState /\ cur \in Cmds
      /\ kind \notin Errors => \/ s = "IDLE" /\ Tail(wire) = <<>>
                               \/ s \in More /\ Settled(s, cur, rs, Tail(wire), "open")
  <2>1. DiscardOf(call.st, cur, rs, wire, rs[cur].prep)
    BY <1>1, <1>2, <1>4, DiscardFacts DEF NextPacket
  <2>2. QED
    BY <2>1 DEF DiscardOf, NextPacket
<1>6. res \in Resultsets
  BY <1>2, <1>5, DetachedFacts
<1> HIDE DEF kind, s, res
<1>7. CASE kind \in Errors
  <2>1. /\ Step(Ender, [call EXCEPT !.pc = "finish", !.void = FALSE])
        /\ cur' = None /\ UNCHANGED <<state, ends, rs, reader>> /\ Consume
    BY <1>1, <1>7 DEF DiscardThrows
  <2>2. QED
    BY <1>1, <1>5, <2>1, EndGivesUpInv DEF Consume
<1>8. ASSUME kind \notin Errors, NEW new \in Calls, Step(Ender, new), new.kind = "end",
             new.pc \in {"discard", "finish"}, new.st = s,
             IF s = "IDLE" THEN new.pc = "finish" /\ lastReader' = None /\ rs' \in [Cmds -> Resultsets] /\ cur' = None
             ELSE new.pc = "discard" /\ new.cmd = call.cmd /\ UNCHANGED <<rs, cur>>,
             Consume, UNCHANGED <<state, ends, reader>>
      PROVE  MutexInv'
  <2>1. op' = [op EXCEPT ![Ender] = new]
    BY <1>8 DEF Step
  <2>2. CallsOk' /\ op' \in [Actors -> Calls] /\ op'[Ender] = new
    BY <1>2, <1>8, <2>1, CallsStep, EnderIsNoTask
  <2>3. ShapesOK'
    BY <1>1, <1>2, <1>5, <1>8, <2>2 DEF ShapesOK, ends, reader, stmts, Consume
  <2>4. \A t \in Tasks : op'[t] = op[t]
    BY <1>2, <2>1, EnderIsNoTask
  <2>5. HoldsEnd(new, cur', rs', wire', conn')
    <3>1. CASE s = "IDLE"
      BY <1>1, <1>5, <1>8, <3>1 DEF HoldsEnd, Consume, Resting, More
    <3>2. CASE s # "IDLE"
      BY <1>1, <1>4, <1>5, <1>8, <3>2 DEF HoldsEnd, Consume, Resting, More
    <3>3. QED
      BY <3>1, <3>2
  <2>6. EndTurn'
    BY <1>1, <1>3, <1>8, <2>2, <2>4, <2>5 DEF EndTurn, AllIdle, ends, reader
  <2>7. QED
    BY <1>1, <1>8, <2>2, <2>3, <2>6 DEF MutexInv, Turn, Consume
<1>9. CASE kind \notin Errors /\ goesOn
  <2> DEFINE new == [call EXCEPT !.st = s]
  <2>1. Consume /\ Step(Ender, new) /\ UNCHANGED <<state, ends, cur, reader, rs>>
    BY <1>1, <1>9
  <2>2. new \in Calls /\ new.pc = "discard" /\ new.st = s /\ new.kind = "end" /\ new.cmd = call.cmd
    BY <1>1, <1>2, <1>5 DEF Calls
  <2> HIDE DEF new
  <2>3. QED
    BY <1>8, <1>9, <2>1, <2>2
<1>10. CASE kind \notin Errors /\ ~goesOn
  <2> DEFINE new == [call EXCEPT !.pc = "finish", !.st = s]
             R == [rs EXCEPT ![cur] = res]
  <2>1. s = "IDLE"
    BY <1>5, <1>10 DEF More
  <2>2. /\ rs' = [R EXCEPT ![cur].more = TRUE] /\ cur' = None
        /\ Step(Ender, new) /\ Consume /\ UNCHANGED <<state, ends, reader>>
    BY <1>1, <1>10 DEF Discarded, res
  <2>3. new \in Calls /\ new.pc = "finish" /\ new.st = s /\ new.kind = "end"
    BY <1>2, <1>5 DEF Calls
  <2>4. rs' \in [Cmds -> Resultsets]
    <3>1. [res EXCEPT !.more = TRUE] \in Resultsets
      BY <1>6 DEF Resultsets
    <3>2. R \in [Cmds -> Resultsets] /\ R[cur] = res
      BY <1>2, <1>5, <1>6
    <3> HIDE DEF R
    <3>3. rs' = [R EXCEPT ![cur] = [res EXCEPT !.more = TRUE]]
      BY <2>2, <3>2
    <3>4. QED
      BY <3>1, <3>2, <3>3
  <2>5. lastReader' = None
    BY <1>3, <2>2 DEF EndTurn, reader
  <2> HIDE DEF new, R
  <2>6. QED
    BY <1>8, <1>10, <2>1, <2>2, <2>3, <2>4, <2>5
<1>11. QED
  BY <1>7, <1>9, <1>10

LEMMA DiscardInv ==
    ASSUME MutexInv, PreparedInv, NEW a \in Actors, Discard(a)
    PROVE  MutexInv'
<1>1. CASE op[a].kind = "reader"
  BY <1>1, DiscardReaderInv
<1>2. CASE a # Ender /\ op[a].kind # "reader"
  BY <1>2, DiscardResultsInv DEF Actors
<1>3. CASE a = Ender /\ op[a].kind # "reader"
  <2>1. op[a].pc = "discard"
    BY DEF Discard, CanRead
  <2>2. op[Ender].kind = "end"
    BY <1>3, <2>1 DEF MutexInv, CallsOk
  <2>3. QED
    BY <1>3, <2>2, DiscardEndInv
<1>4. QED
  BY <1>1, <1>2, <1>3

-----------------------------------------------------------------------------
(* LOCAL INFILE, and failures.                                             *)

\* A method fails. Before that it perhaps read a packet.
LEMMA FailsInv ==
    ASSUME MutexInv, NEW a \in Actors, NEW left, Fails(a, left),
           op[a].pc \in {"send", "aux", "response", "discard", "row", "chunk"},
           left => conn' = conn /\ wire' \in Seq(Packets) /\ (conn # "open" => wire' = <<>>),
           op[a].kind = "query" /\ op[a].err => conn # "open",
           UNCHANGED <<stmts, ended, ncmd>>
    PROVE  MutexInv'
<1> DEFINE call == op[a]
<1>1. /\ call.pc \notin {"idle", "wait"} /\ ShapesOK /\ CallsOk /\ op \in [Actors -> Calls]
      /\ rs \in [Cmds -> Resultsets]
  BY DEF MutexInv, ShapesOK
<1>2. CASE call.kind = "end"
  <2>1. a = Ender
    BY <1>1, <1>2, EnderIsNoTask DEF CallsOk, Actors
  <2>2. call.pc = "discard"
    BY <1>1, <1>2, <2>1 DEF CallsOk
  <2>3. /\ Step(a, [call EXCEPT !.pc = "finish", !.void = FALSE])
        /\ cur' = None /\ UNCHANGED <<state, ends, rs, reader>> /\ left
    BY <1>2 DEF Fails
  <2>4. QED
    BY <1>2, <2>1, <2>2, <2>3, EndGivesUpInv
<1>3. CASE call.kind = "query" /\ call.err
  <2>1. ThrowSqlError(a) /\ left /\ UNCHANGED <<cur, reader>> /\ conn # "open" /\ wire' = <<>> /\ conn' = conn
    BY <1>3 DEF Fails
  <2>2. a \in Tasks /\ a # Ender
    BY <1>1, <1>3, EnderIsNoTask DEF CallsOk, Actors
  <2>3. CASE conn # "closed"
    <3>1. TaskTurn(a)
      BY <1>1, <2>2, <2>3, TaskHolds
    <3>2. Loose(rs) = {} /\ lastReader = None
      BY <1>3, <3>1 DEF TaskTurn, HoldsCommand, HoldsResults, HoldsReader
    <3>3. QED
      BY <1>1, <2>1, <2>2, <2>3, <3>2, SqlErrorInv
  <2>4. CASE conn = "closed"
    <3>1. Closed /\ ended # "no"
      BY <1>1, <1>3, <2>2, <2>4 DEF MutexInv, Closed
    <3>2. SetState("IDLE") /\ Return(a) /\ rs' \in [Cmds -> Resultsets]
      BY <1>1, <2>1, SqlErrorFails DEF ThrowSqlError
    <3>3. state' \in ProtocolState /\ endState' \in ProtocolState /\ onEndSession' \in {"no", "armed", "resolved"}
      BY <1>1, <3>2, SetStateType DEF ShapesOK, ProtocolState
    <3>4. /\ op' \in [Actors -> Calls] /\ CallsOk'
          /\ \A b \in Actors \ {a} : op'[b] = op[b]
      BY <1>1, <3>2, ReturnFacts
    <3>5. ShapesOK'
      BY <1>1, <2>1, <3>2, <3>3, <3>4 DEF ShapesOK, stmts, reader
    <3>6. op'[Ender] = op[Ender]
      BY <2>2, <3>4, EnderIsNoTask
    <3>7. state' \notin More
      BY <3>1, <3>2 DEF SetState, Closed, More
    <3>8. Closed'
      BY <3>1, <3>6, <3>7 DEF Closed
    <3>9. QED
      BY <2>1, <2>4, <3>4, <3>5, <3>8 DEF MutexInv
  <2>5. QED
    BY <2>3, <2>4
<1>4. CASE call.kind = "reader"
  <2>1. ThrowFatal(a) /\ isReading' = "NO" /\ UNCHANGED <<cur, lastReader, colLeft>>
    BY <1>4 DEF Fails
  <2>2. QED
    BY <1>1, <1>4, <2>1, FatalInv
<1>5. CASE call.kind \notin {"end", "reader"} /\ ~(call.kind = "query" /\ call.err)
  <2>1. ThrowFatal(a) /\ UNCHANGED <<cur, reader>>
    BY <1>5 DEF Fails
  <2>2. a # Ender
    BY <1>1, <1>5 DEF CallsOk
  <2>3. UNCHANGED <<lastReader, isReading, colLeft>>
    BY <2>1 DEF reader
  <2>4. QED
    BY <1>1, <2>1, <2>2, <2>3, FatalInv
<1>6. QED
  BY <1>2, <1>3, <1>4, <1>5

LEMMA IoFailsInv ==
    ASSUME MutexInv, NEW a \in Actors, IoFails(a)
    PROVE  MutexInv'
<1>1. /\ op[a].pc \in {"send", "aux", "response", "discard", "row", "chunk"} /\ conn # "open"
      /\ Fails(a, KeepConn) /\ UNCHANGED <<stmts, ended, ncmd>>
  BY DEF IoFails, MutexInv, CallsOk, Actors
<1>2. KeepConn => conn' = conn /\ wire' \in Seq(Packets) /\ (conn # "open" => wire' = <<>>)
  BY DEF KeepConn, MutexInv, ShapesOK
<1>3. QED
  BY <1>1, <1>2, FailsInv

\* The file is sent, and the results are read further.
LEMMA FileSentInv ==
    ASSUME MutexInv, NEW a \in Actors, conn = "open", wire # <<>>, NextPacket.kind = "infile",
           op[a].pc = "response" \/ (op[a].pc = "discard" /\ op[a].st = "HAS_MORE_RESULTSETS"),
           Consume, UNCHANGED <<state, ends, cur, reader, rs, op, stmts, ended, ncmd>>
    PROVE  MutexInv'
<1> DEFINE call == op[a]
<1>1. /\ ShapesOK /\ CallsOk /\ op \in [Actors -> Calls] /\ call \in Calls /\ wire \in Seq(Packets)
      /\ wire' = Tail(wire) /\ conn' = conn /\ Head(wire).kind = "infile" /\ Tail(wire) \in Seq(Packets)
  BY TailFacts DEF MutexInv, ShapesOK, Consume, NextPacket
<1>2. ShapesOK' /\ CallsOk'
  BY <1>1 DEF ShapesOK, CallsOk, ends, reader, stmts
<1>3. \A s \in More : Settled(s, cur, rs, wire, "open") => Settled(s, cur, rs, wire', "open")
  <2> SUFFICES ASSUME NEW s \in More, Settled(s, cur, rs, wire, "open")
               PROVE  Settled(s, cur, rs, wire', "open")
    OBVIOUS
  <2>1. PacketOf(s, cur, rs, wire)
    BY <1>1, SettledStep
  <2>2. QED
    BY <1>1, <2>1 DEF PacketOf
<1>4. NoErrors(wire) => NoErrors(wire')
  BY <1>1, TailTagged
<1>5. CASE a = Ender
  <2>1. call.pc = "discard"
    BY <1>1, <1>5 DEF CallsOk
  <2>2. CASE call.kind = "reader"
    <3>1. EndReadsTurn
      BY <1>5, <2>1, <2>2, EnderHolds
    <3>2. EndReadsTurn'
      BY <1>1, <1>3, <1>4, <1>5, <3>1 DEF EndReadsTurn, HoldsReader, AllIdle, ends, reader
    <3>3. QED
      BY <1>1, <1>2, <3>2 DEF MutexInv, Turn
  <2>3. CASE call.kind # "reader"
    <3>1. EndTurn
      BY <1>5, <2>1, <2>3, EnderHolds
    <3>2. HoldsEnd(op'[Ender], cur', rs', wire', conn')
      BY <1>1, <1>3, <1>5, <2>1, <3>1 DEF EndTurn, HoldsEnd
    <3>3. EndTurn'
      BY <1>1, <3>1, <3>2 DEF EndTurn, AllIdle, ends, reader
    <3>4. QED
      BY <1>1, <1>2, <3>3 DEF MutexInv, Turn
  <2>4. QED
    BY <2>2, <2>3
<1>6. CASE a # Ender
  <2>1. a \in Tasks /\ TaskTurn(a)
    BY <1>6, TaskHolds DEF Actors
  <2>2. ASSUME HoldsCommand(call, rs, wire, conn, lastReader)
        PROVE  HoldsCommand(op'[a], rs', wire', conn', lastReader')
    <3>1. call.aux = <<>> /\ Replied(call, rs[call.r].reads, wire) /\ call.pc = "response"
      BY <2>2 DEF HoldsCommand
    <3>2. Replied(call, rs[call.r].reads, wire')
      BY <1>1, <3>1, RepliedStep
    <3>3. QED
      BY <1>1, <2>2, <3>1, <3>2 DEF HoldsCommand, reader
  <2>3. ASSUME HoldsResults(call, cur, rs, wire, conn, lastReader)
        PROVE  HoldsResults(op'[a], cur', rs', wire', conn', lastReader')
    BY <1>1, <1>3, <2>3 DEF HoldsResults, reader
  <2>4. ASSUME HoldsReader(call, cur, rs, wire, conn, lastReader, isReading, colLeft)
        PROVE  HoldsReader(op'[a], cur', rs', wire', conn', lastReader', isReading', colLeft')
    BY <1>1, <1>3, <1>4, <2>4 DEF HoldsReader, reader
  <2>5. TaskTurn(a)'
    BY <1>1, <2>1, <2>2, <2>3, <2>4 DEF TaskTurn, Alone, ends
  <2>6. QED
    BY <1>1, <1>2, <2>1, <2>5 DEF MutexInv, Turn
<1>7. QED
  BY <1>5, <1>6

LEMMA LocalInfileInv ==
    ASSUME MutexInv, NEW a \in Actors, LocalInfile(a)
    PROVE  MutexInv'
<1>1. /\ conn = "open" /\ wire # <<>> /\ NextPacket.kind = "infile"
      /\ op[a].pc = "response" \/ (op[a].pc = "discard" /\ op[a].st = "HAS_MORE_RESULTSETS")
      /\ UNCHANGED <<stmts, ended, ncmd>>
      /\ \/ Consume /\ UNCHANGED <<state, ends, cur, reader, rs, op>>
         \/ Fails(a, Consume)
  BY DEF LocalInfile, CanRead
<1>2. CASE Consume /\ UNCHANGED <<state, ends, cur, reader, rs, op>>
  BY <1>1, <1>2, FileSentInv
<1>3. CASE Fails(a, Consume)
  <2>1. wire \in Seq(Packets) /\ op[a] \in Calls
    BY DEF MutexInv, ShapesOK
  <2>2. Consume => conn' = conn /\ wire' \in Seq(Packets) /\ (conn # "open" => wire' = <<>>)
    BY <1>1, <2>1, TailFacts DEF Consume
  <2>3. ~(op[a].kind = "query" /\ op[a].err)
    <3> SUFFICES ASSUME op[a].kind = "query", op[a].err
                 PROVE  FALSE
      OBVIOUS
    <3>1. a \in Tasks
      BY DEF MutexInv, CallsOk, Actors
    <3>2. HoldsCommand(op[a], rs, wire, conn, lastReader)
      BY <1>1, <3>1, TaskHolds DEF TaskTurn, HoldsResults, HoldsReader
    <3>3. op[a].aux = <<>> /\ Replied(op[a], rs[op[a].r].reads, wire)
      BY <1>1, <3>2 DEF HoldsCommand
    <3>4. Head(wire).kind \in Errors \cup {"ok"}
      BY <2>1, <3>3, RepliedStep
    <3>5. QED
      BY <1>1, <3>4 DEF NextPacket, Errors
  <2>4. QED
    BY <1>1, <1>3, <2>2, <2>3, FailsInv
<1>4. QED
  BY <1>1, <1>2, <1>3

-----------------------------------------------------------------------------
(* Prepared statements.                                                    *)

LEMMA DisposePreparedStmtInv ==
    ASSUME MutexInv, DisposePreparedStmt
    PROVE  MutexInv'
<1>1. PICK r \in Cmds :
        /\ rs' = [rs EXCEPT ![r].stmt = FALSE, ![r].live = rs[r].more]
        /\ pendingCloseStmts' = IF PendsClose /\ ~rs[r].wrong THEN pendingCloseStmts \cup {r}
                                ELSE pendingCloseStmts
        /\ UNCHANGED <<state, ends, cur, reader, srvStmts, op, ended, conn, wire, ncmd>>
  BY DEF DisposePreparedStmt
<1>2. ShapesOK /\ CallsOk /\ rs \in [Cmds -> Resultsets] /\ op \in [Actors -> Calls]
  BY DEF MutexInv, ShapesOK
<1> DEFINE res == [rs[r] EXCEPT !.stmt = FALSE, !.live = rs[r].more]
<1>3. /\ res \in Resultsets /\ res.more = rs[r].more /\ res.failed = rs[r].failed
      /\ res.reads = rs[r].reads /\ res.cmd = rs[r].cmd
  BY <1>2 DEF Resultsets
<1>4. rs' = [rs EXCEPT ![r] = res]
  BY <1>1, <1>2
<1> HIDE DEF res
<1>5. /\ rs' \in [Cmds -> Resultsets]
      /\ \A k \in Cmds : /\ rs'[k].more = rs[k].more /\ rs'[k].failed = rs[k].failed
                         /\ rs'[k].reads = rs[k].reads /\ rs'[k].cmd = rs[k].cmd
  BY <1>2, <1>3, <1>4
<1>6. ShapesOK' /\ CallsOk'
  BY <1>1, <1>2, <1>5 DEF ShapesOK, CallsOk, ends, reader
<1>7. Loose(rs') = Loose(rs)
  BY <1>5 DEF Loose
<1>8. \A s : Settled(s, cur, rs, wire, conn) => Settled(s, cur, rs', wire, conn)
  BY <1>5, SettledSame
<1>9. CASE conn = "closed"
  <2>1. Closed'
    BY <1>1, <1>9 DEF MutexInv, Closed
  <2>2. QED
    BY <1>1, <1>6, <1>9, <2>1 DEF MutexInv
<1>10. CASE conn # "closed"
  <2>1. Turn
    BY <1>10 DEF MutexInv
  <2>2. ASSUME NEW t \in Tasks, TaskTurn(t)
        PROVE  TaskTurn(t)'
    <3>1. HoldsCommand(op[t], rs, wire, conn, lastReader) => HoldsCommand(op[t], rs', wire, conn, lastReader)
      BY <1>5, <1>7 DEF HoldsCommand
    <3>2. cur \in Cmds => rs'[cur].cmd = rs[cur].cmd
      BY <1>5
    <3>3. HoldsResults(op[t], cur, rs, wire, conn, lastReader) => HoldsResults(op[t], cur, rs', wire, conn, lastReader)
      BY <1>8, <3>2 DEF HoldsResults, Settled, More, Resting
    <3>4. HoldsReader(op[t], cur, rs, wire, conn, lastReader, isReading, colLeft) =>
             HoldsReader(op[t], cur, rs', wire, conn, lastReader, isReading, colLeft)
      BY <1>8, <3>2 DEF HoldsReader, Settled, More, Resting
    <3>5. QED
      BY <1>1, <2>2, <3>1, <3>3, <3>4 DEF TaskTurn, ends, reader
  <2>3. ReaderTurn => ReaderTurn'
    BY <1>1, <1>8 DEF ReaderTurn, GivenReader, ends, reader
  <2>4. ReadyTurn => ReadyTurn'
    BY <1>1, <1>8 DEF ReadyTurn, ends, reader
  <2>5. ToldTurn => ToldTurn'
    BY <1>1, <1>8 DEF ToldTurn, ends, reader
  <2>6. cur \in Cmds => rs'[cur].cmd = rs[cur].cmd
    BY <1>5
  <2>7. EndReadsTurn => EndReadsTurn'
    <3>1. HoldsReader(op[Ender], cur, rs, wire, conn, lastReader, isReading, colLeft) =>
             HoldsReader(op[Ender], cur, rs', wire, conn, lastReader, isReading, colLeft)
      BY <1>8, <2>6 DEF HoldsReader, Settled, More, Resting
    <3>2. QED
      BY <1>1, <3>1 DEF EndReadsTurn, ends, reader
  <2>8. EndTurn => EndTurn'
    <3>1. HoldsEnd(op[Ender], cur, rs, wire, conn) => HoldsEnd(op[Ender], cur, rs', wire, conn)
      BY <1>8, <2>6 DEF HoldsEnd, Settled, More, Resting
    <3>2. QED
      BY <1>1, <3>1 DEF EndTurn, ends, reader
  <2>9. OverTurn => OverTurn'
    BY <1>1 DEF OverTurn, ends, reader
  <2>10. Turn'
    BY <2>1, <2>2, <2>3, <2>4, <2>5, <2>7, <2>8, <2>9, Zenon DEF Turn
  <2>11. QED
    BY <1>1, <1>6, <1>10, <2>10 DEF MutexInv
<1>11. QED
  BY <1>9, <1>10

-----------------------------------------------------------------------------
(* end().                                                                  *)

LEMMA EndCallFacts ==
    ASSUME ShapesOK, NEW s \in ProtocolState, NEW b \in BOOLEAN
    PROVE  LET call == EndCall(s, b) IN
           /\ call \in Calls /\ call.kind = "end" /\ call.st = s /\ call.void = b
           /\ call.pc = IF cur # None /\ s \in More THEN "discard" ELSE "finish"
           /\ cur \in Cmds => call.cmd = rs[cur].cmd
<1> DEFINE pc == IF cur # None /\ s \in More THEN "discard" ELSE "finish"
           cmd == IF cur = None THEN None ELSE rs[cur].cmd
           e == cur # None /\ rs[cur].stmt
           call == [NoCall EXCEPT !.kind = "end", !.void = b, !.st = s, !.pc = pc, !.r = cur, !.cmd = cmd, !.stmt = e]
<1>1. EndCall(s, b) = call
  BY DEF EndCall, More
<1>2. pc \in {"discard", "finish"} /\ cmd \in Cmds \cup {None} /\ e \in BOOLEAN /\ cur \in Cmds \cup {None}
  BY DEF ShapesOK, Resultsets
<1>3. cur \in Cmds => cmd = rs[cur].cmd
  BY DEF Cmds, None
<1> HIDE DEF pc, cmd, e
<1>4. call.kind = "end" /\ call.st = s /\ call.void = b /\ call.pc = pc /\ call.cmd = cmd
  BY CallTypes DEF Calls
<1>5. call \in Calls
  BY <1>2, CallTypes DEF Calls
<1> HIDE DEF call
<1>6. QED
  BY <1>1, <1>3, <1>4, <1>5 DEF pc

LEMMA EndSkipsFacts ==
    ASSUME ShapesOK, NEW s, EndSkips(s)
    PROVE  /\ rs' \in [Cmds -> Resultsets] /\ cur' \in Cmds \cup {None}
           /\ s # "IDLE" => rs' = rs /\ cur' = cur
           /\ SamePrepared(rs') /\ cur' \in {cur, None}
<1>1. CASE cur # None /\ s = "IDLE"
  <2> DEFINE res == Detached(rs[cur], rs[cur].stmt)
  <2>1. rs' = [rs EXCEPT ![cur] = [res EXCEPT !.more = TRUE]] /\ cur' = None
    BY <1>1 DEF EndSkips
  <2>2. cur \in Cmds /\ rs[cur].stmt \in BOOLEAN /\ rs \in [Cmds -> Resultsets]
    BY <1>1 DEF ShapesOK, Resultsets
  <2>3. res \in Resultsets /\ res.prep = rs[cur].prep /\ res.wrong = rs[cur].wrong
    BY <2>2, DetachedFacts
  <2> HIDE DEF res
  <2>4. LET x == [res EXCEPT !.more = TRUE] IN x \in Resultsets /\ x.prep = rs[cur].prep /\ x.wrong = rs[cur].wrong
    BY <2>3 DEF Resultsets
  <2>5. QED
    BY <1>1, <2>1, <2>2, <2>4 DEF SamePrepared
<1>2. CASE ~(cur # None /\ s = "IDLE")
  BY <1>2 DEF EndSkips, ShapesOK, SamePrepared
<1>3. QED
  BY <1>1, <1>2

\* end() has got the state s, and begins its work.
LEMMA EndBeginsInv ==
    ASSUME MutexInv, conn # "closed", AllIdle(op), ended = "no", lastReader = None,
           NEW s \in ProtocolState, NEW b \in BOOLEAN, Settled(s, cur, rs, wire, conn),
           Step(Ender, EndCall(s, b)), EndSkips(s), onEndSession' = "no", endState' = endState,
           state' \in {"QUERYING", "TERMINATED"},
           UNCHANGED <<reader, stmts, ended, conn, wire, ncmd>>
    PROVE  MutexInv'
<1> DEFINE call == EndCall(s, b)
<1>1. ShapesOK /\ CallsOk /\ op \in [Actors -> Calls] /\ (conn # "open" => wire = <<>>)
  BY DEF MutexInv, ShapesOK
<1>2. /\ call \in Calls /\ call.kind = "end" /\ call.st = s /\ call.void = b
      /\ call.pc = IF cur # None /\ s \in More THEN "discard" ELSE "finish"
      /\ cur \in Cmds => call.cmd = rs[cur].cmd
  BY <1>1, EndCallFacts
<1>3. op' = [op EXCEPT ![Ender] = call]
  BY DEF Step
<1> HIDE DEF call
<1>4. /\ rs' \in [Cmds -> Resultsets] /\ cur' \in Cmds \cup {None}
      /\ s # "IDLE" => rs' = rs /\ cur' = cur
  BY <1>1, EndSkipsFacts
<1>5. CallsOk' /\ op' \in [Actors -> Calls] /\ op'[Ender] = call /\ \A t \in Tasks : op'[t] = op[t]
  BY <1>1, <1>2, <1>3, CallsStep, EnderIsNoTask
<1>6. ShapesOK'
  BY <1>1, <1>4, <1>5 DEF ShapesOK, reader, stmts, ProtocolState
<1>7. HoldsEnd(call, cur', rs', wire', conn')
  <2>1. CASE s \in More
    <3>1. cur \in Cmds /\ s # "IDLE"
      BY <2>1 DEF Settled, More, Resting
    <3>2. cur # None
      BY <3>1 DEF Cmds, None
    <3>3. QED
      BY <1>2, <1>4, <2>1, <3>1, <3>2 DEF HoldsEnd, More, Resting
  <2>2. CASE s \in Resting
    <3>1. s \notin More /\ (conn = "open" => wire = <<>>)
      BY <2>2 DEF Settled, Unread, More, Resting
    <3>2. QED
      BY <1>2, <2>2, <3>1 DEF HoldsEnd
  <2>3. QED
    BY <2>1, <2>2 DEF Settled
<1>8. EndTurn'
  BY <1>5, <1>7 DEF EndTurn, AllIdle, reader
<1>9. QED
  BY <1>1, <1>5, <1>6, <1>8 DEF MutexInv, Turn

\* In states other than QUERYING nobody has the word.
LEMMA NotQuerying ==
    ASSUME MutexInv, conn # "closed", state \notin {"QUERYING", "TERMINATED"}
    PROVE  ReadyTurn
<1>1. state # "ERROR"
  BY ErrorIsClosed
<1>2. state \in Resting \cup More
  BY <1>1 DEF MutexInv, ShapesOK, ProtocolState, Resting, More
<1>3. QED
  BY <1>2, ReadyHolds

LEMMA EndInv ==
    ASSUME MutexInv, End
    PROVE  MutexInv'
<1>1. /\ op[Ender].pc = "idle" /\ ended = "no" /\ state # "TERMINATED" /\ state' = "TERMINATED"
      /\ UNCHANGED <<lastReader, colLeft, stmts, ended, conn, wire, ncmd>>
  BY DEF End
<1>2. PICK recycle \in BOOLEAN :
        IF state = "QUERYING"
        THEN /\ onEndSession' = "armed" /\ UNCHANGED <<endState, rs, cur>>
             /\ IF lastReader # None /\ isReading = "NO"
                THEN Step(Ender, [ReaderCall EXCEPT !.void = recycle])
                ELSE Step(Ender, [NoCall EXCEPT !.pc = "wait", !.kind = "end", !.void = recycle])
             /\ isReading' = IF lastReader # None THEN "YES_BY_END_SESSION" ELSE isReading
        ELSE /\ Step(Ender, EndCall(state, recycle))
             /\ EndSkips(state)
             /\ UNCHANGED <<ends, isReading>>
  BY DEF End
<1>3. ShapesOK /\ CallsOk /\ op \in [Actors -> Calls] /\ (conn # "open" => wire = <<>>)
  BY DEF MutexInv, ShapesOK
<1> DEFINE waits == [NoCall EXCEPT !.pc = "wait", !.kind = "end", !.void = recycle]
           reads == [ReaderCall EXCEPT !.void = recycle]
<1>4. waits \in Calls /\ waits.pc = "wait" /\ waits.kind = "end"
  BY CallTypes
<1>5. lastReader \in Cmds => /\ reads \in Calls /\ reads.kind = "reader" /\ reads.cmd = rs[lastReader].cmd
                             /\ reads.pc = (IF colLeft = 0 THEN "discard" ELSE "chunk")
                             /\ reads.st = "HAS_MORE_ROWS"
  BY <1>3, ReaderCallFacts
<1> HIDE DEF waits, reads
<1>6. CASE state = "QUERYING"
  <2>1. PICK call \in Calls :
          /\ op' = [op EXCEPT ![Ender] = call]
          /\ IF lastReader # None /\ isReading = "NO" THEN call = reads ELSE call = waits
    BY <1>2, <1>3, <1>4, <1>5, <1>6 DEF Step, ShapesOK, waits, reads
  <2>2. /\ onEndSession' = "armed" /\ UNCHANGED <<endState, rs, cur>>
        /\ isReading' = IF lastReader # None THEN "YES_BY_END_SESSION" ELSE isReading
    BY <1>2, <1>6
  <2>3. lastReader # None => lastReader \in Cmds
    BY <1>3 DEF ShapesOK
  <2>4. /\ CallsOk' /\ op' \in [Actors -> Calls] /\ op'[Ender] = call /\ \A t \in Tasks : op'[t] = op[t]
    BY <1>3, <1>4, <1>5, <2>1, <2>3, CallsStep, EnderIsNoTask
  <2>5. ShapesOK'
    BY <1>1, <1>3, <2>2, <2>4 DEF ShapesOK, stmts, ProtocolState
  <2>6. CASE conn = "closed"
    <3>1. Closed'
      BY <1>1, <2>4, <2>6 DEF MutexInv, Closed, More
    <3>2. QED
      BY <1>1, <1>3, <2>4, <2>5, <2>6, <3>1 DEF MutexInv
  <2>7. CASE conn # "closed" /\ lastReader # None /\ isReading = "NO"
    <3>1. ReaderTurn
      BY <2>7, ReaderGiven
    <3>2. colLeft \in Nat
      BY <1>3, ConstantsAssumption DEF ShapesOK
    <3>3. HoldsReader(call, cur', rs', wire', conn', lastReader', isReading', colLeft')
      BY <1>1, <1>5, <2>1, <2>2, <2>3, <2>7, <3>1, <3>2 DEF ReaderTurn, GivenReader, HoldsReader, More
    <3>4. EndReadsTurn'
      BY <1>1, <2>2, <2>4, <3>1, <3>3 DEF EndReadsTurn, ReaderTurn, AllIdle
    <3>5. QED
      BY <1>1, <1>3, <2>4, <2>5, <2>7, <3>4 DEF MutexInv, Turn
  <2>8. CASE conn # "closed" /\ ~(lastReader # None /\ isReading = "NO")
    <3>1. Turn /\ call = waits
      BY <2>1, <2>8 DEF MutexInv
    <3>2. Engaged(state', onEndSession', op'[Ender], ended')
      BY <1>1, <1>4, <2>2, <2>4, <3>1 DEF Engaged
    <3>3. ~ReadyTurn /\ ~ToldTurn /\ ~EndReadsTurn /\ ~EndTurn /\ ~OverTurn
      BY <1>1, <1>6 DEF ReadyTurn, Settled, Resting, More, ToldTurn, EndReadsTurn, EndTurn, HoldsEnd, OverTurn
    <3>4. ~ReaderTurn
      <4>1. ReaderTurn => lastReader \in Cmds /\ isReading = "NO"
        BY DEF ReaderTurn, GivenReader, Settled, Resting, More
      <4>2. QED
        BY <2>8, <4>1 DEF Cmds, None
    <3>5. PICK t \in Tasks : TaskTurn(t)
      BY <3>1, <3>3, <3>4 DEF Turn
    <3>6. isReading # "NO" => isReading' # "NO"
      BY <2>2
    <3>7. HoldsReader(op[t], cur, rs, wire, conn, lastReader, isReading, colLeft) =>
             HoldsReader(op[t], cur, rs, wire, conn, lastReader, isReading', colLeft)
      BY <3>6 DEF HoldsReader
    <3>8. TaskTurn(t)'
      BY <1>1, <2>2, <2>4, <3>2, <3>5, <3>7 DEF TaskTurn, Alone
    <3>9. QED
      BY <1>1, <1>3, <2>4, <2>5, <2>8, <3>8 DEF MutexInv, Turn
  <2>9. QED
    BY <2>6, <2>7, <2>8
<1>7. CASE state # "QUERYING"
  <2>1. Step(Ender, EndCall(state, recycle)) /\ EndSkips(state) /\ UNCHANGED <<ends, isReading>>
    BY <1>2, <1>7
  <2>2. CASE conn # "closed"
    <3>1. ReadyTurn
      BY <1>1, <1>7, <2>2, NotQuerying
    <3>2. UNCHANGED reader /\ onEndSession' = "no" /\ endState' = endState /\ state \in ProtocolState
      BY <1>1, <1>3, <2>1, <3>1 DEF reader, ends, ReadyTurn, ShapesOK
    <3>3. QED
      BY <1>1, <2>1, <2>2, <3>1, <3>2, EndBeginsInv DEF ReadyTurn
  <2>3. CASE conn = "closed"
    <3> DEFINE call == EndCall(state, recycle)
    <3>1. call \in Calls /\ call.kind = "end" /\ call.pc \in {"discard", "finish"}
      BY <1>3, EndCallFacts DEF ShapesOK
    <3>2. op' = [op EXCEPT ![Ender] = call]
      BY <2>1 DEF Step
    <3> HIDE DEF call
    <3>3. CallsOk' /\ op' \in [Actors -> Calls] /\ \A t \in Tasks : op'[t] = op[t]
      BY <1>3, <3>1, <3>2, CallsStep, EnderIsNoTask
    <3>4. rs' \in [Cmds -> Resultsets] /\ cur' \in Cmds \cup {None}
      BY <1>3, <2>1, EndSkipsFacts
    <3>5. ShapesOK'
      BY <1>1, <1>3, <2>1, <3>3, <3>4 DEF ShapesOK, ends, stmts, ProtocolState
    <3>6. Closed'
      BY <1>1, <2>3, <3>3 DEF MutexInv, Closed, More
    <3>7. QED
      BY <1>1, <1>3, <2>3, <3>3, <3>5, <3>6 DEF MutexInv
  <2>4. QED
    BY <2>2, <2>3
<1>8. QED
  BY <1>6, <1>7

LEMMA EndResumesInv ==
    ASSUME MutexInv, EndResumes
    PROVE  MutexInv'
<1>1. /\ op[Ender].pc = "wait" /\ onEndSession = "resolved" /\ onEndSession' = "no" /\ UNCHANGED endState
      /\ Step(Ender, EndCall(endState, op[Ender].void)) /\ EndSkips(endState)
      /\ UNCHANGED <<state, reader, stmts, ended, conn, wire, ncmd>>
  BY DEF EndResumes
<1>2. /\ ShapesOK /\ CallsOk /\ op \in [Actors -> Calls] /\ endState \in ProtocolState /\ op[Ender].void \in BOOLEAN
      /\ conn # "open" => wire = <<>>
  BY EnderIsNoTask DEF MutexInv, ShapesOK, Calls
<1>3. CASE conn # "closed"
  <2>1. Turn
    BY <1>3 DEF MutexInv
  <2>2. ToldTurn
    BY <1>1, <2>1 DEF Turn, TaskTurn, ReaderTurn, Engaged, ReadyTurn, EndReadsTurn, EndTurn, OverTurn
  <2>3. QED
    BY <1>1, <1>2, <1>3, <2>2, EndBeginsInv DEF ToldTurn
<1>4. CASE conn = "closed"
  <2> DEFINE call == EndCall(endState, op[Ender].void)
  <2>1. call \in Calls /\ call.kind = "end" /\ call.pc \in {"discard", "finish"}
    BY <1>2, EndCallFacts
  <2>2. op' = [op EXCEPT ![Ender] = call]
    BY <1>1 DEF Step
  <2> HIDE DEF call
  <2>3. CallsOk' /\ op' \in [Actors -> Calls] /\ \A t \in Tasks : op'[t] = op[t]
    BY <1>2, <2>1, <2>2, CallsStep, EnderIsNoTask
  <2>4. rs' \in [Cmds -> Resultsets] /\ cur' \in Cmds \cup {None}
    BY <1>1, <1>2, EndSkipsFacts
  <2>5. ShapesOK'
    BY <1>1, <1>2, <2>3, <2>4 DEF ShapesOK, reader, stmts
  <2>6. Closed'
    BY <1>1, <1>4, <2>3 DEF MutexInv, Closed
  <2>7. QED
    BY <1>1, <1>2, <1>4, <2>3, <2>5, <2>6 DEF MutexInv
<1>5. QED
  BY <1>3, <1>4

\* end() after it has read what was left.
LEMMA EnderFinishes ==
    ASSUME MutexInv, conn # "closed", op[Ender].pc \in {"finish", "reset", "initsql"}
    PROVE  EndTurn
<1>1. IF op[Ender].kind = "reader" THEN EndReadsTurn ELSE EndTurn
  BY EnderHolds
<1>2. ~EndReadsTurn
  BY DEF EndReadsTurn, HoldsReader
<1>3. QED
  BY <1>1, <1>2

LEMMA QuitInv ==
    ASSUME MutexInv, op[Ender].pc \in {"finish", "reset", "initsql"}, Quit,
           onEndSession' \in {onEndSession, "no"}, lastReader' \in {lastReader, None},
           UNCHANGED <<state, endState, cur, isReading, colLeft, stmts, rs, ncmd>>
    PROVE  MutexInv'
<1>1. ended' = "closed" /\ op' = [op EXCEPT ![Ender] = NoCall]
  BY DEF Quit, Finished
<1>2. ShapesOK /\ CallsOk /\ op \in [Actors -> Calls] /\ (conn # "open" => wire = <<>>)
  BY DEF MutexInv, ShapesOK
<1>3. conn' = "closed" /\ wire' = <<>>
  <2>1. CASE conn = "closed"
    BY <1>2, <2>1 DEF Quit, KeepConn, CloseConn
  <2>2. CASE conn # "closed"
    <3>1. op[Ender].st \in Resting \cup More
      BY <2>2, EnderFinishes DEF EndTurn, HoldsEnd
    <3>2. CloseConn
      BY <3>1 DEF Quit, Resting, More
    <3>3. QED
      BY <3>2 DEF CloseConn
  <2>3. QED
    BY <2>1, <2>2
<1>4. CallsOk' /\ op' \in [Actors -> Calls] /\ op'[Ender] = NoCall
  BY <1>1, <1>2, CallsStep, CallTypes, EnderIsNoTask
<1>5. ShapesOK'
  BY <1>1, <1>2, <1>3, <1>4 DEF ShapesOK, stmts
<1>6. state \notin More
  BY EnderFinishes DEF MutexInv, Closed, EndTurn, More
<1>7. Closed'
  BY <1>1, <1>4, <1>6, CallTypes DEF Closed
<1>8. QED
  BY <1>3, <1>4, <1>5, <1>7 DEF MutexInv

LEMMA EndFinishesInv ==
    ASSUME MutexInv, EndFinishes
    PROVE  MutexInv'
<1> DEFINE recycles == op[Ender].void /\ op[Ender].st \in {"IDLE", "IDLE_IN_POOL"}
           new == [op[Ender] EXCEPT !.pc = "reset", !.cmd = None, !.r = None]
<1>1. /\ op[Ender].pc = "finish"
      /\ lastReader' = None /\ onEndSession' = "no" /\ UNCHANGED <<isReading, colLeft, endState>>
      /\ UNCHANGED <<state, cur, pendingCloseStmts, rs, ncmd>>
  BY DEF EndFinishes
<1>2. ShapesOK /\ CallsOk /\ op \in [Actors -> Calls] /\ op[Ender] \in Calls /\ wire \in Seq(Packets)
  BY EnderIsNoTask DEF MutexInv, ShapesOK
<1>3. CASE recycles /\ conn = "open"
  <2>1. ResetConnection /\ op' = [op EXCEPT ![Ender] = new] /\ UNCHANGED <<ended, conn>>
    BY <1>3 DEF EndFinishes, Step
  <2>2. EndTurn
    BY <1>1, <1>3, EnderFinishes
  <2>3. wire = <<>> /\ op[Ender].st \in Resting
    BY <1>1, <1>3, <2>2 DEF EndTurn, HoldsEnd, Resting
  <2>4. PICK k1 \in {"ok", "err"}, k2 \in {"ok", "err"} :
          wire' = wire \o <<[cmd |-> None, kind |-> k1], [cmd |-> None, kind |-> k2]>>
    BY <2>1 DEF ResetConnection
  <2>5. wire' = <<[cmd |-> None, kind |-> k1], [cmd |-> None, kind |-> k2]>>
    BY <2>3, <2>4
  <2>6. wire' \in Seq(Packets) /\ Len(wire') = 2 /\ Tagged(wire', None)
    BY <2>5 DEF Packets, Kinds, Tagged
  <2>7. new \in Calls /\ new.pc = "reset" /\ new.kind = op[Ender].kind /\ new.st = op[Ender].st /\ new.cmd = None
    BY <1>2 DEF Calls
  <2> HIDE DEF new
  <2>8. op[Ender].kind = "end"
    BY <2>2 DEF EndTurn, HoldsEnd
  <2>9. CallsOk' /\ op' \in [Actors -> Calls] /\ op'[Ender] = new /\ \A t \in Tasks : op'[t] = op[t]
    BY <1>2, <2>1, <2>7, <2>8, CallsStep, EnderIsNoTask
  <2>10. ShapesOK'
    BY <1>1, <1>2, <2>1, <2>6, <2>9 DEF ShapesOK, ResetConnection
  <2>11. HoldsEnd(new, cur', rs', wire', conn')
    BY <2>3, <2>6, <2>7, <2>8 DEF HoldsEnd
  <2>12. EndTurn'
    BY <1>1, <2>1, <2>2, <2>9, <2>11 DEF EndTurn, AllIdle
  <2>13. QED
    BY <1>3, <2>1, <2>9, <2>10, <2>12 DEF MutexInv, Turn
<1>4. CASE ~(recycles /\ conn = "open")
  <2>1. Quit /\ UNCHANGED srvStmts
    BY <1>4 DEF EndFinishes
  <2>2. UNCHANGED stmts
    BY <1>1, <2>1 DEF stmts
  <2>3. QED
    BY <1>1, <2>1, <2>2, QuitInv
<1>5. QED
  BY <1>3, <1>4

LEMMA ResetReadInv ==
    ASSUME MutexInv, ResetRead
    PROVE  MutexInv'
<1> DEFINE ok == wire[1].kind = "ok" /\ wire[2].kind = "ok"
           new == [op[Ender] EXCEPT !.pc = "initsql"]
<1>1. /\ op[Ender].pc = "reset" /\ conn = "open"
      /\ UNCHANGED <<state, ends, cur, reader, stmts, rs, ncmd>>
  BY DEF ResetRead
<1>2. ShapesOK /\ CallsOk /\ op \in [Actors -> Calls] /\ op[Ender] \in Calls /\ wire \in Seq(Packets)
  BY EnderIsNoTask DEF MutexInv, ShapesOK
<1>3. CASE ~ok
  <2>1. Quit
    BY <1>3 DEF ResetRead
  <2>2. QED
    BY <1>1, <2>1, QuitInv DEF ends, reader
<1>4. CASE ok
  <2>1. EndTurn /\ HoldsEnd(op[Ender], cur, rs, wire, conn)
    BY <1>1, EnderFinishes DEF EndTurn
  <2>2. Len(wire) = 2 /\ op[Ender].kind = "end" /\ op[Ender].st \in Resting /\ op[Ender].cmd = None
    BY <1>1, <2>1 DEF HoldsEnd
  <2>3. PICK reply \in Replies : wire' = SubSeq(wire, 3, Len(wire)) \o
            [i \in 1 .. Len(reply) |-> [cmd |-> None, kind |-> reply[i]]]
    BY <1>4 DEF ResetRead
  <2> DEFINE answer == [i \in 1 .. Len(reply) |-> [cmd |-> None, kind |-> reply[i]]]
  <2>4. reply \in Seq(Kinds) /\ Len(reply) \in Nat \ {0}
    BY ConstantsAssumption
  <2>5. answer \in Seq(Packets) /\ Len(answer) = Len(reply) /\ \A i \in 1 .. Len(answer) : answer[i].cmd = None
    BY <2>4 DEF Packets
  <2>6. wire' = answer
    <3>1. SubSeq(wire, 3, Len(wire)) = <<>>
      BY <1>2, <2>2
    <3> HIDE DEF answer
    <3>2. <<>> \o answer = answer
      BY <2>5
    <3>3. QED
      BY <2>3, <3>1, <3>2 DEF answer
  <2> HIDE DEF answer
  <2>7. wire' \in Seq(Packets) /\ wire' # <<>> /\ Tagged(wire', None)
    BY <2>4, <2>5, <2>6 DEF Tagged
  <2>8. op' = [op EXCEPT ![Ender] = new] /\ UNCHANGED <<ended, conn>>
    BY <1>2, <1>4 DEF ResetRead
  <2>9. new \in Calls /\ new.pc = "initsql" /\ new.kind = "end" /\ new.st = op[Ender].st /\ new.cmd = None
    BY <1>2, <2>2 DEF Calls
  <2> HIDE DEF new
  <2>10. CallsOk' /\ op' \in [Actors -> Calls] /\ op'[Ender] = new /\ \A t \in Tasks : op'[t] = op[t]
    BY <1>2, <2>8, <2>9, CallsStep, EnderIsNoTask
  <2>11. ShapesOK'
    BY <1>1, <1>2, <2>7, <2>8, <2>10 DEF ShapesOK, ends, reader, stmts
  <2>12. HoldsEnd(new, cur', rs', wire', conn')
    BY <2>2, <2>7, <2>9 DEF HoldsEnd
  <2>13. EndTurn'
    BY <1>1, <2>1, <2>8, <2>10, <2>12 DEF EndTurn, AllIdle, ends, reader
  <2>14. QED
    BY <1>1, <2>8, <2>10, <2>11, <2>13 DEF MutexInv, Turn
<1>5. QED
  BY <1>3, <1>4

LEMMA InitSqlReadInv ==
    ASSUME MutexInv, InitSqlRead
    PROVE  MutexInv'
<1>1. /\ op[Ender].pc = "initsql" /\ conn = "open" /\ wire # <<>>
      /\ UNCHANGED <<state, ends, cur, reader, stmts, rs, ncmd>>
      /\ \/ Quit
         \/ Len(wire) = 1 /\ Finished("recycled") /\ Consume
         \/ Len(wire) > 1 /\ Consume /\ UNCHANGED <<op, ended>>
  BY DEF InitSqlRead
<1>2. /\ ShapesOK /\ CallsOk /\ op \in [Actors -> Calls] /\ wire \in Seq(Packets)
      /\ Tail(wire) \in Seq(Packets) /\ Len(Tail(wire)) = Len(wire) - 1
      /\ Len(wire) = 1 => Tail(wire) = <<>>
  BY <1>1, TailFacts DEF MutexInv, ShapesOK
<1>3. EndTurn /\ HoldsEnd(op[Ender], cur, rs, wire, conn)
  BY <1>1, EnderFinishes DEF EndTurn
<1>4. CASE Quit
  BY <1>1, <1>4, QuitInv DEF ends, reader
<1>5. CASE Len(wire) = 1 /\ Finished("recycled") /\ Consume
  <2>1. /\ ended' = "recycled" /\ op' = [op EXCEPT ![Ender] = NoCall] /\ wire' = <<>> /\ conn' = conn
    BY <1>2, <1>5 DEF Finished, Consume
  <2>2. CallsOk' /\ op' \in [Actors -> Calls] /\ op'[Ender] = NoCall /\ \A t \in Tasks : op'[t] = op[t]
    BY <1>2, <2>1, CallsStep, CallTypes, EnderIsNoTask
  <2>3. ShapesOK'
    BY <1>1, <1>2, <2>1, <2>2 DEF ShapesOK, ends, reader, stmts
  <2>4. OverTurn'
    BY <1>1, <1>3, <2>1, <2>2, CallTypes DEF EndTurn, OverTurn, AllIdle, ends, reader
  <2>5. QED
    BY <1>1, <2>1, <2>2, <2>3, <2>4 DEF MutexInv, Turn
<1>6. CASE Len(wire) > 1 /\ Consume /\ UNCHANGED <<op, ended>>
  <2>1. wire' = Tail(wire) /\ conn' = conn
    BY <1>6 DEF Consume
  <2>2. Tail(wire) # <<>>
    <3>1. Len(Tail(wire)) > 0
      BY <1>2, <1>6
    <3>2. Len(<<>>) = 0
      OBVIOUS
    <3>3. QED
      BY <3>1, <3>2
  <2>3. ShapesOK' /\ CallsOk'
    BY <1>1, <1>2, <1>6, <2>1 DEF ShapesOK, CallsOk, ends, reader, stmts
  <2>4. Tagged(wire, None)
    BY <1>1, <1>3 DEF HoldsEnd
  <2>5. Tagged(wire', None)
    BY <1>1, <1>2, <2>1, <2>4, TailTagged
  <2>6. HoldsEnd(op'[Ender], cur', rs', wire', conn')
    BY <1>1, <1>3, <1>6, <2>1, <2>2, <2>5 DEF HoldsEnd
  <2>7. EndTurn'
    BY <1>1, <1>3, <1>6, <2>6 DEF EndTurn, AllIdle, ends, reader
  <2>8. QED
    BY <1>1, <2>1, <2>3, <2>7 DEF MutexInv, Turn
<1>7. QED
  BY <1>1, <1>4, <1>5, <1>6

LEMMA ResetFailsInv ==
    ASSUME MutexInv, ResetFails
    PROVE  MutexInv'
<1>1. op[Ender].pc \in {"reset", "initsql"} /\ Quit /\ UNCHANGED <<state, ends, cur, reader, stmts, rs, ncmd>>
  BY DEF ResetFails
<1>2. QED
  BY <1>1, QuitInv DEF ends, reader

LEMMA ForceImmediateDisconnectInv ==
    ASSUME MutexInv, ForceImmediateDisconnect
    PROVE  MutexInv'
<1>1. /\ op[Ender].pc = "idle" /\ conn' = "closed" /\ wire' = <<>> /\ state' = "ERROR" /\ ended' = "closed"
      /\ UNCHANGED <<ends, cur, reader, stmts, rs, op, ncmd>>
  BY DEF ForceImmediateDisconnect, CloseConn
<1>2. ShapesOK' /\ CallsOk'
  BY <1>1 DEF MutexInv, ShapesOK, CallsOk, ends, reader, stmts, ProtocolState
<1>3. Closed'
  BY <1>1 DEF Closed, More
<1>4. QED
  BY <1>1, <1>2, <1>3 DEF MutexInv

LEMMA BreakInv ==
    ASSUME MutexInv, Break
    PROVE  MutexInv'
<1>1. /\ conn = "open" /\ ended = "no" /\ conn' = "broken" /\ wire' = <<>>
      /\ UNCHANGED <<state, ends, cur, reader, stmts, rs, op, ended, ncmd>>
  BY DEF Break
<1>2. ShapesOK' /\ CallsOk'
  BY <1>1 DEF MutexInv, ShapesOK, CallsOk, ends, reader, stmts
<1>3. \A s : Settled(s, cur, rs, wire, conn) => Settled(s, cur', rs', wire', conn')
  BY <1>1 DEF Settled
<1>4. Turn
  BY <1>1 DEF MutexInv
<1>5. ASSUME NEW t \in Tasks, TaskTurn(t)
      PROVE  TaskTurn(t)'
  <2>1. HoldsCommand(op[t], rs, wire, conn, lastReader) => HoldsCommand(op[t], rs, wire', conn', lastReader)
    BY <1>1 DEF HoldsCommand
  <2>2. HoldsResults(op[t], cur, rs, wire, conn, lastReader) => HoldsResults(op[t], cur, rs, wire', conn', lastReader)
    BY <1>1, <1>3 DEF HoldsResults
  <2>3. HoldsReader(op[t], cur, rs, wire, conn, lastReader, isReading, colLeft) =>
           HoldsReader(op[t], cur, rs, wire', conn', lastReader, isReading, colLeft)
    BY <1>1, <1>3 DEF HoldsReader
  <2>4. QED
    BY <1>1, <1>5, <2>1, <2>2, <2>3 DEF TaskTurn, ends, reader
<1>6. ReaderTurn => ReaderTurn'
  BY <1>1, <1>3 DEF ReaderTurn, GivenReader, ends, reader
<1>7. ReadyTurn => ReadyTurn'
  BY <1>1, <1>3 DEF ReadyTurn, ends, reader
<1>8. ToldTurn => ToldTurn'
  BY <1>1, <1>3 DEF ToldTurn, ends, reader
<1>9. EndReadsTurn => EndReadsTurn'
  BY <1>1, <1>3 DEF EndReadsTurn, HoldsReader, ends, reader
<1>10. EndTurn => EndTurn'
  BY <1>1, <1>3 DEF EndTurn, HoldsEnd, ends, reader
<1>11. ~OverTurn
  BY <1>1 DEF OverTurn
<1>12. Turn'
  BY <1>4, <1>5, <1>6, <1>7, <1>8, <1>9, <1>10, <1>11, Zenon DEF Turn
<1>13. QED
  BY <1>1, <1>2, <1>12 DEF MutexInv

-----------------------------------------------------------------------------
(* `#state` is a mutex.                                                    *)

-----------------------------------------------------------------------------
(* Prepared statements: PreparedInv is kept.                               *)

LEMMA OpChanges ==
    ASSUME ShapesOK, NEW a \in Actors
    PROVE  /\ Return(a) => (\A u \in Actors : u # a => op'[u] = op[u]) /\ ~Awaits(op'[a])
           /\ \A call : Step(a, call) => (\A u \in Actors : u # a => op'[u] = op[u]) /\ op'[a] = call
<1>1. op \in [Actors -> Calls]
  BY DEF ShapesOK
<1>2. \A call : Step(a, call) => (\A u \in Actors : u # a => op'[u] = op[u]) /\ op'[a] = call
  BY <1>1 DEF Step
<1>3. ~Awaits(NoCall)
  BY DEF Awaits, Commands, NoCall
<1>4. ~Awaits([NoCall EXCEPT !.pc = "wait", !.kind = "end", !.void = op[a].void])
  BY DEF Awaits, Commands, NoCall
<1>5. ASSUME Return(a)
      PROVE  (\A u \in Actors : u # a => op'[u] = op[u]) /\ ~Awaits(op'[a])
  <2>1. \E call : ~Awaits(call) /\ op' = [op EXCEPT ![a] = call]
    BY <1>3, <1>4, <1>5, Zenon DEF Return
  <2>2. QED
    BY <1>1, <2>1
<1>6. QED
  BY <1>2, <1>5

LEMMA FlagType ==
    ASSUME PreparedInv, ReadFlags \/ UNCHANGED moreExists
    PROVE  moreExists' \in BOOLEAN
BY DEF PreparedInv, ReadFlags

LEMMA TailNoOks ==
    ASSUME NEW w \in Seq(Packets), w # <<>>, NoOks(w)
    PROVE  NoOks(Tail(w))
<1>1. \A i \in 1 .. Len(Tail(w)) : Tail(w)[i] = w[i + 1] /\ i + 1 \in 1 .. Len(w)
  BY TailFacts
<1>2. QED
  BY <1>1 DEF NoOks

LEMMA SameExcept ==
    ASSUME rs \in [Cmds -> Resultsets], NEW c \in Cmds, NEW x, x.prep = rs[c].prep, x.wrong = rs[c].wrong
    PROVE  SamePrepared([rs EXCEPT ![c] = x])
BY DEF SamePrepared

\* When an actor reads results, no command awaits its response.
LEMMA NoneAwaits ==
    ASSUME MutexInv, conn = "open", NEW a \in Actors, op[a].pc \notin {"idle", "wait"}, ~Awaits(op[a])
    PROVE  /\ \A t \in Tasks : ~Awaits(op[t])
           /\ a \in Tasks => op[Ender].pc \notin {"reset", "initsql"}
<1>1. CASE a \in Tasks
  <2>1. TaskTurn(a)
    BY <1>1, TaskHolds
  <2>2. QED
    BY <2>1 DEF TaskTurn, Engaged, Alone, Awaits
<1>2. CASE a = Ender
  <2>1. EndReadsTurn \/ EndTurn
    BY <1>2, EnderHolds
  <2>2. QED
    BY <1>2, <2>1, EnderIsNoTask DEF EndReadsTurn, EndTurn, AllIdle, Awaits
<1>3. QED
  BY <1>1, <1>2 DEF Actors

\* An actor reads results and continues, or does not read and does not command.
LEMMA ReadsPrepared ==
    ASSUME MutexInv, PreparedInv, NEW a \in Actors, op[a].pc \notin {"idle", "wait", "reset", "initsql"},
           conn = "open", ~Awaits(op[a]), ~Awaits(op'[a]), \A u \in Actors : u # a => op'[u] = op[u],
           moreExists' \in BOOLEAN, SamePrepared(rs'), cur' \in {cur, None},
           wire' = wire \/ wire' = <<>> \/ (wire # <<>> /\ wire' = Tail(wire))
    PROVE  PreparedInv'
<1>1. wire \in Seq(Packets) /\ PreparedOpen
  BY DEF MutexInv, ShapesOK, PreparedInv
<1>2. /\ \A t \in Tasks : ~Awaits(op[t])
      /\ op[Ender].pc \notin {"reset", "initsql"}
  BY NoneAwaits DEF Actors
<1>3. \A t \in Tasks : ~Awaits(op'[t])
  BY <1>2, EnderIsNoTask
<1>4. NoOks(wire) => NoOks(wire')
  BY <1>1, TailNoOks DEF NoOks
<1>5. \A r \in Cmds : ~rs'[r].wrong
  BY <1>1 DEF PreparedOpen, SamePrepared
<1>6. cur' \in Cmds /\ rs'[cur'].prep => NoOks(wire')
  BY <1>1, <1>2, <1>4 DEF PreparedOpen, SamePrepared, Cmds, None
<1>7. PreparedOpen'
  BY <1>3, <1>5, <1>6 DEF PreparedOpen
<1>8. QED
  BY <1>7 DEF PreparedInv

\* Nothing changes for those who read.
LEMMA KeepsPrepared ==
    ASSUME PreparedInv, conn' = "open" => conn = "open", UNCHANGED moreExists, wire' = wire,
           SamePrepared(rs'), cur' \in {cur, None},
           \A t \in Tasks : op'[t] = op[t] \/ (~Awaits(op[t]) /\ ~Awaits(op'[t])),
           op[Ender].pc \notin {"reset", "initsql"} \/ op'[Ender] = op[Ender]
    PROVE  PreparedInv'
<1> SUFFICES ASSUME conn' = "open"
             PROVE  PreparedOpen'
  BY DEF PreparedInv
<1>1. PreparedOpen
  BY DEF PreparedInv
<1>2. \A r \in Cmds : ~rs'[r].wrong
  BY <1>1 DEF PreparedOpen, SamePrepared
<1>3. ASSUME NEW t \in Tasks, Awaits(op'[t])
      PROVE  PreparedReplied(op'[t], rs', wire', moreExists')
  <2>1. op'[t] = op[t] /\ PreparedReplied(op[t], rs, wire, moreExists)
    BY <1>1, <1>3 DEF PreparedOpen
  <2>2. QED
    BY <2>1 DEF PreparedReplied, SamePrepared
<1>4. ASSUME cur' \in Cmds, rs'[cur'].prep, \A t \in Tasks : ~Awaits(op'[t]), op'[Ender].pc \notin {"reset", "initsql"}
      PROVE  NoOks(wire')
  <2>1. cur \in Cmds /\ rs[cur].prep
    BY <1>4 DEF SamePrepared, Cmds, None
  <2>2. (\A t \in Tasks : ~Awaits(op[t])) /\ op[Ender].pc \notin {"reset", "initsql"}
    BY <1>4
  <2>3. QED
    BY <1>1, <2>1, <2>2 DEF PreparedOpen
<1>5. QED
  BY <1>2, <1>3, <1>4 DEF PreparedOpen

LEMMA ClosedPrepared ==
    ASSUME moreExists' \in BOOLEAN, conn' # "open"
    PROVE  PreparedInv'
BY DEF PreparedInv

LEMMA InitPrepared ==
    ASSUME Init
    PROVE  PreparedInv
<1>1. op = [a \in Actors |-> NoCall] /\ rs = [r \in Cmds |-> NoResultsets] /\ cur \notin Cmds /\ moreExists = FALSE
  BY DEF Init, Cmds, None
<1>2. \A t \in Tasks : ~Awaits(op[t])
  BY <1>1, EnderIsNoTask DEF Awaits, NoCall, Commands
<1>3. \A r \in Cmds : ~rs[r].wrong
  BY <1>1 DEF NoResultsets
<1>4. QED
  BY <1>1, <1>2, <1>3 DEF PreparedInv, PreparedOpen

\* A command begins.
LEMMA BeginPrepared ==
    ASSUME MutexInv, PreparedInv, NEW t \in Tasks, NEW call \in Calls, Begin(t, call), call.r \in Cmds,
           \A r \in Cmds : rs'[r].wrong = rs[r].wrong \/ rs'[r].wrong = FALSE,
           call.kind \in {"query", "three"} => ~rs'[call.r].prep,
           call.kind = "exec" => call.aux = <<>> /\ ~moreExists
    PROVE  PreparedInv'
<1> DEFINE new == [call EXCEPT !.pc = "send", !.cmd = ncmd + 1]
<1>1. /\ op' = [op EXCEPT ![t] = new] /\ state \in Resting /\ op[t].pc = "idle"
      /\ wire' = wire /\ conn' = conn /\ moreExists' = moreExists
  BY DEF Begin, Step, SetQueryingState, Resting
<1>2. new.kind = call.kind /\ new.r = call.r /\ new.aux = call.aux /\ Len(call.aux) \in Nat
  BY DEF Calls
<1> HIDE DEF new
<1> SUFFICES ASSUME conn = "open"
             PROVE  PreparedOpen'
  BY <1>1 DEF PreparedInv
<1>3. AllIdle(op) /\ wire = <<>>
  <2>1. ReadyTurn
    BY <1>1, ReadyHolds
  <2>2. QED
    BY <1>1, <2>1 DEF ReadyTurn, Settled, Unread
<1>4. \A u \in Tasks : op'[u] = IF u = t THEN new ELSE op[u]
  BY <1>1, EnderIsNoTask DEF MutexInv, ShapesOK
<1>5. NoOks(wire') /\ Len(wire') = 0
  BY <1>1, <1>3 DEF NoOks
<1>6. PreparedReplied(new, rs', wire', moreExists')
  <2>1. (\A i \in 1 .. Len(wire') : FALSE) /\ \A i \in Len(call.aux) + 1 .. Len(wire') : FALSE
    BY <1>2, <1>5
  <2>2. QED
    BY <1>1, <1>2, <1>5, <2>1 DEF PreparedReplied
<1>7. \A u \in Tasks : Awaits(op'[u]) => op'[u] = new
  BY <1>3, <1>4 DEF AllIdle, Awaits
<1>8. \A r \in Cmds : ~rs'[r].wrong
  BY DEF PreparedInv, PreparedOpen
<1>9. QED
  BY <1>5, <1>6, <1>7, <1>8 DEF PreparedOpen

LEMMA CallPrepared ==
    ASSUME MutexInv, PreparedInv, CopedWith, NEW t \in Tasks, Call(t)
    PROVE  PreparedInv'
<1>1. ShapesOK /\ rs \in [Cmds -> Resultsets] /\ t \in Actors
  BY EnderIsNoTask DEF MutexInv, ShapesOK
<1>2. ASSUME NEW kind \in {"query", "three", "prepare"}, NEW aux \in AuxLists, NEW void \in BOOLEAN,
             NEW reads \in BOOLEAN, NewResultsets(t, kind, aux, void, reads)
      PROVE  PreparedInv'
  <2> DEFINE n == IF kind = "prepare" THEN 0 ELSE MaxRetries
             call == [NoCall EXCEPT !.kind = kind, !.r = ncmd + 1, !.aux = aux, !.void = void, !.retries = n]
             res == [NoResultsets EXCEPT !.cmd = ncmd + 1, !.reads = reads, !.prep = kind = "prepare"]
  <2>1. Begin(t, call) /\ rs' = [rs EXCEPT ![ncmd + 1] = res]
    BY <1>2 DEF NewResultsets
  <2>2. ncmd + 1 \in Cmds
    BY <1>1, <2>1, ConstantsAssumption DEF ShapesOK, Begin, Cmds
  <2>3. aux \in Seq(AuxKinds) /\ n \in 0 .. MaxRetries
    BY ConstantsAssumption
  <2> HIDE DEF n
  <2>4. call \in Calls /\ call.kind = kind /\ call.r = ncmd + 1
    BY <2>2, <2>3, CallTypes, ZenonT(40) DEF Calls
  <2>5. res.wrong = FALSE /\ (kind # "prepare" => ~res.prep)
    BY DEF NoResultsets
  <2> HIDE DEF call, res
  <2>6. rs'[ncmd + 1] = res /\ \A r \in Cmds : rs'[r].wrong = rs[r].wrong \/ rs'[r].wrong = FALSE
    BY <1>1, <2>1, <2>2, <2>5
  <2>7. QED
    BY <2>1, <2>2, <2>4, <2>5, <2>6, BeginPrepared
<1>3. \A kinds : AuxOnly(kinds) \subseteq AuxLists
  BY DEF AuxOnly
<1>4. CASE SendComQuery(t)
  BY <1>2, <1>3, <1>4 DEF SendComQuery
<1>5. CASE SendThreeQueries(t)
  BY <1>2, <1>5 DEF SendThreeQueries
<1>6. CASE SendComStmtPrepare(t)
  BY <1>2, <1>3, <1>6 DEF SendComStmtPrepare
<1>7. CASE ExecStmt(t)
  <2>1. PICK r \in Cmds : /\ Begin(t, [NoCall EXCEPT !.kind = "exec", !.r = r])
                          /\ rs' = [rs EXCEPT ![r].cmd = ncmd + 1]
                          /\ moreExists => ExecsOnStaleFlag
    BY <1>7 DEF ExecStmt
  <2> DEFINE call == [NoCall EXCEPT !.kind = "exec", !.r = r]
  <2>2. call \in Calls /\ call.kind = "exec" /\ call.r = r /\ call.aux = <<>>
    BY CallTypes DEF Calls, NoCall
  <2>3. \A k \in Cmds : rs'[k].wrong = rs[k].wrong
    BY <1>1, <2>1 DEF Resultsets
  <2>4. Begin(t, call)
    BY <2>1
  <2> HIDE DEF call
  <2>5. ~moreExists
    BY <2>1 DEF CopedWith
  <2>6. QED
    BY <2>2, <2>3, <2>4, <2>5, BeginPrepared
<1>8. ASSUME NEW call, Step(t, call), op[t].pc = "idle", ~Awaits(call),
             UNCHANGED <<cur, rs, conn, wire, moreExists>>
      PROVE  PreparedInv'
  <2>1. ~Awaits(op[t])
    BY <1>8 DEF Awaits
  <2>2. \A u \in Tasks : op'[u] = op[u] \/ (~Awaits(op[u]) /\ ~Awaits(op'[u]))
    BY <1>1, <1>8, <2>1, OpChanges, EnderIsNoTask
  <2>3. op'[Ender] = op[Ender]
    BY <1>1, <1>8, OpChanges, EnderIsNoTask
  <2>4. SamePrepared(rs') /\ cur' \in {cur, None}
    BY <1>8 DEF SamePrepared
  <2>5. CASE op[Ender].pc \notin {"reset", "initsql"}
    BY <1>8, <2>2, <2>4, <2>5, KeepsPrepared
  <2>6. CASE op[Ender].pc \in {"reset", "initsql"}
    BY <1>8, <2>2, <2>3, <2>4, <2>6, KeepsPrepared
  <2>7. QED
    BY <2>5, <2>6
<1>9. CASE Fetch(t)
  <2>1. PICK r \in Cmds :
          /\ op[t].pc = "idle"
          /\ Step(t, [NoCall EXCEPT !.pc = "row", !.kind = "fetch", !.r = r, !.cmd = rs[r].cmd,
                                    !.stmt = cur # None /\ rs[cur].stmt])
          /\ UNCHANGED <<cur, rs, conn, wire, moreExists>>
    BY <1>9 DEF Fetch
  <2>2. ~Awaits([NoCall EXCEPT !.pc = "row", !.kind = "fetch", !.r = r, !.cmd = rs[r].cmd,
                                    !.stmt = cur # None /\ rs[cur].stmt])
    BY DEF Awaits, Commands, NoCall
  <2>3. QED
    BY <1>8, <2>1, <2>2
<1>10. CASE Read(t)
  <2>1. op[t].pc = "idle" /\ Step(t, ReaderCall) /\ UNCHANGED <<cur, rs, conn, wire, moreExists>>
    BY <1>10 DEF Read
  <2>2. ~Awaits(ReaderCall)
    BY DEF Awaits, Commands, NoCall, ReaderCall
  <2>3. QED
    BY <1>8, <2>1, <2>2
<1>11. CASE NextResultset(t)
  <2>1. PICK r \in Cmds :
          /\ op[t].pc = "idle"
          /\ Step(t, [NoCall EXCEPT !.pc = IF state = "HAS_MORE_ROWS" THEN "discard" ELSE "response",
                                    !.kind = "next", !.r = r, !.cmd = rs[r].cmd, !.st = state,
                                    !.stmt = rs[cur].stmt])
          /\ UNCHANGED <<cur, rs, conn, wire, moreExists>>
    BY <1>11 DEF NextResultset
  <2>2. ~Awaits([NoCall EXCEPT !.pc = IF state = "HAS_MORE_ROWS" THEN "discard" ELSE "response",
                                    !.kind = "next", !.r = r, !.cmd = rs[r].cmd, !.st = state,
                                    !.stmt = rs[cur].stmt])
    BY DEF Awaits, Commands, NoCall
  <2>3. QED
    BY <1>8, <2>1, <2>2
<1>12. QED
  BY <1>4, <1>5, <1>6, <1>7, <1>9, <1>10, <1>11 DEF Call

\* The command is sent, and answered.
LEMMA SendPrepared ==
    ASSUME MutexInv, PreparedInv, CopedWith, NEW t \in Tasks, Send(t)
    PROVE  PreparedInv'
<1> DEFINE call == op[t]
           n == Len(call.aux)
           new == [call EXCEPT !.pc = IF n = 0 THEN "response" ELSE "aux"]
<1>1. /\ call.pc = "send" /\ conn = "open" /\ op' = [op EXCEPT ![t] = new] /\ rs' = rs /\ cur' = cur
      /\ moreExists' = moreExists
  BY DEF Send, Step
<1>2. ShapesOK /\ op \in [Actors -> Calls] /\ call \in Calls /\ rs \in [Cmds -> Resultsets] /\ n \in Nat
  BY EnderIsNoTask DEF MutexInv, ShapesOK, Calls
<1>3. /\ Alone(op, t) /\ wire = <<>> /\ call.kind \in Commands /\ call.r \in Cmds /\ ~call.err
  <2>1. TaskTurn(t)
    BY <1>1, TaskHolds
  <2>2. QED
    BY <1>1, <2>1 DEF TaskTurn, HoldsCommand, HoldsResults, HoldsReader
<1>4. PICK bad \in SUBSET ({call.aux[i] : i \in 1 .. n} \cap AuxMayFail) :
         \E reply \in RepliesTo(call, rs[call.r], bad) :
            wire' = wire \o AuxReplies(call, bad) \o MainReply(call, reply)
  BY DEF Send, RepliesTo, AuxReplies, MainReply
<1>5. PICK reply \in RepliesTo(call, rs[call.r], bad) :
         wire' = wire \o AuxReplies(call, bad) \o MainReply(call, reply)
  BY <1>4
<1>6. Sent(call, rs[call.r].reads, reply, wire')
  <2>1. wire' = AuxReplies(call, bad) \o MainReply(call, reply)
    BY <1>3, <1>5, <1>2 DEF AuxReplies, MainReply
  <2>2. rs[call.r] \in Resultsets /\ bad \in SUBSET AuxMayFail
    BY <1>2, <1>3
  <2>3. QED
    BY <1>2, <1>3, <1>5, <2>1, <2>2, SentReplied
<1>7. /\ Len(wire') = n + Len(reply) /\ reply # <<>>
      /\ \A i \in n + 1 .. Len(wire') : i - n \in 1 .. Len(reply) /\ wire'[i].kind = reply[i - n]
  BY <1>6 DEF Sent
<1>8. PreparedOpen /\ PreparedReplied(call, rs, wire, moreExists)
  BY <1>1, <1>3 DEF PreparedInv, PreparedOpen, Awaits
<1>9. call.kind = "prepare" => \A i \in n + 1 .. Len(wire') : wire'[i].kind \in {"stmt", "err"}
  <2> SUFFICES ASSUME call.kind = "prepare", NEW i \in n + 1 .. Len(wire')
               PROVE  wire'[i].kind \in {"stmt", "err"}
    OBVIOUS
  <2>1. reply = <<"err">> \/ reply = <<"stmt">>
    BY DEF RepliesTo
  <2>2. i - n \in 1 .. Len(reply) /\ wire'[i].kind = reply[i - n]
    BY <1>7
  <2> HIDE DEF n
  <2>3. CASE reply = <<"err">>
    BY <2>2, <2>3
  <2>4. CASE reply = <<"stmt">>
    BY <2>2, <2>4
  <2>5. QED
    BY <2>1, <2>3, <2>4
<1>10. ASSUME call.kind = "exec"
       PROVE  /\ \A i \in 1 .. Len(wire') : wire'[i].kind \notin {"infile", "stmt"}
              /\ NoOks(wire') \/ (Len(wire') = 1 /\ wire'[1].kind = "ok")
  <2>1. call.aux = <<>> /\ n = 0
    BY <1>8, <1>10 DEF PreparedReplied
  <2>2. Len(wire') = Len(reply) /\ \A i \in 1 .. Len(wire') : wire'[i].kind = reply[i]
    <3>1. \A i \in 0 + 1 .. Len(wire') : wire'[i].kind = reply[i - 0]
      BY <1>7, <2>1
    <3>2. Len(wire') = Len(reply)
      <4>1. Len(wire') \in Nat
        BY <1>6 DEF Sent
      <4>2. reply \in {<<"err">>} \cup Replies
        BY <1>10, ConstantsAssumption DEF RepliesTo
      <4>3. Len(reply) \in Nat
        BY <4>2, ConstantsAssumption
      <4>4. QED
        BY <1>7, <2>1, <4>1, <4>3
    <3>3. QED
      BY <3>1, <3>2
  <2>3. bad = {}
    <3>1. {call.aux[i] : i \in 1 .. n} = {}
      BY <2>1
    <3>2. QED
      BY <3>1
  <2>4. reply = <<"err">> \/ reply \in RepliesToExec
    BY <1>10, <2>3 DEF RepliesTo
  <2>5. CASE reply = <<"err">>
    BY <2>2, <2>5 DEF NoOks, Oks
  <2>6. CASE reply \in RepliesToExec
    <3>1. /\ reply \in Seq(Kinds) /\ reply # <<>> /\ WellFormed(reply)
          /\ \A i \in 1 .. Len(reply) : reply[i] # "infile"
          /\ reply # <<"ok">> => \A i \in 1 .. Len(reply) : reply[i] \notin Oks
      BY <2>6, ConstantsAssumption DEF CopedWith
    <3>2. \A kind : "stmt" \notin Follows(kind)
      BY DEF Follows
    <3>3. \A i \in 1 .. Len(reply) : reply[i] # "stmt"
      <4> SUFFICES ASSUME NEW i \in 1 .. Len(reply)
                   PROVE  reply[i] # "stmt"
        OBVIOUS
      <4>1. CASE i = 1
        BY <3>1, <3>2, <4>1 DEF WellFormed
      <4>2. CASE i # 1
        <5>1. i - 1 \in 1 .. Len(reply) - 1 /\ (i - 1) + 1 = i
          BY <3>1, <4>2
        <5>2. reply[(i - 1) + 1] \in Follows(reply[i - 1])
          BY <3>1, <5>1 DEF WellFormed
        <5>3. QED
          BY <3>2, <5>1, <5>2
      <4>3. QED
        BY <4>1, <4>2
    <3>4. CASE reply = <<"ok">>
      BY <2>2, <3>1, <3>3, <3>4
    <3>5. CASE reply # <<"ok">>
      BY <2>2, <3>1, <3>3, <3>5 DEF NoOks
    <3>6. QED
      BY <3>4, <3>5
  <2>7. QED
    BY <2>4, <2>5, <2>6
<1>11. /\ new.kind = call.kind /\ new.r = call.r /\ new.aux = call.aux /\ new.pc \in {"aux", "response"}
  BY <1>2 DEF Calls
<1> HIDE DEF new, n
<1>12. PreparedReplied(new, rs', wire', moreExists')
  BY <1>1, <1>8, <1>9, <1>10, <1>11 DEF PreparedReplied, n
<1>13. \A u \in Tasks : op'[u] = IF u = t THEN new ELSE op[u]
  BY <1>1, <1>2, EnderIsNoTask
<1>14. Awaits(op'[t]) /\ \A u \in Tasks : Awaits(op'[u]) => op'[u] = new
  BY <1>3, <1>11, <1>13 DEF Awaits, Alone
<1>15. PreparedOpen'
  BY <1>1, <1>8, <1>12, <1>14 DEF PreparedOpen
<1>16. QED
  BY <1>1, <1>15 DEF PreparedInv

\* The result of an auxiliary command is read.
LEMMA ReadAuxPrepared ==
    ASSUME MutexInv, PreparedInv, NEW t \in Tasks, ReadAux(t)
    PROVE  PreparedInv'
<1> DEFINE call == op[t]
           bad == NextPacket.kind \in Errors
           new == [call EXCEPT !.aux = Tail(@), !.pc = IF Tail(call.aux) = <<>> THEN "response" ELSE "aux",
                               !.err = @ \/ (bad /\ Head(call.aux) # "ignored")]
<1>1. /\ call.pc = "aux" /\ conn = "open" /\ wire # <<>> /\ wire' = Tail(wire) /\ conn' = conn /\ cur' = cur
      /\ ReadFlags
      /\ IF bad /\ Head(call.aux) = "prestmt"
         THEN ThrowSqlError(t)
         ELSE op' = [op EXCEPT ![t] = new] /\ rs' = rs
  BY DEF ReadAux, CanRead, Consume, Step
<1>2. ShapesOK /\ op \in [Actors -> Calls] /\ call \in Calls /\ wire \in Seq(Packets)
  BY EnderIsNoTask DEF MutexInv, ShapesOK
<1>3. /\ Alone(op, t) /\ call.kind \in Commands /\ call.r \in Cmds
      /\ call.aux # <<>> /\ Replied(call, rs[call.r].reads, wire)
  <2>1. TaskTurn(t)
    BY <1>1, TaskHolds
  <2>2. QED
    BY <1>1, <2>1 DEF TaskTurn, HoldsCommand, HoldsResults, HoldsReader
<1>4. PreparedOpen /\ PreparedReplied(call, rs, wire, moreExists)
  BY <1>1, <1>3 DEF PreparedInv, PreparedOpen, Awaits
<1>5. call.kind # "exec"
  BY <1>3, <1>4 DEF PreparedReplied
<1>6. call.aux \in Seq(AuxKinds) /\ Tail(call.aux) \in Seq(AuxKinds) /\ Len(Tail(call.aux)) = Len(call.aux) - 1
      /\ Len(call.aux) \in Nat \ {0}
  BY <1>2, <1>3 DEF Calls
<1>7. /\ new.kind = call.kind /\ new.r = call.r /\ new.aux = Tail(call.aux) /\ new.pc \in {"aux", "response"}
      /\ new.cmd = call.cmd /\ new.err = (call.err \/ (bad /\ Head(call.aux) # "ignored"))
  BY <1>2 DEF Calls
<1> HIDE DEF new
<1>8. ~(bad /\ Head(call.aux) = "prestmt")
  BY <1>2, <1>3, <1>7, RepliedAuxStep DEF NextPacket
<1>9. call.kind = "prepare" => \A i \in Len(new.aux) + 1 .. Len(wire') : wire'[i].kind \in {"stmt", "err"}
  <2> SUFFICES ASSUME call.kind = "prepare", NEW i \in Len(new.aux) + 1 .. Len(wire')
               PROVE  wire'[i].kind \in {"stmt", "err"}
    OBVIOUS
  <2>1. i \in 1 .. Len(wire) - 1 /\ i + 1 \in Len(call.aux) + 1 .. Len(wire) /\ wire'[i] = wire[i + 1]
    BY <1>1, <1>2, <1>6, <1>7, TailFacts
  <2>2. QED
    BY <1>4, <2>1 DEF PreparedReplied
<1>10. PreparedReplied(new, rs', wire', moreExists')
  BY <1>1, <1>4, <1>5, <1>7, <1>8, <1>9 DEF PreparedReplied
<1>11. \A u \in Tasks : op'[u] = IF u = t THEN new ELSE op[u]
  BY <1>1, <1>2, <1>8, EnderIsNoTask
<1>12. Awaits(op'[t]) /\ \A u \in Tasks : Awaits(op'[u]) => op'[u] = new
  BY <1>3, <1>7, <1>11 DEF Awaits, Alone
<1>13. PreparedOpen'
  BY <1>1, <1>4, <1>8, <1>10, <1>12 DEF PreparedOpen
<1>14. QED
  BY <1>1, <1>13, FlagType DEF PreparedInv

\* No other command awaits its response, and the call of this one is over or begins again.
LEMMA RespondedPrepared ==
    ASSUME MutexInv, PreparedInv, NEW t \in Tasks, conn = "open", Awaits(op[t]), moreExists' \in BOOLEAN,
           \A u \in Actors : u # t => op'[u] = op[u],
           Awaits(op'[t]) => PreparedReplied(op'[t], rs', wire', moreExists'),
           SamePrepared(rs'), cur' \in Cmds /\ rs'[cur'].prep => NoOks(wire')
    PROVE  PreparedInv'
<1>1. Alone(op, t) /\ PreparedOpen
  <2>1. op[t].pc # "idle"
    BY DEF Awaits
  <2>2. QED
    BY <2>1, TaskHolds DEF TaskTurn, PreparedInv
<1>2. \A u \in Tasks : Awaits(op'[u]) => u = t
  BY <1>1, EnderIsNoTask DEF Alone, Awaits
<1>3. \A r \in Cmds : ~rs'[r].wrong
  BY <1>1 DEF PreparedOpen, SamePrepared
<1>4. PreparedOpen'
  BY <1>2, <1>3 DEF PreparedOpen
<1>5. QED
  BY <1>4 DEF PreparedInv

\* What is known of a task that awaits the response to its command.
LEMMA AwaitsResponse ==
    ASSUME MutexInv, PreparedInv, NEW t \in Tasks, CanRead(t, "response"), op[t].kind \in Commands
    PROVE  LET call == op[t]
               kind == NextPacket.kind
           IN
           /\ ShapesOK /\ op \in [Actors -> Calls] /\ rs \in [Cmds -> Resultsets] /\ call \in Calls
           /\ Awaits(call) /\ PreparedReplied(call, rs, wire, moreExists) /\ call.aux = <<>> /\ call.r \in Cmds
           /\ Replied(call, rs[call.r].reads, wire)
           /\ kind \in {"ok", "okM", "cols", "infile", "err", "errR", "stmt"}
           /\ kind \in Errors \cup {"stmt", "ok"} => Tail(wire) = <<>>
           /\ call.err => kind \in Errors \cup {"ok"}
           /\ call.kind = "prepare" => kind \in {"stmt", "err"}
           /\ wire \in Seq(Packets) /\ wire # <<>>
<1> DEFINE call == op[t]
           kind == NextPacket.kind
<1>1. /\ call.pc = "response" /\ conn = "open" /\ wire # <<>> /\ wire \in Seq(Packets) /\ ShapesOK
      /\ op \in [Actors -> Calls] /\ rs \in [Cmds -> Resultsets] /\ call \in Calls
  BY EnderIsNoTask DEF CanRead, MutexInv, ShapesOK
<1>2. Awaits(call) /\ PreparedReplied(call, rs, wire, moreExists)
  BY <1>1 DEF Awaits, PreparedInv, PreparedOpen
<1>3. call.aux = <<>> /\ Replied(call, rs[call.r].reads, wire) /\ call.r \in Cmds
  <2>1. TaskTurn(t)
    BY <1>1, TaskHolds
  <2>2. QED
    BY <1>1, <2>1 DEF TaskTurn, HoldsCommand, HoldsResults, HoldsReader, Commands
<1>4. /\ kind \in {"ok", "okM", "cols", "infile", "err", "errR", "stmt"}
      /\ kind \in Errors \cup {"stmt"} => Tail(wire) = <<>>
      /\ kind = "ok" => Unread("IDLE", rs[call.r].reads, call.cmd, Tail(wire))
      /\ call.err => kind \in Errors \cup {"ok"}
  BY <1>1, <1>3, RepliedStep, StateAfterFacts DEF NextPacket
<1>5. kind = "ok" => Tail(wire) = <<>>
  BY <1>4 DEF Unread, Resting
<1>6. call.kind = "prepare" => kind \in {"stmt", "err"}
  <2>1. kind = wire[1].kind /\ 1 \in Len(call.aux) + 1 .. Len(wire)
    BY <1>1, <1>3, TailFacts DEF NextPacket
  <2>2. QED
    BY <1>2, <2>1 DEF PreparedReplied
<1>7. QED
  BY <1>1, <1>2, <1>3, <1>4, <1>5, <1>6

LEMMA ResponsePrepared ==
    ASSUME MutexInv, PreparedInv, NEW t \in Tasks, Response(t)
    PROVE  PreparedInv'
<1> DEFINE call == op[t]
           r == call.r
           kind == NextPacket.kind
           s == StateAfter(kind)
           attached == [rs[r] EXCEPT !.live = TRUE, !.more = TRUE, !.failed = FALSE]
           prepared == [rs[r] EXCEPT !.live = TRUE, !.stmt = TRUE]
           again == [call EXCEPT !.pc = "send", !.retries = @ - 1, !.err = FALSE]
<1>1. /\ CanRead(t, "response") /\ call.kind \in {"query", "three", "prepare"} /\ call.kind \in Commands
      /\ conn = "open" /\ wire' = Tail(wire) /\ conn' = conn /\ kind # "infile" /\ t \in Actors
  BY EnderIsNoTask DEF Response, CanRead, Consume, Commands
<1>2. /\ ShapesOK /\ op \in [Actors -> Calls] /\ rs \in [Cmds -> Resultsets] /\ call \in Calls
      /\ Awaits(call) /\ PreparedReplied(call, rs, wire, moreExists) /\ r \in Cmds
      /\ kind \in {"ok", "okM", "cols", "err", "errR", "stmt"}
      /\ kind \in Errors \cup {"stmt", "ok"} => wire' = <<>>
      /\ call.err => kind \in Errors \cup {"ok"}
      /\ call.kind = "prepare" => kind \in {"stmt", "err"}
  BY <1>1, AwaitsResponse
<1>3. moreExists' \in BOOLEAN
  BY FlagType DEF Response
<1>4. NoOks(<<>>)
  BY DEF NoOks
<1>5. ASSUME NEW res, NEW x, QueryDone(t, r, res, x), res.prep = rs[r].prep, res.wrong = rs[r].wrong, res \in Resultsets
      PROVE  SamePrepared(rs') /\ ~Awaits(op'[t]) /\ \A u \in Actors : u # t => op'[u] = op[u]
  <2> DEFINE e == res.given \/ ~call.err
             res2 == [res EXCEPT !.given = e]
  <2>1. rs' = [rs EXCEPT ![r] = res2] /\ Return(t)
    BY <1>5 DEF QueryDone
  <2>2. res2.prep = rs[r].prep /\ res2.wrong = rs[r].wrong
    BY <1>5 DEF Resultsets
  <2> HIDE DEF res2
  <2>3. QED
    BY <1>1, <1>2, <2>1, <2>2, SameExcept, OpChanges
<1>6. /\ attached \in Resultsets /\ attached.prep = rs[r].prep /\ attached.wrong = rs[r].wrong
      /\ prepared \in Resultsets /\ prepared.prep = rs[r].prep /\ prepared.wrong = rs[r].wrong
  <2>1. rs[r] \in Resultsets
    BY <1>2
  <2>2. QED
    BY <2>1, AttachedFacts
<1>7. again.kind = call.kind /\ again.r = call.r /\ again.aux = call.aux
  BY <1>2 DEF Calls
<1>8. \A x \in {"err", "errR", "ok", "stmt"} : StateAfter(x) = "IDLE"
  BY StateAfterFacts
<1> HIDE DEF attached, prepared, again
<1>9. CASE kind \in Errors
  <2>1. QueryError(t, kind)
    BY <1>1, <1>8, <1>9 DEF Response, Errors
  <2>2. wire' = <<>>
    BY <1>2, <1>9
  <2>3. CASE Retries(call, kind)
    <3>1. Step(t, again) /\ rs' = rs /\ call.kind # "prepare"
      BY <1>2, <2>1, <2>3 DEF QueryError, again, Retries
    <3>2. op'[t] = again /\ \A u \in Actors : u # t => op'[u] = op[u]
      BY <1>1, <1>2, <3>1, OpChanges
    <3>3. PreparedReplied(again, rs', wire', moreExists')
      BY <1>1, <1>2, <1>7, <3>1 DEF PreparedReplied
    <3>4. QED
      BY <1>1, <1>2, <1>3, <1>4, <2>2, <3>1, <3>2, <3>3, RespondedPrepared DEF SamePrepared
  <2>4. CASE ~Retries(call, kind)
    <3>1. ThrowSqlError(t)
      BY <2>1, <2>4 DEF QueryError
    <3>2. SamePrepared(rs') /\ Return(t)
      BY <1>2, <3>1, SqlErrorFails DEF ThrowSqlError
    <3>3. QED
      BY <1>1, <1>2, <1>3, <1>4, <2>2, <3>2, OpChanges, RespondedPrepared
  <2>5. QED
    BY <2>3, <2>4
<1>10. CASE kind = "stmt"
  <2>1. QueryDone(t, r, prepared, "IDLE")
    BY <1>8, <1>10 DEF Response, Errors, prepared
  <2>2. QED
    BY <1>1, <1>2, <1>3, <1>4, <1>5, <1>6, <1>10, <2>1, RespondedPrepared
<1>11. CASE kind = "ok"
  <2>1. QueryDone(t, r, rs[r], s) /\ rs[r] \in Resultsets
    BY <1>2, <1>8, <1>11 DEF Response, Errors
  <2>2. QED
    BY <1>1, <1>2, <1>3, <1>4, <1>5, <1>11, <2>1, RespondedPrepared
<1>12. CASE kind \in {"okM", "cols"}
  <2>1. s # "IDLE" /\ ~call.err /\ kind \notin Errors \cup {"stmt"} /\ call.kind \in {"query", "three"}
    BY <1>1, <1>2, <1>12, StateAfterFacts DEF Errors
  <2>2. /\ cur' = r
        /\ IF call.void
           THEN /\ rs' = [rs EXCEPT ![r] = attached]
                /\ Step(t, [call EXCEPT !.pc = "discard", !.st = s])
           ELSE QueryDone(t, r, attached, s)
    BY <2>1 DEF Response, attached
  <2>3. SamePrepared(rs') /\ ~Awaits(op'[t]) /\ \A u \in Actors : u # t => op'[u] = op[u]
    <3>1. CASE call.void
      <4>1. [call EXCEPT !.pc = "discard", !.st = s].pc = "discard"
        BY <1>2 DEF Calls
      <4>2. SamePrepared(rs')
        BY <1>2, <1>6, <2>2, <3>1, SameExcept
      <4>3. QED
        BY <1>1, <1>2, <2>2, <3>1, <4>1, <4>2, OpChanges DEF Awaits
    <3>2. CASE ~call.void
      BY <1>5, <1>6, <2>2, <3>2
    <3>3. QED
      BY <3>1, <3>2
  <2>4. ~rs'[cur'].prep
    BY <1>2, <2>1, <2>2, <2>3 DEF SamePrepared, PreparedReplied
  <2>5. QED
    BY <1>1, <1>2, <1>3, <2>3, <2>4, RespondedPrepared
<1>13. QED
  BY <1>2, <1>9, <1>10, <1>11, <1>12 DEF Errors

LEMMA ExecResponsePrepared ==
    ASSUME MutexInv, PreparedInv, NEW t \in Tasks, ExecResponse(t)
    PROVE  PreparedInv'
<1> DEFINE call == op[t]
           r == call.r
           kind == NextPacket.kind
<1>1. /\ CanRead(t, "response") /\ call.kind = "exec" /\ call.kind \in Commands
      /\ conn = "open" /\ wire' = Tail(wire) /\ conn' = conn /\ t \in Actors
  BY EnderIsNoTask DEF ExecResponse, CanRead, Consume, Commands
<1>2. /\ ShapesOK /\ op \in [Actors -> Calls] /\ rs \in [Cmds -> Resultsets] /\ Awaits(call) /\ r \in Cmds
      /\ kind \in Errors \cup {"ok"} => wire' = <<>>
      /\ wire \in Seq(Packets) /\ wire # <<>>
  BY <1>1, AwaitsResponse
<1>3. kind \in {"ok", "cols", "err", "errR"} /\ (kind = "cols" => NoOks(wire))
  BY <1>1, ExecReplied
<1>4. moreExists' \in BOOLEAN
  BY FlagType DEF ExecResponse
<1>5. Return(t) /\ SamePrepared(rs')
  <2>1. CASE kind \in Errors
    <3>1. ThrowSqlError(t)
      BY <2>1 DEF ExecResponse
    <3>2. QED
      BY <1>2, <3>1, SqlErrorFails DEF ThrowSqlError
  <2>2. CASE kind \notin Errors
    <3>1. Return(t) /\ (rs' = rs \/ rs' = [rs EXCEPT ![r].live = TRUE, ![r].more = TRUE, ![r].failed = FALSE])
      BY <2>2 DEF ExecResponse
    <3> DEFINE attached == [rs[r] EXCEPT !.live = TRUE, !.more = TRUE, !.failed = FALSE]
    <3>2. [rs EXCEPT ![r].live = TRUE, ![r].more = TRUE, ![r].failed = FALSE] = [rs EXCEPT ![r] = attached]
      BY <1>2
    <3>3. attached.prep = rs[r].prep /\ attached.wrong = rs[r].wrong
      BY <1>2 DEF Resultsets
    <3> HIDE DEF attached
    <3>4. SamePrepared([rs EXCEPT ![r] = attached]) /\ SamePrepared(rs)
      BY <1>2, <3>3, SameExcept DEF SamePrepared
    <3>5. QED
      BY <3>1, <3>2, <3>4
  <2>3. QED
    BY <2>1, <2>2
<1>6. NoOks(wire')
  <2>1. NoOks(<<>>)
    BY DEF NoOks
  <2>2. CASE kind = "cols"
    BY <1>1, <1>2, <1>3, <2>2, TailNoOks
  <2>3. CASE kind # "cols"
    BY <1>2, <1>3, <2>1, <2>3 DEF Errors
  <2>4. QED
    BY <2>2, <2>3
<1>7. QED
  BY <1>1, <1>2, <1>4, <1>5, <1>6, OpChanges, RespondedPrepared

\* A method that fails closes the socket, unless it is end(), that reads no more.
LEMMA FailsPrepared ==
    ASSUME MutexInv, PreparedInv, NEW a \in Actors, NEW left, Fails(a, left), conn = "open",
           op[a].pc \notin {"idle", "wait", "reset", "initsql"}, op[a].kind = "query" => ~op[a].err,
           left => wire' = wire \/ wire' = <<>> \/ (wire # <<>> /\ wire' = Tail(wire)),
           moreExists' \in BOOLEAN
    PROVE  PreparedInv'
<1>1. ShapesOK
  BY DEF MutexInv
<1>2. CASE op[a].kind = "end"
  <2>1. Step(a, [op[a] EXCEPT !.pc = "finish", !.void = FALSE]) /\ rs' = rs /\ cur' = None /\ left
    BY <1>2 DEF Fails
  <2>2. ~Awaits(op[a])
    BY <1>2 DEF Awaits, Commands
  <2>3. [op[a] EXCEPT !.pc = "finish", !.void = FALSE].kind = "end"
    BY <1>1, <1>2 DEF ShapesOK, Calls
  <2>4. ~Awaits(op'[a]) /\ \A u \in Actors : u # a => op'[u] = op[u]
    BY <1>1, <2>1, <2>3, OpChanges DEF Awaits, Commands
  <2>5. QED
    BY <2>1, <2>2, <2>4, ReadsPrepared DEF SamePrepared
<1>3. CASE op[a].kind # "end"
  <2>1. conn' = "closed"
    BY <1>3 DEF Fails, ThrowFatal, CloseConn
  <2>2. QED
    BY <2>1, ClosedPrepared
<1>4. QED
  BY <1>2, <1>3

LEMMA LocalInfilePrepared ==
    ASSUME MutexInv, PreparedInv, NEW a \in Actors, LocalInfile(a)
    PROVE  PreparedInv'
<1>1. /\ op[a].pc \in {"response", "discard"} /\ conn = "open" /\ wire # <<>> /\ NextPacket.kind = "infile"
      /\ CanRead(a, "response") \/ op[a].pc = "discard"
      /\ moreExists' = moreExists /\ moreExists' \in BOOLEAN
  BY FlagType DEF LocalInfile, CanRead
<1>2. ShapesOK /\ CallsOk /\ wire \in Seq(Packets) /\ PreparedOpen
  BY <1>1 DEF MutexInv, ShapesOK, PreparedInv
<1>3. CASE Consume /\ UNCHANGED <<state, ends, cur, reader, rs, op>> /\ Awaits(op[a])
  <2>1. a \in Tasks /\ CanRead(a, "response") /\ op[a].kind \in Commands
    BY <1>1, <1>2, <1>3 DEF Awaits, CallsOk, Commands, Actors
  <2>2. PreparedReplied(op[a], rs, wire, moreExists) /\ op[a].kind # "prepare"
    BY <1>1, <2>1, AwaitsResponse
  <2>3. op[a].kind # "exec"
    BY <1>1, <2>1, ExecReplied
  <2>4. PreparedReplied(op'[a], rs', wire', moreExists')
    BY <1>3, <2>2, <2>3 DEF PreparedReplied
  <2>5. Alone(op, a)
    BY <1>1, <2>1, TaskHolds DEF TaskTurn
  <2>6. PreparedOpen'
    BY <1>2, <1>3, <2>1, <2>4, <2>5 DEF PreparedOpen, Alone, Awaits
  <2>7. QED
    BY <1>1, <2>6 DEF PreparedInv
<1>4. CASE Consume /\ UNCHANGED <<state, ends, cur, reader, rs, op>> /\ ~Awaits(op[a])
  BY <1>1, <1>4, ReadsPrepared DEF SamePrepared, Consume
<1>5. CASE Fails(a, Consume)
  <2>1. op[a].kind = "query" => ~op[a].err
    <3> SUFFICES ASSUME op[a].kind = "query", op[a].err
                 PROVE  FALSE
      OBVIOUS
    <3>1. a \in Tasks
      BY <1>2 DEF CallsOk, Actors
    <3>2. CASE op[a].pc = "response"
      <4>1. CanRead(a, "response") /\ op[a].kind \in Commands
        BY <1>1, <3>2 DEF Commands
      <4>2. NextPacket.kind \in Errors \cup {"ok"}
        BY <3>1, <4>1, AwaitsResponse
      <4>3. QED
        BY <1>1, <4>2 DEF Errors
    <3>3. CASE op[a].pc = "discard"
      <4>1. HoldsResults(op[a], cur, rs, wire, conn, lastReader)
        BY <1>1, <3>1, <3>3, TaskHolds DEF TaskTurn, HoldsCommand, HoldsReader
      <4>2. QED
        BY <4>1 DEF HoldsResults
    <3>4. QED
      BY <1>1, <3>2, <3>3
  <2>2. Consume => wire' = Tail(wire)
    BY DEF Consume
  <2>3. QED
    BY <1>1, <1>5, <2>1, <2>2, FailsPrepared
<1>6. QED
  BY <1>3, <1>4, <1>5 DEF LocalInfile

LEMMA ReadRowPrepared ==
    ASSUME MutexInv, PreparedInv, NEW t \in Tasks, ReadRow(t)
    PROVE  PreparedInv'
<1>1. /\ op[t].pc = "row" /\ conn = "open" /\ wire # <<>> /\ wire' = Tail(wire) /\ cur \in Cmds /\ cur # None
      /\ ShapesOK /\ rs \in [Cmds -> Resultsets] /\ op[t].stmt \in BOOLEAN
  BY EnderIsNoTask DEF ReadRow, CanRead, Consume, MutexInv, ShapesOK, Calls
<1>2. moreExists' \in BOOLEAN
  BY FlagType DEF ReadRow
<1>3. Return(t) /\ cur' \in {cur, None}
       /\ (ThrowSqlError(t) \/ rs' = rs \/ rs' = [rs EXCEPT ![cur] = Detached(rs[cur], op[t].stmt)])
  BY DEF ReadRow, ThrowSqlError
<1>4. SamePrepared([rs EXCEPT ![cur] = Detached(rs[cur], op[t].stmt)])
  BY <1>1, DetachedFacts, SameExcept
<1>5. SamePrepared(rs')
  <2>1. ThrowSqlError(t) => SamePrepared(rs')
    BY <1>1, SqlErrorFails
  <2>2. SamePrepared(rs)
    BY DEF SamePrepared
  <2>3. QED
    BY <1>3, <1>4, <2>1, <2>2
<1>6. ~Awaits(op[t])
  BY <1>1 DEF Awaits
<1>7. QED
  BY <1>1, <1>2, <1>3, <1>5, <1>6, EnderIsNoTask, OpChanges, ReadsPrepared

LEMMA ReadChunkPrepared ==
    ASSUME MutexInv, PreparedInv, NEW a \in Actors, ReadChunk(a)
    PROVE  PreparedInv'
<1> DEFINE new == [op[a] EXCEPT !.pc = IF colLeft = 1 THEN "discard" ELSE "chunk"]
<1>1. /\ op[a].pc = "chunk" /\ conn = "open" /\ ShapesOK /\ op[a] \in Calls
      /\ Return(a) \/ Step(a, new)
      /\ UNCHANGED <<cur, rs, wire, moreExists>>
  BY DEF ReadChunk, MutexInv, ShapesOK
<1>2. new.pc \in {"discard", "chunk"}
  BY <1>1 DEF Calls
<1> HIDE DEF new
<1>3. ~Awaits(op[a]) /\ ~Awaits(new)
  BY <1>1, <1>2 DEF Awaits
<1>4. ~Awaits(op'[a]) /\ \A u \in Actors : u # a => op'[u] = op[u]
  BY <1>1, <1>3, OpChanges
<1>5. moreExists' \in BOOLEAN
  BY <1>1, FlagType
<1>6. QED
  BY <1>1, <1>3, <1>4, <1>5, ReadsPrepared DEF SamePrepared

LEMMA NextResponsePrepared ==
    ASSUME MutexInv, PreparedInv, NEW t \in Tasks, NextResponse(t)
    PROVE  PreparedInv'
<1>1. ~TakesOkForStmt /\ wire # <<>>
  BY EnderIsNoTask, NoOkForStmt DEF NextResponse, CanRead
<1>2. /\ op[t].pc = "response" /\ op[t].kind = "next" /\ conn = "open" /\ Consume /\ ReadFlags
      /\ cur' \in {cur, None} /\ (ThrowSqlError(t) \/ Return(t))
      /\ ThrowSqlError(t) \/ rs' = rs \/ rs' = [rs EXCEPT ![cur] = Detached(rs[cur], op[t].stmt)]
  BY <1>1, NextResponseUnfolds
<1>3. ShapesOK /\ rs \in [Cmds -> Resultsets] /\ op[t].stmt \in BOOLEAN /\ cur \in Cmds
  BY <1>2, ResultsHold
<1>4. Return(t) /\ moreExists' \in BOOLEAN
  BY <1>2, FlagType DEF ThrowSqlError
<1>5. SamePrepared(rs')
  <2>1. ThrowSqlError(t) => SamePrepared(rs')
    BY <1>3, SqlErrorFails
  <2>2. SamePrepared(rs) /\ SamePrepared([rs EXCEPT ![cur] = Detached(rs[cur], op[t].stmt)])
    <3> DEFINE res == Detached(rs[cur], op[t].stmt)
    <3>1. res.prep = rs[cur].prep /\ res.wrong = rs[cur].wrong
      BY <1>3, DetachedFacts
    <3> HIDE DEF res
    <3>2. SamePrepared([rs EXCEPT ![cur] = res])
      BY <1>3, <3>1, SameExcept
    <3>3. QED
      BY <3>2 DEF res, SamePrepared
  <2>3. QED
    BY <1>2, <2>1, <2>2
<1>6. ~Awaits(op[t])
  BY <1>2 DEF Awaits, Commands
<1>7. QED
  BY <1>1, <1>2, <1>3, <1>4, <1>5, <1>6, EnderIsNoTask, OpChanges, ReadsPrepared DEF Consume

LEMMA DiscardPrepared ==
    ASSUME MutexInv, PreparedInv, NEW a \in Actors, Discard(a)
    PROVE  PreparedInv'
<1> DEFINE call == op[a]
           kind == NextPacket.kind
           s == DiscardState(call.st, kind, rs[cur].prep)
           res == Detached(rs[cur], call.stmt)
           done == [rs EXCEPT ![cur] = res]
<1>1. ~TakesOkForStmt /\ wire # <<>>
  BY NoOkForStmt DEF Discard, CanRead
<1>2. /\ call.pc = "discard" /\ conn = "open" /\ cur # None /\ ReadFlags
      /\ \/ kind \in Errors /\ Consume /\ DiscardThrows(a)
         \/ Consume /\ Step(a, [call EXCEPT !.st = s]) /\ UNCHANGED <<cur, rs>>
         \/ Discarded(a, s, rs, Consume)
  BY <1>1, DiscardUnfolds
<1>3. ShapesOK /\ rs \in [Cmds -> Resultsets] /\ call \in Calls /\ call.stmt \in BOOLEAN /\ cur \in Cmds
  BY <1>2 DEF MutexInv, ShapesOK, Calls
<1>4. moreExists' \in BOOLEAN /\ ~Awaits(call)
  BY <1>2, FlagType DEF Awaits
<1>5. ASSUME NEW x, x = call \/ x.kind \in {"next", "end"} \/ x.pc = "discard", Step(a, x)
      PROVE  ~Awaits(op'[a]) /\ \A u \in Actors : u # a => op'[u] = op[u]
  <2>1. ~Awaits(x)
    BY <1>4, <1>5 DEF Awaits, Commands
  <2>2. QED
    BY <1>3, <1>5, <2>1, OpChanges
<1>6. Return(a) => ~Awaits(op'[a]) /\ \A u \in Actors : u # a => op'[u] = op[u]
  BY <1>3, OpChanges
<1>7. ASSUME SamePrepared(rs'), cur' \in {cur, None}, Consume \/ CloseConn,
             ~Awaits(op'[a]) /\ \A u \in Actors : u # a => op'[u] = op[u]
      PROVE  PreparedInv'
  BY <1>1, <1>2, <1>4, <1>7, ReadsPrepared DEF Consume, CloseConn
<1>8. /\ SamePrepared(rs) /\ SamePrepared(done) /\ done \in [Cmds -> Resultsets] /\ done[cur] = res /\ res \in Resultsets
      /\ res.prep = rs[cur].prep /\ res.wrong = rs[cur].wrong
  <2>1. /\ done \in [Cmds -> Resultsets] /\ done[cur] = res /\ res \in Resultsets
        /\ res.prep = rs[cur].prep /\ res.wrong = rs[cur].wrong
    BY <1>3, DetachedFacts
  <2> HIDE DEF res
  <2>2. SamePrepared(done)
    BY <1>3, <2>1, SameExcept
  <2>3. QED
    BY <2>1, <2>2 DEF SamePrepared
<1>9. CASE kind \in Errors /\ Consume /\ DiscardThrows(a)
  <2>1. CASE ThrowSqlError(a) /\ cur' = cur
    <3>1. SamePrepared(rs') /\ Return(a)
      BY <1>3, <2>1, SqlErrorFails DEF ThrowSqlError
    <3>2. QED
      BY <1>6, <1>7, <1>9, <2>1, <3>1
  <2>2. CASE call.kind = "end" /\ Step(a, [call EXCEPT !.pc = "finish", !.void = FALSE]) /\ cur' = None /\ rs' = rs
    <3>1. [call EXCEPT !.pc = "finish", !.void = FALSE].kind = "end"
      BY <1>3, <2>2 DEF Calls
    <3>2. QED
      BY <1>5, <1>7, <1>8, <1>9, <2>2, <3>1
  <2>3. QED
    BY <1>9, <2>1, <2>2 DEF DiscardThrows
<1>10. CASE Consume /\ Step(a, [call EXCEPT !.st = s]) /\ UNCHANGED <<cur, rs>>
  <2>1. [call EXCEPT !.st = s].pc = "discard"
    BY <1>2, <1>3 DEF Calls
  <2>2. QED
    BY <1>5, <1>7, <1>8, <1>10, <2>1
<1> HIDE DEF s, res, done
<1>11. CASE Discarded(a, s, rs, Consume)
  <2> DEFINE nextCall == [call EXCEPT !.pc = "response", !.st = s, !.stmt = rs[cur].stmt]
             endCall == [call EXCEPT !.pc = "finish", !.st = s]
             kept == [done EXCEPT ![cur].more = TRUE]
  <2>1. nextCall.kind = call.kind /\ endCall.kind = call.kind
    BY <1>3 DEF Calls
  <2>2. SamePrepared(kept)
    <3> DEFINE x == [res EXCEPT !.more = TRUE]
    <3>1. kept = [rs EXCEPT ![cur] = x]
      BY <1>3, <1>8 DEF done
    <3>2. x.prep = rs[cur].prep /\ x.wrong = rs[cur].wrong
      BY <1>8 DEF Resultsets
    <3> HIDE DEF x, kept
    <3>3. QED
      BY <1>3, <3>1, <3>2, SameExcept
  <2>3. ASSUME NEW y, QueryDone(a, cur, done[cur], y)
        PROVE  SamePrepared(rs') /\ Return(a)
    <3> DEFINE e == res.given \/ ~call.err
               x == [res EXCEPT !.given = e]
    <3>1. rs' = [rs EXCEPT ![cur] = x] /\ Return(a)
      BY <1>8, <2>3 DEF QueryDone
    <3>2. x.prep = rs[cur].prep /\ x.wrong = rs[cur].wrong
      BY <1>8 DEF Resultsets
    <3> HIDE DEF x
    <3>3. QED
      BY <1>3, <3>1, <3>2, SameExcept
  <2> HIDE DEF nextCall, endCall, kept
  <2>4. CASE call.kind = "next" /\ Step(a, nextCall) /\ rs' = rs /\ Consume /\ cur' = cur
    BY <1>5, <1>7, <1>8, <2>1, <2>4
  <2>5. CASE rs' = done /\ cur' = None /\ Return(a) /\ (Consume \/ CloseConn)
    BY <1>6, <1>7, <1>8, <2>5
  <2>6. CASE QueryDone(a, cur, done[cur], s) /\ cur' = None /\ Consume
    BY <1>6, <1>7, <2>3, <2>6
  <2>7. CASE call.kind = "end" /\ rs' = kept /\ cur' = None /\ Step(a, endCall) /\ Consume
    BY <1>5, <1>7, <2>1, <2>2, <2>7
  <2>8. QED
    BY <1>11, <2>4, <2>5, <2>6, <2>7 DEF Discarded, nextCall, endCall, kept, done, res
<1>12. QED
  BY <1>2, <1>9, <1>10, <1>11

LEMMA ContinuePrepared ==
    ASSUME MutexInv, PreparedInv, CopedWith, NEW a \in Actors, Continue(a)
    PROVE  PreparedInv'
<1>1. (a # Ender => a \in Tasks) /\ op[Ender].pc \notin {"send", "aux", "response", "row"}
  BY DEF Actors, MutexInv, CallsOk
<1>2. CASE Send(a)
  BY <1>1, <1>2, SendPrepared DEF Send
<1>3. CASE ReadAux(a)
  BY <1>1, <1>3, ReadAuxPrepared DEF ReadAux, CanRead
<1>4. CASE Response(a)
  BY <1>1, <1>4, ResponsePrepared DEF Response, CanRead
<1>5. CASE ExecResponse(a)
  BY <1>1, <1>5, ExecResponsePrepared DEF ExecResponse, CanRead
<1>6. CASE LocalInfile(a)
  BY <1>6, LocalInfilePrepared
<1>7. CASE ReadRow(a)
  BY <1>1, <1>7, ReadRowPrepared DEF ReadRow, CanRead
<1>8. CASE ReadChunk(a)
  BY <1>8, ReadChunkPrepared
<1>9. CASE NextResponse(a)
  BY <1>1, <1>9, NextResponsePrepared DEF NextResponse, CanRead
<1>10. CASE Discard(a)
  BY <1>10, DiscardPrepared
<1>11. CASE IoFails(a)
  <2>1. conn' # "open" /\ moreExists' = moreExists
    BY <1>11 DEF IoFails, Fails, KeepConn, ThrowFatal, CloseConn
  <2>2. QED
    BY <2>1, FlagType, ClosedPrepared
<1>12. QED
  BY <1>2, <1>3, <1>4, <1>5, <1>6, <1>7, <1>8, <1>9, <1>10, <1>11 DEF Continue

\* Only end() works, and it does not read what a query has left.
LEMMA EnderPrepared ==
    ASSUME MutexInv, PreparedInv, conn = "open", op[Ender].pc \in {"finish", "reset", "initsql"},
           UNCHANGED <<cur, rs, moreExists>>, NEW call, op' = [op EXCEPT ![Ender] = call],
           call.pc \in {"reset", "initsql"} \/ wire' = <<>>
    PROVE  PreparedInv'
<1>1. ShapesOK /\ CallsOk /\ PreparedOpen
  BY DEF MutexInv, PreparedInv
<1>2. AllIdle(op)
  <2>1. EndReadsTurn \/ EndTurn
    BY EnderHolds
  <2>2. QED
    BY <2>1 DEF EndReadsTurn, EndTurn
<1>3. op'[Ender] = call /\ \A t \in Tasks : op'[t].pc = "idle"
  BY <1>1, <1>2, EnderIsNoTask DEF ShapesOK, AllIdle
<1>4. \A t \in Tasks : ~Awaits(op'[t])
  BY <1>3 DEF Awaits
<1>5. wire' = <<>> => NoOks(wire')
  BY DEF NoOks
<1>6. PreparedOpen'
  BY <1>1, <1>3, <1>4, <1>5 DEF PreparedOpen
<1>7. QED
  BY <1>6, FlagType DEF PreparedInv

LEMMA QuitPrepared ==
    ASSUME MutexInv, PreparedInv, Quit, op[Ender].pc \in {"finish", "reset", "initsql"}, UNCHANGED moreExists
    PROVE  PreparedInv'
<1>1. conn' # "open"
  <2>1. CASE conn = "open"
    <3>1. EndTurn
      <4>1. EndReadsTurn \/ EndTurn
        BY <2>1, EnderHolds
      <4>2. QED
        BY <4>1 DEF EndReadsTurn, HoldsReader
    <3>2. QED
      BY <2>1, <3>1 DEF EndTurn, HoldsEnd, Resting, More, Quit, CloseConn
  <2>2. CASE conn # "open"
    BY <2>2 DEF Quit, KeepConn, CloseConn
  <2>3. QED
    BY <2>1, <2>2
<1>2. QED
  BY <1>1, FlagType, ClosedPrepared

LEMMA EndContinuesPrepared ==
    ASSUME MutexInv, PreparedInv, EndContinues
    PROVE  PreparedInv'
<1>1. ShapesOK
  BY DEF MutexInv
<1>2. CASE EndResumes
  <2>1. /\ op[Ender].pc = "wait" /\ Step(Ender, EndCall(endState, op[Ender].void)) /\ EndSkips(endState)
        /\ UNCHANGED <<conn, wire, moreExists>>
    BY <1>2 DEF EndResumes
  <2>2. SamePrepared(rs') /\ cur' \in {cur, None}
    BY <1>1, <2>1, EndSkipsFacts
  <2>3. \A t \in Tasks : op'[t] = op[t]
    BY <1>1, <2>1, OpChanges, EnderIsNoTask
  <2>4. QED
    BY <2>1, <2>2, <2>3, KeepsPrepared
<1>3. CASE EndFinishes
  <2>1. op[Ender].pc = "finish" /\ UNCHANGED <<cur, rs, moreExists>>
    BY <1>3 DEF EndFinishes
  <2>2. CASE Quit
    BY <2>1, <2>2, QuitPrepared
  <2>3. CASE conn = "open" /\ Step(Ender, [op[Ender] EXCEPT !.pc = "reset", !.cmd = None, !.r = None])
    <3> DEFINE call == [op[Ender] EXCEPT !.pc = "reset", !.cmd = None, !.r = None]
    <3>1. call.pc = "reset"
      BY <1>1, EnderIsNoTask DEF ShapesOK, Calls
    <3>2. op' = [op EXCEPT ![Ender] = call]
      BY <2>3 DEF Step
    <3> HIDE DEF call
    <3>3. QED
      BY <2>1, <2>3, <3>1, <3>2, EnderPrepared
  <2>4. QED
    BY <1>3, <2>2, <2>3 DEF EndFinishes
<1>4. CASE ResetRead
  <2>1. op[Ender].pc = "reset" /\ conn = "open" /\ UNCHANGED <<cur, rs, moreExists>>
    BY <1>4 DEF ResetRead, stmts
  <2>2. CASE Quit
    BY <2>1, <2>2, QuitPrepared
  <2>3. CASE op' = [op EXCEPT ![Ender].pc = "initsql"]
    <3> DEFINE call == [op[Ender] EXCEPT !.pc = "initsql"]
    <3>1. call.pc = "initsql" /\ op' = [op EXCEPT ![Ender] = call]
      BY <1>1, <2>3, EnderIsNoTask DEF ShapesOK, Calls
    <3> HIDE DEF call
    <3>2. QED
      BY <2>1, <3>1, EnderPrepared
  <2>4. QED
    BY <1>4, <2>2, <2>3 DEF ResetRead
<1>5. CASE InitSqlRead
  <2>1. op[Ender].pc = "initsql" /\ conn = "open" /\ wire # <<>> /\ UNCHANGED <<cur, rs, moreExists>>
    BY <1>5 DEF InitSqlRead, stmts
  <2>2. CASE Quit
    BY <2>1, <2>2, QuitPrepared
  <2>3. CASE Len(wire) = 1 /\ Finished("recycled") /\ Consume
    <3>1. wire' = <<>>
      BY <1>1, <2>1, <2>3, TailFacts DEF ShapesOK, Consume
    <3>2. op' = [op EXCEPT ![Ender] = NoCall]
      BY <2>3 DEF Finished
    <3>3. QED
      BY <2>1, <3>1, <3>2, EnderPrepared
  <2>4. CASE UNCHANGED op
    <3>1. op' = [op EXCEPT ![Ender] = op[Ender]]
      BY <1>1, <2>4, EnderIsNoTask DEF ShapesOK
    <3>2. QED
      BY <2>1, <3>1, EnderPrepared
  <2>5. QED
    BY <1>5, <2>2, <2>3, <2>4 DEF InitSqlRead
<1>6. CASE ResetFails
  BY <1>6, QuitPrepared DEF ResetFails
<1>7. QED
  BY <1>2, <1>3, <1>4, <1>5, <1>6 DEF EndContinues

LEMMA NextPrepared ==
    ASSUME MutexInv, PreparedInv, CopedWith, [Next]_vars
    PROVE  PreparedInv'
<1>1. ShapesOK /\ rs \in [Cmds -> Resultsets]
  BY DEF MutexInv, ShapesOK
<1>2. CASE \E a \in Actors : Continue(a)
  BY <1>2, ContinuePrepared
<1>3. CASE EndContinues
  BY <1>3, EndContinuesPrepared
<1>4. CASE \E t \in Tasks : Call(t)
  BY <1>4, CallPrepared
<1>5. CASE DisposePreparedStmt
  <2>1. PICK r \in Cmds : rs' = [rs EXCEPT ![r].stmt = FALSE, ![r].live = rs[r].more]
    BY <1>5 DEF DisposePreparedStmt
  <2> DEFINE res == [rs[r] EXCEPT !.stmt = FALSE, !.live = rs[r].more]
  <2>2. rs' = [rs EXCEPT ![r] = res] /\ res.prep = rs[r].prep /\ res.wrong = rs[r].wrong
    BY <1>1, <2>1 DEF Resultsets
  <2> HIDE DEF res
  <2>3. SamePrepared(rs')
    BY <1>1, <2>2, SameExcept
  <2>4. QED
    BY <1>5, <2>3, KeepsPrepared DEF DisposePreparedStmt
<1>6. CASE End
  <2>1. op[Ender].pc = "idle" /\ UNCHANGED <<conn, wire, moreExists>>
    BY <1>6 DEF End, stmts
  <2>2. \E call : Step(Ender, call)
    BY <1>6 DEF End
  <2>3. \A t \in Tasks : op'[t] = op[t]
    BY <1>1, <2>2, OpChanges, EnderIsNoTask
  <2>4. SamePrepared(rs') /\ cur' \in {cur, None}
    <3>1. UNCHANGED <<rs, cur>> \/ EndSkips(state)
      BY <1>6 DEF End
    <3>2. QED
      BY <1>1, <3>1, EndSkipsFacts DEF SamePrepared
  <2>5. QED
    BY <2>1, <2>3, <2>4, KeepsPrepared
<1>7. CASE ForceImmediateDisconnect \/ Break
  <2>1. conn' # "open" /\ moreExists' = moreExists
    BY <1>7 DEF ForceImmediateDisconnect, Break, CloseConn
  <2>2. QED
    BY <2>1, FlagType, ClosedPrepared
<1>8. CASE UNCHANGED vars
  BY <1>8, KeepsPrepared DEF vars, SamePrepared
<1>9. QED
  BY <1>2, <1>3, <1>4, <1>5, <1>6, <1>7, <1>8 DEF Next

-----------------------------------------------------------------------------
(* The invariant.                                                          *)

LEMMA InitInv ==
    ASSUME Init
    PROVE  MutexInv
<1>1. op = [a \in Actors |-> NoCall] /\ op \in [Actors -> Calls] /\ \A a \in Actors : op[a] = NoCall
  BY CallTypes DEF Init
<1>2. rs = [r \in Cmds |-> NoResultsets] /\ NoResultsets \in Resultsets /\ NoResultsets.more = FALSE
  BY DEF Init, NoResultsets, Resultsets, Cmds, None
<1>3. rs \in [Cmds -> Resultsets] /\ Loose(rs) = {}
  BY <1>2 DEF Loose
<1>4. ShapesOK
  BY <1>1, <1>3, ConstantsAssumption DEF Init, ShapesOK, ProtocolState
<1>5. CallsOk
  BY <1>1, EnderIsNoTask, CallTypes DEF CallsOk
<1>6. Settled(state, cur, rs, wire, conn)
  BY <1>3 DEF Init, Settled, Unread, Resting, More
<1>7. ReadyTurn
  BY <1>1, <1>6, EnderIsNoTask, CallTypes DEF Init, ReadyTurn, AllIdle
<1>8. QED
  BY <1>4, <1>5, <1>7 DEF MutexInv, Turn, Init

LEMMA StutterInv ==
    ASSUME MutexInv, UNCHANGED vars
    PROVE  MutexInv'
<1>1. /\ state' = state /\ onEndSession' = onEndSession /\ endState' = endState /\ cur' = cur
      /\ lastReader' = lastReader /\ isReading' = isReading /\ colLeft' = colLeft
      /\ pendingCloseStmts' = pendingCloseStmts /\ srvStmts' = srvStmts /\ rs' = rs /\ op' = op
      /\ ended' = ended /\ conn' = conn /\ wire' = wire /\ ncmd' = ncmd
  BY DEF vars, ends, reader, stmts
<1>2. ShapesOK' /\ CallsOk'
  BY <1>1 DEF MutexInv, ShapesOK, CallsOk
<1>3. Closed => Closed'
  BY <1>1 DEF Closed
<1>4. Turn => Turn'
  BY <1>1 DEF Turn, TaskTurn, ReaderTurn, ReadyTurn, ToldTurn, EndReadsTurn, EndTurn, OverTurn
<1>5. QED
  BY <1>1, <1>2, <1>3, <1>4 DEF MutexInv

\* What is done of a call when it continues belongs to a task, except the reading of
\* the last column and of what end() discards.
LEMMA ContinueInv ==
    ASSUME MutexInv, PreparedInv, CopedWith, NEW a \in Actors, Continue(a)
    PROVE  MutexInv'
<1>1. a # Ender => a \in Tasks
  BY DEF Actors
<1>2. op[Ender].pc \notin {"send", "aux", "response", "row"}
  BY DEF MutexInv, CallsOk
<1>3. CASE Send(a)
  BY <1>1, <1>2, <1>3, SendInv DEF Send
<1>4. CASE ReadAux(a)
  BY <1>1, <1>2, <1>4, ReadAuxInv DEF ReadAux, CanRead
<1>5. CASE Response(a)
  BY <1>1, <1>2, <1>5, ResponseInv DEF Response, CanRead
<1>6. CASE LocalInfile(a)
  BY <1>6, LocalInfileInv
<1>7. CASE ReadRow(a)
  BY <1>1, <1>2, <1>7, ReadRowInv DEF ReadRow, CanRead
<1>8. CASE ReadChunk(a)
  BY <1>8, ReadChunkInv
<1>9. CASE NextResponse(a)
  BY <1>1, <1>2, <1>9, NextResponseInv DEF NextResponse, CanRead
<1>10. CASE Discard(a)
  BY <1>10, DiscardInv
<1>11. CASE IoFails(a)
  BY <1>11, IoFailsInv
<1>12. CASE ExecResponse(a)
  BY <1>1, <1>2, <1>12, ExecResponseInv DEF ExecResponse, CanRead
<1>13. QED
  BY <1>3, <1>4, <1>5, <1>6, <1>7, <1>8, <1>9, <1>10, <1>11, <1>12 DEF Continue

LEMMA CallInv ==
    ASSUME MutexInv, CopedWith, NEW t \in Tasks, Call(t)
    PROVE  MutexInv'
<1>1. \A kinds : AuxOnly(kinds) \subseteq AuxLists
  BY DEF AuxOnly
<1>2. CASE SendComQuery(t)
  BY <1>1, <1>2, NewResultsetsInv DEF SendComQuery
<1>3. CASE SendThreeQueries(t)
  BY <1>3, NewResultsetsInv DEF SendThreeQueries
<1>4. CASE SendComStmtPrepare(t)
  BY <1>1, <1>4, NewResultsetsInv DEF SendComStmtPrepare
<1>5. CASE ExecStmt(t)
  BY <1>5, ExecStmtInv
<1>6. CASE Fetch(t)
  BY <1>6, FetchInv
<1>7. CASE Read(t)
  BY <1>7, ReadInv
<1>8. CASE NextResultset(t)
  BY <1>8, NextResultsetInv
<1>9. QED
  BY <1>2, <1>3, <1>4, <1>5, <1>6, <1>7, <1>8 DEF Call

LEMMA NextInv ==
    ASSUME MutexInv, PreparedInv, CopedWith, [Next]_vars
    PROVE  MutexInv'
<1>1. CASE \E a \in Actors : Continue(a)
  BY <1>1, ContinueInv
<1>2. CASE EndContinues
  BY <1>2, EndResumesInv, EndFinishesInv, ResetReadInv, InitSqlReadInv, ResetFailsInv DEF EndContinues
<1>3. CASE \E t \in Tasks : Call(t)
  BY <1>3, CallInv
<1>4. CASE DisposePreparedStmt \/ End \/ ForceImmediateDisconnect \/ Break
  BY <1>4, DisposePreparedStmtInv, EndInv, ForceImmediateDisconnectInv, BreakInv
<1>5. CASE UNCHANGED vars
  BY <1>5, StutterInv
<1>6. QED
  BY <1>1, <1>2, <1>3, <1>4, <1>5 DEF Next

LEMMA SpecMutex ==
    ASSUME CopedWith
    PROVE  Spec => [](MutexInv /\ PreparedInv)
<1>1. Init => MutexInv /\ PreparedInv
  BY InitInv, InitPrepared
<1>2. MutexInv /\ PreparedInv /\ [Next]_vars => (MutexInv /\ PreparedInv)'
  BY NextInv, NextPrepared
<1>3. QED
  BY <1>1, <1>2, PTL DEF Spec

\* The kinds of all variables are what the declarations say, for any set of tasks and
\* any replies of the server with which the code copes.
THEOREM ProtocolTypeCorrect ==
    ASSUME CopedWith
    PROVE  Spec => []TypeOK
<1>1. MutexInv /\ PreparedInv => TypeOK
  BY DEF MutexInv, PreparedInv, TypeOK
<1>2. QED
  BY <1>1, SpecMutex, PTL

\* When `#state` is IDLE, or end() has given the connection back, no packet is left of
\* an earlier command and no call is about to read one.
THEOREM ProtocolNothingUnread ==
    ASSUME CopedWith
    PROVE  Spec => []NothingUnread
<1>1. ASSUME MutexInv
      PROVE  NothingUnread
  <2>1. CASE conn = "open" /\ state \in Resting
    <3>1. ReadyTurn
      BY <1>1, <2>1, ReadyHolds
    <3>2. wire = <<>>
      BY <2>1, <3>1 DEF ReadyTurn, Settled, Unread
    <3>3. Reading = {}
      BY <3>1 DEF ReadyTurn, AllIdle, Reading, Actors
    <3>4. QED
      BY <3>2, <3>3 DEF NothingUnread
  <2>2. CASE conn = "open" /\ ended = "recycled"
    <3>1. OverTurn
      BY <1>1, <2>2 DEF MutexInv, Turn, TaskTurn, Engaged, ReaderTurn, ReadyTurn, ToldTurn, EndReadsTurn, EndTurn
    <3>2. wire = <<>> /\ Reading = {}
      BY <3>1 DEF OverTurn, AllIdle, Reading, Actors
    <3>3. QED
      BY <3>2 DEF NothingUnread
  <2>3. QED
    BY <2>1, <2>2 DEF NothingUnread, Resting
<1>2. QED
  BY <1>1, SpecMutex, PTL

\* Of the tasks and end() one reads from the socket, and the packet that it reads
\* next belongs to its own command.
THEOREM ProtocolOneReader ==
    ASSUME CopedWith
    PROVE  Spec => []OneReader
<1>1. ASSUME MutexInv, conn = "open"
      PROVE  \E x \in Actors : Reading \subseteq {x} /\ (wire # <<>> /\ x \in Reading => NextPacket.cmd = op[x].cmd)
  <2>1. Turn /\ wire \in Seq(Packets) /\ rs \in [Cmds -> Resultsets] /\ op \in [Actors -> Calls] /\ CallsOk
    BY <1>1 DEF MutexInv, ShapesOK
  <2>2. \A cmd : wire # <<>> /\ Tagged(wire, cmd) => NextPacket.cmd = cmd
    BY <2>1, TailTagged DEF NextPacket
  <2>3. \A c : \A s \in More : Settled(s, c, rs, wire, conn) => Tagged(wire, rs[c].cmd)
    BY <1>1 DEF Settled, Unread
  <2>4. CASE \E t \in Tasks : TaskTurn(t)
    <3>1. PICK t \in Tasks : TaskTurn(t)
      BY <2>4
    <3>2. Reading \subseteq {t}
      BY <3>1 DEF TaskTurn, Alone, Engaged, Reading, Actors
    <3>3. ASSUME t \in Reading
          PROVE  Tagged(wire, op[t].cmd)
      <4>1. CASE HoldsCommand(op[t], rs, wire, conn, lastReader)
        BY <1>1, <3>3, <4>1 DEF HoldsCommand, Replied, Reading
      <4>2. CASE HoldsResults(op[t], cur, rs, wire, conn, lastReader)
        BY <2>3, <4>2 DEF HoldsResults
      <4>3. CASE HoldsReader(op[t], cur, rs, wire, conn, lastReader, isReading, colLeft)
        BY <2>3, <4>3 DEF HoldsReader
      <4>4. QED
        BY <3>1, <4>1, <4>2, <4>3 DEF TaskTurn
    <3>4. QED
      BY <2>2, <3>2, <3>3 DEF Actors
  <2>5. CASE ReaderTurn \/ ReadyTurn \/ ToldTurn \/ OverTurn
    <3>1. Reading = {}
      BY <2>5 DEF ReaderTurn, ReadyTurn, ToldTurn, OverTurn, AllIdle, Engaged, Reading, Actors
    <3>2. QED
      BY <3>1 DEF Actors
  <2>6. CASE EndReadsTurn
    <3>1. Reading \subseteq {Ender} /\ Tagged(wire, op[Ender].cmd)
      BY <2>3, <2>6 DEF EndReadsTurn, AllIdle, HoldsReader, Reading, Actors
    <3>2. QED
      BY <2>2, <3>1 DEF Actors
  <2>7. CASE EndTurn
    <3>1. Reading \subseteq {Ender} /\ HoldsEnd(op[Ender], cur, rs, wire, conn)
      BY <2>7 DEF EndTurn, AllIdle, Reading, Actors
    <3>2. Ender \in Reading => Tagged(wire, op[Ender].cmd)
      BY <1>1, <2>3, <3>1 DEF HoldsEnd, Reading
    <3>3. QED
      BY <2>2, <3>1, <3>2 DEF Actors
  <2>8. QED
    BY <2>1, <2>4, <2>5, <2>6, <2>7 DEF Turn
<1>2. ASSUME MutexInv
      PROVE  OneReader
  <2>1. wire # <<>> => conn = "open"
    BY <1>2 DEF MutexInv
  <2>2. ASSUME conn = "open"
        PROVE  Cardinality(Reading) <= 1 /\ \A a \in Reading : wire # <<>> => NextPacket.cmd = op[a].cmd
    <3>1. PICK x \in Actors : Reading \subseteq {x} /\ (wire # <<>> /\ x \in Reading => NextPacket.cmd = op[x].cmd)
      BY <1>1, <1>2, <2>2
    <3>2. Reading = {} \/ Reading = {x}
      BY <3>1
    <3>3. Cardinality({}) = 0 /\ Cardinality({x}) = 1
      BY FS_EmptySet, FS_Singleton
    <3>4. Cardinality(Reading) = 0 \/ Cardinality(Reading) = 1
      BY <3>2, <3>3, Zenon
    <3>5. \A a \in Reading : a = x
      BY <3>1
    <3>6. QED
      BY <3>1, <3>4, <3>5
  <2>3. QED
    BY <2>1, <2>2 DEF OneReader
<1>3. QED
  BY <1>2, SpecMutex, PTL

\* From the call of end() on, `#state` forbids new commands and rows, whatever was in
\* progress when it was called.
THEOREM ProtocolEndedIsUnusable ==
    ASSUME CopedWith
    PROVE  Spec => []EndedIsUnusable
<1>1. ASSUME MutexInv
      PROVE  EndedIsUnusable
  <2>1. CASE conn = "closed"
    BY <1>1, <2>1 DEF MutexInv, Closed, More, CallsOk, ShapesOK, EndedIsUnusable
  <2>2. CASE conn # "closed"
    BY <1>1, <2>2, ReadyHolds DEF ReadyTurn, EndedIsUnusable, Resting, More
  <2>3. QED
    BY <2>1, <2>2
<1>2. QED
  BY <1>1, SpecMutex, PTL

-----------------------------------------------------------------------------
(* No prepared statement is forgotten.                                     *)

\* The statement that a call prepares is open in the server: its id is to be read.
Prepared(call) == call.kind = "prepare" /\ call.r \in srvStmts

StmtsKnown ==
    conn = "open" /\ ended = "no" /\ op[Ender].pc = "idle" => \A r \in srvStmts :
        \/ rs[r].stmt \/ r \in pendingCloseStmts
        \/ \E t \in Tasks : op[t].kind = "prepare" /\ op[t].r = r

StmtInv ==
    /\ srvStmts \subseteq 1 .. ncmd
    /\ \A t \in Tasks : op[t].kind = "prepare" => op[t].r \in 1 .. ncmd /\ op[t].pc # "idle"
    /\ \A t \in Tasks : conn = "open" /\ Prepared(op[t]) =>
          op[t].pc \in {"aux", "response"} /\ wire[Len(op[t].aux) + 1].kind = "stmt"
    /\ op[Ender].pc \in {"reset", "initsql"} \/ ended = "recycled" => srvStmts = {}
    /\ StmtsKnown

LEMMA PreparedFacts ==
    ASSUME MutexInv, StmtInv, conn = "open", NEW t \in Tasks, Prepared(op[t])
    PROVE  /\ op[t].pc \in {"aux", "response"} /\ TaskTurn(t) /\ HoldsCommand(op[t], rs, wire, conn, lastReader)
           /\ wire[Len(op[t].aux) + 1].kind = "stmt"
           /\ op[t].pc = "response" => wire # <<>> /\ NextPacket.kind = "stmt"
<1>1. op[t].pc \in {"aux", "response"} /\ wire[Len(op[t].aux) + 1].kind = "stmt"
  BY DEF StmtInv
<1>2. TaskTurn(t) /\ HoldsCommand(op[t], rs, wire, conn, lastReader)
  <2>1. TaskTurn(t)
    BY <1>1, TaskHolds
  <2>2. QED
    BY <2>1 DEF TaskTurn, HoldsResults, HoldsReader, Prepared
<1>3. wire \in Seq(Packets)
  BY DEF MutexInv, ShapesOK
<1>4. ASSUME op[t].pc = "response"
      PROVE  wire # <<>> /\ NextPacket.kind = "stmt"
  <2>1. op[t].aux = <<>> /\ Chain(wire, Len(op[t].aux))
    BY <1>2, <1>4 DEF HoldsCommand, Replied
  <2>2. Len(op[t].aux) = 0
    BY <2>1
  <2>3. wire # <<>>
    BY <2>1, <2>2, TailChain, <1>3
  <2>4. QED
    BY <1>1, <1>3, <2>2, <2>3, TailFacts DEF NextPacket
<1>5. QED
  BY <1>1, <1>2, <1>4

\* A step in which the server opens no statement, of the call of one actor
LEMMA StmtsKept ==
    ASSUME MutexInv, StmtInv, NEW a \in Actors, \A b \in Actors \ {a} : op'[b] = op[b],
           ncmd' \in {ncmd, ncmd + 1}, srvStmts' \subseteq srvStmts,
           conn' = "open" => conn = "open" /\ (wire' = wire \/ op[a].pc \notin {"idle", "wait"}),
           \A r \in srvStmts' : conn' = "open" /\ ended' = "no" /\ op'[Ender].pc = "idle" =>
              \/ ~(rs[r].stmt \/ r \in pendingCloseStmts \/ (op[a].kind = "prepare" /\ op[a].r = r))
              \/ rs'[r].stmt \/ r \in pendingCloseStmts' \/ (op'[a].kind = "prepare" /\ op'[a].r = r /\ a # Ender),
           a # Ender /\ op'[a].kind = "prepare" => op'[a].r \in 1 .. ncmd' /\ op'[a].pc # "idle",
           a # Ender /\ conn' = "open" /\ Prepared(op[a])' =>
              op'[a].pc \in {"aux", "response"} /\ wire'[Len(op'[a].aux) + 1].kind = "stmt",
           IF a = Ender
           THEN /\ op'[Ender].pc = "idle" => ended' # "no"
                /\ op'[Ender].pc \in {"reset", "initsql"} \/ ended' = "recycled" => srvStmts' = {}
           ELSE ended' = ended
    PROVE  StmtInv'
<1>1. ncmd \in Nat
  BY ConstantsAssumption DEF MutexInv, ShapesOK
<1>2. srvStmts' \subseteq 1 .. ncmd'
  BY <1>1 DEF StmtInv
<1>3. ASSUME NEW t \in Tasks, op'[t].kind = "prepare"
      PROVE  op'[t].r \in 1 .. ncmd' /\ op'[t].pc # "idle"
  BY <1>1, <1>3, EnderIsNoTask DEF StmtInv
<1>4. ASSUME NEW t \in Tasks, conn' = "open", Prepared(op[t])'
      PROVE  op'[t].pc \in {"aux", "response"} /\ wire'[Len(op'[t].aux) + 1].kind = "stmt"
  <2>1. CASE t = a
    BY <1>4, <2>1, EnderIsNoTask
  <2>2. CASE t # a
    <3>1. op'[t] = op[t] /\ Prepared(op[t]) /\ conn = "open"
      BY <1>4, <2>2, EnderIsNoTask DEF Prepared
    <3>2. TaskTurn(t) /\ op[t].pc \in {"aux", "response"} /\ wire[Len(op[t].aux) + 1].kind = "stmt"
      BY <3>1, PreparedFacts
    <3>3. op[a].pc \in {"idle", "wait"}
      BY <2>2, <3>2 DEF TaskTurn, Alone, Engaged, Actors
    <3>4. QED
      BY <1>4, <3>1, <3>2, <3>3
  <2>3. QED
    BY <2>1, <2>2
<1>5. op'[Ender].pc \in {"reset", "initsql"} \/ ended' = "recycled" => srvStmts' = {}
  BY EnderIsNoTask DEF StmtInv
<1>6. StmtsKnown'
  <2> SUFFICES ASSUME conn' = "open", ended' = "no", op'[Ender].pc = "idle", NEW r \in srvStmts'
               PROVE  \/ rs'[r].stmt \/ r \in pendingCloseStmts'
                      \/ \E t \in Tasks : op'[t].kind = "prepare" /\ op'[t].r = r
    BY DEF StmtsKnown
  <2>1. a # Ender /\ a \in Tasks /\ op'[Ender] = op[Ender] /\ ended = "no"
    BY EnderIsNoTask DEF Actors
  <2>2. \/ rs[r].stmt \/ r \in pendingCloseStmts
        \/ \E t \in Tasks : op[t].kind = "prepare" /\ op[t].r = r
    BY <2>1 DEF StmtInv, StmtsKnown
  <2>3. ASSUME NEW t \in Tasks, op[t].kind = "prepare", op[t].r = r, t # a
        PROVE  op'[t].kind = "prepare" /\ op'[t].r = r
    BY <2>3, EnderIsNoTask
  <2>4. QED
    BY <2>1, <2>2, <2>3
<1>7. QED
  BY <1>2, <1>3, <1>4, <1>5, <1>6 DEF StmtInv

\* A step of a call that prepares no statement
LEMMA StmtsSame ==
    ASSUME MutexInv, StmtInv, NEW a \in Actors, \A b \in Actors \ {a} : op'[b] = op[b],
           UNCHANGED <<stmts, ncmd>>, \A r \in Cmds : rs'[r].stmt = rs[r].stmt,
           op'[a].kind # "prepare",
           conn' = "open" => /\ conn = "open"
                             /\ wire' = wire \/ op[a].pc \notin {"idle", "wait"}
                             /\ a # Ender => ~Prepared(op[a]),
           IF a = Ender
           THEN /\ op'[Ender].pc = "idle" => ended' # "no"
                /\ op'[Ender].pc \in {"reset", "initsql"} \/ ended' = "recycled" => srvStmts = {}
           ELSE ended' = ended
    PROVE  StmtInv'
<1>1. srvStmts' = srvStmts /\ pendingCloseStmts' = pendingCloseStmts /\ ncmd' = ncmd
  BY DEF stmts
<1>2. srvStmts \subseteq Cmds
  BY DEF MutexInv, ShapesOK
<1>3. op[Ender].kind # "prepare"
  BY DEF MutexInv, CallsOk
<1>4. ASSUME NEW r \in srvStmts', conn' = "open"
      PROVE  \/ ~(rs[r].stmt \/ r \in pendingCloseStmts \/ (op[a].kind = "prepare" /\ op[a].r = r))
             \/ rs'[r].stmt \/ r \in pendingCloseStmts' \/ (op'[a].kind = "prepare" /\ op'[a].r = r /\ a # Ender)
  BY <1>1, <1>2, <1>3, <1>4 DEF Prepared
<1>5. ~Prepared(op[a])'
  BY DEF Prepared
<1>6. QED
  BY <1>1, <1>4, <1>5, StmtsKept

LEMMA BeginStmts ==
    ASSUME MutexInv, StmtInv, NEW t \in Tasks, NEW call \in Calls, Begin(t, call),
           call.kind = "prepare" => call.r = ncmd + 1, \A r \in 1 .. ncmd : rs'[r].stmt = rs[r].stmt
    PROVE  StmtInv'
<1> DEFINE new == [call EXCEPT !.pc = "send", !.cmd = ncmd + 1]
<1>1. /\ op[t].pc = "idle" /\ ncmd' = ncmd + 1 /\ srvStmts' = srvStmts \ pendingCloseStmts
      /\ op' = [op EXCEPT ![t] = new] /\ UNCHANGED <<ended, conn, wire>>
  BY DEF Begin, DoPending, Step
<1>2. op \in [Actors -> Calls] /\ ncmd \in Nat /\ srvStmts \subseteq 1 .. ncmd
  BY ConstantsAssumption DEF MutexInv, ShapesOK, StmtInv
<1>3. new.kind = call.kind /\ new.r = call.r /\ new.pc = "send"
  BY DEF Calls
<1> HIDE DEF new
<1>4. op'[t] = new /\ t # Ender /\ \A b \in Actors \ {t} : op'[b] = op[b]
  BY <1>1, <1>2, EnderIsNoTask
<1>5. \A r \in srvStmts' : r \in 1 .. ncmd /\ r # ncmd + 1 /\ r \notin pendingCloseStmts
  BY <1>1, <1>2
<1>6. conn = "open" => ~Prepared(op[t])
  BY <1>1 DEF StmtInv
<1>7. ~Prepared(op[t])'
  BY <1>3, <1>4, <1>5 DEF Prepared
<1>8. ASSUME NEW r \in srvStmts', conn' = "open"
      PROVE  \/ ~(rs[r].stmt \/ r \in pendingCloseStmts \/ (op[t].kind = "prepare" /\ op[t].r = r))
             \/ rs'[r].stmt
  BY <1>1, <1>5, <1>6, <1>8 DEF Prepared
<1>9. new.kind = "prepare" => new.r \in 1 .. ncmd' /\ new.pc # "idle"
  BY <1>1, <1>2, <1>3
<1>10. QED
  BY <1>1, <1>4, <1>7, <1>8, <1>9, StmtsKept, EnderIsNoTask

LEMMA NewResultsetsStmts ==
    ASSUME MutexInv, StmtInv, NEW t \in Tasks, NEW kind \in {"query", "three", "prepare"}, NEW aux \in AuxLists,
           NEW void \in BOOLEAN, NEW reads, NewResultsets(t, kind, aux, void, reads)
    PROVE  StmtInv'
<1> DEFINE call == [NoCall EXCEPT !.kind = kind, !.r = ncmd + 1, !.aux = aux, !.void = void,
                                  !.retries = IF kind = "prepare" THEN 0 ELSE MaxRetries]
           res == [NoResultsets EXCEPT !.cmd = ncmd + 1, !.reads = reads, !.prep = kind = "prepare"]
<1>1. Begin(t, call) /\ rs' = [rs EXCEPT ![ncmd + 1] = res]
  BY DEF NewResultsets
<1>2. ncmd + 1 \in Cmds
  BY <1>1, ConstantsAssumption, SMTT(20) DEF MutexInv, ShapesOK, Begin, Cmds
<1>3. aux \in Seq(AuxKinds) /\ (IF kind = "prepare" THEN 0 ELSE MaxRetries) \in 0 .. MaxRetries
  BY ConstantsAssumption
<1>4. call \in Calls /\ call.r = ncmd + 1
  <2>1. \A e \in 0 .. MaxRetries :
          LET c == [NoCall EXCEPT !.kind = kind, !.r = ncmd + 1, !.aux = aux, !.void = void, !.retries = e] IN
          c \in Calls /\ c.r = ncmd + 1
    BY <1>2, <1>3, CallTypes DEF Calls
  <2>2. QED
    BY <1>3, <2>1
<1> HIDE DEF call, res
<1>5. rs \in [Cmds -> Resultsets] /\ ncmd \in Nat
  BY ConstantsAssumption DEF MutexInv, ShapesOK
<1>6. \A r \in 1 .. ncmd : rs'[r].stmt = rs[r].stmt
  BY <1>1, <1>2, <1>5 DEF Cmds
<1>7. QED
  BY <1>1, <1>4, <1>6, BeginStmts

LEMMA ExecStmtStmts ==
    ASSUME MutexInv, StmtInv, NEW t \in Tasks, ExecStmt(t)
    PROVE  StmtInv'
<1>1. PICK r \in Cmds : /\ Begin(t, [NoCall EXCEPT !.kind = "exec", !.r = r])
                        /\ rs' = [rs EXCEPT ![r].cmd = ncmd + 1]
  BY DEF ExecStmt
<1> DEFINE call == [NoCall EXCEPT !.kind = "exec", !.r = r]
<1>2. call \in Calls /\ call.kind = "exec"
  BY CallTypes DEF Calls, NoCall
<1>3. rs \in [Cmds -> Resultsets] /\ ncmd \in 0 .. MaxCmds /\ MaxCmds \in Nat
  BY ConstantsAssumption DEF MutexInv, ShapesOK
<1>4. \A k \in 1 .. ncmd : rs'[k].stmt = rs[k].stmt
  <2>1. \A k \in 1 .. ncmd : k \in Cmds
    BY <1>3 DEF Cmds
  <2>2. [rs[r] EXCEPT !.cmd = ncmd + 1].stmt = rs[r].stmt
    BY <1>3 DEF Resultsets
  <2>3. QED
    BY <1>1, <1>3, <2>1, <2>2
<1>5. QED
  BY <1>1, <1>2, <1>4, BeginStmts

\* The server opens a statement when a command is sent.
LEMMA SendStmts ==
    ASSUME MutexInv, StmtInv, CopedWith, NEW t \in Tasks, Send(t)
    PROVE  StmtInv'
<1> DEFINE call == op[t]
           new == [call EXCEPT !.pc = IF Len(call.aux) = 0 THEN "response" ELSE "aux"]
<1>1. /\ call.pc = "send" /\ conn = "open" /\ op' = [op EXCEPT ![t] = new]
      /\ UNCHANGED <<state, ends, cur, reader, pendingCloseStmts, rs, ended, conn, ncmd>>
  BY DEF Send, Step
<1>2. op \in [Actors -> Calls] /\ call \in Calls /\ wire \in Seq(Packets) /\ call.aux \in Seq(AuxKinds)
  BY EnderIsNoTask DEF MutexInv, ShapesOK, Calls
<1>3. TaskTurn(t) /\ HoldsCommand(call, rs, wire, conn, lastReader)
  <2>1. TaskTurn(t)
    BY <1>1, TaskHolds
  <2>2. QED
    BY <1>1, <2>1 DEF TaskTurn, HoldsResults, HoldsReader
<1>4. wire = <<>> /\ call.r \in Cmds
  BY <1>1, <1>3 DEF HoldsCommand
<1>5. PICK bad \in SUBSET ({call.aux[i] : i \in 1 .. Len(call.aux)} \cap AuxMayFail) :
         \E reply \in RepliesTo(call, rs[call.r], bad) :
            /\ wire' = wire \o AuxReplies(call, bad) \o MainReply(call, reply)
            /\ srvStmts' = srvStmts \cup (IF reply = <<"stmt">> THEN {call.r} ELSE {})
  BY DEF Send, RepliesTo, AuxReplies, MainReply
<1>6. PICK reply \in RepliesTo(call, rs[call.r], bad) :
         /\ wire' = wire \o AuxReplies(call, bad) \o MainReply(call, reply)
         /\ srvStmts' = srvStmts \cup (IF reply = <<"stmt">> THEN {call.r} ELSE {})
  BY <1>5
<1>7. /\ new.kind = call.kind /\ new.r = call.r /\ new.aux = call.aux /\ new.pc \in {"aux", "response"}
  <2>1. \A pc \in {"response", "aux"} : LET c == [call EXCEPT !.pc = pc] IN
           c.kind = call.kind /\ c.aux = call.aux /\ c.r = call.r /\ c.pc = pc
    BY <1>2 DEF Calls
  <2>2. QED
    BY <2>1
<1> HIDE DEF new
<1>8. op'[t] = new /\ t # Ender /\ \A b \in Actors \ {t} : op'[b] = op[b]
  BY <1>1, <1>2, EnderIsNoTask
<1>9. ~Prepared(call)
  BY <1>1 DEF StmtInv
<1>10. CASE reply = <<"stmt">>
  <2>1. call.kind = "prepare"
    <3>1. \A x \in Replies : x # <<"stmt">>
      <4>1. <<"stmt">>[1] = "stmt" /\ "stmt" \notin Follows("okM") \cup {"errR"}
        BY FollowsFacts
      <4>2. \A x \in Replies : x[1] \in Follows("okM") \cup {"errR"}
        BY DEF CopedWith, WellFormed
      <4>3. QED
        BY <4>1, <4>2
    <3>2. QED
      BY <1>10, <3>1, ConstantsAssumption DEF RepliesTo
  <2>2. wire'[Len(call.aux) + 1].kind = "stmt"
    <3>1. wire' = AuxReplies(call, bad) \o MainReply(call, reply)
      BY <1>2, <1>4, <1>6 DEF AuxReplies, MainReply
    <3>2. rs[call.r] \in Resultsets /\ bad \in SUBSET AuxMayFail /\ ~call.err
      BY <1>1, <1>3, <1>4 DEF MutexInv, ShapesOK, HoldsCommand
    <3> HIDE DEF call
    <3>3. Sent(call, rs[call.r].reads, reply, wire')
      BY <1>2, <1>6, <3>1, <3>2, SentReplied
    <3>4. wire'[Len(call.aux) + 1].kind = reply[1]
      BY <3>3 DEF Sent
    <3>5. <<"stmt">>[1] = "stmt"
      OBVIOUS
    <3>6. QED
      BY <1>10, <3>4, <3>5
  <2>3. srvStmts' = srvStmts \cup {call.r} /\ call.r \in 1 .. ncmd
    BY <1>6, <1>10, <2>1 DEF StmtInv
  <2>4. ASSUME NEW u \in Tasks \ {t}
        PROVE  op'[u] = op[u] /\ op[u].kind # "prepare"
    <3>1. op'[u] = op[u] /\ op[u].pc = "idle"
      BY <1>3, <1>8, EnderIsNoTask DEF TaskTurn, Alone
    <3>2. QED
      BY <3>1 DEF StmtInv
  <2>5. op'[Ender] = op[Ender] /\ op[Ender].pc \in {"idle", "wait"} /\ ended = "no"
    BY <1>3, <1>8, EnderIsNoTask DEF TaskTurn, Engaged
  <2>6. \A u \in Tasks : op'[u].kind = "prepare" => u = t
    BY <2>4
  <2>7. op'[t].r \in 1 .. ncmd /\ op'[t].pc \in {"aux", "response"} /\ op'[t].kind = "prepare"
        /\ op'[t].r = call.r /\ op'[t].aux = call.aux
    BY <1>7, <1>8, <2>1, <2>3
  <2>8. StmtsKnown'
    <3> SUFFICES ASSUME op'[Ender].pc = "idle", NEW r \in srvStmts'
                 PROVE  \/ rs'[r].stmt \/ r \in pendingCloseStmts'
                        \/ \E u \in Tasks : op'[u].kind = "prepare" /\ op'[u].r = r
      BY DEF StmtsKnown
    <3>1. CASE r = call.r
      BY <2>7, <3>1
    <3>2. CASE r # call.r
      <4>1. \/ rs[r].stmt \/ r \in pendingCloseStmts
            \/ \E u \in Tasks : op[u].kind = "prepare" /\ op[u].r = r
        BY <1>1, <2>3, <2>5, <3>2 DEF StmtInv, StmtsKnown
      <4>2. QED
        BY <1>1, <2>4, <3>2, <4>1
    <3>3. QED
      BY <3>1, <3>2
  <2>9. QED
    BY <1>1, <2>2, <2>3, <2>5, <2>6, <2>7, <2>8 DEF StmtInv, Prepared
<1>11. CASE reply # <<"stmt">>
  <2>1. srvStmts' = srvStmts /\ pendingCloseStmts' = pendingCloseStmts /\ ncmd' = ncmd /\ rs' = rs /\ ended' = ended
    BY <1>1, <1>6, <1>11
  <2>2. op'[t].kind = "prepare" => op'[t].r \in 1 .. ncmd' /\ op'[t].pc # "idle"
    BY <1>7, <1>8, <2>1 DEF StmtInv
  <2>3. ~Prepared(op[t])'
    BY <1>7, <1>8, <1>9, <2>1 DEF Prepared
  <2>4. op'[t].kind = op[t].kind /\ op'[t].r = op[t].r
    BY <1>7, <1>8
  <2>5. QED
    BY <1>1, <1>8, <2>1, <2>2, <2>3, <2>4, StmtsKept, EnderIsNoTask
<1>12. QED
  BY <1>10, <1>11

LEMMA CallStmts ==
    ASSUME MutexInv, StmtInv, NEW a \in Actors, NEW call, op' = [op EXCEPT ![a] = call], call.kind # "prepare",
           a = Ender => call.pc \notin {"idle", "reset", "initsql"},
           UNCHANGED <<stmts, ncmd, ended>>, \A r \in Cmds : rs'[r].stmt = rs[r].stmt,
           conn' = "open" => /\ conn = "open"
                             /\ wire' = wire \/ op[a].pc \notin {"idle", "wait"}
                             /\ a # Ender => ~Prepared(op[a])
    PROVE  StmtInv'
<1>1. op \in [Actors -> Calls]
  BY DEF MutexInv, ShapesOK
<1>2. op'[a] = call /\ \A b \in Actors \ {a} : op'[b] = op[b]
  BY <1>1
<1>3. ended = "recycled" => srvStmts = {}
  BY DEF StmtInv
<1>4. QED
  BY <1>2, <1>3, StmtsSame

LEMMA ReturnStmts ==
    ASSUME MutexInv, StmtInv, NEW a \in Actors, op[a].pc \notin {"idle", "wait"}, Return(a),
           UNCHANGED <<stmts, ncmd, ended>>, \A r \in Cmds : rs'[r].stmt = rs[r].stmt,
           conn' = "open" => conn = "open" /\ (a # Ender => ~Prepared(op[a]))
    PROVE  StmtInv'
<1>1. op[a].void \in BOOLEAN
  BY DEF MutexInv, ShapesOK, Calls
<1>2. PICK call \in Calls : /\ op' = [op EXCEPT ![a] = call] /\ call.kind # "prepare"
                            /\ a = Ender => call.pc = "wait"
  <2>1. CASE a = Ender
    BY <1>1, <2>1, CallTypes DEF Return
  <2>2. CASE a # Ender
    BY <2>2, CallTypes DEF Return
  <2>3. QED
    BY <2>1, <2>2
<1>3. QED
  BY <1>2, CallStmts

\* The packet that a call reads as its response is the id of a statement, or the call
\* has prepared none. A call that is elsewhere has prepared none.
LEMMA NotPrepared ==
    ASSUME MutexInv, StmtInv, NEW t \in Tasks, conn = "open",
           \/ op[t].pc \notin {"aux", "response"} \/ op[t].kind # "prepare"
           \/ op[t].pc = "response" /\ NextPacket.kind # "stmt"
    PROVE  ~Prepared(op[t])
BY PreparedFacts DEF Prepared

LEMMA ReadAuxStmts ==
    ASSUME MutexInv, StmtInv, NEW t \in Tasks, ReadAux(t)
    PROVE  StmtInv'
<1> DEFINE call == op[t]
           bad == NextPacket.kind \in Errors
           new == [call EXCEPT !.aux = Tail(@), !.pc = IF Tail(call.aux) = <<>> THEN "response" ELSE "aux",
                               !.err = @ \/ (bad /\ Head(call.aux) # "ignored")]
<1>1. /\ call.pc = "aux" /\ conn = "open" /\ wire # <<>> /\ wire' = Tail(wire) /\ conn' = conn
      /\ UNCHANGED <<cur, reader, stmts, ended, ncmd>>
      /\ ~(bad /\ Head(call.aux) = "prestmt") => Step(t, new) /\ UNCHANGED <<state, ends, rs>>
  BY DEF ReadAux, CanRead, Consume
<1>2. op \in [Actors -> Calls] /\ call \in Calls /\ wire \in Seq(Packets) /\ call.aux \in Seq(AuxKinds)
  BY EnderIsNoTask DEF MutexInv, ShapesOK, Calls
<1>3. TaskTurn(t) /\ HoldsCommand(call, rs, wire, conn, lastReader)
  <2>1. TaskTurn(t)
    BY <1>1, TaskHolds
  <2>2. QED
    BY <1>1, <2>1 DEF TaskTurn, HoldsResults, HoldsReader
<1>4. call.aux # <<>> /\ Replied(call, rs[call.r].reads, wire)
  BY <1>1, <1>3 DEF HoldsCommand
<1> DEFINE n == Len(call.aux)
<1>5. /\ n \in Nat \ {0} /\ Len(Tail(call.aux)) = n - 1 /\ Head(call.aux) = call.aux[1] /\ Tail(call.aux) \in Seq(AuxKinds)
      /\ Head(wire) = wire[1] /\ \A i \in 1 .. Len(wire) - 1 : Tail(wire)[i] = wire[i + 1]
  BY <1>1, <1>2, <1>4, TailFacts
<1>6. n \in 1 .. Len(wire) - 1
  BY <1>2, <1>4, <1>5 DEF Replied, Chain
<1>7. ~(bad /\ Head(call.aux) = "prestmt")
  <2>1. wire[1].kind \in {"ok", "err"} /\ (wire[1].kind = "err" => call.aux[1] # "prestmt")
    BY <1>4, <1>5 DEF Replied
  <2>2. QED
    BY <1>5, <2>1 DEF Errors, NextPacket
<1>8. op' = [op EXCEPT ![t] = new] /\ rs' = rs
  BY <1>1, <1>7 DEF Step
<1>9. new.kind = call.kind /\ new.r = call.r /\ new.aux = Tail(call.aux) /\ new.pc \in {"aux", "response"}
  <2> DEFINE e == call.err \/ (bad /\ Head(call.aux) # "ignored")
             pc == IF Tail(call.aux) = <<>> THEN "response" ELSE "aux"
             c == [call EXCEPT !.aux = Tail(call.aux), !.pc = pc, !.err = e]
  <2>1. new = c /\ pc \in {"aux", "response"}
    OBVIOUS
  <2> HIDE DEF e, pc, call
  <2>2. c.kind = call.kind /\ c.r = call.r /\ c.aux = Tail(call.aux) /\ c.pc = pc
    BY <1>2 DEF Calls
  <2> HIDE DEF c, new
  <2>3. QED
    BY <2>1, <2>2
<1> HIDE DEF new
<1>10. op'[t] = new /\ t # Ender /\ \A b \in Actors \ {t} : op'[b] = op[b]
  BY <1>2, <1>8, EnderIsNoTask
<1>11. srvStmts' = srvStmts /\ pendingCloseStmts' = pendingCloseStmts /\ ncmd' = ncmd /\ ended' = ended
  BY <1>1 DEF stmts
<1>12. op'[t].kind = "prepare" => op'[t].r \in 1 .. ncmd' /\ op'[t].pc # "idle"
  BY <1>9, <1>10, <1>11 DEF StmtInv
<1>13. Prepared(op[t])' => op'[t].pc \in {"aux", "response"} /\ wire'[Len(op'[t].aux) + 1].kind = "stmt"
  <2>1. Prepared(op[t])' => wire[n + 1].kind = "stmt"
    BY <1>1, <1>9, <1>10, <1>11 DEF Prepared, StmtInv
  <2>2. wire'[n] = wire[n + 1]
    BY <1>1, <1>5, <1>6
  <2>3. Len(op'[t].aux) + 1 = n
    <3> HIDE DEF call
    <3>1. op'[t].aux = Tail(call.aux)
      BY <1>9, <1>10
    <3>2. QED
      BY <1>5, <3>1
  <2>4. QED
    BY <1>9, <1>10, <2>1, <2>2, <2>3
<1>14. op'[t].kind = op[t].kind /\ op'[t].r = op[t].r
  BY <1>9, <1>10
<1>15. \A r \in srvStmts' :
         \/ ~(rs[r].stmt \/ r \in pendingCloseStmts \/ (op[t].kind = "prepare" /\ op[t].r = r))
         \/ rs'[r].stmt \/ r \in pendingCloseStmts' \/ (op'[t].kind = "prepare" /\ op'[t].r = r /\ t # Ender)
  BY <1>8, <1>10, <1>11, <1>14
<1>16. /\ srvStmts' \subseteq srvStmts /\ ncmd' \in {ncmd, ncmd + 1} /\ op[t].pc \notin {"idle", "wait"}
       /\ conn = "open" /\ t \in Actors
  BY <1>1, <1>11, EnderIsNoTask
<1> HIDE DEF call
<1>17. QED
  BY <1>10, <1>11, <1>12, <1>13, <1>15, <1>16, StmtsKept

LEMMA QueryDoneStmts ==
    ASSUME rs \in [Cmds -> Resultsets], NEW t, NEW r \in Cmds, NEW res \in Resultsets, NEW s, QueryDone(t, r, res, s)
    PROVE  Return(t) /\ rs'[r].stmt = res.stmt /\ \A k \in Cmds \ {r} : rs'[k].stmt = rs[k].stmt
<1> DEFINE e == res.given \/ ~op[t].err
           res2 == [res EXCEPT !.given = e]
<1>1. rs' = [rs EXCEPT ![r] = res2] /\ Return(t)
  BY DEF QueryDone
<1>2. res2.stmt = res.stmt
  <2> HIDE DEF e
  <2>1. QED
    BY DEF Resultsets
<1> HIDE DEF res2
<1>3. QED
  BY <1>1, <1>2

LEMMA SqlErrorStmts ==
    ASSUME MutexInv, StmtInv, NEW a \in Actors, op[a].pc \notin {"idle", "wait"}, ThrowSqlError(a),
           UNCHANGED <<stmts, ncmd, ended>>,
           conn' = "open" => conn = "open" /\ (a # Ender => ~Prepared(op[a]))
    PROVE  StmtInv'
<1>1. rs \in [Cmds -> Resultsets]
  BY DEF MutexInv, ShapesOK
<1>2. \A r \in Cmds : rs'[r].stmt = rs[r].stmt
  BY <1>1, SqlErrorFails
<1>3. QED
  BY <1>2, ReturnStmts DEF ThrowSqlError

LEMMA RetryStmts ==
    ASSUME MutexInv, StmtInv, NEW t \in Tasks, op[t].pc = "response", conn = "open", NextPacket.kind # "stmt",
           conn' = conn, DoPending, UNCHANGED <<rs, ended, ncmd>>,
           op' = [op EXCEPT ![t] = [op[t] EXCEPT !.pc = "send", !.retries = @ - 1, !.err = FALSE]]
    PROVE  StmtInv'
<1> DEFINE call == op[t]
           e == call.retries - 1
           new == [call EXCEPT !.pc = "send", !.retries = e, !.err = FALSE]
<1>1. op \in [Actors -> Calls] /\ call \in Calls /\ op' = [op EXCEPT ![t] = new]
  BY EnderIsNoTask DEF MutexInv, ShapesOK
<1>2. new.kind = call.kind /\ new.r = call.r /\ new.pc = "send"
  <2> HIDE DEF call, e
  <2>1. QED
    BY <1>1 DEF Calls
<1> HIDE DEF new
<1>3. op'[t] = new /\ \A b \in Actors \ {t} : op'[b] = op[b]
  BY <1>1, EnderIsNoTask
<1>4. srvStmts' = srvStmts \ pendingCloseStmts
  BY DEF DoPending
<1>5. ~Prepared(call)
  BY NotPrepared
<1>6. ~Prepared(op[t])'
  BY <1>2, <1>3, <1>4, <1>5 DEF Prepared
<1>7. op'[t].kind = "prepare" => op'[t].r \in 1 .. ncmd' /\ op'[t].pc # "idle"
  BY <1>2, <1>3 DEF StmtInv
<1>8. \A r \in srvStmts' :
         \/ ~(rs[r].stmt \/ r \in pendingCloseStmts \/ (op[t].kind = "prepare" /\ op[t].r = r))
         \/ rs'[r].stmt
  BY <1>4, <1>5 DEF Prepared
<1> HIDE DEF call
<1>9. QED
  BY <1>3, <1>4, <1>6, <1>7, <1>8, StmtsKept, EnderIsNoTask

LEMMA ResponseStmts ==
    ASSUME MutexInv, StmtInv, NEW t \in Tasks, Response(t)
    PROVE  StmtInv'
<1> DEFINE call == op[t]
           r == call.r
           kind == NextPacket.kind
           s == StateAfter(kind)
           attached == [rs[r] EXCEPT !.live = TRUE, !.more = TRUE, !.failed = FALSE]
           skipped == call.kind = "three" /\ call.err
<1>1. /\ call.pc = "response" /\ conn = "open" /\ conn' = conn
      /\ call.kind \in {"query", "three", "prepare"} /\ UNCHANGED <<reader, ended, ncmd>>
      /\ \/ kind \in Errors /\ QueryError(t, kind) /\ UNCHANGED cur
         \/ /\ kind = "stmt"
            /\ QueryDone(t, r, [rs[r] EXCEPT !.live = TRUE, !.stmt = TRUE], "IDLE")
            /\ UNCHANGED <<cur, stmts>>
         \/ /\ kind \notin Errors \cup {"stmt"} /\ (s = "IDLE" \/ skipped)
            /\ QueryDone(t, r, rs[r], s)
            /\ UNCHANGED <<cur, stmts>>
         \/ /\ s # "IDLE" /\ ~skipped
            /\ cur' = r
            /\ IF call.void
               THEN /\ rs' = [rs EXCEPT ![r] = attached]
                    /\ Step(t, [call EXCEPT !.pc = "discard", !.st = s])
                    /\ UNCHANGED <<state, ends>>
               ELSE QueryDone(t, r, attached, s)
            /\ UNCHANGED stmts
  BY DEF Response, CanRead, Consume
<1>2. op \in [Actors -> Calls] /\ call \in Calls /\ rs \in [Cmds -> Resultsets]
  BY EnderIsNoTask DEF MutexInv, ShapesOK
<1>3. TaskTurn(t) /\ HoldsCommand(call, rs, wire, conn, lastReader)
  <2>1. TaskTurn(t)
    BY <1>1, TaskHolds
  <2>2. QED
    BY <1>1, <2>1 DEF TaskTurn, HoldsResults, HoldsReader
<1>4. r \in Cmds /\ rs[r] \in Resultsets /\ (call.void => call.kind \in {"query", "three"})
  BY <1>2, <1>3 DEF HoldsCommand
<1>5. kind # "stmt" => ~Prepared(call)
  BY <1>1, NotPrepared
<1>6. /\ attached \in Resultsets /\ attached.stmt = rs[r].stmt
      /\ [rs[r] EXCEPT !.live = TRUE, !.stmt = TRUE] \in Resultsets
      /\ [rs[r] EXCEPT !.live = TRUE, !.stmt = TRUE].stmt = TRUE
  BY <1>4 DEF Resultsets
<1>7. CASE kind \in Errors /\ QueryError(t, kind)
  <2>1. kind # "stmt"
    BY <1>7 DEF Errors
  <2>2. CASE Retries(call, kind)
    BY <1>1, <1>7, <2>1, <2>2, RetryStmts DEF QueryError, Step
  <2>3. CASE ~Retries(call, kind)
    <3>1. ThrowSqlError(t) /\ UNCHANGED stmts
      BY <1>7, <2>3 DEF QueryError
    <3>2. QED
      BY <1>1, <1>5, <2>1, <3>1, SqlErrorStmts, EnderIsNoTask
  <2>4. QED
    BY <2>2, <2>3
<1>8. CASE kind = "stmt" /\ QueryDone(t, r, [rs[r] EXCEPT !.live = TRUE, !.stmt = TRUE], "IDLE") /\ UNCHANGED stmts
  <2>1. Return(t) /\ rs'[r].stmt = TRUE /\ \A k \in Cmds \ {r} : rs'[k].stmt = rs[k].stmt
    BY <1>2, <1>4, <1>6, <1>8, QueryDoneStmts, ZenonT(40)
  <2>2. op' = [op EXCEPT ![t] = NoCall]
    BY <2>1, EnderIsNoTask DEF Return
  <2>3. op'[t] = NoCall /\ \A b \in Actors \ {t} : op'[b] = op[b]
    BY <1>2, <2>2, EnderIsNoTask
  <2>4. srvStmts' = srvStmts /\ srvStmts \subseteq Cmds /\ pendingCloseStmts' = pendingCloseStmts
    BY <1>8 DEF MutexInv, ShapesOK, stmts
  <2>5. \A k \in srvStmts' :
           \/ ~(rs[k].stmt \/ k \in pendingCloseStmts \/ (op[t].kind = "prepare" /\ op[t].r = k))
           \/ rs'[k].stmt \/ k \in pendingCloseStmts'
    BY <2>1, <2>4
  <2>6. op'[t].kind = "none" /\ ~Prepared(op[t])' /\ t \in Actors /\ t # Ender
    BY <2>3, CallTypes, EnderIsNoTask DEF Prepared
  <2> HIDE DEF call
  <2>7. QED
    BY <1>1, <2>3, <2>4, <2>5, <2>6, StmtsKept DEF call
<1>9. CASE kind \notin Errors \cup {"stmt"} /\ QueryDone(t, r, rs[r], s) /\ UNCHANGED stmts
  <2>1. Return(t) /\ \A k \in Cmds : rs'[k].stmt = rs[k].stmt
    BY <1>2, <1>4, <1>9, QueryDoneStmts
  <2>2. QED
    BY <1>1, <1>5, <1>9, <2>1, ReturnStmts, EnderIsNoTask
<1>10. CASE s # "IDLE" /\ call.void /\ rs' = [rs EXCEPT ![r] = attached] /\ UNCHANGED stmts
            /\ Step(t, [call EXCEPT !.pc = "discard", !.st = s])
  <2> DEFINE new == [call EXCEPT !.pc = "discard", !.st = s]
  <2>1. op' = [op EXCEPT ![t] = new] /\ new.kind = call.kind
    BY <1>2, <1>10 DEF Step, Calls
  <2> HIDE DEF new, attached
  <2>2. \A k \in Cmds : rs'[k].stmt = rs[k].stmt
    BY <1>2, <1>4, <1>6, <1>10
  <2>3. call.kind # "prepare" /\ ~Prepared(call)
    BY <1>4, <1>10 DEF Prepared
  <2>4. QED
    BY <1>1, <1>10, <2>1, <2>2, <2>3, CallStmts, EnderIsNoTask
<1>11. CASE s # "IDLE" /\ QueryDone(t, r, attached, s) /\ UNCHANGED stmts
  <2>1. kind # "stmt"
    BY <1>11, StateAfterFacts
  <2> HIDE DEF attached
  <2>2. Return(t) /\ \A k \in Cmds : rs'[k].stmt = rs[k].stmt
    BY <1>2, <1>4, <1>6, <1>11, QueryDoneStmts
  <2>3. QED
    BY <1>1, <1>5, <1>11, <2>1, <2>2, ReturnStmts, EnderIsNoTask
<1>12. QED
  BY <1>1, <1>7, <1>8, <1>9, <1>10, <1>11

LEMMA FailsStmts ==
    ASSUME MutexInv, StmtInv, NEW a \in Actors, NEW left, Fails(a, left), op[a].pc \notin {"idle", "wait"},
           left => conn' = conn,
           UNCHANGED <<stmts, ended, ncmd>>
    PROVE  StmtInv'
<1> DEFINE call == op[a]
<1>1. /\ op \in [Actors -> Calls] /\ call \in Calls /\ CallsOk /\ (a # Ender => a \in Tasks)
  BY DEF MutexInv, ShapesOK, Actors
<1>2. CASE call.kind = "end"
  <2> DEFINE new == [call EXCEPT !.pc = "finish", !.void = FALSE]
  <2>1. a = Ender /\ op' = [op EXCEPT ![a] = new] /\ rs' = rs /\ conn' = conn
    BY <1>1, <1>2 DEF Fails, Step, CallsOk
  <2>2. new.kind = "end" /\ new.pc = "finish"
    BY <1>1, <1>2 DEF Calls
  <2> HIDE DEF new
  <2>3. QED
    BY <2>1, <2>2, CallStmts
<1>3. CASE call.kind = "query" /\ call.err
  <2>1. ThrowSqlError(a) /\ conn' = conn
    BY <1>3 DEF Fails
  <2>2. ~Prepared(call)
    BY <1>3 DEF Prepared
  <2>3. QED
    BY <2>1, <2>2, SqlErrorStmts
<1>4. CASE call.kind # "end" /\ ~(call.kind = "query" /\ call.err)
  <2>1. Return(a) /\ conn' = "closed" /\ rs' = rs
    BY <1>4 DEF Fails, ThrowFatal, CloseConn
  <2>2. QED
    BY <2>1, ReturnStmts
<1>5. QED
  BY <1>2, <1>3, <1>4

LEMMA LocalInfileStmts ==
    ASSUME MutexInv, StmtInv, NEW a \in Actors, LocalInfile(a)
    PROVE  StmtInv'
<1>1. /\ op[a].pc \in {"response", "discard"} /\ conn = "open" /\ NextPacket.kind = "infile"
      /\ UNCHANGED <<stmts, ended, ncmd>>
  BY DEF LocalInfile, CanRead
<1>2. CASE Consume /\ UNCHANGED <<state, ends, cur, reader, rs, op>>
  <2>1. a # Ender => ~Prepared(op[a])
    BY <1>1, NotPrepared DEF Actors
  <2>2. op' = op /\ rs' = rs /\ conn' = conn /\ srvStmts' = srvStmts /\ pendingCloseStmts' = pendingCloseStmts /\ ncmd' = ncmd
    BY <1>1, <1>2 DEF Consume, stmts
  <2>3. op[Ender].kind # "prepare" /\ (op[a].kind = "prepare" /\ a # Ender => op[a].r \in 1 .. ncmd)
    BY DEF MutexInv, CallsOk, StmtInv, Actors
  <2>4. a # Ender => ~Prepared(op[a])'
    BY <2>1, <2>2 DEF Prepared
  <2>5. \A r \in srvStmts' :
           \/ ~(rs[r].stmt \/ r \in pendingCloseStmts \/ (op[a].kind = "prepare" /\ op[a].r = r))
           \/ rs'[r].stmt \/ r \in pendingCloseStmts' \/ (op'[a].kind = "prepare" /\ op'[a].r = r /\ a # Ender)
    BY <2>2, <2>3
  <2>6. ended = "recycled" => srvStmts = {}
    BY DEF StmtInv
  <2>7. QED
    BY <1>1, <2>2, <2>3, <2>4, <2>5, <2>6, StmtsKept
<1>3. CASE Fails(a, Consume)
  BY <1>1, <1>3, FailsStmts DEF Consume
<1>4. QED
  BY <1>2, <1>3 DEF LocalInfile

LEMMA IoFailsStmts ==
    ASSUME MutexInv, StmtInv, NEW a \in Actors, IoFails(a)
    PROVE  StmtInv'
<1>1. /\ op[a].pc \in {"send", "aux", "response", "discard", "row", "chunk"} /\ conn # "open"
      /\ Fails(a, KeepConn) /\ UNCHANGED <<stmts, ended, ncmd>>
  BY DEF IoFails, MutexInv, CallsOk, Actors
<1>2. conn' # "open"
  <2>1. KeepConn => conn' = conn
    BY DEF KeepConn
  <2>2. QED
    BY <1>1, <2>1 DEF Fails, ThrowFatal, CloseConn
<1>3. QED
  BY <1>1, <1>2, FailsStmts DEF KeepConn

\* The program asks for rows, for a resultset, or for a part of a last column.
LEMMA AsksStmts ==
    ASSUME MutexInv, StmtInv, NEW t \in Tasks, Fetch(t) \/ NextResultset(t) \/ Read(t)
    PROVE  StmtInv'
<1>1. /\ op[t].pc = "idle" /\ rs' = rs /\ wire' = wire /\ conn' = conn /\ UNCHANGED <<stmts, ncmd, ended>>
  BY DEF Fetch, NextResultset, Read
<1>2. \E call : op' = [op EXCEPT ![t] = call] /\ call.kind # "prepare"
  <2>1. CASE Fetch(t)
    <3>1. PICK r \in Cmds : Step(t, [NoCall EXCEPT !.pc = "row", !.kind = "fetch", !.r = r, !.cmd = rs[r].cmd,
                                                   !.stmt = cur # None /\ rs[cur].stmt])
      BY <2>1 DEF Fetch
    <3> DEFINE e == cur # None /\ rs[cur].stmt
               call == [NoCall EXCEPT !.pc = "row", !.kind = "fetch", !.r = r, !.cmd = rs[r].cmd, !.stmt = e]
    <3>2. op' = [op EXCEPT ![t] = call]
      BY <3>1 DEF Step
    <3> HIDE DEF e
    <3>3. call.kind = "fetch"
      BY DEF NoCall
    <3> HIDE DEF call
    <3>4. QED
      BY <3>2, <3>3
  <2>2. CASE NextResultset(t)
    <3>1. PICK r \in Cmds :
             Step(t, [NoCall EXCEPT !.pc = IF state = "HAS_MORE_ROWS" THEN "discard" ELSE "response",
                                    !.kind = "next", !.r = r, !.cmd = rs[r].cmd, !.st = state,
                                    !.stmt = rs[cur].stmt])
      BY <2>2 DEF NextResultset
    <3> DEFINE pc == IF state = "HAS_MORE_ROWS" THEN "discard" ELSE "response"
               call == [NoCall EXCEPT !.pc = pc, !.kind = "next", !.r = r, !.cmd = rs[r].cmd, !.st = state,
                                      !.stmt = rs[cur].stmt]
    <3>2. op' = [op EXCEPT ![t] = call]
      BY <3>1 DEF Step
    <3> HIDE DEF pc
    <3>3. call.kind = "next"
      BY DEF NoCall
    <3> HIDE DEF call
    <3>4. QED
      BY <3>2, <3>3
  <2>3. CASE Read(t)
    <3>1. op' = [op EXCEPT ![t] = ReaderCall] /\ lastReader # None
      BY <2>3 DEF Read, Step
    <3>2. ReaderCall.kind = "reader"
      BY <3>1, ReaderCallFacts DEF MutexInv, ShapesOK
    <3>3. QED
      BY <3>1, <3>2
  <2>4. QED
    BY <2>1, <2>2, <2>3
<1>3. conn = "open" => ~Prepared(op[t])
  BY <1>1, NotPrepared
<1>4. QED
  BY <1>1, <1>2, <1>3, CallStmts, EnderIsNoTask

\* Results are read.
LEMMA ReadRowStmts ==
    ASSUME MutexInv, StmtInv, NEW t \in Tasks, ReadRow(t)
    PROVE  StmtInv'
<1> DEFINE call == op[t]
           kind == NextPacket.kind
<1>1. /\ call.pc = "row" /\ conn = "open" /\ conn' = conn /\ UNCHANGED <<stmts, ended, ncmd>>
      /\ \/ ThrowSqlError(t)
         \/ Return(t) /\ rs' = rs
         \/ Return(t) /\ rs' = [rs EXCEPT ![cur] = Detached(rs[cur], call.stmt)]
  BY DEF ReadRow, CanRead, Consume
<1>2. ~Prepared(call)
  BY <1>1, NotPrepared
<1>3. /\ cur \in Cmds /\ rs \in [Cmds -> Resultsets] /\ call.stmt \in BOOLEAN
  BY <1>1, EnderIsNoTask DEF ReadRow, MutexInv, ShapesOK, Calls
<1>4. CASE ThrowSqlError(t)
  BY <1>1, <1>2, <1>4, SqlErrorStmts, EnderIsNoTask
<1>5. CASE Return(t) /\ rs' = rs
  BY <1>1, <1>2, <1>5, ReturnStmts, EnderIsNoTask
<1>6. CASE Return(t) /\ rs' = [rs EXCEPT ![cur] = Detached(rs[cur], call.stmt)]
  <2>1. Detached(rs[cur], call.stmt).stmt = rs[cur].stmt
    BY <1>3, DetachedFacts
  <2>2. \A r \in Cmds : rs'[r].stmt = rs[r].stmt
    BY <1>3, <1>6, <2>1
  <2>3. QED
    BY <1>1, <1>2, <1>6, <2>2, ReturnStmts, EnderIsNoTask
<1>7. QED
  BY <1>1, <1>4, <1>5, <1>6

LEMMA ReadChunkStmts ==
    ASSUME MutexInv, StmtInv, NEW a \in Actors, ReadChunk(a)
    PROVE  StmtInv'
<1>1. /\ op[a].pc = "chunk" /\ conn = "open" /\ rs' = rs /\ conn' = conn /\ UNCHANGED <<stmts, ended, ncmd>>
      /\ \/ Return(a)
         \/ Step(a, [op[a] EXCEPT !.pc = IF colLeft = 1 THEN "discard" ELSE "chunk"])
  BY DEF ReadChunk
<1>2. a # Ender => ~Prepared(op[a])
  BY <1>1, NotPrepared DEF Actors
<1>3. CASE Return(a)
  BY <1>1, <1>2, <1>3, ReturnStmts
<1>4. CASE Step(a, [op[a] EXCEPT !.pc = IF colLeft = 1 THEN "discard" ELSE "chunk"])
  <2> DEFINE pc == IF colLeft = 1 THEN "discard" ELSE "chunk"
             new == [op[a] EXCEPT !.pc = pc]
  <2>1. op' = [op EXCEPT ![a] = new] /\ pc \in {"discard", "chunk"}
    BY <1>4 DEF Step
  <2> HIDE DEF pc
  <2>2. op[a] \in Calls /\ op[a].kind # "prepare"
    <3>1. op[a].kind = "reader"
      BY <1>1, ReaderHolds DEF HoldsReader
    <3>2. QED
      BY <3>1 DEF MutexInv, ShapesOK
  <2>3. new.kind = op[a].kind /\ new.pc = pc
    BY <2>2 DEF Calls
  <2> HIDE DEF new
  <2>4. QED
    BY <1>1, <1>2, <2>1, <2>2, <2>3, CallStmts
<1>5. QED
  BY <1>1, <1>3, <1>4

\* The response to an executed statement, whose id remains.
LEMMA ExecResponseStmts ==
    ASSUME MutexInv, PreparedInv, StmtInv, NEW t \in Tasks, ExecResponse(t)
    PROVE  StmtInv'
<1> DEFINE r == op[t].r
           attached == [rs[r] EXCEPT !.live = TRUE, !.more = TRUE, !.failed = FALSE]
<1>1. /\ CanRead(t, "response") /\ op[t].kind = "exec" /\ op[t].pc = "response" /\ conn = "open" /\ conn' = conn
      /\ UNCHANGED <<stmts, ended, ncmd>> /\ op[t].kind \in Commands
      /\ \/ ThrowSqlError(t)
         \/ Return(t) /\ (rs' = rs \/ rs' = [rs EXCEPT ![r].live = TRUE, ![r].more = TRUE, ![r].failed = FALSE])
  BY DEF ExecResponse, CanRead, Consume, Commands
<1>2. rs \in [Cmds -> Resultsets] /\ r \in Cmds
  BY <1>1, AwaitsResponse
<1>3. ~Prepared(op[t])
  BY <1>1 DEF Prepared
<1>4. [rs EXCEPT ![r].live = TRUE, ![r].more = TRUE, ![r].failed = FALSE] = [rs EXCEPT ![r] = attached]
  BY <1>2
<1>5. attached.stmt = rs[r].stmt
  BY <1>2 DEF Resultsets
<1> HIDE DEF attached, r
<1>6. CASE ThrowSqlError(t)
  BY <1>1, <1>3, <1>6, SqlErrorStmts, EnderIsNoTask
<1>7. CASE Return(t) /\ (rs' = rs \/ rs' = [rs EXCEPT ![r] = attached])
  <2>1. \A k \in Cmds : rs'[k].stmt = rs[k].stmt
    BY <1>2, <1>5, <1>7
  <2>2. QED
    BY <1>1, <1>3, <1>7, <2>1, ReturnStmts, EnderIsNoTask
<1>8. QED
  BY <1>1, <1>4, <1>6, <1>7

LEMMA NextResponseStmts ==
    ASSUME MutexInv, PreparedInv, StmtInv, NEW t \in Tasks, NextResponse(t)
    PROVE  StmtInv'
<1>1. /\ op[t].pc = "response" /\ op[t].kind = "next" /\ conn = "open" /\ conn' = conn /\ UNCHANGED <<stmts, ended, ncmd>>
      /\ \/ ThrowSqlError(t)
         \/ Return(t) /\ rs' \in {rs, [rs EXCEPT ![cur] = Detached(rs[cur], op[t].stmt)]}
  <2>1. ~TakesOkForStmt
    BY EnderIsNoTask, NoOkForStmt DEF NextResponse
  <2>2. QED
    BY <2>1, NextResponseUnfolds DEF Consume
<1>2. ~Prepared(op[t])
  BY <1>1 DEF Prepared
<1>3. CASE ThrowSqlError(t)
  BY <1>1, <1>2, <1>3, SqlErrorStmts, EnderIsNoTask
<1>4. CASE Return(t) /\ rs' \in {rs, [rs EXCEPT ![cur] = Detached(rs[cur], op[t].stmt)]}
  <2>1. cur \in Cmds /\ rs \in [Cmds -> Resultsets] /\ op[t].stmt \in BOOLEAN
    BY <1>1, ResultsHold
  <2>2. Detached(rs[cur], op[t].stmt).stmt = rs[cur].stmt
    BY <2>1, DetachedFacts
  <2>3. \A r \in Cmds : rs'[r].stmt = rs[r].stmt
    BY <1>4, <2>1, <2>2
  <2>4. QED
    BY <1>1, <1>2, <1>4, <2>3, ReturnStmts, EnderIsNoTask
<1>5. QED
  BY <1>1, <1>3, <1>4

LEMMA DiscardedStmts ==
    ASSUME MutexInv, StmtInv, NEW a \in Actors, NEW s, Discarded(a, s, rs, Consume), op[a].pc = "discard", conn = "open",
           cur # None, a # Ender => ~Prepared(op[a]), UNCHANGED <<stmts, ended, ncmd>>
    PROVE  StmtInv'
<1> DEFINE call == op[a]
           res == Detached(rs[cur], call.stmt)
           done == [rs EXCEPT ![cur] = res]
<1>1. /\ op \in [Actors -> Calls] /\ call \in Calls /\ CallsOk /\ rs \in [Cmds -> Resultsets] /\ cur \in Cmds
      /\ call.stmt \in BOOLEAN
  BY DEF MutexInv, ShapesOK, Calls
<1>2. res \in Resultsets /\ res.stmt = rs[cur].stmt /\ done[cur] = res
  BY <1>1, DetachedFacts
<1> HIDE DEF res
<1>3. \A r \in Cmds : done[r].stmt = rs[r].stmt
  BY <1>1, <1>2
<1>4. CASE call.kind = "next" /\ s = "HAS_MORE_RESULTSETS"
  <2> DEFINE new == [call EXCEPT !.pc = "response", !.st = s, !.stmt = rs[cur].stmt]
  <2>1. op' = [op EXCEPT ![a] = new] /\ rs' = rs /\ new.kind = "next" /\ new.pc = "response" /\ conn' = conn
    BY <1>1, <1>4 DEF Discarded, Step, Calls, Consume
  <2> HIDE DEF new
  <2>2. QED
    BY <2>1, CallStmts
<1>5. CASE call.kind = "next" /\ s = "IDLE"
  <2>1. Return(a) /\ rs' = done
    BY <1>5 DEF Discarded, res
  <2>2. QED
    BY <1>3, <2>1, ReturnStmts
<1>6. CASE call.kind \in {"query", "three"}
  <2>1. QueryDone(a, cur, done[cur], s)
    BY <1>6 DEF Discarded, res
  <2>2. Return(a) /\ \A r \in Cmds : rs'[r].stmt = rs[r].stmt
    BY <1>1, <1>2, <2>1, QueryDoneStmts
  <2>3. QED
    BY <2>2, ReturnStmts
<1>7. CASE call.kind = "reader"
  <2>1. Return(a) /\ rs' = done
    BY <1>7 DEF Discarded, res
  <2>2. QED
    BY <1>3, <2>1, ReturnStmts
<1>8. CASE call.kind = "end"
  <2> DEFINE new == [call EXCEPT !.pc = "finish", !.st = s]
             R == [done EXCEPT ![cur].more = TRUE]
  <2>1. op' = [op EXCEPT ![a] = new] /\ rs' = R
    BY <1>8 DEF Discarded, Step, res
  <2>2. new.kind = "end" /\ new.pc = "finish"
    BY <1>1, <1>8 DEF Calls
  <2> HIDE DEF new
  <2>3. [res EXCEPT !.more = TRUE].stmt = res.stmt
    BY <1>2 DEF Resultsets
  <2>4. R[cur] = [res EXCEPT !.more = TRUE] /\ \A r \in Cmds \ {cur} : R[r] = rs[r]
    BY <1>1, <1>2
  <2>5. \A r \in Cmds : rs'[r].stmt = rs[r].stmt
    BY <1>2, <2>1, <2>3, <2>4
  <2>6. QED
    BY <2>1, <2>2, <2>5, CallStmts
<1>9. QED
  BY <1>4, <1>5, <1>6, <1>7, <1>8 DEF Discarded

LEMMA DiscardStmts ==
    ASSUME MutexInv, PreparedInv, StmtInv, NEW a \in Actors, Discard(a)
    PROVE  StmtInv'
<1> DEFINE call == op[a]
           kind == NextPacket.kind
           s == DiscardState(call.st, kind, rs[cur].prep)
<1>1. /\ call.pc = "discard" /\ conn = "open" /\ cur # None /\ UNCHANGED <<stmts, ended, ncmd>>
      /\ \/ Consume /\ DiscardThrows(a)
         \/ Consume /\ Step(a, [call EXCEPT !.st = s]) /\ rs' = rs
         \/ Discarded(a, s, rs, Consume)
  <2>1. ~TakesOkForStmt
    BY NoOkForStmt DEF Discard
  <2>2. QED
    BY <2>1, DiscardUnfolds
<1>2. /\ op \in [Actors -> Calls] /\ call \in Calls /\ CallsOk /\ (a # Ender => a \in Tasks)
  BY DEF MutexInv, ShapesOK, Actors
<1>3. a # Ender => ~Prepared(call)
  BY <1>1, <1>2, NotPrepared
<1> HIDE DEF s
<1>4. CASE Consume /\ DiscardThrows(a)
  <2>1. CASE ThrowSqlError(a)
    BY <1>1, <1>3, <1>4, <2>1, SqlErrorStmts DEF Consume
  <2>2. CASE call.kind = "end" /\ Step(a, [call EXCEPT !.pc = "finish", !.void = FALSE]) /\ rs' = rs
    <3> DEFINE new == [call EXCEPT !.pc = "finish", !.void = FALSE]
    <3>1. op' = [op EXCEPT ![a] = new] /\ new.kind = "end" /\ new.pc = "finish"
      BY <1>2, <2>2 DEF Step, Calls
    <3> HIDE DEF new
    <3>2. QED
      BY <1>1, <1>3, <1>4, <2>2, <3>1, CallStmts DEF Consume
  <2>3. QED
    BY <1>4, <2>1, <2>2 DEF DiscardThrows
<1>5. CASE Consume /\ Step(a, [call EXCEPT !.st = s]) /\ rs' = rs
  <2> DEFINE new == [call EXCEPT !.st = s]
  <2>1. op' = [op EXCEPT ![a] = new] /\ new.kind = call.kind /\ new.pc = "discard"
    BY <1>1, <1>2, <1>5 DEF Step, Calls
  <2>2. call.kind # "prepare"
    <3>1. CASE a = Ender
      BY <1>2, <3>1 DEF CallsOk
    <3>2. CASE a # Ender
      <4>1. TaskTurn(a)
        BY <1>1, <1>2, <3>2, TaskHolds
      <4>2. QED
        BY <1>1, <4>1 DEF TaskTurn, HoldsCommand, HoldsResults, HoldsReader
    <3>3. QED
      BY <3>1, <3>2
  <2> HIDE DEF new
  <2>3. QED
    BY <1>1, <1>3, <1>5, <2>1, <2>2, CallStmts DEF Consume
<1>6. CASE Discarded(a, s, rs, Consume)
  BY <1>1, <1>3, <1>6, DiscardedStmts
<1>7. QED
  BY <1>1, <1>4, <1>5, <1>6

\* While the connection is used, disposePreparedStmt() lets the next command close
\* the statement.
LEMMA UsedIsNotTerminated ==
    ASSUME MutexInv, conn # "closed", ended = "no", op[Ender].pc = "idle"
    PROVE  PendsClose
<1>1. state # "ERROR"
  BY ErrorIsClosed
<1>2. state # "TERMINATED"
  <2>1. Turn
    BY DEF MutexInv
  <2>2. \A t \in Tasks : TaskTurn(t) => state # "TERMINATED"
    BY DEF TaskTurn, Engaged
  <2>3. ReaderTurn => state # "TERMINATED"
    BY DEF ReaderTurn, Engaged
  <2>4. ReadyTurn => state # "TERMINATED"
    BY DEF ReadyTurn, Settled, Resting, More
  <2>5. ~ToldTurn /\ ~EndReadsTurn /\ ~EndTurn /\ ~OverTurn
    BY DEF ToldTurn, EndReadsTurn, HoldsReader, EndTurn, HoldsEnd, OverTurn
  <2>6. QED
    BY <2>1, <2>2, <2>3, <2>4, <2>5 DEF Turn
<1>3. QED
  BY <1>1, <1>2 DEF PendsClose

LEMMA DisposePreparedStmtStmts ==
    ASSUME MutexInv, PreparedInv, StmtInv, DisposePreparedStmt
    PROVE  StmtInv'
<1>1. PICK r \in Cmds :
         /\ rs' = [rs EXCEPT ![r].stmt = FALSE, ![r].live = rs[r].more]
         /\ pendingCloseStmts' = IF PendsClose /\ ~rs[r].wrong THEN pendingCloseStmts \cup {r}
                                 ELSE pendingCloseStmts
         /\ srvStmts' = srvStmts /\ op' = op /\ ended' = ended /\ conn' = conn /\ wire' = wire /\ ncmd' = ncmd
  BY DEF DisposePreparedStmt
<1>2. \A k \in Cmds \ {r} : rs'[k] = rs[k]
  BY <1>1 DEF MutexInv, ShapesOK
<1>3. srvStmts \subseteq Cmds
  BY DEF MutexInv, ShapesOK
<1>4. StmtsKnown'
  <2> SUFFICES ASSUME conn = "open", ended = "no", op[Ender].pc = "idle", NEW k \in srvStmts
               PROVE  \/ rs'[k].stmt \/ k \in pendingCloseStmts'
                      \/ \E t \in Tasks : op[t].kind = "prepare" /\ op[t].r = k
    BY <1>1 DEF StmtsKnown
  <2>1. pendingCloseStmts' = pendingCloseStmts \cup {r}
    BY <1>1, UsedIsNotTerminated DEF PreparedInv, PreparedOpen
  <2>2. \/ rs[k].stmt \/ k \in pendingCloseStmts
        \/ \E t \in Tasks : op[t].kind = "prepare" /\ op[t].r = k
    BY DEF StmtInv, StmtsKnown
  <2>3. QED
    BY <1>2, <1>3, <2>1, <2>2
<1>5. QED
  BY <1>1, <1>4 DEF StmtInv, Prepared

LEMMA EndSkipsStmts ==
    ASSUME ShapesOK, NEW s, EndSkips(s)
    PROVE  \A r \in Cmds : rs'[r].stmt = rs[r].stmt
<1>1. CASE cur # None /\ s = "IDLE"
  <2> DEFINE res == Detached(rs[cur], rs[cur].stmt)
  <2>1. rs' = [rs EXCEPT ![cur] = [res EXCEPT !.more = TRUE]]
    BY <1>1 DEF EndSkips
  <2>2. cur \in Cmds /\ rs[cur].stmt \in BOOLEAN /\ rs \in [Cmds -> Resultsets]
    BY <1>1 DEF ShapesOK, Resultsets
  <2>3. res \in Resultsets /\ res.stmt = rs[cur].stmt
    BY <2>2, DetachedFacts
  <2> HIDE DEF res
  <2>4. [res EXCEPT !.more = TRUE].stmt = rs[cur].stmt
    BY <2>3 DEF Resultsets
  <2>5. QED
    BY <2>1, <2>2, <2>4
<1>2. CASE ~(cur # None /\ s = "IDLE")
  BY <1>2 DEF EndSkips
<1>3. QED
  BY <1>1, <1>2

LEMMA EndStmts ==
    ASSUME MutexInv, StmtInv, End
    PROVE  StmtInv'
<1>1. op[Ender].pc = "idle" /\ state \in ProtocolState /\ ShapesOK /\ UNCHANGED <<lastReader, colLeft, stmts, ended, conn, wire, ncmd>>
  BY DEF End, MutexInv, ShapesOK
<1>2. PICK recycle \in BOOLEAN :
        IF state = "QUERYING"
        THEN /\ onEndSession' = "armed" /\ UNCHANGED <<endState, rs, cur>>
             /\ IF lastReader # None /\ isReading = "NO"
                THEN Step(Ender, [ReaderCall EXCEPT !.void = recycle])
                ELSE Step(Ender, [NoCall EXCEPT !.pc = "wait", !.kind = "end", !.void = recycle])
             /\ isReading' = IF lastReader # None THEN "YES_BY_END_SESSION" ELSE isReading
        ELSE /\ Step(Ender, EndCall(state, recycle))
             /\ EndSkips(state)
             /\ UNCHANGED <<ends, isReading>>
  BY DEF End
<1>3. \A r \in Cmds : rs'[r].stmt = rs[r].stmt
  BY <1>1, <1>2, EndSkipsStmts
<1>4. \E call : op' = [op EXCEPT ![Ender] = call] /\ call.kind # "prepare" /\ call.pc \notin {"idle", "reset", "initsql"}
  <2>1. CASE state = "QUERYING" /\ lastReader # None /\ isReading = "NO"
    <3> DEFINE call == [ReaderCall EXCEPT !.void = recycle]
    <3>1. op' = [op EXCEPT ![Ender] = call]
      BY <1>2, <2>1 DEF Step
    <3>2. lastReader \in Cmds
      BY <1>1, <2>1 DEF ShapesOK
    <3>3. call.kind = "reader" /\ call.pc \in {"chunk", "discard"}
      BY <1>1, <3>2, ReaderCallFacts
    <3> HIDE DEF call
    <3>4. QED
      BY <3>1, <3>3
  <2>2. CASE state = "QUERYING" /\ ~(lastReader # None /\ isReading = "NO")
    BY <1>2, <2>2, CallTypes DEF Step
  <2>3. CASE state # "QUERYING"
    <3>1. op' = [op EXCEPT ![Ender] = EndCall(state, recycle)]
      BY <1>2, <2>3 DEF Step
    <3>2. EndCall(state, recycle).kind = "end" /\ EndCall(state, recycle).pc \in {"discard", "finish"}
      BY <1>1, EndCallFacts
    <3>3. QED
      BY <3>1, <3>2
  <2>4. QED
    BY <2>1, <2>2, <2>3
<1>5. QED
  BY <1>1, <1>3, <1>4, CallStmts, EnderIsNoTask

LEMMA EndResumesStmts ==
    ASSUME MutexInv, StmtInv, EndResumes
    PROVE  StmtInv'
<1>1. /\ Step(Ender, EndCall(endState, op[Ender].void)) /\ EndSkips(endState)
      /\ UNCHANGED <<state, reader, stmts, ended, conn, wire, ncmd>>
  BY DEF EndResumes
<1>2. ShapesOK /\ endState \in ProtocolState /\ op[Ender].void \in BOOLEAN
  BY EnderIsNoTask DEF MutexInv, ShapesOK, Calls
<1>3. EndCall(endState, op[Ender].void).kind = "end" /\ EndCall(endState, op[Ender].void).pc \in {"discard", "finish"}
  BY <1>2, EndCallFacts
<1>4. \A r \in Cmds : rs'[r].stmt = rs[r].stmt
  BY <1>1, <1>2, EndSkipsStmts
<1>5. QED
  BY <1>1, <1>3, <1>4, CallStmts, EnderIsNoTask DEF Step

LEMMA QuitStmts ==
    ASSUME MutexInv, StmtInv, Quit, UNCHANGED <<stmts, ncmd, rs>>,
           op[Ender].pc \notin {"idle", "wait"}
    PROVE  StmtInv'
<1>1. ended' = "closed" /\ op' = [op EXCEPT ![Ender] = NoCall] /\ (conn' = "open" => conn = "open")
  BY DEF Quit, Finished, KeepConn, CloseConn
<1>2. op \in [Actors -> Calls] /\ NoCall.kind = "none" /\ NoCall.pc = "idle"
  BY CallTypes DEF MutexInv, ShapesOK
<1>3. op'[Ender] = NoCall /\ \A b \in Actors \ {Ender} : op'[b] = op[b]
  BY <1>1, <1>2, EnderIsNoTask
<1>4. QED
  BY <1>1, <1>2, <1>3, StmtsSame, EnderIsNoTask

LEMMA EndFinishesStmts ==
    ASSUME MutexInv, StmtInv, EndFinishes
    PROVE  StmtInv'
<1>1. op[Ender].pc = "finish" /\ UNCHANGED <<state, cur, pendingCloseStmts, rs, ncmd>>
  BY DEF EndFinishes
<1>2. CASE Quit /\ UNCHANGED srvStmts
  BY <1>1, <1>2, QuitStmts DEF stmts
<1>3. CASE /\ conn = "open" /\ ResetConnection
           /\ Step(Ender, [op[Ender] EXCEPT !.pc = "reset", !.cmd = None, !.r = None])
           /\ UNCHANGED <<ended, conn>>
  <2> DEFINE new == [op[Ender] EXCEPT !.pc = "reset", !.cmd = None, !.r = None]
  <2>1. op' = [op EXCEPT ![Ender] = new] /\ srvStmts' = {}
    BY <1>3 DEF Step, ResetConnection
  <2>2. op \in [Actors -> Calls] /\ op[Ender] \in Calls
    BY EnderIsNoTask DEF MutexInv, ShapesOK
  <2>3. new.pc = "reset"
    BY <2>2 DEF Calls
  <2> HIDE DEF new
  <2>4. op'[Ender] = new /\ \A b \in Actors \ {Ender} : op'[b] = op[b]
    BY <2>1, <2>2, EnderIsNoTask
  <2>5. QED
    BY <1>1, <1>3, <2>1, <2>3, <2>4, StmtsKept, EnderIsNoTask
<1>4. QED
  BY <1>2, <1>3 DEF EndFinishes

LEMMA ResetReadStmts ==
    ASSUME MutexInv, StmtInv, ResetRead
    PROVE  StmtInv'
<1>1. op[Ender].pc = "reset" /\ conn = "open" /\ UNCHANGED <<state, ends, cur, reader, stmts, rs, ncmd>>
  BY DEF ResetRead
<1>2. CASE Quit
  BY <1>1, <1>2, QuitStmts
<1>3. CASE op' = [op EXCEPT ![Ender].pc = "initsql"] /\ UNCHANGED <<ended, conn>>
  <2> DEFINE new == [op[Ender] EXCEPT !.pc = "initsql"]
  <2>1. op \in [Actors -> Calls] /\ op[Ender] \in Calls /\ op[Ender].kind # "prepare"
    BY EnderIsNoTask DEF MutexInv, ShapesOK, CallsOk
  <2>2. op' = [op EXCEPT ![Ender] = new] /\ new.kind = op[Ender].kind /\ new.pc = "initsql"
    BY <1>3, <2>1 DEF Calls
  <2> HIDE DEF new
  <2>3. op'[Ender] = new /\ \A b \in Actors \ {Ender} : op'[b] = op[b]
    BY <2>1, <2>2, EnderIsNoTask
  <2>4. srvStmts = {}
    BY <1>1 DEF StmtInv
  <2>5. QED
    BY <1>1, <1>3, <2>1, <2>2, <2>3, <2>4, StmtsSame, EnderIsNoTask
<1>4. QED
  BY <1>2, <1>3 DEF ResetRead

LEMMA InitSqlReadStmts ==
    ASSUME MutexInv, StmtInv, InitSqlRead
    PROVE  StmtInv'
<1>1. op[Ender].pc = "initsql" /\ conn = "open" /\ UNCHANGED <<state, ends, cur, reader, stmts, rs, ncmd>>
  BY DEF InitSqlRead
<1>2. CASE Quit
  BY <1>1, <1>2, QuitStmts
<1>3. srvStmts = {} /\ op[Ender].kind # "prepare" /\ op \in [Actors -> Calls]
  BY <1>1 DEF StmtInv, MutexInv, ShapesOK, CallsOk
<1>4. CASE Finished("recycled") /\ Consume
  <2>1. op'[Ender] = NoCall /\ \A b \in Actors \ {Ender} : op'[b] = op[b]
    BY <1>3, <1>4, EnderIsNoTask DEF Finished
  <2>2. ended' = "recycled" /\ conn' = conn
    BY <1>4 DEF Finished, Consume
  <2>3. QED
    BY <1>1, <1>3, <2>1, <2>2, CallTypes, StmtsSame, EnderIsNoTask
<1>5. CASE Consume /\ UNCHANGED <<op, ended>>
  <2>1. op' = op /\ ended' = ended /\ conn' = conn
    BY <1>5 DEF Consume
  <2>2. QED
    BY <1>1, <1>3, <2>1, StmtsSame, EnderIsNoTask
<1>6. QED
  BY <1>2, <1>4, <1>5 DEF InitSqlRead

LEMMA NextStmts ==
    ASSUME MutexInv, PreparedInv, StmtInv, CopedWith, [Next]_vars
    PROVE  StmtInv'
<1>1. op[Ender].pc \notin {"send", "aux", "response", "row"} /\ \A a \in Actors : a # Ender => a \in Tasks
  BY DEF MutexInv, CallsOk, Actors
<1>2. ASSUME NEW a \in Actors, Continue(a)
      PROVE  StmtInv'
  <2>1. CASE Send(a)
    BY <1>1, <2>1, SendStmts DEF Send
  <2>2. CASE ReadAux(a)
    BY <1>1, <2>2, ReadAuxStmts DEF ReadAux, CanRead
  <2>3. CASE Response(a)
    BY <1>1, <2>3, ResponseStmts DEF Response, CanRead
  <2>4. CASE LocalInfile(a) \/ ReadChunk(a) \/ Discard(a) \/ IoFails(a)
    BY <2>4, LocalInfileStmts, ReadChunkStmts, DiscardStmts, IoFailsStmts
  <2>5. CASE ReadRow(a)
    BY <1>1, <2>5, ReadRowStmts DEF ReadRow, CanRead
  <2>6. CASE NextResponse(a)
    BY <1>1, <2>6, NextResponseStmts DEF NextResponse, CanRead
  <2>7. CASE ExecResponse(a)
    BY <1>1, <2>7, ExecResponseStmts DEF ExecResponse, CanRead
  <2>8. QED
    BY <1>2, <2>1, <2>2, <2>3, <2>4, <2>5, <2>6, <2>7 DEF Continue
<1>3. CASE EndContinues
  <2>1. ASSUME ResetFails
        PROVE  StmtInv'
    BY <2>1, QuitStmts DEF ResetFails
  <2>2. QED
    BY <1>3, <2>1, EndResumesStmts, EndFinishesStmts, ResetReadStmts, InitSqlReadStmts DEF EndContinues
<1>4. ASSUME NEW t \in Tasks, Call(t)
      PROVE  StmtInv'
  <2>1. \A kinds : AuxOnly(kinds) \subseteq AuxLists
    BY DEF AuxOnly
  <2>2. CASE SendComQuery(t)
    BY <2>1, <2>2, NewResultsetsStmts DEF SendComQuery
  <2>3. CASE SendThreeQueries(t)
    BY <2>3, NewResultsetsStmts DEF SendThreeQueries
  <2>4. CASE SendComStmtPrepare(t)
    BY <2>1, <2>4, NewResultsetsStmts DEF SendComStmtPrepare
  <2>5. CASE ExecStmt(t)
    BY <2>5, ExecStmtStmts
  <2>6. CASE Fetch(t) \/ NextResultset(t) \/ Read(t)
    BY <2>6, AsksStmts
  <2>7. QED
    BY <1>4, <2>2, <2>3, <2>4, <2>5, <2>6 DEF Call
<1>5. CASE DisposePreparedStmt \/ End
  BY <1>5, DisposePreparedStmtStmts, EndStmts
<1>6. CASE ForceImmediateDisconnect
  BY <1>6 DEF ForceImmediateDisconnect, CloseConn, StmtInv, StmtsKnown, Prepared, stmts
<1>7. CASE Break
  BY <1>7 DEF Break, StmtInv, StmtsKnown, Prepared, stmts
<1>8. CASE UNCHANGED vars
  BY <1>8 DEF vars, stmts, StmtInv, StmtsKnown, Prepared
<1>9. QED
  BY <1>2, <1>3, <1>4, <1>5, <1>6, <1>7, <1>8 DEF Next

\* The socket is closed when the connection is not usable. A statement of the server
\* can be executed, or will be closed, or is being prepared; none is open in a
\* connection that end() gives back.
THEOREM ProtocolNothingLeaked ==
    ASSUME CopedWith
    PROVE  Spec => []NothingLeaked
<1>1. Init => StmtInv
  <2>1. ASSUME Init
        PROVE  StmtInv
    <3>1. srvStmts = {} /\ \A a \in Actors : op[a] = NoCall
      BY <2>1 DEF Init
    <3>2. QED
      BY <3>1, CallTypes, EnderIsNoTask DEF StmtInv, StmtsKnown, Prepared
  <2>2. QED
    BY <2>1
<1>2. MutexInv /\ PreparedInv /\ StmtInv /\ [Next]_vars => StmtInv'
  BY NextStmts
<1>3. ASSUME MutexInv, PreparedInv, StmtInv
      PROVE  NothingLeaked
  <2>1. ended = "closed" \/ state = "ERROR" => conn = "closed"
    <3>1. Turn => ended # "closed"
      BY DEF Turn, TaskTurn, Engaged, ReaderTurn, ReadyTurn, ToldTurn, EndReadsTurn, EndTurn, OverTurn
    <3>2. QED
      BY <1>3, <3>1, ErrorIsClosed DEF MutexInv
  <2>2. QED
    BY <1>3, <2>1 DEF NothingLeaked, StmtInv, StmtsKnown, PreparedInv, PreparedOpen, MutexInv, ShapesOK
<1>4. QED
  BY <1>1, <1>2, <1>3, SpecMutex, PTL DEF Spec

===============================================================================

--------------------------- MODULE PacketWriter ---------------------------
(***************************************************************************)
(* MyProtocolReaderWriter (my_protocol_reader_writer.ts), and its callers  *)
(* that write several commands to the buffer before they send them.        *)
(* Packets are written to the buffer, long data is sent from where it is,  *)
(* split to packets of 0xFFFFFF bytes, and a packet that still leaves room *)
(* in the buffer can wait there for the next one (canWait).  In the        *)
(* compressed protocol the bytes travel in compressed packets, and each    *)
(* command begins its own one.                                             *)
(*                                                                         *)
(* The program executes a list of items, each being what one command, or   *)
(* one packet of LOCAL INFILE data, needs:                                 *)
(*   send     a packet that fits the buffer, and send()                    *)
(*   discard  a packet that is begun, and discarded: the end of a stream   *)
(*   bytes, string, reader    sendWithData() with this source of n bytes   *)
(*   exec     COM_STMT_EXECUTE, with its parts of at most MaxPart bytes    *)
(*   reply    the server answers, with one packet                          *)
(*   file     a packet of LOCAL INFILE data                                *)
(* p is the number of bytes that the caller writes before the data, wait   *)
(* is canWait, and char the length of a character of the string.           *)
(*                                                                         *)
(* A byte is a number: byte i of the command of item c is 100 * c + i, the *)
(* bytes of a header are one negative number, and 0 is a byte of a header  *)
(* that is not set yet.                                                    *)
(***************************************************************************)
EXTENDS Integers, Sequences, SequencesExt

CONSTANTS MaxPayload,  \* 0xFFFFFF, and MAX_COMPRESSED_PAYLOAD_LEN
          HeaderLen,   \* 4
          BufferLen,   \* BUFFER_LEN
          Prelude,     \* MAX_CAN_WAIT_PACKET_PRELUDE_BYTES
          MaxPart,     \* 0xFB: the longest part of COM_STMT_EXECUTE
          SeqIds,      \* 256
          Programs,    \* lists of items
          Compressions \* subset of BOOLEAN

ASSUME WriterAssumption ==
    /\ {HeaderLen, Prelude, MaxPart, SeqIds} \subseteq Nat \ {0}
    /\ MaxPayload > BufferLen /\ BufferLen > HeaderLen + Prelude
    /\ Compressions \subseteq BOOLEAN

VARIABLES
    items,        \* the program
    cur,          \* the item that is being executed, or executed last
    job,          \* what the operation in progress has left to do
    buf,          \* buffer[0 .. bufferEnd)
    bufferStart,  \* where the packet that is being written begins
    sequenceId,
    commandStarts,
    compression,
    compressedSeqId,
    srv,          \* external: the server, and what it has received
    failed        \* what the operation threw: "no", "range" (writing outside the buffer), or "io"

vars == <<items, cur, job, buf, bufferStart, sequenceId, commandStarts, compression, compressedSeqId, srv, failed>>
conf == <<items, compression>>

\* do: what to do; at: bytes of the command that are written; left: its data that is not;
\* chunk: the part of the data for the current packet; size: bytes for further packets
NoJob == [do |-> "none", at |-> 0, left |-> 0, chunk |-> 0, size |-> 0]

Init ==
    /\ items \in Programs
    /\ compression \in Compressions
    /\ cur = 0 /\ job = NoJob
    /\ buf = <<>> /\ bufferStart = 0 /\ sequenceId = 0
    /\ commandStarts = <<>> /\ compressedSeqId = 0
    /\ srv = [skip |-> 0, need |-> 0, more |-> FALSE, got |-> 0, item |-> 0, seq |-> 0, frame |-> 0, bad |-> {}]
    /\ failed = "no"

-----------------------------------------------------------------------------
(* The server: external.  It reassembles the packets, and notes in bad what  *)
(* is wrong with them.                                                       *)

Byte(c, i) == 100 * c + i
Size(c) == items[c].p + items[c].n
HeaderCell(len, seq) == - (1 + len + (MaxPayload + 1) * (seq % SeqIds))
CellLen(cell) == (-cell - 1) % (MaxPayload + 1)
CellSeq(cell) == (-cell - 1) \div (MaxPayload + 1)

\* The item whose bytes come after item c
Following(c) == LET later == {i \in c + 1 .. Len(items) : items[i].kind \notin {"discard", "reply"}} IN
                IF later = {} THEN 0 ELSE Min(later)

AtBoundary(s) == s.skip = 0 /\ s.need = 0 /\ ~s.more
Note(s, cond, what) == IF cond THEN s.bad ELSE s.bad \cup {what}

\* The end of a packet ends the command, unless it was a packet of MaxPayload bytes.
AfterPacket(s) ==
    IF s.skip > 0 \/ s.need > 0 THEN s
    ELSE IF s.more THEN s
    ELSE [s EXCEPT !.bad = Note(s, s.item # 0 /\ s.got = Size(s.item), "length"), !.got = 0]

ServerReads(s, cell, first) ==
    IF s.skip > 0 THEN AfterPacket([s EXCEPT !.skip = @ - 1])
    ELSE IF s.need > 0
    THEN AfterPacket([s EXCEPT !.need = @ - 1, !.got = @ + 1,
                               !.bad = Note(s, cell = Byte(s.item, s.got + 1), "bytes")])
    ELSE LET newCommand == ~s.more
             next == IF newCommand THEN Following(s.item) ELSE s.item
             isCommand == newCommand /\ next # 0 /\ items[next].kind # "file"
             seq == IF isCommand THEN 0 ELSE s.seq
             isHeader == cell < 0
             len == IF isHeader THEN CellLen(cell) ELSE 0 IN
         AfterPacket([s EXCEPT !.skip = HeaderLen - 1, !.need = len, !.more = (len = MaxPayload),
                               !.item = next, !.seq = (seq + 1) % SeqIds,
                               !.bad = Note(s, /\ isHeader
                                               /\ CellSeq(cell) = seq
                                               /\ compression /\ isCommand => first, "header")])

\* Op(x), with x evaluated once
Strict(Op(_), x) == CHOOSE y \in {Op(v) : v \in {x}} : TRUE

ServerReadsAll(s, cells) ==
    FoldLeft(LAMBDA acc, i : Strict(LAMBDA v : ServerReads(v, cells[i], i = 1), acc), s, [i \in 1 .. Len(cells) |-> i])

\* A compressed packet, numbered seq
ServerReadsFrame(s, seq, cells) ==
    LET want == IF AtBoundary(s) /\ Following(s.item) # 0 /\ items[Following(s.item)].kind # "file"
                THEN 0 ELSE s.frame IN
    ServerReadsAll([s EXCEPT !.frame = (seq + 1) % SeqIds, !.bad = Note(s, seq = want, "frame")], cells)

-----------------------------------------------------------------------------
(* Sending. *)

\* The connection before the step: a send is a function from one to another.
Conn == [srv |-> srv, seq |-> compressedSeqId]
Becomes(conn) == \E c \in {conn} : srv' = c.srv /\ compressedSeqId' = c.seq

\* A part of #toCompressedPackets(): cells (from, to], in compressed packets numbered
\* from conn.seq
SendPart(conn, cells, from, to) ==
    FoldLeft(LAMBDA acc, k : Strict(LAMBDA c :
                LET at == from + k * MaxPayload IN
                [srv |-> ServerReadsFrame(c.srv, c.seq, SubSeq(cells, at + 1, Min({at + MaxPayload, to}))),
                 seq |-> (c.seq + 1) % SeqIds], acc),
             conn, [k \in 1 .. (to - from + MaxPayload - 1) \div MaxPayload |-> k - 1])

\* #toCompressedPackets(): the bytes before the first command start continue the
\* numbering, and each command begins from 0.
ToCompressedPackets(conn, cells, starts) ==
    LET bounds == <<0>> \o starts \o <<Len(cells)>> IN
    FoldLeft(LAMBDA acc, i : Strict(LAMBDA c :
                SendPart(IF i > 1 /\ bounds[i + 1] > bounds[i] THEN [c EXCEPT !.seq = 0] ELSE c,
                         cells, bounds[i], bounds[i + 1]), acc),
             conn, [i \in 1 .. Len(bounds) - 1 |-> i])

\* sendPackets(), and sendData() if there are no command starts
Send(conn, cells, starts) ==
    Strict(LAMBDA bytes : IF compression THEN ToCompressedPackets(conn, bytes, starts)
                          ELSE [conn EXCEPT !.srv = ServerReadsAll(@, bytes)], cells)

SendData(conn, cells) == Send(conn, cells, <<>>)

-----------------------------------------------------------------------------
(* Writing packets. *)

Blank == [i \in 1 .. HeaderLen |-> 0]
Header(len, seq) == [i \in 1 .. HeaderLen |-> HeaderCell(len, seq)]

\* setHeader(), of the packet that begins at `start`
WithHeader(cells, start, len) ==
    SubSeq(cells, 1, start) \o Header(len, sequenceId) \o SubSeq(cells, start + HeaderLen + 1, Len(cells))

\* Payload bytes of the current packet that are in the buffer
Filled == Len(buf) - bufferStart - HeaderLen

\* n bytes of the data of the current command, the next to be written
Data(n) == [i \in 1 .. n |-> Byte(cur, job.at + i)]
Took(n) == [job EXCEPT !.at = @ + n, !.left = @ - n]

\* A packet can be written from the beginning of the buffer.
IsEmpty == Len(buf) = bufferStart

\* What is set by startWritingNewPacket(), when the packet is one of item c, and by the
\* writes of its first p bytes. Writing outside the buffer throws RangeError.
StartWritingNewPacket(c) ==
    LET item == items[c]
        before == IF IsEmpty THEN <<>> ELSE WithHeader(buf, bufferStart, Filled)
        resets == item.kind # "file"
        written == before \o Blank \o [i \in 1 .. item.p |-> Byte(c, i)] IN
    /\ bufferStart' = Len(before)
    /\ sequenceId' = IF item.kind = "exec" THEN 1 ELSE IF resets THEN 0 ELSE IF IsEmpty THEN sequenceId ELSE sequenceId + 1
    /\ commandStarts' = (IF IsEmpty THEN <<>> ELSE commandStarts)
                            \o (IF resets /\ compression THEN <<Len(before)>> ELSE <<>>)
    /\ IF Len(written) > BufferLen
       THEN failed' = "range" /\ UNCHANGED buf
       ELSE /\ UNCHANGED failed
            \* #sendComStmtExecute() sets the header at once
            /\ buf' = IF item.kind = "exec"
                      THEN before \o Header(Size(c), 0) \o SubSeq(written, Len(before) + HeaderLen + 1, Len(written))
                      ELSE written

Start ==
    /\ failed = "no" /\ job = NoJob /\ cur < Len(items)
    /\ LET item == items[cur + 1] IN
       /\ item.kind # "reply"
       /\ StartWritingNewPacket(cur + 1)
       /\ job' = [NoJob EXCEPT !.do = item.kind, !.at = item.p, !.left = item.n]
    /\ cur' = cur + 1
    /\ UNCHANGED <<conf, compressedSeqId, srv>>

\* The server answers a command, so the next packet of the client, and its next
\* compressed packet, are numbered after the ones of the server.
ServerReplies ==
    /\ failed = "no" /\ job = NoJob /\ cur < Len(items)
    /\ items[cur + 1].kind = "reply"
    /\ sequenceId' = srv.seq + 1
    /\ compressedSeqId' = (srv.frame + 1) % SeqIds
    /\ srv' = [srv EXCEPT !.seq = (@ + 1) % SeqIds, !.frame = (@ + 1) % SeqIds]
    /\ cur' = cur + 1
    /\ UNCHANGED <<conf, job, buf, bufferStart, commandStarts, failed>>

\* The operation returns, and leaves the buffer to the reader.
Flushed ==
    /\ buf' = <<>> /\ bufferStart' = 0 /\ commandStarts' = <<>>
    /\ job' = NoJob

\* send()
SendBuffer ==
    /\ job.do \in {"send", "file"}
    /\ Becomes(Send(Conn, WithHeader(buf, bufferStart, Filled), commandStarts))
    /\ sequenceId' = sequenceId + 1
    /\ Flushed
    /\ UNCHANGED <<conf, cur, failed>>

DiscardPacket ==
    /\ job.do = "discard"
    /\ buf' = SubSeq(buf, 1, bufferStart)
    /\ commandStarts' = IF commandStarts # <<>> /\ Last(commandStarts) = bufferStart
                        THEN Front(commandStarts) ELSE commandStarts
    /\ job' = NoJob
    /\ UNCHANGED <<conf, cur, bufferStart, sequenceId, compressedSeqId, srv, failed>>

\* The rest of #sendComStmtExecute(): before each part, that is at most `reserve` bytes,
\* the buffer is sent if such a part could not fit.
ExecPart(reserve, n) ==
    /\ job.do = "exec" /\ n <= job.left
    /\ IF Len(buf) + reserve >= BufferLen
       THEN /\ Becomes(Send(Conn, buf, commandStarts))
            /\ commandStarts' = <<>>
            /\ buf' = Data(n) /\ bufferStart' = 0
       ELSE /\ buf' = buf \o Data(n)
            /\ UNCHANGED <<bufferStart, commandStarts, compressedSeqId, srv>>
    /\ job' = Took(n)
    /\ UNCHANGED <<conf, cur, sequenceId, failed>>

ExecEnd ==
    /\ job.do = "exec" /\ job.left = 0
    /\ Becomes(Send(Conn, buf, commandStarts))
    /\ Flushed
    /\ UNCHANGED <<conf, cur, sequenceId, failed>>

-----------------------------------------------------------------------------
(* sendWithData() *)

\* packetSizeRemaining
Remaining == Filled + job.left

\* The packet has room after it for the beginning of another one.
CanWait(cells) == items[cur].wait /\ Len(cells) + Prelude <= BufferLen

\* A packet that fits the buffer: it waits there, or is sent with what is before it.
Finish(cells) ==
    IF CanWait(cells)
    THEN /\ buf' = cells /\ job' = NoJob
         /\ UNCHANGED <<bufferStart, sequenceId, commandStarts, compressedSeqId, srv>>
    ELSE /\ Becomes(Send(Conn, WithHeader(cells, bufferStart, Len(cells) - bufferStart - HeaderLen), commandStarts))
         /\ sequenceId' = sequenceId + 1
         /\ Flushed

FullPacket_Greater == Remaining > MaxPayload
\* The loop condition: this packet is of MaxPayload bytes, and one more follows.
FullPacket == Remaining >= MaxPayload

\* Uint8Array: `while (packetSizeRemaining >= 0xFFFFFF)`
BytesFullPacket ==
    /\ job.do = "bytes" /\ FullPacket
    /\ LET n == MaxPayload - Filled IN
       /\ Becomes(SendData(Send(Conn, WithHeader(buf, bufferStart, MaxPayload), commandStarts), Data(n)))
       /\ job' = Took(n)
    /\ sequenceId' = sequenceId + 1
    /\ buf' = Blank /\ bufferStart' = 0 /\ commandStarts' = <<>>
    /\ UNCHANGED <<conf, cur, failed>>

\* The last packet fits the buffer, or its header is sent, and then the data; in the
\* ordinary protocol the data can wait in the buffer.
BytesLastPacket ==
    /\ job.do = "bytes" /\ ~FullPacket
    /\ IF bufferStart + HeaderLen + Remaining <= BufferLen
       THEN Finish(buf \o Data(job.left))
       ELSE LET sent == Send(Conn, WithHeader(buf, bufferStart, Remaining), commandStarts) IN
            /\ sequenceId' = sequenceId + 1
            /\ IF ~compression /\ CanWait(Data(job.left))
               THEN /\ Becomes(sent)
                    /\ buf' = Data(job.left) /\ bufferStart' = job.left /\ commandStarts' = <<>>
                    /\ job' = NoJob
               ELSE Becomes(SendData(sent, Data(job.left))) /\ Flushed
    /\ UNCHANGED <<conf, cur, failed>>

\* string: a short one is encoded to the buffer
StringShort ==
    /\ job.do = "string" /\ Len(buf) + job.left <= BufferLen
    /\ Finish(buf \o Data(job.left))
    /\ UNCHANGED <<conf, cur, failed>>

StringLong ==
    /\ job.do = "string" /\ Len(buf) + job.left > BufferLen
    /\ job' = [job EXCEPT !.do = "long"]
    /\ UNCHANGED <<conf, cur, buf, bufferStart, sequenceId, commandStarts, compressedSeqId, srv, failed>>

StringFullPacket ==
    /\ job.do = "long" /\ job.chunk = 0 /\ FullPacket
    /\ Becomes(Send(Conn, WithHeader(buf, bufferStart, MaxPayload), commandStarts))
    /\ job' = [job EXCEPT !.chunk = MaxPayload - Filled]
    /\ sequenceId' = sequenceId + 1
    /\ buf' = Blank /\ bufferStart' = 0 /\ commandStarts' = <<>>
    /\ UNCHANGED <<conf, cur, failed>>

\* Bytes of the character that was split at the end of the previous packet
Carry == LET done == (job.at - items[cur].p) % items[cur].char IN
         IF done = 0 THEN 0 ELSE items[cur].char - done
\* encodeInto(): whole characters only
Encoded(room) == LET char == items[cur].char IN (Min({room, BufferLen}) \div char) * char

PartLen_NoSplit(room) == IF Carry > 0 THEN Carry ELSE Encoded(room)
\* The next part of the string for `room` bytes of the packet: the rest of a split
\* character, the characters that fit, or the beginning of a character that is split.
PartLen(room) ==
    IF Carry > 0 THEN Carry ELSE IF Encoded(room) > 0 THEN Encoded(room) ELSE room

StringPart ==
    /\ job.do = "long" /\ job.chunk > 0
    /\ LET n == PartLen(job.chunk) IN
       /\ Becomes(SendData(Conn, Data(n)))
       /\ job' = [Took(n) EXCEPT !.chunk = @ - n]
    /\ UNCHANGED <<conf, cur, buf, bufferStart, sequenceId, commandStarts, failed>>

StringLastPacket ==
    /\ job.do = "long" /\ job.chunk = 0 /\ ~FullPacket
    /\ IF bufferStart + HeaderLen + Remaining <= BufferLen
       THEN Finish(buf \o Data(job.left))
       ELSE /\ Becomes(Send(Conn, WithHeader(buf, bufferStart, Remaining), commandStarts))
            /\ sequenceId' = sequenceId + 1
            /\ buf' = <<>> /\ bufferStart' = 0 /\ commandStarts' = <<>>
            /\ job' = [job EXCEPT !.do = "tail"]
    /\ UNCHANGED <<conf, cur, failed>>

StringTail ==
    /\ job.do = "tail"
    /\ IF job.left = 0 THEN Flushed /\ UNCHANGED <<compressedSeqId, srv>>
       ELSE LET n == PartLen(job.left) IN
            /\ Becomes(SendData(Conn, Data(n)))
            /\ job' = Took(n)
            /\ UNCHANGED <<buf, bufferStart, commandStarts>>
    /\ UNCHANGED <<conf, cur, sequenceId, failed>>

\* Reader or ReadableStream, whose size is known
ReaderEmpty ==
    /\ job.do = "reader" /\ job.left = 0
    /\ Finish(buf)
    /\ UNCHANGED <<conf, cur, failed>>

ReaderStart ==
    /\ job.do = "reader" /\ job.left > 0
    /\ LET canSend == Min({Remaining, MaxPayload})
           cells == WithHeader(buf, bufferStart, canSend) IN
       /\ job' = [job EXCEPT !.do = "pipe", !.chunk = canSend - Filled, !.size = Remaining - canSend]
       /\ IF 2 * Len(buf) > BufferLen
          THEN Becomes(Send(Conn, cells, commandStarts)) /\ buf' = <<>> /\ commandStarts' = <<>>
          ELSE buf' = cells /\ UNCHANGED <<commandStarts, compressedSeqId, srv>>
    /\ bufferStart' = 0
    /\ sequenceId' = sequenceId + 1
    /\ UNCHANGED <<conf, cur, failed>>

\* The reader gives n bytes, to the buffer after what is there.
ReaderPipe(n) ==
    /\ job.do = "pipe" /\ n <= Min({job.chunk, BufferLen - Len(buf)})
    /\ Becomes(Send(Conn, buf \o Data(n), commandStarts))
    /\ commandStarts' = <<>>
    /\ IF n < job.chunk
       THEN /\ buf' = <<>>
            /\ job' = [Took(n) EXCEPT !.chunk = @ - n]
            /\ UNCHANGED sequenceId
       ELSE IF job.size = 0
       THEN buf' = <<>> /\ job' = NoJob /\ UNCHANGED sequenceId
       ELSE LET canSend == Min({job.size, MaxPayload}) IN
            /\ buf' = Header(canSend, sequenceId)
            /\ sequenceId' = sequenceId + 1
            /\ job' = [Took(n) EXCEPT !.chunk = canSend, !.size = @ - canSend]
    /\ UNCHANGED <<conf, cur, bufferStart, failed>>

\* The connection is lost, or the stream ends too early: the operation throws.
WriteFails ==
    /\ failed = "no" /\ job # NoJob
    /\ failed' = "io"
    /\ UNCHANGED <<items, cur, job, buf, bufferStart, sequenceId, commandStarts, compression, compressedSeqId, srv>>

Step ==
    \/ Start \/ ServerReplies
    \/ /\ failed = "no"
       /\ \/ SendBuffer \/ DiscardPacket
          \/ \E reserve \in {2, MaxPart} : \E n \in 1 .. reserve : ExecPart(reserve, n)
          \/ ExecEnd
          \/ BytesFullPacket \/ BytesLastPacket
          \/ StringShort \/ StringLong \/ StringFullPacket \/ StringPart \/ StringLastPacket \/ StringTail
          \/ ReaderEmpty \/ ReaderStart
          \/ \E n \in 1 .. BufferLen : ReaderPipe(n)

Next == Step \/ WriteFails

\* The connection accepts what is written, and a reader gives its data.
Spec == Init /\ [][Next]_vars /\ WF_vars(Step)

-----------------------------------------------------------------------------

IsDone == job = NoJob /\ cur = Len(items)

TypeOK ==
    /\ Len(buf) <= BufferLen /\ bufferStart \in 0 .. Len(buf)
    /\ job.left \in Nat /\ job.chunk \in Nat /\ job.size \in Nat
    /\ compressedSeqId \in 0 .. SeqIds - 1
    /\ failed # "range"

(* The server gets every command, byte for byte: the packets that were split, the ones *)
(* that waited in the buffer, and the data that was sent past the buffer come in       *)
(* order, each command ends with a packet shorter than 0xFFFFFF, the sequence ids of a *)
(* command go from 0 (and LOCAL INFILE data continues the ids of the server), and in   *)
(* the compressed protocol each command begins a compressed packet with number 0.      *)
(* Nothing is written outside the buffer.                                              *)
ServerGetsCommands ==
    /\ TypeOK
    /\ srv.bad = {}
    /\ failed = "no" /\ IsDone => srv.item # 0 /\ Following(srv.item) = 0 /\ AtBoundary(srv) /\ buf = <<>>

(* Sending ends: no loop of sendWithData() can go on without progress, also when a     *)
(* character of the string lies across the end of a packet.                            *)
SendingEnds == <>(failed # "no" \/ IsDone)
=============================================================================

--------------------------- MODULE PacketReader ---------------------------
(***************************************************************************)
(* MyProtocolReader (my_protocol_reader.ts): reads fields of packets from  *)
(* a byte stream that arrives in chunks of any size, through a buffer of   *)
(* fixed length, when a field can lie across the boundary of two packets   *)
(* of one message.                                                         *)
(*                                                                         *)
(* A byte of the stream is a number: the n-th payload byte is n, and the   *)
(* bytes of a packet header are the same negative number, that encodes     *)
(* the payload length and the sequence id.  0xFFFFFF, the header length 4, *)
(* the buffer length 8 KiB and the 9 bytes of the longest length-encoded   *)
(* integer are constants, to be scaled down together.                      *)
(*                                                                         *)
(* Each operation has a synchronous form, that does its work if the buffer *)
(* has what it needs, and an asynchronous one, that the callers use when   *)
(* the first returned nothing: `readX() ?? await readXAsync()`.  The       *)
(* asynchronous forms are lists of steps (todo), with the connection read  *)
(* between any two of them.                                                *)
(***************************************************************************)
EXTENDS Integers, Sequences, SequencesExt

CONSTANTS MaxPayload,   \* 0xFFFFFF: a packet that is followed by its continuation
          HeaderLen,    \* 4
          BufferLen,    \* BUFFER_LEN
          LenencMax,    \* 9: the longest length-encoded integer
          Replies,      \* sequences of messages, each a sequence of fields [op, w, n, z]
          Compressions, \* subset of BOOLEAN: whether the compressed protocol is on
          MaxFrame      \* bound: payload of a compressed packet

ASSUME ReaderAssumption ==
    /\ {HeaderLen, LenencMax} \subseteq Nat \ {0}
    /\ BufferLen > LenencMax + HeaderLen
    /\ MaxPayload > BufferLen
    /\ Compressions \subseteq BOOLEAN

VARIABLES
    fields,      \* the fields that the program reads, with their places (see FlatStream)
    wire,        \* external: bytes that the server sent and reader.read() did not give yet
    compression, \* whether `compression` is not NONE
    frame,       \* what #inflated or #verbatimRemaining has for the caller: [how, left]
    r,           \* the reader: bufferStart, buffer[bufferStart .. bufferEnd), payloadLength,
                 \* packetOffset, sequenceId, totalBytesInPacket
    todo,        \* steps of the asynchronous operation in progress
    got,         \* bytes that it put to its result
    nRead, value, broken  \* the results, see FlatStream

vars == <<fields, wire, compression, frame, r, todo, got, nRead, value, broken>>

-----------------------------------------------------------------------------
(* The server: external. *)

HeaderCell(len, seq) == - (1 + len + (MaxPayload + 1) * seq)

\* The packets of a message of n bytes that begins after `at` bytes of payload: all
\* but the last one are of MaxPayload bytes, and the last one is shorter, maybe empty.
Packets(at, n) ==
    FlattenSeq([k \in 1 .. n \div MaxPayload + 1 |->
        LET len == IF k <= n \div MaxPayload THEN MaxPayload ELSE n % MaxPayload IN
        [i \in 1 .. HeaderLen |-> HeaderCell(len, k)]
            \o [i \in 1 .. len |-> at + (k - 1) * MaxPayload + i]])

\* Payload bytes that a field advances by. unput() returns the byte that was just read.
Advance(f) == IF f.op = "unput" THEN -1 ELSE f.w + f.n
MessageLen(msg) == FoldLeft(LAMBDA n, f : n + Advance(f), 0, msg)

WireOf(reply) ==
    FoldLeft(LAMBDA acc, msg : [at |-> acc.at + MessageLen(msg), cells |-> acc.cells \o Packets(acc.at, MessageLen(msg))],
             [at |-> 0, cells |-> <<>>], reply).cells

FieldsOf(reply) ==
    FoldLeft(LAMBDA acc, f : Append(acc, [op |-> f.op, w |-> f.w, n |-> f.n, z |-> f.z,
                                          at |-> IF acc = <<>> THEN 0 ELSE Last(acc).at + Advance(Last(acc))]),
             <<>>, FlattenSeq(reply))

\* What is in the bytes: a zero byte that ends a string, and the first byte of a
\* length-encoded integer tells the length of it.
IsZero(cell) == \E i \in DOMAIN fields : LET f == fields[i] IN f.z = 1 /\ cell = f.at + f.w + f.n
LenencWidth(cell) ==
    LET here == {i \in DOMAIN fields : fields[i].op \in {"lenenc", "lbytes"} /\ fields[i].at + 1 = cell} IN
    IF here = {} THEN 1 ELSE LET f == fields[CHOOSE i \in here : TRUE] IN IF f.op = "lenenc" THEN f.n ELSE f.w

-----------------------------------------------------------------------------
(* The buffer and the place in the current packet. *)

Init ==
    /\ \E reply \in Replies : fields = FieldsOf(reply) /\ wire = WireOf(reply)
    /\ compression \in Compressions
    /\ frame = [how |-> "none", left |-> 0]
    /\ r = [start |-> 0, buf |-> <<>>, len |-> 0, off |-> 0, seq |-> 0, total |-> 0]
    /\ todo = <<>> /\ got = <<>>
    /\ nRead = 0 /\ value = <<>> /\ broken = FALSE

LenInCurPacket(s) == s.len - s.off
Drop(s, n) == SubSeq(s.buf, n + 1, Len(s.buf))
\* bufferStart += n; packetOffset += n
Consume(s, n) == [s EXCEPT !.start = @ + n, !.buf = Drop(s, n), !.off = @ + n]

\* A header is where the reader takes it to be; other bytes make up a wrong one.
CellLen(cell) == IF cell < 0 THEN (-cell - 1) % (MaxPayload + 1) ELSE MaxPayload - 1
CellSeq(cell) == IF cell < 0 THEN (-cell - 1) \div (MaxPayload + 1) ELSE 0

Entered(s, cell) ==
    [s EXCEPT !.len = CellLen(cell), !.total = @ + CellLen(cell), !.seq = CellSeq(cell) + 1]

\* readPacketHeader(), when the header is in the buffer
ReadHeader(s) ==
    [Entered(s, s.buf[1]) EXCEPT !.start = @ + HeaderLen, !.buf = Drop(s, HeaderLen), !.off = 0]

\* #correctNearPacketBoundary() is called near the end of any packet, and joins the
\* packet with the next one if there is a next one.
Joins(s, n) == s.off > MaxPayload - n /\ s.len = MaxPayload

Join_NotCounted(s) ==
    LET tail == LenInCurPacket(s) IN
    [Entered(s, s.buf[tail + 1]) EXCEPT
        !.start = @ + HeaderLen,
        !.buf = SubSeq(s.buf, 1, tail) \o Drop(s, tail + HeaderLen),
        !.off = - tail,
        !.total = s.total]

\* The tail of the packet is moved over the header of the next one.
Join(s) ==
    LET tail == LenInCurPacket(s) IN
    [Entered(s, s.buf[tail + 1]) EXCEPT
        !.start = @ + HeaderLen,
        !.buf = SubSeq(s.buf, 1, tail) \o Drop(s, tail + HeaderLen),
        !.off = - tail]

-----------------------------------------------------------------------------
(* The synchronous forms. *)

\* readUint8() .. readDouble()
NumberInBuffer(s, n) == Len(s.buf) >= n /\ s.off <= MaxPayload - n

\* readLenencInt()
LenencIntInBuffer(s) ==
    /\ Len(s.buf) > 0 /\ s.off <= MaxPayload - LenencMax
    /\ Len(s.buf) >= LenencWidth(s.buf[1])

\* readShortBytes(), readShortString(): a value across the boundary needs the header too
BytesInBuffer(s, n) == Len(s.buf) >= n /\ (LenInCurPacket(s) >= n \/ Len(s.buf) >= n + HeaderLen)

\* readShortNulBytes(), readShortNulString(): buffer.indexOf(0, bufferStart)
ZeroAt(s) == {i \in DOMAIN s.buf : IsZero(s.buf[i])}

\* readVoid()
VoidInBuffer(s, n) == Len(s.buf) >= n /\ s.off <= MaxPayload - n

\* The value of n bytes, and the reader after them, when they are in the buffer
Straddles(s, n) == LenInCurPacket(s) < n
TakenBytes_WithHeader(s, n) == SubSeq(s.buf, 1, n)
TakenBytes(s, n) ==
    LET here == LenInCurPacket(s) IN
    IF Straddles(s, n) THEN SubSeq(s.buf, 1, here) \o SubSeq(s.buf, here + HeaderLen + 1, n + HeaderLen)
    ELSE SubSeq(s.buf, 1, n)
AfterBytes(s, n) ==
    LET here == LenInCurPacket(s) IN
    IF Straddles(s, n) THEN Consume(ReadHeader(Consume(s, here)), n - here) ELSE Consume(s, n)

FirstZero(s) == CHOOSE i \in ZeroAt(s) : \A j \in ZeroAt(s) : i <= j

\* The synchronous form of the operation returns a value, and not `undefined`.
InBuffer(s, f) ==
    CASE f.op = "packet" -> Len(s.buf) >= HeaderLen
      [] f.op = "unput"  -> TRUE
      [] f.op = "num"    -> NumberInBuffer(s, f.n)
      [] f.op = "lenenc" -> LenencIntInBuffer(s)
      [] f.op = "bytes"  -> BytesInBuffer(s, f.n)
      [] f.op = "lbytes" -> LenencIntInBuffer(s) /\ BytesInBuffer(s, f.w + f.n)
      [] f.op = "eof"    -> Len(s.buf) >= LenInCurPacket(s)
      [] f.op = "nul"    -> ZeroAt(s) # {}
      [] f.op = "void"   -> VoidInBuffer(s, f.n)
      [] f.op \in {"buf", "col"} -> FALSE

\* How many bytes of payload the synchronous form consumes.
Consumed(s, f) ==
    CASE f.op = "lenenc" -> LenencWidth(s.buf[1])
      [] f.op = "eof"    -> LenInCurPacket(s)
      [] f.op = "nul"    -> FirstZero(s)
      [] OTHER -> f.w + f.n

\* What the caller gets of the bytes that were consumed. readShortEofBytes() cuts one
\* trailing zero.
Result(f, bytes) ==
    CASE f.op \in {"packet", "void"} -> <<>>
      [] f.op = "lbytes" -> SubSeq(bytes, f.w + 1, Len(bytes))
      [] f.op = "eof" -> IF bytes # <<>> /\ IsZero(Last(bytes)) THEN Front(bytes) ELSE bytes
      [] f.op = "nul" -> Front(bytes)
      [] OTHER -> bytes

\* The reader after the synchronous form, and its value. The rows are counted in
\* totalBytesInPacket one by one (resultsets.ts sets it to 0).
SyncRead(s, f) ==
    CASE f.op = "packet" -> [s |-> ReadHeader([s EXCEPT !.total = 0]), value |-> <<>>]
      [] f.op = "unput" ->
            [s |-> [s EXCEPT !.start = @ - 1, !.off = @ - 1, !.buf = value \o @], value |-> <<>>]
      [] OTHER -> LET n == Consumed(s, f) IN
                  [s |-> AfterBytes(s, n), value |-> Result(f, TakenBytes(s, n))]

-----------------------------------------------------------------------------
(* The asynchronous forms. A step is [do, n]:                                *)
(*   recv n    #recvAtLeast(n)          join n    the call of                *)
(*   take n    n bytes of the buffer              #correctNearPacketBoundary *)
(*   width     the length-encoded int   header    readPacketHeader()         *)
(*   bytes n   readShortBytes(n) ??...  nul       #recvToNul()               *)
(*   fill n    readBytesToBuffer()      skip n    readVoidAsync(n)           *)
(*   drop n    the inner loop of it     last      the end of a last column   *)

S(do, n) == [do |-> do, n |-> n]

\* readShortBytesAsync(), readShortStringAsync()
BytesAsync(s, n) ==
    IF Straddles(s, n)
    THEN LET here == LenInCurPacket(s) IN
         <<S("recv", here + HeaderLen), S("take", here), S("header", 0), S("recv", n - here), S("take", n - here)>>
    ELSE <<S("recv", n), S("take", n)>>

\* readLenencIntAsync()
LenencIntAsync == <<S("join", LenencMax), S("recv", 1), S("width", 0)>>

Async(f) ==
    CASE f.op = "packet" -> <<S("recv", HeaderLen), S("header", 0)>>
      [] f.op = "num"    -> <<S("join", f.n), S("recv", f.n), S("take", f.n)>>
      [] f.op = "lenenc" -> LenencIntAsync
      [] f.op = "bytes"  -> BytesAsync(r, f.n)
      [] f.op = "lbytes" -> LenencIntAsync \o <<S("bytes", f.n)>>
      [] f.op = "eof"    -> LET n == LenInCurPacket(r) IN <<S("recv", n), S("take", n)>>
      [] f.op = "nul"    -> <<S("nul", 0)>>
      [] f.op = "void"   -> <<S("skip", f.n)>>
      [] f.op = "buf"    -> <<S("fill", f.n)>>
      [] f.op = "col"    -> <<S("fill", f.n), S("last", 0)>>

\* The program reads its next field.
Call ==
    /\ ~broken /\ todo = <<>> /\ nRead < Len(fields)
    /\ LET f == fields[nRead + 1] IN
       IF InBuffer(r, f)
       THEN /\ LET read == SyncRead(r, f) IN r' = read.s /\ value' = read.value
            /\ nRead' = nRead + 1
            /\ UNCHANGED todo
       ELSE /\ r' = IF f.op = "packet" THEN [r EXCEPT !.total = 0] ELSE r
            /\ todo' = Async(f)
            /\ UNCHANGED <<nRead, value>>
    /\ UNCHANGED <<fields, wire, compression, frame, got, broken>>

\* The first step can go on without the connection.
Ready(s, step) ==
    CASE step.do = "recv" -> Len(s.buf) >= step.n
      [] step.do = "join" -> Joins(s, step.n) => Len(s.buf) >= LenInCurPacket(s) + HeaderLen
      [] step.do = "nul"  -> ZeroAt(s) # {}
      [] step.do = "fill" -> step.n = 0 \/ LenInCurPacket(s) = 0 \/ Len(s.buf) > 0
      [] step.do = "drop" -> Len(s.buf) >= step.n
      [] OTHER -> TRUE

\* What the step does: the reader after it, the bytes that it took, and the steps
\* that it puts in its place.
Done(s, step) ==
    CASE step.do = "recv" -> [s |-> s, took |-> 0, next |-> <<>>]
      [] step.do = "join" -> [s |-> IF Joins(s, step.n) THEN Join(s) ELSE s, took |-> 0, next |-> <<>>]
      [] step.do = "take" -> [s |-> Consume(s, step.n), took |-> step.n, next |-> <<>>]
      [] step.do = "header" -> [s |-> ReadHeader(s), took |-> 0, next |-> <<>>]
      [] step.do = "width" ->
            LET w == LenencWidth(s.buf[1]) IN [s |-> s, took |-> 0, next |-> <<S("recv", w), S("take", w)>>]
      [] step.do = "bytes" -> [s |-> s, took |-> 0, next |-> BytesAsync(s, step.n)]
      [] step.do = "nul" ->
            [s |-> Consume(s, FirstZero(s)), took |-> FirstZero(s), next |-> <<>>]
      [] step.do = "fill" ->
            IF step.n = 0 THEN [s |-> s, took |-> 0, next |-> <<>>]
            ELSE IF LenInCurPacket(s) = 0
            THEN [s |-> s, took |-> 0, next |-> <<S("recv", HeaderLen), S("header", 0), step>>]
            ELSE LET n == Min({Len(s.buf), LenInCurPacket(s), step.n}) IN
                 [s |-> Consume(s, n), took |-> n, next |-> <<S("fill", step.n - n)>>]
      [] step.do = "skip" ->
            [s |-> s, took |-> 0, next |-> IF step.n = 0 THEN <<>> ELSE <<S("join", 1), S("part", step.n)>>]
      [] step.do = "part" ->
            LET n == Min({step.n, LenInCurPacket(s)}) IN
            [s |-> [s EXCEPT !.off = @ + n], took |-> 0, next |-> <<S("drop", n), S("skip", step.n - n)>>]
      [] step.do = "drop" ->
            [s |-> [Consume(s, step.n) EXCEPT !.off = s.off], took |-> 0, next |-> <<>>]
      [] step.do = "last" ->
            [s |-> s, took |-> 0,
             next |-> IF s.len = MaxPayload THEN <<S("recv", HeaderLen), S("header", 0)>> ELSE <<>>]

\* One step of the asynchronous operation; after the last one the field is read.
Proceed ==
    /\ todo # <<>> /\ Ready(r, Head(todo))
    /\ LET d == Done(r, Head(todo))
           rest == d.next \o Tail(todo)
           bytes == got \o SubSeq(r.buf, 1, d.took) IN
       /\ r' = d.s
       /\ todo' = rest
       /\ got' = IF rest = <<>> THEN <<>> ELSE bytes
       /\ IF rest = <<>>
          THEN nRead' = nRead + 1 /\ value' = Result(fields[nRead + 1], bytes)
          ELSE UNCHANGED <<nRead, value>>
    /\ UNCHANGED <<fields, wire, compression, frame, broken>>

-----------------------------------------------------------------------------
(* The connection. *)

\* The buffer before a read from the connection: a recv*() moves its contents to the
\* beginning when what it wants would not fit.
Compacts(s, step) ==
    \/ s.buf = <<>>
    \/ step.do = "recv" /\ s.start > BufferLen - step.n
    \/ step.do = "join"
    \/ step.do = "nul" /\ s.start + Len(s.buf) = BufferLen

Compacted(s, step) == IF Compacts(s, step) THEN [s EXCEPT !.start = 0] ELSE s

\* Bytes that the step asks readFromConn() for: the rest of the buffer, the rest of the
\* destination in this packet, or the whole buffer when its contents is skipped.
Space(step) ==
    CASE step.do = "fill" -> Min({LenInCurPacket(r), step.n})
      [] step.do = "drop" -> BufferLen
      [] OTHER -> LET s == Compacted(r, step) IN BufferLen - s.start - Len(s.buf)

\* readFromConn(): a chunk of what the socket has, of a payload that travels verbatim,
\* or of one that is inflated already.
Chunk(space) ==
    IF ~compression THEN 1 .. Min({space, Len(wire)})
    ELSE IF frame.how = "inflated" THEN {Min({space, frame.left})}
    ELSE 1 .. Min({space, frame.left})

Receive ==
    /\ todo # <<>> /\ ~ Ready(r, Head(todo))
    /\ compression => frame.left > 0
    /\ LET step == Head(todo) IN
       \E n \in Chunk(Space(step)) :
          LET new == SubSeq(wire, 1, n) IN
          /\ wire' = SubSeq(wire, n + 1, Len(wire))
          /\ frame' = IF compression THEN [frame EXCEPT !.left = @ - n] ELSE frame
          /\ CASE step.do = "fill" ->
                    /\ got' = got \o new
                    /\ r' = [r EXCEPT !.off = @ + n, !.start = 0]
                    /\ todo' = <<S("fill", step.n - n)>> \o Tail(todo)
               [] step.do = "drop" ->
                    /\ r' = [r EXCEPT !.start = 0, !.buf = new]
                    /\ todo' = <<S("drop", step.n - Len(r.buf))>> \o Tail(todo)
                    /\ UNCHANGED got
               [] OTHER ->
                    /\ r' = [Compacted(r, step) EXCEPT !.buf = @ \o new]
                    /\ UNCHANGED <<todo, got>>
    /\ UNCHANGED <<fields, compression, nRead, value, broken>>

\* readFromConn() in the compressed protocol: the header of the next compressed packet
NextFrame ==
    /\ todo # <<>> /\ ~ Ready(r, Head(todo))
    /\ compression /\ frame.left = 0 /\ wire # <<>>
    /\ \E how \in {"inflated", "verbatim"}, n \in 1 .. Min({MaxFrame, Len(wire)}) :
          frame' = [how |-> how, left |-> n]
    /\ UNCHANGED <<fields, wire, compression, r, todo, got, nRead, value, broken>>

\* ServerDisconnectedError: the end of the stream while something is to be read
Lose ==
    /\ todo # <<>> /\ ~ Ready(r, Head(todo))
    /\ broken' = TRUE
    /\ todo' = <<>> /\ got' = <<>>
    /\ UNCHANGED <<fields, wire, compression, frame, r, nRead, value>>

Next == Call \/ Proceed \/ Receive \/ NextFrame \/ Lose

\* The program reads on, and the network delivers what the server sent.
Spec == Init /\ [][Next]_vars /\ WF_vars(Call) /\ WF_vars(Proceed) /\ WF_vars(Receive) /\ WF_vars(NextFrame)

-----------------------------------------------------------------------------

TypeOK ==
    /\ r.start \in 0 .. BufferLen /\ r.start + Len(r.buf) <= BufferLen
    /\ r.len \in 0 .. MaxPayload /\ r.off \in -LenencMax .. MaxPayload
    /\ frame.left \in 0 .. MaxFrame
    /\ nRead \in 0 .. Len(fields)
    /\ \A i \in DOMAIN todo : todo[i].do = "recv" => todo[i].n <= BufferLen

(* The reader implements a flat stream of fields: whatever chunks and compressed      *)
(* packets the bytes come in, wherever the boundaries of packets fall, and whichever  *)
(* operations had to wait, each field gives its own bytes; and no operation waits for *)
(* bytes that the server has no reason to send.                                       *)
Flat == INSTANCE FlatStream
ImplementsFlatStream == Flat!Spec

\* The message that was read last: its first field, "packet", and its length
IsMessageEnd == ~broken /\ nRead > 0 /\ todo = <<>> /\ (nRead < Len(fields) => fields[nRead + 1].op = "packet")
MessageStart == CHOOSE i \in 1 .. nRead : fields[i].op = "packet" /\ \A j \in i + 1 .. nRead : fields[j].op # "packet"
MessageRead == fields[nRead].at + Advance(fields[nRead]) - fields[MessageStart].at

(* When the last field of a message is read, nothing of the message is left: the      *)
(* reader is at the end of its last packet (what #readPacket() asserts before the     *)
(* next one), the sequence id follows the one of that packet, so that a packet that   *)
(* the client writes now is in order, and totalBytesInPacket is the length of the     *)
(* message, headers not counted (Resultsets.lastRowByteLength, and the limit of       *)
(* store()).  On the way the buffer is not overrun, nor asked for more than it holds  *)
(* (the debugAssert() of #recvAtLeast).                                               *)
WholeMessageRead ==
    /\ TypeOK
    /\ IsMessageEnd =>
          /\ r.off = r.len /\ r.len < MaxPayload
          /\ r.seq = MessageRead \div MaxPayload + 2
          /\ r.total = MessageRead
=============================================================================

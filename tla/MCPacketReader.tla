--------------------------- MODULE MCPacketReader ---------------------------
(* Instances of PacketReader: 0xFFFFFF is 8, the header 2 bytes, the buffer 6    *)
(* bytes, and the longest length-encoded integer 3 bytes, so a string of up to 4 *)
(* bytes is a short one.                                                         *)
EXTENDS PacketReader

F(op, n) == [op |-> op, w |-> 0, n |-> n, z |-> 0]
Str(w, n) == [op |-> "lbytes", w |-> w, n |-> n, z |-> 0]
Zeroed(op, n) == [op |-> op, w |-> 0, n |-> n, z |-> 1]
Packet == F("packet", 0)

\* Bytes before the field that is probed: far from the boundary, and around it
Before == {<<>>} \cup {<<F("buf", n)>> : n \in 3 .. 9}
Probed == {F("num", 1), F("num", 3), F("lenenc", 1), F("lenenc", 3), F("bytes", 2), F("bytes", 4),
           Str(1, 3), Str(3, 4), F("void", 3), F("void", 10), F("buf", 11), F("col", 4), F("col", 10)}
After == {<<>>, <<F("num", 2)>>, <<Str(1, 2)>>, <<F("void", 1), F("bytes", 3)>>}

\* A message whose length is a multiple of MaxPayload ends with an empty packet, that
\* only the reader of a last column reads.
Readable(msg) == MessageLen(msg) % MaxPayload # 0 \/ (MessageLen(msg) > 0 /\ Last(msg).op = "col")

Rows == {<<Packet>> \o b \o <<f>> \o a : b \in Before, f \in Probed, a \in After}
ColIsLast(msg) == \A i \in 1 .. Len(msg) - 1 : msg[i].op # "col"
Ok == <<Packet, F("num", 1), F("unput", 1), Str(1, 1)>>
Err == <<Packet, F("num", 1), Zeroed("nul", 2), F("num", 2), Zeroed("eof", 2)>>
Eof == <<Packet, F("num", 1), F("eof", 2)>>

SomeReplies == {<<row, Ok>> : row \in {m \in Rows : Readable(m) /\ ColIsLast(m)}} \cup {<<Err, Eof>>, <<Ok, Err>>}
=============================================================================

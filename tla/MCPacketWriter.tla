--------------------------- MODULE MCPacketWriter ---------------------------
(* Instances of PacketWriter: 0xFFFFFF is 12, the header 2 bytes, the buffer 10   *)
(* bytes; COM_STMT_SEND_LONG_DATA and COM_QUERY take 1 byte before their data,    *)
(* and COM_STMT_EXECUTE 2.                                                        *)
EXTENDS PacketWriter

Item(kind, p, n, wait, char) == [kind |-> kind, p |-> p, n |-> n, wait |-> wait, char |-> char]
Cmd(p) == Item("send", p, 0, FALSE, 1)
File(p) == Item("file", p, 0, FALSE, 1)
Discard == Item("discard", 1, 0, FALSE, 1)
Reply == Item("reply", 0, 0, FALSE, 1)
Exec(n) == Item("exec", 2, n, FALSE, 1)
Blob(n) == Item("bytes", 1, n, TRUE, 1)
Text(n, char) == Item("string", 1, n, TRUE, char)
Query(kind, n, char) == Item(kind, 1, n, FALSE, char)

Queries == {Query("bytes", n, 1) : n \in {0, 1, 7, 8, 10, 11, 12, 22, 23, 24, 30}}
    \cup {Query("string", 2 * k, 2) : k \in {1, 5, 6, 7, 11, 12, 15}}
    \cup {Query("string", 3 * k, 3) : k \in {2, 4, 5, 7, 8, 9}}
    \cup {Query("reader", n, 1) : n \in {0, 1, 5, 10, 12, 20, 24, 30}}

\* Long data that leaves room in the buffer for COM_STMT_EXECUTE, or none at all
Firsts == {Blob(n) : n \in {1, 3, 5, 8, 11, 14, 23}} \cup {Text(n, 2) : n \in {2, 8, 12, 14, 22, 26}}

Batches ==
    {<<q>> : q \in Queries} \cup {<<Cmd(3), q>> : q \in Queries}
    \cup {<<f, q>> : f \in {Text(1, 1), Text(2, 2), Text(12, 3)}, q \in Queries}
    \cup {<<f, Exec(n)>> : f \in Firsts, n \in {1, 5, 9}}
    \cup {<<f, Text(3, 1), Exec(5)>> : f \in Firsts}
    \cup {<<Cmd(4), Discard, Exec(4)>>, <<Cmd(2), Reply, File(8), File(8), File(3), File(0)>>}
=============================================================================

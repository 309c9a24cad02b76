---------------------------- MODULE FlatStream ----------------------------
(***************************************************************************)
(* What MyProtocolReader promises to the code that reads fields of a       *)
(* server reply: the fields come one after another, each with exactly the  *)
(* bytes that the server put in it, as if there were no packets, no read   *)
(* chunks, no buffer and no compression.  Only the loss of the connection  *)
(* ends this.                                                              *)
(*                                                                         *)
(* A field is a record: op, the operation that reads it; at, the number    *)
(* of payload bytes before it; w, the length of its length prefix; n, the  *)
(* number of its other bytes; z, how many trailing zero bytes are not a    *)
(* part of the value.  The bytes of the payload are numbered from 1.       *)
(***************************************************************************)
EXTENDS Integers, Sequences

VARIABLES fields,  \* the fields of the reply
          nRead,   \* how many of them are read
          value,   \* what the last one gave
          broken   \* the connection is lost

vars == <<fields, nRead, value, broken>>

\* The bytes that the caller must get for a field
Content(f) ==
    IF f.op \in {"packet", "unput", "void"}
    THEN <<>>
    ELSE [i \in 1 .. f.n - f.z |-> f.at + f.w + i]

Init == nRead = 0 /\ value = <<>> /\ broken = FALSE

Read ==
    /\ ~broken /\ nRead < Len(fields)
    /\ nRead' = nRead + 1
    /\ value' = Content(fields[nRead + 1])
    /\ UNCHANGED <<fields, broken>>

Lose ==
    /\ ~broken
    /\ broken' = TRUE
    /\ UNCHANGED <<fields, nRead, value>>

Next == Read \/ Lose

Spec == Init /\ [][Next]_vars /\ WF_vars(Read)
===========================================================================

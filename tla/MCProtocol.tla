---------------------------- MODULE MCProtocol ----------------------------
(* Instances of Protocol. *)
EXTENDS Protocol

\* No rows, rows, several resultsets, an error at once, an error behind a row, an
\* error of a later statement, an error that lets retry, and LOCAL INFILE.
SomeReplies == {<<"ok">>, <<"err">>, <<"errR">>, <<"cols", "row", "eof">>, <<"cols", "row", "err">>,
                <<"cols", "row", "eofM", "ok">>, <<"okM", "cols", "eof">>, <<"okM", "err">>,
                <<"infile", "ok">>, <<"okM", "infile", "ok">>,
                <<"cols", "eofM", "cols", "row", "eof">>, <<"cols", "row", "eofM", "err">>}
NoErrorInRows == SomeReplies \ {<<"cols", "row", "err">>, <<"cols", "row", "eofM", "err">>}
NoRows == {<<"ok">>, <<"err">>, <<"errR">>}

\* A statement that is executed returns rows, or not, or several sets of rows.
ExecReplies == {<<"ok">>, <<"err">>, <<"cols", "row", "eof">>, <<"cols", "row", "err">>,
                <<"cols", "eofM", "cols", "row", "eof">>, <<"cols", "row", "eofM", "err">>}

SomeAux == {<<>>, <<"initdb">>, <<"prestmt", "prequery", "setopt">>, <<"ignored">>}
AuxErrors == {"initdb", "prequery", "ignored", "setopt"}

\* The instance is one of those the theorems of ProtocolProofs are about.
ASSUME InstanceAssumption == CopedWith
===========================================================================

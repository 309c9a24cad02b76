------------------------------- MODULE MCPool -------------------------------
(* Pool for TLC.  The MyConns k1 and k2 are of the DSN d1, or k2 is of d2,   *)
(* that differs from d1 only by its schema.  maxConns is 1, so that two      *)
(* users already compete for a slot, or 2, so that killQuery() finds one.    *)
EXTENDS Pool, TLC

CONSTANTS k1, k2, d1, d2

OneDsn  == [k \in Conns |-> d1]
TwoDsns == [k \in Conns |-> IF k = k2 THEN d2 ELSE d1]

SameHost == [d \in Dsns |-> "host"]

OneConn  == [d \in Dsns |-> 1]
TwoConns == [d \in Dsns |-> 2]

\* MyConns of one DSN are interchangeable, and so are the other identities
SymmetryOfIds == Permutations(Protos) \cup Permutations(Entries)
                 \cup Permutations(Calls) \cup Permutations(Ticks)
Symmetry == SymmetryOfIds \cup Permutations(Conns)
=============================================================================

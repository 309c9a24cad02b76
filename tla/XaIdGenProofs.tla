--------------------------- MODULE XaIdGenProofs ---------------------------
(* XA ids are never given out twice, whatever the bounds are. *)
EXTENDS XaIdGen, TLAPS

\* The generator starts without ids.
LEMMA IdInit == Init => IdInv
BY XaIdGenAssumption DEF Init, IdInv, TypeOK, NeverRepeats

\* The clock and next() keep the invariant: a new number is above all those of
\* the remembered second, and a new second is above all the remembered ones.
LEMMA IdStep == IdInv /\ [Next]_vars => IdInv'
<1> SUFFICES ASSUME IdInv, [Next]_vars PROVE IdInv'
  OBVIOUS
<1> USE DEF IdInv, TypeOK, NeverRepeats
<1>1. CASE Tick
  BY <1>1 DEF Tick
<1>2. CASE NextId
  <2>1. CASE now = lastTime
    <3>1. /\ issued' = issued \cup {<<now, lastEnum + 1>>}
          /\ twice' = twice \cup ({<<now, lastEnum + 1>>} \cap issued)
          /\ lastEnum' = lastEnum + 1 /\ lastTime' = lastTime /\ now' = now
      BY <1>2, <2>1 DEF NextId, Give
    <3>2. <<now, lastEnum + 1>> \notin issued
      BY <2>1
    <3>. QED  BY <2>1, <3>1, <3>2
  <2>2. CASE now # lastTime
    <3>1. /\ issued' = issued \cup {<<now, 0>>}
          /\ twice' = twice \cup ({<<now, 0>>} \cap issued)
          /\ lastEnum' = 0 /\ lastTime' = now /\ now' = now
      BY <1>2, <2>2 DEF NextId, Give
    <3>2. <<now, 0>> \notin issued
      BY <2>2
    <3>. QED  BY <2>2, <3>1, <3>2
  <2>. QED  BY <2>1, <2>2
<1>3. CASE UNCHANGED vars
  BY <1>3 DEF vars
<1>. QED  BY <1>1, <1>2, <1>3 DEF Next

\* XaIdGen.next() never returns the same id twice in one process, as long as
\* the clock does not go back.
THEOREM IdsNeverRepeat == Spec => []NeverRepeats
<1>1. IdInv => NeverRepeats
  BY DEF IdInv
<1>. QED  BY IdInit, IdStep, <1>1, PTL DEF Spec
=============================================================================

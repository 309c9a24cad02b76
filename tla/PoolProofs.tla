----------------------------- MODULE PoolProofs -----------------------------
(***************************************************************************)
(* Type correctness of the pool and its limit of connections, for any      *)
(* number of MyConns, DSNs, connections and concurrent calls.              *)
(***************************************************************************)
EXTENDS Pool, FiniteSetTheorems, TLAPS

USE DEF entryVars, countVars, protoVars, taskVars

-----------------------------------------------------------------------------
(* Type correctness.  It is not inductive alone: a call that is not free has *)
(* a Dsn and a Protocols object, a call whose callback is in an array waits  *)
(* for that Protocols object, and the Dsn is known of every connection that  *)
(* somebody uses and of every one that the pool has to take care of.         *)

Refs(r) == r.held \cup ({r.info, r.proto} \ {None})

CallOk(r, dsnOf) ==
    /\ r.pc # "free" => r.dsn \in Dsns /\ r.entry \in Entries
    /\ r.kind = "care" /\ r.pc \notin {"free", "returning"} => r.info \in Protos
    /\ \A p \in Refs(r) : dsnOf[p] \in Dsns

CallsOk == \A c \in Calls : CallOk(call[c], pdsn)

CbWaits == \A e \in Entries : \A c \in cb[e] : call[c].pc = "waiting" /\ call[c].entry = e

DsnKnown ==
    /\ \A p \in takeCare : pdsn[p] \in Dsns
    /\ \A r \in Runs : \A p \in run[r].todo : pdsn[p] \in Dsns
    /\ \A k \in Conns : conn[k].proto # None => pdsn[conn[k].proto] \in Dsns
    /\ \A p \in Protos : returning[p] # "no" => pdsn[p] \in Dsns

WfInv == TypeOK /\ CallsOk /\ CbWaits /\ DsnKnown

(* A call that nobody makes is a well formed record.                         *)
LEMMA FreeCallType == FreeCall \in Call
  BY DEF FreeCall, Call

(* A new pool, with no connections and no calls, is well formed.             *)
LEMMA InitWfInv == Init => WfInv
  BY FreeCallType, PoolAssumption
  DEF Init, WfInv, TypeOK, CallsOk, CallOk, Refs, CbWaits, DsnKnown, Run, NoRun, Conn, IntervalStates, FreeCall

(* What a call becomes, and what wakes it, keeps it a call. *)
LEMMA DecNBusyAllType ==
  ASSUME TypeOK, NEW d, NEW e, NEW calls \in [Calls -> Call],
         NEW idleAll, NEW care, NEW tm \in IntervalStates,
         DecNBusyAll(d, e, calls, idleAll, care, tm)
  PROVE  /\ nBusyAll' \in Int
         /\ timer' \in IntervalStates
         /\ phase' \in {"open", "waitEnd", "ended", "waitTask", "intervalsDone", "final", "done"}
         /\ call' \in [Calls -> Call]
         /\ cb' \in [Entries -> SUBSET Calls]
         /\ stale' \in SUBSET Entries
  <1>1. nBusyAll' \in Int
    BY DEF TypeOK, DecNBusyAll
  <1>2. timer' \in IntervalStates
    BY DEF TypeOK, DecNBusyAll, StoppedState, IntervalStates
  <1>3. phase' \in {"open", "waitEnd", "ended", "waitTask", "intervalsDone", "final", "done"}
    BY DEF TypeOK, DecNBusyAll, OnEnd
  <1>4. call' \in [Calls -> Call]
    <2>1. \A c \in Calls : [calls[c] EXCEPT !.pc = "woken"] \in Call
      BY DEF Call
    <2>2. QED
      BY <2>1 DEF TypeOK, DecNBusyAll
  <1>5. cb' \in [Entries -> SUBSET Calls] /\ stale' \in SUBSET Entries
    BY DEF TypeOK, DecNBusyAll
  <1>6. QED
    BY <1>1, <1>2, <1>3, <1>4, <1>5

(* The check for a free slot lets a call go on, wait, or fail, and changes   *)
(* nothing else of it.                                                       *)
LEMMA WaitForSlotType ==
  ASSUME TypeOK, NEW c \in Calls, NEW rec \in Call, NEW late,
         WaitForSlot(c, rec, late)
  PROVE  /\ \E pc \in {"popping", "failed", "waiting"} :
                call' = [call EXCEPT ![c] = [rec EXCEPT !.pc = pc]]
         /\ call' \in [Calls -> Call]
         /\ cb' \in [Entries -> SUBSET Calls]
         /\ stale' \in SUBSET Entries
  <1>1. PICK pc \in {"popping", "failed", "waiting"} :
            call' = [call EXCEPT ![c] = [rec EXCEPT !.pc = pc]]
    BY DEF WaitForSlot
  <1>2. [rec EXCEPT !.pc = pc] \in Call
    BY DEF Call
  <1>3. cb' \in [Entries -> SUBSET Calls] /\ stale' \in SUBSET Entries
    BY DEF TypeOK, WaitForSlot
  <1>4. QED
    BY <1>1, <1>2, <1>3 DEF TypeOK

(* getProtocol() finds or makes an entry, and its call goes on, waits, or    *)
(* fails.                                                                    *)
LEMMA GetProtocolType ==
  ASSUME TypeOK, NEW c \in Calls, NEW d \in Dsns, NEW kind \in {"connect", "kill", "care"},
         NEW k \in Conns \cup {None}, NEW info \in Protos \cup {None},
         GetProtocol(c, d, kind, k, info)
  PROVE  /\ entryOf' \in [Dsns -> Entries \cup {None}]
         /\ cb' \in [Entries -> SUBSET Calls]
         /\ stale' \in SUBSET Entries
         /\ logged' \in SUBSET Entries
         /\ call' \in [Calls -> Call]
         /\ call[c].pc = "free"
         /\ \E e \in Entries, pc \in {"popping", "failed", "waiting"} :
              call' = [call EXCEPT ![c] =
                          [pc |-> pc, kind |-> kind, conn |-> k, info |-> info,
                           dsn |-> d, entry |-> e, proto |-> None, held |-> {}]]
  <1> DEFINE rec(pc, e) == [pc |-> pc, kind |-> kind, conn |-> k, info |-> info,
                            dsn |-> d, entry |-> e, proto |-> None, held |-> {}]
  <1>1. \A e \in Entries, pc \in {"free", "popping", "failed", "waiting"} : rec(pc, e) \in Call
    BY DEF Call
  <1>2. CASE entryOf[d] # None
    <2>1. WaitForSlot(c, rec("free", entryOf[d]), FALSE) /\ UNCHANGED <<entryOf, logged>>
      BY <1>2 DEF GetProtocol
    <2>2. entryOf[d] \in Entries
      BY <1>2 DEF TypeOK
    <2> HIDE DEF rec
    <2>3. rec("free", entryOf[d]) \in Call
      BY <1>1, <2>2
    <2>4. /\ \E pc \in {"popping", "failed", "waiting"} :
                call' = [call EXCEPT ![c] = [rec("free", entryOf[d]) EXCEPT !.pc = pc]]
          /\ call' \in [Calls -> Call]
          /\ cb' \in [Entries -> SUBSET Calls]
          /\ stale' \in SUBSET Entries
      BY <2>1, <2>3, WaitForSlotType
    <2>5. \A pc : [rec("free", entryOf[d]) EXCEPT !.pc = pc] = rec(pc, entryOf[d])
      BY DEF rec
    <2>6. \E pc \in {"popping", "failed", "waiting"} :
              call' = [call EXCEPT ![c] = rec(pc, entryOf[d])]
      BY <2>4, <2>5
    <2>7. QED
      BY <2>1, <2>2, <2>4, <2>6 DEF TypeOK, GetProtocol, rec
  <1>3. CASE entryOf[d] = None
    <2>1. PICK e \in FreeEntries :
            /\ entryOf' = [entryOf EXCEPT ![d] = e]
            /\ logged' = logged \ {e}
            /\ stale' = stale \ {e}
            /\ UNCHANGED cb
            /\ call' = [call EXCEPT ![c] = rec("popping", e)]
      BY <1>3 DEF GetProtocol
    <2>2. e \in Entries
      BY DEF FreeEntries
    <2>3. QED
      BY <1>1, <2>1, <2>2 DEF TypeOK, GetProtocol
  <1>4. QED
    BY <1>2, <1>3

(* One call is replaced by a well formed one.                                *)
LEMMA CallUpdate ==
  ASSUME NEW calls \in [Calls -> Call], NEW c \in Calls, NEW r \in Call
  PROVE  [calls EXCEPT ![c] = r] \in [Calls -> Call]
  OBVIOUS

(* A connection whose Dsn is known stays so. *)
PdsnGrows == \A p \in Protos : pdsn[p] \in Dsns => pdsn'[p] \in Dsns

(* A call stays well formed when the Dsns of connections become known or     *)
(* change.                                                                   *)
LEMMA CallOkGrows ==
  ASSUME NEW r \in Call, CallOk(r, pdsn), PdsnGrows
  PROVE  CallOk(r, pdsn')
  <1>1. Refs(r) \subseteq Protos
    BY DEF Refs, Call
  <1>2. QED
    BY <1>1 DEF CallOk, PdsnGrows

CbMoves(c, r) ==
    \A e \in Entries : \A x \in cb'[e] :
        IF x = c THEN r.pc = "waiting" /\ r.entry = e ELSE x \in cb[e]

(* A step of call c that makes it the record r, and that may put it into an  *)
(* array of callbacks, or take it out.                                       *)
LEMMA CallMoves ==
  ASSUME WfInv, TypeOK', NEW c \in Calls, NEW r \in Call,
         call' = [call EXCEPT ![c] = r], CallOk(r, pdsn'),
         CbMoves(c, r), PdsnGrows, DsnKnown'
  PROVE  WfInv'
  <1>1. call \in [Calls -> Call]
    BY DEF WfInv, TypeOK
  <1>2. \A x \in Calls : call'[x] = IF x = c THEN r ELSE call[x]
    BY <1>1
  <1>3. ASSUME NEW x \in Calls PROVE CallOk(call'[x], pdsn')
    BY <1>1, <1>2, CallOkGrows DEF WfInv, CallsOk
  <1>4. CallsOk'
    BY <1>3 DEF CallsOk
  <1>5. \A e \in Entries : cb'[e] \subseteq Calls
    BY DEF TypeOK
  <1>6. CbWaits'
    BY <1>2, <1>5 DEF WfInv, CbWaits, CbMoves
  <1>7. QED
    BY <1>4, <1>6 DEF WfInv

(* The Dsns stay known when only calls and the list of disconnected          *)
(* connections change.                                                       *)
LEMMA DsnKnownFrame ==
  ASSUME WfInv, TypeOK', UNCHANGED <<run, conn, returning>>, PdsnGrows,
         \A p \in takeCare' : pdsn'[p] \in Dsns
  PROVE  DsnKnown'
  <1>1. \A r \in Runs : run[r].todo \subseteq Protos
    BY DEF WfInv, TypeOK, Run
  <1>2. \A k \in Conns : conn[k].proto # None => conn[k].proto \in Protos
    BY DEF WfInv, TypeOK, Conn
  <1>3. QED
    BY <1>1, <1>2 DEF WfInv, DsnKnown, PdsnGrows

(* What WfInv says of the call of a step *)
LEMMA CallFacts ==
  ASSUME WfInv, NEW c \in Calls, call[c].pc # "free"
  PROVE  /\ call \in [Calls -> Call] /\ call[c] \in Call
         /\ call[c].dsn \in Dsns /\ call[c].entry \in Entries
         /\ CallOk(call[c], pdsn)
         /\ Refs(call[c]) \subseteq Protos
         /\ \A e \in Entries : c \in cb[e] => call[c].pc = "waiting" /\ call[c].entry = e
         /\ takeCare \subseteq Protos /\ \A p \in takeCare : pdsn[p] \in Dsns
  <1>1. call \in [Calls -> Call] /\ call[c] \in Call
    BY DEF WfInv, TypeOK
  <1>2. Refs(call[c]) \subseteq Protos
    BY <1>1 DEF Refs, Call
  <1>3. takeCare \subseteq Protos
    BY DEF WfInv, TypeOK
  <1>4. QED
    BY <1>1, <1>2, <1>3 DEF WfInv, CallsOk, CallOk, CbWaits, DsnKnown

PcCbMoves(c, pc) ==
    \A e \in Entries : \A x \in cb'[e] :
        IF x = c THEN pc = "waiting" /\ call[c].entry = e ELSE x \in cb[e]

(* The moves in which the call keeps what it refers to *)
LEMMA PcMoves ==
  ASSUME WfInv, TypeOK', NEW c \in Calls, call[c].pc # "free", NEW pc, pc # "returning",
         call[c].pc # "returning",
         call' = [call EXCEPT ![c] = [call[c] EXCEPT !.pc = pc]], call' \in [Calls -> Call],
         PcCbMoves(c, pc),
         UNCHANGED <<run, conn, pdsn, takeCare, returning>>
  PROVE  WfInv'
  <1> DEFINE r == [call[c] EXCEPT !.pc = pc]
  <1>1. r = call'[c]
    BY CallFacts
  <1>2. /\ r.kind = call[c].kind /\ r.info = call[c].info /\ r.dsn = call[c].dsn
        /\ r.entry = call[c].entry /\ Refs(r) = Refs(call[c]) /\ r.pc = pc
    <2>1. call[c] \in Call
      BY CallFacts
    <2>2. /\ r.kind = call[c].kind /\ r.info = call[c].info /\ r.dsn = call[c].dsn
          /\ r.entry = call[c].entry /\ r.pc = pc
          /\ r.held = call[c].held /\ r.proto = call[c].proto
      BY <2>1 DEF Call
    <2>3. QED
      BY <2>2 DEF Refs
  <1>3. r \in Call
    BY <1>1
  <1>4. call' = [call EXCEPT ![c] = r]
    OBVIOUS
  <1> HIDE DEF r
  <1>5. CallOk(r, pdsn') /\ PdsnGrows
    BY <1>2, CallFacts DEF CallOk, PdsnGrows
  <1>6. DsnKnown'
    BY <1>5, DsnKnownFrame, CallFacts
  <1>7. CbMoves(c, r)
    BY <1>2 DEF CbMoves, PcCbMoves
  <1>8. QED
    BY <1>3, <1>4, <1>5, <1>6, <1>7, CallMoves

(* A step that changes, by #decNBusyAll(), any number of calls: calls[x] is  *)
(* what the rest of the step makes of call x.                                *)
LEMMA DecNBusyAllWf ==
  ASSUME WfInv, TypeOK', UNCHANGED pdsn, DsnKnown',
         NEW d, NEW e \in Entries, NEW calls \in [Calls -> Call], NEW idleAll, NEW care, NEW tm,
         DecNBusyAll(d, e, calls, idleAll, care, tm),
         \A x \in Calls : \/ calls[x] = call[x]
                          \/ call[x].pc # "waiting" /\ CallOk(calls[x], pdsn)
  PROVE  WfInv'
  <1>1. ASSUME NEW x \in Calls PROVE CallOk(call'[x], pdsn')
    <2>1. CallOk(calls[x], pdsn')
      BY DEF WfInv, CallsOk
    <2>2. CASE call'[x] = calls[x]
      BY <2>1, <2>2
    <2>3. CASE x \in cb[e] /\ call'[x] = [calls[x] EXCEPT !.pc = "woken"]
      <3>1. call[x].pc = "waiting" /\ calls[x] = call[x]
        BY <2>3 DEF WfInv, CbWaits
      <3>2. calls[x] \in Call
        OBVIOUS
      <3> DEFINE r == [calls[x] EXCEPT !.pc = "woken"]
      <3>3. /\ r.kind = calls[x].kind /\ r.info = calls[x].info /\ r.dsn = calls[x].dsn
            /\ r.entry = calls[x].entry /\ r.held = calls[x].held /\ r.proto = calls[x].proto
        BY <3>2 DEF Call
      <3> HIDE DEF r
      <3>4. CallOk(r, pdsn')
        BY <2>1, <3>1, <3>3 DEF CallOk, Refs
      <3>5. QED
        BY <2>3, <3>4 DEF r
    <2>4. call'[x] = calls[x] \/ (x \in cb[e] /\ call'[x] = [calls[x] EXCEPT !.pc = "woken"])
      BY DEF DecNBusyAll
    <2>5. QED
      BY <2>2, <2>3, <2>4
  <1>2. ASSUME NEW f \in Entries, NEW x \in cb'[f]
        PROVE  call'[x].pc = "waiting" /\ call'[x].entry = f
    <2>1. x \in cb[f] /\ x \in Calls
      BY DEF DecNBusyAll, WfInv, TypeOK
    <2>2. call[x].pc = "waiting" /\ call[x].entry = f /\ calls[x] = call[x]
      BY <2>1 DEF WfInv, CbWaits
    <2>3. CASE call'[x] = calls[x]
      BY <2>2, <2>3
    <2>4. CASE x \in cb[e] /\ cb' = [cb EXCEPT ![e] = {}]
      <3>1. e = f
        BY <2>2, <2>4 DEF WfInv, CbWaits
      <3>2. cb'[f] = {}
        BY <2>4, <3>1 DEF WfInv, TypeOK
      <3>3. QED
        BY <3>2
    <2>5. call'[x] = calls[x] \/ (x \in cb[e] /\ cb' = [cb EXCEPT ![e] = {}])
      BY <2>1 DEF DecNBusyAll
    <2>6. QED
      BY <2>3, <2>4, <2>5
  <1>3. QED
    BY <1>1, <1>2 DEF WfInv, CallsOk, CbWaits

-----------------------------------------------------------------------------
(* One lemma per action, or per group of similar ones: it keeps WfInv.       *)

(* The timer of a waiting call takes its live callback out of the array, and *)
(* keeps WfInv.                                                              *)
LEMMA WaitTimesOutWf ==
  ASSUME WfInv, NEW c \in Calls, NEW late \in BOOLEAN, WaitTimesOut(c, late)
  PROVE  WfInv'
  <1> DEFINE pc == IF late THEN "late" ELSE "woken"
  <1>1. /\ call[c].pc = "waiting" /\ call' = [call EXCEPT ![c] = [call[c] EXCEPT !.pc = pc]]
        /\ UNCHANGED <<run, conn, returning, pdsn, takeCare>>
    BY DEF WaitTimesOut
  <1>2. [call[c] EXCEPT !.pc = pc] \in Call
    BY <1>1, CallFacts DEF Call
  <1>3. call' \in [Calls -> Call]
    BY <1>1, <1>2, CallFacts, CallUpdate
  <1>4. TypeOK'
    BY <1>1, <1>3, CallFacts DEF WfInv, TypeOK, WaitTimesOut
  <1>5. PcCbMoves(c, pc)
    BY <1>1, CallFacts DEF WfInv, TypeOK, CbWaits, WaitTimesOut, PcCbMoves
  <1> HIDE DEF pc
  <1>6. pc # "returning" /\ call[c].pc # "free" /\ call[c].pc # "returning"
    BY <1>1 DEF pc
  <1>7. QED
    BY <1>1, <1>3, <1>4, <1>5, <1>6, PcMoves

(* A woken call that checks for a slot again keeps WfInv.                    *)
LEMMA WaitEndsWf ==
  ASSUME WfInv, NEW c \in Calls, WaitEnds(c)
  PROVE  WfInv'
  <1>1. /\ call[c].pc \in {"woken", "late"} /\ UNCHANGED <<run, conn, returning, pdsn, takeCare>>
        /\ WaitForSlot(c, call[c], call[c].pc = "late")
    BY DEF WaitEnds
  <1>2. PICK pc \in {"popping", "failed", "waiting"} :
            /\ call' = [call EXCEPT ![c] = [call[c] EXCEPT !.pc = pc]]
            /\ \/ cb' = cb
               \/ pc = "waiting" /\ cb' = [cb EXCEPT ![call[c].entry] = @ \cup {c}]
    BY <1>1 DEF WaitForSlot
  <1>3. call' \in [Calls -> Call] /\ cb' \in [Entries -> SUBSET Calls] /\ stale' \in SUBSET Entries
    BY <1>1, CallFacts, WaitForSlotType DEF WfInv
  <1>4. TypeOK'
    BY <1>3 DEF WfInv, TypeOK, WaitEnds
  <1>5. PcCbMoves(c, pc)
    <2>1. c \notin UNION {cb[e] : e \in Entries} /\ cb \in [Entries -> SUBSET Calls]
      BY <1>1, CallFacts DEF WfInv, TypeOK
    <2>2. QED
      BY <1>2, <2>1 DEF PcCbMoves
  <1>6. pc # "returning" /\ call[c].pc # "free" /\ call[c].pc # "returning"
    BY <1>1
  <1>7. call' = [call EXCEPT ![c] = [call[c] EXCEPT !.pc = pc]] /\ UNCHANGED <<run, conn, returning, pdsn, takeCare>>
    BY <1>1, <1>2
  <1>8. QED
    BY <1>3, <1>4, <1>5, <1>6, <1>7, PcMoves

(* Popping an idle connection gives it the Dsn of the call, and keeps WfInv. *)
LEMMA PopIdleWf ==
  ASSUME WfInv, NEW c \in Calls, NEW p \in Protos, PopIdle(c, p)
  PROVE  WfInv'
  <1> DEFINE r == IF p \in expired THEN call[c]
                  ELSE [call[c] EXCEPT !.pc = "delivered", !.proto = p]
  <1>1. /\ call[c].pc = "popping" /\ UNCHANGED <<run, conn, returning, takeCare, cb>>
        /\ pdsn' = [pdsn EXCEPT ![p] = call[c].dsn]
    BY DEF PopIdle
  <1>2. call' = [call EXCEPT ![c] = r]
    BY <1>1, CallFacts DEF PopIdle
  <1>3. /\ r \in Call /\ r.kind = call[c].kind /\ r.info = call[c].info /\ r.dsn = call[c].dsn
        /\ r.entry = call[c].entry /\ r.proto \in {call[c].proto, p} /\ r.held = call[c].held
        /\ r.pc # "free" /\ r.pc # "waiting"
    BY <1>1, CallFacts DEF Call
  <1> HIDE DEF r
  <1>4. pdsn'[p] \in Dsns /\ PdsnGrows
    <2>1. pdsn \in [Protos -> Dsns \cup {None}] /\ call[c].dsn \in Dsns
      BY <1>1, CallFacts DEF WfInv, TypeOK
    <2>2. QED
      BY <1>1, <2>1 DEF PdsnGrows
  <1>5. call' \in [Calls -> Call]
    BY <1>1, <1>2, <1>3, CallFacts, CallUpdate
  <1>6. TypeOK'
    <2>1. call[c].entry \in Entries /\ call[c].dsn \in Dsns
      BY <1>1, CallFacts
    <2>2. busy' \in [Entries -> SUBSET Protos] /\ closing' \in [Protos -> Entries \cup {None}]
          /\ timer' \in IntervalStates
      BY <2>1 DEF WfInv, TypeOK, PopIdle, StartedState, IntervalStates
    <2>3. pdsn' \in [Protos -> Dsns \cup {None}]
      BY <1>1, <2>1 DEF WfInv, TypeOK
    <2>4. QED
      BY <1>5, <2>2, <2>3 DEF WfInv, TypeOK, PopIdle
  <1>7. CallOk(r, pdsn')
    <2>1. CallOk(call[c], pdsn')
      BY <1>1, <1>4, CallFacts, CallOkGrows
    <2>2. QED
      BY <1>1, <1>3, <1>4, <2>1 DEF CallOk, Refs
  <1>8. DsnKnown'
    BY <1>1, <1>4, <1>6, CallFacts, DsnKnownFrame DEF PdsnGrows
  <1>9. CbMoves(c, r)
    BY <1>1, CallFacts DEF CbMoves
  <1>10. QED
    BY <1>2, <1>3, <1>4, <1>6, <1>7, <1>8, <1>9, CallMoves

(* The start of a new connection keeps WfInv.                                *)
LEMMA PopNothingWf ==
  ASSUME WfInv, NEW c \in Calls, PopNothing(c)
  PROVE  WfInv'
  <1>1. /\ call[c].pc = "popping" /\ call' = [call EXCEPT ![c] = [call[c] EXCEPT !.pc = "connecting"]]
        /\ UNCHANGED <<run, conn, returning, pdsn, takeCare, cb>>
    BY DEF PopNothing
  <1>2. [call[c] EXCEPT !.pc = "connecting"] \in Call
    BY <1>1, CallFacts DEF Call
  <1>3. call' \in [Calls -> Call]
    BY <1>1, <1>2, CallFacts, CallUpdate
  <1>4. TypeOK'
    BY <1>1, <1>3, CallFacts DEF WfInv, TypeOK, PopNothing
  <1>5. PcCbMoves(c, "connecting")
    BY <1>1, CallFacts DEF PcCbMoves
  <1>6. QED
    BY <1>1, <1>3, <1>4, <1>5, PcMoves

(* An item with a known Dsn moves from the list to a call: WfInv is kept.    *)
LEMMA ClearDisconnectedWf ==
  ASSUME WfInv, NEW c \in Calls, ClearDisconnected(c)
  PROVE  WfInv'
  <1>1. PICK i \in takeCare : takeCare' = takeCare \ {i} /\ call' = [call EXCEPT ![c].held = @ \cup {i}]
    BY DEF ClearDisconnected
  <1> DEFINE r == [call[c] EXCEPT !.held = @ \cup {i}]
  <1>2. call[c].pc = "connecting" /\ UNCHANGED <<run, conn, returning, pdsn, cb>>
    BY DEF ClearDisconnected
  <1>3. i \in Protos
    BY DEF WfInv, TypeOK
  <1>4. /\ r \in Call /\ r.kind = call[c].kind /\ r.info = call[c].info /\ r.dsn = call[c].dsn
        /\ r.entry = call[c].entry /\ r.proto = call[c].proto /\ r.held = call[c].held \cup {i}
        /\ r.pc = call[c].pc
    BY <1>2, <1>3, CallFacts DEF Call
  <1>5. call' = [call EXCEPT ![c] = r]
    BY <1>1
  <1> HIDE DEF r
  <1>6. TypeOK'
    <2>1. call' \in [Calls -> Call]
      BY <1>2, <1>4, <1>5, CallFacts, CallUpdate
    <2>2. QED
      BY <1>1, <2>1 DEF WfInv, TypeOK, ClearDisconnected
  <1>7. CallOk(r, pdsn') /\ PdsnGrows
    BY <1>2, <1>4, CallFacts DEF CallOk, Refs, PdsnGrows
  <1>8. DsnKnown'
    BY <1>1, <1>2, <1>6, <1>7, CallFacts, DsnKnownFrame
  <1>9. CbMoves(c, r)
    BY <1>2, CallFacts DEF CbMoves
  <1>10. QED
    BY <1>4, <1>5, <1>6, <1>7, <1>8, <1>9, CallMoves

(* A new connection has the Dsn of its call: WfInv is kept.                  *)
LEMMA NewConnOkWf ==
  ASSUME WfInv, NEW c \in Calls, NewConnOk(c)
  PROVE  WfInv'
  <1>1. PICK p \in FreeProtos :
            /\ busy' = [busy EXCEPT ![call[c].entry] = @ \cup {p}]
            /\ pdsn' = [pdsn EXCEPT ![p] = call[c].dsn]
            /\ expired' = expired \ {p}
            /\ call' = [call EXCEPT ![c].pc = "delivered", ![c].proto = p, ![c].held = {}]
    BY DEF NewConnOk
  <1>2. PICK failed \in SUBSET call[c].held : takeCare' = takeCare \cup failed
    BY DEF NewConnOk
  <1>3. call[c].pc = "connecting" /\ UNCHANGED <<run, conn, returning, cb>> /\ p \in Protos
    BY DEF NewConnOk, FreeProtos
  <1> DEFINE r == [call[c] EXCEPT !.pc = "delivered", !.proto = p, !.held = {}]
  <1>4. /\ r \in Call /\ r.kind = call[c].kind /\ r.info = call[c].info /\ r.dsn = call[c].dsn
        /\ r.entry = call[c].entry /\ r.proto = p /\ r.held = {} /\ r.pc = "delivered"
    BY <1>3, CallFacts DEF Call
  <1>5. call' = [call EXCEPT ![c] = r]
    BY <1>1
  <1> HIDE DEF r
  <1>6. pdsn'[p] \in Dsns /\ PdsnGrows /\ pdsn' \in [Protos -> Dsns \cup {None}]
    <2>1. pdsn \in [Protos -> Dsns \cup {None}] /\ call[c].dsn \in Dsns
      BY <1>3, CallFacts DEF WfInv, TypeOK
    <2>2. QED
      BY <1>1, <1>3, <2>1 DEF PdsnGrows
  <1>7. call' \in [Calls -> Call]
    BY <1>3, <1>4, <1>5, CallFacts, CallUpdate
  <1>8. failed \subseteq Protos /\ \A q \in failed : pdsn[q] \in Dsns
    BY <1>2, <1>3, CallFacts DEF CallOk, Refs
  <1>9. TypeOK'
    BY <1>1, <1>2, <1>3, <1>6, <1>7, <1>8, CallFacts
    DEF WfInv, TypeOK, NewConnOk, StartedState, IntervalStates
  <1>10. CallOk(r, pdsn')
    BY <1>3, <1>4, <1>6, CallFacts, CallOkGrows DEF CallOk, Refs
  <1>11. DsnKnown'
    BY <1>2, <1>3, <1>6, <1>8, <1>9, CallFacts, DsnKnownFrame DEF PdsnGrows
  <1>12. CbMoves(c, r)
    BY <1>3, CallFacts DEF CbMoves
  <1>13. QED
    BY <1>4, <1>5, <1>6, <1>9, <1>10, <1>11, <1>12, CallMoves

(* A failed connection attempt, that may wake waiting calls, keeps WfInv.    *)
LEMMA NewConnFailsWf ==
  ASSUME WfInv, NEW c \in Calls, NewConnFails(c)
  PROVE  WfInv'
  <1> DEFINE calls == [call EXCEPT ![c].pc = "failed", ![c].held = {}]
  <1> DEFINE r == [call[c] EXCEPT !.pc = "failed", !.held = {}]
  <1>1. PICK failed \in SUBSET call[c].held : takeCare' = takeCare \cup failed
    BY DEF NewConnFails
  <1>2. /\ call[c].pc = "connecting" /\ UNCHANGED <<run, conn, returning, pdsn>>
        /\ DecNBusyAll(call[c].dsn, call[c].entry, calls, nIdleAll, takeCare', timer)
    BY DEF NewConnFails
  <1>3. /\ r \in Call /\ r.kind = call[c].kind /\ r.info = call[c].info /\ r.dsn = call[c].dsn
        /\ r.entry = call[c].entry /\ r.proto = call[c].proto /\ r.held = {}
        /\ r.pc = "failed"
    BY <1>2, CallFacts DEF Call
  <1>4. calls = [call EXCEPT ![c] = r]
    BY <1>2, CallFacts
  <1> HIDE DEF r
  <1>5. calls \in [Calls -> Call]
    BY <1>2, <1>3, <1>4, CallFacts, CallUpdate
  <1>6. \A x \in Calls : calls[x] = IF x = c THEN r ELSE call[x]
    BY <1>2, <1>4, CallFacts
  <1> HIDE DEF calls
  <1>7. /\ nBusyAll' \in Int /\ timer' \in IntervalStates
        /\ phase' \in {"open", "waitEnd", "ended", "waitTask", "intervalsDone", "final", "done"}
        /\ call' \in [Calls -> Call] /\ cb' \in [Entries -> SUBSET Calls] /\ stale' \in SUBSET Entries
    BY <1>2, <1>5, DecNBusyAllType DEF WfInv, TypeOK
  <1>8. failed \subseteq Protos /\ \A q \in failed : pdsn[q] \in Dsns
    BY <1>1, <1>2, CallFacts DEF CallOk, Refs
  <1>9. TypeOK'
    <2>1. takeCare' \in SUBSET Protos
      BY <1>1, <1>8 DEF WfInv, TypeOK
    <2>2. nConnecting' \in [Entries -> Int] /\ logged' \in SUBSET Entries
      BY <1>2, CallFacts DEF WfInv, TypeOK, NewConnFails
    <2>3. UNCHANGED <<entryOf, busy, idle, nIdleAll, useCnt, protoVars, run, conn>>
      BY DEF NewConnFails
    <2>4. QED
      BY <1>7, <2>1, <2>2, <2>3 DEF WfInv, TypeOK
  <1>10. CallOk(r, pdsn)
    BY <1>2, <1>3, CallFacts DEF CallOk, Refs
  <1>11. DsnKnown'
    BY <1>1, <1>2, <1>8, <1>9, CallFacts, DsnKnownFrame DEF PdsnGrows
  <1>12. \A x \in Calls : \/ calls[x] = call[x]
                          \/ call[x].pc # "waiting" /\ CallOk(calls[x], pdsn)
    BY <1>2, <1>6, <1>10
  <1>13. QED
    BY <1>2, <1>5, <1>9, <1>11, <1>12, CallFacts, DecNBusyAllWf

(* The Dsn is known of every connection that is being returned.              *)
LEMMA ReturnProtocolKnown ==
  ASSUME WfInv, NEW p, NEW mayRecycle, NEW thenUnref, ReturnProtocol(p, mayRecycle, thenUnref),
         p # None => pdsn[p] \in Dsns, NEW q \in Protos, returning'[q] # "no"
  PROVE  pdsn[q] \in Dsns
  BY PoolAssumption DEF WfInv, TypeOK, DsnKnown, ReturnProtocol

(* The moves that end the call *)
LEMMA EndMoves ==
  ASSUME WfInv, TypeOK', NEW c \in Calls, call[c].pc \notin {"free", "waiting"},
         call' = [call EXCEPT ![c] = FreeCall], UNCHANGED <<cb, pdsn>>, DsnKnown'
  PROVE  WfInv'
  <1>1. CallOk(FreeCall, pdsn') /\ PdsnGrows
    BY DEF CallOk, Refs, FreeCall, PdsnGrows
  <1>2. CbMoves(c, FreeCall)
    BY CallFacts DEF CbMoves
  <1>3. QED
    BY <1>1, <1>2, FreeCallType, CallMoves

(* The end of connect(), also one cancelled by end(), keeps WfInv.           *)
LEMMA ConnectedWf ==
  ASSUME WfInv, NEW c \in Calls, Connected(c)
  PROVE  WfInv'
  <1>1. /\ call[c].pc = "delivered" /\ call' = [call EXCEPT ![c] = FreeCall]
        /\ UNCHANGED <<cb, pdsn, run, takeCare>>
    BY DEF Connected
  <1>2. call' \in [Calls -> Call] /\ call[c].proto \in Protos \cup {None}
    BY <1>1, CallFacts, FreeCallType, CallUpdate DEF Call
  <1>3. /\ conn' \in [Conns -> Conn]
        /\ \A k \in Conns : conn'[k].proto \in {conn[k].proto, call[c].proto}
    <2>1. CASE conn' = [conn EXCEPT ![call[c].conn].proto = call[c].proto,
                                    ![call[c].conn].isConnecting = FALSE]
      <3> DEFINE upd(q) == [q EXCEPT !.proto = call[c].proto, !.isConnecting = FALSE]
      <3>1. \A q \in Conn : upd(q) \in Conn /\ upd(q).proto = call[c].proto
        BY <1>2 DEF Conn
      <3>2. conn \in [Conns -> Conn]
        BY DEF WfInv, TypeOK
      <3>3. conn' = [k \in Conns |-> IF k = call[c].conn THEN upd(conn[k]) ELSE conn[k]]
        BY <2>1, <3>2
      <3> HIDE DEF upd
      <3>4. QED
        BY <3>1, <3>2, <3>3
    <2>2. CASE UNCHANGED conn
      BY <2>2 DEF WfInv, TypeOK
    <2>3. QED
      BY <2>1, <2>2 DEF Connected
  <1>4. returning' \in [Protos -> {"no", "recycle", "close"}] /\ unrefThen' \in SUBSET Protos
    BY DEF WfInv, TypeOK, Connected, ReturnProtocol
  <1>5. TypeOK'
    BY <1>2, <1>3, <1>4 DEF WfInv, TypeOK, Connected
  <1>6. DsnKnown'
    <2>1. call[c].proto # None => pdsn[call[c].proto] \in Dsns
      BY <1>1, CallFacts DEF CallOk, Refs
    <2>2. \A p \in Protos : returning'[p] # "no" => pdsn[p] \in Dsns
      BY <2>1, ReturnProtocolKnown DEF WfInv, DsnKnown, Connected
    <2>3. QED
      BY <1>1, <1>3, <2>1, <2>2 DEF WfInv, DsnKnown
  <1>7. QED
    BY <1>1, <1>5, <1>6, EndMoves

(* The end of a connect() that failed keeps WfInv.                           *)
LEMMA ConnectFailsWf ==
  ASSUME WfInv, NEW c \in Calls, ConnectFails(c)
  PROVE  WfInv'
  <1>1. /\ call[c].pc = "failed" /\ call' = [call EXCEPT ![c] = FreeCall]
        /\ UNCHANGED <<cb, pdsn, run, takeCare, returning>>
        /\ conn' = [conn EXCEPT ![call[c].conn].isConnecting = FALSE]
    BY DEF ConnectFails
  <1>2. call' \in [Calls -> Call]
    BY <1>1, CallFacts, FreeCallType, CallUpdate
  <1>3. /\ conn' \in [Conns -> Conn]
        /\ \A k \in Conns : conn'[k].proto = conn[k].proto
    <2> DEFINE upd(q) == [q EXCEPT !.isConnecting = FALSE]
    <2>1. \A q \in Conn : upd(q) \in Conn /\ upd(q).proto = q.proto
      BY DEF Conn
    <2>2. conn \in [Conns -> Conn]
      BY DEF WfInv, TypeOK
    <2>3. conn' = [k \in Conns |-> IF k = call[c].conn THEN upd(conn[k]) ELSE conn[k]]
      BY <1>1, <2>2
    <2> HIDE DEF upd
    <2>4. QED
      BY <2>1, <2>2, <2>3
  <1>4. TypeOK'
    BY <1>2, <1>3 DEF WfInv, TypeOK, ConnectFails
  <1>5. DsnKnown'
    BY <1>1, <1>3 DEF WfInv, DsnKnown
  <1>6. QED
    BY <1>1, <1>4, <1>5, EndMoves

(* killQuery() sends KILL and keeps WfInv.                                   *)
LEMMA KillSendWf ==
  ASSUME WfInv, NEW c \in Calls, KillSend(c)
  PROVE  WfInv'
  <1>1. /\ call[c].pc = "delivered" /\ call' = [call EXCEPT ![c] = [call[c] EXCEPT !.pc = "killing"]]
        /\ UNCHANGED <<run, conn, returning, pdsn, takeCare, cb>>
    BY DEF KillSend
  <1>2. [call[c] EXCEPT !.pc = "killing"] \in Call
    BY <1>1, CallFacts DEF Call
  <1>3. call' \in [Calls -> Call]
    BY <1>1, <1>2, CallFacts, CallUpdate
  <1>4. TypeOK'
    BY <1>1, <1>3 DEF WfInv, TypeOK, KillSend
  <1>5. PcCbMoves(c, "killing")
    BY <1>1, CallFacts DEF PcCbMoves
  <1>6. QED
    BY <1>1, <1>3, <1>4, <1>5, PcMoves

(* The end of killQuery() keeps WfInv.                                       *)
LEMMA KillEndsWf ==
  ASSUME WfInv, NEW c \in Calls, KillSent(c) \/ KillFails(c)
  PROVE  WfInv'
  <1>1. /\ call[c].pc \in {"killing", "failed"} /\ call' = [call EXCEPT ![c] = FreeCall]
        /\ UNCHANGED <<cb, pdsn, run, takeCare, conn>>
    BY DEF KillSent, KillFails
  <1>2. call' \in [Calls -> Call]
    BY <1>1, CallFacts, FreeCallType, CallUpdate
  <1>3. TypeOK'
    BY <1>2 DEF WfInv, TypeOK, KillSent, KillFails, ReturnProtocol
  <1>4. DsnKnown'
    <2>1. call[c].proto # None => pdsn[call[c].proto] \in Dsns
      BY <1>1, CallFacts DEF CallOk, Refs
    <2>2. \A p \in Protos : returning'[p] # "no" => pdsn[p] \in Dsns
      BY <2>1, ReturnProtocolKnown DEF WfInv, DsnKnown, KillSent, KillFails
    <2>3. QED
      BY <1>1, <2>2 DEF WfInv, DsnKnown
  <1>5. QED
    BY <1>1, <1>3, <1>4, EndMoves

(* The task returns the connection it got, and keeps WfInv.                  *)
LEMMA CareDeliveredWf ==
  ASSUME WfInv, NEW c \in Calls, CareDelivered(c)
  PROVE  WfInv'
  <1> DEFINE r == [call[c] EXCEPT !.pc = "returning", !.info = None]
  <1>1. /\ call[c].pc = "delivered" /\ call' = [call EXCEPT ![c].pc = "returning", ![c].info = None]
        /\ UNCHANGED <<run, conn, pdsn, takeCare, cb>>
    BY DEF CareDelivered
  <1>2. /\ r \in Call /\ r.dsn = call[c].dsn /\ r.entry = call[c].entry
        /\ r.proto = call[c].proto /\ r.held = call[c].held /\ r.info = None /\ r.pc = "returning"
    BY <1>1, CallFacts DEF Call
  <1>3. call' = [call EXCEPT ![c] = r]
    BY <1>1
  <1> HIDE DEF r
  <1>4. call' \in [Calls -> Call]
    BY <1>1, <1>2, <1>3, CallFacts, CallUpdate
  <1>5. TypeOK'
    BY <1>4 DEF WfInv, TypeOK, CareDelivered, ReturnProtocol
  <1>6. CallOk(r, pdsn') /\ PdsnGrows
    BY <1>1, <1>2, CallFacts DEF CallOk, Refs, PdsnGrows
  <1>7. DsnKnown'
    <2>1. call[c].proto # None => pdsn[call[c].proto] \in Dsns
      BY <1>1, CallFacts DEF CallOk, Refs
    <2>2. \A p \in Protos : returning'[p] # "no" => pdsn[p] \in Dsns
      BY <2>1, ReturnProtocolKnown DEF WfInv, DsnKnown, CareDelivered
    <2>3. QED
      BY <1>1, <2>2 DEF WfInv, DsnKnown
  <1>8. CbMoves(c, r)
    BY <1>1, CallFacts DEF CbMoves
  <1>9. QED
    BY <1>2, <1>3, <1>5, <1>6, <1>7, <1>8, CallMoves

(* The item of a failed call goes back to the list with its known Dsn: WfInv *)
(* is kept.                                                                  *)
LEMMA CareFailsWf ==
  ASSUME WfInv, NEW c \in Calls, CareFails(c)
  PROVE  WfInv'
  <1>1. /\ call[c].pc = "failed" /\ call[c].kind = "care" /\ call' = [call EXCEPT ![c] = FreeCall]
        /\ UNCHANGED <<cb, pdsn, conn, returning>>
        /\ takeCare' = takeCare \cup {call[c].info}
        /\ run' = [r \in Runs |-> [run[r] EXCEPT !.calls = @ \ {c}]]
    BY DEF CareFails
  <1>2. call' \in [Calls -> Call]
    BY <1>1, CallFacts, FreeCallType, CallUpdate
  <1>3. call[c].info \in Protos /\ pdsn[call[c].info] \in Dsns
    BY <1>1, CallFacts, PoolAssumption DEF CallOk, Refs
  <1>4. /\ run' \in [Runs -> Run]
        /\ \A r \in Runs : run'[r].todo = run[r].todo
    <2>1. \A q \in Run : [q EXCEPT !.calls = @ \ {c}] \in Run /\ [q EXCEPT !.calls = @ \ {c}].todo = q.todo
      BY DEF Run
    <2>2. run \in [Runs -> Run]
      BY DEF WfInv, TypeOK
    <2>3. QED
      BY <1>1, <2>1, <2>2
  <1>5. TypeOK'
    BY <1>1, <1>2, <1>3, <1>4 DEF WfInv, TypeOK, CareFails
  <1>6. DsnKnown'
    BY <1>1, <1>3, <1>4 DEF WfInv, DsnKnown
  <1>7. QED
    BY <1>1, <1>5, <1>6, EndMoves

(* Steps that leave the calls alone *)
LEMMA NoCallMoves ==
  ASSUME WfInv, TypeOK', UNCHANGED <<call, cb, pdsn>>, DsnKnown'
  PROVE  WfInv'
  BY DEF WfInv, CallsOk, CbWaits

(* The places where a returned connection may be found are in entries.      *)
LEMMA BusyPlacesType ==
  ASSUME WfInv, NEW p, pdsn[p] \in Dsns, NEW place \in BusyPlaces(p)
  PROVE  place[1] \in Entries
  <1>1. Mapped \subseteq Entries
    BY DEF Mapped, WfInv, TypeOK
  <1>2. QED
    BY <1>1 DEF BusyPlaces, WfInv, TypeOK

(* #doReturnProtocol() for a connection with a known Dsn: the types, and     *)
(* WfInv for a step that changes the calls as DecNBusyAllWf allows.          *)
LEMMA DoReturnProtocolType ==
  ASSUME WfInv, NEW p \in Protos, pdsn[p] \in Dsns, NEW forReuse \in BOOLEAN,
         NEW calls \in [Calls -> Call], NEW care, NEW tm \in IntervalStates,
         DoReturnProtocol(p, forReuse, calls, care, tm)
  PROVE  /\ nBusyAll' \in Int /\ nIdleAll' \in Int /\ timer' \in IntervalStates
         /\ phase' \in {"open", "waitEnd", "ended", "waitTask", "intervalsDone", "final", "done"}
         /\ call' \in [Calls -> Call]
         /\ cb' \in [Entries -> SUBSET Calls]
         /\ stale' \in SUBSET Entries
         /\ busy' \in [Entries -> SUBSET Protos]
         /\ idle' \in [Entries -> SUBSET Protos]
  <1>1. ASSUME NEW place \in BusyPlaces(p),
               busy' = [busy EXCEPT ![place[1]] = @ \ {place[2]}],
               idle' = IF forReuse THEN [idle EXCEPT ![place[1]] = @ \cup {p}] ELSE idle,
               nIdleAll' = (IF forReuse THEN nIdleAll + 1 ELSE nIdleAll),
               DecNBusyAll(pdsn[p], place[1], calls, nIdleAll', care, tm)
        PROVE  /\ nBusyAll' \in Int /\ nIdleAll' \in Int /\ timer' \in IntervalStates
               /\ phase' \in {"open", "waitEnd", "ended", "waitTask", "intervalsDone", "final", "done"}
               /\ call' \in [Calls -> Call]
               /\ cb' \in [Entries -> SUBSET Calls]
               /\ stale' \in SUBSET Entries
               /\ busy' \in [Entries -> SUBSET Protos]
               /\ idle' \in [Entries -> SUBSET Protos]
    <2>1. /\ nBusyAll' \in Int /\ timer' \in IntervalStates
          /\ phase' \in {"open", "waitEnd", "ended", "waitTask", "intervalsDone", "final", "done"}
          /\ call' \in [Calls -> Call] /\ cb' \in [Entries -> SUBSET Calls] /\ stale' \in SUBSET Entries
      BY <1>1, DecNBusyAllType DEF WfInv
    <2>2. nIdleAll' \in Int /\ busy' \in [Entries -> SUBSET Protos] /\ idle' \in [Entries -> SUBSET Protos]
      <3> DEFINE e == place[1]
                 q == place[2]
      <3>1. /\ busy' = [busy EXCEPT ![e] = @ \ {q}]
            /\ idle' = IF forReuse THEN [idle EXCEPT ![e] = @ \cup {p}] ELSE idle
        BY <1>1
      <3> HIDE DEF e, q
      <3>2. nIdleAll' \in Int
        BY <1>1 DEF WfInv, TypeOK
      <3>3. busy' \in [Entries -> SUBSET Protos]
        BY <3>1 DEF WfInv, TypeOK
      <3>4. idle' \in [Entries -> SUBSET Protos]
        BY <3>1 DEF WfInv, TypeOK
      <3>5. QED
        BY <3>2, <3>3, <3>4
    <2>3. QED
      BY <2>1, <2>2
  <1>2. CASE call' = calls /\ timer' = tm /\ UNCHANGED <<busy, idle, nIdleAll, nBusyAll, cb, stale, phase>>
    BY <1>2 DEF WfInv, TypeOK
  <1>3. QED
    BY <1>1, <1>2 DEF DoReturnProtocol

(* #doReturnProtocol(), that may wake waiting calls, keeps WfInv.            *)
LEMMA DoReturnProtocolWf ==
  ASSUME WfInv, TypeOK', UNCHANGED pdsn, DsnKnown',
         NEW p \in Protos, pdsn[p] \in Dsns, NEW forReuse \in BOOLEAN,
         NEW calls \in [Calls -> Call], NEW care, NEW tm,
         DoReturnProtocol(p, forReuse, calls, care, tm),
         \A x \in Calls : \/ calls[x] = call[x]
                          \/ call[x].pc # "waiting" /\ CallOk(calls[x], pdsn)
  PROVE  WfInv'
  <1>1. ASSUME NEW place \in BusyPlaces(p),
               DecNBusyAll(pdsn[p], place[1], calls, nIdleAll', care, tm)
        PROVE  WfInv'
    BY <1>1, BusyPlacesType, DecNBusyAllWf
  <1>2. CASE call' = calls /\ UNCHANGED cb
    <2>1. CallsOk'
      BY <1>2 DEF WfInv, CallsOk
    <2>2. CbWaits'
      BY <1>2 DEF WfInv, TypeOK, CbWaits
    <2>3. QED
      BY <2>1, <2>2 DEF WfInv
  <1>3. QED
    BY <1>1, <1>2 DEF DoReturnProtocol

(* The end of returnProtocol() keeps WfInv.                                  *)
LEMMA ReturnCompletesWf ==
  ASSUME WfInv, NEW p \in Protos, ReturnCompletes(p)
  PROVE  WfInv'
  <1> DEFINE calls == [c \in Calls |-> IF call[c].pc = "returning" /\ call[c].proto = p
                                       THEN FreeCall ELSE call[c]]
  <1>1. PICK forReuse \in BOOLEAN : DoReturnProtocol(p, forReuse, calls, takeCare, timer)
    BY DEF ReturnCompletes
  <1>2. /\ returning[p] # "no" /\ UNCHANGED <<entryOf, nConnecting, logged, useCnt, pdsn, closing, takeCare, conn>>
        /\ returning' = [returning EXCEPT ![p] = "no"]
        /\ run' = [r \in Runs |-> [run[r] EXCEPT !.calls = {c \in @ : call'[c].pc # "free"}]]
    BY DEF ReturnCompletes
  <1>3. pdsn[p] \in Dsns
    BY <1>2 DEF WfInv, DsnKnown
  <1>4. calls \in [Calls -> Call]
    BY FreeCallType DEF WfInv, TypeOK
  <1>5. \A x \in Calls : \/ calls[x] = call[x]
                         \/ call[x].pc # "waiting" /\ CallOk(calls[x], pdsn)
    <2>1. CallOk(FreeCall, pdsn)
      BY DEF CallOk, Refs, FreeCall
    <2>2. QED
      BY <2>1
  <1> HIDE DEF calls
  <1>6. timer \in IntervalStates
    BY DEF WfInv, TypeOK
  <1>7. /\ run' \in [Runs -> Run]
        /\ \A r \in Runs : run'[r].todo = run[r].todo
    <2> DEFINE upd(q) == [q EXCEPT !.calls = {c \in @ : call'[c].pc # "free"}]
    <2>1. \A q \in Run : upd(q) \in Run /\ upd(q).todo = q.todo
      BY DEF Run
    <2>2. run \in [Runs -> Run]
      BY DEF WfInv, TypeOK
    <2>3. run' = [r \in Runs |-> upd(run[r])]
      BY <1>2
    <2> HIDE DEF upd
    <2>4. QED
      BY <2>1, <2>2, <2>3
  <1>8. /\ nBusyAll' \in Int /\ nIdleAll' \in Int /\ timer' \in IntervalStates
        /\ phase' \in {"open", "waitEnd", "ended", "waitTask", "intervalsDone", "final", "done"}
        /\ call' \in [Calls -> Call] /\ cb' \in [Entries -> SUBSET Calls] /\ stale' \in SUBSET Entries
        /\ busy' \in [Entries -> SUBSET Protos] /\ idle' \in [Entries -> SUBSET Protos]
    BY <1>1, <1>3, <1>4, <1>6, DoReturnProtocolType
  <1>9. /\ returning' \in [Protos -> {"no", "recycle", "close"}] /\ unrefThen' \in SUBSET Protos
        /\ unrefs' \in Nat /\ expired' \in SUBSET Protos
    BY DEF WfInv, TypeOK, ReturnCompletes
  <1>10. TypeOK'
    BY <1>2, <1>7, <1>8, <1>9 DEF WfInv, TypeOK
  <1>11. DsnKnown'
    <2>1. \A q \in Protos : returning'[q] # "no" => returning[q] # "no"
      BY <1>2 DEF WfInv, TypeOK
    <2>2. QED
      BY <1>2, <1>7, <2>1 DEF WfInv, DsnKnown
  <1>12. QED
    BY <1>1, <1>2, <1>3, <1>4, <1>5, <1>10, <1>11, DoReturnProtocolWf

(* The end of #closeConn() keeps WfInv.                                      *)
LEMMA CloseCompletesWf ==
  ASSUME WfInv, NEW p \in Protos, CloseCompletes(p)
  PROVE  WfInv'
  <1>1. /\ closing[p] \in Entries /\ UNCHANGED <<pdsn, takeCare, conn, returning>>
        /\ DecNBusyAll(pdsn[p], closing[p], call, nIdleAll, takeCare, timer)
        /\ run' = [r \in Runs |-> [run[r] EXCEPT !.protos = @ \ {p}]]
    BY DEF CloseCompletes, WfInv, TypeOK
  <1>2. call \in [Calls -> Call] /\ timer \in IntervalStates
    BY DEF WfInv, TypeOK
  <1>3. /\ nBusyAll' \in Int /\ timer' \in IntervalStates
        /\ phase' \in {"open", "waitEnd", "ended", "waitTask", "intervalsDone", "final", "done"}
        /\ call' \in [Calls -> Call] /\ cb' \in [Entries -> SUBSET Calls] /\ stale' \in SUBSET Entries
    BY <1>1, <1>2, DecNBusyAllType DEF WfInv
  <1>4. /\ run' \in [Runs -> Run]
        /\ \A r \in Runs : run'[r].todo = run[r].todo
    <2>1. \A q \in Run : [q EXCEPT !.protos = @ \ {p}] \in Run /\ [q EXCEPT !.protos = @ \ {p}].todo = q.todo
      BY DEF Run
    <2>2. run \in [Runs -> Run]
      BY DEF WfInv, TypeOK
    <2>3. QED
      BY <1>1, <2>1, <2>2
  <1>5. TypeOK'
    BY <1>3, <1>4 DEF WfInv, TypeOK, CloseCompletes
  <1>6. DsnKnown'
    BY <1>1, <1>4 DEF WfInv, DsnKnown
  <1>7. QED
    BY <1>1, <1>2, <1>5, <1>6, DecNBusyAllWf

(* The passing of time, unref() and the steps of asyncDispose() keep WfInv.  *)
LEMMA TimeWf ==
  ASSUME WfInv,
         \/ \E p \in Protos : Expire(p)
         \/ \E e \in Entries : HealthLapses(e)
         \/ UnrefLater
         \/ DisposeNext
  PROVE  WfInv'
  <1>1. UNCHANGED <<call, cb, pdsn, takeCare, conn, returning>>
    BY DEF Expire, HealthLapses, UnrefLater, DisposeNext, AsyncDispose, AllEnded, CloseIdle, Disposed
  <1>2. run' \in [Runs -> Run] /\ \A r \in Runs : run'[r].todo = {} \/ run'[r].todo = run[r].todo
    <2>1. run \in [Runs -> Run]
      BY DEF WfInv, TypeOK
    <2>2. \A q \in Run : [q EXCEPT !.st = "start"] \in Run /\ [q EXCEPT !.st = "start"].todo = q.todo
      BY DEF Run
    <2>3. NoRun \in Run /\ NoRun.todo = {}
      BY DEF NoRun, Run
    <2>4. \/ UNCHANGED run
          \/ run' = [run EXCEPT ![Final] = [run[Final] EXCEPT !.st = "start"]]
          \/ run' = [run EXCEPT ![Final] = NoRun]
      BY DEF Expire, HealthLapses, UnrefLater, DisposeNext, AsyncDispose, AllEnded, CloseIdle, Disposed
    <2>5. Final \in Runs
      BY DEF Runs
    <2>6. QED
      BY <2>1, <2>2, <2>3, <2>4, <2>5
  <1>3. TypeOK'
    <2>1. CASE \E p \in Protos : Expire(p)
      BY <1>2, <2>1 DEF WfInv, TypeOK, Expire
    <2>2. CASE \E e \in Entries : HealthLapses(e)
      BY <1>2, <2>2 DEF WfInv, TypeOK, HealthLapses
    <2>3. CASE UnrefLater
      BY <1>2, <2>3 DEF WfInv, TypeOK, UnrefLater, Unref, OnEnd
    <2>4. CASE DisposeNext
      BY <1>2, <2>4 DEF WfInv, TypeOK, DisposeNext, AsyncDispose, AllEnded, CloseIdle, Disposed,
                        DisposeIntervals, IntervalStates
    <2>5. QED
      BY <2>1, <2>2, <2>3, <2>4
  <1>4. DsnKnown'
    BY <1>1, <1>2 DEF WfInv, DsnKnown
  <1>5. QED
    BY <1>1, <1>3, <1>4, NoCallMoves

(* getProtocol() adds to the callbacks of an entry only a call that waits    *)
(* for it.                                                                   *)
LEMMA GetProtocolCb ==
  ASSUME WfInv, NEW c \in Calls, NEW d \in Dsns, NEW kind, NEW k, NEW info,
         GetProtocol(c, d, kind, k, info)
  PROVE  \/ UNCHANGED cb
         \/ cb' = [cb EXCEPT ![call'[c].entry] = @ \cup {c}] /\ call'[c].pc = "waiting"
  <1> DEFINE rec(pc, e) == [pc |-> pc, kind |-> kind, conn |-> k, info |-> info,
                            dsn |-> d, entry |-> e, proto |-> None, held |-> {}]
  <1>1. CASE entryOf[d] # None
    <2>1. WaitForSlot(c, rec("free", entryOf[d]), FALSE)
      BY <1>1 DEF GetProtocol
    <2>2. \/ UNCHANGED cb
          \/ /\ cb' = [cb EXCEPT ![entryOf[d]] = @ \cup {c}]
             /\ call' = [call EXCEPT ![c] = [rec("free", entryOf[d]) EXCEPT !.pc = "waiting"]]
      BY <2>1 DEF WaitForSlot
    <2>3. [rec("free", entryOf[d]) EXCEPT !.pc = "waiting"] = rec("waiting", entryOf[d])
      OBVIOUS
    <2>4. \/ UNCHANGED cb
          \/ /\ cb' = [cb EXCEPT ![entryOf[d]] = @ \cup {c}]
             /\ call'[c] = rec("waiting", entryOf[d])
      BY <2>2, <2>3 DEF WfInv, TypeOK
    <2>5. QED
      BY <2>4
  <1>2. CASE entryOf[d] = None
    BY <1>2 DEF GetProtocol
  <1>3. QED
    BY <1>1, <1>2

(* getProtocol() for a known Dsn keeps WfInv.                                *)
LEMMA GetProtocolWf ==
  ASSUME WfInv, TypeOK', NEW c \in Calls, NEW d \in Dsns, NEW kind \in {"connect", "kill", "care"},
         NEW k \in Conns \cup {None}, NEW info \in Protos \cup {None},
         GetProtocol(c, d, kind, k, info),
         kind = "care" => info \in Protos, info # None => pdsn[info] \in Dsns,
         UNCHANGED pdsn, DsnKnown'
  PROVE  WfInv'
  <1> DEFINE rec(pc, e) == [pc |-> pc, kind |-> kind, conn |-> k, info |-> info,
                            dsn |-> d, entry |-> e, proto |-> None, held |-> {}]
  <1>1. TypeOK
    BY DEF WfInv
  <1>2. call[c].pc = "free" /\ \E e \in Entries, pc \in {"popping", "failed", "waiting"} :
            call' = [call EXCEPT ![c] = rec(pc, e)]
    BY <1>1, GetProtocolType
  <1>3. PICK e \in Entries, pc \in {"popping", "failed", "waiting"} :
            call' = [call EXCEPT ![c] = rec(pc, e)]
    BY <1>2
  <1> DEFINE r == rec(pc, e)
  <1>4. r.pc = pc /\ r.entry = e /\ r.dsn = d /\ r.kind = kind /\ r.info = info /\ r.proto = None /\ r.held = {}
    OBVIOUS
  <1> HIDE DEF rec
  <1>5. call'[c] = r /\ r \in Call
    BY <1>3, <1>1 DEF TypeOK
  <1>6. call' = [call EXCEPT ![c] = r]
    BY <1>3
  <1> HIDE DEF r
  <1>7. CallOk(r, pdsn') /\ PdsnGrows
    BY <1>4 DEF CallOk, Refs, PdsnGrows
  <1>8. CbMoves(c, r)
    <2>1. \A f \in Entries : c \notin cb[f]
      BY <1>2 DEF WfInv, CbWaits
    <2>2. UNCHANGED cb \/ (cb' = [cb EXCEPT ![r.entry] = @ \cup {c}] /\ r.pc = "waiting")
      BY <1>5, GetProtocolCb
    <2>3. QED
      BY <1>1, <2>1, <2>2 DEF CbMoves, TypeOK
  <1>9. QED
    BY <1>5, <1>6, <1>7, <1>8, CallMoves

-----------------------------------------------------------------------------

(* A new MyConn keeps WfInv.                                                 *)
LEMMA CreateWf ==
  ASSUME WfInv, NEW k \in Conns, Create(k)
  PROVE  WfInv'
  <1>1. conn' \in [Conns -> Conn] /\ \A x \in Conns : conn'[x].proto = conn[x].proto
    <2>1. \A q \in Conn : [q EXCEPT !.st = "live"] \in Conn /\ [q EXCEPT !.st = "live"].proto = q.proto
      BY DEF Conn
    <2>2. conn \in [Conns -> Conn] /\ conn' = [conn EXCEPT ![k] = [conn[k] EXCEPT !.st = "live"]]
      BY DEF WfInv, TypeOK, Create
    <2>3. QED
      BY <2>1, <2>2
  <1>2. TypeOK'
    BY <1>1 DEF WfInv, TypeOK, Create
  <1>3. DsnKnown'
    BY <1>1 DEF WfInv, DsnKnown, Create
  <1>4. UNCHANGED <<call, cb, pdsn>>
    BY DEF Create
  <1>5. QED
    BY <1>2, <1>3, <1>4, NoCallMoves

(* #doEnd() leaves a MyConn without connection, and the others as they are.  *)
LEMMA ConnEndedType ==
  ASSUME WfInv, NEW k \in Conns, NEW st \in {"live", "disposed"}, ConnEnded(k, st)
  PROVE  /\ conn' \in [Conns -> Conn]
         /\ \A x \in Conns : conn'[x].proto # None => conn'[x].proto = conn[x].proto
         /\ conn[k].proto \in Protos \cup {None}
         /\ conn[k].proto # None => pdsn[conn[k].proto] \in Dsns
  <1>1. [st |-> st, proto |-> None, isConnecting |-> FALSE] \in Conn
    BY DEF Conn
  <1>2. conn \in [Conns -> Conn]
    BY DEF WfInv, TypeOK
  <1>3. conn[k].proto \in Protos \cup {None}
    BY <1>2 DEF Conn
  <1>4. QED
    BY <1>1, <1>2, <1>3 DEF ConnEnded, WfInv, DsnKnown

(* end() and dispose() of a MyConn keep WfInv.                               *)
LEMMA EndsWf ==
  ASSUME WfInv, NEW k \in Conns, End(k) \/ Dispose(k)
  PROVE  WfInv'
  <1>1. /\ UNCHANGED <<call, cb, pdsn, run, takeCare>>
        /\ \E st \in {"live", "disposed"} : ConnEnded(k, st)
        /\ \/ conn[k].proto # None /\ \E u \in BOOLEAN : ReturnProtocol(conn[k].proto, TRUE, u)
           \/ UNCHANGED <<returning, unrefThen>>
    BY DEF End, Dispose
  <1>2. /\ conn' \in [Conns -> Conn]
        /\ \A x \in Conns : conn'[x].proto # None => conn'[x].proto = conn[x].proto
        /\ conn[k].proto \in Protos \cup {None}
        /\ conn[k].proto # None => pdsn[conn[k].proto] \in Dsns
    BY <1>1, ConnEndedType
  <1>3. returning' \in [Protos -> {"no", "recycle", "close"}] /\ unrefThen' \in SUBSET Protos
    BY <1>1, <1>2 DEF WfInv, TypeOK, ReturnProtocol
  <1>4. TypeOK'
    <2>1. CASE End(k)
      BY <1>2, <1>3, <2>1 DEF WfInv, TypeOK, End
    <2>2. CASE Dispose(k)
      <3>1. useCnt' \in Int
            /\ phase' \in {"open", "waitEnd", "ended", "waitTask", "intervalsDone", "final", "done"}
        <4>1. UNCHANGED <<useCnt, phase>> \/ Unref
          BY <2>2 DEF Dispose
        <4>2. QED
          BY <4>1 DEF WfInv, TypeOK, Unref, OnEnd
      <3>2. UNCHANGED <<entryVars, nBusyAll, nIdleAll, pdsn, expired, closing, unrefs,
                        takeCare, timer, run, call>>
        BY <2>2 DEF Dispose
      <3>3. QED
        BY <1>2, <1>3, <3>1, <3>2 DEF WfInv, TypeOK
    <2>3. QED
      BY <2>1, <2>2
  <1>5. \A p \in Protos : returning'[p] # "no" => pdsn[p] \in Dsns
    BY <1>1, <1>2, ReturnProtocolKnown DEF WfInv, DsnKnown
  <1>6. DsnKnown'
    BY <1>1, <1>2, <1>5 DEF WfInv, DsnKnown
  <1>7. QED
    BY <1>1, <1>4, <1>6, NoCallMoves

(* forceImmediateDisconnect() keeps WfInv.                                   *)
LEMMA ForceWf ==
  ASSUME WfInv, NEW k \in Conns, NEW care \in BOOLEAN, ForceImmediateDisconnect(k, care)
  PROVE  WfInv'
  <1> DEFINE p == conn[k].proto
             tm == IF care THEN StartedState(timer, TRUE) ELSE timer
  <1>1. /\ p # None /\ ConnEnded(k, "live")
        /\ takeCare' = IF care THEN takeCare \cup {p} ELSE takeCare
        /\ DoReturnProtocol(p, FALSE, call, takeCare', tm)
        /\ UNCHANGED <<entryOf, nConnecting, logged, useCnt, protoVars, run>>
    BY DEF ForceImmediateDisconnect
  <1>2. /\ conn' \in [Conns -> Conn]
        /\ \A x \in Conns : conn'[x].proto # None => conn'[x].proto = conn[x].proto
        /\ p \in Protos /\ pdsn[p] \in Dsns
    BY <1>1, ConnEndedType
  <1>3. call \in [Calls -> Call] /\ tm \in IntervalStates
    BY DEF WfInv, TypeOK, StartedState, IntervalStates
  <1> HIDE DEF p, tm
  <1>4. /\ nBusyAll' \in Int /\ nIdleAll' \in Int /\ timer' \in IntervalStates
        /\ phase' \in {"open", "waitEnd", "ended", "waitTask", "intervalsDone", "final", "done"}
        /\ call' \in [Calls -> Call] /\ cb' \in [Entries -> SUBSET Calls] /\ stale' \in SUBSET Entries
        /\ busy' \in [Entries -> SUBSET Protos] /\ idle' \in [Entries -> SUBSET Protos]
    BY <1>1, <1>2, <1>3, DoReturnProtocolType
  <1>5. takeCare' \in SUBSET Protos
    BY <1>1, <1>2 DEF WfInv, TypeOK
  <1>6. TypeOK'
    BY <1>1, <1>2, <1>4, <1>5 DEF WfInv, TypeOK
  <1>7. DsnKnown'
    BY <1>1, <1>2 DEF WfInv, DsnKnown
  <1>8. UNCHANGED pdsn
    BY <1>1
  <1>9. QED
    BY <1>1, <1>2, <1>3, <1>6, <1>7, <1>8, DoReturnProtocolWf

(* connect() and killQuery() of a MyConn keep WfInv.                         *)
LEMMA GetWf ==
  ASSUME WfInv, NEW k \in Conns, NEW c \in Calls, Connect(k, c) \/ KillQuery(k, c)
  PROVE  WfInv'
  <1>1. /\ UNCHANGED <<pdsn, run, takeCare, returning>>
        /\ \E kind \in {"connect", "kill"} : GetProtocol(c, DsnOf[k], kind, k, None)
    BY DEF Connect, KillQuery
  <1>2. conn' \in [Conns -> Conn] /\ \A x \in Conns : conn'[x].proto = conn[x].proto
    <2>1. \A q \in Conn : /\ [q EXCEPT !.isConnecting = TRUE] \in Conn
                          /\ [q EXCEPT !.isConnecting = TRUE].proto = q.proto
      BY DEF Conn
    <2>2. /\ conn \in [Conns -> Conn]
          /\ UNCHANGED conn \/ conn' = [conn EXCEPT ![k] = [conn[k] EXCEPT !.isConnecting = TRUE]]
      BY DEF WfInv, TypeOK, Connect, KillQuery
    <2>3. QED
      BY <2>1, <2>2
  <1>3. DsnOf[k] \in Dsns
    BY PoolAssumption
  <1>4. /\ entryOf' \in [Dsns -> Entries \cup {None}] /\ cb' \in [Entries -> SUBSET Calls]
        /\ stale' \in SUBSET Entries /\ logged' \in SUBSET Entries /\ call' \in [Calls -> Call]
    BY <1>1, <1>3, GetProtocolType DEF WfInv
  <1>5. TypeOK'
    BY <1>2, <1>4 DEF WfInv, TypeOK, Connect, KillQuery
  <1>6. DsnKnown'
    BY <1>1, <1>2 DEF WfInv, DsnKnown
  <1>7. UNCHANGED pdsn /\ None \notin Protos
    BY <1>1, PoolAssumption
  <1>8. QED
    BY <1>1, <1>3, <1>5, <1>6, <1>7, GetProtocolWf

(* The beginning, the await and the end of #commonTask() keep WfInv.         *)
LEMMA TaskSwitchWf ==
  ASSUME WfInv, NEW r \in Runs, TimerFires(r) \/ TaskAwaits(r) \/ TaskEnds(r)
  PROVE  WfInv'
  <1>1. UNCHANGED <<call, cb, pdsn, takeCare, conn, returning>>
    BY DEF TimerFires, TaskAwaits, TaskEnds
  <1>2. run' \in [Runs -> Run] /\ \A x \in Runs : run'[x].todo = {} \/ run'[x].todo = run[x].todo
    <2>1. run \in [Runs -> Run]
      BY DEF WfInv, TypeOK
    <2>2. \A q \in Run, st \in {"start", "await"} :
              [q EXCEPT !.st = st] \in Run /\ [q EXCEPT !.st = st].todo = q.todo
      BY DEF Run
    <2>3. NoRun \in Run /\ NoRun.todo = {}
      BY DEF NoRun, Run
    <2>4. \/ \E st \in {"start", "await"} : run' = [run EXCEPT ![r] = [run[r] EXCEPT !.st = st]]
          \/ run' = [run EXCEPT ![r] = NoRun]
          \/ run' = [run EXCEPT ![r] = [NoRun EXCEPT !.st = "start"]]
      BY DEF TimerFires, TaskAwaits, TaskEnds
    <2>5. PICK q \in Run : run' = [run EXCEPT ![r] = q] /\ q.todo \in {{}, run[r].todo}
      BY <2>1, <2>2, <2>3, <2>4
    <2>6. QED
      BY <2>1, <2>5
  <1>3. TypeOK'
    <2>1. CASE TimerFires(r)
      BY <1>2, <2>1 DEF WfInv, TypeOK, TimerFires, IntervalStates
    <2>2. CASE TaskAwaits(r)
      BY <1>2, <2>2 DEF WfInv, TypeOK, TaskAwaits, StoppedState, IntervalStates
    <2>3. CASE TaskEnds(r)
      <3>1. timer' \in IntervalStates
            /\ phase' \in {"open", "waitEnd", "ended", "waitTask", "intervalsDone", "final", "done"}
        BY <2>3 DEF WfInv, TypeOK, TaskEnds, FinishedState, Reschedules, StartedState, IntervalStates
      <3>2. QED
        BY <1>2, <2>3, <3>1 DEF WfInv, TypeOK, TaskEnds
    <2>4. QED
      BY <2>1, <2>2, <2>3
  <1>4. DsnKnown'
    BY <1>1, <1>2 DEF WfInv, DsnKnown
  <1>5. QED
    BY <1>1, <1>3, <1>4, NoCallMoves

(* An item that goes back to the list of a saturated DSN has a known Dsn:    *)
(* WfInv is kept.                                                            *)
LEMMA TaskRequeuesWf ==
  ASSUME WfInv, NEW r \in Runs, NEW i \in Protos, TaskRequeues(r, i)
  PROVE  WfInv'
  <1>1. /\ UNCHANGED <<call, cb, pdsn, conn, returning>> /\ i \in run[r].todo
        /\ takeCare' = takeCare \cup {i}
        /\ run' = [run EXCEPT ![r] = [run[r] EXCEPT !.todo = @ \ {i}]]
    BY DEF TaskRequeues
  <1>2. run' \in [Runs -> Run] /\ \A x \in Runs : run'[x].todo \subseteq run[x].todo
    <2>1. run \in [Runs -> Run]
      BY DEF WfInv, TypeOK
    <2>2. \A q \in Run : [q EXCEPT !.todo = @ \ {i}] \in Run
                         /\ [q EXCEPT !.todo = @ \ {i}].todo = q.todo \ {i}
      BY DEF Run
    <2>3. QED
      BY <1>1, <2>1, <2>2
  <1>3. TypeOK'
    BY <1>1, <1>2 DEF WfInv, TypeOK, TaskRequeues
  <1>4. DsnKnown'
    BY <1>1, <1>2 DEF WfInv, DsnKnown
  <1>5. QED
    BY <1>1, <1>3, <1>4, NoCallMoves

(* getProtocol() that the task calls for an item keeps WfInv.                *)
LEMMA TaskCaresWf ==
  ASSUME WfInv, NEW r \in Runs, NEW i \in Protos, NEW c \in Calls, TaskCares(r, i, c)
  PROVE  WfInv'
  <1>1. /\ UNCHANGED <<pdsn, conn, returning, takeCare>> /\ i \in run[r].todo
        /\ GetProtocol(c, pdsn[i], "care", None, i)
        /\ run' = [run EXCEPT ![r] = [run[r] EXCEPT !.todo = @ \ {i}, !.calls = @ \cup {c}]]
    BY DEF TaskCares
  <1>2. run' \in [Runs -> Run] /\ \A x \in Runs : run'[x].todo \subseteq run[x].todo
    <2> DEFINE upd(q) == [q EXCEPT !.todo = @ \ {i}, !.calls = @ \cup {c}]
    <2>1. run \in [Runs -> Run]
      BY DEF WfInv, TypeOK
    <2>2. \A q \in Run : upd(q) \in Run /\ upd(q).todo = q.todo \ {i}
      BY DEF Run
    <2>3. run' = [run EXCEPT ![r] = upd(run[r])]
      BY <1>1
    <2> HIDE DEF upd
    <2>4. QED
      BY <2>1, <2>2, <2>3
  <1>3. pdsn[i] \in Dsns
    BY <1>1 DEF WfInv, DsnKnown
  <1>4. /\ entryOf' \in [Dsns -> Entries \cup {None}] /\ cb' \in [Entries -> SUBSET Calls]
        /\ stale' \in SUBSET Entries /\ logged' \in SUBSET Entries /\ call' \in [Calls -> Call]
    BY <1>1, <1>3, GetProtocolType DEF WfInv
  <1>5. TypeOK'
    BY <1>2, <1>4 DEF WfInv, TypeOK, TaskCares
  <1>6. DsnKnown'
    BY <1>1, <1>2 DEF WfInv, DsnKnown
  <1>7. UNCHANGED pdsn
    BY <1>1
  <1>8. QED
    BY <1>1, <1>3, <1>5, <1>6, <1>7, GetProtocolWf

(* The task closes idle connections, deletes entries and takes the list      *)
(* over: WfInv is kept.                                                      *)
LEMMA TaskBeginsWf ==
  ASSUME WfInv, NEW r \in Runs, TaskBegins(r)
  PROVE  WfInv'
  <1> DEFINE close(e) == IdleToClose(e, r = Final)
             closed == UNION {close(e) : e \in Mapped}
  <1>1. /\ UNCHANGED <<call, cb, pdsn, conn, returning>> /\ takeCare' = {}
        /\ nIdleAll' = nIdleAll - Cardinality(closed)
        /\ nBusyAll' = nBusyAll + Cardinality(closed)
        /\ run' = [run EXCEPT ![r] = [st |-> "loop", todo |-> takeCare,
                                      protos |-> closed, calls |-> {}]]
    BY DEF TaskBegins
  <1>2. Mapped \subseteq Entries
    BY DEF Mapped, WfInv, TypeOK
  <1>3. \A e \in Mapped : close(e) \subseteq Protos
    BY <1>2 DEF IdleToClose, WfInv, TypeOK
  <1>4. closed \subseteq Protos /\ Cardinality(closed) \in Nat
    BY <1>3, PoolAssumption, FS_Subset, FS_CardinalityType
  <1>5. run' \in [Runs -> Run] /\ \A x \in Runs : run'[x].todo \in {run[x].todo, takeCare}
    <2>1. run \in [Runs -> Run] /\ takeCare \in SUBSET Protos
      BY DEF WfInv, TypeOK
    <2>2. [st |-> "loop", todo |-> takeCare, protos |-> closed, calls |-> {}] \in Run
      BY <1>4, <2>1 DEF Run
    <2>3. QED
      BY <1>1, <2>1, <2>2
  <1>6. closing' \in [Protos -> Entries \cup {None}]
    <2>1. closing' = [p \in Protos |-> IF p \in closed THEN CHOOSE e \in Mapped : p \in close(e)
                                       ELSE closing[p]]
      BY DEF TaskBegins
    <2>2. ASSUME NEW p \in closed PROVE (CHOOSE e \in Mapped : p \in close(e)) \in Entries
      <3>1. \E e \in Mapped : p \in close(e)
        BY <2>2
      <3> HIDE DEF close
      <3>2. QED
        BY <1>2, <3>1
    <2> HIDE DEF close, closed
    <2>3. QED
      BY <2>1, <2>2 DEF WfInv, TypeOK
  <1> HIDE DEF closed
  <1>7. nIdleAll' \in Int /\ nBusyAll' \in Int
    BY <1>1, <1>4 DEF WfInv, TypeOK
  <1>8. idle' \in [Entries -> SUBSET Protos]
    BY DEF TaskBegins, WfInv, TypeOK
  <1>9. entryOf' \in [Dsns -> Entries \cup {None}] /\ stale' \in SUBSET Entries
    BY DEF TaskBegins, WfInv, TypeOK
  <1>10. TypeOK'
    BY <1>1, <1>5, <1>6, <1>7, <1>8, <1>9 DEF WfInv, TypeOK, TaskBegins
  <1>11. DsnKnown'
    BY <1>1, <1>5 DEF WfInv, DsnKnown
  <1>12. QED
    BY <1>1, <1>10, <1>11, NoCallMoves

(* A stuttering step keeps WfInv.                                            *)
LEMMA StutterWf == WfInv /\ UNCHANGED vars => WfInv'
  BY DEF WfInv, TypeOK, CallsOk, CbWaits, DsnKnown, vars

(* Every step of the pool and its users keeps WfInv.                         *)
LEMMA NextWfInv == WfInv /\ [Next]_vars => WfInv'
  <1> SUFFICES ASSUME WfInv, [Next]_vars PROVE WfInv'
    OBVIOUS
  <1>1. ASSUME NEW c \in Calls, CallNext(c) PROVE WfInv'
    BY <1>1, WaitTimesOutWf, WaitEndsWf, PopIdleWf, PopNothingWf, ClearDisconnectedWf,
       NewConnOkWf, NewConnFailsWf, ConnectedWf, ConnectFailsWf, KillSendWf, KillEndsWf,
       CareDeliveredWf, CareFailsWf DEF CallNext
  <1>2. ASSUME NEW p \in Protos, ProtoNext(p) PROVE WfInv'
    BY <1>2, ReturnCompletesWf, CloseCompletesWf, TimeWf DEF ProtoNext
  <1>3. ASSUME NEW k \in Conns, ConnNext(k) PROVE WfInv'
    BY <1>3, CreateWf, EndsWf, ForceWf, GetWf DEF ConnNext
  <1>4. ASSUME NEW r \in Runs, TaskNext(r) PROVE WfInv'
    BY <1>4, TaskSwitchWf, TaskRequeuesWf, TaskCaresWf, TaskBeginsWf DEF TaskNext
  <1>5. QED
    BY <1>1, <1>2, <1>3, <1>4, TimeWf, StutterWf DEF Next

(* WfInv is an invariant of the pool.                                        *)
LEMMA SpecWfInv == Spec => []WfInv
  BY InitWfInv, NextWfInv, PTL DEF Spec

(* Every step of the pool, of the MyConns and of the periodic task keeps the *)
(* variables in their types: a callback array holds only calls, the list of  *)
(* disconnected connections holds only connections, no counter of pending    *)
(* unref() continuations becomes negative.                                   *)
THEOREM PoolTypeCorrect == Spec => []TypeOK
  BY SpecWfInv, PTL DEF WfInv

-----------------------------------------------------------------------------
(* The limit of connections.  getProtocol() looks at the number of slots and *)
(* takes one in different iterations of its loops, and, if it connects, in   *)
(* different tasks of the event loop.  What makes it right: a call that is   *)
(* past the check is the only one (popping is synchronous) and has a slot, a *)
(* Protocols object is of one Dsn, and nConnecting counts exactly the calls  *)
(* that connect for it.                                                      *)

Connecting(e) == {c \in Calls : call[c].pc = "connecting" /\ call[c].entry = e}

OnePopping ==
    \A c, x \in Calls : call[c].pc = "popping" /\ call[x].pc = "popping" => c = x

PoppingHasSlot ==
    \A c \in Calls : call[c].pc = "popping" => InUse(call[c].entry) < MaxConns[call[c].dsn]

EntryOwner ==
    \A d \in Dsns : entryOf[d] # None =>
        /\ \A x \in Dsns : entryOf[x] = entryOf[d] => x = d
        /\ \A c \in Calls : call[c].entry = entryOf[d] => call[c].dsn = d

ConnectingExact == \A e \in Entries : nConnecting[e] = Cardinality(Connecting(e))

SlotInv == OnePopping /\ PoppingHasSlot /\ EntryOwner /\ ConnectingExact /\ SlotLimit

IInv == WfInv /\ SlotInv

(* In a new pool no slot is taken.                                           *)
LEMMA InitSlotInv == Init => SlotInv
  <1> SUFFICES ASSUME Init PROVE SlotInv
    OBVIOUS
  <1>1. \A c \in Calls : call[c].pc = "free"
    BY DEF Init, FreeCall
  <1>2. \A e \in Entries : Connecting(e) = {}
    BY <1>1 DEF Connecting
  <1>3. ConnectingExact
    BY <1>2, FS_EmptySet DEF ConnectingExact, Init
  <1>4. QED
    BY <1>1, <1>3 DEF SlotInv, OnePopping, PoppingHasSlot, EntryOwner, SlotLimit, Init

(* The connections in use of an entry are finitely many; one more counts for *)
(* at most one.                                                              *)
LEMMA BusyFinite ==
  ASSUME WfInv, NEW e \in Entries
  PROVE  /\ IsFiniteSet(busy[e]) /\ Cardinality(busy[e]) \in Nat
         /\ \A p : /\ Cardinality(busy[e] \cup {p}) \in Nat
                   /\ Cardinality(busy[e] \cup {p}) <= Cardinality(busy[e]) + 1
         /\ \A s \in SUBSET busy[e] : Cardinality(s) \in Nat /\ Cardinality(s) <= Cardinality(busy[e])
  <1>1. busy[e] \subseteq Protos
    BY DEF WfInv, TypeOK
  <1>2. IsFiniteSet(busy[e])
    BY <1>1, PoolAssumption, FS_Subset
  <1>3. Cardinality(busy[e]) \in Nat
    BY <1>2, FS_CardinalityType
  <1>4. \A p : /\ Cardinality(busy[e] \cup {p}) \in Nat
               /\ Cardinality(busy[e] \cup {p}) <= Cardinality(busy[e]) + 1
    <2> SUFFICES ASSUME NEW p
                 PROVE  /\ Cardinality(busy[e] \cup {p}) \in Nat
                        /\ Cardinality(busy[e] \cup {p}) <= Cardinality(busy[e]) + 1
      OBVIOUS
    <2>1. Cardinality(busy[e] \cup {p}) = IF p \in busy[e] THEN Cardinality(busy[e])
                                          ELSE Cardinality(busy[e]) + 1
      BY <1>2, FS_AddElement
    <2>2. QED
      BY <1>3, <2>1
  <1>5. \A s \in SUBSET busy[e] : Cardinality(s) \in Nat /\ Cardinality(s) <= Cardinality(busy[e])
    BY <1>2, FS_Subset, FS_CardinalityType
  <1>6. QED
    BY <1>2, <1>3, <1>4, <1>5

(* The calls that are connecting are finitely many.                          *)
LEMMA ConnectingFinite ==
  ASSUME NEW e
  PROVE  IsFiniteSet(Connecting(e)) /\ Cardinality(Connecting(e)) \in Nat
  BY PoolAssumption, FS_Subset, FS_CardinalityType DEF Connecting

(* Steps of a call that do not concern its slot *)
Quiet(r, s) ==
    \/ s.pc = r.pc /\ s.entry = r.entry /\ s.dsn = r.dsn
    \/ /\ r.pc # "connecting" /\ s.pc \notin {"popping", "connecting"}
       /\ s.entry = None \/ (s.entry = r.entry /\ s.dsn = r.dsn)

(* A step that takes no slot, and adds no entry, keeps SlotInv.              *)
LEMMA QuietSlot ==
  ASSUME WfInv, WfInv', SlotInv, UNCHANGED nConnecting,
         \A d \in Dsns : entryOf'[d] \in {entryOf[d], None},
         \A e \in Entries : busy'[e] \subseteq busy[e],
         \A c \in Calls : Quiet(call[c], call'[c])
  PROVE  SlotInv'
  <1>1. \A c \in Calls : call'[c].pc = "popping" => call[c].pc = "popping"
                            /\ call'[c].entry = call[c].entry /\ call'[c].dsn = call[c].dsn
    BY DEF Quiet
  <1>2. \A e \in Entries : Cardinality(busy'[e]) \in Nat /\ Cardinality(busy'[e]) <= Cardinality(busy[e])
    BY BusyFinite
  <1>3. \A e \in Entries : nConnecting[e] \in Int /\ Cardinality(busy[e]) \in Nat
    BY BusyFinite DEF WfInv, TypeOK
  <1>4. MaxConns \in [Dsns -> Nat \ {0}]
    BY PoolAssumption
  <1>5. OnePopping'
    BY <1>1 DEF SlotInv, OnePopping
  <1>6. PoppingHasSlot'
    <2> SUFFICES ASSUME NEW c \in Calls, call'[c].pc = "popping"
                 PROVE  Cardinality(busy'[call'[c].entry]) + nConnecting'[call'[c].entry] < MaxConns[call'[c].dsn]
      BY DEF PoppingHasSlot, InUse
    <2>1. call[c].pc = "popping" /\ call'[c].entry = call[c].entry /\ call'[c].dsn = call[c].dsn
      BY <1>1
    <2>2. call[c].entry \in Entries /\ call[c].dsn \in Dsns
      BY <2>1, CallFacts
    <2>3. Cardinality(busy[call[c].entry]) + nConnecting[call[c].entry] < MaxConns[call[c].dsn]
      BY <2>1 DEF SlotInv, PoppingHasSlot, InUse
    <2>4. QED
      BY <1>2, <1>3, <1>4, <2>1, <2>2, <2>3
  <1>7. EntryOwner'
    BY DEF SlotInv, EntryOwner, Quiet
  <1>8. ConnectingExact'
    <2>1. \A e \in Entries : Connecting(e)' = Connecting(e)
      BY DEF Connecting, Quiet
    <2>2. QED
      BY <2>1 DEF SlotInv, ConnectingExact
  <1>9. SlotLimit'
    <2> SUFFICES ASSUME NEW d \in Dsns, entryOf'[d] # None
                 PROVE  Cardinality(busy'[entryOf'[d]]) + nConnecting'[entryOf'[d]] <= MaxConns[d]
      BY DEF SlotLimit
    <2>1. entryOf'[d] = entryOf[d] /\ entryOf[d] \in Entries
      BY DEF WfInv, TypeOK
    <2>2. Cardinality(busy[entryOf[d]]) + nConnecting[entryOf[d]] <= MaxConns[d]
      BY <2>1 DEF SlotInv, SlotLimit
    <2>3. QED
      BY <1>2, <1>3, <1>4, <2>1, <2>2
  <1>10. QED
    BY <1>5, <1>6, <1>7, <1>8, <1>9 DEF SlotInv

(* Steps of a call c that is not past the check: it waits, throws, or passes *)
(* the check, when nobody else is past it.                                   *)
LEMMA CheckSlot ==
  ASSUME WfInv, WfInv', SlotInv, NEW c \in Calls, NEW r \in Call,
         call' = [call EXCEPT ![c] = r], UNCHANGED <<busy, nConnecting>>,
         call[c].pc # "connecting", r.pc # "connecting",
         \A x \in Calls : call[x].pc # "popping",
         r.pc = "popping" => InUse(r.entry) < MaxConns[r.dsn],
         EntryOwner', SlotLimit'
  PROVE  SlotInv'
  <1>1. \A x \in Calls : call'[x] = IF x = c THEN r ELSE call[x]
    BY DEF WfInv, TypeOK
  <1>2. OnePopping'
    BY <1>1 DEF OnePopping
  <1>3. PoppingHasSlot'
    BY <1>1 DEF PoppingHasSlot, InUse
  <1>4. \A e \in Entries : Connecting(e)' = Connecting(e)
    BY <1>1 DEF Connecting
  <1>5. ConnectingExact'
    BY <1>4 DEF SlotInv, ConnectingExact
  <1>6. QED
    BY <1>2, <1>3, <1>5 DEF SlotInv

(* A woken call goes on only if the entry has a slot: SlotInv is kept.       *)
LEMMA WaitEndsSlot ==
  ASSUME WfInv, WfInv', SlotInv, NEW c \in Calls, WaitEnds(c)
  PROVE  SlotInv'
  <1>1. /\ call[c].pc \in {"woken", "late"} /\ UNCHANGED <<busy, nConnecting, entryOf>>
        /\ WaitForSlot(c, call[c], call[c].pc = "late")
        /\ \A x \in Calls : call[x].pc # "popping"
    BY DEF WaitEnds, Microtask, InSync
  <1>2. PICK pc \in {"popping", "failed", "waiting"} :
            /\ call' = [call EXCEPT ![c] = [call[c] EXCEPT !.pc = pc]]
            /\ pc = "popping" => InUse(call[c].entry) < MaxConns[call[c].dsn]
    BY <1>1 DEF WaitForSlot
  <1> DEFINE r == [call[c] EXCEPT !.pc = pc]
  <1>3. r \in Call /\ r.pc = pc /\ r.entry = call[c].entry /\ r.dsn = call[c].dsn
    BY <1>1, CallFacts DEF Call
  <1>4. call' = [call EXCEPT ![c] = r]
    BY <1>2
  <1> HIDE DEF r
  <1>5. \A x \in Calls : call'[x].entry = call[x].entry /\ call'[x].dsn = call[x].dsn
    BY <1>3, <1>4 DEF WfInv, TypeOK
  <1>6. EntryOwner'
    BY <1>1, <1>5 DEF SlotInv, EntryOwner
  <1>7. SlotLimit'
    BY <1>1 DEF SlotInv, SlotLimit
  <1>8. QED
    BY <1>1, <1>2, <1>3, <1>4, <1>6, <1>7, CheckSlot

(* getProtocol() goes on only if the entry is new or has a slot: SlotInv is  *)
(* kept.                                                                     *)
LEMMA GetProtocolSlot ==
  ASSUME WfInv, WfInv', SlotInv, NEW c \in Calls, NEW d \in Dsns,
         NEW kind \in {"connect", "kill", "care"}, NEW k \in Conns \cup {None},
         NEW info \in Protos \cup {None}, GetProtocol(c, d, kind, k, info),
         \A x \in Calls : call[x].pc # "popping", UNCHANGED <<busy, nConnecting>>
  PROVE  SlotInv'
  <1> DEFINE rec(pc, e) == [pc |-> pc, kind |-> kind, conn |-> k, info |-> info,
                            dsn |-> d, entry |-> e, proto |-> None, held |-> {}]
  <1>1. call[c].pc = "free" /\ call \in [Calls -> Call] /\ MaxConns[d] \in Nat \ {0}
    BY PoolAssumption DEF GetProtocol, WfInv, TypeOK
  <1>2. \A e \in Entries, pc \in {"popping", "failed", "waiting"} :
            rec(pc, e) \in Call /\ rec(pc, e).pc = pc /\ rec(pc, e).entry = e /\ rec(pc, e).dsn = d
    BY DEF Call
  <1>3. CASE entryOf[d] # None
    <2>1. /\ entryOf[d] \in Entries /\ UNCHANGED entryOf
          /\ WaitForSlot(c, rec("free", entryOf[d]), FALSE)
      BY <1>3 DEF GetProtocol, WfInv, TypeOK
    <2>2. PICK pc \in {"popping", "failed", "waiting"} :
              /\ call' = [call EXCEPT ![c] = [rec("free", entryOf[d]) EXCEPT !.pc = pc]]
              /\ pc = "popping" => InUse(entryOf[d]) < MaxConns[d]
      BY <2>1 DEF WaitForSlot
    <2>3. [rec("free", entryOf[d]) EXCEPT !.pc = pc] = rec(pc, entryOf[d])
      OBVIOUS
    <2> HIDE DEF rec
    <2> DEFINE r == rec(pc, entryOf[d])
    <2>4. r \in Call /\ r.pc = pc /\ r.entry = entryOf[d] /\ r.dsn = d
      BY <1>2, <2>1
    <2>5. call' = [call EXCEPT ![c] = r]
      BY <2>2, <2>3
    <2> HIDE DEF r
    <2>6. \A x \in Calls : call'[x] = IF x = c THEN r ELSE call[x]
      BY <1>1, <2>5
    <2>7. EntryOwner'
      BY <1>3, <2>1, <2>4, <2>6 DEF SlotInv, EntryOwner
    <2>8. SlotLimit'
      BY <2>1 DEF SlotInv, SlotLimit
    <2>9. QED
      BY <1>1, <2>2, <2>4, <2>5, <2>7, <2>8, CheckSlot
  <1>4. CASE entryOf[d] = None
    <2>1. PICK e \in FreeEntries : /\ entryOf' = [entryOf EXCEPT ![d] = e]
                                   /\ call' = [call EXCEPT ![c] = rec("popping", e)]
      BY <1>4 DEF GetProtocol
    <2>2. /\ e \in Entries /\ e # None /\ busy[e] = {}
          /\ \A x \in Dsns : entryOf[x] # e
          /\ \A x \in Calls : call[x].entry # e
      BY PoolAssumption DEF FreeEntries, Mapped
    <2> HIDE DEF rec
    <2> DEFINE r == rec("popping", e)
    <2>3. r \in Call /\ r.pc = "popping" /\ r.entry = e /\ r.dsn = d
      BY <1>2, <2>2
    <2>4. call' = [call EXCEPT ![c] = r]
      BY <2>1
    <2> HIDE DEF r
    <2>5. \A x \in Calls : call'[x] = IF x = c THEN r ELSE call[x]
      BY <1>1, <2>4
    <2>6. \A x \in Dsns : entryOf'[x] = IF x = d THEN e ELSE entryOf[x]
      BY <2>1 DEF WfInv, TypeOK
    <2>7. EntryOwner'
      BY <2>2, <2>3, <2>5, <2>6 DEF SlotInv, EntryOwner
    <2>8. InUse(e) = 0
      <3>1. Connecting(e) = {}
        BY <2>2 DEF Connecting
      <3>2. QED
        <4>1. nConnecting[e] = 0
          BY <2>2, <3>1, FS_EmptySet DEF SlotInv, ConnectingExact
        <4>2. Cardinality(busy[e]) = 0
          BY <2>2, FS_EmptySet
        <4>3. QED
          BY <4>1, <4>2 DEF InUse
    <2>9. SlotLimit'
      <3> SUFFICES ASSUME NEW x \in Dsns, entryOf'[x] # None
                   PROVE  Cardinality(busy[entryOf'[x]]) + nConnecting[entryOf'[x]] <= MaxConns[x]
        BY DEF SlotLimit
      <3>1. CASE x = d
        BY <1>1, <2>6, <2>8, <3>1 DEF InUse
      <3>2. CASE x # d
        BY <2>6, <3>2 DEF SlotInv, SlotLimit
      <3>3. QED
        BY <3>1, <3>2
    <2>10. InUse(r.entry) < MaxConns[r.dsn]
      BY <1>1, <2>3, <2>8
    <2>11. QED
      BY <1>1, <2>3, <2>4, <2>7, <2>9, <2>10, CheckSlot
  <1>5. QED
    BY <1>3, <1>4

(* The call that is past the check takes an idle connection, or closes one.  *)
LEMMA PopIdleSlot ==
  ASSUME WfInv, WfInv', SlotInv, NEW c \in Calls, NEW p \in Protos, PopIdle(c, p)
  PROVE  SlotInv'
  <1>1. call[c].pc = "popping" /\ UNCHANGED <<entryOf, nConnecting>>
    BY DEF PopIdle
  <1>2. call[c] \in Call /\ call[c].entry \in Entries /\ call[c].dsn \in Dsns
    BY <1>1, CallFacts
  <1>3. CASE p \in expired
    BY <1>1, <1>3, QuietSlot DEF PopIdle, Quiet
  <1>4. CASE p \notin expired
    <2> DEFINE r == [call[c] EXCEPT !.pc = "delivered", !.proto = p]
               e == call[c].entry
    <2>1. r.pc = "delivered" /\ r.entry = call[c].entry /\ r.dsn = call[c].dsn
      BY <1>2 DEF Call
    <2>2. call' = [call EXCEPT ![c] = r] /\ busy' = [busy EXCEPT ![e] = @ \cup {p}]
      BY <1>4 DEF PopIdle
    <2> HIDE DEF r
    <2>3. \A x \in Calls : call'[x] = IF x = c THEN r ELSE call[x]
      BY <2>2 DEF WfInv, TypeOK
    <2>4. \A x \in Calls : call'[x].pc # "popping"
      BY <1>1, <2>1, <2>3 DEF SlotInv, OnePopping
    <2>5. OnePopping' /\ PoppingHasSlot'
      BY <2>4 DEF OnePopping, PoppingHasSlot
    <2>6. EntryOwner'
      BY <1>1, <2>1, <2>3 DEF SlotInv, EntryOwner
    <2>7. \A f \in Entries : Connecting(f)' = Connecting(f)
      BY <1>1, <2>1, <2>3 DEF Connecting
    <2>8. ConnectingExact'
      BY <1>1, <2>7 DEF SlotInv, ConnectingExact
    <2>9. SlotLimit'
      <3> SUFFICES ASSUME NEW d \in Dsns, entryOf[d] # None
                   PROVE  Cardinality(busy'[entryOf[d]]) + nConnecting[entryOf[d]] <= MaxConns[d]
        BY <1>1 DEF SlotLimit
      <3>1. entryOf[d] \in Entries /\ nConnecting[entryOf[d]] \in Int /\ MaxConns[d] \in Nat
        BY PoolAssumption DEF WfInv, TypeOK
      <3>2. CASE entryOf[d] = e
        <4>1. d = call[c].dsn
          BY <3>2 DEF SlotInv, EntryOwner
        <4>2. Cardinality(busy[e]) + nConnecting[e] < MaxConns[d]
          BY <1>1, <4>1 DEF SlotInv, PoppingHasSlot, InUse
        <4>3. busy'[e] = busy[e] \cup {p} /\ e \in Entries
          BY <1>2, <2>2 DEF WfInv, TypeOK
        <4>4. Cardinality(busy'[e]) \in Nat /\ Cardinality(busy[e]) \in Nat
              /\ Cardinality(busy'[e]) <= Cardinality(busy[e]) + 1
          BY <4>3, BusyFinite
        <4> HIDE DEF e
        <4>5. QED
          BY <3>1, <3>2, <4>2, <4>4
      <3>3. CASE entryOf[d] # e
        <4>1. busy'[entryOf[d]] = busy[entryOf[d]]
          BY <2>2, <3>1, <3>3 DEF WfInv, TypeOK
        <4>2. QED
          BY <4>1 DEF SlotInv, SlotLimit
      <3>4. QED
        BY <3>2, <3>3
    <2>10. QED
      BY <2>5, <2>6, <2>8, <2>9 DEF SlotInv
  <1>5. QED
    BY <1>3, <1>4

(* ... or begins to connect. *)
LEMMA PopNothingSlot ==
  ASSUME WfInv, WfInv', SlotInv, NEW c \in Calls, PopNothing(c)
  PROVE  SlotInv'
  <1> DEFINE r == [call[c] EXCEPT !.pc = "connecting"]
             e == call[c].entry
  <1>1. /\ call[c].pc = "popping" /\ UNCHANGED <<entryOf, busy>>
        /\ call' = [call EXCEPT ![c] = r]
        /\ nConnecting' = [nConnecting EXCEPT ![e] = @ + 1]
    BY DEF PopNothing
  <1>2. call[c] \in Call /\ e \in Entries /\ call[c].dsn \in Dsns
    BY <1>1, CallFacts
  <1>3. r.pc = "connecting" /\ r.entry = e /\ r.dsn = call[c].dsn
    BY <1>2 DEF Call
  <1> HIDE DEF r, e
  <1>4. \A x \in Calls : call'[x] = IF x = c THEN r ELSE call[x]
    BY <1>1 DEF WfInv, TypeOK
  <1>5. \A f \in Entries : nConnecting'[f] = (IF f = e THEN nConnecting[f] + 1 ELSE nConnecting[f])
                           /\ nConnecting[f] \in Int
    BY <1>1 DEF WfInv, TypeOK
  <1>6. \A x \in Calls : call'[x].pc # "popping"
    BY <1>1, <1>3, <1>4 DEF SlotInv, OnePopping
  <1>7. OnePopping' /\ PoppingHasSlot'
    BY <1>6 DEF OnePopping, PoppingHasSlot
  <1>8. EntryOwner'
    BY <1>1, <1>3, <1>4 DEF SlotInv, EntryOwner, e
  <1>9. ConnectingExact'
    <2> SUFFICES ASSUME NEW f \in Entries
                 PROVE  nConnecting'[f] = Cardinality(Connecting(f)')
      BY DEF ConnectingExact
    <2>1. nConnecting[f] = Cardinality(Connecting(f))
      BY DEF SlotInv, ConnectingExact
    <2>2. CASE f = e
      <3>1. Connecting(f)' = Connecting(f) \cup {c} /\ c \notin Connecting(f)
        BY <1>1, <1>3, <1>4, <2>2 DEF Connecting
      <3>2. Cardinality(Connecting(f)') = Cardinality(Connecting(f)) + 1
        BY <3>1, ConnectingFinite, FS_AddElement
      <3>3. QED
        BY <1>5, <2>1, <2>2, <3>2
    <2>3. CASE f # e
      <3>1. Connecting(f)' = Connecting(f)
        BY <1>1, <1>3, <1>4, <2>3 DEF Connecting
      <3>2. QED
        BY <1>5, <2>1, <2>3, <3>1
    <2>4. QED
      BY <2>2, <2>3
  <1>10. SlotLimit'
    <2> SUFFICES ASSUME NEW d \in Dsns, entryOf[d] # None
                 PROVE  Cardinality(busy[entryOf[d]]) + nConnecting'[entryOf[d]] <= MaxConns[d]
      BY <1>1 DEF SlotLimit
    <2>1. entryOf[d] \in Entries /\ nConnecting[entryOf[d]] \in Int /\ MaxConns[d] \in Nat
          /\ Cardinality(busy[entryOf[d]]) \in Nat
      BY PoolAssumption, BusyFinite DEF WfInv, TypeOK
    <2>2. CASE entryOf[d] = e
      <3>1. d = call[c].dsn
        BY <2>2 DEF SlotInv, EntryOwner, e
      <3>2. Cardinality(busy[e]) + nConnecting[e] < MaxConns[d]
        BY <1>1, <3>1 DEF SlotInv, PoppingHasSlot, InUse, e
      <3>3. QED
        BY <1>2, <1>5, <2>1, <2>2, <3>2
    <2>3. CASE entryOf[d] # e
      BY <1>5, <2>1, <2>3 DEF SlotInv, SlotLimit
    <2>4. QED
      BY <2>2, <2>3
  <1>11. QED
    BY <1>7, <1>8, <1>9, <1>10 DEF SlotInv

(* Connecting ends, and the slot goes from nConnecting to busy, or is free. *)
LEMMA NewConnSlot ==
  ASSUME WfInv, WfInv', SlotInv, NEW c \in Calls, NEW add,
         call[c].pc = "connecting", \A x \in Calls : call[x].pc # "popping",
         add = {} \/ \E p : add = {p},
         UNCHANGED entryOf,
         busy' = [busy EXCEPT ![call[c].entry] = @ \cup add],
         nConnecting' = [nConnecting EXCEPT ![call[c].entry] = @ - 1],
         call'[c].pc \notin {"popping", "connecting"},
         call'[c].entry = call[c].entry, call'[c].dsn = call[c].dsn,
         \A x \in Calls \ {c} : Quiet(call[x], call'[x])
  PROVE  SlotInv'
  <1> DEFINE e == call[c].entry
  <1>1. e \in Entries
    BY CallFacts
  <1>2. \A x \in Calls : call'[x].pc # "popping"
    BY DEF Quiet
  <1>3. OnePopping' /\ PoppingHasSlot'
    BY <1>2 DEF OnePopping, PoppingHasSlot
  <1>4. EntryOwner'
    BY DEF SlotInv, EntryOwner, Quiet
  <1>5. \A f \in Entries : nConnecting'[f] = (IF f = e THEN nConnecting[f] - 1 ELSE nConnecting[f])
                           /\ nConnecting[f] \in Int
    BY DEF WfInv, TypeOK
  <1>6. ConnectingExact'
    <2> SUFFICES ASSUME NEW f \in Entries
                 PROVE  nConnecting'[f] = Cardinality(Connecting(f)')
      BY DEF ConnectingExact
    <2>1. nConnecting[f] = Cardinality(Connecting(f))
      BY DEF SlotInv, ConnectingExact
    <2>2. CASE f = e
      <3>1. Connecting(f)' = Connecting(f) \ {c} /\ c \in Connecting(f)
        BY <2>2 DEF Connecting, Quiet
      <3>2. Cardinality(Connecting(f)') = Cardinality(Connecting(f)) - 1
        BY <3>1, ConnectingFinite, FS_RemoveElement
      <3>3. QED
        BY <1>5, <2>1, <2>2, <3>2
    <2>3. CASE f # e
      <3>1. Connecting(f)' = Connecting(f)
        BY <2>3 DEF Connecting, Quiet
      <3>2. QED
        BY <1>5, <2>1, <2>3, <3>1
    <2>4. QED
      BY <2>2, <2>3
  <1> HIDE DEF e
  <1>7. SlotLimit'
    <2> SUFFICES ASSUME NEW d \in Dsns, entryOf[d] # None
                 PROVE  Cardinality(busy'[entryOf[d]]) + nConnecting'[entryOf[d]] <= MaxConns[d]
      BY DEF SlotLimit
    <2>1. entryOf[d] \in Entries /\ nConnecting[entryOf[d]] \in Int /\ MaxConns[d] \in Nat
          /\ Cardinality(busy[entryOf[d]]) \in Nat
      BY PoolAssumption, BusyFinite DEF WfInv, TypeOK
    <2>2. Cardinality(busy[entryOf[d]]) + nConnecting[entryOf[d]] <= MaxConns[d]
      BY DEF SlotInv, SlotLimit
    <2>3. CASE entryOf[d] = e
      <3>1. busy'[e] = busy[e] \cup add
        BY <1>1 DEF WfInv, TypeOK, e
      <3>2. Cardinality(busy'[e]) \in Nat /\ Cardinality(busy'[e]) <= Cardinality(busy[e]) + 1
        <4>1. CASE add = {}
          BY <1>1, <3>1, <4>1, BusyFinite
        <4>2. CASE \E p : add = {p}
          BY <1>1, <3>1, <4>2, BusyFinite
        <4>3. QED
          BY <4>1, <4>2
      <3>3. QED
        BY <1>1, <1>5, <2>1, <2>2, <2>3, <3>2
    <2>4. CASE entryOf[d] # e
      <3>1. busy'[entryOf[d]] = busy[entryOf[d]]
        BY <2>1, <2>4 DEF WfInv, TypeOK, e
      <3>2. QED
        BY <1>5, <2>1, <2>2, <2>4, <3>1
    <2>5. QED
      BY <2>3, <2>4
  <1>8. QED
    BY <1>3, <1>4, <1>6, <1>7 DEF SlotInv

(* A new connection takes the slot that was counted as connecting: SlotInv   *)
(* is kept.                                                                  *)
LEMMA NewConnOkSlot ==
  ASSUME WfInv, WfInv', SlotInv, NEW c \in Calls, NewConnOk(c)
  PROVE  SlotInv'
  <1>1. PICK p \in FreeProtos :
            /\ busy' = [busy EXCEPT ![call[c].entry] = @ \cup {p}]
            /\ call' = [call EXCEPT ![c].pc = "delivered", ![c].proto = p, ![c].held = {}]
    BY DEF NewConnOk
  <1>2. /\ call[c].pc = "connecting" /\ UNCHANGED entryOf
        /\ \A x \in Calls : call[x].pc # "popping"
        /\ nConnecting' = [nConnecting EXCEPT ![call[c].entry] = @ - 1]
    BY DEF NewConnOk, Macrotask, InSync
  <1> DEFINE r == [call[c] EXCEPT !.pc = "delivered", !.proto = p, !.held = {}]
  <1>3. r.pc = "delivered" /\ r.entry = call[c].entry /\ r.dsn = call[c].dsn
    BY <1>2, CallFacts DEF Call
  <1>4. call' = [call EXCEPT ![c] = r]
    BY <1>1
  <1> HIDE DEF r
  <1>5. \A x \in Calls : call'[x] = IF x = c THEN r ELSE call[x]
    BY <1>4 DEF WfInv, TypeOK
  <1>6. \A x \in Calls \ {c} : Quiet(call[x], call'[x])
    BY <1>5 DEF Quiet
  <1>7. /\ call'[c].pc \notin {"popping", "connecting"}
        /\ call'[c].entry = call[c].entry /\ call'[c].dsn = call[c].dsn
    BY <1>3, <1>5
  <1>8. QED
    BY <1>1, <1>2, <1>6, <1>7, NewConnSlot

(* What #decNBusyAll() makes of the calls does not concern their slots. *)
LEMMA DecNBusyAllQuiet ==
  ASSUME WfInv, NEW d, NEW e \in Entries, NEW calls \in [Calls -> Call], NEW idleAll, NEW care,
         NEW tm, DecNBusyAll(d, e, calls, idleAll, care, tm), NEW x \in Calls,
         calls[x] = call[x] \/ call[x].pc # "waiting"
  PROVE  /\ call[x].pc # "waiting" => call'[x] = calls[x]
         /\ call[x].pc = "waiting" => Quiet(call[x], call'[x])
  <1>1. call'[x] = calls[x] \/ (x \in cb[e] /\ call'[x] = [calls[x] EXCEPT !.pc = "woken"])
    BY DEF DecNBusyAll
  <1>2. call[x].pc # "waiting" => x \notin cb[e]
    BY DEF WfInv, CbWaits
  <1>3. ASSUME call[x].pc = "waiting" PROVE Quiet(call[x], call'[x])
    <2>1. CASE call'[x] = calls[x]
      BY <1>3, <2>1 DEF Quiet
    <2>2. CASE call'[x] = [calls[x] EXCEPT !.pc = "woken"]
      <3>1. call[x] \in Call
        BY DEF WfInv, TypeOK
      <3>2. call'[x].pc = "woken" /\ call'[x].entry = call[x].entry /\ call'[x].dsn = call[x].dsn
        BY <1>3, <2>2, <3>1 DEF Call
      <3>3. QED
        BY <1>3, <3>2 DEF Quiet
    <2>3. QED
      BY <1>1, <2>1, <2>2
  <1>4. QED
    BY <1>1, <1>2, <1>3

(* A failed attempt gives the slot up: SlotInv is kept.                      *)
LEMMA NewConnFailsSlot ==
  ASSUME WfInv, WfInv', SlotInv, NEW c \in Calls, NewConnFails(c)
  PROVE  SlotInv'
  <1> DEFINE calls == [call EXCEPT ![c].pc = "failed", ![c].held = {}]
             r == [call[c] EXCEPT !.pc = "failed", !.held = {}]
  <1>1. /\ call[c].pc = "connecting" /\ UNCHANGED <<entryOf, busy>>
        /\ \A x \in Calls : call[x].pc # "popping"
        /\ nConnecting' = [nConnecting EXCEPT ![call[c].entry] = @ - 1]
        /\ DecNBusyAll(call[c].dsn, call[c].entry, calls, nIdleAll, takeCare', timer)
    BY DEF NewConnFails, Macrotask, InSync
  <1>2. r \in Call /\ r.pc = "failed" /\ r.entry = call[c].entry /\ r.dsn = call[c].dsn
    BY <1>1, CallFacts DEF Call
  <1>3. calls = [call EXCEPT ![c] = r]
    OBVIOUS
  <1> HIDE DEF r
  <1>4. calls \in [Calls -> Call] /\ \A x \in Calls : calls[x] = IF x = c THEN r ELSE call[x]
    BY <1>1, <1>2, <1>3, CallFacts
  <1> HIDE DEF calls
  <1>5. call[c].entry \in Entries
    BY <1>1, CallFacts
  <1>6. ASSUME NEW x \in Calls
        PROVE  /\ call[x].pc # "waiting" => call'[x] = calls[x]
               /\ call[x].pc = "waiting" => Quiet(call[x], call'[x])
    <2>1. calls[x] = call[x] \/ call[x].pc # "waiting"
      BY <1>1, <1>4
    <2>2. QED
      BY <1>1, <1>4, <1>5, <2>1, DecNBusyAllQuiet
  <1>7. \A x \in Calls \ {c} : Quiet(call[x], call'[x])
    BY <1>4, <1>6 DEF Quiet
  <1>8. /\ call'[c].pc \notin {"popping", "connecting"}
        /\ call'[c].entry = call[c].entry /\ call'[c].dsn = call[c].dsn
    BY <1>1, <1>2, <1>4, <1>6
  <1>9. busy' = [busy EXCEPT ![call[c].entry] = @ \cup {}]
    BY <1>1 DEF WfInv, TypeOK
  <1>10. QED
    BY <1>1, <1>7, <1>8, <1>9, NewConnSlot

(* Connections that go back: busy shrinks. *)
LEMMA DoReturnProtocolSlot ==
  ASSUME WfInv, WfInv', SlotInv, UNCHANGED <<entryOf, nConnecting>>,
         NEW p \in Protos, pdsn[p] \in Dsns, NEW forReuse \in BOOLEAN,
         NEW calls \in [Calls -> Call], NEW care, NEW tm,
         DoReturnProtocol(p, forReuse, calls, care, tm),
         \A x \in Calls : calls[x] = call[x] \/ (call[x].pc = "returning" /\ calls[x] = FreeCall)
  PROVE  SlotInv'
  <1>1. \A e \in Entries : busy'[e] \subseteq busy[e]
    <2>1. UNCHANGED busy \/ \E e, q : busy' = [busy EXCEPT ![e] = @ \ {q}]
      BY DEF DoReturnProtocol
    <2>2. QED
      BY <2>1 DEF WfInv, TypeOK
  <1>2. \A x \in Calls : Quiet(call[x], calls[x])
    BY DEF Quiet, FreeCall
  <1>3. ASSUME NEW x \in Calls PROVE Quiet(call[x], call'[x])
    <2>1. CASE call' = calls
      BY <1>2, <2>1
    <2>2. ASSUME NEW place \in BusyPlaces(p),
                 DecNBusyAll(pdsn[p], place[1], calls, nIdleAll', care, tm)
          PROVE  Quiet(call[x], call'[x])
      <3>1. place[1] \in Entries
        BY BusyPlacesType
      <3>2. calls[x] = call[x] \/ call[x].pc # "waiting"
        OBVIOUS
      <3>3. /\ call[x].pc # "waiting" => call'[x] = calls[x]
            /\ call[x].pc = "waiting" => Quiet(call[x], call'[x])
        BY <2>2, <3>1, <3>2, DecNBusyAllQuiet
      <3>4. QED
        BY <1>2, <3>3
    <2>3. QED
      BY <2>1, <2>2 DEF DoReturnProtocol
  <1>4. QED
    BY <1>1, <1>3, QuietSlot

(* The end of returnProtocol() takes no slot.                                *)
LEMMA ReturnCompletesSlot ==
  ASSUME WfInv, WfInv', SlotInv, NEW p \in Protos, ReturnCompletes(p)
  PROVE  SlotInv'
  <1> DEFINE calls == [c \in Calls |-> IF call[c].pc = "returning" /\ call[c].proto = p
                                       THEN FreeCall ELSE call[c]]
  <1>1. PICK forReuse \in BOOLEAN : DoReturnProtocol(p, forReuse, calls, takeCare, timer)
    BY DEF ReturnCompletes
  <1>2. pdsn[p] \in Dsns /\ UNCHANGED <<entryOf, nConnecting>>
    BY DEF ReturnCompletes, WfInv, DsnKnown
  <1>3. calls \in [Calls -> Call]
    BY FreeCallType DEF WfInv, TypeOK
  <1>4. \A x \in Calls : calls[x] = call[x] \/ (call[x].pc = "returning" /\ calls[x] = FreeCall)
    OBVIOUS
  <1> HIDE DEF calls
  <1>5. QED
    BY <1>1, <1>2, <1>3, <1>4, DoReturnProtocolSlot

(* forceImmediateDisconnect() takes no slot.                                 *)
LEMMA ForceSlot ==
  ASSUME WfInv, WfInv', SlotInv, NEW k \in Conns, NEW care \in BOOLEAN,
         ForceImmediateDisconnect(k, care)
  PROVE  SlotInv'
  <1> DEFINE p == conn[k].proto
             tm == IF care THEN StartedState(timer, TRUE) ELSE timer
  <1>1. /\ p # None /\ DoReturnProtocol(p, FALSE, call, takeCare', tm)
        /\ UNCHANGED <<entryOf, nConnecting>>
    BY DEF ForceImmediateDisconnect
  <1>2. p \in Protos /\ pdsn[p] \in Dsns /\ call \in [Calls -> Call]
    BY <1>1 DEF WfInv, TypeOK, Conn, DsnKnown
  <1> HIDE DEF p, tm
  <1>3. QED
    BY <1>1, <1>2, DoReturnProtocolSlot

(* The end of #closeConn() takes no slot.                                    *)
LEMMA CloseCompletesSlot ==
  ASSUME WfInv, WfInv', SlotInv, NEW p \in Protos, CloseCompletes(p)
  PROVE  SlotInv'
  <1>1. /\ closing[p] \in Entries /\ UNCHANGED <<entryOf, nConnecting, busy>>
        /\ DecNBusyAll(pdsn[p], closing[p], call, nIdleAll, takeCare, timer)
        /\ call \in [Calls -> Call]
    BY DEF CloseCompletes, WfInv, TypeOK
  <1>2. ASSUME NEW x \in Calls PROVE Quiet(call[x], call'[x])
    <2>1. /\ call[x].pc # "waiting" => call'[x] = call[x]
          /\ call[x].pc = "waiting" => Quiet(call[x], call'[x])
      BY <1>1, DecNBusyAllQuiet
    <2>2. QED
      BY <2>1 DEF Quiet
  <1>3. QED
    BY <1>1, <1>2, QuietSlot

(* The other steps of a call *)
LEMMA CallQuietSlot ==
  ASSUME WfInv, WfInv', SlotInv, NEW c \in Calls,
         \/ \E late \in BOOLEAN : WaitTimesOut(c, late)
         \/ ClearDisconnected(c) \/ Connected(c) \/ ConnectFails(c)
         \/ KillSend(c) \/ KillSent(c) \/ KillFails(c) \/ CareDelivered(c) \/ CareFails(c)
  PROVE  SlotInv'
  <1>1. UNCHANGED <<entryOf, nConnecting, busy>>
    BY DEF WaitTimesOut, ClearDisconnected, Connected, ConnectFails, KillSend, KillSent, KillFails,
           CareDelivered, CareFails
  <1>2. call[c] \in Call /\ call \in [Calls -> Call]
    BY DEF WfInv, TypeOK
  <1>3. CASE /\ call[c].pc # "connecting"
             /\ \E pc \in {"late", "woken", "killing"} : call' = [call EXCEPT ![c] = [call[c] EXCEPT !.pc = pc]]
    <2>1. PICK pc \in {"late", "woken", "killing"} : call' = [call EXCEPT ![c] = [call[c] EXCEPT !.pc = pc]]
      BY <1>3
    <2>2. call'[c].pc = pc /\ call'[c].entry = call[c].entry /\ call'[c].dsn = call[c].dsn
      BY <1>2, <2>1 DEF Call
    <2>3. \A x \in Calls \ {c} : call'[x] = call[x]
      BY <1>2, <2>1
    <2>4. \A x \in Calls : Quiet(call[x], call'[x])
      BY <1>3, <2>2, <2>3 DEF Quiet
    <2>5. QED
      BY <1>1, <2>4, QuietSlot
  <1>4. CASE \E i : call' = [call EXCEPT ![c] = [call[c] EXCEPT !.held = @ \cup {i}]]
    <2>1. PICK i : call' = [call EXCEPT ![c] = [call[c] EXCEPT !.held = @ \cup {i}]]
      BY <1>4
    <2>2. call'[c].pc = call[c].pc /\ call'[c].entry = call[c].entry /\ call'[c].dsn = call[c].dsn
      BY <1>2, <2>1 DEF Call
    <2>3. \A x \in Calls \ {c} : call'[x] = call[x]
      BY <1>2, <2>1
    <2>4. \A x \in Calls : Quiet(call[x], call'[x])
      BY <2>2, <2>3 DEF Quiet
    <2>5. QED
      BY <1>1, <2>4, QuietSlot
  <1>5. CASE call[c].pc # "connecting" /\ call' = [call EXCEPT ![c] = FreeCall]
    <2>1. \A x \in Calls : Quiet(call[x], call'[x])
      BY <1>2, <1>5 DEF Quiet, FreeCall
    <2>2. QED
      BY <1>1, <2>1, QuietSlot
  <1>6. CASE /\ call[c].pc # "connecting"
             /\ call' = [call EXCEPT ![c] = [call[c] EXCEPT !.pc = "returning", !.info = None]]
    <2>1. call'[c].pc = "returning" /\ call'[c].entry = call[c].entry /\ call'[c].dsn = call[c].dsn
      BY <1>2, <1>6 DEF Call
    <2>2. \A x \in Calls \ {c} : call'[x] = call[x]
      BY <1>2, <1>6
    <2>3. \A x \in Calls : Quiet(call[x], call'[x])
      BY <1>6, <2>1, <2>2 DEF Quiet
    <2>4. QED
      BY <1>1, <2>3, QuietSlot
  <1>7. CASE \E late \in BOOLEAN : WaitTimesOut(c, late)
    BY <1>3, <1>7 DEF WaitTimesOut
  <1>8. CASE ClearDisconnected(c)
    BY <1>4, <1>8 DEF ClearDisconnected
  <1>9. CASE Connected(c) \/ ConnectFails(c) \/ KillSent(c) \/ KillFails(c) \/ CareFails(c)
    BY <1>5, <1>9 DEF Connected, ConnectFails, KillSent, KillFails, CareFails
  <1>10. CASE KillSend(c)
    BY <1>3, <1>10 DEF KillSend
  <1>11. CASE CareDelivered(c)
    BY <1>6, <1>11 DEF CareDelivered
  <1>12. QED
    BY <1>7, <1>8, <1>9, <1>10, <1>11

(* Steps that leave the calls and the busy arrays alone *)
LEMMA OtherSlot ==
  ASSUME WfInv, WfInv', SlotInv, UNCHANGED <<call, busy, nConnecting>>,
         \A d \in Dsns : entryOf'[d] \in {entryOf[d], None}
  PROVE  SlotInv'
  BY QuietSlot DEF Quiet

(* Every step of the pool and its users keeps SlotInv.                       *)
LEMMA NextSlotInv == IInv /\ [Next]_vars => SlotInv'
  <1> SUFFICES ASSUME WfInv, SlotInv, [Next]_vars, WfInv' PROVE SlotInv'
    BY NextWfInv DEF IInv
  <1>1. ASSUME NEW c \in Calls, CallNext(c) PROVE SlotInv'
    BY <1>1, CallQuietSlot, WaitEndsSlot, PopIdleSlot, PopNothingSlot, NewConnOkSlot,
       NewConnFailsSlot DEF CallNext
  <1>2. ASSUME NEW p \in Protos, ProtoNext(p) PROVE SlotInv'
    <2>1. CASE Expire(p)
      BY <2>1, OtherSlot DEF Expire
    <2>2. QED
      BY <1>2, <2>1, ReturnCompletesSlot, CloseCompletesSlot DEF ProtoNext
  <1>3. ASSUME NEW k \in Conns, ConnNext(k) PROVE SlotInv'
    <2>1. CASE Create(k) \/ End(k) \/ Dispose(k)
      BY <2>1, OtherSlot DEF Create, End, Dispose
    <2>2. ASSUME NEW c \in Calls, Connect(k, c) \/ KillQuery(k, c) PROVE SlotInv'
      <3>1. /\ \E kind \in {"connect", "kill"} : GetProtocol(c, DsnOf[k], kind, k, None)
            /\ \A x \in Calls : call[x].pc # "popping"
            /\ UNCHANGED <<busy, nConnecting>> /\ DsnOf[k] \in Dsns
        BY <2>2, PoolAssumption DEF Connect, KillQuery, InSync
      <3>2. QED
        BY <3>1, GetProtocolSlot
    <2>3. QED
      BY <1>3, <2>1, <2>2, ForceSlot DEF ConnNext
  <1>4. ASSUME NEW r \in Runs, TaskNext(r) PROVE SlotInv'
    <2>1. CASE TimerFires(r) \/ TaskAwaits(r) \/ TaskEnds(r) \/ \E i \in Protos : TaskRequeues(r, i)
      BY <2>1, OtherSlot DEF TimerFires, TaskAwaits, TaskEnds, TaskRequeues
    <2>2. CASE TaskBegins(r)
      <3>1. \A d \in Dsns : entryOf'[d] \in {entryOf[d], None}
        BY <2>2 DEF TaskBegins
      <3>2. UNCHANGED <<call, busy, nConnecting>>
        BY <2>2 DEF TaskBegins
      <3>3. QED
        BY <3>1, <3>2, OtherSlot
    <2>3. ASSUME NEW i \in Protos, NEW c \in Calls, TaskCares(r, i, c) PROVE SlotInv'
      <3>1. /\ GetProtocol(c, pdsn[i], "care", None, i) /\ pdsn[i] \in Dsns
            /\ \A x \in Calls : call[x].pc # "popping" /\ UNCHANGED <<busy, nConnecting>>
        BY <2>3 DEF TaskCares, WfInv, DsnKnown
      <3>2. UNCHANGED <<busy, nConnecting>>
        BY <2>3 DEF TaskCares
      <3>3. QED
        BY <3>1, <3>2, GetProtocolSlot
    <2>4. QED
      BY <1>4, <2>1, <2>2, <2>3 DEF TaskNext
  <1>5. CASE (\E e \in Entries : HealthLapses(e)) \/ UnrefLater \/ DisposeNext
    BY <1>5, OtherSlot DEF HealthLapses, UnrefLater, DisposeNext, AsyncDispose, AllEnded,
                           CloseIdle, Disposed
  <1>6. CASE UNCHANGED vars
    BY <1>6, OtherSlot DEF vars
  <1>7. QED
    BY <1>1, <1>2, <1>3, <1>4, <1>5, <1>6 DEF Next

(* The inductive invariant holds always.                                     *)
LEMMA SpecIInv == Spec => []IInv
  <1>1. Init => IInv
    BY InitWfInv, InitSlotInv DEF IInv
  <1>2. IInv /\ [Next]_vars => IInv'
    BY NextWfInv, NextSlotInv DEF IInv
  <1>3. QED
    BY <1>1, <1>2, PTL DEF Spec

(* An entry of the pool never has more than maxConns connections in use or   *)
(* being established, for every number of callers of getProtocol(), of DSNs  *)
(* and of connections, and every maxConns: the check and the increment that  *)
(* follows it later cannot be separated by another call.                     *)
THEOREM PoolSlotLimit == Spec => []SlotLimit
  BY SpecIInv, PTL DEF IInv, SlotInv

-----------------------------------------------------------------------------
(* What a MyConn holds *)

(* ConnectNeverOverwrites, and what it needs to be inductive: only a live    *)
(* MyConn is connecting.                                                     *)
ConnInv ==
    /\ ConnectNeverOverwrites
    /\ \A k \in Conns : conn[k].isConnecting => conn[k].st = "live"

\* The same of one MyConn
Holds(r) ==
    /\ r.isConnecting => r.proto = None
    /\ r.st # "live" => r.proto = None
    /\ r.isConnecting => r.st = "live"

(* ConnInv speaks of each MyConn apart from the others.                      *)
LEMMA ConnInvEach == ConnInv <=> \A k \in Conns : Holds(conn[k])
  BY DEF ConnInv, ConnectNeverOverwrites, Holds

(* The MyConns are new.                                                      *)
LEMMA InitConnInv == Init => ConnInv
  BY DEF Init, ConnInv, ConnectNeverOverwrites

(* connect(), and what it does after getProtocol(), also when end(), or      *)
(* end() and connect(), were called meanwhile.                               *)
LEMMA ConnectHolds ==
  ASSUME WfInv, ConnInv,
         \/ \E k \in Conns, c \in Calls : Connect(k, c)
         \/ \E c \in Calls : Connected(c) \/ ConnectFails(c)
  PROVE  ConnInv'
  <1> SUFFICES ASSUME NEW x \in Conns PROVE Holds(conn'[x])
    BY DEF ConnInv, ConnectNeverOverwrites, Holds
  <1>1. conn \in [Conns -> Conn] /\ Holds(conn[x])
    BY ConnInvEach DEF WfInv, TypeOK
  <1>2. ASSUME NEW k \in Conns, NEW c \in Calls, Connect(k, c) PROVE Holds(conn'[x])
    <2>1. conn[k].st = "live" /\ conn[k].proto = None
      BY <1>2 DEF Connect
    <2>2. conn' = [conn EXCEPT ![k] = [conn[k] EXCEPT !.isConnecting = TRUE]]
      BY <1>2 DEF Connect
    <2>3. CASE x = k
      <3>1. conn'[x].st = conn[x].st /\ conn'[x].proto = conn[x].proto
        BY <1>1, <2>2, <2>3 DEF Conn
      <3>2. QED
        BY <2>1, <2>3, <3>1 DEF Holds
    <2>4. CASE x # k
      BY <1>1, <2>2, <2>4
    <2>5. QED
      BY <2>3, <2>4
  <1>3. ASSUME NEW c \in Calls, Connected(c) PROVE Holds(conn'[x])
    <2> DEFINE k == call[c].conn
    <2>1. CASE UNCHANGED conn
      BY <1>1, <2>1
    <2>2. CASE conn[k].isConnecting
               /\ conn' = [conn EXCEPT ![k].proto = call[c].proto, ![k].isConnecting = FALSE]
      <3>1. CASE x = k
        <4>1. conn'[x].st = conn[x].st /\ ~conn'[x].isConnecting
          BY <1>1, <2>2, <3>1 DEF Conn
        <4>2. conn[x].st = "live"
          BY <1>1, <2>2, <3>1 DEF Holds
        <4>3. QED
          BY <4>1, <4>2 DEF Holds
      <3>2. CASE x # k
        BY <1>1, <2>2, <3>2
      <3>3. QED
        BY <3>1, <3>2
    <2>3. QED
      BY <1>3, <2>1, <2>2 DEF Connected
  <1>4. ASSUME NEW c \in Calls, ConnectFails(c) PROVE Holds(conn'[x])
    <2>1. /\ conn'[x].st = conn[x].st /\ conn'[x].proto = conn[x].proto
          /\ conn'[x].isConnecting => conn[x].isConnecting
      BY <1>1, <1>4 DEF ConnectFails, Conn
    <2>2. QED
      BY <1>1, <2>1 DEF Holds
  <1>5. QED
    BY <1>2, <1>3, <1>4

(* new MyConn, and what ends its use of a connection.                        *)
LEMMA EndHolds ==
  ASSUME WfInv, ConnInv, NEW k \in Conns,
         \/ Create(k) \/ End(k) \/ Dispose(k)
         \/ \E care \in BOOLEAN : ForceImmediateDisconnect(k, care)
  PROVE  ConnInv'
  <1> SUFFICES ASSUME NEW x \in Conns PROVE Holds(conn'[x])
    BY DEF ConnInv, ConnectNeverOverwrites, Holds
  <1>1. conn \in [Conns -> Conn] /\ Holds(conn[x])
    BY ConnInvEach DEF WfInv, TypeOK
  <1>2. CASE Create(k)
    <2>1. /\ conn'[x].proto = conn[x].proto /\ conn'[x].isConnecting = conn[x].isConnecting
          /\ conn'[x].st = IF x = k THEN "live" ELSE conn[x].st
      BY <1>1, <1>2 DEF Create, Conn
    <2>2. QED
      BY <1>1, <2>1 DEF Holds
  <1>3. ASSUME NEW st, ConnEnded(k, st) PROVE Holds(conn'[x])
    BY <1>1, <1>3 DEF ConnEnded, Holds
  <1>4. QED
    BY <1>2, <1>3 DEF End, Dispose, ForceImmediateDisconnect

(* Nothing else looks at the MyConns.                                        *)
LEMMA NextConnInv == WfInv /\ ConnInv /\ [Next]_vars => ConnInv'
  <1> SUFFICES ASSUME WfInv, ConnInv, [Next]_vars PROVE ConnInv'
    OBVIOUS
  <1>1. CASE UNCHANGED conn
    BY <1>1 DEF ConnInv, ConnectNeverOverwrites
  <1>2. ASSUME NEW c \in Calls, CallNext(c) PROVE ConnInv'
    <2>1. CASE Connected(c) \/ ConnectFails(c)
      BY <2>1, ConnectHolds
    <2>2. CASE ~(Connected(c) \/ ConnectFails(c))
      BY <1>1, <1>2, <2>2
      DEF CallNext, WaitTimesOut, WaitEnds, PopIdle, PopNothing, ClearDisconnected, NewConnOk,
          NewConnFails, KillSend, KillSent, KillFails, CareDelivered, CareFails
    <2>3. QED
      BY <2>1, <2>2
  <1>3. ASSUME NEW p \in Protos, ProtoNext(p) PROVE ConnInv'
    BY <1>1, <1>3 DEF ProtoNext, ReturnCompletes, CloseCompletes, Expire
  <1>4. ASSUME NEW k \in Conns, ConnNext(k) PROVE ConnInv'
    <2>1. ASSUME NEW c \in Calls, KillQuery(k, c) PROVE ConnInv'
      BY <1>1, <2>1 DEF KillQuery
    <2>2. QED
      BY <1>4, <2>1, ConnectHolds, EndHolds DEF ConnNext
  <1>5. ASSUME NEW r \in Runs, TaskNext(r) PROVE ConnInv'
    BY <1>1, <1>5 DEF TaskNext, TimerFires, TaskBegins, TaskAwaits, TaskEnds, TaskRequeues,
                      TaskCares
  <1>6. CASE (\E e \in Entries : HealthLapses(e)) \/ UnrefLater \/ DisposeNext
    BY <1>1, <1>6 DEF HealthLapses, UnrefLater, DisposeNext, AsyncDispose, AllEnded, CloseIdle,
                      Disposed
  <1>7. QED
    BY <1>1, <1>2, <1>3, <1>4, <1>5, <1>6 DEF Next, vars

(* A MyConn that is connecting holds no connection, so that the one which    *)
(* connect() gets from the pool never replaces, and leaks, another one, and  *)
(* a disposed MyConn never gets one: for any number of MyConns and of        *)
(* overlapping calls of connect(), end(), [Symbol.dispose]() and             *)
(* forceImmediateDisconnect(), although connect() looks at #isConnecting     *)
(* before an await and uses what it means after it (my_conn.ts:175-195).     *)
THEOREM PoolConnectNeverOverwrites == Spec => []ConnectNeverOverwrites
  <1>1. Init => ConnInv
    BY InitConnInv
  <1>2. WfInv /\ ConnInv /\ [Next]_vars => ConnInv'
    BY NextConnInv
  <1>3. ConnInv => ConnectNeverOverwrites
    BY DEF ConnInv
  <1>4. QED
    BY <1>1, <1>2, <1>3, SpecWfInv, PTL DEF Spec

=============================================================================

---------------------------- MODULE PoolUseProofs ----------------------------
(***************************************************************************)
(* Who has the connections of a pool: that a connection has one user, that *)
(* none is leaked, that the counters of the pool are exact, and that its   *)
(* periodic task is scheduled, for any number of MyConns, DSNs,            *)
(* connections and concurrent calls.                                       *)
(*                                                                         *)
(* #commonTask can delete an entry while calls wait for a slot of it, and  *)
(* then none of this is true.  It is true of all behaviours in which this  *)
(* does not happen, and, if no queue of waiting calls is allowed, of all.  *)
(***************************************************************************)
EXTENDS PoolProofs, FunctionTheorems

USE DEF entryVars, countVars, protoVars, taskVars

\* A step that deletes no entry that a call waits for, or goes on to
NoneStranded ==
    \A d \in Dsns : entryOf[d] # None /\ entryOf'[d] = None =>
        \A c \in Calls : call[c].pc \in {"waiting", "woken", "late"} => call[c].entry # entryOf[d]

-----------------------------------------------------------------------------
(* Calls and the entries of the pool.  A call that has or waits for a slot   *)
(* has it in the entry that is mapped from its Dsn; and #commonTask does not *)
(* look at the entries while a call is between its check and its slot.       *)

Slotted == {"waiting", "woken", "late", "popping", "connecting"}

Attached ==
    \A c \in Calls : call[c].pc \in Slotted => entryOf[call[c].dsn] = call[c].entry

OneLoop ==
    /\ \A r, s \in Runs : run[r].st \in {"start", "loop"} /\ run[s].st \in {"start", "loop"} => r = s
    /\ \A c \in Calls, r \in Runs : call[c].pc = "popping" => run[r].st # "start"

PlaceInv == Attached /\ OneLoop

\* The record of a call after a step that takes and asks for no slot
Places(r, s) == s.pc \in Slotted => r.pc \in Slotted /\ s.dsn = r.dsn /\ s.entry = r.entry
NotPopped(r, s) == s.pc = "popping" => r.pc = "popping"

\* It is woken by somebody else
Woken(r, s) == r.pc = "waiting" /\ s = [r EXCEPT !.pc = "woken"]

(* A call that waits loses nothing when it is woken.                         *)
LEMMA WokenFacts ==
  ASSUME NEW r \in Call, NEW s, Woken(r, s)
  PROVE  /\ s.pc = "woken" /\ s.dsn = r.dsn /\ s.entry = r.entry /\ s.proto = r.proto
         /\ s.kind = r.kind /\ s.conn = r.conn /\ s.held = r.held /\ s.info = r.info
  BY DEF Call, Woken

(* What #decNBusyAll() does to the calls: each is as the caller left it, or  *)
(* waited, and is woken.                                                     *)
LEMMA DecWakes ==
  ASSUME WfInv, NEW d, NEW e \in Entries, NEW calls \in [Calls -> Call], NEW idleAll, NEW care,
         NEW tm, DecNBusyAll(d, e, calls, idleAll, care, tm), NEW x \in Calls,
         calls[x] = call[x] \/ call[x].pc # "waiting"
  PROVE  call'[x] = calls[x] \/ (calls[x] = call[x] /\ Woken(call[x], call'[x]))
  <1>1. call'[x] = calls[x] \/ (x \in cb[e] /\ call'[x] = [calls[x] EXCEPT !.pc = "woken"])
    BY DEF DecNBusyAll
  <1>2. x \in cb[e] => call[x].pc = "waiting"
    BY DEF WfInv, CbWaits
  <1>3. QED
    BY <1>1, <1>2 DEF Woken

(* A step that takes no slot and starts no loop keeps PlaceInv.              *)
LEMMA PlaceKept ==
  ASSUME WfInv, PlaceInv,
         \A c \in Calls : Places(call[c], call'[c]) /\ NotPopped(call[c], call'[c]),
         \A c \in Calls : call[c].pc \in Slotted => entryOf'[call[c].dsn] = entryOf[call[c].dsn],
         \A r \in Runs : /\ run'[r].st = "start" => run[r].st = "start"
                         /\ run'[r].st = "loop" => run[r].st \in {"start", "loop"}
  PROVE  PlaceInv'
  <1>1. Attached'
    BY DEF PlaceInv, Attached, Places
  <1>2. OneLoop'
    <2>1. \A r \in Runs : run'[r].st \in {"start", "loop"} => run[r].st \in {"start", "loop"}
      OBVIOUS
    <2>2. \A c \in Calls : call'[c].pc = "popping" => call[c].pc = "popping"
      BY DEF NotPopped
    <2>3. QED
      BY <2>1, <2>2 DEF PlaceInv, OneLoop
  <1>3. QED
    BY <1>1, <1>2 DEF PlaceInv

(* ... of one call only *)
LEMMA PlaceOneCall ==
  ASSUME WfInv, PlaceInv, NEW c \in Calls, NEW r,
         call' = [call EXCEPT ![c] = r], Places(call[c], r), NotPopped(call[c], r),
         UNCHANGED entryOf, \A s \in Runs : run'[s].st = run[s].st
  PROVE  PlaceInv'
  <1>1. \A x \in Calls : call'[x] = IF x = c THEN r ELSE call[x]
    BY DEF WfInv, TypeOK
  <1>2. \A x \in Calls : Places(call[x], call'[x]) /\ NotPopped(call[x], call'[x])
    BY <1>1 DEF Places, NotPopped
  <1>3. QED
    BY <1>2, PlaceKept

(* The steps of a call that has what it needs, or gives up, keep PlaceInv.   *)
LEMMA CallPlace ==
  ASSUME WfInv, PlaceInv, NEW c \in Calls,
         \/ \E late \in BOOLEAN : WaitTimesOut(c, late)
         \/ \E p \in Protos : PopIdle(c, p)
         \/ PopNothing(c) \/ ClearDisconnected(c) \/ NewConnOk(c)
         \/ Connected(c) \/ ConnectFails(c)
         \/ KillSend(c) \/ KillSent(c) \/ KillFails(c) \/ CareDelivered(c) \/ CareFails(c)
  PROVE  PlaceInv'
  <1>1. call \in [Calls -> Call] /\ call[c] \in Call
    BY DEF WfInv, TypeOK
  <1>2. ASSUME UNCHANGED <<entryOf, run>>,
               \E r : call' = [call EXCEPT ![c] = r] /\ Places(call[c], r) /\ NotPopped(call[c], r)
        PROVE  PlaceInv'
    BY <1>2, PlaceOneCall
  <1>3. ASSUME NEW late \in BOOLEAN, WaitTimesOut(c, late) PROVE PlaceInv'
    <2> DEFINE pc == IF late THEN "late" ELSE "woken"
               r == [call[c] EXCEPT !.pc = pc]
    <2>1. r.pc \in {"late", "woken"} /\ r.dsn = call[c].dsn /\ r.entry = call[c].entry
      BY <1>1 DEF Call
    <2>2. /\ call' = [call EXCEPT ![c] = r] /\ call[c].pc = "waiting"
          /\ UNCHANGED <<entryOf, run>>
      BY <1>3 DEF WaitTimesOut
    <2> HIDE DEF r
    <2>3. QED
      BY <1>2, <2>1, <2>2 DEF Places, NotPopped, Slotted
  <1>4. ASSUME NEW p \in Protos, PopIdle(c, p) PROVE PlaceInv'
    <2> DEFINE r == [call[c] EXCEPT !.pc = "delivered", !.proto = p]
    <2>1. r.pc = "delivered"
      BY <1>1 DEF Call
    <2>2. UNCHANGED <<entryOf, run>> /\ (UNCHANGED call \/ call' = [call EXCEPT ![c] = r])
      BY <1>4 DEF PopIdle
    <2> HIDE DEF r
    <2>3. CASE UNCHANGED call
      BY <2>2, <2>3, PlaceKept DEF Places, NotPopped
    <2>4. QED
      BY <1>2, <2>1, <2>2, <2>3 DEF Places, NotPopped, Slotted
  <1>5. CASE PopNothing(c)
    <2> DEFINE r == [call[c] EXCEPT !.pc = "connecting"]
    <2>1. r.pc = "connecting" /\ r.dsn = call[c].dsn /\ r.entry = call[c].entry
      BY <1>1 DEF Call
    <2>2. /\ call' = [call EXCEPT ![c] = r] /\ call[c].pc = "popping"
          /\ UNCHANGED <<entryOf, run>>
      BY <1>5 DEF PopNothing
    <2> HIDE DEF r
    <2>3. QED
      BY <1>2, <2>1, <2>2 DEF Places, NotPopped, Slotted
  <1>6. CASE ClearDisconnected(c)
    <2>1. PICK i : call' = [call EXCEPT ![c] = [call[c] EXCEPT !.held = @ \cup {i}]]
      BY <1>6 DEF ClearDisconnected
    <2> DEFINE r == [call[c] EXCEPT !.held = @ \cup {i}]
    <2>2. r.pc = call[c].pc /\ r.dsn = call[c].dsn /\ r.entry = call[c].entry
      BY <1>1 DEF Call
    <2>3. call' = [call EXCEPT ![c] = r] /\ UNCHANGED <<entryOf, run>>
      BY <1>6, <2>1 DEF ClearDisconnected
    <2> HIDE DEF r
    <2>4. QED
      BY <1>2, <2>2, <2>3 DEF Places, NotPopped
  <1>7. CASE NewConnOk(c)
    <2>1. PICK p \in FreeProtos :
              call' = [call EXCEPT ![c].pc = "delivered", ![c].proto = p, ![c].held = {}]
      BY <1>7 DEF NewConnOk
    <2> DEFINE r == [call[c] EXCEPT !.pc = "delivered", !.proto = p, !.held = {}]
    <2>2. r.pc = "delivered"
      BY <1>1 DEF Call
    <2>3. call' = [call EXCEPT ![c] = r] /\ UNCHANGED <<entryOf, run>>
      BY <1>7, <2>1 DEF NewConnOk
    <2> HIDE DEF r
    <2>4. QED
      BY <1>2, <2>2, <2>3 DEF Places, NotPopped, Slotted
  <1>8. CASE KillSend(c)
    <2> DEFINE r == [call[c] EXCEPT !.pc = "killing"]
    <2>1. r.pc = "killing"
      BY <1>1 DEF Call
    <2>2. call' = [call EXCEPT ![c] = r] /\ UNCHANGED <<entryOf, run>>
      BY <1>8 DEF KillSend
    <2> HIDE DEF r
    <2>3. QED
      BY <1>2, <2>1, <2>2 DEF Places, NotPopped, Slotted
  <1>9. CASE CareDelivered(c)
    <2> DEFINE r == [call[c] EXCEPT !.pc = "returning", !.info = None]
    <2>1. r.pc = "returning"
      BY <1>1 DEF Call
    <2>2. call' = [call EXCEPT ![c] = r] /\ UNCHANGED <<entryOf, run>>
      BY <1>9 DEF CareDelivered
    <2> HIDE DEF r
    <2>3. QED
      BY <1>2, <2>1, <2>2 DEF Places, NotPopped, Slotted
  <1>10. CASE Connected(c) \/ ConnectFails(c) \/ KillSent(c) \/ KillFails(c) \/ CareFails(c)
    <2>1. call' = [call EXCEPT ![c] = FreeCall] /\ UNCHANGED entryOf
      BY <1>10 DEF Connected, ConnectFails, KillSent, KillFails, CareFails
    <2>2. \A s \in Runs : run'[s].st = run[s].st
      <3>1. CASE UNCHANGED run
        BY <3>1
      <3>2. CASE run' = [s \in Runs |-> [run[s] EXCEPT !.calls = @ \ {c}]]
        BY <3>2 DEF WfInv, TypeOK, Run
      <3>3. QED
        BY <1>10, <3>1, <3>2 DEF Connected, ConnectFails, KillSent, KillFails, CareFails
    <2>3. Places(call[c], FreeCall) /\ NotPopped(call[c], FreeCall)
      BY DEF Places, NotPopped, Slotted, FreeCall
    <2>4. QED
      BY <2>1, <2>2, <2>3, PlaceOneCall
  <1>11. QED
    BY <1>3, <1>4, <1>5, <1>6, <1>7, <1>8, <1>9, <1>10

(* Somebody who gives a connection up wakes calls, and keeps PlaceInv.       *)
LEMMA WakePlace ==
  ASSUME WfInv, PlaceInv, UNCHANGED entryOf, \A r \in Runs : run'[r].st = run[r].st,
         NEW calls, \A x \in Calls : Places(call[x], calls[x]) /\ NotPopped(call[x], calls[x]),
         \A x \in Calls : call'[x] = calls[x] \/ Woken(call[x], call'[x])
  PROVE  PlaceInv'
  <1>1. \A x \in Calls : Woken(call[x], call'[x])
                            => Places(call[x], call'[x]) /\ NotPopped(call[x], call'[x])
    <2>1. \A x \in Calls : call[x] \in Call
      BY DEF WfInv, TypeOK
    <2>2. QED
      BY <2>1, WokenFacts DEF Places, NotPopped, Slotted, Woken
  <1>2. QED
    BY <1>1, PlaceKept

(* A call that passes the check, waits or gives up keeps PlaceInv.           *)
LEMMA PlaceCheck ==
  ASSUME WfInv, PlaceInv, NEW c \in Calls, NEW r, call' = [call EXCEPT ![c] = r],
         r.pc \in Slotted => entryOf'[r.dsn] = r.entry,
         r.pc = "popping" => \A s \in Runs : run[s].st # "start",
         \A x \in Calls \ {c} : call[x].pc \in Slotted => entryOf'[call[x].dsn] = entryOf[call[x].dsn],
         \A s \in Runs : run'[s].st = run[s].st
  PROVE  PlaceInv'
  <1>1. \A x \in Calls : call'[x] = IF x = c THEN r ELSE call[x]
    BY DEF WfInv, TypeOK
  <1>2. Attached'
    BY <1>1 DEF PlaceInv, Attached
  <1>3. OneLoop'
    <2>1. \A x \in Calls, s \in Runs : call'[x].pc = "popping" => run'[s].st # "start"
      BY <1>1 DEF PlaceInv, OneLoop
    <2>2. QED
      BY <2>1 DEF PlaceInv, OneLoop
  <1>4. QED
    BY <1>2, <1>3 DEF PlaceInv

(* A woken call goes on with the entry that it waited for.                   *)
LEMMA WaitEndsPlace ==
  ASSUME WfInv, PlaceInv, NEW c \in Calls, WaitEnds(c)
  PROVE  PlaceInv'
  <1>1. /\ call[c].pc \in {"woken", "late"} /\ UNCHANGED <<entryOf, run>>
        /\ WaitForSlot(c, call[c], call[c].pc = "late")
        /\ \A s \in Runs : run[s].st # "start"
    BY DEF WaitEnds, Microtask, InSync
  <1>2. PICK pc \in {"popping", "failed", "waiting"} :
            call' = [call EXCEPT ![c] = [call[c] EXCEPT !.pc = pc]]
    BY <1>1 DEF WaitForSlot
  <1> DEFINE r == [call[c] EXCEPT !.pc = pc]
  <1>3. r.pc = pc /\ r.entry = call[c].entry /\ r.dsn = call[c].dsn
    BY <1>1, CallFacts DEF Call
  <1>4. call' = [call EXCEPT ![c] = r]
    BY <1>2
  <1> HIDE DEF r
  <1>5. entryOf[call[c].dsn] = call[c].entry
    BY <1>1 DEF PlaceInv, Attached, Slotted
  <1>6. QED
    BY <1>1, <1>3, <1>4, <1>5, PlaceCheck

(* What getProtocol() makes of a call, and of the entries                    *)
LEMMA GetProtocolEntry ==
  ASSUME WfInv, NEW c \in Calls, NEW d \in Dsns, NEW kind \in {"connect", "kill", "care"},
         NEW k \in Conns \cup {None}, NEW info \in Protos \cup {None},
         GetProtocol(c, d, kind, k, info)
  PROVE  \E r \in Call :
            /\ call' = [call EXCEPT ![c] = r]
            /\ r.pc \in {"popping", "failed", "waiting"} /\ r.kind = kind /\ r.conn = k
            /\ r.dsn = d /\ r.proto = None /\ r.held = {} /\ r.info = info
            /\ entryOf'[d] = r.entry /\ r.entry \in Entries
            /\ \A x \in Dsns \ {d} : entryOf'[x] = entryOf[x]
            /\ entryOf'[d] = entryOf[d] \/ (entryOf[d] = None /\ entryOf'[d] \in FreeEntries)
  <1> DEFINE rec(pc, e) == [pc |-> pc, kind |-> kind, conn |-> k, info |-> info,
                            dsn |-> d, entry |-> e, proto |-> None, held |-> {}]
  <1>1. \A e \in Entries, pc \in {"popping", "failed", "waiting"} :
            /\ rec(pc, e) \in Call /\ rec(pc, e).pc = pc /\ rec(pc, e).kind = kind
            /\ rec(pc, e).conn = k /\ rec(pc, e).dsn = d /\ rec(pc, e).proto = None
            /\ rec(pc, e).held = {} /\ rec(pc, e).info = info /\ rec(pc, e).entry = e
    BY DEF Call
  <1>2. CASE entryOf[d] # None
    <2>1. /\ entryOf[d] \in Entries /\ UNCHANGED entryOf
          /\ WaitForSlot(c, rec("free", entryOf[d]), FALSE)
      BY <1>2 DEF GetProtocol, WfInv, TypeOK
    <2>2. PICK pc \in {"popping", "failed", "waiting"} :
              call' = [call EXCEPT ![c] = [rec("free", entryOf[d]) EXCEPT !.pc = pc]]
      BY <2>1 DEF WaitForSlot
    <2>3. [rec("free", entryOf[d]) EXCEPT !.pc = pc] = rec(pc, entryOf[d])
      OBVIOUS
    <2> HIDE DEF rec
    <2>4. call' = [call EXCEPT ![c] = rec(pc, entryOf[d])]
      BY <2>2, <2>3
    <2>5. QED
      BY <1>1, <2>1, <2>4
  <1>3. CASE entryOf[d] = None
    <2>1. PICK e \in FreeEntries : /\ entryOf' = [entryOf EXCEPT ![d] = e]
                                   /\ call' = [call EXCEPT ![c] = rec("popping", e)]
      BY <1>3 DEF GetProtocol
    <2>2. e \in Entries
      BY DEF FreeEntries
    <2>3. entryOf'[d] = e /\ \A x \in Dsns \ {d} : entryOf'[x] = entryOf[x]
      BY <2>1 DEF WfInv, TypeOK
    <2> HIDE DEF rec
    <2> DEFINE r == rec("popping", e)
    <2>4. /\ r \in Call /\ r.pc = "popping" /\ r.kind = kind /\ r.conn = k /\ r.dsn = d
          /\ r.proto = None /\ r.held = {} /\ r.info = info /\ r.entry = e
      BY <1>1, <2>2
    <2>5. call' = [call EXCEPT ![c] = r]
      BY <2>1
    <2> HIDE DEF r
    <2>6. QED
      BY <1>3, <2>2, <2>3, <2>4, <2>5
  <1>4. QED
    BY <1>2, <1>3

(* getProtocol() is never called when #commonTask is about to look at the    *)
(* entries.                                                                  *)
LEMMA GetProtocolPlace ==
  ASSUME WfInv, PlaceInv, NEW c \in Calls, NEW d \in Dsns, NEW kind \in {"connect", "kill", "care"},
         NEW k \in Conns \cup {None}, NEW info \in Protos \cup {None},
         GetProtocol(c, d, kind, k, info),
         \A s \in Runs : run[s].st # "start", \A s \in Runs : run'[s].st = run[s].st
  PROVE  PlaceInv'
  <1>1. PICK r \in Call :
            /\ call' = [call EXCEPT ![c] = r] /\ r.dsn = d /\ entryOf'[d] = r.entry
            /\ \A x \in Dsns \ {d} : entryOf'[x] = entryOf[x]
            /\ entryOf'[d] = entryOf[d] \/ (entryOf[d] = None /\ entryOf'[d] \in FreeEntries)
    BY GetProtocolEntry
  <1>2. ASSUME NEW x \in Calls \ {c}, call[x].pc \in Slotted
        PROVE  entryOf'[call[x].dsn] = entryOf[call[x].dsn]
    <2>1. call[x].dsn \in Dsns /\ call[x].entry \in Entries
      BY <1>2, CallFacts DEF Slotted
    <2>2. entryOf[call[x].dsn] # None
      BY <1>2, <2>1, PoolAssumption DEF PlaceInv, Attached
    <2>3. QED
      BY <1>1, <2>1, <2>2
  <1>3. QED
    BY <1>1, <1>2, PlaceCheck

(* #doReturnProtocol() finds a slot for those that wait, and keeps PlaceInv. *)
LEMMA DoReturnPlace ==
  ASSUME WfInv, PlaceInv, UNCHANGED entryOf, \A r \in Runs : run'[r].st = run[r].st,
         NEW p \in Protos, pdsn[p] \in Dsns, NEW forReuse \in BOOLEAN,
         NEW calls \in [Calls -> Call], NEW care, NEW tm,
         DoReturnProtocol(p, forReuse, calls, care, tm),
         \A x \in Calls : calls[x] = call[x] \/ (call[x].pc = "returning" /\ calls[x] = FreeCall)
  PROVE  PlaceInv'
  <1>1. \A x \in Calls : Places(call[x], calls[x]) /\ NotPopped(call[x], calls[x])
    BY DEF Places, NotPopped, FreeCall, Slotted
  <1>2. ASSUME NEW x \in Calls PROVE call'[x] = calls[x] \/ Woken(call[x], call'[x])
    <2>1. CASE call' = calls
      BY <2>1
    <2>2. ASSUME NEW place \in BusyPlaces(p),
                 DecNBusyAll(pdsn[p], place[1], calls, nIdleAll', care, tm)
          PROVE  call'[x] = calls[x] \/ Woken(call[x], call'[x])
      <3>1. place[1] \in Entries
        BY BusyPlacesType
      <3>2. calls[x] = call[x] \/ call[x].pc # "waiting"
        OBVIOUS
      <3>3. QED
        BY <2>2, <3>1, <3>2, DecWakes
    <2>3. QED
      BY <2>1, <2>2 DEF DoReturnProtocol
  <1>3. QED
    BY <1>1, <1>2, WakePlace

(* A failed attempt, and a connection that comes back or is closed, keep     *)
(* PlaceInv.                                                                 *)
LEMMA NewConnFailsPlace ==
  ASSUME WfInv, PlaceInv, NEW c \in Calls, NewConnFails(c)
  PROVE  PlaceInv'
  <1> DEFINE calls == [call EXCEPT ![c].pc = "failed", ![c].held = {}]
             r == [call[c] EXCEPT !.pc = "failed", !.held = {}]
  <1>1. /\ call[c].pc = "connecting" /\ UNCHANGED <<entryOf, run>>
        /\ DecNBusyAll(call[c].dsn, call[c].entry, calls, nIdleAll, takeCare', timer)
    BY DEF NewConnFails
  <1>2. r \in Call /\ r.pc = "failed"
    BY <1>1, CallFacts DEF Call
  <1>3. calls = [call EXCEPT ![c] = r]
    OBVIOUS
  <1> HIDE DEF r
  <1>4. calls \in [Calls -> Call] /\ \A x \in Calls : calls[x] = IF x = c THEN r ELSE call[x]
    BY <1>1, <1>2, <1>3, CallFacts
  <1> HIDE DEF calls
  <1>5. call[c].entry \in Entries
    BY <1>1, CallFacts
  <1>6. ASSUME NEW x \in Calls PROVE call'[x] = calls[x] \/ Woken(call[x], call'[x])
    <2>1. calls[x] = call[x] \/ call[x].pc # "waiting"
      BY <1>1, <1>4
    <2>2. QED
      BY <1>1, <1>4, <1>5, <2>1, DecWakes
  <1>7. \A x \in Calls : Places(call[x], calls[x]) /\ NotPopped(call[x], calls[x])
    BY <1>2, <1>4 DEF Places, NotPopped, Slotted
  <1>8. QED
    BY <1>1, <1>6, <1>7, WakePlace

LEMMA ReturnCompletesPlace ==
  ASSUME WfInv, PlaceInv, NEW p \in Protos, ReturnCompletes(p)
  PROVE  PlaceInv'
  <1> DEFINE calls == [c \in Calls |-> IF call[c].pc = "returning" /\ call[c].proto = p
                                       THEN FreeCall ELSE call[c]]
  <1>1. PICK forReuse \in BOOLEAN : DoReturnProtocol(p, forReuse, calls, takeCare, timer)
    BY DEF ReturnCompletes
  <1>2. pdsn[p] \in Dsns /\ UNCHANGED entryOf
    BY DEF ReturnCompletes, WfInv, DsnKnown
  <1>3. calls \in [Calls -> Call]
    BY FreeCallType DEF WfInv, TypeOK
  <1>4. \A x \in Calls : calls[x] = call[x] \/ (call[x].pc = "returning" /\ calls[x] = FreeCall)
    OBVIOUS
  <1> HIDE DEF calls
  <1>5. \A r \in Runs : run'[r].st = run[r].st
    <2>1. run' = [r \in Runs |-> [run[r] EXCEPT !.calls = {c \in @ : call'[c].pc # "free"}]]
      BY DEF ReturnCompletes
    <2>2. QED
      BY <2>1 DEF WfInv, TypeOK, Run
  <1>6. QED
    BY <1>1, <1>2, <1>3, <1>4, <1>5, DoReturnPlace

LEMMA CloseCompletesPlace ==
  ASSUME WfInv, PlaceInv, NEW p \in Protos, CloseCompletes(p)
  PROVE  PlaceInv'
  <1>1. /\ closing[p] \in Entries /\ UNCHANGED entryOf
        /\ DecNBusyAll(pdsn[p], closing[p], call, nIdleAll, takeCare, timer)
        /\ run' = [r \in Runs |-> [run[r] EXCEPT !.protos = @ \ {p}]]
    BY DEF CloseCompletes, WfInv, TypeOK
  <1>2. call \in [Calls -> Call]
    BY DEF WfInv, TypeOK
  <1>3. \A x \in Calls : call'[x] = call[x] \/ Woken(call[x], call'[x])
    BY <1>1, <1>2, DecWakes
  <1>4. \A r \in Runs : run'[r].st = run[r].st
    BY <1>1 DEF WfInv, TypeOK, Run
  <1>5. QED
    BY <1>1, <1>3, <1>4, WakePlace DEF Places, NotPopped

LEMMA ForcePlace ==
  ASSUME WfInv, PlaceInv, NEW k \in Conns, NEW care \in BOOLEAN,
         ForceImmediateDisconnect(k, care)
  PROVE  PlaceInv'
  <1> DEFINE p == conn[k].proto
             tm == IF care THEN StartedState(timer, TRUE) ELSE timer
  <1>1. /\ p # None /\ DoReturnProtocol(p, FALSE, call, takeCare', tm)
        /\ UNCHANGED <<entryOf, run>>
    BY DEF ForceImmediateDisconnect
  <1>2. p \in Protos /\ pdsn[p] \in Dsns /\ call \in [Calls -> Call]
    BY <1>1 DEF WfInv, TypeOK, Conn, DsnKnown
  <1> HIDE DEF p, tm
  <1>3. QED
    BY <1>1, <1>2, DoReturnPlace

(* An activation of #commonTask begins, or goes on, when no loop is in       *)
(* progress.                                                                 *)
LEMMA RunPlace ==
  ASSUME WfInv, PlaceInv, UNCHANGED <<call, entryOf>>, NEW r \in Runs, NEW x,
         run' = [run EXCEPT ![r] = x],
         x.st \in {"start", "loop"} => ~InSync
  PROVE  PlaceInv'
  <1>1. \A s \in Runs : run'[s] = IF s = r THEN x ELSE run[s]
    BY DEF WfInv, TypeOK
  <1>2. Attached'
    BY DEF PlaceInv, Attached
  <1>3. OneLoop'
    BY <1>1 DEF PlaceInv, OneLoop, InSync
  <1>4. QED
    BY <1>2, <1>3 DEF PlaceInv

LEMMA TaskSwitchPlace ==
  ASSUME WfInv, PlaceInv, NEW r \in Runs,
         TimerFires(r) \/ TaskAwaits(r) \/ TaskEnds(r) \/ CloseIdle \/ Disposed
  PROVE  PlaceInv'
  <1>1. run \in [Runs -> Run] /\ Final \in Runs
    BY DEF WfInv, TypeOK, Runs
  <1>2. UNCHANGED <<call, entryOf>>
    BY DEF TimerFires, TaskAwaits, TaskEnds, CloseIdle, Disposed
  <1>3. CASE TimerFires(r)
    <2>1. ~InSync /\ run' = [run EXCEPT ![r] = [run[r] EXCEPT !.st = "start"]]
      BY <1>3 DEF TimerFires, Macrotask
    <2>2. QED
      BY <1>2, <2>1, RunPlace
  <1>4. CASE TaskAwaits(r)
    <2> DEFINE x == [run[r] EXCEPT !.st = "await"]
    <2>1. run' = [run EXCEPT ![r] = x] /\ x.st = "await"
      BY <1>1, <1>4 DEF TaskAwaits, Run
    <2> HIDE DEF x
    <2>2. QED
      BY <1>2, <2>1, RunPlace
  <1>5. CASE TaskEnds(r)
    <2>1. ~InSync /\ \E x : run' = [run EXCEPT ![r] = x]
      BY <1>5 DEF TaskEnds, Microtask
    <2>2. QED
      BY <1>2, <2>1, RunPlace
  <1>6. CASE CloseIdle
    <2>1. ~InSync /\ run' = [run EXCEPT ![Final] = [run[Final] EXCEPT !.st = "start"]]
      BY <1>6 DEF CloseIdle, Microtask
    <2>2. QED
      BY <1>1, <1>2, <2>1, RunPlace
  <1>7. CASE Disposed
    <2>1. ~InSync /\ run' = [run EXCEPT ![Final] = NoRun]
      BY <1>7 DEF Disposed, Microtask
    <2>2. QED
      BY <1>1, <1>2, <2>1, RunPlace
  <1>8. QED
    BY <1>3, <1>4, <1>5, <1>6, <1>7

(* #commonTask deletes an entry that nobody uses.  A call that connects for  *)
(* it is counted in nConnecting, and one that pops cannot be there.          *)
LEMMA TaskBeginsPlace ==
  ASSUME WfInv, SlotInv, PlaceInv, NEW r \in Runs, TaskBegins(r), NoneStranded
  PROVE  PlaceInv'
  <1>1. /\ UNCHANGED <<call, busy, nConnecting>> /\ run[r].st = "start"
        /\ \A d \in Dsns : \/ entryOf'[d] = entryOf[d]
                           \/ entryOf'[d] = None /\ entryOf[d] # None /\ nConnecting[entryOf[d]] = 0
    BY DEF TaskBegins, Removable
  <1>2. \A s \in Runs : run'[s].st = IF s = r THEN "loop" ELSE run[s].st
    BY DEF TaskBegins, WfInv, TypeOK
  <1>3. ASSUME NEW c \in Calls, call[c].pc \in Slotted
        PROVE  entryOf'[call[c].dsn] = entryOf[call[c].dsn]
    <2>1. call[c].dsn \in Dsns /\ call[c].entry \in Entries /\ entryOf[call[c].dsn] = call[c].entry
      BY <1>3, CallFacts DEF Slotted, PlaceInv, Attached
    <2>2. call[c].pc # "popping"
      BY <1>1 DEF PlaceInv, OneLoop
    <2>3. CASE call[c].pc = "connecting"
      <3>1. c \in Connecting(call[c].entry)
        BY <2>3 DEF Connecting
      <3>2. Cardinality(Connecting(call[c].entry)) # 0
        BY <3>1, ConnectingFinite, FS_EmptySet
      <3>3. nConnecting[call[c].entry] # 0
        BY <2>1, <3>2 DEF SlotInv, ConnectingExact
      <3>4. QED
        BY <1>1, <2>1, <3>3
    <2>4. CASE call[c].pc \in {"waiting", "woken", "late"}
      <3>1. entryOf[call[c].dsn] # None
        BY <2>1, PoolAssumption
      <3>2. entryOf'[call[c].dsn] # None
        BY <2>1, <2>4, <3>1 DEF NoneStranded
      <3>3. QED
        BY <1>1, <2>1, <3>2
    <2>5. QED
      BY <1>3, <2>2, <2>3, <2>4 DEF Slotted
  <1>4. \A s \in Runs : /\ run'[s].st = "start" => run[s].st = "start"
                        /\ run'[s].st = "loop" => run[s].st \in {"start", "loop"}
    BY <1>1, <1>2
  <1>5. \A c \in Calls : Places(call[c], call'[c]) /\ NotPopped(call[c], call'[c])
    BY <1>1 DEF Places, NotPopped
  <1>6. QED
    BY <1>3, <1>4, <1>5, PlaceKept

(* Steps that do not concern the calls, the entries and the loops            *)
LEMMA PlaceFrame ==
  ASSUME WfInv, PlaceInv, UNCHANGED <<call, entryOf>>, \A r \in Runs : run'[r].st = run[r].st
  PROVE  PlaceInv'
  BY PlaceKept DEF Places, NotPopped

(* Every step that strands no call keeps PlaceInv.                           *)
LEMMA NextPlaceInv ==
  ASSUME IInv, PlaceInv, [Next]_vars, [NoneStranded]_vars
  PROVE  PlaceInv'
  <1>1. WfInv /\ SlotInv
    BY DEF IInv
  <1>2. ASSUME NEW c \in Calls, CallNext(c) PROVE PlaceInv'
    BY <1>1, <1>2, CallPlace, WaitEndsPlace, NewConnFailsPlace DEF CallNext
  <1>3. ASSUME NEW p \in Protos, ProtoNext(p) PROVE PlaceInv'
    <2>1. CASE Expire(p)
      BY <1>1, <2>1, PlaceFrame DEF Expire
    <2>2. QED
      BY <1>1, <1>3, <2>1, ReturnCompletesPlace, CloseCompletesPlace DEF ProtoNext
  <1>4. ASSUME NEW k \in Conns, ConnNext(k) PROVE PlaceInv'
    <2>1. CASE Create(k) \/ End(k) \/ Dispose(k)
      BY <1>1, <2>1, PlaceFrame DEF Create, End, Dispose
    <2>2. ASSUME NEW c \in Calls, Connect(k, c) \/ KillQuery(k, c) PROVE PlaceInv'
      <3>1. /\ \E kind \in {"connect", "kill"} : GetProtocol(c, DsnOf[k], kind, k, None)
            /\ \A s \in Runs : run[s].st # "start"
            /\ UNCHANGED run /\ DsnOf[k] \in Dsns
        BY <2>2, PoolAssumption DEF Connect, KillQuery, InSync
      <3>2. QED
        BY <1>1, <3>1, GetProtocolPlace
    <2>3. QED
      BY <1>1, <1>4, <2>1, <2>2, ForcePlace DEF ConnNext
  <1>5. ASSUME NEW r \in Runs, TaskNext(r) PROVE PlaceInv'
    <2>1. run \in [Runs -> Run]
      BY <1>1 DEF WfInv, TypeOK
    <2>2. ASSUME NEW i \in Protos, TaskRequeues(r, i) PROVE PlaceInv'
      <3>1. run' = [run EXCEPT ![r] = [run[r] EXCEPT !.todo = @ \ {i}]] /\ UNCHANGED <<call, entryOf>>
        BY <2>2 DEF TaskRequeues
      <3>2. \A s \in Runs : run'[s].st = run[s].st
        BY <2>1, <3>1 DEF Run
      <3>3. QED
        BY <1>1, <3>1, <3>2, PlaceFrame
    <2>3. ASSUME NEW i \in Protos, NEW c \in Calls, TaskCares(r, i, c) PROVE PlaceInv'
      <3>1. /\ GetProtocol(c, pdsn[i], "care", None, i) /\ pdsn[i] \in Dsns
            /\ run[r].st = "loop"
        BY <1>1, <2>3 DEF TaskCares, WfInv, DsnKnown
      <3>2. \A s \in Runs : run'[s].st = run[s].st
        <4>1. run' = [run EXCEPT ![r] = [run[r] EXCEPT !.todo = @ \ {i}, !.calls = @ \cup {c}]]
          BY <2>3 DEF TaskCares
        <4>2. QED
          BY <2>1, <4>1 DEF Run
      <3>3. \A s \in Runs : run[s].st # "start"
        BY <3>1 DEF PlaceInv, OneLoop
      <3>4. QED
        BY <1>1, <3>1, <3>2, <3>3, GetProtocolPlace
    <2>4. CASE TaskBegins(r)
      <3>1. run[r].st = "start" /\ run'[r].st = "loop"
        BY <2>1, <2>4 DEF TaskBegins
      <3>2. NoneStranded
        BY <3>1 DEF vars
      <3>3. QED
        BY <1>1, <2>4, <3>2, TaskBeginsPlace
    <2>5. QED
      BY <1>1, <1>5, <2>2, <2>3, <2>4, TaskSwitchPlace DEF TaskNext
  <1>6. CASE (\E e \in Entries : HealthLapses(e)) \/ UnrefLater \/ AsyncDispose \/ AllEnded
    BY <1>1, <1>6, PlaceFrame DEF HealthLapses, UnrefLater, AsyncDispose, AllEnded
  <1>7. CASE CloseIdle \/ Disposed
    BY <1>1, <1>7, TaskSwitchPlace DEF Runs
  <1>8. CASE UNCHANGED vars
    BY <1>1, <1>8, PlaceFrame DEF vars
  <1>9. QED
    BY <1>2, <1>3, <1>4, <1>5, <1>6, <1>7, <1>8 DEF Next, DisposeNext

-----------------------------------------------------------------------------
(* Who uses a connection.  It has at most one user: a MyConn, a call that    *)
(* got it, or returnProtocol(); and it has one exactly when it is in the     *)
(* busy array of the entry of its Dsn.                                       *)

\* The connection that a call got, and did not hand over yet
Hand(r) == IF r.pc \in {"delivered", "killing"} THEN r.proto ELSE None

InIdle(p) == \E e \in Entries : p \in idle[e]
ByConn(p) == \E k \in Conns : conn[k].proto = p
ByCall(p) == \E c \in Calls : Hand(call[c]) = p

Home(p) == \A e \in Entries : p \in busy[e] \cup idle[e] => pdsn[p] \in Dsns /\ entryOf[pdsn[p]] = e

Apart(p) ==
    /\ InBusy(p) => ~InIdle(p)
    /\ closing[p] # None => ~InBusy(p) /\ ~InIdle(p)

BusyIfUsed(p) == InBusy(p) <=> ByConn(p) \/ ByCall(p) \/ returning[p] # "no"

OneUser(p) ==
    /\ \A k, x \in Conns : conn[k].proto = p /\ conn[x].proto = p => k = x
    /\ \A c, x \in Calls : Hand(call[c]) = p /\ Hand(call[x]) = p => c = x
    /\ ByConn(p) => ~ByCall(p)
    /\ returning[p] # "no" => ~ByConn(p) /\ ~ByCall(p)

UseOk(p) == Home(p) /\ Apart(p) /\ BusyIfUsed(p) /\ OneUser(p)

CallUse(r, ret) ==
    /\ r.pc \in {"delivered", "killing", "returning"} => r.proto \in Protos
    /\ r.pc = "returning" => ret[r.proto] # "no"
    /\ r.pc # "free" /\ r.kind = "connect" => r.conn \in Conns

HandsOk == \A c \in Calls : CallUse(call[c], returning)

UseInv == HandsOk /\ \A p \in Protos : UseOk(p)

\* A step that does not concern p
SameConns(p) == \A k \in Conns : conn'[k].proto = p <=> conn[k].proto = p
SameCalls(p) == \A c \in Calls : Hand(call'[c]) = p <=> Hand(call[c]) = p
SamePlaces(p) ==
    /\ \A e \in Entries : (p \in busy'[e] <=> p \in busy[e]) /\ (p \in idle'[e] <=> p \in idle[e])
    /\ closing'[p] = closing[p] /\ pdsn'[p] = pdsn[p]
    /\ InBusy(p) \/ InIdle(p) => entryOf'[pdsn[p]] = entryOf[pdsn[p]]
UseSame(p) == SameConns(p) /\ SameCalls(p) /\ SamePlaces(p) /\ returning'[p] = returning[p]

(* A new pool has no connections.                                            *)
LEMMA InitUseInv == Init => PlaceInv /\ UseInv
  <1> SUFFICES ASSUME Init PROVE PlaceInv /\ UseInv
    OBVIOUS
  <1>1. \A c \in Calls : call[c].pc = "free"
    BY DEF Init, FreeCall
  <1>2. \A r \in Runs : run[r].st = "off"
    BY DEF Init, NoRun
  <1>3. PlaceInv
    BY <1>1, <1>2 DEF PlaceInv, Attached, OneLoop, Slotted
  <1>4. \A c \in Calls : Hand(call[c]) = None /\ CallUse(call[c], returning)
    BY <1>1 DEF Hand, CallUse
  <1>5. ASSUME NEW p \in Protos PROVE UseOk(p)
    <2>1. p # None
      BY PoolAssumption
    <2>2. ~InBusy(p) /\ ~InIdle(p) /\ ~ByConn(p) /\ ~ByCall(p) /\ returning[p] = "no"
      BY <1>4, <2>1 DEF Init, InBusy, InIdle, ByConn, ByCall
    <2>3. QED
      BY <2>2 DEF UseOk, Home, Apart, BusyIfUsed, OneUser, InBusy, InIdle, ByConn, ByCall
  <1>6. QED
    BY <1>3, <1>4, <1>5 DEF UseInv, HandsOk

(* A step that does not concern a connection leaves its use as it was.       *)
LEMMA UseFrame ==
  ASSUME NEW p \in Protos, UseOk(p), UseSame(p)
  PROVE  UseOk(p)'
  <1>1. /\ InBusy(p)' <=> InBusy(p)
        /\ InIdle(p)' <=> InIdle(p)
        /\ ByConn(p)' <=> ByConn(p)
        /\ ByCall(p)' <=> ByCall(p)
        /\ returning'[p] = returning[p] /\ closing'[p] = closing[p]
    BY DEF UseSame, SamePlaces, SameConns, SameCalls, InBusy, InIdle, ByConn, ByCall
  <1>2. Home(p)'
    BY DEF UseOk, UseSame, SamePlaces, Home, InBusy, InIdle
  <1>3. Apart(p)' /\ BusyIfUsed(p)'
    BY <1>1 DEF UseOk, Apart, BusyIfUsed
  <1>4. OneUser(p)'
    BY <1>1 DEF UseOk, UseSame, SameConns, SameCalls, OneUser
  <1>5. QED
    BY <1>2, <1>3, <1>4 DEF UseOk

(* A step that concerns one connection only                                  *)
LEMMA UseOne ==
  ASSUME UseInv, HandsOk', NEW p \in Protos, UseOk(p)',
         \A q \in Protos \ {p} : UseSame(q)
  PROVE  UseInv'
  BY UseFrame DEF UseInv

\* The arrays and the entries are left alone, except for a new entry
PlacesLeft ==
    /\ UNCHANGED <<busy, idle, closing, pdsn>>
    /\ \A d \in Dsns : entryOf'[d] = entryOf[d] \/ entryOf[d] = None

(* ... leaves each connection where it is.                                   *)
LEMMA PlacesKept ==
  ASSUME WfInv, PlacesLeft, NEW p \in Protos, Home(p)
  PROVE  SamePlaces(p)
  <1>1. \A e \in Entries : e # None
    BY PoolAssumption
  <1>2. QED
    BY <1>1 DEF PlacesLeft, SamePlaces, Home, InBusy, InIdle

(* A step of the calls in which no connection is handed over                 *)
LEMMA UseQuiet ==
  ASSUME WfInv, UseInv, PlacesLeft, UNCHANGED returning,
         \A k \in Conns : conn'[k].proto = conn[k].proto,
         \A c \in Calls : Hand(call'[c]) = Hand(call[c]) /\ CallUse(call'[c], returning)
  PROVE  UseInv'
  <1>1. ASSUME NEW p \in Protos PROVE UseOk(p)'
    <2>1. UseOk(p) /\ Home(p)
      BY DEF UseInv, UseOk
    <2>2. UseSame(p)
      BY <2>1, PlacesKept DEF UseSame, SameConns, SameCalls
    <2>3. QED
      BY <2>1, <2>2, UseFrame
  <1>2. QED
    BY <1>1 DEF UseInv, HandsOk

(* A connection goes from its user to returnProtocol().                      *)
LEMMA GoesBack ==
  ASSUME WfInv, UseInv, HandsOk', NEW p \in Protos, NEW x, x # "no",
         returning' = [returning EXCEPT ![p] = x],
         UNCHANGED <<busy, idle, closing, pdsn, entryOf>>,
         ByConn(p) \/ ByCall(p), ~ByConn(p)', ~ByCall(p)',
         \A q \in Protos \ {p} : SameConns(q) /\ SameCalls(q)
  PROVE  UseInv'
  <1>1. \A q \in Protos : returning'[q] = IF q = p THEN x ELSE returning[q]
    BY DEF WfInv, TypeOK
  <1>2. \A q \in Protos : UseOk(q) /\ Home(q)
    BY DEF UseInv, UseOk
  <1>3. ASSUME NEW q \in Protos \ {p} PROVE UseSame(q)
    BY <1>1, <1>2, PlacesKept DEF PlacesLeft, UseSame
  <1>4. UseOk(p)'
    <2>1. InBusy(p)' /\ returning'[p] # "no"
      BY <1>1, <1>2 DEF UseOk, BusyIfUsed, InBusy
    <2>2. Home(p)' /\ Apart(p)'
      BY <1>2 DEF UseOk, Home, Apart, InBusy, InIdle
    <2>3. QED
      BY <2>1, <2>2 DEF UseOk, BusyIfUsed, OneUser, ByConn, ByCall
  <1>5. QED
    BY <1>3, <1>4, UseOne

(* One call moves on, with the connection that it has, if any.               *)
LEMMA UseOneCall ==
  ASSUME WfInv, UseInv, PlacesLeft, UNCHANGED returning, NEW c \in Calls, NEW r,
         call' = [call EXCEPT ![c] = r], Hand(r) = Hand(call[c]), CallUse(r, returning),
         \A k \in Conns : conn'[k].proto = conn[k].proto
  PROVE  UseInv'
  <1>1. \A x \in Calls : call'[x] = IF x = c THEN r ELSE call[x]
    BY DEF WfInv, TypeOK
  <1>2. \A x \in Calls : Hand(call'[x]) = Hand(call[x]) /\ CallUse(call'[x], returning)
    BY <1>1 DEF UseInv, HandsOk
  <1>3. QED
    BY <1>2, UseQuiet

(* A call that has no connection yet, or still has it                        *)
LEMMA CallStepsUse ==
  ASSUME WfInv, UseInv, NEW c \in Calls,
         \/ \E late \in BOOLEAN : WaitTimesOut(c, late)
         \/ WaitEnds(c) \/ PopNothing(c) \/ ClearDisconnected(c) \/ KillSend(c)
         \/ ConnectFails(c) \/ KillFails(c) \/ CareFails(c)
  PROVE  UseInv'
  <1>1. call[c] \in Call /\ CallUse(call[c], returning)
    BY DEF WfInv, TypeOK, UseInv, HandsOk
  <1>2. PlacesLeft /\ UNCHANGED returning /\ call[c].pc # "free"
    BY DEF WaitTimesOut, WaitEnds, PopNothing, ClearDisconnected, KillSend, ConnectFails,
           KillFails, CareFails, PlacesLeft
  <1>3. \A k \in Conns : conn'[k].proto = conn[k].proto
    <2>1. CASE ConnectFails(c)
      <3>1. conn' = [conn EXCEPT ![call[c].conn] = [conn[call[c].conn] EXCEPT !.isConnecting = FALSE]]
        BY <2>1 DEF ConnectFails
      <3>2. QED
        BY <3>1 DEF WfInv, TypeOK, Conn
    <2>2. QED
      BY <2>1 DEF WaitTimesOut, WaitEnds, PopNothing, ClearDisconnected, KillSend, KillFails, CareFails
  <1>4. ASSUME call' = [call EXCEPT ![c] = FreeCall], call[c].pc = "failed" PROVE UseInv'
    <2>1. Hand(FreeCall) = Hand(call[c]) /\ CallUse(FreeCall, returning)
      BY <1>4 DEF Hand, CallUse, FreeCall
    <2>2. QED
      BY <1>2, <1>3, <1>4, <2>1, UseOneCall
  <1>5. ASSUME NEW pc \in {"late", "woken", "popping", "failed", "waiting", "connecting"},
               call[c].pc \in {"waiting", "woken", "late", "popping"},
               call' = [call EXCEPT ![c] = [call[c] EXCEPT !.pc = pc]]
        PROVE  UseInv'
    <2> DEFINE r == [call[c] EXCEPT !.pc = pc]
    <2>1. r.pc = pc /\ r.kind = call[c].kind /\ r.conn = call[c].conn
      BY <1>1 DEF Call
    <2>2. call' = [call EXCEPT ![c] = r]
      BY <1>5
    <2> HIDE DEF r
    <2>3. Hand(r) = Hand(call[c]) /\ CallUse(r, returning)
      BY <1>1, <1>5, <2>1 DEF Hand, CallUse
    <2>4. QED
      BY <1>2, <1>3, <2>2, <2>3, UseOneCall
  <1>6. CASE \E late \in BOOLEAN : WaitTimesOut(c, late)
    <2>1. PICK late \in BOOLEAN : WaitTimesOut(c, late)
      BY <1>6
    <2> DEFINE pc == IF late THEN "late" ELSE "woken"
    <2>2. pc \in {"late", "woken"} /\ call[c].pc = "waiting"
          /\ call' = [call EXCEPT ![c] = [call[c] EXCEPT !.pc = pc]]
      BY <2>1 DEF WaitTimesOut
    <2> HIDE DEF pc
    <2>3. QED
      BY <1>5, <2>2
  <1>7. CASE WaitEnds(c)
    <2>1. /\ call[c].pc \in {"woken", "late"}
          /\ WaitForSlot(c, call[c], call[c].pc = "late")
      BY <1>7 DEF WaitEnds
    <2>2. PICK pc \in {"popping", "failed", "waiting"} :
              call' = [call EXCEPT ![c] = [call[c] EXCEPT !.pc = pc]]
      BY <2>1 DEF WaitForSlot
    <2>3. QED
      BY <1>5, <2>1, <2>2
  <1>8. CASE PopNothing(c)
    BY <1>5, <1>8 DEF PopNothing
  <1>9. CASE ClearDisconnected(c)
    <2>1. PICK i : call' = [call EXCEPT ![c] = [call[c] EXCEPT !.held = @ \cup {i}]]
      BY <1>9 DEF ClearDisconnected
    <2> DEFINE r == [call[c] EXCEPT !.held = @ \cup {i}]
    <2>2. r.pc = call[c].pc /\ r.kind = call[c].kind /\ r.conn = call[c].conn /\ r.proto = call[c].proto
      BY <1>1 DEF Call
    <2>3. call' = [call EXCEPT ![c] = r]
      BY <2>1
    <2> HIDE DEF r
    <2>4. Hand(r) = Hand(call[c]) /\ CallUse(r, returning)
      BY <1>1, <2>2 DEF Hand, CallUse
    <2>5. QED
      BY <1>2, <1>3, <2>3, <2>4, UseOneCall
  <1>10. CASE KillSend(c)
    <2> DEFINE r == [call[c] EXCEPT !.pc = "killing"]
    <2>1. r.pc = "killing" /\ r.kind = call[c].kind /\ r.conn = call[c].conn /\ r.proto = call[c].proto
      BY <1>1 DEF Call
    <2>2. call' = [call EXCEPT ![c] = r] /\ call[c].pc = "delivered"
      BY <1>10 DEF KillSend
    <2> HIDE DEF r
    <2>3. Hand(r) = Hand(call[c]) /\ CallUse(r, returning)
      BY <1>1, <2>1, <2>2 DEF Hand, CallUse
    <2>4. QED
      BY <1>2, <1>3, <2>2, <2>3, UseOneCall
  <1>11. CASE ConnectFails(c) \/ KillFails(c) \/ CareFails(c)
    BY <1>4, <1>11 DEF ConnectFails, KillFails, CareFails
  <1>12. QED
    BY <1>6, <1>7, <1>8, <1>9, <1>10, <1>11

(* getProtocol() is called: nobody has a connection of a new entry.          *)
LEMMA GetProtocolUse ==
  ASSUME WfInv, UseInv, NEW c \in Calls, NEW d \in Dsns, NEW kind \in {"connect", "kill", "care"},
         NEW k \in Conns \cup {None}, NEW info \in Protos \cup {None},
         GetProtocol(c, d, kind, k, info), kind = "connect" => k \in Conns,
         UNCHANGED <<busy, idle, closing, pdsn, returning>>,
         \A x \in Conns : conn'[x].proto = conn[x].proto
  PROVE  UseInv'
  <1>1. PICK r \in Call :
            /\ call' = [call EXCEPT ![c] = r] /\ r.pc \in {"popping", "failed", "waiting"}
            /\ r.kind = kind /\ r.conn = k
            /\ \A x \in Dsns \ {d} : entryOf'[x] = entryOf[x]
            /\ entryOf'[d] = entryOf[d] \/ entryOf[d] = None
    BY GetProtocolEntry
  <1>2. call[c].pc = "free"
    BY DEF GetProtocol
  <1>3. Hand(r) = Hand(call[c]) /\ CallUse(r, returning)
    BY <1>1, <1>2 DEF Hand, CallUse
  <1>4. PlacesLeft
    BY <1>1 DEF PlacesLeft
  <1>5. QED
    BY <1>1, <1>3, <1>4, UseOneCall

(* A failed attempt had no connection.                                       *)
LEMMA NewConnFailsUse ==
  ASSUME WfInv, UseInv, NEW c \in Calls, NewConnFails(c)
  PROVE  UseInv'
  <1> DEFINE calls == [call EXCEPT ![c].pc = "failed", ![c].held = {}]
             r == [call[c] EXCEPT !.pc = "failed", !.held = {}]
  <1>1. /\ call[c].pc = "connecting" /\ PlacesLeft /\ UNCHANGED <<conn, returning>>
        /\ DecNBusyAll(call[c].dsn, call[c].entry, calls, nIdleAll, takeCare', timer)
    BY DEF NewConnFails, PlacesLeft
  <1>2. r \in Call /\ r.pc = "failed" /\ r.kind = call[c].kind /\ r.conn = call[c].conn
    BY <1>1, CallFacts DEF Call
  <1>3. calls = [call EXCEPT ![c] = r]
    OBVIOUS
  <1> HIDE DEF r
  <1>4. calls \in [Calls -> Call] /\ \A x \in Calls : calls[x] = IF x = c THEN r ELSE call[x]
    BY <1>1, <1>2, <1>3, CallFacts
  <1> HIDE DEF calls
  <1>5. call[c].entry \in Entries
    BY <1>1, CallFacts
  <1>6. ASSUME NEW x \in Calls PROVE Hand(call'[x]) = Hand(call[x]) /\ CallUse(call'[x], returning)
    <2>1. calls[x] = call[x] \/ call[x].pc # "waiting"
      BY <1>1, <1>4
    <2>2. call'[x] = calls[x] \/ Woken(call[x], call'[x])
      BY <1>1, <1>4, <1>5, <2>1, DecWakes
    <2>3. call[x] \in Call /\ CallUse(call[x], returning)
      BY DEF WfInv, TypeOK, UseInv, HandsOk
    <2>4. CASE Woken(call[x], call'[x])
      BY <2>3, <2>4, WokenFacts DEF Woken, Hand, CallUse
    <2>5. CASE call'[x] = calls[x] /\ x # c
      BY <1>4, <2>3, <2>5
    <2>6. CASE call'[x] = calls[x] /\ x = c
      BY <1>1, <1>2, <1>4, <2>3, <2>6 DEF Hand, CallUse
    <2>7. QED
      BY <2>2, <2>4, <2>5, <2>6
  <1>7. QED
    BY <1>1, <1>6, UseQuiet

(* A step of the task, of time or of the disposal that does not concern the  *)
(* connections                                                               *)
LEMMA OtherUse ==
  ASSUME WfInv, UseInv, UNCHANGED <<call, busy, idle, closing, pdsn, entryOf, returning>>,
         \A k \in Conns : conn'[k].proto = conn[k].proto
  PROVE  UseInv'
  BY UseQuiet DEF PlacesLeft, UseInv, HandsOk

(* What a call has is given to somebody else, who is the only user then.     *)
LEMMA LeavesCall ==
  ASSUME WfInv, UseInv, NEW c \in Calls, NEW r, call' = [call EXCEPT ![c] = r], Hand(r) = None,
         NEW p \in Protos, Hand(call[c]) = p
  PROVE  ~ByCall(p)' /\ \A q \in Protos \ {p} : SameCalls(q)
  <1>1. \A x \in Calls : call'[x] = IF x = c THEN r ELSE call[x]
    BY DEF WfInv, TypeOK
  <1>2. \A q \in Protos : q # None
    BY PoolAssumption
  <1>3. OneUser(p)
    BY DEF UseInv, UseOk
  <1>4. \A x \in Calls : Hand(call'[x]) # p
    BY <1>1, <1>2, <1>3 DEF OneUser
  <1>5. \A q \in Protos \ {p} : SameCalls(q)
    BY <1>1, <1>2 DEF SameCalls
  <1>6. QED
    BY <1>4, <1>5 DEF ByCall

(* The calls stay as they are when a connection begins to go back.           *)
LEMMA HandsStay ==
  ASSUME WfInv, UseInv, NEW c \in Calls, NEW r, call' = [call EXCEPT ![c] = r],
         CallUse(r, returning'), \A q \in Protos : returning[q] # "no" => returning'[q] # "no"
  PROVE  HandsOk'
  <1>1. \A x \in Calls : call'[x] = IF x = c THEN r ELSE call[x]
    BY DEF WfInv, TypeOK
  <1>2. \A x \in Calls : CallUse(call[x], returning')
    BY DEF UseInv, HandsOk, CallUse
  <1>3. QED
    BY <1>1, <1>2 DEF HandsOk

(* A call gives back what it has.                                            *)
LEMMA CallGoesBack ==
  ASSUME WfInv, UseInv, NEW c \in Calls, NEW r, call' = [call EXCEPT ![c] = r], Hand(r) = None,
         NEW p \in Protos, Hand(call[c]) = p, CallUse(r, returning'), NEW x, x # "no",
         returning' = [returning EXCEPT ![p] = x],
         UNCHANGED <<busy, idle, closing, pdsn, entryOf, conn>>
  PROVE  UseInv'
  <1>1. ~ByCall(p)' /\ \A q \in Protos \ {p} : SameCalls(q)
    BY LeavesCall
  <1>2. ByCall(p)
    BY DEF ByCall
  <1>3. ~ByConn(p) /\ ~ByConn(p)'
    BY <1>2 DEF UseInv, UseOk, OneUser, ByConn
  <1>4. HandsOk'
    <2>1. \A q \in Protos : returning[q] # "no" => returning'[q] # "no"
      BY DEF WfInv, TypeOK
    <2>2. QED
      BY <2>1, HandsStay
  <1>5. \A q \in Protos \ {p} : SameConns(q)
    BY DEF SameConns
  <1>6. QED
    BY <1>1, <1>2, <1>3, <1>4, <1>5, GoesBack

(* What returnProtocol() writes                                              *)
LEMMA ReturnProtocolSets ==
  ASSUME WfInv, NEW p, NEW mayRecycle, NEW thenUnref, ReturnProtocol(p, mayRecycle, thenUnref)
  PROVE  \E x : x # "no" /\ returning' = [returning EXCEPT ![p] = x]
  <1> DEFINE x == IF mayRecycle /\ p \notin expired THEN "recycle" ELSE "close"
  <1>1. x # "no" /\ returning' = [returning EXCEPT ![p] = x]
    BY DEF ReturnProtocol
  <1> HIDE DEF x
  <1>2. QED
    BY <1>1

(* KILL QUERY was sent, or #commonTask has the connection that it wanted: it *)
(* goes back.                                                                *)
LEMMA CallReturnsUse ==
  ASSUME WfInv, UseInv, NEW c \in Calls, KillSent(c) \/ CareDelivered(c)
  PROVE  UseInv'
  <1>1. /\ call[c] \in Call /\ CallUse(call[c], returning) /\ call[c].pc \in {"delivered", "killing"}
        /\ UNCHANGED <<busy, idle, closing, pdsn, entryOf, conn>>
        /\ \E m, u : ReturnProtocol(call[c].proto, m, u)
    BY DEF KillSent, CareDelivered, WfInv, TypeOK, UseInv, HandsOk
  <1>2. PICK p \in Protos : Hand(call[c]) = p /\ call[c].proto = p
    BY <1>1 DEF Hand, CallUse
  <1>3. PICK x : x # "no" /\ returning' = [returning EXCEPT ![p] = x]
    BY <1>1, <1>2, ReturnProtocolSets
  <1>4. CASE KillSent(c)
    <2>1. Hand(FreeCall) = None /\ CallUse(FreeCall, returning')
      BY DEF Hand, CallUse, FreeCall
    <2>2. call' = [call EXCEPT ![c] = FreeCall]
      BY <1>4 DEF KillSent
    <2>3. QED
      BY <1>1, <1>2, <1>3, <2>1, <2>2, CallGoesBack
  <1>5. CASE CareDelivered(c)
    <2> DEFINE r == [call[c] EXCEPT !.pc = "returning", !.info = None]
    <2>1. r.pc = "returning" /\ r.proto = call[c].proto /\ r.kind = call[c].kind
      BY <1>1 DEF Call
    <2>2. call' = [call EXCEPT ![c] = r] /\ call[c].kind = "care"
      BY <1>5 DEF CareDelivered
    <2> HIDE DEF r
    <2>3. returning'[r.proto] # "no"
      BY <1>2, <1>3, <2>1 DEF WfInv, TypeOK
    <2>4. Hand(r) = None /\ CallUse(r, returning')
      BY <1>2, <2>1, <2>2, <2>3 DEF Hand, CallUse
    <2>5. QED
      BY <1>1, <1>2, <1>3, <2>2, <2>4, CallGoesBack
  <1>6. QED
    BY <1>4, <1>5

(* connect() gets its connection, or gives it back if end() was called.      *)
LEMMA ConnectedUse ==
  ASSUME WfInv, ConnInv, UseInv, NEW c \in Calls, Connected(c)
  PROVE  UseInv'
  <1>1. /\ call[c].pc = "delivered" /\ call[c].kind = "connect"
        /\ call' = [call EXCEPT ![c] = FreeCall]
        /\ UNCHANGED <<busy, idle, closing, pdsn, entryOf>>
        /\ CallUse(call[c], returning)
    BY DEF Connected, UseInv, HandsOk
  <1>2. PICK p \in Protos, k \in Conns :
            call[c].proto = p /\ call[c].conn = k /\ Hand(call[c]) = p /\ p # None
    BY <1>1, PoolAssumption DEF CallUse, Hand
  <1>3. Hand(FreeCall) = None /\ CallUse(FreeCall, returning')
    BY DEF Hand, CallUse, FreeCall
  <1>4. CASE ~conn[k].isConnecting
    <2>1. ReturnProtocol(p, TRUE, FALSE) /\ UNCHANGED conn
      BY <1>2, <1>4 DEF Connected
    <2>2. QED
      BY <1>1, <1>2, <1>3, <2>1, ReturnProtocolSets, CallGoesBack
  <1>5. CASE conn[k].isConnecting
    <2>1. /\ conn' = [conn EXCEPT ![k] = [conn[k] EXCEPT !.proto = p, !.isConnecting = FALSE]]
          /\ UNCHANGED returning
      BY <1>2, <1>5 DEF Connected
    <2>2. \A x \in Conns : conn'[x].proto = IF x = k THEN p ELSE conn[x].proto
      BY <1>2, <2>1 DEF WfInv, TypeOK, Conn
    <2>3. conn[k].proto = None
      BY <1>2, <1>5 DEF ConnInv, ConnectNeverOverwrites
    <2>4. ~ByCall(p)' /\ \A q \in Protos \ {p} : SameCalls(q)
      BY <1>1, <1>2, <1>3, LeavesCall
    <2>5. ByCall(p) /\ UseOk(p)
      BY <1>2 DEF ByCall, UseInv
    <2>6. ~ByConn(p) /\ returning[p] = "no" /\ InBusy(p)
      BY <2>5 DEF UseOk, OneUser, BusyIfUsed
    <2>7. HandsOk'
      BY <1>1, <1>3, <2>1, HandsStay
    <2>8. ASSUME NEW q \in Protos \ {p} PROVE UseSame(q)
      <3>1. SameConns(q)
        BY <1>2, <2>2, <2>3, PoolAssumption DEF SameConns
      <3>2. SamePlaces(q)
        BY <1>1, PlacesKept DEF PlacesLeft, UseInv, UseOk
      <3>3. QED
        BY <2>1, <2>4, <3>1, <3>2 DEF UseSame
    <2>9. UseOk(p)'
      <3>1. ByConn(p)' /\ InBusy(p)' /\ ~ByCall(p)' /\ returning'[p] = "no"
        BY <1>1, <1>2, <2>1, <2>2, <2>4, <2>6 DEF ByConn, InBusy
      <3>2. Home(p)' /\ Apart(p)'
        BY <1>1, <2>5 DEF UseOk, Home, Apart, InBusy, InIdle
      <3>3. \A x, y \in Conns : conn'[x].proto = p /\ conn'[y].proto = p => x = y
        BY <2>2, <2>6 DEF ByConn
      <3>4. \A x \in Calls : Hand(call'[x]) # p
        BY <3>1 DEF ByCall
      <3>5. OneUser(p)' /\ BusyIfUsed(p)'
        BY <3>1, <3>3, <3>4 DEF OneUser, BusyIfUsed
      <3>6. QED
        BY <3>2, <3>5 DEF UseOk
    <2>10. QED
      BY <1>2, <2>7, <2>8, <2>9, UseOne
  <1>6. QED
    BY <1>4, <1>5

(* The connection of a MyConn is given up.                                   *)
LEMMA LeavesConn ==
  ASSUME WfInv, UseInv, NEW k \in Conns, NEW p \in Protos, conn[k].proto = p, NEW st,
         ConnEnded(k, st)
  PROVE  /\ ByConn(p) /\ ~ByConn(p)' /\ ~ByCall(p)
         /\ \A q \in Protos \ {p} : SameConns(q)
  <1>1. ByConn(p) /\ p # None
    BY PoolAssumption DEF ByConn
  <1>2. OneUser(p) /\ ~ByCall(p)
    BY <1>1 DEF UseInv, UseOk, OneUser
  <1>3. \A x \in Conns : conn'[x].proto = IF x = k THEN None ELSE conn[x].proto
    BY DEF ConnEnded, WfInv, TypeOK
  <1>4. ~ByConn(p)'
    BY <1>1, <1>2, <1>3 DEF OneUser, ByConn
  <1>5. \A q \in Protos \ {p} : SameConns(q)
    BY <1>3, PoolAssumption DEF SameConns
  <1>6. QED
    BY <1>1, <1>2, <1>4, <1>5

(* end() and [Symbol.dispose]() give the connection back.                    *)
LEMMA EndUse ==
  ASSUME WfInv, UseInv, NEW k \in Conns, End(k) \/ Dispose(k)
  PROVE  UseInv'
  <1>1. /\ \E st : ConnEnded(k, st)
        /\ UNCHANGED <<busy, idle, closing, pdsn, entryOf, call>>
    BY DEF End, Dispose
  <1>2. CASE conn[k].proto = None
    <2>1. UNCHANGED returning
      BY <1>2 DEF End, Dispose
    <2>2. \A x \in Conns : conn'[x].proto = conn[x].proto
      BY <1>1, <1>2 DEF ConnEnded, WfInv, TypeOK
    <2>3. QED
      BY <1>1, <2>1, <2>2, OtherUse
  <1>3. CASE conn[k].proto # None
    <2> PICK p \in Protos : conn[k].proto = p
      BY <1>3 DEF WfInv, TypeOK, Conn
    <2>1. /\ ByConn(p) /\ ~ByConn(p)' /\ ~ByCall(p)
          /\ \A q \in Protos \ {p} : SameConns(q)
      BY <1>1, LeavesConn
    <2>2. \E m, u : ReturnProtocol(p, m, u)
      BY <1>3 DEF End, Dispose
    <2>3. PICK x : x # "no" /\ returning' = [returning EXCEPT ![p] = x]
      BY <2>2, ReturnProtocolSets
    <2>4. ~ByCall(p)' /\ \A q \in Protos : SameCalls(q)
      BY <1>1, <2>1 DEF ByCall, SameCalls
    <2>5. HandsOk'
      <3>1. \A q \in Protos : returning[q] # "no" => returning'[q] # "no"
        BY <2>3 DEF WfInv, TypeOK
      <3>2. QED
        BY <1>1, <3>1 DEF UseInv, HandsOk, CallUse
    <2>6. QED
      BY <1>1, <2>1, <2>3, <2>4, <2>5, GoesBack
  <1>4. QED
    BY <1>2, <1>3

(* An idle connection is popped, by the call that is past the check: it is   *)
(* in use, or in the hands of #closeConn().                                  *)
LEMMA PopIdleUse ==
  ASSUME WfInv, PlaceInv, UseInv, NEW c \in Calls, NEW p \in Protos, PopIdle(c, p)
  PROVE  UseInv'
  <1>1. PICK e \in Entries, d \in Dsns : call[c].entry = e /\ call[c].dsn = d
    BY CallFacts DEF PopIdle
  <1>2. /\ call[c].pc = "popping" /\ p \in Poppable(c)
        /\ idle' = [x \in Entries |-> idle[x] \ {p}]
        /\ pdsn' = [pdsn EXCEPT ![p] = d]
        /\ UNCHANGED <<entryOf, returning, conn>>
    BY <1>1 DEF PopIdle
  <1>3. call[c] \in Call /\ CallUse(call[c], returning) /\ UseOk(p) /\ p # None
    BY PoolAssumption DEF WfInv, TypeOK, UseInv, HandsOk
  <1>4. InIdle(p)
    <2>1. Mapped \subseteq Entries
      BY DEF Mapped, WfInv, TypeOK
    <2>2. QED
      BY <1>1, <1>2, <2>1 DEF Poppable, InIdle
  <1>5. ~InBusy(p) /\ closing[p] = None /\ ~ByConn(p) /\ ~ByCall(p) /\ returning[p] = "no"
    BY <1>3, <1>4 DEF UseOk, Apart, BusyIfUsed
  <1>6. entryOf[d] = e
    BY <1>1, <1>2 DEF PlaceInv, Attached, Slotted
  <1>7. ~InIdle(p)' /\ ~ByConn(p)' /\ pdsn'[p] = d /\ returning'[p] = "no"
    BY <1>2, <1>5 DEF InIdle, ByConn, WfInv, TypeOK
  <1>8. ASSUME NEW q \in Protos \ {p},
               \A x \in Entries : q \in busy'[x] <=> q \in busy[x], closing'[q] = closing[q],
               SameCalls(q)
        PROVE  UseSame(q)
    <2>1. \A x \in Entries : q \in idle'[x] <=> q \in idle[x]
      BY <1>2
    <2>2. pdsn'[q] = pdsn[q]
      BY <1>2 DEF WfInv, TypeOK
    <2>3. QED
      BY <1>2, <1>8, <2>1, <2>2 DEF UseSame, SamePlaces, SameConns
  <1>9. CASE p \in expired
    <2>1. UNCHANGED <<busy, call>> /\ closing' = [closing EXCEPT ![p] = e]
      BY <1>1, <1>9 DEF PopIdle
    <2>2. UseOk(p)'
      <3>1. ~InBusy(p)' /\ ~ByCall(p)'
        BY <1>5, <2>1 DEF InBusy, ByCall
      <3>2. QED
        BY <1>7, <3>1 DEF UseOk, Home, Apart, BusyIfUsed, OneUser, InBusy, InIdle, ByConn, ByCall
    <2>3. \A q \in Protos \ {p} : closing'[q] = closing[q] /\ SameCalls(q)
      BY <2>1 DEF WfInv, TypeOK, SameCalls
    <2>4. \A q \in Protos \ {p} : UseSame(q)
      BY <1>8, <2>1, <2>3
    <2>5. HandsOk'
      BY <1>2, <2>1 DEF UseInv, HandsOk
    <2>6. QED
      BY <2>2, <2>4, <2>5, UseOne
  <1>10. CASE p \notin expired
    <2> DEFINE r == [call[c] EXCEPT !.pc = "delivered", !.proto = p]
    <2>1. /\ r.pc = "delivered" /\ r.proto = p /\ r.kind = call[c].kind /\ r.conn = call[c].conn
      BY <1>3 DEF Call
    <2>2. /\ busy' = [busy EXCEPT ![e] = @ \cup {p}] /\ UNCHANGED closing
          /\ call' = [call EXCEPT ![c] = r]
      BY <1>1, <1>10 DEF PopIdle
    <2> HIDE DEF r
    <2>3. \A x \in Calls : call'[x] = IF x = c THEN r ELSE call[x]
      BY <2>2 DEF WfInv, TypeOK
    <2>4. Hand(r) = p /\ Hand(call[c]) = None /\ CallUse(r, returning')
      BY <1>2, <1>3, <2>1 DEF Hand, CallUse
    <2>5. \A x \in Entries : busy'[x] = IF x = e THEN busy[x] \cup {p} ELSE busy[x]
      BY <2>2 DEF WfInv, TypeOK
    <2>6. UseOk(p)'
      <3>1. \A x \in Entries : p \in busy'[x] <=> x = e
        BY <1>5, <2>5 DEF InBusy
      <3>2. InBusy(p)' /\ ByCall(p)'
        BY <1>1, <2>3, <2>4, <3>1 DEF InBusy, ByCall
      <3>3. Home(p)'
        BY <1>2, <1>6, <1>7, <3>1 DEF Home, InIdle
      <3>4. \A x, y \in Calls : Hand(call'[x]) = p /\ Hand(call'[y]) = p => x = y
        BY <1>5, <2>3 DEF ByCall
      <3>5. OneUser(p)'
        BY <1>7, <3>4 DEF OneUser, ByConn
      <3>6. Apart(p)' /\ BusyIfUsed(p)'
        BY <1>5, <1>7, <2>2, <3>2 DEF Apart, BusyIfUsed
      <3>7. QED
        BY <3>3, <3>5, <3>6 DEF UseOk
    <2>7. ASSUME NEW q \in Protos \ {p} PROVE UseSame(q)
      <3>1. SameCalls(q)
        BY <2>3, <2>4, PoolAssumption DEF SameCalls
      <3>2. QED
        BY <1>8, <2>2, <2>5, <3>1
    <2>8. HandsOk'
      BY <1>2, <2>2, <2>4, HandsStay
    <2>9. QED
      BY <2>6, <2>7, <2>8, UseOne
  <1>11. QED
    BY <1>9, <1>10

(* A new connection is one that nobody has.                                  *)
LEMMA NewConnOkUse ==
  ASSUME WfInv, PlaceInv, UseInv, NEW c \in Calls, NewConnOk(c)
  PROVE  UseInv'
  <1>1. PICK e \in Entries, d \in Dsns : call[c].entry = e /\ call[c].dsn = d
    BY CallFacts DEF NewConnOk
  <1>2. PICK p \in FreeProtos :
            /\ busy' = [busy EXCEPT ![e] = @ \cup {p}]
            /\ pdsn' = [pdsn EXCEPT ![p] = d]
            /\ call' = [call EXCEPT ![c].pc = "delivered", ![c].proto = p, ![c].held = {}]
    BY <1>1 DEF NewConnOk
  <1>3. /\ call[c].pc = "connecting"
        /\ UNCHANGED <<entryOf, idle, closing, returning, conn>>
    BY DEF NewConnOk
  <1>4. call[c] \in Call /\ CallUse(call[c], returning) /\ p \in Protos /\ p # None
    BY PoolAssumption DEF WfInv, TypeOK, UseInv, HandsOk, FreeProtos
  <1>5. /\ ~InBusy(p) /\ ~InIdle(p) /\ closing[p] = None /\ returning[p] = "no"
        /\ ~ByConn(p) /\ ~ByCall(p)
    BY <1>4 DEF FreeProtos, InBusy, InIdle, ByConn, ByCall, Hand
  <1>6. entryOf[d] = e
    BY <1>1, <1>3 DEF PlaceInv, Attached, Slotted
  <1> DEFINE r == [call[c] EXCEPT !.pc = "delivered", !.proto = p, !.held = {}]
  <1>7. /\ r.pc = "delivered" /\ r.proto = p /\ r.kind = call[c].kind /\ r.conn = call[c].conn
    BY <1>4 DEF Call
  <1>8. call' = [call EXCEPT ![c] = r]
    BY <1>2
  <1> HIDE DEF r
  <1>9. \A x \in Calls : call'[x] = IF x = c THEN r ELSE call[x]
    BY <1>8 DEF WfInv, TypeOK
  <1>10. Hand(r) = p /\ Hand(call[c]) = None /\ CallUse(r, returning')
    BY <1>3, <1>4, <1>7 DEF Hand, CallUse
  <1>11. \A x \in Entries : busy'[x] = IF x = e THEN busy[x] \cup {p} ELSE busy[x]
    BY <1>2 DEF WfInv, TypeOK
  <1>12. UseOk(p)'
    <2>1. \A x \in Entries : p \in busy'[x] <=> x = e
      BY <1>5, <1>11 DEF InBusy
    <2>2. InBusy(p)' /\ ByCall(p)' /\ ~InIdle(p)' /\ ~ByConn(p)' /\ returning'[p] = "no"
          /\ pdsn'[p] = d
      BY <1>2, <1>3, <1>4, <1>5, <1>9, <1>10, <2>1 DEF InBusy, ByCall, InIdle, ByConn, WfInv, TypeOK
    <2>3. Home(p)'
      BY <1>3, <1>6, <2>1, <2>2 DEF Home, InIdle
    <2>4. \A x, y \in Calls : Hand(call'[x]) = p /\ Hand(call'[y]) = p => x = y
      BY <1>5, <1>9 DEF ByCall
    <2>5. OneUser(p)'
      BY <2>2, <2>4 DEF OneUser, ByConn
    <2>6. Apart(p)' /\ BusyIfUsed(p)'
      BY <1>3, <1>5, <2>2 DEF Apart, BusyIfUsed
    <2>7. QED
      BY <2>3, <2>5, <2>6 DEF UseOk
  <1>13. ASSUME NEW q \in Protos \ {p} PROVE UseSame(q)
    <2>1. SameCalls(q)
      BY <1>9, <1>10, PoolAssumption DEF SameCalls
    <2>2. pdsn'[q] = pdsn[q]
      BY <1>2 DEF WfInv, TypeOK
    <2>3. SamePlaces(q) /\ SameConns(q)
      BY <1>3, <1>11, <2>2 DEF SamePlaces, SameConns
    <2>4. QED
      BY <1>3, <2>1, <2>3 DEF UseSame
  <1>14. HandsOk'
    BY <1>3, <1>8, <1>10, HandsStay
  <1>15. QED
    BY <1>4, <1>12, <1>13, <1>14, UseOne

(* #doReturnProtocol() finds the connection where it is.                     *)
LEMMA DoReturnFinds ==
  ASSUME WfInv, NEW p \in Protos, Home(p), InBusy(p), NEW forReuse, NEW calls, NEW care, NEW tm,
         DoReturnProtocol(p, forReuse, calls, care, tm)
  PROVE  \E e \in Entries :
            /\ p \in busy[e] /\ pdsn[p] \in Dsns /\ entryOf[pdsn[p]] = e
            /\ busy' = [busy EXCEPT ![e] = @ \ {p}]
            /\ idle' = IF forReuse THEN [idle EXCEPT ![e] = @ \cup {p}] ELSE idle
            /\ nIdleAll' = IF forReuse THEN nIdleAll + 1 ELSE nIdleAll
            /\ DecNBusyAll(pdsn[p], e, calls, nIdleAll', care, tm)
  <1>1. PICK e \in Entries : p \in busy[e]
    BY DEF InBusy
  <1>2. pdsn[p] \in Dsns /\ entryOf[pdsn[p]] = e /\ e # None
    BY <1>1, PoolAssumption DEF Home
  <1>3. BusyPlaces(p) = {<<e, p>>}
    BY <1>1, <1>2 DEF BusyPlaces
  <1>4. PICK place \in {<<e, p>>} :
            /\ busy' = [busy EXCEPT ![place[1]] = @ \ {place[2]}]
            /\ idle' = IF forReuse THEN [idle EXCEPT ![place[1]] = @ \cup {p}] ELSE idle
            /\ nIdleAll' = IF forReuse THEN nIdleAll + 1 ELSE nIdleAll
            /\ DecNBusyAll(pdsn[p], place[1], calls, nIdleAll', care, tm)
    <2>1. BusyPlaces(p) # {}
      BY <1>3
    <2>2. \E place \in BusyPlaces(p) :
            /\ busy' = [busy EXCEPT ![place[1]] = @ \ {place[2]}]
            /\ idle' = IF forReuse THEN [idle EXCEPT ![place[1]] = @ \cup {p}] ELSE idle
            /\ nIdleAll' = IF forReuse THEN nIdleAll + 1 ELSE nIdleAll
            /\ DecNBusyAll(pdsn[p], place[1], calls, nIdleAll', care, tm)
      BY <2>1 DEF DoReturnProtocol
    <2>3. QED
      BY <1>3, <2>2
  <1>5. place[1] = e /\ place[2] = p
    BY <1>4
  <1>6. QED
    BY <1>1, <1>2, <1>4, <1>5

(* It takes the connection out of the busy array, and puts it into the idle  *)
(* array if it is recycled.                                                  *)
LEMMA DoReturnUse ==
  ASSUME WfInv, UseInv, HandsOk', NEW p \in Protos, InBusy(p), NEW forReuse \in BOOLEAN,
         NEW calls, NEW care, NEW tm, DoReturnProtocol(p, forReuse, calls, care, tm),
         UNCHANGED <<entryOf, pdsn, closing>>,
         ~ByConn(p)', ~ByCall(p)', returning'[p] = "no",
         \A q \in Protos \ {p} : SameConns(q) /\ SameCalls(q) /\ returning'[q] = returning[q]
  PROVE  UseInv'
  <1>1. UseOk(p) /\ Home(p)
    BY DEF UseInv, UseOk
  <1>2. PICK e \in Entries :
            /\ p \in busy[e] /\ pdsn[p] \in Dsns /\ entryOf[pdsn[p]] = e
            /\ busy' = [busy EXCEPT ![e] = @ \ {p}]
            /\ idle' = IF forReuse THEN [idle EXCEPT ![e] = @ \cup {p}] ELSE idle
    BY <1>1, DoReturnFinds
  <1>3. \A x \in Entries, q \in Protos :
            /\ q \in busy'[x] <=> q \in busy[x] /\ ~(x = e /\ q = p)
            /\ q \in idle'[x] <=> q \in idle[x] \/ (forReuse /\ x = e /\ q = p)
    BY <1>2 DEF WfInv, TypeOK
  <1>4. ~InBusy(p)' /\ closing[p] = None
    BY <1>1, <1>2, <1>3 DEF UseOk, Home, Apart, InBusy
  <1>5. UseOk(p)'
    <2>1. Home(p)' /\ Apart(p)' /\ BusyIfUsed(p)'
      BY <1>1, <1>2, <1>3, <1>4 DEF Home, Apart, BusyIfUsed, InBusy, InIdle
    <2>2. OneUser(p)'
      BY DEF OneUser, ByConn, ByCall
    <2>3. QED
      BY <2>1, <2>2 DEF UseOk
  <1>6. \A q \in Protos \ {p} : UseSame(q)
    BY <1>3 DEF UseSame, SamePlaces
  <1>7. QED
    BY <1>5, <1>6, UseOne

(* A connection that is back, or closed, has no user any more.               *)
LEMMA ReturnCompletesUse ==
  ASSUME WfInv, UseInv, NEW p \in Protos, ReturnCompletes(p)
  PROVE  UseInv'
  <1> DEFINE calls == [c \in Calls |-> IF call[c].pc = "returning" /\ call[c].proto = p
                                       THEN FreeCall ELSE call[c]]
  <1>1. PICK forReuse \in BOOLEAN : DoReturnProtocol(p, forReuse, calls, takeCare, timer)
    BY DEF ReturnCompletes
  <1>2. returning[p] # "no" /\ returning' = [returning EXCEPT ![p] = "no"]
        /\ UNCHANGED <<entryOf, pdsn, closing, conn>>
    BY DEF ReturnCompletes
  <1>3. \A q \in Protos : returning'[q] = IF q = p THEN "no" ELSE returning[q]
    BY <1>2 DEF WfInv, TypeOK
  <1>4. UseOk(p) /\ Home(p) /\ InBusy(p) /\ ~ByConn(p) /\ ~ByCall(p)
    BY <1>2 DEF UseInv, UseOk, BusyIfUsed, OneUser
  <1>5. calls \in [Calls -> Call]
    BY FreeCallType DEF WfInv, TypeOK
  <1>6. \A x \in Calls : \/ calls[x] = call[x] /\ ~(call[x].pc = "returning" /\ call[x].proto = p)
                         \/ call[x].pc = "returning" /\ calls[x] = FreeCall
    OBVIOUS
  <1> HIDE DEF calls
  <1>7. PICK e \in Entries : DecNBusyAll(pdsn[p], e, calls, nIdleAll', takeCare, timer)
    BY <1>1, <1>4, DoReturnFinds
  <1>8. ASSUME NEW x \in Calls
        PROVE  Hand(call'[x]) = Hand(call[x]) /\ CallUse(call'[x], returning')
    <2>1. call[x] \in Call /\ CallUse(call[x], returning)
      BY DEF WfInv, TypeOK, UseInv, HandsOk
    <2>2. calls[x] = call[x] \/ call[x].pc # "waiting"
      BY <1>6
    <2>3. call'[x] = calls[x] \/ Woken(call[x], call'[x])
      BY <1>5, <1>7, <2>2, DecWakes
    <2>4. CASE Woken(call[x], call'[x])
      BY <2>1, <2>4, WokenFacts DEF Woken, Hand, CallUse
    <2>5. CASE call'[x] = FreeCall /\ call[x].pc = "returning"
      BY <2>5 DEF Hand, CallUse, FreeCall
    <2>6. CASE call'[x] = call[x] /\ ~(call[x].pc = "returning" /\ call[x].proto = p)
      BY <1>3, <2>1, <2>6 DEF Hand, CallUse
    <2>7. QED
      BY <1>6, <2>3, <2>4, <2>5, <2>6
  <1>9. HandsOk' /\ ~ByCall(p)' /\ ~ByConn(p)'
    BY <1>2, <1>4, <1>8 DEF HandsOk, ByCall, ByConn
  <1>10. \A q \in Protos \ {p} : SameConns(q) /\ SameCalls(q)
    BY <1>2, <1>8 DEF SameConns, SameCalls
  <1>11. QED
    BY <1>1, <1>2, <1>3, <1>4, <1>9, <1>10, DoReturnUse

LEMMA ForceUse ==
  ASSUME WfInv, UseInv, NEW k \in Conns, NEW care \in BOOLEAN,
         ForceImmediateDisconnect(k, care)
  PROVE  UseInv'
  <1> DEFINE tm == IF care THEN StartedState(timer, TRUE) ELSE timer
  <1>1. PICK p \in Protos : conn[k].proto = p
    BY DEF ForceImmediateDisconnect, WfInv, TypeOK, Conn
  <1>2. /\ DoReturnProtocol(p, FALSE, call, takeCare', tm) /\ ConnEnded(k, "live")
        /\ UNCHANGED <<entryOf, pdsn, closing, returning>>
    BY <1>1 DEF ForceImmediateDisconnect
  <1> HIDE DEF tm
  <1>3. ByConn(p) /\ ~ByConn(p)' /\ ~ByCall(p) /\ \A q \in Protos \ {p} : SameConns(q)
    BY <1>1, <1>2, LeavesConn
  <1>4. Home(p) /\ InBusy(p) /\ returning[p] = "no"
    BY <1>3 DEF UseInv, UseOk, BusyIfUsed, OneUser
  <1>5. PICK e \in Entries : DecNBusyAll(pdsn[p], e, call, nIdleAll', takeCare', tm)
    BY <1>2, <1>4, DoReturnFinds
  <1>6. ASSUME NEW x \in Calls
        PROVE  Hand(call'[x]) = Hand(call[x]) /\ CallUse(call'[x], returning')
    <2>1. call[x] \in Call /\ call \in [Calls -> Call] /\ CallUse(call[x], returning)
      BY DEF WfInv, TypeOK, UseInv, HandsOk
    <2>2. call'[x] = call[x] \/ Woken(call[x], call'[x])
      BY <1>5, <2>1, DecWakes
    <2>3. QED
      BY <1>2, <2>1, <2>2, WokenFacts DEF Woken, Hand, CallUse
  <1>7. HandsOk' /\ ~ByCall(p)' /\ returning'[p] = "no"
    BY <1>2, <1>3, <1>4, <1>6 DEF HandsOk, ByCall
  <1>8. \A q \in Protos \ {p} : SameConns(q) /\ SameCalls(q) /\ returning'[q] = returning[q]
    BY <1>2, <1>3, <1>6 DEF SameCalls
  <1>9. QED
    BY <1>2, <1>3, <1>4, <1>7, <1>8, DoReturnUse

LEMMA CloseCompletesUse ==
  ASSUME WfInv, UseInv, NEW p \in Protos, CloseCompletes(p)
  PROVE  UseInv'
  <1>1. /\ closing[p] \in Entries /\ closing[p] # None
        /\ UNCHANGED <<busy, idle, pdsn, entryOf, returning, conn>>
        /\ closing' = [closing EXCEPT ![p] = None]
        /\ DecNBusyAll(pdsn[p], closing[p], call, nIdleAll, takeCare, timer)
    BY DEF CloseCompletes, WfInv, TypeOK
  <1>2. ASSUME NEW x \in Calls
        PROVE  Hand(call'[x]) = Hand(call[x]) /\ CallUse(call'[x], returning')
    <2>1. call[x] \in Call /\ call \in [Calls -> Call] /\ CallUse(call[x], returning)
      BY DEF WfInv, TypeOK, UseInv, HandsOk
    <2>2. call'[x] = call[x] \/ Woken(call[x], call'[x])
      BY <1>1, <2>1, DecWakes
    <2>3. QED
      BY <1>1, <2>1, <2>2, WokenFacts DEF Woken, Hand, CallUse
  <1>3. \A q \in Protos : SameCalls(q) /\ SameConns(q) /\ returning'[q] = returning[q]
    BY <1>1, <1>2 DEF SameCalls, SameConns
  <1>4. \A q \in Protos : closing'[q] = IF q = p THEN None ELSE closing[q]
    BY <1>1 DEF WfInv, TypeOK
  <1>5. \A q \in Protos \ {p} : UseSame(q)
    BY <1>1, <1>3, <1>4 DEF UseSame, SamePlaces
  <1>6. UseOk(p)'
    <2>1. UseOk(p)
      BY DEF UseInv
    <2>2. ~InBusy(p)' /\ ~InIdle(p)' /\ ~InBusy(p)
      BY <1>1, <2>1 DEF UseOk, Apart, InBusy, InIdle
    <2>3. ~ByConn(p)' /\ ~ByCall(p)' /\ returning'[p] = "no"
      BY <1>3, <2>1, <2>2 DEF UseOk, BusyIfUsed, ByConn, ByCall, SameCalls, SameConns
    <2>4. QED
      BY <2>2, <2>3 DEF UseOk, Home, Apart, BusyIfUsed, OneUser, InBusy, InIdle, ByConn, ByCall
  <1>7. HandsOk'
    BY <1>2 DEF HandsOk
  <1>8. QED
    BY <1>5, <1>6, <1>7, UseOne

(* #commonTask closes only idle connections; an entry that it deletes has    *)
(* none, and nobody uses its last one.                                       *)
LEMMA TaskBeginsUse ==
  ASSUME WfInv, UseInv, NEW r \in Runs, TaskBegins(r)
  PROVE  UseInv'
  <1> DEFINE close(e) == IdleToClose(e, r = Final)
             closed == UNION {close(e) : e \in Mapped}
  <1>1. /\ UNCHANGED <<call, busy, pdsn, conn, returning>>
        /\ idle' = [e \in Entries |-> IF e \in Mapped THEN idle[e] \ close(e) ELSE idle[e]]
        /\ closing' = [p \in Protos |-> IF p \in closed THEN CHOOSE e \in Mapped : p \in close(e)
                                        ELSE closing[p]]
        /\ \A d \in Dsns : \/ entryOf'[d] = entryOf[d]
                           \/ entryOf[d] # None /\ busy[entryOf[d]] = {} /\ idle'[entryOf[d]] = {}
    BY DEF TaskBegins, Removable
  <1>2. Mapped \subseteq Entries
    BY DEF Mapped, WfInv, TypeOK
  <1>3. \A e \in Mapped : close(e) \subseteq idle[e]
    BY DEF IdleToClose
  <1>4. \A p \in closed : \E e \in Mapped : p \in close(e)
    OBVIOUS
  <1> HIDE DEF closed
  <1>5. \A p \in closed : InIdle(p)
    BY <1>2, <1>3, <1>4 DEF InIdle
  <1>6. ASSUME NEW p \in Protos PROVE UseOk(p)'
    <2>1. UseOk(p)
      BY DEF UseInv
    <2>2. /\ InBusy(p)' <=> InBusy(p)
          /\ ByConn(p)' <=> ByConn(p)
          /\ ByCall(p)' <=> ByCall(p)
          /\ returning'[p] = returning[p]
          /\ InIdle(p)' => InIdle(p)
      BY <1>1 DEF InBusy, ByConn, ByCall, InIdle
    <2>3. Home(p)'
      <3> SUFFICES ASSUME NEW e \in Entries, p \in busy'[e] \cup idle'[e]
                   PROVE  pdsn'[p] \in Dsns /\ entryOf'[pdsn'[p]] = e
        BY DEF Home
      <3>1. p \in busy[e] \cup idle[e]
        BY <1>1
      <3>2. pdsn[p] \in Dsns /\ entryOf[pdsn[p]] = e
        BY <2>1, <3>1 DEF UseOk, Home
      <3>3. QED
        BY <1>1, <3>2
    <2>4. closing'[p] # None => ~InBusy(p) /\ ~InIdle(p)'
      <3>1. CASE p \in closed
        <4>1. ~InBusy(p)
          BY <1>5, <2>1, <3>1 DEF UseOk, Apart
        <4>2. PICK e \in Mapped : p \in close(e)
          BY <1>4, <3>1
        <4>3. p \in idle[e] /\ p \notin idle'[e] /\ e \in Entries
          BY <1>1, <1>2, <1>3, <4>2
        <4>4. \A f \in Entries : p \in idle[f] => f = e
          BY <2>1, <4>3 DEF UseOk, Home
        <4>5. ~InIdle(p)'
          BY <1>1, <4>3, <4>4 DEF InIdle
        <4>6. QED
          BY <4>1, <4>5
      <3>2. CASE p \notin closed
        <4>1. closing'[p] = closing[p]
          BY <1>1, <3>2
        <4>2. QED
          BY <2>1, <2>2, <4>1 DEF UseOk, Apart
      <3>3. QED
        BY <3>1, <3>2
    <2>5. Apart(p)' /\ BusyIfUsed(p)'
      BY <2>1, <2>2, <2>4 DEF UseOk, Apart, BusyIfUsed
    <2>6. OneUser(p)'
      BY <1>1, <2>1, <2>2 DEF UseOk, OneUser
    <2>7. QED
      BY <2>3, <2>5, <2>6 DEF UseOk
  <1>7. HandsOk'
    BY <1>1 DEF UseInv, HandsOk
  <1>8. QED
    BY <1>6, <1>7 DEF UseInv

(* Every step that strands no call keeps UseInv.                             *)
LEMMA NextUseInv ==
  ASSUME WfInv, ConnInv, PlaceInv, UseInv, [Next]_vars
  PROVE  UseInv'
  <1>1. ASSUME NEW c \in Calls, CallNext(c) PROVE UseInv'
    BY <1>1, CallStepsUse, PopIdleUse, NewConnOkUse, NewConnFailsUse, ConnectedUse,
       CallReturnsUse DEF CallNext
  <1>2. ASSUME NEW p \in Protos, ProtoNext(p) PROVE UseInv'
    <2>1. CASE Expire(p)
      BY <2>1, OtherUse DEF Expire
    <2>2. QED
      BY <1>2, <2>1, ReturnCompletesUse, CloseCompletesUse DEF ProtoNext
  <1>3. ASSUME NEW k \in Conns, ConnNext(k) PROVE UseInv'
    <2>1. CASE Create(k)
      <3>1. conn' = [conn EXCEPT ![k] = [conn[k] EXCEPT !.st = "live"]]
            /\ UNCHANGED <<call, busy, idle, closing, pdsn, entryOf, returning>>
        BY <2>1 DEF Create
      <3>2. \A x \in Conns : conn'[x].proto = conn[x].proto
        BY <3>1 DEF WfInv, TypeOK, Conn
      <3>3. QED
        BY <3>1, <3>2, OtherUse
    <2>2. ASSUME NEW c \in Calls, Connect(k, c) PROVE UseInv'
      <3>1. /\ GetProtocol(c, DsnOf[k], "connect", k, None) /\ DsnOf[k] \in Dsns
            /\ UNCHANGED <<busy, idle, closing, pdsn, returning>>
            /\ conn' = [conn EXCEPT ![k] = [conn[k] EXCEPT !.isConnecting = TRUE]]
        BY <2>2, PoolAssumption DEF Connect
      <3>2. \A x \in Conns : conn'[x].proto = conn[x].proto
        BY <3>1 DEF WfInv, TypeOK, Conn
      <3>3. QED
        BY <3>1, <3>2, GetProtocolUse
    <2>3. ASSUME NEW c \in Calls, KillQuery(k, c) PROVE UseInv'
      <3>1. /\ GetProtocol(c, DsnOf[k], "kill", k, None) /\ DsnOf[k] \in Dsns
            /\ UNCHANGED <<busy, idle, closing, pdsn, returning, conn>>
        BY <2>3, PoolAssumption DEF KillQuery
      <3>2. QED
        BY <3>1, GetProtocolUse
    <2>4. QED
      BY <1>3, <2>1, <2>2, <2>3, EndUse, ForceUse DEF ConnNext
  <1>4. ASSUME NEW r \in Runs, TaskNext(r) PROVE UseInv'
    <2>1. CASE TimerFires(r) \/ TaskAwaits(r) \/ TaskEnds(r) \/ \E i \in Protos : TaskRequeues(r, i)
      BY <2>1, OtherUse DEF TimerFires, TaskAwaits, TaskEnds, TaskRequeues
    <2>2. ASSUME NEW i \in Protos, NEW c \in Calls, TaskCares(r, i, c) PROVE UseInv'
      <3>1. /\ GetProtocol(c, pdsn[i], "care", None, i) /\ pdsn[i] \in Dsns
            /\ UNCHANGED <<busy, idle, closing, pdsn, returning, conn>>
        BY <2>2 DEF TaskCares, WfInv, DsnKnown
      <3>2. QED
        BY <3>1, GetProtocolUse
    <2>3. QED
      BY <1>4, <2>1, <2>2, TaskBeginsUse DEF TaskNext
  <1>5. CASE (\E e \in Entries : HealthLapses(e)) \/ UnrefLater \/ DisposeNext
    BY <1>5, OtherUse DEF HealthLapses, UnrefLater, DisposeNext, AsyncDispose, AllEnded,
                          CloseIdle, Disposed
  <1>6. CASE UNCHANGED vars
    BY <1>6, OtherUse DEF vars
  <1>7. QED
    BY <1>1, <1>2, <1>3, <1>4, <1>5, <1>6 DEF Next

-----------------------------------------------------------------------------
(* References to the pool.  What a disposed MyConn gives back holds its      *)
(* reference until returnProtocol() ends.                                    *)

Live == {k \in Conns : conn[k].st = "live"}

RefInv ==
    /\ IsFiniteSet(Live)
    /\ \A p \in unrefThen : returning[p] # "no"
    /\ useCnt = Cardinality(Live) + Cardinality(unrefThen) + unrefs

(* unrefThen is a finite set.                                                *)
LEMMA UnrefFinite == WfInv => IsFiniteSet(unrefThen) /\ Cardinality(unrefThen) \in Nat
  BY PoolAssumption, FS_Subset, FS_CardinalityType DEF WfInv, TypeOK

(* No MyConn was made.                                                       *)
LEMMA InitRefInv == Init => RefInv
  <1> SUFFICES ASSUME Init PROVE RefInv
    OBVIOUS
  <1>1. Live = {} /\ unrefThen = {} /\ useCnt = 0 /\ unrefs = 0
    BY DEF Init, Live
  <1>2. QED
    BY <1>1, FS_EmptySet DEF RefInv

(* Steps that take or give no reference                                      *)
LEMMA RefFrame ==
  ASSUME RefInv, UNCHANGED <<useCnt, unrefThen, unrefs>>,
         \A k \in Conns : conn'[k].st = "live" <=> conn[k].st = "live",
         \A p \in unrefThen : returning[p] # "no" => returning'[p] # "no"
  PROVE  RefInv'
  <1>1. Live' = Live
    BY DEF Live
  <1>2. QED
    BY <1>1 DEF RefInv

(* returnProtocol() begins, for a MyConn that remains.                       *)
LEMMA ReturnRef ==
  ASSUME WfInv, RefInv, UNCHANGED <<useCnt, unrefs>>, NEW p, NEW m, ReturnProtocol(p, m, FALSE),
         \A k \in Conns : conn'[k].st = "live" <=> conn[k].st = "live"
  PROVE  RefInv'
  <1>1. UNCHANGED unrefThen
    BY DEF ReturnProtocol
  <1>2. PICK x : x # "no" /\ returning' = [returning EXCEPT ![p] = x]
    BY ReturnProtocolSets
  <1>3. \A q \in Protos : returning[q] # "no" => returning'[q] # "no"
    BY <1>2 DEF WfInv, TypeOK
  <1>4. unrefThen \subseteq Protos
    BY DEF WfInv, TypeOK
  <1>5. QED
    BY <1>1, <1>3, <1>4, RefFrame

(* new MyConn, its disposal, and the ends of the latter                      *)
LEMMA CreateRef ==
  ASSUME WfInv, RefInv, NEW k \in Conns, Create(k)
  PROVE  RefInv'
  <1>1. conn' = [conn EXCEPT ![k] = [conn[k] EXCEPT !.st = "live"]] /\ conn[k].st = "unborn"
    BY DEF Create
  <1>2. \A x \in Conns : conn'[x].st = IF x = k THEN "live" ELSE conn[x].st
    BY <1>1 DEF WfInv, TypeOK, Conn
  <1>3. Live' = Live \cup {k} /\ k \notin Live
    BY <1>1, <1>2 DEF Live
  <1>4. IsFiniteSet(Live') /\ Cardinality(Live') = Cardinality(Live) + 1
    BY <1>3, FS_AddElement DEF RefInv
  <1>5. Cardinality(Live) \in Nat /\ Cardinality(unrefThen) \in Nat /\ unrefs \in Nat
    BY UnrefFinite, FS_CardinalityType DEF RefInv, WfInv, TypeOK
  <1>6. useCnt' = useCnt + 1 /\ UNCHANGED <<unrefThen, unrefs, returning>>
    BY DEF Create
  <1>7. useCnt' = Cardinality(Live') + Cardinality(unrefThen') + unrefs'
    BY <1>4, <1>5, <1>6 DEF RefInv
  <1>8. QED
    BY <1>4, <1>6, <1>7 DEF RefInv

LEMMA DisposeRef ==
  ASSUME WfInv, UseInv, RefInv, NEW k \in Conns, Dispose(k)
  PROVE  RefInv'
  <1>1. conn[k].st = "live" /\ ConnEnded(k, "disposed") /\ UNCHANGED unrefs
    BY DEF Dispose
  <1>2. \A x \in Conns : conn'[x].st = IF x = k THEN "disposed" ELSE conn[x].st
    BY <1>1 DEF ConnEnded, WfInv, TypeOK
  <1>3. Live' = Live \ {k} /\ k \in Live
    BY <1>1, <1>2 DEF Live
  <1>4. IsFiniteSet(Live') /\ Cardinality(Live') = Cardinality(Live) - 1
    BY <1>3, FS_RemoveElement DEF RefInv
  <1>5. Cardinality(Live) \in Nat /\ Cardinality(unrefThen) \in Nat /\ unrefs \in Nat
    BY UnrefFinite, FS_CardinalityType DEF RefInv, WfInv, TypeOK
  <1>6. CASE conn[k].proto = None
    <2>1. useCnt' = useCnt - 1 /\ UNCHANGED <<unrefThen, returning>>
      BY <1>6 DEF Dispose, Unref
    <2>2. useCnt' = Cardinality(Live') + Cardinality(unrefThen') + unrefs'
      BY <1>1, <1>4, <1>5, <2>1 DEF RefInv
    <2>3. QED
      BY <1>4, <2>1, <2>2 DEF RefInv
  <1>7. CASE conn[k].proto # None
    <2> PICK p \in Protos : conn[k].proto = p
      BY <1>7 DEF WfInv, TypeOK, Conn
    <2>1. ReturnProtocol(p, TRUE, TRUE) /\ UNCHANGED useCnt
      BY <1>7 DEF Dispose
    <2>2. returning[p] = "no"
      BY DEF UseInv, UseOk, OneUser, ByConn
    <2>3. unrefThen' = unrefThen \cup {p} /\ p \notin unrefThen
      BY <2>1, <2>2 DEF ReturnProtocol, RefInv
    <2>4. Cardinality(unrefThen') = Cardinality(unrefThen) + 1
      BY <2>3, UnrefFinite, FS_AddElement
    <2>5. useCnt' = Cardinality(Live') + Cardinality(unrefThen') + unrefs'
      BY <1>1, <1>4, <1>5, <2>1, <2>4 DEF RefInv
    <2>6. PICK x : x # "no" /\ returning' = [returning EXCEPT ![p] = x]
      BY <2>1, ReturnProtocolSets
    <2>7. \A q \in unrefThen' : returning'[q] # "no"
      BY <2>3, <2>6 DEF RefInv, WfInv, TypeOK
    <2>8. QED
      BY <1>4, <2>5, <2>7 DEF RefInv
  <1>8. QED
    BY <1>6, <1>7

LEMMA ReturnCompletesRef ==
  ASSUME WfInv, RefInv, NEW p \in Protos, ReturnCompletes(p)
  PROVE  RefInv'
  <1>1. /\ UNCHANGED <<useCnt, conn>> /\ unrefThen' = unrefThen \ {p}
        /\ unrefs' = IF p \in unrefThen THEN unrefs + 1 ELSE unrefs
        /\ returning' = [returning EXCEPT ![p] = "no"]
    BY DEF ReturnCompletes
  <1>2. Live' = Live
    BY <1>1 DEF Live
  <1>3. Cardinality(unrefThen') = IF p \in unrefThen THEN Cardinality(unrefThen) - 1
                                                      ELSE Cardinality(unrefThen)
    BY <1>1, UnrefFinite, FS_RemoveElement
  <1>4. Cardinality(Live) \in Nat /\ Cardinality(unrefThen) \in Nat /\ unrefs \in Nat
    BY UnrefFinite, FS_CardinalityType DEF RefInv, WfInv, TypeOK
  <1>5. useCnt' = Cardinality(Live') + Cardinality(unrefThen') + unrefs'
    <2>1. CASE p \in unrefThen
      <3>1. Cardinality(unrefThen') = Cardinality(unrefThen) - 1 /\ unrefs' = unrefs + 1
        BY <1>1, <1>3, <2>1
      <3>2. QED
        BY <1>1, <1>2, <1>4, <3>1 DEF RefInv
    <2>2. CASE p \notin unrefThen
      BY <1>1, <1>2, <1>3, <1>4, <2>2 DEF RefInv
    <2>3. QED
      BY <2>1, <2>2
  <1>6. \A q \in unrefThen' : returning'[q] # "no"
    BY <1>1 DEF RefInv, WfInv, TypeOK
  <1>7. QED
    BY <1>2, <1>5, <1>6 DEF RefInv

LEMMA UnrefLaterRef ==
  ASSUME WfInv, RefInv, UnrefLater
  PROVE  RefInv'
  <1>1. /\ useCnt' = useCnt - 1 /\ unrefs' = unrefs - 1
        /\ UNCHANGED <<unrefThen, conn, returning>>
    BY DEF UnrefLater, Unref
  <1>2. Live' = Live
    BY <1>1 DEF Live
  <1>3. Cardinality(Live) \in Nat /\ Cardinality(unrefThen) \in Nat /\ unrefs \in Nat
    BY UnrefFinite, FS_CardinalityType DEF RefInv, WfInv, TypeOK
  <1>4. useCnt' = Cardinality(Live') + Cardinality(unrefThen') + unrefs'
    BY <1>1, <1>2, <1>3 DEF RefInv
  <1>5. QED
    BY <1>1, <1>2, <1>4 DEF RefInv

(* Every step keeps RefInv.                                                  *)
LEMMA NextRefInv ==
  ASSUME WfInv, UseInv, RefInv, [Next]_vars
  PROVE  RefInv'
  <1>1. ASSUME UNCHANGED <<useCnt, unrefThen, unrefs, conn, returning>> PROVE RefInv'
    BY <1>1, RefFrame
  <1>2. ASSUME NEW c \in Calls, CallNext(c) PROVE RefInv'
    <2>1. CASE KillSent(c) \/ CareDelivered(c)
      <3>1. UNCHANGED <<useCnt, unrefs, conn>> /\ \E m : ReturnProtocol(call[c].proto, m, FALSE)
        BY <2>1 DEF KillSent, CareDelivered
      <3>2. QED
        BY <3>1, ReturnRef
    <2>2. CASE Connected(c)
      <3>1. \A k \in Conns : conn'[k].st = "live" <=> conn[k].st = "live"
        <4> DEFINE k == call[c].conn
                   r == [conn[k] EXCEPT !.proto = call[c].proto, !.isConnecting = FALSE]
        <4>1. UNCHANGED conn \/ conn' = [conn EXCEPT ![k] = r]
          BY <2>2 DEF Connected
        <4>2. k \in Conns => r.st = conn[k].st
          BY DEF WfInv, TypeOK, Conn
        <4> HIDE DEF r
        <4>3. QED
          BY <4>1, <4>2 DEF WfInv, TypeOK
      <3>2. UNCHANGED <<useCnt, unrefs>> /\ (UNCHANGED <<unrefThen, returning>> \/ ReturnProtocol(call[c].proto, TRUE, FALSE))
        BY <2>2 DEF Connected
      <3>3. QED
        BY <3>1, <3>2, RefFrame, ReturnRef
    <2>3. CASE ConnectFails(c)
      <3>1. /\ UNCHANGED <<useCnt, unrefThen, unrefs, returning>>
            /\ conn' = [conn EXCEPT ![call[c].conn] = [conn[call[c].conn] EXCEPT !.isConnecting = FALSE]]
        BY <2>3 DEF ConnectFails
      <3>2. \A k \in Conns : conn'[k].st = conn[k].st
        BY <3>1 DEF WfInv, TypeOK, Conn
      <3>3. QED
        BY <3>1, <3>2, RefFrame
    <2>4. QED
      BY <1>1, <1>2, <2>1, <2>2, <2>3
      DEF CallNext, WaitTimesOut, WaitEnds, PopIdle, PopNothing, ClearDisconnected, NewConnOk,
          NewConnFails, KillSend, KillFails, CareFails
  <1>3. ASSUME NEW p \in Protos, ProtoNext(p) PROVE RefInv'
    BY <1>1, <1>3, ReturnCompletesRef DEF ProtoNext, CloseCompletes, Expire
  <1>4. ASSUME NEW k \in Conns, ConnNext(k) PROVE RefInv'
    <2>1. CASE End(k)
      <3>1. conn[k].st = "live" /\ ConnEnded(k, "live") /\ UNCHANGED <<useCnt, unrefs>>
            /\ (UNCHANGED <<returning, unrefThen>> \/ ReturnProtocol(conn[k].proto, TRUE, FALSE))
        BY <2>1 DEF End
      <3>2. \A x \in Conns : conn'[x].st = "live" <=> conn[x].st = "live"
        BY <3>1 DEF ConnEnded, WfInv, TypeOK
      <3>3. QED
        BY <3>1, <3>2, RefFrame, ReturnRef
    <2>2. ASSUME NEW care \in BOOLEAN, ForceImmediateDisconnect(k, care) PROVE RefInv'
      <3>1. conn[k].st = "live" /\ ConnEnded(k, "live") /\ UNCHANGED <<useCnt, unrefs, returning, unrefThen>>
        BY <2>2 DEF ForceImmediateDisconnect
      <3>2. \A x \in Conns : conn'[x].st = "live" <=> conn[x].st = "live"
        BY <3>1 DEF ConnEnded, WfInv, TypeOK
      <3>3. QED
        BY <3>1, <3>2, RefFrame
    <2>3. ASSUME NEW c \in Calls, Connect(k, c) PROVE RefInv'
      <3>1. /\ UNCHANGED <<useCnt, unrefs, returning, unrefThen>>
            /\ conn' = [conn EXCEPT ![k] = [conn[k] EXCEPT !.isConnecting = TRUE]]
        BY <2>3 DEF Connect
      <3>2. \A x \in Conns : conn'[x].st = conn[x].st
        BY <3>1 DEF WfInv, TypeOK, Conn
      <3>3. QED
        BY <3>1, <3>2, RefFrame
    <2>4. ASSUME NEW c \in Calls, KillQuery(k, c) PROVE RefInv'
      BY <1>1, <2>4 DEF KillQuery
    <2>5. QED
      BY <1>4, <2>1, <2>2, <2>3, <2>4, CreateRef, DisposeRef DEF ConnNext
  <1>5. ASSUME NEW r \in Runs, TaskNext(r) PROVE RefInv'
    BY <1>1, <1>5 DEF TaskNext, TimerFires, TaskBegins, TaskAwaits, TaskEnds, TaskRequeues, TaskCares
  <1>6. CASE (\E e \in Entries : HealthLapses(e)) \/ DisposeNext \/ UNCHANGED vars
    BY <1>1, <1>6 DEF HealthLapses, DisposeNext, AsyncDispose, AllEnded, CloseIdle, Disposed, vars
  <1>7. QED
    BY <1>2, <1>3, <1>4, <1>5, <1>6, UnrefLaterRef DEF Next

-----------------------------------------------------------------------------
(* The behaviours in which no entry is deleted while a call waits for it     *)

StrandsNone == [][NoneStranded]_vars

HInv == IInv /\ ConnInv /\ PlaceInv /\ UseInv /\ RefInv

(* HInv holds in all of them.                                                *)
LEMMA SpecHInv == Spec /\ StrandsNone => []HInv
  <1>1. Init => HInv
    BY InitWfInv, InitSlotInv, InitConnInv, InitUseInv, InitRefInv DEF HInv, IInv
  <1>2. HInv /\ [Next]_vars /\ [NoneStranded]_vars => HInv'
    BY NextWfInv, NextSlotInv, NextConnInv, NextPlaceInv, NextUseInv, NextRefInv DEF HInv, IInv
  <1>3. QED
    BY <1>1, <1>2, PTL DEF Spec, StrandsNone

(* What it is to be one of the users of a connection                         *)
LEMMA UsersFacts ==
  ASSUME WfInv, NEW p \in Protos, NEW u \in Users(p)
  PROVE  \/ \E k \in Conns : u = <<"conn", k>> /\ conn[k].proto = p
         \/ \E c \in Calls : u = <<"call", c>> /\ Hand(call[c]) = p
         \/ u = <<"returnProtocol", p>> /\ returning[p] # "no"
         \/ u = <<"closeConn", closing[p]>> /\ closing[p] # None
  BY DEF Users, Hand

(* A set with at most one element                                            *)
LEMMA AtMostOne ==
  ASSUME NEW S, \A u, v \in S : u = v
  PROVE  Cardinality(S) <= 1
  <1>1. CASE S = {}
    BY <1>1, FS_EmptySet
  <1>2. CASE S # {}
    <2>1. PICK u : u \in S
      BY <1>2
    <2>2. S = {u}
      BY <2>1
    <2>3. Cardinality({u}) = 1
      BY FS_Singleton
    <2>4. QED
      BY <2>2, <2>3
  <1>3. QED
    BY <1>1, <1>2

(* UseInv says what ExclusiveUse says.                                       *)
LEMMA UseIsExclusive ==
  ASSUME WfInv, UseInv
  PROVE  ExclusiveUse
  <1> SUFFICES ASSUME NEW p \in Protos
               PROVE  /\ Cardinality(Users(p)) <= 1
                      /\ (\E u \in Users(p) : u[1] # "closeConn")
                            => entryOf[pdsn[p]] # None /\ p \in busy[entryOf[pdsn[p]]]
                      /\ \A e, f \in Entries : p \in idle[e] =>
                            /\ Users(p) = {}
                            /\ p \in idle[f] => e = f
    BY DEF ExclusiveUse
  <1>1. Home(p) /\ Apart(p) /\ BusyIfUsed(p) /\ OneUser(p)
    BY DEF UseInv, UseOk
  <1>2. \A u \in Users(p) :
            \/ InBusy(p) /\ ~(u[1] = "closeConn")
            \/ ~InBusy(p) /\ ~InIdle(p) /\ u = <<"closeConn", closing[p]>>
    BY <1>1, UsersFacts DEF Apart, BusyIfUsed, ByConn, ByCall
  <1>3. \A u, v \in Users(p) : u = v
    <2> SUFFICES ASSUME NEW u \in Users(p), NEW v \in Users(p) PROVE u = v
      OBVIOUS
    <2>1. /\ \/ \E k \in Conns : u = <<"conn", k>> /\ conn[k].proto = p
             \/ \E c \in Calls : u = <<"call", c>> /\ Hand(call[c]) = p
             \/ u = <<"returnProtocol", p>> /\ returning[p] # "no"
             \/ u = <<"closeConn", closing[p]>> /\ closing[p] # None
          /\ \/ \E k \in Conns : v = <<"conn", k>> /\ conn[k].proto = p
             \/ \E c \in Calls : v = <<"call", c>> /\ Hand(call[c]) = p
             \/ v = <<"returnProtocol", p>> /\ returning[p] # "no"
             \/ v = <<"closeConn", closing[p]>> /\ closing[p] # None
      BY UsersFacts
    <2>2. QED
      BY <1>1, <2>1 DEF Apart, BusyIfUsed, OneUser, ByConn, ByCall
  <1>4. Cardinality(Users(p)) <= 1
    BY <1>3, AtMostOne
  <1>5. InBusy(p) => entryOf[pdsn[p]] # None /\ p \in busy[entryOf[pdsn[p]]]
    BY <1>1, PoolAssumption DEF InBusy, Home
  <1>6. (\E u \in Users(p) : u[1] # "closeConn") => InBusy(p)
    BY <1>2
  <1>7. ASSUME NEW e \in Entries, NEW f \in Entries, p \in idle[e]
        PROVE  Users(p) = {} /\ (p \in idle[f] => e = f)
    <2>1. InIdle(p) /\ ~InBusy(p)
      BY <1>1, <1>7 DEF InIdle, Apart
    <2>2. Users(p) = {}
      BY <1>2, <2>1
    <2>3. p \in idle[f] => e = f
      BY <1>1, <1>7 DEF Home
    <2>4. QED
      BY <2>2, <2>3
  <1>8. QED
    BY <1>4, <1>5, <1>6, <1>7

(* As long as #commonTask deletes no entry that a call waits for, a          *)
(* connection has at most one user, an idle one has none, and one in use is  *)
(* in the busy array where #doReturnProtocol() looks for it: for any number  *)
(* of MyConns, DSNs, connections and calls, and whatever the interleaving of *)
(* connect(), end(), dispose(), popping, stealing, and closing.              *)
THEOREM PoolExclusiveUse == Spec /\ StrandsNone => []ExclusiveUse
  <1>1. HInv => ExclusiveUse
    BY UseIsExclusive DEF HInv, IInv
  <1>2. QED
    BY <1>1, SpecHInv, PTL

(* As long as #commonTask deletes no entry that a call waits for, each       *)
(* connection that occupies a slot has a user or is on its way back, and the *)
(* references to the pool are those of the MyConns, and of the disposed ones *)
(* whose connection is on its way back.                                      *)
THEOREM PoolNoneLeaked == Spec /\ StrandsNone => []NoneLeaked
  <1>1. ASSUME HInv PROVE NoneLeaked
    <2>1. ASSUME NEW p \in Protos, InBusy(p) PROVE Users(p) # {}
      <3>1. ByConn(p) \/ ByCall(p) \/ returning[p] # "no"
        BY <1>1, <2>1 DEF HInv, UseInv, UseOk, BusyIfUsed
      <3>2. p # None
        BY PoolAssumption
      <3>3. CASE ByConn(p)
        BY <3>3 DEF ByConn, Users
      <3>4. CASE ByCall(p)
        BY <3>2, <3>4 DEF ByCall, Hand, Users
      <3>5. CASE returning[p] # "no"
        BY <3>5 DEF Users
      <3>6. QED
        BY <3>1, <3>3, <3>4, <3>5
    <2>2. QED
      BY <1>1, <2>1 DEF HInv, RefInv, Live, NoneLeaked
  <1>2. QED
    BY <1>1, SpecHInv, PTL

-----------------------------------------------------------------------------
(* The counters of the pool                                                  *)

BusyProtos == {p \in Protos : InBusy(p)}
IdleProtos == {p \in Protos : InIdle(p)}
ClosingProtos == {p \in Protos : closing[p] # None}
ConnectingCalls == {c \in Calls : call[c].pc = "connecting"}

CountInv ==
    /\ nBusyAll = Cardinality(BusyProtos) + Cardinality(ConnectingCalls) + Cardinality(ClosingProtos)
    /\ nIdleAll = Cardinality(IdleProtos)

(* What is counted is finite.                                                *)
LEMMA CountFinite ==
  /\ IsFiniteSet(BusyProtos) /\ Cardinality(BusyProtos) \in Nat
  /\ IsFiniteSet(IdleProtos) /\ Cardinality(IdleProtos) \in Nat
  /\ IsFiniteSet(ClosingProtos) /\ Cardinality(ClosingProtos) \in Nat
  /\ IsFiniteSet(ConnectingCalls) /\ Cardinality(ConnectingCalls) \in Nat
  BY PoolAssumption, FS_Subset, FS_CardinalityType
  DEF BusyProtos, IdleProtos, ClosingProtos, ConnectingCalls

(* Nothing is counted in a new pool.                                         *)
LEMMA InitCountInv == Init => CountInv
  <1> SUFFICES ASSUME Init PROVE CountInv
    OBVIOUS
  <1>1. \A c \in Calls : call[c].pc = "free"
    BY DEF Init, FreeCall
  <1>2. BusyProtos = {} /\ IdleProtos = {} /\ ClosingProtos = {} /\ ConnectingCalls = {}
    BY <1>1 DEF Init, BusyProtos, IdleProtos, ClosingProtos, ConnectingCalls, InBusy, InIdle
  <1>3. nBusyAll = 0 /\ nIdleAll = 0
    BY DEF Init
  <1>4. QED
    BY <1>2, <1>3, FS_EmptySet DEF CountInv

SameConnecting == \A c \in Calls : call'[c].pc = "connecting" <=> call[c].pc = "connecting"

(* Steps that move no connection                                             *)
LEMMA CountFrame ==
  ASSUME CountInv, UNCHANGED <<nBusyAll, nIdleAll, busy, idle, closing>>, SameConnecting
  PROVE  CountInv'
  <1>1. /\ BusyProtos' = BusyProtos /\ IdleProtos' = IdleProtos /\ ClosingProtos' = ClosingProtos
        /\ ConnectingCalls' = ConnectingCalls
    BY DEF BusyProtos, IdleProtos, ClosingProtos, ConnectingCalls, InBusy, InIdle, SameConnecting
  <1>2. QED
    BY <1>1 DEF CountInv

(* One call moves on, and is not one that connects.                          *)
LEMMA CountOneCall ==
  ASSUME WfInv, CountInv, UNCHANGED <<nBusyAll, nIdleAll, busy, idle, closing>>,
         NEW c \in Calls, NEW r, call' = [call EXCEPT ![c] = r],
         r.pc = "connecting" <=> call[c].pc = "connecting"
  PROVE  CountInv'
  <1>1. SameConnecting
    BY DEF SameConnecting, WfInv, TypeOK
  <1>2. QED
    BY <1>1, CountFrame

LEMMA CallStepsCount ==
  ASSUME WfInv, CountInv, NEW c \in Calls,
         \/ \E late \in BOOLEAN : WaitTimesOut(c, late)
         \/ WaitEnds(c) \/ ClearDisconnected(c) \/ Connected(c) \/ ConnectFails(c)
         \/ KillSend(c) \/ KillSent(c) \/ KillFails(c) \/ CareDelivered(c) \/ CareFails(c)
  PROVE  CountInv'
  <1>1. call[c] \in Call
    BY DEF WfInv, TypeOK
  <1>2. UNCHANGED <<nBusyAll, nIdleAll, busy, idle, closing>>
    BY DEF WaitTimesOut, WaitEnds, ClearDisconnected, Connected, ConnectFails, KillSend, KillSent,
           KillFails, CareDelivered, CareFails
  <1>3. ASSUME NEW pc, pc # "connecting", call[c].pc # "connecting",
               call' = [call EXCEPT ![c] = [call[c] EXCEPT !.pc = pc]]
        PROVE  CountInv'
    <2> DEFINE r == [call[c] EXCEPT !.pc = pc]
    <2>1. r.pc = pc
      BY <1>1 DEF Call
    <2>2. call' = [call EXCEPT ![c] = r]
      BY <1>3
    <2> HIDE DEF r
    <2>3. QED
      BY <1>2, <1>3, <2>1, <2>2, CountOneCall
  <1>4. CASE \E late \in BOOLEAN : WaitTimesOut(c, late)
    <2>1. PICK late \in BOOLEAN : WaitTimesOut(c, late)
      BY <1>4
    <2> DEFINE pc == IF late THEN "late" ELSE "woken"
    <2>2. pc \in {"late", "woken"} /\ call[c].pc = "waiting"
          /\ call' = [call EXCEPT ![c] = [call[c] EXCEPT !.pc = pc]]
      BY <2>1 DEF WaitTimesOut
    <2> HIDE DEF pc
    <2>3. QED
      BY <1>3, <2>2
  <1>5. CASE WaitEnds(c)
    <2>1. /\ call[c].pc \in {"woken", "late"}
          /\ WaitForSlot(c, call[c], call[c].pc = "late")
      BY <1>5 DEF WaitEnds
    <2>2. PICK pc \in {"popping", "failed", "waiting"} :
              call' = [call EXCEPT ![c] = [call[c] EXCEPT !.pc = pc]]
      BY <2>1 DEF WaitForSlot
    <2>3. QED
      BY <1>3, <2>1, <2>2
  <1>6. CASE ClearDisconnected(c)
    <2>1. PICK i : call' = [call EXCEPT ![c] = [call[c] EXCEPT !.held = @ \cup {i}]]
      BY <1>6 DEF ClearDisconnected
    <2> DEFINE r == [call[c] EXCEPT !.held = @ \cup {i}]
    <2>2. r.pc = call[c].pc
      BY <1>1 DEF Call
    <2>3. call' = [call EXCEPT ![c] = r]
      BY <2>1
    <2> HIDE DEF r
    <2>4. QED
      BY <1>2, <2>2, <2>3, CountOneCall
  <1>7. CASE KillSend(c)
    BY <1>3, <1>7 DEF KillSend
  <1>8. CASE Connected(c) \/ ConnectFails(c) \/ KillSent(c) \/ KillFails(c) \/ CareFails(c)
    <2>1. call' = [call EXCEPT ![c] = FreeCall] /\ call[c].pc # "connecting"
      BY <1>8 DEF Connected, ConnectFails, KillSent, KillFails, CareFails
    <2>2. FreeCall.pc # "connecting"
      BY DEF FreeCall
    <2>3. QED
      BY <1>2, <2>1, <2>2, CountOneCall
  <1>9. CASE CareDelivered(c)
    <2> DEFINE r == [call[c] EXCEPT !.pc = "returning", !.info = None]
    <2>1. r.pc = "returning"
      BY <1>1 DEF Call
    <2>2. call' = [call EXCEPT ![c] = r] /\ call[c].pc # "connecting"
      BY <1>9 DEF CareDelivered
    <2> HIDE DEF r
    <2>3. QED
      BY <1>2, <2>1, <2>2, CountOneCall
  <1>10. QED
    BY <1>4, <1>5, <1>6, <1>7, <1>8, <1>9

LEMMA GetProtocolCount ==
  ASSUME WfInv, CountInv, NEW c \in Calls, NEW d \in Dsns, NEW kind \in {"connect", "kill", "care"},
         NEW k \in Conns \cup {None}, NEW info \in Protos \cup {None},
         GetProtocol(c, d, kind, k, info), UNCHANGED <<nBusyAll, nIdleAll, busy, idle, closing>>
  PROVE  CountInv'
  <1>1. PICK r \in Call : /\ call' = [call EXCEPT ![c] = r]
                          /\ r.pc \in {"popping", "failed", "waiting"}
    BY GetProtocolEntry
  <1>2. call[c].pc = "free"
    BY DEF GetProtocol
  <1>3. QED
    BY <1>1, <1>2, CountOneCall

(* An idle connection is popped: nIdleAll-- and nBusyAll++, because it is in *)
(* use or being closed.                                                      *)
LEMMA PopIdleCount ==
  ASSUME WfInv, UseInv, CountInv, NEW c \in Calls, NEW p \in Protos, PopIdle(c, p)
  PROVE  CountInv'
  <1>1. PICK e \in Entries : call[c].entry = e
    BY CallFacts DEF PopIdle
  <1>2. /\ call[c].pc = "popping" /\ p \in Poppable(c) /\ call[c] \in Call
        /\ idle' = [x \in Entries |-> idle[x] \ {p}]
        /\ nIdleAll' = nIdleAll - 1 /\ nBusyAll' = nBusyAll + 1
    BY DEF PopIdle, WfInv, TypeOK
  <1>3. InIdle(p) /\ ~InBusy(p) /\ closing[p] = None
    <2>1. Mapped \subseteq Entries
      BY DEF Mapped, WfInv, TypeOK
    <2>2. InIdle(p)
      BY <1>1, <1>2, <2>1 DEF Poppable, InIdle
    <2>3. QED
      BY <2>2 DEF UseInv, UseOk, Apart
  <1>4. Cardinality(IdleProtos') = Cardinality(IdleProtos) - 1
    <2>1. IdleProtos' = IdleProtos \ {p} /\ p \in IdleProtos
      BY <1>2, <1>3 DEF IdleProtos, InIdle
    <2>2. QED
      BY <2>1, CountFinite, FS_RemoveElement
  <1>5. CASE p \in expired
    <2>1. UNCHANGED <<busy, call>> /\ closing' = [closing EXCEPT ![p] = e]
      BY <1>1, <1>5 DEF PopIdle
    <2>2. BusyProtos' = BusyProtos /\ ConnectingCalls' = ConnectingCalls
      BY <2>1 DEF BusyProtos, ConnectingCalls, InBusy
    <2>3. ClosingProtos' = ClosingProtos \cup {p} /\ p \notin ClosingProtos
      BY <1>3, <2>1, PoolAssumption DEF ClosingProtos, WfInv, TypeOK
    <2>4. Cardinality(ClosingProtos') = Cardinality(ClosingProtos) + 1
      BY <2>3, CountFinite, FS_AddElement
    <2>5. QED
      BY <1>2, <1>4, <2>2, <2>4, CountFinite DEF CountInv
  <1>6. CASE p \notin expired
    <2> DEFINE r == [call[c] EXCEPT !.pc = "delivered", !.proto = p]
    <2>1. r.pc = "delivered"
      BY <1>2 DEF Call
    <2>2. /\ busy' = [busy EXCEPT ![e] = @ \cup {p}] /\ UNCHANGED closing
          /\ call' = [call EXCEPT ![c] = r]
      BY <1>1, <1>6 DEF PopIdle
    <2> HIDE DEF r
    <2>3. ClosingProtos' = ClosingProtos /\ ConnectingCalls' = ConnectingCalls
      BY <1>2, <2>1, <2>2 DEF ClosingProtos, ConnectingCalls, WfInv, TypeOK
    <2>4. BusyProtos' = BusyProtos \cup {p} /\ p \notin BusyProtos
      BY <1>3, <2>2 DEF BusyProtos, InBusy, WfInv, TypeOK
    <2>5. Cardinality(BusyProtos') = Cardinality(BusyProtos) + 1
      BY <2>4, CountFinite, FS_AddElement
    <2>6. QED
      BY <1>2, <1>4, <2>3, <2>5, CountFinite DEF CountInv
  <1>7. QED
    BY <1>5, <1>6

(* A new connection is counted from the moment it is begun.                  *)
LEMMA PopNothingCount ==
  ASSUME WfInv, CountInv, NEW c \in Calls, PopNothing(c)
  PROVE  CountInv'
  <1> DEFINE r == [call[c] EXCEPT !.pc = "connecting"]
  <1>1. /\ call' = [call EXCEPT ![c] = r] /\ call[c].pc = "popping" /\ r.pc = "connecting"
        /\ nBusyAll' = nBusyAll + 1 /\ UNCHANGED <<nIdleAll, busy, idle, closing>>
    BY DEF PopNothing, WfInv, TypeOK, Call
  <1> HIDE DEF r
  <1>2. /\ BusyProtos' = BusyProtos /\ IdleProtos' = IdleProtos /\ ClosingProtos' = ClosingProtos
    BY <1>1 DEF BusyProtos, IdleProtos, ClosingProtos, InBusy, InIdle
  <1>3. ConnectingCalls' = ConnectingCalls \cup {c} /\ c \notin ConnectingCalls
    BY <1>1 DEF ConnectingCalls, WfInv, TypeOK
  <1>4. Cardinality(ConnectingCalls') = Cardinality(ConnectingCalls) + 1
    BY <1>3, CountFinite, FS_AddElement
  <1>5. QED
    BY <1>1, <1>2, <1>4, CountFinite DEF CountInv

LEMMA NewConnOkCount ==
  ASSUME WfInv, CountInv, NEW c \in Calls, NewConnOk(c)
  PROVE  CountInv'
  <1>1. PICK e \in Entries : call[c].entry = e
    BY CallFacts DEF NewConnOk
  <1>2. PICK p \in FreeProtos :
            /\ busy' = [busy EXCEPT ![e] = @ \cup {p}]
            /\ call' = [call EXCEPT ![c].pc = "delivered", ![c].proto = p, ![c].held = {}]
    BY <1>1 DEF NewConnOk
  <1> DEFINE r == [call[c] EXCEPT !.pc = "delivered", !.proto = p, !.held = {}]
  <1>3. call' = [call EXCEPT ![c] = r] /\ r.pc = "delivered"
    BY <1>2 DEF WfInv, TypeOK, Call
  <1> HIDE DEF r
  <1>4. call[c].pc = "connecting" /\ UNCHANGED <<nBusyAll, nIdleAll, idle, closing>>
    BY DEF NewConnOk
  <1>5. /\ IdleProtos' = IdleProtos /\ ClosingProtos' = ClosingProtos
    BY <1>4 DEF IdleProtos, ClosingProtos, InIdle
  <1>6. BusyProtos' = BusyProtos \cup {p} /\ p \notin BusyProtos
    BY <1>2 DEF BusyProtos, InBusy, WfInv, TypeOK, FreeProtos
  <1>7. ConnectingCalls' = ConnectingCalls \ {c} /\ c \in ConnectingCalls
    BY <1>3, <1>4 DEF ConnectingCalls, WfInv, TypeOK
  <1>8. /\ Cardinality(BusyProtos') = Cardinality(BusyProtos) + 1
        /\ Cardinality(ConnectingCalls') = Cardinality(ConnectingCalls) - 1
    BY <1>6, <1>7, CountFinite, FS_AddElement, FS_RemoveElement
  <1>9. QED
    BY <1>4, <1>5, <1>8, CountFinite DEF CountInv

LEMMA NewConnFailsCount ==
  ASSUME WfInv, CountInv, NEW c \in Calls, NewConnFails(c)
  PROVE  CountInv'
  <1> DEFINE calls == [call EXCEPT ![c].pc = "failed", ![c].held = {}]
             r == [call[c] EXCEPT !.pc = "failed", !.held = {}]
  <1>1. /\ call[c].pc = "connecting" /\ UNCHANGED <<nIdleAll, busy, idle, closing>>
        /\ DecNBusyAll(call[c].dsn, call[c].entry, calls, nIdleAll, takeCare', timer)
    BY DEF NewConnFails
  <1>2. r \in Call /\ r.pc = "failed"
    BY <1>1, CallFacts DEF Call
  <1>3. calls = [call EXCEPT ![c] = r]
    OBVIOUS
  <1> HIDE DEF r
  <1>4. calls \in [Calls -> Call] /\ \A x \in Calls : calls[x] = IF x = c THEN r ELSE call[x]
    BY <1>1, <1>2, <1>3, CallFacts
  <1> HIDE DEF calls
  <1>5. call[c].entry \in Entries /\ nBusyAll' = nBusyAll - 1
    BY <1>1, CallFacts DEF DecNBusyAll
  <1>6. ASSUME NEW x \in Calls PROVE call'[x].pc = "connecting" <=> x # c /\ call[x].pc = "connecting"
    <2>1. calls[x] = call[x] \/ call[x].pc # "waiting"
      BY <1>1, <1>4
    <2>2. call'[x] = calls[x] \/ Woken(call[x], call'[x])
      BY <1>1, <1>4, <1>5, <2>1, DecWakes
    <2>3. call[x] \in Call
      BY DEF WfInv, TypeOK
    <2>4. CASE Woken(call[x], call'[x])
      BY <2>3, <2>4, WokenFacts DEF Woken
    <2>5. QED
      BY <1>2, <1>4, <2>2, <2>4
  <1>7. /\ BusyProtos' = BusyProtos /\ IdleProtos' = IdleProtos /\ ClosingProtos' = ClosingProtos
    BY <1>1 DEF BusyProtos, IdleProtos, ClosingProtos, InBusy, InIdle
  <1>8. ConnectingCalls' = ConnectingCalls \ {c} /\ c \in ConnectingCalls
    BY <1>1, <1>6 DEF ConnectingCalls
  <1>9. Cardinality(ConnectingCalls') = Cardinality(ConnectingCalls) - 1
    BY <1>8, CountFinite, FS_RemoveElement
  <1>10. QED
    BY <1>1, <1>5, <1>7, <1>9, CountFinite DEF CountInv

(* A connection leaves the busy array.                                       *)
LEMMA DoReturnCount ==
  ASSUME WfInv, CountInv, NEW p \in Protos, UseOk(p), InBusy(p), NEW forReuse \in BOOLEAN,
         NEW calls \in [Calls -> Call], NEW care, NEW tm,
         DoReturnProtocol(p, forReuse, calls, care, tm), UNCHANGED closing,
         \A x \in Calls : calls[x] = call[x] \/ (call[x].pc = "returning" /\ calls[x] = FreeCall)
  PROVE  CountInv'
  <1>1. PICK e \in Entries :
            /\ p \in busy[e] /\ entryOf[pdsn[p]] = e
            /\ busy' = [busy EXCEPT ![e] = @ \ {p}]
            /\ idle' = IF forReuse THEN [idle EXCEPT ![e] = @ \cup {p}] ELSE idle
            /\ nIdleAll' = IF forReuse THEN nIdleAll + 1 ELSE nIdleAll
            /\ DecNBusyAll(pdsn[p], e, calls, nIdleAll', care, tm)
    BY DoReturnFinds DEF UseOk
  <1>2. nBusyAll' = nBusyAll - 1
    BY <1>1 DEF DecNBusyAll
  <1>3. \A x \in Entries, q \in Protos :
            /\ q \in busy'[x] <=> q \in busy[x] /\ ~(x = e /\ q = p)
            /\ q \in idle'[x] <=> q \in idle[x] \/ (forReuse /\ x = e /\ q = p)
    BY <1>1 DEF WfInv, TypeOK
  <1>4. ~InIdle(p) /\ \A x \in Entries : p \in busy[x] => x = e
    BY <1>1 DEF UseOk, Home, Apart
  <1>5. BusyProtos' = BusyProtos \ {p} /\ p \in BusyProtos
    BY <1>1, <1>3, <1>4 DEF BusyProtos, InBusy
  <1>6. Cardinality(BusyProtos') = Cardinality(BusyProtos) - 1
    BY <1>5, CountFinite, FS_RemoveElement
  <1>7. ASSUME NEW x \in Calls PROVE call'[x].pc = "connecting" <=> call[x].pc = "connecting"
    <2>1. call'[x] = calls[x] \/ Woken(call[x], call'[x])
      BY <1>1, DecWakes
    <2>2. call[x] \in Call
      BY DEF WfInv, TypeOK
    <2>3. CASE Woken(call[x], call'[x])
      BY <2>2, <2>3, WokenFacts DEF Woken
    <2>4. CASE call'[x] = calls[x]
      BY <2>4 DEF FreeCall
    <2>5. QED
      BY <2>1, <2>3, <2>4
  <1>8. ConnectingCalls' = ConnectingCalls /\ ClosingProtos' = ClosingProtos
    BY <1>7 DEF ConnectingCalls, ClosingProtos
  <1>9. nIdleAll' = Cardinality(IdleProtos')
    <2>1. CASE forReuse
      <3>1. IdleProtos' = IdleProtos \cup {p} /\ p \notin IdleProtos
        BY <1>3, <1>4, <2>1 DEF IdleProtos, InIdle
      <3>2. Cardinality(IdleProtos') = Cardinality(IdleProtos) + 1
        BY <3>1, CountFinite, FS_AddElement
      <3>3. QED
        BY <1>1, <2>1, <3>2 DEF CountInv
    <2>2. CASE ~forReuse
      <3>1. IdleProtos' = IdleProtos
        BY <1>3, <2>2 DEF IdleProtos, InIdle
      <3>2. QED
        BY <1>1, <2>2, <3>1 DEF CountInv
    <2>3. QED
      BY <2>1, <2>2
  <1>10. QED
    BY <1>2, <1>6, <1>8, <1>9, CountFinite DEF CountInv

LEMMA ReturnCompletesCount ==
  ASSUME WfInv, UseInv, CountInv, NEW p \in Protos, ReturnCompletes(p)
  PROVE  CountInv'
  <1> DEFINE calls == [c \in Calls |-> IF call[c].pc = "returning" /\ call[c].proto = p
                                       THEN FreeCall ELSE call[c]]
  <1>1. PICK forReuse \in BOOLEAN : DoReturnProtocol(p, forReuse, calls, takeCare, timer)
    BY DEF ReturnCompletes
  <1>2. returning[p] # "no" /\ UNCHANGED closing
    BY DEF ReturnCompletes
  <1>3. UseOk(p) /\ InBusy(p)
    BY <1>2 DEF UseInv, UseOk, BusyIfUsed
  <1>4. calls \in [Calls -> Call]
    BY FreeCallType DEF WfInv, TypeOK
  <1>5. \A x \in Calls : calls[x] = call[x] \/ (call[x].pc = "returning" /\ calls[x] = FreeCall)
    OBVIOUS
  <1> HIDE DEF calls
  <1>6. QED
    BY <1>1, <1>2, <1>3, <1>4, <1>5, DoReturnCount

LEMMA ForceCount ==
  ASSUME WfInv, UseInv, CountInv, NEW k \in Conns, NEW care \in BOOLEAN,
         ForceImmediateDisconnect(k, care)
  PROVE  CountInv'
  <1> DEFINE tm == IF care THEN StartedState(timer, TRUE) ELSE timer
  <1>1. PICK p \in Protos : conn[k].proto = p
    BY DEF ForceImmediateDisconnect, WfInv, TypeOK, Conn
  <1>2. DoReturnProtocol(p, FALSE, call, takeCare', tm) /\ UNCHANGED closing
    BY <1>1 DEF ForceImmediateDisconnect
  <1> HIDE DEF tm
  <1>3. UseOk(p) /\ InBusy(p)
    BY <1>1 DEF UseInv, UseOk, BusyIfUsed, ByConn
  <1>4. call \in [Calls -> Call]
    BY DEF WfInv, TypeOK
  <1>5. QED
    BY <1>2, <1>3, <1>4, DoReturnCount

LEMMA CloseCompletesCount ==
  ASSUME WfInv, CountInv, NEW p \in Protos, CloseCompletes(p)
  PROVE  CountInv'
  <1>1. /\ closing[p] \in Entries /\ closing[p] # None
        /\ UNCHANGED <<busy, idle, nIdleAll>>
        /\ closing' = [closing EXCEPT ![p] = None]
        /\ DecNBusyAll(pdsn[p], closing[p], call, nIdleAll, takeCare, timer)
    BY DEF CloseCompletes, WfInv, TypeOK
  <1>2. nBusyAll' = nBusyAll - 1
    BY <1>1 DEF DecNBusyAll
  <1>3. ASSUME NEW x \in Calls PROVE call'[x].pc = "connecting" <=> call[x].pc = "connecting"
    <2>1. call[x] \in Call /\ call \in [Calls -> Call]
      BY DEF WfInv, TypeOK
    <2>2. call'[x] = call[x] \/ Woken(call[x], call'[x])
      BY <1>1, <2>1, DecWakes
    <2>3. QED
      BY <2>1, <2>2, WokenFacts DEF Woken
  <1>4. ClosingProtos' = ClosingProtos \ {p} /\ p \in ClosingProtos
    BY <1>1 DEF ClosingProtos, WfInv, TypeOK
  <1>5. Cardinality(ClosingProtos') = Cardinality(ClosingProtos) - 1
    BY <1>4, CountFinite, FS_RemoveElement
  <1>6. /\ BusyProtos' = BusyProtos /\ IdleProtos' = IdleProtos
        /\ ConnectingCalls' = ConnectingCalls
    BY <1>1, <1>3 DEF BusyProtos, IdleProtos, ConnectingCalls, InBusy, InIdle
  <1>7. QED
    BY <1>1, <1>2, <1>5, <1>6, CountFinite DEF CountInv

(* #commonTask moves what it closes from one counter to the other.           *)
LEMMA TaskBeginsCount ==
  ASSUME WfInv, UseInv, CountInv, NEW r \in Runs, TaskBegins(r)
  PROVE  CountInv'
  <1> DEFINE close(e) == IdleToClose(e, r = Final)
             closed == UNION {close(e) : e \in Mapped}
  <1>1. /\ UNCHANGED <<call, busy>>
        /\ idle' = [e \in Entries |-> IF e \in Mapped THEN idle[e] \ close(e) ELSE idle[e]]
        /\ closing' = [p \in Protos |-> IF p \in closed THEN CHOOSE e \in Mapped : p \in close(e)
                                        ELSE closing[p]]
        /\ nIdleAll' = nIdleAll - Cardinality(closed)
        /\ nBusyAll' = nBusyAll + Cardinality(closed)
    BY DEF TaskBegins
  <1>2. Mapped \subseteq Entries /\ \A e \in Entries : idle[e] \subseteq Protos
    BY DEF Mapped, WfInv, TypeOK
  <1>3. \A e \in Mapped : close(e) \subseteq idle[e]
    BY DEF IdleToClose
  <1>4. \A p : p \in closed <=> \E e \in Mapped : p \in close(e)
    OBVIOUS
  <1>5. ASSUME NEW p \in closed PROVE (CHOOSE e \in Mapped : p \in close(e)) # None
    <2>1. \E e \in Mapped : p \in close(e)
      BY <1>4, <1>5
    <2> HIDE DEF close
    <2>2. QED
      BY <1>2, <2>1, PoolAssumption
  <1> HIDE DEF closed
  <1>6. closed \subseteq IdleProtos
    BY <1>2, <1>3, <1>4 DEF IdleProtos, InIdle
  <1>7. \A p \in closed : closing[p] = None /\ p \in Protos
    BY <1>6 DEF IdleProtos, UseInv, UseOk, Apart
  <1> HIDE DEF close
  <1>8. ClosingProtos' = ClosingProtos \cup closed /\ ClosingProtos \cap closed = {}
    BY <1>1, <1>5, <1>7 DEF ClosingProtos
  <1>9. IdleProtos' = IdleProtos \ closed
    <2>1. ASSUME NEW p \in Protos, NEW e \in Entries, p \in idle'[e] PROVE p \in idle[e] /\ p \notin closed
      <3>1. p \in idle[e]
        BY <1>1, <2>1
      <3>2. ASSUME p \in closed PROVE FALSE
        <4>1. PICK f \in Mapped : p \in close(f)
          BY <1>4, <3>2
        <4>2. p \in idle[f] /\ f \in Entries
          BY <1>2, <1>3, <4>1
        <4>3. f = e
          BY <3>1, <4>2 DEF UseInv, UseOk, Home
        <4>4. QED
          BY <1>1, <2>1, <4>1, <4>3
      <3>3. QED
        BY <3>1, <3>2
    <2>2. ASSUME NEW p \in Protos, NEW e \in Entries, p \in idle[e], p \notin closed PROVE p \in idle'[e]
      BY <1>1, <1>4, <2>2
    <2>3. QED
      BY <2>1, <2>2 DEF IdleProtos, InIdle
  <1>10. IsFiniteSet(closed) /\ Cardinality(closed) \in Nat
    BY <1>6, CountFinite, FS_Subset, FS_CardinalityType
  <1>11. Cardinality(IdleProtos') = Cardinality(IdleProtos) - Cardinality(closed)
    <2>1. IdleProtos \cap closed = closed
      BY <1>6
    <2>2. Cardinality(IdleProtos \ closed)
            = Cardinality(IdleProtos) - Cardinality(IdleProtos \cap closed)
      BY CountFinite, FS_Difference
    <2>3. QED
      BY <1>9, <2>1, <2>2
  <1>12. Cardinality(ClosingProtos') = Cardinality(ClosingProtos) + Cardinality(closed)
    <2>1. Cardinality(ClosingProtos \cap closed) = 0
      BY <1>8, FS_EmptySet
    <2>2. Cardinality(ClosingProtos \cup closed)
            = Cardinality(ClosingProtos) + Cardinality(closed) - Cardinality(ClosingProtos \cap closed)
      BY <1>10, CountFinite, FS_Union
    <2>3. QED
      BY <1>8, <1>10, <2>1, <2>2, CountFinite
  <1>13. BusyProtos' = BusyProtos /\ ConnectingCalls' = ConnectingCalls
    BY <1>1 DEF BusyProtos, ConnectingCalls, InBusy
  <1>14. QED
    BY <1>1, <1>10, <1>11, <1>12, <1>13, CountFinite DEF CountInv

(* Every step keeps the counters exact.                                      *)
LEMMA NextCountInv ==
  ASSUME WfInv, UseInv, CountInv, [Next]_vars
  PROVE  CountInv'
  <1>1. ASSUME UNCHANGED <<nBusyAll, nIdleAll, busy, idle, closing, call>> PROVE CountInv'
    BY <1>1, CountFrame DEF SameConnecting
  <1>2. ASSUME NEW c \in Calls, CallNext(c) PROVE CountInv'
    BY <1>2, CallStepsCount, PopIdleCount, PopNothingCount, NewConnOkCount, NewConnFailsCount
    DEF CallNext
  <1>3. ASSUME NEW p \in Protos, ProtoNext(p) PROVE CountInv'
    BY <1>1, <1>3, ReturnCompletesCount, CloseCompletesCount DEF ProtoNext, Expire
  <1>4. ASSUME NEW k \in Conns, ConnNext(k) PROVE CountInv'
    <2>1. ASSUME NEW c \in Calls, Connect(k, c) \/ KillQuery(k, c) PROVE CountInv'
      <3>1. /\ \E kind \in {"connect", "kill"} : GetProtocol(c, DsnOf[k], kind, k, None)
            /\ UNCHANGED <<nBusyAll, nIdleAll, busy, idle, closing>> /\ DsnOf[k] \in Dsns
        BY <2>1, PoolAssumption DEF Connect, KillQuery
      <3>2. QED
        BY <3>1, GetProtocolCount
    <2>2. CASE Create(k) \/ End(k) \/ Dispose(k)
      BY <1>1, <2>2 DEF Create, End, Dispose
    <2>3. QED
      BY <1>4, <2>1, <2>2, ForceCount DEF ConnNext
  <1>5. ASSUME NEW r \in Runs, TaskNext(r) PROVE CountInv'
    <2>1. CASE TimerFires(r) \/ TaskAwaits(r) \/ TaskEnds(r) \/ \E i \in Protos : TaskRequeues(r, i)
      BY <1>1, <2>1 DEF TimerFires, TaskAwaits, TaskEnds, TaskRequeues
    <2>2. ASSUME NEW i \in Protos, NEW c \in Calls, TaskCares(r, i, c) PROVE CountInv'
      <3>1. /\ GetProtocol(c, pdsn[i], "care", None, i) /\ pdsn[i] \in Dsns
            /\ UNCHANGED <<nBusyAll, nIdleAll, busy, idle, closing>>
        BY <2>2 DEF TaskCares, WfInv, DsnKnown
      <3>2. QED
        BY <3>1, GetProtocolCount
    <2>3. QED
      BY <1>5, <2>1, <2>2, TaskBeginsCount DEF TaskNext
  <1>6. CASE (\E e \in Entries : HealthLapses(e)) \/ UnrefLater \/ DisposeNext \/ UNCHANGED vars
    BY <1>1, <1>6 DEF HealthLapses, UnrefLater, DisposeNext, AsyncDispose, AllEnded, CloseIdle,
                      Disposed, vars
  <1>7. QED
    BY <1>2, <1>3, <1>4, <1>5, <1>6 DEF Next

(* Arrays of connections that have one home each hold as many as there are   *)
(* connections in them.                                                      *)
LEMMA PairsCount ==
  ASSUME NEW arr \in [Entries -> SUBSET Protos], NEW home,
         \A e \in Entries : \A p \in arr[e] : home[p] = e
  PROVE  Cardinality({ep \in Entries \X Protos : ep[2] \in arr[ep[1]]})
           = Cardinality({p \in Protos : \E e \in Entries : p \in arr[e]})
  <1> DEFINE S == {p \in Protos : \E e \in Entries : p \in arr[e]}
             T == {ep \in Entries \X Protos : ep[2] \in arr[ep[1]]}
             f == [p \in S |-> <<home[p], p>>]
  <1>1. IsFiniteSet(S)
    BY PoolAssumption, FS_Subset
  <1>2. f \in [S -> T]
    OBVIOUS
  <1>3. \A p, q \in S : f[p] = f[q] => p = q
    OBVIOUS
  <1>4. ASSUME NEW t \in T PROVE \E p \in S : f[p] = t
    <2>1. PICK e \in Entries, p \in Protos : t = <<e, p>> /\ p \in arr[e]
      OBVIOUS
    <2>2. p \in S /\ f[p] = t
      BY <2>1
    <2>3. QED
      BY <2>2
  <1> HIDE DEF S, T, f
  <1>5. ExistsBijection(S, T)
    BY <1>2, <1>3, <1>4, Fun_IsBij DEF ExistsBijection
  <1>6. Cardinality(S) = Cardinality(T)
    BY <1>1, <1>5, FS_Bijection
  <1>7. QED
    BY <1>6 DEF S, T

LEMMA CountIsExact ==
  ASSUME WfInv, UseInv, CountInv
  PROVE  CountersExact
  <1> DEFINE home == [p \in Protos |-> entryOf[pdsn[p]]]
  <1>1. /\ busy \in [Entries -> SUBSET Protos] /\ idle \in [Entries -> SUBSET Protos]
        /\ \A e \in Entries : \A p \in busy[e] : home[p] = e
        /\ \A e \in Entries : \A p \in idle[e] : home[p] = e
    BY DEF WfInv, TypeOK, UseInv, UseOk, Home
  <1> HIDE DEF home
  <1>2. Cardinality({ep \in Entries \X Protos : ep[2] \in busy[ep[1]]}) = Cardinality(BusyProtos)
    BY <1>1, PairsCount DEF BusyProtos, InBusy
  <1>3. Cardinality({ep \in Entries \X Protos : ep[2] \in idle[ep[1]]}) = Cardinality(IdleProtos)
    BY <1>1, PairsCount DEF IdleProtos, InIdle
  <1>4. QED
    BY <1>2, <1>3 DEF CountInv, CountersExact, ConnectingCalls, ClosingProtos

(* The counters are exact, and CountInv with HInv is why.                    *)
LEMMA SpecCountInv == Spec /\ StrandsNone => [](HInv /\ CountInv)
  <1>1. Init => CountInv
    BY InitCountInv
  <1>2. HInv /\ CountInv /\ [Next]_vars => CountInv'
    BY NextCountInv DEF HInv, IInv
  <1>3. QED
    BY <1>1, <1>2, SpecHInv, PTL DEF Spec

(* The counters #nBusyAll and #nIdleAll are exact after every step           *)
(* (my_pool.ts:321, 330, 346, 372, 443-462, 522, 533): each connection that  *)
(* is in use, being established or being closed is counted once, and each    *)
(* idle one, whichever entry it is in and whoever steals it.                 *)
THEOREM PoolCountersExact == Spec /\ StrandsNone => []CountersExact
  <1>1. HInv /\ CountInv => CountersExact
    BY CountIsExact DEF HInv, IInv
  <1>2. QED
    BY <1>1, SpecCountInv, PTL

-----------------------------------------------------------------------------
(* The periodic task.  What it awaits is really in progress: the closing of  *)
(* idle connections, and calls of getProtocol() of its own.  So when #hCommon*)
(* Task was stopped, because nothing is in use, nothing is left to await;    *)
(* and it is stopped only then.                                              *)

\* A call of #commonTask
Cares(r) ==
    r.kind = "care" /\ r.pc \in {"popping", "connecting", "delivered", "failed", "returning"}

CareInv ==
    \A r \in Runs :
        /\ \A c \in run[r].calls : Cares(call[c])
        /\ \A p \in run[r].protos : closing[p] # None

\* Nothing is left to await, or will not be when the exceptions are caught
Finishing(r) ==
    /\ run[r].st = "await"
    /\ run[r].protos = {}
    /\ \A c \in run[r].calls : call[c].pc = "failed"

NoConnection == \A p \in Protos : ~InBusy(p) /\ ~InIdle(p)

TickInv ==
    /\ \A r, s \in Ticks : run[r].st # "off" /\ run[s].st # "off" => r = s
    /\ timer \in {"Inactive", "Active"} => \A r \in Ticks : run[r].st # "off" => Finishing(r)
    /\ timer = "Inactive" => NoConnection

LEMMA InitTickInv == Init => CareInv /\ TickInv
  <1> SUFFICES ASSUME Init PROVE CareInv /\ TickInv
    OBVIOUS
  <1>1. \A r \in Runs : run[r].st = "off" /\ run[r].calls = {} /\ run[r].protos = {}
    BY DEF Init, NoRun
  <1>2. NoConnection
    BY DEF Init, NoConnection, InBusy, InIdle
  <1>3. QED
    BY <1>1, <1>2 DEF CareInv, TickInv, Runs

\* A step that gives #commonTask nothing more to await
RunsShrink ==
    \A r \in Runs : /\ run'[r].st = run[r].st
                    /\ run'[r].calls \subseteq run[r].calls
                    /\ run'[r].protos \subseteq run[r].protos

\* A call of #commonTask after a step
Goes(r, s) == Cares(r) => Cares(s) /\ (r.pc = "failed" => s.pc = "failed")

AwaitedGo ==
    \A r \in Runs : /\ \A c \in run'[r].calls : Goes(call[c], call'[c])
                    /\ \A p \in run'[r].protos : closing'[p] # None

\* A step that does not stop the timer
TimerKept ==
    /\ timer' \in {"Inactive", "Active"} => timer \in {"Inactive", "Active"}
    /\ timer' = "Inactive" => timer = "Inactive" /\ (NoConnection => NoConnection')

LEMMA CareKept ==
  ASSUME CareInv, RunsShrink, AwaitedGo
  PROVE  CareInv'
  <1>1. ASSUME NEW r \in Runs
        PROVE  /\ \A c \in run'[r].calls : Cares(call'[c])
               /\ \A p \in run'[r].protos : closing'[p] # None
    BY DEF CareInv, RunsShrink, AwaitedGo, Goes
  <1>2. QED
    BY <1>1 DEF CareInv, Cares

LEMMA TickKept ==
  ASSUME CareInv, TickInv, RunsShrink, AwaitedGo, TimerKept
  PROVE  TickInv'
  <1>1. \A r \in Ticks : run'[r].st = run[r].st /\ r \in Runs
    BY DEF RunsShrink, Runs
  <1>2. ASSUME NEW r \in Ticks, run'[r].st # "off", timer' \in {"Inactive", "Active"}
        PROVE  Finishing(r)'
    <2>1. r \in Runs /\ Finishing(r)
      BY <1>1, <1>2 DEF TickInv, TimerKept
    <2>2. run'[r].protos = {} /\ run'[r].st = "await"
      BY <2>1 DEF Finishing, RunsShrink
    <2>3. ASSUME NEW c \in run'[r].calls PROVE call'[c].pc = "failed"
      <3>1. Cares(call[c]) /\ call[c].pc = "failed"
        BY <2>1 DEF Finishing, RunsShrink, CareInv
      <3>2. Goes(call[c], call'[c])
        BY <2>1 DEF AwaitedGo
      <3>3. QED
        BY <3>1, <3>2 DEF Goes
    <2>4. QED
      BY <2>2, <2>3 DEF Finishing
  <1>3. timer' = "Inactive" => NoConnection'
    BY DEF TimerKept, TickInv
  <1>4. QED
    BY <1>1, <1>2, <1>3 DEF TickInv

(* When nothing is in use, and no loop is in progress, an activation of the  *)
(* task has nothing left to await.                                           *)
LEMMA QuietFinishes ==
  WfInv /\ UseInv /\ CountInv /\ CareInv /\ ~InSync /\ nBusyAll = 0 /\ nIdleAll = 0
    => NoConnection /\ \A r \in Runs : run[r].st # "off" => Finishing(r)
  <1> SUFFICES ASSUME WfInv, UseInv, CountInv, CareInv, ~InSync, nBusyAll = 0, nIdleAll = 0
               PROVE  NoConnection /\ \A r \in Runs : run[r].st # "off" => Finishing(r)
    OBVIOUS
  <1>1. /\ Cardinality(BusyProtos) = 0 /\ Cardinality(IdleProtos) = 0
        /\ Cardinality(ClosingProtos) = 0 /\ Cardinality(ConnectingCalls) = 0
    BY CountFinite DEF CountInv
  <1>2. BusyProtos = {} /\ IdleProtos = {} /\ ClosingProtos = {} /\ ConnectingCalls = {}
    BY <1>1, CountFinite, FS_EmptySet
  <1>3. NoConnection
    BY <1>2 DEF NoConnection, BusyProtos, IdleProtos
  <1>4. ASSUME NEW r \in Runs, run[r].st # "off" PROVE Finishing(r)
    <2>1. run[r] \in Run
      BY DEF WfInv, TypeOK
    <2>2. run[r].st = "await" /\ run[r].protos \subseteq Protos /\ run[r].calls \subseteq Calls
      BY <1>4, <2>1 DEF InSync, Run
    <2>3. run[r].protos = {}
      BY <1>2, <2>2 DEF CareInv, ClosingProtos
    <2>4. ASSUME NEW c \in run[r].calls PROVE call[c].pc = "failed"
      <3>1. c \in Calls /\ Cares(call[c])
        BY <2>2 DEF CareInv
      <3>2. call[c].pc # "popping" /\ call[c].pc # "connecting"
        BY <1>2, <3>1 DEF InSync, ConnectingCalls
      <3>3. ASSUME call[c].pc \in {"delivered", "returning"} PROVE FALSE
        <4>1. PICK p \in Protos : call[c].proto = p /\ (call[c].pc = "returning" => returning[p] # "no")
          BY <3>1, <3>3 DEF UseInv, HandsOk, CallUse
        <4>2. InBusy(p)
          BY <3>1, <3>3, <4>1 DEF UseInv, UseOk, BusyIfUsed, ByCall, Hand
        <4>3. QED
          BY <1>3, <4>2 DEF NoConnection
      <3>4. QED
        BY <3>1, <3>2, <3>3 DEF Cares
    <2>5. QED
      BY <2>2, <2>3, <2>4 DEF Finishing
  <1>5. QED
    BY <1>3, <1>4

(* So when it is stopped because nothing is in use, TickInv holds.           *)
LEMMA TickStopped ==
  ASSUME WfInv', UseInv', CountInv', CareInv', (~InSync)', nBusyAll' = 0, nIdleAll' = 0, TickInv,
         \A r \in Ticks : run'[r].st # "off" => run[r].st # "off"
  PROVE  TickInv'
  <1>1. (WfInv /\ UseInv /\ CountInv /\ CareInv /\ ~InSync /\ nBusyAll = 0 /\ nIdleAll = 0
          => NoConnection /\ \A r \in Runs : run[r].st # "off" => Finishing(r))'
    BY QuietFinishes, PTL
  <1>2. (NoConnection /\ \A r \in Runs : run[r].st # "off" => Finishing(r))'
    BY <1>1
  <1>3. QED
    BY <1>2 DEF TickInv, Runs

(* One call moves on, and #commonTask gets nothing more to await.            *)
LEMMA TickOneCall ==
  ASSUME WfInv, CareInv, TickInv, NEW c \in Calls, NEW r, call' = [call EXCEPT ![c] = r],
         Goes(call[c], r) \/ \A s \in Runs : c \notin run'[s].calls,
         RunsShrink, UNCHANGED closing, TimerKept
  PROVE  CareInv' /\ TickInv'
  <1>1. \A x \in Calls : call'[x] = IF x = c THEN r ELSE call[x]
    BY DEF WfInv, TypeOK
  <1>2. \A s \in Runs : run'[s].calls \subseteq Calls
    BY DEF WfInv, TypeOK, Run, RunsShrink
  <1>3. \A s \in Runs : \A x \in run'[s].calls : Goes(call[x], call'[x])
    BY <1>1, <1>2 DEF Goes
  <1>4. \A s \in Runs : \A p \in run'[s].protos : closing'[p] # None
    BY DEF RunsShrink, CareInv
  <1>5. AwaitedGo
    BY <1>3, <1>4 DEF AwaitedGo
  <1>6. QED
    BY <1>5, CareKept, TickKept

(* No call moves, nor does what #commonTask awaits.                          *)
LEMMA TickFrame ==
  ASSUME CareInv, TickInv, UNCHANGED <<call, run, closing>>, TimerKept
  PROVE  CareInv' /\ TickInv'
  <1>1. RunsShrink /\ AwaitedGo
    BY DEF RunsShrink, AwaitedGo, Goes, CareInv
  <1>2. QED
    BY <1>1, CareKept, TickKept

LEMMA CallStepsTick ==
  ASSUME WfInv, CareInv, TickInv, NEW c \in Calls,
         \/ \E late \in BOOLEAN : WaitTimesOut(c, late)
         \/ WaitEnds(c) \/ PopNothing(c) \/ ClearDisconnected(c) \/ Connected(c) \/ ConnectFails(c)
         \/ KillSend(c) \/ KillSent(c) \/ KillFails(c) \/ CareDelivered(c) \/ CareFails(c)
  PROVE  CareInv' /\ TickInv'
  <1>1. call[c] \in Call
    BY DEF WfInv, TypeOK
  <1>2. UNCHANGED <<timer, busy, idle, closing>>
    BY DEF WaitTimesOut, WaitEnds, PopNothing, ClearDisconnected, Connected, ConnectFails, KillSend,
           KillSent, KillFails, CareDelivered, CareFails
  <1>3. TimerKept
    BY <1>2 DEF TimerKept, NoConnection, InBusy, InIdle
  <1>4. ASSUME NEW r, UNCHANGED run, call' = [call EXCEPT ![c] = r], Goes(call[c], r)
        PROVE  CareInv' /\ TickInv'
    BY <1>2, <1>3, <1>4, TickOneCall DEF RunsShrink
  <1>5. ASSUME NEW r, call[c].pc \in {"waiting", "woken", "late"} PROVE Goes(call[c], r)
    BY <1>5 DEF Goes, Cares
  <1>6. CASE \E late \in BOOLEAN : WaitTimesOut(c, late)
    <2>1. PICK late \in BOOLEAN : WaitTimesOut(c, late)
      BY <1>6
    <2> DEFINE r == [call[c] EXCEPT !.pc = IF late THEN "late" ELSE "woken"]
    <2>2. call[c].pc = "waiting" /\ UNCHANGED run /\ call' = [call EXCEPT ![c] = r]
      BY <2>1 DEF WaitTimesOut
    <2> HIDE DEF r
    <2>3. Goes(call[c], r)
      BY <1>5, <2>2
    <2>4. QED
      BY <1>4, <2>2, <2>3
  <1>7. CASE WaitEnds(c)
    <2>1. /\ call[c].pc \in {"woken", "late"} /\ UNCHANGED run
          /\ WaitForSlot(c, call[c], call[c].pc = "late")
      BY <1>7 DEF WaitEnds
    <2>2. PICK pc \in {"popping", "failed", "waiting"} :
              call' = [call EXCEPT ![c] = [call[c] EXCEPT !.pc = pc]]
      BY <2>1 DEF WaitForSlot
    <2> DEFINE r == [call[c] EXCEPT !.pc = pc]
    <2>3. call' = [call EXCEPT ![c] = r]
      BY <2>2
    <2> HIDE DEF r
    <2>4. Goes(call[c], r)
      BY <1>5, <2>1
    <2>5. QED
      BY <1>4, <2>1, <2>3, <2>4
  <1>8. CASE PopNothing(c)
    <2> DEFINE r == [call[c] EXCEPT !.pc = "connecting"]
    <2>1. r.pc = "connecting" /\ r.kind = call[c].kind
      BY <1>1 DEF Call
    <2>2. call' = [call EXCEPT ![c] = r] /\ UNCHANGED run /\ call[c].pc # "failed"
      BY <1>8 DEF PopNothing
    <2> HIDE DEF r
    <2>3. Goes(call[c], r)
      BY <2>1, <2>2 DEF Goes, Cares
    <2>4. QED
      BY <1>4, <2>2, <2>3
  <1>9. CASE ClearDisconnected(c)
    <2>1. PICK i : call' = [call EXCEPT ![c] = [call[c] EXCEPT !.held = @ \cup {i}]]
      BY <1>9 DEF ClearDisconnected
    <2> DEFINE r == [call[c] EXCEPT !.held = @ \cup {i}]
    <2>2. r.pc = call[c].pc /\ r.kind = call[c].kind
      BY <1>1 DEF Call
    <2>3. call' = [call EXCEPT ![c] = r] /\ UNCHANGED run
      BY <1>9, <2>1 DEF ClearDisconnected
    <2> HIDE DEF r
    <2>4. Goes(call[c], r)
      BY <2>2 DEF Goes, Cares
    <2>5. QED
      BY <1>4, <2>3, <2>4
  <1>10. CASE KillSend(c)
    <2> DEFINE r == [call[c] EXCEPT !.pc = "killing"]
    <2>1. call' = [call EXCEPT ![c] = r] /\ UNCHANGED run /\ call[c].kind = "kill"
      BY <1>10 DEF KillSend
    <2> HIDE DEF r
    <2>2. QED
      BY <1>4, <2>1 DEF Goes, Cares
  <1>11. CASE Connected(c) \/ ConnectFails(c) \/ KillSent(c) \/ KillFails(c)
    <2>1. ~Cares(call[c]) /\ UNCHANGED run /\ call' = [call EXCEPT ![c] = FreeCall]
      BY <1>11 DEF Connected, ConnectFails, KillSent, KillFails, Cares
    <2>2. QED
      BY <1>4, <2>1 DEF Goes
  <1>12. CASE CareDelivered(c)
    <2> DEFINE r == [call[c] EXCEPT !.pc = "returning", !.info = None]
    <2>1. r.pc = "returning" /\ r.kind = call[c].kind
      BY <1>1 DEF Call
    <2>2. call' = [call EXCEPT ![c] = r] /\ UNCHANGED run /\ call[c].pc = "delivered"
      BY <1>12 DEF CareDelivered
    <2> HIDE DEF r
    <2>3. Goes(call[c], r)
      BY <2>1, <2>2 DEF Goes, Cares
    <2>4. QED
      BY <1>4, <2>2, <2>3
  <1>13. CASE CareFails(c)
    <2>1. /\ call' = [call EXCEPT ![c] = FreeCall]
          /\ run' = [s \in Runs |-> [run[s] EXCEPT !.calls = @ \ {c}]]
      BY <1>13 DEF CareFails
    <2>2. \A s \in Runs : /\ run'[s].calls = run[s].calls \ {c} /\ run'[s].st = run[s].st
                          /\ run'[s].protos = run[s].protos
      BY <2>1 DEF WfInv, TypeOK, Run
    <2>3. RunsShrink /\ \A s \in Runs : c \notin run'[s].calls
      BY <2>2 DEF RunsShrink
    <2>4. QED
      BY <1>2, <1>3, <2>1, <2>3, TickOneCall
  <1>14. QED
    BY <1>6, <1>7, <1>8, <1>9, <1>10, <1>11, <1>12, <1>13

LEMMA GetProtocolTick ==
  ASSUME WfInv, CareInv, TickInv, NEW c \in Calls, NEW d \in Dsns, NEW kind \in {"connect", "kill"},
         NEW k \in Conns \cup {None}, GetProtocol(c, d, kind, k, None),
         UNCHANGED <<timer, busy, idle, closing, run>>
  PROVE  CareInv' /\ TickInv'
  <1>1. PICK r \in Call : call' = [call EXCEPT ![c] = r]
    BY GetProtocolEntry
  <1>2. Goes(call[c], r)
    BY DEF GetProtocol, Goes, Cares
  <1>3. RunsShrink /\ TimerKept
    BY DEF RunsShrink, TimerKept, NoConnection, InBusy, InIdle
  <1>4. QED
    BY <1>1, <1>2, <1>3, TickOneCall

LEMMA PopIdleTick ==
  ASSUME WfInv, UseInv, CareInv, TickInv, NEW c \in Calls, NEW p \in Protos, PopIdle(c, p)
  PROVE  CareInv' /\ TickInv'
  <1>1. PICK e \in Entries : call[c].entry = e
    BY CallFacts DEF PopIdle
  <1>2. call[c].pc = "popping" /\ p \in Poppable(c) /\ call[c] \in Call /\ UNCHANGED run
    BY DEF PopIdle, WfInv, TypeOK
  <1>3. InIdle(p)
    <2>1. Mapped \subseteq Entries
      BY DEF Mapped, WfInv, TypeOK
    <2>2. QED
      BY <1>1, <1>2, <2>1 DEF Poppable, InIdle
  <1>4. ~NoConnection /\ timer # "Inactive"
    BY <1>3 DEF NoConnection, TickInv
  <1>5. TimerKept
    <2>1. timer' = timer \/ timer' = StartedState(timer, FALSE)
      BY DEF PopIdle
    <2>2. QED
      BY <1>4, <2>1 DEF TimerKept, StartedState, WfInv, TypeOK, IntervalStates
  <1>6. RunsShrink
    BY <1>2 DEF RunsShrink
  <1>7. CASE p \in expired
    <2>1. UNCHANGED call /\ closing' = [closing EXCEPT ![p] = e]
      BY <1>1, <1>7 DEF PopIdle
    <2>2. AwaitedGo
      BY <1>2, <2>1, PoolAssumption DEF AwaitedGo, Goes, CareInv, WfInv, TypeOK
    <2>3. QED
      BY <1>5, <1>6, <2>2, CareKept, TickKept
  <1>8. CASE p \notin expired
    <2> DEFINE r == [call[c] EXCEPT !.pc = "delivered", !.proto = p]
    <2>1. r.pc = "delivered" /\ r.kind = call[c].kind
      BY <1>2 DEF Call
    <2>2. UNCHANGED closing /\ call' = [call EXCEPT ![c] = r]
      BY <1>1, <1>8 DEF PopIdle
    <2> HIDE DEF r
    <2>3. Goes(call[c], r)
      BY <1>2, <2>1 DEF Goes, Cares
    <2>4. QED
      BY <1>5, <1>6, <2>2, <2>3, TickOneCall
  <1>9. QED
    BY <1>7, <1>8

(* A new connection starts the timer.                                        *)
LEMMA NewConnOkTick ==
  ASSUME WfInv, CareInv, TickInv, NEW c \in Calls, NewConnOk(c)
  PROVE  CareInv' /\ TickInv'
  <1>1. PICK p \in FreeProtos :
            call' = [call EXCEPT ![c].pc = "delivered", ![c].proto = p, ![c].held = {}]
    BY DEF NewConnOk
  <1> DEFINE r == [call[c] EXCEPT !.pc = "delivered", !.proto = p, !.held = {}]
  <1>2. call' = [call EXCEPT ![c] = r] /\ r.pc = "delivered" /\ r.kind = call[c].kind
    BY <1>1 DEF WfInv, TypeOK, Call
  <1> HIDE DEF r
  <1>3. call[c].pc = "connecting" /\ timer' = StartedState(timer, FALSE) /\ UNCHANGED <<run, closing>>
    BY DEF NewConnOk
  <1>4. Goes(call[c], r)
    BY <1>2, <1>3 DEF Goes, Cares
  <1>5. TimerKept
    BY <1>3 DEF TimerKept, StartedState, WfInv, TypeOK, IntervalStates
  <1>6. RunsShrink
    BY <1>3 DEF RunsShrink
  <1>7. QED
    BY <1>2, <1>3, <1>4, <1>5, <1>6, TickOneCall

\* A call that goes on waiting, or that its own step leaves as #commonTask
\* expects it
MovesOn(r, s) ==
    s = r \/ (r.pc # "waiting" /\ s.pc # "popping" /\ Goes(r, s))

(* #decNBusyAll() stops the timer only when nothing is in use.               *)
LEMMA DecTick ==
  ASSUME WfInv, CareInv, TickInv, WfInv', UseInv', CountInv', ~InSync,
         NEW d, NEW e \in Entries, NEW calls \in [Calls -> Call], NEW idleAll, nIdleAll' = idleAll,
         NEW care, NEW tm, DecNBusyAll(d, e, calls, idleAll, care, tm), RunsShrink,
         \A x \in Calls : \/ MovesOn(call[x], calls[x])
                          \/ calls[x].pc \notin {"popping", "waiting"} /\ call[x].pc # "waiting"
                             /\ \A s \in Runs : x \notin run'[s].calls,
         \A s \in Runs : \A p \in run'[s].protos : closing'[p] # None,
         tm \in {"Inactive", "Active"} => timer \in {"Inactive", "Active"},
         tm = "Inactive" => timer = "Inactive", NoConnection => NoConnection'
  PROVE  CareInv' /\ TickInv'
  <1>1. timer' = tm \/ (nBusyAll' = 0 /\ idleAll = 0)
    BY DEF DecNBusyAll
  <1>2. ASSUME NEW x \in Calls
        PROVE  /\ Goes(call[x], call'[x]) \/ \A s \in Runs : x \notin run'[s].calls
               /\ call'[x].pc # "popping"
    <2>1. calls[x] = call[x] \/ call[x].pc # "waiting"
      BY DEF MovesOn
    <2>2. call'[x] = calls[x] \/ (calls[x] = call[x] /\ Woken(call[x], call'[x]))
      BY <2>1, DecWakes
    <2>3. call[x].pc # "popping" /\ call[x] \in Call
      BY DEF InSync, WfInv, TypeOK
    <2>4. CASE Woken(call[x], call'[x])
      BY <2>3, <2>4, WokenFacts DEF Woken, Goes, Cares
    <2>5. CASE call'[x] = calls[x]
      BY <2>3, <2>5 DEF MovesOn, Goes
    <2>6. QED
      BY <2>2, <2>4, <2>5
  <1>3. \A s \in Runs : run'[s].calls \subseteq Calls
    BY DEF WfInv, TypeOK, Run
  <1>4. AwaitedGo
    BY <1>2, <1>3 DEF AwaitedGo
  <1>5. CareInv'
    BY <1>4, CareKept
  <1>6. CASE timer' = tm
    <2>1. TimerKept
      BY <1>6 DEF TimerKept
    <2>2. QED
      BY <1>4, <1>5, <2>1, TickKept
  <1>7. CASE nBusyAll' = 0 /\ idleAll = 0
    <2>1. (~InSync)'
      BY <1>2 DEF InSync, RunsShrink
    <2>2. \A r \in Ticks : run'[r].st # "off" => run[r].st # "off"
      BY DEF RunsShrink, Runs
    <2>3. QED
      BY <1>5, <1>7, <2>1, <2>2, TickStopped
  <1>8. QED
    BY <1>1, <1>6, <1>7

LEMMA NewConnFailsTick ==
  ASSUME WfInv, CareInv, TickInv, WfInv', UseInv', CountInv', NEW c \in Calls, NewConnFails(c)
  PROVE  CareInv' /\ TickInv'
  <1> DEFINE calls == [call EXCEPT ![c].pc = "failed", ![c].held = {}]
             r == [call[c] EXCEPT !.pc = "failed", !.held = {}]
  <1>1. /\ call[c].pc = "connecting" /\ ~InSync /\ UNCHANGED <<nIdleAll, busy, idle, closing, run>>
        /\ DecNBusyAll(call[c].dsn, call[c].entry, calls, nIdleAll, takeCare', timer)
    BY DEF NewConnFails, Macrotask
  <1>2. r \in Call /\ r.pc = "failed" /\ r.kind = call[c].kind
    BY <1>1, CallFacts DEF Call
  <1>3. calls = [call EXCEPT ![c] = r]
    OBVIOUS
  <1> HIDE DEF r
  <1>4. calls \in [Calls -> Call] /\ \A x \in Calls : calls[x] = IF x = c THEN r ELSE call[x]
    BY <1>1, <1>2, <1>3, CallFacts
  <1> HIDE DEF calls
  <1>5. MovesOn(call[c], r)
    BY <1>1, <1>2 DEF MovesOn, Goes, Cares
  <1>6. \A x \in Calls : MovesOn(call[x], calls[x])
    BY <1>4, <1>5 DEF MovesOn
  <1>7. call[c].entry \in Entries /\ (NoConnection => NoConnection')
    BY <1>1, CallFacts DEF NoConnection, InBusy, InIdle
  <1>8. RunsShrink /\ \A s \in Runs : \A p \in run'[s].protos : closing'[p] # None
    BY <1>1 DEF RunsShrink, CareInv
  <1>9. nIdleAll' = nIdleAll
    BY <1>1
  <1>10. QED
    BY <1>1, <1>4, <1>6, <1>7, <1>8, <1>9, DecTick

(* #doReturnProtocol() leaves the timer as it is, or as it has to be.        *)
LEMMA DoReturnTick ==
  ASSUME WfInv, CareInv, TickInv, WfInv', UseInv', CountInv', ~InSync, NEW p \in Protos, UseOk(p),
         InBusy(p), NEW forReuse \in BOOLEAN, NEW calls \in [Calls -> Call], NEW care, NEW tm,
         DoReturnProtocol(p, forReuse, calls, care, tm), UNCHANGED closing, RunsShrink,
         \A x \in Calls : \/ calls[x] = call[x]
                          \/ /\ call[x].pc = "returning" /\ calls[x] = FreeCall
                             /\ \A s \in Runs : x \notin run'[s].calls,
         tm \in {"Inactive", "Active"} => timer \in {"Inactive", "Active"},
         tm = "Inactive" => timer = "Inactive"
  PROVE  CareInv' /\ TickInv'
  <1>1. PICK e \in Entries : DecNBusyAll(pdsn[p], e, calls, nIdleAll', care, tm)
    BY DoReturnFinds DEF UseOk
  <1>2. ~NoConnection
    BY DEF NoConnection
  <1>3. \A x \in Calls : \/ MovesOn(call[x], calls[x])
                         \/ calls[x].pc \notin {"popping", "waiting"} /\ call[x].pc # "waiting"
                            /\ \A s \in Runs : x \notin run'[s].calls
    BY DEF MovesOn, FreeCall
  <1>4. \A s \in Runs : \A q \in run'[s].protos : closing'[q] # None
    BY DEF RunsShrink, CareInv
  <1>5. PICK d, idleAll : d = pdsn[p] /\ idleAll = nIdleAll'
    OBVIOUS
  <1>6. DecNBusyAll(d, e, calls, idleAll, care, tm)
    BY <1>1, <1>5
  <1>7. QED
    BY <1>2, <1>3, <1>4, <1>5, <1>6, DecTick

LEMMA ReturnCompletesTick ==
  ASSUME WfInv, UseInv, CareInv, TickInv, WfInv', UseInv', CountInv', NEW p \in Protos,
         ReturnCompletes(p)
  PROVE  CareInv' /\ TickInv'
  <1> DEFINE calls == [c \in Calls |-> IF call[c].pc = "returning" /\ call[c].proto = p
                                       THEN FreeCall ELSE call[c]]
  <1>1. PICK forReuse \in BOOLEAN : DoReturnProtocol(p, forReuse, calls, takeCare, timer)
    BY DEF ReturnCompletes
  <1>2. returning[p] # "no" /\ UNCHANGED closing /\ ~InSync
    BY DEF ReturnCompletes, Macrotask
  <1>3. UseOk(p) /\ InBusy(p)
    BY <1>2 DEF UseInv, UseOk, BusyIfUsed
  <1>4. calls \in [Calls -> Call]
    BY FreeCallType DEF WfInv, TypeOK
  <1>5. \A s \in Runs : /\ run'[s].calls = {c \in run[s].calls : call'[c].pc # "free"}
                        /\ run'[s].st = run[s].st /\ run'[s].protos = run[s].protos
    BY DEF ReturnCompletes, WfInv, TypeOK, Run
  <1>6. \A x \in Calls : calls[x] = call[x] \/ (call[x].pc = "returning" /\ calls[x] = FreeCall)
    OBVIOUS
  <1> HIDE DEF calls
  <1>7. ASSUME NEW x \in Calls, calls[x] # call[x], NEW s \in Runs PROVE x \notin run'[s].calls
    <2>1. PICK e \in Entries : DecNBusyAll(pdsn[p], e, calls, nIdleAll', takeCare, timer)
      BY <1>1, <1>3, DoReturnFinds DEF UseOk
    <2>2. calls[x] = FreeCall /\ call[x].pc = "returning"
      BY <1>6, <1>7
    <2>3. call'[x] = FreeCall
      BY <1>4, <1>7, <2>1, <2>2, DecWakes
    <2>4. QED
      BY <1>5, <2>3 DEF FreeCall
  <1>8. RunsShrink
    BY <1>5 DEF RunsShrink
  <1>9. \A x \in Calls : \/ calls[x] = call[x]
                         \/ /\ call[x].pc = "returning" /\ calls[x] = FreeCall
                            /\ \A s \in Runs : x \notin run'[s].calls
    BY <1>6, <1>7
  <1>10. QED
    BY <1>1, <1>2, <1>3, <1>4, <1>8, <1>9, DoReturnTick

LEMMA ForceTick ==
  ASSUME WfInv, UseInv, CareInv, TickInv, WfInv', UseInv', CountInv', NEW k \in Conns,
         NEW care \in BOOLEAN, ForceImmediateDisconnect(k, care)
  PROVE  CareInv' /\ TickInv'
  <1> DEFINE tm == IF care THEN StartedState(timer, TRUE) ELSE timer
  <1>1. PICK p \in Protos : conn[k].proto = p
    BY DEF ForceImmediateDisconnect, WfInv, TypeOK, Conn
  <1>2. /\ DoReturnProtocol(p, FALSE, call, takeCare', tm)
        /\ UNCHANGED <<closing, run>> /\ ~InSync
    BY <1>1 DEF ForceImmediateDisconnect
  <1>3. /\ tm \in {"Inactive", "Active"} => timer \in {"Inactive", "Active"}
        /\ tm = "Inactive" => timer = "Inactive"
    BY DEF StartedState
  <1> HIDE DEF tm
  <1>4. UseOk(p) /\ InBusy(p)
    BY <1>1 DEF UseInv, UseOk, BusyIfUsed, ByConn
  <1>5. call \in [Calls -> Call] /\ RunsShrink
    BY <1>2 DEF WfInv, TypeOK, RunsShrink
  <1>6. QED
    BY <1>2, <1>3, <1>4, <1>5, DoReturnTick

LEMMA CloseCompletesTick ==
  ASSUME WfInv, CareInv, TickInv, WfInv', UseInv', CountInv', NEW p \in Protos, CloseCompletes(p)
  PROVE  CareInv' /\ TickInv'
  <1>1. /\ closing[p] \in Entries /\ ~InSync
        /\ UNCHANGED <<busy, idle, nIdleAll>>
        /\ closing' = [closing EXCEPT ![p] = None]
        /\ DecNBusyAll(pdsn[p], closing[p], call, nIdleAll, takeCare, timer)
    BY DEF CloseCompletes, Macrotask, WfInv, TypeOK
  <1>2. \A s \in Runs : /\ run'[s].calls = run[s].calls /\ run'[s].st = run[s].st
                        /\ run'[s].protos = run[s].protos \ {p} /\ run[s].protos \subseteq Protos
    <2>1. \A s \in Runs : /\ run'[s] = [run[s] EXCEPT !.protos = run[s].protos \ {p}]
                          /\ run[s] \in Run
      BY DEF CloseCompletes, WfInv, TypeOK
    <2>2. QED
      BY <2>1 DEF Run
  <1>3. \A q \in Protos : q # p => closing'[q] = closing[q]
    BY <1>1 DEF WfInv, TypeOK
  <1>4. RunsShrink /\ \A s \in Runs : \A q \in run'[s].protos : closing'[q] # None
    BY <1>2, <1>3 DEF RunsShrink, CareInv
  <1>5. call \in [Calls -> Call] /\ \A x \in Calls : MovesOn(call[x], call[x])
    BY DEF WfInv, TypeOK, MovesOn
  <1>6. NoConnection => NoConnection'
    BY <1>1 DEF NoConnection, InBusy, InIdle
  <1>7. nIdleAll' = nIdleAll
    BY <1>1
  <1>8. QED
    BY <1>1, <1>4, <1>5, <1>6, <1>7, DecTick

(* #commonTask begins to close idle connections.                             *)
LEMMA TaskBeginsTick ==
  ASSUME WfInv, CareInv, TickInv, NEW r \in Runs, TaskBegins(r)
  PROVE  CareInv' /\ TickInv'
  <1> DEFINE close(e) == IdleToClose(e, r = Final)
             closed == UNION {close(e) : e \in Mapped}
  <1>1. /\ UNCHANGED <<call, busy, timer>> /\ run[r].st = "start" /\ run \in [Runs -> Run]
        /\ idle' = [e \in Entries |-> IF e \in Mapped THEN idle[e] \ close(e) ELSE idle[e]]
        /\ closing' = [p \in Protos |-> IF p \in closed THEN CHOOSE e \in Mapped : p \in close(e)
                                        ELSE closing[p]]
        /\ run' = [run EXCEPT ![r] = [st |-> "loop", todo |-> takeCare,
                                      protos |-> closed, calls |-> {}]]
    BY DEF TaskBegins, WfInv, TypeOK
  <1>2. Mapped \subseteq Entries /\ \A e \in Entries : idle[e] \subseteq Protos
    BY DEF Mapped, WfInv, TypeOK
  <1>3. closed \subseteq Protos
    BY <1>2 DEF IdleToClose
  <1>4. ASSUME NEW p \in closed PROVE closing'[p] # None
    <2>1. \E e \in Mapped : p \in close(e)
      OBVIOUS
    <2> HIDE DEF close
    <2>2. (CHOOSE e \in Mapped : p \in close(e)) # None
      BY <1>2, <2>1, PoolAssumption
    <2>3. QED
      BY <1>1, <1>3, <2>2
  <1>5. NoConnection => NoConnection'
    BY <1>1 DEF NoConnection, InBusy, InIdle
  <1>6. \A p \in Protos : closing[p] # None => closing'[p] # None
    BY <1>1, <1>4
  <1> HIDE DEF closed
  <1>7. /\ run'[r].st = "loop" /\ run'[r].protos = closed /\ run'[r].calls = {}
        /\ \A s \in Runs : s # r => run'[s] = run[s]
        /\ \A s \in Runs : run[s].protos \subseteq Protos
    BY <1>1 DEF Run
  <1>8. CareInv'
    BY <1>1, <1>4, <1>6, <1>7 DEF CareInv
  <1>9. timer \in {"Inactive", "Active"} => r \notin Ticks
    BY <1>1 DEF TickInv, Finishing
  <1>10. \A s \in Ticks : s \in Runs /\ (run'[s].st # "off" => run[s].st # "off")
    BY <1>1, <1>7 DEF Runs
  <1>11. ASSUME NEW s \in Ticks, run'[s].st # "off", timer \in {"Inactive", "Active"}
         PROVE  Finishing(s)'
    BY <1>1, <1>7, <1>9, <1>10, <1>11 DEF TickInv, Finishing
  <1>12. QED
    BY <1>1, <1>5, <1>8, <1>10, <1>11 DEF TickInv

(* The timer fires only when no activation is left.                          *)
LEMMA TimerFiresTick ==
  ASSUME WfInv, CareInv, TickInv, NEW r \in Runs, TimerFires(r)
  PROVE  CareInv' /\ TickInv'
  <1>1. /\ UNCHANGED <<call, closing>> /\ timer = "Active" /\ timer' = "Executing"
        /\ r \in Ticks /\ run[r].st = "off" /\ ~MicrotaskPending /\ run \in [Runs -> Run]
        /\ run' = [run EXCEPT ![r] = [run[r] EXCEPT !.st = "start"]]
    BY DEF TimerFires, Macrotask, WfInv, TypeOK
  <1>2. /\ run'[r].protos = run[r].protos /\ run'[r].calls = run[r].calls
        /\ \A s \in Runs : s # r => run'[s] = run[s]
    BY <1>1 DEF Run
  <1>3. CareInv'
    BY <1>1, <1>2 DEF CareInv
  <1>4. ASSUME NEW s \in Ticks, run[s].st # "off" PROVE FALSE
    <2>1. Finishing(s) /\ s \in Runs
      BY <1>1, <1>4 DEF TickInv, Runs
    <2>2. run[s].calls = {} => Settled(s)
      BY <2>1 DEF Finishing, Settled
    <2>3. \A c \in run[s].calls : c \in Calls /\ call[c].pc = "failed"
      BY <1>1, <2>1 DEF Finishing, Run
    <2>4. QED
      BY <1>1, <2>1, <2>2, <2>3 DEF MicrotaskPending
  <1>5. \A s \in Ticks : run'[s].st # "off" => s = r
    BY <1>2, <1>4 DEF Runs
  <1>6. QED
    BY <1>1, <1>3, <1>5 DEF TickInv

(* The synchronous part ends, and stops the timer if nothing is in use.      *)
LEMMA TaskAwaitsTick ==
  ASSUME WfInv, PlaceInv, CountInv, CareInv, TickInv, WfInv', UseInv', CountInv', NEW r \in Runs,
         TaskAwaits(r)
  PROVE  CareInv' /\ TickInv'
  <1>1. /\ UNCHANGED <<call, closing, busy, idle, nBusyAll, nIdleAll>>
        /\ run[r].st = "loop" /\ run \in [Runs -> Run] /\ \A c \in Calls : call[c].pc # "popping"
        /\ run' = [run EXCEPT ![r] = [run[r] EXCEPT !.st = "await"]]
        /\ timer' = timer \/ nBusyAll + nIdleAll = 0
    BY DEF TaskAwaits, WfInv, TypeOK
  <1>2. /\ run'[r].st = "await" /\ run'[r].protos = run[r].protos /\ run'[r].calls = run[r].calls
        /\ \A s \in Runs : s # r => run'[s] = run[s]
    BY <1>1 DEF Run
  <1>3. CareInv'
    BY <1>1, <1>2 DEF CareInv
  <1>4. \A s \in Ticks : s \in Runs /\ (run'[s].st # "off" => run[s].st # "off")
    BY <1>1, <1>2 DEF Runs
  <1>5. CASE timer' = timer
    <2>1. timer \in {"Inactive", "Active"} => r \notin Ticks
      BY <1>1 DEF TickInv, Finishing
    <2>2. ASSUME NEW s \in Ticks, run'[s].st # "off", timer \in {"Inactive", "Active"}
          PROVE  Finishing(s)'
      BY <1>1, <1>2, <1>4, <2>1, <2>2 DEF TickInv, Finishing
    <2>3. NoConnection => NoConnection'
      BY <1>1 DEF NoConnection, InBusy, InIdle
    <2>4. QED
      BY <1>3, <1>4, <1>5, <2>2, <2>3 DEF TickInv
  <1>6. CASE nBusyAll + nIdleAll = 0
    <2>1. nBusyAll \in Nat /\ nIdleAll \in Nat
      BY CountFinite DEF CountInv
    <2>2. nBusyAll' = 0 /\ nIdleAll' = 0
      BY <1>1, <1>6, <2>1
    <2>3. \A s \in Runs : run[s].st \in {"start", "loop"} => s = r
      BY <1>1 DEF PlaceInv, OneLoop
    <2>4. \A s \in Runs : run'[s].st \notin {"start", "loop"}
      BY <1>2, <2>3
    <2>5. (~InSync)'
      BY <1>1, <2>4 DEF InSync
    <2>6. QED
      BY <1>3, <1>4, <2>2, <2>5, TickStopped
  <1>7. QED
    BY <1>1, <1>5, <1>6

(* An activation ends, or begins again.                                      *)
LEMMA TaskEndsTick ==
  ASSUME WfInv, CareInv, TickInv, NEW r \in Runs, TaskEnds(r)
  PROVE  CareInv' /\ TickInv'
  <1> DEFINE again == [NoRun EXCEPT !.st = "start"]
  <1>1. /\ NoRun.calls = {} /\ NoRun.protos = {} /\ NoRun.st = "off"
        /\ again.calls = {} /\ again.protos = {}
    BY DEF NoRun
  <1>2. /\ UNCHANGED <<call, closing, busy, idle>> /\ r \in Ticks /\ run[r].st # "off"
        /\ \/ run' = [run EXCEPT ![r] = again] /\ timer' = "Executing"
           \/ run' = [run EXCEPT ![r] = NoRun] /\ timer' = FinishedState(timer)
    BY DEF TaskEnds, Settled
  <1> HIDE DEF again
  <1>3. /\ run'[r].calls = {} /\ run'[r].protos = {}
        /\ timer' = "Executing" \/ run'[r].st = "off"
        /\ \A s \in Runs : s # r => run'[s] = run[s]
    BY <1>1, <1>2 DEF WfInv, TypeOK
  <1>4. CareInv'
    BY <1>2, <1>3 DEF CareInv
  <1>5. \A s \in Ticks : s # r => run[s].st = "off" /\ run'[s].st = "off"
    BY <1>2, <1>3 DEF TickInv, Runs
  <1>6. timer' = "Inactive" => timer = "Inactive"
    BY <1>2 DEF FinishedState, Reschedules, StartedState
  <1>7. NoConnection => NoConnection'
    BY <1>2 DEF NoConnection, InBusy, InIdle
  <1>8. QED
    BY <1>3, <1>4, <1>5, <1>6, <1>7 DEF TickInv

LEMMA TaskRequeuesTick ==
  ASSUME WfInv, CareInv, TickInv, NEW r \in Runs, NEW i \in Protos, TaskRequeues(r, i)
  PROVE  CareInv' /\ TickInv'
  <1>1. /\ run' = [run EXCEPT ![r] = [run[r] EXCEPT !.todo = @ \ {i}]] /\ run \in [Runs -> Run]
        /\ UNCHANGED <<call, closing, timer, busy, idle>>
    BY DEF TaskRequeues, WfInv, TypeOK
  <1>2. RunsShrink
    BY <1>1 DEF Run, RunsShrink
  <1>3. AwaitedGo
    BY <1>1, <1>2 DEF AwaitedGo, RunsShrink, CareInv, Goes
  <1>4. TimerKept
    BY <1>1 DEF TimerKept, NoConnection, InBusy, InIdle
  <1>5. QED
    BY <1>2, <1>3, <1>4, CareKept, TickKept

(* #commonTask does not wait for slots: it looks for one before it calls     *)
(* getProtocol().                                                            *)
LEMMA CarePops ==
  ASSUME WfInv, NEW c \in Calls, NEW d \in Dsns, NEW info,
         GetProtocol(c, d, "care", None, info), ~Saturated(d)
  PROVE  call'[c].pc = "popping"
  <1> DEFINE rec(pc, e) == [pc |-> pc, kind |-> "care", conn |-> None, info |-> info,
                            dsn |-> d, entry |-> e, proto |-> None, held |-> {}]
  <1>1. CASE entryOf[d] # None
    <2>1. WaitForSlot(c, rec("free", entryOf[d]), FALSE)
      BY <1>1 DEF GetProtocol
    <2>2. call' = [call EXCEPT ![c] = [rec("free", entryOf[d]) EXCEPT !.pc = "popping"]]
      BY <1>1, <2>1 DEF WaitForSlot, Saturated
    <2> DEFINE x == [rec("free", entryOf[d]) EXCEPT !.pc = "popping"]
    <2>3. x.pc = "popping" /\ call' = [call EXCEPT ![c] = x]
      BY <2>2
    <2> HIDE DEF x
    <2>4. QED
      BY <2>3 DEF WfInv, TypeOK
  <1>2. CASE entryOf[d] = None
    <2>1. PICK e \in FreeEntries : call' = [call EXCEPT ![c] = rec("popping", e)]
      BY <1>2 DEF GetProtocol
    <2> DEFINE x == rec("popping", e)
    <2>2. x.pc = "popping" /\ call' = [call EXCEPT ![c] = x]
      BY <2>1
    <2> HIDE DEF x
    <2>3. QED
      BY <2>2 DEF WfInv, TypeOK
  <1>3. QED
    BY <1>1, <1>2

LEMMA TaskCaresTick ==
  ASSUME WfInv, CareInv, TickInv, NEW r \in Runs, NEW i \in Protos, NEW c \in Calls,
         TaskCares(r, i, c)
  PROVE  CareInv' /\ TickInv'
  <1>1. /\ GetProtocol(c, pdsn[i], "care", None, i) /\ pdsn[i] \in Dsns /\ ~Saturated(pdsn[i])
        /\ run[r].st = "loop" /\ run \in [Runs -> Run]
        /\ run' = [run EXCEPT ![r] = [run[r] EXCEPT !.todo = @ \ {i}, !.calls = @ \cup {c}]]
        /\ UNCHANGED <<closing, timer, busy, idle>>
    BY DEF TaskCares, WfInv, DsnKnown, TypeOK
  <1>2. PICK x \in Call : call' = [call EXCEPT ![c] = x] /\ x.kind = "care"
    BY <1>1, GetProtocolEntry
  <1>3. /\ \A y \in Calls : call'[y] = IF y = c THEN x ELSE call[y]
        /\ Cares(x)
    <2>1. call'[c].pc = "popping"
      BY <1>1, CarePops
    <2>2. QED
      BY <1>2, <2>1 DEF Cares, WfInv, TypeOK
  <1>4. call[c].pc = "free"
    BY <1>1 DEF GetProtocol
  <1>5. /\ run'[r].st = "loop" /\ run'[r].protos = run[r].protos
        /\ run'[r].calls = run[r].calls \cup {c}
        /\ \A s \in Runs : s # r => run'[s] = run[s]
        /\ \A s \in Runs : run[s].calls \subseteq Calls
    BY <1>1 DEF Run
  <1>6. CareInv'
    <2>1. \A s \in Runs : \A y \in run'[s].calls : Cares(call'[y])
      BY <1>3, <1>5 DEF CareInv
    <2>2. \A s \in Runs : \A p \in run'[s].protos : closing'[p] # None
      BY <1>1, <1>5 DEF CareInv
    <2>3. QED
      BY <2>1, <2>2 DEF CareInv, Cares
  <1>7. timer \in {"Inactive", "Active"} => r \notin Ticks
    BY <1>1 DEF TickInv, Finishing
  <1>8. \A s \in Ticks : s \in Runs /\ (run'[s].st # "off" => run[s].st # "off")
    BY <1>1, <1>5 DEF Runs
  <1>9. ASSUME NEW s \in Ticks, run'[s].st # "off", timer \in {"Inactive", "Active"}
        PROVE  Finishing(s)'
    <2>1. Finishing(s) /\ run'[s] = run[s]
      BY <1>5, <1>7, <1>8, <1>9 DEF TickInv
    <2>2. \A y \in run[s].calls : call'[y].pc = "failed"
      BY <1>3, <1>4, <1>5, <1>8, <2>1 DEF Finishing
    <2>3. QED
      BY <2>1, <2>2 DEF Finishing
  <1>10. NoConnection => NoConnection'
    BY <1>1 DEF NoConnection, InBusy, InIdle
  <1>11. QED
    BY <1>1, <1>6, <1>8, <1>9, <1>10 DEF TickInv

(* Disposal of the pool uses an activation of its own.                       *)
LEMMA DisposeTick ==
  ASSUME WfInv, CareInv, TickInv, DisposeNext
  PROVE  CareInv' /\ TickInv'
  <1>1. UNCHANGED <<call, closing, busy, idle>> /\ (timer' = timer \/ timer' = "Terminated")
    BY DEF DisposeNext, AsyncDispose, DisposeIntervals, AllEnded, CloseIdle, Disposed
  <1>2. TimerKept
    BY <1>1 DEF TimerKept, NoConnection, InBusy, InIdle
  <1>3. CASE UNCHANGED run
    BY <1>1, <1>2, <1>3, TickFrame
  <1>4. CASE CloseIdle \/ Disposed
    <2> DEFINE started == [run[Final] EXCEPT !.st = "start"]
    <2>1. /\ started.calls = run[Final].calls /\ started.protos = run[Final].protos
          /\ NoRun.calls = {} /\ NoRun.protos = {} /\ Final \in Runs /\ run \in [Runs -> Run]
      BY DEF WfInv, TypeOK, Run, NoRun, Runs
    <2>2. run' = [run EXCEPT ![Final] = started] \/ run' = [run EXCEPT ![Final] = NoRun]
      BY <1>4 DEF CloseIdle, Disposed
    <2> HIDE DEF started
    <2>3. /\ run'[Final].calls \subseteq run[Final].calls
          /\ run'[Final].protos \subseteq run[Final].protos
          /\ \A s \in Runs : s # Final => run'[s] = run[s]
      BY <2>1, <2>2
    <2>4. CareInv'
      BY <1>1, <2>3 DEF CareInv
    <2>5. \A s \in Ticks : run'[s] = run[s]
      BY <2>3, PoolAssumption DEF Runs
    <2>6. QED
      BY <1>1, <1>2, <2>4, <2>5 DEF TickInv, TimerKept, Finishing
  <1>5. QED
    BY <1>3, <1>4 DEF DisposeNext, AsyncDispose, AllEnded

LEMMA NextTickInv ==
  ASSUME HInv, CountInv, CareInv, TickInv, HInv', CountInv', [Next]_vars
  PROVE  CareInv' /\ TickInv'
  <1>1. WfInv /\ PlaceInv /\ UseInv /\ WfInv' /\ UseInv'
    BY DEF HInv, IInv
  <1>2. ASSUME UNCHANGED <<call, run, closing, timer, busy, idle>> PROVE CareInv' /\ TickInv'
    <2>1. TimerKept
      BY <1>2 DEF TimerKept, NoConnection, InBusy, InIdle
    <2>2. QED
      BY <1>2, <2>1, TickFrame
  <1>3. ASSUME NEW c \in Calls, CallNext(c) PROVE CareInv' /\ TickInv'
    BY <1>1, <1>3, CallStepsTick, PopIdleTick, NewConnOkTick, NewConnFailsTick DEF CallNext
  <1>4. ASSUME NEW p \in Protos, ProtoNext(p) PROVE CareInv' /\ TickInv'
    BY <1>1, <1>2, <1>4, ReturnCompletesTick, CloseCompletesTick DEF ProtoNext, Expire
  <1>5. ASSUME NEW k \in Conns, ConnNext(k) PROVE CareInv' /\ TickInv'
    <2>1. ASSUME NEW c \in Calls, Connect(k, c) \/ KillQuery(k, c) PROVE CareInv' /\ TickInv'
      <3>1. /\ \E kind \in {"connect", "kill"} : GetProtocol(c, DsnOf[k], kind, k, None)
            /\ UNCHANGED <<timer, busy, idle, closing, run>> /\ DsnOf[k] \in Dsns
        BY <2>1, PoolAssumption DEF Connect, KillQuery
      <3>2. QED
        BY <1>1, <3>1, GetProtocolTick
    <2>2. CASE Create(k) \/ End(k) \/ Dispose(k)
      BY <1>2, <2>2 DEF Create, End, Dispose
    <2>3. QED
      BY <1>1, <1>5, <2>1, <2>2, ForceTick DEF ConnNext
  <1>6. ASSUME NEW r \in Runs, TaskNext(r) PROVE CareInv' /\ TickInv'
    BY <1>1, <1>6, TimerFiresTick, TaskBeginsTick, TaskAwaitsTick, TaskEndsTick, TaskRequeuesTick,
       TaskCaresTick DEF TaskNext
  <1>7. CASE (\E e \in Entries : HealthLapses(e)) \/ UnrefLater \/ UNCHANGED vars
    BY <1>2, <1>7 DEF HealthLapses, UnrefLater, vars
  <1>8. QED
    BY <1>1, <1>3, <1>4, <1>5, <1>6, <1>7, DisposeTick DEF Next

(* The periodic task is scheduled as long as the pool has a connection, and  *)
(* never entered while an activation has something left to await, whenever   *)
(* #decNBusyAll() and the task stop the timer and getProtocol() and          *)
(* forceImmediateDisconnect() start it (my_pool.ts:350, 367, 449, 534). *)
THEOREM PoolJanitorScheduled == Spec /\ StrandsNone => []JanitorScheduled
  <1>1. Init => CareInv /\ TickInv
    BY InitTickInv
  <1>2. HInv /\ CountInv /\ CareInv /\ TickInv /\ (HInv /\ CountInv)' /\ [Next]_vars
            => (CareInv /\ TickInv)'
    BY NextTickInv
  <1>3. HInv /\ CountInv /\ CareInv /\ TickInv => JanitorScheduled
    <2> SUFFICES ASSUME HInv, CountInv, CareInv, TickInv PROVE JanitorScheduled
      OBVIOUS
    <2>1. ASSUME nIdleAll > 0 PROVE \E p \in Protos : InIdle(p)
      <3>1. IdleProtos # {}
        BY <2>1, CountFinite, FS_EmptySet DEF CountInv
      <3>2. QED
        BY <3>1 DEF IdleProtos
    <2>2. QED
      BY <2>1 DEF JanitorScheduled, TickInv, NoConnection
  <1>4. QED
    BY <1>1, <1>2, <1>3, SpecCountInv, PTL DEF Spec

-----------------------------------------------------------------------------
(* If no call may wait for a slot (maxConnsWaitQueue is 0), then no call is  *)
(* ever stranded.                                                            *)

Queued(r) == r.pc \in {"waiting", "woken", "late"}

QueueEmpty == \A c \in Calls : ~Queued(call[c])

LEMMA QueueOneCall ==
  ASSUME WfInv, QueueEmpty, NEW c \in Calls, NEW r, call' = [call EXCEPT ![c] = r], ~Queued(r)
  PROVE  QueueEmpty'
  <1>1. \A x \in Calls : ~Queued(call'[x])
    BY DEF QueueEmpty, WfInv, TypeOK
  <1>2. QED
    BY <1>1 DEF QueueEmpty, Queued

LEMMA DecQueue ==
  ASSUME WfInv, QueueEmpty, NEW d, NEW e \in Entries, NEW calls \in [Calls -> Call], NEW idleAll,
         NEW care, NEW tm, DecNBusyAll(d, e, calls, idleAll, care, tm),
         \A x \in Calls : ~Queued(calls[x])
  PROVE  QueueEmpty'
  <1>1. ASSUME NEW x \in Calls PROVE ~Queued(call'[x])
    <2>1. call[x].pc # "waiting"
      BY DEF QueueEmpty, Queued
    <2>2. call'[x] = calls[x] \/ Woken(call[x], call'[x])
      BY <2>1, DecWakes
    <2>3. QED
      BY <2>1, <2>2 DEF Woken
  <1>2. QED
    BY <1>1 DEF QueueEmpty, Queued

LEMMA CallQueue ==
  ASSUME WfInv, QueueEmpty, NEW c \in Calls, CallNext(c)
  PROVE  QueueEmpty'
  <1>1. call[c] \in Call /\ ~Queued(call[c])
    BY DEF WfInv, TypeOK, QueueEmpty
  <1>2. CASE (\E late \in BOOLEAN : WaitTimesOut(c, late)) \/ WaitEnds(c)
    BY <1>1, <1>2 DEF WaitTimesOut, WaitEnds, Queued
  <1>3. CASE \E p \in Protos : PopIdle(c, p)
    <2>1. PICK p \in Protos : PopIdle(c, p)
      BY <1>3
    <2> DEFINE r == [call[c] EXCEPT !.pc = "delivered", !.proto = p]
    <2>2. r.pc = "delivered" /\ (UNCHANGED call \/ call' = [call EXCEPT ![c] = r])
      BY <1>1, <2>1 DEF PopIdle, Call
    <2> HIDE DEF r
    <2>3. QED
      BY <2>2, QueueOneCall DEF Queued, QueueEmpty
  <1>4. CASE PopNothing(c)
    <2> DEFINE r == [call[c] EXCEPT !.pc = "connecting"]
    <2>1. r.pc = "connecting" /\ call' = [call EXCEPT ![c] = r]
      BY <1>1, <1>4 DEF PopNothing, Call
    <2> HIDE DEF r
    <2>2. QED
      BY <2>1, QueueOneCall DEF Queued
  <1>5. CASE ClearDisconnected(c)
    <2>1. PICK i : call' = [call EXCEPT ![c] = [call[c] EXCEPT !.held = @ \cup {i}]]
      BY <1>5 DEF ClearDisconnected
    <2> DEFINE r == [call[c] EXCEPT !.held = @ \cup {i}]
    <2>2. r.pc = call[c].pc /\ call' = [call EXCEPT ![c] = r]
      BY <1>1, <2>1 DEF Call
    <2> HIDE DEF r
    <2>3. QED
      BY <1>1, <2>2, QueueOneCall DEF Queued
  <1>6. CASE NewConnOk(c)
    <2>1. PICK p \in Protos :
              call' = [call EXCEPT ![c].pc = "delivered", ![c].proto = p, ![c].held = {}]
      BY <1>6 DEF NewConnOk, FreeProtos
    <2> DEFINE r == [call[c] EXCEPT !.pc = "delivered", !.proto = p, !.held = {}]
    <2>2. r.pc = "delivered" /\ call' = [call EXCEPT ![c] = r]
      BY <1>1, <2>1 DEF Call, WfInv, TypeOK
    <2> HIDE DEF r
    <2>3. QED
      BY <2>2, QueueOneCall DEF Queued
  <1>7. CASE NewConnFails(c)
    <2> DEFINE calls == [call EXCEPT ![c].pc = "failed", ![c].held = {}]
               r == [call[c] EXCEPT !.pc = "failed", !.held = {}]
    <2>1. /\ call[c].pc = "connecting"
          /\ DecNBusyAll(call[c].dsn, call[c].entry, calls, nIdleAll, takeCare', timer)
      BY <1>7 DEF NewConnFails
    <2>2. r \in Call /\ r.pc = "failed" /\ call[c].entry \in Entries
      BY <1>1, <2>1, CallFacts DEF Call
    <2>3. calls = [call EXCEPT ![c] = r]
      OBVIOUS
    <2> HIDE DEF r
    <2>4. calls \in [Calls -> Call] /\ \A x \in Calls : calls[x] = IF x = c THEN r ELSE call[x]
      BY <2>1, <2>2, <2>3, CallFacts DEF WfInv, TypeOK
    <2> HIDE DEF calls
    <2>5. \A x \in Calls : ~Queued(calls[x])
      BY <2>2, <2>4 DEF QueueEmpty, Queued
    <2>6. QED
      BY <2>1, <2>2, <2>4, <2>5, DecQueue
  <1>8. CASE KillSend(c)
    <2> DEFINE r == [call[c] EXCEPT !.pc = "killing"]
    <2>1. r.pc = "killing" /\ call' = [call EXCEPT ![c] = r]
      BY <1>1, <1>8 DEF KillSend, Call
    <2> HIDE DEF r
    <2>2. QED
      BY <2>1, QueueOneCall DEF Queued
  <1>9. CASE Connected(c) \/ ConnectFails(c) \/ KillSent(c) \/ KillFails(c) \/ CareFails(c)
    <2>1. call' = [call EXCEPT ![c] = FreeCall] /\ ~Queued(FreeCall)
      BY <1>9 DEF Connected, ConnectFails, KillSent, KillFails, CareFails, Queued, FreeCall
    <2>2. QED
      BY <2>1, QueueOneCall
  <1>10. CASE CareDelivered(c)
    <2> DEFINE r == [call[c] EXCEPT !.pc = "returning", !.info = None]
    <2>1. r.pc = "returning" /\ call' = [call EXCEPT ![c] = r]
      BY <1>1, <1>10 DEF CareDelivered, Call
    <2> HIDE DEF r
    <2>2. QED
      BY <2>1, QueueOneCall DEF Queued
  <1>11. QED
    BY <1>2, <1>3, <1>4, <1>5, <1>6, <1>7, <1>8, <1>9, <1>10 DEF CallNext

LEMMA GetProtocolQueue ==
  ASSUME MaxWaitQueue = 0, WfInv, QueueEmpty, NEW c \in Calls, NEW d \in Dsns,
         NEW kind \in {"connect", "kill", "care"}, NEW k \in Conns \cup {None},
         NEW info \in Protos \cup {None}, GetProtocol(c, d, kind, k, info)
  PROVE  QueueEmpty'
  <1> DEFINE rec(pc, e) == [pc |-> pc, kind |-> kind, conn |-> k, info |-> info,
                            dsn |-> d, entry |-> e, proto |-> None, held |-> {}]
  <1>1. CASE entryOf[d] # None
    <2>1. WaitForSlot(c, rec("free", entryOf[d]), FALSE) /\ entryOf[d] \in Entries
      BY <1>1 DEF GetProtocol, WfInv, TypeOK
    <2>2. Cardinality(cb[entryOf[d]]) >= MaxWaitQueue
      <3>1. IsFiniteSet(cb[entryOf[d]])
        BY <2>1, PoolAssumption, FS_Subset DEF WfInv, TypeOK
      <3>2. QED
        BY <3>1, FS_CardinalityType
    <2>3. PICK pc \in {"popping", "failed"} :
              call' = [call EXCEPT ![c] = [rec("free", entryOf[d]) EXCEPT !.pc = pc]]
      BY <2>1, <2>2 DEF WaitForSlot
    <2> DEFINE r == [rec("free", entryOf[d]) EXCEPT !.pc = pc]
    <2>4. r.pc = pc /\ call' = [call EXCEPT ![c] = r]
      BY <2>3
    <2> HIDE DEF r
    <2>5. QED
      BY <2>4, QueueOneCall DEF Queued
  <1>2. CASE entryOf[d] = None
    <2>1. PICK e \in FreeEntries : call' = [call EXCEPT ![c] = rec("popping", e)]
      BY <1>2 DEF GetProtocol
    <2> DEFINE r == rec("popping", e)
    <2>2. r.pc = "popping" /\ call' = [call EXCEPT ![c] = r]
      BY <2>1
    <2> HIDE DEF r
    <2>3. QED
      BY <2>2, QueueOneCall DEF Queued
  <1>3. QED
    BY <1>1, <1>2

LEMMA NextQueueEmpty ==
  ASSUME MaxWaitQueue = 0, WfInv, UseInv, QueueEmpty, [Next]_vars
  PROVE  QueueEmpty'
  <1>1. ASSUME UNCHANGED call PROVE QueueEmpty'
    BY <1>1 DEF QueueEmpty, Queued
  <1>2. call \in [Calls -> Call] /\ \A c \in Calls : ~Queued(call[c])
    BY DEF QueueEmpty, WfInv, TypeOK
  <1>3. ASSUME NEW p \in Protos, ProtoNext(p) PROVE QueueEmpty'
    <2>1. CASE ReturnCompletes(p)
      <3> DEFINE calls == [c \in Calls |-> IF call[c].pc = "returning" /\ call[c].proto = p
                                           THEN FreeCall ELSE call[c]]
      <3>1. PICK forReuse \in BOOLEAN : DoReturnProtocol(p, forReuse, calls, takeCare, timer)
        BY <2>1 DEF ReturnCompletes
      <3>2. UseOk(p) /\ InBusy(p)
        BY <2>1 DEF ReturnCompletes, UseInv, UseOk, BusyIfUsed
      <3>3. calls \in [Calls -> Call] /\ \A c \in Calls : ~Queued(calls[c])
        BY <1>2, FreeCallType DEF Queued, FreeCall
      <3> HIDE DEF calls
      <3>4. PICK e \in Entries : DecNBusyAll(pdsn[p], e, calls, nIdleAll', takeCare, timer)
        BY <3>1, <3>2, DoReturnFinds DEF UseOk
      <3>5. PICK idleAll : DecNBusyAll(pdsn[p], e, calls, idleAll, takeCare, timer)
        BY <3>4
      <3>6. QED
        BY <3>3, <3>5, DecQueue
    <2>2. CASE CloseCompletes(p)
      <3>1. /\ closing[p] \in Entries
            /\ DecNBusyAll(pdsn[p], closing[p], call, nIdleAll, takeCare, timer)
        BY <2>2 DEF CloseCompletes, WfInv, TypeOK
      <3>2. QED
        BY <1>2, <3>1, DecQueue
    <2>3. QED
      BY <1>1, <1>3, <2>1, <2>2 DEF ProtoNext, Expire
  <1>4. ASSUME NEW k \in Conns, ConnNext(k) PROVE QueueEmpty'
    <2>1. ASSUME NEW c \in Calls, Connect(k, c) \/ KillQuery(k, c) PROVE QueueEmpty'
      <3>1. DsnOf[k] \in Dsns /\ \E kind \in {"connect", "kill"} : GetProtocol(c, DsnOf[k], kind, k, None)
        BY <2>1, PoolAssumption DEF Connect, KillQuery
      <3>2. QED
        BY <3>1, GetProtocolQueue
    <2>2. ASSUME NEW care \in BOOLEAN, ForceImmediateDisconnect(k, care) PROVE QueueEmpty'
      <3>1. PICK p \in Protos : conn[k].proto = p
        BY <2>2 DEF ForceImmediateDisconnect, WfInv, TypeOK, Conn
      <3>2. PICK tm : DoReturnProtocol(p, FALSE, call, takeCare', tm)
        BY <2>2, <3>1 DEF ForceImmediateDisconnect
      <3>3. UseOk(p) /\ InBusy(p)
        BY <3>1 DEF UseInv, UseOk, BusyIfUsed, ByConn
      <3>4. PICK e \in Entries : DecNBusyAll(pdsn[p], e, call, nIdleAll', takeCare', tm)
        BY <3>2, <3>3, DoReturnFinds DEF UseOk
      <3>5. PICK idleAll, tc : DecNBusyAll(pdsn[p], e, call, idleAll, tc, tm)
        BY <3>4
      <3>6. QED
        BY <1>2, <3>5, DecQueue
    <2>3. CASE Create(k) \/ End(k) \/ Dispose(k)
      BY <1>1, <2>3 DEF Create, End, Dispose
    <2>4. QED
      BY <1>4, <2>1, <2>2, <2>3 DEF ConnNext
  <1>5. ASSUME NEW r \in Runs, TaskNext(r) PROVE QueueEmpty'
    <2>1. ASSUME NEW i \in Protos, NEW c \in Calls, TaskCares(r, i, c) PROVE QueueEmpty'
      <3>1. GetProtocol(c, pdsn[i], "care", None, i) /\ pdsn[i] \in Dsns
        BY <2>1 DEF TaskCares, WfInv, DsnKnown
      <3>2. QED
        BY <3>1, GetProtocolQueue
    <2>2. CASE TimerFires(r) \/ TaskBegins(r) \/ TaskAwaits(r) \/ TaskEnds(r)
               \/ \E i \in Protos : TaskRequeues(r, i)
      BY <1>1, <2>2 DEF TimerFires, TaskBegins, TaskAwaits, TaskEnds, TaskRequeues
    <2>3. QED
      BY <1>5, <2>1, <2>2 DEF TaskNext
  <1>6. CASE (\E e \in Entries : HealthLapses(e)) \/ UnrefLater \/ DisposeNext \/ UNCHANGED vars
    BY <1>1, <1>6 DEF HealthLapses, UnrefLater, DisposeNext, AsyncDispose, AllEnded, CloseIdle,
                      Disposed, vars
  <1>7. QED
    BY <1>3, <1>4, <1>5, <1>6, CallQueue DEF Next

(* With maxConnsWaitQueue = 0 the same holds of every behaviour: a call that *)
(* finds no slot throws (my_pool.ts:305, 417-422), and #commonTask deletes   *)
(* no entry that somebody waits for.                                         *)
THEOREM PoolNoQueueSafe ==
  ASSUME MaxWaitQueue = 0
  PROVE  Spec => [](ExclusiveUse /\ NoneLeaked /\ CountersExact /\ JanitorScheduled)
  <1>1. Init => HInv /\ QueueEmpty
    <2>1. Init => QueueEmpty
      BY DEF Init, QueueEmpty, Queued, FreeCall
    <2>2. QED
      BY <2>1, InitWfInv, InitSlotInv, InitConnInv, InitUseInv, InitRefInv DEF HInv, IInv
  <1>2. HInv /\ QueueEmpty /\ [Next]_vars => (HInv /\ QueueEmpty)' /\ [NoneStranded]_vars
    <2> SUFFICES ASSUME HInv, QueueEmpty, [Next]_vars
                 PROVE  (HInv /\ QueueEmpty)' /\ [NoneStranded]_vars
      OBVIOUS
    <2>1. NoneStranded
      BY DEF NoneStranded, QueueEmpty, Queued
    <2>2. HInv'
      BY <2>1, NextWfInv, NextSlotInv, NextConnInv, NextPlaceInv, NextUseInv, NextRefInv
      DEF HInv, IInv
    <2>3. QueueEmpty'
      BY NextQueueEmpty DEF HInv, IInv
    <2>4. QED
      BY <2>1, <2>2, <2>3
  <1>3. Spec => StrandsNone
    BY <1>1, <1>2, PTL DEF Spec, StrandsNone
  <1>4. QED
    BY <1>3, PoolExclusiveUse, PoolNoneLeaked, PoolCountersExact, PoolJanitorScheduled, PTL

=============================================================================

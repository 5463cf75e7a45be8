--------------------------- MODULE ScheduleProofs ---------------------------
(***************************************************************************)
(* What Schedule promises for every set of authors and timers, every quota *)
(* and every bound.                                                        *)
(***************************************************************************)
EXTENDS Schedule, FiniteSetTheorems, TLAPS, Integers

Known(t) == call[t] \in {"stored", "done"}

\* Every timer the tables, the memory set or the loop hold is one whose
\* Schedule call stored it; a fire on its way to the marker is in truth.
HandsInv ==
    /\ \A t \in TimerId : call[t] # "idle" => req[t] \in Request
    /\ \A t \in TimerId : rows[t] # "absent" => Known(t)
    /\ \A t \in mem \cup batch : Known(t)
    /\ cur # None => Known(cur)
    /\ pc \in {"write", "settle", "dispose"} => cur # None
    /\ pc = "settle" => Rung(cur)
    /\ FiredIsInTruth
-----------------------------------------------------------------------------
LEMMA LandedKeeps ==
    ASSUME log \in Seq(Message), NEW m \in Message
    PROVE  /\ Landed(m) \in Seq(Message)
           /\ \A i \in 1..Len(log) : i \in 1..Len(Landed(m)) /\ Landed(m)[i] = log[i]
           /\ \E i \in 1..Len(Landed(m)) : Landed(m)[i].id = m.id
           /\ \A i \in 1..Len(Landed(m)) : i \in 1..Len(log) \/ (Landed(m)[i] = m /\ i = Len(log) + 1 /\ ~InTruth(m.id))
<1>1. CASE InTruth(m.id)
  BY <1>1, Zenon DEF Landed, InTruth
<1>2. CASE ~InTruth(m.id)
  BY <1>2 DEF Landed
<1>3. QED
  BY <1>1, <1>2, Zenon

LEMMA RingType ==
    ASSUME dead \in Seq(TimerId), NEW t \in TimerId
    PROVE  BuryInRing(rows, dead, t) \in Seq(TimerId)
<1> DEFINE all == Append(dead, t)
<1>1. all \in Seq(TimerId) /\ Len(all) \in Nat /\ \A i \in 1..Len(all) : all[i] \in TimerId
  OBVIOUS
<1>2. CASE Len(all) > MaxDead
  <2>1. SubSeq(all, Len(all) - MaxDead + 1, Len(all)) \in Seq(TimerId)
    BY <1>1, <1>2, StoreAssumption
  <2>2. QED
    BY <1>2, <2>1, Zenon DEF BuryInRing, RingAppend
<1>3. CASE ~(Len(all) > MaxDead)
  BY <1>1, <1>3, Zenon DEF BuryInRing, RingAppend
<1>4. QED
  BY <1>2, <1>3, Zenon

LEMMA InitHands == Init => TypeOK /\ HandsInv
<1>1. Init => TypeOK
  <2>1. Init => wake \in BOOLEAN /\ progress \in BOOLEAN
    BY Zenon DEF Init
  <2>2. Init => dead \in Seq(TimerId) /\ log \in Seq(Message)
    BY DEF Init
  <2>3. Init => req \in [TimerId -> Request \cup {NoRequest}]
    BY Zenon DEF Init
  <2>4. QED
    BY <2>1, <2>2, <2>3 DEF Init, TypeOK, RowState, None
<1>2. Init => HandsInv
  BY Zenon DEF Init, HandsInv, FiredIsInTruth, None, Known
<1>3. QED
  BY <1>1, <1>2, Zenon

\* The deadlines of stored timers are positive numbers.
LEMMA EarliestOfKnown ==
    ASSUME TypeOK, HandsInv, NEW S \in SUBSET TimerId, \A t \in S : Known(t), NEW n \in Earliest(S)
    PROVE  n \in Nat /\ \A t \in S : n # None /\ n <= req[t].fireAt
<1>1. \A t \in S : req[t].fireAt \in Nat \ {0}
  BY Zenon DEF HandsInv, Known, Request
<1>2. QED
  BY <1>1 DEF Earliest, None

LEMMA TypeStep ==
    ASSUME TypeOK, HandsInv, [Next]_vars
    PROVE  TypeOK'
<1> USE StoreAssumption, ScheduleAssumption DEF TypeOK, None, store, loop
<1>1. CASE ReadMemory
  <2>1. memNext' \in Nat
    BY <1>1, EarliestOfKnown, Zenon DEF HandsInv, ReadMemory
  <2>2. QED
    BY <1>1, <2>1, Zenon DEF ReadMemory
<1>2. CASE QueryStore
  <2>1. \A n \in Earliest(Pending(rows)) : n \in Nat
    BY EarliestOfKnown, Zenon DEF HandsInv, Pending
  <2>2. \A x, y \in Nat : Earlier(x, y) \in Nat
    BY Zenon DEF Earlier
  <2>3. RetryAt \in Nat
    BY DEF RetryAt
  <2>4. ASSUME NEW n \in Nat, Decide(n)
        PROVE  pc' \in {"park", "snap"} /\ alarm' \in Nat /\ runNow' \in Nat /\ memNext' \in Nat
    BY <2>4, Zenon DEF Decide
  <2>5. faults' \in Nat
    BY <1>2 DEF QueryStore, Fault
  <2>6. \E n \in Nat : Decide(n)
    <3>1. memNext \in Nat
      BY Zenon
    <3>2. QED
      BY <1>2, <2>1, <2>2, <2>3, <3>1, Zenon DEF QueryStore
  <2>7. QED
    BY <1>2, <2>4, <2>5, <2>6, Zenon DEF QueryStore
<1>3. CASE TakeStop
  BY <1>3, Zenon DEF TakeStop, Leave, Running
<1>4. CASE TakeWake
  BY <1>4, Zenon DEF TakeWake, Leave, Running
<1>5. CASE TakeAlarm
  BY <1>5, Zenon DEF TakeAlarm, Leave, Running
<1>6. CASE SnapshotMemory
  BY <1>6, Zenon DEF SnapshotMemory, Running
<1>7. CASE AdmitAuthor
  BY <1>7 DEF AdmitAuthor, Running, NextOf, Fault
<1>8. CASE WriteFire
  <2> DEFINE m == [id |-> fireMessageID(cur), sender |-> req[cur].author]
  <2>1. m \in Message
    BY <1>8, Zenon DEF HandsInv, WriteFire, Running, Known, Request, Message, fireMessageID
  <2>2. Landed(m) \in Seq(Message)
    BY <2>1, LandedKeeps, Zenon
  <2>3. log' \in Seq(Message) /\ cur' \in {cur, None} /\ pc' \in {"dispose", "settle", "fire"} /\ faults' \in Nat
    BY <1>8, <2>2 DEF WriteFire, Fault
  <2>4. QED
    BY <1>8, <2>3, Zenon DEF WriteFire
<1>9. CASE Settle
  <2>1. rows' \in [TimerId -> RowState] /\ mem' \in SUBSET TimerId
    BY <1>9, Zenon DEF Settle, MarkFired, RowState
  <2>2. faults' \in Nat
    BY <1>9 DEF Settle, Fault
  <2>3. progress' \in BOOLEAN
    BY <1>9, Zenon DEF Settle
  <2>4. QED
    BY <1>9, <2>1, <2>2, <2>3, Zenon DEF Settle
<1>10. CASE Dispose
  <2>1. cur \in TimerId
    BY <1>10, Zenon DEF HandsInv, Dispose, Running
  <2>2. BuryInRing(rows, dead, cur) \in Seq(TimerId)
    BY <2>1, RingType, Zenon
  <2>3. DeleteRow(rows, cur) \in [TimerId -> RowState]
    BY Zenon DEF DeleteRow, RowState
  <2>4. rows' \in [TimerId -> RowState] /\ dead' \in Seq(TimerId) /\ mem' \in SUBSET TimerId
    BY <1>10, <2>2, <2>3, Zenon DEF Dispose
  <2>5. faults' \in Nat
    BY <1>10 DEF Dispose, Fault
  <2>6. progress' \in BOOLEAN
    BY <1>10, Zenon DEF Dispose
  <2>7. QED
    BY <1>10, <2>4, <2>5, <2>6, Zenon DEF Dispose
<1>11. CASE QueryDue
  <2>1. Due(rows, req, runNow) \in SUBSET TimerId
    BY Zenon DEF Due, Pending
  <2>2. runNow + Backoff \in Nat
    OBVIOUS
  <2>3. /\ batch' \in SUBSET TimerId /\ family' \in {"mem", "row"}
        /\ pc' \in {"fire", "top", "park"} /\ alarm' \in Nat /\ runNow' \in Nat
    BY <1>11, <2>1, <2>2 DEF QueryDue, Running, Return
  <2>4. faults' \in Nat
    BY <1>11 DEF QueryDue, Fault
  <2>5. progress' \in BOOLEAN
    BY <1>11, Zenon DEF QueryDue, Return
  <2>6. QED
    BY <1>11, <2>3, <2>4, <2>5, Zenon DEF QueryDue
<1>12. CASE EndFireDue
  <2>1. runNow + Backoff \in Nat
    OBVIOUS
  <2>2. /\ pc' \in {"top", "park"} /\ alarm' \in Nat /\ runNow' \in Nat /\ progress' \in BOOLEAN
        /\ family' \in {"mem", "row"}
    BY <1>12, <2>1, Zenon DEF EndFireDue, Return
  <2>3. QED
    BY <1>12, <2>2, Zenon DEF EndFireDue
<1>13. CASE Tick
  BY <1>13 DEF Tick
<1>14. CASE Crash
  <2>1. call' \in [TimerId -> {"idle", "admitted", "stored", "done", "failed"}]
    BY <1>14, Zenon DEF Crash, Forget
  <2>2. stops' \in Nat
    BY <1>14 DEF Crash
  <2>3. QED
    BY <1>14, <2>1, <2>2, Zenon DEF Crash, Forget
<1>15. CASE Close
  BY <1>15 DEF Close
<1>16. CASE CloseDone
  <2>1. call' \in [TimerId -> {"idle", "admitted", "stored", "done", "failed"}]
    BY <1>16, Zenon DEF CloseDone, Forget
  <2>2. QED
    BY <1>16, <2>1, Zenon DEF CloseDone, Forget
<1>17. CASE Start
  BY <1>17, Zenon DEF Start
<1>18. ASSUME NEW t \in TimerId, Admit(t) PROVE TypeOK'
  BY <1>18 DEF Admit, Request, Home
<1>19. ASSUME NEW t \in TimerId, StoreTimer(t) PROVE TypeOK'
  <2>1. rows' \in [TimerId -> RowState] /\ mem' \in SUBSET TimerId
    BY <1>19 DEF StoreTimer, Insert, RowState
  <2>2. QED
    BY <1>19, <2>1, Zenon DEF StoreTimer
<1>20. ASSUME NEW t \in TimerId, RefuseTimer(t) PROVE TypeOK'
  BY <1>20 DEF RefuseTimer, Fault
<1>21. ASSUME NEW t \in TimerId, wakeUp(t) PROVE TypeOK'
  BY <1>21, Zenon DEF wakeUp
<1>22. ASSUME NEW t \in TimerId, NEW a \in Author, Cancel(t, a) PROVE TypeOK'
  BY <1>22, ZenonT(30) DEF Cancel, CancelOwned, RowState
<1>23. ASSUME NEW t \in TimerId, NEW a \in Author, Ack(t, a) PROVE TypeOK'
  BY <1>23, ZenonT(30) DEF Ack, AckOwned, RowState
<1>24. ASSUME NEW a \in Author, Remove(a) PROVE TypeOK'
  BY <1>24, Zenon DEF Remove
<1>25. ASSUME NEW a \in Author, ForgetActors(a) PROVE TypeOK'
  BY <1>25 DEF ForgetActors
<1>26. CASE UNCHANGED vars
  BY <1>26 DEF vars
<1>27. QED
  BY <1>1, <1>2, <1>3, <1>4, <1>5, <1>6, <1>7, <1>8, <1>9, <1>10, <1>11, <1>12, <1>13, Zenon,
     <1>14, <1>15, <1>16, <1>17, <1>18, <1>19, <1>20, <1>21, <1>22, <1>23, <1>24, <1>25, <1>26 DEF Next, Run, Callers, Roster

\* Deadlines are positive, so that None is none of them.
LEMMA DeadlinePositive ==
    ASSUME NEW t \in TimerId, NEW f \in FireAt[t]
    PROVE  f \in Nat /\ f > 0
BY ScheduleAssumption

LEMMA HandsStep ==
    ASSUME TypeOK, HandsInv, [Next]_vars
    PROVE  HandsInv'
<1> USE StoreAssumption DEF TypeOK, None, store, loop
<1> USE DEF HandsInv, FiredIsInTruth, Known, Rung, InTruth
<1>1. CASE ReadMemory
  BY <1>1, Zenon DEF ReadMemory, Running
<1>2. CASE QueryStore
  BY <1>2, Zenon DEF QueryStore, Running, Fault, Decide, Earlier, RetryAt
<1>3. CASE TakeStop
  BY <1>3, Zenon DEF TakeStop, Leave, Running
<1>4. CASE TakeWake
  BY <1>4, Zenon DEF TakeWake, Leave, Running
<1>5. CASE TakeAlarm
  BY <1>5, Zenon DEF TakeAlarm, Leave, Running
<1>6. CASE SnapshotMemory
  BY <1>6, Zenon DEF SnapshotMemory, Running
<1>7. CASE AdmitAuthor
  BY <1>7, Zenon DEF AdmitAuthor, Running, NextOf, Fault
<1>8. CASE WriteFire
  <2> DEFINE m == [id |-> fireMessageID(cur), sender |-> req[cur].author]
  <2>1. m \in Message /\ m.id = fireMessageID(cur)
    BY <1>8, Zenon DEF WriteFire, Running, Request, Message, fireMessageID
  <2>2. /\ \A i \in 1..Len(log) : i \in 1..Len(Landed(m)) /\ Landed(m)[i] = log[i]
        /\ \E i \in 1..Len(Landed(m)) : Landed(m)[i].id = m.id
    <3> HIDE DEF m, InTruth
    <3>1. QED
      BY <2>1, LandedKeeps, Zenon
  <2>3. log' \in {log, Landed(m)} /\ (pc' = "settle" => log' = Landed(m) /\ cur' = cur)
    BY <1>8, Zenon DEF WriteFire
  <2>4. \A t \in TimerId : Rung(t) => Rung(t)'
    BY <2>2, <2>3, Zenon
  <2>5. pc' = "settle" => Rung(cur)'
    BY <2>1, <2>2, <2>3, Zenon
  <2>6. QED
    BY <1>8, <2>4, <2>5, Zenon DEF WriteFire, Running
<1>9. CASE Settle
  BY <1>9, Zenon DEF Settle, Running, MarkFired, RowState, Fault
<1>10. CASE Dispose
  BY <1>10, Zenon DEF Dispose, Running, DeleteRow, RowState, Fault
<1>11. CASE QueryDue
  BY <1>11, Zenon DEF QueryDue, Running, Due, Pending, Return, Fault
<1>12. CASE EndFireDue
  BY <1>12, Zenon DEF EndFireDue, Running, Return
<1>13. CASE Tick
  BY <1>13, Zenon DEF Tick
<1>14. CASE Crash
  BY <1>14, Zenon DEF Crash, Forget
<1>15. CASE Close
  BY <1>15, Zenon DEF Close
<1>16. CASE CloseDone
  BY <1>16, Zenon DEF CloseDone, Forget
<1>17. CASE Start
  BY <1>17, Zenon DEF Start
<1>18. ASSUME NEW t \in TimerId, Admit(t) PROVE HandsInv'
  <2>1. PICK a \in member, f \in FireAt[t], h \in Homes :
           req' = [req EXCEPT ![t] = [author |-> a, fireAt |-> f, home |-> h]]
    BY <1>18, Zenon DEF Admit
  <2>2. f \in Nat /\ f > 0
    BY <2>1, DeadlinePositive, Zenon
  <2>3. req'[t] \in Request /\ \A u \in TimerId \ {t} : req'[u] = req[u]
    BY <2>1, <2>2, ScheduleAssumption DEF Request
  <2>4. /\ ~Known(t) /\ call[t] = "idle"
        /\ call' = [call EXCEPT ![t] = "admitted"]
        /\ UNCHANGED <<rows, dead, log, mem, batch, cur, pc>>
    BY <1>18, Zenon DEF Admit
  <2>5. QED
    BY <2>3, <2>4, Zenon
<1>19. ASSUME NEW t \in TimerId, StoreTimer(t) PROVE HandsInv'
  <2>1. /\ rows' \in {rows, [rows EXCEPT ![t] = "pending"]} /\ mem' \subseteq mem \cup {t}
        /\ call' = [call EXCEPT ![t] = "stored"]
        /\ UNCHANGED <<req, log, batch, cur, pc>> /\ call[t] = "admitted"
    BY <1>19, Zenon DEF StoreTimer, Insert
  <2>2. QED
    BY <2>1
<1>20. ASSUME NEW t \in TimerId, RefuseTimer(t) PROVE HandsInv'
  BY <1>20, Zenon DEF RefuseTimer, Fault
<1>21. ASSUME NEW t \in TimerId, wakeUp(t) PROVE HandsInv'
  BY <1>21, Zenon DEF wakeUp
<1>22. ASSUME NEW t \in TimerId, NEW a \in Author, Cancel(t, a) PROVE HandsInv'
  BY <1>22, Zenon DEF Cancel, CancelOwned, RowState
<1>23. ASSUME NEW t \in TimerId, NEW a \in Author, Ack(t, a) PROVE HandsInv'
  BY <1>23, Zenon DEF Ack, AckOwned, RowState
<1>24. ASSUME NEW a \in Author, Remove(a) PROVE HandsInv'
  BY <1>24, Zenon DEF Remove
<1>25. ASSUME NEW a \in Author, ForgetActors(a) PROVE HandsInv'
  BY <1>25, Zenon DEF ForgetActors
<1>26. CASE UNCHANGED vars
  BY <1>26, Zenon DEF vars
<1>27. QED
  BY <1>1, <1>2, <1>3, <1>4, <1>5, <1>6, <1>7, <1>8, <1>9, <1>10, <1>11, <1>12, <1>13, Zenon,
     <1>14, <1>15, <1>16, <1>17, <1>18, <1>19, <1>20, <1>21, <1>22, <1>23, <1>24, <1>25, <1>26 DEF Next, Run, Callers, Roster

(***************************************************************************)
(* The types hold for every roster, every set of timers and every bound.   *)
(***************************************************************************)
THEOREM TypeCorrect == Spec => []TypeOK
<1>1. Init => TypeOK /\ HandsInv
  BY InitHands, Zenon
<1>2. TypeOK /\ HandsInv /\ [Next]_vars => (TypeOK /\ HandsInv)'
  BY TypeStep, HandsStep, Zenon
<1>3. QED
  BY <1>1, <1>2, PTL DEF Spec

\* Every reachable state satisfies the invariant about what the loop holds.
LEMMA HandsAlways == Spec => [](TypeOK /\ HandsInv)
<1>1. TypeOK /\ HandsInv /\ [Next]_vars => (TypeOK /\ HandsInv)'
  BY TypeStep, HandsStep, Zenon
<1>2. QED
  BY InitHands, <1>1, PTL DEF Spec

(***************************************************************************)
(* No row is marked fired before its message is in the log, whatever       *)
(* fails, stops or is cancelled in between (MarkFired follows Append).     *)
(***************************************************************************)
THEOREM FiredFollowsTruth == Spec => []FiredIsInTruth
<1>1. HandsInv => FiredIsInTruth
  BY Zenon DEF HandsInv
<1>2. QED
  BY HandsAlways, <1>1, PTL

LEMMA OnceStep ==
    ASSUME TypeOK, HandsInv, FireAtMostOnce, [Next]_vars
    PROVE  FireAtMostOnce'
<1>1. CASE WriteFire
  <2> DEFINE m == [id |-> fireMessageID(cur), sender |-> req[cur].author]
  <2>1. m \in Message /\ m.id = fireMessageID(cur) /\ log \in Seq(Message)
    BY <1>1, Zenon DEF WriteFire, Running, Request, Message, fireMessageID, HandsInv, Known, TypeOK, None
  <2>2. log' \in {log, Landed(m)}
    BY <1>1, Zenon DEF WriteFire
  <2> HIDE DEF m
  <2>3. /\ \A i \in 1..Len(log) : i \in 1..Len(Landed(m)) /\ Landed(m)[i] = log[i]
        /\ \A i \in 1..Len(Landed(m)) :
              i \in 1..Len(log) \/ (Landed(m)[i] = m /\ i = Len(log) + 1 /\ ~InTruth(m.id))
    BY <2>1, LandedKeeps, Zenon
  <2>4. \A i \in 1..Len(log) : log[i].id \in {"timer"} \X TimerId
    <3>1. \A i \in 1..Len(log) : log[i] \in Message
      BY <2>1
    <3>2. \A x \in Message : x.id \in {"timer"} \X TimerId
      BY Zenon DEF Message
    <3>3. QED
      BY <3>1, <3>2, Zenon
  <2>5. ~InTruth(m.id) => \A i \in 1..Len(log) : log[i].id[2] # m.id[2]
    BY <2>1, <2>4 DEF InTruth, fireMessageID
  <2>6. CASE log' = log
    BY <2>6, Zenon DEF FireAtMostOnce
  <2>7. CASE log' = Landed(m)
    BY <2>3, <2>5, <2>7 DEF FireAtMostOnce
  <2>8. QED
    BY <2>2, <2>6, <2>7, Zenon
<1>2. CASE ~WriteFire
  <2>1. log' = log
    BY <1>2, Zenon DEF Next, Run, Callers, Roster, vars, store, loop, ReadMemory, QueryStore, TakeStop,
       TakeWake, TakeAlarm, Leave, SnapshotMemory, AdmitAuthor, Settle, Dispose, QueryDue,
       EndFireDue, Admit, StoreTimer, RefuseTimer, wakeUp, Cancel, Ack, Remove, ForgetActors,
       Tick, Crash, Close, CloseDone, Forget, Start
  <2>2. QED
    BY <2>1, Zenon DEF FireAtMostOnce
<1>3. QED
  BY <1>1, <1>2, Zenon

(***************************************************************************)
(* A timer leaves at most one message in the channel's log, through any    *)
(* number of retried fires, lost replies, crashes and restarts.            *)
(***************************************************************************)
THEOREM AtMostOnce == Spec => []FireAtMostOnce
<1>1. Init => FireAtMostOnce
  BY DEF Init, FireAtMostOnce
<1>2. TypeOK /\ HandsInv /\ FireAtMostOnce /\ [Next]_vars => FireAtMostOnce'
  BY OnceStep, Zenon
<1>3. QED
  BY HandsAlways, <1>1, <1>2, PTL DEF Spec
-----------------------------------------------------------------------------
(* Silence *)

LEMMA SilentStep ==
    ASSUME TypeOK, HandsInv, [Next]_vars, NEW u \in TimerId, Silent(u)
    PROVE  Silent(u)' /\ Rung(u)' = Rung(u)
<1> USE StoreAssumption DEF TypeOK, None, store, loop
<1> USE DEF Silent, Armed
<1>1. CASE ReadMemory
  BY <1>1, Zenon DEF ReadMemory, Running, Rung, InTruth
<1>2. CASE QueryStore
  BY <1>2, Zenon DEF QueryStore, Running, Fault, Decide, Earlier, RetryAt, Rung, InTruth
<1>3. CASE TakeStop
  BY <1>3, Zenon DEF TakeStop, Leave, Running, Rung, InTruth
<1>4. CASE TakeWake
  BY <1>4, Zenon DEF TakeWake, Leave, Running, Rung, InTruth
<1>5. CASE TakeAlarm
  BY <1>5, Zenon DEF TakeAlarm, Leave, Running, Rung, InTruth
<1>6. CASE SnapshotMemory
  BY <1>6, Zenon DEF SnapshotMemory, Running, Rung, InTruth
<1>7. CASE AdmitAuthor
  BY <1>7, Zenon DEF AdmitAuthor, Running, NextOf, Fault, Rung, InTruth
<1>8. CASE WriteFire
  <2>1. Silent(u)'
    BY <1>8, Zenon DEF WriteFire
  <2> DEFINE m == [id |-> fireMessageID(cur), sender |-> req[cur].author]
  <2>2. m \in Message /\ m.id = fireMessageID(cur) /\ log \in Seq(Message) /\ cur # u
    BY <1>8, Zenon DEF WriteFire, Running, Request, Message, fireMessageID, HandsInv, Known
  <2>3. log' \in {log, Landed(m)}
    BY <1>8, Zenon DEF WriteFire
  <2>4. fireMessageID(u) # m.id
    BY <2>2, Zenon DEF fireMessageID
  <2> HIDE DEF m
  <2>5. /\ \A i \in 1..Len(log) : i \in 1..Len(Landed(m)) /\ Landed(m)[i] = log[i]
        /\ \A i \in 1..Len(Landed(m)) : i \in 1..Len(log) \/ Landed(m)[i] = m
    BY <2>2, LandedKeeps, Zenon
  <2>6. Rung(u)' <=> Rung(u)
    BY <2>3, <2>4, <2>5, Zenon DEF Rung, InTruth
  <2>7. QED
    BY <2>1, <2>6, Zenon DEF Rung, InTruth
<1>9. CASE Settle
  BY <1>9, Zenon DEF Settle, Running, MarkFired, RowState, Fault, Rung, InTruth
<1>10. CASE Dispose
  BY <1>10, Zenon DEF Dispose, Running, DeleteRow, RowState, Fault, Rung, InTruth
<1>11. CASE QueryDue
  BY <1>11, Zenon DEF QueryDue, Running, Due, Pending, Return, Fault, Rung, InTruth
<1>12. CASE EndFireDue
  BY <1>12, Zenon DEF EndFireDue, Running, Return, Rung, InTruth
<1>13. CASE Tick
  BY <1>13, Zenon DEF Tick, Rung, InTruth
<1>14. CASE Crash
  BY <1>14, Zenon DEF Crash, Forget, Rung, InTruth
<1>15. CASE Close
  BY <1>15, Zenon DEF Close, Rung, InTruth
<1>16. CASE CloseDone
  BY <1>16, Zenon DEF CloseDone, Forget, Rung, InTruth
<1>17. CASE Start
  BY <1>17, Zenon DEF Start, Rung, InTruth
<1>18. ASSUME NEW t \in TimerId, Admit(t) PROVE Silent(u)' /\ Rung(u)' = Rung(u)
  BY <1>18, Zenon DEF Admit, Request, Home, Rung, InTruth
<1>19. ASSUME NEW t \in TimerId, StoreTimer(t) PROVE Silent(u)' /\ Rung(u)' = Rung(u)
  BY <1>19, Zenon DEF StoreTimer, Insert, RowState, Rung, InTruth
<1>20. ASSUME NEW t \in TimerId, RefuseTimer(t) PROVE Silent(u)' /\ Rung(u)' = Rung(u)
  BY <1>20, Zenon DEF RefuseTimer, Fault, Rung, InTruth
<1>21. ASSUME NEW t \in TimerId, wakeUp(t) PROVE Silent(u)' /\ Rung(u)' = Rung(u)
  BY <1>21, Zenon DEF wakeUp, Rung, InTruth
<1>22. ASSUME NEW t \in TimerId, NEW a \in Author, Cancel(t, a) PROVE Silent(u)' /\ Rung(u)' = Rung(u)
  BY <1>22, Zenon DEF Cancel, CancelOwned, RowState, Rung, InTruth
<1>23. ASSUME NEW t \in TimerId, NEW a \in Author, Ack(t, a) PROVE Silent(u)' /\ Rung(u)' = Rung(u)
  BY <1>23, Zenon DEF Ack, AckOwned, RowState, Rung, InTruth
<1>24. ASSUME NEW a \in Author, Remove(a) PROVE Silent(u)' /\ Rung(u)' = Rung(u)
  BY <1>24, Zenon DEF Remove, Rung, InTruth
<1>25. ASSUME NEW a \in Author, ForgetActors(a) PROVE Silent(u)' /\ Rung(u)' = Rung(u)
  BY <1>25, Zenon DEF ForgetActors, Rung, InTruth
<1>26. CASE UNCHANGED vars
  BY <1>26, Zenon DEF vars, Rung, InTruth
<1>27. QED
  BY <1>1, <1>2, <1>3, <1>4, <1>5, <1>6, <1>7, <1>8, <1>9, <1>10, <1>11, <1>12, <1>13, Zenon,
     <1>14, <1>15, <1>16, <1>17, <1>18, <1>19, <1>20, <1>21, <1>22, <1>23, <1>24, <1>25, <1>26 DEF Next, Run, Callers, Roster

(***************************************************************************)
(* A timer that is out (cancelled, disposed of, acknowledged, forgotten)   *)
(* and not in the loop's hands is never armed again and never rings.       *)
(***************************************************************************)
THEOREM SilenceIsForGood == Spec => SilencedStaysSilent
<1>1. TypeOK /\ HandsInv /\ [Next]_vars
      => [\A t \in TimerId : Silent(t) => Silent(t)' /\ Rung(t)' = Rung(t)]_vars
  BY SilentStep, Zenon
<1>2. QED
  BY HandsAlways, <1>1, PTL DEF Spec, SilencedStaysSilent
-----------------------------------------------------------------------------
(* The park *)

\* What nextFireAt has read of the memory set before it asks the store.
ReadCovers == pc = "query" /\ ~wake =>
    \A t \in mem : call[t] # "stored" => memNext # None /\ memNext <= req[t].fireAt

ParkInv == runNow <= clock /\ ReadCovers /\ ParkCoversTimers

LEMMA EarlierLeast ==
    ASSUME NEW x \in Nat, NEW y \in Nat
    PROVE  /\ Earlier(x, y) \in Nat
           /\ x # None => Earlier(x, y) # None /\ Earlier(x, y) <= x
           /\ y # None => Earlier(x, y) # None /\ Earlier(x, y) <= y
BY DEF Earlier, None

LEMMA DeadlineFacts ==
    ASSUME TypeOK, HandsInv, NEW t \in TimerId, Armed(t)
    PROVE  /\ Deadline(t) \in Nat /\ req[t].fireAt \in Nat /\ clock + Backoff \in Nat
           /\ req[t].fireAt <= Deadline(t)
           /\ clock + Backoff <= Deadline(t)
<1>1. req[t].fireAt \in Nat
  BY Zenon DEF TypeOK, HandsInv, Known, Request, Armed
<1>2. clock \in Nat /\ Backoff \in Nat
  BY ScheduleAssumption, Zenon DEF TypeOK
<1>3. QED
  BY <1>1, <1>2 DEF Deadline

\* A step that leaves the loop alone and arms only timers still on their way to
\* wakeUp keeps the invariant.
LEMMA ParkUndisturbed ==
    ASSUME TypeOK, ParkInv,
           UNCHANGED <<pc, runNow, memNext, alarm, clock>>, wake => wake',
           \A t \in mem' : call'[t] # "stored" => t \in mem /\ call[t] # "stored" /\ req'[t] = req[t],
           \A t \in TimerId : rows'[t] = "pending" /\ call'[t] # "stored"
                             => rows[t] = "pending" /\ call[t] # "stored" /\ req'[t] = req[t]
    PROVE  ParkInv'
<1>1. runNow' <= clock' /\ ReadCovers'
  BY Zenon DEF ParkInv, ReadCovers
<1>2. \A t \in TimerId : req'[t] = req[t] => Deadline(t)' = Deadline(t)
  BY Zenon DEF Deadline
<1>3. ParkCoversTimers'
  BY <1>2, Zenon DEF ParkInv, ParkCoversTimers, Armed
<1>4. QED
  BY <1>1, <1>3, Zenon DEF ParkInv

LEMMA ParkElsewhere ==
    ASSUME pc' \notin {"query", "park"}, runNow' <= clock'
    PROVE  ParkInv'
BY Zenon DEF ParkInv, ReadCovers, ParkCoversTimers

LEMMA ParkQuery ==
    ASSUME TypeOK, HandsInv, ParkInv, QueryStore
    PROVE  ParkInv'
<1>0. clock \in Nat /\ runNow \in Nat /\ memNext \in Nat /\ Backoff \in Nat \ {0} /\ runNow <= clock
  BY ScheduleAssumption, Zenon DEF TypeOK, ParkInv
<1>1. UNCHANGED <<req, clock, wake, call, mem, rows>> /\ pc = "query"
  BY Zenon DEF QueryStore, Running, store
<1>2. ASSUME NEW n \in Nat, Decide(n), memNext # None => n # None /\ n <= memNext,
             \A t \in Pending(rows) : n # None /\ n <= Deadline(t)
      PROVE  ParkInv'
  <2>1. pc' \in {"park", "snap"} /\ runNow' \in {0, runNow}
    BY <1>2, Zenon DEF Decide
  <2>2. runNow' <= clock'
    BY <1>0, <1>1, <2>1
  <2>3. ASSUME ~wake, NEW t \in TimerId, Armed(t), call[t] # "stored"
        PROVE  n # None /\ n <= Deadline(t)
    <3>1. CASE t \in mem
      <4>1. n # None /\ n <= memNext /\ memNext <= req[t].fireAt
        BY <1>1, <1>2, <2>3, <3>1, Zenon DEF ParkInv, ReadCovers
      <4>2. req[t].fireAt \in Nat /\ Deadline(t) \in Nat /\ req[t].fireAt <= Deadline(t)
        BY <2>3, DeadlineFacts, Zenon
      <4>3. QED
        BY <1>0, <4>1, <4>2
    <3>2. CASE rows[t] = "pending"
      BY <1>2, <3>2, Zenon DEF Pending
    <3>3. QED
      BY <2>3, <3>1, <3>2, Zenon DEF Armed
  <2>4. ASSUME pc' = "park", n # None
        PROVE  alarm' = n
    BY <1>0, <1>2, <2>4, Zenon DEF Decide
  <2>5. ParkCoversTimers'
    <3>1. \A t \in TimerId : Armed(t)' = Armed(t) /\ Deadline(t)' = Deadline(t)
      BY <1>1, Zenon DEF Armed, Deadline
    <3>2. QED
      BY <1>1, <2>3, <2>4, <3>1, Zenon DEF ParkCoversTimers
  <2>6. QED
    BY <2>1, <2>2, <2>5, Zenon DEF ParkInv, ReadCovers
<1>3. ASSUME NEW t \in Pending(rows)
      PROVE  /\ Deadline(t) \in Nat /\ req[t].fireAt \in Nat
             /\ req[t].fireAt <= Deadline(t) /\ clock + Backoff <= Deadline(t)
  BY DeadlineFacts, Zenon DEF Pending, Armed
<1>4. ASSUME NEW first \in Earliest(Pending(rows)), Decide(Earlier(memNext, first))
      PROVE  ParkInv'
  <2>1. first \in Nat /\ \A t \in Pending(rows) : first # None /\ first <= req[t].fireAt
    BY EarliestOfKnown, Zenon DEF HandsInv, Pending
  <2>2. /\ Earlier(memNext, first) \in Nat
        /\ memNext # None => Earlier(memNext, first) # None /\ Earlier(memNext, first) <= memNext
        /\ first # None => Earlier(memNext, first) # None /\ Earlier(memNext, first) <= first
    BY <1>0, <2>1, EarlierLeast, Zenon
  <2>3. \A t \in Pending(rows) : Earlier(memNext, first) # None /\ Earlier(memNext, first) <= Deadline(t)
    BY <1>3, <2>1, <2>2
  <2>4. QED
    BY <1>2, <1>4, <2>2, <2>3, Zenon
<1>5. ASSUME Decide(Earlier(memNext, RetryAt))
      PROVE  ParkInv'
  <2>1. RetryAt \in Nat /\ RetryAt # None /\ RetryAt = clock + Backoff
    BY <1>0 DEF RetryAt, None
  <2>2. /\ Earlier(memNext, RetryAt) \in Nat
        /\ memNext # None => Earlier(memNext, RetryAt) # None /\ Earlier(memNext, RetryAt) <= memNext
        /\ Earlier(memNext, RetryAt) # None /\ Earlier(memNext, RetryAt) <= RetryAt
    BY <1>0, <2>1, EarlierLeast, Zenon
  <2>3. \A t \in Pending(rows) : Earlier(memNext, RetryAt) <= Deadline(t)
    BY <1>3, <2>1, <2>2
  <2>4. QED
    BY <1>2, <1>5, <2>2, <2>3, Zenon
<1>6. QED
  BY <1>4, <1>5, Zenon DEF QueryStore

LEMMA ParkReturn ==
    ASSUME TypeOK, HandsInv, ParkInv, Return, UNCHANGED <<req, clock, wake, call, mem, rows>>
    PROVE  ParkInv'
<1>0. clock \in Nat /\ runNow \in Nat /\ Backoff \in Nat \ {0} /\ runNow <= clock
  BY ScheduleAssumption, Zenon DEF TypeOK, ParkInv
<1>1. runNow + Backoff \in Nat /\ runNow + Backoff # None /\ runNow + Backoff <= clock + Backoff
  BY <1>0 DEF None
<1>2. pc' # "query" /\ runNow' = 0 /\ (pc' = "park" => alarm' = runNow + Backoff)
  BY Zenon DEF Return
<1>3. \A t \in TimerId : Armed(t) => runNow + Backoff <= Deadline(t)
  <2>1. \A t \in TimerId : Armed(t) => clock + Backoff \in Nat /\ clock + Backoff <= Deadline(t) /\ Deadline(t) \in Nat
    BY DeadlineFacts, Zenon
  <2>2. QED
    BY <1>1, <2>1
<1>4. \A t \in TimerId : Armed(t)' = Armed(t) /\ Deadline(t)' = Deadline(t)
  BY Zenon DEF Armed, Deadline
<1>5. ParkCoversTimers'
  BY <1>1, <1>2, <1>3, <1>4, Zenon DEF ParkCoversTimers
<1>6. QED
  BY <1>0, <1>2, <1>5 DEF ParkInv, ReadCovers

LEMMA ParkTick ==
    ASSUME TypeOK, HandsInv, ParkInv, Tick
    PROVE  ParkInv'
<1>0. clock \in Nat /\ runNow \in Nat /\ alarm \in Nat /\ Backoff \in Nat /\ runNow <= clock
  BY ScheduleAssumption, Zenon DEF TypeOK, ParkInv
<1>1. UNCHANGED <<req, wake, call, mem, rows, pc, runNow, memNext, alarm>>
  BY Zenon DEF Tick, store, loop
<1>2. clock' \in Nat /\ clock <= clock'
  BY <1>0, ScheduleAssumption DEF Tick
<1>3. ASSUME NEW t \in TimerId, Armed(t), alarm <= Deadline(t)
      PROVE  alarm <= Deadline(t)'
  <2>1. req[t].fireAt \in Nat
    BY <1>3, DeadlineFacts, Zenon
  <2>2. Deadline(t)' = IF req[t].fireAt < clock' + Backoff THEN clock' + Backoff ELSE req[t].fireAt
    BY <1>1, Zenon DEF Deadline
  <2>3. \A x, y, z, u, b \in Nat : y <= z /\ u <= (IF x < y + b THEN y + b ELSE x)
                                   => u <= (IF x < z + b THEN z + b ELSE x)
    OBVIOUS
  <2>4. alarm <= (IF req[t].fireAt < clock + Backoff THEN clock + Backoff ELSE req[t].fireAt)
    BY <1>3, Zenon DEF Deadline
  <2>5. alarm <= (IF req[t].fireAt < clock' + Backoff THEN clock' + Backoff ELSE req[t].fireAt)
    BY <1>0, <1>2, <2>1, <2>3, <2>4, Zenon
  <2>6. QED
    BY <2>2, <2>5, Zenon
<1>4. \A t \in TimerId : Armed(t)' = Armed(t)
  BY <1>1, Zenon DEF Armed
<1>5. ParkCoversTimers'
  BY <1>1, <1>3, <1>4, Zenon DEF ParkInv, ParkCoversTimers
<1>6. runNow' <= clock' /\ ReadCovers'
  BY <1>0, <1>1, <1>2 DEF ParkInv, ReadCovers
<1>7. QED
  BY <1>5, <1>6, Zenon DEF ParkInv

LEMMA ParkStep ==
    ASSUME TypeOK, HandsInv, ParkInv, [Next]_vars
    PROVE  ParkInv'
<1> USE DEF store, loop
<1>0. clock \in Nat /\ runNow <= clock
  BY Zenon DEF TypeOK, ParkInv
<1>1. CASE ReadMemory
  <2>1. UNCHANGED <<req, wake, call, mem, clock>> /\ runNow' = clock /\ pc' = "query"
    BY <1>1, Zenon DEF ReadMemory
  <2>2. \A t \in mem : memNext' # None /\ memNext' <= req[t].fireAt
    BY <1>1, EarliestOfKnown, Zenon DEF ReadMemory, TypeOK, HandsInv
  <2>3. runNow' <= clock'
    BY <1>0, <2>1
  <2>4. ReadCovers' /\ ParkCoversTimers'
    BY <2>1, <2>2, Zenon DEF ReadCovers, ParkCoversTimers
  <2>5. QED
    BY <2>3, <2>4, Zenon DEF ParkInv
<1>2. CASE QueryStore
  BY <1>2, ParkQuery, Zenon
<1>3. CASE TakeStop \/ TakeWake \/ TakeAlarm
  BY <1>0, <1>3, ParkElsewhere, Zenon DEF TakeStop, TakeWake, TakeAlarm, Leave
<1>4. CASE SnapshotMemory \/ AdmitAuthor \/ WriteFire
  BY <1>0, <1>4, ParkElsewhere, Zenon DEF SnapshotMemory, AdmitAuthor, WriteFire
<1>5. CASE Settle \/ Dispose
  BY <1>0, <1>5, ParkElsewhere, Zenon DEF Settle, Dispose
<1>6. CASE QueryDue
  <2>1. CASE Return
    BY <1>6, <2>1, ParkReturn, Zenon DEF QueryDue
  <2>2. CASE UNCHANGED <<pc, runNow>>
    BY <1>0, <1>6, <2>2, ParkElsewhere, Zenon DEF QueryDue, Running
  <2>3. QED
    BY <1>6, <2>1, <2>2, Zenon DEF QueryDue
<1>7. CASE EndFireDue
  BY <1>7, ParkReturn, Zenon DEF EndFireDue
<1>8. CASE Tick
  BY <1>8, ParkTick, Zenon
<1>9. CASE Crash \/ CloseDone
  <2>1. pc' = "stopped" /\ runNow' = 0 /\ clock' = clock
    BY <1>9, Zenon DEF Crash, CloseDone, Forget
  <2>2. QED
    BY <1>0, <2>1, ParkElsewhere
<1>10. CASE Close
  BY <1>10, ParkUndisturbed, Zenon DEF Close
<1>11. CASE Start
  BY <1>0, <1>11, ParkElsewhere, Zenon DEF Start
<1>12. ASSUME NEW t \in TimerId, Admit(t) PROVE ParkInv'
  <2>1. t \notin mem /\ rows[t] # "pending"
    BY <1>12, Zenon DEF Admit, HandsInv, Known
  <2>2. /\ UNCHANGED <<pc, runNow, memNext, alarm, clock, wake, mem, rows>>
        /\ \A u \in TimerId \ {t} : req'[u] = req[u] /\ call'[u] = call[u]
    BY <1>12, Zenon DEF Admit, TypeOK
  <2>3. QED
    BY <2>1, <2>2, ParkUndisturbed, Zenon DEF TypeOK
<1>13. ASSUME NEW t \in TimerId, StoreTimer(t) PROVE ParkInv'
  <2>1. /\ UNCHANGED <<pc, runNow, memNext, alarm, clock, wake, req>>
        /\ \A u \in TimerId \ {t} : (u \in mem' <=> u \in mem) /\ rows'[u] = rows[u] /\ call'[u] = call[u]
        /\ call'[t] = "stored" /\ mem' \subseteq TimerId
    BY <1>13, Zenon DEF StoreTimer, Insert, TypeOK
  <2>2. QED
    BY <2>1, ParkUndisturbed, Zenon
<1>14. ASSUME NEW t \in TimerId, RefuseTimer(t) PROVE ParkInv'
  <2>1. /\ UNCHANGED <<pc, runNow, memNext, alarm, clock, wake, req, mem, rows>>
        /\ call[t] = "admitted" /\ \A u \in TimerId \ {t} : call'[u] = call[u]
    BY <1>14, Zenon DEF RefuseTimer, TypeOK
  <2>2. QED
    BY <2>1, ParkUndisturbed, Zenon DEF TypeOK
<1>15. ASSUME NEW t \in TimerId, wakeUp(t) PROVE ParkInv'
  BY <1>0, <1>15, Zenon DEF wakeUp, ParkInv, ReadCovers, ParkCoversTimers
<1>16. ASSUME NEW t \in TimerId, NEW a \in Author, Cancel(t, a) \/ Ack(t, a) PROVE ParkInv'
  <2>1. /\ UNCHANGED <<pc, runNow, memNext, alarm, clock, wake, req, call>>
        /\ mem' \subseteq mem /\ \A u \in TimerId : rows'[u] = "pending" => rows[u] = "pending"
    BY <1>16, Zenon DEF Cancel, CancelOwned, Ack, AckOwned, TypeOK
  <2>2. QED
    BY <2>1, ParkUndisturbed, Zenon
<1>17. ASSUME NEW a \in Author, Remove(a) \/ ForgetActors(a) PROVE ParkInv'
  <2>1. UNCHANGED <<pc, runNow, memNext, alarm, clock, wake, req, call, rows>> /\ mem' \subseteq mem
    BY <1>17, Zenon DEF Remove, ForgetActors
  <2>2. QED
    BY <2>1, ParkUndisturbed, Zenon
<1>18. CASE UNCHANGED vars
  BY <1>18, ParkUndisturbed, Zenon DEF vars
<1>19. QED
  BY <1>1, <1>2, <1>3, <1>4, <1>5, <1>6, <1>7, <1>8, <1>9, <1>10, <1>11, <1>12, <1>13, <1>14, <1>15, Zenon,
     <1>16, <1>17, <1>18 DEF Next, Run, Callers, Roster

(***************************************************************************)
(* No lost wake: a parked loop with an empty wake channel has armed an     *)
(* alarm for every timer whose Schedule call has returned.                 *)
(***************************************************************************)
THEOREM NoLostWake == Spec => []ParkCoversTimers
<1>1. Init => ParkInv
  BY DEF Init, ParkInv, ReadCovers, ParkCoversTimers
<1>2. TypeOK /\ HandsInv /\ ParkInv /\ [Next]_vars => ParkInv'
  BY ParkStep, Zenon
<1>3. ParkInv => ParkCoversTimers
  BY Zenon DEF ParkInv
<1>4. QED
  BY HandsAlways, <1>1, <1>2, <1>3, PTL DEF Spec

-----------------------------------------------------------------------------
(* The quotas: the part of the argument that counts *)

MemoryOf(a) == {t \in mem : req[t].author = a}

LEMMA QuotaShrinks ==
    ASSUME TypeOK, TypeOK', QuotaHolds,
           \A t \in TimerId : rows'[t] # "absent" => rows[t] # "absent" /\ req'[t] = req[t],
           \A t \in mem' : t \in mem /\ req'[t] = req[t]
    PROVE  QuotaHolds'
<1> SUFFICES ASSUME NEW a \in Author
             PROVE  /\ Cardinality(OwnedRows(rows, req, a))' <= MaxPending
                    /\ Cardinality(MemoryOf(a))' <= MaxMem
  BY Zenon DEF QuotaHolds, MemoryOf
<1>1. IsFiniteSet(OwnedRows(rows, req, a)) /\ IsFiniteSet(MemoryOf(a))
  BY StoreAssumption, FS_Subset, Zenon DEF OwnedRows, MemoryOf, TypeOK
<1>2. OwnedRows(rows, req, a)' \in SUBSET OwnedRows(rows, req, a)
  BY Zenon DEF OwnedRows
<1>3. MemoryOf(a)' \in SUBSET MemoryOf(a)
  BY Zenon DEF MemoryOf
<1>4. /\ Cardinality(OwnedRows(rows, req, a)) \in Nat /\ Cardinality(MemoryOf(a)) \in Nat
      /\ Cardinality(OwnedRows(rows, req, a)') \in Nat /\ Cardinality(MemoryOf(a)') \in Nat
      /\ Cardinality(OwnedRows(rows, req, a)') <= Cardinality(OwnedRows(rows, req, a))
      /\ Cardinality(MemoryOf(a)') <= Cardinality(MemoryOf(a))
  BY <1>1, <1>2, <1>3, FS_Subset, FS_CardinalityType, Zenon
<1>5. Cardinality(OwnedRows(rows, req, a)) <= MaxPending /\ Cardinality(MemoryOf(a)) <= MaxMem
  BY Zenon DEF QuotaHolds, MemoryOf
<1>6. QED
  BY <1>4, <1>5, StoreAssumption, ScheduleAssumption

LEMMA OneMore ==
    ASSUME NEW S, IsFiniteSet(S), NEW x, NEW n \in Nat, Cardinality(S) < n
    PROVE  Cardinality(S \cup {x}) <= n
<1>1. Cardinality(S \cup {x}) = IF x \in S THEN Cardinality(S) ELSE Cardinality(S) + 1
  BY FS_AddElement, Zenon
<1>2. Cardinality(S) \in Nat
  BY FS_CardinalityType, Zenon
<1>3. QED
  BY <1>1, <1>2

LEMMA QuotaStore ==
    ASSUME TypeOK, HandsInv, QuotaHolds, NEW t \in TimerId, StoreTimer(t)
    PROVE  QuotaHolds'
<1> SUFFICES ASSUME NEW a \in Author
             PROVE  /\ Cardinality(OwnedRows(rows, req, a)') <= MaxPending
                    /\ Cardinality(MemoryOf(a)') <= MaxMem
  BY Zenon DEF QuotaHolds, MemoryOf
<1>1. IsFiniteSet(OwnedRows(rows, req, a)) /\ IsFiniteSet(MemoryOf(a))
  BY StoreAssumption, FS_Subset, Zenon DEF OwnedRows, MemoryOf, TypeOK
<1>2. Cardinality(OwnedRows(rows, req, a)) <= MaxPending /\ Cardinality(MemoryOf(a)) <= MaxMem
  BY Zenon DEF QuotaHolds, MemoryOf
<1>3. CASE req[t].author # a
  <2>1. OwnedRows(rows, req, a)' = OwnedRows(rows, req, a) /\ MemoryOf(a)' = MemoryOf(a)
    BY <1>3, Zenon DEF StoreTimer, OwnedRows, MemoryOf, Insert, TypeOK
  <2>2. QED
    BY <1>2, <2>1, Zenon
<1>4. CASE req[t].author = a /\ req[t].home = "durable"
  <2>1. OwnedRows(rows, req, a)' = OwnedRows(rows, req, a) \cup {t} /\ MemoryOf(a)' = MemoryOf(a)
    BY <1>4, Zenon DEF StoreTimer, OwnedRows, MemoryOf, Insert, TypeOK
  <2>2. Cardinality(OwnedRows(rows, req, a)) < MaxPending
    BY <1>4, Zenon DEF StoreTimer, InsertAdmits
  <2>3. QED
    BY <1>1, <1>2, <2>1, <2>2, OneMore, StoreAssumption, Zenon
<1>5. CASE req[t].author = a /\ req[t].home # "durable"
  <2>1. OwnedRows(rows, req, a)' = OwnedRows(rows, req, a) /\ MemoryOf(a)' = MemoryOf(a) \cup {t}
    BY <1>5, Zenon DEF StoreTimer, OwnedRows, MemoryOf, TypeOK
  <2>2. Cardinality(MemoryOf(a)) < MaxMem
    BY <1>5, Zenon DEF StoreTimer, MemoryOf
  <2>3. QED
    BY <1>1, <1>2, <2>1, <2>2, OneMore, ScheduleAssumption, Zenon
<1>6. QED
  BY <1>3, <1>4, <1>5, Zenon

LEMMA QuotaStep ==
    ASSUME TypeOK, TypeOK', HandsInv, QuotaHolds, [Next]_vars
    PROVE  QuotaHolds'
<1> DEFINE Shrinks == /\ \A t \in TimerId : rows'[t] # "absent" => rows[t] # "absent" /\ req'[t] = req[t]
                      /\ \A t \in mem' : t \in mem /\ req'[t] = req[t]
<1>1. ASSUME NEW t \in TimerId, StoreTimer(t) PROVE QuotaHolds'
  BY <1>1, QuotaStore, Zenon
<1>2. ASSUME NEW t \in TimerId, Admit(t) PROVE Shrinks
  BY <1>2, Zenon DEF Admit, HandsInv, Known, TypeOK, store
<1>3. ASSUME Settle PROVE Shrinks
  BY <1>3, Zenon DEF Settle, MarkFired, TypeOK
<1>4. ASSUME Dispose PROVE Shrinks
  BY <1>4, Zenon DEF Dispose, DeleteRow, TypeOK
<1>5. ASSUME NEW t \in TimerId, NEW a \in Author, Cancel(t, a) \/ Ack(t, a) PROVE Shrinks
  BY <1>5, Zenon DEF Cancel, CancelOwned, Ack, AckOwned, TypeOK
<1>6. ASSUME NEW a \in Author, Remove(a) \/ ForgetActors(a) PROVE Shrinks
  BY <1>6, Zenon DEF Remove, ForgetActors, store
<1>7. ASSUME Crash \/ CloseDone PROVE Shrinks
  BY <1>7, Zenon DEF Crash, CloseDone, Forget, store
<1>8. ASSUME NEW t \in TimerId, RefuseTimer(t) \/ wakeUp(t) PROVE Shrinks
  BY <1>8, Zenon DEF RefuseTimer, wakeUp, store
<1>9. ASSUME \/ ReadMemory \/ QueryStore \/ TakeStop \/ TakeWake \/ TakeAlarm \/ SnapshotMemory
              \/ AdmitAuthor \/ WriteFire \/ QueryDue \/ EndFireDue \/ Tick \/ Close \/ Start
              \/ UNCHANGED vars
      PROVE  Shrinks
  BY <1>9, Zenon DEF ReadMemory, QueryStore, TakeStop, TakeWake, TakeAlarm, Leave, SnapshotMemory, AdmitAuthor,
              WriteFire, QueryDue, EndFireDue, Tick, Close, Start, vars, store
<1>10. Shrinks => QuotaHolds'
  BY QuotaShrinks, Zenon
<1>11. QED
  BY <1>1, <1>2, <1>3, <1>4, <1>5, <1>6, <1>7, <1>8, <1>9, <1>10, Zenon DEF Next, Run, Callers, Roster

(***************************************************************************)
(* No author goes over a quota: the count and the insert are one           *)
(* transaction, the memory count and the entry one critical section.       *)
(***************************************************************************)
THEOREM QuotasHold == Spec => []QuotaHolds
<1>1. Init => QuotaHolds
  <2>1. Init => \A a \in Author : OwnedRows(rows, req, a) = {} /\ {t \in mem : req[t].author = a} = {}
    BY Zenon DEF Init, OwnedRows
  <2>2. Cardinality({}) = 0 /\ 0 <= MaxPending /\ 0 <= MaxMem
    BY FS_EmptySet, StoreAssumption, ScheduleAssumption
  <2>3. QED
    BY <2>1, <2>2, Zenon DEF QuotaHolds
<1>2. TypeOK /\ TypeOK' /\ HandsInv /\ QuotaHolds /\ [Next]_vars => QuotaHolds'
  BY QuotaStep, Zenon
<1>3. QED
  BY HandsAlways, <1>1, <1>2, PTL DEF Spec
=============================================================================

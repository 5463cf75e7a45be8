--------------------------- MODULE StationProofs ---------------------------
(***************************************************************************)
(* Theorems about Station: the accounts of the serve ledger and the        *)
(* honesty of a refusal, for any number of rows, any page of the pump and  *)
(* any capacity of the mailbox, the deque, the ledger and the reject lane. *)
(***************************************************************************)
EXTENDS Station, FiniteSetTheorems, SequenceTheorems, WellFoundedInduction, TLAPS

-----------------------------------------------------------------------------
(* The inductive invariant *)

\* The page the pump is at lies in the log and beyond the cursor.
PumpInv == pump.at = "handling" => cursor < pump.upto /\ pump.upto <= Len(log)

\* A row nobody of the engine has touched.
Untouched(i) ==
    /\ i \notin ToSet(work) /\ i \notin seen /\ i \notin ToSet(reject)
    /\ i # refusing /\ truth[i] # "overloaded"

\* What waits in the mailbox was delivered, once, and is the engine's to see first.
InboxInv ==
    /\ \A i \in ToSet(inbox) : i <= cursor /\ Untouched(i)
    /\ \A a, b \in DOMAIN inbox : inbox[a] = inbox[b] => a = b
    /\ \A i \in Id : i > cursor => Untouched(i)

\* A request that was refused, or is to be, is neither queued nor handed out.
RefusedInv ==
    \A i \in Id :
        truth[i] = "overloaded" \/ i \in ToSet(reject) \/ i = refusing =>
            i \notin ToSet(work) /\ i \notin seen

\* Accounts are of rows in the log; a request's is held.
ServeInv ==
    /\ \A i \in serve : i <= Len(log)
    /\ \A i \in serve : log[i] = "request" => i \in ToSet(work) \cup seen

\* Who is at work has something in hand.
HandsInv ==
    /\ lane = "writing" => refusing \in Id
    /\ worker = "writing" => hand \in Id

StationInv ==
    /\ TypeOK /\ PumpInv /\ InboxInv /\ RefusedInv /\ ServeInv /\ HandsInv

-----------------------------------------------------------------------------
(* Queues *)

\* Taking the head of a queue.
LEMMA TailSet ==
    ASSUME NEW S, NEW s \in Seq(S), s # <<>>
    PROVE  /\ Tail(s) \in Seq(S) /\ Head(s) \in S /\ Len(Tail(s)) = Len(s) - 1
           /\ ToSet(s) = {Head(s)} \cup ToSet(Tail(s))
<1>1. /\ Tail(s) \in Seq(S) /\ Head(s) \in S /\ Len(Tail(s)) = Len(s) - 1
      /\ Len(s) \in Nat /\ Len(s) # 0 /\ Head(s) = s[1]
      /\ \A k \in 1 .. Len(Tail(s)) : Tail(s)[k] = s[k + 1]
  BY HeadTailProperties, LenProperties, EmptySeq
<1>2. DOMAIN s = 1 .. Len(s) /\ DOMAIN Tail(s) = 1 .. Len(s) - 1
  BY <1>1, LenProperties, Zenon
<1>3. ASSUME NEW k \in DOMAIN s PROVE s[k] \in {Head(s)} \cup ToSet(Tail(s))
  <2>1. CASE k = 1
    BY <1>1, <2>1, Zenon
  <2>2. CASE k # 1
    <3>1. k - 1 \in DOMAIN Tail(s) /\ Tail(s)[k - 1] = s[k]
      BY <1>1, <1>2, <2>2
    <3>. QED  BY <3>1, Zenon DEF ToSet
  <2>. QED  BY <2>1, <2>2, Zenon
<1>4. ASSUME NEW k \in DOMAIN Tail(s) PROVE Tail(s)[k] \in ToSet(s)
  <2>1. k + 1 \in DOMAIN s /\ s[k + 1] = Tail(s)[k]
    BY <1>1, <1>2
  <2>. QED  BY <2>1, Zenon DEF ToSet
<1>5. Head(s) \in ToSet(s)
  <2>1. 1 \in DOMAIN s
    BY <1>1, <1>2
  <2>. QED  BY <1>1, <2>1, Zenon DEF ToSet
<1>. QED  BY <1>1, <1>3, <1>4, <1>5, Zenon DEF ToSet

\* A newcomer at the end.
LEMMA AppendSet ==
    ASSUME NEW S, NEW s \in Seq(S), NEW e \in S
    PROVE  /\ Append(s, e) \in Seq(S) /\ Len(Append(s, e)) = Len(s) + 1
           /\ ToSet(Append(s, e)) = ToSet(s) \cup {e}
<1>1. /\ Append(s, e) \in Seq(S) /\ Len(Append(s, e)) = Len(s) + 1
      /\ \A k \in 1 .. Len(s) : Append(s, e)[k] = s[k]
      /\ Append(s, e)[Len(s) + 1] = e
      /\ Len(s) \in Nat
  BY AppendProperties, LenProperties
<1>2. DOMAIN s = 1 .. Len(s) /\ DOMAIN Append(s, e) = 1 .. Len(s) + 1
  BY <1>1, LenProperties, Zenon
<1>3. ASSUME NEW k \in DOMAIN Append(s, e) PROVE Append(s, e)[k] \in ToSet(s) \cup {e}
  BY <1>1, <1>2 DEF ToSet
<1>4. ASSUME NEW k \in DOMAIN s PROVE s[k] \in ToSet(Append(s, e))
  <2>1. k \in DOMAIN Append(s, e) /\ Append(s, e)[k] = s[k]
    BY <1>1, <1>2
  <2>. QED  BY <2>1, Zenon DEF ToSet
<1>5. e \in ToSet(Append(s, e))
  <2>1. Len(s) + 1 \in DOMAIN Append(s, e)
    BY <1>1, <1>2
  <2>. QED  BY <1>1, <2>1, Zenon DEF ToSet
<1>. QED  BY <1>1, <1>3, <1>4, <1>5, Zenon DEF ToSet

\* One item is taken out of the middle; the others stay.
LEMMA RemoveAtSet ==
    ASSUME NEW S, NEW s \in Seq(S), NEW k \in 1 .. Len(s)
    PROVE  /\ RemoveAt(s, k) \in Seq(S) /\ Len(RemoveAt(s, k)) = Len(s) - 1
           /\ ToSet(RemoveAt(s, k)) \subseteq ToSet(s)
           /\ ToSet(s) \subseteq ToSet(RemoveAt(s, k)) \cup {s[k]}
<1>n. PICK n \in Nat : n = Len(s)
  BY LenProperties, Zenon
<1>0. DOMAIN s = 1 .. n /\ k \in Nat /\ k >= 1 /\ k <= n /\ \A j \in 1 .. n : s[j] \in S
  BY <1>n, LenProperties
<1>1. PICK a : /\ a = SubSeq(s, 1, k - 1) /\ a \in Seq(S) /\ Len(a) = k - 1
               /\ \A j \in 1 .. k - 1 : a[j] = s[j]
  <2>1. /\ SubSeq(s, 1, k - 1) \in Seq(S)
        /\ Len(SubSeq(s, 1, k - 1)) = IF 1 <= k - 1 THEN k - 1 - 1 + 1 ELSE 0
        /\ \A j \in 1 .. k - 1 - 1 + 1 : SubSeq(s, 1, k - 1)[j] = s[1 + j - 1]
    BY <1>0, SubSeqProperties
  <2>2. ASSUME NEW j \in 1 .. k - 1 PROVE SubSeq(s, 1, k - 1)[j] = s[j]
    <3>1. 1 + j - 1 = j
      OBVIOUS
    <3>2. j \in 1 .. k - 1 - 1 + 1
      BY <1>0
    <3>. QED  BY <2>1, <3>1, <3>2, Zenon
  <2>3. Len(SubSeq(s, 1, k - 1)) = k - 1
    BY <1>0, <2>1
  <2>. QED  BY <2>1, <2>2, <2>3, Zenon
<1>2. PICK b : /\ b = SubSeq(s, k + 1, n) /\ b \in Seq(S) /\ Len(b) = n - k
               /\ \A j \in 1 .. n - k : b[j] = s[k + j]
  <2>1. /\ SubSeq(s, k + 1, n) \in Seq(S)
        /\ Len(SubSeq(s, k + 1, n)) = IF k + 1 <= n THEN n - (k + 1) + 1 ELSE 0
        /\ \A j \in 1 .. n - (k + 1) + 1 : SubSeq(s, k + 1, n)[j] = s[k + 1 + j - 1]
    BY <1>0, SubSeqProperties
  <2>2. ASSUME NEW j \in 1 .. n - k PROVE SubSeq(s, k + 1, n)[j] = s[k + j]
    <3>1. k + 1 + j - 1 = k + j
      BY <1>0
    <3>2. j \in 1 .. n - (k + 1) + 1
      BY <1>0
    <3>. QED  BY <2>1, <3>1, <3>2, Zenon
  <2>3. Len(SubSeq(s, k + 1, n)) = n - k
    BY <1>0, <2>1
  <2>. QED  BY <2>1, <2>2, <2>3, Zenon
<1>3. PICK c : /\ c = RemoveAt(s, k) /\ c \in Seq(S) /\ Len(c) = n - 1
               /\ \A j \in 1 .. n - 1 : c[j] = IF j <= k - 1 THEN a[j] ELSE b[j - (k - 1)]
  <2>1. /\ a \o b \in Seq(S) /\ Len(a \o b) = Len(a) + Len(b)
        /\ \A j \in 1 .. Len(a) + Len(b) : (a \o b)[j] = IF j <= Len(a) THEN a[j] ELSE b[j - Len(a)]
    BY <1>1, <1>2, ConcatProperties
  <2>2. Len(a) + Len(b) = n - 1 /\ Len(a) = k - 1
    BY <1>0, <1>1, <1>2
  <2>3. a \o b = RemoveAt(s, k)
    BY <1>n, <1>1, <1>2, Zenon DEF RemoveAt
  <2>. QED  BY <2>1, <2>2, <2>3, Zenon
<1>4. Len(c) = n - 1 /\ DOMAIN c = 1 .. n - 1
  BY <1>3, LenProperties, Zenon
<1>5. ASSUME NEW j \in 1 .. n - 1 PROVE c[j] = IF j < k THEN s[j] ELSE s[j + 1]
  <2>2. CASE j < k
    <3>1. j <= k - 1 /\ j \in 1 .. k - 1
      BY <1>0, <2>2
    <3>. QED  BY <1>1, <1>3, <2>2, <3>1, Zenon
  <2>3. CASE ~(j < k)
    <3>1. ~(j <= k - 1) /\ j - (k - 1) \in 1 .. n - k /\ k + (j - (k - 1)) = j + 1
      BY <1>0, <2>3
    <3>2. c[j] = b[j - (k - 1)]
      BY <1>3, <3>1, Zenon
    <3>. QED  BY <1>2, <2>3, <3>1, <3>2, Zenon
  <2>. QED  BY <2>2, <2>3, Zenon
<1>6. ASSUME NEW j \in 1 .. n - 1 PROVE c[j] \in ToSet(s)
  <2>1. j \in DOMAIN s /\ j + 1 \in DOMAIN s
    BY <1>0
  <2>. QED  BY <1>5, <2>1, Zenon DEF ToSet
<1>7. ASSUME NEW j \in DOMAIN s, j # k PROVE s[j] \in ToSet(c)
  <2>1. CASE j < k
    <3>1. j \in 1 .. n - 1
      BY <1>0, <2>1
    <3>2. c[j] = s[j]
      BY <1>5, <2>1, <3>1, Zenon
    <3>. QED  BY <1>4, <3>1, <3>2, Zenon DEF ToSet
  <2>2. CASE j > k
    <3>1. j - 1 \in 1 .. n - 1 /\ ~(j - 1 < k) /\ j - 1 + 1 = j
      BY <1>0, <2>2
    <3>2. c[j - 1] = s[j]
      BY <1>5, <3>1, Zenon
    <3>. QED  BY <1>4, <3>1, <3>2, Zenon DEF ToSet
  <2>. QED  BY <1>0, <1>7, <2>1, <2>2
<1>8. ToSet(c) \subseteq ToSet(s)
  BY <1>4, <1>6, Zenon DEF ToSet
<1>9. ToSet(s) \subseteq ToSet(c) \cup {s[k]}
  BY <1>7, Zenon DEF ToSet
<1>. QED  BY <1>n, <1>3, <1>4, <1>8, <1>9, ZenonT(30)

\* A set of numbers has a least one.
LEMMA LeastNumber ==
    ASSUME NEW I, I \subseteq Nat, I # {}
    PROVE  \E x \in I : \A y \in I : x <= y
<1>1. \E x \in I : \A y \in I : <<y, x>> \notin OpToRel(<, Nat)
  BY NatLessThanWellFounded, WFMin, Zenon
<1>2. ASSUME NEW x \in Nat, NEW y \in Nat, <<y, x>> \notin OpToRel(<, Nat)
      PROVE  x <= y
  BY <1>2 DEF OpToRel
<1>. QED  BY <1>1, <1>2, Zenon

\* workDeque.push: the newcomer is in, or is the one dropped; of what was there
\* only an event can go.
LEMMA PushKeepsRequests ==
    ASSUME TypeOK, NEW i \in Id, i \notin ToSet(work)
    PROVE  /\ Push(i).items \in Seq(Id) /\ Len(Push(i).items) <= QueueCap
           /\ Push(i).dropped \in Id \cup {0}
           /\ ToSet(Push(i).items) \subseteq ToSet(work) \cup {i}
           /\ IF Push(i).dropped = i THEN Push(i).items = work ELSE i \in ToSet(Push(i).items)
           /\ \A j \in ToSet(work) : Asks(j) => j \in ToSet(Push(i).items)
<1>. DEFINE I == {k \in 1 .. Len(work) : ~Asks(work[k])}
<1>0. work \in Seq(Id) /\ Len(work) \in Nat /\ Len(work) <= QueueCap /\ QueueCap \in Nat \ {0}
  BY StationAssumption, LenProperties, Zenon DEF TypeOK
<1>1. PICK k : /\ k = SelectInSeq(work, LAMBDA j : ~Asks(j))
               /\ k = 0 \/ (k \in 1 .. Len(work) /\ ~Asks(work[k]))
  <2>1. CASE I = {}
    BY <2>1, Zenon DEF SelectInSeq
  <2>2. CASE I # {}
    <3>1. SelectInSeq(work, LAMBDA j : ~Asks(j)) = Min(I)
      BY <2>2, Zenon DEF SelectInSeq
    <3>2. \E x \in I : \A y \in I : x <= y
      <4>1. I \subseteq Nat
        BY <1>0
      <4>. QED  BY <2>2, <4>1, LeastNumber, Zenon
    <3>. QED  BY <3>1, <3>2, Zenon DEF Min
  <2>. QED  BY <2>1, <2>2, Zenon
<1>2. CASE Len(work) < QueueCap
  <2>1. Push(i).items = Append(work, i) /\ Push(i).dropped = 0
    BY <1>2, Zenon DEF Push
  <2>2. i # 0
    BY DEF Id
  <2>. QED  BY <1>0, <1>2, <2>1, <2>2, AppendSet
<1>3. CASE Len(work) >= QueueCap /\ k # 0
  <2>1. Push(i) = [items |-> Append(RemoveAt(work, k), i), dropped |-> work[k]]
    <3>1. ~(Len(work) < QueueCap)
      BY <1>0, <1>3
    <3>. QED  BY <1>1, <1>3, <3>1, Zenon DEF Push
  <2>2. k \in 1 .. Len(work) /\ ~Asks(work[k]) /\ work[k] \in ToSet(work) /\ work[k] \in Id
    BY <1>0, <1>1, <1>3, LenProperties, ElementOfSeq, Zenon DEF ToSet
  <2>3. /\ RemoveAt(work, k) \in Seq(Id) /\ Len(RemoveAt(work, k)) = Len(work) - 1
        /\ ToSet(RemoveAt(work, k)) \subseteq ToSet(work)
        /\ ToSet(work) \subseteq ToSet(RemoveAt(work, k)) \cup {work[k]}
    BY <1>0, <2>2, RemoveAtSet, Zenon
  <2>4. /\ Push(i).items \in Seq(Id) /\ Len(Push(i).items) = Len(RemoveAt(work, k)) + 1
        /\ ToSet(Push(i).items) = ToSet(RemoveAt(work, k)) \cup {i}
    BY <2>1, <2>3, AppendSet
  <2>5. Push(i).dropped = work[k]
    BY <2>1
  <2>. QED  BY <1>0, <2>2, <2>3, <2>4, <2>5
<1>4. CASE Len(work) >= QueueCap /\ k = 0
  <2>1. Push(i).items = work /\ Push(i).dropped = i
    BY <1>0, <1>1, <1>4 DEF Push
  <2>. QED  BY <1>0, <2>1, Zenon
<1>. QED  BY <1>0, <1>2, <1>3, <1>4

-----------------------------------------------------------------------------
(* Every step keeps the invariant *)

\* No step of the log or the engine alone touches a row that waits for it.
LEMMA InboxFrame ==
    ASSUME StationInv, UNCHANGED <<inbox, cursor>>,
           \A i \in Id : Untouched(i) => Untouched(i)'
    PROVE  InboxInv'
<1>1. \A i \in ToSet(inbox) : i \in Id
  <2>1. inbox \in Seq(Id)
    BY Zenon DEF StationInv, TypeOK
  <2>. QED  BY <2>1, LenProperties, ElementOfSeq DEF ToSet
<1>. QED  BY <1>1, Zenon DEF StationInv, InboxInv

LEMMA EventBound ==
    ASSUME TypeOK
    PROVE  /\ Event => events' \in 0 .. MaxEvent
           /\ WriteFails => events' \in 0 .. MaxEvent
BY StationAssumption DEF TypeOK, Event, WriteFails

\* Steps that move a goroutine on and no row.
LEMMA ControlSteps ==
    ASSUME StationInv,
           \/ Start \/ StartFails \/ Stop \/ LoopEnds \/ LaneStops \/ StopReturns \/ StopAbandons
           \/ RecvWakes \/ HandlerReturns \/ AnswerFails \/ \E i \in Id : Answer(i)
           \/ UNCHANGED vars
    PROVE  StationInv'
<1>0. TypeOK /\ PumpInv /\ InboxInv /\ RefusedInv /\ ServeInv /\ HandsInv
  BY Zenon DEF StationInv
<1>1. /\ UNCHANGED <<log, truth, pump, cursor, inbox, serve, work, reject, refusing, seen>>
      /\ UNCHANGED <<notify, wake, lost, unsaid>>
  BY Zenon DEF Start, StartFails, Stop, LoopEnds, LaneStops, StopReturns, StopAbandons, RecvWakes,
         HandlerReturns, AnswerFails, Answer, vars, pumpVars, engineVars, Done
<1>2. events' \in 0 .. MaxEvent
  <2>1. events \in 0 .. MaxEvent
    BY <1>0, Zenon DEF TypeOK
  <2>. QED
    BY <1>0, <2>1, EventBound, Zenon
       DEF Start, StartFails, Stop, LoopEnds, LaneStops, StopReturns, StopAbandons, RecvWakes,
           HandlerReturns, AnswerFails, Answer, vars
<1>3. sig' \in BOOLEAN /\ dying' \in BOOLEAN
  <2>1. sig \in BOOLEAN /\ dying \in BOOLEAN
    BY <1>0, Zenon DEF TypeOK
  <2>. QED
    BY <2>1, Zenon
       DEF Start, StartFails, Stop, LoopEnds, LaneStops, StopReturns, StopAbandons, RecvWakes,
           HandlerReturns, AnswerFails, Answer, vars, engineVars, Done
<1>4. /\ unit' \in {"running", "stopping", "finishing", "done"}
      /\ occupant' \in {"starting", "running", "draining", "dead"}
  <2>1. /\ unit \in {"running", "stopping", "finishing", "done"}
        /\ occupant \in {"starting", "running", "draining", "dead"}
    BY <1>0, Zenon DEF TypeOK
  <2>. QED
    BY <2>1, Zenon
       DEF Start, StartFails, Stop, LoopEnds, LaneStops, StopReturns, StopAbandons, RecvWakes,
           HandlerReturns, AnswerFails, Answer, vars, engineVars, Done, Finish
<1>5. /\ lane' \in {"off", "idle", "writing", "stopped"} /\ hand' \in Id \cup {0}
      /\ worker' \in {"off", "recv", "parked", "handling", "writing", "done"}
      /\ HandsInv'
  <2>1. /\ lane \in {"off", "idle", "writing", "stopped"} /\ hand \in Id \cup {0}
        /\ worker \in {"off", "recv", "parked", "handling", "writing", "done"}
        /\ HandsInv
    BY <1>0, Zenon DEF TypeOK
  <2>. QED
    BY <1>1, <2>1, Zenon
       DEF Start, StartFails, Stop, LoopEnds, LaneStops, StopReturns, StopAbandons, RecvWakes,
           HandlerReturns, AnswerFails, Answer, vars, engineVars, Done, HandsInv
<1>6. TypeOK'
  BY <1>0, <1>1, <1>2, <1>3, <1>4, <1>5, Zenon DEF TypeOK
<1>7. PumpInv' /\ InboxInv' /\ RefusedInv' /\ ServeInv'
  BY <1>0, <1>1, Zenon DEF PumpInv, InboxInv, Untouched, RefusedInv, ServeInv
<1>. QED  BY <1>5, <1>6, <1>7, Zenon DEF StationInv

\* Between pages and at rest the pump has no page.
LEMMA PumpAtRest ==
    ASSUME NEW f \in BOOLEAN
    PROVE  /\ Parked(f).at # "handling" /\ Reading.at # "handling"
           /\ {Parked(f), Reading} \subseteq
                 [at : {"reading", "handling", "parked"}, upto : 0 .. MaxRows,
                  full : BOOLEAN, failed : BOOLEAN]
<1>0. 0 \in 0 .. MaxRows
  BY StationAssumption
<1>1. Reading = [at |-> "reading", upto |-> 0, full |-> FALSE, failed |-> FALSE]
  BY Zenon DEF Reading
<1>2. /\ Reading \in [at : {"reading", "handling", "parked"}, upto : 0 .. MaxRows,
                      full : BOOLEAN, failed : BOOLEAN]
      /\ Reading.at = "reading"
  BY <1>0, <1>1, Zenon
<1>3. /\ Parked(f) \in [at : {"reading", "handling", "parked"}, upto : 0 .. MaxRows,
                        full : BOOLEAN, failed : BOOLEAN]
      /\ Parked(f).at = "parked"
  BY <1>2, Zenon DEF Parked
<1>. QED  BY <1>2, <1>3, Zenon

\* The log and the pump.
LEMMA CommitKeeps ==
    ASSUME StationInv, NEW kind \in Kinds, Commit(kind)
    PROVE  StationInv'
<1>0. TypeOK /\ PumpInv /\ InboxInv /\ RefusedInv /\ ServeInv /\ HandsInv
  BY Zenon DEF StationInv
<1>1. Len(log) < MaxRows /\ log' = Append(log, kind) /\ notify' = TRUE
  BY Zenon DEF Commit
<1>2. UNCHANGED <<truth, pump, cursor, wake, unit, inbox, occupant, serve, work, sig, reject, lane,
                  refusing, worker, hand, dying, seen, lost, unsaid, events>>
  BY Zenon DEF Commit, pumpVars, engineVars
<1>3. /\ log' \in Seq(Kinds) /\ Len(log') = Len(log) + 1 /\ Len(log) \in Nat
      /\ \A i \in 1 .. Len(log) : log'[i] = log[i]
  BY <1>0, <1>1, AppendProperties, LenProperties DEF TypeOK
<1>4. TypeOK'
  BY <1>0, <1>1, <1>2, <1>3, StationAssumption DEF TypeOK
<1>5. PumpInv' /\ InboxInv' /\ RefusedInv' /\ HandsInv'
  BY <1>0, <1>2, <1>3 DEF PumpInv, InboxInv, Untouched, RefusedInv, HandsInv, TypeOK
<1>6. ServeInv'
  <2>1. \A i \in serve : i \in 1 .. Len(log)
    BY <1>0, <1>3 DEF ServeInv, TypeOK, Id
  <2>. QED  BY <1>0, <1>2, <1>3, <2>1 DEF ServeInv
<1>. QED  BY <1>4, <1>5, <1>6, Zenon DEF StationInv

LEMMA PumpKeeps ==
    ASSUME StationInv, Notify \/ PumpRead \/ PumpReadFails \/ PumpWakes
    PROVE  StationInv'
<1>0. TypeOK /\ PumpInv /\ InboxInv /\ RefusedInv /\ ServeInv /\ HandsInv
  BY Zenon DEF StationInv
<1>1. UNCHANGED <<log, truth, cursor, unit, inbox, occupant, serve, work, sig, reject, lane,
                  refusing, worker, hand, dying, seen, lost, unsaid>>
  BY Zenon DEF Notify, PumpRead, PumpReadFails, PumpWakes, engineVars
<1>2. events' \in 0 .. MaxEvent /\ notify' \in BOOLEAN /\ wake' \in BOOLEAN
  <2>1. events' \in 0 .. MaxEvent
    BY <1>0, EventBound, Zenon DEF Notify, PumpRead, PumpReadFails, PumpWakes, TypeOK
  <2>2. notify \in BOOLEAN /\ wake \in BOOLEAN
    BY <1>0, Zenon DEF TypeOK
  <2>3. notify' \in BOOLEAN /\ wake' \in BOOLEAN
    BY <2>2, Zenon DEF Notify, PumpRead, PumpReadFails, PumpWakes
  <2>. QED  BY <2>1, <2>3, Zenon
<1>3. /\ pump' \in [at : {"reading", "handling", "parked"}, upto : 0 .. MaxRows,
                    full : BOOLEAN, failed : BOOLEAN]
      /\ PumpInv'
  <2>0. /\ cursor \in 0 .. Len(log) /\ Len(log) \in Nat /\ Len(log) <= MaxRows /\ MaxRows \in Nat
        /\ ReadBatch \in Nat \ {0}
    BY <1>0, StationAssumption, LenProperties, Zenon DEF TypeOK
  <2>1. CASE Notify
    BY <1>0, <2>1, Zenon DEF Notify, TypeOK, PumpInv
  <2>2. CASE PumpReadFails \/ PumpWakes
    <3>1. pump' \in {Reading, Parked(TRUE)}
      BY <2>2, Zenon DEF PumpReadFails, PumpWakes
    <3>. QED  BY <3>1, PumpAtRest, Zenon DEF PumpInv
  <2>3. CASE PumpRead
    <3> DEFINE end == IF cursor + ReadBatch < Len(log) THEN cursor + ReadBatch ELSE Len(log)
    <3>1. end \in 0 .. MaxRows /\ end <= Len(log) /\ cursor <= end
      BY <2>0
    <3>2. pump' = IF end = cursor THEN Parked(FALSE)
                  ELSE [at |-> "handling", upto |-> end, full |-> end - cursor = ReadBatch,
                        failed |-> FALSE]
      BY <2>3, Zenon DEF PumpRead
    <3> HIDE DEF end
    <3>3. CASE end = cursor
      BY <3>2, <3>3, PumpAtRest, Zenon DEF PumpInv
    <3>4. CASE end # cursor
      <4>1. /\ pump'.at = "handling" /\ pump'.upto = end
            /\ pump' \in [at : {"reading", "handling", "parked"}, upto : 0 .. MaxRows,
                          full : BOOLEAN, failed : BOOLEAN]
        BY <3>1, <3>2, <3>4, Zenon
      <4>2. cursor < end
        BY <2>0, <3>1, <3>4
      <4>. QED  BY <1>1, <3>1, <4>1, <4>2, ZenonT(30) DEF PumpInv
    <3>. QED  BY <3>3, <3>4, Zenon
  <2>. QED  BY <2>1, <2>2, <2>3, Zenon
<1>4. TypeOK'
  BY <1>0, <1>1, <1>2, <1>3 DEF TypeOK
<1>5. InboxInv' /\ RefusedInv' /\ ServeInv' /\ HandsInv'
  BY <1>0, <1>1, Zenon DEF InboxInv, Untouched, RefusedInv, ServeInv, HandsInv
<1>. QED  BY <1>3, <1>4, <1>5, Zenon DEF StationInv

\* The next row of the page goes to the mailbox or is lost; the pump goes on.
LEMMA PumpHandleKeeps ==
    ASSUME StationInv, PumpHandle
    PROVE  StationInv'
<1>0. TypeOK /\ PumpInv /\ InboxInv /\ RefusedInv /\ ServeInv /\ HandsInv
  BY Zenon DEF StationInv
<1>1. /\ pump.at = "handling" /\ Deliver(cursor + 1) /\ cursor' = cursor + 1
      /\ pump' = IF cursor' < pump.upto THEN pump ELSE AfterPage(pump.full)
      /\ UNCHANGED <<log, truth, notify, wake, unit, occupant, serve, work, sig, reject, lane,
                     refusing, worker, hand, dying, seen, unsaid, events>>
  BY Zenon DEF PumpHandle, engineVars
<1>2. /\ cursor \in 0 .. Len(log) /\ Len(log) \in Nat /\ Len(log) <= MaxRows /\ MaxRows \in Nat
      /\ cursor < pump.upto /\ pump.upto <= Len(log) /\ pump.upto \in Nat
      /\ MailboxCap \in Nat
  BY <1>0, <1>1, StationAssumption, LenProperties DEF TypeOK, PumpInv
<1>3. PICK i \in Id : i = cursor + 1
  BY <1>2 DEF Id
<1>4. cursor' \in 0 .. Len(log) /\ i > cursor /\ Untouched(i)
  BY <1>0, <1>1, <1>2, <1>3 DEF InboxInv, Id
<1>5. \/ inbox' = Append(inbox, i) /\ Len(inbox) < MailboxCap /\ lost' = lost
      \/ inbox' = inbox /\ lost' = lost \cup {i}
  BY <1>1, <1>3, Zenon DEF Deliver
<1>6. inbox \in Seq(Id) /\ Len(inbox) \in Nat /\ Len(inbox) <= MailboxCap /\ DOMAIN inbox = 1 .. Len(inbox)
  BY <1>0, LenProperties, Zenon DEF TypeOK
<1>7. inbox' \in Seq(Id) /\ Len(inbox') <= MailboxCap /\ lost' \subseteq Id
  <2>1. lost \subseteq Id
    BY <1>0, Zenon DEF TypeOK
  <2>2. Append(inbox, i) \in Seq(Id) /\ Len(Append(inbox, i)) = Len(inbox) + 1
    BY <1>6, AppendSet, Zenon
  <2>3. CASE inbox' = inbox /\ lost' = lost \cup {i}
    BY <1>6, <2>1, <2>3, Zenon
  <2>4. CASE inbox' = Append(inbox, i) /\ Len(inbox) < MailboxCap /\ lost' = lost
    BY <1>2, <1>6, <2>1, <2>2, <2>4
  <2>. QED  BY <1>5, <2>3, <2>4, Zenon
<1>8. /\ pump' \in [at : {"reading", "handling", "parked"}, upto : 0 .. MaxRows,
                    full : BOOLEAN, failed : BOOLEAN]
      /\ PumpInv'
  <2>1. CASE cursor' < pump.upto
    BY <1>0, <1>1, <1>2, <2>1, Zenon DEF TypeOK, PumpInv
  <2>2. CASE ~(cursor' < pump.upto)
    <3>1. pump' \in {Reading, Parked(FALSE)}
      BY <1>1, <2>2, Zenon DEF AfterPage
    <3>. QED  BY <3>1, PumpAtRest, Zenon DEF PumpInv
  <2>. QED  BY <2>1, <2>2, Zenon
<1>9. TypeOK'
  BY <1>0, <1>1, <1>4, <1>7, <1>8 DEF TypeOK
<1>10. InboxInv'
  <2>1. \A j \in ToSet(inbox) : j \in Id /\ j <= cursor /\ Untouched(j)
    BY <1>0, <1>6, ElementOfSeq DEF InboxInv, ToSet
  <2>2. \A j \in Id : j <= cursor \/ j = i => j <= cursor'
    BY <1>1, <1>2, <1>3 DEF Id
  <2>3. \A j : Untouched(j)' <=> Untouched(j)
    BY <1>1, Zenon DEF Untouched
  <2>4. \A j \in Id : j > cursor' => Untouched(j)'
    BY <1>0, <1>1, <1>2, <2>3 DEF InboxInv, Id
  <2>5. CASE inbox' = inbox
    BY <1>0, <2>1, <2>2, <2>3, <2>4, <2>5, ZenonT(30) DEF InboxInv
  <2>6. CASE inbox' = Append(inbox, i)
    <3>1. ToSet(inbox') = ToSet(inbox) \cup {i}
      BY <1>6, <2>6, AppendSet
    <3>2. \A j \in ToSet(inbox') : j <= cursor' /\ Untouched(j)'
      BY <1>4, <2>1, <2>2, <2>3, <3>1, Zenon
    <3>3. /\ DOMAIN inbox' = 1 .. Len(inbox) + 1 /\ inbox'[Len(inbox) + 1] = i
          /\ \A a \in 1 .. Len(inbox) : inbox'[a] = inbox[a]
      BY <1>6, <2>6, AppendProperties, LenProperties
    <3>4. \A a \in 1 .. Len(inbox) : inbox[a] # i
      <4>1. i \notin ToSet(inbox)
        BY <1>2, <1>4, <2>1 DEF Id
      <4>. QED  BY <1>6, <4>1, Zenon DEF ToSet
    <3>5. \A a, b \in DOMAIN inbox' : inbox'[a] = inbox'[b] => a = b
      <4>1. SUFFICES ASSUME NEW a \in 1 .. Len(inbox) + 1, NEW b \in 1 .. Len(inbox) + 1,
                            inbox'[a] = inbox'[b]
                     PROVE  a = b
        BY <3>3, Zenon
      <4>2. CASE a \in 1 .. Len(inbox) /\ b \in 1 .. Len(inbox)
        BY <1>0, <1>6, <3>3, <4>1, <4>2, ZenonT(30) DEF InboxInv
      <4>3. CASE a = Len(inbox) + 1
        BY <1>6, <3>3, <3>4, <4>1, <4>3
      <4>4. CASE b = Len(inbox) + 1
        BY <1>6, <3>3, <3>4, <4>1, <4>4
      <4>. QED  BY <1>6, <4>2, <4>3, <4>4
    <3>. QED  BY <2>4, <3>2, <3>5, Zenon DEF InboxInv
  <2>. QED  BY <1>5, <2>5, <2>6, Zenon
<1>11. RefusedInv' /\ ServeInv' /\ HandsInv'
  BY <1>0, <1>1, Zenon DEF RefusedInv, ServeInv, HandsInv
<1>. QED  BY <1>8, <1>9, <1>10, <1>11, ZenonT(30) DEF StationInv

\* The ledger: accounts close freely, and open while there is room.
LEMMA AccountBounds ==
    ASSUME TypeOK
    PROVE  /\ IsFiniteSet(serve) /\ Cardinality(serve) \in Nat
           /\ \A S \in SUBSET serve : Cardinality(S) <= QueueCap
           /\ \A i \in Id : Cardinality(serve) < QueueCap => Cardinality(serve \cup {i}) <= QueueCap
<1>1. IsFiniteSet(serve) /\ Cardinality(serve) <= QueueCap
  <2>1. IsFiniteSet(1 .. MaxRows)
    BY StationAssumption, FS_Interval
  <2>. QED  BY <2>1, FS_Subset, Zenon DEF TypeOK, Id
<1>2. Cardinality(serve) \in Nat /\ QueueCap \in Nat
  BY <1>1, FS_CardinalityType, StationAssumption, Zenon
<1>3. ASSUME NEW S \in SUBSET serve PROVE Cardinality(S) <= QueueCap
  <2>1. IsFiniteSet(S) /\ Cardinality(S) <= Cardinality(serve)
    BY <1>1, FS_Subset, Zenon
  <2>2. Cardinality(S) \in Nat
    BY <2>1, FS_CardinalityType, Zenon
  <2>. QED  BY <1>1, <1>2, <2>1, <2>2
<1>4. ASSUME NEW i \in Id, Cardinality(serve) < QueueCap
      PROVE  Cardinality(serve \cup {i}) <= QueueCap
  <2>1. Cardinality(serve \cup {i}) = IF i \in serve THEN Cardinality(serve) ELSE Cardinality(serve) + 1
    BY <1>1, FS_AddElement, Zenon
  <2>. QED  BY <1>2, <1>4, <2>1
<1>. QED  BY <1>1, <1>2, <1>3, <1>4, Zenon

\* A deadline or a cancel closes an account.
LEMMA CloseAccountKeeps ==
    ASSUME StationInv, NEW i \in Id, CloseAccount(i)
    PROVE  StationInv'
<1>0. TypeOK /\ PumpInv /\ InboxInv /\ RefusedInv /\ ServeInv /\ HandsInv
  BY Zenon DEF StationInv
<1>1. /\ serve' = serve \ {i}
      /\ UNCHANGED <<log, truth, notify, pump, cursor, wake, unit, inbox, occupant, work, sig, reject,
                     lane, refusing, worker, hand, dying, seen, lost, unsaid, events>>
  BY Zenon DEF CloseAccount, pumpVars
<1>2. serve' \subseteq serve /\ Cardinality(serve') <= QueueCap
  BY <1>0, <1>1, AccountBounds, Zenon
<1>3. TypeOK'
  BY <1>0, <1>1, <1>2 DEF TypeOK
<1>4. PumpInv' /\ InboxInv' /\ RefusedInv' /\ ServeInv' /\ HandsInv'
  BY <1>0, <1>1, <1>2, Zenon DEF PumpInv, InboxInv, Untouched, RefusedInv, ServeInv, HandsInv
<1>. QED  BY <1>3, <1>4, Zenon DEF StationInv

\* The reject lane takes a request, writes for it and lets go of it.
LEMMA LaneTakesKeeps ==
    ASSUME StationInv, LaneTakes
    PROVE  StationInv'
<1>0. TypeOK /\ PumpInv /\ InboxInv /\ RefusedInv /\ ServeInv /\ HandsInv
  BY Zenon DEF StationInv
<1>1. /\ lane = "idle" /\ reject # <<>> /\ reject' = Tail(reject)
      /\ \/ lane' = "writing" /\ refusing' = Head(reject)
         \/ lane' = lane /\ refusing' = refusing
      /\ UNCHANGED <<log, truth, notify, pump, cursor, wake, unit, inbox, occupant, serve, work, sig,
                     worker, hand, dying, seen, lost, unsaid, events>>
  BY Zenon DEF LaneTakes, pumpVars
<1>2. /\ reject \in Seq(Id) /\ Len(reject) <= QueueCap /\ Len(reject) \in Nat /\ QueueCap \in Nat
      /\ refusing \in Id \cup {0}
  BY <1>0, StationAssumption, LenProperties, Zenon DEF TypeOK
<1>3. /\ Tail(reject) \in Seq(Id) /\ Head(reject) \in Id /\ Len(Tail(reject)) = Len(reject) - 1
      /\ ToSet(reject) = {Head(reject)} \cup ToSet(Tail(reject))
  BY <1>1, <1>2, TailSet, Zenon
<1>4. /\ reject' \in Seq(Id) /\ Len(reject') <= QueueCap /\ refusing' \in Id \cup {0}
      /\ lane' \in {"off", "idle", "writing", "stopped"}
  BY <1>1, <1>2, <1>3
<1>5. TypeOK'
  BY <1>0, <1>1, <1>4 DEF TypeOK
<1>6. \A i : i \in ToSet(reject') \/ i = refusing' => i \in ToSet(reject) \/ i = refusing
  BY <1>1, <1>3, Zenon
<1>7. InboxInv'
  BY <1>1, <1>6, InboxFrame, Zenon DEF Untouched
<1>8. PumpInv' /\ RefusedInv' /\ ServeInv' /\ HandsInv'
  BY <1>0, <1>1, <1>3, <1>6, Zenon DEF PumpInv, RefusedInv, ServeInv, HandsInv
<1>. QED  BY <1>5, <1>7, <1>8, Zenon DEF StationInv

LEMMA LaneEndsKeep ==
    ASSUME StationInv, LaneLands \/ LaneFails
    PROVE  StationInv'
<1>0. TypeOK /\ PumpInv /\ InboxInv /\ RefusedInv /\ ServeInv /\ HandsInv
  BY Zenon DEF StationInv
<1>1. /\ lane = "writing" /\ lane' = "idle" /\ refusing' = 0
      /\ UNCHANGED <<log, notify, pump, cursor, wake, unit, inbox, occupant, serve, work, sig, reject,
                     worker, hand, dying, seen, lost>>
  BY Zenon DEF LaneLands, LaneFails, pumpVars
<1>2. PICK r \in Id : r = refusing
  BY <1>0, <1>1, Zenon DEF HandsInv
<1>3. /\ truth \in [Id -> {"none", "answered", "overloaded"}] /\ unsaid \subseteq Id
      /\ events \in 0 .. MaxEvent
  BY <1>0, Zenon DEF TypeOK
<1>4. /\ truth' \in [Id -> {"none", "answered", "overloaded"}]
      /\ \A i \in Id : truth'[i] = "overloaded" => truth[i] = "overloaded" \/ i = r
  BY <1>2, <1>3, Zenon DEF LaneLands, LaneFails, Land
<1>5. unsaid' \subseteq Id
  BY <1>2, <1>3, Zenon DEF LaneLands, LaneFails
<1>6. events' \in 0 .. MaxEvent
  BY <1>0, <1>3, EventBound, Zenon DEF LaneLands, LaneFails
<1>7. TypeOK'
  BY <1>0, <1>1, <1>4, <1>5, <1>6 DEF TypeOK
<1>8. InboxInv'
  <2>1. \A i \in Id : Untouched(i) => Untouched(i)'
    BY <1>1, <1>2, <1>4 DEF Untouched, Id
  <2>. QED  BY <1>1, <2>1, InboxFrame, Zenon
<1>9. RefusedInv'
  BY <1>0, <1>1, <1>2, <1>4 DEF RefusedInv, Id
<1>10. PumpInv' /\ ServeInv' /\ HandsInv'
  BY <1>0, <1>1, Zenon DEF PumpInv, ServeInv, HandsInv
<1>. QED  BY <1>7, <1>8, <1>9, <1>10, Zenon DEF StationInv

\* The body's answer is in the log.
LEMMA AnswerLandsKeeps ==
    ASSUME StationInv, AnswerLands
    PROVE  StationInv'
<1>0. TypeOK /\ PumpInv /\ InboxInv /\ RefusedInv /\ ServeInv /\ HandsInv
  BY Zenon DEF StationInv
<1>1. /\ worker = "writing" /\ worker' = "handling" /\ serve' = serve \ {hand}
      /\ UNCHANGED <<log, notify, pump, cursor, wake, unit, inbox, occupant, work, sig, reject, lane,
                     refusing, hand, dying, seen, lost, unsaid, events>>
  BY Zenon DEF AnswerLands, pumpVars
<1>2. /\ truth' \in [Id -> {"none", "answered", "overloaded"}]
      /\ \A i \in Id : truth'[i] = "overloaded" => truth[i] = "overloaded"
  BY <1>0, <1>1, Zenon DEF AnswerLands, Land, TypeOK, HandsInv
<1>3. serve' \subseteq serve /\ Cardinality(serve') <= QueueCap
  BY <1>0, <1>1, AccountBounds, Zenon
<1>4. TypeOK'
  BY <1>0, <1>1, <1>2, <1>3 DEF TypeOK
<1>5. InboxInv'
  BY <1>1, <1>2, InboxFrame, Zenon DEF Untouched
<1>6. PumpInv' /\ RefusedInv' /\ ServeInv' /\ HandsInv'
  BY <1>0, <1>1, <1>2, <1>3, Zenon DEF PumpInv, RefusedInv, ServeInv, HandsInv
<1>. QED  BY <1>4, <1>5, <1>6, Zenon DEF StationInv

\* projectWork: a row leaves the deque for the body, or for nobody when its
\* account is closed.
LEMMA TakeMoves ==
    ASSUME StationInv, work # <<>>, Take(Head(work))
    PROVE  /\ work' \in Seq(Id) /\ Len(work') <= QueueCap
           /\ worker' \in {"recv", "handling"} /\ hand' \in Id \cup {0}
           /\ seen' \subseteq Id /\ lost' \subseteq Id
           /\ ToSet(work') \cup seen' \subseteq ToSet(work) \cup seen
           /\ \A i \in serve : log[i] = "request" /\ i \in ToSet(work) \cup seen =>
                 i \in ToSet(work') \cup seen'
<1>1. /\ work \in Seq(Id) /\ Len(work) <= QueueCap /\ Len(work) \in Nat /\ QueueCap \in Nat
      /\ hand \in Id \cup {0} /\ seen \subseteq Id /\ lost \subseteq Id
  BY StationAssumption, LenProperties, Zenon DEF StationInv, TypeOK
<1>2. /\ Tail(work) \in Seq(Id) /\ Head(work) \in Id /\ Len(Tail(work)) = Len(work) - 1
      /\ ToSet(work) = {Head(work)} \cup ToSet(Tail(work))
  BY <1>1, TailSet, Zenon
<1>3. work' = Tail(work)
  BY Zenon DEF Take
<1>4. PICK h \in Id : h = Head(work)
  BY <1>2, Zenon
<1>5. CASE log[h] = "request" /\ h \notin serve
  <2>1. worker' = "recv" /\ lost' = lost \cup {h} /\ hand' = hand /\ seen' = seen
    BY <1>4, <1>5, Zenon DEF Take
  <2>. QED  BY <1>1, <1>2, <1>3, <1>4, <1>5, <2>1
<1>6. CASE ~(log[h] = "request" /\ h \notin serve)
  <2>1. worker' = "handling" /\ hand' = h /\ seen' = seen \cup {h} /\ lost' = lost
    BY <1>4, <1>6, Zenon DEF Take
  <2>. QED  BY <1>1, <1>2, <1>3, <1>4, <2>1
<1>. QED  BY <1>5, <1>6, Zenon

\* The worker looks for a row, finds one or parks, or ends.
LEMMA WorkerKeeps ==
    ASSUME StationInv, Recv \/ RecvDone \/ BodyReturns
    PROVE  StationInv'
<1>0. TypeOK /\ PumpInv /\ InboxInv /\ RefusedInv /\ ServeInv /\ HandsInv
  BY Zenon DEF StationInv
<1>1. UNCHANGED <<log, truth, notify, pump, cursor, wake, unit, inbox, serve, sig, reject, lane,
                  refusing, unsaid>>
  BY Zenon DEF Recv, RecvDone, BodyReturns, pumpVars
<1>2. /\ events' \in 0 .. MaxEvent /\ dying' \in BOOLEAN
      /\ occupant' \in {"starting", "running", "draining", "dead"}
  <2>1. /\ events \in 0 .. MaxEvent /\ dying \in BOOLEAN
        /\ occupant \in {"starting", "running", "draining", "dead"}
    BY <1>0, Zenon DEF TypeOK
  <2>2. events' \in 0 .. MaxEvent
    BY <1>0, <2>1, EventBound, Zenon DEF Recv, RecvDone, BodyReturns
  <2>3. /\ dying' = dying \/ dying' = TRUE
        /\ occupant' \in {occupant, "draining"}
    BY Zenon DEF Recv, RecvDone, BodyReturns, Exit
  <2>. QED  BY <2>1, <2>2, <2>3, Zenon
<1>3. /\ work' \in Seq(Id) /\ Len(work') <= QueueCap
      /\ worker' \in {"recv", "handling", "parked", "done"} /\ hand' \in Id \cup {0}
      /\ seen' \subseteq Id /\ lost' \subseteq Id
      /\ ToSet(work') \cup seen' \subseteq ToSet(work) \cup seen
      /\ \A i \in serve : log[i] = "request" /\ i \in ToSet(work) \cup seen =>
            i \in ToSet(work') \cup seen'
  <2>1. CASE work # <<>> /\ Take(Head(work))
    BY <2>1, TakeMoves, Zenon
  <2>2. CASE Exit \/ (worker' = "parked" /\ UNCHANGED <<work, hand, seen, lost>>)
    <3>1. UNCHANGED <<work, seen, lost>> /\ hand' \in {0, hand} /\ worker' \in {"parked", "done"}
      BY <2>2, Zenon DEF Exit
    <3>. QED  BY <1>0, <3>1, ZenonT(30) DEF TypeOK
  <2>. QED  BY <2>1, <2>2, ZenonT(30) DEF Recv, RecvDone, BodyReturns
<1>4. TypeOK'
  BY <1>0, <1>1, <1>2, <1>3 DEF TypeOK
<1>5. InboxInv'
  BY <1>1, <1>3, InboxFrame, ZenonT(30) DEF Untouched
<1>6. PumpInv' /\ RefusedInv' /\ ServeInv' /\ HandsInv'
  BY <1>0, <1>1, <1>3, ZenonT(30) DEF PumpInv, RefusedInv, ServeInv, HandsInv
<1>. QED  BY <1>4, <1>5, <1>6, Zenon DEF StationInv

\* offerReject
LEMMA OfferFits ==
    ASSUME TypeOK, NEW i \in Id, OfferReject(i)
    PROVE  /\ reject' \in Seq(Id) /\ Len(reject') <= QueueCap /\ lost' \subseteq Id
           /\ ToSet(reject') \subseteq ToSet(reject) \cup {i}
<1>1. /\ reject \in Seq(Id) /\ Len(reject) \in Nat /\ Len(reject) <= QueueCap /\ QueueCap \in Nat
      /\ lost \subseteq Id
  BY StationAssumption, LenProperties, Zenon DEF TypeOK
<1>2. CASE Len(reject) < QueueCap
  <2>1. reject' = Append(reject, i) /\ lost' = lost
    BY <1>2, Zenon DEF OfferReject
  <2>2. /\ Append(reject, i) \in Seq(Id) /\ Len(Append(reject, i)) = Len(reject) + 1
        /\ ToSet(Append(reject, i)) = ToSet(reject) \cup {i}
    BY <1>1, AppendSet
  <2>. QED  BY <1>1, <1>2, <2>1, <2>2
<1>3. CASE ~(Len(reject) < QueueCap)
  BY <1>1, <1>3, Zenon DEF OfferReject
<1>. QED  BY <1>2, <1>3, Zenon

\* What the receive loop may do with a row that nobody has touched.
ReceivedOK(i) ==
    /\ work' \in Seq(Id) /\ Len(work') <= QueueCap
    /\ ToSet(work') \subseteq ToSet(work) \cup {i}
    /\ \A j \in ToSet(work) : Asks(j) => j \in ToSet(work')
    /\ reject' \in Seq(Id) /\ Len(reject') <= QueueCap
    /\ ToSet(reject') \subseteq ToSet(reject) \cup {i}
    /\ ~(i \in ToSet(work') /\ i \in ToSet(reject'))
    /\ serve' \subseteq serve \cup {i} /\ Cardinality(serve') <= QueueCap
    /\ i \in serve' /\ log[i] = "request" => i \in serve \/ i \in ToSet(work')
    /\ truth' \in [Id -> {"none", "answered", "overloaded"}]
    /\ \A j \in Id : truth'[j] = "overloaded" => truth[j] = "overloaded"
    /\ lost' \subseteq Id /\ unsaid' \subseteq Id /\ events' \in 0 .. MaxEvent

LEMMA ReceiveOK ==
    ASSUME StationInv, NEW i \in Id, Untouched(i), Receive(i)
    PROVE  ReceivedOK(i)
<1>0. TypeOK
  BY Zenon DEF StationInv
<1>1. /\ work \in Seq(Id) /\ Len(work) <= QueueCap /\ reject \in Seq(Id) /\ Len(reject) <= QueueCap
      /\ serve \subseteq Id /\ truth \in [Id -> {"none", "answered", "overloaded"}]
      /\ lost \subseteq Id /\ unsaid \subseteq Id /\ events \in 0 .. MaxEvent
      /\ Cardinality(serve) <= QueueCap /\ Cardinality(serve) \in Nat /\ QueueCap \in Nat
      /\ i # 0 /\ i \notin ToSet(work) /\ i \notin ToSet(reject)
  BY <1>0, StationAssumption, AccountBounds DEF TypeOK, Id, Untouched
<1>2. /\ Push(i).items \in Seq(Id) /\ Len(Push(i).items) <= QueueCap
      /\ Push(i).dropped \in Id \cup {0}
      /\ ToSet(Push(i).items) \subseteq ToSet(work) \cup {i}
      /\ IF Push(i).dropped = i THEN Push(i).items = work ELSE i \in ToSet(Push(i).items)
      /\ \A j \in ToSet(work) : Asks(j) => j \in ToSet(Push(i).items)
  BY <1>0, <1>1, PushKeepsRequests, Zenon
<1>3. Enqueue(i) => work' = Push(i).items
  BY Zenon DEF Enqueue
<1>4. CASE ~Asks(i)
  <2>1. Enqueue(i) /\ lost' = lost \cup ({Push(i).dropped} \ {0})
        /\ UNCHANGED <<truth, serve, reject, unsaid, events>>
    BY <1>4, Zenon DEF Receive
  <2>. QED  BY <1>1, <1>2, <1>3, <2>1, ZenonT(30) DEF ReceivedOK
<1>5. CASE Asks(i) /\ (occupant # "running" \/ Cardinality(serve) >= QueueCap)
  <2>1. OfferReject(i) /\ UNCHANGED <<truth, serve, work, sig, unsaid, events>>
    BY <1>5, Zenon DEF Receive
  <2>2. /\ reject' \in Seq(Id) /\ Len(reject') <= QueueCap /\ lost' \subseteq Id
        /\ ToSet(reject') \subseteq ToSet(reject) \cup {i}
    BY <1>0, <2>1, OfferFits, ZenonT(30)
  <2>. QED  BY <1>1, <2>1, <2>2, ZenonT(30) DEF ReceivedOK
<1>6. CASE /\ Asks(i) /\ ~(occupant # "running" \/ Cardinality(serve) >= QueueCap)
           /\ log[i] = "describe"
  <2>1. RespondManifest(i)
    BY <1>6, Zenon DEF Receive
  <2>2. Cardinality(serve \cup {i}) <= QueueCap
    BY <1>0, <1>1, <1>6, AccountBounds
  <2>3. /\ truth' \in [Id -> {"none", "answered", "overloaded"}]
        /\ \A j \in Id : truth'[j] = "overloaded" => truth[j] = "overloaded"
    BY <1>1, <2>1, Zenon DEF RespondManifest, Land
  <2>4. serve' \in {serve, serve \cup {i}} /\ unsaid' \subseteq Id /\ UNCHANGED <<work, reject, lost>>
    BY <1>1, <2>1, Zenon DEF RespondManifest
  <2>5. events' \in 0 .. MaxEvent
    BY <1>0, <1>1, <2>1, EventBound, ZenonT(30) DEF RespondManifest
  <2>6. Cardinality(serve') <= QueueCap
    BY <1>1, <2>2, <2>4, Zenon
  <2>. QED  BY <1>1, <1>6, <2>3, <2>4, <2>5, <2>6, ZenonT(30) DEF ReceivedOK
<1>7. CASE /\ Asks(i) /\ ~(occupant # "running" \/ Cardinality(serve) >= QueueCap)
           /\ log[i] # "describe"
  <2>1. Seat(i) /\ Enqueue(i) /\ UNCHANGED <<truth, unsaid, events>>
    BY <1>7, Zenon DEF Receive, Seat
  <2>2. Cardinality(serve \cup {i}) <= QueueCap
    BY <1>0, <1>1, <1>7, AccountBounds
  <2>3. CASE Push(i).dropped = i
    <3>1. serve' = serve /\ OfferReject(i)
      BY <2>1, <2>3, ZenonT(30) DEF Seat
    <3>2. /\ reject' \in Seq(Id) /\ Len(reject') <= QueueCap /\ lost' \subseteq Id
          /\ ToSet(reject') \subseteq ToSet(reject) \cup {i}
      BY <1>0, <3>1, OfferFits, Zenon
    <3>. QED  BY <1>1, <1>2, <1>3, <2>1, <2>3, <3>1, <3>2, ZenonT(30) DEF ReceivedOK
  <2>4. CASE Push(i).dropped # i
    <3>1. /\ serve' = serve \cup {i} /\ reject' = reject
          /\ lost' = lost \cup ({Push(i).dropped} \ {0})
      BY <2>1, <2>4, Zenon DEF Seat
    <3>. QED  BY <1>1, <1>2, <1>3, <2>1, <2>2, <2>4, <3>1, ZenonT(30) DEF ReceivedOK
  <2>. QED  BY <2>3, <2>4, Zenon
<1>. QED  BY <1>4, <1>5, <1>6, <1>7, ZenonT(30)

LEMMA LoopReceivesKeeps ==
    ASSUME StationInv, LoopReceives
    PROVE  StationInv'
<1>0. TypeOK /\ PumpInv /\ InboxInv /\ RefusedInv /\ ServeInv /\ HandsInv
  BY Zenon DEF StationInv
<1>1. /\ inbox # <<>> /\ inbox' = Tail(inbox) /\ Receive(Head(inbox))
      /\ UNCHANGED <<log, notify, pump, cursor, wake, unit, occupant, lane, refusing, worker, hand,
                     dying, seen>>
  BY Zenon DEF LoopReceives, pumpVars
<1>2. inbox \in Seq(Id) /\ Len(inbox) <= MailboxCap /\ Len(inbox) \in Nat /\ MailboxCap \in Nat
  BY <1>0, StationAssumption, LenProperties, Zenon DEF TypeOK
<1>3. /\ Tail(inbox) \in Seq(Id) /\ Head(inbox) \in Id /\ Len(Tail(inbox)) = Len(inbox) - 1
      /\ ToSet(inbox) = {Head(inbox)} \cup ToSet(Tail(inbox))
  BY <1>1, <1>2, TailSet, Zenon
<1>4. /\ Head(inbox) = inbox[1] /\ DOMAIN inbox = 1 .. Len(inbox) /\ Len(inbox) # 0
      /\ DOMAIN Tail(inbox) = 1 .. Len(inbox) - 1
      /\ \A a \in 1 .. Len(inbox) - 1 : Tail(inbox)[a] = inbox[a + 1]
  BY <1>1, <1>2, <1>3, HeadTailProperties, LenProperties, EmptySeq
<1>5. PICK i \in Id : i = Head(inbox)
  BY <1>3, Zenon
<1>6. i <= cursor /\ Untouched(i) /\ Receive(i)
  BY <1>0, <1>1, <1>3, <1>5, ZenonT(30) DEF InboxInv
<1>7. ReceivedOK(i)
  BY <1>6, ReceiveOK, Zenon
<1>8. sig' \in BOOLEAN
  <2>1. sig \in BOOLEAN
    BY <1>0, Zenon DEF TypeOK
  <2>2. sig' = sig \/ Enqueue(i)
    BY <1>6, Zenon DEF Receive, Seat, RespondManifest
  <2>3. Enqueue(i) => sig' \in BOOLEAN
    BY Zenon DEF Enqueue
  <2>. QED  BY <2>1, <2>2, <2>3, ZenonT(30)
<1>9. TypeOK'
  <2>1. serve' \subseteq Id
    BY <1>0, <1>7, Zenon DEF ReceivedOK, TypeOK
  <2>2. inbox' \in Seq(Id) /\ Len(inbox') <= MailboxCap
    BY <1>1, <1>2, <1>3
  <2>. QED  BY <1>0, <1>1, <1>7, <1>8, <2>1, <2>2 DEF TypeOK, ReceivedOK
<1>10. InboxInv'
  <2>1. \A j \in Id : j # i /\ Untouched(j) => Untouched(j)'
    BY <1>1, <1>7, ZenonT(30) DEF Untouched, ReceivedOK
  <2>2. ASSUME NEW a \in DOMAIN inbox' PROVE inbox'[a] # i /\ inbox'[a] \in ToSet(inbox)
    <3>1. a + 1 \in DOMAIN inbox /\ 1 \in DOMAIN inbox /\ a + 1 # 1 /\ inbox'[a] = inbox[a + 1]
      BY <1>1, <1>2, <1>4
    <3>. QED  BY <1>0, <1>4, <1>5, <3>1, ZenonT(30) DEF InboxInv, ToSet
  <2>3. \A j \in ToSet(inbox) : j \in Id
    BY <1>2, LenProperties, ElementOfSeq DEF ToSet
  <2>4. \A j \in ToSet(inbox') : j <= cursor' /\ Untouched(j)'
    BY <1>0, <1>1, <2>1, <2>2, <2>3, ZenonT(30) DEF InboxInv, ToSet
  <2>5. ASSUME NEW a \in DOMAIN inbox', NEW b \in DOMAIN inbox', inbox'[a] = inbox'[b]
        PROVE  a = b
    <3>1. /\ a + 1 \in DOMAIN inbox /\ inbox'[a] = inbox[a + 1] /\ a \in Nat
          /\ b + 1 \in DOMAIN inbox /\ inbox'[b] = inbox[b + 1] /\ b \in Nat
      BY <1>1, <1>2, <1>4
    <3>2. a + 1 = b + 1
      BY <1>0, <2>5, <3>1, ZenonT(30) DEF InboxInv
    <3>. QED  BY <3>1, <3>2
  <2>6. \A j \in Id : j > cursor' => Untouched(j)'
    <3>1. cursor \in Nat /\ i \in Nat
      BY <1>0, LenProperties DEF TypeOK, Id
    <3>2. \A j \in Id : j > cursor => j # i
      BY <1>6, <3>1 DEF Id
    <3>. QED  BY <1>0, <1>1, <2>1, <3>2, ZenonT(30) DEF InboxInv
  <2>. QED  BY <2>4, <2>5, <2>6, ZenonT(30) DEF InboxInv
<1>11. RefusedInv'
  <2>1. ASSUME NEW j \in Id, truth'[j] = "overloaded" \/ j \in ToSet(reject') \/ j = refusing'
        PROVE  j \notin ToSet(work') /\ j \notin seen'
    <3>1. CASE j = i
      BY <1>1, <1>6, <1>7, <2>1, <3>1, ZenonT(30) DEF ReceivedOK, Untouched
    <3>2. CASE j # i
      BY <1>0, <1>1, <1>7, <2>1, <3>2, ZenonT(30) DEF ReceivedOK, RefusedInv
    <3>. QED  BY <3>1, <3>2, Zenon
  <2>. QED  BY <2>1, Zenon DEF RefusedInv
<1>12. ServeInv'
  <2>1. i <= Len(log)
    BY <1>0, <1>6, LenProperties DEF TypeOK, Id
  <2>2. ASSUME NEW j \in serve', log[j] = "request" PROVE j \in ToSet(work') \cup seen'
    <3>1. CASE j \in serve
      <4>1. j \in ToSet(work) \cup seen
        BY <1>0, <2>2, <3>1, ZenonT(30) DEF ServeInv
      <4>2. Asks(j)
        BY <2>2, Zenon DEF Asks
      <4>. QED  BY <1>1, <1>7, <4>1, <4>2, ZenonT(30) DEF ReceivedOK
    <3>2. CASE j \notin serve
      BY <1>7, <2>2, <3>2, Zenon DEF ReceivedOK
    <3>. QED  BY <3>1, <3>2, Zenon
  <2>. QED  BY <1>0, <1>1, <1>7, <2>1, <2>2, ZenonT(30) DEF ServeInv, ReceivedOK
<1>13. PumpInv' /\ HandsInv'
  BY <1>0, <1>1, Zenon DEF PumpInv, HandsInv
<1>. QED  BY <1>9, <1>10, <1>11, <1>12, <1>13, ZenonT(30) DEF StationInv

-----------------------------------------------------------------------------
(* Theorems *)

LEMMA StationInvariant == Spec => []StationInv
<1>1. Init => StationInv
  <2>1. SUFFICES ASSUME Init PROVE StationInv
    BY Zenon
  <2>2. /\ <<>> \in Seq(Id) /\ <<>> \in Seq(Kinds) /\ Len(<<>>) = 0 /\ ToSet(<<>>) = {}
        /\ DOMAIN <<>> = {}
    BY EmptySeq DEF ToSet
  <2>3. Cardinality({}) = 0
    BY FS_EmptySet, Zenon
  <2>4. /\ log = <<>> /\ inbox = <<>> /\ work = <<>> /\ reject = <<>> /\ serve = {} /\ seen = {}
        /\ lost = {} /\ unsaid = {} /\ cursor = 0 /\ refusing = 0 /\ hand = 0 /\ events = 0
    BY <2>1, Zenon DEF Init
  <2>5. truth \in [Id -> {"none", "answered", "overloaded"}] /\ \A i \in Id : truth[i] = "none"
    BY <2>1, Zenon DEF Init
  <2>6. pump = Reading /\ lane = "off" /\ worker = "off" /\ unit = "running" /\ occupant = "starting"
    BY <2>1, Zenon DEF Init
  <2>7. notify \in BOOLEAN /\ wake \in BOOLEAN /\ sig \in BOOLEAN /\ dying \in BOOLEAN
    BY <2>1, Zenon DEF Init
  <2>8. /\ pump \in [at : {"reading", "handling", "parked"}, upto : 0 .. MaxRows,
                     full : BOOLEAN, failed : BOOLEAN]
        /\ pump.at # "handling"
    BY <2>6, PumpAtRest, ZenonT(30)
  <2>9. TypeOK
    BY <2>2, <2>3, <2>4, <2>5, <2>6, <2>7, <2>8, StationAssumption DEF TypeOK
  <2>10. \A i \in Id : i # 0
    BY DEF Id
  <2>11. PumpInv /\ InboxInv /\ RefusedInv /\ ServeInv /\ HandsInv
    BY <2>2, <2>4, <2>5, <2>6, <2>8, <2>10, ZenonT(30)
       DEF PumpInv, InboxInv, Untouched, RefusedInv, ServeInv, HandsInv
  <2>. QED  BY <2>9, <2>11, Zenon DEF StationInv
<1>2. StationInv /\ [Next]_vars => StationInv'
  BY ControlSteps, CommitKeeps, PumpKeeps, PumpHandleKeeps, CloseAccountKeeps, LaneTakesKeeps,
     LaneEndsKeep, AnswerLandsKeeps, WorkerKeeps, LoopReceivesKeeps, ZenonT(30)
     DEF Next
<1>. QED  BY <1>1, <1>2, PTL DEF Spec

\* Whatever is pushed onto a full deque, an open account's request is in the deque
\* or was handed to the body, and no queue outgrows its capacity.
THEOREM AccountsHaveHolders == Spec => []AccountHasHolder
<1>1. StationInv => AccountHasHolder
  BY Zenon DEF StationInv, ServeInv, AccountHasHolder
<1>. QED  BY <1>1, StationInvariant, PTL

\* A request whose terminal says overloaded was never in the hands of the body.
THEOREM OverloadIsHonest == Spec => []HonestOverload
<1>1. StationInv => HonestOverload
  BY Zenon DEF StationInv, RefusedInv, HonestOverload
<1>. QED  BY <1>1, StationInvariant, PTL
=============================================================================

------------------------------ MODULE Schedule ------------------------------
(***************************************************************************)
(* The timer engine of one channel (runtime/schedule), its fire sink       *)
(* (runtime/timerfire) and the tables it drives (TimerStore).              *)
(*                                                                         *)
(* Actors: any number of callers inside Schedule, Cancel and Ack; the one  *)
(* run goroutine (pc); the roster that admits authors; the clock; and the  *)
(* environment, which makes store calls fail and the process stop.  What   *)
(* lives in SQLite (rows, dead, log, member) survives a stop; the memory   *)
(* timers, the wake channel and the run goroutine do not.                  *)
(***************************************************************************)
EXTENDS TimerStore

CONSTANTS
    Homes,         \* the storage homes callers ask for
    Poison,        \* ids whose envelope the harness refuses for good
    MaxMem,        \* maxMemTimersPerAuthor
    Backoff,       \* backoffDuration, in clock units
    FireAt,        \* per id: the deadlines its caller may ask for
    Horizon,       \* the model's last instant
    MaxFaults,     \* store and harness calls that may fail in a behaviour
    MaxStops       \* crashes and closes in a behaviour

ASSUME ScheduleAssumption ==
    /\ Homes \subseteq Home
    /\ Poison \subseteq TimerId
    /\ MaxMem \in Nat
    /\ Backoff \in Nat \ {0}
    /\ Horizon \in Nat
    /\ FireAt \in [TimerId -> SUBSET (1 .. Horizon)]
    /\ MaxFaults \in Nat
    /\ MaxStops \in Nat

VARIABLES
    member,   \* authors the roster admits (Controller.AdmitIdentity)
    leaving,  \* removed authors whose ForgetActors call is still to come
    req,      \* the request each minted id stands for
    call,     \* the Schedule call of each id
    rows,     \* table timers
    dead,     \* table timer_dead
    log,      \* the fire messages in table messages
    mem,      \* Engine.mem
    wake,     \* Engine.wake holds a token
    clock,
    mode,     \* "up", "closing" (stop closed, ctx cancelled) or "down"
    pc,       \* where the run goroutine is
    runNow,   \* `now` of the current iteration
    memNext,  \* the memory half of nextFireAt
    alarm,    \* the armed deadline, or None
    batch,    \* the ids the current loop of fireDue still has to visit
    family,   \* which loop of fireDue runs: "mem" or "row"
    cur,      \* the id being fired
    progress, \* fireDue's result so far (a local out of scope has its zero value)
    faults, stops

None == 0   \* no deadline, no current id: deadlines and ids are positive

store == <<rows, dead, log>>
loop  == <<pc, runNow, memNext, alarm, batch, family, cur, progress>>
vars  == <<member, leaving, req, call, rows, dead, log, mem, wake, clock, mode,
           pc, runNow, memNext, alarm, batch, family, cur, progress, faults, stops>>

Message == [id : {"timer"} \X TimerId, sender : Author]

TypeOK ==
    /\ member \in SUBSET Author
    /\ leaving \in SUBSET Author
    /\ req \in [TimerId -> Request \cup {NoRequest}]
    /\ call \in [TimerId -> {"idle", "admitted", "stored", "done", "failed"}]
    /\ rows \in [TimerId -> RowState]
    /\ dead \in Seq(TimerId)
    /\ log \in Seq(Message)
    /\ mem \in SUBSET TimerId
    /\ wake \in BOOLEAN
    /\ clock \in Nat
    /\ mode \in {"up", "closing", "down"}
    /\ pc \in {"top", "query", "park", "snap", "fire", "write", "settle",
               "dispose", "stopped"}
    /\ runNow \in Nat
    /\ memNext \in Nat
    /\ alarm \in Nat
    /\ batch \in SUBSET TimerId
    /\ family \in {"mem", "row"}
    /\ cur \in TimerId \cup {None}
    /\ progress \in BOOLEAN
    /\ faults \in Nat
    /\ stops \in Nat

Init ==
    /\ member = Author
    /\ leaving = {}
    /\ req = [t \in TimerId |-> NoRequest]
    /\ call = [t \in TimerId |-> "idle"]
    /\ rows = [t \in TimerId |-> "absent"]
    /\ dead = <<>>
    /\ log = <<>>
    /\ mem = {}
    /\ wake = FALSE
    /\ clock = 0
    /\ mode = "up"
    /\ pc = "top"
    /\ runNow = 0
    /\ memNext = None
    /\ alarm = None
    /\ batch = {}
    /\ family = "mem"
    /\ cur = None
    /\ progress = FALSE
    /\ faults = 0
    /\ stops = 0

-----------------------------------------------------------------------------
\* A call may fail while the fault budget lasts, and always once the engine's
\* context is cancelled.
MayFault == faults < MaxFaults \/ mode = "closing"
Fault    == /\ MayFault
            /\ faults' = IF mode = "closing" THEN faults ELSE faults + 1

\* The earliest deadline of a set of timers; None when there is none.
Earliest(S) == IF S = {} THEN {None}
               ELSE {req[t].fireAt : t \in {u \in S : \A v \in S : req[u].fireAt <= req[v].fireAt}}

\* The message id is a function of the timer id alone.
fireMessageID(t) == <<"timer", t>>

InTruth(id) == \E i \in 1..Len(log) : log[i].id = id
Rung(t) == InTruth(fireMessageID(t))

\* Variant: messages.id is not unique.
LandedAgain(m) == Append(log, m)

\* The log with m in it; messages.id is UNIQUE.
Landed(m) == IF InTruth(m.id) THEN log ELSE Append(log, m)
-----------------------------------------------------------------------------
(* Callers *)

\* The door's verdict: the handle asks the roster, then the engine runs with
\* no further look at it.
Admit(t) ==
    /\ mode # "down"
    /\ call[t] = "idle"
    /\ \E a \in member, f \in FireAt[t], h \in Homes :
          req' = [req EXCEPT ![t] = [author |-> a, fireAt |-> f, home |-> h]]
    /\ call' = [call EXCEPT ![t] = "admitted"]
    /\ UNCHANGED <<member, leaving, store, mem, wake, clock, mode, loop, faults, stops>>

\* schedule: quota, then the row or the entry; wakeUp is a step of its own.
StoreTimer(t) ==
    /\ mode # "down"
    /\ call[t] = "admitted"
    /\ \/ /\ req[t].home = "durable"
          /\ InsertAdmits(rows, req, req[t].author)
          /\ rows' = Insert(rows, t)
          /\ UNCHANGED mem
       \/ /\ req[t].home = "memory"
          /\ Cardinality({u \in mem : req[u].author = req[t].author}) < MaxMem
          /\ mem' = mem \cup {t}
          /\ UNCHANGED rows
    /\ call' = [call EXCEPT ![t] = "stored"]
    /\ UNCHANGED <<member, leaving, req, dead, log, wake, clock, mode, loop, faults, stops>>

RefuseTimer(t) ==
    /\ mode # "down"
    /\ call[t] = "admitted"
    /\ \/ /\ req[t].home = "durable"
          /\ \/ ~InsertAdmits(rows, req, req[t].author) /\ UNCHANGED faults
             \/ Fault
       \/ /\ req[t].home = "memory"
          /\ Cardinality({u \in mem : req[u].author = req[t].author}) >= MaxMem
          /\ UNCHANGED faults
    /\ call' = [call EXCEPT ![t] = "failed"]
    /\ UNCHANGED <<member, leaving, req, store, mem, wake, clock, mode, loop, stops>>

wakeUp(t) ==
    /\ mode # "down"
    /\ call[t] = "stored"
    /\ wake' = TRUE
    /\ call' = [call EXCEPT ![t] = "done"]
    /\ UNCHANGED <<member, leaving, req, store, mem, clock, mode, loop, faults, stops>>

\* cancel: an id lives in one home, so at most one of the two deletes matters.
Cancel(t, a) ==
    /\ mode # "down"
    /\ a \in member
    /\ call[t] = "done"
    /\ req[t].author = a
    /\ t \in mem \/ rows[t] = "pending"
    /\ mem' = mem \ {t}
    /\ rows' = CancelOwned(rows, req, t, a)
    /\ UNCHANGED <<member, leaving, req, call, dead, log, wake, clock, mode, loop, faults, stops>>

Ack(t, a) ==
    /\ mode # "down"
    /\ a \in member
    /\ rows[t] = "fired"
    /\ req[t].author = a
    /\ rows' = AckOwned(rows, req, t, a)
    /\ UNCHANGED <<member, leaving, req, call, dead, log, mem, wake, clock, mode, loop, faults, stops>>
-----------------------------------------------------------------------------
(* The roster: a removed author's memory timers go in a later call. *)

Remove(a) ==
    /\ mode # "down"
    /\ a \in member
    /\ member' = member \ {a}
    /\ leaving' = leaving \cup {a}
    /\ UNCHANGED <<req, call, store, mem, wake, clock, mode, loop, faults, stops>>

ForgetActors(a) ==
    /\ a \in leaving
    /\ leaving' = leaving \ {a}
    /\ mem' = {t \in mem : req[t].author # a}
    /\ UNCHANGED <<member, req, call, store, wake, clock, mode, loop, faults, stops>>
-----------------------------------------------------------------------------
(* The run goroutine *)

Running(p) == mode # "down" /\ pc = p

\* nextFireAt, first half: the clock and the memory timers, under mu.
ReadMemory ==
    /\ Running("top")
    /\ runNow' = clock
    /\ memNext' \in Earliest(mem)
    /\ alarm' = None
    /\ pc' = "query"
    /\ UNCHANGED <<member, leaving, req, call, store, mem, wake, clock, mode,
                   batch, family, cur, progress, faults, stops>>

\* Variant: the memory half hides the store's.
EarlierMemoryFirst(x, y) == IF x = None THEN y ELSE x

\* The earlier of two deadlines, None standing for "nothing pending".
Earlier(x, y) == IF x = None THEN y ELSE IF y = None \/ x < y THEN x ELSE y

\* What run does with nextFireAt: wait for a wake, wait for the deadline too,
\* or fire.
Decide(next) ==
    /\ pc' = IF next = None \/ next > runNow THEN "park" ELSE "snap"
    /\ alarm' = IF next > runNow THEN next ELSE None
    /\ runNow' = IF pc' = "park" THEN 0 ELSE runNow
    /\ memNext' = None

\* A failed query stands for a deadline one backoff from the present.
RetryAt == clock + Backoff

\* nextFireAt, second half.
QueryStore ==
    /\ Running("query")
    /\ \/ /\ \E first \in Earliest(Pending(rows)) : Decide(Earlier(memNext, first))
          /\ UNCHANGED faults
       \/ /\ Fault
          /\ Decide(Earlier(memNext, RetryAt))
    /\ UNCHANGED <<member, leaving, req, call, store, mem, wake, clock, mode,
                   batch, family, cur, progress, stops>>

\* The last instant of the model's clock stands for all the time after it.
Reached(d) == d <= clock \/ clock = Horizon

\* The select at the bottom of the loop: stop, a wake token, or the alarm.
Leave(p) ==
    /\ Running("park")
    /\ pc' = p
    /\ alarm' = None
    /\ UNCHANGED <<member, leaving, req, call, store, mem, clock, mode, runNow,
                   memNext, batch, family, cur, progress, faults, stops>>

TakeStop  == mode = "closing" /\ Leave("stopped") /\ UNCHANGED wake
TakeWake  == wake /\ wake' = FALSE /\ Leave("top")
TakeAlarm == alarm # None /\ Reached(alarm) /\ Leave("top") /\ UNCHANGED wake

\* fireDue, memory loop: copy the due entries under mu.
SnapshotMemory ==
    /\ Running("snap")
    /\ batch' = {t \in mem : req[t].fireAt <= runNow}
    /\ family' = "mem"
    /\ progress' = FALSE
    /\ pc' = "fire"
    /\ UNCHANGED <<member, leaving, req, call, store, mem, wake, clock, mode,
                   runNow, memNext, alarm, cur, faults, stops>>

\* Map iteration visits memory timers in any order; rows come in Due's order.
NextOf(S) == IF family = "mem" THEN S
             ELSE {t \in S : \A u \in S \ {t} : Before(req, t, u)}

\* sink.Append, first half: the author verdict, against the roster as it is.
AdmitAuthor ==
    /\ Running("fire")
    /\ \E t \in NextOf(batch) :
          /\ batch' = batch \ {t}
          /\ \/ pc' = "write" /\ req[t].author \in member /\ cur' = t /\ UNCHANGED faults
             \/ pc' = "dispose" /\ req[t].author \notin member /\ cur' = t /\ UNCHANGED faults
             \/ pc' = "fire" /\ Fault /\ cur' = None
    /\ UNCHANGED <<member, leaving, req, call, store, mem, wake, clock, mode,
                   runNow, memNext, alarm, family, progress, stops>>

\* sink.Append, second half: WriteAdmitted under the verdict just reached.
\* A duplicate id is a fire already in truth; a failed write may have landed;
\* a refusal by a step of the chain comes before the append.
WriteFire ==
    /\ Running("write")
    /\ LET m == [id |-> fireMessageID(cur), sender |-> req[cur].author]
       IN  \/ cur \in Poison /\ pc' = "dispose" /\ UNCHANGED <<log, cur, faults>>
           \/ cur \notin Poison /\ pc' = "settle" /\ log' = Landed(m) /\ UNCHANGED <<cur, faults>>
           \/ /\ Fault /\ pc' = "fire" /\ cur' = None
              /\ log' \in IF cur \in Poison THEN {log} ELSE {log, Landed(m)}
    /\ UNCHANGED <<member, leaving, req, call, rows, dead, mem, wake, clock, mode,
                   runNow, memNext, alarm, batch, family, progress, stops>>

\* The fire is in truth: drop the entry, or mark the row.  A row that cannot
\* be marked stays pending and is fired again.
Settle ==
    /\ Running("settle")
    /\ pc' = "fire"
    /\ cur' = None
    /\ \/ /\ family = "mem"
          /\ mem' = mem \ {cur}
          /\ progress' = TRUE
          /\ UNCHANGED <<rows, faults>>
       \/ /\ family = "row"
          /\ \/ rows' = MarkFired(rows, cur) /\ progress' = TRUE /\ UNCHANGED faults
             \/ Fault /\ UNCHANGED <<rows, progress>>
          /\ UNCHANGED mem
    /\ UNCHANGED <<member, leaving, req, call, dead, log, wake, clock, mode, runNow,
                   memNext, alarm, batch, family, stops>>

\* The fire was refused for good: drop the entry, or move the row to the ring.
Dispose ==
    /\ Running("dispose")
    /\ pc' = "fire"
    /\ cur' = None
    /\ \/ /\ family = "mem"
          /\ mem' = mem \ {cur}
          /\ progress' = TRUE
          /\ UNCHANGED <<rows, dead, faults>>
       \/ /\ family = "row"
          /\ \/ /\ rows' = DeleteRow(rows, cur)
                /\ dead' = BuryInRing(rows, dead, cur)
                /\ progress' = TRUE
                /\ UNCHANGED faults
             \/ Fault /\ UNCHANGED <<rows, dead, progress>>
          /\ UNCHANGED mem
    /\ UNCHANGED <<member, leaving, req, call, log, wake, clock, mode, runNow,
                   memNext, alarm, batch, family, stops>>

\* fireDue's result: another round, or a wait of one backoff.
Return ==
    /\ pc' = IF progress THEN "top" ELSE "park"
    /\ alarm' = IF progress THEN None ELSE runNow + Backoff
    /\ runNow' = 0
    /\ family' = "mem"
    /\ progress' = FALSE

\* Between the loops: the Due query, whose failure ends fireDue.
QueryDue ==
    /\ Running("fire")
    /\ family = "mem"
    /\ batch = {}
    /\ \/ /\ batch' = Due(rows, req, runNow)
          /\ family' = "row"
          /\ UNCHANGED <<pc, alarm, runNow, progress, faults>>
       \/ Fault /\ Return /\ UNCHANGED batch
    /\ UNCHANGED <<member, leaving, req, call, store, mem, wake, clock, mode,
                   memNext, cur, stops>>

EndFireDue ==
    /\ Running("fire")
    /\ family = "row"
    /\ batch = {}
    /\ Return
    /\ UNCHANGED <<member, leaving, req, call, store, mem, wake, clock, mode,
                   memNext, batch, cur, faults, stops>>
-----------------------------------------------------------------------------
(* The environment *)

Tick ==
    /\ clock' = IF clock < Horizon THEN clock + 1 ELSE clock
    /\ UNCHANGED <<member, leaving, req, call, store, mem, wake, mode, loop, faults, stops>>

\* The process dies, or a bounded Close gives the goroutine up: what is in
\* memory is gone, calls in flight get no answer.
Forget ==
    /\ mode' = "down"
    /\ mem' = {}
    /\ wake' = FALSE
    /\ leaving' = {}
    /\ call' = [t \in TimerId |-> CASE call[t] = "admitted" -> "failed"
                                    [] call[t] = "stored"   -> "done"
                                    [] OTHER                -> call[t]]
    /\ pc' = "stopped"
    /\ batch' = {}
    /\ cur' = None
    /\ alarm' = None
    /\ runNow' = 0
    /\ memNext' = None
    /\ family' = "mem"
    /\ progress' = FALSE
    /\ UNCHANGED <<member, req, store, clock, faults>>

Crash ==
    /\ mode # "down"
    /\ stops < MaxStops
    /\ stops' = stops + 1
    /\ Forget

\* Engine.Close: cancel the context and close stop; the goroutine finds out
\* at its next select.
Close ==
    /\ mode = "up"
    /\ stops < MaxStops
    /\ stops' = stops + 1
    /\ mode' = "closing"
    /\ UNCHANGED <<member, leaving, req, call, store, mem, wake, clock, loop, faults>>

CloseDone ==
    /\ mode = "closing"
    /\ pc = "stopped"
    /\ Forget
    /\ UNCHANGED stops

\* The channel opens again over the same database: New, then Start.
Start ==
    /\ mode = "down"
    /\ mode' = "up"
    /\ pc' = "top"
    /\ UNCHANGED <<member, leaving, req, call, store, mem, wake, clock, runNow,
                   memNext, alarm, batch, family, cur, progress, faults, stops>>

Run == \/ ReadMemory \/ QueryStore \/ TakeStop \/ TakeWake \/ TakeAlarm
       \/ SnapshotMemory \/ AdmitAuthor \/ WriteFire \/ Settle \/ Dispose \/ QueryDue \/ EndFireDue

Callers == \E t \in TimerId :
    \/ Admit(t) \/ StoreTimer(t) \/ RefuseTimer(t) \/ wakeUp(t)
    \/ \E a \in Author : Cancel(t, a) \/ Ack(t, a)

Roster == \E a \in Author : Remove(a) \/ ForgetActors(a)

Next == Run \/ Callers \/ Roster \/ Tick \/ Crash \/ Close \/ CloseDone \/ Start

Spec == Init /\ [][Next]_vars

\* The Go scheduler runs every goroutine that can run, time passes, a Schedule
\* call that stored its timer goes on to wakeUp, a close ends and the channel
\* is opened again.  A select that keeps finding stop ready takes it in the
\* end: Go picks among the ready cases at random.  Nothing obliges a caller.
Fairness ==
    /\ WF_vars(Run)
    /\ SF_vars(TakeStop)
    /\ WF_vars(Tick)
    /\ \A t \in TimerId : WF_vars(wakeUp(t))
    /\ WF_vars(CloseDone)
    /\ WF_vars(Start)

FairSpec == Spec /\ Fairness
-----------------------------------------------------------------------------
(* Properties *)

\* A timer leaves at most one message in the channel, however often the loop
\* repeats a fire after a failed marker, a lost reply or a restart: the
\* message id depends on the timer id alone and messages.id is UNIQUE.
FireAtMostOnce ==
    \A i, j \in 1..Len(log) : log[i].id[2] = log[j].id[2] => i = j

\* The control table never runs ahead of truth: a row says "fired" only when
\* its message is in the log (the append commits before MarkFired runs).
FiredIsInTruth == \A t \in TimerId : rows[t] = "fired" => Rung(t)

\* No author holds more rows, or more memory entries, than the quotas allow,
\* whatever the interleaving of their Schedule calls.
QuotaHolds ==
    \A a \in Author :
        /\ Cardinality(OwnedRows(rows, req, a)) <= MaxPending
        /\ Cardinality({t \in mem : req[t].author = a}) <= MaxMem

Armed(t) == t \in mem \/ rows[t] = "pending"

\* When the loop has to be back for t: at its deadline, but no sooner than one
\* backoff from now.
Deadline(t) == IF req[t].fireAt < clock + Backoff THEN clock + Backoff ELSE req[t].fireAt

\* No lost wake: when the loop is parked with no token in the wake channel,
\* every timer whose Schedule call has returned has its deadline (or the retry
\* backoff) covered by the alarm, so nothing waits for a caller to come by.
ParkCoversTimers ==
    pc = "park" /\ ~wake =>
        \A t \in TimerId : Armed(t) /\ call[t] # "stored" =>
            alarm # None /\ alarm <= Deadline(t)

Silent(t) == call[t] \in {"done", "failed"} /\ ~Armed(t) /\ t \notin batch /\ t # cur

\* A timer that is neither armed nor in the loop's hands (cancelled, disposed
\* of, acknowledged, forgotten) is out for good: no step arms it again and no
\* step makes it ring.  Only a fire already in flight may outrun a Cancel.
SilencedStaysSilent ==
    [][\A t \in TimerId : Silent(t) => Silent(t)' /\ Rung(t)' = Rung(t)]_vars

\* Every durable row gets out of "pending": it rings, is cancelled, or is
\* refused, through transient faults, closes, which must come to an end, and
\* restarts.
PendingResolves == \A t \in TimerId : rows[t] = "pending" ~> rows[t] # "pending"

\* engine.go 598: a disposed timer "never became truth".
DisposedNeverRang == \A i \in 1..Len(dead) : ~Rung(dead[i])
=============================================================================

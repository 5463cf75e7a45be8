------------------------------ MODULE Station ------------------------------
(***************************************************************************)
(* The way of a committed row to the body of one actor, and of the body's  *)
(* answer back: the delivery pump (platform/internal/tap), the mailbox and *)
(* the receive loop of one actorrt.Unit, and the engine of lib/actorbase   *)
(* with its serve ledger, work deque, reject lane and worker.              *)
(*                                                                         *)
(* Row i of the log is the i-th row addressed to the actor; its number is  *)
(* its id.  A row is delivered once: the pump is the only sender and never *)
(* goes back.  The clock is not kept: a deadline may pass at any moment.   *)
(* The other authors of terminals and their races are in Closure.          *)
(*                                                                         *)
(* `seen` is what the body was handed.  `lost` is what the code dropped    *)
(* and reported: a warning of the pump, an observation of the engine.      *)
(* `unsaid` is what it dropped without a word: the error of the lane's     *)
(* write and of an answer to describe is discarded.                        *)
(***************************************************************************)
EXTENDS Naturals, Sequences, FiniteSets, SequencesExt

CONSTANTS
    MaxRows,      \* rows committed in a behaviour
    Kinds,        \* the kinds of rows: "request", "describe", "event"
    ReadBatch,    \* readBatch of the pump
    MailboxCap,   \* UnitConfig.Mailbox
    QueueCap,     \* engine.queueCap: the ledger, the deque and the reject lane
    MaxEvent      \* failed reads, writes and starts, stops, bodies that return, abandoned joins

ASSUME StationAssumption ==
    /\ MaxRows \in Nat /\ MaxEvent \in Nat
    /\ Kinds \subseteq {"request", "describe", "event"}
    /\ ReadBatch \in Nat \ {0} /\ MailboxCap \in Nat \ {0} /\ QueueCap \in Nat \ {0}

VARIABLES
    log,        \* the kinds of the committed rows
    truth,      \* per row: the terminal the log has for it
    notify,     \* a commit whose Signal.Notify is still to come
    pump,       \* what the pump does, the end of its page, whether the page was full,
                \* whether the last read failed
    cursor,
    wake,       \* the pump's slot of the Signal
    unit,       \* Unit.state
    inbox,
    occupant,   \* engine.occupant
    serve,      \* serveLedger.entries
    work,       \* workDeque.items
    sig,        \* workDeque.sig
    reject,     \* rejectQ
    lane,       \* the reject lane: "off", "idle", "stopped", or "writing"
    refusing,   \* the request the lane is writing for
    worker,     \* the worker: "off", "recv", "parked", "handling", "writing", "done"
    hand,       \* the row in the worker's hands
    dying,      \* engine.dying holds a word
    seen,
    lost,
    unsaid,
    events

pumpVars   == <<pump, cursor, wake>>
engineVars == <<occupant, serve, work, sig, reject, lane, refusing, worker, hand, dying, seen>>
vars == <<log, truth, notify, pumpVars, unit, inbox, engineVars, lost, unsaid, events>>

Id        == 1 .. MaxRows
Asks(i)   == log[i] # "event"
Alive     == unit = "running"

\* The pump between pages, and at rest.
Reading        == [at |-> "reading", upto |-> 0, full |-> FALSE, failed |-> FALSE]
Parked(failed) == [Reading EXCEPT !.at = "parked", !.failed = failed]

TypeOK ==
    /\ log \in Seq(Kinds) /\ Len(log) <= MaxRows
    /\ truth \in [Id -> {"none", "answered", "overloaded"}]
    /\ notify \in BOOLEAN /\ wake \in BOOLEAN /\ sig \in BOOLEAN /\ dying \in BOOLEAN
    /\ pump \in [at : {"reading", "handling", "parked"}, upto : 0 .. MaxRows,
                  full : BOOLEAN, failed : BOOLEAN]
    /\ cursor \in 0 .. Len(log)
    /\ unit \in {"running", "stopping", "finishing", "done"}
    /\ occupant \in {"starting", "running", "draining", "dead"}
    /\ inbox \in Seq(Id) /\ Len(inbox) <= MailboxCap
    /\ serve \subseteq Id /\ Cardinality(serve) <= QueueCap
    /\ work \in Seq(Id) /\ Len(work) <= QueueCap
    /\ reject \in Seq(Id) /\ Len(reject) <= QueueCap
    /\ lane \in {"off", "idle", "writing", "stopped"} /\ refusing \in Id \cup {0}
    /\ worker \in {"off", "recv", "parked", "handling", "writing", "done"} /\ hand \in Id \cup {0}
    /\ seen \subseteq Id /\ lost \subseteq Id /\ unsaid \subseteq Id
    /\ events \in 0 .. MaxEvent

\* The home is open and the unit was started: MaxSeq is the cursor, 0 here.
Init ==
    /\ log = <<>> /\ truth = [i \in Id |-> "none"] /\ notify = FALSE
    /\ pump = Reading /\ cursor = 0 /\ wake = FALSE
    /\ unit = "running" /\ inbox = <<>>
    /\ occupant = "starting" /\ serve = {} /\ work = <<>> /\ sig = FALSE
    /\ reject = <<>> /\ lane = "off" /\ refusing = 0
    /\ worker = "off" /\ hand = 0 /\ dying = FALSE
    /\ seen = {} /\ lost = {} /\ unsaid = {} /\ events = 0

Event == events < MaxEvent /\ events' = events + 1

-----------------------------------------------------------------------------
\* The log.

\* A row is committed; the signal is fired after the commit.
Commit(kind) ==
    /\ Len(log) < MaxRows /\ log' = Append(log, kind) /\ notify' = TRUE
    /\ UNCHANGED <<truth, pumpVars, unit, inbox, engineVars, lost, unsaid, events>>

Notify ==
    /\ notify /\ notify' = FALSE /\ wake' = TRUE
    /\ UNCHANGED <<log, truth, pump, cursor, unit, inbox, engineVars, lost, unsaid, events>>

\* The first terminal stays; a duplicate is absorbed.
Land(i, word) ==
    truth' = IF truth[i] = "none" THEN [truth EXCEPT ![i] = word] ELSE truth

\* The store refuses the write, or its context is cancelled.
WriteFails == IF Alive THEN Event ELSE events' = events

-----------------------------------------------------------------------------
\* The delivery pump.

PumpRead ==
    LET end == IF cursor + ReadBatch < Len(log) THEN cursor + ReadBatch ELSE Len(log)
    IN  /\ pump.at = "reading"
        /\ pump' = IF end = cursor THEN Parked(FALSE)
                   ELSE [at |-> "handling", upto |-> end, full |-> end - cursor = ReadBatch,
                         failed |-> FALSE]
        /\ UNCHANGED <<log, truth, notify, cursor, wake, unit, inbox, engineVars, lost, unsaid, events>>

\* A failed read leaves the cursor where it is and waits for the next signal.
PumpReadFails ==
    /\ pump.at = "reading" /\ Event
    /\ pump' = Parked(TRUE)
    /\ UNCHANGED <<log, truth, notify, cursor, wake, unit, inbox, engineVars, lost, unsaid>>

\* Variant: every page is taken for the last one.
AfterPageParks(full) == Parked(FALSE)

\* A short page ends the drain.
AfterPage(full) == IF full THEN Reading ELSE Parked(FALSE)

\* Unit.Deliver: refused when admission is closed or the mailbox is full.
Deliver(i) ==
    IF Alive /\ Len(inbox) < MailboxCap
    THEN inbox' = Append(inbox, i) /\ lost' = lost
    ELSE inbox' = inbox /\ lost' = lost \cup {i}

\* handle never fails, so the cursor goes on whatever became of the row.
PumpHandle ==
    /\ pump.at = "handling"
    /\ Deliver(cursor + 1) /\ cursor' = cursor + 1
    /\ pump' = IF cursor' < pump.upto THEN pump ELSE AfterPage(pump.full)
    /\ UNCHANGED <<log, truth, notify, wake, unit, engineVars, unsaid, events>>

PumpWakes ==
    /\ pump.at = "parked" /\ wake
    /\ wake' = FALSE /\ pump' = Reading
    /\ UNCHANGED <<log, truth, notify, cursor, unit, inbox, engineVars, lost, unsaid, events>>

-----------------------------------------------------------------------------
\* The unit's receive loop.

Looping == unit \in {"running", "stopping"}

\* engine.Start mints the Proc and launches the worker and the reject lane.
Start ==
    /\ Looping /\ occupant = "starting"
    /\ occupant' = "running" /\ worker' = "recv" /\ lane' = "idle"
    /\ UNCHANGED <<log, truth, notify, pumpVars, unit, inbox, serve, work, sig, reject, refusing,
                   hand, dying, seen, lost, unsaid, events>>

\* Variant: the oldest item makes room, whatever it is.
PushEvicting(i) ==
    IF Len(work) < QueueCap THEN [items |-> Append(work, i), dropped |-> 0]
    ELSE [items |-> Append(Tail(work), i), dropped |-> Head(work)]

\* workDeque.push: a full deque drops its oldest event, or refuses the newcomer.
Push(i) ==
    LET k == SelectInSeq(work, LAMBDA j : ~Asks(j))
    IN  IF Len(work) < QueueCap THEN [items |-> Append(work, i), dropped |-> 0]
        ELSE IF k # 0 THEN [items |-> Append(RemoveAt(work, k), i), dropped |-> work[k]]
        ELSE [items |-> work, dropped |-> i]

\* offerReject: a full lane drops the request.
OfferReject(i) ==
    IF Len(reject) < QueueCap
    THEN reject' = Append(reject, i) /\ lost' = lost
    ELSE reject' = reject /\ lost' = lost \cup {i}

Enqueue(i) ==
    LET p == Push(i)
    IN  work' = p.items /\ sig' = (sig \/ p.dropped # i)

\* Variant: whatever was dropped, the newcomer is rejected.
SeatRejected(i) ==
    /\ Enqueue(i)
    /\ serve' = IF Push(i).dropped = i THEN serve ELSE serve \cup {i}
    /\ IF Push(i).dropped # 0 THEN OfferReject(i) ELSE reject' = reject /\ lost' = lost

\* An admitted request is queued, or its account is closed and it is rejected.
Seat(i) ==
    /\ Enqueue(i)
    /\ IF Push(i).dropped = i THEN serve' = serve /\ OfferReject(i)
       ELSE /\ serve' = serve \cup {i} /\ reject' = reject
            /\ lost' = lost \cup ({Push(i).dropped} \ {0})

\* describe is answered on the loop itself, and the outcome is discarded: the pen
\* refuses or the write fails, and the account stays open; or the deadline passes
\* while the manifest is read, and the gate finds the account closed.
RespondManifest(i) ==
    /\ \/ Alive /\ Land(i, "answered") /\ UNCHANGED <<serve, unsaid, events>>
       \/ WriteFails /\ serve' = serve \cup {i} /\ unsaid' = unsaid \cup {i} /\ truth' = truth
       \/ unsaid' = unsaid \cup {i} /\ UNCHANGED <<truth, serve, events>>
    /\ UNCHANGED <<work, sig, reject, lost>>

Receive(i) ==
    IF ~Asks(i)
    THEN Enqueue(i) /\ lost' = lost \cup ({Push(i).dropped} \ {0}) /\ UNCHANGED <<truth, serve, reject, unsaid, events>>
    ELSE IF occupant # "running" \/ Cardinality(serve) >= QueueCap
    THEN OfferReject(i) /\ UNCHANGED <<truth, serve, work, sig, unsaid, events>>
    ELSE IF log[i] = "describe" THEN RespondManifest(i)
    ELSE Seat(i) /\ UNCHANGED <<truth, unsaid, events>>

LoopReceives ==
    /\ Looping /\ occupant # "starting" /\ inbox # <<>>
    /\ inbox' = Tail(inbox) /\ Receive(Head(inbox))
    /\ UNCHANGED <<log, notify, pumpVars, unit, occupant, lane, refusing, worker, hand, dying,
                   seen>>

\* The loop is over: admission is closed, and the engine is draining if it ever ran.
Finish ==
    /\ unit' = "finishing"
    /\ occupant' = IF occupant = "starting" THEN occupant ELSE "draining"

\* def.New fails: the worker never runs.
StartFails ==
    /\ Looping /\ occupant = "starting" /\ Event /\ Finish
    /\ UNCHANGED <<log, truth, notify, pumpVars, inbox, serve, work, sig, reject, lane, refusing,
                   worker, hand, dying, seen, lost, unsaid>>

\* Unit.Stop: admission is closed and the life context cancelled.
Stop ==
    /\ unit = "running" /\ Event
    /\ unit' = "stopping"
    /\ UNCHANGED <<log, truth, notify, pumpVars, inbox, engineVars, lost, unsaid>>

\* The loop ends on the cancelled context or on the worker's death.
LoopEnds ==
    /\ Looping /\ occupant # "starting" /\ (unit = "stopping" \/ dying)
    /\ Finish /\ dying' = FALSE
    /\ UNCHANGED <<log, truth, notify, pumpVars, inbox, serve, work, sig, reject, lane, refusing,
                   worker, hand, seen, lost, unsaid, events>>

Joined == occupant = "starting" \/ (worker = "done" /\ lane = "stopped")

\* Variant: rejectStop is closed after the join it is to end.
LaneMayStopLate == unit = "done" /\ lane = "idle" /\ worker = "done"

\* engine.Stop closes rejectStop once the worker is gone, also after it gave up.
LaneMayStop == unit \in {"finishing", "done"} /\ lane = "idle" /\ worker = "done"

LaneStops ==
    /\ LaneMayStop /\ lane' = "stopped"
    /\ UNCHANGED <<log, truth, notify, pumpVars, unit, inbox, occupant, serve, work, sig, reject,
                   refusing, worker, hand, dying, seen, lost, unsaid, events>>

Done ==
    /\ unit = "finishing"
    /\ unit' = "done" /\ occupant' = "dead"
    /\ UNCHANGED <<log, truth, notify, pumpVars, inbox, serve, work, sig, reject, lane, refusing,
                   worker, hand, dying, seen, lost, unsaid>>

StopReturns == Joined /\ Done /\ events' = events

\* The budget of engine.Stop is over before its joins are.
StopAbandons == ~Joined /\ Event /\ Done

-----------------------------------------------------------------------------
\* The serve ledger, the reject lane and the worker.

\* The deadline passes, or a cancel arrives: the account is closed, nothing is written.
CloseAccount(i) ==
    /\ i \in serve /\ unit # "done"
    /\ serve' = serve \ {i}
    /\ UNCHANGED <<log, truth, notify, pumpVars, unit, inbox, occupant, work, sig, reject, lane,
                   refusing, worker, hand, dying, seen, lost, unsaid, events>>

\* The pen lets a live incarnation write; a write that it refuses is over.
LaneTakes ==
    /\ lane = "idle" /\ reject # <<>>
    /\ reject' = Tail(reject)
    /\ IF Alive THEN lane' = "writing" /\ refusing' = Head(reject) ELSE UNCHANGED <<lane, refusing>>
    /\ UNCHANGED <<log, truth, notify, pumpVars, unit, inbox, occupant, serve, work, sig, worker,
                   hand, dying, seen, lost, unsaid, events>>

LaneLands ==
    /\ lane = "writing" /\ Land(refusing, "overloaded")
    /\ lane' = "idle" /\ refusing' = 0
    /\ UNCHANGED <<log, notify, pumpVars, unit, inbox, occupant, serve, work, sig, reject, worker,
                   hand, dying, seen, lost, unsaid, events>>

\* writeOverloaded discards the error of its write.
LaneFails ==
    /\ lane = "writing" /\ WriteFails
    /\ lane' = "idle" /\ refusing' = 0 /\ unsaid' = unsaid \cup {refusing}
    /\ UNCHANGED <<log, truth, notify, pumpVars, unit, inbox, occupant, serve, work, sig, reject,
                   worker, hand, dying, seen, lost>>

\* projectWork: a request without an account is skipped, and reported.
Take(i) ==
    /\ work' = Tail(work)
    /\ IF log[i] = "request" /\ i \notin serve
       THEN worker' = "recv" /\ lost' = lost \cup {i} /\ UNCHANGED <<hand, seen>>
       ELSE worker' = "handling" /\ hand' = i /\ seen' = seen \cup {i} /\ lost' = lost

Recv ==
    /\ worker = "recv"
    /\ IF work # <<>> THEN Take(Head(work))
       ELSE worker' = "parked" /\ UNCHANGED <<work, hand, seen, lost>>
    /\ UNCHANGED <<log, truth, notify, pumpVars, unit, inbox, occupant, serve, sig, reject, lane,
                   refusing, dying, unsaid, events>>

RecvWakes ==
    /\ worker = "parked" /\ sig
    /\ worker' = "recv" /\ sig' = FALSE
    /\ UNCHANGED <<log, truth, notify, pumpVars, unit, inbox, occupant, serve, work, reject, lane,
                   refusing, hand, dying, seen, lost, unsaid, events>>

\* The Proc has returned: no more admissions, then the death is announced.
Exit ==
    /\ worker' = "done" /\ hand' = 0 /\ dying' = TRUE /\ occupant' = "draining"
    /\ UNCHANGED <<work, seen, lost>>

\* The life context is done: one last look, then ErrRecvDone ends the Proc.
RecvDone ==
    /\ worker = "parked" /\ ~Alive
    /\ IF work # <<>> THEN Take(Head(work)) /\ UNCHANGED <<dying, occupant>> ELSE Exit
    /\ UNCHANGED <<log, truth, notify, pumpVars, unit, inbox, serve, sig, reject, lane, refusing,
                   unsaid, events>>

\* The body returns or panics with the row in its hands.
BodyReturns ==
    /\ worker = "handling" /\ Event /\ Exit
    /\ UNCHANGED <<log, truth, notify, pumpVars, unit, inbox, serve, sig, reject, lane, refusing,
                   unsaid>>

\* The body answers each request once.  terminalGate: the row in hand is answered
\* while its account is open, an earlier one from the log, where the harness judges.
MayAnswer(i) == i \in seen /\ Asks(i) /\ truth[i] = "none" /\ (i = hand => i \in serve)

\* Reply, Fail: the gate, then the pen, which wants a live incarnation.
Answer(i) ==
    /\ worker = "handling" /\ MayAnswer(i) /\ Alive
    /\ worker' = "writing" /\ hand' = i
    /\ UNCHANGED <<log, truth, notify, pumpVars, unit, inbox, occupant, serve, work, sig, reject,
                   lane, refusing, dying, seen, lost, unsaid, events>>

\* The terminal is in the log, this one or another; the account is closed.
AnswerLands ==
    /\ worker = "writing" /\ Land(hand, "answered")
    /\ serve' = serve \ {hand} /\ worker' = "handling"
    /\ UNCHANGED <<log, notify, pumpVars, unit, inbox, occupant, work, sig, reject, lane, refusing,
                   hand, dying, seen, lost, unsaid, events>>

\* The write failed: the body has the error, the account stays open.
AnswerFails ==
    /\ worker = "writing" /\ WriteFails /\ worker' = "handling"
    /\ UNCHANGED <<log, truth, notify, pumpVars, unit, inbox, occupant, serve, work, sig, reject,
                   lane, refusing, hand, dying, seen, lost, unsaid>>

\* The handler is done with the row, answered or kept for later.
HandlerReturns ==
    /\ worker = "handling"
    /\ worker' = "recv" /\ hand' = 0
    /\ UNCHANGED <<log, truth, notify, pumpVars, unit, inbox, occupant, serve, work, sig, reject,
                   lane, refusing, dying, seen, lost, unsaid, events>>

-----------------------------------------------------------------------------
Next ==
    \/ \E kind \in Kinds : Commit(kind)
    \/ \E i \in Id : CloseAccount(i) \/ Answer(i)
    \/ Notify \/ PumpRead \/ PumpReadFails \/ PumpHandle \/ PumpWakes
    \/ Start \/ StartFails \/ Stop \/ LoopReceives \/ LoopEnds
    \/ LaneTakes \/ LaneLands \/ LaneFails \/ LaneStops \/ StopReturns \/ StopAbandons
    \/ Recv \/ RecvWakes \/ RecvDone \/ BodyReturns \/ AnswerLands \/ AnswerFails
    \/ HandlerReturns

Spec == Init /\ [][Next]_vars

\* Every goroutine of the path is scheduled, store calls return, and so do handlers.
LiveSpec ==
    /\ Spec
    /\ WF_vars(Notify) /\ WF_vars(PumpRead \/ PumpReadFails) /\ WF_vars(PumpHandle)
    /\ WF_vars(PumpWakes)
    /\ WF_vars(Start \/ StartFails) /\ WF_vars(LoopReceives \/ LoopEnds)
    /\ WF_vars(LaneTakes \/ LaneLands \/ LaneFails \/ LaneStops) /\ WF_vars(StopReturns)
    /\ WF_vars(Recv) /\ WF_vars(RecvWakes \/ RecvDone) /\ WF_vars(AnswerLands \/ AnswerFails)
    /\ WF_vars(HandlerReturns)

-----------------------------------------------------------------------------
\* An account that is open belongs to a request that waits in the deque or was
\* handed to the body: no flood of events and no full deque leaves an account
\* behind that nobody will ever serve; the queues keep to their capacities.
AccountHasHolder ==
    /\ TypeOK
    /\ \A i \in serve : log[i] = "request" => i \in ToSet(work) \cup seen

\* "In-station account full; request rejected without admission": a request that
\* is closed as overloaded was never handed to the body.
HonestOverload == \A i \in Id : truth[i] = "overloaded" => i \notin seen

\* A committed row is handed to the body, or it is closed in the log, or its loss
\* was reported, as long as the unit runs.  The exceptions are the code's own: a
\* read that failed leaves the row to the next commit, and the discarded outcomes
\* in `unsaid` leave a request to its caller's deadline.
NothingSilentlyLost ==
    \A i \in Id : (i \in DOMAIN log) ~>
        \/ i \in seen \cup lost \cup unsaid \/ truth[i] # "none"
        \/ unit # "running" \/ pump.failed

\* A unit that is to stop is done in the end, whatever its worker and its queues
\* were doing.
StopEnds == (unit = "stopping") ~> (unit = "done")
=============================================================================

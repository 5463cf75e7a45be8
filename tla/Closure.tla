------------------------------- MODULE Closure -------------------------------
(***************************************************************************)
(* How a request gets its one terminal.  The harness chain that every      *)
(* write passes (runtime/harness), the three kinds of closure authors (the *)
(* receiver, the caller's out-station account of lib/actorbase, the home's *)
(* reconcile sweep of platform/home) and the roster they depend on, over   *)
(* the log of MessageLog.                                                  *)
(*                                                                         *)
(* A write is two steps: the pen's admission with the checks that read the *)
(* log and the roster, and later the transaction of Append.  Other writes, *)
(* the roster and the clock move in between.  What the first step reads    *)
(* only ever turns against the write (members leave, terminals stay), so a *)
(* write that passes one read after another passes them all at the first.  *)
(* Any member may offer any reply word for any request in the log; which   *)
(* are taken is the chain's work.                                          *)
(***************************************************************************)
EXTENDS MessageLog

CONSTANTS
    Pen,        \* member writes that can be in flight at once; positive numbers
    Caller,     \* the members that make requests
    Client,     \* client fingerprints; none when no shell submits
    Spans,      \* request windows, expires_at - ts
    Batch,      \* expirySweepBatch
    MaxNow,     \* where the clock stops
    MaxProgress,\* provisional responses per request
    MaxEvent    \* store faults, members that leave and process restarts

ASSUME ClosureAssumption ==
    /\ Pen \subseteq Nat \ {0}
    /\ Caller \subseteq Actor
    /\ Client \subseteq Nat \ {0}
    /\ Spans \subseteq Nat \ {0}
    /\ Batch \in Nat \ {0}
    /\ MaxNow \in Nat /\ MaxProgress \in Nat /\ MaxEvent \in Nat

VARIABLES
    now,
    member,     \* active identities
    asked,      \* per request id: who asks whom, with which window
    log,
    pen,        \* per pen: the write in flight
    account,    \* per request: the caller's out-station entry
    sweep,      \* the reconcile sweep
    events

vars == <<now, member, asked, log, pen, account, sweep, events>>

SystemPen == 0
Pens      == Pen \cup {SystemPen}

NoAsk     == [from |-> System, to |-> System, span |-> 0, client |-> FALSE]
NoWrite   == [step |-> "idle", req |-> 0, word |-> "ask", author |-> System, ts |-> 0, fp |-> 0]
NoAccount == [st |-> "none", due |-> 0, seen |-> 0]
Resting   == [at |-> "idle", receivers |-> {}, todo |-> {}, cursor |-> Top]

Party == Actor \cup {System}

Init ==
    /\ now = 0 /\ member = Actor
    /\ asked = [r \in Req |-> NoAsk] /\ log = <<>>
    /\ pen = [p \in Pens |-> NoWrite]
    /\ account = [r \in Req |-> NoAccount]
    /\ sweep = Resting
    /\ events = 0

-----------------------------------------------------------------------------
\* The chain.

First(S) == {x \in S : \A y \in S : x <= y}

\* A terminal's own ts is never read again.
Write(r, word, author, fp) ==
    [step |-> "checked", req |-> r, word |-> word, author |-> author,
     ts |-> IF word \in FinalWords THEN 0 ELSE now, fp |-> fp]

\* ts_received is read of the substrate's own terminals only.
RowOf(w) == [req |-> w.req, word |-> w.word, author |-> w.author, ts |-> w.ts,
             received |-> IF w.author = System THEN now ELSE 0, fp |-> w.fp]

\* The four arms of response pairing: each word has the authors that hold its fact.
Authorised(w) ==
    LET a == asked[w.req]
    IN  \/ w.author = a.to /\ w.word \in {"completed", "progress", "internal_error"}
        \/ w.author = a.from /\ w.word = "timeout"
        \/ w.author = System /\ w.word \in {"unavailable", "timeout"}

\* The steps that read: receiver gate for a request, pairing for a response.
Passes(w) ==
    IF w.word = "ask" THEN asked'[w.req].to \in member
    ELSE FindByID(log, w.req) /\ Authorised(w) /\ ~HasFinalResponse(log, w.req)

\* The pen admits its author, the envelope has its ts, the checks pass.
Begin(p, w) ==
    /\ p \in First({q \in Pen : pen[q] = NoWrite})
    /\ w.author \in member /\ Passes(w)
    /\ pen' = [pen EXCEPT ![p] = w]

\* Where a write goes when it is over: a request's result is still to be
\* taken by submit, everything else ends here.
Over(w, outcome) == IF w.word = "ask" THEN [w EXCEPT !.step = outcome] ELSE NoWrite

AppendRow(p) ==
    LET row == RowOf(pen[p])
    IN  /\ pen[p].step = "checked"
        /\ log' = IF Refused(log, row) THEN log ELSE Append(log, row)
        /\ pen' = [pen EXCEPT ![p] = Over(@, IF Refused(log, row) /\ ~Replayed(log, row)
                                             THEN "refused" ELSE "landed")]
        /\ UNCHANGED <<now, member, asked, account, sweep, events>>

\* The store reports an error; the row may have been committed all the same.
AppendFails(p) ==
    LET row == RowOf(pen[p])
    IN  /\ pen[p].step = "checked" /\ events < MaxEvent
        /\ log' \in {log} \cup (IF Refused(log, row) THEN {} ELSE {Append(log, row)})
        /\ pen' = [pen EXCEPT ![p] = Over(@, "refused")]
        /\ events' = events + 1
        /\ UNCHANGED <<now, member, asked, account, sweep>>

-----------------------------------------------------------------------------
\* Requests and the caller's account.

Fresh(r) == asked[r] = NoAsk /\ \A q \in Req : q < r => asked[q] # NoAsk

Ask(r, from, to, client) ==
    /\ Fresh(r)
    /\ \E s \in Spans :
          /\ now + s <= MaxNow
          /\ asked' = [asked EXCEPT ![r] = [from |-> from, to |-> to, span |-> s, client |-> client]]

\* submit: the account is opened before the write, so no answer can miss it.
Submit(p, r, from, to) ==
    /\ from # to /\ Ask(r, from, to, FALSE)
    /\ Begin(p, Write(r, "ask", from, 0))
    /\ account' = [account EXCEPT ![r] = [st |-> "registered", due |-> 0, seen |-> 0]]
    /\ UNCHANGED <<now, member, log, sweep, events>>

\* Post: a request without an account, under a client's id and fingerprint.
Post(p, r, from, to) ==
    /\ Ask(r, from, to, TRUE)
    /\ \E fp \in First(Client) : Begin(p, Write(r, "ask", from, fp))
    /\ UNCHANGED <<now, member, log, account, sweep, events>>

\* The client sends the same id again, with the same content or with another.
PostAgain(p, r, fp) ==
    /\ asked[r].client /\ now + asked[r].span <= MaxNow
    /\ UNCHANGED asked
    /\ Begin(p, Write(r, "ask", asked[r].from, fp))
    /\ UNCHANGED <<now, member, log, account, sweep, events>>

\* arm: an entry that is gone stays gone, one that holds its final keeps it.
Arm(r) ==
    IF account[r].st # "registered" THEN account
    ELSE [account EXCEPT ![r] = [st |-> "armed", due |-> now + asked[r].span, seen |-> @.seen]]

Returned(p, r, step) ==
    /\ pen[p].step = step /\ pen[p].req = r
    /\ pen' = [pen EXCEPT ![p] = NoWrite]
    /\ UNCHANGED <<now, member, asked, log, sweep, events>>

\* submit goes on: arm the timer of a request that landed, or forget it.
SubmitLands(p, r) == Returned(p, r, "landed") /\ account' = Arm(r)

SubmitForgets(p, r) == Returned(p, r, "refused") /\ account' = [account EXCEPT ![r] = NoAccount]

\* The responses of r in log order, past those the caller has seen.
Unseen(r) ==
    {i \in DOMAIN log : log[i].req = r /\ log[i].word # "ask" /\ i > account[r].seen}

\* match: the caller's body is handed the next response.  A provisional restarts
\* the timer, unless it is already firing; a final is buffered and disarms it.
Match(r) ==
    /\ account[r].st \in {"registered", "armed"}
    /\ \E i \in First(Unseen(r)) :
          LET a == account[r]
              restarted == now + asked[r].span
          IN  IF log[i].word \in FinalWords
              THEN account' = [account EXCEPT ![r] = [st |-> "final", due |-> 0, seen |-> i]]
              ELSE \E due \in IF a.st = "registered" THEN {a.due}
                              ELSE IF a.due <= now THEN {a.due, restarted} ELSE {restarted} :
                      account' = [account EXCEPT ![r] = [st |-> a.st, due |-> due, seen |-> i]]
    /\ UNCHANGED <<now, member, asked, log, pen, sweep, events>>

\* fireTimeout: the entry is dropped first, then the caller closes for itself.
\* Its pen may refuse: it has left, or the request is closed or not there yet.
SelfClose(p, r) ==
    LET w == Write(r, "timeout", asked[r].from, 0)
    IN  /\ account' = [account EXCEPT ![r] = NoAccount]
        /\ IF w.author \in member /\ Passes(w) THEN Begin(p, w) ELSE UNCHANGED pen
        /\ UNCHANGED <<now, member, asked, log, sweep, events>>

FireTimeout(p, r) == account[r].st = "armed" /\ account[r].due <= now /\ SelfClose(p, r)

CancelCall(p, r) == account[r].st \in {"registered", "armed"} /\ SelfClose(p, r)

\* wait takes the buffered final and the entry with it.
Consume(r) ==
    /\ account[r].st = "final"
    /\ account' = [account EXCEPT ![r] = NoAccount]
    /\ UNCHANGED <<now, member, asked, log, pen, sweep, events>>

-----------------------------------------------------------------------------
\* Replies, by anybody.

Progressed(r) == {i \in DOMAIN log : log[i].req = r /\ log[i].word = "progress"}

Reply(p, r, word, author) ==
    /\ FindByID(log, r)
    /\ word = "progress" => /\ Cardinality(Progressed(r)) < MaxProgress
                            /\ now + asked[r].span <= MaxNow
    /\ Begin(p, Write(r, word, author, 0))
    /\ UNCHANGED <<now, member, asked, log, account, sweep, events>>

-----------------------------------------------------------------------------
\* The reconcile sweep: closure first, then expiry, with the system pen.

SystemIdle == pen[SystemPen] = NoWrite

\* A read of the store or of the roster answers, or fails and is a fault.
Query(ok) ==
    /\ ok \/ events < MaxEvent
    /\ events' = IF ok THEN events ELSE events + 1

\* Variant: only receivers that are members are looked at.
OpenMembers == {asked[r].to : r \in {q \in Req : Open(log, q)}} \cap member

OpenReceivers == {asked[r].to : r \in {q \in Req : Open(log, q)}}

\* reconcileClosure reads the receivers; without them its half of the sweep is over.
SweepStart ==
    /\ sweep.at = "idle"
    /\ \E ok \in BOOLEAN :
          /\ Query(ok)
          /\ sweep' = [sweep EXCEPT !.at = "closure", !.receivers = IF ok THEN OpenReceivers ELSE {}]
    /\ UNCHANGED <<now, member, asked, log, pen, account>>

\* ClosedForever: only a positive answer closes.
Gone(x, known) == known /\ x \notin member

\* One receiver of the scan: the roster is asked, its open requests are read;
\* when either fails the receiver is left for the next sweep.
ClosureOf(x) ==
    /\ sweep.at = "closure" /\ sweep.todo = {} /\ SystemIdle /\ x \in sweep.receivers
    /\ \E known \in BOOLEAN :
          /\ Query(known)
          /\ sweep' = [sweep EXCEPT
                          !.receivers = @ \ {x},
                          !.todo = IF Gone(x, known)
                                   THEN {r \in Req : Open(log, r) /\ asked[r].to = x} ELSE {}]
    /\ UNCHANGED <<now, member, asked, log, pen, account>>

\* sweepExpired reads one batch, or leaves its cursor where it was.
ExpiryScan ==
    LET spans == [r \in Req |-> asked[r].span]
        batch == ExpiredOpenRequests(log, spans, now, sweep.cursor, Batch)
    IN  /\ sweep.at = "closure" /\ sweep.todo = {} /\ sweep.receivers = {} /\ SystemIdle
        /\ \E ok \in BOOLEAN :
              /\ Query(ok)
              /\ sweep' = IF ok THEN [sweep EXCEPT !.at = "expiry", !.todo = batch,
                                           !.cursor = NextCursor(log, spans, @, batch, Batch)]
                          ELSE [sweep EXCEPT !.at = "expiry"]
        /\ UNCHANGED <<now, member, asked, log, pen, account>>

\* Both halves write their terminals one by one, from what they read.
SweepWrite(r) ==
    LET w == Write(r, IF sweep.at = "closure" THEN "unavailable" ELSE "timeout", System, 0)
    IN  /\ r \in sweep.todo /\ SystemIdle
        /\ pen' = IF Passes(w) THEN [pen EXCEPT ![SystemPen] = w] ELSE pen
        /\ sweep' = [sweep EXCEPT !.todo = @ \ {r}]
        /\ UNCHANGED <<now, member, asked, log, account, events>>

SweepEnd ==
    /\ sweep.at = "expiry" /\ sweep.todo = {} /\ SystemIdle
    /\ sweep' = [sweep EXCEPT !.at = "idle"]
    /\ UNCHANGED <<now, member, asked, log, pen, account, events>>

-----------------------------------------------------------------------------
\* The rest of the world.

Tick ==
    /\ now < MaxNow /\ now' = now + 1
    /\ UNCHANGED <<member, asked, log, pen, account, sweep, events>>

\* An id that leaves the roster never comes back.
Leave(a) ==
    /\ a \in member /\ events < MaxEvent
    /\ member' = member \ {a} /\ events' = events + 1
    /\ UNCHANGED <<now, asked, log, pen, account, sweep>>

\* The process ends and starts again: the log and the roster are what is left.
Crash ==
    /\ events < MaxEvent /\ events' = events + 1
    /\ pen' = [p \in Pens |-> NoWrite]
    /\ account' = [r \in Req |-> NoAccount]
    /\ sweep' = Resting
    /\ UNCHANGED <<now, member, asked, log>>

-----------------------------------------------------------------------------
Next ==
    \/ \E p \in Pens : AppendRow(p) \/ AppendFails(p)
    \/ \E p \in Pen, r \in Req, x \in Caller, y \in Actor : Submit(p, r, x, y) \/ Post(p, r, x, y)
    \/ \E p \in Pen, r \in Req : SubmitLands(p, r) \/ SubmitForgets(p, r)
    \/ \E p \in Pen, r \in Req : FireTimeout(p, r) \/ CancelCall(p, r)
    \/ \E p \in Pen, r \in Req, fp \in Client : PostAgain(p, r, fp)
    \/ \E p \in Pen, r \in Req, word \in ReplyWords, x \in Actor : Reply(p, r, word, x)
    \/ \E r \in Req : Match(r) \/ Consume(r) \/ SweepWrite(r)
    \/ \E x \in Actor : ClosureOf(x) \/ Leave(x)
    \/ SweepStart \/ ExpiryScan \/ SweepEnd \/ Tick \/ Crash

Spec == Init /\ [][Next]_vars

\* The sweep has a ticker and its writes return.  Nothing is assumed of members.
SweepFairness ==
    /\ WF_vars(SweepStart) /\ WF_vars(ExpiryScan) /\ WF_vars(SweepEnd)
    /\ WF_vars(\E x \in Actor : ClosureOf(x))
    /\ WF_vars(\E r \in Req : SweepWrite(r))
    /\ WF_vars(AppendRow(SystemPen) \/ AppendFails(SystemPen))

LiveSpec == Spec /\ SweepFairness

-----------------------------------------------------------------------------
\* A request's terminal is its last row: no second terminal and no progress after
\* it, whichever authors raced between the pairing step and the append.
TerminalIsLast ==
    \A i, j \in DOMAIN log : i < j /\ log[i].req = log[j].req => log[i].word \notin FinalWords

\* "A false close is impossible by construction": a terminal that says the receiver
\* is unavailable was written by the substrate for a receiver that has left.
HonestDeath ==
    \A i \in DOMAIN log : log[i].word = "unavailable" =>
        log[i].author = System /\ asked[log[i].req].to \notin member

\* The reaper never closes a request before the deadline it declared.
HonestDeadline ==
    \A i \in DOMAIN log : log[i].word = "timeout" /\ log[i].author = System =>
        LET r == log[i].req
        IN  log[AskOf(log, r)].ts + asked[r].span <= log[i].received

\* A client whose request is accepted finds its own content under its id, also
\* when the acceptance is the replay of an earlier attempt.
AcceptedIsStored ==
    \A p \in Pen : pen[p].step = "landed" =>
        \E i \in DOMAIN log :
            log[i].req = pen[p].req /\ log[i].word = "ask" /\ log[i].fp = pen[p].fp

\* A final the caller was handed is the terminal of its request, and stays in its
\* account: arming the timer, the timer itself, a cancel and a late response leave it
\* alone.  Only wait takes it, or the caller is told of the failure of the request
\* itself, or the process ends.
FinalIsKept ==
    /\ [](\A r \in Req : account[r].st = "final" =>
            /\ account[r].seen \in DOMAIN log
            /\ log[account[r].seen].req = r /\ log[account[r].seen].word \in FinalWords)
    /\ [][\A r \in Req : account[r].st = "final" =>
            \/ account'[r] = account[r]
            \/ Consume(r) \/ (\E p \in Pen : SubmitForgets(p, r)) \/ Crash]_vars

\* "A turn that keeps reporting progress never times out": when the reaper closes
\* a request, its window has elapsed since every response that is in the log.
SlidingDeadline ==
    \A i, j \in DOMAIN log :
        /\ i < j /\ log[i].req = log[j].req
        /\ log[j].word = "timeout" /\ log[j].author = System
        => log[i].ts + asked[log[i].req].span <= log[j].received

\* Every request in the log gets a terminal, whoever crashed, left or went silent.
EveryRequestCloses ==
    WF_vars(Tick) => \A r \in Req : FindByID(log, r) ~> HasFinalResponse(log, r)

\* A request whose receiver is gone is closed without waiting for its deadline,
\* also when the receiver left while the request was on its way into the log.
OrphanCloses ==
    \A r \in Req : (FindByID(log, r) /\ asked[r].to \notin member) ~> HasFinalResponse(log, r)
=============================================================================

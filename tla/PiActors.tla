------------------------------ MODULE PiActors ------------------------------
(***************************************************************************)
(* The two actors that use the Pi bridge, composed with it.                *)
(*                                                                         *)
(* pi-workspace queues requests for a fixed number of workers and keeps    *)
(* one child per branch session in a pool; an unused child is closed after *)
(* an idle delay ("idle") or at once ("eager").  pi-llm ("llm") has one    *)
(* child, runs requests up to a limit, retries a request its provider      *)
(* refused for a while, and tells the channel it is alive meanwhile.       *)
(*                                                                         *)
(* A behaviour is the life of one actor, of the kind chosen in Init.  The  *)
(* requests of pi-workspace are of one session: sessions share nothing but *)
(* the pool's mutex and the workers.                                       *)
(***************************************************************************)
EXTENDS PiBridge, PiVerdict

CONSTANTS
    Kinds,        \* the actors to consider, of "idle", "eager", "llm"
    Req,          \* the requests
    MaxConcurrency, QueueCapacity, MaxRetries,
    MaxEvent      \* bound, by kind of actor, on what the world does: cancellations,
                  \* updates, crashes, broken streams, failed starts, the stop

\* A request has its own calls, one per attempt; the requests are finitely many,
\* for inflight counts them.
ASSUME PiAssumption ==
    /\ Call = Req \X (1 .. MaxRetries + 1) /\ IsFiniteSet(Req)
    /\ NoBridge \notin Bridge /\ Launch \notin Call
    /\ Verdict \subseteq AllVerdicts /\ Kinds \subseteq {"idle", "eager", "llm"}
    /\ {MaxConcurrency, MaxRetries} \subseteq Nat /\ MaxEvent \in [Kinds -> Nat]

VARIABLES
    kind,
    life,        \* the actor: "starting", "serving", "closing", "gone"
    phase,       \* where a request is in its handler
    reply,       \* the terminal decided for it
    said,        \* the last thing posted for it: "terminal", or "progress" or nothing
    attempt,     \* attempts of a model call
    beat,        \* its heartbeat goroutine is running
    jobs,        \* the channel jobs
    admitted,    \* the number of tokens in the channel admitted
    entry,       \* the bridge of the session's bridgeEntry, or pi-llm's bridge
    inflight, generation,  \* of the entry
    timer,       \* the generation the entry's idle timer is armed for, or 0
    expiring,    \* expire calls that wait for the pool's mutex
    closed,      \* the pool is closed
    shut,        \* the bridge the actor's own Close waits for
    events

reqVars == <<phase, reply, said, attempt, beat>>
queueVars == <<jobs, admitted>>
poolVars == <<entry, inflight, generation, timer, expiring, closed>>
actorVars == <<kind, life, shut, events>>
vars == <<bridgeVars, reqVars, queueVars, poolVars, actorVars>>

CallOf(r, n) == <<r, n>>
TheCall(r) == CallOf(r, attempt[r])
Cancelled(r) == ctx[CallOf(r, 1)]
Busy == {r \in Req : phase[r] \notin {"new", "queued", "ended"}}
Workspace == kind \in {"idle", "eager"}

Init ==
    /\ BridgeInit
    /\ kind \in Kinds
    /\ life = IF kind = "llm" THEN "starting" ELSE "serving"
    /\ phase = [r \in Req |-> "new"]
    /\ reply = [r \in Req |-> None]
    /\ said = [r \in Req |-> "progress"]
    /\ attempt = [r \in Req |-> 0]
    /\ beat = [r \in Req |-> FALSE]
    /\ jobs = <<>> /\ admitted = 0
    /\ entry = NoBridge /\ inflight = 0 /\ generation = 0 /\ timer = 0
    /\ expiring = {} /\ closed = FALSE
    /\ shut = NoBridge /\ events = 0

\* Post the terminal of a request and go on to phase p.
Post(r, o, p) ==
    /\ reply' = [reply EXCEPT ![r] = o]
    /\ said' = [said EXCEPT ![r] = "terminal"]
    /\ phase' = [phase EXCEPT ![r] = p]

Goto(r, p) == phase' = [phase EXCEPT ![r] = p] /\ UNCHANGED <<reply, said>>

\* The child that Start makes.
Fresh(b) == proc[b] = "none" /\ \A a \in Bridge : proc[a] = "none" => b <= a

Event == events < MaxEvent[kind] /\ events' = events + 1
-----------------------------------------------------------------------------
(* pi-workspace: the scheduler *)

RecvWorkspace(r) ==
    /\ Workspace /\ life = "serving" /\ phase[r] = "new"
    /\ \/ Cancelled(r) /\ Post(r, "cancelled", "ended") /\ UNCHANGED queueVars
       \/ /\ ~Cancelled(r) /\ admitted = QueueCapacity
          /\ Post(r, "capacity", "ended") /\ UNCHANGED queueVars
       \/ /\ ~Cancelled(r) /\ admitted < QueueCapacity
          /\ admitted' = admitted + 1
          /\ jobs' = Append(jobs, r)
          /\ Goto(r, "queued")
    /\ UNCHANGED <<attempt, beat, bridgeVars, poolVars, actorVars>>

\* A worker takes the next job ...
PopJob ==
    /\ jobs # <<>> /\ Cardinality(Busy) < MaxConcurrency
    /\ jobs' = Tail(jobs)
    /\ Goto(Head(jobs), "popped")
    /\ UNCHANGED <<admitted, attempt, beat, bridgeVars, poolVars, actorVars>>

TokenBack(r) == admitted - 1

\* ... and a token, and looks whether the request is still wanted.
PopToken(r) ==
    /\ phase[r] = "popped" /\ admitted > 0
    /\ admitted' = TokenBack(r)
    /\ IF Cancelled(r) THEN Post(r, "cancelled", "ended") ELSE Goto(r, "serving")
    /\ UNCHANGED <<jobs, attempt, beat, bridgeVars, poolVars, actorVars>>

\* handle refuses a request that it cannot decode.
Refuse(r) ==
    /\ phase[r] = "serving" /\ Workspace
    /\ Post(r, "invalid_args", "ended")
    /\ UNCHANGED <<attempt, beat, bridgeVars, queueVars, poolVars, actorVars>>

-----------------------------------------------------------------------------
(* pi-workspace: the pool *)

\* The entry leaves the map sessions, its timer stopped.
Forget ==
    /\ entry' = NoBridge /\ inflight' = 0 /\ generation' = 0 /\ timer' = 0
    /\ UNCHANGED <<expiring, closed>>

Discard(b) == Forget /\ CloseStdin(b)

\* Variant: a job left over at the close starts a child of its own.
StillOpen == FALSE

PoolClosed == closed

OneMoreUser == inflight + 1

\* Acquire with a live entry.
AcquireLive ==
    /\ ~PoolClosed /\ entry # NoBridge /\ ~done[entry]
    /\ inflight' = OneMoreUser
    /\ timer' = 0
    /\ UNCHANGED <<entry, generation, expiring, closed>>

\* Acquire that starts a child, there being none or only a dead one.
AcquireFresh(b) ==
    /\ ~PoolClosed /\ (entry # NoBridge => done[entry])
    /\ Fresh(b)
    /\ entry' = b /\ inflight' = 1 /\ generation' = 1 /\ timer' = 0
    /\ UNCHANGED <<expiring, closed>>

\* Acquire on a closed pool, and one whose Start fails.
AcquireFails ==
    \/ PoolClosed /\ UNCHANGED <<poolVars, events>>
    \/ ~PoolClosed /\ (entry # NoBridge => done[entry]) /\ Forget /\ Event

Acquire(r) ==
    /\ phase[r] = "serving" /\ Workspace
    /\ attempt' = [attempt EXCEPT ![r] = 1]
    /\ \/ /\ AcquireLive
          /\ Take(CallOf(r, 1), entry) /\ Goto(r, "calling")
          /\ UNCHANGED <<childVars, events>>
       \/ \E b \in Bridge :
            /\ AcquireFresh(b) /\ Start(b)
            /\ Take(CallOf(r, 1), b) /\ Goto(r, "calling")
            /\ UNCHANGED events
       \/ /\ AcquireFails
          /\ Post(r, "runtime_unavailable", "ended")
          /\ UNCHANGED <<goVars, childVars>>
    /\ UNCHANGED <<beat, queueVars, nodeVars, pipeVars, kind, life, shut>>

Held(b) == entry = b

Release(r) ==
    LET b == at[CallOf(r, 1)] IN
    /\ phase[r] = "releasing"
    /\ \/ ~Held(b) /\ Goto(r, "ended") /\ UNCHANGED <<poolVars, childVars>>
       \/ /\ Held(b) /\ inflight > 1
          /\ inflight' = inflight - 1
          /\ Goto(r, "ended")
          /\ UNCHANGED <<entry, generation, timer, expiring, closed, childVars>>
       \/ /\ Held(b) /\ inflight = 1 /\ kind = "idle"
          /\ inflight' = 0
          /\ generation' = generation + 1 /\ timer' = generation + 1
          /\ Goto(r, "ended")
          /\ UNCHANGED <<entry, expiring, closed, childVars>>
       \/ /\ Held(b) /\ inflight = 1 /\ kind = "eager"
          /\ Discard(b)
          /\ Goto(r, "draining")
    /\ UNCHANGED <<attempt, beat, queueVars, goVars, nodeVars, pipeVars, actorVars>>

\* The idle timer fires: its goroutine goes for the pool's mutex ...
TimerFires ==
    /\ timer # 0
    /\ expiring' = expiring \cup {<<entry, timer>>}
    /\ timer' = 0
    /\ UNCHANGED <<entry, inflight, generation, closed, bridgeVars, reqVars, queueVars, actorVars>>

\* Variant: an entry in use again is taken for idle.
SameEntry(b, g) == entry = b /\ generation = g

StillIdle(b, g) == entry = b /\ generation = g /\ inflight = 0

\* ... and closes the bridge unless the entry has been used meanwhile.
Expire(b, g) ==
    /\ <<b, g>> \in expiring
    /\ IF StillIdle(b, g)
       THEN /\ entry' = NoBridge /\ generation' = 0
            /\ CloseStdin(b)
       ELSE UNCHANGED <<entry, generation, childVars>>
    /\ expiring' = expiring \ {<<b, g>>}
    /\ UNCHANGED <<inflight, timer, closed, goVars, nodeVars, pipeVars, reqVars, queueVars, actorVars>>

-----------------------------------------------------------------------------
(* pi-workspace: the rest of handle, when the call has returned *)

ReturnWorkspace(r) ==
    LET c == CallOf(r, 1)  b == at[c] IN
    /\ Workspace /\ phase[r] = "calling" /\ gocall[c] = "ended"
    /\ CASE answer[c] \in AllVerdicts ->
              /\ Post(r, IF answer[c] = "error" THEN "tool_failed" ELSE answer[c], "releasing")
              /\ UNCHANGED <<poolVars, childVars>>
         [] OTHER ->    \* Invalidate: the bridge is of no more use
              IF entry = b
              THEN Discard(b) /\ Goto(r, "invalidating")
              ELSE Post(r, "tool_failed", "releasing") /\ UNCHANGED <<poolVars, childVars>>
    /\ UNCHANGED <<attempt, beat, queueVars, goVars, nodeVars, pipeVars, actorVars>>

\* Close returns to Invalidate, or to Release.
Closed(r) ==
    /\ phase[r] \in {"invalidating", "draining"} /\ done[at[CallOf(r, 1)]]
    /\ IF phase[r] = "invalidating"
       THEN Post(r, "tool_failed", "releasing")
       ELSE Goto(r, "ended")
    /\ UNCHANGED <<attempt, beat, bridgeVars, queueVars, poolVars, actorVars>>

-----------------------------------------------------------------------------
(* pi-llm *)

StartLlm ==
    /\ life = "starting"
    /\ \/ /\ \E b \in Bridge : Fresh(b) /\ Start(b) /\ entry' = b
          /\ life' = "serving"
          /\ UNCHANGED events
       \/ Event /\ life' = "gone" /\ UNCHANGED <<entry, childVars>>
    /\ UNCHANGED <<kind, shut, inflight, generation, timer, expiring, closed,
                   goVars, nodeVars, pipeVars, reqVars, queueVars>>

RecvLlm(r) ==
    /\ kind = "llm" /\ life = "serving" /\ phase[r] = "new"
    /\ IF Cardinality(Busy) < MaxConcurrency
       THEN Goto(r, "serving")
       ELSE Post(r, "capacity", "ended")
    /\ UNCHANGED <<attempt, beat, bridgeVars, queueVars, poolVars, actorVars>>

\* handle: refuse, or count, without the child; list models with one call; or
\* start the heartbeat and the attempts of a model call.
HandleLlm(r) ==
    /\ kind = "llm" /\ phase[r] = "serving"
    /\ \/ /\ \E o \in {"invalid_args", "count"} : Post(r, o, "ended")
          /\ UNCHANGED <<attempt, beat, goVars>>
       \/ /\ Goto(r, "listing")
          /\ attempt' = [attempt EXCEPT ![r] = 1]
          /\ Take(CallOf(r, 1), entry)
          /\ UNCHANGED beat
       \/ /\ Goto(r, "looping")
          /\ beat' = [beat EXCEPT ![r] = TRUE]
          /\ UNCHANGED <<attempt, goVars>>
    /\ UNCHANGED <<nodeVars, childVars, pipeVars, queueVars, poolVars, actorVars>>

ReturnModels(r) ==
    LET a == answer[CallOf(r, 1)] IN
    /\ phase[r] = "listing" /\ gocall[CallOf(r, 1)] = "ended"
    /\ Post(r, CASE a \in {"result", "retryable"} -> "result"
                 [] a = "cancelled" -> "cancelled"
                 [] OTHER -> "failed", "ended")
    /\ UNCHANGED <<attempt, beat, bridgeVars, queueVars, poolVars, actorVars>>

\* retryGenerate has its outcome; the heartbeat is cancelled and joined.
Join(r, o) ==
    /\ reply' = [reply EXCEPT ![r] = o]
    /\ phase' = [phase EXCEPT ![r] = "joining"]
    /\ UNCHANGED said

Tell(r, p) ==
    /\ said' = [said EXCEPT ![r] = "progress"]
    /\ phase' = [phase EXCEPT ![r] = p]
    /\ UNCHANGED reply

\* The head of the loop of retryGenerate: one more attempt.
Attempt(r) ==
    /\ phase[r] = "looping"
    /\ \/ Cancelled(r) /\ Join(r, "cancelled") /\ UNCHANGED <<attempt, goVars>>
       \/ /\ ~Cancelled(r)
          /\ attempt' = [attempt EXCEPT ![r] = @ + 1]
          /\ Take(CallOf(r, attempt[r] + 1), entry)
          /\ Tell(r, "calling")
    /\ UNCHANGED <<beat, nodeVars, childVars, pipeVars, queueVars, poolVars, actorVars>>

\* Variant: any failure is tried again.
AnyFailure(a) == a # "result"

MayPass(a) == a = "retryable"

AttemptsLeft(r) == attempt[r] <= MaxRetries

\* The rest of the loop body: only a refusal that may pass is tried again,
\* while attempts and time remain.
ReturnLlm(r) ==
    LET c == TheCall(r)  a == answer[c] IN
    /\ kind = "llm" /\ phase[r] = "calling" /\ gocall[c] = "ended"
    /\ CASE a = "result" -> Join(r, "result")
         [] a # "result" /\ Cancelled(r) -> Join(r, "cancelled")
         [] MayPass(a) /\ ~Cancelled(r) /\ AttemptsLeft(r) ->
              Join(r, "deadline_exceeded") \/ Tell(r, "delaying")
         [] OTHER -> Join(r, IF a = "cancelled" THEN a ELSE "failed")
    /\ UNCHANGED <<attempt, beat, bridgeVars, queueVars, poolVars, actorVars>>

Delay(r) ==
    /\ phase[r] = "delaying"
    /\ \/ Cancelled(r) /\ Join(r, "cancelled")
       \/ Goto(r, "looping")
    /\ UNCHANGED <<attempt, beat, bridgeVars, queueVars, poolVars, actorVars>>

Beat(r) ==
    /\ beat[r]
    /\ said' = [said EXCEPT ![r] = "progress"]
    /\ UNCHANGED <<phase, reply, attempt, beat, bridgeVars, queueVars, poolVars, actorVars>>

BeatStops(r) ==
    /\ beat[r] /\ (phase[r] = "joining" \/ Cancelled(r))
    /\ beat' = [beat EXCEPT ![r] = FALSE]
    /\ UNCHANGED <<phase, reply, said, attempt, bridgeVars, queueVars, poolVars, actorVars>>

Joined(r) == ~beat[r]

ReplyLlm(r) ==
    /\ phase[r] = "joining" /\ Joined(r)
    /\ Post(r, reply[r], "ended")
    /\ UNCHANGED <<attempt, beat, bridgeVars, queueVars, poolVars, actorVars>>

-----------------------------------------------------------------------------
(* The life of the actor, and its world *)

Shut == IF entry = NoBridge THEN UNCHANGED childVars ELSE CloseStdin(entry)

\* Recv fails: close the child, and with it the calls that wait for it ...
Stop ==
    /\ life = "serving" /\ Event
    /\ life' = "closing"
    /\ shut' = entry
    /\ Shut
    /\ IF Workspace
       THEN /\ closed' = TRUE
            /\ entry' = NoBridge /\ inflight' = 0 /\ generation' = 0 /\ timer' = 0
            /\ UNCHANGED expiring
       ELSE UNCHANGED poolVars
    /\ UNCHANGED <<kind, goVars, nodeVars, pipeVars, reqVars, queueVars>>

\* ... then wait for the workers.
Gone ==
    /\ life = "closing"
    /\ shut # NoBridge => done[shut]
    /\ jobs = <<>> /\ Busy = {}
    /\ life' = "gone"
    /\ UNCHANGED <<kind, shut, events, bridgeVars, reqVars, queueVars, poolVars>>

\* The request is cancelled, or its deadline passes.
Cancel(r) ==
    /\ phase[r] \notin {"releasing", "draining", "joining", "ended"} /\ ~Cancelled(r)
    /\ Event
    /\ ctx' = [c \in Call |-> ctx[c] \/ c[1] = r]
    /\ UNCHANGED <<at, gocall, frames, late, answer, nodeVars, childVars, pipeVars,
                   reqVars, queueVars, poolVars, kind, life, shut>>

Crash(b) ==
    /\ Event /\ Dies(b)
    /\ UNCHANGED <<toGo, kind, life, shut, reqVars, queueVars, poolVars>>

StreamBreaks(b) ==
    /\ Event /\ ReadBreaks(b)
    /\ UNCHANGED <<kind, life, shut, reqVars, queueVars, poolVars>>

Progress(c) ==
    /\ Event /\ Update(c)
    /\ UNCHANGED <<kind, life, shut, reqVars, queueVars, poolVars>>

\* CallWithEnvironment runs the request's progress callback on a progress
\* frame; the model calls of pi-llm pass none.
Receive(c) ==
    /\ TakeFrame(c)
    /\ said' = IF Workspace /\ Head(frames[c]) = "progress"
               THEN [said EXCEPT ![c[1]] = "progress"] ELSE said
    /\ UNCHANGED <<phase, reply, attempt, beat, queueVars, poolVars, actorVars>>

\* How Node may settle a call: a tool has a result or fails, a model call ends
\* as the classification of its outcome says.
Endings ==
    IF Workspace THEN {"result", "error", "cancelled"}
                 ELSE {Ending(o) : o \in {p \in Outcome : Possible(p)}}

Rest == UNCHANGED <<reqVars, queueVars, poolVars, actorVars>>

CallStep(c) ==
    \/ Receive(c)
    \/ Issue(c) /\ Rest
    \/ SeeCancel(c) /\ Rest
    \/ SeeDone(c) /\ Rest
    \/ Deliver(c) /\ Rest

ChildStep(b) ==
    \/ WaitReturns(b) /\ Rest
    \/ KillAfterGrace(b) /\ Rest
    \/ ReadFrame(b) /\ Rest
    \/ NodeReads(b, Workspace) /\ Rest
    \/ NodeExits(b) /\ Rest

ReqStep(r) ==
    \/ PopToken(r) \/ Acquire(r) \/ ReturnWorkspace(r) \/ Closed(r) \/ Release(r)
    \/ HandleLlm(r) \/ ReturnModels(r) \/ Attempt(r) \/ ReturnLlm(r) \/ Delay(r)
    \/ BeatStops(r) \/ ReplyLlm(r)

ActorStep ==
    \/ PopJob \/ TimerFires \/ StartLlm \/ Gone
    \/ \E b \in Bridge, g \in 1 .. Cardinality(Req) + 1 : Expire(b, g)

World ==
    \/ \E r \in Req : RecvWorkspace(r) \/ RecvLlm(r) \/ Refuse(r) \/ Beat(r) \/ Cancel(r)
    \/ \E c \in Call : Progress(c) \/ (Settle(c, Endings) /\ Rest)
    \/ \E b \in Bridge : Crash(b) \/ StreamBreaks(b)
    \/ Stop

\* The steps of the code: goroutines run, timers fire, the child reads stdin.
Code ==
    \/ \E c \in Call : CallStep(c) \/ (TakeTurn(c) /\ Rest)
    \/ \E b \in Bridge : ChildStep(b)
    \/ \E r \in Req : ReqStep(r)
    \/ ActorStep

Next == Code \/ World

Spec == Init /\ [][Next]_vars

\* The code does not stop while it has a step to take.  Nothing says that a
\* tool or a provider ever answers, or that the actor is ever stopped.
Fairness == WF_vars(Code)

LiveSpec == Spec /\ Fairness

-----------------------------------------------------------------------------
(* Properties *)

Phases == {"new", "queued", "popped", "serving", "calling", "invalidating", "releasing",
           "draining", "listing", "looping", "delaying", "joining", "ended"}

\* The state has the shape the code gives it.
TypeOK ==
    /\ proc \in [Bridge -> {"none", "up", "dead"}]
    /\ {stdin, done} \subseteq [Bridge -> BOOLEAN]
    /\ env \in [Bridge -> Call \cup {Launch}]
    /\ at \in [Call -> Bridge \cup {NoBridge}]
    /\ gocall \in [Call -> {"idle", "waiting", "ended"}]
    /\ {ctx, aborted} \subseteq [Call -> BOOLEAN]
    /\ late \in [Call -> Verdict \cup {None}]
    /\ answer \in [Call -> Verdict \cup Local \cup {None}]
    /\ node \in [Call -> {"none", "queued", "running", "ended"}]
    /\ saved \in [Call -> Call \cup {Launch}]
    /\ settled \in [Call -> Verdict \cup {None}]
    /\ kind \in Kinds /\ life \in {"starting", "serving", "closing", "gone"}
    /\ phase \in [Req -> Phases] /\ beat \in [Req -> BOOLEAN]
    /\ attempt \in [Req -> 0 .. MaxRetries + 1]
    /\ {entry, shut} \subseteq Bridge \cup {NoBridge}
    /\ inflight \in 0 .. MaxConcurrency /\ events \in 0 .. MaxEvent[kind]

\* withWorkspaceEnvironment: a workspace call that runs sees its own snapshot
\* in process.env and no other call runs beside it; with none running the
\* child has the environment it was started with.
EnvIsOwn ==
    Workspace => \A b \in Bridge :
        LET running == {c \in OnBridge(b) : node[c] = "running"} IN
        proc[b] = "up" => IF running = {} THEN env[b] = Launch ELSE running = {env[b]}

\* The pool and the children agree: a child that runs with its stdin open is the
\* bridge of the session's entry (or of pi-llm), which Close will find; and
\* idleness never cuts a call: while the actor serves, a bridge that a call uses
\* is closed only after a call on it found it broken.
BridgesAreHeld ==
    /\ TypeOK
    /\ \A b \in Bridge : proc[b] = "up" /\ stdin[b] => entry = b
    /\ life = "serving" => \A r \in Req :
          LET b == at[TheCall(r)] IN
          phase[r] \in {"calling", "listing"} /\ ~stdin[b] =>
              \E c \in OnBridge(b) : answer[c] \in {"exited", "unavailable", "write_failed"}

\* retryGenerate issues another attempt only after the provider refused the one
\* before for a while, and a reply of success is the last attempt's; heartbeat is
\* joined before the reply, so no progress follows a terminal.
RepliesAreHonest ==
    \A r \in Req :
        /\ \A n \in 1 .. attempt[r] - 1 : answer[CallOf(r, n)] = "retryable"
        /\ reply[r] = "result" => settled[TheCall(r)] \in {"result", "retryable"}
        /\ phase[r] \in {"releasing", "draining", "ended"} => said[r] = "terminal"

\* A call over the bridge keeps the contract of a call: settled at most once,
\* answered at most once, with Node's verdict or an outcome of its own.
Contract == INSTANCE CallContract WITH Nothing <- None
CallsKeepContract == Contract!Spec

\* No call waits for ever once its context is done, its child is gone, or Node
\* has settled it, however many progress frames are in the way; and a call given
\* up by the Go side is given up by Node: its AbortController is told, unless the
\* call or the child ends first.
CallReturns ==
    /\ []<>(\A c \in Call :
              gocall[c] = "waiting" => ~(ctx[c] \/ proc[at[c]] = "dead" \/ settled[c] # None))
    /\ []<>(\A c \in Call :
              answer[c] = "cancelled" /\ Active(c) => aborted[c] \/ proc[at[c]] = "dead")

\* A stopped actor ends, whatever its calls wait for, and no child outlives it.
ActorEnds == []<>(life # "closing" /\ (life = "gone" => \A b \in Bridge : proc[b] # "up"))
=============================================================================

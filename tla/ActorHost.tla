------------------------------ MODULE ActorHost ------------------------------
(***************************************************************************)
(* runtime/actorhost: the HostSupervisor of one execution domain, with the *)
(* physical life of the actorrt.Unit bodies it builds, the routes daemons  *)
(* attach to it, and the feed that hands it the Controller's projection.   *)
(*                                                                         *)
(* Every step under the per-actor span and the host lock is one action;    *)
(* what the code does after it unlocks (Unit.Stop, Binding.Close, the      *)
(* watchers, the builder goroutine) is an action of its own.  The runner's *)
(* ticker can start a pass at any moment, so a pass is the free choice of  *)
(* ReconcileOne steps and the wake channel, a hint to do so sooner, is     *)
(* left out.  Execution specs and peers are fixed by the attempt key.      *)
(***************************************************************************)
EXTENDS Naturals, FiniteSets

CONSTANTS
    Actor,      \* actor ids, numbers: passes go in id order
    Kinds,      \* the desired kinds the feed may carry: "body", "carrier"
    MaxKey,     \* attempt keys minted per actor; UUIDv7 order is number order
    Unit,       \* unit identities, positive numbers
    Binding,    \* binding identities, positive numbers
    MaxEvent,   \* crashes so far and connections that are open, together
    MaxCrash,   \* bodies that exit by themselves, and builds that fail
    MayClose    \* whether Close is ever called

ASSUME HostAssumption ==
    /\ Actor \subseteq Nat
    /\ Kinds \subseteq {"body", "carrier"}
    /\ Unit \subseteq Nat \ {0}
    /\ Binding \subseteq Nat \ {0}
    /\ MaxKey \in Nat /\ MaxCrash \in Nat /\ MaxEvent \in Nat /\ MayClose \in BOOLEAN

VARIABLES
    ledger,     \* the Controller's answer per actor; kind "none", key > 0: ended
    feed,       \* the desired loop: "idle", "held" (read), "applying"
    inbound,    \* the snapshot the loop holds
    todo,       \* actors of the snapshot still to be applied
    states,     \* hostState per actor
    known,      \* the keys of the states map
    sealed,
    unit,       \* per unit: its actor, its key and its phase
    binding,    \* per binding: its actor, its key and its phase
    owed,       \* bindings whose Close is still owed by some host goroutine
    closing,    \* progress of Close
    late,       \* the close context has expired
    joined,     \* Close saw the builders return
    sweep,      \* actors Close still has to tear down
    verdict,    \* what Close returned
    crashes,    \* crashes and build failures so far
    served,     \* ghost: the newest key that was ever an endpoint, per actor
    stale       \* ghost: the newest key refused with ErrAttachStale, per actor

feedVars  == <<ledger, feed, inbound, todo>>
tableVars == <<states, known>>
closeVars == <<sealed, closing, late, joined, sweep, verdict>>
ghosts    == <<served, stale>>
vars == <<feedVars, tableVars, unit, binding, owed, closeVars, crashes, ghosts>>

NoDesired  == [kind |-> "none", key |-> 0]
NoRoute    == [key |-> 0, binding |-> 0]
EmptyState == [desired |-> NoDesired, build |-> 0, body |-> 0, route |-> NoRoute,
               retiring |-> {}, backoff |-> FALSE]
FreeUnit    == [actor |-> 0, key |-> 0, phase |-> "free"]
FreeBinding == [actor |-> 0, key |-> 0, phase |-> "free"]

Key     == 0 .. MaxKey
Desired == [kind : Kinds \cup {"none"}, key : Key]
UnitPhase == {"free", "building", "prepared", "running", "stopping", "exited", "ending", "done"}
BindingPhase == {"free", "attaching", "serving", "ended"}
ClosePhase   == {"open", "join", "sweep", "watch", "closed"}

\* Only field ranges: which combinations occur is what the properties say.
TypeOK ==
    /\ ledger \in [Actor -> Desired] /\ inbound \in [Actor -> Desired]
    /\ feed \in {"idle", "held", "applying"}
    /\ todo \subseteq Actor /\ known \subseteq Actor /\ sweep \subseteq Actor
    /\ states \in [Actor -> [desired : Desired, build : Unit \cup {0},
                             body : Unit \cup {0},
                             route : [key : Key, binding : Binding \cup {0}],
                             retiring : SUBSET Unit, backoff : BOOLEAN]]
    /\ unit \in [Unit -> [actor : Actor \cup {0}, key : Key, phase : UnitPhase]]
    /\ binding \in [Binding -> [actor : Actor \cup {0}, key : Key, phase : BindingPhase]]
    /\ owed \subseteq Binding
    /\ sealed \in BOOLEAN /\ late \in BOOLEAN /\ joined \in BOOLEAN
    /\ closing \in ClosePhase /\ verdict \in {"none", "clean", "leak"}
    /\ crashes \in 0 .. MaxCrash
    /\ served \in [Actor -> Key] /\ stale \in [Actor -> Key]

Init ==
    /\ ledger = [a \in Actor |-> NoDesired] /\ inbound = ledger
    /\ feed = "idle" /\ todo = {}
    /\ states = [a \in Actor |-> EmptyState] /\ known = {}
    /\ unit = [u \in Unit |-> FreeUnit]
    /\ binding = [b \in Binding |-> FreeBinding] /\ owed = {}
    /\ sealed = FALSE /\ closing = "open" /\ late = FALSE /\ joined = FALSE
    /\ sweep = {} /\ verdict = "none" /\ crashes = 0
    /\ served = [a \in Actor |-> 0] /\ stale = [a \in Actor |-> 0]

\* The bound on what goes on at once: another crash or connection is allowed.
Quiet == crashes + Cardinality(owed \cup {b \in Binding : binding[b] # FreeBinding}) < MaxEvent

-----------------------------------------------------------------------------
\* The feed.

First(S) == {a \in S : \A b \in S : a <= b}

\* One Controller command on an actor: birth, new term, or the end of its id,
\* which is never born again.  Every change mints the next key.
Command(a) ==
    LET now == ledger[a]
    IN  /\ now.key < MaxKey /\ (now.kind = "none" => now.key = 0)
        /\ \E k \in Kinds \cup (IF now.kind = "none" THEN {} ELSE {"none"}) :
              ledger' = [ledger EXCEPT ![a] = [kind |-> k, key |-> now.key + 1]]
        /\ UNCHANGED <<feed, inbound, todo, tableVars, unit, binding, owed,
                       closeVars, crashes, ghosts>>

\* readServerDesired: DesiredFor answers under the ledger's read lock; the host
\* sees the answer later.
ReadDesired ==
    /\ feed = "idle"
    /\ inbound' = [a \in Actor |-> IF ledger[a].kind = "none" THEN NoDesired ELSE ledger[a]]
    /\ feed' = "held"
    /\ UNCHANGED <<ledger, todo, tableVars, unit, binding, owed, closeVars, crashes, ghosts>>

\* One payload per key: the same key with another kind is a drift.
Drift(a) ==
    /\ states[a].desired.key = inbound[a].key
    /\ states[a].desired # inbound[a]

\* The call returns once nothing of the snapshot is left.
LetGo ==
    /\ feed' = IF todo' = {} THEN "idle" ELSE "applying"
    /\ inbound' = IF todo' = {} THEN [a \in Actor |-> NoDesired] ELSE inbound

\* The validation half of AcceptFullDesired.
AcceptFullDesired ==
    /\ feed = "held"
    /\ LET ids == {a \in Actor : states[a].desired # NoDesired \/ inbound[a] # NoDesired}
       IN  todo' = IF sealed \/ \E a \in Actor : Drift(a) THEN {} ELSE ids
    /\ LetGo
    /\ UNCHANGED <<ledger, tableVars, unit, binding, owed, closeVars, crashes, ghosts>>

DeleteIfEmpty(a, s) == IF s = EmptyState THEN known \ {a} ELSE known

\* The job in flight survives a snapshot only if it builds what is now desired.
Accepted(s, d) ==
    [s EXCEPT !.desired = d, !.backoff = FALSE,
              !.build = IF @ # 0 /\ d.kind = "body" /\ unit[@].key = d.key THEN @ ELSE 0]

\* One id of the snapshot, under its span.
AcceptOne(a) ==
    /\ feed = "applying" /\ a \in First(todo)
    /\ IF sealed
       THEN todo' = {} /\ UNCHANGED tableVars
       ELSE LET s == Accepted(states[a], inbound[a])
            IN  /\ states' = [states EXCEPT ![a] = s]
                /\ known' = IF inbound[a] = NoDesired THEN DeleteIfEmpty(a, s) ELSE known \cup {a}
                /\ todo' = todo \ {a}
    /\ LetGo
    /\ UNCHANGED <<ledger, unit, binding, owed, closeVars, crashes, ghosts>>

-----------------------------------------------------------------------------
\* reconcileOne, one action per case of its switch.

\* Variant: the predecessor is dropped without a retire task.
RetireForget(s) == [s EXCEPT !.body = 0]

\* retireLocked on the current body, which stops being the body.
Retire(s) == [s EXCEPT !.body = 0, !.retiring = @ \cup ({s.body} \ {0})]

Cleared(s) == [Retire(s) EXCEPT !.build = 0, !.backoff = FALSE]

DropRoute(s) == [s EXCEPT !.route = NoRoute]
RouteOf(s)   == {s.route.binding} \ {0}

ReconcileEnded(a) ==
    /\ ~sealed /\ a \in known /\ states[a].desired.kind = "none"
    /\ LET s == DropRoute(Cleared(states[a]))
       IN  /\ states' = [states EXCEPT ![a] = s]
           /\ known' = DeleteIfEmpty(a, s)
    /\ owed' = owed \cup RouteOf(states[a])
    /\ UNCHANGED <<feedVars, unit, binding, closeVars, crashes, ghosts>>

ReconcileCarrier(a) ==
    /\ ~sealed /\ a \in known /\ states[a].desired.kind = "carrier"
    /\ LET s    == Cleared(states[a])
           keep == s.route.key \in {0, s.desired.key}
       IN  /\ states' = [states EXCEPT ![a] = IF keep THEN s ELSE DropRoute(s)]
           /\ owed' = IF keep THEN owed ELSE owed \cup RouteOf(s)
    /\ UNCHANGED <<feedVars, known, unit, binding, closeVars, crashes, ghosts>>

Alive(u) == u # 0 /\ unit[u].phase = "running"

\* The body of the desired attempt died: it is retired and, unless a build is
\* in flight or the retry delay runs, rebuilt.
Health(s) ==
    IF s.body # 0 /\ unit[s.body].key = s.desired.key /\ ~Alive(s.body)
    THEN Retire(s) ELSE s

Acceptable(s) == s.body # 0 /\ unit[s.body].key = s.desired.key /\ Alive(s.body)

\* Variant: a build waits until every predecessor has ended.
NeedsBuildAlone(s) == ~Acceptable(s) /\ s.build = 0 /\ ~s.backoff /\ s.retiring = {}

NeedsBuild(s) == ~Acceptable(s) /\ s.build = 0 /\ ~s.backoff

ReconcileBody(a) ==
    /\ ~sealed /\ a \in known /\ states[a].desired.kind = "body"
    /\ LET s == Health(states[a])
       IN  IF ~NeedsBuild(s)
           THEN states' = [states EXCEPT ![a] = s] /\ UNCHANGED unit
           ELSE \E u \in First({v \in Unit : unit[v] = FreeUnit}) :
                   /\ states' = [states EXCEPT ![a] = [s EXCEPT !.build = u]]
                   /\ unit' = [unit EXCEPT ![u] = [actor |-> a, key |-> s.desired.key,
                                                   phase |-> "building"]]
    /\ UNCHANGED <<feedVars, known, binding, owed, closeVars, crashes, ghosts>>

\* The clock passes retryAt.
RetryElapsed(a) ==
    /\ states[a].backoff
    /\ states' = [states EXCEPT ![a].backoff = FALSE]
    /\ UNCHANGED <<feedVars, known, unit, binding, owed, closeVars, crashes, ghosts>>

-----------------------------------------------------------------------------
\* The builder goroutine.

Newer(m, n) == IF m < n THEN n ELSE m

\* Variant: the attempt is compared by job only, not with what is desired now.
JobPresent(s, u) == s.desired.kind = "body"

\* The publication guard of build: this very job, for what is desired now.
JobCurrent(s, u) ==
    /\ ~sealed
    /\ s.build = u
    /\ s.desired = [kind |-> "body", key |-> unit[u].key]

\* Prepare returned a unit.  The winner is published and started in one critical
\* section and its predecessors are retired; a loser is retired unstarted.
BuildReturns(u) ==
    LET a == unit[u].actor
        s == states[a]
        win == [Retire(s) EXCEPT !.build = 0, !.backoff = FALSE, !.body = u, !.route = NoRoute]
        lose == [s EXCEPT !.build = IF @ = u THEN 0 ELSE @, !.retiring = @ \cup {u}]
    IN  /\ unit[u].phase = "building"
        /\ IF JobCurrent(s, u)
           THEN /\ states' = [states EXCEPT ![a] = win]
                /\ owed' = owed \cup RouteOf(s)
                /\ unit' = [unit EXCEPT ![u].phase = "running"]
                /\ served' = [served EXCEPT ![a] = Newer(@, unit[u].key)]
                /\ UNCHANGED known
           ELSE /\ states' = [states EXCEPT ![a] = lose]
                /\ known' = known \cup {a}
                /\ unit' = [unit EXCEPT ![u].phase = "prepared"]
                /\ UNCHANGED <<owed, served>>
        /\ UNCHANGED <<feedVars, binding, closeVars, crashes, stale>>

\* finishBuildFailure touches the state only if the job is still the one in flight.
Abandon(s, u) ==
    IF s.build # u THEN s
    ELSE [s EXCEPT !.build = 0,
                   !.backoff = @ \/ (~sealed /\ s.desired = [kind |-> "body", key |-> unit[u].key])]

BuildFails(u) ==
    LET a == unit[u].actor
    IN  /\ unit[u].phase = "building" /\ crashes < MaxCrash /\ Quiet
        /\ states' = [states EXCEPT ![a] = Abandon(states[a], u)]
        /\ known' = IF states[a].build = u THEN DeleteIfEmpty(a, states'[a]) ELSE known
        /\ unit' = [unit EXCEPT ![u] = FreeUnit]
        /\ crashes' = crashes + 1
        /\ UNCHANGED <<feedVars, binding, owed, closeVars, ghosts>>

-----------------------------------------------------------------------------
\* The physical life of a unit.

Step(u, from, to) ==
    /\ unit[u].phase = from
    /\ unit' = [unit EXCEPT ![u].phase = to]
    /\ UNCHANGED <<feedVars, tableVars, binding, owed, closeVars, ghosts>>

\* The receive loop ends by itself: a panic, a failed Start, a dying report.
BodyExits(u) ==
    /\ crashes < MaxCrash /\ Quiet /\ crashes' = crashes + 1
    /\ Step(u, "running", "exited")

\* Close cancels the context every unit was derived from.
ParentCancelled(u) == sealed /\ Step(u, "running", "exited") /\ UNCHANGED crashes

\* executeRetireTasks: Stop on a unit that was taken out of the table.
StopUnit(u) ==
    /\ \E a \in Actor : u \in states[a].retiring
    /\ \/ Step(u, "running", "stopping")
       \/ Step(u, "prepared", "ending")
    /\ UNCHANGED crashes

\* The stopped loop returns and finish begins.
LoopReturns(u) == Step(u, "stopping", "exited") /\ UNCHANGED crashes

\* finish emits Exited, which only wakes the host, then waits for the organs.
OnExited(u) == Step(u, "exited", "ending") /\ UNCHANGED crashes

\* The organs and the actor's Stop returned.
UnitDone(u) == Step(u, "ending", "done") /\ UNCHANGED crashes

\* watchRetiring; Close cancels the watchers when it gives up on them.
WatchRetiring(u) ==
    LET a == unit[u].actor
        s == [states[a] EXCEPT !.retiring = @ \ {u}]
    IN  /\ unit[u].phase = "done" /\ u \in states[a].retiring
        /\ ~(closing = "closed" /\ joined)
        /\ states' = [states EXCEPT ![a] = s]
        /\ known' = DeleteIfEmpty(a, s)
        /\ unit' = [unit EXCEPT ![u] = FreeUnit]
        /\ UNCHANGED <<feedVars, binding, owed, closeVars, crashes, ghosts>>

-----------------------------------------------------------------------------
\* Routes.

\* A daemon's connection for one attempt; AuthorizeAttach compares it with the
\* ledger at that moment.
Connect(b, a) ==
    /\ binding[b] = FreeBinding /\ b \notin owed /\ Quiet
    /\ ledger[a].kind = "carrier"
    /\ binding' = [binding EXCEPT ![b] = [actor |-> a, key |-> ledger[a].key,
                                          phase |-> "attaching"]]
    /\ UNCHANGED <<feedVars, tableVars, unit, owed, closeVars, crashes, ghosts>>

\* The arms of Attach that publish: no local owner of the id, and exactly the
\* desired attempt, not older than the route there is.
AttachReady(s, k) ==
    /\ s.body = 0 /\ s.build = 0
    /\ s.desired = [kind |-> "carrier", key |-> k]
    /\ s.route.key <= k

\* Variant: an attempt ahead of the host's snapshot is called stale.
AttachStaleAhead(s, k) == ~sealed /\ s.desired.kind = "carrier" /\ k > s.desired.key

\* The arms that refuse for good.
AttachStale(s, k) ==
    /\ ~sealed /\ s.body = 0 /\ s.build = 0
    /\ s.desired.kind = "carrier"
    /\ k < s.desired.key \/ (k = s.desired.key /\ k < s.route.key)

Attach(b) ==
    LET a == binding[b].actor
        k == binding[b].key
        s == states[a]
    IN  /\ binding[b].phase = "attaching"
        /\ IF ~sealed /\ AttachReady(s, k)
           THEN /\ states' = [states EXCEPT ![a].route = [key |-> k, binding |-> b]]
                /\ owed' = owed \cup RouteOf(s)
                /\ binding' = [binding EXCEPT ![b].phase = "serving"]
                /\ served' = [served EXCEPT ![a] = Newer(@, k)]
                /\ UNCHANGED stale
           ELSE /\ binding' = [binding EXCEPT ![b] = FreeBinding]
                /\ stale' = IF AttachStale(s, k) THEN [stale EXCEPT ![a] = Newer(@, k)] ELSE stale
                /\ UNCHANGED <<states, owed, served>>
        /\ UNCHANGED <<feedVars, known, unit, closeVars, crashes>>

\* The connection drops.
EndpointEnds(b) ==
    /\ binding[b].phase = "serving"
    /\ binding' = [binding EXCEPT ![b].phase = "ended"]
    /\ UNCHANGED <<feedVars, tableVars, unit, owed, closeVars, crashes, ghosts>>

\* A host goroutine closes a binding it took out of the table.
CloseBinding(b) ==
    /\ b \in owed
    /\ owed' = owed \ {b}
    /\ binding' = [binding EXCEPT ![b].phase = IF @ = "serving" THEN "ended" ELSE @]
    /\ UNCHANGED <<feedVars, tableVars, unit, closeVars, crashes, ghosts>>

\* Variant: any route of the actor is taken down.
WithoutRoute(s, b) == DropRoute(s)

\* BindingDown removes only the exact binding.
Without(s, b) == IF s.route.binding = b THEN DropRoute(s) ELSE s

\* The endpoint's Run returned; its goroutine reports the binding down.
BindingDown(b) ==
    LET a == binding[b].actor
        s == Without(states[a], b)
    IN  /\ binding[b].phase = "ended"
        /\ states' = [states EXCEPT ![a] = s]
        /\ known' = IF s # states[a] THEN DeleteIfEmpty(a, s) ELSE known
        /\ binding' = [binding EXCEPT ![b] = FreeBinding]
        /\ UNCHANGED <<feedVars, unit, owed, closeVars, crashes, ghosts>>

-----------------------------------------------------------------------------
\* Close.

closeFrame == <<feedVars, unit, binding, crashes, ghosts>>

CloseSeal ==
    /\ MayClose /\ closing = "open"
    /\ sealed' = TRUE /\ closing' = "join"
    /\ UNCHANGED <<tableVars, owed, late, joined, sweep, verdict, closeFrame>>

CloseExpires ==
    /\ closing \in {"join", "sweep", "watch"} /\ ~late
    /\ late' = TRUE
    /\ UNCHANGED <<tableVars, owed, sealed, closing, joined, sweep, verdict, closeFrame>>

\* The builders' wait group, or the deadline.
CloseJoin ==
    LET idle == \A u \in Unit : unit[u].phase # "building"
    IN  /\ closing = "join" /\ (idle \/ late)
        /\ joined' = idle
        /\ closing' = "sweep" /\ sweep' = known
        /\ UNCHANGED <<tableVars, owed, sealed, late, verdict, closeFrame>>

Swept(s) == DropRoute([Cleared(s) EXCEPT !.desired = NoDesired])

CloseSweep(a) ==
    /\ closing = "sweep" /\ a \in First(sweep)
    /\ states' = [states EXCEPT ![a] = Swept(states[a])]
    /\ known' = DeleteIfEmpty(a, states'[a])
    /\ owed' = owed \cup RouteOf(states[a])
    /\ sweep' = sweep \ {a}
    /\ UNCHANGED <<sealed, closing, late, joined, verdict, closeFrame>>

\* With a builder at large Close does not wait for the watchers.
CloseSwept ==
    /\ closing = "sweep" /\ sweep = {}
    /\ closing' = IF joined THEN "watch" ELSE "closed"
    /\ verdict' = IF joined THEN "none" ELSE "leak"
    /\ UNCHANGED <<tableVars, owed, sealed, late, joined, sweep, closeFrame>>

\* Variant: a deadline that passed is not reported.
CloseReturnsClean ==
    /\ closing = "watch" /\ ((\A a \in Actor : states[a].retiring = {}) \/ late)
    /\ closing' = "closed" /\ verdict' = "clean"
    /\ UNCHANGED <<tableVars, owed, sealed, late, joined, sweep, closeFrame>>

CloseReturns ==
    LET gone == \A a \in Actor : states[a].retiring = {}
        leak == \E a \in Actor : \E u \in states[a].retiring : unit[u].phase # "done"
    IN  /\ closing = "watch" /\ (gone \/ late)
        /\ closing' = "closed"
        /\ verdict' = IF leak THEN "leak" ELSE "clean"
        /\ UNCHANGED <<tableVars, owed, sealed, late, joined, sweep, closeFrame>>

-----------------------------------------------------------------------------
Reconcile(a) == ReconcileEnded(a) \/ ReconcileCarrier(a) \/ ReconcileBody(a)
Accept       == AcceptFullDesired \/ \E a \in Actor : AcceptOne(a)

Next ==
    \/ \E a \in Actor : Command(a) \/ AcceptOne(a) \/ RetryElapsed(a) \/ CloseSweep(a)
    \/ \E a \in Actor : ReconcileEnded(a) \/ ReconcileCarrier(a) \/ ReconcileBody(a)
    \/ ReadDesired \/ AcceptFullDesired
    \/ \E u \in Unit : BuildReturns(u) \/ BuildFails(u) \/ BodyExits(u) \/ ParentCancelled(u)
    \/ \E u \in Unit : StopUnit(u) \/ LoopReturns(u) \/ OnExited(u) \/ UnitDone(u) \/ WatchRetiring(u)
    \/ \E b \in Binding : Attach(b) \/ EndpointEnds(b) \/ CloseBinding(b) \/ BindingDown(b)
    \/ \E b \in Binding, a \in Actor : Connect(b, a)
    \/ CloseSeal \/ CloseExpires \/ CloseJoin \/ CloseSwept \/ CloseReturns

Spec == Init /\ [][Next]_vars

\* Both loops have a ticker, goroutines run, the clock moves.  Nothing is assumed
\* of an actor's own Stop, of daemons, of commands or of Close being called.
Fairness ==
    /\ WF_vars(ReadDesired) /\ WF_vars(Accept)
    /\ \A a \in Actor : WF_vars(Reconcile(a)) /\ WF_vars(RetryElapsed(a))
    /\ \A u \in Unit : WF_vars(BuildReturns(u) \/ BuildFails(u)) /\ WF_vars(StopUnit(u))
    /\ \A b \in Binding : WF_vars(CloseBinding(b)) /\ WF_vars(BindingDown(b))

LiveSpec == Spec /\ Fairness

-----------------------------------------------------------------------------
\* The states map accounts for everything: it holds exactly the actors the host
\* still has anything for, and every prepared unit that has not ended is a
\* published body or is being retired, so some goroutine is going to stop it.  No
\* replacement, failed race, drop from the snapshot or Close lets go of a body
\* that still runs, and churn leaves no entries behind.
StatesAreExact ==
    /\ TypeOK
    /\ known = {a \in Actor : states[a] # EmptyState}
    /\ \A u \in Unit : unit[u].phase \notin {"free", "building"} =>
          LET s == states[unit[u].actor] IN u = s.body \/ u \in s.retiring

\* An actor has one endpoint, never a local body beside a remote route; and a
\* connection the host accepted and nobody is about to close is the route its
\* actor is reached by: a late BindingDown of a predecessor, a reconcile pass or
\* a rebind never strands a live connection.
RoutesAreTrue ==
    /\ \A a \in Actor : states[a].body = 0 \/ states[a].route = NoRoute
    /\ \A b \in Binding : binding[b].phase = "serving" =>
          b \in owed \/ states[binding[b].actor].route.binding = b

EndpointKey(s) == IF s.body # 0 THEN unit[s.body].key ELSE s.route.key

\* The endpoint messages go to is of the newest term that ever was an endpoint:
\* no late build and no late attach brings an older term back.
EndpointIsNewest ==
    \A a \in Actor : EndpointKey(states[a]) \in {0, served[a]}

\* "Retrying can never make this older one current": after ErrAttachStale for a
\* key no route of that key or an older one is ever published.
StaleIsFinal ==
    [][\A a \in Actor :
          LET r == states'[a].route
          IN  r \in {states[a].route, NoRoute} \/ r.key > stale[a]]_vars

\* A Close that reports no leak left nothing running and nothing reachable.
CleanCloseIsQuiet ==
    verdict = "clean" =>
        /\ \A u \in Unit : unit[u].phase \in {"free", "done"}
        /\ \A a \in Actor : states[a].body = 0 /\ states[a].route = NoRoute

Converged(a) ==
    LET s == states[a]
        d == ledger[a]
    IN  /\ \A u \in s.retiring : ~Alive(u)
        /\ CASE d.kind = "body" -> Alive(s.body) /\ unit[s.body].key = d.key /\ s.route = NoRoute
             [] d.kind = "carrier" -> s.body = 0 /\ s.build = 0 /\ s.route.key \in {0, d.key}
             [] OTHER -> s.body = 0 /\ s.build = 0 /\ s.route = NoRoute

\* Once commands stop, an open host converges on the ledger: the desired body
\* runs, whatever builds failed and bodies died on the way; an actor that is
\* elsewhere or gone has no body here, and no route of an older term; and what
\* was retired does not go on running.
Converges == \A a \in Actor : <>[](sealed \/ Converged(a))

=============================================================================

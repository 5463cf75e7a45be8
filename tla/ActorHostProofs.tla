-------------------------- MODULE ActorHostProofs --------------------------
(***************************************************************************)
(* Theorems about ActorHost: the states map, the routes, the terms of the  *)
(* endpoints and a clean Close, for any number of actors, units, bindings  *)
(* and keys, and for any number of crashes and connections.                *)
(***************************************************************************)
EXTENDS ActorHost, TLAPS

-----------------------------------------------------------------------------
(* The inductive invariant *)

Unstarted == {"free", "building"}

\* The job, the body and the retiring units of an actor are its own, the job at
\* its builder and the others past it; a body is of the newest term and alone.
UnitsOf(a) ==
    LET s == states[a]
    IN  /\ s.build # 0 => unit[s.build].actor = a /\ unit[s.build].phase = "building"
        /\ \A u \in s.retiring : unit[u].actor = a /\ unit[u].phase \notin Unstarted
        /\ s.body # 0 =>
              /\ unit[s.body].actor = a /\ unit[s.body].phase \notin Unstarted
              /\ unit[s.body].key = served[a]
              /\ s.body \notin s.retiring /\ s.route = NoRoute

\* A route is the connection of the newest term that is or was served.
RouteOK(a) ==
    LET r == states[a].route
    IN  IF r.binding = 0 THEN r = NoRoute
        ELSE /\ binding[r.binding].actor = a /\ binding[r.binding].phase \in {"serving", "ended"}
             /\ r.key = served[a]

\* Keys only grow on their way from the ledger to the snapshot, to what is desired
\* and to the endpoints; what was called stale is older than all that is to come.
KeysOf(a) ==
    LET d == states[a].desired
        i == inbound[a]
        l == ledger[a]
    IN  /\ l.kind # "none" => l.key > 0
        /\ served[a] <= l.key /\ (stale[a] = 0 \/ stale[a] < l.key)
        /\ d.kind # "none" => /\ served[a] <= d.key /\ d.key <= l.key /\ stale[a] < d.key
        /\ i.kind # "none" => /\ served[a] <= i.key /\ i.key <= l.key /\ stale[a] < i.key
                              /\ d.kind # "none" => d.key <= i.key

\* The states map has an entry for what is not empty; only a body is retried.
EntryOK(a) ==
    /\ (a \in known) <=> (states[a] # EmptyState)
    /\ states[a].backoff => states[a].desired.kind = "body"

\* A unit past its builder is held by its actor.
UnitHeld(u) ==
    /\ unit[u].phase # "free" => unit[u].actor \in Actor
    /\ unit[u].phase \notin Unstarted =>
          u = states[unit[u].actor].body \/ u \in states[unit[u].actor].retiring

\* A connection that is served is its actor's route, or about to be closed.
BindingHeld(b) ==
    /\ binding[b].phase # "free" => binding[b].actor \in Actor
    /\ binding[b].phase = "serving" =>
          b \in owed \/ states[binding[b].actor].route.binding = b

\* What Close has done so far stays done.
CloseInv ==
    /\ closing # "open" => sealed
    /\ verdict = "clean" => /\ closing = "closed" /\ joined
                            /\ \A u \in Unit : unit[u].phase \in {"free", "done"}
    /\ closing \in {"watch", "closed"} => sweep = {}
    /\ closing = "watch" => joined
    /\ closing \in {"sweep", "watch", "closed"} /\ joined =>
          /\ \A u \in Unit : unit[u].phase # "building"
          /\ \A a \in Actor \ sweep : states[a].body = 0 /\ states[a].route = NoRoute

HostInv ==
    /\ TypeOK
    /\ \A a \in Actor : UnitsOf(a) /\ RouteOK(a) /\ KeysOf(a) /\ EntryOK(a)
    /\ \A u \in Unit : UnitHeld(u)
    /\ \A b \in Binding : BindingHeld(b)
    /\ CloseInv

-----------------------------------------------------------------------------
(* The entries of the states map *)

HostState ==
    [desired : Desired, build : Unit \cup {0}, body : Unit \cup {0},
     route : [key : Key, binding : Binding \cup {0}], retiring : SUBSET Unit, backoff : BOOLEAN]

\* An entry with all its fields at rest is the empty one.
LEMMA EmptyFields ==
    ASSUME NEW s \in HostState
    PROVE  s = EmptyState <=>
             /\ s.desired = NoDesired /\ s.build = 0 /\ s.body = 0 /\ s.route = NoRoute
             /\ s.retiring = {} /\ ~s.backoff
<1>1. s = EmptyState => /\ s.desired = NoDesired /\ s.build = 0 /\ s.body = 0 /\ s.route = NoRoute
                        /\ s.retiring = {} /\ ~s.backoff
  BY DEF EmptyState
<1>2. ASSUME /\ s.desired = NoDesired /\ s.build = 0 /\ s.body = 0 /\ s.route = NoRoute
             /\ s.retiring = {} /\ ~s.backoff
      PROVE  s = EmptyState
  <2>1. s.backoff = FALSE
    BY <1>2, Zenon DEF HostState
  <2>. QED  BY <1>2, <2>1, Zenon DEF EmptyState, HostState
<1>. QED  BY <1>1, <1>2, Zenon

\* retireLocked takes the body out of its place and keeps hold of it.
LEMMA RetireFields ==
    ASSUME NEW s \in HostState
    PROVE  /\ Retire(s) \in HostState /\ Retire(s).body = 0
           /\ Retire(s).retiring = s.retiring \cup ({s.body} \ {0})
           /\ Retire(s).desired = s.desired /\ Retire(s).build = s.build
           /\ Retire(s).route = s.route /\ Retire(s).backoff = s.backoff
<1>1. s.retiring \cup ({s.body} \ {0}) \in SUBSET Unit
  BY Zenon DEF HostState
<1>. QED  BY <1>1, Zenon DEF Retire, HostState

LEMMA ClearedFields ==
    ASSUME NEW s \in HostState
    PROVE  /\ Cleared(s) \in HostState /\ Cleared(s).body = 0 /\ Cleared(s).build = 0
           /\ Cleared(s).retiring = s.retiring \cup ({s.body} \ {0})
           /\ Cleared(s).desired = s.desired /\ Cleared(s).route = s.route /\ ~Cleared(s).backoff
<1>. PICK r : r = Retire(s)
  BY Zenon
<1>1. /\ r \in HostState /\ r.body = 0 /\ r.retiring = s.retiring \cup ({s.body} \ {0})
      /\ r.desired = s.desired /\ r.route = s.route
  BY RetireFields, Zenon
<1>. QED  BY <1>1, ZenonT(30) DEF Cleared, HostState

LEMMA DropRouteFields ==
    ASSUME NEW s \in HostState
    PROVE  /\ DropRoute(s) \in HostState /\ DropRoute(s).route = NoRoute
           /\ DropRoute(s).body = s.body /\ DropRoute(s).build = s.build
           /\ DropRoute(s).retiring = s.retiring /\ DropRoute(s).desired = s.desired
           /\ DropRoute(s).backoff = s.backoff
<1>1. NoRoute \in [key : Key, binding : Binding \cup {0}]
  BY HostAssumption DEF NoRoute, Key
<1>. QED  BY <1>1, Zenon DEF DropRoute, HostState

LEMMA SweptFields ==
    ASSUME NEW s \in HostState
    PROVE  /\ Swept(s) \in HostState /\ Swept(s).body = 0 /\ Swept(s).build = 0
           /\ Swept(s).retiring = s.retiring \cup ({s.body} \ {0})
           /\ Swept(s).desired = NoDesired /\ Swept(s).route = NoRoute /\ ~Swept(s).backoff
<1>. PICK c : c = [Cleared(s) EXCEPT !.desired = NoDesired]
  BY Zenon
<1>1. NoDesired \in Desired
  BY HostAssumption DEF NoDesired, Desired, Key
<1>2. /\ c \in HostState /\ c.body = 0 /\ c.build = 0 /\ ~c.backoff /\ c.desired = NoDesired
      /\ c.retiring = s.retiring \cup ({s.body} \ {0})
  <2>. PICK k : k = Cleared(s)
    BY Zenon
  <2>1. /\ k \in HostState /\ k.body = 0 /\ k.build = 0 /\ ~k.backoff
        /\ k.retiring = s.retiring \cup ({s.body} \ {0})
    BY ClearedFields, Zenon
  <2>. QED  BY <1>1, <2>1, Zenon DEF HostState
<1>. QED  BY <1>2, DropRouteFields, Zenon DEF Swept

\* A snapshot's word replaces what was desired, and drops a job for anything else.
LEMMA AcceptedFields ==
    ASSUME NEW s \in HostState, NEW d \in Desired
    PROVE  /\ Accepted(s, d) \in HostState /\ Accepted(s, d).desired = d
           /\ Accepted(s, d).build \in {0, s.build} /\ Accepted(s, d).body = s.body
           /\ Accepted(s, d).route = s.route /\ Accepted(s, d).retiring = s.retiring
           /\ ~Accepted(s, d).backoff
<1>. PICK j : j = IF s.build # 0 /\ d.kind = "body" /\ unit[s.build].key = d.key THEN s.build ELSE 0
  BY Zenon
<1>1. j \in {0, s.build} /\ j \in Unit \cup {0}
  BY Zenon DEF HostState
<1>2. Accepted(s, d) = [s EXCEPT !.desired = d, !.backoff = FALSE, !.build = j]
  BY Zenon DEF Accepted
<1>. QED  BY <1>1, <1>2, Zenon DEF HostState

-----------------------------------------------------------------------------
(* One entry changes *)

LEMMA InitInv ==
    Init => HostInv
<1>. SUFFICES ASSUME Init PROVE HostInv
  BY Zenon
<1>1. NoDesired \in Desired /\ EmptyState \in HostState /\ 0 \in Key
  BY HostAssumption DEF NoDesired, Desired, Key, EmptyState, HostState, NoRoute
<1>2. /\ \A u \in Unit : unit[u] = FreeUnit
      /\ \A b \in Binding : binding[b] = FreeBinding
      /\ \A a \in Actor : /\ states[a] = EmptyState /\ ledger[a] = NoDesired
                          /\ inbound[a] = NoDesired /\ served[a] = 0 /\ stale[a] = 0
  BY Zenon DEF Init
<1>3. TypeOK
  <2>1. unit \in [Unit -> [actor : Actor \cup {0}, key : Key, phase : UnitPhase]]
    BY <1>1, Zenon DEF Init, FreeUnit, UnitPhase
  <2>2. binding \in [Binding -> [actor : Actor \cup {0}, key : Key, phase : BindingPhase]]
    BY <1>1, Zenon DEF Init, FreeBinding, BindingPhase
  <2>3. ledger \in [Actor -> Desired] /\ inbound \in [Actor -> Desired]
    BY <1>1, Zenon DEF Init
  <2>4. states \in [Actor -> HostState] /\ served \in [Actor -> Key] /\ stale \in [Actor -> Key]
    BY <1>1, Zenon DEF Init
  <2>5. /\ todo \subseteq Actor /\ known \subseteq Actor /\ sweep \subseteq Actor /\ owed \subseteq Binding
        /\ feed \in {"idle", "held", "applying"} /\ closing \in ClosePhase
        /\ verdict \in {"none", "clean", "leak"} /\ crashes \in 0 .. MaxCrash
    BY HostAssumption DEF Init, ClosePhase
  <2>6. sealed \in BOOLEAN /\ late \in BOOLEAN /\ joined \in BOOLEAN
    BY Zenon DEF Init
  <2>. QED  BY <2>1, <2>2, <2>3, <2>4, <2>5, <2>6, Zenon DEF TypeOK, HostState
<1>4. \A a \in Actor : UnitsOf(a) /\ RouteOK(a) /\ KeysOf(a) /\ EntryOK(a)
  BY <1>2 DEF UnitsOf, RouteOK, KeysOf, EntryOK, EmptyState, NoDesired, NoRoute, Init
<1>5. (\A u \in Unit : UnitHeld(u)) /\ (\A b \in Binding : BindingHeld(b))
  BY <1>2 DEF UnitHeld, BindingHeld, Unstarted, FreeUnit, FreeBinding
<1>6. CloseInv
  BY <1>2, Zenon DEF CloseInv, Init
<1>. QED  BY <1>3, <1>4, <1>5, <1>6, Zenon DEF HostInv

\* An entry may give up its job, its body to the retiring ones, and its route to
\* those about to close it.
LessThan(s, t, closes) ==
    /\ s.build \in {0, t.build}
    /\ \/ s.body = t.body /\ s.retiring = t.retiring
       \/ s.body = 0 /\ s.retiring = t.retiring \cup ({t.body} \ {0})
    /\ \/ s.route = t.route
       \/ s.route = NoRoute /\ RouteOf(t) \subseteq closes

LEMMA OneEntry ==
    ASSUME TypeOK, NEW a \in Actor, NEW s \in HostState, states' = [states EXCEPT ![a] = s]
    PROVE  /\ states' \in [Actor -> HostState] /\ states'[a] = s
           /\ \A c \in Actor \ {a} : states'[c] = states[c]
           /\ states[a] \in HostState
  BY Zenon DEF TypeOK, HostState

LEMMA LessKeeps ==
    ASSUME HostInv, NEW a \in Actor, NEW s \in HostState, states' = [states EXCEPT ![a] = s],
           owed \subseteq owed', LessThan(s, states[a], owed'),
           UNCHANGED <<unit, binding, served>>
    PROVE  /\ \A c \in Actor : UnitsOf(c)' /\ RouteOK(c)'
           /\ \A u \in Unit : UnitHeld(u)'
           /\ \A b \in Binding : BindingHeld(b)'
           /\ \A c \in Actor : states[c].body = 0 /\ states[c].route = NoRoute
                                 => states'[c].body = 0 /\ states'[c].route = NoRoute
<1>. PICK t : t = states[a]
  BY Zenon
<1>1. TypeOK /\ \A c \in Actor : UnitsOf(c) /\ RouteOK(c)
  BY Zenon DEF HostInv
<1>2. /\ states'[a] = s /\ t \in HostState
      /\ \A c \in Actor \ {a} : states'[c] = states[c]
  BY <1>1, OneEntry, Zenon
<1>3. LessThan(s, t, owed')
  BY Zenon
<1>4. UnitsOf(a)'
  <2>1. /\ t.build # 0 => unit[t.build].actor = a /\ unit[t.build].phase = "building"
        /\ \A u \in t.retiring : unit[u].actor = a /\ unit[u].phase \notin Unstarted
        /\ t.body # 0 =>
              /\ unit[t.body].actor = a /\ unit[t.body].phase \notin Unstarted
              /\ unit[t.body].key = served[a]
              /\ t.body \notin t.retiring /\ t.route = NoRoute
    BY <1>1, Zenon DEF UnitsOf
  <2>2. s.build # 0 => unit[s.build].actor = a /\ unit[s.build].phase = "building"
    BY <1>3, <2>1, Zenon DEF LessThan
  <2>3. \A u \in s.retiring : unit[u].actor = a /\ unit[u].phase \notin Unstarted
    BY <1>3, <2>1, Zenon DEF LessThan
  <2>4. s.body # 0 =>
              /\ unit[s.body].actor = a /\ unit[s.body].phase \notin Unstarted
              /\ unit[s.body].key = served[a]
              /\ s.body \notin s.retiring /\ s.route = NoRoute
    BY <1>3, <2>1, Zenon DEF LessThan
  <2>. QED  BY <1>2, <2>2, <2>3, <2>4, Zenon DEF UnitsOf
<1>5. \A c \in Actor \ {a} : UnitsOf(c)' /\ RouteOK(c)'
  BY <1>1, <1>2 DEF UnitsOf, RouteOK
<1>6. RouteOK(a)'
  BY <1>1, <1>2, <1>3 DEF LessThan, RouteOK, NoRoute
<1>7. ASSUME NEW u \in Unit PROVE UnitHeld(u)'
  <2>1. UnitHeld(u)
    BY Zenon DEF HostInv
  <2>2. CASE unit[u].phase \notin Unstarted /\ unit[u].actor = a
    <3>1. u = t.body \/ u \in t.retiring
      BY <2>1, <2>2, Zenon DEF UnitHeld
    <3>2. u # 0
      BY HostAssumption, Zenon
    <3>3. u = s.body \/ u \in s.retiring
      BY <1>3, <3>1, <3>2, Zenon DEF LessThan
    <3>. QED  BY <1>2, <2>2, <3>3, Zenon DEF UnitHeld
  <2>3. CASE unit[u].phase \notin Unstarted /\ unit[u].actor # a
    <3>1. unit[u].actor \in Actor \ {a}
      BY <2>1, <2>3, Zenon DEF UnitHeld, Unstarted
    <3>. QED  BY <1>2, <2>1, <2>3, <3>1, Zenon DEF UnitHeld
  <2>4. CASE unit[u].phase \in Unstarted
    BY <2>1, <2>4, Zenon DEF UnitHeld
  <2>. QED  BY <2>2, <2>3, <2>4, Zenon
<1>8. ASSUME NEW b \in Binding PROVE BindingHeld(b)'
  <2>1. BindingHeld(b)
    BY Zenon DEF HostInv
  <2>2. CASE binding[b].phase = "serving" /\ b \notin owed /\ binding[b].actor = a
    <3>1. t.route.binding = b /\ b # 0
      BY <2>1, <2>2, HostAssumption, Zenon DEF BindingHeld
    <3>2. s.route.binding = b \/ b \in owed'
      BY <1>3, <3>1, Zenon DEF LessThan, RouteOf
    <3>. QED  BY <1>2, <2>2, <3>2, Zenon DEF BindingHeld
  <2>3. CASE binding[b].phase = "serving" /\ b \notin owed /\ binding[b].actor # a
    <3>1. binding[b].actor \in Actor \ {a}
      BY <2>1, <2>3, Zenon DEF BindingHeld
    <3>. QED  BY <1>2, <2>1, <2>3, <3>1, Zenon DEF BindingHeld
  <2>4. CASE ~(binding[b].phase = "serving" /\ b \notin owed)
    BY <2>1, <2>4, Zenon DEF BindingHeld
  <2>. QED  BY <2>2, <2>3, <2>4, Zenon
<1>9. ASSUME NEW c \in Actor, states[c].body = 0, states[c].route = NoRoute
      PROVE  states'[c].body = 0 /\ states'[c].route = NoRoute
  BY <1>2, <1>3, <1>9, Zenon DEF LessThan
<1>. QED  BY <1>4, <1>5, <1>6, <1>7, <1>8, <1>9, Zenon

-----------------------------------------------------------------------------
(* The feed *)

\* The Go reader takes a frame off the pipe.
LEMMA ReadKeeps ==
    ASSUME HostInv, AcceptFullDesired \/ ReadDesired \/ \E a \in Actor : Command(a)
    PROVE  HostInv'
<1>0. TypeOK /\ \A c \in Actor : KeysOf(c)
  BY Zenon DEF HostInv
<1>1. UNCHANGED <<tableVars, unit, binding, owed, closeVars, crashes, ghosts>>
  BY Zenon DEF AcceptFullDesired, ReadDesired, Command
<1>2. NoDesired \in Desired
  BY HostAssumption DEF NoDesired, Desired, Key
<1>3. /\ ledger' \in [Actor -> Desired] /\ inbound' \in [Actor -> Desired]
      /\ feed' \in {"idle", "held", "applying"} /\ todo' \subseteq Actor
  <2>1. CASE AcceptFullDesired
    <3>1. todo' \subseteq Actor
      BY <2>1, Zenon DEF AcceptFullDesired
    <3>. QED  BY <1>0, <1>2, <2>1, <3>1, Zenon DEF AcceptFullDesired, LetGo, TypeOK
  <2>2. CASE ReadDesired
    BY <1>0, <1>2, <2>2, Zenon DEF ReadDesired, TypeOK
  <2>3. ASSUME NEW a \in Actor, Command(a)
        PROVE  /\ ledger' \in [Actor -> Desired] /\ inbound' \in [Actor -> Desired]
               /\ feed' \in {"idle", "held", "applying"} /\ todo' \subseteq Actor
    <3>1. PICK k \in Kinds \cup {"none"} :
             ledger' = [ledger EXCEPT ![a] = [kind |-> k, key |-> ledger[a].key + 1]]
      BY <2>3, Zenon DEF Command
    <3>2. ledger[a].key + 1 \in Key
      BY <1>0, <2>3, HostAssumption DEF Command, TypeOK, Desired, Key
    <3>3. ledger' \in [Actor -> Desired]
      BY <1>0, <3>1, <3>2, Zenon DEF TypeOK, Desired
    <3>. QED  BY <1>0, <2>3, <3>3, Zenon DEF Command, TypeOK
  <2>. QED  BY <2>1, <2>2, <2>3, Zenon
<1>4. TypeOK'
  BY <1>0, <1>1, <1>3, Zenon DEF TypeOK, tableVars, closeVars, ghosts
<1>5. ASSUME NEW c \in Actor PROVE KeysOf(c)'
  <2>0. /\ KeysOf(c) /\ ledger[c].key \in Nat /\ states[c].desired.key \in Nat
        /\ inbound[c].key \in Nat /\ served[c] \in Nat /\ stale[c] \in Nat
    BY <1>0, HostAssumption DEF TypeOK, Desired, Key
  <2>1. CASE AcceptFullDesired
    <3>1. inbound'[c] \in {inbound[c], NoDesired} /\ ledger' = ledger
      BY <2>1, Zenon DEF AcceptFullDesired, LetGo
    <3>. QED  BY <1>1, <2>0, <3>1 DEF KeysOf, NoDesired, tableVars, ghosts
  <2>2. CASE ReadDesired
    <3>1. inbound'[c] \in {ledger[c], NoDesired} /\ ledger' = ledger
      BY <2>2, Zenon DEF ReadDesired
    <3>. QED  BY <1>1, <2>0, <3>1 DEF KeysOf, NoDesired, tableVars, ghosts
  <2>3. ASSUME NEW a \in Actor, Command(a) PROVE KeysOf(c)'
    <3>1. PICK k \in Kinds \cup {"none"} :
             ledger' = [ledger EXCEPT ![a] = [kind |-> k, key |-> ledger[a].key + 1]]
      BY <2>3, Zenon DEF Command
    <3>2. inbound' = inbound
      BY <2>3, Zenon DEF Command
    <3>3. ledger'[c].key \in {ledger[c].key, ledger[c].key + 1}
      BY <1>0, <3>1, Zenon DEF TypeOK
    <3>4. ledger'[c] = ledger[c] \/ ledger'[c].key = ledger[c].key + 1
      BY <1>0, <3>1, Zenon DEF TypeOK
    <3>. QED  BY <1>1, <2>0, <3>2, <3>3, <3>4 DEF KeysOf, tableVars, ghosts
  <2>. QED  BY <2>1, <2>2, <2>3, Zenon
<1>6. \A c \in Actor : UnitsOf(c)' /\ RouteOK(c)' /\ EntryOK(c)'
  BY <1>1 DEF HostInv, UnitsOf, RouteOK, EntryOK, tableVars, ghosts
<1>7. (\A u \in Unit : UnitHeld(u)') /\ (\A b \in Binding : BindingHeld(b)')
  BY <1>1, Zenon DEF HostInv, UnitHeld, BindingHeld, tableVars
<1>8. CloseInv'
  BY <1>1, Zenon DEF HostInv, CloseInv, tableVars, closeVars
<1>. QED  BY <1>4, <1>5, <1>6, <1>7, <1>8, Zenon DEF HostInv

\* The entry of an actor the host looks at again: what is desired is what it was,
\* or the snapshot's word; the entry stays in the map while it is not empty.
LEMMA AcceptOneKeeps ==
    ASSUME HostInv, NEW a \in Actor, AcceptOne(a)
    PROVE  HostInv'
<1>0. TypeOK /\ (\A c \in Actor : KeysOf(c) /\ EntryOK(c)) /\ CloseInv
  BY Zenon DEF HostInv
<1>1. UNCHANGED <<ledger, unit, binding, owed, closeVars, crashes, ghosts>>
  BY Zenon DEF AcceptOne
<1>2. NoDesired \in Desired
  BY HostAssumption DEF NoDesired, Desired, Key
<1>3. /\ inbound' \in [Actor -> Desired] /\ feed' \in {"idle", "held", "applying"}
      /\ todo' \subseteq Actor /\ \A c \in Actor : inbound'[c] \in {inbound[c], NoDesired}
  <2>1. todo' \subseteq Actor
    BY <1>0, Zenon DEF AcceptOne, TypeOK
  <2>. QED  BY <1>0, <1>2, <2>1, Zenon DEF AcceptOne, LetGo, TypeOK
<1>4. CASE sealed
  <2>1. UNCHANGED tableVars
    BY <1>4, Zenon DEF AcceptOne
  <2>2. TypeOK'
    BY <1>0, <1>1, <1>3, <2>1, Zenon DEF TypeOK, tableVars, closeVars, ghosts
  <2>3. \A c \in Actor : KeysOf(c)'
    BY <1>0, <1>1, <1>3, <2>1 DEF KeysOf, tableVars, ghosts, NoDesired
  <2>4. \A c \in Actor : UnitsOf(c)' /\ RouteOK(c)' /\ EntryOK(c)'
    BY <1>1, <2>1 DEF HostInv, UnitsOf, RouteOK, EntryOK, tableVars, ghosts
  <2>5. (\A u \in Unit : UnitHeld(u)') /\ (\A b \in Binding : BindingHeld(b)')
    BY <1>1, <2>1, Zenon DEF HostInv, UnitHeld, BindingHeld, tableVars
  <2>6. CloseInv'
    BY <1>1, <2>1, Zenon DEF HostInv, CloseInv, tableVars, closeVars
  <2>. QED  BY <2>2, <2>3, <2>4, <2>5, <2>6, Zenon DEF HostInv
<1>5. CASE ~sealed
  <2>. PICK d : d = inbound[a]
    BY Zenon
  <2>. PICK t : t = states[a]
    BY Zenon
  <2>. PICK s : s = Accepted(t, d)
    BY Zenon
  <2>1. d \in Desired /\ t \in HostState
    BY <1>0, Zenon DEF TypeOK, HostState
  <2>2. /\ s \in HostState /\ s.desired = d /\ s.build \in {0, t.build} /\ s.body = t.body
        /\ s.route = t.route /\ s.retiring = t.retiring /\ ~s.backoff
    BY <2>1, AcceptedFields, ZenonT(30)
  <2>3. /\ states' = [states EXCEPT ![a] = s]
        /\ known' = IF d = NoDesired THEN DeleteIfEmpty(a, s) ELSE known \cup {a}
    BY <1>5, Zenon DEF AcceptOne
  <2>4. /\ states' \in [Actor -> HostState] /\ states'[a] = s
        /\ \A c \in Actor \ {a} : states'[c] = states[c]
    BY <1>0, <2>2, <2>3, OneEntry, Zenon
  <2>5. LessThan(s, states[a], owed')
    BY <2>2, Zenon DEF LessThan
  <2>6. /\ \A c \in Actor : UnitsOf(c)' /\ RouteOK(c)'
        /\ \A u \in Unit : UnitHeld(u)'
        /\ \A b \in Binding : BindingHeld(b)'
        /\ \A c \in Actor : states[c].body = 0 /\ states[c].route = NoRoute
                              => states'[c].body = 0 /\ states'[c].route = NoRoute
    <3>1. UNCHANGED <<unit, binding, served>> /\ owed \subseteq owed'
      BY <1>1, Zenon DEF ghosts
    <3>. QED  BY <2>2, <2>3, <2>5, <3>1, LessKeeps, Zenon
  <2>7. TypeOK'
    <3>1. known' \subseteq Actor
      BY <1>0, <2>3, Zenon DEF TypeOK, DeleteIfEmpty
    <3>. QED  BY <1>0, <1>1, <1>3, <2>4, <3>1, Zenon DEF TypeOK, HostState, closeVars, ghosts
  <2>8. ASSUME NEW c \in Actor PROVE KeysOf(c)'
    <3>1. CASE c = a
      <4>1. KeysOf(a) /\ states'[a].desired = inbound[a] /\ inbound'[a] \in {inbound[a], NoDesired}
        BY <1>0, <1>3, <2>2, <2>4, Zenon
      <4>2. inbound[a].key \in Nat
        BY <1>0, HostAssumption DEF TypeOK, Desired, Key
      <4>. QED  BY <1>1, <3>1, <4>1, <4>2 DEF KeysOf, NoDesired, ghosts
    <3>2. CASE c # a
      BY <1>0, <1>1, <1>3, <2>4, <3>2 DEF KeysOf, NoDesired, ghosts
    <3>. QED  BY <3>1, <3>2, Zenon
  <2>9. ASSUME NEW c \in Actor PROVE EntryOK(c)'
    <3>1. CASE c = a
      <4>1. s = EmptyState <=> a \notin known'
        <5>1. CASE d = NoDesired
          <6>1. t = EmptyState => s = EmptyState
            BY <2>1, <2>2, <5>1, EmptyFields, Zenon
          <6>. QED  BY <1>0, <2>3, <5>1, <6>1, Zenon DEF EntryOK, DeleteIfEmpty
        <5>2. CASE d # NoDesired
          BY <2>2, <2>3, <5>2, EmptyFields, Zenon
        <5>. QED  BY <5>1, <5>2, Zenon
      <4>. QED  BY <2>2, <2>4, <3>1, <4>1, Zenon DEF EntryOK
    <3>2. CASE c # a
      <4>1. c \in known' <=> c \in known
        BY <2>3, <3>2, Zenon DEF DeleteIfEmpty
      <4>. QED  BY <1>0, <2>4, <3>2, <4>1, Zenon DEF EntryOK
    <3>. QED  BY <3>1, <3>2, Zenon
  <2>10. CloseInv'
    BY <1>0, <1>1, <2>6, Zenon DEF CloseInv, closeVars
  <2>. QED  BY <2>6, <2>7, <2>8, <2>9, <2>10, Zenon DEF HostInv
<1>. QED  BY <1>4, <1>5, Zenon

-----------------------------------------------------------------------------
(* Passes and Close *)

\* A step that only lets go of things at one actor, and of its entry once empty.
Lets(a, s) ==
    /\ states' = [states EXCEPT ![a] = s] /\ known' = DeleteIfEmpty(a, s)
    /\ owed \subseteq owed' /\ owed' \subseteq Binding
    /\ LessThan(s, states[a], owed')
    /\ s.desired \in {states[a].desired, NoDesired}
    /\ s.backoff => s.desired.kind = "body"
    /\ states[a] = EmptyState => s = EmptyState
    /\ UNCHANGED <<feedVars, unit, binding, crashes, ghosts>>

LEMMA EntryKeeps ==
    ASSUME HostInv, NEW a \in Actor, NEW s \in HostState, Lets(a, s)
    PROVE  /\ states' \in [Actor -> HostState] /\ known' \subseteq Actor
           /\ \A c \in Actor : UnitsOf(c)' /\ RouteOK(c)' /\ KeysOf(c)' /\ EntryOK(c)'
           /\ \A u \in Unit : UnitHeld(u)'
           /\ \A b \in Binding : BindingHeld(b)'
           /\ \A c \in Actor : states[c].body = 0 /\ states[c].route = NoRoute
                                 => states'[c].body = 0 /\ states'[c].route = NoRoute
<1>0. TypeOK /\ (\A c \in Actor : KeysOf(c) /\ EntryOK(c))
  BY Zenon DEF HostInv
<1>1. /\ states' = [states EXCEPT ![a] = s] /\ known' = DeleteIfEmpty(a, s)
      /\ s.desired \in {states[a].desired, NoDesired}
      /\ s.backoff => s.desired.kind = "body"
      /\ states[a] = EmptyState => s = EmptyState
      /\ UNCHANGED <<feedVars, unit, binding, crashes, ghosts>>
  BY Zenon DEF Lets
<1>2. /\ states' \in [Actor -> HostState] /\ states'[a] = s
      /\ \A c \in Actor \ {a} : states'[c] = states[c]
  BY <1>0, <1>1, OneEntry, Zenon
<1>3. /\ \A c \in Actor : UnitsOf(c)' /\ RouteOK(c)'
      /\ \A u \in Unit : UnitHeld(u)'
      /\ \A b \in Binding : BindingHeld(b)'
      /\ \A c \in Actor : states[c].body = 0 /\ states[c].route = NoRoute
                            => states'[c].body = 0 /\ states'[c].route = NoRoute
  <2>1. UNCHANGED <<unit, binding, served>> /\ owed \subseteq owed' /\ LessThan(s, states[a], owed')
    BY <1>1, Zenon DEF ghosts, Lets
  <2>. QED  BY <1>1, <2>1, LessKeeps, Zenon
<1>4. known' \subseteq Actor
  BY <1>0, <1>1, Zenon DEF TypeOK, DeleteIfEmpty
<1>5. ASSUME NEW c \in Actor PROVE KeysOf(c)' /\ EntryOK(c)'
  <2>1. CASE c # a
    <3>1. c \in known' <=> c \in known
      BY <1>1, <2>1, Zenon DEF DeleteIfEmpty
    <3>. QED  BY <1>0, <1>1, <1>2, <2>1, <3>1, Zenon DEF KeysOf, EntryOK, feedVars, ghosts
  <2>2. CASE c = a
    <3>1. s = EmptyState <=> a \notin known'
      BY <1>0, <1>1, Zenon DEF EntryOK, DeleteIfEmpty
    <3>2. EntryOK(a)'
      BY <1>1, <1>2, <3>1, Zenon DEF EntryOK
    <3>3. KeysOf(a)'
      BY <1>0, <1>1, <1>2 DEF KeysOf, NoDesired, feedVars, ghosts
    <3>. QED  BY <2>2, <3>2, <3>3, Zenon
  <2>. QED  BY <2>1, <2>2, Zenon
<1>. QED  BY <1>2, <1>3, <1>4, <1>5, Zenon

LEMMA LetsKeeps ==
    ASSUME HostInv, NEW a \in Actor, NEW s \in HostState, Lets(a, s), UNCHANGED closeVars
    PROVE  HostInv'
<1>0. TypeOK /\ CloseInv
  BY Zenon DEF HostInv
<1>1. /\ states' \in [Actor -> HostState] /\ known' \subseteq Actor
      /\ \A c \in Actor : UnitsOf(c)' /\ RouteOK(c)' /\ KeysOf(c)' /\ EntryOK(c)'
      /\ \A u \in Unit : UnitHeld(u)'
      /\ \A b \in Binding : BindingHeld(b)'
      /\ \A c \in Actor : states[c].body = 0 /\ states[c].route = NoRoute
                            => states'[c].body = 0 /\ states'[c].route = NoRoute
  BY EntryKeeps, Zenon
<1>2. UNCHANGED <<feedVars, unit, binding, crashes, ghosts>> /\ owed' \subseteq Binding
  BY DEF Lets
<1>3. TypeOK'
  BY <1>0, <1>1, <1>2, Zenon DEF TypeOK, HostState, feedVars, closeVars, ghosts
<1>4. CloseInv'
  BY <1>0, <1>1, <1>2, Zenon DEF CloseInv, closeVars
<1>. QED  BY <1>1, <1>3, <1>4, Zenon DEF HostInv

LEMMA RetireLess ==
    ASSUME NEW s \in HostState, NEW closes
    PROVE  /\ LessThan(s, s, closes) /\ LessThan(Retire(s), s, closes)
           /\ LessThan(Cleared(s), s, closes)
           /\ RouteOf(s) \subseteq closes =>
                 LessThan(DropRoute(Cleared(s)), s, closes) /\ LessThan(Swept(s), s, closes)
<1>1. LessThan(s, s, closes)
  BY Zenon DEF LessThan
<1>2. LessThan(Retire(s), s, closes)
  BY RetireFields, Zenon DEF LessThan
<1>3. LessThan(Cleared(s), s, closes)
  BY ClearedFields, Zenon DEF LessThan
<1>4. LessThan(Swept(s), s, closes) \/ ~(RouteOf(s) \subseteq closes)
  BY SweptFields, Zenon DEF LessThan
<1>5. ASSUME RouteOf(s) \subseteq closes PROVE LessThan(DropRoute(Cleared(s)), s, closes)
  <2>. PICK c : c = Cleared(s)
    BY Zenon
  <2>. PICK d : d = DropRoute(c)
    BY Zenon
  <2>1. /\ c \in HostState /\ c.body = 0 /\ c.build = 0
        /\ c.retiring = s.retiring \cup ({s.body} \ {0})
    BY ClearedFields, Zenon
  <2>2. d.route = NoRoute /\ d.body = c.body /\ d.build = c.build /\ d.retiring = c.retiring
    BY <2>1, DropRouteFields, Zenon
  <2>. QED  BY <1>5, <2>1, <2>2, Zenon DEF LessThan
<1>. QED  BY <1>1, <1>2, <1>3, <1>4, <1>5, Zenon

LEMMA EndedKeeps ==
    ASSUME HostInv, NEW a \in Actor, ReconcileEnded(a)
    PROVE  HostInv'
<1>. PICK t : t = states[a]
  BY Zenon
<1>. PICK c : c = Cleared(t)
  BY Zenon
<1>. PICK s : s = DropRoute(c)
  BY Zenon
<1>0. TypeOK /\ t \in HostState
  BY Zenon DEF HostInv, TypeOK, HostState
<1>1. /\ states' = [states EXCEPT ![a] = s] /\ known' = DeleteIfEmpty(a, s)
      /\ owed' = owed \cup RouteOf(t)
      /\ UNCHANGED <<feedVars, unit, binding, closeVars, crashes, ghosts>>
  BY Zenon DEF ReconcileEnded
<1>2. /\ c \in HostState /\ c.body = 0 /\ c.build = 0
      /\ c.retiring = t.retiring \cup ({t.body} \ {0}) /\ c.desired = t.desired /\ ~c.backoff
  BY <1>0, ClearedFields, Zenon
<1>3. /\ s \in HostState /\ s.route = NoRoute /\ s.body = 0 /\ s.build = 0
      /\ s.retiring = c.retiring /\ s.desired = t.desired /\ ~s.backoff
  BY <1>2, DropRouteFields, Zenon
<1>4. t = EmptyState => s = EmptyState
  BY <1>0, <1>2, <1>3, EmptyFields, Zenon
<1>5. RouteOf(t) \subseteq Binding
  BY <1>0, Zenon DEF RouteOf, HostState
<1>6. LessThan(s, t, owed')
  BY <1>0, <1>1, RetireLess, Zenon
<1>7. Lets(a, s)
  BY <1>0, <1>1, <1>3, <1>4, <1>5, <1>6, Zenon DEF Lets, TypeOK
<1>. QED  BY <1>1, <1>3, <1>7, LetsKeeps, Zenon

LEMMA CarrierKeeps ==
    ASSUME HostInv, NEW a \in Actor, ReconcileCarrier(a)
    PROVE  HostInv'
<1>. PICK t : t = states[a]
  BY Zenon
<1>. PICK c : c = Cleared(t)
  BY Zenon
<1>0. TypeOK /\ t \in HostState /\ t.desired.kind = "carrier"
  BY Zenon DEF HostInv, TypeOK, HostState, ReconcileCarrier
<1>1. /\ known' = known /\ UNCHANGED <<feedVars, unit, binding, closeVars, crashes, ghosts>>
      /\ \/ states' = [states EXCEPT ![a] = c] /\ owed' = owed
         \/ states' = [states EXCEPT ![a] = DropRoute(c)] /\ owed' = owed \cup RouteOf(c)
  BY Zenon DEF ReconcileCarrier
<1>2. /\ c \in HostState /\ c.desired = t.desired /\ ~c.backoff /\ c.route = t.route
  BY <1>0, ClearedFields, Zenon
<1>3. ASSUME NEW s \in HostState, s.desired = t.desired PROVE s # EmptyState
  BY <1>0, <1>3 DEF EmptyState, NoDesired
<1>4. CASE states' = [states EXCEPT ![a] = c] /\ owed' = owed
  <2>1. LessThan(c, t, owed')
    BY <1>0, RetireLess, Zenon
  <2>2. known' = DeleteIfEmpty(a, c) /\ t # EmptyState
    BY <1>0, <1>1, <1>2, <1>3, Zenon DEF DeleteIfEmpty
  <2>3. Lets(a, c)
    BY <1>0, <1>1, <1>2, <1>4, <2>1, <2>2, Zenon DEF Lets, TypeOK
  <2>. QED  BY <1>1, <1>2, <2>3, LetsKeeps, Zenon
<1>5. CASE states' = [states EXCEPT ![a] = DropRoute(c)] /\ owed' = owed \cup RouteOf(c)
  <2>. PICK s : s = DropRoute(c)
    BY Zenon
  <2>1. s \in HostState /\ s.desired = t.desired /\ ~s.backoff
    BY <1>2, DropRouteFields, Zenon
  <2>2. RouteOf(c) \subseteq Binding /\ RouteOf(c) = RouteOf(t)
    BY <1>0, <1>2, Zenon DEF RouteOf, HostState
  <2>3. LessThan(s, t, owed')
    BY <1>0, <1>5, <2>2, RetireLess, Zenon
  <2>4. known' = DeleteIfEmpty(a, s) /\ t # EmptyState
    BY <1>0, <1>1, <1>3, <2>1, Zenon DEF DeleteIfEmpty
  <2>5. Lets(a, s)
    BY <1>0, <1>1, <1>5, <2>1, <2>2, <2>3, <2>4, Zenon DEF Lets, TypeOK
  <2>. QED  BY <1>1, <2>1, <2>5, LetsKeeps, Zenon
<1>. QED  BY <1>1, <1>4, <1>5, Zenon

LEMMA RetryKeeps ==
    ASSUME HostInv, NEW a \in Actor, RetryElapsed(a)
    PROVE  HostInv'
<1>. PICK t : t = states[a]
  BY Zenon
<1>. PICK s : s = [t EXCEPT !.backoff = FALSE]
  BY Zenon
<1>0. TypeOK /\ t \in HostState /\ t.desired.kind = "body"
  BY Zenon DEF HostInv, TypeOK, HostState, EntryOK, RetryElapsed
<1>1. /\ states' = [states EXCEPT ![a] = s] /\ known' = known /\ owed' = owed
      /\ UNCHANGED <<feedVars, unit, binding, closeVars, crashes, ghosts>>
  BY Zenon DEF RetryElapsed
<1>2. /\ s \in HostState /\ s.desired = t.desired /\ ~s.backoff /\ s.build = t.build
      /\ s.body = t.body /\ s.retiring = t.retiring /\ s.route = t.route
  BY <1>0, Zenon DEF HostState
<1>3. s # EmptyState /\ t # EmptyState
  BY <1>0, <1>2 DEF EmptyState, NoDesired
<1>4. LessThan(s, t, owed')
  BY <1>2, Zenon DEF LessThan
<1>5. Lets(a, s)
  BY <1>0, <1>1, <1>2, <1>3, <1>4, Zenon DEF Lets, TypeOK, DeleteIfEmpty
<1>. QED  BY <1>1, <1>2, <1>5, LetsKeeps, Zenon

LEMMA SweepKeeps ==
    ASSUME HostInv, NEW a \in Actor, CloseSweep(a)
    PROVE  HostInv'
<1>. PICK t : t = states[a]
  BY Zenon
<1>. PICK s : s = Swept(t)
  BY Zenon
<1>0. TypeOK /\ CloseInv /\ t \in HostState
  BY Zenon DEF HostInv, TypeOK, HostState
<1>1. /\ states' = [states EXCEPT ![a] = s] /\ owed' = owed \cup RouteOf(t)
      /\ sweep' = sweep \ {a} /\ closing = "sweep"
      /\ UNCHANGED <<sealed, closing, late, joined, verdict, feedVars, unit, binding, crashes, ghosts>>
  BY Zenon DEF CloseSweep, closeFrame
<1>2. /\ s \in HostState /\ s.desired = NoDesired /\ ~s.backoff /\ s.body = 0 /\ s.build = 0
      /\ s.route = NoRoute /\ s.retiring = t.retiring \cup ({t.body} \ {0})
  BY <1>0, SweptFields, Zenon
<1>3. t = EmptyState => s = EmptyState
  BY <1>0, <1>2, EmptyFields, Zenon
<1>4. RouteOf(t) \subseteq Binding
  BY <1>0 DEF RouteOf, HostState
<1>5. LessThan(s, t, owed')
  BY <1>0, <1>1, RetireLess, Zenon
<1>6. states'[a] = s /\ known' = DeleteIfEmpty(a, s)
  <2>1. states'[a] = s
    BY <1>0, <1>1, <1>2, OneEntry, Zenon
  <2>. QED  BY <2>1, Zenon DEF CloseSweep
<1>7. Lets(a, s)
  BY <1>0, <1>1, <1>2, <1>3, <1>4, <1>5, <1>6, Zenon DEF Lets, TypeOK
<1>8. /\ states' \in [Actor -> HostState] /\ known' \subseteq Actor
      /\ \A c \in Actor : UnitsOf(c)' /\ RouteOK(c)' /\ KeysOf(c)' /\ EntryOK(c)'
      /\ \A u \in Unit : UnitHeld(u)'
      /\ \A b \in Binding : BindingHeld(b)'
      /\ \A c \in Actor : states[c].body = 0 /\ states[c].route = NoRoute
                            => states'[c].body = 0 /\ states'[c].route = NoRoute
  BY <1>2, <1>7, EntryKeeps, Zenon
<1>9. TypeOK'
  BY <1>0, <1>1, <1>4, <1>8, Zenon DEF TypeOK, HostState, feedVars, ghosts
<1>10. CloseInv'
  BY <1>0, <1>1, <1>2, <1>6, <1>8, Zenon DEF CloseInv
<1>. QED  BY <1>8, <1>9, <1>10, Zenon DEF HostInv

\* The steps of Close that touch neither the entries nor the units.
LEMMA CloseKeeps ==
    ASSUME HostInv, CloseSeal \/ CloseExpires \/ CloseJoin \/ CloseSwept \/ CloseReturns
    PROVE  HostInv'
<1>0. TypeOK /\ CloseInv
  BY Zenon DEF HostInv
<1>1. UNCHANGED <<feedVars, tableVars, unit, binding, owed, crashes, ghosts>>
  BY Zenon DEF CloseSeal, CloseExpires, CloseJoin, CloseSwept, CloseReturns, closeFrame
<1>2. /\ \A c \in Actor : UnitsOf(c)' /\ RouteOK(c)' /\ KeysOf(c)' /\ EntryOK(c)'
      /\ \A u \in Unit : UnitHeld(u)'
      /\ \A b \in Binding : BindingHeld(b)'
  <2>1. \A c \in Actor : UnitsOf(c)' /\ RouteOK(c)'
    BY <1>1 DEF HostInv, UnitsOf, RouteOK, tableVars, ghosts
  <2>2. \A c \in Actor : KeysOf(c)' /\ EntryOK(c)'
    BY <1>1, Zenon DEF HostInv, KeysOf, EntryOK, tableVars, feedVars, ghosts
  <2>3. (\A u \in Unit : UnitHeld(u)') /\ (\A b \in Binding : BindingHeld(b)')
    BY <1>1, Zenon DEF HostInv, UnitHeld, BindingHeld, tableVars
  <2>. QED  BY <2>1, <2>2, <2>3, ZenonT(30)
<1>3. /\ closing' \in ClosePhase /\ verdict' \in {"none", "clean", "leak"} /\ sweep' \subseteq Actor
  BY <1>0, Zenon DEF CloseSeal, CloseExpires, CloseJoin, CloseSwept, CloseReturns, TypeOK, ClosePhase
<1>4. sealed' \in BOOLEAN /\ late' \in BOOLEAN /\ joined' \in BOOLEAN
  <2>1. (CloseSeal \/ CloseExpires) => sealed' \in BOOLEAN /\ late' \in BOOLEAN /\ joined' \in BOOLEAN
    BY <1>0, Zenon DEF CloseSeal, CloseExpires, TypeOK
  <2>2. CloseJoin => sealed' \in BOOLEAN /\ late' \in BOOLEAN /\ joined' \in BOOLEAN
    BY <1>0, Zenon DEF CloseJoin, TypeOK
  <2>3. CloseSwept \/ CloseReturns => sealed' \in BOOLEAN /\ late' \in BOOLEAN /\ joined' \in BOOLEAN
    BY <1>0, Zenon DEF CloseSwept, CloseReturns, TypeOK
  <2>. QED  BY <2>1, <2>2, <2>3, Zenon
<1>5. TypeOK'
  BY <1>0, <1>1, <1>3, <1>4, Zenon DEF TypeOK, feedVars, tableVars, ghosts
<1>6. CloseInv'
  <2>1. CASE CloseSeal
    BY <1>0, <1>1, <2>1, Zenon DEF CloseInv, CloseSeal, tableVars
  <2>2. CASE CloseExpires
    BY <1>0, <1>1, <2>2, Zenon DEF CloseInv, CloseExpires, tableVars
  <2>3. CASE CloseJoin
    <3>1. \A c \in Actor \ known : states[c].body = 0 /\ states[c].route = NoRoute
      BY  DEF HostInv, EntryOK, EmptyState
    <3>. QED  BY <1>0, <1>1, <2>3, <3>1, Zenon DEF CloseInv, CloseJoin, tableVars
  <2>4. CASE CloseSwept
    BY <1>0, <1>1, <2>4, Zenon DEF CloseInv, CloseSwept, tableVars
  <2>5. CASE CloseReturns
    <3>1. /\ closing = "watch" /\ closing' = "closed" /\ joined' = joined /\ sweep' = sweep
          /\ sealed' = sealed
      BY <2>5, Zenon DEF CloseReturns
    <3>2. ASSUME verdict' = "clean", NEW u \in Unit PROVE unit[u].phase \in {"free", "done"}
      <4>1. \A a \in Actor : \A v \in states[a].retiring : unit[v].phase = "done"
        BY <2>5, <3>2, Zenon DEF CloseReturns
      <4>2. CASE unit[u].phase \notin Unstarted
        <5>1. /\ unit[u].actor \in Actor
              /\ u = states[unit[u].actor].body \/ u \in states[unit[u].actor].retiring
          BY <4>2, Zenon DEF HostInv, UnitHeld, Unstarted
        <5>2. states[unit[u].actor].body = 0 /\ u # 0
          BY <1>0, <3>1, <5>1, HostAssumption, Zenon DEF CloseInv
        <5>. QED  BY <4>1, <5>1, <5>2, Zenon
      <4>3. unit[u].phase # "building"
        BY <1>0, <3>1, Zenon DEF CloseInv
      <4>. QED  BY <4>2, <4>3, Zenon DEF Unstarted
    <3>. QED  BY <1>0, <1>1, <3>1, <3>2, Zenon DEF CloseInv, tableVars
  <2>. QED  BY <2>1, <2>2, <2>3, <2>4, <2>5, Zenon
<1>. QED  BY <1>2, <1>5, <1>6, Zenon DEF HostInv

-----------------------------------------------------------------------------
(* Units *)

\* A unit that has begun goes on without the host: only its phase moves.
LEMMA StepKeeps ==
    ASSUME HostInv, NEW u \in Unit, crashes' \in 0 .. MaxCrash,
           NEW from \in UnitPhase \ (Unstarted \cup {"done"}), NEW to \in UnitPhase \ Unstarted,
           Step(u, from, to)
    PROVE  HostInv'
<1>0. TypeOK /\ CloseInv
  BY Zenon DEF HostInv
<1>1. /\ UNCHANGED <<feedVars, tableVars, binding, owed, closeVars, ghosts>>
      /\ unit' = [unit EXCEPT ![u].phase = to] /\ unit[u].phase = from
  BY Zenon DEF Step
<1>2. /\ unit' \in [Unit -> [actor : Actor \cup {0}, key : Key, phase : UnitPhase]]
      /\ \A v \in Unit : unit'[v].actor = unit[v].actor /\ unit'[v].key = unit[v].key
      /\ \A v \in Unit : unit'[v].phase = IF v = u THEN to ELSE unit[v].phase
  BY <1>0, <1>1 DEF TypeOK
<1>3. TypeOK'
  BY <1>0, <1>1, <1>2, Zenon DEF TypeOK, feedVars, tableVars, closeVars, ghosts
<1>4. \A v \in Unit : /\ unit'[v].phase \notin Unstarted <=> unit[v].phase \notin Unstarted
                      /\ unit'[v].phase = "building" <=> unit[v].phase = "building"
                      /\ unit'[v].phase = "free" <=> unit[v].phase = "free"
  BY <1>1, <1>2, Zenon DEF Unstarted
<1>5. ASSUME NEW c \in Actor PROVE UnitsOf(c)'
  <2>1. states[c].build \in Unit \cup {0} /\ states[c].body \in Unit \cup {0} /\ states[c].retiring \subseteq Unit
    BY <1>0, Zenon DEF TypeOK
  <2>2. UnitsOf(c)
    BY Zenon DEF HostInv
  <2>. QED  BY <1>1, <1>2, <1>4, <2>1, <2>2, ZenonT(30) DEF UnitsOf, tableVars, ghosts
<1>6. \A c \in Actor : RouteOK(c)' /\ KeysOf(c)' /\ EntryOK(c)'
  BY <1>1 DEF HostInv, RouteOK, KeysOf, EntryOK, feedVars, tableVars, ghosts
<1>7. \A v \in Unit : UnitHeld(v)'
  BY <1>1, <1>2, <1>4, Zenon DEF HostInv, UnitHeld, tableVars
<1>8. \A b \in Binding : BindingHeld(b)'
  BY <1>1, Zenon DEF HostInv, BindingHeld, tableVars
<1>9. CloseInv'
  <2>1. verdict # "clean"
    BY <1>0, <1>1, Zenon DEF CloseInv, Unstarted
  <2>. QED  BY <1>0, <1>1, <1>4, <2>1, Zenon DEF CloseInv, tableVars, closeVars
<1>. QED  BY <1>3, <1>5, <1>6, <1>7, <1>8, <1>9, Zenon DEF HostInv

LEMMA LifeKeeps ==
    ASSUME HostInv, NEW u \in Unit,
           BodyExits(u) \/ ParentCancelled(u) \/ StopUnit(u) \/ LoopReturns(u) \/ OnExited(u) \/ UnitDone(u)
    PROVE  HostInv'
<1>1. crashes' \in 0 .. MaxCrash
  BY HostAssumption DEF HostInv, TypeOK, BodyExits, ParentCancelled, StopUnit, LoopReturns, OnExited, UnitDone
<1>2. CASE BodyExits(u) \/ ParentCancelled(u)
  BY <1>1, <1>2, StepKeeps, Zenon DEF BodyExits, ParentCancelled, UnitPhase, Unstarted
<1>3. CASE StopUnit(u)
  <2>1. CASE Step(u, "running", "stopping")
    BY <1>1, <2>1, StepKeeps, Zenon DEF UnitPhase, Unstarted
  <2>2. CASE Step(u, "prepared", "ending")
    BY <1>1, <2>2, StepKeeps, Zenon DEF UnitPhase, Unstarted
  <2>. QED  BY <1>3, <2>1, <2>2, Zenon DEF StopUnit
<1>4. CASE LoopReturns(u)
  BY <1>1, <1>4, StepKeeps, Zenon DEF LoopReturns, UnitPhase, Unstarted
<1>5. CASE OnExited(u)
  BY <1>1, <1>5, StepKeeps, Zenon DEF OnExited, UnitPhase, Unstarted
<1>6. CASE UnitDone(u)
  BY <1>1, <1>6, StepKeeps, Zenon DEF UnitDone, UnitPhase, Unstarted
<1>. QED  BY <1>2, <1>3, <1>4, <1>5, <1>6, Zenon

UnitRec == [actor : Actor \cup {0}, key : Key, phase : UnitPhase]

\* The entry of an actor and one unit, free or its own, change together: entry a
\* keeps holding what it held, and nobody else notices.
Moves(a, s, u, n) ==
    /\ states' = [states EXCEPT ![a] = s] /\ unit' = [unit EXCEPT ![u] = n]
    /\ unit[u].phase = "free" \/ unit[u].actor = a
    /\ n.phase # "free" => n.actor = a
    /\ n.phase \notin Unstarted => u \in s.retiring \cup {s.body}
    /\ (states[a].retiring \cup {states[a].body}) \ {u, 0} \subseteq s.retiring \cup {s.body}
    /\ \/ s.route = states[a].route /\ served' = served
       \/ s.route = NoRoute /\ RouteOf(states[a]) \subseteq owed'
    /\ \A c \in Actor \ {a} : served'[c] = served[c]
    /\ owed \subseteq owed' /\ binding' = binding

LEMMA MovesKeep ==
    ASSUME HostInv, NEW a \in Actor, NEW s \in HostState, NEW u \in Unit, NEW n \in UnitRec,
           Moves(a, s, u, n)
    PROVE  /\ states' \in [Actor -> HostState] /\ states'[a] = s
           /\ \A c \in Actor \ {a} : states'[c] = states[c]
           /\ unit' \in [Unit -> UnitRec] /\ unit'[u] = n
           /\ \A v \in Unit \ {u} : unit'[v] = unit[v]
           /\ \A c \in Actor \ {a} : UnitsOf(c)'
           /\ \A c \in Actor : RouteOK(c)'
           /\ \A v \in Unit : UnitHeld(v)'
           /\ \A b \in Binding : BindingHeld(b)'
<1>. PICK t : t = states[a]
  BY Zenon
<1>0. TypeOK
  BY Zenon DEF HostInv
<1>1. /\ states' \in [Actor -> HostState] /\ states'[a] = s /\ t \in HostState
      /\ \A c \in Actor \ {a} : states'[c] = states[c]
  BY <1>0, OneEntry, Zenon DEF Moves
<1>2. /\ unit' \in [Unit -> UnitRec] /\ unit'[u] = n
      /\ \A v \in Unit \ {u} : unit'[v] = unit[v]
  BY <1>0, Zenon DEF Moves, TypeOK, UnitRec
<1>3. ASSUME NEW c \in Actor \ {a} PROVE UnitsOf(c)'
  <2>. PICK r : r = states[c]
    BY Zenon
  <2>1. r.build \in Unit \cup {0} /\ r.body \in Unit \cup {0} /\ r.retiring \subseteq Unit
    BY <1>0, Zenon DEF TypeOK
  <2>2. /\ r.build # 0 => unit[r.build].actor = c /\ unit[r.build].phase = "building"
        /\ \A v \in r.retiring : unit[v].actor = c /\ unit[v].phase \notin Unstarted
        /\ r.body # 0 =>
              /\ unit[r.body].actor = c /\ unit[r.body].phase \notin Unstarted
              /\ unit[r.body].key = served[c]
              /\ r.body \notin r.retiring /\ r.route = NoRoute
    BY Zenon DEF HostInv, UnitsOf
  <2>3. unit[u].phase = "free" \/ unit[u].actor = a
    BY Zenon DEF Moves
  <2>4. /\ r.build # 0 => r.build # u
        /\ r.body # 0 => r.body # u
        /\ u \notin r.retiring
    BY <2>2, <2>3 DEF Unstarted
  <2>5. served'[c] = served[c] /\ states'[c] = r
    BY <1>1, Zenon DEF Moves
  <2>. QED  BY <1>2, <2>1, <2>2, <2>4, <2>5, ZenonT(30) DEF UnitsOf
<1>4. ASSUME NEW c \in Actor PROVE RouteOK(c)'
  <2>1. RouteOK(c) /\ binding' = binding
    BY Zenon DEF HostInv, Moves
  <2>2. CASE c # a
    BY <1>1, <2>1, <2>2, Zenon DEF Moves, RouteOK
  <2>3. CASE c = a
    <3>1. s.route = NoRoute \/ (s.route = states[a].route /\ served' = served)
      BY Zenon DEF Moves
    <3>. QED  BY <1>1, <2>1, <2>3, <3>1 DEF RouteOK, NoRoute
  <2>. QED  BY <2>2, <2>3, Zenon
<1>5. ASSUME NEW v \in Unit PROVE UnitHeld(v)'
  <2>1. UnitHeld(v) /\ v # 0
    BY HostAssumption, Zenon DEF HostInv
  <2>2. CASE v = u
    <3>1. /\ n.phase # "free" => n.actor = a
          /\ n.phase \notin Unstarted => u \in s.retiring \cup {s.body}
      BY Zenon DEF Moves
    <3>2. n.phase \notin Unstarted => n.phase # "free"
      BY Zenon DEF Unstarted
    <3>. QED  BY <1>1, <1>2, <2>2, <3>1, <3>2, Zenon DEF UnitHeld
  <2>3. CASE v # u /\ unit[v].actor = a
    <3>1. (t.retiring \cup {t.body}) \ {u, 0} \subseteq s.retiring \cup {s.body}
      BY Zenon DEF Moves
    <3>2. unit[v].phase \notin Unstarted => v \in s.retiring \cup {s.body}
      BY <2>1, <2>3, <3>1, Zenon DEF UnitHeld
    <3>. QED  BY <1>1, <1>2, <2>1, <2>3, <3>2, Zenon DEF UnitHeld
  <2>4. CASE v # u /\ unit[v].actor # a
    <3>1. unit'[v] = unit[v]
      BY <1>2, <2>4, Zenon
    <3>2. unit[v].phase \notin Unstarted => unit[v].phase # "free"
      BY Zenon DEF Unstarted
    <3>3. unit[v].phase # "free" => states'[unit[v].actor] = states[unit[v].actor]
      BY <1>1, <2>1, <2>4, Zenon DEF UnitHeld
    <3>. QED  BY <2>1, <3>1, <3>2, <3>3 DEF UnitHeld
  <2>. QED  BY <2>2, <2>3, <2>4, Zenon
<1>6. ASSUME NEW b \in Binding PROVE BindingHeld(b)'
  <2>1. BindingHeld(b) /\ binding' = binding /\ owed \subseteq owed' /\ b # 0
    BY HostAssumption, Zenon DEF HostInv, Moves
  <2>2. CASE binding[b].phase = "serving" /\ b \notin owed /\ binding[b].actor = a
    <3>1. t.route.binding = b
      BY <2>1, <2>2, Zenon DEF BindingHeld
    <3>2. s.route = t.route \/ RouteOf(t) \subseteq owed'
      BY Zenon DEF Moves
    <3>3. s.route.binding = b \/ b \in owed'
      BY <2>1, <3>1, <3>2, Zenon DEF RouteOf
    <3>. QED  BY <1>1, <2>1, <2>2, <3>3, Zenon DEF BindingHeld
  <2>3. CASE binding[b].phase = "serving" /\ b \notin owed /\ binding[b].actor # a
    <3>1. binding[b].actor \in Actor \ {a}
      BY <2>1, <2>3, Zenon DEF BindingHeld
    <3>. QED  BY <1>1, <2>1, <2>3, <3>1, Zenon DEF BindingHeld
  <2>4. CASE ~(binding[b].phase = "serving" /\ b \notin owed)
    BY <2>1, <2>4, Zenon DEF BindingHeld
  <2>. QED  BY <2>2, <2>3, <2>4, Zenon
<1>. QED  BY <1>1, <1>2, <1>3, <1>4, <1>5, <1>6, Zenon

\* A pass over an actor that should have a body: a dead one is retired, and a
\* build begins with a unit nothing refers to.
LEMMA BodyKeeps ==
    ASSUME HostInv, NEW a \in Actor, ReconcileBody(a)
    PROVE  HostInv'
<1>. PICK t : t = states[a]
  BY Zenon
<1>. PICK h : h = Health(t)
  BY Zenon
<1>0. /\ TypeOK /\ CloseInv /\ t \in HostState /\ t.desired.kind = "body" /\ ~sealed
      /\ UnitsOf(a) /\ \A c \in Actor : KeysOf(c) /\ EntryOK(c)
  BY Zenon DEF HostInv, TypeOK, HostState, ReconcileBody
<1>1. h \in {t, Retire(t)}
  BY Zenon DEF Health
<1>2. /\ h \in HostState /\ h.desired = t.desired /\ h.backoff = t.backoff /\ h.route = t.route
      /\ h.build = t.build
      /\ \/ h.body = t.body /\ h.retiring = t.retiring
         \/ h.body = 0 /\ h.retiring = t.retiring \cup ({t.body} \ {0})
  BY <1>0, <1>1, RetireFields, ZenonT(30)
<1>3. UNCHANGED <<feedVars, known, binding, owed, closeVars, crashes, ghosts>>
  BY Zenon DEF ReconcileBody
<1>4. t # EmptyState /\ h # EmptyState
  BY <1>0, <1>2 DEF EmptyState, NoDesired
<1>5. CASE states' = [states EXCEPT ![a] = h] /\ unit' = unit
  <2>1. LessThan(h, t, owed')
    BY <1>0, <1>1, RetireLess, Zenon
  <2>2. h.backoff => h.desired.kind = "body"
    BY <1>0, <1>2, Zenon
  <2>3. Lets(a, h)
    BY <1>0, <1>2, <1>3, <1>4, <1>5, <2>1, <2>2, Zenon DEF Lets, TypeOK, DeleteIfEmpty
  <2>. QED  BY <1>2, <1>3, <2>3, LetsKeeps, Zenon
<1>6. CASE /\ NeedsBuild(h)
           /\ \E u \in First({v \in Unit : unit[v] = FreeUnit}) :
                   /\ states' = [states EXCEPT ![a] = [h EXCEPT !.build = u]]
                   /\ unit' = [unit EXCEPT ![u] = [actor |-> a, key |-> h.desired.key,
                                                   phase |-> "building"]]
  <2>1. PICK u \in Unit :
                   /\ unit[u] = FreeUnit
                   /\ states' = [states EXCEPT ![a] = [h EXCEPT !.build = u]]
                   /\ unit' = [unit EXCEPT ![u] = [actor |-> a, key |-> h.desired.key,
                                                   phase |-> "building"]]
    BY <1>6, Zenon DEF First
  <2>. PICK s : s = [h EXCEPT !.build = u]
    BY Zenon
  <2>. PICK n : n = [actor |-> a, key |-> h.desired.key, phase |-> "building"]
    BY Zenon
  <2>2. n \in UnitRec /\ n.actor = a /\ n.phase = "building"
    BY <1>2, Zenon DEF UnitRec, UnitPhase, HostState, Desired
  <2>3. /\ s \in HostState /\ s.desired = t.desired /\ s.backoff = t.backoff /\ s.route = t.route
        /\ s.build = u /\ s.body = h.body /\ s.retiring = h.retiring
    BY <1>2, ZenonT(30) DEF HostState
  <2>4. (t.retiring \cup {t.body}) \ {u, 0} \subseteq s.retiring \cup {s.body}
    BY <1>2, <2>3, Zenon
  <2>5. Moves(a, s, u, n)
    BY <1>3, <2>1, <2>2, <2>3, <2>4 DEF Moves, FreeUnit, Unstarted, ghosts
  <2>6. /\ states' \in [Actor -> HostState] /\ states'[a] = s
        /\ \A c \in Actor \ {a} : states'[c] = states[c]
        /\ unit' \in [Unit -> UnitRec] /\ unit'[u] = n
        /\ \A v \in Unit \ {u} : unit'[v] = unit[v]
        /\ \A c \in Actor \ {a} : UnitsOf(c)'
        /\ \A c \in Actor : RouteOK(c)'
        /\ \A v \in Unit : UnitHeld(v)'
        /\ \A b \in Binding : BindingHeld(b)'
    BY <2>2, <2>3, <2>5, MovesKeep
  <2>7. UnitsOf(a)'
    <3>1. s.build # 0 => unit'[s.build].actor = a /\ unit'[s.build].phase = "building"
      BY <2>2, <2>3, <2>6, Zenon
    <3>2. /\ \A v \in t.retiring : unit[v].actor = a /\ unit[v].phase \notin Unstarted
          /\ t.body # 0 => /\ unit[t.body].actor = a /\ unit[t.body].phase \notin Unstarted
                           /\ unit[t.body].key = served[a]
                           /\ t.body \notin t.retiring /\ t.route = NoRoute
      BY <1>0, Zenon DEF UnitsOf
    <3>3. unit[u].phase \in Unstarted
      BY <2>1 DEF FreeUnit, Unstarted
    <3>4. \A v \in s.retiring : v \in Unit \ {u} /\ unit[v].actor = a /\ unit[v].phase \notin Unstarted
      BY <1>2, <2>3, <3>2, <3>3 DEF HostState
    <3>5. s.body # 0 => /\ s.body \in Unit \ {u} /\ s.body = t.body /\ s.retiring = t.retiring
      BY <1>2, <2>3, <3>2, <3>3, Zenon DEF HostState
    <3>6. served' = served
      BY <1>3, Zenon DEF ghosts
    <3>. QED  BY <2>3, <2>6, <3>1, <3>2, <3>4, <3>5, <3>6 DEF UnitsOf
  <2>8. TypeOK'
    BY <1>0, <1>3, <2>6, Zenon DEF TypeOK, HostState, UnitRec, feedVars, closeVars, ghosts
  <2>9. ASSUME NEW c \in Actor PROVE KeysOf(c)' /\ EntryOK(c)'
    <3>1. states'[c].desired = states[c].desired /\ states'[c].backoff = states[c].backoff
      BY <2>3, <2>6, Zenon
    <3>2. states'[c] = EmptyState <=> states[c] = EmptyState
      <4>1. s # EmptyState
        BY <1>0, <2>3 DEF EmptyState, NoDesired
      <4>. QED  BY <1>4, <2>6, <4>1, Zenon
    <3>3. KeysOf(c)'
      BY <1>0, <1>3, <3>1, Zenon DEF KeysOf, feedVars, ghosts
    <3>4. EntryOK(c)'
      BY <1>0, <1>3, <3>1, <3>2, Zenon DEF EntryOK
    <3>. QED  BY <3>3, <3>4, Zenon
  <2>10. CloseInv'
    <3>1. closing = "open" /\ verdict # "clean"
      BY <1>0, Zenon DEF CloseInv, TypeOK, ClosePhase
    <3>. QED  BY <1>3, <3>1, Zenon DEF CloseInv, closeVars
  <2>. QED  BY <2>6, <2>7, <2>8, <2>9, <2>10, Zenon DEF HostInv
<1>. QED  BY <1>5, <1>6, Zenon DEF ReconcileBody

\* The winner of a build becomes the body: it is of the desired term, so none
\* newer was ever served.
LEMMA WinKeeps ==
    ASSUME HostInv, NEW u \in Unit, BuildReturns(u), JobCurrent(states[unit[u].actor], u)
    PROVE  HostInv'
<1>a. PICK a : a = unit[u].actor
  BY Zenon
<1>t. PICK t : t = states[a]
  BY Zenon
<1>k. PICK k : k = unit[u].key
  BY Zenon
<1>r. PICK r : r = Retire(t)
  BY Zenon
<1>s. PICK s : s = [r EXCEPT !.build = 0, !.backoff = FALSE, !.body = u, !.route = NoRoute]
  BY Zenon
<1>n. PICK n : n = [unit[u] EXCEPT !.phase = "running"]
  BY Zenon
<1>0. /\ TypeOK /\ CloseInv /\ a \in Actor /\ unit[u].phase = "building"
      /\ \A c \in Actor : UnitsOf(c) /\ KeysOf(c) /\ EntryOK(c)
  BY <1>a, Zenon DEF HostInv, UnitHeld, BuildReturns
<1>1. /\ ~sealed /\ t.build = u /\ t.desired = [kind |-> "body", key |-> k] /\ u # 0
      /\ t \in HostState /\ k \in Key
  BY <1>0, <1>a, <1>t, <1>k, HostAssumption, Zenon DEF JobCurrent, TypeOK, HostState
<1>2. /\ states' = [states EXCEPT ![a] = s] /\ owed' = owed \cup RouteOf(t)
      /\ unit' = [unit EXCEPT ![u].phase = "running"] /\ known' = known
      /\ served' = [served EXCEPT ![a] = Newer(@, k)]
      /\ UNCHANGED <<feedVars, binding, closeVars, crashes, stale>>
  BY <1>a, <1>t, <1>k, <1>r, <1>s, Zenon DEF BuildReturns
<1>3. /\ r \in HostState /\ r.retiring = t.retiring \cup ({t.body} \ {0}) /\ r.desired = t.desired
  BY <1>1, <1>r, RetireFields, Zenon
<1>4. /\ s \in HostState /\ s.desired = t.desired /\ s.build = 0 /\ ~s.backoff /\ s.body = u
      /\ s.route = NoRoute /\ s.retiring = t.retiring \cup ({t.body} \ {0})
  <2>1. NoRoute \in [key : Key, binding : Binding \cup {0}]
    BY HostAssumption DEF NoRoute, Key
  <2>. QED  BY <1>3, <1>s, <2>1, Zenon DEF HostState
<1>5. /\ n \in UnitRec /\ n.actor = a /\ n.key = k /\ n.phase = "running"
      /\ unit' = [unit EXCEPT ![u] = n]
  BY <1>0, <1>2, <1>a, <1>k, <1>n DEF TypeOK, UnitRec, UnitPhase
<1>6. served[a] <= k /\ served'[a] = k /\ served' \in [Actor -> Key]
      /\ \A c \in Actor \ {a} : served'[c] = served[c]
  <2>1. served[a] <= k
    BY <1>0, <1>1, <1>t DEF KeysOf
  <2>2. Newer(served[a], k) = k
    <3>1. served[a] \in Nat /\ k \in Nat
      BY <1>0, <1>1, HostAssumption DEF TypeOK, Key
    <3>. QED  BY <2>1, <3>1 DEF Newer
  <2>. QED  BY <1>0, <1>1, <1>2, <2>1, <2>2, Zenon DEF TypeOK
<1>7. Moves(a, s, u, n)
  BY <1>0, <1>2, <1>4, <1>5, <1>6, <1>a, <1>t, ZenonT(30) DEF Moves, Unstarted
<1>8. /\ states' \in [Actor -> HostState] /\ states'[a] = s
      /\ \A c \in Actor \ {a} : states'[c] = states[c]
      /\ unit' \in [Unit -> UnitRec] /\ unit'[u] = n
      /\ \A v \in Unit \ {u} : unit'[v] = unit[v]
      /\ \A c \in Actor \ {a} : UnitsOf(c)'
      /\ \A c \in Actor : RouteOK(c)'
      /\ \A v \in Unit : UnitHeld(v)'
      /\ \A b \in Binding : BindingHeld(b)'
  BY <1>0, <1>4, <1>5, <1>7, MovesKeep
<1>9. UnitsOf(a)'
  <2>1. /\ \A v \in t.retiring : unit[v].actor = a /\ unit[v].phase \notin Unstarted
        /\ t.body # 0 => unit[t.body].actor = a /\ unit[t.body].phase \notin Unstarted
    BY <1>0, <1>t, Zenon DEF UnitsOf
  <2>2. \A v \in s.retiring : v \in Unit \ {u} /\ unit[v].actor = a /\ unit[v].phase \notin Unstarted
    BY <1>0, <1>1, <1>4, <2>1 DEF HostState, Unstarted
  <2>3. \A v \in s.retiring : unit'[v].actor = a /\ unit'[v].phase \notin Unstarted
    BY <1>8, <2>2, Zenon
  <2>4. unit'[u].actor = a /\ unit'[u].phase \notin Unstarted /\ unit'[u].key = served'[a]
    BY <1>5, <1>6, <1>8, Zenon DEF Unstarted
  <2>5. u \notin s.retiring
    BY <2>2, Zenon
  <2>. QED  BY <1>4, <1>8, <2>3, <2>4, <2>5, Zenon DEF UnitsOf
<1>10. TypeOK'
  <2>1. owed' \subseteq Binding
    BY <1>0, <1>1, <1>2, Zenon DEF TypeOK, RouteOf, HostState
  <2>. QED  BY <1>0, <1>2, <1>6, <1>8, <2>1, Zenon DEF TypeOK, HostState, UnitRec, feedVars, closeVars
<1>11. ASSUME NEW c \in Actor PROVE KeysOf(c)' /\ EntryOK(c)'
  <2>1. KeysOf(c)'
    <3>1. CASE c # a
      BY <1>0, <1>2, <1>6, <1>8, <3>1, Zenon DEF KeysOf, feedVars
    <3>2. CASE c = a
      <4>1. /\ states'[a].desired = states[a].desired /\ states[a].desired.kind = "body"
            /\ states[a].desired.key = k /\ served'[a] = k
        BY <1>1, <1>4, <1>6, <1>8, <1>t
      <4>2. KeysOf(a) /\ k \in Nat
        BY <1>0, <1>1, HostAssumption DEF Key
      <4>. QED  BY <1>2, <3>2, <4>1, <4>2 DEF KeysOf, feedVars
    <3>. QED  BY <3>1, <3>2, Zenon
  <2>2. EntryOK(c)'
    <3>1. CASE c # a
      BY <1>0, <1>2, <1>8, <3>1, Zenon DEF EntryOK
    <3>2. CASE c = a
      <4>1. s # EmptyState /\ t # EmptyState
        BY <1>1, <1>4 DEF EmptyState
      <4>. QED  BY <1>0, <1>2, <1>4, <1>8, <1>t, <3>2, <4>1, ZenonT(30) DEF EntryOK
    <3>. QED  BY <3>1, <3>2, Zenon
  <2>. QED  BY <2>1, <2>2, Zenon
<1>12. CloseInv'
  <2>1. closing = "open" /\ verdict # "clean"
    BY <1>0, <1>1, Zenon DEF CloseInv, TypeOK, ClosePhase
  <2>. QED  BY <1>2, <2>1, Zenon DEF CloseInv, closeVars
<1>. QED  BY <1>8, <1>9, <1>10, <1>11, <1>12, Zenon DEF HostInv

\* A loser is retired; it was nobody's body.
LEMMA LoseKeeps ==
    ASSUME HostInv, NEW u \in Unit, BuildReturns(u), ~JobCurrent(states[unit[u].actor], u)
    PROVE  HostInv'
<1>a. PICK a : a = unit[u].actor
  BY Zenon
<1>t. PICK t : t = states[a]
  BY Zenon
<1>j. PICK j : j = IF t.build = u THEN 0 ELSE t.build
  OBVIOUS
<1>s. PICK s : s = [t EXCEPT !.build = j, !.retiring = @ \cup {u}]
  BY Zenon
<1>n. PICK n : n = [unit[u] EXCEPT !.phase = "prepared"]
  BY Zenon
<1>0. /\ TypeOK /\ CloseInv /\ a \in Actor /\ unit[u].phase = "building" /\ u # 0
      /\ \A c \in Actor : UnitsOf(c) /\ KeysOf(c) /\ EntryOK(c)
  BY <1>a, HostAssumption, Zenon DEF HostInv, UnitHeld, BuildReturns
<1>1. t \in HostState /\ j \in Unit \cup {0} /\ j \in {0, t.build} /\ j # u
  BY <1>0, <1>t, <1>j, Zenon DEF TypeOK, HostState
<1>2. /\ states' = [states EXCEPT ![a] = s] /\ owed' = owed /\ known' = known \cup {a}
      /\ unit' = [unit EXCEPT ![u].phase = "prepared"]
      /\ UNCHANGED <<feedVars, binding, closeVars, crashes, ghosts>>
  BY <1>a, <1>t, <1>j, <1>s, Zenon DEF BuildReturns, ghosts
<1>3. /\ s \in HostState /\ s.desired = t.desired /\ s.build = j /\ s.backoff = t.backoff
      /\ s.body = t.body /\ s.route = t.route /\ s.retiring = t.retiring \cup {u}
  BY <1>1, <1>s, Zenon DEF HostState
<1>4. /\ n \in UnitRec /\ n.actor = a /\ n.phase = "prepared"
      /\ unit' = [unit EXCEPT ![u] = n]
  BY <1>0, <1>2, <1>a, <1>n, ZenonT(30) DEF TypeOK, UnitRec, UnitPhase
<1>5. Moves(a, s, u, n)
  BY <1>0, <1>2, <1>3, <1>4, <1>a, <1>t, Zenon DEF Moves, Unstarted, ghosts
<1>6. /\ states' \in [Actor -> HostState] /\ states'[a] = s
      /\ \A c \in Actor \ {a} : states'[c] = states[c]
      /\ unit' \in [Unit -> UnitRec] /\ unit'[u] = n
      /\ \A v \in Unit \ {u} : unit'[v] = unit[v]
      /\ \A c \in Actor \ {a} : UnitsOf(c)'
      /\ \A c \in Actor : RouteOK(c)'
      /\ \A v \in Unit : UnitHeld(v)'
      /\ \A b \in Binding : BindingHeld(b)'
  BY <1>0, <1>3, <1>4, <1>5, MovesKeep, Zenon
<1>7. UnitsOf(a)'
  <2>1. /\ t.build # 0 => unit[t.build].actor = a /\ unit[t.build].phase = "building"
        /\ \A v \in t.retiring : unit[v].actor = a /\ unit[v].phase \notin Unstarted
        /\ t.body # 0 => /\ unit[t.body].actor = a /\ unit[t.body].phase \notin Unstarted
                         /\ unit[t.body].key = served[a]
                         /\ t.body \notin t.retiring /\ t.route = NoRoute
    BY <1>0, <1>t, Zenon DEF UnitsOf
  <2>2. s.build # 0 => unit'[s.build].actor = a /\ unit'[s.build].phase = "building"
    BY <1>1, <1>3, <1>6, <2>1
  <2>3. \A v \in s.retiring : unit'[v].actor = a /\ unit'[v].phase \notin Unstarted
    <3>1. \A v \in t.retiring : v \in Unit \ {u}
      BY <1>0, <1>1, <2>1, Zenon DEF HostState, Unstarted
    <3>2. unit'[u].actor = a /\ unit'[u].phase \notin Unstarted
      BY <1>4, <1>6, Zenon DEF Unstarted
    <3>. QED  BY <1>3, <1>6, <2>1, <3>1, <3>2
  <2>4. s.body # 0 => s.body \in Unit \ {u}
    BY <1>0, <1>1, <1>3, <2>1, Zenon DEF HostState, Unstarted
  <2>5. served' = served
    BY <1>2, Zenon DEF ghosts
  <2>. QED  BY <1>3, <1>6, <2>1, <2>2, <2>3, <2>4, <2>5 DEF UnitsOf
<1>8. TypeOK'
  <2>1. known' \subseteq Actor
    BY <1>0, <1>2, Zenon DEF TypeOK
  <2>. QED  BY <1>0, <1>2, <1>6, <2>1, Zenon DEF TypeOK, HostState, UnitRec, feedVars, closeVars, ghosts
<1>9. ASSUME NEW c \in Actor PROVE KeysOf(c)' /\ EntryOK(c)'
  <2>0. states'[c].desired = states[c].desired /\ states'[c].backoff = states[c].backoff
    BY <1>3, <1>6, <1>t, Zenon
  <2>1. KeysOf(c)'
    BY <1>0, <1>2, <2>0, Zenon DEF KeysOf, feedVars, ghosts
  <2>2. s # EmptyState
    BY <1>3 DEF EmptyState
  <2>3. EntryOK(c)'
    BY <1>0, <1>2, <1>6, <2>0, <2>2 DEF EntryOK
  <2>. QED  BY <2>1, <2>3, Zenon
<1>10. CloseInv'
  <2>1. verdict # "clean" /\ ~(closing \in {"sweep", "watch", "closed"} /\ joined)
    BY <1>0, Zenon DEF CloseInv
  <2>. QED  BY <1>0, <1>2, <2>1, Zenon DEF CloseInv, closeVars
<1>. QED  BY <1>6, <1>7, <1>8, <1>9, <1>10, Zenon DEF HostInv

LEMMA BuildFailsKeeps ==
    ASSUME HostInv, NEW u \in Unit, BuildFails(u)
    PROVE  HostInv'
<1>a. PICK a : a = unit[u].actor
  BY Zenon
<1>t. PICK t : t = states[a]
  BY Zenon
<1>s. PICK s : s = Abandon(t, u)
  BY Zenon
<1>0. /\ TypeOK /\ CloseInv /\ a \in Actor /\ unit[u].phase = "building" /\ u # 0
      /\ \A c \in Actor : UnitsOf(c) /\ KeysOf(c) /\ EntryOK(c)
  BY <1>a, HostAssumption, Zenon DEF HostInv, UnitHeld, BuildFails
<1>1. t \in HostState
  BY <1>0, <1>t, Zenon DEF TypeOK, HostState
<1>2. /\ s \in HostState /\ s.desired = t.desired /\ s.body = t.body /\ s.route = t.route
      /\ s.retiring = t.retiring /\ s.build = IF t.build = u THEN 0 ELSE t.build
      /\ t.build # u => s = t
      /\ s.backoff => t.backoff \/ t.desired.kind = "body"
  <2>1. CASE t.build # u
    BY <1>1, <1>s, <2>1, Zenon DEF Abandon
  <2>2. CASE t.build = u
    <3>1. PICK w :
             w = (t.backoff \/ (~sealed /\ t.desired = [kind |-> "body", key |-> unit[u].key]))
      OBVIOUS
    <3>2. s = [t EXCEPT !.build = 0, !.backoff = w] /\ w \in BOOLEAN
      <4>1. s = [t EXCEPT !.build = 0, !.backoff = w]
        BY <1>s, <2>2, <3>1, Zenon DEF Abandon
      <4>2. w \in BOOLEAN
        BY <3>1, Zenon
      <4>. QED  BY <4>1, <4>2, Zenon
    <3>3. /\ s \in HostState /\ s.desired = t.desired /\ s.body = t.body /\ s.route = t.route
          /\ s.retiring = t.retiring /\ s.build = 0 /\ s.backoff = w
      BY <1>1, <3>2, Zenon DEF HostState
    <3>4. w => t.backoff \/ t.desired.kind = "body"
      <4>1. t.desired = [kind |-> "body", key |-> unit[u].key] => t.desired.kind = "body"
        OBVIOUS
      <4>. QED  BY <3>1, <4>1, Zenon
    <3>. QED  BY <2>2, <3>3, <3>4, Zenon
  <2>. QED  BY <2>1, <2>2, Zenon
<1>3. /\ states' = [states EXCEPT ![a] = s] /\ owed' = owed
      /\ unit' = [unit EXCEPT ![u] = FreeUnit] /\ crashes' = crashes + 1 /\ crashes < MaxCrash
      /\ UNCHANGED <<feedVars, binding, closeVars, ghosts>>
  BY <1>a, <1>t, <1>s, Zenon DEF BuildFails
<1>4. FreeUnit \in UnitRec /\ FreeUnit.phase = "free"
  BY HostAssumption DEF FreeUnit, UnitRec, UnitPhase, Key
<1>5. Moves(a, s, u, FreeUnit)
  BY <1>0, <1>2, <1>3, <1>4, <1>a, <1>t, Zenon DEF Moves, Unstarted, ghosts
<1>6. /\ states' \in [Actor -> HostState] /\ states'[a] = s
      /\ \A c \in Actor \ {a} : states'[c] = states[c]
      /\ unit' \in [Unit -> UnitRec] /\ unit'[u] = FreeUnit
      /\ \A v \in Unit \ {u} : unit'[v] = unit[v]
      /\ \A c \in Actor \ {a} : UnitsOf(c)'
      /\ \A c \in Actor : RouteOK(c)'
      /\ \A v \in Unit : UnitHeld(v)'
      /\ \A b \in Binding : BindingHeld(b)'
  BY <1>0, <1>2, <1>4, <1>5, MovesKeep, ZenonT(30)
<1>7. UnitsOf(a)'
  <2>1. /\ t.build # 0 => unit[t.build].actor = a /\ unit[t.build].phase = "building"
        /\ \A v \in t.retiring : unit[v].actor = a /\ unit[v].phase \notin Unstarted
        /\ t.body # 0 => /\ unit[t.body].actor = a /\ unit[t.body].phase \notin Unstarted
                         /\ unit[t.body].key = served[a]
                         /\ t.body \notin t.retiring /\ t.route = NoRoute
    BY <1>0, <1>t, Zenon DEF UnitsOf
  <2>2. s.build # 0 => s.build \in Unit \ {u} /\ s.build = t.build
    BY <1>1, <1>2, Zenon DEF HostState
  <2>3. \A v \in s.retiring : v \in Unit \ {u}
    BY <1>0, <1>1, <1>2, <2>1, Zenon DEF HostState, Unstarted
  <2>4. s.body # 0 => s.body \in Unit \ {u}
    BY <1>0, <1>1, <1>2, <2>1, Zenon DEF HostState, Unstarted
  <2>5. served' = served
    BY <1>3, Zenon DEF ghosts
  <2>6. s.body = t.body /\ s.route = t.route /\ s.retiring = t.retiring
    BY <1>2, Zenon
  <2>. QED  BY <1>6, <2>1, <2>2, <2>3, <2>4, <2>5, <2>6 DEF UnitsOf
<1>8. a \in known' <=> s # EmptyState
  <2>1. CASE t.build = u
    <3>1. t # EmptyState
      BY <1>0, <2>1 DEF EmptyState
    <3>2. known' = DeleteIfEmpty(a, s)
      BY <1>6, <1>a, <1>t, <2>1, Zenon DEF BuildFails
    <3>. QED  BY <1>0, <1>t, <3>1, <3>2, ZenonT(30) DEF DeleteIfEmpty, EntryOK
  <2>2. CASE t.build # u
    BY <1>0, <1>2, <1>a, <1>t, <2>2, Zenon DEF BuildFails, EntryOK
  <2>. QED  BY <2>1, <2>2, Zenon
<1>9. known' \in {known, known \ {a}}
  BY <1>a, Zenon DEF BuildFails, DeleteIfEmpty
<1>10. TypeOK'
  <2>1. known' \subseteq Actor /\ crashes' \in 0 .. MaxCrash
    BY <1>0, <1>3, <1>9, HostAssumption DEF TypeOK
  <2>. QED  BY <1>0, <1>3, <1>6, <2>1, Zenon DEF TypeOK, HostState, UnitRec, feedVars, closeVars, ghosts
<1>11. ASSUME NEW c \in Actor PROVE KeysOf(c)' /\ EntryOK(c)'
  <2>0. states'[c].desired = states[c].desired
    BY <1>2, <1>6, <1>t, Zenon
  <2>1. KeysOf(c)'
    BY <1>0, <1>3, <2>0, Zenon DEF KeysOf, feedVars, ghosts
  <2>2. CASE c = a
    <3>1. s.backoff => s.desired.kind = "body"
      BY <1>0, <1>2, <1>t, Zenon DEF EntryOK
    <3>. QED  BY <1>6, <1>8, <2>1, <2>2, <3>1, Zenon DEF EntryOK
  <2>3. CASE c # a
    <3>1. c \in known' <=> c \in known
      BY <1>9, <2>3, Zenon
    <3>2. states'[c] = states[c] /\ EntryOK(c)
      BY <1>0, <1>6, <2>3, Zenon
    <3>. QED  BY <2>1, <3>1, <3>2, Zenon DEF EntryOK
  <2>. QED  BY <2>2, <2>3, Zenon
<1>12. CloseInv'
  <2>1. verdict # "clean" /\ ~(closing \in {"sweep", "watch", "closed"} /\ joined)
    BY <1>0, Zenon DEF CloseInv
  <2>. QED  BY <1>0, <1>3, <2>1, Zenon DEF CloseInv, closeVars
<1>. QED  BY <1>6, <1>7, <1>10, <1>11, <1>12, Zenon DEF HostInv

LEMMA WatchKeeps ==
    ASSUME HostInv, NEW u \in Unit, WatchRetiring(u)
    PROVE  HostInv'
<1>a. PICK a : a = unit[u].actor
  BY Zenon
<1>t. PICK t : t = states[a]
  BY Zenon
<1>s. PICK s : s = [t EXCEPT !.retiring = @ \ {u}]
  BY Zenon
<1>0. /\ TypeOK /\ CloseInv /\ a \in Actor /\ unit[u].phase = "done" /\ u \in t.retiring
      /\ ~(closing = "closed" /\ joined)
      /\ \A c \in Actor : UnitsOf(c) /\ KeysOf(c) /\ EntryOK(c)
  BY <1>a, <1>t, Zenon DEF HostInv, UnitHeld, WatchRetiring
<1>1. t \in HostState
  BY <1>0, <1>t, Zenon DEF TypeOK, HostState
<1>2. /\ s \in HostState /\ s.desired = t.desired /\ s.body = t.body /\ s.route = t.route
      /\ s.retiring = t.retiring \ {u} /\ s.build = t.build /\ s.backoff = t.backoff
  BY <1>1, <1>s, Zenon DEF HostState
<1>3. /\ states' = [states EXCEPT ![a] = s] /\ owed' = owed /\ known' = DeleteIfEmpty(a, s)
      /\ unit' = [unit EXCEPT ![u] = FreeUnit]
      /\ UNCHANGED <<feedVars, binding, closeVars, crashes, ghosts>>
  BY <1>a, <1>t, <1>s, Zenon DEF WatchRetiring
<1>4. FreeUnit \in UnitRec /\ FreeUnit.phase = "free"
  BY HostAssumption DEF FreeUnit, UnitRec, UnitPhase, Key
<1>5. Moves(a, s, u, FreeUnit)
  BY <1>0, <1>2, <1>3, <1>4, <1>a, <1>t, Zenon DEF Moves, Unstarted, ghosts
<1>6. /\ states' \in [Actor -> HostState] /\ states'[a] = s
      /\ \A c \in Actor \ {a} : states'[c] = states[c]
      /\ unit' \in [Unit -> UnitRec] /\ unit'[u] = FreeUnit
      /\ \A v \in Unit \ {u} : unit'[v] = unit[v]
      /\ \A c \in Actor \ {a} : UnitsOf(c)'
      /\ \A c \in Actor : RouteOK(c)'
      /\ \A v \in Unit : UnitHeld(v)'
      /\ \A b \in Binding : BindingHeld(b)'
  BY <1>0, <1>2, <1>4, <1>5, MovesKeep, Zenon
<1>7. UnitsOf(a)'
  <2>1. /\ t.build # 0 => unit[t.build].actor = a /\ unit[t.build].phase = "building"
        /\ \A v \in t.retiring : unit[v].actor = a /\ unit[v].phase \notin Unstarted
        /\ t.body # 0 => /\ unit[t.body].actor = a /\ unit[t.body].phase \notin Unstarted
                         /\ unit[t.body].key = served[a]
                         /\ t.body \notin t.retiring /\ t.route = NoRoute
    BY <1>0, <1>t, Zenon DEF UnitsOf
  <2>2. s.build # 0 => s.build \in Unit \ {u} /\ s.build = t.build
    BY <1>0, <1>1, <1>2, <2>1, Zenon DEF HostState
  <2>3. \A v \in s.retiring : v \in Unit \ {u} /\ v \in t.retiring
    BY <1>1, <1>2, Zenon DEF HostState
  <2>4. s.body # 0 => s.body \in Unit \ {u} /\ s.body \notin s.retiring
    BY <1>0, <1>1, <1>2, <2>1, Zenon DEF HostState
  <2>5. served' = served
    BY <1>3, Zenon DEF ghosts
  <2>6. s.body = t.body /\ s.route = t.route
    BY <1>2, Zenon
  <2>. QED  BY <1>6, <2>1, <2>2, <2>3, <2>4, <2>5, <2>6 DEF UnitsOf
<1>8. a \in known' <=> s # EmptyState
  <2>1. t # EmptyState
    BY <1>0 DEF EmptyState
  <2>. QED  BY <1>0, <1>3, <1>t, <2>1, Zenon DEF DeleteIfEmpty, EntryOK
<1>9. known' \in {known, known \ {a}}
  BY <1>3, Zenon DEF DeleteIfEmpty
<1>10. TypeOK'
  <2>1. known' \subseteq Actor
    BY <1>0, <1>9, Zenon DEF TypeOK
  <2>. QED  BY <1>0, <1>3, <1>6, <2>1, Zenon DEF TypeOK, HostState, UnitRec, feedVars, closeVars, ghosts
<1>11. ASSUME NEW c \in Actor PROVE KeysOf(c)' /\ EntryOK(c)'
  <2>0. states'[c].desired = states[c].desired /\ states'[c].backoff = states[c].backoff
    BY <1>2, <1>6, <1>t, Zenon
  <2>1. KeysOf(c)'
    BY <1>0, <1>3, <2>0, Zenon DEF KeysOf, feedVars, ghosts
  <2>2. c \in known' <=> states'[c] # EmptyState
    BY <1>0, <1>6, <1>8, <1>9, Zenon DEF EntryOK
  <2>3. EntryOK(c)'
    BY <1>0, <2>0, <2>2, Zenon DEF EntryOK
  <2>. QED  BY <2>1, <2>3, Zenon
<1>12. CloseInv'
  <2>1. verdict # "clean"
    BY <1>0, Zenon DEF CloseInv
  <2>2. \A v \in Unit : unit[v].phase # "building" => unit'[v].phase # "building"
    BY <1>4, <1>6, Zenon
  <2>3. \A c \in Actor : states'[c].body = states[c].body /\ states'[c].route = states[c].route
    BY <1>2, <1>6, <1>t, Zenon
  <2>. QED  BY <1>0, <1>3, <2>1, <2>2, <2>3, Zenon DEF CloseInv, closeVars
<1>. QED  BY <1>6, <1>7, <1>10, <1>11, <1>12, Zenon DEF HostInv

-----------------------------------------------------------------------------
(* Bindings *)

BindingRec == [actor : Actor \cup {0}, key : Key, phase : BindingPhase]

\* A connection opens, drops, or is closed by the host: the table is as it was.
LEMMA ConnectionKeeps ==
    ASSUME HostInv, NEW b \in Binding,
           EndpointEnds(b) \/ CloseBinding(b) \/ \E a \in Actor : Connect(b, a)
    PROVE  HostInv'
<1>0. TypeOK /\ CloseInv
  BY Zenon DEF HostInv
<1>1. UNCHANGED <<feedVars, tableVars, unit, closeVars, crashes, ghosts>>
  BY Zenon DEF EndpointEnds, CloseBinding, Connect
<1>2. /\ owed' \subseteq owed /\ owed \subseteq owed' \cup {b}
      /\ binding' \in [Binding -> BindingRec] /\ \A c \in Binding \ {b} : binding'[c] = binding[c]
      /\ binding'[b].phase # "free" => binding'[b].actor \in Actor
      /\ binding'[b].phase # "serving"
      /\ binding[b].phase \in {"serving", "ended"} =>
            binding'[b].phase \in {"serving", "ended"} /\ binding'[b].actor = binding[b].actor
  <2>0. BindingHeld(b) /\ binding \in [Binding -> BindingRec]
    BY <1>0, Zenon DEF HostInv, TypeOK, BindingRec
  <2>1. CASE EndpointEnds(b)
    <3>1. binding' = [binding EXCEPT ![b].phase = "ended"] /\ owed' = owed /\ binding[b].phase = "serving"
      BY <2>1, Zenon DEF EndpointEnds
    <3>2. /\ binding' \in [Binding -> BindingRec] /\ binding'[b].phase = "ended"
          /\ binding'[b].actor = binding[b].actor
          /\ \A c \in Binding \ {b} : binding'[c] = binding[c]
      BY <2>0, <3>1, Zenon DEF BindingRec, BindingPhase
    <3>. QED  BY <2>0, <3>1, <3>2, Zenon DEF BindingHeld
  <2>2. CASE CloseBinding(b)
    <3>1. PICK p : p = IF binding[b].phase = "serving" THEN "ended" ELSE binding[b].phase
      OBVIOUS
    <3>2. p \in BindingPhase /\ p # "serving" /\ (p = "free" <=> binding[b].phase = "free")
          /\ (binding[b].phase \in {"serving", "ended"} => p = "ended")
      BY <1>0, <3>1, Zenon DEF TypeOK, BindingPhase
    <3>3. binding' = [binding EXCEPT ![b].phase = p] /\ owed' = owed \ {b}
      BY <2>2, <3>1, Zenon DEF CloseBinding
    <3>4. /\ binding' \in [Binding -> BindingRec] /\ binding'[b].phase = p
          /\ binding'[b].actor = binding[b].actor
          /\ \A c \in Binding \ {b} : binding'[c] = binding[c]
      BY <2>0, <3>2, <3>3, Zenon DEF BindingRec
    <3>. QED  BY <2>0, <3>2, <3>3, <3>4, Zenon DEF BindingHeld
  <2>3. ASSUME NEW a \in Actor, Connect(b, a)
        PROVE  /\ owed' = owed /\ binding' \in [Binding -> BindingRec]
               /\ \A c \in Binding \ {b} : binding'[c] = binding[c]
               /\ binding'[b].actor \in Actor /\ binding'[b].phase = "attaching"
               /\ binding[b].phase = "free"
    <3>1. /\ owed' = owed /\ binding[b].phase = "free"
          /\ binding' = [binding EXCEPT ![b] = [actor |-> a, key |-> ledger[a].key,
                                                phase |-> "attaching"]]
      BY <2>3 DEF Connect, FreeBinding
    <3>2. [actor |-> a, key |-> ledger[a].key, phase |-> "attaching"] \in BindingRec
      BY <1>0, Zenon DEF TypeOK, Desired, BindingRec, BindingPhase
    <3>. QED  BY <1>0, <3>1, <3>2, Zenon DEF TypeOK, BindingRec
  <2>. QED  BY <2>1, <2>2, <2>3, Zenon
<1>3. TypeOK'
  BY <1>0, <1>1, <1>2, Zenon DEF TypeOK, BindingRec, feedVars, tableVars, closeVars, ghosts
<1>4. ASSUME NEW c \in Actor PROVE RouteOK(c)'
  <2>1. RouteOK(c) /\ states[c].route.binding \in Binding \cup {0} /\ states' = states /\ served' = served
    BY <1>0, <1>1, Zenon DEF HostInv, TypeOK, tableVars, ghosts
  <2>. QED  BY <1>2, <2>1, Zenon DEF RouteOK
<1>5. ASSUME NEW c \in Binding PROVE BindingHeld(c)'
  <2>1. BindingHeld(c) /\ states' = states
    BY <1>1, ZenonT(30) DEF HostInv, tableVars
  <2>. QED  BY <1>2, <2>1 DEF BindingHeld
<1>6. ASSUME NEW c \in Actor PROVE UnitsOf(c)' /\ KeysOf(c)' /\ EntryOK(c)'
  <2>1. UnitsOf(c) /\ KeysOf(c) /\ EntryOK(c)
    BY Zenon DEF HostInv
  <2>2. UNCHANGED <<ledger, inbound, states, known, unit, served, stale>>
    BY <1>1, Zenon DEF feedVars, tableVars, ghosts
  <2>3. UnitsOf(c)'
    BY <2>1, <2>2, Zenon DEF UnitsOf
  <2>4. KeysOf(c)' /\ EntryOK(c)'
    BY <2>1, <2>2, Zenon DEF KeysOf, EntryOK
  <2>. QED  BY <2>3, <2>4, Zenon
<1>7. \A u \in Unit : UnitHeld(u)'
  BY <1>1, Zenon DEF HostInv, UnitHeld, tableVars
<1>8. CloseInv'
  BY <1>0, <1>1, Zenon DEF CloseInv, tableVars, closeVars
<1>. QED  BY <1>3, <1>4, <1>5, <1>6, <1>7, <1>8, Zenon DEF HostInv

\* A step at the route of one actor: entry a keeps the rest, connection b becomes n,
\* and no other entry refers to b.
Reroutes(a, s, b, n) ==
    /\ states' = [states EXCEPT ![a] = s] /\ binding' = [binding EXCEPT ![b] = n]
    /\ s.desired = states[a].desired /\ s.build = states[a].build /\ s.body = states[a].body
    /\ s.retiring = states[a].retiring /\ s.backoff = states[a].backoff
    /\ binding[b].actor = a /\ binding[b].phase # "free"
    /\ n.phase # "free" => n.actor = a
    /\ n.phase = "serving" => s.route.binding = b
    /\ \/ s.route = states[a].route /\ s.route.binding # b /\ served' = served
       \/ s.route = NoRoute /\ states[a].route.binding \in {0, b} /\ served' = served
       \/ /\ s.route.binding = b /\ s.route.key = served'[a]
          /\ n.actor = a /\ n.phase = "serving" /\ RouteOf(states[a]) \subseteq owed'
          /\ states[a].body = 0
    /\ \A c \in Actor \ {a} : served'[c] = served[c]
    /\ owed \subseteq owed' /\ unit' = unit

LEMMA ReroutesKeep ==
    ASSUME HostInv, NEW a \in Actor, NEW s \in HostState, NEW b \in Binding, NEW n \in BindingRec,
           Reroutes(a, s, b, n)
    PROVE  /\ states' \in [Actor -> HostState] /\ states'[a] = s
           /\ \A c \in Actor \ {a} : states'[c] = states[c]
           /\ binding' \in [Binding -> BindingRec]
           /\ \A c \in Actor : UnitsOf(c)' /\ RouteOK(c)'
           /\ \A u \in Unit : UnitHeld(u)'
           /\ \A c \in Binding : BindingHeld(c)'
<1>t. PICK t : t = states[a]
  BY Zenon
<1>0. TypeOK /\ \A c \in Actor : UnitsOf(c) /\ RouteOK(c)
  BY Zenon DEF HostInv
<1>1. /\ states' \in [Actor -> HostState] /\ states'[a] = s /\ t \in HostState
      /\ \A c \in Actor \ {a} : states'[c] = states[c]
  BY <1>0, <1>t, OneEntry, Zenon DEF Reroutes
<1>2. /\ binding' \in [Binding -> BindingRec] /\ binding'[b] = n
      /\ \A c \in Binding \ {b} : binding'[c] = binding[c]
  BY <1>0, Zenon DEF Reroutes, TypeOK, BindingRec
<1>3. /\ s.build = t.build /\ s.body = t.body /\ s.retiring = t.retiring
      /\ unit' = unit /\ owed \subseteq owed' /\ binding[b].actor = a /\ b # 0
      /\ \A c \in Actor \ {a} : served'[c] = served[c]
      /\ n.phase # "free" => n.actor = a
      /\ n.phase = "serving" => s.route.binding = b
  BY <1>t, HostAssumption, Zenon DEF Reroutes
<1>4. \/ s.route = t.route /\ s.route.binding # b /\ served' = served
      \/ s.route = NoRoute /\ t.route.binding \in {0, b} /\ served' = served
      \/ /\ s.route.binding = b /\ s.route.key = served'[a]
         /\ n.actor = a /\ n.phase = "serving" /\ RouteOf(t) \subseteq owed' /\ t.body = 0
  BY <1>t, Zenon DEF Reroutes
<1>5. ASSUME NEW c \in Actor PROVE UnitsOf(c)'
  <2>1. CASE c # a
    <3>1. states'[c] = states[c] /\ served'[c] = served[c] /\ UnitsOf(c) /\ unit' = unit
      BY <1>0, <1>1, <1>3, <2>1, Zenon
    <3>. QED  BY <3>1, Zenon DEF UnitsOf
  <2>2. CASE c = a
    <3>1. s.body # 0 => s.route = NoRoute /\ served' = served
      <4>1. t.body # 0 => t.route = NoRoute
        BY <1>0, <1>t, Zenon DEF UnitsOf
      <4>. QED  BY <1>3, <1>4, <4>1, Zenon
    <3>2. UnitsOf(a) /\ states[a] = t
      BY <1>0, <1>t, Zenon
    <3>. QED  BY <1>1, <1>3, <2>2, <3>1, <3>2, Zenon DEF UnitsOf
  <2>. QED  BY <2>1, <2>2, Zenon
<1>6. ASSUME NEW c \in Actor PROVE RouteOK(c)'
  <2>1. CASE c # a
    <3>1. states'[c] = states[c] /\ served'[c] = served[c] /\ RouteOK(c)
      BY <1>0, <1>1, <1>3, <2>1
    <3>2. states[c].route.binding # b /\ states[c].route.binding \in Binding \cup {0}
      BY <1>0, <1>3, <2>1, <3>1, ZenonT(30) DEF RouteOK, TypeOK
    <3>. QED  BY <1>2, <3>1, <3>2, ZenonT(30) DEF RouteOK
  <2>2. CASE c = a
    <3>1. CASE s.route = NoRoute
      BY <1>1, <2>2, <3>1 DEF RouteOK, NoRoute
    <3>2. CASE s.route = t.route /\ s.route.binding # b /\ served' = served
      <4>1. RouteOK(a) /\ states[a] = t /\ t.route.binding \in Binding \cup {0}
        BY <1>0, <1>1, <1>t, Zenon DEF HostState
      <4>. QED  BY <1>1, <1>2, <2>2, <3>2, <4>1, ZenonT(30) DEF RouteOK
    <3>3. CASE s.route.binding = b /\ s.route.key = served'[a] /\ n.actor = a /\ n.phase = "serving"
      BY <1>1, <1>2, <1>3, <2>2, <3>3, Zenon DEF RouteOK
    <3>. QED  BY <1>4, <3>1, <3>2, <3>3, Zenon
  <2>. QED  BY <2>1, <2>2, Zenon
<1>7. ASSUME NEW u \in Unit PROVE UnitHeld(u)'
  <2>1. UnitHeld(u) /\ unit' = unit
    BY <1>3, Zenon DEF HostInv
  <2>2. \A c \in Actor : states'[c].body = states[c].body /\ states'[c].retiring = states[c].retiring
    BY <1>1, <1>3, <1>t, Zenon
  <2>3. unit[u].phase \notin Unstarted => unit[u].phase # "free"
    BY Zenon DEF Unstarted
  <2>. QED  BY <2>1, <2>2, <2>3, Zenon DEF UnitHeld
<1>8. ASSUME NEW c \in Binding PROVE BindingHeld(c)'
  <2>1. BindingHeld(c) /\ c # 0
    BY HostAssumption, ZenonT(30) DEF HostInv
  <2>2. CASE c = b
    BY <1>1, <1>2, <1>3, <2>2 DEF BindingHeld
  <2>3. CASE c # b /\ binding[c].actor = a
    <3>1. c = t.route.binding => c = s.route.binding \/ c \in owed'
      BY <1>4, <2>1, <2>3, Zenon DEF RouteOf
    <3>. QED  BY <1>1, <1>2, <1>3, <1>t, <2>1, <2>3, <3>1, Zenon DEF BindingHeld
  <2>4. CASE c # b /\ binding[c].actor # a
    <3>1. binding'[c] = binding[c]
      BY <1>2, <2>4, Zenon
    <3>2. binding[c].phase # "free" => states'[binding[c].actor] = states[binding[c].actor]
      BY <1>1, <2>1, <2>4 DEF BindingHeld
    <3>. QED  BY <1>3, <2>1, <3>1, <3>2, Zenon DEF BindingHeld
  <2>. QED  BY <2>2, <2>3, <2>4, Zenon
<1>. QED  BY <1>1, <1>2, <1>5, <1>6, <1>7, <1>8, Zenon

\* BindingDown takes down the exact connection only.
LEMMA DownKeeps ==
    ASSUME HostInv, NEW b \in Binding, BindingDown(b)
    PROVE  HostInv'
<1>a. PICK a : a = binding[b].actor
  BY Zenon
<1>t. PICK t : t = states[a]
  BY Zenon
<1>s. PICK s : s = Without(t, b)
  BY Zenon
<1>0. /\ TypeOK /\ CloseInv /\ a \in Actor /\ binding[b].phase = "ended" /\ b # 0
      /\ \A c \in Actor : KeysOf(c) /\ EntryOK(c) /\ RouteOK(c)
  BY <1>a, HostAssumption, Zenon DEF HostInv, BindingHeld, BindingDown
<1>1. t \in HostState
  BY <1>0, <1>t, Zenon DEF TypeOK, HostState
<1>2. /\ s \in HostState /\ s.desired = t.desired /\ s.build = t.build /\ s.body = t.body
      /\ s.retiring = t.retiring /\ s.backoff = t.backoff
      /\ \/ s.route = t.route /\ t.route.binding # b /\ s = t
         \/ s.route = NoRoute /\ t.route.binding = b
  BY <1>1, <1>s, DropRouteFields, Zenon DEF Without
<1>3. /\ states' = [states EXCEPT ![a] = s] /\ owed' = owed
      /\ known' = IF s # t THEN DeleteIfEmpty(a, s) ELSE known
      /\ binding' = [binding EXCEPT ![b] = FreeBinding]
      /\ UNCHANGED <<feedVars, unit, owed, closeVars, crashes, ghosts>>
  BY <1>a, <1>t, <1>s, Zenon DEF BindingDown
<1>4. FreeBinding \in BindingRec /\ FreeBinding.phase = "free"
  BY HostAssumption DEF FreeBinding, BindingRec, BindingPhase, Key
<1>5. Reroutes(a, s, b, FreeBinding)
  BY <1>0, <1>2, <1>3, <1>4, <1>a, <1>t, Zenon DEF Reroutes, ghosts
<1>6. /\ states' \in [Actor -> HostState] /\ states'[a] = s
      /\ \A c \in Actor \ {a} : states'[c] = states[c]
      /\ binding' \in [Binding -> BindingRec]
      /\ \A c \in Actor : UnitsOf(c)' /\ RouteOK(c)'
      /\ \A u \in Unit : UnitHeld(u)'
      /\ \A c \in Binding : BindingHeld(c)'
  BY <1>0, <1>2, <1>4, <1>5, ReroutesKeep, Zenon
<1>7. known' \in {known, known \ {a}} /\ (a \in known' <=> s # EmptyState)
  <2>1. a \in known <=> t # EmptyState
    BY <1>0, <1>t DEF EntryOK
  <2>2. s # t => t # EmptyState
    BY <1>0, <1>2 DEF EmptyState, NoRoute
  <2>. QED  BY <1>3, <2>1, <2>2, Zenon DEF DeleteIfEmpty
<1>8. TypeOK'
  <2>1. known' \subseteq Actor
    BY <1>0, <1>7, Zenon DEF TypeOK
  <2>. QED  BY <1>0, <1>3, <1>6, <2>1, Zenon DEF TypeOK, HostState, BindingRec, feedVars, closeVars, ghosts
<1>9. ASSUME NEW c \in Actor PROVE KeysOf(c)' /\ EntryOK(c)'
  <2>0. states'[c].desired = states[c].desired /\ states'[c].backoff = states[c].backoff
    BY <1>2, <1>6, <1>t, Zenon
  <2>1. KeysOf(c)'
    BY <1>0, <1>3, <2>0, Zenon DEF KeysOf, feedVars, ghosts
  <2>2. c \in known' <=> states'[c] # EmptyState
    BY <1>0, <1>6, <1>7, Zenon DEF EntryOK
  <2>3. EntryOK(c)'
    BY <1>0, <2>0, <2>2, Zenon DEF EntryOK
  <2>. QED  BY <2>1, <2>3, Zenon
<1>10. CloseInv'
  <2>1. \A c \in Actor : states'[c].body = states[c].body /\ states'[c].route \in {states[c].route, NoRoute}
    BY <1>2, <1>6, <1>t, Zenon
  <2>. QED  BY <1>0, <1>3, <2>1, Zenon DEF CloseInv, closeVars
<1>. QED  BY <1>6, <1>8, <1>9, <1>10, Zenon DEF HostInv

\* Attach publishes exactly the desired term, which is newer than any it refused.
LEMMA AttachedKeeps ==
    ASSUME HostInv, NEW b \in Binding, Attach(b), ~sealed,
           AttachReady(states[binding[b].actor], binding[b].key)
    PROVE  /\ HostInv'
           /\ \A c \in Actor : states'[c].route = states[c].route \/ states'[c].route.key > stale[c]
<1>a. PICK a : a = binding[b].actor
  BY Zenon
<1>t. PICK t : t = states[a]
  BY Zenon
<1>k. PICK k : k = binding[b].key
  BY Zenon
<1>s. PICK s : s = [t EXCEPT !.route = [key |-> k, binding |-> b]]
  BY Zenon
<1>n. PICK n : n = [binding[b] EXCEPT !.phase = "serving"]
  BY Zenon
<1>0. /\ TypeOK /\ CloseInv /\ a \in Actor /\ binding[b].phase = "attaching" /\ b # 0
      /\ \A c \in Actor : KeysOf(c) /\ EntryOK(c)
  BY <1>a, HostAssumption, Zenon DEF HostInv, BindingHeld, Attach
<1>1. t \in HostState /\ k \in Key
  BY <1>0, <1>t, <1>k, Zenon DEF TypeOK, HostState
<1>2. t.body = 0 /\ t.build = 0 /\ t.desired = [kind |-> "carrier", key |-> k]
  BY <1>a, <1>t, <1>k, Zenon DEF AttachReady
<1>3. /\ states' = [states EXCEPT ![a] = s] /\ owed' = owed \cup RouteOf(t) /\ known' = known
      /\ binding' = [binding EXCEPT ![b].phase = "serving"]
      /\ served' = [served EXCEPT ![a] = Newer(@, k)]
      /\ UNCHANGED <<feedVars, unit, closeVars, crashes, stale>>
  BY <1>a, <1>t, <1>k, <1>s, Zenon DEF Attach
<1>4. /\ s \in HostState /\ s.desired = t.desired /\ s.build = t.build /\ s.body = t.body
      /\ s.retiring = t.retiring /\ s.backoff = t.backoff
      /\ s.route = [key |-> k, binding |-> b]
  BY <1>1, <1>s, Zenon DEF HostState
<1>5. /\ n \in BindingRec /\ n.actor = a /\ n.phase = "serving"
      /\ binding' = [binding EXCEPT ![b] = n]
  BY <1>0, <1>3, <1>a, <1>n, Zenon DEF TypeOK, BindingRec, BindingPhase
<1>6. /\ served'[a] = k /\ served' \in [Actor -> Key] /\ stale[a] < k
      /\ \A c \in Actor \ {a} : served'[c] = served[c]
  <2>1. served[a] <= k /\ stale[a] < k
    BY <1>0, <1>2, <1>t DEF KeysOf
  <2>2. Newer(served[a], k) = k
    <3>1. served[a] \in Nat /\ k \in Nat
      BY <1>0, <1>1, HostAssumption DEF TypeOK, Key
    <3>. QED  BY <2>1, <3>1 DEF Newer
  <2>. QED  BY <1>0, <1>1, <1>3, <2>1, <2>2, ZenonT(30) DEF TypeOK
<1>7. Reroutes(a, s, b, n)
  <2>1. s.route.binding = b /\ s.route.key = served'[a]
    BY <1>4, <1>6
  <2>. QED  BY <1>0, <1>2, <1>3, <1>4, <1>5, <1>6, <1>a, <1>t, <2>1, ZenonT(30) DEF Reroutes
<1>8. /\ states' \in [Actor -> HostState] /\ states'[a] = s
      /\ \A c \in Actor \ {a} : states'[c] = states[c]
      /\ binding' \in [Binding -> BindingRec]
      /\ \A c \in Actor : UnitsOf(c)' /\ RouteOK(c)'
      /\ \A u \in Unit : UnitHeld(u)'
      /\ \A c \in Binding : BindingHeld(c)'
  BY <1>0, <1>4, <1>5, <1>7, ReroutesKeep, Zenon
<1>9. TypeOK'
  <2>1. owed' \subseteq Binding
    BY <1>0, <1>1, <1>3, Zenon DEF TypeOK, RouteOf, HostState
  <2>. QED  BY <1>0, <1>3, <1>6, <1>8, <2>1, Zenon DEF TypeOK, HostState, BindingRec, feedVars, closeVars
<1>10. ASSUME NEW c \in Actor PROVE KeysOf(c)' /\ EntryOK(c)'
  <2>0. states'[c].desired = states[c].desired /\ states'[c].backoff = states[c].backoff
    BY <1>4, <1>8, <1>t, Zenon
  <2>1. KeysOf(c)'
    <3>1. CASE c # a
      BY <1>0, <1>3, <1>6, <2>0, <3>1, Zenon DEF KeysOf, feedVars
    <3>2. CASE c = a
      <4>1. states[a].desired.kind = "carrier" /\ states[a].desired.key = k /\ k \in Nat
        BY <1>1, <1>2, <1>t, HostAssumption DEF Key
      <4>2. KeysOf(a)
        BY <1>0, Zenon
      <4>. QED  BY <1>3, <1>6, <2>0, <3>2, <4>1, <4>2 DEF KeysOf, feedVars
    <3>. QED  BY <3>1, <3>2, Zenon
  <2>2. states'[c] = EmptyState <=> states[c] = EmptyState
    <3>1. s # EmptyState /\ t # EmptyState
      BY <1>2, <1>4 DEF EmptyState, NoDesired
    <3>. QED  BY <1>8, <1>t, <3>1, Zenon
  <2>3. EntryOK(c)'
    BY <1>0, <1>3, <2>0, <2>2, Zenon DEF EntryOK
  <2>. QED  BY <2>1, <2>3, Zenon
<1>11. CloseInv'
  <2>1. closing = "open" /\ verdict # "clean"
    BY <1>0, Zenon DEF CloseInv, TypeOK, ClosePhase
  <2>. QED  BY <1>3, <2>1, Zenon DEF CloseInv, closeVars
<1>12. ASSUME NEW c \in Actor
       PROVE  states'[c].route = states[c].route \/ states'[c].route.key > stale[c]
  <2>1. s.route.key > stale[a]
    BY <1>0, <1>1, <1>4, <1>6, HostAssumption DEF TypeOK, Key
  <2>. QED  BY <1>8, <2>1, Zenon
<1>. QED  BY <1>8, <1>9, <1>10, <1>11, <1>12, Zenon DEF HostInv

\* A refusal leaves the table alone; a term is called stale only below what is
\* desired, which its route never exceeds.
LEMMA RefusedKeeps ==
    ASSUME HostInv, NEW b \in Binding, Attach(b),
           ~(~sealed /\ AttachReady(states[binding[b].actor], binding[b].key))
    PROVE  HostInv' /\ states' = states
<1>a. PICK a : a = binding[b].actor
  BY Zenon
<1>k. PICK k : k = binding[b].key
  BY Zenon
<1>0. /\ TypeOK /\ CloseInv /\ a \in Actor /\ k \in Key /\ binding[b].phase = "attaching"
      /\ \A c \in Actor : KeysOf(c) /\ RouteOK(c)
  BY <1>a, <1>k, Zenon DEF HostInv, BindingHeld, Attach, TypeOK
<1>1. /\ binding' = [binding EXCEPT ![b] = FreeBinding]
      /\ stale' = IF AttachStale(states[a], k) THEN [stale EXCEPT ![a] = Newer(@, k)] ELSE stale
      /\ UNCHANGED <<feedVars, tableVars, unit, owed, closeVars, crashes, served>>
  BY <1>a, <1>k, Zenon DEF Attach, tableVars
<1>2. /\ binding' \in [Binding -> BindingRec] /\ binding'[b].phase = "free"
      /\ \A c \in Binding \ {b} : binding'[c] = binding[c]
  <2>1. FreeBinding \in BindingRec /\ FreeBinding.phase = "free"
    BY HostAssumption DEF FreeBinding, BindingRec, BindingPhase, Key
  <2>. QED  BY <1>0, <1>1, <2>1, Zenon DEF TypeOK, BindingRec
<1>3. AttachStale(states[a], k) =>
         states[a].desired.kind = "carrier" /\ k < states[a].desired.key
  <2>1. ASSUME AttachStale(states[a], k) PROVE states[a].route.key <= states[a].desired.key
    <3>1. states[a].desired.kind = "carrier"
      BY <2>1, Zenon DEF AttachStale
    <3>2. served[a] <= states[a].desired.key
      BY <1>0, <3>1, Zenon DEF KeysOf
    <3>3. states[a].route.key \in {0, served[a]} /\ states[a].desired.key \in Nat
      BY <1>0, HostAssumption DEF RouteOK, NoRoute, TypeOK, Desired, Key
    <3>. QED  BY <3>2, <3>3
  <2>2. states[a].route.key \in Nat /\ states[a].desired.key \in Nat /\ k \in Nat
    BY <1>0, HostAssumption DEF TypeOK, Desired, Key
  <2>. QED  BY <2>1, <2>2 DEF AttachStale
<1>4. stale' \in [Actor -> Key]
  <2>1. Newer(stale[a], k) \in Key
    BY <1>0, Zenon DEF Newer, TypeOK
  <2>. QED  BY <1>0, <1>1, <2>1, Zenon DEF TypeOK
<1>5. TypeOK'
  BY <1>0, <1>1, <1>2, <1>4, Zenon DEF TypeOK, BindingRec, feedVars, tableVars, closeVars
<1>6. ASSUME NEW c \in Actor PROVE KeysOf(c)'
  <2>0. KeysOf(c) /\ stale[c] \in Nat /\ k \in Nat /\ UNCHANGED <<states, inbound, ledger, served>>
    BY <1>0, <1>1, HostAssumption DEF TypeOK, Key, tableVars, feedVars
  <2>1. CASE stale'[c] = stale[c]
    BY <2>0, <2>1, ZenonT(30) DEF KeysOf
  <2>2. CASE c = a /\ AttachStale(states[a], k)
    <3>1. stale'[c] = Newer(stale[c], k)
      BY <1>0, <1>1, <2>2, Zenon DEF TypeOK
    <3>2. stale'[c] \in {stale[c], k}
      BY <3>1, Zenon DEF Newer
    <3>3. /\ states[c].desired.kind # "none" /\ k < states[c].desired.key
          /\ states[c].desired.key \in Nat /\ inbound[c].key \in Nat /\ ledger[c].key \in Nat
      BY <1>0, <1>3, <2>2, HostAssumption DEF TypeOK, Desired, Key
    <3>4. /\ states[c].desired.key <= ledger[c].key /\ stale[c] < states[c].desired.key
          /\ stale[c] = 0 \/ stale[c] < ledger[c].key
          /\ inbound[c].kind # "none" => /\ states[c].desired.key <= inbound[c].key
                                         /\ stale[c] < inbound[c].key
      BY <2>0, <3>3, Zenon DEF KeysOf
    <3>5. /\ stale'[c] = 0 \/ stale'[c] < ledger[c].key
          /\ stale'[c] < states[c].desired.key
          /\ inbound[c].kind # "none" => stale'[c] < inbound[c].key
      BY <2>0, <3>2, <3>3, <3>4
    <3>. QED  BY <2>0, <3>5, ZenonT(30) DEF KeysOf
  <2>3. stale'[c] = stale[c] \/ (c = a /\ AttachStale(states[a], k))
    BY <1>0, <1>1, Zenon DEF TypeOK
  <2>. QED  BY <2>1, <2>2, <2>3, Zenon
<1>7. ASSUME NEW c \in Actor PROVE RouteOK(c)'
  <2>1. RouteOK(c) /\ states[c].route.binding \in Binding \cup {0} /\ states' = states /\ served' = served
    BY <1>0, <1>1, Zenon DEF TypeOK, tableVars
  <2>2. states[c].route.binding # b \/ states[c].route.binding = 0
    BY <1>0, <2>1, Zenon DEF RouteOK
  <2>. QED  BY <1>2, <2>1, <2>2, Zenon DEF RouteOK
<1>8. ASSUME NEW c \in Binding PROVE BindingHeld(c)'
  <2>1. BindingHeld(c) /\ states' = states /\ owed' = owed
    BY <1>1, ZenonT(30) DEF HostInv, tableVars
  <2>. QED  BY <1>2, <2>1, Zenon DEF BindingHeld
<1>9. \A c \in Actor : UnitsOf(c)' /\ EntryOK(c)'
  BY <1>1, ZenonT(30) DEF HostInv, UnitsOf, EntryOK, tableVars
<1>10. \A u \in Unit : UnitHeld(u)'
  BY <1>1, Zenon DEF HostInv, UnitHeld, tableVars
<1>11. CloseInv'
  BY <1>0, <1>1, Zenon DEF CloseInv, tableVars, closeVars
<1>12. states' = states
  BY <1>1, Zenon DEF tableVars
<1>. QED  BY <1>5, <1>6, <1>7, <1>8, <1>9, <1>10, <1>11, <1>12, Zenon DEF HostInv

-----------------------------------------------------------------------------
(* The theorems *)

LEMMA NextKeeps ==
    ASSUME HostInv, [Next]_vars
    PROVE  HostInv'
<1>1. CASE UNCHANGED vars
  <2>1. UNCHANGED <<feedVars, tableVars, unit, binding, owed, closeVars, crashes, ghosts>>
    BY <1>1, Zenon DEF vars
  <2>2. TypeOK'
    BY <2>1, Zenon DEF HostInv, TypeOK, feedVars, tableVars, closeVars, ghosts
  <2>3. ASSUME NEW c \in Actor PROVE UnitsOf(c)' /\ RouteOK(c)'
    <3>1. UnitsOf(c) /\ RouteOK(c) /\ UNCHANGED <<states, unit, binding, served>>
      BY <2>1, Zenon DEF HostInv, tableVars, ghosts
    <3>2. UnitsOf(c)'
      BY <3>1, Zenon DEF UnitsOf
    <3>3. RouteOK(c)'
      BY <3>1, Zenon DEF RouteOK
    <3>. QED  BY <3>2, <3>3, Zenon
  <2>4. \A c \in Actor : KeysOf(c)' /\ EntryOK(c)'
    BY <2>1, Zenon DEF HostInv, KeysOf, EntryOK, feedVars, tableVars, ghosts
  <2>5. (\A u \in Unit : UnitHeld(u)') /\ (\A b \in Binding : BindingHeld(b)')
    BY <2>1, Zenon DEF HostInv, UnitHeld, BindingHeld, tableVars
  <2>6. CloseInv'
    BY <2>1, Zenon DEF HostInv, CloseInv, tableVars, closeVars
  <2>. QED  BY <2>2, <2>3, <2>4, <2>5, <2>6, Zenon DEF HostInv
<1>2. ASSUME NEW a \in Actor, Command(a) \/ AcceptOne(a) \/ RetryElapsed(a) \/ CloseSweep(a)
      PROVE  HostInv'
  BY <1>2, ReadKeeps, AcceptOneKeeps, RetryKeeps, SweepKeeps, Zenon
<1>3. ASSUME NEW a \in Actor, ReconcileEnded(a) \/ ReconcileCarrier(a) \/ ReconcileBody(a)
      PROVE  HostInv'
  BY <1>3, EndedKeeps, CarrierKeeps, BodyKeeps, Zenon
<1>4. CASE ReadDesired \/ AcceptFullDesired
  BY <1>4, ReadKeeps, Zenon
<1>5. ASSUME NEW u \in Unit, BuildReturns(u) \/ BuildFails(u) \/ BodyExits(u) \/ ParentCancelled(u)
      PROVE  HostInv'
  BY <1>5, WinKeeps, LoseKeeps, BuildFailsKeeps, LifeKeeps, Zenon
<1>6. ASSUME NEW u \in Unit,
             StopUnit(u) \/ LoopReturns(u) \/ OnExited(u) \/ UnitDone(u) \/ WatchRetiring(u)
      PROVE  HostInv'
  BY <1>6, LifeKeeps, WatchKeeps, Zenon
<1>7. ASSUME NEW b \in Binding, Attach(b) \/ EndpointEnds(b) \/ CloseBinding(b) \/ BindingDown(b)
      PROVE  HostInv'
  BY <1>7, AttachedKeeps, RefusedKeeps, ConnectionKeeps, DownKeeps, Zenon
<1>8. ASSUME NEW b \in Binding, NEW a \in Actor, Connect(b, a)
      PROVE  HostInv'
  BY <1>8, ConnectionKeeps, Zenon
<1>9. CASE CloseSeal \/ CloseExpires \/ CloseJoin \/ CloseSwept \/ CloseReturns
  BY <1>9, CloseKeeps, Zenon
<1>. QED  BY <1>1, <1>2, <1>3, <1>4, <1>5, <1>6, <1>7, <1>8, <1>9, Zenon DEF Next

\* The inductive invariant of the host holds in every reachable state.
THEOREM HostInvariant ==
    Spec => []HostInv
<1>. QED  BY InitInv, NextKeeps, PTL DEF Spec

\* The states map accounts for everything, whatever replacements, lost races,
\* failed builds, drops from the snapshot and Close do: it has exactly the actors
\* the host has something for, and every unit past its builder is a body or is
\* being retired.
THEOREM MapIsExact ==
    Spec => []StatesAreExact
<1>1. ASSUME HostInv PROVE StatesAreExact
  <2>1. TypeOK
    BY <1>1, Zenon DEF HostInv
  <2>2. known = {a \in Actor : states[a] # EmptyState}
    BY <1>1, Zenon DEF HostInv, EntryOK, TypeOK
  <2>3. \A u \in Unit : unit[u].phase \notin {"free", "building"} =>
           LET s == states[unit[u].actor] IN u = s.body \/ u \in s.retiring
    BY <1>1, Zenon DEF HostInv, UnitHeld, Unstarted
  <2>. QED  BY <2>1, <2>2, <2>3, Zenon DEF StatesAreExact
<1>. QED  BY <1>1, HostInvariant, PTL

\* An actor never has a body beside a route, and a connection that is served is
\* its actor's route or about to be closed.
THEOREM NoStrandedRoute ==
    Spec => []RoutesAreTrue
<1>1. ASSUME HostInv PROVE RoutesAreTrue
  BY <1>1, Zenon DEF HostInv, UnitsOf, BindingHeld, RoutesAreTrue
<1>. QED  BY <1>1, HostInvariant, PTL

\* Neither a late build nor a late attach brings an older term back.
THEOREM NewestTermServes ==
    Spec => []EndpointIsNewest
<1>1. ASSUME HostInv, NEW a \in Actor PROVE EndpointKey(states[a]) \in {0, served[a]}
  <2>1. UnitsOf(a) /\ RouteOK(a)
    BY <1>1, Zenon DEF HostInv
  <2>2. CASE states[a].body # 0
    BY <2>1, <2>2, Zenon DEF UnitsOf, EndpointKey
  <2>3. CASE states[a].body = 0
    <3>1. EndpointKey(states[a]) = states[a].route.key
      BY <2>3, Zenon DEF EndpointKey
    <3>2. states[a].route.key \in {0, served[a]}
      BY <2>1 DEF RouteOK, NoRoute
    <3>. QED  BY <3>1, <3>2, Zenon
  <2>. QED  BY <2>2, <2>3, Zenon
<1>2. HostInv => EndpointIsNewest
  BY <1>1, Zenon DEF EndpointIsNewest
<1>. QED  BY <1>2, HostInvariant, PTL

\* A Close that reports no leak left no unit running and no actor reachable.
THEOREM CleanCloseLeavesNothing ==
    Spec => []CleanCloseIsQuiet
<1>1. ASSUME HostInv, verdict = "clean"
      PROVE  /\ \A u \in Unit : unit[u].phase \in {"free", "done"}
             /\ \A a \in Actor : states[a].body = 0 /\ states[a].route = NoRoute
  BY <1>1, Zenon DEF HostInv, CloseInv
<1>2. HostInv => CleanCloseIsQuiet
  BY <1>1, Zenon DEF CleanCloseIsQuiet
<1>. QED  BY <1>2, HostInvariant, PTL

\* Only Attach publishes a route.
LEMMA OnlyAttachRoutes ==
    ASSUME HostInv, [Next]_vars, NEW c \in Actor
    PROVE  \/ states'[c].route \in {states[c].route, NoRoute}
           \/ states'[c].route.key > stale[c]
<1>. DEFINE Same == states'[c].route \in {states[c].route, NoRoute}
<1>0. TypeOK /\ states[c] \in HostState
  BY Zenon DEF HostInv, TypeOK, HostState
<1>1. CASE states' = states
  BY <1>1, Zenon
<1>2. ASSUME NEW a \in Actor, AcceptOne(a) PROVE Same
  <2>1. CASE sealed
    BY <1>2, <2>1, Zenon DEF AcceptOne, tableVars
  <2>2. CASE ~sealed
    <3>1. states[a] \in HostState /\ inbound[a] \in Desired
      BY <1>0, Zenon DEF TypeOK, HostState
    <3>2. PICK s : s = Accepted(states[a], inbound[a])
      BY Zenon
    <3>3. s \in HostState /\ s.route = states[a].route
      BY <3>1, <3>2, AcceptedFields, Zenon
    <3>4. states' = [states EXCEPT ![a] = s]
      BY <1>2, <2>2, <3>2 DEF AcceptOne
    <3>. QED  BY <1>0, <3>3, <3>4, OneEntry, Zenon
  <2>. QED  BY <2>1, <2>2, Zenon
<1>3. ASSUME NEW a \in Actor, NEW s \in HostState, states' = [states EXCEPT ![a] = s],
             s.route \in {states[a].route, NoRoute}
      PROVE  Same
  BY <1>0, <1>3, OneEntry, Zenon
<1>4. ASSUME NEW a \in Actor, RetryElapsed(a) PROVE Same
  BY <1>0, <1>4, Zenon DEF RetryElapsed, TypeOK
<1>5. ASSUME NEW a \in Actor,
             CloseSweep(a) \/ ReconcileEnded(a) \/ ReconcileCarrier(a) \/ ReconcileBody(a)
      PROVE  Same
  <2>1. states[a] \in HostState
    BY <1>0, Zenon DEF TypeOK, HostState
  <2>2. PICK k : k = Cleared(states[a])
    BY Zenon
  <2>3. k \in HostState /\ k.route = states[a].route
    BY <2>1, <2>2, ClearedFields, Zenon
  <2>4. DropRoute(k) \in HostState /\ DropRoute(k).route = NoRoute
    BY <2>3, DropRouteFields, Zenon
  <2>5. CASE CloseSweep(a)
    BY <1>3, <2>1, <2>5, SweptFields, Zenon DEF CloseSweep
  <2>6. CASE ReconcileEnded(a)
    BY <1>3, <2>2, <2>4, <2>6, Zenon DEF ReconcileEnded
  <2>7. CASE ReconcileCarrier(a)
    <3>1. states' = [states EXCEPT ![a] = k] \/ states' = [states EXCEPT ![a] = DropRoute(k)]
      BY <2>2, <2>7, Zenon DEF ReconcileCarrier
    <3>. QED  BY <1>3, <2>3, <2>4, <3>1, Zenon
  <2>8. CASE ReconcileBody(a)
    <3>1. PICK h : h = Health(states[a])
      BY Zenon
    <3>2. h \in HostState /\ h.route = states[a].route
      BY <2>1, <3>1, RetireFields, Zenon DEF Health
    <3>3. \A u \in Unit : [h EXCEPT !.build = u] \in HostState /\ [h EXCEPT !.build = u].route = h.route
      BY <3>2, Zenon DEF HostState
    <3>4. \/ states' = [states EXCEPT ![a] = h]
          \/ \E u \in Unit : states' = [states EXCEPT ![a] = [h EXCEPT !.build = u]]
      BY <2>8, <3>1, Zenon DEF ReconcileBody, First
    <3>. QED  BY <1>3, <3>2, <3>3, <3>4, Zenon
  <2>. QED  BY <1>5, <2>5, <2>6, <2>7, <2>8, Zenon
<1>6. ASSUME NEW u \in Unit, BuildReturns(u) PROVE Same
  <2>1. PICK a : a = unit[u].actor
    BY Zenon
  <2>2. a \in Actor
    BY <1>6, <2>1, Zenon DEF HostInv, UnitHeld, BuildReturns
  <2>3. PICK t : t = states[a]
    BY Zenon
  <2>4. t \in HostState
    BY <1>0, <2>2, <2>3, Zenon DEF TypeOK, HostState
  <2>5. CASE JobCurrent(t, u)
    <3>1. PICK r : r = Retire(t)
      BY Zenon
    <3>2. PICK s : s = [r EXCEPT !.build = 0, !.backoff = FALSE, !.body = u, !.route = NoRoute]
      BY Zenon
    <3>3. states' = [states EXCEPT ![a] = s]
      BY <1>6, <2>1, <2>3, <2>5, <3>1, <3>2, Zenon DEF BuildReturns
    <3>4. r \in HostState
      BY <2>4, <3>1, RetireFields, Zenon
    <3>5. s \in HostState /\ s.route = NoRoute
      <4>1. NoRoute \in [key : Key, binding : Binding \cup {0}]
        BY HostAssumption DEF NoRoute, Key
      <4>. QED  BY <3>2, <3>4, <4>1, Zenon DEF HostState
    <3>. QED  BY <1>3, <2>2, <3>3, <3>5, Zenon
  <2>6. CASE ~JobCurrent(t, u)
    <3>1. PICK s : s = [t EXCEPT !.build = IF @ = u THEN 0 ELSE @, !.retiring = @ \cup {u}]
      BY Zenon
    <3>2. states' = [states EXCEPT ![a] = s]
      BY <1>6, <2>1, <2>3, <2>6, <3>1, Zenon DEF BuildReturns
    <3>3. s \in HostState /\ s.route = t.route
      BY <2>4, <3>1, Zenon DEF HostState
    <3>. QED  BY <1>3, <2>2, <2>3, <3>2, <3>3, Zenon
  <2>. QED  BY <2>5, <2>6, Zenon
<1>7. ASSUME NEW u \in Unit, BuildFails(u) PROVE Same
  <2>1. PICK a : a = unit[u].actor
    BY Zenon
  <2>2. a \in Actor /\ states[a] \in HostState
    BY <1>0, <1>7, <2>1, Zenon DEF HostInv, UnitHeld, BuildFails, TypeOK, HostState
  <2>3. Abandon(states[a], u).route = states[a].route
    BY <2>2, Zenon DEF Abandon, HostState
  <2>4. states'[c] \in {states[c], Abandon(states[a], u)} /\ (c # a => states'[c] = states[c])
    BY <1>0, <1>7, <2>1, <2>2, Zenon DEF BuildFails, TypeOK
  <2>. QED  BY <2>3, <2>4, Zenon
<1>8. ASSUME NEW u \in Unit, WatchRetiring(u) PROVE Same
  <2>1. PICK a : a = unit[u].actor
    BY Zenon
  <2>2. a \in Actor /\ states[a] \in HostState
    BY <1>0, <1>8, <2>1, Zenon DEF HostInv, UnitHeld, WatchRetiring, TypeOK, HostState
  <2>3. PICK s : s = [states[a] EXCEPT !.retiring = @ \ {u}]
    BY Zenon
  <2>4. s \in HostState /\ s.route = states[a].route
    BY <2>2, <2>3, Zenon DEF HostState
  <2>5. states' = [states EXCEPT ![a] = s]
    BY <1>8, <2>1, <2>3, Zenon DEF WatchRetiring
  <2>. QED  BY <1>3, <2>2, <2>4, <2>5, Zenon
<1>9. ASSUME NEW b \in Binding, BindingDown(b) PROVE Same
  <2>1. PICK a : a = binding[b].actor
    BY Zenon
  <2>2. a \in Actor /\ states[a] \in HostState
    BY <1>0, <1>9, <2>1, Zenon DEF HostInv, BindingHeld, BindingDown, TypeOK, HostState
  <2>3. PICK s : s = Without(states[a], b)
    BY Zenon
  <2>4. s \in HostState /\ s.route \in {states[a].route, NoRoute}
    BY <2>2, <2>3, DropRouteFields, Zenon DEF Without
  <2>5. states' = [states EXCEPT ![a] = s]
    BY <1>9, <2>1, <2>3, Zenon DEF BindingDown
  <2>. QED  BY <1>3, <2>2, <2>4, <2>5, Zenon
<1>10. ASSUME NEW b \in Binding, Attach(b) PROVE Same \/ states'[c].route.key > stale[c]
  BY <1>10, AttachedKeeps, RefusedKeeps, Zenon
<1>11. \/ states' = states
       \/ \E a \in Actor : \/ AcceptOne(a) \/ RetryElapsed(a) \/ CloseSweep(a)
                           \/ ReconcileEnded(a) \/ ReconcileCarrier(a) \/ ReconcileBody(a)
       \/ \E u \in Unit : BuildReturns(u) \/ BuildFails(u) \/ WatchRetiring(u)
       \/ \E b \in Binding : Attach(b) \/ BindingDown(b)
  <2>1. UNCHANGED vars => states' = states
    BY Zenon DEF vars, tableVars
  <2>2. ReadDesired \/ AcceptFullDesired \/ (\E a \in Actor : Command(a)) => states' = states
    BY Zenon DEF ReadDesired, AcceptFullDesired, Command, tableVars
  <2>3. \A u \in Unit : BodyExits(u) \/ ParentCancelled(u) \/ StopUnit(u) \/ LoopReturns(u)
                          \/ OnExited(u) \/ UnitDone(u) => states' = states
    BY Zenon DEF BodyExits, ParentCancelled, StopUnit, LoopReturns, OnExited, UnitDone, Step, tableVars
  <2>4. \A b \in Binding : EndpointEnds(b) \/ CloseBinding(b) \/ (\E a \in Actor : Connect(b, a))
                             => states' = states
    BY Zenon DEF EndpointEnds, CloseBinding, Connect, tableVars
  <2>5. CloseSeal \/ CloseExpires \/ CloseJoin \/ CloseSwept \/ CloseReturns => states' = states
    BY Zenon DEF CloseSeal, CloseExpires, CloseJoin, CloseSwept, CloseReturns, tableVars
  <2>. QED  BY <2>1, <2>2, <2>3, <2>4, <2>5, Zenon DEF Next
<1>. QED  BY <1>1, <1>2, <1>4, <1>5, <1>6, <1>7, <1>8, <1>9, <1>10, <1>11, Zenon

\* "Retrying can never make this older one current": after ErrAttachStale for a
\* term, no route of that term or an older one is published.
THEOREM StaleTermStaysOut ==
    Spec => StaleIsFinal
<1>. DEFINE Final == \A a \in Actor :
                        LET r == states'[a].route
                        IN  r \in {states[a].route, NoRoute} \/ r.key > stale[a]
<1>1. HostInv /\ [Next]_vars => [Final]_vars
  BY OnlyAttachRoutes, Zenon
<1>. QED  BY <1>1, HostInvariant, PTL DEF Spec, StaleIsFinal
=============================================================================

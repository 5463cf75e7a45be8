---------------------------- MODULE ActorControl ----------------------------
(***************************************************************************)
(* The managed actors of one channel: the Controller of runtime/actorctl   *)
(* with its ledger, the table actor_registry behind it                     *)
(* (runtime/internal/store/actors.go), the declaration pull of the home's  *)
(* reconcile sweep and the home's close.                                   *)
(*                                                                         *)
(* A command is admitted by the commandOwner, takes the ledger lock,       *)
(* changes the table in one transaction and then publishes the new ledger  *)
(* entry.  The lock is held from the transaction to the publication, so    *)
(* nothing but the end of the process comes between them; `held` is the    *)
(* change that is committed and not yet published.                         *)
(*                                                                         *)
(* A body is a desired fact that some execution domain has read and runs   *)
(* from; it may be a device's, and then it outlives the server process.    *)
(* A term key is a number, fresh for its actor each time one is minted.    *)
(***************************************************************************)
EXTENDS Naturals, FiniteSets

CONSTANTS
    Id,         \* ids mintActorIDTx may return; numbers
    Principal,  \* login principals
    Decl,       \* declarations
    Def,        \* definitions, numbers: a class with its config
    Origin,     \* per declaration: the definition it starts with
    PeerDef,    \* the definitions whose class is of kind peer; the others' is agent
    ServerDef,  \* the definitions whose class runs on the server; the others' on a device
    Domain,     \* execution domains, the server among them
    Server,
    MaxCalls,   \* commands in flight
    MaxBody,    \* bodies that are looked at
    MaxEvent    \* births, edits, restarts, store faults and crashes

ASSUME ControlAssumption ==
    /\ Id \subseteq Nat \ {0} /\ IsFiniteSet(Id)
    /\ Def \subseteq Nat \ {0} /\ PeerDef \subseteq Def /\ ServerDef \subseteq Def
    /\ Origin \in [Decl -> Def]
    /\ Principal \cap Decl = {}
    /\ Server \in Domain
    /\ MaxCalls \in Nat /\ MaxBody \in Nat /\ MaxEvent \in Nat

VARIABLES
    rows,       \* actor_registry
    ledger,     \* Controller.actors
    phase,      \* Controller.phase
    sealed,     \* commandOwner.sealed
    admitted,   \* commandOwner.wg, but for the pull's own command
    held,       \* the change between its commit and its publication
    minted,     \* per id: how many term keys it was given
    declared,   \* the declarations as the registrar resolves them
    pull,       \* reconcileDeclarations
    bodies,
    events

vars == <<rows, ledger, phase, sealed, admitted, held, minted, declared, pull, bodies, events>>

NoRow    == [kind |-> "none", who |-> Server, def |-> 0, place |-> Server, live |-> FALSE]
NoTerm   == [def |-> 0, place |-> Server, key |-> 0]
NoChange == [id |-> 0, pull |-> FALSE]
NoPull   == [todo |-> {}, id |-> 0, def |-> 0, calling |-> FALSE]
HumanDef == 0

Kind   == {"human", "agent", "peer"}
Row    == [kind : Kind, who : Principal \cup Decl, def : Def \cup {HumanDef}, place : Domain,
           live : BOOLEAN]
KindOf(def) == IF def \in PeerDef THEN "peer" ELSE "agent"

TypeOK ==
    /\ rows \in [Id -> Row \cup {NoRow}]
    /\ ledger \in [Id -> [def : Def \cup {HumanDef}, place : Domain, key : Nat]]
    /\ phase \in {"bootstrapping", "running", "closed"}
    /\ sealed \in BOOLEAN /\ admitted \in 0 .. MaxCalls
    /\ held \in [id : Id \cup {0}, pull : BOOLEAN]
    /\ minted \in [Id -> Nat]
    /\ declared \in [Decl -> Def]
    /\ pull \in [todo : SUBSET Id, id : Id \cup {0}, def : Def \cup {0}, calling : BOOLEAN]
    /\ bodies \subseteq [id : Id, key : Nat, def : Def \cup {HumanDef}, place : Domain]
    /\ events \in 0 .. MaxEvent

Init ==
    /\ rows = [i \in Id |-> NoRow] /\ ledger = [i \in Id |-> NoTerm]
    /\ phase = "bootstrapping" /\ sealed = FALSE /\ admitted = 0 /\ held = NoChange
    /\ minted = [i \in Id |-> 0]
    /\ declared = Origin
    /\ pull = NoPull /\ bodies = {} /\ events = 0

\* What a behaviour has used of its bound: events, and the ids given out.
Spent == events + Cardinality({i \in Id : rows[i] # NoRow})

Live   == {i \in Id : rows[i].live}
Member == {i \in Id : ledger[i].key # 0}

-----------------------------------------------------------------------------
\* The table.

\* A used id is never given again, dead or alive; the bound also limits births.
NextId == {i \in Id : /\ Spent < MaxEvent
                     /\ rows[i] = NoRow /\ \A j \in Id : j < i => rows[j] # NoRow}

Birth(kind, who, def, place) ==
    [kind |-> kind, who |-> who, def |-> def, place |-> place, live |-> TRUE]

Seats(kind, who) == {i \in Live : rows[i].kind = kind /\ rows[i].who = who}

\* ErrConflictExists.  Whether a birth must be the only one is asked of that birth:
\* no row keeps it, so a later birth that does not ask is seated beside it.
Conflicts(kind, decl, alone) == (alone \/ kind = "peer") /\ Seats(kind, decl) # {}

-----------------------------------------------------------------------------
\* Commands.

InFlight == admitted + (IF pull.calling THEN 1 ELSE 0)

\* Variant: the seal is not looked at.
BeginAnyway ==
    /\ admitted < MaxCalls
    /\ admitted' = admitted + 1
    /\ UNCHANGED <<rows, ledger, phase, sealed, held, minted, declared, pull, bodies, events>>

Begin ==
    /\ ~sealed /\ admitted < MaxCalls
    /\ admitted' = admitted + 1
    /\ UNCHANGED <<rows, ledger, phase, sealed, held, minted, declared, pull, bodies, events>>

\* An admitted command has the ledger lock and the phase lets it run.
Locked == held = NoChange /\ phase = "running"

\* The transaction commits; the lock is kept.
Commit(i, row, byPull) ==
    /\ rows' = [rows EXCEPT ![i] = row]
    /\ held' = [id |-> i, pull |-> byPull]
    /\ UNCHANGED <<ledger, phase, sealed, admitted, minted, declared, pull, bodies, events>>

\* The insert of a principal that has a live row updates that row.
Admit(p) ==
    /\ Locked /\ admitted > 0
    /\ \E i \in IF Seats("human", p) # {} THEN Seats("human", p) ELSE NextId :
          Commit(i, Birth("human", p, HumanDef, Server), FALSE)

KindAgrees(decl, kind) == \A i \in Member : rows[i].who = decl => rows[i].kind = kind

\* Definition and singleton flag were resolved at the door and may be old by now; the
\* kind cannot be, an edit keeps it.
Introduce(decl, def, alone, place) ==
    /\ Locked /\ admitted > 0
    /\ KindOf(def) = KindOf(declared[decl]) /\ (place = Server <=> def \in ServerDef)
    /\ KindAgrees(decl, KindOf(def))
    /\ ~Conflicts(KindOf(def), decl, alone)
    /\ \E i \in NextId : Commit(i, Birth(KindOf(def), decl, def, place), FALSE)

\* UpdateDefinition leaves the placement alone.
ApplyDeclaration ==
    /\ Locked /\ pull.calling
    /\ pull.id \in Member /\ ledger[pull.id].def # pull.def
    /\ Commit(pull.id, [rows[pull.id] EXCEPT !.def = pull.def], TRUE)

\* End and Remove, by whoever may: the caller's own term and membership are left
\* open.  The table's latch never opens again.
Terminal(i) ==
    /\ Locked /\ admitted > 0
    /\ i \in Member
    /\ Commit(i, [rows[i] EXCEPT !.live = FALSE], FALSE)

\* The lock is released and the command returns.
Returns ==
    /\ held' = NoChange
    /\ IF held.pull
       THEN pull' = [pull EXCEPT !.id = 0, !.def = 0, !.calling = FALSE] /\ UNCHANGED admitted
       ELSE admitted' = admitted - 1 /\ UNCHANGED pull

\* Variant: a member keeps its term.
TermKept(i) == IF i \in Member THEN minted[i] ELSE minted[i] + 1

\* The term of a published entry: always a new one.
TermOf(i) == minted[i] + 1

\* Variant: any member that is there stays as is.
EntryFirst(i, row) ==
    IF ~row.live THEN NoTerm
    ELSE IF i \in Member THEN ledger[i]
    ELSE [def |-> row.def, place |-> row.place, key |-> TermOf(i)]

\* What a committed row leaves in the ledger; a human who is there stays as is.
Entry(i, row) ==
    IF ~row.live THEN NoTerm
    ELSE IF row.kind = "human" /\ i \in Member THEN ledger[i]
    ELSE [def |-> row.def, place |-> row.place, key |-> TermOf(i)]

Publish ==
    LET i == held.id
        entry == Entry(i, rows[i])
    IN  /\ held # NoChange
        /\ ledger' = [ledger EXCEPT ![i] = entry]
        /\ minted' = [minted EXCEPT ![i] = IF entry.key > @ THEN entry.key ELSE @]
        /\ Returns
        /\ UNCHANGED <<rows, phase, sealed, declared, bodies, events>>

\* Restart has no row to write: a new term and nothing else.
Restart(i) ==
    /\ Locked /\ admitted > 0 /\ i \in Member
    /\ Spent < MaxEvent /\ events' = events + 1
    /\ ledger' = [ledger EXCEPT ![i].key = minted[i] + 1]
    /\ minted' = [minted EXCEPT ![i] = @ + 1]
    /\ admitted' = admitted - 1
    /\ UNCHANGED <<rows, phase, sealed, held, declared, pull, bodies>>

\* A command that is refused, or whose transaction fails, changes nothing.
Refuse ==
    /\ held = NoChange /\ admitted > 0
    /\ admitted' = admitted - 1
    /\ UNCHANGED <<rows, ledger, phase, sealed, held, minted, declared, pull, bodies, events>>

-----------------------------------------------------------------------------
\* The life of the Controller.

\* Variant: restored actors take up the terms they had.
RestoredTermKept(i) == IF minted[i] = 0 THEN 1 ELSE minted[i]

RestoredTerm(i) == minted[i] + 1

\* RestoreActive: every live row is a member, in a new term.
Start ==
    /\ phase = "bootstrapping"
    /\ ledger' = [i \in Id |-> IF i \in Live
                               THEN [def |-> rows[i].def, place |-> rows[i].place,
                                     key |-> RestoredTerm(i)]
                               ELSE NoTerm]
    /\ minted' = [i \in Id |-> IF i \in Live THEN RestoredTerm(i) ELSE minted[i]]
    /\ phase' = "running"
    /\ UNCHANGED <<rows, sealed, admitted, held, declared, pull, bodies, events>>

Quiesce ==
    /\ phase = "running" /\ ~sealed
    /\ sealed' = TRUE
    /\ UNCHANGED <<rows, ledger, phase, admitted, held, minted, declared, pull, bodies, events>>

\* The home tears the Controller down only after Quiesce has joined.
Close ==
    /\ phase = "running" /\ sealed /\ InFlight = 0
    /\ phase' = "closed"
    /\ ledger' = [i \in Id |-> NoTerm]
    /\ UNCHANGED <<rows, sealed, admitted, held, minted, declared, pull, bodies, events>>

\* The process ends, with a change held or not, or a closed channel is opened again.
Reopen ==
    /\ Spent < MaxEvent /\ events' = events + 1
    /\ phase' = "bootstrapping" /\ sealed' = FALSE /\ admitted' = 0 /\ held' = NoChange
    /\ ledger' = [i \in Id |-> NoTerm]
    /\ pull' = NoPull
    /\ UNCHANGED <<rows, minted, declared, bodies>>

-----------------------------------------------------------------------------
\* The declaration pull.

\* Variant: only what runs on the server is pulled.
PullStartServer ==
    /\ Locked /\ pull = NoPull
    /\ pull' = [pull EXCEPT !.todo = {i \in Member : rows[i].kind = "agent" /\ rows[i].place = Server}]
    /\ UNCHANGED <<rows, ledger, phase, sealed, admitted, held, minted, declared, bodies, events>>

\* DeclaredReconcileList, under the lock.  Peers and humans are not pulled.
PullStart ==
    /\ Locked /\ pull = NoPull
    /\ pull' = [pull EXCEPT !.todo = {i \in Member : rows[i].kind = "agent"}]
    /\ UNCHANGED <<rows, ledger, phase, sealed, admitted, held, minted, declared, bodies, events>>

\* One listed member: its declaration is resolved, and called for if it differs.
\* Only the pull changes a definition, so the listed one is the row's.  The member
\* may have left by now.
PullResolve(i) ==
    LET def == declared[rows[i].who]
    IN  /\ pull.id = 0 /\ i \in pull.todo
        /\ pull' = IF KindOf(def) = rows[i].kind /\ def # rows[i].def
                   THEN [pull EXCEPT !.todo = @ \ {i}, !.id = i, !.def = def]
                   ELSE [pull EXCEPT !.todo = @ \ {i}]
        /\ UNCHANGED <<rows, ledger, phase, sealed, admitted, held, minted, declared, bodies, events>>

\* The registrar does not answer; the member waits for the next sweep.
PullUnresolved(i) ==
    /\ pull.id = 0 /\ i \in pull.todo
    /\ Spent < MaxEvent /\ events' = events + 1
    /\ pull' = [pull EXCEPT !.todo = @ \ {i}]
    /\ UNCHANGED <<rows, ledger, phase, sealed, admitted, held, minted, declared, bodies>>

PullCall ==
    /\ pull.id # 0 /\ ~pull.calling /\ ~sealed
    /\ pull' = [pull EXCEPT !.calling = TRUE]
    /\ UNCHANGED <<rows, ledger, phase, sealed, admitted, held, minted, declared, bodies, events>>

\* The channel is closing, the member has left, or the definition is in place.
PullRefused ==
    /\ pull.id # 0 /\ ~held.pull
    /\ \/ ~pull.calling /\ sealed
       \/ pull.calling /\ Locked /\ (pull.id \notin Member \/ ledger[pull.id].def = pull.def)
    /\ pull' = [pull EXCEPT !.id = 0, !.def = 0, !.calling = FALSE]
    /\ UNCHANGED <<rows, ledger, phase, sealed, admitted, held, minted, declared, bodies, events>>

\* UpdateDefinition fails: logged, left for the next sweep.
PullFails ==
    /\ pull.calling /\ Locked
    /\ Spent < MaxEvent /\ events' = events + 1
    /\ pull' = [pull EXCEPT !.id = 0, !.def = 0, !.calling = FALSE]
    /\ UNCHANGED <<rows, ledger, phase, sealed, admitted, held, minted, declared, bodies>>

\* editDecl: not of a system class, not into one, and never to another kind.
Edit(decl, def) ==
    /\ Spent < MaxEvent /\ events' = events + 1
    /\ declared[decl] # def
    /\ KindOf(declared[decl]) # "peer" /\ KindOf(def) = KindOf(declared[decl])
    /\ declared' = [declared EXCEPT ![decl] = def]
    /\ UNCHANGED <<rows, ledger, phase, sealed, admitted, held, minted, pull, bodies>>

-----------------------------------------------------------------------------
\* Bodies.

\* A server placement runs on the server; any other on its device alone.
DesiredFor(domain) ==
    {[id |-> i, key |-> ledger[i].key, def |-> ledger[i].def, place |-> domain] :
        i \in {j \in Member : ledger[j].place = domain}}

\* A domain reads its level and builds one of the bodies, now or later.
Build(domain) ==
    /\ phase = "running" /\ held = NoChange
    /\ Cardinality(bodies) < MaxBody
    /\ \E x \in DesiredFor(domain) : x \notin bodies /\ bodies' = bodies \cup {x}
    /\ UNCHANGED <<rows, ledger, phase, sealed, admitted, held, minted, declared, pull, events>>

\* RunAuthority.Admit and AuthorizeAttach: member, current term.
Current(x) == phase = "running" /\ x.id \in Member /\ ledger[x.id].key = x.key

-----------------------------------------------------------------------------
\* An admitted command's turn.
Command ==
    \/ \E p \in Principal : Admit(p)
    \/ \E decl \in Decl, def \in Def, alone \in BOOLEAN, place \in Domain :
          Introduce(decl, def, alone, place)
    \/ \E i \in Id : Terminal(i) \/ Restart(i)
    \/ Refuse

Next ==
    \/ Begin \/ Command \/ Publish \/ Start \/ Quiesce \/ Close \/ Reopen
    \/ \E i \in Id : PullResolve(i) \/ PullUnresolved(i)
    \/ ApplyDeclaration \/ PullStart \/ PullCall \/ PullRefused \/ PullFails
    \/ \E decl \in Decl, def \in Def : Edit(decl, def)
    \/ \E domain \in Domain : Build(domain)

Spec == Init /\ [][Next]_vars

\* The process starts its Controller, a command with the lock ends, the sweep has
\* a ticker and the ledger lock starves nobody.
LiveSpec ==
    /\ Spec
    /\ WF_vars(Start) /\ WF_vars(Publish) /\ WF_vars(Command)
    /\ SF_vars(PullStart) /\ SF_vars(ApplyDeclaration) /\ SF_vars(PullRefused)
    /\ WF_vars(PullCall) /\ WF_vars(\E i \in Id : PullResolve(i))

-----------------------------------------------------------------------------
\* "Outside the lock only the before-state or the after-state is ever visible":
\* the ledger of a running Controller is the live rows, definition and placement
\* included, through failed transactions, crashes and restarts; and those rows
\* seat nobody twice: a principal has one human seat, a peer declaration one member,
\* and the members of a declaration are of one kind.
SeatsAreTrue ==
    /\ TypeOK
    /\ phase = "running" /\ held = NoChange =>
          /\ Member = Live
          /\ \A i \in Member : ledger[i].def = rows[i].def /\ ledger[i].place = rows[i].place
    /\ \A i, j \in Live : i # j /\ rows[i].who = rows[j].who =>
          rows[i].kind = rows[j].kind /\ rows[i].kind = "agent"

\* "Changing the config IS a new term": whoever still holds the current key of an
\* actor runs its current definition, in the domain it is placed in.  Hosts compare
\* keys and nothing else, and a device's body may be older than the server process.
KeyFixesBody ==
    \A x \in bodies : Current(x) => x.def = ledger[x.id].def /\ x.place = ledger[x.id].place

\* A body whose term was superseded is never current again and an actor that ended
\* never lives again, also after a restart.
StaleIsFinal ==
    [][/\ \A x \in bodies : ~Current(x) => ~Current(x)'
       /\ \A i \in Id : rows[i] # NoRow /\ ~rows[i].live => ~rows'[i].live]_vars

\* "Its permanent drained level": once Quiesce has joined, no command is in flight
\* and nothing writes the table until the channel is opened again, and a closed
\* Controller has none behind it; the home tears down the Controller and its store
\* on the strength of it.
SealedIsQuiet ==
    [][/\ sealed /\ InFlight = 0 /\ sealed' => InFlight' = 0 /\ rows' = rows
       /\ phase' = "closed" => sealed' /\ InFlight' = 0]_vars

Settled(i) ==
    \/ i \notin Member \/ rows[i].kind # "agent"
    \/ ledger[i].def = declared[rows[i].who]

\* A member seated from an old declaration, or whose declaration was edited while
\* it was being pulled, comes to run the declaration as it stands; and once the
\* channel is sealed every admitted command ends, so that Quiesce joins.
DeclarationsConverge ==
    \A i \in Id : []<>(IF sealed THEN InFlight = 0 ELSE Settled(i))
=============================================================================

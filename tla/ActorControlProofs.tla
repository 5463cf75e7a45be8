------------------------- MODULE ActorControlProofs -------------------------
(***************************************************************************)
(* Theorems about ActorControl: the seats, the keys and the quiet of a     *)
(* sealed channel, for every roster of ids, principals, declarations,      *)
(* definitions and domains, and for any number of commands and bodies.     *)
(***************************************************************************)
EXTENDS ActorControl, FiniteSetTheorems, TLAPS

-----------------------------------------------------------------------------
(* The inductive invariant *)

\* A row's kind settles whose it is; a human's definition and place are fixed.
RowsInv ==
    \A i \in Id : rows[i] # NoRow =>
        IF rows[i].kind = "human"
        THEN rows[i].who \in Principal /\ rows[i].def = HumanDef /\ rows[i].place = Server
        ELSE rows[i].who \in Decl

\* Nobody is seated twice.
OneSeat ==
    \A i, j \in Live : i # j /\ rows[i].who = rows[j].who =>
        rows[i].kind = rows[j].kind /\ rows[i].kind = "agent"

\* The pull lists agents, and calls for one it has resolved.
PullInv ==
    /\ \A i \in pull.todo : rows[i].kind = "agent"
    /\ pull.id # 0 => rows[pull.id].kind = "agent" /\ pull.def \in Def
    /\ pull.calling => pull.id # 0

\* Who holds the lock is a command in flight of a running Controller.
HeldInv ==
    held # NoChange =>
        /\ held.id \in Id /\ phase = "running"
        /\ IF held.pull THEN pull.calling ELSE admitted > 0

\* The ledger's entry of i, definition and placement, is its row's.
Same(i) == ledger[i].def = rows[i].def /\ ledger[i].place = rows[i].place

\* Only the entry whose change is held may be behind its row, and not a human's.
LedgerInv ==
    /\ phase # "running" => \A i \in Id : ledger[i] = NoTerm
    /\ phase = "running" => \A i \in Id :
          /\ i # held.id => (i \in Member <=> i \in Live) /\ (i \in Member => Same(i))
          /\ rows[i].kind = "human" /\ i \in Member => Same(i)

\* A key was minted for its actor, and fixes definition and place.
KeyInv ==
    /\ \A i \in Id : ledger[i].key <= minted[i]
    /\ \A x \in bodies :
          /\ x.key # 0 /\ x.key <= minted[x.id]
          /\ x.key = ledger[x.id].key => x.def = ledger[x.id].def /\ x.place = ledger[x.id].place

ControlInv ==
    /\ TypeOK /\ RowsInv /\ OneSeat /\ PullInv /\ HeldInv /\ LedgerInv /\ KeyInv

-----------------------------------------------------------------------------
(* Helpers *)

\* Room under the bound is room for one more event.
LEMMA SpentBounds ==
    ASSUME TypeOK, Spent < MaxEvent
    PROVE  events + 1 \in 0 .. MaxEvent
<1> DEFINE S == {i \in Id : rows[i] # NoRow}
<1>1. Cardinality(S) \in Nat
  BY ControlAssumption, FS_Subset, FS_CardinalityType, Zenon
<1>. QED  BY <1>1, ControlAssumption DEF Spent, TypeOK

\* What a transaction may write: a birth at a free id, the row a human has
\* already, or a live row with another definition or its latch shut.
Writes(i, row) ==
    \/ /\ rows[i] = NoRow /\ row.live
       /\ \/ /\ row.kind = "human" /\ row.who \in Principal /\ row.def = HumanDef
             /\ row.place = Server /\ Seats("human", row.who) = {}
          \/ /\ row.kind = KindOf(row.def) /\ row.who \in Decl /\ row.def \in Def
             /\ KindAgrees(row.who, row.kind)
             /\ \E alone \in BOOLEAN : ~Conflicts(row.kind, row.who, alone)
    \/ row = rows[i] /\ i \in Live /\ rows[i].kind = "human"
    \/ \E def \in Def : /\ row = [rows[i] EXCEPT !.def = def] /\ i \in Live
                        /\ rows[i].kind = "agent"
    \/ row = [rows[i] EXCEPT !.live = FALSE] /\ i \in Live

\* Every step commits a transaction, moves the ledger, or leaves both alone.
CommitStep ==
    \E i \in Id, row \in Row, byPull \in BOOLEAN :
        /\ Locked /\ Commit(i, row, byPull) /\ Writes(i, row)
        /\ IF byPull THEN pull.calling ELSE admitted > 0

LEMMA CommitSteps ==
    ASSUME ControlInv,
           \/ \E p \in Principal : Admit(p)
           \/ \E decl \in Decl, def \in Def, alone \in BOOLEAN, place \in Domain :
                 Introduce(decl, def, alone, place)
           \/ ApplyDeclaration
           \/ \E i \in Id : Terminal(i)
    PROVE  CommitStep
<1> USE ControlAssumption DEF ControlInv
<1>0. Locked => \A i \in Id : (i \in Member <=> i \in Live) /\ (i \in Member => rows[i] \in Row)
  BY DEF Locked, LedgerInv, Live, TypeOK, NoRow, NoChange
<1>1. ASSUME NEW p \in Principal, Admit(p) PROVE CommitStep
  <2> DEFINE row == Birth("human", p, HumanDef, Server)
  <2>1. row \in Row
    BY Zenon DEF Birth, Row, Kind, HumanDef
  <2>2. CASE Seats("human", p) # {}
    <3>1. PICK i \in Seats("human", p) : Commit(i, row, FALSE)
      BY <1>1, <2>2, Zenon DEF Admit
    <3>2. i \in Id /\ i \in Live /\ rows[i].kind = "human" /\ rows[i].who = p
      BY <3>1, Zenon DEF Seats, Live
    <3>3. rows[i] \in Row
      BY <3>2 DEF TypeOK, Live, NoRow
    <3>4. row = rows[i]
      <4>1. rows[i].live = TRUE
        BY <3>2, <3>3, Zenon DEF Live, Row
      <4>2. rows[i].def = HumanDef /\ rows[i].place = Server
        BY <3>2, <3>3 DEF RowsInv, Row, NoRow, Kind
      <4>. QED  BY <3>2, <3>3, <4>1, <4>2, Zenon DEF Row, Birth
    <3>5. Writes(i, row)
      BY <3>2, <3>4, Zenon DEF Writes
    <3>. QED  BY <1>1, <2>1, <3>1, <3>2, <3>5, Zenon DEF CommitStep, Admit
  <2>3. CASE Seats("human", p) = {}
    <3>1. PICK i \in NextId : Commit(i, row, FALSE)
      BY <1>1, <2>3, Zenon DEF Admit
    <3>2. i \in Id /\ rows[i] = NoRow
      BY <3>1, Zenon DEF NextId
    <3>3. Writes(i, row)
      BY <2>3, <3>2, Zenon DEF Writes, Birth
    <3>. QED  BY <1>1, <2>1, <3>1, <3>2, <3>3, Zenon DEF CommitStep, Admit
  <2>. QED  BY <2>2, <2>3, Zenon
<1>2. ASSUME NEW decl \in Decl, NEW def \in Def, NEW alone \in BOOLEAN, NEW place \in Domain,
             Introduce(decl, def, alone, place)
      PROVE  CommitStep
  <2> DEFINE row == Birth(KindOf(def), decl, def, place)
  <2>1. row \in Row
    BY Zenon DEF Birth, Row, Kind, KindOf
  <2>2. PICK i \in NextId : Commit(i, row, FALSE)
    BY <1>2, Zenon DEF Introduce
  <2>3. i \in Id /\ rows[i] = NoRow
    BY <2>2, Zenon DEF NextId
  <2>4. Writes(i, row)
    BY <1>2, <2>3, Zenon DEF Writes, Birth, Introduce
  <2>. QED  BY <1>2, <2>1, <2>2, <2>3, <2>4, Zenon DEF CommitStep, Introduce
<1>3. CASE ApplyDeclaration
  <2> DEFINE i == pull.id
             row == [rows[i] EXCEPT !.def = pull.def]
  <2>1. i \in Id /\ i \in Member /\ i \in Live /\ rows[i] \in Row /\ rows[i].kind = "agent"
    BY <1>0, <1>3, Zenon DEF ApplyDeclaration, Member, PullInv
  <2>2. pull.def \in Def
    BY <1>3, Zenon DEF ApplyDeclaration, PullInv, TypeOK
  <2>3. row \in Row
    BY <2>1, <2>2, Zenon DEF Row
  <2>. QED  BY <1>3, <2>1, <2>2, <2>3, Zenon DEF CommitStep, ApplyDeclaration, Writes
<1>4. ASSUME NEW i \in Id, Terminal(i) PROVE CommitStep
  <2> DEFINE row == [rows[i] EXCEPT !.live = FALSE]
  <2>1. i \in Live /\ rows[i] \in Row
    BY <1>0, <1>4, Zenon DEF Terminal
  <2>2. row \in Row
    BY <2>1, Zenon DEF Row
  <2>. QED  BY <1>4, <2>1, <2>2, Zenon DEF CommitStep, Terminal, Writes
<1>. QED  BY <1>1, <1>2, <1>3, <1>4, Zenon

-----------------------------------------------------------------------------
(* Every step keeps the invariant *)

\* A transaction, for all four commands that have one.
LEMMA CommitKeeps ==
    ASSUME ControlInv, CommitStep
    PROVE  ControlInv'
<1> USE ControlAssumption DEF ControlInv
<1>0. PICK i \in Id, row \in Row, byPull \in BOOLEAN :
          /\ Locked /\ Commit(i, row, byPull) /\ Writes(i, row)
          /\ IF byPull THEN pull.calling ELSE admitted > 0
  BY Zenon DEF CommitStep
<1>1. /\ rows' = [rows EXCEPT ![i] = row] /\ held' = [id |-> i, pull |-> byPull]
      /\ UNCHANGED <<ledger, phase, sealed, admitted, minted, declared, pull, bodies, events>>
  BY <1>0, Zenon DEF Commit
<1>2. held = NoChange /\ phase = "running"
  BY <1>0, Zenon DEF Locked
<1>3. \A j \in Id : rows'[j] = IF j = i THEN row ELSE rows[j]
  BY <1>1, Zenon DEF TypeOK
<1>4. \A j \in Id : /\ (j \in Member <=> j \in Live) /\ (j \in Member => Same(j))
                    /\ j \in Live => rows[j] \in Row
  BY <1>2 DEF LedgerInv, Live, TypeOK, NoRow, NoChange
<1>5. TypeOK'
  BY <1>1, Zenon DEF TypeOK
<1>6. row.kind = "human" => row.who \in Principal /\ row.def = HumanDef /\ row.place = Server
  <2>1. CASE rows[i] = NoRow /\ row.live
    BY <1>0, <2>1 DEF Writes, KindOf, Live, NoRow
  <2>2. CASE i \in Live
    <3>1. rows[i] \in Row /\ rows[i] # NoRow
      BY <1>4, <2>2 DEF Row, NoRow, Kind
    <3>. QED  BY <1>0, <2>2, <3>1, Zenon DEF Writes, RowsInv, Row, Live, NoRow
  <2>. QED  BY <1>0, <2>1, <2>2, Zenon DEF Writes
<1>7. row.kind # "human" => row.who \in Decl
  <2>1. CASE rows[i] = NoRow /\ row.live
    BY <1>0, <2>1 DEF Writes, Live, NoRow
  <2>2. CASE i \in Live
    <3>1. rows[i] \in Row /\ rows[i] # NoRow
      BY <1>4, <2>2 DEF Row, NoRow, Kind
    <3>. QED  BY <1>0, <2>2, <3>1, Zenon DEF Writes, RowsInv, Row, Live, NoRow
  <2>. QED  BY <1>0, <2>1, <2>2, Zenon DEF Writes
<1>8. RowsInv'
  BY <1>3, <1>6, <1>7, Zenon DEF RowsInv
<1>9. PullInv'
  <2>1. rows[i].kind = "agent" => row.kind = "agent"
    BY <1>0, <1>4 DEF Writes, NoRow, Live, Row
  <2>. QED  BY <1>1, <1>3, <2>1, Zenon DEF PullInv, TypeOK
<1>10. HeldInv'
  BY <1>0, <1>1, <1>2, Zenon DEF HeldInv
<1>11. LedgerInv'
  <2>1. ASSUME NEW j \in Id, j # i
        PROVE  /\ (j \in Member' <=> j \in Live') /\ (j \in Member' => Same(j)')
    BY <1>1, <1>3, <1>4, <2>1, Zenon DEF Member, Live, Same
  <2>2. row.kind = "human" /\ i \in Member => Same(i)'
    <3>1. SUFFICES ASSUME row.kind = "human", i \in Member
                   PROVE  row.def = rows[i].def /\ row.place = rows[i].place
      BY <1>1, <1>3, <1>4, Zenon DEF Same
    <3>2. i \in Live /\ rows[i] \in Row
      BY <1>4, <3>1, Zenon
    <3>. QED  BY <1>0, <3>1, <3>2 DEF Writes, Live, NoRow, Row
  <2>3. \A j \in Id : rows'[j].kind = "human" /\ j \in Member' => Same(j)'
    BY <1>1, <1>3, <2>1, <2>2, <1>4, Zenon DEF Member, Same
  <2>. QED  BY <1>1, <1>2, <2>1, <2>3, Zenon DEF LedgerInv
<1>12. KeyInv'
  BY <1>1, Zenon DEF KeyInv
<1>13. OneSeat'
  <2>1. ASSUME NEW j \in Live, j # i, row.live, row.who = rows[j].who
        PROVE  row.kind = "agent" /\ rows[j].kind = "agent"
    <3>0. j \in Id /\ rows[j] # NoRow /\ j \in Member
      <4>1. j \in Id
        BY <2>1, Zenon DEF Live
      <4>2. rows[j] \in Row /\ j \in Member
        BY <1>4, <2>1, <4>1, Zenon
      <4>3. rows[j].kind # "none"
        BY <4>2, Zenon DEF Row, Kind
      <4>. QED  BY <4>1, <4>2, <4>3 DEF NoRow
    <3>1. CASE i \in Live
      <4>0. rows[i] \in Row /\ rows[i] # NoRow
        <5>1. rows[i] \in Row
          BY <1>4, <3>1, Zenon
        <5>2. rows[i].kind # "none"
          BY <5>1, Zenon DEF Row, Kind
        <5>. QED  BY <5>1, <5>2 DEF NoRow
      <4>1. row.who = rows[i].who /\ row.kind = rows[i].kind
        BY <1>0, <4>0, Zenon DEF Writes, Row
      <4>. QED  BY <2>1, <3>1, <4>1, Zenon DEF OneSeat
    <3>2. CASE i \notin Live
      <4>1. CASE row.kind = "human"
        <5>1. row.who \in Principal /\ Seats("human", row.who) = {}
          BY <1>0, <3>2, <4>1, Zenon DEF Writes, KindOf
        <5>2. rows[j].kind = "human"
          BY <2>1, <3>0, <5>1, Zenon DEF RowsInv
        <5>. QED  BY <2>1, <5>1, <5>2, Zenon DEF Seats
      <4>2. CASE row.kind # "human"
        <5>1. /\ KindAgrees(row.who, row.kind) /\ row.kind \in {"agent", "peer"}
              /\ \E alone \in BOOLEAN : ~Conflicts(row.kind, row.who, alone)
          BY <1>0, <3>2, <4>2, Zenon DEF Writes, KindOf
        <5>2. rows[j].kind = row.kind
          BY <2>1, <3>0, <5>1, Zenon DEF KindAgrees
        <5>3. j \in Seats(row.kind, row.who)
          BY <2>1, <5>2, Zenon DEF Seats
        <5>. QED  BY <5>1, <5>2, <5>3, Zenon DEF Conflicts
      <4>. QED  BY <4>1, <4>2, Zenon
    <3>. QED  BY <3>1, <3>2, Zenon
  <2>2. \A j \in Id : j \in Live' <=> IF j = i THEN row.live ELSE j \in Live
    BY <1>3, Zenon DEF Live
  <2>3. Live' \subseteq Id
    BY Zenon DEF Live
  <2>4. ASSUME NEW j \in Live', NEW k \in Live', j # k, rows'[j].who = rows'[k].who
        PROVE  rows'[j].kind = rows'[k].kind /\ rows'[j].kind = "agent"
    <3>1. CASE j = i
      BY <1>3, <2>1, <2>2, <2>3, <2>4, <3>1, Zenon
    <3>2. CASE k = i
      BY <1>3, <2>1, <2>2, <2>3, <2>4, <3>2, Zenon
    <3>3. CASE j # i /\ k # i
      BY <1>3, <2>2, <2>3, <2>4, <3>3 DEF OneSeat
    <3>. QED  BY <3>1, <3>2, <3>3, Zenon
  <2>. QED  BY <2>4, Zenon DEF OneSeat
<1>. QED  BY <1>5, <1>8, <1>9, <1>10, <1>11, <1>12, <1>13, Zenon

\* The lock is released, by the pull or by an admitted command.
LEMMA ReturnsKeep ==
    ASSUME ControlInv, held # NoChange, Returns
    PROVE  /\ held' = NoChange /\ admitted' \in 0 .. MaxCalls
           /\ pull' \in [todo : SUBSET Id, id : Id \cup {0}, def : Def \cup {0}, calling : BOOLEAN]
           /\ pull'.todo = pull.todo /\ pull'.id \in {0, pull.id}
           /\ pull'.id = pull.id => pull'.def = pull.def \/ pull.id = 0
           /\ pull'.calling => pull'.id # 0
<1>0. /\ pull \in [todo : SUBSET Id, id : Id \cup {0}, def : Def \cup {0}, calling : BOOLEAN]
      /\ admitted \in 0 .. MaxCalls /\ MaxCalls \in Nat
      /\ held.pull \/ admitted > 0
      /\ pull.calling => pull.id # 0
  BY ControlAssumption, Zenon DEF ControlInv, TypeOK, HeldInv, PullInv
<1>1. CASE held.pull
  <2>1. /\ pull' = [pull EXCEPT !.id = 0, !.def = 0, !.calling = FALSE]
        /\ held' = NoChange /\ UNCHANGED admitted
    BY <1>1, Zenon DEF Returns
  <2>2. pull' \in [todo : SUBSET Id, id : Id \cup {0}, def : Def \cup {0}, calling : BOOLEAN]
    BY <1>0, <2>1, Zenon
  <2>3. pull'.todo = pull.todo /\ pull'.id = 0 /\ pull'.def = 0 /\ ~pull'.calling
    BY <1>0, <2>1, Zenon
  <2>. QED  BY <1>0, <2>1, <2>2, <2>3, Zenon
<1>2. CASE ~held.pull
  BY <1>0, <1>2 DEF Returns
<1>. QED  BY <1>1, <1>2, Zenon

LEMMA PublishKeeps ==
    ASSUME ControlInv, Publish
    PROVE  ControlInv'
<1>a. TypeOK /\ RowsInv /\ OneSeat /\ PullInv /\ HeldInv /\ LedgerInv /\ KeyInv
  BY Zenon DEF ControlInv
<1>b. held # NoChange /\ Returns /\ held.id \in Id /\ phase = "running"
  BY <1>a, Zenon DEF HeldInv, Publish
<1>c. /\ held' = NoChange /\ admitted' \in 0 .. MaxCalls
      /\ pull' \in [todo : SUBSET Id, id : Id \cup {0}, def : Def \cup {0}, calling : BOOLEAN]
      /\ pull'.todo = pull.todo /\ pull'.id \in {0, pull.id}
      /\ pull'.id = pull.id => pull'.def = pull.def \/ pull.id = 0
      /\ pull'.calling => pull'.id # 0
  BY <1>b, ReturnsKeep, Zenon
<1>d. PICK i \in Id : i = held.id
  BY <1>b, Zenon
<1>e. PICK entry : entry = Entry(i, rows[i])
  BY Zenon
<1>0. /\ ledger' = [ledger EXCEPT ![i] = entry]
      /\ minted' = [minted EXCEPT ![i] = IF entry.key > @ THEN entry.key ELSE @]
      /\ UNCHANGED <<rows, phase, sealed, declared, bodies, events>>
  BY <1>d, <1>e, Zenon DEF Publish
<1>1. /\ minted \in [Id -> Nat] /\ minted[i] \in Nat
      /\ ledger \in [Id -> [def : Def \cup {HumanDef}, place : Domain, key : Nat]]
      /\ \A j \in Id : ledger[j].key \in Nat /\ ledger[j].key <= minted[j] /\ minted[j] \in Nat
      /\ rows[i].def \in Def \cup {HumanDef} /\ rows[i].place \in Domain
  BY <1>a, ControlAssumption DEF TypeOK, Row, NoRow, HumanDef, KeyInv
<1>2. \/ ~rows[i].live /\ entry = NoTerm
      \/ /\ rows[i].live /\ rows[i].kind = "human" /\ ledger[i].key # 0 /\ entry = ledger[i]
      \/ /\ rows[i].live /\ ~(rows[i].kind = "human" /\ ledger[i].key # 0)
         /\ entry = [def |-> rows[i].def, place |-> rows[i].place, key |-> minted[i] + 1]
  BY <1>e, Zenon DEF Entry, TermOf, Member
<1>3. entry \in [def : Def \cup {HumanDef}, place : Domain, key : Nat]
  BY <1>1, <1>2, ControlAssumption DEF NoTerm, HumanDef
<1>4. /\ entry.key \in Nat
      /\ entry.key = 0 \/ entry = ledger[i] \/ entry.key = minted[i] + 1
      /\ entry.key = 0 <=> ~rows[i].live
  BY <1>1, <1>2, <1>3 DEF NoTerm
<1>5. \A j \in Id : ledger'[j] = IF j = i THEN entry ELSE ledger[j]
  BY <1>0, <1>1, Zenon
<1>6. \A j \in Id : minted'[j] \in Nat /\ minted'[j] >= minted[j] /\ ledger'[j].key <= minted'[j]
  BY <1>0, <1>1, <1>4
<1>7. TypeOK'
  <2>1. ledger' \in [Id -> [def : Def \cup {HumanDef}, place : Domain, key : Nat]]
    BY <1>0, <1>1, <1>3, Zenon
  <2>2. minted' \in [Id -> Nat]
    BY <1>0, <1>1, <1>4, Zenon
  <2>3. held' \in [id : Id \cup {0}, pull : BOOLEAN]
    BY <1>c, Zenon DEF NoChange
  <2>. QED  BY <1>0, <1>a, <1>c, <2>1, <2>2, <2>3, Zenon DEF TypeOK
<1>8. RowsInv' /\ OneSeat'
  BY <1>0, <1>a, Zenon DEF RowsInv, OneSeat, Live
<1>9. PullInv'
  BY <1>0, <1>a, <1>c, Zenon DEF PullInv
<1>10. HeldInv'
  BY <1>c, Zenon DEF HeldInv
<1>11. LedgerInv'
  <2>1. entry.key # 0 => entry.def = rows[i].def /\ entry.place = rows[i].place
    BY <1>2, <1>a, <1>b DEF LedgerInv, Same, NoTerm, Member
  <2>2. \A j \in Id : j # i => ((ledger[j].key # 0) <=> rows[j].live)
                               /\ (ledger[j].key # 0 => Same(j))
    BY <1>a, <1>b, <1>d, Zenon DEF LedgerInv, Member, Live
  <2>3. \A j \in Id : ((ledger'[j].key # 0) <=> rows[j].live)
             /\ (ledger'[j].key # 0 =>
                    ledger'[j].def = rows[j].def /\ ledger'[j].place = rows[j].place)
    BY <1>4, <1>5, <2>1, <2>2, Zenon DEF Same
  <2>. QED  BY <1>0, <1>b, <2>3, Zenon DEF LedgerInv, Member, Live, Same
<1>12. KeyInv'
  <2>1. ASSUME NEW x \in bodies
        PROVE  /\ x.key # 0 /\ x.key <= minted'[x.id]
               /\ x.key = ledger'[x.id].key =>
                     x.def = ledger'[x.id].def /\ x.place = ledger'[x.id].place
    <3>1. /\ x.id \in Id /\ x.key \in Nat /\ x.key # 0 /\ x.key <= minted[x.id]
          /\ x.key = ledger[x.id].key => x.def = ledger[x.id].def /\ x.place = ledger[x.id].place
      BY <1>a, Zenon DEF TypeOK, KeyInv
    <3>2. x.key <= minted'[x.id]
      BY <1>1, <1>6, <3>1
    <3>3. x.id = i /\ x.key = entry.key => entry = ledger[i]
      BY <1>1, <1>4, <3>1
    <3>. QED  BY <1>5, <3>1, <3>2, <3>3, Zenon
  <2>. QED  BY <1>0, <1>6, <2>1, Zenon DEF KeyInv
<1>. QED  BY <1>7, <1>8, <1>9, <1>10, <1>11, <1>12, Zenon DEF ControlInv

LEMMA RestartKeeps ==
    ASSUME ControlInv, NEW i \in Id, Restart(i)
    PROVE  ControlInv'
<1> USE ControlAssumption DEF ControlInv
<1>0. /\ held = NoChange /\ phase = "running" /\ admitted > 0 /\ i \in Member /\ Spent < MaxEvent
      /\ ledger' = [ledger EXCEPT ![i].key = minted[i] + 1]
      /\ minted' = [minted EXCEPT ![i] = @ + 1]
      /\ events' = events + 1 /\ admitted' = admitted - 1
      /\ UNCHANGED <<rows, phase, sealed, held, declared, pull, bodies>>
  BY Zenon DEF Restart, Locked
<1>1. /\ \A j \in Id : minted'[j] = IF j = i THEN minted[j] + 1 ELSE minted[j]
      /\ \A j \in Id : ledger'[j].key = IF j = i THEN minted[j] + 1 ELSE ledger[j].key
      /\ \A j \in Id : ledger'[j].def = ledger[j].def /\ ledger'[j].place = ledger[j].place
  BY <1>0 DEF TypeOK
<1>2. events' \in 0 .. MaxEvent
  BY <1>0, SpentBounds, Zenon
<1>3. TypeOK'
  <2>0. /\ minted \in [Id -> Nat] /\ admitted \in 0 .. MaxCalls
        /\ ledger \in [Id -> [def : Def \cup {HumanDef}, place : Domain, key : Nat]]
    BY Zenon DEF TypeOK
  <2>1. minted[i] + 1 \in Nat /\ admitted - 1 \in 0 .. MaxCalls
    BY <1>0, <2>0
  <2>2. minted' \in [Id -> Nat]
    BY <1>0, <2>0, <2>1, Zenon
  <2>3. ledger' \in [Id -> [def : Def \cup {HumanDef}, place : Domain, key : Nat]]
    BY <1>0, <2>0, <2>1, Zenon
  <2>. QED  BY <1>0, <1>2, <2>1, <2>2, <2>3, Zenon DEF TypeOK
<1>4. RowsInv' /\ OneSeat' /\ PullInv' /\ HeldInv'
  BY <1>0, Zenon DEF RowsInv, OneSeat, Live, PullInv, HeldInv
<1>5. LedgerInv'
  <2>1. \A j \in Id : (j \in Member' <=> j \in Member) /\ (Same(j) => Same(j)')
    BY <1>0, <1>1 DEF Member, Same, TypeOK
  <2>. QED  BY <1>0, <2>1, Zenon DEF LedgerInv, Live
<1>6. KeyInv'
  BY <1>0, <1>1 DEF KeyInv, TypeOK
<1>. QED  BY <1>3, <1>4, <1>5, <1>6, Zenon

\* RestoreActive mints every member a new term.
LEMMA StartKeeps ==
    ASSUME ControlInv, Start
    PROVE  ControlInv'
<1>a. TypeOK /\ RowsInv /\ OneSeat /\ PullInv /\ HeldInv /\ LedgerInv /\ KeyInv
  BY Zenon DEF ControlInv
<1>0. /\ phase = "bootstrapping" /\ phase' = "running"
      /\ UNCHANGED <<rows, sealed, admitted, held, declared, pull, bodies, events>>
  BY Zenon DEF Start
<1>r. \A j \in Id : rows[j].live =>
          ledger'[j] = [def |-> rows[j].def, place |-> rows[j].place, key |-> minted[j] + 1]
  BY Zenon DEF Start, RestoredTerm, Live
<1>l. \A j \in Id : rows[j].live =>
          /\ ledger'[j].def = rows[j].def /\ ledger'[j].place = rows[j].place
          /\ ledger'[j].key = minted[j] + 1 /\ minted'[j] = minted[j] + 1
  BY Zenon DEF Start, RestoredTerm, Live
<1>d. \A j \in Id : ~rows[j].live => ledger'[j] = NoTerm /\ minted'[j] = minted[j]
  BY Zenon DEF Start, Live
<1>n. \A j \in Id : minted[j] \in Nat
  BY <1>a, Zenon DEF TypeOK
<1>2. held = NoChange
  BY <1>0, <1>a, Zenon DEF HeldInv
<1>3. TypeOK'
  <2>1. ASSUME NEW j \in Id
        PROVE  /\ ledger'[j] \in [def : Def \cup {HumanDef}, place : Domain, key : Nat]
               /\ minted'[j] \in Nat
    <3>1. CASE rows[j].live
      <4>1. rows[j] \in Row
        BY <1>a, <3>1 DEF TypeOK, NoRow
      <4>2. rows[j].def \in Def \cup {HumanDef} /\ rows[j].place \in Domain
        BY <4>1, Zenon DEF Row
      <4>3. minted[j] + 1 \in Nat /\ minted'[j] = minted[j] + 1
        BY <1>l, <1>n, <3>1
      <4>4. ledger'[j] = [def |-> rows[j].def, place |-> rows[j].place, key |-> minted[j] + 1]
        BY <1>r, <3>1, Zenon
      <4>. QED  BY <4>2, <4>3, <4>4
    <3>2. CASE ~rows[j].live
      BY <1>d, <1>n, <3>2, ControlAssumption DEF NoTerm, HumanDef
    <3>. QED  BY <3>1, <3>2, Zenon
  <2>2. ledger' \in [Id -> [def : Def \cup {HumanDef}, place : Domain, key : Nat]]
    BY <2>1, Zenon DEF Start
  <2>3. minted' \in [Id -> Nat]
    BY <2>1, Zenon DEF Start
  <2>. QED  BY <1>0, <1>a, <2>2, <2>3, Zenon DEF TypeOK
<1>4. RowsInv' /\ OneSeat' /\ PullInv' /\ HeldInv'
  BY <1>0, <1>2, <1>a, Zenon DEF RowsInv, OneSeat, Live, PullInv, HeldInv
<1>5. LedgerInv'
  <2>1. ASSUME NEW j \in Id
        PROVE  /\ (ledger'[j].key # 0) <=> rows[j].live
               /\ rows[j].live => ledger'[j].def = rows[j].def /\ ledger'[j].place = rows[j].place
    <3>1. CASE rows[j].live
      BY <1>l, <1>n, <3>1
    <3>2. CASE ~rows[j].live
      BY <1>d, <3>2 DEF NoTerm
    <3>. QED  BY <3>1, <3>2, Zenon
  <2>. QED  BY <1>0, <2>1, Zenon DEF LedgerInv, Member, Live, Same
<1>6. KeyInv'
  <2>1. ASSUME NEW j \in Id
        PROVE  /\ minted'[j] >= minted[j] /\ ledger'[j].key \in {0, minted[j] + 1}
               /\ ledger'[j].key <= minted'[j] /\ minted'[j] \in Nat
    <3>1. CASE rows[j].live
      BY <1>l, <1>n, <3>1
    <3>2. CASE ~rows[j].live
      BY <1>d, <1>n, <3>2 DEF NoTerm
    <3>. QED  BY <3>1, <3>2, Zenon
  <2>2. \A x \in bodies : x.id \in Id /\ x.key \in Nat /\ x.key # 0 /\ x.key <= minted[x.id]
    BY <1>a, Zenon DEF TypeOK, KeyInv
  <2>3. ASSUME NEW x \in bodies
        PROVE  x.key <= minted'[x.id] /\ x.key # ledger'[x.id].key
    BY <1>n, <2>1, <2>2
  <2>. QED  BY <1>0, <2>1, <2>2, <2>3, Zenon DEF KeyInv
<1>. QED  BY <1>3, <1>4, <1>5, <1>6, Zenon DEF ControlInv

\* The Controller's other steps, the pull's, an edit and a body's.
LEMMA OtherKeeps ==
    ASSUME ControlInv, [Next]_vars
    PROVE  \/ CommitStep \/ Publish \/ Start \/ \E i \in Id : Restart(i)
           \/ ControlInv'
<1>a. TypeOK /\ RowsInv /\ OneSeat /\ PullInv /\ HeldInv /\ LedgerInv /\ KeyInv
  BY Zenon DEF ControlInv
<1>b. UNCHANGED rows => RowsInv' /\ OneSeat'
  BY <1>a DEF RowsInv, OneSeat, Live
<1>c. UNCHANGED <<rows, ledger, phase, held>> => LedgerInv'
  BY <1>a, Zenon DEF LedgerInv, Member, Live, Same
<1>d. UNCHANGED <<ledger, minted, bodies>> => KeyInv'
  BY <1>a, Zenon DEF KeyInv
<1>e. UNCHANGED <<rows, pull>> => PullInv'
  BY <1>a DEF PullInv
<1>f. Spent < MaxEvent => events + 1 \in 0 .. MaxEvent
  BY <1>a, SpentBounds, Zenon
<1>1. CASE UNCHANGED vars
  BY <1>1, <1>a, <1>b, <1>c, <1>d, <1>e, Zenon DEF vars, TypeOK, HeldInv, ControlInv
<1>2. CASE Begin
  <2>1. TypeOK' /\ HeldInv'
    BY <1>2, <1>a, ControlAssumption DEF Begin, TypeOK, HeldInv
  <2>. QED  BY <1>2, <1>b, <1>c, <1>d, <1>e, <2>1, Zenon DEF Begin, ControlInv
<1>3. CASE Refuse
  <2>1. TypeOK' /\ HeldInv'
    BY <1>3, <1>a, ControlAssumption DEF Refuse, TypeOK, HeldInv
  <2>. QED  BY <1>3, <1>b, <1>c, <1>d, <1>e, <2>1, Zenon DEF Refuse, ControlInv
<1>4. CASE Quiesce
  <2>1. TypeOK' /\ HeldInv'
    BY <1>4, <1>a, Zenon DEF Quiesce, TypeOK, HeldInv
  <2>. QED  BY <1>4, <1>b, <1>c, <1>d, <1>e, <2>1, Zenon DEF Quiesce, ControlInv
<1>5. CASE Close \/ Reopen
  <2>1. /\ ledger' = [i \in Id |-> NoTerm] /\ UNCHANGED <<rows, minted, declared, bodies>>
        /\ phase' \in {"bootstrapping", "closed"}
    BY <1>5, Zenon DEF Close, Reopen
  <2>2. held' = NoChange
    <3>1. CASE Close
      BY <3>1, <1>a DEF Close, HeldInv, InFlight, TypeOK
    <3>2. CASE Reopen
      BY <3>2, Zenon DEF Reopen
    <3>. QED  BY <1>5, <3>1, <3>2, Zenon
  <2>3. PullInv' /\ pull' \in {pull, NoPull}
    <3>1. CASE Close
      BY <3>1, <1>a, <1>e, Zenon DEF Close
    <3>2. CASE Reopen
      BY <3>2, Zenon DEF Reopen, PullInv, NoPull
    <3>. QED  BY <1>5, <3>1, <3>2, Zenon
  <2>9. HeldInv'
    BY <2>2, Zenon DEF HeldInv
  <2>4. ledger' \in [Id -> [def : Def \cup {HumanDef}, place : Domain, key : Nat]]
    BY <2>1, ControlAssumption, Zenon DEF NoTerm, HumanDef
  <2>5. admitted' \in 0 .. MaxCalls /\ sealed' \in BOOLEAN /\ events' \in 0 .. MaxEvent
    <3>1. admitted \in 0 .. MaxCalls /\ sealed \in BOOLEAN /\ events \in 0 .. MaxEvent
      BY <1>a, Zenon DEF TypeOK
    <3>2. CASE Close
      BY <3>1, <3>2, Zenon DEF Close
    <3>3. CASE Reopen
      <4>1. admitted' = 0 /\ sealed' = FALSE
        BY <3>3, Zenon DEF Reopen
      <4>0. events' = events + 1 /\ Spent < MaxEvent
        BY <3>3, Zenon DEF Reopen
      <4>2. MaxCalls \in Nat
        BY ControlAssumption, Zenon
      <4>3. events' \in 0 .. MaxEvent
        BY <4>0, <1>f, Zenon
      <4>4. admitted' \in 0 .. MaxCalls
        BY <4>1, <4>2
      <4>5. sealed' \in BOOLEAN
        BY <4>1, Zenon
      <4>. QED  BY <4>3, <4>4, <4>5, Zenon
    <3>. QED  BY <1>5, <3>2, <3>3, Zenon
  <2>6. TypeOK'
    <3>1. held' \in [id : Id \cup {0}, pull : BOOLEAN]
      BY <2>2, Zenon DEF NoChange
    <3>2. pull' \in [todo : SUBSET Id, id : Id \cup {0}, def : Def \cup {0}, calling : BOOLEAN]
      <4>1. CASE pull' = pull
        BY <4>1, <1>a, Zenon DEF TypeOK
      <4>2. CASE pull' = NoPull
        BY <4>2, Zenon DEF NoPull
      <4>. QED  BY <2>3, <4>1, <4>2, Zenon
    <3>. QED  BY <2>1, <2>4, <2>5, <3>1, <3>2, <1>a, Zenon DEF TypeOK
  <2>7. LedgerInv'
    BY <2>1, Zenon DEF LedgerInv
  <2>8. KeyInv'
    <3>1. \A i \in Id : ledger'[i].key = 0 /\ minted[i] \in Nat
      BY <2>1, <1>a, Zenon DEF NoTerm, TypeOK
    <3>2. \A x \in bodies : x.id \in Id
      BY <1>a, Zenon DEF TypeOK
    <3>. QED  BY <1>a, <2>1, <3>1, <3>2 DEF KeyInv
  <2>. QED  BY <1>b, <2>1, <2>3, <2>6, <2>7, <2>8, <2>9, Zenon DEF ControlInv
<1>6. ASSUME NEW decl \in Decl, NEW def \in Def, Edit(decl, def)
      PROVE  ControlInv'
  <2>1. TypeOK' /\ HeldInv'
    BY <1>6, <1>a, <1>f, Zenon DEF Edit, TypeOK, HeldInv
  <2>. QED  BY <1>6, <1>b, <1>c, <1>d, <1>e, <2>1, Zenon DEF Edit, ControlInv
<1>7. ASSUME NEW domain \in Domain, Build(domain)
      PROVE  ControlInv'
  <2>1. PICK j \in Member : /\ ledger[j].place = domain
            /\ bodies' = bodies \cup {[id |-> j, key |-> ledger[j].key, def |-> ledger[j].def,
                                       place |-> domain]}
    BY <1>7, Zenon DEF Build, DesiredFor
  <2>2. /\ j \in Id /\ ledger[j].key # 0 /\ ledger[j].key \in Nat
        /\ ledger[j].def \in Def \cup {HumanDef} /\ ledger[j].key <= minted[j]
    BY <1>a, Zenon DEF Member, TypeOK, KeyInv
  <2>3. UNCHANGED <<rows, ledger, phase, sealed, admitted, held, minted, declared, pull, events>>
    BY <1>7, Zenon DEF Build
  <2>4. TypeOK' /\ HeldInv'
    BY <1>a, <2>1, <2>2, <2>3 DEF TypeOK, HeldInv
  <2>5. KeyInv'
    <3>1. ASSUME NEW x \in bodies'
          PROVE  /\ x.key # 0 /\ x.key <= minted[x.id]
                 /\ x.key = ledger[x.id].key => x.def = ledger[x.id].def /\ x.place = ledger[x.id].place
      <4>1. CASE x \in bodies
        BY <1>a, <4>1, Zenon DEF KeyInv
      <4>2. CASE x \notin bodies
        BY <2>1, <2>2, <4>2
      <4>. QED  BY <4>1, <4>2, Zenon
    <3>. QED  BY <1>a, <2>3, <3>1, Zenon DEF KeyInv
  <2>. QED  BY <1>b, <1>c, <1>e, <2>3, <2>4, <2>5, Zenon DEF ControlInv
<1>8. ASSUME \/ PullStart \/ PullCall \/ PullRefused \/ PullFails
             \/ \E i \in Id : PullResolve(i) \/ PullUnresolved(i)
      PROVE  ControlInv'
  <2>0. /\ UNCHANGED <<rows, ledger, phase, sealed, admitted, held, minted, declared, bodies>>
        /\ events' \in 0 .. MaxEvent
    BY <1>8, <1>a, <1>f, Zenon DEF PullStart, PullCall, PullRefused, PullFails, PullResolve,
                            PullUnresolved, TypeOK
  <2>1. HeldInv'
    BY <1>8, <1>a, <2>0, Zenon DEF PullStart, PullCall, PullRefused, PullFails, PullResolve,
                            PullUnresolved, HeldInv, TypeOK, Locked, NoChange
  <2> DEFINE Pull == [todo : SUBSET Id, id : Id \cup {0}, def : Def \cup {0}, calling : BOOLEAN]
  <2>a. pull \in Pull
    BY <1>a, Zenon DEF TypeOK
  <2>2. ASSUME PullStart PROVE pull' \in Pull /\ PullInv'
    BY <2>2, <2>a, <2>0, Zenon DEF PullStart, PullInv, NoPull, Member
  <2>3. ASSUME PullCall PROVE pull' \in Pull /\ PullInv'
    <3>1. pull' = [pull EXCEPT !.calling = TRUE] /\ pull.id # 0
      BY <2>3, Zenon DEF PullCall
    <3>2. /\ pull' \in Pull /\ pull'.todo = pull.todo /\ pull'.id = pull.id
          /\ pull'.def = pull.def
      BY <3>1, <2>a, Zenon
    <3>. QED  BY <1>a, <2>0, <3>1, <3>2, Zenon DEF PullInv
  <2>4. ASSUME PullRefused \/ PullFails PROVE pull' \in Pull /\ PullInv'
    BY <2>4, <2>a, <2>0, <1>a, Zenon DEF PullRefused, PullFails, PullInv
  <2>5. ASSUME NEW i \in Id, PullResolve(i)
        PROVE  pull' \in Pull /\ PullInv'
    <3>1. rows[i].kind = "agent" /\ i \in pull.todo /\ pull.id = 0 /\ ~pull.calling
      BY <2>5, <1>a, <2>a, Zenon DEF PullInv, PullResolve
    <3>2. declared[rows[i].who] \in Def
      <4>1. rows[i].who \in Decl
        <5>1. rows[i] # NoRow
          BY <3>1 DEF NoRow
        <5>. QED  BY <1>a, <3>1, <5>1, Zenon DEF RowsInv
      <4>. QED  BY <1>a, <4>1, Zenon DEF TypeOK
    <3>. QED  BY <2>5, <2>a, <2>0, <1>a, <3>1, <3>2, Zenon DEF PullResolve, PullInv
  <2>6. ASSUME NEW i \in Id, PullUnresolved(i)
        PROVE  pull' \in Pull /\ PullInv'
    BY <2>6, <2>a, <2>0, <1>a, Zenon DEF PullUnresolved, PullInv
  <2>7. pull' \in Pull /\ PullInv'
    BY <1>8, <2>2, <2>3, <2>4, <2>5, <2>6, Zenon
  <2>8. TypeOK'
    BY <1>a, <2>0, <2>7, Zenon DEF TypeOK
  <2>. QED  BY <1>b, <1>c, <1>d, <2>0, <2>1, <2>7, <2>8, Zenon DEF ControlInv
<1>. QED  BY <1>1, <1>2, <1>3, <1>4, <1>5, <1>6, <1>7, <1>8, CommitSteps, Zenon
          DEF Next, Command

LEMMA ControlInvariant == Spec => []ControlInv
<1>1. Init => ControlInv
  <2>1. SUFFICES ASSUME Init PROVE ControlInv
    BY Zenon
  <2>2. TypeOK
    <3>1. rows \in [Id -> Row \cup {NoRow}] /\ minted \in [Id -> Nat] /\ declared \in [Decl -> Def]
      BY <2>1, ControlAssumption, Zenon DEF Init
    <3>2. ledger \in [Id -> [def : Def \cup {HumanDef}, place : Domain, key : Nat]]
      BY <2>1, ControlAssumption, Zenon DEF Init, NoTerm, HumanDef
    <3>3. held \in [id : Id \cup {0}, pull : BOOLEAN]
      BY <2>1, Zenon DEF Init, NoChange
    <3>4. pull \in [todo : SUBSET Id, id : Id \cup {0}, def : Def \cup {0}, calling : BOOLEAN]
      BY <2>1, Zenon DEF Init, NoPull
    <3>5. sealed \in BOOLEAN /\ phase \in {"bootstrapping", "running", "closed"}
      BY <2>1, Zenon DEF Init
    <3>6. admitted \in 0 .. MaxCalls /\ events \in 0 .. MaxEvent
      BY <2>1, ControlAssumption DEF Init
    <3>. QED  BY <2>1, <3>1, <3>2, <3>3, <3>4, <3>5, <3>6, Zenon DEF Init, TypeOK
  <2>3. \A i \in Id : rows[i] = NoRow /\ ~rows[i].live /\ ledger[i] = NoTerm /\ ledger[i].key = 0
    BY <2>1, Zenon DEF Init, NoRow, NoTerm
  <2>4. RowsInv /\ OneSeat /\ LedgerInv
    BY <2>1, <2>3, Zenon DEF Init, RowsInv, OneSeat, Live, LedgerInv
  <2>5. PullInv /\ HeldInv
    BY <2>1, Zenon DEF Init, PullInv, HeldInv, NoPull
  <2>6. KeyInv
    <3>1. \A i \in Id : minted[i] = 0
      BY <2>1, Zenon DEF Init
    <3>. QED  BY <2>1, <2>3, <3>1 DEF Init, KeyInv
  <2>. QED  BY <2>2, <2>4, <2>5, <2>6, Zenon DEF ControlInv
<1>2. ControlInv /\ [Next]_vars => ControlInv'
  BY OtherKeeps, CommitKeeps, PublishKeeps, StartKeeps, RestartKeeps, Zenon
<1>. QED  BY <1>1, <1>2, PTL DEF Spec

-----------------------------------------------------------------------------
(* Theorems *)

\* Outside the ledger lock the members of a running Controller are the live rows
\* of the table, with their definition and placement, whatever transactions failed
\* and wherever the process ended; and nobody is seated twice.
THEOREM SeatsAlwaysTrue == Spec => []SeatsAreTrue
<1>1. ControlInv => SeatsAreTrue
  <2>1. SUFFICES ASSUME ControlInv PROVE SeatsAreTrue
    BY Zenon
  <2>2. TypeOK /\ OneSeat /\ LedgerInv
    BY <2>1, Zenon DEF ControlInv
  <2>3. phase = "running" /\ held = NoChange =>
          \A i \in Id : (i \in Member <=> i \in Live) /\ (i \in Member => Same(i))
    <3>1. \A i \in Id : i # NoChange.id
      BY ControlAssumption, Zenon DEF NoChange
    <3>. QED  BY <2>2, <3>1, Zenon DEF LedgerInv
  <2>4. Member \subseteq Id /\ Live \subseteq Id
    BY Zenon DEF Member, Live
  <2>. QED  BY <2>2, <2>3, <2>4, Zenon DEF SeatsAreTrue, OneSeat, Same
<1>. QED  BY <1>1, ControlInvariant, PTL

\* A body that holds its actor's current key, on the server or on a device that
\* was away, runs the actor's current definition where it is placed now.
THEOREM KeysFixBodies == Spec => []KeyFixesBody
<1>1. ControlInv => KeyFixesBody
  BY Zenon DEF ControlInv, KeyInv, KeyFixesBody, Current
<1>. QED  BY <1>1, ControlInvariant, PTL

\* What a step may do to the table and to the ledger's keys.
LEMMA StepKinds ==
    ASSUME ControlInv, [Next]_vars
    PROVE  \/ CommitStep
           \/ /\ UNCHANGED rows
              /\ \A i \in Id : ledger'[i].key \in {0, ledger[i].key, minted[i] + 1}
<1>a. TypeOK /\ HeldInv
  BY Zenon DEF ControlInv
<1>1. CASE Publish
  <2>1. held.id \in Id
    BY <1>a, <1>1, Zenon DEF Publish, HeldInv
  <2>2. Entry(held.id, rows[held.id]).key \in {0, ledger[held.id].key, minted[held.id] + 1}
    BY Zenon DEF Entry, NoTerm, TermOf
  <2>3. /\ UNCHANGED rows
        /\ ledger' = [ledger EXCEPT ![held.id] = Entry(held.id, rows[held.id])]
    BY <1>1, Zenon DEF Publish
  <2>4. \A i \in Id : ledger'[i] = IF i = held.id THEN Entry(held.id, rows[held.id]) ELSE ledger[i]
    BY <1>a, <2>3, Zenon DEF TypeOK
  <2>. QED  BY <2>2, <2>3, <2>4, Zenon
<1>2. ASSUME NEW i \in Id, Restart(i)
      PROVE  /\ UNCHANGED rows
             /\ \A j \in Id : ledger'[j].key \in {0, ledger[j].key, minted[j] + 1}
  BY <1>2, <1>a, Zenon DEF Restart, TypeOK
<1>3. CASE Start
  <2>1. UNCHANGED rows
    BY <1>3, Zenon DEF Start
  <2>2. ASSUME NEW j \in Id PROVE ledger'[j].key \in {0, minted[j] + 1}
    <3>1. CASE j \in Live
      BY <1>3, <3>1, Zenon DEF Start, RestoredTerm
    <3>2. CASE j \notin Live
      BY <1>3, <3>2, Zenon DEF Start, NoTerm
    <3>. QED  BY <3>1, <3>2, Zenon
  <2>. QED  BY <2>1, <2>2, Zenon
<1>4. CASE Close \/ Reopen
  BY <1>4 DEF Close, Reopen, NoTerm
<1>5. ASSUME \/ UNCHANGED vars \/ Begin \/ Refuse \/ Quiesce
             \/ PullStart \/ PullCall \/ PullRefused \/ PullFails
             \/ \E i \in Id : PullResolve(i) \/ PullUnresolved(i)
             \/ \E decl \in Decl, def \in Def : Edit(decl, def)
             \/ \E domain \in Domain : Build(domain)
      PROVE  UNCHANGED <<rows, ledger>>
  BY <1>5, Zenon DEF vars, Begin, Refuse, Quiesce, PullStart, PullCall, PullRefused, PullFails,
              PullResolve, PullUnresolved, Edit, Build
<1>. QED  BY <1>1, <1>2, <1>3, <1>4, <1>5, CommitSteps, Zenon DEF Next, Command

\* No step mints again a key a body already holds, nor opens a row's latch.
THEOREM StaleForGood == Spec => StaleIsFinal
<1>1. ControlInv /\ [Next]_vars =>
        [/\ \A x \in bodies : ~Current(x) => ~Current(x)'
         /\ \A i \in Id : rows[i] # NoRow /\ ~rows[i].live => ~rows'[i].live]_vars
  <2>1. SUFFICES ASSUME ControlInv, [Next]_vars
                 PROVE  /\ \A x \in bodies : ~Current(x) => ~Current(x)'
                        /\ \A i \in Id : rows[i] # NoRow /\ ~rows[i].live => ~rows'[i].live
    BY Zenon
  <2>2. CommitStep => \E i \in Id, row \in Row :
          /\ rows' = [rows EXCEPT ![i] = row] /\ UNCHANGED <<ledger, phase>>
          /\ rows[i] = NoRow \/ rows[i].live
    BY DEF CommitStep, Writes, Commit, Live
  <2>3. \A i \in Id : rows[i] # NoRow /\ ~rows[i].live => ~rows'[i].live
    <3>1. rows \in [Id -> Row \cup {NoRow}]
      BY <2>1, Zenon DEF ControlInv, TypeOK
    <3>2. CASE CommitStep
      BY <2>2, <3>1, <3>2, Zenon
    <3>. QED  BY <2>1, <3>2, StepKinds, Zenon
  <2>4. ASSUME NEW x \in bodies, ~Current(x), Current(x)'
        PROVE  FALSE
    <3>1. /\ x.id \in Id /\ x.key \in Nat /\ x.key # 0 /\ x.key <= minted[x.id]
          /\ minted[x.id] \in Nat
      BY <2>1, Zenon DEF ControlInv, TypeOK, KeyInv
    <3>2. phase' = "running" /\ ledger'[x.id].key = x.key
      BY <2>4, Zenon DEF Current
    <3>3. ledger[x.id].key = x.key
      <4>1. CASE CommitStep
        BY <2>2, <3>2, <4>1, Zenon
      <4>2. CASE \A i \in Id : ledger'[i].key \in {0, ledger[i].key, minted[i] + 1}
        BY <3>1, <3>2, <4>2
      <4>. QED  BY <2>1, <4>1, <4>2, StepKinds, Zenon
    <3>4. phase = "running"
      BY <2>1, <3>1, <3>3 DEF ControlInv, LedgerInv, NoTerm
    <3>. QED  BY <2>4, <3>1, <3>3, <3>4, Zenon DEF Current, Member
  <2>. QED  BY <2>3, <2>4, Zenon
<1>. QED  BY <1>1, ControlInvariant, PTL DEF Spec, StaleIsFinal

\* A sealed command owner that has joined stays joined and leaves the table
\* alone, for as long as the channel is not opened again.
LEMMA JoinedStays ==
    ASSUME ControlInv, [Next]_vars, sealed, InFlight = 0, sealed'
    PROVE  InFlight' = 0 /\ rows' = rows
<1>2. admitted = 0 /\ ~pull.calling /\ held = NoChange
  BY DEF InFlight, ControlInv, TypeOK, HeldInv
<1>3. ~CommitStep
  BY <1>2 DEF CommitStep
<1>4. rows' = rows
  BY <1>3, StepKinds, Zenon
<1>5. admitted' = 0 /\ ~pull'.calling
  <2>1. pull \in [todo : SUBSET Id, id : Id \cup {0}, def : Def \cup {0}, calling : BOOLEAN]
    BY Zenon DEF ControlInv, TypeOK
  <2>2. ASSUME \/ UNCHANGED vars \/ Start \/ Quiesce \/ Close \/ PullStart \/ PullRefused
               \/ \E i \in Id : PullResolve(i) \/ PullUnresolved(i)
               \/ \E decl \in Decl, def \in Def : Edit(decl, def)
               \/ \E domain \in Domain : Build(domain)
        PROVE  admitted' = 0 /\ ~pull'.calling
    <3>1. ASSUME NEW i \in Id, PullResolve(i) PROVE admitted' = 0 /\ ~pull'.calling
      BY <1>2, <2>1, <3>1, Zenon DEF PullResolve
    <3>2. ASSUME NEW i \in Id, PullUnresolved(i) PROVE admitted' = 0 /\ ~pull'.calling
      BY <1>2, <2>1, <3>2, Zenon DEF PullUnresolved
    <3>3. ASSUME PullStart \/ PullRefused PROVE admitted' = 0 /\ ~pull'.calling
      BY <1>2, <2>1, <3>3, Zenon DEF PullStart, PullRefused, NoPull
    <3>4. UNCHANGED <<admitted, pull>> => admitted' = 0 /\ ~pull'.calling
      BY <1>2, Zenon
    <3>. QED  BY <2>2, <3>1, <3>2, <3>3, <3>4, Zenon DEF vars, Start, Quiesce, Close, Edit, Build
  <2>3. ~(Begin \/ Command \/ Publish \/ Reopen \/ ApplyDeclaration \/ PullCall \/ PullFails)
    <3>1. ~(admitted > 0)
      BY <1>2
    <3>2. ~Command
      BY <3>1, Zenon DEF Command, Admit, Introduce, Terminal, Restart, Refuse
    <3>3. ~(Begin \/ Publish \/ Reopen)
      BY <1>2, Zenon DEF Begin, Publish, Reopen
    <3>4. ~(ApplyDeclaration \/ PullCall \/ PullFails)
      BY <1>2, Zenon DEF ApplyDeclaration, PullCall, PullFails
    <3>. QED  BY <3>2, <3>3, <3>4, Zenon
  <2>. QED  BY <2>2, <2>3, Zenon DEF Next
<1>. QED  BY <1>4, <1>5 DEF InFlight

\* Only Close closes the Controller; the other steps of a closed one leave the
\* seal as it is.
LEMMA ClosingSteps ==
    ASSUME ControlInv, [Next]_vars, phase' = "closed"
    PROVE  Close \/ UNCHANGED <<phase, sealed>>
<1>1. CommitStep => UNCHANGED <<phase, sealed>>
  BY Zenon DEF CommitStep, Commit
<1>2. ASSUME Publish \/ Begin \/ Refuse \/ \E i \in Id : Restart(i)
      PROVE  UNCHANGED <<phase, sealed>>
  BY <1>2, Zenon DEF Publish, Begin, Refuse, Restart
<1>3. ~Start /\ ~Reopen
  BY DEF Start, Reopen
<1>4. ~Quiesce
  BY DEF Quiesce
<1>5. ASSUME \/ UNCHANGED vars \/ PullStart \/ PullCall \/ PullRefused \/ PullFails
             \/ \E i \in Id : PullResolve(i) \/ PullUnresolved(i)
             \/ \E decl \in Decl, def \in Def : Edit(decl, def)
             \/ \E domain \in Domain : Build(domain)
      PROVE  UNCHANGED <<phase, sealed>>
  BY <1>5, Zenon DEF vars, PullStart, PullCall, PullRefused, PullFails,
              PullResolve, PullUnresolved, Edit, Build
<1>. QED  BY <1>1, <1>2, <1>3, <1>4, <1>5, CommitSteps, Zenon DEF Next, Command

\* A closed Controller was sealed and joined.
ClosedInv == phase = "closed" => sealed /\ InFlight = 0

\* After the seal and the join nothing is in flight and nothing is written, and
\* the Controller closes only then.
THEOREM SealStaysQuiet == Spec => SealedIsQuiet
<1>1. Init => ClosedInv
  BY DEF Init, ClosedInv
<1>2. ControlInv /\ ClosedInv /\ [Next]_vars => ClosedInv'
  <2>1. SUFFICES ASSUME ControlInv, ClosedInv, [Next]_vars, phase' = "closed"
                 PROVE  sealed' /\ InFlight' = 0
    BY Zenon DEF ClosedInv
  <2>2. sealed /\ InFlight = 0 /\ sealed'
    <3>1. CASE Close
      BY <3>1, Zenon DEF Close
    <3>2. CASE UNCHANGED <<phase, sealed>>
      BY <2>1, <3>2, Zenon DEF ClosedInv
    <3>. QED  BY <2>1, <3>1, <3>2, ClosingSteps, Zenon
  <2>. QED  BY <2>1, <2>2, JoinedStays, Zenon
<1>3. ControlInv /\ ClosedInv' /\ [Next]_vars =>
        [/\ sealed /\ InFlight = 0 /\ sealed' => InFlight' = 0 /\ rows' = rows
         /\ phase' = "closed" => sealed' /\ InFlight' = 0]_vars
  <2>1. ControlInv /\ [Next]_vars /\ sealed /\ InFlight = 0 /\ sealed' => InFlight' = 0 /\ rows' = rows
    BY JoinedStays, Zenon
  <2>. QED  BY <2>1, Zenon DEF ClosedInv
<1>. QED  BY <1>1, <1>2, <1>3, ControlInvariant, PTL DEF Spec, SealedIsQuiet
=============================================================================

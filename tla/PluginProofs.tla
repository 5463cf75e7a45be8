---------------------------- MODULE PluginProofs ----------------------------
(***************************************************************************)
(* What the shared endpoint and the bridge promise for every set of seats, *)
(* addresses, devices, plugins and calls, whatever the scenes.             *)
(***************************************************************************)
EXTENDS PluginBridge, TLAPS

-----------------------------------------------------------------------------
(* The inductive invariant, in the three parts that different steps move *)

RegistryType ==
    /\ shared \in [Addr -> [dev : Dev \cup {None}, refs : Nat]]
    /\ \A a \in Addr : shared[a] # NoEntry => shared[a].dev \in Dev
    /\ seat \in [Seat -> {"out", "in", "moving", "stopping", "closing", "joining", "gone"}]
    /\ handle \in [Seat -> [dev : Dev \cup {None}, addr : Addr \cup {None}]]
    /\ \A s \in Seat : seat[s] \notin {"out", "gone"} =>
                           handle[s].dev \in Dev /\ handle[s].addr \in Addr
    /\ listen \in [Dev -> Addr \cup {None}]
    /\ leaving \in [Dev -> Addr \cup {None}]
    /\ stopped \subseteq Dev
    /\ scene \in Scene

\* Where the registry has a device: a device on the move, where it was.
Home(d) == IF leaving[d] = None THEN listen[d] ELSE leaving[d]

EntryIsHome ==
    \A a \in Addr : shared[a] # NoEntry => Home(shared[a].dev) = a /\ shared[a].dev \notin stopped

\* One seat at a time moves an endpoint, and only its device is on the move.
OneMoves ==
    /\ \A s, t \in Seat : seat[s] = "moving" /\ seat[t] = "moving" => s = t
    /\ \A s \in Seat : seat[s] = "moving" =>
           LET e == shared[handle[s].addr] IN e # NoEntry /\ listen[e.dev] # None
    /\ \A d \in Dev : leaving[d] # None =>
           \E s \in Seat : seat[s] = "moving" /\ shared[handle[s].addr].dev = d

\* A device that somebody is about to stop is in no entry, and never gets into
\* one: it is not fresh.  One that is being closed has its flag set.
StoppingIsOut ==
    /\ \A s \in Seat : seat[s] = "stopping" =>
         /\ \A a \in Addr : shared[a] # NoEntry => shared[a].dev # handle[s].dev
         /\ ~Fresh(handle[s].dev)
    /\ \A s \in Seat : seat[s] = "closing" => handle[s].dev \in stopped

RegistryInv == RegistryType /\ EntryIsHome /\ OneMoves /\ StoppingIsOut

SlotType ==
    /\ conn \in [Dev -> Conn \cup {None}]
    /\ closer \in [Conn -> Seat \cup Goroutine \cup {None}]
    /\ sock \in [Conn -> {"none", "arrived", "open", "closed"}]
    /\ at \in [Conn -> Dev \cup {None}]
    /\ \A c \in Conn : sock[c] \in {"arrived", "open"} => at[c] \in Dev
    /\ reader \subseteq Conn
    /\ call \in [Call -> [stage : {"none", "sending", "down", "plugin", "over"},
                          conn : Conn \cup {None}]]
    /\ \A k \in Call : call[k].stage = "sending" => call[k].conn \in Conn

SlotInv == SlotType /\ OpenIsInSlot

PlugInv ==
    /\ plug \in [Conn -> {"none", "open", "closing", "closed"}]
    /\ PluginIsCurrent

-----------------------------------------------------------------------------
(* The registry *)

\* The steps that move the registry, a listener or the stop flag.
LEMMA RegistrySteps ==
    ASSUME [Next]_vars, RegistryType
    PROVE  /\ scene' = scene
           /\ \/ \E s \in Seat : Stop(s) \/ Shutdown(s) \/ Joined(s) \/ Rebound(s) \/ Release(s)
              \/ \E s \in Seat, a \in Addr : AttachShared(s, a) \/ AttachNew(s, a) \/ Rebind(s, a)
              \/ UNCHANGED <<registryVars, serverVars>>
<1>1. CASE UNCHANGED vars
  BY <1>1, Zenon DEF vars, deviceVars
<1>2. CASE DeviceStep
  BY <1>2, Zenon DEF DeviceStep, Quiet, NoEvent, CloseConn, Accept, ReaderEnds, Beat, Send, Late, Sweep,
              ReadFrame
<1>3. CASE BridgeStep
  BY <1>3, Zenon DEF BridgeStep, NoEvent, UpArrives, Arrive, UpOpens, PluginMessage, PluginClosed,
              UpClosed, ClosePair, UpMessage
<1>4. CASE SeatStep
  <2>1. scene.seats \subseteq Seat /\ scene.addrs \subseteq Addr
    BY SceneAssumption, Zenon DEF RegistryType
  <2>. QED  BY <1>4, <2>1, Zenon DEF SeatStep, Quiet, NoEvent, Event, Begin
<1>5. CASE \E c \in Conn : Connection(c) \/ PluginLeaves(c) \/ UpBreaks(c)
  BY <1>5, Zenon DEF Connection, PluginLeaves, UpBreaks, ClosePair, NoEvent, Event, deviceVars
<1>6. CASE (\E k \in Call : Replies(k)) \/ Signal
  BY <1>6, Zenon DEF Replies, Signal, NoEvent, Event
<1>. QED  BY <1>1, <1>2, <1>3, <1>4, <1>5, <1>6, Zenon DEF Next, Code, World

\* While sharedMu is free no device is on the move: an entry is where its device
\* listens, and no two entries have the same device.
LEMMA FreeIsSettled ==
    ASSUME RegistryInv, Unlocked
    PROVE  /\ \A d \in Dev : leaving[d] = None
           /\ \A a \in Addr : shared[a] # NoEntry =>
                /\ shared[a].dev \in Dev /\ shared[a].dev \notin stopped
                /\ listen[shared[a].dev] = a
           /\ \A a, b \in Addr : shared[a] # NoEntry /\ shared[b] # NoEntry
                                   /\ shared[a].dev = shared[b].dev => a = b
<1>1. \A d \in Dev : leaving[d] = None
  BY Zenon DEF RegistryInv, OneMoves, Unlocked
<1>2. ASSUME NEW a \in Addr, shared[a] # NoEntry
      PROVE  shared[a].dev \in Dev /\ shared[a].dev \notin stopped /\ listen[shared[a].dev] = a
  BY <1>1, <1>2, Zenon DEF RegistryInv, RegistryType, EntryIsHome, Home
<1>. QED  BY <1>1, <1>2, Zenon

\* A seat that goes, having nothing to move, leaves the rest as it is.
LEMMA GoneKeepsRegistry ==
    ASSUME RegistryInv, NEW s \in Seat, seat[s] # "moving", seat' = [seat EXCEPT ![s] = "gone"],
           UNCHANGED <<shared, handle, listen, leaving, stopped, scene>>
    PROVE  RegistryInv'
<1>1. RegistryType'
  BY Zenon DEF RegistryInv, RegistryType
<1>2. EntryIsHome'
  BY Zenon DEF RegistryInv, EntryIsHome, Home
<1>3. OneMoves'
  <2>1. \A t \in Seat : seat'[t] = "moving" <=> seat[t] = "moving"
    BY Zenon DEF RegistryInv, RegistryType
  <2>. QED  BY <2>1, Zenon DEF RegistryInv, OneMoves
<1>4. StoppingIsOut'
  BY Zenon DEF RegistryInv, RegistryType, StoppingIsOut, Fresh
<1>. QED  BY <1>1, <1>2, <1>3, <1>4, Zenon DEF RegistryInv

\* Attach, Rebind, Release and Stop keep the registry true.
LEMMA RegistryStep ==
    ASSUME [Next]_vars, RegistryInv
    PROVE  RegistryInv'
<1> USE NoneAssumption
<1>0. scene' = scene
  BY RegistrySteps, Zenon DEF RegistryInv
<1>1. ASSUME NEW s \in Seat, Stop(s)
      PROVE  RegistryInv'
  <2> DEFINE d == handle[s].dev
  <2>1. /\ seat[s] = "stopping" /\ d \in Dev
        /\ \A a \in Addr : shared[a] # NoEntry => shared[a].dev # d
        /\ stopped' = stopped \cup {d} /\ seat' = [seat EXCEPT ![s] = "closing"]
        /\ UNCHANGED <<shared, handle, listen, leaving>>
    BY <1>1, Zenon DEF Stop, RegistryInv, RegistryType, StoppingIsOut
  <2>2. RegistryType'
    BY <1>0, <2>1, Zenon DEF RegistryInv, RegistryType
  <2>3. EntryIsHome'
    BY <2>1, Zenon DEF RegistryInv, EntryIsHome, Home
  <2>4. OneMoves'
    BY <2>1, Zenon DEF RegistryInv, RegistryType, OneMoves
  <2>5. StoppingIsOut'
    BY <2>1, Zenon DEF RegistryInv, RegistryType, StoppingIsOut, Fresh
  <2>. QED  BY <2>2, <2>3, <2>4, <2>5, Zenon DEF RegistryInv
<1>2. ASSUME NEW s \in Seat, Shutdown(s)
      PROVE  RegistryInv'
  <2> DEFINE d == handle[s].dev
  <2>1. /\ seat[s] = "closing" /\ d \in stopped /\ d \in Dev
        /\ listen' = [listen EXCEPT ![d] = None] /\ seat' = [seat EXCEPT ![s] = "joining"]
        /\ UNCHANGED <<shared, handle, leaving, stopped>>
    BY <1>2, Zenon DEF Shutdown, RegistryInv, RegistryType, StoppingIsOut
  <2>2. RegistryType'
    BY <1>0, <2>1, Zenon DEF RegistryInv, RegistryType
  <2>3. EntryIsHome'
    BY <2>1, Zenon DEF RegistryInv, RegistryType, EntryIsHome, Home
  <2>4. OneMoves'
    <3>1. \A u \in Seat : seat'[u] = "moving" => seat[u] = "moving"
      BY <2>1, Zenon DEF RegistryInv, RegistryType
    <3>2. ASSUME NEW u \in Seat, seat[u] = "moving"
          PROVE  listen'[shared[handle[u].addr].dev] = listen[shared[handle[u].addr].dev] /\ seat'[u] = "moving"
      <4>1. handle[u].addr \in Addr /\ shared[handle[u].addr] # NoEntry
        BY <3>2, Zenon DEF RegistryInv, RegistryType, OneMoves
      <4>2. shared[handle[u].addr].dev \in Dev /\ shared[handle[u].addr].dev # d
        BY <2>1, <4>1, Zenon DEF RegistryInv, RegistryType, EntryIsHome
      <4>. QED  BY <2>1, <3>2, <4>2, Zenon DEF RegistryInv, RegistryType
    <3>3. ASSUME NEW u \in Seat, seat'[u] = "moving"
          PROVE  shared'[handle'[u].addr] # NoEntry /\ listen'[shared'[handle'[u].addr].dev] # None
      <4>1. shared[handle[u].addr] # NoEntry /\ listen[shared[handle[u].addr].dev] # None
        BY <3>1, <3>3, Zenon DEF RegistryInv, OneMoves
      <4>. QED  BY <2>1, <3>1, <3>2, <3>3, <4>1
    <3>4. \A u, v \in Seat : seat'[u] = "moving" /\ seat'[v] = "moving" => u = v
      BY <3>1, Zenon DEF RegistryInv, OneMoves
    <3>5. ASSUME NEW e \in Dev, leaving'[e] # None
          PROVE  \E u \in Seat : seat'[u] = "moving" /\ shared'[handle'[u].addr].dev = e
      BY <2>1, <3>2, <3>5, Zenon DEF RegistryInv, OneMoves
    <3>. QED  BY <3>3, <3>4, <3>5, Zenon DEF OneMoves
  <2>5. StoppingIsOut'
    BY <2>1, Zenon DEF RegistryInv, RegistryType, StoppingIsOut, Fresh
  <2>. QED  BY <2>2, <2>3, <2>4, <2>5, Zenon DEF RegistryInv
<1>3. ASSUME NEW s \in Seat, Joined(s)
      PROVE  RegistryInv'
  BY <1>0, <1>3, GoneKeepsRegistry, Zenon DEF Joined, serverVars
<1>4. ASSUME NEW s \in Seat, Release(s)
      PROVE  RegistryInv'
  <2> DEFINE a == handle[s].addr
  <2>1. seat[s] = "in" /\ Unlocked /\ a \in Addr /\ UNCHANGED <<listen, leaving, stopped>>
    BY <1>4, Zenon DEF Release, serverVars, RegistryInv, RegistryType
  <2>2. CASE shared[a] = NoEntry
    <3>1. seat' = [seat EXCEPT ![s] = "gone"] /\ UNCHANGED <<shared, handle>>
      BY <1>4, <2>2, Zenon DEF Release
    <3>. QED  BY <1>0, <2>1, <3>1, GoneKeepsRegistry, Zenon
  <2>3. CASE shared[a] # NoEntry /\ MoreGrips(shared[a])
    <3>1. /\ shared' = [shared EXCEPT ![a] = [dev |-> shared[a].dev, refs |-> shared[a].refs - 1]]
          /\ seat' = [seat EXCEPT ![s] = "gone"] /\ handle' = handle
      BY <1>4, <2>3, Zenon DEF Release
    <3>2. shared[a].refs - 1 \in Nat
      BY <2>1, <2>3 DEF MoreGrips, RegistryInv, RegistryType
    <3>3. \A b \in Addr : shared'[b] # NoEntry => shared[b] # NoEntry /\ shared'[b].dev = shared[b].dev
      BY <2>1, <2>3, <3>1, Zenon DEF RegistryInv, RegistryType
    <3>4. RegistryType'
      BY <1>0, <2>1, <2>3, <3>1, <3>2, <3>3, Zenon DEF RegistryInv, RegistryType
    <3>5. EntryIsHome'
      BY <2>1, <3>3, Zenon DEF RegistryInv, EntryIsHome, Home
    <3>6. OneMoves'
      BY <2>1, <3>1, FreeIsSettled, Zenon DEF Unlocked, OneMoves, RegistryInv, RegistryType
    <3>7. StoppingIsOut'
      BY <2>1, <3>1, <3>3, Zenon DEF RegistryInv, RegistryType, StoppingIsOut, Fresh
    <3>. QED  BY <3>4, <3>5, <3>6, <3>7, Zenon DEF RegistryInv
  <2>4. CASE shared[a] # NoEntry /\ ~MoreGrips(shared[a])
    <3>1. /\ shared' = [shared EXCEPT ![a] = NoEntry]
          /\ seat' = [seat EXCEPT ![s] = "stopping"]
          /\ handle' = [handle EXCEPT ![s] = [dev |-> shared[a].dev, addr |-> a]]
      BY <1>4, <2>4, Zenon DEF Release
    <3>2. \A b \in Addr : shared'[b] # NoEntry => shared[b] # NoEntry /\ shared'[b] = shared[b] /\ b # a
      BY <2>1, <3>1, Zenon DEF RegistryInv, RegistryType
    <3>3. RegistryType'
      <4>1. shared[a].dev \in Dev /\ NoEntry \in [dev : Dev \cup {None}, refs : Nat]
        BY <2>1, <2>4 DEF RegistryInv, RegistryType, NoEntry
      <4>2. /\ shared' \in [Addr -> [dev : Dev \cup {None}, refs : Nat]]
            /\ \A b \in Addr : shared'[b] # NoEntry => shared'[b].dev \in Dev
        BY <3>1, <3>2, <4>1, Zenon DEF RegistryInv, RegistryType
      <4>3. /\ seat' \in [Seat -> {"out", "in", "moving", "stopping", "closing", "joining", "gone"}]
            /\ handle' \in [Seat -> [dev : Dev \cup {None}, addr : Addr \cup {None}]]
            /\ \A t \in Seat : seat'[t] \notin {"out", "gone"} =>
                                  handle'[t].dev \in Dev /\ handle'[t].addr \in Addr
        BY <2>1, <3>1, <4>1, Zenon DEF RegistryInv, RegistryType
      <4>. QED  BY <1>0, <2>1, <4>2, <4>3, Zenon DEF RegistryInv, RegistryType
    <3>4. EntryIsHome'
      BY <2>1, <3>2, Zenon DEF RegistryInv, EntryIsHome, Home
    <3>5. OneMoves'
      BY <2>1, <3>1, FreeIsSettled, Zenon DEF Unlocked, OneMoves, RegistryInv, RegistryType
    <3>6. ASSUME NEW t \in Seat, seat'[t] = "stopping"
          PROVE  /\ \A b \in Addr : shared'[b] # NoEntry => shared'[b].dev # handle'[t].dev
                 /\ ~(listen'[handle'[t].dev] = None /\ handle'[t].dev \notin stopped')
      <4>1. CASE t = s
        <5>1. handle'[t].dev = shared[a].dev
          BY <3>1, <4>1, Zenon DEF RegistryInv, RegistryType
        <5>2. /\ listen[shared[a].dev] = a
              /\ \A b \in Addr : shared[b] # NoEntry /\ shared[b].dev = shared[a].dev => b = a
          BY <2>1, <2>4, FreeIsSettled, Zenon
        <5>. QED  BY <2>1, <3>2, <5>1, <5>2
      <4>2. CASE t # s
        <5>1. seat[t] = "stopping" /\ handle'[t] = handle[t]
          BY <3>1, <3>6, <4>2, Zenon DEF RegistryInv, RegistryType
        <5>. QED  BY <2>1, <3>2, <5>1, Zenon DEF RegistryInv, StoppingIsOut, Fresh
      <4>. QED  BY <4>1, <4>2, Zenon
    <3>7. \A t \in Seat : seat'[t] = "closing" => handle'[t].dev \in stopped'
      BY <2>1, <3>1, Zenon DEF RegistryInv, RegistryType, StoppingIsOut
    <3>. QED  BY <3>3, <3>4, <3>5, <3>6, <3>7, Zenon DEF RegistryInv, StoppingIsOut, Fresh
  <2>. QED  BY <2>2, <2>3, <2>4, Zenon
<1>5. ASSUME NEW s \in Seat, NEW a \in Addr, AttachShared(s, a)
      PROVE  RegistryInv'
  <2>1. /\ seat[s] = "out" /\ Unlocked /\ shared[a] # NoEntry
        /\ shared' = [shared EXCEPT ![a] = [dev |-> shared[a].dev, refs |-> shared[a].refs + 1]]
        /\ handle' = [handle EXCEPT ![s] = [dev |-> shared[a].dev, addr |-> a]]
        /\ seat' = [seat EXCEPT ![s] = "in"]
        /\ UNCHANGED <<listen, leaving, stopped>>
    BY <1>5, Zenon DEF AttachShared, Grip, serverVars
  <2>2. shared[a].refs + 1 \in Nat /\ shared[a].dev \in Dev
    BY <2>1 DEF RegistryInv, RegistryType
  <2>3. \A b \in Addr : shared'[b] # NoEntry => shared[b] # NoEntry /\ shared'[b].dev = shared[b].dev
    BY <2>1, Zenon DEF RegistryInv, RegistryType
  <2>4. RegistryType'
    BY <1>0, <2>1, <2>2, <2>3, Zenon DEF RegistryInv, RegistryType
  <2>5. EntryIsHome'
    BY <2>1, <2>3 DEF RegistryInv, EntryIsHome, Home
  <2>6. OneMoves'
    BY <2>1, FreeIsSettled, Zenon DEF Unlocked, OneMoves, RegistryInv, RegistryType
  <2>7. StoppingIsOut'
    BY <2>1, <2>3, Zenon DEF RegistryInv, RegistryType, StoppingIsOut, Fresh
  <2>. QED  BY <2>4, <2>5, <2>6, <2>7, Zenon DEF RegistryInv
<1>6. ASSUME NEW s \in Seat, NEW a \in Addr, AttachNew(s, a)
      PROVE  RegistryInv'
  <2>1. PICK d \in Dev : Fresh(d) /\ Grip(s, a, d) /\ listen' = [listen EXCEPT ![d] = a]
    BY <1>6, Zenon DEF AttachNew, NextFresh
  <2>2. /\ seat[s] = "out" /\ Unlocked /\ UNCHANGED <<leaving, stopped>>
        /\ shared' = [shared EXCEPT ![a] = [dev |-> d, refs |-> shared[a].refs + 1]]
        /\ handle' = [handle EXCEPT ![s] = [dev |-> d, addr |-> a]]
        /\ seat' = [seat EXCEPT ![s] = "in"]
        /\ listen[d] = None /\ d \notin stopped
    BY <1>6, <2>1, Zenon DEF AttachNew, Grip, Fresh
  <2>3. shared[a].refs + 1 \in Nat
    BY DEF RegistryInv, RegistryType
  <2>4. \A b \in Addr : shared[b] # NoEntry => shared[b].dev # d
    BY <2>2, FreeIsSettled, Zenon
  <2>5. \A b \in Addr : b # a => shared'[b] = shared[b]
    BY <2>2, Zenon DEF RegistryInv, RegistryType
  <2>6. shared'[a] = [dev |-> d, refs |-> shared[a].refs + 1]
    BY <2>2, Zenon DEF RegistryInv, RegistryType
  <2>7. RegistryType'
    <3>1. /\ shared' \in [Addr -> [dev : Dev \cup {None}, refs : Nat]]
          /\ \A b \in Addr : shared'[b] # NoEntry => shared'[b].dev \in Dev
      BY <2>2, <2>3, <2>5, <2>6 DEF RegistryInv, RegistryType
    <3>2. /\ seat' \in [Seat -> {"out", "in", "moving", "stopping", "closing", "joining", "gone"}]
          /\ handle' \in [Seat -> [dev : Dev \cup {None}, addr : Addr \cup {None}]]
          /\ \A t \in Seat : seat'[t] \notin {"out", "gone"} =>
                                handle'[t].dev \in Dev /\ handle'[t].addr \in Addr
      BY <2>2, Zenon DEF RegistryInv, RegistryType
    <3>. QED  BY <1>0, <2>1, <2>2, <3>1, <3>2, Zenon DEF RegistryInv, RegistryType
  <2>8. \A e \in Dev : leaving'[e] = None
    BY <2>2, FreeIsSettled, Zenon
  <2>9. EntryIsHome'
    <3>1. ASSUME NEW b \in Addr, shared'[b] # NoEntry
          PROVE  Home(shared[b].dev)' = b /\ shared'[b].dev \notin stopped'
      <4>1. CASE b = a
        <5>1. shared'[b].dev = d /\ listen'[d] = a
          BY <2>1, <2>6, <4>1 DEF RegistryInv, RegistryType
        <5>. QED  BY <2>2, <2>8, <4>1, <5>1 DEF Home
      <4>2. CASE b # a
        <5>1. shared'[b] = shared[b] /\ shared[b] # NoEntry
          BY <2>5, <3>1, <4>2, Zenon
        <5>2. shared[b].dev \in Dev \ stopped /\ listen[shared[b].dev] = b /\ shared[b].dev # d
          BY <2>2, <2>4, <5>1, FreeIsSettled, Zenon
        <5>3. listen'[shared[b].dev] = b
          BY <2>1, <5>2, Zenon DEF RegistryInv, RegistryType
        <5>. QED  BY <2>2, <2>8, <5>1, <5>2, <5>3 DEF Home
      <4>. QED  BY <4>1, <4>2, Zenon
    <3>. QED  BY <3>1, Zenon DEF EntryIsHome
  <2>10. OneMoves'
    BY <2>2, <2>8, Zenon DEF Unlocked, OneMoves, RegistryInv, RegistryType
  <2>11. ASSUME NEW t \in Seat, seat'[t] = "stopping"
         PROVE  /\ \A b \in Addr : shared'[b] # NoEntry => shared'[b].dev # handle'[t].dev
                /\ ~(listen'[handle'[t].dev] = None /\ handle'[t].dev \notin stopped')
    <3>1. seat[t] = "stopping" /\ handle'[t] = handle[t] /\ handle[t].dev \in Dev
      BY <2>2, <2>11, Zenon DEF RegistryInv, RegistryType
    <3>2. /\ \A b \in Addr : shared[b] # NoEntry => shared[b].dev # handle[t].dev
          /\ ~Fresh(handle[t].dev)
      BY <3>1, Zenon DEF RegistryInv, StoppingIsOut
    <3>3. handle[t].dev # d
      BY <2>1, <3>2, Zenon
    <3>4. listen'[handle[t].dev] = listen[handle[t].dev]
      BY <2>1, <3>1, <3>3, Zenon DEF RegistryInv, RegistryType
    <3>. QED  BY <2>2, <2>5, <2>6, <3>1, <3>2, <3>3, <3>4 DEF Fresh
  <2>12. \A t \in Seat : seat'[t] = "closing" => handle'[t].dev \in stopped'
    BY <2>2, Zenon DEF RegistryInv, RegistryType, StoppingIsOut
  <2>. QED  BY <2>7, <2>9, <2>10, <2>11, <2>12, Zenon DEF RegistryInv, StoppingIsOut, Fresh
<1>7. ASSUME NEW s \in Seat, NEW a \in Addr, Rebind(s, a)
      PROVE  RegistryInv'
  <2> DEFINE d == shared[handle[s].addr].dev
  <2>1. /\ seat[s] = "in" /\ Unlocked /\ shared[handle[s].addr] # NoEntry
        /\ listen' = [listen EXCEPT ![d] = a] /\ leaving' = [leaving EXCEPT ![d] = listen[d]]
        /\ seat' = [seat EXCEPT ![s] = "moving"]
        /\ UNCHANGED <<shared, handle, stopped>>
    BY <1>7, Zenon DEF Rebind
  <2>2. handle[s].addr \in Addr
    BY <2>1, Zenon DEF RegistryInv, RegistryType
  <2>3. d \in Dev /\ listen[d] = handle[s].addr /\ d \notin stopped
    BY <2>1, <2>2, FreeIsSettled, Zenon
  <2>4. RegistryType'
    BY <1>0, <2>1, <2>2, <2>3, Zenon DEF RegistryInv, RegistryType
  <2>5. EntryIsHome'
    <3>1. ASSUME NEW b \in Addr, shared'[b] # NoEntry
          PROVE  Home(shared[b].dev)' = b /\ shared'[b].dev \notin stopped'
      <4>1. shared'[b] = shared[b] /\ shared[b].dev \in Dev \ stopped /\ listen[shared[b].dev] = b
            /\ leaving[shared[b].dev] = None
        BY <2>1, <3>1, FreeIsSettled, Zenon
      <4>2. CASE shared[b].dev = d
        <5>1. leaving'[d] = b
          BY <2>1, <2>3, <4>1, <4>2, Zenon DEF RegistryInv, RegistryType
        <5>. QED  BY <2>1, <4>1, <4>2, <5>1, Zenon DEF Home
      <4>3. CASE shared[b].dev # d
        <5>1. leaving'[shared[b].dev] = None /\ listen'[shared[b].dev] = b
          BY <2>1, <4>1, <4>3, Zenon DEF RegistryInv, RegistryType
        <5>. QED  BY <2>1, <4>1, <5>1, Zenon DEF Home
      <4>. QED  BY <4>2, <4>3, Zenon
    <3>. QED  BY <3>1, Zenon DEF EntryIsHome
  <2>6. \A t \in Seat : seat'[t] = "moving" => t = s
    BY <2>1, Zenon DEF Unlocked, RegistryInv, RegistryType
  <2>7. seat'[s] = "moving"
    BY <2>1, Zenon DEF RegistryInv, RegistryType
  <2>8. \A e \in Dev : leaving'[e] # None => e = d
    BY <2>1, FreeIsSettled, Zenon DEF RegistryInv, RegistryType
  <2>9. OneMoves'
    <3>1. listen'[d] # None
      BY <2>1, <2>3, Zenon DEF RegistryInv, RegistryType
    <3>. QED  BY <2>1, <2>6, <2>7, <2>8, <3>1, Zenon DEF OneMoves
  <2>10. StoppingIsOut'
    BY <2>1, <2>2, <2>3, Zenon DEF RegistryInv, RegistryType, StoppingIsOut, Fresh
  <2>. QED  BY <2>4, <2>5, <2>9, <2>10, Zenon DEF RegistryInv
<1>8. ASSUME NEW s \in Seat, Rebound(s)
      PROVE  RegistryInv'
  <2> DEFINE old == handle[s].addr
             d == shared[old].dev
             a == listen[d]
  <2>1. /\ seat[s] = "moving" /\ leaving' = [leaving EXCEPT ![d] = None]
        /\ shared' = [shared EXCEPT ![old] = NoEntry, ![a] = shared[old]]
        /\ handle' = [handle EXCEPT ![s] = [dev |-> handle[s].dev, addr |-> a]]
        /\ seat' = [seat EXCEPT ![s] = "in"]
        /\ UNCHANGED <<listen, stopped>>
    BY <1>8, Zenon DEF Rebound, ReKey
  <2>2. old \in Addr /\ handle[s].dev \in Dev /\ shared[old] # NoEntry
    BY <2>1, Zenon DEF RegistryInv, RegistryType, OneMoves
  <2>3. d \in Dev /\ Home(d) = old /\ d \notin stopped
    BY <2>2, Zenon DEF RegistryInv, RegistryType, EntryIsHome
  <2>4. a \in Addr
    <3>1. a # None
      BY <2>1, Zenon DEF RegistryInv, OneMoves
    <3>. QED  BY <2>3, <3>1, Zenon DEF RegistryInv, RegistryType
  <2>5. RegistryType'
    <3>1. shared[old] \in [dev : Dev \cup {None}, refs : Nat] /\ NoEntry \in [dev : Dev \cup {None}, refs : Nat]
      BY <2>2 DEF RegistryInv, RegistryType, NoEntry
    <3>2. /\ shared' \in [Addr -> [dev : Dev \cup {None}, refs : Nat]]
          /\ \A b \in Addr : shared'[b] # NoEntry => shared'[b].dev \in Dev
      BY <2>1, <2>2, <2>3, <2>4, <3>1, Zenon DEF RegistryInv, RegistryType
    <3>3. /\ seat' \in [Seat -> {"out", "in", "moving", "stopping", "closing", "joining", "gone"}]
          /\ handle' \in [Seat -> [dev : Dev \cup {None}, addr : Addr \cup {None}]]
          /\ \A t \in Seat : seat'[t] \notin {"out", "gone"} =>
                                handle'[t].dev \in Dev /\ handle'[t].addr \in Addr
      BY <2>1, <2>2, <2>4, Zenon DEF RegistryInv, RegistryType
    <3>. QED  BY <1>0, <2>1, <3>2, <3>3, Zenon DEF RegistryInv, RegistryType
  <2>6. \A t \in Seat : seat'[t] # "moving"
    BY <2>1, Zenon DEF RegistryInv, RegistryType, OneMoves
  <2>7. \A e \in Dev : leaving'[e] = None
    <3>1. \A e \in Dev : leaving[e] # None => e = d
      BY <2>1, Zenon DEF RegistryInv, OneMoves
    <3>. QED  BY <2>1, <2>3, <3>1, Zenon DEF RegistryInv, RegistryType
  <2>8. ASSUME NEW b \in Addr, shared'[b] # NoEntry
        PROVE  /\ listen'[shared'[b].dev] = b /\ shared'[b].dev \in Dev /\ shared'[b].dev \notin stopped'
               /\ \E c \in Addr : shared[c] # NoEntry /\ shared'[b].dev = shared[c].dev
    <3>1. CASE b = a
      <4>1. shared'[b] = shared[old]
        BY <2>1, <2>4, <3>1, Zenon DEF RegistryInv, RegistryType
      <4>2. shared'[b].dev = d
        BY <4>1, Zenon
      <4>3. listen'[d] = b /\ d \notin stopped'
        BY <2>1, <2>3, <3>1, Zenon
      <4> HIDE DEF d
      <4>4. listen'[shared'[b].dev] = b /\ shared'[b].dev \in Dev /\ shared'[b].dev \notin stopped'
        BY <2>3, <4>2, <4>3
      <4>5. \E c \in Addr : shared[c] # NoEntry /\ shared'[b].dev = shared[c].dev
        BY <2>2, <4>1, Zenon
      <4>. QED  BY <4>4, <4>5, Zenon
    <3>2. CASE b # a
      <4>1. b # old /\ shared'[b] = shared[b] /\ shared[b] # NoEntry
        BY <2>1, <2>2, <2>8, <3>2, Zenon DEF RegistryInv, RegistryType
      <4>2. shared[b].dev \in Dev /\ Home(shared[b].dev) = b /\ shared[b].dev \notin stopped
        BY <4>1, Zenon DEF RegistryInv, RegistryType, EntryIsHome
      <4>3. shared[b].dev # d
        BY <2>3, <4>1, <4>2, Zenon
      <4>4. leaving[shared[b].dev] = None
        BY <2>1, <4>2, <4>3, Zenon DEF RegistryInv, OneMoves
      <4>5. listen[shared[b].dev] = b
        BY <4>2, <4>4, Zenon DEF Home
      <4>6. listen' = listen /\ stopped' = stopped
        BY <2>1, Zenon
      <4>. QED  BY <4>1, <4>2, <4>5, <4>6
    <3>. QED  BY <3>1, <3>2, Zenon
  <2>9. EntryIsHome'
    BY <2>7, <2>8, Zenon DEF EntryIsHome, Home
  <2>10. OneMoves'
    BY <2>6, <2>7, Zenon DEF OneMoves
  <2>11. ASSUME NEW t \in Seat, seat'[t] = "stopping" \/ seat'[t] = "closing"
         PROVE  handle'[t] = handle[t] /\ seat'[t] = seat[t]
    BY <2>1, <2>11, Zenon DEF RegistryInv, RegistryType
  <2>12. StoppingIsOut'
    <3>1. ASSUME NEW t \in Seat, seat'[t] = "stopping"
          PROVE  /\ \A b \in Addr : shared'[b] # NoEntry => shared'[b].dev # handle'[t].dev
                 /\ ~Fresh(handle[t].dev)'
      <4>1. seat[t] = "stopping" /\ handle'[t] = handle[t]
        BY <2>11, <3>1, Zenon
      <4>2. /\ \A b \in Addr : shared[b] # NoEntry => shared[b].dev # handle[t].dev
            /\ ~Fresh(handle[t].dev)
        BY <4>1, Zenon DEF RegistryInv, StoppingIsOut
      <4>3. listen' = listen /\ stopped' = stopped
        BY <2>1, Zenon
      <4>. QED  BY <2>8, <4>1, <4>2, <4>3 DEF Fresh
    <3>2. ASSUME NEW t \in Seat, seat'[t] = "closing"
          PROVE  handle'[t].dev \in stopped'
      <4>1. handle'[t] = handle[t] /\ handle[t].dev \in stopped
        BY <2>11, <3>2, Zenon DEF RegistryInv, StoppingIsOut
      <4>2. stopped' = stopped
        BY <2>1, Zenon
      <4>. QED  BY <4>1, <4>2
    <3>. QED  BY <3>1, <3>2, Zenon DEF StoppingIsOut
  <2>. QED  BY <2>5, <2>9, <2>10, <2>12, Zenon DEF RegistryInv
<1>9. CASE UNCHANGED <<registryVars, serverVars>>
  <2>1. RegistryType' /\ EntryIsHome'
    BY <1>0, <1>9, Zenon DEF registryVars, serverVars, RegistryInv, RegistryType, EntryIsHome, Home
  <2>2. OneMoves' /\ StoppingIsOut'
    BY <1>9, Zenon DEF registryVars, serverVars, RegistryInv, OneMoves, StoppingIsOut, Fresh
  <2>. QED  BY <2>1, <2>2, Zenon DEF RegistryInv
<1>. QED  BY <1>1, <1>2, <1>3, <1>4, <1>5, <1>6, <1>7, <1>8, <1>9, RegistrySteps, Zenon DEF RegistryInv

-----------------------------------------------------------------------------
(* The connection slot of a device *)

slotVars == <<conn, closer, sock, at, reader>>

\* The steps that move a slot, a socket or a call.
LEMMA SlotSteps ==
    ASSUME [Next]_vars, RegistryType
    PROVE  \/ \E s \in Seat : Stop(s) \/ \E a \in Addr : Rebind(s, a)
           \/ \E s \in Seat, k \in Call : Begin(s, k)
           \/ \E c \in Conn : CloseConn(c) \/ Accept(c) \/ ReaderEnds(c) \/ Beat(c) \/ Arrive(c, Route)
           \/ \E c \in Conn : DropConn(c, "reader") /\ UNCHANGED <<sock, at, reader, call>>
           \/ \E k \in Call : Send(k) \/ UpMessage(k) \/ Replies(k)
           \/ UNCHANGED <<slotVars, call>>
<1> USE DEF slotVars, socketVars, callVars
<1>1. CASE UNCHANGED vars
  BY <1>1, Zenon DEF vars, deviceVars
<1>2. CASE DeviceStep
  <2>1. ASSUME NEW c \in Conn, ReadFrame(c)
        PROVE  \/ DropConn(c, "reader") /\ UNCHANGED <<sock, at, reader, call>>
               \/ UNCHANGED <<slotVars, call>>
    BY <2>1, Zenon DEF ReadFrame
  <2>. QED  BY <1>2, <2>1, Zenon DEF DeviceStep, Shutdown, Joined, Rebound, Late, Sweep
<1>3. CASE BridgeStep
  BY <1>3 DEF BridgeStep, UpArrives, UpOpens, PluginMessage, PluginClosed, UpClosed, ClosePair
<1>4. CASE SeatStep
  <2>1. scene.seats \subseteq Seat /\ scene.addrs \subseteq Addr /\ scene.calls \subseteq Call
    BY SceneAssumption, Zenon DEF RegistryType
  <2>. QED  BY <1>4, <2>1, Zenon DEF SeatStep, AttachShared, AttachNew, Release
<1>5. CASE \E c \in Conn : Connection(c) \/ PluginLeaves(c) \/ UpBreaks(c)
  BY <1>5, Zenon DEF Connection, PluginLeaves, UpBreaks, ClosePair, deviceVars
<1>6. CASE (\E k \in Call : Replies(k)) \/ Signal
  BY <1>6, Zenon DEF Signal
<1>. QED  BY <1>1, <1>2, <1>3, <1>4, <1>5, <1>6, Zenon DEF Next, Code, World

\* Whoever takes a connection out of its slot is about to close it.
LEMMA TakeOutKeepsSlots ==
    ASSUME SlotInv, NEW d \in Dev, NEW who \in Seat \cup Goroutine, NEW o, o = conn[d],
           TakeOut(d, o, who), UNCHANGED <<sock, at>>
    PROVE  /\ conn' \in [Dev -> Conn \cup {None}]
           /\ closer' \in [Conn -> Seat \cup Goroutine \cup {None}]
           /\ OpenIsInSlot'
<1> USE NoneAssumption DEF SlotInv, SlotType
<1>1. /\ conn' \in [Dev -> Conn \cup {None}]
      /\ closer' \in [Conn -> Seat \cup Goroutine \cup {None}]
  BY Zenon DEF TakeOut
<1>2. ASSUME NEW c \in Conn, sock'[c] = "open"
      PROVE  conn'[at'[c]] = c \/ closer'[c] # None
  <2>1. at[c] \in Dev /\ (conn[at[c]] = c \/ closer[c] # None)
    BY <1>2, Zenon DEF OpenIsInSlot
  <2>2. CASE c = conn[d]
    BY <2>2, Zenon DEF TakeOut
  <2>3. CASE c # conn[d]
    BY <2>1, <2>3, Zenon DEF TakeOut
  <2>. QED  BY <2>2, <2>3, Zenon
<1>. QED  BY <1>1, <1>2, Zenon DEF OpenIsInSlot

\* DropConn frees only the slot of its own connection.
LEMMA DropKeepsSlots ==
    ASSUME SlotInv, NEW c \in Conn, NEW who \in Goroutine, DropConn(c, who), UNCHANGED <<sock, at>>
    PROVE  /\ conn' \in [Dev -> Conn \cup {None}]
           /\ closer' \in [Conn -> Seat \cup Goroutine \cup {None}]
           /\ OpenIsInSlot'
<1>1. CASE StillLive(c) /\ at[c] \in Dev
  <2>1. c = conn[at[c]] /\ TakeOut(at[c], c, who)
    BY <1>1, Zenon DEF DropConn, StillLive
  <2>. QED  BY <1>1, <2>1, TakeOutKeepsSlots, Zenon
<1>2. CASE StillLive(c) /\ at[c] \notin Dev
  <2>1. conn' = conn /\ sock[c] # "open"
    BY <1>2 DEF DropConn, TakeOut, SlotInv, SlotType
  <2>2. closer' \in [Conn -> Seat \cup Goroutine \cup {None}]
    BY <1>2, Zenon DEF DropConn, TakeOut, SlotInv, SlotType
  <2>3. \A x \in Conn : closer[x] # None => closer'[x] # None
    BY <1>2, NoneAssumption, Zenon DEF DropConn, TakeOut, Goroutine
  <2>. QED  BY <2>1, <2>2, <2>3, Zenon DEF SlotInv, SlotType, OpenIsInSlot
<1>3. CASE ~StillLive(c)
  BY <1>3, Zenon DEF DropConn, SlotInv, SlotType, OpenIsInSlot
<1>. QED  BY <1>1, <1>2, <1>3, Zenon

\* handleAccept, readLoop, the heartbeats, the writes, Rebind and Stop leave no
\* connection open that is in no slot and that nobody is about to close.
LEMMA SlotStep ==
    ASSUME [Next]_vars, RegistryInv, SlotInv
    PROVE  SlotInv'
<1> USE NoneAssumption DEF SlotInv, SlotType
<1>1. ASSUME NEW s \in Seat, Stop(s)
      PROVE  SlotInv'
  <2>1. handle[s].dev \in Dev
    BY <1>1, Zenon DEF Stop, RegistryInv, RegistryType
  <2>. QED  BY <1>1, <2>1, TakeOutKeepsSlots, Zenon DEF Stop, callVars
<1>2. ASSUME NEW s \in Seat, NEW a \in Addr, Rebind(s, a)
      PROVE  SlotInv'
  <2>1. shared[handle[s].addr].dev \in Dev
    BY <1>2, Zenon DEF Rebind, RegistryInv, RegistryType
  <2>. QED  BY <1>2, <2>1, TakeOutKeepsSlots, Zenon DEF Rebind, callVars
<1>3. ASSUME NEW s \in Seat, NEW k \in Call, Begin(s, k)
      PROVE  SlotInv'
  <2>1. handle[s].dev \in Dev
    BY <1>3, Zenon DEF Begin, Attached, RegistryInv, RegistryType
  <2>2. UNCHANGED slotVars
    BY <1>3, Zenon DEF Begin, socketVars, slotVars
  <2>3. OpenIsInSlot'
    BY <2>2, Zenon DEF slotVars, OpenIsInSlot
  <2>4. /\ call' \in [Call -> [stage : {"none", "sending", "down", "plugin", "over"},
                               conn : Conn \cup {None}]]
        /\ \A j \in Call : call'[j].stage = "sending" => call'[j].conn \in Conn
    BY <1>3, <2>1 DEF Begin, Goto
  <2>. QED  BY <2>2, <2>3, <2>4, Zenon DEF slotVars
<1>4. ASSUME NEW c \in Conn, Accept(c)
      PROVE  SlotInv'
  <2>1. at[c] \in Dev
    BY <1>4, Zenon DEF Accept
  <2>2. CASE Refused(at[c])
    <3>1. /\ sock' = [x \in Conn |-> IF x \in {c} THEN "closed" ELSE sock[x]]
          /\ UNCHANGED <<conn, closer, at, reader, call>>
      BY <1>4, <2>2, Zenon DEF Accept, Close, callVars
    <3>2. \A x \in Conn : sock'[x] \in {"arrived", "open"} => sock[x] = sock'[x]
      BY <3>1, Zenon
    <3>3. sock' \in [Conn -> {"none", "arrived", "open", "closed"}]
      BY <3>1, Zenon
    <3>. QED  BY <3>1, <3>2, <3>3, Zenon DEF OpenIsInSlot
  <2>3. CASE ~Refused(at[c])
    <3>1. /\ conn' = [conn EXCEPT ![at[c]] = c] /\ reader' = reader \cup {c}
          /\ sock' = [x \in Conn |-> IF x = c THEN "open"
                                     ELSE IF x = conn[at[c]] THEN "closed" ELSE sock[x]]
          /\ UNCHANGED <<closer, at, call>>
      BY <1>4, <2>3, Zenon DEF Accept, callVars
    <3>2. ASSUME NEW x \in Conn, sock'[x] = "open"
          PROVE  conn'[at'[x]] = x \/ closer'[x] # None
      <4>1. CASE x = c
        BY <2>1, <3>1, <4>1, Zenon
      <4>2. CASE x # c
        <5>1. sock[x] = "open" /\ x # conn[at[c]]
          BY <3>1, <3>2, <4>2, Zenon
        <5>. QED  BY <2>1, <3>1, <5>1, Zenon DEF OpenIsInSlot
      <4>. QED  BY <4>1, <4>2, Zenon
    <3>3. SlotType'
      BY <2>1, <3>1, <1>4, Zenon DEF Accept
    <3>. QED  BY <3>2, <3>3, Zenon DEF OpenIsInSlot
  <2>. QED  BY <2>2, <2>3, Zenon
<1>5. ASSUME NEW c \in Conn, ReaderEnds(c)
      PROVE  SlotInv'
  BY <1>5, DropKeepsSlots, Zenon DEF ReaderEnds, callVars, Goroutine
<1>6. ASSUME NEW c \in Conn, Beat(c)
      PROVE  SlotInv'
  BY <1>6, DropKeepsSlots, Zenon DEF Beat, callVars, Goroutine
<1>7. ASSUME NEW c \in Conn, Arrive(c, Route)
      PROVE  SlotInv'
  <2>1. PICK d \in Dev : at' = [at EXCEPT ![c] = d]
    BY <1>7, Zenon DEF Arrive
  <2>2. sock' = [sock EXCEPT ![c] = "arrived"] /\ UNCHANGED <<conn, closer, reader, call>>
    BY <1>7, Zenon DEF Arrive, callVars
  <2>3. \A x \in Conn : sock'[x] = "open" => sock[x] = "open" /\ at'[x] = at[x]
    BY <2>1, <2>2, Zenon
  <2>4. OpenIsInSlot'
    BY <2>2, <2>3, Zenon DEF OpenIsInSlot
  <2>5. /\ at' \in [Conn -> Dev \cup {None}]
        /\ \A x \in Conn : sock'[x] \in {"arrived", "open"} => at'[x] \in Dev
    BY <2>1, <2>2, Zenon
  <2>. QED  BY <2>2, <2>4, <2>5, Zenon
<1>8. ASSUME NEW k \in Call, Send(k)
      PROVE  SlotInv'
  <2>1. call[k].conn \in Conn
    BY <1>8, Zenon DEF Send
  <2>2. /\ conn' \in [Dev -> Conn \cup {None}]
        /\ closer' \in [Conn -> Seat \cup Goroutine \cup {None}]
        /\ OpenIsInSlot'
    BY <1>8, <2>1, DropKeepsSlots, Zenon DEF Send, Goroutine, OpenIsInSlot
  <2>3. \E p \in {"down", "over"} : Goto(k, p)
    BY <1>8, Zenon DEF Send
  <2>4. /\ call' \in [Call -> [stage : {"none", "sending", "down", "plugin", "over"},
                               conn : Conn \cup {None}]]
        /\ \A j \in Call : call'[j].stage = "sending" => call'[j].conn \in Conn
    BY <2>3 DEF Goto
  <2>. QED  BY <1>8, <2>2, <2>4, Zenon DEF Send
<1>9. ASSUME NEW k \in Call, UpMessage(k) \/ Replies(k)
      PROVE  SlotInv'
  <2>1. UNCHANGED slotVars /\ \E p \in {"plugin", "over"} : Goto(k, p)
    BY <1>9, Zenon DEF UpMessage, Replies, socketVars, slotVars
  <2>2. /\ call' \in [Call -> [stage : {"none", "sending", "down", "plugin", "over"},
                               conn : Conn \cup {None}]]
        /\ \A j \in Call : call'[j].stage = "sending" => call'[j].conn \in Conn
    BY <2>1 DEF Goto
  <2>. QED  BY <2>1, <2>2, Zenon DEF slotVars, OpenIsInSlot
<1>10. CASE UNCHANGED <<slotVars, call>>
  BY <1>10, Zenon DEF slotVars, OpenIsInSlot
<1>11. ASSUME NEW c \in Conn, DropConn(c, "reader"), UNCHANGED <<sock, at, reader, call>>
      PROVE  SlotInv'
  BY <1>11, DropKeepsSlots, Zenon DEF Goroutine
<1>12. ASSUME NEW c \in Conn, CloseConn(c)
      PROVE  SlotInv'
  BY <1>12, Zenon DEF CloseConn, Close, callVars, OpenIsInSlot
<1>. QED  BY <1>1, <1>2, <1>3, <1>4, <1>5, <1>6, <1>7, <1>8, <1>9, <1>10, <1>11, <1>12, SlotSteps, Zenon
             DEF RegistryInv

-----------------------------------------------------------------------------
(* The bridge's slot *)

\* closePair, new connections and a signal keep an open plugin the current one.
LEMMA PlugStep ==
    ASSUME [Next]_vars, PlugInv
    PROVE  PlugInv'
<1> USE NoneAssumption DEF PlugInv, PluginIsCurrent
<1>1. CASE UNCHANGED <<plug, current>>
  BY <1>1, Zenon
<1>2. ASSUME NEW c \in Conn, Connection(c)
      PROVE  PlugInv'
  BY <1>2, Zenon DEF Connection
<1>3. ASSUME NEW c \in Conn, NEW p \in {"none", "closing", "closed"}, ClosePair(c, p)
      PROVE  PlugInv'
  BY <1>3, Zenon DEF ClosePair, InSlot
<1>4. ASSUME NEW c \in Conn, PluginClosed(c) \/ UpClosed(c) \/ UpBreaks(c)
      PROVE  PlugInv'
  <2>1. CASE PluginClosed(c)
    BY <1>3, <2>1, Zenon DEF PluginClosed
  <2>2. CASE UpClosed(c) \/ UpBreaks(c)
    BY <1>3, <2>2, Zenon DEF UpClosed, UpBreaks
  <2>. QED  BY <1>4, <2>1, <2>2, Zenon
<1>5. ASSUME NEW c \in Conn, PluginLeaves(c)
      PROVE  PlugInv'
  BY <1>5, Zenon DEF PluginLeaves
<1>6. CASE Signal
  BY <1>6, Zenon DEF Signal
<1>7. CASE UNCHANGED vars
  BY <1>1, <1>7, Zenon DEF vars, bridgeVars
<1>8. CASE DeviceStep \/ SeatStep
  BY <1>1, <1>8, Zenon DEF DeviceStep, SeatStep, Quiet, ReadFrame, bridgeVars
<1>9. CASE BridgeStep
  BY <1>1, <1>4, <1>9, Zenon DEF BridgeStep, UpArrives, UpOpens, PluginMessage, UpMessage, bridgeVars
<1>10. CASE \E k \in Call : Replies(k)
  BY <1>1, <1>10, Zenon DEF Replies
<1>. QED  BY <1>2, <1>4, <1>5, <1>6, <1>7, <1>8, <1>9, <1>10, Zenon DEF Next, Code, World

-----------------------------------------------------------------------------
\* The three invariants hold of every behaviour, together.
THEOREM PluginInvariants == Spec => [](RegistryInv /\ SlotInv /\ PlugInv)
<1>1. Init => RegistryInv /\ SlotInv /\ PlugInv
  <2> SUFFICES ASSUME Init
               PROVE  RegistryInv /\ SlotInv /\ PlugInv
    BY Zenon
  <2> USE NoneAssumption DEF Init, DeviceInit, NoEntry, NoHandle
  <2>1. RegistryInv
    BY Zenon DEF RegistryInv, RegistryType, EntryIsHome, OneMoves, StoppingIsOut
  <2>2. SlotInv
    BY Zenon DEF SlotInv, SlotType, OpenIsInSlot
  <2>3. PlugInv
    BY Zenon DEF PlugInv, PluginIsCurrent
  <2>. QED  BY <2>1, <2>2, <2>3, Zenon
<1>2. RegistryInv /\ SlotInv /\ PlugInv /\ [Next]_vars => (RegistryInv /\ SlotInv /\ PlugInv)'
  BY RegistryStep, SlotStep, PlugStep, Zenon
<1>. QED  BY <1>1, <1>2, PTL DEF Spec

\* shared.go: however many seats attach, move the endpoint and let go, the
\* registry hands out the device that listens at the address, never one that is
\* still on the move or stopped.
THEOREM RegistryAlwaysTrue == Spec => []RegistryIsTrue
<1>1. RegistryInv => RegistryIsTrue
  BY FreeIsSettled, Zenon DEF RegistryIsTrue
<1>. QED  BY <1>1, PluginInvariants, PTL

\* No socket is left behind: an open one of a device is in the slot, or the
\* goroutine that took it out is about to close it, whatever accepts, reads,
\* beats, moves and stops meanwhile; the open plugin of the bridge is the current
\* one (closePair).
THEOREM OneAlwaysLive == Spec => []OneLive
<1>1. SlotInv => OpenIsInSlot
  BY Zenon DEF SlotInv
<1>2. PlugInv => PluginIsCurrent
  BY Zenon DEF PlugInv
<1>3. SlotInv /\ PlugInv => OneLive
  BY <1>1, <1>2, Zenon DEF OneLive
<1>. QED  BY <1>3, PluginInvariants, PTL

-----------------------------------------------------------------------------
(* The device and the bridge implement the call contract: a call is answered *)
(* at most once, by its plugin's result or by the near side                  *)

\* What may be on the way from a plugin: its own notes, and results it gave.
Carried == Note \cup {k \in Call : settled[k] # None}

CallType ==
    /\ inflight \in [Dev -> SUBSET Call]
    /\ settled \in [Call -> Verdict \cup {None}]
    /\ answer \in [Call -> Verdict \cup Local \cup {None}]

\* A call in flight is in flight in one device and has no answer; a call the
\* plugin has not dealt with is not settled; a call nobody made has neither.
InFlightIsOpen ==
    /\ \A d \in Dev : \A k \in inflight[d] : answer[k] = None /\ call[k].stage # "none"
    /\ \A d, e \in Dev : \A k \in inflight[d] : k \in inflight[e] => d = e
    /\ \A k \in Call : call[k].stage # "over" => settled[k] = None
    /\ \A k \in Call : call[k].stage = "none" => answer[k] = None

\* No result is on the way that no plugin gave.
FramesAreReal ==
    /\ wire \in [Conn -> Seq(Carried)]
    /\ backlog \in [Conn -> Seq(Carried)]
    /\ sent \in [Conn -> Seq(Carried)]

CallInv == CallType /\ InFlightIsOpen /\ FramesAreReal

\* The steps that move a call or an answer.
LEMMA CallSteps ==
    ASSUME [Next]_vars, RegistryType
    PROVE  \/ \E s \in Seat, k \in Call : Begin(s, k) \/ Sweep(s, k)
           \/ \E k \in Call : Send(k) \/ UpMessage(k) \/ Replies(k)
           \/ \E c \in Conn : ReadFrame(c)
           \/ UNCHANGED <<inflight, call, settled, answer>>
<1> USE DEF callVars
<1>1. CASE UNCHANGED vars
  BY <1>1, Zenon DEF vars, deviceVars
<1>2. CASE DeviceStep
  BY <1>2, Zenon DEF DeviceStep, Stop, Shutdown, Joined, Rebound, CloseConn, Accept, ReaderEnds,
                     Beat, Late
<1>3. CASE BridgeStep
  BY <1>3, ZenonT(30) DEF BridgeStep, UpArrives, Arrive, UpOpens, PluginMessage, PluginClosed, UpClosed, ClosePair
<1>4. CASE SeatStep
  <2>1. scene.seats \subseteq Seat /\ scene.addrs \subseteq Addr /\ scene.calls \subseteq Call
    BY SceneAssumption, Zenon DEF RegistryType
  <2>. QED  BY <1>4, <2>1, Zenon DEF SeatStep, AttachShared, AttachNew, Release, Rebind
<1>5. CASE \E c \in Conn : Connection(c) \/ PluginLeaves(c) \/ UpBreaks(c)
  BY <1>5, Zenon DEF Connection, PluginLeaves, UpBreaks, ClosePair, deviceVars
<1>6. CASE (\E k \in Call : Replies(k)) \/ Signal
  BY <1>6, Zenon DEF Signal
<1>. QED  BY <1>1, <1>2, <1>3, <1>4, <1>5, <1>6, Zenon DEF Next, Code, World

\* A result that is read was given by a plugin, and its device is a device.
LEMMA ReadIsReal ==
    ASSUME SlotType, CallInv, NEW c \in Conn, ReadFrame(c)
    PROVE  /\ at[c] \in Dev
           /\ Head(wire[c]) \in Carried
BY DEF SlotType, CallInv, FramesAreReal, ReadFrame

\* Results that were given stay given.
LEMMA SettledStays ==
    ASSUME [Next]_vars, RegistryType, CallInv
    PROVE  Carried \subseteq Carried'
<1> USE NoneAssumption DEF Carried, CallInv, CallType
<1>1. ASSUME NEW k \in Call, Replies(k)
      PROVE  Carried \subseteq Carried'
  BY <1>1, Zenon DEF Replies
<1>2. CASE UNCHANGED settled
  BY <1>2, Zenon
<1>. QED  BY <1>1, <1>2, CallSteps, Zenon DEF Begin, Sweep, Send, UpMessage, ReadFrame

\* Begin, the plugin's result and the sweep keep what is in flight unanswered.
LEMMA CallStep ==
    ASSUME [Next]_vars, RegistryInv, SlotInv, CallInv
    PROVE  (CallType /\ InFlightIsOpen)'
<1> USE NoneAssumption DEF CallInv, CallType, InFlightIsOpen, SlotInv, SlotType, Local
<1>1. ASSUME NEW s \in Seat, NEW k \in Call, Begin(s, k)
      PROVE  (CallType /\ InFlightIsOpen)'
  <2>1. handle[s].dev \in Dev
    BY <1>1, Zenon DEF Begin, Attached, RegistryInv, RegistryType
  <2>2. \A d \in Dev : k \notin inflight[d]
    BY <1>1, Zenon DEF Begin
  <2>3. CASE conn[handle[s].dev] = None
    <3>1. /\ answer' = [answer EXCEPT ![k] = "device_offline"]
          /\ call' = [call EXCEPT ![k] = [stage |-> "over", conn |-> call[k].conn]]
          /\ UNCHANGED <<inflight, settled>>
      BY <1>1, <2>3, Zenon DEF Begin, Goto
    <3>2. CallType'
      BY <3>1, Zenon
    <3>3. InFlightIsOpen'
      BY <2>2, <3>1
    <3>. QED  BY <3>2, <3>3, Zenon
  <2>4. CASE conn[handle[s].dev] # None
    <3>1. /\ inflight' = [inflight EXCEPT ![handle[s].dev] = @ \cup {k}]
          /\ call' = [call EXCEPT ![k] = [stage |-> "sending", conn |-> conn[handle[s].dev]]]
          /\ UNCHANGED <<answer, settled>>
          /\ call[k].stage = "none"
      BY <1>1, <2>4, Zenon DEF Begin
    <3>2. CallType'
      BY <2>1, <3>1, Zenon
    <3>3. /\ \A d \in Dev : \A j \in inflight'[d] : answer'[j] = None /\ call'[j].stage # "none"
          /\ \A j \in Call : call'[j].stage # "over" => settled'[j] = None
          /\ \A j \in Call : call'[j].stage = "none" => answer'[j] = None
      BY <2>1, <3>1
    <3>4. \A d, e \in Dev : \A j \in inflight'[d] : j \in inflight'[e] => d = e
      BY <2>1, <2>2, <3>1
    <3>. QED  BY <3>2, <3>3, <3>4, Zenon
  <2>. QED  BY <2>3, <2>4, Zenon
<1>2. ASSUME NEW s \in Seat, NEW k \in Call, Sweep(s, k)
      PROVE  (CallType /\ InFlightIsOpen)'
  <2>1. handle[s].dev \in Dev
    BY <1>2, Zenon DEF Sweep, Due, Attached, RegistryInv, RegistryType
  <2>2. /\ k \in inflight[handle[s].dev]
        /\ inflight' = [inflight EXCEPT ![handle[s].dev] = @ \ {k}]
        /\ answer' = [answer EXCEPT ![k] = "timeout"]
        /\ UNCHANGED <<call, settled>>
    BY <1>2, Zenon DEF Sweep, Due
  <2>3. CallType'
    BY <2>1, <2>2, Zenon
  <2>4. \A d \in Dev : inflight'[d] \subseteq inflight[d] /\ k \notin inflight'[d]
    BY <2>1, <2>2, Zenon
  <2>5. \A j \in Call : j # k => answer'[j] = answer[j]
    BY <2>2, Zenon
  <2>6. \A d \in Dev : inflight[d] \subseteq Call
    BY Zenon
  <2>7. call[k].stage # "none"
    BY <2>1, <2>2, Zenon
  <2>. QED  BY <2>2, <2>3, <2>4, <2>5, <2>6, <2>7
<1>3. ASSUME NEW k \in Call, Send(k) \/ UpMessage(k)
      PROVE  (CallType /\ InFlightIsOpen)'
  <2>1. /\ \E p \in {"down", "plugin", "over"} : Goto(k, p)
        /\ call[k].stage \notin {"none", "over"}
        /\ UNCHANGED <<inflight, settled, answer>>
    BY <1>3, Zenon DEF Send, UpMessage
  <2>. QED  BY <2>1 DEF Goto
<1>4. ASSUME NEW k \in Call, Replies(k)
      PROVE  (CallType /\ InFlightIsOpen)'
  BY <1>4 DEF Replies, Goto
<1>5. ASSUME NEW c \in Conn, ReadFrame(c)
      PROVE  (CallType /\ InFlightIsOpen)'
  <2> DEFINE f == Head(wire[c])
  <2>1. at[c] \in Dev /\ f \in Carried
    BY <1>5, ReadIsReal, Zenon
  <2>2. CASE f \in Call /\ f \in inflight[at[c]]
    <3>1. settled[f] # None
      BY <2>1, <2>2, SceneAssumption, Zenon DEF Carried
    <3>2. /\ inflight' = [inflight EXCEPT ![at[c]] = @ \ {f}]
          /\ answer' = [answer EXCEPT ![f] = settled[f]]
          /\ UNCHANGED <<call, settled>>
      BY <1>5, <2>2, Zenon DEF ReadFrame, Result, Claimed
    <3>3. call[f].stage # "none"
      BY <2>1, <2>2, Zenon
    <3>. QED  BY <2>1, <2>2, <3>1, <3>2, <3>3
  <2>3. CASE ~(f \in Call /\ f \in inflight[at[c]])
    BY <1>5, <2>3, Zenon DEF ReadFrame, Result, Claimed
  <2>. QED  BY <2>2, <2>3, Zenon
<1>6. CASE UNCHANGED <<inflight, call, settled, answer>>
  BY <1>6, Zenon
<1>. QED  BY <1>1, <1>2, <1>3, <1>4, <1>5, <1>6, CallSteps, Zenon DEF RegistryInv

\* A close empties a queue of frames; it adds none.
LEMMA EmptiedIsReal ==
    ASSUME NEW S, NEW T, S \subseteq T, NEW q \in [Conn -> Seq(S)]
    PROVE  /\ q \in [Conn -> Seq(T)]
           /\ \A cs : [c \in Conn |-> IF c \in cs THEN <<>> ELSE q[c]] \in [Conn -> Seq(T)]
           /\ \A c \in Conn : [q EXCEPT ![c] = <<>>] \in [Conn -> Seq(T)]
           /\ [c \in Conn |-> <<>>] \in [Conn -> Seq(T)]
<1>1. \A c \in Conn : q[c] \in Seq(T)
  OBVIOUS
<1>2. <<>> \in Seq(T)
  OBVIOUS
<1>. QED  BY <1>1, <1>2, Zenon

\* The steps that put a frame in a queue, and what the others do to the queues.
LEMMA FrameSteps ==
    ASSUME [Next]_vars
    PROVE  \/ \E c \in Conn : UpOpens(c) \/ PluginMessage(c) \/ ReadFrame(c) \/ Connection(c)
           \/ \E k \in Call : Replies(k)
           \/ /\ \/ wire' = wire
                 \/ \E cs : wire' = [c \in Conn |-> IF c \in cs THEN <<>> ELSE wire[c]]
              /\ UNCHANGED <<backlog, sent>>
           \/ /\ wire' = wire
              /\ \E c \in Conn : backlog' = [backlog EXCEPT ![c] = <<>>]
              /\ sent' = sent \/ \E c \in Conn : sent' = [sent EXCEPT ![c] = <<>>]
           \/ wire' = wire /\ backlog' = [c \in Conn |-> <<>>] /\ sent' = [c \in Conn |-> <<>>]
<1> USE DEF socketVars
<1>1. CASE UNCHANGED vars
  BY <1>1, Zenon DEF vars, deviceVars, bridgeVars
<1>2. ASSUME NEW c \in Conn, Accept(c) \/ CloseConn(c), Quiet
      PROVE  /\ \E cs : wire' = [x \in Conn |-> IF x \in cs THEN <<>> ELSE wire[x]]
             /\ UNCHANGED <<backlog, sent>>
  <2>1. CASE Accept(c)
    <3>1. \/ wire' = [x \in Conn |-> IF x \in {c} THEN <<>> ELSE wire[x]]
          \/ wire' = [x \in Conn |-> IF x \in {conn[at[c]]} THEN <<>> ELSE wire[x]]
      BY <2>1, Zenon DEF Accept, Close
    <3>. QED  BY <1>2, <3>1, Zenon DEF Quiet, bridgeVars
  <2>2. CASE CloseConn(c)
    BY <1>2, <2>2, Zenon DEF CloseConn, Close, Quiet, bridgeVars
  <2>. QED  BY <1>2, <2>1, <2>2, Zenon
<1>5. CASE DeviceStep
  BY <1>2, <1>5, Zenon DEF DeviceStep, Stop, Shutdown, Joined, Rebound, ReaderEnds, Beat, Send, Late, Sweep,
              Quiet, bridgeVars
<1>6. CASE BridgeStep
  BY <1>6, Zenon DEF BridgeStep, UpArrives, Arrive, PluginClosed, UpClosed, ClosePair, UpMessage, bridgeVars
<1>7. CASE SeatStep
  BY <1>7 DEF SeatStep, AttachShared, AttachNew, Release, Rebind, Begin, Quiet, bridgeVars
<1>8. CASE \E c \in Conn : Connection(c) \/ PluginLeaves(c) \/ UpBreaks(c)
  BY <1>8, Zenon DEF PluginLeaves, UpBreaks, ClosePair, deviceVars
<1>9. CASE (\E k \in Call : Replies(k)) \/ Signal
  BY <1>9, Zenon DEF Signal
<1>. QED  BY <1>1, <1>5, <1>6, <1>7, <1>8, <1>9, Zenon DEF Next, Code, World

\* The bridge and the read loop carry only what plugins sent.
LEMMA FrameStep ==
    ASSUME [Next]_vars, RegistryInv, SlotInv, CallInv
    PROVE  FramesAreReal'
<1> DEFINE S == Carried
           T == Carried'
<1>1. S \subseteq T /\ Note \subseteq T
  BY SettledStays, Zenon DEF RegistryInv, Carried
<1>2. wire \in [Conn -> Seq(S)] /\ backlog \in [Conn -> Seq(S)] /\ sent \in [Conn -> Seq(S)]
  BY Zenon DEF CallInv, FramesAreReal
<1>3. wire \in [Conn -> Seq(T)] /\ backlog \in [Conn -> Seq(T)] /\ sent \in [Conn -> Seq(T)]
  BY <1>1, <1>2, EmptiedIsReal, Zenon
<1>4. SUFFICES wire' \in [Conn -> Seq(T)] /\ backlog' \in [Conn -> Seq(T)] /\ sent' \in [Conn -> Seq(T)]
  BY Zenon DEF FramesAreReal
<1>5. ASSUME NEW k \in Call, Replies(k)
      PROVE  wire' \in [Conn -> Seq(T)] /\ backlog' \in [Conn -> Seq(T)] /\ sent' \in [Conn -> Seq(T)]
  <2>1. k \in T
    BY <1>5, NoneAssumption, Zenon DEF Replies, Carried, CallInv, CallType
  <2> HIDE DEF T
  <2>2. sent' = [sent EXCEPT ![call[k].conn] = Append(@, k)] /\ UNCHANGED <<wire, backlog>>
    BY <1>5, Zenon DEF Replies, socketVars
  <2>3. \A c \in Conn : Append(sent[c], k) \in Seq(T)
    BY <1>3, <2>1
  <2>. QED  BY <1>3, <2>2, <2>3, Zenon
<1> SUFFICES ASSUME ~\E k \in Call : Replies(k)
             PROVE  wire' \in [Conn -> Seq(T)] /\ backlog' \in [Conn -> Seq(T)]
                    /\ sent' \in [Conn -> Seq(T)]
  BY <1>5, Zenon
<1> HIDE DEF S, T
<1>6. ASSUME NEW c \in Conn, UpOpens(c)
      PROVE  wire' \in [Conn -> Seq(T)] /\ backlog' \in [Conn -> Seq(T)] /\ sent' \in [Conn -> Seq(T)]
  <2>1. wire[c] \o backlog[c] \in Seq(T) /\ <<>> \in Seq(T)
    BY <1>3
  <2>. QED  BY <1>3, <1>6, <2>1, Zenon DEF UpOpens, Flush
<1>7. ASSUME NEW c \in Conn, PluginMessage(c)
      PROVE  wire' \in [Conn -> Seq(T)] /\ backlog' \in [Conn -> Seq(T)] /\ sent' \in [Conn -> Seq(T)]
  <2>1. sent[c] \in Seq(T) /\ sent[c] # <<>>
    BY <1>3, <1>7, Zenon DEF PluginMessage
  <2>2. Head(sent[c]) \in T /\ Tail(sent[c]) \in Seq(T)
    BY <2>1
  <2>3. Append(backlog[c], Head(sent[c])) \in Seq(T) /\ Append(wire[c], Head(sent[c])) \in Seq(T)
    BY <1>3, <2>2
  <2>. QED  BY <1>3, <1>7, <2>2, <2>3, Zenon DEF PluginMessage, Keep
<1>8. ASSUME NEW c \in Conn, ReadFrame(c)
      PROVE  wire' \in [Conn -> Seq(T)] /\ backlog' \in [Conn -> Seq(T)] /\ sent' \in [Conn -> Seq(T)]
  <2>0. wire[c] \in Seq(T) /\ wire[c] # <<>>
    BY <1>3, <1>8, Zenon DEF ReadFrame
  <2>1. Tail(wire[c]) \in Seq(T)
    BY <2>0
  <2>2. wire' = [wire EXCEPT ![c] = Tail(@)] /\ UNCHANGED <<backlog, sent>>
    BY <1>8, Zenon DEF ReadFrame
  <2>. QED  BY <1>3, <2>1, <2>2, Zenon
<1>9. ASSUME NEW c \in Conn, Connection(c)
      PROVE  wire' \in [Conn -> Seq(T)] /\ backlog' \in [Conn -> Seq(T)] /\ sent' \in [Conn -> Seq(T)]
  <2>1. scene.says \in Seq(Note)
    BY SceneAssumption, Zenon DEF RegistryInv, RegistryType
  <2>2. scene.says \in Seq(T)
    BY <1>1, <2>1
  <2>. QED  BY <1>3, <1>9, <2>2, Zenon DEF Connection, deviceVars, socketVars
<1>10. CASE /\ \/ wire' = wire
               \/ \E cs : wire' = [c \in Conn |-> IF c \in cs THEN <<>> ELSE wire[c]]
            /\ UNCHANGED <<backlog, sent>>
  <2>1. \A cs : [c \in Conn |-> IF c \in cs THEN <<>> ELSE wire[c]] \in [Conn -> Seq(T)]
    BY <1>1, <1>2, EmptiedIsReal
  <2>. QED  BY <1>3, <1>10, <2>1, Zenon
<1>11. CASE /\ wire' = wire
            /\ \E c \in Conn : backlog' = [backlog EXCEPT ![c] = <<>>]
            /\ sent' = sent \/ \E c \in Conn : sent' = [sent EXCEPT ![c] = <<>>]
  <2>1. \A c \in Conn : [backlog EXCEPT ![c] = <<>>] \in [Conn -> Seq(T)]
    BY <1>1, <1>2, EmptiedIsReal, Zenon
  <2>2. \A c \in Conn : [sent EXCEPT ![c] = <<>>] \in [Conn -> Seq(T)]
    BY <1>1, <1>2, EmptiedIsReal, Zenon
  <2>. QED  BY <1>3, <1>11, <2>1, <2>2
<1>12. CASE wire' = wire /\ backlog' = [c \in Conn |-> <<>>] /\ sent' = [c \in Conn |-> <<>>]
  BY <1>1, <1>2, <1>3, <1>12, EmptiedIsReal, Zenon
<1>. QED  BY <1>6, <1>7, <1>8, <1>9, <1>10, <1>11, <1>12, FrameSteps, Zenon

\* The call invariant holds of every behaviour.
THEOREM CallInvariant == Spec => []CallInv
<1>1. Init => CallInv
  BY NoneAssumption DEF Init, DeviceInit, CallInv, CallType, InFlightIsOpen, FramesAreReal, Carried
<1>2. RegistryInv /\ SlotInv /\ CallInv /\ [Next]_vars => CallInv'
  BY CallStep, FrameStep, Zenon DEF CallInv
<1>. QED  BY <1>1, <1>2, PluginInvariants, PTL DEF Spec

-----------------------------------------------------------------------------
(* The refinement: settled and answer are the contract's own *)

\* Every step is a step of the contract, or none of its business.
LEMMA StepKeepsContract ==
    ASSUME [Next]_vars, RegistryInv, SlotInv, CallInv
    PROVE  [Contract!Next]_(Contract!contractVars)
<1> USE NoneAssumption DEF CallInv, CallType, InFlightIsOpen
<1> SUFFICES Contract!Next \/ UNCHANGED <<settled, answer>>
  BY Zenon DEF Contract!contractVars
<1>1. ASSUME NEW s \in Seat, NEW k \in Call, Begin(s, k)
      PROVE  Contract!Next \/ UNCHANGED <<settled, answer>>
  BY <1>1, Zenon DEF Begin, Contract!Next, Contract!Answer, Local
<1>2. ASSUME NEW s \in Seat, NEW k \in Call, Sweep(s, k)
      PROVE  Contract!Next
  <2>1. answer[k] = None
    BY <1>2, Zenon DEF Sweep, Due, Attached, RegistryInv, RegistryType
  <2>. QED  BY <1>2, <2>1, Zenon DEF Sweep, Contract!Next, Contract!Answer, Local
<1>3. ASSUME NEW k \in Call, Replies(k)
      PROVE  Contract!Next
  <2>1. settled[k] = None
    BY <1>3, Zenon DEF Replies
  <2>. QED  BY <1>3, <2>1, Zenon DEF Replies, Contract!Next, Contract!Settle
<1>4. ASSUME NEW c \in Conn, ReadFrame(c)
      PROVE  Contract!Next \/ UNCHANGED <<settled, answer>>
  <2> DEFINE f == Head(wire[c])
  <2>1. at[c] \in Dev /\ f \in Carried
    BY <1>4, ReadIsReal, Zenon DEF SlotInv
  <2>2. CASE f \in Call /\ f \in inflight[at[c]]
    <3>1. settled[f] # None
      BY <2>1, <2>2, SceneAssumption, Zenon DEF Carried
    <3>2. answer' = [answer EXCEPT ![f] = settled[f]] /\ UNCHANGED settled
      BY <1>4, <2>2, Zenon DEF ReadFrame, Result, Claimed
    <3>3. answer[f] = None
      BY <2>1, <2>2, Zenon
    <3> HIDE DEF f
    <3>. QED  BY <2>2, <3>1, <3>2, <3>3, Zenon DEF Contract!Next, Contract!Answer
  <2>3. CASE ~(f \in Call /\ f \in inflight[at[c]])
    BY <1>4, <2>3, Zenon DEF ReadFrame, Result, Claimed
  <2>. QED  BY <2>2, <2>3, Zenon
<1>. QED  BY <1>1, <1>2, <1>3, <1>4, CallSteps, Zenon DEF Send, UpMessage, RegistryInv

\* device.go, handleInbound and Sweep: the continuation of a call is called at
\* most once, with its plugin's result or a local outcome, for any number of
\* seats, plugins, devices and calls.
THEOREM PluginKeepsContract == Spec => CallsKeepContract
<1>1. Init => Contract!Init
  BY Zenon DEF Init, DeviceInit, Contract!Init
<1>2. RegistryInv /\ SlotInv /\ CallInv /\ [Next]_vars => [Contract!Next]_(Contract!contractVars)
  BY StepKeepsContract, Zenon
<1>. QED  BY <1>1, <1>2, PluginInvariants, CallInvariant, PTL DEF Spec, CallsKeepContract, Contract!Spec

-----------------------------------------------------------------------------
(* The order of a plugin's frames: its hello goes before everything else it  *)
(* sends, through the plugin's socket, the backlog and the upstream socket   *)

\* A hello is the first of its queue, and nothing is in the queues before it.
HelloLeads(w, b, s) ==
    /\ \A i \in 1 .. Len(w) : w[i] = "hello" => i = 1
    /\ \A i \in 1 .. Len(b) : b[i] = "hello" => i = 1 /\ w = <<>>
    /\ \A i \in 1 .. Len(s) : s[i] = "hello" => i = 1 /\ w = <<>> /\ b = <<>>

\* Only a socket that connects has a backlog, and a pair that is not there has
\* sent nothing up.
WayInv ==
    /\ up \in [Conn -> {"none", "connecting", "open", "closed"}]
    /\ \A c \in Conn : up[c] # "connecting" => backlog[c] = <<>>
    /\ \A c \in Conn : plug[c] = "none" => wire[c] = <<>> /\ up[c] = "none"

OrderInv ==
    /\ WayInv
    /\ \A c \in Conn : HelloLeads(wire[c], backlog[c], sent[c])

\* What the bridge, the read loop and the plugin may do to the queues.
LEMMA HelloStaysFirst ==
    ASSUME NEW S, NEW w \in Seq(S), NEW b \in Seq(S), NEW s \in Seq(S), HelloLeads(w, b, s)
    PROVE  /\ HelloLeads(<<>>, b, s) /\ HelloLeads(w, <<>>, s) /\ HelloLeads(w, b, <<>>)
           /\ HelloLeads(w \o b, <<>>, s)
           /\ w # <<>> => HelloLeads(Tail(w), b, s)
           /\ s # <<>> => HelloLeads(w, b, Tail(s)) /\ HelloLeads(w, Append(b, Head(s)), Tail(s))
           /\ s # <<>> /\ b = <<>> => HelloLeads(Append(w, Head(s)), b, Tail(s))
           /\ \A k \in S : k # "hello" => HelloLeads(w, b, Append(s, k))
<1>1. HelloLeads(<<>>, b, s) /\ HelloLeads(w, <<>>, s) /\ HelloLeads(w, b, <<>>)
  BY DEF HelloLeads
<1>2. HelloLeads(w \o b, <<>>, s)
  <2>1. ASSUME NEW i \in 1 .. Len(w \o b), (w \o b)[i] = "hello"
        PROVE  i = 1
    <3>1. CASE i \in 1 .. Len(w)
      BY <2>1, <3>1 DEF HelloLeads
    <3>2. CASE i \notin 1 .. Len(w)
      <4>1. i - Len(w) \in 1 .. Len(b) /\ (w \o b)[i] = b[i - Len(w)]
        BY <2>1, <3>2
      <4>2. i - Len(w) = 1 /\ w = <<>>
        BY <2>1, <4>1 DEF HelloLeads
      <4>. QED  BY <4>2
    <3>. QED  BY <3>1, <3>2
  <2>2. ASSUME NEW i \in 1 .. Len(s), s[i] = "hello"
        PROVE  i = 1 /\ w \o b = <<>>
    BY <2>2 DEF HelloLeads
  <2>. QED  BY <2>1, <2>2 DEF HelloLeads
<1>3. ASSUME w # <<>>
      PROVE  HelloLeads(Tail(w), b, s)
  <2>1. Tail(w) \in Seq(S) /\ Len(Tail(w)) = Len(w) - 1
        /\ \A i \in 1 .. Len(Tail(w)) : Tail(w)[i] = w[i + 1] /\ i + 1 \in 1 .. Len(w)
    BY <1>3
  <2>. QED  BY <1>3, <2>1 DEF HelloLeads
<1>4. ASSUME s # <<>>
      PROVE  /\ Tail(s) \in Seq(S) /\ Head(s) = s[1] /\ 1 \in 1 .. Len(s)
             /\ \A i \in 1 .. Len(Tail(s)) : Tail(s)[i] = s[i + 1] /\ i + 1 \in 1 .. Len(s) /\ i + 1 # 1
             /\ \A i \in 1 .. Len(Tail(s)) : Tail(s)[i] # "hello"
  BY <1>4 DEF HelloLeads
<1>5. ASSUME s # <<>>
      PROVE  HelloLeads(w, b, Tail(s)) /\ HelloLeads(w, Append(b, Head(s)), Tail(s))
  <2>1. HelloLeads(w, b, Tail(s))
    BY <1>4, <1>5, Zenon DEF HelloLeads
  <2>2. ASSUME NEW i \in 1 .. Len(Append(b, s[1])), Append(b, s[1])[i] = "hello"
        PROVE  i = 1 /\ w = <<>>
    BY <1>4, <1>5, <2>2 DEF HelloLeads
  <2>. QED  BY <1>4, <1>5, <2>1, <2>2, Zenon DEF HelloLeads
<1>6. ASSUME s # <<>>, b = <<>>
      PROVE  HelloLeads(Append(w, Head(s)), b, Tail(s))
  <2>1. ASSUME NEW i \in 1 .. Len(Append(w, s[1])), Append(w, s[1])[i] = "hello"
        PROVE  i = 1
    BY <1>4, <1>6, <2>1 DEF HelloLeads
  <2>2. \A i \in 1 .. Len(b) : FALSE
    BY <1>6
  <2>. QED  BY <1>4, <1>6, <2>1, <2>2, Zenon DEF HelloLeads
<1>7. ASSUME NEW k \in S, k # "hello"
      PROVE  HelloLeads(w, b, Append(s, k))
  <2>1. ASSUME NEW i \in 1 .. Len(Append(s, k)), Append(s, k)[i] = "hello"
        PROVE  i \in 1 .. Len(s) /\ s[i] = "hello"
    BY <1>7, <2>1
  <2>. QED  BY <2>1, Zenon DEF HelloLeads
<1>. QED  BY <1>1, <1>2, <1>3, <1>5, <1>6, <1>7, Zenon

\* How the queues of a pair move.
Flows(c) ==
    \/ /\ wire'[c] \in {wire[c], <<>>} /\ backlog'[c] \in {backlog[c], <<>>}
       /\ sent'[c] \in {sent[c], <<>>}
    \/ wire[c] # <<>> /\ wire'[c] = Tail(wire[c]) /\ backlog'[c] = backlog[c] /\ sent'[c] = sent[c]
    \/ /\ up[c] = "connecting"
       /\ wire'[c] = wire[c] \o backlog[c] /\ backlog'[c] = <<>> /\ sent'[c] = sent[c]
    \/ /\ sent[c] # <<>> /\ sent'[c] = Tail(sent[c])
       /\ \/ /\ up[c] = "connecting" /\ wire'[c] = wire[c]
             /\ backlog'[c] = Append(backlog[c], Head(sent[c]))
          \/ /\ up[c] = "open" /\ backlog'[c] = backlog[c]
             /\ wire'[c] = Append(wire[c], Head(sent[c]))
          \/ wire'[c] = wire[c] /\ backlog'[c] = backlog[c]
    \/ /\ \E k \in Call : sent'[c] = Append(sent[c], k)
       /\ wire'[c] = wire[c] /\ backlog'[c] = backlog[c]
    \/ /\ plug[c] = "none" /\ sent'[c] = scene.says
       /\ wire'[c] = wire[c] /\ backlog'[c] = backlog[c]

\* Every step moves the queues of every pair in one of these ways.
LEMMA FlowSteps ==
    ASSUME [Next]_vars, CallInv
    PROVE  \A c \in Conn : Flows(c)
<1>1. /\ wire \in [Conn -> Seq(Carried)] /\ backlog \in [Conn -> Seq(Carried)]
      /\ sent \in [Conn -> Seq(Carried)]
  BY Zenon DEF CallInv, FramesAreReal
<1> SUFFICES ASSUME NEW x \in Conn
             PROVE  Flows(x)
  BY Zenon
<1>2. ASSUME NEW c \in Conn, UpOpens(c)
      PROVE  Flows(x)
  <2>1. /\ up[c] = "connecting" /\ sent' = sent
        /\ wire' = wire \/ wire' = [wire EXCEPT ![c] = wire[c] \o backlog[c]]
        /\ backlog' = [backlog EXCEPT ![c] = <<>>]
    BY <1>2, Zenon DEF UpOpens, Flush
  <2>. QED  BY <1>1, <2>1, Zenon DEF Flows
<1>3. ASSUME NEW c \in Conn, PluginMessage(c)
      PROVE  Flows(x)
  <2>1. CASE x = c
    BY <1>1, <1>3, <2>1, Zenon DEF Flows, PluginMessage, Keep
  <2>2. CASE x # c
    <3>1. wire'[x] = wire[x] /\ backlog'[x] = backlog[x] /\ sent'[x] = sent[x]
      BY <1>1, <1>3, <2>2, Zenon DEF PluginMessage, Keep
    <3>. QED  BY <3>1, Zenon DEF Flows
  <2>. QED  BY <2>1, <2>2, Zenon
<1>4. ASSUME NEW c \in Conn, ReadFrame(c)
      PROVE  Flows(x)
  <2>1. /\ wire[c] # <<>> /\ UNCHANGED <<backlog, sent>>
        /\ wire' = [wire EXCEPT ![c] = Tail(wire[c])]
    BY <1>4, Zenon DEF ReadFrame
  <2>. QED  BY <1>1, <2>1, Zenon DEF Flows
<1>5. ASSUME NEW c \in Conn, Connection(c)
      PROVE  Flows(x)
  <2>1. /\ plug[c] = "none" /\ sent' = [sent EXCEPT ![c] = scene.says]
        /\ UNCHANGED <<wire, backlog>>
    BY <1>5, Zenon DEF Connection, deviceVars, socketVars
  <2>. QED  BY <1>1, <2>1, Zenon DEF Flows
<1>6. ASSUME NEW k \in Call, Replies(k)
      PROVE  Flows(x)
  <2>1. /\ sent' = [sent EXCEPT ![call[k].conn] = Append(@, k)]
        /\ UNCHANGED <<wire, backlog>>
    BY <1>6, Zenon DEF Replies, socketVars
  <2>. QED  BY <1>1, <2>1, Zenon DEF Flows
<1>7. CASE /\ \/ wire' = wire
              \/ \E cs : wire' = [c \in Conn |-> IF c \in cs THEN <<>> ELSE wire[c]]
           /\ UNCHANGED <<backlog, sent>>
  BY <1>7, Zenon DEF Flows
<1>8. CASE /\ wire' = wire
           /\ \E c \in Conn : backlog' = [backlog EXCEPT ![c] = <<>>]
           /\ sent' = sent \/ \E c \in Conn : sent' = [sent EXCEPT ![c] = <<>>]
  <2>1. backlog'[x] \in {backlog[x], <<>>}
    BY <1>1, <1>8, Zenon
  <2>2. sent'[x] \in {sent[x], <<>>}
    BY <1>1, <1>8, Zenon
  <2>. QED  BY <1>8, <2>1, <2>2, Zenon DEF Flows
<1>9. CASE wire' = wire /\ backlog' = [c \in Conn |-> <<>>] /\ sent' = [c \in Conn |-> <<>>]
  BY <1>9, Zenon DEF Flows
<1>. QED  BY <1>2, <1>3, <1>4, <1>5, <1>6, <1>7, <1>8, <1>9, FrameSteps, Zenon

\* How a pair moves: it stays, or it is there and connects or has no backlog.
WayMoves(c) ==
    \/ plug'[c] = plug[c] /\ up'[c] = up[c]
    \/ /\ plug'[c] # "none"
       /\ up'[c] \in {up[c], "connecting"} \/ backlog'[c] = <<>>

\* Every step moves every pair in one of these ways.
LEMMA WaySteps ==
    ASSUME [Next]_vars, PlugInv, CallInv, WayInv
    PROVE  /\ \A c \in Conn : WayMoves(c)
           /\ up' \in [Conn -> {"none", "connecting", "open", "closed"}]
<1>1. /\ plug \in [Conn -> {"none", "open", "closing", "closed"}]
      /\ up \in [Conn -> {"none", "connecting", "open", "closed"}]
      /\ backlog \in [Conn -> Seq(Carried)]
      /\ \A c \in Conn : up[c] # "none" => plug[c] # "none"
  BY Zenon DEF PlugInv, CallInv, FramesAreReal, WayInv
<1> DEFINE Moves == /\ \A c \in Conn : WayMoves(c)
                    /\ up' \in [Conn -> {"none", "connecting", "open", "closed"}]
<1>2. CASE UNCHANGED <<plug, up>>
  BY <1>1, <1>2, Zenon DEF WayMoves
<1>3. ASSUME NEW c \in Conn, Connection(c)
      PROVE  Moves
  <2>1. \A x \in Conn : plug'[x] = plug[x] \/ plug'[x] # "none"
    BY <1>1, <1>3, Zenon DEF Connection
  <2>2. /\ plug'[c] = "open" /\ up' = [up EXCEPT ![c] = "connecting"]
    BY <1>3, Zenon DEF Connection
  <2>. QED  BY <1>1, <2>1, <2>2, Zenon DEF WayMoves
<1>4. ASSUME NEW c \in Conn, UpOpens(c)
      PROVE  Moves
  <2>1. /\ plug' = plug /\ up[c] = "connecting" /\ up' = [up EXCEPT ![c] = "open"]
        /\ backlog' = [backlog EXCEPT ![c] = <<>>]
    BY <1>4, Zenon DEF UpOpens, Flush
  <2>2. plug[c] # "none" /\ backlog'[c] = <<>>
    BY <1>1, <2>1, Zenon
  <2>. QED  BY <1>1, <2>1, <2>2, Zenon DEF WayMoves
<1>5. ASSUME NEW c \in Conn, NEW p \in {"closing", "closed"}, ClosePair(c, p)
      PROVE  Moves
  <2>1. /\ plug' = [plug EXCEPT ![c] = p] /\ up' = [up EXCEPT ![c] = "closed"]
        /\ backlog' = [backlog EXCEPT ![c] = <<>>]
    BY <1>5, Zenon DEF ClosePair, CloseUp
  <2>2. plug'[c] # "none" /\ backlog'[c] = <<>>
    BY <1>1, <2>1, Zenon
  <2>. QED  BY <1>1, <2>1, <2>2, Zenon DEF WayMoves
<1>6. ASSUME NEW c \in Conn, PluginClosed(c) \/ UpClosed(c) \/ UpBreaks(c)
      PROVE  Moves
  <2>1. CASE PluginClosed(c)
    BY <1>5, <2>1, Zenon DEF PluginClosed
  <2>2. CASE UpClosed(c) \/ UpBreaks(c)
    <3>1. up[c] \in {"connecting", "open"}
      BY <2>2, Zenon DEF UpClosed, UpBreaks
    <3>2. PICK p \in {"closing", "closed"} : p = IF plug[c] = "open" THEN "closing" ELSE plug[c]
      BY <1>1, <3>1, Zenon
    <3>. QED  BY <1>5, <2>2, <3>2, Zenon DEF UpClosed, UpBreaks
  <2>. QED  BY <1>6, <2>1, <2>2, Zenon
<1>7. ASSUME NEW c \in Conn, PluginLeaves(c)
      PROVE  Moves
  BY <1>1, <1>7, Zenon DEF PluginLeaves, WayMoves
<1>8. CASE Signal
  BY <1>1, <1>8, Zenon DEF Signal, WayMoves
<1>9. CASE UNCHANGED vars
  BY <1>2, <1>9, Zenon DEF vars, bridgeVars
<1>10. CASE DeviceStep \/ SeatStep
  BY <1>2, <1>10, Zenon DEF DeviceStep, SeatStep, Quiet, ReadFrame, bridgeVars
<1>11. CASE BridgeStep
  BY <1>2, <1>4, <1>6, <1>11, Zenon DEF BridgeStep, UpArrives, PluginMessage, UpMessage, bridgeVars
<1>12. CASE \E k \in Call : Replies(k)
  BY <1>2, <1>12, Zenon DEF Replies
<1>. QED  BY <1>3, <1>6, <1>7, <1>8, <1>9, <1>10, <1>11, <1>12, Zenon DEF Next, Code, World

\* No step lets a hello be overtaken.
LEMMA OrderStep ==
    ASSUME [Next]_vars, RegistryInv, PlugInv, CallInv, OrderInv
    PROVE  OrderInv'
<1>1. /\ \A c \in Conn : Flows(c) /\ WayMoves(c)
      /\ up' \in [Conn -> {"none", "connecting", "open", "closed"}]
  BY FlowSteps, WaySteps, Zenon DEF OrderInv
<1>2. /\ wire \in [Conn -> Seq(Carried)] /\ backlog \in [Conn -> Seq(Carried)]
      /\ sent \in [Conn -> Seq(Carried)]
      /\ \A c \in Conn : up[c] # "connecting" => backlog[c] = <<>>
      /\ \A c \in Conn : plug[c] = "none" => wire[c] = <<>> /\ up[c] = "none"
      /\ \A c \in Conn : HelloLeads(wire[c], backlog[c], sent[c])
  BY Zenon DEF CallInv, FramesAreReal, OrderInv, WayInv
<1>3. ASSUME NEW c \in Conn, up'[c] # "connecting"
      PROVE  backlog'[c] = <<>>
  BY <1>1, <1>2, <1>3, Zenon DEF Flows, WayMoves
<1>4. ASSUME NEW c \in Conn, plug'[c] = "none"
      PROVE  wire'[c] = <<>> /\ up'[c] = "none"
  <2>1. plug[c] = "none" /\ up'[c] = up[c]
    BY <1>1, <1>4, Zenon DEF WayMoves
  <2>2. wire[c] = <<>> /\ up[c] = "none"
    BY <1>2, <2>1, Zenon
  <2>. QED  BY <1>1, <2>1, <2>2, Zenon DEF Flows
<1>5. ASSUME NEW c \in Conn
      PROVE  HelloLeads(wire'[c], backlog'[c], sent'[c])
  <2> DEFINE S == Carried \cup Call
             w == wire[c]
             b == backlog[c]
             s == sent[c]
  <2>1. w \in Seq(S) /\ b \in Seq(S) /\ s \in Seq(S)
    BY <1>2
  <2>2. HelloLeads(w, b, s) /\ Flows(c)
    BY <1>1, <1>2, Zenon
  <2>3. \A k \in Call : k \in S /\ k # "hello"
    BY SceneAssumption, Zenon DEF Note
  <2> HIDE DEF S
  <2>4. /\ HelloLeads(<<>>, b, s) /\ HelloLeads(w, <<>>, s) /\ HelloLeads(w, b, <<>>)
        /\ HelloLeads(w \o b, <<>>, s)
        /\ w # <<>> => HelloLeads(Tail(w), b, s)
        /\ s # <<>> => HelloLeads(w, b, Tail(s)) /\ HelloLeads(w, Append(b, Head(s)), Tail(s))
        /\ s # <<>> /\ b = <<>> => HelloLeads(Append(w, Head(s)), b, Tail(s))
        /\ \A k \in Call : HelloLeads(w, b, Append(s, k))
    BY <2>1, <2>2, <2>3, HelloStaysFirst, Zenon
  <2>5. CASE /\ wire'[c] \in {w, <<>>} /\ backlog'[c] \in {b, <<>>} /\ sent'[c] \in {s, <<>>}
    <3>1. <<>> \in Seq(S)
      OBVIOUS
    <3>2. HelloLeads(wire'[c], b, s)
      BY <2>2, <2>4, <2>5, Zenon
    <3>3. HelloLeads(wire'[c], backlog'[c], s)
      BY <2>1, <2>5, <3>1, <3>2, HelloStaysFirst, Zenon
    <3>4. wire'[c] \in Seq(S) /\ backlog'[c] \in Seq(S)
      BY <2>1, <2>5, <3>1, Zenon
    <3>5. HelloLeads(wire'[c], backlog'[c], <<>>)
      BY <2>1, <3>3, <3>4, HelloStaysFirst, Zenon
    <3>. QED  BY <2>5, <3>3, <3>5, Zenon
  <2>6. CASE plug[c] = "none" /\ sent'[c] = scene.says /\ wire'[c] = w /\ backlog'[c] = b
    <3>1. /\ scene.says \in Seq(Note)
          /\ \A i \in 2 .. Len(scene.says) : scene.says[i] # "hello"
      BY SceneAssumption, Zenon DEF RegistryInv, RegistryType
    <3>2. \A i \in 1 .. Len(scene.says) : scene.says[i] = "hello" => i = 1
      BY <3>1
    <3>3. w = <<>> /\ b = <<>>
      BY <1>2, <2>6, Zenon
    <3>. QED  BY <2>2, <2>6, <3>2, <3>3, Zenon DEF HelloLeads
  <2>7. up[c] = "open" => b = <<>>
    BY <1>2, Zenon
  <2>. QED  BY <2>2, <2>4, <2>5, <2>6, <2>7, Zenon DEF Flows
<1>. QED  BY <1>1, <1>3, <1>4, <1>5, Zenon DEF OrderInv, WayInv

\* The order invariant holds of every behaviour.
THEOREM OrderInvariant == Spec => []OrderInv
<1>1. Init => OrderInv
  BY DEF Init, DeviceInit, OrderInv, WayInv, HelloLeads
<1>2. RegistryInv /\ PlugInv /\ CallInv /\ OrderInv /\ [Next]_vars => OrderInv'
  BY OrderStep, Zenon
<1>. QED  BY <1>1, <1>2, PluginInvariants, CallInvariant, PTL DEF Spec

\* cli.js: a plugin's hello is never overtaken by what it sends after it, while
\* the upstream socket connects, when the backlog goes out and when frames are
\* dropped with a socket that closes.
THEOREM HelloIsFirst == Spec => []InOrder
<1>1. CallInv /\ OrderInv => InOrder
  <2> SUFFICES ASSUME CallInv, OrderInv, NEW c \in Conn
               PROVE  LET frames == wire[c] \o backlog[c] \o sent[c]
                      IN  \A i \in 2 .. Len(frames) : frames[i] # "hello"
    BY Zenon DEF InOrder
  <2> DEFINE wb == wire[c] \o backlog[c]
             s == sent[c]
             frames == wb \o s
  <2>1. wire[c] \in Seq(Carried) /\ backlog[c] \in Seq(Carried) /\ s \in Seq(Carried)
    BY Zenon DEF CallInv, FramesAreReal
  <2>2. HelloLeads(wire[c], backlog[c], s)
    BY Zenon DEF OrderInv
  <2>3. HelloLeads(wb, <<>>, s) /\ wb \in Seq(Carried)
    <3>1. wb \in Seq(Carried)
      BY <2>1
    <3>. QED  BY <2>1, <2>2, <3>1, HelloStaysFirst, Zenon
  <2> HIDE DEF wb, s
  <2>4. HelloLeads(wb \o s, <<>>, <<>>)
    <3>1. \A i \in 1 .. Len(s) : s[i] = "hello" => i = 1 /\ wb = <<>>
      BY <2>3, Zenon DEF HelloLeads
    <3>2. HelloLeads(wb, s, <<>>)
      BY <2>3, <3>1 DEF HelloLeads
    <3>3. <<>> \in Seq(Carried)
      OBVIOUS
    <3>4. s \in Seq(Carried)
      BY <2>1, Zenon DEF s
    <3>. QED  BY <2>3, <3>2, <3>3, <3>4, HelloStaysFirst, Zenon
  <2>5. \A i \in 2 .. Len(frames) : frames[i] # "hello"
    BY <2>4 DEF HelloLeads
  <2>. QED  BY <2>5, Zenon DEF wb, s
<1>. QED  BY <1>1, CallInvariant, OrderInvariant, PTL
=============================================================================

---------------------------- MODULE PluginBridge ----------------------------
(***************************************************************************)
(* The forwarder between a browser plugin and a device elsewhere (cli.js), *)
(* composed with the device.                                               *)
(*                                                                         *)
(* For every plugin that connects to a route the bridge dials the device   *)
(* and keeps the pair: frames of the plugin go up, in a backlog until the  *)
(* upstream socket is open, and frames of the device go down.  When either *)
(* socket closes, so does the other.  Connection c of PluginDevice is the  *)
(* upstream socket of pair c.                                              *)
(***************************************************************************)
EXTENDS PluginDevice

CONSTANTS
    Route,  \* the upstream address of the --map
    Scene   \* instances: [seats, addrs, pairs, says, calls, events],
            \* says being the frames a plugin sends on its own

\* What a plugin sends on its own: its hello, and what the device ignores.
Note == {"hello", "note"}

\* A scene is played by these seats, at these addresses, with these calls; what
\* a plugin says first, and only then, is its hello.
ASSUME SceneAssumption ==
    /\ Note \cap Call = {}
    /\ \A x \in Scene :
         /\ x.seats \subseteq Seat /\ x.addrs \subseteq Addr /\ x.calls \subseteq Call
         /\ x.says \in Seq(Note)
         /\ \A i \in 2 .. Len(x.says) : x.says[i] # "hello"

VARIABLES
    scene,
    plug,     \* the plugin's socket: "none", "open", "closing", "closed"
    up,       \* the upstream socket: "none", "connecting", "open", "closed"
    current,  \* the pair in the route's slot
    backlog,  \* frames kept until the upstream socket is open
    sent,     \* frames of the plugin the bridge has not handled
    ready,    \* plugins that have their hello_ack
    events

bridgeVars == <<plug, up, current, backlog, sent, ready>>
vars == <<deviceVars, bridgeVars, scene, events>>

Init ==
    /\ DeviceInit
    /\ scene \in Scene
    /\ plug = [c \in Conn |-> "none"] /\ up = [c \in Conn |-> "none"]
    /\ current = None
    /\ backlog = [c \in Conn |-> <<>>] /\ sent = [c \in Conn |-> <<>>]
    /\ ready = {} /\ events = 0

Event == events < scene.events /\ events' = events + 1 /\ UNCHANGED scene
NoEvent == UNCHANGED <<scene, events>>

-----------------------------------------------------------------------------
(* The bridge *)

\* A plugin connects, says hello and perhaps more: the newest one wins the slot, the
\* previous one is asked to close, and the device is dialled.
Connection(c) ==
    /\ c <= scene.pairs /\ plug[c] = "none"
    /\ \A x \in Conn : x < c => plug[x] # "none"
    /\ plug' = [x \in Conn |-> IF x = c THEN "open"
                               ELSE IF x = current /\ plug[x] = "open" THEN "closing" ELSE plug[x]]
    /\ up' = [up EXCEPT ![c] = "connecting"]
    /\ current' = c
    /\ sent' = [sent EXCEPT ![c] = scene.says]
    /\ UNCHANGED <<deviceVars, backlog, ready>> /\ NoEvent

\* The dial reaches the listener.
UpArrives(c) ==
    /\ up[c] = "connecting"
    /\ Arrive(c, Route)
    /\ UNCHANGED bridgeVars /\ NoEvent

\* Variant: what came before the open stays where it is.
NoFlush(c) == UNCHANGED <<backlog, wire>>

\* The backlog goes out in the order it came.
Flush(c) ==
    /\ wire' = IF sock[c] = "closed" THEN wire ELSE [wire EXCEPT ![c] = @ \o backlog[c]]
    /\ backlog' = [backlog EXCEPT ![c] = <<>>]

\* The upgrade is answered before handleAccept takes the slot.
UpOpens(c) ==
    /\ up[c] = "connecting" /\ sock[c] \in {"arrived", "open"}
    /\ up' = [up EXCEPT ![c] = "open"]
    /\ Flush(c)
    /\ UNCHANGED <<registryVars, serverVars, conn, closer, sock, at, hung, silent, reader, callVars,
                   plug, current, sent, ready>>
    /\ NoEvent

Keep(c, f) == backlog' = [backlog EXCEPT ![c] = Append(@, f)]

\* A frame of the plugin.
PluginMessage(c) ==
    /\ sent[c] # <<>> /\ plug[c] # "closed"
    /\ LET f == Head(sent[c]) IN
       /\ IF up[c] = "connecting" THEN Keep(c, f) ELSE UNCHANGED backlog
       /\ wire' = IF up[c] = "open" /\ sock[c] # "closed"
                  THEN [wire EXCEPT ![c] = Append(@, f)] ELSE wire
    /\ sent' = [sent EXCEPT ![c] = Tail(@)]
    /\ UNCHANGED <<registryVars, serverVars, conn, closer, sock, at, hung, silent, reader, callVars,
                   plug, up, current, ready>>
    /\ NoEvent

\* A frame of the device: a call, for a plugin that is still there.
UpMessage(k) ==
    /\ call[k].stage = "down" /\ up[call[k].conn] = "open"
    /\ Goto(k, IF plug[call[k].conn] = "open" THEN "plugin" ELSE "over")
    /\ UNCHANGED <<registryVars, serverVars, socketVars, inflight, late, settled, answer,
                   bridgeVars>>
    /\ NoEvent

\* The slot is only given up by the pair in it.
InSlot(c) == current = c

CloseUp(c) ==
    /\ up' = [up EXCEPT ![c] = "closed"]
    /\ hung' = hung \cup {c}

\* closePair, when the plugin's socket is in state p.
ClosePair(c, p) ==
    /\ current' = IF InSlot(c) THEN None ELSE current
    /\ plug' = [plug EXCEPT ![c] = p]
    /\ CloseUp(c)
    /\ backlog' = [backlog EXCEPT ![c] = <<>>]
    /\ UNCHANGED <<registryVars, serverVars, conn, closer, sock, at, reader, wire, callVars, ready>>

\* The plugin's socket has closed, by whoever began it.
PluginClosed(c) ==
    /\ plug[c] = "closing"
    /\ ClosePair(c, "closed")
    /\ sent' = [sent EXCEPT ![c] = <<>>]
    /\ UNCHANGED silent /\ NoEvent

\* The upstream socket closes: the device closed it, or nobody listens.
UpClosed(c) ==
    /\ \/ up[c] \in {"connecting", "open"} /\ sock[c] = "closed"
       \/ up[c] = "connecting" /\ sock[c] = "none" /\ ~Busy(Route)
    /\ ClosePair(c, IF plug[c] = "open" THEN "closing" ELSE plug[c])
    /\ UNCHANGED <<sent, silent>> /\ NoEvent

-----------------------------------------------------------------------------
(* The plugin, and the device's read loop *)

\* A plugin that is ready answers a call.
Replies(k) ==
    LET c == call[k].conn IN
    /\ call[k].stage = "plugin" /\ plug[c] = "open" /\ c \in ready
    /\ \E v \in Verdict : settled' = [settled EXCEPT ![k] = v]
    /\ sent' = [sent EXCEPT ![c] = Append(@, k)]
    /\ Goto(k, "over")
    /\ UNCHANGED <<registryVars, serverVars, socketVars, inflight, late, answer,
                   plug, up, current, backlog, ready>>
    /\ NoEvent

\* readLoop and handleInbound: a hello is answered on the spot, unless the answer
\* cannot land, which drops the connection; what is no result is ignored.
ReadFrame(c) ==
    /\ c \in reader /\ closer[c] # "reader" /\ sock[c] = "open" /\ wire[c] # <<>>
    /\ LET f == Head(wire[c]) IN
       /\ ready' = IF f = "hello" /\ plug[c] = "open" THEN ready \cup {c} ELSE ready
       /\ IF f \in Call THEN Result(c, f) ELSE UNCHANGED <<inflight, answer, late>>
       /\ \/ UNCHANGED <<conn, closer>>
          \/ f = "hello" /\ c \in hung /\ DropConn(c, "reader")
    /\ wire' = [wire EXCEPT ![c] = Tail(@)]
    /\ UNCHANGED <<registryVars, serverVars, sock, at, hung, silent, reader, call,
                   settled, plug, up, current, backlog, sent>>
    /\ NoEvent

-----------------------------------------------------------------------------
(* What may happen, within the scene *)

PluginLeaves(c) ==
    /\ plug[c] = "open" /\ Event
    /\ plug' = [plug EXCEPT ![c] = "closing"]
    /\ UNCHANGED <<deviceVars, up, current, backlog, sent, ready>>

\* The upstream connection breaks; the device may never hear of it.
UpBreaks(c) ==
    /\ up[c] \in {"connecting", "open"} /\ Event
    /\ ClosePair(c, IF plug[c] = "open" THEN "closing" ELSE plug[c])
    /\ \E lost \in BOOLEAN : silent' = IF lost THEN silent \cup {c} ELSE silent
    /\ UNCHANGED sent

\* The bridge is stopped, and with it every socket it has.
Signal ==
    /\ current # None /\ Event
    /\ LET there == {c \in Conn : plug[c] # "none"} IN
       /\ plug' = [c \in Conn |-> IF c \in there THEN "closed" ELSE plug[c]]
       /\ up' = [c \in Conn |-> IF c \in there THEN "closed" ELSE up[c]]
       /\ hung' = hung \cup there
    /\ current' = None
    /\ backlog' = [c \in Conn |-> <<>>] /\ sent' = [c \in Conn |-> <<>>]
    /\ UNCHANGED <<registryVars, serverVars, conn, closer, sock, at, silent, reader, wire, callVars, ready>>

-----------------------------------------------------------------------------
Quiet == UNCHANGED bridgeVars /\ NoEvent

\* What the code does by itself, the plugin's answer to its close included ...
DeviceStep ==
    \/ \E s \in Seat : Stop(s) /\ Quiet
    \/ \E s \in Seat : Shutdown(s) /\ Quiet
    \/ \E s \in Seat : Joined(s) /\ Quiet
    \/ \E s \in Seat : Rebound(s) /\ Quiet
    \/ \E c \in Conn : CloseConn(c) /\ Quiet
    \/ \E c \in Conn : Accept(c) /\ Quiet
    \/ \E c \in Conn : ReaderEnds(c) /\ Quiet
    \/ \E c \in Conn : Beat(c) /\ Quiet
    \/ \E k \in Call : Send(k) /\ Quiet
    \/ \E k \in Call : Late(k) /\ Quiet
    \/ \E s \in Seat, k \in Call : Sweep(s, k) /\ Quiet
    \/ \E c \in Conn : ReadFrame(c)

BridgeStep ==
    \/ \E c \in Conn : UpArrives(c) \/ UpOpens(c) \/ PluginMessage(c) \/ PluginClosed(c) \/ UpClosed(c)
    \/ \E k \in Call : UpMessage(k)

Code == DeviceStep \/ BridgeStep

\* ... and what the seats, their callers, the plugins and the network may do.
SeatStep ==
    \/ \E s \in scene.seats, a \in scene.addrs : AttachShared(s, a) /\ Quiet
    \/ \E s \in scene.seats, a \in scene.addrs : AttachNew(s, a) /\ Quiet
    \/ \E s \in scene.seats : Release(s) /\ Quiet
    \/ \E s \in scene.seats, a \in scene.addrs : Rebind(s, a) /\ UNCHANGED bridgeVars /\ Event
    \/ \E s \in scene.seats, k \in scene.calls : Begin(s, k) /\ Quiet

World ==
    \/ SeatStep
    \/ \E c \in Conn : Connection(c) \/ PluginLeaves(c) \/ UpBreaks(c)
    \/ \E k \in Call : Replies(k)
    \/ Signal

Next == Code \/ World

Spec == Init /\ [][Next]_vars
LiveSpec == Spec /\ WF_vars(Code)

-----------------------------------------------------------------------------
(* Properties *)

\* Whenever sharedMu is free, what the registry hands out is the device that
\* listens there, there only, and not one that has been stopped (Attach, Rebind
\* and Release).
RegistryIsTrue ==
    Unlocked =>
        \A a \in Addr : shared[a] # NoEntry =>
            LET d == shared[a].dev IN
            listen[d] = a /\ leaving[d] = None /\ d \notin stopped

\* A connection that is open is the one in its device's slot, or whoever took it
\* out is about to close it: none is left open outside the slot, and the late end
\* of a displaced one never frees its successor's slot (handleAccept, readLoop,
\* DropConn, Rebind, Stop).
OpenIsInSlot ==
    \A c \in Conn : sock[c] = "open" => conn[at[c]] = c \/ closer[c] # None

\* The same on the bridge's side: a plugin that nobody has closed is the
\* current one, however late its predecessors' sockets close (closePair).
PluginIsCurrent == \A c \in Conn : plug[c] = "open" => current = c

\* No socket is left behind on either side, on the device or on the bridge.
OneLive == OpenIsInSlot /\ PluginIsCurrent

\* What a plugin sends never overtakes its hello, on its socket, in the backlog
\* and on the upstream socket: "there is no reordering here".
InOrder ==
    \A c \in Conn :
        LET frames == wire[c] \o backlog[c] \o sent[c] IN
        \A i \in 2 .. Len(frames) : frames[i] # "hello"

\* The continuation of a call is called at most once, with the plugin's result
\* or with the sweep's timeout (handleInbound, Sweep).
Contract == INSTANCE CallContract WITH Nothing <- None
CallsKeepContract == Contract!Spec

\* Nobody waits for ever: a call in flight is rung out as long as a seat of its
\* device is there, whatever becomes of the plugin, the bridge and the endpoint;
\* and a seat that lets go is let go, for Stop joins its read loops whatever
\* connects meanwhile.
NobodyWaits ==
    /\ []<>(\A k \in Call, s \in Seat : Attached(s) => k \notin inflight[handle[s].dev])
    /\ []<>(\A s \in Seat : seat[s] \in {"out", "in", "gone"})

\* The way between plugin and device settles: a connection whose far side is gone
\* does not hold the slot for ever, even when its end never reached the device
\* (readLoop, beatLoop, pingLoop); the device does not keep a connection the bridge
\* has given up, whichever of two dials reached it last (when the older dial came
\* last both pairs go down, and the plugin has to connect again); and a plugin with
\* an open way gets its hello_ack, its hello is not lost while the upstream socket
\* connects.
WayIsLive ==
    /\ []<>(\A d \in Dev : conn[d] \notin hung)
    /\ []<>(\A d \in Dev : conn[d] # None => conn[d] = current)
    /\ []<>(\A c \in Conn : plug[c] = "open" /\ up[c] = "open" /\ sock[c] = "open" => c \in ready)

\* The comment of Release: only the last one out stops the device, "earlier
\* ones must not, because the other callers are still using them".
HeldIsServing ==
    \A s \in Seat : Attached(s) => handle[s].dev \notin stopped
=============================================================================

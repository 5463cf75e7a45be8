---------------------------- MODULE PluginDevice ----------------------------
(***************************************************************************)
(* The endpoint browser plugins dial (device.go) and the registry through  *)
(* which the seats of several channels share it (shared.go).               *)
(*                                                                         *)
(* A Device is one listener, one connection slot and one table of calls in *)
(* flight.  A seat attaches to an address, calls through its handle, may   *)
(* move the endpoint, and lets go; the last to let go stops the device.  A *)
(* call is answered by the plugin's result or by a sweep past its          *)
(* deadline.  Connections are the sockets of the next module down the      *)
(* wire; here they arrive, are accepted, are read and are closed.          *)
(***************************************************************************)
EXTENDS Naturals, Sequences, FiniteSets

CONSTANTS
    Seat,      \* actors, with one handle each
    Addr,      \* listen addresses
    Dev,       \* devices, in the order they are made
    Conn,      \* connections to a listener
    Call,      \* calls, by correlation id
    Verdict,   \* results a plugin may give
    None       \* no address, device or connection

\* Who, besides a seat, may close a connection: its read loop; a heartbeat or
\* a call that could not write.
Goroutine == {"reader", "other"}

\* No value stands for none of its kind, and no seat is one of these.
ASSUME NoneAssumption ==
    /\ None \notin Addr /\ None \notin Dev /\ None \notin Conn
    /\ None \notin Verdict /\ None \notin {"timeout", "device_offline"}
    /\ None \notin Seat \cup Goroutine /\ Seat \cap Goroutine = {}

Local == {"timeout", "device_offline"}

VARIABLES
    shared,   \* the registry: [dev, refs] by address
    seat,     \* where a seat is: "out", "in", "moving" the endpoint, "stopping"
              \* it, "closing" it, "joining" its read loops, "gone"
    handle,   \* its handle: [dev, addr]
    listen,   \* the address a device listens on
    leaving,  \* the one it has moved from, until that server is shut down
    stopped,  \* devices told to stop
    conn,     \* a device's connection slot
    closer,   \* who took a connection out of it and is about to close it: a
              \* seat, the connection's own "reader", or any "other" goroutine
    sock,     \* a connection: "none", "arrived", "open", "closed"
    at,       \* the device whose listener it reached
    hung,     \* connections whose far side is gone
    silent,   \* those of them whose end never reached us
    reader,   \* connections whose read loop runs
    wire,     \* frames of the plugin on it, not yet read
    inflight, \* a device's calls in flight
    call,     \* a call: [stage, conn]
    late,     \* calls in flight past their deadline
    settled, answer

registryVars == <<shared, seat, handle>>
serverVars == <<listen, leaving, stopped>>
socketVars == <<conn, closer, sock, at, hung, silent, reader, wire>>
callVars == <<inflight, call, late, settled, answer>>
deviceVars == <<registryVars, serverVars, socketVars, callVars>>

NoEntry == [dev |-> None, refs |-> 0]
NoHandle == [dev |-> None, addr |-> None]

DeviceInit ==
    /\ shared = [a \in Addr |-> NoEntry]
    /\ seat = [s \in Seat |-> "out"] /\ handle = [s \in Seat |-> NoHandle]
    /\ listen = [d \in Dev |-> None] /\ leaving = [d \in Dev |-> None] /\ stopped = {}
    /\ conn = [d \in Dev |-> None] /\ closer = [c \in Conn |-> None]
    /\ sock = [c \in Conn |-> "none"] /\ at = [c \in Conn |-> None]
    /\ hung = {} /\ silent = {} /\ reader = {} /\ wire = [c \in Conn |-> <<>>]
    /\ inflight = [d \in Dev |-> {}] /\ late = {}
    /\ call = [k \in Call |-> [stage |-> "none", conn |-> None]]
    /\ settled = [k \in Call |-> None] /\ answer = [k \in Call |-> None]

\* Device d has a listener at address a.
Serves(d, a) == a \in {listen[d], leaving[d]}
Busy(a) == \E d \in Dev : Serves(d, a)
Fresh(d) == listen[d] = None /\ d \notin stopped
NextFresh(d) == Fresh(d) /\ \A e \in Dev : Fresh(e) => d <= e

-----------------------------------------------------------------------------
(* The registry *)

\* sharedMu is free: Rebind holds it until the device has moved.
Unlocked == \A s \in Seat : seat[s] # "moving"

\* A grip on the device of address a.
Grip(s, a, d) ==
    /\ shared' = [shared EXCEPT ![a] = [dev |-> d, refs |-> @.refs + 1]]
    /\ handle' = [handle EXCEPT ![s] = [dev |-> d, addr |-> a]]
    /\ seat' = [seat EXCEPT ![s] = "in"]

\* Attach: share the device registered for the address, or bind one.  With
\* port 0 the seat gets a device of its own on a free address.  A bind that
\* fails changes nothing; the seat tries again later.
AttachShared(s, a) ==
    /\ seat[s] = "out" /\ Unlocked /\ shared[a] # NoEntry
    /\ Grip(s, a, shared[a].dev)
    /\ UNCHANGED <<serverVars, socketVars, callVars>>

AttachNew(s, a) ==
    /\ seat[s] = "out" /\ Unlocked /\ shared[a] = NoEntry /\ ~Busy(a)
    /\ \E d \in Dev :
         /\ NextFresh(d)
         /\ Grip(s, a, d)
         /\ listen' = [listen EXCEPT ![d] = a]
    /\ UNCHANGED <<leaving, stopped, socketVars, callVars>>

MoreGrips(e) == e.refs > 1

\* Release: the entry of the handle's address loses a grip; the last one out
\* deletes it and goes on to stop its device.
Release(s) ==
    /\ seat[s] = "in" /\ Unlocked
    /\ LET a == handle[s].addr
           e == shared[a]
       IN IF e = NoEntry
          THEN seat' = [seat EXCEPT ![s] = "gone"] /\ UNCHANGED <<shared, handle>>
          ELSE IF MoreGrips(e)
          THEN /\ shared' = [shared EXCEPT ![a] = [dev |-> e.dev, refs |-> e.refs - 1]]
               /\ seat' = [seat EXCEPT ![s] = "gone"] /\ UNCHANGED handle
          ELSE /\ shared' = [shared EXCEPT ![a] = NoEntry]
               /\ seat' = [seat EXCEPT ![s] = "stopping"]
               /\ handle' = [handle EXCEPT ![s] = [dev |-> e.dev, addr |-> a]]
    /\ UNCHANGED <<serverVars, socketVars, callVars>>

\* Close a set of sockets from our side: what they still carried is gone.
Close(cs) ==
    /\ sock' = [c \in Conn |-> IF c \in cs THEN "closed" ELSE sock[c]]
    /\ wire' = [c \in Conn |-> IF c \in cs THEN <<>> ELSE wire[c]]

\* Under the device's lock, who empties the slot of d and goes on to close c,
\* if there is one.
TakeOut(d, c, who) ==
    /\ conn' = [conn EXCEPT ![d] = None]
    /\ closer' = [x \in Conn |-> IF x = c THEN who ELSE closer[x]]

\* The lock given up, whoever took the connection closes it.  Until then its
\* read loop goes on.
CloseConn(c) ==
    /\ closer[c] # None
    /\ Close({c})
    /\ closer' = [closer EXCEPT ![c] = None]
    /\ UNCHANGED <<registryVars, serverVars, conn, at, hung, silent, reader, callVars>>

\* Seat s has closed the connection it took.
HasClosed(s) == \A c \in Conn : closer[c] # s

\* Stop: the flag and the slot, under the lock ...
Stop(s) ==
    /\ seat[s] = "stopping"
    /\ stopped' = stopped \cup {handle[s].dev}
    /\ TakeOut(handle[s].dev, conn[handle[s].dev], s)
    /\ seat' = [seat EXCEPT ![s] = "closing"]
    /\ UNCHANGED <<shared, handle, listen, leaving, sock, at, hung, silent, reader, wire, callVars>>

\* ... the connection and then the server, and the read loops are joined.
Shutdown(s) ==
    /\ seat[s] = "closing" /\ HasClosed(s)
    /\ listen' = [listen EXCEPT ![handle[s].dev] = None]
    /\ seat' = [seat EXCEPT ![s] = "joining"]
    /\ UNCHANGED <<shared, handle, leaving, stopped, socketVars, callVars>>

Joined(s) ==
    /\ seat[s] = "joining"
    /\ \A c \in reader : at[c] # handle[s].dev
    /\ seat' = [seat EXCEPT ![s] = "gone"]
    /\ UNCHANGED <<shared, handle, serverVars, socketVars, callVars>>

\* Rebind: bind the new address first; only then, under the lock, take out what
\* came through the old one.  The old server still accepts.
Rebind(s, a) ==
    /\ seat[s] = "in" /\ Unlocked /\ shared[handle[s].addr] # NoEntry
    /\ a # handle[s].addr /\ ~Busy(a)
    /\ LET d == shared[handle[s].addr].dev IN
       /\ d \notin stopped
       /\ listen' = [listen EXCEPT ![d] = a]
       /\ leaving' = [leaving EXCEPT ![d] = listen[d]]
       /\ TakeOut(d, conn[d], s)
    /\ seat' = [seat EXCEPT ![s] = "moving"]
    /\ UNCHANGED <<shared, handle, stopped, sock, at, hung, silent, reader, wire, callVars>>

\* Variant: later attaches look where the device was.
KeepKey(s, a) == UNCHANGED <<shared, handle>>

\* Re-key so later attaches find the device where it now lives.
ReKey(s, a) ==
    LET old == handle[s].addr IN
    /\ shared' = [shared EXCEPT ![old] = NoEntry, ![a] = shared[old]]
    /\ handle' = [handle EXCEPT ![s] = [dev |-> handle[s].dev, addr |-> a]]

\* The old connection closed, the old server is shut down and the entry moves;
\* an accept under way at the old address goes on.
Rebound(s) ==
    /\ seat[s] = "moving" /\ HasClosed(s)
    /\ LET d == shared[handle[s].addr].dev IN
       /\ leaving' = [leaving EXCEPT ![d] = None]
       /\ ReKey(s, listen[d])
    /\ seat' = [seat EXCEPT ![s] = "in"]
    /\ UNCHANGED <<listen, stopped, socketVars, callVars>>

-----------------------------------------------------------------------------
(* Connections *)

\* A client reaches the listener of address a.
Arrive(c, a) ==
    /\ sock[c] = "none"
    /\ \E d \in Dev : Serves(d, a) /\ at' = [at EXCEPT ![c] = d]
    /\ sock' = [sock EXCEPT ![c] = "arrived"]
    /\ UNCHANGED <<registryVars, serverVars, conn, closer, hung, silent, reader, wire, callVars>>

\* Variant: the flag is not read.
NeverRefused(d) == FALSE

\* The flag that Stop sets before it joins.
Refused(d) == d \in stopped

\* handleAccept: refused by a stopped device; otherwise it displaces the
\* connection in the slot.
Accept(c) ==
    /\ sock[c] = "arrived"
    /\ LET d == at[c] IN
       IF Refused(d)
       THEN Close({c}) /\ UNCHANGED <<conn, reader>>
       ELSE /\ sock' = [x \in Conn |-> IF x = c THEN "open"
                                       ELSE IF x = conn[d] THEN "closed" ELSE sock[x]]
            /\ wire' = [x \in Conn |-> IF x = conn[d] THEN <<>> ELSE wire[x]]
            /\ conn' = [conn EXCEPT ![d] = c]
            /\ reader' = reader \cup {c}
    /\ UNCHANGED <<registryVars, serverVars, closer, at, hung, silent, callVars>>

\* Variant: whoever ends empties the slot.
AlwaysLive(c) == TRUE

\* Pointer identity: a newer accept may have displaced the connection.
StillLive(c) == conn[at[c]] = c

\* DropConn: out of the slot, if it is still the live one, and then closed.
DropConn(c, who) ==
    IF StillLive(c) THEN TakeOut(at[c], c, who) ELSE UNCHANGED <<conn, closer>>

\* readLoop leaves its loop once the socket is closed, by us or by a far side
\* whose frames it has read.  The live connection it takes out and closes before
\* it returns.
ReaderEnds(c) ==
    /\ c \in reader /\ closer[c] # "reader"
    /\ sock[c] = "closed" \/ (c \in hung \ silent /\ wire[c] = <<>>)
    /\ reader' = IF StillLive(c) THEN reader ELSE reader \ {c}
    /\ DropConn(c, "reader")
    /\ UNCHANGED <<registryVars, serverVars, sock, at, hung, silent, wire, callVars>>

\* Variant: a heartbeat that cannot land is forgotten.
BeatGoesOn(c) == FALSE

\* beatLoop and pingLoop: a frame that cannot land, or a pong that does not
\* come, ends the connection.
BeatFails(c) == c \in reader /\ sock[c] = "open" /\ c \in silent

Beat(c) ==
    /\ BeatFails(c)
    /\ DropConn(c, "other")
    /\ UNCHANGED <<registryVars, serverVars, sock, at, hung, silent, reader, wire, callVars>>

-----------------------------------------------------------------------------
(* Calls *)

\* A call on its way.
Goto(k, stage) == call' = [call EXCEPT ![k] = [stage |-> stage, conn |-> call[k].conn]]

\* A seat that has its handle.
Attached(s) == seat[s] \in {"in", "moving"}

\* Call: offline is an error; otherwise the call is registered before it is
\* sent on the connection of that moment.
Begin(s, k) ==
    /\ Attached(s) /\ call[k].stage = "none"
    /\ LET d == handle[s].dev IN
       IF conn[d] = None
       THEN /\ answer' = [answer EXCEPT ![k] = "device_offline"]
            /\ Goto(k, "over")
            /\ UNCHANGED inflight
       ELSE /\ inflight' = [inflight EXCEPT ![d] = @ \cup {k}]
            /\ call' = [call EXCEPT ![k] = [stage |-> "sending", conn |-> conn[d]]]
            /\ UNCHANGED answer
    /\ UNCHANGED <<registryVars, serverVars, socketVars, late, settled>>

\* The write; when it fails, the connection is dropped and the call left to
\* the sweep.
Send(k) ==
    /\ call[k].stage = "sending"
    /\ LET c == call[k].conn IN
       \/ /\ sock[c] = "open"
          /\ Goto(k, IF c \in hung THEN "over" ELSE "down")
          /\ UNCHANGED <<conn, closer>>
       \/ /\ sock[c] # "open" \/ c \in hung
          /\ Goto(k, "over")
          /\ DropConn(c, "other")
    /\ UNCHANGED <<registryVars, serverVars, sock, at, hung, silent, reader, wire, inflight, late, settled, answer>>

\* Variant: a result finds its caller whether or not a sweep has been there.
AnyResult(d, k) == TRUE

\* Taking the entry out under the lock makes the close atomic.
Claimed(d, k) == k \in inflight[d]

\* handleInbound of a result: the caller's continuation, once.
Result(c, k) ==
    LET d == at[c] IN
    IF Claimed(d, k)
    THEN /\ inflight' = [inflight EXCEPT ![d] = @ \ {k}]
         /\ answer' = [answer EXCEPT ![k] = settled[k]]
         /\ late' = late \ {k}
    ELSE UNCHANGED <<inflight, answer, late>>

\* Sweep, by any seat of the device, of a call past its deadline.
Due(s, k) ==
    /\ Attached(s)
    /\ k \in inflight[handle[s].dev] /\ k \in late

Sweep(s, k) ==
    /\ Due(s, k)
    /\ inflight' = [inflight EXCEPT ![handle[s].dev] = @ \ {k}]
    /\ answer' = [answer EXCEPT ![k] = "timeout"]
    /\ late' = late \ {k}
    /\ UNCHANGED <<registryVars, serverVars, socketVars, call, settled>>

\* The deadline of a call in flight passes.
Late(k) ==
    /\ k \notin late /\ \E d \in Dev : k \in inflight[d]
    /\ late' = late \cup {k}
    /\ UNCHANGED <<registryVars, serverVars, socketVars, inflight, call, settled, answer>>
=============================================================================

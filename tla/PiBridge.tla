------------------------------ MODULE PiBridge ------------------------------
(***************************************************************************)
(* The Pi bridge: a Node child process and the Go object that calls it     *)
(* over the child's stdin and stdout.                                      *)
(*                                                                         *)
(* The Go side registers a call, writes its request, and then waits for    *)
(* the first of a frame, the end of its context and the end of the child.  *)
(* One reader goroutine takes the frames of every call off stdout; it      *)
(* drops progress when the call's channel is full and hands a terminal     *)
(* frame to a goroutine of its own.  The Node side runs model calls side   *)
(* by side, and workspace calls one after another, because each of them    *)
(* replaces process.env by the branch's snapshot while it runs.            *)
(*                                                                         *)
(* A call is made of one bridge only and has an id of its own, so a call   *)
(* stands for its id.  Frames carry their kind and their call.             *)
(***************************************************************************)
EXTENDS Naturals, Sequences, FiniteSets

CONSTANTS
    Bridge,    \* the children started in the life of an actor
    Call,      \* the calls
    Oversize,  \* the calls whose request exceeds the frame limit
    FrameCap,  \* frames a call's channel holds (32 in the code)
    Verdict,   \* what Node settles a call with (AllVerdicts, or fewer)
    NoBridge,  \* a call that is not on a bridge yet
    Launch     \* the environment a child is started with

AllVerdicts == {"result", "error", "retryable", "cancelled"}
Local == {"cancelled", "exited", "unavailable", "write_failed"}
None == "none"

VARIABLES
    proc,     \* the child: "none", "up" or "dead"
    stdin,    \* the Go side has not closed the child's stdin
    done,     \* the channel done is closed: cmd.Wait has returned
    toNode,   \* request and cancel lines on the way to the child
    toGo,     \* frames on the way to the reader
    tail,     \* the workspace calls chained on workspaceTail, the runner first
    env,      \* process.env of the child: Launch, or the call it was taken from
    at,       \* the bridge of a call
    gocall,   \* CallWithEnvironment: "idle", "waiting", "ended"
    ctx,      \* the call's context is done
    frames,   \* the call's channel
    late,     \* a terminal frame that waits for room in the channel
    answer,   \* what CallWithEnvironment returned
    node,     \* handle: "none", "queued", "running", "ended"
    aborted,  \* the call's AbortController has been told
    saved,    \* the environment to put back when a workspace call ends
    settled   \* the terminal frame Node has sent

goVars == <<at, gocall, ctx, frames, late, answer>>
nodeVars == <<tail, env, node, aborted, saved, settled>>
childVars == <<proc, stdin, done>>
pipeVars == <<toNode, toGo>>
bridgeVars == <<goVars, nodeVars, childVars, pipeVars>>

Open(c) == gocall[c] = "waiting"                 \* in the map pending
Active(c) == node[c] \in {"queued", "running"}   \* in the map active
OnBridge(b) == {c \in Call : at[c] = b}
Frame(k, c) == [kind |-> k, call |-> c]

BridgeInit ==
    /\ proc = [b \in Bridge |-> "none"]
    /\ stdin = [b \in Bridge |-> TRUE]
    /\ done = [b \in Bridge |-> FALSE]
    /\ toNode = [b \in Bridge |-> <<>>]
    /\ toGo = [b \in Bridge |-> <<>>]
    /\ tail = [b \in Bridge |-> <<>>]
    /\ env = [b \in Bridge |-> Launch]
    /\ at = [c \in Call |-> NoBridge]
    /\ gocall = [c \in Call |-> "idle"]
    /\ ctx = [c \in Call |-> FALSE]
    /\ frames = [c \in Call |-> <<>>]
    /\ late = [c \in Call |-> None]
    /\ answer = [c \in Call |-> None]
    /\ node = [c \in Call |-> "none"]
    /\ aborted = [c \in Call |-> FALSE]
    /\ saved = [c \in Call |-> Launch]
    /\ settled = [c \in Call |-> None]

-----------------------------------------------------------------------------
(* The child process, as the Go side sees it. *)

\* Start: the child is up and has sent its ready frame.
Start(b) ==
    /\ proc[b] = "none"
    /\ proc' = [proc EXCEPT ![b] = "up"]
    /\ UNCHANGED <<stdin, done>>

\* The child exits, crashes, or is killed: nobody reads its stdin any more.
Dies(b) ==
    /\ proc[b] = "up"
    /\ proc' = [proc EXCEPT ![b] = "dead"]
    /\ toNode' = [toNode EXCEPT ![b] = <<>>]
    /\ UNCHANGED <<stdin, done, goVars, nodeVars>>

\* cmd.Wait returns.  It closes the pipe, so the frames that are not yet in
\* the reader's buffer are lost.
WaitReturns(b) ==
    /\ proc[b] = "dead" /\ ~done[b]
    /\ done' = [done EXCEPT ![b] = TRUE]
    /\ \E n \in 0 .. Len(toGo[b]) : toGo' = [toGo EXCEPT ![b] = SubSeq(@, 1, n)]
    /\ UNCHANGED <<proc, stdin, toNode, goVars, nodeVars>>

\* Close starts by closing stdin ...
CloseStdin(b) ==
    /\ stdin' = [stdin EXCEPT ![b] = FALSE]
    /\ UNCHANGED <<proc, done>>

\* ... and kills the child when it has not gone within the grace period.
KillAfterGrace(b) == ~stdin[b] /\ Dies(b) /\ UNCHANGED toGo

-----------------------------------------------------------------------------
(* CallWithEnvironment *)

\* The call returns: it leaves pending, and nobody reads its channel again.
Ends(c, o) ==
    /\ gocall' = [gocall EXCEPT ![c] = "ended"]
    /\ answer' = [answer EXCEPT ![c] = o]
    /\ frames' = [frames EXCEPT ![c] = <<>>]
    /\ late' = [late EXCEPT ![c] = None]

\* The caller has the bridge it will call.
Take(c, b) ==
    /\ at' = [at EXCEPT ![c] = b]
    /\ UNCHANGED <<gocall, ctx, frames, late, answer>>

\* A write reaches the pipe unless stdin is closed or nobody can read it.
Writable(b) == stdin[b] /\ proc[b] = "up"

\* Register the call and write its request.
Issue(c) ==
    LET b == at[c] IN
    /\ gocall[c] = "idle" /\ b # NoBridge
    /\ \/ done[b] /\ Ends(c, "unavailable") /\ UNCHANGED toNode
       \/ /\ ~done[b] /\ ~(Writable(b) /\ c \notin Oversize)
          /\ Ends(c, "write_failed") /\ UNCHANGED toNode
       \/ /\ Writable(b) /\ c \notin Oversize
          /\ toNode' = [toNode EXCEPT ![b] = Append(@, Frame("request", c))]
          /\ gocall' = [gocall EXCEPT ![c] = "waiting"]
          /\ UNCHANGED <<answer, frames, late>>
    /\ UNCHANGED <<at, ctx, toGo, nodeVars, childVars>>

TakeFrame(c) ==
    /\ gocall[c] = "waiting" /\ frames[c] # <<>>
    /\ IF Head(frames[c]) = "progress"
       THEN /\ frames' = [frames EXCEPT ![c] = Tail(@)]
            /\ UNCHANGED <<gocall, answer, late>>
       ELSE Ends(c, Head(frames[c]))
    /\ UNCHANGED <<at, ctx, nodeVars, childVars, pipeVars>>

WriteCancel(c) ==
    toNode' = IF Writable(at[c])
              THEN [toNode EXCEPT ![at[c]] = Append(@, Frame("cancel", c))]
              ELSE toNode

SeeCancel(c) ==
    /\ gocall[c] = "waiting" /\ ctx[c]
    /\ Ends(c, "cancelled")
    /\ WriteCancel(c)
    /\ UNCHANGED <<at, ctx, toGo, nodeVars, childVars>>

SeeDone(c) ==
    /\ gocall[c] = "waiting" /\ done[at[c]]
    /\ Ends(c, "exited")
    /\ UNCHANGED <<at, ctx, nodeVars, childVars, pipeVars>>

-----------------------------------------------------------------------------
(* The stdout reader and the goroutines that deliver terminal frames. *)

Room(c) == Len(frames[c]) < FrameCap

\* Variant: any frame may be dropped.
KeepNothing(f) == FALSE

MustArrive(f) == f.kind # "progress"

\* Progress that finds the channel full is dropped; a terminal frame that does
\* is left with a goroutine of its own.
ReadFrame(b) ==
    /\ toGo[b] # <<>>
    /\ LET f == Head(toGo[b]) IN
       /\ frames' = IF Open(f.call) /\ Room(f.call)
                    THEN [frames EXCEPT ![f.call] = Append(@, f.kind)] ELSE frames
       /\ late' = IF Open(f.call) /\ ~Room(f.call) /\ MustArrive(f)
                  THEN [late EXCEPT ![f.call] = f.kind] ELSE late
    /\ toGo' = [toGo EXCEPT ![b] = Tail(@)]
    /\ UNCHANGED <<at, gocall, ctx, answer, toNode, nodeVars, childVars>>

Deliver(c) ==
    /\ late[c] # None
    /\ \/ Room(c) /\ frames' = [frames EXCEPT ![c] = Append(@, late[c])]
       \/ done[at[c]] /\ UNCHANGED frames
    /\ late' = [late EXCEPT ![c] = None]
    /\ UNCHANGED <<at, gocall, ctx, answer, nodeVars, childVars, pipeVars>>

\* The stream breaks, on a frame over the limit: the reader stops and kills the
\* child, since no request could settle any more.
ReadBreaks(b) ==
    /\ toGo[b] # <<>>
    /\ Dies(b)
    /\ toGo' = [toGo EXCEPT ![b] = <<>>]

-----------------------------------------------------------------------------
(* The Node side. *)

\* A line: a cancel aborts its call when that is active; a request becomes
\* active and, when it is a workspace word, joins the chain.
NodeReads(b, chained) ==
    /\ proc[b] = "up" /\ toNode[b] # <<>>
    /\ LET f == Head(toNode[b]) IN
       IF f.kind = "cancel"
       THEN /\ aborted' = [aborted EXCEPT ![f.call] = Active(f.call)]
            /\ UNCHANGED <<tail, node>>
       ELSE /\ node' = [node EXCEPT ![f.call] = IF chained THEN "queued" ELSE "running"]
            /\ tail' = [tail EXCEPT ![b] = IF chained THEN Append(@, f.call) ELSE @]
            /\ UNCHANGED aborted
    /\ toNode' = [toNode EXCEPT ![b] = Tail(@)]
    /\ UNCHANGED <<env, saved, settled, toGo, childVars, goVars>>

\* The previous call of the chain has released it: save process.env and
\* replace it by the call's own snapshot.
TakeTurn(c) ==
    LET b == at[c] IN
    /\ node[c] = "queued" /\ proc[b] = "up" /\ Head(tail[b]) = c
    /\ saved' = [saved EXCEPT ![c] = env[b]]
    /\ env' = [env EXCEPT ![b] = c]
    /\ node' = [node EXCEPT ![c] = "running"]
    /\ UNCHANGED <<tail, aborted, settled, childVars, pipeVars, goVars>>

\* A tool update, or the note that a model call waits for its provider.
Update(c) ==
    /\ node[c] = "running" /\ proc[at[c]] = "up"
    /\ toGo' = [toGo EXCEPT ![at[c]] = Append(@, Frame("progress", c))]
    /\ UNCHANGED <<toNode, nodeVars, childVars, goVars>>

\* Variant: the environment of the call stays behind.
NotRestored(c) == env[at[c]]

Restored(c) == saved[c]

\* Variant: the call stays active, and may send a second terminal frame.
StaysActive(c) == UNCHANGED node

Inactive(c) == node' = [node EXCEPT ![c] = "ended"]

\* The operation ends, in a way its kind of operation can end: one terminal frame, process.env put back, the chain
\* released, the call no longer active.
Settle(c, ends) ==
    LET b == at[c] IN
    /\ node[c] = "running" /\ proc[b] = "up"
    /\ \E v \in Verdict \cap ends :
        /\ settled' = [settled EXCEPT ![c] = v]
        /\ toGo' = [toGo EXCEPT ![b] = Append(@, Frame(v, c))]
    /\ Inactive(c)
    /\ IF tail[b] # <<>>
       THEN /\ env' = [env EXCEPT ![b] = Restored(c)]
            /\ tail' = [tail EXCEPT ![b] = Tail(@)]
       ELSE UNCHANGED <<env, tail>>
    /\ UNCHANGED <<aborted, saved, toNode, childVars, goVars>>

\* stdin has ended and every line was handled: abort what is active and exit.
NodeExits(b) == ~stdin[b] /\ toNode[b] = <<>> /\ Dies(b) /\ UNCHANGED toGo
=============================================================================

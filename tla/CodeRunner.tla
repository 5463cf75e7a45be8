----------------------------- MODULE CodeRunner -----------------------------
(***************************************************************************)
(* One code.run request: a program in a Node runtime that calls other      *)
(* actors' words through the node.                                         *)
(*                                                                         *)
(* The runtime (runner.mjs) is an MCP client over its stdin and stdout.    *)
(* The host (mcphost.go) reads its lines one by one, serves each tools/call*)
(* in a goroutine of its own under a semaphore, and turns the call of a    *)
(* word into a channel request that it waits for.  The handler of the      *)
(* request (execute) waits for the first of the program's end, too many    *)
(* logs, the end of its context and the end of the stream, and then stops  *)
(* the process.  Every response and the close of stdin take writeMu, and a *)
(* write to a full pipe keeps it.                                          *)
(***************************************************************************)
EXTENDS Naturals, Sequences, FiniteSets

CONSTANTS
    Word,            \* the program's calls of words, one tools/call each
    MaxConcurrency,  \* tools/call served at once (8 in the code)
    Program          \* what programs there are: [holds: the responses their
                     \* stdin pipe holds, hogs: whether they may stop yielding,
                     \* lines: the requests they may make, events: the bound on
                     \* cancellation, log overflow, expiry, crash, hogging and
                     \* the end of stdout]

\* A word is none of the names used beside words.
ASSUME WordAssumption == Word \cap {"run", "return", "fail", "hello", "none"} = {}

Run == "run"
None == "none"
Ends == {"return", "fail"}
Line == Word \cup Ends \cup {"hello"}   \* requests of the runtime, by what they are
Call == Word \cup {Run}

Verdict == {"completed", "failed"}
Local == {"cancelled", "call_failed", "output_limit", "runtime_failed", "refused"}

VARIABLES
    program,  \* the program that runs
    exec,     \* execute: where it is
    proc,     \* the runtime process: "none", "up" or "dead"
    signalled,\* SIGTERM has been sent
    stdin,    \* its stdin is open
    stdout,   \* its stdout: "open", "closed", or "overlong" from a line the host's
              \* scanner cannot hold
    done,     \* run.done is closed
    stream,   \* serve is reading; its end closes streamDone
    toHost,   \* lines on the runtime's stdout
    toRunner, \* responses in the stdin pipe
    writer,   \* the request whose response holds writeMu in a blocked write
    tool,     \* where a request of the runtime is
    say,      \* the response decided for the call of a word
    keys,     \* the ids in the pendingSet
    out,      \* the channel request of a word: "none", "open", "closed", or "left"
              \* when the host has given it up and it is open all the same
    terminal, \* the channel terminal, of one element
    finished, \* finish has been called
    exceeded, \* logs.exceeded is closed
    ctx,      \* the request's context is done
    ended,    \* the runtime has seen the end of its stdin
    hog,      \* the program never yields again
    settled,  \* how the called actor, or the program, has settled a call
    answer,   \* how the program's promise, or the request, was answered
    events

hostVars == <<exec, keys, out, terminal, finished, exceeded, ctx>>
procVars == <<proc, signalled, stdin, stdout, done, stream>>
pipeVars == <<toHost, toRunner, writer>>
vars == <<hostVars, procVars, pipeVars, tool, say, ended, hog, settled, answer, events, program>>

Init ==
    /\ program \in Program
    /\ exec = "prepare" /\ keys = {} /\ out = [w \in Word |-> "none"]
    /\ terminal = None /\ finished = FALSE /\ exceeded = FALSE /\ ctx = FALSE
    /\ proc = "none" /\ signalled = FALSE /\ stdin = TRUE /\ stdout = "open"
    /\ done = FALSE /\ stream = TRUE
    /\ toHost = <<>> /\ toRunner = <<>> /\ writer = None
    /\ tool = [l \in Line |-> "none"] /\ say = [w \in Word |-> None]
    /\ ended = FALSE /\ hog = FALSE
    /\ settled = [c \in Call |-> None] /\ answer = [c \in Call |-> None]
    /\ events = 0

Event == events < program.events /\ events' = events + 1 /\ UNCHANGED program
Goto(l, p) == tool' = [tool EXCEPT ![l] = p]
Serving == {l \in Line \ {"hello"} :
              tool[l] \in {"accepted", "called", "waiting", "responding", "finishing"}}

-----------------------------------------------------------------------------
(* The runtime.  Program steps happen while it is up and yields. *)

Alive == proc = "up" /\ ~hog

Emit(l) ==
    /\ tool[l] = "none"
    /\ Goto(l, "sent")
    /\ toHost' = IF stdout = "open" THEN Append(toHost, l) ELSE toHost

\* The handshake of main is over once its last response is in.
Started == tool["hello"] = "resolved"

\* atoll.call: a call after the end of stdin is rejected on the spot.
CallWord(w) ==
    /\ Alive /\ Started /\ w \in program.lines
    /\ tool[w] = "none"
    /\ IF ended
       THEN /\ answer' = [answer EXCEPT ![w] = "cancelled"]
            /\ Goto(w, "resolved")
            /\ UNCHANGED toHost
       ELSE Emit(w) /\ UNCHANGED answer
    /\ UNCHANGED <<hostVars, procVars, toRunner, writer, say, ended, hog, settled, events, program>>

\* main has the result of run; or fail, for a program that cannot be imported,
\* throws, returns no JSON, or leaves an exception to nobody.  That last fail is
\* awaited by nobody either: the program goes on, and main may return after it.
Finish(l) ==
    /\ Alive /\ l \in program.lines
    /\ Started \/ (l = "fail" /\ ended)
    /\ Emit(l)
    /\ UNCHANGED <<hostVars, procVars, toRunner, writer, say, ended, hog, settled, answer, events, program>>

\* The process is gone: what it had not read of its stdin is lost.
Dies ==
    /\ proc = "up"
    /\ proc' = "dead"
    /\ toRunner' = <<>>
    /\ UNCHANGED <<signalled, stdin, stdout, done, stream>>

\* receive: resolve the promise the response is for; the end of the program is
\* acknowledged by its response, and the runtime exits.
Receive ==
    /\ Alive /\ toRunner # <<>>
    /\ LET r == Head(toRunner) IN
       /\ Goto(r.line, "resolved")
       /\ answer' = IF r.line \in Word /\ answer[r.line] = None
                    THEN [answer EXCEPT ![r.line] = r.with] ELSE answer
       /\ IF r.line \in Ends THEN Dies ELSE toRunner' = Tail(toRunner) /\ UNCHANGED procVars
    /\ UNCHANGED <<hostVars, toHost, writer, say, ended, hog, settled, events, program>>

\* The end of stdin: every promise still pending is rejected, and the program
\* takes each rejection in a job of its own.
StdinEnds ==
    /\ Alive /\ ~stdin /\ toRunner = <<>> /\ ~ended
    /\ ended' = TRUE
    /\ UNCHANGED <<hostVars, procVars, pipeVars, tool, say, hog, settled, answer, events, program>>

Reject(w) ==
    /\ Alive /\ ended /\ tool[w] # "none" /\ answer[w] = None
    /\ answer' = [answer EXCEPT ![w] = "cancelled"]
    /\ UNCHANGED <<hostVars, procVars, pipeVars, tool, say, ended, hog, settled, events, program>>

Crash ==
    /\ Event /\ Dies
    /\ UNCHANGED <<hostVars, toHost, writer, tool, say, ended, hog, settled, answer>>

\* The program closes its stdout, or prints a line that is too long; it may live on.
StdoutEnds ==
    /\ Alive /\ Started /\ stdout = "open" /\ Event
    /\ stdout' \in {"closed", "overlong"}
    /\ UNCHANGED <<hostVars, proc, signalled, stdin, done, stream, pipeVars, tool, say, ended, hog,
                   settled, answer>>

Hog ==
    /\ program.hogs /\ Alive /\ Started /\ Event
    /\ hog' = TRUE
    /\ UNCHANGED <<hostVars, procVars, pipeVars, tool, say, ended, settled, answer>>

-----------------------------------------------------------------------------
(* processRun: write, Wait and the signals *)

\* cmd.Wait closes the pipe under the reader: the lines it has not taken yet
\* may be lost.
WaitReturns ==
    /\ proc = "dead" /\ ~done
    /\ done' = TRUE
    /\ \E n \in 0 .. Len(toHost) : toHost' = SubSeq(toHost, 1, n)
    /\ UNCHANGED <<proc, signalled, stdin, stdout, stream, hostVars, toRunner, writer, tool, say, ended, hog,
                   settled, answer, events, program>>

\* SIGTERM, which a program may catch, and SIGKILL after the grace period.
Killed ==
    /\ signalled /\ Dies
    /\ UNCHANGED <<hostVars, toHost, writer, tool, say, ended, hog, settled, answer, events, program>>

\* write: under writeMu.  It fails at once when stdin is closed or nobody can
\* read, goes through when the pipe has room, and otherwise blocks.
Written(l) ==
    toRunner' = Append(toRunner, [line |-> l, with |-> IF l \in Word THEN say[l] ELSE None])

\* The handler goes on from a response to the end of the run, or to its own,
\* where the deferred take gives the id back.
AfterResponse(l) ==
    /\ Goto(l, IF l \in Ends THEN "finishing" ELSE "served")
    /\ keys' = keys \ {l}
    /\ say' = [w \in Word |-> IF w = l THEN None ELSE say[w]]

Respond(l) ==
    /\ tool[l] = "responding" /\ writer \in {None, l}
    /\ \/ /\ ~stdin \/ proc = "dead"
          /\ AfterResponse(l) /\ writer' = None /\ UNCHANGED toRunner
       \/ /\ stdin /\ proc = "up" /\ Len(toRunner) < program.holds
          /\ AfterResponse(l) /\ writer' = None /\ Written(l)
       \/ /\ stdin /\ proc = "up" /\ Len(toRunner) = program.holds
          /\ writer = None /\ writer' = l /\ UNCHANGED <<toRunner, tool, say, keys>>
    /\ UNCHANGED <<exec, out, terminal, finished, exceeded, ctx, procVars, toHost, ended, hog, settled,
                   answer, events, program>>

-----------------------------------------------------------------------------
(* mcpHost: serve, handleToolCall *)

\* serve answers the handshake itself and hands a tools/call to a goroutine
\* once the semaphore has a place; until then it reads nothing.  The goroutine
\* of atoll_return or atoll_fail responds first ...
ReaderFree == tool["hello"] # "responding"

PlaceFree == Cardinality(Serving) < MaxConcurrency

ReadLine ==
    /\ stream /\ ReaderFree /\ toHost # <<>>
    /\ LET l == Head(toHost) IN
       /\ l # "hello" => PlaceFree
       /\ Goto(l, IF l \in Word THEN "accepted" ELSE "responding")
    /\ toHost' = Tail(toHost)
    /\ UNCHANGED <<hostVars, procVars, toRunner, writer, say, ended, hog, settled, answer, events, program>>

\* The end of the stream, with the process or before it.  A line that is too long,
\* and a pipe that Wait has closed under the scanner, is a read error, which serve
\* counts as too much output.
StreamEnds ==
    /\ stream /\ ReaderFree /\ toHost = <<>> /\ (proc = "dead" \/ stdout # "open")
    /\ stream' = FALSE
    /\ \/ stdout # "overlong" /\ UNCHANGED exceeded
       \/ (stdout = "overlong" \/ done) /\ exceeded' = TRUE
    /\ UNCHANGED <<exec, keys, out, terminal, finished, ctx, proc, signalled, stdin, stdout, done,
                   pipeVars, tool, say, ended, hog, settled, answer, events, program>>

\* Variant: every end counts.
AnyEnd == TRUE

\* ... and then finishes the run, once.
FirstEnd == ~finished

FinishRun(l) ==
    /\ l \in Ends /\ tool[l] = "finishing"
    /\ Goto(l, "served")
    /\ IF FirstEnd
       THEN LET v == IF l = "return" THEN "completed" ELSE "failed" IN
            /\ finished' = TRUE
            /\ terminal' = v
            /\ settled' = [settled EXCEPT ![Run] = v]
       ELSE UNCHANGED <<terminal, finished, settled>>
    /\ UNCHANGED <<exec, keys, out, exceeded, ctx, procVars, pipeVars, say, ended, hog, answer, events, program>>

\* The call of a word: reserve its id and post the channel request, unless
\* that fails.
HandleWord(w) ==
    /\ w \in Word /\ tool[w] = "accepted"
    /\ keys' = keys \cup {w}
    /\ \/ /\ out' = [out EXCEPT ![w] = "open"]
          /\ Goto(w, "called")
          /\ UNCHANGED say
       \/ /\ say' = [say EXCEPT ![w] = "call_failed"]
          /\ Goto(w, "responding")
          /\ UNCHANGED out
    /\ UNCHANGED <<exec, terminal, finished, exceeded, ctx, procVars, pipeVars, ended, hog,
                   settled, answer, events, program>>

\* pendingTicket.Cancel: the call is closed unless its answer has landed.
Cancelled(ws) ==
    [w \in Word |-> IF w \in ws /\ out[w] \in {"open", "left"} /\ settled[w] = None
                    THEN "closed" ELSE out[w]]

\* Variant: attach puts the ticket into the set's old map.
AttachAnyway(w) ==
    /\ w \in Word /\ tool[w] = "called"
    /\ Goto(w, "waiting")
    /\ UNCHANGED <<exec, keys, out, terminal, finished, exceeded, ctx, procVars, pipeVars, say, ended,
                   hog, settled, answer, events, program>>

\* attach: the id is gone when the run was cancelled meanwhile.
Attach(w) ==
    /\ w \in Word /\ tool[w] = "called"
    /\ IF w \in keys
       THEN Goto(w, "waiting") /\ UNCHANGED out
       ELSE Goto(w, "served") /\ out' = Cancelled({w})
    /\ UNCHANGED <<exec, keys, terminal, finished, exceeded, ctx, procVars, pipeVars, say, ended, hog,
                   settled, answer, events, program>>

\* Wait returns the answer when it has landed, whatever woke it.  Otherwise the
\* call was closed, the context is done, or the deadline of the call has passed;
\* that last one is no error of Wait, and the call is not cancelled.
WaitOver(w) ==
    \/ /\ settled[w] # None
       /\ say' = [say EXCEPT ![w] = settled[w]]
       /\ out' = [out EXCEPT ![w] = "closed"]
    \/ /\ settled[w] = None /\ ctx
       /\ say' = [say EXCEPT ![w] = "cancelled"]
       /\ out' = Cancelled({w})
    \/ /\ settled[w] = None
       /\ say' = [say EXCEPT ![w] = "call_failed"]
       /\ out' = [out EXCEPT ![w] = IF @ = "open" THEN "left" ELSE @]

\* Variant: the handler returns without a response.
WaitEndsMute(w) ==
    /\ w \in Word /\ tool[w] = "waiting"
    /\ WaitOver(w)
    /\ keys' = keys \ {w}
    /\ Goto(w, "served")
    /\ UNCHANGED <<exec, terminal, finished, exceeded, ctx, procVars, pipeVars, ended, hog,
                   settled, answer, events, program>>

\* The response follows.
WaitEnds(w) ==
    /\ w \in Word /\ tool[w] = "waiting"
    /\ WaitOver(w)
    /\ Goto(w, "responding")
    /\ UNCHANGED <<exec, keys, terminal, finished, exceeded, ctx, procVars, pipeVars, ended, hog,
                   settled, answer, events, program>>

\* The called actor answers.
Answers(w) ==
    /\ out[w] \in {"open", "left"} /\ settled[w] = None
    /\ \E v \in Verdict : settled' = [settled EXCEPT ![w] = v]
    /\ UNCHANGED <<hostVars, procVars, pipeVars, tool, say, ended, hog, answer, events, program>>

-----------------------------------------------------------------------------
(* execute *)

\* The input, the required actors, the program file and the process.
Prepare ==
    /\ exec = "prepare"
    /\ \/ /\ exec' = "select" /\ proc' = "up"
          /\ toHost' = <<"hello">> /\ Goto("hello", "sent")
          /\ UNCHANGED <<answer, ctx>>
       \/ /\ exec' = "ended"
          /\ answer' = [answer EXCEPT ![Run] = "refused"] /\ ctx' = TRUE
          /\ UNCHANGED <<proc, toHost, tool>>
    /\ UNCHANGED <<keys, out, terminal, finished, exceeded, signalled, stdin, stdout, done, stream, toRunner,
                   writer, say, ended, hog, settled, events, program>>

CancelAll ==
    /\ out' = Cancelled({w \in keys : tool[w] \in {"waiting", "responding"}})
    /\ keys' = {}

\* stop: the lock of the writers first, then stdin and the signals.
StopRuntime ==
    /\ writer = None
    /\ stdin' = FALSE
    /\ signalled' = TRUE
    /\ UNCHANGED <<proc, stdout, done, stream>>

\* Reply and Fail close the request, which ends its context.
AnswerRun(v) ==
    /\ answer' = [answer EXCEPT ![Run] = v]
    /\ ctx' = TRUE
    /\ exec' = "answered"

\* The select, on the first of four; the program's end is answered at once
\* unless there was too much output ...
SelectTerminal ==
    /\ exec = "select" /\ terminal # None
    /\ CancelAll
    /\ terminal' = None
    /\ IF exceeded
       THEN exec' = "output_limit" /\ UNCHANGED <<answer, ctx>>
       ELSE AnswerRun(settled[Run])
    /\ UNCHANGED <<finished, exceeded, procVars, pipeVars, tool, say, ended, hog, settled, events, program>>

\* Variant: the end of the stream is not one of them.
SelectNoStream ==
    /\ exec = "select"
    /\ \/ exceeded /\ exec' = "output_limit"
       \/ ctx /\ exec' = "cancelled"
    /\ UNCHANGED <<keys, out, terminal, finished, exceeded, ctx, procVars, pipeVars, tool, say, ended, hog,
                   settled, answer, events, program>>

SelectOther ==
    /\ exec = "select"
    /\ \/ exceeded /\ exec' = "output_limit"
       \/ ctx /\ exec' = "cancelled"
       \/ ~stream /\ exec' = "runtime_failed"
    /\ UNCHANGED <<keys, out, terminal, finished, exceeded, ctx, procVars, pipeVars, tool, say, ended, hog,
                   settled, answer, events, program>>

\* ... and the others stop the process before they answer, or wait for it: for the
\* process alone, its context is not looked at any more.
StopAndFail ==
    /\ exec \in {"output_limit", "cancelled"}
    /\ StopRuntime /\ CancelAll /\ AnswerRun(exec)
    /\ UNCHANGED <<terminal, finished, exceeded, pipeVars, tool, say, ended, hog, settled, events, program>>

ExitAndFail ==
    /\ exec = "runtime_failed" /\ done
    /\ AnswerRun(exec)
    /\ UNCHANGED <<keys, out, terminal, finished, exceeded, procVars, pipeVars, tool, say, ended, hog,
                   settled, events, program>>

\* The deferred cancelAll and stop; then execute waits for the process, but
\* not for ever.
Cleanup ==
    /\ exec = "answered"
    /\ CancelAll /\ StopRuntime
    /\ exec' = "ended"
    /\ UNCHANGED <<terminal, finished, exceeded, ctx, pipeVars, tool, say, ended, hog, settled,
                   answer, events, program>>

-----------------------------------------------------------------------------
(* The world *)

\* The request is cancelled or passes its deadline.
Cancel ==
    /\ ~ctx /\ Event /\ ctx' = TRUE
    /\ UNCHANGED <<exec, keys, out, terminal, finished, exceeded, procVars, pipeVars, tool, say,
                   ended, hog, settled, answer>>

\* The program's logs pass maxLogs.
TooManyLogs ==
    /\ Alive /\ Started /\ ~exceeded /\ Event /\ exceeded' = TRUE
    /\ UNCHANGED <<exec, keys, out, terminal, finished, ctx, procVars, pipeVars, tool, say,
                   ended, hog, settled, answer>>

\* The durable deadline of a call.
Expire(w) ==
    /\ out[w] \in {"open", "left"} /\ settled[w] = None /\ Event
    /\ out' = [out EXCEPT ![w] = "closed"]
    /\ UNCHANGED <<exec, keys, terminal, finished, exceeded, ctx, procVars, pipeVars, tool, say,
                   ended, hog, settled, answer>>

-----------------------------------------------------------------------------
RuntimeStep ==
    \/ Receive \/ StdinEnds \/ WaitReturns \/ Killed
    \/ \E w \in Word : Reject(w)

HostStep ==
    \/ ReadLine \/ StreamEnds
    \/ \E l \in Line : Respond(l)
    \/ \E l \in Ends : FinishRun(l)
    \/ \E w \in Word : HandleWord(w) \/ Attach(w) \/ WaitEnds(w)

ExecuteStep == Prepare \/ SelectTerminal \/ SelectOther \/ StopAndFail \/ ExitAndFail \/ Cleanup

\* What the code does by itself ...
Code == RuntimeStep \/ HostStep \/ ExecuteStep

\* ... and what the program, the actors it calls and the caller may do.
World ==
    \/ \E w \in Word : CallWord(w) \/ Answers(w) \/ Expire(w)
    \/ \E l \in Ends : Finish(l)
    \/ Crash \/ StdoutEnds \/ Hog \/ Cancel \/ TooManyLogs

Next == Code \/ World

Spec == Init /\ [][Next]_vars
LiveSpec == Spec /\ WF_vars(Code)

-----------------------------------------------------------------------------
(* Properties *)

Stage == {"none", "sent", "accepted", "called", "waiting", "responding", "finishing", "served",
          "resolved"}

\* The pendingSet and the handlers agree: a call that is open is in the set, or
\* about to be attached or cancelled, or already answered; after
\* cancelAll no handler waits for a call that nobody can cancel.
OpenIsTracked ==
    \A w \in Word : out[w] = "open" =>
        \/ tool[w] = "called"
        \/ w \in keys
        \/ settled[w] # None

\* A program that was told of the end of its run has been told by the host:
\* the run is only answered with what atoll_return or atoll_fail said first,
\* and no promise with anything but its own call's answer.
Contract == INSTANCE CallContract WITH Nothing <- None
CallsKeepContract == Contract!Spec

\* The stream ended before the process, and execute waits for a process that nobody
\* has told to stop.
Stranded == exec = "runtime_failed" /\ proc = "up"

\* The request is answered once the program has returned or failed, its logs
\* are too many, its context is done or its process is gone: a return that
\* waits behind calls for a place in the semaphore is read in the end.  Only the
\* program that ends its stdout and lives on is not: execute waits for it.
RunAnswered ==
    []<>((\/ exceeded \/ ctx \/ proc = "dead"
          \/ \E l \in Ends : tool[l] # "none") => answer[Run] # None \/ Stranded)

\* Nothing of a run hangs.  Once it is answered or over, no call that its handlers
\* held is left open, and no process: stop gets writeMu in the end, and the signals
\* do the rest.  No promise of a program that lives and yields is left pending:
\* its call is answered, or, like the ones that attach drops, rejected when stdin
\* ends; only execute stranded on a process leaves it so.
NothingHangs ==
    /\ []<>(exec \in {"answered", "ended"} =>
              /\ proc # "up"
              /\ \A w \in Word : out[w] = "open" => settled[w] # None)
    /\ []<>(Alive /\ ~Stranded => \A w \in Word : tool[w] # "none" => answer[w] # None)

\* The comment of pendingSet: every request in flight is tracked so that the
\* run's end can cancel it.
InFlightIsTracked ==
    \A w \in Word : out[w] \in {"open", "left"} /\ settled[w] = None => tool[w] = "called" \/ w \in keys
=============================================================================

-------------------------- MODULE CodeRunnerProofs --------------------------
(***************************************************************************)
(* What a run of a program keeps for every set of words, every program and *)
(* every concurrency: the contract of its calls and of the request itself, *)
(* and the tracking of the channel requests it has open.                   *)
(***************************************************************************)
EXTENDS CodeRunner, TLAPS

-----------------------------------------------------------------------------
(* The inductive invariants *)

Pre == {"prepare", "select", "output_limit", "cancelled", "runtime_failed"}

\* What a response may say of the call of a word, given how it was settled.
Sayable(v, w) == v \in Local \/ (v = settled[w] /\ v # None)

Said == Verdict \cup Local \cup {None}
Response == [line : Line, with : Said]

DataType ==
    /\ tool \in [Line -> Stage]
    /\ say \in [Word -> Said]
    /\ settled \in [Call -> Verdict \cup {None}]
    /\ answer \in [Call -> Said]
    /\ toHost \in Seq(Line)
    /\ toRunner \in Seq(Response)

\* What is about to be said, or on its way, is what the call was settled with
\* or a local outcome; a word nobody has called has no answer.
SaysAreReal ==
    /\ \A w \in Word : tool[w] = "responding" => Sayable(say[w], w)
    /\ \A i \in 1 .. Len(toRunner) :
         toRunner[i].line \in Word => Sayable(toRunner[i].with, toRunner[i].line)
    /\ \A w \in Word : tool[w] = "none" => answer[w] = None

\* The request is unanswered until execute answers it, and the channel terminal
\* holds nothing but the first end of the program.
RunIsOpen ==
    /\ exec \in Pre => answer[Run] = None
    /\ ~finished => settled[Run] = None
    /\ terminal # None => settled[Run] # None

RunInv == DataType /\ SaysAreReal /\ RunIsOpen

-----------------------------------------------------------------------------
\* Every step keeps what is said, answered and settled together.
LEMMA RunStep ==
    ASSUME [Next]_vars, RunInv
    PROVE  RunInv'
<1> USE WordAssumption DEF RunInv, DataType, SaysAreReal, RunIsOpen, Sayable, Line, Call, Ends, Run,
                           None, Stage, Pre, procVars, hostVars, pipeVars
<1>0. /\ None \in Said /\ Local \subseteq Said /\ Verdict \subseteq Said /\ None \notin Local \cup Verdict
      /\ {"cancelled", "call_failed", "output_limit", "runtime_failed", "refused"} \subseteq Local
      /\ {"completed", "failed"} \subseteq Verdict
  BY Zenon DEF Said, Local, Verdict
<1>1. CASE Receive
  <2>1. Head(toRunner) \in Response /\ toRunner # <<>> /\ Head(toRunner) = toRunner[1]
    BY <1>1 DEF Receive
  <2>2. Head(toRunner).line \in Word => Sayable(Head(toRunner).with, Head(toRunner).line)
    BY <2>1
  <2>3. /\ toRunner' \in Seq(Response)
        /\ \A i \in 1 .. Len(toRunner') :
             toRunner'[i].line \in Word => Sayable(toRunner'[i].with, toRunner'[i].line)
    <3>1. toRunner' = <<>> \/ toRunner' = Tail(toRunner)
      BY <1>1, Zenon DEF Receive, Dies
    <3>2. UNCHANGED settled
      BY <1>1, Zenon DEF Receive
    <3>3. Tail(toRunner) \in Seq(Response) /\ Len(Tail(toRunner)) = Len(toRunner) - 1
          /\ \A i \in 1 .. Len(Tail(toRunner)) : Tail(toRunner)[i] = toRunner[i + 1]
      BY <2>1
    <3>4. <<>> \in Seq(Response) /\ Len(<<>>) = 0
      OBVIOUS
    <3>5. CASE toRunner' = <<>>
      BY <3>4, <3>5
    <3>6. CASE toRunner' = Tail(toRunner)
      <4>1. ASSUME NEW i \in 1 .. Len(Tail(toRunner)), Tail(toRunner)[i].line \in Word
            PROVE  Sayable(Tail(toRunner)[i].with, Tail(toRunner)[i].line)
        <5>1. i + 1 \in 1 .. Len(toRunner)
          BY <2>1, <3>3
        <5>. QED  BY <3>3, <4>1, <5>1
      <4>. QED  BY <3>2, <3>3, <3>6, <4>1, Zenon
    <3>. QED  BY <3>1, <3>5, <3>6, Zenon
  <2>4. Head(toRunner).line \in Line /\ Head(toRunner).with \in Said
    BY <2>1, Zenon DEF Response
  <2>. QED  BY <1>0, <1>1, <2>2, <2>3, <2>4, Zenon DEF Receive, Goto
<1>2. CASE WaitReturns
  <2>1. \A n \in 0 .. Len(toHost) : SubSeq(toHost, 1, n) \in Seq(Line)
    OBVIOUS
  <2>. QED  BY <1>0, <1>2, <2>1 DEF WaitReturns
<1>3. CASE Killed \/ Crash
  <2>1. toRunner' = <<>> /\ <<>> \in Seq(Response) /\ Len(<<>>) = 0
    BY <1>3 DEF Killed, Crash, Dies
  <2>2. UNCHANGED <<hostVars, toHost, tool, say, settled, answer>>
    BY <1>3, Zenon DEF Killed, Crash
  <2>. QED  BY <2>1, <2>2
<1>4. ASSUME NEW w \in Word, Reject(w)
      PROVE  RunInv'
  BY <1>0, <1>4, Zenon DEF Reject
<1>5. CASE ReadLine
  <2>1. Head(toHost) \in Line /\ Tail(toHost) \in Seq(Line)
    BY <1>0, <1>5 DEF ReadLine
  <2>. QED  BY <1>0, <1>5, <2>1, Zenon DEF ReadLine, Goto
<1>6. ASSUME NEW l \in Line, Respond(l)
      PROVE  RunInv'
  <2>1. CASE UNCHANGED <<toRunner, tool, say>>
    BY <1>0, <1>6, <2>1, Zenon DEF Respond
  <2>2. CASE AfterResponse(l) /\ UNCHANGED toRunner
    BY <1>0, <1>6, <2>2, Zenon DEF Respond, AfterResponse, Goto
  <2>3. CASE AfterResponse(l) /\ Written(l)
    <3> DEFINE r == [line |-> l, with |-> IF l \in Word THEN say[l] ELSE None]
    <3>1. r \in Response
      BY <1>0, Zenon DEF Response
    <3>2. l \in Word => Sayable(say[l], l)
      BY <1>0, <1>6, Zenon DEF Respond
    <3>3. toRunner' = Append(toRunner, r)
      BY <2>3, Zenon DEF Written
    <3>4. /\ toRunner' \in Seq(Response)
          /\ \A i \in 1 .. Len(toRunner') :
               toRunner'[i].line \in Word => Sayable(toRunner'[i].with, toRunner'[i].line)
      BY <3>1, <3>2, <3>3
    <3>. QED  BY <1>0, <1>6, <2>3, <3>4, Zenon DEF Respond, AfterResponse, Goto
  <2>. QED  BY <1>0, <1>6, <2>1, <2>2, <2>3, Zenon DEF Respond
<1>7. ASSUME NEW l \in Ends, FinishRun(l)
      PROVE  RunInv'
  BY <1>0, <1>7 DEF FinishRun, FirstEnd, Goto
<1>8. ASSUME NEW w \in Word, HandleWord(w) \/ Attach(w)
      PROVE  RunInv'
  <2>0. ASSUME HandleWord(w)
        PROVE  /\ UNCHANGED <<exec, terminal, finished, pipeVars, settled, answer>>
               /\ \/ tool' = [tool EXCEPT ![w] = "called"] /\ UNCHANGED say
                  \/ /\ tool' = [tool EXCEPT ![w] = "responding"]
                     /\ say' = [say EXCEPT ![w] = "call_failed"]
    BY <2>0, Zenon DEF HandleWord, Goto
  <2>1. CASE HandleWord(w) /\ tool' = [tool EXCEPT ![w] = "called"] /\ UNCHANGED say
    BY <1>0, <2>0, <2>1, Zenon
  <2>2. CASE /\ HandleWord(w) /\ tool' = [tool EXCEPT ![w] = "responding"]
             /\ say' = [say EXCEPT ![w] = "call_failed"]
    <3>1. UNCHANGED <<exec, terminal, finished, toHost, toRunner, settled, answer>>
      BY <2>0, <2>2, Zenon
    <3>2. DataType' /\ RunIsOpen'
      BY <1>0, <2>2, <3>1, Zenon
    <3>3. SaysAreReal'
      BY <1>0, <2>2, <3>1, Zenon
    <3>. QED  BY <3>2, <3>3, Zenon
  <2>3. CASE Attach(w)
    <3>1. /\ UNCHANGED <<exec, terminal, finished, toHost, toRunner, say, settled, answer>>
          /\ tool[w] = "called"
          /\ \/ tool' = [tool EXCEPT ![w] = "waiting"]
             \/ tool' = [tool EXCEPT ![w] = "served"]
      BY <2>3, Zenon DEF Attach, Goto
    <3>2. tool' \in [Line -> Stage] /\ tool'[w] \in {"waiting", "served"}
          /\ \A x \in Word : x # w => tool'[x] = tool[x]
      BY <3>1, Zenon
    <3>3. DataType' /\ RunIsOpen'
      BY <3>1, <3>2, Zenon
    <3>4. SaysAreReal'
      BY <1>0, <3>1, <3>2, Zenon
    <3>. QED  BY <3>3, <3>4, Zenon
  <2>. QED  BY <1>8, <2>0, <2>1, <2>2, <2>3, Zenon
<1>9. ASSUME NEW w \in Word, WaitEnds(w)
      PROVE  RunInv'
  <2>1. /\ UNCHANGED <<exec, terminal, finished, toHost, toRunner, settled, answer>>
        /\ tool[w] = "waiting" /\ tool' = [tool EXCEPT ![w] = "responding"]
    BY <1>9, Zenon DEF WaitEnds, Goto
  <2>2. PICK v \in Said : say' = [say EXCEPT ![w] = v] /\ Sayable(v, w)
    BY <1>0, <1>9, Zenon DEF WaitEnds, WaitOver
  <2>3. /\ tool' \in [Line -> Stage] /\ say' \in [Word -> Said]
        /\ tool'[w] = "responding" /\ say'[w] = v
        /\ \A x \in Word : x # w => tool'[x] = tool[x] /\ say'[x] = say[x]
    BY <2>1, <2>2, Zenon
  <2>4. DataType' /\ RunIsOpen'
    BY <2>1, <2>3, Zenon
  <2>5. SaysAreReal'
    <3>1. ASSUME NEW x \in Word, tool'[x] = "responding"
          PROVE  say'[x] \in Local \/ (say'[x] = settled[x] /\ say'[x] # None)
      <4>1. CASE x = w
        BY <2>2, <2>3, <4>1, Zenon
      <4>2. CASE x # w
        BY <2>3, <3>1, <4>2, Zenon
      <4>. QED  BY <4>1, <4>2, Zenon
    <3>2. ASSUME NEW x \in Word, tool'[x] = "none"
          PROVE  answer'[x] = None
      BY <2>1, <2>3, <3>2, Zenon
    <3>. QED  BY <2>1, <3>1, <3>2, Zenon
  <2>. QED  BY <2>4, <2>5, Zenon
<1>10. CASE Prepare
  <2>1. <<"hello">> \in Seq(Line)
    OBVIOUS
  <2>2. CASE exec' = "select"
    <3>1. /\ toHost' = <<"hello">> /\ tool' = [tool EXCEPT !["hello"] = "sent"]
          /\ UNCHANGED <<answer, toRunner, say, settled, terminal, finished>>
      BY <1>10, <2>2, Zenon DEF Prepare, Goto
    <3>2. DataType'
      BY <2>1, <3>1, Zenon
    <3>3. SaysAreReal'
      BY <3>1, Zenon
    <3>4. RunIsOpen'
      BY <1>10, <3>1 DEF Prepare
    <3>. QED  BY <3>2, <3>3, <3>4, Zenon
  <2>3. CASE exec' # "select"
    BY <1>0, <1>10, <2>3 DEF Prepare
  <2>. QED  BY <2>2, <2>3, Zenon
<1>11. CASE SelectTerminal
  BY <1>0, <1>11 DEF SelectTerminal, AnswerRun, CancelAll
<1>12. CASE SelectOther
  BY <1>0, <1>12, Zenon DEF SelectOther
<1>13. CASE StopAndFail
  BY <1>0, <1>13 DEF StopAndFail, StopRuntime, CancelAll, AnswerRun
<1>14. CASE ExitAndFail
  BY <1>0, <1>14, Zenon DEF ExitAndFail, AnswerRun
<1>15. CASE Cleanup
  BY <1>0, <1>15, Zenon DEF Cleanup, StopRuntime, CancelAll
<1>16. ASSUME NEW w \in Word, CallWord(w)
      PROVE  RunInv'
  <2>1. Append(toHost, w) \in Seq(Line)
    OBVIOUS
  <2>2. CASE ended
    BY <1>0, <1>16, <2>2 DEF CallWord, Goto
  <2>3. CASE ~ended
    <3>1. /\ toHost' \in {toHost, Append(toHost, w)} /\ tool' = [tool EXCEPT ![w] = "sent"]
          /\ UNCHANGED <<answer, toRunner, say, settled, hostVars>>
      BY <1>16, <2>3, Zenon DEF CallWord, Emit, Goto
    <3>2. DataType'
      BY <2>1, <3>1, Zenon
    <3>3. SaysAreReal'
      BY <3>1, Zenon
    <3>. QED  BY <3>1, <3>2, <3>3, Zenon
  <2>. QED  BY <2>2, <2>3, Zenon
<1>17. ASSUME NEW w \in Word, Answers(w)
      PROVE  RunInv'
  BY <1>0, <1>17 DEF Answers
<1>18. ASSUME NEW l \in Ends, Finish(l)
      PROVE  RunInv'
  BY <1>0, <1>18 DEF Finish, Emit, Goto
<1>19. CASE StdinEnds \/ StreamEnds \/ StdoutEnds \/ Hog \/ Cancel \/ TooManyLogs \/ \E w \in Word : Expire(w)
  BY <1>0, <1>19 DEF StdinEnds, StreamEnds, StdoutEnds, Hog, Cancel, TooManyLogs, Expire
<1>20. CASE UNCHANGED vars
  BY <1>20, Zenon DEF vars
<1>. QED  BY <1>1, <1>2, <1>3, <1>4, <1>5, <1>6, <1>7, <1>8, <1>9, <1>10, <1>11, <1>12, <1>13, Zenon,
             <1>14, <1>15, <1>16, <1>17, <1>18, <1>19, <1>20
          DEF Next, Code, World, RuntimeStep, HostStep, ExecuteStep

\* The run's invariant holds of every behaviour.
THEOREM RunInvariant == Spec => []RunInv
<1>1. Init => RunInv
  <2> SUFFICES ASSUME Init
               PROVE  RunInv
    BY Zenon
  <2>1. DataType
    BY DEF Init, DataType, Stage, Said, Response
  <2>2. SaysAreReal
    <3>1. Len(toRunner) = 0
      BY Zenon DEF Init
    <3>. QED  BY <3>1, WordAssumption DEF Init, SaysAreReal, Line, Call
  <2>3. RunIsOpen
    BY Zenon DEF Init, RunIsOpen, Call
  <2>. QED  BY <2>1, <2>2, <2>3, Zenon DEF RunInv
<1>2. RunInv /\ [Next]_vars => RunInv'
  BY RunStep, Zenon
<1>. QED  BY <1>1, <1>2, PTL DEF Spec

-----------------------------------------------------------------------------
(* The refinement: settled and answer are the contract's own *)

\* Every step is a step of the contract, or none of its business.
LEMMA StepKeepsContract ==
    ASSUME [Next]_vars, RunInv
    PROVE  [Contract!Next]_(Contract!contractVars)
<1> USE WordAssumption DEF RunInv, DataType, Call, Run, None
<1>0. /\ None \notin Local \cup Verdict
      /\ {"cancelled", "call_failed", "output_limit", "runtime_failed", "refused"} \subseteq Local
      /\ {"completed", "failed"} \subseteq Verdict
  BY Zenon DEF Local, Verdict
<1> SUFFICES Contract!Next \/ UNCHANGED <<settled, answer>>
  BY Zenon DEF Contract!contractVars
<1>1. ASSUME NEW c \in Call, answer[c] = None, NEW o \in Local,
             answer' = [answer EXCEPT ![c] = o], UNCHANGED settled
      PROVE  Contract!Next
  BY <1>1, Zenon DEF Contract!Next, Contract!Answer
<1>2. CASE Receive
  <2> DEFINE r == Head(toRunner)
  <2>1. toRunner # <<>> /\ r = toRunner[1]
    BY <1>2 DEF Receive
  <2>2. r.line \in Word => Sayable(r.with, r.line)
    BY <2>1 DEF SaysAreReal
  <2>3. /\ UNCHANGED settled
        /\ answer' = IF r.line \in Word /\ answer[r.line] = None
                     THEN [answer EXCEPT ![r.line] = r.with] ELSE answer
    BY <1>2, Zenon DEF Receive
  <2> HIDE DEF r
  <2>. QED  BY <1>0, <2>2, <2>3, Zenon DEF Contract!Next, Contract!Answer, Sayable
<1>3. ASSUME NEW w \in Word, Reject(w) \/ CallWord(w)
      PROVE  Contract!Next \/ UNCHANGED <<settled, answer>>
  BY <1>0, <1>1, <1>3, Zenon DEF Reject, CallWord, SaysAreReal
<1>4. ASSUME NEW l \in Ends, FinishRun(l)
      PROVE  Contract!Next \/ UNCHANGED <<settled, answer>>
  BY <1>0, <1>4, Zenon DEF FinishRun, FirstEnd, RunIsOpen, Contract!Next, Contract!Settle
<1>5. ASSUME NEW w \in Word, Answers(w)
      PROVE  Contract!Next
  BY <1>5, Zenon DEF Answers, Contract!Next, Contract!Settle
<1>6. CASE Prepare \/ StopAndFail \/ ExitAndFail
  <2>1. answer[Run] = None
    BY <1>6, Zenon DEF Prepare, StopAndFail, ExitAndFail, RunIsOpen, Pre
  <2>2. CASE Prepare
    BY <1>0, <1>1, <2>1, <2>2, Zenon DEF Prepare
  <2>3. CASE StopAndFail \/ ExitAndFail
    <3>1. exec \in Local /\ answer' = [answer EXCEPT ![Run] = exec] /\ UNCHANGED settled
      BY <1>0, <2>3, Zenon DEF StopAndFail, ExitAndFail, AnswerRun
    <3>. QED  BY <1>1, <2>1, <3>1, Zenon
  <2>. QED  BY <1>6, <2>2, <2>3, Zenon
<1>7. CASE SelectTerminal
  BY <1>7, Zenon DEF SelectTerminal, AnswerRun, RunIsOpen, Pre, Contract!Next, Contract!Answer
<1>8. CASE UNCHANGED vars
  BY <1>8, Zenon DEF vars
<1>9. CASE StdinEnds \/ WaitReturns \/ Killed \/ ReadLine \/ StreamEnds \/ \E l \in Line : Respond(l)
  BY <1>9, Zenon DEF StdinEnds, WaitReturns, Killed, ReadLine, StreamEnds, Respond
<1>10. CASE \E w \in Word : HandleWord(w) \/ Attach(w) \/ WaitEnds(w) \/ Expire(w)
  BY <1>10, Zenon DEF HandleWord, Attach, WaitEnds, Expire
<1>11. CASE SelectOther \/ Cleanup \/ (\E l \in Ends : Finish(l)) \/ Crash \/ StdoutEnds \/ Hog \/ Cancel \/ TooManyLogs
  BY <1>11, Zenon DEF SelectOther, Cleanup, Finish, Crash, StdoutEnds, Hog, Cancel, TooManyLogs
<1>. QED  BY <1>2, <1>3, <1>4, <1>5, <1>6, <1>7, <1>8, <1>9, <1>10, <1>11, Zenon
          DEF Next, Code, World, RuntimeStep, HostStep, ExecuteStep

\* execute_unix.go, mcphost.go and runner.mjs: the request is answered at most
\* once, with the first end of its program or a local failure; a promise of the
\* program at most once, with its own call's answer, a failure of the host or
\* the end of stdin.
THEOREM RunKeepsContract == Spec => CallsKeepContract
<1>1. Init => Contract!Init
  BY Zenon DEF Init, Contract!Init
<1>2. RunInv /\ [Next]_vars => [Contract!Next]_(Contract!contractVars)
  BY StepKeepsContract, Zenon
<1>. QED  BY <1>1, <1>2, RunInvariant, PTL DEF Spec, CallsKeepContract, Contract!Spec

-----------------------------------------------------------------------------
(* The channel requests a run has open *)

\* A request of the runtime is in one place: on its way to the host once, with
\* its handler, or on its way back.
LinesAreOnce ==
    /\ \A i \in 1 .. Len(toHost) : tool[toHost[i]] = "sent"
    /\ \A i, j \in 1 .. Len(toHost) : toHost[i] = toHost[j] => i = j
    /\ \A i \in 1 .. Len(toRunner) : tool[toRunner[i].line] \in {"served", "finishing", "resolved"}
    /\ exec = "prepare" => proc = "none" /\ toRunner = <<>>

\* A call that is open and unanswered has a handler, and once that handler
\* waits, an entry in the pendingSet.
WaitIsTracked ==
    /\ out \in [Word -> {"none", "open", "left", "closed"}]
    /\ \A w \in Word : out[w] = "open" /\ settled[w] = None =>
         tool[w] = "called" \/ (tool[w] = "waiting" /\ w \in keys)

\* Every request of the runtime stays in one place.
LEMMA LineStep ==
    ASSUME [Next]_vars, RunInv, LinesAreOnce
    PROVE  LinesAreOnce'
<1> USE WordAssumption DEF RunInv, DataType, LinesAreOnce, procVars, hostVars, pipeVars
<1>0. /\ \A i \in 1 .. Len(toHost) : toHost[i] \in Line
      /\ \A i \in 1 .. Len(toRunner) : toRunner[i].line \in Line
      /\ Word \subseteq Line /\ Ends \subseteq Line
  <2>1. Word \subseteq Line /\ Ends \subseteq Line
    BY Zenon DEF Line
  <2>2. \A i \in 1 .. Len(toHost) : toHost[i] \in Line
    OBVIOUS
  <2>3. \A i \in 1 .. Len(toRunner) : toRunner[i] \in Response
    OBVIOUS
  <2>4. \A x \in Response : x.line \in Line
    BY Zenon DEF Response
  <2>. QED  BY <2>1, <2>2, <2>3, <2>4, Zenon
<1>1. ASSUME UNCHANGED <<tool, toHost, toRunner>>,
             exec' # "prepare" \/ UNCHANGED <<exec, proc>>
      PROVE  LinesAreOnce'
  BY <1>1, Zenon
<1>2. ASSUME NEW l \in Line, tool[l] = "none", tool' = [tool EXCEPT ![l] = "sent"],
             toHost' = Append(toHost, l), UNCHANGED <<toRunner, exec, proc>>
      PROVE  LinesAreOnce'
  <2>1. \A i \in 1 .. Len(toHost) : toHost[i] # l
    BY <1>2, Zenon
  <2>2. /\ \A i \in 1 .. Len(toHost') : tool'[toHost'[i]] = "sent"
        /\ \A i, j \in 1 .. Len(toHost') : toHost'[i] = toHost'[j] => i = j
    BY <1>0, <1>2, <2>1
  <2>3. \A i \in 1 .. Len(toRunner) : toRunner[i].line # l
    BY <1>2, Zenon
  <2>. QED  BY <1>0, <1>2, <2>2, <2>3, Zenon
\* A handler goes on: neither pipe holds its line, or the way back does.
<1>3. ASSUME NEW l \in Line, NEW p \in Stage, tool' = [tool EXCEPT ![l] = p],
             \/ tool[l] \notin {"sent", "served", "finishing", "resolved"}
             \/ tool[l] = "finishing" /\ p = "served",
             UNCHANGED <<toHost, toRunner, exec, proc>>
      PROVE  LinesAreOnce'
  <2>1. \A i \in 1 .. Len(toHost) : toHost[i] # l
    BY <1>3, Zenon
  <2>2. \A i \in 1 .. Len(toRunner) : tool'[toRunner[i].line] \in {"served", "finishing", "resolved"}
    BY <1>0, <1>3, Zenon
  <2>. QED  BY <1>0, <1>3, <2>1, <2>2
<1>4. CASE Receive
  <2> DEFINE r == Head(toRunner)
  <2>1. toRunner # <<>> /\ r = toRunner[1] /\ proc = "up" /\ UNCHANGED <<toHost, exec>>
    BY <1>4 DEF Receive, Alive
  <2>2. r.line \in Line /\ tool[r.line] \in {"served", "finishing", "resolved"} /\ exec # "prepare"
    BY <1>0, <2>1
  <2>3. tool' = [tool EXCEPT ![r.line] = "resolved"]
    BY <1>4, Zenon DEF Receive, Goto
  <2>4. toRunner' = <<>> \/ toRunner' = Tail(toRunner)
    BY <1>4, Zenon DEF Receive, Dies
  <2>5. \A i \in 1 .. Len(toRunner') : \E j \in 1 .. Len(toRunner) : toRunner'[i] = toRunner[j]
    <3>1. CASE toRunner' = <<>>
      BY <3>1
    <3>2. CASE toRunner' = Tail(toRunner)
      BY <2>1, <3>2
    <3>. QED  BY <2>4, <3>1, <3>2, Zenon
  <2> HIDE DEF r
  <2>6. \A i \in 1 .. Len(toRunner') : tool'[toRunner'[i].line] \in {"served", "finishing", "resolved"}
    BY <1>0, <2>2, <2>3, <2>5, ZenonT(30)
  <2>7. \A i \in 1 .. Len(toHost) : tool'[toHost[i]] = "sent"
    BY <1>0, <2>2, <2>3, Zenon
  <2>. QED  BY <2>1, <2>2, <2>6, <2>7
<1>5. CASE WaitReturns
  <2>1. PICK n \in 0 .. Len(toHost) : toHost' = SubSeq(toHost, 1, n)
    BY <1>5, Zenon DEF WaitReturns
  <2>2. Len(toHost') = n /\ \A i \in 1 .. n : i \in 1 .. Len(toHost) /\ toHost'[i] = toHost[i]
    BY <2>1
  <2>3. UNCHANGED <<toRunner, tool, exec, proc>>
    BY <1>5 DEF WaitReturns
  <2>4. \A i \in 1 .. Len(toHost') : tool'[toHost'[i]] = "sent"
    <3>. TAKE i \in 1 .. Len(toHost')
    <3>1. i \in 1 .. Len(toHost) /\ toHost'[i] = toHost[i]
      BY <2>2, Zenon
    <3>. QED  BY <2>3, <3>1, Zenon
  <2>5. \A i, j \in 1 .. Len(toHost') : toHost'[i] = toHost'[j] => i = j
    BY <2>2, Zenon
  <2>. QED  BY <2>3, <2>4, <2>5, Zenon
<1>6. CASE Killed \/ Crash
  <2>1. toRunner' = <<>> /\ Len(<<>>) = 0 /\ proc = "up" /\ UNCHANGED <<toHost, tool, exec>>
    BY <1>6, Zenon DEF Killed, Crash, Dies
  <2>. QED  BY <2>1
<1>7. CASE ReadLine
  <2> DEFINE l == Head(toHost)
  <2>1. /\ toHost # <<>> /\ l = toHost[1] /\ toHost' = Tail(toHost)
        /\ UNCHANGED <<toRunner, exec, proc>>
    BY <1>7 DEF ReadLine
  <2>2. \E p \in Stage : tool' = [tool EXCEPT ![l] = p]
    BY <1>7, Zenon DEF ReadLine, Goto, Stage
  <2>3. Len(toHost') = Len(toHost) - 1 /\ \A i \in 1 .. Len(toHost') : toHost'[i] = toHost[i + 1]
    BY <2>1
  <2>4. tool[l] = "sent" /\ l \in Line
    BY <1>0, <2>1
  <2>5. \A i \in 1 .. Len(toHost') : toHost'[i] # l
    <3> SUFFICES ASSUME NEW i \in 1 .. Len(toHost'), toHost[i + 1] = toHost[1]
                 PROVE  FALSE
      BY <2>1, <2>3, Zenon
    <3>1. i + 1 \in 1 .. Len(toHost) /\ 1 \in 1 .. Len(toHost)
      BY <2>1, <2>3
    <3>. QED  BY <3>1
  <2> HIDE DEF l
  <2>6. \A i \in 1 .. Len(toHost') : tool'[toHost'[i]] = "sent"
    <3> SUFFICES ASSUME NEW i \in 1 .. Len(toHost')
                 PROVE  tool'[toHost'[i]] = "sent"
      BY Zenon
    <3>1. i + 1 \in 1 .. Len(toHost) /\ toHost'[i] = toHost[i + 1] /\ toHost'[i] # l
      BY <2>1, <2>3, <2>5
    <3>. QED  BY <1>0, <2>2, <3>1, Zenon
  <2>7. \A i, j \in 1 .. Len(toHost') : toHost'[i] = toHost'[j] => i = j
    <3> SUFFICES ASSUME NEW i \in 1 .. Len(toHost'), NEW j \in 1 .. Len(toHost'),
                        toHost'[i] = toHost'[j]
                 PROVE  i = j
      BY Zenon
    <3>1. i + 1 \in 1 .. Len(toHost) /\ j + 1 \in 1 .. Len(toHost) /\ toHost[i + 1] = toHost[j + 1]
      BY <2>1, <2>3
    <3>. QED  BY <3>1
  <2>8. \A i \in 1 .. Len(toRunner) : tool'[toRunner[i].line] \in {"served", "finishing", "resolved"}
    BY <1>0, <2>2, <2>4, Zenon
  <2>. QED  BY <2>1, <2>6, <2>7, <2>8, Zenon
<1>8. ASSUME NEW l \in Line, Respond(l)
      PROVE  LinesAreOnce'
  <2>1. tool[l] = "responding" /\ UNCHANGED <<toHost, exec, proc>>
    BY <1>8, Zenon DEF Respond
  <2>2. CASE UNCHANGED <<toRunner, tool>>
    BY <1>1, <2>1, <2>2, Zenon
  <2>3. CASE AfterResponse(l) /\ UNCHANGED toRunner
    BY <1>3, <2>1, <2>3, Zenon DEF AfterResponse, Goto, Stage
  <2>4. CASE AfterResponse(l) /\ Written(l) /\ proc = "up"
    <3>1. PICK v : toRunner' = Append(toRunner, [line |-> l, with |-> v])
      BY <2>4, Zenon DEF Written
    <3>2. \E p \in {"served", "finishing"} : tool' = [tool EXCEPT ![l] = p]
      BY <2>4, Zenon DEF AfterResponse, Goto
    <3>3. \A i \in 1 .. Len(toHost) : tool'[toHost[i]] = "sent"
      BY <1>0, <2>1, <3>2, Zenon
    <3>4. \A i \in 1 .. Len(toRunner) : tool'[toRunner[i].line] \in {"served", "finishing", "resolved"}
      BY <1>0, <2>1, <3>2, Zenon
    <3>5. /\ Len(toRunner') = Len(toRunner) + 1
          /\ toRunner'[Len(toRunner) + 1].line = l
          /\ \A i \in 1 .. Len(toRunner) : toRunner'[i] = toRunner[i]
      BY <3>1
    <3>6. tool'[l] \in {"served", "finishing", "resolved"}
      BY <3>2, Zenon
    <3>7. \A i \in 1 .. Len(toRunner') : tool'[toRunner'[i].line] \in {"served", "finishing", "resolved"}
      <4> SUFFICES ASSUME NEW i \in 1 .. Len(toRunner')
                   PROVE  tool'[toRunner'[i].line] \in {"served", "finishing", "resolved"}
        BY Zenon
      <4>1. i \in 1 .. Len(toRunner) \/ i = Len(toRunner) + 1
        BY <3>5
      <4>. QED  BY <3>4, <3>5, <3>6, <4>1, Zenon
    <3>. QED  BY <2>1, <2>4, <3>3, <3>7
  <2>. QED  BY <1>8, <2>2, <2>3, <2>4, Zenon DEF Respond
<1>9. ASSUME NEW l \in Ends, FinishRun(l)
      PROVE  LinesAreOnce'
  <2>1. l \in Line /\ tool[l] = "finishing" /\ tool' = [tool EXCEPT ![l] = "served"]
    BY <1>0, <1>9, Zenon DEF FinishRun, Goto
  <2>. QED  BY <1>3, <1>9, <2>1, Zenon DEF FinishRun, Stage
<1>10. ASSUME NEW w \in Word, HandleWord(w) \/ Attach(w) \/ WaitEnds(w)
      PROVE  LinesAreOnce'
  <2>1. /\ w \in Line /\ tool[w] \in {"accepted", "called", "waiting"}
        /\ \E p \in Stage : tool' = [tool EXCEPT ![w] = p]
        /\ UNCHANGED <<toHost, toRunner, exec, proc>>
    BY <1>0, <1>10, Zenon DEF HandleWord, Attach, WaitEnds, Goto, Stage
  <2>. QED  BY <1>3, <2>1
<1>11. CASE Prepare
  <2>1. CASE exec' = "ended"
    BY <1>1, <1>11, <2>1, Zenon DEF Prepare
  <2>2. CASE exec' = "select"
    <3>1. /\ toHost' = <<"hello">> /\ tool' = [tool EXCEPT !["hello"] = "sent"]
          /\ toRunner' = <<>> /\ exec' # "prepare" /\ "hello" \in Line
      BY <1>11, <2>2, Zenon DEF Prepare, Goto, Line
    <3>2. Len(toHost') = 1 /\ toHost'[1] = "hello" /\ tool'["hello"] = "sent" /\ Len(toRunner') = 0
      BY <3>1, Zenon
    <3>. QED  BY <3>1, <3>2
  <2>. QED  BY <1>11, <2>1, <2>2, Zenon DEF Prepare
<1>12. ASSUME NEW w \in Word, CallWord(w)
      PROVE  LinesAreOnce'
  <2>1. CASE ended
    BY <1>0, <1>3, <1>12, <2>1, Zenon DEF CallWord, Goto, Stage
  <2>2. CASE ~ended /\ stdout = "open"
    BY <1>0, <1>2, <1>12, <2>2, Zenon DEF CallWord, Emit, Goto
  <2>3. CASE ~ended /\ stdout # "open"
    BY <1>0, <1>3, <1>12, <2>3, Zenon DEF CallWord, Emit, Goto, Stage
  <2>. QED  BY <2>1, <2>2, <2>3, Zenon
<1>13. ASSUME NEW l \in Ends, Finish(l)
      PROVE  LinesAreOnce'
  <2>1. CASE stdout = "open"
    BY <1>0, <1>2, <1>13, <2>1, Zenon DEF Finish, Emit, Goto
  <2>2. CASE stdout # "open"
    BY <1>0, <1>3, <1>13, <2>2, Zenon DEF Finish, Emit, Goto, Stage
  <2>. QED  BY <2>1, <2>2, Zenon
<1>14. CASE SelectTerminal \/ SelectOther \/ StopAndFail \/ ExitAndFail \/ Cleanup
  BY <1>1, <1>14, Zenon DEF SelectTerminal, SelectOther, StopAndFail, ExitAndFail, Cleanup, AnswerRun
<1>15. CASE \E w \in Word : Reject(w) \/ Answers(w) \/ Expire(w)
  BY <1>1, <1>15, Zenon DEF Reject, Answers, Expire
<1>16. CASE StdinEnds \/ StreamEnds \/ StdoutEnds \/ Hog \/ Cancel \/ TooManyLogs \/ UNCHANGED vars
  BY <1>1, <1>16, Zenon DEF StdinEnds, StreamEnds, StdoutEnds, Hog, Cancel, TooManyLogs, vars
<1>. QED  BY <1>4, <1>5, <1>6, <1>7, <1>8, <1>9, <1>10, <1>11, <1>12, <1>13, <1>14, <1>15, <1>16, Zenon
          DEF Next, Code, World, RuntimeStep, HostStep, ExecuteStep

\* Every step keeps an open call with its handler or in the pendingSet.
LEMMA TrackStep ==
    ASSUME [Next]_vars, RunInv, LinesAreOnce, WaitIsTracked
    PROVE  WaitIsTracked'
<1> USE WordAssumption DEF RunInv, DataType, WaitIsTracked, procVars, hostVars, pipeVars
<1>0. Word \subseteq Line /\ Ends \subseteq Line /\ Word \cap Ends = {} /\ Word \subseteq Call
  BY Zenon DEF Line, Ends, Call
<1>1. CASE UNCHANGED <<tool, out, keys>> /\ \A w \in Word : settled'[w] = None => settled[w] = None
  BY <1>1, Zenon
\* A request that is not with a handler yet, or no more, is no open call.
<1>2. ASSUME NEW l \in Line, NEW p \in Stage, tool' = [tool EXCEPT ![l] = p],
             l \in Word => tool[l] \notin {"called", "waiting"},
             UNCHANGED <<out, keys>>, \A w \in Word : settled'[w] = settled[w]
      PROVE  WaitIsTracked'
  BY <1>0, <1>2, Zenon
<1>3. CASE Receive
  <2> DEFINE r == Head(toRunner)
  <2>1. toRunner # <<>> /\ r = toRunner[1] /\ r \in Response
    BY <1>3 DEF Receive
  <2>2. r.line \in Line /\ tool[r.line] \in {"served", "finishing", "resolved"}
    BY <2>1 DEF LinesAreOnce, Response
  <2>3. tool' = [tool EXCEPT ![r.line] = "resolved"] /\ UNCHANGED <<out, keys, settled>>
    BY <1>3, Zenon DEF Receive, Goto
  <2> HIDE DEF r
  <2>. QED  BY <1>2, <2>2, <2>3, Zenon DEF Stage
<1>4. CASE ReadLine
  <2> DEFINE l == Head(toHost)
  <2>1. toHost # <<>> /\ l = toHost[1] /\ l \in Line
    BY <1>4 DEF ReadLine
  <2>2. tool[l] = "sent"
    BY <2>1 DEF LinesAreOnce
  <2>3. (\E p \in Stage : tool' = [tool EXCEPT ![l] = p]) /\ UNCHANGED <<out, keys, settled>>
    BY <1>4, Zenon DEF ReadLine, Goto, Stage
  <2> HIDE DEF l
  <2>. QED  BY <1>2, <2>1, <2>2, <2>3, Zenon
<1>5. ASSUME NEW l \in Line, Respond(l)
      PROVE  WaitIsTracked'
  <2>1. tool[l] = "responding" /\ UNCHANGED <<out, settled>> /\ keys \ {l} \subseteq keys'
    BY <1>5, Zenon DEF Respond, AfterResponse
  <2>2. UNCHANGED tool \/ \E p \in Stage : tool' = [tool EXCEPT ![l] = p]
    BY <1>5, Zenon DEF Respond, AfterResponse, Goto, Stage
  <2>. QED  BY <1>0, <2>1, <2>2, Zenon
<1>6. ASSUME NEW l \in Ends, FinishRun(l)
      PROVE  WaitIsTracked'
  <2>1. l \in Line \ Word /\ tool' = [tool EXCEPT ![l] = "served"] /\ UNCHANGED <<out, keys>>
    BY <1>0, <1>6, Zenon DEF FinishRun, Goto
  <2>2. \A w \in Word : settled'[w] = settled[w]
    BY <1>0, <1>6, Zenon DEF FinishRun, Run
  <2>. QED  BY <1>2, <2>1, <2>2, Zenon DEF Stage
<1>7. ASSUME NEW w \in Word, HandleWord(w)
      PROVE  WaitIsTracked'
  BY <1>0, <1>7, Zenon DEF HandleWord, Goto
<1>8. ASSUME NEW w \in Word, Attach(w)
      PROVE  WaitIsTracked'
  BY <1>0, <1>8 DEF Attach, Goto, Cancelled
<1>9. ASSUME NEW w \in Word, WaitEnds(w)
      PROVE  WaitIsTracked'
  <2>1. /\ out' \in [Word -> {"none", "open", "left", "closed"}]
        /\ out'[w] = "open" => settled[w] # None
        /\ \A x \in Word : x # w => out'[x] = out[x]
    BY <1>9, Zenon DEF WaitEnds, WaitOver, Cancelled
  <2>. QED  BY <1>0, <1>9, <2>1, Zenon DEF WaitEnds, Goto
<1>10. ASSUME CancelAll, UNCHANGED <<tool, settled>>
      PROVE  WaitIsTracked'
  BY <1>0, <1>10, Zenon DEF CancelAll, Cancelled
<1>11. CASE SelectTerminal \/ StopAndFail \/ Cleanup
  BY <1>10, <1>11, Zenon DEF SelectTerminal, StopAndFail, Cleanup
<1>12. CASE SelectOther \/ ExitAndFail
  BY <1>1, <1>12, Zenon DEF SelectOther, ExitAndFail
<1>13. CASE Prepare
  BY <1>0, <1>13, Zenon DEF Prepare, Goto, Line
<1>14. ASSUME NEW w \in Word, CallWord(w)
      PROVE  WaitIsTracked'
  BY <1>0, <1>2, <1>14, Zenon DEF CallWord, Emit, Goto, Stage
<1>15. ASSUME NEW l \in Ends, Finish(l)
      PROVE  WaitIsTracked'
  BY <1>0, <1>2, <1>15, Zenon DEF Finish, Emit, Goto, Stage
<1>16. ASSUME NEW w \in Word, Expire(w)
      PROVE  WaitIsTracked'
  BY <1>16, Zenon DEF Expire
<1>17. ASSUME NEW w \in Word, Reject(w) \/ Answers(w)
      PROVE  WaitIsTracked'
  BY <1>0, <1>1, <1>17, Zenon DEF Reject, Answers
<1>18. CASE StdinEnds \/ WaitReturns \/ Killed \/ StreamEnds \/ Crash \/ StdoutEnds \/ Hog \/ Cancel \/ TooManyLogs
            \/ UNCHANGED vars
  BY <1>1, <1>18, Zenon DEF StdinEnds, WaitReturns, Killed, StreamEnds, Crash, StdoutEnds, Hog, Cancel, TooManyLogs, vars
<1>. QED  BY <1>3, <1>4, <1>5, <1>6, <1>7, <1>8, <1>9, <1>11, <1>12, <1>13, <1>14, <1>15, <1>16, Zenon,
             <1>17, <1>18
          DEF Next, Code, World, RuntimeStep, HostStep, ExecuteStep

\* mcphost.go, handleToolCall and pendingSet: whatever the order in which calls
\* are reserved, attached, answered and cancelled, an open call is about to be
\* attached, in the set or answered.
THEOREM OpenAlwaysTracked == Spec => []OpenIsTracked
<1>1. Init => LinesAreOnce /\ WaitIsTracked
  BY DEF Init, LinesAreOnce, WaitIsTracked
<1>2. RunInv /\ LinesAreOnce /\ WaitIsTracked /\ [Next]_vars => (LinesAreOnce /\ WaitIsTracked)'
  BY LineStep, TrackStep, Zenon
<1>3. WaitIsTracked => OpenIsTracked
  BY Zenon DEF WaitIsTracked, OpenIsTracked
<1>. QED  BY <1>1, <1>2, <1>3, RunInvariant, PTL DEF Spec
=============================================================================

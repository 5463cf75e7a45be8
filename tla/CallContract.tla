---------------------------- MODULE CallContract ----------------------------
(***************************************************************************)
(* What every call out of the node promises its caller, whatever program   *)
(* is at the other end: a Pi child process (PiBridge), a program runtime   *)
(* (CodeRunner) or a browser plugin (PluginDevice).                        *)
(*                                                                         *)
(* The far side settles a call at most once.  The caller is answered at    *)
(* most once, the answer never changes, and it is either the far side's    *)
(* verdict or one of the outcomes the near side may give on its own, such  *)
(* as a cancellation, a deadline or the loss of the far side.              *)
(***************************************************************************)
CONSTANTS
    Call,     \* the calls
    Verdict,  \* what the far side may settle a call with
    Local,    \* what the near side may answer on its own
    Nothing   \* not settled, not answered

VARIABLES settled, answer

contractVars == <<settled, answer>>

Init ==
    /\ settled = [c \in Call |-> Nothing]
    /\ answer = [c \in Call |-> Nothing]

Settle(c) ==
    /\ settled[c] = Nothing
    /\ \E v \in Verdict : settled' = [settled EXCEPT ![c] = v]
    /\ UNCHANGED answer

Answer(c) ==
    /\ answer[c] = Nothing
    /\ \E o \in Local \cup ({settled[c]} \ {Nothing}) : answer' = [answer EXCEPT ![c] = o]
    /\ UNCHANGED settled

Next == \E c \in Call : Settle(c) \/ Answer(c)

Spec == Init /\ [][Next]_contractVars
=============================================================================

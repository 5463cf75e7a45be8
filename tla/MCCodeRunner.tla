---------------------------- MODULE MCCodeRunner ----------------------------
(* Small instances of CodeRunner.  A response may fill the stdin pipe of a
   program that yields; a program that stops yielding has room for them all; the
   calls of the third may take every place before its return is read. *)
EXTENDS CodeRunner

MCPrograms == {
    [holds |-> 1, hogs |-> FALSE, lines |-> {"a"} \cup Ends, events |-> 1],
    [holds |-> 5, hogs |-> TRUE, lines |-> {"a", "return"}, events |-> 1],
    [holds |-> 1, hogs |-> FALSE, lines |-> {"a", "b", "return"}, events |-> 0]}
MCDeadline == {[holds |-> 1, hogs |-> FALSE, lines |-> {"a"}, events |-> 0]}
=============================================================================

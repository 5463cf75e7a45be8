------------------------------ MODULE MCPlugin ------------------------------
(* Small instances of PluginBridge: traffic of one seat through two plugins,
   faults under two plugins and under one that talks, two seats that share an
   endpoint, and three seats that move theirs. *)
EXTENDS PluginBridge

Traffic == [seats |-> {"s"}, addrs |-> {"A"}, pairs |-> 2, says |-> <<"hello">>, calls |-> {"k"},
            events |-> 0]
Faults == [Traffic EXCEPT !.calls = {}, !.events = 1]
Talk == [Faults EXCEPT !.pairs = 1, !.says = <<"hello", "note">>]
Sharing == [Traffic EXCEPT !.seats = {"s", "t"}, !.addrs = {"A", "B"}, !.pairs = 1, !.events = 1]
Moving == [Sharing EXCEPT !.seats = {"s", "t", "u"}, !.pairs = 0, !.calls = {}, !.events = 2]

MCScene == {Traffic, Faults, Talk, Sharing, Moving}
MCMoving == {Moving}
=============================================================================

---------------------------- MODULE ClosureProofs ----------------------------
(***************************************************************************)
(* What the chain, the closure authors and the accounts keep for every     *)
(* number of members, requests, pens and faults: one terminal per request, *)
(* no false death, no acceptance that is not stored, no lost final and no  *)
(* early expiry.                                                           *)
(***************************************************************************)
EXTENDS Closure, WellFoundedInduction, TLAPS

-----------------------------------------------------------------------------
(* The inductive invariant *)

Entry == [from : Party, to : Party, span : Nat, client : BOOLEAN]

InFlight == [step : {"idle", "checked", "landed", "refused"}, req : Req \cup {0},
             word : ReplyWords \cup {"ask"}, author : Party, ts : Nat, fp : Nat]

Account == [st : {"none", "registered", "armed", "final"}, due : Nat, seen : Nat]

DataType ==
    /\ now \in Nat /\ member \subseteq Actor
    /\ asked \in [Req -> Entry]
    /\ log \in Seq(Row)
    /\ pen \in [Pens -> InFlight]

\* A row is of a request somebody made; a response is of a request in the log.
LogIsAsked ==
    \A i \in 1 .. Len(log) :
        /\ asked[log[i].req] # NoAsk
        /\ FindByID(log, log[i].req)

\* So is a write in flight: what it was admitted on still holds, for members
\* never come back and the log only grows.
WriteIsAdmitted(w) ==
    /\ w.step # "idle" => w.req \in Req /\ asked[w.req] # NoAsk
    /\ w.step = "checked" /\ w.word # "ask" => FindByID(log, w.req)
    /\ w.step = "checked" /\ w.word = "unavailable" =>
         w.author = System /\ asked[w.req].to \notin member
    /\ w.step \in {"landed", "refused"} => w.word = "ask"

\* The sweep closes only what it found open, and in its first half only
\* requests to receivers that have left.
SweepIsTrue ==
    /\ sweep \in [at : {"idle", "closure", "expiry"}, receivers : SUBSET Party,
                  todo : SUBSET Req, cursor : {sweep.cursor}]
    /\ \A r \in sweep.todo : asked[r] # NoAsk
    /\ sweep.at = "idle" => sweep.todo = {}
    /\ sweep.at = "closure" => \A r \in sweep.todo : asked[r].to \notin member

ChainInv ==
    /\ DataType /\ LogIsAsked /\ SweepIsTrue
    /\ \A p \in Pens : WriteIsAdmitted(pen[p])
    /\ TerminalIsLast /\ HonestDeath

-----------------------------------------------------------------------------
(* How a step may change the log, the requests and the roster *)

\* The log grows by a write in flight that its transaction takes; requests are
\* never unmade and members never come back.
Grows(p) ==
    /\ p \in Pens /\ pen[p].step = "checked"
    /\ ~Refused(log, RowOf(pen[p]))
    /\ log' = Append(log, RowOf(pen[p]))
    /\ UNCHANGED <<asked, member>>

\* Every step changes the log, the requests and the roster in this way.
LEMMA LogSteps ==
    ASSUME [Next]_vars, DataType
    PROVE  /\ log' = log \/ \E p \in Pens : Grows(p)
           /\ \A r \in Req : asked[r] # NoAsk => asked'[r] = asked[r]
           /\ asked' \in [Req -> Entry]
           /\ member' \subseteq member
           /\ now' \in Nat
<1> USE ClosureAssumption DEF DataType, Entry, Party
<1>1. ASSUME NEW p \in Pens, AppendRow(p) \/ AppendFails(p)
      PROVE  (log' = log \/ Grows(p)) /\ UNCHANGED <<asked, member, now>>
  BY <1>1, Zenon DEF AppendRow, AppendFails, Grows
<1>2. ASSUME NEW r \in Req, NEW x \in Actor, NEW y \in Actor, NEW c \in BOOLEAN, Ask(r, x, y, c)
      PROVE  /\ \A q \in Req : asked[q] # NoAsk => asked'[q] = asked[q]
             /\ asked' \in [Req -> Entry]
  BY <1>2 DEF Ask, Fresh
<1>3. ASSUME NEW p \in Pen, NEW r \in Req, NEW x \in Caller, NEW y \in Actor,
             Submit(p, r, x, y) \/ Post(p, r, x, y)
      PROVE  /\ UNCHANGED <<log, member, now>>
             /\ \A q \in Req : asked[q] # NoAsk => asked'[q] = asked[q]
             /\ asked' \in [Req -> Entry]
  <2>1. x \in Actor
    BY Zenon
  <2>. QED  BY <1>2, <1>3, <2>1, Zenon DEF Submit, Post
<1>4. CASE \/ \E p \in Pen, r \in Req : SubmitLands(p, r) \/ SubmitForgets(p, r)
           \/ \E p \in Pen, r \in Req : FireTimeout(p, r) \/ CancelCall(p, r)
           \/ \E p \in Pen, r \in Req, fp \in Client : PostAgain(p, r, fp)
           \/ \E p \in Pen, r \in Req, word \in ReplyWords, x \in Actor : Reply(p, r, word, x)
           \/ \E r \in Req : Match(r) \/ Consume(r) \/ SweepWrite(r)
  BY <1>4, Zenon DEF SubmitLands, SubmitForgets, Returned, FireTimeout, CancelCall, SelfClose, PostAgain,
              Reply, Match, Consume, SweepWrite
<1>5. CASE \E x \in Actor : ClosureOf(x) \/ Leave(x)
  BY <1>5, Zenon DEF ClosureOf, Leave
<1>6. CASE SweepStart \/ SweepEnd \/ Crash
  <2>1. UNCHANGED <<now, member, asked, log>>
    BY <1>6, Zenon DEF SweepStart, SweepEnd, Crash
  <2>. QED  BY <2>1, Zenon
<1>9. CASE Tick
  BY <1>9 DEF Tick
<1>8. CASE ExpiryScan
  <2>1. UNCHANGED <<now, member, asked, log>>
    BY <1>8, Zenon DEF ExpiryScan
  <2>. QED  BY <2>1, Zenon
<1>7. CASE UNCHANGED vars
  BY <1>7, Zenon DEF vars
<1>. QED  BY <1>1, <1>3, <1>4, <1>5, <1>6, <1>7, <1>8, <1>9, Zenon DEF Next

\* What Append leaves behind, in the words of the checks.
LEMMA AppendFacts ==
    ASSUME NEW lg \in Seq(Row), NEW row \in Row
    PROVE  LET grown == Append(lg, row)
           IN  /\ grown \in Seq(Row) /\ Len(grown) = Len(lg) + 1
               /\ DOMAIN grown = 1 .. Len(lg) + 1 /\ DOMAIN lg = 1 .. Len(lg)
               /\ grown[Len(lg) + 1] = row
               /\ \A i \in 1 .. Len(lg) : grown[i] = lg[i]
               /\ \A r \in Req : FindByID(lg, r) => FindByID(grown, r)
               /\ row.word = "ask" => FindByID(grown, row.req)
<1> DEFINE grown == Append(lg, row)
<1>1. /\ grown \in Seq(Row) /\ Len(grown) = Len(lg) + 1 /\ Len(lg) \in Nat
      /\ DOMAIN grown = 1 .. Len(lg) + 1 /\ DOMAIN lg = 1 .. Len(lg)
      /\ grown[Len(lg) + 1] = row
      /\ \A i \in 1 .. Len(lg) : grown[i] = lg[i]
  OBVIOUS
<1> HIDE DEF grown
<1>2. ASSUME NEW r \in Req, FindByID(lg, r)
      PROVE  FindByID(grown, r)
  BY <1>1, <1>2 DEF FindByID
<1>3. ASSUME row.word = "ask"
      PROVE  FindByID(grown, row.req)
  BY <1>1, <1>3 DEF FindByID
<1>. QED  BY <1>1, <1>2, <1>3, Zenon DEF grown

-----------------------------------------------------------------------------
(* The writes in flight *)

\* The request of p is in the log now, by this step or as a replay.
Stored(p) == Grows(p) \/ (log' = log /\ Replayed(log, RowOf(pen[p])))

\* A pen is left alone, falls idle, takes a write that passed the chain, or has
\* the outcome of its request.
PenMoves(p) ==
    \/ pen'[p] = pen[p]
    \/ pen'[p] = NoWrite
    \/ /\ pen'[p].step = "checked" /\ pen'[p] \in InFlight
       /\ pen'[p].req \in Req /\ asked'[pen'[p].req] # NoAsk
       /\ pen'[p].word # "ask" => FindByID(log, pen'[p].req)
       /\ pen'[p].word = "unavailable" =>
             pen'[p].author = System /\ asked'[pen'[p].req].to \notin member
       /\ log' = log /\ member' = member
    \/ /\ pen[p].step = "checked" /\ pen[p].word = "ask"
       /\ \E outcome \in {"landed", "refused"} :
             /\ pen'[p] = [step |-> outcome, req |-> pen[p].req, word |-> "ask",
                           author |-> pen[p].author, ts |-> pen[p].ts, fp |-> pen[p].fp]
             /\ outcome = "landed" => Stored(p)

\* Every step moves every pen in one of these ways.
LEMMA PenSteps ==
    ASSUME [Next]_vars, ChainInv
    PROVE  /\ \A p \in Pens : PenMoves(p)
           /\ pen' \in [Pens -> InFlight]
<1> USE ClosureAssumption, LogAssumption
<1>0. /\ now \in Nat /\ member \subseteq Actor /\ asked \in [Req -> Entry]
      /\ pen \in [Pens -> InFlight] /\ log \in Seq(Row)
      /\ Pen \subseteq Pens /\ SystemPen \in Pens /\ NoWrite \in InFlight /\ Caller \subseteq Actor
      /\ System \notin Actor /\ Client \subseteq Nat
  BY Zenon DEF ChainInv, DataType, Pens, SystemPen, NoWrite, InFlight, Party
<1>1. ASSUME NEW p \in Pens, NEW outcome \in {"landed", "refused"}, pen[p].step = "checked",
             pen' = [pen EXCEPT ![p] = Over(pen[p], outcome)],
             outcome = "landed" /\ pen[p].word = "ask" => Stored(p)
      PROVE  (\A q \in Pens : PenMoves(q)) /\ pen' \in [Pens -> InFlight]
  <2>1. /\ pen[p] \in InFlight
        /\ \A q \in Pens : pen'[q] = IF q = p THEN Over(pen[p], outcome) ELSE pen[q]
    BY <1>0, <1>1, Zenon
  <2>2. CASE pen[p].word = "ask"
    <3>1. Over(pen[p], outcome) = [step |-> outcome, req |-> pen[p].req, word |-> "ask",
                                   author |-> pen[p].author, ts |-> pen[p].ts, fp |-> pen[p].fp]
      BY <2>1, <2>2, Zenon DEF Over, InFlight
    <3>2. Over(pen[p], outcome) \in InFlight
      BY <2>1, <2>2, <3>1 DEF InFlight
    <3>. QED  BY <1>0, <1>1, <2>1, <2>2, <3>1, <3>2, Zenon DEF PenMoves
  <2>3. CASE pen[p].word # "ask"
    BY <1>0, <1>1, <2>1, <2>3, Zenon DEF PenMoves, Over
  <2>. QED  BY <2>2, <2>3, Zenon
<1>2. ASSUME NEW p \in Pens, NEW w \in InFlight, w.step = "checked", w.req \in Req,
             asked'[w.req] # NoAsk, w.word # "ask" => FindByID(log, w.req),
             w.word = "unavailable" => w.author = System /\ asked'[w.req].to \notin member,
             UNCHANGED <<log, member>>, pen' = [pen EXCEPT ![p] = w]
      PROVE  (\A q \in Pens : PenMoves(q)) /\ pen' \in [Pens -> InFlight]
  <2>1. \A q \in Pens : pen'[q] = IF q = p THEN w ELSE pen[q]
    BY <1>0, <1>2, Zenon
  <2>. QED  BY <1>0, <1>2, <2>1, Zenon DEF PenMoves
<1>3. ASSUME \A p \in Pens : pen'[p] = pen[p] \/ pen'[p] = NoWrite, pen' \in [Pens -> InFlight]
      PROVE  (\A q \in Pens : PenMoves(q)) /\ pen' \in [Pens -> InFlight]
  BY <1>3, Zenon DEF PenMoves
<1>4. ASSUME NEW r \in Req, NEW word \in ReplyWords \cup {"ask"}, NEW x \in Party, NEW fp \in Nat
      PROVE  LET w == Write(r, word, x, fp)
             IN  /\ w \in InFlight /\ w.step = "checked" /\ w.req = r /\ w.word = word
                 /\ w.author = x /\ w.fp = fp
  BY <1>0, <1>4, Zenon DEF Write, InFlight
<1>5. CASE \E p \in Pens : AppendRow(p) \/ AppendFails(p)
  <2>1. ASSUME NEW p \in Pens, AppendRow(p)
        PROVE  (\A q \in Pens : PenMoves(q)) /\ pen' \in [Pens -> InFlight]
    <3> DEFINE row == RowOf(pen[p])
               outcome == IF Refused(log, row) /\ ~Replayed(log, row) THEN "refused" ELSE "landed"
    <3>1. /\ pen[p].step = "checked" /\ pen' = [pen EXCEPT ![p] = Over(pen[p], outcome)]
          /\ UNCHANGED <<asked, member>>
          /\ log' = IF Refused(log, row) THEN log ELSE Append(log, row)
      BY <2>1, Zenon DEF AppendRow
    <3>2. outcome = "landed" => Stored(p)
      BY <3>1, Zenon DEF Stored, Grows
    <3>3. outcome \in {"landed", "refused"}
      BY Zenon
    <3> HIDE DEF outcome
    <3>. QED  BY <1>1, <3>1, <3>2, <3>3, Zenon
  <2>2. ASSUME NEW p \in Pens, AppendFails(p)
        PROVE  (\A q \in Pens : PenMoves(q)) /\ pen' \in [Pens -> InFlight]
    <3>1. pen[p].step = "checked" /\ pen' = [pen EXCEPT ![p] = Over(pen[p], "refused")]
      BY <2>2, Zenon DEF AppendFails
    <3>. QED  BY <1>1, <3>1, Zenon
  <2>. QED  BY <1>5, <2>1, <2>2, Zenon
<1>6. ASSUME NEW p \in Pen, NEW r \in Req, NEW x \in Caller, NEW y \in Actor, NEW fp \in Nat,
             NEW c \in BOOLEAN, Ask(r, x, y, c), Begin(p, Write(r, "ask", x, fp)),
             UNCHANGED <<log, member>>
      PROVE  (\A q \in Pens : PenMoves(q)) /\ pen' \in [Pens -> InFlight]
  <2>1. asked'[r] # NoAsk
    BY <1>0, <1>6 DEF Ask, NoAsk, Entry
  <2> DEFINE w == Write(r, "ask", x, fp)
  <2>2. /\ w \in InFlight /\ w.step = "checked" /\ w.req = r /\ w.word = "ask"
    <3>1. x \in Party /\ "ask" \in ReplyWords \cup {"ask"}
      BY <1>0, Zenon DEF Party
    <3>. QED  BY <1>4, <1>6, <3>1
  <2>3. pen' = [pen EXCEPT ![p] = w]
    BY <1>6, Zenon DEF Begin
  <2> HIDE DEF w
  <2>. QED  BY <1>0, <1>2, <1>6, <2>1, <2>2, <2>3, Zenon
<1>7. CASE \E p \in Pen, r \in Req, x \in Caller, y \in Actor : Submit(p, r, x, y) \/ Post(p, r, x, y)
  BY <1>0, <1>6, <1>7 DEF Submit, Post, First
<1>8. CASE \E p \in Pen, r \in Req : SubmitLands(p, r) \/ SubmitForgets(p, r)
  BY <1>0, <1>3, <1>8, ZenonT(30) DEF SubmitLands, SubmitForgets, Returned
<1>9. ASSUME NEW r \in Req, FindByID(log, r)
      PROVE  asked[r] # NoAsk
  BY <1>0, <1>9 DEF ChainInv, LogIsAsked, FindByID
<1>10. CASE \E p \in Pen, r \in Req : FireTimeout(p, r) \/ CancelCall(p, r)
  <2>1. PICK p \in Pen, r \in Req : SelfClose(p, r)
    BY <1>10, Zenon DEF FireTimeout, CancelCall
  <2>2. PICK x \in Party : asked[r].from = x
    BY <1>0, Zenon DEF Entry
  <2> DEFINE w == Write(r, "timeout", x, 0)
  <2>3. /\ w \in InFlight /\ w.step = "checked" /\ w.req = r /\ w.word = "timeout"
    <3>1. "timeout" \in ReplyWords \cup {"ask"} /\ 0 \in Nat
      BY Zenon DEF ReplyWords, FinalWords
    <3>. QED  BY <1>4, <3>1
  <2> HIDE DEF w
  <2>4. UNCHANGED <<asked, log, member>> /\ ((Passes(w) /\ Begin(p, w)) \/ UNCHANGED pen)
    BY <2>1, <2>2, Zenon DEF SelfClose, w
  <2>5. CASE UNCHANGED pen
    BY <1>0, <1>3, <2>5, Zenon
  <2>6. CASE Passes(w) /\ Begin(p, w)
    <3>1. FindByID(log, r)
      BY <2>3, <2>6, Zenon DEF Passes
    <3>. QED  BY <1>0, <1>2, <1>9, <2>3, <2>4, <2>6, <3>1, Zenon DEF Begin
  <2>. QED  BY <2>4, <2>5, <2>6, Zenon
<1>11. CASE \E p \in Pen, r \in Req, fp \in Client : PostAgain(p, r, fp)
  <2>1. PICK p \in Pen, r \in Req, fp \in Client : PostAgain(p, r, fp)
    BY <1>11, Zenon
  <2>2. asked[r] # NoAsk /\ asked[r].from \in Party
    <3>1. asked[r].client
      BY <2>1, Zenon DEF PostAgain
    <3>2. NoAsk.client = FALSE
      BY Zenon DEF NoAsk
    <3>3. asked[r] # NoAsk
      BY <3>1, <3>2, Zenon
    <3>. QED  BY <1>0, <3>3, Zenon DEF Entry
  <2> DEFINE w == Write(r, "ask", asked[r].from, fp)
  <2>3. /\ w \in InFlight /\ w.step = "checked" /\ w.req = r /\ w.word = "ask"
    BY <1>0, <1>4, <2>2
  <2>4. UNCHANGED <<asked, log, member>> /\ pen' = [pen EXCEPT ![p] = w]
    BY <2>1, Zenon DEF PostAgain, Begin
  <2> HIDE DEF w
  <2>. QED  BY <1>0, <1>2, <2>2, <2>3, <2>4, Zenon
<1>12. CASE \E p \in Pen, r \in Req, word \in ReplyWords, x \in Actor : Reply(p, r, word, x)
  <2>1. PICK p \in Pen, r \in Req, word \in ReplyWords, x \in Actor : Reply(p, r, word, x)
    BY <1>12, Zenon
  <2> DEFINE w == Write(r, word, x, 0)
  <2>2. /\ w \in InFlight /\ w.step = "checked" /\ w.req = r /\ w.word = word /\ w.author = x
    <3>1. x \in Party /\ word \in ReplyWords \cup {"ask"} /\ 0 \in Nat
      BY DEF Party
    <3>. QED  BY <1>4, <3>1
  <2> HIDE DEF w
  <2>3. /\ FindByID(log, r) /\ Begin(p, w) /\ UNCHANGED <<asked, log, member>>
    BY <2>1, Zenon DEF Reply, w
  <2>4. word # "unavailable"
    BY <1>0, <2>2, <2>3, Zenon DEF Begin, Passes, Authorised, ReplyWords, FinalWords
  <2>. QED  BY <1>0, <1>2, <1>9, <2>2, <2>3, <2>4, Zenon DEF Begin
<1>13. CASE \E r \in Req : SweepWrite(r)
  <2>1. PICK r \in Req : SweepWrite(r)
    BY <1>13, Zenon
  <2> DEFINE word == IF sweep.at = "closure" THEN "unavailable" ELSE "timeout"
             w    == Write(r, word, System, 0)
  <2>2. /\ w \in InFlight /\ w.step = "checked" /\ w.req = r /\ w.word = word /\ w.author = System
    BY <1>4 DEF Party, ReplyWords, FinalWords
  <2>3. word = "unavailable" => asked[r].to \notin member
    BY <2>1, Zenon DEF SweepWrite, ChainInv, SweepIsTrue
  <2>4. /\ UNCHANGED <<asked, log, member>>
        /\ pen' = IF Passes(w) THEN [pen EXCEPT ![SystemPen] = w] ELSE pen
    BY <2>1, Zenon DEF SweepWrite
  <2>5. w.word # "ask"
    BY <2>2, Zenon
  <2> HIDE DEF w, word
  <2>6. CASE Passes(w)
    <3>1. FindByID(log, r)
      BY <2>2, <2>5, <2>6, Zenon DEF Passes
    <3>. QED  BY <1>0, <1>2, <1>9, <2>2, <2>3, <2>4, <2>6, <3>1, Zenon
  <2>. QED  BY <1>0, <1>3, <2>4, <2>6, Zenon
<1>14. CASE Crash
  BY <1>0, <1>3, <1>14, Zenon DEF Crash
<1>15. CASE UNCHANGED pen
  BY <1>0, <1>3, <1>15, Zenon
<1>16. ASSUME \/ \E r \in Req : Match(r) \/ Consume(r)
              \/ \E x \in Actor : ClosureOf(x) \/ Leave(x)
              \/ SweepStart \/ ExpiryScan \/ SweepEnd \/ Tick \/ UNCHANGED vars
       PROVE  UNCHANGED pen
  BY <1>16, Zenon DEF Match, Consume, ClosureOf, Leave, SweepStart, ExpiryScan, SweepEnd, Tick, vars
<1>. QED  BY <1>5, <1>7, <1>8, <1>10, <1>11, <1>12, <1>13, <1>14, <1>15, <1>16, Zenon DEF Next

-----------------------------------------------------------------------------
(* The sweep *)

\* What the sweep has to do: nothing when it rests, requests it found open.
LEMMA SweepStep ==
    ASSUME [Next]_vars, ChainInv
    PROVE  SweepIsTrue'
<1> USE ClosureAssumption, LogAssumption
<1>0. /\ asked \in [Req -> Entry] /\ log \in Seq(Row) /\ SweepIsTrue
      /\ \A r \in Req : FindByID(log, r) => asked[r] # NoAsk
      /\ \A r \in Req : asked[r] # NoAsk => asked'[r] = asked[r]
      /\ member' \subseteq member
  <2>1. DataType /\ LogIsAsked /\ SweepIsTrue
    BY Zenon DEF ChainInv
  <2>2. ASSUME NEW r \in Req, FindByID(log, r)
        PROVE  asked[r] # NoAsk
    BY <2>1, <2>2 DEF LogIsAsked, FindByID
  <2>3. /\ \A r \in Req : asked[r] # NoAsk => asked'[r] = asked[r]
        /\ member' \subseteq member
    BY <2>1, LogSteps, Zenon
  <2>. QED  BY <2>1, <2>2, <2>3, Zenon DEF DataType
<1> DEFINE Shape(s) == s \in [at : {"idle", "closure", "expiry"}, receivers : SUBSET Party,
                              todo : SUBSET Req, cursor : {s.cursor}]
<1>s. Shape(sweep)
  BY <1>0, Zenon DEF SweepIsTrue
<1>1. ASSUME Shape(sweep'), sweep'.todo \subseteq sweep.todo, sweep'.at = sweep.at
      PROVE  SweepIsTrue'
  BY <1>0, <1>1, Zenon DEF SweepIsTrue
<1>2. ASSUME Shape(sweep'), sweep'.todo = {}
      PROVE  SweepIsTrue'
  BY <1>2, Zenon DEF SweepIsTrue
<1>3. CASE SweepStart
  <2>1. OpenReceivers \subseteq Party
    BY <1>0 DEF OpenReceivers, Entry
  <2>2. PICK R \in SUBSET Party : sweep' = [sweep EXCEPT !.at = "closure", !.receivers = R]
    BY <1>3, <2>1, Zenon DEF SweepStart
  <2>3. sweep.todo = {}
    BY <1>0, <1>3, Zenon DEF SweepStart, SweepIsTrue
  <2>4. Shape(sweep') /\ sweep'.todo = {}
    BY <1>s, <2>2, <2>3, Zenon
  <2>. QED  BY <1>2, <2>4, Zenon
<1>4. CASE SweepEnd
  <2>1. Shape(sweep') /\ sweep'.todo = {}
    BY <1>s, <1>4, Zenon DEF SweepEnd
  <2>. QED  BY <1>2, <2>1, Zenon
<1>5. CASE ExpiryScan
  <2> DEFINE spans == [r \in Req |-> asked[r].span]
             batch == ExpiredOpenRequests(log, spans, now, sweep.cursor, Batch)
  <2>1. batch \subseteq {r \in Req : FindByID(log, r)}
    BY Zenon DEF ExpiredOpenRequests, Due, Open
  <2>2. /\ UNCHANGED asked /\ sweep.todo = {}
        /\ \/ \E c : sweep' = [sweep EXCEPT !.at = "expiry", !.todo = batch, !.cursor = c]
           \/ sweep' = [sweep EXCEPT !.at = "expiry"]
    BY <1>5, Zenon DEF ExpiryScan
  <2> HIDE DEF batch, spans
  <2>3. CASE sweep' = [sweep EXCEPT !.at = "expiry"]
    <3>1. Shape(sweep') /\ sweep'.todo = {}
      BY <1>s, <2>2, <2>3, Zenon
    <3>. QED  BY <1>2, <3>1, Zenon
  <2>4. ASSUME NEW c, sweep' = [sweep EXCEPT !.at = "expiry", !.todo = batch, !.cursor = c]
        PROVE  SweepIsTrue'
    <3>1. Shape(sweep') /\ sweep'.todo = batch /\ sweep'.at = "expiry"
      BY <1>s, <2>1, <2>4, Zenon
    <3>. QED  BY <1>0, <2>1, <2>2, <3>1, Zenon DEF SweepIsTrue
  <2>. QED  BY <2>2, <2>3, <2>4, Zenon
<1>6. CASE \E r \in Req : SweepWrite(r)
  <2>1. PICK r \in Req : sweep' = [sweep EXCEPT !.todo = sweep.todo \ {r}]
    BY <1>6, Zenon DEF SweepWrite
  <2>2. Shape(sweep') /\ sweep'.todo \subseteq sweep.todo /\ sweep'.at = sweep.at
    BY <1>s, <2>1, Zenon
  <2>. QED  BY <1>1, <2>2, Zenon
<1>7. CASE \E x \in Actor : ClosureOf(x)
  <2>1. PICK x \in Actor : ClosureOf(x)
    BY <1>7, Zenon
  <2> DEFINE theirs == {r \in Req : Open(log, r) /\ asked[r].to = x}
  <2>2. PICK known \in BOOLEAN :
          sweep' = [sweep EXCEPT !.receivers = sweep.receivers \ {x},
                                 !.todo = IF Gone(x, known) THEN theirs ELSE {}]
    BY <2>1, Zenon DEF ClosureOf
  <2>3. UNCHANGED <<asked, member>>
    BY <2>1, Zenon DEF ClosureOf
  <2>4. theirs \subseteq Req /\ \A r \in theirs : FindByID(log, r) /\ asked[r].to = x
    BY Zenon DEF Open
  <2> HIDE DEF theirs
  <2>5. CASE Gone(x, known)
    <3>1. Shape(sweep') /\ sweep'.todo = theirs /\ sweep'.at = sweep.at /\ x \notin member
      BY <1>s, <2>2, <2>4, <2>5, Zenon DEF Gone
    <3>2. sweep.at # "idle"
      BY <2>1, Zenon DEF ClosureOf
    <3>. QED  BY <1>0, <2>3, <2>4, <3>1, <3>2, Zenon DEF SweepIsTrue
  <2>6. CASE ~Gone(x, known)
    <3>1. Shape(sweep') /\ sweep'.todo = {}
      BY <1>s, <2>2, <2>6, Zenon
    <3>. QED  BY <1>2, <3>1, Zenon
  <2>. QED  BY <2>5, <2>6, Zenon
<1>8. CASE Crash
  <2>1. Shape(sweep') /\ sweep'.todo = {}
    BY <1>8, Zenon DEF Crash, Resting
  <2>. QED  BY <1>2, <2>1, Zenon
<1>9. CASE UNCHANGED sweep
  BY <1>s, <1>1, <1>9, Zenon
<1>10. ASSUME \/ \E p \in Pens : AppendRow(p) \/ AppendFails(p)
              \/ \E p \in Pen, r \in Req, x \in Caller, y \in Actor : Submit(p, r, x, y) \/ Post(p, r, x, y)
              \/ \E p \in Pen, r \in Req : SubmitLands(p, r) \/ SubmitForgets(p, r)
              \/ \E p \in Pen, r \in Req : FireTimeout(p, r) \/ CancelCall(p, r)
              \/ \E p \in Pen, r \in Req, fp \in Client : PostAgain(p, r, fp)
              \/ \E p \in Pen, r \in Req, word \in ReplyWords, x \in Actor : Reply(p, r, word, x)
              \/ \E r \in Req : Match(r) \/ Consume(r)
              \/ \E x \in Actor : Leave(x)
              \/ Tick \/ UNCHANGED vars
       PROVE  UNCHANGED sweep
  BY <1>10, Zenon DEF AppendRow, AppendFails, Submit, Post, SubmitLands, SubmitForgets, Returned,
        FireTimeout, CancelCall, SelfClose, PostAgain, Reply, Match, Consume, Leave, Tick, vars
<1>. QED  BY <1>3, <1>4, <1>5, <1>6, <1>7, <1>8, <1>9, <1>10, Zenon DEF Next

-----------------------------------------------------------------------------
(* The log *)

\* The row a write in flight appends, and the log with it.
LEMMA GrowsFacts ==
    ASSUME ChainInv, NEW p \in Pens, Grows(p)
    PROVE  LET row == RowOf(pen[p])
           IN  /\ row \in Row /\ row.req = pen[p].req /\ row.word = pen[p].word
               /\ row.author = pen[p].author /\ row.fp = pen[p].fp
               /\ asked[row.req] # NoAsk
               /\ row.word # "ask" => FindByID(log, row.req)
               /\ row.word = "unavailable" => row.author = System /\ asked[row.req].to \notin member
               /\ log' \in Seq(Row) /\ Len(log') = Len(log) + 1 /\ Len(log) \in Nat
               /\ DOMAIN log' = 1 .. Len(log) + 1 /\ DOMAIN log = 1 .. Len(log)
               /\ log'[Len(log) + 1] = row
               /\ \A i \in 1 .. Len(log) : log'[i] = log[i]
               /\ \A r \in Req : FindByID(log, r) => FindByID(log', r)
               /\ row.word = "ask" => FindByID(log', row.req)
<1> USE ClosureAssumption, LogAssumption
<1> DEFINE row == RowOf(pen[p])
<1>1. /\ log \in Seq(Row) /\ now \in Nat /\ pen[p] \in InFlight
      /\ pen[p].step = "checked" /\ WriteIsAdmitted(pen[p]) /\ log' = Append(log, row)
  BY Zenon DEF Grows, ChainInv, DataType
<1>2. /\ row \in Row /\ row.req = pen[p].req /\ row.word = pen[p].word
      /\ row.author = pen[p].author /\ row.fp = pen[p].fp
  BY <1>1, Zenon DEF RowOf, Row, InFlight, WriteIsAdmitted, Party
<1> HIDE DEF row
<1>3. /\ asked[row.req] # NoAsk
      /\ row.word # "ask" => FindByID(log, row.req)
      /\ row.word = "unavailable" => row.author = System /\ asked[row.req].to \notin member
  BY <1>1, <1>2, Zenon DEF WriteIsAdmitted
<1>4. /\ log' \in Seq(Row) /\ Len(log') = Len(log) + 1 /\ Len(log) \in Nat
      /\ DOMAIN log' = 1 .. Len(log) + 1 /\ DOMAIN log = 1 .. Len(log)
      /\ log'[Len(log) + 1] = row
      /\ \A i \in 1 .. Len(log) : log'[i] = log[i]
      /\ \A r \in Req : FindByID(log, r) => FindByID(log', r)
      /\ row.word = "ask" => FindByID(log', row.req)
  BY <1>1, <1>2, AppendFacts
<1>. QED  BY <1>2, <1>3, <1>4, Zenon DEF row

\* What the rows say stays true, and a new row is admitted by the transaction.
LEMMA LogStep ==
    ASSUME [Next]_vars, ChainInv
    PROVE  log' \in Seq(Row) /\ LogIsAsked' /\ TerminalIsLast' /\ HonestDeath'
<1> USE ClosureAssumption, LogAssumption
<1>1. /\ log \in Seq(Row) /\ pen \in [Pens -> InFlight] /\ now \in Nat
      /\ LogIsAsked /\ TerminalIsLast /\ HonestDeath
      /\ \A p \in Pens : WriteIsAdmitted(pen[p])
      /\ \A i \in 1 .. Len(log) : log[i] \in Row /\ log[i].req \in Req
      /\ DOMAIN log = 1 .. Len(log)
  <2>1. /\ log \in Seq(Row) /\ pen \in [Pens -> InFlight] /\ now \in Nat
        /\ LogIsAsked /\ TerminalIsLast /\ HonestDeath
        /\ \A p \in Pens : WriteIsAdmitted(pen[p])
    BY Zenon DEF ChainInv, DataType
  <2>2. /\ DOMAIN log = 1 .. Len(log)
        /\ \A i \in 1 .. Len(log) : log[i] \in Row
    BY <2>1
  <2>. QED  BY <2>1, <2>2, Zenon DEF Row
<1>2. /\ \A r \in Req : asked[r] # NoAsk => asked'[r] = asked[r]
      /\ member' \subseteq member
      /\ log' = log \/ \E p \in Pens : Grows(p)
  BY LogSteps, Zenon DEF ChainInv
<1>3. CASE log' = log
  <2>1. LogIsAsked'
    BY <1>1, <1>2, <1>3, Zenon DEF LogIsAsked, FindByID
  <2>2. TerminalIsLast'
    BY <1>1, <1>3, Zenon DEF TerminalIsLast
  <2>3. \A i \in 1 .. Len(log) : asked'[log[i].req] = asked[log[i].req]
    BY <1>1, <1>2, Zenon DEF LogIsAsked
  <2>4. HonestDeath'
    BY <1>1, <1>2, <1>3, <2>3 DEF HonestDeath
  <2>. QED  BY <1>1, <1>3, <2>1, <2>2, <2>4, Zenon
<1>4. ASSUME NEW p \in Pens, Grows(p)
      PROVE  log' \in Seq(Row) /\ LogIsAsked' /\ TerminalIsLast' /\ HonestDeath'
  <2> DEFINE row == RowOf(pen[p])
  <2>1. ~Refused(log, row) /\ UNCHANGED <<asked, member>>
    BY <1>4, Zenon DEF Grows
  <2>3. /\ row \in Row /\ row.req \in Req /\ asked[row.req] # NoAsk
        /\ row.word # "ask" => FindByID(log, row.req)
        /\ row.word = "unavailable" => row.author = System /\ asked[row.req].to \notin member
    BY <1>4, GrowsFacts, Zenon DEF Row
  <2>4. /\ log' \in Seq(Row) /\ Len(log') = Len(log) + 1 /\ Len(log) \in Nat
        /\ DOMAIN log' = 1 .. Len(log) + 1
        /\ log'[Len(log) + 1] = row
        /\ \A i \in 1 .. Len(log) : log'[i] = log[i]
        /\ \A r \in Req : FindByID(log, r) => FindByID(log', r)
        /\ row.word = "ask" => FindByID(log', row.req)
    BY <1>4, GrowsFacts, Zenon
  <2> HIDE DEF row
  <2>5. LogIsAsked'
    <3>1. \A i \in 1 .. Len(log) : asked[log[i].req] # NoAsk /\ FindByID(log', log'[i].req)
      BY <1>1, <2>4, Zenon DEF LogIsAsked
    <3>2. FindByID(log', row.req)
      BY <2>3, <2>4, Zenon
    <3>3. ASSUME NEW i \in 1 .. Len(log')
          PROVE  asked'[log'[i].req] # NoAsk /\ FindByID(log', log'[i].req)
      BY <2>1, <2>3, <2>4, <3>1, <3>2
    <3>. QED  BY <3>3, Zenon DEF LogIsAsked
  <2>6. HonestDeath'
    BY <1>1, <2>1, <2>3, <2>4 DEF HonestDeath
  <2>7. \A i \in 1 .. Len(log) : log[i].req = row.req => log[i].word \notin FinalWords
    <3>1. CASE row.word = "ask"
      BY <1>1, <2>1, <3>1, Zenon DEF Refused, LogIsAsked
    <3>2. CASE row.word # "ask"
      BY <1>1, <2>1, <3>2, Zenon DEF Refused, HasFinalResponse
    <3>. QED  BY <3>1, <3>2, Zenon
  <2>8. TerminalIsLast'
    BY <1>1, <2>4, <2>7 DEF TerminalIsLast
  <2>. QED  BY <2>4, <2>5, <2>6, <2>8, Zenon
<1>. QED  BY <1>2, <1>3, <1>4, Zenon

-----------------------------------------------------------------------------
(* The accounts *)

\* An account's entry is opened fresh, dropped, armed, or moved past its next response.
AccountMoves(r) ==
    \/ account'[r] = account[r]
    \/ account'[r].st = "none" /\ account'[r].seen = 0
    \/ /\ asked[r] = NoAsk /\ asked'[r] # NoAsk
       /\ account'[r].st = "registered" /\ account'[r].seen = 0
    \/ /\ account[r].st = "registered"
       /\ account'[r].st = "armed" /\ account'[r].seen = account[r].seen
    \/ /\ account[r].st \in {"registered", "armed"}
       /\ \E i \in First(Unseen(r)) :
             /\ account'[r].seen = i
             /\ account'[r].st = IF log[i].word \in FinalWords THEN "final" ELSE account[r].st

\* Every step moves every account in one of these ways.
LEMMA AccountSteps ==
    ASSUME [Next]_vars, ChainInv, account \in [Req -> Account]
    PROVE  /\ account' \in [Req -> Account]
           /\ \A r \in Req : AccountMoves(r)
           /\ account' = account \/ log' = log
<1> USE ClosureAssumption, LogAssumption
<1>0. /\ asked \in [Req -> Entry] /\ log \in Seq(Row) /\ now \in Nat
      /\ account \in [Req -> Account] /\ NoAccount \in Account
      /\ \A r \in Req : asked[r].span \in Nat
      /\ DOMAIN log = 1 .. Len(log)
  BY DEF ChainInv, DataType, Entry, Account, NoAccount
<1>1. ASSUME NEW r \in Req, NEW e \in Account, account' = [account EXCEPT ![r] = e], log' = log,
             \/ e.st = "none" /\ e.seen = 0
             \/ asked[r] = NoAsk /\ asked'[r] # NoAsk /\ e.st = "registered" /\ e.seen = 0
             \/ account[r].st = "registered" /\ e.st = "armed" /\ e.seen = account[r].seen
             \/ /\ account[r].st \in {"registered", "armed"}
                /\ \E i \in First(Unseen(r)) :
                      /\ e.seen = i
                      /\ e.st = IF log[i].word \in FinalWords THEN "final" ELSE account[r].st
      PROVE  /\ account' \in [Req -> Account]
             /\ \A q \in Req : AccountMoves(q)
             /\ account' = account \/ log' = log
  <2>1. \A q \in Req : account'[q] = IF q = r THEN e ELSE account[q]
    BY <1>0, <1>1, Zenon
  <2>2. account' \in [Req -> Account]
    BY <1>0, <1>1, Zenon
  <2>3. ASSUME NEW q \in Req
        PROVE  AccountMoves(q)
    <3>1. CASE q # r
      BY <2>1, <3>1, Zenon DEF AccountMoves
    <3>2. CASE q = r
      BY <1>1, <2>1, <3>2, Zenon DEF AccountMoves
    <3>. QED  BY <3>1, <3>2, Zenon
  <2>. QED  BY <1>1, <2>2, <2>3, Zenon
<1>2. CASE UNCHANGED account
  BY <1>0, <1>2, Zenon DEF AccountMoves
<1>3. ASSUME NEW r \in Req, NEW st \in {"registered", "armed"}, NEW due \in Nat
      PROVE  [st |-> st, due |-> due, seen |-> account[r].seen] \in Account
  BY <1>0, Zenon DEF Account
<1>4. CASE \E p \in Pen, r \in Req, x \in Caller, y \in Actor : Submit(p, r, x, y)
  <2> DEFINE e == [st |-> "registered", due |-> 0, seen |-> 0]
  <2>1. PICK p \in Pen, r \in Req, x \in Caller, y \in Actor : Submit(p, r, x, y)
    BY <1>4, Zenon
  <2>2. x # y /\ Fresh(r) /\ account' = [account EXCEPT ![r] = e] /\ log' = log
    BY <2>1, Zenon DEF Submit, Ask
  <2>3. asked'[r].from = x /\ asked'[r].to = y
    <3>1. PICK s \in Spans :
              asked' = [asked EXCEPT ![r] = [from |-> x, to |-> y, span |-> s, client |-> FALSE]]
      BY <2>1, Zenon DEF Submit, Ask
    <3>2. asked'[r] = [from |-> x, to |-> y, span |-> s, client |-> FALSE]
      BY <1>0, <3>1, Zenon
    <3>. QED  BY <3>2
  <2>4. asked'[r] # NoAsk
    <3>1. NoAsk.from = NoAsk.to
      BY Zenon DEF NoAsk
    <3>. QED  BY <2>2, <2>3, <3>1, Zenon
  <2>5. e \in Account /\ e.st = "registered" /\ e.seen = 0
    BY Zenon DEF Account
  <2>. QED  BY <1>1, <2>2, <2>4, <2>5, Zenon DEF Fresh
<1>5. CASE \E p \in Pen, r \in Req : SubmitLands(p, r)
  <2>1. PICK r \in Req : account' = Arm(r) /\ log' = log
    BY <1>5, Zenon DEF SubmitLands, Returned
  <2>2. CASE account[r].st = "registered"
    <3> DEFINE e == [st |-> "armed", due |-> now + asked[r].span, seen |-> account[r].seen]
    <3>1. e \in Account /\ account' = [account EXCEPT ![r] = e]
      BY <1>0, <2>1, <2>2 DEF Account, Arm
    <3>2. e.st = "armed" /\ e.seen = account[r].seen
      BY Zenon
    <3> HIDE DEF e
    <3>. QED  BY <1>1, <2>1, <2>2, <3>1, <3>2, Zenon
  <2>3. CASE account[r].st # "registered"
    BY <1>2, <2>1, <2>3, Zenon DEF Arm
  <2>. QED  BY <2>2, <2>3, Zenon
<1>6. CASE \/ \E p \in Pen, r \in Req : SubmitForgets(p, r) \/ FireTimeout(p, r) \/ CancelCall(p, r)
           \/ \E r \in Req : Consume(r)
  <2>1. PICK r \in Req : account' = [account EXCEPT ![r] = NoAccount] /\ log' = log
    BY <1>6, Zenon DEF SubmitForgets, Returned, FireTimeout, CancelCall, SelfClose, Consume
  <2>2. NoAccount.st = "none" /\ NoAccount.seen = 0
    BY Zenon DEF NoAccount
  <2>. QED  BY <1>0, <1>1, <2>1, <2>2, Zenon
<1>7. CASE \E r \in Req : Match(r)
  <2>1. PICK r \in Req : Match(r)
    BY <1>7, Zenon
  <2> DEFINE a == account[r]
             entry(st, due, i) == [st |-> st, due |-> due, seen |-> i]
  <2>2. a \in Account /\ a.due \in Nat /\ now + asked[r].span \in Nat
    BY <1>0 DEF Account
  <2>3. PICK i \in First(Unseen(r)) :
          IF log[i].word \in FinalWords
          THEN account' = [account EXCEPT ![r] = entry("final", 0, i)]
          ELSE \E due \in {a.due, now + asked[r].span} :
                  account' = [account EXCEPT ![r] = entry(a.st, due, i)]
    BY <2>1, Zenon DEF Match
  <2>4. i \in 1 .. Len(log) /\ i \in Nat /\ log' = log /\ a.st \in {"registered", "armed"}
    BY <1>0, <2>1 DEF Match, First, Unseen
  <2>5. CASE log[i].word \in FinalWords
    <3> DEFINE e == entry("final", 0, i)
    <3>1. e \in Account /\ e.st = "final" /\ e.seen = i
      BY <2>4, Zenon DEF Account
    <3>2. account' = [account EXCEPT ![r] = e]
      BY <2>3, <2>5, Zenon
    <3> HIDE DEF e
    <3>. QED  BY <1>1, <2>4, <2>5, <3>1, <3>2, Zenon
  <2>6. CASE log[i].word \notin FinalWords
    <3>1. PICK due \in Nat : account' = [account EXCEPT ![r] = entry(a.st, due, i)]
      BY <2>2, <2>3, <2>6, Zenon
    <3> DEFINE e == entry(a.st, due, i)
    <3>2. e \in Account /\ e.st = a.st /\ e.seen = i
      BY <2>2, <2>4, Zenon DEF Account
    <3>3. account' = [account EXCEPT ![r] = e]
      BY <3>1, Zenon
    <3> HIDE DEF e
    <3>. QED  BY <1>1, <2>4, <2>6, <3>2, <3>3, Zenon
  <2>. QED  BY <2>5, <2>6, Zenon
<1>8. CASE Crash
  BY <1>0, <1>8 DEF Crash, AccountMoves, NoAccount
<1>9. ASSUME \/ \E p \in Pens : AppendRow(p) \/ AppendFails(p)
             \/ \E p \in Pen, r \in Req, x \in Caller, y \in Actor : Post(p, r, x, y)
             \/ \E p \in Pen, r \in Req, fp \in Client : PostAgain(p, r, fp)
             \/ \E p \in Pen, r \in Req, word \in ReplyWords, x \in Actor : Reply(p, r, word, x)
             \/ \E r \in Req : SweepWrite(r)
             \/ \E x \in Actor : ClosureOf(x) \/ Leave(x)
             \/ SweepStart \/ ExpiryScan \/ SweepEnd \/ Tick \/ UNCHANGED vars
       PROVE  UNCHANGED account
  BY <1>9, Zenon DEF AppendRow, AppendFails, Post, PostAgain, Reply, SweepWrite, ClosureOf, Leave,
        SweepStart, ExpiryScan, SweepEnd, Tick, vars
<1>. QED  BY <1>2, <1>4, <1>5, <1>6, <1>7, <1>8, <1>9, Zenon DEF Next

\* An account that waits was handed no final yet.
Waits(r) ==
    account[r].st \in {"registered", "armed"} =>
        \A i \in DOMAIN log : log[i].req = r /\ i <= account[r].seen => log[i].word \notin FinalWords

\* An account that holds a final holds the terminal of its request.
Holds(r) ==
    account[r].st = "final" =>
        /\ account[r].seen \in DOMAIN log
        /\ log[account[r].seen].req = r /\ log[account[r].seen].word \in FinalWords

\* No more is seen than there is, and only who has asked has an account.
AccountInv ==
    /\ account \in [Req -> Account]
    /\ \A r \in Req : /\ account[r].seen <= Len(log)
                      /\ asked[r] = NoAsk => account[r].st = "none"
                      /\ Waits(r) /\ Holds(r)

\* Every step keeps the accounts.
LEMMA AccountStep ==
    ASSUME [Next]_vars, ChainInv, AccountInv
    PROVE  AccountInv'
<1>1. /\ account' \in [Req -> Account] /\ account \in [Req -> Account]
      /\ \A r \in Req : AccountMoves(r)
      /\ account' = account \/ log' = log
      /\ log \in Seq(Row) /\ Len(log) \in Nat /\ DOMAIN log = 1 .. Len(log)
      /\ \A r \in Req : account[r].seen \in Nat /\ account[r].seen <= Len(log)
  BY AccountSteps DEF ChainInv, DataType, AccountInv, Account
<1>2. \A r \in Req : asked[r] # NoAsk => asked'[r] = asked[r]
  BY LogSteps, Zenon DEF ChainInv
<1>3. ASSUME NEW r \in Req, asked'[r] = NoAsk
      PROVE  account'[r].st = "none"
  <2>1. asked[r] = NoAsk
    BY <1>2, <1>3, Zenon
  <2>2. account[r].st = "none"
    BY <2>1, Zenon DEF AccountInv
  <2>3. AccountMoves(r)
    BY <1>1, Zenon
  <2>. QED  BY <1>3, <2>2, <2>3, Zenon DEF AccountMoves
<1>4. CASE account' = account
  <2>1. log' = log \/ \E p \in Pens : Grows(p)
    BY LogSteps, Zenon DEF ChainInv
  <2>2. ASSUME NEW p \in Pens, Grows(p)
        PROVE  /\ Len(log') = Len(log) + 1 /\ DOMAIN log' = 1 .. Len(log) + 1
               /\ \A i \in 1 .. Len(log) : log'[i] = log[i]
    BY <2>2, GrowsFacts, Zenon
  <2>3. /\ Len(log') \in Nat /\ Len(log) <= Len(log') /\ DOMAIN log' = 1 .. Len(log')
        /\ \A i \in 1 .. Len(log) : log'[i] = log[i]
    BY <1>1, <2>1, <2>2
  <2>4. ASSUME NEW r \in Req
        PROVE  account[r].seen <= Len(log') /\ Waits(r)' /\ Holds(r)'
    <3>1. account[r].seen \in Nat /\ account[r].seen <= Len(log) /\ Waits(r) /\ Holds(r)
      BY <1>1, Zenon DEF AccountInv
    <3>2. account'[r] = account[r]
      BY <1>4, Zenon
    <3>. QED  BY <1>1, <2>3, <3>1, <3>2 DEF Waits, Holds
  <2>. QED  BY <1>1, <1>3, <1>4, <2>4, Zenon DEF AccountInv
<1>5. CASE log' = log
  <2>1. ASSUME NEW r \in Req
        PROVE  /\ account'[r].seen <= Len(log)
               /\ account'[r].st \in {"registered", "armed"} =>
                    \A i \in 1 .. Len(log) : log[i].req = r /\ i <= account'[r].seen =>
                        log[i].word \notin FinalWords
               /\ account'[r].st = "final" =>
                    /\ account'[r].seen \in 1 .. Len(log)
                    /\ log[account'[r].seen].req = r /\ log[account'[r].seen].word \in FinalWords
    <3>0. Waits(r) /\ Holds(r)
      BY <2>1, Zenon DEF AccountInv
    <3>1. CASE account'[r] = account[r]
      BY <1>1, <2>1, <3>0, <3>1, Zenon DEF Waits, Holds
    <3>2. CASE account'[r].st = "none" /\ account'[r].seen = 0
      BY <1>1, <3>2
    <3>3. CASE account'[r].st = "registered" /\ account'[r].seen = 0
      BY <1>1, <3>3
    <3>4. CASE /\ account[r].st = "registered"
               /\ account'[r].st = "armed" /\ account'[r].seen = account[r].seen
      BY <1>1, <2>1, <3>0, <3>4, Zenon DEF Waits
    <3>5. ASSUME account[r].st \in {"registered", "armed"}, NEW k \in First(Unseen(r)),
                 account'[r].seen = k
          PROVE  /\ k \in 1 .. Len(log) /\ log[k].req = r
                 /\ log[k].word \notin FinalWords =>
                      \A i \in 1 .. Len(log) : log[i].req = r /\ i <= k => log[i].word \notin FinalWords
      <4>1. /\ k \in 1 .. Len(log) /\ log[k].req = r
            /\ \A i \in 1 .. Len(log) :
                 log[i].req = r /\ log[i].word # "ask" /\ i > account[r].seen => k <= i
        BY <1>1, <3>5, Zenon DEF First, Unseen
      <4>2. \A i \in 1 .. Len(log) : log[i].req = r /\ i <= account[r].seen => log[i].word \notin FinalWords
        BY <1>1, <3>0, <3>5, Zenon DEF Waits
      <4>3. "ask" \notin FinalWords
        BY Zenon DEF FinalWords
      <4>. QED  BY <1>1, <3>5, <4>1, <4>2, <4>3
    <3>6. ASSUME account[r].st \in {"registered", "armed"}, NEW k \in First(Unseen(r)),
                 account'[r].seen = k,
                 account'[r].st = IF log[k].word \in FinalWords THEN "final" ELSE account[r].st
          PROVE  /\ k \in 1 .. Len(log)
                 /\ account'[r].st \in {"registered", "armed"} =>
                      \A i \in 1 .. Len(log) : log[i].req = r /\ i <= k => log[i].word \notin FinalWords
                 /\ account'[r].st = "final" => log[k].req = r /\ log[k].word \in FinalWords
      BY <3>5, <3>6, Zenon
    <3>7. CASE /\ account[r].st \in {"registered", "armed"}
               /\ \E i \in First(Unseen(r)) :
                     /\ account'[r].seen = i
                     /\ account'[r].st = IF log[i].word \in FinalWords THEN "final" ELSE account[r].st
      <4>1. PICK k \in First(Unseen(r)) :
                /\ account'[r].seen = k
                /\ account'[r].st = IF log[k].word \in FinalWords THEN "final" ELSE account[r].st
        BY <3>7, Zenon
      <4>2. k \in 1 .. Len(log) /\ k <= Len(log)
        BY <1>1, <3>6, <3>7, <4>1
      <4>. QED  BY <3>6, <3>7, <4>1, <4>2, Zenon
    <3>. QED  BY <1>1, <3>1, <3>2, <3>3, <3>4, <3>7, Zenon DEF AccountMoves
  <2>. QED  BY <1>1, <1>3, <1>5, <2>1, Zenon DEF AccountInv, Waits, Holds
<1>. QED  BY <1>1, <1>4, <1>5, Zenon

-----------------------------------------------------------------------------
(* What was accepted *)

\* What was accepted stays stored, and what is accepted is.
LEMMA AcceptedStep ==
    ASSUME [Next]_vars, ChainInv, AcceptedIsStored
    PROVE  AcceptedIsStored'
<1> DEFINE in(lg, req, fp) == \E i \in DOMAIN lg : lg[i].req = req /\ lg[i].word = "ask" /\ lg[i].fp = fp
<1>1. ASSUME NEW p \in Pen, pen'[p].step = "landed"
      PROVE  in(log', pen'[p].req, pen'[p].fp)
  <2>1. p \in Pens /\ PenMoves(p) /\ (log' = log \/ \E q \in Pens : Grows(q))
    BY LogSteps, PenSteps, Zenon DEF Pens, ChainInv
  <2>2. CASE pen'[p] = pen[p]
    <3>1. in(log, pen[p].req, pen[p].fp)
      BY <1>1, <2>2, Zenon DEF AcceptedIsStored
    <3>2. CASE log' = log
      BY <2>2, <3>1, <3>2, Zenon
    <3>3. ASSUME NEW q \in Pens, Grows(q)
          PROVE  in(log', pen[p].req, pen[p].fp)
      <4>1. /\ DOMAIN log = 1 .. Len(log) /\ DOMAIN log' = 1 .. Len(log) + 1 /\ Len(log) \in Nat
            /\ \A i \in 1 .. Len(log) : log'[i] = log[i]
        BY <3>3, GrowsFacts, Zenon
      <4>. QED  BY <3>1, <4>1
    <3>. QED  BY <2>1, <2>2, <3>2, <3>3, Zenon
  <2>3. CASE pen'[p] # pen[p]
    <3>1. /\ Stored(p) /\ pen[p].word = "ask"
          /\ pen'[p].req = pen[p].req /\ pen'[p].fp = pen[p].fp
      BY <1>1, <2>1, <2>3 DEF PenMoves, NoWrite
    <3>2. CASE Grows(p)
      <4>1. /\ DOMAIN log' = 1 .. Len(log) + 1 /\ Len(log) \in Nat
            /\ log'[Len(log) + 1] = RowOf(pen[p])
            /\ RowOf(pen[p]).req = pen[p].req /\ RowOf(pen[p]).word = pen[p].word
            /\ RowOf(pen[p]).fp = pen[p].fp
        BY <2>1, <3>2, GrowsFacts, Zenon
      <4>2. Len(log) + 1 \in DOMAIN log'
        BY <4>1
      <4>. QED  BY <3>1, <4>1, <4>2, Zenon
    <3>3. CASE log' = log /\ Replayed(log, RowOf(pen[p]))
      BY <3>1, <3>3, Zenon DEF Replayed, RowOf
    <3>. QED  BY <3>1, <3>2, <3>3, Zenon DEF Stored
  <2>. QED  BY <2>2, <2>3, Zenon
<1>. QED  BY <1>1, Zenon DEF AcceptedIsStored

-----------------------------------------------------------------------------
(* Together *)

\* Every step keeps what the chain and the sweep rest on.
LEMMA ChainStep ==
    ASSUME [Next]_vars, ChainInv
    PROVE  ChainInv'
<1> USE ClosureAssumption, LogAssumption
<1>1. /\ log' \in Seq(Row) /\ LogIsAsked' /\ TerminalIsLast' /\ HonestDeath' /\ SweepIsTrue'
  BY LogStep, SweepStep, Zenon
<1>2. /\ asked' \in [Req -> Entry] /\ now' \in Nat /\ member' \subseteq member
      /\ \A r \in Req : asked[r] # NoAsk => asked'[r] = asked[r]
      /\ log' = log \/ \E q \in Pens : Grows(q)
      /\ member \subseteq Actor
  BY LogSteps, Zenon DEF ChainInv, DataType
<1>3. /\ pen' \in [Pens -> InFlight]
      /\ \A p \in Pens : PenMoves(p) /\ WriteIsAdmitted(pen[p])
  BY PenSteps, Zenon DEF ChainInv
<1>4. \A r \in Req : FindByID(log, r) => FindByID(log', r)
  BY <1>2, GrowsFacts, Zenon
<1>5. ASSUME NEW p \in Pens
      PROVE  WriteIsAdmitted(pen[p])'
  <2>1. CASE pen'[p] = pen[p]
    <3> DEFINE w == pen[p]
    <3>1. WriteIsAdmitted(w)
      BY <1>3, Zenon
    <3> HIDE DEF w
    <3>2. /\ w.step # "idle" => w.req \in Req /\ asked'[w.req] # NoAsk /\ asked'[w.req] = asked[w.req]
          /\ w.step = "checked" /\ w.word # "ask" => FindByID(log', w.req)
      BY <1>2, <1>4, <3>1, Zenon DEF WriteIsAdmitted
    <3>3. w.step = "checked" /\ w.word = "unavailable" =>
            w.author = System /\ asked'[w.req].to \notin member'
      BY <1>2, <3>1, <3>2, Zenon DEF WriteIsAdmitted
    <3>4. pen'[p] = w /\ (w.step \in {"landed", "refused"} => w.word = "ask")
      BY <2>1, <3>1, Zenon DEF WriteIsAdmitted, w
    <3>. QED  BY <3>2, <3>3, <3>4, Zenon DEF WriteIsAdmitted
  <2>2. CASE pen'[p] = NoWrite
    BY <2>2 DEF WriteIsAdmitted, NoWrite
  <2>3. CASE pen'[p] # pen[p] /\ pen'[p] # NoWrite /\ pen'[p].step = "checked"
    <3>1. /\ pen'[p].req \in Req /\ asked'[pen'[p].req] # NoAsk
          /\ pen'[p].word # "ask" => FindByID(log, pen'[p].req)
          /\ pen'[p].word = "unavailable" =>
                pen'[p].author = System /\ asked'[pen'[p].req].to \notin member
          /\ member' = member
      BY <1>3, <2>3 DEF PenMoves
    <3>. QED  BY <1>4, <2>3, <3>1, Zenon DEF WriteIsAdmitted
  <2>4. CASE pen'[p] # pen[p] /\ pen'[p] # NoWrite /\ pen'[p].step # "checked"
    <3>1. /\ pen[p].step = "checked" /\ pen'[p].word = "ask" /\ pen'[p].req = pen[p].req
          /\ pen'[p].step \in {"landed", "refused"}
      BY <1>3, <2>4 DEF PenMoves
    <3>. QED  BY <1>2, <1>3, <3>1, Zenon DEF WriteIsAdmitted
  <2>. QED  BY <2>1, <2>2, <2>3, <2>4, Zenon
<1>. QED  BY <1>1, <1>2, <1>3, <1>5, Zenon DEF ChainInv, DataType

ClosureInv == ChainInv /\ AccountInv /\ AcceptedIsStored

\* The chain, the sweep, the accounts and the pens keep their promises together.
THEOREM ClosureInvariant == Spec => []ClosureInv
<1>1. Init => ClosureInv
  <2> SUFFICES ASSUME Init PROVE ClosureInv
    BY Zenon
  <2> USE ClosureAssumption, LogAssumption
  <2>1. Len(log) = 0 /\ DOMAIN log = {} /\ log \in Seq(Row)
    BY DEF Init
  <2>2. NoWrite \in InFlight /\ NoAsk \in Entry /\ NoAccount \in Account
    BY Zenon DEF NoWrite, InFlight, NoAsk, Entry, NoAccount, Account, Party
  <2>3. DataType /\ LogIsAsked
    BY <2>1, <2>2 DEF Init, DataType, LogIsAsked
  <2>4. SweepIsTrue
    BY Zenon DEF Init, SweepIsTrue, Resting
  <2>5. \A p \in Pens : WriteIsAdmitted(pen[p])
    BY Zenon DEF Init, WriteIsAdmitted, NoWrite
  <2>6. TerminalIsLast /\ HonestDeath
    BY <2>1, Zenon DEF TerminalIsLast, HonestDeath
  <2>7. AccountInv
    BY <2>1, <2>2 DEF Init, AccountInv, Waits, Holds, NoAccount
  <2>8. AcceptedIsStored
    BY Zenon DEF Init, AcceptedIsStored, NoWrite, Pens
  <2>. QED  BY <2>3, <2>4, <2>5, <2>6, <2>7, <2>8, Zenon DEF ClosureInv, ChainInv
<1>2. ClosureInv /\ [Next]_vars => ClosureInv'
  BY ChainStep, AccountStep, AcceptedStep, Zenon DEF ClosureInv
<1>. QED  BY <1>1, <1>2, PTL DEF Spec

\* messages.go and step_response_pairing.go: whoever raced between the pairing step and the
\* append, a request has one terminal and nothing after it.
THEOREM OneTerminal == Spec => []TerminalIsLast
<1>1. ClosureInv => TerminalIsLast
  BY Zenon DEF ClosureInv, ChainInv
<1>. QED  BY <1>1, ClosureInvariant, PTL

\* death.go: no request is closed as unavailable while its receiver is a member.
THEOREM NoFalseDeath == Spec => []HonestDeath
<1>1. ClosureInv => HonestDeath
  BY Zenon DEF ClosureInv, ChainInv
<1>. QED  BY <1>1, ClosureInvariant, PTL

\* A request whose write was accepted is in the log with the client's content.
THEOREM AcceptedAlwaysStored == Spec => []AcceptedIsStored
<1>1. ClosureInv => AcceptedIsStored
  BY Zenon DEF ClosureInv
<1>. QED  BY <1>1, ClosureInvariant, PTL

\* Of a final that is held, no step but wait, forget and the end of the process takes it.
LEMMA FinalStays ==
    ASSUME ClosureInv, [Next]_vars, NEW r \in Req, account[r].st = "final"
    PROVE  \/ account'[r] = account[r]
           \/ Consume(r) \/ (\E p \in Pen : SubmitForgets(p, r)) \/ Crash
<1>1. account \in [Req -> Account] /\ asked[r] # NoAsk
  BY Zenon DEF ClosureInv, AccountInv
<1>2. ASSUME NEW q \in Req, NEW e, account' = [account EXCEPT ![q] = e], q # r
      PROVE  account'[r] = account[r]
  BY <1>1, <1>2, Zenon
<1>3. CASE \E p \in Pen, q \in Req, x \in Caller, y \in Actor : Submit(p, q, x, y)
  <2>1. PICK q \in Req : asked[q] = NoAsk /\
            account' = [account EXCEPT ![q] = [st |-> "registered", due |-> 0, seen |-> 0]]
    BY <1>3, Zenon DEF Submit, Ask, Fresh
  <2>2. q # r
    BY <1>1, <2>1, Zenon
  <2>. QED  BY <1>2, <2>1, <2>2, Zenon
<1>4. CASE \E p \in Pen, q \in Req : SubmitLands(p, q)
  <2>1. PICK q \in Req : account' = Arm(q)
    BY <1>4, Zenon DEF SubmitLands
  <2>2. CASE q = r
    BY <2>1, <2>2, Zenon DEF Arm
  <2>3. CASE q # r
    BY <1>2, <2>1, <2>3, Zenon DEF Arm
  <2>. QED  BY <2>2, <2>3, Zenon
<1>5. CASE \E p \in Pen, q \in Req : SubmitForgets(p, q)
  <2>1. PICK p \in Pen, q \in Req : SubmitForgets(p, q)
    BY <1>5, Zenon
  <2>2. CASE q = r
    BY <2>1, <2>2, Zenon
  <2>3. CASE q # r
    BY <1>2, <2>1, <2>3, Zenon DEF SubmitForgets
  <2>. QED  BY <2>2, <2>3, Zenon
<1>6. CASE \E p \in Pen, q \in Req : FireTimeout(p, q) \/ CancelCall(p, q)
  <2>1. PICK q \in Req : /\ account[q].st \in {"registered", "armed"}
                         /\ account' = [account EXCEPT ![q] = NoAccount]
    BY <1>6, Zenon DEF FireTimeout, CancelCall, SelfClose
  <2>. QED  BY <1>2, <2>1, Zenon
<1>7. CASE \E q \in Req : Match(q)
  <2>1. PICK q \in Req : Match(q)
    BY <1>7, Zenon
  <2>2. q # r
    BY <2>1, Zenon DEF Match
  <2>3. \E e : account' = [account EXCEPT ![q] = e]
    BY <2>1, Zenon DEF Match
  <2>. QED  BY <1>2, <2>2, <2>3, Zenon
<1>8. CASE \E q \in Req : Consume(q)
  <2>1. PICK q \in Req : Consume(q)
    BY <1>8, Zenon
  <2>2. CASE q = r
    BY <2>1, <2>2, Zenon
  <2>3. CASE q # r
    BY <1>2, <2>1, <2>3, Zenon DEF Consume
  <2>. QED  BY <2>2, <2>3, Zenon
<1>9. ASSUME \/ \E p \in Pens : AppendRow(p) \/ AppendFails(p)
             \/ \E p \in Pen, q \in Req, x \in Caller, y \in Actor : Post(p, q, x, y)
             \/ \E p \in Pen, q \in Req, fp \in Client : PostAgain(p, q, fp)
             \/ \E p \in Pen, q \in Req, word \in ReplyWords, x \in Actor : Reply(p, q, word, x)
             \/ \E q \in Req : SweepWrite(q)
             \/ \E x \in Actor : ClosureOf(x) \/ Leave(x)
             \/ SweepStart \/ ExpiryScan \/ SweepEnd \/ Tick \/ UNCHANGED vars
       PROVE  account' = account
  BY <1>9, Zenon DEF AppendRow, AppendFails, Post, PostAgain, Reply, SweepWrite, ClosureOf, Leave,
        SweepStart, ExpiryScan, SweepEnd, Tick, vars
<1>. QED  BY <1>3, <1>4, <1>5, <1>6, <1>7, <1>8, <1>9, Zenon DEF Next

\* ledger_call.go: a final in the caller's account is the request's terminal, and neither
\* arm, fireTimeout, cancel nor match touches it: it is there until wait takes it, submit
\* reports the request's own failure, or the process ends.
THEOREM FinalAlwaysKept == Spec => FinalIsKept
<1>1. ClosureInv => \A r \in Req : account[r].st = "final" =>
          /\ account[r].seen \in DOMAIN log
          /\ log[account[r].seen].req = r /\ log[account[r].seen].word \in FinalWords
  BY Zenon DEF ClosureInv, AccountInv, Holds
<1>2. ClosureInv /\ [Next]_vars =>
          [\A r \in Req : account[r].st = "final" =>
              \/ account'[r] = account[r]
              \/ Consume(r) \/ (\E p \in Pen : SubmitForgets(p, r)) \/ Crash]_vars
  BY FinalStays, Zenon
<1>. QED  BY <1>1, <1>2, ClosureInvariant, PTL DEF Spec, FinalIsKept

-----------------------------------------------------------------------------
(* The reaper's deadlines *)

\* The window of request r, of the given span, is over at t.
Elapsed(lg, span, r, t) ==
    \A i \in 1 .. Len(lg) : lg[i].req = r /\ lg[i].word = "ask" => lg[i].ts + span <= t

\* A terminal in which the substrate says that the time is up.
SaysExpired(x) == x.word = "timeout" /\ x.author = System

\* No ts is ahead of the clock.
PastOnly ==
    /\ \A i \in 1 .. Len(log) : log[i].ts <= now
    /\ \A p \in Pens : pen[p].ts <= now

\* A window that is over when the reaper reads the log is over when its terminal
\* passes the chain and when the row is appended: the row that asked is there
\* already, the span is fixed and the clock only goes on.
DueInv ==
    /\ PastOnly
    /\ \A i \in 1 .. Len(log) : SaysExpired(log[i]) =>
          Elapsed(log, asked[log[i].req].span, log[i].req, log[i].received)
    /\ \A p \in Pens : pen[p].step = "checked" /\ SaysExpired(pen[p]) =>
          Elapsed(log, asked[pen[p].req].span, pen[p].req, now)
    /\ sweep.at = "expiry" =>
          \A r \in sweep.todo : FindByID(log, r) /\ Elapsed(log, asked[r].span, r, now)

\* LastActive is the latest ts of the request's rows: bounded by the clock, there
\* is a least bound, and it is one of them.
LEMMA LastActiveIsLast ==
    ASSUME NEW lg \in Seq(Row), NEW n \in Nat, \A i \in 1 .. Len(lg) : lg[i].ts <= n,
           NEW r, NEW j \in RowsOf(lg, r)
    PROVE  LastActive(lg, r) \in Nat /\ lg[j].ts <= LastActive(lg, r)
<1> DEFINE R == RowsOf(lg, r)
           B == {t \in Nat : \A i \in R : lg[i].ts <= t}
           T == {lg[i].ts : i \in R}
<1>1. /\ R \subseteq 1 .. Len(lg) /\ j \in R
      /\ \A i \in R : lg[i].ts \in Nat /\ lg[i].ts <= n
  <2>1. DOMAIN lg = 1 .. Len(lg) /\ \A i \in 1 .. Len(lg) : lg[i] \in Row
    OBVIOUS
  <2>2. \A i \in 1 .. Len(lg) : lg[i].ts \in Nat
    BY <2>1, Zenon DEF Row
  <2>. QED  BY <2>1, <2>2, Zenon DEF RowsOf
<1> HIDE DEF R
<1>2. B \subseteq Nat /\ n \in B
  BY <1>1
<1>3. PICK m \in B : \A t \in B : m <= t
  <2>1. \E x \in B : \A y \in B : <<y, x>> \notin OpToRel(<, Nat)
    BY <1>2, NatLessThanWellFounded, WFMin, Zenon
  <2>2. ASSUME NEW x \in Nat, NEW y \in Nat, <<y, x>> \notin OpToRel(<, Nat)
        PROVE  x <= y
    BY <2>2 DEF OpToRel
  <2>. QED  BY <1>2, <2>1, <2>2, Zenon
<1>4. \E i \in R : lg[i].ts = m
  <2>1. SUFFICES ASSUME \A i \in R : lg[i].ts # m
                 PROVE  FALSE
    BY Zenon
  <2>2. m \in Nat /\ \A i \in R : lg[i].ts <= m
    BY <1>3, Zenon
  <2>3. m # 0 /\ m - 1 \in Nat /\ \A i \in R : lg[i].ts <= m - 1
    BY <1>1, <2>1, <2>2
  <2>4. m - 1 \in B
    BY <2>3, Zenon
  <2>. QED  BY <1>3, <2>2, <2>4
<1>5. \E t \in T : \A i \in R : lg[i].ts <= t
  BY <1>3, <1>4, Zenon
<1>6. LastActive(lg, r) = CHOOSE t \in T : \A i \in R : lg[i].ts <= t
  BY Zenon DEF LastActive, R
<1>7. LastActive(lg, r) \in T /\ \A i \in R : lg[i].ts <= LastActive(lg, r)
  BY <1>5, <1>6, Zenon
<1>. QED  BY <1>1, <1>7, Zenon

\* What ExpiredOpenRequests finds due is in the log and its window is over.
LEMMA DueIsElapsed ==
    ASSUME ChainInv, PastOnly, NEW r \in Req, NEW spans \in [Req -> Nat], spans[r] = asked[r].span,
           Due(log, spans, r, now)
    PROVE  FindByID(log, r) /\ Elapsed(log, asked[r].span, r, now)
<1>1. /\ log \in Seq(Row) /\ now \in Nat /\ \A i \in 1 .. Len(log) : log[i].ts <= now
      /\ FindByID(log, r) /\ LastActive(log, r) + spans[r] <= now
  BY Zenon DEF ChainInv, DataType, PastOnly, Due, Open
<1>2. ASSUME NEW i \in 1 .. Len(log), log[i].req = r
      PROVE  log[i].ts + asked[r].span <= now
  <2>1. i \in RowsOf(log, r) /\ log[i].ts \in Nat
    <3>1. DOMAIN log = 1 .. Len(log) /\ log[i] \in Row
      BY <1>1
    <3>. QED  BY <1>2, <3>1, Zenon DEF RowsOf, Row
  <2>2. LastActive(log, r) \in Nat /\ log[i].ts <= LastActive(log, r)
    BY <1>1, <2>1, LastActiveIsLast, Zenon
  <2>3. spans[r] \in Nat
    BY Zenon
  <2>. QED  BY <1>1, <2>1, <2>2, <2>3
<1>. QED  BY <1>1, <1>2, Zenon DEF Elapsed

\* The clock goes on.
LEMMA ClockStep ==
    ASSUME [Next]_vars, DataType
    PROVE  now' = now \/ (now' = now + 1 /\ UNCHANGED <<log, asked, pen, sweep>>)
<1>1. CASE Tick
  BY <1>1, Zenon DEF Tick
<1>2. CASE UNCHANGED vars
  BY <1>2, Zenon DEF vars
<1>3. CASE \/ \E p \in Pens : AppendRow(p) \/ AppendFails(p)
           \/ \E p \in Pen, r \in Req, x \in Caller, y \in Actor : Submit(p, r, x, y) \/ Post(p, r, x, y)
           \/ \E p \in Pen, r \in Req : SubmitLands(p, r) \/ SubmitForgets(p, r)
           \/ \E p \in Pen, r \in Req : FireTimeout(p, r) \/ CancelCall(p, r)
           \/ \E p \in Pen, r \in Req, fp \in Client : PostAgain(p, r, fp)
  BY <1>3, Zenon DEF AppendRow, AppendFails, Submit, Post, SubmitLands, SubmitForgets, Returned,
        FireTimeout, CancelCall, SelfClose, PostAgain
<1>4. CASE \/ \E p \in Pen, r \in Req, word \in ReplyWords, x \in Actor : Reply(p, r, word, x)
           \/ \E r \in Req : Match(r) \/ Consume(r) \/ SweepWrite(r)
           \/ \E x \in Actor : ClosureOf(x) \/ Leave(x)
           \/ SweepStart \/ ExpiryScan \/ SweepEnd \/ Crash
  BY <1>4, Zenon DEF Reply, Match, Consume, SweepWrite, ClosureOf, Leave, SweepStart, ExpiryScan,
        SweepEnd, Crash
<1>. QED  BY <1>1, <1>2, <1>3, <1>4, Zenon DEF Next

\* A request in the log keeps the row that asked and its span.
LEMMA ElapsedStays ==
    ASSUME [Next]_vars, ChainInv, NEW r \in Req, FindByID(log, r), NEW t,
           Elapsed(log, asked[r].span, r, t)
    PROVE  FindByID(log', r) /\ Elapsed(log', asked'[r].span, r, t)
<1>1. /\ log' = log \/ \E p \in Pens : Grows(p)
      /\ \A q \in Req : asked[q] # NoAsk => asked'[q] = asked[q]
  BY LogSteps, Zenon DEF ChainInv
<1>2. asked[r] # NoAsk
  <2>1. DOMAIN log = 1 .. Len(log)
    BY DEF ChainInv, DataType
  <2>. QED  BY <2>1, Zenon DEF ChainInv, LogIsAsked, FindByID
<1>3. CASE log' = log
  BY <1>1, <1>2, <1>3, Zenon
<1>4. ASSUME NEW p \in Pens, Grows(p)
      PROVE  FindByID(log', r) /\ Elapsed(log', asked'[r].span, r, t)
  <2> DEFINE row == RowOf(pen[p])
  <2>1. /\ Len(log') = Len(log) + 1 /\ Len(log) \in Nat
        /\ log'[Len(log) + 1] = row
        /\ \A i \in 1 .. Len(log) : log'[i] = log[i]
        /\ FindByID(log', r)
    BY <1>4, GrowsFacts, Zenon
  <2>2. row.word = "ask" => row.req # r
    BY <1>4, Zenon DEF Grows, Refused
  <2> HIDE DEF row
  <2>3. ASSUME NEW i \in 1 .. Len(log'), log'[i].req = r, log'[i].word = "ask"
        PROVE  i \in 1 .. Len(log)
    BY <2>1, <2>2, <2>3
  <2>4. asked'[r].span = asked[r].span
    BY <1>1, <1>2, Zenon
  <2>. QED  BY <2>1, <2>3, <2>4, Zenon DEF Elapsed
<1>. QED  BY <1>1, <1>3, <1>4, Zenon

\* A write that passes the chain is dated now; it says that the time is up only
\* when the sweep found it so.
Dated(w) ==
    /\ w.ts <= now
    /\ SaysExpired(w) => /\ w.req \in sweep.todo /\ sweep.at = "expiry"
                         /\ UNCHANGED <<log, asked, now>>

\* Every write that gets into a pen is dated so.
LEMMA WritesAreDated ==
    ASSUME [Next]_vars, ChainInv, PastOnly
    PROVE  \A p \in Pens : pen'[p] = pen[p] \/ Dated(pen'[p])
<1> USE ClosureAssumption, LogAssumption
<1>0. /\ now \in Nat /\ member \subseteq Actor /\ pen \in [Pens -> InFlight]
      /\ Pen \subseteq Pens /\ SystemPen \in Pens /\ System \notin Actor
      /\ \A p \in Pens : pen[p].ts <= now
  BY Zenon DEF ChainInv, DataType, Pens, SystemPen, PastOnly
<1>1. Dated(NoWrite)
  BY <1>0 DEF Dated, SaysExpired, NoWrite
<1>2. ASSUME NEW p \in Pens, NEW w, Dated(w), pen' = [pen EXCEPT ![p] = w]
      PROVE  \A q \in Pens : pen'[q] = pen[q] \/ Dated(pen'[q])
  <2>1. \A q \in Pens : pen'[q] = IF q = p THEN w ELSE pen[q]
    BY <1>0, <1>2, Zenon
  <2>. QED  BY <1>2, <2>1, Zenon
<1>3. ASSUME NEW r, NEW word, NEW x, NEW fp
      PROVE  /\ Write(r, word, x, fp).ts <= now /\ Write(r, word, x, fp).word = word
             /\ Write(r, word, x, fp).author = x /\ Write(r, word, x, fp).req = r
  <2>1. Write(r, word, x, fp).ts = IF word \in FinalWords THEN 0 ELSE now
    BY Zenon DEF Write
  <2>2. Write(r, word, x, fp).ts <= now
    BY <1>0, <2>1
  <2>. QED  BY <2>2, Zenon DEF Write
<1>4. ASSUME NEW p \in Pen, NEW r, NEW word, NEW x, NEW fp, Begin(p, Write(r, word, x, fp))
      PROVE  \A q \in Pens : pen'[q] = pen[q] \/ Dated(pen'[q])
  <2> DEFINE w == Write(r, word, x, fp)
  <2>1. w.ts <= now /\ w.author = x
    BY <1>3
  <2>2. w.author \in member /\ pen' = [pen EXCEPT ![p] = w]
    BY <1>4, Zenon DEF Begin
  <2> HIDE DEF w
  <2>3. Dated(w)
    BY <1>0, <2>1, <2>2, Zenon DEF Dated, SaysExpired
  <2>. QED  BY <1>0, <1>2, <2>2, <2>3, Zenon
<1>5. ASSUME NEW p \in Pens, NEW outcome, pen' = [pen EXCEPT ![p] = Over(pen[p], outcome)]
      PROVE  \A q \in Pens : pen'[q] = pen[q] \/ Dated(pen'[q])
  <2>1. CASE pen[p].word = "ask"
    <3> DEFINE w == [pen[p] EXCEPT !.step = outcome]
    <3>1. w.ts = pen[p].ts /\ w.word = "ask"
      BY <1>0, <2>1, Zenon DEF InFlight
    <3>2. Over(pen[p], outcome) = w
      BY <2>1, Zenon DEF Over
    <3> HIDE DEF w
    <3>3. Dated(w)
      BY <1>0, <3>1 DEF Dated, SaysExpired
    <3>. QED  BY <1>2, <1>5, <3>2, <3>3, Zenon
  <2>2. CASE pen[p].word # "ask"
    BY <1>1, <1>2, <1>5, <2>2, Zenon DEF Over
  <2>. QED  BY <2>1, <2>2, Zenon
<1>6. CASE \E p \in Pens : AppendRow(p) \/ AppendFails(p)
  BY <1>5, <1>6, Zenon DEF AppendRow, AppendFails
<1>7. CASE \E p \in Pen, r \in Req, x \in Caller, y \in Actor : Submit(p, r, x, y) \/ Post(p, r, x, y)
  BY <1>4, <1>7, Zenon DEF Submit, Post
<1>8. CASE \E p \in Pen, r \in Req : SubmitLands(p, r) \/ SubmitForgets(p, r)
  BY <1>0, <1>1, <1>2, <1>8, Zenon DEF SubmitLands, SubmitForgets, Returned
<1>9. CASE UNCHANGED pen
  BY <1>9, Zenon
<1>10. CASE \E p \in Pen, r \in Req : FireTimeout(p, r) \/ CancelCall(p, r)
  BY <1>4, <1>9, <1>10, Zenon DEF FireTimeout, CancelCall, SelfClose
<1>11. CASE \E p \in Pen, r \in Req, fp \in Client : PostAgain(p, r, fp)
  BY <1>4, <1>11, Zenon DEF PostAgain
<1>12. CASE \E p \in Pen, r \in Req, word \in ReplyWords, x \in Actor : Reply(p, r, word, x)
  BY <1>4, <1>12, Zenon DEF Reply
<1>13. CASE \E r \in Req : SweepWrite(r)
  <2>1. PICK r \in Req : SweepWrite(r)
    BY <1>13, Zenon
  <2> DEFINE word == IF sweep.at = "closure" THEN "unavailable" ELSE "timeout"
             w    == Write(r, word, System, 0)
  <2>2. /\ r \in sweep.todo /\ UNCHANGED <<log, asked, now>>
        /\ pen' = [pen EXCEPT ![SystemPen] = w] \/ UNCHANGED pen
    BY <2>1, Zenon DEF SweepWrite
  <2>3. w.ts <= now /\ w.word = word /\ w.req = r
    BY <1>3
  <2>4. word = "timeout" => sweep.at = "expiry"
    BY <2>2 DEF ChainInv, SweepIsTrue
  <2> HIDE DEF w, word
  <2>5. Dated(w)
    BY <2>2, <2>3, <2>4, Zenon DEF Dated, SaysExpired
  <2>. QED  BY <1>0, <1>2, <1>9, <2>2, <2>5, Zenon
<1>14. CASE Crash
  BY <1>1, <1>14, Zenon DEF Crash
<1>15. ASSUME \/ \E r \in Req : Match(r) \/ Consume(r)
              \/ \E x \in Actor : ClosureOf(x) \/ Leave(x)
              \/ SweepStart \/ ExpiryScan \/ SweepEnd \/ Tick \/ UNCHANGED vars
       PROVE  UNCHANGED pen
  BY <1>15, Zenon DEF Match, Consume, ClosureOf, Leave, SweepStart, ExpiryScan, SweepEnd, Tick, vars
<1>. QED  BY <1>6, <1>7, <1>8, <1>9, <1>10, <1>11, <1>12, <1>13, <1>14, <1>15, Zenon DEF Next

\* What the expiry half has to do was due when it read the log.
LEMMA ExpirySteps ==
    ASSUME [Next]_vars, ChainInv, PastOnly, sweep'.at = "expiry"
    PROVE  \/ sweep.at = "expiry" /\ sweep'.todo \subseteq sweep.todo
           \/ /\ UNCHANGED <<log, asked, now>>
              /\ \A r \in sweep'.todo :
                    r \in Req /\ FindByID(log, r) /\ Elapsed(log, asked[r].span, r, now)
<1> USE ClosureAssumption, LogAssumption
<1>0. PICK c : sweep \in [at : {"idle", "closure", "expiry"}, receivers : SUBSET Party,
                          todo : SUBSET Req, cursor : {c}]
  BY Zenon DEF ChainInv, SweepIsTrue
<1>1. CASE ExpiryScan
  <2> DEFINE spans == [r \in Req |-> asked[r].span]
             batch == ExpiredOpenRequests(log, spans, now, sweep.cursor, Batch)
  <2>1. spans \in [Req -> Nat] /\ \A r \in Req : spans[r] = asked[r].span
    BY Zenon DEF ChainInv, DataType, Entry
  <2>2. \A r \in batch : r \in Req /\ Due(log, spans, r, now)
    BY Zenon DEF ExpiredOpenRequests
  <2>3. /\ UNCHANGED <<log, asked, now>> /\ sweep.todo = {}
        /\ \/ \E d : sweep' = [sweep EXCEPT !.at = "expiry", !.todo = batch, !.cursor = d]
           \/ sweep' = [sweep EXCEPT !.at = "expiry"]
    BY <1>1, Zenon DEF ExpiryScan
  <2> HIDE DEF batch, spans
  <2>4. sweep'.todo \in {batch, {}}
    BY <1>0, <2>3, Zenon
  <2>5. \A r \in batch : r \in Req /\ FindByID(log, r) /\ Elapsed(log, asked[r].span, r, now)
    BY <2>1, <2>2, DueIsElapsed, Zenon
  <2>. QED  BY <2>3, <2>4, <2>5, Zenon
<1>2. CASE \E r \in Req : SweepWrite(r)
  <2>1. PICK r \in Req : sweep' = [sweep EXCEPT !.todo = sweep.todo \ {r}]
    BY <1>2, Zenon DEF SweepWrite
  <2>. QED  BY <1>0, <2>1, Zenon
<1>3. CASE SweepStart
  <2>1. \E R : sweep' = [sweep EXCEPT !.at = "closure", !.receivers = R]
    BY <1>3, Zenon DEF SweepStart
  <2>. QED  BY <1>0, <2>1, Zenon
<1>4. CASE SweepEnd
  <2>1. sweep' = [sweep EXCEPT !.at = "idle"]
    BY <1>4, Zenon DEF SweepEnd
  <2>. QED  BY <1>0, <2>1, Zenon
<1>5. CASE \E x \in Actor : ClosureOf(x)
  <2>1. /\ sweep.at = "closure"
        /\ \E R, D : sweep' = [sweep EXCEPT !.receivers = R, !.todo = D]
    BY <1>5, Zenon DEF ClosureOf
  <2>2. sweep'.at = "closure"
    BY <1>0, <2>1, Zenon
  <2>. QED  BY <2>2, Zenon
<1>6. CASE Crash
  BY <1>6, Zenon DEF Crash, Resting
<1>7. CASE UNCHANGED sweep
  BY <1>7, Zenon
<1>8. ASSUME \/ \E p \in Pens : AppendRow(p) \/ AppendFails(p)
             \/ \E p \in Pen, r \in Req, x \in Caller, y \in Actor : Submit(p, r, x, y) \/ Post(p, r, x, y)
             \/ \E p \in Pen, r \in Req : SubmitLands(p, r) \/ SubmitForgets(p, r)
             \/ \E p \in Pen, r \in Req : FireTimeout(p, r) \/ CancelCall(p, r)
             \/ \E p \in Pen, r \in Req, fp \in Client : PostAgain(p, r, fp)
             \/ \E p \in Pen, r \in Req, word \in ReplyWords, x \in Actor : Reply(p, r, word, x)
             \/ \E r \in Req : Match(r) \/ Consume(r)
             \/ \E x \in Actor : Leave(x)
             \/ Tick \/ UNCHANGED vars
      PROVE  UNCHANGED sweep
  BY <1>8, Zenon DEF AppendRow, AppendFails, Submit, Post, SubmitLands, SubmitForgets, Returned,
        FireTimeout, CancelCall, SelfClose, PostAgain, Reply, Match, Consume, Leave, Tick, vars
<1>. QED  BY <1>1, <1>2, <1>3, <1>4, <1>5, <1>6, <1>7, <1>8, Zenon DEF Next

\* Elapsed is kept as the clock goes on.
LEMMA ElapsedLater ==
    ASSUME [Next]_vars, ChainInv, NEW r \in Req, FindByID(log, r),
           Elapsed(log, asked[r].span, r, now)
    PROVE  FindByID(log', r) /\ Elapsed(log', asked'[r].span, r, now')
<1>1. FindByID(log', r) /\ Elapsed(log', asked'[r].span, r, now)
  BY ElapsedStays, Zenon
<1>2. /\ now \in Nat /\ (now' = now \/ now' = now + 1)
      /\ log' \in Seq(Row) /\ asked' \in [Req -> Entry]
  BY ClockStep, LogSteps, LogStep, Zenon DEF ChainInv, DataType
<1>3. asked'[r].span \in Nat
  BY <1>2, Zenon DEF Entry
<1>4. ASSUME NEW i \in 1 .. Len(log'), log'[i].req = r, log'[i].word = "ask"
      PROVE  log'[i].ts + asked'[r].span <= now'
  <2>1. log'[i] \in Row
    BY <1>2
  <2>2. log'[i].ts \in Nat /\ log'[i].ts + asked'[r].span <= now
    BY <1>1, <1>4, <2>1, Zenon DEF Elapsed, Row
  <2>. QED  BY <1>2, <1>3, <2>2
<1>. QED  BY <1>1, <1>4, Zenon DEF Elapsed

\* Neither a write, nor an append, nor the passing of time makes an expiry early.
LEMMA DueStep ==
    ASSUME [Next]_vars, ChainInv, DueInv
    PROVE  DueInv'
<1> USE ClosureAssumption, LogAssumption
<1>0. /\ log \in Seq(Row) /\ log' \in Seq(Row) /\ now \in Nat /\ now' \in Nat /\ now <= now'
      /\ log' = log \/ \E p \in Pens : Grows(p)
      /\ \A r \in Req : asked[r] # NoAsk => asked'[r] = asked[r]
      /\ LogIsAsked /\ \A p \in Pens : WriteIsAdmitted(pen[p])
  <2>1. now \in Nat /\ (now' = now \/ now' = now + 1)
    BY ClockStep, Zenon DEF ChainInv, DataType
  <2>2. now' \in Nat /\ now <= now'
    BY <2>1
  <2>. QED  BY <2>1, <2>2, LogStep, LogSteps, Zenon DEF ChainInv, DataType
<1>1. /\ PastOnly
      /\ \A i \in 1 .. Len(log) : SaysExpired(log[i]) =>
            Elapsed(log, asked[log[i].req].span, log[i].req, log[i].received)
      /\ \A p \in Pens : pen[p].step = "checked" /\ SaysExpired(pen[p]) =>
            Elapsed(log, asked[pen[p].req].span, pen[p].req, now)
      /\ sweep.at = "expiry" =>
            \A r \in sweep.todo : FindByID(log, r) /\ Elapsed(log, asked[r].span, r, now)
  BY Zenon DEF DueInv
<1>2. /\ \A i \in 1 .. Len(log) : log[i].ts \in Nat /\ log[i].req \in Req /\ FindByID(log, log[i].req)
      /\ \A p \in Pens : pen[p].ts \in Nat
      /\ \A p \in Pens : pen'[p] = pen[p] \/ Dated(pen'[p])
      /\ \A p \in Pens : pen'[p].ts \in Nat
  <2>1. \A i \in 1 .. Len(log) : log[i] \in Row
    BY <1>0
  <2>2. pen \in [Pens -> InFlight] /\ pen' \in [Pens -> InFlight]
    BY PenSteps, Zenon DEF ChainInv, DataType
  <2>. QED  BY <1>0, <1>1, <2>1, <2>2, WritesAreDated, Zenon DEF Row, InFlight, LogIsAsked
<1>3. ASSUME NEW p \in Pens, Grows(p)
      PROVE  LET row == RowOf(pen[p])
             IN  /\ row.word = pen[p].word /\ row.author = pen[p].author /\ row.req = pen[p].req
                 /\ row.ts = pen[p].ts /\ (row.author = System => row.received = now)
                 /\ row.req \in Req /\ pen[p].step = "checked"
                 /\ Len(log') = Len(log) + 1 /\ Len(log) \in Nat
                 /\ log'[Len(log) + 1] = row
                 /\ \A i \in 1 .. Len(log) : log'[i] = log[i]
                 /\ row.word # "ask" => FindByID(log, row.req)
  <2>1. RowOf(pen[p]).req \in Req
    BY <1>3, GrowsFacts, Zenon DEF Row
  <2>. QED  BY <1>3, <2>1, GrowsFacts, Zenon DEF Grows, RowOf, Refused
<1>4. PastOnly'
  <2>1. ASSUME NEW i \in 1 .. Len(log')
        PROVE  log'[i].ts <= now
    <3>1. CASE log' = log
      BY <1>1, <3>1, Zenon DEF PastOnly
    <3>2. ASSUME NEW p \in Pens, Grows(p)
          PROVE  log'[i].ts <= now
      <4>1. /\ Len(log') = Len(log) + 1 /\ Len(log) \in Nat
            /\ log'[Len(log) + 1].ts = pen[p].ts
            /\ \A j \in 1 .. Len(log) : log'[j] = log[j]
        BY <1>3, <3>2, Zenon
      <4>2. i \in 1 .. Len(log) \/ i = Len(log) + 1
        BY <4>1
      <4>. QED  BY <1>1, <4>1, <4>2, Zenon DEF PastOnly
    <3>. QED  BY <1>0, <3>1, <3>2, Zenon
  <2>2. \A p \in Pens : pen'[p].ts <= now
    BY <1>1, <1>2, Zenon DEF PastOnly, Dated
  <2>3. \A i \in 1 .. Len(log') : log'[i].ts \in Nat
    <3>1. \A i \in 1 .. Len(log') : log'[i] \in Row
      BY <1>0
    <3>. QED  BY <3>1, Zenon DEF Row
  <2>4. \A i \in 1 .. Len(log') : log'[i].ts <= now'
    BY <1>0, <2>1, <2>3
  <2>5. \A p \in Pens : pen'[p].ts <= now'
    BY <1>0, <1>2, <2>2
  <2>. QED  BY <2>4, <2>5, Zenon DEF PastOnly
<1>5. ASSUME NEW i \in 1 .. Len(log'), SaysExpired(log'[i])
      PROVE  Elapsed(log', asked'[log'[i].req].span, log'[i].req, log'[i].received)
  <2>1. CASE i \in 1 .. Len(log) /\ log'[i] = log[i]
    BY <1>1, <1>2, <1>5, <2>1, ElapsedStays, Zenon
  <2>2. ASSUME NEW p \in Pens, Grows(p), i = Len(log) + 1
        PROVE  Elapsed(log', asked'[log'[i].req].span, log'[i].req, log'[i].received)
    <3> DEFINE w == pen[p]
    <3>1. /\ log'[i].req = w.req /\ log'[i].word = w.word /\ log'[i].author = w.author
          /\ w.step = "checked" /\ w.req \in Req
          /\ w.author = System => log'[i].received = now
          /\ w.word # "ask" => FindByID(log, w.req)
      BY <1>3, <2>2, Zenon
    <3>2. SaysExpired(w) /\ FindByID(log, w.req) /\ log'[i].received = now
      BY <1>5, <3>1 DEF SaysExpired
    <3>3. Elapsed(log, asked[w.req].span, w.req, now)
      BY <1>1, <3>1, <3>2, Zenon
    <3>. QED  BY <3>1, <3>2, <3>3, ElapsedStays, Zenon
  <2>3. CASE log' = log
    BY <1>5, <2>1, <2>3, Zenon
  <2>4. ASSUME NEW p \in Pens, Grows(p)
        PROVE  (i \in 1 .. Len(log) /\ log'[i] = log[i]) \/ i = Len(log) + 1
    <3>1. /\ Len(log') = Len(log) + 1 /\ Len(log) \in Nat
          /\ \A j \in 1 .. Len(log) : log'[j] = log[j]
      BY <1>3, <2>4, Zenon
    <3>. QED  BY <3>1
  <2>. QED  BY <1>0, <2>1, <2>2, <2>3, <2>4, Zenon
<1>6. ASSUME NEW p \in Pens, pen'[p].step = "checked", SaysExpired(pen'[p])
      PROVE  Elapsed(log', asked'[pen'[p].req].span, pen'[p].req, now')
  <2>1. CASE pen'[p] = pen[p]
    <3>1. pen[p].req \in Req /\ FindByID(log, pen[p].req)
      BY <1>0, <1>6, <2>1 DEF WriteIsAdmitted, SaysExpired
    <3>2. Elapsed(log, asked[pen[p].req].span, pen[p].req, now)
      BY <1>1, <1>6, <2>1, Zenon
    <3>. QED  BY <2>1, <3>1, <3>2, ElapsedLater, Zenon
  <2>2. CASE Dated(pen'[p])
    <3>1. pen'[p].req \in sweep.todo /\ sweep.at = "expiry" /\ UNCHANGED <<log, asked, now>>
      BY <1>6, <2>2, Zenon DEF Dated
    <3>. QED  BY <1>1, <3>1, Zenon
  <2>. QED  BY <1>2, <2>1, <2>2, Zenon
<1>7. ASSUME sweep'.at = "expiry", NEW r \in sweep'.todo
      PROVE  FindByID(log', r) /\ Elapsed(log', asked'[r].span, r, now')
  <2>1. CASE sweep.at = "expiry" /\ sweep'.todo \subseteq sweep.todo
    <3>1. r \in sweep.todo /\ r \in Req
      BY <1>7, <2>1, Zenon DEF ChainInv, SweepIsTrue
    <3>. QED  BY <1>1, <2>1, <3>1, ElapsedLater, Zenon
  <2>2. CASE /\ UNCHANGED <<log, asked, now>>
             /\ FindByID(log, r) /\ Elapsed(log, asked[r].span, r, now)
    BY <2>2, Zenon
  <2>. QED  BY <1>1, <1>7, <2>1, <2>2, ExpirySteps, Zenon
<1>. QED  BY <1>4, <1>5, <1>6, <1>7, Zenon DEF DueInv

\* The deadlines are kept in every behaviour.
THEOREM DueInvariant == Spec => []DueInv
<1>1. Init => DueInv
  <2> SUFFICES ASSUME Init PROVE DueInv
    BY Zenon
  <2>1. \A i \in 1 .. Len(log) : FALSE
    BY DEF Init
  <2>2. PastOnly
    BY <2>1 DEF Init, PastOnly, NoWrite
  <2>. QED  BY <2>1, <2>2, Zenon DEF Init, DueInv, SaysExpired, NoWrite, Resting
<1>2. ClosureInv /\ DueInv /\ [Next]_vars => DueInv'
  BY DueStep, Zenon DEF ClosureInv
<1>. QED  BY <1>1, <1>2, ClosureInvariant, PTL DEF Spec

\* sweepExpired and ExpiredOpenRequests: whatever happens between the scan, the
\* checks of the chain and the append, a request the reaper closes has had the
\* whole window it declared.
THEOREM HonestExpiry == Spec => []HonestDeadline
<1>1. ClosureInv /\ DueInv => HonestDeadline
  <2> SUFFICES ASSUME ClosureInv, DueInv, NEW i \in DOMAIN log, SaysExpired(log[i])
               PROVE  log[AskOf(log, log[i].req)].ts + asked[log[i].req].span <= log[i].received
    BY Zenon DEF HonestDeadline, SaysExpired
  <2> DEFINE r == log[i].req
             a == AskOf(log, r)
  <2>1. DOMAIN log = 1 .. Len(log)
    BY DEF ClosureInv, ChainInv, DataType
  <2>2. FindByID(log, r) /\ Elapsed(log, asked[r].span, r, log[i].received)
    BY <2>1, Zenon DEF ClosureInv, ChainInv, LogIsAsked, DueInv
  <2>3. \E k \in RowsOf(log, r) : log[k].word = "ask"
    BY <2>2, Zenon DEF FindByID, RowsOf
  <2>4. a \in RowsOf(log, r) /\ log[a].word = "ask"
    BY <2>3, Zenon DEF AskOf
  <2>5. a \in 1 .. Len(log) /\ log[a].req = r
    BY <2>1, <2>4, Zenon DEF RowsOf
  <2>. QED  BY <2>2, <2>4, <2>5, Zenon DEF Elapsed
<1>. QED  BY <1>1, ClosureInvariant, DueInvariant, PTL
=============================================================================

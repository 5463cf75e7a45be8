----------------------------- MODULE MessageLog -----------------------------
(***************************************************************************)
(* The message log of one channel: the statements that                     *)
(* runtime/internal/store/messages.go runs on the table `messages`, as     *)
(* operators on a log value.  The log is the sequence of committed rows in *)
(* seq order; every statement is one SQLite transaction on the single      *)
(* connection of the channel's store.                                      *)
(*                                                                         *)
(* A row belongs to one request: the row that asks, or a response to it    *)
(* with its status and reason folded into one word.  Events carry no       *)
(* closure and are left out.  A row also has its author, the author's      *)
(* clock when it was built, ts, the clock when it was appended,            *)
(* ts_received, and the client fingerprint, 0 when there is none.          *)
(***************************************************************************)
EXTENDS Naturals, Sequences, FiniteSets

CONSTANTS
    Actor,     \* actor ids
    System,    \* the system actor
    Req        \* request ids; numbers

ASSUME LogAssumption ==
    /\ System \notin Actor
    /\ Req \subseteq Nat \ {0}

\* completed, and failed with each of the three terminal reasons.
FinalWords == {"completed", "internal_error", "unavailable", "timeout"}
ReplyWords == FinalWords \cup {"progress"}

Row == [req : Req, word : ReplyWords \cup {"ask"}, author : Actor \cup {System},
        ts : Nat, received : Nat, fp : Nat]

-----------------------------------------------------------------------------
RowsOf(log, r) == {i \in DOMAIN log : log[i].req = r}

FindByID(log, r) == \E i \in DOMAIN log : log[i].req = r /\ log[i].word = "ask"

HasFinalResponse(log, r) ==
    \E i \in DOMAIN log : log[i].req = r /\ log[i].word \in FinalWords

\* Variant: the index on terminals is the only guard of the transaction.
RefusedByIndex(log, row) ==
    IF row.word = "ask" THEN FindByID(log, row.req)
    ELSE row.word \in FinalWords /\ HasFinalResponse(log, row.req)

\* What the transaction of Append refuses: an id that is taken, a second
\* terminal (the partial index), a provisional after the final (the re-check).
Refused(log, row) ==
    IF row.word = "ask" THEN FindByID(log, row.req)
    ELSE HasFinalResponse(log, row.req)

\* Variant: any row with the id passes for a replay.
ReplayedById(log, row) == row.word = "ask" /\ row.fp # 0 /\ FindByID(log, row.req)

\* A taken id is a replay when the client fingerprint is the same.
Replayed(log, row) ==
    /\ row.word = "ask" /\ row.fp # 0
    /\ \E i \in DOMAIN log : log[i].req = row.req /\ log[i].word = "ask" /\ log[i].fp = row.fp

-----------------------------------------------------------------------------
\* The scans of the closure author and of the expiry reaper.

Open(log, r) == FindByID(log, r) /\ ~HasFinalResponse(log, r)

\* When the request r was last active: the row that asked, or any response.
LastActive(log, r) ==
    CHOOSE t \in {log[i].ts : i \in RowsOf(log, r)} :
        \A i \in RowsOf(log, r) : log[i].ts <= t

AskOf(log, r) == CHOOSE i \in RowsOf(log, r) : log[i].word = "ask"

\* The keyset (expires_at, seq), and the order of the scan.
Keyset(log, spans, r) == [at |-> log[AskOf(log, r)].ts + spans[r], seq |-> AskOf(log, r)]
Top == [at |-> 0, seq |-> 0]
Later(k, j) == k.at > j.at \/ (k.at = j.at /\ k.seq > j.seq)

\* Variant: a request is due a moment before its span is over.
DueEarly(log, spans, r, now) == Open(log, r) /\ LastActive(log, r) + spans[r] <= now + 1

\* Open requests that were silent for their whole span.
Due(log, spans, r, now) == Open(log, r) /\ LastActive(log, r) + spans[r] <= now

\* Everything due after the cursor, in keyset order, at most `limit` of it.
ExpiredOpenRequests(log, spans, now, cursor, limit) ==
    LET after == {r \in Req : Due(log, spans, r, now) /\ Later(Keyset(log, spans, r), cursor)}
        Rank(r) == Cardinality({q \in after : Later(Keyset(log, spans, r), Keyset(log, spans, q))})
    IN  {r \in after : Rank(r) < limit}

LastOf(log, spans, batch) ==
    CHOOSE r \in batch : \A q \in batch : ~Later(Keyset(log, spans, q), Keyset(log, spans, r))

\* Variant: the cursor only moves forward.
NextCursorForward(log, spans, cursor, batch, limit) ==
    IF batch = {} THEN cursor ELSE Keyset(log, spans, LastOf(log, spans, batch))

\* Past the last row of a full batch; the top again when the scan is exhausted.
NextCursor(log, spans, cursor, batch, limit) ==
    IF Cardinality(batch) < limit THEN Top ELSE Keyset(log, spans, LastOf(log, spans, batch))
=============================================================================

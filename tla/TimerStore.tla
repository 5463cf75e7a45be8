----------------------------- MODULE TimerStore -----------------------------
(***************************************************************************)
(* The durable half of the scheduler: the statements that                  *)
(* runtime/internal/store/timers.go runs on the tables `timers` and        *)
(* `timer_dead`, as operators on table values.  Every statement is one     *)
(* SQLite transaction, so each operator is one atomic state change.        *)
(*                                                                         *)
(* A table value of `timers` gives the state of every timer id; "absent"   *)
(* says there is no row.  A row's author and deadline never change after   *)
(* Insert, so they are read from the request the id was minted for.        *)
(***************************************************************************)
EXTENDS Naturals, FiniteSets, Sequences

CONSTANTS
    Author,        \* actor ids that own timers
    TimerId,       \* the ids mintTimerID may return; numbers, for timer_id order
    MaxPending,    \* maxPendingTimersPerAuthor
    MaxDead,       \* maxDeadTimers, the size of the dead-letter ring
    DuePerAuthor   \* duePerAuthor, the window of one Due query

ASSUME StoreAssumption ==
    /\ TimerId \subseteq Nat \ {0}
    /\ IsFiniteSet(TimerId)
    /\ MaxPending \in Nat
    /\ MaxDead \in Nat \ {0}
    /\ DuePerAuthor \in Nat \ {0}

RowState == {"absent", "pending", "fired"}
Home     == {"durable", "memory"}
Request  == [author : Author, fireAt : Nat \ {0}, home : Home]
NoRequest == [author |-> "none", fireAt |-> 0, home |-> "none"]

-----------------------------------------------------------------------------
\* Every row an author has counts against the quota, fired ones included.
OwnedRows(rows, req, a) == {t \in TimerId : rows[t] # "absent" /\ req[t].author = a}

Pending(rows) == {t \in TimerId : rows[t] = "pending"}

\* Insert refuses with ErrScheduleQuota before it writes.
InsertAdmits(rows, req, a) == Cardinality(OwnedRows(rows, req, a)) < MaxPending

Insert(rows, t) == [rows EXCEPT ![t] = "pending"]

\* ORDER BY fire_at, timer_id
Before(req, t, u) ==
    \/ req[t].fireAt < req[u].fireAt
    \/ req[t].fireAt = req[u].fireAt /\ t < u

\* Variant: deleted rows are returned as well.
DueDeleted(rows, req, now) ==
    {t \in TimerId : rows[t] # "fired" /\ req[t].fireAt \in 1 .. now}

\* The first DuePerAuthor due pending rows of each author.
Due(rows, req, now) ==
    LET ripe == {t \in Pending(rows) : req[t].fireAt <= now}
        Rank(t) == Cardinality({u \in ripe : /\ req[u].author = req[t].author
                                             /\ Before(req, u, t)})
    IN  {t \in ripe : Rank(t) < DuePerAuthor}

MarkFired(rows, t) ==
    IF rows[t] = "pending" THEN [rows EXCEPT ![t] = "fired"] ELSE rows

CancelOwned(rows, req, t, a) ==
    IF rows[t] = "pending" /\ req[t].author = a
    THEN [rows EXCEPT ![t] = "absent"] ELSE rows

AckOwned(rows, req, t, a) ==
    IF rows[t] = "fired" /\ req[t].author = a
    THEN [rows EXCEPT ![t] = "absent"] ELSE rows

\* Variant: MoveToDead copies the row and leaves it where it is.
CopyRow(rows, t) == rows

\* MoveToDead deletes the row whatever its state, and records it in the ring
\* only if there was one.
DeleteRow(rows, t) == [rows EXCEPT ![t] = "absent"]

RingAppend(dead, t) ==
    LET all == Append(dead, t)
    IN  IF Len(all) > MaxDead THEN SubSeq(all, Len(all) - MaxDead + 1, Len(all)) ELSE all

BuryInRing(rows, dead, t) == IF rows[t] = "absent" THEN dead ELSE RingAppend(dead, t)
=============================================================================

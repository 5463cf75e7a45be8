--------------------------- MODULE PiActorsProofs ---------------------------
(***************************************************************************)
(* Theorems about the Pi actors: the contract of their calls, whose        *)
(* environment a tool sees, which child is closed when, and what is told   *)
(* of a request; for any number of requests, children and attempts, any    *)
(* capacities and every HTTP status.                                       *)
(***************************************************************************)
EXTENDS PiActors, TLAPS

\* A leaf is proved by Zenon, unless it names another prover.
USE ZenonT(30)

-----------------------------------------------------------------------------
(* How a model call ends: what the two classifications guarantee together, for
   every HTTP status *)

\* retry.go, retryGenerate: no failed or partial assistant is exposed as a
\* successful result.  Whatever ends in an error, is aborted, cut at its length
\* or over the context is told to the caller with an error_code.
THEOREM FailureIsMarked ==
    ASSUME NEW o \in Outcome, Possible(o),
           o.thrown # "none" \/ o.overflow \/ o.stop \in {"error", "aborted", "length"}
    PROVE  ReplyCode(o) # "none"
<1>1. StatusCode(o) # "none"
  BY SMTT(30) DEF StatusCode
<1>2. CASE o.thrown # "none"
  BY <1>1, <1>2 DEF ReplyCode, Classify, Codes, ThrownCode
<1>3. CASE o.thrown = "none" /\ Failed(o)
  <2>1. GenerateCode(o) # "none"
    BY <1>1, <1>3 DEF GenerateCode
  <2>. QED  BY <2>1, <1>3 DEF ReplyCode, Classify, Codes
<1>4. CASE o.thrown = "none" /\ ~Failed(o)
  <2>1. o.stop = "length"
    BY <1>4 DEF Failed
  <2>2. ~TurnsToError(o)
    BY <1>4 DEF TurnsToError, Failed
  <2>3. GenerateCode(o) = "none"
    BY <1>4 DEF GenerateCode
  <2>. QED  BY <1>4, <2>1, <2>2, <2>3 DEF ReplyCode
<1>. QED  BY <1>2, <1>3, <1>4

\* retry.go, retryGenerate: what is issued again is a refusal that may pass (a
\* rate limit, a provider failure or a transport failure); never a message
\* that was aborted, that overflowed the context or that was a success.
THEOREM OnlyRefusalsAreReissued ==
    ASSUME NEW o \in Outcome, Possible(o), Ending(o) = "retryable"
    PROVE  /\ MayRetry(ReplyCode(o))
           /\ o.thrown = "none" => o.stop = "error" /\ ~o.overflow
           /\ o.thrown \in {"none", "other"}
<1>1. CASE o.thrown # "none"
  <2>1. MayRetry(Classify(ThrownCode(o)))
    BY <1>1 DEF Ending
  <2>2. o.thrown = "other"
    BY <1>1, <2>1 DEF MayRetry, Classify, Codes, ThrownCode, Outcome, Throws
  <2>. QED  BY <1>1, <2>1, <2>2 DEF ReplyCode
<1>2. CASE o.thrown = "none"
  <2>1. TurnsToError(o) /\ MayRetry(Classify(GenerateCode(o)))
    BY <1>2 DEF Ending
  <2>2. GenerateCode(o) \notin {"context_overflow", "cancelled"}
    BY <2>1 DEF TurnsToError, MayRetry, Classify, Codes
  <2>3. o.stop = "error"
    BY <2>1, <2>2 DEF TurnsToError, GenerateCode, Failed
  <2>4. ~o.overflow
    BY <2>2, <2>3 DEF GenerateCode, Failed
  <2>. QED  BY <1>2, <2>1, <2>3, <2>4 DEF ReplyCode
<1>. QED  BY <1>1, <1>2

-----------------------------------------------------------------------------
(* Requests: the inductive invariant *)

Replies == AllVerdicts \cup {"capacity", "invalid_args", "runtime_unavailable", "tool_failed",
                             "count", "failed", "deadline_exceeded", None}

ReqType ==
    /\ kind \in Kinds /\ life \in {"starting", "serving", "closing", "gone"}
    /\ phase \in [Req -> Phases] /\ beat \in [Req -> BOOLEAN]
    /\ reply \in [Req -> Replies] /\ said \in [Req -> {"progress", "terminal"}]
    /\ attempt \in [Req -> 0 .. MaxRetries + 1]
    /\ jobs \in Seq(Req)
    /\ {entry, shut} \subseteq Bridge \cup {NoBridge}
    /\ events \in 0 .. MaxEvent[kind]
    /\ at \in [Call -> Bridge \cup {NoBridge}]
    /\ gocall \in [Call -> {"idle", "waiting", "ended"}]

Early == {"new", "queued", "popped", "serving"}
OnCall == {"calling", "listing"}
OfPool == {"queued", "popped", "invalidating", "releasing", "draining"}
OfLlm == {"listing", "looping", "delaying", "joining"}
Told == {"releasing", "draining", "ended"}

\* How many attempts a request has made is known from its phase, and the calls
\* of attempts to come are on no bridge.
AttemptsOf(r) ==
    /\ phase[r] \in Early => attempt[r] = 0
    /\ phase[r] \in {"looping", "delaying"} => attempt[r] <= MaxRetries
    /\ phase[r] = "listing" => attempt[r] = 1
    /\ phase[r] \in OnCall \cup {"invalidating", "releasing", "draining"} => attempt[r] > 0
    /\ \A n \in 1 .. MaxRetries + 1 : n > attempt[r] => at[CallOf(r, n)] = NoBridge

\* A call that was made and has not returned is the last one of its request,
\* whose handler waits for it.
OpenOf(r) ==
    \A n \in 1 .. MaxRetries + 1 :
        /\ at[CallOf(r, n)] = NoBridge => gocall[CallOf(r, n)] = "idle"
        /\ at[CallOf(r, n)] # NoBridge /\ gocall[CallOf(r, n)] # "ended" =>
              phase[r] \in OnCall /\ n = attempt[r]

\* What only one of the two actors does.
KindOf(r) ==
    IF Workspace THEN phase[r] \notin OfLlm /\ ~beat[r] /\ attempt[r] <= 1
                 ELSE phase[r] \notin OfPool

\* The heartbeat runs within the model call; after a terminal nothing is said.
SaidOf(r) ==
    /\ beat[r] => phase[r] \in {"looping", "calling", "delaying", "joining"}
    /\ phase[r] \in Told => said[r] = "terminal"
    /\ reply[r] # None => phase[r] \in Told \cup {"joining"}

QueueInv ==
    /\ \A i \in 1 .. Len(jobs) : phase[jobs[i]] = "queued"
    /\ \A i, j \in 1 .. Len(jobs) : jobs[i] = jobs[j] => i = j
    /\ ~Workspace => jobs = <<>> /\ timer = 0 /\ expiring = {}

ReqInv ==
    /\ ReqType /\ QueueInv
    /\ \A r \in Req : AttemptsOf(r) /\ OpenOf(r) /\ KindOf(r) /\ SaidOf(r)

-----------------------------------------------------------------------------
(* Requests: their phases, attempts and open calls *)

\* Calls are numbered attempts of requests.
LEMMA CallFacts ==
    /\ \A r \in Req, n \in 1 .. MaxRetries + 1 : CallOf(r, n) \in Call
    /\ \A r, s \in Req, n, m \in 1 .. MaxRetries + 1 :
          CallOf(r, n) = CallOf(s, m) => r = s /\ n = m
    /\ \A c \in Call : c[1] \in Req /\ c[2] \in 1 .. MaxRetries + 1 /\ c = CallOf(c[1], c[2])
    /\ MaxRetries \in Nat
  BY PiAssumption, SMTT(30) DEF CallOf

\* The first attempt is always allowed.
LEMMA FirstAttempt == 1 \in 1 .. MaxRetries + 1 /\ 0 <= MaxRetries /\ 0 + 1 = 1 /\ ~(0 > 0)
  BY PiAssumption, SMTT(30)

\* The numbers of attempts, and how they compare.
LEMMA Numbers ==
    /\ 0 \in 0 .. MaxRetries + 1 /\ 1 \in 0 .. MaxRetries + 1
    /\ 0 <= MaxRetries /\ 0 <= 1 /\ 1 <= 1 /\ 1 > 0 /\ 1 >= 0 /\ 0 >= 0
    /\ \A k \in Nat : k >= k /\ (k > 0 /\ k <= 1 => k = 1)
    /\ \A k \in 0 .. MaxRetries + 1 : k \in Nat
    /\ \A k \in 0 .. MaxRetries + 1 :
          k <= MaxRetries => k + 1 \in 0 .. MaxRetries + 1 /\ k + 1 \in 1 .. MaxRetries + 1
  BY PiAssumption, SMTT(30)

\* The attempts after the last one.
LEMMA Later ==
    /\ \A n \in 1 .. MaxRetries + 1 : n > 0
    /\ \A n \in 1 .. MaxRetries + 1, j, k \in Nat : n > k /\ k >= j => n > j
    /\ \A n \in 1 .. MaxRetries + 1, k \in Nat : n > k + 1 => n > k /\ n # k + 1
    /\ \A k \in Nat : k + 1 > k /\ k + 1 > 0
  BY PiAssumption, SMTT(30)

\* The attempts before the last one, and the last one.
LEMMA Attempts ==
    ASSUME NEW k \in 0 .. MaxRetries + 1
    PROVE  /\ \A n \in 1 .. k - 1 : n \in 1 .. k
           /\ \A n \in 1 .. k : n = k \/ n \in 1 .. k - 1
           /\ k > 0 => k \in 1 .. k
           /\ k = 0 => ~\E n \in 1 .. k : TRUE
           /\ ~(k > 0) => k = 0
           /\ k + 1 # k /\ (k + 1) - 1 = k
  BY PiAssumption, SMTT(30)

\* Before the first attempt.
LEMMA NoAttempt == (\A n \in 1 .. 0 - 1 : FALSE) /\ ~(0 > 0)
  BY SMTT(30)

\* Nothing has been counted at the start.
LEMMA Bounds == \A n \in Nat : 0 \in 0 .. n
  BY SMTT(30)

\* Counting one more or one less, and comparing counts.
LEMMA Counts ==
    /\ 1 - 1 = 0
    /\ \A n \in Nat : 0 <= n
    /\ \A m, n, k \in Nat : m <= n /\ n <= k => m <= k /\ m \in 0 .. k
    /\ \A m, n, k \in Nat : m <= n + 1 /\ n < k => m <= k
  BY SMTT(30)

\* An attempt that was made is one that may be made.
LEMMA AttemptMade ==
    ASSUME NEW k \in 0 .. MaxRetries + 1, NEW n \in 1 .. k PROVE n \in 1 .. MaxRetries + 1
  BY PiAssumption, SMTT(30)

\* The requests have calls of their own.
LEMMA OwnCall ==
    ASSUME NEW r \in Req, NEW s \in Req, s # r
    PROVE  CallOf(s, 1) # CallOf(r, 1) /\ CallOf(s, 1) \in Call
  BY FirstAttempt, CallFacts, SMTT(30)

\* The elements of a sequence.
LEMMA Elements ==
    ASSUME NEW S, NEW q \in Seq(S)
    PROVE  /\ Len(q) \in Nat /\ (q # <<>> => 1 \in 1 .. Len(q) /\ Head(q) = q[1])
           /\ \A i \in 1 .. Len(q) : i \in Nat \ {0} /\ q[i] \in S
<1>1. Len(q) \in Nat /\ (q # <<>> => Len(q) # 0 /\ Head(q) = q[1]) /\ \A i \in 1 .. Len(q) : q[i] \in S
  BY SMTT(30)
<1>2. Len(q) # 0 => 1 \in 1 .. Len(q)
  BY <1>1, SMTT(30)
<1>3. \A i \in 1 .. Len(q) : i \in Nat \ {0}
  BY <1>1, SMTT(30)
<1>. QED  BY <1>1, <1>2, <1>3

\* The place of an element: the first one, or a later one.
LEMMA Places ==
    ASSUME NEW S, NEW q \in Seq(S), NEW i \in 1 .. Len(q)
    PROVE  q # <<>> /\ 1 \in 1 .. Len(q) /\ (~(i > 1) => i = 1) /\ (i > 1 => i # 1)
<1>1. Len(q) \in Nat /\ (q = <<>> => Len(q) = 0)
  BY SMTT(30)
<1>. QED  BY <1>1, SMTT(30)

\* No element.
LEMMA Nothing == Len(<<>>) = 0 /\ 1 .. 0 = {} /\ \A S : <<>> \in Seq(S)
  BY SMTT(30)

\* t is q without its head.
IsTail(t, q) ==
    /\ 1 \in 1 .. Len(q) /\ Head(q) = q[1]
    /\ \A i \in 1 .. Len(t) : i + 1 \in 1 .. Len(q) /\ i + 1 # 1 /\ i + 1 > 1 /\ t[i] = q[i + 1]
    /\ \A i, j \in 1 .. Len(t) : i + 1 = j + 1 => i = j
    /\ \A i \in 1 .. Len(q) : i # 1 => i - 1 \in 1 .. Len(t) /\ t[i - 1] = q[i]

\* A sequence that has lost its head.
LEMMA TailOf ==
    ASSUME NEW S, NEW q \in Seq(S), q # <<>>
    PROVE  IsTail(Tail(q), q) /\ Tail(q) \in Seq(S) /\ Head(q) \in S
<1>1. /\ Len(q) \in Nat /\ Len(q) > 0 /\ Len(Tail(q)) = Len(q) - 1 /\ Tail(q) \in Seq(S)
      /\ Head(q) = q[1] /\ \A i \in 1 .. Len(q) : q[i] \in S
  BY SMTT(30)
<1>2. \A i \in 1 .. Len(q) - 1 : Tail(q)[i] = q[i + 1]
  BY SMTT(30)
<1>3. \A i \in 1 .. Len(q) : i # 1 => i - 1 \in 1 .. Len(q) - 1 /\ (i - 1) + 1 = i
  BY <1>1, SMTT(30)
<1>4. /\ \A i \in 1 .. Len(q) - 1 : i + 1 \in 1 .. Len(q) /\ i + 1 # 1 /\ i + 1 > 1
      /\ \A i, j \in 1 .. Len(q) - 1 : i + 1 = j + 1 => i = j
  BY <1>1, SMTT(30)
<1>5. 1 \in 1 .. Len(q)
  BY <1>1, SMTT(30)
<1>6. \A i \in 1 .. Len(q) : i # 1 => i - 1 \in 1 .. Len(Tail(q)) /\ Tail(q)[i - 1] = q[i]
  BY <1>1, <1>2, <1>3
<1>. QED  BY <1>1, <1>2, <1>4, <1>5, <1>6 DEF IsTail

\* p is q with e at its end.
IsAppend(p, q, e) ==
    /\ Len(p) = Len(q) + 1 /\ p[Len(p)] = e /\ p # <<>> /\ Len(p) \in 1 .. Len(p)
    /\ \A i \in 1 .. Len(q) : i \in 1 .. Len(p) /\ i # Len(p) /\ p[i] = q[i]
    /\ \A i \in 1 .. Len(p) : i # Len(p) => i \in 1 .. Len(q) /\ p[i] = q[i]

\* A sequence that has got one more.
LEMMA AppendOf ==
    ASSUME NEW S, NEW q \in Seq(S), NEW e \in S
    PROVE  IsAppend(Append(q, e), q, e) /\ Append(q, e) \in Seq(S)
<1>1. /\ Len(q) \in Nat /\ Append(q, e) \in Seq(S) /\ Len(Append(q, e)) = Len(q) + 1
      /\ Append(q, e)[Len(q) + 1] = e
  BY SMTT(30)
<1>2. \A i \in 1 .. Len(q) : Append(q, e)[i] = q[i]
  BY SMTT(30)
<1>3. /\ \A i \in 1 .. Len(q) + 1 : i # Len(q) + 1 => i \in 1 .. Len(q)
      /\ \A i \in 1 .. Len(q) : i # Len(q) + 1 /\ i \in 1 .. Len(q) + 1
  BY <1>1, SMTT(30)
<1>4. Len(q) + 1 \in 1 .. Len(q) + 1 /\ Len(q) + 1 # 0
  BY <1>1, SMTT(30)
<1>5. Append(q, e) # <<>>
  BY <1>1, <1>4, Nothing
<1>. QED  BY <1>1, <1>2, <1>3, <1>4, <1>5 DEF IsAppend

\* p is the beginning of q.
IsFirst(p, q) == \A i \in 1 .. Len(p) : i \in 1 .. Len(q) /\ p[i] = q[i]

\* The first elements of a sequence.
LEMMA FirstOf ==
    ASSUME NEW S, NEW q \in Seq(S), NEW n \in 0 .. Len(q)
    PROVE  IsFirst(SubSeq(q, 1, n), q) /\ SubSeq(q, 1, n) \in Seq(S) /\ SubSeq(q, 1, 0) = <<>>
  BY SMTT(30) DEF IsFirst

\* A call is active, or it is not.
LEMMA ActiveType == ASSUME NEW c PROVE Active(c) \in BOOLEAN
  BY SMTT(30) DEF Active

\* Only the request r has changed, and no call was issued or returned.
OnlyReq(r) ==
    /\ kind' = kind /\ gocall' = gocall
    /\ \A s \in Req \ {r} :
          /\ phase'[s] = phase[s] /\ reply'[s] = reply[s] /\ said'[s] = said[s]
          /\ attempt'[s] = attempt[s] /\ beat'[s] = beat[s]
          /\ \A n \in 1 .. MaxRetries + 1 : at'[CallOf(s, n)] = at[CallOf(s, n)]

ReqOK(r) == AttemptsOf(r) /\ OpenOf(r) /\ KindOf(r) /\ SaidOf(r)

\* The other requests keep what is known of them when only r moves.
LEMMA OthersKeep ==
    ASSUME ReqInv, NEW r \in Req, OnlyReq(r), NEW s \in Req \ {r}
    PROVE  ReqOK(s)'
<1>1. ReqOK(s) /\ s \in Req
  BY DEF ReqInv, ReqOK
<1>2. /\ phase'[s] = phase[s] /\ reply'[s] = reply[s] /\ said'[s] = said[s]
      /\ attempt'[s] = attempt[s] /\ beat'[s] = beat[s] /\ kind' = kind /\ gocall' = gocall
      /\ \A n \in 1 .. MaxRetries + 1 : at'[CallOf(s, n)] = at[CallOf(s, n)]
  BY DEF OnlyReq
<1>3. AttemptsOf(s)'
  BY <1>1, <1>2 DEF ReqOK, AttemptsOf
<1>4. OpenOf(s)'
  BY <1>1, <1>2 DEF ReqOK, OpenOf
<1>5. KindOf(s)' /\ SaidOf(s)'
  BY <1>1, <1>2 DEF ReqOK, KindOf, SaidOf, Workspace
<1>. QED  BY <1>3, <1>4, <1>5 DEF ReqOK

\* A step of a request that is not queued, and of no other.
LEMMA ReqKeeps ==
    ASSUME ReqInv, NEW r \in Req, OnlyReq(r), ReqType', ReqOK(r)', phase[r] # "queued",
           jobs' = jobs, ~Workspace => timer' = 0 /\ expiring' = {}
    PROVE  ReqInv'
<1>1. \A s \in Req : ReqOK(s)'
  BY OthersKeep
<1>2. QueueInv'
  <2>1. jobs \in Seq(Req) /\ QueueInv
    BY DEF ReqInv, ReqType
  <2>2. ASSUME NEW i \in 1 .. Len(jobs) PROVE phase'[jobs[i]] = "queued"
    <3>1. jobs[i] \in Req
      BY <2>1, Elements
    <3>2. phase[jobs[i]] = "queued"
      BY <2>1 DEF QueueInv
    <3>. QED  BY <3>1, <3>2 DEF OnlyReq
  <2>3. Workspace' <=> Workspace
    BY DEF OnlyReq, Workspace
  <2>4. \A i \in 1 .. Len(jobs') : phase'[jobs'[i]] = "queued"
    BY <2>2
  <2>5. ASSUME NEW i \in 1 .. Len(jobs'), NEW j \in 1 .. Len(jobs'), jobs'[i] = jobs'[j] PROVE i = j
    <3>1. i \in 1 .. Len(jobs) /\ j \in 1 .. Len(jobs) /\ jobs[i] = jobs[j]
      BY <2>5
    <3>. QED  BY <2>1, <3>1 DEF QueueInv
  <2>6. ~Workspace' => jobs' = <<>> /\ timer' = 0 /\ expiring' = {}
    BY <2>1, <2>3 DEF QueueInv
  <2>. QED  BY <2>4, <2>5, <2>6 DEF QueueInv
<1>. QED  BY <1>1, <1>2 DEF ReqInv, ReqOK

\* A step that moves no request: at most one call, which is open, is issued or
\* returns, and the progress of an open call is told.
Carries ==
    /\ UNCHANGED <<phase, reply, attempt, beat, jobs, kind, at>>
    /\ life' \in {"starting", "serving", "closing", "gone"} /\ events' \in 0 .. MaxEvent[kind]
    /\ entry' \in Bridge \cup {NoBridge} /\ shut' \in Bridge \cup {NoBridge}
    /\ ~Workspace => timer' = 0 /\ expiring' = {}
    /\ \/ gocall' = gocall
       \/ \E c \in Call, v \in {"waiting", "ended"} :
            at[c] # NoBridge /\ gocall[c] # "ended" /\ gocall' = [gocall EXCEPT ![c] = v]
    /\ \/ said' = said
       \/ \E c \in Call : /\ gocall[c] = "waiting" /\ Workspace
                          /\ said' = [said EXCEPT ![c[1]] = "progress"]

\* A step that carries every request along keeps the invariant.
LEMMA CarriesKeeps ==
    ASSUME ReqInv, Carries
    PROVE  ReqInv'
<1>1. /\ \A c \in Call : gocall'[c] # gocall[c] => at[c] # NoBridge /\ gocall[c] # "ended"
      /\ gocall' \in [Call -> {"idle", "waiting", "ended"}]
  <2>1. gocall \in [Call -> {"idle", "waiting", "ended"}]
    BY DEF ReqInv, ReqType
  <2>2. \/ gocall' = gocall
        \/ \E c \in Call, v \in {"waiting", "ended"} :
             at[c] # NoBridge /\ gocall[c] # "ended" /\ gocall' = [gocall EXCEPT ![c] = v]
    BY DEF Carries
  <2>. QED  BY <2>1, <2>2
<1>2. ReqType'
  <2>1. said' \in [Req -> {"progress", "terminal"}]
    BY DEF Carries, ReqInv, ReqType
  <2>. QED  BY <1>1, <2>1 DEF Carries, ReqInv, ReqType
<1>3. QueueInv'
  <2>1. QueueInv /\ phase' = phase /\ jobs' = jobs /\ kind' = kind
        /\ (~Workspace => timer' = 0 /\ expiring' = {})
    BY DEF Carries, ReqInv
  <2>2. Workspace' <=> Workspace
    BY <2>1 DEF Workspace
  <2>3. \A i \in 1 .. Len(jobs') : phase'[jobs'[i]] = "queued"
    BY <2>1 DEF QueueInv
  <2>4. ASSUME NEW i \in 1 .. Len(jobs'), NEW j \in 1 .. Len(jobs'), jobs'[i] = jobs'[j] PROVE i = j
    <3>1. i \in 1 .. Len(jobs) /\ j \in 1 .. Len(jobs) /\ jobs[i] = jobs[j]
      BY <2>1, <2>4
    <3>. QED  BY <2>1, <3>1 DEF QueueInv
  <2>5. ~Workspace' => jobs' = <<>> /\ timer' = 0 /\ expiring' = {}
    BY <2>1, <2>2 DEF QueueInv
  <2>. QED  BY <2>3, <2>4, <2>5 DEF QueueInv
<1>4. ASSUME NEW r \in Req PROVE ReqOK(r)'
  <2>1. /\ AttemptsOf(r) /\ OpenOf(r) /\ KindOf(r) /\ SaidOf(r)
        /\ phase' = phase /\ reply' = reply /\ attempt' = attempt /\ beat' = beat
        /\ kind' = kind /\ at' = at
    BY DEF Carries, ReqInv
  <2>2. AttemptsOf(r)' /\ KindOf(r)'
    BY <2>1 DEF AttemptsOf, KindOf, Workspace
  <2>3. OpenOf(r)'
    BY <1>1, <2>1, CallFacts DEF OpenOf
  <2>4. phase[r] \in Told => said'[r] = said[r]
    <3>1. ASSUME NEW c \in Call, gocall[c] = "waiting", c[1] = r PROVE phase[r] \in OnCall
      BY <2>1, <3>1, CallFacts DEF OpenOf
    <3>. QED  BY <3>1 DEF Carries, ReqInv, ReqType, OnCall, Told
  <2>5. SaidOf(r)'
    BY <2>1, <2>4 DEF SaidOf
  <2>. QED  BY <2>2, <2>3, <2>5 DEF ReqOK
<1>. QED  BY <1>2, <1>3, <1>4 DEF ReqInv, ReqOK

\* The steps of the bridge are such.
BridgeStep ==
    \/ \E c \in Call : \/ TakeFrame(c) \/ Issue(c) \/ SeeCancel(c) \/ SeeDone(c) \/ Deliver(c)
                       \/ TakeTurn(c) \/ Update(c) \/ Settle(c, Endings)
    \/ \E b \in Bridge : \/ WaitReturns(b) \/ ReadFrame(b) \/ NodeReads(b, Workspace)
                         \/ Dies(b) /\ (toGo' = toGo \/ toGo' = [toGo EXCEPT ![b] = <<>>])

\* The events stay within their bound.
LEMMA EventCounts ==
    ASSUME ReqInv, Event
    PROVE  events' \in 0 .. MaxEvent[kind]
  BY PiAssumption, SMTT(30) DEF ReqInv, ReqType, Event

\* What a step of the bridge leaves alone.
LEMMA BridgeCarries ==
    ASSUME ReqInv, BridgeStep,
           UNCHANGED <<phase, reply, attempt, beat, queueVars, poolVars, kind, life, shut>>,
           events' \in 0 .. MaxEvent[kind],
           \/ said' = said
           \/ \E c \in Call : /\ gocall[c] = "waiting" /\ Workspace
                              /\ said' = [said EXCEPT ![c[1]] = "progress"]
    PROVE  Carries
<1>0. /\ UNCHANGED <<phase, reply, attempt, beat, jobs, kind>>
      /\ life' \in {"starting", "serving", "closing", "gone"}
      /\ entry' \in Bridge \cup {NoBridge} /\ shut' \in Bridge \cup {NoBridge}
      /\ ~Workspace => timer' = 0 /\ expiring' = {}
  BY DEF ReqInv, ReqType, QueueInv, queueVars, poolVars
<1>1. ASSUME NEW c \in Call PROVE gocall[c] # "idle" => at[c] # NoBridge
  <2>1. c[1] \in Req /\ c[2] \in 1 .. MaxRetries + 1 /\ c = CallOf(c[1], c[2])
    BY CallFacts
  <2>2. OpenOf(c[1])
    BY <2>1 DEF ReqInv
  <2>. QED  BY <2>1, <2>2 DEF OpenOf
<1>2. ASSUME NEW c \in Call, TakeFrame(c) \/ Issue(c) \/ SeeCancel(c) \/ SeeDone(c) PROVE Carries
  <2>1. at' = at
    BY <1>2 DEF TakeFrame, Issue, SeeCancel, SeeDone
  <2>2. gocall' = gocall \/ \E v \in {"waiting", "ended"} : gocall' = [gocall EXCEPT ![c] = v]
    BY <1>2 DEF TakeFrame, Issue, SeeCancel, SeeDone, Ends
  <2>3. at[c] # NoBridge /\ gocall[c] # "ended"
    BY <1>1, <1>2 DEF TakeFrame, Issue, SeeCancel, SeeDone
  <2>. QED  BY <1>0, <2>1, <2>2, <2>3 DEF Carries
<1>3. CASE at' = at /\ gocall' = gocall
  BY <1>0, <1>3 DEF Carries
<1>4. ASSUME NEW c \in Call, Deliver(c) \/ TakeTurn(c) \/ Update(c) \/ Settle(c, Endings)
      PROVE  at' = at /\ gocall' = gocall
  BY <1>4 DEF Deliver, TakeTurn, Update, Settle, goVars
<1>5. ASSUME NEW b \in Bridge, WaitReturns(b) \/ ReadFrame(b) \/ NodeReads(b, Workspace) \/ Dies(b)
      PROVE  at' = at /\ gocall' = gocall
  BY <1>5 DEF WaitReturns, ReadFrame, NodeReads, Dies, goVars
<1>. QED  BY <1>2, <1>3, <1>4, <1>5 DEF BridgeStep

\* The steps of Next are the bridge's own and the actor's.
OwnStep ==
    /\ BridgeStep
    /\ UNCHANGED <<phase, reply, attempt, beat, queueVars, poolVars, kind, life, shut>>
    /\ events' \in 0 .. MaxEvent[kind]
    /\ \/ said' = said
       \/ \E c \in Call : /\ gocall[c] = "waiting" /\ Workspace
                          /\ said' = [said EXCEPT ![c[1]] = "progress"]

ReqActs(r) ==
    \/ ReqStep(r) \/ RecvWorkspace(r) \/ RecvLlm(r) \/ Refuse(r) \/ Beat(r) \/ Cancel(r)

\* Every step is the bridge's own, an action for a request, or one of the actor's life.
LEMMA NextSplits ==
    ASSUME ReqInv, Next
    PROVE  OwnStep \/ (\E r \in Req : ReqActs(r)) \/ ActorStep \/ Stop
<1>0. events \in 0 .. MaxEvent[kind]
  BY DEF ReqInv, ReqType
<1>1. ASSUME NEW c \in Call, CallStep(c) \/ (TakeTurn(c) /\ Rest) PROVE OwnStep
  <2>1. CASE Receive(c)
    BY <1>0, <2>1 DEF OwnStep, BridgeStep, Receive, TakeFrame, actorVars
  <2>2. CASE ~Receive(c)
    BY <1>0, <1>1, <2>2 DEF OwnStep, BridgeStep, CallStep, Rest, reqVars, actorVars
  <2>. QED  BY <2>1, <2>2
<1>2. ASSUME NEW b \in Bridge, ChildStep(b) PROVE OwnStep
  BY <1>0, <1>2 DEF OwnStep, BridgeStep, ChildStep, Rest, reqVars, actorVars, KillAfterGrace, NodeExits
<1>3. ASSUME NEW c \in Call, Progress(c) \/ (Settle(c, Endings) /\ Rest) PROVE OwnStep
  <2>1. CASE Progress(c)
    BY <2>1, EventCounts DEF OwnStep, BridgeStep, Progress, reqVars
  <2>2. CASE Settle(c, Endings) /\ Rest
    BY <1>0, <2>2 DEF OwnStep, BridgeStep, Rest, reqVars, actorVars
  <2>. QED  BY <1>3, <2>1, <2>2
<1>4. ASSUME NEW b \in Bridge, Crash(b) \/ StreamBreaks(b) PROVE OwnStep
  BY <1>4, EventCounts DEF OwnStep, BridgeStep, Crash, StreamBreaks, ReadBreaks, reqVars
<1>. QED  BY <1>1, <1>2, <1>3, <1>4 DEF Next, Code, World, ReqActs

\* What the bridge does by itself leaves the requests alone.
LEMMA OwnKeeps ==
    ASSUME ReqInv, OwnStep
    PROVE  ReqInv'
<1>1. Carries
  BY BridgeCarries DEF OwnStep
<1>. QED  BY <1>1, CarriesKeeps

-----------------------------------------------------------------------------
(* Requests: the actions of the actors *)

\* The request r goes on to phase p, with reply o and last word s.
Moves(r, p, o, s) ==
    /\ phase' \in [Req -> Phases] /\ phase'[r] = p
    /\ reply' \in [Req -> Replies] /\ reply'[r] = o
    /\ said' \in [Req -> {"progress", "terminal"}] /\ said'[r] = s
    /\ \A q \in Req \ {r} : phase'[q] = phase[q] /\ reply'[q] = reply[q] /\ said'[q] = said[q]

\* Posting, going on, joining and telling are moves of one request.
LEMMA MovesForms ==
    ASSUME ReqInv, NEW r \in Req, NEW p \in Phases, NEW o \in Replies
    PROVE  /\ Post(r, o, p) => Moves(r, p, o, "terminal")
           /\ Goto(r, p) => Moves(r, p, reply[r], said[r])
           /\ Join(r, o) => Moves(r, "joining", o, said[r])
           /\ Tell(r, p) => Moves(r, p, reply[r], "progress")
<1>1. /\ phase \in [Req -> Phases] /\ reply \in [Req -> Replies]
      /\ said \in [Req -> {"progress", "terminal"}]
  BY DEF ReqInv, ReqType
<1>2. "joining" \in Phases
  BY DEF Phases
<1>3. Post(r, o, p) => Moves(r, p, o, "terminal")
  BY <1>1 DEF Post, Moves
<1>4. Goto(r, p) => Moves(r, p, reply[r], said[r])
  BY <1>1 DEF Goto, Moves
<1>5. Join(r, o) => Moves(r, "joining", o, said[r])
  BY <1>1, <1>2 DEF Join, Moves
<1>6. Tell(r, p) => Moves(r, p, reply[r], "progress")
  BY <1>1 DEF Tell, Moves
<1>. QED  BY <1>3, <1>4, <1>5, <1>6

\* What is not about the request that moves.
Around(r) ==
    /\ UNCHANGED <<gocall, kind>> /\ jobs' \in Seq(Req)
    /\ life' \in {"starting", "serving", "closing", "gone"} /\ events' \in 0 .. MaxEvent[kind]
    /\ entry' \in Bridge \cup {NoBridge} /\ shut' \in Bridge \cup {NoBridge}
    /\ ~Workspace => timer' = 0 /\ expiring' = {}
    /\ attempt' \in [Req -> 0 .. MaxRetries + 1] /\ beat' \in [Req -> BOOLEAN]
    /\ \A q \in Req \ {r} : attempt'[q] = attempt[q] /\ beat'[q] = beat[q]

\* Where a request may go without a new call.
MayGo(r, p, o, s) ==
    /\ p \in Early => attempt'[r] = 0
    /\ p \in {"looping", "delaying"} => attempt'[r] <= MaxRetries
    /\ p = "listing" => attempt'[r] = 1
    /\ p \in OnCall \cup {"invalidating", "releasing", "draining"} => attempt'[r] > 0
    /\ phase[r] \in OnCall => IF p \in OnCall THEN attempt'[r] = attempt[r]
                                              ELSE gocall[TheCall(r)] = "ended"
    /\ attempt'[r] >= attempt[r]
    /\ IF Workspace THEN p \notin OfLlm /\ ~beat'[r] /\ attempt'[r] <= 1 ELSE p \notin OfPool
    /\ beat'[r] => p \in {"looping", "calling", "delaying", "joining"}
    /\ p \in Told => s = "terminal"
    /\ o # None => p \in Told \cup {"joining"}

\* A request that moves as it may is well again, and the others are left alone.
LEMMA MovedOK ==
    ASSUME ReqInv, NEW r \in Req, NEW p, NEW o, NEW s,
           Moves(r, p, o, s), Around(r), at' = at, MayGo(r, p, o, s)
    PROVE  ReqType' /\ ReqOK(r)' /\ OnlyReq(r)
<1>0. ReqType /\ AttemptsOf(r) /\ OpenOf(r) /\ attempt[r] \in Nat /\ attempt'[r] \in Nat
  BY Numbers DEF ReqInv, ReqType, Around
<1>1. phase'[r] = p /\ reply'[r] = o /\ said'[r] = s /\ kind' = kind /\ gocall' = gocall
  BY DEF Moves, Around
<1>3. AttemptsOf(r)'
  BY <1>0, <1>1, Later DEF AttemptsOf, MayGo
<1>4. OpenOf(r)'
  BY <1>0, <1>1, CallFacts DEF OpenOf, MayGo, TheCall
<1>5. KindOf(r)' /\ SaidOf(r)'
  BY <1>1 DEF KindOf, SaidOf, MayGo, Workspace
<1>6. OnlyReq(r)
  BY DEF OnlyReq, Moves, Around
<1>7. ReqType'
  BY <1>0, <1>1 DEF ReqType, Moves, Around
<1>. QED  BY <1>3, <1>4, <1>5, <1>6, <1>7 DEF ReqOK

\* Such a move, outside the queue, keeps the invariant.
LEMMA MoveKeeps ==
    ASSUME ReqInv, NEW r \in Req, NEW p, NEW o, NEW s,
           Moves(r, p, o, s), Around(r), at' = at, MayGo(r, p, o, s),
           phase[r] # "queued", jobs' = jobs
    PROVE  ReqInv'
<1>1. ~Workspace => timer' = 0 /\ expiring' = {}
  BY DEF Around
<1>. QED  BY <1>1, MovedOK, ReqKeeps

\* A request that makes its next call.
LEMMA CallKeeps ==
    ASSUME ReqInv, NEW r \in Req, NEW p \in OnCall, NEW s, NEW b \in Bridge \cup {NoBridge},
           Moves(r, p, reply[r], s), Around(r), beat' = beat, jobs' = jobs,
           phase[r] \in {"serving", "looping"}, Workspace \/ beat[r] => p = "calling",
           p = "listing" => phase[r] = "serving",
           attempt'[r] = attempt[r] + 1, at' = [at EXCEPT ![CallOf(r, attempt[r] + 1)] = b]
    PROVE  ReqInv'
<1>0. /\ ReqType /\ AttemptsOf(r) /\ OpenOf(r) /\ KindOf(r) /\ SaidOf(r)
      /\ attempt[r] \in Nat /\ attempt[r] + 1 \in 1 .. MaxRetries + 1
  BY Numbers DEF ReqInv, ReqType, AttemptsOf, Early
<1>1. phase'[r] = p /\ reply'[r] = reply[r] /\ said'[r] = s /\ kind' = kind /\ gocall' = gocall
  BY DEF Moves, Around
<1>2. reply[r] = None
  BY <1>0 DEF SaidOf, Told
<1>3. /\ at' \in [Call -> Bridge \cup {NoBridge}]
      /\ \A q \in Req, n \in 1 .. MaxRetries + 1 :
            at'[CallOf(q, n)] = IF q = r /\ n = attempt[r] + 1 THEN b ELSE at[CallOf(q, n)]
  <2>1. at \in [Call -> Bridge \cup {NoBridge}] /\ CallOf(r, attempt[r] + 1) \in Call
    BY <1>0, CallFacts DEF ReqType
  <2>2. ASSUME NEW q \in Req, NEW n \in 1 .. MaxRetries + 1, CallOf(q, n) = CallOf(r, attempt[r] + 1)
        PROVE  q = r /\ n = attempt[r] + 1
    BY <1>0, <2>2, CallFacts, SMTT(30)
  <2>. QED  BY <2>1, <2>2, CallFacts
<1>4. AttemptsOf(r)'
  <2>1. ASSUME NEW n \in 1 .. MaxRetries + 1, n > attempt[r] + 1 PROVE at'[CallOf(r, n)] = NoBridge
    <3>1. n > attempt[r] /\ n # attempt[r] + 1
      BY <1>0, <2>1, Later
    <3>2. at[CallOf(r, n)] = NoBridge
      BY <1>0, <3>1 DEF AttemptsOf
    <3>. QED  BY <1>3, <3>1, <3>2
  <2>2. attempt[r] + 1 > 0
    BY <1>0, Later
  <2>3. CASE p = "listing"
    <3>1. attempt[r] = 0
      BY <1>0, <2>3 DEF AttemptsOf, Early
    <3>. QED  BY <1>1, <2>1, <2>2, <2>3, <3>1, FirstAttempt DEF AttemptsOf, Early
  <2>. QED  BY <1>1, <2>1, <2>2, <2>3 DEF AttemptsOf, OnCall, Early
<1>5. OpenOf(r)'
  <2>1. \A n \in 1 .. MaxRetries + 1 : n > attempt[r] => gocall[CallOf(r, n)] = "idle"
    BY <1>0 DEF AttemptsOf, OpenOf
  <2>2. \A n \in 1 .. MaxRetries + 1 : at[CallOf(r, n)] # NoBridge => gocall[CallOf(r, n)] = "ended"
    BY <1>0 DEF OpenOf, OnCall
  <2>3. gocall[CallOf(r, attempt[r] + 1)] = "idle"
    BY <1>0, <2>1, Later
  <2>4. ASSUME NEW n \in 1 .. MaxRetries + 1, n # attempt[r] + 1
        PROVE  at'[CallOf(r, n)] = at[CallOf(r, n)]
    BY <1>3, <2>4
  <2>. QED  BY <1>0, <1>1, <2>2, <2>3, <2>4 DEF OpenOf
<1>6. KindOf(r)'
  BY <1>0, <1>1, FirstAttempt, Numbers DEF KindOf, OnCall, OfLlm, OfPool, Workspace, AttemptsOf, Early
<1>7. SaidOf(r)'
  BY <1>0, <1>1, <1>2 DEF SaidOf, OnCall, Told
<1>8. OnlyReq(r)
  <2>. SUFFICES ASSUME NEW q \in Req \ {r}
                PROVE  /\ phase'[q] = phase[q] /\ reply'[q] = reply[q] /\ said'[q] = said[q]
                       /\ attempt'[q] = attempt[q] /\ beat'[q] = beat[q]
                       /\ \A n \in 1 .. MaxRetries + 1 : at'[CallOf(q, n)] = at[CallOf(q, n)]
    BY <1>1 DEF OnlyReq
  <2>1. ASSUME NEW n \in 1 .. MaxRetries + 1 PROVE at'[CallOf(q, n)] = at[CallOf(q, n)]
    <3>1. q \in Req /\ ~(q = r /\ n = attempt[r] + 1)
      OBVIOUS
    <3>. QED  BY <1>3, <3>1
  <2>2. /\ phase'[q] = phase[q] /\ reply'[q] = reply[q] /\ said'[q] = said[q]
        /\ attempt'[q] = attempt[q] /\ beat'[q] = beat[q]
    BY DEF Moves, Around
  <2>. QED  BY <2>1, <2>2
<1>9. ReqType'
  BY <1>0, <1>1, <1>3 DEF ReqType, Moves, Around
<1>. QED  BY <1>4, <1>5, <1>6, <1>7, <1>8, <1>9, ReqKeeps DEF ReqOK, Around

\* What most actions leave alone.
Still == UNCHANGED <<gocall, at, kind, life, shut, jobs, entry, timer, expiring>>

\* Steps that leave the calls and the pool as they are leave the surroundings of r.
LEMMA StillAround ==
    ASSUME ReqInv, NEW r \in Req, Still, attempt' = attempt, beat' = beat, events' = events
    PROVE  Around(r)
  BY DEF ReqInv, ReqType, QueueInv, Around, Still

\* The actions of pi-workspace's scheduler and handler.
LEMMA WorkspaceKeeps ==
    ASSUME ReqInv, NEW r \in Req,
           PopToken(r) \/ Refuse(r) \/ ReturnWorkspace(r) \/ Closed(r) \/ Release(r)
    PROVE  ReqInv'
<1>0. /\ ReqType /\ AttemptsOf(r) /\ OpenOf(r) /\ KindOf(r) /\ SaidOf(r)
      /\ attempt[r] \in Nat /\ reply[r] \in Replies /\ phase[r] \in Phases
  BY Numbers DEF ReqInv, ReqType
<1>1. Around(r)
  <2>1. CASE PopToken(r) \/ Refuse(r) \/ Closed(r)
    <3>1. Still /\ attempt' = attempt /\ beat' = beat /\ events' = events
      BY <2>1 DEF PopToken, Refuse, Closed, Still, bridgeVars, goVars, poolVars, actorVars, queueVars
    <3>. QED  BY <3>1, StillAround
  <2>2. CASE ReturnWorkspace(r) \/ Release(r)
    <3>1. UNCHANGED <<gocall, at, kind, life, shut, jobs, attempt, beat, events>>
      BY <2>2 DEF ReturnWorkspace, Release, goVars, queueVars, actorVars
    <3>2. Workspace
      BY <1>0, <2>2 DEF ReturnWorkspace, Release, KindOf, OfPool
    <3>3. entry' \in {entry, NoBridge}
      BY <2>2 DEF ReturnWorkspace, Release, Discard, Forget, poolVars
    <3>. QED  BY <1>0, <3>1, <3>2, <3>3 DEF Around, ReqType
  <2>. QED  BY <2>1, <2>2
<1>2. /\ at' = at /\ jobs' = jobs /\ attempt' = attempt /\ beat' = beat /\ phase[r] # "queued"
  BY DEF PopToken, Refuse, Closed, ReturnWorkspace, Release, bridgeVars, goVars, queueVars
<1>3. Workspace /\ ~beat[r] /\ attempt[r] <= 1
  BY <1>0 DEF KindOf, OfPool, PopToken, Refuse, Closed, ReturnWorkspace, Release
<1>4. CASE PopToken(r)
  <2>1. Moves(r, "ended", "cancelled", "terminal") \/ Moves(r, "serving", reply[r], said[r])
    BY <1>0, <1>4, MovesForms DEF PopToken, Phases, Replies, AllVerdicts
  <2>2. attempt[r] = 0 /\ reply[r] = None
    BY <1>0, <1>4 DEF PopToken, AttemptsOf, SaidOf, Early, Told
  <2>3. phase[r] \notin OnCall
    BY <1>4 DEF PopToken, OnCall
  <2>4. MayGo(r, "ended", "cancelled", "terminal")
    BY <1>2, <1>3, <2>2, <2>3, Numbers DEF MayGo, Early, OnCall, OfLlm, Told
  <2>5. MayGo(r, "serving", reply[r], said[r])
    BY <1>2, <1>3, <2>2, <2>3, Numbers DEF MayGo, Early, OnCall, OfLlm, Told
  <2>. QED  BY <1>1, <1>2, <2>1, <2>4, <2>5, MoveKeeps
<1>5. CASE Refuse(r)
  <2>1. Moves(r, "ended", "invalid_args", "terminal")
    BY <1>0, <1>5, MovesForms DEF Refuse, Phases, Replies
  <2>2. MayGo(r, "ended", "invalid_args", "terminal")
    BY <1>0, <1>2, <1>3, <1>5, Numbers DEF Refuse, MayGo, Early, OnCall, OfLlm, Told
  <2>. QED  BY <1>1, <1>2, <2>1, <2>2, MoveKeeps
<1>6. CASE ReturnWorkspace(r)
  <2>1. \/ \E o \in Replies : Moves(r, "releasing", o, "terminal")
        \/ Moves(r, "invalidating", reply[r], said[r])
    <3>1. \A o \in AllVerdicts : o \in Replies
      BY DEF Replies
    <3>2. "releasing" \in Phases /\ "invalidating" \in Phases /\ "tool_failed" \in Replies
      BY DEF Phases, Replies
    <3>. QED  BY <1>0, <1>6, <3>1, <3>2, MovesForms DEF ReturnWorkspace
  <2>2. attempt[r] = 1 /\ reply[r] = None /\ gocall[TheCall(r)] = "ended"
    <3>1. attempt[r] = 1
      BY <1>0, <1>3, <1>6, Numbers DEF ReturnWorkspace, AttemptsOf, OnCall
    <3>. QED  BY <1>0, <1>6, <3>1 DEF ReturnWorkspace, SaidOf, Told, TheCall
  <2>3. /\ \A o \in Replies : MayGo(r, "releasing", o, "terminal")
        /\ MayGo(r, "invalidating", reply[r], said[r])
    BY <1>2, <1>3, <1>6, <2>2, Numbers DEF MayGo, Early, OnCall, OfLlm, Told
  <2>. QED  BY <1>1, <1>2, <2>1, <2>3, MoveKeeps
<1>7. CASE Closed(r)
  <2>1. \/ Moves(r, "releasing", "tool_failed", "terminal")
        \/ phase[r] = "draining" /\ Moves(r, "ended", reply[r], said[r])
    BY <1>0, <1>7, MovesForms DEF Closed, Phases, Replies
  <2>2. attempt[r] > 0 /\ phase[r] \notin OnCall /\ (phase[r] = "draining" => said[r] = "terminal")
    BY <1>0, <1>7 DEF Closed, AttemptsOf, SaidOf, Told, OnCall
  <2>3. /\ MayGo(r, "releasing", "tool_failed", "terminal")
        /\ phase[r] = "draining" => MayGo(r, "ended", reply[r], said[r])
    BY <1>0, <1>2, <1>3, <2>2, Numbers DEF MayGo, Early, OnCall, OfLlm, Told
  <2>. QED  BY <1>1, <1>2, <2>1, <2>3, MoveKeeps
<1>8. CASE Release(r)
  <2>1. \E p \in {"ended", "draining"} : Moves(r, p, reply[r], said[r])
    BY <1>0, <1>8, MovesForms DEF Release, Phases
  <2>2. attempt[r] > 0 /\ phase[r] \notin OnCall /\ said[r] = "terminal"
    BY <1>0, <1>8 DEF Release, AttemptsOf, SaidOf, Told, OnCall
  <2>3. \A p \in {"ended", "draining"} : MayGo(r, p, reply[r], said[r])
    BY <1>0, <1>2, <1>3, <2>2, Numbers DEF MayGo, Early, OnCall, OfLlm, Told
  <2>. QED  BY <1>1, <1>2, <2>1, <2>3, MoveKeeps
<1>. QED  BY <1>4, <1>5, <1>6, <1>7, <1>8

\* The actions of pi-llm's handler.
LEMMA LlmKeeps ==
    ASSUME ReqInv, NEW r \in Req,
           \/ RecvLlm(r) \/ ReturnModels(r) \/ ReturnLlm(r) \/ Delay(r) \/ ReplyLlm(r)
    PROVE  ReqInv'
<1>0. /\ ReqType /\ AttemptsOf(r) /\ OpenOf(r) /\ KindOf(r) /\ SaidOf(r)
      /\ attempt[r] \in Nat /\ reply[r] \in Replies /\ phase[r] \in Phases
  BY Numbers DEF ReqInv, ReqType
<1>1. /\ Still /\ attempt' = attempt /\ beat' = beat /\ events' = events /\ phase[r] # "queued"
  BY DEF RecvLlm, ReturnModels, ReturnLlm, Delay, ReplyLlm, Still, bridgeVars, goVars, poolVars,
         actorVars, queueVars
<1>2. Around(r) /\ at' = at /\ jobs' = jobs
  BY <1>1, StillAround DEF Still
<1>3. ~Workspace
  BY <1>0 DEF KindOf, OfLlm, RecvLlm, ReturnModels, ReturnLlm, Delay, ReplyLlm, Workspace
<1>4. \A o \in AllVerdicts \cup {"capacity", "failed", "deadline_exceeded"} : o \in Replies
  BY DEF Replies
<1>5. {"serving", "ended", "delaying", "looping", "joining"} \subseteq Phases
  BY DEF Phases
<1>6. CASE RecvLlm(r)
  <2>1. Moves(r, "ended", "capacity", "terminal") \/ Moves(r, "serving", reply[r], said[r])
    BY <1>0, <1>4, <1>5, <1>6, MovesForms DEF RecvLlm
  <2>2. attempt[r] = 0 /\ reply[r] = None /\ phase[r] \notin OnCall /\ ~beat[r]
    BY <1>0, <1>6 DEF RecvLlm, AttemptsOf, SaidOf, Early, Told, OnCall
  <2>3. MayGo(r, "ended", "capacity", "terminal")
    BY <1>1, <1>3, <2>2, Numbers DEF MayGo, Early, OnCall, OfPool, Told
  <2>4. MayGo(r, "serving", reply[r], said[r])
    BY <1>1, <1>3, <2>2, Numbers DEF MayGo, Early, OnCall, OfPool, Told
  <2>. QED  BY <1>1, <1>2, <2>1, <2>3, <2>4, MoveKeeps
<1>7. CASE ReturnModels(r)
  <2>1. PICK o \in Replies : Moves(r, "ended", o, "terminal")
    BY <1>0, <1>4, <1>5, <1>7, MovesForms DEF ReturnModels, AllVerdicts
  <2>2. gocall[TheCall(r)] = "ended" /\ ~beat[r]
    <3>1. attempt[r] = 1
      BY <1>0, <1>7 DEF ReturnModels, AttemptsOf
    <3>. QED  BY <1>0, <1>7, <3>1 DEF ReturnModels, SaidOf, TheCall
  <2>3. MayGo(r, "ended", o, "terminal")
    BY <1>0, <1>1, <1>3, <2>2, Numbers DEF MayGo, Early, OnCall, OfPool, Told
  <2>. QED  BY <1>1, <1>2, <2>1, <2>3, MoveKeeps
<1>8. CASE ReturnLlm(r)
  <2>1. \/ \E o \in Replies : Moves(r, "joining", o, said[r])
        \/ AttemptsLeft(r) /\ Moves(r, "delaying", reply[r], "progress")
    BY <1>0, <1>4, <1>5, <1>8, MovesForms DEF ReturnLlm, AllVerdicts
  <2>2. gocall[TheCall(r)] = "ended" /\ reply[r] = None
    BY <1>0, <1>8 DEF ReturnLlm, SaidOf, Told
  <2>3. \A o \in Replies : MayGo(r, "joining", o, said[r])
    BY <1>0, <1>1, <1>3, <2>2, Numbers DEF MayGo, Early, OnCall, OfPool, Told
  <2>4. AttemptsLeft(r) => MayGo(r, "delaying", reply[r], "progress")
    BY <1>0, <1>1, <1>3, <2>2, Numbers DEF MayGo, Early, OnCall, OfPool, Told, AttemptsLeft
  <2>. QED  BY <1>1, <1>2, <2>1, <2>3, <2>4, MoveKeeps
<1>9. CASE Delay(r)
  <2>1. Moves(r, "joining", "cancelled", said[r]) \/ Moves(r, "looping", reply[r], said[r])
    BY <1>0, <1>4, <1>5, <1>9, MovesForms DEF Delay, AllVerdicts
  <2>2. attempt[r] <= MaxRetries /\ reply[r] = None /\ phase[r] \notin OnCall
    BY <1>0, <1>9 DEF Delay, AttemptsOf, SaidOf, Told, OnCall
  <2>3. MayGo(r, "joining", "cancelled", said[r])
    BY <1>0, <1>1, <1>3, <2>2, Numbers DEF MayGo, Early, OnCall, OfPool, Told
  <2>4. MayGo(r, "looping", reply[r], said[r])
    BY <1>0, <1>1, <1>3, <2>2, Numbers DEF MayGo, Early, OnCall, OfPool, Told
  <2>. QED  BY <1>1, <1>2, <2>1, <2>3, <2>4, MoveKeeps
<1>10. CASE ReplyLlm(r)
  <2>1. Moves(r, "ended", reply[r], "terminal")
    BY <1>0, <1>5, <1>10, MovesForms DEF ReplyLlm
  <2>2. MayGo(r, "ended", reply[r], "terminal")
    BY <1>0, <1>1, <1>3, <1>10, Numbers DEF ReplyLlm, Joined, MayGo, Early, OnCall, OfPool, Told
  <2>. QED  BY <1>1, <1>2, <2>1, <2>2, MoveKeeps
<1>. QED  BY <1>6, <1>7, <1>8, <1>9, <1>10

\* The heartbeat.
LEMMA BeatKeeps ==
    ASSUME ReqInv, NEW r \in Req, Beat(r) \/ BeatStops(r)
    PROVE  ReqInv'
<1>0. /\ ReqType /\ AttemptsOf(r) /\ KindOf(r) /\ SaidOf(r) /\ attempt[r] \in Nat
  BY Numbers DEF ReqInv, ReqType
<1>1. /\ Still /\ attempt' = attempt /\ phase' = phase /\ reply' = reply /\ events' = events
      /\ beat[r] /\ phase[r] # "queued" /\ phase[r] \notin Told /\ ~Workspace
  BY <1>0 DEF Beat, BeatStops, Still, bridgeVars, goVars, poolVars, actorVars, queueVars,
              KindOf, SaidOf, Told
<1>2. /\ beat' \in [Req -> BOOLEAN] /\ said' \in [Req -> {"progress", "terminal"}]
      /\ \A q \in Req \ {r} : beat'[q] = beat[q] /\ said'[q] = said[q]
  BY <1>0 DEF Beat, BeatStops, ReqType
<1>3. Around(r)
  BY <1>0, <1>1, <1>2 DEF Around, Still, ReqType, ReqInv, QueueInv
<1>4. Moves(r, phase[r], reply[r], said'[r])
  BY <1>0, <1>1, <1>2 DEF Moves, ReqType
<1>5. MayGo(r, phase[r], reply[r], said'[r])
  BY <1>0, <1>1, Numbers DEF MayGo, AttemptsOf, KindOf, SaidOf
<1>. QED  BY <1>1, <1>3, <1>4, <1>5, MoveKeeps DEF Still

\* The actions that make a call.
LEMMA IssuesKeep ==
    ASSUME ReqInv, NEW r \in Req, Acquire(r) \/ HandleLlm(r) \/ Attempt(r)
    PROVE  ReqInv'
<1>0. /\ ReqType /\ AttemptsOf(r) /\ KindOf(r) /\ SaidOf(r) /\ attempt[r] \in Nat
      /\ reply[r] \in Replies /\ phase[r] \in Phases
  BY Numbers DEF ReqInv, ReqType
<1>1. phase[r] \in {"serving", "looping"} /\ reply[r] = None
  BY <1>0 DEF Acquire, HandleLlm, Attempt, SaidOf, Told
<1>2. UNCHANGED <<gocall, kind, life, shut, jobs>>
  BY DEF Acquire, HandleLlm, Attempt, goVars, queueVars, actorVars, Take
<1>3. {"ended", "calling", "listing", "looping", "joining"} \subseteq Phases
      /\ {"runtime_unavailable", "invalid_args", "count", "cancelled"} \subseteq Replies
  BY DEF Phases, Replies, AllVerdicts
<1>4. CASE Acquire(r)
  <2>1. Workspace /\ attempt[r] = 0 /\ ~beat[r] /\ attempt' = [attempt EXCEPT ![r] = 1] /\ beat' = beat
    BY <1>0, <1>4 DEF Acquire, AttemptsOf, KindOf, Early
  <2>2. /\ attempt' \in [Req -> 0 .. MaxRetries + 1] /\ attempt'[r] = 1
        /\ \A q \in Req \ {r} : attempt'[q] = attempt[q]
    BY <1>0, <2>1, Numbers DEF ReqType
  <2>3. entry' \in Bridge \cup {NoBridge} /\ events' \in 0 .. MaxEvent[kind]
    BY <1>0, <1>4, EventCounts
       DEF Acquire, AcquireLive, AcquireFresh, AcquireFails, Forget, poolVars, ReqType
  <2>4. Around(r)
    BY <1>0, <1>2, <2>1, <2>2, <2>3 DEF Around, ReqType
  <2>5. CASE at' = at /\ Post(r, "runtime_unavailable", "ended")
    <3>1. Moves(r, "ended", "runtime_unavailable", "terminal")
      BY <1>3, <2>5, MovesForms
    <3>2. Workspace /\ attempt[r] = 0 /\ attempt'[r] = 1 /\ ~beat'[r] /\ phase[r] \notin OnCall
      BY <1>1, <2>1, <2>2 DEF OnCall
    <3>3. MayGo(r, "ended", "runtime_unavailable", "terminal")
      BY <3>2, Numbers DEF MayGo, Early, OnCall, OfLlm, Told
    <3>. QED  BY <1>1, <1>2, <2>4, <2>5, <3>1, <3>3, MoveKeeps
  <2>6. ASSUME NEW b \in Bridge \cup {NoBridge}, Take(CallOf(r, 1), b), Goto(r, "calling")
        PROVE  ReqInv'
    <3>1. Moves(r, "calling", reply[r], said[r])
      BY <1>0, <1>3, <2>6, MovesForms
    <3>2. at' = [at EXCEPT ![CallOf(r, attempt[r] + 1)] = b]
      BY <2>1, <2>6, FirstAttempt DEF Take
    <3>3. attempt'[r] = attempt[r] + 1 /\ beat' = beat /\ "calling" \in OnCall
      BY <2>1, <2>2, FirstAttempt DEF OnCall
    <3>. QED  BY <1>1, <1>2, <2>4, <3>1, <3>2, <3>3, CallKeeps
  <2>. QED  BY <1>0, <1>4, <2>5, <2>6 DEF Acquire, ReqType, goVars
<1>5. CASE HandleLlm(r)
  <2>1. /\ ~Workspace /\ attempt[r] = 0 /\ ~beat[r] /\ phase[r] = "serving"
        /\ UNCHANGED <<entry, timer, expiring, events>>
    BY <1>0, <1>5 DEF HandleLlm, AttemptsOf, SaidOf, Early, Workspace, poolVars, actorVars
  <2>2. /\ entry' \in Bridge \cup {NoBridge} /\ events' \in 0 .. MaxEvent[kind]
        /\ timer' = 0 /\ expiring' = {}
    BY <1>0, <2>1 DEF ReqType, ReqInv, QueueInv
  <2>3. CASE /\ \E o \in {"invalid_args", "count"} : Post(r, o, "ended")
             /\ UNCHANGED <<attempt, beat, goVars>>
    <3>1. PICK o \in {"invalid_args", "count"} : Moves(r, "ended", o, "terminal")
      BY <1>3, <2>3, MovesForms
    <3>2. /\ ~Workspace /\ attempt[r] = 0 /\ attempt'[r] = 0 /\ ~beat'[r]
          /\ phase[r] \notin OnCall /\ at' = at
      BY <2>1, <2>3 DEF OnCall, goVars
    <3>3. MayGo(r, "ended", o, "terminal")
      BY <3>2, Numbers DEF MayGo, Early, OnCall, OfPool, Told
    <3>4. Around(r)
      BY <1>0, <1>2, <2>2, <2>3 DEF Around, ReqType
    <3>. QED  BY <1>1, <1>2, <3>1, <3>2, <3>3, <3>4, MoveKeeps
  <2>4. CASE /\ Goto(r, "looping") /\ beat' = [beat EXCEPT ![r] = TRUE]
             /\ UNCHANGED <<attempt, goVars>>
    <3>1. Moves(r, "looping", reply[r], said[r])
      BY <1>0, <1>3, <2>4, MovesForms
    <3>2. MayGo(r, "looping", reply[r], said[r])
      BY <1>1, <2>1, <2>4, Numbers DEF MayGo, Early, OnCall, OfPool, Told
    <3>3. beat' \in [Req -> BOOLEAN] /\ \A q \in Req \ {r} : beat'[q] = beat[q]
      BY <1>0, <2>4 DEF ReqType
    <3>4. Around(r)
      BY <1>0, <1>2, <2>2, <2>4, <3>3 DEF Around, ReqType
    <3>. QED  BY <1>1, <1>2, <2>4, <3>1, <3>2, <3>4, MoveKeeps DEF goVars
  <2>5. CASE /\ Goto(r, "listing") /\ attempt' = [attempt EXCEPT ![r] = 1]
             /\ Take(CallOf(r, 1), entry) /\ beat' = beat
    <3>1. Moves(r, "listing", reply[r], said[r])
      BY <1>0, <1>3, <2>5, MovesForms
    <3>2. at' = [at EXCEPT ![CallOf(r, attempt[r] + 1)] = entry]
      <4>1. attempt[r] + 1 = 1
        BY <2>1, FirstAttempt
      <4>. QED  BY <2>5, <4>1 DEF Take
    <3>3. /\ attempt' \in [Req -> 0 .. MaxRetries + 1] /\ attempt'[r] = 1
          /\ \A q \in Req \ {r} : attempt'[q] = attempt[q]
      BY <1>0, <2>5, Numbers DEF ReqType
    <3>4. Around(r) /\ entry \in Bridge \cup {NoBridge}
      BY <1>0, <1>2, <2>2, <2>5, <3>3 DEF Around, ReqType
    <3>5. /\ attempt'[r] = attempt[r] + 1 /\ beat' = beat /\ ~(Workspace \/ beat[r])
          /\ phase[r] = "serving" /\ "listing" \in OnCall
      BY <2>1, <2>5, <3>3, FirstAttempt DEF OnCall
    <3>. QED  BY <1>2, <3>1, <3>2, <3>4, <3>5, CallKeeps
  <2>. QED  BY <1>5, <2>3, <2>4, <2>5 DEF HandleLlm
<1>6. CASE Attempt(r)
  <2>1. /\ ~Workspace /\ attempt[r] <= MaxRetries /\ phase[r] = "looping" /\ beat' = beat
        /\ UNCHANGED <<entry, timer, expiring, events>>
    BY <1>0, <1>6 DEF Attempt, AttemptsOf, KindOf, OfLlm, poolVars, actorVars
  <2>2. /\ entry' \in Bridge \cup {NoBridge} /\ events' \in 0 .. MaxEvent[kind]
        /\ timer' = 0 /\ expiring' = {}
    BY <1>0, <2>1 DEF ReqType, ReqInv, QueueInv
  <2>3. CASE Join(r, "cancelled") /\ UNCHANGED <<attempt, goVars>>
    <3>1. Moves(r, "joining", "cancelled", said[r])
      BY <1>0, <1>3, <2>3, MovesForms
    <3>2. MayGo(r, "joining", "cancelled", said[r])
      BY <1>0, <2>1, <2>3, Numbers DEF MayGo, Early, OnCall, OfPool, Told
    <3>3. Around(r)
      BY <1>0, <1>2, <2>1, <2>2, <2>3 DEF Around, ReqType
    <3>. QED  BY <1>1, <1>2, <2>3, <3>1, <3>2, <3>3, MoveKeeps DEF goVars
  <2>4. CASE /\ attempt' = [attempt EXCEPT ![r] = @ + 1]
             /\ Take(CallOf(r, attempt[r] + 1), entry) /\ Tell(r, "calling")
    <3>1. Moves(r, "calling", reply[r], "progress")
      BY <1>0, <1>3, <2>4, MovesForms
    <3>2. at' = [at EXCEPT ![CallOf(r, attempt[r] + 1)] = entry]
      BY <2>4 DEF Take
    <3>3. /\ attempt' \in [Req -> 0 .. MaxRetries + 1] /\ attempt'[r] = attempt[r] + 1
          /\ \A q \in Req \ {r} : attempt'[q] = attempt[q]
      BY <1>0, <2>1, <2>4, Numbers DEF ReqType
    <3>4. Around(r) /\ entry \in Bridge \cup {NoBridge}
      BY <1>0, <1>2, <2>1, <2>2, <3>3 DEF Around, ReqType
    <3>. QED  BY <1>1, <1>2, <2>1, <3>1, <3>2, <3>3, <3>4, CallKeeps DEF OnCall
  <2>. QED  BY <1>6, <2>3, <2>4 DEF Attempt
<1>. QED  BY <1>4, <1>5, <1>6

\* The queue of pi-workspace.
LEMMA QueueKeeps ==
    ASSUME ReqInv, PopJob \/ \E r \in Req : RecvWorkspace(r)
    PROVE  ReqInv'
<1>0. ReqType /\ QueueInv /\ jobs \in Seq(Req)
  BY DEF ReqInv, ReqType
<1>1. {"ended", "queued", "popped"} \subseteq Phases /\ {"cancelled", "capacity"} \subseteq Replies
  BY DEF Phases, Replies, AllVerdicts
<1>2. UNCHANGED <<gocall, at, kind, life, shut, entry, timer, expiring, attempt, beat, events>>
  BY DEF PopJob, RecvWorkspace, bridgeVars, goVars, poolVars, actorVars
<1>3. ASSUME NEW r \in Req, jobs' \in Seq(Req) PROVE Around(r)
  BY <1>0, <1>2, <1>3 DEF Around, ReqType, QueueInv
<1>4. ASSUME NEW r \in Req, RecvWorkspace(r) PROVE ReqInv'
  <2>0. AttemptsOf(r) /\ SaidOf(r) /\ KindOf(r) /\ attempt[r] \in Nat /\ reply[r] \in Replies
    BY <1>0, Numbers DEF ReqInv, ReqType
  <2>1. /\ Workspace /\ attempt'[r] = 0 /\ attempt[r] = 0 /\ ~beat'[r]
        /\ phase[r] = "new" /\ phase[r] \notin OnCall /\ reply[r] = None
    BY <1>2, <1>4, <2>0 DEF RecvWorkspace, AttemptsOf, SaidOf, KindOf, Early, OnCall, Told
  <2>2. CASE jobs' = jobs /\ \E o \in {"cancelled", "capacity"} : Post(r, o, "ended")
    <3>1. PICK o \in {"cancelled", "capacity"} : Moves(r, "ended", o, "terminal")
      BY <1>1, <2>2, MovesForms
    <3>2. MayGo(r, "ended", o, "terminal")
      BY <2>1, Numbers DEF MayGo, Early, OnCall, OfLlm, Told
    <3>. QED  BY <1>0, <1>2, <1>3, <2>1, <2>2, <3>1, <3>2, MoveKeeps
  <2>3. CASE jobs' = Append(jobs, r) /\ Goto(r, "queued")
    <3>1. Moves(r, "queued", reply[r], said[r])
      BY <1>1, <2>0, <2>3, MovesForms
    <3>2. MayGo(r, "queued", reply[r], said[r])
      BY <2>1, Numbers DEF MayGo, Early, OnCall, OfLlm, Told
    <3>3. Around(r)
      BY <1>0, <1>3, <2>3, AppendOf
    <3>4. ReqType' /\ ReqOK(r)' /\ OnlyReq(r)
      BY <1>2, <3>1, <3>2, <3>3, MovedOK
    <3>5. QueueInv'
      <4>1. ASSUME NEW i \in 1 .. Len(jobs)
            PROVE  jobs[i] # r /\ jobs[i] \in Req /\ phase'[jobs[i]] = "queued"
        <5>1. jobs[i] \in Req
          BY <1>0, Elements
        <5>2. phase[jobs[i]] = "queued"
          BY <1>0 DEF QueueInv
        <5>. QED  BY <2>1, <3>4, <5>1, <5>2 DEF OnlyReq
      <4>2. IsAppend(jobs', jobs, r)
        BY <1>0, <2>3, AppendOf
      <4>3. phase'[r] = "queued" /\ Workspace'
        BY <1>2, <2>1, <3>1 DEF Moves, Workspace
      <4>4. ASSUME NEW i \in 1 .. Len(jobs') PROVE phase'[jobs'[i]] = "queued"
        BY <4>1, <4>2, <4>3 DEF IsAppend
      <4>5. ASSUME NEW i \in 1 .. Len(jobs'), NEW j \in 1 .. Len(jobs'), jobs'[i] = jobs'[j] PROVE i = j
        <5>1. jobs'[Len(jobs')] = r
          BY <4>2 DEF IsAppend
        <5>2. ASSUME NEW k \in 1 .. Len(jobs'), k # Len(jobs')
              PROVE  k \in 1 .. Len(jobs) /\ jobs'[k] = jobs[k] /\ jobs'[k] # r
          BY <4>1, <4>2, <5>2 DEF IsAppend
        <5>. QED  BY <1>0, <4>5, <5>1, <5>2 DEF QueueInv
      <4>. QED  BY <4>3, <4>4, <4>5 DEF QueueInv
    <3>6. \A q \in Req : ReqOK(q)'
      BY <3>4, OthersKeep
    <3>. QED  BY <3>4, <3>5, <3>6 DEF ReqInv, ReqOK
  <2>. QED  BY <1>4, <2>2, <2>3 DEF RecvWorkspace, queueVars
<1>5. CASE PopJob
  <2>r. PICK r : r = Head(jobs)
    OBVIOUS
  <2>1. /\ jobs # <<>> /\ r \in Req /\ r = jobs[1] /\ jobs' = Tail(jobs) /\ Goto(r, "popped")
        /\ phase[r] = "queued" /\ jobs' \in Seq(Req)
    <3>1. jobs # <<>> /\ jobs' = Tail(jobs) /\ Goto(r, "popped")
      BY <1>5, <2>r DEF PopJob
    <3>2. 1 \in 1 .. Len(jobs) /\ Head(jobs) = jobs[1] /\ jobs[1] \in Req /\ Tail(jobs) \in Seq(Req)
      BY <1>0, <3>1, Elements, TailOf
    <3>. QED  BY <1>0, <2>r, <3>1, <3>2 DEF QueueInv
  <2>2. AttemptsOf(r) /\ SaidOf(r) /\ KindOf(r) /\ attempt[r] \in Nat /\ reply[r] \in Replies
    BY <1>0, <2>1, Numbers DEF ReqInv, ReqType
  <2>3. /\ Workspace /\ attempt'[r] = 0 /\ attempt[r] = 0 /\ ~beat'[r]
        /\ phase[r] \notin OnCall /\ reply[r] = None
    BY <1>2, <2>1, <2>2 DEF AttemptsOf, SaidOf, KindOf, Early, OnCall, Told, OfPool
  <2>4. Moves(r, "popped", reply[r], said[r])
    BY <1>1, <2>1, <2>2, MovesForms
  <2>5. MayGo(r, "popped", reply[r], said[r])
    BY <2>3, Numbers DEF MayGo, Early, OnCall, OfLlm, Told
  <2>6. Around(r)
    BY <1>3, <2>1
  <2>7. ReqType' /\ ReqOK(r)' /\ OnlyReq(r)
    BY <1>2, <2>1, <2>4, <2>5, <2>6, MovedOK
  <2>8. QueueInv'
    <3>1. IsTail(jobs', jobs)
      BY <1>0, <2>1, TailOf
    <3>2. \A i \in 1 .. Len(jobs') : jobs'[i] = jobs[i + 1] /\ i + 1 \in 1 .. Len(jobs) /\ jobs[i + 1] # r
      BY <1>0, <2>1, <3>1 DEF QueueInv, IsTail
    <3>3. \A i \in 1 .. Len(jobs) : jobs[i] \in Req
      BY <1>0, Elements
    <3>4. ASSUME NEW i \in 1 .. Len(jobs') PROVE phase'[jobs'[i]] = "queued"
      <4>1. phase[jobs[i + 1]] = "queued" /\ jobs[i + 1] \in Req \ {r}
        BY <1>0, <3>2, <3>3 DEF QueueInv
      <4>. QED  BY <2>7, <3>2, <4>1 DEF OnlyReq
    <3>5. ASSUME NEW i \in 1 .. Len(jobs'), NEW j \in 1 .. Len(jobs'), jobs'[i] = jobs'[j] PROVE i = j
      <4>1. i + 1 = j + 1
        BY <1>0, <3>2, <3>5 DEF QueueInv
      <4>. QED  BY <3>1, <4>1 DEF IsTail
    <3>6. Workspace'
      BY <1>2, <2>3 DEF Workspace
    <3>. QED  BY <3>4, <3>5, <3>6 DEF QueueInv
  <2>9. \A q \in Req : ReqOK(q)'
    BY <2>1, <2>7, OthersKeep
  <2>. QED  BY <2>7, <2>8, <2>9 DEF ReqInv, ReqOK
<1>. QED  BY <1>4, <1>5

\* The actions that move no request.
LEMMA LifeKeeps ==
    ASSUME ReqInv, Stop \/ Gone \/ StartLlm \/ TimerFires
                   \/ (\E r \in Req : Cancel(r)) \/ \E b \in Bridge, g \in 1 .. Cardinality(Req) + 1 : Expire(b, g)
    PROVE  ReqInv'
<1>0. ReqType /\ (~Workspace => timer = 0 /\ expiring = {})
  BY DEF ReqInv, QueueInv
<1>1. UNCHANGED <<phase, reply, attempt, beat, jobs, kind, at, gocall, said>>
  BY DEF Stop, Gone, StartLlm, TimerFires, Cancel, Expire, bridgeVars, goVars, reqVars, queueVars,
         actorVars
<1>2. events' \in 0 .. MaxEvent[kind]
  BY <1>0, EventCounts DEF Stop, Gone, StartLlm, TimerFires, Cancel, Expire, actorVars, ReqType
<1>3. entry' \in Bridge \cup {NoBridge} /\ shut' \in Bridge \cup {NoBridge}
  BY <1>0 DEF Stop, Gone, StartLlm, TimerFires, Cancel, Expire, actorVars, poolVars, ReqType
<1>4. life' \in {"starting", "serving", "closing", "gone"}
  BY <1>0 DEF Stop, Gone, StartLlm, TimerFires, Cancel, Expire, actorVars, ReqType
<1>5. ~Workspace => timer' = 0 /\ expiring' = {}
  BY <1>0 DEF Stop, Gone, StartLlm, TimerFires, Cancel, Expire, poolVars
<1>6. Carries
  BY <1>1, <1>2, <1>3, <1>4, <1>5 DEF Carries
<1>. QED  BY <1>6, CarriesKeeps

\* Nothing has been asked at the start.
LEMMA ReqInit == Init => ReqInv
<1>. SUFFICES ASSUME Init PROVE ReqInv
  OBVIOUS
<1>1. ReqType
  <2>1. MaxEvent[kind] \in Nat /\ kind \in Kinds
    BY PiAssumption DEF Init
  <2>2. reply \in [Req -> Replies] /\ phase \in [Req -> Phases] /\ attempt \in [Req -> 0 .. MaxRetries + 1]
    BY Numbers DEF Init, Replies, Phases
  <2>3. events \in 0 .. MaxEvent[kind] /\ jobs \in Seq(Req)
    BY <2>1, Nothing, Bounds DEF Init
  <2>. QED  BY <2>1, <2>2, <2>3 DEF Init, BridgeInit, ReqType
<1>2. QueueInv
  BY Nothing DEF Init, QueueInv
<1>3. ASSUME NEW r \in Req PROVE AttemptsOf(r) /\ OpenOf(r) /\ KindOf(r) /\ SaidOf(r)
  <2>1. /\ phase[r] = "new" /\ reply[r] = None /\ attempt[r] = 0 /\ ~beat[r]
        /\ \A n \in 1 .. MaxRetries + 1 : /\ at[CallOf(r, n)] = NoBridge
                                          /\ gocall[CallOf(r, n)] = "idle"
    BY CallFacts DEF Init, BridgeInit
  <2>. QED  BY <2>1, Numbers DEF AttemptsOf, OpenOf, KindOf, SaidOf, Early, OnCall, OfLlm, OfPool, Told
<1>. QED  BY <1>1, <1>2, <1>3 DEF ReqInv

\* Every step keeps what is known of the requests.
LEMMA ReqStepKeeps == ReqInv /\ [Next]_vars => ReqInv'
<1>1. CASE ReqInv /\ Next
  <2>1. ASSUME NEW r \in Req, ReqActs(r) PROVE ReqInv'
    BY <1>1, <2>1, WorkspaceKeeps, LlmKeeps, BeatKeeps, IssuesKeep, QueueKeeps, LifeKeeps
       DEF ReqActs, ReqStep
  <2>2. CASE ActorStep \/ Stop
    BY <1>1, <2>2, QueueKeeps, LifeKeeps DEF ActorStep
  <2>. QED  BY <1>1, <2>1, <2>2, NextSplits, OwnKeeps
<1>2. CASE ReqInv /\ UNCHANGED vars
  <2>1. Carries
    BY <1>2 DEF ReqInv, ReqType, QueueInv, Carries, vars, bridgeVars, goVars, reqVars, queueVars, poolVars, actorVars
  <2>. QED  BY <1>2, <2>1, CarriesKeeps
<1>. QED  BY <1>1, <1>2

\* What is known of the requests holds in every behaviour.
THEOREM ReqInvariant == Spec => []ReqInv
  BY ReqInit, ReqStepKeeps, PTL DEF Spec

-----------------------------------------------------------------------------
(* Calls: the inductive invariant, proved with the help of the one before *)

Line == [kind : {"request", "cancel"}, call : Call]
Note == [kind : Verdict \cup {"progress"}, call : Call]

BridgeType ==
    /\ proc \in [Bridge -> {"none", "up", "dead"}]
    /\ stdin \in [Bridge -> BOOLEAN] /\ done \in [Bridge -> BOOLEAN]
    /\ env \in [Bridge -> Call \cup {Launch}]
    /\ ctx \in [Call -> BOOLEAN] /\ aborted \in [Call -> BOOLEAN]
    /\ node \in [Call -> {"none", "queued", "running", "ended"}]
    /\ saved \in [Call -> Call \cup {Launch}]
    /\ toNode \in [Bridge -> Seq(Line)] /\ toGo \in [Bridge -> Seq(Note)]
    /\ tail \in [Bridge -> Seq(Call)]
    /\ late \in [Call -> Verdict \cup {None}]
    /\ frames \in [Call -> Seq(Verdict \cup {"progress"})]
    /\ answer \in [Call -> Verdict \cup Local \cup {None}]
    /\ settled \in [Call -> Verdict \cup {None}]

\* What may be said of a call: progress, or what Node has settled it with.
Sayable(k, c) == k = "progress" \/ (k = settled[c] /\ k # None)

\* A call is answered when it has returned, and Node has settled it when it is
\* no longer active; what is on its way to the caller is Node's own word.
CallOK(c) ==
    /\ gocall[c] # "ended" => answer[c] = None
    /\ answer[c] \in Local \cup {None, settled[c]}
    /\ gocall[c] = "ended" => answer[c] # None
    /\ node[c] # "ended" => settled[c] = None
    /\ node[c] # "none" => gocall[c] # "idle"
    /\ late[c] # None => Sayable(late[c], c) /\ late[c] # "progress"
    /\ \A i \in 1 .. Len(frames[c]) : Sayable(frames[c][i], c)

IsRequest(b, i) == i \in 1 .. Len(toNode[b]) /\ toNode[b][i].kind = "request"

\* Frames on their way to the caller are Node's own word too.
GoOK(b) == \A i \in 1 .. Len(toGo[b]) : Sayable(toGo[b][i].kind, toGo[b][i].call)

\* A request is on the way to Node once, on its own bridge, and not yet there.
NodeOK(b) ==
    /\ \A i \in 1 .. Len(toNode[b]) : IsRequest(b, i) =>
          LET c == toNode[b][i].call IN at[c] = b /\ gocall[c] # "idle" /\ node[c] = "none"
    /\ \A i, j \in 1 .. Len(toNode[b]) :
          IsRequest(b, i) /\ IsRequest(b, j) /\ toNode[b][i].call = toNode[b][j].call => i = j

CallInv ==
    /\ BridgeType
    /\ \A c \in Call : CallOK(c)
    /\ \A b \in Bridge : GoOK(b) /\ NodeOK(b)

-----------------------------------------------------------------------------
(* Calls: what the actors do to the bridge *)

\* A step of an actor: it may take a bridge for a call of its own, start a child
\* or close the stdin of one.
Uses ==
    /\ UNCHANGED <<nodeVars, pipeVars, gocall, frames, late, answer, done>>
    /\ ctx' \in [Call -> BOOLEAN]
    /\ \/ at' = at
       \/ \E c \in Call, b \in Bridge \cup {NoBridge} :
             at[c] = NoBridge /\ at' = [at EXCEPT ![c] = b]
    /\ \/ proc' = proc \/ \E b \in Bridge : proc[b] = "none" /\ proc' = [proc EXCEPT ![b] = "up"]
    /\ \/ stdin' = stdin \/ \E b : stdin' = [stdin EXCEPT ![b] = FALSE]

\* A step that leaves the bridge alone is a use of it.
LEMMA QuietUses ==
    ASSUME BridgeType, UNCHANGED bridgeVars
    PROVE  Uses
  BY DEF Uses, bridgeVars, goVars, nodeVars, childVars, pipeVars, BridgeType

\* So is every step of the actors: they issue calls, take their ends and close children.
LEMMA ActorUses ==
    ASSUME ReqInv, BridgeType, (\E r \in Req : ReqActs(r)) \/ ActorStep \/ Stop
    PROVE  Uses
<1>0. ctx \in [Call -> BOOLEAN]
  BY DEF BridgeType
<1>1. ASSUME NEW r \in Req, ReqActs(r) PROVE Uses
  <2>0. AttemptsOf(r) /\ attempt[r] \in Nat /\ attempt[r] \in 0 .. MaxRetries + 1
    BY Numbers DEF ReqInv, ReqType
  <2>1. CASE \/ PopToken(r) \/ Closed(r) \/ ReturnModels(r) \/ ReturnLlm(r) \/ Delay(r)
             \/ BeatStops(r) \/ ReplyLlm(r) \/ RecvWorkspace(r) \/ RecvLlm(r) \/ Refuse(r) \/ Beat(r)
    <3>1. UNCHANGED bridgeVars
      BY <2>1 DEF PopToken, Closed, ReturnModels, ReturnLlm, Delay, BeatStops, ReplyLlm,
                  RecvWorkspace, RecvLlm, Refuse, Beat
    <3>. QED  BY <3>1, QuietUses
  <2>2. CASE ReturnWorkspace(r) \/ Release(r)
    <3>1. UNCHANGED <<goVars, nodeVars, pipeVars>>
      BY <2>2 DEF ReturnWorkspace, Release
    <3>2. UNCHANGED childVars \/ \E b : CloseStdin(b)
      BY <2>2 DEF ReturnWorkspace, Release, Discard
    <3>. QED  BY <1>0, <3>1, <3>2 DEF Uses, CloseStdin, childVars, goVars
  <2>3. CASE Cancel(r)
    <3>1. UNCHANGED <<at, gocall, frames, late, answer, nodeVars, childVars, pipeVars>>
      BY <2>3 DEF Cancel
    <3>2. ctx' \in [Call -> BOOLEAN]
      BY <1>0, <2>3 DEF Cancel
    <3>. QED  BY <3>1, <3>2 DEF Uses, childVars
  <2>4. CASE Acquire(r)
    <3>1. at[CallOf(r, 1)] = NoBridge /\ CallOf(r, 1) \in Call
      <4>1. attempt[r] = 0
        BY <2>0, <2>4 DEF Acquire, AttemptsOf, Early
      <4>. QED  BY <2>0, <4>1, FirstAttempt, CallFacts, Numbers DEF AttemptsOf
    <3>2. entry \in Bridge \cup {NoBridge}
      BY DEF ReqInv, ReqType
    <3>3. UNCHANGED <<nodeVars, pipeVars>>
      BY <2>4 DEF Acquire
    <3>4. CASE UNCHANGED <<goVars, childVars>>
      BY <1>0, <3>3, <3>4 DEF Uses, goVars, childVars
    <3>5. CASE Take(CallOf(r, 1), entry) /\ UNCHANGED childVars
      BY <1>0, <3>1, <3>2, <3>3, <3>5 DEF Uses, Take, childVars
    <3>6. ASSUME NEW b \in Bridge, Start(b), Take(CallOf(r, 1), b) PROVE Uses
      BY <1>0, <3>1, <3>3, <3>6 DEF Uses, Take, Start
    <3>. QED  BY <2>4, <3>4, <3>5, <3>6 DEF Acquire
  <2>5. CASE HandleLlm(r) \/ Attempt(r)
    <3>1. entry \in Bridge \cup {NoBridge}
      BY DEF ReqInv, ReqType
    <3>2. UNCHANGED <<nodeVars, pipeVars, childVars>>
      BY <2>5 DEF HandleLlm, Attempt
    <3>3. CASE UNCHANGED goVars
      BY <1>0, <3>2, <3>3 DEF Uses, goVars, childVars
    <3>4. ASSUME NEW n \in 1 .. MaxRetries + 1, at[CallOf(r, n)] = NoBridge, Take(CallOf(r, n), entry)
          PROVE  Uses
      <4>1. CallOf(r, n) \in Call
        BY CallFacts
      <4>. QED  BY <1>0, <3>1, <3>2, <3>4, <4>1 DEF Uses, Take, childVars
    <3>5. CASE HandleLlm(r) /\ Take(CallOf(r, 1), entry)
      <4>1. 1 \in 1 .. MaxRetries + 1 /\ at[CallOf(r, 1)] = NoBridge
        <5>1. attempt[r] = 0
          BY <2>0, <3>5 DEF HandleLlm, AttemptsOf, Early
        <5>. QED  BY <2>0, <5>1, FirstAttempt, Numbers DEF AttemptsOf
      <4>. QED  BY <3>4, <3>5, <4>1
    <3>6. CASE Attempt(r) /\ Take(CallOf(r, attempt[r] + 1), entry)
      <4>1. attempt[r] + 1 \in 1 .. MaxRetries + 1
        BY <2>0, <3>6, Numbers DEF Attempt, AttemptsOf
      <4>2. at[CallOf(r, attempt[r] + 1)] = NoBridge
        BY <2>0, <4>1, Later DEF AttemptsOf
      <4>. QED  BY <3>4, <3>6, <4>1, <4>2
    <3>. QED  BY <2>5, <3>3, <3>5, <3>6 DEF HandleLlm, Attempt
  <2>. QED  BY <1>1, <2>1, <2>2, <2>3, <2>4, <2>5 DEF ReqActs, ReqStep
<1>2. CASE PopJob \/ TimerFires \/ Gone
  <2>1. UNCHANGED bridgeVars
    BY <1>2 DEF PopJob, TimerFires, Gone
  <2>. QED  BY <2>1, QuietUses
<1>3. CASE StartLlm \/ Stop \/ \E b \in Bridge, g \in 1 .. Cardinality(Req) + 1 : Expire(b, g)
  <2>1. UNCHANGED <<goVars, nodeVars, pipeVars>>
    BY <1>3 DEF StartLlm, Stop, Expire
  <2>2. UNCHANGED childVars \/ (\E b \in Bridge : Start(b)) \/ \E b : CloseStdin(b)
    BY <1>3 DEF StartLlm, Stop, Expire, Shut
  <2>. QED  BY <1>0, <2>1, <2>2 DEF Uses, Start, CloseStdin, childVars, goVars
<1>. QED  BY <1>1, <1>2, <1>3 DEF ActorStep

-----------------------------------------------------------------------------
(* Calls: what the bridge does to them *)

\* What was settled stays settled.
Keeps == \A c \in Call : settled[c] # None => settled'[c] = settled[c]

\* Nothing has changed for the call c.
SameCall(c) ==
    /\ gocall'[c] = gocall[c] /\ answer'[c] = answer[c] /\ settled'[c] = settled[c]
    /\ node'[c] = node[c] /\ late'[c] = late[c] /\ frames'[c] = frames[c]

\* A call none of whose state moves stays well.
LEMMA SameKeeps ==
    ASSUME NEW c \in Call, CallOK(c), SameCall(c)
    PROVE  CallOK(c)'
  BY DEF CallOK, SameCall, Sayable

\* What is on the way to the caller was on the way before.
LEMMA GoKeeps ==
    ASSUME NEW b \in Bridge, BridgeType, GoOK(b), Keeps,
           \A i \in 1 .. Len(toGo'[b]) : \E j \in 1 .. Len(toGo[b]) : toGo'[b][i] = toGo[b][j]
    PROVE  GoOK(b)'
<1>0. toGo[b] \in Seq(Note)
  BY DEF BridgeType
<1>1. \A j \in 1 .. Len(toGo[b]) : toGo[b][j].call \in Call
  <2>1. \A j \in 1 .. Len(toGo[b]) : toGo[b][j] \in Note
    BY <1>0, Elements
  <2>. QED  BY <2>1 DEF Note
<1>2. ASSUME NEW i \in 1 .. Len(toGo'[b])
      PROVE  LET f == toGo'[b][i] IN f.kind = "progress" \/ (f.kind = settled'[f.call] /\ f.kind # None)
  <2>1. PICK j \in 1 .. Len(toGo[b]) : toGo'[b][i] = toGo[b][j]
    OBVIOUS
  <2>2. Sayable(toGo[b][j].kind, toGo[b][j].call) /\ toGo[b][j].call \in Call
    BY <1>1 DEF GoOK
  <2>. QED  BY <2>1, <2>2 DEF Keeps, Sayable
<1>. QED  BY <1>2 DEF GoOK, Sayable

\* The requests on the way to Node were on the way before, in the same place.
LEMMA NodeKeeps ==
    ASSUME NEW b \in Bridge, BridgeType, NodeOK(b),
           \A i \in 1 .. Len(toNode'[b]) : toNode'[b][i].kind = "request" =>
               i \in 1 .. Len(toNode[b]) /\ toNode'[b][i] = toNode[b][i],
           \A c \in Call : /\ at[c] = b => at'[c] = b
                           /\ gocall[c] # "idle" => gocall'[c] # "idle"
                           /\ node[c] = "none" /\ gocall[c] # "idle" => node'[c] = "none"
    PROVE  NodeOK(b)'
<1>0. toNode[b] \in Seq(Line)
  BY DEF BridgeType
<1>1. \A j \in 1 .. Len(toNode[b]) : toNode[b][j].call \in Call
  <2>1. \A j \in 1 .. Len(toNode[b]) : toNode[b][j] \in Line
    BY <1>0, Elements
  <2>. QED  BY <2>1 DEF Line
<1>2. \A i \in 1 .. Len(toNode'[b]) : toNode'[b][i].kind = "request" => IsRequest(b, i)
  BY DEF IsRequest
<1>3. ASSUME NEW i \in 1 .. Len(toNode'[b]), toNode'[b][i].kind = "request"
      PROVE  LET c == toNode'[b][i].call IN at'[c] = b /\ gocall'[c] # "idle" /\ node'[c] = "none"
  <2>1. i \in 1 .. Len(toNode[b]) /\ toNode'[b][i] = toNode[b][i] /\ IsRequest(b, i)
    BY <1>2, <1>3
  <2>2. LET c == toNode[b][i].call IN
           c \in Call /\ at[c] = b /\ gocall[c] # "idle" /\ node[c] = "none"
    BY <1>1, <2>1 DEF NodeOK
  <2>. QED  BY <2>1, <2>2
<1>4. \A i, j \in 1 .. Len(toNode'[b]) :
          toNode'[b][i].kind = "request" /\ toNode'[b][j].kind = "request"
              /\ toNode'[b][i].call = toNode'[b][j].call => i = j
  <2>. SUFFICES ASSUME NEW i \in 1 .. Len(toNode'[b]), NEW j \in 1 .. Len(toNode'[b]),
                       toNode'[b][i].kind = "request", toNode'[b][j].kind = "request",
                       toNode'[b][i].call = toNode'[b][j].call
                PROVE  i = j
    OBVIOUS
  <2>1. IsRequest(b, i) /\ IsRequest(b, j) /\ toNode[b][i].call = toNode[b][j].call
    BY <1>2
  <2>. QED  BY <2>1 DEF NodeOK, IsRequest
<1>. QED  BY <1>3, <1>4 DEF NodeOK, IsRequest

\* An actor's step changes nothing of the calls.
LEMMA UsesKeep ==
    ASSUME CallInv, ReqType, Uses
    PROVE  CallInv'
<1>0. /\ BridgeType /\ at \in [Call -> Bridge \cup {NoBridge}]
      /\ UNCHANGED <<nodeVars, pipeVars, gocall, frames, late, answer, done>>
  BY DEF CallInv, Uses, ReqType
<1>1. \A c \in Call : SameCall(c)
  BY <1>0 DEF SameCall, nodeVars
<1>2. \A c \in Call : at[c] # NoBridge => at'[c] = at[c]
  BY <1>0 DEF Uses
<1>3. BridgeType'
  <2>1. proc' \in [Bridge -> {"none", "up", "dead"}] /\ stdin' \in [Bridge -> BOOLEAN]
    BY <1>0 DEF Uses, BridgeType
  <2>2. ctx' \in [Call -> BOOLEAN]
    BY DEF Uses
  <2>. QED  BY <1>0, <2>1, <2>2 DEF BridgeType, nodeVars, pipeVars
<1>4. \A b \in Bridge : GoOK(b)'
  BY <1>0 DEF CallInv, GoOK, Sayable, nodeVars, pipeVars
<1>5. ASSUME NEW b \in Bridge PROVE NodeOK(b)'
  <2>1. NodeOK(b) /\ b # NoBridge /\ toNode' = toNode /\ node' = node
    BY <1>0, PiAssumption DEF CallInv, nodeVars, pipeVars
  <2>. QED  BY <1>0, <1>2, <2>1, NodeKeeps
<1>6. \A c \in Call : CallOK(c)'
  BY <1>1, SameKeeps DEF CallInv
<1>. QED  BY <1>3, <1>4, <1>5, <1>6 DEF CallInv

\* A call returns, with an outcome of its own or with what Node settled it with.
Returns(c) ==
    /\ gocall[c] # "ended"
    /\ \E o \in Local \cup {settled[c]} : o # None /\ Ends(c, o)
    /\ \/ toNode' = toNode
       \/ \E b \in Bridge : toNode' = [toNode EXCEPT ![b] = Append(@, Frame("cancel", c))]
    /\ UNCHANGED <<at, ctx, toGo, nodeVars, childVars>>

\* A return takes the call's outcome once, and it is what Node settled or a local one.
LEMMA ReturnsKeep ==
    ASSUME CallInv, ReqType, NEW c \in Call, Returns(c)
    PROVE  CallInv'
<1>0. /\ BridgeType /\ gocall \in [Call -> {"idle", "waiting", "ended"}]
      /\ UNCHANGED <<at, ctx, toGo, nodeVars, childVars>>
  BY DEF CallInv, Returns, ReqType
<1>1. PICK o \in Local \cup {settled[c]} : o # None /\ Ends(c, o)
  BY DEF Returns
<1>2. /\ gocall'[c] = "ended" /\ answer'[c] = o /\ frames'[c] = <<>> /\ late'[c] = None
      /\ \A d \in Call \ {c} : SameCall(d)
  BY <1>0, <1>1 DEF Ends, SameCall, BridgeType, nodeVars
<1>3. BridgeType'
  <2>1. toNode' \in [Bridge -> Seq(Line)]
    <3>1. Frame("cancel", c) \in Line
      BY DEF Frame, Line
    <3>2. toNode \in [Bridge -> Seq(Line)]
      BY <1>0 DEF BridgeType
    <3>3. ASSUME NEW b \in Bridge PROVE Append(toNode[b], Frame("cancel", c)) \in Seq(Line)
      BY <3>1, <3>2, AppendOf
    <3>. QED  BY <3>2, <3>3 DEF Returns
  <2>2. o \in Verdict \cup Local \cup {None}
    BY <1>0 DEF BridgeType
  <2>3. /\ answer' \in [Call -> Verdict \cup Local \cup {None}]
        /\ frames' \in [Call -> Seq(Verdict \cup {"progress"})]
        /\ late' \in [Call -> Verdict \cup {None}]
    BY <1>0, <1>1, <2>2, Nothing DEF BridgeType, Ends
  <2>. QED  BY <1>0, <2>1, <2>3 DEF BridgeType, nodeVars, childVars
<1>4. \A b \in Bridge : GoOK(b)'
  BY <1>0 DEF CallInv, GoOK, Sayable, nodeVars
<1>5. ASSUME NEW b \in Bridge PROVE NodeOK(b)'
  <2>1. \A i \in 1 .. Len(toNode'[b]) : toNode'[b][i].kind = "request" =>
            i \in 1 .. Len(toNode[b]) /\ toNode'[b][i] = toNode[b][i]
    <3>1. toNode \in [Bridge -> Seq(Line)]
      BY <1>0 DEF BridgeType
    <3>2. CASE toNode'[b] = toNode[b]
      BY <3>2
    <3>3. CASE toNode'[b] = Append(toNode[b], Frame("cancel", c))
      <4>1. toNode[b] \in Seq(Line) /\ Frame("cancel", c).kind = "cancel" /\ Frame("cancel", c) \in Line
        BY <3>1 DEF Frame, Line
      <4>2. IsAppend(toNode'[b], toNode[b], Frame("cancel", c))
        BY <3>3, <4>1, AppendOf
      <4>. QED  BY <4>1, <4>2 DEF IsAppend
    <3>. QED  BY <3>1, <3>2, <3>3 DEF Returns
  <2>2. \A d \in Call : gocall[d] # "idle" => gocall'[d] # "idle"
    BY <1>2 DEF SameCall
  <2>3. NodeOK(b) /\ at' = at /\ node' = node
    BY <1>0 DEF CallInv, nodeVars
  <2>. QED  BY <1>0, <2>1, <2>2, <2>3, NodeKeeps
<1>6. CallOK(c)'
  <2>1. CallOK(c) /\ settled' = settled /\ node' = node
    BY <1>0 DEF CallInv, nodeVars
  <2>2. Len(frames'[c]) = 0
    BY <1>2, Nothing
  <2>. QED  BY <1>1, <1>2, <2>1, <2>2, Nothing DEF CallOK
<1>7. \A d \in Call : CallOK(d)'
  BY <1>2, <1>6, SameKeeps DEF CallInv
<1>. QED  BY <1>3, <1>4, <1>5, <1>7 DEF CallInv

\* Frames move towards the caller.
Delivers ==
    /\ UNCHANGED <<at, gocall, ctx, answer, toNode, nodeVars, childVars>>
    /\ toGo' \in [Bridge -> Seq(Note)]
    /\ late' \in [Call -> Verdict \cup {None}]
    /\ frames' \in [Call -> Seq(Verdict \cup {"progress"})]
    /\ \A c \in Call : late'[c] # None => Sayable(late'[c], c) /\ late'[c] # "progress"
    /\ \A c \in Call : \A i \in 1 .. Len(frames'[c]) : Sayable(frames'[c][i], c)
    /\ \A b \in Bridge : \A i \in 1 .. Len(toGo'[b]) :
          \E j \in 1 .. Len(toGo[b]) : toGo'[b][i] = toGo[b][j]

\* Handing frames over says nothing that Node did not say.
LEMMA DeliversKeep ==
    ASSUME CallInv, Delivers
    PROVE  CallInv'
<1>0. BridgeType /\ UNCHANGED <<at, gocall, ctx, answer, toNode, nodeVars, childVars>>
  BY DEF CallInv, Delivers
<1>1. BridgeType'
  BY <1>0 DEF Delivers, BridgeType, nodeVars, childVars
<1>2. ASSUME NEW c \in Call PROVE CallOK(c)'
  <2>1. CallOK(c) /\ settled' = settled /\ node' = node /\ gocall' = gocall /\ answer' = answer
    BY <1>0 DEF CallInv, nodeVars
  <2>2. /\ late'[c] # None => Sayable(late'[c], c) /\ late'[c] # "progress"
        /\ \A i \in 1 .. Len(frames'[c]) : Sayable(frames'[c][i], c)
    BY DEF Delivers
  <2>. QED  BY <2>1, <2>2 DEF CallOK, Sayable
<1>3. \A b \in Bridge : GoOK(b)'
  <2>1. Keeps
    BY <1>0 DEF Keeps, nodeVars
  <2>. QED  BY <1>0, <2>1, GoKeeps DEF CallInv, Delivers
<1>4. ASSUME NEW b \in Bridge PROVE NodeOK(b)'
  <2>1. NodeOK(b) /\ at' = at /\ gocall' = gocall /\ toNode' = toNode /\ node' = node
    BY <1>0 DEF CallInv, nodeVars
  <2>. QED  BY <2>1 DEF NodeOK, IsRequest
<1>. QED  BY <1>1, <1>2, <1>3, <1>4 DEF CallInv

\* The goroutine that waited with a terminal frame hands it over.
LEMMA DeliverKeeps ==
    ASSUME CallInv, ReqType, NEW c \in Call, Deliver(c)
    PROVE  CallInv'
<1>0. /\ frames \in [Call -> Seq(Verdict \cup {"progress"})] /\ late \in [Call -> Verdict \cup {None}]
      /\ toGo \in [Bridge -> Seq(Note)] /\ toGo' = toGo
      /\ UNCHANGED <<at, gocall, ctx, answer, toNode, nodeVars, childVars>>
  BY DEF CallInv, BridgeType, Deliver, pipeVars
<1>1. late[c] # None /\ late' = [late EXCEPT ![c] = None]
  BY DEF Deliver
<1>2. late[c] \in Verdict /\ Sayable(late[c], c)
  BY <1>0, <1>1 DEF CallInv, CallOK
<1>3. CASE frames' = frames
  <2>1. \A d \in Call : \A i \in 1 .. Len(frames'[d]) : Sayable(frames'[d][i], d)
    BY <1>3 DEF CallInv, CallOK
  <2>. QED  BY <1>0, <1>1, <1>3, <2>1, DeliversKeep DEF Delivers, CallInv, CallOK
<1>4. CASE frames' = [frames EXCEPT ![c] = Append(@, late[c])]
  <2>1. frames' \in [Call -> Seq(Verdict \cup {"progress"})]
    <3>1. Append(frames[c], late[c]) \in Seq(Verdict \cup {"progress"})
      BY <1>0, <1>2, AppendOf
    <3>. QED  BY <1>0, <1>4, <3>1
  <2>2. ASSUME NEW d \in Call PROVE \A i \in 1 .. Len(frames'[d]) : Sayable(frames'[d][i], d)
    <3>1. frames[d] \in Seq(Verdict \cup {"progress"}) /\ CallOK(d)
      BY <1>0 DEF CallInv
    <3>2. CASE d = c
      <4>1. frames'[d] = Append(frames[d], late[c])
        BY <1>0, <1>4, <3>2
      <4>2. late[c] \in Verdict \cup {"progress"}
        BY <1>2
      <4>3. IsAppend(frames'[d], frames[d], late[c])
        BY <3>1, <4>1, <4>2, AppendOf
      <4>. QED  BY <1>2, <3>1, <3>2, <4>3 DEF CallOK, IsAppend
    <3>3. CASE d # c
      <4>1. frames'[d] = frames[d]
        BY <1>0, <1>4, <3>3
      <4>. QED  BY <3>1, <4>1 DEF CallOK
    <3>. QED  BY <3>2, <3>3
  <2>. QED  BY <1>0, <1>1, <2>1, <2>2, DeliversKeep DEF Delivers, CallInv, CallOK
<1>. QED  BY <1>3, <1>4 DEF Deliver

\* The Go reader takes a frame off the pipe.
LEMMA ReadKeeps ==
    ASSUME CallInv, NEW b \in Bridge, ReadFrame(b)
    PROVE  CallInv'
<1> DEFINE f == Head(toGo[b])
<1>0. /\ frames \in [Call -> Seq(Verdict \cup {"progress"})] /\ late \in [Call -> Verdict \cup {None}]
      /\ toGo \in [Bridge -> Seq(Note)] /\ toGo[b] # <<>>
      /\ UNCHANGED <<at, gocall, ctx, answer, toNode, nodeVars, childVars>>
  BY DEF CallInv, BridgeType, ReadFrame
<1>1. f = toGo[b][1] /\ f \in Note /\ 1 \in 1 .. Len(toGo[b])
  <2>1. IsTail(Tail(toGo[b]), toGo[b]) /\ f \in Note
    BY <1>0, TailOf
  <2>. QED  BY <2>1 DEF IsTail
<1>2. f.call \in Call /\ f.kind \in Verdict \cup {"progress"} /\ Sayable(f.kind, f.call)
  <2>1. Sayable(toGo[b][1].kind, toGo[b][1].call)
    BY <1>1 DEF CallInv, GoOK
  <2>2. f.call \in Call /\ f.kind \in Verdict \cup {"progress"}
    BY <1>1 DEF Note
  <2>. QED  BY <1>1, <2>1, <2>2
<1>3. toGo' = [toGo EXCEPT ![b] = Tail(@)]
  BY DEF ReadFrame
<1>4. ASSUME NEW a \in Bridge
      PROVE  \A i \in 1 .. Len(toGo'[a]) :
                \E j \in 1 .. Len(toGo[a]) : toGo'[a][i] = toGo[a][j]
  <2>1. CASE a = b
    <3>1. toGo'[a] = Tail(toGo[b]) /\ toGo[b] \in Seq(Note)
      BY <1>0, <1>3, <2>1
    <3>2. IsTail(toGo'[a], toGo[a])
      BY <1>0, <2>1, <3>1, TailOf
    <3>. QED  BY <3>2 DEF IsTail
  <2>2. CASE a # b
    BY <1>0, <1>3, <2>2
  <2>. QED  BY <2>1, <2>2
<1>5. toGo' \in [Bridge -> Seq(Note)]
  <2>1. Tail(toGo[b]) \in Seq(Note)
    BY <1>0, TailOf
  <2>. QED  BY <1>0, <1>3, <2>1
<1>6. frames' = frames \/ frames' = [frames EXCEPT ![f.call] = Append(@, f.kind)]
  BY DEF ReadFrame
<1>7. late' = late \/ (late' = [late EXCEPT ![f.call] = f.kind] /\ f.kind # "progress")
  BY DEF ReadFrame, MustArrive
<1>8. frames' \in [Call -> Seq(Verdict \cup {"progress"})] /\ late' \in [Call -> Verdict \cup {None}]
  <2>1. frames' \in [Call -> Seq(Verdict \cup {"progress"})]
    <3>0. frames[f.call] \in Seq(Verdict \cup {"progress"})
      BY <1>0, <1>2
    <3>. HIDE DEF f
    <3>1. Append(frames[f.call], f.kind) \in Seq(Verdict \cup {"progress"})
      BY <1>2, <3>0, AppendOf
    <3>. QED  BY <1>0, <1>6, <3>1
  <2>2. late' \in [Call -> Verdict \cup {None}]
    BY <1>0, <1>2, <1>7
  <2>. QED  BY <2>1, <2>2
<1>9. \A c \in Call : late'[c] # None => Sayable(late'[c], c) /\ late'[c] # "progress"
  <2>1. \A c \in Call : late[c] # None => Sayable(late[c], c) /\ late[c] # "progress"
    BY DEF CallInv, CallOK
  <2>2. \A c \in Call : late'[c] = late[c] \/ (c = f.call /\ late'[c] = f.kind /\ f.kind # "progress")
    BY <1>0, <1>7
  <2>. QED  BY <1>2, <2>1, <2>2
<1>10. ASSUME NEW c \in Call PROVE \A i \in 1 .. Len(frames'[c]) : Sayable(frames'[c][i], c)
  <2>1. frames[c] \in Seq(Verdict \cup {"progress"}) /\ CallOK(c)
    BY <1>0 DEF CallInv
  <2>2. frames'[c] = frames[c] \/ (frames'[c] = Append(frames[c], f.kind) /\ f.call = c)
    BY <1>0, <1>6
  <2>3. CASE frames'[c] = frames[c]
    BY <2>1, <2>3 DEF CallOK
  <2>4. CASE frames'[c] = Append(frames[c], f.kind) /\ f.call = c
    <3>1. IsAppend(frames'[c], frames[c], f.kind)
      BY <1>2, <2>1, <2>4, AppendOf
    <3>. QED  BY <1>2, <2>1, <2>4, <3>1 DEF CallOK, IsAppend
  <2>. QED  BY <2>2, <2>3, <2>4
<1>11. Delivers
  BY <1>0, <1>4, <1>5, <1>8, <1>9, <1>10 DEF Delivers
<1>. QED  BY <1>11, DeliversKeep

\* What CallWithEnvironment does: it registers a call, and the call returns or
\* takes a frame of its channel.
LEMMA CallerKeeps ==
    ASSUME CallInv, ReqType, NEW c \in Call,
           TakeFrame(c) \/ Issue(c) \/ SeeCancel(c) \/ SeeDone(c)
    PROVE  CallInv'
<1>0. /\ BridgeType /\ at \in [Call -> Bridge \cup {NoBridge}]
      /\ gocall \in [Call -> {"idle", "waiting", "ended"}] /\ CallOK(c)
  BY DEF CallInv, ReqType
<1>1. CASE SeeDone(c) \/ (Issue(c) /\ \E o \in Local : Ends(c, o) /\ UNCHANGED toNode)
  <2>1. \E o \in Local : o # None /\ Ends(c, o)
    BY <1>1 DEF SeeDone, Issue, Local, None
  <2>2. gocall[c] # "ended" /\ UNCHANGED <<at, ctx, toNode, toGo, nodeVars, childVars>>
    BY <1>1 DEF SeeDone, Issue, pipeVars
  <2>3. Returns(c)
    BY <2>1, <2>2 DEF Returns
  <2>. QED  BY <2>3, ReturnsKeep
<1>2. CASE SeeCancel(c)
  <2>1. \E o \in Local : o # None /\ Ends(c, o)
    BY <1>2 DEF SeeCancel, Local, None
  <2>2. gocall[c] # "ended" /\ UNCHANGED <<at, ctx, toGo, nodeVars, childVars>>
    BY <1>2 DEF SeeCancel
  <2>3. \/ toNode' = toNode
        \/ \E b \in Bridge : toNode' = [toNode EXCEPT ![b] = Append(@, Frame("cancel", c))]
    <3>1. toNode \in [Bridge -> Seq(Line)]
      BY <1>0 DEF BridgeType
    <3>. QED  BY <1>0, <1>2, <3>1 DEF SeeCancel, WriteCancel
  <2>4. Returns(c)
    BY <2>1, <2>2, <2>3 DEF Returns
  <2>. QED  BY <2>4, ReturnsKeep
<1>3. CASE TakeFrame(c)
  <2>1. /\ gocall[c] # "ended" /\ frames[c] # <<>> /\ frames[c] \in Seq(Verdict \cup {"progress"})
        /\ UNCHANGED <<at, ctx, nodeVars, childVars, toNode, toGo>>
    BY <1>0, <1>3 DEF TakeFrame, BridgeType, pipeVars
  <2>2. Sayable(Head(frames[c]), c)
    <3>1. Head(frames[c]) = frames[c][1] /\ 1 \in 1 .. Len(frames[c])
      BY <2>1, Elements
    <3>. QED  BY <1>0, <3>1 DEF CallOK
  <2>3. CASE Head(frames[c]) # "progress"
    <3>1. Ends(c, settled[c]) /\ settled[c] # None
      BY <1>3, <2>2, <2>3 DEF TakeFrame, Sayable
    <3>2. Returns(c)
      BY <2>1, <3>1 DEF Returns
    <3>. QED  BY <3>2, ReturnsKeep
  <2>4. CASE Head(frames[c]) = "progress"
    <3>1. frames' = [frames EXCEPT ![c] = Tail(@)] /\ UNCHANGED <<gocall, answer, late>>
      BY <1>3, <2>4 DEF TakeFrame
    <3>2. /\ toGo \in [Bridge -> Seq(Note)] /\ late \in [Call -> Verdict \cup {None}]
          /\ frames \in [Call -> Seq(Verdict \cup {"progress"})]
      BY <1>0 DEF BridgeType
    <3>3. frames' \in [Call -> Seq(Verdict \cup {"progress"})]
      <4>1. Tail(frames[c]) \in Seq(Verdict \cup {"progress"})
        BY <2>1, TailOf
      <4>. QED  BY <3>1, <3>2, <4>1
    <3>4. ASSUME NEW d \in Call PROVE \A i \in 1 .. Len(frames'[d]) : Sayable(frames'[d][i], d)
      <4>1. CallOK(d)
        BY DEF CallInv
      <4>2. CASE d # c
        BY <3>1, <3>2, <4>1, <4>2 DEF CallOK
      <4>3. CASE d = c
        <5>1. frames'[d] = Tail(frames[d])
          BY <3>1, <3>2, <4>3
        <5>2. IsTail(frames'[d], frames[d])
          BY <2>1, <4>3, <5>1, TailOf
        <5>. QED  BY <4>1, <5>2 DEF CallOK, IsTail
      <4>. QED  BY <4>2, <4>3
    <3>5. \A d \in Call : late[d] # None => Sayable(late[d], d) /\ late[d] # "progress"
      BY DEF CallInv, CallOK
    <3>6. Delivers
      BY <2>1, <3>1, <3>2, <3>3, <3>4, <3>5 DEF Delivers
    <3>. QED  BY <3>6, DeliversKeep
  <2>. QED  BY <2>3, <2>4
<1>4. CASE Issue(c) /\ ~\E o \in Local : Ends(c, o) /\ UNCHANGED toNode
  <2> DEFINE b == at[c]
  <2>1. /\ gocall[c] = "idle" /\ b \in Bridge
        /\ toNode' = [toNode EXCEPT ![b] = Append(@, Frame("request", c))]
        /\ gocall' = [gocall EXCEPT ![c] = "waiting"]
        /\ UNCHANGED <<answer, frames, late, at, ctx, toGo, nodeVars, childVars>>
    BY <1>0, <1>4 DEF Issue, Local
  <2>2. /\ gocall'[c] = "waiting" /\ toNode \in [Bridge -> Seq(Line)]
        /\ \A d \in Call \ {c} : gocall'[d] = gocall[d]
    BY <1>0, <2>1 DEF BridgeType
  <2>3. \A d \in Call \ {c} : SameCall(d)
    BY <2>1, <2>2 DEF SameCall, nodeVars
  <2>4. settled[c] = None /\ node[c] = "none" /\ answer[c] = None
    BY <1>0, <2>1 DEF CallOK
  <2>5. CallOK(c)'
    BY <1>0, <2>1, <2>2, <2>4 DEF CallOK, Sayable, nodeVars
  <2>6. \A a \in Bridge : GoOK(a)'
    BY <2>1 DEF CallInv, GoOK, Sayable, nodeVars
  <2>7. Frame("request", c) \in Line /\ Frame("request", c).call = c
    BY DEF Frame, Line
  <2>. HIDE DEF b
  <2>8. BridgeType'
    <3>1. toNode' \in [Bridge -> Seq(Line)]
      <4>1. Append(toNode[b], Frame("request", c)) \in Seq(Line)
        BY <2>1, <2>2, <2>7, AppendOf
      <4>. QED  BY <2>1, <2>2, <4>1
    <3>. QED  BY <1>0, <2>1, <3>1 DEF BridgeType, nodeVars, childVars
  <2>9. ASSUME NEW a \in Bridge PROVE NodeOK(a)'
    <3>0. \A d \in Call : gocall[d] # "idle" => gocall'[d] # "idle"
      BY <2>1, <2>2
    <3>1. NodeOK(a) /\ at' = at /\ node' = node
      BY <2>1 DEF CallInv, nodeVars
    <3>2. CASE a # b
      <4>1. toNode'[a] = toNode[a]
        BY <2>1, <2>2, <3>2
      <4>. QED  BY <1>0, <3>0, <3>1, <4>1, NodeKeeps
    <3>3. CASE a = b
      <4> DEFINE q == toNode[a]  n == Len(toNode'[a])
      <4>0. IsAppend(toNode'[a], q, Frame("request", c)) /\ q \in Seq(Line)
        BY <2>1, <2>2, <2>7, <3>3, AppendOf
      <4>1. /\ n \in 1 .. n /\ ~(n \in 1 .. Len(q)) /\ toNode'[a][n] = Frame("request", c)
            /\ \A i \in 1 .. n : i = n \/ (i \in 1 .. Len(q) /\ toNode'[a][i] = q[i])
        BY <4>0 DEF IsAppend
      <4>2. \A i \in 1 .. Len(q) : q[i].call \in Call
        <5>1. \A i \in 1 .. Len(q) : q[i] \in Line
          BY <4>0, Elements
        <5>. QED  BY <5>1 DEF Line
      <4>3. \A i \in 1 .. Len(q) : IsRequest(a, i) =>
               /\ q[i].call # c /\ at[q[i].call] = a /\ node[q[i].call] = "none"
               /\ gocall[q[i].call] # "idle"
        BY <2>1, <3>1 DEF NodeOK
      <4>4. ASSUME NEW i \in 1 .. n PROVE IsRequest(a, i)' <=> i = n \/ IsRequest(a, i)
        <5>1. Frame("request", c).kind = "request" /\ ~(n \in 1 .. Len(q))
          BY <4>1 DEF Frame
        <5>2. IsRequest(a, i)' <=> toNode'[a][i].kind = "request"
          BY <4>1 DEF IsRequest
        <5>3. CASE i = n
          BY <4>1, <5>1, <5>2, <5>3
        <5>4. CASE i # n
          BY <4>1, <5>2, <5>4 DEF IsRequest
        <5>. QED  BY <5>3, <5>4
      <4>5. ASSUME NEW i \in 1 .. n
            PROVE  IsRequest(a, i)' =>
                     LET d == toNode'[a][i].call IN at'[d] = a /\ gocall'[d] # "idle" /\ node'[d] = "none"
        <5>1. CASE i = n
          <6>1. toNode'[a][i].call = c
            BY <2>7, <4>1, <5>1
          <6>2. at'[c] = a /\ gocall'[c] # "idle" /\ node'[c] = "none"
            BY <2>2, <2>4, <3>1, <3>3 DEF b
          <6>. QED  BY <6>1, <6>2
        <5>2. CASE i # n
          <6>1. i \in 1 .. Len(q) /\ toNode'[a][i] = q[i] /\ q[i].call \in Call
            BY <4>1, <4>2, <5>2
          <6>2. IsRequest(a, i)' => at[q[i].call] = a /\ node[q[i].call] = "none" /\ gocall[q[i].call] # "idle"
            BY <4>3, <4>4, <5>2, <6>1
          <6>3. IsRequest(a, i)' => at'[q[i].call] = a /\ node'[q[i].call] = "none" /\ gocall'[q[i].call] # "idle"
            BY <3>0, <3>1, <6>1, <6>2
          <6>. QED  BY <6>1, <6>3
        <5>. QED  BY <5>1, <5>2
      <4>6. ASSUME NEW i \in 1 .. n, NEW j \in 1 .. n, IsRequest(a, i)', IsRequest(a, j)',
                   toNode'[a][i].call = toNode'[a][j].call
            PROVE  i = j
        <5>0. toNode'[a][n].call = c
          BY <2>7, <4>1
        <5>1. CASE i = n /\ j # n
          BY <4>1, <4>3, <4>4, <4>6, <5>0, <5>1
        <5>2. CASE j = n /\ i # n
          BY <4>1, <4>3, <4>4, <4>6, <5>0, <5>2
        <5>3. CASE i # n /\ j # n
          BY <3>1, <4>1, <4>4, <4>6, <5>3 DEF NodeOK
        <5>. QED  BY <5>1, <5>2, <5>3
      <4>. QED  BY <4>1, <4>5, <4>6 DEF NodeOK
    <3>. QED  BY <3>2, <3>3
  <2>10. \A d \in Call : CallOK(d)'
    BY <2>3, <2>5, SameKeeps DEF CallInv
  <2>. QED  BY <2>6, <2>8, <2>9, <2>10 DEF CallInv
<1>. QED  BY <1>1, <1>2, <1>3, <1>4

\* A call that Node knows of is on a bridge.
LEMMA OnItsBridge ==
    ASSUME ReqInv, CallInv, NEW c \in Call, node[c] # "none"
    PROVE  at[c] \in Bridge
<1>1. gocall[c] # "idle" /\ at[c] \in Bridge \cup {NoBridge}
  BY DEF CallInv, CallOK, ReqInv, ReqType
<1>2. at[c] = NoBridge => gocall[c] = "idle"
  <2>1. PICK r \in Req, n \in 1 .. MaxRetries + 1 : c = CallOf(r, n)
    BY CallFacts
  <2>2. OpenOf(r)
    BY DEF ReqInv
  <2>. QED  BY <2>1, <2>2 DEF OpenOf
<1>. QED  BY <1>1, <1>2

\* A step of the far side: what the pipes hold was there before, but for one
\* frame that Node may say of a call; and Node moves a call at most once.
Works ==
    /\ UNCHANGED <<goVars>> /\ Keeps /\ BridgeType'
    /\ \A b \in Bridge : \A i \in 1 .. Len(toGo'[b]) :
          \/ \E j \in 1 .. Len(toGo[b]) : toGo'[b][i] = toGo[b][j]
          \/ toGo'[b][i].kind = "progress"
          \/ toGo'[b][i].kind = settled'[toGo'[b][i].call] /\ toGo'[b][i].kind # None
    /\ \A c \in Call :
          /\ node'[c] # "ended" => settled'[c] = None
          /\ node'[c] # "none" => gocall[c] # "idle"

\* What Node does for its calls leaves the Go side alone.
LEMMA WorksKeep ==
    ASSUME CallInv, Works, \A b \in Bridge : NodeOK(b)'
    PROVE  CallInv'
<1>0. BridgeType /\ BridgeType' /\ UNCHANGED <<at, gocall, ctx, frames, late, answer>>
  BY DEF CallInv, Works, goVars
<1>2. ASSUME NEW c \in Call PROVE CallOK(c)'
  <2>1. CallOK(c)
    BY DEF CallInv
  <2>2. settled[c] # None => settled'[c] = settled[c]
    BY DEF Works, Keeps
  <2>3. answer[c] \in Local \cup {None, settled'[c]}
    BY <2>1, <2>2 DEF CallOK
  <2>4. /\ late[c] # None => Sayable(late[c], c)'
        /\ \A i \in 1 .. Len(frames[c]) : Sayable(frames[c][i], c)'
    BY <2>1, <2>2, <1>0 DEF CallOK, Sayable
  <2>. QED  BY <1>0, <2>1, <2>3, <2>4 DEF CallOK, Works
<1>3. ASSUME NEW b \in Bridge PROVE GoOK(b)'
  <2>0. toGo[b] \in Seq(Note) /\ GoOK(b)
    BY <1>0 DEF BridgeType, CallInv
  <2>1. \A j \in 1 .. Len(toGo[b]) : toGo[b][j] \in Note
    BY <2>0, Elements
  <2>2. \A j \in 1 .. Len(toGo[b]) : toGo[b][j].call \in Call
    BY <2>1 DEF Note
  <2>3. \A j \in 1 .. Len(toGo[b]) :
          \/ toGo[b][j].kind = "progress"
          \/ toGo[b][j].kind = settled'[toGo[b][j].call] /\ toGo[b][j].kind # None
    <3>1. Keeps
      BY DEF Works
    <3>2. \A j \in 1 .. Len(toGo[b]) : Sayable(toGo[b][j].kind, toGo[b][j].call)
      BY <2>0 DEF GoOK
    <3>. QED  BY <2>2, <3>1, <3>2 DEF Keeps, Sayable
  <2>4. \A i \in 1 .. Len(toGo'[b]) :
          \/ \E j \in 1 .. Len(toGo[b]) : toGo'[b][i] = toGo[b][j]
          \/ toGo'[b][i].kind = "progress"
          \/ toGo'[b][i].kind = settled'[toGo'[b][i].call] /\ toGo'[b][i].kind # None
    BY DEF Works
  <2>. QED  BY <2>3, <2>4 DEF Sayable, GoOK
<1>. QED  BY <1>0, <1>2, <1>3 DEF CallInv

\* The end of a child settles no call: what it had said stays said.
LEMMA DiesKeeps ==
    ASSUME CallInv, NEW b \in Bridge,
           WaitReturns(b) \/ (Dies(b) /\ (toGo' = toGo \/ toGo' = [toGo EXCEPT ![b] = <<>>]))
    PROVE  CallInv'
<1>0. /\ BridgeType /\ toNode \in [Bridge -> Seq(Line)] /\ toGo \in [Bridge -> Seq(Note)]
      /\ UNCHANGED <<goVars, nodeVars, stdin>>
  BY DEF CallInv, BridgeType, WaitReturns, Dies
<1>1. toNode' = toNode \/ toNode' = [toNode EXCEPT ![b] = <<>>]
  BY DEF WaitReturns, Dies
<1>2. toGo' = toGo \/ \E n \in 0 .. Len(toGo[b]) : toGo' = [toGo EXCEPT ![b] = SubSeq(@, 1, n)]
  <2>1. Len(toGo[b]) \in Nat
    BY <1>0, Elements
  <2>2. 0 \in 0 .. Len(toGo[b])
    BY <2>1, Bounds
  <2>3. SubSeq(toGo[b], 1, 0) = <<>>
    BY <1>0, <2>2, FirstOf
  <2>. QED  BY <2>2, <2>3 DEF WaitReturns
<1>3. proc' \in [Bridge -> {"none", "up", "dead"}] /\ done' \in [Bridge -> BOOLEAN]
  <2>1. proc \in [Bridge -> {"none", "up", "dead"}] /\ done \in [Bridge -> BOOLEAN]
    BY <1>0 DEF BridgeType
  <2>. QED  BY <2>1 DEF WaitReturns, Dies
<1>4. toNode' \in [Bridge -> Seq(Line)]
  BY <1>0, <1>1, Nothing
<1>5. /\ toGo' \in [Bridge -> Seq(Note)]
      /\ \A a \in Bridge : \A i \in 1 .. Len(toGo'[a]) :
            \E j \in 1 .. Len(toGo[a]) : toGo'[a][i] = toGo[a][j]
  <2>1. CASE toGo' = toGo
    BY <1>0, <2>1
  <2>2. ASSUME NEW n \in 0 .. Len(toGo[b]), toGo' = [toGo EXCEPT ![b] = SubSeq(@, 1, n)]
        PROVE  /\ toGo' \in [Bridge -> Seq(Note)]
               /\ \A a \in Bridge : \A i \in 1 .. Len(toGo'[a]) :
                     \E j \in 1 .. Len(toGo[a]) : toGo'[a][i] = toGo[a][j]
    <3>1. SubSeq(toGo[b], 1, n) \in Seq(Note) /\ IsFirst(SubSeq(toGo[b], 1, n), toGo[b])
      BY <1>0, FirstOf
    <3>2. toGo' \in [Bridge -> Seq(Note)]
      BY <1>0, <2>2, <3>1
    <3>. QED  BY <1>0, <2>2, <3>1, <3>2 DEF IsFirst
  <2>. QED  BY <1>2, <2>1, <2>2
<1>6. BridgeType'
  BY <1>0, <1>3, <1>4, <1>5 DEF BridgeType, goVars, nodeVars
<1>7. ASSUME NEW a \in Bridge PROVE NodeOK(a)'
  <2>1. toNode'[a] = toNode[a] \/ toNode'[a] = <<>>
    BY <1>0, <1>1
  <2>2. NodeOK(a) /\ at' = at /\ gocall' = gocall /\ node' = node
    BY <1>0 DEF CallInv, goVars, nodeVars
  <2>3. \A i \in 1 .. Len(toNode'[a]) : i \in 1 .. Len(toNode[a]) /\ toNode'[a][i] = toNode[a][i]
    <3>1. \A i \in 1 .. Len(<<>>) : FALSE
      BY Nothing
    <3>. QED  BY <2>1, <3>1
  <2>. QED  BY <1>0, <2>2, <2>3, NodeKeeps
<1>8. Works
  <2>1. settled' = settled /\ node' = node
    BY <1>0 DEF nodeVars
  <2>. QED  BY <1>0, <1>5, <1>6, <2>1 DEF Works, Keeps, CallInv, CallOK
<1>. QED  BY <1>7, <1>8, WorksKeep

\* Node says something of a call that runs, or ends it.
LEMMA SayKeeps ==
    ASSUME ReqInv, CallInv, NEW c \in Call, TakeTurn(c) \/ Update(c) \/ Settle(c, Endings)
    PROVE  CallInv'
<1>0. BridgeType /\ CallOK(c) /\ UNCHANGED <<toNode, goVars, childVars, aborted>>
  BY DEF CallInv, TakeTurn, Update, Settle, pipeVars, nodeVars
<1>1. node[c] \in {"queued", "running"} /\ at[c] \in Bridge /\ gocall[c] # "idle" /\ settled[c] = None
  <2>1. node[c] \in {"queued", "running"}
    BY DEF TakeTurn, Update, Settle
  <2>. QED  BY <1>0, <2>1, OnItsBridge DEF CallOK
<1>2. \/ toGo' = toGo
      \/ \E k \in Verdict \cup {"progress"} :
           /\ toGo' = [toGo EXCEPT ![at[c]] = Append(@, Frame(k, c))]
           /\ k = "progress" \/ (k = settled'[c] /\ k # None)
  <2>1. CASE TakeTurn(c) \/ Update(c)
    BY <2>1 DEF TakeTurn, Update, pipeVars
  <2>2. CASE Settle(c, Endings)
    <3>1. PICK v \in Verdict : /\ settled' = [settled EXCEPT ![c] = v]
                               /\ toGo' = [toGo EXCEPT ![at[c]] = Append(@, Frame(v, c))]
      BY <2>2 DEF Settle
    <3>2. v # None /\ settled'[c] = v
      BY <1>0, <3>1, PiAssumption DEF AllVerdicts, None, BridgeType
    <3>. QED  BY <3>1, <3>2
  <2>. QED  BY <2>1, <2>2
<1>3. \/ node' = [node EXCEPT ![c] = "running"] /\ settled' = settled
      \/ node' = node /\ settled' = settled
      \/ node' = [node EXCEPT ![c] = "ended"] /\ \E v \in Verdict : settled' = [settled EXCEPT ![c] = v]
  BY DEF TakeTurn, Update, Settle, Inactive, nodeVars
<1>4. /\ node' \in [Call -> {"none", "queued", "running", "ended"}]
      /\ settled' \in [Call -> Verdict \cup {None}]
      /\ \A d \in Call \ {c} : node'[d] = node[d] /\ settled'[d] = settled[d]
      /\ node'[c] \in {"running", "queued", "ended"} /\ (node'[c] # "ended" => settled'[c] = None)
  <2>0. /\ node \in [Call -> {"none", "queued", "running", "ended"}]
        /\ settled \in [Call -> Verdict \cup {None}]
    BY <1>0 DEF BridgeType
  <2>. QED  BY <1>1, <1>3, <2>0
<1>5. /\ toGo' \in [Bridge -> Seq(Note)]
      /\ \A b \in Bridge : \A i \in 1 .. Len(toGo'[b]) :
          \/ \E j \in 1 .. Len(toGo[b]) : toGo'[b][i] = toGo[b][j]
          \/ toGo'[b][i].kind = "progress"
          \/ toGo'[b][i].kind = settled'[toGo'[b][i].call] /\ toGo'[b][i].kind # None
  <2>0. toGo \in [Bridge -> Seq(Note)]
    BY <1>0 DEF BridgeType
  <2>1. CASE toGo' = toGo
    BY <2>0, <2>1
  <2>2. CASE toGo' # toGo
    <3>1. PICK k \in Verdict \cup {"progress"} :
             /\ toGo' = [toGo EXCEPT ![at[c]] = Append(@, Frame(k, c))]
             /\ k = "progress" \/ (k = settled'[c] /\ k # None)
      BY <1>2, <2>2
    <3>2. Frame(k, c) \in Note /\ Frame(k, c).kind = k /\ Frame(k, c).call = c
      BY DEF Frame, Note
    <3>3. Append(toGo[at[c]], Frame(k, c)) \in Seq(Note)
      BY <1>1, <2>0, <3>2, AppendOf
    <3>4. toGo' \in [Bridge -> Seq(Note)]
      BY <2>0, <3>1, <3>3
    <3>5. ASSUME NEW b \in Bridge
          PROVE  \A i \in 1 .. Len(toGo'[b]) :
                    toGo'[b][i] = Frame(k, c) \/ \E j \in 1 .. Len(toGo[b]) : toGo'[b][i] = toGo[b][j]
      <4>1. toGo[b] \in Seq(Note) /\ (toGo'[b] = toGo[b] \/ toGo'[b] = Append(toGo[b], Frame(k, c)))
        BY <2>0, <3>1
      <4>2. CASE toGo'[b] = Append(toGo[b], Frame(k, c))
        <5>1. IsAppend(toGo'[b], toGo[b], Frame(k, c))
          BY <3>2, <4>1, <4>2, AppendOf
        <5>. QED  BY <5>1 DEF IsAppend
      <4>. QED  BY <4>1, <4>2
    <3>6. ASSUME NEW b \in Bridge, NEW i \in 1 .. Len(toGo'[b])
          PROVE  \/ \E j \in 1 .. Len(toGo[b]) : toGo'[b][i] = toGo[b][j]
                 \/ toGo'[b][i].kind = "progress"
                 \/ toGo'[b][i].kind = settled'[toGo'[b][i].call] /\ toGo'[b][i].kind # None
      <4>1. CASE toGo'[b][i] = Frame(k, c)
        BY <3>1, <3>2, <4>1
      <4>. QED  BY <3>5, <4>1
    <3>. QED  BY <3>4, <3>6
  <2>. QED  BY <2>1, <2>2
<1>6. /\ env' \in [Bridge -> Call \cup {Launch}] /\ saved' \in [Call -> Call \cup {Launch}]
      /\ tail' \in [Bridge -> Seq(Call)]
  <2>1. /\ env \in [Bridge -> Call \cup {Launch}] /\ saved \in [Call -> Call \cup {Launch}]
        /\ tail \in [Bridge -> Seq(Call)]
    BY <1>0 DEF BridgeType
  <2>2. CASE TakeTurn(c)
    BY <1>1, <2>1, <2>2 DEF TakeTurn
  <2>3. CASE Update(c)
    BY <2>1, <2>3 DEF Update, nodeVars
  <2>4. CASE Settle(c, Endings)
    <3>1. /\ saved' = saved /\ (env' = env \/ env' = [env EXCEPT ![at[c]] = saved[c]])
          /\ tail' = tail \/ (tail[at[c]] # <<>> /\ tail' = [tail EXCEPT ![at[c]] = Tail(@)])
      BY <2>4 DEF Settle, Restored
    <3>2. tail' \in [Bridge -> Seq(Call)]
      <4>1. tail[at[c]] # <<>> => Tail(tail[at[c]]) \in Seq(Call)
        BY <1>1, <2>1, TailOf
      <4>. QED  BY <2>1, <3>1, <4>1
    <3>. QED  BY <1>1, <2>1, <3>1, <3>2
  <2>. QED  BY <2>2, <2>3, <2>4
<1>7. BridgeType'
  BY <1>0, <1>4, <1>5, <1>6 DEF BridgeType, goVars, childVars
<1>8. Works
  <2>1. /\ \A d \in Call : node[d] # "ended" => settled[d] = None
        /\ \A d \in Call : node[d] # "none" => gocall[d] # "idle"
    BY DEF CallInv, CallOK
  <2>2. Keeps
    BY <1>1, <1>4 DEF Keeps
  <2>3. \A d \in Call : /\ node'[d] # "ended" => settled'[d] = None
                        /\ node'[d] # "none" => gocall[d] # "idle"
    BY <1>1, <1>4, <2>1
  <2>. QED  BY <1>0, <1>5, <1>7, <2>2, <2>3 DEF Works
<1>9. ASSUME NEW b \in Bridge PROVE NodeOK(b)'
  <2>1. NodeOK(b) /\ toNode' = toNode /\ at' = at /\ gocall' = gocall
    BY <1>0 DEF CallInv, goVars
  <2>2. \A d \in Call : node[d] = "none" => node'[d] = "none"
    BY <1>1, <1>4
  <2>. QED  BY <1>0, <2>1, <2>2, NodeKeeps
<1>. QED  BY <1>8, <1>9, WorksKeep

\* Node reads a line.
LEMMA LineKeeps ==
    ASSUME CallInv, NEW b \in Bridge, NodeReads(b, Workspace)
    PROVE  CallInv'
<1> DEFINE f == Head(toNode[b])  c == Head(toNode[b]).call
<1>0. /\ BridgeType /\ toNode \in [Bridge -> Seq(Line)] /\ toNode[b] # <<>>
      /\ toNode' = [toNode EXCEPT ![b] = Tail(@)]
      /\ UNCHANGED <<env, saved, settled, toGo, childVars, goVars>>
  BY DEF CallInv, BridgeType, NodeReads
<1>1. /\ f = toNode[b][1] /\ f \in Line /\ 1 \in 1 .. Len(toNode[b])
      /\ IsTail(Tail(toNode[b]), toNode[b]) /\ Tail(toNode[b]) \in Seq(Line)
  <2>1. IsTail(Tail(toNode[b]), toNode[b]) /\ f \in Line /\ Tail(toNode[b]) \in Seq(Line)
    BY <1>0, TailOf
  <2>. QED  BY <2>1 DEF IsTail
<1>2. c \in Call /\ f.kind \in {"request", "cancel"}
  BY <1>1 DEF Line
<1>3. f.kind = "request" => at[c] = b /\ gocall[c] # "idle" /\ node[c] = "none"
  <2>1. NodeOK(b)
    BY DEF CallInv
  <2>. QED  BY <1>1, <2>1 DEF NodeOK, IsRequest
<1>4. /\ f.kind = "request" => /\ node' = [node EXCEPT ![c] = IF Workspace THEN "queued" ELSE "running"]
                               /\ tail' = [tail EXCEPT ![b] = IF Workspace THEN Append(@, c) ELSE @]
                               /\ aborted' = aborted
      /\ f.kind = "cancel" => /\ aborted' = [aborted EXCEPT ![c] = Active(c)]
                              /\ UNCHANGED <<tail, node>>
  BY DEF NodeReads
<1>5. /\ toNode'[b] = Tail(toNode[b]) /\ \A a \in Bridge \ {b} : toNode'[a] = toNode[a]
      /\ toNode' \in [Bridge -> Seq(Line)]
  BY <1>0, <1>1
<1>. HIDE DEF f, c
<1>6. /\ node' \in [Call -> {"none", "queued", "running", "ended"}]
      /\ \A d \in Call \ {c} : node'[d] = node[d]
      /\ IF f.kind = "request" THEN node'[c] \in {"queued", "running"} ELSE node'[c] = node[c]
  <2>1. node \in [Call -> {"none", "queued", "running", "ended"}]
    BY <1>0 DEF BridgeType
  <2>. QED  BY <1>2, <1>4, <2>1
<1>7. BridgeType'
  <2>1. tail' \in [Bridge -> Seq(Call)]
    <3>1. tail \in [Bridge -> Seq(Call)]
      BY <1>0 DEF BridgeType
    <3>2. tail[b] \in Seq(Call) /\ Append(tail[b], c) \in Seq(Call)
      BY <1>2, <3>1, AppendOf
    <3>3. tail' = tail \/ tail' = [tail EXCEPT ![b] = Append(tail[b], c)]
      BY <1>2, <1>4, <3>1
    <3>. QED  BY <3>1, <3>2, <3>3
  <2>2. aborted' \in [Call -> BOOLEAN]
    <3>1. aborted \in [Call -> BOOLEAN] /\ Active(c) \in BOOLEAN
      BY <1>0, ActiveType DEF BridgeType
    <3>. QED  BY <1>2, <1>4, <3>1
  <2>. QED  BY <1>0, <1>5, <1>6, <2>1, <2>2 DEF BridgeType, goVars, childVars
<1>8. Works
  <2>1. /\ \A d \in Call : node[d] # "ended" => settled[d] = None
        /\ \A d \in Call : node[d] # "none" => gocall[d] # "idle"
    BY DEF CallInv, CallOK
  <2>2. Keeps
    BY <1>0 DEF Keeps
  <2>3. \A d \in Call : /\ node'[d] # "ended" => settled'[d] = None
                        /\ node'[d] # "none" => gocall[d] # "idle"
    <3>1. settled[c] = None \/ f.kind # "request"
      BY <1>2, <1>3, <2>1
    <3>. QED  BY <1>0, <1>3, <1>6, <2>1, <3>1
  <2>. QED  BY <1>0, <1>7, <2>2, <2>3 DEF Works
<1>9. ASSUME NEW a \in Bridge PROVE NodeOK(a)'
  <2>0. NodeOK(a) /\ NodeOK(b) /\ at' = at /\ gocall' = gocall
    BY <1>0 DEF CallInv, goVars
  <2>1. CASE a # b
    <3>1. ASSUME NEW i \in 1 .. Len(toNode[a]), IsRequest(a, i)
          PROVE  LET d == toNode[a][i].call IN at[d] = a /\ gocall[d] # "idle" /\ node'[d] = "none"
      <4>1. toNode[a][i] \in Line
        BY <1>0, Elements
      <4>2. toNode[a][i].call \in Call
        BY <4>1 DEF Line
      <4>3. at[toNode[a][i].call] = a /\ gocall[toNode[a][i].call] # "idle"
            /\ node[toNode[a][i].call] = "none"
        BY <2>0, <3>1 DEF NodeOK
      <4>. QED  BY <1>3, <1>6, <2>1, <4>2, <4>3
    <3>2. toNode'[a] = toNode[a]
      BY <1>5, <2>1
    <3>. QED  BY <2>0, <3>1, <3>2 DEF NodeOK, IsRequest
  <2>2. CASE a = b
    <3>0. IsTail(toNode'[b], toNode[b])
      BY <1>1, <1>5
    <3>1. \A i \in 1 .. Len(toNode'[b]) :
             /\ toNode'[b][i] = toNode[b][i + 1] /\ i + 1 \in 1 .. Len(toNode[b]) /\ i + 1 # 1
             /\ IsRequest(b, i)' => IsRequest(b, i + 1)
      BY <3>0 DEF IsRequest, IsTail
    <3>2. ASSUME NEW i \in 1 .. Len(toNode'[b]), IsRequest(b, i)'
          PROVE  LET d == toNode'[b][i].call IN at[d] = b /\ gocall[d] # "idle" /\ node'[d] = "none"
      <4>1. /\ IsRequest(b, i + 1) /\ toNode'[b][i] = toNode[b][i + 1]
            /\ i + 1 \in 1 .. Len(toNode[b]) /\ i + 1 # 1
        BY <3>1, <3>2
      <4>2. toNode[b][i + 1].call \in Call
        <5>1. toNode[b][i + 1] \in Line
          BY <1>0, <4>1, Elements
        <5>. QED  BY <5>1 DEF Line
      <4>3. at[toNode[b][i + 1].call] = b /\ gocall[toNode[b][i + 1].call] # "idle"
            /\ node[toNode[b][i + 1].call] = "none"
        BY <2>0, <4>1 DEF NodeOK
      <4>4. ASSUME f.kind = "request", toNode[b][i + 1].call = c PROVE FALSE
        <5>1. f = toNode[b][1] /\ 1 \in 1 .. Len(toNode[b]) /\ c = f.call
          BY <1>1 DEF c, f
        <5>2. IsRequest(b, 1) /\ toNode[b][1].call = toNode[b][i + 1].call
          BY <4>4, <5>1 DEF IsRequest
        <5>3. 1 = i + 1
          BY <2>0, <4>1, <5>1, <5>2 DEF NodeOK, IsRequest
        <5>. QED  BY <4>1, <5>3
      <4>. QED  BY <1>6, <4>1, <4>2, <4>3, <4>4
    <3>3. ASSUME NEW i \in 1 .. Len(toNode'[b]), NEW j \in 1 .. Len(toNode'[b]),
                 IsRequest(b, i)', IsRequest(b, j)', toNode'[b][i].call = toNode'[b][j].call
          PROVE  i = j
      <4>1. IsRequest(b, i + 1) /\ IsRequest(b, j + 1) /\ toNode[b][i + 1].call = toNode[b][j + 1].call
        BY <3>1, <3>3
      <4>2. i + 1 = j + 1
        BY <2>0, <4>1 DEF NodeOK, IsRequest
      <4>. QED  BY <3>0, <4>2 DEF IsTail
    <3>. QED  BY <2>0, <2>2, <3>2, <3>3 DEF NodeOK
  <2>. QED  BY <2>1, <2>2
<1>. QED  BY <1>8, <1>9, WorksKeep

\* No call is known to either side at the start.
LEMMA CallInit == Init => CallInv
<1>. SUFFICES ASSUME Init PROVE CallInv
  OBVIOUS
<1>0. BridgeInit
  BY DEF Init
<1>1. BridgeType
  BY <1>0, Nothing DEF BridgeInit, BridgeType
<1>2. \A c \in Call : CallOK(c)
  BY <1>0, Nothing DEF BridgeInit, CallOK, None, Local
<1>3. \A b \in Bridge : GoOK(b) /\ NodeOK(b)
  BY <1>0, Nothing DEF BridgeInit, GoOK, NodeOK, IsRequest
<1>. QED  BY <1>1, <1>2, <1>3 DEF CallInv

\* Every step keeps what is known of the calls.
LEMMA CallStepKeeps == ReqInv /\ CallInv /\ [Next]_vars => CallInv'
<1>. SUFFICES ASSUME ReqInv, CallInv, [Next]_vars PROVE CallInv'
  OBVIOUS
<1>0. ReqType /\ BridgeType
  BY DEF ReqInv, CallInv
<1>1. CASE OwnStep
  BY <1>0, <1>1, CallerKeeps, DeliverKeeps, SayKeeps, ReadKeeps, LineKeeps, DiesKeeps
     DEF OwnStep, BridgeStep
<1>2. CASE (\E r \in Req : ReqActs(r)) \/ ActorStep \/ Stop
  <2>1. Uses
    BY <1>0, <1>2, ActorUses
  <2>. QED  BY <1>0, <2>1, UsesKeep
<1>3. CASE UNCHANGED vars
  <2>1. Uses
    BY <1>0, <1>3, QuietUses DEF vars
  <2>. QED  BY <1>0, <2>1, UsesKeep
<1>. QED  BY <1>1, <1>2, <1>3, NextSplits

\* The pieces of a call over the bridge fit: requests are read once, on their own
\* bridge, and every frame of a call says what Node has settled it with.
THEOREM CallInvariant == Spec => []CallInv
<1>1. ReqInv /\ CallInv /\ [Next]_vars => CallInv'
  BY CallStepKeeps
<1>. QED  BY <1>1, CallInit, ReqInvariant, PTL DEF Spec

-----------------------------------------------------------------------------
(* Calls: the contract *)

\* Every step is a step of the call contract, or none of its business.
LEMMA StepKeepsContract == ReqInv /\ CallInv /\ [Next]_vars => [Contract!Next]_(Contract!contractVars)
<1>. SUFFICES ASSUME ReqInv, CallInv, [Next]_vars
              PROVE  Contract!Next \/ UNCHANGED <<settled, answer>>
  BY DEF Contract!contractVars
<1>0. /\ answer \in [Call -> Verdict \cup Local \cup {None}] /\ BridgeType /\ ReqType
      /\ settled \in [Call -> Verdict \cup {None}] /\ \A c \in Call : CallOK(c)
  BY DEF CallInv, BridgeType, ReqInv
<1>1. ASSUME NEW c \in Call, NEW o \in Local \cup {settled[c]}, o # None,
             gocall[c] # "ended", Ends(c, o), settled' = settled
      PROVE  Contract!Next
  <2>1. answer[c] = None /\ answer' = [answer EXCEPT ![c] = o]
    BY <1>0, <1>1 DEF CallOK, Ends
  <2>2. o \in Local \cup ({settled[c]} \ {None})
    BY <1>1
  <2>. QED  BY <1>1, <2>1, <2>2 DEF Contract!Next, Contract!Answer
<1>2. ASSUME NEW c \in Call, TakeFrame(c) \/ Issue(c) \/ SeeCancel(c) \/ SeeDone(c)
      PROVE  Contract!Next \/ UNCHANGED <<settled, answer>>
  <2>0. settled' = settled
    BY <1>2 DEF TakeFrame, Issue, SeeCancel, SeeDone, nodeVars
  <2>1. CASE answer' = answer
    BY <2>0, <2>1
  <2>2. ASSUME NEW o \in Local, gocall[c] # "ended", Ends(c, o) PROVE Contract!Next
    <3>1. o # None
      BY DEF Local, None
    <3>. QED  BY <1>1, <2>0, <2>2, <3>1
  <2>3. CASE TakeFrame(c) /\ answer' # answer
    <3>1. /\ gocall[c] # "ended" /\ frames[c] # <<>> /\ Head(frames[c]) # "progress"
          /\ Ends(c, Head(frames[c])) /\ frames[c] \in Seq(Verdict \cup {"progress"})
      BY <1>0, <2>3 DEF TakeFrame, BridgeType
    <3>2. Sayable(Head(frames[c]), c)
      <4>1. Head(frames[c]) = frames[c][1] /\ 1 \in 1 .. Len(frames[c])
        BY <3>1, Elements
      <4>. QED  BY <1>0, <4>1 DEF CallOK
    <3>. QED  BY <1>1, <2>0, <3>1, <3>2 DEF Sayable
  <2>4. CASE Issue(c) \/ SeeCancel(c) \/ SeeDone(c)
    <3>1. gocall[c] # "ended" /\ (answer' = answer \/ \E o \in Local : Ends(c, o))
      BY <2>4 DEF Issue, SeeCancel, SeeDone, Local
    <3>. QED  BY <2>0, <2>2, <3>1
  <2>. QED  BY <1>2, <2>1, <2>3, <2>4
<1>3. ASSUME NEW c \in Call, Settle(c, Endings) PROVE Contract!Next
  <2>1. settled[c] = None
    BY <1>0, <1>3 DEF Settle, CallOK
  <2>2. answer' = answer /\ \E v \in Verdict : settled' = [settled EXCEPT ![c] = v]
    BY <1>3 DEF Settle, goVars
  <2>. QED  BY <2>1, <2>2 DEF Contract!Next, Contract!Settle
<1>4. ASSUME NEW c \in Call, Deliver(c) \/ TakeTurn(c) \/ Update(c)
      PROVE  UNCHANGED <<settled, answer>>
  BY <1>4 DEF Deliver, TakeTurn, Update, nodeVars, goVars
<1>5. ASSUME NEW b \in Bridge, WaitReturns(b) \/ ReadFrame(b) \/ NodeReads(b, Workspace) \/ Dies(b)
      PROVE  UNCHANGED <<settled, answer>>
  BY <1>5 DEF WaitReturns, ReadFrame, NodeReads, Dies, nodeVars, goVars
<1>6. CASE OwnStep
  BY <1>2, <1>3, <1>4, <1>5, <1>6 DEF OwnStep, BridgeStep
<1>7. CASE (\E r \in Req : ReqActs(r)) \/ ActorStep \/ Stop
  <2>1. Uses
    BY <1>0, <1>7, ActorUses
  <2>. QED  BY <2>1 DEF Uses, nodeVars
<1>8. CASE UNCHANGED vars
  BY <1>8 DEF vars, bridgeVars, goVars, nodeVars
<1>. QED  BY <1>6, <1>7, <1>8, NextSplits

\* CallWithEnvironment and the bridge's Node side: a call over the bridge is
\* settled at most once and answered at most once, and the answer is Node's
\* verdict or an outcome the Go side may give by itself.
THEOREM PiCallsKeepContract == Spec => CallsKeepContract
<1>1. Init => Contract!Init
  BY DEF Init, BridgeInit, Contract!Init
<1>2. ReqInv /\ CallInv /\ [Next]_vars => [Contract!Next]_(Contract!contractVars)
  BY StepKeepsContract
<1>. QED  BY <1>1, <1>2, ReqInvariant, CallInvariant, PTL DEF Spec, CallsKeepContract, Contract!Spec

-----------------------------------------------------------------------------
(* What is told of a request *)

HonestOf(r) ==
    /\ \A n \in 1 .. attempt[r] - 1 : answer[CallOf(r, n)] = "retryable"
    /\ phase[r] \in {"looping", "delaying"} /\ attempt[r] > 0 => answer[TheCall(r)] = "retryable"
    /\ reply[r] = "result" => attempt[r] > 0 /\ settled[TheCall(r)] \in {"result", "retryable"}

HonestInv == \A r \in Req : HonestOf(r)

\* A request goes on: its attempts are counted up after a refusal only, and it is
\* told a result only when its last call had one.
Goes(r) ==
    /\ \A s \in Req \ {r} : phase'[s] = phase[s] /\ attempt'[s] = attempt[s] /\ reply'[s] = reply[s]
    /\ \/ attempt'[r] = attempt[r]
       \/ attempt'[r] = attempt[r] + 1 /\ (attempt[r] = 0 \/ phase[r] = "looping")
    /\ phase'[r] \in {"looping", "delaying"} =>
          /\ attempt'[r] = attempt[r]
          /\ \/ attempt[r] = 0
             \/ phase[r] \in {"looping", "delaying"} \/ answer[TheCall(r)] = "retryable"
    /\ reply'[r] = "result" =>
          /\ attempt'[r] = attempt[r] /\ attempt[r] > 0
          /\ reply[r] = "result" \/ answer[TheCall(r)] \in {"result", "retryable"}

\* What a step that keeps the contract cannot undo.
Stays == Keeps /\ \A c \in Call : answer[c] # None => answer'[c] = answer[c]

\* What a call was settled or answered with is never changed.
LEMMA StepStays == ReqInv /\ CallInv /\ [Next]_vars => Stays
<1>. SUFFICES ASSUME ReqInv, CallInv, [Next]_vars PROVE Stays
  OBVIOUS
<1>0. answer \in [Call -> Verdict \cup Local \cup {None}] /\ settled \in [Call -> Verdict \cup {None}]
  BY DEF CallInv, BridgeType
<1>1. Contract!Next \/ UNCHANGED <<settled, answer>>
  BY StepKeepsContract DEF Contract!contractVars
<1>. QED  BY <1>0, <1>1 DEF Stays, Keeps, Contract!Next, Contract!Settle, Contract!Answer

\* A request that goes on from one phase to the next stays honest.
LEMMA GoesKeep ==
    ASSUME ReqInv, CallInv, HonestInv, Stays, NEW r \in Req, Goes(r)
    PROVE  HonestInv'
<1>0. MaxRetries \in Nat /\ None \notin {"retryable", "result"}
  BY CallFacts DEF None
<1>1. ASSUME NEW s \in Req, attempt'[s] = attempt[s]
      PROVE  /\ attempt[s] \in 0 .. MaxRetries + 1
             /\ \A n \in 1 .. attempt[s] - 1 : answer'[CallOf(s, n)] = "retryable"
             /\ attempt[s] > 0 => /\ TheCall(s)' = TheCall(s) /\ TheCall(s) \in Call
                                  /\ answer[TheCall(s)] \in Local \cup {None, settled[TheCall(s)]}
                                  /\ answer[TheCall(s)] = "retryable" => answer'[TheCall(s)] = "retryable"
                                  /\ settled[TheCall(s)] \in {"result", "retryable"} =>
                                        settled'[TheCall(s)] = settled[TheCall(s)]
  <2>1. attempt[s] \in 0 .. MaxRetries + 1 /\ HonestOf(s)
    BY DEF ReqInv, ReqType, HonestInv
  <2>2. \A n \in 1 .. attempt[s] : CallOf(s, n) \in Call
    BY <2>1, AttemptMade, CallFacts
  <2>3. \A n \in 1 .. attempt[s] - 1 : answer'[CallOf(s, n)] = "retryable"
    BY <1>0, <2>1, <2>2, Attempts DEF HonestOf, Stays
  <2>4. attempt[s] > 0 => TheCall(s)' = TheCall(s) /\ TheCall(s) \in Call
    BY <1>1, <2>1, <2>2, Attempts DEF TheCall
  <2>5. \A c \in Call : answer[c] \in Local \cup {None, settled[c]}
    BY DEF CallInv, CallOK
  <2>. QED  BY <1>0, <2>1, <2>3, <2>4, <2>5 DEF Stays, Keeps
<1>2. ASSUME NEW s \in Req \ {r} PROVE HonestOf(s)'
  <2>1. phase'[s] = phase[s] /\ attempt'[s] = attempt[s] /\ reply'[s] = reply[s] /\ HonestOf(s)
    BY DEF Goes, HonestInv
  <2>. QED  BY <1>1, <2>1 DEF HonestOf
<1>3. HonestOf(r)'
  <2>0. HonestOf(r) /\ attempt[r] \in 0 .. MaxRetries + 1
    BY DEF HonestInv, ReqInv, ReqType
  <2>1. CASE attempt'[r] = attempt[r]
    <3>1. \A n \in 1 .. attempt'[r] - 1 : answer'[CallOf(r, n)] = "retryable"
      BY <1>1, <2>1
    <3>2. phase'[r] \in {"looping", "delaying"} /\ attempt'[r] > 0 => answer'[TheCall(r)'] = "retryable"
      <4>1. phase'[r] \in {"looping", "delaying"} /\ attempt[r] > 0 => answer[TheCall(r)] = "retryable"
        BY <2>0, <2>1, FirstAttempt DEF Goes, HonestOf
      <4>. QED  BY <1>1, <2>1, <4>1
    <3>3. reply'[r] = "result" => attempt'[r] > 0 /\ settled'[TheCall(r)'] \in {"result", "retryable"}
      <4>1. reply'[r] = "result" => attempt[r] > 0 /\ settled[TheCall(r)] \in {"result", "retryable"}
        BY <1>1, <2>0, <2>1 DEF Goes, HonestOf, Local, None
      <4>. QED  BY <1>1, <2>1, <4>1
    <3>. QED  BY <3>1, <3>2, <3>3 DEF HonestOf, TheCall
  <2>2. CASE attempt'[r] = attempt[r] + 1 /\ (attempt[r] = 0 \/ phase[r] = "looping")
    <3>1. attempt'[r] # attempt[r]
      BY <2>0, <2>2, Attempts
    <3>2. phase'[r] \notin {"looping", "delaying"} /\ reply'[r] # "result"
      BY <3>1 DEF Goes
    <3>3. \A n \in 1 .. attempt[r] : CallOf(r, n) \in Call /\ answer[CallOf(r, n)] = "retryable"
      <4>1. \A n \in 1 .. attempt[r] : CallOf(r, n) \in Call
        BY <2>0, AttemptMade, CallFacts
      <4>2. CASE attempt[r] = 0
        BY <2>0, <4>2, Attempts
      <4>3. CASE attempt[r] > 0
        <5>1. answer[CallOf(r, attempt[r])] = "retryable"
          BY <2>0, <2>2, <4>3, FirstAttempt DEF HonestOf, TheCall
        <5>2. \A n \in 1 .. attempt[r] : n = attempt[r] \/ n \in 1 .. attempt[r] - 1
          BY <2>0, Attempts
        <5>. QED  BY <2>0, <4>1, <5>1, <5>2 DEF HonestOf
      <4>. QED  BY <2>0, <4>2, <4>3, Attempts
    <3>4. \A n \in 1 .. attempt'[r] - 1 : answer'[CallOf(r, n)] = "retryable"
      <4>1. \A n \in 1 .. attempt[r] : answer'[CallOf(r, n)] = "retryable"
        BY <1>0, <3>3 DEF Stays
      <4>. QED  BY <2>0, <2>2, <4>1, Attempts
    <3>. QED  BY <3>2, <3>4 DEF HonestOf
  <2>. QED  BY <2>1, <2>2 DEF Goes
<1>. QED  BY <1>2, <1>3 DEF HonestInv

\* The request r goes on to phase p, with reply o, and no other does.
Turns(r, p, o) ==
    /\ phase'[r] = p /\ reply'[r] = o
    /\ \A s \in Req \ {r} : phase'[s] = phase[s] /\ reply'[s] = reply[s]

\* Posting, going on, joining and telling turn one request to its next phase.
LEMMA TurnForms ==
    ASSUME ReqInv, NEW r \in Req, NEW p, NEW o
    PROVE  /\ Post(r, o, p) => Turns(r, p, o)
           /\ Goto(r, p) => Turns(r, p, reply[r])
           /\ Join(r, o) => Turns(r, "joining", o)
           /\ Tell(r, p) => Turns(r, p, reply[r])
<1>1. phase \in [Req -> Phases] /\ reply \in [Req -> Replies]
  BY DEF ReqInv, ReqType
<1>. QED  BY <1>1 DEF Post, Goto, Join, Tell, Turns

\* An action for a request takes it one phase on.
LEMMA ReqGoes ==
    ASSUME ReqInv, CallInv, HonestInv, NEW r \in Req, ReqActs(r)
    PROVE  Goes(r)
<1>0. /\ attempt \in [Req -> 0 .. MaxRetries + 1] /\ AttemptsOf(r) /\ KindOf(r) /\ SaidOf(r)
      /\ reply[r] = "result" => attempt[r] > 0
  BY DEF ReqInv, ReqType, HonestInv, HonestOf
<1>1. phase[r] \notin Told \cup {"joining"} => reply[r] # "result"
  BY <1>0 DEF SaidOf, None
<1>2. ASSUME NEW p, NEW o, Turns(r, p, o), attempt' = attempt, p # "looping", p # "delaying",
             o = "result" => reply[r] = "result"
                             \/ (attempt[r] > 0 /\ answer[TheCall(r)] \in {"result", "retryable"})
      PROVE  Goes(r)
  BY <1>0, <1>2 DEF Goes, Turns
<1>3. CASE \/ RecvWorkspace(r) \/ RecvLlm(r) \/ PopToken(r) \/ Refuse(r) \/ Closed(r) \/ Release(r)
  <2>1. attempt' = attempt
    BY <1>3 DEF RecvWorkspace, RecvLlm, PopToken, Refuse, Closed, Release
  <2>2. \/ \E o \in {"cancelled", "capacity", "invalid_args", "tool_failed"}, p \in {"ended", "releasing"} :
             Post(r, o, p)
        \/ \E p \in {"queued", "serving", "ended", "draining"} : Goto(r, p)
    BY <1>3 DEF RecvWorkspace, RecvLlm, PopToken, Refuse, Closed, Release
  <2>3. \/ \E o \in {"cancelled", "capacity", "invalid_args", "tool_failed"}, p \in {"ended", "releasing"} :
             Turns(r, p, o)
        \/ \E p \in {"queued", "serving", "ended", "draining"} : Turns(r, p, reply[r])
    BY <2>2, TurnForms
  <2>. QED  BY <1>2, <2>1, <2>3
<1>4. CASE Beat(r) \/ BeatStops(r) \/ Cancel(r)
  <2>1. attempt' = attempt /\ phase' = phase /\ reply' = reply
    BY <1>4 DEF Beat, BeatStops, Cancel, reqVars
  <2>. QED  BY <1>0, <2>1 DEF Goes
<1>5. CASE ReplyLlm(r)
  <2>1. attempt' = attempt /\ Post(r, reply[r], "ended")
    BY <1>5 DEF ReplyLlm
  <2>2. Turns(r, "ended", reply[r])
    BY <2>1, TurnForms
  <2>. QED  BY <1>2, <2>1, <2>2
<1>6. CASE ReturnWorkspace(r)
  <2>0. attempt[r] = 1 /\ TheCall(r) = CallOf(r, 1)
    <3>1. attempt[r] > 0 /\ attempt[r] <= 1 /\ attempt[r] \in Nat
      BY <1>0, <1>6, Numbers DEF ReturnWorkspace, AttemptsOf, KindOf, OnCall
    <3>. QED  BY <3>1, Numbers DEF TheCall
  <2>1. attempt' = attempt
    BY <1>6 DEF ReturnWorkspace
  <2>2. \/ Goto(r, "invalidating") \/ Post(r, "tool_failed", "releasing")
        \/ Post(r, answer[CallOf(r, 1)], "releasing")
    BY <1>6 DEF ReturnWorkspace
  <2>3. \/ Turns(r, "invalidating", reply[r]) \/ Turns(r, "releasing", "tool_failed")
        \/ Turns(r, "releasing", answer[CallOf(r, 1)])
    BY <2>2, TurnForms
  <2>. QED  BY <1>2, <2>0, <2>1, <2>3, Numbers
<1>7. CASE ReturnModels(r)
  <2>0. attempt[r] = 1 /\ TheCall(r) = CallOf(r, 1)
    BY <1>0, <1>7 DEF ReturnModels, AttemptsOf, TheCall
  <2>1. attempt' = attempt
    BY <1>7 DEF ReturnModels
  <2>2. \E o : Post(r, o, "ended") /\ (o = "result" => answer[CallOf(r, 1)] \in {"result", "retryable"})
    BY <1>7, SMTT(30) DEF ReturnModels
  <2>3. \E o : Turns(r, "ended", o) /\ (o = "result" => answer[CallOf(r, 1)] \in {"result", "retryable"})
    BY <2>2, TurnForms
  <2>. QED  BY <1>2, <2>0, <2>1, <2>3, Numbers
<1>8. CASE ReturnLlm(r)
  <2>0. attempt[r] > 0 /\ attempt' = attempt /\ reply[r] # "result"
    BY <1>0, <1>1, <1>8 DEF ReturnLlm, AttemptsOf, OnCall, Told
  <2>1. \/ \E o : Join(r, o) /\ (o = "result" => answer[TheCall(r)] = "result")
        \/ Tell(r, "delaying") /\ answer[TheCall(r)] = "retryable"
    BY <1>8, SMTT(30) DEF ReturnLlm, MayPass
  <2>2. CASE \E o : Join(r, o) /\ (o = "result" => answer[TheCall(r)] = "result")
    <3>1. \E o : Turns(r, "joining", o) /\ (o = "result" => answer[TheCall(r)] = "result")
      BY <2>2, TurnForms
    <3>. QED  BY <1>2, <2>0, <3>1
  <2>3. CASE Tell(r, "delaying") /\ answer[TheCall(r)] = "retryable"
    <3>1. Turns(r, "delaying", reply[r])
      BY <2>3, TurnForms
    <3>. QED  BY <2>0, <2>3, <3>1 DEF Turns, Goes
  <2>. QED  BY <2>1, <2>2, <2>3
<1>9. CASE Delay(r)
  <2>0. attempt' = attempt /\ reply[r] # "result" /\ phase[r] = "delaying"
    BY <1>1, <1>9 DEF Delay, Told
  <2>1. Turns(r, "joining", "cancelled") \/ Turns(r, "looping", reply[r])
    BY <1>9, TurnForms DEF Delay
  <2>. QED  BY <2>0, <2>1 DEF Turns, Goes
<1>10. CASE Acquire(r) \/ HandleLlm(r)
  <2>0. attempt[r] = 0 /\ reply[r] # "result"
    BY <1>0, <1>1, <1>10 DEF Acquire, HandleLlm, AttemptsOf, Early, Told
  <2>1. attempt' = attempt \/ attempt' = [attempt EXCEPT ![r] = 1]
    BY <1>10 DEF Acquire, HandleLlm
  <2>2. \/ Turns(r, "calling", reply[r]) \/ Turns(r, "ended", "runtime_unavailable")
        \/ Turns(r, "ended", "invalid_args") \/ Turns(r, "ended", "count")
        \/ Turns(r, "listing", reply[r]) \/ (Turns(r, "looping", reply[r]) /\ attempt' = attempt)
    <3>1. \/ Goto(r, "calling") \/ Post(r, "runtime_unavailable", "ended")
          \/ Post(r, "invalid_args", "ended") \/ Post(r, "count", "ended") \/ Goto(r, "listing")
          \/ Goto(r, "looping") /\ attempt' = attempt
      BY <1>10 DEF Acquire, HandleLlm
    <3>. QED  BY <3>1, TurnForms
  <2>3. attempt'[r] = attempt[r] \/ attempt'[r] = attempt[r] + 1
    BY <1>0, <2>0, <2>1, FirstAttempt
  <2>4. \A s \in Req \ {r} : attempt'[s] = attempt[s]
    BY <1>0, <2>1
  <2>. QED  BY <2>0, <2>2, <2>3, <2>4 DEF Turns, Goes
<1>11. CASE Attempt(r)
  <2>0. phase[r] = "looping" /\ reply[r] # "result"
    BY <1>1, <1>11 DEF Attempt, Told
  <2>1. \/ attempt' = attempt /\ Turns(r, "joining", "cancelled")
        \/ attempt' = [attempt EXCEPT ![r] = @ + 1] /\ Turns(r, "calling", reply[r])
    BY <1>11, TurnForms DEF Attempt
  <2>. QED  BY <1>0, <2>0, <2>1 DEF Turns, Goes
<1>. QED  BY <1>3, <1>4, <1>5, <1>6, <1>7, <1>8, <1>9, <1>10, <1>11 DEF ReqActs, ReqStep

\* A step of no request in its handler.
LEMMA ElseGoes ==
    ASSUME ReqInv, HonestInv, Stays, CallInv, OwnStep \/ ActorStep \/ Stop \/ UNCHANGED vars
    PROVE  HonestInv'
<1>1. attempt' = attempt /\ reply' = reply
      /\ \A s \in Req : phase'[s] = phase[s] \/ phase'[s] = "popped"
  <2>1. CASE OwnStep \/ UNCHANGED vars
    BY <2>1 DEF OwnStep, vars, reqVars
  <2>2. CASE TimerFires \/ StartLlm \/ Gone \/ Stop \/ \E b \in Bridge, g \in 1 .. Cardinality(Req) + 1 : Expire(b, g)
    BY <2>2 DEF TimerFires, StartLlm, Gone, Stop, Expire, reqVars
  <2>3. CASE PopJob
    <3>1. phase \in [Req -> Phases] /\ jobs \in Seq(Req) /\ jobs # <<>>
      BY <2>3 DEF ReqInv, ReqType, PopJob
    <3>2. /\ phase' = [phase EXCEPT ![Head(jobs)] = "popped"] /\ reply' = reply /\ attempt' = attempt
      BY <2>3 DEF PopJob, Goto
    <3>. QED  BY <3>1, <3>2
  <2>. QED  BY <2>1, <2>2, <2>3 DEF ActorStep
<1>2. ASSUME NEW s \in Req PROVE HonestOf(s)'
  <2>1. HonestOf(s) /\ attempt[s] \in 0 .. MaxRetries + 1
    BY DEF HonestInv, ReqInv, ReqType
  <2>2. \A n \in 1 .. attempt[s] : CallOf(s, n) \in Call
    BY <2>1, AttemptMade, CallFacts
  <2>3. \A c \in Call : /\ answer[c] = "retryable" => answer'[c] = "retryable"
                        /\ settled[c] \in {"result", "retryable"} => settled'[c] = settled[c]
    BY DEF Stays, Keeps, None
  <2>4. TheCall(s)' = TheCall(s) /\ (attempt[s] > 0 => TheCall(s) \in Call)
    BY <1>1, <2>1, <2>2, Attempts DEF TheCall
  <2>5. \A n \in 1 .. attempt[s] - 1 : answer'[CallOf(s, n)] = "retryable"
    BY <2>1, <2>2, <2>3, Attempts DEF HonestOf
  <2>6. phase'[s] \in {"looping", "delaying"} => phase'[s] = phase[s]
    BY <1>1
  <2>. QED  BY <1>1, <2>1, <2>3, <2>4, <2>5, <2>6 DEF HonestOf
<1>. QED  BY <1>2 DEF HonestInv

\* What is told of a request is what its calls came to.
THEOREM HonestInvariant == Spec => []HonestInv
<1>1. Init => HonestInv
  BY NoAttempt DEF Init, HonestInv, HonestOf, None
<1>2. ReqInv /\ CallInv /\ HonestInv /\ [Next]_vars => HonestInv'
  BY StepStays, NextSplits, ReqGoes, GoesKeep, ElseGoes
<1>. QED  BY <1>1, <1>2, ReqInvariant, CallInvariant, PTL DEF Spec

\* retryGenerate and handle: an attempt follows only a refusal that may pass, a
\* reply of success is the last attempt's, and after the terminal of a request
\* nothing more is said of it, by the heartbeat or by a progress callback.
THEOREM HonestReplies == Spec => []RepliesAreHonest
<1>1. ReqInv /\ HonestInv => RepliesAreHonest
  BY DEF ReqInv, SaidOf, Told, HonestInv, HonestOf, RepliesAreHonest
<1>. QED  BY <1>1, ReqInvariant, HonestInvariant, PTL

-----------------------------------------------------------------------------
(* The chain of workspace calls *)

\* workspaceTail of a child chains its active calls, each once; only the first
\* may run, and then it has the environment and will put back the child's own.
ChainActive(b) ==
    \A i \in 1 .. Len(tail[b]) : at[tail[b][i]] = b /\ Active(tail[b][i])

ChainOnce(b) == \A i, j \in 1 .. Len(tail[b]) : tail[b][i] = tail[b][j] => i = j

ChainListed(b) ==
    \A c \in Call : at[c] = b /\ Active(c) => \E i \in 1 .. Len(tail[b]) : tail[b][i] = c

ChainWaits(b) == \A i \in 1 .. Len(tail[b]) : i > 1 => node[tail[b][i]] = "queued"

ChainFirst(b) ==
    IF tail[b] # <<>> /\ node[tail[b][1]] = "running"
    THEN env[b] = tail[b][1] /\ saved[tail[b][1]] = Launch
    ELSE env[b] = Launch

ChainOK(b) ==
    ChainActive(b) /\ ChainOnce(b) /\ ChainListed(b) /\ ChainWaits(b) /\ ChainFirst(b)

ChainInv == Workspace => \A b \in Bridge : ChainOK(b)

\* Nothing has changed for the child b and the calls active on it.
SameChain(b) ==
    /\ tail'[b] = tail[b] /\ env'[b] = env[b]
    /\ \A c \in Call : at[c] = b /\ Active(c) =>
          at'[c] = b /\ node'[c] = node[c] /\ saved'[c] = saved[c]
    /\ \A c \in Call : at'[c] = b /\ node'[c] \in {"queued", "running"} => at[c] = b /\ Active(c)

\* A chain none of whose calls moves stays in order.
LEMMA ChainKeeps ==
    ASSUME NEW b \in Bridge, BridgeType, ChainOK(b), SameChain(b)
    PROVE  ChainOK(b)'
<1>0. tail[b] \in Seq(Call)
  BY DEF BridgeType
<1>1. ASSUME NEW i \in 1 .. Len(tail[b])
      PROVE  /\ tail[b][i] \in Call /\ at[tail[b][i]] = b /\ Active(tail[b][i])
             /\ at'[tail[b][i]] = b /\ node'[tail[b][i]] = node[tail[b][i]]
             /\ saved'[tail[b][i]] = saved[tail[b][i]]
  <2>1. tail[b][i] \in Call
    BY <1>0, Elements
  <2>2. at[tail[b][i]] = b /\ Active(tail[b][i])
    BY DEF ChainOK, ChainActive
  <2>. QED  BY <2>1, <2>2 DEF SameChain
<1>2. tail'[b] = tail[b] /\ env'[b] = env[b]
  BY DEF SameChain
<1>3. tail[b] # <<>> => 1 \in 1 .. Len(tail[b])
  BY <1>0, Elements
<1>4. IF tail'[b] # <<>> /\ node'[tail'[b][1]] = "running"
      THEN env'[b] = tail'[b][1] /\ saved'[tail'[b][1]] = Launch
      ELSE env'[b] = Launch
  BY <1>1, <1>2, <1>3 DEF ChainOK, ChainFirst
<1>5. \A c \in Call : at'[c] = b /\ node'[c] \in {"queued", "running"} =>
         \E i \in 1 .. Len(tail[b]) : tail[b][i] = c
  BY DEF ChainOK, ChainActive, ChainOnce, ChainListed, ChainWaits, ChainFirst, SameChain
<1>6. \A i \in 1 .. Len(tail'[b]) :
         /\ at'[tail'[b][i]] = b /\ node'[tail'[b][i]] \in {"queued", "running"}
         /\ i > 1 => node'[tail'[b][i]] = "queued"
  BY <1>1, <1>2 DEF ChainOK, ChainActive, ChainOnce, ChainListed, ChainWaits, ChainFirst, Active
<1>7. \A i, j \in 1 .. Len(tail'[b]) : tail'[b][i] = tail'[b][j] => i = j
  BY <1>2 DEF ChainOK, ChainActive, ChainOnce, ChainListed, ChainWaits, ChainFirst
<1>8. ChainActive(b)' /\ ChainWaits(b)'
  BY <1>6 DEF ChainActive, ChainWaits, Active
<1>9. ChainOnce(b)' /\ ChainListed(b)' /\ ChainFirst(b)'
  BY <1>2, <1>4, <1>5, <1>7 DEF ChainOnce, ChainListed, ChainFirst, Active
<1>. QED  BY <1>8, <1>9 DEF ChainOK

\* The actors leave the chains alone: a call enters one when Node reads its line.
LEMMA ChainUses ==
    ASSUME ReqInv, CallInv, Uses, NEW b \in Bridge
    PROVE  SameChain(b)
<1>1. UNCHANGED nodeVars /\ at \in [Call -> Bridge \cup {NoBridge}] /\ b # NoBridge
  BY PiAssumption DEF Uses, ReqInv, ReqType
<1>2. \A c \in Call : at'[c] # at[c] => at[c] = NoBridge
  BY <1>1 DEF Uses
<1>3. \A c \in Call : node[c] # "none" => at[c] \in Bridge
  BY OnItsBridge
<1>4. NoBridge \notin Bridge
  BY PiAssumption
<1>5. tail' = tail /\ env' = env /\ node' = node /\ saved' = saved
  BY <1>1 DEF nodeVars
<1>6. \A c \in Call : node[c] \in {"queued", "running"} => at'[c] = at[c]
  BY <1>2, <1>3, <1>4
<1>. QED  BY <1>5, <1>6 DEF SameChain, Active

\* A request that Node reads goes to the end of its child's chain.
LEMMA ChainReads ==
    ASSUME CallInv, NEW b \in Bridge, NodeReads(b, TRUE), \A a \in Bridge : ChainOK(a)
    PROVE  \A a \in Bridge : ChainOK(a)'
<1> DEFINE f == Head(toNode[b])  c == Head(toNode[b]).call
<1>0. /\ BridgeType /\ tail \in [Bridge -> Seq(Call)] /\ toNode[b] \in Seq(Line) /\ toNode[b] # <<>>
      /\ node \in [Call -> {"none", "queued", "running", "ended"}]
      /\ UNCHANGED <<env, saved, at>>
  BY DEF CallInv, BridgeType, NodeReads, goVars
<1>1. f = toNode[b][1] /\ f \in Line /\ 1 \in 1 .. Len(toNode[b])
  <2>1. IsTail(Tail(toNode[b]), toNode[b]) /\ f \in Line
    BY <1>0, TailOf
  <2>. QED  BY <2>1 DEF IsTail
<1>2. c \in Call /\ f.kind \in {"request", "cancel"}
  BY <1>1 DEF Line
<1>3. f.kind = "request" => at[c] = b /\ node[c] = "none"
  <2>1. NodeOK(b)
    BY DEF CallInv
  <2>. QED  BY <1>1, <2>1 DEF NodeOK, IsRequest
<1>4. /\ f.kind = "request" => /\ node' = [node EXCEPT ![c] = "queued"]
                               /\ tail' = [tail EXCEPT ![b] = Append(@, c)]
      /\ f.kind = "cancel" => UNCHANGED <<tail, node>>
  BY DEF NodeReads
<1>. HIDE DEF f, c
<1>5. CASE f.kind = "cancel"
  <2>1. \A a \in Bridge : SameChain(a)
    BY <1>0, <1>4, <1>5 DEF SameChain, Active
  <2>. QED  BY <1>0, <2>1, ChainKeeps
<1>6. CASE f.kind = "request"
  <2>1. /\ node'[c] = "queued" /\ \A d \in Call \ {c} : node'[d] = node[d]
        /\ tail'[b] = Append(tail[b], c) /\ \A a \in Bridge \ {b} : tail'[a] = tail[a]
    BY <1>0, <1>2, <1>4, <1>6
  <2>2. ASSUME NEW a \in Bridge \ {b} PROVE ChainOK(a)'
    <3>1. SameChain(a)
      BY <1>0, <1>2, <1>3, <1>6, <2>1 DEF SameChain, Active
    <3>. QED  BY <1>0, <3>1, ChainKeeps
  <2>3. ChainOK(b)'
    <3> DEFINE n == Len(tail'[b])
    <3>. tail[b] \in Seq(Call) /\ IsAppend(tail'[b], tail[b], c)
      <4>1. tail[b] \in Seq(Call) /\ c \in Call
        BY <1>0, <1>2
      <4>2. IsAppend(Append(tail[b], c), tail[b], c)
        BY <4>1, AppendOf
      <4>. QED  BY <2>1, <4>1, <4>2
    <3>1. /\ n \in 1 .. n /\ tail'[b][n] = c /\ tail'[b] # <<>>
          /\ \A i \in 1 .. n : i # n => i \in 1 .. Len(tail[b]) /\ tail'[b][i] = tail[b][i]
          /\ \A i \in 1 .. Len(tail[b]) : i \in 1 .. n /\ i # n
      BY DEF IsAppend
    <3>2. ASSUME NEW i \in 1 .. Len(tail[b])
          PROVE  /\ at[tail[b][i]] = b /\ Active(tail[b][i]) /\ tail[b][i] # c
                 /\ tail[b][i] \in Call /\ node'[tail[b][i]] = node[tail[b][i]]
      <4>1. tail[b][i] \in Call
        BY Elements
      <4>2. at[tail[b][i]] = b /\ Active(tail[b][i])
        BY DEF ChainOK, ChainActive
      <4>3. tail[b][i] # c
        BY <1>3, <1>6, <4>2 DEF Active
      <4>. QED  BY <2>1, <4>1, <4>2, <4>3
    <3>. HIDE DEF n
    <3>0. ChainOK(b) /\ at[c] = b /\ at' = at
      BY <1>0, <1>3, <1>6
    <3>3. ASSUME NEW i \in 1 .. n PROVE at'[tail'[b][i]] = b /\ node'[tail'[b][i]] \in {"queued", "running"}
      <4>1. CASE i = n
        BY <2>1, <3>0, <3>1, <4>1
      <4>2. CASE i # n
        <5>1. i \in 1 .. Len(tail[b]) /\ tail'[b][i] = tail[b][i]
          BY <3>1, <4>2
        <5>2. at[tail[b][i]] = b /\ Active(tail[b][i]) /\ node'[tail[b][i]] = node[tail[b][i]]
          BY <3>2, <5>1
        <5>. QED  BY <3>0, <5>1, <5>2 DEF Active
      <4>. QED  BY <4>1, <4>2
    <3>4. ASSUME NEW i \in 1 .. n, NEW j \in 1 .. n PROVE tail'[b][i] = tail'[b][j] => i = j
      <4>1. CASE i = n
        BY <3>1, <3>2, <4>1
      <4>2. CASE j = n
        BY <3>1, <3>2, <4>2
      <4>3. CASE i # n /\ j # n
        BY <3>0, <3>1, <4>3 DEF ChainOK, ChainOnce
      <4>. QED  BY <4>1, <4>2, <4>3
    <3>5. ASSUME NEW d \in Call, at'[d] = b, node'[d] \in {"queued", "running"}
          PROVE  \E i \in 1 .. n : tail'[b][i] = d
      <4>1. CASE d = c
        BY <3>1, <4>1
      <4>2. CASE d # c
        <5>1. at[d] = b /\ Active(d)
          BY <1>0, <2>1, <3>5, <4>2 DEF Active
        <5>2. PICK i \in 1 .. Len(tail[b]) : tail[b][i] = d
          BY <3>0, <5>1 DEF ChainOK, ChainListed
        <5>3. i \in 1 .. n /\ i # n
          BY <3>1
        <5>. QED  BY <3>1, <5>2, <5>3
      <4>. QED  BY <4>1, <4>2
    <3>6. ASSUME NEW i \in 1 .. n PROVE i > 1 => node'[tail'[b][i]] = "queued"
      <4>1. CASE i = n
        BY <2>1, <3>1, <4>1
      <4>2. CASE i # n
        BY <3>0, <3>1, <3>2, <4>2 DEF ChainOK, ChainWaits
      <4>. QED  BY <4>1, <4>2
    <3>7. IF tail'[b] # <<>> /\ node'[tail'[b][1]] = "running"
          THEN env'[b] = tail'[b][1] /\ saved'[tail'[b][1]] = Launch
          ELSE env'[b] = Launch
      <4>1. CASE tail[b] = <<>>
        <5>1. n = 1
          BY <4>1, Nothing, FirstAttempt DEF n, IsAppend
        <5>. QED  BY <1>0, <2>1, <3>1, <4>1, <5>1 DEF ChainOK, ChainActive, ChainOnce, ChainListed, ChainWaits, ChainFirst
      <4>2. CASE tail[b] # <<>>
        <5>1. 1 \in 1 .. Len(tail[b]) /\ 1 \in 1 .. n /\ 1 # n
          BY <3>1, <4>2, Elements
        <5>2. tail'[b][1] = tail[b][1] /\ node'[tail[b][1]] = node[tail[b][1]]
          BY <3>1, <3>2, <5>1
        <5>3. ChainFirst(b)
          BY <3>0 DEF ChainOK
        <5>. QED  BY <1>0, <3>1, <4>2, <5>2, <5>3 DEF ChainFirst
      <4>. QED  BY <4>1, <4>2
    <3>. QED  BY <3>3, <3>4, <3>5, <3>6, <3>7
              DEF ChainOK, ChainActive, ChainOnce, ChainListed, ChainWaits, ChainFirst, Active, n
  <2>. QED  BY <2>2, <2>3
<1>. QED  BY <1>2, <1>5, <1>6

\* The first of a chain takes its turn, and leaves it when it settles.
LEMMA ChainMoves ==
    ASSUME ReqInv, CallInv, NEW c \in Call, TakeTurn(c) \/ Settle(c, Endings),
           \A a \in Bridge : ChainOK(a)
    PROVE  \A a \in Bridge : ChainOK(a)'
<1>0. /\ BridgeType /\ tail \in [Bridge -> Seq(Call)] /\ env \in [Bridge -> Call \cup {Launch}]
      /\ node \in [Call -> {"none", "queued", "running", "ended"}]
      /\ saved \in [Call -> Call \cup {Launch}] /\ UNCHANGED at
  BY DEF CallInv, BridgeType, TakeTurn, Settle, goVars
<1>1. node[c] \in {"queued", "running"} /\ at[c] \in Bridge /\ Active(c)
  <2>1. node[c] \in {"queued", "running"}
    BY DEF TakeTurn, Settle
  <2>. QED  BY <2>1, OnItsBridge DEF Active
<1>10. PICK b \in Bridge : b = at[c]
  BY <1>1
<1>2. /\ tail[b] \in Seq(Call) /\ tail[b] # <<>> /\ 1 \in 1 .. Len(tail[b])
      /\ \E i \in 1 .. Len(tail[b]) : tail[b][i] = c
  <2>1. \E i \in 1 .. Len(tail[b]) : tail[b][i] = c
    BY <1>1, <1>10 DEF ChainOK, ChainListed
  <2>2. tail[b] \in Seq(Call)
    BY <1>0, <1>1
  <2>. QED  BY <2>1, <2>2, Places
<1>3. tail[b][1] = c
  <2>1. CASE TakeTurn(c)
    <3>1. Head(tail[b]) = c
      BY <1>10, <2>1 DEF TakeTurn
    <3>. QED  BY <1>2, <3>1, Elements
  <2>2. CASE Settle(c, Endings)
    <3>1. PICK i \in 1 .. Len(tail[b]) : tail[b][i] = c
      BY <1>2
    <3>2. ~(i > 1)
      BY <2>2, <3>1 DEF Settle, ChainOK, ChainWaits
    <3>3. i = 1
      BY <1>2, <3>2, Places
    <3>. QED  BY <3>1, <3>3
  <2>. QED  BY <2>1, <2>2
<1>4. ASSUME NEW a \in Bridge \ {b} PROVE ChainOK(a)'
  <2>1. /\ tail'[a] = tail[a] /\ env'[a] = env[a]
        /\ \A d \in Call \ {c} : node'[d] = node[d] /\ saved'[d] = saved[d]
    BY <1>10, <1>0 DEF TakeTurn, Settle, Inactive
  <2>2. SameChain(a)
    BY <1>10, <1>0, <2>1 DEF SameChain, Active
  <2>. QED  BY <1>0, <2>2, ChainKeeps
<1>5. CASE TakeTurn(c)
  <2>1. /\ tail' = tail /\ env'[b] = c /\ saved'[c] = env[b] /\ node'[c] = "running"
        /\ node[c] = "queued" /\ \A d \in Call \ {c} : node'[d] = node[d]
    BY <1>10, <1>0, <1>1, <1>5 DEF TakeTurn
  <2>2. env[b] = Launch
    BY <1>1, <1>3, <2>1 DEF ChainOK, ChainActive, ChainOnce, ChainListed, ChainWaits, ChainFirst
  <2>3. ASSUME NEW i \in 1 .. Len(tail[b]) PROVE tail[b][i] \in Call /\ (i > 1 => tail[b][i] # c)
    <3>1. tail[b][i] \in Call
      BY <1>2, Elements
    <3>2. tail[b][i] = c => i = 1
      BY <1>2, <1>3 DEF ChainOK, ChainOnce
    <3>. QED  BY <1>2, <3>1, <3>2, Places
  <2>4. ASSUME NEW i \in 1 .. Len(tail[b])
        PROVE  /\ node'[tail[b][i]] \in {"queued", "running"}
               /\ i > 1 => node'[tail[b][i]] = "queued"
    <3>1. node[tail[b][i]] \in {"queued", "running"} /\ (i > 1 => node[tail[b][i]] = "queued")
      BY DEF ChainOK, ChainActive, ChainWaits, Active
    <3>. QED  BY <2>1, <2>3, <3>1
  <2>5. \A d \in Call : at[d] = b /\ node'[d] \in {"queued", "running"} =>
           \E i \in 1 .. Len(tail[b]) : tail[b][i] = d
    BY <1>1, <1>2, <2>1 DEF ChainOK, ChainListed, Active
  <2>6. ChainOK(b)'
    <3>0. ChainOK(b) /\ at' = at /\ tail' = tail
      BY <1>0, <2>1
    <3>1. ChainOnce(b)' /\ ChainActive(b)' /\ ChainWaits(b)'
      <4>1. ChainOnce(b)'
        BY <3>0 DEF ChainOK, ChainOnce
      <4>2. ChainActive(b)' /\ ChainWaits(b)'
        BY <2>4, <3>0 DEF ChainOK, ChainActive, ChainWaits, Active
      <4>. QED  BY <4>1, <4>2
    <3>2. ChainListed(b)'
      BY <1>0, <2>1, <2>5 DEF ChainListed, Active
    <3>3. ChainFirst(b)'
      BY <1>0, <1>1, <1>2, <1>3, <2>1, <2>2 DEF ChainFirst
    <3>. QED  BY <3>1, <3>2, <3>3 DEF ChainOK
  <2>. QED  BY <1>4, <2>6
<1>6. CASE Settle(c, Endings)
  <2> DEFINE q == Tail(tail[b])
  <2>1. /\ tail'[b] = q /\ env'[b] = saved[c] /\ saved' = saved /\ node'[c] = "ended"
        /\ node[c] = "running" /\ \A d \in Call \ {c} : node'[d] = node[d]
    BY <1>10, <1>0, <1>1, <1>2, <1>6 DEF Settle, Inactive, Restored
  <2>2. saved[c] = Launch
    BY <1>1, <1>2, <1>3, <2>1 DEF ChainOK, ChainActive, ChainOnce, ChainListed, ChainWaits, ChainFirst
  <2>3. ASSUME NEW i \in 1 .. Len(q)
        PROVE  /\ i + 1 \in 1 .. Len(tail[b]) /\ i + 1 > 1 /\ i + 1 # 1
               /\ q[i] = tail[b][i + 1] /\ q[i] \in Call
    <3>1. IsTail(q, tail[b]) /\ q \in Seq(Call)
      BY <1>2, TailOf
    <3>. QED  BY <3>1, Elements DEF IsTail
  <2>4. ASSUME NEW i \in 1 .. Len(q) PROVE q[i] # c
    <3>1. q[i] = c => i + 1 = 1
      BY <1>2, <1>3, <2>3 DEF ChainOK, ChainOnce
    <3>. QED  BY <2>3, <3>1
  <2>5. ASSUME NEW i \in 1 .. Len(q) PROVE at[q[i]] = b /\ node'[q[i]] = "queued"
    <3>1. at[tail[b][i + 1]] = b /\ node[tail[b][i + 1]] = "queued"
      BY <2>3 DEF ChainOK, ChainActive, ChainWaits
    <3>. QED  BY <2>1, <2>3, <2>4, <3>1
  <2>6. ASSUME NEW i \in 1 .. Len(q), NEW j \in 1 .. Len(q), q[i] = q[j] PROVE i = j
    <3>1. i + 1 = j + 1
      <4>1. /\ i + 1 \in 1 .. Len(tail[b]) /\ j + 1 \in 1 .. Len(tail[b])
            /\ tail[b][i + 1] = tail[b][j + 1]
        BY <2>3, <2>6
      <4>. QED  BY <4>1 DEF ChainOK, ChainOnce
    <3>2. IsTail(q, tail[b])
      BY <1>2, TailOf
    <3>. QED  BY <3>1, <3>2 DEF IsTail
  <2>7. ASSUME NEW d \in Call, at[d] = b /\ node'[d] \in {"queued", "running"}
        PROVE  \E i \in 1 .. Len(q) : q[i] = d
    <3>1. d # c /\ Active(d)
      BY <2>1, <2>7 DEF Active
    <3>2. PICK i \in 1 .. Len(tail[b]) : tail[b][i] = d
      BY <1>1, <2>7, <3>1 DEF ChainOK, ChainListed
    <3>3. i # 1
      BY <1>3, <3>1, <3>2
    <3>4. i - 1 \in 1 .. Len(q) /\ q[i - 1] = d
      <4>1. IsTail(q, tail[b])
        BY <1>2, TailOf
      <4>. QED  BY <3>2, <3>3, <4>1 DEF IsTail
    <3>. QED  BY <3>4
  <2>8. q # <<>> => 1 \in 1 .. Len(q)
    BY <1>2, TailOf, Elements
  <2>. HIDE DEF q
  <2>9. ~(q # <<>> /\ node'[q[1]] = "running")
    BY <2>5, <2>8
  <2>10. ChainOK(b)'
    <3>1. \A i \in 1 .. Len(q) : /\ at'[q[i]] = b /\ node'[q[i]] \in {"queued", "running"}
                                 /\ i > 1 => node'[q[i]] = "queued"
      BY <1>0, <2>5
    <3>2. ChainActive(b)' /\ ChainWaits(b)'
      BY <2>1, <3>1 DEF ChainActive, ChainWaits, Active
    <3>3. ChainOnce(b)' /\ ChainListed(b)'
      BY <1>0, <2>1, <2>6, <2>7 DEF ChainOnce, ChainListed, Active
    <3>4. ChainFirst(b)'
      BY <2>1, <2>2, <2>9 DEF ChainFirst
    <3>. QED  BY <3>2, <3>3, <3>4 DEF ChainOK
  <2>. QED  BY <1>4, <2>10
<1>. QED  BY <1>5, <1>6

\* The actor's kind is fixed.
LEMMA KindStays == ReqInv /\ [Next]_vars => kind' = kind
<1>. SUFFICES ASSUME ReqInv, [Next]_vars PROVE kind' = kind
  OBVIOUS
<1>1. ASSUME NEW r \in Req, ReqActs(r) PROVE kind' = kind
  BY <1>1 DEF ReqActs, ReqStep, PopToken, Acquire, ReturnWorkspace, Closed, Release, HandleLlm,
     ReturnModels, Attempt, ReturnLlm, Delay, BeatStops, ReplyLlm, RecvWorkspace, RecvLlm, Refuse,
     Beat, Cancel, actorVars
<1>2. CASE ActorStep \/ Stop
  BY <1>2 DEF ActorStep, PopJob, TimerFires, StartLlm, Gone, Expire, Stop, actorVars
<1>3. CASE OwnStep \/ UNCHANGED vars
  BY <1>3 DEF OwnStep, vars, actorVars
<1>. QED  BY <1>1, <1>2, <1>3, NextSplits

\* Every step keeps the chains in order.
LEMMA ChainStepKeeps == ReqInv /\ CallInv /\ ChainInv /\ [Next]_vars => ChainInv'
<1>. SUFFICES ASSUME ReqInv, CallInv, ChainInv, [Next]_vars, Workspace'
              PROVE  \A b \in Bridge : ChainOK(b)'
  BY DEF ChainInv
<1>0. kind' = kind
  BY KindStays
<1>1. BridgeType /\ Workspace /\ \A b \in Bridge : ChainOK(b)
  BY <1>0 DEF CallInv, ChainInv, Workspace
<1>2. ASSUME UNCHANGED <<tail, env, node, saved, at>> PROVE \A b \in Bridge : ChainOK(b)'
  <2>1. \A b \in Bridge : SameChain(b)
    BY <1>2 DEF SameChain, Active
  <2>. QED  BY <1>1, <2>1, ChainKeeps
<1>3. ASSUME NEW c \in Call, TakeFrame(c) \/ Issue(c) \/ SeeCancel(c) \/ SeeDone(c) \/ Deliver(c) \/ Update(c)
      PROVE  \A b \in Bridge : ChainOK(b)'
  <2>1. UNCHANGED <<tail, env, node, saved, at>>
    BY <1>3 DEF TakeFrame, Issue, SeeCancel, SeeDone, Deliver, Update, nodeVars, goVars
  <2>. QED  BY <1>2, <2>1
<1>4. ASSUME NEW a \in Bridge, WaitReturns(a) \/ ReadFrame(a) \/ Dies(a)
      PROVE  \A b \in Bridge : ChainOK(b)'
  <2>1. UNCHANGED <<tail, env, node, saved, at>>
    BY <1>4 DEF WaitReturns, ReadFrame, Dies, nodeVars, goVars
  <2>. QED  BY <1>2, <2>1
<1>5. ASSUME NEW a \in Bridge, NodeReads(a, Workspace) PROVE \A b \in Bridge : ChainOK(b)'
  <2>1. NodeReads(a, TRUE)
    <3>1. Workspace = TRUE
      BY <1>1 DEF Workspace
    <3>. QED  BY <1>5, <3>1
  <2>. QED  BY <1>1, <2>1, ChainReads
<1>6. CASE OwnStep
  BY <1>1, <1>3, <1>4, <1>5, <1>6, ChainMoves DEF OwnStep, BridgeStep
<1>7. CASE (\E r \in Req : ReqActs(r)) \/ ActorStep \/ Stop \/ UNCHANGED vars
  <2>1. Uses
    BY <1>1, <1>7, ActorUses, QuietUses DEF vars
  <2>. QED  BY <1>1, <2>1, ChainUses, ChainKeeps
<1>. QED  BY <1>6, <1>7, NextSplits

\* Of a chain in order only the first runs, and it runs in its own environment.
LEMMA RunsFirst == BridgeType /\ ChainInv => EnvIsOwn
<1>. SUFFICES ASSUME BridgeType, ChainInv, Workspace, NEW b \in Bridge
              PROVE  LET running == {c \in OnBridge(b) : node[c] = "running"} IN
                     IF running = {} THEN env[b] = Launch ELSE running = {env[b]}
  BY DEF EnvIsOwn
<1> DEFINE running == {c \in OnBridge(b) : node[c] = "running"}
<1>1. ChainOK(b) /\ tail[b] \in Seq(Call)
  BY DEF ChainInv, BridgeType
<1>2. ASSUME NEW c \in running PROVE tail[b] # <<>> /\ tail[b][1] = c
  <2>1. PICK i \in 1 .. Len(tail[b]) : tail[b][i] = c /\ node[c] = "running"
    BY <1>1 DEF ChainOK, ChainActive, ChainOnce, ChainListed, ChainWaits, ChainFirst, OnBridge, Active
  <2>2. ~(i > 1)
    BY <1>1, <2>1 DEF ChainOK, ChainWaits
  <2>. QED  BY <1>1, <2>1, <2>2, Places
<1>3. tail[b] # <<>> /\ node[tail[b][1]] = "running" => tail[b][1] \in running
  <2>1. tail[b] # <<>> => 1 \in 1 .. Len(tail[b]) /\ tail[b][1] \in Call
    BY <1>1, Elements
  <2>. QED  BY <1>1, <2>1 DEF ChainOK, ChainActive, OnBridge
<1>4. \A c \in running : node[c] = "running"
  OBVIOUS
<1>. HIDE DEF running
<1>5. IF running = {} THEN env[b] = Launch ELSE running = {env[b]}
  <2>1. CASE tail[b] # <<>> /\ node[tail[b][1]] = "running"
    <3>1. env[b] = tail[b][1] /\ tail[b][1] \in running
      BY <1>1, <1>3, <2>1 DEF ChainOK, ChainFirst
    <3>. QED  BY <1>2, <3>1
  <2>2. CASE ~(tail[b] # <<>> /\ node[tail[b][1]] = "running")
    <3>1. env[b] = Launch
      BY <1>1, <2>2 DEF ChainOK, ChainFirst
    <3>. QED  BY <1>2, <1>4, <2>2, <3>1
  <2>. QED  BY <2>1, <2>2
<1>. QED  BY <1>5 DEF running

\* withWorkspaceEnvironment: the workspace calls of a child run one at a time, in
\* the order of their requests, and the one that runs has its own environment.
THEOREM OwnEnvironment == Spec => []EnvIsOwn
<1>1. Init => ChainInv
  <2>. SUFFICES ASSUME Init, NEW b \in Bridge PROVE ChainOK(b)
    BY DEF ChainInv
  <2>1. tail[b] = <<>> /\ 1 .. Len(tail[b]) = {} /\ env[b] = Launch
    BY Nothing DEF Init, BridgeInit
  <2>2. \A c \in Call : ~Active(c)
    BY DEF Init, BridgeInit, Active
  <2>. QED  BY <2>1, <2>2 DEF ChainOK, ChainActive, ChainOnce, ChainListed, ChainWaits, ChainFirst
<1>2. CallInv /\ ChainInv => EnvIsOwn
  BY RunsFirst DEF CallInv
<1>. QED  BY <1>1, <1>2, ChainStepKeeps, ReqInvariant, CallInvariant, PTL DEF Spec

-----------------------------------------------------------------------------
(* The pool *)

\* The requests that use the session's bridge.
Users == {r \in Req : phase[r] \in {"calling", "releasing"} /\ at[CallOf(r, 1)] = entry}

Using == OnCall \cup {"invalidating", "releasing", "draining"}

\* A call on b found it broken.
Broken(b) == \E c \in OnBridge(b) : answer[c] \in {"exited", "unavailable", "write_failed"}

\* A child that runs with its stdin open is the session's; one that was never
\* started is nobody's.
ChildOK(b) ==
    /\ done[b] => proc[b] = "dead"
    /\ proc[b] = "none" => stdin[b] /\ entry # b /\ \A c \in Call : at[c] # b
    /\ proc[b] = "up" /\ stdin[b] => entry = b

\* A request that waits on a bridge has one, and loses it to nobody but another
\* call that found it broken.
UseOf(r) ==
    /\ phase[r] \in Using => at[TheCall(r)] \in Bridge
    /\ phase[r] = "invalidating" => ~stdin[at[TheCall(r)]]
    /\ life = "serving" /\ phase[r] \in OnCall /\ ~stdin[at[TheCall(r)]] => Broken(at[TheCall(r)])

\* entry.inflight counts the requests that use the entry's bridge.
CountOK == Workspace => inflight = Cardinality(Users)

\* The bridge of an entry is never one that Close was called on; pi-llm keeps its
\* bridge, and closes it only at the end of its life.
EntryOK ==
    /\ Workspace => /\ entry # NoBridge => stdin[entry]
                    /\ life # "starting"
    /\ ~Workspace => /\ inflight = 0
                     /\ life = "starting" => entry = NoBridge
                     /\ life \in {"starting", "serving"} => \A b \in Bridge : stdin[b]
                     /\ entry = NoBridge => /\ \A b \in Bridge : proc[b] = "none"
                                            /\ \A r \in Req : phase[r] = "new"
                     /\ life = "serving" => entry # NoBridge

PoolInv == (\A b \in Bridge : ChildOK(b)) /\ (\A r \in Req : UseOf(r)) /\ CountOK /\ EntryOK

\* The workers, or the running requests of pi-llm, are never more than allowed.
BusyInv == Cardinality(Busy) <= MaxConcurrency

\* How a step that is not about the pool leaves the children and the actor.
GoOn(b) ==
    /\ proc'[b] = proc[b] \/ (proc[b] = "up" /\ proc'[b] = "dead")
    /\ done'[b] => done[b] \/ proc[b] = "dead"

Ahead == life' = life \/ life' \in {"closing", "gone"}

AtStays == \A c \in Call : at[c] # NoBridge => at'[c] = at[c]

\* How sets of requests are counted.  It is proved below, by Counted, from the
\* library's theorems on finite sets, which come into the module only there.
Counting ==
    \A S \in SUBSET Req :
        /\ Cardinality(S) \in Nat /\ (Cardinality(S) = 0 <=> S = {})
        /\ \A r \in Req : Cardinality({r}) = 1
        /\ \A r \in Req : r \notin S => Cardinality(S \cup {r}) = Cardinality(S) + 1
        /\ \A r \in S : Cardinality(S \ {r}) = Cardinality(S) - 1
        /\ \A T \in SUBSET S : Cardinality(T) <= Cardinality(S)

\* The pool's mutex and the workers: what most of the lemmas below start from.
PoolFacts ==
    /\ ReqInv /\ BridgeType /\ PoolInv /\ Stays /\ AtStays /\ kind' = kind
    /\ Counting

\* What was found broken stays so.
LEMMA BrokenStays ==
    ASSUME PoolFacts, NEW b \in Bridge, Broken(b)
    PROVE  Broken(b)'
<1>1. b # NoBridge /\ None \notin {"exited", "unavailable", "write_failed"}
  BY PiAssumption DEF None
<1>2. PICK c \in Call : at[c] = b /\ answer[c] \in {"exited", "unavailable", "write_failed"}
  BY DEF Broken, OnBridge
<1>3. at'[c] = b /\ answer'[c] = answer[c]
  BY <1>1, <1>2 DEF PoolFacts, AtStays, Stays
<1>. QED  BY <1>2, <1>3 DEF Broken, OnBridge

\* The call of a request that uses a bridge.
LEMMA UserCall ==
    ASSUME ReqInv, NEW r \in Req, phase[r] \in Using
    PROVE  TheCall(r) \in Call /\ (Workspace => attempt[r] = 1 /\ TheCall(r) = CallOf(r, 1))
<1>1. /\ attempt[r] \in 0 .. MaxRetries + 1 /\ attempt[r] > 0 /\ MaxRetries \in Nat
      /\ Workspace => attempt[r] <= 1
  BY CallFacts DEF ReqInv, ReqType, AttemptsOf, KindOf, Using
<1>2. attempt[r] \in 1 .. MaxRetries + 1 /\ (Workspace => attempt[r] = 1)
  BY <1>1, Numbers, Attempts, AttemptMade
<1>. QED  BY <1>2, CallFacts DEF TheCall

\* A request that does not move keeps its bridge.
LEMMA UseStays ==
    ASSUME PoolFacts, NEW s \in Req, Ahead, phase'[s] = phase[s], attempt'[s] = attempt[s],
           \A b \in Bridge : stdin'[b] => stdin[b],
           life' = "serving" /\ phase[s] \in OnCall /\ at[TheCall(s)] \in Bridge
              /\ stdin[at[TheCall(s)]] /\ ~stdin'[at[TheCall(s)]] => Broken(at[TheCall(s)])
    PROVE  UseOf(s)'
<1>0. UseOf(s) /\ ReqInv /\ NoBridge \notin Bridge
  BY PiAssumption DEF PoolFacts, PoolInv
<1>1. TheCall(s)' = TheCall(s)
  BY DEF TheCall, CallOf
<1>2. phase[s] \in Using => at[TheCall(s)] \in Bridge /\ at'[TheCall(s)] = at[TheCall(s)]
  BY <1>0, UserCall DEF UseOf, PoolFacts, AtStays
<1>3. phase[s] = "invalidating" => phase[s] \in Using /\ ~stdin[at[TheCall(s)]]
  BY <1>0 DEF UseOf, Using
<1>4. phase[s] \in OnCall => phase[s] \in Using
  BY DEF Using
<1>5. life' = "serving" => life = "serving"
  BY DEF Ahead
<1>6. ASSUME life' = "serving", phase[s] \in OnCall, ~stdin'[at[TheCall(s)]]
      PROVE  \E c \in Call : /\ at'[c] = at[TheCall(s)]
                             /\ answer'[c] \in {"exited", "unavailable", "write_failed"}
  <2>1. PICK b \in Bridge : b = at[TheCall(s)]
    BY <1>2, <1>4, <1>6
  <2>2. Broken(b)
    BY <1>0, <1>5, <1>6, <2>1 DEF UseOf
  <2>3. Broken(b)'
    BY <2>2, BrokenStays
  <2>. QED  BY <2>1, <2>3 DEF Broken, OnBridge
<1>7. (life = "serving" /\ phase[s] \in OnCall /\ ~stdin[at[TheCall(s)]] => Broken(at[TheCall(s)]))'
  BY <1>1, <1>2, <1>4, <1>6 DEF Broken, OnBridge
<1>8. (phase[s] \in Using => at[TheCall(s)] \in Bridge)'
  BY <1>1, <1>2 DEF Using, OnCall
<1>9. (phase[s] = "invalidating" => ~stdin[at[TheCall(s)]])'
  BY <1>1, <1>2, <1>3
<1>. QED  BY <1>7, <1>8, <1>9 DEF UseOf

\* The request s neither begins to use a bridge nor leaves the session's.
CalmOf(s) ==
    \/ phase'[s] = phase[s] /\ attempt'[s] = attempt[s]
    \/ phase'[s] \notin Using /\ (Workspace => s \notin Users)
    \/ /\ Workspace /\ phase[s] \in {"calling", "invalidating"} /\ phase'[s] = "releasing"
       /\ attempt'[s] = attempt[s]

\* A step that leaves the entry and the count alone keeps the pool.
LEMMA PoolCalm ==
    ASSUME PoolFacts, Ahead, UNCHANGED <<entry, inflight, stdin, at>>,
           \A b \in Bridge : GoOn(b), \A s \in Req : CalmOf(s),
           ~Workspace /\ entry = NoBridge => \A s \in Req : phase'[s] = "new"
    PROVE  PoolInv'
<1>0. /\ PoolInv /\ ReqInv /\ NoBridge \notin Bridge /\ kind' = kind
      /\ entry' = entry /\ inflight' = inflight /\ stdin' = stdin /\ at' = at
  BY PiAssumption DEF PoolFacts
<1>1. ASSUME NEW b \in Bridge PROVE ChildOK(b)'
  <2>1. ChildOK(b) /\ GoOn(b)
    BY <1>0 DEF PoolInv
  <2>. QED  BY <1>0, <2>1 DEF ChildOK, GoOn
<1>2. ASSUME NEW s \in Req PROVE UseOf(s)'
  <2>1. CASE phase'[s] = phase[s] /\ attempt'[s] = attempt[s]
    BY <1>0, <2>1, UseStays
  <2>2. CASE phase'[s] \notin Using
    BY <2>2 DEF UseOf, Using, OnCall
  <2>3. CASE phase[s] \in {"calling", "invalidating"} /\ phase'[s] = "releasing" /\ attempt'[s] = attempt[s]
    <3>1. UseOf(s) /\ phase[s] \in Using /\ TheCall(s)' = TheCall(s)
      BY <1>0, <2>3 DEF PoolInv, Using, OnCall, TheCall, CallOf
    <3>. QED  BY <1>0, <2>3, <3>1 DEF UseOf, OnCall
  <2>. QED  BY <2>1, <2>2, <2>3 DEF CalmOf
<1>3. CountOK'
  <2>. SUFFICES ASSUME Workspace PROVE inflight' = Cardinality(Users)'
    BY <1>0 DEF CountOK, Workspace
  <2>1. ASSUME NEW s \in Req PROVE s \in Users' <=> s \in Users
    <3>1. CASE phase'[s] = phase[s]
      BY <1>0, <3>1 DEF Users
    <3>2. CASE phase'[s] \notin Using /\ s \notin Users
      BY <3>2 DEF Users, Using, OnCall
    <3>3. CASE phase[s] = "calling" /\ phase'[s] = "releasing"
      BY <1>0, <3>3 DEF Users
    <3>4. CASE phase[s] = "invalidating" /\ phase'[s] = "releasing"
      <4>1. UseOf(s) /\ EntryOK /\ phase[s] \in Using
        BY <1>0, <3>4 DEF PoolInv, Using
      <4>2. at[CallOf(s, 1)] # entry
        BY <1>0, <3>4, <4>1, UserCall DEF UseOf, EntryOK
      <4>. QED  BY <1>0, <3>4, <4>2 DEF Users
    <3>. QED  BY <3>1, <3>2, <3>3, <3>4 DEF CalmOf
  <2>2. Users' = Users
    <3>1. Users' \subseteq Req /\ Users \subseteq Req
      BY DEF Users
    <3>. QED  BY <2>1, <3>1
  <2>. QED  BY <1>0, <2>2 DEF PoolInv, CountOK
<1>4. EntryOK'
  <2>1. Workspace' = Workspace
    BY <1>0 DEF Workspace
  <2>2. ASSUME ~Workspace, entry = NoBridge PROVE \A b \in Bridge : proc'[b] = "none"
    BY <1>0, <2>2 DEF PoolInv, EntryOK, GoOn
  <2>. QED  BY <1>0, <2>1, <2>2 DEF PoolInv, EntryOK, Ahead
<1>. QED  BY <1>1, <1>2, <1>3, <1>4 DEF PoolInv

\* The users of an entry are requests.
LEMMA UsersAsk == Users \in SUBSET Req
  BY DEF Users

\* Acquire with a live entry, and the calls of pi-llm: one more request on the
\* bridge of the entry.
LEMMA PoolTakes ==
    ASSUME PoolFacts, NEW r \in Req, UNCHANGED <<entry, stdin, proc, done, life>>,
           entry # NoBridge, attempt[r] + 1 \in 1 .. MaxRetries + 1,
           at[CallOf(r, attempt[r] + 1)] = NoBridge,
           at' = [at EXCEPT ![CallOf(r, attempt[r] + 1)] = entry],
           phase[r] \notin Using, phase'[r] \in OnCall, attempt'[r] = attempt[r] + 1,
           \A s \in Req \ {r} : phase'[s] = phase[s] /\ attempt'[s] = attempt[s],
           Workspace => inflight' = inflight + 1 /\ phase'[r] = "calling" /\ attempt[r] = 0,
           ~Workspace => inflight' = inflight
    PROVE  PoolInv'
<1> DEFINE c == CallOf(r, attempt[r] + 1)
<1>0. /\ PoolInv /\ ReqInv /\ NoBridge \notin Bridge /\ kind' = kind /\ entry \in Bridge /\ entry' = entry
      /\ stdin' = stdin /\ proc' = proc /\ done' = done /\ life' = life
      /\ at \in [Call -> Bridge \cup {NoBridge}] /\ attempt[r] \in Nat
  <2>1. attempt[r] \in 0 .. MaxRetries + 1 /\ MaxRetries \in Nat
    BY CallFacts DEF PoolFacts, ReqInv, ReqType
  <2>2. attempt[r] \in Nat
    BY <2>1, Numbers
  <2>. QED  BY <2>2, PiAssumption DEF PoolFacts, ReqInv, ReqType
<1>1. c \in Call /\ at[c] = NoBridge /\ at' = [at EXCEPT ![c] = entry]
  BY CallFacts
<1>2. /\ at'[c] = entry /\ \A d \in Call \ {c} : at'[d] = at[d]
      /\ TheCall(r)' = c
  BY <1>0, <1>1 DEF TheCall, CallOf
<1>3. ASSUME NEW b \in Bridge PROVE ChildOK(b)'
  <2>1. ChildOK(b) /\ (proc[b] = "none" => entry # b)
    BY <1>0 DEF PoolInv, ChildOK
  <2>2. proc[b] = "none" => \A d \in Call : at'[d] # b
    BY <1>2, <2>1 DEF ChildOK
  <2>. QED  BY <1>0, <2>1, <2>2 DEF ChildOK
<1>4. life = "serving" => stdin[entry]
  BY <1>0 DEF PoolInv, EntryOK
<1>5. ASSUME NEW s \in Req PROVE UseOf(s)'
  <2>1. CASE s = r
    <3>1. phase'[r] # "invalidating"
      BY DEF OnCall
    <3>2. (at[TheCall(r)] = entry)' /\ entry' \in Bridge /\ (life' = "serving" => stdin'[entry'])
      BY <1>0, <1>2, <1>4
    <3>3. UseOf(r)'
      BY <3>1, <3>2 DEF UseOf
    <3>. QED  BY <2>1, <3>3
  <2>2. CASE s # r
    BY <1>0, <2>2, UseStays DEF Ahead
  <2>. QED  BY <2>1, <2>2
<1>6. CountOK'
  <2>. SUFFICES ASSUME Workspace PROVE inflight' = Cardinality(Users)'
    BY <1>0 DEF CountOK, Workspace
  <2>1. c = CallOf(r, 1) /\ phase'[r] = "calling" /\ inflight' = inflight + 1
    BY FirstAttempt
  <2>2. r \in Users' /\ r \notin Users
    BY <1>0, <1>2, <2>1 DEF Users, Using, OnCall
  <2>3. ASSUME NEW s \in Req \ {r} PROVE s \in Users' <=> s \in Users
    <3>1. CallOf(s, 1) # CallOf(r, 1) /\ CallOf(s, 1) \in Call
      BY OwnCall
    <3>. QED  BY <1>0, <1>2, <2>1, <3>1 DEF Users
  <2>4. Users' = Users \cup {r}
    <3>1. Users' \subseteq Req /\ Users \subseteq Req
      BY DEF Users
    <3>. QED  BY <2>2, <2>3, <3>1
  <2>5. Cardinality(Users \cup {r}) = Cardinality(Users) + 1
    BY <2>2, UsersAsk DEF PoolFacts, Counting
  <2>. QED  BY <1>0, <2>1, <2>4, <2>5 DEF PoolInv, CountOK
<1>7. EntryOK'
  BY <1>0 DEF PoolInv, EntryOK, Workspace
<1>. QED  BY <1>3, <1>5, <1>6, <1>7 DEF PoolInv

\* Acquire with no live entry: a child of its own, that nobody used before.
LEMMA PoolStarts ==
    ASSUME PoolFacts, NEW r \in Req, NEW b \in Bridge, Workspace,
           UNCHANGED <<stdin, done, life>>,
           proc[b] = "none", proc' = [proc EXCEPT ![b] = "up"], entry # NoBridge => done[entry],
           entry' = b, inflight' = 1, 1 \in 1 .. MaxRetries + 1,
           at[CallOf(r, 1)] = NoBridge, at' = [at EXCEPT ![CallOf(r, 1)] = b],
           phase'[r] = "calling", attempt'[r] = 1,
           \A s \in Req \ {r} : phase'[s] = phase[s] /\ attempt'[s] = attempt[s]
    PROVE  PoolInv'
<1> DEFINE c == CallOf(r, 1)
<1>0. /\ PoolInv /\ ReqInv /\ NoBridge \notin Bridge /\ kind' = kind
      /\ stdin' = stdin /\ done' = done /\ life' = life /\ proc \in [Bridge -> {"none", "up", "dead"}]
      /\ at \in [Call -> Bridge \cup {NoBridge}] /\ entry \in Bridge \cup {NoBridge}
  BY PiAssumption DEF PoolFacts, ReqInv, ReqType, BridgeType
<1>1. c \in Call
  BY CallFacts
<1>2. /\ at'[c] = b /\ \A d \in Call \ {c} : at'[d] = at[d] /\ at[d] # b
      /\ TheCall(r)' = c
  BY <1>0, <1>1 DEF TheCall, CallOf, PoolInv, ChildOK
<1>3. ASSUME NEW a \in Bridge PROVE ChildOK(a)'
  <2>1. ChildOK(a) /\ ChildOK(b) /\ (entry \in Bridge => ChildOK(entry))
    BY <1>0 DEF PoolInv
  <2>2. CASE a = b
    BY <1>0, <2>1, <2>2 DEF ChildOK
  <2>3. CASE a # b
    <3>0. proc'[a] = proc[a]
      BY <1>0, <2>3
    <3>1. entry = a => proc[a] = "dead"
      <4>1. entry = a => done[a]
        BY <1>0
      <4>. QED  BY <2>1, <4>1 DEF ChildOK
    <3>. QED  BY <1>0, <1>2, <2>1, <2>3, <3>0, <3>1 DEF ChildOK
  <2>. QED  BY <2>2, <2>3
<1>4. stdin[b]
  BY <1>0 DEF PoolInv, ChildOK
<1>5. ASSUME NEW s \in Req PROVE UseOf(s)'
  <2>1. CASE s = r
    <3>1. (at[TheCall(r)] = b)' /\ stdin'[b]
      BY <1>0, <1>2, <1>4
    <3>2. UseOf(r)'
      BY <3>1 DEF UseOf
    <3>. QED  BY <2>1, <3>2
  <2>2. CASE s # r
    BY <1>0, <2>2, UseStays DEF Ahead
  <2>. QED  BY <2>1, <2>2
<1>6. CountOK'
  <2>1. r \in Users'
    BY <1>2 DEF Users
  <2>2. ASSUME NEW s \in Req \ {r} PROVE s \notin Users'
    <3>1. CallOf(s, 1) # c /\ CallOf(s, 1) \in Call
      BY OwnCall
    <3>. QED  BY <1>2, <3>1 DEF Users
  <2>3. Users' = {r}
    <3>1. Users' \subseteq Req
      BY DEF Users
    <3>. QED  BY <2>1, <2>2, <3>1
  <2>. QED  BY <2>3, UsersAsk DEF CountOK, PoolFacts, Counting
<1>7. EntryOK'
  BY <1>0, <1>4 DEF PoolInv, EntryOK, Workspace
<1>. QED  BY <1>3, <1>5, <1>6, <1>7 DEF PoolInv

\* What becomes of a request when the entry leaves the pool.
DropOf(s) ==
    \/ /\ phase'[s] = phase[s] /\ attempt'[s] = attempt[s]
       /\ life' = "serving" /\ phase[s] \in OnCall /\ stdin' # stdin =>
             at[TheCall(s)] # entry \/ Broken(entry)
    \/ phase'[s] \notin Using
    \/ /\ attempt'[s] = attempt[s] /\ phase[s] \in Using
       /\ \/ phase'[s] = "draining"
          \/ phase'[s] = "invalidating" /\ at[TheCall(s)] = entry /\ ~stdin'[entry]

\* The entry is given up: its child is told to end, or has ended.
LEMMA PoolDrops ==
    ASSUME PoolFacts, Workspace, Ahead, UNCHANGED <<proc, done, at>>, entry' = NoBridge, inflight' = 0,
           \/ entry # NoBridge /\ stdin' = [stdin EXCEPT ![entry] = FALSE]
           \/ stdin' = stdin /\ (entry # NoBridge => done[entry]),
           \A s \in Req : DropOf(s)
    PROVE  PoolInv'
<1>0. /\ PoolInv /\ ReqInv /\ NoBridge \notin Bridge /\ kind' = kind
      /\ proc' = proc /\ done' = done /\ at' = at /\ stdin \in [Bridge -> BOOLEAN]
      /\ entry \in Bridge \cup {NoBridge}
  BY PiAssumption DEF PoolFacts, ReqInv, ReqType, BridgeType
<1>1. \A b \in Bridge : /\ stdin'[b] => stdin[b]
                        /\ b # entry => stdin'[b] = stdin[b]
                        /\ b = entry => ~stdin'[b] \/ done[b]
  BY <1>0
<1>2. ASSUME NEW b \in Bridge PROVE ChildOK(b)'
  <2>1. ChildOK(b)
    BY <1>0 DEF PoolInv
  <2>2. entry' # b
    BY <1>0
  <2>. QED  BY <1>0, <1>1, <2>1, <2>2 DEF ChildOK
<1>3. ASSUME NEW s \in Req PROVE UseOf(s)'
  <2>1. CASE /\ phase'[s] = phase[s] /\ attempt'[s] = attempt[s]
             /\ life' = "serving" /\ phase[s] \in OnCall /\ stdin' # stdin =>
                   at[TheCall(s)] # entry \/ Broken(entry)
    <3>1. ASSUME life' = "serving", phase[s] \in OnCall, at[TheCall(s)] \in Bridge,
                 stdin[at[TheCall(s)]], ~stdin'[at[TheCall(s)]]
          PROVE  Broken(at[TheCall(s)])
      <4>1. at[TheCall(s)] = entry /\ stdin' # stdin
        BY <1>1, <3>1
      <4>. QED  BY <2>1, <3>1, <4>1
    <3>. QED  BY <1>1, <2>1, <3>1, UseStays
  <2>2. CASE phase'[s] \notin Using
    BY <2>2 DEF UseOf, Using, OnCall
  <2>3. CASE /\ attempt'[s] = attempt[s] /\ phase[s] \in Using
             /\ \/ phase'[s] = "draining"
                \/ phase'[s] = "invalidating" /\ at[TheCall(s)] = entry /\ ~stdin'[entry]
    <3>1. UseOf(s) /\ TheCall(s)' = TheCall(s)
      BY <1>0, <2>3 DEF PoolInv, TheCall, CallOf
    <3>. QED  BY <1>0, <2>3, <3>1 DEF UseOf, OnCall
  <2>. QED  BY <2>1, <2>2, <2>3 DEF DropOf
<1>4. CountOK'
  <2>1. ASSUME NEW s \in Req, phase'[s] \in {"calling", "releasing"} PROVE at'[CallOf(s, 1)] # NoBridge
    <3>1. phase'[s] \in Using /\ phase'[s] = phase[s]
      BY <2>1 DEF DropOf, Using, OnCall
    <3>2. UseOf(s) /\ phase[s] \in Using
      BY <1>0, <3>1 DEF PoolInv
    <3>. QED  BY <1>0, <3>2, UserCall DEF UseOf
  <2>2. Users' = {}
    BY <2>1 DEF Users
  <2>. QED  BY <2>2 DEF CountOK, PoolFacts, Counting
<1>5. EntryOK'
  BY <1>0 DEF PoolInv, EntryOK, Workspace, Ahead
<1>. QED  BY <1>2, <1>3, <1>4, <1>5 DEF PoolInv

\* Release of an entry that stays in the pool.
LEMMA PoolLeaves ==
    ASSUME PoolFacts, NEW r \in Users, Workspace, UNCHANGED <<entry, stdin, at, proc, done, life>>,
           inflight' = inflight - 1, phase'[r] \notin Using,
           \A s \in Req \ {r} : phase'[s] = phase[s] /\ attempt'[s] = attempt[s]
    PROVE  PoolInv'
<1>0. /\ PoolInv /\ ReqInv /\ kind' = kind /\ r \in Req
      /\ entry' = entry /\ stdin' = stdin /\ at' = at /\ proc' = proc /\ done' = done /\ life' = life
  BY DEF PoolFacts, Users
<1>1. ASSUME NEW b \in Bridge PROVE ChildOK(b)'
  <2>1. ChildOK(b)
    BY <1>0 DEF PoolInv
  <2>. QED  BY <1>0, <2>1 DEF ChildOK
<1>2. ASSUME NEW s \in Req PROVE UseOf(s)'
  <2>1. CASE s = r
    BY <2>1 DEF UseOf, Using, OnCall
  <2>2. CASE s # r
    BY <1>0, <2>2, UseStays DEF Ahead
  <2>. QED  BY <2>1, <2>2
<1>3. CountOK'
  <2>1. Users' = Users \ {r}
    <3>1. r \notin Users'
      BY DEF Users, Using, OnCall
    <3>2. \A s \in Req \ {r} : s \in Users' <=> s \in Users
      BY <1>0 DEF Users
    <3>3. Users' \subseteq Req /\ Users \subseteq Req
      BY DEF Users
    <3>. QED  BY <3>1, <3>2, <3>3
  <2>2. Cardinality(Users \ {r}) = Cardinality(Users) - 1
    BY UsersAsk DEF PoolFacts, Counting
  <2>. QED  BY <1>0, <2>1, <2>2 DEF PoolInv, CountOK
<1>4. EntryOK'
  BY <1>0 DEF PoolInv, EntryOK, Workspace
<1>. QED  BY <1>1, <1>2, <1>3, <1>4 DEF PoolInv

\* The handler of a request.
LEMMA PoolReq ==
    ASSUME PoolFacts, CallInv, NEW r \in Req, Goes(r), ReqActs(r)
    PROVE  PoolInv'
<1>0. /\ PoolInv /\ ReqInv /\ NoBridge \notin Bridge /\ kind' = kind /\ MaxRetries \in Nat
      /\ AttemptsOf(r) /\ OpenOf(r) /\ KindOf(r) /\ UseOf(r) /\ EntryOK
      /\ entry \in Bridge \cup {NoBridge}
  BY PiAssumption, CallFacts DEF PoolFacts, ReqInv, ReqType, PoolInv
<1>1. \A s \in Req \ {r} : phase'[s] = phase[s] /\ attempt'[s] = attempt[s]
  BY DEF Goes
<1>2. ASSUME UNCHANGED <<entry, inflight, stdin, at, proc, done, life>>, CalmOf(r),
             phase'[r] = phase[r] \/ Workspace \/ entry # NoBridge
      PROVE  PoolInv'
  <2>1. \A s \in Req : CalmOf(s)
    BY <1>1, <1>2 DEF CalmOf
  <2>2. ASSUME ~Workspace, entry = NoBridge, NEW s \in Req PROVE phase'[s] = "new"
    BY <1>0, <1>1, <1>2, <2>2 DEF EntryOK
  <2>3. Ahead /\ \A b \in Bridge : GoOn(b)
    BY <1>2 DEF Ahead, GoOn
  <2>. QED  BY <1>2, <2>1, <2>2, <2>3, PoolCalm
<1>3. entry = NoBridge /\ ~Workspace => phase[r] = "new" /\ life # "serving"
  BY <1>0 DEF EntryOK
<1>4. CASE RecvWorkspace(r) \/ RecvLlm(r) \/ PopToken(r) \/ Refuse(r)
  <2>1. UNCHANGED <<entry, inflight, stdin, at, proc, done, life>>
    BY <1>4 DEF RecvWorkspace, RecvLlm, PopToken, Refuse, bridgeVars, goVars, childVars, poolVars, actorVars
  <2>2. \/ \E o \in {"cancelled", "capacity", "invalid_args"} : Post(r, o, "ended")
        \/ Goto(r, "queued") \/ Goto(r, "serving")
    BY <1>4 DEF RecvWorkspace, RecvLlm, PopToken, Refuse
  <2>3. phase'[r] \in {"ended", "queued", "serving"}
    BY <1>0, <2>2, TurnForms DEF Turns
  <2>4. phase[r] \in {"new", "popped", "serving"} /\ (phase[r] = "new" => Workspace \/ life = "serving")
    BY <1>4 DEF RecvWorkspace, RecvLlm, PopToken, Refuse
  <2>5. CalmOf(r)
    BY <2>3, <2>4 DEF CalmOf, Users, Using, OnCall
  <2>. QED  BY <1>2, <1>3, <2>1, <2>4, <2>5
<1>5. CASE Beat(r) \/ BeatStops(r) \/ Cancel(r)
  <2>1. UNCHANGED <<entry, inflight, stdin, at, proc, done, life, phase, attempt>>
    BY <1>5 DEF Beat, BeatStops, Cancel, bridgeVars, goVars, childVars, poolVars, actorVars, reqVars
  <2>2. CalmOf(r)
    BY <2>1 DEF CalmOf
  <2>. QED  BY <1>2, <2>1, <2>2
<1>6. ASSUME UNCHANGED <<entry, inflight, stdin, at, proc, done, life>>, ~Workspace, phase[r] # "new",
             phase'[r] \notin Using
      PROVE  PoolInv'
  BY <1>2, <1>3, <1>6 DEF CalmOf
<1>7. ASSUME UNCHANGED <<entry, inflight, stdin, proc, done, life>>, ~Workspace,
             phase[r] \in {"serving", "looping"}, NEW p \in OnCall, Turns(r, p, reply[r]),
             attempt' = [attempt EXCEPT ![r] = @ + 1],
             Take(CallOf(r, attempt[r] + 1), entry), attempt[r] <= MaxRetries
      PROVE  PoolInv'
  <2>1. attempt \in [Req -> 0 .. MaxRetries + 1] /\ attempt[r] + 1 \in 1 .. MaxRetries + 1
    BY <1>0, <1>7, Numbers DEF ReqInv, ReqType
  <2>2. at[CallOf(r, attempt[r] + 1)] = NoBridge
    <3>1. attempt[r] + 1 > attempt[r]
      BY <2>1, Numbers, Later
    <3>. QED  BY <1>0, <2>1, <3>1 DEF AttemptsOf
  <2>3. /\ entry # NoBridge /\ phase[r] \notin Using /\ phase'[r] \in OnCall
        /\ attempt'[r] = attempt[r] + 1
    BY <1>3, <1>7, <2>1 DEF Turns, Using, OnCall
  <2>4. at' = [at EXCEPT ![CallOf(r, attempt[r] + 1)] = entry]
    BY <1>7 DEF Take
  <2>. QED  BY <1>1, <1>7, <2>1, <2>2, <2>3, <2>4, PoolTakes
<1>8. CASE ReturnModels(r) \/ ReturnLlm(r) \/ Delay(r) \/ ReplyLlm(r)
  <2>1. UNCHANGED <<entry, inflight, stdin, at, proc, done, life>>
    BY <1>8 DEF ReturnModels, ReturnLlm, Delay, ReplyLlm, bridgeVars, goVars, childVars, poolVars, actorVars
  <2>2. phase[r] # "new" /\ ~Workspace
    BY <1>0, <1>8 DEF ReturnModels, ReturnLlm, Delay, ReplyLlm, KindOf, OfLlm, Workspace
  <2>3. \/ \E o : Post(r, o, "ended") \/ Join(r, o)
        \/ Tell(r, "delaying") \/ Goto(r, "looping")
    BY <1>8 DEF ReturnModels, ReturnLlm, Delay, ReplyLlm
  <2>4. phase'[r] \notin Using
    <3>1. \E p \in {"ended", "joining", "delaying", "looping"} : \E o : Turns(r, p, o)
      BY <1>0, <2>3, TurnForms
    <3>. QED  BY <3>1 DEF Turns, Using, OnCall
  <2>. QED  BY <1>6, <2>1, <2>2, <2>4
<1>9. CASE HandleLlm(r)
  <2>1. UNCHANGED <<entry, inflight, stdin, proc, done, life>>
    BY <1>9 DEF HandleLlm, childVars, poolVars, actorVars
  <2>2. phase[r] = "serving" /\ ~Workspace /\ attempt[r] = 0 /\ attempt[r] <= MaxRetries
    <3>1. phase[r] = "serving" /\ ~Workspace /\ attempt[r] = 0
      BY <1>0, <1>9 DEF HandleLlm, Workspace, AttemptsOf, Early
    <3>. QED  BY <3>1, FirstAttempt
  <2>3. CASE ((\E o : Post(r, o, "ended")) \/ Goto(r, "looping")) /\ UNCHANGED goVars
    <3>1. \E p \in {"ended", "looping"} : \E o : Turns(r, p, o)
      BY <1>0, <2>3, TurnForms
    <3>2. phase'[r] \notin Using /\ at' = at
      BY <2>3, <3>1 DEF Turns, Using, OnCall, goVars
    <3>. QED  BY <1>6, <2>1, <2>2, <3>2
  <2>4. CASE Goto(r, "listing") /\ attempt' = [attempt EXCEPT ![r] = 1] /\ Take(CallOf(r, 1), entry)
    <3>1. Turns(r, "listing", reply[r]) /\ "listing" \in OnCall
      BY <1>0, <2>4, TurnForms DEF OnCall
    <3>2. attempt' = [attempt EXCEPT ![r] = @ + 1] /\ Take(CallOf(r, attempt[r] + 1), entry)
      BY <2>2, <2>4, FirstAttempt
    <3>. QED  BY <1>7, <2>1, <2>2, <3>1, <3>2
  <2>. QED  BY <1>9, <2>3, <2>4 DEF HandleLlm
<1>10. CASE Attempt(r)
  <2>1. UNCHANGED <<entry, inflight, stdin, proc, done, life>>
    BY <1>10 DEF Attempt, childVars, poolVars, actorVars
  <2>2. phase[r] = "looping" /\ ~Workspace /\ attempt[r] <= MaxRetries
    BY <1>0, <1>10 DEF Attempt, KindOf, OfLlm, AttemptsOf
  <2>3. CASE Join(r, "cancelled") /\ UNCHANGED goVars
    <3>1. phase'[r] \notin Using /\ at' = at
      BY <1>0, <2>3, TurnForms DEF Turns, Using, OnCall, goVars
    <3>. QED  BY <1>6, <2>1, <2>2, <3>1
  <2>4. CASE /\ attempt' = [attempt EXCEPT ![r] = @ + 1] /\ Take(CallOf(r, attempt[r] + 1), entry)
             /\ Tell(r, "calling")
    <3>1. Turns(r, "calling", reply[r]) /\ "calling" \in OnCall
      BY <1>0, <2>4, TurnForms DEF OnCall
    <3>. QED  BY <1>7, <2>1, <2>2, <2>4, <3>1
  <2>. QED  BY <1>10, <2>3, <2>4 DEF Attempt
<1>11. CASE Closed(r)
  <2>1. UNCHANGED <<entry, inflight, stdin, at, proc, done, life>> /\ attempt' = attempt
    BY <1>11 DEF Closed, bridgeVars, goVars, childVars, poolVars, actorVars
  <2>2. Workspace
    BY <1>0, <1>11 DEF Closed, KindOf, OfPool
  <2>3. \/ phase[r] = "invalidating" /\ phase'[r] = "releasing"
        \/ phase[r] = "draining" /\ phase'[r] = "ended"
    BY <1>0, <1>11, TurnForms DEF Closed, Turns
  <2>4. CalmOf(r)
    BY <2>1, <2>2, <2>3 DEF CalmOf, Users, Using, OnCall
  <2>. QED  BY <1>2, <2>1, <2>2, <2>4
<1>12. ASSUME Workspace, entry # NoBridge, Discard(entry), UNCHANGED <<at, life>>, DropOf(r),
              \A s \in Req \ {r} : phase[s] \in OnCall => at[TheCall(s)] # entry \/ Broken(entry)
       PROVE  PoolInv'
  <2>1. /\ entry' = NoBridge /\ inflight' = 0 /\ proc' = proc /\ done' = done
        /\ stdin' = [stdin EXCEPT ![entry] = FALSE]
    BY <1>12 DEF Discard, Forget, CloseStdin
  <2>2. \A s \in Req : DropOf(s)
    BY <1>1, <1>12 DEF DropOf
  <2>3. Ahead
    BY <1>12 DEF Ahead
  <2>. QED  BY <1>12, <2>1, <2>2, <2>3, PoolDrops
<1>13. CASE ReturnWorkspace(r)
  <2> DEFINE c == CallOf(r, 1)
  <2>1. /\ Workspace /\ phase[r] = "calling" /\ gocall[c] = "ended" /\ attempt' = attempt
        /\ UNCHANGED <<at, life>>
    BY <1>13 DEF ReturnWorkspace, goVars, actorVars
  <2>2. phase[r] \in Using /\ TheCall(r) = c /\ c \in Call /\ at[c] \in Bridge
    <3>1. phase[r] \in Using
      BY <2>1 DEF Using, OnCall
    <3>. QED  BY <1>0, <2>1, <3>1, UserCall DEF UseOf
  <2>3. CASE (\E o : Post(r, o, "releasing")) /\ UNCHANGED <<poolVars, childVars>>
    <3>1. phase'[r] = "releasing"
      BY <1>0, <2>3, TurnForms DEF Turns
    <3>2. UNCHANGED <<entry, inflight, stdin, at, proc, done, life>>
      BY <2>1, <2>3 DEF poolVars, childVars
    <3>3. CalmOf(r)
      BY <2>1, <3>1 DEF CalmOf
    <3>. QED  BY <1>2, <2>1, <3>2, <3>3
  <2>4. CASE answer[c] \notin AllVerdicts /\ entry = at[c] /\ Discard(at[c]) /\ Goto(r, "invalidating")
    <3>1. answer[c] \in Verdict \cup Local /\ Verdict \subseteq AllVerdicts
      <4>1. CallOK(c) /\ answer[c] \in Verdict \cup Local \cup {None}
        BY <2>2 DEF CallInv, BridgeType
      <4>2. answer[c] # None
        BY <2>1, <4>1 DEF CallOK
      <4>. QED  BY <4>1, <4>2, PiAssumption
    <3>2. answer[c] \in {"exited", "unavailable", "write_failed"}
      BY <2>4, <3>1 DEF Local, AllVerdicts
    <3>3. Broken(entry)
      BY <2>2, <2>4, <3>2 DEF Broken, OnBridge
    <3>4. stdin' = [stdin EXCEPT ![entry] = FALSE] /\ stdin \in [Bridge -> BOOLEAN]
      BY <2>4 DEF Discard, CloseStdin, CallInv, BridgeType
    <3>5. phase'[r] = "invalidating" /\ ~stdin'[entry]
      BY <1>0, <2>2, <2>4, <3>4, TurnForms DEF Turns
    <3>6. DropOf(r)
      BY <2>1, <2>2, <2>4, <3>5 DEF DropOf
    <3>. QED  BY <1>0, <1>12, <2>1, <2>2, <2>4, <3>3, <3>6
  <2>. QED  BY <1>13, <2>3, <2>4 DEF ReturnWorkspace
<1>14. CASE Release(r)
  <2> DEFINE b == at[CallOf(r, 1)]
  <2>1. /\ Workspace /\ phase[r] = "releasing" /\ UNCHANGED <<at, life>>
    BY <1>0, <1>14 DEF Release, goVars, actorVars, KindOf, OfPool
  <2>2. b \in Bridge /\ attempt' = attempt
    <3>1. phase[r] \in Using
      BY <2>1 DEF Using
    <3>2. TheCall(r) = CallOf(r, 1) /\ at[TheCall(r)] \in Bridge
      BY <1>0, <2>1, <3>1, UserCall DEF UseOf
    <3>. QED  BY <1>14, <3>2 DEF Release
  <2>3. entry = b <=> r \in Users
    BY <2>1 DEF Users
  <2>4. inflight = Cardinality(Users)
    BY <1>0, <2>1 DEF PoolInv, CountOK
  <2>5. CASE entry # b /\ Goto(r, "ended") /\ UNCHANGED <<poolVars, childVars>>
    <3>1. phase'[r] \notin Using /\ UNCHANGED <<entry, inflight, stdin, proc, done>>
      <4>1. Turns(r, "ended", reply[r])
        BY <1>0, <2>5, TurnForms
      <4>. QED  BY <2>5, <4>1 DEF Turns, Using, OnCall, poolVars, childVars
    <3>2. CalmOf(r)
      BY <2>3, <2>5, <3>1 DEF CalmOf
    <3>. QED  BY <1>2, <2>1, <3>1, <3>2
  <2>6. CASE /\ entry = b /\ inflight' = inflight - 1 /\ Goto(r, "ended")
             /\ UNCHANGED <<entry, childVars>>
    <3>1. phase'[r] \notin Using /\ UNCHANGED <<entry, stdin, proc, done>>
      <4>1. Turns(r, "ended", reply[r])
        BY <1>0, <2>6, TurnForms
      <4>. QED  BY <2>6, <4>1 DEF Turns, Using, OnCall, childVars
    <3>. QED  BY <1>1, <2>1, <2>3, <2>6, <3>1, PoolLeaves
  <2>7. CASE entry = b /\ inflight = 1 /\ Discard(b) /\ Goto(r, "draining")
    <3>1. Users = {r}
      <4>1. Cardinality(Users \ {r}) = Cardinality(Users) - 1 /\ Users \ {r} \in SUBSET Req
        BY <2>3, <2>7, UsersAsk DEF PoolFacts, Counting
      <4>2. Cardinality(Users \ {r}) = 0
        BY <2>4, <2>7, <4>1, Counts
      <4>3. Users \ {r} = {}
        BY <4>1, <4>2 DEF PoolFacts, Counting
      <4>. QED  BY <2>3, <2>7, <4>3
    <3>2. ASSUME NEW s \in Req \ {r}, phase[s] \in OnCall PROVE at[TheCall(s)] # entry
      <4>1. phase[s] = "calling" /\ phase[s] \in Using
        BY <1>0, <2>1, <3>2 DEF ReqInv, KindOf, OfLlm, OnCall, Using
      <4>2. TheCall(s) = CallOf(s, 1)
        BY <1>0, <2>1, <4>1, UserCall
      <4>. QED  BY <3>1, <4>1, <4>2 DEF Users
    <3>3. DropOf(r)
      <4>1. phase'[r] = "draining" /\ phase[r] \in Using
        BY <1>0, <2>1, <2>7, TurnForms DEF Turns, Using
      <4>. QED  BY <2>2, <4>1 DEF DropOf
    <3>. QED  BY <1>0, <1>12, <2>1, <2>2, <2>7, <3>2, <3>3
  <2>8. CASE /\ entry = b /\ inflight = 1 /\ inflight' = 0 /\ Goto(r, "ended")
             /\ UNCHANGED <<entry, childVars>>
    <3>1. inflight' = inflight - 1
      BY <2>8, Counts
    <3>. QED  BY <2>6, <2>8, <3>1
  <2>. QED  BY <1>14, <2>5, <2>6, <2>7, <2>8 DEF Release, Held
<1>15. CASE Acquire(r)
  <2>1. /\ phase[r] = "serving" /\ Workspace /\ attempt' = [attempt EXCEPT ![r] = 1] /\ life' = life
        /\ attempt[r] = 0 /\ 1 \in 1 .. MaxRetries + 1 /\ phase[r] \notin Using
    BY <1>0, <1>15, FirstAttempt DEF Acquire, AttemptsOf, Early, Using, OnCall
  <2>2. at[CallOf(r, 1)] = NoBridge /\ attempt'[r] = 1
    BY <1>0, <2>1, Numbers DEF AttemptsOf, ReqInv, ReqType
  <2>3. CASE AcquireLive /\ Take(CallOf(r, 1), entry) /\ Goto(r, "calling") /\ UNCHANGED childVars
    <3>1. phase'[r] = "calling" /\ phase'[r] \in OnCall
      BY <1>0, <2>3, TurnForms DEF Turns, OnCall
    <3>2. /\ UNCHANGED <<entry, stdin, proc, done>> /\ entry # NoBridge /\ inflight' = inflight + 1
          /\ at' = [at EXCEPT ![CallOf(r, 1)] = entry]
      BY <2>3 DEF AcquireLive, OneMoreUser, childVars, Take
    <3>3. attempt[r] + 1 = 1
      BY <2>1, FirstAttempt
    <3>. QED  BY <1>1, <2>1, <2>2, <3>1, <3>2, <3>3, PoolTakes
  <2>4. ASSUME NEW b \in Bridge, AcquireFresh(b), Start(b), Take(CallOf(r, 1), b), Goto(r, "calling")
        PROVE  PoolInv'
    <3>1. phase'[r] = "calling"
      BY <1>0, <2>4, TurnForms DEF Turns
    <3>2. /\ UNCHANGED <<stdin, done>> /\ proc[b] = "none" /\ proc' = [proc EXCEPT ![b] = "up"]
          /\ entry # NoBridge => done[entry]
          /\ entry' = b /\ inflight' = 1 /\ at' = [at EXCEPT ![CallOf(r, 1)] = b]
      BY <2>4 DEF AcquireFresh, Start, Take
    <3>. QED  BY <1>1, <2>1, <2>2, <3>1, <3>2, PoolStarts
  <2>5. CASE AcquireFails /\ Post(r, "runtime_unavailable", "ended") /\ UNCHANGED <<goVars, childVars>>
    <3>1. phase'[r] \notin Using /\ UNCHANGED <<at, stdin, proc, done>>
      BY <1>0, <2>5, TurnForms DEF Turns, Using, OnCall, goVars, childVars
    <3>2. CASE UNCHANGED poolVars
      <4>1. CalmOf(r)
        BY <2>1, <3>1 DEF CalmOf, Users, Using, OnCall
      <4>. QED  BY <1>2, <2>1, <3>1, <3>2, <4>1 DEF poolVars
    <3>3. CASE Forget /\ (entry # NoBridge => done[entry])
      <4>1. \A s \in Req : DropOf(s)
        BY <1>1, <3>1 DEF DropOf
      <4>2. Ahead /\ entry' = NoBridge /\ inflight' = 0
        BY <2>1, <3>3 DEF Ahead, Forget
      <4>. QED  BY <2>1, <3>1, <3>3, <4>1, <4>2, PoolDrops
    <3>. QED  BY <2>5, <3>2, <3>3 DEF AcquireFails
  <2>. QED  BY <1>15, <2>3, <2>4, <2>5 DEF Acquire
<1>. QED  BY <1>4, <1>5, <1>8, <1>9, <1>10, <1>11, <1>13, <1>14, <1>15 DEF ReqActs, ReqStep

\* Nobody waits for the bridge of an entry that nobody uses.
LEMMA IdleEntry ==
    ASSUME PoolFacts, Workspace, inflight = 0, NEW s \in Req, phase[s] \in OnCall
    PROVE  at[TheCall(s)] # entry
<1>1. ReqInv /\ PoolInv /\ KindOf(s)
  BY DEF PoolFacts, ReqInv
<1>2. phase[s] = "calling" /\ phase[s] \in Using
  BY <1>1 DEF KindOf, OfLlm, OnCall, Using
<1>3. TheCall(s) = CallOf(s, 1)
  BY <1>1, <1>2, UserCall
<1>4. Cardinality(Users) = 0
  BY <1>1 DEF PoolInv, CountOK
<1>5. Users = {}
  BY <1>4, UsersAsk DEF PoolFacts, Counting
<1>. QED  BY <1>2, <1>3, <1>5 DEF Users

\* The steps of the bridge, of the workers and of the idle timer.
LEMMA PoolOwn ==
    ASSUME PoolFacts, \/ OwnStep \/ UNCHANGED vars \/ PopJob \/ TimerFires \/ Gone
                      \/ \E b \in Bridge, g \in 1 .. Cardinality(Req) + 1 : Expire(b, g)
    PROVE  PoolInv'
<1>0. PoolInv /\ ReqInv /\ ReqType /\ EntryOK /\ NoBridge \notin Bridge
  BY PiAssumption DEF PoolFacts, PoolInv, ReqInv
<1>1. ASSUME UNCHANGED <<entry, inflight, stdin, at, phase, attempt>>, Ahead, \A b \in Bridge : GoOn(b)
      PROVE  PoolInv'
  <2>1. \A s \in Req : CalmOf(s)
    BY <1>1 DEF CalmOf
  <2>2. ~Workspace /\ entry = NoBridge => \A s \in Req : phase'[s] = "new"
    BY <1>0, <1>1 DEF EntryOK
  <2>. QED  BY <1>1, <2>1, <2>2, PoolCalm
<1>2. CASE OwnStep
  <2>1. UNCHANGED <<entry, inflight, phase, attempt, life>> /\ BridgeStep
    BY <1>2 DEF OwnStep, poolVars
  <2>2. ASSUME NEW c \in Call, \/ TakeFrame(c) \/ Issue(c) \/ SeeCancel(c) \/ SeeDone(c) \/ Deliver(c)
                               \/ TakeTurn(c) \/ Update(c) \/ Settle(c, Endings)
        PROVE  UNCHANGED <<stdin, at, proc, done>>
    BY <2>2 DEF TakeFrame, Issue, SeeCancel, SeeDone, Deliver, TakeTurn, Update, Settle, childVars, goVars
  <2>3. ASSUME NEW b \in Bridge, ReadFrame(b) \/ NodeReads(b, Workspace)
        PROVE  UNCHANGED <<stdin, at, proc, done>>
    BY <2>3 DEF ReadFrame, NodeReads, childVars, goVars
  <2>4. CASE UNCHANGED <<stdin, at, proc, done>>
    BY <1>1, <2>1, <2>4 DEF Ahead, GoOn
  <2>5. ASSUME NEW b \in Bridge, WaitReturns(b) \/ Dies(b) PROVE PoolInv'
    <3>1. UNCHANGED <<stdin, at>> /\ proc \in [Bridge -> {"none", "up", "dead"}] /\ done \in [Bridge -> BOOLEAN]
      BY <2>5 DEF WaitReturns, Dies, goVars, PoolFacts, BridgeType
    <3>2. \/ proc[b] = "dead" /\ proc' = proc /\ done' = [done EXCEPT ![b] = TRUE]
          \/ proc[b] = "up" /\ proc' = [proc EXCEPT ![b] = "dead"] /\ done' = done
      BY <2>5 DEF WaitReturns, Dies
    <3>3. \A a \in Bridge : GoOn(a)
      BY <3>1, <3>2 DEF GoOn
    <3>. QED  BY <1>1, <2>1, <3>1, <3>3 DEF Ahead
  <2>. QED  BY <2>1, <2>2, <2>3, <2>4, <2>5 DEF BridgeStep
<1>3. CASE UNCHANGED vars \/ TimerFires \/ Gone
  <2>1. UNCHANGED <<entry, inflight, stdin, at, proc, done, phase, attempt>> /\ Ahead
    BY <1>3 DEF vars, TimerFires, Gone, bridgeVars, goVars, childVars, reqVars, poolVars, actorVars, Ahead
  <2>. QED  BY <1>1, <2>1 DEF GoOn
<1>4. CASE PopJob
  <2>1. /\ UNCHANGED <<entry, inflight, stdin, at, proc, done, attempt, life>>
        /\ phase' = [phase EXCEPT ![Head(jobs)] = "popped"] /\ jobs # <<>>
    BY <1>4 DEF PopJob, Goto, bridgeVars, goVars, childVars, poolVars, actorVars
  <2>2. jobs \in Seq(Req) /\ phase \in [Req -> Phases]
    BY <1>0 DEF ReqType
  <2>3. Head(jobs) = jobs[1] /\ 1 \in 1 .. Len(jobs)
    BY <2>1, <2>2, Elements
  <2>4. phase[Head(jobs)] = "queued" /\ Workspace
    BY <1>0, <2>1, <2>3 DEF ReqInv, QueueInv
  <2>5. ASSUME NEW s \in Req PROVE CalmOf(s)
    <3>1. CASE s = Head(jobs)
      BY <2>1, <2>2, <2>4, <3>1 DEF CalmOf, Users, Using, OnCall
    <3>2. CASE s # Head(jobs)
      BY <2>1, <2>2, <3>2 DEF CalmOf
    <3>. QED  BY <3>1, <3>2
  <2>6. Ahead /\ \A b \in Bridge : GoOn(b)
    BY <2>1 DEF Ahead, GoOn
  <2>. QED  BY <2>1, <2>4, <2>5, <2>6, PoolCalm
<1>5. ASSUME NEW b \in Bridge, NEW g, Expire(b, g) PROVE PoolInv'
  <2>1. /\ UNCHANGED <<inflight, at, phase, attempt, life>> /\ expiring # {} /\ Ahead
    BY <1>5 DEF Expire, goVars, reqVars, actorVars, Ahead
  <2>2. Workspace
    BY <1>0, <2>1 DEF ReqInv, QueueInv
  <2>3. CASE ~StillIdle(b, g)
    <3>1. UNCHANGED <<entry, stdin, proc, done>>
      BY <1>5, <2>3 DEF Expire, childVars
    <3>. QED  BY <1>1, <2>1, <3>1 DEF GoOn
  <2>4. CASE StillIdle(b, g)
    <3>1. entry' = NoBridge /\ stdin' = [stdin EXCEPT ![b] = FALSE] /\ UNCHANGED <<proc, done>>
      BY <1>5, <2>4 DEF Expire, CloseStdin
    <3>2. entry = b /\ entry # NoBridge /\ inflight = 0
      BY <1>0, <2>4 DEF StillIdle
    <3>3. \A s \in Req : DropOf(s)
      BY <2>1, <2>2, <3>2, IdleEntry DEF DropOf
    <3>. QED  BY <2>1, <2>2, <3>1, <3>2, <3>3, PoolDrops
  <2>. QED  BY <2>3, <2>4
<1>. QED  BY <1>2, <1>3, <1>4, <1>5

\* The start of pi-llm, and the stop of either actor.
LEMMA PoolLife ==
    ASSUME PoolFacts, StartLlm \/ Stop
    PROVE  PoolInv'
<1>0. /\ PoolInv /\ ReqInv /\ EntryOK /\ NoBridge \notin Bridge /\ kind' = kind
      /\ entry \in Bridge \cup {NoBridge}
  BY PiAssumption DEF PoolFacts, PoolInv, ReqInv, ReqType
<1>1. /\ proc \in [Bridge -> {"none", "up", "dead"}] /\ stdin \in [Bridge -> BOOLEAN]
      /\ Workspace' = Workspace
  BY <1>0 DEF PoolFacts, BridgeType, Workspace
<1>2. UNCHANGED <<at, phase, attempt>>
  BY DEF StartLlm, Stop, goVars, reqVars
<1>3. CASE StartLlm
  <2>1. /\ life = "starting" /\ ~Workspace /\ entry = NoBridge /\ inflight' = inflight
        /\ \A b \in Bridge : proc[b] = "none"
        /\ \A r \in Req : phase[r] = "new"
    BY <1>0, <1>3 DEF StartLlm, EntryOK
  <2>2. CASE life' = "gone" /\ UNCHANGED <<entry, childVars>>
    <3>1. UNCHANGED <<entry, stdin, proc, done>> /\ Ahead
      BY <2>2 DEF childVars, Ahead
    <3>2. \A s \in Req : CalmOf(s) /\ phase'[s] = "new"
      BY <1>2, <2>1 DEF CalmOf
    <3>. QED  BY <1>2, <2>1, <3>1, <3>2, PoolCalm DEF GoOn
  <2>3. ASSUME NEW b \in Bridge, Start(b), entry' = b, life' = "serving" PROVE PoolInv'
    <3>1. proc' = [proc EXCEPT ![b] = "up"] /\ UNCHANGED <<stdin, done>>
      BY <2>3 DEF Start
    <3>2. ASSUME NEW a \in Bridge PROVE ChildOK(a)'
      <4>1. ChildOK(a) /\ proc[a] = "none"
        BY <1>0, <2>1 DEF PoolInv
      <4>. QED  BY <1>1, <1>2, <2>3, <3>1, <4>1 DEF ChildOK
    <3>3. ASSUME NEW s \in Req PROVE UseOf(s)'
      BY <1>2, <2>1 DEF UseOf, Using, OnCall
    <3>4. CountOK'
      BY <1>1, <2>1 DEF CountOK
    <3>5. EntryOK'
      BY <1>0, <1>1, <2>1, <2>3, <3>1 DEF EntryOK
    <3>. QED  BY <3>2, <3>3, <3>4, <3>5 DEF PoolInv
  <2>. QED  BY <1>3, <2>2, <2>3 DEF StartLlm
<1>4. CASE Stop
  <2>1. life = "serving" /\ life' = "closing" /\ Ahead /\ Shut
    BY <1>4 DEF Stop, Ahead
  <2>2. CASE Workspace
    <3>1. entry' = NoBridge /\ inflight' = 0
      BY <1>4, <2>2 DEF Stop
    <3>2. \A s \in Req : DropOf(s)
      BY <1>2, <2>1 DEF DropOf
    <3>3. /\ UNCHANGED <<proc, done>>
          /\ \/ entry # NoBridge /\ stdin' = [stdin EXCEPT ![entry] = FALSE]
             \/ stdin' = stdin /\ (entry # NoBridge => done[entry])
      BY <2>1 DEF Shut, CloseStdin, childVars
    <3>. QED  BY <1>2, <2>1, <2>2, <3>1, <3>2, <3>3, PoolDrops
  <2>3. CASE ~Workspace
    <3>1. UNCHANGED <<entry, inflight>> /\ entry # NoBridge
      BY <1>0, <1>4, <2>1, <2>3 DEF Stop, poolVars, EntryOK
    <3>2. stdin' = [stdin EXCEPT ![entry] = FALSE] /\ UNCHANGED <<proc, done>>
      BY <2>1, <3>1 DEF Shut, CloseStdin
    <3>3. \A b \in Bridge : stdin'[b] => stdin[b]
      BY <1>0, <1>1, <3>1, <3>2
    <3>4. ASSUME NEW a \in Bridge PROVE ChildOK(a)'
      <4>1. ChildOK(a)
        BY <1>0 DEF PoolInv
      <4>. QED  BY <1>1, <1>2, <3>1, <3>2, <4>1 DEF ChildOK
    <3>5. ASSUME NEW s \in Req PROVE UseOf(s)'
      <4>1. life' # "serving"
        BY <2>1
      <4>. QED  BY <1>2, <2>1, <3>3, <4>1, UseStays
    <3>6. CountOK'
      BY <1>1, <2>3 DEF CountOK
    <3>7. EntryOK'
      BY <1>0, <1>1, <2>1, <2>3, <3>1 DEF EntryOK
    <3>. QED  BY <3>4, <3>5, <3>6, <3>7 DEF PoolInv
  <2>. QED  BY <2>2, <2>3
<1>. QED  BY <1>3, <1>4

\* The pool is empty at the start.
LEMMA PoolInit == Counting /\ Init => PoolInv
<1>. SUFFICES ASSUME Counting, Init PROVE PoolInv
  OBVIOUS
<1>0. NoBridge \notin Bridge /\ kind \in {"idle", "eager", "llm"}
  BY PiAssumption DEF Init
<1>1. \A b \in Bridge : ChildOK(b)
  BY <1>0 DEF Init, BridgeInit, ChildOK
<1>2. \A r \in Req : UseOf(r)
  BY DEF Init, UseOf, Using, OnCall
<1>3. CountOK
  <2>1. Users = {}
    BY DEF Init, Users
  <2>. QED  BY <2>1 DEF Counting, CountOK, Init
<1>4. EntryOK
  BY <1>0 DEF Init, BridgeInit, EntryOK, Workspace
<1>. QED  BY <1>1, <1>2, <1>3, <1>4 DEF PoolInv

\* Every step keeps the pool and the children in agreement.
LEMMA PoolStepKeeps ==
    Counting /\ ReqInv /\ CallInv /\ HonestInv /\ PoolInv /\ [Next]_vars => PoolInv'
<1>. SUFFICES ASSUME Counting, ReqInv, CallInv, HonestInv, PoolInv, [Next]_vars PROVE PoolInv'
  OBVIOUS
<1>0. BridgeType /\ Stays /\ kind' = kind /\ at \in [Call -> Bridge \cup {NoBridge}]
  BY StepStays, KindStays DEF CallInv, ReqInv, ReqType
<1>1. CASE OwnStep \/ UNCHANGED vars
  <2>1. at' = at
    <3>1. CASE UNCHANGED vars
      BY <3>1 DEF vars, bridgeVars, goVars
    <3>2. CASE BridgeStep
      BY <3>2 DEF BridgeStep, TakeFrame, Issue, SeeCancel, SeeDone, Deliver, TakeTurn, Update,
                         Settle, WaitReturns, ReadFrame, NodeReads, Dies, goVars
    <3>. QED  BY <1>1, <3>1, <3>2 DEF OwnStep
  <2>2. PoolFacts
    BY <1>0, <2>1 DEF PoolFacts, AtStays
  <2>. QED  BY <1>1, <2>2, PoolOwn
<1>2. CASE (\E r \in Req : ReqActs(r)) \/ ActorStep \/ Stop
  <2>1. Uses
    BY <1>0, <1>2, ActorUses
  <2>2. PoolFacts
    BY <1>0, <2>1 DEF PoolFacts, AtStays, Uses
  <2>3. ASSUME NEW r \in Req, ReqActs(r) PROVE PoolInv'
    BY <2>2, <2>3, ReqGoes, PoolReq
  <2>. QED  BY <1>2, <2>2, <2>3, PoolOwn, PoolLife DEF ActorStep
<1>. QED  BY <1>1, <1>2, NextSplits

\* One that begins to work finds a worker.
LEMMA BusyMoves ==
    ASSUME Counting, BusyInv, NEW r \in Req, \A s \in Req \ {r} : phase'[s] = phase[s],
           \/ r \in Busy \/ phase'[r] \in {"new", "queued", "ended"} \/ phase'[r] = phase[r]
           \/ Cardinality(Busy) < MaxConcurrency
    PROVE  BusyInv'
<1>0. /\ Busy \in SUBSET Req /\ Busy' \in SUBSET Req /\ MaxConcurrency \in Nat
      /\ Cardinality(Busy) \in Nat /\ Cardinality(Busy') \in Nat
  <2>1. Busy \in SUBSET Req /\ Busy' \in SUBSET Req /\ MaxConcurrency \in Nat
    BY PiAssumption DEF Busy
  <2>. QED  BY <2>1 DEF Counting
<1>1. \A s \in Req : s # r => (s \in Busy' <=> s \in Busy)
  BY DEF Busy
<1>2. CASE \/ r \in Busy \/ phase'[r] \in {"new", "queued", "ended"} \/ phase'[r] = phase[r]
  <2>1. r \in Busy' => r \in Busy
    BY <1>2 DEF Busy
  <2>2. Busy' \in SUBSET Busy
    BY <1>0, <1>1, <2>1
  <2>3. Cardinality(Busy') <= Cardinality(Busy)
    BY <1>0, <2>2 DEF Counting
  <2>4. /\ Cardinality(Busy) \in Nat /\ Cardinality(Busy') \in Nat /\ MaxConcurrency \in Nat
        /\ Cardinality(Busy) <= MaxConcurrency
    BY <1>0 DEF BusyInv
  <2>5. Cardinality(Busy') <= MaxConcurrency
    BY <2>3, <2>4, Counts
  <2>. QED  BY <2>5 DEF BusyInv
<1>3. CASE r \notin Busy /\ Cardinality(Busy) < MaxConcurrency
  <2>1. Busy \cup {r} \in SUBSET Req /\ Busy' \in SUBSET (Busy \cup {r})
    BY <1>0, <1>1
  <2>2. Cardinality(Busy \cup {r}) = Cardinality(Busy) + 1
    BY <1>0, <1>3 DEF Counting
  <2>3. Cardinality(Busy') <= Cardinality(Busy \cup {r})
    BY <2>1 DEF Counting
  <2>4. Cardinality(Busy) \in Nat /\ Cardinality(Busy') \in Nat /\ MaxConcurrency \in Nat
    BY <1>0
  <2>. QED  BY <1>3, <2>2, <2>3, <2>4, Counts DEF BusyInv
<1>. QED  BY <1>2, <1>3

\* No step has more requests at work than there are workers.
LEMMA BusyStepKeeps ==
    Counting /\ ReqInv /\ CallInv /\ HonestInv /\ BusyInv /\ [Next]_vars => BusyInv'
<1>. SUFFICES ASSUME Counting, ReqInv, CallInv, HonestInv, BusyInv, [Next]_vars PROVE BusyInv'
  OBVIOUS
<1>1. ASSUME phase' = phase PROVE BusyInv'
  BY <1>1 DEF BusyInv, Busy
<1>2. ASSUME NEW r \in Req, ReqActs(r) PROVE BusyInv'
  <2>0. \A s \in Req \ {r} : phase'[s] = phase[s]
    BY <1>2, ReqGoes DEF Goes
  <2>1. CASE Beat(r) \/ BeatStops(r) \/ Cancel(r)
    <3>1. phase' = phase
      BY <2>1 DEF Beat, BeatStops, Cancel, reqVars
    <3>. QED  BY <1>1, <3>1
  <2>2. CASE RecvWorkspace(r)
    <3>1. (\E o : Post(r, o, "ended")) \/ Goto(r, "queued")
      BY <2>2 DEF RecvWorkspace
    <3>2. \E p \in {"ended", "queued"} : \E o : Turns(r, p, o)
      BY <3>1, TurnForms
    <3>3. phase'[r] \in {"new", "queued", "ended"}
      BY <3>2 DEF Turns
    <3>. QED  BY <2>0, <3>3, BusyMoves
  <2>3. CASE RecvLlm(r)
    <3>1. Cardinality(Busy) < MaxConcurrency \/ Post(r, "capacity", "ended")
      BY <2>3 DEF RecvLlm
    <3>2. Cardinality(Busy) < MaxConcurrency \/ phase'[r] \in {"new", "queued", "ended"}
      BY <3>1, TurnForms DEF Turns
    <3>. QED  BY <2>0, <3>2, BusyMoves
  <2>4. CASE \/ PopToken(r) \/ Acquire(r) \/ ReturnWorkspace(r) \/ Closed(r) \/ Release(r) \/ Refuse(r)
             \/ HandleLlm(r) \/ ReturnModels(r) \/ Attempt(r) \/ ReturnLlm(r) \/ Delay(r) \/ ReplyLlm(r)
    <3>1. r \in Busy
      BY <2>4 DEF PopToken, Acquire, ReturnWorkspace, Closed, Release, Refuse, HandleLlm, ReturnModels,
                  Attempt, ReturnLlm, Delay, ReplyLlm, Busy
    <3>. QED  BY <2>0, <3>1, BusyMoves
  <2>. QED  BY <1>2, <2>1, <2>2, <2>3, <2>4 DEF ReqActs, ReqStep
<1>3. CASE PopJob
  <2>1. jobs \in Seq(Req) /\ phase \in [Req -> Phases]
    BY DEF ReqInv, ReqType
  <2>2. /\ jobs # <<>> /\ Cardinality(Busy) < MaxConcurrency
        /\ phase' = [phase EXCEPT ![Head(jobs)] = "popped"]
    BY <1>3 DEF PopJob, Goto
  <2>3. Head(jobs) \in Req
    BY <2>1, <2>2, TailOf
  <2>4. \A s \in Req \ {Head(jobs)} : phase'[s] = phase[s]
    BY <2>1, <2>2
  <2>. QED  BY <2>2, <2>3, <2>4, BusyMoves
<1>4. CASE OwnStep \/ UNCHANGED vars \/ TimerFires \/ StartLlm \/ Gone \/ Stop
           \/ \E b \in Bridge, g \in 1 .. Cardinality(Req) + 1 : Expire(b, g)
  <2>1. phase' = phase
    BY <1>4 DEF OwnStep, vars, TimerFires, StartLlm, Gone, Stop, Expire, reqVars
  <2>. QED  BY <1>1, <2>1
<1>. QED  BY <1>2, <1>3, <1>4, NextSplits DEF ActorStep

\* At the start no request holds a worker.
LEMMA BusyInit == Counting /\ Init => BusyInv
<1>. SUFFICES ASSUME Counting, Init PROVE BusyInv
  OBVIOUS
<1>1. Busy = {}
  BY DEF Init, Busy
<1>2. Cardinality(Busy) = 0
  BY <1>1 DEF Counting
<1>3. MaxConcurrency \in Nat
  BY PiAssumption
<1>4. 0 <= MaxConcurrency
  BY <1>3, Counts
<1>. QED  BY <1>2, <1>4 DEF BusyInv

\* The type invariant follows from the parts.
LEMMA PoolShape == Counting /\ ReqInv /\ BridgeType /\ PoolInv /\ BusyInv => TypeOK
<1>. SUFFICES ASSUME Counting, ReqInv, BridgeType, PoolInv, BusyInv PROVE TypeOK
  OBVIOUS
<1>1. inflight \in 0 .. MaxConcurrency
  <2>0. MaxConcurrency \in Nat
    BY PiAssumption
  <2>1. CASE Workspace
    <3>1. Users \in SUBSET Busy /\ Busy \in SUBSET Req /\ Users \in SUBSET Req
      BY DEF Users, Busy
    <3>2. /\ Cardinality(Users) <= Cardinality(Busy)
          /\ Cardinality(Users) \in Nat /\ Cardinality(Busy) \in Nat
      BY <3>1 DEF Counting
    <3>3. inflight = Cardinality(Users)
      BY <2>1 DEF PoolInv, CountOK
    <3>. QED  BY <2>0, <3>2, <3>3, Counts DEF BusyInv
  <2>2. CASE ~Workspace
    <3>1. inflight = 0
      BY <2>2 DEF PoolInv, EntryOK
    <3>. QED  BY <2>0, <3>1, Bounds
  <2>. QED  BY <2>1, <2>2
<1>2. /\ proc \in [Bridge -> {"none", "up", "dead"}]
      /\ stdin \in [Bridge -> BOOLEAN] /\ done \in [Bridge -> BOOLEAN]
      /\ env \in [Bridge -> Call \cup {Launch}]
      /\ ctx \in [Call -> BOOLEAN] /\ aborted \in [Call -> BOOLEAN]
      /\ late \in [Call -> Verdict \cup {None}]
      /\ answer \in [Call -> Verdict \cup Local \cup {None}]
      /\ node \in [Call -> {"none", "queued", "running", "ended"}]
      /\ saved \in [Call -> Call \cup {Launch}]
      /\ settled \in [Call -> Verdict \cup {None}]
  BY DEF BridgeType
<1>3. /\ kind \in Kinds /\ life \in {"starting", "serving", "closing", "gone"}
      /\ phase \in [Req -> Phases] /\ beat \in [Req -> BOOLEAN]
      /\ attempt \in [Req -> 0 .. MaxRetries + 1]
      /\ {entry, shut} \subseteq Bridge \cup {NoBridge}
      /\ events \in 0 .. MaxEvent[kind]
      /\ at \in [Call -> Bridge \cup {NoBridge}]
      /\ gocall \in [Call -> {"idle", "waiting", "ended"}]
  BY DEF ReqInv, ReqType
<1>4. {stdin, done} \subseteq [Bridge -> BOOLEAN] /\ {ctx, aborted} \subseteq [Call -> BOOLEAN]
  BY <1>2
<1>. QED  BY <1>1, <1>2, <1>3, <1>4 DEF TypeOK

\* The pool as it should be: nothing is left running unseen, and no child is
\* closed under a call.
LEMMA PoolHolds == Counting /\ ReqInv /\ CallInv /\ PoolInv /\ BusyInv => BridgesAreHeld
<1>. SUFFICES ASSUME Counting, ReqInv, CallInv, PoolInv, BusyInv PROVE BridgesAreHeld
  OBVIOUS
<1>1. TypeOK
  BY PoolShape DEF CallInv
<1>2. \A b \in Bridge : proc[b] = "up" /\ stdin[b] => entry = b
  BY DEF PoolInv, ChildOK
<1>3. ASSUME life = "serving", NEW r \in Req, phase[r] \in {"calling", "listing"}, ~stdin[at[TheCall(r)]]
      PROVE  Broken(at[TheCall(r)])
  BY <1>3 DEF PoolInv, UseOf, OnCall
<1>. QED  BY <1>1, <1>2, <1>3 DEF BridgesAreHeld, Broken

-----------------------------------------------------------------------------
(* The pool, with what is known of finite sets *)

INSTANCE FiniteSetTheorems

\* The requests are finitely many, and so are those of any set of them.
LEMMA Counted == Counting
<1>. SUFFICES ASSUME NEW S \in SUBSET Req
              PROVE  /\ Cardinality(S) \in Nat /\ (Cardinality(S) = 0 <=> S = {})
                     /\ \A r \in Req : Cardinality({r}) = 1
                     /\ \A r \in Req : r \notin S => Cardinality(S \cup {r}) = Cardinality(S) + 1
                     /\ \A r \in S : Cardinality(S \ {r}) = Cardinality(S) - 1
                     /\ \A T \in SUBSET S : Cardinality(T) <= Cardinality(S)
  BY DEF Counting
<1>1. IsFiniteSet(S)
  BY PiAssumption, FS_Subset
<1>2. Cardinality(S) \in Nat
  BY <1>1, FS_CardinalityType
<1>3. Cardinality(S) = 0 <=> S = {}
  BY <1>1, FS_EmptySet
<1>4. \A r \in Req : Cardinality({r}) = 1
  BY FS_Singleton
<1>5. \A r \in Req : r \notin S => Cardinality(S \cup {r}) = Cardinality(S) + 1
  BY <1>1, FS_AddElement
<1>6. \A r \in S : Cardinality(S \ {r}) = Cardinality(S) - 1
  BY <1>1, FS_RemoveElement
<1>7. \A T \in SUBSET S : Cardinality(T) <= Cardinality(S)
  BY <1>1, FS_Subset
<1>. QED  BY <1>2, <1>3, <1>4, <1>5, <1>6, <1>7

\* The pool and the children agree in every behaviour.
THEOREM PoolInvariant == Spec => []PoolInv
<1>1. Init => PoolInv
  BY Counted, PoolInit
<1>2. ReqInv /\ CallInv /\ HonestInv /\ PoolInv /\ [Next]_vars => PoolInv'
  BY Counted, PoolStepKeeps
<1>. QED  BY <1>1, <1>2, ReqInvariant, CallInvariant, HonestInvariant, PTL DEF Spec

\* No more requests are at work than allowed, in every behaviour.
THEOREM BusyInvariant == Spec => []BusyInv
<1>1. Init => BusyInv
  BY Counted, BusyInit
<1>2. ReqInv /\ CallInv /\ HonestInv /\ BusyInv /\ [Next]_vars => BusyInv'
  BY Counted, BusyStepKeeps
<1>. QED  BY <1>1, <1>2, ReqInvariant, CallInvariant, HonestInvariant, PTL DEF Spec

\* branchBridgePool and the actors' Close: a child that runs with its stdin open
\* is the one the pool (or pi-llm) knows of, so nothing is left running unseen;
\* and while the actor serves, neither the idle timer nor the last user's Release
\* closes a child under a call that waits for it.
THEOREM HeldBridges == Spec => []BridgesAreHeld
<1>1. ReqInv /\ CallInv /\ PoolInv /\ BusyInv => BridgesAreHeld
  BY Counted, PoolHolds
<1>. QED  BY <1>1, ReqInvariant, CallInvariant, PoolInvariant, BusyInvariant, PTL
=============================================================================

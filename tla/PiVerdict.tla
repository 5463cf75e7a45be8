----------------------------- MODULE PiVerdict ------------------------------
(***************************************************************************)
(* How the end of a model call is classified, twice: by the Node side,     *)
(* which has the provider's message and the HTTP facts, and by the Go      *)
(* side, which decides from Node's frame whether the request is issued     *)
(* again and what the caller is told.                                      *)
(*                                                                         *)
(* An outcome is what Node knows when the stream is over: how the message  *)
(* stopped, what the Pi library says of it, the status of a refused HTTP   *)
(* request (0 for none) and whether the transport failed; or what was      *)
(* thrown instead of a message.                                            *)
(***************************************************************************)
EXTENDS Naturals, FiniteSets

CONSTANT Status   \* the HTTP statuses considered, and 0

ASSUME StatusAssumption == Status \subseteq Nat

Stops == {"stop", "toolUse", "length", "error", "aborted"}
Throws == {"none", "model", "validation", "abort", "other"}

Outcome ==
    [thrown : Throws, stop : Stops, overflow : BOOLEAN, short : BOOLEAN,
     pattern : BOOLEAN, status : Status, transport : BOOLEAN]

\* The outcomes the Pi library can produce: it recognises an overflow in an
\* error, an ordinary stop or a length stop, a recoverable length only in a
\* length stop and a transient failure only in an error.
Possible(o) ==
    /\ o.overflow => o.stop \in {"error", "stop", "length"}
    /\ o.short => o.stop = "length"
    /\ o.pattern => o.stop = "error"
    /\ o.transport => o.status = 0

-----------------------------------------------------------------------------
(* Node: generate and failure *)

StatusCode(o) ==
    CASE o.status = 429 -> "rate_limited"
      [] o.status = 401 -> "auth"
      [] o.status = 403 -> "permission"
      [] o.status = 404 -> "model_not_found"
      [] o.status \in {400, 422} -> "invalid_args"
      [] o.status \in {408, 409} \/ o.status >= 500 -> "transient_provider"
      [] OTHER -> IF o.transport THEN "transport_error" ELSE "unknown_provider_error"

Failed(o) == o.stop \in {"error", "aborted"} \/ o.overflow \/ o.short

GenerateCode(o) ==
    CASE ~Failed(o) -> "none"
      [] Failed(o) /\ o.stop = "aborted" -> "cancelled"
      [] Failed(o) /\ o.stop # "aborted" /\ o.overflow -> "context_overflow"
      [] Failed(o) /\ o.stop # "aborted" /\ ~o.overflow /\ o.short -> "length_recoverable"
      [] OTHER -> StatusCode(o)

Retryable(o) ==
    o.overflow \/ o.short \/ o.pattern \/ o.status \in {408, 409, 429} \/ o.status >= 500

\* What is thrown becomes an error frame.
ThrownCode(o) ==
    CASE o.thrown = "abort" -> "cancelled"
      [] o.thrown = "model" -> "model_not_found"
      [] o.thrown = "validation" -> "invalid_args"
      [] OTHER -> StatusCode(o)

-----------------------------------------------------------------------------
(* Go: retryGenerate, classify and the end of handle *)

Codes == {"invalid_args", "context_invalid", "context_overflow", "length_recoverable", "auth",
          "permission", "model_not_found", "rate_limited", "transient_provider",
          "transport_error", "cancelled", "deadline_exceeded"}

Classify(code) == IF code \in Codes THEN code ELSE "unknown_provider_error"

MayRetry(code) == code \in {"rate_limited", "transient_provider", "transport_error"}

\* A completed message that stopped with an error, and is flagged, becomes an
\* error; an overflow and a recoverable length stay the caller's business.
TurnsToError(o) ==
    /\ o.thrown = "none" /\ o.stop \in {"error", "aborted"}
    /\ Retryable(o)
    /\ GenerateCode(o) \notin {"context_overflow", "length_recoverable"}

\* How the attempt ends for retryGenerate.
Ending(o) ==
    LET code == IF o.thrown = "none" THEN GenerateCode(o) ELSE ThrownCode(o) IN
    IF o.thrown = "none" /\ ~TurnsToError(o) THEN "result"
    ELSE IF MayRetry(Classify(code)) THEN "retryable"
    ELSE IF o.thrown = "abort" THEN "cancelled" ELSE "error"

\* The error_code of the caller's reply when an attempt ends the request: the
\* one in Node's frame, or else what assistantError makes of the message.
ReplyCode(o) ==
    CASE o.thrown # "none" -> Classify(ThrownCode(o))
      [] o.thrown = "none" /\ TurnsToError(o) -> Classify(GenerateCode(o))
      [] o.thrown = "none" /\ ~TurnsToError(o) /\ GenerateCode(o) # "none" -> GenerateCode(o)
      [] OTHER -> IF o.stop = "length" THEN "length_recoverable" ELSE "none"
=============================================================================

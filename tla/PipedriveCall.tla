---------------------------- MODULE PipedriveCall ----------------------------
(***************************************************************************)
(* One call of the Pipedrive client: exec's retry loop around attempt      *)
(* (internal/pipedrive/client.go), the connection below it and the         *)
(* Pipedrive API behind that.                                              *)
(*                                                                         *)
(* The interesting part is what is not atomic: a request that left may be  *)
(* handled long after the client gave up on it, its answer may be lost     *)
(* before the status line or in the middle of the body, and the caller's   *)
(* context may end at any point.  Calls share nothing but the process, so  *)
(* several of them are here to let their faults interleave.                *)
(***************************************************************************)
EXTENDS Naturals, FiniteSets

CONSTANTS
  Calls,        \* calls of do, postV1, patchV2, deleteV2, ...
  Writes,       \* those whose method is not GET
  MaxAttempts   \* Client.maxAttempts

ASSUME WritesAssumption == Writes \subseteq Calls
ASSUME MaxAttemptsAssumption == MaxAttempts \in Nat \ {0}

VARIABLES
  pc,       \* pc[c]: where exec is with the call
  attempt,  \* attempt[c]: exec's loop variable
  ctx,      \* ctx[c]: the caller's context, "live" or "ended"
  answer,   \* answer[c]: status class Pipedrive gave the current attempt
  wire,     \* wire[c]: attempts whose request is still on its way to Pipedrive
  applied,  \* applied[c]: how often Pipedrive applied the call
  result    \* result[c]: how exec returned

vars == <<pc, attempt, ctx, answer, wire, applied, result>>

\* "ok" is 2xx, "limited" 429, "client" any other 3xx or 4xx, "server" 5xx.
Statuses == {"ok", "limited", "client", "server"}

(***************************************************************************)
(* How exec returns.  "refused" is an answer other than 2xx and 5xx,       *)
(* "failed" a 5xx, "dial" a connection that never opened, "unsure" an      *)
(* error saying the write may have been applied, "lost" any other          *)
(* transport error, "body" an answer whose body broke off, "decode" a 2xx  *)
(* body that is not the JSON expected, "encode" a request that could not   *)
(* be built.                                                               *)
(***************************************************************************)
Results == {"none", "ok", "refused", "failed", "dial", "unsure", "lost",
            "body", "decode", "encode"}

Init ==
  /\ pc = [c \in Calls |-> "attempt"]
  /\ attempt = [c \in Calls |-> 0]
  /\ ctx = [c \in Calls |-> "live"]
  /\ answer = [c \in Calls |-> "none"]
  /\ wire = [c \in Calls |-> {}]
  /\ applied = [c \in Calls |-> 0]
  /\ result = [c \in Calls |-> "none"]

-----------------------------------------------------------------------------
\* The retry policy, as the code states it.

\* Slip: a 5xx retried for every method.
ShouldRetryAnyServerError(c, status) == status \in {"limited", "server"}

\* shouldRetry: 429 for every method, 5xx for a GET alone.
ShouldRetry(c, status) ==
  \/ status = "limited"
  \/ c \notin Writes /\ status = "server"

\* Slip: a write retried after a connection that dropped under it.
ShouldRetryAnyFault(c, fault) == fault \notin {"canceled", "timeout"}

\* shouldRetryNetwork: never a context that ended or timed out; a GET
\* otherwise; a write only when the dial failed, so nothing was sent.
ShouldRetryNetwork(c, fault) ==
  /\ fault \notin {"canceled", "timeout"}
  /\ c \notin Writes \/ fault = "dial"

\* exec goes round again while the budget lasts.
HasAttemptLeft(c) == attempt[c] + 1 < MaxAttempts

Sleep(c) ==
  /\ pc' = [pc EXCEPT ![c] = "sleeping"]
  /\ UNCHANGED result

Return(c, r) ==
  /\ pc' = [pc EXCEPT ![c] = "done"]
  /\ result' = [result EXCEPT ![c] = r]

\* attempt after http.Do failed: the hint goes on a write that is not
\* retried while the caller is still there to read it.
NetworkError(c, fault) ==
  LET retry == ShouldRetryNetwork(c, fault)
      hint  == ~retry /\ c \in Writes /\ ctx[c] = "live"
  IN IF retry /\ HasAttemptLeft(c)
     THEN Sleep(c)
     ELSE Return(c, IF hint THEN "unsure"
                    ELSE IF fault = "dial" THEN "dial" ELSE "lost")

\* attempt after the body was read: success, another try, or the API error.
Answered(c, status) ==
  IF status = "ok"
  THEN Return(c, "ok") \/ Return(c, "decode")
  ELSE IF HasAttemptLeft(c) /\ ShouldRetry(c, status)
       THEN Sleep(c)
       ELSE Return(c, IF status = "server" THEN "failed" ELSE "refused")

-----------------------------------------------------------------------------
\* The client.

\* newRequest cannot marshal the body, which is the same on every attempt.
EncodeFails(c) ==
  /\ pc[c] = "attempt" /\ attempt[c] = 0
  /\ Return(c, "encode")
  /\ UNCHANGED <<attempt, ctx, answer, wire, applied>>

\* http.Do does not start on a context that has ended.
RefusedByContext(c) ==
  /\ pc[c] = "attempt" /\ ctx[c] = "ended"
  /\ NetworkError(c, "canceled")
  /\ UNCHANGED <<attempt, ctx, answer, wire, applied>>

DialFails(c) ==
  /\ pc[c] = "attempt"
  /\ NetworkError(c, "dial")
  /\ UNCHANGED <<attempt, ctx, answer, wire, applied>>

\* The request is written: it is on its way, or the connection swallowed it.
Send(c) ==
  /\ pc[c] = "attempt" /\ ctx[c] = "live"
  /\ pc' = [pc EXCEPT ![c] = "inflight"]
  /\ answer' = [answer EXCEPT ![c] = "none"]
  /\ \/ wire' = [wire EXCEPT ![c] = @ \cup {attempt[c]}]
     \/ UNCHANGED wire
  /\ UNCHANGED <<attempt, ctx, applied, result>>

\* The connection drops, http.Client.Timeout fires, or the context ends
\* before the status line is in.
LoseAnswer(c) ==
  /\ pc[c] = "inflight"
  /\ \/ NetworkError(c, "reset")
     \/ NetworkError(c, "timeout")
     \/ ctx[c] = "ended" /\ NetworkError(c, "canceled")
  /\ UNCHANGED <<attempt, ctx, answer, wire, applied>>

StatusArrives(c) ==
  /\ pc[c] = "inflight" /\ answer[c] # "none"
  /\ pc' = [pc EXCEPT ![c] = "reading"]
  /\ UNCHANGED <<attempt, ctx, answer, wire, applied, result>>

\* readBody fails: terminal for every method, and without the hint.
BodyFails(c) ==
  /\ pc[c] = "reading"
  /\ Return(c, "body")
  /\ UNCHANGED <<attempt, ctx, answer, wire, applied>>

BodyRead(c) ==
  /\ pc[c] = "reading"
  /\ Answered(c, answer[c])
  /\ UNCHANGED <<attempt, ctx, answer, wire, applied>>

\* Slip: the loop variable not advanced.
WakeSameAttempt(c) ==
  /\ pc[c] = "sleeping"
  /\ pc' = [pc EXCEPT ![c] = "attempt"]
  /\ UNCHANGED <<attempt, ctx, answer, wire, applied, result>>

\* sleep returns after the backoff, or at once when the context ends.
Wake(c) ==
  /\ pc[c] = "sleeping"
  /\ pc' = [pc EXCEPT ![c] = "attempt"]
  /\ attempt' = [attempt EXCEPT ![c] = @ + 1]
  /\ UNCHANGED <<ctx, answer, wire, applied, result>>

-----------------------------------------------------------------------------
\* The rest of the world.

ContextEnds(c) ==
  /\ ctx[c] = "live" /\ pc[c] # "done"
  /\ ctx' = [ctx EXCEPT ![c] = "ended"]
  /\ UNCHANGED <<pc, attempt, answer, wire, applied, result>>

\* Pipedrive handles a request, however late.  A request over the limit is
\* rejected, as is a bad one; a 5xx may follow a commit.  The answer reaches
\* the client only if it still waits on that attempt.
Handle(c, a, status) ==
  /\ a \in wire[c]
  /\ wire' = [wire EXCEPT ![c] = @ \ {a}]
  /\ \/ status \in {"ok", "server"} /\ applied' = [applied EXCEPT ![c] = @ + 1]
     \/ status # "ok" /\ UNCHANGED applied
  /\ answer' = IF pc[c] = "inflight" /\ attempt[c] = a
               THEN [answer EXCEPT ![c] = status] ELSE answer
  /\ UNCHANGED <<pc, attempt, ctx, result>>

\* A request on its way never arrives.
Vanish(c, a) ==
  /\ a \in wire[c]
  /\ wire' = [wire EXCEPT ![c] = @ \ {a}]
  /\ UNCHANGED <<pc, attempt, ctx, answer, applied, result>>

Client(c) ==
  \/ EncodeFails(c) \/ RefusedByContext(c) \/ DialFails(c) \/ Send(c)
  \/ LoseAnswer(c) \/ StatusArrives(c) \/ BodyFails(c) \/ BodyRead(c)
  \/ Wake(c)

Pipedrive(c) ==
  \E a \in 0 .. MaxAttempts - 1 :
    \/ \E status \in Statuses : Handle(c, a, status)
    \/ Vanish(c, a)

Next == \E c \in Calls : Client(c) \/ ContextEnds(c) \/ Pipedrive(c)

\* Every wait of the client is bounded: http.Client.Timeout covers the dial,
\* the status line and the body, and config.Load refuses one that is not
\* positive; sleep ends by its timer.  Nothing is asked of Pipedrive.
Spec == Init /\ [][Next]_vars
FairSpec == Spec /\ \A c \in Calls : WF_vars(Client(c))

-----------------------------------------------------------------------------
\* Every variable holds a value of its kind; the loop variable stays within
\* the budget and no more requests leave than there are attempts
\* (client.go, exec).
TypeOK ==
  /\ pc \in [Calls -> {"attempt", "inflight", "reading", "sleeping", "done"}]
  /\ attempt \in [Calls -> 0 .. MaxAttempts - 1]
  /\ ctx \in [Calls -> {"live", "ended"}]
  /\ answer \in [Calls -> Statuses \cup {"none"}]
  /\ wire \in [Calls -> SUBSET (0 .. MaxAttempts - 1)]
  /\ applied \in [Calls -> Nat]
  /\ result \in [Calls -> Results]

\* A create, update or delete changes the record at most once, late handling
\* of abandoned requests included (architecture.md, D-54: "A write that may
\* have reached Pipedrive must not be sent twice").
AppliedAtMostOnce == \A c \in Writes : applied[c] <= 1

\* The caller is told the truth: success means the change is made, and an
\* answered refusal, a failed dial or an unbuildable request mean that it is
\* not and that no request that could still make it is under way.
VerdictIsTrue == \A c \in Writes :
  /\ result[c] = "ok" => applied[c] = 1
  /\ result[c] \in {"refused", "dial", "encode"} => applied[c] = 0 /\ wire[c] = {}

\* When exec goes to sleep on a write, or is about to try it again, nothing
\* of an earlier attempt is left that could be applied (client.go, the
\* comments of shouldRetry and shouldRetryNetwork).
RetriesOnlyWhatNeverHappened == \A c \in Writes :
  pc[c] \in {"sleeping", "attempt"} => applied[c] = 0 /\ wire[c] = {}

\* exec returns in the end, whatever Pipedrive does.
EveryCallReturns == \A c \in Calls : <>(pc[c] = "done")

(***************************************************************************)
(* The promise, with the state of the call read as the abstract effect.    *)
(***************************************************************************)
Effect(c) ==
  IF applied[c] > 0 THEN "made"
  ELSE IF pc[c] = "done" /\ wire[c] = {} THEN "void" ELSE "open"

Verdict(c) ==
  IF result[c] \in {"none", "ok"} THEN result[c]
  ELSE IF result[c] \in {"refused", "dial", "encode"} THEN "no" ELSE "maybe"

Promise == INSTANCE WriteOnce WITH
  effect <- [c \in Writes |-> Effect(c)],
  verdict <- [c \in Writes |-> Verdict(c)]

\* Every write implements WriteOnce.
KeepsPromise == Promise!Spec
=============================================================================

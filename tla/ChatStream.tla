----------------------------- MODULE ChatStream -----------------------------
(***************************************************************************)
(* ChatStream of the two providers (openai.go, anthropic.go) with          *)
(* doWithRetry and scanSSE below it (http.go): one call, its attempts, its *)
(* waits and its stream.  The server and the network are the environment.  *)
(*                                                                         *)
(* A wait is a time.Duration.  It is counted here in ticks, Second of them *)
(* to a second, in a signed integer of 2 * Wrap values, so that the        *)
(* products of backoffDelay overflow as the int64 of the code does.        *)
(***************************************************************************)
EXTENDS Integers, FiniteSets

CONSTANTS Configured,    \* MaxRetries of the ProviderConfig
          RetryAfters,   \* the numbers servers send in Retry-After
          MaxDeltas,     \* bound: content chunks in a stream
          Second,        \* ticks per second
          Wrap           \* a Duration is in -Wrap .. Wrap - 1

ASSUME ChatStreamAssumption ==
  /\ Configured \in Int /\ RetryAfters \subseteq Int /\ MaxDeltas \in Nat
  /\ Second \in Nat \ {0} /\ Wrap \in Nat \ {0} /\ 8 * Second < Wrap

VARIABLES
  pc,          \* "send", "wait", "answer", "backoff", "stream" or "returned"
  attempt,     \* doWithRetry's loop counter
  resp,        \* the response it holds: status and Retry-After (0: none)
  open,        \* response bodies not closed yet
  waits,       \* the waits so far
  deltas,      \* content chunks passed on
  sources,     \* the attempts they came from
  reported,    \* a usage chunk was passed on
  served,      \* (server) it processed the current attempt
  processed,   \* (server) how often it processed, and charged, the request
  result       \* what ChatStream returned

vars == <<pc, attempt, resp, open, waits, deltas, sources, reported, served, processed, result>>

defaultMaxRetries == 3
maxBackoff == 8 * Second

resolveMaxRetries(n) == IF n = 0 THEN defaultMaxRetries ELSE IF n < 0 THEN 0 ELSE n
maxRetries == resolveMaxRetries(Configured)

Statuses == {"200", "4xx", "429", "5xx"}
retryableStatus(status) == status \in {"429", "5xx"}
NoResponse == [status |-> "nil", after |-> 0]

\* Multiplication of time.Durations.
Duration(n) == ((n + Wrap) % (2 * Wrap)) - Wrap
Capped(wait) == IF wait > maxBackoff THEN maxBackoff ELSE wait

backoffDelay_Uncapped(n, r) ==
  IF r.after > 0 THEN Duration(r.after * Second)
  ELSE Capped(Duration(2^(n - 1) * Second))

\* Retry-After of the last response if it is a positive number, else 1s, 2s, 4s.
backoffDelay(n, r) ==
  IF r.after > 0 THEN Capped(Duration(r.after * Second))
  ELSE Capped(Duration(2^(n - 1) * Second))

-----------------------------------------------------------------------------
Init ==
  /\ pc = "send" /\ attempt = 0 /\ resp = NoResponse /\ open = 0 /\ waits = {}
  /\ deltas = 0 /\ sources = {} /\ reported = FALSE
  /\ served = FALSE /\ processed = 0 /\ result = "none"

Return(r) == pc' = "returned" /\ result' = r

\* The loop's "continue": another attempt, or out of the loop with the error.
Again_Unbounded == pc' = "backoff" /\ attempt' = attempt + 1 /\ UNCHANGED result
Again ==
  \/ attempt < maxRetries /\ pc' = "backoff" /\ attempt' = attempt + 1 /\ UNCHANGED result
  \/ attempt = maxRetries /\ Return("error") /\ UNCHANGED attempt

\* newReq fails: the same for every attempt, so it shows in the first.
NoRequest ==
  /\ pc = "send" /\ attempt = 0
  /\ Return("error")
  /\ UNCHANGED <<attempt, resp, open, waits, deltas, sources, reported, served, processed>>

Send ==
  /\ pc = "send"
  /\ pc' = "wait"
  /\ served' = FALSE
  /\ UNCHANGED <<attempt, resp, open, waits, deltas, sources, reported, processed, result>>

\* (server) The request arrives and is processed.
Serve ==
  /\ pc = "wait" /\ ~served
  /\ served' = TRUE
  /\ processed' = processed + 1
  /\ UNCHANGED <<pc, attempt, resp, open, waits, deltas, sources, reported, result>>

\* client.Do ends without a response, whether or not the server had the request.
ConnectionError ==
  /\ pc = "wait"
  /\ resp' = NoResponse
  /\ Again
  /\ UNCHANGED <<open, waits, deltas, sources, reported, served, processed>>

\* client.Do returns a response with an open body (a gateway may answer 5xx
\* for a request that was processed behind it).
Response ==
  /\ pc = "wait"
  /\ resp' \in [status : IF served THEN {"200", "5xx"} ELSE Statuses \ {"200"}, after : RetryAfters \cup {0}]
  /\ open' = open + 1
  /\ pc' = "answer"
  /\ UNCHANGED <<attempt, waits, deltas, sources, reported, served, processed, result>>

DiscardResponse_Leaks ==
  /\ pc = "answer"
  /\ retryableStatus(resp.status) /\ attempt < maxRetries
  /\ Again
  /\ UNCHANGED <<resp, open, waits, deltas, sources, reported, served, processed>>

\* A retryable status with attempts left: close the body and go round.
DiscardResponse ==
  /\ pc = "answer"
  /\ retryableStatus(resp.status) /\ attempt < maxRetries
  /\ open' = open - 1
  /\ Again
  /\ UNCHANGED <<resp, waits, deltas, sources, reported, served, processed>>

\* sleepFunc, at the head of the next round.
Backoff ==
  /\ pc = "backoff"
  /\ waits' = waits \cup {backoffDelay(attempt, resp)}
  /\ pc' = "send"
  /\ UNCHANGED <<attempt, resp, open, deltas, sources, reported, served, processed, result>>

Refused_Unchecked ==
  /\ pc = "answer"
  /\ resp.status # "200"
  /\ ~(retryableStatus(resp.status) /\ attempt < maxRetries)
  /\ open' = open - 1
  /\ Return("ok")
  /\ UNCHANGED <<attempt, resp, waits, deltas, sources, reported, served, processed>>

\* doWithRetry returned a live response; ChatStream looks at its status.
Refused ==
  /\ pc = "answer"
  /\ resp.status # "200"
  /\ ~(retryableStatus(resp.status) /\ attempt < maxRetries)
  /\ open' = open - 1
  /\ Return("error")
  /\ UNCHANGED <<attempt, resp, waits, deltas, sources, reported, served, processed>>

Accepted ==
  /\ pc = "answer"
  /\ resp.status = "200"
  /\ pc' = "stream"
  /\ UNCHANGED <<attempt, resp, open, waits, deltas, sources, reported, served, processed, result>>

Delta ==
  /\ pc = "stream"
  /\ ~reported
  /\ deltas < MaxDeltas
  /\ deltas' = deltas + 1
  /\ sources' = sources \cup {attempt}
  /\ UNCHANGED <<pc, attempt, resp, open, waits, reported, served, processed, result>>

\* The usage chunk: OpenAI's last data line, Anthropic's message_stop.
UsageChunk ==
  /\ pc = "stream"
  /\ ~reported
  /\ reported' = TRUE
  /\ UNCHANGED <<pc, attempt, resp, open, waits, deltas, sources, served, processed, result>>

StreamEnds_Retries ==
  /\ pc = "stream"
  /\ open' = open - 1
  /\ \/ reported /\ Return("ok") /\ UNCHANGED attempt
     \/ ~reported /\ Again
  /\ UNCHANGED <<resp, waits, deltas, sources, reported, served, processed>>

(* scanSSE's loop is over: [DONE], the end of the body, a line over 1 MiB, *)
(* a broken connection and the client's timeout all look the same, and     *)
(* ChatStream returns nil.                                                 *)
StreamEnds ==
  /\ pc = "stream"
  /\ open' = open - 1
  /\ Return("ok")
  /\ UNCHANGED <<attempt, resp, waits, deltas, sources, reported, served, processed>>

Next ==
  \/ NoRequest \/ Send \/ Serve \/ ConnectionError \/ Response
  \/ DiscardResponse \/ Backoff \/ Refused \/ Accepted
  \/ Delta \/ UsageChunk \/ StreamEnds

Returned == pc = "returned" /\ UNCHANGED vars

\* Every step is bounded in time: by the client's timeout or by maxBackoff.
Spec == Init /\ [][Next \/ Returned]_vars /\ WF_vars(Next)

-----------------------------------------------------------------------------
TypeOK ==
  /\ pc \in {"send", "wait", "answer", "backoff", "stream", "returned"}
  /\ attempt \in 0..maxRetries
  /\ resp \in [status : Statuses \cup {"nil"}, after : RetryAfters \cup {0}]
  /\ open \in 0..1
  /\ waits \subseteq -Wrap..(Wrap - 1)
  /\ deltas \in 0..MaxDeltas
  /\ sources \subseteq 0..maxRetries
  /\ reported \in BOOLEAN
  /\ served \in BOOLEAN
  /\ processed \in 0..(maxRetries + 1)
  /\ result \in {"none", "ok", "error"}

\* Every response body is closed once, whichever way the call ends.
BodiesClosed == open = IF pc \in {"answer", "stream"} THEN 1 ELSE 0

(* http.go: backoff waits are capped, so that the shell never blocks long, *)
(* and they are waits: the retries never hammer the server.                *)
WaitsAreBounded == waits \subseteq 1..maxBackoff

(* ... as long as no product of backoffDelay overflows: Retry-After and the *)
(* retries stay below the centuries an int64 of nanoseconds holds.         *)
WaitsFit ==
  /\ \A a \in RetryAfters : a * Second < Wrap
  /\ \A n \in 1..maxRetries : 2^(n - 1) * Second \in 1..(Wrap - 1)

\* What the caller has seen of an answer comes from one attempt only.
NoDuplicatedOutput == Cardinality(sources) <= 1

\* The call implements ProviderCall, which also says that it returns.
Abstract == INSTANCE ProviderCall WITH MaxProcessed <- maxRetries + 1
ImplementsProviderCall == Abstract!CallSpec

-----------------------------------------------------------------------------
(* What documents and comments promise and the code does not keep; a run   *)
(* refutes each.                                                           *)

(* COST-GOVERNANCE.md: every consumption is recorded.  Query books what    *)
(* the usage chunk says, so a call may end well only after one.            *)
SuccessReportsUsage == result = "ok" => reported

(* http.go: "retrying can never cause double cost".  A request whose reply *)
(* got lost, or that a gateway answers with a 5xx, may have been processed *)
(* and is sent again all the same.                                         *)
NoDoubleCost == processed <= 1
=============================================================================

------------------------- MODULE ChatStream_proofs --------------------------
(***************************************************************************)
(* One call of a provider, for every number of retries, every stream and   *)
(* every answer of the server.  What the properties say is not inductive:  *)
(* Progress says what is known at each place of the call, and from it      *)
(* follows that the call implements the safety part of ProviderCall.       *)
(***************************************************************************)
EXTENDS ChatStream, FiniteSetTheorems, TLAPS

\* At each place: how often the server can have processed the request, what
\* has been answered, and what the caller has seen.
Progress ==
  /\ processed <= attempt + 1
  /\ pc \in {"send", "backoff"} \/ (pc = "wait" /\ ~served) => processed <= attempt
  /\ served => processed > 0
  /\ pc = "answer" /\ resp.status = "200" => served
  /\ pc = "stream" => served
  /\ pc = "backoff" => attempt > 0
  /\ pc \notin {"stream", "returned"} => sources = {}
  /\ sources \subseteq {attempt}
  /\ (result = "none") <=> (pc # "returned")

CallInv == TypeOK /\ BodiesClosed /\ Progress

\* The number of retries is a natural number, whatever is configured.
LEMMA RetriesAreCounted == maxRetries \in Nat
BY ChatStreamAssumption DEF maxRetries, resolveMaxRetries, defaultMaxRetries

\* What a response can say in Retry-After, or 0 for nothing.
LEMMA AftersAreNumbers ==
  ASSUME NEW a \in RetryAfters \cup {0}
  PROVE  a \in Int /\ (a # 0 => a \in RetryAfters)
BY ChatStreamAssumption

\* A product of backoffDelay is a Duration, wrapped or not, and so is its cap.
LEMMA DurationsWrap ==
  ASSUME NEW n \in Int
  PROVE  /\ Duration(n) \in -Wrap..(Wrap - 1)
         /\ Capped(Duration(n)) \in -Wrap..(Wrap - 1)
<1> DEFINE rest == (n + Wrap) % (2 * Wrap)
<1>1. 2 * Wrap \in Nat \ {0} /\ n + Wrap \in Int
  BY ChatStreamAssumption
<1>2. rest \in 0..(2 * Wrap - 1)
  BY <1>1
<1>3. Duration(n) \in -Wrap..(Wrap - 1)
  BY <1>1, <1>2, ChatStreamAssumption DEF Duration
<1>4. maxBackoff \in -Wrap..(Wrap - 1)
  BY ChatStreamAssumption DEF maxBackoff
<1> QED BY <1>3, <1>4 DEF Capped

\* One that fits is itself.
LEMMA DurationsThatFit ==
  ASSUME NEW n \in 1..(Wrap - 1)
  PROVE  Duration(n) = n /\ Capped(Duration(n)) \in 1..maxBackoff
<1>1. Wrap \in Nat \ {0} /\ Second \in Nat \ {0}
  BY ChatStreamAssumption
<1>2. (n + Wrap) % (2 * Wrap) = n + Wrap
  BY <1>1
<1>3. Duration(n) = n
  BY <1>1, <1>2 DEF Duration
<1> QED BY <1>1, <1>3 DEF Capped, maxBackoff

-----------------------------------------------------------------------------
(* The invariant. *)

LEMMA InitCallInv == Init => CallInv
<1> SUFFICES ASSUME Init PROVE CallInv
  OBVIOUS
<1>1. TypeOK
  <2>1. NoResponse \in [status : Statuses \cup {"nil"}, after : RetryAfters \cup {0}]
    BY DEF NoResponse
  <2>2. /\ attempt = 0 /\ open = 0 /\ waits = {} /\ deltas = 0 /\ sources = {} /\ processed = 0
        /\ 0 \in 0..maxRetries /\ 0 \in 0..MaxDeltas /\ 0 \in 0..(maxRetries + 1)
    BY RetriesAreCounted, ChatStreamAssumption DEF Init
  <2>3. resp \in [status : Statuses \cup {"nil"}, after : RetryAfters \cup {0}]
    BY <2>1 DEF Init
  <2>4. reported \in BOOLEAN /\ served \in BOOLEAN
    BY DEF Init
  <2>5. pc = "send" /\ result = "none"
    BY DEF Init
  <2> QED BY <2>2, <2>3, <2>4, <2>5 DEF TypeOK
<1>2. BodiesClosed /\ Progress
  BY DEF Init, BodiesClosed, Progress
<1> QED BY <1>1, <1>2 DEF CallInv

\* Whatever the loop's "continue" does, from an attempt without an open body.
LEMMA AgainKeeps ==
  ASSUME CallInv, Again, pc \in {"wait", "answer"},
         resp' \in [status : Statuses \cup {"nil"}, after : RetryAfters \cup {0}],
         open' = 0, UNCHANGED <<waits, deltas, sources, reported, served, processed>>
  PROVE  CallInv'
<1> USE DEF CallInv
<1>1. TypeOK'
  BY RetriesAreCounted DEF Again, Return, TypeOK
<1>2. BodiesClosed'
  BY DEF Again, Return, BodiesClosed
<1>3. Progress'
  BY RetriesAreCounted DEF Again, Return, TypeOK, Progress
<1> QED BY <1>1, <1>2, <1>3

LEMMA NextCallInv == CallInv /\ [Next \/ Returned]_vars => CallInv'
<1> SUFFICES ASSUME CallInv, [Next \/ Returned]_vars PROVE CallInv'
  OBVIOUS
<1> USE DEF CallInv
<1>0. TypeOK /\ maxRetries \in Nat
  BY RetriesAreCounted
<1>1. CASE NoRequest
  <2>1. TypeOK'
    BY <1>0, <1>1 DEF NoRequest, Return, TypeOK
  <2>2. BodiesClosed' /\ Progress'
    BY <1>0, <1>1 DEF NoRequest, Return, TypeOK, BodiesClosed, Progress
  <2> QED BY <2>1, <2>2
<1>2. CASE Send
  <2>1. TypeOK'
    BY <1>0, <1>2 DEF Send, TypeOK
  <2>2. BodiesClosed' /\ Progress'
    BY <1>0, <1>2 DEF Send, TypeOK, BodiesClosed, Progress
  <2> QED BY <2>1, <2>2
<1>3. CASE Serve
  <2>1. processed <= attempt
    BY <1>3 DEF Serve, Progress
  <2>2. TypeOK'
    BY <1>0, <1>3, <2>1 DEF Serve, TypeOK
  <2>3. BodiesClosed' /\ Progress'
    BY <1>0, <1>3, <2>1 DEF Serve, TypeOK, BodiesClosed, Progress
  <2> QED BY <2>2, <2>3
<1>4. CASE ConnectionError
  <2>1. open = 0
    BY <1>4 DEF ConnectionError, BodiesClosed
  <2> QED BY <1>4, <2>1, AgainKeeps DEF ConnectionError, NoResponse
<1>5. CASE Response
  <2>1. open = 0
    BY <1>5 DEF Response, BodiesClosed
  <2>2. resp' \in [status : Statuses \cup {"nil"}, after : RetryAfters \cup {0}]
    BY <1>5 DEF Response, Statuses
  <2>3. resp'.status = "200" => served
    BY <1>5 DEF Response, Statuses
  <2>4. TypeOK'
    BY <1>0, <1>5, <2>1, <2>2 DEF Response, TypeOK
  <2>5. BodiesClosed' /\ Progress'
    BY <1>0, <1>5, <2>1, <2>3 DEF Response, TypeOK, BodiesClosed, Progress
  <2> QED BY <2>4, <2>5
<1>6. CASE DiscardResponse
  <2>1. open = 1
    BY <1>6 DEF DiscardResponse, BodiesClosed
  <2>2. open' = 0 /\ resp' = resp
    BY <1>6, <2>1 DEF DiscardResponse
  <2> QED BY <1>0, <1>6, <2>2, AgainKeeps DEF DiscardResponse, TypeOK
<1>7. CASE Backoff
  <2>1. backoffDelay(attempt, resp) \in -Wrap..(Wrap - 1)
    <3>0. resp.after \in RetryAfters \cup {0}
      BY <1>0 DEF TypeOK
    <3>1. resp.after \in Int
      BY <3>0, AftersAreNumbers
    <3>5. Second \in Int
      BY ChatStreamAssumption
    <3>2. attempt - 1 \in Nat
      BY <1>0, <1>7 DEF Backoff, Progress, TypeOK
    <3>3. resp.after * Second \in Int
      BY <3>1, <3>5
    <3>4. 2^(attempt - 1) * Second \in Int
      BY <3>2, <3>5
    <3> QED BY <3>3, <3>4, DurationsWrap DEF backoffDelay
  <2>2. TypeOK'
    BY <1>0, <1>7, <2>1 DEF Backoff, TypeOK
  <2>3. BodiesClosed' /\ Progress'
    BY <1>0, <1>7 DEF Backoff, TypeOK, BodiesClosed, Progress
  <2> QED BY <2>2, <2>3
<1>8. CASE Refused
  <2>1. TypeOK'
    BY <1>0, <1>8 DEF Refused, Return, TypeOK, BodiesClosed
  <2>2. BodiesClosed' /\ Progress'
    BY <1>0, <1>8 DEF Refused, Return, TypeOK, BodiesClosed, Progress
  <2> QED BY <2>1, <2>2
<1>9. CASE Accepted
  <2>1. TypeOK'
    BY <1>0, <1>9 DEF Accepted, TypeOK
  <2>2. BodiesClosed' /\ Progress'
    BY <1>0, <1>9 DEF Accepted, TypeOK, BodiesClosed, Progress
  <2> QED BY <2>1, <2>2
<1>10. CASE Delta
  <2>1. sources' = {attempt}
    BY <1>10 DEF Delta, Progress
  <2>2. TypeOK'
    BY <1>0, <1>10, <2>1, ChatStreamAssumption DEF Delta, TypeOK
  <2>3. BodiesClosed' /\ Progress'
    BY <1>0, <1>10, <2>1 DEF Delta, TypeOK, BodiesClosed, Progress
  <2> QED BY <2>2, <2>3
<1>11. CASE UsageChunk
  <2>1. TypeOK'
    BY <1>0, <1>11 DEF UsageChunk, TypeOK
  <2>2. BodiesClosed' /\ Progress'
    BY <1>0, <1>11 DEF UsageChunk, TypeOK, BodiesClosed, Progress
  <2> QED BY <2>1, <2>2
<1>12. CASE StreamEnds
  <2>1. TypeOK'
    BY <1>0, <1>12 DEF StreamEnds, Return, TypeOK, BodiesClosed
  <2>2. BodiesClosed' /\ Progress'
    BY <1>0, <1>12 DEF StreamEnds, Return, TypeOK, BodiesClosed, Progress
  <2> QED BY <2>1, <2>2
<1>13. CASE UNCHANGED vars
  BY <1>13 DEF vars, TypeOK, BodiesClosed, Progress
<1> QED BY <1>1, <1>2, <1>3, <1>4, <1>5, <1>6, <1>7, <1>8, <1>9, <1>10, <1>11, <1>12,
           <1>13 DEF Next, Returned

LEMMA CallInvHolds == Spec => []CallInv
BY InitCallInv, NextCallInv, PTL DEF Spec

(* doWithRetry and ChatStream keep their types: the attempts never exceed  *)
(* the retries, the server processes a request at most once an attempt,    *)
(* and a wait is a Duration, wrapped or not (http.go).                     *)
THEOREM CallTypes == Spec => []TypeOK
BY CallInvHolds, PTL DEF CallInv

(* A body is open exactly while an answer is looked at or streamed: none   *)
(* is left open and none is closed twice, on any way out of the retries    *)
(* (http.go, openai.go, anthropic.go).                                     *)
THEOREM EveryBodyIsClosed == Spec => []BodiesClosed
BY CallInvHolds, PTL DEF CallInv

(* What the caller was shown comes from one attempt: no retry follows the  *)
(* first chunk.                                                            *)
THEOREM OutputIsNotRepeated == Spec => []NoDuplicatedOutput
<1>1. CallInv => NoDuplicatedOutput
  <2> SUFFICES ASSUME CallInv PROVE Cardinality(sources) <= 1
    BY DEF NoDuplicatedOutput
  <2>1. Cardinality({attempt}) = 1 /\ IsFiniteSet({attempt})
    BY FS_Singleton
  <2>2. Cardinality(sources) <= Cardinality({attempt})
    BY <2>1, FS_Subset DEF CallInv, Progress
  <2> QED BY <2>1, <2>2
<1> QED BY <1>1, CallInvHolds, PTL

-----------------------------------------------------------------------------
(* Waits. *)

LEMMA DelaysAreBounded ==
  ASSUME WaitsFit, NEW n \in 1..maxRetries,
         NEW r \in [status : Statuses \cup {"nil"}, after : RetryAfters \cup {0}]
  PROVE  backoffDelay(n, r) \in 1..maxBackoff
<1>1. CASE r.after > 0
  <2>0. r.after \in RetryAfters \cup {0}
    OBVIOUS
  <2>1. r.after \in RetryAfters /\ r.after \in Int
    BY <1>1, <2>0, AftersAreNumbers
  <2>4. Second \in Nat \ {0} /\ Wrap \in Nat
    BY ChatStreamAssumption
  <2>2. r.after * Second > 0 /\ r.after * Second \in Int
    BY <1>1, <2>1, <2>4
  <2>3. r.after * Second \in 1..(Wrap - 1)
    BY <2>1, <2>2, <2>4 DEF WaitsFit
  <2> QED BY <1>1, <2>3, DurationsThatFit DEF backoffDelay
<1>2. CASE ~(r.after > 0)
  <2>1. 2^(n - 1) * Second \in 1..(Wrap - 1)
    BY DEF WaitsFit
  <2> QED BY <1>2, <2>1, DurationsThatFit DEF backoffDelay
<1> QED BY <1>1, <1>2

(* Every wait between two attempts is longer than nothing and no longer    *)
(* than the cap, as long as no product overflows (backoffDelay in          *)
(* http.go): the only waits that could be negative are those that wrapped. *)
THEOREM WaitsStayBounded == WaitsFit => (Spec => []WaitsAreBounded)
<1> SUFFICES ASSUME WaitsFit PROVE Spec => []WaitsAreBounded
  OBVIOUS
<1>1. Init => WaitsAreBounded
  BY DEF Init, WaitsAreBounded
<1>2. CallInv /\ WaitsAreBounded /\ [Next \/ Returned]_vars => WaitsAreBounded'
  <2> SUFFICES ASSUME CallInv, WaitsAreBounded, [Next \/ Returned]_vars
               PROVE  WaitsAreBounded'
    OBVIOUS
  <2>1. CASE Backoff
    <3>1. attempt \in 1..maxRetries
      BY <2>1, RetriesAreCounted DEF Backoff, CallInv, TypeOK, Progress
    <3>2. backoffDelay(attempt, resp) \in 1..maxBackoff
      BY <3>1, DelaysAreBounded DEF CallInv, TypeOK
    <3> QED BY <2>1, <3>2 DEF Backoff, WaitsAreBounded, maxBackoff
  <2>2. CASE ~Backoff
    <3>1. waits' = waits
      BY <2>2 DEF Next, Returned, vars, NoRequest, Send, Serve, ConnectionError, Response,
                  DiscardResponse, Refused, Accepted, Delta, UsageChunk, StreamEnds
    <3> QED BY <3>1 DEF WaitsAreBounded, maxBackoff
  <2> QED BY <2>1, <2>2
<1> QED BY <1>1, <1>2, CallInvHolds, PTL DEF Spec

-----------------------------------------------------------------------------
(* The abstract call. *)

CallSafety == Abstract!CallInit /\ [][Abstract!Process \/ Abstract!Return]_(Abstract!call)

LEMMA StepsOfACall ==
  ASSUME CallInv, [Next \/ Returned]_vars
  PROVE  [Abstract!Process \/ Abstract!Return]_(Abstract!call)
<1> USE DEF Abstract!call, Abstract!Process, Abstract!Return
<1>1. CASE Serve
  <2>1. processed <= attempt /\ result = "none"
    BY <1>1 DEF Serve, CallInv, Progress
  <2>2. processed < maxRetries + 1
    BY <2>1, RetriesAreCounted DEF CallInv, TypeOK
  <2> QED BY <1>1, <2>1, <2>2 DEF Serve
<1>2. CASE NoRequest \/ ConnectionError \/ DiscardResponse \/ Refused
  <2>1. result = "none" /\ processed' = processed /\ result' \in {result, "error"}
    BY <1>2 DEF NoRequest, ConnectionError, DiscardResponse, Refused, Again, Return,
                CallInv, Progress
  <2> QED BY <2>1
<1>3. CASE StreamEnds
  <2>1. processed > 0 /\ result = "none"
    BY <1>3 DEF StreamEnds, CallInv, Progress
  <2> QED BY <1>3, <2>1 DEF StreamEnds, Return
<1>4. CASE Send \/ Response \/ Backoff \/ Accepted \/ Delta \/ UsageChunk
  BY <1>4 DEF Send, Response, Backoff, Accepted, Delta, UsageChunk
<1>5. CASE UNCHANGED vars
  BY <1>5 DEF vars
<1> QED BY <1>1, <1>2, <1>3, <1>4, <1>5 DEF Next, Returned

(* A call with its retries is an abstract call: the provider processes it  *)
(* at most once for each attempt, it returns once, and it succeeds only if *)
(* the provider has processed it. That it returns at all is left to TLC.   *)
THEOREM CallImplementsProviderCall == Spec => CallSafety
<1>1. Init => Abstract!CallInit
  BY DEF Init, Abstract!CallInit
<1> QED BY <1>1, StepsOfACall, CallInvHolds, PTL DEF Spec, CallSafety
=============================================================================

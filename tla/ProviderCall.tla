---------------------------- MODULE ProviderCall ----------------------------
(***************************************************************************)
(* What one llm call gives its caller: it ends, it is processed, and paid, *)
(* a bounded number of times (by one attempt each, which is more than the  *)
(* once that a comment of http.go has: NoDoubleCost in ChatStream), and it *)
(* is reported as a success only if the provider did process it.           *)
(* ChatStream.tla implements this, CostGuard.tla charges for it.           *)
(***************************************************************************)
EXTENDS Naturals

CONSTANT MaxProcessed   \* how often the provider may process the request

VARIABLES processed,    \* how often it did
          result        \* "none" until the call returns

call == <<processed, result>>

CallInit == processed = 0 /\ result = "none"

Process ==
  /\ result = "none"
  /\ processed < MaxProcessed
  /\ processed' = processed + 1
  /\ UNCHANGED result

Return ==
  /\ result = "none"
  /\ result' \in IF processed > 0 THEN {"ok", "error"} ELSE {"error"}
  /\ UNCHANGED processed

CallSpec == CallInit /\ [][Process \/ Return]_call /\ WF_call(Return)
=============================================================================

---------------------------- MODULE RateLimiter -----------------------------
(***************************************************************************)
(* The sliding-window limiter of security_ratelimit.go.  Allow holds a     *)
(* mutex from the reading of the clock to the append, so it is one step;   *)
(* time.Now is monotonic.  Its warning at 80% is a message only.           *)
(***************************************************************************)
EXTENDS Integers, FiniteSets

CONSTANTS MaxPerMinute, MaxPerHour,
          Minute, Hour   \* the two windows, in units of the clock

ASSUME LimiterAssumption ==
  /\ MaxPerMinute \in Nat /\ MaxPerHour \in Nat
  /\ Minute \in Nat \ {0} /\ Hour \in Nat \ {0} /\ Minute <= Hour

VARIABLES now,         \* the clock
          timestamps,  \* the limiter's slice: requests it still remembers
          granted      \* (history) every request it let through

limiter == <<now, timestamps, granted>>

\* A request that was let through: its number and its time.
Grants == [nr : Nat \ {0}, at : Nat]

After(stamps, since) == {g \in stamps : g.at > since}

cleanup_Minute(stamps) == After(stamps, now - Minute)

cleanup(stamps) == After(stamps, now - Hour)

MayPass(kept) ==
  /\ Cardinality(After(kept, now - Minute)) < MaxPerMinute
  /\ Cardinality(After(kept, now - Hour)) < MaxPerHour

-----------------------------------------------------------------------------
LimiterInit == now = 0 /\ timestamps = {} /\ granted = {}

\* Allow returns true.
Grant ==
  LET kept == cleanup(timestamps)
      new  == [nr |-> Cardinality(granted) + 1, at |-> now]
  IN  /\ MayPass(kept)
      /\ timestamps' = kept \cup {new}
      /\ granted' = granted \cup {new}
      /\ UNCHANGED now

\* Allow returns false; what it cleaned up is gone all the same.
Deny ==
  /\ ~MayPass(cleanup(timestamps))
  /\ timestamps' = cleanup(timestamps)
  /\ UNCHANGED <<now, granted>>

Tick == now' = now + 1 /\ UNCHANGED <<timestamps, granted>>

LimiterSpec == LimiterInit /\ [][Grant \/ Deny \/ Tick]_limiter

-----------------------------------------------------------------------------
LimiterTypeOK ==
  /\ now \in Nat
  /\ granted \subseteq Grants /\ IsFiniteSet(granted)
  /\ timestamps \subseteq granted
  /\ \A g \in granted : g.nr <= Cardinality(granted) /\ g.at <= now

Within(length, end) == {g \in granted : end - length < g.at /\ g.at <= end}

(* In no minute and in no hour, wherever it ends, more requests pass than  *)
(* the limits say: also across the edge of a window, and although the      *)
(* limiter forgets the requests it thinks it needs no more.                *)
GrantsPerWindow ==
  \A end \in 0..now :
    /\ Cardinality(Within(Minute, end)) <= MaxPerMinute
    /\ Cardinality(Within(Hour, end)) <= MaxPerHour
=============================================================================

--------------------------- MODULE CircuitBreaker ---------------------------
(***************************************************************************)
(* CircuitBreaker.call: a call is let through unless the breaker is open,  *)
(* and reports its success or its failure when it ends.  Calls overlap, so *)
(* one that began before the breaker opened may end while it is open.      *)
(***************************************************************************)
EXTENDS Naturals

CONSTANTS
  Callers,    \* coroutines that call through the breaker
  Threshold,  \* failure_threshold
  Recovery,   \* recovery_timeout
  MaxTicks,   \* bound on the clock
  MaxFailures \* bound on the failures counted

ASSUME CircuitBreakerAssumption ==
  /\ Threshold \in Nat \ {0}
  /\ Recovery \in Nat /\ MaxTicks \in Nat /\ MaxFailures \in Nat

VARIABLES breaker, calling, ticks

breakerVars == <<breaker, calling, ticks>>

BreakerTypeOK ==
  /\ breaker \in [state : {"closed", "open", "half_open"},
                  count : Nat, last : Nat]
  /\ calling \in SUBSET Callers
  /\ ticks \in Nat

(* The property state: reading it turns an open breaker half open.         *)
State ==
  IF breaker.state = "open" /\ ticks - breaker.last >= Recovery
  THEN [breaker EXCEPT !.state = "half_open"] ELSE breaker

(* Mutant: a success closes the breaker and forgets to clear the count.    *)
Succeeded_KeepsCount == [breaker EXCEPT !.state = "closed"]

(* record_success.                                                         *)
Succeeded == [breaker EXCEPT !.state = "closed", !.count = 0]

(* record_failure.                                                         *)
FailedOnce ==
  [state |-> IF breaker.count + 1 >= Threshold THEN "open" ELSE breaker.state,
   count |-> breaker.count + 1, last |-> ticks]
-----------------------------------------------------------------------------
(* call, up to the await of the function.                                  *)
Call(c) ==
  /\ c \notin calling
  /\ breaker' = State
  /\ calling' = IF State.state = "open" THEN calling ELSE calling \cup {c}
  /\ UNCHANGED ticks

Succeed(c) ==
  /\ c \in calling
  /\ breaker' = Succeeded
  /\ calling' = calling \ {c}
  /\ UNCHANGED ticks

Fail(c) ==
  /\ c \in calling /\ breaker.count < MaxFailures
  /\ breaker' = FailedOnce
  /\ calling' = calling \ {c}
  /\ UNCHANGED ticks

BreakerTick ==
  /\ ticks < MaxTicks
  /\ ticks' = ticks + 1
  /\ UNCHANGED <<breaker, calling>>

BreakerInit ==
  /\ breaker = [state |-> "closed", count |-> 0, last |-> 0]
  /\ calling = {}
  /\ ticks = 0

BreakerNext ==
  \/ \E c \in Callers : Call(c) \/ Succeed(c) \/ Fail(c)
  \/ BreakerTick

BreakerSpec == BreakerInit /\ [][BreakerNext]_breakerVars
-----------------------------------------------------------------------------
(* Whatever overlaps, the breaker is closed exactly while fewer than       *)
(* Threshold failures have been counted since the last success: a call     *)
(* that ends late, or a half open breaker that fails again, leaves no      *)
(* closed breaker that would not open (record_success, record_failure).    *)
ClosedBelowThreshold == breaker.state = "closed" <=> breaker.count < Threshold
=============================================================================

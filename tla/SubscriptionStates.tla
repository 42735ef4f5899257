------------------------- MODULE SubscriptionStates -------------------------
(***************************************************************************)
(* The subscription state machine every entitlement change is meant to go  *)
(* through: which event is legal in which persisted state, and the expiry  *)
(* computed when an entitlement starts.  Dates are counted in days.        *)
(***************************************************************************)
EXTENDS Integers

SUBSCRIPTION_STATES == {"PENDING", "ACTIVE", "SUSPENDED", "EXPIRED", "CANCELLED"}

SUBSCRIPTION_EVENTS ==
  {"CONFIRM_PAYMENT", "SUSPEND", "REINSTATE", "EXPIRE", "CANCEL", "RENEW"}

\* One partial map per state: an event outside its domain is refused.
TRANSITIONS ==
  [PENDING   |-> [CONFIRM_PAYMENT |-> "ACTIVE", CANCEL |-> "CANCELLED"],
   ACTIVE    |-> [SUSPEND |-> "SUSPENDED", EXPIRE |-> "EXPIRED",
                  CANCEL |-> "CANCELLED"],
   SUSPENDED |-> [REINSTATE |-> "ACTIVE", EXPIRE |-> "EXPIRED",
                  CANCEL |-> "CANCELLED"],
   EXPIRED   |-> [RENEW |-> "PENDING"],
   CANCELLED |-> [RENEW |-> "PENDING"]]

CanTransition(from, event) == event \in DOMAIN TRANSITIONS[from]

\* The state an accepted event leads to; callers guard with CanTransition,
\* the code throws InvalidSubscriptionTransitionError instead.
Transition(from, event) == TRANSITIONS[from][event]

\* A legal move of the state machine: some event leads from one to the other.
Reachable(from, to) ==
  \E event \in SUBSCRIPTION_EVENTS :
    CanTransition(from, event) /\ Transition(from, event) = to

\* Mutant: the period is counted backwards.
ExpiresBefore(startedAt, validityDays) == startedAt - validityDays

ComputeExpiresAt(startedAt, validityDays) == startedAt + validityDays
=============================================================================

--------------------------- MODULE PortalThrottle ---------------------------
(***************************************************************************)
(* The limit on portal attempts (logins, vouchers, payments): one counter  *)
(* for the client's address and one for the account or code it names, kept *)
(* in an external store.  A request increments both concurrently; whoever  *)
(* counts 1 sets the expiry of that counter in a second call, and nobody   *)
(* else does.  When a call to the store fails, the process decides from    *)
(* the attempts it remembers itself.                                       *)
(***************************************************************************)
EXTENDS Integers, Functions

CONSTANTS
  Addresses, Identifiers,   \* what the two counters are kept by
  Attempts,                 \* requests that may execute at the same time
  RateLimit, RateWindow,    \* attempts allowed, and for how long they count
  MaxCount, MaxCuts         \* bounds on a counter, and on deaths and outages

ASSUME ThrottleAssumption ==
  /\ RateLimit \in Nat \ {0} /\ RateWindow \in Nat \ {0}
  /\ MaxCount \in Nat /\ MaxCuts \in Nat

Keys == Addresses \union Identifiers

VARIABLES
  counter, expiry,   \* the store: each key's count and remaining time (0: none set)
  recent,            \* the fallback: remembered attempts, by how long they still count
  attempt,           \* each request: its keys and how far it is with each
  cut, cuts          \* keys left without an expiry by a fault; faults so far

throttleVars == <<counter, expiry, recent, attempt, cut, cuts>>

Quiet == [pc |-> "quiet"]

ThrottleInit ==
  /\ counter = [k \in Keys |-> 0] /\ expiry = [k \in Keys |-> 0]
  /\ recent = [k \in Keys |-> [left \in 1..RateWindow |-> 0]]
  /\ attempt = [a \in Attempts |-> Quiet]
  /\ cut = {} /\ cuts = 0

\* The store forgets a counter whose time is over (external).
TimePasses ==
  /\ counter' = [k \in Keys |-> IF expiry[k] = 1 THEN 0 ELSE counter[k]]
  /\ expiry' = [k \in Keys |-> IF expiry[k] > 0 THEN expiry[k] - 1 ELSE 0]
  /\ recent' = [k \in Keys |-> [left \in 1..RateWindow |->
       IF left < RateWindow THEN recent[k][left + 1] ELSE 0]]
  /\ UNCHANGED <<attempt, cut, cuts>>

BeginAttempt(a, ip, id) ==
  /\ attempt[a] = Quiet
  /\ attempt' = [attempt EXCEPT ![a] =
       [pc |-> "store", ip |-> ip, id |-> id, step |-> [k \in {ip, id} |-> "incr"]]]
  /\ UNCHANGED <<counter, expiry, recent, cut, cuts>>

At(a, k, step) ==
  /\ attempt[a] # Quiet
  /\ k \in {attempt[a].ip, attempt[a].id} /\ attempt[a].step[k] = step

Counts(a, k, to) ==
  /\ At(a, k, "incr") /\ counter[k] < MaxCount
  /\ counter' = [counter EXCEPT ![k] = @ + 1]
  /\ attempt' = [attempt EXCEPT ![a].step[k] = to]
  /\ UNCHANGED <<expiry, recent, cut, cuts>>

Verdict(k) == IF counter[k] < RateLimit THEN "within" ELSE "over"

\* Mutant: the second attempt sets the expiry.
CountsFromZero(a, k) == Counts(a, k, IF counter[k] = 1 THEN "expire" ELSE Verdict(k))

Incr(a, k) == Counts(a, k, IF counter[k] = 0 THEN "expire" ELSE Verdict(k))

SetExpiry(a, k) ==
  /\ At(a, k, "expire")
  /\ expiry' = [expiry EXCEPT ![k] = RateWindow]
  /\ attempt' = [attempt EXCEPT ![a].step[k] = "within"]
  /\ UNCHANGED <<counter, recent, cut, cuts>>

Fault == cuts < MaxCuts /\ cuts' = cuts + 1

\* A failed call, of which the store may have taken the increment; the other key's
\* calls go on.
CallFails(a, k) ==
  /\ Fault
  /\ \/ At(a, k, "expire") /\ cut' = cut \union {k} /\ UNCHANGED counter
     \/ At(a, k, "incr") /\ UNCHANGED <<cut, counter>>
     \/ /\ At(a, k, "incr") /\ counter[k] < MaxCount
        /\ counter' = [counter EXCEPT ![k] = @ + 1]
        /\ cut' = IF counter[k] = 0 THEN cut \union {k} ELSE cut
  /\ attempt' = [attempt EXCEPT ![a].step[k] = "failed",
                   ![a].pc = IF @ = "store" THEN "local" ELSE @]
  /\ UNCHANGED <<expiry, recent>>

\* The address is remembered although the identifier is then refused.
DecideLocally(a) ==
  /\ attempt[a].pc = "local"
  /\ LET remembers(k) == [recent[k] EXCEPT ![RateWindow] = @ + 1]
         free(k) == SumFunction(recent[k]) < RateLimit
         ip == attempt[a].ip
         id == attempt[a].id
     IN  recent' = IF ~free(ip) THEN recent
                   ELSE IF ~free(id) THEN [recent EXCEPT ![ip] = remembers(ip)]
                   ELSE [recent EXCEPT ![ip] = remembers(ip), ![id] = remembers(id)]
  /\ attempt' = [attempt EXCEPT ![a].pc = "answered"]
  /\ UNCHANGED <<counter, expiry, cut, cuts>>

AttemptOver(a) ==
  /\ attempt[a].pc \in {"store", "answered"}
  /\ \A k \in {attempt[a].ip, attempt[a].id} :
       attempt[a].step[k] \in {"within", "over", "failed"}
  /\ attempt' = [attempt EXCEPT ![a] = Quiet]
  /\ UNCHANGED <<counter, expiry, recent, cut, cuts>>

AttemptDies(a) ==
  /\ attempt[a] # Quiet /\ Fault
  /\ cut' = cut \union {k \in Keys : At(a, k, "expire")}
  /\ attempt' = [attempt EXCEPT ![a] = Quiet]
  /\ UNCHANGED <<counter, expiry, recent>>

ThrottleNext ==
  \/ TimePasses
  \/ \E a \in Attempts :
       \/ \E ip \in Addresses, id \in Identifiers : BeginAttempt(a, ip, id)
       \/ \E k \in Keys : Incr(a, k) \/ SetExpiry(a, k) \/ CallFails(a, k)
       \/ DecideLocally(a) \/ AttemptOver(a) \/ AttemptDies(a)

ThrottleSpec == ThrottleInit /\ [][ThrottleNext]_throttleVars

-----------------------------------------------------------------------------
(* Properties *)

KeySteps == {"incr", "expire", "within", "over", "failed"}

\* The types of the counters, the remembered attempts and the requests.
ThrottleTypeOK ==
  /\ counter \in [Keys -> 0..MaxCount]
  /\ expiry \in [Keys -> 0..RateWindow]
  /\ recent \in [Keys -> [1..RateWindow -> Nat]]
  /\ \A a \in Attempts : attempt[a] # Quiet =>
       /\ attempt[a].ip \in Addresses /\ attempt[a].id \in Identifiers
       /\ attempt[a].pc \in {"store", "local", "answered"}
       /\ attempt[a].step \in [{attempt[a].ip, attempt[a].id} -> KeySteps]
  /\ cut \subseteq Keys /\ cuts \in 0..MaxCuts

\* A counter that counts has an expiry, or the request that counted 1 is about to set
\* it: otherwise nothing ever resets it and its key is refused for ever.  Only a
\* request that died or lost the store between its two calls leaves one so
\* (consumePortalAttempt).
LockedOutOnlyByFault ==
  \A k \in Keys \ cut :
    counter[k] > 0 /\ expiry[k] = 0 =>
      \E a \in Attempts : /\ At(a, k, "expire")
                          /\ \A b \in Attempts \ {a} : ~At(b, k, "expire")
=============================================================================

------------------------------ MODULE VpnPool ------------------------------
(***************************************************************************)
(* The tunnel addresses of routers.  Registering a router reads the        *)
(* addresses of its own organization's routers, takes the lowest free host *)
(* and creates the row in a later call; no constraint of the database      *)
(* keeps an address unique, and the network is one for all organizations.  *)
(* Routers are never deleted.  Without tunnels (direct LAN) a router has   *)
(* no address and nothing here applies.                                    *)
(***************************************************************************)
EXTENDS Integers

CONSTANTS
  Isps,            \* organizations
  Registrations,   \* executions of createRouterAction, one router each
  FirstHost, LastHost

ASSUME PoolAssumption ==
  /\ FirstHost \in Nat /\ LastHost \in Nat /\ FirstHost <= LastHost

VARIABLE router   \* each registration: its state, organization, host, what it read

Hosts == FirstHost..LastHost
Unregistered == [pc |-> "new"]
Registered == {r \in Registrations : router[r].pc = "row"}
RoutersOf(o) == {r \in Registered : router[r].isp = o}
Used(o) == {router[r].host : r \in RoutersOf(o)}
Lowest(S) == CHOOSE h \in S : \A k \in S : h <= k

PoolInit == router = [r \in Registrations |-> Unregistered]

\* Mutant: the first host is not looked up among the used ones.
AllocateFirst(r, o) ==
  /\ router[r] = Unregistered
  /\ router' = [router EXCEPT ![r] =
       [pc |-> "chosen", isp |-> o, host |-> FirstHost, read |-> RoutersOf(o)]]

\* Mutant: a full network is continued past its last host.
AllocateBeyond(r, o) ==
  /\ router[r] = Unregistered
  /\ router' = [router EXCEPT ![r] =
       [pc |-> "chosen", isp |-> o, read |-> RoutersOf(o),
        host |-> Lowest((FirstHost..(LastHost + 1)) \ Used(o))]]

AllocateVpnIp(r, o) ==
  /\ router[r] = Unregistered
  /\ router' = [router EXCEPT ![r] =
       IF Hosts \subseteq Used(o)
       THEN [pc |-> "full", isp |-> o, read |-> RoutersOf(o)]
       ELSE [pc |-> "chosen", isp |-> o, host |-> Lowest(Hosts \ Used(o)),
             read |-> RoutersOf(o)]]

CreateRouter(r) ==
  /\ router[r].pc = "chosen"
  /\ router' = [router EXCEPT ![r].pc = "row"]

PoolNext ==
  \E r \in Registrations : CreateRouter(r) \/ \E o \in Isps : AllocateVpnIp(r, o)

PoolSpec == PoolInit /\ [][PoolNext]_router

-----------------------------------------------------------------------------
(* Properties *)

\* The type of the registrations.
PoolTypeOK ==
  router \in [Registrations -> {Unregistered}
    \union [pc : {"chosen", "row"}, isp : Isps, host : Hosts, read : SUBSET Registrations]
    \union [pc : {"full"}, isp : Isps, read : SUBSET Registrations]]

Overlapped(r, s) == r \notin router[s].read /\ s \notin router[r].read

\* Two routers have the same tunnel address only if they belong to different
\* organizations or neither registration could see the other's row; and a
\* registration is refused for a full pool only when its organization's routers
\* really hold every host (allocateVpnIp).
AddressSharedOnlyByRace ==
  /\ \A r, s \in Registered :
       r # s /\ router[r].host = router[s].host =>
         router[r].isp # router[s].isp \/ Overlapped(r, s)
  /\ \A r \in Registrations :
       router[r].pc = "full" => \A h \in Hosts : \E s \in RoutersOf(router[r].isp) :
                                   s \in router[r].read /\ router[s].host = h
=============================================================================

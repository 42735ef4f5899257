---------------------------- MODULE MCOperations ----------------------------
(***************************************************************************)
(* The operational components on small instances, in one run.  They share  *)
(* no variable, so every property of one of them holds of their composition*)
(* exactly when it holds of that component alone: `focus' picks the one    *)
(* that runs in a behaviour, and the state space is the sum of theirs, not *)
(* the product.                                                            *)
(***************************************************************************)
EXTENDS Payouts, TenantScope, Accounts, Messages, RouterChannel, RemoteControl,
        VpnPool, PortalThrottle, TLC

CONSTANTS t1, x1, x2, y1, y2

TwoRouters == y1 :> "north" @@ y2 :> "south"
AgentPrograms == {<<"isolate", "kick">>, <<"restore">>, <<"restore", "rate">>}

VARIABLE focus

Parts == {"payouts", "tenants", "accounts", "reminders", "alerts",
          "channel", "remote", "pool", "throttle"}

OperationsInit ==
  /\ focus \in Parts
  /\ PayoutInit /\ TenantInit /\ AccountInit /\ MessageInit
  /\ ChannelInit /\ RemoteInit /\ PoolInit /\ ThrottleInit
  /\ focus # "tenants" => answer.by = t1
  /\ focus # "channel" => ctl.program = <<"restore">> /\ \A t \in Tables : tables[t] = {}

Only(part) ==
  /\ focus = part /\ UNCHANGED focus
  /\ part # "payouts" => UNCHANGED payoutVars
  /\ part # "tenants" => UNCHANGED tenantVars
  /\ part # "accounts" => UNCHANGED accountVars
  /\ part \notin {"reminders", "alerts"} => UNCHANGED messageVars
  /\ part # "channel" => UNCHANGED channelVars
  /\ part # "remote" => UNCHANGED remoteVars
  /\ part # "pool" => UNCHANGED router
  /\ part # "throttle" => UNCHANGED throttleVars

\* Reminders and alerts never concern the same message, and an alert concerns no
\* subscription; it may be repeated after a day, so it takes a day more to see.  The
\* third row is for the retries, which a third kind of reminder does not change.
Without(kind) == \A r \in Runs : run'[r] = Resting \/ run'[r].job # kind

OperationsNext ==
  \/ Only("payouts") /\ PayoutNext
  \/ Only("tenants") /\ TenantNext
  \/ Only("accounts") /\ AccountNext
  \/ Only("reminders") /\ MessageNext /\ Without("alerts") /\ today' < LastDay
     /\ (low' = {} \/ Len(rows') < MaxRows)
  \/ Only("alerts") /\ MessageNext /\ Without("reminders")
     /\ UNCHANGED <<access, ends, low, slipped>>
  \/ Only("channel") /\ ChannelNext
  \/ Only("remote") /\ RemoteNext
  \/ Only("pool") /\ PoolNext
  \/ Only("throttle") /\ ThrottleNext

operationsVars == <<focus, payoutVars, tenantVars, accountVars, messageVars,
                    channelVars, remoteVars, router, throttleVars>>

OperationsSpec == OperationsInit /\ [][OperationsNext]_operationsVars

\* Every component is given {x1, x2} and {y1, y2} for sets whose members no filter,
\* constant or order tells apart.
Symmetry == Permutations({x1, x2}) \union Permutations({y1, y2})

\* The types of the variables of the component that runs; the others keep their
\* initial values.
OperationsTypeOK ==
  /\ focus = "payouts" => PayoutTypeOK
  /\ focus = "tenants" => TenantTypeOK
  /\ focus = "accounts" => AccountTypeOK
  /\ focus \in {"reminders", "alerts"} => MessageTypeOK
  /\ focus = "channel" => ChannelTypeOK
  /\ focus = "remote" => RemoteTypeOK
  /\ focus = "pool" => PoolTypeOK
  /\ focus = "throttle" => ThrottleTypeOK
=============================================================================

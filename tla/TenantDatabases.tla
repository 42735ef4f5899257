-------------------------- MODULE TenantDatabases --------------------------
(***************************************************************************)
(* What tenant isolation comes to: the one database behaves as a separate  *)
(* database for every organization.  A call made for an organization       *)
(* changes no other organization's rows and returns none of them.  A call  *)
(* that the client passes through may add rows to any organization's: it   *)
(* changes no row that was there and returns only those it adds.           *)
(***************************************************************************)
CONSTANTS Tenants, RowIds, Values, Absent

VARIABLES
  own,      \* own[t][i]: the value of row i in t's database, or Absent
  answer    \* the last answer: for whom, the rows in it, and whether the call was
            \* passed through

RowsOf(t) == {<<i, own[t][i]>> : i \in {j \in RowIds : own[t][j] # Absent}}

EmptyDatabases ==
  /\ own = [t \in Tenants |-> [i \in RowIds |-> Absent]]
  /\ answer \in [by : Tenants, passed : {FALSE}, rows : {{}}]

CallFor(t) ==
  /\ answer'.by = t /\ ~answer'.passed
  /\ own' \in [Tenants -> [RowIds -> Values \union {Absent}]]
  /\ \A u \in Tenants \ {t} : own'[u] = own[u]
  /\ answer'.rows \subseteq RowsOf(t)'

PassFor(t) ==
  /\ answer'.by = t /\ answer'.passed
  /\ own' \in [Tenants -> [RowIds -> Values \union {Absent}]]
  /\ \A u \in Tenants, i \in RowIds : own[u][i] # Absent => own'[u][i] = own[u][i]
  /\ \A x \in answer'.rows : \E u \in Tenants, i \in RowIds :
       x = <<i, own'[u][i]>> /\ own[u][i] = Absent /\ own'[u][i] # Absent

SeparateSpec ==
  EmptyDatabases /\ [][\E t \in Tenants : CallFor(t) \/ PassFor(t)]_<<own, answer>>
=============================================================================

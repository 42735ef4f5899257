---------------------------- MODULE TenantScope ----------------------------
(***************************************************************************)
(* The database client bound to one organization: it rewrites the filter   *)
(* and the data of the calls on a tenant-owned model, and passes through   *)
(* the operations it does not name.  The rows of all organizations are in  *)
(* one table, keyed by an id that is unique across them.  A filter is a    *)
(* set of conditions that all must hold.  Models that are not tenant-owned *)
(* pass through and are not modelled, nor are nested relations, which the  *)
(* client does not rewrite.                                                *)
(***************************************************************************)
CONSTANTS Tenants, RowIds, Values, Absent,
          AnyTenant   \* no organization in the caller's filter or data

ASSUME TenantAssumption ==
  /\ AnyTenant \notin Tenants
  /\ Absent \notin Values

VARIABLES
  table,    \* table[i]: the organization and the value of row i, or NoRow
  answer    \* the rows the last call returned, for whom it was made, and whether
            \* it was passed through

tenantVars == <<table, answer>>

NoRow == [org |-> AnyTenant, value |-> Absent]
Present == {i \in RowIds : table[i] # NoRow}
Conditions == [ids : SUBSET RowIds, org : Tenants \union {AnyTenant}]
OnRow == {w \in Conditions : \E i \in RowIds : w.ids = {i}}
Data == [org : Tenants \union {AnyTenant}, value : Values]

-----------------------------------------------------------------------------
(* The rewriting *)

\* Mutant: the caller's condition replaces the organization's.
UnscopedWhere(t, w) ==
  IF w.org = AnyTenant THEN {[w EXCEPT !.org = t]} ELSE {w}

OrganizationWhere(t, w) == {w, [ids |-> RowIds, org |-> t]}

Foreign(t, x) == x.org \notin {AnyTenant, t}

TenantData(t, d) == [d EXCEPT !.org = t]

UniqueWhere(t, w) == {[w EXCEPT !.org = t]}

Selected(where) ==
  {i \in Present : \A w \in where : i \in w.ids /\ w.org \in {AnyTenant, table[i].org}}

\* What a call returns is read after its writes.
Answer(t, rows) ==
  answer' = [by |-> t, passed |-> FALSE, rows |-> {<<i, table'[i].value>> : i \in rows}]

-----------------------------------------------------------------------------
(* The operations; a foreign organization in the arguments of one that the *)
(* client names throws                                                      *)

CreateMany(t, ids, d) ==
  /\ ~Foreign(t, d)
  /\ ids \intersect Present = {}
  /\ table' = [i \in RowIds |-> IF i \in ids THEN TenantData(t, d) ELSE table[i]]
  /\ Answer(t, ids)

\* What the client does not name goes to the database as the caller wrote it: of the
\* library's operations the one that creates rows and returns them.
CreateManyAndReturn(t, ids, d) ==
  /\ d.org # AnyTenant
  /\ ids \intersect Present = {}
  /\ table' = [i \in RowIds |-> IF i \in ids THEN d ELSE table[i]]
  /\ answer' = [by |-> t, passed |-> TRUE, rows |-> {<<i, d.value>> : i \in ids}]

FindMany(t, w) ==
  /\ UNCHANGED table
  /\ Answer(t, Selected(OrganizationWhere(t, w)))

FindUnique(t, w) ==
  /\ ~Foreign(t, w)
  /\ UNCHANGED table
  /\ Answer(t, Selected(UniqueWhere(t, w)))

Write(t, rows, d) ==
  /\ ~Foreign(t, d)
  /\ table' = [i \in RowIds |-> IF i \in rows THEN TenantData(t, d) ELSE table[i]]
  /\ Answer(t, rows)

UpdateMany(t, w, d) == Write(t, Selected(OrganizationWhere(t, w)), d)

Update(t, w, d) ==
  /\ ~Foreign(t, w)
  /\ Selected(UniqueWhere(t, w)) # {}
  /\ Write(t, Selected(UniqueWhere(t, w)), d)

\* An id that another organization's row has is neither updated nor created:
\* the insert breaks the primary key.
Upsert(t, w, d) ==
  /\ ~Foreign(t, w)
  /\ \/ Update(t, w, d)
     \/ Selected(UniqueWhere(t, w)) = {} /\ CreateMany(t, w.ids, d)

Remove(t, rows) ==
  /\ table' = [i \in RowIds |-> IF i \in rows THEN NoRow ELSE table[i]]
  /\ answer' = [by |-> t, passed |-> FALSE, rows |-> {}]

DeleteMany(t, w) == Remove(t, Selected(OrganizationWhere(t, w)))

Delete(t, w) ==
  /\ ~Foreign(t, w)
  /\ Selected(UniqueWhere(t, w)) # {}
  /\ Remove(t, Selected(UniqueWhere(t, w)))

TenantInit ==
  /\ table = [i \in RowIds |-> NoRow]
  /\ answer \in [by : Tenants, passed : {FALSE}, rows : {{}}]

TenantCall(t) ==
  \/ \E w \in Conditions :
       \/ FindMany(t, w) \/ DeleteMany(t, w)
       \/ \E d \in Data : UpdateMany(t, w, d)
  \/ \E w \in OnRow :
       \/ FindUnique(t, w) \/ Delete(t, w)
       \/ \E d \in Data : Update(t, w, d) \/ Upsert(t, w, d)
  \/ \E ids \in SUBSET RowIds, d \in Data :
       CreateMany(t, ids, d) \/ CreateManyAndReturn(t, ids, d)

TenantNext == \E t \in Tenants : TenantCall(t)

TenantSpec == TenantInit /\ [][TenantNext]_tenantVars

-----------------------------------------------------------------------------
(* Properties *)

\* The types of the table and of the last answer.
TenantTypeOK ==
  /\ table \in [RowIds -> [org : Tenants, value : Values] \union {NoRow}]
  /\ answer \in [by : Tenants, passed : BOOLEAN, rows : SUBSET (RowIds \X Values)]

OwnRows ==
  [t \in Tenants |-> [i \in RowIds |->
     IF table[i].org = t THEN table[i].value ELSE Absent]]

Separate == INSTANCE TenantDatabases WITH own <- OwnRows

\* The shared table seen through the bound clients is a separate database for each
\* organization, whatever filters, data and foreign ids the callers supply: an
\* operation the client names neither changes nor returns another's rows, and the one
\* it passes through, which may add rows to any organization, changes and returns no
\* row that was there (createTenantClient and the rewriting helpers of tenant.ts).
IsolatedSpec == Separate!SeparateSpec
=============================================================================

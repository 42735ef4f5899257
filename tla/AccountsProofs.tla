--------------------------- MODULE AccountsProofs ---------------------------
(***************************************************************************)
(* Proofs about invitations and sign-up, for any number of e-mails,        *)
(* invitations, guests, founders and names, and any number of deaths.  A   *)
(* step moves rows of invitations in one of few ways (RowMoves); the rows' *)
(* invariant and the accounts' follow from that, not from the action.      *)
(***************************************************************************)
EXTENDS Accounts, TLAPS

Statuses == {"NONE", "PENDING", "ACCEPTED", "REVOKED", "EXPIRED"}
Mails == {"none", "row", "sending", "delivered", "both", "failed"}
InviteRow == [status : Statuses, email : Emails \union {Home}, due : 0..(MaxDay + InviteTTL),
              mail : Mails, used : BOOLEAN]
Guest == [pc : {"judge", "register", "account"}, on : InviteIds]
Founder == [pc : {"register", "org", "user"}, email : Emails, slug : Slugs]
User == [email : Emails, org : Slugs \union {Home}]

\* The type invariant in the names used here.
Typed ==
  /\ day \in 0..MaxDay /\ deaths \in 0..MaxDeaths
  /\ identities \subseteq Emails /\ lapsed \subseteq Emails
  /\ orgs \subseteq Slugs /\ users \subseteq User
  /\ invite \in [InviteIds -> InviteRow]
  /\ guest \in [Guests -> {Nobody} \union Guest]
  /\ founder \in [Founders -> {Nobody} \union Founder]
  /\ withdrawn \subseteq InviteIds /\ disowned \subseteq InviteIds

Closed == {"REVOKED", "EXPIRED"}

\* What is true of every row, whoever has written it.
RowInv(i) ==
  /\ invite[i] # NoInvite => invite[i].email \in Invitees
  /\ invite[i].mail = "row" => invite[i].status = "NONE"
  /\ invite[i].status = "NONE" => invite[i].mail \in {"none", "row"}
  /\ invite[i].used => invite[i].status \in Closed \union {"ACCEPTED"}
  /\ invite[i].used /\ i \notin disowned => invite[i].status = "ACCEPTED"
  /\ i \in withdrawn => ~invite[i].used /\ invite[i].status \in Closed

\* A guest works on an invitation that was written.
GuestInv(g) == guest[g] # Nobody => invite[guest[g].on].status # "NONE"

UsedOnce ==
  /\ \A e \in Emails : [email |-> e, org |-> Home] \in users
                         <=> \E i \in InviteIds : invite[i].used /\ invite[i].email = e
  /\ \A i, j \in InviteIds :
       invite[i].used /\ invite[j].used /\ invite[i].email = invite[j].email => i = j

AccountInv ==
  /\ Typed
  /\ \A i \in InviteIds : RowInv(i)
  /\ \A g \in Guests : GuestInv(g)
  /\ UsedOnce
  /\ RegisteredGetsAccount

-----------------------------------------------------------------------------
(* How a step moves a row *)

Told(i) == (i \in withdrawn' <=> i \in withdrawn) /\ (i \in disowned' <=> i \in disowned)
KeepsUse(i) == invite'[i].email = invite[i].email /\ invite'[i].used = invite[i].used

Stays(i) == invite'[i] = invite[i] /\ Told(i)
Drafted(i) ==
  /\ invite[i] = NoInvite /\ Told(i)
  /\ invite'[i].email \in Invitees /\ invite'[i].status = "NONE"
  /\ invite'[i].mail = "row" /\ ~invite'[i].used
Dropped(i) == invite[i].mail = "row" /\ invite'[i] = NoInvite /\ Told(i)
Opened(i) ==
  /\ invite[i].mail = "row" /\ Told(i) /\ KeepsUse(i)
  /\ invite'[i].status = "PENDING" /\ invite'[i].mail = "sending"
Mailed(i) ==
  /\ invite[i].mail \in {"sending", "both", "failed"} /\ Told(i) /\ KeepsUse(i)
  /\ invite'[i].status = invite[i].status /\ invite'[i].mail # "row"
Ended(i) ==
  /\ invite[i].status = "PENDING" /\ KeepsUse(i)
  /\ invite'[i].status \in Closed /\ invite'[i].mail = invite[i].mail
  /\ i \in disowned' <=> i \in disowned
Overwritten(i) ==
  /\ invite[i].status # "NONE" /\ KeepsUse(i)
  /\ invite'[i].status \in Closed /\ invite'[i].mail # "row"
  /\ i \in withdrawn' <=> i \in withdrawn
  /\ i \in disowned' <=> i \in disowned \/ invite[i].used

RowMoves(i) ==
  \/ Stays(i) \/ Drafted(i) \/ Dropped(i) \/ Opened(i)
  \/ Mailed(i) \/ Ended(i) \/ Overwritten(i)

RowsMove ==
  /\ invite' \in [InviteIds -> InviteRow]
  /\ \A i \in InviteIds : RowMoves(i)

LEMMA NoInviteTyped == NoInvite \in InviteRow
<1>1. 0 \in 0..(MaxDay + InviteTTL)
  BY AccountAssumption DEF AccountAssumption
<1> QED BY <1>1 DEF NoInvite, InviteRow, Statuses, Mails

\* However it moves, a row keeps its invariant, its use and, once written, its e-mail.
LEMMA MovedRow ==
  ASSUME NEW i \in InviteIds, invite \in [InviteIds -> InviteRow], RowsMove, RowInv(i)
  PROVE  /\ RowInv(i)'
         /\ invite'[i].used <=> invite[i].used
         /\ invite[i].status # "NONE" => /\ invite'[i].status # "NONE"
                                         /\ invite'[i].email = invite[i].email
<1>1. /\ NoInvite.mail = "none" /\ NoInvite.status = "NONE" /\ NoInvite.used = FALSE
  BY DEF NoInvite
<1>2. invite[i] \in InviteRow /\ invite'[i] \in InviteRow /\ RowMoves(i)
  BY DEF RowsMove
<1>3. CASE Stays(i)
  BY <1>3 DEF Stays, RowInv, Told
<1>4. CASE Drafted(i)
  BY <1>1, <1>4 DEF Drafted, RowInv, Told, Closed
<1>5. CASE Dropped(i)
  BY <1>1, <1>2, <1>5 DEF Dropped, RowInv, Told, Closed, InviteRow
<1>6. CASE Opened(i)
  BY <1>1, <1>2, <1>6 DEF Opened, RowInv, Told, KeepsUse, Closed, InviteRow
<1>7. CASE Mailed(i)
  BY <1>1, <1>2, <1>7 DEF Mailed, RowInv, Told, KeepsUse, Closed, InviteRow
<1>8. CASE Ended(i)
  BY <1>1, <1>2, <1>8 DEF Ended, RowInv, KeepsUse, Closed, InviteRow
<1>9. CASE Overwritten(i)
  BY <1>1, <1>2, <1>9 DEF Overwritten, RowInv, KeepsUse, Closed, InviteRow
<1> QED BY <1>2, <1>3, <1>4, <1>5, <1>6, <1>7, <1>8, <1>9 DEF RowMoves

LEMMA MovedRows ==
  ASSUME AccountInv, RowsMove
  PROVE  \A i \in InviteIds :
           /\ RowInv(i)'
           /\ invite'[i].used <=> invite[i].used
           /\ invite[i].status # "NONE" => /\ invite'[i].status # "NONE"
                                           /\ invite'[i].email = invite[i].email
  BY MovedRow DEF AccountInv, Typed

\* Rows moved, accounts not: the accounts' invariants stand.
LEMMA RowsOnly ==
  ASSUME AccountInv, Typed', RowsMove,
         UNCHANGED <<users, identities, orgs, founder, lapsed, deaths>>,
         \A g \in Guests : guest[g] # Nobody /\ guest[g].pc = "account" => guest'[g] = guest[g],
         \A g \in Guests : GuestInv(g)'
  PROVE  AccountInv'
<1>1. \A i \in InviteIds :
        /\ RowInv(i)'
        /\ invite'[i].used <=> invite[i].used
        /\ invite[i].status # "NONE" => /\ invite'[i].status # "NONE"
                                        /\ invite'[i].email = invite[i].email
  BY MovedRows
<1>2. \A i \in InviteIds : invite[i].used => invite'[i].email = invite[i].email
  BY <1>1 DEF AccountInv, RowInv, Closed
<1>3. UsedOnce'
  BY <1>1, <1>2 DEF AccountInv, UsedOnce
<1>4. ASSUME NEW e \in Emails, WorkingOn(e) PROVE WorkingOn(e)'
  <2>1. CASE \E g \in Guests : guest[g] # Nobody /\ guest[g].pc = "account"
                                /\ invite[guest[g].on].email = e
    <3>1. PICK g \in Guests : guest[g] # Nobody /\ guest[g].pc = "account"
                              /\ invite[guest[g].on].email = e
      BY <2>1
    <3>2. guest'[g] = guest[g] /\ guest[g].on \in InviteIds /\ GuestInv(g)
      BY <3>1 DEF AccountInv, Typed, Guest
    <3>3. invite'[guest[g].on].email = e
      BY <1>1, <3>1, <3>2 DEF GuestInv
    <3> QED BY <3>1, <3>2, <3>3 DEF WorkingOn
  <2>2. CASE \E f \in Founders : founder[f] # Nobody /\ founder[f].pc \in {"org", "user"}
                                  /\ founder[f].email = e
    BY <2>2 DEF WorkingOn
  <2> QED BY <1>4, <2>1, <2>2 DEF WorkingOn
<1>5. identities \subseteq Emails
  BY DEF AccountInv, Typed
<1>6. RegisteredGetsAccount'
  BY <1>4, <1>5 DEF AccountInv, RegisteredGetsAccount, HasUser, Administered
<1> QED BY <1>1, <1>3, <1>6 DEF AccountInv

LEMMA OneRow ==
  ASSUME invite \in [InviteIds -> InviteRow], NEW i \in InviteIds, NEW r \in InviteRow,
         invite' = [invite EXCEPT ![i] = r], \A j \in InviteIds \ {i} : Told(j)
  PROVE  /\ invite' \in [InviteIds -> InviteRow] /\ invite'[i] = r
         /\ \A j \in InviteIds \ {i} : RowMoves(j)
  BY DEF RowMoves, Stays

LEMMA GuestsStand ==
  ASSUME AccountInv, RowsMove, UNCHANGED guest
  PROVE  \A g \in Guests : GuestInv(g)'
<1> SUFFICES ASSUME NEW g \in Guests, guest[g] # Nobody
             PROVE  invite'[guest[g].on].status # "NONE"
  BY DEF GuestInv
<1>1. guest[g].on \in InviteIds /\ invite[guest[g].on].status # "NONE"
  BY DEF AccountInv, Typed, GuestInv, Guest
<1> QED BY <1>1, MovedRows

\* A step that only writes one row.
LEMMA RowWritten ==
  ASSUME AccountInv, NEW i \in InviteIds, NEW r \in InviteRow,
         invite' = [invite EXCEPT ![i] = r], RowMoves(i),
         \A j \in InviteIds \ {i} : Told(j),
         UNCHANGED <<day, peopleVars>>,
         withdrawn' \subseteq InviteIds, disowned' \subseteq InviteIds
  PROVE  AccountInv'
<1>1. RowsMove
  BY OneRow DEF RowsMove, AccountInv, Typed
<1>2. Typed'
  BY <1>1 DEF AccountInv, Typed, RowsMove, peopleVars
<1> QED BY <1>1, <1>2, GuestsStand, RowsOnly DEF peopleVars

LEMMA InviteKeeps ==
  ASSUME AccountInv, NEW i \in InviteIds, NEW e \in Invitees, Invite(i, e)
  PROVE  AccountInv'
<1> DEFINE r == [NoInvite EXCEPT !.email = e, !.mail = "row"]
<1>1. r \in InviteRow /\ r.email = e /\ r.mail = "row" /\ r.status = "NONE" /\ ~r.used
  BY NoInviteTyped, AccountAssumption DEF AccountAssumption, InviteRow, NoInvite, Mails
<1>2. invite[i] = NoInvite /\ invite \in [InviteIds -> InviteRow]
  BY DEF Invite, AccountInv, Typed
<1>3. invite' = [invite EXCEPT ![i] = r]
  BY <1>2 DEF Invite
<1> HIDE DEF r
<1>4. invite'[i] = r /\ UNCHANGED <<day, peopleVars, withdrawn, disowned>>
  BY <1>2, <1>3 DEF Invite
<1>5. RowMoves(i)
  BY <1>1, <1>2, <1>4 DEF RowMoves, Drafted, Told
<1> QED BY <1>1, <1>3, <1>4, <1>5, RowWritten DEF Told, AccountInv, Typed

LEMMA CreateKeeps ==
  ASSUME AccountInv, NEW i \in InviteIds, CreateInvite(i)
  PROVE  AccountInv'
<1> DEFINE x == invite[i]
           o == [x EXCEPT !.status = "PENDING", !.due = day + InviteTTL, !.mail = "sending"]
           r == IF Free(i, x.email, "PENDING") THEN o ELSE NoInvite
<1>1. x \in InviteRow /\ invite \in [InviteIds -> InviteRow] /\ x.mail = "row"
  BY DEF CreateInvite, AccountInv, Typed
<1>2. day + InviteTTL \in 0..(MaxDay + InviteTTL)
  BY AccountAssumption DEF AccountAssumption, AccountInv, Typed
<1>3. /\ o \in InviteRow /\ o.status = "PENDING" /\ o.mail = "sending"
      /\ o.email = x.email /\ o.used = x.used
  <2> HIDE DEF x
  <2> QED BY <1>1, <1>2 DEF InviteRow, Statuses, Mails
<1>4. invite' = [invite EXCEPT ![i] = r]
  BY DEF CreateInvite
<1> HIDE DEF o
<1>5. r \in InviteRow /\ (r = o \/ r = NoInvite)
  BY <1>3, NoInviteTyped
<1> HIDE DEF r
<1>6. invite'[i] = r /\ UNCHANGED <<day, peopleVars, withdrawn, disowned>>
  BY <1>1, <1>4 DEF CreateInvite
<1>7. RowMoves(i)
  BY <1>1, <1>3, <1>5, <1>6 DEF RowMoves, Opened, Dropped, Told, KeepsUse
<1> QED BY <1>4, <1>5, <1>6, <1>7, RowWritten DEF Told, AccountInv, Typed

LEMMA SendKeeps ==
  ASSUME AccountInv, NEW i \in InviteIds, SendInvite(i)
  PROVE  AccountInv'
<1>0. PICK outcome \in {"delivered", "both", "failed"} :
        invite' = [invite EXCEPT ![i].mail = outcome]
  BY DEF SendInvite
<1> DEFINE x == invite[i]
           r == [x EXCEPT !.mail = outcome]
<1>1. x \in InviteRow /\ invite \in [InviteIds -> InviteRow] /\ x.mail = "sending"
  BY DEF SendInvite, AccountInv, Typed
<1>2. invite' = [invite EXCEPT ![i] = r]
  BY <1>0
<1>3. /\ r \in InviteRow /\ r.mail = outcome
      /\ r.email = x.email /\ r.used = x.used /\ r.status = x.status
  <2> HIDE DEF x
  <2> QED BY <1>1 DEF InviteRow, Mails
<1> HIDE DEF r
<1>4. invite'[i] = r /\ UNCHANGED <<day, peopleVars, withdrawn, disowned>>
  BY <1>1, <1>2 DEF SendInvite
<1>5. RowMoves(i)
  BY <1>1, <1>3, <1>4 DEF RowMoves, Mailed, Told, KeepsUse
<1> QED BY <1>2, <1>3, <1>4, <1>5, RowWritten DEF Told, AccountInv, Typed

\* After a failed e-mail the row is overwritten by its id, or only forgotten.
LEMMA RevokeUnsentKeeps ==
  ASSUME AccountInv, NEW i \in InviteIds, RevokeUnsent(i)
  PROVE  AccountInv'
<1> DEFINE x == invite[i]
           next == IF x.mail = "both" THEN "delivered" ELSE "none"
           revoked == Free(i, x.email, "REVOKED")
           status == IF revoked THEN "REVOKED" ELSE x.status
           r == [x EXCEPT !.mail = next, !.status = status]
<1>1. /\ x \in InviteRow /\ invite \in [InviteIds -> InviteRow]
      /\ x.mail \in {"both", "failed"} /\ x.status # "NONE"
  BY DEF RevokeUnsent, AccountInv, Typed, RowInv
<1>2. invite' = [invite EXCEPT ![i] = r]
  BY <1>1 DEF RevokeUnsent
<1>3. /\ disowned' = IF revoked /\ x.used THEN disowned \union {i} ELSE disowned
      /\ UNCHANGED <<day, peopleVars, withdrawn>>
  BY DEF RevokeUnsent
<1>4. /\ r \in InviteRow /\ r.mail \in {"delivered", "none"}
      /\ r.email = x.email /\ r.used = x.used
      /\ IF revoked THEN r.status = "REVOKED" ELSE r.status = x.status
  <2> HIDE DEF x
  <2> QED BY <1>1 DEF InviteRow, Mails, Statuses
<1>x. x = invite[i]
  OBVIOUS
<1> HIDE DEF r, revoked, x
<1>5. invite'[i] = r
  BY <1>1, <1>2
<1>6. RowMoves(i)
  BY <1>1, <1>3, <1>4, <1>5, <1>x DEF RowMoves, Mailed, Overwritten, Told, KeepsUse, Closed
<1>7. withdrawn' \subseteq InviteIds /\ disowned' \subseteq InviteIds
      /\ \A j \in InviteIds \ {i} : Told(j)
  BY <1>3 DEF AccountInv, Typed, Told
<1> QED BY <1>2, <1>3, <1>4, <1>6, <1>7, RowWritten

LEMMA ExpireKeeps ==
  ASSUME AccountInv, ExpireInvites
  PROVE  AccountInv'
<1> DEFINE overdue == {i \in InviteIds : invite[i].status = "PENDING" /\ Overdue(i)}
<1>1. /\ invite' = [i \in InviteIds |->
           IF i \in overdue THEN [invite[i] EXCEPT !.status = "EXPIRED"] ELSE invite[i]]
      /\ UNCHANGED <<day, peopleVars, withdrawn, disowned>>
  BY DEF ExpireInvites
<1>2. ASSUME NEW i \in InviteIds PROVE invite'[i] \in InviteRow /\ RowMoves(i)
  <2> DEFINE x == invite[i]
             r == [x EXCEPT !.status = "EXPIRED"]
  <2>1. x \in InviteRow
    BY DEF AccountInv, Typed
  <2>2. /\ r \in InviteRow /\ r.status = "EXPIRED"
        /\ r.email = x.email /\ r.used = x.used /\ r.mail = x.mail
    <3> HIDE DEF x
    <3> QED BY <2>1 DEF InviteRow, Statuses
  <2> HIDE DEF r
  <2>3. CASE i \in overdue
    <3>1. invite'[i] = r /\ invite[i].status = "PENDING"
      BY <1>1, <2>3 DEF r
    <3> QED BY <1>1, <2>2, <3>1 DEF RowMoves, Ended, KeepsUse, Closed
  <2>4. CASE i \notin overdue
    <3>1. invite'[i] = invite[i]
      BY <1>1, <2>4
    <3> QED BY <1>1, <2>1, <3>1 DEF RowMoves, Stays, Told
  <2> QED BY <2>3, <2>4
<1> HIDE DEF overdue
<1>3. RowsMove
  <2>1. invite' \in [InviteIds -> InviteRow]
    BY <1>1, <1>2
  <2> QED BY <1>2, <2>1 DEF RowsMove
<1>4. Typed'
  BY <1>1, <1>3 DEF AccountInv, Typed, RowsMove, peopleVars
<1> QED BY <1>1, <1>3, <1>4, GuestsStand, RowsOnly DEF peopleVars

LEMMA RevokeKeeps ==
  ASSUME AccountInv, NEW i \in InviteIds, RevokeInvite(i)
  PROVE  AccountInv'
<1> DEFINE x == invite[i]
           r == [x EXCEPT !.status = "REVOKED"]
<1>1. x \in InviteRow /\ invite \in [InviteIds -> InviteRow] /\ x.status = "PENDING"
  BY DEF RevokeInvite, AccountInv, Typed
<1>2. invite' = [invite EXCEPT ![i] = r]
  BY DEF RevokeInvite
<1>3. withdrawn' = withdrawn \union {i} /\ UNCHANGED <<day, peopleVars, disowned>>
  BY DEF RevokeInvite
<1>4. /\ r \in InviteRow /\ r.status = "REVOKED"
      /\ r.email = x.email /\ r.used = x.used /\ r.mail = x.mail
  <2> HIDE DEF x
  <2> QED BY <1>1 DEF InviteRow, Statuses
<1> HIDE DEF r
<1>5. invite'[i] = r
  BY <1>1, <1>2
<1>6. RowMoves(i)
  BY <1>1, <1>3, <1>4, <1>5 DEF RowMoves, Ended, KeepsUse, Closed
<1>7. withdrawn' \subseteq InviteIds /\ disowned' \subseteq InviteIds
      /\ \A j \in InviteIds \ {i} : Told(j)
  BY <1>3 DEF AccountInv, Typed, Told
<1> QED BY <1>2, <1>3, <1>4, <1>6, <1>7, RowWritten

LEMMA ResendKeeps ==
  ASSUME AccountInv, NEW i \in InviteIds, NEW j \in InviteIds \ {i}, ResendInvite(i, j)
  PROVE  AccountInv'
<1> DEFINE x == invite[i]
           r == [x EXCEPT !.status = "REVOKED"]
           n == [NoInvite EXCEPT !.email = x.email, !.mail = "row"]
<1>1. /\ x \in InviteRow /\ invite \in [InviteIds -> InviteRow] /\ x.status = "PENDING"
      /\ x # NoInvite /\ x.email \in Invitees /\ invite[j] = NoInvite
  BY DEF ResendInvite, AccountInv, Typed, RowInv, NoInvite
<1>2. invite' = [invite EXCEPT ![i] = r, ![j] = n]
  BY <1>1 DEF ResendInvite
<1>3. withdrawn' = withdrawn \union {i} /\ UNCHANGED <<day, peopleVars, disowned>>
  BY DEF ResendInvite
<1>4. /\ r \in InviteRow /\ r.status = "REVOKED"
      /\ r.email = x.email /\ r.used = x.used /\ r.mail = x.mail
  <2> HIDE DEF x
  <2> QED BY <1>1 DEF InviteRow, Statuses
<1>5. n \in InviteRow /\ n.email = x.email /\ n.mail = "row" /\ n.status = "NONE" /\ ~n.used
  <2> HIDE DEF x
  <2> QED BY <1>1, NoInviteTyped, AccountAssumption
             DEF AccountAssumption, InviteRow, NoInvite, Mails
<1>x. x = invite[i]
  OBVIOUS
<1> HIDE DEF r, n, x
<1>6. /\ invite' \in [InviteIds -> InviteRow] /\ invite'[i] = r /\ invite'[j] = n
      /\ \A k \in InviteIds \ {i, j} : invite'[k] = invite[k]
  BY <1>1, <1>2, <1>4, <1>5
<1>7. RowMoves(i)
  BY <1>1, <1>3, <1>4, <1>6, <1>x DEF RowMoves, Ended, KeepsUse, Closed
<1>8. RowMoves(j)
  BY <1>1, <1>3, <1>5, <1>6 DEF RowMoves, Drafted, Told
<1>9. \A k \in InviteIds \ {i, j} : RowMoves(k)
  BY <1>3, <1>6 DEF RowMoves, Stays, Told
<1>10. RowsMove
  BY <1>6, <1>7, <1>8, <1>9 DEF RowsMove
<1>11. Typed'
  BY <1>3, <1>6 DEF AccountInv, Typed, peopleVars
<1> QED BY <1>3, <1>10, <1>11, GuestsStand, RowsOnly DEF peopleVars

\* Nobody writes a row.
LEMMA RowsStand ==
  ASSUME AccountInv, UNCHANGED <<invite, withdrawn, disowned>>
  PROVE  RowsMove
  BY DEF AccountInv, Typed, RowsMove, RowMoves, Stays, Told

LEMMA NextDayKeeps ==
  ASSUME AccountInv, NextDay
  PROVE  AccountInv'
<1>1. UNCHANGED <<peopleVars, invite, withdrawn, disowned>>
  BY DEF NextDay
<1>2. RowsMove
  BY <1>1, RowsStand
<1>3. day' \in 0..MaxDay
  BY AccountAssumption DEF AccountAssumption, AccountInv, Typed, NextDay
<1>4. Typed'
  BY <1>1, <1>3 DEF AccountInv, Typed, peopleVars
<1> QED BY <1>1, <1>2, <1>4, GuestsStand, RowsOnly DEF peopleVars

-----------------------------------------------------------------------------
(* Guests *)

LEMMA GuestMoved ==
  ASSUME AccountInv, NEW g \in Guests, guest[g] # Nobody,
         NEW pc \in {"idle", "judge", "register", "account"}, GuestGoes(g, pc)
  PROVE  /\ guest' \in [Guests -> {Nobody} \union Guest]
         /\ \A h \in Guests \ {g} : guest'[h] = guest[h]
         /\ pc = "idle" => guest'[g] = Nobody
         /\ pc # "idle" => /\ guest'[g] # Nobody
                           /\ guest'[g].pc = pc /\ guest'[g].on = guest[g].on
<1> DEFINE x == guest[g]
           o == [x EXCEPT !.pc = pc]
           r == IF pc = "idle" THEN Nobody ELSE o
<1>1. x \in Guest /\ guest \in [Guests -> {Nobody} \union Guest]
  BY DEF AccountInv, Typed
<1>2. guest' = [guest EXCEPT ![g] = r]
  BY DEF GuestGoes
<1>3. pc # "idle" => o \in Guest /\ o # Nobody /\ o.pc = pc /\ o.on = x.on
  <2> HIDE DEF x
  <2> QED BY <1>1 DEF Guest, Nobody
<1> HIDE DEF o
<1>4. r \in {Nobody} \union Guest /\ (pc = "idle" => r = Nobody) /\ (pc # "idle" => r = o)
  BY <1>3
<1> HIDE DEF r
<1> QED BY <1>1, <1>2, <1>3, <1>4

\* A guest that has begun works on a written invitation to an e-mail.
LEMMA GuestsInvitation ==
  ASSUME AccountInv, NEW g \in Guests, guest[g] # Nobody
  PROVE  /\ guest[g] \in Guest /\ guest[g].on \in InviteIds
         /\ invite[guest[g].on] \in InviteRow
         /\ invite[guest[g].on].status # "NONE"
         /\ invite[guest[g].on].email \in Invitees
         /\ invite[guest[g].on].email \in Emails
<1>1. guest[g] \in Guest /\ guest[g].on \in InviteIds
  BY DEF AccountInv, Typed, Guest
<1>2. invite[guest[g].on].status # "NONE" /\ invite[guest[g].on] \in InviteRow
  BY <1>1 DEF AccountInv, GuestInv, Typed
<1>3. invite[guest[g].on] # NoInvite
  BY <1>2 DEF NoInvite
<1>4. invite[guest[g].on].email \in Invitees
  BY <1>1, <1>3 DEF AccountInv, RowInv
<1> QED BY <1>1, <1>2, <1>4, AccountAssumption DEF AccountAssumption

LEMMA FindInviteKeeps ==
  ASSUME AccountInv, NEW g \in Guests, NEW i \in InviteIds, FindInvite(g, i)
  PROVE  AccountInv'
<1> DEFINE r == [pc |-> "judge", on |-> i]
<1>1. r \in Guest /\ r.on = i
  BY DEF Guest
<1>2. guest' = [guest EXCEPT ![g] = r] /\ guest[g] = Nobody /\ invite[i].status # "NONE"
  BY DEF FindInvite
<1>3. UNCHANGED <<day, identities, users, orgs, invite, founder, withdrawn,
                  disowned, lapsed, deaths>>
  BY DEF FindInvite
<1> HIDE DEF r
<1>4. /\ guest' \in [Guests -> {Nobody} \union Guest] /\ guest'[g] = r
      /\ \A h \in Guests \ {g} : guest'[h] = guest[h]
  BY <1>1, <1>2 DEF AccountInv, Typed
<1>5. Typed'
  BY <1>3, <1>4 DEF AccountInv, Typed
<1>6. \A h \in Guests : GuestInv(h)'
  BY <1>1, <1>2, <1>3, <1>4 DEF AccountInv, GuestInv
<1>7. RowsMove
  BY <1>3, RowsStand
<1> QED BY <1>2, <1>3, <1>4, <1>5, <1>6, <1>7, RowsOnly

LEMMA JudgeInviteKeeps ==
  ASSUME AccountInv, NEW g \in Guests, JudgeInvite(g)
  PROVE  AccountInv'
<1> DEFINE i == guest[g].on
           x == invite[i]
           write == Overdue(i) /\ Free(i, x.email, "EXPIRED")
           next == IF Overdue(i) THEN "idle" ELSE "register"
           r == IF write THEN [x EXCEPT !.status = "EXPIRED"] ELSE x
<1>0. guest[g].pc = "judge" /\ guest[g] # Nobody
  BY DEF JudgeInvite, Nobody
<1>1. i \in InviteIds /\ x \in InviteRow /\ x.status # "NONE"
  BY <1>0, GuestsInvitation
<1>2. /\ GuestGoes(g, next)
      /\ invite' = IF write THEN [invite EXCEPT ![i].status = "EXPIRED"] ELSE invite
      /\ disowned' = IF write /\ x.used THEN disowned \union {i} ELSE disowned
      /\ UNCHANGED <<day, identities, users, orgs, founder, withdrawn, lapsed, deaths>>
  BY DEF JudgeInvite
<1>3. invite \in [InviteIds -> InviteRow]
  BY DEF AccountInv, Typed
<1>4. invite' = [invite EXCEPT ![i] = r]
  BY <1>1, <1>2, <1>3
<1>5. /\ r \in InviteRow /\ r.email = x.email /\ r.used = x.used /\ r.mail = x.mail
      /\ IF write THEN r.status = "EXPIRED" ELSE r = x
  <2> HIDE DEF x
  <2> QED BY <1>1 DEF InviteRow, Statuses
<1>6. x.mail # "row" /\ x = invite[i]
  BY <1>1 DEF AccountInv, RowInv
<1>7. guest' \in [Guests -> {Nobody} \union Guest]
      /\ (\A h \in Guests \ {g} : guest'[h] = guest[h])
      /\ (guest'[g] # Nobody => guest'[g].on = guest[g].on)
  BY <1>0, <1>2, GuestMoved
<1> HIDE DEF r, write, x, i, next
<1>8. invite'[i] = r
  BY <1>1, <1>3, <1>4
<1>9. RowMoves(i)
  BY <1>1, <1>2, <1>5, <1>6, <1>8 DEF RowMoves, Overwritten, Stays, Told, KeepsUse, Closed
<1>10. \A j \in InviteIds \ {i} : Told(j)
  BY <1>2 DEF Told
<1>11. RowsMove
  BY <1>1, <1>3, <1>4, <1>5, <1>9, <1>10, OneRow DEF RowsMove
<1>12. Typed'
  BY <1>1, <1>2, <1>7, <1>11 DEF AccountInv, Typed, RowsMove
<1>13. \A h \in Guests : GuestInv(h)'
  <2> SUFFICES ASSUME NEW h \in Guests, guest'[h] # Nobody
               PROVE  invite'[guest'[h].on].status # "NONE"
    BY DEF GuestInv
  <2>1. guest'[h].on = guest[h].on /\ guest[h] # Nobody
    BY <1>0, <1>7
  <2>2. guest[h].on \in InviteIds /\ invite[guest[h].on].status # "NONE"
    BY <2>1, GuestsInvitation
  <2> QED BY <1>11, <2>1, <2>2, MovedRows
<1>14. \A h \in Guests : guest[h] # Nobody /\ guest[h].pc = "account" => guest'[h] = guest[h]
  BY <1>0, <1>7
<1> QED BY <1>2, <1>11, <1>12, <1>13, <1>14, RowsOnly

\* Work on e goes on while other guests move and rows keep their e-mails.
LEMMA OtherGuests ==
  ASSUME AccountInv, NEW g \in Guests, founder' = founder,
         \A h \in Guests \ {g} : guest'[h] = guest[h],
         \A i \in InviteIds : invite'[i].email = invite[i].email,
         NEW e, WorkingOn(e),
         ~(guest[g] # Nobody /\ guest[g].pc = "account" /\ invite[guest[g].on].email = e)
  PROVE  WorkingOn(e)'
<1>1. CASE \E h \in Guests : guest[h] # Nobody /\ guest[h].pc = "account"
                              /\ invite[guest[h].on].email = e
  <2>1. PICK h \in Guests : guest[h] # Nobody /\ guest[h].pc = "account"
                            /\ invite[guest[h].on].email = e
    BY <1>1
  <2>2. h # g /\ guest'[h] = guest[h] /\ guest[h].on \in InviteIds
    BY <2>1, GuestsInvitation
  <2>3. invite'[guest[h].on].email = e
    BY <2>1, <2>2
  <2> QED BY <2>1, <2>2, <2>3 DEF WorkingOn
<1>2. CASE \E f \in Founders : founder[f] # Nobody /\ founder[f].pc \in {"org", "user"}
                                /\ founder[f].email = e
  BY <1>2 DEF WorkingOn
<1> QED BY <1>1, <1>2 DEF WorkingOn

\* A guest moves, and what it registered is an account, its own work or lapsed.
LEMMA GuestStep ==
  ASSUME AccountInv, Typed', NEW g \in Guests, RowsMove, UsedOnce',
         UNCHANGED <<orgs, founder>>,
         \A h \in Guests \ {g} : guest'[h] = guest[h],
         guest'[g] # Nobody => guest'[g].on = guest[g].on,
         \A i \in InviteIds : invite'[i].email = invite[i].email,
         guest[g] # Nobody,
         users \subseteq users', lapsed \subseteq lapsed', deaths' >= deaths,
         identities' \subseteq identities \union {invite[guest[g].on].email},
         guest[g].pc = "account" \/ identities' # identities =>
           \/ \E u \in users' : u.email = invite[guest[g].on].email
           \/ invite[guest[g].on].email \in lapsed'
           \/ guest'[g] # Nobody /\ guest'[g].pc = "account"
  PROVE  AccountInv'
<1> DEFINE e0 == invite[guest[g].on].email
<1>1. \A i \in InviteIds : RowInv(i)' /\ (invite[i].status # "NONE" => invite'[i].status # "NONE")
  BY MovedRows
<1>2. \A h \in Guests : GuestInv(h)'
  <2> SUFFICES ASSUME NEW h \in Guests, guest'[h] # Nobody
               PROVE  invite'[guest'[h].on].status # "NONE"
    BY DEF GuestInv
  <2>1. guest'[h].on = guest[h].on /\ guest[h] # Nobody
    OBVIOUS
  <2>2. guest[h].on \in InviteIds /\ invite[guest[h].on].status # "NONE"
    BY <2>1, GuestsInvitation
  <2> QED BY <1>1, <2>1, <2>2
<1>3. guest[g].on \in InviteIds
  BY GuestsInvitation
<1>4. ASSUME NEW e \in identities' PROVE HasUser(e)' \/ WorkingOn(e)' \/ e \in lapsed'
  <2>1. guest'[g] # Nobody /\ guest'[g].pc = "account" /\ e = e0 => WorkingOn(e)'
    BY <1>3 DEF WorkingOn
  <2>2. CASE e = e0 /\ (guest[g].pc = "account" \/ identities' # identities)
    BY <2>1, <2>2 DEF HasUser
  <2>3. CASE ~(e = e0 /\ (guest[g].pc = "account" \/ identities' # identities))
    <3>1. e \in identities
      BY <1>4, <2>3
    <3>2. HasUser(e) \/ WorkingOn(e) \/ e \in lapsed
      BY <3>1 DEF AccountInv, RegisteredGetsAccount
    <3>3. CASE HasUser(e)
      BY <3>3 DEF HasUser
    <3>4. CASE WorkingOn(e)
      <4>1. ~(guest[g] # Nobody /\ guest[g].pc = "account" /\ invite[guest[g].on].email = e)
        BY <2>3
      <4> QED BY <3>4, <4>1, OtherGuests
    <3> QED BY <3>2, <3>3, <3>4
  <2> QED BY <2>2, <2>3
<1>5. ASSUME NEW s \in orgs' PROVE Administered(s)' \/ deaths' > 0
  <2>1. Administered(s) \/ deaths > 0
    BY DEF AccountInv, RegisteredGetsAccount
  <2>2. Administered(s) => Administered(s)'
    BY DEF Administered
  <2>3. deaths \in 0..MaxDeaths /\ deaths' \in 0..MaxDeaths /\ MaxDeaths \in Nat
    BY AccountAssumption DEF AccountAssumption, AccountInv, Typed
  <2> QED BY <2>1, <2>2, <2>3
<1> QED BY <1>1, <1>2, <1>4, <1>5 DEF AccountInv, RegisteredGetsAccount

LEMMA GuestRegistersKeeps ==
  ASSUME AccountInv, NEW g \in Guests, GuestRegisters(g)
  PROVE  AccountInv'
<1> DEFINE e == invite[guest[g].on].email
           next == IF e \in identities THEN "idle" ELSE "account"
<1>1. guest[g].pc = "register" /\ guest[g] # Nobody
  BY DEF GuestRegisters, Nobody
<1>2. e \in Emails
  BY <1>1, GuestsInvitation
<1>3. /\ GuestGoes(g, next) /\ identities' = identities \union {e}
      /\ UNCHANGED <<day, users, orgs, invite, founder, withdrawn, disowned, lapsed, deaths>>
  BY DEF GuestRegisters
<1>4. /\ guest' \in [Guests -> {Nobody} \union Guest]
      /\ \A h \in Guests \ {g} : guest'[h] = guest[h]
      /\ next = "idle" => guest'[g] = Nobody
      /\ next # "idle" => guest'[g] # Nobody /\ guest'[g].pc = next /\ guest'[g].on = guest[g].on
  BY <1>1, <1>3, GuestMoved
<1>5. Typed'
  BY <1>2, <1>3, <1>4 DEF AccountInv, Typed
<1>6. RowsMove
  BY <1>3, RowsStand
<1>7. UsedOnce'
  BY <1>3 DEF AccountInv, UsedOnce
<1>8. deaths' >= deaths
  BY <1>3, AccountAssumption DEF AccountAssumption, AccountInv, Typed
<1>9. identities' # identities => guest'[g] # Nobody /\ guest'[g].pc = "account"
  BY <1>3, <1>4
<1>10. identities' \subseteq identities \union {e}
  BY <1>3
<1> QED BY <1>1, <1>3, <1>4, <1>5, <1>6, <1>7, <1>8, <1>9, <1>10, GuestStep

\* The transaction: an account and its consumed invitation, or a lapsed e-mail.
LEMMA AcceptKeeps ==
  ASSUME AccountInv, NEW g \in Guests, Accept(g)
  PROVE  AccountInv'
<1> DEFINE i == guest[g].on
           x == invite[i]
           u == [email |-> x.email, org |-> Home]
           r == [x EXCEPT !.status = "ACCEPTED", !.used = TRUE]
<1>1. guest[g].pc = "account" /\ guest[g] # Nobody
  BY DEF Accept, Nobody
<1>2. i \in InviteIds /\ x \in InviteRow /\ x.status # "NONE" /\ x.email \in Emails
      /\ x.email \in Invitees
  BY <1>1, GuestsInvitation
<1>3. /\ GuestGoes(g, "idle")
      /\ UNCHANGED <<day, identities, orgs, founder, withdrawn, disowned, deaths>>
  BY DEF Accept
<1>4. /\ guest' \in [Guests -> {Nobody} \union Guest]
      /\ \A h \in Guests \ {g} : guest'[h] = guest[h]
      /\ guest'[g] = Nobody
  BY <1>1, <1>3, GuestMoved
<1>5. deaths' >= deaths
  BY <1>3, AccountAssumption DEF AccountAssumption, AccountInv, Typed
<1>6. CASE ~Acceptable(i)
  <2>1. lapsed' = lapsed \union {x.email} /\ UNCHANGED <<users, invite>>
    BY <1>6 DEF Accept
  <2>2. Typed'
    BY <1>2, <1>3, <1>4, <2>1 DEF AccountInv, Typed
  <2>3. RowsMove
    BY <1>3, <2>1, RowsStand
  <2>4. UsedOnce'
    BY <2>1 DEF AccountInv, UsedOnce
  <2> QED BY <1>1, <1>3, <1>4, <1>5, <2>1, <2>2, <2>3, <2>4, GuestStep
<1>7. CASE Acceptable(i)
  <2>1. /\ users' = users \union {u} /\ invite' = [invite EXCEPT ![i] = r]
        /\ lapsed' = lapsed
    BY <1>7 DEF Accept
  <2>2. x.status = "PENDING" /\ ~HasUser(x.email) /\ x = invite[i]
    BY <1>7 DEF Acceptable
  <2>3. r \in InviteRow /\ r.status = "ACCEPTED" /\ r.email = x.email /\ r.used = TRUE
        /\ r.mail = x.mail
    <3> HIDE DEF x
    <3> QED BY <1>2 DEF InviteRow, Statuses
  <2>4. u \in User /\ u.email = x.email /\ u.org = Home
    BY <1>2 DEF User
  <2>5. invite \in [InviteIds -> InviteRow]
    BY DEF AccountInv, Typed
  <2>6. i \notin withdrawn /\ ~x.used /\ x.mail # "row"
    BY <1>2, <2>2 DEF AccountInv, RowInv, Closed
  <2> HIDE DEF r, x, i
  <2>7. x # NoInvite /\ r # NoInvite
    BY <2>2, <2>3 DEF NoInvite
  <2>8. /\ invite' \in [InviteIds -> InviteRow] /\ invite'[i] = r
        /\ \A j \in InviteIds \ {i} : invite'[j] = invite[j]
    BY <1>2, <2>1, <2>3, <2>5
  <2>9. Typed'
    BY <1>3, <1>4, <2>1, <2>4, <2>8 DEF AccountInv, Typed
  <2>10. \A j \in InviteIds : invite'[j].email = invite[j].email
    BY <2>2, <2>3, <2>8
  <2>11. \A j \in InviteIds : RowInv(j)'
    BY <1>2, <1>3, <2>2, <2>3, <2>6, <2>7, <2>8 DEF AccountInv, RowInv, Closed
  <2>12. \A h \in Guests : GuestInv(h)'
    <3> SUFFICES ASSUME NEW h \in Guests, guest'[h] # Nobody
                 PROVE  invite'[guest'[h].on].status # "NONE"
      BY DEF GuestInv
    <3>1. guest'[h] = guest[h] /\ guest[h] # Nobody
      BY <1>4
    <3>2. guest[h].on \in InviteIds /\ invite[guest[h].on].status # "NONE"
      BY <3>1, GuestsInvitation
    <3> QED BY <2>3, <2>8, <3>1, <3>2
  <2>13. UsedOnce'
    <3>1. \A j \in InviteIds : invite[j].used => invite[j].email # x.email
      <4> SUFFICES ASSUME NEW j \in InviteIds, invite[j].used, invite[j].email = x.email
                   PROVE  FALSE
        OBVIOUS
      <4>1. u \in users
        BY <1>2 DEF AccountInv, UsedOnce
      <4> QED BY <2>2, <2>4, <4>1 DEF HasUser
    <3>2. \A j, k \in InviteIds :
            invite'[j].used /\ invite'[k].used /\ invite'[j].email = invite'[k].email => j = k
      BY <2>3, <2>8, <3>1 DEF AccountInv, UsedOnce
    <3>3. ASSUME NEW e \in Emails
          PROVE  [email |-> e, org |-> Home] \in users'
                   <=> \E j \in InviteIds : invite'[j].used /\ invite'[j].email = e
      <4>1. CASE e = x.email
        BY <1>2, <2>1, <2>3, <2>8, <4>1
      <4>2. CASE e # x.email
        <5>1. [email |-> e, org |-> Home] \in users' <=> [email |-> e, org |-> Home] \in users
          BY <2>1, <4>2
        <5>2. (\E j \in InviteIds : invite'[j].used /\ invite'[j].email = e)
                <=> \E j \in InviteIds : invite[j].used /\ invite[j].email = e
          BY <2>2, <2>3, <2>6, <2>8, <4>2
        <5>3. [email |-> e, org |-> Home] \in users
                <=> \E j \in InviteIds : invite[j].used /\ invite[j].email = e
          BY DEF AccountInv, UsedOnce
        <5> QED BY <5>1, <5>2, <5>3
      <4> QED BY <4>1, <4>2
    <3> QED BY <3>2, <3>3 DEF UsedOnce
  <2>14. RegisteredGetsAccount'
    <3>1. ASSUME NEW e \in identities' PROVE HasUser(e)' \/ WorkingOn(e)' \/ e \in lapsed'
      <4>1. CASE e = x.email
        BY <2>1, <2>4, <4>1 DEF HasUser
      <4>2. CASE e # x.email
        <5>1. HasUser(e) \/ WorkingOn(e) \/ e \in lapsed
          BY <1>3, <3>1 DEF AccountInv, RegisteredGetsAccount
        <5>2. HasUser(e) => HasUser(e)'
          BY <2>1 DEF HasUser
        <5>3. WorkingOn(e) => WorkingOn(e)'
          <6>1. ~(guest[g] # Nobody /\ guest[g].pc = "account" /\ invite[guest[g].on].email = e)
            BY <4>2 DEF x, i
          <6> QED BY <1>3, <1>4, <2>10, <6>1, OtherGuests
        <5> QED BY <2>1, <5>1, <5>2, <5>3
      <4> QED BY <4>1, <4>2
    <3>2. ASSUME NEW s \in orgs' PROVE Administered(s)' \/ deaths' > 0
      <4>1. Administered(s) \/ deaths > 0
        BY <1>3, <3>2 DEF AccountInv, RegisteredGetsAccount
      <4> QED BY <1>3, <2>1, <4>1 DEF Administered
    <3> QED BY <3>1, <3>2 DEF RegisteredGetsAccount
  <2> QED BY <2>9, <2>11, <2>12, <2>13, <2>14 DEF AccountInv
<1> QED BY <1>6, <1>7

LEMMA GuestDiesKeeps ==
  ASSUME AccountInv, NEW g \in Guests, GuestDies(g)
  PROVE  AccountInv'
<1> DEFINE e == invite[guest[g].on].email
<1>1. guest[g] # Nobody /\ GuestGoes(g, "idle") /\ founder' = founder
  BY DEF GuestDies
<1>2. e \in Emails
  BY <1>1, GuestsInvitation
<1>3. /\ deaths < MaxDeaths /\ deaths' = deaths + 1
      /\ lapsed' = IF guest[g].pc = "account" THEN lapsed \union {e} ELSE lapsed
      /\ UNCHANGED <<day, identities, users, orgs, invite, withdrawn, disowned>>
  BY DEF GuestDies, Dies
<1>4. /\ guest' \in [Guests -> {Nobody} \union Guest]
      /\ \A h \in Guests \ {g} : guest'[h] = guest[h]
      /\ guest'[g] = Nobody
  BY <1>1, GuestMoved
<1>5. deaths' >= deaths /\ deaths' \in 0..MaxDeaths
  BY <1>3, AccountAssumption DEF AccountAssumption, AccountInv, Typed
<1>6. Typed'
  BY <1>1, <1>2, <1>3, <1>4, <1>5 DEF AccountInv, Typed
<1>7. RowsMove
  BY <1>3, RowsStand
<1>8. UsedOnce'
  BY <1>3 DEF AccountInv, UsedOnce
<1> QED BY <1>1, <1>3, <1>4, <1>5, <1>6, <1>7, <1>8, GuestStep

-----------------------------------------------------------------------------
(* Founders *)

LEMMA FounderMoved ==
  ASSUME AccountInv, NEW f \in Founders, founder[f] # Nobody,
         NEW pc \in {"idle", "register", "org", "user"}, FounderGoes(f, pc)
  PROVE  /\ founder[f] \in Founder
         /\ founder[f].email \in Emails /\ founder[f].slug \in Slugs
         /\ founder' \in [Founders -> {Nobody} \union Founder]
         /\ \A h \in Founders \ {f} : founder'[h] = founder[h]
         /\ pc = "idle" => founder'[f] = Nobody
         /\ pc # "idle" => /\ founder'[f] # Nobody /\ founder'[f].pc = pc
                           /\ founder'[f].email = founder[f].email
                           /\ founder'[f].slug = founder[f].slug
<1> DEFINE x == founder[f]
           o == [x EXCEPT !.pc = pc]
           r == IF pc = "idle" THEN Nobody ELSE o
<1>1. x \in Founder /\ founder \in [Founders -> {Nobody} \union Founder]
  BY DEF AccountInv, Typed
<1>2. founder' = [founder EXCEPT ![f] = r]
  BY DEF FounderGoes
<1>3. pc # "idle" => o \in Founder /\ o # Nobody /\ o.pc = pc /\ o.email = x.email
                     /\ o.slug = x.slug
  <2> HIDE DEF x
  <2> QED BY <1>1 DEF Founder, Nobody
<1>4. x.email \in Emails /\ x.slug \in Slugs
  <2> HIDE DEF x
  <2> QED BY <1>1 DEF Founder
<1> HIDE DEF o
<1>5. r \in {Nobody} \union Founder /\ (pc = "idle" => r = Nobody) /\ (pc # "idle" => r = o)
  BY <1>3
<1> HIDE DEF r
<1> QED BY <1>1, <1>2, <1>3, <1>4, <1>5

\* A founder of e0 and s0 moves: what it registered or created has its account.
LEMMA FounderStep ==
  ASSUME AccountInv, Typed', NEW f \in Founders, NEW e0, NEW s0,
         UNCHANGED <<guest, invite, withdrawn, disowned>>,
         \A h \in Founders \ {f} : founder'[h] = founder[h],
         founder[f] # Nobody => founder[f].email = e0 /\ founder[f].slug = s0,
         users \subseteq users', \A u \in users' \ users : u.org # Home,
         lapsed \subseteq lapsed', deaths' >= deaths,
         identities' \subseteq identities \union {e0}, orgs' \subseteq orgs \union {s0},
         (founder[f] # Nobody /\ founder[f].pc \in {"org", "user"}) \/ identities' # identities =>
           \/ \E u \in users' : u.email = e0
           \/ e0 \in lapsed'
           \/ /\ founder'[f] # Nobody /\ founder'[f].pc \in {"org", "user"}
              /\ founder'[f].email = e0,
         (founder[f] # Nobody /\ founder[f].pc = "user") \/ orgs' # orgs =>
           \/ \E u \in users' : u.org = s0
           \/ deaths' > 0
           \/ founder'[f] # Nobody /\ founder'[f].pc = "user" /\ founder'[f].slug = s0
  PROVE  AccountInv'
<1>1. RowsMove
  BY RowsStand
<1>2. \A i \in InviteIds : RowInv(i)'
  BY <1>1, MovedRows
<1>3. \A g \in Guests : GuestInv(g)'
  BY <1>1, GuestsStand
<1>4. UsedOnce'
  <2>1. ASSUME NEW e \in Emails
        PROVE  [email |-> e, org |-> Home] \in users' <=> [email |-> e, org |-> Home] \in users
    <3>1. [email |-> e, org |-> Home].org = Home
      OBVIOUS
    <3> QED BY <3>1
  <2> QED BY <2>1 DEF AccountInv, UsedOnce
<1>5. ASSUME NEW e \in identities' PROVE HasUser(e)' \/ WorkingOn(e)' \/ e \in lapsed'
  <2>1. CASE e = e0 /\ (\/ founder[f] # Nobody /\ founder[f].pc \in {"org", "user"}
                        \/ identities' # identities)
    BY <2>1 DEF HasUser, WorkingOn
  <2>2. CASE ~(e = e0 /\ (\/ founder[f] # Nobody /\ founder[f].pc \in {"org", "user"}
                          \/ identities' # identities))
    <3>1. HasUser(e) \/ WorkingOn(e) \/ e \in lapsed
      BY <1>5, <2>2 DEF AccountInv, RegisteredGetsAccount
    <3>2. HasUser(e) => HasUser(e)'
      BY DEF HasUser
    <3>3. ASSUME WorkingOn(e) PROVE WorkingOn(e)'
      <4>1. CASE \E h \in Founders : founder[h] # Nobody /\ founder[h].pc \in {"org", "user"}
                                      /\ founder[h].email = e
        BY <2>2, <4>1 DEF WorkingOn
      <4>2. CASE \E g \in Guests : guest[g] # Nobody /\ guest[g].pc = "account"
                                   /\ invite[guest[g].on].email = e
        BY <4>2 DEF WorkingOn
      <4> QED BY <3>3, <4>1, <4>2 DEF WorkingOn
    <3> QED BY <3>1, <3>2, <3>3
  <2> QED BY <2>1, <2>2
<1>6. ASSUME NEW s \in orgs' PROVE Administered(s)' \/ deaths' > 0
  <2>0. deaths \in 0..MaxDeaths /\ deaths' \in 0..MaxDeaths /\ MaxDeaths \in Nat
    BY AccountAssumption DEF AccountAssumption, AccountInv, Typed
  <2>1. s \in orgs => Administered(s) \/ deaths > 0
    BY DEF AccountInv, RegisteredGetsAccount
  <2>2. deaths > 0 => deaths' > 0
    BY <2>0
  <2>3. CASE \E u \in users : u.org = s
    BY <2>3 DEF Administered
  <2>4. CASE \E h \in Founders : founder[h] # Nobody /\ founder[h].pc = "user"
                                  /\ founder[h].slug = s
    BY <2>4 DEF Administered
  <2>5. CASE s \notin orgs
    BY <1>6, <2>5 DEF Administered
  <2> QED BY <2>1, <2>2, <2>3, <2>4, <2>5 DEF Administered
<1> QED BY <1>2, <1>3, <1>4, <1>5, <1>6 DEF AccountInv, RegisteredGetsAccount

LEMMA FindSlugKeeps ==
  ASSUME AccountInv, NEW f \in Founders, NEW e \in Emails, NEW s \in Slugs, FindSlug(f, e, s)
  PROVE  AccountInv'
<1> DEFINE r == [pc |-> "register", email |-> e, slug |-> s]
<1>1. r \in Founder
  BY DEF Founder
<1>2. founder' = [founder EXCEPT ![f] = r] /\ founder[f] = Nobody
  BY DEF FindSlug
<1>3. UNCHANGED <<day, identities, users, orgs, invite, guest, withdrawn,
                  disowned, lapsed, deaths>>
  BY DEF FindSlug
<1> HIDE DEF r
<1>4. /\ founder' \in [Founders -> {Nobody} \union Founder]
      /\ \A h \in Founders \ {f} : founder'[h] = founder[h]
  BY <1>1, <1>2 DEF AccountInv, Typed
<1>5. Typed'
  BY <1>3, <1>4 DEF AccountInv, Typed
<1>6. deaths' >= deaths
  BY <1>3, AccountAssumption DEF AccountAssumption, AccountInv, Typed
<1> QED BY <1>2, <1>3, <1>4, <1>5, <1>6, FounderStep

LEMMA FounderRegistersKeeps ==
  ASSUME AccountInv, NEW f \in Founders, FounderRegisters(f)
  PROVE  AccountInv'
<1> DEFINE e == founder[f].email
           s == founder[f].slug
           next == IF e \in identities THEN "idle" ELSE "org"
<1>1. founder[f].pc = "register" /\ founder[f] # Nobody
  BY DEF FounderRegisters, Nobody
<1>2. /\ FounderGoes(f, next) /\ identities' = identities \union {e}
      /\ UNCHANGED <<day, users, orgs, invite, guest, withdrawn, disowned, lapsed, deaths>>
  BY DEF FounderRegisters
<1>3. /\ e \in Emails /\ s \in Slugs
      /\ founder' \in [Founders -> {Nobody} \union Founder]
      /\ \A h \in Founders \ {f} : founder'[h] = founder[h]
      /\ next # "idle" => /\ founder'[f] # Nobody /\ founder'[f].pc = next
                          /\ founder'[f].email = e
  BY <1>1, <1>2, FounderMoved
<1>4. Typed'
  BY <1>2, <1>3 DEF AccountInv, Typed
<1>5. deaths' >= deaths
  BY <1>2, AccountAssumption DEF AccountAssumption, AccountInv, Typed
<1>6. identities' # identities => /\ founder'[f] # Nobody /\ founder'[f].pc \in {"org", "user"}
                                  /\ founder'[f].email = e
  BY <1>2, <1>3
<1>7. identities' \subseteq identities \union {e}
  BY <1>2
<1> HIDE DEF e, s
<1>8. founder[f].email = e /\ founder[f].slug = s
  BY DEF e, s
<1> QED BY <1>1, <1>2, <1>3, <1>4, <1>5, <1>6, <1>7, <1>8, FounderStep

LEMMA CreateOrganizationKeeps ==
  ASSUME AccountInv, NEW f \in Founders, CreateOrganization(f)
  PROVE  AccountInv'
<1> DEFINE e == founder[f].email
           s == founder[f].slug
           next == IF s \in orgs THEN "idle" ELSE "user"
<1>1. founder[f].pc = "org" /\ founder[f] # Nobody
  BY DEF CreateOrganization, Nobody
<1>2. /\ FounderGoes(f, next) /\ orgs' = orgs \union {s}
      /\ lapsed' = IF s \in orgs THEN lapsed \union {e} ELSE lapsed
      /\ UNCHANGED <<day, identities, users, invite, guest, withdrawn, disowned, deaths>>
  BY DEF CreateOrganization
<1>3. /\ e \in Emails /\ s \in Slugs
      /\ founder' \in [Founders -> {Nobody} \union Founder]
      /\ \A h \in Founders \ {f} : founder'[h] = founder[h]
      /\ next # "idle" => /\ founder'[f] # Nobody /\ founder'[f].pc = next
                          /\ founder'[f].email = e /\ founder'[f].slug = s
  BY <1>1, <1>2, FounderMoved
<1>4. Typed'
  BY <1>2, <1>3 DEF AccountInv, Typed
<1>5. deaths' >= deaths
  BY <1>2, AccountAssumption DEF AccountAssumption, AccountInv, Typed
<1>6. e \in lapsed' \/ (/\ founder'[f] # Nobody /\ founder'[f].pc = "user"
                        /\ founder'[f].email = e)
  BY <1>2, <1>3
<1>7. orgs' # orgs => founder'[f] # Nobody /\ founder'[f].pc = "user" /\ founder'[f].slug = s
  BY <1>2, <1>3
<1>8. orgs' \subseteq orgs \union {s} /\ lapsed \subseteq lapsed'
  BY <1>2
<1> HIDE DEF e, s
<1>9. founder[f].email = e /\ founder[f].slug = s
  BY DEF e, s
<1> QED BY <1>1, <1>2, <1>3, <1>4, <1>5, <1>6, <1>7, <1>8, <1>9, FounderStep

LEMMA CreateAdminKeeps ==
  ASSUME AccountInv, NEW f \in Founders, CreateAdmin(f)
  PROVE  AccountInv'
<1> DEFINE e == founder[f].email
           s == founder[f].slug
           u == [email |-> e, org |-> s]
<1>1. founder[f].pc = "user" /\ founder[f] # Nobody
  BY DEF CreateAdmin, Nobody
<1>2. /\ FounderGoes(f, "idle") /\ users' = users \union {u}
      /\ UNCHANGED <<day, identities, orgs, invite, guest, withdrawn, disowned, lapsed, deaths>>
  BY DEF CreateAdmin
<1>3. /\ e \in Emails /\ s \in Slugs
      /\ founder' \in [Founders -> {Nobody} \union Founder]
      /\ \A h \in Founders \ {f} : founder'[h] = founder[h]
  BY <1>1, <1>2, FounderMoved
<1>4. u \in User /\ u.email = e /\ u.org = s /\ s # Home
  BY <1>3, AccountAssumption DEF AccountAssumption, User
<1> HIDE DEF u
<1>5. Typed'
  BY <1>2, <1>3, <1>4 DEF AccountInv, Typed
<1>6. deaths' >= deaths
  BY <1>2, AccountAssumption DEF AccountAssumption, AccountInv, Typed
<1>7. users \subseteq users' /\ u \in users' /\ \A v \in users' \ users : v.org # Home
  BY <1>2, <1>4
<1>8. \E v \in users' : v.email = e
  BY <1>4, <1>7
<1>9. \E v \in users' : v.org = s
  BY <1>4, <1>7
<1> HIDE DEF e, s
<1>10. founder[f].email = e /\ founder[f].slug = s
  BY DEF e, s
<1> QED BY <1>2, <1>3, <1>5, <1>6, <1>7, <1>8, <1>9, <1>10, FounderStep

LEMMA FounderDiesKeeps ==
  ASSUME AccountInv, NEW f \in Founders, FounderDies(f)
  PROVE  AccountInv'
<1> DEFINE e == founder[f].email
           s == founder[f].slug
<1>1. founder[f] # Nobody /\ FounderGoes(f, "idle") /\ guest' = guest
  BY DEF FounderDies
<1>2. /\ deaths < MaxDeaths /\ deaths' = deaths + 1
      /\ lapsed' = IF founder[f].pc \in {"org", "user"} THEN lapsed \union {e} ELSE lapsed
      /\ UNCHANGED <<day, identities, users, orgs, invite, withdrawn, disowned>>
  BY DEF FounderDies, Dies
<1>3. /\ e \in Emails /\ s \in Slugs
      /\ founder' \in [Founders -> {Nobody} \union Founder]
      /\ \A h \in Founders \ {f} : founder'[h] = founder[h]
  BY <1>1, FounderMoved
<1>4. deaths' >= deaths /\ deaths' > 0 /\ deaths' \in 0..MaxDeaths
  BY <1>2, AccountAssumption DEF AccountAssumption, AccountInv, Typed
<1>5. Typed'
  BY <1>1, <1>2, <1>3, <1>4 DEF AccountInv, Typed
<1>6. lapsed \subseteq lapsed' /\ (founder[f].pc \in {"org", "user"} => e \in lapsed')
  BY <1>2
<1> HIDE DEF e, s
<1>7. founder[f].email = e /\ founder[f].slug = s
  BY DEF e, s
<1> QED BY <1>1, <1>2, <1>3, <1>4, <1>5, <1>6, <1>7, FounderStep

-----------------------------------------------------------------------------
(* The specification *)

LEMMA AccountInitial == AccountInit => AccountInv
<1> SUFFICES ASSUME AccountInit PROVE AccountInv
  OBVIOUS
<1>1. /\ day \in 0..MaxDay /\ deaths \in 0..MaxDeaths
  BY AccountAssumption DEF AccountAssumption, AccountInit
<1>2. Typed
  BY <1>1, NoInviteTyped DEF AccountInit, Typed
<1>3. \A i \in InviteIds : invite[i] = NoInvite /\ i \notin withdrawn
  BY DEF AccountInit
<1>4. \A i \in InviteIds : RowInv(i)
  <2>1. NoInvite.mail = "none" /\ NoInvite.status = "NONE" /\ NoInvite.used = FALSE
    BY DEF NoInvite
  <2> QED BY <1>3, <2>1 DEF RowInv
<1>5. \A g \in Guests : GuestInv(g)
  BY DEF AccountInit, GuestInv
<1>6. UsedOnce
  <2>1. \A i \in InviteIds : ~invite[i].used
    BY <1>3 DEF NoInvite
  <2> QED BY <2>1 DEF AccountInit, UsedOnce
<1>7. RegisteredGetsAccount
  BY DEF AccountInit, RegisteredGetsAccount
<1> QED BY <1>2, <1>4, <1>5, <1>6, <1>7 DEF AccountInv

LEMMA AccountStutter ==
  ASSUME AccountInv, UNCHANGED accountVars
  PROVE  AccountInv'
<1>1. UNCHANGED <<day, peopleVars, invite, withdrawn, disowned>>
  BY DEF accountVars, peopleVars
<1>2. RowsMove
  BY <1>1, RowsStand
<1>3. Typed'
  BY <1>1 DEF AccountInv, Typed, peopleVars
<1> QED BY <1>1, <1>2, <1>3, GuestsStand, RowsOnly DEF peopleVars

LEMMA AccountStep == AccountInv /\ [AccountNext]_accountVars => AccountInv'
<1> SUFFICES ASSUME AccountInv, [AccountNext]_accountVars PROVE AccountInv'
  OBVIOUS
<1>1. CASE NextDay
  BY <1>1, NextDayKeeps
<1>2. CASE ExpireInvites
  BY <1>2, ExpireKeeps
<1>3. ASSUME NEW i \in InviteIds,
             \/ \E e \in Invitees : Invite(i, e)
             \/ CreateInvite(i) \/ SendInvite(i) \/ RevokeUnsent(i) \/ RevokeInvite(i)
             \/ \E j \in InviteIds \ {i} : ResendInvite(i, j)
      PROVE  AccountInv'
  BY <1>3, InviteKeeps, CreateKeeps, SendKeeps, RevokeUnsentKeeps, RevokeKeeps, ResendKeeps
<1>4. ASSUME NEW g \in Guests,
             \/ \E i \in InviteIds : FindInvite(g, i)
             \/ JudgeInvite(g) \/ GuestRegisters(g) \/ Accept(g) \/ GuestDies(g)
      PROVE  AccountInv'
  BY <1>4, FindInviteKeeps, JudgeInviteKeeps, GuestRegistersKeeps, AcceptKeeps, GuestDiesKeeps
<1>5. ASSUME NEW f \in Founders,
             \/ \E e \in Emails, s \in Slugs : FindSlug(f, e, s)
             \/ FounderRegisters(f) \/ CreateOrganization(f) \/ CreateAdmin(f)
             \/ FounderDies(f)
      PROVE  AccountInv'
  BY <1>5, FindSlugKeeps, FounderRegistersKeeps, CreateOrganizationKeeps, CreateAdminKeeps,
     FounderDiesKeeps
<1>6. CASE UNCHANGED accountVars
  BY <1>6, AccountStutter
<1> QED BY <1>1, <1>2, <1>3, <1>4, <1>5, <1>6 DEF AccountNext

\* What the rows of invitations, the accounts and the executions know of each other
\* (createInvitationForOrganization, acceptInvitation, signupAction).
THEOREM AccountInvariant == AccountSpec => []AccountInv
  BY AccountInitial, AccountStep, PTL DEF AccountSpec

\* The rows, executions and history keep their types (Accounts).
THEOREM AccountsTyped == AccountSpec => []AccountTypeOK
<1>1. AccountInv => AccountTypeOK
  BY DEF AccountInv, Typed, AccountTypeOK, InviteRow, Statuses, Mails, Guest, Founder, User
<1> QED BY <1>1, AccountInvariant, PTL

\* An account of the inviting organization has exactly one invitation used for it,
\* which reads ACCEPTED unless overwritten by id, and a withdrawn one gives none
\* (acceptInvitation against revoke, resend, expiry and other acceptances).
THEOREM AccountPerInvitation == AccountSpec => []AccountIffAccepted
<1>1. AccountInv => AccountIffAccepted
  BY DEF AccountInv, UsedOnce, RowInv, Closed, AccountIffAccepted
<1> QED BY <1>1, AccountInvariant, PTL

\* A registered e-mail has its account or an execution still writing it, and an
\* organization its administrator, but for deaths and lost races (signupAction).
THEOREM AccountForRegistered == AccountSpec => []RegisteredGetsAccount
<1>1. AccountInv => RegisteredGetsAccount
  BY DEF AccountInv
<1> QED BY <1>1, AccountInvariant, PTL
=============================================================================

------------------------------ MODULE Accounts ------------------------------
(***************************************************************************)
(* How people get an account: an organization invites staff and resellers  *)
(* by e-mail, and a business signs up.  Both register the e-mail with the  *)
(* external identity provider first and write the database afterwards, in  *)
(* separate calls; the provider registers an e-mail once and for ever.     *)
(* Invitations are unique by organization, e-mail and STATUS, so a change  *)
(* of status fails when the e-mail already has an invitation there.        *)
(***************************************************************************)
EXTENDS Integers, FiniteSets

CONSTANTS
  Emails, Home,     \* e-mail addresses; the organization that invites
  Invitees,         \* addresses it invites
  InviteIds,        \* invitations, each with its own token
  Guests,           \* executions of acceptInvitation
  Founders, Slugs,  \* executions of signupAction; names of new organizations
  InviteTTL, MaxDay,   \* days an invitation is open; bound on the clock
  MaxDeaths            \* bound on processes that die

ASSUME AccountAssumption ==
  /\ Home \notin Slugs /\ Invitees \subseteq Emails
  /\ InviteTTL \in Nat \ {0} /\ MaxDay \in Nat /\ MaxDeaths \in Nat

VARIABLES
  day,
  identities,   \* e-mails the provider has registered
  users,        \* User rows: e-mail and organization
  orgs,         \* slugs of the organizations created by sign-up
  invite,       \* Invitation rows, with the progress of the call that sends them
  guest, founder,   \* executions: program counter and what they work on
  withdrawn,    \* invitations an operator was told were revoked
  disowned,     \* invitations written REVOKED or EXPIRED by id after acceptance
  lapsed,       \* e-mails whose registration died or lost a race
  deaths

accountVars == <<day, identities, users, orgs, invite, guest, founder,
                 withdrawn, disowned, lapsed, deaths>>
peopleVars == <<identities, users, orgs, guest, founder, lapsed, deaths>>

Nobody == [pc |-> "idle"]
NoInvite == [status |-> "NONE", email |-> Home, due |-> 0, mail |-> "none", used |-> FALSE]

AccountInit ==
  /\ day = 0
  /\ identities = {} /\ users = {} /\ orgs = {}
  /\ invite = [i \in InviteIds |-> NoInvite]
  /\ guest = [g \in Guests |-> Nobody]
  /\ founder = [f \in Founders |-> Nobody]
  /\ withdrawn = {} /\ disowned = {} /\ lapsed = {} /\ deaths = 0

NextDay ==
  /\ day < MaxDay
  /\ day' = day + 1
  /\ UNCHANGED <<peopleVars, invite, withdrawn, disowned>>

Overdue(i) == invite[i].due <= day
HasUser(e) == \E u \in users : u.email = e

\* The unique key lets the row of i take status s.
Free(i, e, s) == \A j \in InviteIds \ {i} : ~(invite[j].email = e /\ invite[j].status = s)

-----------------------------------------------------------------------------
(* Inviting: createInvitationForOrganization and the calls beside it *)

Invite(i, e) ==
  /\ invite[i] = NoInvite
  /\ ~HasUser(e)
  /\ invite' = [invite EXCEPT ![i].email = e, ![i].mail = "row"]
  /\ UNCHANGED <<day, peopleVars, withdrawn, disowned>>

CreateInvite(i) ==
  /\ invite[i].mail = "row"
  /\ invite' = [invite EXCEPT ![i] =
       IF Free(i, @.email, "PENDING")
       THEN [@ EXCEPT !.status = "PENDING", !.due = day + InviteTTL, !.mail = "sending"]
       ELSE NoInvite]
  /\ UNCHANGED <<day, peopleVars, withdrawn, disowned>>

\* A message may be delivered and still be reported as failed.
SendInvite(i) ==
  /\ invite[i].mail = "sending"
  /\ \E outcome \in {"delivered", "both", "failed"} :
       invite' = [invite EXCEPT ![i].mail = outcome]
  /\ UNCHANGED <<day, peopleVars, withdrawn, disowned>>

Delivered(i) == invite[i].mail \in {"delivered", "both"}

\* After a failed e-mail the row is REVOKED by id, unless the key forbids it.
RevokeUnsent(i) ==
  /\ invite[i].mail \in {"both", "failed"}
  /\ LET next == IF invite[i].mail = "both" THEN "delivered" ELSE "none"
         revoked == Free(i, invite[i].email, "REVOKED")
     IN  /\ invite' = [invite EXCEPT ![i].mail = next,
                         ![i].status = IF revoked THEN "REVOKED" ELSE @]
         /\ disowned' = IF revoked /\ invite[i].used THEN disowned \union {i} ELSE disowned
  /\ UNCHANGED <<day, peopleVars, withdrawn>>

ExpireInvites ==
  /\ LET overdue == {i \in InviteIds : invite[i].status = "PENDING" /\ Overdue(i)}
     IN  /\ \A i \in overdue : Free(i, invite[i].email, "EXPIRED")
         /\ invite' = [i \in InviteIds |->
              IF i \in overdue THEN [invite[i] EXCEPT !.status = "EXPIRED"] ELSE invite[i]]
  /\ UNCHANGED <<day, peopleVars, withdrawn, disowned>>

\* Mutant: revoking without the PENDING condition.
RevokeAny(i) ==
  /\ invite[i].status \in {"PENDING", "ACCEPTED"}
  /\ Free(i, invite[i].email, "REVOKED")
  /\ invite' = [invite EXCEPT ![i].status = "REVOKED"]
  /\ withdrawn' = withdrawn \union {i}
  /\ UNCHANGED <<day, peopleVars, disowned>>

RevokeInvite(i) ==
  /\ invite[i].status = "PENDING"
  /\ Free(i, invite[i].email, "REVOKED")
  /\ invite' = [invite EXCEPT ![i].status = "REVOKED"]
  /\ withdrawn' = withdrawn \union {i}
  /\ UNCHANGED <<day, peopleVars, disowned>>

\* Revokes and goes on to create the replacement j.
ResendInvite(i, j) ==
  /\ invite[i].status = "PENDING"
  /\ Free(i, invite[i].email, "REVOKED")
  /\ invite[j] = NoInvite
  /\ invite' = [invite EXCEPT ![i].status = "REVOKED",
                              ![j].email = invite[i].email, ![j].mail = "row"]
  /\ withdrawn' = withdrawn \union {i}
  /\ UNCHANGED <<day, peopleVars, disowned>>

-----------------------------------------------------------------------------
(* acceptInvitation *)

GuestGoes(g, pc) ==
  guest' = [guest EXCEPT ![g] = IF pc = "idle" THEN Nobody ELSE [@ EXCEPT !.pc = pc]]

FindInvite(g, i) ==
  /\ guest[g] = Nobody
  /\ Delivered(i) /\ invite[i].status = "PENDING"
  /\ guest' = [guest EXCEPT ![g] = [pc |-> "judge", on |-> i]]
  /\ UNCHANGED <<day, identities, users, orgs, invite, founder, withdrawn,
                 disowned, lapsed, deaths>>

\* An overdue invitation is written EXPIRED by id, whatever it has become.
JudgeInvite(g) ==
  /\ guest[g].pc = "judge"
  /\ LET i == guest[g].on
         write == Overdue(i) /\ Free(i, invite[i].email, "EXPIRED")
     IN  /\ GuestGoes(g, IF Overdue(i) THEN "idle" ELSE "register")
         /\ invite' = IF write THEN [invite EXCEPT ![i].status = "EXPIRED"] ELSE invite
         /\ disowned' = IF write /\ invite[i].used THEN disowned \union {i} ELSE disowned
  /\ UNCHANGED <<day, identities, users, orgs, founder, withdrawn, lapsed, deaths>>

GuestRegisters(g) ==
  /\ guest[g].pc = "register"
  /\ LET e == invite[guest[g].on].email
     IN  /\ GuestGoes(g, IF e \in identities THEN "idle" ELSE "account")
         /\ identities' = identities \union {e}
  /\ UNCHANGED <<day, users, orgs, invite, founder, withdrawn, disowned, lapsed, deaths>>

\* Mutant: the invitation is consumed by its id alone.
AcceptAnyway(g) ==
  /\ guest[g].pc = "account"
  /\ LET i == guest[g].on
     IN  /\ users' = users \union {[email |-> invite[i].email, org |-> Home]}
         /\ invite' = [invite EXCEPT ![i].status = "ACCEPTED", ![i].used = TRUE]
  /\ GuestGoes(g, "idle")
  /\ UNCHANGED <<day, identities, orgs, founder, withdrawn, disowned, lapsed, deaths>>

Acceptable(i) ==
  /\ invite[i].status = "PENDING" /\ ~Overdue(i)
  /\ ~HasUser(invite[i].email) /\ Free(i, invite[i].email, "ACCEPTED")

\* The account and the consumed invitation in one transaction, or neither.
Accept(g) ==
  /\ guest[g].pc = "account"
  /\ LET i == guest[g].on
         e == invite[i].email
     IN  IF Acceptable(i)
         THEN /\ users' = users \union {[email |-> e, org |-> Home]}
              /\ invite' = [invite EXCEPT ![i].status = "ACCEPTED", ![i].used = TRUE]
              /\ UNCHANGED lapsed
         ELSE lapsed' = lapsed \union {e} /\ UNCHANGED <<users, invite>>
  /\ GuestGoes(g, "idle")
  /\ UNCHANGED <<day, identities, orgs, founder, withdrawn, disowned, deaths>>

-----------------------------------------------------------------------------
(* signupAction *)

FounderGoes(f, pc) ==
  founder' = [founder EXCEPT ![f] = IF pc = "idle" THEN Nobody ELSE [@ EXCEPT !.pc = pc]]

FindSlug(f, e, s) ==
  /\ founder[f] = Nobody
  /\ s \notin orgs
  /\ founder' = [founder EXCEPT ![f] = [pc |-> "register", email |-> e, slug |-> s]]
  /\ UNCHANGED <<day, identities, users, orgs, invite, guest, withdrawn,
                 disowned, lapsed, deaths>>

FounderRegisters(f) ==
  /\ founder[f].pc = "register"
  /\ FounderGoes(f, IF founder[f].email \in identities THEN "idle" ELSE "org")
  /\ identities' = identities \union {founder[f].email}
  /\ UNCHANGED <<day, users, orgs, invite, guest, withdrawn, disowned, lapsed, deaths>>

\* Mutant: signing up ends with the organization.
OrganizationOnly(f) ==
  /\ founder[f].pc = "org"
  /\ FounderGoes(f, "idle")
  /\ orgs' = orgs \union {founder[f].slug}
  /\ lapsed' = IF founder[f].slug \in orgs THEN lapsed \union {founder[f].email} ELSE lapsed
  /\ UNCHANGED <<day, identities, users, invite, guest, withdrawn, disowned, deaths>>

CreateOrganization(f) ==
  /\ founder[f].pc = "org"
  /\ FounderGoes(f, IF founder[f].slug \in orgs THEN "idle" ELSE "user")
  /\ orgs' = orgs \union {founder[f].slug}
  /\ lapsed' = IF founder[f].slug \in orgs THEN lapsed \union {founder[f].email} ELSE lapsed
  /\ UNCHANGED <<day, identities, users, invite, guest, withdrawn, disowned, deaths>>

CreateAdmin(f) ==
  /\ founder[f].pc = "user"
  /\ users' = users \union {[email |-> founder[f].email, org |-> founder[f].slug]}
  /\ FounderGoes(f, "idle")
  /\ UNCHANGED <<day, identities, orgs, invite, guest, withdrawn, disowned, lapsed, deaths>>

-----------------------------------------------------------------------------

Dies(registered, e) ==
  /\ deaths < MaxDeaths
  /\ deaths' = deaths + 1
  /\ lapsed' = IF registered THEN lapsed \union {e} ELSE lapsed
  /\ UNCHANGED <<day, identities, users, orgs, invite, withdrawn, disowned>>

GuestDies(g) ==
  /\ guest[g] # Nobody
  /\ GuestGoes(g, "idle")
  /\ Dies(guest[g].pc = "account", invite[guest[g].on].email)
  /\ UNCHANGED founder

FounderDies(f) ==
  /\ founder[f] # Nobody
  /\ FounderGoes(f, "idle")
  /\ Dies(founder[f].pc \in {"org", "user"}, founder[f].email)
  /\ UNCHANGED guest

AccountNext ==
  \/ NextDay \/ ExpireInvites
  \/ \E i \in InviteIds :
       \/ \E e \in Invitees : Invite(i, e)
       \/ CreateInvite(i) \/ SendInvite(i) \/ RevokeUnsent(i) \/ RevokeInvite(i)
       \/ \E j \in InviteIds \ {i} : ResendInvite(i, j)
  \/ \E g \in Guests :
       \/ \E i \in InviteIds : FindInvite(g, i)
       \/ JudgeInvite(g) \/ GuestRegisters(g) \/ Accept(g) \/ GuestDies(g)
  \/ \E f \in Founders :
       \/ \E e \in Emails, s \in Slugs : FindSlug(f, e, s)
       \/ FounderRegisters(f) \/ CreateOrganization(f) \/ CreateAdmin(f)
       \/ FounderDies(f)

AccountSpec == AccountInit /\ [][AccountNext]_accountVars

-----------------------------------------------------------------------------
(* Properties *)

\* The types of the rows, the executions and the history.
AccountTypeOK ==
  /\ day \in 0..MaxDay /\ deaths \in 0..MaxDeaths
  /\ identities \subseteq Emails /\ lapsed \subseteq Emails
  /\ orgs \subseteq Slugs
  /\ users \subseteq [email : Emails, org : Slugs \union {Home}]
  /\ invite \in [InviteIds ->
       [status : {"NONE", "PENDING", "ACCEPTED", "REVOKED", "EXPIRED"},
        email : Emails \union {Home}, due : 0..(MaxDay + InviteTTL),
        mail : {"none", "row", "sending", "delivered", "both", "failed"},
        used : BOOLEAN]]
  /\ guest \in [Guests -> {Nobody} \union
       [pc : {"judge", "register", "account"}, on : InviteIds]]
  /\ founder \in [Founders -> {Nobody} \union
       [pc : {"register", "org", "user"}, email : Emails, slug : Slugs]]
  /\ withdrawn \subseteq InviteIds /\ disowned \subseteq InviteIds

\* An account of the inviting organization has exactly one invitation that was
\* used for it, and a used invitation has its account; it reads ACCEPTED unless
\* its own sender or a late guest overwrote it by id; and an invitation somebody
\* was told is revoked (or replaced by a resent one) never gives an account
\* (acceptInvitation against revoke, resend, expiry and other acceptances).
AccountIffAccepted ==
  /\ \A e \in Emails :
       [email |-> e, org |-> Home] \in users
         <=> \E i \in InviteIds : invite[i].used /\ invite[i].email = e
  /\ \A i, j \in InviteIds :
       invite[i].used /\ invite[j].used /\ invite[i].email = invite[j].email => i = j
  /\ \A i \in InviteIds :
       /\ invite[i].used /\ i \notin disowned => invite[i].status = "ACCEPTED"
       /\ i \in withdrawn => ~invite[i].used /\ invite[i].status # "ACCEPTED"

WorkingOn(e) ==
  \/ \E g \in Guests : guest[g] # Nobody /\ guest[g].pc = "account"
                       /\ invite[guest[g].on].email = e
  \/ \E f \in Founders : founder[f] # Nobody /\ founder[f].pc \in {"org", "user"}
                         /\ founder[f].email = e

Administered(s) ==
  \/ \E u \in users : u.org = s
  \/ \E f \in Founders : founder[f] # Nobody /\ founder[f].pc = "user"
                         /\ founder[f].slug = s

\* A registered e-mail has its account, or the one execution that registered it is
\* still writing it, unless that execution died or lost a race with a revocation, an
\* expiry or a business name; and an organization has its administrator unless an
\* execution died (the provider never registers an e-mail again, so a stranded one
\* can accept no invitation and found no business: acceptInvitation, signupAction).
RegisteredGetsAccount ==
  /\ \A e \in identities : HasUser(e) \/ WorkingOn(e) \/ e \in lapsed
  /\ \A s \in orgs : Administered(s) \/ deaths > 0
=============================================================================

------------------------------ MODULE Parties ------------------------------
(***************************************************************************)
(* Parties and who may act for whom in them: members invite, join by a     *)
(* link, accept, decline, leave and are removed; a member brings their     *)
(* companions, people without a login, along; and a companion is claimed   *)
(* by a link and becomes an account with a say of its own.                 *)
(*                                                                         *)
(* Three handlers are two steps with what they lock held in between: a     *)
(* join by link, adding a companion, and redeeming a claim link, which     *)
(* locks nothing until its conditional UPDATE.                             *)
(***************************************************************************)
EXTENDS Naturals, FiniteSets

CONSTANTS
  Account,     \* people with a login
  Companion,   \* people who have none to begin with
  Identity,    \* logins without an account yet
  Manager,     \* whose companion each companion is
  Leader,      \* the leader of the party
  Web,         \* requests in flight
  None,
  MaxToken     \* bound: links issued, of the party and of each companion

PartiesAssumption ==
  /\ Manager \in [Companion -> Account] /\ Leader \in Account
  /\ Account \cap Companion = {} /\ None \notin Identity /\ MaxToken \in Nat

Person == Account \cup Companion
Idle == [op |-> "idle", rows |-> {}]
Nobody == [status |-> "none", consent |-> "none"]

VARIABLES
  up,          \* the party exists
  alive,       \* the companions that were not deleted
  login,       \* who claimed each companion, or None
  known,       \* the identities with an account
  member,      \* PartyMembership of each person: status and consent_mode
  link,        \* invite_token of the party: how many were issued
  claim,       \* claim_token of each companion, 0 when it is spent
  issued,      \* claim tokens issued for each companion
  req,         \* each request: what it has read, and the rows it locks
  agreed,      \* ghost: the members who said yes, or had a say since
  asked,       \* ghost: the members somebody in the party asked to join
  granted      \* ghost: those who let the leader decide for them

vars == <<up, alive, login, known, member, link, claim, issued, req, agreed,
          asked, granted>>

Row(status, consent) == [status |-> status, consent |-> consent]
Own == Row("ACTIVE", "ACCEPT_BY_DEFAULT")

Init ==
  /\ up = TRUE /\ alive = Companion
  /\ login = [c \in Companion |-> None] /\ known = {}
  /\ member = [u \in Person |-> IF u = Leader THEN Own ELSE Nobody]
  /\ link = 1
  /\ claim = [c \in Companion |-> 0] /\ issued = claim
  /\ req = [w \in Web |-> Idle]
  /\ agreed = {} /\ asked = {} /\ granted = {}

-----------------------------------------------------------------------------
\* A row is a member's membership, a person, or the party.
TheParty == <<"party">>
Membership(u) == <<"member", u>>
UserRow(u) == <<"user", u>>

Free(rows) == \A w \in Web : req[w].rows \cap rows = {}

Connected(u) == u \in alive /\ login[u] = None
HasLogin(u) == u \in Account \/ (u \in alive /\ login[u] # None)
Active(u) == up /\ member[u].status = "ACTIVE"

\* The row of somebody who is not in the party any more takes with it what
\* they had said.
Without(u) ==
  /\ member' = [member EXCEPT ![u] = Nobody]
  /\ agreed' = agreed \ {u} /\ asked' = asked \ {u} /\ granted' = granted \ {u}

\* get_or_create: a row that is there stays as it is.
Created(u, row) == [member EXCEPT ![u] = IF @ = Nobody THEN row ELSE @]

\* PartyService.invite: an active member names somebody with an account.
Invite(m, u) ==
  /\ Active(m) /\ HasLogin(m) /\ HasLogin(u)
  /\ Free({TheParty, Membership(m), UserRow(m), Membership(u)})
  /\ member[u] = Nobody
  /\ member' = Created(u, Row("INVITED", "ACCEPT_INVITES"))
  /\ asked' = asked \cup {u}
  /\ UNCHANGED <<up, alive, login, known, link, claim, issued, req, agreed, granted>>

Accept(u) ==
  /\ up /\ member[u].status = "INVITED" /\ Free({Membership(u)})
  /\ member' = [member EXCEPT ![u].status = "ACTIVE"]
  /\ agreed' = agreed \cup {u}
  /\ UNCHANGED <<up, alive, login, known, link, claim, issued, req, asked, granted>>

\* decline_invite, leave and remove_member: the leader's own row stays.
Out(u) ==
  /\ up /\ u # Leader /\ member[u] # Nobody /\ Free({TheParty, Membership(u)})
  /\ Without(u)
  /\ UNCHANGED <<up, alive, login, known, link, claim, issued, req>>

\* set_consent: "login-less companions have no say by definition".
SetConsent(u, mode) ==
  /\ Active(u) /\ HasLogin(u) /\ u # Leader /\ Free({Membership(u)})
  /\ member' = [member EXCEPT ![u].consent = mode]
  /\ granted' = IF mode = "ACCEPT_BY_DEFAULT" THEN granted \cup {u}
                ELSE granted \ {u}
  /\ UNCHANGED <<up, alive, login, known, link, claim, issued, req, agreed, asked>>

Delete ==
  /\ up /\ Free({TheParty} \cup {Membership(u) : u \in Person})
  /\ up' = FALSE
  /\ member' = [u \in Person |-> Nobody]
  /\ agreed' = {} /\ asked' = {} /\ granted' = {}
  /\ UNCHANGED <<alive, login, known, link, claim, issued, req>>

-----------------------------------------------------------------------------
\* reset_invite_link: the links that are out name no party any more.
ResetLink ==
  /\ up /\ link < MaxToken /\ Free({TheParty})
  /\ link' = link + 1
  /\ UNCHANGED <<up, alive, login, known, member, claim, issued, req, agreed,
                 asked, granted>>

\* join_via_token: the party with this link is locked, and the row ...
JoinRead(w, u, k) ==
  /\ req[w] = Idle /\ up /\ HasLogin(u)
  /\ k = link /\ Free({TheParty, Membership(u)})
  /\ req' = [req EXCEPT ![w] =
       [op |-> "join", u |-> u, link |-> k, rows |-> {TheParty, Membership(u)}]]
  /\ UNCHANGED <<up, alive, login, known, member, link, claim, issued, agreed,
                 asked, granted>>

\* ... which is created, or was an invitation that is accepted now.
JoinWrite(w) ==
  LET u == req[w].u IN
  /\ req[w].op = "join" /\ up
  /\ member' = [Created(u, Row("ACTIVE", "ACCEPT_INVITES")) EXCEPT
                  ![u].status = "ACTIVE"]
  /\ agreed' = agreed \cup {u}
  /\ asked' = IF req[w].link = link THEN asked \cup {u} ELSE asked
  /\ req' = [req EXCEPT ![w] = Idle]
  /\ UNCHANGED <<up, alive, login, known, link, claim, issued, granted>>

-----------------------------------------------------------------------------
\* Mutant: the companions are listed and not locked.
AddRows(m) == {TheParty, Membership(m), UserRow(m)}

\* read_active_member_party locks the rows it joins, lock_owned_companions
\* the member's companions.
CompanionRows(m) ==
  {TheParty, Membership(m), UserRow(m)}
    \cup {UserRow(c) : c \in {d \in Companion : Connected(d) /\ Manager[d] = m}}

\* PartyService.add_companion
AddRead(w, m, c) ==
  /\ req[w] = Idle /\ Active(m) /\ Free(CompanionRows(m))
  /\ Connected(c) /\ Manager[c] = m
  /\ req' = [req EXCEPT ![w] = [op |-> "add", u |-> c, rows |-> CompanionRows(m)]]
  /\ UNCHANGED <<up, alive, login, known, member, link, claim, issued, agreed,
                 asked, granted>>

\* A companion who was deleted meanwhile would fail the foreign key.
AddWrite(w) ==
  LET c == req[w].u IN
  /\ req[w].op = "add"
  /\ IF c \in alive /\ up
       THEN /\ member' = Created(c, Own)
            /\ asked' = asked \cup {c}
       ELSE UNCHANGED <<member, asked>>
  /\ req' = [req EXCEPT ![w] = Idle]
  /\ UNCHANGED <<up, alive, login, known, link, claim, issued, agreed, granted>>

\* CompanionRepository.delete, with the rows that cascade.
Remove(c) ==
  /\ Connected(c) /\ Free({UserRow(c), Membership(c)})
  /\ alive' = alive \ {c}
  /\ claim' = [claim EXCEPT ![c] = 0]
  /\ Without(c)
  /\ UNCHANGED <<up, login, known, link, issued, req>>

\* ClaimService.issue: a new link replaces the one before.
Issue(c) ==
  /\ Connected(c) /\ issued[c] < MaxToken /\ Free({UserRow(c)})
  /\ issued' = [issued EXCEPT ![c] = @ + 1]
  /\ claim' = [claim EXCEPT ![c] = issued'[c]]
  /\ UNCHANGED <<up, alive, login, known, member, link, req, agreed, asked,
                 granted>>

\* A login without an account of its own gets one; the advisory lock keeps it
\* apart from a claim of the same login.
SignUp(i) ==
  /\ i \notin known /\ \A w \in Web : req[w].op = "claim" => req[w].who # i
  /\ known' = known \cup {i}
  /\ UNCHANGED <<up, alive, login, member, link, claim, issued, req, agreed,
                 asked, granted>>

\* ClaimService.redeem: whoever has an account already is refused ...
RedeemRead(w, i, c, k) ==
  /\ req[w] = Idle /\ i \notin known
  /\ \A v \in Web : req[v].op = "claim" => req[v].who # i
  /\ k \in 1 .. issued[c]
  /\ req' = [req EXCEPT ![w] =
       [op |-> "claim", who |-> i, u |-> c, token |-> k, rows |-> {}]]
  /\ UNCHANGED <<up, alive, login, known, member, link, claim, issued, agreed,
                 asked, granted>>

\* ... and convert is one conditional UPDATE of the companion, then one of
\* their memberships; whoever does not match it signs up instead.
Convert(w) ==
  LET c == req[w].u IN
  /\ req[w].op = "claim" /\ Free({UserRow(c)})
  /\ IF Connected(c) /\ claim[c] = req[w].token
       THEN /\ login' = [login EXCEPT ![c] = req[w].who]
            /\ claim' = [claim EXCEPT ![c] = 0]
            /\ member' = [member EXCEPT ![c].consent =
                 IF @ = "none" THEN @ ELSE "ACCEPT_INVITES"]
            /\ agreed' = IF member[c] = Nobody THEN agreed ELSE agreed \cup {c}
       ELSE UNCHANGED <<login, claim, member, agreed>>
  /\ known' = known \cup {req[w].who}
  /\ req' = [req EXCEPT ![w] = Idle]
  /\ UNCHANGED <<up, alive, link, issued, asked, granted>>

-----------------------------------------------------------------------------
Join(w) ==
  JoinWrite(w) \/ \E u \in Person, k \in 1 .. link : JoinRead(w, u, k)

Add(w) ==
  AddWrite(w) \/ \E m \in Account, c \in Companion : AddRead(w, m, c)

Redeem(w) ==
  \/ Convert(w)
  \/ \E i \in Identity, c \in Companion, k \in 1 .. MaxToken :
       RedeemRead(w, i, c, k)

Next ==
  \/ \E w \in Web : Join(w) \/ Add(w) \/ Redeem(w)
  \/ \E u \in Person :
       \/ Accept(u) \/ Out(u) \/ \E m \in Person : Invite(m, u)
       \/ \E mode \in {"ACCEPT_INVITES", "ACCEPT_BY_DEFAULT"} : SetConsent(u, mode)
  \/ \E c \in Companion : Remove(c) \/ Issue(c)
  \/ \E i \in Identity : SignUp(i)
  \/ Delete \/ ResetLink

Spec == Init /\ [][Next]_vars

-----------------------------------------------------------------------------
\* Nobody with a login is in a party without their yes and the party's: they
\* accepted, joined or were claimed as a member, and were invited, brought
\* along, or had the link that was current; and the leader may seat them
\* unasked only if they said so ("they keep their seat but now have a login
\* and a say").  And "of two concurrent redeems, exactly one matches the
\* token": a claimed profile is its new owner's for good, neither claimed again
\* nor deleted by who managed it.
OwnSay ==
  /\ [](\A u \in Person \ {Leader} :
          HasLogin(u) /\ member[u].status = "ACTIVE" =>
            /\ u \in agreed \cap asked
            /\ member[u].consent = "ACCEPT_BY_DEFAULT" => u \in granted)
  /\ [][\A c \in Companion : login[c] # None =>
         c \in alive' /\ login'[c] = login[c]]_vars
=============================================================================

------------------------------ MODULE Accounts ------------------------------
(***************************************************************************)
(* The e-mail address of an account: changed by its owner, who confirms    *)
(* the new address by a link mailed there and may cancel by one mailed to  *)
(* the old; and brought along by the identity provider at every login.     *)
(* A link carries the account, the action and the address; whether it is   *)
(* spent is read off the account.                                          *)
(*                                                                         *)
(* Nothing is locked: every handler reads the account, decides, and writes *)
(* columns later.  Two requests may be in between.                         *)
(***************************************************************************)
EXTENDS Naturals, FiniteSets

CONSTANTS
  User, Address,
  None,        \* the empty address
  Web,         \* requests between their read and their write
  Claims,      \* what the provider may say: <<address, verified>>
  MaxWrites    \* bound: a user asks for a change while fewer were made

AccountsAssumption ==
  None \notin Address /\ MaxWrites \in [User -> Nat]
  /\ Claims \in [User -> SUBSET (Address \X BOOLEAN)]

Idle == [op |-> "idle"]

VARIABLES
  email, verified, pending,
  reserved,    \* the accounts whose pending address is still provable
  links,       \* links out and not expired: <<action, user, address>>
  req,         \* each request: what it has decided
  writes,      \* changes asked for so far
  proved,      \* ghost: <<user, address>> proved by a link or the provider
  cancelled,   \* ghost: <<user, address>> cancelled and not asked for since
  crossed      \* ghost: the accounts written while another request had read them

vars == <<email, verified, pending, reserved, links, req, writes, proved,
          cancelled, crossed>>

Init ==
  /\ email = [u \in User |-> None] /\ verified = [u \in User |-> FALSE]
  /\ pending = [u \in User |-> None]
  /\ reserved = {} /\ links = {} /\ writes = 0
  /\ req = [w \in Web |-> Idle]
  /\ proved = {} /\ cancelled = {} /\ crossed = {}

-----------------------------------------------------------------------------
\* email_unavailable: taken by, or reserved for, another account.
Unavailable(u, a) ==
  \E v \in User \ {u} :
    email[v] = a \/ (pending[v] = a /\ v \in reserved)

Begin(w, r) ==
  /\ req[w] = Idle
  /\ req' = [req EXCEPT ![w] = r]
  /\ UNCHANGED <<email, verified, pending, reserved, links, writes, proved,
                 cancelled, crossed>>

\* The write of a request: whoever else has read the account is crossed.
Ends(w) ==
  /\ req' = [req EXCEPT ![w] = Idle]
  /\ crossed' = IF \E v \in Web \ {w} : req[v] # Idle /\ req[v].u = req[w].u
                  THEN crossed \cup {req[w].u} ELSE crossed

\* request_change: a new address waits for its confirmation.
ChangeRead(w, u, a) ==
  /\ a \notin {email[u], pending[u]} /\ ~Unavailable(u, a)
  /\ writes < MaxWrites[u]
  /\ Begin(w, [op |-> "change", u |-> u, a |-> a,
               tell |-> verified[u] /\ email[u] # None])

ChangeWrite(w) ==
  LET u == req[w].u  a == req[w].a IN
  /\ req[w].op = "change" /\ writes < MaxWrites[u]
  /\ pending' = [pending EXCEPT ![u] = a]
  /\ reserved' = reserved \cup {u}
  /\ links' = links \cup {<<"confirm", u, a>>}
                \cup (IF req[w].tell THEN {<<"cancel", u, a>>} ELSE {})
  /\ writes' = writes + 1
  /\ cancelled' = cancelled \ {<<u, a>>}
  /\ Ends(w)
  /\ UNCHANGED <<email, verified, proved>>

ClearRead(w, u) ==
  /\ email[u] # None \/ pending[u] # None
  /\ Begin(w, [op |-> "clear", u |-> u])

ClearWrite(w) ==
  LET u == req[w].u IN
  /\ req[w].op = "clear"
  /\ email' = [email EXCEPT ![u] = None]
  /\ verified' = [verified EXCEPT ![u] = FALSE]
  /\ pending' = [pending EXCEPT ![u] = None]
  /\ reserved' = reserved \ {u}
  /\ Ends(w)
  /\ UNCHANGED <<links, writes, proved, cancelled>>

\* _request, from a resend or from the reminders' sweep, which holds a
\* snapshot of the account.
ResendRead(w, u) ==
  LET target == IF pending[u] # None THEN pending[u]
                ELSE IF verified[u] THEN None ELSE email[u]
  IN target # None /\ Begin(w, [op |-> "resend", u |-> u, a |-> target])

ResendWrite(w) ==
  /\ req[w].op = "resend"
  /\ links' = links \cup {<<"confirm", req[w].u, req[w].a>>}
  /\ reserved' = reserved \cup {req[w].u}
  /\ req' = [req EXCEPT ![w] = Idle]
  /\ UNCHANGED <<email, verified, pending, writes, proved, cancelled, crossed>>

-----------------------------------------------------------------------------
\* Mutant: a confirm link verifies whatever address is stored.
EffectByAction(action, u, a) ==
  IF a = pending[u] THEN (IF action = "cancel" THEN "cancel" ELSE "promote")
  ELSE IF action = "confirm" /\ email[u] # None /\ ~verified[u] THEN "verify"
  ELSE "none"

\* _effect: a link that fits neither the pending nor the stored address, or
\* whose address is verified, is spent.
Effect(action, u, a) ==
  IF a = pending[u] THEN (IF action = "cancel" THEN "cancel" ELSE "promote")
  ELSE IF action = "confirm" /\ a = email[u] /\ ~verified[u] THEN "verify"
  ELSE "none"

RedeemRead(w, k) ==
  LET effect == Effect(k[1], k[2], k[3]) IN
  /\ k \in links /\ effect # "none"
  /\ Begin(w, [op |-> effect, u |-> k[2], a |-> k[3], link |-> k[1]])

\* A cancel link spends the pending address ...
Cancel(w) ==
  LET u == req[w].u IN
  /\ req[w].op = "cancel"
  /\ pending' = [pending EXCEPT ![u] = None]
  /\ cancelled' = cancelled \cup {<<u, req[w].a>>}
  /\ Ends(w)
  /\ UNCHANGED <<email, verified, reserved, links, writes, proved>>

\* ... a confirm link makes it the account's, unless another account was
\* first: the unique key fails and the reservation is dropped ...
Promote(w) ==
  LET u == req[w].u  a == req[w].a IN
  /\ req[w].op = "promote"
  /\ pending' = [pending EXCEPT ![u] = None]
  /\ IF \E v \in User \ {u} : email[v] = a
       THEN UNCHANGED <<email, verified, proved>>
       ELSE /\ email' = [email EXCEPT ![u] = a]
            /\ verified' = [verified EXCEPT ![u] = TRUE]
            /\ proved' = proved \cup {<<u, a>>}
  /\ Ends(w)
  /\ UNCHANGED <<reserved, links, writes, cancelled>>

\* ... and the one for the stored address verifies it.
Verify(w) ==
  LET u == req[w].u IN
  /\ req[w].op = "verify"
  /\ verified' = [verified EXCEPT ![u] = TRUE]
  /\ proved' = proved \cup {<<u, req[w].a>>}
  /\ Ends(w)
  /\ UNCHANGED <<email, pending, reserved, links, writes, cancelled>>

-----------------------------------------------------------------------------
\* A verified stored address is the user's choice, a taken one is not.
Replaces(u, a) ==
  ~(email[u] # None /\ verified[u]) /\ ~Unavailable(u, a)

\* sync_identity at a login: _email_updates decides ...
SyncRead(w, u, c) ==
  /\ c \in Claims[u]
  /\ IF c[1] = email[u]
       THEN c[2] /\ ~verified[u]
              /\ Begin(w, [op |-> "verify", u |-> u, a |-> c[1], link |-> "login"])
       ELSE Replaces(u, c[1])
              /\ Begin(w, [op |-> "replace", u |-> u, a |-> c[1], ok |-> c[2]])

\* ... and the update drops a pending address.  The unique key fails the
\* login of whoever comes second.
Replace(w) ==
  LET u == req[w].u  a == req[w].a IN
  /\ req[w].op = "replace"
  /\ IF \E v \in User \ {u} : email[v] = a
       THEN UNCHANGED <<email, verified, pending, proved>>
       ELSE /\ email' = [email EXCEPT ![u] = a]
            /\ verified' = [verified EXCEPT ![u] = req[w].ok]
            /\ pending' = [pending EXCEPT ![u] = None]
            /\ proved' = IF req[w].ok THEN proved \cup {<<u, a>>} ELSE proved
  /\ Ends(w)
  /\ UNCHANGED <<reserved, links, writes, cancelled>>

\* Links live for a day, and so does the reservation that goes with them.
Expire(u) ==
  /\ u \in reserved \/ \E k \in links : k[2] = u
  /\ reserved' = reserved \ {u}
  /\ links' = {k \in links : k[2] # u}
  /\ UNCHANGED <<email, verified, pending, req, writes, proved, cancelled, crossed>>

-----------------------------------------------------------------------------
Read(w) ==
  \/ \E u \in User, a \in Address : ChangeRead(w, u, a)
  \/ \E u \in User : ClearRead(w, u) \/ ResendRead(w, u)
  \/ \E u \in User, c \in Address \X BOOLEAN : SyncRead(w, u, c)
  \/ \E k \in links : RedeemRead(w, k)

Write(w) ==
  \/ ChangeWrite(w) \/ ClearWrite(w) \/ ResendWrite(w)
  \/ Cancel(w) \/ Promote(w) \/ Verify(w) \/ Replace(w)

Next == \/ \E w \in Web : Read(w) \/ Write(w)
        \/ \E u \in User : Expire(u)

Spec == Init /\ [][Next]_vars

-----------------------------------------------------------------------------
\* A verified address was proved by this account: by a link mailed to that
\* address, or by the provider.  Whatever was out before a change, a cancel
\* or a login proves nothing else, unless two requests crossed.  And a change
\* that was cancelled stays cancelled until it is asked for again, although
\* its confirm link is still out: it makes an address nobody's own.
AddressesAreProved ==
  /\ [](\A u \in User \ crossed : verified[u] => <<u, email[u]>> \in proved)
  /\ [][\A w \in Web : req[w] # Idle /\ req[w].op = "promote" /\ req'[w] = Idle =>
         req[w].u \in crossed \/ <<req[w].u, req[w].a>> \notin cancelled]_vars
=============================================================================

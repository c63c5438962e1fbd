------------------------------ MODULE Listings ------------------------------
(***************************************************************************)
(* The looking-for-group board.  An author publishes, edits, closes and    *)
(* reopens a listing; people respond and withdraw, the author declines; a  *)
(* sweep closes what has been open for too long.                           *)
(*                                                                         *)
(* Every handler locks the Listing row and reads; what it read it acts on  *)
(* at its commit.  Respond, the author's close and the sweep are two steps *)
(* with the lock held in between, the others are one step under it.        *)
(***************************************************************************)
EXTENDS Naturals, FiniteSets

CONSTANTS
  Listing, User,
  Web,         \* requests in flight
  OpenFor,     \* LISTING_OPEN_FOR
  MaxNow,      \* bound: the clock
  MaxVersion   \* bound: edits of a listing

ListingsAssumption ==
  OpenFor \in Nat /\ MaxNow \in Nat /\ MaxVersion \in Nat

Idle == [op |-> "idle", on |-> {}]

VARIABLES
  now,
  state,       \* "DRAFT", "OPEN" or "CLOSED"
  opened,      \* opened_at
  version,     \* edits so far
  answer,      \* each user's response: its status, or "none"
  knows,       \* the edit of the listing each response stands on
  txn          \* requests that hold locks: what they have read

vars == <<now, state, opened, version, answer, knows, txn>>

Init ==
  /\ now = 0
  /\ state = [l \in Listing |-> "DRAFT"]
  /\ opened = [l \in Listing |-> 0]
  /\ version = [l \in Listing |-> 0]
  /\ answer = [l \in Listing |-> [u \in User |-> "none"]]
  /\ knows = [l \in Listing |-> [u \in User |-> 0]]
  /\ txn = [w \in Web |-> Idle]

-----------------------------------------------------------------------------
\* Mutant: the listing is read without a lock.
Unlocked(l) == TRUE

\* select_for_update: nobody else holds the row.
Free(l) == \A w \in Web : l \notin txn[w].on

Waiting(l) == {u \in User : answer[l][u] = "WAITING"}

\* _open
Open(l, from) ==
  /\ Free(l) /\ state[l] = from
  /\ state' = [state EXCEPT ![l] = "OPEN"]
  /\ opened' = [opened EXCEPT ![l] = now]
  /\ UNCHANGED <<now, version, answer, knows, txn>>

Publish(l) == Open(l, "DRAFT")
Reopen(l) == Open(l, "CLOSED")

\* update: whoever waits is told of the change.
Update(l) ==
  /\ Free(l) /\ version[l] < MaxVersion
  /\ version' = [version EXCEPT ![l] = @ + 1]
  /\ knows' = [knows EXCEPT ![l] =
       [u \in User |-> IF u \in Waiting(l) THEN version'[l] ELSE @[u]]]
  /\ UNCHANGED <<now, state, opened, answer, txn>>

\* respond: once per user, and only while the listing is open.
RespondRead(w, l, u) ==
  /\ txn[w] = Idle /\ Free(l)
  /\ state[l] = "OPEN" /\ answer[l][u] = "none"
  /\ txn' = [txn EXCEPT ![w] =
       [op |-> "respond", on |-> {l}, user |-> u, saw |-> version[l]]]
  /\ UNCHANGED <<now, state, opened, version, answer, knows>>

\* A second response of one user would meet the unique key.
RespondWrite(w, l) ==
  LET u == txn[w].user IN
  /\ txn[w].op = "respond" /\ txn[w].on = {l}
  /\ IF answer[l][u] # "WAITING"
       THEN /\ answer' = [answer EXCEPT ![l][u] = "WAITING"]
            /\ knows' = [knows EXCEPT ![l][u] = txn[w].saw]
       ELSE UNCHANGED <<answer, knows>>
  /\ txn' = [txn EXCEPT ![w] = Idle]
  /\ UNCHANGED <<now, state, opened, version>>

Withdraw(l, u) ==
  /\ Free(l) /\ u \in Waiting(l)
  /\ answer' = [answer EXCEPT ![l][u] = "none"]
  /\ UNCHANGED <<now, state, opened, version, knows, txn>>

\* The author declines: a listing that is closed has nobody left to decline.
Decline(l, u) ==
  /\ Free(l) /\ u \in Waiting(l)
  /\ answer' = [answer EXCEPT ![l][u] = "DECLINED"]
  /\ UNCHANGED <<now, state, opened, version, knows, txn>>

-----------------------------------------------------------------------------
\* The author closes one listing ...
CloseRead(w, l) ==
  /\ txn[w] = Idle /\ Free(l) /\ state[l] = "OPEN"
  /\ txn' = [txn EXCEPT ![w] = [op |-> "close", on |-> {l}]]
  /\ UNCHANGED <<now, state, opened, version, answer, knows>>

Stale(l) == state[l] = "OPEN" /\ opened[l] + OpenFor < now

\* ... the sweep those that are stale when it has got their locks.
SweepRead(w) ==
  LET stale == {l \in Listing : Stale(l)} IN
  /\ txn[w] = Idle /\ stale # {} /\ \A l \in stale : Free(l)
  /\ txn' = [txn EXCEPT ![w] = [op |-> "sweep", on |-> stale]]
  /\ UNCHANGED <<now, state, opened, version, answer, knows>>

\* Mutant: only the author's close dismisses those who wait.
CloseSweptSilently(w) ==
  /\ txn[w].op \in {"close", "sweep"}
  /\ LET gone(l) == IF l \in txn[w].on /\ txn[w].op = "close" THEN Waiting(l) ELSE {} IN
     answer' = [l \in Listing |-> [u \in User |->
       IF u \in gone(l) THEN "NOT_CHOSEN" ELSE answer[l][u]]]
  /\ state' = [l \in Listing |-> IF l \in txn[w].on THEN "CLOSED" ELSE state[l]]
  /\ txn' = [txn EXCEPT ![w] = Idle]
  /\ UNCHANGED <<now, opened, version, knows>>

\* close, close_stale: the update, and dismiss_waiting of those who wait.
CloseWrite(w) ==
  /\ txn[w].op \in {"close", "sweep"}
  /\ LET gone(l) == IF l \in txn[w].on THEN Waiting(l) ELSE {} IN
     answer' = [l \in Listing |-> [u \in User |->
       IF u \in gone(l) THEN "NOT_CHOSEN" ELSE answer[l][u]]]
  /\ state' = [l \in Listing |-> IF l \in txn[w].on THEN "CLOSED" ELSE state[l]]
  /\ txn' = [txn EXCEPT ![w] = Idle]
  /\ UNCHANGED <<now, opened, version, knows>>

Tick ==
  /\ now < MaxNow /\ now' = now + 1
  /\ UNCHANGED <<state, opened, version, answer, knows, txn>>

-----------------------------------------------------------------------------
Commit(w) == CloseWrite(w) \/ \E l \in Listing : RespondWrite(w, l)
Sweep == \E w \in Web : SweepRead(w)

Respond(l) == \E u \in User :
  \/ \E w \in Web : RespondRead(w, l, u)
  \/ Withdraw(l, u)

Author(l) ==
  \/ Publish(l) \/ Update(l) \/ Reopen(l)
  \/ \E w \in Web : CloseRead(w, l)
  \/ \E u \in User : Decline(l, u)

Next ==
  \/ \E l \in Listing : Respond(l) \/ Author(l)
  \/ \E w \in Web : Commit(w)
  \/ Sweep \/ Tick

Spec == Init /\ [][Next]_vars

-----------------------------------------------------------------------------
\* Nobody waits in vain: whoever waits does so on a listing that is open ("the
\* lock orders this against a close, which dismisses everyone still waiting")
\* and that they know as it is: they responded to it, or were told of every
\* change since, however responses, edits, closes and sweeps cross.
NobodyWaitsInVain ==
  \A l \in Listing : \A u \in Waiting(l) :
    state[l] = "OPEN" /\ knows[l][u] = version[l]

\* A listing that was reopened gets its full time, and no more: the sweep
\* closes none that is not stale when it does, whatever happened since it
\* looked; and what has been open for too long is closed in the end, by its
\* author or by the sweep, however often others hold its row.
SweepTakesTheStale ==
  /\ [][\A w \in Web : txn[w].op = "sweep" /\ txn'[w] = Idle =>
         \A l \in txn[w].on : state[l] = "OPEN" => Stale(l)]_vars
  /\ \A l \in Listing : Stale(l) ~> state[l] # "OPEN"
=============================================================================

---------------------------- MODULE Announcements ----------------------------
(***************************************************************************)
(* An organizer's announcement and its fan-out to the bells of everybody   *)
(* who follows the sphere.  Saving a published announcement starts a       *)
(* worker after the commit, which a crash may lose; a sweep starts one for *)
(* whatever was published and not stamped.  Workers race, and crash.       *)
(***************************************************************************)
EXTENDS Naturals, FiniteSets

CONSTANTS
  Announcement, User,
  Worker,      \* fan-outs under way
  MaxCrashes   \* bound: crashes

AnnouncementsAssumption == MaxCrashes \in Nat

None == "none"

VARIABLES
  page,        \* "none" (not made, or deleted), "draft" or "published"
  used,        \* the announcements ever made: a pk is not used again
  notified,    \* those with notified_at set
  follows,     \* NotificationSubscription: "none", "on" or "muted"
  bells,       \* bell rows of each announcement for each user
  wants,       \* the fan-outs asked for and not begun
  due,         \* each worker's announcement, "none" when it has nothing to do
  claimed,     \* the workers whose claim is written and not committed
  crashes

vars == <<page, used, notified, follows, bells, wants, due, claimed, crashes>>

Init ==
  /\ page = [a \in Announcement |-> "none"] /\ used = {} /\ notified = {}
  /\ follows = [u \in User |-> "none"]
  /\ bells = [a \in Announcement |-> [u \in User |-> 0]]
  /\ wants = {}
  /\ due = [w \in Worker |-> None]
  /\ claimed = {} /\ crashes = 0

-----------------------------------------------------------------------------
\* The row is locked by whoever has written it and not committed.
Free(a) == \A w \in claimed : due[w] # a

\* _schedule_fanout; a notified one is not scheduled again.
Asked(a, to) == IF to = "published" /\ a \notin notified THEN wants \cup {a} ELSE wants

Create(a, to) ==
  /\ a \notin used
  /\ used' = used \cup {a}
  /\ page' = [page EXCEPT ![a] = to]
  /\ wants' = Asked(a, to)
  /\ UNCHANGED <<notified, follows, bells, due, claimed, crashes>>

\* update saves the form's fields only, not the stamp.
Update(a, to) ==
  /\ page[a] # "none" /\ Free(a)
  /\ page' = [page EXCEPT ![a] = to]
  /\ wants' = Asked(a, to)
  /\ UNCHANGED <<used, notified, follows, bells, due, claimed, crashes>>

Delete(a) ==
  /\ page[a] # "none" /\ Free(a)
  /\ page' = [page EXCEPT ![a] = "none"]
  /\ UNCHANGED <<used, notified, follows, bells, wants, due, claimed, crashes>>

\* ensure_sphere: the first visit follows, a later one leaves a mute alone.
Visit(u) ==
  /\ follows[u] = "none"
  /\ follows' = [follows EXCEPT ![u] = "on"]
  /\ UNCHANGED <<page, used, notified, bells, wants, due, claimed, crashes>>

SetMuted(u, to) ==
  /\ follows[u] # "none"
  /\ follows' = [follows EXCEPT ![u] = to]
  /\ UNCHANGED <<page, used, notified, bells, wants, due, claimed, crashes>>

-----------------------------------------------------------------------------
\* The worker a save started, if it has not been lost ...
Begin(w, a) ==
  /\ due[w] = None /\ a \in wants
  /\ due' = [due EXCEPT ![w] = a]
  /\ wants' = wants \ {a}
  /\ UNCHANGED <<page, used, notified, follows, bells, claimed, crashes>>

\* ... and the sweep, over what it lists as due.
Sweep(w, a) ==
  /\ due[w] = None
  /\ page[a] = "published" /\ a \notin notified
  /\ due' = [due EXCEPT ![w] = a]
  /\ UNCHANGED <<page, used, notified, follows, bells, wants, claimed, crashes>>

\* Mutant: the claim is a check, not an update that locks.
ClaimByReading(w) ==
  /\ due[w] # None /\ w \notin claimed
  /\ IF page[due[w]] = "published" /\ due[w] \notin notified
       THEN claimed' = claimed \cup {w} /\ UNCHANGED due
       ELSE due' = [due EXCEPT ![w] = None] /\ UNCHANGED claimed
  /\ UNCHANGED <<page, used, notified, follows, bells, wants, crashes>>

\* claim: the filtered UPDATE; a row somebody else claimed, unpublished or
\* deleted meanwhile is not touched and the worker is done.
Claim(w) ==
  /\ due[w] # None /\ w \notin claimed /\ Free(due[w])
  /\ IF page[due[w]] = "published" /\ due[w] \notin notified
       THEN claimed' = claimed \cup {w} /\ UNCHANGED due
       ELSE due' = [due EXCEPT ![w] = None] /\ UNCHANGED claimed
  /\ UNCHANGED <<page, used, notified, follows, bells, wants, crashes>>

\* The bells of whoever follows now, and the commit of claim and bells.
Ring(w) ==
  LET a == due[w] IN
  /\ w \in claimed
  /\ bells' = [bells EXCEPT ![a] =
       [u \in User |-> IF follows[u] = "on" THEN @[u] + 1 ELSE @[u]]]
  /\ notified' = notified \cup {a}
  /\ due' = [due EXCEPT ![w] = None] /\ claimed' = claimed \ {w}
  /\ UNCHANGED <<page, used, follows, wants, crashes>>

\* A crash rolls the transactions back and loses what was asked for.
Crash ==
  /\ crashes < MaxCrashes /\ crashes' = crashes + 1
  /\ due' = [w \in Worker |-> None] /\ claimed' = {} /\ wants' = {}
  /\ UNCHANGED <<page, used, notified, follows, bells>>

-----------------------------------------------------------------------------
Organizer(a) ==
  \/ \E to \in {"draft", "published"} : Create(a, to) \/ Update(a, to)
  \/ Delete(a)

Reader(u) == Visit(u) \/ \E to \in {"on", "muted"} : SetMuted(u, to)

Run(w) == Claim(w) \/ Ring(w)

SweepTick(a) == \E w \in Worker : Sweep(w, a)

Next ==
  \/ \E a \in Announcement : Organizer(a) \/ SweepTick(a)
  \/ \E u \in User : Reader(u)
  \/ \E w \in Worker : Run(w) \/ \E a \in Announcement : Begin(w, a)
  \/ Crash

Spec == Init /\ [][Next]_vars

-----------------------------------------------------------------------------
\* "Subscribers get the announcement once or, transiently, not yet; never
\* twice", through duplicate workers, crashes and republishing: whoever
\* follows when it is published hears of it in the end, unless it is withdrawn
\* or they stop following, for a worker lost between the commit and its start,
\* or half way, is replaced.
AnnouncedOnce ==
  /\ [](\A a \in Announcement, u \in User : bells[a][u] <= 1)
  /\ \A a \in Announcement, u \in User :
       page[a] = "published" /\ a \notin notified /\ follows[u] = "on"
         ~> bells[a][u] > 0 \/ page[a] # "published" \/ follows[u] # "on"
=============================================================================

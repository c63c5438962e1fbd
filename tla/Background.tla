----------------------------- MODULE Background -----------------------------
(***************************************************************************)
(* What the scheduler keeps up: stale listings are closed, announcements   *)
(* and published events reach their subscribers, the agenda is exported.   *)
(* The four share a database and nothing else, so a behaviour here is one  *)
(* of any of them: "part", chosen at the start, says which, and the state  *)
(* space is their sum.                                                     *)
(*                                                                         *)
(* The fairness is the scheduler's: a sweep that finds something to do     *)
(* again and again is run, and a transaction that has begun goes on.       *)
(***************************************************************************)
EXTENDS Naturals, FiniteSets

CONSTANTS
  Listing, User, Web, OpenFor, MaxNow, MaxVersion,      \* Listings
  Announcement, Worker, MaxCrashes,                     \* Announcements
  Event, Subscriber, Sweeper, Band, MaxSubs,            \* Subscriptions
  Runner, ExportSweep, Timeout, NoLock, MaxEdits        \* ExportLock

VARIABLES
  part,
  now, state, opened, version, answer, knows, txn,
  page, used, notified, follows, bells, wants, due, claimed, crashes,
  band, subs, made, asking, listed, stamped, sweep, outbox, sending,
  mailed, left, restarts,
  agenda, sheet, lock, at, rows, lapsed, kills

L == INSTANCE Listings
A == INSTANCE Announcements
S == INSTANCE Subscriptions
       WITH User <- Subscriber, Legacy <- Subscriber, crashes <- restarts
X == INSTANCE ExportLock WITH MaxKills <- MaxCrashes

ASSUME BackgroundAssumption ==
  /\ L!ListingsAssumption /\ A!AnnouncementsAssumption
  /\ S!SubscriptionsAssumption /\ X!ExportLockAssumption

listings == <<now, state, opened, version, answer, knows, txn>>
announcements ==
  <<page, used, notified, follows, bells, wants, due, claimed, crashes>>
subscriptions == <<band, subs, made, asking, listed, stamped, sweep,
                   outbox, sending, mailed, left, restarts>>
export == <<agenda, sheet, lock, at, rows, lapsed, kills>>

vars == <<part, listings, announcements, subscriptions, export>>

-----------------------------------------------------------------------------
\* A step of one part leaves the others alone.
InListings ==
  part = "listings" /\ UNCHANGED <<part, announcements, subscriptions, export>>
InAnnouncements ==
  part = "announcements" /\ UNCHANGED <<part, listings, subscriptions, export>>
InSubscriptions ==
  part = "subscriptions" /\ UNCHANGED <<part, listings, announcements, export>>
InExport ==
  part = "export" /\ UNCHANGED <<part, listings, announcements, subscriptions>>

Init ==
  /\ part \in {"listings", "announcements", "subscriptions", "export"}
  /\ L!Init /\ A!Init /\ S!Init /\ X!Init

Next ==
  \/ InListings /\ L!Next
  \/ InAnnouncements /\ A!Next
  \/ InSubscriptions /\ S!Next
  \/ InExport /\ X!Next

Spec == Init /\ [][Next]_vars

Fairness ==
  \* listings: the sweep, and the commit of whoever holds a row
  /\ SF_vars(InListings /\ L!Sweep)
  /\ \A w \in Web : WF_vars(InListings /\ L!Commit(w))
  \* announcements: the sweep, and the workers, which queue for the row
  /\ \A a \in Announcement : SF_vars(InAnnouncements /\ A!SweepTick(a))
  /\ \A w \in Worker : SF_vars(InAnnouncements /\ A!Run(w))
  \* export: time passes, every run goes on, and the sweep's comes through:
  \* not every one of its runs fails
  /\ WF_vars(InExport /\ X!Grow)
  /\ \A r \in Runner : WF_vars(InExport /\ X!Step(r))
  /\ SF_vars(InExport /\ X!Claim(ExportSweep))
  /\ SF_vars(InExport /\ X!Build(ExportSweep))
  /\ SF_vars(InExport /\ X!WriteSheet(ExportSweep))

FairSpec == Spec /\ Fairness

-----------------------------------------------------------------------------
\* Whoever waits on a listing waits on an open one and knows it as it is
\* (mills/listing.py).
NobodyWaitsInVain == L!NobodyWaitsInVain

\* The sweep closes no listing that was reopened meanwhile, and every one that
\* has been open for too long in the end (mills/listing.py).
SweepTakesTheStale == L!SweepTakesTheStale

\* Whoever follows hears of what is published once (mills/notifications.py).
AnnouncedOnce == A!AnnouncedOnce

\* Nobody is subscribed under an age that does not allow it, and queued mail of
\* a subscription that was given up is not sent (mills/dashboard.py,
\* mills/crowd.py, links/db/django/notifications.py).
ConsentHolds == S!ConsentHolds

\* Two exports overlap only when one has lost its lock, and the sheet comes to
\* show the agenda, whatever was killed or failed (mills/konwencik.py).
ExportKeepsUp == X!ExportKeepsUp
=============================================================================

---------------------------- MODULE Subscriptions ----------------------------
(***************************************************************************)
(* Subscriptions to a sphere, which need a confirmed age of 16 or more,    *)
(* and the hourly sweep that tells the subscribers about newly published   *)
(* events.  A subscription and a change of age lock the User row; a sweep  *)
(* lists its events first and then takes them one transaction each; the    *)
(* mail of a transaction goes out after its commit.                        *)
(***************************************************************************)
EXTENDS Naturals, FiniteSets

CONSTANTS
  Event, User,
  Sweeper,     \* sweeps that may run at once
  Band,        \* age bands; one allows optional features
  Legacy,      \* users who subscribed before there were age bands
  MaxSubs,     \* bound: subscriptions a user ever makes
  MaxCrashes   \* bound: crashes

SixteenPlus == "16+"
Unknown == "unknown"
Idle == [at |-> "idle"]

SubscriptionsAssumption ==
  {SixteenPlus, Unknown} \subseteq Band /\ Legacy \subseteq User
  /\ MaxSubs \in Nat /\ MaxCrashes \in Nat

VARIABLES
  band,        \* age_band
  subs,        \* the pk of each user's SphereSubscription, 0 without one
  made,        \* subscriptions each user ever made
  asking,      \* the users whose subscription holds their row locked
  listed,      \* the events that are published and listed
  stamped,     \* subscribers_announced_at is set
  sweep,       \* each sweep: the events it listed and the one it is at
  outbox,      \* mails composed and not asked about: <<user, subscription>>
  sending,     \* mails whose consent was asked for and found, not sent yet
  mailed,      \* mails sent
  left,        \* the subscriptions that were given up
  crashes

vars == <<band, subs, made, asking, listed, stamped, sweep, outbox,
          sending, mailed, left, crashes>>

Init ==
  /\ band = [u \in User |-> Unknown]
  /\ subs = [u \in User |-> IF u \in Legacy THEN 1 ELSE 0]
  /\ made = subs
  /\ asking = {}
  /\ listed = {} /\ stamped = {}
  /\ sweep = [s \in Sweeper |-> Idle]
  /\ outbox = {} /\ sending = {} /\ mailed = {} /\ left = {} /\ crashes = 0

-----------------------------------------------------------------------------
\* lock_subscriber_age_band and set_age_band lock the same row.
Unlocked(u) == u \notin asking

SubscribeRead(u) ==
  /\ u \notin asking /\ band[u] = SixteenPlus
  /\ asking' = asking \cup {u}
  /\ UNCHANGED <<band, subs, made, listed, stamped, sweep, outbox,
                 sending, mailed, left, crashes>>

\* get_or_create: a new row has a new pk.
SubscribeWrite(u) ==
  /\ u \in asking
  /\ IF subs[u] = 0
       THEN /\ made[u] < MaxSubs
            /\ made' = [made EXCEPT ![u] = @ + 1]
            /\ subs' = [subs EXCEPT ![u] = made'[u]]
       ELSE UNCHANGED <<made, subs>>
  /\ asking' = asking \ {u}
  /\ UNCHANGED <<band, listed, stamped, sweep, outbox, sending, mailed, left,
                 crashes>>

\* The row is deleted; a later subscription is another one.
Leave(u) ==
  /\ subs' = [subs EXCEPT ![u] = 0]
  /\ left' = IF subs[u] = 0 THEN left ELSE left \cup {<<u, subs[u]>>}

Unsubscribe(u) ==
  /\ subs[u] # 0 /\ Leave(u)
  /\ UNCHANGED <<band, made, asking, listed, stamped, sweep, outbox,
                 sending, mailed, crashes>>

\* _set_age_band: only who was and stays 16+ keeps their subscriptions.
SetAgeBand(u, b) ==
  /\ Unlocked(u)
  /\ band' = [band EXCEPT ![u] = b]
  /\ IF band[u] = SixteenPlus /\ b = SixteenPlus
       THEN UNCHANGED <<subs, left>> ELSE Leave(u)
  /\ UNCHANGED <<made, asking, listed, stamped, sweep, outbox, sending,
                 mailed, crashes>>

\* update_general sets when an event is public and whether it is listed, so
\* it may also be hidden again; that its publication time passes is not code.
Publish(e) ==
  /\ listed' = IF e \in listed THEN listed \ {e} ELSE listed \cup {e}
  /\ UNCHANGED <<band, subs, made, asking, stamped, sweep, outbox,
                 sending, mailed, left, crashes>>

-----------------------------------------------------------------------------
\* list_pending_announcements
Pending == listed \ stamped

SweepList(s) ==
  /\ sweep[s] = Idle /\ Pending # {}
  /\ sweep' = [sweep EXCEPT ![s] = [at |-> "list", events |-> Pending]]
  /\ UNCHANGED <<band, subs, made, asking, listed, stamped, outbox,
                 sending, mailed, left, crashes>>

\* Mutant: any subscription of the user will do.
AnySubscription(u, pk) == subs[u] # 0 /\ band[u] = SixteenPlus

\* _SphereSubscriptionMail._authorized
Authorized(u, pk) == subs[u] = pk /\ band[u] = SixteenPlus

\* One event: the stamp, its recipients, and mail to send after the commit
\* (the bells, rung with it, are left out).  The stamp is written whether or
\* not it is there already.
SweepEvent(s, e) ==
  LET told == {u \in User : subs[u] # 0 /\ band[u] = SixteenPlus} IN
  /\ sweep[s].at = "list" /\ e \in sweep[s].events
  /\ stamped' = stamped \cup {e}
  /\ outbox' = outbox \cup {<<u, subs[u]>> : u \in told}
  /\ sweep' = [sweep EXCEPT ![s] =
       IF @.events = {e} THEN Idle ELSE [@ EXCEPT !.events = @ \ {e}]]
  /\ UNCHANGED <<band, subs, made, asking, listed, sending, mailed, left,
                 crashes>>

\* After the commit _send_email asks for the consent again, and drops the mail
\* without it.
Authorize(m) ==
  /\ m \in outbox /\ outbox' = outbox \ {m}
  /\ sending' = IF Authorized(m[1], m[2]) THEN sending \cup {m} ELSE sending
  /\ UNCHANGED <<band, subs, made, asking, listed, stamped, sweep, mailed,
                 left, crashes>>

\* Nothing is asked between that and the mail server.
Send(m) ==
  /\ m \in sending /\ sending' = sending \ {m}
  /\ mailed' = mailed \cup {m}
  /\ UNCHANGED <<band, subs, made, asking, listed, stamped, sweep, outbox,
                 left, crashes>>

\* A worker dies: what it had committed stays, what it had to mail is lost.
Crash ==
  /\ crashes < MaxCrashes /\ crashes' = crashes + 1
  /\ sweep' = [s \in Sweeper |-> Idle] /\ asking' = {}
  /\ outbox' = {} /\ sending' = {}
  /\ UNCHANGED <<band, subs, made, listed, stamped, mailed, left>>

-----------------------------------------------------------------------------
Follower(u) ==
  \/ SubscribeRead(u) \/ SubscribeWrite(u) \/ Unsubscribe(u)
  \/ \E b \in Band : SetAgeBand(u, b)

Next ==
  \/ \E u \in User : Follower(u)
  \/ \E e \in Event : Publish(e)
  \/ \E s \in Sweeper : SweepList(s) \/ \E e \in Event : SweepEvent(s, e)
  \/ \E m \in outbox : Authorize(m)
  \/ \E m \in sending : Send(m)
  \/ Crash

Spec == Init /\ [][Next]_vars

-----------------------------------------------------------------------------
\* Nobody is subscribed under an age that does not allow it, however a
\* subscription and a change of age cross; those from before the age bands
\* stay until their owner says an age.
OfAge ==
  \A u \in User : subs[u] # 0 =>
    \/ band[u] = SixteenPlus
    \/ u \in Legacy /\ subs[u] = 1 /\ band[u] = Unknown

\* And from the moment a subscription is given up nothing more is sent for it,
\* but for a mail that has been authorised already and is on its way: "deletion
\* revokes queued mail even if the recipient becomes eligible again or opts in
\* through a replacement subscription before delivery."
ConsentHolds ==
  /\ []OfAge
  /\ [][\A m \in left \ sending :
          m \notin sending' /\ (m \in mailed' => m \in mailed)]_vars
=============================================================================

--------------------------- MODULE BackgroundProofs ---------------------------
(***************************************************************************)
(* What the scheduler keeps up, for any number of people, workers and      *)
(* sweeps: the safety half of each part.  That something is done in the    *)
(* end is left to the model checker.                                       *)
(*                                                                         *)
(* The parts share no variable, so each has an inductive invariant of its  *)
(* own: a step of another part leaves it alone.                            *)
(***************************************************************************)
EXTENDS Background, TLAPS, FiniteSetTheorems

-----------------------------------------------------------------------------
\* Listings: what a transaction has read of the rows it holds.

Answer == {"none", "WAITING", "DECLINED", "NOT_CHOSEN"}

Held ==
  {L!Idle}
  \cup [op : {"respond"}, on : SUBSET Listing, user : User, saw : Nat]
  \cup [op : {"close", "sweep"}, on : SUBSET Listing]

LTypeOK ==
  /\ now \in Nat
  /\ state \in [Listing -> {"DRAFT", "OPEN", "CLOSED"}]
  /\ opened \in [Listing -> Nat] /\ version \in [Listing -> Nat]
  /\ answer \in [Listing -> [User -> Answer]]
  /\ knows \in [Listing -> [User -> Nat]]
  /\ txn \in [Web -> Held]

\* No row is held twice, and what was read of it still is so: it is open, at
\* the edit a response saw, and stale where the sweep holds it.
LHeld ==
  /\ \A v, w \in Web : v # w => txn[v].on \cap txn[w].on = {}
  /\ \A w \in Web : \A l \in txn[w].on :
       /\ state[l] = "OPEN"
       /\ txn[w].op = "respond" => txn[w].saw = version[l]
       /\ txn[w].op = "sweep" => opened[l] + OpenFor < now

LInv == LTypeOK /\ LHeld /\ NobodyWaitsInVain

\* The board opens with drafts, and nobody answers.
LEMMA LInit == Init => LInv
BY DEF Init, L!Init, LInv, LTypeOK, LHeld, NobodyWaitsInVain,
   L!NobodyWaitsInVain, L!Waiting, L!Idle, Held, Answer

\* A row is opened by nobody who finds it held.
LEMMA LOpens ==
  ASSUME LInv, NEW l \in Listing, L!Publish(l) \/ L!Reopen(l)
  PROVE  LInv'
<1>1. /\ L!Free(l) /\ state[l] # "OPEN"
      /\ state' = [state EXCEPT ![l] = "OPEN"]
      /\ opened' = [opened EXCEPT ![l] = now]
      /\ UNCHANGED <<now, version, answer, knows, txn>>
  BY DEF L!Publish, L!Reopen, L!Open
<1>2. LTypeOK'
  BY <1>1 DEF LInv, LTypeOK
<1>3. LHeld'
  BY <1>1 DEF LInv, LTypeOK, LHeld, L!Free
<1>4. NobodyWaitsInVain'
  BY <1>1 DEF LInv, LTypeOK, NobodyWaitsInVain, L!NobodyWaitsInVain, L!Waiting
<1> QED
  BY <1>2, <1>3, <1>4 DEF LInv

\* An edit tells whoever waits, and a response that saw the old one holds the
\* row.
LEMMA LEdits ==
  ASSUME LInv, NEW l \in Listing, L!Update(l)
  PROVE  LInv'
<1>1. LTypeOK'
  BY DEF LInv, LTypeOK, L!Update
<1>2. LHeld'
  BY DEF LInv, LTypeOK, LHeld, L!Update, L!Free
<1>3. NobodyWaitsInVain'
  BY DEF LInv, LTypeOK, NobodyWaitsInVain, L!NobodyWaitsInVain, L!Waiting, L!Update
<1> QED
  BY <1>1, <1>2, <1>3 DEF LInv

\* Nobody comes to wait by a withdrawal or a refusal.
LEMMA LLeaves ==
  ASSUME LInv, NEW l \in Listing, NEW u \in User,
         L!Withdraw(l, u) \/ L!Decline(l, u)
  PROVE  LInv'
<1>1. PICK to \in Answer \ {"WAITING"} :
        /\ answer' = [answer EXCEPT ![l][u] = to]
        /\ UNCHANGED <<now, state, opened, version, knows, txn>>
  BY DEF L!Withdraw, L!Decline, Answer
<1>2. LTypeOK' /\ LHeld'
  BY <1>1 DEF LInv, LTypeOK, LHeld
<1>3. NobodyWaitsInVain'
  BY <1>1 DEF LInv, LTypeOK, NobodyWaitsInVain, L!NobodyWaitsInVain, L!Waiting
<1> QED
  BY <1>2, <1>3 DEF LInv

\* A transaction takes rows that are open and that nobody holds.
LEMMA LTakes ==
  ASSUME LInv, NEW w \in Web, txn[w] = L!Idle, NEW t \in Held,
         \A l \in t.on :
           /\ L!Free(l) /\ state[l] = "OPEN"
           /\ t.op = "respond" => t.saw = version[l]
           /\ t.op = "sweep" => opened[l] + OpenFor < now,
         txn' = [txn EXCEPT ![w] = t],
         UNCHANGED <<now, state, opened, version, answer, knows>>
  PROVE  LInv'
<1>1. LTypeOK'
  BY DEF LInv, LTypeOK
<1>2. t.on \subseteq Listing
  BY DEF Held, L!Idle
<1>3. /\ txn'[w] = t
      /\ \A v \in Web \ {w} : txn'[v] = txn[v] /\ txn[v].on \cap t.on = {}
  BY <1>2 DEF LInv, LTypeOK, L!Free
<1>4. LHeld'
  BY <1>3 DEF LInv, LHeld
<1>5. NobodyWaitsInVain'
  BY DEF LInv, NobodyWaitsInVain, L!NobodyWaitsInVain, L!Waiting
<1> QED
  BY <1>1, <1>4, <1>5 DEF LInv

\* A response is written on an open listing its request has locked.
LEMMA LRespondWrite ==
  ASSUME LInv, NEW w \in Web, NEW l \in Listing, L!RespondWrite(w, l)
  PROVE  LInv'
<1> DEFINE u == txn[w].user
<1>1. /\ txn[w].op = "respond" /\ txn[w].on = {l}
      /\ txn' = [txn EXCEPT ![w] = L!Idle]
      /\ UNCHANGED <<now, state, opened, version>>
  BY DEF L!RespondWrite
<1>2. u \in User /\ txn[w].saw \in Nat
  BY <1>1 DEF LInv, LTypeOK, Held, L!Idle
<1>3. \/ /\ answer' = [answer EXCEPT ![l][u] = "WAITING"]
         /\ knows' = [knows EXCEPT ![l][u] = txn[w].saw]
      \/ UNCHANGED <<answer, knows>>
  BY DEF L!RespondWrite
<1> HIDE DEF u
<1>4. LTypeOK'
  <2> DEFINE after == [answer[l] EXCEPT ![u] = "WAITING"]
             stands == [knows[l] EXCEPT ![u] = txn[w].saw]
  <2>1. after \in [User -> Answer] /\ stands \in [User -> Nat]
    BY <1>2 DEF LInv, LTypeOK, Answer
  <2>2. \/ answer' = [answer EXCEPT ![l] = after] /\ knows' = [knows EXCEPT ![l] = stands]
        \/ UNCHANGED <<answer, knows>>
    BY <1>3
  <2> HIDE DEF after, stands
  <2>4. answer' \in [Listing -> [User -> Answer]] /\ knows' \in [Listing -> [User -> Nat]]
    BY <2>1, <2>2 DEF LInv, LTypeOK
  <2>3. txn' \in [Web -> Held]
    BY <1>1 DEF LInv, LTypeOK, Held
  <2> QED
    BY <1>1, <2>3, <2>4 DEF LInv, LTypeOK
<1>5. txn'[w].on = {} /\ \A v \in Web \ {w} : txn'[v] = txn[v]
  BY <1>1 DEF LInv, LTypeOK, L!Idle
<1>6. LHeld'
  BY <1>1, <1>5 DEF LInv, LHeld
<1>7. state[l] = "OPEN" /\ txn[w].saw = version[l]
  BY <1>1 DEF LInv, LHeld
<1>8. NobodyWaitsInVain'
  <2>1. \A k \in Listing, v \in User :
          \/ k = l /\ v = u /\ knows'[k][v] = txn[w].saw
          \/ answer'[k][v] = answer[k][v] /\ knows'[k][v] = knows[k][v]
    BY <1>2, <1>3 DEF LInv, LTypeOK
  <2> QED
    BY <1>1, <1>7, <2>1 DEF LInv, NobodyWaitsInVain, L!NobodyWaitsInVain, L!Waiting
<1> QED
  BY <1>4, <1>6, <1>8 DEF LInv

\* A close dismisses everybody who waits on what it closes.
LEMMA LCloseWrite ==
  ASSUME LInv, NEW w \in Web, L!CloseWrite(w)
  PROVE  LInv'
<1> DEFINE on == txn[w].on
<1>1. /\ answer' = [l \in Listing |-> [u \in User |->
           IF l \in on /\ answer[l][u] = "WAITING" THEN "NOT_CHOSEN"
           ELSE answer[l][u]]]
      /\ state' = [l \in Listing |-> IF l \in on THEN "CLOSED" ELSE state[l]]
      /\ txn' = [txn EXCEPT ![w] = L!Idle]
      /\ UNCHANGED <<now, opened, version, knows>>
  BY DEF L!CloseWrite, L!Waiting
<1>2. on \in SUBSET Listing
  BY DEF LInv, LTypeOK, Held, L!Idle
<1>3. LTypeOK'
  BY <1>1 DEF LInv, LTypeOK, Held, Answer
<1>4. txn'[w].on = {} /\ \A v \in Web \ {w} : txn'[v] = txn[v]
  BY <1>1 DEF LInv, LTypeOK, L!Idle
<1>5. \A v \in Web : txn[v].on \subseteq Listing
  BY DEF LInv, LTypeOK, Held, L!Idle
<1>6. LHeld'
  BY <1>1, <1>4, <1>5 DEF LInv, LHeld
<1>7. NobodyWaitsInVain'
  BY <1>1, <1>2 DEF LInv, LTypeOK, NobodyWaitsInVain, L!NobodyWaitsInVain, L!Waiting
<1> QED
  BY <1>3, <1>6, <1>7 DEF LInv

\* Every step of the listings keeps the invariant; the other parts leave it alone.
LEMMA LNext == LInv /\ [Next]_vars => LInv'
<1> SUFFICES ASSUME LInv, [Next]_vars PROVE LInv'
  OBVIOUS
<1>1. CASE UNCHANGED listings
  BY <1>1 DEF listings, LInv, LTypeOK, LHeld, NobodyWaitsInVain,
     L!NobodyWaitsInVain, L!Waiting
<1>2. ASSUME NEW l \in Listing, L!Respond(l) \/ L!Author(l) PROVE LInv'
  <2>1. ASSUME NEW w \in Web, NEW u \in User, L!RespondRead(w, l, u) PROVE LInv'
    <3> DEFINE t == [op |-> "respond", on |-> {l}, user |-> u, saw |-> version[l]]
    <3>1. t \in Held
      BY DEF Held, LInv, LTypeOK
    <3> QED
      BY <2>1, <3>1, LTakes DEF L!RespondRead
  <2>2. ASSUME NEW w \in Web, L!CloseRead(w, l) PROVE LInv'
    <3> DEFINE t == [op |-> "close", on |-> {l}]
    <3>1. t \in Held
      BY DEF Held
    <3> QED
      BY <2>2, <3>1, LTakes DEF L!CloseRead
  <2> QED
    BY <1>2, <2>1, <2>2, LOpens, LEdits, LLeaves DEF L!Respond, L!Author
<1>3. ASSUME NEW w \in Web, L!Commit(w) PROVE LInv'
  BY <1>3, LRespondWrite, LCloseWrite DEF L!Commit
<1>4. ASSUME NEW w \in Web, L!SweepRead(w) PROVE LInv'
  <2> DEFINE t == [op |-> "sweep", on |-> {l \in Listing : L!Stale(l)}]
  <2>1. t \in Held
    BY DEF Held
  <2> QED
    BY <1>4, <2>1, LTakes DEF L!SweepRead, L!Stale
<1>5. CASE L!Tick
  <2>1. OpenFor \in Nat /\ now \in Nat /\ now' = now + 1
    BY <1>5, BackgroundAssumption DEF L!ListingsAssumption, L!Tick, LInv, LTypeOK
  <2>2. \A w \in Web : txn[w].on \subseteq Listing
    BY DEF LInv, LTypeOK, Held, L!Idle
  <2>3. LTypeOK' /\ NobodyWaitsInVain'
    BY <1>5, <2>1 DEF L!Tick, LInv, LTypeOK, NobodyWaitsInVain, L!NobodyWaitsInVain,
       L!Waiting
  <2>4. \A l \in Listing : opened[l] + OpenFor < now => opened[l] + OpenFor < now'
    BY <2>1 DEF LInv, LTypeOK
  <2>5. LHeld'
    BY <1>5, <2>2, <2>4 DEF L!Tick, LInv, LHeld
  <2> QED
    BY <2>3, <2>5 DEF LInv
<1>6. CASE L!Next
  BY <1>2, <1>3, <1>4, <1>5, <1>6 DEF L!Next, L!Sweep
<1> QED
  BY <1>1, <1>6 DEF Next, vars, InAnnouncements, InSubscriptions, InExport

\* Whoever waits on a listing waits on an open one and knows it as it is
\* (NobodyWaitsInVain), however responses, edits, closes and sweeps cross.
THEOREM NobodyWaitsInVainHolds == Spec => []NobodyWaitsInVain
<1>1. LInv => NobodyWaitsInVain
  BY DEF LInv
<1> QED
  BY <1>1, LInit, LNext, PTL DEF Spec

\* The first half of SweepTakesTheStale: a sweep closes no listing that is not
\* stale when it does, for a listing it holds is not reopened under it.
THEOREM SweepTakesOnlyTheStale ==
  Spec => [][\A w \in Web : txn[w].op = "sweep" /\ txn'[w] = L!Idle =>
               \A l \in txn[w].on : state[l] = "OPEN" => L!Stale(l)]_vars
<1>1. LInv => \A w \in Web : txn[w].op = "sweep" =>
                \A l \in txn[w].on : state[l] = "OPEN" => L!Stale(l)
  BY DEF LInv, LHeld, L!Stale
<1>2. LInv /\ [Next]_vars =>
        [\A w \in Web : txn[w].op = "sweep" /\ txn'[w] = L!Idle =>
           \A l \in txn[w].on : state[l] = "OPEN" => L!Stale(l)]_vars
  BY <1>1
<1> QED
  BY <1>2, LInit, LNext, PTL DEF Spec

-----------------------------------------------------------------------------
\* Announcements: what the workers have claimed.

ATypeOK ==
  /\ notified \subseteq Announcement
  /\ bells \in [Announcement -> [User -> Nat]]
  /\ wants \subseteq Announcement
  /\ due \in [Worker -> Announcement \cup {A!None}]
  /\ claimed \subseteq Worker

\* A claim is one worker's, of an announcement not stamped yet, and nobody
\* has heard of such a one.
AClaims ==
  /\ \A w \in claimed : due[w] # A!None /\ due[w] \notin notified
  /\ \A v, w \in claimed : v # w => due[v] # due[w]
  /\ \A a \in Announcement, u \in User :
       bells[a][u] <= 1 /\ (a \notin notified => bells[a][u] = 0)

AInv == ATypeOK /\ AClaims

\* To begin with nothing is announced.
LEMMA AInit == Init => AInv
BY DEF Init, A!Init, AInv, ATypeOK, AClaims

\* An announcement is given to a worker that has none.
LEMMA ABegins ==
  ASSUME AInv, NEW w \in Worker, NEW a \in Announcement,
         due[w] = A!None, due' = [due EXCEPT ![w] = a], wants' \subseteq wants,
         UNCHANGED <<notified, bells, claimed>>
  PROVE  AInv'
<1>1. ATypeOK'
  BY DEF AInv, ATypeOK
<1>2. \A v \in claimed : v # w /\ due'[v] = due[v]
  BY DEF AInv, ATypeOK, AClaims
<1> QED
  BY <1>1, <1>2 DEF AInv, AClaims

\* The row is free when it is claimed.
LEMMA AClaim ==
  ASSUME AInv, NEW w \in Worker, A!Claim(w)
  PROVE  AInv'
<1>1. ATypeOK'
  BY DEF AInv, ATypeOK, A!Claim
<1>2. CASE claimed' = claimed \cup {w} /\ due' = due
  BY <1>1, <1>2 DEF AInv, AClaims, A!Claim, A!Free
<1>3. CASE due' = [due EXCEPT ![w] = A!None] /\ claimed' = claimed
  <2>1. \A v \in claimed : v # w /\ due'[v] = due[v]
    BY <1>3 DEF AInv, ATypeOK, A!Claim
  <2> QED
    BY <1>1, <1>3, <2>1 DEF AInv, AClaims, A!Claim
<1> QED
  BY <1>2, <1>3 DEF A!Claim

\* Whoever holds the claim is the only one to ring, and stamps it.
LEMMA ARing ==
  ASSUME AInv, NEW w \in Worker, A!Ring(w)
  PROVE  AInv'
<1> DEFINE a == due[w]
           rung == [u \in User |-> IF follows[u] = "on" THEN bells[a][u] + 1
                                   ELSE bells[a][u]]
<1>1. /\ w \in claimed /\ claimed' = claimed \ {w}
      /\ bells' = [bells EXCEPT ![a] = rung]
      /\ notified' = notified \cup {a}
      /\ due' = [due EXCEPT ![w] = A!None] /\ wants' = wants
  BY DEF A!Ring
<1>2. /\ a \in Announcement /\ a \notin notified
      /\ \A u \in User : bells[a][u] = 0
  BY <1>1 DEF AInv, ATypeOK, AClaims
<1>3. rung \in [User -> Nat] /\ \A u \in User : rung[u] <= 1
  BY <1>2
<1>4. \A v \in claimed' : v # w /\ due'[v] = due[v] /\ due[v] # a
  BY <1>1 DEF AInv, ATypeOK, AClaims
<1>5. \A b \in Announcement : bells'[b] = IF b = a THEN rung ELSE bells[b]
  BY <1>1 DEF AInv, ATypeOK
<1> HIDE DEF rung, a
<1>6. ATypeOK'
  BY <1>1, <1>2, <1>3 DEF AInv, ATypeOK
<1>7. AClaims'
  BY <1>1, <1>3, <1>4, <1>5 DEF AInv, AClaims
<1> QED
  BY <1>6, <1>7 DEF AInv

\* Every step of the announcements keeps the invariant.
LEMMA ANext == AInv /\ [Next]_vars => AInv'
<1> SUFFICES ASSUME AInv, [Next]_vars PROVE AInv'
  OBVIOUS
<1>1. CASE UNCHANGED <<notified, bells, wants, due, claimed>>
  BY <1>1 DEF AInv, ATypeOK, AClaims
<1>2. ASSUME NEW a \in Announcement, A!Organizer(a) PROVE AInv'
  <2>1. wants' \in SUBSET Announcement /\ UNCHANGED <<notified, bells, due, claimed>>
    BY <1>2 DEF AInv, ATypeOK, A!Organizer, A!Create, A!Update, A!Delete, A!Asked
  <2> QED
    BY <2>1 DEF AInv, ATypeOK, AClaims
<1>3. ASSUME NEW w \in Worker, NEW a \in Announcement, A!Sweep(w, a) \/ A!Begin(w, a)
      PROVE AInv'
  BY <1>3, ABegins DEF A!Sweep, A!Begin
<1>4. ASSUME NEW w \in Worker, A!Run(w) PROVE AInv'
  BY <1>4, AClaim, ARing DEF A!Run
<1>5. CASE A!Crash
  BY <1>5 DEF A!Crash, AInv, ATypeOK, AClaims
<1>6. ASSUME NEW u \in User, A!Reader(u)
      PROVE UNCHANGED <<notified, bells, wants, due, claimed>>
  BY <1>6 DEF A!Reader, A!Visit, A!SetMuted
<1>7. CASE A!Next
  BY <1>1, <1>2, <1>3, <1>4, <1>5, <1>6, <1>7 DEF A!Next, A!SweepTick
<1>8. CASE UNCHANGED announcements
  BY <1>1, <1>8 DEF announcements
<1> QED
  BY <1>7, <1>8 DEF Next, vars, InListings, InSubscriptions, InExport

\* The first half of AnnouncedOnce: "never twice", however many workers race
\* for an announcement and whatever crashes.
THEOREM NeverAnnouncedTwice ==
  Spec => [](\A a \in Announcement, u \in User : bells[a][u] <= 1)
<1>1. AInv => \A a \in Announcement, u \in User : bells[a][u] <= 1
  BY DEF AInv, AClaims
<1> QED
  BY <1>1, AInit, ANext, PTL DEF Spec

-----------------------------------------------------------------------------
\* Subscriptions: which were given up, and who is about to write one.

STypeOK ==
  /\ subs \in [Subscriber -> Nat] /\ made \in [Subscriber -> Nat]
  /\ band \in [Subscriber -> Band]
  /\ asking \subseteq Subscriber
  /\ outbox \subseteq Subscriber \X Nat /\ left \subseteq Subscriber \X Nat

\* A subscription that was given up is never anybody's again, for a later one
\* is made with a new key; and an age does not change under a subscription that
\* is being written.
SConsent ==
  /\ \A u \in Subscriber : subs[u] <= made[u]
  /\ \A m \in left : m[2] # 0 /\ m[2] <= made[m[1]] /\ m[2] # subs[m[1]]
  /\ \A u \in asking : band[u] = S!SixteenPlus

SInv == STypeOK /\ SConsent /\ S!OfAge

\* To begin with everybody's subscription is from before the age bands.
LEMMA SInit == Init => SInv
BY BackgroundAssumption DEF Init, S!Init, SInv, STypeOK, SConsent, S!OfAge,
   S!SubscriptionsAssumption, S!SixteenPlus, S!Unknown

\* A new subscription gets a number of its own, given in the band of now.
LEMMA SSubscribeWrite ==
  ASSUME SInv, NEW u \in Subscriber, S!SubscribeWrite(u)
  PROVE  SInv'
<1>1. /\ u \in asking /\ asking' = asking \ {u}
      /\ UNCHANGED <<band, outbox, left>>
  BY DEF S!SubscribeWrite
<1>2. CASE subs[u] = 0
  <2>1. made' = [made EXCEPT ![u] = made[u] + 1] /\ subs' = [subs EXCEPT ![u] = made'[u]]
    BY <1>2 DEF S!SubscribeWrite
  <2>2. /\ made'[u] = made[u] + 1 /\ subs'[u] = made[u] + 1 /\ made[u] \in Nat
        /\ \A v \in Subscriber \ {u} : made'[v] = made[v] /\ subs'[v] = subs[v]
    BY <2>1 DEF SInv, STypeOK
  <2>3. STypeOK'
    BY <1>1, <2>1, <2>2 DEF SInv, STypeOK
  <2>4. \A m \in left : m[1] \in Subscriber /\ m[2] \in Nat
    BY DEF SInv, STypeOK
  <2>5. SConsent'
    BY <1>1, <2>2, <2>4 DEF SInv, SConsent
  <2>6. S!OfAge'
    BY <1>1, <2>2 DEF SInv, SConsent, S!OfAge
  <2> QED
    BY <2>3, <2>5, <2>6 DEF SInv
<1>3. CASE UNCHANGED <<made, subs>>
  BY <1>1, <1>3 DEF SInv, STypeOK, SConsent, S!OfAge
<1> QED
  BY <1>2, <1>3 DEF S!SubscribeWrite

\* Who gives a subscription up is subscribed no more.
LEMMA SLeaves ==
  ASSUME SInv, NEW u \in Subscriber, S!Leave(u), NEW b \in Band,
         band' = [band EXCEPT ![u] = b], u \in asking => b = band[u],
         UNCHANGED <<made, asking, outbox>>
  PROVE  SInv'
<1>1. /\ subs'[u] = 0 /\ \A v \in Subscriber \ {u} : subs'[v] = subs[v]
      /\ \A v \in Subscriber \ {u} : band'[v] = band[v]
      /\ band'[u] = b /\ subs[u] \in Nat /\ made[u] \in Nat
  BY DEF S!Leave, SInv, STypeOK
<1>2. STypeOK'
  BY <1>1 DEF S!Leave, SInv, STypeOK
<1>3. \A m \in left' : m \in left \/ (m[1] = u /\ m[2] = subs[u] /\ m[2] # 0)
  BY DEF S!Leave
<1>4. \A m \in left : m[1] \in Subscriber
  BY DEF SInv, STypeOK
<1>5. SConsent'
  BY <1>1, <1>3, <1>4 DEF SInv, STypeOK, SConsent
<1>6. S!OfAge'
  BY <1>1 DEF SInv, S!OfAge
<1> QED
  BY <1>2, <1>5, <1>6 DEF SInv

\* What a follower does on their own.
LEMMA SFollower ==
  ASSUME SInv, NEW u \in Subscriber, S!Follower(u)
  PROVE  SInv'
<1>1. CASE S!SubscribeRead(u)
  BY <1>1 DEF S!SubscribeRead, SInv, STypeOK, SConsent, S!OfAge
<1>2. CASE S!Unsubscribe(u)
  <2>1. band' = [band EXCEPT ![u] = band[u]] /\ band[u] \in Band
    BY <1>2 DEF S!Unsubscribe, SInv, STypeOK
  <2> QED
    BY <1>2, <2>1, SLeaves DEF S!Unsubscribe
<1>3. ASSUME NEW b \in Band, S!SetAgeBand(u, b) PROVE SInv'
  <2>1. CASE band[u] = S!SixteenPlus /\ b = S!SixteenPlus
    <3>1. band' = band /\ UNCHANGED <<subs, left, made, asking, outbox>>
      BY <1>3, <2>1 DEF S!SetAgeBand, SInv, STypeOK
    <3> QED
      BY <3>1 DEF SInv, STypeOK, SConsent, S!OfAge
  <2>2. CASE ~(band[u] = S!SixteenPlus /\ b = S!SixteenPlus)
    BY <1>3, <2>2, SLeaves DEF S!SetAgeBand, S!Unlocked
  <2> QED
    BY <2>1, <2>2
<1> QED
  BY <1>1, <1>2, <1>3, SSubscribeWrite DEF S!Follower

\* Every step of the subscriptions keeps the invariant.
LEMMA SNext == SInv /\ [Next]_vars => SInv'
<1> SUFFICES ASSUME SInv, [Next]_vars PROVE SInv'
  OBVIOUS
<1>1. ASSUME UNCHANGED <<subs, made, band, left>>, asking' \subseteq asking,
             outbox' \in SUBSET (Subscriber \X Nat)
      PROVE SInv'
  BY <1>1 DEF SInv, STypeOK, SConsent, S!OfAge
<1>2. ASSUME NEW e \in Event, S!Publish(e) PROVE SInv'
  BY <1>1, <1>2 DEF S!Publish, SInv, STypeOK
<1>3. ASSUME NEW s \in Sweeper, S!SweepList(s) PROVE SInv'
  BY <1>1, <1>3 DEF S!SweepList, SInv, STypeOK
<1>4. ASSUME NEW s \in Sweeper, NEW e \in Event, S!SweepEvent(s, e) PROVE SInv'
  <2> DEFINE told == {u \in Subscriber : subs[u] # 0 /\ band[u] = S!SixteenPlus}
  <2>1. outbox' = outbox \cup {<<u, subs[u]>> : u \in told}
    BY <1>4 DEF S!SweepEvent
  <2>2. outbox' \in SUBSET (Subscriber \X Nat)
    BY <2>1 DEF SInv, STypeOK
  <2> QED
    BY <1>1, <1>4, <2>2 DEF S!SweepEvent
<1>5. ASSUME NEW m, S!Authorize(m) \/ S!Send(m) PROVE SInv'
  BY <1>1, <1>5 DEF S!Authorize, S!Send, SInv, STypeOK
<1>6. CASE S!Crash
  BY <1>1, <1>6 DEF S!Crash, SInv, STypeOK
<1>7. CASE S!Next
  BY <1>2, <1>3, <1>4, <1>5, <1>6, <1>7, SFollower DEF S!Next
<1>8. CASE UNCHANGED subscriptions
  BY <1>1, <1>8 DEF subscriptions, SInv, STypeOK
<1> QED
  BY <1>7, <1>8 DEF Next, vars, InListings, InAnnouncements, InExport

\* Mail is authorised by a subscription that is there, and only what was
\* authorised is sent: so what is given up and not on its way stays unsent.
LEMMA SMailed ==
  ASSUME SInv, [Next]_vars, NEW m \in left \ sending
  PROVE  m \notin sending' /\ (m \in mailed' => m \in mailed)
<1>1. m[2] # subs[m[1]]
  BY DEF SInv, SConsent
<1>2. ASSUME NEW k \in outbox, S!Authorize(k)
      PROVE  m \notin sending' /\ mailed' = mailed
  BY <1>1, <1>2 DEF S!Authorize, S!Authorized
<1>3. ASSUME NEW k \in sending, S!Send(k)
      PROVE  m \notin sending' /\ (m \in mailed' => m \in mailed)
  BY <1>3 DEF S!Send
<1>4. ASSUME NEW u \in Subscriber, S!Follower(u)
      PROVE  UNCHANGED <<sending, mailed>>
  BY <1>4 DEF S!Follower, S!SubscribeRead, S!SubscribeWrite, S!Unsubscribe, S!SetAgeBand
<1>5. CASE S!Crash
  BY <1>5 DEF S!Crash
<1>6. CASE S!Next
  BY <1>2, <1>3, <1>4, <1>5, <1>6 DEF S!Next, S!Publish, S!SweepList, S!SweepEvent
<1>7. CASE UNCHANGED subscriptions
  BY <1>7 DEF subscriptions
<1> QED
  BY <1>6, <1>7 DEF Next, vars, InListings, InAnnouncements, InExport

\* Nobody is subscribed under an age that does not allow it, and no mail is
\* authorised by a consent that is gone or sent without being authorised
\* (ConsentHolds), however a subscription, a change of age, a sweep and its mail
\* cross.
THEOREM ConsentHoldsAlways == Spec => ConsentHolds
<1>1. SInv => S!OfAge
  BY DEF SInv
<1>2. SInv /\ [Next]_vars =>
        [\A m \in left \ sending :
           m \notin sending' /\ (m \in mailed' => m \in mailed)]_S!vars
  BY SMailed
<1> QED
  BY <1>1, <1>2, SInit, SNext, PTL DEF Spec, ConsentHolds, S!ConsentHolds

-----------------------------------------------------------------------------
\* The export: who holds the lock.

XTypeOK ==
  /\ lock \in 0 .. Timeout \cup {NoLock}
  /\ at \in [Runner -> {"idle", "claimed", "built", "written"}]
  /\ lapsed \subseteq X!Running

\* One run at most holds the lock, and while it does nobody may claim it.
XAlone ==
  /\ \A q, r \in X!Running \ lapsed : q = r
  /\ X!Running \ lapsed # {} => ~X!Claimable

XInv == XTypeOK /\ XAlone

\* To begin with nothing runs.
LEMMA XInit == Init => XInv
BY DEF Init, X!Init, XInv, XTypeOK, XAlone, X!Running

\* Every step of the export keeps the invariant.
LEMMA XNext == XInv /\ [Next]_vars => XInv'
<1> SUFFICES ASSUME XInv, [Next]_vars PROVE XInv'
  OBVIOUS
<1> USE DEF X!Running
<1>0. Timeout \in Nat \ {0} /\ NoLock \notin Nat
  BY BackgroundAssumption DEF X!ExportLockAssumption
<1>1. ASSUME NEW r \in Runner, X!Claim(r) PROVE XInv'
  <2>1. X!Running \subseteq lapsed
    BY <1>1 DEF X!Claim, XInv, XAlone
  <2>2. X!Running' = X!Running \cup {r}
    BY <1>1 DEF X!Claim, XInv, XTypeOK
  <2>3. XTypeOK'
    BY <1>0, <1>1 DEF X!Claim, XInv, XTypeOK
  <2>4. XAlone'
    BY <1>0, <1>1, <2>1, <2>2 DEF X!Claim, X!Claimable, XAlone
  <2> QED
    BY <2>3, <2>4 DEF XInv
<1>2. ASSUME NEW r \in Runner, X!Build(r) \/ X!WriteSheet(r) PROVE XInv'
  <2>1. X!Running' = X!Running
    BY <1>2 DEF X!Build, X!WriteSheet, XInv, XTypeOK
  <2>2. XTypeOK' /\ UNCHANGED <<lock, lapsed>>
    BY <1>2, <2>1 DEF X!Build, X!WriteSheet, XInv, XTypeOK
  <2> QED
    BY <2>1, <2>2 DEF XInv, XAlone, X!Claimable
<1>3. ASSUME NEW r \in Runner, X!Finish(r) PROVE XInv'
  <2>1. X!Running' = X!Running \ {r}
    BY <1>3 DEF X!Finish, XInv, XTypeOK
  <2>2. XTypeOK'
    BY <1>3, <2>1 DEF X!Finish, XInv, XTypeOK
  <2>3. X!Running' \subseteq lapsed'
    BY <1>3, <2>1 DEF X!Finish, XInv, XAlone
  <2> QED
    BY <2>2, <2>3 DEF XInv, XAlone
<1>4. ASSUME NEW r \in Runner, X!Kill(r) PROVE XInv'
  <2>1. X!Running' = X!Running \ {r}
    BY <1>4 DEF X!Kill, XInv, XTypeOK
  <2>2. XTypeOK' /\ lapsed' = lapsed \ {r} /\ lock' = lock
    BY <1>4, <2>1 DEF X!Kill, XInv, XTypeOK
  <2> QED
    BY <2>1, <2>2 DEF XInv, XAlone, X!Claimable
<1>5. CASE X!SaveSettings
  BY <1>5 DEF X!SaveSettings, XInv, XTypeOK, XAlone
<1>6. CASE X!Grow
  <2>1. lock \in 0 .. Timeout - 1 /\ lock' = lock + 1 /\ X!Running' = X!Running
    BY <1>6 DEF X!Grow
  <2>2. lock' \in 0 .. Timeout
    BY <1>0, <2>1
  <2>3. CASE lock' = Timeout
    BY <1>6, <2>1, <2>2, <2>3 DEF X!Grow, XInv, XTypeOK, XAlone
  <2>4. CASE lock' # Timeout
    <3>1. ~X!Claimable'
      BY <1>0, <2>2, <2>4 DEF X!Claimable
    <3> QED
      BY <1>6, <2>1, <2>2, <2>4, <3>1 DEF X!Grow, XInv, XTypeOK, XAlone
  <2> QED
    BY <2>3, <2>4
<1>7. CASE UNCHANGED <<lock, at, lapsed>>
  BY <1>7 DEF XInv, XTypeOK, XAlone, X!Claimable
<1>8. CASE X!Next
  BY <1>1, <1>2, <1>3, <1>4, <1>5, <1>6, <1>7, <1>8 DEF X!Next, X!Step, X!Edit
<1>9. CASE UNCHANGED export
  BY <1>7, <1>9 DEF export
<1> QED
  BY <1>8, <1>9 DEF Next, vars, InListings, InAnnouncements, InSubscriptions

\* The first half of ExportKeepsUp: of the exports that run, all but one have
\* lost their lock.
THEOREM OneExportHoldsTheLock == Spec => [](Cardinality(X!Running \ lapsed) <= 1)
<1>1. ASSUME XInv PROVE Cardinality(X!Running \ lapsed) <= 1
  <2> DEFINE mine == X!Running \ lapsed
  <2>1. mine = {} \/ \E r \in mine : mine = {r}
    BY <1>1 DEF XInv, XAlone
  <2> HIDE DEF mine
  <2>2. CASE mine = {}
    <3>1. Cardinality(mine) = 0
      BY <2>2, FS_EmptySet
    <3> QED
      BY <3>1 DEF mine
  <2>3. ASSUME NEW r, mine = {r} PROVE Cardinality(mine) = 1
    BY <2>3, FS_Singleton
  <2> QED
    BY <2>1, <2>2, <2>3 DEF mine
<1> QED
  BY <1>1, XInit, XNext, PTL DEF Spec
=============================================================================

---------------------------- MODULE RequestsProofs ----------------------------
(***************************************************************************)
(* What requests do to each other, for any number of people and requests:  *)
(* encounters, the addresses of accounts, parties and companions, the      *)
(* hours of an event, and the order of row locks.                          *)
(*                                                                         *)
(* The parts share no variable, so each has an inductive invariant of its  *)
(* own: a step of another part leaves it alone.                            *)
(***************************************************************************)
EXTENDS Requests, TLAPS, FiniteSetTheorems, SequenceTheorems

\* The parts count as this module does.
LEMMA ESets ==
  \A D : E!Cardinality(D) = Cardinality(D) /\ (E!IsFiniteSet(D) <=> IsFiniteSet(D))
BY DEF E!Cardinality, Cardinality, E!IsFiniteSet, IsFiniteSet

-----------------------------------------------------------------------------
\* Encounters: the guests, who is about to become one, and what a calendar
\* shows.

Reply == {"none", "INVITED", "ACCEPTED", "DECLINED", "REMOVED"}

Coming == {E!Idle} \cup [op : {"rsvp", "reply"}, e : Email, user : BOOLEAN]

Saving ==
  {E!Idle} \cup [op : {"save", "delete"}, want : SUBSET Email,
                 invite : [Email -> Reply], rsvp : SUBSET Email]

ETypeOK ==
  /\ up \in BOOLEAN
  /\ limit \in Nat \ {0} /\ most \in Nat /\ limit <= most
  /\ account \subseteq Email /\ rsvp \subseteq Email
  /\ invite \in [Email -> Reply]
  /\ entry \subseteq Email
  /\ join \in [Admission -> Coming]
  /\ save \in Saving

\* An encounter that is not there has no guests and is not being saved.
EDown ==
  ~up => rsvp = {} /\ (\A e \in Email : invite[e] = "none") /\ save = E!Idle

\* Whoever has a spot, and whoever is about to get one.
Arriving == {join[w].e : w \in {v \in Admission : join[v] # E!Idle}}
Expected == E!Taken \cup Arriving

\* An admission found room at a time when nobody's spot but its own was to be
\* counted.
ERoom ==
  /\ IsFiniteSet(Expected)
  /\ Cardinality(Expected) <= most + Cardinality(Admission) - 1

EInv == ETypeOK /\ EDown /\ ERoom /\ NoStaleEntry

\* Those on their way are no more than the admissions in flight.
LEMMA EArriving ==
  ASSUME NEW j
  PROVE  LET some == {j[w].e : w \in {v \in Admission : j[v] # E!Idle}} IN
         /\ Cardinality(Admission) \in Nat /\ Cardinality(some) \in Nat
         /\ IsFiniteSet(some) /\ Cardinality(some) <= Cardinality(Admission)
<1> DEFINE busy == {v \in Admission : j[v] # E!Idle}
           some == {j[w].e : w \in busy}
           f == [w \in busy |-> j[w].e]
<1>1. IsFiniteSet(Admission)
  BY RequestsAssumption, ESets DEF E!EncountersAssumption
<1>2. IsFiniteSet(busy) /\ Cardinality(busy) <= Cardinality(Admission)
  BY <1>1, FS_Subset
<1>3. f \in Surjection(busy, some)
  BY DEF Surjection
<1>4. IsFiniteSet(some) /\ Cardinality(some) <= Cardinality(busy)
  BY <1>2, <1>3, FS_Surjection
<1>5. /\ Cardinality(Admission) \in Nat /\ Cardinality(busy) \in Nat
      /\ Cardinality(some) \in Nat
  BY <1>1, <1>2, <1>4, FS_CardinalityType
<1> QED
  BY <1>2, <1>4, <1>5

\* A step that lets nobody else in.
LEMMA EFewer ==
  ASSUME ETypeOK, ERoom, Expected' \subseteq Expected, most' \in Nat, most <= most'
  PROVE  ERoom'
<1>1. /\ IsFiniteSet(Expected') /\ Cardinality(Expected') <= Cardinality(Expected)
      /\ Cardinality(Expected') \in Nat /\ Cardinality(Expected) \in Nat
  BY FS_Subset, FS_CardinalityType DEF ERoom
<1>2. Cardinality(Admission) \in Nat
  BY EArriving
<1> QED
  BY <1>1, <1>2 DEF ERoom, ETypeOK

\* Whoever is on their way, there is room for them while a spot is free.
LEMMA EMoreArrive ==
  ASSUME ETypeOK', IsFiniteSet(E!Taken)', Cardinality(E!Taken)' < most'
  PROVE  ERoom'
<1> DEFINE taken == E!Taken'
           some == Arriving'
<1>1. /\ IsFiniteSet(some) /\ Cardinality(some) <= Cardinality(Admission)
      /\ Cardinality(Admission) \in Nat /\ Cardinality(some) \in Nat
  BY EArriving DEF Arriving
<1>2. Cardinality(taken) \in Nat
  BY FS_CardinalityType
<1>3. Expected' = taken \cup some
  BY DEF Expected
<1> HIDE DEF taken, some
<1>4. IsFiniteSet(taken) /\ Cardinality(taken) < most' /\ most' \in Nat
  BY DEF taken, ETypeOK
<1>5. /\ IsFiniteSet(taken \cup some) /\ Cardinality(taken \cap some) \in Nat
      /\ Cardinality(taken \cup some) =
           Cardinality(taken) + Cardinality(some) - Cardinality(taken \cap some)
  BY <1>1, <1>4, FS_Union, FS_Intersection, FS_CardinalityType
<1>6. Cardinality(taken \cup some) <= most' + Cardinality(Admission) - 1
  BY <1>1, <1>2, <1>4, <1>5 DEF taken
<1> QED
  BY <1>3, <1>5, <1>6 DEF ERoom

\* To begin with there is no encounter.
LEMMA EInit == Init => EInv
<1> SUFFICES ASSUME Init PROVE EInv
  OBVIOUS
<1>0. E!Init
  BY DEF Init
<1> USE <1>0 DEF E!Init
<1>1. limit \in Nat \ {0}
  BY RequestsAssumption DEF E!EncountersAssumption
<1>2. limit <= most /\ most = limit
  BY <1>1
<1>9. ETypeOK /\ EDown
  BY <1>1, <1>2 DEF ETypeOK, EDown, Reply, Coming, Saving
<1>3. E!Taken = {}
  BY DEF E!Taken
<1>4. IsFiniteSet(E!Taken) /\ Cardinality(E!Taken) = 0
  BY <1>3, FS_EmptySet
<1>5. Expected = {}
  BY <1>3 DEF Expected, Arriving
<1>6. IsFiniteSet(Expected) /\ Cardinality(Expected) = 0
  BY <1>5, FS_EmptySet
<1>7. ERoom
  <2>1. Cardinality(Admission) \in Nat
    BY EArriving
  <2>2. 0 <= most + Cardinality(Admission) - 1
    BY <1>1, <1>2, <2>1
  <2> QED
    BY <1>6, <2>2 DEF ERoom
<1>8. NoStaleEntry
  BY DEF NoStaleEntry, E!NoStaleEntry
<1> QED
  BY <1>7, <1>8, <1>9 DEF EInv

\* An admission begins with room for one more, or with a spot it has already.
LEMMA EBegins ==
  ASSUME EInv, NEW w \in Admission, NEW e \in Email, NEW op \in {"rsvp", "reply"},
         NEW user \in BOOLEAN, up, join[w] = E!Idle, E!HasRoom(e),
         join' = [join EXCEPT ![w] = [op |-> op, e |-> e, user |-> user]],
         UNCHANGED <<up, limit, most, account, rsvp, invite, entry, missed, save>>
  PROVE  EInv'
<1> DEFINE new == [op |-> op, e |-> e, user |-> user]
<1>1. new \in Coming /\ new.e = e
  BY DEF Coming
<1>2. ETypeOK'
  BY <1>1 DEF EInv, ETypeOK
<1>3. EDown' /\ NoStaleEntry'
  BY DEF EInv, EDown, NoStaleEntry, E!NoStaleEntry, E!Guests
<1>4. E!Taken' = E!Taken
  BY DEF E!Taken
<1>5. CASE invite[e] = "ACCEPTED"
  <2>1. e \in E!Taken
    BY <1>5 DEF E!Taken
  <2>2. \A v \in Admission : join'[v] = IF v = w THEN new ELSE join[v]
    BY DEF EInv, ETypeOK
  <2> HIDE DEF new
  <2>3. Expected' \subseteq Expected
    BY <1>1, <1>4, <2>1, <2>2 DEF Expected, Arriving
  <2> QED
    BY <1>2, <1>3, <2>3, EFewer DEF EInv, ETypeOK
<1>6. CASE Cardinality(E!Taken) < limit
  <2>1. IsFiniteSet(E!Taken)
    BY FS_Subset DEF EInv, ERoom, Expected
  <2>2. Cardinality(E!Taken) \in Nat
    BY <2>1, FS_CardinalityType
  <2>3. Cardinality(E!Taken) < most
    BY <1>6, <2>2 DEF EInv, ETypeOK
  <2>4. IsFiniteSet(E!Taken)' /\ Cardinality(E!Taken)' < most'
    BY <1>4, <2>1, <2>3
  <2> QED
    BY <1>2, <1>3, <2>4, EMoreArrive DEF EInv
<1> QED
  BY <1>5, <1>6, ESets DEF E!HasRoom

\* Guests change one by one, and with them what their calendar shows.
LEMMA EAdmit ==
  ASSUME EInv, NEW w \in Admission, E!Admit(w)
  PROVE  EInv'
<1> DEFINE e == join[w].e
<1>1. /\ join[w] # E!Idle /\ join' = [join EXCEPT ![w] = E!Idle]
      /\ UNCHANGED <<up, limit, most, account, missed, save>>
  BY DEF E!Admit
<1>2. e \in Email /\ join[w].user \in BOOLEAN
  BY <1>1 DEF EInv, ETypeOK, Coming
<1>3. Arriving' \subseteq Arriving /\ e \in Arriving
  BY <1>1 DEF Arriving, EInv, ETypeOK
<1>4. CASE UNCHANGED <<rsvp, invite, entry>>
  <2>1. ETypeOK' /\ EDown' /\ NoStaleEntry'
    BY <1>1, <1>4 DEF EInv, ETypeOK, Coming, EDown, NoStaleEntry, E!NoStaleEntry,
       E!Guests
  <2>2. Expected' \subseteq Expected
    BY <1>3, <1>4 DEF Expected, E!Taken
  <2> QED
    BY <1>1, <2>1, <2>2, EFewer DEF EInv, ETypeOK
<1>5. CASE /\ ~(join[w].user /\ (e \in rsvp \/ ~up))
           /\ rsvp' = IF join[w].user THEN rsvp \cup {e} ELSE rsvp
           /\ invite' = E!SetStatus(e, "ACCEPTED")
           /\ entry' = IF join[w].user \/ invite'[e] = "ACCEPTED"
                         THEN entry \cup {e} ELSE entry
  <2> HIDE DEF e
  <2>1. /\ \A d \in Email \ {e} : invite'[d] = invite[d]
        /\ invite[e] \in {"none", "REMOVED"} => invite'[e] = invite[e]
        /\ invite[e] \notin {"none", "REMOVED"} => invite'[e] = "ACCEPTED"
        /\ invite' \in [Email -> Reply]
    BY <1>2, <1>5 DEF EInv, ETypeOK, E!SetStatus, Reply
  <2>2. ETypeOK'
    BY <1>1, <1>2, <1>5, <2>1 DEF EInv, ETypeOK, Coming
  <2>3. EDown'
    BY <1>1, <1>5, <2>1 DEF EInv, EDown
  <2>4. Expected' \subseteq Expected
    BY <1>2, <1>3, <1>5, <2>1 DEF Expected, E!Taken
  <2>5. NoStaleEntry'
    BY <1>1, <1>2, <1>5, <2>1 DEF EInv, ETypeOK, NoStaleEntry, E!NoStaleEntry,
       E!Guests
  <2> QED
    BY <1>1, <2>2, <2>3, <2>4, <2>5, EFewer DEF EInv, ETypeOK
<1> QED
  BY <1>4, <1>5 DEF E!Admit

\* Whoever lets go of a spot loses their calendar entry with it.
LEMMA ERelease ==
  ASSUME EInv, NEW e \in Email, E!Release(e)
  PROVE  EInv'
<1>1. /\ up /\ rsvp' = rsvp \ {e} /\ entry' = entry \ {e}
      /\ UNCHANGED <<up, limit, most, account, missed, join, save>>
  BY DEF E!Release
<1>2. /\ invite' \in [Email -> Reply] /\ invite'[e] # "ACCEPTED"
      /\ \A d \in Email \ {e} : invite'[d] = invite[d]
  BY DEF EInv, ETypeOK, E!Release, E!SetStatus, Reply
<1>3. ETypeOK' /\ EDown'
  BY <1>1, <1>2 DEF EInv, ETypeOK, EDown
<1>4. Expected' \subseteq Expected
  BY <1>1, <1>2 DEF Expected, E!Taken, Arriving
<1>5. NoStaleEntry'
  BY <1>1, <1>2 DEF EInv, ETypeOK, NoStaleEntry, E!NoStaleEntry, E!Guests
<1> QED
  BY <1>1, <1>3, <1>4, <1>5, EFewer DEF EInv, ETypeOK

\* A new encounter begins without guests, whoever was at the one before.
LEMMA ECreate ==
  ASSUME EInv, NEW A \in SUBSET Email, NEW l \in Limits, E!Create(A, l)
  PROVE  EInv'
<1>1. /\ ~up /\ up' = TRUE /\ limit' = l /\ most' = l
      /\ entry' = entry \cup A
      /\ UNCHANGED <<account, rsvp, missed, join, save>>
      /\ rsvp = {} /\ \A e \in Email : invite[e] = "none"
  BY DEF E!Create, EInv, EDown
<1>2. invite' = [e \in Email |-> IF e \in A THEN "INVITED" ELSE "none"]
  BY <1>1 DEF E!Create, E!Added
<1>3. l \in Nat \ {0}
  BY RequestsAssumption DEF E!EncountersAssumption
<1>4. ETypeOK' /\ EDown'
  BY <1>1, <1>2, <1>3 DEF EInv, ETypeOK, EDown, Reply
<1>5. E!Taken' = {}
  BY <1>1, <1>2 DEF E!Taken
<1>6. IsFiniteSet(E!Taken)' /\ Cardinality(E!Taken)' = 0
  BY <1>5, FS_EmptySet
<1>7. ERoom'
  BY <1>1, <1>3, <1>4, <1>6, EMoreArrive
<1>8. NoStaleEntry'
  BY <1>1, <1>2 DEF EInv, ETypeOK, NoStaleEntry, E!NoStaleEntry, E!Guests
<1> QED
  BY <1>4, <1>7, <1>8 DEF EInv

\* What a save takes off the list nobody's calendar keeps, unless they changed
\* while it was under way.
LEMMA ESaveWrite ==
  ASSUME EInv, NEW l \in Limits, NEW changed \in BOOLEAN, E!SaveWrite(l, changed)
  PROVE  EInv'
<1> DEFINE new == save.want \ E!Listed(save.invite)
           gone == E!Listed(save.invite) \ save.want
           still == [e \in Email |->
                       IF e \in gone /\ invite[e] \notin {"none", "DECLINED"}
                         THEN "REMOVED" ELSE invite[e]]
           told == E!Guests(E!Added(still, new), rsvp)
<1>1. /\ save.op = "save" /\ invite' = E!Added(still, new)
      /\ entry' = (entry \ E!Dropped(save))
                    \cup (IF changed THEN told ELSE told \cap new)
      /\ missed' = missed \cup E!ChangedSince(save)
      /\ limit' = l /\ most' = IF l > most THEN l ELSE most
      /\ save' = E!Idle /\ UNCHANGED <<up, account, rsvp, join>>
  BY DEF E!SaveWrite
<1>2. /\ save.invite \in [Email -> Reply]
      /\ save.rsvp \in SUBSET Email /\ save.want \in SUBSET Email
  BY <1>1 DEF EInv, ETypeOK, Saving, E!Idle
<1>3. l \in Nat \ {0}
  BY RequestsAssumption DEF E!EncountersAssumption
<1>4. \A e \in Email :
        /\ invite'[e] = IF e \in new /\ still[e] \in {"none", "REMOVED"}
                          THEN "INVITED" ELSE still[e]
        /\ still[e] = IF e \in gone /\ invite[e] \notin {"none", "DECLINED"}
                        THEN "REMOVED" ELSE invite[e]
  BY <1>1 DEF E!Added
<1>5. \A e \in Email : e \in gone <=> save.invite[e] \notin {"none", "REMOVED"} /\ e \notin save.want
  BY DEF E!Listed
<1>6. invite' \in [Email -> Reply]
  BY <1>1 DEF E!Added, EInv, ETypeOK, Reply
<1>7. told \subseteq Email /\ told = E!Guests(invite', rsvp')
  BY <1>1 DEF E!Guests, EInv, ETypeOK
<1> HIDE DEF told, still, gone
<1>8. /\ limit' \in Nat \ {0} /\ most' \in Nat /\ limit' <= most' /\ most <= most'
  BY <1>1, <1>3 DEF EInv, ETypeOK
<1>9. ETypeOK'
  BY <1>1, <1>6, <1>7, <1>8 DEF EInv, ETypeOK, Saving
<1>10. EDown'
  BY <1>1 DEF EInv, EDown, E!Idle
<1>11. Expected' \subseteq Expected
  BY <1>1, <1>4 DEF Expected, E!Taken, Arriving
<1>12. NoStaleEntry'
  <2> SUFFICES ASSUME NEW e \in entry' \ missed' PROVE e \in E!Guests(invite', rsvp')
    BY DEF NoStaleEntry, E!NoStaleEntry
  <2>1. CASE e \in told
    BY <1>7, <2>1
  <2>2. CASE e \in entry \ E!Dropped(save)
    <3>1. e \in Email /\ invite[e] = save.invite[e] /\ (e \in rsvp <=> e \in save.rsvp)
      BY <1>1, <2>2 DEF E!ChangedSince, EInv, ETypeOK
    <3>2. e \in rsvp \/ invite[e] \in {"INVITED", "ACCEPTED"}
      BY <1>1, <2>2 DEF EInv, NoStaleEntry, E!NoStaleEntry, E!Guests
    <3>3. CASE e \notin rsvp
      <4>1. e \notin gone
        BY <1>5, <2>2, <3>1, <3>2, <3>3 DEF E!Dropped, E!Listed
      <4> QED
        BY <1>4, <3>1, <3>2, <3>3, <4>1 DEF E!Guests
    <3> QED
      BY <1>1, <3>3 DEF E!Guests
  <2> QED
    BY <1>1, <2>1, <2>2
<1> QED
  BY <1>8, <1>9, <1>10, <1>11, <1>12, EFewer DEF EInv

\* A deletion tells the guests it read, and the others have changed since.
LEMMA EDeleteWrite ==
  ASSUME EInv, E!DeleteWrite
  PROVE  EInv'
<1>1. /\ save.op = "delete" /\ up' = FALSE /\ rsvp' = {}
      /\ invite' = [e \in Email |-> "none"]
      /\ entry' = entry \ E!Guests(save.invite, save.rsvp)
      /\ missed' = missed \cup E!ChangedSince(save)
      /\ save' = E!Idle /\ UNCHANGED <<limit, most, account, join>>
  BY DEF E!DeleteWrite
<1>2. ETypeOK' /\ EDown'
  BY <1>1 DEF EInv, ETypeOK, EDown, Reply, Saving
<1>3. Expected' \subseteq Expected
  BY <1>1 DEF Expected, E!Taken, Arriving
<1>4. NoStaleEntry'
  <2> SUFFICES ASSUME NEW e \in entry' \ missed' PROVE FALSE
    BY DEF NoStaleEntry, E!NoStaleEntry
  <2>1. e \in Email /\ invite[e] = save.invite[e] /\ (e \in rsvp <=> e \in save.rsvp)
    BY <1>1 DEF E!ChangedSince, EInv, ETypeOK
  <2> QED
    BY <1>1, <2>1 DEF EInv, NoStaleEntry, E!NoStaleEntry, E!Guests
<1> QED
  BY <1>1, <1>2, <1>3, <1>4, EFewer DEF EInv, ETypeOK

\* Steps that let nobody in, nor put anything on a calendar.
LEMMA EBeside ==
  ASSUME EInv,
         \/ \E e \in Email : E!Register(e) \/ E!Age(e)
         \/ E!Purge \/ E!DeleteRead
         \/ \E A \in SUBSET Email : E!SaveRead(A)
         \/ UNCHANGED encounters
  PROVE  EInv'
<1>1. /\ account' \in SUBSET Email /\ save' \in Saving /\ invite' \in [Email -> Reply]
      /\ UNCHANGED <<up, limit, most, rsvp, entry, missed, join>>
      /\ \A d \in Email : \/ invite'[d] = invite[d]
                          \/ invite[d] = "REMOVED" /\ invite'[d] = "none"
      /\ ~up => save' = save
  <2>1. CASE \E e \in Email : E!Register(e) \/ E!Age(e)
    BY <2>1 DEF E!Register, E!Age, EInv, ETypeOK
  <2>2. CASE E!Purge
    BY <2>2 DEF E!Purge, EInv, ETypeOK, Reply
  <2>3. ASSUME NEW A \in SUBSET Email, NEW op \in {"save", "delete"},
               up, save' = E!Reads(op, A)
        PROVE save' \in Saving
    BY <2>3 DEF E!Reads, Saving, EInv, ETypeOK
  <2>4. CASE E!DeleteRead \/ \E A \in SUBSET Email : E!SaveRead(A)
    BY <2>3, <2>4 DEF E!DeleteRead, E!SaveRead, EInv, ETypeOK
  <2>5. CASE UNCHANGED encounters
    BY <2>5 DEF encounters, EInv, ETypeOK
  <2> QED
    BY <2>1, <2>2, <2>4, <2>5
<1>2. ETypeOK' /\ EDown'
  BY <1>1 DEF EInv, ETypeOK, EDown
<1>3. Expected' \subseteq Expected
  BY <1>1 DEF Expected, E!Taken, Arriving
<1>4. NoStaleEntry'
  BY <1>1 DEF EInv, ETypeOK, NoStaleEntry, E!NoStaleEntry, E!Guests
<1> QED
  BY <1>1, <1>2, <1>3, <1>4, EFewer DEF EInv, ETypeOK

\* Every step of the encounters keeps the invariant.
LEMMA ENext == EInv /\ [Next]_vars => EInv'
<1> SUFFICES ASSUME EInv, [Next]_vars PROVE EInv'
  OBVIOUS
<1>1. ASSUME NEW w \in Admission, NEW e \in Email, E!Rsvp(w, e) PROVE EInv'
  BY <1>1, EBegins DEF E!Rsvp
<1>2. ASSUME NEW w \in Admission, NEW e \in Email, E!ReplyAccept(w, e) PROVE EInv'
  <2>1. CASE E!HasRoom(e)
    <3> DEFINE user == e \in account
    <3>1. user \in BOOLEAN
      OBVIOUS
    <3>2. /\ join' = [join EXCEPT ![w] = [op |-> "reply", e |-> e, user |-> user]]
          /\ up /\ join[w] = E!Idle
          /\ UNCHANGED <<up, limit, most, account, rsvp, invite, entry, missed, save>>
      BY <1>2, <2>1 DEF E!ReplyAccept
    <3> HIDE DEF user
    <3> QED
      BY <2>1, <3>1, <3>2, EBegins
  <2>2. CASE ~E!HasRoom(e)
    <3>1. /\ entry' = entry \ {e}
          /\ UNCHANGED <<up, limit, most, account, rsvp, invite, missed, join, save>>
      BY <1>2, <2>2 DEF E!ReplyAccept
    <3> QED
      BY <3>1 DEF EInv, ETypeOK, EDown, ERoom, Expected, Arriving, E!Taken,
         NoStaleEntry, E!NoStaleEntry, E!Guests
  <2> QED
    BY <2>1, <2>2
<1>3. ASSUME NEW e \in Email, E!Guest(e) PROVE EInv'
  BY <1>1, <1>2, <1>3, ERelease, EBeside DEF E!Guest
<1>4. CASE E!Creator
  BY <1>4, ECreate, ESaveWrite, EDeleteWrite, EBeside DEF E!Creator
<1>5. CASE E!Next
  BY <1>3, <1>4, <1>5, EAdmit, EBeside DEF E!Next
<1>6. CASE UNCHANGED encounters
  BY <1>6, EBeside
<1> QED
  BY <1>5, <1>6 DEF Next, vars, InAccounts, InParties, InHours, InLocks

\* Signups and accepted invitations together pass the limit only by those
\* admitted at the same time as the last one (LimitKept): what is bounded is
\* whoever has a spot with whoever is about to get one.
THEOREM LimitKeptHolds == Spec => []LimitKept
<1>1. ASSUME EInv PROVE LimitKept
  <2>1. IsFiniteSet(Expected) /\ E!Taken \subseteq Expected /\ Cardinality(Admission) \in Nat
    BY <1>1, EArriving DEF EInv, ERoom, Expected
  <2>2. /\ Cardinality(E!Taken) <= Cardinality(Expected)
        /\ Cardinality(E!Taken) \in Nat /\ Cardinality(Expected) \in Nat
    BY <2>1, FS_Subset, FS_CardinalityType
  <2> QED
    BY <1>1, <2>1, <2>2, ESets DEF EInv, ETypeOK, ERoom, LimitKept, E!LimitKept
<1> QED
  BY <1>1, EInit, ENext, PTL DEF Spec

\* Nobody keeps a calendar entry of an encounter they are no guest of
\* (NoStaleEntry), but for those who changed under a save or a deletion.
THEOREM NoStaleEntryHolds == Spec => []NoStaleEntry
<1>1. EInv => NoStaleEntry
  BY DEF EInv
<1> QED
  BY <1>1, EInit, ENext, PTL DEF Spec

\* Every way a row of the guest list is written respects a removal.
LEMMA ERemoved ==
  ASSUME EInv, [Next]_vars, NEW e \in Email, invite[e] = "REMOVED"
  PROVE  invite'[e] \in {"REMOVED", "INVITED", "none"}
<1>1. CASE UNCHANGED invite
  BY <1>1
<1>2. ASSUME NEW d, NEW to, invite' = E!SetStatus(d, to) PROVE invite'[e] = "REMOVED"
  BY <1>2 DEF E!SetStatus, EInv, ETypeOK
<1>3. ASSUME NEW w \in Admission, E!Admit(w)
      PROVE invite'[e] \in {"REMOVED", "INVITED", "none"}
  BY <1>1, <1>2, <1>3 DEF E!Admit
<1>4. ASSUME NEW d \in Email, E!Guest(d)
      PROVE invite'[e] \in {"REMOVED", "INVITED", "none"}
  BY <1>1, <1>2, <1>4 DEF E!Guest, E!Rsvp, E!ReplyAccept, E!Release, E!Register, E!Age
<1>5. CASE E!Creator
  BY <1>1, <1>5 DEF E!Creator, E!SaveRead, E!Create, E!SaveWrite, E!DeleteRead,
     E!DeleteWrite, E!Added
<1>6. CASE E!Next
  BY <1>3, <1>4, <1>5, <1>6 DEF E!Next, E!Purge
<1>7. CASE UNCHANGED encounters
  BY <1>1, <1>7 DEF encounters
<1> QED
  BY <1>6, <1>7 DEF Next, vars, InAccounts, InParties, InHours, InLocks

\* Whoever was removed comes back by a new invitation only (RemovedStaysOut):
\* no answer in flight, late or sent again undoes it.
THEOREM RemovedStaysOutHolds == Spec => RemovedStaysOut
<1>1. EInv /\ [Next]_vars =>
        [\A e \in Email : invite[e] = "REMOVED" =>
           invite'[e] \in {"REMOVED", "INVITED", "none"}]_E!vars
  BY ERemoved
<1> QED
  BY <1>1, EInit, ENext, PTL DEF Spec, RemovedStaysOut, E!RemovedStaysOut

-----------------------------------------------------------------------------
\* Accounts: what a request has decided stands, or its account is crossed.

Decided ==
  {C!Idle}
  \cup [op : {"change"}, u : Account, a : Address, tell : BOOLEAN]
  \cup [op : {"clear"}, u : Account]
  \cup [op : {"resend"}, u : Account, a : Address]
  \cup [op : {"cancel", "promote", "verify"}, u : Account, a : Address,
        link : {"confirm", "cancel", "login"}]
  \cup [op : {"replace"}, u : Account, a : Address, ok : BOOLEAN]

CTypeOK ==
  /\ email \in [Account -> Address \cup {None}]
  /\ pending \in [Account -> Address \cup {None}]
  /\ verified \in [Account -> BOOLEAN]
  /\ links \subseteq {"confirm", "cancel"} \X Account \X Address
  /\ req \in [Web -> Decided]
  /\ crossed \subseteq Account

\* A link is redeemed for the address it had fitted.
CStands ==
  \A w \in Web : req[w] # C!Idle /\ req[w].u \notin crossed =>
    /\ req[w].op = "verify" => email[req[w].u] = req[w].a
    /\ req[w].op \in {"promote", "cancel"} => pending[req[w].u] = req[w].a

\* A verified address was proved, and no cancelled one is pending.
CProved ==
  \A u \in Account \ crossed :
    /\ verified[u] => <<u, email[u]>> \in proved
    /\ pending[u] # None => <<u, pending[u]>> \notin cancelled

CInv == CTypeOK /\ CStands /\ CProved

\* To begin with no account has an address.
LEMMA CInit == Init => CInv
<1> SUFFICES ASSUME C!Init PROVE CInv
  BY DEF Init
<1> QED
  BY DEF C!Init, CInv, CTypeOK, CStands, CProved, Decided

\* A request that has just read an account is right about it.
LEMMA CBegins ==
  ASSUME CInv, NEW w \in Web, NEW r \in Decided, C!Begin(w, r),
         r.op = "verify" => email[r.u] = r.a,
         r.op \in {"promote", "cancel"} => pending[r.u] = r.a
  PROVE  CInv'
<1>1. /\ req' = [req EXCEPT ![w] = r]
      /\ UNCHANGED <<email, verified, pending, links, proved, cancelled, crossed>>
  BY DEF C!Begin
<1>2. \A v \in Web : req'[v] = IF v = w THEN r ELSE req[v]
  BY <1>1 DEF CInv, CTypeOK
<1>3. CTypeOK' /\ CProved'
  BY <1>1 DEF CInv, CTypeOK, CProved
<1>4. CStands'
  BY <1>1, <1>2 DEF CInv, CStands
<1> QED
  BY <1>3, <1>4 DEF CInv

\* Requests only remember what they read.
LEMMA CReads ==
  ASSUME CInv, NEW w \in Web, C!Read(w)
  PROVE  CInv'
<1>1. ASSUME NEW u \in Account, NEW a \in Address, C!ChangeRead(w, u, a) PROVE CInv'
  <2> DEFINE tell == verified[u] /\ email[u] # None
             r == [op |-> "change", u |-> u, a |-> a, tell |-> tell]
  <2>1. tell \in BOOLEAN
    BY DEF CInv, CTypeOK
  <2>2. C!Begin(w, r)
    BY <1>1 DEF C!ChangeRead
  <2> HIDE DEF tell
  <2>3. r \in Decided /\ r.op = "change"
    BY <2>1 DEF Decided
  <2> QED
    BY <2>2, <2>3, CBegins
<1>2. ASSUME NEW u \in Account, C!ClearRead(w, u) PROVE CInv'
  <2> DEFINE r == [op |-> "clear", u |-> u]
  <2>1. r \in Decided /\ r.op = "clear" /\ C!Begin(w, r)
    BY <1>2 DEF Decided, C!ClearRead
  <2> QED
    BY <2>1, CBegins
<1>3. ASSUME NEW u \in Account, C!ResendRead(w, u) PROVE CInv'
  <2>1. PICK a \in Address : C!Begin(w, [op |-> "resend", u |-> u, a |-> a])
    BY <1>3 DEF C!ResendRead, CInv, CTypeOK
  <2> DEFINE r == [op |-> "resend", u |-> u, a |-> a]
  <2>2. r \in Decided /\ r.op = "resend" /\ C!Begin(w, r)
    BY <2>1 DEF Decided
  <2> QED
    BY <2>2, CBegins
<1>4. ASSUME NEW u \in Account, NEW c \in Address \X BOOLEAN, C!SyncRead(w, u, c)
      PROVE CInv'
  <2> DEFINE v == [op |-> "verify", u |-> u, a |-> c[1], link |-> "login"]
             r == [op |-> "replace", u |-> u, a |-> c[1], ok |-> c[2]]
  <2>1. v \in Decided /\ v.op = "verify" /\ v.u = u /\ v.a = c[1]
    BY DEF Decided
  <2>2. r \in Decided /\ r.op = "replace"
    BY DEF Decided
  <2>3. (C!Begin(w, v) /\ email[u] = c[1]) \/ C!Begin(w, r)
    BY <1>4 DEF C!SyncRead
  <2> HIDE DEF v, r
  <2> QED
    BY <2>1, <2>2, <2>3, CBegins
<1>5. ASSUME NEW k \in links, C!RedeemRead(w, k) PROVE CInv'
  <2> DEFINE effect == C!Effect(k[1], k[2], k[3])
             r == [op |-> effect, u |-> k[2], a |-> k[3], link |-> k[1]]
  <2>1. k[1] \in {"confirm", "cancel"} /\ k[2] \in Account /\ k[3] \in Address
    BY DEF CInv, CTypeOK
  <2>2. /\ effect \in {"cancel", "promote", "verify"} /\ C!Begin(w, r)
        /\ effect = "verify" => email[k[2]] = k[3]
        /\ effect \in {"promote", "cancel"} => pending[k[2]] = k[3]
    BY <1>5 DEF C!RedeemRead, C!Effect
  <2> HIDE DEF effect
  <2>3. r \in Decided /\ r.op = effect /\ r.u = k[2] /\ r.a = k[3]
    BY <2>1, <2>2 DEF Decided
  <2> HIDE DEF r
  <2> QED
    BY <2>2, <2>3, CBegins
<1> QED
  BY <1>1, <1>2, <1>3, <1>4, <1>5 DEF C!Read

\* A write crosses whoever else has read the account, and leaves the other
\* accounts as they are.
LEMMA CWrites ==
  ASSUME CInv, CTypeOK', NEW w \in Web, req[w] # C!Idle, C!Ends(w), NEW u,
         u = req[w].u,
         \A v \in Account \ {u} :
           /\ email'[v] = email[v] /\ pending'[v] = pending[v]
           /\ verified'[v] = verified[v]
           /\ \A a : <<v, a>> \in cancelled' => <<v, a>> \in cancelled,
         proved \subseteq proved',
         u \notin crossed =>
           /\ verified'[u] => <<u, email'[u]>> \in proved'
           /\ pending'[u] # None => <<u, pending'[u]>> \notin cancelled'
  PROVE  CInv'
<1>1. /\ crossed \subseteq crossed'
      /\ \A v \in Web \ {w} : req[v] # C!Idle /\ req[v].u = u => u \in crossed'
      /\ req'[w] = C!Idle /\ \A v \in Web \ {w} : req'[v] = req[v]
  BY DEF C!Ends, CInv, CTypeOK
<1>2. CStands'
  <2> SUFFICES ASSUME NEW v \in Web, req'[v] # C!Idle, req'[v].u \notin crossed'
               PROVE  /\ req'[v].op = "verify" => email'[req'[v].u] = req'[v].a
                      /\ req'[v].op \in {"promote", "cancel"} =>
                           pending'[req'[v].u] = req'[v].a
    BY DEF CStands
  <2>1. v # w /\ req'[v] = req[v] /\ req[v].u \notin crossed /\ req[v].u # u
    BY <1>1
  <2>2. req[v].u \in Account
    BY <2>1 DEF CInv, CTypeOK, Decided
  <2> QED
    BY <2>1, <2>2 DEF CInv, CStands
<1>3. CProved'
  <2> SUFFICES ASSUME NEW v \in Account \ crossed'
               PROVE  /\ verified'[v] => <<v, email'[v]>> \in proved'
                      /\ pending'[v] # None => <<v, pending'[v]>> \notin cancelled'
    BY DEF CProved
  <2>1. CASE v = u
    BY <1>1, <2>1
  <2>2. CASE v # u
    BY <1>1, <2>2 DEF CInv, CProved
  <2> QED
    BY <2>1, <2>2
<1> QED
  BY <1>2, <1>3 DEF CInv

\* A write acts on the account its request had read.
LEMMA CWrite ==
  ASSUME CInv, NEW w \in Web, C!Write(w)
  PROVE  CInv'
<1> DEFINE u == req[w].u
           a == req[w].a
<1>1. /\ req[w] # C!Idle /\ u \in Account
      /\ req[w].op # "clear" => a \in Address
      /\ req[w].op = "replace" => req[w].ok \in BOOLEAN
  BY DEF C!Write, C!ChangeWrite, C!ClearWrite, C!ResendWrite, C!Cancel, C!Promote,
     C!Verify, C!Replace, CInv, CTypeOK, Decided, C!Idle
<1>2. C!Ends(w) => req' \in [Web -> Decided] /\ crossed' \in SUBSET Account
  BY <1>1 DEF C!Ends, CInv, CTypeOK, Decided
<1>3. u \notin crossed =>
        /\ verified[u] => <<u, email[u]>> \in proved
        /\ pending[u] # None => <<u, pending[u]>> \notin cancelled
        /\ req[w].op = "verify" => email[u] = a
        /\ req[w].op \in {"promote", "cancel"} => pending[u] = a
  BY <1>1 DEF CInv, CProved, CStands
<1>4. CASE C!ChangeWrite(w)
  <2>1. /\ pending' = [pending EXCEPT ![u] = a] /\ C!Ends(w)
        /\ cancelled' = cancelled \ {<<u, a>>}
        /\ links' = links \cup {<<"confirm", u, a>>}
                      \cup (IF req[w].tell THEN {<<"cancel", u, a>>} ELSE {})
        /\ UNCHANGED <<email, verified, proved>> /\ a \in Address
    BY <1>1, <1>4 DEF C!ChangeWrite
  <2> HIDE DEF u, a
  <2>2. CTypeOK'
    BY <1>1, <1>2, <2>1 DEF CInv, CTypeOK
  <2>3. pending'[u] = a /\ \A v \in Account \ {u} : pending'[v] = pending[v]
    BY <1>1, <2>1 DEF CInv, CTypeOK
  <2>7. \A v \in Account \ {u} :
          /\ email'[v] = email[v] /\ pending'[v] = pending[v]
          /\ verified'[v] = verified[v]
          /\ \A x : <<v, x>> \in cancelled' => <<v, x>> \in cancelled
    BY <2>1, <2>3
  <2>8. u \notin crossed =>
          /\ verified'[u] => <<u, email'[u]>> \in proved'
          /\ pending'[u] # None => <<u, pending'[u]>> \notin cancelled'
    BY <1>3, <2>1, <2>3
  <2>9. proved \subseteq proved'
    BY <2>1
  <2> QED
    BY <1>1, <2>1, <2>2, <2>7, <2>8, <2>9, CWrites DEF u
<1>5. CASE C!ClearWrite(w)
  <2>1. /\ email' = [email EXCEPT ![u] = None] /\ verified' = [verified EXCEPT ![u] = FALSE]
        /\ pending' = [pending EXCEPT ![u] = None] /\ C!Ends(w)
        /\ UNCHANGED <<links, proved, cancelled>>
    BY <1>5 DEF C!ClearWrite
  <2> HIDE DEF u, a
  <2>2. CTypeOK'
    BY <1>1, <1>2, <2>1 DEF CInv, CTypeOK
  <2>3. /\ ~verified'[u] /\ pending'[u] = None
        /\ \A v \in Account \ {u} : /\ email'[v] = email[v] /\ pending'[v] = pending[v]
                                    /\ verified'[v] = verified[v]
    BY <1>1, <2>1 DEF CInv, CTypeOK
  <2>7. \A v \in Account \ {u} :
          /\ email'[v] = email[v] /\ pending'[v] = pending[v]
          /\ verified'[v] = verified[v]
          /\ \A x : <<v, x>> \in cancelled' => <<v, x>> \in cancelled
    BY <2>1, <2>3
  <2>8. u \notin crossed =>
          /\ verified'[u] => <<u, email'[u]>> \in proved'
          /\ pending'[u] # None => <<u, pending'[u]>> \notin cancelled'
    BY <1>3, <2>1, <2>3
  <2>9. proved \subseteq proved'
    BY <2>1
  <2> QED
    BY <1>1, <2>1, <2>2, <2>7, <2>8, <2>9, CWrites DEF u
<1>6. CASE C!ResendWrite(w)
  <2>1. /\ links' = links \cup {<<"confirm", u, a>>} /\ a \in Address
        /\ req' = [req EXCEPT ![w] = C!Idle]
        /\ UNCHANGED <<email, verified, pending, proved, cancelled, crossed>>
    BY <1>1, <1>6 DEF C!ResendWrite
  <2> HIDE DEF u, a
  <2>2. CTypeOK'
    BY <1>1, <2>1 DEF CInv, CTypeOK, Decided
  <2>3. CStands' /\ CProved'
    BY <2>1 DEF CInv, CTypeOK, CStands, CProved
  <2> QED
    BY <2>2, <2>3 DEF CInv
<1>7. CASE C!Cancel(w)
  <2>1. /\ pending' = [pending EXCEPT ![u] = None] /\ C!Ends(w)
        /\ cancelled' = cancelled \cup {<<u, a>>}
        /\ UNCHANGED <<email, verified, links, proved>>
    BY <1>7 DEF C!Cancel
  <2> HIDE DEF u, a
  <2>2. CTypeOK'
    BY <1>1, <1>2, <2>1 DEF CInv, CTypeOK
  <2>3. pending'[u] = None /\ \A v \in Account \ {u} : pending'[v] = pending[v]
    BY <1>1, <2>1 DEF CInv, CTypeOK
  <2> QED
    BY <1>1, <1>3, <2>1, <2>2, <2>3, CWrites DEF u
<1>8. CASE C!Promote(w)
  <2>1. /\ pending' = [pending EXCEPT ![u] = None] /\ C!Ends(w)
        /\ UNCHANGED <<links, cancelled>>
        /\ \/ UNCHANGED <<email, verified, proved>>
           \/ /\ email' = [email EXCEPT ![u] = a]
              /\ verified' = [verified EXCEPT ![u] = TRUE]
              /\ proved' = proved \cup {<<u, a>>}
        /\ a \in Address
    BY <1>1, <1>8 DEF C!Promote
  <2> HIDE DEF u, a
  <2>2. CTypeOK'
    BY <1>1, <1>2, <2>1 DEF CInv, CTypeOK
  <2>3. /\ pending'[u] = None
        /\ \A v \in Account \ {u} : /\ email'[v] = email[v] /\ pending'[v] = pending[v]
                                    /\ verified'[v] = verified[v]
        /\ UNCHANGED <<email, verified, proved>> \/ <<u, email'[u]>> \in proved'
    BY <1>1, <2>1 DEF CInv, CTypeOK
  <2>7. \A v \in Account \ {u} :
          /\ email'[v] = email[v] /\ pending'[v] = pending[v]
          /\ verified'[v] = verified[v]
          /\ \A x : <<v, x>> \in cancelled' => <<v, x>> \in cancelled
    BY <2>1, <2>3
  <2>8. u \notin crossed =>
          /\ verified'[u] => <<u, email'[u]>> \in proved'
          /\ pending'[u] # None => <<u, pending'[u]>> \notin cancelled'
    BY <1>3, <2>1, <2>3
  <2>9. proved \subseteq proved'
    BY <2>1
  <2> QED
    BY <1>1, <2>1, <2>2, <2>7, <2>8, <2>9, CWrites DEF u
<1>9. CASE C!Verify(w)
  <2>1. /\ verified' = [verified EXCEPT ![u] = TRUE] /\ C!Ends(w)
        /\ proved' = proved \cup {<<u, a>>} /\ req[w].op = "verify"
        /\ UNCHANGED <<email, pending, links, cancelled>>
    BY <1>9 DEF C!Verify
  <2> HIDE DEF u, a
  <2>2. CTypeOK'
    BY <1>1, <1>2, <2>1 DEF CInv, CTypeOK
  <2>3. \A v \in Account \ {u} : verified'[v] = verified[v]
    BY <1>1, <2>1 DEF CInv, CTypeOK
  <2> QED
    BY <1>1, <1>3, <2>1, <2>2, <2>3, CWrites DEF u
<1>10. CASE C!Replace(w)
  <2> DEFINE ok == req[w].ok
  <2>1. /\ C!Ends(w) /\ UNCHANGED <<links, cancelled>>
        /\ \/ UNCHANGED <<email, verified, pending, proved>>
           \/ /\ email' = [email EXCEPT ![u] = a]
              /\ verified' = [verified EXCEPT ![u] = ok]
              /\ pending' = [pending EXCEPT ![u] = None]
              /\ proved' = IF ok THEN proved \cup {<<u, a>>} ELSE proved
        /\ a \in Address /\ ok \in BOOLEAN
    BY <1>1, <1>10 DEF C!Replace
  <2> HIDE DEF u, a, ok
  <2>2. CTypeOK'
    BY <1>1, <1>2, <2>1 DEF CInv, CTypeOK
  <2>3. /\ \A v \in Account \ {u} : /\ email'[v] = email[v] /\ pending'[v] = pending[v]
                                    /\ verified'[v] = verified[v]
        /\ \/ UNCHANGED <<email, verified, pending, proved>>
           \/ /\ pending'[u] = None
              /\ verified'[u] => <<u, email'[u]>> \in proved'
    BY <1>1, <2>1 DEF CInv, CTypeOK
  <2>7. \A v \in Account \ {u} :
          /\ email'[v] = email[v] /\ pending'[v] = pending[v]
          /\ verified'[v] = verified[v]
          /\ \A x : <<v, x>> \in cancelled' => <<v, x>> \in cancelled
    BY <2>1, <2>3
  <2>8. u \notin crossed =>
          /\ verified'[u] => <<u, email'[u]>> \in proved'
          /\ pending'[u] # None => <<u, pending'[u]>> \notin cancelled'
    BY <1>3, <2>1, <2>3
  <2>9. proved \subseteq proved'
    BY <2>1
  <2> QED
    BY <1>1, <2>1, <2>2, <2>7, <2>8, <2>9, CWrites DEF u
<1> QED
  BY <1>4, <1>5, <1>6, <1>7, <1>8, <1>9, <1>10 DEF C!Write

\* Every step of the accounts keeps the invariant.
LEMMA CNext == CInv /\ [Next]_vars => CInv'
<1> SUFFICES ASSUME CInv, [Next]_vars PROVE CInv'
  OBVIOUS
<1>1. ASSUME NEW u \in Account, C!Expire(u) PROVE CInv'
  BY <1>1 DEF C!Expire, CInv, CTypeOK, CStands, CProved
<1>2. CASE C!Next
  BY <1>1, <1>2, CReads, CWrite DEF C!Next
<1>3. CASE UNCHANGED accounts
  BY <1>3 DEF accounts, CInv, CTypeOK, CStands, CProved
<1> QED
  BY <1>2, <1>3 DEF Next, vars, InEncounters, InParties, InHours, InLocks

\* A verified address was proved by its account, and a cancelled change makes
\* an address nobody's own (AddressesAreProved): of requests that do not cross,
\* each acts on what still is so.
THEOREM AddressesAreProvedHolds == Spec => AddressesAreProved
<1>1. CInv => \A u \in Account \ crossed : verified[u] => <<u, email[u]>> \in proved
  BY DEF CInv, CProved
<1>2. ASSUME CInv, NEW w \in Web, req[w] # C!Idle, req[w].op = "promote"
      PROVE  req[w].u \in crossed \/ <<req[w].u, req[w].a>> \notin cancelled
  <2>1. req[w].u \in Account /\ req[w].a \in Address
    BY <1>2 DEF CInv, CTypeOK, Decided
  <2>2. req[w].a # None
    BY <2>1, RequestsAssumption DEF C!AccountsAssumption
  <2> QED
    BY <1>2, <2>1, <2>2 DEF CInv, CStands, CProved
<1>3. CInv /\ [Next]_vars =>
        [\A w \in Web : req[w] # C!Idle /\ req[w].op = "promote" /\ req'[w] = C!Idle =>
           req[w].u \in crossed \/ <<req[w].u, req[w].a>> \notin cancelled]_C!vars
  BY <1>2
<1> QED
  BY <1>1, <1>3, CInit, CNext, PTL DEF Spec, AddressesAreProved, C!AddressesAreProved

-----------------------------------------------------------------------------
\* Parties: what a row stands on, and what a request holds.

Row == {P!Nobody} \cup
  [status : {"INVITED", "ACTIVE"}, consent : {"ACCEPT_INVITES", "ACCEPT_BY_DEFAULT"}]

Lockable ==
  {P!TheParty} \cup {P!Membership(u) : u \in P!Person} \cup {P!UserRow(u) : u \in P!Person}

Asking ==
  {P!Idle}
  \cup [op : {"join"}, u : P!Person, link : Nat, rows : SUBSET Lockable]
  \cup [op : {"add"}, u : Companion, rows : SUBSET Lockable]
  \cup [op : {"claim"}, who : Identity, u : Companion, token : Nat, rows : {{}}]

PTypeOK ==
  /\ formed \in BOOLEAN /\ kept \subseteq Companion
  /\ login \in [Companion -> Identity \cup {None}]
  /\ member \in [P!Person -> Row]
  /\ link \in Nat
  /\ claim \in [Companion -> Nat] /\ issued \in [Companion -> Nat]
  /\ partyReq \in [Web -> Asking]

\* Whoever joins has the link that is current, and whoever is brought along has
\* no login: the rows they hold keep it so.
PHeld ==
  \A w \in Web :
    /\ partyReq[w].op = "join" =>
         partyReq[w].link = link /\ P!TheParty \in partyReq[w].rows
    /\ partyReq[w].op = "add" =>
         login[partyReq[w].u] = None /\ P!UserRow(partyReq[w].u) \in partyReq[w].rows

\* Nobody is in the party unasked, and nobody with a login against their say.
PSay ==
  \A u \in P!Person \ {Leader} :
    /\ member[u] # P!Nobody => u \in asked
    /\ P!HasLogin(u) /\ member[u].status = "ACTIVE" => u \in agreed
    /\ P!HasLogin(u) /\ member[u].consent = "ACCEPT_BY_DEFAULT" => u \in granted

\* A claimed companion is not deleted.
PClaimed == \A c \in Companion : login[c] # None => c \in kept

PInv == PTypeOK /\ PHeld /\ PSay /\ PClaimed

\* To begin with the leader is the only member.
LEMMA PInit == Init => PInv
<1> SUFFICES ASSUME P!Init PROVE PInv
  BY DEF Init
<1> QED
  BY DEF P!Init, PInv, PTypeOK, PHeld, PSay, PClaimed, Row, Asking, P!Nobody, P!Own,
     P!Row, P!Idle, P!Person

\* What a request is about.
LEMMA PAsking ==
  ASSUME PTypeOK, NEW w \in Web
  PROVE  /\ partyReq[w].op = "join" => partyReq[w].u \in P!Person
         /\ partyReq[w].op = "add" => partyReq[w].u \in Companion
         /\ partyReq[w].op = "claim" =>
              /\ partyReq[w].u \in Companion /\ partyReq[w].who \in Identity
              /\ partyReq[w].rows = {}
BY DEF PTypeOK, Asking, P!Idle

\* Steps that change what is said of one person's row, and who holds nothing.
LEMMA POneRow ==
  ASSUME PInv, NEW u \in P!Person, NEW row \in Row,
         member' = [member EXCEPT ![u] = row],
         \A v \in P!Person \ {u} :
           /\ v \in agreed => v \in agreed'
           /\ v \in asked => v \in asked'
           /\ v \in granted => v \in granted',
         u # Leader =>
           /\ row # P!Nobody => u \in asked'
           /\ P!HasLogin(u) /\ row.status = "ACTIVE" => u \in agreed'
           /\ P!HasLogin(u) /\ row.consent = "ACCEPT_BY_DEFAULT" => u \in granted',
         formed' \in BOOLEAN, partyReq' \in [Web -> Asking],
         \A w \in Web : partyReq'[w] \in {partyReq[w], P!Idle},
         UNCHANGED <<kept, login, link, claim, issued>>
  PROVE  PInv'
<1>1. PTypeOK'
  BY DEF PInv, PTypeOK
<1>2. PHeld'
  BY DEF PInv, PHeld, P!Idle
<1>3. PSay'
  <2>1. \A v \in P!Person : member'[v] = IF v = u THEN row ELSE member[v]
    BY DEF PInv, PTypeOK
  <2>2. \A v \in P!Person : P!HasLogin(v)' <=> P!HasLogin(v)
    BY DEF P!HasLogin
  <2> QED
    BY <2>1, <2>2 DEF PInv, PSay
<1>4. PClaimed'
  BY DEF PInv, PClaimed
<1> QED
  BY <1>1, <1>2, <1>3, <1>4 DEF PInv

\* The rows are those of the panel of members: invited, accepted, gone.
LEMMA PMembers ==
  ASSUME PInv, NEW u \in P!Person,
         \/ \E m \in P!Person : P!Invite(m, u)
         \/ P!Accept(u) \/ P!Out(u)
         \/ \E mode \in {"ACCEPT_INVITES", "ACCEPT_BY_DEFAULT"} : P!SetConsent(u, mode)
  PROVE  PInv'
<1>0. member[u] \in Row /\ partyReq \in [Web -> Asking] /\ formed \in BOOLEAN
  BY DEF PInv, PTypeOK
<1>1. ASSUME NEW m \in P!Person, P!Invite(m, u) PROVE PInv'
  <2> DEFINE row == P!Row("INVITED", "ACCEPT_INVITES")
  <2>1. row \in Row /\ row.status = "INVITED" /\ row.consent = "ACCEPT_INVITES"
    BY DEF P!Row, Row
  <2>2. /\ member' = [member EXCEPT ![u] = row] /\ asked' = asked \cup {u}
        /\ UNCHANGED <<formed, kept, login, link, claim, issued, partyReq, agreed, granted>>
    BY <1>1 DEF P!Invite, P!Created
  <2> HIDE DEF row
  <2> QED
    BY <1>0, <2>1, <2>2, POneRow
<1>2. CASE P!Accept(u)
  <2> DEFINE row == [member[u] EXCEPT !.status = "ACTIVE"]
  <2>1. member[u] # P!Nobody
    BY <1>2 DEF P!Accept, P!Nobody
  <2>2. row \in Row /\ row.consent = member[u].consent
    BY <1>0, <2>1 DEF Row, P!Nobody
  <2>3. /\ member' = [member EXCEPT ![u] = row] /\ agreed' = agreed \cup {u}
        /\ UNCHANGED <<formed, kept, login, link, claim, issued, partyReq, asked, granted>>
    BY <1>2 DEF P!Accept
  <2>4. u # Leader => u \in asked /\
          (P!HasLogin(u) /\ member[u].consent = "ACCEPT_BY_DEFAULT" => u \in granted)
    BY <2>1 DEF PInv, PSay
  <2> HIDE DEF row
  <2> QED
    BY <1>0, <2>2, <2>3, <2>4, POneRow
<1>3. CASE P!Out(u)
  <2>1. P!Nobody \in Row /\ P!Nobody.status = "none" /\ P!Nobody.consent = "none"
    BY DEF Row, P!Nobody
  <2>2. /\ member' = [member EXCEPT ![u] = P!Nobody]
        /\ agreed' = agreed \ {u} /\ asked' = asked \ {u} /\ granted' = granted \ {u}
        /\ UNCHANGED <<formed, kept, login, link, claim, issued, partyReq>>
    BY <1>3 DEF P!Out, P!Without
  <2> QED
    BY <1>0, <2>1, <2>2, POneRow
<1>4. ASSUME NEW mode \in {"ACCEPT_INVITES", "ACCEPT_BY_DEFAULT"}, P!SetConsent(u, mode)
      PROVE PInv'
  <2> DEFINE row == [member[u] EXCEPT !.consent = mode]
  <2>1. member[u] # P!Nobody
    BY <1>4 DEF P!SetConsent, P!Active, P!Nobody
  <2>2. row \in Row /\ row.status = member[u].status /\ row.consent = mode
    BY <1>0, <2>1 DEF Row, P!Nobody
  <2>3. /\ member' = [member EXCEPT ![u] = row]
        /\ granted' = IF mode = "ACCEPT_BY_DEFAULT" THEN granted \cup {u}
                      ELSE granted \ {u}
        /\ UNCHANGED <<formed, kept, login, link, claim, issued, partyReq, agreed, asked>>
    BY <1>4 DEF P!SetConsent
  <2>4. u # Leader => u \in asked /\
          (P!HasLogin(u) /\ member[u].status = "ACTIVE" => u \in agreed)
    BY <2>1 DEF PInv, PSay
  <2> HIDE DEF row
  <2> QED
    BY <1>0, <2>2, <2>3, <2>4, POneRow
<1> QED
  BY <1>1, <1>2, <1>3, <1>4

\* A party that is deleted takes its rows along.
LEMMA PDelete ==
  ASSUME PInv, P!Delete
  PROVE  PInv'
<1> USE DEF P!Delete
<1>1. P!Nobody \in Row /\ P!Nobody.status = "none" /\ P!Nobody.consent = "none"
  BY DEF Row, P!Nobody
<1>2. PTypeOK'
  BY <1>1 DEF PInv, PTypeOK
<1>3. PHeld' /\ PClaimed'
  BY DEF PInv, PHeld, PClaimed
<1>4. PSay'
  BY <1>1 DEF PInv, PSay
<1> QED
  BY <1>2, <1>3, <1>4 DEF PInv

\* A request locks its rows when nobody else holds them.
LEMMA PReads ==
  ASSUME PInv, NEW w \in Web,
         \/ \E u \in P!Person, k \in 1 .. link : P!JoinRead(w, u, k)
         \/ \E m \in Holder, c \in Companion : P!AddRead(w, m, c)
         \/ \E i \in Identity, c \in Companion, k \in 1 .. MaxToken :
              P!RedeemRead(w, i, c, k)
  PROVE  PInv'
<1>1. PICK r \in Asking :
        /\ partyReq' = [partyReq EXCEPT ![w] = r]
        /\ r.op = "join" => r.link = link /\ P!TheParty \in r.rows
        /\ r.op = "add" => login[r.u] = None /\ P!UserRow(r.u) \in r.rows
        /\ UNCHANGED <<formed, kept, login, known, member, link, claim, issued,
                       agreed, asked, granted>>
  <2>1. ASSUME NEW u \in P!Person, NEW k \in 1 .. link, P!JoinRead(w, u, k)
        PROVE  [op |-> "join", u |-> u, link |-> k,
                rows |-> {P!TheParty, P!Membership(u)}] \in Asking
    <3>1. {P!TheParty, P!Membership(u)} \in SUBSET Lockable /\ k \in Nat
      BY DEF Lockable, PInv, PTypeOK
    <3> QED
      BY <3>1 DEF Asking
  <2>2. ASSUME NEW u \in P!Person, NEW k \in 1 .. link, P!JoinRead(w, u, k)
        PROVE  \E r \in Asking :
                 /\ partyReq' = [partyReq EXCEPT ![w] = r]
                 /\ r.op = "join" /\ r.link = link /\ P!TheParty \in r.rows
                 /\ UNCHANGED <<formed, kept, login, known, member, link, claim,
                                issued, agreed, asked, granted>>
    BY <2>1, <2>2 DEF P!JoinRead
  <2>3. ASSUME NEW m \in Holder, NEW c \in Companion, P!AddRead(w, m, c)
        PROVE  \E r \in Asking :
                 /\ partyReq' = [partyReq EXCEPT ![w] = r]
                 /\ r.op = "add" /\ login[r.u] = None /\ P!UserRow(r.u) \in r.rows
                 /\ UNCHANGED <<formed, kept, login, known, member, link, claim,
                                issued, agreed, asked, granted>>
    <3> DEFINE theirs == P!CompanionRows(m)
               r == [op |-> "add", u |-> c, rows |-> theirs]
    <3>1. theirs \subseteq Lockable /\ P!UserRow(c) \in theirs
      BY <2>3 DEF P!CompanionRows, P!AddRead, Lockable, P!Person
    <3> HIDE DEF theirs
    <3>2. r \in Asking
      BY <3>1 DEF Asking
    <3> QED
      BY <2>3, <3>1, <3>2 DEF P!AddRead, P!Connected, theirs
  <2>4. ASSUME NEW i \in Identity, NEW c \in Companion, NEW k \in 1 .. MaxToken,
               P!RedeemRead(w, i, c, k)
        PROVE  \E r \in Asking :
                 /\ partyReq' = [partyReq EXCEPT ![w] = r]
                 /\ r.op = "claim"
                 /\ UNCHANGED <<formed, kept, login, known, member, link, claim,
                                issued, agreed, asked, granted>>
    <3>1. k \in Nat
      BY RequestsAssumption DEF P!PartiesAssumption
    <3>2. [op |-> "claim", who |-> i, u |-> c, token |-> k, rows |-> {}] \in Asking
      BY <3>1 DEF Asking
    <3> QED
      BY <2>4, <3>2 DEF P!RedeemRead
  <2> QED
    BY <2>2, <2>3, <2>4
<1>2. PTypeOK'
  BY <1>1 DEF PInv, PTypeOK
<1>3. PHeld'
  <2>1. \A v \in Web : partyReq'[v] = IF v = w THEN r ELSE partyReq[v]
    BY <1>1 DEF PInv, PTypeOK
  <2> QED
    BY <1>1, <2>1 DEF PInv, PHeld
<1>4. PSay' /\ PClaimed'
  BY <1>1 DEF PInv, PSay, PClaimed, P!HasLogin
<1> QED
  BY <1>2, <1>3, <1>4 DEF PInv

\* A join is written while the party, its link and the row are locked.
LEMMA PJoinWrite ==
  ASSUME PInv, NEW w \in Web, P!JoinWrite(w)
  PROVE  PInv'
<1>1. PICK u \in P!Person : u = partyReq[w].u
  BY PAsking DEF P!JoinWrite, PInv
<1> DEFINE row == [(IF member[u] = P!Nobody THEN P!Row("ACTIVE", "ACCEPT_INVITES")
                    ELSE member[u]) EXCEPT !.status = "ACTIVE"]
<1>2. /\ member' = [member EXCEPT ![u] = row]
      /\ agreed' = agreed \cup {u} /\ asked' = asked \cup {u}
      /\ partyReq' = [partyReq EXCEPT ![w] = P!Idle]
      /\ UNCHANGED <<formed, kept, login, link, claim, issued, granted>>
  <2>1. partyReq[w].link = link
    BY DEF PInv, PHeld, P!JoinWrite
  <2>2. member' = [P!Created(u, P!Row("ACTIVE", "ACCEPT_INVITES")) EXCEPT
                     ![u].status = "ACTIVE"]
    BY <1>1 DEF P!JoinWrite
  <2>3. member' = [member EXCEPT ![u] = row]
    BY <1>1, <2>2 DEF P!Created, PInv, PTypeOK
  <2> QED
    BY <1>1, <2>1, <2>3 DEF P!JoinWrite
<1>3. member[u] \in Row /\ formed \in BOOLEAN
  BY DEF PInv, PTypeOK
<1>4. /\ row \in Row
      /\ row.consent = "ACCEPT_INVITES" \/ row.consent = member[u].consent
  BY <1>3 DEF Row, P!Row, P!Nobody
<1>5. /\ partyReq' \in [Web -> Asking]
      /\ \A v \in Web : partyReq'[v] \in {partyReq[v], P!Idle}
  BY <1>2 DEF PInv, PTypeOK, Asking
<1>6. u # Leader /\ P!HasLogin(u) /\ row.consent = "ACCEPT_BY_DEFAULT" => u \in granted
  BY <1>4 DEF PInv, PSay
<1> HIDE DEF row
<1> QED
  BY <1>2, <1>3, <1>4, <1>5, <1>6, POneRow

\* Whom a member brings along has no login while their row is held.
LEMMA PAddWrite ==
  ASSUME PInv, NEW w \in Web, P!AddWrite(w)
  PROVE  PInv'
<1>1. PICK c \in Companion : c = partyReq[w].u
  BY PAsking DEF P!AddWrite, PInv
<1>2. c \in P!Person /\ c \notin Holder /\ login[c] = None
  BY <1>1, RequestsAssumption DEF P!PartiesAssumption, P!Person, PInv, PHeld, P!AddWrite
<1>3. ~P!HasLogin(c)
  BY <1>2 DEF P!HasLogin
<1>4. /\ partyReq' = [partyReq EXCEPT ![w] = P!Idle]
      /\ UNCHANGED <<formed, kept, login, link, claim, issued, agreed, granted>>
  BY DEF P!AddWrite
<1>5. /\ partyReq' \in [Web -> Asking]
      /\ \A v \in Web : partyReq'[v] \in {partyReq[v], P!Idle}
  BY <1>4 DEF PInv, PTypeOK, Asking
<1>6. member[c] \in Row /\ formed \in BOOLEAN
  BY <1>2 DEF PInv, PTypeOK
<1>7. CASE member' = P!Created(c, P!Own) /\ asked' = asked \cup {c}
  <2> DEFINE row == IF member[c] = P!Nobody THEN P!Own ELSE member[c]
  <2>1. row \in Row
    BY <1>6 DEF Row, P!Own, P!Row
  <2>2. member' = [member EXCEPT ![c] = row]
    BY <1>7 DEF P!Created
  <2> HIDE DEF row
  <2> QED
    BY <1>2, <1>3, <1>4, <1>5, <1>6, <1>7, <2>1, <2>2, POneRow
<1>8. CASE UNCHANGED <<member, asked>>
  <2>1. member' = [member EXCEPT ![c] = member[c]]
    BY <1>2, <1>8 DEF PInv, PTypeOK
  <2>2. c # Leader => (member[c] # P!Nobody => c \in asked)
    BY <1>2 DEF PInv, PSay
  <2> QED
    BY <1>2, <1>3, <1>4, <1>5, <1>6, <1>8, <2>1, <2>2, POneRow
<1> QED
  BY <1>1, <1>7, <1>8 DEF P!AddWrite

\* A companion who is deleted leaves no membership behind.
LEMMA PRemove ==
  ASSUME PInv, NEW c \in Companion, P!Remove(c)
  PROVE  PInv'
<1>1. /\ login[c] = None /\ kept' = kept \ {c} /\ claim' = [claim EXCEPT ![c] = 0]
      /\ member' = [member EXCEPT ![c] = P!Nobody]
      /\ agreed' = agreed \ {c} /\ asked' = asked \ {c} /\ granted' = granted \ {c}
      /\ UNCHANGED <<formed, login, link, issued, partyReq>>
  BY DEF P!Remove, P!Connected, P!Without
<1>2. P!Nobody \in Row /\ P!Nobody.status = "none" /\ P!Nobody.consent = "none"
  BY DEF Row, P!Nobody
<1>3. c \in P!Person
  BY DEF P!Person
<1>4. PTypeOK'
  BY <1>1, <1>2 DEF PInv, PTypeOK
<1>5. PHeld' /\ PClaimed'
  BY <1>1 DEF PInv, PHeld, PClaimed
<1>6. \A v \in P!Person : /\ member'[v] = IF v = c THEN P!Nobody ELSE member[v]
                          /\ v # c => (P!HasLogin(v)' <=> P!HasLogin(v))
  BY <1>1, <1>3 DEF PInv, PTypeOK, P!HasLogin
<1>7. PSay'
  BY <1>1, <1>2, <1>6 DEF PInv, PSay
<1> QED
  BY <1>4, <1>5, <1>7 DEF PInv

\* Who becomes an account of their own gets a say, and nobody is just bringing
\* them along.
LEMMA PConvert ==
  ASSUME PInv, NEW w \in Web, P!Convert(w)
  PROVE  PInv'
<1>1. PICK c \in Companion : c = partyReq[w].u
  BY PAsking DEF P!Convert, PInv
<1>2. /\ partyReq' = [partyReq EXCEPT ![w] = P!Idle]
      /\ UNCHANGED <<formed, kept, link, issued, asked, granted>>
      /\ partyReq[w].who \in Identity
  BY PAsking DEF P!Convert, PInv
<1>3. /\ partyReq' \in [Web -> Asking]
      /\ \A v \in Web : partyReq'[v] \in {partyReq[v], P!Idle}
  BY <1>2 DEF PInv, PTypeOK, Asking
<1>4. CASE P!Connected(c) /\ claim[c] = partyReq[w].token
  <2> DEFINE row == [member[c] EXCEPT !.consent =
                       IF @ = "none" THEN @ ELSE "ACCEPT_INVITES"]
  <2>1. /\ login' = [login EXCEPT ![c] = partyReq[w].who]
        /\ claim' = [claim EXCEPT ![c] = 0]
        /\ member' = [member EXCEPT ![c] = row]
        /\ agreed' = IF member[c] = P!Nobody THEN agreed ELSE agreed \cup {c}
        /\ c \in kept /\ P!Free({P!UserRow(c)})
    BY <1>1, <1>4 DEF P!Convert, P!Connected
  <2>2. c \in P!Person /\ member[c] \in Row
    BY DEF P!Person, PInv, PTypeOK
  <2>3. /\ row \in Row /\ row.consent # "ACCEPT_BY_DEFAULT"
        /\ row # P!Nobody => member[c] # P!Nobody
        /\ row.status = "ACTIVE" => member[c] # P!Nobody
    BY <2>2 DEF Row, P!Nobody
  <2> HIDE DEF row
  <2>4. PTypeOK'
    BY <1>2, <1>3, <2>1, <2>3 DEF PInv, PTypeOK
  <2>5. PHeld'
    <3>1. \A v \in Web : partyReq[v].op = "add" => partyReq[v].u # c
      BY <2>1 DEF PInv, PHeld, P!Free
    <3>2. \A v \in Web : partyReq[v].op = "add" => login'[partyReq[v].u] = login[partyReq[v].u]
      BY <2>1, <3>1, PAsking DEF PInv, PTypeOK
    <3> QED
      BY <1>2, <1>3, <3>2 DEF PInv, PHeld, P!Idle
  <2>6. \A v \in P!Person : /\ member'[v] = IF v = c THEN row ELSE member[v]
                            /\ v # c => (P!HasLogin(v)' <=> P!HasLogin(v))
    BY <1>2, <2>1 DEF PInv, PTypeOK, P!HasLogin
  <2>7. PSay'
    BY <1>2, <2>1, <2>2, <2>3, <2>6 DEF PInv, PSay
  <2>8. PClaimed'
    BY <1>2, <2>1 DEF PInv, PTypeOK, PClaimed
  <2> QED
    BY <2>4, <2>5, <2>7, <2>8 DEF PInv
<1>5. CASE UNCHANGED <<login, claim, member, agreed>>
  BY <1>2, <1>3, <1>5 DEF PInv, PTypeOK, PHeld, PSay, PClaimed, P!HasLogin, P!Idle
<1> QED
  BY <1>1, <1>4, <1>5 DEF P!Convert

\* Links are issued under the row that a join, or whoever is brought along, holds.
LEMMA PBeside ==
  ASSUME PInv,
         \/ P!ResetLink \/ \E c \in Companion : P!Issue(c)
         \/ \E i \in Identity : P!SignUp(i)
         \/ UNCHANGED parties
  PROVE  PInv'
<1> DEFINE Typed == /\ link' \in Nat /\ claim' \in [Companion -> Nat]
                    /\ issued' \in [Companion -> Nat]
                    /\ UNCHANGED <<formed, kept, login, member, partyReq, agreed,
                                   asked, granted>>
<1>1. Typed
  <2>1. CASE P!ResetLink
    BY <2>1 DEF P!ResetLink, PInv, PTypeOK
  <2>2. ASSUME NEW c \in Companion, P!Issue(c) PROVE Typed
    <3>1. issued[c] + 1 \in Nat
      BY DEF PInv, PTypeOK
    <3>2. issued' = [issued EXCEPT ![c] = issued[c] + 1]
      BY <2>2 DEF P!Issue, PInv, PTypeOK
    <3>3. issued' \in [Companion -> Nat]
      BY <3>1, <3>2 DEF PInv, PTypeOK
    <3>4. claim' = [claim EXCEPT ![c] = issued'[c]] /\ issued'[c] \in Nat
      BY <2>2, <3>3 DEF P!Issue
    <3>5. claim' \in [Companion -> Nat]
      BY <3>4 DEF PInv, PTypeOK
    <3> QED
      BY <2>2, <3>3, <3>5 DEF P!Issue, PInv, PTypeOK
  <2>3. ASSUME NEW i \in Identity, P!SignUp(i) PROVE Typed
    BY <2>3 DEF P!SignUp, PInv, PTypeOK
  <2>4. CASE UNCHANGED parties
    BY <2>4 DEF parties, PInv, PTypeOK
  <2> QED
    BY <2>1, <2>2, <2>3, <2>4
<1>2. PTypeOK' /\ PSay' /\ PClaimed'
  BY <1>1 DEF PInv, PTypeOK, PSay, PClaimed, P!HasLogin
<1>3. PHeld'
  <2>1. CASE link' = link
    BY <1>1, <2>1 DEF PInv, PHeld
  <2>2. CASE P!ResetLink
    <3>1. \A w \in Web : partyReq[w].op # "join"
      BY <2>2 DEF P!ResetLink, P!Free, PInv, PHeld
    <3> QED
      BY <1>1, <3>1 DEF PInv, PHeld
  <2> QED
    BY <2>1, <2>2 DEF P!Issue, P!SignUp, parties
<1> QED
  BY <1>2, <1>3 DEF PInv

\* Every step of the parties keeps the invariant.
LEMMA PNext == PInv /\ [Next]_vars => PInv'
<1> SUFFICES ASSUME PInv, [Next]_vars PROVE PInv'
  OBVIOUS
<1>1. ASSUME NEW w \in Web, P!Join(w) \/ P!Add(w) \/ P!Redeem(w) PROVE PInv'
  BY <1>1, PReads, PJoinWrite, PAddWrite, PConvert DEF P!Join, P!Add, P!Redeem
<1>2. CASE P!Next
  BY <1>1, <1>2, PMembers, PRemove, PDelete, PBeside DEF P!Next
<1>3. CASE UNCHANGED parties
  BY <1>3, PBeside
<1> QED
  BY <1>2, <1>3 DEF Next, vars, InEncounters, InAccounts, InHours, InLocks

\* A claimed companion is neither claimed again nor deleted.
LEMMA PForGood ==
  ASSUME PInv, [Next]_vars, NEW c \in Companion, login[c] # None
  PROVE  c \in kept' /\ login'[c] = login[c]
<1>1. c \in kept
  BY DEF PInv, PClaimed
<1>2. ASSUME NEW d \in Companion, P!Remove(d) PROVE c \in kept' /\ login'[c] = login[c]
  BY <1>1, <1>2 DEF P!Remove, P!Connected
<1>3. ASSUME NEW w \in Web, P!Convert(w) PROVE c \in kept' /\ login'[c] = login[c]
  BY <1>1, <1>3 DEF P!Convert, P!Connected, PInv, PTypeOK
<1>4. ASSUME NEW w \in Web, P!Join(w) \/ P!Add(w) \/ P!Redeem(w)
      PROVE c \in kept' /\ login'[c] = login[c]
  BY <1>1, <1>3, <1>4 DEF P!Join, P!JoinRead, P!JoinWrite, P!Add, P!AddRead, P!AddWrite,
     P!Redeem, P!RedeemRead
<1>5. CASE P!Next
  BY <1>1, <1>2, <1>4, <1>5 DEF P!Next, P!Accept, P!Out, P!Invite, P!SetConsent,
     P!Issue, P!SignUp, P!Delete, P!ResetLink
<1>6. CASE UNCHANGED parties
  BY <1>1, <1>6 DEF parties
<1> QED
  BY <1>5, <1>6 DEF Next, vars, InEncounters, InAccounts, InHours, InLocks

\* Nobody with a login is in a party without their own say, and a companion who
\* was claimed is their own for good (OwnSay), whatever joins, additions, claims
\* and removals cross: what each read it holds locked.
THEOREM OwnSayHolds == Spec => OwnSay
<1>1. ASSUME PInv
      PROVE  \A u \in P!Person \ {Leader} :
               P!HasLogin(u) /\ member[u].status = "ACTIVE" =>
                 /\ u \in agreed \cap asked
                 /\ member[u].consent = "ACCEPT_BY_DEFAULT" => u \in granted
  BY <1>1 DEF PInv, PSay, P!Nobody
<1>2. PInv /\ [Next]_vars =>
        [\A c \in Companion : login[c] # None =>
           c \in kept' /\ login'[c] = login[c]]_P!vars
  BY PForGood
<1> QED
  BY <1>1, <1>2, PInit, PNext, PTL DEF Spec, OwnSay, P!OwnSay

-----------------------------------------------------------------------------
\* The hours of an event: its sessions, its slots and its dates.  What a
\* placement does to the slots is said once, of any slots at all
\* (StretchedWindow); the rest is about the order of hours.

\* An hour and a later one.
Pairs == {w \in Nat \X Nat : w[1] < w[2]}

\* What a request in flight carries.
Reading ==
  [busy : {TRUE}, locked : Placing \cup {None}, slots : [T!Slot -> Pairs \cup {None}]]

\* The invariant's parts: types ...
HTypeOK ==
  /\ dates \in [publication : Nat, start : Nat, end : Nat]
  /\ loose \in BOOLEAN
  /\ slots \in [T!Slot -> Pairs \cup {None}]
  /\ created \in 0 .. MaxSlots
  /\ at \in [Placing -> Pairs \cup {None}]
  /\ undo \in [Placing -> Pairs \cup {None}]
  /\ hourReq \in [Web -> {T!Idle} \cup Reading]

\* The slots that are still to be made are not there.
HMade == \A k \in T!Slot : k > created => slots[k] = None

\* The dates hold the slots of f.
Within(f) ==
  \A k \in T!Live(f) : dates.start <= f[k][1] /\ f[k][2] <= dates.end

\* The dates hold what requests have read, too: they will write it back.
HRead == ~loose => \A r \in T!Busy : Within(T!Seen(r))

\* They hold the start of what may be put back, which widens nothing.
HUndo ==
  ~loose => \A s \in Placing :
    undo[s] # None => undo[s][1] \in dates.start .. dates.end - 1

HInv == HTypeOK /\ HMade /\ HRead /\ HUndo /\ DatesHoldTheProgramme

-----------------------------------------------------------------------------
\* Some hour of a set is the first of it ...
LEMMA First ==
  ASSUME NEW D \in SUBSET Nat, D # {}
  PROVE  /\ T!Min(D) \in D
         /\ \A n \in D : T!Min(D) <= n
<1> DEFINE below == {0 .. m : m \in D}
<1>1. IsWellFoundedOn(StrictSubsetOrdering(Nat), FiniteSubsetsOf(Nat))
  BY FS_StrictSubsetOrderingWellFounded
<1>2. below \subseteq FiniteSubsetsOf(Nat) /\ below # {}
  <2>1. \A m \in D : IsFiniteSet(0 .. m) /\ 0 .. m \in SUBSET Nat
    BY FS_Interval
  <2> QED
    BY <2>1 DEF FiniteSubsetsOf
<1>3. PICK m \in D : \A n \in D : <<0 .. n, 0 .. m>> \notin StrictSubsetOrdering(Nat)
  <2>1. \E x \in below : \A y \in below : <<y, x>> \notin StrictSubsetOrdering(Nat)
    <3> HIDE DEF below
    <3> QED
      BY <1>1, <1>2, WFMin
  <2> QED
    BY <2>1
<1>4. ASSUME NEW n \in D, ~(m <= n) PROVE FALSE
  <2>1. 0 .. n \subseteq 0 .. m /\ m \in 0 .. m /\ m \notin 0 .. n
    BY <1>4
  <2>2. 0 .. n # 0 .. m /\ 0 .. n \in SUBSET Nat /\ 0 .. m \in SUBSET Nat
    BY <2>1
  <2>3. <<0 .. n, 0 .. m>> \in StrictSubsetOrdering(Nat)
    BY <2>1, <2>2 DEF StrictSubsetOrdering
  <2> QED
    BY <1>3, <2>3
<1> QED
  BY <1>4 DEF T!Min

\* ... and, if there is a bound, some hour is the last.
LEMMA Last ==
  ASSUME NEW D \in SUBSET Nat, D # {}, NEW b \in Nat, \A n \in D : n <= b
  PROVE  \E m \in D : \A n \in D : n <= m
<1> DEFINE gaps == {g \in Nat : b - g \in D}
<1>1. PICK n \in D : TRUE
  OBVIOUS
<1>2. n \in Nat /\ n <= b
  OBVIOUS
<1>3. b - n \in Nat /\ b - (b - n) = n
  BY <1>2
<1>4. gaps \in SUBSET Nat /\ gaps # {}
  BY <1>3
<1>5. PICK g \in gaps : \A q \in gaps : g <= q
  BY <1>4, First
<1>6. ASSUME NEW m \in D PROVE m <= b - g
  <2>1. b - m \in Nat /\ b - (b - m) = m
    OBVIOUS
  <2>2. g <= b - m
    BY <1>5, <2>1
  <2> QED
    BY <1>5, <2>2
<1> QED
  BY <1>5, <1>6

\* The earlier and the later of two hours.
LEMMA Pair ==
  ASSUME NEW m \in Nat, NEW n \in Nat
  PROVE  /\ T!Min({m, n}) = IF m <= n THEN m ELSE n
         /\ T!Max({m, n}) = IF m <= n THEN n ELSE m
<1>1. T!Min({m, n}) \in {m, n} /\ \A i \in {m, n} : T!Min({m, n}) <= i
  BY First
<1>2. \E i \in {m, n} : \A j \in {m, n} : i >= j
  <2>1. CASE m <= n
    BY <2>1
  <2>2. CASE ~(m <= n)
    BY <2>2
  <2> QED
    BY <2>1, <2>2
<1>3. T!Max({m, n}) \in {m, n} /\ \A i \in {m, n} : T!Max({m, n}) >= i
  BY <1>2 DEF T!Max
<1> QED
  BY <1>1, <1>3

-----------------------------------------------------------------------------
\* What _widen_time_slots_around makes of one slot: it loses no hour, grows into
\* the placement's only, reaches the placement's start when it is the first
\* touched, and the next touched slot or the placement's end.
LEMMA StretchedWindow ==
  ASSUME NEW f \in [T!Slot -> Pairs \cup {None}], NEW w \in Pairs,
         NEW k \in T!Touched(w, f)
  PROVE  LET new == T!Stretched(k, w, f)
             later == {j \in T!Touched(w, f) : T!Before(k, j, f)}
         IN
         /\ new \in Pairs /\ new[1] <= f[k][1] /\ f[k][2] <= new[2]
         /\ new[1] = f[k][1] \/ new[1] = w[1]
         /\ new[2] = f[k][2] \/ new[2] <= w[2]
         /\ (\E j \in T!Touched(w, f) : T!Before(j, k, f)) => new[1] = f[k][1]
         /\ (\A j \in T!Touched(w, f) : ~T!Before(j, k, f)) => new[1] <= w[1]
         /\ \A j \in later : new[2] = f[k][2] \/ new[2] <= f[j][1]
         /\ \A h \in Nat : h < w[2] /\ (\A j \in later : h < f[j][1]) => h < new[2]
<1> DEFINE touched == T!Touched(w, f)
           later == {j \in touched : T!Before(k, j, f)}
           starts == {f[j][1] : j \in later}
           reach == IF later = {} THEN w[2] ELSE T!Min(starts)
           first == \A j \in touched : ~T!Before(j, k, f)
           new == T!Stretched(k, w, f)
<1>1. /\ \A j \in touched : f[j] \in Pairs /\ f[j][1] <= w[2] /\ w[1] <= f[j][2]
      /\ f[k] \in Pairs /\ f[k][1] <= w[2] /\ w[1] <= f[k][2]
  BY DEF T!Touched, T!Live
<1>2. /\ w \in Pairs /\ w[1] \in Nat /\ w[2] \in Nat /\ w[1] < w[2]
      /\ \A j \in touched : f[j][1] \in Nat /\ f[j][2] \in Nat /\ f[j][1] < f[j][2]
      /\ f[k][1] \in Nat /\ f[k][2] \in Nat /\ f[k][1] < f[k][2]
  BY <1>1 DEF Pairs
<1>3. later # {} => T!Min(starts) \in starts /\ \A n \in starts : T!Min(starts) <= n
  <2>1. starts \in SUBSET Nat /\ (later # {} => starts # {})
    BY <1>2
  <2> HIDE DEF starts
  <2> QED
    BY <2>1, First
<1>4. reach \in Nat /\ reach <= w[2] /\ \A j \in later : reach <= f[j][1]
  BY <1>1, <1>2, <1>3
<1>5. \A h \in Nat : h < w[2] /\ (\A j \in later : h < f[j][1]) => h < reach
  BY <1>2, <1>3
<1>6. new = <<IF first THEN T!Min({f[k][1], w[1]}) ELSE f[k][1],
              T!Max({f[k][2], reach})>>
  BY DEF T!Stretched
<1> HIDE DEF touched, later, starts, reach, first, new
<1>7. /\ new = <<new[1], new[2]>>
      /\ new[1] = IF first THEN (IF f[k][1] <= w[1] THEN f[k][1] ELSE w[1])
                  ELSE f[k][1]
      /\ new[2] = IF f[k][2] <= reach THEN reach ELSE f[k][2]
  BY <1>2, <1>4, <1>6, Pair
<1>8. new \in Pairs /\ new[1] <= f[k][1] /\ f[k][2] <= new[2]
  <2>1. new[1] \in Nat /\ new[2] \in Nat /\ new[1] <= f[k][1] /\ f[k][2] <= new[2]
    BY <1>2, <1>4, <1>7
  <2>2. new[1] < new[2]
    BY <1>2, <2>1
  <2> QED
    BY <1>7, <2>1, <2>2 DEF Pairs
<1>9. /\ new[1] = f[k][1] \/ new[1] = w[1]
      /\ new[2] = f[k][2] \/ new[2] <= w[2]
      /\ ~first => new[1] = f[k][1]
      /\ first => new[1] <= w[1]
  BY <1>2, <1>4, <1>7
<1>10. \A j \in later : new[2] = f[k][2] \/ new[2] <= f[j][1]
  BY <1>4, <1>7
<1>11. \A h \in Nat : h < w[2] /\ (\A j \in later : h < f[j][1]) => h < new[2]
  <2> SUFFICES ASSUME NEW h \in Nat, h < reach PROVE h < new[2]
    BY <1>5
  <2> QED
    BY <1>2, <1>4, <1>7
<1> QED
  BY <1>8, <1>9, <1>10, <1>11 DEF touched, later, first, new

-----------------------------------------------------------------------------
\* To begin with there is no slot.
LEMMA HInit == Init => HInv
<1> SUFFICES ASSUME Init PROVE HInv
  OBVIOUS
<1>1. T!Init
  BY DEF Init
<1>2. T!Live(slots) = {} /\ T!Busy = {}
  BY <1>1 DEF T!Init, T!Live, T!Busy, T!Idle
<1>3. /\ MaxSlots \in Nat
      /\ Dates \in [publication : Nat, start : Nat, end : Nat]
  BY RequestsAssumption DEF T!TimeSlotsAssumption
<1>4. HTypeOK /\ HMade
  <2>1. dates = Dates /\ loose = FALSE /\ created = 0
    BY <1>1 DEF T!Init
  <2>2. slots \in [T!Slot -> Pairs \cup {None}] /\ HMade
    BY <1>1 DEF T!Init, HMade
  <2>3. /\ at \in [Placing -> Pairs \cup {None}]
        /\ undo \in [Placing -> Pairs \cup {None}]
        /\ hourReq \in [Web -> {T!Idle} \cup Reading]
    BY <1>1 DEF T!Init
  <2>4. created \in 0 .. MaxSlots
    BY <1>3, <2>1
  <2>5. loose \in BOOLEAN
    BY <2>1
  <2>6. dates \in [publication : Nat, start : Nat, end : Nat]
    BY <1>3, <2>1
  <2> QED
    BY <2>2, <2>3, <2>4, <2>5, <2>6 DEF HTypeOK
<1> QED
  BY <1>1, <1>2, <1>4 DEF T!Init, HInv, HRead, HUndo, DatesHoldTheProgramme,
     T!DatesHoldTheProgramme

\* What a request has read.
LEMMA HSeen ==
  ASSUME HTypeOK, NEW r \in T!Busy
  PROVE  /\ T!Seen(r) \in [T!Slot -> Pairs \cup {None}]
         /\ r \in Web /\ hourReq[r].locked \in Placing \cup {None}
<1>1. r \in Web /\ hourReq[r].busy
  BY DEF T!Busy
<1>2. ~T!Idle.busy
  BY DEF T!Idle
<1>3. hourReq[r] \in Reading
  BY <1>1, <1>2 DEF HTypeOK
<1> QED
  BY <1>1, <1>3 DEF Reading, T!Seen

\* A request that is done leaves the others as they were.
LEMMA HDone ==
  ASSUME HTypeOK, NEW r \in T!Busy, T!Done(r)
  PROVE  /\ hourReq' \in [Web -> {T!Idle} \cup Reading]
         /\ T!Busy' = T!Busy \ {r}
         /\ \A q \in T!Busy' : T!Seen(q)' = T!Seen(q)
<1>1. /\ hourReq' = [hourReq EXCEPT ![r] = T!Idle] /\ r \in Web
      /\ hourReq'[r] = T!Idle /\ \A q \in Web \ {r} : hourReq'[q] = hourReq[q]
  BY DEF HTypeOK, T!Done, T!Busy
<1>2. T!Busy' = T!Busy \ {r}
  <2>1. ~T!Idle.busy
    BY DEF T!Idle
  <2>2. \A q \in Web : hourReq'[q].busy <=> hourReq[q].busy /\ q # r
    BY <1>1, <2>1
  <2> QED
    BY <2>2 DEF T!Busy
<1>3. hourReq' \in [Web -> {T!Idle} \cup Reading]
  BY <1>1 DEF HTypeOK
<1>4. ASSUME NEW q \in T!Busy' PROVE T!Seen(q)' = T!Seen(q)
  BY <1>1, <1>2 DEF T!Seen, T!Busy
<1> QED
  BY <1>2, <1>3, <1>4

\* The dates only grow when they are widened, and hold the window then.
LEMMA HWiden ==
  ASSUME HTypeOK, NEW w \in Pairs, T!Widen(w)
  PROVE  /\ dates' \in [publication : Nat, start : Nat, end : Nat]
         /\ dates'.start <= dates.start /\ dates.end <= dates'.end
         /\ dates'.start <= w[1] /\ w[2] <= dates'.end
<1>1. /\ dates.start \in Nat /\ dates.end \in Nat /\ w[1] \in Nat /\ w[2] \in Nat
      /\ dates' = [dates EXCEPT !.start = T!Min({dates.start, w[1]}),
                                !.end = T!Max({dates.end, w[2]})]
  BY DEF HTypeOK, Pairs, T!Widen
<1>2. /\ dates'.start = T!Min({dates.start, w[1]})
      /\ dates'.end = T!Max({dates.end, w[2]})
      /\ dates'.publication = dates.publication
      /\ T!Min({dates.start, w[1]}) \in Nat /\ T!Max({dates.end, w[2]}) \in Nat
  BY <1>1, Pair DEF HTypeOK
<1>3. dates' \in [publication : Nat, start : Nat, end : Nat]
  BY <1>1, <1>2 DEF HTypeOK
<1> QED
  BY <1>1, <1>2, <1>3, Pair

\* What earlier dates held, wider dates hold.
LEMMA HWider ==
  ASSUME HTypeOK, dates' \in [publication : Nat, start : Nat, end : Nat],
         dates'.start <= dates.start, dates.end <= dates'.end,
         NEW f \in [T!Slot -> Pairs \cup {None}], Within(f)
  PROVE  \A k \in T!Live(f) : dates'.start <= f[k][1] /\ f[k][2] <= dates'.end
<1> SUFFICES ASSUME NEW k \in T!Live(f)
             PROVE  dates'.start <= f[k][1] /\ f[k][2] <= dates'.end
  OBVIOUS
<1>1. f[k][1] \in Nat /\ f[k][2] \in Nat
  BY DEF T!Live, Pairs
<1>2. dates.start <= f[k][1] /\ f[k][2] <= dates.end
  BY DEF Within
<1> QED
  BY <1>1, <1>2 DEF HTypeOK

\* Whoever is done, and writes slots and placements that the wider dates hold,
\* keeps the invariant.
LEMMA HWithin ==
  ASSUME HInv, NEW r \in T!Busy, T!Done(r), HTypeOK', HMade',
         ~loose' => ~loose,
         dates'.start <= dates.start, dates.end <= dates'.end,
         ~loose' =>
           /\ \A k \in T!Live(slots') :
                \/ k \in T!Live(slots) /\ slots'[k] = slots[k]
                \/ dates'.start <= slots'[k][1] /\ slots'[k][2] <= dates'.end
           /\ \A s \in Placing :
                \/ at'[s] \in {at[s], None}
                \/ at'[s][1] \in dates'.start .. dates'.end - 1,
         \A s \in Placing : undo'[s] \in {undo[s], None}
  PROVE  HInv'
<1>0. dates' \in [publication : Nat, start : Nat, end : Nat]
  BY DEF HTypeOK
<1>1. SUFFICES ASSUME ~loose' PROVE HRead' /\ HUndo' /\ DatesHoldTheProgramme'
  BY DEF HInv, HRead, HUndo, DatesHoldTheProgramme, T!DatesHoldTheProgramme
<1>2. ~loose
  BY <1>1
<1>3. HRead'
  <2> SUFFICES ASSUME NEW q \in T!Busy' PROVE Within(T!Seen(q))'
    BY DEF HRead
  <2>1. q \in T!Busy /\ T!Seen(q)' = T!Seen(q)
    BY HDone DEF HInv
  <2>2. T!Seen(q) \in [T!Slot -> Pairs \cup {None}] /\ Within(T!Seen(q))
    BY <1>2, <2>1, HSeen DEF HInv, HRead
  <2>3. \A k \in T!Live(T!Seen(q)) :
          dates'.start <= T!Seen(q)[k][1] /\ T!Seen(q)[k][2] <= dates'.end
    BY <1>0, <2>2, HWider DEF HInv
  <2> QED
    BY <2>1, <2>3 DEF Within, T!Live
<1>4. Within(slots) /\ slots \in [T!Slot -> Pairs \cup {None}]
  BY <1>2 DEF HInv, HTypeOK, DatesHoldTheProgramme, T!DatesHoldTheProgramme, Within
<1>5. \A k \in T!Live(slots) :
        dates'.start <= slots[k][1] /\ slots[k][2] <= dates'.end
  BY <1>0, <1>4, HWider DEF HInv
<1>6. \A k \in T!Live(slots') :
        dates'.start <= slots'[k][1] /\ slots'[k][2] <= dates'.end
  BY <1>1, <1>5
<1>7. ASSUME NEW s \in Placing, at'[s] # None
      PROVE  at'[s][1] \in dates'.start .. dates'.end - 1
  <2>1. CASE at'[s] = at[s]
    <3>1. at[s][1] \in dates.start .. dates.end - 1
      BY <1>2, <1>7, <2>1 DEF HInv, DatesHoldTheProgramme, T!DatesHoldTheProgramme
    <3> QED
      BY <1>0, <2>1, <3>1 DEF HInv, HTypeOK
  <2> QED
    BY <1>1, <1>7, <2>1
<1>8. HUndo'
  <2> SUFFICES ASSUME NEW s \in Placing, undo'[s] # None
               PROVE  undo'[s][1] \in dates'.start .. dates'.end - 1
    BY DEF HUndo
  <2>1. undo'[s] = undo[s] /\ undo[s] # None
    OBVIOUS
  <2>2. undo[s][1] \in dates.start .. dates.end - 1
    BY <1>2, <2>1 DEF HInv, HUndo
  <2> QED
    BY <1>0, <2>1, <2>2 DEF HInv, HTypeOK
<1> QED
  BY <1>3, <1>6, <1>7, <1>8 DEF DatesHoldTheProgramme, T!DatesHoldTheProgramme, T!Live

-----------------------------------------------------------------------------
\* Slots saved from the panel are within the dates they widen.
LEMMA HSave ==
  ASSUME HInv, NEW r \in T!Busy, NEW k \in T!Slot \cup {0}, NEW w \in Window,
         T!SaveSlot(r, k, w)
  PROVE  HInv'
<1> DEFINE row == IF k = 0 THEN created + 1 ELSE k
<1>1. /\ T!Done(r) /\ T!Widen(w) /\ row \in T!Slot
      /\ k = 0 \/ k \in T!Live(slots)
      /\ slots' = [slots EXCEPT ![row] = w]
      /\ created' = T!Max({created, row}) /\ UNCHANGED <<loose, at, undo>>
  BY DEF T!SaveSlot
<1>2. w \in Pairs
  BY RequestsAssumption DEF T!TimeSlotsAssumption, Pairs
<1>3. /\ dates' \in [publication : Nat, start : Nat, end : Nat]
      /\ dates'.start <= dates.start /\ dates.end <= dates'.end
      /\ dates'.start <= w[1] /\ w[2] <= dates'.end
  BY <1>1, <1>2, HWiden DEF HInv
<1>4. created' \in 0 .. MaxSlots /\ created <= created' /\ row <= created'
  <2>1. created \in 0 .. MaxSlots /\ row \in 1 .. MaxSlots /\ MaxSlots \in Nat
    BY <1>1, RequestsAssumption DEF HInv, HTypeOK, T!Slot, T!TimeSlotsAssumption
  <2> HIDE DEF row
  <2>2. created \in Nat /\ row \in Nat
    BY <2>1
  <2>3. created' = IF created <= row THEN row ELSE created
    BY <1>1, <2>2, Pair
  <2> QED
    BY <2>1, <2>2, <2>3
<1> HIDE DEF row
<1>5. HTypeOK'
  BY <1>1, <1>2, <1>3, <1>4, HDone DEF HInv, HTypeOK
<1>6. HMade'
  BY <1>1, <1>4 DEF HInv, HTypeOK, HMade, T!Slot
<1>7. \A j \in T!Live(slots') :
        \/ j \in T!Live(slots) /\ slots'[j] = slots[j]
        \/ dates'.start <= slots'[j][1] /\ slots'[j][2] <= dates'.end
  BY <1>1, <1>3 DEF HInv, HTypeOK, T!Live
<1> QED
  BY <1>1, <1>3, <1>5, <1>6, <1>7, HWithin

\* An import says so when it makes a slot outside the dates.
LEMMA HImport ==
  ASSUME HInv, NEW w \in Imported, T!ImportSlot(w)
  PROVE  HInv'
<1> DEFINE row == created + 1
<1>1. /\ row \in T!Slot /\ slots' = [slots EXCEPT ![row] = w] /\ created' = row
      /\ loose' = (loose \/ w[1] < dates.start \/ dates.end < w[2])
      /\ UNCHANGED <<dates, at, undo, hourReq>>
  BY DEF T!ImportSlot
<1>2. w \in Pairs /\ MaxSlots \in Nat
  BY RequestsAssumption DEF T!TimeSlotsAssumption, Pairs
<1>3. loose' \in BOOLEAN
  BY <1>1
<1>4. ~loose' => ~loose /\ dates.start <= w[1] /\ w[2] <= dates.end
  <2>1. ~loose' => ~loose /\ ~(w[1] < dates.start) /\ ~(dates.end < w[2])
    BY <1>1, Zenon
  <2>2. /\ w[1] \in Nat /\ w[2] \in Nat
        /\ dates.start \in Nat /\ dates.end \in Nat
    BY <1>2 DEF HInv, HTypeOK, Pairs
  <2> QED
    BY <2>1, <2>2
<1>5. created' \in 0 .. MaxSlots /\ created < created' /\ created' = row
  BY <1>1, <1>2 DEF HInv, HTypeOK, T!Slot
<1> HIDE DEF row
<1>6. HTypeOK'
  BY <1>1, <1>2, <1>3, <1>5 DEF HInv, HTypeOK
<1>7. HMade'
  BY <1>1, <1>5 DEF HInv, HTypeOK, HMade, T!Slot
<1>8. DatesHoldTheProgramme'
  BY <1>1, <1>4 DEF HInv, HTypeOK, DatesHoldTheProgramme, T!DatesHoldTheProgramme, T!Live
<1>9. HRead'
  BY <1>1, <1>4 DEF HInv, HRead, T!Busy, T!Seen, Within
<1>10. HUndo'
  BY <1>1, <1>4 DEF HInv, HUndo
<1> QED
  BY <1>6, <1>7, <1>8, <1>9, <1>10 DEF HInv

\* What a placement leaves of the slots, each touched one as it was stretched.
LEMMA HPlaced ==
  ASSUME HInv, NEW r \in T!Dropping, NEW w \in Window, T!Place(r, w)
  PROVE  LET seen == T!Seen(r) IN
         /\ T!Fits(w, seen) => slots' = slots /\ created' = created
         /\ ~T!Fits(w, seen) => T!Widen(w)
         /\ ~T!Fits(w, seen) /\ T!Touched(w, seen) = {} =>
              /\ created' = created + 1 /\ created' \in T!Slot
              /\ slots' = [slots EXCEPT ![created'] = w]
         /\ ~T!Fits(w, seen) /\ T!Touched(w, seen) # {} =>
              /\ created' = created
              /\ slots' = [k \in T!Slot |->
                   IF k \in T!Changed(w, seen) THEN T!Stretched(k, w, seen)
                   ELSE slots[k]]
         /\ T!Changed(w, seen) \subseteq T!Live(slots) \/ T!Fits(w, seen)
<1> DEFINE seen == T!Seen(r)
           alone == ~T!Fits(w, seen) /\ T!Touched(w, seen) = {}
           changed == IF T!Fits(w, seen) THEN {} ELSE T!Changed(w, seen)
<1>1. /\ changed \subseteq T!Live(slots)
      /\ ~T!Fits(w, seen) => T!Widen(w)
      /\ created' = IF alone THEN created + 1 ELSE created
      /\ created' \in 0 .. MaxSlots
      /\ slots' = [k \in T!Slot |->
           IF k \in changed THEN T!Stretched(k, w, seen)
           ELSE IF k = created' /\ created' # created THEN w ELSE slots[k]]
  BY DEF T!Place
<1>2. created \in Nat /\ MaxSlots \in Nat /\ slots \in [T!Slot -> Pairs \cup {None}]
  BY RequestsAssumption DEF HInv, HTypeOK, T!TimeSlotsAssumption
<1>3. alone => changed = {} /\ created' = created + 1 /\ created' \in T!Slot
  BY <1>1, <1>2 DEF T!Changed, T!Slot
<1>4. ~alone => created' = created
  BY <1>1
<1>5. T!Fits(w, seen) => changed = {} /\ ~alone
  OBVIOUS
<1> HIDE DEF alone, changed, seen
<1>6. ASSUME alone PROVE slots' = [slots EXCEPT ![created'] = w]
  <2>1. created' # created /\ changed = {} /\ created' \in T!Slot
    BY <1>2, <1>3, <1>6
  <2>2. slots' = [k \in T!Slot |-> IF k = created' THEN w ELSE slots[k]]
    BY <1>1, <2>1
  <2> QED
    BY <1>2, <2>1, <2>2
<1>7. T!Fits(w, seen) => slots' = slots
  BY <1>1, <1>2, <1>4, <1>5
<1>8. ~alone => slots' = [k \in T!Slot |->
                    IF k \in changed THEN T!Stretched(k, w, seen) ELSE slots[k]]
  BY <1>1, <1>4
<1> QED
  BY <1>1, <1>3, <1>4, <1>5, <1>6, <1>7, <1>8 DEF alone, changed, seen

\* A stretched slot is within whatever holds the slot and the placement.
LEMMA HStretch ==
  ASSUME HTypeOK, dates' \in [publication : Nat, start : Nat, end : Nat],
         NEW f \in [T!Slot -> Pairs \cup {None}], NEW w \in Pairs,
         NEW k \in T!Touched(w, f),
         dates'.start <= w[1], w[2] <= dates'.end,
         dates'.start <= f[k][1], f[k][2] <= dates'.end
  PROVE  LET new == T!Stretched(k, w, f) IN
         new \in Pairs /\ dates'.start <= new[1] /\ new[2] <= dates'.end
<1> DEFINE new == T!Stretched(k, w, f)
<1>1. /\ new \in Pairs
      /\ new[1] = f[k][1] \/ new[1] = w[1]
      /\ new[2] = f[k][2] \/ new[2] <= w[2]
  BY StretchedWindow
<1> HIDE DEF new
<1>2. dates'.end \in Nat /\ w[2] \in Nat /\ new[2] \in Nat
  BY <1>1 DEF Pairs
<1>3. dates'.start <= new[1] /\ new[2] <= dates'.end
  BY <1>1, <1>2
<1> QED
  BY <1>1, <1>3 DEF new

\* A placement is within the dates it widens, or within slots it read, which
\* the dates hold.
LEMMA HPlace ==
  ASSUME HInv, NEW r \in T!Dropping, NEW w \in Window, T!Place(r, w)
  PROVE  HInv'
<1> DEFINE seen == T!Seen(r)
           s == hourReq[r].locked
<1>1. r \in T!Busy /\ s # None
  BY DEF T!Dropping
<1>2. seen \in [T!Slot -> Pairs \cup {None}] /\ s \in Placing
  BY <1>1, HSeen DEF HInv
<1>3. w \in Pairs
  BY RequestsAssumption DEF T!TimeSlotsAssumption, Pairs
<1>4. /\ T!Done(r) /\ loose' = loose /\ at' = [at EXCEPT ![s] = w]
      /\ undo' = [undo EXCEPT ![s] = None]
      /\ T!Fits(w, seen) => dates' = dates
  BY DEF T!Place
<1>5. ~T!Fits(w, seen) => T!Widen(w)
  BY HPlaced
<1> HIDE DEF seen, s
<1>6. /\ dates' \in [publication : Nat, start : Nat, end : Nat]
      /\ dates'.start <= dates.start /\ dates.end <= dates'.end
      /\ ~T!Fits(w, seen) => dates'.start <= w[1] /\ w[2] <= dates'.end
  <2>1. CASE T!Fits(w, seen)
    BY <1>4, <2>1 DEF HInv, HTypeOK
  <2>2. CASE ~T!Fits(w, seen)
    BY <1>3, <1>5, <2>2, HWiden DEF HInv
  <2> QED
    BY <2>1, <2>2
<1>7. ~loose => \A k \in T!Live(seen) :
                  dates'.start <= seen[k][1] /\ seen[k][2] <= dates'.end
  <2>1. ~loose => Within(seen)
    BY <1>1 DEF HInv, HRead, seen
  <2> QED
    BY <1>2, <1>6, <2>1, HWider DEF HInv
<1>8. ~loose => w[1] \in dates'.start .. dates'.end - 1
  <2>1. CASE T!Fits(w, seen)
    <3>1. w[1] \in T!HoursOf(w)
      BY <1>3 DEF T!HoursOf, Pairs
    <3>2. PICK k \in T!Live(seen) : w[1] \in T!HoursOf(seen[k])
      BY <2>1, <3>1 DEF T!Fits, T!Open
    <3>3. seen[k] \in Pairs
      BY <1>2 DEF T!Live
    <3> QED
      BY <1>3, <1>6, <1>7, <3>2, <3>3 DEF T!HoursOf, Pairs
  <2>2. CASE ~T!Fits(w, seen)
    BY <1>3, <1>6, <2>2 DEF Pairs
  <2> QED
    BY <2>1, <2>2
<1>9. /\ HTypeOK' /\ HMade'
      /\ ~loose => \A k \in T!Live(slots') :
           \/ k \in T!Live(slots) /\ slots'[k] = slots[k]
           \/ dates'.start <= slots'[k][1] /\ slots'[k][2] <= dates'.end
  <2>0. slots \in [T!Slot -> Pairs \cup {None}] /\ created \in Nat /\ MaxSlots \in Nat
        /\ created \in 0 .. MaxSlots
    BY RequestsAssumption DEF HInv, HTypeOK, T!TimeSlotsAssumption
  <2>1. CASE T!Fits(w, seen)
    <3>1. slots' = slots /\ created' = created
      BY <2>1, HPlaced DEF seen
    <3>2. HTypeOK'
      BY <1>1, <1>2, <1>3, <1>4, <1>6, <3>1, HDone DEF HInv, HTypeOK
    <3> QED
      BY <3>1, <3>2 DEF HInv, HMade, T!Live
  <2>2. CASE ~T!Fits(w, seen) /\ T!Touched(w, seen) = {}
    <3>1. /\ created' = created + 1 /\ created' \in T!Slot
          /\ slots' = [slots EXCEPT ![created'] = w]
      BY <2>2, HPlaced DEF seen
    <3>2. slots' \in [T!Slot -> Pairs \cup {None}] /\ created' \in 0 .. MaxSlots
      BY <1>3, <2>0, <3>1 DEF T!Slot
    <3>3. HTypeOK'
      BY <1>1, <1>2, <1>3, <1>4, <1>6, <3>2, HDone DEF HInv, HTypeOK
    <3>4. HMade'
      BY <2>0, <3>1 DEF HInv, HMade, T!Slot
    <3> QED
      BY <1>6, <2>0, <2>2, <3>1, <3>3, <3>4 DEF T!Live
  <2>3. CASE ~T!Fits(w, seen) /\ T!Touched(w, seen) # {}
    <3> DEFINE changed == T!Changed(w, seen)
    <3>1. /\ created' = created /\ changed \subseteq T!Live(slots)
          /\ slots' = [k \in T!Slot |->
               IF k \in changed THEN T!Stretched(k, w, seen) ELSE slots[k]]
      BY <2>3, HPlaced DEF seen
    <3>2. changed \subseteq T!Touched(w, seen) /\ T!Touched(w, seen) \subseteq T!Live(seen)
      BY DEF T!Changed, T!Touched
    <3>3. \A k \in changed : T!Stretched(k, w, seen) \in Pairs
      BY <1>2, <1>3, <3>2, StretchedWindow
    <3>4. ~loose => \A k \in changed :
            LET new == T!Stretched(k, w, seen) IN
            dates'.start <= new[1] /\ new[2] <= dates'.end
      BY <1>2, <1>3, <1>6, <1>7, <2>3, <3>2, HStretch DEF HInv
    <3> HIDE DEF changed
    <3>5. slots' \in [T!Slot -> Pairs \cup {None}]
      BY <2>0, <3>1, <3>3
    <3>6. HTypeOK'
      BY <1>1, <1>2, <1>3, <1>4, <1>6, <3>1, <3>5, HDone DEF HInv, HTypeOK
    <3>7. HMade'
      BY <3>1 DEF HInv, HMade, T!Live
    <3> QED
      BY <3>1, <3>4, <3>6, <3>7 DEF T!Live
  <2> QED
    BY <2>1, <2>2, <2>3
<1>10. \A t \in Placing :
         (at'[t] = at[t] \/ at'[t] = w) /\ undo'[t] \in {undo[t], None}
  BY <1>2, <1>4 DEF HInv, HTypeOK
<1> QED
  BY <1>1, <1>4, <1>6, <1>8, <1>9, <1>10, HWithin

\* The other steps of a request, and those of an organizer.
LEMMA HBeside ==
  ASSUME HInv,
         \/ \E r \in Web \ T!Busy, s \in Placing \cup {None} : T!Read(r, s)
         \/ \E r \in T!Busy : T!Abort(r)
         \/ \E r \in T!Busy : \E k \in T!Live(T!Seen(r)) : T!DeleteSlot(r, k)
         \/ \E r \in T!Busy, s \in Placing : \E k \in T!Live(T!Seen(r)) : T!Accept(r, s, k)
         \/ \E s \in Placing :
              T!Unplace(s) \/ T!Revert(s) \/ \E w \in Window : T!Resize(s, w)
         \/ \E d \in Edits : T!EditDates(d)
         \/ UNCHANGED hours
  PROVE  HInv'
<1>1. ASSUME NEW r \in Web \ T!Busy, NEW s \in Placing \cup {None}, T!Read(r, s)
      PROVE  HInv'
  <2> DEFINE reading == [busy |-> TRUE, locked |-> s, slots |-> slots]
  <2>1. reading \in Reading /\ reading.slots = slots
    BY DEF Reading, HInv, HTypeOK
  <2>2. hourReq' = [hourReq EXCEPT ![r] = reading]
        /\ UNCHANGED <<dates, loose, slots, created, at, undo>>
    BY <1>1 DEF T!Read
  <2> HIDE DEF reading
  <2>3. HTypeOK' /\ HMade'
    BY <2>1, <2>2 DEF HInv, HTypeOK, HMade
  <2>4. hourReq'[r] = reading /\ \A q \in Web \ {r} : hourReq'[q] = hourReq[q]
    BY <2>2 DEF HInv, HTypeOK
  <2>5. ~loose => Within(slots)
    BY DEF HInv, DatesHoldTheProgramme, T!DatesHoldTheProgramme, Within
  <2>6. HRead'
    BY <2>1, <2>2, <2>4, <2>5 DEF HInv, HRead, T!Busy, T!Seen, Within, T!Live
  <2> QED
    BY <2>2, <2>3, <2>6 DEF HInv, HUndo, DatesHoldTheProgramme,
       T!DatesHoldTheProgramme, T!Live
<1>2. ASSUME NEW r \in T!Busy, T!Abort(r) PROVE HInv'
  <2>1. T!Done(r) /\ UNCHANGED <<dates, loose, slots, created, at, undo>>
    BY <1>2 DEF T!Abort
  <2>2. HTypeOK' /\ HMade'
    BY <2>1, HDone DEF HInv, HTypeOK, HMade
  <2>3. dates'.start <= dates.start /\ dates.end <= dates'.end
    BY <2>1 DEF HInv, HTypeOK
  <2>4. /\ \A k \in T!Live(slots') : k \in T!Live(slots) /\ slots'[k] = slots[k]
        /\ \A s \in Placing : at'[s] = at[s] /\ undo'[s] = undo[s]
        /\ (~loose' => ~loose)
    BY <2>1 DEF T!Live
  <2> QED
    BY <2>1, <2>2, <2>3, <2>4, HWithin
<1>3. ASSUME NEW r \in T!Busy, NEW k \in T!Live(T!Seen(r)), T!DeleteSlot(r, k)
      PROVE  HInv'
  <2>1. T!Done(r) /\ UNCHANGED <<dates, loose, created, at, undo>> /\ k \in T!Slot
        /\ slots' = [slots EXCEPT ![k] = None]
    BY <1>3 DEF T!DeleteSlot, T!Live
  <2>2. HTypeOK' /\ HMade'
    BY <2>1, HDone DEF HInv, HTypeOK, HMade
  <2>3. \A j \in T!Live(slots') : j \in T!Live(slots) /\ slots'[j] = slots[j]
    BY <2>1 DEF HInv, HTypeOK, T!Live
  <2>4. /\ dates'.start <= dates.start /\ dates.end <= dates'.end
        /\ (~loose' => ~loose)
        /\ \A s \in Placing : at'[s] = at[s] /\ undo'[s] = undo[s]
    BY <2>1 DEF HInv, HTypeOK
  <2> QED
    BY <2>1, <2>2, <2>3, <2>4, HWithin
<1>4. ASSUME NEW r \in T!Busy, NEW s \in Placing, NEW k \in T!Live(T!Seen(r)),
             T!Accept(r, s, k)
      PROVE  HInv'
  <2> DEFINE w == T!Seen(r)[k]
  <2>1. T!Done(r) /\ UNCHANGED <<dates, loose, slots, created>>
        /\ at' = [at EXCEPT ![s] = w] /\ undo' = [undo EXCEPT ![s] = None]
    BY <1>4 DEF T!Accept
  <2>2. w \in Pairs /\ (~loose => dates.start <= w[1] /\ w[2] <= dates.end)
    BY HSeen DEF HInv, HRead, Within, T!Live
  <2> HIDE DEF w
  <2>3. HTypeOK' /\ HMade'
    BY <2>1, <2>2, HDone DEF HInv, HTypeOK, HMade
  <2>4. ~loose => w[1] \in dates.start .. dates.end - 1
    BY <2>2 DEF HInv, HTypeOK, Pairs
  <2>5. \A t \in Placing :
          (at'[t] = at[t] \/ at'[t] = w) /\ undo'[t] \in {undo[t], None}
    BY <2>1 DEF HInv, HTypeOK
  <2>6. dates'.start <= dates.start /\ dates.end <= dates'.end
    BY <2>1 DEF HInv, HTypeOK
  <2> QED
    BY <2>1, <2>3, <2>4, <2>5, <2>6, HWithin DEF T!Live
<1>5. ASSUME NEW s \in Placing,
             T!Unplace(s) \/ T!Revert(s) \/ \E w \in Window : T!Resize(s, w)
      PROVE  HInv'
  <2> DEFINE from(v, t) == v = None \/ (at[t] # None /\ v[1] = at[t][1])
                             \/ (undo[t] # None /\ v[1] = undo[t][1])
  <2>1. UNCHANGED <<dates, loose, slots, created, hourReq>>
    BY <1>5 DEF T!Unplace, T!Revert, T!Resize
  <2>2. /\ at' \in [Placing -> Pairs \cup {None}]
        /\ undo' \in [Placing -> Pairs \cup {None}]
        /\ \A t \in Placing : from(at'[t], t) /\ from(undo'[t], t)
    <3>1. CASE T!Unplace(s)
      <4>1. PICK w \in {at[s], None} : undo' = [undo EXCEPT ![s] = w]
        BY <3>1 DEF T!Unplace
      <4> QED
        BY <3>1, <4>1 DEF T!Unplace, HInv, HTypeOK
    <3>2. CASE T!Revert(s)
      BY <3>2 DEF T!Revert, HInv, HTypeOK
    <3>3. ASSUME NEW w \in Window, T!Resize(s, w)
          PROVE  /\ at' \in [Placing -> Pairs \cup {None}]
                 /\ undo' \in [Placing -> Pairs \cup {None}]
                 /\ \A t \in Placing : from(at'[t], t) /\ from(undo'[t], t)
      <4>1. w \in Pairs
        BY RequestsAssumption DEF T!TimeSlotsAssumption, Pairs
      <4> QED
        BY <3>3, <4>1 DEF T!Resize, HInv, HTypeOK
    <3> QED
      BY <1>5, <3>1, <3>2, <3>3
  <2>3. HTypeOK' /\ HMade' /\ HRead'
    BY <2>1, <2>2 DEF HInv, HTypeOK, HMade, HRead, T!Busy, T!Seen, Within, T!Live
  <2>4. ASSUME ~loose, NEW t \in Placing, NEW v, from(v, t), v # None
        PROVE  v[1] \in dates.start .. dates.end - 1
    BY <2>4 DEF HInv, HUndo, DatesHoldTheProgramme, T!DatesHoldTheProgramme
  <2> HIDE DEF from
  <2> QED
    BY <2>1, <2>2, <2>3, <2>4 DEF HInv, HUndo, DatesHoldTheProgramme,
       T!DatesHoldTheProgramme, T!Live
<1>6. ASSUME NEW d \in Edits, T!EditDates(d) PROVE HInv'
  <2>1. d \in [publication : Nat, start : Nat, end : Nat]
    BY RequestsAssumption DEF T!TimeSlotsAssumption
  <2>2. dates' = d /\ loose' = TRUE /\ UNCHANGED <<slots, created, at, undo, hourReq>>
    BY <1>6 DEF T!EditDates
  <2>3. HTypeOK' /\ HMade'
    BY <2>1, <2>2 DEF HInv, HTypeOK, HMade
  <2> QED
    BY <2>2, <2>3 DEF HInv, HRead, HUndo, DatesHoldTheProgramme,
       T!DatesHoldTheProgramme
<1>7. CASE UNCHANGED hours
  BY <1>7 DEF hours, HInv, HTypeOK, HMade, HRead, HUndo, DatesHoldTheProgramme,
     T!DatesHoldTheProgramme, T!Busy, T!Seen, T!Live, Within
<1> QED
  BY <1>1, <1>2, <1>3, <1>4, <1>5, <1>6, <1>7

\* Every step of the hours keeps the invariant; the other parts leave it alone.
LEMMA HNext == HInv /\ [Next]_vars => HInv'
<1> SUFFICES ASSUME HInv, [Next]_vars PROVE HInv'
  OBVIOUS
<1>1. T!Dropping \subseteq T!Busy
  BY DEF T!Dropping
<1>2. CASE T!Next
  BY <1>1, <1>2, HSave, HImport, HPlace, HBeside DEF T!Next
<1>3. CASE UNCHANGED hours
  BY <1>3, HBeside
<1> QED
  BY <1>2, <1>3 DEF Next, vars, InEncounters, InAccounts, InParties, InLocks

\* As long as nobody sets them otherwise, the event's dates hold its slots and
\* its timetable (DatesHoldTheProgramme), whoever widens them at the same time:
\* the dates also hold every slot that a request in flight has read.
THEOREM DatesHoldTheProgrammeHolds == Spec => []DatesHoldTheProgramme
<1>1. HInv => DatesHoldTheProgramme
  BY DEF HInv
<1> QED
  BY <1>1, HInit, HNext, PTL DEF Spec

-----------------------------------------------------------------------------
\* Slots j and k do not come to overlap in f.
Apart(j, k, f) ==
  {j, k} \subseteq T!Live(f) => j = k \/ ~T!Overlap(f[j], f[k])

\* Of two slots that do not overlap, stretching neither over the other: the
\* earlier stops at the later, and neither grows past the placement, which
\* touches only what it is next to.
LEMMA StretchedApart ==
  ASSUME NEW f \in [T!Slot -> Pairs \cup {None}], NEW w \in Pairs, None \notin Pairs,
         NEW g, \A i \in T!Slot : g[i] = IF i \in T!Touched(w, f)
                                           THEN T!Stretched(i, w, f) ELSE f[i],
         NEW j \in T!Slot, NEW k \in T!Slot, Apart(j, k, f)
  PROVE  Apart(j, k, g)
<1> DEFINE touched == T!Touched(w, f)
<1> SUFFICES ASSUME j \in T!Live(g), k \in T!Live(g), j # k
             PROVE  ~T!Overlap(g[j], g[k])
  BY DEF Apart
<1>1. w[1] \in Nat /\ w[2] \in Nat /\ w[1] < w[2]
  BY DEF Pairs
<1>2. /\ touched \subseteq T!Live(f)
      /\ \A i \in T!Live(f) : f[i] \in Pairs /\ f[i][1] \in Nat /\ f[i][2] \in Nat
                              /\ f[i][1] < f[i][2]
      /\ \A i \in T!Live(f) : i \in touched <=> f[i][1] <= w[2] /\ w[1] <= f[i][2]
  BY DEF T!Touched, T!Live, Pairs
<1>3. {j, k} \subseteq T!Live(f)
  BY <1>2 DEF T!Live
<1>4. \A i \in touched :
        /\ g[i] \in Pairs /\ g[i][1] <= f[i][1] /\ f[i][2] <= g[i][2]
        /\ g[i][1] = f[i][1] \/ g[i][1] = w[1]
        /\ g[i][2] = f[i][2] \/ g[i][2] <= w[2]
        /\ (\E l \in touched : T!Before(l, i, f)) => g[i][1] = f[i][1]
        /\ \A l \in touched : T!Before(i, l, f) =>
             g[i][2] = f[i][2] \/ g[i][2] <= f[l][1]
  BY <1>2, StretchedWindow DEF T!Live
<1>5. \A i \in T!Slot \ touched : g[i] = f[i]
  OBVIOUS
<1> HIDE DEF touched
<1>6. ~T!Overlap(f[j], f[k])
  BY <1>3 DEF Apart
<1>7. \A i \in touched : g[i][1] \in Nat /\ g[i][2] \in Nat /\ g[i][1] < g[i][2]
  BY <1>4 DEF Pairs
<1>8. ASSUME NEW m \in T!Live(f), NEW n \in T!Live(f), ~T!Overlap(f[m], f[n]),
             m \in touched, n \notin touched
      PROVE  ~T!Overlap(g[m], g[n])
  BY <1>1, <1>2, <1>4, <1>5, <1>7, <1>8 DEF T!Overlap, T!Live
<1>9. ASSUME NEW m \in touched, NEW n \in touched, ~T!Overlap(f[m], f[n]),
             T!Before(m, n, f)
      PROVE  ~T!Overlap(g[m], g[n])
  BY <1>2, <1>4, <1>7, <1>9 DEF T!Overlap, T!Before
<1>10. T!Before(j, k, f) \/ T!Before(k, j, f)
  BY <1>2, <1>3 DEF T!Before, T!Slot
<1>11. \A v, x : T!Overlap(v, x) <=> T!Overlap(x, v)
  BY DEF T!Overlap
<1> QED
  BY <1>3, <1>5, <1>6, <1>8, <1>9, <1>10, <1>11

\* When the slots are still as a placement read them, each touched one is
\* stretched, whether that changes it or not.
LEMMA HStretched ==
  ASSUME HInv, NEW r \in T!Dropping, NEW w \in Window, T!Place(r, w), ~T!Stale(r),
         ~T!Fits(w, slots), T!Touched(w, slots) # {}
  PROVE  \A i \in T!Slot : slots'[i] = IF i \in T!Touched(w, slots)
                                         THEN T!Stretched(i, w, slots) ELSE slots[i]
<1>1. T!Seen(r) = slots
  BY DEF T!Stale
<1>2. slots' = [k \in T!Slot |->
        IF k \in T!Changed(w, slots) THEN T!Stretched(k, w, slots) ELSE slots[k]]
  BY <1>1, HPlaced
<1>3. T!Touched(w, slots) \subseteq T!Slot
  BY DEF T!Touched, T!Live
<1> QED
  BY <1>2, <1>3 DEF T!Changed

\* Whoever writes slots that are as they were read makes none overlap.
LEMMA HApart ==
  ASSUME HInv, T!Next, slots' # slots, NEW j \in T!Slot, NEW k \in T!Slot,
         Apart(j, k, slots)
  PROVE  \/ Apart(j, k, slots')
         \/ hourReq' = hourReq
         \/ \E r \in T!Busy : hourReq'[r] = T!Idle /\ T!Stale(r)
<1>0. /\ slots \in [T!Slot -> Pairs \cup {None}] /\ None \notin Pairs
      /\ Window \subseteq Pairs /\ \A r \in T!Busy : r \in Web
      /\ hourReq \in [Web -> {T!Idle} \cup Reading]
  BY RequestsAssumption DEF HInv, HTypeOK, T!TimeSlotsAssumption, Pairs, T!Busy
<1>1. ASSUME NEW r \in T!Busy, T!Done(r)
      PROVE  hourReq'[r] = T!Idle
  BY <1>0, <1>1 DEF T!Done
<1>2. ASSUME NEW r \in T!Busy, NEW n \in T!Slot \cup {0}, NEW w \in Window,
             T!SaveSlot(r, n, w), ~T!Stale(r)
      PROVE  Apart(j, k, slots')
  <2> DEFINE row == IF n = 0 THEN created + 1 ELSE n
  <2>1. /\ row \in T!Slot /\ slots' = [slots EXCEPT ![row] = w]
        /\ n # 0 => row = n
        /\ ~T!Clashes(n, w, slots)
    BY <1>2 DEF T!SaveSlot, T!Stale
  <2> HIDE DEF row
  <2>2. \A i \in T!Live(slots) \ {row} : ~T!Overlap(slots[i], w)
    <3> SUFFICES ASSUME NEW i \in T!Live(slots), i # row PROVE ~T!Overlap(slots[i], w)
      OBVIOUS
    <3>1. i \in T!Slot /\ i # 0
      BY DEF T!Live, T!Slot
    <3>2. i # n
      BY <2>1, <3>1
    <3> QED
      BY <2>1, <3>2 DEF T!Clashes
  <2> QED
    BY <1>0, <2>1, <2>2 DEF Apart, T!Live, T!Overlap
<1>3. ASSUME NEW r \in T!Busy, NEW n \in T!Live(T!Seen(r)), T!DeleteSlot(r, n)
      PROVE  Apart(j, k, slots')
  BY <1>0, <1>3 DEF T!DeleteSlot, Apart, T!Live
<1>4. ASSUME NEW r \in T!Dropping, NEW w \in Window, T!Place(r, w), ~T!Stale(r)
      PROVE  Apart(j, k, slots')
  <2>0. T!Seen(r) = slots /\ w \in Pairs
    BY <1>0, <1>4 DEF T!Stale
  <2>1. ~T!Fits(w, slots)
    BY <1>4, <2>0, HPlaced
  <2>2. CASE T!Touched(w, slots) = {}
    <3>1. created' \in T!Slot /\ slots' = [slots EXCEPT ![created'] = w]
      BY <1>4, <2>0, <2>1, <2>2, HPlaced
    <3>2. \A i \in T!Live(slots) : ~T!Overlap(slots[i], w)
      BY <1>0, <2>0, <2>2 DEF T!Touched, T!Live, T!Overlap, Pairs
    <3> QED
      BY <1>0, <3>1, <3>2 DEF Apart, T!Live, T!Overlap
  <2>3. CASE T!Touched(w, slots) # {}
    BY <1>0, <1>4, <2>0, <2>1, <2>3, HStretched, StretchedApart
  <2> QED
    BY <2>2, <2>3
<1>5. \A r \in T!Busy :
        (\E n \in T!Slot \cup {0}, w \in Window : T!SaveSlot(r, n, w))
          \/ (\E w \in Window : T!Place(r, w)) => T!Done(r)
  BY DEF T!SaveSlot, T!Place
<1>6. T!Dropping \subseteq T!Busy
  BY DEF T!Dropping
<1>7. \/ \E r \in T!Busy, n \in T!Slot \cup {0}, w \in Window : T!SaveSlot(r, n, w)
      \/ \E r \in T!Busy : \E n \in T!Live(T!Seen(r)) : T!DeleteSlot(r, n)
      \/ \E r \in T!Dropping, w \in Window : T!Place(r, w)
      \/ hourReq' = hourReq
  BY DEF T!Next, T!Read, T!Abort, T!Accept, T!Unplace, T!Revert,
     T!Resize, T!EditDates, T!ImportSlot
<1> QED
  BY <1>1, <1>2, <1>3, <1>4, <1>5, <1>6, <1>7

\* Two slots come to overlap only by an import, or when a request saves what it
\* decided before the other was saved (SlotsApart): of any number of slots that
\* a placement stretches at once, none reaches into another.
THEOREM SlotsApartHolds == Spec => SlotsApart
<1>1. HInv /\ [Next]_vars =>
        [slots' # slots => \A j, k \in T!Slot :
           LET apart(f) == {j, k} \subseteq T!Live(f) => j = k \/ ~T!Overlap(f[j], f[k]) IN
           apart(slots) /\ ~apart(slots') =>
             \/ hourReq' = hourReq
             \/ \E r \in T!Busy : hourReq'[r] = T!Idle /\ T!Stale(r)]_T!vars
  <2>1. HInv /\ T!Next =>
          (slots' # slots => \A j, k \in T!Slot :
             LET apart(f) == {j, k} \subseteq T!Live(f) => j = k \/ ~T!Overlap(f[j], f[k]) IN
             apart(slots) /\ ~apart(slots') =>
               \/ hourReq' = hourReq
               \/ \E r \in T!Busy : hourReq'[r] = T!Idle /\ T!Stale(r))
    BY HApart DEF Apart
  <2>2. [Next]_vars => T!Next \/ UNCHANGED T!vars
    BY DEF Next, vars, hours, T!vars, InEncounters, InAccounts, InParties, InLocks
  <2> QED
    BY <2>1, <2>2
<1> QED
  BY <1>1, HInit, HNext, PTL DEF Spec, SlotsApart, T!SlotsApart

-----------------------------------------------------------------------------
\* Of any slots, one is after all the others in the order of Before ...
LEMMA LastBefore ==
  ASSUME NEW f \in [T!Slot -> Pairs \cup {None}], NEW some \in SUBSET T!Live(f),
         some # {}, NEW b \in Nat, \A k \in some : f[k][1] <= b, MaxSlots \in Nat,
         None \notin Pairs
  PROVE  \E k \in some : \A j \in some : ~T!Before(k, j, f)
<1> DEFINE starts == {f[k][1] : k \in some}
<1>1. \A k \in some : f[k][1] \in Nat /\ k \in Nat /\ k <= MaxSlots
  BY DEF T!Live, T!Slot, Pairs
<1>2. starts \in SUBSET Nat /\ starts # {} /\ \A n \in starts : n <= b
  BY <1>1
<1> HIDE DEF starts
<1>3. PICK n \in starts : \A m \in starts : m <= n
  BY <1>2, Last
<1> DEFINE those == {k \in some : f[k][1] = n}
<1>4. those \in SUBSET Nat /\ those # {} /\ \A k \in those : k <= MaxSlots
  BY <1>1, <1>3 DEF starts
<1> HIDE DEF those
<1>5. PICK k \in those : \A j \in those : j <= k
  BY <1>4, Last
<1>6. k \in some /\ f[k][1] = n
  BY <1>5 DEF those
<1>7. ASSUME NEW j \in some PROVE ~T!Before(k, j, f)
  <2>1. f[j][1] <= n /\ (f[j][1] = n => j <= k)
    BY <1>3, <1>5 DEF starts, those
  <2> QED
    BY <1>1, <1>2, <1>6, <2>1 DEF T!Before
<1> QED
  BY <1>6, <1>7

\* ... and one is before all the others.
LEMMA FirstBefore ==
  ASSUME NEW f \in [T!Slot -> Pairs \cup {None}], NEW some \in SUBSET T!Live(f),
         some # {}, None \notin Pairs
  PROVE  \E k \in some : \A j \in some : ~T!Before(j, k, f)
<1> DEFINE starts == {f[k][1] : k \in some}
           n == T!Min(starts)
           those == {k \in some : f[k][1] = n}
           k == T!Min(those)
<1>1. \A i \in some : f[i][1] \in Nat /\ i \in Nat
  BY DEF T!Live, T!Slot, Pairs
<1>2. starts \in SUBSET Nat /\ starts # {}
  BY <1>1
<1>3. n \in starts /\ \A m \in starts : n <= m
  <2> HIDE DEF starts
  <2> QED
    BY <1>2, First
<1> HIDE DEF n
<1>4. those \in SUBSET Nat /\ those # {}
  BY <1>1, <1>3
<1>5. k \in those /\ \A j \in those : k <= j
  <2> HIDE DEF those
  <2> QED
    BY <1>4, First
<1> HIDE DEF k
<1>6. ASSUME NEW j \in some PROVE ~T!Before(j, k, f)
  <2>1. n <= f[j][1] /\ (f[j][1] = n => k <= j) /\ f[k][1] = n /\ k \in some
    BY <1>3, <1>5
  <2> QED
    BY <1>1, <2>1 DEF T!Before
<1> QED
  BY <1>5, <1>6

\* Stretching the slots a placement touches opens its hours and no others.
LEMMA StretchedOpen ==
  ASSUME NEW f \in [T!Slot -> Pairs \cup {None}], NEW w \in Pairs, None \notin Pairs,
         MaxSlots \in Nat, T!Touched(w, f) # {},
         NEW g, \A i \in T!Slot : g[i] = IF i \in T!Touched(w, f)
                                           THEN T!Stretched(i, w, f) ELSE f[i]
  PROVE  /\ T!Open(g) = T!Open(f) \cup T!HoursOf(w)
         /\ \A k \in T!Live(f) : T!HoursOf(f[k]) \subseteq T!HoursOf(g[k])
<1> DEFINE touched == T!Touched(w, f)
<1>1. w[1] \in Nat /\ w[2] \in Nat /\ w[1] < w[2]
  BY DEF Pairs
<1>2. /\ touched \subseteq T!Live(f) /\ T!Live(f) \subseteq T!Slot
      /\ \A i \in T!Live(f) : f[i] \in Pairs /\ f[i][1] \in Nat /\ f[i][2] \in Nat
                              /\ f[i][1] < f[i][2]
      /\ \A i \in touched : f[i][1] <= w[2] /\ w[1] <= f[i][2]
  BY DEF T!Touched, T!Live, Pairs
<1>3. \A i \in touched :
        /\ g[i] \in Pairs /\ g[i][1] <= f[i][1] /\ f[i][2] <= g[i][2]
        /\ g[i][1] = f[i][1] \/ g[i][1] = w[1]
        /\ g[i][2] = f[i][2] \/ g[i][2] <= w[2]
        /\ (\A l \in touched : ~T!Before(l, i, f)) => g[i][1] <= w[1]
        /\ \A h \in Nat : h < w[2] /\ (\A l \in touched : T!Before(i, l, f) => h < f[l][1])
             => h < g[i][2]
  <2> SUFFICES ASSUME NEW i \in touched
               PROVE  /\ g[i] \in Pairs /\ g[i][1] <= f[i][1] /\ f[i][2] <= g[i][2]
                      /\ g[i][1] = f[i][1] \/ g[i][1] = w[1]
                      /\ g[i][2] = f[i][2] \/ g[i][2] <= w[2]
                      /\ (\A l \in touched : ~T!Before(l, i, f)) => g[i][1] <= w[1]
                      /\ \A h \in Nat :
                           h < w[2] /\ (\A l \in touched : T!Before(i, l, f) => h < f[l][1])
                             => h < g[i][2]
    OBVIOUS
  <2>1. g[i] = T!Stretched(i, w, f)
    BY <1>2
  <2> QED
    BY <2>1, StretchedWindow
<1>4. \A i \in T!Slot \ touched : g[i] = f[i]
  OBVIOUS
<1> HIDE DEF touched
<1>5. T!Live(g) = T!Live(f)
  BY <1>2, <1>3, <1>4 DEF T!Live
<1>6. \A i \in T!Live(f) :
        /\ g[i][1] \in Nat /\ g[i][2] \in Nat
        /\ g[i][1] <= f[i][1] /\ f[i][2] <= g[i][2]
  BY <1>2, <1>3, <1>4 DEF Pairs
<1>7. \A k \in T!Live(f) : T!HoursOf(f[k]) \subseteq T!HoursOf(g[k])
  BY <1>2, <1>6 DEF T!HoursOf
<1>8. ASSUME NEW k \in T!Live(f), NEW h \in T!HoursOf(g[k])
      PROVE  h \in T!HoursOf(f[k]) \cup T!HoursOf(w)
  BY <1>1, <1>2, <1>3, <1>4, <1>6 DEF T!HoursOf
<1>9. ASSUME NEW h \in T!HoursOf(w)
      PROVE  \E k \in T!Live(f) : h \in T!HoursOf(g[k])
  <2> DEFINE some == {k \in touched : f[k][1] <= h}
  <2>0. h \in Nat /\ w[1] <= h /\ h < w[2]
    BY <1>1 DEF T!HoursOf
  <2>1. CASE some # {}
    <3>1. PICK k \in some : \A j \in some : ~T!Before(k, j, f)
      <4>1. some \in SUBSET T!Live(f) /\ \A k \in some : f[k][1] <= h
        BY <1>2
      <4> HIDE DEF some
      <4> QED
        BY <2>0, <2>1, <4>1, LastBefore
    <3>2. k \in touched /\ f[k][1] <= h /\ k \in T!Live(f)
      BY <1>2, <3>1
    <3>3. \A l \in touched : T!Before(k, l, f) => h < f[l][1]
      BY <1>2, <2>0, <3>1
    <3>4. h < g[k][2]
      BY <1>3, <2>0, <3>2, <3>3
    <3> QED
      BY <1>2, <1>6, <2>0, <3>2, <3>4 DEF T!HoursOf
  <2>2. CASE some = {}
    <3>1. PICK k \in touched : \A j \in touched : ~T!Before(j, k, f)
      BY <1>2, FirstBefore DEF touched
    <3>2. g[k][1] <= w[1] /\ h < f[k][1] /\ k \in T!Live(f)
      BY <1>2, <1>3, <2>0, <2>2, <3>1
    <3> QED
      BY <1>1, <1>2, <1>6, <2>0, <3>2 DEF T!HoursOf
  <2> QED
    BY <2>1, <2>2
<1>10. T!Open(g) = T!Open(f) \cup T!HoursOf(w)
  <2>1. ASSUME NEW h \in T!Open(g) PROVE h \in T!Open(f) \cup T!HoursOf(w)
    BY <1>5, <1>8 DEF T!Open
  <2>2. ASSUME NEW h \in T!Open(f) PROVE h \in T!Open(g)
    BY <1>5, <1>7 DEF T!Open
  <2>3. ASSUME NEW h \in T!HoursOf(w) PROVE h \in T!Open(g)
    BY <1>5, <1>9 DEF T!Open
  <2> QED
    BY <2>1, <2>2, <2>3
<1> QED
  BY <1>7, <1>10
-----------------------------------------------------------------------------
\* Only its own placement ends a request that has a session's row.
LEMMA HWhoPlaced ==
  ASSUME HInv, T!Next, at' # at, NEW r \in T!Dropping, hourReq'[r] = T!Idle
  PROVE  \E w \in Window : T!Place(r, w)
<1>1. /\ r \in Web /\ hourReq[r] # T!Idle /\ r \in T!Busy
      /\ hourReq \in [Web -> {T!Idle} \cup Reading]
  BY DEF T!Dropping, T!Busy, T!Idle, HInv, HTypeOK
<1>2. hourReq'[r] # hourReq[r]
  BY <1>1
<1>3. ASSUME NEW q \in T!Busy \ T!Dropping, NEW s \in Placing,
             NEW k \in T!Live(T!Seen(q)), T!Accept(q, s, k)
      PROVE  FALSE
  <2>1. hourReq' = [hourReq EXCEPT ![q] = T!Idle] /\ q # r
    BY <1>3 DEF T!Accept, T!Done
  <2> QED
    BY <1>1, <1>2, <2>1
<1>4. ASSUME NEW q \in T!Dropping, NEW w \in Window, T!Place(q, w)
      PROVE  T!Place(r, w)
  <2>1. hourReq' = [hourReq EXCEPT ![q] = T!Idle]
    BY <1>4 DEF T!Place, T!Done
  <2>2. q = r
    BY <1>1, <1>2, <2>1
  <2> QED
    BY <1>4, <2>2
<1>5. \/ \E q \in T!Busy \ T!Dropping, s \in Placing :
           \E k \in T!Live(T!Seen(q)) : T!Accept(q, s, k)
      \/ \E q \in T!Dropping, w \in Window : T!Place(q, w)
      \/ hourReq' = hourReq
  BY DEF T!Next, T!Read, T!Abort, T!SaveSlot, T!DeleteSlot, T!Unplace, T!Revert,
     T!Resize, T!EditDates, T!ImportSlot
<1> QED
  BY <1>2, <1>3, <1>4, <1>5

\* A placement whose slots are still as it read them opens its own hours.
LEMMA HOpens ==
  ASSUME HInv, NEW r \in T!Dropping, NEW w \in Window, T!Place(r, w), ~T!Stale(r)
  PROVE  /\ at'[hourReq[r].locked] = w
         /\ T!Open(slots') = T!Open(slots) \cup T!HoursOf(w)
         /\ \A k \in T!Live(slots) : T!HoursOf(slots[k]) \subseteq T!HoursOf(slots'[k])
<1>1. /\ slots \in [T!Slot -> Pairs \cup {None}] /\ w \in Pairs /\ None \notin Pairs
      /\ created \in Nat /\ MaxSlots \in Nat
  BY RequestsAssumption DEF HInv, HTypeOK, T!TimeSlotsAssumption, Pairs
<1>2. hourReq[r].locked \in Placing /\ at \in [Placing -> Pairs \cup {None}]
  BY HSeen DEF HInv, HTypeOK, T!Dropping
<1>3. at'[hourReq[r].locked] = w
  BY <1>2 DEF T!Place
<1>4. T!Seen(r) = slots
  BY DEF T!Stale
<1>5. CASE T!Fits(w, slots)
  <2>1. slots' = slots
    BY <1>4, <1>5, HPlaced
  <2> QED
    BY <1>3, <1>5, <2>1 DEF T!Fits
<1>6. CASE ~T!Fits(w, slots) /\ T!Touched(w, slots) = {}
  <2>1. /\ created' = created + 1 /\ created' \in T!Slot
        /\ slots' = [slots EXCEPT ![created'] = w]
    BY <1>4, <1>6, HPlaced
  <2>2. slots[created'] = None
    BY <1>1, <2>1 DEF HInv, HMade
  <2>3. slots'[created'] = w /\ \A k \in T!Live(slots) : slots'[k] = slots[k]
    BY <1>1, <2>1, <2>2 DEF T!Live
  <2>4. T!Live(slots') = T!Live(slots) \cup {created'}
    BY <1>1, <2>1 DEF T!Live
  <2>5. T!Open(slots') = T!Open(slots) \cup T!HoursOf(w)
    BY <2>3, <2>4 DEF T!Open
  <2> QED
    BY <1>3, <2>3, <2>5
<1>7. CASE ~T!Fits(w, slots) /\ T!Touched(w, slots) # {}
  <2>1. \A i \in T!Slot : slots'[i] = IF i \in T!Touched(w, slots)
                                        THEN T!Stretched(i, w, slots) ELSE slots[i]
    BY <1>7, HStretched
  <2>2. /\ T!Open(slots') = T!Open(slots) \cup T!HoursOf(w)
        /\ \A k \in T!Live(slots) : T!HoursOf(slots[k]) \subseteq T!HoursOf(slots'[k])
    BY <1>1, <1>7, <2>1, StretchedOpen
  <2> QED
    BY <1>3, <2>2
<1> QED
  BY <1>5, <1>6, <1>7

\* A placement opens its own hours and no others, and no slot loses any
\* (PlacementOpensItsHours), however many slots it touches and in whatever order
\* they lie: an hour between two of them is reached by the last that starts
\* before it, and one before them all by the first.
THEOREM PlacementOpensItsHoursHolds == Spec => PlacementOpensItsHours
<1>1. HInv /\ [Next]_vars =>
        [at' # at => \A r \in T!Dropping :
           hourReq'[r] = T!Idle /\ ~T!Stale(r) =>
             /\ T!Open(slots') = T!Open(slots) \cup T!HoursOf(at'[hourReq[r].locked])
             /\ \A k \in T!Live(slots) :
                  T!HoursOf(slots[k]) \subseteq T!HoursOf(slots'[k])]_T!vars
  <2>1. ASSUME HInv, T!Next, at' # at, NEW r \in T!Dropping, hourReq'[r] = T!Idle,
               ~T!Stale(r)
        PROVE  /\ T!Open(slots') = T!Open(slots) \cup T!HoursOf(at'[hourReq[r].locked])
               /\ \A k \in T!Live(slots) :
                    T!HoursOf(slots[k]) \subseteq T!HoursOf(slots'[k])
    BY <2>1, HWhoPlaced, HOpens
  <2>2. [Next]_vars => T!Next \/ UNCHANGED T!vars
    BY DEF Next, vars, hours, T!vars, InEncounters, InAccounts, InParties, InLocks
  <2> QED
    BY <2>1, <2>2
<1> QED
  BY <1>1, HInit, HNext, PTL DEF Spec, PlacementOpensItsHours, T!PlacementOpensItsHours

-----------------------------------------------------------------------------
\* Row locks: rows are ranked by their table, people by their pk, and whoever
\* waits waits for a row beyond all it holds.

\* Every row there is a lock on.
LockRow ==
  {K!SessionRow(s) : s \in Session} \cup {K!SpaceRow} \cup {K!ItemRow(s) : s \in Session}
    \cup {K!UserRow(u) : u \in User} \cup {K!SeatRow(s, u) : s \in Session, u \in User}

\* The order of the tables, and of people by their pk.
Rank(r) ==
  CASE r[1] = "session" -> 1 [] r[1] = "space" -> 2 [] r[1] = "item" -> 3
    [] r[1] = "user" -> 4 [] r[1] = "seat" -> 5

Precedes(q, r) ==
  \/ Rank(q) < Rank(r)
  \/ q[1] = "user" /\ r[1] = "user" /\ q[2] < r[2]

\* The rows of people and of who pays for them.
Payers(people) == {K!UserRow(u) : u \in people \cup {Owner[u] : u \in people}}

\* What a transaction holds or is about to take.
Asked(t) == {todo[t][i] : i \in 1 .. Len(todo[t])}
Reach(t) == held[t] \cup Asked(t)

\* The transactions of the seats' order, and how far up it they have got.
Seated(t) == txn[t] # K!NotBegun /\ txn[t].op # "bulk"

Top(x, i) ==
  CASE i = 0 -> 0
    [] i > 0 /\ x.op \in {"seats", "fill"} -> IF i = 1 THEN 1 ELSE IF i = 2 THEN 4 ELSE 5
    [] i > 0 /\ x.op = "move" -> IF i <= 3 THEN i ELSE i - 1
    [] i > 0 /\ x.op = "confirm" -> IF i = 1 THEN 1 ELSE 3
    [] i > 0 /\ x.op \in {"invite", "remove"} -> IF i = 1 THEN 4 ELSE 5

\* Whose rows its seats are, once it has asked for them.
Covers(x, i) ==
  CASE x.op = "seats" /\ i >= 2 -> K!Decides(x)
    [] x.op = "fill" /\ i >= 2 -> K!Waiters(x)
    [] x.op = "move" /\ i >= 5 -> K!Waiters(x)
    [] OTHER -> {}

\* The parts of the invariant: types, the arguments of a seat decision ...
KTypeOK ==
  /\ waits \in [Session -> SUBSET User]
  /\ txn \in [Txn -> K!Operations \cup {K!NotBegun}]
  /\ step \in [Txn -> Nat]
  /\ todo \in [Txn -> Seq(LockRow)]
  /\ held \in [Txn -> SUBSET LockRow]

KJoins ==
  \A t \in Txn : txn[t] # K!NotBegun /\ txn[t].op = "seats" =>
    txn[t].joins \subseteq txn[t].people

\* ... nobody holds a row of another, nor any before it has begun ...
KExclusive == \A t, v \in Txn : t # v => held[t] \cap held[v] = {}

KFresh ==
  \A t \in Txn : txn[t] = K!NotBegun \/ step[t] = 0 =>
    step[t] = 0 /\ todo[t] = <<>> /\ held[t] = {}

\* ... and of each transaction: nothing is beyond the statement that is being executed.
Below(t) == \A r \in Reach(t) : Rank(r) <= Top(txn[t], step[t])

\* Whatever a transaction may have to wait for is beyond all it holds then.
Ordered(t) ==
  \A i \in 1 .. Len(todo[t]) :
    LET r == todo[t][i] IN
    \/ r \in held[t] \/ r[1] = "seat"
    \/ /\ \A q \in held[t] : Precedes(q, r)
       /\ \A j \in 1 .. i - 1 : Precedes(todo[t][j], r)

\* Seats are taken under the rows of the people whose they are ...
SeatsCovered(t) == \A r \in Reach(t) : r[1] = "seat" => K!UserRow(r[3]) \in held[t]

\* ... which were all asked for under the session's row: nobody joins its
\* waiting list meanwhile.
SessionFirst(t) ==
  txn[t].op \in {"seats", "fill", "move"} =>
    /\ step[t] = 1 => K!SessionRow(txn[t].s) \in Reach(t)
    /\ step[t] > 1 => K!SessionRow(txn[t].s) \in held[t]

PeopleFirst(t) ==
  /\ Payers(Covers(txn[t], step[t])) \subseteq Reach(t)
  /\ txn[t].op = "remove" /\ step[t] > 0 => K!UserRow(txn[t].u) \in Reach(t)

Sound(t) ==
  Seated(t) =>
    Below(t) /\ Ordered(t) /\ SeatsCovered(t) /\ SessionFirst(t) /\ PeopleFirst(t)

KInv ==
  KTypeOK /\ KJoins /\ KExclusive /\ KFresh /\ \A t \in Txn : Sound(t)

-----------------------------------------------------------------------------
\* The rows of a statement, which come in order.
Rows(q) == {q[i] : i \in 1 .. Len(q)}

\* The rows of people, of their seats in a session and of one's seats in all, and
\* those of every session.
PeopleRows(people) == {K!UserRow(u) : u \in people}
SeatRows(s, people) == {K!SeatRow(s, u) : u \in people}
SeatsOf(u) == {K!SeatRow(s, u) : s \in Session}
Items == {K!ItemRow(s) : s \in Session}
Sessions == {K!SessionRow(s) : s \in Session}

Sorted(q) == \A i \in 1 .. Len(q) : \A j \in 1 .. i - 1 : Precedes(q[j], q[i])

\* RowLocks counts by its own copy of FiniteSets.
LEMMA Counted ==
  \A D : K!Cardinality(D) = Cardinality(D) /\ (K!IsFiniteSet(D) <=> IsFiniteSet(D))
BY DEF K!Cardinality, Cardinality, K!IsFiniteSet, IsFiniteSet

\* What a function makes of finitely many is finite.
LEMMA FiniteImage ==
  ASSUME NEW D, IsFiniteSet(D), NEW f, f = [d \in D |-> f[d]]
  PROVE  IsFiniteSet({f[d] : d \in D})
<1> DEFINE R == {f[d] : d \in D}
<1>1. f \in Surjection(D, R)
  BY DEF Surjection
<1> QED
  BY <1>1, FS_Surjection

\* A statement without an order takes each of its rows, once.
LEMMA Enumerated ==
  ASSUME NEW R, IsFiniteSet(R), NEW q \in K!SetToSeqs(R)
  PROVE  q \in Seq(R) /\ Rows(q) = R
<1> DEFINE n == Cardinality(R)
<1>1. n \in Nat /\ ExistsBijection(1 .. n, R)
  BY FS_CardinalityType
<1>2. q \in [1 .. n -> R] /\ \A i, j \in 1 .. n : i # j => q[i] # q[j]
  BY Counted DEF K!SetToSeqs
<1>3. q \in Injection(1 .. n, R)
  BY <1>2 DEF Injection, IsInjective
<1>4. Cardinality(1 .. n) = n
  BY <1>1, FS_Interval
<1>5. q \in Surjection(1 .. n, R)
  BY <1>3, <1>4, FS_Injection
<1>6. q \in Seq(R) /\ Len(q) = n
  BY <1>1, <1>2
<1> QED
  BY <1>5, <1>6 DEF Rows, Surjection

\* People are taken in the order of their pk, with who pays for them.
LEMMA HoldersTaken ==
  ASSUME NEW people \in SUBSET User, NEW q \in K!Holders(people)
  PROVE  q \in Seq(LockRow) /\ Rows(q) = Payers(people) /\ Sorted(q)
<1> DEFINE D == people \cup {Owner[u] : u \in people}
           f == [u \in D |-> K!UserRow(u)]
<1>1. /\ IsFiniteSet(User) /\ Owner \in [User -> User] /\ User \subseteq Nat
  BY RequestsAssumption, Counted DEF K!RowLocksAssumption
<1>2. D \subseteq User /\ IsFiniteSet(D)
  <2>1. D \subseteq User
    BY <1>1
  <2> HIDE DEF D
  <2> QED
    BY <1>1, <2>1, FS_Subset
<1> HIDE DEF D
<1>3. IsFiniteSet({f[d] : d \in D})
  BY <1>2, FiniteImage
<1>4. {f[d] : d \in D} = {K!UserRow(u) : u \in D}
  OBVIOUS
<1>5. IsFiniteSet({K!UserRow(u) : u \in D}) /\ Payers(people) = {K!UserRow(u) : u \in D}
  BY <1>3, <1>4 DEF Payers, D
<1>6. /\ q \in K!SetToSeqs(Payers(people))
      /\ \A i, j \in 1 .. Len(q) : i < j => q[i][2] < q[j][2]
  BY <1>5 DEF K!Holders, K!ByPk, D
<1>7. q \in Seq(Payers(people)) /\ Rows(q) = Payers(people)
  BY <1>5, <1>6, Enumerated
<1>8. Payers(people) \subseteq LockRow /\ \A r \in Payers(people) : r[1] = "user"
  BY <1>2, <1>5 DEF LockRow, K!UserRow
<1>9. q \in Seq(LockRow)
  BY <1>7, <1>8
<1>10. Sorted(q)
  <2> SUFFICES ASSUME NEW i \in 1 .. Len(q), NEW j \in 1 .. i - 1
               PROVE  Precedes(q[j], q[i])
    BY DEF Sorted
  <2>1. i \in 1 .. Len(q) /\ j \in 1 .. Len(q) /\ j < i
    BY <1>7
  <2>2. q[i] \in Payers(people) /\ q[j] \in Payers(people)
    BY <1>7, <2>1 DEF Rows
  <2> QED
    BY <1>6, <1>8, <2>1, <2>2 DEF Precedes
<1> QED
  BY <1>7, <1>9, <1>10

\* So are the companions an invitation is for.
LEMMA CompanionsTaken ==
  ASSUME NEW people \in SUBSET User,
         NEW q \in K!ByPk(PeopleRows(people))
  PROVE  /\ q \in Seq(LockRow) /\ Rows(q) \subseteq PeopleRows(people)
         /\ Sorted(q)
<1> USE DEF PeopleRows
<1> DEFINE R == PeopleRows(people)
           f == [u \in people |-> K!UserRow(u)]
<1>1. IsFiniteSet(people)
  BY RequestsAssumption, Counted, FS_Subset DEF K!RowLocksAssumption
<1>2. IsFiniteSet({f[d] : d \in people}) /\ {f[d] : d \in people} = R
  BY <1>1, FiniteImage
<1>3. R \subseteq LockRow /\ \A r \in R : r[1] = "user"
  BY DEF LockRow, K!UserRow
<1>4. q \in K!SetToSeqs(R) /\ \A i, j \in 1 .. Len(q) : i < j => q[i][2] < q[j][2]
  BY DEF K!ByPk
<1> HIDE DEF R
<1>5. q \in Seq(R) /\ Rows(q) = R
  BY <1>2, <1>4, Enumerated
<1>6. q \in Seq(LockRow)
  BY <1>3, <1>5
<1>7. Sorted(q)
  <2> SUFFICES ASSUME NEW i \in 1 .. Len(q), NEW j \in 1 .. i - 1
               PROVE  Precedes(q[j], q[i])
    BY DEF Sorted
  <2>1. i \in 1 .. Len(q) /\ j \in 1 .. Len(q) /\ j < i
    BY <1>5
  <2>2. q[i] \in R /\ q[j] \in R
    BY <1>5, <2>1 DEF Rows
  <2> QED
    BY <1>3, <1>4, <2>1, <2>2 DEF Precedes
<1> QED
  BY <1>5, <1>6, <1>7 DEF R

\* The seats of some people in a session, and of one person in every session.
LEMMA SeatsTaken ==
  ASSUME NEW s \in Session, NEW people \in SUBSET User,
         NEW q \in K!SetToSeqs(SeatRows(s, people))
  PROVE  q \in Seq(LockRow) /\ Rows(q) = SeatRows(s, people)
<1> USE DEF SeatRows
<1> DEFINE R == SeatRows(s, people)
           f == [u \in people |-> K!SeatRow(s, u)]
<1>1. IsFiniteSet(people)
  BY RequestsAssumption, Counted, FS_Subset DEF K!RowLocksAssumption
<1>2. IsFiniteSet({f[d] : d \in people}) /\ {f[d] : d \in people} = R
  BY <1>1, FiniteImage
<1>3. R \subseteq LockRow
  BY DEF LockRow
<1> HIDE DEF R
<1>4. q \in Seq(R) /\ Rows(q) = R
  BY <1>2, Enumerated DEF R
<1> QED
  BY <1>3, <1>4 DEF R

\* A row for every session, the rows taken in any order.
LEMMA OfEachSession ==
  ASSUME NEW f, f = [s \in Session |-> f[s]], \A s \in Session : f[s] \in LockRow,
         NEW q \in K!SetToSeqs({f[s] : s \in Session})
  PROVE  q \in Seq(LockRow) /\ Rows(q) = {f[s] : s \in Session}
<1> DEFINE R == {f[s] : s \in Session}
<1>1. IsFiniteSet(R)
  BY RequestsAssumption, Counted, FiniteImage DEF K!RowLocksAssumption
<1>2. R \subseteq LockRow
  OBVIOUS
<1> HIDE DEF R
<1>3. q \in Seq(R) /\ Rows(q) = R
  BY <1>1, Enumerated DEF R
<1> QED
  BY <1>2, <1>3 DEF R

\* A statement that names one row.
LEMMA OneTaken ==
  ASSUME NEW row \in LockRow, NEW q \in K!One(row)
  PROVE  q \in Seq(LockRow) /\ Rows(q) = {row} /\ Sorted(q)
<1>1. q = <<row>>
  BY DEF K!One
<1>2. q \in Seq(LockRow) /\ Len(q) = 1 /\ q[1] = row
  BY <1>1
<1> QED
  BY <1>2 DEF Rows, Sorted

-----------------------------------------------------------------------------
\* Two lists of three statements, one after the other.
LEMMA Concatenated ==
  ASSUME NEW a, NEW b, NEW c, NEW d, NEW e, NEW f
  PROVE  LET q == <<a, b, c>> \o <<d, e, f>> IN
         /\ Len(q) = 6 /\ q[1] = a /\ q[2] = b /\ q[3] = c
         /\ q[4] = d /\ q[5] = e /\ q[6] = f
<1> DEFINE A == {a, b, c, d, e, f}
<1>1. <<a, b, c>> \in Seq(A) /\ <<d, e, f>> \in Seq(A)
  OBVIOUS
<1> HIDE DEF A
<1> QED
  BY <1>1, ConcatProperties

\* The statements of a seat decision, with the refill it may end in,
LEMMA SeatsStatements ==
  ASSUME NEW x, x.op = "seats", NEW all, all = K!Statements(x)
  PROVE  /\ Len(all) = IF x.frees THEN 6 ELSE 3
         /\ all[1] = K!One(K!SessionRow(x.s)) /\ all[2] = K!Holders(K!Decides(x))
         /\ all[3] = K!SetToSeqs(SeatRows(x.s, x.people))
         /\ x.frees =>
              /\ all[4] = K!One(K!SessionRow(x.s)) /\ all[5] = K!Holders(K!Waiters(x))
              /\ all[6] = K!SetToSeqs(SeatRows(x.s, K!Waiters(x)))
<1> DEFINE first == <<K!One(K!SessionRow(x.s)), K!Holders(K!Decides(x)),
                      K!SetToSeqs(SeatRows(x.s, x.people))>>
<1>1. all = first \o (IF x.frees THEN K!Refill(x) ELSE <<>>)
  BY DEF K!Statements, SeatRows
<1>2. CASE x.frees
  <2>1. all = first \o K!Refill(x)
    BY <1>1, <1>2
  <2> QED
    BY <1>2, <2>1, Concatenated DEF K!Refill, SeatRows
<1>3. CASE ~x.frees
  <2>1. first \in Seq({first[1], first[2], first[3]})
    OBVIOUS
  <2>2. all = first
    BY <1>1, <1>3, <2>1, ConcatEmptySeq
  <2> QED
    BY <1>3, <2>2
<1> QED
  BY <1>2, <1>3

\* of a refill,
LEMMA FillStatements ==
  ASSUME NEW x, x.op = "fill", NEW all, all = K!Statements(x)
  PROVE  /\ Len(all) = 3
         /\ all[1] = K!One(K!SessionRow(x.s)) /\ all[2] = K!Holders(K!Waiters(x))
         /\ all[3] = K!SetToSeqs(SeatRows(x.s, K!Waiters(x)))
BY DEF K!Statements, K!Refill, SeatRows

\* of a placement with its refill,
LEMMA MoveStatements ==
  ASSUME NEW x, x.op = "move", NEW all, all = K!Statements(x)
  PROVE  /\ Len(all) = 6
         /\ all[1] = K!One(K!SessionRow(x.s)) /\ all[2] = K!One(K!SpaceRow)
         /\ all[3] = K!One(K!ItemRow(x.s))
         /\ all[4] = K!One(K!SessionRow(x.s)) /\ all[5] = K!Holders(K!Waiters(x))
         /\ all[6] = K!SetToSeqs(SeatRows(x.s, K!Waiters(x)))
<1>1. all = <<K!One(K!SessionRow(x.s)), K!One(K!SpaceRow), K!One(K!ItemRow(x.s))>>
              \o K!Refill(x)
  BY DEF K!Statements
<1> QED
  BY <1>1, Concatenated DEF K!Refill, SeatRows

\* and of the others, one by one.
LEMMA OtherStatements ==
  ASSUME NEW x, NEW all, all = K!Statements(x)
  PROVE  /\ x.op = "invite" =>
              Len(all) = 1 /\ all[1] = K!ByPk(PeopleRows(x.people))
         /\ x.op = "remove" =>
              /\ Len(all) = 2 /\ all[1] = K!One(K!UserRow(x.u))
              /\ all[2] = K!SetToSeqs(SeatsOf(x.u))
         /\ x.op = "confirm" =>
              /\ Len(all) = 2 /\ all[1] = K!One(K!SessionRow(x.s))
              /\ all[2] = K!One(K!ItemRow(x.s))
         /\ x.op = "bulk" =>
              /\ Len(all) = 2 /\ all[1] = K!SetToSeqs(Items)
              /\ all[2] = K!SetToSeqs(Sessions)
BY DEF K!Statements, K!PersonThenRows, SeatsOf, PeopleRows, Items, Sessions

\* The arguments of an operation.
LEMMA OperationTypes ==
  ASSUME NEW x \in K!Operations
  PROVE  /\ x.op \in {"seats", "fill", "move", "confirm", "invite", "remove", "bulk"}
         /\ x.op \in {"seats", "fill", "move", "confirm"} =>
              x.s \in Session /\ x.people \in SUBSET User /\ x.joins \in SUBSET User
         /\ x.op = "seats" => x.frees \in BOOLEAN
         /\ x.op = "invite" => x.people \in SUBSET User
         /\ x.op = "remove" => x.u \in User
<1>1. Household \subseteq SUBSET User /\ \A u : K!Companions(u) \subseteq User
  BY RequestsAssumption DEF K!RowLocksAssumption, K!Companions, K!Managed
<1>2. ASSUME NEW s \in Session, NEW h \in Household, NEW j \in {{}} \cup Household,
             NEW f \in BOOLEAN,
             x = [op |-> "seats", s |-> s, people |-> h, joins |-> j, frees |-> f]
      PROVE  /\ x.op = "seats" /\ x.s \in Session /\ x.people \in SUBSET User
             /\ x.joins \in SUBSET User /\ x.frees \in BOOLEAN
  <2>1. x.op = "seats" /\ x.s = s /\ x.people = h /\ x.joins = j
    BY <1>2
  <2>2. x.frees = f
    BY <1>2
  <2>3. x.frees \in BOOLEAN
    BY <2>2
  <2> QED
    BY <1>1, <2>1, <2>3
<1>3. ASSUME NEW o \in {"fill", "move", "confirm"}, NEW s \in Session,
             x = [op |-> o, s |-> s, people |-> {}, joins |-> {}]
      PROVE  /\ x.op \in {"fill", "move", "confirm"} /\ x.s \in Session
             /\ x.people \in SUBSET User /\ x.joins \in SUBSET User
  BY <1>3
<1>4. ASSUME NEW u, x = [op |-> "invite", people |-> K!Companions(u)]
      PROVE  x.op = "invite" /\ x.people \in SUBSET User
  BY <1>1, <1>4
<1>5. ASSUME NEW u \in K!Managed, x = [op |-> "remove", u |-> u]
      PROVE  x.op = "remove" /\ x.u \in User
  BY <1>5 DEF K!Managed
<1>6. \/ \E s \in Session, h \in Household, j \in {{}} \cup Household, f \in BOOLEAN :
           x = [op |-> "seats", s |-> s, people |-> h, joins |-> j, frees |-> f]
      \/ \E o \in {"fill", "move", "confirm"}, s \in Session :
           x = [op |-> o, s |-> s, people |-> {}, joins |-> {}]
      \/ \E u : x = [op |-> "invite", people |-> K!Companions(u)]
      \/ \E u \in K!Managed : x = [op |-> "remove", u |-> u]
      \/ x = [op |-> "bulk"]
  BY DEF K!Operations
<1>7. x = [op |-> "bulk"] => x.op = "bulk"
  OBVIOUS
<1> QED
  BY <1>2, <1>3, <1>4, <1>5, <1>6, <1>7

\* What a statement asks for: rows above all before them, in order; or seats of
\* people who were asked for; or rows that were asked for before.
InOrder(x, i, q) ==
  /\ \A r \in Rows(q) : Rank(r) <= Top(x, i + 1)
  /\ \/ Sorted(q) /\ \A r \in Rows(q) : Rank(r) > Top(x, i)
     \/ \A r \in Rows(q) : r[1] = "seat"
     \/ Rows(q) \subseteq Payers(Covers(x, i))
     \/ i > 0 /\ x.op \in {"seats", "fill", "move"} /\ Rows(q) \subseteq {K!SessionRow(x.s)}
  /\ \A r \in Rows(q) : r[1] = "seat" =>
       \/ r[3] \in Covers(x, i)
       \/ i > 0 /\ x.op = "remove" /\ r[3] = x.u
  /\ Payers(Covers(x, i + 1)) \subseteq Payers(Covers(x, i)) \cup Rows(q)
  /\ i = 0 /\ x.op \in {"seats", "fill", "move"} => K!SessionRow(x.s) \in Rows(q)
  /\ i = 0 /\ x.op = "remove" => K!UserRow(x.u) \in Rows(q)

\* A statement of somebody with no seats to cover.
LEMMA Uncovered ==
  ASSUME NEW x, x.op \in {"confirm", "invite", "remove"}, NEW i \in Nat, NEW q,
         \A r \in Rows(q) : Rank(r) <= Top(x, i + 1),
         \/ Sorted(q) /\ \A r \in Rows(q) : Rank(r) > Top(x, i) /\ r[1] # "seat"
         \/ i > 0 /\ x.op = "remove" /\ \A r \in Rows(q) : r[1] = "seat" /\ r[3] = x.u,
         i = 0 /\ x.op = "remove" => K!UserRow(x.u) \in Rows(q)
  PROVE  InOrder(x, i, q)
<1>1. Covers(x, i) = {} /\ Covers(x, i + 1) = {}
  BY DEF Covers
<1>2. x.op \notin {"seats", "fill", "move"}
  OBVIOUS
<1>3. Payers(Covers(x, i + 1)) \subseteq Payers(Covers(x, i))
  BY <1>1
<1>4. /\ \/ Sorted(q) /\ \A r \in Rows(q) : Rank(r) > Top(x, i)
         \/ \A r \in Rows(q) : r[1] = "seat"
      /\ \A r \in Rows(q) : r[1] = "seat" => i > 0 /\ x.op = "remove" /\ r[3] = x.u
  OBVIOUS
<1> QED
  BY <1>2, <1>3, <1>4 DEF InOrder

\* Every statement of every operation of the seats' order is such.
LEMMA Statement ==
  ASSUME waits \in [Session -> SUBSET User], NEW x \in K!Operations,
         x.op = "seats" => x.joins \subseteq x.people,
         NEW all, all = K!Statements(x),
         NEW i \in Nat, i < Len(all), NEW q \in all[i + 1]
  PROVE  q \in Seq(LockRow) /\ (x.op # "bulk" => InOrder(x, i, q))
<1>1. CASE x.op \in {"seats", "fill", "move"}
  <2>1. x.s \in Session /\ x.people \in SUBSET User /\ x.joins \in SUBSET User
    BY <1>1, OperationTypes
  <2>2. K!Waiters(x) \in SUBSET User /\ K!Decides(x) \in SUBSET User
    BY <2>1 DEF K!Waiters, K!Decides
  <2>3. x.op = "seats" /\ x.frees => K!Waiters(x) \subseteq K!Decides(x)
    BY DEF K!Waiters, K!Decides
  <2>4. x.people \subseteq K!Decides(x)
    BY DEF K!Decides
  <2>5. /\ K!SessionRow(x.s) \in LockRow /\ K!ItemRow(x.s) \in LockRow
        /\ K!SpaceRow \in LockRow
    BY <2>1 DEF LockRow
  <2>6. \A p : Payers(p) \subseteq {r \in Payers(p) : Rank(r) = 4}
    BY DEF Payers, K!UserRow, Rank
  <2>7. \A p, o : p \subseteq o => Payers(p) \subseteq Payers(o)
    BY DEF Payers
  <2>8. Payers({}) = {}
    BY DEF Payers
  <2>9. Rank(K!SessionRow(x.s)) = 1 /\ Rank(K!SpaceRow) = 2 /\ Rank(K!ItemRow(x.s)) = 3
    BY DEF Rank, K!SessionRow, K!SpaceRow, K!ItemRow
  <2>10. \A p : \A r \in SeatRows(x.s, p) :
           Rank(r) = 5 /\ r[1] = "seat" /\ r[3] \in p
    BY DEF Rank, K!SeatRow, SeatRows
  <2>11. \A p : \A r \in Payers(p) : r[1] # "seat"
    BY DEF Payers, K!UserRow
  <2>12. /\ K!SessionRow(x.s)[1] # "seat" /\ K!SpaceRow[1] # "seat"
         /\ K!ItemRow(x.s)[1] # "seat"
    BY DEF K!SessionRow, K!SpaceRow, K!ItemRow
  <2>13. CASE x.op = "seats"
    <3>1. i \in 0 .. 2 \/ (x.frees /\ i \in 3 .. 5)
      BY <2>13, SeatsStatements, OperationTypes
    <3>2. CASE i = 0
      <4>0. q \in K!One(K!SessionRow(x.s))
        BY <2>13, <3>2, SeatsStatements
      <4>1. q \in Seq(LockRow) /\ Rows(q) = {K!SessionRow(x.s)} /\ Sorted(q)
        BY <2>5, <4>0, OneTaken
      <4> QED
        BY <2>8, <2>9, <2>12, <2>13, <3>2, <4>1 DEF Top, Covers, InOrder
    <3>3. CASE i = 1
      <4>0. q \in K!Holders(K!Decides(x))
        BY <2>13, <3>3, SeatsStatements
      <4>1. q \in Seq(LockRow) /\ Rows(q) = Payers(K!Decides(x)) /\ Sorted(q)
        BY <2>2, <4>0, HoldersTaken
      <4> QED
        BY <2>6, <2>8, <2>11, <2>13, <3>3, <4>1 DEF Top, Covers, InOrder
    <3>4. CASE i = 2
      <4>0. q \in K!SetToSeqs(SeatRows(x.s, x.people))
        BY <2>13, <3>4, SeatsStatements
      <4>1. q \in Seq(LockRow) /\ Rows(q) = SeatRows(x.s, x.people)
        BY <2>1, <4>0, SeatsTaken
      <4> QED
        BY <2>4, <2>10, <2>13, <3>4, <4>1 DEF Top, Covers, InOrder
    <3>5. CASE i = 3 /\ x.frees
      <4>0. q \in K!One(K!SessionRow(x.s))
        BY <2>13, <3>5, SeatsStatements
      <4>1. q \in Seq(LockRow) /\ Rows(q) = {K!SessionRow(x.s)}
        BY <2>5, <4>0, OneTaken
      <4> QED
        BY <2>9, <2>12, <2>13, <3>5, <4>1 DEF Top, Covers, InOrder
    <3>6. CASE i = 4 /\ x.frees
      <4>0. q \in K!Holders(K!Waiters(x))
        BY <2>13, <3>6, SeatsStatements
      <4>1. q \in Seq(LockRow) /\ Rows(q) = Payers(K!Waiters(x))
        BY <2>2, <4>0, HoldersTaken
      <4>2. Covers(x, i) = K!Decides(x) /\ Covers(x, i + 1) = K!Decides(x)
        BY <2>13, <3>6 DEF Covers
      <4>3. Rows(q) \subseteq Payers(Covers(x, i))
        BY <2>3, <2>7, <2>13, <3>6, <4>1, <4>2
      <4>4. Top(x, i + 1) = 5
        BY <2>13, <3>6 DEF Top
      <4>5. \A r \in Rows(q) : Rank(r) = 4 /\ r[1] # "seat"
        BY <2>6, <2>11, <4>1
      <4> QED
        BY <3>6, <4>1, <4>2, <4>3, <4>4, <4>5 DEF InOrder
    <3>7. CASE i = 5 /\ x.frees
      <4>0. q \in K!SetToSeqs(SeatRows(x.s, K!Waiters(x)))
        BY <2>13, <3>7, SeatsStatements
      <4>1. q \in Seq(LockRow) /\ Rows(q) = SeatRows(x.s, K!Waiters(x))
        BY <2>1, <2>2, <4>0, SeatsTaken
      <4>2. Covers(x, i) = K!Decides(x) /\ Covers(x, i + 1) = K!Decides(x)
        BY <2>13, <3>7 DEF Covers
      <4>3. Top(x, i + 1) = 5
        BY <2>13, <3>7 DEF Top
      <4> QED
        BY <2>3, <2>10, <2>13, <3>7, <4>1, <4>2, <4>3 DEF InOrder
    <3> QED
      BY <3>1, <3>2, <3>3, <3>4, <3>5, <3>6, <3>7
  <2>14. CASE x.op = "fill"
    <3>1. i \in 0 .. 2
      BY <2>14, FillStatements
    <3>2. CASE i = 0
      <4>0. q \in K!One(K!SessionRow(x.s))
        BY <2>14, <3>2, FillStatements
      <4>1. q \in Seq(LockRow) /\ Rows(q) = {K!SessionRow(x.s)} /\ Sorted(q)
        BY <2>5, <4>0, OneTaken
      <4> QED
        BY <2>8, <2>9, <2>12, <2>14, <3>2, <4>1 DEF Top, Covers, InOrder
    <3>3. CASE i = 1
      <4>0. q \in K!Holders(K!Waiters(x))
        BY <2>14, <3>3, FillStatements
      <4>1. q \in Seq(LockRow) /\ Rows(q) = Payers(K!Waiters(x)) /\ Sorted(q)
        BY <2>2, <4>0, HoldersTaken
      <4> QED
        BY <2>6, <2>8, <2>11, <2>14, <3>3, <4>1 DEF Top, Covers, InOrder
    <3>4. CASE i = 2
      <4>0. q \in K!SetToSeqs(SeatRows(x.s, K!Waiters(x)))
        BY <2>14, <3>4, FillStatements
      <4>1. q \in Seq(LockRow) /\ Rows(q) = SeatRows(x.s, K!Waiters(x))
        BY <2>1, <2>2, <4>0, SeatsTaken
      <4> QED
        BY <2>10, <2>14, <3>4, <4>1 DEF Top, Covers, InOrder
    <3> QED
      BY <3>1, <3>2, <3>3, <3>4
  <2>15. CASE x.op = "move"
    <3>1. i \in 0 .. 5
      BY <2>15, MoveStatements
    <3>2. CASE i = 0
      <4>0. q \in K!One(K!SessionRow(x.s))
        BY <2>15, <3>2, MoveStatements
      <4>1. q \in Seq(LockRow) /\ Rows(q) = {K!SessionRow(x.s)} /\ Sorted(q)
        BY <2>5, <4>0, OneTaken
      <4> QED
        BY <2>8, <2>9, <2>12, <2>15, <3>2, <4>1 DEF Top, Covers, InOrder
    <3>3. CASE i = 1
      <4>0. q \in K!One(K!SpaceRow)
        BY <2>15, <3>3, MoveStatements
      <4>1. q \in Seq(LockRow) /\ Rows(q) = {K!SpaceRow} /\ Sorted(q)
        BY <2>5, <4>0, OneTaken
      <4> QED
        BY <2>8, <2>9, <2>12, <2>15, <3>3, <4>1 DEF Top, Covers, InOrder
    <3>4. CASE i = 2
      <4>0. q \in K!One(K!ItemRow(x.s))
        BY <2>15, <3>4, MoveStatements
      <4>1. q \in Seq(LockRow) /\ Rows(q) = {K!ItemRow(x.s)} /\ Sorted(q)
        BY <2>5, <4>0, OneTaken
      <4> QED
        BY <2>8, <2>9, <2>12, <2>15, <3>4, <4>1 DEF Top, Covers, InOrder
    <3>5. CASE i = 3
      <4>0. q \in K!One(K!SessionRow(x.s))
        BY <2>15, <3>5, MoveStatements
      <4>1. q \in Seq(LockRow) /\ Rows(q) = {K!SessionRow(x.s)}
        BY <2>5, <4>0, OneTaken
      <4> QED
        BY <2>8, <2>9, <2>12, <2>15, <3>5, <4>1 DEF Top, Covers, InOrder
    <3>6. CASE i = 4
      <4>0. q \in K!Holders(K!Waiters(x))
        BY <2>15, <3>6, MoveStatements
      <4>1. q \in Seq(LockRow) /\ Rows(q) = Payers(K!Waiters(x)) /\ Sorted(q)
        BY <2>2, <4>0, HoldersTaken
      <4> QED
        BY <2>6, <2>8, <2>11, <2>15, <3>6, <4>1 DEF Top, Covers, InOrder
    <3>7. CASE i = 5
      <4>0. q \in K!SetToSeqs(SeatRows(x.s, K!Waiters(x)))
        BY <2>15, <3>7, MoveStatements
      <4>1. q \in Seq(LockRow) /\ Rows(q) = SeatRows(x.s, K!Waiters(x))
        BY <2>1, <2>2, <4>0, SeatsTaken
      <4> QED
        BY <2>10, <2>15, <3>7, <4>1 DEF Top, Covers, InOrder
    <3> QED
      BY <3>1, <3>2, <3>3, <3>4, <3>5, <3>6, <3>7
  <2> QED
    BY <1>1, <2>13, <2>14, <2>15
<1>2. CASE x.op = "confirm"
  <2>1. K!SessionRow(x.s) \in LockRow /\ K!ItemRow(x.s) \in LockRow
    BY <1>2, OperationTypes DEF LockRow
  <2>2. /\ Rank(K!SessionRow(x.s)) = 1 /\ K!SessionRow(x.s)[1] # "seat"
        /\ Rank(K!ItemRow(x.s)) = 3 /\ K!ItemRow(x.s)[1] # "seat"
    BY DEF Rank, K!SessionRow, K!ItemRow
  <2>3. i \in 0 .. 1
    BY <1>2, OtherStatements
  <2>4. CASE i = 0
    <3>0. q \in K!One(K!SessionRow(x.s))
      BY <1>2, <2>4, OtherStatements
    <3>1. q \in Seq(LockRow) /\ Rows(q) = {K!SessionRow(x.s)} /\ Sorted(q)
      BY <2>1, <3>0, OneTaken
    <3>2. Top(x, i) = 0 /\ Top(x, i + 1) = 1
      BY <1>2, <2>4 DEF Top
    <3> QED
      BY <1>2, <2>2, <2>4, <3>1, <3>2, Uncovered
  <2>5. CASE i = 1
    <3>0. q \in K!One(K!ItemRow(x.s))
      BY <1>2, <2>5, OtherStatements
    <3>1. q \in Seq(LockRow) /\ Rows(q) = {K!ItemRow(x.s)} /\ Sorted(q)
      BY <2>1, <3>0, OneTaken
    <3>2. Top(x, i) = 1 /\ Top(x, i + 1) = 3
      BY <1>2, <2>5 DEF Top
    <3> QED
      BY <1>2, <2>2, <2>5, <3>1, <3>2, Uncovered
  <2> QED
    BY <2>3, <2>4, <2>5
<1>3. CASE x.op = "invite"
  <2>1. i = 0 /\ x.people \in SUBSET User
    BY <1>3, OtherStatements, OperationTypes
  <2>2. q \in K!ByPk(PeopleRows(x.people))
    BY <1>3, <2>1, OtherStatements
  <2>3. /\ q \in Seq(LockRow) /\ Rows(q) \subseteq PeopleRows(x.people)
        /\ Sorted(q)
    BY <2>1, <2>2, CompanionsTaken
  <2>4. \A r \in Rows(q) : Rank(r) = 4 /\ r[1] # "seat"
    BY <2>3 DEF Rank, K!UserRow, PeopleRows
  <2>5. Top(x, i) = 0 /\ Top(x, i + 1) = 4
    BY <1>3, <2>1 DEF Top
  <2> QED
    BY <1>3, <2>1, <2>3, <2>4, <2>5, Uncovered
<1>4. CASE x.op = "remove"
  <2>1. x.u \in User /\ i \in 0 .. 1
    BY <1>4, OtherStatements, OperationTypes
  <2>2. CASE i = 0
    <3>1. K!UserRow(x.u) \in LockRow
      BY <2>1 DEF LockRow
    <3>2. q \in Seq(LockRow) /\ Rows(q) = {K!UserRow(x.u)} /\ Sorted(q)
      <4>1. q \in K!One(K!UserRow(x.u))
        BY <1>4, <2>2, OtherStatements
      <4> QED
        BY <3>1, <4>1, OneTaken
    <3>3. Rank(K!UserRow(x.u)) = 4 /\ K!UserRow(x.u)[1] # "seat"
      BY DEF Rank, K!UserRow
    <3>4. Top(x, i) = 0 /\ Top(x, i + 1) = 4
      BY <1>4, <2>2 DEF Top
    <3> QED
      BY <1>4, <2>2, <3>2, <3>3, <3>4, Uncovered
  <2>3. CASE i = 1
    <3> DEFINE f == [s \in Session |-> K!SeatRow(s, x.u)]
    <3>1. q \in K!SetToSeqs(SeatsOf(x.u))
      BY <1>4, <2>3, OtherStatements
    <3>2. SeatsOf(x.u) = {f[s] : s \in Session}
      BY DEF SeatsOf
    <3>3. \A s \in Session : f[s] \in LockRow
      BY <2>1 DEF LockRow
    <3>4. f = [s \in Session |-> f[s]]
      OBVIOUS
    <3>5. q \in Seq(LockRow) /\ Rows(q) = SeatsOf(x.u)
      BY <3>1, <3>2, <3>3, <3>4, OfEachSession
    <3>6. \A r \in Rows(q) : Rank(r) = 5 /\ r[1] = "seat" /\ r[3] = x.u
      BY <3>5 DEF Rank, K!SeatRow, SeatsOf
    <3>7. Top(x, i + 1) = 5
      BY <1>4, <2>3 DEF Top
    <3> QED
      BY <1>4, <2>3, <3>5, <3>6, <3>7, Uncovered
  <2> QED
    BY <2>1, <2>2, <2>3
<1>5. CASE x.op = "bulk"
  <2> DEFINE f == [s \in Session |-> K!ItemRow(s)]
             g == [s \in Session |-> K!SessionRow(s)]
  <2>1. /\ Items = {f[s] : s \in Session}
        /\ Sessions = {g[s] : s \in Session}
    BY DEF Items, Sessions
  <2>2. \A s \in Session : f[s] \in LockRow /\ g[s] \in LockRow
    BY DEF LockRow
  <2>3. f = [s \in Session |-> f[s]] /\ g = [s \in Session |-> g[s]]
    OBVIOUS
  <2>4. i \in 0 .. 1
    BY <1>5, OtherStatements
  <2>5. \/ q \in K!SetToSeqs({f[s] : s \in Session})
        \/ q \in K!SetToSeqs({g[s] : s \in Session})
    BY <1>5, <2>1, <2>4, OtherStatements
  <2> HIDE DEF f, g
  <2> QED
    BY <1>5, <2>2, <2>3, <2>5, OfEachSession
<1> QED
  BY <1>1, <1>2, <1>3, <1>4, <1>5, OperationTypes

-----------------------------------------------------------------------------
\* To begin with nobody holds a row.
LEMMA KInit == Init => KInv
<1> SUFFICES ASSUME Init PROVE KInv
  OBVIOUS
<1>1. K!Init
  BY DEF Init
<1>2. KTypeOK
  BY <1>1 DEF K!Init, KTypeOK
<1>3. \A t \in Txn : txn[t] = K!NotBegun /\ held[t] = {}
  BY <1>1 DEF K!Init
<1> QED
  BY <1>1, <1>2, <1>3 DEF K!Init, KInv, KJoins, KExclusive, KFresh, Sound, Seated

\* A transaction never gets down again.
LEMMA TopRises ==
  ASSUME NEW x \in K!Operations, x.op # "bulk", NEW i \in Nat
  PROVE  Top(x, i) \in Nat /\ Top(x, i + 1) \in Nat /\ Top(x, i) <= Top(x, i + 1)
<1>1. x.op \in {"seats", "fill", "move", "confirm", "invite", "remove"}
  BY OperationTypes
<1> QED
  BY <1>1 DEF Top

\* Every row is of one of the five tables.
LEMMA RankTypes == \A r \in LockRow : Rank(r) \in 1 .. 5
BY DEF LockRow, Rank, K!SessionRow, K!SpaceRow, K!ItemRow, K!UserRow, K!SeatRow

\* A transaction that has begun does one of the operations.
LEMMA Begun ==
  ASSUME KInv, NEW t \in Txn, txn[t] # K!NotBegun
  PROVE  txn[t] \in K!Operations
BY DEF KInv, KTypeOK

\* Between two statements it has asked for what it holds.
LEMMA Idle ==
  ASSUME NEW t \in Txn, todo[t] = <<>>
  PROVE  Reach(t) = held[t]
BY DEF Reach, Asked

\* Who takes no step stays as they were, whoever leaves a waiting list.
LEMMA KAside ==
  ASSUME KInv, NEW v \in Txn,
         txn'[v] = txn[v], step'[v] = step[v], todo'[v] = todo[v], held'[v] = held[v],
         waits' = waits
           \/ (Seated(v) /\ txn[v].op \in {"seats", "fill", "move"} /\ step[v] > 1 =>
                 waits'[txn[v].s] \subseteq waits[txn[v].s])
  PROVE  Sound(v)'
<1> SUFFICES ASSUME Seated(v) PROVE Sound(v)'
  BY DEF Sound, Seated
<1>1. /\ txn[v] \in K!Operations /\ step[v] \in Nat
      /\ Below(v) /\ Ordered(v) /\ SeatsCovered(v) /\ SessionFirst(v) /\ PeopleFirst(v)
  BY Begun DEF KInv, KTypeOK, Sound, Seated
<1>2. Reach(v)' = Reach(v)
  BY DEF Reach, Asked
<1>3. Below(v)'
  BY <1>1, <1>2 DEF Below
<1>4. Ordered(v)'
  BY <1>1 DEF Ordered
<1>5. SeatsCovered(v)'
  BY <1>1, <1>2 DEF SeatsCovered
<1>6. SessionFirst(v)'
  BY <1>1, <1>2 DEF SessionFirst
<1>7. Covers(txn[v], step[v])' \subseteq Covers(txn[v], step[v])
  <2>1. CASE waits' = waits
    BY <2>1 DEF Covers, K!Decides, K!Waiters
  <2>2. CASE txn[v].op \in {"seats", "fill", "move"} /\ step[v] > 1
             /\ waits'[txn[v].s] \subseteq waits[txn[v].s]
    BY <2>2 DEF Covers, K!Decides, K!Waiters
  <2>3. CASE ~(txn[v].op \in {"seats", "fill", "move"} /\ step[v] > 1)
    BY <1>1, <2>3 DEF Covers
  <2> QED
    BY <2>1, <2>2, <2>3
<1>8. PeopleFirst(v)'
  <2>1. Payers(Covers(txn[v], step[v])') \subseteq Payers(Covers(txn[v], step[v]))
    BY <1>7 DEF Payers
  <2> QED
    BY <1>1, <1>2, <2>1 DEF PeopleFirst, Payers
<1> QED
  BY <1>3, <1>4, <1>5, <1>6, <1>8 DEF Sound

\* Who begins holds nothing.
LEMMA KBegin ==
  ASSUME KInv, NEW t \in Txn, NEW x \in K!Operations, K!Begin(t, x)
  PROVE  KInv'
<1>1. /\ txn[t] = K!NotBegun /\ txn' = [txn EXCEPT ![t] = x]
      /\ x.op = "seats" => x.joins \subseteq x.people
      /\ UNCHANGED <<waits, step, todo, held>>
  BY DEF K!Begin
<1>2. /\ txn'[t] = x /\ \A v \in Txn \ {t} : txn'[v] = txn[v]
      /\ step[t] = 0 /\ todo[t] = <<>> /\ held[t] = {}
  BY <1>1 DEF KInv, KTypeOK, KFresh
<1>3. KTypeOK' /\ KJoins' /\ KExclusive' /\ KFresh'
  BY <1>1, <1>2 DEF KInv, KTypeOK, KJoins, KExclusive, KFresh
<1>4. Sound(t)'
  <2>1. Reach(t)' = {}
    BY <1>1, <1>2 DEF Reach, Asked
  <2>2. Covers(txn[t], step[t])' = {}
    BY <1>1, <1>2 DEF Covers
  <2> QED
    BY <1>1, <1>2, <2>1, <2>2 DEF Sound, Below, Ordered, SeatsCovered, SessionFirst,
       PeopleFirst, Payers
<1>5. \A v \in Txn \ {t} : Sound(v)'
  BY <1>1, <1>2, KAside
<1> QED
  BY <1>3, <1>4, <1>5 DEF KInv

\* The next statement asks for rows beyond those held, or for rows of its own.
LEMMA KExecute ==
  ASSUME KInv, NEW t \in Txn, K!Execute(t)
  PROVE  KInv'
<1> DEFINE x == txn[t]
           i == step[t]
           all == K!Statements(x)
<1>1. /\ x \in K!Operations /\ i \in Nat /\ x # K!NotBegun
      /\ x.op = "seats" => x.joins \subseteq x.people
      /\ waits \in [Session -> SUBSET User]
  BY Begun DEF KInv, KTypeOK, KJoins, K!Execute
<1>2. PICK q \in all[i + 1] : todo' = [todo EXCEPT ![t] = q]
  BY DEF K!Execute, KInv, KTypeOK
<1>3. /\ i < Len(all) /\ todo[t] = <<>> /\ Reach(t) = held[t]
      /\ step' = [step EXCEPT ![t] = i + 1]
      /\ UNCHANGED <<waits, txn, held>>
  BY Idle DEF K!Execute
<1>4. q \in Seq(LockRow) /\ (x.op # "bulk" => InOrder(x, i, q))
  <2> HIDE DEF x, i
  <2> QED
    BY <1>1, <1>2, <1>3, Statement
<1>5. /\ step'[t] = i + 1 /\ todo'[t] = q /\ held'[t] = held[t] /\ txn'[t] = x
      /\ \A v \in Txn \ {t} : step'[v] = step[v] /\ todo'[v] = todo[v]
  BY <1>2, <1>3 DEF KInv, KTypeOK
<1>6. KTypeOK' /\ KJoins' /\ KExclusive'
  BY <1>2, <1>3, <1>4 DEF KInv, KTypeOK, KJoins, KExclusive
<1>7. KFresh'
  BY <1>1, <1>3, <1>5 DEF KInv, KFresh
<1>8. Sound(t)'
  <2> SUFFICES ASSUME Seated(t)' PROVE Sound(t)'
    BY DEF Sound
  <2>1. /\ Seated(t) /\ x.op # "bulk" /\ InOrder(x, i, q)
        /\ Below(t) /\ SeatsCovered(t) /\ SessionFirst(t) /\ PeopleFirst(t)
    BY <1>3, <1>4 DEF Seated, KInv, Sound
  <2>2. Reach(t)' = held[t] \cup Rows(q)
    BY <1>5 DEF Reach, Asked, Rows
  <2>3. Top(x, i) \in Nat /\ Top(x, i + 1) \in Nat /\ Top(x, i) <= Top(x, i + 1)
    BY <1>1, <2>1, TopRises
  <2>4. \A r \in held[t] : Rank(r) \in Nat /\ Rank(r) <= Top(x, i)
    <3>1. held[t] \subseteq LockRow
      BY DEF KInv, KTypeOK
    <3>2. \A r \in held[t] : Rank(r) <= Top(x, i)
      BY <1>3, <2>1 DEF Below
    <3> QED
      BY <3>1, <3>2, RankTypes
  <2>5. Payers(Covers(x, i)) \subseteq held[t]
    BY <1>3, <2>1 DEF PeopleFirst
  <2> HIDE DEF x, i
  <2>6. \A r \in Rows(q) : r \in LockRow /\ Rank(r) \in Nat
    BY <1>4, RankTypes DEF Rows
  <2>7. Below(t)'
    BY <1>5, <2>1, <2>2, <2>3, <2>4 DEF Below, InOrder
  <2>8. Ordered(t)'
    <3> SUFFICES ASSUME NEW k \in 1 .. Len(q)
                 PROVE  \/ q[k] \in held[t] \/ q[k][1] = "seat"
                        \/ /\ \A r \in held[t] : Precedes(r, q[k])
                           /\ \A j \in 1 .. k - 1 : Precedes(q[j], q[k])
      BY <1>5 DEF Ordered
    <3>1. q[k] \in Rows(q)
      BY DEF Rows
    <3>2. CASE Sorted(q) /\ \A r \in Rows(q) : Rank(r) > Top(x, i)
      BY <2>3, <2>4, <2>6, <3>1, <3>2 DEF Sorted, Precedes
    <3>3. CASE Rows(q) \subseteq Payers(Covers(x, i))
      BY <2>5, <3>1, <3>3
    <3>4. CASE i > 0 /\ x.op \in {"seats", "fill", "move"} /\ Rows(q) \subseteq {K!SessionRow(x.s)}
      BY <1>1, <1>3, <2>1, <3>1, <3>4 DEF SessionFirst, x, i
    <3> QED
      BY <2>1, <3>1, <3>2, <3>3, <3>4 DEF InOrder
  <2>9. SeatsCovered(t)'
    <3> SUFFICES ASSUME NEW r \in Rows(q), r[1] = "seat" PROVE K!UserRow(r[3]) \in held[t]
      BY <1>3, <1>5, <2>1, <2>2 DEF SeatsCovered
    <3>1. CASE r[3] \in Covers(x, i)
      BY <2>5, <3>1 DEF Payers
    <3>2. CASE i > 0 /\ x.op = "remove" /\ r[3] = x.u
      BY <1>3, <2>1, <3>2 DEF PeopleFirst, x, i
    <3> QED
      BY <2>1, <3>1, <3>2 DEF InOrder
  <2>10. SessionFirst(t)'
    <3>1. i = 0 /\ x.op \in {"seats", "fill", "move"} => K!SessionRow(x.s) \in Rows(q)
      BY <2>1 DEF InOrder
    <3>2. i > 0 /\ x.op \in {"seats", "fill", "move"} => K!SessionRow(x.s) \in held[t]
      BY <1>1, <1>3, <2>1 DEF SessionFirst, x, i
    <3> QED
      BY <1>1, <1>5, <2>2, <3>1, <3>2 DEF SessionFirst
  <2>11. PeopleFirst(t)'
    <3>1. i > 0 /\ x.op = "remove" => K!UserRow(x.u) \in held[t]
      BY <1>3, <2>1 DEF PeopleFirst, x, i
    <3>2. i = 0 /\ x.op = "remove" => K!UserRow(x.u) \in Rows(q)
      BY <2>1 DEF InOrder
    <3>3. Payers(Covers(x, i + 1)) \subseteq held[t] \cup Rows(q)
      BY <2>1, <2>5 DEF InOrder
    <3>4. Covers(txn[t], step[t])' = Covers(x, i + 1)
      BY <1>3, <1>5 DEF Covers, K!Decides, K!Waiters, x
    <3> QED
      BY <1>1, <1>5, <2>2, <3>1, <3>2, <3>3, <3>4 DEF PeopleFirst, Payers
  <2> QED
    BY <2>7, <2>8, <2>9, <2>10, <2>11 DEF Sound
<1>9. \A v \in Txn \ {t} : Sound(v)'
  BY <1>3, <1>5, KAside
<1> QED
  BY <1>6, <1>7, <1>8, <1>9 DEF KInv

\* A row that is taken was asked for, and was nobody's.
LEMMA KTake ==
  ASSUME KInv, NEW t \in Txn, K!Take(t)
  PROVE  KInv'
<1> DEFINE row == Head(todo[t])
           rest == Tail(todo[t])
<1>1. /\ todo[t] # <<>> /\ \A v \in Txn \ {t} : row \notin held[v]
      /\ held' = [held EXCEPT ![t] = @ \cup {row}]
      /\ todo' = [todo EXCEPT ![t] = rest]
      /\ UNCHANGED <<waits, txn, step>>
  BY DEF K!Take, K!Free
<1>2. todo[t] \in Seq(LockRow)
  BY DEF KInv, KTypeOK
<1>3. /\ row \in LockRow /\ rest \in Seq(LockRow) /\ row = todo[t][1]
      /\ Len(todo[t]) \in Nat /\ Len(rest) = Len(todo[t]) - 1 /\ 1 \in 1 .. Len(todo[t])
      /\ \A i \in 1 .. Len(rest) : rest[i] = todo[t][i + 1] /\ i + 1 \in 1 .. Len(todo[t])
  BY <1>1, <1>2, HeadTailProperties
<1> HIDE DEF row, rest
<1>4. /\ held'[t] = held[t] \cup {row} /\ todo'[t] = rest
      /\ \A v \in Txn \ {t} : held'[v] = held[v] /\ todo'[v] = todo[v]
  BY <1>1 DEF KInv, KTypeOK
<1>5. KTypeOK' /\ KJoins'
  BY <1>1, <1>3 DEF KInv, KTypeOK, KJoins
<1>6. KExclusive'
  BY <1>1, <1>4 DEF KInv, KExclusive
<1>7. KFresh'
  BY <1>1, <1>4 DEF KInv, KFresh
<1>8. Sound(t)'
  <2> SUFFICES ASSUME Seated(t)' PROVE Sound(t)'
    BY DEF Sound
  <2>1. Below(t) /\ Ordered(t) /\ SeatsCovered(t) /\ SessionFirst(t) /\ PeopleFirst(t)
    BY <1>1 DEF KInv, Sound, Seated
  <2>2. Reach(t)' = Reach(t)
    <3>1. Asked(t) = {row} \cup Asked(t)'
      <4>1. ASSUME NEW i \in 1 .. Len(todo[t])
            PROVE  todo[t][i] = row \/ \E j \in 1 .. Len(rest) : todo[t][i] = rest[j]
        <5>1. CASE i = 1
          BY <1>3, <5>1
        <5>2. CASE i # 1
          <6>1. i - 1 \in 1 .. Len(rest) /\ (i - 1) + 1 = i
            BY <1>3, <5>2
          <6> QED
            BY <1>3, <6>1
        <5> QED
          BY <5>1, <5>2
      <4>2. \A i \in 1 .. Len(rest) : rest[i] \in Asked(t)
        BY <1>3 DEF Asked
      <4>3. row \in Asked(t)
        BY <1>3 DEF Asked
      <4> QED
        BY <1>4, <4>1, <4>2, <4>3 DEF Asked
    <3> QED
      BY <1>4, <3>1 DEF Reach
  <2>3. held[t] \subseteq held'[t]
    BY <1>4
  <2>4. Below(t)' /\ SeatsCovered(t)' /\ SessionFirst(t)'
    BY <1>1, <2>1, <2>2, <2>3 DEF Below, SeatsCovered, SessionFirst
  <2>5. Ordered(t)'
    <3> SUFFICES ASSUME NEW i \in 1 .. Len(rest)
                 PROVE  \/ rest[i] \in held'[t] \/ rest[i][1] = "seat"
                        \/ /\ \A q \in held'[t] : Precedes(q, rest[i])
                           /\ \A j \in 1 .. i - 1 : Precedes(rest[j], rest[i])
      BY <1>4 DEF Ordered
    <3>1. rest[i] = todo[t][i + 1] /\ i + 1 \in 1 .. Len(todo[t])
      BY <1>3
    <3>2. 1 \in 1 .. (i + 1) - 1
          /\ \A j \in 1 .. i - 1 : j + 1 \in 1 .. (i + 1) - 1 /\ rest[j] = todo[t][j + 1]
      BY <1>3
    <3>3. \/ todo[t][i + 1] \in held[t] \/ todo[t][i + 1][1] = "seat"
          \/ /\ \A q \in held[t] : Precedes(q, todo[t][i + 1])
             /\ \A j \in 1 .. (i + 1) - 1 : Precedes(todo[t][j], todo[t][i + 1])
      BY <2>1, <3>1 DEF Ordered
    <3> QED
      BY <1>3, <1>4, <3>1, <3>2, <3>3
  <2>6. PeopleFirst(t)'
    BY <1>1, <2>1, <2>2 DEF PeopleFirst, Covers, K!Decides, K!Waiters, Payers
  <2> QED
    BY <2>4, <2>5, <2>6 DEF Sound
<1>9. \A v \in Txn \ {t} : Sound(v)'
  BY <1>1, <1>4, KAside
<1> QED
  BY <1>5, <1>6, <1>7, <1>8, <1>9 DEF KInv

\* A waiting list grows only under its session's row.
LEMMA KLeft ==
  ASSUME KInv, NEW t \in Txn, K!Commit(t)
  PROVE  /\ waits' \in [Session -> SUBSET User]
         /\ \A v \in Txn \ {t} :
              Seated(v) /\ txn[v].op \in {"seats", "fill", "move"} /\ step[v] > 1 =>
                waits'[txn[v].s] \subseteq waits[txn[v].s]
<1> DEFINE it == txn[t]
<1>1. it # K!NotBegun /\ step[t] = Len(K!Statements(it)) /\ it \in K!Operations
  BY Begun DEF K!Commit
<1>2. waits' = CASE it.op = "seats" -> [waits EXCEPT ![it.s] = K!Waiters(it)]
                 [] it.op = "remove" -> [s \in Session |-> waits[s] \ {it.u}]
                 [] OTHER -> waits
  BY DEF K!Commit
<1>3. waits \in [Session -> SUBSET User]
  BY DEF KInv, KTypeOK
<1>4. ASSUME NEW v \in Txn, Seated(v), txn[v].op \in {"seats", "fill", "move"}
      PROVE  txn[v].s \in Session
  BY <1>4, Begun, OperationTypes DEF Seated
<1> HIDE DEF it
<1>5. CASE it.op = "seats"
  <2>1. it.s \in Session /\ K!Waiters(it) \in SUBSET User
    <3>1. it.s \in Session /\ it.joins \in SUBSET User
      BY <1>1, <1>5, OperationTypes
    <3> QED
      BY <1>3, <3>1 DEF K!Waiters
  <2>2. waits' = [waits EXCEPT ![it.s] = K!Waiters(it)]
    BY <1>2, <1>5
  <2>3. waits' \in [Session -> SUBSET User]
    BY <1>3, <2>1, <2>2
  <2>4. K!SessionRow(it.s) \in held[t]
    <3>1. step[t] > 1
      BY <1>1, <1>5, SeatsStatements
    <3> QED
      BY <1>1, <1>5, <3>1 DEF KInv, Sound, Seated, SessionFirst, it
  <2>5. ASSUME NEW v \in Txn \ {t}, Seated(v), txn[v].op \in {"seats", "fill", "move"},
               step[v] > 1
        PROVE  waits'[txn[v].s] \subseteq waits[txn[v].s]
    <3>1. K!SessionRow(txn[v].s) \in held[v]
      BY <2>5 DEF KInv, Sound, SessionFirst
    <3>2. txn[v].s # it.s
      BY <2>4, <3>1 DEF KInv, KExclusive
    <3> QED
      BY <1>3, <1>4, <2>1, <2>2, <2>5, <3>2
  <2> QED
    BY <2>3, <2>5
<1>6. CASE it.op = "remove"
  <2>1. waits' = [s \in Session |-> waits[s] \ {it.u}]
    BY <1>2, <1>6
  <2> QED
    BY <1>3, <1>4, <2>1
<1>7. CASE it.op # "seats" /\ it.op # "remove"
  <2>1. waits' = waits
    BY <1>2, <1>7
  <2> QED
    BY <1>3, <2>1
<1> QED
  BY <1>5, <1>6, <1>7

\* Whoever commits or is rolled back holds nothing.
LEMMA KEnd ==
  ASSUME KInv, NEW t \in Txn, K!Commit(t) \/ K!Abort(t)
  PROVE  KInv'
<1>1. /\ txn' = [txn EXCEPT ![t] = K!NotBegun] /\ step' = [step EXCEPT ![t] = 0]
      /\ todo' = [todo EXCEPT ![t] = <<>>] /\ held' = [held EXCEPT ![t] = {}]
  BY DEF K!Commit, K!Abort, K!Ends
<1>2. /\ waits' \in [Session -> SUBSET User]
      /\ \A v \in Txn \ {t} :
           Seated(v) /\ txn[v].op \in {"seats", "fill", "move"} /\ step[v] > 1 =>
             waits' = waits \/ waits'[txn[v].s] \subseteq waits[txn[v].s]
  BY KLeft DEF K!Abort, KInv, KTypeOK
<1>3. /\ txn'[t] = K!NotBegun /\ step'[t] = 0 /\ todo'[t] = <<>> /\ held'[t] = {}
      /\ \A v \in Txn \ {t} : txn'[v] = txn[v] /\ step'[v] = step[v]
                              /\ todo'[v] = todo[v] /\ held'[v] = held[v]
  BY <1>1 DEF KInv, KTypeOK
<1>4. KTypeOK'
  BY <1>1, <1>2 DEF KInv, KTypeOK
<1>5. KJoins' /\ KExclusive' /\ KFresh'
  BY <1>3 DEF KInv, KJoins, KExclusive, KFresh
<1>6. Sound(t)'
  BY <1>3 DEF Sound, Seated
<1>7. \A v \in Txn \ {t} : Sound(v)'
  BY <1>2, <1>3, KAside
<1> QED
  BY <1>4, <1>5, <1>6, <1>7 DEF KInv

\* Every step keeps the invariant; the other parts of Requests leave it alone.
LEMMA KNext == KInv /\ [Next]_vars => KInv'
<1> SUFFICES ASSUME KInv, [Next]_vars PROVE KInv'
  OBVIOUS
<1>1. CASE K!Next
  BY <1>1, KBegin, KExecute, KTake, KEnd DEF K!Next
<1>2. CASE UNCHANGED locks
  <2>1. /\ UNCHANGED <<waits, txn, step, todo, held>>
        /\ KTypeOK' /\ KJoins' /\ KExclusive' /\ KFresh'
    BY <1>2 DEF locks, KInv, KTypeOK, KJoins, KExclusive, KFresh
  <2> QED
    BY <2>1, KAside DEF KInv
<1> QED
  BY <1>1, <1>2 DEF Next, vars, InEncounters, InAccounts, InParties, InHours

-----------------------------------------------------------------------------
\* Whoever waits for another of the seats' transactions waits for a row beyond
\* all it holds.
LEMMA Upward ==
  ASSUME KInv, NEW t \in Txn, NEW v \in Txn, Seated(t), Seated(v), K!WaitsFor(t, v)
  PROVE  \A q \in held[t] : Precedes(q, Head(todo[t]))
<1> DEFINE row == Head(todo[t])
<1>1. t # v /\ todo[t] # <<>> /\ row \in held[v]
  BY DEF K!WaitsFor
<1>2. row = todo[t][1] /\ 1 \in 1 .. Len(todo[t])
  <2>1. todo[t] \in Seq(LockRow)
    BY DEF KInv, KTypeOK
  <2> QED
    BY <1>1, <2>1
<1>3. Ordered(t) /\ SeatsCovered(t) /\ SeatsCovered(v)
  BY DEF KInv, Sound
<1>4. held[t] \cap held[v] = {}
  BY <1>1 DEF KInv, KExclusive
<1>5. row \notin held[t]
  BY <1>1, <1>4
<1>6. row[1] # "seat"
  <2> SUFFICES ASSUME row[1] = "seat" PROVE FALSE
    OBVIOUS
  <2>1. K!UserRow(row[3]) \in held[v]
    BY <1>1, <1>3 DEF SeatsCovered, Reach
  <2>2. row \in Reach(t)
    BY <1>2 DEF Reach, Asked
  <2>3. K!UserRow(row[3]) \in held[t]
    BY <1>3, <2>2 DEF SeatsCovered
  <2> QED
    BY <1>4, <2>1, <2>3
<1> QED
  BY <1>2, <1>3, <1>5, <1>6 DEF Ordered

\* The ranks, with the pks of people, order the rows.
LEMMA PrecedesIsAnOrder ==
  ASSUME NEW p \in LockRow, NEW q \in LockRow, NEW r \in LockRow
  PROVE  /\ ~Precedes(p, p)
         /\ Precedes(p, q) /\ Precedes(q, r) => Precedes(p, r)
<1>1. \A o \in LockRow : Rank(o) \in Nat
  BY RankTypes
<1>2. \A o \in LockRow : o[1] = "user" => o[2] \in Nat /\ Rank(o) = 4
  BY RequestsAssumption DEF K!RowLocksAssumption, LockRow, Rank, K!SessionRow,
     K!SpaceRow, K!ItemRow, K!UserRow, K!SeatRow
<1>3. ~Precedes(p, p)
  BY <1>1, <1>2 DEF Precedes
<1>4. ASSUME Precedes(p, q), Precedes(q, r) PROVE Precedes(p, r)
  BY <1>1, <1>2, <1>4 DEF Precedes
<1> QED
  BY <1>3, <1>4

\* Among finitely many transactions one waits for the last row, and whoever
\* holds it waits for none.
LEMMA NeverStuck ==
  ASSUME KInv, NEW S, S \subseteq Txn, \A t \in S : Seated(t)
  PROVE  ~K!Stuck(S)
<1> SUFFICES ASSUME S # {}, \A t \in S : \E v \in S : K!WaitsFor(t, v)
             PROVE  FALSE
  BY DEF K!Stuck
<1> DEFINE row(t) == Head(todo[t])
           above(t) == {v \in S : Precedes(row(t), row(v))}
           all == {above(t) : t \in S}
<1>1. IsFiniteSet(Txn)
  BY RequestsAssumption, Counted DEF K!RowLocksAssumption
<1>2. \A t \in S : row(t) \in LockRow
  <2> SUFFICES ASSUME NEW t \in S PROVE row(t) \in LockRow
    OBVIOUS
  <2>1. todo[t] \in Seq(LockRow) /\ todo[t] # <<>>
    BY DEF KInv, KTypeOK, K!WaitsFor
  <2> QED
    BY <2>1
<1>3. all \subseteq FiniteSubsetsOf(Txn) /\ all # {}
  <2>1. \A t \in S : above(t) \subseteq Txn /\ IsFiniteSet(above(t))
    BY <1>1, FS_Subset
  <2> QED
    BY <2>1 DEF FiniteSubsetsOf
<1>4. \E x \in all : \A y \in all : <<y, x>> \notin StrictSubsetOrdering(Txn)
  <2> HIDE DEF all
  <2> QED
    BY <1>3, FS_StrictSubsetOrderingWellFounded, WFMin
<1>5. PICK t \in S : \A v \in S : <<above(v), above(t)>> \notin StrictSubsetOrdering(Txn)
  BY <1>4
<1>6. PICK v \in S : K!WaitsFor(t, v)
  OBVIOUS
<1>7. PICK w \in S : K!WaitsFor(v, w)
  OBVIOUS
<1>8. row(t) \in held[v]
  BY <1>6 DEF K!WaitsFor
<1>9. Precedes(row(t), row(v))
  <2>1. \A q \in held[v] : Precedes(q, Head(todo[v]))
    BY <1>7, Upward
  <2> QED
    BY <1>8, <2>1
<1>10. above(v) \subseteq above(t)
  BY <1>2, <1>9, PrecedesIsAnOrder
<1>11. v \in above(t) /\ v \notin above(v)
  BY <1>2, <1>9, PrecedesIsAnOrder
<1>12. above(t) \in SUBSET Txn /\ above(v) \in SUBSET Txn
  OBVIOUS
<1> HIDE DEF above
<1> QED
  BY <1>5, <1>10, <1>11, <1>12 DEF StrictSubsetOrdering

\* The order of the row locks cannot deadlock: every cycle of waits runs
\* through a facilitator's confirmation of a whole schedule
\* (SeatsNeverDeadlock), for any number of transactions at once.
THEOREM SeatsNeverDeadlockHolds == Spec => []SeatsNeverDeadlock
<1>1. KInv => SeatsNeverDeadlock
  <2> SUFFICES ASSUME KInv,
                      NEW S \in SUBSET {t \in Txn : txn[t] # K!NotBegun /\ txn[t].op # "bulk"}
               PROVE  ~K!Stuck(S)
    BY DEF SeatsNeverDeadlock, K!SeatsNeverDeadlock
  <2>1. S \subseteq Txn /\ \A t \in S : Seated(t)
    BY DEF Seated
  <2> QED
    BY <2>1, NeverStuck
<1> QED
  BY <1>1, KInit, KNext, PTL DEF Spec
=============================================================================

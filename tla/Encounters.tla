----------------------------- MODULE Encounters -----------------------------
(***************************************************************************)
(* An encounter: people sign up on the site or answer the invitation in    *)
(* their calendar, the creator invites addresses and removes them, and     *)
(* every change mails the guests it touches, so that the entry in their    *)
(* calendar follows.                                                       *)
(*                                                                         *)
(* No row is locked.  An admission checks for room and writes later; a     *)
(* save and a deletion read the guests and write later; leaving is short   *)
(* and one step.  An answer sent by mail may come late or twice.           *)
(***************************************************************************)
EXTENDS Naturals, FiniteSets

CONSTANTS
  Email,       \* the addresses; an account is known by its address
  Limits,      \* the values of max_participants
  Cap,         \* INVITEES_PER_CREATOR_PER_DAY
  Web,         \* admissions in flight
  MaxMade      \* bound: encounters the creator makes, one after another

EncountersAssumption ==
  /\ Limits \subseteq Nat \ {0} /\ Cap \in Nat /\ MaxMade \in Nat
  /\ IsFiniteSet(Web)

Idle == [op |-> "idle"]

VARIABLES
  up,          \* the encounter exists
  made,        \* encounters made so far
  limit,
  most,        \* the highest limit there has been
  account,     \* the addresses with an account
  rsvp,        \* EncounterRSVP: the accounts signed up
  invite,      \* EncounterInvitee: the status of each address, or "none"
  counted,     \* the addresses whose rows the daily cap counts
  entry,       \* the addresses whose calendar shows the encounter
  missed,      \* those that changed while a save or a deletion was under way
  join,        \* admissions between their check and their write
  save         \* the creator's request: what it has read

vars == <<up, made, limit, most, account, rsvp, invite, counted, entry,
                 missed, join, save>>

Init ==
  /\ up = FALSE /\ made = 0
  /\ limit \in Limits /\ most = limit
  /\ account = {} /\ rsvp = {}
  /\ invite = [e \in Email |-> "none"]
  /\ counted = {} /\ entry = {} /\ missed = {}
  /\ join = [w \in Web |-> Idle]
  /\ save = Idle

-----------------------------------------------------------------------------
\* list_by_encounter leaves out the removed ones.
Listed(inv) == {e \in Email : inv[e] \notin {"none", "REMOVED"}}

\* guests: everyone signed up, and the invited who have not declined.
Guests(inv, signed) == signed \cup {e \in Email : inv[e] \in {"INVITED", "ACCEPTED"}}

Taken == rsvp \cup {e \in Email : invite[e] = "ACCEPTED"}

\* Mutant: the guests of the calendar, who hold no spot, are not counted.
RoomForAccounts(e) == invite[e] = "ACCEPTED" \/ Cardinality(rsvp) < limit

\* has_room; an accepted invitee turns the spot into a signup.
HasRoom(e) == invite[e] = "ACCEPTED" \/ Cardinality(Taken) < limit

\* Mutant: the answer is written whatever has become of the invitation.
AnyStatus(e, to) == [invite EXCEPT ![e] = IF @ = "none" THEN @ ELSE to]

\* set_status passes over a removed invitee.
SetStatus(e, to) ==
  [invite EXCEPT ![e] = IF @ \in {"none", "REMOVED"} THEN @ ELSE to]

-----------------------------------------------------------------------------
\* EncounterService.rsvp, up to admit's writes.
Rsvp(w, e) ==
  /\ up /\ join[w] = Idle
  /\ e \in account /\ e \notin rsvp /\ HasRoom(e)
  /\ join' = [join EXCEPT ![w] = [op |-> "rsvp", e |-> e, user |-> TRUE]]
  /\ UNCHANGED <<up, made, limit, most, account, rsvp, invite, counted, entry,
                 missed, save>>

\* EncounterReplyService._accept: only an invitee still on the list.
ReplyAccept(w, e) ==
  /\ up /\ join[w] = Idle
  /\ e \notin rsvp /\ invite[e] \in {"INVITED", "DECLINED"}
  /\ IF HasRoom(e)
       THEN /\ join' = [join EXCEPT ![w] =
                 [op |-> "reply", e |-> e, user |-> e \in account]]
            /\ UNCHANGED entry
       ELSE /\ entry' = entry \ {e}        \* the FULL message cancels it
            /\ UNCHANGED join
  /\ UNCHANGED <<up, made, limit, most, account, rsvp, invite, counted,
                 missed, save>>

\* admit's writes.  A second signup meets the unique key, one to a deleted
\* encounter the foreign key.
Admit(w) ==
  LET e == join[w].e
      fails == join[w].user /\ (e \in rsvp \/ ~up)
  IN
  /\ join[w] # Idle
  /\ IF fails
       THEN UNCHANGED <<rsvp, invite, entry>>
       ELSE /\ rsvp' = IF join[w].user THEN rsvp \cup {e} ELSE rsvp
            /\ invite' = SetStatus(e, "ACCEPTED")
            /\ entry' = IF join[w].user \/ invite'[e] = "ACCEPTED"
                          THEN entry \cup {e} ELSE entry
  /\ join' = [join EXCEPT ![w] = Idle]
  /\ UNCHANGED <<up, made, limit, most, account, counted, missed, save>>

\* release, from cancel_rsvp (which mails a cancellation) or from a calendar
\* that declined (and shows it): the spot is given up.
Release(e) ==
  /\ up
  /\ e \in rsvp \/ e \in Listed(invite)
  /\ rsvp' = rsvp \ {e}
  /\ invite' = SetStatus(e, "DECLINED")
  /\ entry' = entry \ {e}
  /\ UNCHANGED <<up, made, limit, most, account, counted, missed, join,
                 save>>

Register(e) ==
  /\ e \notin account
  /\ account' = account \cup {e}
  /\ UNCHANGED <<up, made, limit, most, rsvp, invite, counted, entry,
                 missed, join, save>>

-----------------------------------------------------------------------------
\* The daily cap: addresses already counted are invited again for nothing.
MayInvite(new) == new \subseteq counted \/ Cardinality(counted \cup new) <= Cap

\* add: a removed row is invited again as of today, a new address gets a row.
Added(inv, new) ==
  [e \in Email |-> IF e \in new /\ inv[e] \in {"none", "REMOVED"}
                     THEN "INVITED" ELSE inv[e]]

Create(W, l) ==
  /\ ~up /\ made < MaxMade /\ MayInvite(W)
  /\ up' = TRUE /\ made' = made + 1
  /\ limit' = l /\ most' = l
  /\ invite' = Added(invite, W)
  /\ counted' = counted \cup W
  /\ entry' = entry \cup W
  /\ UNCHANGED <<account, rsvp, missed, join, save>>

\* The creator's request reads the invitees and the guests ...
Reads(op, W) == [op |-> op, want |-> W, invite |-> invite, rsvp |-> rsvp]

\* The removed who are guests by their invitation only are mailed.
Dropped(s) ==
  {e \in Listed(s.invite) \ s.want :
     s.invite[e] \in {"INVITED", "ACCEPTED"} /\ e \notin s.rsvp}

ChangedSince(s) ==
  {e \in Email : invite[e] # s.invite[e] \/ ((e \in rsvp) # (e \in s.rsvp))}

SaveRead(W) ==
  /\ up /\ save = Idle
  /\ MayInvite(W \ Listed(invite))
  /\ save' = Reads("save", W)
  /\ UNCHANGED <<up, made, limit, most, account, rsvp, invite, counted, entry,
                 missed, join>>

\* ... and writes: remove leaves a refusal as it is, then the new ones are
\* invited, and everyone is told if what a calendar shows has changed.
SaveWrite(l, changed) ==
  LET added == save.want \ Listed(save.invite)
      left == Listed(save.invite) \ save.want
      kept == [e \in Email |->
                 IF e \in left /\ invite[e] \notin {"none", "DECLINED"}
                   THEN "REMOVED" ELSE invite[e]]
      told == Guests(Added(kept, added), rsvp)
  IN
  /\ save.op = "save"
  /\ invite' = Added(kept, added)
  /\ counted' = counted \cup {e \in added : kept[e] \in {"none", "REMOVED"}}
  /\ entry' = (entry \ Dropped(save))
                \cup (IF changed THEN told ELSE told \cap added)
  /\ missed' = missed \cup ChangedSince(save)
  /\ limit' = l /\ most' = IF l > most THEN l ELSE most
  /\ save' = Idle
  /\ UNCHANGED <<up, made, account, rsvp, join>>

DeleteRead ==
  /\ up /\ save = Idle
  /\ save' = Reads("delete", {})
  /\ UNCHANGED <<up, made, limit, most, account, rsvp, invite, counted, entry,
                 missed, join>>

\* Mutant: the guests are read after the rows have cascaded away.
DeleteUntold ==
  /\ save.op = "delete"
  /\ up' = FALSE /\ rsvp' = {}
  /\ invite' = [e \in Email |-> "none"]
  /\ missed' = missed \cup ChangedSince(save)
  /\ save' = Idle
  /\ UNCHANGED <<made, limit, most, account, counted, entry, join>>

\* delete_owned: the signups go with the encounter, the invitees' rows stay
\* for the cap to count.
DeleteWrite ==
  /\ save.op = "delete"
  /\ up' = FALSE /\ rsvp' = {}
  /\ invite' = [e \in Email |-> "none"]
  /\ entry' = entry \ Guests(save.invite, save.rsvp)
  /\ missed' = missed \cup ChangedSince(save)
  /\ save' = Idle
  /\ UNCHANGED <<made, limit, most, account, counted, join>>

\* A day has passed since the address was invited.
Age(e) ==
  /\ e \in counted
  /\ counted' = counted \ {e}
  /\ UNCHANGED <<up, made, limit, most, account, rsvp, invite, entry, missed,
                 join, save>>

\* purge_stale of an encounter that has not ended.
Purge ==
  /\ \E e \in Email \ counted : invite[e] = "REMOVED"
  /\ invite' = [e \in Email |->
       IF invite[e] = "REMOVED" /\ e \notin counted THEN "none" ELSE invite[e]]
  /\ UNCHANGED <<up, made, limit, most, account, rsvp, counted, entry,
                 missed, join, save>>

-----------------------------------------------------------------------------
Guest(e) ==
  \/ \E w \in Web : Rsvp(w, e) \/ ReplyAccept(w, e)
  \/ Release(e) \/ Register(e) \/ Age(e)

Creator ==
  \/ \E W \in SUBSET Email :
       SaveRead(W) \/ \E l \in Limits : Create(W, l)
  \/ \E l \in Limits, changed \in BOOLEAN : SaveWrite(l, changed)
  \/ DeleteRead \/ DeleteWrite

Next ==
  \/ \E e \in Email : Guest(e)
  \/ \E w \in Web : Admit(w)
  \/ Creator \/ Purge

Spec == Init /\ [][Next]_vars

-----------------------------------------------------------------------------
\* Signups and accepted invitations together pass the limit only by those
\* admitted at the same time as the last one: one request after another
\* never does, whichever way people come in.
LimitKept ==
  up => Cardinality(Taken) <= most + Cardinality(Web) - 1

\* Somebody who was removed comes back by a new invitation only: an answer
\* in flight, late or sent again does not put them back on the list.
RemovedStaysOut ==
  [][\A e \in Email :
       invite[e] = "REMOVED" => invite'[e] \in {"REMOVED", "INVITED", "none"}]_vars

\* "Each change mails the guests it touches", so that "their calendar entry
\* follows the encounter": the entry of somebody who is no guest any more is
\* gone.  It escapes those who changed while a save or a deletion which had
\* read them was under way.
NoStaleEntry ==
  \A e \in entry \ missed : e \in Guests(invite, rsvp)
=============================================================================

---------------------------- MODULE Facilitators ----------------------------
(***************************************************************************)
(* The facilitators of an event and the sessions that name them: put on a  *)
(* session and taken off, deleted and restored, merged, edited, and        *)
(* claimed by an organizer as a contact person.                            *)
(*                                                                         *)
(* Whatever names, deletes or merges facilitators locks their rows first,  *)
(* and has a step under the locks before the one that commits.  An edit    *)
(* locks nothing: it reads the row, and saves the whole of it.             *)
(***************************************************************************)
EXTENDS Naturals, FiniteSets

CONSTANTS Facilitator, Session, Organizer, Web, None,
          Profile    \* the account behind each facilitator, or None

FacilitatorsAssumption == None \notin Organizer /\ IsFiniteSet(Organizer)

VARIABLES
  alive,     \* the facilitators there are
  dead,      \* those soft-deleted; one merged away is in neither
  row,       \* what each holds: its organizer and its account
  names,     \* the facilitators of each session
  off,       \* the sessions soft-deleted
  req        \* each request: what it has read, and the rows it locks

vars == <<alive, dead, row, names, off, req>>

Idle == [op |-> "idle", rows |-> {}]
Nothing == [organizer |-> None, user |-> None]

Init ==
  /\ alive = Facilitator /\ dead = {}
  /\ row = [f \in Facilitator |-> [organizer |-> None, user |-> Profile[f]]]
  /\ names = [s \in Session |-> {}] /\ off = {}
  /\ req = [w \in Web |-> Idle]

-----------------------------------------------------------------------------
Free(fs) == \A w \in Web : req[w].rows \cap fs = {}

\* FacilitatorRepository.lock: it waits for whoever holds the rows, and then
\* finds those alive; NotFound when one is missing.
Lockable(fs) == Free(fs) /\ fs \subseteq alive

Done(w) == req' = [req EXCEPT ![w] = Idle]

\* set_facilitators, and create with the facilitators of a new session.
AssignRead(w, s, fs) ==
  /\ req[w] = Idle /\ s \notin off /\ Lockable(fs)
  /\ req' = [req EXCEPT ![w] =
       [op |-> "assign", s |-> s, fs |-> fs, old |-> names[s], rows |-> fs]]
  /\ UNCHANGED <<alive, dead, row, names, off>>

AssignWrite(w) ==
  /\ req[w].op = "assign"
  /\ names' = [names EXCEPT ![req[w].s] = (@ \ req[w].old) \cup req[w].fs]
  /\ Done(w)
  /\ UNCHANGED <<alive, dead, row, off>>

\* Mutant: only the sessions in the programme count.
LiveNamed(f) == {s \in Session \ off : f \in names[s]}

\* count_sessions: deleted sessions count, as they may be restored.
Named(f) == {s \in Session : f \in names[s]}

\* FacilitatorPanelService.delete
DeleteRead(w, f) ==
  /\ req[w] = Idle /\ Lockable({f}) /\ Named(f) = {}
  /\ req' = [req EXCEPT ![w] = [op |-> "delete", f |-> f, rows |-> {f}]]
  /\ UNCHANGED <<alive, dead, row, names, off>>

DeleteWrite(w) ==
  /\ req[w].op = "delete"
  /\ alive' = alive \ {req[w].f} /\ dead' = dead \cup {req[w].f}
  /\ Done(w)
  /\ UNCHANGED <<row, names, off>>

\* From the panel, or by an import that still names them.
Restore(f) ==
  /\ f \in dead /\ Free({f})
  /\ alive' = alive \cup {f} /\ dead' = dead \ {f}
  /\ UNCHANGED <<row, names, off, req>>

-----------------------------------------------------------------------------
\* assign_organizer: one conditional UPDATE.
Claim(f, o) ==
  /\ Lockable({f}) /\ row[f].organizer = None
  /\ row' = [row EXCEPT ![f].organizer = o]
  /\ UNCHANGED <<alive, dead, names, off, req>>

\* unassign_organizer, by its holder or a superuser.
Release(f) ==
  /\ Lockable({f}) /\ row[f].organizer # None
  /\ row' = [row EXCEPT ![f].organizer = None]
  /\ UNCHANGED <<alive, dead, names, off, req>>

\* FacilitatorRepository.update: the row is read, ...
EditRead(w, f) ==
  /\ req[w] = Idle /\ f \in alive
  /\ req' = [req EXCEPT ![w] =
       [op |-> "edit", f |-> f, row |-> row[f], rows |-> {}]]
  /\ UNCHANGED <<alive, dead, row, names, off>>

\* ... and saved with every column as it was read: deleted_at among them, and
\* anew when it is gone.
EditWrite(w) ==
  LET f == req[w].f IN
  /\ req[w].op = "edit" /\ Free({f})
  /\ alive' = alive \cup {f} /\ dead' = dead \ {f}
  /\ row' = [row EXCEPT ![f] = req[w].row]
  /\ Done(w)
  /\ UNCHANGED <<names, off>>

-----------------------------------------------------------------------------
\* Mutant: what the sources hold goes to the target, which may hold its own.
InheritedAlways(held, candidates) ==
  IF Cardinality(candidates \ {None}) = 1
    THEN CHOOSE x \in candidates : x # None ELSE held

\* _inherited: whoever holds the target keeps it, and sources that disagree
\* cancel out.
Inherited(held, candidates) ==
  IF held = None /\ Cardinality(candidates \ {None}) = 1
    THEN CHOOSE x \in candidates : x # None ELSE held

\* FacilitatorPanelService.merge, of several of whom one may have an account.
MergeRead(w, t, sources) ==
  /\ req[w] = Idle /\ t \notin sources /\ sources # {}
  /\ Lockable(sources \cup {t})
  /\ Cardinality({f \in sources \cup {t} : row[f].user # None}) <= 1
  /\ req' = [req EXCEPT ![w] =
       [op |-> "merge", t |-> t, sources |-> sources, rows |-> sources \cup {t}]]
  /\ UNCHANGED <<alive, dead, row, names, off>>

\* replace_facilitators_in_sessions goes through the sessions that are not
\* deleted ...
MergeReplace(w) ==
  /\ req[w].op = "merge"
  /\ req' = [req EXCEPT ![w] =
       [op |-> "merged", t |-> req[w].t, sources |-> req[w].sources,
        rows |-> req[w].rows,
        moved |-> {s \in Session \ off : names[s] \cap req[w].sources # {}}]]
  /\ UNCHANGED <<alive, dead, row, names, off>>

\* ... and the sources are destroyed, with every row that names them.
MergeWrite(w) ==
  LET t == req[w].t
      sources == req[w].sources
  IN
  /\ req[w].op = "merged"
  /\ alive' = alive \ sources
  /\ names' = [s \in Session |->
       (names[s] \ sources) \cup (IF s \in req[w].moved THEN {t} ELSE {})]
  /\ row' = [f \in Facilitator |->
       IF f \in sources THEN Nothing
       ELSE IF f # t THEN row[f]
       ELSE [organizer |-> Inherited(row[t].organizer,
                                     {row[g].organizer : g \in sources}),
             user |-> Inherited(row[t].user, {row[g].user : g \in sources})]]
  /\ Done(w)
  /\ UNCHANGED <<dead, off>>

\* A session is deleted and restored with its row locked, not theirs.
DeleteSession(s) ==
  /\ s \notin off /\ off' = off \cup {s}
  /\ UNCHANGED <<alive, dead, row, names, req>>

RestoreSession(s) ==
  /\ s \in off /\ off' = off \ {s}
  /\ UNCHANGED <<alive, dead, row, names, req>>

-----------------------------------------------------------------------------
Assign(w) ==
  \/ \E s \in Session, fs \in SUBSET Facilitator : AssignRead(w, s, fs)
  \/ AssignWrite(w)

Remove(w) == (\E f \in Facilitator : DeleteRead(w, f)) \/ DeleteWrite(w)

Edit(w) == (\E f \in Facilitator : EditRead(w, f)) \/ EditWrite(w)

Merge(w) ==
  \/ \E t \in Facilitator, sources \in SUBSET Facilitator :
       MergeRead(w, t, sources)
  \/ MergeReplace(w) \/ MergeWrite(w)

Next ==
  \/ \E w \in Web : Assign(w) \/ Remove(w) \/ Edit(w) \/ Merge(w)
  \/ \E f \in Facilitator :
       Restore(f) \/ Release(f) \/ \E o \in Organizer : Claim(f, o)
  \/ \E s \in Session : DeleteSession(s) \/ RestoreSession(s)

Spec == Init /\ [][Next]_vars

-----------------------------------------------------------------------------
\* No session, not even a deleted one, names a facilitator who was deleted or
\* merged away: "either the check sees the assignment, or the assignment
\* waits and then finds the row gone".
NamesTheLiving == \A s \in Session : names[s] \subseteq alive

StaleEdit(f) ==
  \E w \in Web : req[w].op = "edit" /\ req[w].f = f /\ req'[w] = Idle

MergedAway(f) ==
  \E w \in Web :
    /\ req[w].op = "merged" /\ f \in req[w].sources /\ req'[w] = Idle
    /\ LET held == {row[g].organizer : g \in req[w].rows} \ {None} IN
       Cardinality(held) = 1 => held = {row'[req[w].t].organizer}

\* A claim ends when it is released, or when a merge finds another beside it
\* ("it never silently changes hands"): one that no other disputes passes to
\* the target.  Only an edit that read the row before the claim undoes it.
ClaimsStand ==
  [][\A f \in Facilitator :
       row[f].organizer \notin {None, row'[f].organizer} =>
         \/ row'[f].organizer = None /\ req' = req
         \/ StaleEdit(f)
         \/ MergedAway(f)]_vars
=============================================================================

------------------------------- MODULE Import -------------------------------
(***************************************************************************)
(* Proposals imported from the responses of a form: whole runs, samples,   *)
(* retries and reimports of single rows, beside the edits of organizers.   *)
(*                                                                         *)
(* A run is one transaction.  What it writes it sees itself at once and    *)
(* the others when it commits; the rows it wrote and the keys it claimed   *)
(* make them wait until then.  Each row is read, and then written in a     *)
(* savepoint of its own: what the constraints refuse is logged as skipped. *)
(***************************************************************************)
EXTENDS Naturals, Sequences, FiniteSets, FiniteSetsExt

CONSTANTS
  Sheets,      \* bound: the sheets an event may have
  Recipes,     \* bound: the settings an operator may save
  Web, None,
  SessionId, FacilitatorId,   \* bounds: rows ever made
  MaxHand,     \* bound: changes by hand ...
  MaxBeside    \* ... where requests overlap

\* A response is [key, title, name, person]: what its unique-key columns hold,
\* its title and address, whom it names, and what its facilitator-key columns
\* hold.  A recipe is [keyed, peopleKeyed, mapped]: which key columns are
\* named, and whether the other questions have a target.

Absent == [life |-> "none"]

NewSession(ident, slug, title, text, by) ==
  [life |-> "alive", ident |-> ident, slug |-> slug, title |-> title,
   text |-> text, by |-> by]

NewPerson(ident, slug, answer, of) ==
  [life |-> "alive", ident |-> ident, slug |-> slug, answer |-> answer,
   of |-> of, contested |-> FALSE]

VARIABLES
  sheet,     \* the responses
  recipe,    \* the settings of the integration
  session,   \* the proposals
  person,    \* the facilitators; "of" is whom runs by key took each to be
  entry,     \* the import log: by the index of a row, its last attempt
  run,       \* each request: what it has to do, has read, and has written
  hands,     \* changes by hand so far
  imported   \* all rows were, with nothing changed beside or since

vars == <<sheet, recipe, session, person, entry, run, hands, imported>>

Indices == 1 .. Max({Len(s) : s \in Sheets})

ImportAssumption ==
  /\ IsFiniteSet(SessionId) /\ IsFiniteSet(FacilitatorId)
  /\ SessionId \cup FacilitatorId \subseteq Nat \ {0}
  /\ None \notin Web /\ None # "hand"
  /\ \A s \in Sheets : Len(s) \in Nat /\ 1 .. Len(s) \subseteq Indices

Idle ==
  [op |-> "idle", recipe |-> None, rows |-> <<>>, todo |-> <<>>, target |-> 0,
   alone |-> TRUE, seen |-> None,
   session |-> [s \in SessionId |-> Absent],
   person |-> [f \in FacilitatorId |-> Absent],
   entry |-> [i \in Indices |-> None]]

Init ==
  /\ sheet \in Sheets /\ recipe \in Recipes
  /\ session = [s \in SessionId |-> Absent]
  /\ person = [f \in FacilitatorId |-> Absent]
  /\ entry = [i \in Indices |-> None]
  /\ run = [w \in Web |-> Idle]
  /\ hands = 0 /\ imported = FALSE

-----------------------------------------------------------------------------
\* A table as a request sees it: its own writes over what is committed.
Over(written, table) ==
  [x \in DOMAIN table |-> IF written[x].life = "none" THEN table[x] ELSE written[x]]

Sessions(w) == Over(run[w].session, session)
People(w) == Over(run[w].person, person)

In(table) == {x \in DOMAIN table : table[x].life # "none"}
Live(table) == {x \in DOMAIN table : table[x].life = "alive"}

\* Another request has written the row, or a row with the same key or slug.
SessionFree(w, s) == \A v \in Web \ {w} : run[v].session[s].life = "none"
PersonFree(w, f) == \A v \in Web \ {w} : run[v].person[f].life = "none"
EntryFree(w, i) == \A v \in Web \ {w} : run[v].entry[i] = None

Claims(written, column, value) ==
  value # None /\ \E x \in In(written) : written[x][column] = value

SessionKeyFree(w, column, value) ==
  \A v \in Web \ {w} : ~Claims(run[v].session, column, value)
PersonKeyFree(w, column, value) ==
  \A v \in Web \ {w} : ~Claims(run[v].person, column, value)

\* A unique constraint, which a deleted row holds too, refuses the value.
Taken(table, column, value, self) ==
  value # None /\ \E x \in In(table) \ {self} : table[x][column] = value

\* The ids no request has used, of which the next one is taken.
NewSessions ==
  {s \in SessionId : session[s].life = "none" /\ \A w \in Web : run[w].session[s].life = "none"}
NewPeople ==
  {f \in FacilitatorId : person[f].life = "none" /\ \A w \in Web : run[w].person[f].life = "none"}

-----------------------------------------------------------------------------
Index(w) == Head(run[w].todo)
Row(w) == run[w].rows[Index(w)]
Rules(w) == run[w].recipe
Busy(w, op) == run[w].op = op /\ run[w].todo # <<>> /\ run[w].seen = None

Alone(w) == \A v \in Web \ {w} : run[v].op = "idle"

\* ProposalImportService.run, run_sample and retry_entry: the recipe and the
\* sheet are read, and a transaction begins.
Begin(w, todo, target) ==
  /\ run[w].op = "idle" /\ (Alone(w) \/ hands <= MaxBeside)
  /\ run' = [run EXCEPT ![w] =
       [Idle EXCEPT !.op = IF target = 0 THEN "import" ELSE "fill",
                    !.recipe = recipe, !.rows = sheet,
                    !.todo = todo, !.target = target]]
  /\ UNCHANGED <<sheet, recipe, session, person, entry, hands, imported>>

RunAll(w) == Begin(w, [i \in 1 .. Len(sheet) |-> i], 0)

RunSample(w) == \E i \in 1 .. Len(sheet) : Begin(w, <<i>>, 0)

\* locate_row: by the unique key, or else by the index of the attempt.
Located(i) ==
  IF recipe.keyed THEN
    LET same == {j \in 1 .. Len(sheet) : sheet[j].key = entry[i].row.key}
    IN IF same = {} THEN 0 ELSE Min(same)
  ELSE IF i <= Len(sheet) THEN i ELSE 0

\* retry_entry, and reimport_entry of one that has no session.
Retry(w, i) ==
  /\ entry[i] # None /\ Located(i) # 0
  /\ Begin(w, <<Located(i)>>, 0)

\* reimport_entry
Reimport(w, i) ==
  /\ entry[i] # None /\ entry[i].session # 0 /\ Located(i) # 0
  /\ Begin(w, <<Located(i)>>, entry[i].session)

\* Something has changed beside the requests in flight.
Beside(r) ==
  [w \in Web |-> [r[w] EXCEPT !.alone = @ /\ r[w].op = "idle"]]

\* Either of them finds its row no longer in the sheet.
RowGone(i, keep) ==
  /\ entry[i] # None /\ Located(i) = 0 /\ EntryFree(None, i)
  /\ entry' = [entry EXCEPT ![i].status = "skipped",
                            ![i].session = IF keep THEN @ ELSE 0]
  /\ imported' = FALSE /\ run' = Beside(run)
  /\ UNCHANGED <<sheet, recipe, session, person, hands>>

\* A row is done with: its log entry is upserted, and the next one begins.
Log(w, status, s, written) ==
  /\ EntryFree(w, Index(w))
  /\ run' = [run EXCEPT ![w] =
       [written EXCEPT
          !.entry[Index(w)] = [status |-> status, session |-> s, row |-> Row(w)],
          !.todo = Tail(@), !.seen = None]]
  /\ UNCHANGED <<sheet, recipe, session, person, entry, hands, imported>>

See(w, seen) ==
  /\ run' = [run EXCEPT ![w].seen = seen]
  /\ UNCHANGED <<sheet, recipe, session, person, entry, hands, imported>>

-----------------------------------------------------------------------------
\* _resolve_ident: the proposal with the row's ident, ...
Known(w) ==
  {s \in Live(Sessions(w)) :
     Rules(w).keyed /\ Sessions(w)[s].ident = Row(w).key}

\* ... or else the only one without any of the same title and address.
Legacy(w) ==
  {s \in Live(Sessions(w)) : Rules(w).keyed /\ Sessions(w)[s].ident = None
                             /\ Sessions(w)[s].title = Row(w).title}

Keyless(w) == Rules(w).keyed /\ Row(w).key = None
Nameless(w) == Row(w).name # None /\ Rules(w).peopleKeyed /\ Row(w).person = None

\* A row whose key columns are all blank has no identity.
RowBlank(w) ==
  /\ Busy(w, "import")
  /\ \/ Keyless(w)
     \/ Known(w) = {} /\ Cardinality(Legacy(w)) # 1 /\ Nameless(w)
  /\ Log(w, "skipped", 0, run[w])

\* Mutant: a row that is there already is logged as skipped.
RowKnownSkipped(w) ==
  /\ Busy(w, "import") /\ ~Keyless(w) /\ Known(w) # {}
  /\ Log(w, "skipped", 0, run[w])

RowKnown(w) ==
  /\ Busy(w, "import") /\ ~Keyless(w)
  /\ \E s \in Known(w) : Log(w, "success", s, run[w])

\* DuplicateRowError with adopt_ident: the ident is written after the
\* savepoint of the row, unless another proposal has it by then.
AdoptRead(w) ==
  /\ Busy(w, "import") /\ ~Keyless(w)
  /\ Known(w) = {} /\ Cardinality(Legacy(w)) = 1
  /\ \E s \in Legacy(w) : See(w, [op |-> "adopt", s |-> s])

AdoptWrite(w) ==
  LET s == run[w].seen.s
      key == Row(w).key
  IN
  /\ run[w].seen # None /\ run[w].seen.op = "adopt"
  /\ SessionFree(w, s) /\ SessionKeyFree(w, "ident", key)
  /\ Log(w, "success", s,
         IF Taken(Sessions(w), "ident", key, s) \/ s \notin Live(Sessions(w))
           THEN run[w]
           ELSE [run[w] EXCEPT
                   !.session[s] = [Sessions(w)[s] EXCEPT !.ident = key]])

-----------------------------------------------------------------------------
\* The person key a row is matched by.
PersonKey(w) == IF Rules(w).peopleKeyed THEN Row(w).person ELSE None

\* Mutant: whoever has the name is the same person.
MatchedByName(w) ==
  {f \in In(People(w)) : People(w)[f].slug = Row(w).name}

\* _match_facilitator, deleted ones included: by the key, or else by the name
\* when either side has no key.
Matched(w) ==
  LET all == People(w)
      same == {f \in In(all) : PersonKey(w) # None /\ all[f].ident = PersonKey(w)}
  IN IF same # {} THEN same
     ELSE {f \in In(all) : all[f].slug = Row(w).name
                           /\ (all[f].ident = None \/ PersonKey(w) = None)}

\* What is read about the facilitator of a row, when it names one.
NoOne == [f |-> 0, was |-> Absent]
Who(w) ==
  IF Row(w).name = None \/ Matched(w) = {} THEN NoOne
  ELSE LET f == CHOOSE g \in Matched(w) : TRUE
       IN [f |-> f, was |-> People(w)[f]]

\* Mutant: the row's answer is saved whatever is there.
FilledAlways(w, was, now) == IF Rules(w).mapped THEN "row" ELSE now

\* Only what was empty is filled.
Filled(w, was, now) == IF Rules(w).mapped /\ was = None THEN "row" ELSE now

\* The facilitator a row is linked to, after set_ident, restore, or create,
\* and _save_personal_data.
Linked(w, f, was, plain) ==
  LET key == PersonKey(w)
      now == People(w)[f]
      of == {key} \ {None}
  IN IF was.life = "none"
       THEN NewPerson(key, IF plain THEN Row(w).name ELSE None,
                      Filled(w, None, None), of)
       ELSE [now EXCEPT
               !.life = "alive",
               !.ident = IF was.ident = None /\ key # None THEN key ELSE @,
               !.contested = @ \/ (was.ident = None /\ key # None
                                   /\ now.ident \notin {None, key}),
               !.answer = Filled(w, was.answer, @),
               !.of = @ \cup of]

\* A slug is free of its suffix; for a proposal's, the deleted ones are not
\* looked at.
PlainTitle(w) ==
  \A s \in Live(Sessions(w)) : Sessions(w)[s].slug # Row(w).title
PlainName(w) == \A f \in In(People(w)) : People(w)[f].slug # Row(w).name

\* Whoever the row matched is as it was read: else restoring or locking the
\* row raises NotFound, which ends the request.
Stands(w, who) == who.f # 0 => People(w)[who.f].life = who.was.life

\* The facilitator's keys are not those of a row another request has written.
PersonReady(w, f, linked) ==
  /\ PersonFree(w, f)
  /\ PersonKeyFree(w, "ident", linked.ident)
  /\ PersonKeyFree(w, "slug", linked.slug)

PersonRefused(w, f, linked) ==
  \/ Taken(People(w), "ident", linked.ident, f)
  \/ Taken(People(w), "slug", linked.slug, f)

CreateRead(w) ==
  /\ Busy(w, "import") /\ ~Keyless(w) /\ ~Nameless(w)
  /\ Known(w) = {} /\ Cardinality(Legacy(w)) # 1
  /\ See(w, [op |-> "create", who |-> Who(w), title |-> PlainTitle(w),
             name |-> PlainName(w)])

\* _create_proposal
CreateWrite(w) ==
  LET seen == run[w].seen
      who == seen.who
      named == Row(w).name # None
      f == IF who.f # 0 THEN who.f ELSE Min(NewPeople)
      linked == Linked(w, f, who.was, seen.name)
      s == Min(NewSessions)
      new == NewSession(IF Rules(w).keyed THEN Row(w).key ELSE None,
                        IF seen.title THEN Row(w).title ELSE None,
                        Row(w).title, Filled(w, None, None),
                        IF named THEN {f} ELSE {})
      refused == \/ named /\ PersonRefused(w, f, linked)
                 \/ Taken(Sessions(w), "ident", new.ident, s)
                 \/ Taken(Sessions(w), "slug", new.slug, s)
  IN
  /\ run[w].seen # None /\ seen.op = "create"
  /\ NewSessions # {}
  /\ named => /\ (who.f = 0 => NewPeople # {})
              /\ Stands(w, who) /\ PersonReady(w, f, linked)
  /\ SessionKeyFree(w, "ident", new.ident)
  /\ SessionKeyFree(w, "slug", new.slug)
  /\ IF refused THEN Log(w, "skipped", 0, run[w])
     ELSE Log(w, "success", s,
              [run[w] EXCEPT
                 !.session[s] = new,
                 !.person = IF named THEN [@ EXCEPT ![f] = linked] ELSE @])

-----------------------------------------------------------------------------
\* update_proposal: one facilitator is kept, several are left alone, and none
\* is resolved from the row.
FillRead(w) ==
  LET s == run[w].target
      by == Sessions(w)[s].by
  IN
  /\ Busy(w, "fill") /\ s \in Live(Sessions(w))
  /\ ~(by = {} /\ Nameless(w))
  /\ See(w, [op |-> "fill", was |-> Sessions(w)[s], name |-> PlainName(w),
             who |-> IF by = {} THEN Who(w)
                     ELSE IF Cardinality(by) > 1 THEN NoOne
                     ELSE LET f == CHOOSE g \in by : TRUE
                          IN [f |-> f, was |-> People(w)[f]]])

FillBlank(w) ==
  LET s == run[w].target IN
  /\ Busy(w, "fill") /\ s \in Live(Sessions(w))
  /\ Sessions(w)[s].by = {} /\ Nameless(w)
  /\ Log(w, "skipped", s, run[w])

FillWrite(w) ==
  LET s == run[w].target
      seen == run[w].seen
      who == seen.who
      now == Sessions(w)[s]
      attach == seen.was.by = {} /\ Row(w).name # None
      touched == attach \/ Cardinality(seen.was.by) = 1
      f == IF who.f # 0 THEN who.f ELSE Min(NewPeople)
      linked == IF attach THEN Linked(w, f, who.was, seen.name)
                ELSE [People(w)[f] EXCEPT !.answer = Filled(w, who.was.answer, @)]
      filled == [now EXCEPT
                   !.text = IF now.life = "alive" THEN Filled(w, seen.was.text, @)
                            ELSE @,
                   !.by = IF attach THEN {f} ELSE @]
  IN
  /\ run[w].seen # None /\ seen.op = "fill"
  /\ SessionFree(w, s) /\ (attach => now.life = "alive")
  /\ touched => (who.f = 0 => NewPeople # {})
  /\ touched => PersonReady(w, f, linked) /\ (attach => Stands(w, who))
  /\ IF touched /\ PersonRefused(w, f, linked)
     THEN Log(w, "skipped", s, run[w])
     ELSE Log(w, "success", s,
              [run[w] EXCEPT
                 !.session[s] = filled,
                 !.person = IF touched THEN [@ EXCEPT ![f] = linked] ELSE @])

-----------------------------------------------------------------------------
Deleted(key) ==
  \E s \in In(session) : session[s].life = "dead" /\ session[s].ident = key

\* No two rows have the same key, nor the same title and address when the
\* proposal of one is deleted: its row adopts a namesake's, and keeps no key.
RowsApart ==
  \A i, j \in 1 .. Len(sheet) : i # j =>
    /\ sheet[i].key = sheet[j].key => sheet[i].key = None
    /\ sheet[i].title = sheet[j].title => ~Deleted(sheet[i].key)

Complete(w) ==
  run[w].op = "import" /\ run[w].recipe = recipe /\ run[w].rows = sheet
  /\ recipe.keyed /\ \A i \in 1 .. Len(sheet) : run[w].entry[i] # None

Commit(w) ==
  /\ run[w].op # "idle" /\ run[w].todo = <<>>
  /\ session' = Sessions(w) /\ person' = People(w)
  /\ entry' = [i \in Indices |-> IF run[w].entry[i] = None THEN entry[i]
                                 ELSE run[w].entry[i]]
  /\ imported' = (Complete(w) /\ run[w].alone)
  /\ run' = [Beside(run) EXCEPT ![w] = Idle]
  /\ UNCHANGED <<sheet, recipe, hands>>

\* A request that is cut off, deadlocks, or raises, NotFound among others.
Abort(w) ==
  /\ run[w].op # "idle"
  /\ run' = [run EXCEPT ![w] = Idle]
  /\ UNCHANGED <<sheet, recipe, session, person, entry, hands, imported>>

-----------------------------------------------------------------------------
\* What organizers change by hand waits for whoever has written the row.
ByHand == imported' = FALSE /\ run' = Beside(run) /\ UNCHANGED entry

\* Bound: all of them count but restoring what was deleted.
Counted ==
  /\ hands < MaxHand /\ hands' = hands + 1
  /\ (\E w \in Web : Alone(w)) \/ hands < MaxBeside

EditSession(s, row) ==
  /\ SessionFree(None, s) /\ row # session[s]
  /\ session' = [session EXCEPT ![s] = row]
  /\ ByHand /\ UNCHANGED <<sheet, recipe, person>>

\* Its text, its title, its facilitators, and whether it is deleted.
EditText(s) == EditSession(s, [session[s] EXCEPT !.text = "hand"])
Retitle(s) == EditSession(s, [session[s] EXCEPT !.title = None])
SetPeople(s, fs) ==
  /\ \A f \in fs : PersonFree(None, f)
  /\ EditSession(s, [session[s] EXCEPT !.by = fs])
DeleteSession(s) == EditSession(s, [session[s] EXCEPT !.life = "dead"])
RestoreSession(s) == EditSession(s, [session[s] EXCEPT !.life = "alive"])

EditPerson(f, row) ==
  /\ PersonFree(None, f) /\ row # person[f]
  /\ person' = [person EXCEPT ![f] = row]
  /\ ByHand /\ UNCHANGED <<sheet, recipe, session>>

EditAnswer(f) == EditPerson(f, [person[f] EXCEPT !.answer = "hand"])
DeletePerson(f) ==
  /\ \A s \in In(session) : f \notin session[s].by
  /\ EditPerson(f, [person[f] EXCEPT !.life = "dead"])
RestorePerson(f) == EditPerson(f, [person[f] EXCEPT !.life = "alive"])

\* A facilitator made in the panel has no key.
AddPerson(name) ==
  /\ name # None /\ NewPeople # {}
  /\ \A f \in In(person) : person[f].slug # name
  /\ PersonKeyFree(None, "slug", name)
  /\ person' = [person EXCEPT
       ![Min(NewPeople)] = NewPerson(None, name, None, {})]
  /\ ByHand /\ UNCHANGED <<sheet, recipe, session>>

\* The recipe is saved, and responses come and go.
Configure(r) ==
  /\ r # recipe /\ recipe' = r
  /\ ByHand /\ UNCHANGED <<sheet, session, person>>

ChangeSheet(s) ==
  /\ s # sheet /\ sheet' = s
  /\ ByHand /\ UNCHANGED <<recipe, session, person>>

-----------------------------------------------------------------------------
Request(w) ==
  \/ RunAll(w) \/ RunSample(w)
  \/ \E i \in Indices : Retry(w, i) \/ Reimport(w, i)
  \/ RowBlank(w) \/ RowKnown(w) \/ AdoptRead(w) \/ AdoptWrite(w)
  \/ CreateRead(w) \/ CreateWrite(w)
  \/ FillRead(w) \/ FillBlank(w) \/ FillWrite(w)
  \/ Commit(w) \/ Abort(w)

Edit ==
  \/ \E s \in In(session) :
       \/ EditText(s) \/ Retitle(s) \/ DeleteSession(s)
       \/ \E fs \in SUBSET Live(person) : SetPeople(s, fs)
  \/ \E f \in In(person) : EditAnswer(f) \/ DeletePerson(f)
  \/ \E i \in 1 .. Len(sheet) : AddPerson(sheet[i].name)
  \/ \E r \in Recipes : Configure(r)
  \/ \E s \in Sheets : ChangeSheet(s)

Undelete ==
  \/ \E s \in In(session) : RestoreSession(s)
  \/ \E f \in In(person) : RestorePerson(f)

Next ==
  \/ \E w \in Web : Request(w)
  \/ \E i \in Indices, keep \in BOOLEAN : RowGone(i, keep)
  \/ Counted /\ Edit
  \/ Undelete /\ UNCHANGED hands

Spec == Init /\ [][Next]_vars

-----------------------------------------------------------------------------
\* "Idempotent re-runs": where the rows can be told apart, a run of all rows by
\* key, after another and with nothing done in between, changes no proposal,
\* no facilitator, and no entry of the log, whatever was adopted, skipped or
\* ambiguous the first time.
RerunChangesNothing ==
  [][\A w \in Web :
       imported /\ RowsApart /\ Complete(w) /\ run[w].alone /\ run'[w] = Idle =>
         session' = session /\ person' = person /\ entry' = entry]_vars

\* What an organizer wrote outlives every import of a row: "a stored value
\* that differs from the row is a hand edit and re-import must leave it alone".
\* Only a request that read the value while it was still empty writes over it.
HandEditsStay ==
  [][\A w \in Web :
       LET seen == run[w].seen IN
       /\ \A s \in SessionId :
            session[s].life # "none" /\ session[s].text = "hand" =>
              \/ run'[w].session[s] \in {Absent, run[w].session[s]}
              \/ run'[w].session[s].text = "hand"
              \/ seen # None /\ seen.op = "fill" /\ seen.was.text # "hand"
       /\ \A f \in FacilitatorId :
            person[f].life # "none" /\ person[f].answer = "hand" =>
              \/ run'[w].person[f] \in {Absent, run[w].person[f]}
              \/ run'[w].person[f].answer = "hand"
              \/ seen # None /\ seen.op # "adopt" /\ seen.who.f # 0
                 /\ seen.who.was.answer # "hand"]_vars

\* Two persons whose key columns differ are never taken for one facilitator,
\* even when they share a name and one of them was imported before there were
\* keys ("someone else who happens to share a slug").  Two overlapping runs
\* that adopt the same keyless facilitator are the exception.
PeopleKeptApart ==
  \A f \in In(person) :
    Cardinality(person[f].of) > 1 => person[f].contested
=============================================================================

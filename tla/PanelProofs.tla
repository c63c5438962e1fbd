----------------------------- MODULE PanelProofs -----------------------------
(***************************************************************************)
(* The organizers' panel, for every event and any number of requests.      *)
(*                                                                         *)
(* The parts share no variable, so each has an inductive invariant of its  *)
(* own: a step of another part leaves it alone.                            *)
(***************************************************************************)
EXTENDS Panel, Sequences, TLAPS, FiniteSetTheorems, SequenceTheorems,
        WellFoundedInduction

-----------------------------------------------------------------------------
\* Facilitators: what a request holds, has read, and is about to write.

Reads ==
  {F!Idle}
  \cup [op : {"assign"}, s : Proposal, fs : SUBSET Facilitator,
        old : SUBSET Facilitator, rows : SUBSET Facilitator]
  \cup [op : {"delete"}, f : Facilitator, rows : SUBSET Facilitator]
  \cup [op : {"edit"}, f : Facilitator,
        row : [organizer : Organizer \cup {None},
               user : {Profile[g] : g \in Facilitator} \cup {None}],
        rows : {{}}]
  \cup [op : {"merge"}, t : Facilitator, sources : SUBSET Facilitator,
        rows : SUBSET Facilitator]
  \cup [op : {"merged"}, t : Facilitator, sources : SUBSET Facilitator,
        rows : SUBSET Facilitator, moved : SUBSET Proposal]

Rows(w) == panelReq[w].rows

FTypeOK ==
  /\ alive \subseteq Facilitator /\ off \subseteq Proposal
  /\ row \in [Facilitator -> [organizer : Organizer \cup {None},
                user : {Profile[g] : g \in Facilitator} \cup {None}]]
  /\ names \in [Proposal -> SUBSET Facilitator]
  /\ panelReq \in [Web -> Reads]

\* No row has two holders, and whoever is locked stays alive.
FLocks ==
  /\ \A w \in Web : Rows(w) \subseteq alive
  /\ \A v, w \in Web : v # w => Rows(v) \cap Rows(w) = {}

\* What a request is about to do, its locks cover; whom it is about to delete,
\* nobody names, for naming them takes their lock.
FCovered ==
  \A w \in Web :
    /\ panelReq[w].op = "assign" => Rows(w) = panelReq[w].fs
    /\ panelReq[w].op = "delete" =>
         /\ Rows(w) = {panelReq[w].f}
         /\ \A s \in Proposal : panelReq[w].f \notin names[s]
    /\ panelReq[w].op \in {"merge", "merged"} =>
         /\ Rows(w) = panelReq[w].sources \cup {panelReq[w].t}
         /\ panelReq[w].t \notin panelReq[w].sources

FInv == FTypeOK /\ FLocks /\ FCovered /\ NamesTheLiving


\* The panel opens with nobody named and nobody locked.
LEMMA FInit == Init => FInv
BY DEF Init, F!Init, FInv, FTypeOK, FLocks, FCovered, NamesTheLiving,
   F!NamesTheLiving, Reads, Rows, F!Idle

\* What a request has read, by what it is doing.
LEMMA FRead ==
  ASSUME FTypeOK, NEW w \in Web
  PROVE  LET q == panelReq[w] IN
         /\ q = F!Idle \/ q.op \in {"assign", "delete", "edit", "merge", "merged"}
         /\ Rows(w) \subseteq Facilitator
         /\ q.op = "assign" => /\ q.s \in Proposal /\ q.fs \subseteq Facilitator
                               /\ q.old \subseteq Facilitator
         /\ q.op = "delete" => q.f \in Facilitator
         /\ q.op = "edit" =>
              /\ q.f \in Facilitator /\ Rows(w) = {}
              /\ q.row \in [organizer : Organizer \cup {None},
                            user : {Profile[g] : g \in Facilitator} \cup {None}]
         /\ q.op \in {"merge", "merged"} =>
              q.t \in Facilitator /\ q.sources \subseteq Facilitator
         /\ q.op = "merged" => q.moved \subseteq Proposal
<1>1. panelReq[w] \in Reads
  BY DEF FTypeOK
<1> QED
  BY <1>1 DEF Reads, Rows, F!Idle

\* A request that lets its locks go leaves the others as they were.
LEMMA FDone ==
  ASSUME FInv, NEW w \in Web, F!Done(w)
  PROVE  /\ panelReq' \in [Web -> Reads]
         /\ \A v \in Web \ {w} : panelReq'[v] = panelReq[v]
         /\ Rows(w)' = {} /\ panelReq'[w].op = "idle"
BY DEF F!Done, FInv, FTypeOK, Reads, F!Idle, Rows

\* An assignment locks the session and the facilitators it names ...
LEMMA FAssignRead ==
  ASSUME FInv, NEW w \in Web, NEW s \in Proposal, NEW fs \in SUBSET Facilitator,
         F!AssignRead(w, s, fs)
  PROVE  FInv'
<1>1. FTypeOK'
  BY DEF FInv, FTypeOK, F!AssignRead, Reads
<1>2. FLocks'
  BY DEF FInv, FTypeOK, FLocks, F!AssignRead, F!Lockable, F!Free, Rows
<1>3. FCovered'
  BY DEF FInv, FTypeOK, FCovered, F!AssignRead, Rows
<1> QED
  BY <1>1, <1>2, <1>3 DEF FInv, F!AssignRead, NamesTheLiving, F!NamesTheLiving

\* ... which are therefore alive when it writes.
LEMMA FAssignWrite ==
  ASSUME FInv, NEW w \in Web, F!AssignWrite(w)
  PROVE  FInv'
<1> USE DEF F!AssignWrite
<1>1. FTypeOK'
  BY FDone, FRead DEF FInv, FTypeOK
<1>2. FLocks'
  BY FDone DEF FInv, FLocks, Rows
<1>3. FCovered'
  BY FDone, FRead DEF FInv, FTypeOK, FLocks, FCovered, Rows
<1>4. NamesTheLiving'
  BY FRead DEF FInv, FTypeOK, FLocks, FCovered, Rows, NamesTheLiving, F!NamesTheLiving
<1> QED
  BY <1>1, <1>2, <1>3, <1>4 DEF FInv

\* A deletion locks the facilitator, who runs nothing then ...
LEMMA FDeleteRead ==
  ASSUME FInv, NEW w \in Web, NEW f \in Facilitator, F!DeleteRead(w, f)
  PROVE  FInv'
<1>1. FTypeOK'
  BY DEF FInv, FTypeOK, F!DeleteRead, Reads
<1>2. FLocks'
  BY DEF FInv, FTypeOK, FLocks, F!DeleteRead, F!Lockable, F!Free, Rows
<1>3. FCovered'
  BY DEF FInv, FTypeOK, FCovered, F!DeleteRead, F!Named, Rows
<1> QED
  BY <1>1, <1>2, <1>3 DEF FInv, F!DeleteRead, NamesTheLiving, F!NamesTheLiving

\* ... and none names it when it is written.
LEMMA FDeleteWrite ==
  ASSUME FInv, NEW w \in Web, F!DeleteWrite(w)
  PROVE  FInv'
<1> USE DEF F!DeleteWrite
<1>1. FTypeOK'
  BY FDone DEF FInv, FTypeOK
<1>2. FLocks'
  BY FDone DEF FInv, FLocks, FCovered, Rows
<1>3. FCovered'
  BY FDone DEF FInv, FCovered, Rows
<1>4. NamesTheLiving'
  BY DEF FInv, FCovered, NamesTheLiving, F!NamesTheLiving
<1> QED
  BY <1>1, <1>2, <1>3, <1>4 DEF FInv

\* An edit holds the row as it read it and locks nothing ...
LEMMA FEditRead ==
  ASSUME FInv, NEW w \in Web, NEW f \in Facilitator, F!EditRead(w, f)
  PROVE  FInv'
<1>1. FTypeOK'
  BY DEF FInv, FTypeOK, F!EditRead, Reads
<1>2. FLocks'
  BY DEF FInv, FTypeOK, FLocks, F!EditRead, Rows
<1>3. FCovered'
  BY DEF FInv, FTypeOK, FCovered, F!EditRead, Rows
<1> QED
  BY <1>1, <1>2, <1>3 DEF FInv, F!EditRead, NamesTheLiving, F!NamesTheLiving

\* ... and brings the row back, which no session minds.
LEMMA FEditWrite ==
  ASSUME FInv, NEW w \in Web, F!EditWrite(w)
  PROVE  FInv'
<1> USE DEF F!EditWrite
<1>1. FTypeOK'
  BY FDone, FRead DEF FInv, FTypeOK
<1>2. FLocks'
  BY FDone DEF FInv, FLocks, Rows
<1>3. FCovered'
  BY FDone DEF FInv, FCovered, Rows
<1> QED
  BY <1>1, <1>2, <1>3 DEF FInv, NamesTheLiving, F!NamesTheLiving

\* A merge locks its target and its sources ...
LEMMA FMergeRead ==
  ASSUME FInv, NEW w \in Web, NEW t \in Facilitator,
         NEW sources \in SUBSET Facilitator, F!MergeRead(w, t, sources)
  PROVE  FInv'
<1>1. FTypeOK'
  BY DEF FInv, FTypeOK, F!MergeRead, Reads
<1>2. FLocks'
  BY DEF FInv, FTypeOK, FLocks, F!MergeRead, F!Lockable, F!Free, Rows
<1>3. FCovered'
  BY DEF FInv, FTypeOK, FCovered, F!MergeRead, Rows
<1> QED
  BY <1>1, <1>2, <1>3 DEF FInv, F!MergeRead, NamesTheLiving, F!NamesTheLiving

\* ... goes through the sessions that name a source ...
LEMMA FMergeReplace ==
  ASSUME FInv, NEW w \in Web, F!MergeReplace(w)
  PROVE  FInv'
<1>1. FTypeOK'
  BY FRead DEF FInv, FTypeOK, F!MergeReplace, Reads, Rows
<1>2. FLocks'
  BY DEF FInv, FTypeOK, FLocks, F!MergeReplace, Rows
<1>3. FCovered'
  BY DEF FInv, FTypeOK, FCovered, F!MergeReplace, Rows
<1> QED
  BY <1>1, <1>2, <1>3 DEF FInv, F!MergeReplace, NamesTheLiving, F!NamesTheLiving

\* The parts count as this module does.
LEMMA FSets ==
  \A S : /\ F!Cardinality(S) = Cardinality(S)
         /\ F!IsFiniteSet(S) = IsFiniteSet(S)
BY DEF F!Cardinality, Cardinality, F!IsFiniteSet, IsFiniteSet

\* What the target inherits is what somebody holds.
LEMMA FInherited ==
  ASSUME NEW held, NEW candidates
  PROVE  F!Inherited(held, candidates) \in candidates \cup {held}
<1>1. CASE Cardinality(candidates \ {None}) = 1
  <2>1. PICK x \in candidates : x # None
    BY <1>1, FS_EmptySet
  <2>2. (CHOOSE y \in candidates : y # None) \in candidates
    BY <2>1
  <2> QED
    BY <2>2 DEF F!Inherited
<1>2. CASE Cardinality(candidates \ {None}) # 1
  BY <1>2, FSets DEF F!Inherited
<1> QED
  BY <1>1, <1>2

\* ... and names the target, which is alive, in their place.
LEMMA FMergeWrite ==
  ASSUME FInv, NEW w \in Web, F!MergeWrite(w)
  PROVE  FInv'
<1> DEFINE t == panelReq[w].t
           sources == panelReq[w].sources
<1>1. /\ t \in Facilitator /\ sources \in SUBSET Facilitator
      /\ t \notin sources /\ Rows(w) = sources \cup {t}
  BY FRead DEF FInv, FCovered, F!MergeWrite
<1>2. /\ alive' = alive \ sources /\ off' = off
      /\ names' = [s \in Proposal |-> (names[s] \ sources) \cup
                     (IF s \in panelReq[w].moved THEN {t} ELSE {})]
  BY DEF F!MergeWrite
<1>3. row' \in [Facilitator -> [organizer : Organizer \cup {None},
                  user : {Profile[g] : g \in Facilitator} \cup {None}]]
  <2> DEFINE organizer == F!Inherited(row[t].organizer, {row[g].organizer : g \in sources})
             user == F!Inherited(row[t].user, {row[g].user : g \in sources})
  <2>1. organizer \in Organizer \cup {None}
    BY <1>1, FInherited DEF FInv, FTypeOK
  <2>2. user \in {Profile[g] : g \in Facilitator} \cup {None}
    <3>1. \A g \in Facilitator : row[g].user \in {Profile[h] : h \in Facilitator} \cup {None}
      BY DEF FInv, FTypeOK
    <3>2. user \in {row[g].user : g \in sources} \cup {row[t].user}
      BY FInherited
    <3> QED
      BY <1>1, <3>1, <3>2
  <2>3. row' = [f \in Facilitator |->
                  IF f \in sources THEN F!Nothing
                  ELSE IF f # t THEN row[f]
                  ELSE [organizer |-> organizer, user |-> user]]
    BY DEF F!MergeWrite
  <2> HIDE DEF organizer, user
  <2> QED
    BY <2>1, <2>2, <2>3 DEF FInv, FTypeOK, F!Nothing
<1>4. F!Done(w)
  BY DEF F!MergeWrite
<1> HIDE DEF t, sources
<1>5. FTypeOK'
  BY <1>1, <1>2, <1>3, <1>4, FDone DEF FInv, FTypeOK
<1>6. FLocks'
  BY <1>1, <1>2, <1>4, FDone DEF FInv, FLocks, Rows
<1>7. FCovered'
  <2> SUFFICES ASSUME NEW v \in Web \ {w}, panelReq[v].op = "delete"
               PROVE  \A s \in Proposal : panelReq[v].f \notin names'[s]
    BY <1>4, FDone DEF FInv, FCovered, Rows
  <2>1. panelReq[v].f # t
    BY <1>1 DEF FInv, FLocks, FCovered
  <2> QED
    BY <1>2, <2>1 DEF FInv, FCovered
<1>8. NamesTheLiving'
  BY <1>1, <1>2 DEF FInv, FLocks, NamesTheLiving, F!NamesTheLiving
<1> QED
  BY <1>5, <1>6, <1>7, <1>8 DEF FInv

\* The steps of the row and of the session beside it move no lock and no name.
LEMMA FBeside ==
  ASSUME FInv,
         \/ \E f \in Facilitator :
              \/ F!Restore(f) \/ F!Release(f)
              \/ \E o \in Organizer : F!Claim(f, o)
         \/ \E s \in Proposal : F!DeleteSession(s) \/ F!RestoreSession(s)
  PROVE  FInv'
<1>1. ASSUME NEW f \in Facilitator, F!Restore(f)
      PROVE  FInv'
  BY <1>1 DEF F!Restore, FInv, FTypeOK, FLocks, FCovered, Rows, NamesTheLiving,
     F!NamesTheLiving
<1>2. ASSUME NEW f \in Facilitator, F!Release(f)
      PROVE  FInv'
  BY <1>2 DEF F!Release, FInv, FTypeOK, FLocks, FCovered, Rows, NamesTheLiving,
     F!NamesTheLiving
<1>3. ASSUME NEW f \in Facilitator, NEW o \in Organizer, F!Claim(f, o)
      PROVE  FInv'
  BY <1>3 DEF F!Claim, FInv, FTypeOK, FLocks, FCovered, Rows, NamesTheLiving,
     F!NamesTheLiving
<1>4. ASSUME NEW s \in Proposal, F!DeleteSession(s) \/ F!RestoreSession(s)
      PROVE  FInv'
  BY <1>4 DEF F!DeleteSession, F!RestoreSession, FInv, FTypeOK, FLocks, FCovered,
     Rows, NamesTheLiving, F!NamesTheLiving
<1> QED
  BY <1>1, <1>2, <1>3, <1>4

\* Every step of the facilitators keeps the invariant.
LEMMA FNext == FInv /\ [Next]_vars => FInv'
<1> SUFFICES ASSUME FInv, [Next]_vars PROVE FInv'
  OBVIOUS
<1>1. CASE UNCHANGED facilitators
  BY <1>1 DEF facilitators, FInv, FTypeOK, FLocks, FCovered, Rows, NamesTheLiving,
     F!NamesTheLiving
<1>2. CASE F!Next
  <2>1. ASSUME NEW w \in Web, F!Assign(w) PROVE FInv'
    BY <2>1, FAssignRead, FAssignWrite DEF F!Assign
  <2>2. ASSUME NEW w \in Web, F!Remove(w) PROVE FInv'
    BY <2>2, FDeleteRead, FDeleteWrite DEF F!Remove
  <2>3. ASSUME NEW w \in Web, F!Edit(w) PROVE FInv'
    BY <2>3, FEditRead, FEditWrite DEF F!Edit
  <2>4. ASSUME NEW w \in Web, F!Merge(w) PROVE FInv'
    BY <2>4, FMergeRead, FMergeReplace, FMergeWrite DEF F!Merge
  <2> QED
    BY <1>2, <2>1, <2>2, <2>3, <2>4, FBeside DEF F!Next
<1> QED
  BY <1>1, <1>2 DEF Next, vars, InErrata, InImport, InGrid

\* No session names a facilitator who was deleted or merged away, whatever
\* crosses (NamesTheLiving): facilitators are looked for under the locks that
\* put them on a session.
THEOREM NamesTheLivingHolds == Spec => []NamesTheLiving
<1>1. FInv => NamesTheLiving
  BY DEF FInv
<1> QED
  BY <1>1, FInit, FNext, PTL DEF Spec

\* A claim that nobody disputes among those merged is the target's after it.
LEMMA FOneClaim ==
  ASSUME FInv, NEW w \in Web, F!MergeWrite(w),
         NEW f \in panelReq[w].sources, row[f].organizer # None
  PROVE  F!MergedAway(f)
<1> DEFINE t == panelReq[w].t
           sources == panelReq[w].sources
           held == {row[g].organizer : g \in Rows(w)} \ {None}
           candidates == {row[g].organizer : g \in sources}
<1>1. /\ t \in Facilitator /\ sources \in SUBSET Facilitator
      /\ t \notin sources /\ Rows(w) = sources \cup {t}
      /\ panelReq[w].op = "merged"
  BY FRead DEF FInv, FCovered, F!MergeWrite
<1>2. row'[t].organizer = F!Inherited(row[t].organizer, candidates)
  BY <1>1 DEF F!MergeWrite
<1>3. panelReq'[w] = F!Idle
  BY DEF F!MergeWrite, F!Done, FInv, FTypeOK
<1>4. row[f].organizer \in held /\ row[f].organizer \in candidates
  BY <1>1
<1>5. ASSUME Cardinality(held) = 1 PROVE held = {row'[t].organizer}
  <2>1. IsFiniteSet(held)
    <3>1. \A g \in Facilitator : row[g].organizer \in Organizer \cup {None}
      BY DEF FInv, FTypeOK
    <3>2. held \subseteq Organizer
      BY <1>1, <3>1
    <3>3. IsFiniteSet(Organizer)
      BY PanelAssumption, FSets DEF F!FacilitatorsAssumption
    <3> QED
      BY <3>2, <3>3, FS_Subset
  <2>2. held = {row[f].organizer}
    <3>1. PICK x : held = {x}
      BY <1>5, <2>1, FS_Singleton
    <3> QED
      BY <1>4, <3>1
  <2>3. CASE row[t].organizer # None
    <3>1. row[t].organizer \in held
      BY <1>1, <2>3
    <3> QED
      BY <1>2, <2>2, <2>3, <3>1 DEF F!Inherited
  <2>4. CASE row[t].organizer = None
    <3>1. candidates \ {None} = held
      BY <1>1, <2>4
    <3>2. Cardinality(candidates \ {None}) = 1
      BY <1>5, <3>1
    <3> HIDE DEF held, candidates
    <3>3. \A x \in candidates : x # None <=> x = row[f].organizer
      BY <2>2, <3>1
    <3>4. (CHOOSE x \in candidates : x # None) = row[f].organizer
      BY <1>4, <3>3
    <3>5. row'[t].organizer = row[f].organizer
      BY <1>2, <2>4, <3>2, <3>4, FSets DEF F!Inherited
    <3> QED
      BY <2>2, <3>5
  <2> QED
    BY <2>3, <2>4
<1>6. F!Cardinality({row[g].organizer : g \in panelReq[w].rows} \ {None}) = 1 =>
        {row[g].organizer : g \in panelReq[w].rows} \ {None} =
          {row'[panelReq[w].t].organizer}
  BY <1>5, FSets DEF Rows
<1> QED
  BY <1>1, <1>3, <1>6, Zenon DEF F!MergedAway

\* What one step may do to a claim.
LEMMA FClaim ==
  ASSUME FInv, F!Next, NEW f \in Facilitator,
         row[f].organizer \notin {None, row'[f].organizer}
  PROVE  \/ row'[f].organizer = None /\ panelReq' = panelReq
         \/ F!StaleEdit(f)
         \/ F!MergedAway(f)
<1>1. row # row'
  OBVIOUS
<1>2. CASE \E g \in Facilitator : F!Release(g) \/ \E o \in Organizer : F!Claim(g, o)
  BY <1>2 DEF F!Release, F!Claim, FInv, FTypeOK
<1>3. ASSUME NEW w \in Web, F!EditWrite(w) PROVE F!StaleEdit(f)
  <2>1. panelReq[w].f = f
    BY <1>3 DEF F!EditWrite, FInv, FTypeOK
  <2>2. panelReq'[w] = F!Idle
    BY <1>3 DEF F!EditWrite, F!Done, FInv, FTypeOK
  <2> QED
    BY <1>3, <2>1, <2>2 DEF F!EditWrite, F!StaleEdit
<1>4. ASSUME NEW w \in Web, F!MergeWrite(w) PROVE F!MergedAway(f)
  <2>1. f \in panelReq[w].sources
    BY <1>4 DEF F!MergeWrite, F!Inherited
  <2> QED
    BY <1>4, <2>1, FOneClaim
<1> QED
  BY <1>1, <1>2, <1>3, <1>4 DEF F!Next, F!Assign, F!Remove, F!Edit, F!Merge,
     F!AssignRead, F!AssignWrite, F!DeleteRead, F!DeleteWrite, F!EditRead,
     F!MergeRead, F!MergeReplace, F!Restore, F!DeleteSession, F!RestoreSession

\* An organizer's claim on a facilitator is never lost to a crossing but that of
\* an edit that had read the row before it (ClaimsStand); in a merge, one claim
\* that no other disputes passes to the target.
THEOREM ClaimsStandHolds == Spec => ClaimsStand
<1>1. FInv /\ [Next]_vars =>
        [\A f \in Facilitator :
           row[f].organizer \notin {None, row'[f].organizer} =>
             \/ row'[f].organizer = None /\ panelReq' = panelReq
             \/ F!StaleEdit(f)
             \/ F!MergedAway(f)]_facilitators
  <2> SUFFICES ASSUME FInv, [Next]_vars, facilitators' # facilitators
               PROVE  \A f \in Facilitator :
                        row[f].organizer \notin {None, row'[f].organizer} =>
                          \/ row'[f].organizer = None /\ panelReq' = panelReq
                          \/ F!StaleEdit(f)
                          \/ F!MergedAway(f)
    BY DEF facilitators
  <2>1. F!Next
    BY DEF Next, vars, facilitators, InErrata, InImport, InGrid
  <2> QED
    BY <2>1, FClaim
<1> QED
  BY <1>1, FInit, FNext, PTL DEF Spec, ClaimsStand, F!ClaimsStand, F!vars, facilitators

-----------------------------------------------------------------------------
\* Errata: a row that was left is the one before the row it landed on, and a
\* mark that was checked names both or neither.

LogRow == [from : Nat, marks : SUBSET Mark]

RTypeOK ==
  /\ log \in Seq(LogRow)
  /\ since \in Nat
  /\ marking \in [Web -> {R!Idle} \cup
       [op : {"mark"}, rows : SUBSET Nat, mark : Mark, on : BOOLEAN]]

\* The rows are the two of one move.
TwoOf(i) == i \in R!Rows /\ log[i].from # 0

RMoves ==
  /\ since <= Len(log) + 1
  /\ \A i \in R!Rows : TwoOf(i) =>
       /\ log[i].from = i - 1 /\ i - 1 \in R!Rows /\ log[i - 1].from = 0
       /\ since = i => i \in split

RChecked ==
  \A w \in Web : marking[w] # R!Idle =>
    /\ marking[w].rows \subseteq R!Rows
    /\ \A i \in R!Rows \ split :
         TwoOf(i) => (i \in marking[w].rows <=> i - 1 \in marking[w].rows)

RInv == RTypeOK /\ RMoves /\ RChecked /\ MoveMarkedWhole

\* To begin with the log is empty.
LEMMA RInit == Init => RInv
BY DEF Init, R!Init, RInv, RTypeOK, RMoves, RChecked, TwoOf, MoveMarkedWhole,
   R!MoveMarkedWhole, R!Rows, R!Idle, R!NotYet

\* A row that was left is there, and was not landed on.
LEMMA RLeft ==
  ASSUME RInv, NEW i, TwoOf(i)
  PROVE  /\ i \in Nat /\ i - 1 \in R!Rows
         /\ log[i - 1].from = 0
BY DEF RInv, RTypeOK, RMoves, TwoOf, R!Rows, LogRow

\* What was checked to be whole errata names both rows of a move, or neither.
LEMMA RWhole ==
  ASSUME RInv, NEW named \in SUBSET R!Rows, R!WholeErrata(named),
         NEW i \in R!Rows \ split, TwoOf(i)
  PROVE  i \in named <=> i - 1 \in named
<1> DEFINE rows == R!NamedRows(named)
           near == {j \in R!Since : j \in named \/ log[j].from \in named}
<1>1. /\ log \in Seq(LogRow) /\ since \in Nat /\ i \in Nat
      /\ log[i].from = i - 1 /\ since # i /\ i - 1 \in R!Rows
  BY RLeft DEF RInv, RTypeOK, RMoves
<1>2. i \in R!Since <=> i - 1 \in R!Since
  BY <1>1 DEF R!Since, R!Rows, R!NotYet
<1>3. rows \subseteq R!Since /\ near \subseteq rows
  BY DEF R!NamedRows
<1>4. \A j \in named : \E k \in rows \ R!LeftBehind(rows) :
        LET e == {k} \cup ({log[k].from} \cap rows) IN
        e \subseteq named /\ j \in e
  BY DEF R!WholeErrata, R!Errata
<1>5. R!Since \subseteq R!Rows
  BY DEF R!Since
<1>6. ASSUME i \in named PROVE i - 1 \in named
  <2>1. PICK k \in rows \ R!LeftBehind(rows) :
          /\ {k} \cup ({log[k].from} \cap rows) \subseteq named
          /\ i \in {k} \cup ({log[k].from} \cap rows)
    BY <1>4, <1>6
  <2>2. k = i
    <3>1. k \in R!Rows
      BY <1>3, <1>5
    <3>2. i # 0
      BY DEF R!Rows
    <3> QED
      BY <2>1, <3>1, <3>2, RLeft DEF TwoOf, RInv, RMoves
  <2>3. i \in near /\ i - 1 \in R!Since
    BY <1>2, <1>3, <1>6, <2>2
  <2>4. i - 1 \in rows
    BY <1>1, <2>3 DEF R!NamedRows, R!LeftBehind
  <2> QED
    BY <1>1, <2>1, <2>2, <2>4
<1>7. ASSUME i - 1 \in named PROVE i \in named
  <2>1. PICK k \in rows \ R!LeftBehind(rows) :
          /\ {k} \cup ({log[k].from} \cap rows) \subseteq named
          /\ i - 1 \in {k} \cup ({log[k].from} \cap rows)
    BY <1>4, <1>7
  <2>2. i - 1 \in R!Since
    BY <1>3, <2>1
  <2>3. i \in near
    BY <1>1, <1>2, <1>7, <2>2
  <2>4. i - 1 \in R!LeftBehind(rows)
    BY <1>1, <1>3, <2>3 DEF R!LeftBehind
  <2>5. log[k].from = i - 1 /\ k \in R!Rows
    BY <1>3, <1>5, <2>1, <2>4
  <2>6. k = i
    <3>1. i - 1 # 0
      BY <1>1 DEF R!Rows
    <3>2. log[k].from = k - 1 /\ k \in Nat
      BY <2>5, <3>1 DEF RInv, RMoves, TwoOf, R!Rows
    <3> QED
      BY <1>1, <2>5, <3>2
  <2> QED
    BY <2>1, <2>6
<1> QED
  BY <1>6, <1>7

\* A change is one row of its own.
LEMMA RChange ==
  ASSUME RInv, R!Change PROVE RInv'
<1>1. /\ log \in Seq(LogRow) /\ log' = Append(log, R!Row(0))
      /\ UNCHANGED <<since, marking, split>> /\ R!Row(0) \in LogRow
  BY DEF R!Change, RInv, RTypeOK, R!Row, LogRow
<1>2. /\ log' \in Seq(LogRow) /\ Len(log') = Len(log) + 1
      /\ \A i \in 1 .. Len(log) : log'[i] = log[i]
      /\ log'[Len(log) + 1] = R!Row(0)
  BY <1>1
<1>3. R!Rows' = 1 .. Len(log) + 1 /\ R!Rows = 1 .. Len(log)
  BY <1>2 DEF R!Rows
<1>4. \A i : TwoOf(i)' => TwoOf(i)
  BY <1>1, <1>2, <1>3 DEF TwoOf, R!Row
<1>5. RTypeOK' /\ RMoves'
  BY <1>1, <1>2, <1>3, <1>4 DEF RInv, RTypeOK, RMoves, TwoOf
<1>6. RChecked'
  BY <1>1, <1>2, <1>3, <1>4 DEF RInv, RTypeOK, RChecked, TwoOf
<1>7. MoveMarkedWhole'
  BY <1>1, <1>2, <1>3, <1>4, RLeft DEF RInv, RMoves, TwoOf, MoveMarkedWhole,
     R!MoveMarkedWhole
<1> QED
  BY <1>5, <1>6, <1>7 DEF RInv

\* A move is two rows, marked alike.
LEMMA RMove ==
  ASSUME RInv, R!Move PROVE RInv'
<1> DEFINE left == R!Row(0)
           landed == R!Row(Len(log) + 1)
<1>1. /\ log \in Seq(LogRow) /\ Len(log) \in Nat
      /\ log' = Append(Append(log, left), landed)
      /\ UNCHANGED <<since, marking, split>>
      /\ left \in LogRow /\ landed \in LogRow
      /\ left.from = 0 /\ landed.from = Len(log) + 1 /\ left.marks = landed.marks
  BY DEF R!Move, RInv, RTypeOK, R!Row, LogRow
<1> HIDE DEF left, landed
<1>2. /\ log' \in Seq(LogRow) /\ Len(log') = Len(log) + 2
      /\ \A i \in 1 .. Len(log) : log'[i] = log[i]
      /\ log'[Len(log) + 1] = left /\ log'[Len(log) + 2] = landed
  BY <1>1
<1>3. R!Rows' = 1 .. Len(log) + 2 /\ R!Rows = 1 .. Len(log)
  BY <1>2 DEF R!Rows
<1>4. \A i : TwoOf(i)' <=> TwoOf(i) \/ i = Len(log) + 2
  BY <1>1, <1>2, <1>3 DEF TwoOf
<1>5. RTypeOK'
  BY <1>1, <1>2 DEF RInv, RTypeOK
<1>6. RMoves'
  <2>1. ASSUME NEW i, TwoOf(i)
        PROVE  /\ i \in R!Rows' /\ log'[i].from = i - 1 /\ i - 1 \in R!Rows'
               /\ log'[i - 1].from = 0
               /\ since = i => i \in split
    BY <1>1, <1>2, <1>3, <2>1 DEF RInv, RMoves, TwoOf
  <2>2. LET i == Len(log) + 2 IN
        /\ log'[i].from = i - 1 /\ i - 1 \in R!Rows'
        /\ log'[i - 1].from = 0 /\ since # i
    BY <1>1, <1>2, <1>3 DEF RInv, RMoves, RTypeOK
  <2>3. since' <= Len(log') + 1
    BY <1>1, <1>2 DEF RInv, RMoves, RTypeOK
  <2> QED
    BY <1>1, <1>4, <2>1, <2>2, <2>3 DEF RMoves
<1>7. RChecked'
  BY <1>1, <1>2, <1>3, <1>4 DEF RInv, RTypeOK, RChecked, TwoOf
<1>8. MoveMarkedWhole'
  BY <1>1, <1>2, <1>3, <1>4, RLeft DEF RInv, RMoves, TwoOf, MoveMarkedWhole,
     R!MoveMarkedWhole
<1> QED
  BY <1>5, <1>6, <1>7, <1>8 DEF RInv

\* A publication between two rows of a move splits them.
LEMMA RPublish ==
  ASSUME RInv, NEW k \in R!NotYet .. Len(log) + 1, R!Publish(k) PROVE RInv'
<1>1. /\ since' = k /\ k \in Nat /\ k <= Len(log) + 1
      /\ split \subseteq split' /\ UNCHANGED <<log, marking>>
  BY DEF R!Publish, R!NotYet, RInv, RTypeOK
<1>2. \A i \in R!Rows : TwoOf(i) /\ k = i => i \in split'
  BY RLeft DEF R!Publish, TwoOf, RInv, RMoves
<1> QED
  BY <1>1, <1>2 DEF RInv, RTypeOK, RMoves, RChecked, TwoOf, R!Rows, MoveMarkedWhole,
     R!MoveMarkedWhole

\* A change of marks names whole moves ...
LEMMA RCheck ==
  ASSUME RInv, NEW w \in Web, NEW named \in SUBSET R!Rows, NEW mark \in Mark,
         NEW on \in BOOLEAN, R!Check(w, named, mark, on)
  PROVE  RInv'
<1>1. RTypeOK'
  BY DEF R!Check, RInv, RTypeOK, R!Rows
<1>2. RChecked'
  BY RWhole DEF R!Check, RInv, RTypeOK, RChecked, TwoOf, R!Rows
<1> QED
  BY <1>1, <1>2 DEF R!Check, RInv, RMoves, TwoOf, R!Rows, MoveMarkedWhole,
     R!MoveMarkedWhole

\* ... and marks or unmarks both rows of each.
LEMMA RWrite ==
  ASSUME RInv, NEW w \in Web, R!Write(w) PROVE RInv'
<1> DEFINE m == marking[w]
           Marked(marks) == IF m.on THEN marks \cup {m.mark} ELSE marks \ {m.mark}
<1>1. /\ log \in Seq(LogRow) /\ R!Rows = 1 .. Len(log)
      /\ m.rows \subseteq R!Rows /\ m.mark \in Mark
  BY DEF RInv, RTypeOK, RChecked, R!Write, R!Idle, R!Rows
<1>2. /\ DOMAIN log' = R!Rows
      /\ \A i \in R!Rows :
           log'[i] = IF i \notin m.rows THEN log[i]
                     ELSE [log[i] EXCEPT !.marks = Marked(@)]
      /\ log' = [i \in 1 .. Len(log) |-> log'[i]]
  BY <1>1 DEF R!Write
<1> HIDE DEF m
<1>3. \A i \in R!Rows :
        /\ log'[i] \in LogRow /\ log'[i].from = log[i].from
        /\ log'[i].marks = IF i \in m.rows THEN Marked(log[i].marks) ELSE log[i].marks
  <2> SUFFICES ASSUME NEW i \in R!Rows
               PROVE  /\ log'[i] \in LogRow /\ log'[i].from = log[i].from
                      /\ log'[i].marks = IF i \in m.rows THEN Marked(log[i].marks)
                                         ELSE log[i].marks
    OBVIOUS
  <2>1. log[i] \in LogRow
    BY <1>1
  <2>2. log[i] = [from |-> log[i].from, marks |-> log[i].marks]
        /\ log[i].from \in Nat /\ log[i].marks \in SUBSET Mark
    BY <2>1 DEF LogRow
  <2>3. Marked(log[i].marks) \in SUBSET Mark
    BY <1>1, <2>2
  <2> HIDE DEF Marked
  <2>4. i \in m.rows =>
          log'[i] = [from |-> log[i].from, marks |-> Marked(log[i].marks)]
    BY <1>2, <2>2
  <2> QED
    BY <1>2, <2>1, <2>2, <2>3, <2>4 DEF LogRow
<1>4. log' \in Seq(LogRow) /\ Len(log') = Len(log)
  <2>1. Len(log) \in Nat
    BY <1>1, LenProperties
  <2>2. \A i \in 1 .. Len(log) : log'[i] \in LogRow
    BY <1>1, <1>3
  <2>3. log' \in [1 .. Len(log) -> LogRow]
    BY <1>2, <2>2, Zenon
  <2>4. log' \in Seq(LogRow)
    BY <2>1, <2>3, SeqDef
  <2> QED
    BY <2>1, <2>3, <2>4, LenProperties
<1>5. R!Rows' = R!Rows /\ \A i : TwoOf(i)' <=> TwoOf(i)
  BY <1>3, <1>4 DEF R!Rows, TwoOf
<1>6. /\ UNCHANGED <<since, split>>
      /\ \A v \in Web : marking'[v] # R!Idle => marking'[v] = marking[v]
      /\ marking' \in [Web -> {R!Idle} \cup
           [op : {"mark"}, rows : SUBSET Nat, mark : Mark, on : BOOLEAN]]
  BY DEF R!Write, RInv, RTypeOK
<1>7. RTypeOK' /\ RMoves' /\ RChecked'
  BY <1>3, <1>4, <1>5, <1>6 DEF RInv, RTypeOK, RMoves, RChecked
<1>8. MoveMarkedWhole'
  <2> SUFFICES ASSUME NEW i \in R!Rows \ split, TwoOf(i)
               PROVE  log'[i].marks = log'[log[i].from].marks
    BY <1>3, <1>5, <1>6 DEF MoveMarkedWhole, R!MoveMarkedWhole, TwoOf
  <2>1. log[i].from = i - 1 /\ i - 1 \in R!Rows
    BY RLeft DEF RInv, RMoves
  <2>2. log[i].marks = log[i - 1].marks
    BY <2>1 DEF RInv, MoveMarkedWhole, R!MoveMarkedWhole, TwoOf
  <2>3. i \in m.rows <=> i - 1 \in m.rows
    BY DEF RInv, RChecked, R!Write, m
  <2> QED
    BY <1>3, <2>1, <2>2, <2>3
<1> QED
  BY <1>7, <1>8 DEF RInv

\* Every step of the errata keeps the invariant.
LEMMA RNext == RInv /\ [Next]_vars => RInv'
<1> SUFFICES ASSUME RInv, [Next]_vars PROVE RInv'
  OBVIOUS
<1>1. CASE UNCHANGED errata
  BY <1>1 DEF errata, RInv, RTypeOK, RMoves, RChecked, TwoOf, R!Rows,
     MoveMarkedWhole, R!MoveMarkedWhole
<1>2. CASE R!Next
  BY <1>2, RChange, RMove, RPublish, RCheck, RWrite DEF R!Next
<1> QED
  BY <1>1, <1>2 DEF Next, vars, InFacilitators, InImport, InGrid

\* However marks cross each other and changes of the publication, the two rows
\* of a move carry the same marks (MoveMarkedWhole), unless the publication once
\* fell between the two.
THEOREM MoveMarkedWholeHolds == Spec => []MoveMarkedWhole
<1>1. RInv => MoveMarkedWhole
  BY DEF RInv
<1> QED
  BY <1>1, RInit, RNext, PTL DEF Spec
-----------------------------------------------------------------------------
\* Imports: what a request has read of a facilitator, and what has come of the
\* facilitator since.

RequestFields ==
  {"op", "recipe", "rows", "todo", "target", "alone", "seen", "session", "person", "entry"}
PersonFields == {"life", "ident", "slug", "answer", "of", "contested"}
SessionFields == {"life", "ident", "slug", "title", "text", "by"}

\* Whoever was taken for more than one person is contested.
KeptApart(p) == p.contested \/ p.of \subseteq {p.ident} \ {None}

Person(p) ==
  \/ p.life = "none" /\ DOMAIN p = {"life"}
  \/ p.life # "none" /\ DOMAIN p = PersonFields /\ KeptApart(p)

Proposed(s) ==
  \/ s.life = "none" /\ DOMAIN s = {"life"}
  \/ s.life # "none" /\ DOMAIN s = SessionFields

\* A facilitator who had a key has it still, or somebody contested it.
Since(was, now) == now.contested \/ was.ident = None \/ now.ident = was.ident

Keeps(old, new) ==
  old.life # "none" => new.life # "none" /\ \A was : Since(was, old) => Since(was, new)

\* The invariant's parts: what is committed and what is written are rows ...
MRows ==
  /\ DOMAIN person = FacilitatorId /\ DOMAIN session = SessionId
  /\ \A f \in FacilitatorId : Person(person[f])
  /\ \A s \in SessionId : Proposed(session[s])

MRuns ==
  /\ run = [w \in Web |-> run[w]]
  /\ \A w \in Web :
       /\ DOMAIN run[w] = RequestFields
       /\ DOMAIN run[w].person = FacilitatorId /\ DOMAIN run[w].session = SessionId

Wrote(w, f) == run[w].person[f].life # "none"

MWritten ==
  \A w \in Web :
    /\ \A f \in FacilitatorId : Wrote(w, f) => Person(run[w].person[f])
    /\ \A s \in SessionId : run[w].session[s].life # "none" => Proposed(run[w].session[s])

\* ... no row is written by two, and nobody takes a facilitator's key away ...
MAlone ==
  \A v, w \in Web : v # w =>
    /\ \A f \in FacilitatorId : ~(Wrote(v, f) /\ Wrote(w, f))
    /\ \A s \in SessionId : run[v].session[s].life = "none" \/ run[w].session[s].life = "none"

MSince ==
  \A w \in Web, f \in FacilitatorId : Wrote(w, f) /\ person[f].life # "none" =>
    run[w].person[f].life # "none" /\ Since(person[f], run[w].person[f])

\* ... whom a request has read is there still, with the key it had ...
Stays(was, w, f) ==
  /\ I!People(w)[f].life # "none" /\ Since(was, I!People(w)[f])
  /\ \A v \in Web : Wrote(v, f) =>
       run[v].person[f].life # "none" /\ Since(was, run[v].person[f])

\* ... and is matched by the row's key, or has none ...
Matches(who, key) ==
  /\ who.f = 0 => who.was.life = "none"
  /\ who.f # 0 => /\ who.f \in FacilitatorId /\ who.was.life # "none"
                  /\ key # None => who.was.ident \in {None, key}

MWho(w, seen) ==
  LET who == seen.who IN
  /\ who.f \in FacilitatorId => /\ Wrote(w, who.f) => who.was = run[w].person[who.f]
                                /\ who.was.life # "none" => Stays(who.was, w, who.f)
  /\ seen.op = "create" \/ seen.was.by = {} => Matches(who, I!PersonKey(w))

MKnows(w, seen) ==
  /\ seen.op \in {"adopt", "create", "fill"}
  /\ seen.op = "fill" <=> run[w].op # "import"
  /\ seen.op # "adopt" => MWho(w, seen)
  /\ seen.op = "fill" =>
       /\ seen.was.life # "none"
       /\ run[w].session[run[w].target].life # "none" => seen.was = run[w].session[run[w].target]

MSeen == \A w \in Web : run[w].seen # None => MKnows(w, run[w].seen)

\* ... and a run of rows changes no proposal's text.
MText ==
  \A w \in Web, s \in SessionId : run[w].op = "import" /\ run[w].session[s].life # "none" =>
    session[s].life = "none" \/ run[w].session[s].text = session[s].text

MInv == MRows /\ MRuns /\ MWritten /\ MAlone /\ MSince /\ MSeen /\ MText

\* Of the ids nobody has used some is the next one.
LEMMA NextId ==
  ASSUME NEW D \in SUBSET Nat, D # {}
  PROVE  I!Min(D) \in D
<1> DEFINE below == {0 .. m : m \in D}
<1>1. IsWellFoundedOn(StrictSubsetOrdering(Nat), FiniteSubsetsOf(Nat))
  BY FS_StrictSubsetOrderingWellFounded
<1>2. below \subseteq FiniteSubsetsOf(Nat) /\ below # {}
  <2>1. \A m \in D : IsFiniteSet(0 .. m) /\ 0 .. m \in SUBSET Nat
    BY FS_Interval
  <2> QED
    BY <2>1 DEF FiniteSubsetsOf
<1>3. PICK m \in D : \A n \in D : <<0 .. n, 0 .. m>> \notin StrictSubsetOrdering(Nat)
  <2>1. \E x \in below : \A y \in below : <<y, x>> \notin StrictSubsetOrdering(Nat)
    <3> HIDE DEF below
    <3> QED
      BY <1>1, <1>2, WFMin
  <2> QED
    BY <2>1
<1>4. ASSUME NEW n \in D, ~(m <= n) PROVE FALSE
  <2>1. 0 .. n \subseteq 0 .. m /\ m \in 0 .. m /\ m \notin 0 .. n
    BY <1>4
  <2>2. 0 .. n # 0 .. m /\ 0 .. n \in SUBSET Nat /\ 0 .. m \in SUBSET Nat
    BY <2>1
  <2>3. <<0 .. n, 0 .. m>> \in StrictSubsetOrdering(Nat)
    BY <2>1, <2>2 DEF StrictSubsetOrdering
  <2> QED
    BY <1>3, <2>3
<1> QED
  BY <1>4 DEF I!Min

LEMMA NewOnes ==
  /\ I!NewPeople # {} =>
       /\ I!Min(I!NewPeople) \in FacilitatorId /\ I!Min(I!NewPeople) # 0
       /\ person[I!Min(I!NewPeople)].life = "none"
       /\ \A w \in Web : ~Wrote(w, I!Min(I!NewPeople))
  /\ I!NewSessions # {} =>
       /\ I!Min(I!NewSessions) \in SessionId
       /\ session[I!Min(I!NewSessions)].life = "none"
       /\ \A w \in Web : run[w].session[I!Min(I!NewSessions)].life = "none"
<1>1. FacilitatorId \subseteq Nat \ {0} /\ SessionId \subseteq Nat \ {0}
  BY PanelAssumption DEF I!ImportAssumption
<1>2. I!NewPeople \in SUBSET Nat /\ I!NewSessions \in SUBSET Nat
  BY <1>1 DEF I!NewPeople, I!NewSessions
<1>3. I!NewPeople # {} => I!Min(I!NewPeople) \in I!NewPeople
  BY <1>2, NextId
<1>4. I!NewSessions # {} => I!Min(I!NewSessions) \in I!NewSessions
  BY <1>2, NextId
<1> HIDE DEF I!Min
<1> QED
  BY <1>1, <1>3, <1>4 DEF I!NewPeople, I!NewSessions, Wrote

\* What a request sees is what it wrote, or else what is committed.
LEMMA ViewOf ==
  ASSUME MInv, NEW w \in Web
  PROVE  /\ \A f \in FacilitatorId :
              /\ I!People(w)[f] = IF Wrote(w, f) THEN run[w].person[f] ELSE person[f]
              /\ Person(I!People(w)[f])
         /\ \A s \in SessionId :
              /\ I!Sessions(w)[s] = IF run[w].session[s].life = "none" THEN session[s]
                                    ELSE run[w].session[s]
              /\ Proposed(I!Sessions(w)[s])
         /\ DOMAIN I!People(w) = FacilitatorId /\ DOMAIN I!Sessions(w) = SessionId
BY DEF MInv, MRows, MWritten, Wrote, I!People, I!Sessions, I!Over

LEMMA AbsentRow == I!Absent.life = "none"
BY DEF I!Absent

LEMMA MInit == Init => MInv
<1> SUFFICES ASSUME Init PROVE MInv
  OBVIOUS
<1>1. I!Init
  BY DEF Init
<1>2. \A f \in FacilitatorId : person[f] = I!Absent
  BY <1>1 DEF I!Init
<1>3. \A s \in SessionId : session[s] = I!Absent
  BY <1>1 DEF I!Init
<1>4. MRows
  <2>1. I!Absent.life = "none" /\ DOMAIN I!Absent = {"life"}
    BY DEF I!Absent
  <2> QED
    BY <1>1, <1>2, <1>3, <2>1 DEF I!Init, MRows, Person, Proposed
<1>5. run = [w \in Web |-> I!Idle]
  BY <1>1 DEF I!Init
<1>6. /\ DOMAIN I!Idle = RequestFields
      /\ I!Idle.person = [f \in FacilitatorId |-> I!Absent]
      /\ I!Idle.session = [s \in SessionId |-> I!Absent]
      /\ I!Idle.seen = None
  BY DEF I!Idle, RequestFields
<1>7. \A w \in Web : run[w] = I!Idle
  BY <1>5
<1>8. MRuns
  BY <1>5, <1>6, <1>7 DEF MRuns
<1>9. MWritten /\ MAlone /\ MSince /\ MSeen /\ MText
  BY <1>6, <1>7, AbsentRow DEF MWritten, MAlone, MSince, MSeen, MText, Wrote
<1> QED
  BY <1>4, <1>8, <1>9 DEF MInv

\* A facilitator a row is linked to has the key they had, gets the row's, or is
\* contested.
LEMMA Linking ==
  ASSUME MInv, NEW w \in Web, NEW f \in FacilitatorId, NEW was, NEW plain,
         was.life # "none", I!People(w)[f].life # "none", Since(was, I!People(w)[f]),
         I!PersonKey(w) # None => was.ident \in {None, I!PersonKey(w)}
  PROVE  LET now == I!People(w)[f]
             linked == I!Linked(w, f, was, plain)
         IN /\ linked.life # "none" /\ Person(linked)
            /\ \A x : Since(x, now) => Since(x, linked)
            /\ was.answer = "hand" => linked.answer = now.answer
<1> DEFINE now == I!People(w)[f]
           key == I!PersonKey(w)
           linked == I!Linked(w, f, was, plain)
<1>1. DOMAIN now = PersonFields /\ KeptApart(now)
  BY ViewOf DEF Person
<1>2. linked = [now EXCEPT
        !.life = "alive",
        !.ident = IF was.ident = None /\ key # None THEN key ELSE @,
        !.contested = @ \/ (was.ident = None /\ key # None /\ now.ident \notin {None, key}),
        !.answer = I!Filled(w, was.answer, @),
        !.of = @ \cup ({key} \ {None})]
  BY DEF I!Linked
<1> HIDE DEF linked, now, key
<1>3. /\ DOMAIN linked = PersonFields /\ linked.life = "alive"
      /\ linked.ident = IF was.ident = None /\ key # None THEN key ELSE now.ident
      /\ linked.contested = (now.contested \/ (was.ident = None /\ key # None
                                               /\ now.ident \notin {None, key}))
      /\ linked.answer = I!Filled(w, was.answer, now.answer)
      /\ linked.of = now.of \cup ({key} \ {None})
  BY <1>1, <1>2 DEF PersonFields
<1>4. KeptApart(linked)
  <2>1. CASE now.contested
    BY <1>3, <2>1 DEF KeptApart
  <2>2. CASE ~now.contested /\ key = None
    BY <1>1, <1>3, <2>2 DEF KeptApart
  <2>3. CASE ~now.contested /\ key # None /\ was.ident = None
    BY <1>1, <1>3, <2>3 DEF KeptApart
  <2>4. CASE ~now.contested /\ key # None /\ was.ident # None
    <3>1. was.ident = key /\ now.ident = key
      BY <2>4 DEF Since, key, now
    <3> QED
      BY <1>1, <1>3, <2>4, <3>1 DEF KeptApart
  <2> QED
    BY <2>1, <2>2, <2>3, <2>4
<1>5. ASSUME NEW x, Since(x, now) PROVE Since(x, linked)
  <2>1. CASE now.contested
    BY <1>3, <2>1 DEF Since
  <2>2. CASE ~now.contested /\ linked.ident = now.ident
    BY <1>5, <2>2 DEF Since
  <2>3. CASE ~now.contested /\ linked.ident # now.ident
    BY <1>3, <1>5, <2>3 DEF Since
  <2> QED
    BY <2>1, <2>2, <2>3
<1>6. was.answer = "hand" => linked.answer = now.answer
  <2>1. None # "hand"
    BY PanelAssumption DEF I!ImportAssumption
  <2> QED
    BY <1>3, <2>1 DEF I!Filled
<1> QED
  BY <1>3, <1>4, <1>5, <1>6 DEF Person, linked, now


\* What a step leaves of a request, but for what it knows of others' steps.
Kept(v) ==
  /\ run'[v].op = run[v].op /\ run'[v].recipe = run[v].recipe
  /\ run'[v].rows = run[v].rows /\ run'[v].todo = run[v].todo
  /\ run'[v].target = run[v].target
  /\ run'[v].session = run[v].session /\ run'[v].person = run[v].person

Alike(v) == Kept(v) /\ run'[v].seen = run[v].seen

LEMMA KeyStays ==
  ASSUME NEW v, run'[v].recipe = run[v].recipe, run'[v].rows = run[v].rows,
         run'[v].todo = run[v].todo
  PROVE  I!PersonKey(v)' = I!PersonKey(v)
BY DEF I!PersonKey, I!Rules, I!Row, I!Index

\* A request knows as much as before, if those it knows of keep their keys.
LEMMA KnowsStill ==
  ASSUME MInv, NEW v \in Web, NEW seen, MKnows(v, seen), Kept(v),
         \A f \in FacilitatorId : \A was : Stays(was, v, f) => Stays(was, v, f)'
  PROVE  MKnows(v, seen)'
<1>1. I!PersonKey(v)' = I!PersonKey(v)
  BY KeyStays DEF Kept
<1>2. \A f \in FacilitatorId : Wrote(v, f)' <=> Wrote(v, f)
  BY DEF Kept, Wrote
<1>3. MWho(v, seen) => MWho(v, seen)'
  BY <1>1, <1>2 DEF MWho, Matches, MKnows, Kept
<1> QED
  BY <1>3 DEF MKnows, Kept

LEMMA SeenStill ==
  ASSUME MInv, NEW v \in Web, Alike(v), run[v].seen # None,
         \A f \in FacilitatorId : \A was : Stays(was, v, f) => Stays(was, v, f)'
  PROVE  MKnows(v, run[v].seen)'
<1>1. PICK seen : seen = run[v].seen
  OBVIOUS
<1>2. MKnows(v, seen) /\ Kept(v)
  BY <1>1 DEF MInv, MSeen, Alike
<1>3. MKnows(v, seen)'
  BY <1>2, KnowsStill
<1> QED
  BY <1>1, <1>3 DEF Alike

\* Whatever a request has read, its row is there and has the key it had.
LEMMA Reading ==
  ASSUME MInv, NEW w \in Web, NEW f \in FacilitatorId, I!People(w)[f].life # "none"
  PROVE  Stays(I!People(w)[f], w, f)
<1> DEFINE was == I!People(w)[f]
<1>1. was = IF Wrote(w, f) THEN run[w].person[f] ELSE person[f]
  BY ViewOf
<1>2. Since(was, was)
  BY DEF Since
<1>3. ASSUME NEW v \in Web, Wrote(v, f)
      PROVE  run[v].person[f].life # "none" /\ Since(was, run[v].person[f])
  <2>1. CASE v = w
    BY <1>1, <1>2, <1>3, <2>1
  <2>2. CASE v # w
    <3>1. ~Wrote(w, f)
      BY <1>3, <2>2 DEF MInv, MAlone
    <3> QED
      BY <1>1, <1>3, <3>1 DEF MInv, MSince
  <2> QED
    BY <2>1, <2>2
<1> QED
  BY <1>2, <1>3 DEF Stays

\* Rows nobody has in hand are changed by hand, and keep their keys.
LEMMA MCommitted ==
  ASSUME MInv, MRuns', \A v \in Web : Alike(v),
         DOMAIN person' = FacilitatorId, DOMAIN session' = SessionId,
         \A f \in FacilitatorId :
           person'[f] = person[f] \/ /\ \A v \in Web : ~Wrote(v, f)
                                     /\ Person(person'[f])
                                     /\ Keeps(person[f], person'[f]),
         \A s \in SessionId :
           session'[s] = session[s] \/ /\ \A v \in Web : run[v].session[s].life = "none"
                                       /\ Proposed(session'[s])
  PROVE  MInv'
<1>1. MRows'
  BY DEF MInv, MRows
<1>2. MWritten'
  BY DEF MInv, MWritten, Wrote, Alike, Kept
<1>3. MAlone'
  BY DEF MInv, MAlone, Wrote, Alike, Kept
<1>4. MSince'
  BY DEF MInv, MSince, Wrote, Alike, Kept
<1>5. MText'
  BY DEF MInv, MText, Alike, Kept
<1>6. ASSUME NEW v \in Web, NEW f \in FacilitatorId, NEW was, Stays(was, v, f)
      PROVE  Stays(was, v, f)'
  <2>1. I!People(v)[f] = IF Wrote(v, f) THEN run[v].person[f] ELSE person[f]
    BY ViewOf
  <2>2. I!People(v)'[f] = IF Wrote(v, f) THEN run[v].person[f] ELSE person'[f]
    BY DEF I!People, I!Over, Wrote, Alike, Kept
  <2>3. \A u \in Web : Wrote(u, f)' = Wrote(u, f) /\ run'[u].person[f] = run[u].person[f]
    BY DEF Wrote, Alike, Kept
  <2>4. Keeps(I!People(v)[f], I!People(v)'[f])
    BY <2>1, <2>2 DEF Keeps
  <2> QED
    BY <1>6, <2>3, <2>4 DEF Stays, Keeps
<1>7. MSeen'
  BY <1>6, SeenStill DEF MSeen, Alike
<1> QED
  BY <1>1, <1>2, <1>3, <1>4, <1>5, <1>7 DEF MInv

Untouched(v) == run'[v] = run[v]

LEMMA UntouchedAlike ==
  ASSUME NEW v, Untouched(v)
  PROVE  Alike(v)
BY DEF Untouched, Alike, Kept

\* A request that begins, or is given up, has written and read nothing.
LEMMA MFresh ==
  ASSUME MInv, MRuns', NEW w \in Web, \A v \in Web \ {w} : Untouched(v),
         run'[w].seen = None,
         \A f \in FacilitatorId : run'[w].person[f].life = "none",
         \A s \in SessionId : run'[w].session[s].life = "none",
         UNCHANGED <<session, person>>
  PROVE  MInv'
<1>1. MRows'
  BY DEF MInv, MRows
<1>2. MWritten' /\ MAlone' /\ MSince' /\ MText'
  BY DEF MInv, MWritten, MAlone, MSince, MText, Wrote, Untouched
<1>3. ASSUME NEW v \in Web \ {w}, NEW f \in FacilitatorId, NEW was, Stays(was, v, f)
      PROVE  Stays(was, v, f)'
  <2>1. I!People(v)'[f] = I!People(v)[f]
    BY DEF I!People, I!Over, Untouched
  <2> QED
    BY <1>3, <2>1 DEF Stays, Wrote, Untouched
<1>4. MSeen'
  BY <1>3, SeenStill, UntouchedAlike DEF MSeen, Alike
<1> QED
  BY <1>1, <1>2, <1>4 DEF MInv

\* A request reads what it knows.
LEMMA MSee ==
  ASSUME MInv, NEW w \in Web, NEW seen, MKnows(w, seen), I!See(w, seen)
  PROVE  MInv'
<1>1. run' = [run EXCEPT ![w].seen = seen] /\ UNCHANGED <<session, person>>
  BY DEF I!See
<1>2. MRuns' /\ Kept(w) /\ run'[w].seen = seen
  BY <1>1 DEF MInv, MRuns, Kept, RequestFields
<1>3. \A v \in Web \ {w} : Untouched(v)
  BY <1>1 DEF MInv, MRuns, Untouched
<1>4. \A v \in Web : Kept(v)
  BY <1>2, <1>3, UntouchedAlike DEF Alike
<1>5. MRows'
  BY <1>1 DEF MInv, MRows
<1>6. MWritten' /\ MAlone' /\ MSince' /\ MText'
  BY <1>1, <1>4 DEF MInv, MWritten, MAlone, MSince, MText, Wrote, Kept
<1>7. ASSUME NEW v \in Web, NEW f \in FacilitatorId, NEW was, Stays(was, v, f)
      PROVE  Stays(was, v, f)'
  <2>1. I!People(v)'[f] = I!People(v)[f]
    BY <1>1, <1>4 DEF I!People, I!Over, Kept
  <2> QED
    BY <1>4, <1>7, <2>1 DEF Stays, Wrote, Kept
<1>8. MKnows(w, seen)'
  BY <1>2, <1>7, KnowsStill
<1>9. MSeen'
  BY <1>2, <1>3, <1>7, <1>8, SeenStill, UntouchedAlike DEF MSeen, Alike
<1> QED
  BY <1>2, <1>5, <1>6, <1>9 DEF MInv

\* What a request may write of a facilitator, and of a proposal.
MayWrite(w, f, new) ==
  /\ \A v \in Web \ {w} : ~Wrote(v, f)
  /\ Person(new) /\ Keeps(I!People(w)[f], new)

MayPropose(w, s, new) ==
  /\ \A v \in Web \ {w} : run[v].session[s].life = "none"
  /\ Proposed(new)
  /\ run[w].op = "import" =>
       session[s].life = "none" \/ new.text = I!Sessions(w)[s].text

LEMMA MWrite ==
  ASSUME MInv, MRuns', NEW w \in Web, \A v \in Web \ {w} : Untouched(v),
         run'[w].op = run[w].op, run'[w].seen = None,
         \A f \in FacilitatorId : \/ run'[w].person[f] = run[w].person[f]
                                  \/ MayWrite(w, f, run'[w].person[f]),
         \A s \in SessionId : \/ run'[w].session[s] = run[w].session[s]
                              \/ MayPropose(w, s, run'[w].session[s]),
         UNCHANGED <<session, person>>
  PROVE  MInv'
<1>1. MRows'
  BY DEF MInv, MRows
<1>2. MWritten'
  BY DEF MInv, MWritten, Wrote, Untouched, MayWrite, MayPropose
<1>3. MAlone'
  <2>1. ASSUME NEW v \in Web, NEW u \in Web, v # u, NEW f \in FacilitatorId,
               Wrote(v, f)', Wrote(u, f)'
        PROVE  FALSE
    BY <2>1 DEF MInv, MAlone, Wrote, Untouched, MayWrite
  <2>2. ASSUME NEW v \in Web, NEW u \in Web, v # u, NEW s \in SessionId,
               run'[v].session[s].life # "none", run'[u].session[s].life # "none"
        PROVE  FALSE
    BY <2>2 DEF MInv, MAlone, Untouched, MayPropose
  <2> QED
    BY <2>1, <2>2 DEF MAlone
<1>4. MSince'
  <2> SUFFICES ASSUME NEW v \in Web, NEW f \in FacilitatorId, Wrote(v, f)', person[f].life # "none"
               PROVE  run'[v].person[f].life # "none" /\ Since(person[f], run'[v].person[f])
    BY DEF MSince
  <2>1. CASE run'[v].person[f] = run[v].person[f]
    BY <2>1 DEF MInv, MSince, Wrote
  <2>2. CASE run'[v].person[f] # run[v].person[f]
    <3>1. v = w /\ MayWrite(w, f, run'[w].person[f])
      BY <2>2 DEF Untouched
    <3>2. I!People(w)[f] = IF Wrote(w, f) THEN run[w].person[f] ELSE person[f]
      BY ViewOf
    <3>3. I!People(w)[f].life # "none" /\ Since(person[f], I!People(w)[f])
      BY <3>2 DEF MInv, MSince, Since
    <3>4. PICK was : was = person[f]
      OBVIOUS
    <3> QED
      BY <3>1, <3>3, <3>4 DEF MayWrite, Keeps
  <2> QED
    BY <2>1, <2>2
<1>5. MText'
  <2> SUFFICES ASSUME NEW v \in Web, NEW s \in SessionId, run'[v].op = "import",
                      run'[v].session[s].life # "none", session[s].life # "none"
               PROVE  run'[v].session[s].text = session[s].text
    BY DEF MText
  <2>0. run[v].op = "import"
    BY DEF Untouched
  <2>1. CASE run'[v].session[s] = run[v].session[s]
    BY <2>0, <2>1 DEF MInv, MText
  <2>2. CASE run'[v].session[s] # run[v].session[s]
    <3>1. v = w /\ MayPropose(w, s, run'[w].session[s])
      BY <2>2 DEF Untouched
    <3>2. I!Sessions(w)[s] = IF run[w].session[s].life = "none" THEN session[s] ELSE run[w].session[s]
      BY ViewOf
    <3> QED
      BY <2>0, <3>1, <3>2 DEF MayPropose, MInv, MText
  <2> QED
    BY <2>1, <2>2
<1>6. ASSUME NEW v \in Web \ {w}, NEW f \in FacilitatorId, NEW was, Stays(was, v, f)
      PROVE  Stays(was, v, f)'
  <2>1. I!People(v)'[f] = I!People(v)[f]
    BY DEF I!People, I!Over, Untouched
  <2>2. CASE run'[w].person[f] = run[w].person[f]
    BY <1>6, <2>1, <2>2 DEF Stays, Wrote, Untouched
  <2>3. CASE run'[w].person[f] # run[w].person[f]
    <3>1. MayWrite(w, f, run'[w].person[f])
      BY <2>3
    <3>2. I!People(w)[f] = IF Wrote(w, f) THEN run[w].person[f] ELSE person[f]
      BY ViewOf
    <3>3. I!People(v)[f] = person[f]
      BY <3>1, ViewOf DEF MayWrite
    <3>4. I!People(w)[f].life # "none" /\ Since(was, I!People(w)[f])
      BY <1>6, <3>2, <3>3 DEF Stays
    <3>5. run'[w].person[f].life # "none" /\ Since(was, run'[w].person[f])
      BY <3>1, <3>4 DEF MayWrite, Keeps
    <3> QED
      BY <1>6, <2>1, <3>5 DEF Stays, Wrote, Untouched
  <2> QED
    BY <2>2, <2>3
<1>7. MSeen'
  BY <1>6, SeenStill, UntouchedAlike DEF MSeen, Alike
<1> QED
  BY <1>1, <1>2, <1>3, <1>4, <1>5, <1>7 DEF MInv

\* A log entry ends what a request does with a row.
LEMMA MLog ==
  ASSUME MInv, NEW w \in Web, NEW status, NEW s, NEW written,
         DOMAIN written = RequestFields, written.op = run[w].op,
         DOMAIN written.person = FacilitatorId, DOMAIN written.session = SessionId,
         \A f \in FacilitatorId : \/ written.person[f] = run[w].person[f]
                                  \/ MayWrite(w, f, written.person[f]),
         \A x \in SessionId : \/ written.session[x] = run[w].session[x]
                              \/ MayPropose(w, x, written.session[x]),
         I!Log(w, status, s, written)
  PROVE  /\ MInv'
         /\ run'[w].person = written.person /\ run'[w].session = written.session
         /\ \A v \in Web \ {w} : Untouched(v)
<1>1. /\ run' = [run EXCEPT ![w] =
           [written EXCEPT
              !.entry[I!Index(w)] = [status |-> status, session |-> s, row |-> I!Row(w)],
              !.todo = Tail(@), !.seen = None]]
      /\ UNCHANGED <<session, person>>
  BY DEF I!Log
<1> HIDE DEF I!Index, I!Row
<1>2. /\ DOMAIN run'[w] = RequestFields /\ run'[w].op = written.op /\ run'[w].seen = None
      /\ run'[w].person = written.person /\ run'[w].session = written.session
  BY <1>1 DEF MInv, MRuns, RequestFields
<1>3. \A v \in Web \ {w} : Untouched(v)
  BY <1>1 DEF MInv, MRuns, Untouched
<1>4. MRuns'
  BY <1>1, <1>2, <1>3 DEF MInv, MRuns, Untouched
<1>5. MInv'
  BY <1>1, <1>2, <1>3, <1>4, MWrite
<1> QED
  BY <1>2, <1>3, <1>5

LEMMA BesideAlike ==
  ASSUME MInv, run' = I!Beside(run)
  PROVE  MRuns' /\ \A v \in Web : Alike(v)
BY DEF MInv, MRuns, I!Beside, Alike, Kept, RequestFields

\* A request commits what it has written.
LEMMA MCommit ==
  ASSUME MInv, NEW w \in Web, I!Commit(w)
  PROVE  MInv' /\ run'[w] = I!Idle /\ \A v \in Web \ {w} : Alike(v)
<1>1. /\ run' = [I!Beside(run) EXCEPT ![w] = I!Idle]
      /\ session' = I!Sessions(w) /\ person' = I!People(w)
  BY DEF I!Commit
<1>2. \A v \in Web \ {w} : Alike(v) /\ DOMAIN run'[v] = RequestFields
  BY <1>1 DEF MInv, MRuns, I!Beside, Alike, Kept, RequestFields
<1>3. /\ run'[w] = I!Idle /\ run' = [v \in Web |-> run'[v]]
  BY <1>1 DEF I!Beside
<1>4. /\ DOMAIN I!Idle = RequestFields
      /\ I!Idle.person = [f \in FacilitatorId |-> I!Absent]
      /\ I!Idle.session = [s \in SessionId |-> I!Absent]
      /\ I!Idle.seen = None
  BY DEF I!Idle, RequestFields
<1>5. MRuns'
  BY <1>2, <1>3, <1>4 DEF MInv, MRuns, Alike, Kept
<1>6. MRows'
  BY <1>1, ViewOf DEF MRows
<1>7. \A f \in FacilitatorId : person'[f] = IF Wrote(w, f) THEN run[w].person[f] ELSE person[f]
  BY <1>1, ViewOf
<1>8. \A s \in SessionId :
        session'[s] = IF run[w].session[s].life = "none" THEN session[s] ELSE run[w].session[s]
  BY <1>1, ViewOf
<1>9. \A v \in Web, f \in FacilitatorId : Wrote(v, f)' => v # w /\ Wrote(v, f)
  BY <1>2, <1>3, <1>4, AbsentRow DEF Wrote, Alike, Kept
<1>10. MWritten'
  BY <1>2, <1>3, <1>4, <1>9, AbsentRow DEF MInv, MWritten, Alike, Kept
<1>11. MAlone'
  BY <1>2, <1>3, <1>4, <1>9, AbsentRow DEF MInv, MAlone, Alike, Kept
<1>12. MSince'
  BY <1>2, <1>7, <1>9 DEF MInv, MSince, MAlone, Alike, Kept
<1>13. MText'
  BY <1>2, <1>3, <1>4, <1>8, AbsentRow DEF MInv, MText, MAlone, Alike, Kept
<1>14. ASSUME NEW v \in Web \ {w}, NEW f \in FacilitatorId, NEW was, Stays(was, v, f)
       PROVE  Stays(was, v, f)'
  <2>1. I!People(v)[f] = IF Wrote(v, f) THEN run[v].person[f] ELSE person[f]
    BY ViewOf
  <2>2. I!People(v)'[f] = IF Wrote(v, f) THEN run[v].person[f] ELSE person'[f]
    <3>1. DOMAIN person' = FacilitatorId /\ run'[v].person = run[v].person
      BY <1>2, <1>6 DEF MRows, Alike, Kept
    <3> HIDE <1>1
    <3> QED
      BY <3>1 DEF I!People, I!Over, Wrote
  <2>3. I!People(v)'[f].life # "none" /\ Since(was, I!People(v)'[f])
    BY <1>7, <1>14, <2>1, <2>2 DEF Stays
  <2> QED
    BY <1>2, <1>9, <1>14, <2>3 DEF Stays, Alike, Kept
<1>15. MSeen'
  BY <1>2, <1>3, <1>4, <1>14, SeenStill DEF MSeen, Alike
<1> QED
  BY <1>2, <1>3, <1>5, <1>6, <1>10, <1>11, <1>12, <1>13, <1>15 DEF MInv

\* Whoever a row is matched with has its key, or has none.
LEMMA Finding ==
  ASSUME MInv, NEW w \in Web
  PROVE  LET who == I!Who(w) IN
         /\ Matches(who, I!PersonKey(w))
         /\ who.f \in FacilitatorId => /\ Wrote(w, who.f) => who.was = run[w].person[who.f]
                                       /\ Stays(who.was, w, who.f)
<1> DEFINE key == I!PersonKey(w)
           who == I!Who(w)
<1>0. 0 \notin FacilitatorId
  BY PanelAssumption DEF I!ImportAssumption
<1>1. CASE who = I!NoOne
  <2>1. who.f = 0 /\ who.was.life = "none"
    BY <1>1 DEF I!NoOne, I!Absent
  <2> QED
    BY <1>0, <2>1 DEF Matches
<1>2. CASE who # I!NoOne
  <2>1. I!Matched(w) # {} /\ who = [f |-> CHOOSE g \in I!Matched(w) : TRUE,
                                    was |-> I!People(w)[CHOOSE g \in I!Matched(w) : TRUE]]
    BY <1>2 DEF I!Who
  <2>2. PICK f \in I!Matched(w) : who = [f |-> f, was |-> I!People(w)[f]]
    BY <2>1
  <2>3. /\ f \in DOMAIN I!People(w) /\ I!People(w)[f].life # "none"
        /\ key # None => I!People(w)[f].ident \in {None, key}
    BY DEF I!Matched, I!In
  <2>4. f \in FacilitatorId /\ who.f = f /\ who.was = I!People(w)[f]
    BY <2>2, <2>3, ViewOf
  <2>5. Stays(I!People(w)[f], w, f)
    BY <2>3, <2>4, Reading
  <2>6. Wrote(w, f) => who.was = run[w].person[f]
    BY <2>4, ViewOf
  <2> HIDE DEF key, who
  <2>7. Matches(who, key)
    BY <1>0, <2>3, <2>4 DEF Matches
  <2> QED
    BY <2>4, <2>5, <2>6, <2>7 DEF key, who
<1> QED
  BY <1>1, <1>2

\* What is read of the facilitator of a proposal that has one.
LEMMA ReadingOne ==
  ASSUME MInv, NEW w \in Web, NEW f \in FacilitatorId
  PROVE  LET was == I!People(w)[f] IN
         /\ Wrote(w, f) => was = run[w].person[f]
         /\ was.life # "none" => Stays(was, w, f)
BY Reading, ViewOf

LEMMA MReads ==
  ASSUME MInv, NEW w \in Web, I!AdoptRead(w) \/ I!CreateRead(w) \/ I!FillRead(w)
  PROVE  MInv'
<1>1. ASSUME I!AdoptRead(w) PROVE MInv'
  <2>1. run[w].op = "import"
    BY <1>1 DEF I!AdoptRead, I!Busy
  <2>2. PICK s : I!See(w, [op |-> "adopt", s |-> s])
    BY <1>1 DEF I!AdoptRead
  <2>3. MKnows(w, [op |-> "adopt", s |-> s])
    BY <2>1 DEF MKnows
  <2> QED
    BY <2>2, <2>3, MSee
<1>2. ASSUME I!CreateRead(w) PROVE MInv'
  <2>1. run[w].op = "import"
    BY <1>2 DEF I!CreateRead, I!Busy
  <2>2. PICK seen : seen = [op |-> "create", who |-> I!Who(w), title |-> I!PlainTitle(w),
                            name |-> I!PlainName(w)]
    OBVIOUS
  <2>3. I!See(w, seen)
    BY <1>2, <2>2 DEF I!CreateRead
  <2>4. seen.op = "create" /\ seen.who = I!Who(w)
    BY <2>2
  <2>5. MKnows(w, seen)
    BY <2>1, <2>4, Finding DEF MKnows, MWho
  <2> QED
    BY <2>3, <2>5, MSee
<1>3. ASSUME I!FillRead(w) PROVE MInv'
  <2> DEFINE s == run[w].target
             was == I!Sessions(w)[s]
  <2>1. run[w].op = "fill" /\ s \in SessionId /\ was.life # "none"
    BY <1>3, ViewOf DEF I!FillRead, I!Busy, I!Live
  <2>2. PICK seen : seen =
          [op |-> "fill", was |-> was, name |-> I!PlainName(w),
           who |-> IF was.by = {} THEN I!Who(w)
                   ELSE IF I!Cardinality(was.by) > 1 THEN I!NoOne
                   ELSE LET f == CHOOSE g \in was.by : TRUE
                        IN [f |-> f, was |-> I!People(w)[f]]]
    OBVIOUS
  <2>3. I!See(w, seen)
    BY <1>3, <2>2 DEF I!FillRead
  <2>4. /\ seen.op = "fill" /\ seen.was = was
        /\ was.by = {} => seen.who = I!Who(w)
    BY <2>2
  <2>5. run[w].session[s].life # "none" => seen.was = run[w].session[s]
    BY <2>1, <2>4, ViewOf
  <2>6. MWho(w, seen)
    <3>1. CASE was.by = {}
      BY <2>4, <3>1, Finding DEF MWho
    <3>2. CASE was.by # {} /\ seen.who = I!NoOne
      <4>1. 0 \notin FacilitatorId /\ seen.who.f = 0
        BY <3>2, PanelAssumption DEF I!ImportAssumption, I!NoOne
      <4> QED
        BY <2>4, <3>2, <4>1 DEF MWho
    <3>3. CASE was.by # {} /\ seen.who # I!NoOne
      <4>1. PICK f : seen.who = [f |-> f, was |-> I!People(w)[f]]
        BY <2>2, <3>3
      <4>2. seen.who.f = f /\ seen.who.was = I!People(w)[f]
        BY <4>1
      <4> QED
        BY <2>4, <3>3, <4>2, ReadingOne DEF MWho
    <3> QED
      BY <3>1, <3>2, <3>3
  <2>7. MKnows(w, seen)
    BY <2>1, <2>4, <2>5, <2>6 DEF MKnows
  <2> QED
    BY <2>3, <2>7, MSee
<1> QED
  BY <1>1, <1>2, <1>3

\* What a step may do to what an organizer wrote by hand.
HonoursText(w) ==
  LET seen == run[w].seen IN
  \A s \in SessionId : session[s].life # "none" /\ session[s].text = "hand" =>
    \/ run'[w].session[s] \in {I!Absent, run[w].session[s]}
    \/ run'[w].session[s].text = "hand"
    \/ seen # None /\ seen.op = "fill" /\ seen.was.text # "hand"

HonoursAnswers(w) ==
  LET seen == run[w].seen IN
  \A f \in FacilitatorId : person[f].life # "none" /\ person[f].answer = "hand" =>
    \/ run'[w].person[f] \in {I!Absent, run[w].person[f]}
    \/ run'[w].person[f].answer = "hand"
    \/ /\ seen # None /\ seen.op # "adopt" /\ seen.who.f # 0
       /\ seen.who.was.answer # "hand"

Honours(w) == HonoursText(w) /\ HonoursAnswers(w)

LEMMA QuietHonours ==
  ASSUME NEW w,
         \A s \in SessionId : run'[w].session[s] \in {I!Absent, run[w].session[s]},
         \A f \in FacilitatorId : run'[w].person[f] \in {I!Absent, run[w].person[f]}
  PROVE  Honours(w)
BY DEF Honours, HonoursText, HonoursAnswers

LEMMA AlikeHonours ==
  ASSUME NEW w, Alike(w)
  PROVE  Honours(w)
BY QuietHonours DEF Alike, Kept

LEMMA NoHand == None # "hand"
BY PanelAssumption DEF I!ImportAssumption

\* The facilitator a row attaches: whoever it was matched with, or a new one.
LEMMA Attaching ==
  ASSUME MInv, NEW w \in Web, NEW seen, run[w].seen # None, seen = run[w].seen,
         seen.op = "create" \/ (seen.op = "fill" /\ seen.was.by = {}),
         NEW f, f = IF seen.who.f # 0 THEN seen.who.f ELSE I!Min(I!NewPeople),
         seen.who.f = 0 => I!NewPeople # {},
         I!PersonFree(w, f),
         NEW plain, NEW linked
  PROVE  linked = I!Linked(w, f, seen.who.was, plain) =>
           /\ f \in FacilitatorId
           /\ MayWrite(w, f, linked)
           /\ person[f].life # "none" /\ person[f].answer = "hand" =>
                linked.answer = "hand" \/ (seen.who.f # 0 /\ seen.who.was.answer # "hand")
<1> DEFINE who == seen.who
<1>0. SUFFICES ASSUME linked = I!Linked(w, f, who.was, plain)
      PROVE  /\ f \in FacilitatorId
             /\ MayWrite(w, f, linked)
             /\ person[f].life # "none" /\ person[f].answer = "hand" =>
                  linked.answer = "hand" \/ (who.f # 0 /\ who.was.answer # "hand")
  OBVIOUS
<1>1. MWho(w, seen) /\ Matches(who, I!PersonKey(w))
  BY DEF MInv, MSeen, MKnows, MWho
<1>2. \A v \in Web \ {w} : ~Wrote(v, f)
  BY DEF I!PersonFree, Wrote
<1>3. CASE who.f = 0
  <2>1. f \in FacilitatorId /\ person[f].life = "none" /\ ~Wrote(w, f)
    BY <1>3, NewOnes
  <2>2. who.was.life = "none"
    BY <1>1, <1>3 DEF Matches
  <2>3. PICK key : key = I!PersonKey(w)
    OBVIOUS
  <2>4. PICK answer, slug : linked = [life |-> "alive", ident |-> key, slug |-> slug,
          answer |-> answer, of |-> {key} \ {None}, contested |-> FALSE]
    BY <1>0, <2>2, <2>3 DEF I!Linked, I!NewPerson
  <2> HIDE DEF who
  <2>5. Person(linked)
    BY <2>4 DEF Person, PersonFields, KeptApart
  <2>6. I!People(w)[f].life = "none"
    BY <2>1, ViewOf
  <2> QED
    BY <1>2, <2>1, <2>5, <2>6 DEF MayWrite, Keeps, who
<1>4. CASE who.f # 0
  <2>1. f = who.f /\ f \in FacilitatorId /\ who.was.life # "none"
    BY <1>1, <1>4 DEF Matches
  <2>2. /\ Stays(who.was, w, f)
        /\ Wrote(w, f) => who.was = run[w].person[f]
    BY <1>1, <2>1 DEF MWho
  <2>3. I!PersonKey(w) # None => who.was.ident \in {None, I!PersonKey(w)}
    BY <1>1, <1>4 DEF Matches
  <2>4. PICK was : was = who.was
    OBVIOUS
  <2>5. /\ linked.life # "none" /\ Person(linked)
        /\ \A x : Since(x, I!People(w)[f]) => Since(x, linked)
        /\ was.answer = "hand" => linked.answer = I!People(w)[f].answer
    <3>1. /\ was.life # "none" /\ I!People(w)[f].life # "none" /\ Since(was, I!People(w)[f])
          /\ I!PersonKey(w) # None => was.ident \in {None, I!PersonKey(w)}
      BY <2>1, <2>2, <2>3, <2>4 DEF Stays
    <3>2. linked = I!Linked(w, f, was, plain)
      BY <1>0, <2>4
    <3> HIDE DEF who
    <3>3. LET given == I!Linked(w, f, was, plain) IN
          /\ given.life # "none" /\ Person(given)
          /\ \A x : Since(x, I!People(w)[f]) => Since(x, given)
          /\ was.answer = "hand" => given.answer = I!People(w)[f].answer
      BY <2>1, <3>1, Linking
    <3> QED
      BY <3>2, <3>3
  <2>6. MayWrite(w, f, linked)
    BY <1>2, <2>5 DEF MayWrite, Keeps
  <2>7. ASSUME person[f].life # "none", person[f].answer = "hand", who.was.answer = "hand"
        PROVE  linked.answer = "hand"
    BY <2>1, <2>2, <2>4, <2>5, <2>7, ViewOf
  <2> QED
    BY <1>4, <2>1, <2>6, <2>7
<1> QED
  BY <1>3, <1>4

\* The steps that end what a request does with a row.
LEMMA RunFields ==
  ASSUME MInv, NEW w \in Web
  PROVE  DOMAIN run[w] = RequestFields /\ DOMAIN run[w].person = FacilitatorId
         /\ DOMAIN run[w].session = SessionId
BY DEF MInv, MRuns

LEMMA Passed ==
  ASSUME MInv, NEW w \in Web, NEW status, NEW s, I!Log(w, status, s, run[w])
  PROVE  MInv' /\ \A v \in Web : Honours(v)
<1>1. PICK written : written = run[w]
  OBVIOUS
<1>2. /\ MInv' /\ run'[w].person = run[w].person /\ run'[w].session = run[w].session
      /\ \A v \in Web \ {w} : Untouched(v)
  BY <1>1, RunFields, MLog
<1>3. \A v \in Web \ {w} : Honours(v)
  BY <1>2, UntouchedAlike, AlikeHonours
<1>4. Honours(w)
  BY <1>2, QuietHonours
<1> QED
  BY <1>2, <1>3, <1>4

LEMMA MAdopt ==
  ASSUME MInv, NEW w \in Web, I!AdoptWrite(w)
  PROVE  MInv' /\ \A v \in Web : Honours(v)
<1> DEFINE s == run[w].seen.s
           key == I!Row(w).key
           now == I!Sessions(w)[s]
           written == [run[w] EXCEPT !.session[s] = [now EXCEPT !.ident = key]]
<1>1. run[w].seen # None /\ run[w].seen.op = "adopt" /\ I!SessionFree(w, s)
  BY DEF I!AdoptWrite
<1>2. CASE I!Taken(I!Sessions(w), "ident", key, s) \/ s \notin I!Live(I!Sessions(w))
  <2>1. I!Log(w, "success", s, run[w])
    BY <1>2 DEF I!AdoptWrite
  <2>2. PICK x : x = s
    OBVIOUS
  <2> QED
    BY <2>1, <2>2, Passed
<1>3. CASE ~(I!Taken(I!Sessions(w), "ident", key, s) \/ s \notin I!Live(I!Sessions(w)))
  <2>1. I!Log(w, "success", s, written)
    BY <1>3 DEF I!AdoptWrite
  <2>2. s \in SessionId /\ now.life = "alive"
    BY <1>3, ViewOf DEF I!Live
  <2>3. run[w].op = "import"
    BY <1>1 DEF MInv, MSeen, MKnows
  <2>4. PICK x, new, wrote : x = s /\ new = [now EXCEPT !.ident = key] /\ wrote = written
    OBVIOUS
  <2>5. Proposed(new) /\ new.text = now.text
    BY <2>2, <2>4, ViewOf DEF Proposed, SessionFields
  <2>6. /\ DOMAIN wrote = RequestFields /\ wrote.op = run[w].op
        /\ wrote.person = run[w].person
        /\ wrote.session = [run[w].session EXCEPT ![x] = new]
    BY <2>4, RunFields DEF RequestFields
  <2>7. MayPropose(w, x, new)
    BY <1>1, <2>4, <2>5 DEF MayPropose, I!SessionFree
  <2>8. /\ MInv' /\ run'[w].person = wrote.person /\ run'[w].session = wrote.session
        /\ \A v \in Web \ {w} : Untouched(v)
    <3> HIDE DEF s, key, now, written
    <3>1. \A y \in SessionId : wrote.session[y] = run[w].session[y] \/ MayPropose(w, y, wrote.session[y])
      BY <2>6, <2>7, RunFields
    <3>2. \A f \in FacilitatorId : wrote.person[f] = run[w].person[f]
      BY <2>6
    <3>3. DOMAIN wrote.person = FacilitatorId /\ DOMAIN wrote.session = SessionId
      BY <2>6, RunFields
    <3>4. I!Log(w, "success", x, wrote)
      BY <2>1, <2>4
    <3> QED
      BY <2>6, <3>1, <3>2, <3>3, <3>4, MLog
  <2>9. HonoursText(w)
    <3>1. \A y \in SessionId : y # x => run'[w].session[y] = run[w].session[y]
      BY <2>6, <2>8, RunFields
    <3>2. run'[w].session[x] = new
      BY <2>2, <2>4, <2>6, <2>8, RunFields
    <3>3. now.text = session[s].text \/ session[s].life = "none"
      BY <2>2, <2>3, ViewOf DEF MInv, MText
    <3> QED
      BY <2>4, <2>5, <3>1, <3>2, <3>3 DEF HonoursText
  <2>10. HonoursAnswers(w)
    BY <2>6, <2>8 DEF HonoursAnswers
  <2>11. \A v \in Web \ {w} : Honours(v)
    BY <2>8, UntouchedAlike, AlikeHonours
  <2> QED
    BY <2>8, <2>9, <2>10, <2>11 DEF Honours
<1> QED
  BY <1>2, <1>3

\* A request that writes a proposal, and a facilitator or none.
LEMMA Writing ==
  ASSUME MInv, NEW w \in Web, NEW status, NEW x, NEW wrote, I!Log(w, status, x, wrote),
         NEW s, NEW new, NEW f, NEW linked, NEW named \in BOOLEAN,
         s \in SessionId => MayPropose(w, s, new),
         named /\ f \in FacilitatorId => MayWrite(w, f, linked),
         s \in SessionId /\ session[s].life # "none" /\ session[s].text = "hand" =>
           \/ new.text = "hand"
           \/ run[w].seen # None /\ run[w].seen.op = "fill" /\ run[w].seen.was.text # "hand",
         named /\ f \in FacilitatorId /\ person[f].life # "none" /\ person[f].answer = "hand" =>
           \/ linked.answer = "hand"
           \/ /\ run[w].seen # None /\ run[w].seen.op # "adopt" /\ run[w].seen.who.f # 0
              /\ run[w].seen.who.was.answer # "hand"
  PROVE  wrote = [run[w] EXCEPT
                    !.session[s] = new,
                    !.person = IF named THEN [@ EXCEPT ![f] = linked] ELSE @]
           => MInv' /\ \A v \in Web : Honours(v)
<1>0. SUFFICES ASSUME wrote = [run[w] EXCEPT
                 !.session[s] = new,
                 !.person = IF named THEN [@ EXCEPT ![f] = linked] ELSE @]
      PROVE  MInv' /\ \A v \in Web : Honours(v)
  OBVIOUS
<1>1. /\ DOMAIN wrote = RequestFields /\ wrote.op = run[w].op
      /\ wrote.person = IF named THEN [run[w].person EXCEPT ![f] = linked] ELSE run[w].person
      /\ wrote.session = [run[w].session EXCEPT ![s] = new]
  BY <1>0, RunFields DEF RequestFields
<1>2. DOMAIN wrote.person = FacilitatorId /\ DOMAIN wrote.session = SessionId
  BY <1>1, RunFields
<1>3. \A y \in SessionId : wrote.session[y] = run[w].session[y] \/ (y = s /\ wrote.session[y] = new)
  BY <1>1, RunFields
<1>4. \A g \in FacilitatorId : \/ wrote.person[g] = run[w].person[g]
                               \/ named /\ g = f /\ wrote.person[g] = linked
  BY <1>1, RunFields
<1>5. /\ MInv' /\ run'[w].person = wrote.person /\ run'[w].session = wrote.session
      /\ \A v \in Web \ {w} : Untouched(v)
  <2>1. \A y \in SessionId : \/ wrote.session[y] = run[w].session[y]
                             \/ MayPropose(w, y, wrote.session[y])
    BY <1>3
  <2>2. \A g \in FacilitatorId : \/ wrote.person[g] = run[w].person[g]
                                 \/ MayWrite(w, g, wrote.person[g])
    BY <1>4
  <2> QED
    BY <1>1, <1>2, <2>1, <2>2, MLog
<1>6. HonoursText(w)
  BY <1>3, <1>5 DEF HonoursText
<1>7. HonoursAnswers(w)
  BY <1>4, <1>5 DEF HonoursAnswers
<1>8. \A v \in Web \ {w} : Honours(v)
  BY <1>5, UntouchedAlike, AlikeHonours
<1> QED
  BY <1>5, <1>6, <1>7, <1>8 DEF Honours

LEMMA MCreate ==
  ASSUME MInv, NEW w \in Web, I!CreateWrite(w)
  PROVE  MInv' /\ \A v \in Web : Honours(v)
<1>1. PICK seen : seen = run[w].seen
  OBVIOUS
<1>2. PICK named \in BOOLEAN : named = (I!Row(w).name # None)
  OBVIOUS
<1>3. PICK f : f = IF seen.who.f # 0 THEN seen.who.f ELSE I!Min(I!NewPeople)
  OBVIOUS
<1>4. PICK s : s = I!Min(I!NewSessions)
  OBVIOUS
<1>5. PICK linked : linked = I!Linked(w, f, seen.who.was, seen.name)
  OBVIOUS
<1>6. PICK new : new = I!NewSession(IF I!Rules(w).keyed THEN I!Row(w).key ELSE None,
                        IF seen.title THEN I!Row(w).title ELSE None,
                        I!Row(w).title, I!Filled(w, None, None),
                        IF named THEN {f} ELSE {})
  OBVIOUS
<1>7. PICK wrote : wrote = [run[w] EXCEPT
                    !.session[s] = new,
                    !.person = IF named THEN [@ EXCEPT ![f] = linked] ELSE @]
  OBVIOUS
<1>8. /\ run[w].seen # None /\ seen.op = "create" /\ I!NewSessions # {}
      /\ named => /\ seen.who.f = 0 => I!NewPeople # {}
                  /\ I!PersonReady(w, f, linked)
      /\ I!Log(w, "skipped", 0, run[w]) \/ I!Log(w, "success", s, wrote)
  BY <1>1, <1>2, <1>3, <1>4, <1>5, <1>6, <1>7 DEF I!CreateWrite
<1>9. CASE I!Log(w, "skipped", 0, run[w])
  BY <1>9, Passed
<1>10. CASE I!Log(w, "success", s, wrote)
  <2>1. /\ s \in SessionId /\ session[s].life = "none"
        /\ \A v \in Web : run[v].session[s].life = "none"
    BY <1>4, <1>8, NewOnes
  <2>2. Proposed(new)
    BY <1>6 DEF I!NewSession, Proposed, SessionFields
  <2>3. MayPropose(w, s, new)
    BY <2>1, <2>2 DEF MayPropose
  <2>4. ASSUME named
        PROVE  /\ MayWrite(w, f, linked)
               /\ person[f].life # "none" /\ person[f].answer = "hand" =>
                    linked.answer = "hand" \/ (seen.who.f # 0 /\ seen.who.was.answer # "hand")
    <3>1. I!PersonFree(w, f) /\ (seen.who.f = 0 => I!NewPeople # {})
      BY <1>8, <2>4 DEF I!PersonReady
    <3>2. PICK plain : linked = I!Linked(w, f, seen.who.was, plain)
      BY <1>5
    <3>3. run[w].seen # None /\ seen.op = "create"
      BY <1>8
    <3> QED
      BY <1>1, <1>3, <3>1, <3>2, <3>3, Attaching
  <2> QED
    BY <1>1, <1>7, <1>8, <1>10, <2>1, <2>3, <2>4, Writing
<1> QED
  BY <1>8, <1>9, <1>10

LEMMA MFill ==
  ASSUME MInv, NEW w \in Web, I!FillWrite(w)
  PROVE  MInv' /\ \A v \in Web : Honours(v)
<1>1. PICK seen : seen = run[w].seen
  OBVIOUS
<1>2. PICK s : s = run[w].target
  OBVIOUS
<1>3. PICK now : now = I!Sessions(w)[s]
  OBVIOUS
<1>4. PICK attach \in BOOLEAN : attach = (seen.was.by = {} /\ I!Row(w).name # None)
  OBVIOUS
<1>5. PICK touched \in BOOLEAN : touched = (attach \/ I!Cardinality(seen.was.by) = 1)
  OBVIOUS
<1>6. PICK f : f = IF seen.who.f # 0 THEN seen.who.f ELSE I!Min(I!NewPeople)
  OBVIOUS
<1>7. PICK linked : linked =
        IF attach THEN I!Linked(w, f, seen.who.was, seen.name)
        ELSE [I!People(w)[f] EXCEPT !.answer = I!Filled(w, seen.who.was.answer, @)]
  <2>1. PICK whom : whom = I!Linked(w, f, seen.who.was, seen.name)
    OBVIOUS
  <2>2. PICK same : same =
          [I!People(w)[f] EXCEPT !.answer = I!Filled(w, seen.who.was.answer, @)]
    OBVIOUS
  <2> QED
    BY <2>1, <2>2
<1>8. PICK new : new =
        [now EXCEPT
           !.text = IF now.life = "alive" THEN I!Filled(w, seen.was.text, @) ELSE @,
           !.by = IF attach THEN {f} ELSE @]
  OBVIOUS
<1>9. PICK wrote : wrote =
        [run[w] EXCEPT
           !.session[s] = new,
           !.person = IF touched THEN [@ EXCEPT ![f] = linked] ELSE @]
  OBVIOUS
<1>10. /\ run[w].seen # None /\ seen.op = "fill" /\ I!SessionFree(w, s)
       /\ touched => /\ seen.who.f = 0 => I!NewPeople # {}
                     /\ I!PersonReady(w, f, linked)
       /\ I!Log(w, "skipped", s, run[w]) \/ I!Log(w, "success", s, wrote)
  BY <1>1, <1>2, <1>3, <1>4, <1>5, <1>6, <1>7, <1>8, <1>9 DEF I!FillWrite
<1>11. CASE I!Log(w, "skipped", s, run[w])
  BY <1>11, Passed
<1>12. CASE I!Log(w, "success", s, wrote)
  <2>1. /\ MKnows(w, seen) /\ run[w].op # "import" /\ seen.was.life # "none"
        /\ run[w].session[s].life # "none" => seen.was = run[w].session[s]
        /\ MWho(w, seen)
    BY <1>1, <1>2, <1>10 DEF MInv, MSeen, MKnows
  <2>2. ASSUME s \in SessionId
        PROVE  /\ MayPropose(w, s, new)
               /\ session[s].life # "none" /\ session[s].text = "hand" =>
                    new.text = "hand" \/ seen.was.text # "hand"
    <3>1. now = IF run[w].session[s].life = "none" THEN session[s] ELSE run[w].session[s]
      BY <1>3, <2>2, ViewOf
    <3>2. Proposed(now)
      BY <1>3, <2>2, ViewOf
    <3>3. DOMAIN new = DOMAIN now /\ (DOMAIN now = {"life"} \/ DOMAIN now = SessionFields)
      BY <1>8, <3>2 DEF Proposed
    <3>4. new.life = now.life
      BY <1>8, <3>2 DEF Proposed, SessionFields
    <3>5. Proposed(new)
      BY <3>2, <3>3, <3>4 DEF Proposed
    <3>6. MayPropose(w, s, new)
      BY <1>10, <2>1, <3>5 DEF MayPropose, I!SessionFree
    <3>7. ASSUME session[s].life # "none", session[s].text = "hand", seen.was.text = "hand"
          PROVE  new.text = "hand"
      <4>1. now.life # "none" /\ now.text = "hand"
        BY <2>1, <3>1, <3>7
      <4>2. DOMAIN now = SessionFields
        BY <3>2, <4>1 DEF Proposed
      <4>3. new.text = now.text
        BY <1>8, <3>7, <4>2, NoHand DEF SessionFields, I!Filled
      <4> QED
        BY <4>1, <4>3
    <3> QED
      BY <3>6, <3>7
  <2>3. ASSUME attach
        PROVE  /\ MayWrite(w, f, linked)
               /\ person[f].life # "none" /\ person[f].answer = "hand" =>
                    linked.answer = "hand" \/ (seen.who.f # 0 /\ seen.who.was.answer # "hand")
    <3>1. I!PersonFree(w, f) /\ (seen.who.f = 0 => I!NewPeople # {})
      BY <1>5, <1>10, <2>3 DEF I!PersonReady
    <3>2. PICK plain : linked = I!Linked(w, f, seen.who.was, plain)
      BY <1>7, <2>3
    <3>3. run[w].seen # None /\ seen.op = "fill" /\ seen.was.by = {}
      BY <1>4, <1>10, <2>3
    <3> QED
      BY <1>1, <1>6, <3>1, <3>2, <3>3, Attaching
  <2>4. ASSUME touched, ~attach, f \in FacilitatorId
        PROVE  /\ MayWrite(w, f, linked)
               /\ person[f].life # "none" /\ person[f].answer = "hand" =>
                    linked.answer = "hand" \/ (seen.who.f # 0 /\ seen.who.was.answer # "hand")
    <3>1. \A v \in Web \ {w} : ~Wrote(v, f)
      BY <1>10, <2>4 DEF I!PersonReady, I!PersonFree, Wrote
    <3>2. PICK old : old = I!People(w)[f]
      OBVIOUS
    <3>3. Person(old) /\ old = IF Wrote(w, f) THEN run[w].person[f] ELSE person[f]
      BY <2>4, <3>2, ViewOf
    <3>4. linked = [old EXCEPT !.answer = I!Filled(w, seen.who.was.answer, @)]
      BY <1>7, <2>4, <3>2
    <3>5. /\ DOMAIN linked = DOMAIN old
          /\ \A x \in DOMAIN old \ {"answer"} : linked[x] = old[x]
          /\ "answer" \in DOMAIN old => linked.answer = I!Filled(w, seen.who.was.answer, old.answer)
      BY <3>4
    <3>6. Person(linked)
      BY <3>3, <3>5 DEF Person, PersonFields, KeptApart
    <3>7. Keeps(old, linked)
      BY <3>3, <3>5 DEF Keeps, Person, PersonFields, Since
    <3>8. ASSUME person[f].life # "none", person[f].answer = "hand",
                 seen.who.f = 0 \/ seen.who.was.answer = "hand"
          PROVE  linked.answer = "hand"
      <4>1. seen.who.f # 0 /\ f = seen.who.f
        BY <1>6, <1>10, <2>4, <3>8, NewOnes
      <4>2. Wrote(w, f) => old = seen.who.was
        BY <2>1, <2>4, <3>3, <4>1 DEF MWho
      <4>3. old.life # "none" /\ old.answer = "hand"
        BY <2>4, <3>3, <3>8, <4>1, <4>2 DEF MInv, MSince
      <4>4. "answer" \in DOMAIN old
        BY <3>3, <4>3 DEF Person, PersonFields
      <4> QED
        BY <3>5, <3>8, <4>1, <4>3, <4>4, NoHand DEF I!Filled
    <3> QED
      BY <3>1, <3>2, <3>6, <3>7, <3>8 DEF MayWrite
  <2>5. s \in SessionId /\ session[s].life # "none" /\ session[s].text = "hand" =>
          \/ new.text = "hand"
          \/ run[w].seen # None /\ run[w].seen.op = "fill" /\ run[w].seen.was.text # "hand"
    BY <1>1, <1>10, <2>2
  <2>6. touched /\ f \in FacilitatorId =>
          /\ MayWrite(w, f, linked)
          /\ person[f].life # "none" /\ person[f].answer = "hand" =>
               \/ linked.answer = "hand"
               \/ /\ run[w].seen # None /\ run[w].seen.op # "adopt" /\ run[w].seen.who.f # 0
                  /\ run[w].seen.who.was.answer # "hand"
    BY <1>1, <1>10, <2>3, <2>4
  <2>7. s \in SessionId => MayPropose(w, s, new)
    BY <2>2
  <2>8. wrote = [run[w] EXCEPT
                   !.session[s] = new,
                   !.person = IF touched THEN [@ EXCEPT ![f] = linked] ELSE @]
          => MInv' /\ \A v \in Web : Honours(v)
    BY <1>12, <2>5, <2>6, <2>7, Writing
  <2> QED
    BY <1>9, <2>8
<1> QED
  BY <1>10, <1>11, <1>12

\* Requests that begin, end, or are given up.
LEMMA MBegin ==
  ASSUME MInv, NEW w \in Web, NEW todo, NEW target, I!Begin(w, todo, target)
  PROVE  MInv' /\ \A v \in Web : Honours(v)
<1> DEFINE new == [I!Idle EXCEPT !.op = IF target = 0 THEN "import" ELSE "fill",
                                 !.recipe = recipe, !.rows = sheet,
                                 !.todo = todo, !.target = target]
<1>1. run' = [run EXCEPT ![w] = new] /\ UNCHANGED <<session, person>>
  BY DEF I!Begin
<1>2. /\ DOMAIN new = RequestFields
      /\ new.person = [f \in FacilitatorId |-> I!Absent]
      /\ new.session = [s \in SessionId |-> I!Absent]
      /\ new.seen = None
  BY DEF I!Idle, RequestFields
<1> HIDE DEF new
<1>3. run'[w] = new /\ \A v \in Web \ {w} : Untouched(v)
  BY <1>1 DEF MInv, MRuns, Untouched
<1>4. MRuns'
  BY <1>1, <1>2, <1>3 DEF MInv, MRuns, Untouched
<1>5. /\ run'[w].seen = None
      /\ \A f \in FacilitatorId : run'[w].person[f] = I!Absent
      /\ \A s \in SessionId : run'[w].session[s] = I!Absent
  BY <1>2, <1>3
<1>6. MInv'
  BY <1>1, <1>3, <1>4, <1>5, AbsentRow, MFresh
<1>7. Honours(w)
  BY <1>5, QuietHonours
<1> QED
  BY <1>3, <1>6, <1>7, UntouchedAlike, AlikeHonours

LEMMA MEnds ==
  ASSUME MInv, NEW w \in Web, I!Commit(w) \/ I!Abort(w)
  PROVE  MInv' /\ \A v \in Web : Honours(v)
<1>1. /\ DOMAIN I!Idle = RequestFields
      /\ I!Idle.person = [f \in FacilitatorId |-> I!Absent]
      /\ I!Idle.session = [s \in SessionId |-> I!Absent]
      /\ I!Idle.seen = None
  BY DEF I!Idle, RequestFields
<1>2. ASSUME run'[w] = I!Idle
      PROVE  Honours(w)
  BY <1>1, <1>2, QuietHonours
<1>3. CASE I!Commit(w)
  BY <1>2, <1>3, MCommit, AlikeHonours
<1>4. CASE I!Abort(w)
  <2>1. run' = [run EXCEPT ![w] = I!Idle] /\ UNCHANGED <<session, person>>
    BY <1>4 DEF I!Abort
  <2>2. run'[w] = I!Idle /\ \A v \in Web \ {w} : Untouched(v)
    BY <2>1 DEF MInv, MRuns, Untouched
  <2>3. MRuns'
    BY <1>1, <2>1, <2>2 DEF MInv, MRuns, Untouched
  <2>4. MInv'
    BY <1>1, <2>1, <2>2, <2>3, AbsentRow, MFresh
  <2> QED
    BY <1>2, <2>2, <2>4, UntouchedAlike, AlikeHonours
<1> QED
  BY <1>3, <1>4

LEMMA MRequest ==
  ASSUME MInv, NEW w \in Web, I!Request(w)
  PROVE  MInv' /\ \A v \in Web : Honours(v)
<1>1. ASSUME NEW todo, NEW target, I!Begin(w, todo, target)
      PROVE  MInv' /\ \A v \in Web : Honours(v)
  BY <1>1, MBegin
<1>2. ASSUME NEW seen, I!See(w, seen) PROVE \A v \in Web : Honours(v)
  <2>1. \A v \in Web : run'[v].session = run[v].session /\ run'[v].person = run[v].person
    BY <1>2 DEF I!See, MInv, MRuns, RequestFields
  <2> QED
    BY <2>1, QuietHonours
<1>3. ASSUME NEW status, NEW s, I!Log(w, status, s, run[w])
      PROVE  MInv' /\ \A v \in Web : Honours(v)
  BY <1>3, Passed
<1>4. CASE I!RunAll(w) \/ I!RunSample(w)
  <2>1. PICK todo : I!Begin(w, todo, 0)
    BY <1>4 DEF I!RunAll, I!RunSample
  <2> QED
    BY <1>1, <2>1
<1>5. CASE \E i \in I!Indices : I!Retry(w, i) \/ I!Reimport(w, i)
  <2>1. PICK todo, target : I!Begin(w, todo, target)
    BY <1>5 DEF I!Retry, I!Reimport
  <2> QED
    BY <1>1, <2>1
<1>6. CASE I!RowBlank(w) \/ I!RowKnown(w) \/ I!FillBlank(w)
  <2>1. PICK status, s : I!Log(w, status, s, run[w])
    BY <1>6 DEF I!RowBlank, I!RowKnown, I!FillBlank
  <2> QED
    BY <1>3, <2>1
<1>7. CASE I!AdoptRead(w) \/ I!CreateRead(w) \/ I!FillRead(w)
  <2>1. PICK seen : I!See(w, seen)
    BY <1>7 DEF I!AdoptRead, I!CreateRead, I!FillRead
  <2> QED
    BY <1>2, <1>7, <2>1, MReads
<1> QED
  BY <1>4, <1>5, <1>6, <1>7, MAdopt, MCreate, MFill, MEnds DEF I!Request

\* What organizers change by hand.
LEMMA ByHand ==
  ASSUME MInv, run' = I!Beside(run),
         DOMAIN person' = FacilitatorId, DOMAIN session' = SessionId,
         \A f \in FacilitatorId :
           person'[f] = person[f] \/ /\ \A v \in Web : ~Wrote(v, f)
                                     /\ Person(person'[f])
                                     /\ Keeps(person[f], person'[f]),
         \A s \in SessionId :
           session'[s] = session[s] \/ /\ \A v \in Web : run[v].session[s].life = "none"
                                       /\ Proposed(session'[s])
  PROVE  MInv' /\ \A v \in Web : Honours(v)
BY BesideAlike, MCommitted, AlikeHonours

LEMMA HandEdits ==
  ASSUME MInv, NEW s, NEW new, I!EditSession(s, new), s \in I!In(session),
         \E column : new = [session[s] EXCEPT ![column] = new[column]],
         new.life # "none"
  PROVE  MInv' /\ \A v \in Web : Honours(v)
<1>1. /\ session' = [session EXCEPT ![s] = new] /\ run' = I!Beside(run)
      /\ UNCHANGED person
      /\ \A v \in Web : run[v].session[s].life = "none"
  BY PanelAssumption DEF I!EditSession, I!ByHand, I!SessionFree, I!ImportAssumption
<1>2. s \in SessionId /\ session[s].life # "none"
  BY DEF I!In, MInv, MRows
<1>3. DOMAIN new = SessionFields
  BY <1>2 DEF MInv, MRows, Proposed
<1>4. Proposed(new)
  BY <1>3 DEF Proposed
<1>5. DOMAIN person' = FacilitatorId /\ DOMAIN session' = SessionId
  BY <1>1 DEF MInv, MRows
<1>6. \A x \in SessionId : session'[x] = session[x] \/ (x = s /\ session'[x] = new)
  BY <1>1 DEF MInv, MRows
<1> QED
  BY <1>1, <1>4, <1>5, <1>6, ByHand

LEMMA HandAnswers ==
  ASSUME MInv, NEW f, NEW new, I!EditPerson(f, new), f \in I!In(person),
         \E column \in {"life", "answer"} : new = [person[f] EXCEPT ![column] = new[column]],
         new.life # "none"
  PROVE  MInv' /\ \A v \in Web : Honours(v)
<1>1. /\ person' = [person EXCEPT ![f] = new] /\ run' = I!Beside(run)
      /\ UNCHANGED session
      /\ \A v \in Web : ~Wrote(v, f)
  BY PanelAssumption DEF I!EditPerson, I!ByHand, I!PersonFree, I!ImportAssumption, Wrote
<1>2. f \in FacilitatorId /\ person[f].life # "none" /\ DOMAIN person[f] = PersonFields
      /\ KeptApart(person[f])
  BY DEF I!In, MInv, MRows, Person
<1>3. /\ DOMAIN new = PersonFields /\ new.ident = person[f].ident /\ new.of = person[f].of
      /\ new.contested = person[f].contested
  BY <1>2 DEF PersonFields
<1>4. Person(new) /\ Keeps(person[f], new)
  BY <1>2, <1>3 DEF Person, KeptApart, Keeps, Since
<1>5. DOMAIN person' = FacilitatorId /\ DOMAIN session' = SessionId
  BY <1>1 DEF MInv, MRows
<1>6. \A x \in FacilitatorId : person'[x] = person[x] \/ (x = f /\ person'[x] = new)
  BY <1>1 DEF MInv, MRows
<1> QED
  BY <1>1, <1>4, <1>5, <1>6, ByHand

LEMMA MAdd ==
  ASSUME MInv, NEW name, I!AddPerson(name)
  PROVE  MInv' /\ \A v \in Web : Honours(v)
<1>1. PICK f : f = I!Min(I!NewPeople)
  OBVIOUS
<1>2. PICK new : new = I!NewPerson(None, name, None, {})
  OBVIOUS
<1>3. /\ person' = [person EXCEPT ![f] = new] /\ run' = I!Beside(run)
      /\ UNCHANGED session /\ I!NewPeople # {}
  BY <1>1, <1>2 DEF I!AddPerson, I!ByHand
<1>4. f \in FacilitatorId /\ person[f].life = "none" /\ \A v \in Web : ~Wrote(v, f)
  BY <1>1, <1>3, NewOnes
<1>5. Person(new) /\ Keeps(person[f], new)
  BY <1>2, <1>4 DEF I!NewPerson, Person, PersonFields, KeptApart, Keeps
<1>6. DOMAIN person' = FacilitatorId /\ DOMAIN session' = SessionId
  BY <1>3 DEF MInv, MRows
<1>7. \A x \in FacilitatorId : person'[x] = person[x] \/ (x = f /\ person'[x] = new)
  BY <1>3 DEF MInv, MRows
<1> QED
  BY <1>3, <1>4, <1>5, <1>6, <1>7, ByHand

LEMMA MEdits ==
  ASSUME MInv, I!Edit \/ I!Undelete
  PROVE  MInv' /\ \A v \in Web : Honours(v)
<1>1. ASSUME NEW s \in I!In(session), NEW new, I!EditSession(s, new), NEW column,
             column \in {"text", "title", "by", "life"},
             NEW value, column = "life" => value # "none",
             new = [session[s] EXCEPT ![column] = value]
      PROVE  MInv' /\ \A v \in Web : Honours(v)
  <2>1. s \in SessionId /\ session[s].life # "none" /\ DOMAIN session[s] = SessionFields
    BY DEF I!In, MInv, MRows, Proposed
  <2>2. new[column] = value /\ new.life # "none"
    BY <1>1, <2>1 DEF SessionFields
  <2> QED
    BY <1>1, <2>2, HandEdits
<1>2. ASSUME NEW f \in I!In(person), NEW new, I!EditPerson(f, new), NEW column,
             column \in {"life", "answer"}, NEW value, column = "life" => value # "none",
             new = [person[f] EXCEPT ![column] = value]
      PROVE  MInv' /\ \A v \in Web : Honours(v)
  <2>1. f \in FacilitatorId /\ person[f].life # "none" /\ DOMAIN person[f] = PersonFields
    BY DEF I!In, MInv, MRows, Person
  <2>2. new[column] = value /\ new.life # "none"
    BY <1>2, <2>1 DEF PersonFields
  <2> QED
    BY <1>2, <2>2, HandAnswers
<1>3. CASE \E s \in I!In(session) :
        \/ I!EditText(s) \/ I!Retitle(s) \/ I!DeleteSession(s) \/ I!RestoreSession(s)
        \/ \E fs \in SUBSET I!Live(person) : I!SetPeople(s, fs)
  <2>1. PICK s \in I!In(session) : \E value : \E column \in {"text", "title", "by", "life"} :
          /\ column = "life" => value # "none"
          /\ I!EditSession(s, [session[s] EXCEPT ![column] = value])
    BY <1>3 DEF I!EditText, I!Retitle, I!DeleteSession, I!RestoreSession, I!SetPeople
  <2> QED
    BY <1>1, <2>1
<1>4. CASE \E f \in I!In(person) : I!EditAnswer(f) \/ I!DeletePerson(f) \/ I!RestorePerson(f)
  <2>1. PICK f \in I!In(person) : \E value : \E column \in {"life", "answer"} :
          /\ column = "life" => value # "none"
          /\ I!EditPerson(f, [person[f] EXCEPT ![column] = value])
    BY <1>4 DEF I!EditAnswer, I!DeletePerson, I!RestorePerson
  <2> QED
    BY <1>2, <2>1
<1>5. CASE \E i \in 1 .. Len(sheet) : I!AddPerson(sheet[i].name)
  <2>1. PICK name : I!AddPerson(name)
    BY <1>5
  <2> QED
    BY <2>1, MAdd
<1>6. CASE (\E r \in Recipes : I!Configure(r)) \/ (\E s \in Sheets : I!ChangeSheet(s))
  <2>1. run' = I!Beside(run) /\ UNCHANGED <<session, person>>
    BY <1>6 DEF I!Configure, I!ChangeSheet, I!ByHand
  <2> QED
    BY <2>1, ByHand DEF MInv, MRows
<1> QED
  BY <1>3, <1>4, <1>5, <1>6 DEF I!Edit, I!Undelete

LEMMA MNext ==
  ASSUME MInv, [Next]_vars
  PROVE  MInv' /\ \A v \in Web : Honours(v)
<1>1. CASE InImport /\ I!Next
  <2>1. CASE \E w \in Web : I!Request(w)
    BY <2>1, MRequest
  <2>2. CASE \E i \in I!Indices, keep \in BOOLEAN : I!RowGone(i, keep)
    <3>1. run' = I!Beside(run) /\ UNCHANGED <<session, person>>
      BY <2>2 DEF I!RowGone
    <3> QED
      BY <3>1, ByHand DEF MInv, MRows
  <2>3. CASE I!Edit \/ I!Undelete
    BY <2>3, MEdits
  <2> QED
    BY <1>1, <2>1, <2>2, <2>3 DEF I!Next
<1>2. CASE UNCHANGED import
  <2>1. UNCHANGED <<session, person, run>>
    BY <1>2 DEF import
  <2>2. MRuns' /\ \A v \in Web : Alike(v)
    BY <2>1 DEF MInv, MRuns, Alike, Kept
  <2>3. MInv'
    BY <2>1, <2>2, MCommitted DEF MInv, MRows
  <2> QED
    BY <2>2, <2>3, AlikeHonours
<1>3. (InImport /\ I!Next) \/ UNCHANGED import
  BY DEF Next, InFacilitators, InErrata, InGrid, vars
<1> QED
  BY <1>1, <1>2, <1>3

\* The same cardinality under the name it has in Import.
LEMMA ISets ==
  \A S : I!Cardinality(S) = Cardinality(S) /\ I!IsFiniteSet(S) = IsFiniteSet(S)
BY DEF I!Cardinality, Cardinality, I!IsFiniteSet, IsFiniteSet

LEMMA MImplies ==
  ASSUME MInv
  PROVE  PeopleKeptApart
<1> SUFFICES ASSUME NEW f \in I!In(person), ~person[f].contested
             PROVE  ~(I!Cardinality(person[f].of) > 1)
  BY DEF PeopleKeptApart, I!PeopleKeptApart
<1>1. person[f].of \subseteq {person[f].ident} \ {None}
  BY DEF MInv, MRows, Person, KeptApart, I!In
<1>2. person[f].of = {} \/ person[f].of = {person[f].ident}
  BY <1>1
<1>3. Cardinality({}) = 0 /\ Cardinality({person[f].ident}) = 1
  BY FS_EmptySet, FS_Singleton
<1> QED
  BY <1>2, <1>3, ISets

\* However runs, samples, retries and reimports cross, and whatever recipes and
\* sheets they read, two persons with keys of their own are one facilitator
\* only where two requests took the same keyless one (mills/submissions/engine.py,
\* _match_facilitator and _resolve_facilitator).
THEOREM PeopleKeptApartHolds == Spec => []PeopleKeptApart
<1>1. MInv /\ [Next]_vars => MInv'
  BY MNext
<1> QED
  BY <1>1, MInit, MImplies, PTL DEF Spec

\* What an organizer wrote by hand no import of any row writes over, unless its
\* request read the value while it was still empty (mills/submissions/engine.py,
\* _fill_empty_builtins and _save_personal_data).
THEOREM HandEditsStayHolds == Spec => HandEditsStay
<1>1. MInv /\ [Next]_vars => MInv'
  BY MNext
<1>2. MInv /\ [Next]_vars =>
        [\A w \in Web :
           LET seen == run[w].seen IN
           /\ \A s \in SessionId :
                session[s].life # "none" /\ session[s].text = "hand" =>
                  \/ run'[w].session[s] \in {I!Absent, run[w].session[s]}
                  \/ run'[w].session[s].text = "hand"
                  \/ seen # None /\ seen.op = "fill" /\ seen.was.text # "hand"
           /\ \A f \in FacilitatorId :
                person[f].life # "none" /\ person[f].answer = "hand" =>
                  \/ run'[w].person[f] \in {I!Absent, run[w].person[f]}
                  \/ run'[w].person[f].answer = "hand"
                  \/ seen # None /\ seen.op # "adopt" /\ seen.who.f # 0
                     /\ seen.who.was.answer # "hand"]_import
  BY MNext DEF Honours, HonoursText, HonoursAnswers
<1> QED
  BY <1>1, <1>2, MInit, PTL DEF Spec, HandEditsStay, I!HandEditsStay, I!vars, import

-----------------------------------------------------------------------------
\* Imports, run after run: keys and slugs are one row's, and what a run with
\* nobody beside it leaves behind, the next one finds.

Differ(a, b) == a = None \/ a # b

Apart(r, q) ==
  \/ r.life = "none" \/ q.life = "none"
  \/ Differ(r.ident, q.ident) /\ Differ(r.slug, q.slug)

\* A row as a request sees it, of a table T and what the requests W wrote.
View(T, W, w, x) == IF W[w][x].life = "none" THEN T[x] ELSE W[w][x]

UniqueRows(D, T) == \A x, y \in D : x # y => Apart(T[x], T[y])

UniqueViews(D, T, W) ==
  \A w \in Web : \A x, y \in D : x # y => Apart(View(T, W, w, x), View(T, W, w, y))

UniquePending(D, W) ==
  \A v, w \in Web : \A x, y \in D : v # w /\ x # y => Apart(W[v][x], W[w][y])

Unique(D, T, W) == UniqueRows(D, T) /\ UniqueViews(D, T, W) /\ UniquePending(D, W)

PendingSessions == [w \in Web |-> run[w].session]
PendingPeople == [w \in Web |-> run[w].person]

\* No other row a request sees or meets has the value.
Free(D, T, W, w, x, column, value) ==
  value # None =>
    \A y \in D \ {x} :
      /\ View(T, W, w, y).life # "none" => View(T, W, w, y)[column] # value
      /\ \A v \in Web \ {w} : W[v][y].life # "none" => W[v][y][column] # value

\* What a request may claim for a row: what the row has, or what is free.
MayClaim(D, T, W, w, x, new) ==
  /\ x \in D /\ new.life # "none"
  /\ \A v \in Web \ {w} : W[v][x].life = "none"
  /\ \A column \in {"ident", "slug"} :
       \/ View(T, W, w, x).life # "none" /\ new[column] = View(T, W, w, x)[column]
       \/ Free(D, T, W, w, x, column, new[column])

LEMMA ApartBothWays ==
  ASSUME NEW r, NEW q, Apart(r, q)
  PROVE  Apart(q, r)
BY DEF Apart, Differ

LEMMA ClaimApart ==
  ASSUME NEW D, NEW T, NEW W, Unique(D, T, W), NEW w \in Web, NEW x, NEW new,
         MayClaim(D, T, W, w, x, new), NEW y \in D \ {x}
  PROVE  /\ Apart(new, View(T, W, w, y))
         /\ \A v \in Web \ {w} : Apart(new, W[v][y])
<1>1. x \in D /\ x # y /\ \A v \in Web \ {w} : View(T, W, v, x) = T[x]
  BY DEF MayClaim, View
<1>2. ASSUME NEW r, r.life # "none",
             View(T, W, w, x).life # "none" => Apart(View(T, W, w, x), r),
             \A column \in {"ident", "slug"} : \A value :
               value # None /\ Free(D, T, W, w, x, column, value) => r[column] # value
      PROVE  Apart(new, r)
  <2>1. Differ(new.ident, r.ident)
    BY <1>2 DEF MayClaim, Apart, Differ
  <2>2. Differ(new.slug, r.slug)
    BY <1>2 DEF MayClaim, Apart, Differ
  <2> QED
    BY <2>1, <2>2 DEF Apart
<1>3. Apart(new, View(T, W, w, y))
  <2>1. CASE View(T, W, w, y).life = "none"
    BY <2>1 DEF Apart
  <2>2. CASE View(T, W, w, y).life # "none"
    <3>1. Apart(View(T, W, w, x), View(T, W, w, y))
      BY <1>1 DEF Unique, UniqueViews
    <3>2. \A column \in {"ident", "slug"} : \A value :
            value # None /\ Free(D, T, W, w, x, column, value) => View(T, W, w, y)[column] # value
      BY <2>2 DEF Free
    <3> QED
      BY <1>2, <2>2, <3>1, <3>2
  <2> QED
    BY <2>1, <2>2
<1>4. ASSUME NEW v \in Web \ {w}
      PROVE  Apart(new, W[v][y])
  <2>1. CASE W[v][y].life = "none"
    BY <2>1 DEF Apart
  <2>2. CASE W[v][y].life # "none"
    <3>1. Apart(View(T, W, w, x), W[v][y])
      <4>1. CASE W[w][x].life = "none"
        <5>1. View(T, W, w, x) = T[x] /\ View(T, W, v, x) = T[x] /\ View(T, W, v, y) = W[v][y]
          BY <1>1, <2>2, <4>1 DEF View
        <5>2. Apart(View(T, W, v, x), View(T, W, v, y))
          BY <1>1 DEF Unique, UniqueViews
        <5> QED
          BY <5>1, <5>2
      <4>2. CASE W[w][x].life # "none"
        <5>1. View(T, W, w, x) = W[w][x]
          BY <4>2 DEF View
        <5>2. Apart(W[w][x], W[v][y])
          BY <1>1 DEF Unique, UniquePending
        <5> QED
          BY <5>1, <5>2
      <4> QED
        BY <4>1, <4>2
    <3>2. \A column \in {"ident", "slug"} : \A value :
            value # None /\ Free(D, T, W, w, x, column, value) => W[v][y][column] # value
      BY <2>2 DEF Free
    <3> QED
      BY <1>2, <2>2, <3>1, <3>2
  <2> QED
    BY <2>1, <2>2
<1> QED
  BY <1>3, <1>4

LEMMA UniqueWrite ==
  ASSUME NEW D, NEW T, NEW W, NEW Z, Unique(D, T, W), NEW w \in Web, NEW x, NEW new,
         MayClaim(D, T, W, w, x, new),
         \A v \in Web \ {w} : Z[v] = W[v], Z[w][x] = new,
         \A y \in D \ {x} : Z[w][y] = W[w][y]
  PROVE  Unique(D, T, Z)
<1>1. /\ \A y \in D \ {x} : View(T, Z, w, y) = View(T, W, w, y)
      /\ View(T, Z, w, x) = new
      /\ \A v \in Web \ {w} : \A y \in D : View(T, Z, v, y) = View(T, W, v, y)
  BY DEF View, MayClaim
<1>2. UniqueViews(D, T, Z)
  <2> SUFFICES ASSUME NEW v \in Web, NEW a \in D, NEW b \in D, a # b
               PROVE  Apart(View(T, Z, v, a), View(T, Z, v, b))
    BY DEF UniqueViews
  <2>1. Apart(View(T, W, v, a), View(T, W, v, b))
    BY DEF Unique, UniqueViews
  <2>2. CASE v # w \/ (a # x /\ b # x)
    BY <1>1, <2>1, <2>2
  <2>3. CASE v = w /\ a = x
    BY <1>1, <2>3, ClaimApart
  <2>4. CASE v = w /\ b = x
    <3>1. Apart(new, View(T, W, w, a))
      BY <2>4, ClaimApart
    <3> QED
      BY <1>1, <2>4, <3>1, ApartBothWays
  <2> QED
    BY <2>2, <2>3, <2>4
<1>3. UniquePending(D, Z)
  <2> SUFFICES ASSUME NEW u \in Web, NEW v \in Web, NEW a \in D, NEW b \in D, u # v, a # b
               PROVE  Apart(Z[u][a], Z[v][b])
    BY DEF UniquePending
  <2>1. Apart(W[u][a], W[v][b])
    BY DEF Unique, UniquePending
  <2>2. CASE ~(u = w /\ a = x) /\ ~(v = w /\ b = x)
    <3>1. Z[u][a] = W[u][a] /\ Z[v][b] = W[v][b]
      BY <2>2
    <3> QED
      BY <2>1, <3>1
  <2>3. CASE u = w /\ a = x
    <3>1. Z[u][a] = new /\ Z[v][b] = W[v][b]
      BY <2>3
    <3> QED
      BY <2>3, <3>1, ClaimApart
  <2>4. CASE v = w /\ b = x
    <3>1. Z[v][b] = new /\ Z[u][a] = W[u][a]
      BY <2>4
    <3>2. Apart(new, W[u][a])
      BY <2>4, ClaimApart
    <3> QED
      BY <3>1, <3>2, ApartBothWays
  <2> QED
    BY <2>2, <2>3, <2>4
<1> QED
  BY <1>2, <1>3 DEF Unique

\* A request that begins, or is given up.
LEMMA UniqueFresh ==
  ASSUME NEW D, NEW T, NEW W, NEW Z, Unique(D, T, W), NEW w \in Web,
         \A v \in Web \ {w} : Z[v] = W[v], \A x \in D : Z[w][x].life = "none"
  PROVE  Unique(D, T, Z)
<1>1. UniqueViews(D, T, Z)
  <2> SUFFICES ASSUME NEW v \in Web, NEW a \in D, NEW b \in D, a # b
               PROVE  Apart(View(T, Z, v, a), View(T, Z, v, b))
    BY DEF UniqueViews
  <2>1. CASE v = w
    <3>1. View(T, Z, v, a) = T[a] /\ View(T, Z, v, b) = T[b]
      BY <2>1 DEF View
    <3> QED
      BY <3>1 DEF Unique, UniqueRows
  <2>2. CASE v # w
    <3>1. View(T, Z, v, a) = View(T, W, v, a) /\ View(T, Z, v, b) = View(T, W, v, b)
      BY <2>2 DEF View
    <3> QED
      BY <3>1 DEF Unique, UniqueViews
  <2> QED
    BY <2>1, <2>2
<1>2. UniquePending(D, Z)
  <2> SUFFICES ASSUME NEW u \in Web, NEW v \in Web, NEW a \in D, NEW b \in D, u # v, a # b
               PROVE  Apart(Z[u][a], Z[v][b])
    BY DEF UniquePending
  <2>1. CASE u # w /\ v # w
    <3>1. Z[u] = W[u] /\ Z[v] = W[v]
      BY <2>1
    <3> QED
      BY <3>1 DEF Unique, UniquePending
  <2>2. CASE u = w \/ v = w
    BY <2>2 DEF Apart
  <2> QED
    BY <2>1, <2>2
<1> QED
  BY <1>1, <1>2 DEF Unique

\* A request that commits.
LEMMA UniqueCommit ==
  ASSUME NEW D, NEW T, NEW S, NEW W, NEW Z, Unique(D, T, W), NEW w \in Web,
         \A x \in D : S[x] = View(T, W, w, x),
         \A v \in Web \ {w} : Z[v] = W[v], \A x \in D : Z[w][x].life = "none"
  PROVE  Unique(D, S, Z)
<1>1. UniqueRows(D, S)
  BY DEF Unique, UniqueViews, UniqueRows
<1>2. ASSUME NEW v \in Web \ {w}, NEW a \in D, NEW b \in D, a # b,
             W[v][a].life # "none", W[v][b].life = "none"
      PROVE  Apart(W[v][a], View(T, W, w, b))
  <2>1. CASE W[w][b].life # "none"
    <3>1. View(T, W, w, b) = W[w][b]
      BY <2>1 DEF View
    <3> QED
      BY <1>2, <3>1 DEF Unique, UniquePending
  <2>2. CASE W[w][b].life = "none"
    <3>1. View(T, W, w, b) = View(T, W, v, b) /\ View(T, W, v, a) = W[v][a]
      BY <1>2, <2>2 DEF View
    <3>2. Apart(View(T, W, v, a), View(T, W, v, b))
      BY <1>2 DEF Unique, UniqueViews
    <3> QED
      BY <3>1, <3>2
  <2> QED
    BY <2>1, <2>2
<1>3. UniqueViews(D, S, Z)
  <2> SUFFICES ASSUME NEW v \in Web, NEW a \in D, NEW b \in D, a # b
               PROVE  Apart(View(S, Z, v, a), View(S, Z, v, b))
    BY DEF UniqueViews
  <2>1. CASE v = w \/ (Z[v][a].life = "none" /\ Z[v][b].life = "none")
    <3>1. View(S, Z, v, a) = S[a] /\ View(S, Z, v, b) = S[b]
      BY <2>1 DEF View
    <3> QED
      BY <1>1, <3>1 DEF UniqueRows
  <2>2. CASE v # w /\ Z[v][a].life # "none" /\ Z[v][b].life # "none"
    <3>1. View(S, Z, v, a) = View(T, W, v, a) /\ View(S, Z, v, b) = View(T, W, v, b)
      BY <2>2 DEF View
    <3> QED
      BY <3>1 DEF Unique, UniqueViews
  <2>3. CASE v # w /\ Z[v][a].life # "none" /\ Z[v][b].life = "none"
    <3>1. View(S, Z, v, a) = W[v][a] /\ View(S, Z, v, b) = View(T, W, w, b) /\ Z[v] = W[v]
      BY <2>3 DEF View
    <3> QED
      BY <1>2, <2>3, <3>1
  <2>4. CASE v # w /\ Z[v][a].life = "none" /\ Z[v][b].life # "none"
    <3>1. View(S, Z, v, b) = W[v][b] /\ View(S, Z, v, a) = View(T, W, w, a) /\ Z[v] = W[v]
      BY <2>4 DEF View
    <3>2. Apart(W[v][b], View(T, W, w, a))
      BY <1>2, <2>4, <3>1
    <3> QED
      BY <3>1, <3>2, ApartBothWays
  <2> QED
    BY <2>1, <2>2, <2>3, <2>4
<1>4. UniquePending(D, Z)
  <2> SUFFICES ASSUME NEW u \in Web, NEW v \in Web, NEW a \in D, NEW b \in D, u # v, a # b
               PROVE  Apart(Z[u][a], Z[v][b])
    BY DEF UniquePending
  <2>1. CASE u # w /\ v # w
    <3>1. Z[u] = W[u] /\ Z[v] = W[v]
      BY <2>1
    <3> QED
      BY <3>1 DEF Unique, UniquePending
  <2>2. CASE u = w \/ v = w
    BY <2>2 DEF Apart
  <2> QED
    BY <2>1, <2>2
<1> QED
  BY <1>1, <1>3, <1>4 DEF Unique

\* Rows that are changed by hand keep their key and slug.
LEMMA UniqueByHand ==
  ASSUME NEW D, NEW T, NEW S, NEW W, Unique(D, T, W),
         \A x \in D : \/ S[x] = T[x]
                      \/ /\ T[x].life # "none"
                         /\ S[x].ident = T[x].ident /\ S[x].slug = T[x].slug
  PROVE  Unique(D, S, W)
<1>1. \A x \in D : \A r : Apart(T[x], r) => Apart(S[x], r)
  BY DEF Apart
<1>2. \A w \in Web : \A x \in D : \A r : Apart(View(T, W, w, x), r) => Apart(View(S, W, w, x), r)
  BY <1>1 DEF View
<1>3. UniqueRows(D, S)
  <2> SUFFICES ASSUME NEW a \in D, NEW b \in D, a # b
               PROVE  Apart(S[a], S[b])
    BY DEF UniqueRows
  <2>1. Apart(T[a], T[b])
    BY DEF Unique, UniqueRows
  <2>2. Apart(S[a], T[b])
    BY <1>1, <2>1
  <2>3. Apart(S[b], S[a])
    BY <1>1, <2>2, ApartBothWays
  <2> QED
    BY <2>3, ApartBothWays
<1>4. UniqueViews(D, S, W)
  <2> SUFFICES ASSUME NEW v \in Web, NEW a \in D, NEW b \in D, a # b
               PROVE  Apart(View(S, W, v, a), View(S, W, v, b))
    BY DEF UniqueViews
  <2>1. Apart(View(T, W, v, a), View(T, W, v, b))
    BY DEF Unique, UniqueViews
  <2>2. Apart(View(S, W, v, a), View(T, W, v, b))
    BY <1>2, <2>1
  <2>3. Apart(View(S, W, v, b), View(S, W, v, a))
    BY <1>2, <2>2, ApartBothWays
  <2> QED
    BY <2>3, ApartBothWays
<1> QED
  BY <1>3, <1>4 DEF Unique

\* A row nobody is writing is made, with a slug nobody has and no key.
LEMMA UniqueAdd ==
  ASSUME NEW D, NEW T, NEW S, NEW W, Unique(D, T, W), NEW x \in D,
         \A w \in Web : W[w][x].life = "none",
         \A y \in D \ {x} : S[y] = T[y],
         S[x].ident = None,
         \A y \in D \ {x} : T[y].life # "none" => T[y].slug # S[x].slug,
         \A w \in Web : \A y \in D : W[w][y].life # "none" => W[w][y].slug # S[x].slug
  PROVE  Unique(D, S, W)
<1>1. \A y \in D \ {x} : Apart(S[x], T[y])
  BY DEF Apart, Differ
<1>2. \A w \in Web : \A y \in D : W[w][y].life # "none" => Apart(S[x], W[w][y])
  BY DEF Apart, Differ
<1>3. UniqueRows(D, S)
  <2> SUFFICES ASSUME NEW a \in D, NEW b \in D, a # b
               PROVE  Apart(S[a], S[b])
    BY DEF UniqueRows
  <2>1. Apart(T[a], T[b])
    BY DEF Unique, UniqueRows
  <2> QED
    BY <1>1, <2>1, ApartBothWays
<1>4. UniqueViews(D, S, W)
  <2> SUFFICES ASSUME NEW v \in Web, NEW a \in D, NEW b \in D, a # b
               PROVE  Apart(View(S, W, v, a), View(S, W, v, b))
    BY DEF UniqueViews
  <2>1. Apart(View(T, W, v, a), View(T, W, v, b))
    BY DEF Unique, UniqueViews
  <2>2. \A y \in D \ {x} : View(S, W, v, y) = View(T, W, v, y) /\ Apart(S[x], View(S, W, v, y))
    BY <1>1, <1>2 DEF View
  <2>3. View(S, W, v, x) = S[x]
    BY DEF View
  <2> QED
    BY <2>1, <2>2, <2>3, ApartBothWays
<1> QED
  BY <1>3, <1>4 DEF Unique

-----------------------------------------------------------------------------
\* What holds of every request, unaccompanied or not: keys and slugs are one
\* row's, in what is committed, in what a request sees, and among what is
\* pending ...
NUnique ==
  /\ Unique(SessionId, session, PendingSessions)
  /\ Unique(FacilitatorId, person, PendingPeople)

Lives == {"none", "alive", "dead"}

\* ... a run of rows changes living proposals only, and deletes none ...
Living(w, s) ==
  run[w].session[s].life # "none" =>
    /\ run[w].session[s].life \in Lives
    /\ run[w].op = "import" => run[w].session[s].life = "alive" /\ session[s].life # "dead"

NLives ==
  \A s \in SessionId : session[s].life \in Lives /\ \A w \in Web : Living(w, s)

\* ... what a request has to do are rows of the sheet it read, and what it
\* fills is there.
Target(w) ==
  /\ run[w].target \in SessionId
  /\ \/ session[run[w].target].life # "none"
     \/ run[w].session[run[w].target].life # "none"

Busy(w) ==
  /\ DOMAIN run[w].entry = I!Indices
  /\ run[w].rows \in Sheets
  /\ run[w].todo \in Seq(1 .. Len(run[w].rows))
  /\ run[w].seen # None => run[w].todo # <<>> /\ (run[w].op = "fill" => Target(w))

ToDo(w) ==
  /\ run[w].op \in {"idle", "import", "fill"}
  /\ run[w].op = "idle" => run[w].seen = None
  /\ run[w].op # "idle" => Busy(w)

NTodo ==
  /\ sheet \in Sheets /\ entry = [i \in I!Indices |-> entry[i]]
  /\ \A w \in Web : ToDo(w)

NBase == NUnique /\ NLives /\ NTodo

LEMMA Pendings ==
  ASSUME MInv, NEW w \in Web
  PROVE  /\ PendingSessions[w] = run[w].session /\ PendingPeople[w] = run[w].person
         /\ \A s \in SessionId : I!Sessions(w)[s] = View(session, PendingSessions, w, s)
         /\ \A f \in FacilitatorId : I!People(w)[f] = View(person, PendingPeople, w, f)
BY ViewOf DEF PendingSessions, PendingPeople, View, Wrote

LEMMA PendingsNext ==
  ASSUME NEW w \in Web
  PROVE  PendingSessions'[w] = run'[w].session /\ PendingPeople'[w] = run'[w].person
BY DEF PendingSessions, PendingPeople

LEMMA IdleFields ==
  /\ DOMAIN I!Idle = RequestFields /\ I!Idle.op = "idle"
  /\ \A f \in FacilitatorId : I!Idle.person[f] = I!Absent
  /\ \A s \in SessionId : I!Idle.session[s] = I!Absent
  /\ I!Idle.seen = None /\ I!Idle.todo = <<>> /\ I!Idle.rows = <<>>
  /\ I!Idle.alone = TRUE
  /\ I!Idle.entry = [i \in I!Indices |-> None]
BY DEF I!Idle, RequestFields

LEMMA NBaseInit == Init => NBase
<1> SUFFICES ASSUME Init PROVE NBase
  OBVIOUS
<1>1. I!Init
  BY DEF Init
<1>2. \A f \in FacilitatorId : person[f] = I!Absent
  BY <1>1 DEF I!Init
<1>3. \A s \in SessionId : session[s] = I!Absent
  BY <1>1 DEF I!Init
<1>4. \A w \in Web : run[w] = I!Idle
  BY <1>1 DEF I!Init
<1>5. \A w \in Web : /\ \A s \in SessionId : PendingSessions[w][s].life = "none"
                     /\ \A f \in FacilitatorId : PendingPeople[w][f].life = "none"
  BY <1>4, IdleFields, AbsentRow DEF PendingSessions, PendingPeople
<1>6. NUnique
  <2>1. ASSUME NEW D, NEW T, NEW W, \A x \in D : T[x].life = "none",
               \A w \in Web : \A x \in D : W[w][x].life = "none"
        PROVE  Unique(D, T, W)
    BY <2>1 DEF Unique, UniqueRows, UniqueViews, UniquePending, View, Apart
  <2>2. Unique(SessionId, session, PendingSessions)
    BY <1>3, <1>5, <2>1, AbsentRow
  <2>3. Unique(FacilitatorId, person, PendingPeople)
    BY <1>2, <1>5, <2>1, AbsentRow
  <2> QED
    BY <2>2, <2>3 DEF NUnique
<1>7. NLives
  BY <1>3, <1>4, IdleFields, AbsentRow DEF NLives, Living, Lives
<1>8. NTodo
  BY <1>1, <1>4, IdleFields DEF I!Init, NTodo, ToDo
<1> QED
  BY <1>6, <1>7, <1>8 DEF NBase

\* Nothing is committed, and one request begins, reads, or is given up.
LEMMA NBaseFresh ==
  ASSUME MInv, NBase, NEW w \in Web, \A v \in Web \ {w} : Untouched(v),
         \A f \in FacilitatorId : run'[w].person[f].life = "none",
         \A s \in SessionId : run'[w].session[s].life = "none",
         ToDo(w)',
         UNCHANGED <<sheet, session, person, entry>>
  PROVE  NBase'
<1>1. \A v \in Web \ {w} : /\ PendingSessions'[v] = PendingSessions[v]
                           /\ PendingPeople'[v] = PendingPeople[v]
  BY Pendings, PendingsNext DEF Untouched
<1>2. /\ \A f \in FacilitatorId : PendingPeople'[w][f].life = "none"
      /\ \A s \in SessionId : PendingSessions'[w][s].life = "none"
  BY PendingsNext
<1>3. NUnique'
  <2>1. PICK Z, Y : Z = PendingSessions' /\ Y = PendingPeople'
    OBVIOUS
  <2>2. Unique(SessionId, session, Z)
    BY <1>1, <1>2, <2>1, UniqueFresh DEF NBase, NUnique
  <2>3. Unique(FacilitatorId, person, Y)
    BY <1>1, <1>2, <2>1, UniqueFresh DEF NBase, NUnique
  <2> QED
    BY <2>1, <2>2, <2>3 DEF NUnique, Unique, UniqueRows, UniqueViews, UniquePending, View
<1>4. NLives'
  BY DEF NBase, NLives, Living, Untouched
<1>5. NTodo'
  BY DEF NBase, NTodo, ToDo, Busy, Target, Untouched
<1> QED
  BY <1>3, <1>4, <1>5 DEF NBase

\* What a step leaves of a request's writes and of its rows.
SameWrites(v) ==
  /\ run'[v].session = run[v].session /\ run'[v].person = run[v].person
  /\ run'[v].op = run[v].op

LEMMA NBaseSee ==
  ASSUME MInv, NBase, NEW w \in Web, NEW seen, I!See(w, seen), run[w].todo # <<>>,
         run[w].op # "idle", run[w].op = "fill" => Target(w)
  PROVE  NBase'
<1>1. run' = [run EXCEPT ![w].seen = seen] /\ UNCHANGED <<sheet, session, person, entry>>
  BY DEF I!See
<1>2. /\ \A v \in Web : SameWrites(v)
      /\ \A v \in Web \ {w} : Untouched(v)
      /\ run'[w].rows = run[w].rows /\ run'[w].todo = run[w].todo /\ run'[w].entry = run[w].entry
      /\ run'[w].target = run[w].target
  BY <1>1 DEF MInv, MRuns, RequestFields, SameWrites, Untouched
<1>3. PendingSessions' = PendingSessions /\ PendingPeople' = PendingPeople
  BY <1>2 DEF SameWrites, PendingSessions, PendingPeople
<1>4. NUnique'
  BY <1>1, <1>3 DEF NBase, NUnique, Unique, UniqueRows, UniqueViews, UniquePending, View
<1>5. NLives'
  BY <1>1, <1>2 DEF NBase, NLives, Living, SameWrites
<1>6. NTodo'
  BY <1>1, <1>2 DEF NBase, NTodo, ToDo, Busy, Target, Untouched, SameWrites
<1> QED
  BY <1>4, <1>5, <1>6 DEF NBase

\* What a request may write of a proposal and of a facilitator.
MayClaimSession(w, s, new) ==
  /\ MayClaim(SessionId, session, PendingSessions, w, s, new)
  /\ new.life \in Lives
  /\ run[w].op = "import" => new.life = "alive" /\ session[s].life # "dead"

MayClaimPerson(w, f, new) ==
  MayClaim(FacilitatorId, person, PendingPeople, w, f, new)

\* It writes one of each at most.
SameRow(r, q) == r = q \/ (r.life = "none" /\ q.life = "none")

Claimed(w) ==
  /\ \/ run'[w].session = run[w].session
     \/ \E s \in SessionId : /\ MayClaimSession(w, s, run'[w].session[s])
                             /\ \A x \in SessionId \ {s} : run'[w].session[x] = run[w].session[x]
  /\ \/ \A x \in FacilitatorId : SameRow(run'[w].person[x], run[w].person[x])
     \/ \E f \in FacilitatorId : /\ MayClaimPerson(w, f, run'[w].person[f])
                                 /\ \A x \in FacilitatorId \ {f} :
                                      run'[w].person[x] = run[w].person[x]

\* What a log entry leaves of a request.
Ended(w) ==
  /\ run'[w].op = run[w].op /\ run'[w].recipe = run[w].recipe
  /\ run'[w].rows = run[w].rows /\ run'[w].target = run[w].target
  /\ run'[w].alone = run[w].alone
  /\ run'[w].todo = Tail(run[w].todo) /\ run'[w].seen = None

LEMMA Ending ==
  ASSUME MInv, NEW w \in Web, NEW status, NEW x, NEW written, I!Log(w, status, x, written),
         DOMAIN written = RequestFields,
         \A c \in RequestFields \ {"session", "person"} : written[c] = run[w][c]
  PROVE  /\ Ended(w)
         /\ run'[w].person = written.person /\ run'[w].session = written.session
         /\ run'[w].entry = [run[w].entry EXCEPT ![I!Index(w)] =
                               [status |-> status, session |-> x, row |-> I!Row(w)]]
         /\ \A v \in Web \ {w} : Untouched(v)
         /\ UNCHANGED <<sheet, recipe, session, person, entry, hands, imported>>
<1>1. /\ run' = [run EXCEPT ![w] =
           [written EXCEPT
              !.entry[I!Index(w)] = [status |-> status, session |-> x, row |-> I!Row(w)],
              !.todo = Tail(@), !.seen = None]]
      /\ UNCHANGED <<sheet, recipe, session, person, entry, hands, imported>>
  BY DEF I!Log
<1> HIDE DEF I!Index, I!Row
<1>2. \A v \in Web \ {w} : Untouched(v)
  BY <1>1 DEF MInv, MRuns, Untouched
<1>3. run'[w] = [written EXCEPT
              !.entry[I!Index(w)] = [status |-> status, session |-> x, row |-> I!Row(w)],
              !.todo = Tail(@), !.seen = None]
  BY <1>1 DEF MInv, MRuns
<1>4. PICK e : e = [status |-> status, session |-> x, row |-> I!Row(w)]
  OBVIOUS
<1>5. /\ run'[w].entry = [written.entry EXCEPT ![I!Index(w)] = e]
      /\ run'[w].todo = Tail(written.todo) /\ run'[w].seen = None
      /\ \A c \in RequestFields \ {"entry", "todo", "seen"} : run'[w][c] = written[c]
  BY <1>3, <1>4 DEF RequestFields
<1>6. Ended(w)
  BY <1>5 DEF Ended, RequestFields
<1>7. run'[w].person = written.person /\ run'[w].session = written.session
  BY <1>5 DEF RequestFields
<1>8. written.entry = run[w].entry
  BY DEF RequestFields
<1> QED
  BY <1>1, <1>2, <1>4, <1>5, <1>6, <1>7, <1>8

LEMMA UniqueSame ==
  ASSUME NEW D, NEW T, NEW W, NEW Z, Unique(D, T, W),
         \A v \in Web : \A x \in D : SameRow(Z[v][x], W[v][x])
  PROVE  Unique(D, T, Z)
<1>1. \A v \in Web : \A x \in D : View(T, Z, v, x) = View(T, W, v, x)
  BY DEF View, SameRow
<1>2. UniquePending(D, Z)
  <2> SUFFICES ASSUME NEW u \in Web, NEW v \in Web, NEW a \in D, NEW b \in D, u # v, a # b
               PROVE  Apart(Z[u][a], Z[v][b])
    BY DEF UniquePending
  <2>1. Apart(W[u][a], W[v][b])
    BY DEF Unique, UniquePending
  <2>2. SameRow(Z[u][a], W[u][a]) /\ SameRow(Z[v][b], W[v][b])
    OBVIOUS
  <2> QED
    BY <2>1, <2>2 DEF Apart, SameRow
<1> QED
  BY <1>1, <1>2 DEF Unique, UniqueViews

LEMMA NBaseEnded ==
  ASSUME MInv, NBase, NEW w \in Web, Ended(w), Claimed(w), run[w].op # "idle",
         run[w].todo # <<>>, DOMAIN run'[w].entry = DOMAIN run[w].entry,
         \A v \in Web \ {w} : Untouched(v),
         UNCHANGED <<sheet, session, person, entry>>
  PROVE  NBase'
<1>1. \A v \in Web \ {w} : /\ PendingSessions'[v] = PendingSessions[v]
                           /\ PendingPeople'[v] = PendingPeople[v]
  BY Pendings, PendingsNext DEF Untouched
<1>2. /\ PendingSessions[w] = run[w].session /\ PendingPeople[w] = run[w].person
      /\ PendingSessions'[w] = run'[w].session /\ PendingPeople'[w] = run'[w].person
  BY Pendings, PendingsNext
<1>3. PICK Z, Y : Z = PendingSessions' /\ Y = PendingPeople'
  OBVIOUS
<1>4. Unique(SessionId, session, Z)
  <2>1. CASE run'[w].session = run[w].session
    <3>1. \A v \in Web : Z[v] = PendingSessions[v]
      BY <1>1, <1>2, <1>3, <2>1
    <3> QED
      BY <3>1 DEF NBase, NUnique, Unique, UniqueRows, UniqueViews, UniquePending, View
  <2>2. CASE run'[w].session # run[w].session
    <3>1. PICK s \in SessionId : /\ MayClaimSession(w, s, run'[w].session[s])
                                 /\ \A x \in SessionId \ {s} : run'[w].session[x] = run[w].session[x]
      BY <2>2 DEF Claimed
    <3>2. PICK new : new = run'[w].session[s]
      OBVIOUS
    <3>3. MayClaim(SessionId, session, PendingSessions, w, s, new)
      BY <3>1, <3>2 DEF MayClaimSession
    <3>4. Z[w][s] = new /\ \A x \in SessionId \ {s} : Z[w][x] = PendingSessions[w][x]
      BY <1>2, <1>3, <3>1, <3>2
    <3> QED
      BY <1>1, <1>3, <3>3, <3>4, UniqueWrite DEF NBase, NUnique
  <2> QED
    BY <2>1, <2>2
<1>5. Unique(FacilitatorId, person, Y)
  <2>1. CASE \A x \in FacilitatorId : SameRow(run'[w].person[x], run[w].person[x])
    <3>1. \A v \in Web : \A x \in FacilitatorId : SameRow(Y[v][x], PendingPeople[v][x])
      BY <1>1, <1>2, <1>3, <2>1 DEF SameRow
    <3> QED
      BY <3>1, UniqueSame DEF NBase, NUnique
  <2>2. CASE ~(\A x \in FacilitatorId : SameRow(run'[w].person[x], run[w].person[x]))
    <3>1. PICK f \in FacilitatorId : /\ MayClaimPerson(w, f, run'[w].person[f])
                                     /\ \A x \in FacilitatorId \ {f} :
                                          run'[w].person[x] = run[w].person[x]
      BY <2>2 DEF Claimed
    <3>2. PICK new : new = run'[w].person[f]
      OBVIOUS
    <3>3. MayClaim(FacilitatorId, person, PendingPeople, w, f, new)
      BY <3>1, <3>2 DEF MayClaimPerson
    <3>4. Y[w][f] = new /\ \A x \in FacilitatorId \ {f} : Y[w][x] = PendingPeople[w][x]
      BY <1>2, <1>3, <3>1, <3>2
    <3> QED
      BY <1>1, <1>3, <3>3, <3>4, UniqueWrite DEF NBase, NUnique
  <2> QED
    BY <2>1, <2>2
<1>6. NUnique'
  BY <1>3, <1>4, <1>5 DEF NUnique, Unique, UniqueRows, UniqueViews, UniquePending, View
<1>7. NLives'
  <2> SUFFICES ASSUME NEW x \in SessionId, NEW v \in Web PROVE Living(v, x)'
    BY DEF NBase, NLives
  <2>1. Living(v, x)
    BY DEF NBase, NLives
  <2>2. CASE run'[v].session[x] = run[v].session[x] /\ run'[v].op = run[v].op
    BY <2>1, <2>2 DEF Living
  <2>3. CASE ~(run'[v].session[x] = run[v].session[x] /\ run'[v].op = run[v].op)
    <3>1. v = w
      BY <2>3 DEF Untouched
    <3>2. MayClaimSession(w, x, run'[w].session[x])
      BY <2>3, <3>1 DEF Claimed, Ended
    <3> QED
      BY <3>1, <3>2 DEF MayClaimSession, Living, Ended
  <2> QED
    BY <2>2, <2>3
<1>8. NTodo'
  <2>1. ToDo(w)
    BY DEF NBase, NTodo
  <2>2. Tail(run[w].todo) \in Seq(1 .. Len(run[w].rows))
    BY <2>1, HeadTailProperties DEF ToDo, Busy
  <2>3. ToDo(w)'
    BY <2>1, <2>2 DEF ToDo, Busy, Ended
  <2> QED
    BY <2>3 DEF NBase, NTodo, ToDo, Busy, Target, Untouched
<1> QED
  BY <1>6, <1>7, <1>8 DEF NBase

\* A request commits.
LEMMA NBaseCommit ==
  ASSUME MInv, NBase, NEW w \in Web, I!Commit(w)
  PROVE  NBase'
<1>1. /\ run' = [I!Beside(run) EXCEPT ![w] = I!Idle]
      /\ session' = I!Sessions(w) /\ person' = I!People(w)
      /\ entry' = [i \in I!Indices |-> IF run[w].entry[i] = None THEN entry[i]
                                       ELSE run[w].entry[i]]
      /\ UNCHANGED sheet
  BY DEF I!Commit
<1>2. /\ run'[w] = I!Idle
      /\ \A v \in Web \ {w} : /\ run'[v].session = run[v].session
                              /\ run'[v].person = run[v].person /\ run'[v].op = run[v].op
                              /\ run'[v].entry = run[v].entry /\ run'[v].rows = run[v].rows
                              /\ run'[v].todo = run[v].todo /\ run'[v].seen = run[v].seen
                              /\ run'[v].target = run[v].target
  BY <1>1 DEF MInv, MRuns, I!Beside, RequestFields
<1>3. /\ \A s \in SessionId : run'[w].session[s].life = "none"
      /\ \A f \in FacilitatorId : run'[w].person[f].life = "none"
      /\ run'[w].op = "idle"
  BY <1>2, IdleFields, AbsentRow
<1>4. PICK S, T, Z, Y : S = session' /\ T = person' /\ Z = PendingSessions' /\ Y = PendingPeople'
  OBVIOUS
<1>5. /\ \A v \in Web \ {w} : Z[v] = PendingSessions[v] /\ Y[v] = PendingPeople[v]
      /\ Z[w] = run'[w].session /\ Y[w] = run'[w].person
  BY <1>2, <1>4, Pendings, PendingsNext
<1>6. \A s \in SessionId : S[s] = View(session, PendingSessions, w, s)
  BY <1>1, <1>4, Pendings
<1>7. \A f \in FacilitatorId : T[f] = View(person, PendingPeople, w, f)
  BY <1>1, <1>4, Pendings
<1>8. Unique(SessionId, S, Z)
  BY <1>3, <1>5, <1>6, UniqueCommit DEF NBase, NUnique
<1>9. Unique(FacilitatorId, T, Y)
  BY <1>3, <1>5, <1>7, UniqueCommit DEF NBase, NUnique
<1>10. NUnique'
  BY <1>4, <1>8, <1>9 DEF NUnique, Unique, UniqueRows, UniqueViews, UniquePending, View
<1>11. NLives'
  <2> SUFFICES ASSUME NEW s \in SessionId
               PROVE  session'[s].life \in Lives /\ \A v \in Web : Living(v, s)'
    BY DEF NLives
  <2>1. session'[s] = IF run[w].session[s].life = "none" THEN session[s] ELSE run[w].session[s]
    BY <1>1, ViewOf
  <2>2. session[s].life \in Lives /\ \A v \in Web : Living(v, s)
    BY DEF NBase, NLives
  <2>3. session'[s].life \in Lives
    BY <2>1, <2>2 DEF Living
  <2>4. ASSUME NEW v \in Web PROVE Living(v, s)'
    <3>1. CASE v = w
      BY <1>3, <3>1 DEF Living
    <3>2. CASE v # w /\ run[v].session[s].life # "none"
      <4>1. session'[s] = session[s]
        BY <2>1, <3>2 DEF MInv, MAlone
      <4> QED
        BY <1>2, <2>2, <3>2, <4>1 DEF Living
    <3>3. CASE v # w /\ run[v].session[s].life = "none"
      BY <1>2, <3>3 DEF Living
    <3> QED
      BY <3>1, <3>2, <3>3
  <2> QED
    BY <2>3, <2>4
<1>12. NTodo'
  <2>0. ToDo(w)'
    BY <1>2, IdleFields DEF ToDo
  <2>1. ASSUME NEW v \in Web \ {w} PROVE ToDo(v)'
    <3>1. ToDo(v)
      BY DEF NBase, NTodo
    <3>2. \A s \in SessionId : session[s].life # "none" => session'[s].life # "none"
      BY <1>1, ViewOf
    <3> QED
      BY <1>2, <3>1, <3>2 DEF ToDo, Busy, Target
  <2> QED
    BY <1>1, <2>0, <2>1 DEF NBase, NTodo
<1> QED
  BY <1>10, <1>11, <1>12 DEF NBase

LEMMA BesideFields ==
  ASSUME MInv, run' = I!Beside(run)
  PROVE  \A v \in Web :
           /\ run'[v].session = run[v].session
           /\ run'[v].person = run[v].person /\ run'[v].op = run[v].op
           /\ run'[v].entry = run[v].entry /\ run'[v].rows = run[v].rows
           /\ run'[v].todo = run[v].todo /\ run'[v].seen = run[v].seen
           /\ run'[v].target = run[v].target
           /\ run'[v].alone /\ run'[v].op # "idle" => FALSE
<1>1. \A v \in Web : run'[v] = [run[v] EXCEPT !.alone = @ /\ run[v].op = "idle"]
  BY DEF I!Beside
<1>2. ASSUME NEW v \in Web PROVE run'[v].alone = (run[v].alone /\ run[v].op = "idle")
  BY <1>1 DEF MInv, MRuns, RequestFields
<1>3. \A v \in Web :
        /\ run'[v].session = run[v].session
        /\ run'[v].person = run[v].person /\ run'[v].op = run[v].op
        /\ run'[v].entry = run[v].entry /\ run'[v].rows = run[v].rows
        /\ run'[v].todo = run[v].todo /\ run'[v].seen = run[v].seen
        /\ run'[v].target = run[v].target
  <2>1. \A v \in Web : \A c \in RequestFields \ {"alone"} : run'[v][c] = run[v][c]
    BY <1>1 DEF MInv, MRuns
  <2> QED
    BY <2>1 DEF RequestFields
<1> QED
  BY <1>2, <1>3

\* What organizers change by hand: whether a proposal or a facilitator is
\* there, and what has no claim.
LEMMA NBaseHand ==
  ASSUME MInv, NBase, run' = I!Beside(run), sheet' \in Sheets,
         entry' = [i \in I!Indices |-> entry'[i]],
         Unique(FacilitatorId, person', PendingPeople),
         \A s \in SessionId :
           \/ session'[s] = session[s]
           \/ /\ \A v \in Web : run[v].session[s].life = "none"
              /\ session[s].life # "none" /\ session'[s].life \in Lives \ {"none"}
              /\ session'[s].ident = session[s].ident /\ session'[s].slug = session[s].slug
  PROVE  NBase'
<1>1. PendingSessions' = PendingSessions /\ PendingPeople' = PendingPeople
  BY BesideFields DEF PendingSessions, PendingPeople
<1>2. PICK S : S = session'
  OBVIOUS
<1>3. Unique(SessionId, S, PendingSessions)
  <2>1. \A x \in SessionId : \/ S[x] = session[x]
                             \/ /\ session[x].life # "none"
                                /\ S[x].ident = session[x].ident /\ S[x].slug = session[x].slug
    BY <1>2
  <2> QED
    BY <2>1, UniqueByHand DEF NBase, NUnique
<1>4. NUnique'
  BY <1>1, <1>2, <1>3 DEF NUnique, Unique, UniqueRows, UniqueViews, UniquePending, View
<1>5. NLives'
  BY BesideFields DEF NBase, NLives, Living
<1>6. NTodo'
  BY BesideFields DEF NBase, NTodo, ToDo, Busy, Target
<1> QED
  BY <1>4, <1>5, <1>6 DEF NBase

\* Idle requests begin with nothing written.
LEMMA Beginning ==
  ASSUME MInv, NEW w \in Web, NEW todo, NEW target, I!Begin(w, todo, target)
  PROVE  /\ run'[w].op = (IF target = 0 THEN "import" ELSE "fill")
         /\ run'[w].recipe = recipe /\ run'[w].rows = sheet
         /\ run'[w].todo = todo /\ run'[w].seen = None
         /\ run'[w].entry = [i \in I!Indices |-> None]
         /\ \A f \in FacilitatorId : run'[w].person[f] = I!Absent
         /\ \A s \in SessionId : run'[w].session[s] = I!Absent
         /\ \A v \in Web \ {w} : Untouched(v)
         /\ UNCHANGED <<sheet, recipe, session, person, entry, hands, imported>>
<1> DEFINE new == [I!Idle EXCEPT !.op = IF target = 0 THEN "import" ELSE "fill",
                                 !.recipe = recipe, !.rows = sheet,
                                 !.todo = todo, !.target = target]
<1>1. /\ run' = [run EXCEPT ![w] = new]
      /\ UNCHANGED <<sheet, recipe, session, person, entry, hands, imported>>
  BY DEF I!Begin
<1>2. /\ new.op = (IF target = 0 THEN "import" ELSE "fill")
      /\ new.recipe = recipe /\ new.rows = sheet /\ new.todo = todo /\ new.seen = None
      /\ new.entry = [i \in I!Indices |-> None]
      /\ \A f \in FacilitatorId : new.person[f] = I!Absent
      /\ \A s \in SessionId : new.session[s] = I!Absent
  BY IdleFields DEF RequestFields
<1> HIDE DEF new
<1>3. run'[w] = new /\ \A v \in Web \ {w} : Untouched(v)
  BY <1>1 DEF MInv, MRuns, Untouched
<1> QED
  BY <1>1, <1>2, <1>3

LEMMA NBaseBegin ==
  ASSUME MInv, NBase, NEW w \in Web, NEW todo \in Seq(1 .. Len(sheet)), NEW target,
         I!Begin(w, todo, target)
  PROVE  NBase'
<1>1. ToDo(w)'
  BY Beginning DEF ToDo, Busy, NBase, NTodo
<1> QED
  BY <1>1, Beginning, AbsentRow, NBaseFresh

\* What the retry of a row looks for is a row of the sheet.
LEMMA Locating ==
  ASSUME NBase, NEW i \in I!Indices, I!Located(i) # 0
  PROVE  I!Located(i) \in 1 .. Len(sheet)
<1>1. Len(sheet) \in Nat
  BY PanelAssumption DEF I!ImportAssumption, NBase, NTodo
<1>2. CASE recipe.keyed
  <2> DEFINE same == {j \in 1 .. Len(sheet) : sheet[j].key = entry[i].row.key}
  <2>1. same \in SUBSET Nat
    BY <1>1
  <2>2. same # {} => I!Min(same) \in same
    BY <2>1, NextId
  <2>3. I!Located(i) = IF same = {} THEN 0 ELSE I!Min(same)
    BY <1>2 DEF I!Located
  <2> QED
    BY <2>2, <2>3
<1>3. CASE ~recipe.keyed
  <2>1. i \in Nat /\ 1 <= i
    BY DEF I!Indices
  <2> QED
    BY <1>1, <1>3, <2>1 DEF I!Located
<1> QED
  BY <1>2, <1>3

LEMMA NBaseBegins ==
  ASSUME MInv, NBase, NEW w \in Web,
         \/ I!RunAll(w) \/ I!RunSample(w)
         \/ \E i \in I!Indices : I!Retry(w, i) \/ I!Reimport(w, i)
  PROVE  NBase' /\ \E todo \in Seq(1 .. Len(sheet)) : \E target : I!Begin(w, todo, target)
<1>1. Len(sheet) \in Nat
  BY PanelAssumption DEF I!ImportAssumption, NBase, NTodo
<1>2. \E todo \in Seq(1 .. Len(sheet)) : \E target : I!Begin(w, todo, target)
  <2>1. \A i \in 1 .. Len(sheet) : <<i>> \in Seq(1 .. Len(sheet))
    OBVIOUS
  <2>2. CASE I!RunAll(w)
    <3>1. [i \in 1 .. Len(sheet) |-> i] \in Seq(1 .. Len(sheet))
      BY <1>1, IsASeq
    <3> QED
      BY <2>2, <3>1 DEF I!RunAll
  <2>3. CASE I!RunSample(w)
    BY <2>1, <2>3 DEF I!RunSample
  <2>4. CASE \E i \in I!Indices : I!Retry(w, i) \/ I!Reimport(w, i)
    <3>1. PICK i \in I!Indices : I!Retry(w, i) \/ I!Reimport(w, i)
      BY <2>4
    <3>2. I!Located(i) # 0 /\ \E target : I!Begin(w, <<I!Located(i)>>, target)
      BY <3>1 DEF I!Retry, I!Reimport
    <3> QED
      BY <2>1, <3>2, Locating
  <2> QED
    BY <2>2, <2>3, <2>4
<1> QED
  BY <1>2, NBaseBegin

-----------------------------------------------------------------------------
\* What the constraints let through, and nobody holds back, is free.
LEMMA FreeSession ==
  ASSUME MInv, NEW w \in Web, NEW s \in SessionId, NEW column, NEW value,
         ~I!Taken(I!Sessions(w), column, value, s), I!SessionKeyFree(w, column, value)
  PROVE  Free(SessionId, session, PendingSessions, w, s, column, value)
<1> SUFFICES ASSUME value # None, NEW y \in SessionId \ {s}
             PROVE  /\ View(session, PendingSessions, w, y).life # "none" =>
                         View(session, PendingSessions, w, y)[column] # value
                    /\ \A v \in Web \ {w} : PendingSessions[v][y].life # "none" =>
                         PendingSessions[v][y][column] # value
  BY DEF Free
<1>1. I!Sessions(w)[y] = View(session, PendingSessions, w, y) /\ DOMAIN I!Sessions(w) = SessionId
  BY Pendings, ViewOf
<1>2. I!Sessions(w)[y].life # "none" => I!Sessions(w)[y][column] # value
  BY <1>1 DEF I!Taken, I!In
<1>3. ASSUME NEW v \in Web \ {w}, run[v].session[y].life # "none"
      PROVE  run[v].session[y][column] # value
  <2>1. DOMAIN run[v].session = SessionId
    BY RunFields
  <2> QED
    BY <1>3, <2>1 DEF I!SessionKeyFree, I!Claims, I!In
<1> QED
  BY <1>1, <1>2, <1>3, Pendings

LEMMA FreePerson ==
  ASSUME MInv, NEW w \in Web, NEW f \in FacilitatorId, NEW column, NEW value,
         ~I!Taken(I!People(w), column, value, f), I!PersonKeyFree(w, column, value)
  PROVE  Free(FacilitatorId, person, PendingPeople, w, f, column, value)
<1> SUFFICES ASSUME value # None, NEW y \in FacilitatorId \ {f}
             PROVE  /\ View(person, PendingPeople, w, y).life # "none" =>
                         View(person, PendingPeople, w, y)[column] # value
                    /\ \A v \in Web \ {w} : PendingPeople[v][y].life # "none" =>
                         PendingPeople[v][y][column] # value
  BY DEF Free
<1>1. I!People(w)[y] = View(person, PendingPeople, w, y) /\ DOMAIN I!People(w) = FacilitatorId
  BY Pendings, ViewOf
<1>2. I!People(w)[y].life # "none" => I!People(w)[y][column] # value
  BY <1>1 DEF I!Taken, I!In
<1>3. ASSUME NEW v \in Web \ {w}, run[v].person[y].life # "none"
      PROVE  run[v].person[y][column] # value
  <2>1. DOMAIN run[v].person = FacilitatorId
    BY RunFields
  <2> QED
    BY <1>3, <2>1 DEF I!PersonKeyFree, I!Claims, I!In
<1> QED
  BY <1>1, <1>2, <1>3, Pendings

\* A facilitator who is ready, and whom no constraint refuses.
LEMMA PersonClaimed ==
  ASSUME MInv, NEW w \in Web, NEW f \in FacilitatorId, NEW linked, linked.life # "none",
         I!PersonReady(w, f, linked), ~I!PersonRefused(w, f, linked)
  PROVE  MayClaimPerson(w, f, linked)
<1>1. \A v \in Web \ {w} : PendingPeople[v][f].life = "none"
  BY Pendings DEF I!PersonReady, I!PersonFree
<1>2. Free(FacilitatorId, person, PendingPeople, w, f, "ident", linked.ident)
  BY FreePerson DEF I!PersonReady, I!PersonRefused
<1>3. Free(FacilitatorId, person, PendingPeople, w, f, "slug", linked.slug)
  BY FreePerson DEF I!PersonReady, I!PersonRefused
<1> QED
  BY <1>1, <1>2, <1>3 DEF MayClaimPerson, MayClaim

\* What a log entry writes, and what it says of the row.
Entry(w, status, s) ==
  run'[w].entry = [run[w].entry EXCEPT ![I!Index(w)] =
                     [status |-> status, session |-> s, row |-> I!Row(w)]]

Rest(w) ==
  /\ \A v \in Web \ {w} : Untouched(v)
  /\ UNCHANGED <<sheet, recipe, session, person, entry, hands, imported>>

SameRows(w) == run'[w].session = run[w].session /\ run'[w].person = run[w].person

LEMMA EndsQuietly ==
  ASSUME MInv, NEW w \in Web, NEW status, NEW s, I!Log(w, status, s, run[w])
  PROVE  Ended(w) /\ Rest(w) /\ SameRows(w) /\ Entry(w, status, s)
<1>1. PICK written : written = run[w]
  OBVIOUS
<1>2. DOMAIN written = RequestFields /\ \A c \in RequestFields : written[c] = run[w][c]
  BY <1>1, RunFields
<1>3. /\ Ended(w)
      /\ run'[w].person = written.person /\ run'[w].session = written.session
      /\ run'[w].entry = [run[w].entry EXCEPT ![I!Index(w)] =
                            [status |-> status, session |-> s, row |-> I!Row(w)]]
      /\ \A v \in Web \ {w} : Untouched(v)
      /\ UNCHANGED <<sheet, recipe, session, person, entry, hands, imported>>
  BY <1>1, <1>2, Ending
<1> QED
  BY <1>1, <1>3 DEF Rest, SameRows, Entry

LEMMA QuietClaims ==
  ASSUME NEW w, SameRows(w)
  PROVE  Claimed(w)
BY DEF SameRows, Claimed, SameRow

\* What adopting writes.
Adopts(w, s) ==
  /\ s \in SessionId /\ I!Sessions(w)[s].life = "alive"
  /\ \A v \in Web \ {w} : run[v].session[s].life = "none"
  /\ ~I!Taken(I!Sessions(w), "ident", I!Row(w).key, s)
  /\ I!SessionKeyFree(w, "ident", I!Row(w).key)
  /\ run'[w].person = run[w].person
  /\ run'[w].session = [run[w].session EXCEPT ![s] =
                          [I!Sessions(w)[s] EXCEPT !.ident = I!Row(w).key]]

LEMMA Adopting ==
  ASSUME MInv, NEW w \in Web, I!AdoptWrite(w)
  PROVE  LET s == run[w].seen.s IN
         /\ run[w].seen # None /\ run[w].seen.op = "adopt"
         /\ Ended(w) /\ Rest(w) /\ Entry(w, "success", s)
         /\ \/ Adopts(w, s)
            \/ /\ SameRows(w)
               /\ \/ I!Taken(I!Sessions(w), "ident", I!Row(w).key, s)
                  \/ s \notin I!Live(I!Sessions(w))
<1> DEFINE s == run[w].seen.s
           key == I!Row(w).key
           now == I!Sessions(w)[s]
           written == [run[w] EXCEPT !.session[s] = [now EXCEPT !.ident = key]]
<1>1. /\ run[w].seen # None /\ run[w].seen.op = "adopt"
      /\ I!SessionFree(w, s) /\ I!SessionKeyFree(w, "ident", key)
  BY DEF I!AdoptWrite
<1>2. CASE I!Taken(I!Sessions(w), "ident", key, s) \/ s \notin I!Live(I!Sessions(w))
  <2>1. I!Log(w, "success", s, run[w])
    BY <1>2 DEF I!AdoptWrite
  <2>2. PICK x : x = s
    OBVIOUS
  <2>3. Ended(w) /\ Rest(w) /\ SameRows(w) /\ Entry(w, "success", x)
    BY <2>1, <2>2, EndsQuietly
  <2> QED
    BY <1>1, <1>2, <2>2, <2>3
<1>3. CASE ~(I!Taken(I!Sessions(w), "ident", key, s) \/ s \notin I!Live(I!Sessions(w)))
  <2>1. I!Log(w, "success", s, written)
    BY <1>3 DEF I!AdoptWrite
  <2>2. s \in SessionId /\ now.life = "alive"
    BY <1>3, ViewOf DEF I!Live
  <2>3. PICK x, new, wrote : x = s /\ new = [now EXCEPT !.ident = key] /\ wrote = written
    OBVIOUS
  <2>4. /\ DOMAIN wrote = RequestFields
        /\ \A c \in RequestFields \ {"session"} : wrote[c] = run[w][c]
        /\ wrote.session = [run[w].session EXCEPT ![x] = new]
    BY <2>3, RunFields DEF RequestFields
  <2>5. wrote.person = run[w].person
    BY <2>4 DEF RequestFields
  <2> HIDE DEF s, key, now, written
  <2>6. /\ Ended(w)
        /\ run'[w].person = wrote.person /\ run'[w].session = wrote.session
        /\ run'[w].entry = [run[w].entry EXCEPT ![I!Index(w)] =
                              [status |-> "success", session |-> x, row |-> I!Row(w)]]
        /\ \A v \in Web \ {w} : Untouched(v)
        /\ UNCHANGED <<sheet, recipe, session, person, entry, hands, imported>>
    <3>1. I!Log(w, "success", x, wrote)
      BY <2>1, <2>3
    <3>2. \A c \in RequestFields \ {"session", "person"} : wrote[c] = run[w][c]
      BY <2>4
    <3>3. DOMAIN wrote = RequestFields
      BY <2>4
    <3> HIDE <2>1, <2>2, <2>3, <2>4, <2>5, <1>1, <1>3
    <3> QED
      BY <3>1, <3>2, <3>3, Ending
  <2>7. Adopts(w, x)
    BY <1>1, <1>3, <2>2, <2>3, <2>4, <2>5, <2>6 DEF Adopts, I!SessionFree, s, key, now
  <2>8. Rest(w) /\ Entry(w, "success", x)
    BY <2>6 DEF Rest, Entry
  <2> QED
    BY <1>1, <2>3, <2>6, <2>7, <2>8 DEF s
<1> QED
  BY <1>2, <1>3

LEMMA AdoptClaims ==
  ASSUME MInv, NBase, NEW w \in Web, NEW s, Adopts(w, s), run[w].op = "import"
  PROVE  Claimed(w)
<1>1. PICK old, new : /\ old = I!Sessions(w)[s]
                      /\ new = [old EXCEPT !.ident = I!Row(w).key]
  OBVIOUS
<1>2. /\ s \in SessionId /\ old.life = "alive" /\ Proposed(old)
      /\ old = View(session, PendingSessions, w, s)
  BY <1>1, ViewOf, Pendings DEF Adopts
<1>3. new.life = "alive" /\ new.ident = I!Row(w).key /\ new.slug = old.slug
  BY <1>1, <1>2 DEF Proposed, SessionFields
<1>4. Free(SessionId, session, PendingSessions, w, s, "ident", new.ident)
  BY <1>2, <1>3, FreeSession DEF Adopts
<1>5. \A v \in Web \ {w} : PendingSessions[v][s].life = "none"
  BY Pendings DEF Adopts
<1>6. MayClaim(SessionId, session, PendingSessions, w, s, new)
  BY <1>2, <1>3, <1>4, <1>5 DEF MayClaim
<1>7. session[s].life # "dead"
  <2>1. Living(w, s)
    BY <1>2 DEF NBase, NLives
  <2>2. old = IF run[w].session[s].life = "none" THEN session[s] ELSE run[w].session[s]
    BY <1>1, <1>2, ViewOf
  <2> QED
    BY <1>2, <2>1, <2>2 DEF Living
<1>8. MayClaimSession(w, s, new)
  BY <1>3, <1>6, <1>7 DEF MayClaimSession, Lives
<1>9. run'[w].session[s] = new /\ \A x \in SessionId \ {s} : run'[w].session[x] = run[w].session[x]
  BY <1>1, <1>2, RunFields DEF Adopts
<1> QED
  BY <1>2, <1>8, <1>9 DEF Claimed, Adopts, SameRow

\* The key and the slug of a proposal that a row makes, and why it may not.
NewKey(w) == IF I!Rules(w).keyed THEN I!Row(w).key ELSE None
NewSlug(w) == IF run[w].seen.title THEN I!Row(w).title ELSE None

Refused(w, s, f, linked) ==
  \/ I!Row(w).name # None /\ I!PersonRefused(w, f, linked)
  \/ I!Taken(I!Sessions(w), "ident", NewKey(w), s)
  \/ I!Taken(I!Sessions(w), "slug", NewSlug(w), s)

\* An id of a proposal nobody has used, and whom the row names.
Unused(s) ==
  /\ s \in SessionId /\ session[s].life = "none"
  /\ \A v \in Web : run[v].session[s].life = "none"

Names(w, f, linked) ==
  LET seen == run[w].seen IN
  I!Row(w).name # None =>
    /\ f = IF seen.who.f # 0 THEN seen.who.f ELSE I!Min(I!NewPeople)
    /\ seen.who.f = 0 => I!NewPeople # {}
    /\ linked = I!Linked(w, f, seen.who.was, seen.name)

Creates(w, s) ==
  /\ run'[w].session[s].life = "alive" /\ run'[w].session[s].ident = NewKey(w)
  /\ \A x \in SessionId \ {s} : run'[w].session[x] = run[w].session[x]

LEMMA LinkedThere ==
  ASSUME MInv, NEW w \in Web, NEW f \in FacilitatorId, NEW was, NEW plain,
         was.life = "none" \/ I!People(w)[f].life # "none"
  PROVE  I!Linked(w, f, was, plain).life # "none"
<1>1. CASE was.life = "none"
  BY <1>1 DEF I!Linked, I!NewPerson
<1>2. CASE was.life # "none" /\ I!People(w)[f].life # "none"
  <2>1. PICK now : now = I!People(w)[f]
    OBVIOUS
  <2>2. DOMAIN now = PersonFields
    BY <1>2, <2>1, ViewOf DEF Person
  <2>3. PICK key : key = I!PersonKey(w)
    OBVIOUS
  <2>4. I!Linked(w, f, was, plain) = [now EXCEPT
          !.life = "alive",
          !.ident = IF was.ident = None /\ key # None THEN key ELSE @,
          !.contested = @ \/ (was.ident = None /\ key # None /\ now.ident \notin {None, key}),
          !.answer = I!Filled(w, was.answer, @),
          !.of = @ \cup ({key} \ {None})]
    BY <1>2, <2>1, <2>3 DEF I!Linked
  <2>5. I!Linked(w, f, was, plain).life = "alive"
    BY <2>2, <2>4 DEF PersonFields
  <2> QED
    BY <2>5
<1> QED
  BY <1>1, <1>2

\* Whom a row links may be claimed, unless a constraint refuses.
LEMMA LinkClaims ==
  ASSUME MInv, NEW w \in Web, NEW seen, run[w].seen # None, seen = run[w].seen,
         seen.op = "create" \/ (seen.op = "fill" /\ seen.was.by = {}),
         NEW f, f = IF seen.who.f # 0 THEN seen.who.f ELSE I!Min(I!NewPeople),
         seen.who.f = 0 => I!NewPeople # {},
         NEW linked, linked = I!Linked(w, f, seen.who.was, seen.name),
         I!PersonReady(w, f, linked), ~I!PersonRefused(w, f, linked)
  PROVE  f \in FacilitatorId /\ MayClaimPerson(w, f, linked)
<1>1. MWho(w, seen) /\ Matches(seen.who, I!PersonKey(w))
  BY DEF MInv, MSeen, MKnows, MWho
<1>2. f \in FacilitatorId /\ (seen.who.was.life = "none" \/ I!People(w)[f].life # "none")
  BY <1>1, NewOnes DEF MWho, Matches, Stays
<1>3. linked.life # "none"
  BY <1>2, LinkedThere
<1> QED
  BY <1>2, <1>3, PersonClaimed

LEMMA Creating ==
  ASSUME MInv, NBase, NEW w \in Web, I!CreateWrite(w)
  PROVE  /\ run[w].seen # None /\ run[w].seen.op = "create"
         /\ Ended(w) /\ Rest(w)
         /\ \E s, f, linked :
              /\ Unused(s) /\ Names(w, f, linked)
              /\ \/ Refused(w, s, f, linked) /\ SameRows(w) /\ Entry(w, "skipped", 0)
                 \/ ~Refused(w, s, f, linked) /\ Creates(w, s) /\ Entry(w, "success", s)
                    /\ Claimed(w)
<1>1. PICK seen : seen = run[w].seen
  OBVIOUS
<1>2. PICK named \in BOOLEAN : named = (I!Row(w).name # None)
  OBVIOUS
<1>3. PICK f : f = IF seen.who.f # 0 THEN seen.who.f ELSE I!Min(I!NewPeople)
  OBVIOUS
<1>4. PICK s : s = I!Min(I!NewSessions)
  OBVIOUS
<1>5. PICK linked : linked = I!Linked(w, f, seen.who.was, seen.name)
  OBVIOUS
<1>6. PICK new : new = I!NewSession(IF I!Rules(w).keyed THEN I!Row(w).key ELSE None,
                        IF seen.title THEN I!Row(w).title ELSE None,
                        I!Row(w).title, I!Filled(w, None, None),
                        IF named THEN {f} ELSE {})
  OBVIOUS
<1>7. PICK wrote : wrote = [run[w] EXCEPT
                    !.session[s] = new,
                    !.person = IF named THEN [@ EXCEPT ![f] = linked] ELSE @]
  OBVIOUS
<1>8. new.ident = NewKey(w) /\ new.slug = NewSlug(w) /\ new.life = "alive"
  BY <1>1, <1>6 DEF I!NewSession, NewKey, NewSlug
<1>9. PICK refused \in BOOLEAN : refused = (\/ named /\ I!PersonRefused(w, f, linked)
                 \/ I!Taken(I!Sessions(w), "ident", new.ident, s)
                 \/ I!Taken(I!Sessions(w), "slug", new.slug, s))
  OBVIOUS
<1>10. /\ run[w].seen # None /\ seen.op = "create" /\ I!NewSessions # {}
       /\ named => /\ seen.who.f = 0 => I!NewPeople # {}
                   /\ I!PersonReady(w, f, linked)
       /\ I!SessionKeyFree(w, "ident", new.ident)
       /\ I!SessionKeyFree(w, "slug", new.slug)
       /\ refused => I!Log(w, "skipped", 0, run[w])
       /\ ~refused => I!Log(w, "success", s, wrote)
  BY <1>1, <1>2, <1>3, <1>4, <1>5, <1>6, <1>7, <1>9 DEF I!CreateWrite
<1>11. refused <=> Refused(w, s, f, linked)
  BY <1>2, <1>8, <1>9 DEF Refused
<1>12. Names(w, f, linked)
  BY <1>1, <1>2, <1>3, <1>5, <1>10 DEF Names
<1>13. Unused(s)
  BY <1>4, <1>10, NewOnes DEF Unused
<1>14. CASE refused
  <2>1. Ended(w) /\ Rest(w) /\ SameRows(w) /\ Entry(w, "skipped", 0)
    BY <1>10, <1>14, EndsQuietly
  <2> QED
    BY <1>1, <1>10, <1>11, <1>12, <1>13, <1>14, <2>1
<1>15. CASE ~refused
  <2>1. /\ DOMAIN wrote = RequestFields
        /\ \A c \in RequestFields \ {"session", "person"} : wrote[c] = run[w][c]
        /\ wrote.session = [run[w].session EXCEPT ![s] = new]
        /\ wrote.person = IF named THEN [run[w].person EXCEPT ![f] = linked] ELSE run[w].person
    BY <1>7, RunFields DEF RequestFields
  <2>2. /\ Ended(w)
        /\ run'[w].person = wrote.person /\ run'[w].session = wrote.session
        /\ run'[w].entry = [run[w].entry EXCEPT ![I!Index(w)] =
                              [status |-> "success", session |-> s, row |-> I!Row(w)]]
        /\ \A v \in Web \ {w} : Untouched(v)
        /\ UNCHANGED <<sheet, recipe, session, person, entry, hands, imported>>
    <3>1. I!Log(w, "success", s, wrote)
      BY <1>10, <1>15
    <3>2. /\ DOMAIN wrote = RequestFields
          /\ \A c \in RequestFields \ {"session", "person"} : wrote[c] = run[w][c]
      BY <2>1
    <3> HIDE <1>1, <1>3, <1>4, <1>5, <1>6, <1>7, <1>8, <1>9, <1>10, <2>1
    <3> QED
      BY <3>1, <3>2, Ending
  <2>3. Rest(w) /\ Entry(w, "success", s)
    BY <2>2 DEF Rest, Entry
  <2>4. /\ s \in SessionId
        /\ run'[w].session[s] = new
        /\ \A x \in SessionId \ {s} : run'[w].session[x] = run[w].session[x]
    BY <1>13, <2>1, <2>2, RunFields DEF Unused
  <2>5. Creates(w, s)
    BY <1>8, <2>4 DEF Creates
  <2>6. MayClaimSession(w, s, new)
    <3>1. ~I!Taken(I!Sessions(w), "ident", new.ident, s)
          /\ ~I!Taken(I!Sessions(w), "slug", new.slug, s)
      BY <1>9, <1>15
    <3>2. Free(SessionId, session, PendingSessions, w, s, "ident", new.ident)
          /\ Free(SessionId, session, PendingSessions, w, s, "slug", new.slug)
      BY <1>10, <2>4, <3>1, FreeSession
    <3>3. \A v \in Web \ {w} : PendingSessions[v][s].life = "none"
      BY <1>13, Pendings DEF Unused
    <3> QED
      BY <1>8, <1>13, <2>4, <3>2, <3>3 DEF MayClaimSession, MayClaim, Lives, Unused
  <2>7. named => f \in FacilitatorId /\ MayClaimPerson(w, f, linked)
    <3>1. named => I!PersonReady(w, f, linked) /\ ~I!PersonRefused(w, f, linked)
                   /\ (seen.who.f = 0 => I!NewPeople # {})
      BY <1>9, <1>10, <1>15
    <3> QED
      BY <1>1, <1>3, <1>5, <1>10, <3>1, LinkClaims
  <2>8. CASE named
    <3>1. /\ run'[w].person[f] = linked
          /\ \A x \in FacilitatorId \ {f} : run'[w].person[x] = run[w].person[x]
      BY <2>1, <2>2, <2>7, <2>8, RunFields
    <3>2. Claimed(w)
      BY <2>4, <2>6, <2>7, <2>8, <3>1 DEF Claimed
    <3> QED
      BY <1>1, <1>10, <1>11, <1>12, <1>13, <1>15, <2>2, <2>3, <2>5, <3>2
  <2>9. CASE ~named
    <3>1. run'[w].person = run[w].person
      BY <2>1, <2>2, <2>9
    <3>2. Claimed(w)
      BY <2>4, <2>6, <3>1 DEF Claimed, SameRow
    <3> QED
      BY <1>1, <1>10, <1>11, <1>12, <1>13, <1>15, <2>2, <2>3, <2>5, <3>2
  <2> QED
    BY <2>8, <2>9
<1> QED
  BY <1>14, <1>15

\* A row of a proposal that is there already fills what is empty.
LEMMA Filling ==
  ASSUME MInv, NBase, NEW w \in Web, I!FillWrite(w)
  PROVE  run[w].seen # None /\ Ended(w) /\ Rest(w) /\ Claimed(w)
         /\ run[w].op # "import" /\ DOMAIN run'[w].entry = DOMAIN run[w].entry
<1>1. PICK seen : seen = run[w].seen
  OBVIOUS
<1>2. PICK s : s = run[w].target
  OBVIOUS
<1>3. PICK now : now = I!Sessions(w)[s]
  OBVIOUS
<1>4. PICK attach \in BOOLEAN : attach = (seen.was.by = {} /\ I!Row(w).name # None)
  OBVIOUS
<1>5. PICK touched \in BOOLEAN : touched = (attach \/ I!Cardinality(seen.was.by) = 1)
  OBVIOUS
<1>6. PICK f : f = IF seen.who.f # 0 THEN seen.who.f ELSE I!Min(I!NewPeople)
  OBVIOUS
<1>7. PICK linked : linked =
        IF attach THEN I!Linked(w, f, seen.who.was, seen.name)
        ELSE [I!People(w)[f] EXCEPT !.answer = I!Filled(w, seen.who.was.answer, @)]
  <2>1. PICK whom : whom = I!Linked(w, f, seen.who.was, seen.name)
    OBVIOUS
  <2>2. PICK same : same =
          [I!People(w)[f] EXCEPT !.answer = I!Filled(w, seen.who.was.answer, @)]
    OBVIOUS
  <2> QED
    BY <2>1, <2>2
<1>8. PICK new : new =
        [now EXCEPT
           !.text = IF now.life = "alive" THEN I!Filled(w, seen.was.text, @) ELSE @,
           !.by = IF attach THEN {f} ELSE @]
  OBVIOUS
<1>9. PICK wrote : wrote = [run[w] EXCEPT
                    !.session[s] = new,
                    !.person = IF touched THEN [@ EXCEPT ![f] = linked] ELSE @]
  OBVIOUS
<1>10. /\ run[w].seen # None /\ seen.op = "fill" /\ I!SessionFree(w, s)
       /\ touched => /\ seen.who.f = 0 => I!NewPeople # {}
                     /\ I!PersonReady(w, f, linked)
       /\ \/ I!Log(w, "skipped", s, run[w])
          \/ ~(touched /\ I!PersonRefused(w, f, linked)) /\ I!Log(w, "success", s, wrote)
  BY <1>1, <1>2, <1>3, <1>4, <1>5, <1>6, <1>7, <1>8, <1>9 DEF I!FillWrite
<1>11. run[w].op # "import" /\ MWho(w, seen)
  BY <1>1, <1>10 DEF MInv, MSeen, MKnows
<1>12. CASE I!Log(w, "skipped", s, run[w])
  <2>1. Ended(w) /\ Rest(w) /\ SameRows(w) /\ Entry(w, "skipped", s)
    BY <1>12, EndsQuietly
  <2> QED
    BY <1>1, <1>10, <1>11, <2>1, QuietClaims DEF Entry
<1>13. CASE ~(touched /\ I!PersonRefused(w, f, linked)) /\ I!Log(w, "success", s, wrote)
  <2>1. /\ DOMAIN wrote = RequestFields
        /\ \A c \in RequestFields \ {"session", "person"} : wrote[c] = run[w][c]
        /\ wrote.session = [run[w].session EXCEPT ![s] = new]
        /\ wrote.person = IF touched THEN [run[w].person EXCEPT ![f] = linked] ELSE run[w].person
    BY <1>9, RunFields DEF RequestFields
  <2>2. /\ Ended(w)
        /\ run'[w].person = wrote.person /\ run'[w].session = wrote.session
        /\ run'[w].entry = [run[w].entry EXCEPT ![I!Index(w)] =
                              [status |-> "success", session |-> s, row |-> I!Row(w)]]
        /\ \A v \in Web \ {w} : Untouched(v)
        /\ UNCHANGED <<sheet, recipe, session, person, entry, hands, imported>>
    <3>1. I!Log(w, "success", s, wrote)
      BY <1>13
    <3>2. /\ DOMAIN wrote = RequestFields
          /\ \A c \in RequestFields \ {"session", "person"} : wrote[c] = run[w][c]
      BY <2>1
    <3> HIDE <1>1, <1>2, <1>3, <1>4, <1>5, <1>6, <1>7, <1>8, <1>9, <1>10, <1>13, <2>1
    <3> QED
      BY <3>1, <3>2, Ending
  <2>3. Rest(w)
    BY <2>2 DEF Rest
  <2>4. /\ s \in SessionId
        /\ now = View(session, PendingSessions, w, s) /\ now.life # "none" /\ Proposed(now)
        /\ now.life \in Lives
    <3>1. Busy(w) /\ run[w].op = "fill"
      BY <1>1, <1>10, <1>11 DEF NBase, NTodo, ToDo
    <3>2. s \in SessionId /\ (session[s].life # "none" \/ run[w].session[s].life # "none")
      BY <1>1, <1>2, <1>10, <3>1 DEF Busy, Target
    <3>3. now = IF run[w].session[s].life = "none" THEN session[s] ELSE run[w].session[s]
      BY <1>3, <3>2, ViewOf
    <3>4. session[s].life \in Lives /\ Living(w, s)
      BY <3>2 DEF NBase, NLives
    <3> QED
      BY <1>3, <3>2, <3>3, <3>4, ViewOf, Pendings DEF Living
  <2>5. new.life = now.life /\ new.ident = now.ident /\ new.slug = now.slug
    BY <1>8, <2>4 DEF Proposed, SessionFields
  <2>6. MayClaimSession(w, s, new)
    <3>1. \A v \in Web \ {w} : PendingSessions[v][s].life = "none"
      BY <1>10, Pendings DEF I!SessionFree
    <3> QED
      BY <1>11, <2>4, <2>5, <3>1 DEF MayClaimSession, MayClaim
  <2>7. /\ run'[w].session[s] = new
        /\ \A x \in SessionId \ {s} : run'[w].session[x] = run[w].session[x]
    BY <2>1, <2>2, <2>4, RunFields
  <2>8. CASE ~touched
    BY <1>10, <1>1, <1>11, <2>1, <2>2, <2>3, <2>4, <2>6, <2>7, <2>8 DEF Claimed, SameRow
  <2>9. CASE touched
    <3>1. I!PersonReady(w, f, linked) /\ ~I!PersonRefused(w, f, linked)
          /\ (seen.who.f = 0 => I!NewPeople # {})
      BY <1>10, <1>13, <2>9
    <3>2. ASSUME f \in FacilitatorId /\ (attach \/ I!People(w)[f].life # "none") PROVE Claimed(w)
      <4>1. MayClaimPerson(w, f, linked)
        <5>1. CASE attach
          <6>1. seen.was.by = {} /\ linked = I!Linked(w, f, seen.who.was, seen.name)
            BY <1>4, <1>7, <5>1
          <6> QED
            BY <1>1, <1>6, <1>10, <3>1, <6>1, LinkClaims
        <5>2. CASE ~attach
          <6>1. PICK old : old = I!People(w)[f]
            OBVIOUS
          <6>2. DOMAIN old = PersonFields /\ old.life # "none"
            BY <3>2, <5>2, <6>1, ViewOf DEF Person
          <6>3. linked = [old EXCEPT !.answer = I!Filled(w, seen.who.was.answer, @)]
            BY <1>7, <5>2, <6>1
          <6>4. linked.life = old.life
            BY <6>2, <6>3 DEF PersonFields
          <6> QED
            BY <3>1, <3>2, <6>2, <6>4, PersonClaimed
        <5> QED
          BY <5>1, <5>2
      <4>2. /\ run'[w].person[f] = linked
            /\ \A x \in FacilitatorId \ {f} : run'[w].person[x] = run[w].person[x]
        BY <2>1, <2>2, <2>9, <3>2, RunFields
      <4> QED
        BY <2>4, <2>6, <2>7, <3>2, <4>1, <4>2 DEF Claimed
    <3>3. ASSUME f \in FacilitatorId /\ ~attach /\ I!People(w)[f].life = "none" PROVE Claimed(w)
      <4>1. PICK old : old = I!People(w)[f]
        OBVIOUS
      <4>2. DOMAIN old = {"life"} /\ old.life = "none" /\ run[w].person[f].life = "none"
        BY <3>3, <4>1, ViewOf DEF Person, Wrote
      <4>3. linked = [old EXCEPT !.answer = I!Filled(w, seen.who.was.answer, @)]
        BY <1>7, <3>3, <4>1
      <4>4. linked.life = "none"
        BY <4>2, <4>3
      <4>5. \A x \in FacilitatorId : SameRow(run'[w].person[x], run[w].person[x])
        BY <2>1, <2>2, <2>9, <4>2, <4>4, RunFields DEF SameRow
      <4> QED
        BY <2>4, <2>6, <2>7, <4>5 DEF Claimed
    <3>4. ASSUME f \notin FacilitatorId PROVE Claimed(w)
      <4>1. \A x \in FacilitatorId : SameRow(run'[w].person[x], run[w].person[x])
        BY <2>1, <2>2, <2>9, <3>4, RunFields DEF SameRow
      <4> QED
        BY <2>4, <2>6, <2>7, <4>1 DEF Claimed
    <3>5. Claimed(w)
      BY <3>2, <3>3, <3>4
    <3> QED
      BY <1>1, <1>10, <1>11, <2>2, <2>3, <3>5
  <2> QED
    BY <2>8, <2>9
<1> QED
  BY <1>10, <1>12, <1>13

LEMMA SeenBusy ==
  ASSUME NBase, NEW w \in Web, run[w].seen # None
  PROVE  run[w].op # "idle" /\ run[w].todo # <<>> /\ Busy(w)
BY DEF NBase, NTodo, ToDo, Busy

LEMMA NBaseWrites ==
  ASSUME MInv, NBase, NEW w \in Web,
         \/ I!RowBlank(w) \/ I!RowKnown(w) \/ I!FillBlank(w)
         \/ I!AdoptWrite(w) \/ I!CreateWrite(w) \/ I!FillWrite(w)
  PROVE  NBase'
<1>1. ASSUME Ended(w), Rest(w), Claimed(w), run[w].op # "idle", run[w].todo # <<>>,
             DOMAIN run'[w].entry = DOMAIN run[w].entry
      PROVE  NBase'
  BY <1>1, NBaseEnded DEF Rest
<1>2. ASSUME NEW status, NEW s, Entry(w, status, s)
      PROVE  DOMAIN run'[w].entry = DOMAIN run[w].entry
  BY <1>2 DEF Entry
<1>3. CASE I!RowBlank(w) \/ I!RowKnown(w) \/ I!FillBlank(w)
  <2>1. PICK status, s : I!Log(w, status, s, run[w])
    BY <1>3 DEF I!RowBlank, I!RowKnown, I!FillBlank
  <2>2. run[w].op # "idle" /\ run[w].todo # <<>>
    BY <1>3 DEF I!RowBlank, I!RowKnown, I!FillBlank, I!Busy
  <2>3. Ended(w) /\ Rest(w) /\ SameRows(w) /\ Entry(w, status, s)
    BY <2>1, EndsQuietly
  <2> QED
    BY <1>1, <1>2, <2>2, <2>3, QuietClaims
<1>4. CASE I!AdoptWrite(w)
  <2>1. PICK s : s = run[w].seen.s
    OBVIOUS
  <2>2. /\ run[w].seen # None /\ run[w].seen.op = "adopt"
        /\ Ended(w) /\ Rest(w) /\ Entry(w, "success", s)
        /\ Adopts(w, s) \/ SameRows(w)
    BY <1>4, <2>1, Adopting
  <2>3. run[w].op = "import"
    BY <2>2 DEF MInv, MSeen, MKnows
  <2> QED
    BY <1>1, <1>2, <2>2, <2>3, SeenBusy, AdoptClaims, QuietClaims
<1>5. CASE I!CreateWrite(w)
  <2>1. /\ run[w].seen # None /\ Ended(w) /\ Rest(w) /\ Claimed(w)
        /\ \E status, s : Entry(w, status, s)
    BY <1>5, Creating, QuietClaims
  <2> QED
    BY <1>1, <1>2, <2>1, SeenBusy
<1>6. CASE I!FillWrite(w)
  BY <1>1, <1>6, Filling, SeenBusy
<1> QED
  BY <1>3, <1>4, <1>5, <1>6

LEMMA NBaseReads ==
  ASSUME MInv, NBase, NEW w \in Web, I!AdoptRead(w) \/ I!CreateRead(w) \/ I!FillRead(w)
  PROVE  NBase'
<1>1. PICK seen : I!See(w, seen)
  BY DEF I!AdoptRead, I!CreateRead, I!FillRead
<1>2. run[w].todo # <<>> /\ run[w].op # "idle"
  BY DEF I!AdoptRead, I!CreateRead, I!FillRead, I!Busy
<1>3. ASSUME run[w].op = "fill" PROVE Target(w)
  <2>1. run[w].target \in I!Live(I!Sessions(w))
    BY <1>3 DEF I!AdoptRead, I!CreateRead, I!FillRead, I!Busy
  <2>2. run[w].target \in SessionId /\ I!Sessions(w)[run[w].target].life # "none"
    BY <2>1, ViewOf DEF I!Live
  <2> QED
    BY <2>2, ViewOf DEF Target
<1> QED
  BY <1>1, <1>2, <1>3, NBaseSee

LEMMA NBaseAbort ==
  ASSUME MInv, NBase, NEW w \in Web, I!Abort(w)
  PROVE  NBase'
<1>1. /\ run' = [run EXCEPT ![w] = I!Idle]
      /\ UNCHANGED <<sheet, recipe, session, person, entry, hands, imported>>
  BY DEF I!Abort
<1>2. run'[w] = I!Idle /\ \A v \in Web \ {w} : Untouched(v)
  BY <1>1 DEF MInv, MRuns, Untouched
<1>3. ToDo(w)'
  BY <1>2, IdleFields DEF ToDo
<1> QED
  BY <1>1, <1>2, <1>3, IdleFields, AbsentRow, NBaseFresh

LEMMA NBaseRequest ==
  ASSUME MInv, NBase, NEW w \in Web, I!Request(w)
  PROVE  NBase'
BY NBaseBegins, NBaseWrites, NBaseReads, NBaseCommit, NBaseAbort DEF I!Request

\* What organizers change by hand.
LEMMA HandSession ==
  ASSUME MInv, NBase, NEW s \in I!In(session), NEW new, I!EditSession(s, new), NEW column,
         column \in {"text", "title", "by", "life"},
         NEW value, column = "life" => value \in Lives \ {"none"},
         new = [session[s] EXCEPT ![column] = value]
  PROVE  NBase'
<1>1. /\ session' = [session EXCEPT ![s] = new] /\ run' = I!Beside(run)
      /\ UNCHANGED <<person, sheet, entry>>
      /\ \A v \in Web : run[v].session[s].life = "none"
  BY PanelAssumption DEF I!EditSession, I!ByHand, I!SessionFree, I!ImportAssumption
<1>2. /\ s \in SessionId /\ session[s].life # "none" /\ DOMAIN session[s] = SessionFields
      /\ session[s].life \in Lives
  BY DEF I!In, MInv, MRows, Proposed, NBase, NLives
<1>3. new.ident = session[s].ident /\ new.slug = session[s].slug /\ new.life \in Lives \ {"none"}
  BY <1>2 DEF SessionFields
<1>4. \A x \in SessionId : session'[x] = session[x] \/ (x = s /\ session'[x] = new)
  BY <1>1 DEF MInv, MRows
<1>5. sheet' \in Sheets /\ entry' = [i \in I!Indices |-> entry'[i]]
      /\ Unique(FacilitatorId, person', PendingPeople)
  BY <1>1 DEF NBase, NTodo, NUnique
<1> QED
  BY <1>1, <1>2, <1>3, <1>4, <1>5, NBaseHand

LEMMA HandPerson ==
  ASSUME MInv, NBase, NEW f \in I!In(person), NEW new, I!EditPerson(f, new), NEW column,
         column \in {"life", "answer"}, NEW value, new = [person[f] EXCEPT ![column] = value]
  PROVE  NBase'
<1>1. /\ person' = [person EXCEPT ![f] = new] /\ run' = I!Beside(run)
      /\ UNCHANGED <<session, sheet, entry>>
  BY DEF I!EditPerson, I!ByHand
<1>2. f \in FacilitatorId /\ person[f].life # "none" /\ DOMAIN person[f] = PersonFields
  BY DEF I!In, MInv, MRows, Person
<1>3. new.ident = person[f].ident /\ new.slug = person[f].slug
  BY <1>2 DEF PersonFields
<1>4. PICK S : S = person'
  OBVIOUS
<1>5. \A x \in FacilitatorId : S[x] = person[x] \/ (x = f /\ S[x] = new)
  BY <1>1, <1>4 DEF MInv, MRows
<1>6. Unique(FacilitatorId, S, PendingPeople)
  <2>1. \A x \in FacilitatorId : \/ S[x] = person[x]
                                 \/ /\ person[x].life # "none"
                                    /\ S[x].ident = person[x].ident /\ S[x].slug = person[x].slug
    BY <1>2, <1>3, <1>5
  <2>2. Unique(FacilitatorId, person, PendingPeople)
    BY DEF NBase, NUnique
  <2> HIDE <1>1, <1>2, <1>3, <1>4, <1>5
  <2> QED
    BY <2>1, <2>2, UniqueByHand
<1>7. sheet' \in Sheets /\ entry' = [i \in I!Indices |-> entry'[i]]
      /\ Unique(FacilitatorId, person', PendingPeople)
  BY <1>1, <1>4, <1>6 DEF NBase, NTodo, NUnique
<1>8. \A x \in SessionId : session'[x] = session[x]
  BY <1>1
<1> QED
  BY <1>1, <1>7, <1>8, NBaseHand

LEMMA HandAdd ==
  ASSUME MInv, NBase, NEW name, I!AddPerson(name)
  PROVE  NBase'
<1>1. PICK f : f = I!Min(I!NewPeople)
  OBVIOUS
<1>2. PICK new : new = I!NewPerson(None, name, None, {})
  OBVIOUS
<1>3. /\ person' = [person EXCEPT ![f] = new] /\ run' = I!Beside(run)
      /\ UNCHANGED <<session, sheet, entry>> /\ I!NewPeople # {} /\ name # None
      /\ \A g \in I!In(person) : person[g].slug # name
      /\ I!PersonKeyFree(None, "slug", name)
  BY <1>1, <1>2 DEF I!AddPerson, I!ByHand
<1>4. f \in FacilitatorId /\ person[f].life = "none" /\ \A w \in Web : ~Wrote(w, f)
  BY <1>1, <1>3, NewOnes
<1>5. new.ident = None /\ new.slug = name
  BY <1>2 DEF I!NewPerson
<1>6. PICK S : S = person'
  OBVIOUS
<1>7. S[f] = new /\ \A y \in FacilitatorId \ {f} : S[y] = person[y]
  BY <1>3, <1>4, <1>6 DEF MInv, MRows
<1>8. \A y \in FacilitatorId \ {f} : person[y].life # "none" => person[y].slug # name
  BY <1>3 DEF I!In, MInv, MRows
<1>9. ASSUME NEW w \in Web, NEW y \in FacilitatorId, run[w].person[y].life # "none"
      PROVE  run[w].person[y].slug # name
  <2>1. y \in I!In(run[w].person) /\ w \in Web \ {None}
    BY <1>9, RunFields, PanelAssumption DEF I!In, I!ImportAssumption
  <2>2. ~I!Claims(run[w].person, "slug", name)
    BY <1>3, <2>1 DEF I!PersonKeyFree
  <2> QED
    BY <1>3, <2>1, <2>2 DEF I!Claims
<1>10. Unique(FacilitatorId, S, PendingPeople)
  <2>1. \A w \in Web : PendingPeople[w][f].life = "none"
    BY <1>4, Pendings DEF Wrote
  <2>2. \A w \in Web : \A y \in FacilitatorId :
          PendingPeople[w][y].life # "none" => PendingPeople[w][y].slug # S[f].slug
    BY <1>5, <1>7, <1>9, Pendings
  <2>3. S[f].ident = None
        /\ \A y \in FacilitatorId \ {f} : person[y].life # "none" => person[y].slug # S[f].slug
    BY <1>5, <1>7, <1>8
  <2> QED
    BY <1>4, <1>7, <2>1, <2>2, <2>3, UniqueAdd DEF NBase, NUnique
<1>11. sheet' \in Sheets /\ entry' = [i \in I!Indices |-> entry'[i]]
      /\ Unique(FacilitatorId, person', PendingPeople)
  BY <1>3, <1>6, <1>10 DEF NBase, NTodo, NUnique
<1>12. \A x \in SessionId : session'[x] = session[x]
  BY <1>3
<1> QED
  BY <1>3, <1>11, <1>12, NBaseHand

LEMMA NBaseBeside ==
  ASSUME MInv, NBase, run' = I!Beside(run), sheet' \in Sheets, UNCHANGED <<session, person>>,
         entry' = [i \in I!Indices |-> entry'[i]]
  PROVE  NBase'
<1>1. Unique(FacilitatorId, person', PendingPeople)
  BY DEF NBase, NUnique
<1>2. \A x \in SessionId : session'[x] = session[x]
  OBVIOUS
<1> QED
  BY <1>1, <1>2, NBaseHand

LEMMA NBaseEdits ==
  ASSUME MInv, NBase, I!Edit \/ I!Undelete
  PROVE  NBase'
<1>1. CASE \E s \in I!In(session) :
        \/ I!EditText(s) \/ I!Retitle(s) \/ I!DeleteSession(s) \/ I!RestoreSession(s)
        \/ \E fs \in SUBSET I!Live(person) : I!SetPeople(s, fs)
  <2>1. PICK s \in I!In(session) : \E value : \E column \in {"text", "title", "by", "life"} :
          /\ column = "life" => value \in Lives \ {"none"}
          /\ I!EditSession(s, [session[s] EXCEPT ![column] = value])
    BY <1>1 DEF I!EditText, I!Retitle, I!DeleteSession, I!RestoreSession, I!SetPeople, Lives
  <2> QED
    BY <2>1, HandSession
<1>2. CASE \E f \in I!In(person) : I!EditAnswer(f) \/ I!DeletePerson(f) \/ I!RestorePerson(f)
  <2>1. PICK f \in I!In(person) : \E value : \E column \in {"life", "answer"} :
          I!EditPerson(f, [person[f] EXCEPT ![column] = value])
    BY <1>2 DEF I!EditAnswer, I!DeletePerson, I!RestorePerson
  <2> QED
    BY <2>1, HandPerson
<1>3. CASE \E i \in 1 .. Len(sheet) : I!AddPerson(sheet[i].name)
  <2>1. PICK name : I!AddPerson(name)
    BY <1>3
  <2> QED
    BY <2>1, HandAdd
<1>4. CASE (\E r \in Recipes : I!Configure(r)) \/ (\E s \in Sheets : I!ChangeSheet(s))
  <2>1. run' = I!Beside(run) /\ UNCHANGED <<session, person, entry>> /\ sheet' \in Sheets
    BY <1>4 DEF I!Configure, I!ChangeSheet, I!ByHand, NBase, NTodo
  <2> QED
    BY <2>1, NBaseBeside DEF NBase, NTodo
<1> QED
  BY <1>1, <1>2, <1>3, <1>4 DEF I!Edit, I!Undelete

LEMMA NBaseRowGone ==
  ASSUME MInv, NBase, NEW i, NEW keep, I!RowGone(i, keep)
  PROVE  NBase'
<1>1. /\ run' = I!Beside(run) /\ UNCHANGED <<session, person, sheet>>
      /\ DOMAIN entry' = DOMAIN entry
      /\ entry' = [entry EXCEPT ![i].status = "skipped",
                            ![i].session = IF keep THEN @ ELSE 0]
  BY DEF I!RowGone
<1>2. entry' = [j \in I!Indices |-> entry'[j]]
  BY <1>1 DEF NBase, NTodo
<1> QED
  BY <1>1, <1>2, NBaseBeside DEF NBase, NTodo

LEMMA NBaseNext ==
  ASSUME MInv, NBase, [Next]_vars
  PROVE  NBase'
<1>1. CASE InImport /\ I!Next
  BY <1>1, NBaseRequest, NBaseRowGone, NBaseEdits DEF I!Next
<1>2. CASE UNCHANGED import
  <2>1. UNCHANGED <<session, person, run, sheet, entry>>
    BY <1>2 DEF import
  <2>2. PendingSessions' = PendingSessions /\ PendingPeople' = PendingPeople
    BY <2>1 DEF PendingSessions, PendingPeople
  <2>3. NUnique'
    BY <2>1, <2>2 DEF NBase, NUnique, Unique, UniqueRows, UniqueViews, UniquePending, View
  <2>4. NLives'
    BY <2>1 DEF NBase, NLives, Living
  <2>5. NTodo'
    BY <2>1 DEF NBase, NTodo, ToDo, Busy, Target
  <2> QED
    BY <2>3, <2>4, <2>5 DEF NBase
<1>3. (InImport /\ I!Next) \/ UNCHANGED import
  BY DEF Next, InFacilitators, InErrata, InGrid, vars
<1> QED
  BY <1>1, <1>2, <1>3

-----------------------------------------------------------------------------
\* What comes of a row of the sheet once all of them have been imported, by
\* the proposals S.
HeldByDead(S, column, value) ==
  value # None /\ \E s \in SessionId : S[s].life = "dead" /\ S[s][column] = value

WithKey(S, i) == {s \in SessionId : S[s].life = "alive" /\ S[s].ident = sheet[i].key}
Orphans(S, i) ==
  {s \in SessionId : S[s].life = "alive" /\ S[s].ident = None /\ S[s].title = sheet[i].title}

Unnamed(i) == sheet[i].name # None /\ recipe.peopleKeyed /\ sheet[i].person = None

Outcome(status, s, i) == [status |-> status, session |-> s, row |-> sheet[i]]

\* A proposal has its key; or a namesake is its, whose key a deleted one keeps;
\* or nothing can be made of it.
Found(S, i, e) == sheet[i].key # None /\ \E s \in WithKey(S, i) : e = Outcome("success", s, i)

Namesake(S, i, e) ==
  /\ sheet[i].key # None /\ WithKey(S, i) = {} /\ HeldByDead(S, "ident", sheet[i].key)
  /\ \E s \in SessionId : Orphans(S, i) = {s} /\ e = Outcome("success", s, i)

Hopeless(S, i, e) ==
  /\ sheet[i].key # None /\ WithKey(S, i) = {}
  /\ \A s \in SessionId : Orphans(S, i) # {s}
  /\ \/ Unnamed(i) \/ HeldByDead(S, "ident", sheet[i].key)
     \/ HeldByDead(S, "slug", sheet[i].title)
  /\ e = Outcome("skipped", 0, i)

Settled(S, i, e) ==
  \/ sheet[i].key = None /\ e = Outcome("skipped", 0, i)
  \/ Found(S, i, e) \/ Namesake(S, i, e) \/ Hopeless(S, i, e)

LEMMA SettledOnce ==
  ASSUME NEW S, UniqueRows(SessionId, S), NEW i, NEW d, NEW e, Settled(S, i, d), Settled(S, i, e)
  PROVE  d = e
<1>1. \A s, x \in WithKey(S, i) : sheet[i].key # None => s = x
  BY DEF WithKey, UniqueRows, Apart, Differ
<1>2. \A s, x : Orphans(S, i) = {s} /\ Orphans(S, i) = {x} => s = x
  OBVIOUS
<1> HIDE DEF WithKey, Orphans
<1> QED
  BY <1>1, <1>2 DEF Settled, Found, Namesake, Hopeless

LEMMA SettledSame ==
  ASSUME NEW S, NEW Z, \A s \in SessionId : Z[s] = S[s], NEW i, NEW e, Settled(S, i, e)
  PROVE  Settled(Z, i, e)
<1>1. WithKey(Z, i) = WithKey(S, i) /\ Orphans(Z, i) = Orphans(S, i)
  BY DEF WithKey, Orphans
<1>2. \A column, value : HeldByDead(Z, column, value) <=> HeldByDead(S, column, value)
  BY DEF HeldByDead
<1> QED
  BY <1>1, <1>2 DEF Settled, Found, Namesake, Hopeless

\* What is settled stays so, as another row's proposal gets its key ...
LEMMA SettledBesideAdopted ==
  ASSUME NEW S, NEW Z, NEW i, NEW j, NEW s \in SessionId, NEW e, Settled(S, i, e),
         sheet[j].key # None, sheet[i].key # sheet[j].key,
         sheet[i].title = sheet[j].title => ~HeldByDead(S, "ident", sheet[i].key),
         Orphans(S, j) = {s},
         \A x \in SessionId \ {s} : Z[x] = S[x],
         Z[s].life = "alive", Z[s].ident = sheet[j].key
  PROVE  Settled(Z, i, e)
<1>1. S[s].life = "alive" /\ S[s].ident = None /\ S[s].title = sheet[j].title
  BY DEF Orphans
<1>2. \A column, value : HeldByDead(S, column, value) => HeldByDead(Z, column, value)
  BY <1>1 DEF HeldByDead
<1>3. sheet[i].key # None => WithKey(Z, i) = WithKey(S, i)
  BY <1>1 DEF WithKey
<1>4. Orphans(Z, i) = Orphans(S, i) \ {s}
  BY <1>1 DEF Orphans
<1>5. s \in Orphans(S, i) => sheet[i].title = sheet[j].title
  BY <1>1 DEF Orphans
<1>6. sheet[i].title = sheet[j].title => Orphans(S, i) = Orphans(S, j)
  BY DEF Orphans
<1>7. CASE Namesake(S, i, e)
  <2>1. s \notin Orphans(S, i)
    BY <1>5, <1>7 DEF Namesake
  <2> QED
    BY <1>2, <1>3, <1>4, <1>7, <2>1 DEF Namesake, Settled
<1>8. CASE Hopeless(S, i, e)
  <2>1. s \notin Orphans(S, i)
    BY <1>5, <1>6, <1>8 DEF Hopeless
  <2>2. Orphans(Z, i) = Orphans(S, i)
    BY <1>4, <2>1
  <2> QED
    BY <1>2, <1>3, <1>8, <2>2 DEF Hopeless, Settled
<1> QED
  BY <1>3, <1>7, <1>8 DEF Settled, Found

\* ... or is made.
LEMMA SettledBesideMade ==
  ASSUME NEW S, NEW Z, NEW i, NEW j, NEW s \in SessionId, NEW e, Settled(S, i, e),
         sheet[j].key # None, sheet[i].key # sheet[j].key, S[s].life = "none",
         \A x \in SessionId \ {s} : Z[x] = S[x],
         Z[s].life = "alive", Z[s].ident = sheet[j].key
  PROVE  Settled(Z, i, e)
<1>2. \A column, value : HeldByDead(S, column, value) => HeldByDead(Z, column, value)
  BY DEF HeldByDead
<1>3. sheet[i].key # None => WithKey(Z, i) = WithKey(S, i)
  BY DEF WithKey
<1>4. Orphans(Z, i) = Orphans(S, i)
  BY DEF Orphans
<1> QED
  BY <1>2, <1>3, <1>4 DEF Settled, Found, Namesake, Hopeless

-----------------------------------------------------------------------------
\* What a run of rows by key knows that nobody disturbs.
Current(w) ==
  /\ run[w].op = "import" /\ run[w].rows = sheet /\ run[w].recipe = recipe
  /\ recipe.keyed

NSeen(w) ==
  LET seen == run[w].seen IN
  /\ ~I!Keyless(w) /\ I!Known(w) = {}
  /\ seen.op = "adopt" => I!Legacy(w) = {seen.s}
  /\ seen.op = "create" =>
       /\ \A s \in SessionId : I!Legacy(w) # {s}
       /\ ~I!Nameless(w) /\ seen.who = I!Who(w)
       /\ seen.title = I!PlainTitle(w) /\ seen.name = I!PlainName(w)

NDone(w) ==
  \A i \in I!Indices : run[w].entry[i] # None =>
    i \in 1 .. Len(sheet) /\ Settled(I!Sessions(w), i, run[w].entry[i])

NNothing(w) ==
  /\ \A s \in SessionId : run[w].session[s].life = "none"
  /\ \A f \in FacilitatorId : ~Wrote(w, f)

NImport(w) ==
  /\ run[w].seen # None => NSeen(w)
  /\ I!RowsApart /\ recipe.keyed => NDone(w)
  /\ I!RowsApart /\ imported => NNothing(w)

NAlone(w) ==
  run[w].alone /\ run[w].op # "idle" =>
    /\ run[w].rows = sheet /\ run[w].recipe = recipe
    /\ run[w].op = "import" => NImport(w)

NImported ==
  imported /\ I!RowsApart =>
    recipe.keyed /\ \A i \in 1 .. Len(sheet) : Settled(session, i, entry[i])

NTables ==
  /\ session = [s \in SessionId |-> session[s]]
  /\ person = [f \in FacilitatorId |-> person[f]]

NInv == MInv /\ NBase /\ NTables /\ NImported /\ \A w \in Web : NAlone(w)

\* How the rows of the sheet look to it.
LEMMA Looks ==
  ASSUME MInv, NEW w \in Web, Current(w)
  PROVE  LET i == I!Index(w)
             S == I!Sessions(w)
         IN /\ I!Row(w) = sheet[i] /\ I!Rules(w) = recipe
            /\ I!Known(w) = WithKey(S, i) /\ I!Legacy(w) = Orphans(S, i)
            /\ I!Keyless(w) <=> sheet[i].key = None
            /\ I!Nameless(w) <=> Unnamed(i)
<1>1. I!Row(w) = sheet[I!Index(w)] /\ I!Rules(w) = recipe /\ I!Rules(w).keyed
  BY DEF Current, I!Row, I!Rules
<1>2. DOMAIN I!Sessions(w) = SessionId
  BY ViewOf
<1>3. PICK S : S = I!Sessions(w)
  OBVIOUS
<1>4. I!Known(w) = WithKey(S, I!Index(w)) /\ I!Legacy(w) = Orphans(S, I!Index(w))
  <2> HIDE DEF I!Row, I!Rules, I!Sessions, I!Index
  <2> QED
    BY <1>1, <1>2, <1>3 DEF I!Known, I!Legacy, WithKey, Orphans, I!Live
<1> QED
  BY <1>1, <1>3, <1>4 DEF I!Keyless, I!Nameless, Unnamed

\* It deletes no proposal.
LEMMA SameDead ==
  ASSUME MInv, NBase, NEW w \in Web, run[w].op = "import"
  PROVE  \A s \in SessionId :
           /\ I!Sessions(w)[s].life \in Lives
           /\ I!Sessions(w)[s].life = "dead" =>
                session[s] = I!Sessions(w)[s]
           /\ session[s].life = "dead" => I!Sessions(w)[s] = session[s]
<1> TAKE s \in SessionId
<1>1. I!Sessions(w)[s] = IF run[w].session[s].life = "none" THEN session[s] ELSE run[w].session[s]
  BY ViewOf
<1>2. session[s].life \in Lives /\ Living(w, s)
  BY DEF NBase, NLives
<1> QED
  BY <1>1, <1>2 DEF Living

LEMMA DeletedOnes ==
  ASSUME MInv, NBase, NEW w \in Web, run[w].op = "import"
  PROVE  \A value : HeldByDead(I!Sessions(w), "ident", value) => I!Deleted(value)
BY SameDead DEF HeldByDead, I!Deleted, I!In, MInv, MRows

-----------------------------------------------------------------------------
\* A facilitator read and linked with nobody beside is refused by no constraint.
LEMMA NotRefused ==
  ASSUME MInv, NBase, NEW w \in Web, NEW f, NEW linked, Names(w, f, linked),
         I!Row(w).name # None,
         run[w].seen.who = I!Who(w), run[w].seen.name = I!PlainName(w)
  PROVE  ~I!PersonRefused(w, f, linked)
<1>1. PICK T : T = I!People(w)
  OBVIOUS
<1>2. PICK key : key = I!PersonKey(w)
  OBVIOUS
<1>3. PICK who : who = I!Who(w)
  OBVIOUS
<1>4. DOMAIN T = FacilitatorId /\ \A x \in FacilitatorId : Person(T[x])
  BY <1>1, ViewOf
<1>5. \A x, y \in FacilitatorId : x # y => Apart(T[x], T[y])
  BY <1>1, Pendings DEF NBase, NUnique, Unique, UniqueViews
<1>6. linked = I!Linked(w, f, who.was, I!PlainName(w))
      /\ (who.f # 0 => f = who.f)
  BY <1>3 DEF Names
<1>7. PICK same : same = {x \in I!In(T) : key # None /\ T[x].ident = key}
  OBVIOUS
<1>8. I!Matched(w) = IF same # {} THEN same
                     ELSE {x \in I!In(T) : T[x].slug = I!Row(w).name
                                           /\ (T[x].ident = None \/ key = None)}
  BY <1>1, <1>2, <1>7 DEF I!Matched
<1>9. CASE I!Matched(w) = {}
  <2>1. who.was.life = "none" /\ same = {}
    BY <1>3, <1>8, <1>9 DEF I!Who, I!NoOne, I!Absent
  <2>2. linked.ident = key /\ linked.slug = (IF I!PlainName(w) THEN I!Row(w).name ELSE None)
    BY <1>2, <1>6, <2>1 DEF I!Linked, I!NewPerson
  <2>3. ~I!Taken(T, "ident", linked.ident, f)
    BY <1>7, <2>1, <2>2 DEF I!Taken
  <2>4. ~I!Taken(T, "slug", linked.slug, f)
    BY <1>1, <2>2 DEF I!Taken, I!PlainName
  <2> QED
    BY <1>1, <2>3, <2>4 DEF I!PersonRefused
<1>10. CASE I!Matched(w) # {}
  <2>1. PICK g \in I!Matched(w) : who = [f |-> g, was |-> T[g]]
    BY <1>1, <1>3, <1>10 DEF I!Who
  <2>2. g \in I!In(T) /\ g \in FacilitatorId /\ T[g].life # "none"
    BY <1>4, <1>7, <1>8, <2>1 DEF I!In
  <2>3. f = g /\ who.was = T[g]
    BY <1>6, <2>1, <2>2, PanelAssumption DEF I!ImportAssumption
  <2>4. PICK now : now = T[g]
    OBVIOUS
  <2>5. DOMAIN now = PersonFields /\ now.life # "none"
    BY <1>4, <2>2, <2>4 DEF Person
  <2>6. linked = [now EXCEPT
          !.life = "alive",
          !.ident = IF now.ident = None /\ key # None THEN key ELSE @,
          !.contested = @ \/ (now.ident = None /\ key # None /\ now.ident \notin {None, key}),
          !.answer = I!Filled(w, now.answer, @),
          !.of = @ \cup ({key} \ {None})]
    BY <1>1, <1>2, <1>6, <2>3, <2>4, <2>5 DEF I!Linked
  <2>7. /\ linked.ident = IF now.ident = None /\ key # None THEN key ELSE now.ident
        /\ linked.slug = now.slug
    BY <2>5, <2>6 DEF PersonFields
  <2>8. ASSUME NEW x \in I!In(T) \ {g}
        PROVE  /\ now.ident # None => T[x].ident # now.ident
               /\ now.slug # None => T[x].slug # now.slug
    <3>1. x \in FacilitatorId /\ x # g /\ T[x].life # "none"
      BY <1>4 DEF I!In
    <3>2. Apart(T[g], T[x])
      BY <1>5, <2>2, <3>1
    <3> QED
      BY <2>2, <2>4, <3>1, <3>2 DEF Apart, Differ
  <2>9. ASSUME now.ident = None, key # None PROVE same = {}
    BY <1>7, <1>8, <2>1, <2>4, <2>9
  <2>10. ~I!Taken(T, "slug", linked.slug, f)
    BY <2>3, <2>7, <2>8 DEF I!Taken
  <2>11. ~I!Taken(T, "ident", linked.ident, f)
    BY <1>7, <2>3, <2>7, <2>8, <2>9 DEF I!Taken
  <2> QED
    BY <1>1, <2>10, <2>11 DEF I!PersonRefused
<1> QED
  BY <1>9, <1>10

-----------------------------------------------------------------------------
\* A row's turn with nobody beside: its outcome is settled, the others' stays
\* so, and if it was settled already nothing is written.
Turn(w, e) ==
  LET i == I!Index(w)
      S == I!Sessions(w)
      Z == I!Sessions(w)'
  IN
  /\ run'[w].entry = [run[w].entry EXCEPT ![i] = e]
  /\ Settled(Z, i, e)
  /\ \A j \in 1 .. Len(sheet) : \A d :
       I!RowsApart /\ j # i /\ Settled(S, j, d) => Settled(Z, j, d)
  /\ (\E d : Settled(S, i, d)) => SameRows(w)

\* A request sees what it has written.
LEMMA Sees ==
  ASSUME MInv, NEW w \in Web, DOMAIN session' = SessionId, session' = session
  PROVE  \A s \in SessionId :
           I!Sessions(w)'[s] = IF run'[w].session[s].life = "none" THEN session[s]
                               ELSE run'[w].session[s]
BY DEF I!Sessions, I!Over

LEMMA QuietTurn ==
  ASSUME MInv, NEW w \in Web, Current(w), SameRows(w), Rest(w), NEW status, NEW s,
         Entry(w, status, s), Settled(I!Sessions(w), I!Index(w), Outcome(status, s, I!Index(w)))
  PROVE  \E e : Turn(w, e)
<1>1. I!Row(w) = sheet[I!Index(w)]
  BY Looks
<1>2. PICK Z : Z = I!Sessions(w)'
  OBVIOUS
<1>3. DOMAIN session' = SessionId /\ session' = session
  BY DEF Rest, MInv, MRows
<1>4. \A x \in SessionId : Z[x] = I!Sessions(w)[x]
  BY <1>2, <1>3, Sees, ViewOf DEF SameRows
<1>5. \A i, e : Settled(I!Sessions(w), i, e) => Settled(Z, i, e)
  BY <1>4, SettledSame
<1>6. PICK e : e = Outcome(status, s, I!Index(w))
  OBVIOUS
<1>7. run'[w].entry = [run[w].entry EXCEPT ![I!Index(w)] = e]
  BY <1>1, <1>6 DEF Entry, Outcome
<1>8. Turn(w, e)
  BY <1>2, <1>5, <1>6, <1>7 DEF Turn
<1> QED
  BY <1>8

LEMMA BlankTurn ==
  ASSUME MInv, NEW w \in Web, Current(w), I!RowBlank(w)
  PROVE  Ended(w) /\ Rest(w) /\ \E e : Turn(w, e)
<1>1. I!Log(w, "skipped", 0, run[w])
  BY DEF I!RowBlank
<1>2. Ended(w) /\ Rest(w) /\ SameRows(w) /\ Entry(w, "skipped", 0)
  BY <1>1, EndsQuietly
<1>3. PICK S, i : S = I!Sessions(w) /\ i = I!Index(w)
  OBVIOUS
<1>4. \/ sheet[i].key = None
      \/ WithKey(S, i) = {} /\ Unnamed(i) /\ \A s \in SessionId : Orphans(S, i) # {s}
  <2>1. \A s : I!Cardinality({s}) = 1
    BY ISets, FS_Singleton
  <2> QED
    BY <1>3, <2>1, Looks DEF I!RowBlank
<1>5. Settled(S, i, Outcome("skipped", 0, i))
  BY <1>4 DEF Settled, Hopeless
<1> QED
  BY <1>2, <1>3, <1>5, QuietTurn

LEMMA KnownTurn ==
  ASSUME MInv, NEW w \in Web, Current(w), I!RowKnown(w)
  PROVE  Ended(w) /\ Rest(w) /\ \E e : Turn(w, e)
<1>1. PICK s \in I!Known(w) : I!Log(w, "success", s, run[w])
  BY DEF I!RowKnown
<1>2. Ended(w) /\ Rest(w) /\ SameRows(w) /\ Entry(w, "success", s)
  BY <1>1, EndsQuietly
<1>3. PICK S, i : S = I!Sessions(w) /\ i = I!Index(w)
  OBVIOUS
<1>4. sheet[i].key # None /\ s \in WithKey(S, i)
  BY <1>1, <1>3, Looks DEF I!RowKnown
<1>5. Settled(S, i, Outcome("success", s, i))
  BY <1>4 DEF Settled, Found
<1> QED
  BY <1>2, <1>3, <1>5, QuietTurn

LEMMA TurnIndex ==
  ASSUME NBase, NEW w \in Web, Current(w), run[w].todo # <<>>
  PROVE  I!Index(w) \in 1 .. Len(sheet)
<1>1. run[w].todo \in Seq(1 .. Len(sheet))
  BY DEF NBase, NTodo, ToDo, Busy, Current
<1> QED
  BY <1>1, HeadTailProperties DEF I!Index

LEMMA OthersApart ==
  ASSUME MInv, NBase, NEW w \in Web, run[w].op = "import", I!RowsApart,
         NEW i \in 1 .. Len(sheet), NEW j \in 1 .. Len(sheet), j # i, sheet[i].key # None
  PROVE  /\ sheet[j].key # sheet[i].key
         /\ sheet[j].title = sheet[i].title => ~HeldByDead(I!Sessions(w), "ident", sheet[j].key)
BY DeletedOnes DEF I!RowsApart

LEMMA AdoptTurn ==
  ASSUME MInv, NBase, NEW w \in Web, Current(w), NSeen(w), I!AdoptWrite(w)
  PROVE  Ended(w) /\ Rest(w) /\ \E e : Turn(w, e)
<1>1. PICK s : s = run[w].seen.s
  OBVIOUS
<1>2. /\ run[w].seen # None /\ run[w].seen.op = "adopt"
      /\ Ended(w) /\ Rest(w) /\ Entry(w, "success", s)
      /\ \/ Adopts(w, s)
         \/ /\ SameRows(w)
            /\ \/ I!Taken(I!Sessions(w), "ident", I!Row(w).key, s)
               \/ s \notin I!Live(I!Sessions(w))
  BY <1>1, Adopting
<1>3. PICK S, Z, i : S = I!Sessions(w) /\ Z = I!Sessions(w)' /\ i = I!Index(w)
  OBVIOUS
<1>4. i \in 1 .. Len(sheet)
  BY <1>2, <1>3, TurnIndex, SeenBusy
<1>5. /\ I!Row(w) = sheet[i] /\ sheet[i].key # None
      /\ WithKey(S, i) = {} /\ Orphans(S, i) = {s}
  BY <1>1, <1>2, <1>3, Looks DEF NSeen
<1>6. s \in SessionId /\ S[s].life = "alive" /\ S[s].ident = None
  BY <1>5 DEF Orphans
<1>7. DOMAIN S = SessionId /\ \A x \in SessionId : S[x].life \in Lives
  BY <1>3, ViewOf, SameDead DEF Current
<1>8. CASE Adopts(w, s)
  <2>1. PICK e : e = Outcome("success", s, i)
    OBVIOUS
  <2>2. run'[w].entry = [run[w].entry EXCEPT ![i] = e]
    BY <1>2, <1>3, <1>5, <2>1 DEF Entry, Outcome
  <2>3. PICK new : new = [S[s] EXCEPT !.ident = sheet[i].key]
    OBVIOUS
  <2>4. new.life = "alive" /\ new.ident = sheet[i].key
    <3>1. Proposed(S[s])
      BY <1>3, <1>6, ViewOf
    <3> QED
      BY <1>6, <2>3, <3>1 DEF Proposed, SessionFields
  <2>5. /\ run'[w].session[s] = new
        /\ \A x \in SessionId \ {s} : run'[w].session[x] = run[w].session[x]
    BY <1>3, <1>5, <1>6, <1>8, <2>3, RunFields DEF Adopts
  <2>6. Z[s] = new /\ \A x \in SessionId \ {s} : Z[x] = S[x]
    <3>1. DOMAIN session' = SessionId /\ session' = session
      BY <1>2 DEF Rest, MInv, MRows
    <3>2. \A x \in SessionId : Z[x] = IF run'[w].session[x].life = "none" THEN session[x]
                                      ELSE run'[w].session[x]
      BY <1>3, <3>1, Sees
    <3>3. \A x \in SessionId : S[x] = IF run[w].session[x].life = "none" THEN session[x]
                                      ELSE run[w].session[x]
      BY <1>3, ViewOf
    <3> QED
      BY <1>6, <2>4, <2>5, <3>2, <3>3
  <2>7. Settled(Z, i, e)
    BY <1>5, <1>6, <2>1, <2>4, <2>6 DEF Settled, Found, WithKey
  <2>8. ASSUME NEW j \in 1 .. Len(sheet), NEW d, I!RowsApart, j # i, Settled(S, j, d)
        PROVE  Settled(Z, j, d)
    <3>1. /\ sheet[j].key # sheet[i].key
          /\ sheet[j].title = sheet[i].title => ~HeldByDead(S, "ident", sheet[j].key)
      BY <1>3, <1>4, <1>5, <2>8, OthersApart DEF Current
    <3> QED
      BY <1>5, <1>6, <2>4, <2>6, <2>8, <3>1, SettledBesideAdopted
  <2>9. ASSUME NEW d, Settled(S, i, d) PROVE FALSE
    <3>1. HeldByDead(S, "ident", sheet[i].key)
      BY <1>5, <1>6, <2>9 DEF Settled, Found, Namesake, Hopeless
    <3>2. I!Taken(S, "ident", sheet[i].key, s)
      BY <1>6, <1>7, <3>1 DEF HeldByDead, I!Taken, I!In
    <3> QED
      BY <1>3, <1>5, <1>8, <3>2 DEF Adopts
  <2>10. Turn(w, e)
    BY <1>3, <2>2, <2>7, <2>8, <2>9 DEF Turn
  <2> QED
    BY <1>2, <2>10
<1>9. CASE /\ SameRows(w)
           /\ \/ I!Taken(I!Sessions(w), "ident", I!Row(w).key, s)
              \/ s \notin I!Live(I!Sessions(w))
  <2>1. I!Taken(S, "ident", sheet[i].key, s)
    BY <1>3, <1>5, <1>6, <1>7, <1>9 DEF I!Live
  <2>2. HeldByDead(S, "ident", sheet[i].key)
    BY <1>5, <1>7, <2>1 DEF I!Taken, I!In, HeldByDead, WithKey, Lives
  <2>3. Settled(S, i, Outcome("success", s, i))
    BY <1>5, <1>6, <2>2 DEF Settled, Namesake
  <2>4. \E e : Turn(w, e)
    BY <1>2, <1>3, <1>9, <2>3, QuietTurn
  <2> QED
    BY <1>2, <2>4
<1> QED
  BY <1>2, <1>8, <1>9

LEMMA CreateTurn ==
  ASSUME MInv, NBase, NEW w \in Web, Current(w), NSeen(w), I!CreateWrite(w)
  PROVE  Ended(w) /\ Rest(w) /\ \E e : Turn(w, e)
<1>1. run[w].seen # None /\ run[w].seen.op = "create" /\ Ended(w) /\ Rest(w)
  BY Creating
<1>2. PICK s, f, linked :
        /\ Unused(s) /\ Names(w, f, linked)
        /\ \/ Refused(w, s, f, linked) /\ SameRows(w) /\ Entry(w, "skipped", 0)
           \/ ~Refused(w, s, f, linked) /\ Creates(w, s) /\ Entry(w, "success", s)
  BY Creating
<1>3. PICK S, Z, i : S = I!Sessions(w) /\ Z = I!Sessions(w)' /\ i = I!Index(w)
  OBVIOUS
<1>4. i \in 1 .. Len(sheet)
  BY <1>1, <1>3, TurnIndex, SeenBusy
<1>5. /\ I!Row(w) = sheet[i] /\ I!Rules(w) = recipe /\ sheet[i].key # None
      /\ WithKey(S, i) = {} /\ \A x \in SessionId : Orphans(S, i) # {x}
      /\ ~Unnamed(i)
  BY <1>1, <1>3, Looks DEF NSeen
<1>6. /\ DOMAIN S = SessionId /\ \A x \in SessionId : S[x].life \in Lives
      /\ \A x, y \in SessionId : x # y => Apart(S[x], S[y])
  <2>1. \A x, y \in SessionId : x # y => Apart(S[x], S[y])
    BY <1>3, Pendings DEF NBase, NUnique, Unique, UniqueViews
  <2> QED
    BY <1>3, <2>1, ViewOf, SameDead DEF Current
<1>7. s \in SessionId /\ S[s].life = "none"
  BY <1>2, <1>3, ViewOf DEF Unused
<1>8. NewKey(w) = sheet[i].key
      /\ NewSlug(w) = IF I!PlainTitle(w) THEN sheet[i].title ELSE None
  BY <1>1, <1>5 DEF NewKey, NewSlug, NSeen, Current
<1>9. I!PlainTitle(w) <=> \A x \in SessionId : S[x].life = "alive" => S[x].slug # sheet[i].title
  BY <1>3, <1>5, <1>6 DEF I!PlainTitle, I!Live
<1>10. ~(I!Row(w).name # None /\ I!PersonRefused(w, f, linked))
  BY <1>1, <1>2, NotRefused DEF NSeen
<1>11. Refused(w, s, f, linked) <=>
         \/ HeldByDead(S, "ident", sheet[i].key) \/ HeldByDead(S, "slug", sheet[i].title)
  <2>1. I!Taken(S, "ident", NewKey(w), s) <=> HeldByDead(S, "ident", sheet[i].key)
    BY <1>5, <1>6, <1>7, <1>8 DEF I!Taken, I!In, HeldByDead, WithKey, Lives
  <2>2. I!Taken(S, "slug", NewSlug(w), s) <=> HeldByDead(S, "slug", sheet[i].title)
    <3>1. ASSUME I!Taken(S, "slug", NewSlug(w), s) PROVE HeldByDead(S, "slug", sheet[i].title)
      BY <1>6, <1>8, <1>9, <3>1 DEF I!Taken, I!In, HeldByDead, Lives
    <3>2. ASSUME HeldByDead(S, "slug", sheet[i].title) PROVE I!Taken(S, "slug", NewSlug(w), s)
      <4>1. PICK x \in SessionId : S[x].life = "dead" /\ S[x].slug = sheet[i].title
        BY <3>2 DEF HeldByDead
      <4>2. sheet[i].title # None
        BY <3>2 DEF HeldByDead
      <4>3. I!PlainTitle(w)
        BY <1>6, <1>9, <4>1, <4>2 DEF Apart, Differ
      <4> QED
        BY <1>6, <1>7, <1>8, <4>1, <4>2, <4>3 DEF I!Taken, I!In
    <3> QED
      BY <3>1, <3>2
  <2> QED
    BY <1>3, <1>10, <2>1, <2>2 DEF Refused
<1>12. CASE Refused(w, s, f, linked) /\ SameRows(w) /\ Entry(w, "skipped", 0)
  <2>1. Settled(S, i, Outcome("skipped", 0, i))
    BY <1>5, <1>11, <1>12 DEF Settled, Hopeless
  <2> QED
    BY <1>1, <1>3, <1>12, <2>1, QuietTurn
<1>13. CASE ~Refused(w, s, f, linked) /\ Creates(w, s) /\ Entry(w, "success", s)
  <2>1. PICK e : e = Outcome("success", s, i)
    OBVIOUS
  <2>2. run'[w].entry = [run[w].entry EXCEPT ![i] = e]
    BY <1>3, <1>5, <1>13, <2>1 DEF Entry, Outcome
  <2>3. Z[s].life = "alive" /\ Z[s].ident = sheet[i].key /\ \A x \in SessionId \ {s} : Z[x] = S[x]
    <3>1. DOMAIN session' = SessionId /\ session' = session
      BY <1>1 DEF Rest, MInv, MRows
    <3>2. \A x \in SessionId : Z[x] = IF run'[w].session[x].life = "none" THEN session[x]
                                      ELSE run'[w].session[x]
      BY <1>3, <3>1, Sees
    <3>3. \A x \in SessionId : S[x] = IF run[w].session[x].life = "none" THEN session[x]
                                      ELSE run[w].session[x]
      BY <1>3, ViewOf
    <3> QED
      BY <1>7, <1>8, <1>13, <3>2, <3>3 DEF Creates
  <2>4. Settled(Z, i, e)
    BY <1>5, <1>7, <2>1, <2>3 DEF Settled, Found, WithKey
  <2>5. ASSUME NEW j \in 1 .. Len(sheet), NEW d, I!RowsApart, j # i, Settled(S, j, d)
        PROVE  Settled(Z, j, d)
    <3>1. sheet[j].key # sheet[i].key
      BY <1>4, <1>5, <2>5, OthersApart DEF Current
    <3> QED
      BY <1>5, <1>7, <2>3, <2>5, <3>1, SettledBesideMade
  <2>6. ASSUME NEW d, Settled(S, i, d) PROVE FALSE
    BY <1>5, <1>11, <1>13, <2>6 DEF Settled, Found, Namesake, Hopeless
  <2>7. Turn(w, e)
    BY <1>3, <2>2, <2>4, <2>5, <2>6 DEF Turn
  <2> QED
    BY <1>1, <2>7
<1> QED
  BY <1>2, <1>12, <1>13

-----------------------------------------------------------------------------
\* What a request has written, read and has to do, and all it can see, is as it
\* was.
SameView(w) == Kept(w) /\ UNCHANGED <<sheet, recipe, session, person>>

LEMMA Viewing ==
  ASSUME NEW w \in Web, SameView(w)
  PROVE  /\ I!Sessions(w)' = I!Sessions(w) /\ I!People(w)' = I!People(w)
         /\ I!Known(w)' = I!Known(w) /\ I!Legacy(w)' = I!Legacy(w)
         /\ I!Keyless(w)' = I!Keyless(w) /\ I!Nameless(w)' = I!Nameless(w)
         /\ I!Who(w)' = I!Who(w)
         /\ I!PlainTitle(w)' = I!PlainTitle(w) /\ I!PlainName(w)' = I!PlainName(w)
<1>1. I!Sessions(w)' = I!Sessions(w) /\ I!People(w)' = I!People(w)
  BY DEF SameView, Kept, I!Sessions, I!People, I!Over
<1>2. I!Row(w)' = I!Row(w) /\ I!Rules(w)' = I!Rules(w) /\ I!PersonKey(w)' = I!PersonKey(w)
  BY DEF SameView, Kept, I!Row, I!Rules, I!Index, I!PersonKey
<1>3. I!Known(w)' = I!Known(w) /\ I!Legacy(w)' = I!Legacy(w)
  BY <1>1, <1>2 DEF I!Known, I!Legacy, I!Live
<1>4. I!Keyless(w)' = I!Keyless(w) /\ I!Nameless(w)' = I!Nameless(w)
  BY <1>2 DEF I!Keyless, I!Nameless
<1>5. I!Matched(w)' = I!Matched(w)
  BY <1>1, <1>2 DEF I!Matched, I!In
<1>6. I!Who(w)' = I!Who(w)
  BY <1>1, <1>2, <1>5 DEF I!Who, I!NoOne
<1>7. I!PlainTitle(w)' = I!PlainTitle(w) /\ I!PlainName(w)' = I!PlainName(w)
  BY <1>1, <1>2 DEF I!PlainTitle, I!PlainName, I!Live, I!In
<1> QED
  BY <1>1, <1>3, <1>4, <1>6, <1>7

LEMMA SettledNext ==
  ASSUME UNCHANGED <<sheet, recipe>>, NEW S, NEW i, NEW e
  PROVE  Settled(S, i, e)' <=> Settled(S, i, e)
<1>1. sheet' = sheet /\ recipe' = recipe
  OBVIOUS
<1>2. WithKey(S, i)' = WithKey(S, i) /\ Orphans(S, i)' = Orphans(S, i)
  BY <1>1 DEF WithKey, Orphans
<1> QED
  BY <1>1, <1>2 DEF Settled, Found, Namesake, Hopeless, Unnamed, Outcome, HeldByDead

LEMMA ApartStill ==
  ASSUME UNCHANGED <<sheet, session>>
  PROVE  I!RowsApart' <=> I!RowsApart
BY DEF I!RowsApart, I!Deleted, I!In

LEMMA DoneStill ==
  ASSUME NEW w \in Web, SameView(w), run'[w].entry = run[w].entry, NDone(w)
  PROVE  NDone(w)'
<1> SUFFICES ASSUME NEW i \in I!Indices, run'[w].entry[i] # None
             PROVE  i \in 1 .. Len(sheet') /\ Settled(I!Sessions(w), i, run[w].entry[i])'
  BY DEF NDone
<1>1. UNCHANGED <<sheet, recipe>> /\ I!Sessions(w)' = I!Sessions(w)
  BY Viewing DEF SameView
<1>2. PICK S, e : S = I!Sessions(w) /\ e = run[w].entry[i]
  OBVIOUS
<1>3. Settled(S, i, e) /\ i \in 1 .. Len(sheet)
  BY <1>2 DEF NDone
<1>4. Settled(S, i, e)'
  BY <1>1, <1>3, SettledNext
<1> QED
  BY <1>1, <1>2, <1>3, <1>4

-----------------------------------------------------------------------------
\* What an unaccompanied run of rows has done stays done, if nothing is
\* committed; what it has seen is current.
LEMMA ImportStill ==
  ASSUME NEW w \in Web, SameView(w), run'[w].entry = run[w].entry, UNCHANGED imported,
         NImport(w), run'[w].seen = None \/ NSeen(w)'
  PROVE  NImport(w)'
<1>1. I!RowsApart' <=> I!RowsApart
  BY ApartStill DEF SameView
<1>2. NNothing(w) => NNothing(w)'
  BY DEF NNothing, Wrote, SameView, Kept
<1> QED
  BY <1>1, <1>2, DoneStill DEF NImport, SameView

LEMMA SeenAgain ==
  ASSUME NEW w \in Web, SameView(w), NSeen(w), run'[w].seen = run[w].seen
  PROVE  NSeen(w)'
BY Viewing DEF NSeen

LEMMA AloneUntouched ==
  ASSUME NEW v \in Web, NAlone(v), Untouched(v),
         UNCHANGED <<sheet, recipe, session, person, imported>>
  PROVE  NAlone(v)'
<1>1. SameView(v) /\ run'[v].entry = run[v].entry /\ run'[v].seen = run[v].seen
  BY UntouchedAlike DEF SameView, Alike, Untouched
<1>2. ASSUME NImport(v) PROVE NImport(v)'
  <2>1. run'[v].seen = None \/ NSeen(v)'
    BY <1>1, <1>2, SeenAgain DEF NImport
  <2> QED
    BY <1>1, <1>2, <2>1, ImportStill
<1> QED
  BY <1>2 DEF NAlone, Untouched

LEMMA ImportedStill ==
  ASSUME NImported, UNCHANGED <<sheet, recipe, session, entry, imported>>
  PROVE  NImported'
<1> SUFFICES ASSUME imported', I!RowsApart'
             PROVE  recipe'.keyed /\ \A i \in 1 .. Len(sheet') : Settled(session, i, entry[i])'
  BY DEF NImported
<1>1. recipe.keyed /\ \A i \in 1 .. Len(sheet) : Settled(session, i, entry[i])
  BY ApartStill DEF NImported
<1>2. ASSUME NEW i \in 1 .. Len(sheet) PROVE Settled(session, i, entry[i])'
  <2>1. PICK S, e : S = session /\ e = entry[i]
    OBVIOUS
  <2>2. Settled(S, i, e)'
    BY <1>1, <2>1, SettledNext
  <2> QED
    BY <2>1, <2>2
<1> QED
  BY <1>1, <1>2

\* A request that has begun has written and read nothing.
LEMMA AloneBegins ==
  ASSUME MInv, NEW w \in Web, NEW todo, NEW target, I!Begin(w, todo, target)
  PROVE  NAlone(w)'
<1>1. /\ run'[w].recipe = recipe' /\ run'[w].rows = sheet' /\ run'[w].seen = None
      /\ run'[w].entry = [i \in I!Indices |-> None]
      /\ \A f \in FacilitatorId : run'[w].person[f].life = "none"
      /\ \A s \in SessionId : run'[w].session[s].life = "none"
  BY Beginning, AbsentRow
<1>2. NDone(w)'
  BY <1>1 DEF NDone
<1>3. NNothing(w)'
  BY <1>1 DEF NNothing, Wrote
<1> QED
  BY <1>1, <1>2, <1>3 DEF NAlone, NImport

\* What it reads is current.
LEMMA AloneReads ==
  ASSUME MInv, NBase, NEW w \in Web, NAlone(w),
         I!AdoptRead(w) \/ I!CreateRead(w) \/ I!FillRead(w)
  PROVE  NAlone(w)'
<1>1. PICK seen : I!See(w, seen)
  BY DEF I!AdoptRead, I!CreateRead, I!FillRead
<1>2. /\ run' = [run EXCEPT ![w].seen = seen]
      /\ UNCHANGED <<sheet, recipe, session, person, entry, hands, imported>>
  BY <1>1 DEF I!See
<1>3. /\ Kept(w) /\ run'[w].entry = run[w].entry /\ run'[w].alone = run[w].alone
      /\ run'[w].seen = seen
  BY <1>2 DEF MInv, MRuns, Kept, RequestFields
<1>4. SameView(w)
  BY <1>2, <1>3 DEF SameView
<1>5. CASE run[w].alone /\ run[w].op = "import"
  <2>1. NImport(w) /\ run[w].rows = sheet /\ run[w].recipe = recipe
    BY <1>5 DEF NAlone
  <2>2. \A s : I!Cardinality({s}) = 1
    BY ISets, FS_Singleton
  <2>3. NSeen(w)'
    <3>1. CASE I!AdoptRead(w)
      <4>1. PICK s \in I!Legacy(w) : I!See(w, [op |-> "adopt", s |-> s])
        BY <3>1 DEF I!AdoptRead
      <4>2. ~I!Keyless(w) /\ I!Known(w) = {} /\ I!Cardinality(I!Legacy(w)) = 1
        BY <3>1 DEF I!AdoptRead
      <4>3. I!Legacy(w) = {s}
        <5>1. I!Legacy(w) \subseteq SessionId
          BY ViewOf DEF I!Legacy, I!Live
        <5>2. IsFiniteSet(I!Legacy(w))
          BY <5>1, FS_Subset, PanelAssumption, ISets DEF I!ImportAssumption
        <5>3. PICK D : D = I!Legacy(w)
          OBVIOUS
        <5>4. Cardinality(D) = 1
          BY <4>2, <5>3, ISets
        <5> QED
          BY <4>1, <5>2, <5>3, <5>4, FS_Singleton
      <4>4. run'[w].seen = [op |-> "adopt", s |-> s]
        BY <4>1 DEF I!See, MInv, MRuns, RequestFields
      <4>5. run'[w].seen.op = "adopt" /\ run'[w].seen.s = s
        BY <4>4
      <4> QED
        BY <1>4, <4>2, <4>3, <4>5, Viewing DEF NSeen
    <3>2. CASE I!CreateRead(w)
      <4>1. PICK read : read = [op |-> "create", who |-> I!Who(w), title |-> I!PlainTitle(w),
                                name |-> I!PlainName(w)]
        OBVIOUS
      <4>2. I!See(w, read)
        BY <3>2, <4>1 DEF I!CreateRead
      <4>3. run'[w].seen = read
        BY <4>2 DEF I!See, MInv, MRuns, RequestFields
      <4>4. /\ ~I!Keyless(w) /\ I!Known(w) = {} /\ I!Cardinality(I!Legacy(w)) # 1
            /\ ~I!Nameless(w)
        BY <3>2 DEF I!CreateRead
      <4>5. /\ read.op = "create" /\ read.who = I!Who(w) /\ read.title = I!PlainTitle(w)
            /\ read.name = I!PlainName(w)
        BY <4>1
      <4>6. \A s \in SessionId : I!Legacy(w) # {s}
        BY <2>2, <4>4
      <4> QED
        BY <1>4, <4>3, <4>4, <4>5, <4>6, Viewing DEF NSeen
    <3>3. CASE I!FillRead(w)
      BY <1>5, <3>3 DEF I!FillRead, I!Busy
    <3> QED
      BY <3>1, <3>2, <3>3
  <2> QED
    BY <1>2, <1>3, <1>4, <1>5, <2>1, <2>3, ImportStill DEF NAlone, Kept
<1>6. CASE ~(run[w].alone /\ run[w].op = "import")
  BY <1>2, <1>3, <1>6 DEF NAlone, Kept
<1> QED
  BY <1>5, <1>6

LEMMA EndedFields ==
  ASSUME NEW w, Ended(w), Rest(w), NAlone(w),
         run[w].alone /\ run[w].op = "import" => NImport(w)'
  PROVE  NAlone(w)'
BY DEF NAlone, Ended, Rest

\* A row's turn adds its outcome to what is done.
LEMMA TurnDone ==
  ASSUME MInv, NBase, NEW w \in Web, Current(w), run[w].todo # <<>>, I!RowsApart, NDone(w),
         Rest(w), NEW e, Turn(w, e)
  PROVE  NDone(w)'
<1>1. PICK S, Z, i : S = I!Sessions(w) /\ Z = I!Sessions(w)' /\ i = I!Index(w)
  OBVIOUS
<1>2. i \in 1 .. Len(sheet)
  BY <1>1, TurnIndex
<1>3. /\ run'[w].entry = [run[w].entry EXCEPT ![i] = e] /\ Settled(Z, i, e)
      /\ \A j \in 1 .. Len(sheet) : \A d : j # i /\ Settled(S, j, d) => Settled(Z, j, d)
  BY <1>1 DEF Turn
<1>4. DOMAIN run[w].entry = I!Indices
  BY DEF NBase, NTodo, ToDo, Busy, Current
<1> SUFFICES ASSUME NEW j \in I!Indices, run'[w].entry[j] # None
             PROVE  j \in 1 .. Len(sheet') /\ Settled(I!Sessions(w), j, run[w].entry[j])'
  BY DEF NDone
<1>5. PICK d : d = run'[w].entry[j]
  OBVIOUS
<1>6. j \in 1 .. Len(sheet) /\ Settled(Z, j, d)
  <2>1. CASE j = i
    BY <1>2, <1>3, <1>4, <1>5, <2>1
  <2>2. CASE j # i
    <3>1. d = run[w].entry[j] /\ d # None
      BY <1>3, <1>4, <1>5, <2>2
    <3>2. j \in 1 .. Len(sheet) /\ Settled(S, j, d)
      BY <1>1, <3>1 DEF NDone
    <3> QED
      BY <1>3, <2>2, <3>2
  <2> QED
    BY <2>1, <2>2
<1>7. UNCHANGED <<sheet, recipe>>
  BY DEF Rest
<1>8. Settled(Z, j, d)'
  BY <1>6, <1>7, SettledNext
<1> QED
  BY <1>1, <1>5, <1>6, <1>7, <1>8

\* A run of all rows after another has nothing to write.
LEMMA TurnIdle ==
  ASSUME MInv, NBase, NImported, NEW w \in Web, Current(w), run[w].todo # <<>>,
         I!RowsApart, imported, NNothing(w), NEW e, Turn(w, e)
  PROVE  NNothing(w)'
<1>1. PICK S, i : S = I!Sessions(w) /\ i = I!Index(w)
  OBVIOUS
<1>2. i \in 1 .. Len(sheet)
  BY <1>1, TurnIndex
<1>3. \A s \in SessionId : S[s] = session[s]
  BY <1>1, ViewOf DEF NNothing
<1>4. Settled(session, i, entry[i])
  BY <1>2 DEF NImported
<1>5. Settled(S, i, entry[i])
  BY <1>3, <1>4, SettledSame
<1>6. SameRows(w)
  BY <1>1, <1>5 DEF Turn
<1> QED
  BY <1>6 DEF NNothing, SameRows, Wrote

LEMMA AloneWrites ==
  ASSUME MInv, NBase, NImported, NEW w \in Web, NAlone(w),
         \/ I!RowBlank(w) \/ I!RowKnown(w) \/ I!FillBlank(w)
         \/ I!AdoptWrite(w) \/ I!CreateWrite(w) \/ I!FillWrite(w)
  PROVE  NAlone(w)' /\ Rest(w)
<1>1. CASE I!FillBlank(w)
  <2>1. PICK s : I!Log(w, "skipped", s, run[w])
    BY <1>1 DEF I!FillBlank
  <2>2. Ended(w) /\ Rest(w) /\ run[w].op # "import"
    BY <1>1, <2>1, EndsQuietly DEF I!FillBlank, I!Busy
  <2> QED
    BY <2>2, EndedFields
<1>2. CASE I!FillWrite(w)
  <2>1. Ended(w) /\ Rest(w) /\ run[w].op # "import"
    BY <1>2, Filling
  <2> QED
    BY <2>1, EndedFields
<1>3. CASE I!RowBlank(w) \/ I!RowKnown(w) \/ I!AdoptWrite(w) \/ I!CreateWrite(w)
  <2>1. Ended(w) /\ Rest(w)
    <3>1. CASE I!RowBlank(w) \/ I!RowKnown(w)
      <4>1. PICK status, s : I!Log(w, status, s, run[w])
        BY <3>1 DEF I!RowBlank, I!RowKnown
      <4> QED
        BY <4>1, EndsQuietly
    <3>2. CASE I!AdoptWrite(w)
      BY <3>2, Adopting
    <3>3. CASE I!CreateWrite(w)
      BY <3>3, Creating
    <3> QED
      BY <1>3, <3>1, <3>2, <3>3
  <2>2. run[w].todo # <<>>
    BY <1>3, SeenBusy DEF I!RowBlank, I!RowKnown, I!AdoptWrite, I!CreateWrite, I!Busy
  <2>3. ASSUME run[w].alone, run[w].op = "import" PROVE NImport(w)'
    <3>1. NImport(w) /\ run[w].rows = sheet /\ run[w].recipe = recipe
      BY <2>3 DEF NAlone
    <3>2. I!RowsApart' <=> I!RowsApart
      BY <2>1, ApartStill DEF Rest
    <3>3. recipe' = recipe /\ imported' = imported /\ run'[w].seen = None
      BY <2>1 DEF Rest, Ended
    <3>4. CASE ~recipe.keyed
      BY <3>2, <3>3, <3>4 DEF NImport, NImported
    <3>5. CASE recipe.keyed
      <4>1. Current(w)
        BY <2>3, <3>1, <3>5 DEF Current
      <4>2. run[w].seen # None => NSeen(w)
        BY <3>1 DEF NImport
      <4>3. PICK e : Turn(w, e)
        <5>1. CASE I!RowBlank(w)
          BY <4>1, <5>1, BlankTurn
        <5>2. CASE I!RowKnown(w)
          BY <4>1, <5>2, KnownTurn
        <5>3. CASE I!AdoptWrite(w)
          BY <4>1, <4>2, <5>3, AdoptTurn DEF I!AdoptWrite
        <5>4. CASE I!CreateWrite(w)
          BY <4>1, <4>2, <5>4, CreateTurn DEF I!CreateWrite
        <5> QED
          BY <1>3, <5>1, <5>2, <5>3, <5>4
      <4>4. I!RowsApart => NDone(w)'
        BY <2>1, <2>2, <3>1, <3>5, <4>1, <4>3, TurnDone DEF NImport
      <4>5. I!RowsApart /\ imported => NNothing(w)'
        BY <2>2, <3>1, <4>1, <4>3, TurnIdle DEF NImport
      <4> QED
        BY <3>2, <3>3, <4>4, <4>5 DEF NImport
    <3> QED
      BY <3>4, <3>5
  <2> QED
    BY <2>1, <2>3, EndedFields
<1> QED
  BY <1>1, <1>2, <1>3

\* A run of all rows by key that nobody disturbed has settled every one.
LEMMA CommitSettles ==
  ASSUME MInv, NBase, NEW w \in Web, NAlone(w), I!Commit(w)
  PROVE  NImported' /\ \A v \in Web : NAlone(v)'
<1>1. /\ run' = [I!Beside(run) EXCEPT ![w] = I!Idle]
      /\ session' = I!Sessions(w)
      /\ entry' = [i \in I!Indices |-> IF run[w].entry[i] = None THEN entry[i]
                                       ELSE run[w].entry[i]]
      /\ imported' = (I!Complete(w) /\ run[w].alone)
      /\ UNCHANGED <<sheet, recipe, hands>>
  BY DEF I!Commit
<1>2. ASSUME NEW v \in Web PROVE NAlone(v)'
  <2>1. CASE v = w
    <3>1. run'[w] = I!Idle
      BY <1>1 DEF MInv, MRuns, I!Beside
    <3> QED
      BY <2>1, <3>1, IdleFields DEF NAlone
  <2>2. CASE v # w
    <3>1. run'[v] = [run[v] EXCEPT !.alone = @ /\ run[v].op = "idle"]
      BY <1>1, <2>2 DEF I!Beside
    <3>2. run'[v].alone = (run[v].alone /\ run[v].op = "idle") /\ run'[v].op = run[v].op
      BY <3>1 DEF MInv, MRuns, RequestFields
    <3> QED
      BY <3>2 DEF NAlone
  <2> QED
    BY <2>1, <2>2
<1>3. NImported'
  <2> SUFFICES ASSUME imported', I!RowsApart'
               PROVE  recipe'.keyed /\ \A i \in 1 .. Len(sheet') : Settled(session, i, entry[i])'
    BY DEF NImported
  <2>1. /\ run[w].op = "import" /\ run[w].recipe = recipe /\ run[w].rows = sheet /\ recipe.keyed
        /\ run[w].alone /\ \A i \in 1 .. Len(sheet) : run[w].entry[i] # None
    BY <1>1 DEF I!Complete
  <2>2. NImport(w)
    BY <2>1 DEF NAlone
  <2>3. I!RowsApart
    <3>1. \A key : I!Deleted(key) => I!Deleted(key)'
      <4> SUFFICES ASSUME NEW key, NEW s \in I!In(session), session[s].life = "dead",
                          session[s].ident = key
                   PROVE  I!Deleted(key)'
        BY DEF I!Deleted
      <4>1. s \in SessionId
        BY DEF I!In, MInv, MRows
      <4>2. session'[s] = session[s] /\ DOMAIN session' = SessionId
        BY <1>1, <2>1, <4>1, SameDead, ViewOf
      <4> QED
        BY <4>1, <4>2 DEF I!Deleted, I!In
    <3> QED
      BY <1>1, <3>1 DEF I!RowsApart
  <2>4. NDone(w)
    BY <2>1, <2>2, <2>3 DEF NImport
  <2>5. ASSUME NEW i \in 1 .. Len(sheet) PROVE Settled(session, i, entry[i])'
    <3>1. i \in I!Indices
      BY PanelAssumption DEF NBase, NTodo, I!ImportAssumption
    <3>2. PICK S, e : S = session' /\ e = entry'[i]
      OBVIOUS
    <3>3. S = I!Sessions(w) /\ e = run[w].entry[i]
      BY <1>1, <2>1, <3>1, <3>2
    <3>4. Settled(S, i, e)
      BY <2>1, <2>4, <3>1, <3>3 DEF NDone
    <3>5. Settled(S, i, e)'
      BY <1>1, <3>4, SettledNext
    <3> QED
      BY <3>2, <3>5
  <2> QED
    BY <1>1, <2>1, <2>5
<1> QED
  BY <1>2, <1>3

\* The next one writes what is there already.
LEMMA CommitRepeats ==
  ASSUME MInv, NBase, NTables, NImported, NEW w \in Web, NAlone(w), I!Commit(w),
         imported, I!RowsApart, I!Complete(w), run[w].alone
  PROVE  UNCHANGED <<session, person, entry>>
<1>1. /\ session' = I!Sessions(w) /\ person' = I!People(w)
      /\ entry' = [i \in I!Indices |-> IF run[w].entry[i] = None THEN entry[i]
                                       ELSE run[w].entry[i]]
  BY DEF I!Commit
<1>2. run[w].op = "import" /\ recipe.keyed
  BY DEF I!Complete
<1>3. NDone(w) /\ NNothing(w)
  BY <1>2 DEF NAlone, NImport
<1>4. session' = session /\ person' = person
  <2>1. I!Sessions(w) = [s \in SessionId |-> session[s]]
    BY <1>3 DEF I!Sessions, I!Over, NNothing, MInv, MRows
  <2>2. I!People(w) = [f \in FacilitatorId |-> person[f]]
    BY <1>3 DEF I!People, I!Over, NNothing, Wrote, MInv, MRows
  <2> QED
    BY <1>1, <2>1, <2>2 DEF NTables
<1>5. \A s \in SessionId : I!Sessions(w)[s] = session[s]
  BY <1>3, ViewOf DEF NNothing
<1>6. ASSUME NEW i \in I!Indices, run[w].entry[i] # None PROVE run[w].entry[i] = entry[i]
  <2>1. i \in 1 .. Len(sheet) /\ Settled(I!Sessions(w), i, run[w].entry[i])
    BY <1>3, <1>6 DEF NDone
  <2>2. Settled(session, i, run[w].entry[i])
    BY <1>5, <2>1, SettledSame
  <2>3. Settled(session, i, entry[i])
    BY <2>1 DEF NImported
  <2>4. UniqueRows(SessionId, session)
    BY DEF NBase, NUnique, Unique
  <2> QED
    BY <2>2, <2>3, <2>4, SettledOnce
<1>7. entry' = [i \in I!Indices |-> entry[i]]
  BY <1>1, <1>6
<1> QED
  BY <1>4, <1>7 DEF NBase, NTodo

\* Whatever is changed by hand, nobody is alone any more.
LEMMA HandAlone ==
  ASSUME MInv, run' = I!Beside(run), imported' = FALSE
  PROVE  NImported' /\ \A v \in Web : NAlone(v)'
BY BesideFields DEF NImported, NAlone

LEMMA HandChanges ==
  ASSUME I!Edit \/ I!Undelete \/ \E i \in I!Indices, keep \in BOOLEAN : I!RowGone(i, keep)
  PROVE  run' = I!Beside(run) /\ imported' = FALSE
<1>1. ASSUME NEW s, NEW new, I!EditSession(s, new) \/ I!EditPerson(s, new)
      PROVE  run' = I!Beside(run) /\ imported' = FALSE
  BY <1>1 DEF I!EditSession, I!EditPerson, I!ByHand
<1>2. CASE I!Edit
  BY <1>1, <1>2 DEF I!Edit, I!EditText, I!Retitle, I!DeleteSession, I!SetPeople, I!EditAnswer,
       I!DeletePerson, I!AddPerson, I!Configure, I!ChangeSheet, I!ByHand
<1>3. CASE I!Undelete
  BY <1>1, <1>3 DEF I!Undelete, I!RestoreSession, I!RestorePerson
<1>4. CASE \E i \in I!Indices, keep \in BOOLEAN : I!RowGone(i, keep)
  BY <1>4 DEF I!RowGone
<1> QED
  BY <1>2, <1>3, <1>4

LEMMA TablesInit == Init => NTables
BY DEF Init, I!Init, NTables

LEMMA TablesNext ==
  ASSUME MInv, NTables, I!Next
  PROVE  NTables'
<1>1. DOMAIN person = FacilitatorId /\ DOMAIN session = SessionId
  BY DEF MInv, MRows
<1>2. ASSUME NEW f, NEW new, person' = [person EXCEPT ![f] = new], UNCHANGED session
      PROVE  NTables'
  BY <1>1, <1>2 DEF NTables
<1>3. ASSUME NEW s, NEW new, session' = [session EXCEPT ![s] = new], UNCHANGED person
      PROVE  NTables'
  BY <1>1, <1>3 DEF NTables
<1>4. ASSUME UNCHANGED <<session, person>> PROVE NTables'
  BY <1>4 DEF NTables
<1>5. ASSUME NEW s, NEW new, I!EditSession(s, new) PROVE NTables'
  BY <1>3, <1>5 DEF I!EditSession
<1>6. ASSUME NEW f, NEW new, I!EditPerson(f, new) PROVE NTables'
  BY <1>2, <1>6 DEF I!EditPerson
<1>7. ASSUME NEW name, I!AddPerson(name) PROVE NTables'
  <2>1. PICK f, new : f = I!Min(I!NewPeople) /\ new = I!NewPerson(None, name, None, {})
    OBVIOUS
  <2>2. person' = [person EXCEPT ![f] = new] /\ UNCHANGED session
    BY <1>7, <2>1 DEF I!AddPerson
  <2> QED
    BY <1>2, <2>2
<1>8. ASSUME NEW w \in Web, I!Commit(w) PROVE NTables'
  <2>1. session' = I!Sessions(w) /\ person' = I!People(w)
    BY <1>8 DEF I!Commit
  <2>2. /\ DOMAIN I!Sessions(w) = SessionId /\ DOMAIN I!People(w) = FacilitatorId
        /\ I!Sessions(w) = [s \in SessionId |-> I!Sessions(w)[s]]
        /\ I!People(w) = [f \in FacilitatorId |-> I!People(w)[f]]
    BY <1>1 DEF I!Sessions, I!People, I!Over
  <2>3. PICK S, T : S = I!Sessions(w) /\ T = I!People(w)
    OBVIOUS
  <2>4. S = [s \in SessionId |-> S[s]] /\ T = [f \in FacilitatorId |-> T[f]]
    BY <2>2, <2>3
  <2>5. session' = S /\ person' = T
    BY <2>1, <2>3
  <2> QED
    BY <2>4, <2>5 DEF NTables
<1>9. CASE I!Edit
  BY <1>4, <1>5, <1>6, <1>7, <1>9 DEF I!Edit, I!EditText, I!Retitle, I!DeleteSession,
       I!SetPeople, I!EditAnswer, I!DeletePerson, I!Configure, I!ChangeSheet
<1>10. CASE I!Undelete
  BY <1>5, <1>6, <1>10 DEF I!Undelete, I!RestoreSession, I!RestorePerson
<1>11. CASE \E i \in I!Indices, keep \in BOOLEAN : I!RowGone(i, keep)
  BY <1>4, <1>11 DEF I!RowGone
<1>12. ASSUME NEW w \in Web, I!Request(w) PROVE NTables'
  <2>1. ASSUME NEW todo, NEW target, I!Begin(w, todo, target) PROVE NTables'
    BY <1>4, <2>1 DEF I!Begin
  <2>2. ASSUME NEW seen, I!See(w, seen) PROVE NTables'
    BY <1>4, <2>2 DEF I!See
  <2>3. ASSUME NEW status, NEW s, NEW written, I!Log(w, status, s, written) PROVE NTables'
    BY <1>4, <2>3 DEF I!Log
  <2>4. CASE \/ I!RunAll(w) \/ I!RunSample(w)
             \/ \E i \in I!Indices : I!Retry(w, i) \/ I!Reimport(w, i)
    BY <2>1, <2>4 DEF I!RunAll, I!RunSample, I!Retry, I!Reimport
  <2>5. CASE I!AdoptRead(w) \/ I!CreateRead(w) \/ I!FillRead(w)
    BY <2>2, <2>5 DEF I!AdoptRead, I!CreateRead, I!FillRead
  <2>6. CASE I!RowBlank(w) \/ I!RowKnown(w) \/ I!FillBlank(w)
    BY <2>3, <2>6 DEF I!RowBlank, I!RowKnown, I!FillBlank
  <2>7. CASE I!AdoptWrite(w) \/ I!CreateWrite(w) \/ I!FillWrite(w)
    <3>1. \E status, s, written : I!Log(w, status, s, written)
      BY <2>7 DEF I!AdoptWrite, I!CreateWrite, I!FillWrite
    <3> QED
      BY <2>3, <3>1
  <2>8. CASE I!Abort(w)
    BY <1>4, <2>8 DEF I!Abort
  <2> QED
    BY <1>8, <1>12, <2>4, <2>5, <2>6, <2>7, <2>8 DEF I!Request
<1> QED
  BY <1>9, <1>10, <1>11, <1>12 DEF I!Next

-----------------------------------------------------------------------------
\* What is proved of each step: the next run of all rows repeats the last.
Repeats(w) ==
  imported /\ I!RowsApart /\ I!Complete(w) /\ run[w].alone /\ run'[w] = I!Idle =>
    session' = session /\ person' = person /\ entry' = entry

LEMMA NInit == Init => NInv
<1> SUFFICES ASSUME Init PROVE NInv
  OBVIOUS
<1>1. \A w \in Web : run[w] = I!Idle
  BY DEF Init, I!Init
<1>2. \A w \in Web : NAlone(w)
  BY <1>1, IdleFields DEF NAlone
<1>3. NImported
  BY DEF Init, I!Init, NImported
<1> QED
  BY <1>2, <1>3, MInit, NBaseInit, TablesInit DEF NInv

\* A step of a request other than a commit: what is committed stands.
LEMMA AloneRequest ==
  ASSUME NInv, NEW w \in Web, I!Request(w), ~I!Commit(w)
  PROVE  /\ NAlone(w)' /\ \A v \in Web \ {w} : Untouched(v)
         /\ UNCHANGED <<sheet, recipe, session, person, entry, imported>>
<1>1. MInv /\ NBase /\ NImported /\ NAlone(w)
  BY DEF NInv
<1>2. CASE \/ I!RunAll(w) \/ I!RunSample(w)
           \/ \E i \in I!Indices : I!Retry(w, i) \/ I!Reimport(w, i)
  <2>1. PICK todo, target : I!Begin(w, todo, target)
    BY <1>2 DEF I!RunAll, I!RunSample, I!Retry, I!Reimport
  <2> QED
    BY <1>1, <2>1, AloneBegins, Beginning
<1>3. CASE I!AdoptRead(w) \/ I!CreateRead(w) \/ I!FillRead(w)
  <2>1. PICK seen : I!See(w, seen)
    BY <1>3 DEF I!AdoptRead, I!CreateRead, I!FillRead
  <2>2. /\ \A v \in Web \ {w} : Untouched(v)
        /\ UNCHANGED <<sheet, recipe, session, person, entry, imported>>
    BY <1>1, <2>1 DEF I!See, MInv, MRuns, Untouched
  <2>3. NAlone(w)'
    BY <1>1, <1>3, AloneReads
  <2> QED
    BY <2>2, <2>3
<1>4. CASE \/ I!RowBlank(w) \/ I!RowKnown(w) \/ I!FillBlank(w)
           \/ I!AdoptWrite(w) \/ I!CreateWrite(w) \/ I!FillWrite(w)
  <2>1. NAlone(w)' /\ Rest(w)
    BY <1>1, <1>4, AloneWrites
  <2> QED
    BY <2>1 DEF Rest
<1>5. CASE I!Abort(w)
  <2>1. /\ run' = [run EXCEPT ![w] = I!Idle]
        /\ UNCHANGED <<sheet, recipe, session, person, entry, hands, imported>>
    BY <1>5 DEF I!Abort
  <2>2. run'[w] = I!Idle /\ \A v \in Web \ {w} : Untouched(v)
    BY <1>1, <2>1 DEF MInv, MRuns, Untouched
  <2> QED
    BY <2>1, <2>2, IdleFields DEF NAlone
<1> QED
  BY <1>2, <1>3, <1>4, <1>5 DEF I!Request

LEMMA AloneNext ==
  ASSUME NInv, I!Next
  PROVE  NImported' /\ (\A v \in Web : NAlone(v)') /\ \A v \in Web : Repeats(v)
<1>1. MInv /\ NBase /\ NTables /\ NImported /\ \A w \in Web : NAlone(w)
  BY DEF NInv
<1>2. ASSUME NEW w \in Web, I!Commit(w)
      PROVE  NImported' /\ (\A v \in Web : NAlone(v)') /\ \A v \in Web : Repeats(v)
  <2>1. NImported' /\ \A v \in Web : NAlone(v)'
    BY <1>1, <1>2, CommitSettles
  <2>2. Repeats(w)
    BY <1>1, <1>2, CommitRepeats DEF Repeats
  <2>3. ASSUME NEW v \in Web \ {w} PROVE Repeats(v)
    <3>1. run'[v].op = run[v].op
      BY <1>1, <1>2, MCommit DEF Alike, Kept
    <3> QED
      BY <3>1, IdleFields DEF Repeats, I!Complete
  <2> QED
    BY <2>1, <2>2, <2>3
<1>3. ASSUME NEW w \in Web, I!Request(w), ~I!Commit(w)
      PROVE  NImported' /\ (\A v \in Web : NAlone(v)') /\ \A v \in Web : Repeats(v)
  <2>1. /\ NAlone(w)' /\ \A v \in Web \ {w} : Untouched(v)
        /\ UNCHANGED <<sheet, recipe, session, person, entry, imported>>
    BY <1>3, AloneRequest
  <2>2. NImported'
    BY <1>1, <2>1, ImportedStill
  <2>3. \A v \in Web \ {w} : NAlone(v)'
    BY <1>1, <2>1, AloneUntouched
  <2> QED
    BY <2>1, <2>2, <2>3 DEF Repeats
<1>4. CASE I!Edit \/ I!Undelete \/ \E i \in I!Indices, keep \in BOOLEAN : I!RowGone(i, keep)
  <2>1. run' = I!Beside(run) /\ imported' = FALSE
    BY <1>4, HandChanges
  <2>2. NImported' /\ \A v \in Web : NAlone(v)'
    BY <1>1, <2>1, HandAlone
  <2>3. \A v \in Web : Repeats(v)
    BY <1>1, <2>1, BesideFields, IdleFields DEF Repeats, I!Complete
  <2> QED
    BY <2>2, <2>3
<1> QED
  BY <1>2, <1>3, <1>4 DEF I!Next

LEMMA NNext ==
  ASSUME NInv, [Next]_vars
  PROVE  NInv' /\ \A v \in Web : Repeats(v)
<1>1. MInv' /\ NBase'
  BY MNext, NBaseNext DEF NInv
<1>2. CASE InImport /\ I!Next
  BY <1>1, <1>2, AloneNext, TablesNext DEF NInv
<1>3. CASE UNCHANGED import
  <2>1. UNCHANGED <<sheet, recipe, session, person, entry, run, imported>>
    BY <1>3 DEF import
  <2>2. NTables'
    BY <2>1 DEF NInv, NTables
  <2>3. NImported' /\ \A v \in Web : NAlone(v)'
    BY <2>1, ImportedStill, AloneUntouched DEF NInv, Untouched
  <2> QED
    BY <1>1, <2>1, <2>2, <2>3 DEF NInv, Repeats
<1>4. (InImport /\ I!Next) \/ UNCHANGED import
  BY DEF Next, InFacilitators, InErrata, InGrid, vars
<1> QED
  BY <1>2, <1>3, <1>4

\* Idempotent re-runs: where the rows can be told apart, a run of all rows by
\* key after another, with nothing done beside or between, changes no proposal,
\* no facilitator and no entry of the log, whatever the first one adopted,
\* skipped or found deleted (mills/submissions/engine.py, _resolve_ident,
\* _match_facilitator and _create_proposal).
THEOREM RerunChangesNothingHolds == Spec => RerunChangesNothing
<1>1. NInv /\ [Next]_vars => NInv'
  BY NNext
<1>2. NInv /\ [Next]_vars =>
        [\A w \in Web :
           imported /\ I!RowsApart /\ I!Complete(w) /\ run[w].alone /\ run'[w] = I!Idle =>
             session' = session /\ person' = person /\ entry' = entry]_import
  BY NNext DEF Repeats
<1> QED
  BY <1>1, <1>2, NInit, PTL DEF Spec, RerunChangesNothing, I!RerunChangesNothing, I!vars, import
=============================================================================

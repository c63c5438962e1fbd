------------------------------ MODULE GridProofs ------------------------------
(***************************************************************************)
(* The timetable page, for any number of sessions, spaces and slots: every *)
(* clash is told once, and the page shows the day as it is.                *)
(*                                                                         *)
(* The code goes through slots and sessions in the order of their starts,  *)
(* with an accumulator.  The proofs follow it: what there is of a finite   *)
(* set can be put in order (PutInOrder), a fold over it takes one value    *)
(* after another (FoldIsThere), and what is true of the first and stays    *)
(* true is true of the last (CountedTo), by the least counterexample.      *)
(***************************************************************************)
EXTENDS Panel, Sequences, TLAPS, FiniteSetTheorems, SequenceTheorems,
        WellFoundedInduction

\* A page counts its clashes as this module does.
LEMMA GSets ==
  \A D : G!Cardinality(D) = Cardinality(D) /\ (G!IsFiniteSet(D) <=> IsFiniteSet(D))
BY DEF G!Cardinality, Cardinality, G!IsFiniteSet, IsFiniteSet

-----------------------------------------------------------------------------
\* The timetable page.  What it tells is worked out of the two reads alone, so
\* it holds of any two: nothing has to be said of how the page came by them.

\* Whether two sessions clash, as one read has them.
Meet(items, s, t) ==
  /\ s \in Number /\ t \in Number /\ s # t
  /\ items[s] # None /\ items[t] # None
  /\ G!Overlap(items[s].window, items[t].window)

Shared(s, t) == (RunBy[s] \cap RunBy[t]) \ Collective

LEMMA MeetEachOther ==
  ASSUME NEW items, NEW s, NEW t
  PROVE  Meet(items, s, t) <=> Meet(items, t, s)
BY DEF Meet, G!Overlap

\* The clashes there are, each by what it is about.
LEMMA ClashesAre ==
  ASSUME NEW items, NEW c
  PROVE  c \in G!Clashes(items) <=>
    \/ \E s, t \in Number :
         Meet(items, s, t) /\ items[s].space = items[t].space /\ c = <<"space", {s, t}, None>>
    \/ \E s, t \in Number : \E f \in Shared(s, t) :
         Meet(items, s, t) /\ c = <<"facilitator", {s, t}, f>>
    \/ \E s \in Number :
         /\ items[s] # None /\ c = <<"capacity", {s}, None>>
         /\ Capacity[items[s].space] # None /\ Capacity[items[s].space] < Limit[s]
<1> DEFINE pairs == {x \in G!Placed(items) \X G!Placed(items) :
                       x[1] # x[2] /\ G!Overlap(items[x[1]].window, items[x[2]].window)}
           alike == {<<"space", {x[1], x[2]}, None>> :
                       x \in {y \in pairs : items[y[1]].space = items[y[2]].space}}
           host == UNION {{<<"facilitator", {x[1], x[2]}, f>> : f \in Shared(x[1], x[2])} : x \in pairs}
           full == {<<"capacity", {s}, None>> :
                      s \in {t \in G!Placed(items) : Capacity[items[t].space] # None
                                                   /\ Capacity[items[t].space] < Limit[t]}}
<1>1. G!Clashes(items) = alike \cup host \cup full
  BY DEF G!Clashes, Shared
<1>2. \A s, t : Meet(items, s, t) <=> <<s, t>> \in pairs
  BY DEF Meet, G!Placed
<1>3. \A x \in pairs : x = <<x[1], x[2]>> /\ x[1] \in Number /\ x[2] \in Number
  BY DEF G!Placed
<1>4. c \in alike <=> \E s, t \in Number :
        Meet(items, s, t) /\ items[s].space = items[t].space /\ c = <<"space", {s, t}, None>>
  <2>1. ASSUME c \in alike
        PROVE  \E s, t \in Number :
                 Meet(items, s, t) /\ items[s].space = items[t].space
                 /\ c = <<"space", {s, t}, None>>
    <3>1. PICK x \in pairs : /\ items[x[1]].space = items[x[2]].space
                             /\ c = <<"space", {x[1], x[2]}, None>>
      BY <2>1
    <3> HIDE DEF pairs
    <3> QED
      BY <1>2, <1>3, <3>1
  <2>2. ASSUME NEW s \in Number, NEW t \in Number, Meet(items, s, t),
               items[s].space = items[t].space, c = <<"space", {s, t}, None>>
        PROVE  c \in alike
    <3>1. <<s, t>> \in pairs
      BY <1>2, <2>2
    <3> HIDE DEF pairs
    <3> QED
      BY <2>2, <3>1
  <2> QED
    BY <2>1, <2>2
<1>5. c \in host <=> \E s, t \in Number : \E f \in Shared(s, t) :
        Meet(items, s, t) /\ c = <<"facilitator", {s, t}, f>>
  <2>1. ASSUME c \in host
        PROVE  \E s, t \in Number : \E f \in Shared(s, t) :
                 Meet(items, s, t) /\ c = <<"facilitator", {s, t}, f>>
    <3>1. PICK x \in pairs : \E f \in Shared(x[1], x[2]) : c = <<"facilitator", {x[1], x[2]}, f>>
      BY <2>1
    <3> HIDE DEF pairs
    <3> QED
      BY <1>2, <1>3, <3>1
  <2>2. ASSUME NEW s \in Number, NEW t \in Number, NEW f \in Shared(s, t),
               Meet(items, s, t), c = <<"facilitator", {s, t}, f>>
        PROVE  c \in host
    <3>1. <<s, t>> \in pairs
      BY <1>2, <2>2
    <3> HIDE DEF pairs
    <3> QED
      BY <2>2, <3>1
  <2> QED
    BY <2>1, <2>2
<1>6. c \in full <=> \E s \in Number :
        /\ items[s] # None /\ c = <<"capacity", {s}, None>>
        /\ Capacity[items[s].space] # None /\ Capacity[items[s].space] < Limit[s]
  BY DEF G!Placed
<1> HIDE DEF alike, host, full
<1> QED
  BY <1>1, <1>4, <1>5, <1>6

\* What the page tells, each by what it is about.
LEMMA ToldAre ==
  ASSUME NEW p, NEW c
  PROVE  c \in G!Conflicts(p) <=>
    \E s \in G!Subjects(p) :
      LET now == p.now[s] IN
      \/ \E t \in Number : /\ t # s /\ p.items[t] # None
                           /\ G!Overlap(now.window, p.items[t].window)
                           /\ \/ /\ p.items[t].space = now.space
                                 /\ c = <<"space", s, t, None>>
                              \/ /\ p.items[s] # None
                                 /\ \E f \in Shared(s, t) : c = <<"facilitator", s, t, f>>
                           /\ t >= s \/ t \notin G!Subjects(p)
      \/ /\ Capacity[now.space] # None /\ Capacity[now.space] < Limit[s]
         /\ s >= s \/ s \notin G!Subjects(p)
         /\ c = <<"capacity", s, s, None>>
<1> DEFINE told(s) == {d \in G!Detected(s, p.now[s], p.items) :
                         G!ToldBy(s, d[3], G!Subjects(p))}
<1>1. c \in G!Conflicts(p) <=> \E s \in G!Subjects(p) : c \in told(s)
  BY DEF G!Conflicts
<1>2. \A s \in G!Subjects(p) : s \in Number
  BY DEF G!Subjects, G!Placed
<1>3. ASSUME NEW s \in G!Subjects(p)
      PROVE  c \in told(s) <=>
        LET now == p.now[s] IN
        \/ \E t \in Number : /\ t # s /\ p.items[t] # None
                             /\ G!Overlap(now.window, p.items[t].window)
                             /\ \/ /\ p.items[t].space = now.space
                                   /\ c = <<"space", s, t, None>>
                                \/ /\ p.items[s] # None
                                   /\ \E f \in Shared(s, t) : c = <<"facilitator", s, t, f>>
                             /\ t >= s \/ t \notin G!Subjects(p)
        \/ /\ Capacity[now.space] # None /\ Capacity[now.space] < Limit[s]
           /\ s >= s \/ s \notin G!Subjects(p)
           /\ c = <<"capacity", s, s, None>>
  <2> DEFINE now == p.now[s]
             others == {t \in G!Placed(p.items) \ {s} : G!Overlap(now.window, p.items[t].window)}
             alike == {<<"space", s, t, None>> :
                         t \in {u \in others : p.items[u].space = now.space}}
             host == UNION {{<<"facilitator", s, t, f>> : f \in Shared(s, t)} :
                              t \in {u \in others : s \in G!Placed(p.items)}}
  <2>1. G!Detected(s, now, p.items)
          = alike \cup {<<"capacity", s, s, None>> :
                          u \in {v \in {s} : Capacity[now.space] # None
                                             /\ Capacity[now.space] < Limit[s]}} \cup host
    BY DEF G!Detected, Shared
  <2>2. \A t : t \in others <=> /\ t \in Number /\ t # s /\ p.items[t] # None
                                /\ G!Overlap(now.window, p.items[t].window)
    BY DEF G!Placed
  <2>3. c \in alike <=> \E t \in others : p.items[t].space = now.space /\ c = <<"space", s, t, None>>
    BY Zenon
  <2>4. c \in host <=> \E t \in others : p.items[s] # None
                          /\ \E f \in Shared(s, t) : c = <<"facilitator", s, t, f>>
    <3>1. s \in G!Placed(p.items) <=> p.items[s] # None
      BY <1>2 DEF G!Placed
    <3>2. ASSUME c \in host
          PROVE  \E t \in others : p.items[s] # None
                   /\ \E f \in Shared(s, t) : c = <<"facilitator", s, t, f>>
      <4>1. PICK t \in {u \in others : s \in G!Placed(p.items)} :
              c \in {<<"facilitator", s, t, f>> : f \in Shared(s, t)}
        BY <3>2, Zenon
      <4> HIDE DEF others, now
      <4> QED
        BY <3>1, <4>1
    <3>3. ASSUME NEW t \in others, p.items[s] # None, NEW f \in Shared(s, t),
                 c = <<"facilitator", s, t, f>>
          PROVE  c \in host
      <4>1. t \in {u \in others : s \in G!Placed(p.items)}
        BY <3>1, <3>3
      <4>2. c \in {<<"facilitator", s, t, g>> : g \in Shared(s, t)}
        BY <3>3
      <4> HIDE DEF others, now
      <4> QED
        BY <4>1, <4>2
    <3> HIDE DEF host, others, now
    <3> QED
      BY <3>2, <3>3
  <2>5. c \in G!Detected(s, now, p.items) <=>
          \/ c \in alike \/ c \in host
          \/ /\ Capacity[now.space] # None /\ Capacity[now.space] < Limit[s]
             /\ c = <<"capacity", s, s, None>>
    <3> HIDE DEF alike, host
    <3> QED
      BY <2>1
  <2>6. \A t : G!ToldBy(s, t, G!Subjects(p)) <=> t >= s \/ t \notin G!Subjects(p)
    BY DEF G!ToldBy
  <2>7. c \in told(s) <=> c \in G!Detected(s, now, p.items) /\ G!ToldBy(s, c[3], G!Subjects(p))
    OBVIOUS
  <2> HIDE DEF told, others, alike, host, now
  <2> QED
    BY <2>2, <2>3, <2>4, <2>5, <2>6, <2>7 DEF now
<1> HIDE DEF told
<1> QED
  BY <1>1, <1>3

\* Who tells a clash is one of the subjects, and of two subjects the lower pk.
LEMMA ToldShape ==
  ASSUME NEW p, NEW c \in G!Conflicts(p)
  PROVE  /\ c = <<c[1], c[2], c[3], c[4]>>
         /\ c[1] \in {"space", "facilitator", "capacity"}
         /\ c[2] \in G!Subjects(p) /\ c[2] \in Number /\ c[3] \in Number
         /\ c[4] \in Host \cup {None}
         /\ c[3] >= c[2] \/ c[3] \notin G!Subjects(p)
<1>1. PICK s \in G!Subjects(p) :
        \/ \E t \in Number : /\ c = <<"space", s, t, None>>
                             /\ t >= s \/ t \notin G!Subjects(p)
        \/ \E t \in Number : /\ \E f \in Shared(s, t) : c = <<"facilitator", s, t, f>>
                             /\ t >= s \/ t \notin G!Subjects(p)
        \/ c = <<"capacity", s, s, None>>
  BY ToldAre
<1>2. s \in Number /\ Number \subseteq Nat
  BY PanelAssumption DEF G!Subjects, G!Placed, G!GridAssumption
<1>3. \A t \in Number : Shared(s, t) \subseteq Host
  BY <1>2, PanelAssumption DEF G!GridAssumption, Shared
<1>4. s >= s
  BY <1>2
<1> QED
  BY <1>1, <1>2, <1>3, <1>4

\* A pair of clashing sessions is told once.
LEMMA PairToldOnce ==
  ASSUME NEW p, NEW c \in G!Conflicts(p), NEW d \in G!Conflicts(p),
         c[1] = d[1], {c[2], c[3]} = {d[2], d[3]}, c[4] = d[4]
  PROVE  c = d
<1>1. /\ c = <<c[1], c[2], c[3], c[4]>> /\ d = <<d[1], d[2], d[3], d[4]>>
      /\ c[2] \in G!Subjects(p) /\ d[2] \in G!Subjects(p)
      /\ c[3] >= c[2] \/ c[3] \notin G!Subjects(p)
      /\ d[3] >= d[2] \/ d[3] \notin G!Subjects(p)
  BY ToldShape
<1>2. c[2] \in Nat /\ c[3] \in Nat /\ d[2] \in Nat /\ d[3] \in Nat
  <2>1. Number \subseteq Nat
    BY PanelAssumption DEF G!GridAssumption
  <2> QED
    BY <2>1, ToldShape
<1>3. (c[2] = d[2] /\ c[3] = d[3]) \/ (c[2] = d[3] /\ c[3] = d[2])
  OBVIOUS
<1>4. CASE c[2] = d[2] /\ c[3] = d[3]
  BY <1>1, <1>4
<1>5. CASE c[2] = d[3] /\ c[3] = d[2]
  <2>1. c[3] >= c[2] /\ c[2] >= c[3]
    BY <1>1, <1>5
  <2>2. c[2] = c[3]
    BY <1>2, <2>1
  <2> QED
    BY <1>1, <1>5, <2>2
<1> QED
  BY <1>3, <1>4, <1>5

\* A clash by what it is about, whoever tells it.
About(c) == <<c[1], {c[2], c[3]}, c[4]>>
Told(p) == {About(c) : c \in G!Conflicts(p)}

LEMMA AsManyTold ==
  ASSUME NEW p
  PROVE  Cardinality(Told(p)) = Cardinality(G!Conflicts(p))
<1> DEFINE D == G!Conflicts(p)
           kinds == {"space", "facilitator", "capacity"}
           all == (kinds \X Number) \X (Number \X (Host \cup {None}))
           g == [c \in D |-> <<<<c[1], c[2]>>, <<c[3], c[4]>>>>]
           f == [c \in D |-> About(c)]
<1>1. IsFiniteSet(all)
  <2>1. IsFiniteSet(Number) /\ IsFiniteSet(Host)
    BY GSets, PanelAssumption DEF G!GridAssumption
  <2>2. IsFiniteSet(kinds) /\ IsFiniteSet(Host \cup {None})
    <3>1. kinds = ({"space"} \cup {"facilitator"}) \cup {"capacity"}
      OBVIOUS
    <3>2. IsFiniteSet({"space"})
      BY FS_Singleton
    <3>3. IsFiniteSet({"space"} \cup {"facilitator"})
      BY <3>2, FS_AddElement
    <3>4. IsFiniteSet(({"space"} \cup {"facilitator"}) \cup {"capacity"})
      BY <3>3, FS_AddElement
    <3>5. IsFiniteSet(Host \cup {None})
      BY <2>1, FS_AddElement
    <3> QED
      BY <3>1, <3>4, <3>5
  <2>3. IsFiniteSet(kinds \X Number) /\ IsFiniteSet(Number \X (Host \cup {None}))
    BY <2>1, <2>2, FS_Product
  <2> QED
    BY <2>3, FS_Product
<1>2. IsFiniteSet(D)
  <2>1. \A c \in D : g[c] \in all
    BY ToldShape
  <2>2. \A c, d \in D : g[c] = g[d] => c = d
    <3> SUFFICES ASSUME NEW c \in D, NEW d \in D, g[c] = g[d] PROVE c = d
      OBVIOUS
    <3>1. c[1] = d[1] /\ c[2] = d[2] /\ c[3] = d[3] /\ c[4] = d[4]
      OBVIOUS
    <3>2. c = <<c[1], c[2], c[3], c[4]>> /\ d = <<d[1], d[2], d[3], d[4]>>
      BY ToldShape
    <3> QED
      BY <3>1, <3>2
  <2>3. g \in [D -> all]
    BY <2>1
  <2> HIDE DEF g, all, D
  <2>4. g \in Injection(D, all)
    BY <2>2, <2>3 DEF Injection, IsInjective
  <2> QED
    BY <1>1, <2>4, FS_Injection
<1>3. f \in [D -> Told(p)] /\ \A e \in Told(p) : \E c \in D : f[c] = e
  BY DEF Told
<1>4. \A c, d \in D : f[c] = f[d] => c = d
  <2> SUFFICES ASSUME NEW c \in D, NEW d \in D, f[c] = f[d] PROVE c = d
    OBVIOUS
  <2>1. c[1] = d[1] /\ {c[2], c[3]} = {d[2], d[3]} /\ c[4] = d[4]
    BY DEF About
  <2> QED
    BY <2>1, PairToldOnce
<1> HIDE DEF f, D
<1>5. f \in Surjection(D, Told(p)) /\ f \in Injection(D, Told(p))
  BY <1>3, <1>4 DEF Surjection, Injection, IsInjective
<1> QED
  BY <1>2, <1>5, FS_Surjection DEF D

\* What moved between the two reads of a page.
Moved(p) == {s \in Number : p.items[s] # p.now[s]}

\* Of a clash that is steady, one of the two sessions has stayed where it was.
LEMMA OneStayed ==
  ASSUME NEW p, NEW s \in Number, NEW t \in Number, s # t,
         Cardinality({s, t} \cap Moved(p)) <= 1
  PROVE  p.items[s] = p.now[s] \/ p.items[t] = p.now[t]
<1>1. ASSUME s \in Moved(p), t \in Moved(p) PROVE FALSE
  <2>1. {s, t} \cap Moved(p) = {s} \cup {t}
    BY <1>1
  <2>2. IsFiniteSet({s}) /\ Cardinality({s}) = 1
    BY FS_Singleton
  <2>3. Cardinality({s} \cup {t}) = 2
    BY <2>2, FS_AddElement
  <2> QED
    BY <2>1, <2>3
<1> QED
  BY <1>1 DEF Moved

\* A clash that stands at both reads is told, if one of its sessions stayed and
\* one is a subject.
LEMMA StandingIsTold ==
  ASSUME NEW p, NEW c \in G!Clashes(p.items) \cap G!Clashes(p.now),
         Cardinality(c[2] \cap Moved(p)) <= 1, c[2] \cap G!Subjects(p) # {}
  PROVE  c \in Told(p)
<1>1. Number \subseteq Nat
  BY PanelAssumption DEF G!GridAssumption
<1>2. ASSUME NEW s \in G!Subjects(p), NEW t \in Number, NEW kind, NEW f,
             c = <<kind, {s, t}, f>>,
             Meet(p.items, s, t), Meet(p.now, s, t),
             \/ /\ kind = "space" /\ f = None
                /\ p.items[s].space = p.items[t].space /\ p.now[s].space = p.now[t].space
             \/ kind = "facilitator" /\ f \in Shared(s, t)
      PROVE  c \in Told(p)
  <2>1. s \in Number /\ s # t /\ p.items[s] # None /\ p.items[t] # None
    BY <1>2 DEF Meet
  <2>2. p.now[s] # None /\ p.now[t] # None
    BY <1>2 DEF Meet
  <2>3. p.items[s] = p.now[s] \/ p.items[t] = p.now[t]
    <3>1. c[2] = {s, t}
      BY <1>2
    <3> QED
      BY <2>1, <3>1, OneStayed
  <2>4. /\ G!Overlap(p.now[s].window, p.items[t].window)
        /\ G!Overlap(p.now[t].window, p.items[s].window)
    BY <1>2, <2>3, MeetEachOther DEF Meet
  <2>5. kind = "space" => p.items[t].space = p.now[s].space /\ p.items[s].space = p.now[t].space
    BY <1>2, <2>3
  <2>6. Shared(s, t) = Shared(t, s)
    BY DEF Shared
  <2>7. CASE t >= s \/ t \notin G!Subjects(p)
    <3>1. <<kind, s, t, f>> \in G!Conflicts(p)
      BY <1>2, <2>1, <2>4, <2>5, <2>7, ToldAre
    <3> QED
      BY <1>2, <3>1 DEF Told, About
  <2>8. CASE t \in G!Subjects(p) /\ ~(t >= s)
    <3>1. s >= t
      BY <1>1, <2>1, <2>8
    <3>2. <<kind, t, s, f>> \in G!Conflicts(p)
      BY <1>2, <2>1, <2>4, <2>5, <2>6, <2>8, <3>1, ToldAre
    <3>3. {t, s} = {s, t}
      OBVIOUS
    <3> QED
      BY <1>2, <3>2, <3>3 DEF Told, About
  <2> QED
    BY <2>7, <2>8
<1>3. \A s, t : Shared(s, t) = Shared(t, s) /\ {s, t} = {t, s}
  BY DEF Shared
<1>4. CASE c[1] = "capacity"
  <2>1. PICK s \in Number : p.items[s] # None /\ c = <<"capacity", {s}, None>>
    BY <1>4, ClashesAre
  <2>2. PICK t \in Number :
          /\ p.now[t] # None /\ c = <<"capacity", {t}, None>>
          /\ Capacity[p.now[t].space] # None /\ Capacity[p.now[t].space] < Limit[t]
    BY <1>4, ClashesAre
  <2>3. s = t /\ s \in G!Subjects(p)
    BY <2>1, <2>2
  <2>4. <<"capacity", s, s, None>> \in G!Conflicts(p)
    <3>1. s >= s
      BY <1>1
    <3> QED
      BY <2>2, <2>3, <3>1, ToldAre
  <2> QED
    BY <2>1, <2>4 DEF Told, About
<1>5. CASE c[1] # "capacity"
  <2>1. PICK s, t, f :
          /\ s \in Number /\ t \in Number
          /\ c = <<c[1], {s, t}, f>> /\ Meet(p.items, s, t)
          /\ \/ c[1] = "space" /\ f = None /\ p.items[s].space = p.items[t].space
             \/ c[1] = "facilitator" /\ f \in Shared(s, t)
    <3>1. CASE \E s, t \in Number : /\ Meet(p.items, s, t)
                                    /\ p.items[s].space = p.items[t].space
                                    /\ c = <<"space", {s, t}, None>>
      BY <3>1
    <3>2. CASE \E s, t \in Number : \E g \in Shared(s, t) :
                 Meet(p.items, s, t) /\ c = <<"facilitator", {s, t}, g>>
      BY <3>2
    <3> QED
      BY <1>5, <3>1, <3>2, ClashesAre
  <2>2. PICK u \in Number, v \in Number :
          /\ c[2] = {u, v} /\ Meet(p.now, u, v)
          /\ c[1] = "space" => p.now[u].space = p.now[v].space
    <3>1. CASE \E u, v \in Number : /\ Meet(p.now, u, v)
                                    /\ p.now[u].space = p.now[v].space
                                    /\ c = <<"space", {u, v}, None>>
      BY <3>1
    <3>2. CASE \E u, v \in Number : \E g \in Shared(u, v) :
                 Meet(p.now, u, v) /\ c = <<"facilitator", {u, v}, g>>
      BY <3>2
    <3> QED
      BY <1>5, <3>1, <3>2, ClashesAre
  <2>3. /\ c[2] = {s, t} /\ Meet(p.now, s, t)
        /\ c[1] = "space" => p.now[s].space = p.now[t].space
    <3>1. c[2] = {s, t}
      BY <2>1
    <3>2. (u = s /\ v = t) \/ (u = t /\ v = s)
      BY <2>2, <3>1
    <3> QED
      BY <2>2, <3>1, <3>2, MeetEachOther
  <2>4. CASE s \in G!Subjects(p)
    BY <1>2, <2>1, <2>3, <2>4
  <2>5. CASE t \in G!Subjects(p)
    <3>1. s \in Number /\ t \in Number /\ Meet(p.items, t, s) /\ Meet(p.now, t, s)
      BY <2>1, <2>3, MeetEachOther
    <3>2. /\ c = <<c[1], {t, s}, f>>
          /\ \/ /\ c[1] = "space" /\ f = None
                /\ p.items[t].space = p.items[s].space /\ p.now[t].space = p.now[s].space
             \/ c[1] = "facilitator" /\ f \in Shared(t, s)
      BY <1>3, <2>1, <2>3
    <3> QED
      BY <1>2, <2>5, <3>1, <3>2
  <2> QED
    BY <2>3, <2>4, <2>5
<1> QED
  BY <1>4, <1>5

\* A clash that is told stood at one of the reads, if one of its sessions stayed.
LEMMA ToldStands ==
  ASSUME NEW p, NEW c \in Told(p), Cardinality(c[2] \cap Moved(p)) <= 1
  PROVE  c \in G!Clashes(p.items) \cup G!Clashes(p.now)
<1>1. PICK d \in G!Conflicts(p) : c = About(d)
  BY DEF Told
<1>2. PICK s \in G!Subjects(p) :
      LET now == p.now[s] IN
      \/ \E t \in Number : /\ t # s /\ p.items[t] # None
                           /\ G!Overlap(now.window, p.items[t].window)
                           /\ \/ /\ p.items[t].space = now.space
                                 /\ d = <<"space", s, t, None>>
                              \/ /\ p.items[s] # None
                                 /\ \E f \in Shared(s, t) : d = <<"facilitator", s, t, f>>
      \/ /\ Capacity[now.space] # None /\ Capacity[now.space] < Limit[s]
         /\ d = <<"capacity", s, s, None>>
  BY ToldAre
<1>3. s \in Number /\ p.now[s] # None
  BY DEF G!Subjects, G!Placed
<1>4. CASE /\ d = <<"capacity", s, s, None>>
           /\ Capacity[p.now[s].space] # None /\ Capacity[p.now[s].space] < Limit[s]
  <2>1. c = <<"capacity", {s}, None>>
    BY <1>1, <1>4 DEF About
  <2> QED
    BY <1>3, <1>4, <2>1, ClashesAre
<1>5. ASSUME NEW t \in Number, t # s, p.items[t] # None,
             G!Overlap(p.now[s].window, p.items[t].window),
             \/ p.items[t].space = p.now[s].space /\ d = <<"space", s, t, None>>
             \/ /\ p.items[s] # None
                /\ \E f \in Shared(s, t) : d = <<"facilitator", s, t, f>>
      PROVE  c \in G!Clashes(p.items) \cup G!Clashes(p.now)
  <2>1. d = <<d[1], s, t, d[4]>> /\ c = <<d[1], {s, t}, d[4]>> /\ c[2] = {s, t}
    BY <1>1, <1>5 DEF About
  <2>2. p.items[s] = p.now[s] \/ p.items[t] = p.now[t]
    BY <1>3, <1>5, <2>1, OneStayed
  <2>3. /\ d[1] = "space" => p.items[t].space = p.now[s].space /\ d[4] = None
        /\ d[1] # "space" => d[1] = "facilitator" /\ d[4] \in Shared(s, t)
    BY <1>5
  <2>4. CASE p.items[t] = p.now[t]
    <3>1. Meet(p.now, s, t)
      BY <1>3, <1>5, <2>4 DEF Meet
    <3>2. CASE d[1] = "space"
      BY <1>3, <2>1, <2>3, <2>4, <3>1, <3>2, ClashesAre
    <3>3. CASE d[1] # "space"
      BY <1>3, <2>1, <2>3, <2>4, <3>1, <3>3, ClashesAre
    <3> QED
      BY <3>2, <3>3
  <2>5. CASE p.items[s] = p.now[s]
    <3>1. Meet(p.items, s, t)
      BY <1>3, <1>5, <2>5 DEF Meet
    <3>2. CASE d[1] = "space"
      BY <1>3, <2>1, <2>3, <2>5, <3>1, <3>2, ClashesAre
    <3>3. CASE d[1] # "space"
      BY <1>3, <2>1, <2>3, <2>5, <3>1, <3>3, ClashesAre
    <3> QED
      BY <3>2, <3>3
  <2> QED
    BY <2>2, <2>4, <2>5
<1> QED
  BY <1>2, <1>4, <1>5

\* For any timetable, any track and any moves while a page is read, the page
\* tells every clash once, and none that was not there (EveryClashToldOnce).
THEOREM EveryClashToldOnceHolds == Spec => []EveryClashToldOnce
<1> DEFINE told == {<<c[1], {c[2], c[3]}, c[4]>> : c \in G!Conflicts(page)}
           moved == {s \in Number : page.items[s] # page.now[s]}
<1>1. told = Told(page) /\ moved = Moved(page)
  BY DEF Told, About, Moved
<1>2. G!Cardinality(told) = G!Cardinality(G!Conflicts(page))
  BY <1>1, AsManyTold, GSets
<1>3. \A c : G!Cardinality(c[2] \cap moved) = Cardinality(c[2] \cap Moved(page))
  BY <1>1, GSets
<1>4. \A c \in G!Clashes(page.items) \cap G!Clashes(page.now) :
        G!Cardinality(c[2] \cap moved) <= 1 /\ c[2] \cap G!Subjects(page) # {} => c \in told
  BY <1>1, <1>3, StandingIsTold
<1>5. \A c \in told : G!Cardinality(c[2] \cap moved) <= 1
                        => c \in G!Clashes(page.items) \cup G!Clashes(page.now)
  BY <1>1, <1>3, ToldStands
<1>6. EveryClashToldOnce
  BY <1>2, <1>4, <1>5 DEF EveryClashToldOnce, G!EveryClashToldOnce
<1> QED
  BY <1>6, PTL
-----------------------------------------------------------------------------
\* Finite sets in order.

\* What holds of 0, and of each number after one it holds of, holds of all.
LEMMA CountedUp ==
  ASSUME NEW S, 0 \in S, \A k \in Nat : k \in S => k + 1 \in S
  PROVE  Nat \subseteq S
<1> SUFFICES ASSUME Nat \ S # {} PROVE FALSE
  OBVIOUS
<1>1. PICK k \in Nat \ S : \A j \in Nat \ S : ~(<<j, k>> \in OpToRel(<, Nat))
  BY NatLessThanWellFounded, WFMin
<1>2. \A j \in Nat \ S : ~(j < k)
  BY <1>1 DEF OpToRel
<1>3. k # 0 /\ k - 1 \in Nat /\ (k - 1) + 1 = k
  OBVIOUS
<1>4. k - 1 \in S
  BY <1>2, <1>3
<1> QED
  BY <1>3, <1>4

\* Of the numbers up to n: the same, as far as n.
LEMMA CountedTo ==
  ASSUME NEW n \in Nat, NEW S, 0 \in S, \A k \in 0 .. n - 1 : k \in S => k + 1 \in S
  PROVE  \A k \in 0 .. n : k \in S
<1> DEFINE T == {k \in Nat : k <= n => k \in S}
<1>1. 0 \in T
  OBVIOUS
<1>2. ASSUME NEW k \in Nat, k \in T PROVE k + 1 \in T
  BY <1>2
<1>3. Nat \subseteq T
  <2> HIDE DEF T
  <2> QED BY <1>1, <1>2, CountedUp
<1> QED
  BY <1>3

-----------------------------------------------------------------------------
\* The greatest of a finite set of numbers, and the least.
LEMMA LeastOf ==
  ASSUME NEW D, D \subseteq Nat, D # {}
  PROVE  G!Min(D) \in D /\ \A x \in D : G!Min(D) <= x
<1>1. PICK k \in D : \A j \in D : ~(<<j, k>> \in OpToRel(<, Nat))
  BY NatLessThanWellFounded, WFMin
<1>2. \A j \in D : ~(j < k)
  BY <1>1 DEF OpToRel
<1>3. \A j \in D : k <= j
  BY <1>2
<1> QED
  BY <1>3 DEF G!Min

\* What there is of a finite set can be put in order, given one: each has the
\* place that tells how many come before it.
LEMMA PutInOrder ==
  ASSUME NEW S, IsFiniteSet(S), NEW O,
         \A x \in S : <<x, x>> \notin O,
         \A x, y \in S : x # y => <<x, y>> \in O \/ <<y, x>> \in O,
         \A x, y, z \in S : <<x, y>> \in O /\ <<y, z>> \in O => <<x, z>> \in O
  PROVE  \E q \in G!SetToSeqs(S) :
           \A i, j \in DOMAIN q : i < j => <<q[i], q[j]>> \in O
<1> DEFINE Ahead(x) == {y \in S : <<y, x>> \in O}
           n == Cardinality(S)
           place == [x \in S |-> Cardinality(Ahead(x)) + 1]
<1>1. n \in Nat /\ \A x \in S : IsFiniteSet(Ahead(x)) /\ Cardinality(Ahead(x)) \in Nat
  BY FS_Subset, FS_CardinalityType
<1>2. \A x \in S : Cardinality(Ahead(x)) < n
  <2> SUFFICES ASSUME NEW x \in S PROVE Cardinality(Ahead(x)) < n
    OBVIOUS
  <2>1. Ahead(x) \in SUBSET S /\ x \notin Ahead(x)
    OBVIOUS
  <2> HIDE DEF Ahead
  <2>2. Cardinality(Ahead(x)) <= n /\ Cardinality(Ahead(x)) # n
    BY <2>1, FS_Subset
  <2> QED
    BY <1>1, <2>2
<1>3. \A x, y \in S : <<x, y>> \in O => Cardinality(Ahead(x)) < Cardinality(Ahead(y))
  <2> SUFFICES ASSUME NEW x \in S, NEW y \in S, <<x, y>> \in O
               PROVE  Cardinality(Ahead(x)) < Cardinality(Ahead(y))
    OBVIOUS
  <2>1. Ahead(x) \in SUBSET Ahead(y) /\ x \in Ahead(y) /\ x \notin Ahead(x)
    OBVIOUS
  <2>2. IsFiniteSet(Ahead(y)) /\ Cardinality(Ahead(x)) \in Nat /\ Cardinality(Ahead(y)) \in Nat
    BY <1>1
  <2> HIDE DEF Ahead
  <2>3. Cardinality(Ahead(x)) <= Cardinality(Ahead(y)) /\ Cardinality(Ahead(x)) # Cardinality(Ahead(y))
    BY <2>1, <2>2, FS_Subset
  <2> QED
    BY <2>2, <2>3
<1>4. place \in [S -> 1 .. n]
  <2> HIDE DEF Ahead, n
  <2> QED BY <1>1, <1>2
<1>5. \A x, y \in S : <<x, y>> \in O => place[x] < place[y]
  <2> HIDE DEF Ahead, n
  <2> QED BY <1>1, <1>3
<1> HIDE DEF Ahead, place
<1>6. \A x, y \in S : place[x] = place[y] => x = y
  <2> SUFFICES ASSUME NEW x \in S, NEW y \in S, x # y, place[x] = place[y] PROVE FALSE
    OBVIOUS
  <2>1. place[x] \in 1 .. n /\ place[y] \in 1 .. n
    BY <1>4
  <2>2. place[x] < place[y] \/ place[y] < place[x]
    BY <1>5
  <2> QED
    BY <1>1, <2>1, <2>2
<1>7. place \in Injection(S, 1 .. n)
  BY <1>4, <1>6 DEF Injection, IsInjective
<1>8. IsFiniteSet(1 .. n) /\ Cardinality(1 .. n) = n
  BY <1>1, FS_Interval
<1>9. \A i \in 1 .. n : \E x \in S : place[x] = i
  <2>1. place \in Surjection(S, 1 .. n)
    BY <1>7, <1>8, FS_Injection
  <2> QED
    BY <2>1 DEF Surjection
<1> DEFINE q == [i \in 1 .. n |-> CHOOSE x \in S : place[x] = i]
<1>10. \A i \in 1 .. n : q[i] \in S /\ place[q[i]] = i
  BY <1>9
<1>11. q \in [1 .. n -> S]
  BY <1>10
<1>12. DOMAIN q = 1 .. n
  OBVIOUS
<1> HIDE DEF q
<1>13. q \in G!SetToSeqs(S)
  <2>1. G!Cardinality(S) = n
    BY DEF G!Cardinality, Cardinality
  <2> QED
    BY <1>10, <1>11, <2>1 DEF G!SetToSeqs
<1>14. ASSUME NEW i \in 1 .. n, NEW j \in 1 .. n, i < j PROVE <<q[i], q[j]>> \in O
  <2>1. q[i] \in S /\ q[j] \in S /\ q[i] # q[j]
    BY <1>1, <1>10, <1>14
  <2>2. CASE <<q[j], q[i]>> \in O
    BY <1>1, <1>5, <1>10, <1>14, <2>1, <2>2
  <2> QED
    BY <2>1, <2>2
<1> QED
  BY <1>12, <1>13, <1>14

\* ... and so it can by a number each has, those that have the same in some order.
LEMMA PutByNumber ==
  ASSUME NEW S, IsFiniteSet(S), NEW f \in [S -> Nat]
  PROVE  \E q \in G!SetToSeqs(S) : \A i, j \in DOMAIN q : i < j => f[q[i]] <= f[q[j]]
<1>1. PICK n \in Nat : ExistsBijection(1 .. n, S)
  BY FS_NatBijection
<1>2. PICK b \in Bijection(1 .. n, S) : TRUE
  BY <1>1 DEF ExistsBijection
<1> DEFINE tie == [x \in S |-> CHOOSE i \in 1 .. n : b[i] = x]
           O == {p \in S \X S : \/ f[p[1]] < f[p[2]]
                                \/ f[p[1]] = f[p[2]] /\ tie[p[1]] < tie[p[2]]}
<1>3. \A x \in S : tie[x] \in 1 .. n /\ b[tie[x]] = x
  BY <1>2 DEF Bijection, Surjection
<1>4. \A x \in S : f[x] \in Nat /\ tie[x] \in Nat
  BY <1>3
<1>5. \A x, y \in S : <<x, y>> \in O <=> f[x] < f[y] \/ (f[x] = f[y] /\ tie[x] < tie[y])
  OBVIOUS
<1> HIDE DEF tie, O
<1>6. \A x, y \in S : tie[x] = tie[y] => x = y
  BY <1>3
<1>7. /\ \A x \in S : <<x, x>> \notin O
      /\ \A x, y \in S : x # y => <<x, y>> \in O \/ <<y, x>> \in O
      /\ \A x, y, z \in S : <<x, y>> \in O /\ <<y, z>> \in O => <<x, z>> \in O
  BY <1>4, <1>5, <1>6
<1>8. PICK q \in G!SetToSeqs(S) : \A i, j \in DOMAIN q : i < j => <<q[i], q[j]>> \in O
  BY <1>7, PutInOrder
<1>9. \A i \in DOMAIN q : q[i] \in S
  BY DEF G!SetToSeqs
<1>10. \A x, y \in S : <<x, y>> \in O => f[x] <= f[y]
  BY <1>4, <1>5
<1>11. \A i, j \in DOMAIN q : i < j => f[q[i]] <= f[q[j]]
  BY <1>8, <1>9, <1>10
<1> QED
  BY <1>11

\* A sequence of what there is of a finite set has all of it.
LEMMA AllOf ==
  ASSUME NEW S, IsFiniteSet(S), NEW q \in G!SetToSeqs(S)
  PROVE  /\ Cardinality(S) \in Nat
         /\ q \in [1 .. Cardinality(S) -> S]
         /\ \A i, j \in 1 .. Cardinality(S) : i # j => q[i] # q[j]
         /\ \A x \in S : \E i \in 1 .. Cardinality(S) : q[i] = x
<1> DEFINE n == Cardinality(S)
<1>1. n \in Nat
  BY FS_CardinalityType
<1>2. G!Cardinality(S) = n
  BY DEF G!Cardinality, Cardinality
<1> HIDE DEF n
<1>3. q \in [1 .. n -> S] /\ \A i, j \in 1 .. n : i # j => q[i] # q[j]
  BY <1>2 DEF G!SetToSeqs
<1>4. q \in Injection(1 .. n, S)
  BY <1>3 DEF Injection, IsInjective
<1>5. Cardinality(1 .. n) = n
  BY <1>1, FS_Interval
<1>6. q \in Surjection(1 .. n, S)
  BY <1>4, <1>5, FS_Injection DEF n
<1> QED
  BY <1>1, <1>3, <1>6 DEF n, Surjection

LEMMA GreatestOf ==
  ASSUME NEW D, D \subseteq Nat, IsFiniteSet(D), D # {}
  PROVE  G!Max(D) \in D /\ \A x \in D : x <= G!Max(D)
<1> DEFINE O == {p \in D \X D : p[1] < p[2]}
<1>1. \A x, y \in D : <<x, y>> \in O <=> x < y
  OBVIOUS
<1>2. /\ \A x \in D : <<x, x>> \notin O
      /\ \A x, y \in D : x # y => <<x, y>> \in O \/ <<y, x>> \in O
      /\ \A x, y, z \in D : <<x, y>> \in O /\ <<y, z>> \in O => <<x, z>> \in O
  <2> HIDE DEF O
  <2> QED BY <1>1
<1> HIDE DEF O
<1>3. PICK q \in G!SetToSeqs(D) : \A i, j \in DOMAIN q : i < j => <<q[i], q[j]>> \in O
  BY <1>2, PutInOrder
<1> DEFINE n == Cardinality(D)
<1>4. n \in Nat \ {0}
  BY FS_CardinalityType, FS_EmptySet
<1>5. q \in [1 .. n -> D] /\ \A x \in D : \E i \in 1 .. n : q[i] = x
  BY AllOf
<1> HIDE DEF n
<1>6. \A x \in D : x <= q[n]
  <2> SUFFICES ASSUME NEW x \in D PROVE x <= q[n]
    OBVIOUS
  <2>1. PICK i \in 1 .. n : q[i] = x
    BY <1>5
  <2>2. i = n \/ i < n
    BY <1>4
  <2>3. n \in 1 .. n /\ DOMAIN q = 1 .. n
    BY <1>4, <1>5
  <2>4. q[n] \in D
    BY <1>5, <2>3
  <2>5. CASE i < n
    <3>1. <<q[i], q[n]>> \in O
      BY <1>3, <2>1, <2>3, <2>5
    <3>2. x < q[n] /\ x \in Nat /\ q[n] \in Nat
      BY <1>1, <2>1, <2>4, <3>1
    <3> QED
      BY <3>2
  <2> QED
    BY <2>1, <2>2, <2>4, <2>5
<1>7. q[n] \in D /\ \A x \in D : q[n] >= x
  BY <1>4, <1>5, <1>6
<1> QED
  BY <1>7 DEF G!Max

\* Of two numbers, the greater and the less.
LEMMA GreaterOf ==
  ASSUME NEW a \in Nat, NEW b \in Nat
  PROVE  /\ G!Max({a, b}) = IF a >= b THEN a ELSE b
         /\ G!Min({a, b}) = IF a <= b THEN a ELSE b
<1>1. \A m \in {a, b} : (\A y \in {a, b} : m >= y) => m = IF a >= b THEN a ELSE b
  OBVIOUS
<1>2. \A m \in {a, b} : (\A y \in {a, b} : m <= y) => m = IF a <= b THEN a ELSE b
  OBVIOUS
<1>3. \E m \in {a, b} : \A y \in {a, b} : m >= y
  OBVIOUS
<1>4. \E m \in {a, b} : \A y \in {a, b} : m <= y
  OBVIOUS
<1> QED
  BY <1>1, <1>2, <1>3, <1>4 DEF G!Max, G!Min

-----------------------------------------------------------------------------
\* Folds: the values a fold takes on its way, one for each element gone through.

\* The equation that a fold from the left is defined by ...
Solves(iter, n, base, step) ==
  \A s \in SUBSET (1 .. n) :
    iter[s] = IF s = {} THEN base ELSE step[<<iter[s \ {G!Max(s)}], G!Max(s)>>]

\* ... has a solution.
LEMMA FoldIsThere ==
  ASSUME NEW A, NEW base \in A, NEW n \in Nat, NEW step \in [A \X (1 .. n) -> A]
  PROVE  \E iter \in [SUBSET (1 .. n) -> A] : Solves(iter, n, base, step)
<1> DEFINE SolvesTo(iter, k) ==
             iter \in [SUBSET (1 .. k) -> A] /\ Solves(iter, k, base, step)
           T == {k \in Nat : \E iter : SolvesTo(iter, k)}
<1>1. 0 \in T
  <2> DEFINE iter == [s \in SUBSET (1 .. 0) |-> base]
  <2>1. \A s \in SUBSET (1 .. 0) : s = {}
    OBVIOUS
  <2>2. SolvesTo(iter, 0)
    BY <2>1 DEF Solves
  <2> QED
    BY <2>2
<1>2. ASSUME NEW k \in 0 .. n - 1, k \in T PROVE k + 1 \in T
  <2>1. PICK old : SolvesTo(old, k)
    BY <1>2
  <2> DEFINE new == [s \in SUBSET (1 .. k + 1) |->
                       IF k + 1 \in s THEN step[<<old[s \ {k + 1}], k + 1>>] ELSE old[s]]
  <2>2. \A s \in SUBSET (1 .. k + 1) : s \ {k + 1} \in SUBSET (1 .. k)
    OBVIOUS
  <2>3. \A s \in SUBSET (1 .. k + 1) : k + 1 \notin s => s \in SUBSET (1 .. k)
    OBVIOUS
  <2>4. new \in [SUBSET (1 .. k + 1) -> A]
    <3>1. k + 1 \in 1 .. n
      OBVIOUS
    <3>2. \A s \in SUBSET (1 .. k + 1) : k + 1 \in s => step[<<old[s \ {k + 1}], k + 1>>] \in A
      BY <2>1, <2>2, <3>1
    <3>3. \A s \in SUBSET (1 .. k + 1) : k + 1 \notin s => old[s] \in A
      BY <2>1, <2>3
    <3> QED
      BY <3>2, <3>3
  <2>5. ASSUME NEW s \in SUBSET (1 .. k + 1)
        PROVE  new[s] = IF s = {} THEN base
                        ELSE step[<<new[s \ {G!Max(s)}], G!Max(s)>>]
    <3>1. CASE k + 1 \in s
      <4>1. G!Max(s) = k + 1
        <5>1. \A x \in s : x <= k + 1 /\ x \in Nat
          OBVIOUS
        <5>2. \A m \in s : (\A x \in s : m >= x) => m = k + 1
          BY <3>1, <5>1
        <5>3. \A x \in s : k + 1 >= x
          BY <5>1
        <5> QED
          BY <3>1, <5>2, <5>3 DEF G!Max
      <4>2. new[s \ {k + 1}] = old[s \ {k + 1}]
        BY <2>2
      <4>3. new[s] = step[<<old[s \ {k + 1}], k + 1>>]
        BY <3>1
      <4> QED
        BY <3>1, <4>1, <4>2, <4>3
    <3>2. CASE k + 1 \notin s
      <4>1. s \in SUBSET (1 .. k) /\ new[s] = old[s]
        BY <2>3, <3>2
      <4>2. s \ {G!Max(s)} \in SUBSET (1 .. k + 1) /\ k + 1 \notin s \ {G!Max(s)}
        BY <3>2
      <4>3. new[s \ {G!Max(s)}] = old[s \ {G!Max(s)}]
        BY <4>2
      <4> QED
        BY <2>1, <4>1, <4>3 DEF Solves
    <3> QED
      BY <3>1, <3>2
  <2>6. SolvesTo(new, k + 1)
    <3> HIDE DEF new
    <3> QED BY <2>4, <2>5 DEF Solves
  <2> HIDE DEF SolvesTo
  <2> QED
    BY <2>6
<1>3. n \in T
  <2> HIDE DEF T
  <2> QED BY <1>1, <1>2, CountedTo
<1>4. PICK iter : SolvesTo(iter, n)
  BY <1>3
<1> QED
  BY <1>4

LEMMA UpTo ==
  ASSUME NEW k \in Nat \ {0}
  PROVE  G!Max(1 .. k) = k /\ (1 .. k) \ {k} = 1 .. k - 1 /\ 1 .. k # {}
<1>1. k \in 1 .. k /\ \A x \in 1 .. k : k >= x
  OBVIOUS
<1>2. \A m \in 1 .. k : m >= k => m = k
  OBVIOUS
<1>3. G!Max(1 .. k) = k
  BY <1>1, <1>2 DEF G!Max
<1> QED
  BY <1>1, <1>3

\* What the sweep over a day's slots finds, and has found after each of them.
SweepOf(base, q) == G!FoldLeft(G!Sweep, base, q)

Found == [gaps : SUBSET (Nat \X Nat), cursor : Nat]

LEMMA SweepFinds ==
  ASSUME NEW a \in Found, NEW w \in G!Window
  PROVE  G!Sweep(a, w) \in Found
<1>1. w[1] \in Nat /\ w[2] \in Nat /\ a.cursor \in Nat /\ a.gaps \in SUBSET (Nat \X Nat)
  BY DEF G!Window, Found
<1>2. G!After(a.cursor, w) \in Nat
  BY <1>1, GreaterOf DEF G!After
<1> QED
  BY <1>1, <1>2 DEF G!Sweep, Found

SweepRun(took, base, q, n) ==
  /\ took[0] = base
  /\ \A k \in 1 .. n : took[k] = G!Sweep(took[k - 1], q[k])
  /\ SweepOf(base, q) = took[n]

LEMMA SweepRuns ==
  ASSUME NEW base \in Found, NEW n \in Nat, NEW q \in [1 .. n -> G!Window]
  PROVE  \E took : SweepRun(took, base, q, n)
<1> DEFINE A == Found
           step == [p \in A \X (1 .. n) |-> G!Sweep(p[1], q[p[2]])]
           Folds(iter) == iter = [s \in SUBSET DOMAIN q |->
                                    IF s = {} THEN base
                                    ELSE G!Sweep(iter[s \ {G!Max(s)}], q[G!Max(s)])]
           it == CHOOSE iter : Folds(iter)
<1>1. step \in [A \X (1 .. n) -> A]
  BY SweepFinds
<1> HIDE DEF A
<1>2. PICK iter \in [SUBSET (1 .. n) -> A] : Solves(iter, n, base, step)
  <2>1. base \in A
    BY DEF A
  <2> HIDE DEF step
  <2> QED BY <1>1, <2>1, FoldIsThere
<1>3. Folds(iter)
  <2>1. ASSUME NEW s \in SUBSET (1 .. n), s # {}
        PROVE  iter[s] = G!Sweep(iter[s \ {G!Max(s)}], q[G!Max(s)])
    <3>1. G!Max(s) \in 1 .. n
      <4>1. IsFiniteSet(1 .. n)
        BY FS_Interval
      <4>2. IsFiniteSet(s)
        BY <4>1, FS_Subset
      <4>3. s \subseteq Nat
        OBVIOUS
      <4> QED
        BY <2>1, <4>2, <4>3, GreatestOf
    <3>2. iter[s \ {G!Max(s)}] \in A
      BY <1>2
    <3> QED
      BY <1>2, <2>1, <3>1, <3>2 DEF Solves
  <2>2. DOMAIN q = 1 .. n
    OBVIOUS
  <2>3. \A s \in SUBSET (1 .. n) : iter[s] = IF s = {} THEN base
                                    ELSE G!Sweep(iter[s \ {G!Max(s)}], q[G!Max(s)])
    <3> HIDE DEF step
    <3> QED BY <1>2, <2>1 DEF Solves
  <2> QED
    BY <1>2, <2>2, <2>3
<1>4. Folds(it)
  <2> HIDE DEF Folds
  <2> QED BY <1>3
<1>5. SweepOf(base, q) = it[DOMAIN q]
  BY DEF SweepOf, G!FoldLeft, G!MapThenFoldSet
<1> HIDE DEF it
<1> DEFINE took == [k \in 0 .. n |-> it[1 .. k]]
<1>6. took[0] = base
  BY <1>4
<1>7. \A k \in 1 .. n : took[k] = G!Sweep(took[k - 1], q[k])
  <2> SUFFICES ASSUME NEW k \in 1 .. n PROVE took[k] = G!Sweep(took[k - 1], q[k])
    OBVIOUS
  <2>1. G!Max(1 .. k) = k /\ (1 .. k) \ {k} = 1 .. k - 1 /\ 1 .. k # {}
    <3>1. k \in Nat \ {0}
      OBVIOUS
    <3> QED
      BY <3>1, UpTo
  <2>2. 1 .. k \in SUBSET DOMAIN q
    OBVIOUS
  <2>3. it[1 .. k] = G!Sweep(it[(1 .. k) \ {G!Max(1 .. k)}], q[G!Max(1 .. k)])
    BY <1>4, <2>1, <2>2
  <2>4. took[k] = it[1 .. k] /\ took[k - 1] = it[1 .. k - 1]
    OBVIOUS
  <2> QED
    BY <2>1, <2>3, <2>4
<1>8. SweepOf(base, q) = took[n]
  BY <1>5
<1> HIDE DEF took
<1> QED
  BY <1>6, <1>7, <1>8 DEF SweepRun

-----------------------------------------------------------------------------
\* Slots in order: by their starts.
LEMMA SortedSlots ==
  ASSUME NEW ws, IsFiniteSet(ws), ws \subseteq G!Window
  PROVE  /\ G!Sorted(ws) \in G!SetToSeqs(ws)
         /\ \A i, j \in 1 .. Cardinality(ws) :
              i < j => G!Sorted(ws)[i][1] <= G!Sorted(ws)[j][1]
<1> DEFINE f == [w \in ws |-> w[1]]
           InTurn(q) == \A i, j \in DOMAIN q : i < j => G!ByStart(q[i], q[j])
           o == G!Sorted(ws)
<1>1. f \in [ws -> Nat]
  BY DEF G!Window
<1>2. PICK q \in G!SetToSeqs(ws) : \A i, j \in DOMAIN q : i < j => f[q[i]] <= f[q[j]]
  <2> HIDE DEF f
  <2> QED BY <1>1, PutByNumber
<1>3. \A i \in DOMAIN q : q[i] \in ws
  BY DEF G!SetToSeqs
<1>4. InTurn(q)
  BY <1>2, <1>3 DEF G!ByStart
<1>5. o = CHOOSE s \in G!SetToSeqs(ws) : InTurn(s)
  BY DEF G!Sorted, G!InOrder
<1> HIDE DEF o
<1>6. o \in G!SetToSeqs(ws) /\ InTurn(o)
  <2> HIDE DEF InTurn
  <2> QED BY <1>4, <1>5
<1>7. DOMAIN o = 1 .. Cardinality(ws)
  BY <1>6, AllOf
<1> QED
  BY <1>6, <1>7 DEF G!ByStart, o

\* Whether an hour is within a window.
Inside(h, w) == w[1] <= h /\ h < w[2]

\* What the sweep has found so far of the slots in q: an hour before the cursor
\* is in a gap exactly when none of them has it.
Swept(acc, from, q, k) ==
  /\ acc \in Found
  /\ from <= acc.cursor
  /\ acc.cursor = from \/ \E i \in 1 .. k : acc.cursor = q[i][2]
  /\ \A i \in 1 .. k : q[i][2] <= acc.cursor
  /\ \A g \in acc.gaps : \E i \in 1 .. k : g[2] = q[i][1]
  /\ \A h \in Nat : (\E g \in acc.gaps : Inside(h, g)) <=>
       from <= h /\ h < acc.cursor /\ \A i \in 1 .. k : ~Inside(h, q[i])

LEMMA SweepStep ==
  ASSUME NEW n \in Nat, NEW q \in [1 .. n -> G!Window], NEW from \in Nat,
         \A i, j \in 1 .. n : i < j => q[i][1] <= q[j][1],
         NEW k \in 0 .. n - 1, NEW acc, Swept(acc, from, q, k)
  PROVE  Swept(G!Sweep(acc, q[k + 1]), from, q, k + 1)
<1> DEFINE w == q[k + 1]
           new == G!Sweep(acc, w)
<1>1. /\ acc.cursor \in Nat /\ acc.gaps \in SUBSET (Nat \X Nat)
      /\ w[1] \in Nat /\ w[2] \in Nat /\ w[1] < w[2]
  BY DEF Swept, Found, G!Window
<1>2. /\ new.gaps = IF w[1] > acc.cursor THEN acc.gaps \cup {<<acc.cursor, w[1]>>}
                    ELSE acc.gaps
      /\ new.cursor = IF acc.cursor >= w[2] THEN acc.cursor ELSE w[2]
      /\ new = [gaps |-> new.gaps, cursor |-> new.cursor]
  BY <1>1, GreaterOf DEF G!Sweep, G!After
<1>3. \A i \in 1 .. k : /\ i \in 1 .. n /\ q[i][1] <= w[1]
                        /\ q[i][1] \in Nat /\ q[i][2] \in Nat
  BY DEF G!Window
<1>4. \A i : i \in 1 .. k + 1 <=> i \in 1 .. k \/ i = k + 1
  OBVIOUS
<1> HIDE DEF new
<1>5. new \in Found
  BY <1>1, <1>2 DEF Found
<1>6. /\ from <= new.cursor
      /\ new.cursor = from \/ \E i \in 1 .. k + 1 : new.cursor = q[i][2]
      /\ \A i \in 1 .. k + 1 : q[i][2] <= new.cursor
  <2> HIDE DEF w
  <2>1. /\ from <= acc.cursor
        /\ acc.cursor = from \/ \E i \in 1 .. k : acc.cursor = q[i][2]
        /\ \A i \in 1 .. k : q[i][2] <= acc.cursor
    BY DEF Swept
  <2>2. acc.cursor <= new.cursor /\ w[2] <= new.cursor
    BY <1>1, <1>2
  <2>3. q[k + 1] = w
    BY DEF w
  <2>4. \A i \in 1 .. k : q[i][2] <= new.cursor
    BY <1>1, <1>2, <1>3, <2>1
  <2> QED
    BY <1>1, <1>2, <1>4, <2>1, <2>2, <2>3, <2>4
<1>7. \A g \in new.gaps : \E i \in 1 .. k + 1 : g[2] = q[i][1]
  BY <1>2, <1>4 DEF Swept
<1>8. ASSUME NEW h \in Nat
      PROVE  (\E g \in new.gaps : Inside(h, g)) <=>
               from <= h /\ h < new.cursor /\ \A i \in 1 .. k + 1 : ~Inside(h, q[i])
  <2>1. (\E g \in acc.gaps : Inside(h, g)) <=>
          from <= h /\ h < acc.cursor /\ \A i \in 1 .. k : ~Inside(h, q[i])
    BY DEF Swept
  <2>2. (\A i \in 1 .. k + 1 : ~Inside(h, q[i])) <=>
          (\A i \in 1 .. k : ~Inside(h, q[i])) /\ ~Inside(h, w)
    BY <1>4
  <2>3. (\E g \in acc.gaps : Inside(h, g)) => h < w[1]
    <3> SUFFICES ASSUME NEW g \in acc.gaps, Inside(h, g) PROVE h < w[1]
      OBVIOUS
    <3>1. PICK i \in 1 .. k : g[2] = q[i][1]
      BY DEF Swept
    <3> QED
      BY <1>1, <1>3, <3>1 DEF Inside
  <2>4. h >= acc.cursor => \A i \in 1 .. k : ~Inside(h, q[i])
    BY <1>1, <1>3 DEF Inside, Swept
  <2>5. (\E g \in new.gaps : Inside(h, g)) <=>
          \/ \E g \in acc.gaps : Inside(h, g)
          \/ w[1] > acc.cursor /\ acc.cursor <= h /\ h < w[1]
    <3>1. CASE w[1] > acc.cursor
      <4>1. new.gaps = acc.gaps \cup {<<acc.cursor, w[1]>>}
        BY <1>2, <3>1
      <4>2. Inside(h, <<acc.cursor, w[1]>>) <=> acc.cursor <= h /\ h < w[1]
        BY DEF Inside
      <4> HIDE DEF w
      <4> QED
        BY <3>1, <4>1, <4>2
    <3>2. CASE ~(w[1] > acc.cursor)
      BY <1>2, <3>2
    <3> QED
      BY <3>1, <3>2
  <2>6. from <= acc.cursor /\ from \in Nat
    BY DEF Swept
  <2>7. Inside(h, w) <=> w[1] <= h /\ h < w[2]
    BY DEF Inside
  <2> HIDE DEF w
  <2> QED
    BY <1>1, <1>2, <2>1, <2>2, <2>3, <2>4, <2>5, <2>6, <2>7
<1> QED
  BY <1>5, <1>6, <1>7, <1>8 DEF Swept, new

\* The hours open in some windows are those of one of them.
LEMMA OpenHours ==
  ASSUME NEW ws, ws \subseteq Nat \X Nat, NEW h \in Nat
  PROVE  h \in G!Open(ws) <=> \E w \in ws : Inside(h, w)
<1>1. \A w \in ws : h \in G!HoursOf(w) <=> Inside(h, w)
  <2> SUFFICES ASSUME NEW w \in ws PROVE h \in G!HoursOf(w) <=> Inside(h, w)
    OBVIOUS
  <2>1. w[1] \in Nat /\ w[2] \in Nat
    OBVIOUS
  <2> QED
    BY <2>1 DEF G!HoursOf, Inside
<1> QED
  BY <1>1 DEF G!Open

\* An hour of the page is drawn closed exactly when none of the windows has it.
LEMMA ClosedHours ==
  ASSUME NEW d, IsFiniteSet(G!Windows(d)), G!Windows(d) \subseteq G!Window,
         NEW from \in Nat, NEW to \in Nat, from <= to,
         \A w \in G!Windows(d) : from <= w[1] /\ w[2] <= to
  PROVE  /\ G!Closed(d, <<from, to>>) \subseteq Nat \X Nat
         /\ \A h \in Nat : h \in G!Open(G!Closed(d, <<from, to>>)) <=>
              from <= h /\ h < to /\ \A w \in G!Windows(d) : ~Inside(h, w)
<1> DEFINE ws == G!Windows(d)
           q == G!Sorted(ws)
           n == Cardinality(ws)
           base == [gaps |-> {}, cursor |-> from]
<1>1. /\ n \in Nat /\ q \in [1 .. n -> ws]
      /\ \A w \in ws : \E i \in 1 .. n : q[i] = w
      /\ \A i, j \in 1 .. n : i < j => q[i][1] <= q[j][1]
  BY SortedSlots, AllOf
<1>2. q \in [1 .. n -> G!Window]
  BY <1>1
<1> HIDE DEF ws, n, q
<1>3. base \in Found
  BY DEF Found
<1>4. PICK took : SweepRun(took, base, q, n)
  BY <1>1, <1>2, <1>3, SweepRuns
<1>5. /\ took[0] = base
      /\ \A k \in 1 .. n : took[k] = G!Sweep(took[k - 1], q[k])
      /\ SweepOf(base, q) = took[n]
  BY <1>4 DEF SweepRun
<1> DEFINE T == {k \in 0 .. n : Swept(took[k], from, q, k)}
<1>6. 0 \in T
  <2>1. Swept(base, from, q, 0)
    BY <1>3 DEF Swept
  <2> QED
    BY <1>1, <1>5, <2>1
<1>7. ASSUME NEW k \in 0 .. n - 1, k \in T PROVE k + 1 \in T
  <2>1. Swept(took[k], from, q, k)
    BY <1>7
  <2>2. Swept(G!Sweep(took[k], q[k + 1]), from, q, k + 1)
    BY <1>1, <1>2, <2>1, SweepStep
  <2>3. k + 1 \in 1 .. n /\ (k + 1) - 1 = k
    BY <1>1
  <2>4. took[k + 1] = G!Sweep(took[k], q[k + 1])
    BY <1>5, <2>3
  <2> QED
    BY <2>2, <2>3, <2>4
<1>8. Swept(took[n], from, q, n)
  <2>1. n \in Nat /\ n \in 0 .. n
    BY <1>1
  <2>2. n \in T
    <3> HIDE DEF T
    <3> QED BY <1>6, <1>7, <2>1, CountedTo
  <2> QED
    BY <2>2
<1> DEFINE last == took[n]
<1>9. G!Closed(d, <<from, to>>) = IF last.cursor < to THEN last.gaps \cup {<<last.cursor, to>>}
                                  ELSE last.gaps
  BY <1>5 DEF G!Closed, SweepOf, ws, q
<1> HIDE DEF last
<1>10. last.cursor \in Nat /\ last.gaps \subseteq Nat \X Nat /\ from <= last.cursor /\ last.cursor <= to
  <2>1. \A i \in 1 .. n : q[i][2] <= to
    BY <1>1 DEF ws
  <2> QED
    BY <1>8, <2>1 DEF Swept, Found, last
<1>11. G!Closed(d, <<from, to>>) \subseteq Nat \X Nat
  BY <1>9, <1>10
<1>12. ASSUME NEW h \in Nat
       PROVE  h \in G!Open(G!Closed(d, <<from, to>>)) <=>
                from <= h /\ h < to /\ \A w \in ws : ~Inside(h, w)
  <2>1. (\E g \in last.gaps : Inside(h, g)) <=>
          from <= h /\ h < last.cursor /\ \A i \in 1 .. n : ~Inside(h, q[i])
    BY <1>8 DEF Swept, last
  <2>2. (\A i \in 1 .. n : ~Inside(h, q[i])) <=> \A w \in ws : ~Inside(h, w)
    BY <1>1
  <2>3. h >= last.cursor => \A i \in 1 .. n : ~Inside(h, q[i])
    <3>1. \A i \in 1 .. n : q[i][2] <= last.cursor /\ q[i][2] \in Nat
      BY <1>2, <1>8 DEF Swept, last, G!Window
    <3> QED
      BY <1>10, <3>1 DEF Inside
  <2>4. h \in G!Open(G!Closed(d, <<from, to>>)) <=> \E g \in G!Closed(d, <<from, to>>) : Inside(h, g)
    BY <1>11, OpenHours
  <2>5. (\E g \in G!Closed(d, <<from, to>>) : Inside(h, g)) <=>
          \/ \E g \in last.gaps : Inside(h, g)
          \/ last.cursor < to /\ last.cursor <= h /\ h < to
    <3>1. Inside(h, <<last.cursor, to>>) <=> last.cursor <= h /\ h < to
      BY DEF Inside
    <3>2. CASE last.cursor < to
      BY <1>9, <3>1, <3>2
    <3>3. CASE ~(last.cursor < to)
      BY <1>9, <3>3
    <3> QED
      BY <3>2, <3>3
  <2> QED
    BY <1>10, <2>1, <2>2, <2>3, <2>4, <2>5
<1> QED
  BY <1>11, <1>12 DEF ws

-----------------------------------------------------------------------------
\* A sequence that got one more element, and one whose last was put for another.
LEMMA OneMore ==
  ASSUME NEW S, NEW acc \in Seq(S), NEW x \in S
  PROVE  /\ Append(acc, x) \in Seq(S)
         /\ Len(acc) \in Nat /\ Len(Append(acc, x)) = Len(acc) + 1
         /\ Append(acc, x)[Len(acc) + 1] = x
         /\ \A i \in 1 .. Len(acc) : Append(acc, x)[i] = acc[i]
OBVIOUS

LEMMA LastPut ==
  ASSUME NEW S, NEW acc \in Seq(S), acc # <<>>, NEW x \in S
  PROVE  /\ G!Front(acc) \o <<x>> \in Seq(S)
         /\ Len(acc) \in Nat \ {0} /\ Len(G!Front(acc) \o <<x>>) = Len(acc)
         /\ (G!Front(acc) \o <<x>>)[Len(acc)] = x
         /\ \A i \in 1 .. Len(acc) - 1 : (G!Front(acc) \o <<x>>)[i] = acc[i]
         /\ G!Last(acc) = acc[Len(acc)] /\ acc[Len(acc)] \in S
<1> DEFINE n == Len(acc)
<1>1. n \in Nat \ {0} /\ \A i \in 1 .. n : acc[i] \in S
  BY EmptySeq, LenProperties
<1>2. G!Front(acc) = [i \in 1 .. n - 1 |-> acc[i]]
  BY <1>1 DEF G!Front
<1> HIDE DEF n
<1>3. G!Front(acc) \in Seq(S) /\ Len(G!Front(acc)) = n - 1
  <2>1. n - 1 \in Nat
    BY <1>1
  <2>2. \A i \in 1 .. n - 1 : acc[i] \in S
    BY <1>1
  <2> QED
    BY <1>2, <2>1, <2>2
<1>4. <<x>> \in Seq(S) /\ Len(<<x>>) = 1 /\ <<x>>[1] = x
  OBVIOUS
<1>5. /\ G!Front(acc) \o <<x>> \in Seq(S)
      /\ Len(G!Front(acc) \o <<x>>) = n
      /\ \A i \in 1 .. n - 1 : (G!Front(acc) \o <<x>>)[i] = G!Front(acc)[i]
      /\ (G!Front(acc) \o <<x>>)[n] = x
  <2> DEFINE f == G!Front(acc)
  <2>1. f \in Seq(S) /\ Len(f) = n - 1
    BY <1>3
  <2> HIDE DEF f
  <2> DEFINE t == f \o <<x>>
  <2>2. t \in Seq(S) /\ Len(t) = n
    BY <1>1, <1>4, <2>1
  <2>3. \A i \in 1 .. (n - 1) + 1 : t[i] = IF i <= n - 1 THEN f[i] ELSE <<x>>[i - (n - 1)]
    BY <1>1, <1>4, <2>1, ConcatProperties
  <2> HIDE DEF t
  <2>4. t[n] = x
    <3>1. n \in 1 .. (n - 1) + 1 /\ ~(n <= n - 1) /\ n - (n - 1) = 1
      BY <1>1
    <3> QED
      BY <1>4, <2>3, <3>1
  <2>5. \A i \in 1 .. n - 1 : t[i] = f[i]
    <3>1. \A i \in 1 .. n - 1 : i \in 1 .. (n - 1) + 1 /\ i <= n - 1
      BY <1>1
    <3> QED
      BY <2>3, <3>1
  <2> QED
    BY <2>2, <2>4, <2>5 DEF f, t
<1> QED
  BY <1>1, <1>2, <1>5 DEF n, G!Last

-----------------------------------------------------------------------------
\* Slots joined where they touch.
MergeOf(q) == G!FoldLeft(G!Merge, <<>>, q)

LEMMA MergeFinds ==
  ASSUME NEW a \in Seq(G!Window), NEW w \in G!Window
  PROVE  G!Merge(a, w) \in Seq(G!Window)
<1>1. CASE a # <<>> /\ w[1] <= G!Last(a)[2]
  <2> DEFINE l == G!Last(a)
             x == <<l[1], G!Max({l[2], w[2]})>>
  <2>1. l \in G!Window
    BY <1>1, EmptySeq, LenProperties DEF G!Last
  <2>2. /\ l[1] \in Nat /\ l[2] \in Nat /\ l[1] < l[2]
        /\ w[1] \in Nat /\ w[2] \in Nat
    BY <2>1 DEF G!Window
  <2> HIDE DEF l
  <2>3. G!Max({l[2], w[2]}) = IF l[2] >= w[2] THEN l[2] ELSE w[2]
    BY <2>2, GreaterOf
  <2>4. x \in G!Window
    BY <2>2, <2>3 DEF G!Window
  <2>5. G!Merge(a, w) = G!Front(a) \o <<x>>
    BY <1>1 DEF G!Merge, l
  <2> HIDE DEF x
  <2> QED
    BY <1>1, <2>4, <2>5, LastPut
<1>2. CASE ~(a # <<>> /\ w[1] <= G!Last(a)[2])
  <2>1. G!Merge(a, w) = Append(a, w)
    BY <1>2 DEF G!Merge
  <2> QED
    BY <2>1, OneMore
<1> QED
  BY <1>1, <1>2

MergeRun(took, q, n) ==
  /\ took[0] = <<>>
  /\ \A k \in 1 .. n : took[k] = G!Merge(took[k - 1], q[k])
  /\ MergeOf(q) = took[n]

LEMMA MergeRuns ==
  ASSUME NEW n \in Nat, NEW q \in [1 .. n -> G!Window]
  PROVE  \E took : MergeRun(took, q, n)
<1> DEFINE A == Seq(G!Window)
           base == <<>>
           step == [p \in A \X (1 .. n) |-> G!Merge(p[1], q[p[2]])]
           Folds(iter) == iter = [s \in SUBSET DOMAIN q |->
                                    IF s = {} THEN base
                                    ELSE G!Merge(iter[s \ {G!Max(s)}], q[G!Max(s)])]
           it == CHOOSE iter : Folds(iter)
<1>1. step \in [A \X (1 .. n) -> A]
  BY MergeFinds
<1> HIDE DEF A
<1>2. PICK iter \in [SUBSET (1 .. n) -> A] : Solves(iter, n, base, step)
  <2>1. base \in A
    BY EmptySeq DEF A
  <2> HIDE DEF step, base
  <2> QED BY <1>1, <2>1, FoldIsThere
<1>3. Folds(iter)
  <2>1. ASSUME NEW s \in SUBSET (1 .. n), s # {}
        PROVE  iter[s] = G!Merge(iter[s \ {G!Max(s)}], q[G!Max(s)])
    <3>1. G!Max(s) \in 1 .. n
      <4>1. IsFiniteSet(1 .. n)
        BY FS_Interval
      <4>2. IsFiniteSet(s)
        BY <4>1, FS_Subset
      <4>3. s \subseteq Nat
        OBVIOUS
      <4> QED
        BY <2>1, <4>2, <4>3, GreatestOf
    <3>2. iter[s \ {G!Max(s)}] \in A
      BY <1>2
    <3> QED
      BY <1>2, <2>1, <3>1, <3>2 DEF Solves
  <2>2. DOMAIN q = 1 .. n
    OBVIOUS
  <2>3. \A s \in SUBSET (1 .. n) : iter[s] = IF s = {} THEN base
                                    ELSE G!Merge(iter[s \ {G!Max(s)}], q[G!Max(s)])
    <3> HIDE DEF step
    <3> QED BY <1>2, <2>1 DEF Solves
  <2> QED
    BY <1>2, <2>2, <2>3
<1>4. Folds(it)
  <2> HIDE DEF Folds
  <2> QED BY <1>3
<1>5. MergeOf(q) = it[DOMAIN q]
  BY DEF MergeOf, G!FoldLeft, G!MapThenFoldSet
<1> HIDE DEF it
<1> DEFINE took == [k \in 0 .. n |-> it[1 .. k]]
<1>6. took[0] = base
  BY <1>4
<1>7. \A k \in 1 .. n : took[k] = G!Merge(took[k - 1], q[k])
  <2> SUFFICES ASSUME NEW k \in 1 .. n PROVE took[k] = G!Merge(took[k - 1], q[k])
    OBVIOUS
  <2>1. G!Max(1 .. k) = k /\ (1 .. k) \ {k} = 1 .. k - 1 /\ 1 .. k # {}
    <3>1. k \in Nat \ {0}
      OBVIOUS
    <3> QED
      BY <3>1, UpTo
  <2>2. 1 .. k \in SUBSET DOMAIN q
    OBVIOUS
  <2>3. it[1 .. k] = G!Merge(it[(1 .. k) \ {G!Max(1 .. k)}], q[G!Max(1 .. k)])
    BY <1>4, <2>1, <2>2
  <2>4. took[k] = it[1 .. k] /\ took[k - 1] = it[1 .. k - 1]
    OBVIOUS
  <2> QED
    BY <2>1, <2>3, <2>4
<1>8. MergeOf(q) = took[n]
  BY <1>5
<1> HIDE DEF took
<1> QED
  BY <1>6, <1>7, <1>8 DEF MergeRun

\* The windows joined so far have the hours of the slots so far, and an hour
\* between any two of them is in none.
Joined(acc, q, k) ==
  /\ acc \in Seq(G!Window)
  /\ k > 0 => acc # <<>>
  /\ \A j \in 1 .. Len(acc) : \E i \in 1 .. k : acc[j][1] = q[i][1]
  /\ \A i, j \in 1 .. Len(acc) : i < j => acc[i][2] < acc[j][1]
  /\ \A h \in Nat : (\E j \in 1 .. Len(acc) : Inside(h, acc[j])) <=>
       \E i \in 1 .. k : Inside(h, q[i])

LEMMA MergeStep ==
  ASSUME NEW n \in Nat, NEW q \in [1 .. n -> G!Window],
         \A i, j \in 1 .. n : i < j => q[i][1] <= q[j][1],
         NEW k \in 0 .. n - 1, NEW acc, Joined(acc, q, k)
  PROVE  Joined(G!Merge(acc, q[k + 1]), q, k + 1)
<1> DEFINE w == q[k + 1]
           m == Len(acc)
           new == G!Merge(acc, w)
<1>1. /\ w \in G!Window /\ w[1] \in Nat /\ w[2] \in Nat /\ w[1] < w[2]
      /\ \A i \in 1 .. k : q[i][1] <= w[1]
  BY DEF G!Window
<1>2. \A i : i \in 1 .. k + 1 <=> i \in 1 .. k \/ i = k + 1
  OBVIOUS
<1>3. /\ acc \in Seq(G!Window) /\ m \in Nat
      /\ \A j \in 1 .. m : /\ acc[j][1] \in Nat /\ acc[j][2] \in Nat
                           /\ acc[j][1] < acc[j][2] /\ acc[j][1] <= w[1]
  <2>1. acc \in Seq(G!Window) /\ m \in Nat /\ \A j \in 1 .. m : acc[j] \in G!Window
    BY LenProperties DEF Joined
  <2>2. \A j \in 1 .. m : \E i \in 1 .. k : acc[j][1] = q[i][1]
    BY DEF Joined
  <2> QED
    BY <1>1, <2>1, <2>2 DEF G!Window
<1>4. new \in Seq(G!Window)
  BY <1>1, <1>3, MergeFinds
<1>5. CASE acc # <<>> /\ w[1] <= G!Last(acc)[2]
  <2> DEFINE l == acc[m]
             x == <<l[1], G!Max({l[2], w[2]})>>
  <2>1. /\ m \in Nat \ {0} /\ l \in G!Window /\ G!Last(acc) = l
        /\ l[1] \in Nat /\ l[2] \in Nat /\ l[1] < l[2] /\ l[1] <= w[1] /\ w[1] <= l[2]
    <3>1. m \in Nat \ {0} /\ G!Last(acc) = l
      BY <1>3, <1>5, EmptySeq DEF G!Last
    <3> QED
      BY <1>3, <1>5, <3>1
  <2>2. x[1] = l[1] /\ x[2] = IF l[2] >= w[2] THEN l[2] ELSE w[2]
    BY <1>1, <2>1, GreaterOf
  <2>3. x \in G!Window
    BY <1>1, <2>1, <2>2 DEF G!Window
  <2>4. new = G!Front(acc) \o <<x>>
    BY <1>5, <2>1 DEF G!Merge
  <2>5. /\ Len(new) = m /\ new[m] = x
        /\ \A j \in 1 .. m - 1 : new[j] = acc[j]
    <3> HIDE DEF x, new
    <3> QED BY <1>3, <1>5, <2>3, <2>4, LastPut
  <2> HIDE DEF x, new, l, w
  <2>6. \A j : j \in 1 .. m <=> j \in 1 .. m - 1 \/ j = m
    BY <2>1
  <2>7. \A j \in 1 .. m : \E i \in 1 .. k + 1 : new[j][1] = q[i][1]
    <3> SUFFICES ASSUME NEW j \in 1 .. m PROVE \E i \in 1 .. k + 1 : new[j][1] = q[i][1]
      OBVIOUS
    <3>1. new[j][1] = acc[j][1]
      BY <2>2, <2>5, <2>6 DEF l
    <3> QED
      BY <1>2, <3>1 DEF Joined
  <2>8. \A i, j \in 1 .. m : i < j => new[i][2] < new[j][1]
    <3> SUFFICES ASSUME NEW i \in 1 .. m, NEW j \in 1 .. m, i < j
                 PROVE  new[i][2] < new[j][1]
      OBVIOUS
    <3>1. i \in 1 .. m - 1 /\ new[i] = acc[i]
      BY <2>1, <2>5
    <3>2. new[j][1] = acc[j][1]
      BY <2>2, <2>5, <2>6 DEF l
    <3> QED
      BY <3>1, <3>2 DEF Joined
  <2>9. ASSUME NEW h \in Nat
        PROVE  (\E j \in 1 .. m : Inside(h, new[j])) <=> \E i \in 1 .. k + 1 : Inside(h, q[i])
    <3>1. (\E j \in 1 .. m : Inside(h, acc[j])) <=> \E i \in 1 .. k : Inside(h, q[i])
      BY DEF Joined
    <3>2. Inside(h, x) <=> Inside(h, l) \/ Inside(h, w)
      BY <1>1, <2>1, <2>2 DEF Inside
    <3>3. (\E j \in 1 .. m : Inside(h, new[j])) <=>
            (\E j \in 1 .. m - 1 : Inside(h, acc[j])) \/ Inside(h, x)
      BY <2>1, <2>5, <2>6
    <3>4. (\E j \in 1 .. m : Inside(h, acc[j])) <=>
            (\E j \in 1 .. m - 1 : Inside(h, acc[j])) \/ Inside(h, l)
      BY <2>6 DEF l
    <3>5. (\E i \in 1 .. k + 1 : Inside(h, q[i])) <=>
            (\E i \in 1 .. k : Inside(h, q[i])) \/ Inside(h, w)
      BY <1>2 DEF w
    <3> QED
      BY <3>1, <3>2, <3>3, <3>4, <3>5
  <2>10. new # <<>>
    BY <2>1, <2>5
  <2> QED
    BY <1>4, <2>5, <2>7, <2>8, <2>9, <2>10 DEF Joined, new, w
<1>6. CASE ~(acc # <<>> /\ w[1] <= G!Last(acc)[2])
  <2>1. new = Append(acc, w)
    BY <1>6 DEF G!Merge
  <2>2. /\ Len(new) = m + 1 /\ new[m + 1] = w
        /\ \A j \in 1 .. m : new[j] = acc[j]
    <3> HIDE DEF w, new
    <3> QED BY <1>1, <1>3, <2>1, OneMore
  <2>3. \A j \in 1 .. m : acc[j][2] < w[1]
    <3> SUFFICES ASSUME NEW j \in 1 .. m PROVE acc[j][2] < w[1]
      OBVIOUS
    <3>1. acc # <<>> /\ m \in 1 .. m /\ G!Last(acc) = acc[m]
      BY <1>3 DEF G!Last
    <3>2. acc[m][2] < w[1]
      BY <1>1, <1>3, <1>6, <3>1
    <3>3. j < m => acc[j][2] < acc[m][1]
      BY <3>1 DEF Joined
    <3>4. j < m \/ j = m
      BY <1>3
    <3> HIDE DEF w, new
    <3> QED
      BY <1>1, <1>3, <3>1, <3>2, <3>3, <3>4
  <2> HIDE DEF new, w
  <2>4. \A j : j \in 1 .. m + 1 <=> j \in 1 .. m \/ j = m + 1
    BY <1>3
  <2>5. \A j \in 1 .. m + 1 : \E i \in 1 .. k + 1 : new[j][1] = q[i][1]
    <3>1. \A j \in 1 .. m : \E i \in 1 .. k : new[j][1] = q[i][1]
      BY <2>2 DEF Joined
    <3> QED
      BY <1>2, <2>2, <2>4, <3>1 DEF w
  <2>6. \A i, j \in 1 .. m + 1 : i < j => new[i][2] < new[j][1]
    <3> SUFFICES ASSUME NEW i \in 1 .. m + 1, NEW j \in 1 .. m + 1, i < j
                 PROVE  new[i][2] < new[j][1]
      OBVIOUS
    <3>1. i \in 1 .. m /\ new[i] = acc[i]
      BY <1>3, <2>2
    <3>2. CASE j = m + 1
      BY <2>2, <2>3, <3>1, <3>2
    <3>3. CASE j \in 1 .. m
      BY <2>2, <3>1, <3>3 DEF Joined
    <3> QED
      BY <2>4, <3>2, <3>3
  <2>7. ASSUME NEW h \in Nat
        PROVE  (\E j \in 1 .. m + 1 : Inside(h, new[j])) <=> \E i \in 1 .. k + 1 : Inside(h, q[i])
    <3>1. (\E j \in 1 .. m : Inside(h, acc[j])) <=> \E i \in 1 .. k : Inside(h, q[i])
      BY DEF Joined
    <3>2. (\E j \in 1 .. m + 1 : Inside(h, new[j])) <=>
            (\E j \in 1 .. m : Inside(h, acc[j])) \/ Inside(h, w)
      BY <2>2, <2>4
    <3>3. (\E i \in 1 .. k + 1 : Inside(h, q[i])) <=>
            (\E i \in 1 .. k : Inside(h, q[i])) \/ Inside(h, w)
      BY <1>2 DEF w
    <3> QED
      BY <3>1, <3>2, <3>3
  <2>8. new # <<>>
    BY <1>3, <2>2
  <2> QED
    BY <1>4, <2>2, <2>5, <2>6, <2>7, <2>8 DEF Joined, new, w
<1> QED
  BY <1>5, <1>6

\* A window is in a slot, or in several that touch, exactly when all its hours
\* are open.
LEMMA MergedHolds ==
  ASSUME NEW ws, IsFiniteSet(ws), ws \subseteq G!Window, NEW v \in G!Window
  PROVE  (\E m \in G!Range(G!Merged(ws)) : m[1] <= v[1] /\ m[2] >= v[2])
           <=> G!HoursOf(v) \subseteq G!Open(ws)
<1> DEFINE q == G!Sorted(ws)
           n == Cardinality(ws)
<1>1. /\ n \in Nat /\ q \in [1 .. n -> ws]
      /\ \A w \in ws : \E i \in 1 .. n : q[i] = w
      /\ \A i, j \in 1 .. n : i < j => q[i][1] <= q[j][1]
  BY SortedSlots, AllOf
<1>2. q \in [1 .. n -> G!Window]
  BY <1>1
<1> HIDE DEF n, q
<1>3. PICK took : MergeRun(took, q, n)
  BY <1>1, <1>2, MergeRuns
<1> DEFINE T == {k \in 0 .. n : Joined(took[k], q, k)}
<1>4. 0 \in T
  <2>1. Joined(<<>>, q, 0)
    BY EmptySeq DEF Joined
  <2> QED
    BY <1>1, <1>3, <2>1 DEF MergeRun
<1>5. ASSUME NEW k \in 0 .. n - 1, k \in T PROVE k + 1 \in T
  <2>1. Joined(took[k], q, k)
    BY <1>5
  <2>2. Joined(G!Merge(took[k], q[k + 1]), q, k + 1)
    BY <1>1, <1>2, <2>1, MergeStep
  <2>3. k + 1 \in 1 .. n /\ (k + 1) - 1 = k
    BY <1>1
  <2>4. took[k + 1] = G!Merge(took[k], q[k + 1])
    BY <1>3, <2>3 DEF MergeRun
  <2> QED
    BY <2>2, <2>3, <2>4
<1> DEFINE acc == took[n]
<1>6. Joined(acc, q, n)
  <2>1. n \in Nat /\ n \in 0 .. n
    BY <1>1
  <2>2. n \in T
    <3> HIDE DEF T
    <3> QED BY <1>4, <1>5, <2>1, CountedTo
  <2> QED
    BY <2>2
<1>7. G!Merged(ws) = acc
  BY <1>3 DEF MergeRun, MergeOf, G!Merged, q
<1> HIDE DEF acc
<1>8. /\ acc \in Seq(G!Window) /\ Len(acc) \in Nat
      /\ G!Range(acc) = {acc[j] : j \in 1 .. Len(acc)}
      /\ \A j \in 1 .. Len(acc) : /\ acc[j][1] \in Nat /\ acc[j][2] \in Nat
                                  /\ acc[j][1] < acc[j][2]
  <2>1. acc \in Seq(G!Window)
    BY <1>6 DEF Joined
  <2>2. Len(acc) \in Nat /\ DOMAIN acc = 1 .. Len(acc) /\ \A j \in 1 .. Len(acc) : acc[j] \in G!Window
    BY <2>1, LenProperties
  <2> QED
    BY <2>1, <2>2 DEF G!Range, G!Window
<1>9. v[1] \in Nat /\ v[2] \in Nat /\ v[1] < v[2] /\ \A h : h \in G!HoursOf(v) <=> h \in Nat /\ Inside(h, v)
  BY DEF G!Window, G!HoursOf, Inside
<1>10. ASSUME NEW h \in Nat
       PROVE  h \in G!Open(ws) <=> \E j \in 1 .. Len(acc) : Inside(h, acc[j])
  <2>1. ws \subseteq Nat \X Nat
    BY DEF G!Window
  <2>2. h \in G!Open(ws) <=> \E w \in ws : Inside(h, w)
    BY <2>1, OpenHours
  <2>3. (\E w \in ws : Inside(h, w)) <=> \E i \in 1 .. n : Inside(h, q[i])
    BY <1>1
  <2> QED
    BY <1>6, <2>2, <2>3 DEF Joined
<1>11. ASSUME NEW j \in 1 .. Len(acc), acc[j][1] <= v[1], acc[j][2] >= v[2]
       PROVE  G!HoursOf(v) \subseteq G!Open(ws)
  <2> SUFFICES ASSUME NEW h \in G!HoursOf(v) PROVE h \in G!Open(ws)
    OBVIOUS
  <2>1. h \in Nat /\ Inside(h, v)
    BY <1>9
  <2>2. Inside(h, acc[j])
    BY <1>8, <1>9, <1>11, <2>1 DEF Inside
  <2> QED
    BY <1>10, <2>1, <2>2
<1>12. ASSUME G!HoursOf(v) \subseteq G!Open(ws)
       PROVE  \E j \in 1 .. Len(acc) : acc[j][1] <= v[1] /\ acc[j][2] >= v[2]
  <2>1. Inside(v[1], v)
    BY <1>9 DEF Inside
  <2>2. PICK j \in 1 .. Len(acc) : Inside(v[1], acc[j])
    BY <1>9, <1>10, <1>12, <2>1
  <2>3. ASSUME acc[j][2] < v[2] PROVE FALSE
    <3> DEFINE h == acc[j][2]
    <3>1. h \in Nat /\ Inside(h, v)
      BY <1>8, <1>9, <2>2, <2>3 DEF Inside
    <3>2. PICK i \in 1 .. Len(acc) : Inside(h, acc[i])
      BY <1>9, <1>10, <1>12, <3>1
    <3>3. i < j \/ i = j \/ j < i
      BY <1>8
    <3>4. i < j => acc[i][2] < acc[j][1]
      BY <1>6 DEF Joined
    <3>5. j < i => acc[j][2] < acc[i][1]
      BY <1>6 DEF Joined
    <3> QED
      BY <1>8, <3>2, <3>3, <3>4, <3>5 DEF Inside
  <2> QED
    BY <1>8, <1>9, <2>2, <2>3 DEF Inside
<1>13. (\E m \in G!Range(acc) : m[1] <= v[1] /\ m[2] >= v[2]) <=>
         \E j \in 1 .. Len(acc) : acc[j][1] <= v[1] /\ acc[j][2] >= v[2]
  BY <1>8
<1> QED
  BY <1>7, <1>11, <1>12, <1>13

-----------------------------------------------------------------------------
\* The items of a space, in groups of those that overlap.
Item == [session : Number, window : G!Window]

Column == [of : Seq(Item), end : Nat]

Has(c, a) == \E j \in 1 .. Len(c.of) : c.of[j] = a

\* A group ends where the last of it does, and each of it but the first overlaps
\* one before it.
Chained(c) ==
  /\ Len(c.of) > 0
  /\ \A j \in 1 .. Len(c.of) : c.of[j].window[2] <= c.end
  /\ \E j \in 1 .. Len(c.of) : c.of[j].window[2] = c.end
  /\ \A j \in 2 .. Len(c.of) : \E i \in 1 .. j - 1 :
       G!Overlap(c.of[i].window, c.of[j].window)

Begun(a) == [of |-> <<a>>, end |-> a.window[2]]

Joining(c, a) == [of |-> Append(c.of, a), end |-> G!Max({c.end, a.window[2]})]

LEMMA ItemHours ==
  ASSUME NEW a \in Item
  PROVE  /\ a.window \in G!Window
         /\ a.window[1] \in Nat /\ a.window[2] \in Nat /\ a.window[1] < a.window[2]
BY DEF Item, G!Window

LEMMA GroupBegun ==
  ASSUME NEW a \in Item
  PROVE  /\ Begun(a) \in Column /\ Chained(Begun(a))
         /\ \A b : Has(Begun(a), b) <=> b = a
<1>1. /\ Begun(a).of = <<a>> /\ Begun(a).end = a.window[2] /\ Begun(a) \in Column
      /\ Len(<<a>>) = 1 /\ <<a>>[1] = a
  BY ItemHours DEF Begun, Column
<1> QED
  BY <1>1, ItemHours DEF Chained, Has

LEMMA GroupJoined ==
  ASSUME NEW c \in Column, NEW a \in Item
  PROVE  /\ Joining(c, a) \in Column
         /\ Joining(c, a).end = IF c.end >= a.window[2] THEN c.end ELSE a.window[2]
         /\ Len(c.of) \in Nat /\ Len(Joining(c, a).of) = Len(c.of) + 1
         /\ Joining(c, a).of[Len(c.of) + 1] = a
         /\ \A j \in 1 .. Len(c.of) : Joining(c, a).of[j] = c.of[j]
         /\ \A b : Has(Joining(c, a), b) <=> Has(c, b) \/ b = a
<1>1. c.of \in Seq(Item) /\ c.end \in Nat
  BY DEF Column
<1> DEFINE m == Len(c.of)
           new == Append(c.of, a)
<1>2. /\ new \in Seq(Item) /\ m \in Nat /\ Len(new) = m + 1 /\ new[m + 1] = a
      /\ \A j \in 1 .. m : new[j] = c.of[j]
  BY <1>1, OneMore
<1> HIDE DEF new
<1>3. /\ Joining(c, a) \in Column /\ Joining(c, a).of = new
      /\ Joining(c, a).end = IF c.end >= a.window[2] THEN c.end ELSE a.window[2]
  <2>1. Joining(c, a) = [of |-> new, end |-> G!Max({c.end, a.window[2]})]
    BY DEF Joining, new
  <2>2. G!Max({c.end, a.window[2]}) = IF c.end >= a.window[2] THEN c.end ELSE a.window[2]
    BY <1>1, ItemHours, GreaterOf
  <2> QED
    BY <1>1, <1>2, <2>1, <2>2, ItemHours DEF Column
<1>4. \A j : j \in 1 .. m + 1 <=> j \in 1 .. m \/ j = m + 1
  BY <1>2
<1>5. \A b : Has(Joining(c, a), b) <=> Has(c, b) \/ b = a
  BY <1>2, <1>3, <1>4 DEF Has
<1> QED
  BY <1>2, <1>3, <1>5

\* Who begins before a group ends joins it.
LEMMA GroupStaysChained ==
  ASSUME NEW c \in Column, Chained(c), NEW a \in Item, a.window[1] < c.end,
         \A j \in 1 .. Len(c.of) : c.of[j].window[1] <= a.window[1]
  PROVE  Chained(Joining(c, a))
<1> DEFINE m == Len(c.of)
           new == Joining(c, a)
<1>1. /\ new.end = IF c.end >= a.window[2] THEN c.end ELSE a.window[2]
      /\ m \in Nat /\ Len(new.of) = m + 1
      /\ new.of[m + 1] = a
      /\ \A j \in 1 .. m : new.of[j] = c.of[j]
  BY GroupJoined
<1>2. c.end \in Nat /\ \A j \in 1 .. m : c.of[j] \in Item
  BY LenProperties DEF Column
<1>3. \A j \in 1 .. m : c.of[j].window[1] \in Nat /\ c.of[j].window[2] \in Nat
  BY <1>2, ItemHours
<1>4. a.window[1] \in Nat /\ a.window[2] \in Nat /\ a.window[1] < a.window[2]
  BY ItemHours
<1>5. \A j : j \in 1 .. m + 1 <=> j \in 1 .. m \/ j = m + 1
  BY <1>1
<1>6. /\ m > 0 /\ \A j \in 1 .. m : c.of[j].window[2] <= c.end
      /\ \A j \in 2 .. m : \E i \in 1 .. j - 1 : G!Overlap(c.of[i].window, c.of[j].window)
  BY DEF Chained
<1>7. PICK e \in 1 .. m : c.of[e].window[2] = c.end
  BY DEF Chained
<1> HIDE DEF new, m
<1>8. \A j \in 1 .. m + 1 : new.of[j].window[2] <= new.end
  BY <1>1, <1>2, <1>3, <1>4, <1>5, <1>6
<1>9. \E j \in 1 .. m + 1 : new.of[j].window[2] = new.end
  BY <1>1, <1>5, <1>7
<1>10. ASSUME NEW j \in 2 .. m + 1
       PROVE  \E i \in 1 .. j - 1 : G!Overlap(new.of[i].window, new.of[j].window)
  <2>1. CASE j = m + 1
    <3>1. c.of[e].window[1] <= a.window[1]
      BY <1>7 DEF m
    <3>2. G!Overlap(c.of[e].window, a.window)
      BY <1>2, <1>3, <1>4, <1>7, <3>1 DEF G!Overlap
    <3>3. e \in 1 .. j - 1
      BY <1>1, <1>7, <2>1
    <3> QED
      BY <1>1, <1>7, <2>1, <3>2, <3>3
  <2>2. CASE j \in 2 .. m
    <3>1. PICK i \in 1 .. j - 1 : G!Overlap(c.of[i].window, c.of[j].window)
      BY <1>6, <2>2
    <3>2. i \in 1 .. m /\ j \in 1 .. m
      BY <1>1, <2>2
    <3> QED
      BY <1>1, <3>1, <3>2
  <2> QED
    BY <1>1, <2>1, <2>2
<1> QED
  BY <1>1, <1>6, <1>8, <1>9, <1>10 DEF Chained, new

GroupOf(q) == G!FoldLeft(G!Group, <<>>, q)

LEMMA GroupFinds ==
  ASSUME NEW acc \in Seq(Column), NEW a \in Item
  PROVE  G!Group(acc, a) \in Seq(Column)
<1>1. CASE acc = <<>> \/ a.window[1] >= G!Last(acc).end
  <2>1. G!Group(acc, a) = Append(acc, Begun(a))
    BY <1>1 DEF G!Group, Begun
  <2> QED
    BY <2>1, GroupBegun, OneMore
<1>2. CASE ~(acc = <<>> \/ a.window[1] >= G!Last(acc).end)
  <2>1. G!Group(acc, a) = G!Front(acc) \o <<Joining(G!Last(acc), a)>>
    BY <1>2 DEF G!Group, Joining
  <2>2. acc # <<>>
    BY <1>2
  <2>3. G!Last(acc) \in Column
    BY <2>2, EmptySeq, LenProperties DEF G!Last
  <2>4. Joining(G!Last(acc), a) \in Column
    BY <2>3, GroupJoined
  <2> QED
    BY <2>1, <2>2, <2>4, LastPut
<1> QED
  BY <1>1, <1>2

GroupRun(took, q, n) ==
  /\ took[0] = <<>>
  /\ \A k \in 1 .. n : took[k] = G!Group(took[k - 1], q[k])
  /\ GroupOf(q) = took[n]

LEMMA GroupRuns ==
  ASSUME NEW n \in Nat, NEW q \in [1 .. n -> Item]
  PROVE  \E took : GroupRun(took, q, n)
<1> DEFINE A == Seq(Column)
           base == <<>>
           step == [p \in A \X (1 .. n) |-> G!Group(p[1], q[p[2]])]
           Folds(iter) == iter = [s \in SUBSET DOMAIN q |->
                                    IF s = {} THEN base
                                    ELSE G!Group(iter[s \ {G!Max(s)}], q[G!Max(s)])]
           it == CHOOSE iter : Folds(iter)
<1>1. step \in [A \X (1 .. n) -> A]
  BY GroupFinds
<1> HIDE DEF A
<1>2. PICK iter \in [SUBSET (1 .. n) -> A] : Solves(iter, n, base, step)
  <2>1. base \in A
    BY EmptySeq DEF A
  <2> HIDE DEF step, base
  <2> QED BY <1>1, <2>1, FoldIsThere
<1>3. Folds(iter)
  <2>1. ASSUME NEW s \in SUBSET (1 .. n), s # {}
        PROVE  iter[s] = G!Group(iter[s \ {G!Max(s)}], q[G!Max(s)])
    <3>1. G!Max(s) \in 1 .. n
      <4>1. IsFiniteSet(1 .. n)
        BY FS_Interval
      <4>2. IsFiniteSet(s)
        BY <4>1, FS_Subset
      <4>3. s \subseteq Nat
        OBVIOUS
      <4> QED
        BY <2>1, <4>2, <4>3, GreatestOf
    <3>2. iter[s \ {G!Max(s)}] \in A
      BY <1>2
    <3> QED
      BY <1>2, <2>1, <3>1, <3>2 DEF Solves
  <2>2. DOMAIN q = 1 .. n
    OBVIOUS
  <2>3. \A s \in SUBSET (1 .. n) : iter[s] = IF s = {} THEN base
                                    ELSE G!Group(iter[s \ {G!Max(s)}], q[G!Max(s)])
    <3> HIDE DEF step
    <3> QED BY <1>2, <2>1 DEF Solves
  <2> QED
    BY <1>2, <2>2, <2>3
<1>4. Folds(it)
  <2> HIDE DEF Folds
  <2> QED BY <1>3
<1>5. GroupOf(q) = it[DOMAIN q]
  BY DEF GroupOf, G!FoldLeft, G!MapThenFoldSet
<1> HIDE DEF it
<1> DEFINE took == [k \in 0 .. n |-> it[1 .. k]]
<1>6. took[0] = base
  BY <1>4
<1>7. \A k \in 1 .. n : took[k] = G!Group(took[k - 1], q[k])
  <2> SUFFICES ASSUME NEW k \in 1 .. n PROVE took[k] = G!Group(took[k - 1], q[k])
    OBVIOUS
  <2>1. G!Max(1 .. k) = k /\ (1 .. k) \ {k} = 1 .. k - 1 /\ 1 .. k # {}
    <3>1. k \in Nat \ {0}
      OBVIOUS
    <3> QED
      BY <3>1, UpTo
  <2>2. 1 .. k \in SUBSET DOMAIN q
    OBVIOUS
  <2>3. it[1 .. k] = G!Group(it[(1 .. k) \ {G!Max(1 .. k)}], q[G!Max(1 .. k)])
    BY <1>4, <2>1, <2>2
  <2>4. took[k] = it[1 .. k] /\ took[k - 1] = it[1 .. k - 1]
    OBVIOUS
  <2> QED
    BY <2>1, <2>3, <2>4
<1>8. GroupOf(q) = took[n]
  BY <1>5
<1> HIDE DEF took
<1> QED
  BY <1>6, <1>7, <1>8 DEF GroupRun

\* The groups so far have the items so far, and a group begins where those before
\* it have ended.
Grouped(acc, q, k) ==
  /\ acc \in Seq(Column)
  /\ \A g \in 1 .. Len(acc) : Chained(acc[g])
  /\ \A a : (\E g \in 1 .. Len(acc) : Has(acc[g], a)) <=> \E i \in 1 .. k : q[i] = a
  /\ \A g, h \in 1 .. Len(acc) : g < h =>
       \A a : Has(acc[h], a) => acc[g].end <= a.window[1]

LEMMA GroupStep ==
  ASSUME NEW n \in Nat, NEW q \in [1 .. n -> Item],
         \A i, j \in 1 .. n : i < j => q[i].window[1] <= q[j].window[1],
         NEW k \in 0 .. n - 1, NEW acc, Grouped(acc, q, k)
  PROVE  Grouped(G!Group(acc, q[k + 1]), q, k + 1)
<1> DEFINE x == q[k + 1]
           m == Len(acc)
           new == G!Group(acc, x)
<1>1. /\ x \in Item /\ x.window[1] \in Nat /\ x.window[2] \in Nat /\ x.window[1] < x.window[2]
      /\ \A i \in 1 .. k : q[i] \in Item /\ q[i].window[1] <= x.window[1]
  BY ItemHours
<1>2. \A i : i \in 1 .. k + 1 <=> i \in 1 .. k \/ i = k + 1
  OBVIOUS
<1>3. acc \in Seq(Column) /\ m \in Nat /\ \A g \in 1 .. m : acc[g] \in Column
  BY LenProperties DEF Grouped
<1>4. new \in Seq(Column)
  BY <1>1, <1>3, GroupFinds
<1>5. \A g \in 1 .. m : \A a : Has(acc[g], a) => a \in Item /\ a.window[1] <= x.window[1]
  BY <1>1 DEF Grouped
<1>6. CASE ~(acc = <<>> \/ x.window[1] >= G!Last(acc).end)
  <2> DEFINE l == acc[m]
             y == Joining(l, x)
  <2>1. m \in Nat \ {0} /\ m \in 1 .. m /\ G!Last(acc) = l /\ l \in Column
    BY <1>3, <1>6, EmptySeq DEF G!Last
  <2>2. l.end \in Nat /\ x.window[1] < l.end
    BY <1>1, <1>6, <2>1 DEF Column
  <2>3. new = G!Front(acc) \o <<y>>
    BY <1>6, <2>1 DEF G!Group, Joining
  <2>4. y \in Column /\ \A b : Has(y, b) <=> Has(l, b) \/ b = x
    <3> HIDE DEF x, l
    <3> QED BY <1>1, <2>1, GroupJoined
  <2>5. Chained(y)
    <3>1. Chained(l)
      BY <2>1 DEF Grouped
    <3>2. \A j \in 1 .. Len(l.of) : l.of[j].window[1] <= x.window[1]
      BY <1>5, <2>1 DEF Has
    <3> HIDE DEF l, x
    <3> QED
      BY <1>1, <2>1, <2>2, <3>1, <3>2, GroupStaysChained
  <2>6. /\ Len(new) = m /\ new[m] = y
        /\ \A g \in 1 .. m - 1 : new[g] = acc[g]
    <3> HIDE DEF y, new
    <3> QED BY <1>3, <1>6, <2>3, <2>4, LastPut
  <2>7. \A g : g \in 1 .. m <=> g \in 1 .. m - 1 \/ g = m
    BY <2>1
  <2> HIDE DEF y, new, l, x
  <2>8. \A g \in 1 .. m : Chained(new[g])
    <3>1. \A g \in 1 .. m - 1 : Chained(acc[g])
      BY <2>7 DEF Grouped
    <3> QED
      BY <2>5, <2>6, <2>7, <3>1
  <2>9. ASSUME NEW a
        PROVE  (\E g \in 1 .. m : Has(new[g], a)) <=> \E i \in 1 .. k + 1 : q[i] = a
    <3>1. (\E g \in 1 .. m : Has(acc[g], a)) <=> \E i \in 1 .. k : q[i] = a
      BY DEF Grouped
    <3>2. (\E g \in 1 .. m : Has(new[g], a)) <=>
            (\E g \in 1 .. m - 1 : Has(acc[g], a)) \/ Has(y, a)
      BY <2>6, <2>7
    <3>3. (\E g \in 1 .. m : Has(acc[g], a)) <=>
            (\E g \in 1 .. m - 1 : Has(acc[g], a)) \/ Has(l, a)
      BY <2>7 DEF l
    <3>4. (\E i \in 1 .. k + 1 : q[i] = a) <=> (\E i \in 1 .. k : q[i] = a) \/ a = x
      BY <1>2 DEF x
    <3> QED
      BY <2>4, <3>1, <3>2, <3>3, <3>4
  <2>10. ASSUME NEW g \in 1 .. m, NEW h \in 1 .. m, g < h, NEW a, Has(new[h], a)
         PROVE  new[g].end <= a.window[1]
    <3>1. g \in 1 .. m - 1 /\ new[g] = acc[g]
      BY <2>1, <2>6, <2>10
    <3>2. CASE Has(acc[h], a)
      BY <2>10, <3>1, <3>2 DEF Grouped
    <3>3. CASE h = m /\ a = x
      <4>1. Has(l, l.of[1]) /\ l.of[1] \in Item
        <5>1. Chained(l)
          BY <2>1 DEF Grouped, l
        <5>2. 1 \in 1 .. Len(l.of) /\ l.of[1] \in Item
          BY <2>1, <5>1, LenProperties DEF Chained, Column
        <5> QED
          BY <5>2 DEF Has
      <4>2. acc[g].end <= l.of[1].window[1]
        BY <2>10, <3>3, <4>1 DEF Grouped, l
      <4>3. l.of[1].window[1] <= x.window[1]
        BY <1>5, <2>1, <4>1 DEF l
      <4>4. acc[g].end \in Nat
        BY <1>3 DEF Column
      <4> QED
        BY <1>1, <3>1, <3>3, <4>1, <4>2, <4>3, <4>4, ItemHours
    <3>4. Has(acc[h], a) \/ (h = m /\ a = x)
      BY <2>4, <2>6, <2>7, <2>10 DEF l
    <3> QED
      BY <3>2, <3>3, <3>4
  <2> QED
    BY <1>4, <2>6, <2>8, <2>9, <2>10 DEF Grouped, new, x
<1>7. CASE acc = <<>> \/ x.window[1] >= G!Last(acc).end
  <2> DEFINE y == Begun(x)
  <2>1. new = Append(acc, y)
    BY <1>7 DEF G!Group, Begun
  <2>2. y \in Column /\ Chained(y) /\ \A b : Has(y, b) <=> b = x
    BY <1>1, GroupBegun
  <2>3. /\ Len(new) = m + 1 /\ new[m + 1] = y
        /\ \A g \in 1 .. m : new[g] = acc[g]
    <3> HIDE DEF y, new
    <3> QED BY <1>3, <2>1, <2>2, OneMore
  <2>4. \A g : g \in 1 .. m + 1 <=> g \in 1 .. m \/ g = m + 1
    BY <1>3
  <2>5. \A g \in 1 .. m : acc[g].end <= x.window[1]
    <3> SUFFICES ASSUME NEW g \in 1 .. m PROVE acc[g].end <= x.window[1]
      OBVIOUS
    <3>1. m \in 1 .. m /\ G!Last(acc) = acc[m] /\ acc # <<>>
      BY <1>3 DEF G!Last
    <3>2. acc[m].end <= x.window[1] /\ acc[m].end \in Nat /\ acc[g].end \in Nat
      BY <1>1, <1>3, <1>7, <3>1 DEF Column
    <3>3. CASE g < m
      <4>1. Chained(acc[m])
        BY <3>1 DEF Grouped
      <4>2. Has(acc[m], acc[m].of[1])
        BY <1>3, <3>1, <4>1, LenProperties DEF Chained, Has, Column
      <4>3. acc[g].end <= acc[m].of[1].window[1]
        BY <3>1, <3>3, <4>2 DEF Grouped
      <4>4. acc[m].of[1] \in Item /\ acc[m].of[1].window[1] <= x.window[1]
        BY <1>5, <3>1, <4>2
      <4> HIDE DEF x
      <4> QED
        BY <1>1, <3>2, <4>3, <4>4, ItemHours
    <3>4. g < m \/ g = m
      BY <1>3
    <3> QED
      BY <3>2, <3>3, <3>4
  <2> HIDE DEF new, x, y
  <2>6. \A g \in 1 .. m + 1 : Chained(new[g])
    <3>1. \A g \in 1 .. m : Chained(acc[g])
      BY DEF Grouped
    <3> QED
      BY <2>2, <2>3, <2>4, <3>1
  <2>7. ASSUME NEW a
        PROVE  (\E g \in 1 .. m + 1 : Has(new[g], a)) <=> \E i \in 1 .. k + 1 : q[i] = a
    <3>1. (\E g \in 1 .. m : Has(acc[g], a)) <=> \E i \in 1 .. k : q[i] = a
      BY DEF Grouped
    <3>2. (\E g \in 1 .. m + 1 : Has(new[g], a)) <=>
            (\E g \in 1 .. m : Has(acc[g], a)) \/ Has(y, a)
      BY <2>3, <2>4
    <3>3. (\E i \in 1 .. k + 1 : q[i] = a) <=> (\E i \in 1 .. k : q[i] = a) \/ a = x
      BY <1>2 DEF x
    <3> QED
      BY <2>2, <3>1, <3>2, <3>3
  <2>8. ASSUME NEW g \in 1 .. m + 1, NEW h \in 1 .. m + 1, g < h, NEW a, Has(new[h], a)
        PROVE  new[g].end <= a.window[1]
    <3>1. g \in 1 .. m /\ new[g] = acc[g]
      BY <1>3, <2>3, <2>8
    <3>2. CASE h \in 1 .. m
      BY <2>3, <2>8, <3>1, <3>2 DEF Grouped
    <3>3. CASE h = m + 1
      BY <2>2, <2>3, <2>5, <2>8, <3>1, <3>3
    <3> QED
      BY <2>4, <3>2, <3>3
  <2> QED
    BY <1>4, <2>3, <2>6, <2>7, <2>8 DEF Grouped, new, x
<1> QED
  BY <1>6, <1>7

\* Where the items of a read are: not placed, or in hours of theirs.
Kept(items) == \A s \in Number : items[s] # None => items[s].window \in G!Window

ShownOf(items, r, range) == G!InOrder(G!Shown(items, r, range), G!Before)

\* The items shown, by their starts.
LEMMA ShownInOrder ==
  ASSUME NEW items, Kept(items), NEW r, NEW range
  PROVE  /\ G!Shown(items, r, range) \subseteq Item
         /\ IsFiniteSet(G!Shown(items, r, range))
         /\ ShownOf(items, r, range) \in G!SetToSeqs(G!Shown(items, r, range))
         /\ \A i, j \in 1 .. Cardinality(G!Shown(items, r, range)) : i < j =>
              ShownOf(items, r, range)[i].window[1] <= ShownOf(items, r, range)[j].window[1]
<1> DEFINE S == G!Shown(items, r, range)
           there == {t \in G!Placed(items) :
                       items[t].space = r /\ G!Overlap(items[t].window, range)}
           shown == [s \in there |-> [session |-> s, window |-> items[s].window]]
           f == [a \in S |-> a.window[1]]
           InTurn(q) == \A i, j \in DOMAIN q : i < j => G!Before(q[i], q[j])
           o == ShownOf(items, r, range)
<1>1. IsFiniteSet(Number)
  BY PanelAssumption, GSets DEF G!GridAssumption
<1>2. S \subseteq Item
  BY PanelAssumption DEF G!GridAssumption, G!Shown, G!Placed, Item, Kept
<1>3. IsFiniteSet(S)
  <2>1. IsFiniteSet(there)
    BY <1>1, FS_Subset DEF G!Placed
  <2>2. shown \in Surjection(there, S)
    BY DEF G!Shown, Surjection
  <2> QED
    BY <2>1, <2>2, FS_Surjection
<1> HIDE DEF S
<1>4. f \in [S -> Nat]
  BY <1>2, ItemHours
<1>5. PICK q \in G!SetToSeqs(S) : \A i, j \in DOMAIN q : i < j => f[q[i]] <= f[q[j]]
  <2> HIDE DEF f
  <2> QED BY <1>3, <1>4, PutByNumber
<1>6. \A i \in DOMAIN q : q[i] \in S
  BY DEF G!SetToSeqs
<1>7. InTurn(q)
  BY <1>5, <1>6 DEF G!Before, G!ByStart
<1>8. o = CHOOSE s \in G!SetToSeqs(S) : InTurn(s)
  BY DEF ShownOf, G!InOrder, S
<1> HIDE DEF o
<1>9. o \in G!SetToSeqs(S) /\ InTurn(o)
  <2> HIDE DEF InTurn
  <2> QED BY <1>7, <1>8
<1>10. DOMAIN o = 1 .. Cardinality(S)
  BY <1>3, <1>9, AllOf
<1> QED
  BY <1>2, <1>3, <1>9, <1>10 DEF S, o, G!Before, G!ByStart

CardOf(c, i, range) ==
  [session |-> c.of[i].session, lane |-> i, lanes |-> Len(c.of),
   hours |-> G!Within(c.of[i].window, range)]

\* The cards of a space: those of groups that have the items shown, each of them
\* chained, and each beginning where those before it have ended.
Arranged(acc, items, r, range) ==
  /\ acc \in Seq(Column)
  /\ \A g \in 1 .. Len(acc) : Chained(acc[g])
  /\ \A a : (\E g \in 1 .. Len(acc) : Has(acc[g], a)) <=> a \in G!Shown(items, r, range)
  /\ \A g, h \in 1 .. Len(acc) : g < h =>
       \A a : Has(acc[h], a) => acc[g].end <= a.window[1]
  /\ \A c : c \in G!Cards(items, r, range) <=>
       \E g \in 1 .. Len(acc) : \E i \in 1 .. Len(acc[g].of) : c = CardOf(acc[g], i, range)

LEMMA CardsArranged ==
  ASSUME NEW items, Kept(items), NEW r, NEW range
  PROVE  \E acc : Arranged(acc, items, r, range)
<1> DEFINE S == G!Shown(items, r, range)
           q == ShownOf(items, r, range)
           n == Cardinality(S)
<1>1. /\ n \in Nat /\ q \in [1 .. n -> S] /\ S \subseteq Item
      /\ \A a \in S : \E i \in 1 .. n : q[i] = a
      /\ \A i, j \in 1 .. n : i < j => q[i].window[1] <= q[j].window[1]
  BY ShownInOrder, AllOf
<1>2. q \in [1 .. n -> Item]
  BY <1>1
<1> HIDE DEF n, q, S
<1>3. PICK took : GroupRun(took, q, n)
  BY <1>1, <1>2, GroupRuns
<1> DEFINE T == {k \in 0 .. n : Grouped(took[k], q, k)}
<1>4. 0 \in T
  <2>1. Grouped(<<>>, q, 0)
    BY EmptySeq DEF Grouped
  <2> QED
    BY <1>1, <1>3, <2>1 DEF GroupRun
<1>5. ASSUME NEW k \in 0 .. n - 1, k \in T PROVE k + 1 \in T
  <2>1. Grouped(took[k], q, k)
    BY <1>5
  <2>2. Grouped(G!Group(took[k], q[k + 1]), q, k + 1)
    BY <1>1, <1>2, <2>1, GroupStep
  <2>3. k + 1 \in 1 .. n /\ (k + 1) - 1 = k
    BY <1>1
  <2>4. took[k + 1] = G!Group(took[k], q[k + 1])
    BY <1>3, <2>3 DEF GroupRun
  <2> QED
    BY <2>2, <2>3, <2>4
<1> DEFINE acc == took[n]
<1>6. Grouped(acc, q, n)
  <2>1. n \in Nat /\ n \in 0 .. n
    BY <1>1
  <2>2. n \in T
    <3> HIDE DEF T
    <3> QED BY <1>4, <1>5, <2>1, CountedTo
  <2> QED
    BY <2>2
<1>7. acc = GroupOf(q)
  BY <1>3 DEF GroupRun
<1> HIDE DEF acc
<1>8. G!Cards(items, r, range) =
        UNION {{[session |-> g.of[i].session, lane |-> i, lanes |-> Len(g.of),
                 hours |-> G!Within(g.of[i].window, range)] :
                  i \in 1 .. Len(g.of)} : g \in G!Range(acc)}
  BY <1>7 DEF G!Cards, GroupOf, q, ShownOf
<1>9. G!Range(acc) = {acc[g] : g \in 1 .. Len(acc)}
  BY <1>6, LenProperties DEF Grouped, G!Range
<1>10. \A c : c \in G!Cards(items, r, range) <=>
         \E g \in 1 .. Len(acc) : \E i \in 1 .. Len(acc[g].of) : c = CardOf(acc[g], i, range)
  BY <1>8, <1>9 DEF CardOf
<1>11. \A a : (\E i \in 1 .. n : q[i] = a) <=> a \in S
  BY <1>1
<1>12. Arranged(acc, items, r, range)
  BY <1>6, <1>10, <1>11 DEF Arranged, Grouped, S
<1> QED
  BY <1>12

\* Two cards of items that overlap stand side by side, and a card that overlaps no
\* other has the column for itself.
LEMMA LanesApart ==
  ASSUME NEW items, Kept(items), NEW r, NEW range,
         NEW a \in G!Cards(items, r, range)
  PROVE  /\ \A b \in G!Cards(items, r, range) :
              a # b /\ G!Overlap(items[a.session].window, items[b.session].window)
                => a.lanes = b.lanes /\ a.lane # b.lane
         /\ (\A b \in G!Cards(items, r, range) \ {a} :
               ~G!Overlap(items[a.session].window, items[b.session].window)) => a.lanes = 1
<1>1. PICK acc : Arranged(acc, items, r, range)
  BY CardsArranged
<1> DEFINE m == Len(acc)
           size(g) == Len(acc[g].of)
           card(g, i) == CardOf(acc[g], i, range)
           slot(g, i) == acc[g].of[i].window
<1>2. \A c : c \in G!Cards(items, r, range) <=>
        \E g \in 1 .. m : \E i \in 1 .. size(g) : c = card(g, i)
  BY <1>1 DEF Arranged
<1>3. \A g \in 1 .. m : size(g) \in Nat
  BY <1>1, LenProperties DEF Arranged, Column
<1>4. ASSUME NEW g \in 1 .. m, NEW i \in 1 .. size(g)
      PROVE  /\ items[card(g, i).session].window = slot(g, i)
             /\ slot(g, i)[1] \in Nat /\ slot(g, i)[2] \in Nat /\ slot(g, i)[1] < slot(g, i)[2]
             /\ slot(g, i)[2] <= acc[g].end
             /\ acc[g].end \in Nat
             /\ card(g, i).lane = i /\ card(g, i).lanes = size(g)
             /\ \A h \in 1 .. m : h < g => acc[h].end <= slot(g, i)[1]
  <2>1. Has(acc[g], acc[g].of[i])
    BY DEF Has
  <2>2. acc[g].of[i] \in G!Shown(items, r, range)
    BY <1>1, <2>1 DEF Arranged
  <2>3. items[acc[g].of[i].session].window = slot(g, i)
    BY <2>2 DEF G!Shown
  <2>4. acc[g].of[i] \in Item
    BY <2>2, ShownInOrder
  <2>5. acc[g].end \in Nat
    <3>1. acc \in Seq(Column)
      BY <1>1 DEF Arranged
    <3>2. acc[g] \in Column
      BY <3>1, ElementOfSeq
    <3> QED
      BY <3>2 DEF Column
  <2>6. slot(g, i)[2] <= acc[g].end
    BY <1>1 DEF Arranged, Chained
  <2>7. \A h \in 1 .. m : h < g => acc[h].end <= slot(g, i)[1]
    BY <1>1, <2>1 DEF Arranged
  <2> QED
    BY <2>3, <2>4, <2>5, <2>6, <2>7, ItemHours DEF CardOf
<1>5. PICK g \in 1 .. m : \E i \in 1 .. size(g) : a = card(g, i)
  BY <1>2
<1>6. PICK i \in 1 .. size(g) : a = card(g, i)
  BY <1>5
<1>7. a.lane = i /\ a.lanes = size(g) /\ items[a.session].window = slot(g, i)
  BY <1>4, <1>6
<1>8. ASSUME NEW b \in G!Cards(items, r, range), a # b,
             G!Overlap(items[a.session].window, items[b.session].window)
      PROVE  a.lanes = b.lanes /\ a.lane # b.lane
  <2>1. PICK h \in 1 .. m : \E j \in 1 .. size(h) : b = card(h, j)
    BY <1>2
  <2>2. PICK j \in 1 .. size(h) : b = card(h, j)
    BY <2>1
  <2>3. b.lane = j /\ b.lanes = size(h) /\ items[b.session].window = slot(h, j)
    BY <1>4, <2>2
  <2>4. slot(g, i)[1] < slot(h, j)[2] /\ slot(h, j)[1] < slot(g, i)[2]
    BY <1>7, <1>8, <2>3 DEF G!Overlap
  <2>5. CASE g < h
    <3>1. acc[g].end <= slot(h, j)[1] /\ slot(g, i)[2] <= acc[g].end
      BY <1>4, <2>5
    <3>2. slot(g, i)[2] \in Nat /\ slot(h, j)[1] \in Nat /\ acc[g].end \in Nat
      BY <1>4
    <3> HIDE DEF slot
    <3> QED BY <2>4, <3>1, <3>2
  <2>6. CASE h < g
    <3>1. acc[h].end <= slot(g, i)[1] /\ slot(h, j)[2] <= acc[h].end
      BY <1>4, <2>6
    <3>2. slot(h, j)[2] \in Nat /\ slot(g, i)[1] \in Nat /\ acc[h].end \in Nat
      BY <1>4
    <3> HIDE DEF slot
    <3> QED BY <2>4, <3>1, <3>2
  <2>7. CASE g = h
    BY <1>6, <1>7, <1>8, <2>2, <2>3, <2>7
  <2>8. g < h \/ g = h \/ h < g
    OBVIOUS
  <2> QED
    BY <2>5, <2>6, <2>7, <2>8
<1>9. ASSUME size(g) # 1
      PROVE  \E b \in G!Cards(items, r, range) \ {a} :
               G!Overlap(items[a.session].window, items[b.session].window)
  <2>1. \A j \in 2 .. size(g) : \E e \in 1 .. j - 1 : G!Overlap(slot(g, e), slot(g, j))
    BY <1>1 DEF Arranged, Chained
  <2>2. \E j \in 1 .. size(g) : j # i /\ G!Overlap(slot(g, i), slot(g, j))
    <3>1. CASE i = 1
      <4>1. 2 \in 2 .. size(g)
        <5>1. size(g) \in Nat /\ i \in 1 .. size(g) /\ size(g) # 1
          BY <1>3, <1>9
        <5> HIDE DEF size
        <5>2. size(g) >= 1
          BY <5>1, <3>1
        <5> QED
          BY <5>1, <5>2
      <4>2. PICK e \in 1 .. 2 - 1 : G!Overlap(slot(g, e), slot(g, 2))
        BY <2>1, <4>1
      <4>3. e = 1
        OBVIOUS
      <4> HIDE DEF slot
      <4> QED
        BY <3>1, <4>1, <4>2, <4>3
    <3>2. CASE i # 1
      <4>1. i \in 2 .. size(g)
        BY <1>3, <3>2
      <4>2. PICK e \in 1 .. i - 1 : G!Overlap(slot(g, e), slot(g, i))
        BY <2>1, <4>1
      <4>3. e \in 1 .. size(g) /\ e # i
        BY <1>3, <4>1
      <4>4. G!Overlap(slot(g, i), slot(g, e))
        BY <4>2 DEF G!Overlap
      <4> QED
        BY <4>3, <4>4
    <3> QED
      BY <3>1, <3>2
  <2>3. PICK j \in 1 .. size(g) : j # i /\ G!Overlap(slot(g, i), slot(g, j))
    BY <2>2
  <2> DEFINE b == card(g, j)
  <2>4. b \in G!Cards(items, r, range) /\ b.lane = j /\ items[b.session].window = slot(g, j)
    BY <1>2, <1>4
  <2> HIDE DEF b, slot
  <2>5. b # a
    BY <1>7, <2>3, <2>4
  <2> QED
    BY <1>7, <2>3, <2>4, <2>5
<1> QED
  BY <1>7, <1>8, <1>9

\* The hours from both a and c, and before both b and d.
Both(a, b, c, d) == (IF a >= c THEN a ELSE c) .. (IF b <= d THEN b ELSE d) - 1

LEMMA InBoth ==
  ASSUME NEW a \in Nat, NEW b \in Nat, NEW c \in Nat, NEW d \in Nat
  PROVE  \A h : h \in Both(a, b, c, d) <=> h \in Nat /\ a <= h /\ h < b /\ c <= h /\ h < d
  BY DEF Both

\* A session is drawn in the hours it has of those that the page shows.
LEMMA DrawnWhole ==
  ASSUME NEW items, Kept(items), NEW r, NEW from \in Nat, NEW to \in Nat, from < to,
         NEW s \in G!Placed(items), items[s].space = r
  PROVE  G!Open({c.hours : c \in {e \in G!Cards(items, r, <<from, to>>) : e.session = s}})
           = G!HoursOf(items[s].window) \cap G!HoursOf(<<from, to>>)
<1> DEFINE range == <<from, to>>
           w == items[s].window
           mine == {e \in G!Cards(items, r, range) : e.session = s}
           drawn == {c.hours : c \in mine}
           x == [session |-> s, window |-> w]
<1>1. PICK acc : Arranged(acc, items, r, range)
  BY CardsArranged
<1>2. s \in Number /\ w \in G!Window /\ w[1] \in Nat /\ w[2] \in Nat /\ w[1] < w[2]
  BY DEF G!Placed, Kept, G!Window
<1>3. \A h : h \in G!HoursOf(w) \cap G!HoursOf(range) <=>
               h \in Nat /\ w[1] <= h /\ h < w[2] /\ from <= h /\ h < to
  BY <1>2 DEF G!HoursOf
<1>4. \A y \in G!Shown(items, r, range) : y.session = s => y = x
  BY DEF G!Shown
<1>5. x \in G!Shown(items, r, range) <=> G!Overlap(w, range)
  BY DEF G!Shown
<1>6. G!Within(w, range) = <<IF w[1] >= from THEN w[1] ELSE from,
                             IF w[2] <= to THEN w[2] ELSE to>>
  BY <1>2, GreaterOf DEF G!Within
<1>7. \A c \in mine : c.hours = G!Within(w, range) /\ x \in G!Shown(items, r, range)
  <2> SUFFICES ASSUME NEW c \in mine
               PROVE  c.hours = G!Within(w, range) /\ x \in G!Shown(items, r, range)
    OBVIOUS
  <2>1. PICK g \in 1 .. Len(acc) : \E i \in 1 .. Len(acc[g].of) : c = CardOf(acc[g], i, range)
    BY <1>1 DEF Arranged
  <2>2. PICK i \in 1 .. Len(acc[g].of) : c = CardOf(acc[g], i, range)
    BY <2>1
  <2>3. acc[g].of[i] \in G!Shown(items, r, range)
    BY <1>1 DEF Arranged, Has
  <2>4. acc[g].of[i].session = s
    BY <2>2 DEF CardOf
  <2>5. acc[g].of[i] = x
    BY <1>4, <2>3, <2>4
  <2> QED
    BY <2>2, <2>3, <2>5 DEF CardOf
<1>8. CASE G!Overlap(w, range)
  <2>1. PICK g \in 1 .. Len(acc) : Has(acc[g], x)
    BY <1>1, <1>5, <1>8 DEF Arranged
  <2>2. PICK i \in 1 .. Len(acc[g].of) : acc[g].of[i] = x
    BY <2>1 DEF Has
  <2>3. CardOf(acc[g], i, range) \in G!Cards(items, r, range)
    BY <1>1 DEF Arranged
  <2>4. CardOf(acc[g], i, range).session = s
    BY <2>2 DEF CardOf
  <2>5. mine # {}
    BY <2>3, <2>4
  <2>6. drawn = {G!Within(w, range)}
    <3> HIDE DEF mine
    <3> QED BY <1>7, <2>5
  <2>7. G!Open(drawn) = G!HoursOf(G!Within(w, range))
    BY <2>6 DEF G!Open
  <2>8. \A h : h \in G!HoursOf(G!Within(w, range)) <=>
                 h \in Nat /\ w[1] <= h /\ h < w[2] /\ from <= h /\ h < to
    <3>1. G!HoursOf(G!Within(w, range)) = Both(w[1], w[2], from, to)
      BY <1>6 DEF G!HoursOf, Both
    <3>2. w[1] \in Nat /\ w[2] \in Nat
      BY <1>2
    <3> HIDE DEF w
    <3>3. \A h : h \in Both(w[1], w[2], from, to) <=>
                   h \in Nat /\ w[1] <= h /\ h < w[2] /\ from <= h /\ h < to
      BY <3>2, InBoth
    <3> QED
      BY <3>1, <3>3
  <2> HIDE DEF drawn, mine, range, w
  <2>9. G!Open(drawn) = G!HoursOf(w) \cap G!HoursOf(range)
    BY <1>3, <2>7, <2>8
  <2> QED
    BY <2>9 DEF drawn, mine, range, w
<1>9. CASE ~G!Overlap(w, range)
  <2>1. drawn = {}
    <3> HIDE DEF mine
    <3> QED BY <1>5, <1>7, <1>9
  <2>2. G!Open(drawn) = {}
    BY <2>1 DEF G!Open
  <2>3. ~(w[1] < to /\ from < w[2])
    BY <1>9 DEF G!Overlap
  <2> HIDE DEF drawn, mine, range, w
  <2>4. G!HoursOf(w) \cap G!HoursOf(range) = {}
    BY <1>2, <1>3, <2>3
  <2>5. G!Open(drawn) = G!HoursOf(w) \cap G!HoursOf(range)
    BY <2>2, <2>4
  <2> QED
    BY <2>5 DEF drawn, mine, range, w
<1> QED
  BY <1>8, <1>9

-----------------------------------------------------------------------------
\* A card is plain exactly when nothing is wrong with it: of a page whose reads
\* agree, what is told is what there is; and a session fits its slots when the
\* merged ranges hold it.
LEMMA PlainCards ==
  ASSUME NEW p, p.now = p.items, p.track = None, Kept(p.items), NEW s \in G!Placed(p.items)
  PROVE  G!State(p, s) = "normal" <=>
           /\ \A c \in G!Clashes(p.items) : s \notin c[2]
           /\ Prefers[s] = {} \/ G!HoursOf(p.items[s].window) \subseteq G!Open(Prefers[s])
<1>1. s \in G!Subjects(p) /\ s \in Number /\ p.items[s] # None
  BY DEF G!Subjects, G!Placed
<1>2. Cardinality({}) = 0
  BY FS_EmptySet
<1>3. Moved(p) = {}
  BY DEF Moved
<1>4. ASSUME NEW c PROVE Cardinality(c[2] \cap Moved(p)) <= 1
  BY <1>2, <1>3
<1>5. (\E c \in G!Conflicts(p) : s \in {c[2], c[3]}) <=> \E c \in G!Clashes(p.items) : s \in c[2]
  <2>1. ASSUME NEW c \in G!Conflicts(p), s \in {c[2], c[3]}
        PROVE  \E e \in G!Clashes(p.items) : s \in e[2]
    <3>1. About(c) \in Told(p)
      BY DEF Told
    <3>2. About(c) \in G!Clashes(p.items) \cup G!Clashes(p.now)
      BY <1>4, <3>1, ToldStands
    <3>3. About(c)[2] = {c[2], c[3]}
      BY DEF About
    <3> QED
      BY <2>1, <3>2, <3>3
  <2>2. ASSUME NEW c \in G!Clashes(p.items), s \in c[2]
        PROVE  \E e \in G!Conflicts(p) : s \in {e[2], e[3]}
    <3>1. c[2] \cap G!Subjects(p) # {}
      BY <1>1, <2>2
    <3>2. c \in Told(p)
      BY <1>4, <3>1, StandingIsTold
    <3>3. PICK e \in G!Conflicts(p) : c = About(e)
      BY <3>2 DEF Told
    <3>4. c[2] = {e[2], e[3]}
      BY <3>3 DEF About
    <3> QED
      BY <2>2, <3>4
  <2> QED
    BY <2>1, <2>2
<1>6. s \in G!Violations(p) <=>
        Prefers[s] # {} /\ ~(G!HoursOf(p.items[s].window) \subseteq G!Open(Prefers[s]))
  <2> DEFINE v == p.items[s].window
  <2>1. v \in G!Window /\ IsFiniteSet(Prefers[s]) /\ Prefers[s] \subseteq G!Window
    BY <1>1, PanelAssumption, GSets DEF Kept, G!GridAssumption
  <2>2. s \in G!Violations(p) <=>
          /\ Prefers[s] # {}
          /\ ~ \E m \in G!Range(G!Merged(Prefers[s])) : m[1] <= v[1] /\ m[2] >= v[2]
    BY <1>1 DEF G!Violations
  <2> HIDE DEF v
  <2>3. (\E m \in G!Range(G!Merged(Prefers[s])) : m[1] <= v[1] /\ m[2] >= v[2])
          <=> G!HoursOf(v) \subseteq G!Open(Prefers[s])
    BY <2>1, MergedHolds
  <2> QED
    BY <2>2, <2>3 DEF v
<1>7. G!State(p, s) = "normal" <=>
        ~(\E c \in G!Conflicts(p) : s \in {c[2], c[3]}) /\ s \notin G!Violations(p)
  BY DEF G!State
<1> QED
  BY <1>5, <1>6, <1>7

-----------------------------------------------------------------------------
\* The hours of a day.
LEMMA DayIs ==
  ASSUME NEW d \in G!Day
  PROVE  /\ G!DayHours(d)[1] \in Nat /\ G!DayHours(d)[2] \in Nat
         /\ G!DayHours(d)[2] = G!DayHours(d)[1] + DayLength
         /\ DayLength \in Nat \ {0}
<1>1. DayLength \in Nat \ {0} /\ Days \in Nat \ {0}
  BY PanelAssumption DEF G!GridAssumption
<1>2. d \in Nat
  BY <1>1 DEF G!Day
<1>3. d * DayLength \in Nat /\ (d + 1) * DayLength = d * DayLength + DayLength
  BY <1>1, <1>2
<1> QED
  BY <1>1, <1>3 DEF G!DayHours

\* What a window has of another it overlaps is a window.
LEMMA PartOf ==
  ASSUME NEW w \in G!Window, NEW b \in G!Window, G!Overlap(w, b)
  PROVE  /\ G!Within(w, b) \in G!Window
         /\ b[1] <= G!Within(w, b)[1] /\ G!Within(w, b)[2] <= b[2]
         /\ \A h \in Nat : Inside(h, G!Within(w, b)) <=> Inside(h, w) /\ Inside(h, b)
<1>1. /\ w[1] \in Nat /\ w[2] \in Nat /\ w[1] < w[2]
      /\ b[1] \in Nat /\ b[2] \in Nat /\ b[1] < b[2]
      /\ w[1] < b[2] /\ b[1] < w[2]
  BY DEF G!Window, G!Overlap
<1>2. G!Within(w, b) = <<IF w[1] >= b[1] THEN w[1] ELSE b[1],
                         IF w[2] <= b[2] THEN w[2] ELSE b[2]>>
  BY <1>1, GreaterOf DEF G!Within
<1> DEFINE c == G!Within(w, b)
<1>3. /\ c = <<c[1], c[2]>>
      /\ c[1] = IF w[1] >= b[1] THEN w[1] ELSE b[1]
      /\ c[2] = IF w[2] <= b[2] THEN w[2] ELSE b[2]
  BY <1>2
<1> HIDE DEF c
<1>4. c[1] \in Nat /\ c[2] \in Nat /\ c[1] < c[2] /\ b[1] <= c[1] /\ c[2] <= b[2]
  BY <1>1, <1>3
<1>5. c \in G!Window
  BY <1>3, <1>4 DEF G!Window
<1>6. \A h \in Nat : Inside(h, c) <=> Inside(h, w) /\ Inside(h, b)
  BY <1>1, <1>3 DEF Inside
<1> QED
  BY <1>4, <1>5, <1>6 DEF c

\* A day's slots are what the event's have of the day.
LEMMA DaySlots ==
  ASSUME slots \in Openings, NEW d \in G!Day
  PROVE  /\ IsFiniteSet(G!Windows(d)) /\ G!Windows(d) \subseteq G!Window
         /\ \A c \in G!Windows(d) : G!DayHours(d)[1] <= c[1] /\ c[2] <= G!DayHours(d)[2]
         /\ \A h \in Nat : Inside(h, G!DayHours(d)) =>
              ((\E c \in G!Windows(d) : Inside(h, c)) <=> \E w \in slots : Inside(h, w))
<1> DEFINE b == G!DayHours(d)
           on == {w \in slots : G!Overlap(w, b)}
           f == [w \in on |-> G!Within(w, b)]
           W == G!Windows(d)
<1>1. b \in G!Window
  BY DayIs DEF G!DayHours, G!Window
<1>2. IsFiniteSet(slots) /\ slots \subseteq G!Window
  BY PanelAssumption, GSets DEF G!GridAssumption
<1>3. W = {G!Within(w, b) : w \in on}
  BY DEF G!Windows, G!Clip
<1>4. IsFiniteSet(on)
  BY <1>2, FS_Subset
<1>5. f \in Surjection(on, W)
  BY <1>3 DEF Surjection
<1>6. IsFiniteSet(W)
  BY <1>4, <1>5, FS_Surjection
<1> HIDE DEF f, W
<1>7. \A w \in on : /\ G!Within(w, b) \in G!Window
                    /\ b[1] <= G!Within(w, b)[1] /\ G!Within(w, b)[2] <= b[2]
                    /\ \A h \in Nat : Inside(h, G!Within(w, b)) <=> Inside(h, w) /\ Inside(h, b)
  <2> HIDE DEF b
  <2> QED BY <1>1, <1>2, PartOf
<1>8. ASSUME NEW h \in Nat, NEW w \in slots, Inside(h, w), Inside(h, b) PROVE w \in on
  <2>1. w[1] \in Nat /\ w[2] \in Nat /\ b[1] \in Nat /\ b[2] \in Nat
    BY <1>1, <1>2 DEF G!Window
  <2> HIDE DEF b
  <2> QED BY <1>8, <2>1 DEF Inside, G!Overlap
<1> HIDE DEF b, on
<1>9. ASSUME NEW h \in Nat, Inside(h, b)
      PROVE  (\E c \in W : Inside(h, c)) <=> \E w \in slots : Inside(h, w)
  <2>1. on \subseteq slots
    BY DEF on
  <2> QED
    BY <1>3, <1>7, <1>8, <1>9, <2>1
<1>10. W \subseteq G!Window /\ \A c \in W : b[1] <= c[1] /\ c[2] <= b[2]
  BY <1>3, <1>7
<1> QED
  BY <1>6, <1>9, <1>10 DEF W, b

\* Every day shown shows the hours from the earliest start on any of them to the
\* latest end: all of its own slots, and nothing of another day.
LEMMA DaySpan ==
  ASSUME slots \in Openings, NEW days, days \subseteq G!Available, NEW d \in days
  PROVE  \E from, to \in Nat :
           /\ G!DayRange(d, days) = <<from, to>> /\ from < to
           /\ G!DayHours(d)[1] <= from /\ to <= G!DayHours(d)[2]
           /\ \A c \in G!Windows(d) : from <= c[1] /\ c[2] <= to
<1> DEFINE edges(i) == UNION {{c[i] - G!DayHours(e)[1] : c \in G!Windows(e)} : e \in days}
           a == G!DayHours(d)[1]
           from == a + G!Min(edges(1))
           to == a + G!Max(edges(2))
<1>1. \A e \in days : e \in G!Day /\ G!Windows(e) # {}
  BY DEF G!Available
<1>2. DayLength \in Nat /\ a \in Nat /\ G!DayHours(d)[2] = a + DayLength
  BY <1>1, DayIs
<1>3. ASSUME NEW e \in days, NEW c \in G!Windows(e)
      PROVE  /\ c[1] \in Nat /\ c[2] \in Nat /\ c[1] < c[2]
             /\ c[1] - G!DayHours(e)[1] \in 0 .. DayLength
             /\ c[2] - G!DayHours(e)[1] \in 0 .. DayLength
  <2>1. /\ c \in G!Window
        /\ G!DayHours(e)[1] <= c[1] /\ c[2] <= G!DayHours(e)[2]
    BY <1>1, DaySlots
  <2>2. /\ G!DayHours(e)[1] \in Nat /\ G!DayHours(e)[2] = G!DayHours(e)[1] + DayLength
    BY <1>1, DayIs
  <2>3. c[1] \in Nat /\ c[2] \in Nat /\ c[1] < c[2]
    BY <2>1 DEF G!Window
  <2> QED
    BY <1>2, <2>1, <2>2, <2>3
<1>4. edges(1) \subseteq 0 .. DayLength /\ edges(2) \subseteq 0 .. DayLength
  BY <1>3
<1>5. ASSUME NEW c \in G!Windows(d) PROVE c[1] - a \in edges(1) /\ c[2] - a \in edges(2)
  OBVIOUS
<1>6. PICK w : w \in G!Windows(d)
  BY <1>1
<1>7. edges(1) # {} /\ edges(2) # {}
  BY <1>5, <1>6
<1> HIDE DEF edges, a
<1>8. edges(1) \subseteq Nat /\ edges(2) \subseteq Nat /\ IsFiniteSet(edges(2))
  <2>1. 0 .. DayLength \subseteq Nat /\ IsFiniteSet(0 .. DayLength)
    BY <1>2, FS_Interval
  <2> QED
    BY <1>4, <2>1, FS_Subset
<1>9. G!Min(edges(1)) \in edges(1) /\ \A x \in edges(1) : G!Min(edges(1)) <= x
  BY <1>7, <1>8, LeastOf
<1>10. G!Max(edges(2)) \in edges(2) /\ \A x \in edges(2) : x <= G!Max(edges(2))
  BY <1>7, <1>8, GreatestOf
<1>11. G!Min(edges(1)) \in Nat /\ G!Max(edges(2)) \in Nat /\ G!Max(edges(2)) <= DayLength
  BY <1>2, <1>4, <1>8, <1>9, <1>10
<1>12. from \in Nat /\ to \in Nat /\ a <= from /\ to <= G!DayHours(d)[2]
  BY <1>2, <1>11
<1>13. ASSUME NEW c \in G!Windows(d) PROVE from <= c[1] /\ c[2] <= to
  <2>1. G!Min(edges(1)) <= c[1] - a /\ c[2] - a <= G!Max(edges(2))
    BY <1>5, <1>9, <1>10
  <2>2. c[1] \in Nat /\ c[2] \in Nat
    BY <1>3
  <2> QED
    BY <1>2, <1>11, <2>1, <2>2
<1>14. from < to
  <2>1. from <= w[1] /\ w[2] <= to /\ w[1] \in Nat /\ w[2] \in Nat /\ w[1] < w[2]
    BY <1>3, <1>6, <1>13
  <2> HIDE DEF from, to
  <2> QED BY <1>12, <2>1
<1>15. G!DayRange(d, days) = <<from, to>>
  BY DEF G!DayRange, edges, a
<1> HIDE DEF from, to
<1> QED
  BY <1>12, <1>13, <1>14, <1>15 DEF a

\* The hours of some windows are numbers.
LEMMA OpenAre ==
  ASSUME NEW ws, ws \subseteq Nat \X Nat
  PROVE  G!Open(ws) \subseteq Nat
<1>1. ASSUME NEW w \in ws PROVE G!HoursOf(w) \subseteq Nat
  <2>1. w[1] \in Nat /\ w[2] \in Nat
    OBVIOUS
  <2> QED
    BY <2>1 DEF G!HoursOf
<1> QED
  BY <1>1 DEF G!Open

\* An hour shown is drawn closed when no slot is open then.
LEMMA ClosedWhenNoneIsOpen ==
  ASSUME slots \in Openings, NEW days, days \subseteq G!Available, NEW d \in days
  PROVE  G!Open(G!Closed(d, G!DayRange(d, days)))
           = G!HoursOf(G!DayRange(d, days)) \ G!Open(slots)
<1>1. PICK from, to \in Nat :
           /\ G!DayRange(d, days) = <<from, to>> /\ from < to
           /\ G!DayHours(d)[1] <= from /\ to <= G!DayHours(d)[2]
           /\ \A c \in G!Windows(d) : from <= c[1] /\ c[2] <= to
  BY DaySpan
<1>2. d \in G!Day
  BY DEF G!Available
<1>3. slots \subseteq Nat \X Nat
  BY PanelAssumption DEF G!GridAssumption, G!Window
<1> DEFINE shut == G!Closed(d, <<from, to>>)
<1>4. /\ shut \subseteq Nat \X Nat
      /\ \A h \in Nat : h \in G!Open(shut) <=>
           from <= h /\ h < to /\ \A w \in G!Windows(d) : ~Inside(h, w)
  BY <1>1, <1>2, DaySlots, ClosedHours
<1>5. ASSUME NEW h \in Nat, from <= h, h < to
      PROVE  h \in G!Open(slots) <=> \E w \in G!Windows(d) : Inside(h, w)
  <2>1. Inside(h, G!DayHours(d))
    BY <1>1, <1>2, <1>5, DayIs DEF Inside
  <2>2. h \in G!Open(slots) <=> \E w \in slots : Inside(h, w)
    BY <1>3, OpenHours
  <2> QED
    BY <1>2, <2>1, <2>2, DaySlots
<1>6. \A h : h \in G!HoursOf(<<from, to>>) <=> h \in Nat /\ from <= h /\ h < to
  BY DEF G!HoursOf
<1> HIDE DEF shut
<1>7. G!Open(shut) \subseteq Nat
  BY <1>4, OpenAre
<1>8. G!Open(shut) = G!HoursOf(<<from, to>>) \ G!Open(slots)
  BY <1>4, <1>5, <1>6, <1>7
<1> QED
  BY <1>1, <1>8 DEF shut

\* The days of a page are days with slots.
LEMMA DaysShown ==
  ASSUME NEW selected
  PROVE  G!Rendered(selected) \subseteq G!Available
<1>1. G!Available \subseteq Nat
  BY PanelAssumption DEF G!GridAssumption, G!Available, G!Day
<1>2. G!Available # {} => G!Min(G!Available) \in G!Available
  BY <1>1, LeastOf
<1> QED
  BY <1>2 DEF G!Rendered

-----------------------------------------------------------------------------
\* Sessions are put where there are places; and a page has what it read.
Whereabouts == [Number -> Places \cup {None}]

GInv ==
  /\ slots \in Openings
  /\ at \in Whereabouts
  /\ page \in [stage : {"none", "loaded", "read"}, track : DOMAIN Track \cup {None},
               items : Whereabouts \cup {None}, now : Whereabouts \cup {None}]
  /\ page.stage # "none" => page.items \in Whereabouts

LEMMA GInit == Init => GInv
BY DEF Init, G!Init, G!NoPage, GInv, Whereabouts

LEMMA GMove ==
  ASSUME GInv, NEW s \in Number, NEW p \in Places \cup {None}, G!Move(s, p)
  PROVE  GInv'
<1>1. at' \in Whereabouts
  BY DEF GInv, G!Move, Whereabouts
<1> HIDE DEF Whereabouts
<1>2. Whereabouts' = Whereabouts
  BY DEF Whereabouts
<1> QED
  BY <1>1, <1>2 DEF GInv, G!Move

LEMMA GRead ==
  ASSUME GInv, (\E t \in DOMAIN Track \cup {None} : G!Load(t)) \/ G!Warn \/ G!Leave
  PROVE  GInv'
<1>1. Whereabouts' = Whereabouts
  BY DEF Whereabouts
<1>2. CASE \E t \in DOMAIN Track \cup {None} : G!Load(t)
  BY <1>1, <1>2 DEF GInv, G!Load, G!NoPage
<1>3. CASE G!Warn
  BY <1>1, <1>3 DEF GInv, G!Warn
<1>4. CASE G!Leave
  BY <1>1, <1>4 DEF GInv, G!Leave, G!NoPage
<1> QED
  BY <1>2, <1>3, <1>4

LEMMA GNext == GInv /\ [Next]_vars => GInv'
<1> SUFFICES ASSUME GInv, [Next]_vars PROVE GInv'
  OBVIOUS
<1>1. CASE UNCHANGED grid
  BY <1>1 DEF grid, GInv, Whereabouts
<1>2. CASE G!Next
  <2>1. CASE \E s \in Number, p \in Places \cup {None} : G!Move(s, p)
    BY <2>1, GMove
  <2>2. CASE (\E t \in DOMAIN Track \cup {None} : G!Load(t)) \/ G!Warn \/ G!Leave
    BY <2>2, GRead
  <2> QED
    BY <1>2, <2>1, <2>2 DEF G!Next
<1> QED
  BY <1>1, <1>2 DEF Next, vars, InFacilitators, InErrata, InImport

\* The page shows the day as it is: what overlaps in a room stands side by side,
\* each in a lane of its own, and what overlaps nothing has the column; an hour
\* is drawn closed when no slot is open then; a session is drawn in the hours it
\* has, and is left plain exactly when nothing is wrong with it.
THEOREM GridTellsTheDayHolds == Spec => []GridTellsTheDay
<1>1. ASSUME GInv PROVE GridTellsTheDay
  <2> SUFFICES ASSUME page.stage = "read", page.items = page.now PROVE GridTellsTheDay
    BY DEF GridTellsTheDay, G!GridTellsTheDay
  <2>1. Kept(page.items)
    BY <1>1, PanelAssumption DEF GInv, Whereabouts, Kept, G!GridAssumption
  <2>2. page.track = None => \A s \in G!Placed(page.items) :
          G!State(page, s) = "normal" <=>
            /\ \A c \in G!Clashes(page.items) : s \notin c[2]
            /\ Prefers[s] = {} \/ G!HoursOf(page.items[s].window) \subseteq G!Open(Prefers[s])
    BY <2>1, PlainCards
  <2>3. ASSUME NEW selected, NEW d \in G!Rendered(selected)
        PROVE  LET range == G!DayRange(d, G!Rendered(selected)) IN
               /\ G!Open(G!Closed(d, range)) = G!HoursOf(range) \ G!Open(slots)
               /\ \A r \in Space :
                    LET cards == G!Cards(page.items, r, range)
                        overlap(a, b) == G!Overlap(page.items[a.session].window,
                                                   page.items[b.session].window)
                    IN
                    /\ \A a, b \in cards : a # b /\ overlap(a, b) =>
                         a.lanes = b.lanes /\ a.lane # b.lane
                    /\ \A a \in cards :
                         (\A b \in cards \ {a} : ~overlap(a, b)) => a.lanes = 1
                    /\ \A s \in G!Placed(page.items) : page.items[s].space = r =>
                         G!Open({c.hours : c \in {e \in cards : e.session = s}})
                           = G!HoursOf(page.items[s].window) \cap G!HoursOf(range)
    <3> DEFINE days == G!Rendered(selected)
               range == G!DayRange(d, days)
    <3>1. days \subseteq G!Available /\ slots \in Openings
      BY <1>1, DaysShown DEF GInv
    <3> HIDE DEF days
    <3>2. d \in days
      BY DEF days
    <3>3. PICK from, to \in Nat : range = <<from, to>> /\ from < to
      BY <3>1, <3>2, DaySpan
    <3>4. G!Open(G!Closed(d, range)) = G!HoursOf(range) \ G!Open(slots)
      BY <3>1, <3>2, ClosedWhenNoneIsOpen
    <3> HIDE DEF range
    <3>5. \A r, a, b : a \in G!Cards(page.items, r, range) /\ b \in G!Cards(page.items, r, range)
            /\ a # b /\ G!Overlap(page.items[a.session].window, page.items[b.session].window)
              => a.lanes = b.lanes /\ a.lane # b.lane
      BY <2>1, LanesApart
    <3>6. \A r, a : a \in G!Cards(page.items, r, range)
            /\ (\A b \in G!Cards(page.items, r, range) \ {a} :
                  ~G!Overlap(page.items[a.session].window, page.items[b.session].window))
              => a.lanes = 1
      BY <2>1, LanesApart
    <3>7. \A r : \A s \in G!Placed(page.items) : page.items[s].space = r =>
            G!Open({c.hours : c \in {e \in G!Cards(page.items, r, range) : e.session = s}})
              = G!HoursOf(page.items[s].window) \cap G!HoursOf(range)
      BY <2>1, <3>3, DrawnWhole
    <3> QED
      BY <3>4, <3>5, <3>6, <3>7 DEF range, days
  <2> QED
    BY <2>2, <2>3 DEF GridTellsTheDay, G!GridTellsTheDay
<1> QED
  BY <1>1, GInit, GNext, PTL DEF Spec
===============================================================================

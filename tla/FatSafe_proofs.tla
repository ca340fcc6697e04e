---------------------------- MODULE FatSafe_proofs ----------------------------
(***************************************************************************)
(* Proof that disk errors never lead two files of FatFile to one cluster.  *)
(*                                                                         *)
(* The clusters that a file is known to have are no longer those it was    *)
(* given: an error may leave a file whose entry leads to fewer of them, or *)
(* to ones of before.  The invariant FatSafe says that there is a chain    *)
(* for each file, disjoint from those of the others and in use, to which   *)
(* its entry or its FIL object leads, and that the entry of the open file, *)
(* which is older than its FIL object, leads to no cluster of another.     *)
(***************************************************************************)
EXTENDS FatFile_proofs

-----------------------------------------------------------------------------
\* The invariant

\* The clusters of the files but for f
Others(ch, f) == {c \in Clst : \E g \in Files : g # f /\ c \in Range(ch[g])}

\* No two files have a cluster in common, and what they have is in use.
Unshared(v, ch) ==
  /\ \A f \in Files : Taken(v, ch[f])
  /\ \A f, g \in Files, c \in Clst : c \in Range(ch[f]) /\ c \in Range(ch[g]) => f = g

\* The size counts the clusters of s, but that f_lseek may give a file one
\* cluster before it has a size.
Sized(o, s) ==
  /\ Len(s) = 0 => o.size = 0
  /\ o.stat = 2 => Len(s) = Count(o.size) \/ (Len(s) = 1 /\ o.size = 0)
  /\ o.stat = 3 => o.size # 0

\* After an error it counts at most those that a contiguous file has.
Roomy(o, s) ==
  /\ Len(s) = 0 => o.size = 0
  /\ o.stat = 2 => Count(o.size) <= Len(s)

\* The entry e leads to s.
Leads(v, e, s) ==
  IF e = NoEntry THEN s = <<>>
  ELSE Shape(v, LoadedOn(v, e), s) /\ Sized(LoadedOn(v, e), s)

\* A contiguous file was to go on elsewhere when an error stopped create_chain:
\* its status says that it is fragmented, but it has no second fragment.
Frayed(o, s) ==
  /\ s \in Seq(Clst) /\ Injective(s) /\ Len(s) > 0 /\ o.sclust = s[1]
  /\ o.stat = 3 /\ o.n_frag = 1 /\ o.n_cont = Len(s) - 1 /\ Run(s, 1, Len(s))

Broken(v, o, s) == Shape(v, o, s) \/ Frayed(o, s)

\* FA_OPEN_APPEND found the end of a chain that is too short for the size.
Adrift(f, s) == f.clust = EOC /\ f.o.stat = 0 /\ f.o.n_frag = 0 /\ Len(s) > 0

\* Between two calls or in a transfer: the file pointer is in its cluster.
Resting(f, s) ==
  /\ Sized(f.o, s) /\ f.fptr <= f.o.size
  /\ f.fptr > 0 => Adrift(f, s) \/ (Count(f.fptr) <= Len(s) /\ f.clust = s[Count(f.fptr)])

\* In a seek that has passed k clusters
CrossingAt(f, s, k) ==
  /\ f.fptr = CSize * k /\ Len(s) > 0
  /\ Adrift(f, s) \/ (k + 1 <= Len(s) /\ f.clust = s[k + 1])
  /\ f.o.stat = 2 => Count(f.o.size) <= Len(s) /\ (Count(f.o.size) < Len(s) => Len(s) = k + 1)
  /\ f.o.stat = 3 => f.o.size # 0

Crossing(f, s) == \E k \in Nat : CrossingAt(f, s, k)

\* The FIL object leads to s.
Grip(v, f, s, at) ==
  /\ f.o.n_frag > 0 => f.clust = s[Len(s)]
  /\ IF f.err THEN Broken(v, f.o, s) /\ Roomy(f.o, s)
     ELSE Shape(v, f.o, s) /\ (IF at = "seek" THEN Crossing(f, s) ELSE Resting(f, s))

\* The clusters whose links the FIL object has on the FAT, or will write there
Firm(o, s) == IF o.stat = 2 THEN {} ELSE {s[i] : i \in First(o) .. Len(s)}

Ends(v, c) == v.fat[c] = EOC \/ (v.type = "fat32" /\ v.fat[c] = FREE)

\* The FAT leads along p, clear of X, to an end or to a cluster of F.
Trail(v, p, F, X) ==
  /\ p \in Seq(Clst) /\ Len(p) > 0 /\ Injective(p)
  /\ \A i \in 1 .. Len(p) : p[i] \notin X
  /\ \A i \in 1 .. Len(p) - 1 : p[i] \notin F /\ v.fat[p[i]] = p[i + 1]
  /\ p[Len(p)] \in F \/ Ends(v, p[Len(p)])

\* The contiguous clusters of the entry e, clear of X
Stretch(e, p, X) ==
  /\ p \in Seq(Clst) /\ Injective(p) /\ Run(p, 1, Len(p))
  /\ Len(p) = IF e.size = 0 THEN 1 ELSE Count(e.size)
  /\ \A i \in 1 .. Len(p) : p[i] \notin X

\* The entry of the open file, as it was when it was last stored, does not lead
\* to X: it leads to a contiguous piece, to an end, or into the file of now.
Path(v, e, p, F, X) ==
  /\ p[1] = e.sclust
  /\ IF v.type = "exfat" /\ e.stat = 2 THEN Stretch(e, p, X) ELSE Trail(v, p, F, X)

Old(v, e, F, X) ==
  /\ e \in Entries /\ (e.sclust = 0 => e.size = 0)
  /\ e.sclust # 0 => \E p : Path(v, e, p, F, X)

\* The files but for the open one
Aside(v, en, cu, ch) ==
  /\ ch \in [Files -> Seq(Clst)] /\ Unshared(v, ch)
  /\ \A g \in Files : g # cu => Leads(v, en[g], ch[g])

SafeIn(v, en, cu, f, at, ch) ==
  /\ Aside(v, en, cu, ch)
  /\ cu # NoFile => /\ Grip(v, f, ch[cu], at)
                    /\ Old(v, en[cu], Firm(f.o, ch[cu]), Others(ch, cu))

Safe(v, en, cu, f, at) == \E ch : SafeIn(v, en, cu, f, at, ch)

FatSafe == ~loose => Safe(vol, entry, cur, fp, pc)

-----------------------------------------------------------------------------
\* What the volume and the other files keep when a call has changed one file

\* From v to w nothing of what is taken is touched but for s.
Spares(v, w, s) ==
  /\ w.type = v.type
  /\ \A c \in Clst : c \notin Range(s) /\ ~IsFree(v, c) => w.fat[c] = v.fat[c] /\ ~IsFree(w, c)

\* The clusters t are in use, and of no file but f.
Own(w, ch, f, t) ==
  t \in Seq(Clst) /\ \A c \in Range(t) : c \notin Others(ch, f) /\ ~IsFree(w, c)

LEMMA OtherIs ==
  ASSUME NEW ch \in [Files -> Seq(Clst)], NEW f \in Files, NEW g \in Files, g # f
  PROVE  \A c \in Range(ch[g]) : c \in Clst /\ c \in Others(ch, f)
<1>1. Range(ch[g]) \subseteq Clst
  BY RangeIs
<1> QED
  BY <1>1 DEF Others

LEMMA LeadsStays ==
  ASSUME NEW v \in Volumes, NEW w \in Volumes, NEW e \in Entries \cup {NoEntry}, NEW s,
         Leads(v, e, s), w.type = v.type, \A c \in Range(s) : w.fat[c] = v.fat[c]
  PROVE  Leads(w, e, s)
<1>1. CASE e = NoEntry
  BY <1>1 DEF Leads
<1>2. CASE e # NoEntry
  <2> DEFINE o == LoadedOn(v, e)
  <2>1. e \in Entries
    BY <1>2
  <2>2. o \in Objects /\ Shape(v, o, s) /\ Sized(o, s)
    BY <1>2, <2>1, LoadedOnType DEF Leads
  <2>3. LoadedOn(w, e) = o
    BY DEF LoadedOn
  <2> HIDE DEF o
  <2>4. Shape(w, o, s)
    BY <2>2, ShapeStays
  <2> QED
    BY <1>2, <2>2, <2>3, <2>4 DEF Leads
<1> QED
  BY <1>1, <1>2

\* In dh the file f has the clusters t, and the others what they have in ch.
Changed(v, w, ch, dh, f, t) ==
  /\ dh \in [Files -> Seq(Clst)] /\ Unshared(w, dh)
  /\ Others(dh, f) = Others(ch, f) /\ dh[f] = t
  /\ \A g \in Files : g # f => dh[g] = ch[g] /\ \A c \in Range(ch[g]) : w.fat[c] = v.fat[c]

LEMMA ChangeOne ==
  ASSUME NEW v \in Volumes, NEW w \in Volumes, NEW ch \in [Files -> Seq(Clst)], Unshared(v, ch),
         NEW f \in Files, NEW t, Spares(v, w, ch[f]), Own(w, ch, f, t)
  PROVE  \E dh : Changed(v, w, ch, dh, f, t)
<1> DEFINE dh == [ch EXCEPT ![f] = t]
<1>1. t \in Seq(Clst) /\ \A c \in Range(t) : c \notin Others(ch, f) /\ ~IsFree(w, c)
  BY DEF Own
<1>2. /\ dh \in [Files -> Seq(Clst)] /\ dh[f] = t
      /\ \A g \in Files : g # f => dh[g] = ch[g]
  BY <1>1
<1> HIDE DEF dh
<1>3. ASSUME NEW g \in Files, g # f, NEW c \in Range(ch[g])
      PROVE  c \in Clst /\ c \notin Range(ch[f]) /\ c \in Others(ch, f)
             /\ w.fat[c] = v.fat[c] /\ ~IsFree(w, c)
  <2>1. c \in Clst /\ c \in Others(ch, f)
    BY <1>3, OtherIs
  <2>2. c \notin Range(ch[f]) /\ ~IsFree(v, c)
    BY <1>3, <2>1 DEF Unshared, Taken
  <2> QED
    BY <2>1, <2>2 DEF Spares
<1>4. \A g \in Files : Taken(w, dh[g])
  <2> SUFFICES ASSUME NEW g \in Files, NEW c \in Clst, c \in Range(dh[g]) PROVE ~IsFree(w, c)
    BY DEF Taken
  <2>1. CASE g = f
    BY <1>1, <1>2, <2>1
  <2>2. CASE g # f
    BY <1>2, <1>3, <2>2
  <2> QED
    BY <2>1, <2>2
<1>5. \A g, h \in Files, c \in Clst : c \in Range(dh[g]) /\ c \in Range(dh[h]) => g = h
  <2> SUFFICES ASSUME NEW g \in Files, NEW h \in Files, NEW c \in Clst,
                      c \in Range(dh[g]), c \in Range(dh[h]), g # h
               PROVE  FALSE
    OBVIOUS
  <2>1. CASE g = f
    <3>1. c \in Range(t) /\ c \in Range(ch[h]) /\ h # f
      BY <1>2, <2>1
    <3> QED
      BY <1>1, <1>3, <3>1
  <2>2. CASE h = f
    <3>1. c \in Range(t) /\ c \in Range(ch[g]) /\ g # f
      BY <1>2, <2>2
    <3> QED
      BY <1>1, <1>3, <3>1
  <2>3. CASE g # f /\ h # f
    BY <1>2, <2>3 DEF Unshared
  <2> QED
    BY <2>1, <2>2, <2>3
<1>6. Others(dh, f) = Others(ch, f)
  BY <1>2 DEF Others
<1>7. Unshared(w, dh)
  BY <1>4, <1>5 DEF Unshared
<1> QED
  BY <1>2, <1>3, <1>6, <1>7 DEF Changed

\* The open file changes, and its entry may.
LEMMA OpenChanged ==
  ASSUME NEW v \in Volumes, NEW w \in Volumes, NEW en \in [Files -> Entries \cup {NoEntry}],
         NEW cu \in Files, NEW ch, Aside(v, en, cu, ch), NEW t, Spares(v, w, ch[cu]), Own(w, ch, cu, t), NEW ex, SameEntries(en, ex, cu),
         NEW g, NEW au, Grip(w, g, t, au), Old(w, ex[cu], Firm(g.o, t), Others(ch, cu))
  PROVE  Safe(w, ex, cu, g, au)
<1>1. ch \in [Files -> Seq(Clst)] /\ Unshared(v, ch)
      /\ \A h \in Files : h # cu => Leads(v, en[h], ch[h])
  BY DEF Aside
<1>5. PICK dh : Changed(v, w, ch, dh, cu, t)
  BY <1>1, ChangeOne
<1>2. /\ dh \in [Files -> Seq(Clst)] /\ Unshared(w, dh)
      /\ Others(dh, cu) = Others(ch, cu) /\ dh[cu] = t
      /\ \A h \in Files : h # cu => dh[h] = ch[h] /\ \A c \in Range(ch[h]) : w.fat[c] = v.fat[c]
  BY <1>5 DEF Changed
<1>3. ASSUME NEW h \in Files, h # cu PROVE Leads(w, ex[h], dh[h])
  <2> DEFINE e == en[h]
             s == ch[h]
  <2>1. e \in Entries \cup {NoEntry} /\ Leads(v, e, s) /\ ex[h] = e /\ dh[h] = s
    BY <1>1, <1>2, <1>3 DEF SameEntries
  <2>2. w.type = v.type /\ \A c \in Range(s) : w.fat[c] = v.fat[c]
    BY <1>2, <1>3 DEF Spares
  <2> HIDE DEF e, s
  <2> QED
    BY <2>1, <2>2, LeadsStays
<1>4. SafeIn(w, ex, cu, g, au, dh)
  BY <1>2, <1>3 DEF SafeIn, Aside
<1> QED
  BY <1>4 DEF Safe

\* The open file is closed.
LEMMA OpenClosed ==
  ASSUME NEW v \in Volumes, NEW w \in Volumes, NEW en \in [Files -> Entries \cup {NoEntry}],
         NEW cu \in Files, NEW ch, Aside(v, en, cu, ch), NEW t, Spares(v, w, ch[cu]), Own(w, ch, cu, t), NEW ex, SameEntries(en, ex, cu),
         NEW g, NEW au, Leads(w, ex[cu], t)
  PROVE  Safe(w, ex, NoFile, g, au)
<1>1. ch \in [Files -> Seq(Clst)] /\ Unshared(v, ch)
      /\ \A h \in Files : h # cu => Leads(v, en[h], ch[h])
  BY DEF Aside
<1>5. PICK dh : Changed(v, w, ch, dh, cu, t)
  BY <1>1, ChangeOne
<1>2. /\ dh \in [Files -> Seq(Clst)] /\ Unshared(w, dh) /\ dh[cu] = t
      /\ \A h \in Files : h # cu => dh[h] = ch[h] /\ \A c \in Range(ch[h]) : w.fat[c] = v.fat[c]
  BY <1>5 DEF Changed
<1>3. ASSUME NEW h \in Files PROVE Leads(w, ex[h], dh[h])
  <2>0. CASE h = cu
    BY <1>2, <2>0
  <2>1. CASE h # cu
    <3> DEFINE e == en[h]
               s == ch[h]
    <3>1. e \in Entries \cup {NoEntry} /\ Leads(v, e, s) /\ ex[h] = e /\ dh[h] = s
      BY <1>1, <1>2, <2>1 DEF SameEntries
    <3>2. w.type = v.type /\ \A c \in Range(s) : w.fat[c] = v.fat[c]
      BY <1>2, <2>1 DEF Spares
    <3> HIDE DEF e, s
    <3> QED
      BY <3>1, <3>2, LeadsStays
  <2> QED
    BY <2>0, <2>1
<1>4. SafeIn(w, ex, NoFile, g, au, dh)
  BY <1>2, <1>3, FileAssumption DEF SafeIn, Aside
<1> QED
  BY <1>4 DEF Safe

-----------------------------------------------------------------------------
\* Where an old entry leads

\* Links are only changed within G, or cut.
Rerouted(v, w, G) == \A c \in Clst : c \in G \/ w.fat[c] = v.fat[c] \/ Ends(w, c)

LEMMA TrailCut ==
  ASSUME NEW v, NEW w, w.type = v.type, NEW p, NEW F, NEW G, F \subseteq G, NEW X,
         NEW Y, Y \subseteq X, Trail(v, p, F, X), Rerouted(v, w, G)
  PROVE  \E q : q[1] = p[1] /\ Trail(w, q, G, Y)
<1> DEFINE m == Len(p)
           T == {i \in 1 .. m : p[i] \in G \/ Ends(w, p[i])}
<1>1. /\ p \in Seq(Clst) /\ m \in Nat /\ m > 0 /\ Injective(p)
      /\ \A i \in 1 .. m : p[i] \in Clst /\ p[i] \notin X
      /\ \A i \in 1 .. m - 1 : p[i] \notin F /\ v.fat[p[i]] = p[i + 1]
      /\ p[m] \in F \/ Ends(v, p[m])
  BY SeqFacts DEF Trail
<1> HIDE DEF m
<1>2. ASSUME NEW i \in 1 .. m, p[i] \notin G, ~Ends(w, p[i])
      PROVE  w.fat[p[i]] = v.fat[p[i]] /\ ~Ends(v, p[i])
  <2>1. w.fat[p[i]] = v.fat[p[i]]
    BY <1>1, <1>2 DEF Rerouted
  <2> QED
    BY <1>2, <2>1 DEF Ends
<1>3. m \in T
  BY <1>1, <1>2
<1>4. T \in SUBSET Nat /\ T # {}
  BY <1>1, <1>3
<1> HIDE DEF T
<1>5. PICK k \in T : \A j \in T : k <= j
  BY <1>4, Least
<1>6. k \in 1 .. m /\ (p[k] \in G \/ Ends(w, p[k]))
  BY DEF T
<1>7. ASSUME NEW i \in 1 .. k - 1 PROVE p[i] \notin G /\ w.fat[p[i]] = p[i + 1]
  <2>1. i \in 1 .. m /\ i \in 1 .. m - 1 /\ i \notin T
    BY <1>1, <1>4, <1>5, <1>6
  <2>2. p[i] \notin G /\ ~Ends(w, p[i])
    BY <2>1 DEF T
  <2> QED
    BY <1>1, <1>2, <2>1, <2>2
<1> DEFINE q == SubSeq(p, 1, k)
<1>8. q \in Seq(Clst) /\ Len(q) = k /\ \A i \in 1 .. k : q[i] = p[i]
  BY <1>1, <1>6, Prefix DEF m
<1> HIDE DEF q
<1>9. Injective(q)
  <2>1. \A i, j \in 1 .. m : p[i] = p[j] => i = j
    BY <1>1 DEF Injective, m
  <2> SUFFICES ASSUME NEW i \in 1 .. k, NEW j \in 1 .. k, q[i] = q[j] PROVE i = j
    BY <1>8 DEF Injective
  <2>2. i \in 1 .. m /\ j \in 1 .. m
    BY <1>1, <1>6
  <2>3. p[i] = p[j]
    BY <1>8
  <2> QED
    BY <2>1, <2>2, <2>3
<1>10. Trail(w, q, G, Y)
  <2>1. \A i \in 1 .. k : q[i] \notin Y
    BY <1>1, <1>6, <1>8
  <2>2. ASSUME NEW i \in 1 .. k - 1 PROVE q[i] \notin G /\ w.fat[q[i]] = q[i + 1]
    <3>1. i \in 1 .. k /\ i + 1 \in 1 .. k
      BY <1>1, <1>6
    <3>2. q[i] = p[i] /\ q[i + 1] = p[i + 1]
      BY <1>8, <3>1
    <3> QED
      BY <1>7, <3>2
  <2>3. q[k] \in G \/ Ends(w, q[k])
    BY <1>1, <1>6, <1>8
  <2> QED
    BY <1>1, <1>6, <1>8, <1>9, <2>1, <2>2, <2>3 DEF Trail
<1> QED
  BY <1>1, <1>6, <1>8, <1>10

LEMMA OldKeeps ==
  ASSUME NEW v, NEW w, w.type = v.type, NEW e, NEW F, NEW G, F \subseteq G, NEW X,
         NEW Y, Y \subseteq X, Old(v, e, F, X), Rerouted(v, w, G)
  PROVE  Old(w, e, G, Y)
<1> SUFFICES ASSUME e.sclust # 0 PROVE \E p : Path(w, e, p, G, Y)
  BY DEF Old
<1>1. PICK p : Path(v, e, p, F, X)
  BY DEF Old
<1>2. CASE v.type = "exfat" /\ e.stat = 2
  <2>1. Stretch(e, p, Y)
    BY <1>1, <1>2 DEF Path, Stretch
  <2> QED
    BY <1>1, <1>2, <2>1 DEF Path
<1>3. CASE ~(v.type = "exfat" /\ e.stat = 2)
  <2>1. Trail(v, p, F, X)
    BY <1>1, <1>3 DEF Path
  <2>2. PICK q : q[1] = p[1] /\ Trail(w, q, G, Y)
    BY <2>1, TrailCut
  <2> QED
    BY <1>1, <1>3, <2>2 DEF Path
<1> QED
  BY <1>2, <1>3

\* A contiguous entry does not lead over the FAT.
LEMMA OldApart ==
  ASSUME NEW v, NEW w, w.type = v.type, NEW e, NEW F, NEW G, NEW X, Old(v, e, F, X),
         e.sclust = 0 \/ (v.type = "exfat" /\ e.stat = 2)
  PROVE  Old(w, e, G, X)
BY DEF Old, Path

\* The links of the file of now lead to its end.
LEMMA TrailGoesOn ==
  ASSUME NEW v, NEW o \in Objects, NEW s, Shape(v, o, s), o.n_frag = 0, NEW X,
         \A c \in Range(s) : c \notin X, NEW p, Trail(v, p, Firm(o, s), X)
  PROVE  \E q : q[1] = p[1] /\ Trail(v, q, {}, X)
<1> DEFINE m == Len(p)
           n == Len(s)
           F == Firm(o, s)
<1>1. /\ p \in Seq(Clst) /\ m \in Nat /\ m > 0 /\ Injective(p)
      /\ \A i \in 1 .. m : p[i] \in Clst /\ p[i] \notin X
      /\ \A i \in 1 .. m - 1 : p[i] \notin F /\ v.fat[p[i]] = p[i + 1]
      /\ p[m] \in F \/ Ends(v, p[m])
  BY SeqFacts DEF Trail
<1>2. /\ s \in Seq(Clst) /\ Injective(s) /\ n \in Nat /\ First(o) \in Nat /\ First(o) >= 1
      /\ \A i \in 1 .. n : s[i] \in Clst
  <2>1. /\ s \in Seq(Clst) /\ Injective(s) /\ n \in Nat /\ o.n_cont \in Nat
        /\ \A i \in 1 .. n : s[i] \in Clst
    BY ShapeFields
  <2> HIDE DEF n
  <2> QED
    BY <2>1 DEF First
<1>3. \A i \in 1 .. n : s[i] \notin X
  BY <1>2, RangeIs
<1> HIDE DEF m, F
<1>4. CASE p[m] \notin F
  <2>1. Trail(v, p, {}, X)
    BY <1>1, <1>4 DEF Trail, m
  <2> QED
    BY <2>1
<1>5. CASE p[m] \in F
  <2>1. o.stat # 2 /\ \E j \in First(o) .. n : p[m] = s[j]
    BY <1>5 DEF F, Firm
  <2>2. PICK j \in First(o) .. n : p[m] = s[j]
    BY <2>1
  <2>3. /\ \A i \in j .. n - 1 : v.fat[s[i]] = s[i + 1]
        /\ v.fat[s[n]] = EOC
    <3>1. Edge(o) = 1
      BY DEF Edge
    <3>2. Linked(v, s, First(o), n - 1)
      BY <2>1, <3>1 DEF Shape
    <3>3. \A i \in First(o) .. n - 1 : v.fat[s[i]] = s[i + 1]
      BY <3>2 DEF Linked
    <3>4. n > 0 => v.fat[s[n]] = EOC
      BY <2>1 DEF Shape
    <3> HIDE DEF n
    <3> QED
      BY <1>2, <3>3, <3>4
  <2>4. \A i \in 1 .. m - 1 : \A l \in j .. n : p[i] # s[l]
    <3>1. \A l \in j .. n : s[l] \in F
      BY <1>2, <2>1 DEF F, Firm
    <3> QED
      BY <1>1, <3>1
  <2> HIDE DEF n
  <2> DEFINE k == m + (n - j)
             q == [i \in 1 .. k |-> IF i <= m THEN p[i] ELSE s[j + (i - m)]]
  <2>5. k \in Nat /\ j \in 1 .. n /\ k >= m
    BY <1>1, <1>2
  <2>6. q \in Seq(Clst) /\ Len(q) = k
    <3>1. q \in [1 .. k -> Clst]
      BY <1>1, <1>2, <2>5
    <3> HIDE DEF q, k
    <3> QED
      BY <2>5, <3>1
  <2>7. \A i \in 1 .. k : /\ i <= m => q[i] = p[i]
                          /\ i >= m => j + (i - m) \in j .. n /\ q[i] = s[j + (i - m)]
    BY <1>1, <1>2, <2>2, <2>5
  <2> HIDE DEF q
  <2>8. Injective(q)
    <3> SUFFICES ASSUME NEW a \in 1 .. k, NEW b \in 1 .. k, q[a] = q[b] PROVE a = b
      BY <2>6 DEF Injective
    <3>1. \A i, l \in 1 .. m : p[i] = p[l] => i = l
      BY <1>1 DEF Injective, m
    <3>2. \A i, l \in 1 .. n : s[i] = s[l] => i = l
      BY <1>2 DEF Injective, n
    <3>3. \A i, l \in j .. n : s[i] = s[l] => i = l
      BY <1>2, <2>5, <3>2
    <3> HIDE DEF k
    <3>4. CASE a < m
      <4>1. b >= m => FALSE
        BY <1>1, <2>4, <2>5, <2>7, <3>4
      <4> QED
        BY <1>1, <2>5, <2>7, <3>1, <3>4, <4>1
    <3>5. CASE b < m
      <4>1. a >= m => FALSE
        BY <1>1, <2>4, <2>5, <2>7, <3>5
      <4>2. a \in 1 .. m /\ b \in 1 .. m
        BY <1>1, <2>5, <3>5, <4>1
      <4>3. q[a] = p[a] /\ q[b] = p[b]
        BY <1>1, <2>5, <2>7, <4>2
      <4> QED
        BY <3>1, <4>2, <4>3
    <3>6. CASE a >= m /\ b >= m
      <4>1. j + (a - m) = j + (b - m)
        BY <2>7, <3>3, <3>6
      <4> QED
        BY <1>1, <2>5, <4>1
    <3> QED
      BY <1>1, <2>5, <3>4, <3>5, <3>6
  <2>9. \A i \in 1 .. k - 1 : v.fat[q[i]] = q[i + 1]
    <3> SUFFICES ASSUME NEW i \in 1 .. k - 1 PROVE v.fat[q[i]] = q[i + 1]
      OBVIOUS
    <3>1. i \in 1 .. k /\ i + 1 \in 1 .. k
      BY <2>5
    <3>2. CASE i < m
      <4>1. i \in 1 .. m - 1 /\ i + 1 <= m
        BY <1>1, <3>2
      <4> QED
        BY <1>1, <2>7, <3>1, <3>2, <4>1
    <3>3. CASE i >= m
      <4> DEFINE l == j + (i - m)
      <4>1. l \in j .. n - 1 /\ l + 1 = j + ((i + 1) - m)
        BY <1>1, <1>2, <2>5, <3>3
      <4>2. q[i] = s[l] /\ q[i + 1] = s[l + 1]
        BY <1>1, <2>7, <3>1, <3>3, <4>1
      <4> QED
        BY <2>3, <4>1, <4>2
    <3> QED
      BY <1>1, <3>2, <3>3
  <2>10. \A i \in 1 .. k : q[i] \notin X
    <3> SUFFICES ASSUME NEW i \in 1 .. k PROVE q[i] \notin X
      OBVIOUS
    <3>1. CASE i <= m
      BY <1>1, <2>5, <2>7, <3>1
    <3>2. CASE i >= m
      <4>1. j + (i - m) \in 1 .. n /\ q[i] = s[j + (i - m)]
        BY <1>2, <2>5, <2>7, <3>2
      <4> QED
        BY <1>3, <4>1
    <3> QED
      BY <1>1, <2>5, <3>1, <3>2
  <2>11. Ends(v, q[k])
    <3>1. q[k] = s[n]
      BY <1>1, <1>2, <2>5, <2>7
    <3> QED
      BY <2>3, <3>1 DEF Ends
  <2>12. Trail(v, q, {}, X)
    <3>1. k > 0
      BY <1>1, <2>5
    <3> QED
      BY <2>6, <2>8, <2>9, <2>10, <2>11, <3>1 DEF Trail
  <2>13. q[1] = p[1]
    BY <1>1, <2>5, <2>7
  <2> QED
    BY <2>12, <2>13
<1> QED
  BY <1>4, <1>5

LEMMA OldGoesOn ==
  ASSUME NEW v, NEW o \in Objects, NEW s, Shape(v, o, s), o.n_frag = 0, NEW X,
         \A c \in Range(s) : c \notin X, NEW e, Old(v, e, Firm(o, s), X)
  PROVE  Old(v, e, {}, X)
<1> SUFFICES ASSUME e.sclust # 0 PROVE \E p : Path(v, e, p, {}, X)
  BY DEF Old
<1>1. PICK p : Path(v, e, p, Firm(o, s), X)
  BY DEF Old
<1>2. CASE v.type = "exfat" /\ e.stat = 2
  BY <1>1, <1>2 DEF Path
<1>3. CASE ~(v.type = "exfat" /\ e.stat = 2)
  <2>1. PICK q : q[1] = p[1] /\ Trail(v, q, {}, X)
    BY <1>1, <1>3, TrailGoesOn DEF Path
  <2> QED
    BY <1>1, <1>3, <2>1 DEF Path
<1> QED
  BY <1>2, <1>3

-----------------------------------------------------------------------------
\* What an entry leads to is found.

USE DEF FREE, INT_ERR, EOC, DISK, FULL, UNKNOWN, OK, Clst

LEMMA FoundSized ==
  ASSUME NEW v \in Volumes, NEW o \in Objects, Plain(v, o), NEW s, Shape(v, o, s),
         o.n_frag = 0, Sized(o, s)
  PROVE  ChainOf(v, o) = s
<1>1. CASE Whole(o, s)
  BY <1>1, FoundAs
<1>2. CASE ~Whole(o, s)
  <2>1. o.stat = 2 /\ Len(s) = 1 /\ o.size = 0
    BY <1>2 DEF Sized, Whole
  <2>2. v.type # "fat32"
    BY <2>1 DEF Plain
  <2> DEFINE n == Len(s)
             c == s[n]
  <2>3. s \in Seq(Clst) /\ n = 1 /\ c \in Clst /\ o.sclust = c
    <3>1. /\ s \in Seq(Clst) /\ \A i \in 1 .. Len(s) : s[i] \in Clst
          /\ Len(s) > 0 => o.sclust = s[1]
      BY ShapeFields
    <3> QED
      BY <2>1, <3>1
  <2> HIDE DEF n, c
  <2>4. GetFat(v, o, c) = INT_ERR /\ INT_ERR \notin Clst
    BY <2>1, <2>2, <2>3 DEF GetFat
  <2>5. Len(s) \in 1 .. Clusters + 1
    BY <2>3, FatAssumption DEF n
  <2>6. \A i \in 1 .. Len(s) - 1 : GetFat(v, o, s[i]) = s[i + 1]
    BY <2>3 DEF n
  <2>7. GetFat(v, o, s[Len(s)]) \notin Clst
    BY <2>4 DEF n, c
  <2>8. Walk(v, o, s[1]) = s
    BY <2>3, <2>5, <2>6, <2>7, WalkFollows
  <2>9. o.sclust = s[1] /\ o.sclust \in Clst
    BY <2>3 DEF n, c
  <2> QED
    BY <2>8, <2>9 DEF ChainOf
<1> QED
  BY <1>1, <1>2

LEMMA LeadsTo ==
  ASSUME NEW v \in Volumes, NEW e \in Entries \cup {NoEntry}, NEW s, Leads(v, e, s)
  PROVE  IF e = NoEntry THEN s = <<>> ELSE ChainOf(v, LoadedOn(v, e)) = s
<1>1. CASE e = NoEntry
  BY <1>1 DEF Leads
<1>2. CASE e # NoEntry
  <2> DEFINE o == LoadedOn(v, e)
  <2>1. o \in Objects /\ Plain(v, o) /\ o.n_frag = 0 /\ Shape(v, o, s) /\ Sized(o, s)
    BY <1>2, LoadedOnType DEF Leads
  <2> HIDE DEF o
  <2>2. ChainOf(v, o) = s
    BY <2>1, FoundSized
  <2> QED
    BY <1>2, <2>2 DEF o
<1> QED
  BY <1>1, <1>2

\* An entry that was just loaded or stored leads into the file.
LEMMA OldFresh ==
  ASSUME NEW v \in Volumes, NEW e \in Entries, NEW s, Shape(v, LoadedOn(v, e), s),
         Roomy(LoadedOn(v, e), s), NEW o \in Objects, o.stat = LoadedOn(v, e).stat,
         NEW X, \A c \in Range(s) : c \notin X
  PROVE  Old(v, e, Firm(o, s), X)
<1> DEFINE l == LoadedOn(v, e)
           n == Len(s)
<1>1. /\ l \in Objects /\ l.sclust = e.sclust /\ l.size = e.size
      /\ l.stat = (IF v.type = "exfat" THEN e.stat ELSE 0)
      /\ e.stat \in {0, 2} /\ e.size \in Nat
  BY LoadedOnType, FileAssumption DEF Entries
<1>2. Shape(v, l, s) /\ Roomy(l, s) /\ o.stat = l.stat
  OBVIOUS
<1> HIDE DEF l
<1>3. /\ s \in Seq(Clst) /\ Injective(s) /\ n \in Nat /\ \A i \in 1 .. n : s[i] \in Clst
      /\ n > 0 => l.sclust = s[1]
      /\ n = 0 => l.sclust = 0
  BY <1>1, <1>2, ShapeFields
<1>4. \A i \in 1 .. n : s[i] \notin X
  BY <1>3, RangeIs
<1>5. e.sclust = 0 => e.size = 0
  <2>1. l.sclust = 0 => n = 0
    <3> HIDE DEF n
    <3> QED
      BY <1>3, FatAssumption
  <2> QED
    BY <1>1, <1>2, <2>1 DEF Roomy, n
<1> HIDE DEF n
<1>6. ASSUME e.sclust # 0 PROVE \E p : Path(v, e, p, Firm(o, s), X)
  <2>1. n > 0 /\ e.sclust = s[1]
    BY <1>1, <1>3, <1>6
  <2>2. CASE v.type = "exfat" /\ e.stat = 2
    <3> DEFINE k == IF e.size = 0 THEN 1 ELSE Count(e.size)
               p == SubSeq(s, 1, k)
    <3>1. k \in 1 .. n
      <4>1. Count(e.size) <= n /\ Count(e.size) \in Nat /\ (e.size # 0 => Count(e.size) # 0)
        BY <1>1, <1>2, <2>2, CountBounds DEF Roomy, n
      <4> QED
        BY <1>3, <2>1, <4>1
    <3>2. /\ p \in Seq(Clst) /\ Len(p) = k /\ Injective(p)
          /\ \A i \in 1 .. k : p[i] = s[i]
      <4> HIDE DEF k
      <4>1. k \in 0 .. Len(s)
        BY <1>3, <3>1 DEF n
      <4> QED
        BY <1>3, <4>1, Pieces
    <3>3. Run(p, 1, Len(p))
      <4> HIDE DEF p, k
      <4>1. Run(s, 1, n)
        BY <1>1, <1>2, <2>2 DEF Shape, n
      <4>2. \A i \in 1 .. n : s[i] = s[1] + (i - 1)
        BY <4>1 DEF Run
      <4>3. ASSUME NEW i \in 1 .. k PROVE p[i] = p[1] + (i - 1)
        <5>1. i \in 1 .. n /\ 1 \in 1 .. k
          BY <1>3, <3>1
        <5>2. p[i] = s[i] /\ p[1] = s[1]
          BY <3>2, <5>1
        <5>3. s[i] = s[1] + (i - 1)
          BY <4>2, <5>1
        <5> QED
          BY <5>2, <5>3
      <4> QED
        BY <3>2, <4>3 DEF Run
    <3>4. Len(p) = IF e.size = 0 THEN 1 ELSE Count(e.size)
      BY <3>2
    <3> HIDE DEF p, k
    <3>5. \A i \in 1 .. Len(p) : p[i] \notin X
      BY <1>3, <1>4, <3>1, <3>2
    <3>6. Stretch(e, p, X)
      BY <3>2, <3>3, <3>4, <3>5 DEF Stretch
    <3>7. p[1] = e.sclust
      BY <1>3, <2>1, <3>1, <3>2
    <3> QED
      BY <2>2, <3>6, <3>7 DEF Path
  <2>3. CASE ~(v.type = "exfat" /\ e.stat = 2)
    <3> DEFINE p == <<s[1]>>
    <3>1. p \in Seq(Clst) /\ Len(p) = 1 /\ p[1] = s[1]
      BY <1>3, <2>1
    <3>2. s[1] \in Firm(o, s)
      <4>1. o.stat = 0
        BY <1>1, <1>2, <2>3
      <4>2. First(o) = 1 /\ 1 \in First(o) .. n
        BY <1>3, <2>1, <4>1 DEF First
      <4> QED
        BY <4>1, <4>2 DEF Firm, n
    <3> HIDE DEF p
    <3>3. Trail(v, p, Firm(o, s), X)
      <4>1. Injective(p)
        BY <3>1 DEF Injective
      <4>2. \A i \in 1 .. Len(p) : p[i] \notin X
        BY <1>3, <1>4, <2>1, <3>1
      <4> QED
        BY <3>1, <3>2, <4>1, <4>2 DEF Trail
    <3> QED
      BY <2>1, <2>3, <3>1, <3>3 DEF Path
  <2> QED
    BY <2>2, <2>3
<1> QED
  BY <1>5, <1>6 DEF Old

LEMMA TrailFound ==
  ASSUME NEW v \in Volumes, NEW o \in Objects, NEW p, NEW X, Trail(v, p, {}, X),
         o.sclust = p[1], o.stat = 0, o.n_frag = 0
  PROVE  ChainOf(v, o) = p /\ (Taken(v, p) => Shape(v, o, p))
<1> DEFINE n == Len(p)
<1>1. /\ p \in Seq(Clst) /\ n \in Nat /\ n > 0 /\ Injective(p)
      /\ \A i \in 1 .. n : p[i] \in Clst
      /\ \A i \in 1 .. n - 1 : v.fat[p[i]] = p[i + 1]
      /\ Ends(v, p[n])
  BY SeqFacts DEF Trail
<1>2. n \in 0 .. Clusters
  BY <1>1, InjectiveSize
<1>3. \A c \in Clst : GetFat(v, o, c) = v.fat[c]
  BY DEF GetFat
<1>4. v.fat[p[n]] \notin Clst
  <2>1. v.fat[p[n]] \in {EOC, FREE}
    BY <1>1 DEF Ends
  <2> QED
    BY <2>1, FatAssumption
<1>5. n \in 1 .. Clusters + 1
  BY <1>1, <1>2, FatAssumption
<1>6. Walk(v, o, p[1]) = p
  <2>1. \A i \in 1 .. n - 1 : GetFat(v, o, p[i]) = p[i + 1]
    BY <1>1, <1>3
  <2>2. GetFat(v, o, p[n]) \notin Clst
    BY <1>1, <1>3, <1>4
  <2> QED
    BY <1>1, <1>5, <2>1, <2>2, WalkFollows
<1> HIDE DEF n
<1>7. ChainOf(v, o) = p
  BY <1>1, <1>6 DEF ChainOf
<1>8. ASSUME Taken(v, p) PROVE Shape(v, o, p)
  <2>1. p[n] \in Clst /\ p[n] \in Range(p)
    BY <1>1, RangeIs DEF n
  <2>2. v.fat[p[n]] = EOC
    BY <1>1, <1>8, <2>1 DEF Taken, IsFree, Ends
  <2>3. First(o) = 1 /\ Edge(o) = 1
    BY DEF First, Edge
  <2>4. Linked(v, p, First(o), n - Edge(o))
    BY <1>1, <2>3 DEF Linked
  <2> QED
    BY <1>1, <2>2, <2>4 DEF Shape, n
<1> QED
  BY <1>7, <1>8

LEMMA StretchFound ==
  ASSUME NEW v, NEW e \in Entries, NEW o \in Objects, NEW p, NEW X, Stretch(e, p, X),
         o.sclust = p[1], o.size = e.size, o.stat = 2, o.n_frag = 0
  PROVE  Shape(v, o, p) /\ Sized(o, p)
<1>1. e.size \in Nat
  BY FileAssumption DEF Entries
<1>2. Count(e.size) \in Nat /\ (e.size # 0 => Count(e.size) # 0)
  BY <1>1, CountBounds
<1>3. Len(p) \in Nat /\ Len(p) > 0
  BY <1>2 DEF Stretch
<1>4. Shape(v, o, p)
  BY <1>3 DEF Shape, Stretch
<1>5. Sized(o, p)
  BY <1>3 DEF Sized, Stretch
<1> QED
  BY <1>4, <1>5

\* An entry leads where it is found to lead, if its clusters are in use.
LEMMA OldFound ==
  ASSUME NEW v \in Volumes, NEW e, NEW X, Old(v, e, {}, X), e.sclust # 0
  PROVE  \E p \in Seq(Clst) : /\ ChainOf(v, LoadedOn(v, e)) = p
                              /\ \A c \in Range(p) : c \notin X
                              /\ Taken(v, p) => Leads(v, e, p)
<1> DEFINE o == LoadedOn(v, e)
<1>1. /\ e \in Entries /\ o \in Objects /\ Plain(v, o) /\ o.sclust = e.sclust /\ o.size = e.size
      /\ o.stat = (IF v.type = "exfat" THEN e.stat ELSE 0) /\ o.n_cont = 0 /\ o.n_frag = 0
      /\ e.stat \in {0, 2}
  BY LoadedOnType DEF Entries, Old
<1>2. e # NoEntry
  <2>1. NoEntry.sclust = UNKNOWN
    BY DEF NoEntry, Object
  <2>2. e.sclust \in {0} \cup Clst
    BY <1>1 DEF Entries
  <2> QED
    BY <2>1, <2>2, FatAssumption
<1>3. PICK p : Path(v, e, p, {}, X)
  BY DEF Old
<1> HIDE DEF o
<1>4. p \in Seq(Clst) /\ \A i \in 1 .. Len(p) : p[i] \notin X
  BY <1>3 DEF Path, Stretch, Trail
<1>5. \A c \in Range(p) : c \notin X
  BY <1>4, RangeIs
<1>6. CASE v.type = "exfat" /\ e.stat = 2
  <2>1. Shape(v, o, p) /\ Sized(o, p)
    BY <1>1, <1>3, <1>6, StretchFound DEF Path
  <2>2. ChainOf(v, o) = p
    BY <1>1, <2>1, FoundSized
  <2> QED
    BY <1>2, <1>4, <1>5, <2>1, <2>2 DEF Leads, o
<1>7. CASE ~(v.type = "exfat" /\ e.stat = 2)
  <2>1. o.stat = 0 /\ Trail(v, p, {}, X) /\ o.sclust = p[1]
    BY <1>1, <1>3, <1>7 DEF Path
  <2>2. ChainOf(v, o) = p /\ (Taken(v, p) => Shape(v, o, p))
    BY <1>1, <2>1, TrailFound
  <2>3. Sized(o, p)
    <3>1. Len(p) > 0
      BY <2>1 DEF Trail
    <3> QED
      BY <2>1, <3>1 DEF Sized
  <2> QED
    BY <1>2, <1>4, <1>5, <2>2, <2>3 DEF Leads, o
<1> QED
  BY <1>6, <1>7

-----------------------------------------------------------------------------
\* The growing edge is put on the FAT, or only its first links.

\* From v to w the file with the clusters s gets t: s is its own, and what t adds
\* was free.
Moves(v, w, s, t) ==
  /\ Spares(v, w, s) /\ t \in Seq(Clst)
  /\ \A c \in Range(t) : ~IsFree(w, c) /\ (c \in Range(s) \/ IsFree(v, c))

LEMMA MovesOwn ==
  ASSUME NEW v, NEW w, NEW ch \in [Files -> Seq(Clst)], Unshared(v, ch), NEW f \in Files,
         NEW t, Moves(v, w, ch[f], t)
  PROVE  Own(w, ch, f, t)
<1>1. t \in Seq(Clst) /\ \A c \in Range(t) : ~IsFree(w, c) /\ (c \in Range(ch[f]) \/ IsFree(v, c))
  BY DEF Moves
<1>2. ASSUME NEW c \in Range(t), c \in Others(ch, f) PROVE FALSE
  <2>1. c \in Clst /\ \E g \in Files : g # f /\ c \in Range(ch[g])
    BY <1>2 DEF Others
  <2>2. PICK g \in Files : g # f /\ c \in Range(ch[g])
    BY <2>1
  <2>3. ~IsFree(v, c) /\ c \notin Range(ch[f])
    BY <2>1, <2>2 DEF Unshared, Taken
  <2> QED
    BY <1>1, <2>3
<1> QED
  BY <1>1, <1>2 DEF Own

LEMMA RechainedMoves ==
  ASSUME NEW v, NEW w, NEW s, NEW t \in Seq(Clst), Rechained(v, w, s, t)
  PROVE  Moves(v, w, s, t)
<1>1. Range(t) \subseteq Clst
  BY RangeIs
<1>2. ASSUME NEW c \in Clst, c \notin Range(s), ~IsFree(v, c)
      PROVE  w.fat[c] = v.fat[c] /\ ~IsFree(w, c)
  BY <1>2 DEF Rechained
<1>3. ASSUME NEW c \in Range(t) PROVE ~IsFree(w, c) /\ (c \in Range(s) \/ IsFree(v, c))
  BY <1>1 DEF Rechained
<1>4. w.type = v.type
  BY DEF Rechained
<1> QED
  BY <1>2, <1>3, <1>4 DEF Moves, Spares

LEMMA PatchedMoves ==
  ASSUME NEW v, NEW w, NEW s \in Seq(Clst), Taken(v, s), Patched(v, w, s)
  PROVE  Moves(v, w, s, s)
BY PatchedKeeps, RechainedMoves

\* The last e clusters of a chain follow each other; their links are firm.
LEMMA EdgeRun ==
  ASSUME NEW v, NEW o \in Objects, NEW s, Shape(v, o, s), Len(s) > 0,
         NEW e \in Nat, o.stat = 2 => e = 1, o.stat # 2 => e = Edge(o)
  PROVE  LET a == Len(s) - e + 1
         IN  /\ e \in 1 .. Len(s) /\ a \in 1 .. Len(s) /\ a + e - 1 = Len(s)
             /\ s[Len(s)] - e + 1 = s[a] /\ Run(s, a, Len(s))
             /\ o.stat # 2 => First(o) <= a
<1> DEFINE m == Len(s)
           a == m - e + 1
<1>1. /\ m \in Nat /\ m > 0 /\ o.n_frag \in 0 .. m /\ o.n_cont \in Nat /\ o.stat \in {0, 2, 3}
      /\ \A i \in 1 .. m : s[i] \in Nat
      /\ o.stat = 3 => o.n_cont + 1 < m /\ o.n_frag <= m - o.n_cont - 1
  BY ShapeFields
<1>2. e = IF o.stat = 2 \/ o.n_frag = 0 THEN 1 ELSE o.n_frag
  BY DEF Edge
<1>3. o.stat # 2 /\ o.n_frag > 0 => Run(s, m - o.n_frag + 1, m)
  BY DEF Shape
<1> HIDE DEF m
<1>4. e \in 1 .. m /\ a \in 1 .. m /\ a + e - 1 = m
  BY <1>1, <1>2
<1>5. \A i \in a .. m : s[i] = s[a] + (i - a)
  <2>1. CASE e = 1
    <3>1. a = m /\ s[m] \in Nat
      BY <1>1, <2>1
    <3>2. \A i \in m .. m : i = m /\ s[i] = s[m] + (m - m)
      BY <1>1, <3>1
    <3> QED
      BY <3>1, <3>2
  <2>2. CASE e # 1
    <3>1. e = o.n_frag /\ Run(s, m - o.n_frag + 1, m)
      BY <1>1, <1>2, <1>3, <2>2
    <3> QED
      BY <3>1 DEF Run
  <2> QED
    BY <2>1, <2>2
<1>6. o.stat # 2 => First(o) <= a
  BY <1>1, <1>2 DEF First
<1> HIDE DEF a
<1>7. s[m] - e + 1 = s[a]
  <2>1. m \in a .. m /\ s[a] \in Nat /\ m - a = e - 1
    BY <1>1, <1>4
  <2>2. s[m] = s[a] + (m - a)
    BY <1>5, <2>1
  <2> QED
    BY <1>4, <2>1, <2>2
<1>8. Run(s, a, m)
  BY <1>5 DEF Run
<1> QED
  BY <1>4, <1>6, <1>7, <1>8 DEF a, m

\* In w n links of s have been written from a on, and nothing but s from there.
Written(v, w, s, a, n) ==
  /\ \A i \in 1 .. Len(s) : i < a \/ i >= a + n => w.fat[s[i]] = v.fat[s[i]]
  /\ \A i \in a .. a + n - 1 : i < Len(s) => w.fat[s[i]] = s[i + 1]
  /\ \A d \in Clst : w.fat[d] = v.fat[d] \/ \E i \in a .. Len(s) : d = s[i]

LEMMA EdgePartly ==
  ASSUME NEW v \in Volumes, NEW s \in Seq(Clst), Injective(s), NEW a \in 1 .. Len(s),
         NEW e \in Nat, a + e - 1 = Len(s), Run(s, a, Len(s)), NEW n \in 0 .. e, NEW term
  PROVE  Written(v, PutRun(v, s[a], n, e, term), s, a, n)
<1> DEFINE w == PutRun(v, s[a], n, e, term)
           m == Len(s)
<1>1. /\ m \in Nat /\ a \in 1 .. m /\ a + e - 1 = m /\ n \in Nat /\ n <= e
      /\ \A i \in 1 .. m : s[i] \in Clst /\ s[i] \in Nat
  <2>1. m \in Nat /\ \A i \in 1 .. m : s[i] \in Clst
    BY SeqFacts
  <2> HIDE DEF w
  <2>2. a \in 1 .. m /\ a + e - 1 = m /\ n \in Nat /\ n <= e
    OBVIOUS
  <2> HIDE DEF m
  <2>3. \A i \in 1 .. m : s[i] \in Nat
    BY <2>1, FatAssumption
  <2> QED
    BY <2>1, <2>2, <2>3
<1>2. RunLinked(v, w, s, a, n, e, term)
  <2>1. Run(s, a, a + n - 1) /\ a + n - 1 <= m
    <3>1. \A i \in a .. m : s[i] = s[a] + (i - a)
      BY DEF Run
    <3> HIDE DEF m
    <3> QED
      BY <1>1, <3>1 DEF Run
  <2> HIDE DEF w
  <2>2. RunLinked(v, PutRun(v, s[a], n, e, term), s, a, n, e, term)
    BY <1>1, <2>1, RunPut
  <2> QED
    BY <2>2 DEF w
<1>3. \A i \in a .. m : s[i] = s[a] + (i - a)
  BY DEF Run
<1>4. /\ \A i \in 1 .. m :
           w.fat[s[i]] = IF i \in a .. a + n - 1 THEN IF i = a + e - 1 THEN term ELSE s[i] + 1
                         ELSE v.fat[s[i]]
      /\ \A d \in Clst : d \notin Range(s) => w.fat[d] = v.fat[d]
  BY <1>2 DEF RunLinked
<1>5. \A d : d \in Range(s) <=> \E i \in 1 .. m : s[i] = d
  BY RangeIs
<1> HIDE DEF w, m
<1>6. \A i \in 1 .. m : i < a \/ i >= a + n => w.fat[s[i]] = v.fat[s[i]]
  BY <1>1, <1>4
<1>7. ASSUME NEW i \in a .. a + n - 1, i < m PROVE w.fat[s[i]] = s[i + 1]
  <2>1. i \in 1 .. m /\ i # a + e - 1 /\ i \in a .. m /\ i + 1 \in a .. m
    BY <1>1, <1>7
  <2>2. s[i] = s[a] + (i - a) /\ s[i + 1] = s[a] + (i + 1 - a) /\ s[a] \in Nat
    BY <1>1, <1>3, <2>1
  <2>3. s[i + 1] = s[i] + 1
    BY <1>1, <2>1, <2>2
  <2> QED
    BY <1>4, <2>1, <2>3
<1>8. ASSUME NEW d \in Clst PROVE w.fat[d] = v.fat[d] \/ \E i \in a .. m : d = s[i]
  <2>1. CASE d \notin Range(s)
    BY <1>4, <2>1
  <2>2. CASE d \in Range(s)
    <3>1. PICK i \in 1 .. m : s[i] = d
      BY <1>5, <2>2
    <3>2. i < a => w.fat[d] = v.fat[d]
      BY <1>6, <3>1
    <3>3. i >= a => i \in a .. m
      BY <1>1, <3>1
    <3> QED
      BY <1>1, <3>1, <3>2, <3>3
  <2> QED
    BY <2>1, <2>2
<1> QED
  BY <1>6, <1>7, <1>8 DEF Written, w, m

LEMMA WrittenFirm ==
  ASSUME NEW v, NEW w, NEW s, NEW a \in Nat, NEW n, Written(v, w, s, a, n),
         NEW o \in Objects, o.stat # 2, First(o) <= a, Len(s) \in Nat
  PROVE  Rerouted(v, w, Firm(o, s))
<1>1. First(o) \in Nat
  BY FatAssumption DEF First, Objects
<1>2. \A d \in Clst : w.fat[d] = v.fat[d] \/ \E i \in a .. Len(s) : d = s[i]
  BY DEF Written
<1>3. \A i \in a .. Len(s) : i \in First(o) .. Len(s)
  BY <1>1
<1>4. Firm(o, s) = {s[i] : i \in First(o) .. Len(s)}
  BY DEF Firm
<1>5. ASSUME NEW d \in Clst PROVE d \in Firm(o, s) \/ w.fat[d] = v.fat[d]
  BY <1>2, <1>3, <1>4
<1> QED
  BY <1>5 DEF Rerouted

\* A growing edge of which some links have been written
LEMMA PartlyShape ==
  ASSUME NEW v, NEW w, NEW o \in Objects, NEW p \in Objects, NEW s, Shape(v, o, s),
         Len(s) > 0, o.stat # 2, NEW e \in Nat, e = Edge(o), NEW n \in Nat, n < e,
         NEW a \in Nat, a + e - 1 = Len(s), Written(v, w, s, a, n),
         p.sclust = o.sclust, p.stat = o.stat, p.n_cont = o.n_cont, p.n_frag + n = e
  PROVE  Shape(w, p, s)
<1> DEFINE m == Len(s)
           b == a + n
           k == p.n_frag
           l == p.n_cont
<1>1. /\ s \in Seq(Clst) /\ Injective(s) /\ m \in Nat /\ m > 0 /\ o.sclust = s[1]
      /\ o.n_frag \in 0 .. m /\ l \in Nat /\ p.stat \in {0, 2, 3} /\ p.stat = o.stat
      /\ p.stat = 3 => l + 1 < m /\ o.n_frag <= m - l - 1
      /\ \A i \in 1 .. m : s[i] \in Nat
  BY ShapeFields
<1>2. /\ e \in 1 .. m /\ a \in 1 .. m /\ Run(s, a, m) /\ First(o) <= a
  <2>1. m - e + 1 = a
    BY <1>1
  <2> QED
    BY <2>1, EdgeRun
<1>3. /\ p.stat = 3 => l + 2 <= m /\ Run(s, 1, l + 1)
      /\ Linked(v, s, First(o), m - e)
  BY DEF Shape
<1>4. /\ \A i \in 1 .. m : i < a \/ i >= a + n => w.fat[s[i]] = v.fat[s[i]]
      /\ \A i \in a .. a + n - 1 : i < m => w.fat[s[i]] = s[i + 1]
  BY DEF Written
<1>5. /\ e = (IF o.n_frag = 0 THEN 1 ELSE o.n_frag) /\ a + e - 1 = m /\ n < e /\ k + n = e
      /\ k \in Nat
  BY FatAssumption DEF Edge, Objects
<1>6. p.sclust = IF m = 0 THEN 0 ELSE s[1]
  BY <1>1
<1>7. First(p) = First(o) /\ First(o) \in Nat /\ First(o) >= 1
  <2>1. First(p) = First(o) /\ First(p) = IF p.stat = 3 THEN l + 1 ELSE 1
    BY DEF First
  <2> HIDE DEF m, k, l
  <2> QED
    BY <1>1, <2>1
<1>8. m - Edge(p) = m - (IF k = 0 THEN 1 ELSE k)
  BY DEF Edge
<1> HIDE DEF m, k, l
<1>9. b \in a .. m /\ k > 0 /\ k <= m /\ m - k = b - 1 /\ m - k + 1 = b /\ m - e = a - 1
  BY <1>1, <1>2, <1>5
<1>10. p.stat = 3 => k <= m - l - 1
  BY <1>1, <1>2, <1>5
<1>11. Linked(w, s, First(p), m - Edge(p))
  <2>1. m - Edge(p) = b - 1
    BY <1>8, <1>9
  <2> HIDE DEF b
  <2>2. ASSUME NEW i \in First(p) .. b - 1 PROVE w.fat[s[i]] = s[i + 1]
    <3> DEFINE c == First(o)
    <3>5. c \in Nat /\ c >= 1 /\ i \in c .. b - 1
      BY <1>7
    <3> HIDE DEF c
    <3>6. b \in Nat /\ b <= m /\ i \in Nat /\ i >= 1 /\ i >= c /\ i <= b - 1
      BY <1>1, <1>2, <1>9, <3>5
    <3>7. i \in 1 .. m /\ i < m /\ i \in c .. m /\ i < b
      BY <1>1, <3>5, <3>6
    <3>1. i \in 1 .. m /\ i < m /\ i < a + n /\ i \in First(o) .. m
      BY <3>7 DEF b, c
    <3>2. CASE i < a
      <4>4. i \in First(o) .. a - 1
        BY <1>1, <1>7, <3>1, <3>2
      <4>1. i \in First(o) .. m - e
        BY <1>9, <4>4
      <4>2. v.fat[s[i]] = s[i + 1]
        BY <1>3, <4>1 DEF Linked
      <4> QED
        BY <1>4, <3>1, <3>2, <4>2
    <3>3. CASE i >= a
      <4>1. i \in a .. a + n - 1
        BY <1>1, <1>2, <3>1, <3>3
      <4> QED
        BY <1>4, <3>1, <4>1
    <3> QED
      BY <1>2, <3>1, <3>2, <3>3
  <2> QED
    BY <2>1, <2>2 DEF Linked
<1> HIDE DEF b
<1>12. Run(s, b, m)
  <2>1. \A i \in a .. m : s[i] = s[a] + (i - a)
    BY <1>2 DEF Run
  <2>4. s[a] \in Nat
    BY <1>1, <1>2
  <2>5. b \in a .. m /\ b \in Nat
    BY <1>1, <1>2, <1>9
  <2>2. s[a] \in Nat /\ s[b] = s[a] + (b - a) /\ b \in Nat
    BY <2>1, <2>4, <2>5
  <2>3. ASSUME NEW i \in b .. m PROVE s[i] = s[b] + (i - b)
    <3>1. i \in a .. m /\ i \in Nat
      BY <1>1, <1>2, <1>9
    <3>2. s[i] = s[a] + (i - a)
      BY <2>1, <3>1
    <3> QED
      BY <2>2, <3>1, <3>2
  <2> QED
    BY <2>3 DEF Run
<1>13. Run(s, m - k + 1, m)
  BY <1>9, <1>12
<1>14. /\ s \in Seq(Clst) /\ Injective(s) /\ p.sclust = IF Len(s) = 0 THEN 0 ELSE s[1]
       /\ p.n_frag <= Len(s) /\ p.n_frag > 0
  BY <1>1, <1>6, <1>9 DEF m, k
<1>15. p.stat = 3 => /\ p.n_cont + 2 <= Len(s) /\ Run(s, 1, p.n_cont + 1)
                     /\ p.n_frag <= Len(s) - p.n_cont - 1
  BY <1>3, <1>10 DEF m, k, l
<1>16. Linked(w, s, First(p), Len(s) - Edge(p)) /\ Run(s, Len(s) - p.n_frag + 1, Len(s))
  BY <1>11, <1>13 DEF m, k
<1>17. p.stat # 2 /\ p.n_frag # 0
  BY <1>1, <1>9 DEF k
<1> QED
  BY <1>14, <1>15, <1>16, <1>17 DEF Shape

\* The growing edge after fill_last_frag, stopped or not
Flushed(v, r, o, s) ==
  /\ r.v \in Volumes /\ r.o \in Objects /\ r.ret \in {OK, DISK}
  /\ Shape(r.v, r.o, s) /\ Patched(v, r.v, s) /\ Rerouted(v, r.v, Firm(o, s))
  /\ r.o.sclust = o.sclust /\ r.o.size = o.size /\ r.o.stat = o.stat /\ r.o.n_cont = o.n_cont
  /\ r.o.n_frag <= o.n_frag /\ (r.ret = OK => r.o.n_frag = 0)

LEMMA FillLastRun ==
  ASSUME NEW v, NEW o \in Objects, NEW lcl, NEW term, NEW r \in FillLast(v, o, lcl, term)
  PROVE  \E n \in 0 .. o.n_frag : /\ r.v = PutRun(v, lcl - o.n_frag + 1, n, o.n_frag, term)
                                  /\ r.o.n_frag = o.n_frag - n
                                  /\ r.ret = IF n = o.n_frag THEN OK ELSE DISK
<1>1. PICK n \in 0 .. o.n_frag :
        r = Outcome(PutRun(v, lcl - o.n_frag + 1, n, o.n_frag, term),
                    [o EXCEPT !.n_frag = o.n_frag - n], IF n = o.n_frag THEN OK ELSE DISK)
  BY DEF FillLast
<1> QED
  BY <1>1 DEF Outcome, Objects

LEMMA FlushPartly ==
  ASSUME NEW v \in Volumes, v.type = "exfat", NEW o \in Objects, NEW s, Shape(v, o, s),
         NEW lcl \in 0 .. EOC, o.n_frag > 0 => lcl = s[Len(s)],
         NEW r \in FillLast(v, o, lcl, EOC)
  PROVE  Flushed(v, r, o, s)
<1> DEFINE e == o.n_frag
           m == Len(s)
           a == m - e + 1
<1>1. /\ r.v \in Volumes /\ SameBut(v, r.v) /\ r.ret \in {OK, DISK}
      /\ r.o \in Objects /\ r.o.sclust = o.sclust /\ r.o.size = o.size
      /\ r.o.stat = o.stat /\ r.o.n_cont = o.n_cont /\ r.o.n_frag <= e
      /\ r.ret = OK => r.o.n_frag = 0
  <2>1. EOC \in 0 .. EOC
    BY FatAssumption
  <2> QED
    BY <2>1, FillLastOutcomes
<1>2. PICK n \in 0 .. e : /\ r.v = PutRun(v, lcl - e + 1, n, e, EOC)
                          /\ r.o.n_frag = e - n /\ r.ret = IF n = e THEN OK ELSE DISK
  BY FillLastRun
<1>3. s \in Seq(Clst) /\ Injective(s) /\ m \in Nat /\ e \in 0 .. m
  BY ShapeFields
<1>4. CASE e = 0
  <2>1. n = 0 /\ r.ret = OK
    BY <1>2, <1>4
  <2>2. Shape(r.v, r.o, s) /\ Patched(v, r.v, s)
    BY <2>1, EdgeFlushed
  <2>3. \A d \in Clst : r.v.fat[d] = v.fat[d]
    <3>1. r.v = PutRun(v, lcl + 1, 0, 0, EOC)
      BY <1>2, <1>4, <2>1, FatAssumption
    <3>2. \A d \in Clst : d < lcl + 1 \/ d >= lcl + 1 + 0
      BY FatAssumption
    <3> QED
      BY <3>1, <3>2, PutRunFat
  <2> QED
    BY <1>1, <2>2, <2>3 DEF Flushed, Rerouted
<1>5. CASE e # 0
  <2>1. m > 0 /\ e > 0 /\ lcl = s[m] /\ e = Edge(o) /\ o.stat # 2 /\ e \in Nat
    <3>1. e > 0 /\ e \in Nat /\ m > 0
      BY <1>3, <1>5
    <3> QED
      BY <1>5, <3>1 DEF Edge, Shape
  <2>2. /\ a \in 1 .. m /\ a + e - 1 = m /\ s[m] - e + 1 = s[a] /\ Run(s, a, m) /\ First(o) <= a
    BY <2>1, EdgeRun
  <2>3. Written(v, r.v, s, a, n)
    <3>1. r.v = PutRun(v, s[a], n, e, EOC)
      BY <1>2, <2>1, <2>2
    <3> HIDE DEF a, e
    <3> QED
      BY <1>3, <2>1, <2>2, <3>1, EdgePartly
  <2>4. Patched(v, r.v, s)
    <3>1. \A d \in Clst : r.v.fat[d] = v.fat[d] \/ \E i \in a .. m : d = s[i]
      BY <2>3 DEF Written
    <3> HIDE DEF a, e
    <3>2. \A d \in Clst : d \notin Range(s) => r.v.fat[d] = v.fat[d]
      <4>1. \A i \in a .. m : i \in 1 .. m
        BY <1>3, <2>2
      <4> QED
        BY <1>3, <3>1, <4>1, RangeIs DEF m
    <3> QED
      BY <1>1, <3>2 DEF Patched
  <2>5. Rerouted(v, r.v, Firm(o, s))
    <3>1. a \in Nat
      BY <1>3, <2>2
    <3> HIDE DEF a, e
    <3> QED
      BY <1>3, <2>1, <2>2, <2>3, <3>1, WrittenFirm
  <2>6. Shape(r.v, r.o, s)
    <3>1. CASE n = e
      <4>1. r.ret = OK
        BY <1>2, <3>1
      <4> QED
        BY <4>1, EdgeFlushed
    <3>2. CASE n # e
      <4> HIDE DEF a, e, m
      <4>1. n \in Nat /\ n < e /\ r.o.n_frag + n = e /\ a \in Nat
        BY <1>2, <1>3, <2>1, <2>2, <3>2
      <4> USE DEF m
      <4> QED
        BY <1>1, <2>1, <2>2, <2>3, <4>1, PartlyShape
    <3> QED
      BY <3>1, <3>2
  <2> QED
    BY <1>1, <2>4, <2>5, <2>6 DEF Flushed
<1> QED
  BY <1>4, <1>5

-----------------------------------------------------------------------------
\* create_chain, stopped or not

\* From v with the object o to w with p, a file that had s and has t: no link has
\* been changed but of t, where p says that it is on the FAT.
Carries(v, w, o, p, s, t) ==
  /\ Firm(o, s) \subseteq Firm(p, t) /\ Rerouted(v, w, Firm(p, t))
  /\ p.stat = 2 /\ Len(s) > 0 => o.stat = 2

LEMMA FirstIs ==
  ASSUME NEW o \in Objects
  PROVE  /\ First(o) \in Nat /\ First(o) >= 1 /\ o.n_cont \in Nat
         /\ First(o) = IF o.stat = 3 THEN o.n_cont + 1 ELSE 1
BY FatAssumption DEF First, Objects

LEMMA FirmGrows ==
  ASSUME NEW o \in Objects, NEW p \in Objects, NEW s \in Seq(Clst), NEW t \in Seq(Clst),
         Len(s) <= Len(t), \A i \in 1 .. Len(s) : t[i] = s[i],
         p.stat = 2 /\ Len(s) > 0 => o.stat = 2,
         p.stat # 2 /\ o.stat # 2 => First(p) <= First(o)
  PROVE  Firm(o, s) \subseteq Firm(p, t)
<1> DEFINE n == Len(s)
           m == Len(t)
<1>1. /\ n \in Nat /\ m \in Nat /\ n <= m /\ \A i \in 1 .. n : t[i] = s[i]
      /\ First(o) \in Nat /\ First(o) >= 1 /\ First(p) \in Nat /\ First(p) >= 1
  <2>1. n \in Nat /\ m \in Nat
    BY SeqFacts
  <2> QED
    BY <2>1, FirstIs
<1>2. p.stat = 2 /\ n > 0 => o.stat = 2
  OBVIOUS
<1>3. /\ Firm(o, s) = IF o.stat = 2 THEN {} ELSE {s[i] : i \in First(o) .. n}
      /\ Firm(p, t) = IF p.stat = 2 THEN {} ELSE {t[i] : i \in First(p) .. m}
  BY DEF Firm
<1> HIDE DEF n, m
<1>4. CASE o.stat = 2 \/ n = 0
  BY <1>1, <1>3, <1>4
<1>5. CASE o.stat # 2 /\ n # 0
  <2>1. p.stat # 2 /\ First(p) <= First(o)
    BY <1>1, <1>2, <1>5
  <2>2. ASSUME NEW i \in First(o) .. n PROVE s[i] \in {t[j] : j \in First(p) .. m}
    <3>1. i \in First(p) .. m /\ i \in 1 .. n
      BY <1>1, <2>1
    <3> QED
      BY <1>1, <3>1
  <2> QED
    BY <1>3, <1>5, <2>1, <2>2
<1> QED
  BY <1>4, <1>5

\* The file has not changed, but the volume may.
LEMMA CarriesSame ==
  ASSUME NEW v, NEW w, NEW o, NEW s, Rerouted(v, w, Firm(o, s))
  PROVE  Carries(v, w, o, o, s, s)
BY DEF Carries

\* The object that gets the cluster c for the chain s on exFAT
LEMMA FirmNext ==
  ASSUME NEW o \in Objects, NEW o1 \in Objects, NEW s, s \in Seq(Clst), Injective(s),
         NEW c \in Clst, c \notin Range(s), o1.sclust = o.sclust,
         o1.stat = 2 /\ Len(s) > 0 => o.stat = 2,
         o1.stat # 2 /\ o.stat # 2 => First(o1) <= First(o)
  PROVE  Firm(o, s) \subseteq Firm(Named(o1, c), Append(s, c))
<1> DEFINE p == Named(o1, c)
           t == Append(s, c)
<1>1. p \in Objects /\ p.stat = o1.stat /\ p.n_cont = o1.n_cont
  BY NamedType
<1>2. t \in Seq(Clst) /\ Len(t) = Len(s) + 1 /\ Len(s) \in Nat /\ \A i \in 1 .. Len(s) : t[i] = s[i]
  BY AppendIs
<1>3. Len(s) <= Len(t)
  BY <1>2
<1>4. First(p) = First(o1)
  BY <1>1 DEF First
<1> HIDE DEF p, t
<1>5. /\ p.stat = 2 /\ Len(s) > 0 => o.stat = 2
      /\ p.stat # 2 /\ o.stat # 2 => First(p) <= First(o)
  BY <1>1, <1>4
<1>6. Firm(o, s) \subseteq Firm(p, t)
  BY <1>1, <1>2, <1>3, <1>5, FirmGrows
<1> QED
  BY <1>6 DEF p, t

\* The links from the last fragment to a new one are written, all or some.
LEMMA EdgeRerouted ==
  ASSUME NEW v \in Volumes, NEW o \in Objects, NEW s, Shape(v, o, s), Len(s) > 0,
         NEW e \in Nat, o.stat = 2 => e = 1, o.stat # 2 => e = Edge(o),
         NEW n \in 0 .. e, NEW c
  PROVE  LET w == PutRun(v, s[Len(s)] - e + 1, n, e, c)
             a == Len(s) - e + 1
         IN  /\ Written(v, w, s, a, n) /\ a \in 1 .. Len(s) /\ a + e - 1 = Len(s)
             /\ \A d \in Clst : d \notin Range(s) => w.fat[d] = v.fat[d]
             /\ o.stat # 2 => Rerouted(v, w, Firm(o, s))
             /\ o.stat = 2 => Rerouted(v, w, {s[Len(s)]})
<1> DEFINE w == PutRun(v, s[Len(s)] - e + 1, n, e, c)
           m == Len(s)
           a == m - e + 1
<1>1. s \in Seq(Clst) /\ Injective(s) /\ m \in Nat
  BY ShapeFields
<1>2. /\ a \in 1 .. m /\ a + e - 1 = m /\ s[m] - e + 1 = s[a] /\ Run(s, a, m)
      /\ o.stat # 2 => First(o) <= a
  BY EdgeRun
<1>3. Written(v, w, s, a, n)
  <2>1. w = PutRun(v, s[a], n, e, c)
    BY <1>2
  <2> HIDE DEF a, w
  <2> QED
    BY <1>1, <1>2, <2>1, EdgePartly
<1> HIDE DEF w
<1>4. \A d \in Clst : w.fat[d] = v.fat[d] \/ \E i \in a .. m : d = s[i]
  BY <1>3 DEF Written
<1>5. o.stat = 2 => a = m
  BY <1>1, <1>2
<1>6. a \in Nat /\ \A i \in a .. m : i \in 1 .. m
  BY <1>1, <1>2
<1> HIDE DEF a
<1>7. ASSUME o.stat # 2 PROVE Rerouted(v, w, Firm(o, s))
  BY <1>1, <1>2, <1>3, <1>6, <1>7, WrittenFirm
<1>8. ASSUME NEW d \in Clst, d \notin Range(s) PROVE w.fat[d] = v.fat[d]
  BY <1>1, <1>4, <1>6, <1>8, RangeIs DEF m
<1> HIDE DEF m
<1>9. ASSUME o.stat = 2 PROVE Rerouted(v, w, {s[m]})
  <2>1. \A i \in a .. m : i = m
    BY <1>1, <1>5, <1>9
  <2>2. \A d \in Clst : w.fat[d] = v.fat[d] \/ d = s[m]
    BY <1>4, <2>1
  <2> QED
    BY <2>2 DEF Rerouted
<1> QED
  BY <1>2, <1>3, <1>7, <1>8, <1>9 DEF a, m, w

LEMMA FitsLast ==
  ASSUME NEW v, NEW o \in Objects, NEW s, Shape(v, o, s)
  PROVE  Fits(o, LastOf(s))
<1> SUFFICES ASSUME o.n_frag > 0
             PROVE  LastOf(s) \in Clst /\ o.n_frag <= LastOf(s) - 1
  BY DEF Fits
<1> DEFINE m == Len(s)
           e == o.n_frag
           a == m - e + 1
<1>1. /\ s \in Seq(Clst) /\ m \in Nat /\ e \in 0 .. m /\ \A i \in 1 .. m : s[i] \in Clst
  BY ShapeFields
<1>2. e > 0 /\ m > 0 /\ e \in Nat
  BY <1>1
<1>3. o.stat # 2 /\ e = Edge(o)
  BY <1>2 DEF Shape, Edge
<1>4. a \in 1 .. m /\ s[m] - e + 1 = s[a]
  BY <1>2, <1>3, EdgeRun
<1>5. LastOf(s) = s[m] /\ m \in 1 .. m
  BY <1>1, <1>2, LastOfIs
<1> HIDE DEF m, e, a
<1>6. s[m] \in Clst /\ s[a] \in Clst
  BY <1>1, <1>4, <1>5
<1>7. e <= s[m] - 1
  BY <1>2, <1>4, <1>6, FatAssumption
<1> QED
  BY <1>5, <1>6, <1>7 DEF e

\* What Stretched makes of the object of s, when it goes on with c
Onward(o, o1, s, c) ==
  /\ o1 \in Objects /\ o1.sclust = o.sclust /\ o1.size = o.size /\ o1.n_frag = o.n_frag
  /\ o1.stat = IF Len(s) = 0 THEN 2 ELSE IF o.stat = 2 /\ c # LastOf(s) + 1 THEN 3 ELSE o.stat
  /\ o1.n_cont = IF Len(s) # 0 /\ o.stat = 2 /\ c # LastOf(s) + 1 THEN Len(s) - 1 ELSE o.n_cont
  /\ o.stat = 2 => Edge(o1) = 1
  /\ o.stat # 2 => Edge(o1) = Edge(o)
  /\ Edge(o1) \in Nat

LEMMA OnwardIs ==
  ASSUME NEW v \in Volumes, v.type = "exfat", NEW o \in Objects, NEW s, Shape(v, o, s),
         LastOf(s) # 0 => ~(GetFat(v, o, LastOf(s)) < 2), NEW c \in Clst
  PROVE  Onward(o, Stretched(o, LastOf(s), c), s, c)
<1> DEFINE l == LastOf(s)
           m == Len(s)
           o1 == Stretched(o, l, c)
<1>1. /\ s \in Seq(Clst) /\ m \in Nat /\ (m > 0 => o.sclust = s[1])
      /\ \A i \in 1 .. m : s[i] \in Nat
  BY ShapeFields
<1>2. l \in {0} \cup Clst /\ (l = 0 <=> m = 0) /\ (m > 0 => l = s[m] /\ m \in 1 .. m)
  BY <1>1, LastOfIs
<1>3. /\ o1 \in Objects /\ o1.sclust = o.sclust /\ o1.size = o.size
      /\ o1.n_frag = o.n_frag
      /\ o1.stat = IF l = 0 THEN 2 ELSE IF o.stat = 2 /\ c # l + 1 THEN 3 ELSE o.stat
      /\ o1.n_cont = IF l # 0 /\ o.stat = 2 /\ c # l + 1 THEN l - o.sclust ELSE o.n_cont
  <2>1. l # 0 => ~(GetFat(v, o, l) < 2)
    OBVIOUS
  <2> HIDE DEF l
  <2> QED
    BY <1>2, <2>1, StretchedType
<1>4. o.stat = 2 /\ m # 0 => l - o.sclust = m - 1
  <2> SUFFICES ASSUME o.stat = 2, m # 0 PROVE s[m] - s[1] = m - 1
    BY <1>1, <1>2
  <2>1. \A i \in 1 .. m : s[i] = s[1] + (i - 1)
    BY DEF Shape, Run
  <2> HIDE DEF m
  <2>2. m \in 1 .. m /\ 1 \in 1 .. m
    BY <1>1
  <2> QED
    BY <1>1, <2>1, <2>2
<1>5. o.stat = 2 => o.n_frag = 0
  BY DEF Shape
<1>6. o.n_frag \in Nat
  BY FatAssumption DEF Objects
<1>7. /\ o.stat = 2 => Edge(o1) = 1
      /\ o.stat # 2 => Edge(o1) = Edge(o)
      /\ Edge(o1) \in Nat
  BY <1>3, <1>5, <1>6 DEF Edge
<1> HIDE DEF m, l, o1
<1>8. o1.stat = IF m = 0 THEN 2 ELSE IF o.stat = 2 /\ c # l + 1 THEN 3 ELSE o.stat
  BY <1>1, <1>2, <1>3
<1>9. o1.n_cont = IF m # 0 /\ o.stat = 2 /\ c # l + 1 THEN m - 1 ELSE o.n_cont
  BY <1>1, <1>2, <1>3, <1>4
<1> QED
  BY <1>3, <1>7, <1>8, <1>9 DEF Onward, m, l, o1

\* What the three ways of going on do to the links
LEMMA CarriesOn ==
  ASSUME NEW v, NEW w, NEW o \in Objects, NEW o1, NEW p \in Objects, NEW s,
         Shape(v, o, s), NEW c \in Clst, c \notin Range(s), Onward(o, o1, s, c),
         p.sclust = o1.sclust, p.stat = o1.stat, p.n_cont = o1.n_cont,
         \/ Rerouted(v, w, {})
         \/ Len(s) > 0 /\ o.stat # 2 /\ Rerouted(v, w, Firm(o, s))
         \/ Len(s) > 0 /\ o.stat = 2 /\ c # LastOf(s) + 1 /\ Rerouted(v, w, {s[Len(s)]})
  PROVE  Carries(v, w, o, Named(p, c), s, Append(s, c))
<1> DEFINE q == Named(p, c)
           t == Append(s, c)
           n == Len(s)
<1>1. s \in Seq(Clst) /\ Injective(s) /\ n \in Nat
  BY ShapeFields
<1>2. q \in Objects /\ q.stat = o1.stat /\ q.n_cont = o1.n_cont
  BY NamedType
<1>3. t \in Seq(Clst) /\ Len(t) = n + 1 /\ \A i \in 1 .. n : t[i] = s[i]
  BY <1>1, AppendIs
<1>4. n > 0 => /\ o1.stat = 2 => o.stat = 2
               /\ o.stat # 2 => o1.stat = o.stat /\ o1.n_cont = o.n_cont
               /\ o.stat = 2 /\ c # LastOf(s) + 1 => o1.stat = 3 /\ o1.n_cont = n - 1
  BY DEF Onward
<1>5. n = 0 => q.stat = 2
  BY <1>2 DEF Onward
<1> HIDE DEF q, t
<1>6. Firm(o, s) \subseteq Firm(q, t)
  <2>1. n <= Len(t)
    BY <1>1, <1>3
  <2>2. q.stat = 2 /\ n > 0 => o.stat = 2
    BY <1>2, <1>4
  <2>3. q.stat # 2 /\ o.stat # 2 => First(q) <= First(o)
    <3> SUFFICES ASSUME q.stat # 2, o.stat # 2 PROVE First(q) <= First(o)
      OBVIOUS
    <3>1. First(q) = First(o) /\ First(o) \in Nat
      BY <1>1, <1>2, <1>4, <1>5, FirstIs DEF First
    <3> QED
      BY <3>1
  <2> QED
    BY <1>1, <1>2, <1>3, <2>1, <2>2, <2>3, FirmGrows
<1>7. Rerouted(v, w, Firm(q, t))
  <2>1. CASE Rerouted(v, w, {})
    BY <2>1 DEF Rerouted
  <2>2. CASE Rerouted(v, w, Firm(o, s))
    BY <1>6, <2>2 DEF Rerouted
  <2>3. CASE n > 0 /\ o.stat = 2 /\ c # LastOf(s) + 1 /\ Rerouted(v, w, {s[n]})
    <3>1. q.stat = 3 /\ q.n_cont = n - 1
      BY <1>2, <1>4, <2>3
    <3> HIDE DEF n
    <3>2. First(q) = n
      BY <1>1, <3>1 DEF First
    <3>3. n \in First(q) .. Len(t) /\ t[n] = s[n]
      BY <1>1, <1>3, <2>3, <3>2
    <3>4. s[n] \in Firm(q, t)
      BY <3>1, <3>3 DEF Firm
    <3> QED
      BY <2>3, <3>4 DEF Rerouted
  <2> QED
    BY <2>1, <2>2, <2>3
<1>8. q.stat = 2 /\ n > 0 => o.stat = 2
  BY <1>2, <1>4
<1> QED
  BY <1>6, <1>7, <1>8 DEF Carries, q, t, n

\* From v1, which is v with one more cluster marked, to w the first n links of the
\* last fragment of s, from a on, are written.
InFragment(v, v1, w, o, s, a, n) ==
  /\ w \in Volumes /\ SameBut(v1, w) /\ Written(v, w, s, a, n) /\ a \in 1 .. Len(s)
  /\ \A d \in Clst : d \notin Range(s) => w.fat[d] = v.fat[d]
  /\ o.stat # 2 => Rerouted(v, w, Firm(o, s))
  /\ o.stat = 2 => Rerouted(v, w, {s[Len(s)]})

LEMMA FragmentLinked ==
  ASSUME NEW v \in Volumes, v.type = "exfat", NEW o \in Objects, NEW s, Shape(v, o, s),
         Len(s) > 0, NEW c \in Clst, c \notin v.used, NEW o1, Onward(o, o1, s, c)
  PROVE  LET v1 == Marked(v, c)
             e  == Edge(o1)
             a  == Len(s) - e + 1
         IN  /\ a + e - 1 = Len(s)
             /\ \A n \in 0 .. e : InFragment(v, v1, PutRun(v1, LastOf(s) - e + 1, n, e, c),
                                            o, s, a, n)
<1> DEFINE v1 == Marked(v, c)
           e  == Edge(o1)
           a  == Len(s) - e + 1
           At(n) == PutRun(v1, s[Len(s)] - e + 1, n, e, c)
<1>1. v1 \in Volumes /\ v1.type = v.type /\ v1.fat = v.fat
  BY MarkedType
<1>2. Shape(v1, o, s)
  BY <1>1, ShapeStays
<1>3. e \in Nat /\ (o.stat = 2 => e = 1) /\ (o.stat # 2 => e = Edge(o))
  BY DEF Onward
<1>4. s \in Seq(Clst) /\ s[Len(s)] \in Nat /\ LastOf(s) = s[Len(s)] /\ Len(s) \in Nat
  <2>1. s \in Seq(Clst) /\ \A i \in 1 .. Len(s) : s[i] \in Nat
    BY ShapeFields
  <2> QED
    BY <2>1, LastOfIs
<1>5. a + e - 1 = Len(s)
  BY <1>3, <1>4
<1> HIDE DEF v1, e
<1>6. ASSUME NEW n \in 0 .. e PROVE InFragment(v, v1, At(n), o, s, a, n)
  <2>1. /\ Written(v1, At(n), s, a, n) /\ a \in 1 .. Len(s)
        /\ \A d \in Clst : d \notin Range(s) => At(n).fat[d] = v1.fat[d]
        /\ o.stat # 2 => Rerouted(v1, At(n), Firm(o, s))
        /\ o.stat = 2 => Rerouted(v1, At(n), {s[Len(s)]})
    <3> DEFINE w == PutRun(v1, s[Len(s)] - e + 1, n, e, c)
    <3>1. /\ Written(v1, w, s, a, n) /\ a \in 1 .. Len(s) /\ a + e - 1 = Len(s)
          /\ \A d \in Clst : d \notin Range(s) => w.fat[d] = v1.fat[d]
          /\ o.stat # 2 => Rerouted(v1, w, Firm(o, s))
          /\ o.stat = 2 => Rerouted(v1, w, {s[Len(s)]})
      BY <1>1, <1>2, <1>3, EdgeRerouted
    <3>2. At(n) = w
      OBVIOUS
    <3> HIDE DEF w, At
    <3> QED
      BY <3>1, <3>2
  <2>2. At(n) \in Volumes /\ SameBut(v1, At(n))
    <3>1. s[Len(s)] - e + 1 \in Int /\ n \in Int /\ e \in Int /\ c \in 0 .. EOC
      BY <1>3, <1>4, FatAssumption
    <3> QED
      BY <1>1, <3>1, PutRunSame
  <2> HIDE DEF At, a
  <2>3. /\ Written(v, At(n), s, a, n)
        /\ \A d \in Clst : d \notin Range(s) => At(n).fat[d] = v.fat[d]
        /\ o.stat # 2 => Rerouted(v, At(n), Firm(o, s))
        /\ o.stat = 2 => Rerouted(v, At(n), {s[Len(s)]})
    BY <1>1, <2>1 DEF Written, Rerouted
  <2> QED
    BY <2>1, <2>2, <2>3 DEF InFragment
<1> QED
  BY <1>4, <1>5, <1>6 DEF v1, a, e

\* What create_chain does at the end of a chain, stopped or not: nothing, or one
\* cluster more, or the links of the last fragment in part
Grown(v, o, s, r) ==
  \/ r.v = v /\ r.o = o /\ r.ret \notin Clst
  \/ /\ r.ret \in Clst /\ Longer(v, r.v, r.o, s, r.ret)
     /\ Carries(v, r.v, o, Named(r.o, r.ret), s, Append(s, r.ret))
  \/ /\ r.ret = DISK /\ Broken(r.v, r.o, s) /\ Moves(v, r.v, s, s)
     /\ Carries(v, r.v, o, r.o, s, s)

LEMMA BitmapCarries ==
  ASSUME NEW v \in Volumes, v.type = "exfat", v.free # 0, NEW o \in Objects,
         NEW s, Shape(v, o, s), Taken(v, s),
         LastOf(s) # 0 => ~(GetFat(v, o, LastOf(s)) < 2),
         NEW scl, NEW r \in CreateBitmap(v, o, LastOf(s), scl), r.ret \in Clst, r.o \in Objects
  PROVE  Carries(v, r.v, o, Named(r.o, r.ret), s, Append(s, r.ret))
<1> DEFINE l  == LastOf(s)
           c  == FindBitmap(v, scl)
           v1 == Marked(v, c)
           o1 == Stretched(o, l, c)
           m  == Edge(o1)
<1>1. /\ c \in Clst /\ c \notin v.used /\ r.ret = c
      /\ \/ o1.stat = 2 /\ r.v = Allocated(v1, c) /\ r.o = o1
         \/ o1.stat # 2 /\ c = l + 1 /\ r.v = Allocated(v1, c) /\ r.o = LongerEdge(o1)
         \/ /\ o1.stat # 2 /\ c # l + 1
            /\ r.v = Allocated(PutRun(v1, l - m + 1, m, m, c), c) /\ r.o = [o1 EXCEPT !.n_frag = 1]
  <2> DEFINE A == c = 0 /\ r.v = v /\ r.o = o /\ r.ret = FULL
             B == c \in Clst /\ c \notin v.used
             C2 == o1.stat = 2 /\ r.v = Allocated(v1, c) /\ r.o = o1 /\ r.ret = c
             C3 == o1.stat # 2 /\ c = l + 1 /\ r.v = Allocated(v1, c) /\ r.o = LongerEdge(o1)
                   /\ r.ret = c
             C4 == o1.stat # 2 /\ c # l + 1
                   /\ r.v = Allocated(PutRun(v1, l - m + 1, m, m, c), c)
                   /\ r.o = [o1 EXCEPT !.n_frag = 1] /\ r.ret = c
             C5 == r.ret = DISK
  <2>1. A \/ (B /\ (C2 \/ C3 \/ C4 \/ C5))
    BY BitmapOutcomes
  <2>2. ~A /\ ~C5
    BY FatAssumption
  <2> HIDE DEF A, C5
  <2> QED
    BY <2>1, <2>2
<1>2. Onward(o, o1, s, c)
  BY <1>1, OnwardIs
<1>3. v1 \in Volumes /\ v1.fat = v.fat /\ v1.free = v.free /\ v1.type = v.type
  BY <1>1, MarkedType
<1>4. c \notin Range(s)
  BY <1>1 DEF Taken, IsFree
<1>5. m \in Nat /\ m \in 0 .. m
  BY <1>2 DEF Onward
<1> HIDE DEF l, c, v1, o1, m
<1>6. \A x \in Volumes : x.free = v.free => /\ Allocated(x, c).fat = x.fat
                                            /\ Allocated(x, c).type = x.type
  BY <1>1, AllocatedType
<1>7. o1 \in Objects
  BY <1>2 DEF Onward
<1>8. r.o.sclust = o1.sclust /\ r.o.stat = o1.stat /\ r.o.n_cont = o1.n_cont
  BY <1>1, <1>7 DEF LongerEdge, Objects
<1>9. CASE r.v = Allocated(v1, c)
  <2>1. Rerouted(v, r.v, {})
    BY <1>3, <1>6, <1>9 DEF Rerouted
  <2> QED
    BY <1>1, <1>2, <1>4, <1>8, <2>1, CarriesOn
<1>10. CASE o1.stat # 2 /\ c # l + 1 /\ r.v = Allocated(PutRun(v1, l - m + 1, m, m, c), c)
  <2> DEFINE w == PutRun(v1, l - m + 1, m, m, c)
  <2>1. Len(s) > 0
    <3>1. Len(s) \in Nat /\ Len(s) # 0
      BY <1>2, <1>10, ShapeFields DEF Onward
    <3> QED
      BY <3>1
  <2>2. /\ w \in Volumes /\ SameBut(v1, w)
        /\ o.stat # 2 => Rerouted(v, w, Firm(o, s))
        /\ o.stat = 2 => Rerouted(v, w, {s[Len(s)]})
    <3>1. InFragment(v, v1, w, o, s, Len(s) - m + 1, m)
      BY <1>1, <1>2, <1>5, <2>1, FragmentLinked DEF v1, l, m
    <3> HIDE DEF w
    <3> QED
      BY <3>1 DEF InFragment
  <2> HIDE DEF w
  <2>3. r.v.fat = w.fat /\ r.v.type = w.type
    BY <1>3, <1>6, <1>10, <2>2 DEF SameBut, w
  <2>4. /\ o.stat # 2 => Rerouted(v, r.v, Firm(o, s))
        /\ o.stat = 2 => Rerouted(v, r.v, {s[Len(s)]})
    BY <2>2, <2>3 DEF Rerouted, Ends
  <2> QED
    BY <1>1, <1>2, <1>4, <1>8, <1>10, <2>1, <2>4, CarriesOn DEF l
<1> QED
  BY <1>1, <1>9, <1>10

LEMMA BitmapStopped ==
  ASSUME NEW v \in Volumes, v.type = "exfat", v.free # 0, NEW o \in Objects,
         NEW s, Shape(v, o, s), Taken(v, s),
         LastOf(s) # 0 => ~(GetFat(v, o, LastOf(s)) < 2),
         NEW scl, NEW r \in CreateBitmap(v, o, LastOf(s), scl), r.ret = DISK, r.o \in Objects
  PROVE  Broken(r.v, r.o, s) /\ Moves(v, r.v, s, s) /\ Carries(v, r.v, o, r.o, s, s)
<1> DEFINE l  == LastOf(s)
           c  == FindBitmap(v, scl)
           v1 == Marked(v, c)
           o1 == Stretched(o, l, c)
           m  == Edge(o1)
           a  == Len(s) - m + 1
<1>1. /\ c \in Clst /\ c \notin v.used /\ o1.stat # 2 /\ c # l + 1
      /\ \E n \in 0 .. m - 1 : /\ r.v = PutRun(v1, l - m + 1, n, m, c)
                               /\ r.o = [o1 EXCEPT !.n_frag = m - n]
  <2> DEFINE A == c = 0 /\ r.v = v /\ r.o = o /\ r.ret = FULL
             B == c \in Clst /\ c \notin v.used
             C2 == o1.stat = 2 /\ r.v = Allocated(v1, c) /\ r.o = o1 /\ r.ret = c
             C3 == o1.stat # 2 /\ c = l + 1 /\ r.v = Allocated(v1, c) /\ r.o = LongerEdge(o1)
                   /\ r.ret = c
             C4 == o1.stat # 2 /\ c # l + 1
                   /\ r.v = Allocated(PutRun(v1, l - m + 1, m, m, c), c)
                   /\ r.o = [o1 EXCEPT !.n_frag = 1] /\ r.ret = c
             C5 == o1.stat # 2 /\ c # l + 1
                   /\ \E n \in 0 .. m - 1 : /\ r.v = PutRun(v1, l - m + 1, n, m, c)
                                            /\ r.o = [o1 EXCEPT !.n_frag = m - n]
  <2>1. A \/ (B /\ (C2 \/ C3 \/ C4 \/ C5))
    BY BitmapOutcomes
  <2>2. ~A /\ (B => ~C2 /\ ~C3 /\ ~C4)
    BY FatAssumption
  <2> HIDE DEF A, C2, C3, C4
  <2> QED
    BY <2>1, <2>2
<1>3. Onward(o, o1, s, c)
  BY <1>1, OnwardIs
<1>4. /\ o1 \in Objects /\ o1.sclust = o.sclust /\ o1.n_frag = o.n_frag /\ m \in Nat
      /\ o.stat = 2 => m = 1
      /\ o.stat # 2 => m = Edge(o)
      /\ o1.stat = IF Len(s) = 0 THEN 2 ELSE IF o.stat = 2 /\ c # l + 1 THEN 3 ELSE o.stat
      /\ o1.n_cont = IF Len(s) # 0 /\ o.stat = 2 /\ c # l + 1 THEN Len(s) - 1 ELSE o.n_cont
  BY <1>3 DEF Onward
<1>5. /\ s \in Seq(Clst) /\ Injective(s) /\ Len(s) \in Nat /\ Len(s) > 0
      /\ o.sclust = s[1]
  <2>1. s \in Seq(Clst) /\ Injective(s) /\ Len(s) \in Nat /\ (Len(s) > 0 => o.sclust = s[1])
    BY ShapeFields
  <2>2. Len(s) # 0
    BY <1>1, <1>4
  <2> QED
    BY <2>1, <2>2
<1>6. v1.type = v.type /\ v1.fat = v.fat /\ v1.used = v.used \cup {c}
  BY <1>1, MarkedType
<1>10. /\ a + m - 1 = Len(s)
       /\ \A k \in 0 .. m : InFragment(v, v1, PutRun(v1, l - m + 1, k, m, c), o, s, a, k)
  <2> HIDE DEF c, o1
  <2>1. c \in Clst /\ c \notin v.used
    BY <1>1
  <2> QED
    BY <1>3, <1>5, <2>1, FragmentLinked
<1> HIDE DEF l, c, v1, o1, m, a
<1>2. PICK n \in 0 .. m - 1 : /\ r.v = PutRun(v1, l - m + 1, n, m, c)
                              /\ r.o = [o1 EXCEPT !.n_frag = m - n]
  BY <1>1
<1>7. n \in Nat /\ n < m /\ n \in 0 .. m
  BY <1>4
<1>8. /\ r.v \in Volumes /\ SameBut(v1, r.v) /\ Written(v, r.v, s, a, n) /\ a \in 1 .. Len(s)
      /\ \A d \in Clst : d \notin Range(s) => r.v.fat[d] = v.fat[d]
      /\ o.stat # 2 => Rerouted(v, r.v, Firm(o, s))
  <2>1. InFragment(v, v1, r.v, o, s, a, n)
    BY <1>2, <1>7, <1>10
  <2> QED
    BY <2>1 DEF InFragment
<1>9. /\ r.o.sclust = o.sclust /\ r.o.stat = o1.stat /\ r.o.n_cont = o1.n_cont
      /\ r.o.n_frag = m - n
  BY <1>2, <1>4 DEF Objects
<1>13. Moves(v, r.v, s, s)
  <2>1. r.v.type = v.type /\ \A d \in Clst : d \in v.used => d \in r.v.used
    BY <1>6, <1>8 DEF SameBut
  <2>2. \A d \in Clst : ~IsFree(v, d) => ~IsFree(r.v, d)
    BY <2>1 DEF IsFree
  <2>3. Range(s) \subseteq Clst
    BY <1>5, RangeIs
  <2> QED
    BY <1>5, <1>8, <2>1, <2>2, <2>3 DEF Moves, Spares, Taken
<1>11. CASE o.stat = 2
  <2>1. m = 1 /\ n = 0
    BY <1>4, <1>7, <1>11
  <2>2. r.o.n_frag = 1 /\ r.o.stat = 3 /\ r.o.n_cont = Len(s) - 1
    BY <1>1, <1>4, <1>5, <1>9, <1>11, <2>1
  <2>3. Frayed(r.o, s)
    BY <1>5, <1>9, <1>11, <2>2 DEF Frayed, Shape
  <2>4. \A d \in Clst : r.v.fat[d] = v.fat[d]
    <3>1. \A d \in Clst : PutRun(v1, l - m + 1, n, m, c).fat[d] = v1.fat[d]
      <4>1. v1 \in Volumes
        BY <1>1, MarkedType DEF v1
      <4>2. l - m + 1 \in Int
        <5>1. l \in {0} \cup Clst
          BY <1>5, LastOfIs DEF l
        <5> QED
          BY <2>1, <5>1, FatAssumption
      <4>3. \A d \in Clst : d < l - m + 1 \/ d >= (l - m + 1) + n
        BY <2>1, <4>2, FatAssumption
      <4> QED
        BY <4>1, <4>3, PutRunFat
    <3> QED
      BY <1>2, <1>6, <3>1
  <2>5. Carries(v, r.v, o, r.o, s, s)
    BY <1>11, <2>2, <2>4 DEF Carries, Rerouted, Firm
  <2> QED
    BY <1>13, <2>3, <2>5 DEF Broken
<1>12. CASE o.stat # 2
  <2>1. /\ r.o.stat = o.stat /\ r.o.n_cont = o.n_cont /\ m = Edge(o)
        /\ r.o.n_frag + n = m
    BY <1>4, <1>5, <1>7, <1>9, <1>12
  <2>2. Shape(r.v, r.o, s)
    <3>1. a \in Nat
      BY <1>5, <1>8
    <3> QED
      BY <1>4, <1>5, <1>7, <1>8, <1>9, <1>10, <1>12, <2>1, <3>1, PartlyShape
  <2>3. Firm(r.o, s) = Firm(o, s)
    BY <2>1 DEF Firm, First
  <2>4. Carries(v, r.v, o, r.o, s, s)
    BY <1>8, <1>12, <2>1, <2>3 DEF Carries
  <2> QED
    BY <1>13, <2>2, <2>4 DEF Broken
<1> QED
  BY <1>11, <1>12

\* The same on FAT32: a cluster may be left marked that no chain leads to.
LEMMA FatGrown ==
  ASSUME NEW v \in Volumes, v.type = "fat32", v.free # 0, NEW o \in Objects, Plain(v, o),
         NEW s, Shape(v, o, s), Taken(v, s),
         NEW scl \in Int, NEW r \in CreateFat(v, o, LastOf(s), scl)
  PROVE  Grown(v, o, s, r)
<1> DEFINE l  == LastOf(s)
           c  == FindFat(v, l, scl)
           v1 == Put(v, c, EOC)
           v2 == IF l = 0 THEN v1 ELSE Put(v1, l, c)
           t  == Append(s, c)
           p  == Named(o, c)
<1>1. s \in Seq(Clst) /\ Injective(s) /\ Len(s) \in Nat /\ Range(s) \subseteq Clst
  BY ShapeFields, RangeIs
<1>2. l \in {0} \cup Clst /\ (l = 0 <=> Len(s) = 0) /\ (Len(s) > 0 => l = s[Len(s)])
  BY <1>1, LastOfIs
<1>3. CreateFat(v, o, l, scl) = IF c = 0 THEN {Outcome(v, o, FULL)}
                                ELSE {Stopped(v1, o), Outcome(Allocated(v2, c), o, c)}
  BY DEF CreateFat
<1>4. c # 0 => c \in Clst /\ IsFree(v, c)
  BY <1>2, FindFatFinds
<1>5. o.stat = 0 /\ o.n_frag = 0
  BY DEF Plain
<1> HIDE DEF c, v1, v2, t, p
<1>6. CASE c = 0
  <2>1. r.v = v /\ r.o = o /\ r.ret = FULL
    BY <1>3, <1>6, OutcomeFields
  <2> QED
    BY <2>1 DEF Grown
<1>7. CASE c # 0
  <2>1. c \in Clst /\ v.fat[c] = FREE /\ c \notin Range(s)
    BY <1>4, <1>7 DEF IsFree, Taken
  <2>2. /\ v1 \in Volumes /\ SameBut(v, v1)
        /\ \A d \in Clst : v1.fat[d] = IF d = c THEN EOC ELSE v.fat[d]
    <3>1. EOC \in 0 .. EOC
      BY FatAssumption
    <3> QED
      BY <2>1, <3>1, PutSame, PutFat DEF v1
  <2>3. CASE r = Stopped(v1, o)
    <3>1. r.v = v1 /\ r.o = o /\ r.ret = DISK
      BY <2>3, OutcomeFields DEF Stopped
    <3>2. Shape(v1, o, s)
      <4>1. \A d \in Range(s) : v1.fat[d] = v.fat[d]
        BY <1>1, <2>1, <2>2
      <4> QED
        BY <4>1, ShapeStays
    <3>3. Moves(v, v1, s, s)
      <4>1. v1.type = v.type /\ EOC # FREE
        BY <2>2, FatAssumption DEF SameBut
      <4>2. \A d \in Clst : ~IsFree(v, d) => v1.fat[d] = v.fat[d] /\ ~IsFree(v1, d)
        BY <2>1, <2>2, <4>1 DEF IsFree
      <4> QED
        BY <1>1, <4>1, <4>2 DEF Moves, Spares, Taken
    <3>4. Rerouted(v, v1, Firm(o, s))
      BY <2>2 DEF Rerouted, Ends
    <3> QED
      BY <3>1, <3>2, <3>3, <3>4, CarriesSame DEF Grown, Broken
  <2>4. CASE r = Outcome(Allocated(v2, c), o, c)
    <3>1. r.v = Allocated(v2, c) /\ r.o = o /\ r.ret = c
      BY <2>4, OutcomeFields
    <3>2. Longer(v, Allocated(v2, c), o, s, c)
      BY <2>1, GrownFat DEF v1, v2
    <3>3. /\ v2 \in Volumes /\ v2.type = v.type /\ v2.free = v.free
          /\ \A d \in Clst : v2.fat[d] = IF l # 0 /\ d = l THEN c ELSE v1.fat[d]
      <4>1. CASE l = 0
        BY <2>2, <4>1 DEF v2, SameBut
      <4>2. CASE l # 0
        <5>1. c \in 0 .. EOC /\ l \in Clst
          BY <1>2, <2>1, <4>2, FatAssumption
        <5>2. Put(v1, l, c) \in Volumes /\ SameBut(v1, Put(v1, l, c))
          BY <2>2, <5>1, PutSame
        <5>3. \A d \in Clst : Put(v1, l, c).fat[d] = IF d = l THEN c ELSE v1.fat[d]
          BY <2>2, <5>1, PutFat
        <5> QED
          BY <2>2, <4>2, <5>2, <5>3 DEF v2, SameBut
      <4> QED
        BY <4>1, <4>2
    <3>4. Allocated(v2, c).fat = v2.fat
      BY <2>1, <3>3, AllocatedType
    <3>5. /\ p \in Objects /\ p.stat = 0 /\ First(p) = 1 /\ First(o) = 1
      BY <1>5, <2>1, NamedType DEF p, First
    <3>6. t \in Seq(Clst) /\ Len(t) = Len(s) + 1 /\ \A i \in 1 .. Len(s) : t[i] = s[i]
      BY <1>1, <2>1, AppendIs DEF t
    <3>7. Firm(o, s) \subseteq Firm(p, t)
      <4>1. Len(s) <= Len(t)
        BY <1>1, <3>6
      <4>2. First(p) <= First(o)
        BY <3>5
      <4> QED
        BY <1>1, <1>5, <3>5, <3>6, <4>1, <4>2, FirmGrows
    <3>8. l # 0 => l \in Firm(p, t)
      <4> SUFFICES ASSUME l # 0 PROVE l \in Firm(p, t)
        OBVIOUS
      <4>1. Len(s) # 0 /\ Len(s) \in 1 .. Len(t) /\ t[Len(s)] = s[Len(s)] /\ l = s[Len(s)]
        <5>1. Len(s) # 0 /\ Len(s) > 0 /\ Len(s) \in 1 .. Len(s)
          BY <1>1, <1>2
        <5> QED
          BY <1>2, <3>6, <5>1
      <4> QED
        BY <3>5, <4>1 DEF Firm
    <3>9. Rerouted(v, r.v, Firm(p, t))
      <4>1. Allocated(v2, c).type = v2.type
        BY <2>1, <3>3, AllocatedType
      <4> QED
        BY <2>2, <3>1, <3>3, <3>4, <3>8, <4>1 DEF Rerouted, Ends
    <3>10. Carries(v, r.v, o, p, s, t)
      BY <3>5, <3>7, <3>9 DEF Carries
    <3> QED
      BY <2>1, <3>1, <3>2, <3>10 DEF Grown, p, t
  <2> QED
    BY <1>3, <1>7, <2>3, <2>4
<1> QED
  BY <1>6, <1>7

LEMMA CreateGrown ==
  ASSUME NEW v \in Volumes, NEW o \in Objects, Plain(v, o), NEW s, Shape(v, o, s),
         Taken(v, s), Len(s) > 0 => Whole(o, s), NEW r \in CreateChain(v, o, LastOf(s))
  PROVE  Grown(v, o, s, r)
<1>1. CASE r = Stopped(v, o)
  <2>1. r.v = v /\ r.o = o /\ r.ret \notin Clst
    BY <1>1, OutcomeFields, FatAssumption DEF Stopped
  <2> QED
    BY <2>1 DEF Grown
<1>2. CASE r = Outcome(v, o, FULL)
  <2>1. r.v = v /\ r.o = o /\ r.ret \notin Clst
    BY <1>2, OutcomeFields, FatAssumption
  <2> QED
    BY <2>1 DEF Grown
<1>3. CASE /\ v.free # 0 /\ (LastOf(s) # 0 => ~(GetFat(v, o, LastOf(s)) < 2))
           /\ \E scl \in Int : IF v.type = "exfat" THEN r \in CreateBitmap(v, o, LastOf(s), scl)
                              ELSE r \in CreateFat(v, o, LastOf(s), scl)
  <2>1. PICK scl \in Int : IF v.type = "exfat" THEN r \in CreateBitmap(v, o, LastOf(s), scl)
                           ELSE r \in CreateFat(v, o, LastOf(s), scl)
    BY <1>3
  <2>2. CASE v.type = "exfat"
    <3> DEFINE l == LastOf(s)
    <3>1. r \in CreateBitmap(v, o, l, scl) /\ (l # 0 => ~(GetFat(v, o, l) < 2))
      BY <1>3, <2>1, <2>2
    <3>2. l \in {0} \cup Clst /\ Fits(o, l)
      <4>1. s \in Seq(Clst)
        BY ShapeFields
      <4> QED
        BY <4>1, LastOfIs, FitsLast
    <3>3. r.o \in Objects /\ r.ret \in {FULL, DISK} \cup Clst
      <4> HIDE DEF l
      <4> QED
        BY <1>3, <2>2, <3>1, <3>2, CreateBitmapType
    <3>4. CASE r.ret \in Clst
      <4>1. r.ret # DISK /\ r.ret # FULL
        BY <3>4, FatAssumption
      <4>2. Longer(v, r.v, r.o, s, r.ret)
        BY <1>3, <2>2, <3>1, <4>1, BitmapLonger DEF AtEnd
      <4>3. Carries(v, r.v, o, Named(r.o, r.ret), s, Append(s, r.ret))
        BY <1>3, <2>2, <3>1, <3>3, <3>4, BitmapCarries
      <4> QED
        BY <3>4, <4>2, <4>3 DEF Grown
    <3>5. CASE r.ret = FULL
      <4>1. r.ret # DISK /\ r.ret \notin Clst
        BY <3>5, FatAssumption
      <4>2. r.v = v /\ r.o = o
        BY <1>3, <2>2, <3>1, <4>1, BitmapLonger DEF AtEnd
      <4> QED
        BY <4>1, <4>2 DEF Grown
    <3>6. CASE r.ret = DISK
      <4>1. Broken(r.v, r.o, s) /\ Moves(v, r.v, s, s) /\ Carries(v, r.v, o, r.o, s, s)
        BY <1>3, <2>2, <3>1, <3>3, <3>6, BitmapStopped
      <4> QED
        BY <3>6, <4>1 DEF Grown
    <3> QED
      BY <3>3, <3>4, <3>5, <3>6
  <2>3. CASE v.type # "exfat"
    <3>1. v.type = "fat32"
      BY <2>3 DEF Volumes
    <3> QED
      BY <1>3, <2>1, <2>3, <3>1, FatGrown
  <2> QED
    BY <2>2, <2>3
<1> QED
  BY <1>1, <1>2, <1>3, EndCases

\* Where FA_OPEN_APPEND has found no cluster, create_chain finds none either.
LEMMA CreateAdrift ==
  ASSUME NEW v, NEW o, NEW r \in CreateChain(v, o, EOC)
  PROVE  r.v = v /\ r.o = o /\ r.ret \in {DISK, INT_ERR}
<1>1. GetFat(v, o, EOC) = INT_ERR
  BY FatAssumption DEF GetFat
<1>2. EOC # 0 /\ INT_ERR < 2
  BY FatAssumption
<1>3. r \in {Stopped(v, o)} \cup {Outcome(v, o, INT_ERR)}
  BY <1>1, <1>2 DEF CreateChain
<1> QED
  BY <1>3, OutcomeFields DEF Stopped

\* Stopped in the middle of a chain, create_chain has done nothing.
LEMMA CreateWithin ==
  ASSUME NEW v \in Volumes, NEW o \in Objects, Plain(v, o), NEW s, Shape(v, o, s),
         o.n_frag = 0, Whole(o, s), NEW i \in 1 .. Len(s), i < Len(s),
         NEW r \in CreateChain(v, o, s[i])
  PROVE  r.v = v /\ r.o = o /\ (r.ret = DISK \/ (r.ret = s[i + 1] /\ r.ret \in Clst))
<1>1. CASE r.ret # DISK
  BY <1>1, CreateMiddle
<1>2. CASE r.ret = DISK
  <2>1. Len(s) \in Nat /\ \A j \in 1 .. Len(s) : s[j] \in Clst
    BY ShapeFields
  <2>2. i + 1 \in 1 .. Len(s)
    BY <2>1
  <2>3. GetFat(v, o, s[i]) = s[i + 1]
    BY NextOf
  <2> DEFINE next == GetFat(v, o, s[i])
  <2>4. s[i + 1] \in Clst /\ s[i] \in Clst
    BY <2>1, <2>2
  <2>5. s[i] # 0 /\ ~(s[i] # 0 /\ next < 2) /\ next \in Clst
    BY <2>3, <2>4, FatAssumption
  <2>6. r \in {Stopped(v, o)} \cup {Outcome(v, o, next)}
    BY <2>5 DEF CreateChain
  <2> QED
    BY <1>2, <2>6, OutcomeFields DEF Stopped
<1> QED
  BY <1>1, <1>2

-----------------------------------------------------------------------------
\* The calls on the open file

\* The open file goes from the clusters it has to t.
LEMMA OpenStep ==
  ASSUME NEW v \in Volumes, NEW w \in Volumes, NEW en \in [Files -> Entries \cup {NoEntry}],
         NEW cu \in Files, NEW f, NEW at, NEW ch, SafeIn(v, en, cu, f, at, ch),
         NEW t, Moves(v, w, ch[cu], t), NEW g, NEW au, Grip(w, g, t, au),
         Firm(f.o, ch[cu]) \subseteq Firm(g.o, t), Rerouted(v, w, Firm(g.o, t))
  PROVE  Safe(w, en, cu, g, au)
<1>1. cu # NoFile
  BY FileAssumption
<1>2. Aside(v, en, cu, ch) /\ Old(v, en[cu], Firm(f.o, ch[cu]), Others(ch, cu))
  BY <1>1 DEF SafeIn
<1>3. ch \in [Files -> Seq(Clst)] /\ Unshared(v, ch)
  BY <1>2 DEF Aside
<1>4. Spares(v, w, ch[cu]) /\ w.type = v.type
  BY DEF Moves, Spares
<1>5. Own(w, ch, cu, t)
  BY <1>3, MovesOwn
<1>6. Old(w, en[cu], Firm(g.o, t), Others(ch, cu))
  BY <1>2, <1>4, OldKeeps
<1>7. SameEntries(en, en, cu)
  BY DEF SameEntries
<1> QED
  BY <1>2, <1>4, <1>5, <1>6, <1>7, OpenChanged

\* The FIL object changes, but no cluster and no link.
LEMMA OpenSame ==
  ASSUME NEW v \in Volumes, NEW en \in [Files -> Entries \cup {NoEntry}],
         NEW cu \in Files, NEW f, NEW at, NEW ch, SafeIn(v, en, cu, f, at, ch),
         NEW g, NEW au, Grip(v, g, ch[cu], au), Firm(f.o, ch[cu]) \subseteq Firm(g.o, ch[cu])
  PROVE  Safe(v, en, cu, g, au)
<1>1. cu # NoFile
  BY FileAssumption
<1>2. Aside(v, en, cu, ch) /\ Old(v, en[cu], Firm(f.o, ch[cu]), Others(ch, cu))
  BY <1>1 DEF SafeIn
<1>3. Rerouted(v, v, Firm(g.o, ch[cu]))
  BY DEF Rerouted
<1>4. Old(v, en[cu], Firm(g.o, ch[cu]), Others(ch, cu))
  BY <1>2, <1>3, OldKeeps
<1> QED
  BY <1>2, <1>4 DEF Safe, SafeIn

\* An error stops the call, and the file is not used again but by f_sync.
LEMMA RestingRoomy ==
  ASSUME NEW o \in Objects, NEW s \in Seq(Clst), Sized(o, s)
  PROVE  Roomy(o, s)
<1>1. o.size \in Nat /\ Count(o.size) \in Nat /\ Len(s) \in Nat
  BY FileAssumption, SeqFacts, CountBounds DEF Objects
<1>2. o.size = 0 => Count(o.size) = 0
  BY <1>1, CountBounds
<1> QED
  BY <1>1, <1>2 DEF Sized, Roomy

LEMMA GripStopped ==
  ASSUME NEW v, NEW f, f.o \in Objects, NEW s, NEW at, Grip(v, f, s, at),
         NEW g, g.o = f.o, g.clust = f.clust, g.err = TRUE, NEW au
  PROVE  Grip(v, g, s, au)
<1>1. CASE f.err
  BY <1>1 DEF Grip
<1>2. CASE ~f.err
  <2>1. Shape(v, f.o, s) /\ s \in Seq(Clst)
    BY <1>2 DEF Grip, Shape
  <2>2. CASE at = "seek"
    <3>1. PICK k \in Nat : CrossingAt(f, s, k)
      BY <1>2, <2>2 DEF Grip, Crossing
    <3>2. Roomy(f.o, s)
      BY <3>1 DEF CrossingAt, Roomy
    <3> QED
      BY <2>1, <3>2 DEF Grip, Broken
  <2>3. CASE at # "seek"
    <3>1. Sized(f.o, s)
      BY <1>2, <2>3 DEF Grip, Resting
    <3>2. Roomy(f.o, s)
      BY <2>1, <3>1, RestingRoomy
    <3> QED
      BY <2>1, <3>2 DEF Grip, Broken
  <2> QED
    BY <2>2, <2>3
<1> QED
  BY <1>1, <1>2

\* What FatSafe says of the open file
LEMMA SafeOpen ==
  ASSUME FatTypeInv, FatSafe, ~loose
  PROVE  \E ch : SafeIn(vol, entry, cur, fp, pc, ch)
BY DEF FatSafe, Safe

LEMMA SafeHeld ==
  ASSUME NEW v, NEW en, NEW cu \in Files, NEW f, NEW at, NEW ch, SafeIn(v, en, cu, f, at, ch)
  PROVE  /\ ch \in [Files -> Seq(Clst)] /\ ch[cu] \in Seq(Clst) /\ Taken(v, ch[cu])
         /\ Grip(v, f, ch[cu], at) /\ Len(ch[cu]) \in Nat
BY FileAssumption, SeqFacts DEF SafeIn, Aside, Unshared

\* FatSafe: the calls that leave the links alone
LEMMA SafeTransfer ==
  ASSUME FatTypeInv, FatSafe, NEW kind \in {"read", "write"}, Transfer(kind)
  PROVE  FatSafe'
<1> SUFFICES ASSUME ~loose'
             PROVE  Safe(vol', entry', cur', fp', pc')
  BY DEF FatSafe
<1>1. /\ pc = "idle" /\ cur # NoFile /\ ~fp.err /\ pc' = kind
      /\ UNCHANGED <<vol, entry, cur, fp, loose>>
  BY DEF Transfer, Valid
<1>2. PICK ch : SafeIn(vol, entry, cur, fp, pc, ch)
  BY <1>1, SafeOpen
<1>3. SafeIn(vol, entry, cur, fp, kind, ch)
  BY <1>1, <1>2 DEF SafeIn, Grip
<1> QED
  BY <1>1, <1>3 DEF Safe

LEMMA SafeGetFree ==
  ASSUME FatTypeInv, FatSafe, GetFree
  PROVE  FatSafe'
<1> SUFFICES ASSUME ~loose'
             PROVE  Safe(vol', entry', cur', fp', pc')
  BY DEF FatSafe
<1>1. /\ cur = NoFile /\ vol \in Volumes /\ UNCHANGED <<pc, entry, cur, fp, loose>>
      /\ \E n \in 0 .. CountFree(vol) : vol' = [vol EXCEPT !.free = n]
  <2>1. vol \in Volumes
    BY OpenFile
  <2>2. CountFree(vol) \in 0 .. CountFree(vol)
    BY <2>1, CountFreeType
  <2> QED
    BY <2>1, <2>2 DEF GetFree
<1>2. PICK ch : SafeIn(vol, entry, cur, fp, pc, ch)
  BY <1>1, SafeOpen
<1>3. vol'.type = vol.type /\ vol'.fat = vol.fat /\ vol'.used = vol.used /\ vol' \in Volumes
  <2>1. PICK n \in 0 .. CountFree(vol) : vol' = [vol EXCEPT !.free = n]
    BY <1>1
  <2>2. n \in 0 .. Clusters
    BY <1>1, CountFreeType, FatAssumption
  <2> QED
    BY <1>1, <2>1, <2>2 DEF Volumes
<1>4. ch \in [Files -> Seq(Clst)] /\ Unshared(vol, ch)
  BY <1>2 DEF SafeIn, Aside
<1>5. Unshared(vol', ch)
  BY <1>3, <1>4 DEF Unshared, Taken, IsFree
<1>6. \A g \in Files : Leads(vol', entry[g], ch[g])
  <2> TAKE g \in Files
  <2>1. Leads(vol, entry[g], ch[g]) /\ entry[g] \in Entries \cup {NoEntry}
    BY <1>1, <1>2, OpenFile, FileAssumption DEF SafeIn, Aside, Proper
  <2> QED
    BY <1>1, <1>3, <2>1, LeadsStays
<1> QED
  BY <1>1, <1>4, <1>5, <1>6 DEF Safe, SafeIn, Aside

-----------------------------------------------------------------------------
\* f_read and f_write: the file pointer

\* The size once the pointer has come to at, in the m-th of n clusters
LEMMA SizeReached ==
  ASSUME NEW z \in Nat, NEW at \in Nat, NEW m \in Nat, Count(at) = m, NEW n \in Nat,
         m <= n, Count(z) <= n, Count(z) < n => n = m
  PROVE  Count(IF at > z THEN at ELSE z) = n
<1>1. Count(z) \in Nat /\ Count(at) \in Nat
  BY CountBounds
<1>2. CASE at > z
  <2>1. Count(z) <= Count(at)
    BY <1>2, CountMonotone
  <2> QED
    BY <1>1, <1>2, <2>1
<1>3. CASE ~(at > z)
  <2>1. Count(at) <= Count(z)
    BY <1>3, CountMonotone
  <2> QED
    BY <1>1, <1>3, <2>1
<1> QED
  BY <1>2, <1>3

\* The FIL object after a transfer from or to the cluster s[StepTo]
LEMMA MovedGrip ==
  ASSUME FatTypeInv, pc \in {"read", "write"}, NEW v, NEW f \in Fils,
         f.fptr = fp.fptr, f.o.size = fp.o.size, ~f.err,
         NEW s \in Seq(Clst), Shape(v, f.o, s), StepTo <= Len(s), f.clust = s[StepTo],
         f.o.n_frag > 0 => f.clust = s[Len(s)],
         f.o.stat = 2 => Count(fp.o.size) <= Len(s) /\ (Count(fp.o.size) < Len(s) => Len(s) = StepTo),
         Moved(f, Share)
  PROVE  Grip(v, fp', s, pc') /\ Firm(fp'.o, s) = Firm(f.o, s)
<1>1. Proper /\ Calling /\ pc # "idle" /\ fp.fptr \in Nat /\ fp.o.size \in Nat
  <2>1. Proper /\ Calling
    BY OpenFile
  <2>2. fp.fptr \in 0 .. MaxSize /\ fp.o.size \in 0 .. MaxSize
    BY <2>1, LoadedCur
  <2>3. fp.fptr \in Nat /\ fp.o.size \in Nat
    BY <2>2, FileAssumption
  <2> QED
    BY <2>1, <2>3
<1>2. /\ Share \in Nat /\ Share >= 1 /\ fp.fptr + Share <= MaxSize
  BY <1>1, ShareBounds, FileAssumption
<1>3. /\ fp' \in Fils /\ fp'.o.sclust = f.o.sclust /\ fp'.o.stat = f.o.stat
      /\ fp'.o.n_cont = f.o.n_cont /\ fp'.o.n_frag = f.o.n_frag
      /\ fp'.o.size = IF fp.fptr + Share > fp.o.size THEN fp.fptr + Share ELSE fp.o.size
      /\ fp'.clust = f.clust /\ fp'.fptr = fp.fptr + Share /\ fp'.err = f.err
      /\ pc' # "seek"
  <2>1. f.fptr + Share <= MaxSize
    BY <1>2
  <2> QED
    BY <2>1, <1>2, MovedFields
<1>4. Shape(v, fp'.o, s)
  BY <1>3, ShapeSize
<1>5. Firm(fp'.o, s) = Firm(f.o, s)
  BY <1>3 DEF Firm, First
<1>6. StepTo \in Nat /\ StepTo >= 1 /\ Len(s) \in Nat /\ fp.fptr + Share \in Nat
      /\ Count(fp.fptr + Share) = StepTo
  BY <1>1, <1>2, StepToIs, SeqFacts DEF StepTo
<1>7. fp'.o.stat = 2 => Len(s) = Count(fp'.o.size)
  <2> SUFFICES ASSUME fp'.o.stat = 2
               PROVE  Len(s) = Count(fp'.o.size)
    OBVIOUS
  <2>1. Count(fp.o.size) <= Len(s) /\ (Count(fp.o.size) < Len(s) => Len(s) = StepTo)
    BY <1>3
  <2> QED
    BY <1>1, <1>3, <1>6, <2>1, SizeReached
<1>8. Resting(fp', s)
  <2>1. Sized(fp'.o, s)
    BY <1>1, <1>2, <1>3, <1>6, <1>7 DEF Sized
  <2>2. fp'.fptr <= fp'.o.size
    BY <1>1, <1>2, <1>3
  <2>3. Count(fp'.fptr) <= Len(s) /\ fp'.clust = s[Count(fp'.fptr)]
    BY <1>3, <1>6
  <2> QED
    BY <2>1, <2>2, <2>3 DEF Resting
<1>9. fp'.o.n_frag > 0 => fp'.clust = s[Len(s)]
  BY <1>3
<1> QED
  BY <1>3, <1>4, <1>5, <1>8, <1>9 DEF Grip

\* get_fat where FA_OPEN_APPEND has found no cluster
LEMMA NextAdrift ==
  ASSUME NEW v, NEW o
  PROVE  EOC \notin Clst /\ GetFat(v, o, EOC) = INT_ERR /\ INT_ERR \notin Clst
BY FatAssumption DEF GetFat, Clst, EOC, INT_ERR

\* A size that is not 0 counts all the clusters.
LEMMA SizedWhole ==
  ASSUME NEW o, NEW s, Sized(o, s), o.size # 0
  PROVE  Whole(o, s)
BY DEF Sized, Whole

\* The file pointer at the end of the cluster s[i]
LEMMA RestingNext ==
  ASSUME NEW v \in Volumes, NEW o \in Objects, Plain(v, o), NEW s, Shape(v, o, s), Whole(o, s),
         NEW i \in 1 .. Len(s), o.n_frag > 0 => s[i] = s[Len(s)], GetFat(v, o, s[i]) \in Clst
  PROVE  o.n_frag = 0 /\ i < Len(s) /\ GetFat(v, o, s[i]) = s[i + 1]
<1>1. EOC \notin Clst
  BY FatAssumption DEF Clst, EOC
<1>2. o.n_frag \in Nat /\ Len(s) \in Nat
  BY ShapeFields
<1>3. o.n_frag = 0
  BY <1>1, <1>2, NextAtEdge
<1> QED
  BY <1>1, <1>2, <1>3, NextOf

\* How the size of a contiguous file counts its clusters
LEMMA SizedCounts ==
  ASSUME NEW o, NEW s, Len(s) \in Nat, Sized(o, s), o.stat = 2, NEW m \in Nat, m >= 1, m <= Len(s)
  PROVE  Count(o.size) <= Len(s) /\ (Count(o.size) < Len(s) => Len(s) = m)
<1>1. Count(0) = 0
  BY CountBounds
<1>2. Len(s) = Count(o.size) \/ (Len(s) = 1 /\ o.size = 0)
  BY DEF Sized
<1>3. CASE Len(s) = Count(o.size)
  BY <1>3
<1>4. CASE Len(s) = 1 /\ o.size = 0
  BY <1>1, <1>4
<1> QED
  BY <1>2, <1>3, <1>4

\* The cluster that f_read goes on with
LEMMA ReadOn ==
  ASSUME FatTypeInv, pc = "read", NEW s, Grip(vol, fp, s, pc),
         NEW c \in Clst, c = IF ~OnBoundary THEN fp.clust
                             ELSE IF fp.fptr = 0 THEN fp.o.sclust ELSE GetFat(vol, fp.o, fp.clust)
  PROVE  /\ StepTo \in 1 .. Len(s) /\ c = s[StepTo]
         /\ fp.o.n_frag > 0 => c = s[Len(s)]
<1>1. /\ Proper /\ Calling /\ vol \in Volumes /\ fp.o \in Objects /\ Plain(vol, fp.o)
      /\ fp.o.size \in Nat /\ (fp.o.n_frag > 0 => fp.fptr > 0)
  BY OpenFile DEF Edged
<1>2. /\ ~fp.err /\ fp.fptr \in Nat /\ fp.o.size # 0
  <2>1. ~fp.err /\ left > 0 /\ fp.fptr + left <= fp.o.size
    BY <1>1 DEF Calling
  <2>2. fp.fptr \in Nat /\ left \in Nat
    BY <1>1, LoadedCur, FileAssumption DEF Proper
  <2> QED
    BY <1>1, <2>1, <2>2
<1>3. /\ Shape(vol, fp.o, s) /\ Resting(fp, s)
      /\ fp.o.n_frag > 0 => fp.clust = s[Len(s)]
  BY <1>2 DEF Grip
<1>4. s \in Seq(Clst) /\ Len(s) \in Nat /\ (Len(s) = 0 => fp.o.sclust = 0) /\ (Len(s) > 0 => fp.o.sclust = s[1])
  BY <1>1, <1>3, ShapeFields
<1>5. Whole(fp.o, s)
  BY <1>2, <1>3, SizedWhole DEF Resting
<1>6. /\ StepTo \in Nat /\ StepTo >= 1 /\ Count(fp.fptr) \in Nat
      /\ OnBoundary => Count(fp.fptr) = StepTo - 1 /\ (fp.fptr = 0 <=> StepTo = 1)
      /\ ~OnBoundary => Count(fp.fptr) = StepTo /\ fp.fptr > 0
  BY StepToIs
<1>7. CASE ~OnBoundary
  <2>1. ~Adrift(fp, s)
    BY <1>7, NextAdrift DEF Adrift
  <2>2. Count(fp.fptr) <= Len(s) /\ fp.clust = s[Count(fp.fptr)]
    BY <1>3, <1>6, <1>7, <2>1 DEF Resting
  <2> QED
    BY <1>3, <1>4, <1>6, <1>7, <2>2
<1>8. CASE OnBoundary /\ fp.fptr = 0
  <2>1. 0 \notin Clst
    BY DEF Clst
  <2>2. Len(s) > 0 /\ c = s[1] /\ StepTo = 1
    BY <1>4, <1>6, <1>8, <2>1
  <2>3. ~(fp.o.n_frag > 0)
    BY <1>1, <1>8
  <2> QED
    BY <1>4, <2>2, <2>3
<1>9. CASE OnBoundary /\ fp.fptr > 0
  <2>0. c = GetFat(vol, fp.o, fp.clust)
    BY <1>2, <1>9
  <2>1. ~Adrift(fp, s)
    BY <2>0, NextAdrift DEF Adrift
  <2>2. Count(fp.fptr) <= Len(s) /\ fp.clust = s[Count(fp.fptr)] /\ Count(fp.fptr) >= 1
    BY <1>3, <1>2, <1>6, <1>9, <2>1 DEF Resting
  <2> DEFINE i == Count(fp.fptr)
  <2>3. i \in 1 .. Len(s) /\ fp.clust = s[i] /\ (fp.o.n_frag > 0 => s[i] = s[Len(s)])
    BY <1>3, <1>4, <1>6, <2>2
  <2>4. StepTo = i + 1
    BY <1>6, <1>9
  <2> HIDE DEF i
  <2>5. fp.o.n_frag = 0 /\ i < Len(s) /\ GetFat(vol, fp.o, s[i]) = s[i + 1]
    BY <1>1, <1>3, <1>5, <2>0, <2>3, RestingNext
  <2> QED
    BY <1>4, <1>6, <2>0, <2>3, <2>4, <2>5
<1> QED
  BY <1>2, <1>7, <1>8, <1>9

\* A call that stops with an error before it has changed anything
LEMMA SafeStopped ==
  ASSUME FatTypeInv, NEW v \in Volumes, NEW cu \in Files, NEW at, NEW ch,
         SafeIn(v, entry, cu, fp, at, ch), NEW g, g.o = fp.o, g.clust = fp.clust, g.err = TRUE,
         NEW au
  PROVE  Safe(v, entry, cu, g, au)
<1>1. fp.o \in Objects /\ entry \in [Files -> Entries \cup {NoEntry}]
  BY OpenFile DEF Proper
<1>2. Grip(v, fp, ch[cu], at)
  BY SafeHeld
<1>3. Grip(v, g, ch[cu], au)
  BY <1>1, <1>2, GripStopped
<1>4. Firm(fp.o, ch[cu]) \subseteq Firm(g.o, ch[cu])
  OBVIOUS
<1> QED
  BY <1>1, <1>3, <1>4, OpenSame

LEMMA SafeReadStep ==
  ASSUME FatTypeInv, FatSafe, ReadStep
  PROVE  FatSafe'
<1> SUFFICES ASSUME ~loose'
             PROVE  Safe(vol', entry', cur', fp', pc')
  BY DEF FatSafe
<1>1. /\ Proper /\ Calling /\ vol \in Volumes /\ fp \in Fils /\ fp.o \in Objects
      /\ entry \in [Files -> Entries \cup {NoEntry}]
  BY OpenFile DEF Proper
<1>2. /\ pc = "read" /\ UNCHANGED <<vol, entry, cur, loose>>
  BY DEF ReadStep
<1>3. cur \in Files /\ ~fp.err
  BY <1>1, <1>2 DEF Calling
<1>4. PICK ch : SafeIn(vol, entry, cur, fp, pc, ch)
  BY <1>2, SafeOpen
<1> DEFINE s == ch[cur]
           c == IF ~OnBoundary THEN fp.clust
                ELSE IF fp.fptr = 0 THEN fp.o.sclust ELSE GetFat(vol, fp.o, fp.clust)
<1>5. s \in Seq(Clst) /\ Grip(vol, fp, s, pc)
  BY <1>3, <1>4, SafeHeld
<1>6. \/ c \in Clst /\ Moved([fp EXCEPT !.clust = c], Share)
      \/ Abort(fp.o, "int")
      \/ Abort(fp.o, "disk")
  BY DEF ReadStep
<1> HIDE DEF c
<1>7. CASE c \in Clst /\ Moved([fp EXCEPT !.clust = c], Share)
  <2> DEFINE f == [fp EXCEPT !.clust = c]
  <2>1. /\ f \in Fils /\ f.o = fp.o /\ f.clust = c /\ f.fptr = fp.fptr /\ f.err = fp.err
    BY <1>1, <1>7 DEF Fils
  <2>2. /\ StepTo \in 1 .. Len(s) /\ c = s[StepTo]
        /\ fp.o.n_frag > 0 => c = s[Len(s)]
    <3>1. c = IF ~OnBoundary THEN fp.clust
              ELSE IF fp.fptr = 0 THEN fp.o.sclust ELSE GetFat(vol, fp.o, fp.clust)
      BY DEF c
    <3> HIDE DEF s
    <3> QED
      BY <3>1, <1>2, <1>5, <1>7, ReadOn
  <2>3. Shape(vol, fp.o, s) /\ Sized(fp.o, s) /\ Len(s) \in Nat /\ StepTo <= Len(s)
    BY <1>2, <1>3, <1>5, <2>2, SeqFacts DEF Grip, Resting
  <2>4. fp.o.stat = 2 => Count(fp.o.size) <= Len(s) /\ (Count(fp.o.size) < Len(s) => Len(s) = StepTo)
    <3>1. StepTo \in Nat /\ StepTo >= 1
      BY <2>2, <2>3
    <3> HIDE DEF s
    <3> QED
      BY <2>3, <3>1, SizedCounts
  <2>5. Moved(f, Share)
    BY <1>7
  <2> HIDE DEF f, s
  <2>6. Grip(vol, fp', s, pc') /\ Firm(fp'.o, s) = Firm(f.o, s)
    BY <1>2, <1>3, <1>5, <2>1, <2>2, <2>3, <2>4, <2>5, MovedGrip
  <2>7. Firm(fp.o, s) \subseteq Firm(fp'.o, s)
    BY <2>1, <2>6
  <2> QED
    BY <1>1, <1>2, <1>3, <1>4, <2>6, <2>7, OpenSame DEF s
<1>8. CASE Abort(fp.o, "int") \/ Abort(fp.o, "disk")
  <2>1. fp'.o = fp.o /\ fp'.clust = fp.clust /\ fp'.err = TRUE
    BY <1>1, <1>8, AbortFields
  <2> QED
    BY <1>1, <1>2, <1>3, <1>4, <2>1, SafeStopped
<1> QED
  BY <1>6, <1>7, <1>8

-----------------------------------------------------------------------------
\* f_lseek: the end of a seek
LEMMA SafeSeekEnd ==
  ASSUME FatTypeInv, FatSafe, SeekEnd
  PROVE  FatSafe'
<1> SUFFICES ASSUME ~loose'
             PROVE  Safe(vol', entry', cur', fp', pc')
  BY DEF FatSafe
<1>1. /\ Proper /\ Calling /\ vol \in Volumes /\ fp \in Fils /\ fp.o \in Objects
      /\ entry \in [Files -> Entries \cup {NoEntry}] /\ fp.o.size \in Nat
  BY OpenFile DEF Proper
<1> DEFINE at == fp.fptr + left
           z  == IF at > fp.o.size THEN at ELSE fp.o.size
           g  == [fp EXCEPT !.fptr = at, !.o.size = IF at > @ THEN at ELSE @,
                            !.modified = @ \/ (at > fp.o.size)]
<1>2. /\ pc = "seek" /\ UNCHANGED <<vol, entry, cur, loose>> /\ left <= CSize
      /\ pc' = "idle" /\ fp' = g
  BY DEF SeekEnd
<1>3. cur \in Files /\ ~fp.err /\ left > 0
  BY <1>1, <1>2 DEF Calling
<1>4. PICK ch : SafeIn(vol, entry, cur, fp, pc, ch)
  BY <1>2, SafeOpen
<1> DEFINE s == ch[cur]
<1>5. s \in Seq(Clst) /\ Grip(vol, fp, s, pc)
  BY <1>3, <1>4, SafeHeld
<1>6. PICK k \in Nat : CrossingAt(fp, s, k)
  BY <1>2, <1>3, <1>5 DEF Grip, Crossing
<1>7. Shape(vol, fp.o, s) /\ (fp.o.n_frag > 0 => fp.clust = s[Len(s)]) /\ Len(s) \in Nat
  BY <1>3, <1>5, SeqFacts DEF Grip
<1>8. /\ fp'.clust = fp.clust /\ fp'.fptr = at /\ fp'.err = fp.err /\ fp'.o.size = z
      /\ fp'.o.sclust = fp.o.sclust /\ fp'.o.stat = fp.o.stat /\ fp'.o.n_cont = fp.o.n_cont
      /\ fp'.o.n_frag = fp.o.n_frag
  BY <1>1, <1>2 DEF Fils, Objects
<1>9. left \in 1 .. CSize /\ fp.fptr \in Nat /\ at \in Nat /\ CSize \in Nat
  <2>1. left \in 0 .. MaxSize /\ fp.fptr \in 0 .. MaxSize /\ MaxSize \in Nat /\ CSize \in Nat \ {0}
    BY <1>1, LoadedCur DEF Proper
  <2> QED
    BY <1>2, <1>3, <2>1
<1>10. fp.fptr = CSize * k /\ Count(at) = k + 1 /\ at > 0 /\ at <= z /\ z > 0 /\ z \in Nat
  <2>1. fp.fptr = CSize * k
    BY <1>6 DEF CrossingAt
  <2>2. Count(CSize * k + left) = k + 1
    BY <1>9, CountWithin
  <2> QED
    BY <1>1, <1>9, <2>1, <2>2
<1> HIDE DEF g, at, z, s
<1>11. Shape(vol, fp'.o, s) /\ Firm(fp'.o, s) = Firm(fp.o, s)
  <2>1. Shape(vol, fp'.o, s)
    BY <1>7, <1>8, ShapeSize
  <2> QED
    BY <2>1, <1>8 DEF Firm, First
<1>12. Adrift(fp', s) \/ (Count(at) <= Len(s) /\ fp'.clust = s[Count(at)])
  BY <1>6, <1>8, <1>10 DEF CrossingAt, Adrift
<1>13. fp'.o.stat = 2 => Len(s) = Count(z)
  <2> SUFFICES ASSUME fp'.o.stat = 2
               PROVE  Len(s) = Count(z)
    OBVIOUS
  <2>1. ~Adrift(fp', s)
    BY DEF Adrift
  <2>2. k + 1 <= Len(s) /\ Count(fp.o.size) <= Len(s) /\ (Count(fp.o.size) < Len(s) => Len(s) = k + 1)
    BY <1>6, <1>8, <1>10, <1>12, <2>1 DEF CrossingAt
  <2> QED
    BY <1>1, <1>7, <1>9, <1>10, <2>2, SizeReached DEF z
<1>14. Resting(fp', s)
  <2>1. Len(s) > 0
    BY <1>6 DEF CrossingAt
  <2>2. Sized(fp'.o, s)
    BY <1>8, <1>10, <1>13, <2>1 DEF Sized
  <2> QED
    BY <1>8, <1>10, <1>12, <2>2 DEF Resting
<1>15. Grip(vol, fp', s, pc')
  BY <1>2, <1>3, <1>7, <1>8, <1>11, <1>14 DEF Grip
<1> QED
  BY <1>1, <1>2, <1>3, <1>4, <1>11, <1>15, OpenSame DEF s

-----------------------------------------------------------------------------
\* f_write

\* f_write has a cluster to go on with: the file has got the clusters t.
Landed(r, s, t) ==
  /\ Named(r.o, r.ret) \in Objects /\ Named(r.o, r.ret).size = fp.o.size
  /\ Moves(vol, r.v, s, t) /\ Carries(vol, r.v, fp.o, Named(r.o, r.ret), s, t)
  /\ Shape(r.v, Named(r.o, r.ret), t)
  /\ StepTo \in 1 .. Len(t) /\ r.ret = t[StepTo]
  /\ Named(r.o, r.ret).n_frag > 0 => r.ret = t[Len(t)]
  /\ Named(r.o, r.ret).stat = 2 => /\ Count(fp.o.size) <= Len(t)
                                   /\ Count(fp.o.size) < Len(t) => Len(t) = StepTo
\* It has none.
Missed(r, s) ==
  \/ r.v = vol /\ r.o = fp.o
  \/ /\ r.ret = DISK /\ Broken(r.v, r.o, s) /\ Moves(vol, r.v, s, s)
     /\ Carries(vol, r.v, fp.o, r.o, s, s) /\ (Len(s) > 0 => fp.clust = s[Len(s)])

LEMMA MovesNot ==
  ASSUME NEW v, NEW s \in Seq(Clst), Taken(v, s)
  PROVE  Moves(v, v, s, s)
<1>1. Range(s) \subseteq Clst
  BY RangeIs
<1> QED
  BY <1>1 DEF Moves, Spares, Taken

LEMMA LandedThere ==
  ASSUME FatTypeInv, NEW s \in Seq(Clst), Taken(vol, s), Shape(vol, fp.o, s), Sized(fp.o, s),
         StepTo \in 1 .. Len(s), NEW r, r.v = vol, r.o = fp.o, r.ret = s[StepTo],
         fp.o.n_frag > 0 => r.ret = s[Len(s)]
  PROVE  Landed(r, s, s)
<1>1. fp.o \in Objects /\ Len(s) \in Nat /\ StepTo \in Nat /\ StepTo >= 1 /\ StepTo <= Len(s)
  BY OpenFile, SeqFacts
<1>2. fp.o.sclust # 0
  BY <1>1, ShapeFields
<1>3. Named(r.o, r.ret) = fp.o
  BY <1>2 DEF Named
<1>4. Moves(vol, vol, s, s)
  BY MovesNot
<1>5. Carries(vol, vol, fp.o, fp.o, s, s)
  <2>1. Rerouted(vol, vol, Firm(fp.o, s))
    BY DEF Rerouted
  <2> QED
    BY <2>1, CarriesSame
<1>6. fp.o.stat = 2 => /\ Count(fp.o.size) <= Len(s)
                       /\ Count(fp.o.size) < Len(s) => Len(s) = StepTo
  BY <1>1, SizedCounts
<1> QED
  BY <1>1, <1>3, <1>4, <1>5, <1>6 DEF Landed

\* At most that many clusters are counted by the size.
LEMMA RoomyOn ==
  ASSUME NEW v, NEW w, NEW o \in Objects, NEW p \in Objects, NEW s \in Seq(Clst), NEW t,
         Sized(o, s), p.size = o.size, Carries(v, w, o, p, s, t), p.stat = 2
  PROVE  Count(p.size) <= Len(s)
<1>1. Len(s) \in Nat /\ Count(0) = 0
  BY SeqFacts, CountBounds
<1>2. CASE Len(s) = 0
  <2>1. p.size = 0
    BY <1>2 DEF Sized
  <2> QED
    BY <1>1, <1>2, <2>1
<1>3. CASE Len(s) > 0
  <2>1. o.stat = 2
    BY <1>3 DEF Carries
  <2>2. Roomy(o, s)
    BY RestingRoomy
  <2> QED
    BY <2>1, <2>2 DEF Roomy
<1> QED
  BY <1>1, <1>2, <1>3

LEMMA LandedNew ==
  ASSUME FatTypeInv, NEW s \in Seq(Clst), Shape(vol, fp.o, s), Sized(fp.o, s),
         NEW r, r.o \in Objects, r.o.size = fp.o.size, r.ret \in Clst,
         Longer(vol, r.v, r.o, s, r.ret), StepTo = Len(s) + 1,
         Carries(vol, r.v, fp.o, Named(r.o, r.ret), s, Append(s, r.ret))
  PROVE  Landed(r, s, Append(s, r.ret))
<1> DEFINE t == Append(s, r.ret)
           p == Named(r.o, r.ret)
<1>1. fp.o \in Objects /\ Len(s) \in Nat /\ Injective(s) /\ r.ret \notin Range(s)
  BY OpenFile, ShapeFields DEF Longer
<1>2. t \in Seq(Clst) /\ Len(t) = Len(s) + 1 /\ t[Len(s) + 1] = r.ret
  BY <1>1, AppendIs
<1>3. p \in Objects /\ p.size = fp.o.size
  BY NamedType
<1>4. Shape(r.v, p, t) /\ Rechained(vol, r.v, s, t)
  BY DEF Longer
<1>5. Moves(vol, r.v, s, t)
  BY <1>2, <1>4, RechainedMoves
<1>6. Carries(vol, r.v, fp.o, p, s, t)
  OBVIOUS
<1> HIDE DEF p
<1>7. p.stat = 2 => Count(p.size) <= Len(s)
  BY <1>1, <1>3, <1>6, RoomyOn
<1>8. fp.o.size \in Nat /\ Count(fp.o.size) \in Nat
  BY OpenFile, CountBounds
<1>9. p.stat = 2 => Count(fp.o.size) <= Len(t) /\ (Count(fp.o.size) < Len(t) => Len(t) = StepTo)
  BY <1>1, <1>2, <1>3, <1>7, <1>8
<1>10. StepTo \in 1 .. Len(t) /\ r.ret = t[StepTo] /\ r.ret = t[Len(t)]
  BY <1>1, <1>2
<1> QED
  BY <1>3, <1>4, <1>5, <1>6, <1>9, <1>10 DEF Landed, p

\* Grown, seen from the step of f_write that asked for a cluster
LEMMA GrownLands ==
  ASSUME FatTypeInv, NEW s \in Seq(Clst), Shape(vol, fp.o, s), Sized(fp.o, s),
         NEW r, r.o \in Objects, r.o.size = fp.o.size, StepTo = Len(s) + 1,
         Grown(vol, fp.o, s, r), Len(s) > 0 => fp.clust = s[Len(s)]
  PROVE  IF r.ret \in Clst THEN \E t : Landed(r, s, t) ELSE Missed(r, s)
<1>1. DISK \notin Clst
  BY FatAssumption DEF Clst, DISK
<1>2. CASE r.ret \in Clst
  <2>1. /\ Longer(vol, r.v, r.o, s, r.ret)
        /\ Carries(vol, r.v, fp.o, Named(r.o, r.ret), s, Append(s, r.ret))
    BY <1>1, <1>2 DEF Grown
  <2>2. Landed(r, s, Append(s, r.ret))
    BY <1>2, <2>1, LandedNew
  <2> QED
    BY <1>2, <2>2
<1>3. CASE r.ret \notin Clst
  BY <1>3 DEF Grown, Missed
<1> QED
  BY <1>2, <1>3

LEMMA TargetsSafe ==
  ASSUME FatTypeInv, pc = "write", ~fp.err, NEW s \in Seq(Clst), Taken(vol, s),
         Grip(vol, fp, s, pc), NEW r \in Targets
  PROVE  IF r.ret \in Clst THEN \E t : Landed(r, s, t) ELSE Missed(r, s)
<1>1. /\ Proper /\ Edged /\ vol \in Volumes /\ fp.o \in Objects /\ Plain(vol, fp.o)
      /\ fp.o.size \in Nat /\ fp.fptr \in Nat
  BY OpenFile, LoadedCur, FileAssumption
<1>2. /\ Shape(vol, fp.o, s) /\ Resting(fp, s) /\ Sized(fp.o, s)
      /\ (fp.o.n_frag > 0 => fp.clust = s[Len(s)])
  BY DEF Grip, Resting
<1>3. /\ Len(s) \in Nat /\ (Len(s) = 0 => fp.o.sclust = 0) /\ (Len(s) > 0 => fp.o.sclust = s[1])
      /\ (Len(s) > 0 => fp.o.sclust # 0) /\ fp.o.n_frag \in Nat /\ Injective(s)
      /\ (\A i \in 1 .. Len(s) : s[i] \in Clst)
  <2>1. /\ Len(s) \in Nat /\ Injective(s) /\ fp.o.n_frag \in 0 .. Len(s)
        /\ \A i \in 1 .. Len(s) : s[i] \in Clst /\ s[i] \in Nat
        /\ Len(s) > 0 => fp.o.sclust = s[1] /\ fp.o.sclust # 0
        /\ Len(s) = 0 => fp.o.sclust = 0
    BY <1>1, <1>2, ShapeFields
  <2> QED
    BY <2>1
<1>4. /\ StepTo \in Nat /\ StepTo >= 1 /\ Count(fp.fptr) \in Nat
      /\ OnBoundary => Count(fp.fptr) = StepTo - 1 /\ (fp.fptr = 0 <=> StepTo = 1)
      /\ ~OnBoundary => Count(fp.fptr) = StepTo /\ fp.fptr > 0
  BY StepToIs
<1>5. /\ r.o \in Objects /\ r.o.size = fp.o.size
  BY <1>1, TargetsType
<1>6. EOC \notin Clst /\ INT_ERR \notin Clst /\ DISK \notin Clst
  BY FatAssumption DEF EOC, INT_ERR, DISK, Clst
<1>7. ASSUME StepTo \in 1 .. Len(s), r.v = vol, r.o = fp.o, r.ret = s[StepTo],
             fp.o.n_frag > 0 => r.ret = s[Len(s)]
      PROVE  IF r.ret \in Clst THEN \E t : Landed(r, s, t) ELSE Missed(r, s)
  <2>1. Landed(r, s, s)
    BY <1>2, <1>7, LandedThere
  <2>2. r.ret \in Clst
    BY <1>3, <1>7
  <2> QED
    BY <2>1, <2>2
<1>8. ASSUME r.v = vol, r.o = fp.o, r.ret \notin Clst
      PROVE  IF r.ret \in Clst THEN \E t : Landed(r, s, t) ELSE Missed(r, s)
  BY <1>8 DEF Missed
<1>9. CASE ~OnBoundary
  <2>1. r = Outcome(vol, fp.o, fp.clust)
    BY <1>9 DEF Targets
  <2>2. r.v = vol /\ r.o = fp.o /\ r.ret = fp.clust
    BY <2>1, OutcomeFields
  <2>3. CASE Adrift(fp, s)
    <3>1. r.ret \notin Clst
      BY <1>6, <2>2, <2>3 DEF Adrift
    <3> QED
      BY <1>8, <2>2, <3>1
  <2>4. CASE ~Adrift(fp, s)
    <3>1. StepTo <= Len(s) /\ fp.clust = s[StepTo]
      BY <1>2, <1>4, <1>9, <2>4 DEF Resting
    <3> QED
      BY <1>2, <1>3, <1>4, <1>7, <2>2, <3>1
  <2> QED
    BY <2>3, <2>4
<1>10. CASE OnBoundary /\ fp.fptr = 0 /\ fp.o.sclust # 0
  <2>1. r = Outcome(vol, fp.o, fp.o.sclust)
    BY <1>10 DEF Targets
  <2>2. r.v = vol /\ r.o = fp.o /\ r.ret = fp.o.sclust
    BY <2>1, OutcomeFields
  <2>3. Len(s) > 0 /\ r.ret = s[1] /\ StepTo = 1 /\ ~(fp.o.n_frag > 0)
    BY <1>1, <1>3, <1>4, <1>10, <2>2 DEF Edged
  <2> QED
    BY <1>3, <1>7, <2>2, <2>3
<1>11. CASE OnBoundary /\ fp.fptr = 0 /\ fp.o.sclust = 0
  <2>1. Len(s) = 0 /\ StepTo = Len(s) + 1 /\ LastOf(s) = 0
    BY <1>3, <1>4, <1>11 DEF LastOf
  <2>2. r \in CreateChain(vol, fp.o, LastOf(s))
    BY <1>11, <2>1 DEF Targets
  <2>3. Grown(vol, fp.o, s, r)
    BY <1>1, <1>2, <2>1, <2>2, CreateGrown
  <2>4. Len(s) > 0 => fp.clust = s[Len(s)]
    BY <2>1
  <2> QED
    BY <1>2, <1>5, <2>1, <2>3, <2>4, GrownLands
<1>12. CASE OnBoundary /\ fp.fptr # 0
  <2>1. r \in CreateChain(vol, fp.o, fp.clust)
    BY <1>12 DEF Targets
  <2>2. CASE Adrift(fp, s)
    <3>1. r.v = vol /\ r.o = fp.o /\ r.ret \in {DISK, INT_ERR}
      BY <2>1, <2>2, CreateAdrift DEF Adrift
    <3> QED
      BY <1>6, <1>8, <3>1
  <2>3. CASE ~Adrift(fp, s)
    <3> DEFINE i == Count(fp.fptr)
    <3>1. i \in 1 .. Len(s) /\ fp.clust = s[i] /\ StepTo = i + 1
      BY <1>1, <1>2, <1>3, <1>4, <1>12, <2>3 DEF Resting
    <3>2. Whole(fp.o, s)
      <4>1. fp.o.size # 0
        BY <1>1, <1>2, <1>12 DEF Resting
      <4> QED
        BY <1>2, <4>1, SizedWhole
    <3> HIDE DEF i
    <3>3. CASE i < Len(s)
      <4>1. fp.o.n_frag = 0
        BY <1>2, <1>3, <3>1, <3>3 DEF Injective
      <4>2. r \in CreateChain(vol, fp.o, s[i])
        BY <2>1, <3>1
      <4>3. r.v = vol /\ r.o = fp.o /\ (r.ret = DISK \/ r.ret = s[i + 1])
        BY <1>1, <1>2, <3>1, <3>2, <3>3, <4>1, <4>2, CreateWithin
      <4>4. StepTo \in 1 .. Len(s)
        BY <1>3, <3>1, <3>3
      <4> QED
        BY <1>6, <1>7, <1>8, <3>1, <4>1, <4>3, <4>4
    <3>4. CASE i = Len(s)
      <4>1. LastOf(s) = fp.clust /\ fp.clust = s[Len(s)] /\ StepTo = Len(s) + 1
        BY <1>3, <3>1, <3>4 DEF LastOf
      <4>2. r \in CreateChain(vol, fp.o, LastOf(s))
        BY <2>1, <4>1
      <4>3. Grown(vol, fp.o, s, r)
        BY <1>1, <1>2, <3>2, <4>2, CreateGrown
      <4> QED
        BY <1>2, <1>5, <4>1, <4>3, GrownLands
    <3> QED
      BY <1>3, <3>1, <3>3, <3>4
  <2> QED
    BY <2>2, <2>3
<1> QED
  BY <1>9, <1>10, <1>11, <1>12

\* create_chain stopped, and what it has done is kept.
LEMMA SafeMissed ==
  ASSUME FatTypeInv, NEW ch, cur \in Files, ~fp.err, pc = "write",
         SafeIn(vol, entry, cur, fp, pc, ch),
         NEW r, r.v \in Volumes, r.o \in Objects, r.o.size = fp.o.size, Missed(r, ch[cur]),
         NEW g, g.o = r.o, g.clust = fp.clust, g.err = TRUE, NEW au
  PROVE  Safe(r.v, entry, cur, g, au)
<1> DEFINE s == ch[cur]
<1>1. /\ vol \in Volumes /\ fp.o \in Objects /\ entry \in [Files -> Entries \cup {NoEntry}]
  BY OpenFile DEF Proper
<1>2. s \in Seq(Clst) /\ Grip(vol, fp, s, pc) /\ Len(s) \in Nat
  BY SafeHeld
<1>3. CASE r.v = vol /\ r.o = fp.o
  BY <1>1, <1>3, SafeStopped
<1>4. CASE /\ r.ret = DISK /\ Broken(r.v, r.o, s) /\ Moves(vol, r.v, s, s)
           /\ Carries(vol, r.v, fp.o, r.o, s, s) /\ (Len(s) > 0 => fp.clust = s[Len(s)])
  <2>1. Sized(fp.o, s)
    BY <1>2 DEF Grip, Resting
  <2>2. Len(s) = 0 => r.o.size = 0
    BY <2>1 DEF Sized
  <2>3. r.o.stat = 2 => Count(r.o.size) <= Len(s)
    BY <1>1, <1>2, <1>4, <2>1, RoomyOn
  <2>4. r.o.n_frag > 0 => Len(s) > 0
    <3>1. CASE Shape(r.v, r.o, s)
      <4>1. r.o.n_frag <= Len(s) /\ r.o.n_frag \in Nat
        BY <3>1 DEF Shape, Objects
      <4> QED
        BY <1>2, <4>1
    <3>2. CASE Frayed(r.o, s)
      BY <3>2 DEF Frayed
    <3> QED
      BY <1>4, <3>1, <3>2 DEF Broken
  <2>5. Grip(r.v, g, s, au)
    BY <1>4, <2>2, <2>3, <2>4 DEF Grip, Roomy
  <2>6. Firm(fp.o, s) \subseteq Firm(g.o, s) /\ Rerouted(vol, r.v, Firm(g.o, s))
    BY <1>4 DEF Carries
  <2> QED
    BY <1>1, <1>4, <2>5, <2>6, OpenStep
<1> QED
  BY <1>3, <1>4 DEF Missed

\* The file has got what it is to be written to.
LEMMA SafeLanded ==
  ASSUME FatTypeInv, NEW ch, cur \in Files, NEW at, SafeIn(vol, entry, cur, fp, at, ch),
         NEW r, r.v \in Volumes, NEW t, Landed(r, ch[cur], t), NEW g, NEW au,
         Grip(r.v, g, t, au), Firm(g.o, t) = Firm(Named(r.o, r.ret), t)
  PROVE  Safe(r.v, entry, cur, g, au)
<1>1. /\ vol \in Volumes /\ entry \in [Files -> Entries \cup {NoEntry}]
  BY OpenFile DEF Proper
<1>2. /\ Firm(fp.o, ch[cur]) \subseteq Firm(g.o, t) /\ Rerouted(vol, r.v, Firm(g.o, t))
      /\ Moves(vol, r.v, ch[cur], t)
  BY DEF Landed, Carries
<1> QED
  BY <1>1, <1>2, OpenStep

LEMMA SafeWriteStep ==
  ASSUME FatTypeInv, FatSafe, WriteStep
  PROVE  FatSafe'
<1> SUFFICES ASSUME ~loose'
             PROVE  Safe(vol', entry', cur', fp', pc')
  BY DEF FatSafe
<1>1. /\ Proper /\ Edged /\ Calling /\ vol \in Volumes /\ fp \in Fils /\ fp.o \in Objects
      /\ entry \in [Files -> Entries \cup {NoEntry}]
  BY OpenFile DEF Proper
<1>2. /\ pc = "write" /\ UNCHANGED <<entry, cur, loose>>
  BY DEF WriteStep
<1>3. cur \in Files /\ ~fp.err
  BY <1>1, <1>2 DEF Calling
<1>4. PICK ch : SafeIn(vol, entry, cur, fp, pc, ch)
  BY <1>2, SafeOpen
<1> DEFINE s == ch[cur]
<1>5. s \in Seq(Clst) /\ Grip(vol, fp, s, pc) /\ Taken(vol, s) /\ Len(s) \in Nat
  BY <1>3, <1>4, SafeHeld
<1>6. PICK r \in Targets :
        \/ r.ret = FULL /\ Takes(r) /\ fp' = [fp EXCEPT !.o = r.o, !.modified = TRUE] /\ pc' = "idle"
        \/ r.ret \notin Clst \cup {FULL} /\ Takes(r) /\ Abort(r.o, Result(r.ret))
        \/ r.ret \in Clst /\ Takes(r) /\ Moved([fp EXCEPT !.o = Named(r.o, r.ret), !.clust = r.ret], Share)
        \/ /\ r.ret \in Clst /\ vol' = r.v /\ pc' = "idle"
           /\ fp' = [fp EXCEPT !.o = Named(r.o, r.ret), !.clust = r.ret, !.err = TRUE]
  BY DEF WriteStep, Targets, Named
<1>7. r.v \in Volumes /\ r.o \in Objects /\ r.o.size = fp.o.size
  BY <1>1, TargetsType
<1>8. IF r.ret \in Clst THEN \E t : Landed(r, s, t) ELSE Missed(r, s)
  BY <1>2, <1>3, <1>5, TargetsSafe
<1>9. CASE r.ret = FULL /\ Takes(r) /\ fp' = [fp EXCEPT !.o = r.o, !.modified = TRUE] /\ pc' = "idle"
  <2>1. r.v = vol /\ r.o = fp.o
    <3>1. FULL \notin Clst /\ FULL # DISK
      BY FatAssumption DEF Clst, DISK
    <3> QED
      BY <1>8, <1>9, <3>1 DEF Missed
  <2>2. vol' = vol /\ fp'.o = fp.o /\ fp'.clust = fp.clust /\ fp'.fptr = fp.fptr /\ fp'.err = fp.err
    BY <1>1, <1>9, <2>1, TakesFields DEF Fils
  <2>3. Grip(vol, fp', s, pc')
    BY <1>2, <1>3, <1>5, <1>9, <2>2 DEF Grip, Resting, Adrift
  <2>4. Firm(fp.o, s) \subseteq Firm(fp'.o, s)
    BY <2>2
  <2> QED
    BY <1>1, <1>2, <1>3, <1>4, <2>2, <2>3, <2>4, OpenSame
<1>10. CASE r.ret \notin Clst \cup {FULL} /\ Takes(r) /\ Abort(r.o, Result(r.ret))
  <2>1. vol' = r.v /\ fp'.o = r.o /\ fp'.clust = fp.clust /\ fp'.err = TRUE
    BY <1>1, <1>7, <1>10, TakesFields, AbortFields
  <2>2. Missed(r, s)
    BY <1>8, <1>10
  <2> QED
    BY <1>2, <1>3, <1>4, <1>7, <2>1, <2>2, SafeMissed
<1>11. CASE r.ret \in Clst /\ Takes(r) /\ Moved([fp EXCEPT !.o = Named(r.o, r.ret), !.clust = r.ret], Share)
  <2> DEFINE f == [fp EXCEPT !.o = Named(r.o, r.ret), !.clust = r.ret]
  <2>1. PICK t : Landed(r, s, t)
    BY <1>8, <1>11
  <2>2. /\ f \in Fils /\ f.o = Named(r.o, r.ret) /\ f.clust = r.ret /\ f.fptr = fp.fptr /\ f.err = fp.err
    <3> DEFINE p == Named(r.o, r.ret)
    <3>1. p \in Objects /\ r.ret \in {0, EOC} \cup Clst
      BY <1>7, <1>11, NamedType
    <3> HIDE DEF p
    <3> DEFINE h == [fp EXCEPT !.o = p, !.clust = r.ret]
    <3>2. h \in Fils /\ h.o = p /\ h.clust = r.ret /\ h.fptr = fp.fptr /\ h.err = fp.err
      BY <1>1, <3>1 DEF Fils
    <3> QED
      BY <3>2 DEF p
  <2>3. vol' = r.v /\ Moved(f, Share)
    BY <1>1, <1>11, TakesFields
  <2> HIDE DEF f, s
  <2>4. /\ f.o.size = fp.o.size /\ t \in Seq(Clst) /\ Shape(r.v, f.o, t) /\ f.clust = t[StepTo]
        /\ StepTo \in 1 .. Len(t)
        /\ f.o.n_frag > 0 => f.clust = t[Len(t)]
        /\ f.o.stat = 2 => Count(fp.o.size) <= Len(t) /\ (Count(fp.o.size) < Len(t) => Len(t) = StepTo)
    BY <2>1, <2>2 DEF Landed, Moves
  <2>5. StepTo <= Len(t)
    BY <2>4
  <2>6. Grip(r.v, fp', t, pc') /\ Firm(fp'.o, t) = Firm(f.o, t)
    BY <1>2, <1>3, <2>2, <2>3, <2>4, <2>5, MovedGrip
  <2> QED
    BY <1>2, <1>3, <1>4, <1>7, <2>1, <2>2, <2>3, <2>6, SafeLanded DEF s
<1>12. CASE /\ r.ret \in Clst /\ vol' = r.v /\ pc' = "idle"
            /\ fp' = [fp EXCEPT !.o = Named(r.o, r.ret), !.clust = r.ret, !.err = TRUE]
  <2>1. PICK t : Landed(r, s, t)
    BY <1>8, <1>12
  <2>2. fp'.o = Named(r.o, r.ret) /\ fp'.clust = r.ret /\ fp'.err = TRUE
    BY <1>1, <1>12 DEF Fils
  <2>3. /\ Shape(r.v, fp'.o, t) /\ fp'.o.size = fp.o.size /\ StepTo \in 1 .. Len(t)
        /\ fp'.o.n_frag > 0 => fp'.clust = t[Len(t)]
        /\ fp'.o.stat = 2 => Count(fp.o.size) <= Len(t)
    BY <2>1, <2>2 DEF Landed
  <2>4. Roomy(fp'.o, t) /\ Broken(r.v, fp'.o, t)
    <3>1. Len(t) # 0
      BY <2>3
    <3> QED
      BY <2>3, <3>1 DEF Roomy, Broken
  <2>5. Grip(r.v, fp', t, pc')
    BY <2>2, <2>3, <2>4 DEF Grip
  <2> QED
    BY <1>2, <1>3, <1>4, <1>7, <1>12, <2>1, <2>2, <2>5, SafeLanded
<1> QED
  BY <1>6, <1>9, <1>10, <1>11, <1>12

-----------------------------------------------------------------------------
\* f_lseek: the start of a seek

\* fill_last_frag, on which f_lseek may stop
LEMMA EdgeOnFat ==
  ASSUME FatTypeInv, ~fp.err, NEW s, s \in Seq(Clst), Taken(vol, s), Grip(vol, fp, s, "idle"),
         NEW r \in FlushedEdge
  PROVE  /\ r.v \in Volumes /\ r.o \in Objects /\ Plain(r.v, r.o) /\ Shape(r.v, r.o, s)
         /\ Moves(vol, r.v, s, s) /\ Rerouted(vol, r.v, Firm(fp.o, s))
         /\ r.o.sclust = fp.o.sclust /\ r.o.size = fp.o.size
         /\ r.o.stat = fp.o.stat /\ r.o.n_cont = fp.o.n_cont
         /\ r.o.n_frag <= fp.o.n_frag /\ (r.ret = OK => r.o.n_frag = 0)
<1>1. /\ Proper /\ Edged /\ vol \in Volumes /\ fp.o \in Objects /\ Plain(vol, fp.o)
  BY OpenFile
<1>2. /\ r.v \in Volumes /\ r.o \in Objects /\ Plain(r.v, r.o)
      /\ r.o.sclust = fp.o.sclust /\ r.o.size = fp.o.size /\ (r.ret = OK => r.o.n_frag = 0)
  BY <1>1, FlushedEdgeType
<1>3. Shape(vol, fp.o, s) /\ (fp.o.n_frag > 0 => fp.clust = s[Len(s)])
  BY DEF Grip
<1>4. CASE vol.type = "exfat"
  <2>1. r \in FillLast(vol, fp.o, fp.clust, EOC)
    BY <1>4 DEF FlushedEdge
  <2>2. fp.clust \in 0 .. EOC
    BY <1>1, CurIn
  <2>3. Flushed(vol, r, fp.o, s)
    BY <1>1, <1>3, <1>4, <2>1, <2>2, FlushPartly
  <2>4. Moves(vol, r.v, s, s)
    BY <2>3, PatchedMoves DEF Flushed
  <2> QED
    BY <1>2, <2>3, <2>4 DEF Flushed
<1>5. CASE vol.type # "exfat"
  <2>1. r.v = vol /\ r.o = fp.o
    BY <1>5, OutcomeFields DEF FlushedEdge
  <2>2. Rerouted(vol, vol, Firm(fp.o, s))
    BY DEF Rerouted
  <2>3. Moves(vol, vol, s, s)
    BY MovesNot
  <2>4. fp.o.n_frag <= fp.o.n_frag
    BY <1>1 DEF Objects
  <2> QED
    BY <1>2, <1>3, <2>1, <2>2, <2>3, <2>4
<1> QED
  BY <1>4, <1>5

\* The FIL object once the growing edge is on the FAT, or some of it
SeekGrip(r, s, g, au) ==
  /\ g.o = r.o /\ ~g.err
  /\ IF au = "seek" THEN r.ret = OK /\ Crossing(g, s)
     ELSE Resting(g, s) /\ (g.clust = fp.clust \/ r.ret = OK)

LEMMA SafeFlushed ==
  ASSUME FatTypeInv, cur \in Files, ~fp.err, NEW ch, SafeIn(vol, entry, cur, fp, "idle", ch),
         NEW r \in FlushedEdge, NEW g, NEW au, SeekGrip(r, ch[cur], g, au)
  PROVE  Safe(r.v, entry, cur, g, au)
<1> DEFINE s == ch[cur]
<1>1. /\ vol \in Volumes /\ fp.o \in Objects /\ entry \in [Files -> Entries \cup {NoEntry}]
  BY OpenFile DEF Proper
<1>2. s \in Seq(Clst) /\ Grip(vol, fp, s, "idle") /\ Taken(vol, s)
  BY SafeHeld
<1>3. /\ r.v \in Volumes /\ r.o \in Objects /\ Shape(r.v, r.o, s)
      /\ Moves(vol, r.v, s, s) /\ Rerouted(vol, r.v, Firm(fp.o, s))
      /\ r.o.stat = fp.o.stat /\ r.o.n_cont = fp.o.n_cont
      /\ r.o.n_frag <= fp.o.n_frag /\ (r.ret = OK => r.o.n_frag = 0)
  BY <1>2, EdgeOnFat
<1>4. fp.o.n_frag > 0 => fp.clust = s[Len(s)]
  BY <1>2 DEF Grip
<1>5. g.o.n_frag > 0 => g.clust = s[Len(s)]
  <2>1. g.o.n_frag \in Nat /\ fp.o.n_frag \in Nat
    BY <1>1, <1>3, FatAssumption DEF SeekGrip, Objects
  <2> QED
    BY <1>3, <1>4, <2>1 DEF SeekGrip
<1>6. Grip(r.v, g, s, au)
  BY <1>3, <1>5 DEF Grip, SeekGrip
<1>7. Firm(g.o, s) = Firm(fp.o, s)
  BY <1>3 DEF SeekGrip, Firm, First
<1> QED
  BY <1>1, <1>3, <1>6, <1>7, OpenStep

\* Where the seek starts from
LEMMA CrossingHere ==
  ASSUME NEW f \in Fils, NEW s \in Seq(Clst), Resting(f, s), f.fptr > 0, NEW g,
         g.clust = f.clust, g.fptr = ClusterBase(f.fptr), g.o.size = f.o.size,
         g.o.stat = f.o.stat, g.o.n_frag = 0
  PROVE  Crossing(g, s)
<1>1. f.fptr \in Nat /\ f.o.size \in Nat /\ Len(s) \in Nat
  BY FileAssumption, SeqFacts DEF Fils, Objects
<1> DEFINE k == Count(f.fptr) - 1
<1>2. (f.fptr - 1) \div CSize = k /\ Count(f.fptr) \in Nat /\ Count(f.fptr) # 0
  <2> DEFINE n == f.fptr
  <2>1. n \in Nat /\ n > 0 /\ n # 0
    BY <1>1
  <2> HIDE DEF n
  <2>2. (n - 1) \div CSize = Count(n) - 1
    BY <2>1, CountBefore
  <2>3. Count(n) \in Nat /\ Count(n) # 0
    BY <2>1, CountBounds
  <2> QED
    BY <2>2, <2>3 DEF n
<1>3. k \in Nat /\ k + 1 = Count(f.fptr)
  BY <1>2
<1>4. g.fptr = CSize * k
  BY <1>2 DEF ClusterBase
<1>5. f.o.size # 0 /\ f.fptr <= f.o.size /\ Sized(f.o, s)
  BY <1>1 DEF Resting
<1>6. Len(s) > 0
  BY <1>1, <1>5 DEF Sized
<1>7. g.o.stat = 2 => Len(s) = Count(g.o.size)
  BY <1>5 DEF Sized
<1>8. Adrift(f, s) \/ (Count(f.fptr) <= Len(s) /\ f.clust = s[Count(f.fptr)])
  BY DEF Resting
<1>9. Adrift(g, s) \/ (k + 1 <= Len(s) /\ g.clust = s[k + 1])
  <2>1. CASE Adrift(f, s)
    BY <2>1 DEF Adrift
  <2>2. CASE Count(f.fptr) <= Len(s) /\ f.clust = s[Count(f.fptr)]
    BY <1>3, <2>2
  <2> QED
    BY <1>8, <2>1, <2>2
<1>10. g.o.stat = 3 => g.o.size # 0
  BY <1>5
<1> HIDE DEF k
<1>11. CrossingAt(g, s, k)
  <2>1. g.o.stat = 2 => Count(g.o.size) <= Len(s) /\ (Count(g.o.size) < Len(s) => Len(s) = k + 1)
    BY <1>1, <1>7
  <2> QED
    BY <1>4, <1>6, <1>9, <1>10, <2>1 DEF CrossingAt
<1> QED
  BY <1>3, <1>11 DEF Crossing

LEMMA CrossingStart ==
  ASSUME NEW s \in Seq(Clst), Len(s) > 0, NEW g, g.o.size \in Nat, Sized(g.o, s),
         g.clust = s[1], g.fptr = 0
  PROVE  Crossing(g, s)
<1>1. Len(s) \in Nat /\ CSize * 0 = 0 /\ 0 + 1 <= Len(s) /\ 0 + 1 = 1 /\ 1 <= Len(s)
  <2>1. Len(s) \in Nat
    BY SeqFacts
  <2> QED
    BY <2>1, FatAssumption
<1>2. g.o.stat = 2 => Count(g.o.size) <= Len(s) /\ (Count(g.o.size) < Len(s) => Len(s) = 1)
  <2> SUFFICES ASSUME g.o.stat = 2
               PROVE  Count(g.o.size) <= Len(s) /\ (Count(g.o.size) < Len(s) => Len(s) = 1)
    OBVIOUS
  <2> DEFINE m == 1
  <2>1. m \in Nat /\ m >= 1 /\ m <= Len(s)
    BY <1>1
  <2> HIDE DEF m
  <2>2. Count(g.o.size) <= Len(s) /\ (Count(g.o.size) < Len(s) => Len(s) = m)
    BY <1>1, <2>1, SizedCounts
  <2> QED
    BY <2>2 DEF m
<1>3. CrossingAt(g, s, 0)
  BY <1>1, <1>2 DEF CrossingAt, Sized
<1> QED
  BY <1>3 DEF Crossing

\* A seek in a file that has no cluster yet, from v on
LEMMA SafeSeekNew ==
  ASSUME FatTypeInv, cur \in Files, ~fp.err, pc = "idle",
         NEW v \in Volumes, NEW o \in Objects, Plain(v, o), o.n_frag = 0, o.sclust = 0,
         Safe(v, entry, cur, [fp EXCEPT !.o = o], "idle"),
         NEW n \in CreateChain(v, o, 0), NEW rest,
         IF n.ret \in Clst
         THEN SeekStarts([fp EXCEPT !.o = [n.o EXCEPT !.sclust = n.ret],
                                    !.fptr = 0, !.clust = n.ret], rest)
         ELSE /\ fp' = [fp EXCEPT !.o = n.o, !.fptr = 0,
                                  !.clust = IF n.ret = FULL THEN 0 ELSE @,
                                  !.err = n.ret # FULL]
              /\ UNCHANGED pc
  PROVE  Safe(n.v, entry, cur, fp', pc')
<1> DEFINE f == [fp EXCEPT !.o = o]
<1>1. fp \in Fils /\ entry \in [Files -> Entries \cup {NoEntry}]
  BY OpenFile DEF Proper
<1>2. f.o = o /\ f.err = fp.err
  BY <1>1 DEF Fils
<1>3. PICK ch : SafeIn(v, entry, cur, f, "idle", ch)
  BY DEF Safe
<1> DEFINE s == ch[cur]
<1> HIDE DEF f
<1>4. s \in Seq(Clst) /\ Grip(v, f, s, "idle") /\ Taken(v, s) /\ Len(s) \in Nat
  BY <1>3, SafeHeld
<1> HIDE DEF s
<1>5. Shape(v, o, s) /\ Sized(o, s)
  BY <1>2, <1>4 DEF Grip, Resting
<1>6. Len(s) = 0 /\ o.size = 0 /\ LastOf(s) = 0
  <2>1. Len(s) = 0
    BY <1>4, <1>5, ShapeFields
  <2> QED
    BY <1>5, <2>1 DEF Sized, LastOf
<1>7. Grown(v, o, s, n)
  BY <1>4, <1>5, <1>6, CreateGrown
<1>8. n.v \in Volumes /\ n.o \in Objects /\ n.o.sclust = 0 /\ n.o.size = 0 /\ n.o.n_frag = 0
  <2>1. Fits(o, 0)
    BY DEF Fits
  <2> QED
    BY <1>6, <2>1, CreateChainType
<1>9. DISK \notin Clst /\ FULL # DISK /\ Count(0) = 0
  BY FatAssumption, CountBounds DEF Clst, DISK
<1>10. CASE n.ret \in Clst
  <2> DEFINE t == Append(s, n.ret)
             p == Named(n.o, n.ret)
  <2>1. Longer(v, n.v, n.o, s, n.ret) /\ Carries(v, n.v, o, p, s, t)
    BY <1>7, <1>9, <1>10 DEF Grown
  <2>2. /\ p = [n.o EXCEPT !.sclust = n.ret] /\ p \in Objects /\ p.size = 0 /\ p.n_frag = 0
    BY <1>8, <1>10, NamedType DEF Named
  <2>3. fp'.o = p /\ fp'.fptr = 0 /\ fp'.clust = n.ret /\ fp'.err = fp.err /\ pc' = "seek"
    BY <1>1, <1>10, <2>2 DEF SeekStarts, Fils
  <2>4. t \in Seq(Clst) /\ Len(t) = 1 /\ t[1] = n.ret /\ Shape(n.v, p, t)
    <3>1. n.ret \notin Range(s) /\ Injective(s)
      BY <1>5, <2>1 DEF Longer, Shape
    <3>2. t \in Seq(Clst) /\ Len(t) = Len(s) + 1 /\ t[Len(s) + 1] = n.ret
      BY <1>4, <1>10, <3>1, AppendIs
    <3> QED
      BY <1>6, <2>1, <3>2 DEF Longer
  <2> HIDE DEF p, t
  <2>5. p.stat # 3
    <3>1. p.n_cont \in Nat /\ (p.stat = 3 => p.n_cont + 1 < Len(t))
      BY <2>2, <2>4, ShapeFields
    <3> QED
      BY <2>4, <3>1
  <2>6. Sized(p, t)
    BY <1>9, <2>2, <2>4, <2>5 DEF Sized
  <2>7. Crossing(fp', t)
    <3>1. fp'.o.size \in Nat /\ Sized(fp'.o, t) /\ Len(t) > 0
      BY <2>2, <2>3, <2>4, <2>6
    <3> QED
      BY <2>3, <2>4, <3>1, CrossingStart
  <2>8. Grip(n.v, fp', t, pc')
    BY <2>2, <2>3, <2>4, <2>7 DEF Grip
  <2>9. Moves(v, n.v, s, t)
    BY <2>1, <2>4, RechainedMoves DEF Longer, t
  <2>10. Firm(f.o, s) \subseteq Firm(fp'.o, t) /\ Rerouted(v, n.v, Firm(fp'.o, t))
    BY <1>2, <2>1, <2>3 DEF Carries
  <2> QED
    BY <1>1, <1>3, <1>8, <2>8, <2>9, <2>10, OpenStep DEF s
<1>11. CASE n.ret \notin Clst
  <2>1. /\ fp'.o = n.o /\ fp'.fptr = 0 /\ fp'.err = (n.ret # FULL) /\ pc' = "idle"
    BY <1>1, <1>11 DEF Fils
  <2>2. CASE n.v = v /\ n.o = o
    <3>1. Resting(fp', s) /\ Roomy(fp'.o, s)
      <4>1. Sized(fp'.o, s)
        BY <1>5, <2>1, <2>2
      <4>2. Roomy(fp'.o, s)
        BY <1>4, <1>8, <2>1, <4>1, RestingRoomy
      <4> QED
        BY <1>6, <2>1, <2>2, <4>1, <4>2 DEF Resting
    <3>2. Grip(n.v, fp', s, pc')
      BY <1>5, <2>1, <2>2, <3>1 DEF Grip, Broken
    <3>3. Firm(f.o, s) \subseteq Firm(fp'.o, s)
      BY <1>2, <2>1, <2>2
    <3> QED
      BY <1>1, <1>3, <1>8, <2>2, <3>2, <3>3, OpenSame DEF s
  <2>3. CASE /\ n.ret = DISK /\ Broken(n.v, n.o, s) /\ Moves(v, n.v, s, s)
             /\ Carries(v, n.v, o, n.o, s, s)
    <3>1. fp'.err
      BY <1>9, <2>1, <2>3
    <3>2. Roomy(fp'.o, s)
      BY <1>6, <1>8, <1>9, <2>1 DEF Roomy
    <3>3. Grip(n.v, fp', s, pc')
      BY <1>8, <2>1, <2>3, <3>1, <3>2 DEF Grip
    <3>4. Firm(f.o, s) \subseteq Firm(fp'.o, s) /\ Rerouted(v, n.v, Firm(fp'.o, s))
      BY <1>2, <2>1, <2>3 DEF Carries
    <3> QED
      BY <1>1, <1>3, <1>8, <2>3, <3>3, <3>4, OpenStep DEF s
  <2> QED
    BY <1>7, <1>11, <2>2, <2>3 DEF Grown
<1> QED
  BY <1>10, <1>11

LEMMA SafeSeek ==
  ASSUME FatTypeInv, FatSafe, Seek
  PROVE  FatSafe'
<1> SUFFICES ASSUME ~loose'
             PROVE  Safe(vol', entry', cur', fp', pc')
  BY DEF FatSafe
<1>1. /\ Proper /\ vol \in Volumes /\ fp \in Fils /\ fp.o \in Objects
      /\ fp.fptr \in Nat /\ fp.o.size \in Nat
  BY OpenFile, LoadedCur, FileAssumption
<1>2. /\ pc = "idle" /\ cur # NoFile /\ ~fp.err /\ UNCHANGED <<entry, cur, loose>>
  BY DEF Seek, Valid
<1>3. cur \in Files
  BY <1>1, <1>2 DEF Proper
<1>4. PICK ch : SafeIn(vol, entry, cur, fp, pc, ch)
  BY <1>2, SafeOpen
<1> DEFINE s == ch[cur]
<1>5. s \in Seq(Clst) /\ Grip(vol, fp, s, pc) /\ Taken(vol, s) /\ Len(s) \in Nat
  BY <1>3, <1>4, SafeHeld
<1>6. Shape(vol, fp.o, s) /\ Resting(fp, s) /\ Sized(fp.o, s)
  BY <1>2, <1>5 DEF Grip, Resting
<1>7. PICK asked \in Offsets, r \in FlushedEdge : SeekCase(asked, r)
  BY SeekCases
<1>8. /\ r.v \in Volumes /\ r.o \in Objects /\ Plain(r.v, r.o) /\ Shape(r.v, r.o, s)
      /\ r.o.sclust = fp.o.sclust /\ r.o.size = fp.o.size
      /\ r.o.stat = fp.o.stat /\ r.o.n_cont = fp.o.n_cont
      /\ r.o.n_frag <= fp.o.n_frag /\ (r.ret = OK => r.o.n_frag = 0)
  BY <1>2, <1>5, EdgeOnFat
<1>9. r.o.n_frag \in Nat /\ fp.o.n_frag \in Nat /\ Sized(r.o, s)
  BY <1>1, <1>6, <1>8, FatAssumption DEF Sized, Objects
<1> DEFINE ofs == SeekOfs(asked)
<1> HIDE DEF ofs, s
<1>10. ASSUME NEW g, NEW au, SeekGrip(r, s, g, au)
       PROVE  Safe(r.v, entry, cur, g, au)
  BY <1>2, <1>3, <1>4, <1>10, SafeFlushed DEF s
<1>11. ASSUME NEW g, g.clust = fp.clust, g.fptr = fp.fptr, g.o = r.o, g.err = fp.err
       PROVE  Safe(r.v, entry, cur, g, "idle")
  <2>1. Adrift(fp, s) => Adrift(g, s)
    BY <1>8, <1>9, <1>11 DEF Adrift
  <2>2. Resting(g, s)
    BY <1>6, <1>8, <1>9, <1>11, <2>1 DEF Resting
  <2>3. SeekGrip(r, s, g, "idle")
    BY <1>2, <1>11, <2>2 DEF SeekGrip
  <2> QED
    BY <1>10, <2>3
<1>12. CASE r.ret = DISK /\ Takes(r) /\ fp' = [fp EXCEPT !.o = r.o] /\ UNCHANGED pc
  <2>1. vol' = r.v
    BY <1>1, <1>12, TakesFields
  <2>2. fp'.clust = fp.clust /\ fp'.fptr = fp.fptr /\ fp'.o = r.o /\ fp'.err = fp.err
    BY <1>1, <1>12 DEF Fils
  <2> QED
    BY <1>2, <1>11, <1>12, <2>1, <2>2
<1>13. CASE r.ret = OK /\ Takes(r) /\ fp' = [fp EXCEPT !.o = r.o, !.fptr = 0] /\ UNCHANGED pc
  <2>1. vol' = r.v
    BY <1>1, <1>13, TakesFields
  <2>2. fp'.fptr = 0 /\ fp'.o = r.o /\ fp'.err = fp.err
    BY <1>1, <1>13 DEF Fils
  <2>3. Resting(fp', s)
    BY <1>1, <1>8, <1>9, <2>2 DEF Resting
  <2>4. SeekGrip(r, s, fp', pc')
    BY <1>2, <1>13, <2>2, <2>3 DEF SeekGrip
  <2> QED
    BY <1>2, <1>10, <2>1, <2>4
<1>14. CASE /\ r.ret = OK /\ SeekHere(ofs) /\ Takes(r)
            /\ SeekStarts([fp EXCEPT !.o = r.o, !.fptr = ClusterBase(fp.fptr)],
                          ofs - ClusterBase(fp.fptr))
  <2>1. vol' = r.v
    BY <1>1, <1>14, TakesFields
  <2>2. /\ fp'.fptr = ClusterBase(fp.fptr) /\ fp'.o = r.o /\ fp'.err = fp.err
        /\ fp'.clust = fp.clust /\ pc' = "seek"
    BY <1>1, <1>14 DEF Fils, SeekStarts
  <2>3. Crossing(fp', s)
    <3>1. fp.fptr > 0
      BY <1>14 DEF SeekHere
    <3> QED
      BY <1>1, <1>5, <1>6, <1>8, <1>14, <2>2, <3>1, CrossingHere
  <2>4. SeekGrip(r, s, fp', pc')
    BY <1>2, <1>14, <2>2, <2>3 DEF SeekGrip
  <2> QED
    BY <1>2, <1>10, <2>1, <2>4
<1>15. CASE /\ r.ret = OK /\ r.o.sclust # 0 /\ Takes(r)
            /\ SeekStarts([fp EXCEPT !.o = r.o, !.fptr = 0, !.clust = r.o.sclust], ofs)
  <2>1. vol' = r.v
    BY <1>1, <1>15, TakesFields
  <2>2. /\ fp'.fptr = 0 /\ fp'.o = r.o /\ fp'.err = fp.err
        /\ fp'.clust = r.o.sclust /\ pc' = "seek"
    BY <1>1, <1>15 DEF Fils, SeekStarts
  <2>3. Len(s) > 0 /\ r.o.sclust = s[1]
    <3>1. (Len(s) > 0 => r.o.sclust = s[1]) /\ (Len(s) = 0 => r.o.sclust = 0)
      BY <1>8, ShapeFields
    <3> QED
      BY <1>5, <1>15, <3>1
  <2>4. Crossing(fp', s)
    BY <1>1, <1>5, <1>8, <1>9, <2>2, <2>3, CrossingStart
  <2>5. SeekGrip(r, s, fp', pc')
    BY <1>2, <1>15, <2>2, <2>4 DEF SeekGrip
  <2> QED
    BY <1>2, <1>10, <2>1, <2>5
<1>16. CASE /\ r.ret = OK /\ r.o.sclust = 0
            /\ \E n \in CreateChain(r.v, r.o, 0) :
                 /\ Takes(n)
                 /\ IF n.ret \in Clst
                    THEN SeekStarts([fp EXCEPT !.o = [n.o EXCEPT !.sclust = n.ret],
                                               !.fptr = 0, !.clust = n.ret], ofs)
                    ELSE /\ fp' = [fp EXCEPT !.o = n.o, !.fptr = 0,
                                             !.clust = IF n.ret = FULL THEN 0 ELSE @,
                                             !.err = n.ret # FULL]
                         /\ UNCHANGED pc
  <2>1. Safe(r.v, entry, cur, [fp EXCEPT !.o = r.o], "idle")
    <3> DEFINE g == [fp EXCEPT !.o = r.o]
    <3>1. g.clust = fp.clust /\ g.fptr = fp.fptr /\ g.o = r.o /\ g.err = fp.err
      BY <1>1 DEF Fils
    <3> HIDE DEF g
    <3>2. Safe(r.v, entry, cur, g, "idle")
      BY <1>11, <3>1
    <3> QED
      BY <3>2 DEF g
  <2>2. PICK n \in CreateChain(r.v, r.o, 0) :
          /\ Takes(n)
          /\ IF n.ret \in Clst
             THEN SeekStarts([fp EXCEPT !.o = [n.o EXCEPT !.sclust = n.ret],
                                        !.fptr = 0, !.clust = n.ret], ofs)
             ELSE /\ fp' = [fp EXCEPT !.o = n.o, !.fptr = 0,
                                      !.clust = IF n.ret = FULL THEN 0 ELSE @,
                                      !.err = n.ret # FULL]
                  /\ UNCHANGED pc
    BY <1>16
  <2>3. vol' = n.v
    BY <1>1, <2>2, TakesFields
  <2>4. Safe(n.v, entry, cur, fp', pc')
    BY <1>2, <1>3, <1>8, <1>16, <2>1, <2>2, SafeSeekNew
  <2> QED
    BY <1>2, <2>3, <2>4
<1> QED
  BY <1>7, <1>12, <1>13, <1>14, <1>15, <1>16 DEF SeekCase, ofs

-----------------------------------------------------------------------------
\* f_lseek: one cluster further

\* What f_lseek finds behind the cluster s[k + 1], or gets there
SeekNext(r, o, s, k) ==
  \/ /\ r.v = vol /\ r.o = o /\ k + 2 <= Len(s) /\ r.ret = s[k + 2]
     /\ o.n_frag = 0 /\ (o.stat = 2 => Count(o.size) = Len(s))
  \/ /\ r.v = vol /\ r.o = o /\ r.ret \notin Clst /\ Roomy(o, s)
     /\ fp.write /\ r.ret = FULL => k + 1 = Len(s) /\ fp.clust = s[Len(s)] /\ Whole(o, s)
  \/ /\ r.ret \in Clst /\ Longer(vol, r.v, r.o, s, r.ret)
     /\ Carries(vol, r.v, o, Named(r.o, r.ret), s, Append(s, r.ret))
     /\ fp.write /\ k + 1 = Len(s) /\ Whole(o, s)
  \/ /\ r.ret = DISK /\ Broken(r.v, r.o, s) /\ Moves(vol, r.v, s, s)
     /\ Carries(vol, r.v, o, r.o, s, s)
     /\ k + 1 = Len(s) /\ fp.clust = s[Len(s)] /\ Whole(o, s)

\* A contiguous file that was given a cluster ahead of its size ends there.
LEMMA BeyondSize ==
  ASSUME NEW v \in Volumes, NEW o \in Objects, Plain(v, o), NEW s, Shape(v, o, s),
         NEW i \in 1 .. Len(s), o.stat = 2, Count(o.size) < i
  PROVE  GetFat(v, o, s[i]) \notin Clst
<1>1. v.type = "exfat"
  BY DEF Plain, Volumes
<1>2. INT_ERR \notin Clst
  BY DEF INT_ERR, Clst
<1>3. o.size \in Nat /\ Count(o.size) \in Nat
  BY FileAssumption, CountBounds DEF Objects
<1>4. s[i] = o.sclust + (i - 1) /\ s[i] \in Clst /\ s[i] \in Nat /\ o.sclust \in Nat /\ i \in Nat
  <2>1. /\ Len(s) \in Nat /\ (\A j \in 1 .. Len(s) : s[j] \in Clst /\ s[j] \in Nat)
        /\ (Len(s) > 0 => o.sclust = s[1])
    BY ShapeFields
  <2>2. Run(s, 1, Len(s))
    BY DEF Shape
  <2>3. Len(s) > 0 /\ 1 \in 1 .. Len(s) /\ i \in Nat
    BY <2>1
  <2> QED
    BY <2>1, <2>2, <2>3 DEF Run
<1>5. CASE o.size = 0
  <2>1. GetFat(v, o, s[i]) = INT_ERR
    BY <1>1, <1>4, <1>5 DEF GetFat
  <2> QED
    BY <1>2, <2>1
<1>6. CASE o.size # 0
  <2>1. (o.size - 1) \div CSize = Count(o.size) - 1
    BY <1>3, <1>6, CountBefore
  <2>2. ~(s[i] - o.sclust <= (o.size - 1) \div CSize)
    BY <1>3, <1>4, <2>1
  <2>3. GetFat(v, o, s[i]) = INT_ERR
    BY <1>1, <2>2 DEF GetFat
  <2> QED
    BY <1>2, <2>3
<1> QED
  BY <1>5, <1>6

\* The file object of a seek, with its size stretched or not
LEMMA StretchedShape ==
  ASSUME FatTypeInv, pc = "seek", left > CSize, NEW s, Shape(vol, fp.o, s),
         NEW k \in Nat, CrossingAt(fp, s, k)
  PROVE  LET at == fp.fptr + CSize
             o  == StretchedTo(at)
         IN  /\ at \in 0 .. MaxSize /\ at = CSize * (k + 1) /\ at > 0 /\ Count(at) = k + 1
             /\ o \in Objects /\ Plain(vol, o) /\ o.sclust = fp.o.sclust /\ o.stat = fp.o.stat
             /\ o.n_cont = fp.o.n_cont /\ o.n_frag = fp.o.n_frag
             /\ o.size = (IF fp.write /\ at > fp.o.size THEN at ELSE fp.o.size) /\ o.size \in Nat
             /\ o.stat = 3 => o.size # 0
             /\ Shape(vol, o, s) /\ Firm(o, s) = Firm(fp.o, s)
             /\ Len(s) \in Nat /\ Len(s) > 0 /\ fp.o.sclust # 0
<1> DEFINE at == fp.fptr + CSize
           o  == StretchedTo(at)
<1>1. /\ Proper /\ Calling /\ vol \in Volumes /\ fp.o \in Objects /\ Plain(vol, fp.o)
      /\ fp.o.size \in Nat
  BY OpenFile
<1>2. /\ fp.fptr \in Nat /\ left \in Nat /\ MaxSize \in Nat /\ CSize \in Nat \ {0}
      /\ fp.fptr + left <= MaxSize
  <2>1. left \in 0 .. MaxSize /\ fp.fptr \in 0 .. MaxSize /\ MaxSize \in Nat /\ CSize \in Nat \ {0}
    BY <1>1, LoadedCur DEF Proper
  <2> QED
    BY <1>1, <2>1 DEF Calling
<1>3. at \in 0 .. MaxSize /\ at > 0
  BY <1>2
<1>4. at = CSize * (k + 1) /\ Count(at) = k + 1
  <2>1. fp.fptr = CSize * k
    BY DEF CrossingAt
  <2>2. CSize \in 1 .. CSize
    BY <1>2
  <2>3. CSize * (k + 1) = CSize * k + CSize /\ Count(CSize * k + CSize) = k + 1
    BY <2>2, CountWithin
  <2> QED
    BY <2>1, <2>3
<1> HIDE DEF at
<1>5. /\ o \in Objects /\ o.sclust = fp.o.sclust /\ o.stat = fp.o.stat
      /\ o.n_cont = fp.o.n_cont /\ o.n_frag = fp.o.n_frag
      /\ o.size = IF fp.write /\ at > fp.o.size THEN at ELSE fp.o.size
  BY <1>1, <1>3, StretchedToIs
<1> HIDE DEF o
<1>6. Shape(vol, o, s) /\ Plain(vol, o)
  BY <1>1, <1>5, ShapeSize DEF Plain
<1>7. Firm(o, s) = Firm(fp.o, s)
  BY <1>5 DEF Firm, First
<1>8. Len(s) \in Nat /\ Len(s) > 0 /\ fp.o.sclust # 0
  BY <1>1, ShapeFields DEF CrossingAt
<1>9. o.size \in Nat /\ (o.stat = 3 => o.size # 0)
  BY <1>1, <1>3, <1>5 DEF CrossingAt
<1> QED
  BY <1>3, <1>4, <1>5, <1>6, <1>7, <1>8, <1>9 DEF at, o

\* What the size counts, where the seek has come to
LEMMA CrossingWhole ==
  ASSUME NEW o, NEW s, Len(s) \in Nat, NEW z \in Nat, NEW at \in Nat, NEW k \in Nat,
         Count(at) = k + 1, k + 1 <= Len(s), o.stat = 3 => o.size # 0,
         o.stat = 2 => Count(z) <= Len(s) /\ (Count(z) < Len(s) => Len(s) = k + 1),
         NEW write \in BOOLEAN, o.size = IF write /\ at > z THEN at ELSE z
  PROVE  /\ write => Whole(o, s)
         /\ o.stat = 2 => Count(o.size) <= Len(s)
         /\ k + 1 < Len(s) => Whole(o, s)
         /\ Whole(o, s) \/ (o.stat = 2 /\ Count(o.size) < k + 1)
<1> DEFINE m == k + 1
<1>0. m \in Nat /\ m <= Len(s) /\ Count(at) = m
  OBVIOUS
<1>1. Count(z) \in Nat
  BY CountBounds
<1> HIDE DEF m
<1>2. CASE write
  <2>1. o.size = IF at > z THEN at ELSE z
    BY <1>2
  <2>2. o.stat = 2 => Count(IF at > z THEN at ELSE z) = Len(s)
    BY <1>0, SizeReached DEF m
  <2>3. o.stat = 2 => Len(s) = Count(o.size)
    BY <2>1, <2>2
  <2> QED
    BY <2>3 DEF Whole
<1>3. CASE ~write
  <2>1. o.size = z
    BY <1>3
  <2> QED
    BY <1>1, <1>3, <2>1 DEF Whole
<1> QED
  BY <1>2, <1>3

LEMMA SeekNextSafe ==
  ASSUME FatTypeInv, pc = "seek", left > CSize, ~fp.err, NEW s, s \in Seq(Clst), Taken(vol, s),
         Grip(vol, fp, s, pc), NEW k \in Nat, CrossingAt(fp, s, k),
         NEW o, o = StretchedTo(fp.fptr + CSize), NEW r \in NextTargets(o)
  PROVE  SeekNext(r, o, s, k)
<1>1. /\ Proper /\ vol \in Volumes /\ fp.o \in Objects /\ fp.o.size \in Nat /\ fp.write \in BOOLEAN
  BY OpenFile, LoadedCur
<1>2. Shape(vol, fp.o, s) /\ (fp.o.n_frag > 0 => fp.clust = s[Len(s)])
  BY DEF Grip
<1> DEFINE at == fp.fptr + CSize
<1>3. /\ at \in 0 .. MaxSize /\ at = CSize * (k + 1) /\ at > 0 /\ Count(at) = k + 1
      /\ o \in Objects /\ Plain(vol, o) /\ o.sclust = fp.o.sclust /\ o.stat = fp.o.stat
      /\ o.n_cont = fp.o.n_cont /\ o.n_frag = fp.o.n_frag
      /\ o.size = (IF fp.write /\ at > fp.o.size THEN at ELSE fp.o.size) /\ o.size \in Nat
      /\ o.stat = 3 => o.size # 0
      /\ Shape(vol, o, s) /\ Firm(o, s) = Firm(fp.o, s)
      /\ Len(s) \in Nat /\ Len(s) > 0 /\ fp.o.sclust # 0
  BY <1>2, StretchedShape
<1> HIDE DEF at
<1>4. EOC \notin Clst /\ INT_ERR \notin Clst /\ DISK \notin Clst /\ FULL # DISK /\ FULL # INT_ERR
  BY FatAssumption DEF EOC, INT_ERR, DISK, FULL, Clst
<1>5. CASE Adrift(fp, s)
  <2>1. o.stat = 0 /\ fp.clust = EOC
    BY <1>3, <1>5 DEF Adrift
  <2>2. Roomy(o, s)
    BY <1>3, <2>1 DEF Roomy
  <2>3. r.v = vol /\ r.o = o /\ r.ret \in {DISK, INT_ERR}
    <3>1. CASE fp.write
      <4>1. r \in CreateChain(vol, o, EOC)
        BY <2>1, <3>1 DEF NextTargets
      <4> QED
        BY <4>1, CreateAdrift
    <3>2. CASE ~fp.write
      <4>1. r = Outcome(vol, o, GetFat(vol, o, EOC)) \/ r = Stopped(vol, o)
        BY <2>1, <3>2 DEF NextTargets
      <4>2. GetFat(vol, o, EOC) = INT_ERR
        BY NextAdrift
      <4> QED
        BY <4>1, <4>2, OutcomeFields DEF Stopped
    <3> QED
      BY <3>1, <3>2
  <2> QED
    BY <1>4, <2>2, <2>3 DEF SeekNext
<1>6. CASE ~Adrift(fp, s)
  <2> DEFINE i == k + 1
  <2>1. /\ i \in 1 .. Len(s) /\ fp.clust = s[i] /\ i <= Len(s) /\ i + 1 = k + 2
    BY <1>3, <1>6 DEF CrossingAt
  <2>2. fp.o.stat = 2 => Count(fp.o.size) <= Len(s) /\ (Count(fp.o.size) < Len(s) => Len(s) = i)
    BY DEF CrossingAt
  <2>3. /\ fp.write => Whole(o, s)
        /\ o.stat = 2 => Count(o.size) <= Len(s)
        /\ i < Len(s) => Whole(o, s)
        /\ Whole(o, s) \/ (o.stat = 2 /\ Count(o.size) < i)
    <3>1. at \in Nat
      BY <1>3, FileAssumption
    <3> QED
      BY <1>1, <1>3, <2>1, <2>2, <3>1, CrossingWhole
  <2>4. o.n_frag \in Nat /\ (o.n_frag > 0 => i = Len(s))
    <3>1. o.n_frag \in Nat /\ Injective(s)
      BY <1>3, ShapeFields
    <3>2. o.n_frag > 0 => s[i] = s[Len(s)]
      BY <1>2, <1>3, <2>1
    <3> QED
      BY <1>3, <2>1, <3>1, <3>2 DEF Injective
  <2>5. Roomy(o, s)
    BY <1>3, <2>3 DEF Roomy
  <2> HIDE DEF i
  <2>6. CASE ~fp.write
    <3>1. r = Outcome(vol, o, GetFat(vol, o, s[i])) \/ r = Stopped(vol, o)
      BY <2>1, <2>6 DEF NextTargets
    <3>2. r.v = vol /\ r.o = o /\ r.ret \in {GetFat(vol, o, s[i]), DISK}
      BY <3>1, OutcomeFields DEF Stopped
    <3>3. CASE r.ret \notin Clst
      BY <2>5, <2>6, <3>2, <3>3 DEF SeekNext
    <3>4. CASE r.ret \in Clst
      <4>1. r.ret = GetFat(vol, o, s[i]) /\ GetFat(vol, o, s[i]) \in Clst
        BY <1>4, <3>2, <3>4
      <4>2. Whole(o, s)
        BY <1>1, <1>3, <2>1, <2>3, <4>1, BeyondSize
      <4>3. o.n_frag > 0 => s[i] = s[Len(s)]
        BY <2>4
      <4>4. o.n_frag = 0 /\ i < Len(s) /\ r.ret = s[i + 1]
        BY <1>1, <1>3, <2>1, <4>1, <4>2, <4>3, RestingNext
      <4>5. k + 2 <= Len(s) /\ r.ret = s[k + 2]
        BY <1>3, <2>1, <4>4 DEF i
      <4> QED
        BY <3>2, <4>2, <4>4, <4>5 DEF SeekNext, Whole
    <3> QED
      BY <3>3, <3>4
  <2>7. CASE fp.write /\ i < Len(s)
    <3>1. r \in CreateChain(vol, o, s[i]) /\ Whole(o, s)
      BY <2>1, <2>3, <2>7 DEF NextTargets
    <3>2. o.n_frag = 0
      BY <1>3, <2>4, <2>7
    <3>3. r.v = vol /\ r.o = o /\ (r.ret = DISK \/ (r.ret = s[i + 1] /\ r.ret \in Clst))
      BY <1>1, <1>3, <2>1, <2>7, <3>1, <3>2, CreateWithin
    <3>4. k + 2 <= Len(s) /\ s[i + 1] = s[k + 2]
      BY <1>3, <2>1, <2>7 DEF i
    <3> QED
      BY <1>4, <2>5, <3>1, <3>2, <3>3, <3>4 DEF SeekNext, Whole
  <2>8. CASE fp.write /\ i = Len(s)
    <3>1. LastOf(s) = fp.clust /\ fp.clust = s[Len(s)] /\ k + 1 = Len(s)
      BY <1>3, <2>1, <2>8 DEF LastOf, i
    <3>2. r \in CreateChain(vol, o, LastOf(s)) /\ Whole(o, s)
      BY <2>3, <2>8, <3>1 DEF NextTargets
    <3>3. Grown(vol, o, s, r)
      BY <1>1, <1>3, <3>2, CreateGrown
    <3> QED
      BY <2>5, <2>8, <3>1, <3>2, <3>3 DEF SeekNext, Grown
  <2> QED
    BY <1>3, <2>1, <2>6, <2>7, <2>8
<1> QED
  BY <1>5, <1>6

LEMMA SafeSeekStep ==
  ASSUME FatTypeInv, FatSafe, SeekStep
  PROVE  FatSafe'
<1> SUFFICES ASSUME ~loose'
             PROVE  Safe(vol', entry', cur', fp', pc')
  BY DEF FatSafe
<1>1. /\ Proper /\ Edged /\ Calling /\ vol \in Volumes /\ fp \in Fils /\ fp.o \in Objects
      /\ entry \in [Files -> Entries \cup {NoEntry}]
  BY OpenFile DEF Proper
<1> DEFINE at == fp.fptr + CSize
           o  == StretchedTo(at)
<1>2. /\ pc = "seek" /\ left > CSize /\ UNCHANGED <<entry, cur, loose>>
      /\ \E r \in NextTargets(o) : SeekStepCase(r, at, o)
  BY SeekStepCases
<1>3. cur \in Files /\ ~fp.err
  BY <1>1, <1>2 DEF Calling
<1>4. PICK ch : SafeIn(vol, entry, cur, fp, pc, ch)
  BY <1>2, SafeOpen
<1> DEFINE s == ch[cur]
<1>5. s \in Seq(Clst) /\ Grip(vol, fp, s, pc) /\ Taken(vol, s)
  BY <1>3, <1>4, SafeHeld
<1>6. PICK k \in Nat : CrossingAt(fp, s, k)
  BY <1>2, <1>3, <1>5 DEF Grip, Crossing
<1>7. Shape(vol, fp.o, s) /\ (fp.o.n_frag > 0 => fp.clust = s[Len(s)])
  BY <1>3, <1>5 DEF Grip
<1>8. PICK r \in NextTargets(o) : SeekStepCase(r, at, o)
  BY <1>2
<1> HIDE DEF s
<1>9. /\ at \in 0 .. MaxSize /\ at = CSize * (k + 1) /\ at > 0 /\ Count(at) = k + 1
      /\ o \in Objects /\ Plain(vol, o) /\ o.sclust = fp.o.sclust /\ o.stat = fp.o.stat
      /\ o.n_cont = fp.o.n_cont /\ o.n_frag = fp.o.n_frag
      /\ o.size = (IF fp.write /\ at > fp.o.size THEN at ELSE fp.o.size) /\ o.size \in Nat
      /\ o.stat = 3 => o.size # 0
      /\ Shape(vol, o, s) /\ Firm(o, s) = Firm(fp.o, s)
      /\ Len(s) \in Nat /\ Len(s) > 0 /\ fp.o.sclust # 0
  BY <1>2, <1>6, <1>7, StretchedShape
<1>10. SeekNext(r, o, s, k)
  <2> DEFINE p == StretchedTo(fp.fptr + CSize)
  <2>1. r \in NextTargets(p)
    OBVIOUS
  <2>2. p = StretchedTo(fp.fptr + CSize)
    OBVIOUS
  <2> HIDE DEF p
  <2>3. SeekNext(r, p, s, k)
    BY <1>2, <1>3, <1>5, <1>6, <2>1, <2>2, SeekNextSafe
  <2> QED
    BY <2>3 DEF p
<1>11. r.v \in Volumes /\ r.o \in Objects /\ r.o.sclust = o.sclust /\ r.o.size = o.size
  BY <1>1, <1>8, <1>9, NextTargetsType
<1>12. /\ vol' = r.v /\ fp'.fptr = at /\ fp'.o = r.o
       /\ IF r.ret \in Clst THEN fp'.clust = r.ret /\ fp'.err = fp.err /\ pc' = pc
          ELSE fp'.clust = fp.clust /\ pc' = "idle"
               /\ fp'.err = IF fp.write /\ r.ret = FULL THEN fp.err ELSE TRUE
  <2>1. vol' = r.v
    BY <1>1, <1>8, TakesFields DEF SeekStepCase
  <2> HIDE DEF at, o
  <2>2. CASE r.ret \in Clst
    BY <1>1, <1>8, <2>1, <2>2 DEF SeekStepCase, Fils
  <2>3. CASE r.ret \notin Clst /\ fp.write /\ r.ret = FULL
    BY <1>1, <1>8, <2>1, <2>3 DEF SeekStepCase, Fils
  <2>4. CASE r.ret \notin Clst /\ ~(fp.write /\ r.ret = FULL)
    BY <1>1, <1>8, <2>1, <2>4 DEF SeekStepCase, Fils
  <2> QED
    BY <2>2, <2>3, <2>4
<1> HIDE DEF at, o
<1>13. DISK \notin Clst /\ FULL # DISK
  BY FatAssumption DEF DISK, FULL, Clst
<1>14. CASE /\ r.v = vol /\ r.o = o /\ k + 2 <= Len(s) /\ r.ret = s[k + 2]
            /\ o.n_frag = 0 /\ (o.stat = 2 => Count(o.size) = Len(s))
  <2>1. k + 2 = (k + 1) + 1 /\ k + 1 \in Nat /\ r.ret \in Clst
    <3>1. \A i \in 1 .. Len(s) : s[i] \in Clst
      BY <1>5, SeqFacts
    <3>2. k + 2 \in 1 .. Len(s) /\ r.ret = s[k + 2]
      BY <1>9, <1>14
    <3> QED
      BY <3>1, <3>2
  <2>2. CrossingAt(fp', s, k + 1)
    <3> DEFINE m == k + 1
    <3>1. fp'.fptr = CSize * m /\ m + 1 <= Len(s) /\ fp'.clust = s[m + 1]
      BY <1>9, <1>12, <1>14, <2>1
    <3>2. fp'.o = o
      BY <1>12, <1>14
    <3> HIDE DEF m
    <3>3. o.stat = 2 => Count(o.size) <= Len(s) /\ (Count(o.size) < Len(s) => Len(s) = m + 1)
      BY <1>9, <1>14
    <3>4. CrossingAt(fp', s, m)
      BY <1>9, <3>1, <3>2, <3>3 DEF CrossingAt
    <3> QED
      BY <3>4 DEF m
  <2>3. Grip(vol, fp', s, pc')
    BY <1>2, <1>3, <1>9, <1>12, <1>14, <2>1, <2>2 DEF Grip, Crossing
  <2>4. Firm(fp.o, s) \subseteq Firm(fp'.o, s)
    BY <1>9, <1>12, <1>14
  <2> QED
    BY <1>1, <1>2, <1>3, <1>4, <1>12, <1>14, <2>3, <2>4, OpenSame DEF s
<1>15. CASE /\ r.v = vol /\ r.o = o /\ r.ret \notin Clst /\ Roomy(o, s)
            /\ fp.write /\ r.ret = FULL => k + 1 = Len(s) /\ fp.clust = s[Len(s)] /\ Whole(o, s)
  <2>1. Firm(fp.o, s) \subseteq Firm(fp'.o, s) /\ fp'.o = o /\ fp'.clust = fp.clust
        /\ (fp'.o.n_frag > 0 => fp'.clust = s[Len(s)])
    BY <1>7, <1>9, <1>12, <1>15
  <2>2. CASE fp.write /\ r.ret = FULL
    <3>1. k + 1 = Len(s) /\ fp.clust = s[Len(s)] /\ Whole(o, s)
      BY <1>15, <2>2
    <3>2. Sized(o, s)
      BY <1>9, <3>1 DEF Sized, Whole
    <3>3. fp'.fptr = at /\ at <= o.size /\ fp'.err = fp.err /\ pc' = "idle"
      <4>1. fp'.fptr = at /\ fp'.err = fp.err /\ pc' = "idle"
        BY <1>12, <1>15, <2>2
      <4>2. fp.o.size \in Nat /\ at \in Nat
        BY <1>9, OpenFile, FileAssumption
      <4> QED
        BY <1>9, <2>2, <4>1, <4>2
    <3>4. Resting(fp', s)
      BY <1>9, <2>1, <3>1, <3>2, <3>3 DEF Resting
    <3>5. Grip(vol, fp', s, pc')
      BY <1>3, <1>9, <2>1, <3>3, <3>4 DEF Grip
    <3> QED
      BY <1>1, <1>2, <1>3, <1>4, <1>12, <1>15, <2>1, <3>5, OpenSame DEF s
  <2>3. CASE ~(fp.write /\ r.ret = FULL)
    <3>1. fp'.err = TRUE
      BY <1>12, <1>15, <2>3
    <3>2. Grip(vol, fp', s, pc')
      BY <1>9, <1>15, <2>1, <3>1 DEF Grip, Broken
    <3> QED
      BY <1>1, <1>2, <1>3, <1>4, <1>12, <1>15, <2>1, <3>2, OpenSame DEF s
  <2> QED
    BY <2>2, <2>3
<1>16. CASE /\ r.ret \in Clst /\ Longer(vol, r.v, r.o, s, r.ret)
            /\ Carries(vol, r.v, o, Named(r.o, r.ret), s, Append(s, r.ret))
            /\ fp.write /\ k + 1 = Len(s) /\ Whole(o, s)
  <2> DEFINE t == Append(s, r.ret)
  <2>1. Named(r.o, r.ret) = r.o
    BY <1>9, <1>11 DEF Named
  <2>2. /\ t \in Seq(Clst) /\ Len(t) = k + 2 /\ t[k + 2] = r.ret /\ Len(t) = Len(s) + 1
    <3>1. r.ret \notin Range(s) /\ Injective(s)
      BY <1>7, <1>16 DEF Longer, Shape
    <3>2. t \in Seq(Clst) /\ Len(t) = Len(s) + 1 /\ t[Len(s) + 1] = r.ret
      BY <1>5, <1>16, <3>1, AppendIs
    <3> QED
      BY <1>16, <3>2
  <2>3. Shape(r.v, r.o, t) /\ Moves(vol, r.v, s, t)
    BY <1>16, <2>1, <2>2, RechainedMoves DEF Longer
  <2>4. /\ Firm(fp.o, s) \subseteq Firm(fp'.o, t) /\ Rerouted(vol, r.v, Firm(fp'.o, t))
        /\ (r.o.stat = 2 => o.stat = 2)
    BY <1>9, <1>12, <1>16, <2>1 DEF Carries
  <2> HIDE DEF t
  <2>5. CrossingAt(fp', t, k + 1)
    <3> DEFINE m == k + 1
    <3>1. fp'.fptr = CSize * m /\ m + 1 <= Len(t) /\ fp'.clust = t[m + 1] /\ Len(t) = m + 1
      BY <1>9, <1>12, <1>16, <2>2
    <3>2. fp'.o = r.o /\ r.o.size = o.size /\ Len(s) = m
      BY <1>11, <1>12, <1>16
    <3> HIDE DEF m
    <3>3. r.o.stat = 2 => Count(o.size) = Len(s)
      BY <1>16, <2>4 DEF Whole
    <3>4. r.o.stat = 2 => Count(o.size) <= Len(t) /\ (Count(o.size) < Len(t) => Len(t) = m + 1)
      BY <1>9, <3>1, <3>2, <3>3
    <3>5. Len(t) > 0
      BY <1>9, <2>2
    <3>6. r.o.stat = 3 => o.size # 0
      <4>1. fp.o.size \in Nat /\ at \in Nat
        BY <1>9, OpenFile, FileAssumption
      <4> QED
        BY <1>9, <1>16, <4>1
    <3>7. CrossingAt(fp', t, m)
      BY <3>1, <3>2, <3>4, <3>5, <3>6 DEF CrossingAt
    <3> QED
      BY <3>7 DEF m
  <2>6. Crossing(fp', t) /\ (fp'.o.n_frag > 0 => fp'.clust = t[Len(t)])
    <3>1. k + 1 \in Nat
      OBVIOUS
    <3> QED
      BY <1>12, <1>16, <2>2, <2>5, <3>1 DEF Crossing
  <2>7. Grip(r.v, fp', t, pc')
    BY <1>2, <1>3, <1>12, <1>16, <2>3, <2>6 DEF Grip
  <2> QED
    BY <1>1, <1>2, <1>3, <1>4, <1>11, <1>12, <2>3, <2>4, <2>7, OpenStep DEF s
<1>17. CASE /\ r.ret = DISK /\ Broken(r.v, r.o, s) /\ Moves(vol, r.v, s, s)
            /\ Carries(vol, r.v, o, r.o, s, s)
            /\ k + 1 = Len(s) /\ fp.clust = s[Len(s)] /\ Whole(o, s)
  <2>1. fp'.err = TRUE /\ fp'.o = r.o /\ fp'.clust = fp.clust
    BY <1>12, <1>13, <1>17
  <2>2. Roomy(r.o, s)
    <3>1. r.o.stat = 2 => o.stat = 2
      BY <1>9, <1>17 DEF Carries
    <3> QED
      BY <1>9, <1>11, <1>17, <3>1 DEF Roomy, Whole
  <2>3. Grip(r.v, fp', s, pc')
    BY <1>17, <2>1, <2>2 DEF Grip
  <2>4. Firm(fp.o, s) \subseteq Firm(fp'.o, s) /\ Rerouted(vol, r.v, Firm(fp'.o, s))
    BY <1>9, <1>17, <2>1 DEF Carries
  <2> QED
    BY <1>1, <1>2, <1>3, <1>4, <1>11, <1>12, <1>17, <2>3, <2>4, OpenStep DEF s
<1> QED
  BY <1>10, <1>14, <1>15, <1>16, <1>17 DEF SeekNext

-----------------------------------------------------------------------------
\* remove_chain, stopped or not

\* The FAT that remove_chain goes on with, once the chain has got its new end
CutOff(v, o, pclst) ==
  IF pclst # 0 /\ (v.type = "fat32" \/ o.stat # 2) THEN Put(v, pclst, EOC) ELSE v

\* w is v without the clusters of u, and perhaps with more of them counted.
GivesBack(v, w, u) ==
  w = Released(v, u) \/ \E m \in Nat : w = Ahead(Released(v, u), m)

LEMMA GivesBackIs ==
  ASSUME NEW v \in Volumes, NEW u \in Seq(Clst), NEW w, GivesBack(v, w, u)
  PROVE  /\ w \in Volumes /\ w.type = v.type
         /\ \A d \in Clst : IsFree(w, d) <=> IsFree(v, d) \/ d \in Range(u)
         /\ \A d \in Clst : v.type = "exfat" \/ d \notin Range(u) => w.fat[d] = v.fat[d]
<1> DEFINE x == Released(v, u)
<1>1. /\ x \in Volumes /\ x.type = v.type
      /\ \A d \in Clst : IsFree(x, d) <=> IsFree(v, d) \/ d \in Range(u)
      /\ \A d \in Clst : v.type = "exfat" \/ d \notin Range(u) => x.fat[d] = v.fat[d]
  BY ReleasedIs
<1>2. w = x \/ \E m \in Nat : w = Ahead(x, m)
  BY DEF GivesBack
<1> HIDE DEF x
<1>3. w \in Volumes /\ w.type = x.type /\ w.fat = x.fat /\ w.used = x.used
  <2>1. ASSUME NEW m \in Nat, w = Ahead(x, m)
        PROVE  w \in Volumes /\ w.type = x.type /\ w.fat = x.fat /\ w.used = x.used
    BY <1>1, <2>1, AheadType
  <2> QED
    BY <1>1, <1>2, <2>1
<1>4. \A d : IsFree(w, d) <=> IsFree(x, d)
  BY <1>3 DEF IsFree
<1> QED
  BY <1>1, <1>3, <1>4

\* Clusters of the walk are given back, or none.
LEMMA RemovedVolume ==
  ASSUME NEW v \in Volumes, NEW o, NEW clst, NEW pclst, NEW r \in RemoveChain(v, o, clst, pclst)
  PROVE  \/ r.v = v
         \/ r.v = CutOff(v, o, pclst)
         \/ /\ clst \in Clst
            /\ \E u \in Seq(Clst) : /\ Range(u) \subseteq Range(Walk(CutOff(v, o, pclst), o, clst))
                                    /\ GivesBack(CutOff(v, o, pclst), r.v, u)
<1> DEFINE v1 == CutOff(v, o, pclst)
           s  == Walk(v1, o, clst)
           end == GetFat(v1, o, Last(s))
<1>1. r \in IF clst \notin Clst THEN {Outcome(v, o, INT_ERR)}
            ELSE {Stopped(v, o)}
                 \cup Halfway(v1, s, o)
                 \cup (IF end = INT_ERR \/ (v.type = "exfat" /\ ~Range(s) \subseteq v.used)
                      THEN {Outcome(v1, o, INT_ERR)}
                      ELSE {Outcome(Released(v1, s), Shortened(v1, o, pclst), OK)})
  BY DEF RemoveChain, CutOff
<1>2. clst \in Clst => s \in Seq(Clst)
  BY WalkSeq
<1> HIDE DEF v1, s, end
<1>3. CASE r = Stopped(v, o) \/ r = Outcome(v, o, INT_ERR)
  BY <1>3, OutcomeFields DEF Stopped
<1>4. CASE r = Outcome(v1, o, INT_ERR)
  BY <1>4, OutcomeFields DEF v1
<1>5. CASE clst \in Clst /\ r \in Halfway(v1, s, o)
  <2>1. PICK n \in 0 .. Len(s), m \in Nat :
          r = Stopped(Ahead(Released(v1, SubSeq(s, 1, n)), m), o)
    BY <1>2, <1>5, HalfwayIs
  <2> DEFINE u == SubSeq(s, 1, n)
  <2>2. s \in Seq(Clst)
    BY <1>2, <1>5
  <2>3. u \in Seq(Clst) /\ Len(u) = n /\ (\A i \in 1 .. n : u[i] = s[i]) /\ Len(s) \in Nat
    BY <2>2, Prefix, SeqFacts
  <2>4. GivesBack(v1, r.v, u)
    BY <2>1, OutcomeFields DEF Stopped, GivesBack
  <2> HIDE DEF u
  <2>5. Range(u) \subseteq Range(s)
    BY <2>2, <2>3, RangeIs
  <2> QED
    BY <1>5, <2>3, <2>4, <2>5 DEF v1, s
<1>6. CASE clst \in Clst /\ r = Outcome(Released(v1, s), Shortened(v1, o, pclst), OK)
  <2>1. GivesBack(v1, r.v, s) /\ s \in Seq(Clst)
    BY <1>2, <1>6, OutcomeFields DEF GivesBack
  <2> QED
    BY <1>6, <2>1 DEF v1, s
<1> QED
  BY <1>1, <1>3, <1>4, <1>5, <1>6

LEMMA CutOffIs ==
  ASSUME NEW v \in Volumes, NEW o, NEW pclst \in {0} \cup Clst
  PROVE  /\ CutOff(v, o, pclst) \in Volumes /\ CutOff(v, o, pclst).type = v.type
         /\ \A c \in Clst : CutOff(v, o, pclst).fat[c] \in {v.fat[c], EOC}
<1>1. EOC \in 0 .. EOC
  BY FatAssumption DEF EOC
<1>2. CASE CutOff(v, o, pclst) = v
  BY <1>2
<1>3. CASE pclst \in Clst /\ CutOff(v, o, pclst) = Put(v, pclst, EOC)
  <2>1. Put(v, pclst, EOC) \in Volumes /\ SameBut(v, Put(v, pclst, EOC))
    BY <1>1, PutSame
  <2>2. \A d \in Clst : Put(v, pclst, EOC).fat[d] = IF d = pclst THEN EOC ELSE v.fat[d]
    BY <1>1, <1>3, PutFat
  <2> QED
    BY <1>3, <2>1, <2>2 DEF SameBut
<1> QED
  BY <1>2, <1>3 DEF CutOff

\* What is given back is not linked any more.
LEMMA ReleasedReroutes ==
  ASSUME NEW v \in Volumes, NEW u \in Seq(Clst), NEW w, GivesBack(v, w, u)
  PROVE  Rerouted(v, w, {}) /\ w.type = v.type
<1>1. /\ w.type = v.type
      /\ \A d \in Clst : IsFree(w, d) <=> IsFree(v, d) \/ d \in Range(u)
      /\ \A d \in Clst : v.type = "exfat" \/ d \notin Range(u) => w.fat[d] = v.fat[d]
  BY GivesBackIs
<1>2. ASSUME NEW c \in Clst
      PROVE  w.fat[c] = v.fat[c] \/ Ends(w, c)
  <2>1. CASE v.type = "exfat" \/ c \notin Range(u)
    BY <1>1, <2>1
  <2>2. CASE v.type # "exfat" /\ c \in Range(u)
    <3>1. w.type # "exfat" /\ IsFree(w, c)
      BY <1>1, <2>2
    <3>2. w.type = "fat32" /\ w.fat[c] = FREE
      BY <1>1, <3>1 DEF IsFree, Volumes
    <3> QED
      BY <3>2 DEF Ends
  <2> QED
    BY <2>1, <2>2
<1> QED
  BY <1>1, <1>2 DEF Rerouted

LEMMA RemovedReroutes ==
  ASSUME NEW v \in Volumes, NEW o, NEW clst, NEW pclst \in {0} \cup Clst,
         NEW r \in RemoveChain(v, o, clst, pclst)
  PROVE  Rerouted(v, r.v, {}) /\ r.v.type = v.type
<1> DEFINE v1 == CutOff(v, o, pclst)
<1>1. /\ v1 \in Volumes /\ v1.type = v.type
      /\ \A c \in Clst : v1.fat[c] \in {v.fat[c], EOC}
  BY CutOffIs
<1>2. \/ r.v = v \/ r.v = v1
      \/ \E u \in Seq(Clst) : GivesBack(v1, r.v, u)
  BY RemovedVolume
<1> HIDE DEF v1
<1>3. CASE r.v = v
  BY <1>3 DEF Rerouted
<1>4. CASE r.v = v1
  BY <1>1, <1>4 DEF Rerouted, Ends
<1>5. CASE \E u \in Seq(Clst) : GivesBack(v1, r.v, u)
  <2>1. PICK u \in Seq(Clst) : GivesBack(v1, r.v, u)
    BY <1>5
  <2>2. Rerouted(v1, r.v, {}) /\ r.v.type = v1.type
    BY <1>1, <2>1, ReleasedReroutes
  <2>3. ASSUME NEW c \in Clst
        PROVE  r.v.fat[c] = v.fat[c] \/ Ends(r.v, c)
    <3>1. r.v.fat[c] = v1.fat[c] \/ Ends(r.v, c)
      BY <2>2 DEF Rerouted
    <3>2. v1.fat[c] = v.fat[c] \/ v1.fat[c] = EOC
      BY <1>1
    <3> QED
      BY <3>1, <3>2 DEF Ends
  <2> QED
    BY <1>1, <2>2, <2>3 DEF Rerouted
<1> QED
  BY <1>2, <1>3, <1>4, <1>5

\* A file is given up: its clusters, or some of them, are free.
LEMMA WholeGone ==
  ASSUME NEW v \in Volumes, NEW o \in Objects, Plain(v, o), NEW s, Shape(v, o, s),
         o.n_frag = 0, Sized(o, s), o.sclust # 0, NEW r \in RemoveChain(v, o, o.sclust, 0)
  PROVE  r.v \in Volumes /\ Moves(v, r.v, s, <<>>) /\ Rerouted(v, r.v, {}) /\ r.v.type = v.type
<1>1. o.sclust \in Clst /\ s \in Seq(Clst)
  BY DEF Objects, Shape
<1>2. Rerouted(v, r.v, {}) /\ r.v.type = v.type
  BY RemovedReroutes
<1>3. r.v \in Volumes
  BY <1>1, RemoveChainType
<1>4. CutOff(v, o, 0) = v
  BY DEF CutOff
<1>5. Walk(v, o, o.sclust) = s
  <2>1. ChainOf(v, o) = s
    BY FoundSized
  <2> QED
    BY <1>1, <2>1 DEF ChainOf
<1>6. r.v = v \/ \E u \in Seq(Clst) : Range(u) \subseteq Range(s) /\ GivesBack(v, r.v, u)
  BY <1>4, <1>5, RemovedVolume
<1>7. Spares(v, r.v, s)
  <2>1. CASE r.v = v
    BY <2>1 DEF Spares
  <2>2. CASE \E u \in Seq(Clst) : Range(u) \subseteq Range(s) /\ GivesBack(v, r.v, u)
    <3>1. PICK u \in Seq(Clst) : Range(u) \subseteq Range(s) /\ GivesBack(v, r.v, u)
      BY <2>2
    <3>2. /\ r.v.type = v.type
          /\ \A d \in Clst : IsFree(r.v, d) <=> IsFree(v, d) \/ d \in Range(u)
          /\ \A d \in Clst : v.type = "exfat" \/ d \notin Range(u) => r.v.fat[d] = v.fat[d]
      BY <3>1, GivesBackIs
    <3> QED
      BY <3>1, <3>2 DEF Spares
  <2> QED
    BY <1>6, <2>1, <2>2
<1>8. <<>> \in Seq(Clst) /\ Range(<<>>) = {}
  BY DEF Range
<1> QED
  BY <1>2, <1>3, <1>7, <1>8 DEF Moves

LEMMA OwnApart ==
  ASSUME NEW v, NEW ch, Unshared(v, ch), NEW f \in Files
  PROVE  \A c \in Range(ch[f]) : c \notin Others(ch, f)
<1> SUFFICES ASSUME NEW c \in Range(ch[f]), c \in Others(ch, f)
             PROVE  FALSE
  OBVIOUS
<1>1. PICK g \in Files : g # f /\ c \in Range(ch[g]) /\ c \in Clst
  BY DEF Others
<1> QED
  BY <1>1 DEF Unshared

-----------------------------------------------------------------------------
\* f_truncate

\* A file whose links are all on the FAT, or implied, gives up clusters.
LEMMA OpenShortened ==
  ASSUME NEW v \in Volumes, NEW w \in Volumes, NEW en \in [Files -> Entries \cup {NoEntry}],
         NEW cu \in Files, NEW f, f.o \in Objects, f.o.n_frag = 0, NEW at, NEW ch,
         SafeIn(v, en, cu, f, at, ch), Shape(v, f.o, ch[cu]),
         NEW t, Moves(v, w, ch[cu], t), Rerouted(v, w, {}), NEW g, NEW au, Grip(w, g, t, au)
  PROVE  Safe(w, en, cu, g, au)
<1> DEFINE X == Others(ch, cu)
<1>1. cu # NoFile
  BY FileAssumption
<1>2. Aside(v, en, cu, ch) /\ Old(v, en[cu], Firm(f.o, ch[cu]), X)
  BY <1>1 DEF SafeIn
<1>3. ch \in [Files -> Seq(Clst)] /\ Unshared(v, ch)
  BY <1>2 DEF Aside
<1>4. Spares(v, w, ch[cu]) /\ w.type = v.type
  BY DEF Moves, Spares
<1>5. Own(w, ch, cu, t)
  BY <1>3, MovesOwn
<1>6. Old(w, en[cu], Firm(g.o, t), X)
  <2>1. \A c \in Range(ch[cu]) : c \notin X
    BY <1>3, OwnApart
  <2> HIDE DEF X
  <2>2. Old(v, en[cu], {}, X)
    BY <1>2, <2>1, OldGoesOn
  <2> DEFINE G == Firm(g.o, t)
             F == {}
  <2>3. Rerouted(v, w, G) /\ F \subseteq G /\ X \subseteq X /\ Old(v, en[cu], F, X)
    BY <2>2 DEF Rerouted
  <2> HIDE DEF F, G
  <2>4. Old(w, en[cu], G, X)
    BY <1>4, <2>3, OldKeeps
  <2> QED
    BY <2>4 DEF G
<1>7. SameEntries(en, en, cu)
  BY DEF SameEntries
<1> QED
  BY <1>2, <1>4, <1>5, <1>6, <1>7, OpenChanged

\* To nothing
LEMMA SafeEmptied ==
  ASSUME FatTypeInv, cur \in Files, ~fp.err, fp.fptr = 0, 0 < fp.o.size, NEW ch,
         SafeIn(vol, entry, cur, fp, "idle", ch),
         NEW r \in RemoveChain(vol, fp.o, fp.o.sclust, 0), r.ret # DISK,
         NEW g, g.o \in Objects, g.o.sclust = 0, g.o.size = 0, g.o.stat = r.o.stat,
         g.o.n_frag = r.o.n_frag, g.fptr = 0, g.err = (r.ret # OK)
  PROVE  Safe(r.v, entry, cur, g, "idle")
<1> DEFINE s == ch[cur]
<1>1. /\ vol \in Volumes /\ fp.o \in Objects /\ Plain(vol, fp.o) /\ fp.o.size \in Nat
      /\ fp.o.n_frag = 0 /\ entry \in [Files -> Entries \cup {NoEntry}]
  <2>1. fp.o.n_frag \in 0 .. Clusters /\ Clusters \in Nat
    BY OpenFile, LoadedCur
  <2>2. fp.o.n_frag > 0 => fp.fptr > 0
    BY OpenFile DEF Edged
  <2>3. fp.o.n_frag = 0
    BY <2>1, <2>2
  <2> QED
    BY <2>3, OpenFile DEF Proper
<1>2. s \in Seq(Clst) /\ Taken(vol, s) /\ Grip(vol, fp, s, "idle") /\ Len(s) \in Nat
  BY SafeHeld
<1>3. Shape(vol, fp.o, s) /\ Sized(fp.o, s)
  BY <1>2 DEF Grip, Resting
<1> HIDE DEF s
<1>4. Len(s) > 0 /\ Whole(fp.o, s)
  BY <1>1, <1>2, <1>3, SizedWhole DEF Sized
<1>5. r.ret = OK /\ Rechained(vol, r.v, s, <<>>) /\ r.o.n_frag = 0 /\ r.o.stat = 0
  BY <1>1, <1>2, <1>3, <1>4, RemovedWhole
<1>6. fp.o.sclust # 0
  BY <1>1, <1>3, <1>4, ShapeFields
<1>7. r.v \in Volumes /\ Moves(vol, r.v, s, <<>>) /\ Rerouted(vol, r.v, {})
  BY <1>1, <1>3, <1>6, WholeGone
<1>8. Grip(r.v, g, <<>>, "idle")
  <2>1. Shape(r.v, g.o, <<>>) /\ Len(<<>>) = 0
    BY <1>5, EmptyShape
  <2>2. Resting(g, <<>>)
    <3>1. Sized(g.o, <<>>)
      BY <1>5 DEF Sized
    <3>2. g.fptr <= g.o.size /\ ~(g.fptr > 0)
      OBVIOUS
    <3> QED
      BY <3>1, <3>2 DEF Resting
  <2>3. ~g.err
    BY <1>5, Zenon
  <2>4. ~(g.o.n_frag > 0)
    BY <1>5
  <2> QED
    BY <2>1, <2>2, <2>3, <2>4 DEF Grip
<1> QED
  BY <1>1, <1>3, <1>7, <1>8, OpenShortened DEF s

\* Where the file pointer is in a file that is to be cut there
LEMMA CutFrom ==
  ASSUME FatTypeInv, ~fp.err, 0 < fp.fptr, fp.fptr < fp.o.size, NEW s, Grip(vol, fp, s, "idle"),
         ~(GetFat(vol, fp.o, fp.clust) < 2)
  PROVE  /\ Count(fp.fptr) \in 1 .. Len(s) /\ fp.clust = s[Count(fp.fptr)] /\ Whole(fp.o, s)
         /\ IF GetFat(vol, fp.o, fp.clust) \in Clst
            THEN /\ fp.o.n_frag = 0 /\ Count(fp.fptr) < Len(s)
                 /\ GetFat(vol, fp.o, fp.clust) = s[Count(fp.fptr) + 1]
            ELSE Count(fp.fptr) = Len(s)
<1> DEFINE k == Count(fp.fptr)
           next == GetFat(vol, fp.o, fp.clust)
           o == fp.o
<1>1. /\ vol \in Volumes /\ o \in Objects /\ Plain(vol, o) /\ o.size \in Nat
      /\ fp.fptr \in Nat /\ o.n_frag \in Nat
  <2>1. fp.fptr \in 0 .. MaxSize /\ MaxSize \in Nat /\ o.n_frag \in 0 .. Clusters /\ Clusters \in Nat
    BY OpenFile, LoadedCur
  <2> QED
    BY <2>1, OpenFile
<1>2. Shape(vol, o, s) /\ Resting(fp, s) /\ (o.n_frag > 0 => fp.clust = s[Len(s)])
  BY DEF Grip
<1>3. s \in Seq(Clst) /\ Len(s) \in Nat /\ Injective(s)
  BY <1>1, <1>2, ShapeFields
<1>4. k >= 1
  <2> DEFINE n == fp.fptr
  <2>1. n \in Nat /\ n > 0
    BY <1>1
  <2> HIDE DEF n
  <2>2. Count(n) \in Nat /\ (Count(n) = 0 <=> n = 0)
    BY <2>1, CountBounds
  <2> QED
    BY <2>1, <2>2 DEF n
<1>5. ~Adrift(fp, s)
  <2>1. Adrift(fp, s) => GetFat(vol, o, fp.clust) = INT_ERR
    BY NextAdrift DEF Adrift
  <2> QED
    BY <2>1
<1>6. k <= Len(s) /\ fp.clust = s[k]
  BY <1>2, <1>5 DEF Resting
<1>7. k \in 1 .. Len(s)
  <2>1. k \in Nat
    BY <1>1, CountBounds
  <2> HIDE DEF k
  <2> QED
    BY <1>3, <1>4, <1>6, <2>1
<1>8. Whole(o, s)
  BY <1>1, <1>2, SizedWhole DEF Resting
<1>9. next = GetFat(vol, o, s[k])
  BY <1>6
<1> HIDE DEF k, next, o
<1>10. o.n_frag > 0 => s[k] = s[Len(s)]
  BY <1>2, <1>6
<1>11. ASSUME next \in Clst
       PROVE  o.n_frag = 0 /\ k < Len(s) /\ next = s[k + 1]
  BY <1>1, <1>2, <1>7, <1>8, <1>9, <1>10, <1>11, RestingNext
<1>12. ASSUME next \notin Clst, k # Len(s)
       PROVE  FALSE
  <2>1. k < Len(s) /\ Len(s) \in 1 .. Len(s) /\ k + 1 \in 1 .. Len(s)
    BY <1>3, <1>7, <1>12
  <2>2. o.n_frag = 0
    BY <1>1, <1>3, <1>7, <1>10, <1>12, <2>1 DEF Injective
  <2>3. next = s[k + 1]
    BY <1>1, <1>2, <1>7, <1>8, <1>9, <2>1, <2>2, NextOf
  <2>4. s[k + 1] \in Clst
    <3>1. \A i \in 1 .. Len(s) : s[i] \in Clst
      BY <1>3, SeqFacts
    <3> QED
      BY <2>1, <3>1
  <2> QED
    BY <1>12, <2>3, <2>4
<1>13. /\ k \in 1 .. Len(s) /\ fp.clust = s[k] /\ Whole(o, s)
       /\ IF next \in Clst THEN o.n_frag = 0 /\ k < Len(s) /\ next = s[k + 1] ELSE k = Len(s)
  BY <1>6, <1>7, <1>8, <1>11, <1>12
<1> QED
  BY <1>13 DEF next, o, k

\* What is left of the file after f_truncate, from r on
Cut(r, g) ==
  /\ g.o \in Objects /\ g.o.sclust = IF fp.fptr = 0 THEN 0 ELSE r.o.sclust
  /\ g.o.size = fp.fptr /\ g.o.stat = r.o.stat /\ g.o.n_cont = r.o.n_cont
  /\ g.o.n_frag = r.o.n_frag
  /\ g.fptr = fp.fptr /\ g.clust = fp.clust /\ g.err = (r.ret # OK)

\* To the cluster that the file pointer is in
LEMMA SafeCutTail ==
  ASSUME FatTypeInv, cur \in Files, ~fp.err, 0 < fp.fptr, fp.fptr < fp.o.size, NEW ch,
         SafeIn(vol, entry, cur, fp, "idle", ch), GetFat(vol, fp.o, fp.clust) \in Clst,
         NEW r \in RemoveChain(vol, fp.o, GetFat(vol, fp.o, fp.clust), fp.clust), r.ret # DISK,
         NEW g, Cut(r, g)
  PROVE  Safe(r.v, entry, cur, g, "idle")
<1> DEFINE s == ch[cur]
           o == fp.o
           k == Count(fp.fptr)
           t == SubSeq(s, 1, k)
           next == GetFat(vol, fp.o, fp.clust)
<1>1. /\ vol \in Volumes /\ o \in Objects /\ Plain(vol, o) /\ o.size \in Nat
      /\ entry \in [Files -> Entries \cup {NoEntry}] /\ fp.fptr \in Nat
  <2>1. fp.fptr \in 0 .. MaxSize /\ MaxSize \in Nat
    BY OpenFile, LoadedCur
  <2> QED
    BY <2>1, OpenFile DEF Proper
<1>2. s \in Seq(Clst) /\ Taken(vol, s) /\ Grip(vol, fp, s, "idle") /\ Len(s) \in Nat
  BY SafeHeld
<1>3. Shape(vol, o, s)
  BY <1>2 DEF Grip
<1>4. ~(next < 2)
  BY FatAssumption
<1> HIDE DEF s
<1>5. /\ k \in 1 .. Len(s) /\ fp.clust = s[k] /\ Whole(o, s)
      /\ o.n_frag = 0 /\ k < Len(s) /\ next = s[k + 1]
  BY <1>2, <1>4, CutFrom
<1> HIDE DEF k, o, next
<1>6. r \in RemoveChain(vol, o, s[k + 1], s[k])
  BY <1>5 DEF o, next
<1>7. r.ret = OK /\ Rechained(vol, r.v, s, t) /\ Shape(r.v, r.o, t)
  BY <1>1, <1>2, <1>3, <1>5, <1>6, RemovedTail
<1>8. t \in Seq(Clst) /\ Len(t) = k /\ t[k] = s[k]
  <2>1. k \in 0 .. Len(s) /\ k \in 1 .. k
    BY <1>2, <1>5
  <2> QED
    BY <1>2, <2>1, Prefix
<1> HIDE DEF t
<1>9. Moves(vol, r.v, s, t)
  BY <1>7, <1>8, RechainedMoves
<1>10. r.v \in Volumes /\ r.o.n_frag = 0
  BY <1>1, <1>5, <1>6, RemoveChainType
<1>11. Rerouted(vol, r.v, {})
  <2>1. s[k] \in {0} \cup Clst
    <3>1. \A i \in 1 .. Len(s) : s[i] \in Clst
      BY <1>2, SeqFacts
    <3> QED
      BY <1>5, <3>1
  <2> QED
    BY <1>1, <1>6, <2>1, RemovedReroutes
<1>12. Grip(r.v, g, t, "idle")
  <2>1. Shape(r.v, g.o, t)
    BY <1>1, <1>7, ShapeSize DEF Cut
  <2>2. Sized(g.o, t)
    BY <1>5, <1>8 DEF Cut, Sized, k
  <2>3. Resting(g, t)
    BY <1>1, <1>5, <1>8, <2>2 DEF Cut, Resting, k
  <2>4. ~g.err
    BY <1>7, Zenon DEF Cut
  <2>5. ~(g.o.n_frag > 0)
    BY <1>10 DEF Cut
  <2> QED
    BY <2>1, <2>3, <2>4, <2>5 DEF Grip
<1> QED
  BY <1>1, <1>3, <1>5, <1>9, <1>10, <1>11, <1>12, OpenShortened DEF s, o

\* At the end of its last cluster, or not at all
LEMMA SafeCutSame ==
  ASSUME FatTypeInv, cur \in Files, ~fp.err, 0 < fp.fptr, fp.fptr < fp.o.size, NEW ch,
         SafeIn(vol, entry, cur, fp, "idle", ch), GetFat(vol, fp.o, fp.clust) \notin Clst,
         NEW r, r.v = vol, r.o = fp.o,
         r.ret = IF GetFat(vol, fp.o, fp.clust) < 2 THEN INT_ERR ELSE OK, NEW g, Cut(r, g)
  PROVE  Safe(r.v, entry, cur, g, "idle")
<1> DEFINE s == ch[cur]
           o == fp.o
           k == Count(fp.fptr)
           next == GetFat(vol, fp.o, fp.clust)
<1>1. /\ vol \in Volumes /\ o \in Objects /\ Plain(vol, o) /\ o.size \in Nat
      /\ entry \in [Files -> Entries \cup {NoEntry}] /\ fp.fptr \in Nat
  <2>1. fp.fptr \in 0 .. MaxSize /\ MaxSize \in Nat
    BY OpenFile, LoadedCur
  <2> QED
    BY <2>1, OpenFile DEF Proper
<1>2. s \in Seq(Clst) /\ Taken(vol, s) /\ Grip(vol, fp, s, "idle") /\ Len(s) \in Nat
  BY SafeHeld
<1>3. Shape(vol, o, s) /\ Resting(fp, s) /\ (o.n_frag > 0 => fp.clust = s[Len(s)])
  BY <1>2 DEF Grip
<1> HIDE DEF s
<1>4. Shape(vol, g.o, s) /\ Firm(g.o, s) = Firm(o, s)
  <2>1. Shape(vol, g.o, s)
    BY <1>1, <1>3, ShapeSize DEF Cut
  <2> QED
    BY <2>1 DEF Cut, Firm, First
<1>5. Len(s) > 0
  BY <1>1, <1>2, <1>3 DEF Resting, Sized
<1>6. CASE next < 2
  <2>1. g.err
    <3>1. r.ret = INT_ERR
      BY <1>6
    <3>2. INT_ERR # OK
      BY FatAssumption
    <3>3. r.ret # OK
      BY <3>1, <3>2
    <3> QED
      BY <3>3, Zenon DEF Cut
  <2>2. Roomy(g.o, s)
    <3>1. o.stat = 2 => Len(s) = Count(o.size)
      BY <1>1, <1>3 DEF Resting, Sized
    <3>2. Count(fp.fptr) <= Count(o.size)
      BY <1>1, CountMonotone
    <3> QED
      BY <1>5, <3>1, <3>2 DEF Roomy, Cut
  <2>3. Grip(vol, g, s, "idle")
    BY <1>3, <1>4, <2>1, <2>2 DEF Grip, Broken, Cut
  <2> QED
    BY <1>1, <1>4, <2>3, OpenSame DEF s
<1>7. CASE ~(next < 2)
  <2>1. k \in 1 .. Len(s) /\ fp.clust = s[k] /\ k = Len(s)
    BY <1>2, <1>7, CutFrom
  <2>2. Sized(g.o, s)
    BY <1>1, <1>5, <2>1 DEF Sized, Cut
  <2>3. Resting(g, s)
    BY <1>1, <2>1, <2>2 DEF Resting, Cut
  <2>4. ~g.err
    BY <1>7 DEF Cut
  <2>5. Grip(vol, g, s, "idle")
    BY <1>3, <1>4, <2>3, <2>4 DEF Grip, Cut
  <2> QED
    BY <1>1, <1>4, <2>5, OpenSame DEF s
<1> QED
  BY <1>6, <1>7

LEMMA SafeTruncate ==
  ASSUME FatTypeInv, FatSafe, Truncate
  PROVE  FatSafe'
<1> SUFFICES ASSUME ~loose'
             PROVE  Safe(vol', entry', cur', fp', pc')
  BY DEF FatSafe
<1>1. /\ Proper /\ Edged /\ fp \in Fils /\ fp.o \in Objects /\ fp.o.size \in Nat
      /\ fp.fptr \in 0 .. MaxSize /\ fp.fptr \in Nat
  <2>1. fp.fptr \in 0 .. MaxSize /\ MaxSize \in Nat
    BY OpenFile, LoadedCur
  <2> QED
    BY <2>1, OpenFile
<1>2. /\ pc = "idle" /\ cur \in Files /\ ~fp.err /\ fp.fptr < fp.o.size
      /\ UNCHANGED <<pc, entry, cur>>
  BY <1>1, TruncateCases DEF Valid, Proper
<1>3. PICK r \in TruncateCut : TruncateCase(r)
  BY TruncateCases
<1>4. vol' = r.v /\ ~loose /\ r.ret # DISK
  BY <1>3 DEF TruncateCase, Takes
<1>5. r.o \in Objects /\ r.o.sclust = fp.o.sclust /\ r.o.n_frag = fp.o.n_frag
  BY <1>1, TruncateCutType
<1> DEFINE z == IF fp.fptr = 0 THEN 0 ELSE r.o.sclust
           p == [r.o EXCEPT !.size = fp.fptr, !.sclust = IF fp.fptr = 0 THEN 0 ELSE @]
<1>6. /\ p \in Objects /\ p.sclust = z /\ p.size = fp.fptr /\ p.stat = r.o.stat
      /\ p.n_cont = r.o.n_cont /\ p.n_frag = r.o.n_frag
  BY <1>1, <1>5 DEF Objects
<1> HIDE DEF p
<1>7. fp' = [fp EXCEPT !.o = p, !.modified = TRUE, !.err = r.ret # OK]
  BY <1>3 DEF TruncateCase, p
<1>8. Cut(r, fp')
  <2>1. fp'.o = p /\ fp'.fptr = fp.fptr /\ fp'.clust = fp.clust /\ fp'.err = (r.ret # OK)
    BY <1>1, <1>7 DEF Fils
  <2> QED
    BY <1>6, <2>1, Zenon DEF Cut
<1>9. PICK ch : SafeIn(vol, entry, cur, fp, "idle", ch)
  BY <1>2, <1>4, SafeOpen
<1> DEFINE next == GetFat(vol, fp.o, fp.clust)
<1>10. CASE fp.fptr = 0
  <2>1. r \in RemoveChain(vol, fp.o, fp.o.sclust, 0)
    BY <1>10, ZenonT(60) DEF TruncateCut
  <2>2. /\ fp'.o \in Objects /\ fp'.o.sclust = 0 /\ fp'.o.size = 0 /\ fp'.o.stat = r.o.stat
        /\ fp'.o.n_frag = r.o.n_frag /\ fp'.fptr = 0 /\ fp'.err = (r.ret # OK)
    BY <1>8, <1>10, Zenon DEF Cut
  <2>3. 0 < fp.o.size
    BY <1>2, <1>10
  <2>4. Safe(r.v, entry, cur, fp', "idle")
    BY <1>2, <1>4, <1>9, <1>10, <2>1, <2>2, <2>3, SafeEmptied
  <2> QED
    BY <1>2, <1>4, <2>4
<1>11. CASE fp.fptr # 0 /\ next \in Clst
  <2>1. ~(next < 2)
    BY <1>11, FatAssumption
  <2>2. r \in RemoveChain(vol, fp.o, next, fp.clust) \cup {Stopped(vol, fp.o)}
    BY <1>11, <2>1, ZenonT(60) DEF TruncateCut
  <2>3. Stopped(vol, fp.o).ret = DISK
    BY OutcomeFields DEF Stopped
  <2>4. r \in RemoveChain(vol, fp.o, next, fp.clust)
    BY <1>4, <2>2, <2>3
  <2>5. 0 < fp.fptr
    BY <1>1, <1>11
  <2>6. Safe(r.v, entry, cur, fp', "idle")
    BY <1>2, <1>4, <1>8, <1>9, <1>11, <2>4, <2>5, SafeCutTail
  <2> QED
    BY <1>2, <1>4, <2>6
<1>12. CASE fp.fptr # 0 /\ next \notin Clst
  <2>1. r.v = vol /\ r.o = fp.o /\ r.ret = IF next < 2 THEN INT_ERR ELSE OK
    <3>1. CASE next < 2
      <4>1. r \in {Outcome(vol, fp.o, INT_ERR)}
        BY <1>12, <3>1, ZenonT(60) DEF TruncateCut
      <4> QED
        BY <3>1, <4>1, OutcomeFields
    <3>2. CASE ~(next < 2)
      <4>1. r \in {Outcome(vol, fp.o, OK), Stopped(vol, fp.o)}
        BY <1>12, <3>2, ZenonT(60) DEF TruncateCut
      <4>2. Stopped(vol, fp.o).ret = DISK
        BY OutcomeFields DEF Stopped
      <4>3. r = Outcome(vol, fp.o, OK)
        BY <1>4, <4>1, <4>2
      <4> QED
        BY <3>2, <4>3, OutcomeFields
    <3> QED
      BY <3>1, <3>2
  <2>2. 0 < fp.fptr
    BY <1>1, <1>12
  <2>3. Safe(r.v, entry, cur, fp', "idle")
    BY <1>2, <1>8, <1>9, <1>12, <2>1, <2>2, SafeCutSame
  <2> QED
    BY <1>2, <1>4, <2>3
<1> QED
  BY <1>10, <1>11, <1>12

-----------------------------------------------------------------------------
\* f_sync and f_close: the FAT chain is completed, or not

\* fill_first_frag has written n links.
FirstLinks(v, w, s, n) ==
  /\ w \in Volumes /\ Patched(v, w, s)
  /\ \A i \in 1 .. Len(s) : w.fat[s[i]] = IF i <= n THEN s[i + 1] ELSE v.fat[s[i]]

LEMMA FirstLinked ==
  ASSUME NEW v \in Volumes, v.type = "exfat", NEW o \in Objects, o.stat = 3, NEW s,
         Broken(v, o, s), NEW n \in Nat, n <= o.n_cont
  PROVE  /\ s \in Seq(Clst) /\ Injective(s) /\ Len(s) \in Nat /\ o.n_cont \in Nat
         /\ o.n_cont + 1 <= Len(s) /\ o.sclust = s[1] /\ Run(s, 1, o.n_cont + 1)
         /\ FirstLinks(v, PutRun(v, o.sclust, n, o.n_cont + 1, EOC), s, n)
<1> DEFINE m == Len(s)
           k == o.n_cont
           a == 1
           w == PutRun(v, s[a], n, k + 1, EOC)
<1>1. s \in Seq(Clst) /\ Injective(s) /\ m \in Nat /\ k \in Nat
      /\ k + 1 <= m /\ o.sclust = s[1] /\ Run(s, 1, k + 1)
  <2>1. k \in Nat
    BY FatAssumption DEF Objects
  <2>2. CASE Shape(v, o, s)
    <3>1. /\ s \in Seq(Clst) /\ m \in Nat /\ Injective(s)
          /\ k + 1 \in 1 .. m /\ (m > 0 => o.sclust = s[1])
      BY <2>2, ShapeFields
    <3>2. Run(s, 1, k + 1)
      BY <2>2 DEF Shape
    <3> HIDE DEF m, k
    <3> QED
      BY <2>1, <3>1, <3>2 DEF k
  <2>3. CASE Frayed(o, s)
    <3>1. /\ s \in Seq(Clst) /\ Injective(s) /\ m > 0 /\ o.sclust = s[1]
          /\ k = m - 1 /\ Run(s, 1, m)
      BY <2>3 DEF Frayed
    <3>2. m \in Nat
      BY <3>1, SeqFacts
    <3> HIDE DEF m, k
    <3>3. k + 1 = m
      BY <3>1, <3>2
    <3> QED
      BY <2>1, <3>1, <3>2, <3>3
  <2> QED
    BY <2>2, <2>3 DEF Broken
<1>2. /\ a \in 1 .. m /\ a + n - 1 = n /\ n <= m /\ k + 1 \in Nat /\ a + (k + 1) - 1 = k + 1
      /\ a + n - 1 <= m
  BY <1>1
<1>3. \A i \in 1 .. k + 1 : s[i] = s[1] + (i - 1)
  BY <1>1 DEF Run
<1>4. Run(s, a, a + n - 1)
  BY <1>1, <1>3 DEF Run
<1>5. w = PutRun(v, o.sclust, n, k + 1, EOC)
  BY <1>1
<1>6. EOC \in 0 .. EOC /\ s[1] \in Clst /\ s[1] \in Int /\ n \in Int /\ k + 1 \in Int
  <2>1. s[1] \in Clst
    BY <1>1, <1>2, SeqFacts
  <2> QED
    BY <1>1, <2>1, FatAssumption
<1>7. w \in Volumes /\ SameBut(v, w)
  BY <1>1, <1>5, <1>6, PutRunSame
<1> HIDE DEF a, w, m, k
<1>8. RunLinked(v, w, s, a, n, k + 1, EOC)
  BY <1>1, <1>2, <1>4, RunPut DEF w, m
<1>9. /\ \A i \in 1 .. m :
           w.fat[s[i]] = IF i \in a .. a + n - 1 THEN IF i = a + (k + 1) - 1 THEN EOC ELSE s[i] + 1
                         ELSE v.fat[s[i]]
      /\ \A d \in Clst : d \notin Range(s) => w.fat[d] = v.fat[d]
  BY <1>8 DEF RunLinked, m
<1>10. Patched(v, w, s)
  BY <1>7, <1>9 DEF Patched
<1>11. ASSUME NEW i \in 1 .. m
       PROVE  w.fat[s[i]] = IF i <= n THEN s[i + 1] ELSE v.fat[s[i]]
  <2>1. CASE i <= n
    <3>4. a = 1 /\ n <= k
      BY DEF k, a
    <3>1. i \in a .. a + n - 1 /\ i # a + (k + 1) - 1 /\ i \in 1 .. k + 1 /\ i + 1 \in 1 .. k + 1
      BY <1>1, <2>1, <3>4
    <3>2. s[i] = s[1] + (i - 1) /\ s[i + 1] = s[1] + (i + 1 - 1)
      BY <1>3, <3>1
    <3>3. w.fat[s[i]] = s[i] + 1
      BY <1>9, <3>1
    <3> QED
      BY <1>6, <2>1, <3>2, <3>3
  <2>2. CASE ~(i <= n)
    <3>1. i \notin a .. a + n - 1
      BY <1>2, <2>2
    <3> QED
      BY <1>9, <2>2, <3>1
  <2> QED
    BY <2>1, <2>2
<1>12. FirstLinks(v, w, s, n)
  BY <1>7, <1>10, <1>11 DEF FirstLinks, m
<1> QED
  BY <1>1, <1>5, <1>12 DEF m, k

\* All of them, and the status says so.
LEMMA FirstFilled ==
  ASSUME NEW v \in Volumes, v.type = "exfat", NEW o \in Objects, NEW s, Broken(v, o, s),
         NEW r \in FillFirst(v, o), r.ret = OK
  PROVE  /\ r.v \in Volumes /\ r.o \in Objects /\ r.o.n_frag = o.n_frag /\ r.o.stat \in {0, o.stat}
         /\ r.o.stat \in {0, 2} /\ Shape(r.v, r.o, s) /\ Patched(v, r.v, s)
         /\ Rerouted(v, r.v, Firm(r.o, s))
<1>1. /\ r.v \in Volumes /\ r.o \in Objects /\ r.o.sclust = o.sclust
      /\ r.o.n_frag = o.n_frag /\ r.o.stat \in {0, o.stat} /\ o.stat \in {0, 2, 3}
      /\ IF o.stat # 3 THEN r.v = v /\ r.o = o
         ELSE r.v = PutRun(v, o.sclust, o.n_cont, o.n_cont + 1, EOC) /\ r.o.stat = 0
  BY FillFirstOutcomes DEF Objects
<1>2. CASE o.stat # 3
  <2>1. Shape(v, o, s)
    BY <1>2 DEF Broken, Frayed
  <2>2. Shape(r.v, r.o, s) /\ Patched(v, r.v, s)
    BY <2>1, FirstFlushed
  <2>3. Rerouted(v, r.v, Firm(r.o, s))
    BY <1>1, <1>2 DEF Rerouted
  <2> QED
    BY <1>1, <1>2, <2>2, <2>3
<1>3. CASE o.stat = 3
  <2> DEFINE n == o.n_cont
  <2>1. /\ s \in Seq(Clst) /\ Injective(s) /\ Len(s) \in Nat /\ n \in Nat
        /\ n + 1 <= Len(s) /\ o.sclust = s[1]
    <3>1. n \in Nat /\ n <= n
      BY FatAssumption DEF Objects
    <3> HIDE DEF n
    <3> QED
      BY <1>3, <3>1, FirstLinked DEF n
  <2>2. FirstLinks(v, r.v, s, n)
    <3>1. n <= n /\ r.v = PutRun(v, o.sclust, n, o.n_cont + 1, EOC)
      BY <1>1, <1>3, <2>1
    <3> HIDE DEF n
    <3> QED
      BY <1>3, <2>1, <3>1, FirstLinked DEF n
  <2>3. Patched(v, r.v, s) /\ r.o.stat = 0
    BY <1>1, <1>3, <2>2 DEF FirstLinks
  <2>4. Shape(r.v, r.o, s)
    <3>1. CASE Shape(v, o, s)
      BY <3>1, FirstFlushed
    <3>2. CASE Frayed(o, s)
      <4>1. n = Len(s) - 1 /\ r.o.n_frag = 1
        BY <1>1, <3>2 DEF Frayed
      <4>2. First(r.o) = 1 /\ Edge(r.o) = 1
        BY <2>3, <4>1 DEF First, Edge
      <4>3. Linked(r.v, s, 1, Len(s) - 1)
        <5> SUFFICES ASSUME NEW i \in 1 .. Len(s) - 1
                     PROVE  r.v.fat[s[i]] = s[i + 1]
          BY DEF Linked
        <5>1. i \in 1 .. Len(s) /\ i <= n
          BY <2>1, <4>1
        <5> QED
          BY <2>2, <5>1 DEF FirstLinks
      <4>4. Run(s, Len(s) - 1 + 1, Len(s))
        <5>1. s[Len(s)] \in Clst
          <6>1. Len(s) \in 1 .. Len(s)
            BY <2>1
          <6>2. \A i \in 1 .. Len(s) : s[i] \in Clst
            BY <2>1, SeqFacts
          <6> QED
            BY <6>1, <6>2
        <5>2. s[Len(s)] \in Int
          BY <5>1, FatAssumption
        <5> QED
          BY <2>1, <5>2 DEF Run
      <4>5. Linked(r.v, s, First(r.o), Len(s) - Edge(r.o))
        BY <4>2, <4>3
      <4>6. r.o.n_frag > 0 => Run(s, Len(s) - r.o.n_frag + 1, Len(s))
        BY <4>1, <4>4
      <4>7. r.o.sclust = (IF Len(s) = 0 THEN 0 ELSE s[1]) /\ r.o.n_frag <= Len(s) /\ r.o.n_frag # 0
        BY <1>1, <2>1, <4>1
      <4> QED
        BY <2>1, <2>3, <4>5, <4>6, <4>7 DEF Shape
    <3> QED
      BY <3>1, <3>2 DEF Broken
  <2>5. Rerouted(v, r.v, Firm(r.o, s))
    <3>1. \A d \in Clst : d \notin Range(s) => r.v.fat[d] = v.fat[d]
      BY <2>3 DEF Patched
    <3>2. \A d : d \in Range(s) => \E i \in 1 .. Len(s) : d = s[i]
      BY <2>1, RangeIs
    <3>3. Firm(r.o, s) = {s[i] : i \in 1 .. Len(s)}
      BY <2>3 DEF Firm, First
    <3> QED
      BY <3>1, <3>2, <3>3 DEF Rerouted
  <2> QED
    BY <1>1, <2>3, <2>4, <2>5
<1> QED
  BY <1>2, <1>3

\* Only some of them: nothing that the file is read by has changed.
LEMMA FirstStopped ==
  ASSUME NEW v \in Volumes, v.type = "exfat", NEW o \in Objects, NEW s, Broken(v, o, s),
         NEW r \in FillFirst(v, o), r.ret = DISK
  PROVE  /\ r.v \in Volumes /\ r.o = o /\ o.stat = 3 /\ Broken(r.v, o, s) /\ Patched(v, r.v, s)
         /\ Shape(v, o, s) => Shape(r.v, o, s)
<1>1. OK # DISK
  BY FatAssumption
<1>2. o.stat = 3
  <2>1. o.stat # 3 => r = Outcome(v, o, OK)
    BY DEF FillFirst
  <2> QED
    BY <1>1, <2>1, OutcomeFields
<1>3. Outcome(PutRun(v, o.sclust, o.n_cont, o.n_cont + 1, EOC), [o EXCEPT !.stat = 0], OK).ret = OK
  BY OutcomeFields
<1>4. PICK n \in 0 .. o.n_cont - 1 : r = Outcome(PutRun(v, o.sclust, n, o.n_cont + 1, EOC), o, DISK)
  BY <1>1, <1>2, <1>3 DEF FillFirst
<1>5. r.v = PutRun(v, o.sclust, n, o.n_cont + 1, EOC) /\ r.o = o
  BY <1>4, OutcomeFields
<1>6. n \in Nat /\ n <= o.n_cont /\ n <= o.n_cont - 1
  BY <1>4, FatAssumption DEF Objects
<1>7. FirstLinks(v, r.v, s, n)
  BY <1>2, <1>5, <1>6, FirstLinked
<1>8. s \in Seq(Clst) /\ Len(s) \in Nat /\ o.n_cont \in Nat /\ o.n_cont + 1 <= Len(s)
  BY <1>2, <1>6, FirstLinked
<1>9. ASSUME Shape(v, o, s) PROVE Shape(r.v, o, s)
  <2> DEFINE m == Len(s)
             k == o.n_cont
             e == Edge(o)
  <2>1. First(o) = k + 1
    BY <1>2 DEF First
  <2>2. \A i \in 1 .. m : i > n => r.v.fat[s[i]] = v.fat[s[i]]
    <3> SUFFICES ASSUME NEW i \in 1 .. m, i > n PROVE r.v.fat[s[i]] = v.fat[s[i]]
      OBVIOUS
    <3>1. ~(i <= n)
      BY <1>6
    <3> QED
      BY <1>7, <3>1 DEF FirstLinks
  <2>3. e \in Nat /\ e >= 1
    BY FatAssumption DEF Edge, Objects
  <2>4. /\ s \in Seq(Clst) /\ Injective(s)
        /\ o.sclust = (IF Len(s) = 0 THEN 0 ELSE s[1])
        /\ o.n_frag <= Len(s)
        /\ o.n_cont + 2 <= Len(s) /\ Run(s, 1, o.n_cont + 1) /\ o.n_frag <= Len(s) - o.n_cont - 1
        /\ Linked(v, s, k + 1, m - e)
        /\ o.n_frag > 0 => Run(s, Len(s) - o.n_frag + 1, Len(s))
        /\ o.n_frag = 0 => v.fat[s[Len(s)]] = EOC
    <3>1. Len(s) > 0
      BY <1>8
    <3> QED
      BY <1>2, <1>9, <2>1, <3>1 DEF Shape
  <2>5. Linked(r.v, s, k + 1, m - e)
    <3> SUFFICES ASSUME NEW i \in k + 1 .. m - e PROVE r.v.fat[s[i]] = s[i + 1]
      BY DEF Linked
    <3> HIDE DEF e
    <3>1. i \in 1 .. m /\ i > n
      BY <1>6, <1>8, <2>3
    <3> QED
      BY <2>2, <2>4, <3>1 DEF Linked
  <2>6. r.v.fat[s[m]] = v.fat[s[m]]
    <3>1. m \in 1 .. m /\ m > n
      BY <1>6, <1>8
    <3> QED
      BY <2>2, <3>1
  <2> QED
    BY <1>2, <2>1, <2>4, <2>5, <2>6 DEF Shape
<1> QED
  BY <1>2, <1>5, <1>7, <1>9 DEF Broken, FirstLinks

\* The open file once its chain is on the FAT, or what of it was not stopped
Completed(v, r, o, s) ==
  /\ r.v \in Volumes /\ r.o \in Objects /\ Patched(v, r.v, s) /\ Broken(r.v, r.o, s)
  /\ Shape(v, o, s) => Shape(r.v, r.o, s)
  /\ r.o.sclust = o.sclust /\ r.o.size = o.size /\ r.o.stat \in {0, o.stat}
  /\ r.o.n_frag <= o.n_frag
  /\ r.ret = OK => r.o.n_frag = 0 /\ r.o.stat \in {0, 2} /\ Shape(r.v, r.o, s)
  /\ \/ Firm(o, s) \subseteq Firm(r.o, s) /\ Rerouted(v, r.v, Firm(r.o, s))
     \/ r.o = o /\ o.stat = 3 /\ r.ret = DISK /\ v.type = "exfat"

LEMMA SettledPartly ==
  ASSUME NEW v \in Volumes, NEW o \in Objects, Plain(v, o), NEW s, Broken(v, o, s),
         NEW clust \in 0 .. EOC, o.n_frag > 0 => clust = s[Len(s)],
         NEW r \in Settled(v, o, clust)
  PROVE  Completed(v, r, o, s)
<1>1. OK # DISK
  BY FatAssumption
<1>2. /\ r.v \in Volumes /\ r.o \in Objects /\ r.o.sclust = o.sclust /\ r.o.size = o.size
      /\ r.o.n_frag <= o.n_frag /\ r.ret \in {OK, DISK}
      /\ r.ret = OK => r.o.n_frag = 0 /\ r.o.stat \in {0, 2}
  BY SettledType
<1>3. CASE v.type # "exfat"
  <2>1. r.v = v /\ r.o = o
    BY <1>3, OutcomeFields DEF Settled
  <2>2. v.type = "fat32"
    BY <1>3 DEF Volumes
  <2>3. o.stat = 0
    BY <2>2 DEF Plain
  <2>4. Shape(v, o, s)
    BY <2>3 DEF Broken, Frayed
  <2>5. Rerouted(v, v, Firm(o, s)) /\ Patched(v, v, s)
    BY DEF Rerouted, Patched, SameBut
  <2> QED
    BY <1>2, <2>1, <2>3, <2>4, <2>5 DEF Completed, Broken
<1>4. CASE v.type = "exfat"
  <2>1. \/ r \in FillFirst(v, o) /\ r.ret = DISK
        \/ \E q \in FillFirst(v, o) : q.ret = OK /\ r \in FillLast(q.v, q.o, clust, EOC)
    BY <1>4 DEF Settled
  <2>2. CASE r \in FillFirst(v, o) /\ r.ret = DISK
    <3>1. r.o = o /\ o.stat = 3 /\ Broken(r.v, o, s) /\ Patched(v, r.v, s)
          /\ (Shape(v, o, s) => Shape(r.v, o, s))
      BY <1>4, <2>2, FirstStopped
    <3> QED
      BY <1>1, <1>2, <1>4, <2>2, <3>1 DEF Completed
  <2>3. CASE \E q \in FillFirst(v, o) : q.ret = OK /\ r \in FillLast(q.v, q.o, clust, EOC)
    <3>1. PICK q \in FillFirst(v, o) : q.ret = OK /\ r \in FillLast(q.v, q.o, clust, EOC)
      BY <2>3
    <3>2. /\ q.v \in Volumes /\ q.o \in Objects /\ q.o.n_frag = o.n_frag /\ q.o.stat \in {0, o.stat}
          /\ q.o.stat \in {0, 2} /\ Shape(q.v, q.o, s) /\ Patched(v, q.v, s)
          /\ Rerouted(v, q.v, Firm(q.o, s))
      BY <1>4, <3>1, FirstFilled
    <3>3. q.v.type = "exfat" /\ (q.o.n_frag > 0 => clust = s[Len(s)])
      BY <1>4, <3>2 DEF Patched, SameBut
    <3>4. Flushed(q.v, r, q.o, s)
      BY <3>1, <3>2, <3>3, FlushPartly
    <3>5. /\ Shape(r.v, r.o, s) /\ Patched(q.v, r.v, s) /\ Rerouted(q.v, r.v, Firm(q.o, s))
          /\ r.o.stat = q.o.stat
      BY <3>4 DEF Flushed
    <3>6. Patched(v, r.v, s)
      BY <3>2, <3>5 DEF Patched, SameBut
    <3>7. Firm(r.o, s) = Firm(q.o, s)
      <4>1. First(r.o) = First(q.o)
        BY <3>2, <3>5 DEF First
      <4> QED
        BY <3>5, <4>1 DEF Firm
    <3>8. Firm(o, s) \subseteq Firm(r.o, s)
      <4>1. CASE q.o.stat = 2
        <5>1. o.stat = 2
          BY <3>2, <4>1
        <5> QED
          BY <5>1 DEF Firm
      <4>2. CASE q.o.stat = 0
        <5>1. Firm(r.o, s) = {s[i] : i \in 1 .. Len(s)}
          BY <3>5, <4>2 DEF Firm, First
        <5>2. First(o) \in Nat /\ First(o) >= 1
          BY FirstIs
        <5>3. s \in Seq(Clst) /\ Len(s) \in Nat
          BY <3>5, SeqFacts DEF Shape
        <5>4. \A i \in First(o) .. Len(s) : i \in 1 .. Len(s)
          BY <5>2, <5>3
        <5> QED
          BY <5>1, <5>4 DEF Firm
      <4> QED
        BY <3>2, <4>1, <4>2
    <3>9. Rerouted(v, r.v, Firm(r.o, s))
      <4> SUFFICES ASSUME NEW c \in Clst, c \notin Firm(r.o, s), r.v.fat[c] # v.fat[c]
                   PROVE  Ends(r.v, c)
        BY DEF Rerouted
      <4>1. r.v.fat[c] = q.v.fat[c] \/ Ends(r.v, c)
        BY <3>5, <3>7 DEF Rerouted
      <4>2. q.v.fat[c] = v.fat[c] \/ Ends(q.v, c)
        BY <3>2, <3>7 DEF Rerouted
      <4>3. r.v.type = q.v.type
        BY <3>5 DEF Patched, SameBut
      <4> QED
        BY <4>1, <4>2, <4>3 DEF Ends
    <3>10. r.o.stat \in {0, o.stat}
      BY <3>2, <3>5
    <3> QED
      BY <1>2, <3>5, <3>6, <3>8, <3>9, <3>10 DEF Completed, Broken
  <2> QED
    BY <2>1, <2>2, <2>3
<1> QED
  BY <1>3, <1>4

\* A file is closed: its entry leads to clusters that are in use.
LEMMA SafeClosed ==
  ASSUME NEW v \in Volumes, NEW w \in Volumes, NEW en \in [Files -> Entries \cup {NoEntry}],
         NEW cu \in Files, NEW ch, Aside(v, en, cu, ch), Spares(v, w, ch[cu]),
         NEW ex, SameEntries(en, ex, cu), Old(w, ex[cu], {}, Others(ch, cu)),
         \A c \in Range(ChainOf(w, LoadedOn(w, ex[cu]))) : ~IsFree(w, c), NEW g, NEW au
  PROVE  Safe(w, ex, NoFile, g, au)
<1> DEFINE e == ex[cu]
           X == Others(ch, cu)
<1>1. e \in Entries /\ (e.sclust = 0 => e.size = 0)
  BY DEF Old
<1>2. \E p \in Seq(Clst) : Own(w, ch, cu, p) /\ Leads(w, e, p)
  <2>1. CASE e.sclust = 0
    <3> DEFINE p == <<>>
               o == LoadedOn(w, e)
    <3>1. o \in Objects /\ o.sclust = 0 /\ o.size = 0 /\ o.n_frag = 0 /\ o.stat \in {0, 2}
      BY <1>1, <2>1, LoadedOnType DEF Entries
    <3>2. p \in Seq(Clst) /\ Len(p) = 0 /\ Range(p) = {}
      BY DEF Range
    <3>3. Count(0) = 0
      <4> DEFINE z == 0
      <4>1. z \in Nat
        OBVIOUS
      <4> HIDE DEF z
      <4>2. Count(z) = 0 <=> z = 0
        BY <4>1, CountBounds
      <4> QED
        BY <4>2 DEF z
    <3>4. Own(w, ch, cu, p)
      BY <3>2 DEF Own
    <3> HIDE DEF o, p
    <3>5. Shape(w, o, p)
      <4>1. Injective(p) /\ Run(p, 1, Len(p))
        BY <3>2 DEF Injective, Run
      <4>2. Edge(o) = 1 /\ First(o) = 1
        BY <3>1 DEF Edge, First
      <4>3. Linked(w, p, First(o), Len(p) - Edge(o))
        BY <3>2, <4>2 DEF Linked
      <4>4. /\ o.sclust = IF Len(p) = 0 THEN 0 ELSE p[1]
            /\ o.n_frag <= Len(p) /\ o.n_frag = 0 /\ o.stat # 3 /\ ~(Len(p) > 0)
        BY <3>1, <3>2
      <4> QED
        BY <3>2, <4>1, <4>3, <4>4 DEF Shape
    <3>6. Sized(o, p)
      BY <3>1, <3>2, <3>3 DEF Sized
    <3>7. e # NoEntry
      <4>1. NoEntry.sclust = UNKNOWN
        BY DEF NoEntry, Object
      <4>2. UNKNOWN # 0
        BY FatAssumption
      <4> QED
        BY <2>1, <4>1, <4>2
    <3> QED
      BY <3>2, <3>4, <3>5, <3>6, <3>7 DEF Leads, o
  <2>2. CASE e.sclust # 0
    <3>1. PICK p \in Seq(Clst) : /\ ChainOf(w, LoadedOn(w, e)) = p
                                 /\ \A c \in Range(p) : c \notin X
                                 /\ Taken(w, p) => Leads(w, e, p)
      BY <2>2, OldFound
    <3>2. \A c \in Range(p) : ~IsFree(w, c)
      BY <3>1
    <3> QED
      BY <3>1, <3>2 DEF Own, Taken
  <2> QED
    BY <2>1, <2>2
<1>3. PICK p \in Seq(Clst) : Own(w, ch, cu, p) /\ Leads(w, e, p)
  BY <1>2
<1> QED
  BY <1>3, OpenClosed

\* Where the entry leads once f_sync has come to r, and stored it or not
LEMMA SyncOld ==
  ASSUME FatTypeInv, cur \in Files, NEW ch, SafeIn(vol, entry, cur, fp, "idle", ch),
         NEW r \in Settled(vol, fp.o, fp.clust), ~FirstHalfway(r),
         NEW e, e = entry[cur] \/ (r.ret = OK /\ e = Object(r.o.sclust, r.o.size, r.o.stat))
  PROVE  Completed(vol, r, fp.o, ch[cur]) /\ Old(r.v, e, Firm(r.o, ch[cur]), Others(ch, cur))
<1> DEFINE s == ch[cur]
           o == fp.o
           X == Others(ch, cur)
<1>1. /\ Proper /\ vol \in Volumes /\ o \in Objects /\ Plain(vol, o) /\ fp.clust \in 0 .. EOC
      /\ cur # NoFile
  BY OpenFile, CurIn, FileAssumption
<1>2. /\ s \in Seq(Clst) /\ Grip(vol, fp, s, "idle") /\ Old(vol, entry[cur], Firm(o, s), X)
      /\ Unshared(vol, ch)
  BY <1>1, SafeHeld DEF SafeIn, Aside
<1>3. \A c \in Range(s) : c \notin X
  BY <1>2, OwnApart
<1> HIDE DEF s, X
<1>4. Broken(vol, o, s) /\ Roomy(o, s) /\ (o.n_frag > 0 => fp.clust = s[Len(s)])
  BY <1>1, <1>2, RestingRoomy DEF Grip, Resting, Broken
<1>5. Completed(vol, r, o, s)
  BY <1>1, <1>4, SettledPartly
<1>6. r.v \in Volumes /\ r.v.type = vol.type /\ Plain(r.v, r.o) /\ r.o \in Objects
  BY <1>1, SettledType
<1>7. CASE e = entry[cur]
  <2>1. CASE Firm(o, s) \subseteq Firm(r.o, s) /\ Rerouted(vol, r.v, Firm(r.o, s))
    <3> DEFINE F == Firm(o, s)
               G == Firm(r.o, s)
    <3>1. F \subseteq G /\ Rerouted(vol, r.v, G) /\ X \subseteq X /\ Old(vol, e, F, X)
      BY <1>2, <1>7, <2>1
    <3> HIDE DEF F, G
    <3>2. Old(r.v, e, G, X)
      BY <1>6, <3>1, OldKeeps
    <3> QED
      BY <1>5, <3>2 DEF G, s, X
  <2>2. CASE r.o = o /\ o.stat = 3 /\ r.ret = DISK /\ vol.type = "exfat"
    <3>1. r.v = vol \/ entry[cur].stat # 0 \/ entry[cur].sclust = 0
      BY <2>2 DEF FirstHalfway
    <3>2. CASE r.v = vol
      BY <1>2, <1>5, <1>7, <2>2, <3>2 DEF s, X
    <3>3. CASE entry[cur].stat # 0 \/ entry[cur].sclust = 0
      <4>1. e.sclust = 0 \/ (vol.type = "exfat" /\ e.stat = 2)
        BY <1>2, <1>7, <2>2, <3>3 DEF Old, Entries
      <4>2. Old(r.v, e, Firm(r.o, s), X)
        BY <1>2, <1>6, <1>7, <4>1, OldApart
      <4> QED
        BY <1>5, <4>2 DEF s, X
    <3> QED
      BY <3>1, <3>2, <3>3
  <2> QED
    BY <1>5, <2>1, <2>2 DEF Completed
<1>8. CASE r.ret = OK /\ e = Object(r.o.sclust, r.o.size, r.o.stat)
  <2>1. /\ Shape(r.v, r.o, s) /\ r.o.n_frag = 0 /\ r.o.stat \in {0, 2}
        /\ r.o.size = o.size /\ r.o.stat \in {0, o.stat}
    BY <1>5, <1>8 DEF Completed
  <2>2. e \in Entries /\ e.sclust = r.o.sclust /\ e.size = r.o.size /\ e.stat = r.o.stat
    BY <1>6, <1>8, <2>1 DEF Object, Entries, Objects
  <2> DEFINE p == LoadedOn(r.v, e)
  <2>3. p \in Objects /\ p.sclust = r.o.sclust /\ p.size = o.size /\ p.stat = r.o.stat /\ p.n_frag = 0
    <3>1. /\ p \in Objects /\ p.sclust = e.sclust /\ p.size = e.size
          /\ p.stat = (IF r.v.type = "exfat" THEN e.stat ELSE 0) /\ p.n_frag = 0
      BY <1>6, <2>2, LoadedOnType
    <3>2. r.v.type # "exfat" => r.o.stat = 0
      BY <1>6 DEF Plain, Volumes
    <3> QED
      BY <2>1, <2>2, <3>1, <3>2
  <2> HIDE DEF p
  <2>4. Shape(r.v, p, s)
    BY <2>1, <2>3, SameShape
  <2>5. Roomy(p, s)
    BY <1>4, <2>1, <2>3 DEF Roomy
  <2>6. Old(r.v, e, Firm(r.o, s), X)
    BY <1>3, <1>6, <2>2, <2>3, <2>4, <2>5, OldFresh DEF p
  <2> QED
    BY <1>5, <2>6 DEF s, X
<1> QED
  BY <1>7, <1>8

\* f_close has come to w with the object o, and nothing is left loose.
LEMMA SafeCloses ==
  ASSUME FatTypeInv, cur \in Files, NEW ch, SafeIn(vol, entry, cur, fp, "idle", ch),
         NEW w \in Volumes, Patched(vol, w, ch[cur]), NEW o \in Objects, Broken(w, o, ch[cur]),
         NEW ex, SameEntries(entry, ex, cur),
         Old(w, ex[cur], Firm(o, ch[cur]), Others(ch, cur)), ~LeftLoose(w, o, ex[cur]),
         NEW g, NEW au
  PROVE  Safe(w, ex, NoFile, g, au)
<1> DEFINE s == ch[cur]
           X == Others(ch, cur)
           e == ex[cur]
<1>1. /\ vol \in Volumes /\ entry \in [Files -> Entries \cup {NoEntry}] /\ cur # NoFile
  BY OpenFile, FileAssumption DEF Proper
<1>2. Aside(vol, entry, cur, ch) /\ Unshared(vol, ch) /\ s \in Seq(Clst) /\ Taken(vol, s)
  BY <1>1, SafeHeld DEF SafeIn, Aside
<1>3. w.type = vol.type /\ Spares(vol, w, s)
  BY <1>2, PatchedMoves DEF Moves, Spares
<1>4. o.n_frag = 0 /\ \A c \in Range(ChainOf(w, Loaded(e))) : ~IsFree(w, c)
  <2>1. ~(o.n_frag > 0) /\ \A c \in Range(ChainOf(w, Loaded(e))) : ~IsFree(w, c)
    BY DEF LeftLoose
  <2>2. o.n_frag \in Nat
    BY FatAssumption DEF Objects
  <2> QED
    BY <2>1, <2>2
<1>5. Loaded(e) = LoadedOn(w, e)
  BY <1>3 DEF Loaded, LoadedOn
<1>6. Shape(w, o, s)
  BY <1>4 DEF Broken, Frayed
<1>7. \A c \in Range(s) : c \notin X
  BY <1>2, OwnApart
<1> HIDE DEF s, X, e
<1>8. Old(w, e, Firm(o, s), X)
  BY DEF s, X, e
<1>9. Old(w, e, {}, X)
  BY <1>4, <1>6, <1>7, <1>8, OldGoesOn
<1>10. \A c \in Range(ChainOf(w, LoadedOn(w, e))) : ~IsFree(w, c)
  BY <1>4, <1>5
<1> QED
  BY <1>1, <1>2, <1>3, <1>9, <1>10, SafeClosed DEF s, X, e

LEMMA SafeSync ==
  ASSUME FatTypeInv, FatSafe, NEW close \in BOOLEAN, Sync(close)
  PROVE  FatSafe'
<1> SUFFICES ASSUME ~loose'
             PROVE  Safe(vol', entry', cur', fp', pc')
  BY DEF FatSafe
<1>1. /\ Proper /\ vol \in Volumes /\ fp \in Fils /\ fp.o \in Objects /\ Plain(vol, fp.o)
      /\ entry \in [Files -> Entries \cup {NoEntry}] /\ fp.clust \in 0 .. EOC
  BY OpenFile, CurIn DEF Proper
<1>2. pc = "idle" /\ cur \in Files /\ pc' = pc
  BY <1>1, SyncCases DEF Proper
<1>3. SameEntries(entry, entry, cur)
  BY DEF SameEntries
<1>4. CASE /\ ~fp.modified /\ close
           /\ loose' = (loose \/ LeftLoose(vol, fp.o, entry[cur]))
           /\ UNCHANGED <<vol, entry, faults>>
           /\ cur' = NoFile /\ fp' = Closed
  <2>1. ~loose /\ ~LeftLoose(vol, fp.o, entry[cur])
    BY <1>4
  <2>2. PICK ch : SafeIn(vol, entry, cur, fp, "idle", ch)
    BY <1>2, <2>1, SafeOpen
  <2> DEFINE s == ch[cur]
  <2>3. /\ Grip(vol, fp, s, "idle") /\ Old(vol, entry[cur], Firm(fp.o, s), Others(ch, cur))
    BY <1>2, <2>2, FileAssumption, SafeHeld DEF SafeIn
  <2>4. Broken(vol, fp.o, s)
    BY <2>3 DEF Grip, Broken
  <2>5. Patched(vol, vol, s)
    BY DEF Patched, SameBut
  <2>6. Safe(vol, entry, NoFile, fp', pc')
    BY <1>1, <1>2, <1>3, <2>1, <2>2, <2>3, <2>4, <2>5, SafeCloses
  <2> QED
    BY <1>4, <2>6
<1>5. ASSUME NEW r \in Settled(vol, fp.o, fp.clust),
             SyncCase(close, r, [entry EXCEPT ![cur] = Object(r.o.sclust, r.o.size, r.o.stat)])
      PROVE  Safe(vol', entry', cur', fp', pc')
  <2> DEFINE x == Object(r.o.sclust, r.o.size, r.o.stat)
             stored == [entry EXCEPT ![cur] = x]
  <2>1. /\ vol' = r.v
        /\ entry' = entry \/ (r.ret = OK /\ entry' = stored)
        /\ loose' = (loose \/ FirstHalfway(r) \/ (close /\ LeftLoose(r.v, r.o, entry'[cur])))
        /\ \/ close /\ cur' = NoFile /\ fp' = Closed
           \/ /\ ~close /\ cur' = cur
              /\ \E kept \in BOOLEAN : fp' = [fp EXCEPT !.o = r.o, !.modified = kept]
    BY <1>5 DEF SyncCase
  <2>2. ~loose /\ ~FirstHalfway(r) /\ (close => ~LeftLoose(r.v, r.o, entry'[cur]))
    BY <2>1
  <2>3. SameEntries(entry, entry', cur)
    BY <1>1, <1>2, <2>1 DEF SameEntries
  <2>4. entry'[cur] = entry[cur] \/ (r.ret = OK /\ entry'[cur] = x)
    BY <1>1, <1>2, <2>1
  <2>5. PICK ch : SafeIn(vol, entry, cur, fp, "idle", ch)
    BY <1>2, <2>2, SafeOpen
  <2> DEFINE s == ch[cur]
             e == entry'[cur]
  <2>6. Completed(vol, r, fp.o, s) /\ Old(r.v, e, Firm(r.o, s), Others(ch, cur))
    <3> HIDE DEF e
    <3>1. e = entry[cur] \/ (r.ret = OK /\ e = Object(r.o.sclust, r.o.size, r.o.stat))
      BY <2>4 DEF e
    <3> QED
      BY <1>2, <2>2, <2>5, <3>1, SyncOld
  <2>7. /\ r.v \in Volumes /\ r.o \in Objects /\ Patched(vol, r.v, s) /\ Broken(r.v, r.o, s)
    BY <2>6 DEF Completed
  <2>8. CASE close
    <3>1. Safe(r.v, entry', NoFile, fp', pc')
      BY <1>2, <2>2, <2>3, <2>5, <2>6, <2>7, <2>8, SafeCloses
    <3> QED
      BY <2>1, <2>8, <3>1
  <2>9. CASE ~close
    <3>1. PICK kept \in BOOLEAN : fp' = [fp EXCEPT !.o = r.o, !.modified = kept]
      BY <2>1, <2>9
    <3>2. /\ fp'.o = r.o /\ fp'.clust = fp.clust /\ fp'.fptr = fp.fptr /\ fp'.err = fp.err
          /\ cur' = cur
      BY <1>1, <2>1, <2>9, <3>1 DEF Fils
    <3>3. s \in Seq(Clst) /\ Taken(vol, s) /\ Grip(vol, fp, s, "idle") /\ Aside(vol, entry, cur, ch)
      BY <1>2, <2>5, SafeHeld DEF SafeIn
    <3>4. /\ r.o.size = fp.o.size /\ r.o.stat \in {0, fp.o.stat} /\ r.o.n_frag <= fp.o.n_frag
          /\ (Shape(vol, fp.o, s) => Shape(r.v, r.o, s))
          /\ r.o.n_frag \in Nat /\ fp.o.n_frag \in Nat
      BY <1>1, <2>6, FatAssumption DEF Completed, Objects
    <3> HIDE DEF s, e
    <3>5. Grip(r.v, fp', s, "idle")
      <4>1. r.o.n_frag > 0 => fp'.clust = s[Len(s)]
        BY <3>2, <3>3, <3>4 DEF Grip
      <4>2. CASE fp.err
        <5>1. Roomy(r.o, s)
          BY <3>3, <3>4, <4>2 DEF Grip, Roomy
        <5> QED
          BY <2>7, <3>2, <4>1, <4>2, <5>1 DEF Grip, s
      <4>3. CASE ~fp.err
        <5>1. Shape(r.v, r.o, s) /\ Resting(fp, s)
          BY <3>3, <3>4, <4>3 DEF Grip
        <5>2. Sized(r.o, s)
          BY <3>4, <5>1 DEF Resting, Sized
        <5>3. Adrift(fp, s) => Adrift(fp', s)
          BY <3>2, <3>4 DEF Adrift
        <5>4. Resting(fp', s)
          BY <3>2, <3>4, <5>1, <5>2, <5>3 DEF Resting
        <5> QED
          BY <3>2, <4>1, <4>3, <5>1, <5>4 DEF Grip
      <4> QED
        BY <4>2, <4>3
    <3>6. Moves(vol, r.v, s, s)
      BY <2>7, <3>3, PatchedMoves DEF s
    <3>7. Spares(vol, r.v, s) /\ Own(r.v, ch, cur, s)
      BY <1>2, <3>3, <3>6, MovesOwn DEF Moves, Aside, s
    <3>8. Old(r.v, entry'[cur], Firm(fp'.o, s), Others(ch, cur))
      BY <2>6, <3>2 DEF s, e
    <3>9. Safe(r.v, entry', cur, fp', "idle")
      BY <1>1, <1>2, <2>3, <2>7, <3>3, <3>5, <3>7, <3>8, OpenChanged DEF s
    <3> QED
      BY <1>2, <2>1, <3>2, <3>9
  <2> QED
    BY <2>8, <2>9
<1> QED
  BY <1>4, <1>5, SyncCases

-----------------------------------------------------------------------------
\* f_open and f_unlink

\* What is done to the links of other files does not matter to the open one.
LEMMA GripStays ==
  ASSUME NEW v, NEW w, NEW f, f.o \in Objects, NEW s, NEW at, Grip(v, f, s, at),
         \A c \in Range(s) : w.fat[c] = v.fat[c]
  PROVE  Grip(w, f, s, at)
<1>1. Shape(v, f.o, s) => Shape(w, f.o, s)
  BY ShapeStays
<1> QED
  BY <1>1 DEF Grip, Broken

\* A file that is not open gives up its clusters, and its entry says so.
LEMMA OthersGone ==
  ASSUME NEW v \in Volumes, NEW w \in Volumes, NEW en \in [Files -> Entries \cup {NoEntry}],
         NEW cu \in Files \cup {NoFile}, NEW f, f.o \in Objects, NEW at, NEW ch,
         SafeIn(v, en, cu, f, at, ch), NEW h \in Files, h # cu,
         Moves(v, w, ch[h], <<>>), Rerouted(v, w, {}),
         NEW ex, SameEntries(en, ex, h), Leads(w, ex[h], <<>>)
  PROVE  Safe(w, ex, cu, f, at)
<1> DEFINE t == <<>>
<1>1. /\ ch \in [Files -> Seq(Clst)] /\ Unshared(v, ch)
      /\ \A g \in Files : g # cu => Leads(v, en[g], ch[g])
  BY DEF SafeIn, Aside
<1>2. Spares(v, w, ch[h]) /\ w.type = v.type
  BY DEF Moves, Spares
<1>3. t \in Seq(Clst) /\ Range(t) = {}
  BY DEF Range
<1> HIDE DEF t
<1>4. Own(w, ch, h, t)
  BY <1>3 DEF Own
<1>5. PICK dh : Changed(v, w, ch, dh, h, t)
  BY <1>1, <1>2, <1>4, ChangeOne
<1>6. /\ dh \in [Files -> Seq(Clst)] /\ Unshared(w, dh) /\ dh[h] = t
      /\ \A g \in Files : g # h => dh[g] = ch[g] /\ \A c \in Range(ch[g]) : w.fat[c] = v.fat[c]
  BY <1>5 DEF Changed
<1>7. ASSUME NEW g \in Files, g # cu PROVE Leads(w, ex[g], dh[g])
  <2>1. CASE g = h
    BY <1>6, <2>1 DEF t
  <2>2. CASE g # h
    <3> DEFINE e == en[g]
               s == ch[g]
    <3>1. e \in Entries \cup {NoEntry} /\ Leads(v, e, s) /\ ex[g] = e /\ dh[g] = s
      BY <1>1, <1>6, <1>7, <2>2 DEF SameEntries
    <3>2. \A c \in Range(s) : w.fat[c] = v.fat[c]
      BY <1>6, <2>2
    <3> HIDE DEF e, s
    <3> QED
      BY <1>2, <3>1, <3>2, LeadsStays
  <2> QED
    BY <2>1, <2>2
<1>8. ASSUME cu # NoFile
      PROVE  Grip(w, f, dh[cu], at) /\ Old(w, ex[cu], Firm(f.o, dh[cu]), Others(dh, cu))
  <2>1. cu \in Files /\ cu # h
    BY <1>8
  <2>2. /\ dh[cu] = ch[cu] /\ \A c \in Range(ch[cu]) : w.fat[c] = v.fat[c]
    BY <1>6, <2>1
  <2>3. /\ Grip(v, f, ch[cu], at) /\ Old(v, en[cu], Firm(f.o, ch[cu]), Others(ch, cu))
        /\ ex[cu] = en[cu]
    BY <1>8, <2>1 DEF SafeIn, SameEntries
  <2>4. Grip(w, f, dh[cu], at)
    BY <2>2, <2>3, GripStays
  <2> DEFINE F == Firm(f.o, ch[cu])
             X == Others(ch, cu)
             Y == Others(dh, cu)
  <2>5. Y \subseteq X
    <3> SUFFICES ASSUME NEW c \in Clst, NEW g \in Files, g # cu, c \in Range(dh[g])
                 PROVE  c \in X
      BY DEF Others
    <3>1. g # h
      BY <1>3, <1>6
    <3> QED
      BY <1>6, <3>1 DEF Others
  <2>6. Rerouted(v, w, F) /\ F \subseteq F
    BY DEF Rerouted
  <2> HIDE DEF F, X, Y
  <2>7. Old(v, en[cu], F, X)
    BY <2>3 DEF F, X
  <2>8. Old(w, en[cu], F, Y)
    BY <1>2, <2>5, <2>6, <2>7, OldKeeps
  <2> QED
    BY <2>2, <2>3, <2>4, <2>8 DEF F, Y
<1>9. SafeIn(w, ex, cu, f, at, dh)
  BY <1>6, <1>7, <1>8 DEF SafeIn, Aside
<1> QED
  BY <1>9 DEF Safe

\* A file is opened with what its entry says.
LEMMA OpenedSafe ==
  ASSUME NEW v \in Volumes, NEW en, NEW f, NEW at, NEW ch, SafeIn(v, en, NoFile, f, at, ch),
         NEW h \in Files, en[h] \in Entries, en[h] # NoEntry,
         NEW g, g.o = LoadedOn(v, en[h]), ~g.err, Resting(g, ch[h])
  PROVE  Safe(v, en, h, g, "idle")
<1> DEFINE e == en[h]
           s == ch[h]
           o == LoadedOn(v, e)
           X == Others(ch, h)
<1>1. Aside(v, en, NoFile, ch) /\ h # NoFile
  BY FileAssumption DEF SafeIn
<1>2. /\ ch \in [Files -> Seq(Clst)] /\ Unshared(v, ch) /\ Leads(v, e, s) /\ s \in Seq(Clst)
      /\ Aside(v, en, h, ch)
  <2>1. \A k \in Files : k # NoFile
    BY FileAssumption
  <2> QED
    BY <1>1, <2>1 DEF Aside
<1>3. \A c \in Range(s) : c \notin X
  BY <1>2, OwnApart
<1>4. o \in Objects /\ o.n_frag = 0
  BY LoadedOnType
<1>5. Shape(v, o, s) /\ Sized(o, s)
  BY <1>2 DEF Leads
<1> HIDE DEF s, X
<1>6. Roomy(o, s)
  BY <1>2, <1>4, <1>5, RestingRoomy
<1>7. Old(v, e, Firm(g.o, s), X)
  <2>1. g.o \in Objects /\ g.o.stat = LoadedOn(v, e).stat
    BY <1>4
  <2>2. Shape(v, LoadedOn(v, e), s) /\ Roomy(LoadedOn(v, e), s) /\ e \in Entries
    BY <1>5, <1>6
  <2> HIDE DEF e
  <2> QED
    BY <1>3, <2>1, <2>2, OldFresh
<1>8. Grip(v, g, s, "idle")
  <2>1. Shape(v, g.o, s) /\ ~(g.o.n_frag > 0)
    BY <1>4, <1>5
  <2> QED
    BY <2>1 DEF Grip, s
<1> QED
  BY <1>1, <1>2, <1>7, <1>8 DEF Safe, SafeIn, s, X

\* What a file that is not open leads to, and what is left when it is given up
LEMMA EntryGone ==
  ASSUME FatTypeInv, NEW cu \in Files \cup {NoFile}, NEW f, NEW at, NEW ch,
         SafeIn(vol, entry, cu, f, at, ch), NEW h \in Files, h # cu, Exists(h)
  PROVE  /\ Moves(vol, vol, ch[h], <<>>)
         /\ Loaded(entry[h]).sclust # 0 =>
              \A r \in RemoveChain(vol, Loaded(entry[h]), Loaded(entry[h]).sclust, 0) :
                r.v \in Volumes /\ Moves(vol, r.v, ch[h], <<>>) /\ Rerouted(vol, r.v, {})
<1> DEFINE o == Loaded(entry[h])
           s == ch[h]
<1>1. Proper /\ vol \in Volumes
  BY OpenFile
<1>2. /\ entry[h] \in Entries /\ o \in Objects /\ Plain(vol, o) /\ o.n_frag = 0
      /\ o = LoadedOn(vol, entry[h])
  BY <1>1, EntryLoads DEF Loaded, LoadedOn
<1>3. Leads(vol, entry[h], s)
  BY DEF SafeIn, Aside
<1>4. Shape(vol, o, s) /\ Sized(o, s)
  BY <1>2, <1>3 DEF Leads, Exists
<1> HIDE DEF o, s
<1>5. Moves(vol, vol, s, <<>>)
  <2>1. <<>> \in Seq(Clst) /\ Range(<<>>) = {}
    BY DEF Range
  <2> QED
    BY <2>1 DEF Moves, Spares
<1>6. ASSUME o.sclust # 0, NEW r \in RemoveChain(vol, o, o.sclust, 0)
      PROVE  r.v \in Volumes /\ Moves(vol, r.v, s, <<>>) /\ Rerouted(vol, r.v, {})
  BY <1>1, <1>2, <1>4, <1>6, WholeGone
<1> QED
  BY <1>5, <1>6 DEF o, s

LEMMA SafeUnlink ==
  ASSUME FatTypeInv, FatSafe, NEW f \in Files, Unlink(f)
  PROVE  FatSafe'
<1> SUFFICES ASSUME ~loose'
             PROVE  Safe(vol', entry', cur', fp', pc')
  BY DEF FatSafe
<1>1. /\ Proper /\ vol \in Volumes /\ fp.o \in Objects /\ cur \in Files \cup {NoFile}
      /\ entry \in [Files -> Entries \cup {NoEntry}]
  BY OpenFile DEF Proper
<1> DEFINE o == Loaded(entry[f])
           ex == [entry EXCEPT ![f] = NoEntry]
<1>2. /\ f # cur /\ Exists(f) /\ UNCHANGED <<pc, cur, fp, loose>>
      /\ \/ UNCHANGED vol /\ entry' \in {entry, ex}
         \/ o.sclust # 0 /\ entry' = ex /\ \E r \in RemoveChain(vol, o, o.sclust, 0) : vol' = r.v
  BY DEF Unlink, Takes
<1>3. PICK ch : SafeIn(vol, entry, cur, fp, pc, ch)
  BY <1>2, SafeOpen
<1>4. /\ Moves(vol, vol, ch[f], <<>>)
      /\ o.sclust # 0 =>
           \A r \in RemoveChain(vol, o, o.sclust, 0) :
             r.v \in Volumes /\ Moves(vol, r.v, ch[f], <<>>) /\ Rerouted(vol, r.v, {})
  BY <1>1, <1>2, <1>3, EntryGone
<1> HIDE DEF o
<1>5. CASE UNCHANGED vol /\ entry' = entry
  BY <1>2, <1>3, <1>5 DEF Safe
<1>6. CASE entry' # entry
  <2>1. entry' = ex
    BY <1>2, <1>6
  <2>2. vol' \in Volumes /\ Moves(vol, vol', ch[f], <<>>) /\ Rerouted(vol, vol', {})
    <3>1. CASE UNCHANGED vol
      BY <1>1, <1>4, <3>1 DEF Rerouted
    <3>2. CASE ~UNCHANGED vol
      BY <1>2, <1>4, <3>2
    <3> QED
      BY <3>1, <3>2
  <2>3. SameEntries(entry, ex, f) /\ ex[f] = NoEntry
    BY <1>1 DEF SameEntries
  <2>4. Leads(vol', ex[f], <<>>)
    BY <2>3 DEF Leads
  <2> HIDE DEF ex
  <2>5. Safe(vol', ex, cur, fp, pc)
    BY <1>1, <1>2, <1>3, <2>2, <2>3, <2>4, OthersGone
  <2> QED
    BY <1>2, <2>1, <2>5
<1>7. CASE entry' = entry /\ vol' # vol
  <2>1. ex = entry
    BY <1>2, <1>7
  <2>2. ex[f] = NoEntry
    BY <1>1
  <2> QED
    BY <1>2, <2>1, <2>2 DEF Exists
<1> QED
  BY <1>5, <1>6, <1>7

LEMMA SafeOpenExisting ==
  ASSUME FatTypeInv, FatSafe, NEW f \in Files, NEW append \in BOOLEAN, OpenExisting(f, append)
  PROVE  FatSafe'
<1> SUFFICES ASSUME ~loose'
             PROVE  Safe(vol', entry', cur', fp', pc')
  BY DEF FatSafe
<1> DEFINE o == Loaded(entry[f])
<1>1. Proper /\ vol \in Volumes
  BY OpenFile
<1>2. /\ pc = "idle" /\ cur = NoFile /\ Exists(f) /\ UNCHANGED <<pc, vol, entry, loose>>
      /\ OpenExistingCase(f, append, o)
  BY OpenExistingCases
<1>3. PICK ch : SafeIn(vol, entry, cur, fp, pc, ch)
  BY <1>2, SafeOpen
<1> DEFINE s == ch[f]
<1>4. /\ entry[f] \in Entries /\ entry[f] # NoEntry /\ o \in Objects /\ Plain(vol, o)
      /\ o.n_frag = 0 /\ o.stat \in {0, 2} /\ o.size \in Nat /\ o = LoadedOn(vol, entry[f])
  <2>1. /\ entry[f] \in Entries /\ o \in Objects /\ Plain(vol, o) /\ o.n_frag = 0
        /\ o.stat = (IF vol.type = "exfat" THEN entry[f].stat ELSE 0)
    BY <1>1, <1>2, EntryLoads
  <2>2. o.stat \in {0, 2} /\ o.size \in Nat
    BY <2>1, FileAssumption DEF Entries, Objects
  <2> QED
    BY <1>2, <2>1, <2>2 DEF Exists, Loaded, LoadedOn
<1>5. f # NoFile /\ Leads(vol, entry[f], s)
  BY <1>2, <1>3, FileAssumption DEF SafeIn, Aside
<1>6. Shape(vol, o, s) /\ Sized(o, s)
  BY <1>4, <1>5 DEF Leads
<1>7. s \in Seq(Clst) /\ Len(s) \in Nat
  BY <1>6, SeqFacts DEF Shape
<1> HIDE DEF o, s
<1>8. CASE cur' = cur /\ fp' = fp
  BY <1>2, <1>3, <1>8 DEF Safe
<1>9. ASSUME cur' = f, fp'.o = o, ~fp'.err, Resting(fp', s)
      PROVE  Safe(vol', entry', cur', fp', pc')
  <2>1. SafeIn(vol, entry, NoFile, fp, pc, ch)
    BY <1>2, <1>3
  <2>2. fp'.o = LoadedOn(vol, entry[f])
    BY <1>4, <1>9
  <2> DEFINE g == fp'
  <2>3. /\ g.o = LoadedOn(vol, entry[f]) /\ ~g.err /\ Resting(g, ch[f])
        /\ entry[f] \in Entries /\ entry[f] # NoEntry
    BY <1>4, <1>9, <2>2 DEF s
  <2> HIDE DEF g
  <2>4. Safe(vol, entry, f, g, "idle")
    BY <1>1, <2>1, <2>3, OpenedSafe
  <2> QED
    BY <1>2, <1>9, <2>4 DEF g
<1>10. CASE cur' = f /\ \E write \in BOOLEAN : fp' = NewFil(o, write, FALSE)
  <2>1. fp'.o = o /\ fp'.err = FALSE /\ fp'.fptr = 0
    <3>1. PICK write \in BOOLEAN : fp' = NewFil(o, write, FALSE)
      BY <1>10
    <3> QED
      BY <1>4, <3>1, NewFilType
  <2>2. Resting(fp', s)
    <3>1. fp'.fptr <= fp'.o.size /\ ~(fp'.fptr > 0)
      BY <1>4, <2>1
    <3> QED
      BY <1>6, <2>1, <3>1 DEF Resting
  <2> QED
    BY <1>9, <1>10, <2>1, <2>2
<1>11. CASE /\ append /\ o.size > 0 /\ AppendAt(o) >= 2 /\ cur' = f
            /\ fp' = [NewFil(o, TRUE, FALSE) EXCEPT !.clust = AppendAt(o), !.fptr = o.size]
  <2>1. fp'.o = o /\ fp'.err = FALSE /\ fp'.fptr = o.size /\ fp'.clust = AppendAt(o)
    <3> DEFINE g == NewFil(o, TRUE, FALSE)
    <3>1. g \in Fils /\ g.o = o /\ g.err = FALSE
      BY <1>4, NewFilType
    <3> HIDE DEF g
    <3>2. fp' = [g EXCEPT !.clust = AppendAt(o), !.fptr = o.size]
      BY <1>11 DEF g
    <3> QED
      BY <3>1, <3>2 DEF Fils
  <2> DEFINE n == (o.size - 1) \div CSize
             m == Count(o.size)
  <2>2. n = m - 1 /\ m \in Nat /\ m > 0
    <3> DEFINE z == o.size
    <3>1. z \in Nat /\ z > 0
      BY <1>4, <1>11
    <3> HIDE DEF z
    <3>2. (z - 1) \div CSize = Count(z) - 1 /\ Count(z) \in Nat /\ (z = 0 <=> Count(z) = 0)
      BY <3>1, CountBefore, CountBounds
    <3>3. Count(z) \in Nat /\ Count(z) # 0
      BY <3>1, <3>2
    <3> QED
      BY <3>2, <3>3 DEF z
  <2>3. ChainOf(vol, o) = s
    BY <1>1, <1>4, <1>6, FoundSized
  <2> HIDE DEF n, m
  <2>4. AppendAt(o) = IF n < Len(s) THEN s[n + 1]
                      ELSE IF n = Len(s) /\ n > 0 THEN GetFat(vol, o, Last(s)) ELSE INT_ERR
    BY <2>3 DEF AppendAt, n
  <2>5. Len(s) > 0 /\ (o.stat = 2 => Len(s) = m)
    BY <1>4, <1>6, <1>7, <1>11 DEF Sized, m
  <2>6. CASE n < Len(s)
    <3>1. m <= Len(s) /\ fp'.clust = s[m]
      BY <1>7, <2>1, <2>2, <2>4, <2>6
    <3>2. Resting(fp', s)
      BY <1>4, <1>6, <2>1, <3>1 DEF Resting, m
    <3> QED
      BY <1>9, <1>11, <2>1, <3>2
  <2>7. CASE ~(n < Len(s))
    <3>1. n = Len(s) /\ AppendAt(o) = GetFat(vol, o, Last(s))
      BY <1>11, <2>4, <2>7
    <3>2. o.stat = 0
      BY <1>4, <2>2, <2>5, <3>1
    <3>3. Len(s) \in 1 .. Len(s) /\ Last(s) = s[Len(s)] /\ ~(Len(s) < Len(s))
      BY <1>7, <2>5 DEF Last
    <3>4. Whole(o, s)
      BY <3>2 DEF Whole
    <3>5. GetFat(vol, o, s[Len(s)]) = EOC
      BY <1>1, <1>4, <1>6, <3>3, <3>4, NextOf
    <3>6. Adrift(fp', s)
      BY <1>4, <2>1, <2>5, <3>1, <3>2, <3>3, <3>5 DEF Adrift
    <3>7. Resting(fp', s)
      BY <1>4, <1>6, <2>1, <3>6 DEF Resting
    <3> QED
      BY <1>9, <1>11, <2>1, <3>7
  <2> QED
    BY <2>6, <2>7
<1> QED
  BY <1>2, <1>8, <1>10, <1>11 DEF OpenExistingCase

\* An entry that f_open has just written leads nowhere.
LEMMA NewLeads ==
  ASSUME NEW v \in Volumes, NEW e, e = Object(0, 0, 0)
  PROVE  /\ e \in Entries /\ e # NoEntry /\ LoadedOn(v, e) = e /\ e.size = 0
         /\ Leads(v, e, <<>>)
<1>1. e \in Entries /\ e \in Objects
  <2>1. 0 \in {0} \cup Clst /\ 0 \in 0 .. MaxSize /\ 0 \in {0, 2}
    BY FileAssumption
  <2> QED
    BY <2>1, ObjectType
<1>2. e.sclust = 0 /\ e.size = 0 /\ e.stat = 0 /\ e.n_frag = 0
  BY DEF Object
<1>3. e # NoEntry
  <2>1. NoEntry.sclust = UNKNOWN /\ UNKNOWN # 0
    BY FatAssumption DEF NoEntry, Object
  <2> QED
    BY <1>2, <2>1
<1>4. LoadedOn(v, e) = e
  BY <1>2 DEF LoadedOn
<1>5. Shape(v, e, <<>>) /\ Len(<<>>) = 0
  BY <1>1, <1>2, EmptyShape
<1> DEFINE s == <<>>
<1>6. Shape(v, e, s) /\ Len(s) = 0
  BY <1>5
<1> HIDE DEF s
<1>7. Sized(e, s)
  BY <1>2, <1>6 DEF Sized
<1>8. Leads(v, e, s)
  BY <1>3, <1>4, <1>6, <1>7 DEF Leads
<1> QED
  BY <1>1, <1>2, <1>3, <1>4, <1>8 DEF s

\* Where the next free cluster is looked for does not matter to the chains.
LEMMA LastMoves ==
  ASSUME NEW v, NEW r, NEW w, w.type = r.type, w.fat = r.fat, w.used = r.used,
         NEW s, Moves(v, r, s, <<>>), Rerouted(v, r, {})
  PROVE  Moves(v, w, s, <<>>) /\ Rerouted(v, w, {})
<1>1. \A c \in Clst : IsFree(w, c) = IsFree(r, c) /\ Ends(w, c) = Ends(r, c)
  BY DEF IsFree, Ends
<1>2. \A c \in Range(<<>>) : FALSE
  BY DEF Range
<1> QED
  BY <1>1, <1>2 DEF Moves, Spares, Rerouted

\* The file starts anew on w.
LEMMA SafeAnew ==
  ASSUME FatTypeInv, NEW ch, SafeIn(vol, entry, NoFile, fp, pc, ch), NEW f \in Files,
         NEW w \in Volumes, Moves(vol, w, ch[f], <<>>), Rerouted(vol, w, {}),
         NEW ex, ex = [entry EXCEPT ![f] = Object(0, 0, 0)]
  PROVE  /\ Safe(w, ex, NoFile, fp, pc)
         /\ Safe(w, ex, f, NewFil(Object(0, 0, 0), TRUE, TRUE), "idle")
<1> DEFINE e == Object(0, 0, 0)
           new == NewFil(e, TRUE, TRUE)
<1>1. /\ Proper /\ vol \in Volumes /\ fp.o \in Objects
      /\ entry \in [Files -> Entries \cup {NoEntry}]
  BY OpenFile DEF Proper
<1>2. /\ new.o = e /\ new.err = FALSE /\ new.fptr = 0
  <2>1. e \in Objects
    <3>1. 0 \in {0} \cup Clst /\ 0 \in 0 .. MaxSize /\ 0 \in {0, 2}
      BY FileAssumption
    <3> QED
      BY <3>1, ObjectType
  <2> HIDE DEF e
  <2> QED
    BY <2>1, NewFilType
<1>3. ex[f] = e /\ SameEntries(entry, ex, f)
  BY <1>1 DEF SameEntries
<1> HIDE DEF new
<1>4. /\ e \in Entries /\ e # NoEntry /\ LoadedOn(w, e) = e /\ e.size = 0
      /\ Leads(w, e, <<>>)
  BY NewLeads
<1> HIDE DEF e
<1>5. f # NoFile /\ NoFile \in Files \cup {NoFile}
  BY FileAssumption
<1>6. Leads(w, ex[f], <<>>)
  BY <1>3, <1>4
<1>7. Safe(w, ex, NoFile, fp, pc)
  BY <1>1, <1>3, <1>5, <1>6, OthersGone
<1>8. PICK dh : SafeIn(w, ex, NoFile, fp, pc, dh)
  BY <1>7 DEF Safe
<1>9. Resting(new, dh[f])
  <2>1. Leads(w, ex[f], dh[f])
    BY <1>5, <1>8 DEF SafeIn, Aside
  <2>2. Sized(e, dh[f])
    BY <1>3, <1>4, <2>1 DEF Leads
  <2>3. new.fptr <= new.o.size /\ ~(new.fptr > 0)
    BY <1>2, <1>4
  <2> QED
    BY <1>2, <2>2, <2>3 DEF Resting
<1>10. /\ ex[f] \in Entries /\ ex[f] # NoEntry /\ new.o = LoadedOn(w, ex[f]) /\ ~new.err
  BY <1>2, <1>3, <1>4
<1>11. Safe(w, ex, f, new, "idle")
  BY <1>8, <1>9, <1>10, OpenedSafe
<1> QED
  BY <1>7, <1>11 DEF new, e

LEMMA SafeOpenCreate ==
  ASSUME FatTypeInv, FatSafe, NEW f \in Files, OpenCreate(f)
  PROVE  FatSafe'
<1> SUFFICES ASSUME ~loose'
             PROVE  Safe(vol', entry', cur', fp', pc')
  BY DEF FatSafe
<1>1. Proper /\ vol \in Volumes /\ vol' \in Volumes
  BY OpenFile, FatTypeOpenCreate DEF FatTypeInv, Proper
<1> DEFINE old == OldObject(f)
           opened == [entry EXCEPT ![f] = Object(0, 0, 0)]
           new == NewFil(Object(0, 0, 0), TRUE, TRUE)
<1>2. /\ pc = "idle" /\ cur = NoFile /\ UNCHANGED <<pc, loose>>
      /\ OpenCreateCase(f, old, opened)
  BY OpenCreateCases
<1>3. PICK ch : SafeIn(vol, entry, NoFile, fp, pc, ch)
  BY <1>2, SafeOpen
<1>4. /\ Moves(vol, vol, ch[f], <<>>)
      /\ old.sclust # 0 =>
           \A r \in RemoveChain(vol, old, old.sclust, 0) :
             r.v \in Volumes /\ Moves(vol, r.v, ch[f], <<>>) /\ Rerouted(vol, r.v, {})
  <2>1. f # NoFile /\ NoFile \in Files \cup {NoFile}
    BY FileAssumption
  <2>2. CASE Exists(f)
    <3>1. old = Loaded(entry[f])
      BY <2>2 DEF OldObject
    <3> HIDE DEF old
    <3> QED
      BY <1>3, <2>1, <2>2, <3>1, EntryGone
  <2>3. CASE ~Exists(f)
    <3>1. old.sclust = 0
      BY <2>3 DEF OldObject, Object
    <3>2. ch[f] = <<>>
      BY <1>3, <2>1, <2>3 DEF SafeIn, Aside, Leads, Exists
    <3>3. Range(<<>>) = {} /\ <<>> \in Seq(Clst)
      BY DEF Range
    <3>4. Moves(vol, vol, ch[f], <<>>)
      BY <3>2, <3>3 DEF Moves, Spares
    <3> QED
      BY <3>1, <3>4
  <2> QED
    BY <2>2, <2>3
<1>5. Rerouted(vol, vol, {})
  BY DEF Rerouted
<1>6. ASSUME NEW w \in Volumes, Moves(vol, w, ch[f], <<>>), Rerouted(vol, w, {}),
             vol' = w, entry' = opened,
             UNCHANGED <<cur, fp>> \/ (cur' = f /\ fp' = new)
      PROVE  Safe(vol', entry', cur', fp', pc')
  <2>1. /\ Safe(w, opened, NoFile, fp, pc) /\ Safe(w, opened, f, new, "idle")
    BY <1>3, <1>6, SafeAnew
  <2> HIDE DEF opened, new
  <2> QED
    BY <1>2, <1>6, <2>1
<1> HIDE DEF old, opened, new
<1>7. CASE UNCHANGED <<vol, cur, fp>> /\ entry' \in {entry, opened}
  <2>1. CASE entry' = entry
    BY <1>2, <1>3, <1>7, <2>1 DEF Safe
  <2>2. CASE entry' = opened
    BY <1>1, <1>4, <1>5, <1>6, <1>7, <2>2
  <2> QED
    BY <1>7, <2>1, <2>2
<1>8. CASE UNCHANGED vol /\ entry' = opened /\ cur' = f /\ fp' = new
  BY <1>1, <1>4, <1>5, <1>6, <1>8
<1>9. CASE /\ old.sclust # 0 /\ entry' = opened
           /\ \E r \in RemoveChain(vol, old, old.sclust, 0) :
                /\ vol' = IF vol.type = "exfat" \/ r.ret = OK
                          THEN [r.v EXCEPT !.last = old.sclust - 1] ELSE r.v
                /\ IF r.ret = OK THEN cur' = f /\ fp' = new ELSE UNCHANGED <<cur, fp>>
  <2>1. PICK r \in RemoveChain(vol, old, old.sclust, 0) :
                /\ vol' = IF vol.type = "exfat" \/ r.ret = OK
                          THEN [r.v EXCEPT !.last = old.sclust - 1] ELSE r.v
                /\ IF r.ret = OK THEN cur' = f /\ fp' = new ELSE UNCHANGED <<cur, fp>>
    BY <1>9
  <2>2. /\ r.v \in Volumes /\ Moves(vol, r.v, ch[f], <<>>) /\ Rerouted(vol, r.v, {})
    BY <1>4, <1>9
  <2> DEFINE w == vol'
             v == r.v
  <2>3. w \in Volumes /\ v \in Volumes
    BY <1>1, <2>2
  <2>4. w = v \/ w = [v EXCEPT !.last = old.sclust - 1]
    BY <2>1
  <2> HIDE DEF w
  <2>5. w.type = v.type /\ w.fat = v.fat /\ w.used = v.used
    BY <2>3, <2>4 DEF Volumes
  <2>6. Moves(vol, w, ch[f], <<>>) /\ Rerouted(vol, w, {})
    BY <2>2, <2>5, LastMoves
  <2>7. UNCHANGED <<cur, fp>> \/ (cur' = f /\ fp' = new)
    BY <2>1
  <2> QED
    BY <1>6, <1>9, <2>3, <2>6, <2>7 DEF w
<1> QED
  BY <1>2, <1>7, <1>8, <1>9 DEF OpenCreateCase, new

-----------------------------------------------------------------------------
\* The theorem

LEMMA SafeInit == Init => FatSafe
<1> SUFFICES ASSUME Init PROVE Safe(vol, entry, cur, fp, pc)
  BY DEF FatSafe
<1> DEFINE s == <<>>
           ch == [f \in Files |-> s]
<1>1. s \in Seq(Clst) /\ Range(s) = {} /\ s = <<>>
  BY DEF Range
<1> HIDE DEF s
<1>2. ch \in [Files -> Seq(Clst)] /\ \A f \in Files : ch[f] = s
  BY <1>1
<1> HIDE DEF ch
<1>3. Unshared(vol, ch)
  BY <1>1, <1>2 DEF Unshared, Taken
<1>4. \A f \in Files : Leads(vol, entry[f], ch[f])
  BY <1>1, <1>2 DEF Init, Leads
<1>5. SafeIn(vol, entry, cur, fp, pc, ch)
  BY <1>2, <1>3, <1>4 DEF Init, SafeIn, Aside
<1> QED
  BY <1>5 DEF Safe

LEMMA SafeNext == FatTypeInv /\ FatSafe /\ [Next]_vars => FatSafe'
<1> SUFFICES ASSUME FatTypeInv, FatSafe, [Next]_vars PROVE FatSafe'
  OBVIOUS
<1>1. CASE UNCHANGED vars
  BY <1>1 DEF vars, FatSafe
<1>2. CASE Next
  BY <1>2, SafeOpenCreate, SafeUnlink, SafeOpenExisting, SafeTransfer, SafeReadStep,
     SafeWriteStep, SafeSeek, SafeSeekStep, SafeSeekEnd, SafeTruncate, SafeSync,
     SafeGetFree DEF Next
<1> QED
  BY <1>1, <1>2

\* What FatFs finds for a file that is not open is what its entry leads to.
LEMMA FoundLeads ==
  ASSUME FatTypeInv, NEW ch, SafeIn(vol, entry, cur, fp, pc, ch), NEW f \in Files, f # cur
  PROVE  FoundChain(f) = ch[f]
<1>1. Proper /\ vol \in Volumes
  BY OpenFile
<1>2. Leads(vol, entry[f], ch[f])
  BY DEF SafeIn, Aside
<1>3. CASE ~Exists(f)
  BY <1>2, <1>3 DEF FoundChain, Leads, Exists
<1>4. CASE Exists(f)
  <2> DEFINE o == Loaded(entry[f])
             s == ch[f]
  <2>1. /\ o \in Objects /\ Plain(vol, o) /\ o.n_frag = 0
        /\ o = LoadedOn(vol, entry[f])
    BY <1>1, <1>4, EntryLoads DEF Loaded, LoadedOn
  <2>2. Shape(vol, o, s) /\ Sized(o, s)
    BY <1>2, <1>4, <2>1 DEF Leads, Exists
  <2>3. FoundChain(f) = ChainOf(vol, o)
    BY <1>4 DEF FoundChain
  <2> HIDE DEF o, s
  <2>4. ChainOf(vol, o) = s
    BY <1>1, <2>1, <2>2, FoundSized
  <2> QED
    BY <2>3, <2>4 DEF s
<1> QED
  BY <1>3, <1>4

LEMMA SafeShows == FatTypeInv /\ FatSafe => NeverShared
<1> SUFFICES ASSUME FatTypeInv, FatSafe, ~loose,
                    NEW f \in Files \ {cur}, NEW g \in Files \ {cur}, f # g
             PROVE  Range(FoundChain(f)) \cap Range(FoundChain(g)) = {}
  BY DEF NeverShared
<1>1. PICK ch : SafeIn(vol, entry, cur, fp, pc, ch)
  BY SafeOpen
<1>2. FoundChain(f) = ch[f] /\ FoundChain(g) = ch[g]
  BY <1>1, FoundLeads
<1>3. /\ ch \in [Files -> Seq(Clst)]
      /\ \A c \in Clst : ~(c \in Range(ch[f]) /\ c \in Range(ch[g]))
  BY <1>1 DEF SafeIn, Aside, Unshared
<1>4. Range(ch[f]) \subseteq Clst
  BY <1>3, RangeIs
<1> QED
  BY <1>2, <1>3, <1>4

\* After disk errors in any calls two files whose entries are on the card lead to
\* disjoint clusters, unless a truncation was stopped, a file was left with its
\* growing edge off the FAT or with an entry of before a truncation, or the first
\* links of a fragment were written by halves: whatever f_open, f_write, f_lseek,
\* f_truncate, f_sync, f_close and f_unlink of ff.c were asked for, on volumes of
\* every size.
THEOREM NeverSharedAlways == Spec => []NeverShared
<1>1. Init => FatTypeInv /\ FatSafe
  BY FatTypeInit, SafeInit
<1>2. FatTypeInv /\ FatSafe /\ [Next]_vars => FatTypeInv' /\ FatSafe'
  BY FatTypeNext, SafeNext
<1>3. FatTypeInv /\ FatSafe => NeverShared
  BY SafeShows
<1> QED
  BY <1>1, <1>2, <1>3, PTL DEF Spec
=============================================================================

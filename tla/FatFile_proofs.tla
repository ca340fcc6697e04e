---------------------------- MODULE FatFile_proofs ----------------------------
(***************************************************************************)
(* Theorems about FatFile, for every number of clusters, cluster size and  *)
(* set of files.  First: volume, entries and FIL object stay well-formed,  *)
(* also after disk errors.  Then: as long as no disk error has occurred,   *)
(* every file leads through the clusters it was given, no cluster is lost  *)
(* or shared, and no call ends in an internal error.                       *)
(***************************************************************************)
EXTENDS FatFile, FiniteSetTheorems, SequenceTheorems, TLAPS

-----------------------------------------------------------------------------
\* Induction over natural numbers, for a property that is given as a set

LEMMA Least ==
  ASSUME NEW T \in SUBSET Nat, T # {}
  PROVE  \E x \in T : \A y \in T : x <= y
<1> DEFINE Less == {p \in Nat \X Nat : p[1] < p[2]}
<1>1. IsWellFoundedOn(Less, Nat)
  BY NatLessThanWellFounded DEF OpToRel
<1>2. PICK x \in T : \A y \in T : ~(<<y, x>> \in Less)
  <2> HIDE DEF Less
  <2> QED
    BY <1>1, WFMin
<1>3. ASSUME NEW y \in T PROVE x <= y
  <2>1. <<y, x>> \in Nat \X Nat /\ ~(y < x)
    BY <1>2
  <2> QED
    BY <2>1
<1> QED
  BY <1>3

LEMMA SetInduction ==
  ASSUME NEW S, 0 \in S, \A n \in Nat : n \in S => n + 1 \in S
  PROVE  Nat \subseteq S
<1> SUFFICES ASSUME Nat \ S # {} PROVE FALSE
  OBVIOUS
<1>1. PICK x \in Nat \ S : \A y \in Nat \ S : x <= y
  BY Least
<1>2. x # 0 /\ x - 1 \in Nat
  BY <1>1
<1> QED
  BY <1>1, <1>2

LEMMA Prefix ==
  ASSUME NEW S, NEW s \in Seq(S), NEW n \in 0 .. Len(s)
  PROVE  /\ SubSeq(s, 1, n) \in Seq(S) /\ Len(SubSeq(s, 1, n)) = n
         /\ \A i \in 1 .. n : SubSeq(s, 1, n)[i] = s[i]
<1>1. \A i \in 1 .. n : s[i] \in S
  OBVIOUS
<1>2. /\ SubSeq(s, 1, n) \in Seq(S)
      /\ Len(SubSeq(s, 1, n)) = IF 1 <= n THEN n - 1 + 1 ELSE 0
      /\ \A i \in 1 .. n - 1 + 1 : SubSeq(s, 1, n)[i] = s[1 + i - 1]
  BY <1>1, SubSeqProperties
<1> QED
  BY <1>2

-----------------------------------------------------------------------------
\* What Walk meets

\* One step of Walk
Further(v, o, s) ==
  IF GetFat(v, o, Last(s)) \in Clst THEN Append(s, GetFat(v, o, Last(s))) ELSE s

LEMMA WalkIsRecursive ==
  ASSUME NEW v, NEW o, NEW c
  PROVE  \E t : /\ t = [n \in 0 .. Clusters |-> IF n = 0 THEN <<c>> ELSE Further(v, o, t[n - 1])]
                /\ Walk(v, o, c) = t[Clusters]
<1> DEFINE F(s) == Further(v, o, s)
           R(t, k) == t = [n \in 0 .. k |-> IF n = 0 THEN <<c>> ELSE F(t[n - 1])]
           S == {k \in Nat : \E t : R(t, k)}
<1>1. 0 \in S
  <2> DEFINE t == [n \in {0} |-> <<c>>]
  <2>1. t = [n \in 0 .. 0 |-> IF n = 0 THEN <<c>> ELSE F(t[n - 1])]
    OBVIOUS
  <2> QED
    BY <2>1
<1>2. ASSUME NEW k \in Nat, k \in S PROVE k + 1 \in S
  <2>1. PICK t : R(t, k)
    BY <1>2
  <2> DEFINE u == [n \in 0 .. k + 1 |-> IF n \in 0 .. k THEN t[n] ELSE F(t[k])]
  <2> HIDE DEF F
  <2>2. \A n \in 0 .. k + 1 : u[n] = IF n = 0 THEN <<c>> ELSE F(u[n - 1])
    BY <2>1
  <2>3. u = [n \in 0 .. k + 1 |-> IF n = 0 THEN <<c>> ELSE F(u[n - 1])]
    BY <2>2
  <2> HIDE DEF u
  <2>4. R(u, k + 1)
    BY <2>3
  <2> HIDE DEF R
  <2> QED
    BY <2>4
<1>3. Clusters \in S
  <2> HIDE DEF S
  <2> QED
    BY <1>1, <1>2, SetInduction, FatAssumption
<1>4. PICK t : R(t, Clusters)
  BY <1>3
<1>5. Walk(v, o, c) = (CHOOSE u : R(u, Clusters))[Clusters]
  BY DEF Walk, Further
<1> HIDE DEF R
<1> QED
  BY <1>4, <1>5 DEF R

LEMMA WalkInduction ==
  ASSUME NEW v, NEW o, NEW c, NEW S, <<0, <<c>>>> \in S,
         \A n \in 0 .. Clusters - 1 : \A s : <<n, s>> \in S => <<n + 1, Further(v, o, s)>> \in S
  PROVE  <<Clusters, Walk(v, o, c)>> \in S
<1>1. PICK t : /\ t = [n \in 0 .. Clusters |-> IF n = 0 THEN <<c>> ELSE Further(v, o, t[n - 1])]
               /\ Walk(v, o, c) = t[Clusters]
  BY WalkIsRecursive
<1> DEFINE N == {n \in Nat : n <= Clusters => <<n, t[n]>> \in S}
<1>2. Clusters \in Nat
  BY FatAssumption
<1>3. \A n \in 0 .. Clusters : t[n] = IF n = 0 THEN <<c>> ELSE Further(v, o, t[n - 1])
  BY <1>1
<1>4. 0 \in N
  BY <1>2, <1>3
<1>5. ASSUME NEW n \in Nat, n \in N PROVE n + 1 \in N
  <2>1. CASE n + 1 <= Clusters
    <3>1. n \in 0 .. Clusters - 1 /\ n + 1 \in 0 .. Clusters /\ <<n, t[n]>> \in S
      BY <1>2, <1>5, <2>1
    <3>2. t[n + 1] = Further(v, o, t[n])
      BY <1>3, <3>1
    <3> QED
      BY <3>1, <3>2
  <2>2. CASE ~(n + 1 <= Clusters)
    BY <2>2
  <2> QED
    BY <2>1, <2>2
<1>6. Clusters \in N
  <2> HIDE DEF N
  <2> QED
    BY <1>2, <1>4, <1>5, SetInduction
<1> QED
  BY <1>1, <1>2, <1>6

LEMMA WalkSeq ==
  ASSUME NEW v, NEW o, NEW c \in Clst
  PROVE  Walk(v, o, c) \in Seq(Clst) /\ Walk(v, o, c) # <<>>
<1> DEFINE S == Nat \X {x \in Seq(Clst) : x # <<>>}
<1>1. <<0, <<c>>>> \in S
  <2>1. <<c>> \in {x \in Seq(Clst) : x # <<>>} /\ 0 \in Nat
    OBVIOUS
  <2> QED
    BY <2>1
<1>2. ASSUME NEW n \in 0 .. Clusters - 1, NEW s, <<n, s>> \in S
      PROVE  <<n + 1, Further(v, o, s)>> \in S
  <2>1. s \in Seq(Clst) /\ s # <<>>
    BY <1>2
  <2>2. Further(v, o, s) \in Seq(Clst) /\ Further(v, o, s) # <<>>
    BY <2>1 DEF Further
  <2> QED
    BY <2>2
<1>3. <<Clusters, Walk(v, o, c)>> \in S
  <2> HIDE DEF S
  <2> QED
    BY <1>1, <1>2, WalkInduction
<1> QED
  BY <1>3

\* A sequence whose members follow each other, with no more to follow, is what
\* Walk meets.
LEMMA WalkFollows ==
  ASSUME NEW v, NEW o, NEW s \in Seq(Clst), Len(s) \in 1 .. Clusters + 1,
         \A i \in 1 .. Len(s) - 1 : GetFat(v, o, s[i]) = s[i + 1],
         GetFat(v, o, s[Len(s)]) \notin Clst
  PROVE  Walk(v, o, s[1]) = s
<1> DEFINE Up(n) == IF n + 1 <= Len(s) THEN n + 1 ELSE Len(s)
           S == {<<n, SubSeq(s, 1, Up(n))>> : n \in Nat}
<1>1. <<0, <<s[1]>>>> \in S
  <2>1. Up(0) = 1
    OBVIOUS
  <2>2. Len(SubSeq(s, 1, 1)) = 1 /\ SubSeq(s, 1, 1)[1] = s[1] /\ SubSeq(s, 1, 1) \in Seq(Clst)
    OBVIOUS
  <2>3. SubSeq(s, 1, 1) = <<s[1]>>
    <3>1. <<s[1]>> \in Seq(Clst) /\ Len(<<s[1]>>) = 1 /\ <<s[1]>>[1] = s[1]
      OBVIOUS
    <3>2. \A i \in 1 .. Len(SubSeq(s, 1, 1)) : SubSeq(s, 1, 1)[i] = <<s[1]>>[i]
      BY <2>2, <3>1
    <3> QED
      BY <2>2, <3>1, <3>2, SeqEqual
  <2> QED
    BY <2>1, <2>3
<1>2. ASSUME NEW n \in 0 .. Clusters - 1, NEW x, <<n, x>> \in S
      PROVE  <<n + 1, Further(v, o, x)>> \in S
  <2>1. x = SubSeq(s, 1, Up(n)) /\ n \in Nat /\ Clusters \in Nat
    BY <1>2, FatAssumption
  <2>2. Up(n) \in 1 .. Len(s)
    BY <2>1
  <2>3. Last(x) = s[Up(n)]
    BY <2>1, <2>2 DEF Last
  <2>4. Further(v, o, x) = SubSeq(s, 1, Up(n + 1))
    <3>1. CASE n + 1 < Len(s)
      <4>1. Up(n) = n + 1 /\ Up(n + 1) = n + 2
        BY <2>1, <3>1
      <4>2. GetFat(v, o, Last(x)) = s[n + 2] /\ s[n + 2] \in Clst
        BY <2>1, <2>3, <3>1, <4>1
      <4>3. Append(SubSeq(s, 1, n + 1), s[n + 2]) = SubSeq(s, 1, n + 2)
        BY <2>1, <3>1
      <4> QED
        BY <2>1, <4>1, <4>2, <4>3 DEF Further
    <3>2. CASE ~(n + 1 < Len(s))
      <4>1. Up(n) = Len(s) /\ Up(n + 1) = Len(s)
        BY <2>1, <3>2
      <4> QED
        BY <2>1, <2>3, <4>1 DEF Further
    <3> QED
      BY <3>1, <3>2
  <2> QED
    BY <2>1, <2>4
<1>3. <<Clusters, Walk(v, o, s[1])>> \in S
  <2> HIDE DEF S
  <2> QED
    BY <1>1, <1>2, WalkInduction
<1>4. Walk(v, o, s[1]) = SubSeq(s, 1, Up(Clusters)) /\ Up(Clusters) = Len(s)
  BY <1>3, FatAssumption
<1> QED
  BY <1>4

-----------------------------------------------------------------------------
\* Well-formed volumes and objects, and what FatAlloc does to them

Volumes == [type : {"fat32", "exfat"}, fat : [Clst -> 0 .. EOC], used : SUBSET Clst,
            last : 1 .. Clusters + 1 \cup {UNKNOWN}, free : 0 .. Clusters \cup {UNKNOWN}]

Objects == [sclust : {0} \cup Clst, size : 0 .. MaxSize, stat : {0, 2, 3},
            n_cont : 0 .. Clusters, n_frag : 0 .. Clusters]

\* On FAT32 there is no chain status, and no growing edge.
Plain(v, o) == v.type = "fat32" => o.stat = 0 /\ o.n_frag = 0

USE DEF FREE, INT_ERR, EOC, DISK, FULL, UNKNOWN, OK, Clst

LEMMA GetFatType ==
  ASSUME NEW v \in Volumes, NEW o \in Objects, NEW c \in 0 .. EOC
  PROVE  /\ GetFat(v, o, c) \in 0 .. EOC
         /\ c \notin Clst => GetFat(v, o, c) = INT_ERR
         /\ v.type = "exfat" /\ o.n_frag # 0 /\ GetFat(v, o, c) \in Clst => GetFat(v, o, c) = c + 1
<1>1. CASE c \notin Clst
  BY <1>1, FatAssumption DEF GetFat
<1>2. CASE c \in Clst
  <2>1. v.fat[c] \in 0 .. EOC /\ c + 1 \in 0 .. EOC /\ EOC \in Nat /\ EOC \notin Clst
    BY <1>2, FatAssumption DEF Volumes
  <2>2. v.type = "fat32" => GetFat(v, o, c) = v.fat[c]
    BY <1>2 DEF GetFat
  <2>3. GetFat(v, o, c) \in {INT_ERR, EOC, c + 1, v.fat[c]}
    BY <1>2 DEF GetFat
  <2>4. v.type = "exfat" /\ o.n_frag # 0 => GetFat(v, o, c) \in {INT_ERR, EOC, c + 1}
    BY <1>2 DEF GetFat
  <2> QED
    BY <1>2, <2>1, <2>3, <2>4, FatAssumption
<1> QED
  BY <1>1, <1>2

\* Both sides of a volume that only FAT entries have been written to.
SameBut(v, w) == w.type = v.type /\ w.used = v.used /\ w.last = v.last /\ w.free = v.free

LEMMA PutSame ==
  ASSUME NEW v \in Volumes, NEW c, NEW val \in 0 .. EOC
  PROVE  Put(v, c, val) \in Volumes /\ SameBut(v, Put(v, c, val))
  BY DEF Put, Volumes, SameBut

LEMMA PutRunSame ==
  ASSUME NEW v \in Volumes, NEW a \in Int, NEW n \in Int, NEW m \in Int, NEW term \in 0 .. EOC
  PROVE  PutRun(v, a, n, m, term) \in Volumes /\ SameBut(v, PutRun(v, a, n, m, term))
<1> DEFINE F == [c \in Clst |-> IF c < a \/ c >= a + n THEN v.fat[c]
                                ELSE IF c = a + m - 1 THEN term ELSE c + 1]
<1>1. F \in [Clst -> 0 .. EOC]
  BY FatAssumption DEF Volumes
<1>2. PutRun(v, a, n, m, term) = [v EXCEPT !.fat = F]
  BY DEF PutRun
<1> HIDE DEF F
<1> QED
  BY <1>1, <1>2 DEF Volumes, SameBut

LEMMA OutcomeFields ==
  ASSUME NEW v, NEW o, NEW ret
  PROVE  LET r == Outcome(v, o, ret)
         IN  r.v = v /\ r.o = o /\ r.ret = ret
  BY DEF Outcome

\* The one outcome of fill_first_frag without a disk error, and all of them.
LEMMA FillFirstOutcomes ==
  ASSUME NEW v \in Volumes, NEW o \in Objects, NEW r \in FillFirst(v, o)
  PROVE  /\ r.v \in Volumes /\ SameBut(v, r.v) /\ r.ret \in {OK, DISK}
         /\ r.o \in Objects /\ r.o.sclust = o.sclust /\ r.o.size = o.size
         /\ r.o.n_frag = o.n_frag /\ r.o.stat \in {0, o.stat}
         /\ r.ret = OK =>
              IF o.stat # 3 THEN r.v = v /\ r.o = o
              ELSE r.v = PutRun(v, o.sclust, o.n_cont, o.n_cont + 1, EOC) /\ r.o.stat = 0
<1>1. CASE o.stat # 3
  <2>1. r = Outcome(v, o, OK)
    BY <1>1 DEF FillFirst
  <2> QED
    BY <1>1, <2>1, OutcomeFields DEF SameBut
<1>2. CASE o.stat = 3
  <2>1. o.sclust \in Int /\ o.n_cont \in Int /\ o.n_cont + 1 \in Int /\ EOC \in 0 .. EOC
    BY FatAssumption DEF Objects
  <2>2. CASE \E n \in 0 .. o.n_cont - 1 :
               r = Outcome(PutRun(v, o.sclust, n, o.n_cont + 1, EOC), o, DISK)
    <3>1. PICK n \in 0 .. o.n_cont - 1 :
            r = Outcome(PutRun(v, o.sclust, n, o.n_cont + 1, EOC), o, DISK)
      BY <2>2
    <3>2. r.v = PutRun(v, o.sclust, n, o.n_cont + 1, EOC) /\ r.o = o /\ r.ret = DISK
      BY <3>1, OutcomeFields
    <3>3. DISK # OK /\ n \in Int
      BY FatAssumption
    <3> DEFINE a == o.sclust
               m == o.n_cont + 1
    <3>4. a \in Int /\ m \in Int /\ n \in Int /\ EOC \in 0 .. EOC /\ r.v = PutRun(v, a, n, m, EOC)
      BY <2>1, <3>2, <3>3
    <3> HIDE DEF a, m
    <3>5. r.v \in Volumes /\ SameBut(v, r.v)
      BY <3>4, PutRunSame
    <3> QED
      BY <3>2, <3>3, <3>5
  <2>3. CASE r = Outcome(PutRun(v, o.sclust, o.n_cont, o.n_cont + 1, EOC),
                         [o EXCEPT !.stat = 0], OK)
    <3>1. /\ r.v = PutRun(v, o.sclust, o.n_cont, o.n_cont + 1, EOC)
          /\ r.o = [o EXCEPT !.stat = 0] /\ r.ret = OK
      BY <2>3, OutcomeFields
    <3>2. /\ r.o \in Objects /\ r.o.sclust = o.sclust /\ r.o.size = o.size
          /\ r.o.n_frag = o.n_frag /\ r.o.stat = 0
      BY <3>1 DEF Objects
    <3>3. r.v \in Volumes /\ SameBut(v, r.v)
      BY <2>1, <3>1, PutRunSame
    <3> QED
      BY <1>2, <3>1, <3>2, <3>3
  <2> QED
    BY <1>2, <2>2, <2>3 DEF FillFirst
<1> QED
  BY <1>1, <1>2

\* The outcomes of fill_last_frag: it writes the first n links of the last fragment.
LEMMA FillLastOutcomes ==
  ASSUME NEW v \in Volumes, NEW o \in Objects, NEW lcl \in 0 .. EOC, NEW term \in 0 .. EOC,
         NEW r \in FillLast(v, o, lcl, term)
  PROVE  /\ r.v \in Volumes /\ SameBut(v, r.v) /\ r.ret \in {OK, DISK}
         /\ r.o \in Objects /\ r.o.sclust = o.sclust /\ r.o.size = o.size
         /\ r.o.stat = o.stat /\ r.o.n_cont = o.n_cont /\ r.o.n_frag <= o.n_frag
         /\ r.ret = OK => /\ r.o.n_frag = 0
                          /\ r.v = PutRun(v, lcl - o.n_frag + 1, o.n_frag, o.n_frag, term)
<1>1. PICK n \in 0 .. o.n_frag :
        r = Outcome(PutRun(v, lcl - o.n_frag + 1, n, o.n_frag, term),
                    [o EXCEPT !.n_frag = o.n_frag - n], IF n = o.n_frag THEN OK ELSE DISK)
  BY DEF FillLast
<1>2. /\ r.v = PutRun(v, lcl - o.n_frag + 1, n, o.n_frag, term)
      /\ r.o = [o EXCEPT !.n_frag = o.n_frag - n]
      /\ r.ret = IF n = o.n_frag THEN OK ELSE DISK
  BY <1>1, OutcomeFields
<1>3. /\ o.n_frag \in 0 .. Clusters /\ n \in 0 .. o.n_frag /\ DISK # OK
      /\ lcl - o.n_frag + 1 \in Int /\ n \in Int /\ o.n_frag \in Int
      /\ o.n_frag - n \in 0 .. Clusters
  BY <1>1, FatAssumption DEF Objects
<1>4. /\ r.o \in Objects /\ r.o.sclust = o.sclust /\ r.o.size = o.size
      /\ r.o.stat = o.stat /\ r.o.n_cont = o.n_cont /\ r.o.n_frag = o.n_frag - n
  BY <1>2, <1>3 DEF Objects
<1> DEFINE a == lcl - o.n_frag + 1
<1>5. r.v \in Volumes /\ SameBut(v, r.v)
  <2>1. a \in Int /\ n \in Int /\ o.n_frag \in Int /\ r.v = PutRun(v, a, n, o.n_frag, term)
    BY <1>2, <1>3
  <2> HIDE DEF a
  <2> QED
    BY <2>1, PutRunSame
<1> QED
  BY <1>2, <1>3, <1>4, <1>5

\* What the search for a free cluster finds is one.
LEMMA FirstFreeFound ==
  ASSUME NEW v, NEW order \in [1 .. Clusters -> Clst], FirstFree(v, order) # 0
  PROVE  FirstFree(v, order) \in Clst /\ IsFree(v, FirstFree(v, order))
<1> DEFINE T == {i \in 1 .. Clusters : IsFree(v, order[i])}
<1>1. T \in SUBSET Nat /\ T # {} /\ DOMAIN order = 1 .. Clusters
  BY FatAssumption DEF FirstFree
<1>2. PICK x \in T : \A y \in T : x <= y
  BY <1>1, Least
<1>3. IsFree(v, order[x]) /\ \A j \in 1 .. x - 1 : ~IsFree(v, order[j])
  BY <1>2, FatAssumption
<1> DEFINE First(i) == IsFree(v, order[i]) /\ \A j \in 1 .. i - 1 : ~IsFree(v, order[j])
           i == CHOOSE i \in DOMAIN order : First(i)
<1>4. FirstFree(v, order) = order[i]
  BY <1>1 DEF FirstFree
<1>5. i \in 1 .. Clusters /\ First(i)
  BY <1>1, <1>2, <1>3
<1> QED
  BY <1>4, <1>5

LEMMA CyclicType ==
  ASSUME NEW scl \in Int
  PROVE  Cyclic(scl) \in [1 .. Clusters -> Clst]
<1>1. \A n \in Int : n % Clusters \in 0 .. Clusters - 1
  BY FatAssumption
<1>2. \A i \in 1 .. Clusters : 2 + ((scl - 2 + i) % Clusters) \in Clst
  BY <1>1, FatAssumption
<1> QED
  BY <1>2 DEF Cyclic
LEMMA FindBitmapFinds ==
  ASSUME NEW v, NEW clst, FindBitmap(v, clst) # 0
  PROVE  FindBitmap(v, clst) \in Clst /\ IsFree(v, FindBitmap(v, clst))
<1> DEFINE scl == IF clst \in Clst THEN clst - 1 ELSE Clusters + 1
<1>1. scl \in Int
  BY FatAssumption
<1>2. FindBitmap(v, clst) = FirstFree(v, Cyclic(scl))
  BY DEF FindBitmap
<1> HIDE DEF scl
<1> QED
  BY <1>1, <1>2, CyclicType, FirstFreeFound

LEMMA FindFatFinds ==
  ASSUME NEW v, NEW clst \in {0} \cup Clst, NEW scl \in Int, FindFat(v, clst, scl) # 0
  PROVE  FindFat(v, clst, scl) \in Clst /\ IsFree(v, FindFat(v, clst, scl))
<1> DEFINE next == IF clst + 1 \in Clst THEN clst + 1 ELSE 2
           from == IF clst # 0 /\ v.last \in Clst THEN v.last ELSE scl
           start == IF from = 1 THEN Clusters + 1 ELSE from
<1>1. next \in Clst /\ start \in Int
  BY FatAssumption
<1>2. FindFat(v, clst, scl) = IF clst # 0 /\ IsFree(v, next) THEN next
                              ELSE FirstFree(v, Cyclic(start))
  BY DEF FindFat
<1> HIDE DEF next, start
<1> QED
  BY <1>1, <1>2, CyclicType, FirstFreeFound

-----------------------------------------------------------------------------
\* create_chain: the outcomes one by one

\* The bitmap of an exFAT volume, with one cluster more
Marked(v, ncl) == [v EXCEPT !.used = @ \cup {ncl}]

\* The length of the last fragment when a link to another one is put behind it.
Edge(o) == IF o.n_frag = 0 THEN 1 ELSE o.n_frag

\* The growing edge is one cluster longer: on FAT only when it ends.
LongerEdge(o) == [o EXCEPT !.n_frag = IF @ = 0 THEN 2 ELSE @ + 1]

LEMMA BitmapOutcomes ==
  ASSUME NEW v, NEW o \in Objects, NEW clst, NEW scl, NEW r \in CreateBitmap(v, o, clst, scl),
         v.type = "exfat"
  PROVE  LET ncl == FindBitmap(v, scl)
             v1  == Marked(v, ncl)
             o1  == Stretched(o, clst, ncl)
             m   == Edge(o1)
         IN  \/ ncl = 0 /\ r.v = v /\ r.o = o /\ r.ret = FULL
             \/ /\ ncl \in Clst /\ ncl \notin v.used
                /\ \/ /\ o1.stat = 2
                      /\ r.v = Allocated(v1, ncl) /\ r.o = o1 /\ r.ret = ncl
                   \/ /\ o1.stat # 2 /\ ncl = clst + 1
                      /\ r.v = Allocated(v1, ncl) /\ r.o = LongerEdge(o1) /\ r.ret = ncl
                   \/ /\ o1.stat # 2 /\ ncl # clst + 1
                      /\ r.v = Allocated(PutRun(v1, clst - m + 1, m, m, ncl), ncl)
                      /\ r.o = [o1 EXCEPT !.n_frag = 1] /\ r.ret = ncl
                   \/ /\ o1.stat # 2 /\ ncl # clst + 1
                      /\ \E n \in 0 .. m - 1 : /\ r.v = PutRun(v1, clst - m + 1, n, m, ncl)
                                               /\ r.o = [o1 EXCEPT !.n_frag = m - n]
                      /\ r.ret = DISK
<1> DEFINE ncl == FindBitmap(v, scl)
           v1  == Marked(v, ncl)
           o1  == Stretched(o, clst, ncl)
           m   == Edge(o1)
           om  == [o1 EXCEPT !.n_frag = m]
           Fit(q) == IF q.ret = OK THEN [q EXCEPT !.o.n_frag = 1] ELSE q
           outcomes == IF o1.stat = 2 THEN {Outcome(v1, o1, OK)}
                       ELSE IF ncl = clst + 1 THEN {Outcome(v1, LongerEdge(o1), OK)}
                       ELSE {Fit(q) : q \in FillLast(v1, om, clst, ncl)}
           Done(q) == IF q.ret = OK THEN Outcome(Allocated(q.v, ncl), q.o, ncl) ELSE q
<1>1. CreateBitmap(v, o, clst, scl) =
        IF ncl = 0 THEN {Outcome(v, o, FULL)} ELSE {Done(q) : q \in outcomes}
  <2>1. om = [o1 EXCEPT !.n_frag = IF @ = 0 THEN 1 ELSE @]
    BY DEF Edge
  <2> QED
    BY <2>1 DEF CreateBitmap, LongerEdge, Marked
<1>2. CASE ncl = 0
  BY <1>1, <1>2, OutcomeFields
<1>3. CASE ncl # 0
  <2>1. ncl \in Clst /\ ncl \notin v.used
    BY <1>3, FindBitmapFinds DEF IsFree
  <2>2. PICK q \in outcomes : r = Done(q)
    BY <1>1, <1>3
  <2>6. m \in Int
    <3>1. o1.n_frag = o.n_frag /\ o.n_frag \in Int
      BY FatAssumption DEF Stretched, Objects
    <3> HIDE DEF o1
    <3> QED
      BY <3>1 DEF Edge
  <2> HIDE DEF ncl, v1, o1, m, om
  <2>3. CASE o1.stat = 2
    <3>1. q = Outcome(v1, o1, OK)
      BY <2>2, <2>3
    <3>2. r.v = Allocated(v1, ncl) /\ r.o = o1 /\ r.ret = ncl
      BY <2>2, <3>1, OutcomeFields
    <3> QED
      BY <2>1, <2>3, <3>2 DEF ncl, v1, o1, m
  <2>4. CASE o1.stat # 2 /\ ncl = clst + 1
    <3>1. q = Outcome(v1, LongerEdge(o1), OK)
      BY <2>2, <2>4
    <3>2. r.v = Allocated(v1, ncl) /\ r.o = LongerEdge(o1) /\ r.ret = ncl
      BY <2>2, <3>1, OutcomeFields
    <3> QED
      BY <2>1, <2>4, <3>2 DEF ncl, v1, o1, m
  <2>5. CASE o1.stat # 2 /\ ncl # clst + 1
    <3>1. PICK p \in FillLast(v1, om, clst, ncl) : q = Fit(p)
      BY <2>2, <2>5
    <3>2. om.n_frag = m /\ \A k : [om EXCEPT !.n_frag = k] = [o1 EXCEPT !.n_frag = k]
      <4>1. DOMAIN o1 = DOMAIN o /\ "n_frag" \in DOMAIN o1
        BY DEF o1, Stretched, Objects
      <4> QED
        BY <4>1 DEF om
    <3>3. PICK n \in 0 .. m : p = Outcome(PutRun(v1, clst - m + 1, n, m, ncl),
                                          [o1 EXCEPT !.n_frag = m - n],
                                          IF n = m THEN OK ELSE DISK)
      BY <3>1, <3>2 DEF FillLast
    <3>4. DISK # OK
      BY FatAssumption
    <3>5. CASE n = m
      <4>1. p = Outcome(PutRun(v1, clst - m + 1, m, m, ncl), [o1 EXCEPT !.n_frag = m - n], OK)
        BY <3>3, <3>5
      <4>2. q = Outcome(PutRun(v1, clst - m + 1, m, m, ncl), [o1 EXCEPT !.n_frag = 1], OK)
        BY <3>1, <4>1 DEF Outcome
      <4>3. /\ r.v = Allocated(PutRun(v1, clst - m + 1, m, m, ncl), ncl)
            /\ r.o = [o1 EXCEPT !.n_frag = 1] /\ r.ret = ncl
        BY <2>2, <4>2, OutcomeFields
      <4> QED
        BY <2>1, <2>5, <4>3 DEF ncl, v1, o1, m
    <3>6. CASE n # m
      <4>1. p = Outcome(PutRun(v1, clst - m + 1, n, m, ncl), [o1 EXCEPT !.n_frag = m - n], DISK)
        BY <3>3, <3>6
      <4>2. r = p
        BY <2>2, <3>1, <3>4, <4>1, OutcomeFields
      <4>3. /\ r.v = PutRun(v1, clst - m + 1, n, m, ncl)
            /\ r.o = [o1 EXCEPT !.n_frag = m - n] /\ r.ret = DISK
        BY <4>1, <4>2, OutcomeFields
      <4>4. n \in 0 .. m - 1
        <5>1. m \in Int
          BY <2>6
        <5> QED
          BY <3>3, <3>6, <5>1
      <4> QED
        BY <2>1, <2>5, <4>3, <4>4 DEF ncl, v1, o1, m
    <3> QED
      BY <3>5, <3>6
  <2> QED
    BY <2>3, <2>4, <2>5
<1> QED
  BY <1>2, <1>3

LEMMA AllocatedType ==
  ASSUME NEW v \in Volumes, NEW ncl \in Clst, v.free # 0
  PROVE  /\ Allocated(v, ncl) \in Volumes
         /\ Allocated(v, ncl).type = v.type /\ Allocated(v, ncl).used = v.used
         /\ Allocated(v, ncl).fat = v.fat /\ Allocated(v, ncl).last = ncl
         /\ Allocated(v, ncl).free = IF v.free = UNKNOWN THEN UNKNOWN ELSE v.free - 1
<1> DEFINE n == IF v.free <= Clusters THEN v.free - 1 ELSE v.free
<1>1. v.free \in 0 .. Clusters \cup {UNKNOWN} /\ UNKNOWN > Clusters /\ Clusters \in Nat
  BY FatAssumption DEF Volumes
<1>2. /\ n \in 0 .. Clusters \cup {UNKNOWN}
      /\ n = IF v.free = UNKNOWN THEN UNKNOWN ELSE v.free - 1
  BY <1>1
<1>3. Allocated(v, ncl) = [v EXCEPT !.last = ncl, !.free = n]
  BY DEF Allocated, Volumes
<1>4. ncl \in 1 .. Clusters + 1
  BY <1>1
<1> HIDE DEF n
<1> QED
  BY <1>2, <1>3, <1>4 DEF Volumes

LEMMA MarkedType ==
  ASSUME NEW v \in Volumes, NEW ncl \in Clst
  PROVE  /\ Marked(v, ncl) \in Volumes /\ Marked(v, ncl).used = v.used \cup {ncl}
         /\ Marked(v, ncl).type = v.type /\ Marked(v, ncl).fat = v.fat
         /\ Marked(v, ncl).last = v.last /\ Marked(v, ncl).free = v.free
  BY DEF Marked, Volumes

\* A chain that may be gone on from: clst is no cluster, or one with a link.
LEMMA StretchedType ==
  ASSUME NEW v \in Volumes, v.type = "exfat", NEW o \in Objects, NEW clst \in {0} \cup Clst,
         clst # 0 => ~(GetFat(v, o, clst) < 2), NEW ncl \in Clst
  PROVE  LET o1 == Stretched(o, clst, ncl)
         IN  /\ o1 \in Objects /\ o1.sclust = o.sclust /\ o1.size = o.size
             /\ o1.n_frag = o.n_frag
             /\ o1.stat = IF clst = 0 THEN 2
                          ELSE IF o.stat = 2 /\ ncl # clst + 1 THEN 3 ELSE o.stat
             /\ o1.n_cont = IF clst # 0 /\ o.stat = 2 /\ ncl # clst + 1 THEN clst - o.sclust
                            ELSE o.n_cont
<1>1. CASE clst = 0
  BY <1>1 DEF Stretched, Objects
<1>2. CASE clst # 0 /\ o.stat = 2 /\ ncl # clst + 1
  <2>1. clst \in Clst /\ INT_ERR < 2 /\ o.sclust # 0 /\ clst >= o.sclust
    BY <1>2 DEF GetFat
  <2>2. clst - o.sclust \in 0 .. Clusters
    BY <2>1, FatAssumption DEF Objects
  <2>3. Stretched(o, clst, ncl) = [o EXCEPT !.n_cont = clst - o.sclust, !.stat = 3]
    BY <1>2 DEF Stretched
  <2> QED
    BY <1>2, <2>2, <2>3 DEF Objects
<1>3. CASE clst # 0 /\ ~(o.stat = 2 /\ ncl # clst + 1)
  BY <1>3 DEF Stretched
<1> QED
  BY <1>1, <1>2, <1>3

\* The growing edge fits in front of clst.
Fits(o, clst) == o.n_frag > 0 => clst \in Clst /\ o.n_frag <= clst - 1

LEMMA FragType ==
  ASSUME NEW o \in Objects, NEW k \in 0 .. Clusters
  PROVE  LET p == [o EXCEPT !.n_frag = k]
         IN  /\ p \in Objects /\ p.sclust = o.sclust /\ p.size = o.size
             /\ p.stat = o.stat /\ p.n_cont = o.n_cont /\ p.n_frag = k
  BY DEF Objects

LEMMA CreateBitmapType ==
  ASSUME NEW v \in Volumes, v.type = "exfat", v.free # 0, NEW o \in Objects,
         NEW clst \in {0} \cup Clst, clst # 0 => ~(GetFat(v, o, clst) < 2), Fits(o, clst),
         NEW scl, NEW r \in CreateBitmap(v, o, clst, scl)
  PROVE  /\ r.v \in Volumes /\ r.v.type = v.type
         /\ r.o \in Objects /\ r.o.sclust = o.sclust /\ r.o.size = o.size
         /\ r.ret \in {FULL, DISK} \cup Clst
         /\ Fits(r.o, IF r.ret \in Clst THEN r.ret ELSE clst)
         /\ clst = 0 => r.o.n_frag = 0
<1> DEFINE ncl == FindBitmap(v, scl)
           v1  == Marked(v, ncl)
           o1  == Stretched(o, clst, ncl)
           m   == Edge(o1)
           at  == clst - m + 1
<1>1. CASE ncl = 0 /\ r.v = v /\ r.o = o /\ r.ret = FULL
  BY <1>1 DEF Fits, Objects
<1>2. ASSUME ncl \in Clst
      PROVE  /\ v1 \in Volumes /\ v1.type = v.type /\ v1.free # 0
             /\ o1 \in Objects /\ o1.sclust = o.sclust /\ o1.size = o.size
             /\ o1.n_frag = o.n_frag /\ (clst = 0 => o1.stat = 2)
             /\ (clst # 0 /\ o1.stat = 2 => ncl = clst + 1)
             /\ m \in 1 .. Clusters /\ at \in Int
             /\ ncl \notin {FULL, DISK} /\ ncl \in 0 .. EOC
  <2>1. v1 \in Volumes /\ v1.type = v.type /\ v1.free # 0
    BY <1>2, MarkedType
  <2>2. /\ o1 \in Objects /\ o1.sclust = o.sclust /\ o1.size = o.size
        /\ o1.n_frag = o.n_frag /\ (clst = 0 => o1.stat = 2)
        /\ (clst # 0 /\ o1.stat = 2 => ncl = clst + 1)
    BY <1>2, StretchedType
  <2>3. m \in 1 .. Clusters /\ at \in Int
    BY <2>2, FatAssumption DEF Edge, Objects
  <2> QED
    BY <1>2, <2>1, <2>2, <2>3, FatAssumption
<1>8. clst = 0 => o.n_frag = 0
  BY DEF Fits, Objects
<1> HIDE DEF ncl, v1, o1, m, at
<1>3. CASE ncl \in Clst /\ o1.stat = 2 /\ r.v = Allocated(v1, ncl) /\ r.o = o1 /\ r.ret = ncl
  <2>1. r.v \in Volumes /\ r.v.type = v.type
    BY <1>2, <1>3, AllocatedType
  <2>2. Fits(o1, ncl)
    <3>1. CASE clst = 0
      <4>1. o.n_frag = 0
        BY <3>1 DEF Fits, Objects
      <4> QED
        BY <1>2, <1>3, <4>1 DEF Fits
    <3>2. CASE clst # 0
      BY <1>2, <1>3, <3>2, FatAssumption DEF Fits, Objects
    <3> QED
      BY <3>1, <3>2
  <2> QED
    BY <1>2, <1>3, <2>1, <2>2 DEF Fits, Objects
<1>4. CASE /\ ncl \in Clst /\ o1.stat # 2 /\ ncl = clst + 1
           /\ r.v = Allocated(v1, ncl) /\ r.o = LongerEdge(o1) /\ r.ret = ncl
  <2>1. r.v \in Volumes /\ r.v.type = v.type
    BY <1>2, <1>4, AllocatedType
  <2> DEFINE k == IF o1.n_frag = 0 THEN 2 ELSE o1.n_frag + 1
  <2>2. k \in 0 .. Clusters /\ k <= ncl - 1
    BY <1>2, <1>4, FatAssumption DEF Fits, Objects
  <2>3. r.o = [o1 EXCEPT !.n_frag = k]
    BY <1>2, <1>4 DEF LongerEdge, Objects
  <2> HIDE DEF k
  <2>4. /\ r.o \in Objects /\ r.o.sclust = o.sclust /\ r.o.size = o.size /\ r.o.n_frag = k
    BY <1>2, <1>4, <2>2, <2>3, FragType
  <2> QED
    BY <1>2, <1>4, <2>1, <2>2, <2>4 DEF Fits
<1>5. CASE /\ ncl \in Clst /\ o1.stat # 2 /\ ncl # clst + 1
           /\ r.v = Allocated(PutRun(v1, at, m, m, ncl), ncl)
           /\ r.o = [o1 EXCEPT !.n_frag = 1] /\ r.ret = ncl
  <2> DEFINE w == PutRun(v1, at, m, m, ncl)
  <2>1. w \in Volumes /\ w.type = v.type /\ w.free # 0
    <3>1. /\ v1 \in Volumes /\ v1.type = v.type /\ v1.free # 0
          /\ at \in Int /\ m \in Int /\ ncl \in 0 .. EOC
      BY <1>2, <1>5
    <3>2. w \in Volumes /\ SameBut(v1, w)
      BY <3>1, PutRunSame
    <3> QED
      BY <3>1, <3>2 DEF SameBut
  <2> HIDE DEF w
  <2>2. r.v \in Volumes /\ r.v.type = v.type
    BY <1>5, <2>1, AllocatedType DEF w
  <2>3. /\ r.o \in Objects /\ r.o.sclust = o.sclust /\ r.o.size = o.size /\ r.o.n_frag = 1
    BY <1>2, <1>5, FatAssumption DEF Objects
  <2> QED
    BY <1>2, <1>5, <2>2, <2>3 DEF Fits
<1>6. CASE /\ ncl \in Clst /\ o1.stat # 2 /\ ncl # clst + 1
           /\ \E n \in 0 .. m - 1 : r.v = PutRun(v1, at, n, m, ncl) /\ r.o = [o1 EXCEPT !.n_frag = m - n]
           /\ r.ret = DISK
  <2>1. PICK n \in 0 .. m - 1 : r.v = PutRun(v1, at, n, m, ncl) /\ r.o = [o1 EXCEPT !.n_frag = m - n]
    BY <1>6
  <2>2. r.v \in Volumes /\ r.v.type = v.type
    <3>1. /\ v1 \in Volumes /\ v1.type = v.type
          /\ at \in Int /\ m \in Int /\ n \in Int /\ ncl \in 0 .. EOC
      BY <1>2, <1>6
    <3>2. r.v \in Volumes /\ SameBut(v1, r.v)
      BY <2>1, <3>1, PutRunSame
    <3> QED
      BY <3>1, <3>2 DEF SameBut
  <2>3. m - n \in 0 .. m /\ m - n \in 0 .. Clusters
    BY <1>2, <1>6, FatAssumption
  <2>4. /\ r.o \in Objects /\ r.o.sclust = o.sclust /\ r.o.size = o.size /\ r.o.n_frag = m - n
    <3>1. o1 \in Objects /\ o1.sclust = o.sclust /\ o1.size = o.size
      BY <1>2, <1>6
    <3> QED
      BY <2>1, <2>3, <3>1, FragType
  <2>5. clst \in Clst /\ m <= clst - 1 /\ DISK \notin Clst
    <3>1. clst \in Clst /\ o1.n_frag = o.n_frag
      BY <1>2, <1>6
    <3>2. m = IF o.n_frag = 0 THEN 1 ELSE o.n_frag
      BY <3>1 DEF Edge, m
    <3> QED
      BY <3>1, <3>2, FatAssumption DEF Fits, Objects
  <2> QED
    BY <1>2, <1>6, <2>2, <2>3, <2>4, <2>5 DEF Fits
<1>7. FULL \notin Clst
  OBVIOUS
<1> QED
  BY <1>1, <1>3, <1>4, <1>5, <1>6, <1>7, BitmapOutcomes DEF ncl, v1, o1, m, at

\* create_chain: volume and object stay well-formed, and the growing edge, if
\* there is one, ends with the cluster that the call returns.
LEMMA CreateChainType ==
  ASSUME NEW v \in Volumes, NEW o \in Objects, Plain(v, o), NEW clst \in {0, EOC} \cup Clst,
         Fits(o, clst), NEW r \in CreateChain(v, o, clst)
  PROVE  /\ r.v \in Volumes /\ r.v.type = v.type
         /\ r.o \in Objects /\ r.o.sclust = o.sclust /\ r.o.size = o.size
         /\ r.ret \in {FULL, INT_ERR, DISK} \cup Clst
         /\ Plain(r.v, r.o)
         /\ Fits(r.o, IF r.ret \in Clst THEN r.ret ELSE clst)
         /\ clst = 0 => r.o.n_frag = 0
<1> DEFINE next == GetFat(v, o, clst)
           scl  == IF clst # 0 THEN clst ELSE IF v.last \in 1 .. Clusters + 1 THEN v.last ELSE 1
<1>0. /\ scl \in Int /\ {FULL, INT_ERR, DISK} \cap Clst = {} /\ EOC \in 0 .. EOC /\ DISK # OK
      /\ clst \in 0 .. EOC
  BY FatAssumption DEF Volumes
<1>1. CASE r.v = v /\ r.o = o /\ r.ret \in {FULL, INT_ERR, DISK}
  BY <1>0, <1>1 DEF Fits, Objects
<1>2. CASE clst # 0 /\ next \in Clst /\ r.v = v /\ r.o = o /\ r.ret = next
  <2>1. v.type = "exfat" /\ o.n_frag # 0 => next = clst + 1
    BY <1>0, <1>2, GetFatType
  <2>3. o.n_frag \in Nat /\ clst \in Nat /\ (o.n_frag > 0 => o.n_frag # 0)
    BY <1>0, FatAssumption DEF Objects
  <2>4. o.n_frag > 0 => v.type = "exfat"
    BY <2>3 DEF Plain, Volumes
  <2> HIDE DEF next
  <2>2. Fits(o, next)
    BY <1>2, <2>1, <2>3, <2>4 DEF Fits
  <2> QED
    BY <1>2, <2>2
<1>3. CASE /\ clst # 0 => ~(next < 2) /\ next \notin Clst
           /\ v.free # 0 /\ v.type = "exfat" /\ r \in CreateBitmap(v, o, clst, scl)
  <2>1. clst \in {0} \cup Clst
    BY <1>0, <1>3, GetFatType
  <2>2. /\ r.v \in Volumes /\ r.v.type = v.type
        /\ r.o \in Objects /\ r.o.sclust = o.sclust /\ r.o.size = o.size
        /\ r.ret \in {FULL, DISK} \cup Clst
        /\ Fits(r.o, IF r.ret \in Clst THEN r.ret ELSE clst)
        /\ clst = 0 => r.o.n_frag = 0
    BY <1>3, <2>1, CreateBitmapType
  <2> QED
    BY <1>3, <2>2 DEF Plain
<1>4. CASE /\ clst # 0 => ~(next < 2) /\ next \notin Clst
           /\ v.free # 0 /\ v.type = "fat32" /\ r \in CreateFat(v, o, clst, scl)
  <2> DEFINE ncl == FindFat(v, clst, scl)
             v1  == Put(v, ncl, EOC)
             v2  == IF clst = 0 THEN v1 ELSE Put(v1, clst, ncl)
  <2>1. clst \in {0} \cup Clst
    BY <1>0, <1>4, GetFatType
  <2>2. ncl # 0 => ncl \in Clst /\ ncl \in 0 .. EOC
    BY <1>0, <2>1, FindFatFinds, FatAssumption
  <2>3. r \in IF ncl = 0 THEN {Outcome(v, o, FULL)}
              ELSE {Stopped(v1, o), Outcome(Allocated(v2, ncl), o, ncl)}
    BY <1>4 DEF CreateFat
  <2>4. v1 \in Volumes /\ v1.type = v.type /\ v1.free = v.free
    BY <1>0, PutSame DEF SameBut
  <2>5. ncl # 0 => v2 \in Volumes /\ v2.type = v.type /\ v2.free = v.free
    <3> HIDE DEF ncl, v1
    <3> QED
      BY <2>2, <2>4, PutSame DEF SameBut
  <2> HIDE DEF ncl, v1, v2
  <2>6. CASE r = Outcome(v, o, FULL)
    BY <1>1, <2>6, OutcomeFields
  <2>7. CASE r = Stopped(v1, o)
    <3>1. r.v = v1 /\ r.o = o /\ r.ret = DISK
      BY <2>7, OutcomeFields DEF Stopped
    <3>2. o.n_frag = 0
      BY <1>4 DEF Plain
    <3> QED
      BY <1>0, <2>4, <3>1, <3>2 DEF Plain
  <2>8. CASE ncl # 0 /\ r = Outcome(Allocated(v2, ncl), o, ncl)
    <3>1. r.v = Allocated(v2, ncl) /\ r.o = o /\ r.ret = ncl
      BY <2>8, OutcomeFields
    <3>2. r.v \in Volumes /\ r.v.type = v.type
      BY <1>4, <2>2, <2>5, <2>8, <3>1, AllocatedType
    <3>3. o.n_frag = 0
      BY <1>4 DEF Plain
    <3>4. Fits(o, ncl) /\ Plain(r.v, o)
      BY <3>2, <3>3 DEF Fits, Plain
    <3> QED
      BY <2>2, <2>8, <3>1, <3>2, <3>3, <3>4
  <2> QED
    BY <2>3, <2>6, <2>7, <2>8
<1>5. \/ r = Stopped(v, o)
      \/ r = Outcome(v, o, INT_ERR)
      \/ clst # 0 /\ next \in Clst /\ r = Outcome(v, o, next)
      \/ r = Outcome(v, o, FULL)
      \/ /\ clst # 0 => ~(next < 2) /\ next \notin Clst
         /\ v.free # 0
         /\ \/ v.type = "exfat" /\ r \in CreateBitmap(v, o, clst, scl)
            \/ v.type # "exfat" /\ r \in CreateFat(v, o, clst, scl)
  <2> HIDE DEF next, scl
  <2> QED
    BY DEF CreateChain, next, scl
<1>6. v.type \in {"fat32", "exfat"}
  BY DEF Volumes
<1> HIDE DEF next, scl
<1> QED
  BY <1>1, <1>2, <1>3, <1>4, <1>5, <1>6, OutcomeFields DEF Stopped

-----------------------------------------------------------------------------
\* remove_chain

LEMMA ReleasedType ==
  ASSUME NEW v \in Volumes, NEW s \in Seq(Clst)
  PROVE  /\ Released(v, s) \in Volumes /\ Released(v, s).type = v.type
         /\ Released(v, s).last = v.last
<1> DEFINE n == v.free + Len(s)
           free == IF v.free >= Clusters THEN v.free ELSE IF n > Clusters THEN Clusters ELSE n
           used == IF v.type = "exfat" THEN v.used \ Range(s) ELSE v.used
           fat  == IF v.type = "exfat" THEN v.fat
                   ELSE [c \in Clst |-> IF c \in Range(s) THEN FREE ELSE v.fat[c]]
<1>1. free \in 0 .. Clusters \cup {UNKNOWN}
  BY FatAssumption DEF Volumes
<1>2. used \in SUBSET Clst
  BY DEF Volumes
<1>3. fat \in [Clst -> 0 .. EOC]
  BY FatAssumption DEF Volumes
<1>4. Released(v, s) = [v EXCEPT !.free = free, !.used = used, !.fat = fat]
  BY DEF Released, Volumes
<1> HIDE DEF free, used, fat
<1> QED
  BY <1>1, <1>2, <1>3, <1>4 DEF Volumes

LEMMA AheadType ==
  ASSUME NEW v \in Volumes, NEW n \in Nat
  PROVE  LET w == Ahead(v, n)
         IN  /\ w \in Volumes /\ w.type = v.type /\ w.last = v.last
             /\ w.fat = v.fat /\ w.used = v.used
<1> DEFINE free == IF v.free >= Clusters THEN v.free
                   ELSE IF v.free + n > Clusters THEN Clusters ELSE v.free + n
<1>1. free \in 0 .. Clusters \cup {UNKNOWN}
  BY FatAssumption DEF Volumes
<1>2. Ahead(v, n) = [v EXCEPT !.free = free]
  BY DEF Ahead, Volumes
<1> HIDE DEF free
<1> QED
  BY <1>1, <1>2 DEF Volumes

\* remove_chain was stopped: a part of the chain is given back.
LEMMA HalfwayIs ==
  ASSUME NEW v, NEW s \in Seq(Clst), NEW o, NEW r \in Halfway(v, s, o)
  PROVE  \E n \in 0 .. Len(s), m \in Nat : r = Stopped(Ahead(Released(v, SubSeq(s, 1, n)), m), o)
<1>1. PICK n \in 0 .. Len(s) :
        \E m \in 0 .. IF v.type = "exfat" THEN Len(s) - n ELSE 0 :
           r = Stopped(Ahead(Released(v, SubSeq(s, 1, n)), m), o)
  BY DEF Halfway
<1>2. PICK m \in 0 .. IF v.type = "exfat" THEN Len(s) - n ELSE 0 :
        r = Stopped(Ahead(Released(v, SubSeq(s, 1, n)), m), o)
  BY <1>1
<1>3. m \in Nat
  OBVIOUS
<1> HIDE DEF Halfway
<1> QED
  BY <1>2, <1>3

LEMMA HalfwayStopped ==
  ASSUME NEW v, NEW s, NEW o, NEW r \in Halfway(v, s, o)
  PROVE  r.ret = DISK
BY OutcomeFields DEF Halfway, Stopped

LEMMA ShortenedType ==
  ASSUME NEW v, NEW o \in Objects, NEW pclst
  PROVE  LET p == Shortened(v, o, pclst)
         IN  /\ p \in Objects /\ p.sclust = o.sclust /\ p.size = o.size
             /\ p.n_cont = o.n_cont /\ p.n_frag = o.n_frag
             /\ p.stat \in {0, 2, o.stat}
             /\ v.type # "exfat" => p = o
<1>1. \A x \in {0, 2, 3} :
        LET p == [o EXCEPT !.stat = x]
        IN  /\ p \in Objects /\ p.sclust = o.sclust /\ p.size = o.size
            /\ p.n_cont = o.n_cont /\ p.n_frag = o.n_frag /\ p.stat = x
  BY DEF Objects
<1>2. o.stat \in {0, 2, 3}
  BY DEF Objects
<1>3. \E x \in {0, 2, o.stat} : Shortened(v, o, pclst) = [o EXCEPT !.stat = x]
  <2>1. o = [o EXCEPT !.stat = o.stat]
    BY DEF Objects
  <2>2. \/ Shortened(v, o, pclst) = o
        \/ \E x \in {0, 2, o.stat} : Shortened(v, o, pclst) = [o EXCEPT !.stat = x]
    BY DEF Shortened
  <2> QED
    BY <2>1, <2>2
<1>4. v.type # "exfat" => Shortened(v, o, pclst) = o
  BY DEF Shortened
<1> QED
  BY <1>1, <1>2, <1>3, <1>4

LEMMA RemoveChainType ==
  ASSUME NEW v \in Volumes, NEW o \in Objects, Plain(v, o), NEW clst, NEW pclst,
         NEW r \in RemoveChain(v, o, clst, pclst)
  PROVE  /\ r.v \in Volumes /\ r.v.type = v.type
         /\ r.o \in Objects /\ r.o.sclust = o.sclust /\ r.o.size = o.size
         /\ r.o.n_cont = o.n_cont /\ r.o.n_frag = o.n_frag
         /\ r.ret \in {INT_ERR, DISK, OK}
         /\ Plain(r.v, r.o)
<1> DEFINE v1 == IF pclst # 0 /\ (v.type = "fat32" \/ o.stat # 2) THEN Put(v, pclst, EOC) ELSE v
           s  == Walk(v1, o, clst)
           end == GetFat(v1, o, Last(s))
<1>1. r \in IF clst \notin Clst THEN {Outcome(v, o, INT_ERR)}
            ELSE {Stopped(v, o)}
                 \cup Halfway(v1, s, o)
                 \cup (IF end = INT_ERR \/ (v.type = "exfat" /\ ~Range(s) \subseteq v.used)
                      THEN {Outcome(v1, o, INT_ERR)}
                      ELSE {Outcome(Released(v1, s), Shortened(v1, o, pclst), OK)})
  BY DEF RemoveChain
<1>2. v1 \in Volumes /\ v1.type = v.type
  BY PutSame, FatAssumption DEF SameBut
<1>3. clst \in Clst => s \in Seq(Clst)
  BY WalkSeq
<1> HIDE DEF v1, s, end
<1>4. CASE r = Stopped(v, o) \/ r = Outcome(v, o, INT_ERR)
  BY <1>4, OutcomeFields DEF Stopped
<1>5. CASE r = Outcome(v1, o, INT_ERR)
  BY <1>2, <1>5, OutcomeFields DEF Plain
<1>6. CASE clst \in Clst /\ r \in Halfway(v1, s, o)
  <2>1. PICK n \in 0 .. Len(s), m \in Nat :
          r = Stopped(Ahead(Released(v1, SubSeq(s, 1, n)), m), o)
    BY <1>3, <1>6, HalfwayIs
  <2>2. SubSeq(s, 1, n) \in Seq(Clst)
    <3>1. s \in Seq(Clst) /\ n \in 0 .. Len(s)
      BY <1>3, <1>6
    <3> QED
      BY <3>1, Prefix
  <2>3. r.v = Ahead(Released(v1, SubSeq(s, 1, n)), m) /\ r.o = o /\ r.ret = DISK
    BY <2>1, OutcomeFields DEF Stopped
  <2>4. r.v \in Volumes /\ r.v.type = v.type
    <3> DEFINE x == Released(v1, SubSeq(s, 1, n))
    <3>1. x \in Volumes /\ x.type = v.type
      BY <1>2, <2>2, ReleasedType
    <3>2. r.v = Ahead(x, m)
      BY <2>3
    <3> HIDE DEF x
    <3> QED
      BY <3>1, <3>2, AheadType
  <2> QED
    BY <2>3, <2>4 DEF Plain
<1>7. CASE clst \in Clst /\ r = Outcome(Released(v1, s), Shortened(v1, o, pclst), OK)
  <2>1. r.v = Released(v1, s) /\ r.o = Shortened(v1, o, pclst) /\ r.ret = OK
    BY <1>7, OutcomeFields
  <2>2. r.v \in Volumes /\ r.v.type = v.type
    BY <1>2, <1>3, <1>7, <2>1, ReleasedType
  <2>3. /\ r.o \in Objects /\ r.o.sclust = o.sclust /\ r.o.size = o.size
        /\ r.o.n_cont = o.n_cont /\ r.o.n_frag = o.n_frag
        /\ v.type # "exfat" => r.o = o
    BY <1>2, <2>1, ShortenedType
  <2>4. Plain(r.v, r.o)
    BY <2>2, <2>3 DEF Plain
  <2> QED
    BY <2>1, <2>2, <2>3, <2>4
<1> QED
  BY <1>1, <1>4, <1>5, <1>6, <1>7

-----------------------------------------------------------------------------
\* Type correctness

Fils == [o : Objects, clust : {0, EOC} \cup Clst, fptr : 0 .. MaxSize,
         modified : BOOLEAN, err : BOOLEAN, write : BOOLEAN]

Entries == [sclust : {0} \cup Clst, size : 0 .. MaxSize, stat : {0, 2}, n_cont : {0}, n_frag : {0}]

Proper ==
  /\ pc \in {"idle", "read", "write", "seek"}
  /\ vol \in Volumes
  /\ entry \in [Files -> Entries \cup {NoEntry}]
  /\ cur \in Files \cup {NoFile}
  /\ fp \in Fils
  /\ left \in 0 .. MaxSize
  /\ res \in {"ok", "full", "disk", "int"}
  /\ chain \in [Files -> Seq(Clst)]
  /\ faults \in 0 .. MaxFaults
  /\ opens \in 0 .. MaxOpens
  /\ loose \in BOOLEAN

\* What keeps the growing edge from being longer than the clusters up to the
\* current one: it ends there, and goes on from there.
Edged ==
  /\ Plain(vol, fp.o) /\ Fits(fp.o, fp.clust)
  /\ fp.o.n_frag > 0 => fp.fptr > 0

\* A call under way has a file, and does not get beyond the largest size.
Calling ==
  pc # "idle" =>
    /\ cur \in Files /\ ~fp.err /\ left > 0
    /\ IF pc = "read" THEN fp.fptr + left <= fp.o.size ELSE fp.fptr + left <= MaxSize

FatTypeInv == Proper /\ Edged /\ Calling

LEMMA EntryLoads ==
  ASSUME Proper, NEW f \in Files, Exists(f)
  PROVE  /\ entry[f] \in Entries /\ Loaded(entry[f]) \in Objects
         /\ Plain(vol, Loaded(entry[f]))
         /\ Loaded(entry[f]).sclust = entry[f].sclust /\ Loaded(entry[f]).size = entry[f].size
         /\ Loaded(entry[f]).stat = IF vol.type = "exfat" THEN entry[f].stat ELSE 0
         /\ Loaded(entry[f]).n_cont = 0 /\ Loaded(entry[f]).n_frag = 0
<1>1. entry[f] \in Entries
  BY DEF Proper, Exists
<1> DEFINE e == entry[f]
<1> HIDE DEF e
<1>2. e \in Entries
  BY <1>1 DEF e
<1>3. /\ Loaded(e) \in Objects /\ Plain(vol, Loaded(e))
      /\ Loaded(e).sclust = e.sclust /\ Loaded(e).size = e.size
      /\ Loaded(e).stat = IF vol.type = "exfat" THEN e.stat ELSE 0
      /\ Loaded(e).n_cont = 0 /\ Loaded(e).n_frag = 0
  BY <1>2, FatAssumption DEF Loaded, Object, Entries, Objects, Plain
<1> QED
  BY <1>2, <1>3 DEF e

LEMMA ObjectType ==
  ASSUME NEW c \in {0} \cup Clst, NEW size \in 0 .. MaxSize, NEW stat \in {0, 2}
  PROVE  Object(c, size, stat) \in Entries /\ Object(c, size, stat) \in Objects
  BY FatAssumption DEF Object, Entries, Objects

LEMMA NewFilType ==
  ASSUME NEW o \in Objects, NEW write \in BOOLEAN, NEW modified \in BOOLEAN
  PROVE  LET f == NewFil(o, write, modified)
         IN  /\ f \in Fils /\ f.o = o /\ f.clust = 0 /\ f.fptr = 0
             /\ f.modified = modified /\ f.write = write /\ f.err = FALSE
  BY FileAssumption DEF NewFil, Fils

LEMMA ClosedType ==
  Closed \in Fils /\ Plain(vol, Closed.o) /\ Fits(Closed.o, Closed.clust) /\ Closed.o.n_frag = 0
<1>1. PICK o : o = Object(0, 0, 0)
  OBVIOUS
<1>2. 0 \in {0} \cup Clst /\ 0 \in 0 .. MaxSize /\ 0 \in {0, 2}
  BY FileAssumption
<1>3. o \in Objects
  BY <1>1, <1>2, ObjectType
<1>4. o.stat = 0 /\ o.n_frag = 0
  BY <1>1 DEF Object
<1>5. Closed = NewFil(o, FALSE, FALSE)
  BY <1>1 DEF Closed
<1>6. Closed \in Fils /\ Closed.o = o
  BY <1>3, <1>5, NewFilType
<1> QED
  BY <1>4, <1>6 DEF Plain, Fits

LEMMA FatTypeInit == Init => FatTypeInv
<1> SUFFICES ASSUME Init PROVE FatTypeInv
  OBVIOUS
<1>1. vol \in Volumes
  <2>1. PICK type \in {"fat32", "exfat"} :
          vol = [type |-> type, used |-> {}, last |-> UNKNOWN, free |-> UNKNOWN,
                 fat |-> [c \in Clst |-> IF type = "exfat" THEN 2 ELSE FREE]]
    BY DEF Init
  <2>2. [c \in Clst |-> IF type = "exfat" THEN 2 ELSE FREE] \in [Clst -> 0 .. EOC]
    BY FatAssumption
  <2> QED
    BY <2>1, <2>2 DEF Volumes
<1>2. fp \in Fils /\ Edged
  BY ClosedType DEF Init, Edged
<1>3. /\ pc = "idle" /\ entry = [f \in Files |-> NoEntry] /\ cur = NoFile /\ left = 0
      /\ res = "ok" /\ chain = [f \in Files |-> <<>>] /\ faults = 0 /\ opens = 0 /\ loose = FALSE
  BY DEF Init
<1>4. entry \in [Files -> Entries \cup {NoEntry}] /\ chain \in [Files -> Seq(Clst)]
  BY <1>3
<1>5. /\ 0 \in 0 .. MaxSize /\ 0 \in 0 .. MaxFaults /\ 0 \in 0 .. MaxOpens
  BY FileAssumption
<1>6. Proper
  BY <1>1, <1>2, <1>3, <1>4, <1>5 DEF Proper
<1> QED
  BY <1>2, <1>3, <1>6 DEF FatTypeInv, Calling

LEMMA ResultType == \A ret : Result(ret) \in {"ok", "disk", "int"}
  BY DEF Result

LEMMA LoadedCur ==
  ASSUME Proper
  PROVE  /\ fp.o \in Objects /\ fp.clust \in {0, EOC} \cup Clst /\ fp.fptr \in 0 .. MaxSize
         /\ fp.modified \in BOOLEAN /\ fp.err \in BOOLEAN /\ fp.write \in BOOLEAN
         /\ fp.o.size \in 0 .. MaxSize /\ fp.o.sclust \in {0} \cup Clst
         /\ fp.o.n_frag \in 0 .. Clusters /\ fp.o.n_cont \in 0 .. Clusters
         /\ fp.o.stat \in {0, 2, 3}
         /\ MaxSize \in Nat /\ CSize \in Nat \ {0} /\ Clusters \in Nat \ {0}
  BY FileAssumption, FatAssumption DEF Proper, Fils, Objects

\* What the type invariant says of the volume and of the file that is open
LEMMA OpenFile ==
  ASSUME FatTypeInv
  PROVE  /\ Proper /\ Edged /\ Calling /\ vol \in Volumes /\ fp \in Fils
         /\ chain \in [Files -> Seq(Clst)]
         /\ fp.o \in Objects /\ Plain(vol, fp.o) /\ fp.o.size \in Nat
<1>1. Proper /\ Edged /\ Calling
  BY DEF FatTypeInv
<1>2. vol \in Volumes /\ fp \in Fils /\ chain \in [Files -> Seq(Clst)]
  BY <1>1 DEF Proper
<1>3. fp.o \in Objects /\ fp.o.size \in Nat
  BY <1>1, LoadedCur
<1>4. Plain(vol, fp.o)
  BY <1>1 DEF Edged
<1> QED
  BY <1>1, <1>2, <1>3, <1>4

LEMMA CurIn ==
  ASSUME Proper
  PROVE  fp.o \in Objects /\ fp.clust \in 0 .. EOC
<1>1. fp.o \in Objects /\ fp.clust \in {0, EOC} \cup Clst
  BY LoadedCur
<1>2. 0 \in 0 .. EOC /\ EOC \in 0 .. EOC /\ Clst \subseteq 0 .. EOC
  BY FatAssumption
<1> QED
  BY <1>1, <1>2

LEMMA FatTypeTransfer ==
  ASSUME FatTypeInv, NEW kind \in {"read", "write"}, Transfer(kind)
  PROVE  FatTypeInv'
<1>1. Proper /\ Edged
  BY DEF FatTypeInv
<1>2. PICK n \in Lengths :
        /\ pc' = kind
        /\ IF kind = "read" THEN fp.fptr < fp.o.size ELSE fp.write /\ fp.fptr + n <= MaxSize
        /\ left' = IF kind = "read" /\ n > fp.o.size - fp.fptr THEN fp.o.size - fp.fptr ELSE n
  BY DEF Transfer
<1>3. /\ pc = "idle" /\ cur # NoFile /\ ~fp.err
      /\ UNCHANGED <<vol, entry, cur, fp, res, chain, faults, loose, opens>>
  BY DEF Transfer, Valid
<1>4. n \in 1 .. MaxSize
  BY FileAssumption
<1>5. /\ left' \in 1 .. MaxSize
      /\ IF kind = "read" THEN fp.fptr + left' <= fp.o.size ELSE fp.fptr + left' <= MaxSize
  BY <1>1, <1>2, <1>4, LoadedCur
<1>6. Proper'
  BY <1>1, <1>2, <1>3, <1>5 DEF Proper
<1>7. Edged'
  BY <1>1, <1>3 DEF Edged
<1>8. Calling'
  BY <1>1, <1>2, <1>3, <1>5 DEF Calling, Proper
<1> QED
  BY <1>6, <1>7, <1>8 DEF FatTypeInv

LEMMA FatTypeSeekEnd ==
  ASSUME FatTypeInv, SeekEnd
  PROVE  FatTypeInv'
<1>1. Proper /\ Edged /\ Calling
  BY DEF FatTypeInv
<1> DEFINE at == fp.fptr + left
           size == IF at > fp.o.size THEN at ELSE fp.o.size
           changed == fp.modified \/ at > fp.o.size
<1>2. /\ pc = "seek" /\ pc' = "idle" /\ left' = 0
      /\ UNCHANGED <<vol, entry, cur, res, chain, faults, loose, opens>>
      /\ fp' = [fp EXCEPT !.fptr = at, !.o.size = IF at > @ THEN at ELSE @,
                          !.modified = @ \/ (at > fp.o.size)]
  BY DEF SeekEnd
<1>3. at \in 0 .. MaxSize /\ size \in 0 .. MaxSize /\ changed \in BOOLEAN /\ at > 0
  <2>1. at \in 0 .. MaxSize /\ at > 0
    <3>1. left > 0 /\ fp.fptr + left <= MaxSize
      BY <1>1, <1>2 DEF Calling
    <3>2. left \in 0 .. MaxSize
      BY <1>1 DEF Proper
    <3>3. fp.fptr \in 0 .. MaxSize /\ MaxSize \in Nat
      BY <1>1, LoadedCur
    <3> QED
      BY <3>1, <3>2, <3>3
  <2>2. size \in 0 .. MaxSize
    BY <1>1, <2>1, LoadedCur
  <2>3. changed \in BOOLEAN
    OBVIOUS
  <2> QED
    BY <2>1, <2>2, <2>3
<1>4. fp' = [fp EXCEPT !.fptr = at, !.o = [fp.o EXCEPT !.size = size], !.modified = changed]
  BY <1>1, <1>2 DEF Proper, Fils, Objects
<1> HIDE DEF at, size, changed
<1>5. /\ fp' \in Fils /\ fp'.o.stat = fp.o.stat /\ fp'.o.n_frag = fp.o.n_frag
      /\ fp'.clust = fp.clust /\ fp'.fptr = at
  BY <1>1, <1>3, <1>4 DEF Proper, Fils, Objects
<1>6. Proper'
  BY <1>1, <1>2, <1>5, LoadedCur DEF Proper
<1>7. Edged'
  BY <1>1, <1>2, <1>3, <1>5 DEF Edged, Plain, Fits
<1>8. Calling'
  BY <1>2 DEF Calling
<1> QED
  BY <1>6, <1>7, <1>8 DEF FatTypeInv

LEMMA CountFreeType ==
  ASSUME NEW v
  PROVE  CountFree(v) \in 0 .. Clusters
<1> DEFINE T == {c \in Clst : IsFree(v, c)}
<1>1. Clusters + 1 \in Int /\ 2 \in Int
  BY FatAssumption
<1>2. IsFiniteSet(2 .. Clusters + 1) /\ Cardinality(2 .. Clusters + 1) = Clusters
  BY <1>1, FS_Interval, FatAssumption
<1>3. IsFiniteSet(T) /\ Cardinality(T) <= Clusters
  BY <1>2, FS_Subset
<1>4. Cardinality(T) \in Nat
  BY <1>3, FS_CardinalityType
<1> QED
  BY <1>3, <1>4, FatAssumption DEF CountFree

LEMMA FatTypeGetFree ==
  ASSUME FatTypeInv, GetFree
  PROVE  FatTypeInv'
<1>1. Proper /\ Edged /\ Calling
  BY DEF FatTypeInv
<1>2. /\ pc = "idle" /\ res' \in {"ok", "disk"}
      /\ UNCHANGED <<pc, entry, cur, fp, left, chain, loose, opens>>
      /\ faults' = faults \/ (faults' = faults + 1 /\ faults + 1 <= MaxFaults)
  <2>1. CASE res' = "ok" /\ UNCHANGED faults
    BY <2>1 DEF GetFree
  <2>2. CASE res' = "disk" /\ Faults(1)
    BY <2>2 DEF GetFree, Faults
  <2> QED
    BY <2>1, <2>2 DEF GetFree
<1>3. PICK n \in 0 .. CountFree(vol) : vol' = [vol EXCEPT !.free = n]
  <2>1. CountFree(vol) \in 0 .. CountFree(vol)
    BY <1>1, CountFreeType DEF Proper
  <2> QED
    BY <2>1 DEF GetFree
<1>4. n \in 0 .. Clusters
  BY <1>1, CountFreeType, FatAssumption DEF Proper
<1>5. vol' \in Volumes /\ vol'.type = vol.type
  BY <1>1, <1>3, <1>4 DEF Proper, Volumes
<1>6. faults' \in 0 .. MaxFaults
  BY <1>1, <1>2, FileAssumption DEF Proper
<1>7. Proper' /\ Calling'
  BY <1>1, <1>2, <1>5, <1>6 DEF Proper, Calling
<1>8. Edged'
  BY <1>1, <1>2, <1>5 DEF Edged, Plain
<1> QED
  BY <1>7, <1>8 DEF FatTypeInv

LEMMA ShareBounds ==
  ASSUME Proper, Calling, pc # "idle"
  PROVE  /\ Share \in 1 .. left
         /\ left \in 1 .. MaxSize /\ fp.fptr + left <= MaxSize
         /\ Share <= CSize - (fp.fptr % CSize)
         /\ Share # left => Share = CSize - (fp.fptr % CSize)
<1>1. fp.fptr % CSize \in 0 .. CSize - 1
  BY LoadedCur
<1>2. left \in 1 .. MaxSize /\ fp.fptr + left <= MaxSize
  <2>1. left \in 0 .. MaxSize
    BY DEF Proper
  <2>2. left > 0 /\ (fp.fptr + left <= fp.o.size \/ fp.fptr + left <= MaxSize)
    BY DEF Calling
  <2> QED
    BY <2>1, <2>2, LoadedCur
<1> QED
  BY <1>1, <1>2, LoadedCur DEF Share

LEMMA MovedFields ==
  ASSUME NEW f \in Fils, NEW done \in Nat, f.fptr + done <= MaxSize, Moved(f, done)
  PROVE  /\ fp' \in Fils /\ fp'.o.sclust = f.o.sclust /\ fp'.o.stat = f.o.stat
         /\ fp'.o.n_cont = f.o.n_cont /\ fp'.o.n_frag = f.o.n_frag
         /\ fp'.o.size = IF f.fptr + done > f.o.size THEN f.fptr + done ELSE f.o.size
         /\ fp'.clust = f.clust /\ fp'.fptr = f.fptr + done
         /\ fp'.err = f.err /\ fp'.write = f.write
         /\ fp'.modified <=> (f.modified \/ (pc = "write" /\ left = done))
         /\ left' = left - done /\ res' = "ok" /\ pc' = IF left = done THEN "idle" ELSE pc
<1> DEFINE at == f.fptr + done
           size == IF at > f.o.size THEN at ELSE f.o.size
           changed == f.modified \/ (pc = "write" /\ left = done)
<1>1. /\ fp' = [f EXCEPT !.fptr = @ + done,
                     !.o.size = IF f.fptr + done > @ THEN f.fptr + done ELSE @,
                     !.modified = @ \/ (pc = "write" /\ left = done)]
      /\ left' = left - done /\ res' = "ok" /\ pc' = IF left = done THEN "idle" ELSE pc
  BY DEF Moved
<1>2. /\ f.fptr \in 0 .. MaxSize /\ f.o.size \in 0 .. MaxSize /\ f.o \in Objects
      /\ f.modified \in BOOLEAN
  BY DEF Fils, Objects
<1>3. at \in 0 .. MaxSize /\ size \in 0 .. MaxSize
  BY <1>2, FileAssumption
<1>4. changed \in BOOLEAN
  OBVIOUS
<1>5. fp' = [f EXCEPT !.fptr = at, !.o = [f.o EXCEPT !.size = size], !.modified = changed]
  BY <1>1 DEF Fils, Objects
<1> HIDE DEF at, size, changed
<1>6. /\ fp' \in Fils /\ fp'.o.sclust = f.o.sclust /\ fp'.o.stat = f.o.stat
      /\ fp'.o.n_cont = f.o.n_cont /\ fp'.o.n_frag = f.o.n_frag
      /\ fp'.o.size = size
      /\ fp'.clust = f.clust /\ fp'.fptr = at
      /\ fp'.err = f.err /\ fp'.write = f.write
      /\ fp'.modified = changed
  BY <1>3, <1>4, <1>5 DEF Fils, Objects
<1> QED
  BY <1>1, <1>6 DEF at, size, changed

\* The FIL object with another object and cluster
LEMMA FilType ==
  ASSUME NEW f \in Fils, NEW o \in Objects, NEW c \in {0, EOC} \cup Clst
  PROVE  LET g == [f EXCEPT !.o = o, !.clust = c]
         IN  /\ g \in Fils /\ g.o = o /\ g.clust = c /\ g.fptr = f.fptr
             /\ g.err = f.err /\ g.write = f.write /\ g.modified = f.modified
  BY DEF Fils

LEMMA AbortFields ==
  ASSUME fp \in Fils, NEW o \in Objects, NEW why, Abort(o, why)
  PROVE  /\ fp' \in Fils /\ fp'.o = o /\ fp'.clust = fp.clust /\ fp'.fptr = fp.fptr
         /\ fp'.err = TRUE /\ fp'.write = fp.write /\ fp'.modified = fp.modified
         /\ pc' = "idle" /\ left' = 0 /\ res' = why
  BY DEF Abort, Fils

LEMMA FaultsType ==
  ASSUME Proper, NEW n \in {0, 1}, Faults(n)
  PROVE  faults' \in 0 .. MaxFaults /\ faults' = faults + n
  BY FileAssumption DEF Proper, Faults

LEMMA TakesFields ==
  ASSUME Proper, NEW r, Takes(r)
  PROVE  /\ vol' = r.v /\ faults' \in 0 .. MaxFaults
         /\ faults' = IF r.ret = DISK THEN faults + 1 ELSE faults
<1>1. Error(r) \in {0, 1} /\ Faults(Error(r)) /\ vol' = r.v
  BY DEF Error, Takes
<1>2. faults' \in 0 .. MaxFaults /\ faults' = faults + Error(r)
  BY <1>1, FaultsType
<1> QED
  BY <1>1, <1>2 DEF Error, Proper

LEMMA FatTypeReadStep ==
  ASSUME FatTypeInv, ReadStep
  PROVE  FatTypeInv'
<1>1. Proper /\ Edged /\ Calling
  BY DEF FatTypeInv
<1> DEFINE c == IF ~OnBoundary THEN fp.clust
                ELSE IF fp.fptr = 0 THEN fp.o.sclust ELSE GetFat(vol, fp.o, fp.clust)
<1>2. /\ pc = "read" /\ UNCHANGED <<vol, entry, cur, chain, loose, opens>>
      /\ \/ c \in Clst /\ Moved([fp EXCEPT !.clust = c], Share) /\ UNCHANGED faults
         \/ c \notin Clst /\ Abort(fp.o, "int") /\ UNCHANGED faults
         \/ Abort(fp.o, "disk") /\ Faults(1)
  BY DEF ReadStep
<1>3. Share \in 1 .. left /\ left \in 1 .. MaxSize /\ fp.fptr + left <= fp.o.size
  BY <1>1, <1>2, ShareBounds DEF Calling
<1>4. CASE c \in Clst /\ Moved([fp EXCEPT !.clust = c], Share) /\ UNCHANGED faults
  <2>1. Fits(fp.o, c)
    <3>1. CASE fp.fptr = 0
      BY <1>1, <3>1, LoadedCur DEF Edged, Fits
    <3>2. CASE fp.fptr # 0 /\ ~OnBoundary
      BY <1>1, <3>2 DEF Edged
    <3>3. CASE fp.fptr # 0 /\ OnBoundary
      <4>1. c = GetFat(vol, fp.o, fp.clust) /\ c \in Clst
        BY <1>4, <3>3
      <4>2. fp.clust \in 0 .. EOC /\ vol \in Volumes /\ fp.o \in Objects
        BY <1>1, CurIn DEF Proper
      <4>3. vol.type = "exfat" /\ fp.o.n_frag # 0 => c = fp.clust + 1
        BY <4>1, <4>2, GetFatType
      <4>4. vol.type \in {"fat32", "exfat"}
        BY <4>2 DEF Volumes
      <4> QED
        BY <1>1, <4>1, <4>3, <4>4, LoadedCur DEF Edged, Plain, Fits
    <3> QED
      BY <3>1, <3>2, <3>3
  <2> HIDE DEF c
  <2> DEFINE f == [fp EXCEPT !.clust = c]
  <2>2. f \in Fils /\ f.o = fp.o /\ f.clust = c /\ f.fptr = fp.fptr /\ f.err = fp.err
    BY <1>1, <1>4 DEF Proper, Fils
  <2>3. Share \in Nat /\ f.fptr + Share <= MaxSize
    BY <1>1, <1>3, <2>2, LoadedCur
  <2> HIDE DEF f
  <2>4. Moved(f, Share)
    BY <1>4 DEF f
  <2>5. /\ fp' \in Fils /\ fp'.o.stat = fp.o.stat /\ fp'.o.n_frag = fp.o.n_frag
        /\ fp'.o.size = IF fp.fptr + Share > fp.o.size THEN fp.fptr + Share ELSE fp.o.size
        /\ fp'.clust = c /\ fp'.fptr = fp.fptr + Share /\ fp'.err = fp.err
        /\ left' = left - Share /\ res' = "ok" /\ pc' = IF left = Share THEN "idle" ELSE pc
    BY <2>2, <2>3, <2>4, MovedFields
  <2>6. Proper'
    <3>1. left' \in 0 .. MaxSize
      BY <1>1, <1>3, <2>5, LoadedCur
    <3> QED
      BY <1>1, <1>2, <1>4, <2>5, <3>1 DEF Proper
  <2>7. Edged'
    BY <1>1, <1>2, <1>3, <2>1, <2>5, LoadedCur DEF Edged, Plain, Fits
  <2>8. Calling'
    BY <1>1, <1>2, <1>3, <2>5, LoadedCur DEF Calling
  <2> QED
    BY <2>6, <2>7, <2>8 DEF FatTypeInv
<1>5. ASSUME NEW why \in {"int", "disk"}, Abort(fp.o, why), faults' \in 0 .. MaxFaults
      PROVE  FatTypeInv'
  <2>1. fp \in Fils /\ fp.o \in Objects
    BY <1>1, LoadedCur DEF Proper
  <2>2. /\ fp' \in Fils /\ fp'.o = fp.o /\ fp'.clust = fp.clust /\ fp'.fptr = fp.fptr
        /\ pc' = "idle" /\ left' = 0 /\ res' = why
    BY <1>5, <2>1, AbortFields
  <2>3. Proper' /\ Calling'
    BY <1>1, <1>2, <1>5, <2>2, LoadedCur DEF Proper, Calling
  <2>4. Edged'
    BY <1>1, <1>2, <2>2 DEF Edged
  <2> QED
    BY <2>3, <2>4 DEF FatTypeInv
<1>6. (UNCHANGED faults \/ Faults(1)) => faults' \in 0 .. MaxFaults
  BY <1>1, FaultsType DEF Proper
<1> QED
  BY <1>2, <1>4, <1>5, <1>6

LEMMA GivenType ==
  ASSUME Proper, NEW c \in Clst, Given(c)
  PROVE  chain' \in [Files -> Seq(Clst)]
<1> DEFINE s == IF c \in Range(chain[cur]) THEN chain[cur] ELSE Append(chain[cur], c)
<1>1. CASE cur \in Files
  <2>1. chain[cur] \in Seq(Clst)
    BY <1>1 DEF Proper
  <2>2. s \in Seq(Clst)
    <3>1. Append(chain[cur], c) \in Seq(Clst)
      BY <2>1, AppendProperties
    <3> QED
      BY <2>1, <3>1
  <2>3. chain' = [chain EXCEPT ![cur] = s]
    BY DEF Given
  <2> HIDE DEF s
  <2> QED
    BY <2>2, <2>3 DEF Proper
<1>2. CASE cur \notin Files
  <2>1. chain' = [chain EXCEPT ![cur] = s]
    BY DEF Given
  <2> HIDE DEF s
  <2> QED
    BY <1>2, <2>1 DEF Proper
<1> QED
  BY <1>1, <1>2

\* The outcomes of finding or allocating the cluster that f_write goes on with
Targets ==
  IF ~OnBoundary THEN {Outcome(vol, fp.o, fp.clust)}
  ELSE IF fp.fptr = 0 /\ fp.o.sclust # 0 THEN {Outcome(vol, fp.o, fp.o.sclust)}
  ELSE CreateChain(vol, fp.o, IF fp.fptr = 0 THEN 0 ELSE fp.clust)

LEMMA TargetsType ==
  ASSUME Proper, Edged, NEW r \in Targets
  PROVE  /\ r.v \in Volumes /\ r.v.type = vol.type
         /\ r.o \in Objects /\ r.o.sclust = fp.o.sclust /\ r.o.size = fp.o.size
         /\ Plain(r.v, r.o)
         /\ r.ret \in Clst => Fits(r.o, r.ret)
         /\ r.ret \notin Clst => Fits(r.o, fp.clust)
         /\ r.o.n_frag > 0 => fp.fptr > 0
<1>1. vol \in Volumes /\ fp.o \in Objects /\ fp.fptr \in Nat /\ FULL \notin Clst
  BY LoadedCur DEF Proper
<1>2. CASE ~OnBoundary
  BY <1>1, <1>2, OutcomeFields DEF Edged, Targets
<1>3. CASE OnBoundary /\ fp.fptr = 0 /\ fp.o.sclust # 0
  <2>1. r.v = vol /\ r.o = fp.o /\ r.ret = fp.o.sclust /\ r.ret \in Clst
    BY <1>3, OutcomeFields, LoadedCur DEF Targets
  <2>2. fp.o.n_frag = 0
    BY <1>3, LoadedCur DEF Edged
  <2> QED
    BY <1>1, <2>1, <2>2 DEF Edged, Fits
<1>4. CASE OnBoundary /\ fp.fptr = 0 /\ fp.o.sclust = 0
  <2>1. r \in CreateChain(vol, fp.o, 0) /\ fp.o.n_frag = 0 /\ Fits(fp.o, 0)
    BY <1>4, LoadedCur DEF Edged, Fits, Targets
  <2>2. /\ r.v \in Volumes /\ r.v.type = vol.type
        /\ r.o \in Objects /\ r.o.sclust = fp.o.sclust /\ r.o.size = fp.o.size
        /\ Plain(r.v, r.o)
        /\ Fits(r.o, IF r.ret \in Clst THEN r.ret ELSE 0)
        /\ r.o.n_frag = 0
    BY <1>1, <2>1, CreateChainType DEF Edged
  <2> QED
    BY <2>2 DEF Fits
<1>5. CASE OnBoundary /\ fp.fptr # 0
  <2>1. /\ r \in CreateChain(vol, fp.o, fp.clust) /\ fp.clust \in {0, EOC} \cup Clst
        /\ Fits(fp.o, fp.clust) /\ Plain(vol, fp.o) /\ fp.fptr > 0
    BY <1>1, <1>5, LoadedCur DEF Edged, Targets
  <2>2. /\ r.v \in Volumes /\ r.v.type = vol.type
        /\ r.o \in Objects /\ r.o.sclust = fp.o.sclust /\ r.o.size = fp.o.size
        /\ Plain(r.v, r.o)
        /\ Fits(r.o, IF r.ret \in Clst THEN r.ret ELSE fp.clust)
    <3> DEFINE u == fp.o
               c == fp.clust
    <3>1. u \in Objects /\ Plain(vol, u) /\ c \in {0, EOC} \cup Clst /\ Fits(u, c) /\ r \in CreateChain(vol, u, c)
      BY <1>1, <2>1
    <3> HIDE DEF u, c
    <3>2. /\ r.v \in Volumes /\ r.v.type = vol.type
          /\ r.o \in Objects /\ r.o.sclust = u.sclust /\ r.o.size = u.size
          /\ Plain(r.v, r.o)
          /\ Fits(r.o, IF r.ret \in Clst THEN r.ret ELSE c)
      BY <1>1, <3>1, CreateChainType
    <3> QED
      BY <3>2 DEF u, c
  <2> QED
    BY <2>1, <2>2
<1> QED
  BY <1>2, <1>3, <1>4, <1>5

LEMMA FatTypeWriteStep ==
  ASSUME FatTypeInv, WriteStep
  PROVE  FatTypeInv'
<1>1. Proper /\ Edged /\ Calling
  BY DEF FatTypeInv
<1>2. pc = "write" /\ UNCHANGED <<entry, cur, loose, opens>>
  BY DEF WriteStep
<1>3. PICK r \in Targets :
        LET o == IF r.o.sclust = 0 THEN [r.o EXCEPT !.sclust = r.ret] ELSE r.o
        IN  \/ /\ r.ret = FULL /\ Takes(r)
               /\ fp' = [fp EXCEPT !.o = r.o, !.modified = TRUE]
               /\ pc' = "idle" /\ left' = 0 /\ res' = "full"
               /\ UNCHANGED chain
            \/ /\ r.ret \notin Clst \cup {FULL} /\ Takes(r)
               /\ Abort(r.o, Result(r.ret))
               /\ UNCHANGED chain
            \/ /\ r.ret \in Clst /\ Takes(r) /\ Given(r.ret)
               /\ Moved([fp EXCEPT !.o = o, !.clust = r.ret], Share)
            \/ /\ r.ret \in Clst
               /\ vol' = r.v /\ Faults(1) /\ Given(r.ret)
               /\ pc' = "idle" /\ left' = 0 /\ res' = "disk"
               /\ fp' = [fp EXCEPT !.o = o, !.clust = r.ret, !.err = TRUE]
  BY DEF WriteStep, Targets
<1> DEFINE o == IF r.o.sclust = 0 THEN [r.o EXCEPT !.sclust = r.ret] ELSE r.o
<1>4. /\ r.v \in Volumes /\ r.v.type = vol.type
      /\ r.o \in Objects /\ r.o.sclust = fp.o.sclust /\ r.o.size = fp.o.size
      /\ Plain(r.v, r.o)
      /\ r.ret \in Clst => Fits(r.o, r.ret)
      /\ r.ret \notin Clst => Fits(r.o, fp.clust)
      /\ r.o.n_frag > 0 => fp.fptr > 0
  BY <1>1, TargetsType
<1>5. /\ Share \in 1 .. left /\ left \in 1 .. MaxSize /\ fp.fptr + left <= MaxSize
      /\ fp \in Fils /\ 0 \in 0 .. MaxSize /\ vol \in Volumes
  BY <1>1, <1>2, ShareBounds, LoadedCur DEF Proper
<1>6. ASSUME r.ret \in Clst
      PROVE  /\ o \in Objects /\ o.stat = r.o.stat /\ o.n_frag = r.o.n_frag /\ o.size = fp.o.size
             /\ Plain(r.v, o) /\ Fits(o, r.ret)
  <2>1. /\ o \in Objects /\ o.stat = r.o.stat /\ o.n_frag = r.o.n_frag /\ o.size = r.o.size
    BY <1>4, <1>6 DEF Objects
  <2> HIDE DEF o
  <2> QED
    BY <1>4, <1>6, <2>1 DEF Plain, Fits
<1>7. CASE /\ r.ret = FULL /\ Takes(r)
           /\ fp' = [fp EXCEPT !.o = r.o, !.modified = TRUE]
           /\ pc' = "idle" /\ left' = 0 /\ res' = "full"
           /\ UNCHANGED chain
  <2>1. /\ fp' \in Fils /\ fp'.o = r.o /\ fp'.clust = fp.clust /\ fp'.fptr = fp.fptr
    BY <1>4, <1>5, <1>7 DEF Fils
  <2>2. vol' = r.v /\ faults' \in 0 .. MaxFaults /\ r.ret \notin Clst
    BY <1>1, <1>7, TakesFields
  <2>3. Proper' /\ Calling'
    BY <1>1, <1>2, <1>4, <1>5, <1>7, <2>1, <2>2 DEF Proper, Calling
  <2>4. Edged'
    BY <1>4, <2>1, <2>2 DEF Edged
  <2> QED
    BY <2>3, <2>4 DEF FatTypeInv
<1>8. CASE /\ r.ret \notin Clst \cup {FULL} /\ Takes(r)
           /\ Abort(r.o, Result(r.ret))
           /\ UNCHANGED chain
  <2>1. /\ fp' \in Fils /\ fp'.o = r.o /\ fp'.clust = fp.clust /\ fp'.fptr = fp.fptr
        /\ pc' = "idle" /\ left' = 0 /\ res' = Result(r.ret)
    BY <1>4, <1>5, <1>8, AbortFields
  <2>2. vol' = r.v /\ faults' \in 0 .. MaxFaults /\ r.ret \notin Clst
    BY <1>1, <1>8, TakesFields
  <2>3. res' \in {"ok", "full", "disk", "int"}
    BY <2>1, ResultType
  <2>4. Proper' /\ Calling'
    BY <1>1, <1>2, <1>4, <1>5, <1>8, <2>1, <2>2, <2>3 DEF Proper, Calling
  <2>5. Edged'
    BY <1>4, <2>1, <2>2 DEF Edged
  <2> QED
    BY <2>4, <2>5 DEF FatTypeInv
<1>9. CASE /\ r.ret \in Clst /\ Takes(r) /\ Given(r.ret)
           /\ Moved([fp EXCEPT !.o = o, !.clust = r.ret], Share)
  <2>1. /\ o \in Objects /\ o.stat = r.o.stat /\ o.n_frag = r.o.n_frag /\ o.size = fp.o.size
        /\ Plain(r.v, o) /\ Fits(o, r.ret)
    BY <1>6, <1>9
  <2> HIDE DEF o
  <2>2. vol' = r.v /\ faults' \in 0 .. MaxFaults /\ chain' \in [Files -> Seq(Clst)]
    BY <1>1, <1>9, TakesFields, GivenType
  <2> DEFINE f == [fp EXCEPT !.o = o, !.clust = r.ret]
  <2>3. f \in Fils /\ f.o = o /\ f.clust = r.ret /\ f.fptr = fp.fptr /\ f.err = fp.err
    <3>1. r.ret \in {0, EOC} \cup Clst
      BY <1>9
    <3> QED
      BY <1>5, <2>1, <3>1 DEF Fils
  <2> HIDE DEF f
  <2>4. Moved(f, Share) /\ Share \in Nat /\ f.fptr + Share <= MaxSize
    <3>1. Moved(f, Share)
      BY <1>9 DEF f
    <3> QED
      BY <1>1, <1>5, <2>3, <3>1, LoadedCur
  <2>5. /\ fp' \in Fils /\ fp'.o.stat = o.stat /\ fp'.o.n_frag = o.n_frag
        /\ fp'.clust = r.ret /\ fp'.fptr = fp.fptr + Share /\ fp'.err = fp.err
        /\ left' = left - Share /\ res' = "ok" /\ pc' = IF left = Share THEN "idle" ELSE pc
    BY <2>3, <2>4, MovedFields
  <2>6. left' \in 0 .. MaxSize
    BY <1>1, <1>5, <2>5, LoadedCur
  <2>7. Proper'
    BY <1>1, <1>2, <1>4, <2>2, <2>5, <2>6 DEF Proper
  <2>8. Edged'
    BY <1>1, <1>5, <2>1, <2>2, <2>5, LoadedCur DEF Edged, Plain, Fits
  <2>9. Calling'
    BY <1>1, <1>2, <1>5, <2>5, LoadedCur DEF Calling
  <2> QED
    BY <2>7, <2>8, <2>9 DEF FatTypeInv
<1>10. CASE /\ r.ret \in Clst
            /\ vol' = r.v /\ Faults(1) /\ Given(r.ret)
            /\ pc' = "idle" /\ left' = 0 /\ res' = "disk"
            /\ fp' = [fp EXCEPT !.o = o, !.clust = r.ret, !.err = TRUE]
  <2>1. /\ o \in Objects /\ o.stat = r.o.stat /\ o.n_frag = r.o.n_frag /\ o.size = fp.o.size
        /\ Plain(r.v, o) /\ Fits(o, r.ret)
    BY <1>6, <1>10
  <2> HIDE DEF o
  <2>2. faults' \in 0 .. MaxFaults /\ chain' \in [Files -> Seq(Clst)]
    BY <1>1, <1>10, FaultsType, GivenType
  <2>3. /\ fp' \in Fils /\ fp'.o = o /\ fp'.clust = r.ret /\ fp'.fptr = fp.fptr
    BY <1>5, <1>10, <2>1 DEF Fils
  <2>4. Proper' /\ Calling'
    BY <1>1, <1>2, <1>4, <1>5, <1>10, <2>2, <2>3 DEF Proper, Calling
  <2>5. Edged'
    BY <1>4, <1>10, <2>1, <2>3 DEF Edged
  <2> QED
    BY <2>4, <2>5 DEF FatTypeInv
<1> QED
  BY <1>3, <1>7, <1>8, <1>9, <1>10

-----------------------------------------------------------------------------
\* Clusters and sectors

LEMMA Product ==
  ASSUME NEW a \in Int, NEW b \in Int
  PROVE  a * b \in Int /\ (a + 1) * b = a * b + b /\ b * (a + 1) = b * a + b /\ a * b = b * a
  OBVIOUS

LEMMA ProductMonotone ==
  ASSUME NEW a \in Int, NEW b \in Int, NEW c \in Nat, a <= b
  PROVE  a * c <= b * c /\ c * a <= c * b
  OBVIOUS

LEMMA Quotient ==
  ASSUME NEW n \in Int
  PROVE  /\ n \div CSize \in Int /\ n % CSize \in 0 .. CSize - 1
         /\ n = CSize * (n \div CSize) + (n % CSize)
         /\ CSize * (n \div CSize) \in Int
         /\ CSize * (n \div CSize) <= n /\ n < CSize * (n \div CSize) + CSize
<1>1. CSize \in Nat /\ CSize > 0
  BY FatAssumption
<1>2. n \div CSize \in Int
  BY <1>1
<1>3. n % CSize \in 0 .. CSize - 1
  BY <1>1
<1>4. n = CSize * (n \div CSize) + (n % CSize)
  BY <1>1
<1>5. CSize * (n \div CSize) \in Int
  BY <1>1, <1>2
<1>6. \A x \in Int : \A y \in 0 .. CSize - 1 : n = x + y => x <= n /\ n < x + CSize
  BY <1>1
<1>7. CSize * (n \div CSize) <= n /\ n < CSize * (n \div CSize) + CSize
  BY <1>3, <1>4, <1>5, <1>6
<1> QED
  BY <1>2, <1>3, <1>4, <1>5, <1>7

\* The quotient is the one number whose multiple is at most CSize - 1 below n.
LEMMA QuotientIs ==
  ASSUME NEW n \in Int, NEW q \in Int, CSize * q <= n, n < CSize * q + CSize
  PROVE  n \div CSize = q
<1> DEFINE d == n \div CSize
<1>1. /\ d \in Int /\ CSize \in Nat \ {0} /\ CSize * d \in Int /\ CSize * q \in Int
      /\ CSize * d <= n /\ n < CSize * d + CSize
  BY Quotient, FatAssumption
<1> HIDE DEF d
<1>2. ~(d + 1 <= q)
  <2> SUFFICES ASSUME d + 1 <= q PROVE FALSE
    OBVIOUS
  <2>1. CSize * (d + 1) <= CSize * q /\ CSize * (d + 1) = CSize * d + CSize
    BY <1>1, ProductMonotone, Product
  <2> QED
    BY <1>1, <2>1
<1>3. ~(q + 1 <= d)
  <2> SUFFICES ASSUME q + 1 <= d PROVE FALSE
    OBVIOUS
  <2>1. CSize * (q + 1) <= CSize * d /\ CSize * (q + 1) = CSize * q + CSize
    BY <1>1, ProductMonotone, Product
  <2> QED
    BY <1>1, <2>1
<1>4. d = q
  BY <1>1, <1>2, <1>3
<1> QED
  BY <1>4 DEF d

LEMMA QuotientMonotone ==
  ASSUME NEW m \in Int, NEW n \in Int, m <= n
  PROVE  m \div CSize <= n \div CSize
<1> DEFINE d == m \div CSize
           e == n \div CSize
<1>1. /\ d \in Int /\ e \in Int /\ CSize \in Nat \ {0} /\ CSize * d \in Int /\ CSize * e \in Int
      /\ CSize * d <= m /\ n < CSize * e + CSize
  BY Quotient, FatAssumption
<1> HIDE DEF d, e
<1>2. SUFFICES ASSUME e + 1 <= d PROVE FALSE
  BY <1>1 DEF d, e
<1>3. CSize * (e + 1) <= CSize * d /\ CSize * (e + 1) = CSize * e + CSize
  BY <1>1, <1>2, ProductMonotone, Product
<1> QED
  BY <1>1, <1>3

-----------------------------------------------------------------------------
\* Type correctness: the calls that seek, truncate and sync

\* f_lseek puts the growing edge on the FAT first.
FlushedEdge == IF vol.type = "exfat" THEN FillLast(vol, fp.o, fp.clust, EOC)
               ELSE {Outcome(vol, fp.o, OK)}

LEMMA FlushedEdgeType ==
  ASSUME Proper, Edged, NEW r \in FlushedEdge
  PROVE  /\ r.v \in Volumes /\ r.v.type = vol.type
         /\ r.o \in Objects /\ r.o.sclust = fp.o.sclust /\ r.o.size = fp.o.size
         /\ Plain(r.v, r.o) /\ Fits(r.o, fp.clust) /\ (r.o.n_frag > 0 => fp.fptr > 0)
         /\ r.ret \in {OK, DISK} /\ (r.ret = OK => r.o.n_frag = 0)
<1>1. vol \in Volumes /\ fp.o \in Objects /\ fp.clust \in 0 .. EOC /\ EOC \in 0 .. EOC
      /\ DISK # OK
  <2>1. vol \in Volumes
    BY DEF Proper
  <2>2. fp.o \in Objects /\ fp.clust \in 0 .. EOC
    BY CurIn
  <2>3. EOC \in 0 .. EOC /\ DISK # OK
    BY FatAssumption
  <2> QED
    BY <2>1, <2>2, <2>3
<1>2. CASE vol.type = "exfat"
  <2>1. r \in FillLast(vol, fp.o, fp.clust, EOC)
    BY <1>2 DEF FlushedEdge
  <2>2. /\ r.v \in Volumes /\ SameBut(vol, r.v) /\ r.ret \in {OK, DISK}
        /\ r.o \in Objects /\ r.o.sclust = fp.o.sclust /\ r.o.size = fp.o.size
        /\ r.o.n_frag <= fp.o.n_frag
        /\ r.ret = OK => r.o.n_frag = 0
    <3> DEFINE u == fp.o
               c == fp.clust
               t == EOC
    <3>1. u \in Objects /\ c \in 0 .. EOC /\ t \in 0 .. EOC /\ r \in FillLast(vol, u, c, t)
      BY <1>1, <2>1
    <3> HIDE DEF u, c, t
    <3>2. /\ r.v \in Volumes /\ SameBut(vol, r.v) /\ r.ret \in {OK, DISK}
          /\ r.o \in Objects /\ r.o.sclust = u.sclust /\ r.o.size = u.size
          /\ r.o.n_frag <= u.n_frag
          /\ r.ret = OK => r.o.n_frag = 0
      BY <1>1, <3>1, FillLastOutcomes
    <3> QED
      BY <3>2 DEF u, c, t
  <2>3. r.o.n_frag \in Nat /\ fp.o.n_frag \in Nat /\ r.v.type = "exfat"
    BY <1>1, <1>2, <2>2 DEF Objects, SameBut
  <2>4. Fits(r.o, fp.clust) /\ (r.o.n_frag > 0 => fp.fptr > 0)
    BY <2>2, <2>3, LoadedCur DEF Edged, Fits
  <2>5. Plain(r.v, r.o)
    BY <2>3 DEF Plain
  <2> QED
    BY <1>2, <2>2, <2>3, <2>4, <2>5
<1>3. CASE vol.type # "exfat"
  <2>1. r.v = vol /\ r.o = fp.o /\ r.ret = OK
    BY <1>3, OutcomeFields DEF FlushedEdge
  <2>2. vol.type = "fat32"
    BY <1>1, <1>3 DEF Volumes
  <2>3. Plain(vol, fp.o) /\ fp.o.n_frag = 0 /\ Fits(fp.o, fp.clust)
    BY <2>2 DEF Edged, Plain
  <2> QED
    BY <1>1, <2>1, <2>3
<1> QED
  BY <1>2, <1>3

SeekOfs(asked) == IF asked > fp.o.size /\ ~fp.write THEN fp.o.size ELSE asked
SeekHere(ofs)  == fp.fptr > 0 /\ (ofs - 1) \div CSize >= (fp.fptr - 1) \div CSize

\* What a seek does once the growing edge is on the FAT: r was the outcome of that.
SeekStarts(f, rest) == fp' = f /\ left' = rest /\ pc' = "seek" /\ res' = "ok"

SeekCase(asked, r) ==
  LET ofs == SeekOfs(asked)
  IN  \/ /\ r.ret = DISK /\ Takes(r)
         /\ fp' = [fp EXCEPT !.o = r.o] /\ res' = "disk"
         /\ UNCHANGED <<pc, left, chain>>
      \/ /\ r.ret = OK /\ ofs = 0 /\ Takes(r)
         /\ fp' = [fp EXCEPT !.o = r.o, !.fptr = 0] /\ res' = "ok"
         /\ UNCHANGED <<pc, left, chain>>
      \/ /\ r.ret = OK /\ ofs > 0 /\ SeekHere(ofs) /\ Takes(r)
         /\ SeekStarts([fp EXCEPT !.o = r.o, !.fptr = ClusterBase(fp.fptr)],
                       ofs - ClusterBase(fp.fptr))
         /\ UNCHANGED chain
      \/ /\ r.ret = OK /\ ofs > 0 /\ ~SeekHere(ofs) /\ r.o.sclust # 0 /\ Takes(r)
         /\ SeekStarts([fp EXCEPT !.o = r.o, !.fptr = 0, !.clust = r.o.sclust], ofs)
         /\ UNCHANGED chain
      \/ /\ r.ret = OK /\ ofs > 0 /\ ~SeekHere(ofs) /\ r.o.sclust = 0
         /\ \E n \in CreateChain(r.v, r.o, 0) :
              /\ Takes(n)
              /\ IF n.ret \in Clst
                 THEN /\ SeekStarts([fp EXCEPT !.o = [n.o EXCEPT !.sclust = n.ret],
                                               !.fptr = 0, !.clust = n.ret], ofs)
                      /\ Given(n.ret)
                 ELSE /\ fp' = [fp EXCEPT !.o = n.o, !.fptr = 0,
                                          !.clust = IF n.ret = FULL THEN 0 ELSE @,
                                          !.err = n.ret # FULL]
                      /\ res' = Result(n.ret)
                      /\ UNCHANGED <<pc, left, chain>>

LEMMA SeekCases ==
  ASSUME Seek
  PROVE  \E asked \in Offsets, r \in FlushedEdge : SeekCase(asked, r)
<1>1. \E asked \in Offsets : \E r \in FlushedEdge : SeekCase(asked, r)
  BY ZenonT(200) DEF Seek, FlushedEdge, SeekCase, SeekOfs, SeekHere, SeekStarts
<1> QED
  BY <1>1

LEMMA ClusterBaseBounds ==
  ASSUME NEW ptr \in Nat, ptr > 0
  PROVE  ClusterBase(ptr) \in Nat /\ ClusterBase(ptr) < ptr
<1>1. ptr - 1 \in Nat
  OBVIOUS
<1>2. (ptr - 1) \div CSize \in Nat
  BY <1>1, FatAssumption
<1> DEFINE q == (ptr - 1) \div CSize
<1>3. CSize * q \in Int /\ CSize * q <= ptr - 1 /\ q \in Nat /\ CSize \in Nat
  BY <1>1, <1>2, Quotient, FatAssumption
<1> HIDE DEF q
<1>4. 0 * CSize <= q * CSize /\ q * CSize = CSize * q
  BY <1>3, ProductMonotone, Product
<1>5. CSize * q \in Nat /\ CSize * q < ptr
  BY <1>3, <1>4
<1> QED
  BY <1>5 DEF ClusterBase, q

LEMMA SeekBounds ==
  ASSUME Proper, NEW asked \in Offsets
  PROVE  /\ SeekOfs(asked) \in 0 .. MaxSize
         /\ SeekHere(SeekOfs(asked)) /\ SeekOfs(asked) > 0 =>
              /\ ClusterBase(fp.fptr) \in Nat /\ ClusterBase(fp.fptr) < fp.fptr
              /\ ClusterBase(fp.fptr) < SeekOfs(asked)
<1>1. SeekOfs(asked) \in 0 .. MaxSize
  BY LoadedCur, FileAssumption DEF SeekOfs
<1> DEFINE ofs == SeekOfs(asked)
<1> HIDE DEF ofs
<1>2. ASSUME SeekHere(ofs), ofs > 0, ofs \in 0 .. MaxSize
      PROVE  /\ ClusterBase(fp.fptr) \in Nat /\ ClusterBase(fp.fptr) < fp.fptr
             /\ ClusterBase(fp.fptr) < ofs
  <2> DEFINE d == (fp.fptr - 1) \div CSize
             e == (ofs - 1) \div CSize
  <2>1. fp.fptr \in Nat /\ fp.fptr > 0 /\ d <= e /\ CSize \in Nat
    BY <1>2, LoadedCur DEF SeekHere
  <2>2. ClusterBase(fp.fptr) \in Nat /\ ClusterBase(fp.fptr) < fp.fptr
    BY <2>1, ClusterBaseBounds
  <2>3. d \in Int /\ e \in Int /\ CSize * e <= ofs - 1 /\ CSize * e \in Int
    BY <1>2, <2>1, Quotient
  <2>4. ClusterBase(fp.fptr) = CSize * d
    BY DEF ClusterBase
  <2> HIDE DEF d, e
  <2>5. CSize * d <= CSize * e
    BY <2>1, <2>3, ProductMonotone
  <2> QED
    BY <1>2, <2>2, <2>3, <2>4, <2>5, LoadedCur
<1> QED
  BY <1>1, <1>2 DEF ofs

LEMMA FatTypeSeek ==
  ASSUME FatTypeInv, Seek
  PROVE  FatTypeInv'
<1>1. Proper /\ Edged /\ Calling
  BY DEF FatTypeInv
<1>2. pc = "idle" /\ cur \in Files /\ ~fp.err /\ UNCHANGED <<entry, cur, loose, opens>>
  BY <1>1 DEF Seek, Valid, Proper
<1>3. PICK asked \in Offsets, r \in FlushedEdge : SeekCase(asked, r)
  BY SeekCases
<1> DEFINE ofs == SeekOfs(asked)
           base == ClusterBase(fp.fptr)
<1>4. /\ r.v \in Volumes /\ r.v.type = vol.type
      /\ r.o \in Objects /\ r.o.sclust = fp.o.sclust /\ r.o.size = fp.o.size
      /\ Plain(r.v, r.o) /\ Fits(r.o, fp.clust) /\ (r.o.n_frag > 0 => fp.fptr > 0)
      /\ r.ret = OK => r.o.n_frag = 0
  BY <1>1, FlushedEdgeType
<1>5. /\ ofs \in 0 .. MaxSize /\ fp \in Fils /\ 0 \in 0 .. MaxSize
      /\ r.o.sclust \in {0} \cup Clst
  BY <1>1, <1>4, SeekBounds, LoadedCur DEF Proper
<1>6. SeekHere(ofs) /\ ofs > 0 => base \in 0 .. MaxSize /\ ofs - base \in 1 .. MaxSize
  BY <1>1, <1>5, SeekBounds, LoadedCur
<1>7. ASSUME NEW p \in {"idle", "seek"}, pc' = p, vol' \in Volumes, vol'.type = vol.type,
             fp' \in Fils, Plain(vol', fp'.o), Fits(fp'.o, fp'.clust),
             fp'.o.n_frag > 0 => fp'.fptr > 0, left' \in 0 .. MaxSize,
             faults' \in 0 .. MaxFaults, chain' \in [Files -> Seq(Clst)],
             res' \in {"ok", "full", "disk", "int"},
             p = "seek" => left' > 0 /\ ~fp'.err /\ fp'.fptr + left' <= MaxSize
      PROVE  FatTypeInv'
  <2>1. Proper'
    BY <1>1, <1>2, <1>7 DEF Proper
  <2>2. Edged'
    BY <1>7 DEF Edged
  <2>3. Calling'
    BY <1>2, <1>7 DEF Calling
  <2> QED
    BY <2>1, <2>2, <2>3 DEF FatTypeInv
<1>8. /\ left \in 0 .. MaxSize /\ chain \in [Files -> Seq(Clst)]
      /\ OK # DISK
  BY <1>1, FatAssumption DEF Proper
<1> HIDE DEF ofs, base
<1>9. CASE /\ r.ret = DISK /\ Takes(r)
           /\ fp' = [fp EXCEPT !.o = r.o] /\ res' = "disk"
           /\ UNCHANGED <<pc, left, chain>>
  <2>1. /\ fp' \in Fils /\ fp'.o = r.o /\ fp'.clust = fp.clust /\ fp'.fptr = fp.fptr
    BY <1>4, <1>5, <1>9 DEF Fils
  <2>2. vol' = r.v /\ faults' \in 0 .. MaxFaults
    BY <1>1, <1>9, TakesFields
  <2> QED
    BY <1>2, <1>4, <1>7, <1>8, <1>9, <2>1, <2>2
<1>10. CASE /\ r.ret = OK /\ ofs = 0 /\ Takes(r)
            /\ fp' = [fp EXCEPT !.o = r.o, !.fptr = 0] /\ res' = "ok"
            /\ UNCHANGED <<pc, left, chain>>
  <2>1. /\ fp' \in Fils /\ fp'.o = r.o /\ fp'.clust = fp.clust /\ fp'.fptr = 0
    BY <1>4, <1>5, <1>10 DEF Fils
  <2>2. vol' = r.v /\ faults' \in 0 .. MaxFaults
    BY <1>1, <1>10, TakesFields
  <2> QED
    BY <1>2, <1>4, <1>7, <1>8, <1>10, <2>1, <2>2
<1>11. CASE /\ r.ret = OK /\ ofs > 0 /\ SeekHere(ofs) /\ Takes(r)
            /\ SeekStarts([fp EXCEPT !.o = r.o, !.fptr = base], ofs - base)
            /\ UNCHANGED chain
  <2>1. /\ fp' = [fp EXCEPT !.o = r.o, !.fptr = base]
        /\ left' = ofs - base /\ pc' = "seek" /\ res' = "ok"
    BY <1>11 DEF SeekStarts
  <2>2. base \in 0 .. MaxSize /\ left' \in 1 .. MaxSize
    BY <1>6, <1>11, <2>1
  <2>3. /\ fp' \in Fils /\ fp'.o = r.o /\ fp'.clust = fp.clust /\ fp'.fptr = base /\ ~fp'.err
    BY <1>2, <1>4, <1>5, <2>1, <2>2 DEF Fils
  <2>4. vol' = r.v /\ faults' \in 0 .. MaxFaults
    BY <1>1, <1>11, TakesFields
  <2>5. fp'.fptr + left' <= MaxSize /\ left' \in 0 .. MaxSize /\ left' > 0
    BY <1>5, <2>1, <2>2, <2>3, FileAssumption
  <2>6. r.o.n_frag = 0
    BY <1>4, <1>11
  <2> QED
    BY <1>4, <1>7, <1>8, <1>11, <2>1, <2>3, <2>4, <2>5, <2>6
<1>12. CASE /\ r.ret = OK /\ ofs > 0 /\ ~SeekHere(ofs) /\ r.o.sclust # 0 /\ Takes(r)
            /\ SeekStarts([fp EXCEPT !.o = r.o, !.fptr = 0, !.clust = r.o.sclust], ofs)
            /\ UNCHANGED chain
  <2>1. /\ fp' = [fp EXCEPT !.o = r.o, !.fptr = 0, !.clust = r.o.sclust]
        /\ left' = ofs /\ pc' = "seek" /\ res' = "ok"
    BY <1>12 DEF SeekStarts
  <2>2. /\ fp' \in Fils /\ fp'.o = r.o /\ fp'.clust = r.o.sclust /\ fp'.fptr = 0 /\ ~fp'.err
    BY <1>2, <1>4, <1>5, <2>1 DEF Fils
  <2>3. vol' = r.v /\ faults' \in 0 .. MaxFaults
    BY <1>1, <1>12, TakesFields
  <2>4. fp'.fptr + left' <= MaxSize /\ left' \in 0 .. MaxSize /\ left' > 0
    BY <1>5, <1>12, <2>1, <2>2, FileAssumption
  <2>5. r.o.n_frag = 0 /\ Fits(r.o, r.o.sclust)
    BY <1>4, <1>12 DEF Fits
  <2> QED
    BY <1>4, <1>7, <1>8, <1>12, <2>1, <2>2, <2>3, <2>4, <2>5
<1>13. ASSUME r.ret = OK, ofs > 0, r.o.sclust = 0, NEW n \in CreateChain(r.v, r.o, 0), Takes(n)
       PROVE  /\ vol' \in Volumes /\ vol'.type = vol.type /\ faults' \in 0 .. MaxFaults
              /\ n.o \in Objects /\ Plain(vol', n.o) /\ n.o.n_frag = 0
  <2>1. r.o.n_frag = 0 /\ Fits(r.o, 0)
    BY <1>4, <1>13 DEF Fits
  <2>2. /\ n.v \in Volumes /\ n.v.type = vol.type
        /\ n.o \in Objects /\ Plain(n.v, n.o) /\ n.o.n_frag = 0
    <3> DEFINE w == r.v
               u == r.o
    <3>1. w \in Volumes /\ w.type = vol.type /\ u \in Objects /\ Plain(w, u) /\ Fits(u, 0) /\ n \in CreateChain(w, u, 0)
      BY <1>4, <1>13, <2>1
    <3> HIDE DEF w, u
    <3> QED
      BY <3>1, CreateChainType
  <2>3. vol' = n.v /\ faults' \in 0 .. MaxFaults
    BY <1>1, <1>13, TakesFields
  <2> QED
    BY <2>2, <2>3
<1>14. CASE /\ r.ret = OK /\ ofs > 0 /\ r.o.sclust = 0
            /\ \E n \in CreateChain(r.v, r.o, 0) :
                       /\ Takes(n)
                       /\ n.ret \in Clst
                       /\ SeekStarts([fp EXCEPT !.o = [n.o EXCEPT !.sclust = n.ret],
                                                      !.fptr = 0, !.clust = n.ret], ofs)
                       /\ Given(n.ret)
  <2>1. PICK n \in CreateChain(r.v, r.o, 0) :
                       /\ Takes(n)
                       /\ n.ret \in Clst
                       /\ SeekStarts([fp EXCEPT !.o = [n.o EXCEPT !.sclust = n.ret],
                                                      !.fptr = 0, !.clust = n.ret], ofs)
                       /\ Given(n.ret)
    BY <1>14
  <2>2. /\ vol' \in Volumes /\ vol'.type = vol.type /\ faults' \in 0 .. MaxFaults
        /\ n.o \in Objects /\ Plain(vol', n.o) /\ n.o.n_frag = 0
    BY <1>13, <1>14, <2>1
  <2>3. chain' \in [Files -> Seq(Clst)]
    BY <1>1, <2>1, GivenType
  <2> DEFINE o == [n.o EXCEPT !.sclust = n.ret]
  <2>4. o \in Objects /\ o.stat = n.o.stat /\ o.n_frag = 0
    BY <2>1, <2>2 DEF Objects
  <2> HIDE DEF o
  <2>5. /\ fp' = [fp EXCEPT !.o = o, !.fptr = 0, !.clust = n.ret]
        /\ left' = ofs /\ pc' = "seek" /\ res' = "ok"
    BY <2>1 DEF SeekStarts, o
  <2>6. /\ fp' \in Fils /\ fp'.o = o /\ fp'.clust = n.ret /\ fp'.fptr = 0 /\ ~fp'.err
    BY <1>2, <1>5, <2>1, <2>4, <2>5 DEF Fils
  <2>7. fp'.fptr + left' <= MaxSize /\ left' \in 0 .. MaxSize /\ left' > 0
    BY <1>5, <1>14, <2>5, <2>6, FileAssumption
  <2>8. Plain(vol', o) /\ Fits(o, n.ret)
    BY <2>2, <2>4 DEF Plain, Fits
  <2> QED
    BY <1>7, <2>2, <2>3, <2>4, <2>5, <2>6, <2>7, <2>8
<1>15. CASE /\ r.ret = OK /\ ofs > 0 /\ r.o.sclust = 0
            /\ \E n \in CreateChain(r.v, r.o, 0) :
                       /\ Takes(n)
                       /\ n.ret \notin Clst
                       /\ fp' = [fp EXCEPT !.o = n.o, !.fptr = 0,
                                           !.clust = IF n.ret = FULL THEN 0 ELSE @,
                                           !.err = n.ret # FULL]
                       /\ res' = Result(n.ret)
                       /\ UNCHANGED <<pc, left, chain>>
  <2>1. PICK n \in CreateChain(r.v, r.o, 0) :
                       /\ Takes(n)
                       /\ n.ret \notin Clst
                       /\ fp' = [fp EXCEPT !.o = n.o, !.fptr = 0,
                                           !.clust = IF n.ret = FULL THEN 0 ELSE @,
                                           !.err = n.ret # FULL]
                       /\ res' = Result(n.ret)
                       /\ UNCHANGED <<pc, left, chain>>
    BY <1>15
  <2>2. /\ vol' \in Volumes /\ vol'.type = vol.type /\ faults' \in 0 .. MaxFaults
        /\ n.o \in Objects /\ Plain(vol', n.o) /\ n.o.n_frag = 0
    BY <1>13, <1>15, <2>1
  <2> DEFINE c == IF n.ret = FULL THEN 0 ELSE fp.clust
             e == n.ret # FULL
  <2>3. c \in {0, EOC} \cup Clst /\ e \in BOOLEAN
    BY <1>1, LoadedCur
  <2>4. fp' = [fp EXCEPT !.o = n.o, !.fptr = 0, !.clust = c, !.err = e]
    BY <1>5, <2>1 DEF Fils
  <2> HIDE DEF c, e
  <2>5. fp' \in Fils /\ fp'.o = n.o /\ fp'.clust = c
    BY <1>5, <2>2, <2>3, <2>4 DEF Fils
  <2>6. res' \in {"ok", "full", "disk", "int"}
    BY <2>1, ResultType
  <2>7. Fits(n.o, c)
    BY <2>2 DEF Fits
  <2> QED
    BY <1>2, <1>7, <1>8, <2>1, <2>2, <2>5, <2>6, <2>7
<1> QED
  BY <1>3, <1>9, <1>10, <1>11, <1>12, <1>14, <1>15 DEF SeekCase, ofs, base

\* The object that f_lseek goes on from, its size stretched to the new pointer
StretchedTo(at) == IF fp.write /\ at > fp.o.size THEN [fp.o EXCEPT !.size = at] ELSE fp.o

\* What f_lseek gets for the next cluster
NextTargets(o) ==
  IF fp.write THEN CreateChain(vol, o, fp.clust)
  ELSE {Outcome(vol, o, GetFat(vol, o, fp.clust)), Stopped(vol, o)}

SeekStepCase(r, at, o) ==
  LET f == [fp EXCEPT !.fptr = at, !.modified = @ \/ (o # fp.o)]
  IN  /\ Takes(r)
      /\ IF r.ret \in Clst
         THEN /\ fp' = [f EXCEPT !.o = r.o, !.clust = r.ret]
              /\ left' = left - CSize
              /\ Given(r.ret)
              /\ UNCHANGED <<pc, res>>
         ELSE IF fp.write /\ r.ret = FULL
         THEN /\ fp' = [f EXCEPT !.o = r.o]
              /\ left' = 0 /\ pc' = "idle"
              /\ UNCHANGED <<res, chain>>
         ELSE /\ pc' = "idle" /\ left' = 0
              /\ fp' = [f EXCEPT !.o = r.o, !.err = TRUE]
              /\ res' = IF r.ret = DISK THEN "disk" ELSE "int"
              /\ UNCHANGED chain

LEMMA SeekStepCases ==
  ASSUME SeekStep
  PROVE  /\ pc = "seek" /\ left > CSize /\ UNCHANGED <<entry, cur, loose, opens>>
         /\ \E r \in NextTargets(StretchedTo(fp.fptr + CSize)) :
              SeekStepCase(r, fp.fptr + CSize, StretchedTo(fp.fptr + CSize))
  BY ZenonT(60) DEF SeekStep, NextTargets, StretchedTo, SeekStepCase

LEMMA NextTargetsType ==
  ASSUME Proper, Edged, NEW o \in Objects, o.stat = fp.o.stat, o.n_frag = fp.o.n_frag,
         NEW r \in NextTargets(o)
  PROVE  /\ r.v \in Volumes /\ r.v.type = vol.type
         /\ r.o \in Objects /\ r.o.sclust = o.sclust /\ r.o.size = o.size
         /\ Plain(r.v, r.o)
         /\ Fits(r.o, IF r.ret \in Clst THEN r.ret ELSE fp.clust)
<1>1. /\ vol \in Volumes /\ Plain(vol, o) /\ Fits(o, fp.clust)
      /\ vol.type \in {"fat32", "exfat"} /\ fp.clust \in 0 .. EOC
      /\ fp.clust \in {0, EOC} \cup Clst
  <2>1. vol \in Volumes /\ vol.type \in {"fat32", "exfat"}
    BY DEF Proper, Volumes
  <2>2. Plain(vol, o) /\ Fits(o, fp.clust)
    BY DEF Edged, Plain, Fits
  <2>3. fp.clust \in 0 .. EOC /\ fp.clust \in {0, EOC} \cup Clst
    BY LoadedCur, FatAssumption
  <2> QED
    BY <2>1, <2>2, <2>3
<1> DEFINE c == fp.clust
           v == vol
<1>2. CASE fp.write
  <2>1. v \in Volumes /\ Plain(v, o) /\ Fits(o, c) /\ c \in {0, EOC} \cup Clst /\ r \in CreateChain(v, o, c)
    BY <1>1, <1>2 DEF NextTargets
  <2> HIDE DEF c, v
  <2>2. /\ r.v \in Volumes /\ r.v.type = v.type
        /\ r.o \in Objects /\ r.o.sclust = o.sclust /\ r.o.size = o.size
        /\ Plain(r.v, r.o)
        /\ Fits(r.o, IF r.ret \in Clst THEN r.ret ELSE c)
    BY <2>1, CreateChainType
  <2> QED
    BY <2>2 DEF c, v
<1>3. CASE ~fp.write
  <2>1. r.v = v /\ r.o = o /\ r.ret \in {GetFat(v, o, c), DISK}
    BY <1>3, OutcomeFields DEF NextTargets, Stopped
  <2>2. GetFat(v, o, c) \in Clst => Fits(o, GetFat(v, o, c))
    <3>1. v.type = "exfat" /\ o.n_frag # 0 /\ GetFat(v, o, c) \in Clst => GetFat(v, o, c) = c + 1
      BY <1>1, GetFatType
    <3> QED
      BY <1>1, <3>1, FatAssumption DEF Plain, Fits, Objects
  <2>3. DISK \notin Clst
    BY FatAssumption
  <2> QED
    BY <1>1, <2>1, <2>2, <2>3
<1> QED
  BY <1>2, <1>3

LEMMA FatTypeSeekStep ==
  ASSUME FatTypeInv, SeekStep
  PROVE  FatTypeInv'
<1> DEFINE at == fp.fptr + CSize
           o == StretchedTo(at)
           changed == fp.modified \/ (o # fp.o)
           f == [fp EXCEPT !.fptr = at, !.modified = @ \/ (o # fp.o)]
<1>1. Proper /\ Edged /\ Calling
  BY DEF FatTypeInv
<1>2. pc = "seek" /\ left > CSize /\ UNCHANGED <<entry, cur, loose, opens>>
  BY SeekStepCases
<1>3. PICK r \in NextTargets(o) : SeekStepCase(r, at, o)
  BY SeekStepCases
<1>4. at \in 0 .. MaxSize /\ at > 0 /\ left - CSize \in 1 .. MaxSize
      /\ at + (left - CSize) <= MaxSize /\ 0 \in 0 .. MaxSize
  <2>1. left \in 0 .. MaxSize /\ fp.fptr + left <= MaxSize
    BY <1>1, <1>2 DEF Proper, Calling
  <2> QED
    BY <1>1, <1>2, <2>1, LoadedCur
<1>5. o \in Objects /\ o.stat = fp.o.stat /\ o.n_frag = fp.o.n_frag
  BY <1>1, <1>4, LoadedCur DEF StretchedTo, Objects
<1>6. f \in Fils /\ f.clust = fp.clust /\ f.fptr = at /\ f.err = fp.err
  <2>1. changed \in BOOLEAN
    OBVIOUS
  <2>2. f = [fp EXCEPT !.fptr = at, !.modified = changed]
    BY <1>1 DEF Proper, Fils
  <2> HIDE DEF changed, f, at
  <2> QED
    BY <1>1, <1>4, <2>1, <2>2 DEF Proper, Fils
<1> HIDE DEF at, o, f
<1>7. /\ r.v \in Volumes /\ r.v.type = vol.type
      /\ r.o \in Objects /\ Plain(r.v, r.o)
      /\ Fits(r.o, IF r.ret \in Clst THEN r.ret ELSE fp.clust)
  BY <1>1, <1>3, <1>5, NextTargetsType
<1>8. Takes(r)
  BY <1>3 DEF SeekStepCase
<1>9. vol' = r.v /\ faults' \in 0 .. MaxFaults
  BY <1>1, <1>8, TakesFields
<1>10. CASE /\ r.ret \in Clst
            /\ fp' = [f EXCEPT !.o = r.o, !.clust = r.ret]
            /\ left' = left - CSize /\ Given(r.ret)
            /\ UNCHANGED <<pc, res>>
  <2>1. fp' \in Fils /\ fp'.o = r.o /\ fp'.clust = r.ret /\ fp'.fptr = at /\ fp'.err = fp.err
    BY <1>6, <1>7, <1>10 DEF Fils
  <2>2. chain' \in [Files -> Seq(Clst)]
    BY <1>1, <1>10, GivenType
  <2>3. left' \in 0 .. MaxSize /\ left' > 0 /\ fp'.fptr + left' <= MaxSize
    BY <1>4, <1>10, <2>1
  <2>4. Proper'
    BY <1>1, <1>2, <1>7, <1>9, <1>10, <2>1, <2>2, <2>3 DEF Proper
  <2>5. Edged'
    BY <1>4, <1>7, <1>9, <1>10, <2>1 DEF Edged
  <2>6. Calling'
    BY <1>1, <1>2, <1>10, <2>1, <2>3 DEF Calling
  <2> QED
    BY <2>4, <2>5, <2>6 DEF FatTypeInv
<1>11. ASSUME r.ret \notin Clst, NEW e \in BOOLEAN, fp' = [f EXCEPT !.o = r.o, !.err = e],
              left' = 0, pc' = "idle", UNCHANGED chain, res' \in {"ok", "full", "disk", "int"}
       PROVE  FatTypeInv'
  <2>1. fp' \in Fils /\ fp'.o = r.o /\ fp'.clust = fp.clust /\ fp'.fptr = at
    BY <1>6, <1>7, <1>11 DEF Fils
  <2>2. Proper' /\ Calling'
    BY <1>1, <1>2, <1>4, <1>7, <1>9, <1>11, <2>1 DEF Proper, Calling
  <2>3. Edged'
    BY <1>4, <1>7, <1>9, <1>11, <2>1 DEF Edged
  <2> QED
    BY <2>2, <2>3 DEF FatTypeInv
<1>12. CASE /\ r.ret \notin Clst
            /\ fp' = [f EXCEPT !.o = r.o]
            /\ left' = 0 /\ pc' = "idle"
            /\ UNCHANGED <<res, chain>>
  <2>1. fp' = [f EXCEPT !.o = r.o, !.err = f.err] /\ f.err \in BOOLEAN
    BY <1>6, <1>7, <1>12 DEF Fils
  <2>2. res' \in {"ok", "full", "disk", "int"}
    BY <1>1, <1>12 DEF Proper
  <2> QED
    BY <1>11, <1>12, <2>1, <2>2
<1>13. CASE /\ r.ret \notin Clst
            /\ fp' = [f EXCEPT !.o = r.o, !.err = TRUE]
            /\ left' = 0 /\ pc' = "idle"
            /\ res' = IF r.ret = DISK THEN "disk" ELSE "int"
            /\ UNCHANGED chain
  <2>1. TRUE \in BOOLEAN /\ res' \in {"ok", "full", "disk", "int"}
    BY <1>13
  <2> QED
    BY <1>11, <1>13, <2>1
<1> QED
  BY <1>3, <1>10, <1>12, <1>13 DEF SeekStepCase, f

TruncateCut ==
  LET next == GetFat(vol, fp.o, fp.clust)
  IN  CASE fp.fptr = 0 -> RemoveChain(vol, fp.o, fp.o.sclust, 0)
        [] fp.fptr # 0 /\ next < 2 -> {Outcome(vol, fp.o, INT_ERR)}
        [] fp.fptr # 0 /\ next \in Clst ->
             RemoveChain(vol, fp.o, next, fp.clust) \cup {Stopped(vol, fp.o)}
        [] OTHER -> {Outcome(vol, fp.o, OK), Stopped(vol, fp.o)}

TruncateCase(r) ==
  /\ Takes(r)
  /\ fp' = [fp EXCEPT !.o = [r.o EXCEPT !.size = fp.fptr,
                                        !.sclust = IF fp.fptr = 0 THEN 0 ELSE @],
                      !.modified = TRUE, !.err = r.ret # OK]
  /\ res' = Result(r.ret)
  /\ loose' = (loose \/ r.ret = DISK)

LEMMA TruncateCases ==
  ASSUME Truncate
  PROVE  /\ Valid /\ fp.write /\ fp.fptr < fp.o.size
         /\ UNCHANGED <<pc, entry, cur, left, opens>>
         /\ chain' = [chain EXCEPT ![cur] =
                        IF Len(@) * CSize < fp.fptr + CSize THEN @
                        ELSE SubSeq(@, 1, (fp.fptr + CSize - 1) \div CSize)]
         /\ \E r \in TruncateCut : TruncateCase(r)
  BY ZenonT(60) DEF Truncate, TruncateCut, TruncateCase

LEMMA TruncateCutType ==
  ASSUME Proper, Edged, NEW r \in TruncateCut
  PROVE  /\ r.v \in Volumes /\ r.v.type = vol.type
         /\ r.o \in Objects /\ r.o.sclust = fp.o.sclust
         /\ r.o.n_frag = fp.o.n_frag /\ r.o.n_cont = fp.o.n_cont
         /\ Plain(r.v, r.o)
<1> DEFINE v == vol
           o == fp.o
           next == GetFat(v, o, fp.clust)
<1>1. v \in Volumes /\ o \in Objects /\ Plain(v, o)
  BY LoadedCur DEF Proper, Edged
<1>2. \/ r \in RemoveChain(v, o, o.sclust, 0)
      \/ r = Outcome(v, o, INT_ERR) \/ r = Outcome(v, o, OK) \/ r = Stopped(v, o)
      \/ r \in RemoveChain(v, o, next, fp.clust)
  BY DEF TruncateCut
<1> HIDE DEF v, o, next
<1>3. \/ r.v = v /\ r.o = o
      \/ /\ r.v \in Volumes /\ r.v.type = v.type
         /\ r.o \in Objects /\ r.o.sclust = o.sclust
         /\ r.o.n_frag = o.n_frag /\ r.o.n_cont = o.n_cont
         /\ Plain(r.v, r.o)
  BY <1>1, <1>2, RemoveChainType, OutcomeFields DEF Stopped
<1> QED
  BY <1>1, <1>3 DEF v, o

\* The clusters up to the file pointer
LEMMA CutChain ==
  ASSUME NEW s \in Seq(Clst), NEW n \in Nat, ~(Len(s) * CSize < n + CSize)
  PROVE  /\ (n + CSize - 1) \div CSize \in 0 .. Len(s)
         /\ SubSeq(s, 1, (n + CSize - 1) \div CSize) \in Seq(Clst)
<1> DEFINE k == (n + CSize - 1) \div CSize
           m == Len(s)
<1>1. CSize \in Nat /\ CSize > 0 /\ m \in Nat /\ n + CSize - 1 \in Nat
  BY FatAssumption
<1>2. k \in Nat
  BY <1>1
<1>3. k \in Int /\ CSize * k \in Int /\ CSize * k <= n + CSize - 1
  BY <1>1, Quotient
<1> HIDE DEF k, m
<1>4. m * CSize \in Int /\ CSize * m = m * CSize /\ ~(m * CSize < n + CSize)
  BY <1>1, Product DEF m
<1>5. ~(m + 1 <= k)
  <2> SUFFICES ASSUME m + 1 <= k PROVE FALSE
    OBVIOUS
  <2>1. CSize * m <= CSize * k
    BY <1>1, <1>2, ProductMonotone
  <2> QED
    BY <1>1, <1>3, <1>4, <2>1
<1>6. k \in 0 .. m
  BY <1>1, <1>2, <1>5
<1>7. SubSeq(s, 1, k) \in Seq(Clst)
  BY <1>6, Prefix DEF m
<1> QED
  BY <1>6, <1>7 DEF k, m

LEMMA FatTypeTruncate ==
  ASSUME FatTypeInv, Truncate
  PROVE  FatTypeInv'
<1>1. Proper /\ Edged /\ Calling
  BY DEF FatTypeInv
<1>2. /\ pc = "idle" /\ cur \in Files
      /\ UNCHANGED <<pc, entry, cur, left, opens>>
      /\ chain' = [chain EXCEPT ![cur] =
                     IF Len(@) * CSize < fp.fptr + CSize THEN @
                     ELSE SubSeq(@, 1, (fp.fptr + CSize - 1) \div CSize)]
  BY <1>1, TruncateCases DEF Valid, Proper
<1>3. PICK r \in TruncateCut : TruncateCase(r)
  BY TruncateCases
<1>4. /\ r.v \in Volumes /\ r.v.type = vol.type
      /\ r.o \in Objects /\ r.o.n_frag = fp.o.n_frag /\ Plain(r.v, r.o)
  BY <1>1, TruncateCutType
<1>5. Takes(r) /\ res' = Result(r.ret) /\ loose' = (loose \/ r.ret = DISK)
  BY <1>3 DEF TruncateCase
<1>6. vol' = r.v /\ faults' \in 0 .. MaxFaults /\ res' \in {"ok", "full", "disk", "int"}
  BY <1>1, <1>5, TakesFields, ResultType
<1>7. loose' \in BOOLEAN
  BY <1>5
<1>8. chain' \in [Files -> Seq(Clst)]
  <2> DEFINE s == chain[cur]
             t == IF Len(s) * CSize < fp.fptr + CSize THEN s
                  ELSE SubSeq(s, 1, (fp.fptr + CSize - 1) \div CSize)
  <2>1. s \in Seq(Clst) /\ fp.fptr \in Nat
    BY <1>1, <1>2, LoadedCur DEF Proper
  <2>2. t \in Seq(Clst)
    BY <2>1, CutChain
  <2>3. chain' = [chain EXCEPT ![cur] = t]
    BY <1>2
  <2> HIDE DEF t
  <2> QED
    BY <1>1, <2>2, <2>3 DEF Proper
<1> DEFINE c == IF fp.fptr = 0 THEN 0 ELSE r.o.sclust
           o == [r.o EXCEPT !.size = fp.fptr, !.sclust = c]
           e == r.ret # OK
<1>9. c \in {0} \cup Clst /\ fp.fptr \in 0 .. MaxSize /\ e \in BOOLEAN
  BY <1>1, <1>4, LoadedCur DEF Objects
<1>10. fp' = [fp EXCEPT !.o = [r.o EXCEPT !.size = fp.fptr,
                                          !.sclust = IF fp.fptr = 0 THEN 0 ELSE @],
                        !.modified = TRUE, !.err = r.ret # OK]
  BY <1>3 DEF TruncateCase
<1>11. fp' = [fp EXCEPT !.o = o, !.modified = TRUE, !.err = e]
  BY <1>4, <1>10 DEF Objects
<1> HIDE DEF c, e
<1>12. o \in Objects /\ o.stat = r.o.stat /\ o.n_frag = fp.o.n_frag
  BY <1>4, <1>9 DEF Objects
<1> HIDE DEF o
<1>13. fp' \in Fils /\ fp'.o = o /\ fp'.clust = fp.clust /\ fp'.fptr = fp.fptr
  BY <1>1, <1>9, <1>11, <1>12 DEF Proper, Fils
<1>14. Proper' /\ Calling'
  BY <1>1, <1>2, <1>4, <1>6, <1>7, <1>8, <1>13 DEF Proper, Calling
<1>15. Edged'
  BY <1>1, <1>4, <1>6, <1>12, <1>13 DEF Edged, Plain, Fits
<1> QED
  BY <1>14, <1>15 DEF FatTypeInv

LEMMA SettledType ==
  ASSUME NEW v \in Volumes, NEW o \in Objects, Plain(v, o), NEW clust \in 0 .. EOC,
         NEW r \in Settled(v, o, clust)
  PROVE  /\ r.v \in Volumes /\ r.v.type = v.type
         /\ r.o \in Objects /\ r.o.sclust = o.sclust /\ r.o.size = o.size
         /\ r.o.n_frag <= o.n_frag
         /\ Plain(r.v, r.o)
         /\ r.ret \in {OK, DISK}
         /\ r.ret = OK => r.o.n_frag = 0 /\ r.o.stat \in {0, 2}
<1>1. o.n_frag \in Nat /\ o.stat \in {0, 2, 3} /\ OK # DISK /\ v.type \in {"fat32", "exfat"}
  BY FatAssumption DEF Objects, Volumes
<1>2. CASE v.type # "exfat"
  <2>1. r.v = v /\ r.o = o /\ r.ret = OK
    BY <1>2, OutcomeFields DEF Settled
  <2>2. o.stat = 0 /\ o.n_frag = 0
    BY <1>1, <1>2 DEF Plain
  <2> QED
    BY <1>1, <2>1, <2>2
<1>3. CASE v.type = "exfat" /\ \E q \in FillFirst(v, o) : q.ret = DISK /\ r = q
  <2>1. r \in FillFirst(v, o) /\ r.ret = DISK
    BY <1>3
  <2>2. /\ r.v \in Volumes /\ SameBut(v, r.v)
        /\ r.o \in Objects /\ r.o.sclust = o.sclust /\ r.o.size = o.size
        /\ r.o.n_frag = o.n_frag
    BY <2>1, FillFirstOutcomes
  <2> QED
    BY <1>1, <1>3, <2>1, <2>2 DEF SameBut, Plain
<1>4. CASE v.type = "exfat" /\ \E q \in FillFirst(v, o) : q.ret = OK /\ r \in FillLast(q.v, q.o, clust, EOC)
  <2>1. PICK q \in FillFirst(v, o) : q.ret = OK /\ r \in FillLast(q.v, q.o, clust, EOC)
    BY <1>4
  <2>2. /\ q.v \in Volumes /\ SameBut(v, q.v)
        /\ q.o \in Objects /\ q.o.sclust = o.sclust /\ q.o.size = o.size
        /\ q.o.n_frag = o.n_frag /\ q.o.stat \in {0, o.stat}
        /\ o.stat # 3 => q.o = o
        /\ o.stat = 3 => q.o.stat = 0
    BY <2>1, FillFirstOutcomes
  <2>3. EOC \in 0 .. EOC
    BY FatAssumption
  <2> DEFINE w == q.v
             p == q.o
             t == EOC
  <2>4. w \in Volumes /\ p \in Objects /\ t \in 0 .. EOC /\ r \in FillLast(w, p, clust, t)
    BY <2>1, <2>2, <2>3
  <2>5. clust \in 0 .. EOC
    OBVIOUS
  <2> HIDE DEF w, p, t
  <2>6. /\ r.v \in Volumes /\ SameBut(w, r.v) /\ r.ret \in {OK, DISK}
        /\ r.o \in Objects /\ r.o.sclust = p.sclust /\ r.o.size = p.size
        /\ r.o.stat = p.stat /\ r.o.n_frag <= p.n_frag
        /\ r.ret = OK => r.o.n_frag = 0
    BY <2>4, <2>5, FillLastOutcomes
  <2>7. r.v.type = v.type /\ r.o.stat \in {0, 2}
    BY <1>1, <2>2, <2>6 DEF w, p, SameBut
  <2>8. Plain(r.v, r.o)
    BY <1>4, <2>7 DEF Plain
  <2> QED
    BY <2>2, <2>6, <2>7, <2>8 DEF p
<1>5. v.type = "exfat" =>
        \/ \E q \in FillFirst(v, o) : q.ret = DISK /\ r = q
        \/ \E q \in FillFirst(v, o) : q.ret = OK /\ r \in FillLast(q.v, q.o, clust, EOC)
  BY DEF Settled
<1> QED
  BY <1>2, <1>3, <1>4, <1>5

LEMMA FatTypeClosed ==
  ASSUME FatTypeInv, pc = "idle", UNCHANGED <<pc, left, chain, opens>>,
         vol' \in Volumes, vol'.type = vol.type, faults' \in 0 .. MaxFaults,
         res' \in {"ok", "full", "disk", "int"}, loose' \in BOOLEAN,
         entry' \in [Files -> Entries \cup {NoEntry}],
         cur' = NoFile, fp' = Closed
  PROVE  FatTypeInv'
<1>1. fp' \in Fils /\ Plain(vol', fp'.o) /\ Fits(fp'.o, fp'.clust) /\ fp'.o.n_frag = 0
  BY ClosedType DEF Plain
<1>2. Proper'
  BY <1>1 DEF FatTypeInv, Proper
<1>3. Edged' /\ Calling'
  BY <1>1 DEF Edged, Calling
<1> QED
  BY <1>2, <1>3 DEF FatTypeInv

\* The open file is stored in its entry, or stopped before or after that.
SyncCase(close, r, stored) ==
  /\ vol' = r.v
  /\ \/ r.ret = OK /\ entry' = stored /\ res' = "ok" /\ UNCHANGED faults
     \/ /\ entry' \in IF r.ret = OK THEN {entry, stored} ELSE {entry}
        /\ res' = "disk" /\ Faults(1)
  /\ loose' = (loose \/ FirstHalfway(r) \/ (close /\ LeftLoose(r.v, r.o, entry'[cur])))
  /\ \/ close /\ cur' = NoFile /\ fp' = Closed
     \/ /\ ~close /\ cur' = cur
        /\ \E kept \in BOOLEAN :
             /\ kept => res' = "disk"
             /\ (entry' = entry /\ stored # entry) => kept
             /\ fp' = [fp EXCEPT !.o = r.o, !.modified = kept]

LEMMA SyncCases ==
  ASSUME NEW close \in BOOLEAN, Sync(close)
  PROVE  /\ pc = "idle" /\ cur # NoFile /\ UNCHANGED <<pc, left, chain, opens>>
         /\ \/ /\ ~fp.modified /\ close /\ res' = "ok"
               /\ loose' = (loose \/ LeftLoose(vol, fp.o, entry[cur]))
               /\ UNCHANGED <<vol, entry, faults>>
               /\ cur' = NoFile /\ fp' = Closed
            \/ /\ fp.modified
               /\ \E r \in Settled(vol, fp.o, fp.clust) :
                    SyncCase(close, r, [entry EXCEPT ![cur] = Object(r.o.sclust, r.o.size, r.o.stat)])
  BY DEF Sync, SyncCase

LEMMA FatTypeSync ==
  ASSUME FatTypeInv, NEW close \in BOOLEAN, Sync(close)
  PROVE  FatTypeInv'
<1>1. Proper /\ Edged /\ Calling
  BY DEF FatTypeInv
<1>2. /\ pc = "idle" /\ cur \in Files /\ UNCHANGED <<pc, left, chain, opens>>
  BY <1>1, SyncCases DEF Proper
<1>3. /\ vol \in Volumes /\ entry \in [Files -> Entries \cup {NoEntry}] /\ faults \in 0 .. MaxFaults
      /\ loose \in BOOLEAN /\ fp \in Fils
  BY <1>1 DEF Proper
<1>4. CASE /\ ~fp.modified /\ close /\ res' = "ok"
           /\ loose' = (loose \/ LeftLoose(vol, fp.o, entry[cur]))
           /\ UNCHANGED <<vol, entry, faults>>
           /\ cur' = NoFile /\ fp' = Closed
  <2>1. loose' \in BOOLEAN
    BY <1>4
  <2> QED
    BY <1>2, <1>3, <1>4, <2>1, FatTypeClosed
<1>5. ASSUME NEW r \in Settled(vol, fp.o, fp.clust),
             NEW stored, stored = [entry EXCEPT ![cur] = Object(r.o.sclust, r.o.size, r.o.stat)],
             SyncCase(close, r, stored)
      PROVE  FatTypeInv'
  <2>0. /\ vol' = r.v
        /\ \/ r.ret = OK /\ entry' = stored /\ res' = "ok" /\ UNCHANGED faults
           \/ /\ entry' \in IF r.ret = OK THEN {entry, stored} ELSE {entry}
              /\ res' = "disk" /\ Faults(1)
        /\ loose' = (loose \/ FirstHalfway(r) \/ (close /\ LeftLoose(r.v, r.o, entry'[cur])))
        /\ \/ cur' = NoFile /\ fp' = Closed
           \/ cur' = cur /\ \E kept \in BOOLEAN : fp' = [fp EXCEPT !.o = r.o, !.modified = kept]
    BY <1>5 DEF SyncCase
  <2>1. /\ r.v \in Volumes /\ r.v.type = vol.type
        /\ r.o \in Objects /\ r.o.n_frag <= fp.o.n_frag /\ Plain(r.v, r.o)
        /\ r.ret = OK => r.o.stat \in {0, 2}
    <3> DEFINE o == fp.o
               c == fp.clust
    <3>1. o \in Objects /\ Plain(vol, o) /\ r \in Settled(vol, o, c)
      BY <1>1, <1>5, LoadedCur DEF Edged
    <3>2. c \in 0 .. EOC
      BY <1>1, LoadedCur, FatAssumption
    <3> HIDE DEF o, c
    <3>3. /\ r.v \in Volumes /\ r.v.type = vol.type
          /\ r.o \in Objects /\ r.o.n_frag <= o.n_frag /\ Plain(r.v, r.o)
          /\ r.ret = OK => r.o.stat \in {0, 2}
      BY <1>3, <3>1, <3>2, SettledType
    <3> QED
      BY <3>3 DEF o
  <2>2. faults' \in 0 .. MaxFaults /\ res' \in {"ok", "full", "disk", "int"}
    BY <1>1, <1>3, <1>5, <2>0, FaultsType
  <2>3. r.ret = OK => stored \in [Files -> Entries \cup {NoEntry}]
    <3>1. r.ret = OK => Object(r.o.sclust, r.o.size, r.o.stat) \in Entries
      BY <2>1, ObjectType DEF Objects
    <3> QED
      BY <1>3, <1>5, <2>0, <3>1
  <2>4. entry' \in [Files -> Entries \cup {NoEntry}]
    BY <1>3, <1>5, <2>0, <2>3
  <2>5. loose' \in BOOLEAN
    BY <2>0
  <2>6. CASE cur' = NoFile /\ fp' = Closed
    BY <1>2, <1>5, <2>0, <2>1, <2>2, <2>4, <2>5, <2>6, FatTypeClosed
  <2>7. CASE cur' = cur /\ \E kept \in BOOLEAN : fp' = [fp EXCEPT !.o = r.o, !.modified = kept]
    <3>1. fp' \in Fils /\ fp'.o = r.o /\ fp'.clust = fp.clust /\ fp'.fptr = fp.fptr
      BY <1>3, <2>1, <2>7 DEF Fils
    <3>2. Proper' /\ Calling'
      BY <1>1, <1>2, <1>5, <2>0, <2>1, <2>2, <2>4, <2>5, <2>7, <3>1 DEF Proper, Calling
    <3>3. r.o.n_frag \in Nat /\ fp.o.n_frag \in Nat
      BY <1>1, <2>1, LoadedCur DEF Objects
    <3>4. Fits(r.o, fp.clust) /\ (r.o.n_frag > 0 => fp.fptr > 0)
      <4>1. fp.o.n_frag = 0 => r.o.n_frag = 0
        BY <2>1, <3>3
      <4>2. fp.o.n_frag > 0 => fp.clust \in Clst /\ fp.o.n_frag <= fp.clust - 1 /\ fp.fptr > 0
        BY <1>1 DEF Edged, Fits
      <4> QED
        BY <2>1, <3>3, <4>1, <4>2 DEF Fits
    <3>5. Edged'
      BY <2>0, <2>1, <3>1, <3>4 DEF Edged
    <3> QED
      BY <3>2, <3>5 DEF FatTypeInv
  <2> QED
    BY <2>0, <2>6, <2>7
<1> QED
  BY <1>4, <1>5, SyncCases

-----------------------------------------------------------------------------
\* Type correctness: the calls that open and unlink

LEMMA FatTypeUnlink ==
  ASSUME FatTypeInv, NEW f \in Files, Unlink(f)
  PROVE  FatTypeInv'
<1>1. Proper /\ Edged /\ Calling
  BY DEF FatTypeInv
<1>2. pc = "idle" /\ Exists(f) /\ UNCHANGED <<pc, cur, fp, left, loose, opens>>
  BY DEF Unlink
<1>3. /\ vol \in Volumes /\ entry \in [Files -> Entries \cup {NoEntry}] /\ faults \in 0 .. MaxFaults
      /\ chain \in [Files -> Seq(Clst)]
  BY <1>1 DEF Proper
<1> DEFINE o == Loaded(entry[f])
<1>4. o \in Objects /\ Plain(vol, o)
  BY <1>1, <1>2, EntryLoads
<1>5. /\ entry' \in {entry, [entry EXCEPT ![f] = NoEntry]}
      /\ \/ res' = "disk" /\ Faults(1) /\ UNCHANGED <<vol, chain>>
         \/ res' = "ok" /\ UNCHANGED <<vol, chain, faults>>
         \/ /\ chain' = [chain EXCEPT ![f] = <<>>]
            /\ \E r \in RemoveChain(vol, o, o.sclust, 0) : Takes(r) /\ res' = Result(r.ret)
  BY DEF Unlink
<1> HIDE DEF o
<1>6. entry' \in [Files -> Entries \cup {NoEntry}] /\ chain' \in [Files -> Seq(Clst)]
  <2>1. entry' \in [Files -> Entries \cup {NoEntry}]
    BY <1>3, <1>5
  <2>2. UNCHANGED chain \/ chain' = [chain EXCEPT ![f] = <<>>]
    BY <1>5
  <2>3. <<>> \in Seq(Clst)
    OBVIOUS
  <2>4. chain' \in [Files -> Seq(Clst)]
    BY <1>3, <2>2, <2>3
  <2> QED
    BY <2>1, <2>4
<1>7. /\ vol' \in Volumes /\ vol'.type = vol.type /\ faults' \in 0 .. MaxFaults
      /\ res' \in {"ok", "full", "disk", "int"}
  <2>1. CASE \E r \in RemoveChain(vol, o, o.sclust, 0) : Takes(r) /\ res' = Result(r.ret)
    <3>1. PICK r \in RemoveChain(vol, o, o.sclust, 0) : Takes(r) /\ res' = Result(r.ret)
      BY <2>1
    <3>2. r.v \in Volumes /\ r.v.type = vol.type
      BY <1>3, <1>4, RemoveChainType
    <3> QED
      BY <1>1, <3>1, <3>2, TakesFields, ResultType
  <2>2. CASE res' \in {"ok", "disk"} /\ (Faults(1) \/ UNCHANGED faults) /\ UNCHANGED vol
    BY <1>1, <1>3, <2>2, FaultsType
  <2> QED
    BY <1>5, <2>1, <2>2
<1>8. Proper' /\ Calling'
  BY <1>1, <1>2, <1>6, <1>7 DEF Proper, Calling
<1>9. Edged'
  BY <1>1, <1>2, <1>7 DEF Edged, Plain
<1> QED
  BY <1>8, <1>9 DEF FatTypeInv

\* A file just opened has no growing edge.
LEMMA FatTypeOpened ==
  ASSUME FatTypeInv, pc = "idle", UNCHANGED <<pc, left, loose>>, opens' \in 0 .. MaxOpens,
         vol' \in Volumes, vol'.type = vol.type, faults' \in 0 .. MaxFaults,
         res' \in {"ok", "full", "disk", "int"}, chain' \in [Files -> Seq(Clst)],
         entry' \in [Files -> Entries \cup {NoEntry}],
         \/ UNCHANGED <<cur, fp>>
         \/ cur' \in Files /\ fp' \in Fils /\ fp'.o.n_frag = 0 /\ Plain(vol, fp'.o)
  PROVE  FatTypeInv'
<1>1. Proper /\ Edged /\ Calling
  BY DEF FatTypeInv
<1>2. Proper' /\ Calling'
  BY <1>1 DEF Proper, Calling
<1>3. Edged'
  BY <1>1 DEF Edged, Plain, Fits
<1> QED
  BY <1>2, <1>3 DEF FatTypeInv

\* f_open of a file that starts anew: what it had before is old.
OpenCreateCase(f, old, opened) ==
  \/ /\ entry' \in {entry, opened}
     /\ res' = "disk" /\ Faults(1)
     /\ UNCHANGED <<vol, cur, fp, chain>>
  \/ /\ old.sclust = 0
     /\ entry' = opened
     /\ cur' = f /\ fp' = NewFil(Object(0, 0, 0), TRUE, TRUE) /\ res' = "ok"
     /\ UNCHANGED <<vol, chain, faults>>
  \/ /\ old.sclust # 0
     /\ entry' = opened
     /\ \E r \in RemoveChain(vol, old, old.sclust, 0) :
          /\ vol' = IF vol.type = "exfat" \/ r.ret = OK
                    THEN [r.v EXCEPT !.last = old.sclust - 1] ELSE r.v
          /\ Faults(Error(r))
          /\ IF r.ret = OK
             THEN cur' = f /\ fp' = NewFil(Object(0, 0, 0), TRUE, TRUE) /\ res' = "ok"
             ELSE UNCHANGED <<cur, fp>> /\ res' = Result(r.ret)
     /\ chain' = [chain EXCEPT ![f] = <<>>]

OldObject(f) == IF Exists(f) THEN Loaded(entry[f]) ELSE Object(0, 0, 0)

LEMMA OpenCreateCases ==
  ASSUME NEW f \in Files, OpenCreate(f)
  PROVE  /\ pc = "idle" /\ cur = NoFile /\ UNCHANGED <<pc, left, loose>>
         /\ opens + faults < MaxOpens /\ opens' = opens + 1
         /\ OpenCreateCase(f, OldObject(f), [entry EXCEPT ![f] = Object(0, 0, 0)])
  BY ZenonT(60) DEF OpenCreate, OpenCreateCase, OldObject

LEMMA OldObjectType ==
  ASSUME Proper, NEW f \in Files
  PROVE  OldObject(f) \in Objects /\ Plain(vol, OldObject(f))
<1>1. 0 \in {0} \cup Clst /\ 0 \in 0 .. MaxSize /\ 0 \in {0, 2}
  BY FileAssumption
<1>2. Object(0, 0, 0) \in Objects
  BY <1>1, ObjectType
<1>3. Plain(vol, Object(0, 0, 0))
  BY DEF Plain, Object
<1> QED
  BY <1>2, <1>3, EntryLoads DEF OldObject

LEMMA NewFileType ==
  ASSUME Proper
  PROVE  LET g == NewFil(Object(0, 0, 0), TRUE, TRUE)
         IN  g \in Fils /\ g.o = Object(0, 0, 0) /\ g.o.n_frag = 0 /\ Plain(vol, g.o)
<1>1. PICK o : o = Object(0, 0, 0)
  OBVIOUS
<1>2. 0 \in {0} \cup Clst /\ 0 \in 0 .. MaxSize /\ 0 \in {0, 2}
  BY FileAssumption
<1>3. o \in Objects
  BY <1>1, <1>2, ObjectType
<1>4. Plain(vol, o) /\ o.n_frag = 0
  BY <1>1 DEF Plain, Object
<1>5. NewFil(o, TRUE, TRUE) \in Fils /\ NewFil(o, TRUE, TRUE).o = o
  BY <1>3, NewFilType
<1> QED
  BY <1>1, <1>4, <1>5

LEMMA FatTypeOpenCreate ==
  ASSUME FatTypeInv, NEW f \in Files, OpenCreate(f)
  PROVE  FatTypeInv'
<1>1. Proper
  BY DEF FatTypeInv
<1>2. /\ pc = "idle" /\ UNCHANGED <<pc, left, loose>>
      /\ opens + faults < MaxOpens /\ opens' = opens + 1
  BY OpenCreateCases
<1>3. /\ vol \in Volumes /\ entry \in [Files -> Entries \cup {NoEntry}] /\ faults \in 0 .. MaxFaults
      /\ chain \in [Files -> Seq(Clst)] /\ opens \in 0 .. MaxOpens
  BY <1>1 DEF Proper
<1>4. opens' \in 0 .. MaxOpens
  BY <1>2, <1>3, FileAssumption
<1> DEFINE old == OldObject(f)
           opened == [entry EXCEPT ![f] = Object(0, 0, 0)]
           new == NewFil(Object(0, 0, 0), TRUE, TRUE)
<1>5. OpenCreateCase(f, old, opened)
  BY OpenCreateCases
<1>6. old \in Objects /\ Plain(vol, old)
  BY <1>1, OldObjectType
<1>7. opened \in [Files -> Entries \cup {NoEntry}]
  <2>1. 0 \in {0} \cup Clst /\ 0 \in 0 .. MaxSize /\ 0 \in {0, 2}
    BY FileAssumption
  <2>2. Object(0, 0, 0) \in Entries
    BY <2>1, ObjectType
  <2> QED
    BY <1>3, <2>2
<1>8. new \in Fils /\ new.o.n_frag = 0 /\ Plain(vol, new.o)
  BY <1>1, NewFileType
<1>9. ASSUME UNCHANGED <<cur, fp>> \/ (cur' = f /\ fp' = new)
      PROVE  \/ UNCHANGED <<cur, fp>>
             \/ cur' \in Files /\ fp' \in Fils /\ fp'.o.n_frag = 0 /\ Plain(vol, fp'.o)
  BY <1>8, <1>9
<1> HIDE DEF old, opened, new
<1>10. CASE /\ entry' \in {entry, opened}
            /\ res' = "disk" /\ Faults(1)
            /\ UNCHANGED <<vol, cur, fp, chain>>
  <2>1. faults' \in 0 .. MaxFaults /\ entry' \in [Files -> Entries \cup {NoEntry}]
    BY <1>1, <1>3, <1>7, <1>10, FaultsType
  <2> QED
    BY <1>2, <1>3, <1>4, <1>10, <2>1, FatTypeOpened
<1>11. CASE /\ entry' = opened
            /\ cur' = f /\ fp' = new /\ res' = "ok"
            /\ UNCHANGED <<vol, chain, faults>>
  BY <1>2, <1>3, <1>4, <1>7, <1>8, <1>11, FatTypeOpened
<1>12. CASE /\ old.sclust # 0
            /\ entry' = opened
            /\ \E r \in RemoveChain(vol, old, old.sclust, 0) :
                 /\ vol' = IF vol.type = "exfat" \/ r.ret = OK
                           THEN [r.v EXCEPT !.last = old.sclust - 1] ELSE r.v
                 /\ Faults(Error(r))
                 /\ IF r.ret = OK
                    THEN cur' = f /\ fp' = new /\ res' = "ok"
                    ELSE UNCHANGED <<cur, fp>> /\ res' = Result(r.ret)
            /\ chain' = [chain EXCEPT ![f] = <<>>]
  <2>1. PICK r \in RemoveChain(vol, old, old.sclust, 0) :
                 /\ vol' = IF vol.type = "exfat" \/ r.ret = OK
                           THEN [r.v EXCEPT !.last = old.sclust - 1] ELSE r.v
                 /\ Faults(Error(r))
                 /\ IF r.ret = OK
                    THEN cur' = f /\ fp' = new /\ res' = "ok"
                    ELSE UNCHANGED <<cur, fp>> /\ res' = Result(r.ret)
    BY <1>12
  <2>2. r.v \in Volumes /\ r.v.type = vol.type
    BY <1>3, <1>6, RemoveChainType
  <2>3. old.sclust - 1 \in 1 .. Clusters + 1
    BY <1>6, <1>12, FatAssumption DEF Objects
  <2>4. vol' \in Volumes /\ vol'.type = vol.type
    BY <2>1, <2>2, <2>3 DEF Volumes
  <2>5. Error(r) \in {0, 1}
    BY DEF Error
  <2>6. faults' \in 0 .. MaxFaults /\ res' \in {"ok", "full", "disk", "int"}
    BY <1>1, <2>1, <2>5, FaultsType, ResultType
  <2>7. chain' \in [Files -> Seq(Clst)]
    BY <1>3, <1>12
  <2>8. UNCHANGED <<cur, fp>> \/ (cur' = f /\ fp' = new)
    BY <2>1
  <2>9. \/ UNCHANGED <<cur, fp>>
        \/ cur' \in Files /\ fp' \in Fils /\ fp'.o.n_frag = 0 /\ Plain(vol, fp'.o)
    BY <1>9, <2>8
  <2> QED
    BY <1>2, <1>4, <1>7, <1>12, <2>4, <2>6, <2>7, <2>9, FatTypeOpened
<1> QED
  BY <1>5, <1>10, <1>11, <1>12 DEF OpenCreateCase, new

\* Where FA_OPEN_APPEND finds the last cluster of a file
AppendAt(o) ==
  LET n == (o.size - 1) \div CSize
      s == ChainOf(vol, o)
  IN  IF n < Len(s) THEN s[n + 1]
      ELSE IF n = Len(s) /\ n > 0 THEN GetFat(vol, o, Last(s)) ELSE INT_ERR

OpenExistingCase(f, append, o) ==
  \/ /\ res' = "disk" /\ Faults(1)
     /\ UNCHANGED <<cur, fp>>
  \/ /\ append /\ o.size > 0
     /\ IF AppendAt(o) >= 2
        THEN /\ cur' = f /\ res' = "ok"
             /\ fp' = [NewFil(o, TRUE, FALSE) EXCEPT !.clust = AppendAt(o), !.fptr = o.size]
        ELSE res' = "int" /\ UNCHANGED <<cur, fp>>
     /\ UNCHANGED faults
  \/ /\ ~append \/ o.size = 0
     /\ cur' = f /\ res' = "ok"
     /\ \E write \in BOOLEAN : (append => write) /\ fp' = NewFil(o, write, FALSE)
     /\ UNCHANGED faults

LEMMA OpenExistingCases ==
  ASSUME NEW f \in Files, NEW append \in BOOLEAN, OpenExisting(f, append)
  PROVE  /\ pc = "idle" /\ cur = NoFile /\ Exists(f)
         /\ UNCHANGED <<pc, vol, entry, left, chain, loose>>
         /\ opens + faults < MaxOpens /\ opens' = opens + 1
         /\ OpenExistingCase(f, append, Loaded(entry[f]))
  BY ZenonT(60) DEF OpenExisting, OpenExistingCase, AppendAt

LEMMA AppendAtType ==
  ASSUME Proper, NEW o \in Objects, o.size > 0, AppendAt(o) >= 2
  PROVE  AppendAt(o) \in {EOC} \cup Clst
<1> DEFINE n == (o.size - 1) \div CSize
           s == ChainOf(vol, o)
<1>1. n \in Nat
  <2>1. o.size - 1 \in Nat /\ CSize \in Nat /\ CSize > 0
    BY FileAssumption, FatAssumption DEF Objects
  <2> QED
    BY <2>1
<1>2. s \in Seq(Clst)
  <2>1. CASE o.sclust \in Clst
    BY <2>1, WalkSeq DEF ChainOf
  <2>2. CASE o.sclust \notin Clst
    BY <2>2 DEF ChainOf
  <2> QED
    BY <2>1, <2>2
<1>3. vol \in Volumes
  BY DEF Proper
<1> HIDE DEF n, s
<1>4. CASE n < Len(s)
  <2>1. AppendAt(o) = s[n + 1]
    BY <1>4 DEF AppendAt, n, s
  <2>2. n + 1 \in 1 .. Len(s)
    BY <1>1, <1>2, <1>4
  <2>3. s[n + 1] \in Clst
    BY <1>2, <2>2, ElementOfSeq
  <2> QED
    BY <2>1, <2>3
<1>5. CASE ~(n < Len(s)) /\ n = Len(s) /\ n > 0
  <2>1. AppendAt(o) = GetFat(vol, o, Last(s))
    BY <1>5 DEF AppendAt, n, s
  <2>2. Last(s) \in Clst
    <3>1. Len(s) \in 1 .. Len(s)
      BY <1>2, <1>5
    <3> QED
      BY <1>2, <3>1, ElementOfSeq DEF Last
  <2>3. Last(s) \in 0 .. EOC
    BY <2>2, FatAssumption
  <2>4. GetFat(vol, o, Last(s)) \in 0 .. EOC
    BY <1>3, <2>3, GetFatType
  <2> QED
    BY <2>1, <2>4, FatAssumption
<1>6. CASE ~(n < Len(s)) /\ ~(n = Len(s) /\ n > 0)
  <2>1. AppendAt(o) = INT_ERR
    BY <1>6 DEF AppendAt, n, s
  <2> QED
    BY <2>1
<1> QED
  BY <1>4, <1>5, <1>6

LEMMA FatTypeOpenExisting ==
  ASSUME FatTypeInv, NEW f \in Files, NEW append \in BOOLEAN, OpenExisting(f, append)
  PROVE  FatTypeInv'
<1>1. Proper
  BY DEF FatTypeInv
<1>2. /\ pc = "idle" /\ Exists(f) /\ UNCHANGED <<pc, vol, entry, left, chain, loose>>
      /\ opens + faults < MaxOpens /\ opens' = opens + 1
  BY OpenExistingCases
<1>3. /\ vol \in Volumes /\ entry \in [Files -> Entries \cup {NoEntry}] /\ faults \in 0 .. MaxFaults
      /\ chain \in [Files -> Seq(Clst)] /\ opens \in 0 .. MaxOpens
  BY <1>1 DEF Proper
<1>4. opens' \in 0 .. MaxOpens
  BY <1>2, <1>3, FileAssumption
<1> DEFINE o == Loaded(entry[f])
<1>5. OpenExistingCase(f, append, o)
  BY OpenExistingCases
<1>6. o \in Objects /\ Plain(vol, o) /\ o.n_frag = 0
  BY <1>1, <1>2, EntryLoads
<1> HIDE DEF o
<1>7. CASE res' \in {"disk", "int"} /\ (Faults(1) \/ UNCHANGED faults) /\ UNCHANGED <<cur, fp>>
  <2>1. faults' \in 0 .. MaxFaults
    BY <1>1, <1>3, <1>7, FaultsType
  <2> QED
    BY <1>2, <1>3, <1>4, <1>7, <2>1, FatTypeOpened
<1>8. CASE /\ o.size > 0 /\ AppendAt(o) >= 2
           /\ cur' = f /\ res' = "ok" /\ UNCHANGED faults
           /\ fp' = [NewFil(o, TRUE, FALSE) EXCEPT !.clust = AppendAt(o), !.fptr = o.size]
  <2>1. AppendAt(o) \in {0, EOC} \cup Clst
    BY <1>1, <1>6, <1>8, AppendAtType
  <2> DEFINE g == NewFil(o, TRUE, FALSE)
  <2>2. g \in Fils /\ g.o = o
    BY <1>6, NewFilType
  <2> HIDE DEF g
  <2>3. fp' \in Fils /\ fp'.o = o
    BY <1>6, <1>8, <2>1, <2>2 DEF Fils, Objects, g
  <2> QED
    BY <1>2, <1>3, <1>4, <1>6, <1>8, <2>3, FatTypeOpened
<1>9. CASE /\ cur' = f /\ res' = "ok" /\ UNCHANGED faults
           /\ \E write \in BOOLEAN : (append => write) /\ fp' = NewFil(o, write, FALSE)
  <2>1. fp' \in Fils /\ fp'.o = o
    <3>1. PICK write \in BOOLEAN : fp' = NewFil(o, write, FALSE)
      BY <1>9
    <3>2. FALSE \in BOOLEAN
      OBVIOUS
    <3> QED
      BY <1>6, <3>1, <3>2, NewFilType
  <2> QED
    BY <1>2, <1>3, <1>4, <1>6, <1>9, <2>1, FatTypeOpened
<1> QED
  BY <1>5, <1>7, <1>8, <1>9 DEF OpenExistingCase

LEMMA FatTypeNext == FatTypeInv /\ [Next]_vars => FatTypeInv'
<1> SUFFICES ASSUME FatTypeInv, [Next]_vars PROVE FatTypeInv'
  OBVIOUS
<1>1. CASE UNCHANGED vars
  BY <1>1 DEF vars, FatTypeInv, Proper, Edged, Calling
<1>2. CASE Next
  BY <1>2, FatTypeOpenCreate, FatTypeUnlink, FatTypeOpenExisting, FatTypeTransfer,
     FatTypeReadStep, FatTypeWriteStep, FatTypeSeek, FatTypeSeekStep, FatTypeSeekEnd,
     FatTypeTruncate, FatTypeSync, FatTypeGetFree DEF Next
<1> QED
  BY <1>1, <1>2

LEMMA FatTypeImplies == FatTypeInv => TypeOK
<1> SUFFICES ASSUME FatTypeInv PROVE TypeOK
  OBVIOUS
<1>1. Proper
  BY DEF FatTypeInv
<1>2. /\ vol.type \in {"fat32", "exfat"} /\ vol.fat \in [Clst -> 0 .. EOC] /\ vol.used \subseteq Clst
      /\ vol.free \in 0 .. Clusters \cup {UNKNOWN}
      /\ vol.last \in 1 .. Clusters + 1 \cup {UNKNOWN}
  BY <1>1 DEF Proper, Volumes
<1>3. ASSUME NEW f \in Files
      PROVE  /\ entry[f].sclust \in {0, UNKNOWN} \cup Clst
             /\ entry[f].size \in 0 .. MaxSize
             /\ entry[f].stat \in {0, 2}
  <2>1. entry[f] \in Entries \/ entry[f] = NoEntry
    BY <1>1 DEF Proper
  <2>2. NoEntry.sclust = UNKNOWN /\ NoEntry.size = 0 /\ NoEntry.stat = 0 /\ 0 \in 0 .. MaxSize
    BY FileAssumption DEF NoEntry, Object
  <2> QED
    BY <2>1, <2>2 DEF Entries
<1>4. {fp.modified, fp.err, fp.write, loose} \subseteq BOOLEAN
  BY <1>1, LoadedCur DEF Proper
<1> QED
  BY <1>1, <1>2, <1>3, <1>4, LoadedCur DEF TypeOK, Proper

\* FatFile.TypeOK: whatever is read, written, sought, truncated, synced, opened and
\* unlinked, and wherever a disk error stops it, every link of the FAT, the FIL
\* object and the entries stay in their range: no call follows a link to a
\* cluster outside the volume, and fill_last_frag never counts back beyond it.
THEOREM FatTypeCorrect == Spec => []TypeOK
<1>1. Init => FatTypeInv
  BY FatTypeInit
<1>2. FatTypeInv /\ [Next]_vars => FatTypeInv'
  BY FatTypeNext
<1>3. FatTypeInv => TypeOK
  BY FatTypeImplies
<1> QED
  BY <1>1, <1>2, <1>3, PTL DEF Spec

-----------------------------------------------------------------------------
\* Sizes in clusters

\* The number of clusters that n sectors take
Count(n) == (n + CSize - 1) \div CSize

LEMMA CountBounds ==
  ASSUME NEW n \in Nat
  PROVE  /\ Count(n) \in Nat /\ CSize * Count(n) \in Nat
         /\ n <= CSize * Count(n) /\ CSize * Count(n) < n + CSize
         /\ (n = 0) <=> (Count(n) = 0)
<1> DEFINE q == Count(n)
<1>1. /\ q \in Int /\ CSize * q \in Int /\ CSize \in Nat /\ CSize > 0
      /\ CSize * q <= n + CSize - 1 /\ n + CSize - 1 < CSize * q + CSize
  <2>1. n + CSize - 1 \in Int
    BY FatAssumption
  <2> QED
    BY <2>1, Quotient, FatAssumption DEF Count
<1> HIDE DEF q
<1>2. q >= 0
  <2> SUFFICES ASSUME q + 1 <= 0 PROVE FALSE
    BY <1>1
  <2>1. (q + 1) * CSize <= 0 * CSize /\ CSize * (q + 1) = CSize * q + CSize
    BY <1>1, ProductMonotone, Product
  <2>2. (q + 1) * CSize = CSize * (q + 1)
    BY <1>1, Product
  <2> QED
    BY <1>1, <2>1, <2>2
<1>3. n <= CSize * q /\ CSize * q < n + CSize /\ CSize * q \in Nat
  BY <1>1
<1>4. q = 0 => CSize * q = 0
  BY <1>1
<1>5. q # 0 => CSize <= CSize * q
  <2>1. q >= 1 => CSize * 1 <= CSize * q
    BY <1>1, ProductMonotone
  <2> QED
    BY <1>1, <1>2, <2>1
<1> QED
  BY <1>1, <1>2, <1>3, <1>4, <1>5 DEF q

LEMMA CountIs ==
  ASSUME NEW n \in Nat, NEW k \in Nat, n <= CSize * k, CSize * k < n + CSize
  PROVE  Count(n) = k
<1>1. CSize * k \in Int /\ CSize \in Nat /\ CSize > 0
  BY FatAssumption, Product
<1>2. n + CSize - 1 \in Int /\ CSize * k <= n + CSize - 1 /\ n + CSize - 1 < CSize * k + CSize
  BY <1>1
<1> QED
  BY <1>2, QuotientIs DEF Count

LEMMA CountMonotone ==
  ASSUME NEW m \in Nat, NEW n \in Nat, m <= n
  PROVE  Count(m) <= Count(n)
<1>1. m + CSize - 1 \in Int /\ n + CSize - 1 \in Int /\ m + CSize - 1 <= n + CSize - 1
  BY FatAssumption
<1> QED
  BY <1>1, QuotientMonotone DEF Count

\* The last sector within a cluster, and all the ones before it
LEMMA CountWithin ==
  ASSUME NEW k \in Nat
  PROVE  /\ CSize * k \in Nat /\ CSize * (k + 1) = CSize * k + CSize
         /\ Count(CSize * k) = k
         /\ \A l \in 1 .. CSize : Count(CSize * k + l) = k + 1
<1>1. /\ CSize \in Nat /\ CSize > 0 /\ CSize * k \in Int /\ CSize * (k + 1) = CSize * k + CSize
      /\ CSize * (k + 1) \in Int
  BY FatAssumption, Product
<1>2. CSize * k \in Nat
  BY <1>1, ProductMonotone
<1>3. Count(CSize * k) = k
  BY <1>1, <1>2, CountIs
<1>4. ASSUME NEW l \in 1 .. CSize PROVE Count(CSize * k + l) = k + 1
  <2>1. /\ CSize * k + l \in Nat /\ k + 1 \in Nat /\ CSize * k + l <= CSize * (k + 1)
        /\ CSize * (k + 1) < CSize * k + l + CSize
    BY <1>1, <1>2
  <2> QED
    BY <2>1, CountIs
<1> QED
  BY <1>1, <1>2, <1>3, <1>4

LEMMA CountAbove ==
  ASSUME NEW n \in Nat, NEW k \in Nat
  PROVE  (n > CSize * k) <=> (Count(n) > k)
<1> DEFINE q == Count(n)
<1>1. q \in Nat /\ CSize * q \in Nat /\ n <= CSize * q /\ CSize * q < n + CSize
  BY CountBounds
<1>2. CSize \in Nat /\ CSize * k \in Nat /\ CSize * (k + 1) = CSize * k + CSize
  BY CountWithin, FatAssumption
<1> HIDE DEF q
<1>3. q <= k => CSize * q <= CSize * k
  BY <1>1, <1>2, ProductMonotone
<1>4. k + 1 <= q => CSize * (k + 1) <= CSize * q
  BY <1>1, <1>2, ProductMonotone
<1> QED
  BY <1>1, <1>2, <1>3, <1>4 DEF q

LEMMA CountBefore ==
  ASSUME NEW n \in Nat, n > 0
  PROVE  (n - 1) \div CSize = Count(n) - 1
<1> DEFINE q == Count(n)
<1>1. q \in Nat /\ CSize * q \in Nat /\ n <= CSize * q /\ CSize * q < n + CSize
  BY CountBounds
<1>2. CSize \in Nat /\ CSize > 0
  BY FatAssumption
<1> HIDE DEF q
<1>3. CSize * (q - 1) + CSize = CSize * q /\ CSize * (q - 1) \in Int
  <2>1. CSize * ((q - 1) + 1) = CSize * (q - 1) + CSize /\ CSize * (q - 1) \in Int
    BY <1>1, <1>2, Product
  <2> QED
    BY <1>1, <2>1
<1>4. n - 1 \in Int /\ q - 1 \in Int /\ CSize * (q - 1) <= n - 1 /\ n - 1 < CSize * (q - 1) + CSize
  BY <1>1, <1>2, <1>3
<1>5. (n - 1) \div CSize = q - 1
  BY <1>4, QuotientIs
<1> QED
  BY <1>5 DEF q

-----------------------------------------------------------------------------
\* What a chain of clusters is, and how get_fat follows it

Injective(s) == \A i, j \in 1 .. Len(s) : s[i] = s[j] => i = j

\* s is contiguous from a to b.
Run(s, a, b) == \A i \in a .. b : s[i] = s[a] + (i - a)

\* The links of s from a to b are on the FAT.
Linked(v, s, a, b) == \A i \in a .. b : v.fat[s[i]] = s[i + 1]

\* Where the links of an object begin that are on the FAT.
First(o) == IF o.stat = 3 THEN o.n_cont + 1 ELSE 1

\* The object o of the volume v has the clusters s: what is not on the FAT can
\* be told from its status, its first fragment and its growing edge.
Shape(v, o, s) ==
  /\ s \in Seq(Clst) /\ Injective(s)
  /\ o.sclust = IF Len(s) = 0 THEN 0 ELSE s[1]
  /\ o.n_frag <= Len(s)
  /\ o.stat = 2 => Run(s, 1, Len(s)) /\ o.n_frag = 0
  /\ o.stat = 3 => /\ o.n_cont + 2 <= Len(s) /\ Run(s, 1, o.n_cont + 1)
                   /\ o.n_frag <= Len(s) - o.n_cont - 1
  /\ o.stat # 2 => Linked(v, s, First(o), Len(s) - Edge(o))
  /\ o.n_frag > 0 => Run(s, Len(s) - o.n_frag + 1, Len(s))
  /\ Len(s) > 0 /\ o.n_frag = 0 /\ o.stat # 2 => v.fat[s[Len(s)]] = EOC

LEMMA SeqFacts ==
  ASSUME NEW S, NEW s \in Seq(S)
  PROVE  /\ Len(s) \in Nat /\ s \in [1 .. Len(s) -> S] /\ DOMAIN s = 1 .. Len(s)
         /\ \A i \in 1 .. Len(s) : s[i] \in S
  OBVIOUS

LEMMA InjectiveSize ==
  ASSUME NEW s \in Seq(Clst), Injective(s)
  PROVE  /\ IsFiniteSet(Range(s)) /\ Cardinality(Range(s)) = Len(s)
         /\ Len(s) \in 0 .. Clusters
<1>1. IsFiniteSet(Clst) /\ Cardinality(Clst) = Clusters
  <2>1. 2 \in Int /\ Clusters + 1 \in Int /\ Clusters \in Nat /\ Clusters > 0
    BY FatAssumption
  <2> QED
    BY <2>1, FS_Interval
<1>2. s \in [1 .. Len(s) -> Clst] /\ Len(s) \in Nat
  BY SeqFacts
<1>3. Range(s) \subseteq Clst /\ s \in [1 .. Len(s) -> Range(s)]
  BY <1>2 DEF Range
<1>4. IsFiniteSet(Range(s)) /\ Cardinality(Range(s)) <= Clusters
  BY <1>1, <1>3, FS_Subset
<1>5. s \in Bijection(1 .. Len(s), Range(s))
  BY <1>2, <1>3 DEF Bijection, Injection, Surjection, Injective, IsInjective, Range
<1>6. Cardinality(Range(s)) = Len(s)
  <2>1. ExistsBijection(1 .. Len(s), Range(s))
    BY <1>5 DEF ExistsBijection
  <2> QED
    BY <1>2, <2>1, FS_CountingElements
<1> QED
  BY <1>2, <1>4, <1>6

\* A cluster that the status says is in the first fragment is.
LEMMA RunHas ==
  ASSUME NEW s \in Seq(Clst), NEW n \in 1 .. Len(s), Run(s, 1, n), Injective(s),
         NEW i \in 1 .. Len(s), s[i] >= s[1], s[i] - s[1] < n
  PROVE  i = s[i] - s[1] + 1
<1> DEFINE k == s[i] - s[1] + 1
<1>1. s[i] \in Nat /\ s[1] \in Nat
  <2>1. s[i] \in Clst /\ s[1] \in Clst /\ Clusters \in Nat
    BY FatAssumption
  <2> QED
    BY <2>1
<1>2. k \in 1 .. n /\ k \in 1 .. Len(s)
  BY <1>1
<1>3. s[k] = s[1] + (k - 1)
  BY <1>2 DEF Run
<1> HIDE DEF k
<1>4. s[k] = s[i]
  BY <1>1, <1>2, <1>3 DEF k
<1> QED
  BY <1>2, <1>4 DEF Injective, k

LEMMA ShapeFields ==
  ASSUME NEW v, NEW o \in Objects, NEW s, Shape(v, o, s)
  PROVE  /\ s \in Seq(Clst) /\ Len(s) \in Nat /\ Injective(s)
         /\ \A i \in 1 .. Len(s) : s[i] \in Clst /\ s[i] \in Nat
         /\ o.n_cont \in Nat /\ o.n_frag \in 0 .. Len(s) /\ o.stat \in {0, 2, 3}
         /\ Len(s) > 0 => o.sclust = s[1] /\ o.sclust # 0
         /\ Len(s) = 0 => o.sclust = 0
         /\ o.stat = 3 => /\ o.n_cont + 1 \in 1 .. Len(s) /\ o.n_cont + 1 < Len(s)
                          /\ o.n_frag <= Len(s) - o.n_cont - 1
<1>1. /\ s \in Seq(Clst) /\ Injective(s) /\ o.n_frag <= Len(s)
      /\ o.sclust = IF Len(s) = 0 THEN 0 ELSE s[1]
  BY DEF Shape
<1>2. o.n_cont \in Nat /\ o.n_frag \in Nat /\ o.stat \in {0, 2, 3}
  BY FatAssumption DEF Objects
<1>3. Len(s) \in Nat /\ \A i \in 1 .. Len(s) : s[i] \in Clst
  BY <1>1, SeqFacts
<1>4. \A i \in 1 .. Len(s) : s[i] \in Clst /\ s[i] \in Nat /\ s[i] # 0
  BY <1>3, FatAssumption
<1>5. o.stat = 3 => o.n_cont + 2 <= Len(s) /\ o.n_frag <= Len(s) - o.n_cont - 1
  BY DEF Shape
<1>6. o.stat = 3 => /\ o.n_cont + 1 \in 1 .. Len(s) /\ o.n_cont + 1 < Len(s)
                    /\ o.n_frag <= Len(s) - o.n_cont - 1
  BY <1>2, <1>3, <1>5
<1>7. o.n_frag \in 0 .. Len(s)
  BY <1>1, <1>2, <1>3
<1>8. Len(s) > 0 => 1 \in 1 .. Len(s)
  BY <1>3
<1> QED
  BY <1>1, <1>2, <1>3, <1>4, <1>6, <1>7, <1>8

\* The size counts all the clusters of s where the chain status needs it.
Whole(o, s) ==
  /\ o.stat = 2 => Len(s) = Count(o.size)
  /\ o.stat = 3 => o.size # 0

LEMMA WholeBySize ==
  ASSUME NEW v, NEW o \in Objects, NEW s, Shape(v, o, s), Len(s) = Count(o.size)
  PROVE  Whole(o, s)
<1> DEFINE n == o.size
           m == Len(s)
<1>1. n \in Nat /\ m = Count(n)
  BY FileAssumption DEF Objects
<1>2. m \in Nat /\ (o.stat = 3 => m > 1)
  <2> DEFINE k == o.n_cont
  <2>1. m \in Nat /\ k \in Nat /\ (o.stat = 3 => k + 1 \in 1 .. m /\ k + 1 < m)
    BY ShapeFields
  <2> HIDE DEF m, k
  <2> QED
    BY <2>1
<1> HIDE DEF n, m
<1>3. o.stat = 3 => n # 0
  BY <1>1, <1>2, CountBounds
<1> QED
  BY <1>1, <1>3 DEF Whole, n, m

\* get_fat follows the chain of an object whose links are all on the FAT or implied.
LEMMA NextOf ==
  ASSUME NEW v \in Volumes, NEW o \in Objects, Plain(v, o), NEW s, Shape(v, o, s),
         o.n_frag = 0, Whole(o, s), NEW i \in 1 .. Len(s)
  PROVE  GetFat(v, o, s[i]) = IF i < Len(s) THEN s[i + 1] ELSE EOC
<1> DEFINE c == s[i]
           after == c - o.sclust
           last == (o.size - 1) \div CSize
           m == Len(s)
           k == o.n_cont
<1>1. /\ s \in Seq(Clst) /\ Injective(s) /\ m \in Nat /\ m >= 1 /\ i \in 1 .. m
      /\ c \in Clst /\ c \in Nat /\ s[1] \in Nat /\ o.sclust = s[1] /\ o.sclust # 0
      /\ o.stat \in {0, 2, 3} /\ k \in Nat
      /\ o.stat = 3 => k + 1 \in 1 .. m /\ k + 1 < m
  <2>1. /\ s \in Seq(Clst) /\ Injective(s) /\ m \in Nat
        /\ \A j \in 1 .. m : s[j] \in Clst /\ s[j] \in Nat
        /\ m > 0 => o.sclust = s[1] /\ o.sclust # 0
        /\ o.stat \in {0, 2, 3} /\ k \in Nat
        /\ o.stat = 3 => k + 1 \in 1 .. m /\ k + 1 < m
    BY ShapeFields
  <2> HIDE DEF m, k
  <2>2. i \in 1 .. m
    BY DEF m
  <2>3. m > 0 /\ m >= 1 /\ 1 \in 1 .. m
    BY <2>1, <2>2
  <2> QED
    BY <2>1, <2>2, <2>3
<1>2. o.size \in Nat /\ (o.stat # 0 => o.size > 0)
  <2> DEFINE n == o.size
  <2>1. n \in Nat /\ (o.stat = 2 => m = Count(n)) /\ (o.stat = 3 => n # 0)
    BY FileAssumption DEF Objects, Whole
  <2> HIDE DEF n
  <2>2. o.stat \in {0, 2, 3} /\ m \in Nat /\ m >= 1
    BY <1>1 DEF m
  <2> HIDE DEF m
  <2>4. Count(0) = 0
    BY CountBounds
  <2>3. o.stat # 0 => n > 0
    BY <2>1, <2>2, <2>4
  <2> QED
    BY <2>1, <2>3 DEF n
<1>3. o.stat = 2 => last = m - 1
  <2> SUFFICES ASSUME o.stat = 2 PROVE last = m - 1
    OBVIOUS
  <2>1. m = Count(o.size) /\ o.size > 0 /\ o.size \in Nat
    BY <1>2 DEF Whole
  <2> HIDE DEF m
  <2> QED
    BY <2>1, CountBefore
<1>4. ASSUME o.stat # 2, i >= First(o) PROVE v.fat[c] = IF i < m THEN s[i + 1] ELSE EOC
  <2>1. First(o) \in Nat /\ Edge(o) = 1
    BY <1>1 DEF First, Edge
  <2>2. \A j \in First(o) .. m - 1 : v.fat[s[j]] = s[j + 1]
    BY <1>4, <2>1 DEF Shape, Linked
  <2>3. v.fat[s[m]] = EOC
    BY <1>1, <1>4 DEF Shape
  <2> HIDE DEF m
  <2> QED
    BY <1>1, <1>4, <2>1, <2>2, <2>3
<1>5. ASSUME o.stat = 2 PROVE after = i - 1 /\ (i < m => s[i + 1] = c + 1)
  <2>1. \A j \in 1 .. m : s[j] = s[1] + (j - 1)
    BY <1>5 DEF Shape, Run
  <2> HIDE DEF m
  <2>2. s[i] = s[1] + (i - 1) /\ (i + 1 <= m => s[i + 1] = s[1] + (i + 1 - 1))
    BY <1>1, <2>1
  <2> QED
    BY <1>1, <2>2
<1>6. ASSUME o.stat = 3
      PROVE  /\ i <= k => after = i - 1 /\ s[i + 1] = c + 1
             /\ c >= o.sclust /\ after < k => i <= k
  <2>1. Run(s, 1, k + 1)
    BY <1>6 DEF Shape
  <2>2. \A j \in 1 .. k + 1 : s[j] = s[1] + (j - 1)
    BY <2>1 DEF Run
  <2> DEFINE n == k + 1
  <2>3. n \in 1 .. Len(s) /\ Run(s, 1, n) /\ i \in 1 .. Len(s)
    BY <1>1, <1>6, <2>1
  <2> HIDE DEF m, k
  <2>4. i <= k => s[i] = s[1] + (i - 1) /\ s[i + 1] = s[1] + (i + 1 - 1)
    BY <1>1, <2>2
  <2> HIDE DEF n
  <2>5. c >= s[1] /\ c - s[1] < n => i = c - s[1] + 1
    BY <1>1, <2>3, RunHas
  <2>6. n = k + 1
    BY DEF n
  <2> QED
    BY <1>1, <2>4, <2>5, <2>6
<1> HIDE DEF c, after, last, m, k
<1>7. GetFat(v, o, c) =
        IF v.type = "fat32" THEN v.fat[c]
        ELSE IF o.stat = 2 /\ c >= o.sclust /\ after <= last
             THEN IF after = last THEN EOC ELSE c + 1
        ELSE IF o.stat = 3 /\ c >= o.sclust /\ after < k THEN c + 1
        ELSE IF o.stat = 2 THEN INT_ERR
        ELSE v.fat[c]
  BY <1>1, <1>2 DEF GetFat, after, last, k, Plain
<1>8. CASE o.stat = 0
  <2>1. GetFat(v, o, c) = v.fat[c] /\ i >= First(o)
    BY <1>1, <1>7, <1>8 DEF First
  <2> QED
    BY <1>4, <1>8, <2>1 DEF c, m
<1>9. CASE o.stat = 2
  <2>1. v.type # "fat32"
    BY <1>9 DEF Plain
  <2>2. c >= o.sclust /\ after <= last /\ (after = last <=> i = m)
    BY <1>1, <1>3, <1>5, <1>9 DEF after
  <2>3. GetFat(v, o, c) = IF after = last THEN EOC ELSE c + 1
    BY <1>7, <1>9, <2>1, <2>2
  <2> QED
    BY <1>1, <1>5, <1>9, <2>2, <2>3 DEF c, m
<1>10. CASE o.stat = 3
  <2>1. v.type # "fat32"
    BY <1>10 DEF Plain
  <2>2. CASE i <= k
    <3>1. c >= o.sclust /\ after < k /\ i < m
      BY <1>1, <1>6, <1>10, <2>2 DEF after
    <3>2. GetFat(v, o, c) = c + 1
      BY <1>7, <1>10, <2>1, <3>1
    <3> QED
      BY <1>6, <1>10, <2>2, <3>1, <3>2 DEF c, m
  <2>3. CASE ~(i <= k)
    <3>1. ~(c >= o.sclust /\ after < k)
      BY <1>6, <1>10, <2>3
    <3>2. i >= First(o)
      BY <1>1, <1>10, <2>3 DEF First, k
    <3>3. GetFat(v, o, c) = v.fat[c]
      BY <1>7, <1>10, <2>1, <3>1
    <3> QED
      BY <1>4, <1>10, <3>2, <3>3 DEF c, m
  <2> QED
    BY <2>2, <2>3
<1> QED
  BY <1>1, <1>8, <1>9, <1>10

\* A growing edge ends with the chain.
LEMMA NextAtEdge ==
  ASSUME NEW v \in Volumes, NEW o \in Objects, Plain(v, o), NEW s, Shape(v, o, s),
         o.n_frag > 0, Whole(o, s)
  PROVE  GetFat(v, o, s[Len(s)]) = EOC
<1> DEFINE c == s[Len(s)]
           m == Len(s)
           k == o.n_cont
           after == c - o.sclust
<1>1. /\ s \in Seq(Clst) /\ Injective(s) /\ m \in Nat /\ o.n_frag # 0
      /\ o.stat \in {0, 2, 3} /\ k \in Nat /\ m >= 1
      /\ o.stat = 3 => k + 1 \in 1 .. m /\ k + 1 < m
  <2>1. /\ s \in Seq(Clst) /\ Injective(s) /\ m \in Nat /\ o.n_frag \in 0 .. m
        /\ o.stat \in {0, 2, 3} /\ k \in Nat
        /\ o.stat = 3 => k + 1 \in 1 .. m /\ k + 1 < m
    BY ShapeFields
  <2> HIDE DEF m, k
  <2> QED
    BY <2>1
<1>2. c \in Clst /\ c \in Nat /\ o.sclust = s[1] /\ s[1] \in Nat /\ o.sclust # 0
  BY <1>1, ShapeFields
<1>3. o.stat # 2 /\ v.type # "fat32"
  BY <1>1 DEF Shape, Plain
<1>4. o.size # 0 \/ o.stat = 0
  BY <1>1, <1>3 DEF Whole
<1>5. ~(o.stat = 3 /\ c >= o.sclust /\ after < k)
  <2> SUFFICES ASSUME o.stat = 3, c >= o.sclust, after < k PROVE FALSE
    OBVIOUS
  <2> DEFINE n == k + 1
             j == m
  <2>1. Run(s, 1, n)
    BY DEF Shape
  <2>2. n \in 1 .. Len(s) /\ j \in 1 .. Len(s) /\ n < j /\ s[j] = c /\ n = k + 1
    BY <1>1
  <2> HIDE DEF n, j
  <2>3. c >= s[1] /\ c - s[1] < n
    BY <1>1, <1>2, <2>2
  <2> HIDE DEF c, m, k
  <2>4. j = c - s[1] + 1
    BY <1>1, <2>1, <2>2, <2>3, RunHas
  <2> QED
    BY <1>2, <2>2, <2>3, <2>4
<1> HIDE DEF c, k
<1>6. GetFat(v, o, c) = EOC
  BY <1>1, <1>2, <1>3, <1>4, <1>5 DEF GetFat, k
<1> QED
  BY <1>6 DEF c

\* A chain that get_fat follows to its end is what Walk meets.
LEMMA WalkChain ==
  ASSUME NEW v, NEW o, NEW s \in Seq(Clst), Injective(s), Len(s) > 0,
         \A i \in 1 .. Len(s) : GetFat(v, o, s[i]) = IF i < Len(s) THEN s[i + 1] ELSE EOC
  PROVE  Walk(v, o, s[1]) = s
<1>1. Len(s) \in 1 .. Clusters + 1 /\ Len(s) \in 1 .. Len(s)
  <2>1. Len(s) \in 0 .. Clusters
    BY InjectiveSize
  <2> QED
    BY <2>1, FatAssumption
<1>2. \A i \in 1 .. Len(s) - 1 : GetFat(v, o, s[i]) = s[i + 1]
  <2> DEFINE m == Len(s)
             G(i) == GetFat(v, o, s[i])
  <2>1. m \in Nat /\ \A i \in 1 .. m : G(i) = IF i < m THEN s[i + 1] ELSE EOC
    BY SeqFacts
  <2> HIDE DEF m, G
  <2>2. \A i \in 1 .. m - 1 : G(i) = s[i + 1]
    BY <2>1
  <2> QED
    BY <2>2 DEF m, G
<1>3. GetFat(v, o, s[Len(s)]) \notin Clst
  <2>1. GetFat(v, o, s[Len(s)]) = EOC
    BY <1>1
  <2> QED
    BY <2>1, FatAssumption
<1> QED
  BY <1>1, <1>2, <1>3, WalkFollows

\* An object whose links are all on the FAT or implied is found as it was given.
LEMMA FoundAs ==
  ASSUME NEW v \in Volumes, NEW o \in Objects, Plain(v, o), NEW s, Shape(v, o, s),
         o.n_frag = 0, Whole(o, s)
  PROVE  ChainOf(v, o) = s
<1>1. /\ s \in Seq(Clst) /\ Injective(s) /\ Len(s) \in Nat
      /\ Len(s) > 0 => o.sclust = s[1] /\ o.sclust # 0
      /\ Len(s) = 0 => o.sclust = 0
  BY ShapeFields
<1>2. \A i \in 1 .. Len(s) : GetFat(v, o, s[i]) = IF i < Len(s) THEN s[i + 1] ELSE EOC
  BY NextOf
<1>3. CASE Len(s) = 0
  <2>1. s = <<>>
    BY <1>1, <1>3
  <2>2. o.sclust \notin Clst
    BY <1>1, <1>3
  <2> QED
    BY <2>1, <2>2 DEF ChainOf
<1>4. CASE Len(s) > 0
  <2>1. Walk(v, o, s[1]) = s
    BY <1>1, <1>2, <1>4, WalkChain
  <2>2. o.sclust = s[1] /\ s[1] \in Clst
    <3>1. 1 \in 1 .. Len(s)
      BY <1>1, <1>4
    <3> QED
      BY <1>1, <1>4, <3>1, SeqFacts
  <2> QED
    BY <2>1, <2>2 DEF ChainOf
<1> QED
  BY <1>1, <1>3, <1>4

-----------------------------------------------------------------------------
\* Who has which clusters

FreeKnown(v) == v.free # UNKNOWN => v.free = CountFree(v)

\* The clusters in use are those of the files, each in one file, and their
\* number is known if it is.
Owned(v, ch) ==
  /\ \A c \in Clst : ~IsFree(v, c) <=> \E f \in Files : c \in Range(ch[f])
  /\ \A f, g \in Files, c \in Clst : c \in Range(ch[f]) /\ c \in Range(ch[g]) => f = g
  /\ FreeKnown(v)

\* From v to w a file got the clusters t in place of s: no other cluster is
\* touched, and what it gave up is free.
Rechained(v, w, s, t) ==
  /\ w.type = v.type
  /\ \A c \in Clst : c \notin Range(s) /\ c \notin Range(t) => w.fat[c] = v.fat[c]
  /\ \A c \in Clst : IsFree(w, c) <=> c \notin Range(t) /\ (IsFree(v, c) \/ c \in Range(s))
  /\ \A c \in Clst : c \in Range(t) => c \in Range(s) \/ IsFree(v, c)
  /\ FreeKnown(v) => FreeKnown(w)

LEMMA RangeIs ==
  ASSUME NEW S, NEW s \in Seq(S)
  PROVE  /\ Range(s) \subseteq S
         /\ \A i \in 1 .. Len(s) : s[i] \in Range(s)
         /\ \A c : c \in Range(s) <=> \E i \in 1 .. Len(s) : s[i] = c
  BY SeqFacts DEF Range

\* A file that was not touched keeps its shape.
LEMMA ShapeStays ==
  ASSUME NEW v, NEW w, NEW o \in Objects, NEW s, Shape(v, o, s),
         \A c \in Range(s) : w.fat[c] = v.fat[c]
  PROVE  Shape(w, o, s)
<1> DEFINE m == Len(s)
           a == First(o)
           b == m - Edge(o)
<1>1. /\ s \in Seq(Clst) /\ m \in Nat /\ o.n_frag \in 0 .. m /\ o.n_cont \in Nat
      /\ o.stat = 3 => o.n_cont + 1 \in 1 .. m
  BY ShapeFields
<1>2. \A i \in 1 .. m : w.fat[s[i]] = v.fat[s[i]]
  BY <1>1, RangeIs
<1>3. a \in Nat /\ a >= 1 /\ b \in Int /\ b < m
  BY <1>1 DEF First, Edge
<1>4. o.stat # 2 => Linked(w, s, a, b)
  <2>1. o.stat # 2 => \A i \in a .. b : v.fat[s[i]] = s[i + 1]
    BY DEF Shape, Linked
  <2> HIDE DEF a, b, m
  <2>2. \A i \in a .. b : i \in 1 .. m
    BY <1>1, <1>3
  <2> QED
    BY <1>2, <2>1, <2>2 DEF Linked
<1>5. m > 0 /\ o.n_frag = 0 /\ o.stat # 2 => w.fat[s[m]] = EOC
  <2>1. m > 0 /\ o.n_frag = 0 /\ o.stat # 2 => v.fat[s[m]] = EOC
    BY DEF Shape
  <2>2. m > 0 => m \in 1 .. m
    BY <1>1
  <2> HIDE DEF m
  <2> QED
    BY <1>2, <2>1, <2>2
<1> QED
  BY <1>4, <1>5, Zenon DEF Shape

LEMMA OwnedMoves ==
  ASSUME NEW v, NEW w, NEW ch \in [Files -> Seq(Clst)], Owned(v, ch), NEW f \in Files,
         NEW t \in Seq(Clst), Rechained(v, w, ch[f], t)
  PROVE  Owned(w, [ch EXCEPT ![f] = t])
<1> DEFINE d == [ch EXCEPT ![f] = t]
<1>1. d[f] = t /\ \A g \in Files : g # f => d[g] = ch[g]
  OBVIOUS
<1>2. \A g \in Files : Range(ch[g]) \subseteq Clst
  BY RangeIs
<1>3. Range(t) \subseteq Clst
  BY RangeIs
<1> HIDE DEF d
<1>4. ASSUME NEW c \in Clst PROVE ~IsFree(w, c) <=> \E g \in Files : c \in Range(d[g])
  <2>1. ~IsFree(v, c) <=> \E g \in Files : c \in Range(ch[g])
    BY DEF Owned
  <2>2. \A g \in Files : c \in Range(ch[f]) /\ c \in Range(ch[g]) => f = g
    BY DEF Owned
  <2>3. IsFree(w, c) <=> c \notin Range(t) /\ (IsFree(v, c) \/ c \in Range(ch[f]))
    BY DEF Rechained
  <2> QED
    BY <1>1, <2>1, <2>2, <2>3
<1>5. ASSUME NEW c \in Clst, NEW g \in Files, NEW h \in Files, c \in Range(d[g]), c \in Range(d[h])
      PROVE  g = h
  <2>1. ~IsFree(v, c) <=> \E k \in Files : c \in Range(ch[k])
    BY DEF Owned
  <2>2. \A k, l \in Files : c \in Range(ch[k]) /\ c \in Range(ch[l]) => k = l
    BY DEF Owned
  <2>3. c \in Range(t) => c \in Range(ch[f]) \/ IsFree(v, c)
    BY DEF Rechained
  <2> QED
    BY <1>1, <1>5, <2>1, <2>2, <2>3
<1>6. FreeKnown(w)
  BY DEF Owned, Rechained
<1> QED
  BY <1>4, <1>5, <1>6 DEF Owned, d

\* The clusters that a file got were not those of another.
LEMMA OthersStay ==
  ASSUME NEW v, NEW w, NEW ch \in [Files -> Seq(Clst)], Owned(v, ch), NEW f \in Files,
         NEW t \in Seq(Clst), Rechained(v, w, ch[f], t),
         NEW g \in Files, g # f, NEW o \in Objects, Shape(v, o, ch[g])
  PROVE  Shape(w, o, ch[g])
<1>1. ASSUME NEW c \in Range(ch[g]) PROVE w.fat[c] = v.fat[c]
  <2>1. c \in Clst
    BY RangeIs
  <2>2. ~IsFree(v, c)
    BY <1>1, <2>1 DEF Owned
  <2>3. c \notin Range(ch[f])
    BY <1>1, <2>1 DEF Owned
  <2>4. c \notin Range(t)
    BY <2>1, <2>2, <2>3 DEF Rechained
  <2> QED
    BY <2>1, <2>3, <2>4 DEF Rechained
<1> QED
  BY <1>1, ShapeStays

-----------------------------------------------------------------------------
\* create_chain at the end of a chain

\* The clusters of s are in use.
Taken(v, s) == \A c \in Clst : c \in Range(s) => ~IsFree(v, c)

\* An object that gets its first cluster
Named(o, c) == IF o.sclust = 0 THEN [o EXCEPT !.sclust = c] ELSE o

LEMMA NamedType ==
  ASSUME NEW o \in Objects, NEW c \in Clst
  PROVE  LET p == Named(o, c)
         IN  /\ p \in Objects /\ p.sclust = IF o.sclust = 0 THEN c ELSE o.sclust
             /\ p.size = o.size /\ p.stat = o.stat /\ p.n_cont = o.n_cont /\ p.n_frag = o.n_frag
  BY DEF Named, Objects

LEMMA AppendIs ==
  ASSUME NEW s \in Seq(Clst), Injective(s), NEW c \in Clst, c \notin Range(s)
  PROVE  LET t == Append(s, c)
         IN  /\ t \in Seq(Clst) /\ Injective(t) /\ Len(t) = Len(s) + 1
             /\ Len(s) \in Nat /\ t[Len(s) + 1] = c /\ \A i \in 1 .. Len(s) : t[i] = s[i]
             /\ \A d : d \in Range(t) <=> d \in Range(s) \/ d = c
<1> DEFINE t == Append(s, c)
           m == Len(s)
<1>1. t \in Seq(Clst) /\ Len(t) = m + 1 /\ m \in Nat /\ t[m + 1] = c
      /\ \A i \in 1 .. m : t[i] = s[i]
  BY AppendProperties
<1>2. \A i \in 1 .. m : s[i] # c
  BY RangeIs
<1>3. \A i, j \in 1 .. m : s[i] = s[j] => i = j
  BY DEF Injective
<1>4. \A d : d \in Range(t) <=> \E i \in 1 .. Len(t) : t[i] = d
  <2>1. t \in Seq(Clst)
    BY <1>1
  <2> HIDE DEF t
  <2> QED
    BY <2>1, RangeIs
<1>5. \A d : d \in Range(s) <=> \E i \in 1 .. m : s[i] = d
  BY RangeIs
<1> HIDE DEF t, m
<1>6. \A i \in 1 .. m + 1 : i \in 1 .. m \/ i = m + 1
  BY <1>1
<1>7. \A i, j \in 1 .. m + 1 : t[i] = t[j] => i = j
  BY <1>1, <1>2, <1>3, <1>6
<1>8. \A d : d \in Range(t) <=> d \in Range(s) \/ d = c
  <2>1. m + 1 \in 1 .. m + 1 /\ \A i \in 1 .. m : i \in 1 .. m + 1
    BY <1>1
  <2> QED
    BY <1>1, <1>4, <1>5, <1>6, <2>1
<1> QED
  BY <1>1, <1>7, <1>8 DEF Injective, t, m

\* A contiguous chain goes on.
LEMMA AppendRun ==
  ASSUME NEW v, NEW w, NEW o \in Objects, NEW p \in Objects, NEW s, Shape(v, o, s),
         NEW c \in Clst, c \notin Range(s),
         p.sclust = IF Len(s) = 0 THEN c ELSE o.sclust, p.stat = 2, p.n_frag = 0,
         Len(s) > 0 => o.stat = 2 /\ c = s[Len(s)] + 1
  PROVE  Shape(w, p, Append(s, c))
<1> DEFINE t == Append(s, c)
           m == Len(s)
<1>1. s \in Seq(Clst) /\ Injective(s) /\ m \in Nat /\ (m > 0 => o.sclust = s[1])
  BY ShapeFields
<1>2. /\ t \in Seq(Clst) /\ Injective(t) /\ Len(t) = m + 1
      /\ t[m + 1] = c /\ \A i \in 1 .. m : t[i] = s[i]
  BY <1>1, AppendIs
<1>3. m > 0 => \A i \in 1 .. m : s[i] = s[1] + (i - 1)
  BY DEF Shape, Run
<1>4. \A i \in 1 .. m : s[i] \in Nat
  BY ShapeFields
<1>5. m > 0 => c = s[m] + 1
  OBVIOUS
<1>6. p.sclust = IF m = 0 THEN c ELSE o.sclust
  OBVIOUS
<1>7. c \in Nat
  BY FatAssumption
<1> HIDE DEF t, m
<1>8. \A i \in 1 .. m + 1 : t[i] = t[1] + (i - 1)
  <2>1. CASE m = 0
    BY <1>2, <1>7, <2>1
  <2>2. CASE m > 0
    <3>1. 1 \in 1 .. m /\ m \in 1 .. m
      BY <1>1, <2>2
    <3>2. s[1] \in Nat /\ t[1] = s[1] /\ c = s[1] + (m + 1 - 1)
      BY <1>1, <1>2, <1>3, <1>4, <1>5, <2>2, <3>1
    <3>3. ASSUME NEW i \in 1 .. m + 1 PROVE t[i] = t[1] + (i - 1)
      <4>1. CASE i \in 1 .. m
        BY <1>2, <1>3, <2>2, <3>2, <4>1
      <4>2. CASE i \notin 1 .. m
        <5>1. i = m + 1
          BY <1>1, <4>2
        <5> QED
          BY <1>1, <1>2, <3>2, <5>1
      <4> QED
        BY <4>1, <4>2
    <3> QED
      BY <3>3
  <2> QED
    BY <1>1, <2>1, <2>2
<1>9. p.sclust = t[1]
  BY <1>1, <1>2, <1>6
<1>10. Run(t, 1, Len(t))
  BY <1>2, <1>8 DEF Run
<1>11. Len(t) # 0 /\ Len(t) >= 0
  BY <1>1, <1>2
<1> QED
  BY <1>2, <1>9, <1>10, <1>11 DEF Shape, t

\* The links of a chain up to the new cluster are on the FAT.
LEMMA AppendLinked ==
  ASSUME NEW v, NEW w, NEW o \in Objects, NEW p \in Objects, NEW s, Shape(v, o, s),
         NEW c \in Clst, c \notin Range(s),
         p.sclust = IF Len(s) = 0 THEN c ELSE o.sclust, p.stat # 2, p.n_frag \in {0, 1},
         p.stat = 3 => p.n_cont + 1 <= Len(s) /\ Run(s, 1, p.n_cont + 1),
         \A i \in First(p) .. Len(s) : w.fat[s[i]] = IF i < Len(s) THEN s[i + 1] ELSE c,
         p.n_frag = 0 => w.fat[c] = EOC
  PROVE  Shape(w, p, Append(s, c))
<1> DEFINE t == Append(s, c)
           m == Len(s)
           k == p.n_cont
           a == First(p)
<1>1. s \in Seq(Clst) /\ Injective(s) /\ m \in Nat /\ (m > 0 => o.sclust = s[1])
  BY ShapeFields
<1>2. /\ t \in Seq(Clst) /\ Injective(t) /\ Len(t) = m + 1
      /\ t[m + 1] = c /\ \A i \in 1 .. m : t[i] = s[i]
  BY <1>1, AppendIs
<1>3. k \in Nat /\ a \in Nat /\ a >= 1 /\ Edge(p) = 1
  BY FatAssumption DEF Objects, First, Edge
<1>4. /\ p.stat = 3 => k + 1 <= m
      /\ p.stat = 3 => \A i \in 1 .. k + 1 : s[i] = s[1] + (i - 1)
      /\ \A i \in a .. m : w.fat[s[i]] = IF i < m THEN s[i + 1] ELSE c
      /\ p.sclust = IF m = 0 THEN c ELSE o.sclust
  BY DEF Run
<1> HIDE DEF t, m, k, a
<1>5. p.sclust = t[1]
  BY <1>1, <1>2, <1>4
<1>6. p.stat = 3 => /\ k + 2 <= Len(t) /\ Run(t, 1, k + 1) /\ p.n_frag <= Len(t) - k - 1
  <2> SUFFICES ASSUME p.stat = 3
               PROVE  k + 2 <= Len(t) /\ Run(t, 1, k + 1) /\ p.n_frag <= Len(t) - k - 1
    OBVIOUS
  <2>1. \A i \in 1 .. k + 1 : t[i] = s[i]
    BY <1>1, <1>2, <1>3, <1>4
  <2>2. 1 \in 1 .. k + 1
    BY <1>3
  <2>3. \A i \in 1 .. k + 1 : t[i] = t[1] + (i - 1)
    BY <1>4, <2>1, <2>2
  <2>4. k + 2 <= Len(t) /\ p.n_frag <= Len(t) - k - 1
    BY <1>1, <1>2, <1>3, <1>4
  <2>5. Run(t, 1, k + 1)
    BY <2>3 DEF Run
  <2> QED
    BY <2>4, <2>5
<1>7. Linked(w, t, a, Len(t) - Edge(p))
  <2>1. ASSUME NEW i \in a .. m PROVE w.fat[t[i]] = t[i + 1]
    <3>1. i \in 1 .. m /\ t[i] = s[i]
      BY <1>1, <1>2, <1>3
    <3>2. CASE i < m
      <4>1. i + 1 \in 1 .. m
        BY <1>1, <3>1, <3>2
      <4> QED
        BY <1>2, <1>4, <3>1, <3>2, <4>1
    <3>3. CASE ~(i < m)
      <4>1. i = m
        BY <1>1, <3>1, <3>3
      <4> QED
        BY <1>2, <1>4, <3>1, <3>3, <4>1
    <3> QED
      BY <3>2, <3>3
  <2>2. Len(t) - Edge(p) = m
    BY <1>1, <1>2, <1>3
  <2> QED
    BY <2>1, <2>2 DEF Linked
<1>8. Run(t, Len(t) - p.n_frag + 1, Len(t)) \/ p.n_frag = 0
  <2>1. p.n_frag = 1 => Len(t) - p.n_frag + 1 = m + 1 /\ Len(t) = m + 1
    BY <1>1, <1>2
  <2>2. Run(t, m + 1, m + 1)
    <3>1. t[m + 1] = t[m + 1] + (m + 1 - (m + 1))
      BY <1>1, <1>2, FatAssumption
    <3>2. \A i \in m + 1 .. m + 1 : i = m + 1
      BY <1>1
    <3>3. \A i \in m + 1 .. m + 1 : t[i] = t[m + 1] + (i - (m + 1))
      BY <1>1, <3>1, <3>2
    <3> QED
      BY <3>3 DEF Run
  <2> QED
    BY <2>1, <2>2
<1>9. Len(t) # 0 /\ p.n_frag <= Len(t) /\ w.fat[t[Len(t)]] = w.fat[c]
  BY <1>1, <1>2
<1>10. p.stat = 3 => /\ p.n_cont + 2 <= Len(t) /\ Run(t, 1, p.n_cont + 1)
                     /\ p.n_frag <= Len(t) - p.n_cont - 1
  BY <1>6 DEF k
<1>11. Linked(w, t, First(p), Len(t) - Edge(p))
  BY <1>7 DEF a
<1>12. p.n_frag > 0 => Run(t, Len(t) - p.n_frag + 1, Len(t))
  BY <1>8
<1> QED
  <2>1. p.sclust = IF Len(t) = 0 THEN 0 ELSE t[1]
    BY <1>5, <1>9
  <2>2. Len(t) > 0 /\ p.n_frag = 0 /\ p.stat # 2 => w.fat[t[Len(t)]] = EOC
    BY <1>9
  <2> QED
    BY <1>2, <1>9, <1>10, <1>11, <1>12, <2>1, <2>2, Zenon DEF Shape, t

\* The growing edge grows, or a chain on the FAT gets one.
LEMMA AppendEdge ==
  ASSUME NEW v, NEW w, NEW o \in Objects, NEW p \in Objects, NEW s, Shape(v, o, s),
         NEW c \in Clst, c \notin Range(s), Len(s) > 0, c = s[Len(s)] + 1,
         p.sclust = o.sclust, p.stat = o.stat, p.n_cont = o.n_cont, o.stat # 2,
         p.n_frag = IF o.n_frag = 0 THEN 2 ELSE o.n_frag + 1,
         \A d \in Range(s) : w.fat[d] = v.fat[d]
  PROVE  Shape(w, p, Append(s, c))
<1> DEFINE t == Append(s, c)
           m == Len(s)
           k == o.n_cont
           a == First(o)
           e == Edge(o)
<1>1. /\ s \in Seq(Clst) /\ Injective(s) /\ m \in Nat /\ m > 0 /\ o.sclust = s[1]
      /\ o.n_frag \in 0 .. m /\ k \in Nat
      /\ o.stat = 3 => k + 1 \in 1 .. m /\ k + 1 < m /\ o.n_frag <= m - k - 1
  BY ShapeFields
<1>2. /\ t \in Seq(Clst) /\ Injective(t) /\ Len(t) = m + 1
      /\ t[m + 1] = c /\ \A i \in 1 .. m : t[i] = s[i]
  BY <1>1, AppendIs
<1>3. /\ a \in Nat /\ a >= 1 /\ e \in Nat /\ e >= 1 /\ First(p) = a
      /\ e = IF o.n_frag = 0 THEN 1 ELSE o.n_frag
      /\ p.n_frag = e + 1 /\ Edge(p) = e + 1
  BY <1>1 DEF First, Edge
<1>4. /\ o.stat = 3 => \A i \in 1 .. k + 1 : s[i] = s[1] + (i - 1)
      /\ \A i \in a .. m - e : v.fat[s[i]] = s[i + 1]
      /\ o.n_frag > 0 => \A i \in m - o.n_frag + 1 .. m : s[i] = s[m - o.n_frag + 1] + (i - (m - o.n_frag + 1))
  BY DEF Shape, Linked, Run
<1>5. \A i \in 1 .. m : w.fat[s[i]] = v.fat[s[i]]
  BY <1>1, RangeIs
<1>6. \A i \in 1 .. m : s[i] \in Nat
  BY ShapeFields
<1>7. c = s[m] + 1 /\ c \in Nat
  BY FatAssumption
<1> HIDE DEF t, m, k, a, e
<1>8. p.sclust = t[1]
  <2>1. 1 \in 1 .. m
    BY <1>1
  <2> QED
    BY <1>1, <1>2, <2>1
<1>9. p.stat = 3 => /\ k + 2 <= Len(t) /\ Run(t, 1, k + 1) /\ p.n_frag <= Len(t) - k - 1
  <2> SUFFICES ASSUME p.stat = 3
               PROVE  k + 2 <= Len(t) /\ Run(t, 1, k + 1) /\ p.n_frag <= Len(t) - k - 1
    OBVIOUS
  <2>1. \A i \in 1 .. k + 1 : t[i] = s[i]
    BY <1>1, <1>2
  <2>2. 1 \in 1 .. k + 1
    BY <1>1
  <2>3. \A i \in 1 .. k + 1 : t[i] = t[1] + (i - 1)
    BY <1>4, <2>1, <2>2
  <2>4. k + 2 <= Len(t) /\ p.n_frag <= Len(t) - k - 1
    BY <1>1, <1>2, <1>3
  <2>5. Run(t, 1, k + 1)
    BY <2>3 DEF Run
  <2> QED
    BY <2>4, <2>5
<1>10. Linked(w, t, First(p), Len(t) - Edge(p))
  <2>1. ASSUME NEW i \in a .. m - e PROVE w.fat[t[i]] = t[i + 1]
    <3>1. i \in 1 .. m /\ i + 1 \in 1 .. m
      BY <1>1, <1>3
    <3> QED
      BY <1>2, <1>4, <1>5, <3>1
  <2>2. Len(t) - Edge(p) = m - e
    BY <1>1, <1>2, <1>3
  <2> QED
    BY <1>3, <2>1, <2>2 DEF Linked
<1>11. Run(t, Len(t) - p.n_frag + 1, Len(t))
  <2> DEFINE b == m - e + 1
  <2>1. b \in 1 .. m /\ Len(t) - p.n_frag + 1 = b /\ Len(t) = m + 1
    <3>1. e \in 1 .. m
      BY <1>1, <1>3
    <3> DEFINE n == Len(t)
               q == p.n_frag
    <3>2. n = m + 1 /\ q = e + 1
      BY <1>2, <1>3
    <3> HIDE DEF n, q
    <3>3. b \in 1 .. m /\ n - q + 1 = b
      BY <1>1, <3>1, <3>2
    <3> QED
      BY <3>2, <3>3 DEF n, q
  <2>2. \A i \in b .. m : s[i] = s[b] + (i - b)
    <3>1. CASE o.n_frag = 0
      <4>1. b = m
        BY <1>1, <1>3, <3>1
      <4>2. \A i \in m .. m : i = m /\ s[m] = s[m] + (m - m)
        BY <1>1, <1>6
      <4> QED
        BY <4>1, <4>2
    <3>2. CASE o.n_frag > 0
      BY <1>3, <1>4, <3>2
    <3> QED
      BY <1>1, <3>1, <3>2
  <2> HIDE DEF b
  <2>3. m \in b .. m /\ s[b] \in Nat /\ t[b] = s[b]
    BY <1>1, <1>2, <1>6, <2>1
  <2>4. c = t[b] + (m + 1 - b)
    <3>1. s[m] = s[b] + (m - b)
      BY <2>2, <2>3
    <3>2. m \in Nat /\ b \in Nat
      BY <1>1, <2>1
    <3> QED
      BY <1>7, <2>3, <3>1, <3>2
  <2>5. ASSUME NEW i \in b .. m + 1 PROVE t[i] = t[b] + (i - b)
    <3>1. CASE i \in b .. m
      <4>1. i \in 1 .. m
        BY <1>1, <2>1, <3>1
      <4> QED
        BY <1>2, <2>2, <2>3, <3>1, <4>1
    <3>2. CASE i \notin b .. m
      <4>1. i = m + 1
        BY <1>1, <2>1, <3>2
      <4>2. i - b = m + 1 - b
        BY <1>1, <2>1, <4>1
      <4> QED
        BY <1>2, <2>4, <4>1, <4>2
    <3> QED
      BY <3>1, <3>2
  <2> QED
    BY <2>1, <2>5 DEF Run
<1>12. Len(t) # 0 /\ p.n_frag <= Len(t) /\ p.n_frag # 0
  BY <1>1, <1>2, <1>3
<1>13. p.stat = 3 => /\ p.n_cont + 2 <= Len(t) /\ Run(t, 1, p.n_cont + 1)
                     /\ p.n_frag <= Len(t) - p.n_cont - 1
  BY <1>9 DEF k
<1> QED
  <2>1. p.sclust = IF Len(t) = 0 THEN 0 ELSE t[1]
    BY <1>8, <1>12
  <2> QED
    BY <1>2, <1>10, <1>11, <1>12, <1>13, <2>1, Zenon DEF Shape, t

LEMMA CountOneLess ==
  ASSUME NEW v \in Volumes, NEW w \in Volumes, NEW c \in Clst, IsFree(v, c),
         \A d \in Clst : IsFree(w, d) <=> IsFree(v, d) /\ d # c
  PROVE  /\ CountFree(v) \in Nat /\ CountFree(w) = CountFree(v) - 1
<1> DEFINE S == {d \in Clst : IsFree(v, d)}
           T == {d \in Clst : IsFree(w, d)}
<1>1. T = S \ {c} /\ c \in S
  OBVIOUS
<1>2. IsFiniteSet(S)
  <2>1. IsFiniteSet(Clst)
    <3>1. 2 \in Int /\ Clusters + 1 \in Int
      BY FatAssumption
    <3> QED
      BY <3>1, FS_Interval
  <2>2. S \subseteq Clst
    OBVIOUS
  <2> HIDE DEF S
  <2> QED
    BY <2>1, <2>2, FS_Subset
<1>3. CountFree(v) = Cardinality(S) /\ CountFree(w) = Cardinality(T)
  BY DEF CountFree
<1> HIDE DEF S, T
<1>4. Cardinality(T) = Cardinality(S) - 1
  BY <1>1, <1>2, FS_RemoveElement
<1>5. Cardinality(S) \in Nat
  BY <1>2, FS_CardinalityType
<1> QED
  BY <1>3, <1>4, <1>5

\* One more cluster for a chain
LEMMA TakenOne ==
  ASSUME NEW v \in Volumes, NEW w \in Volumes, NEW s \in Seq(Clst), Injective(s), Taken(v, s),
         NEW c \in Clst, IsFree(v, c), w.type = v.type,
         \A d \in Clst : d \notin Range(s) /\ d # c => w.fat[d] = v.fat[d],
         \A d \in Clst : IsFree(w, d) <=> IsFree(v, d) /\ d # c,
         v.free # 0, w.free = IF v.free = UNKNOWN THEN UNKNOWN ELSE v.free - 1
  PROVE  c \notin Range(s) /\ Rechained(v, w, s, Append(s, c))
<1> DEFINE t == Append(s, c)
<1>1. c \notin Range(s)
  BY DEF Taken
<1>2. \A d : d \in Range(t) <=> d \in Range(s) \/ d = c
  BY <1>1, AppendIs
<1>3. CountFree(v) \in Nat /\ CountFree(w) = CountFree(v) - 1
  BY CountOneLess
<1>4. v.free \in 0 .. Clusters \cup {UNKNOWN} /\ Clusters \in Nat
  BY FatAssumption DEF Volumes
<1>5. FreeKnown(v) => FreeKnown(w)
  BY <1>3, <1>4 DEF FreeKnown
<1> HIDE DEF t
<1>6. \A d \in Clst : d \in Range(s) => ~IsFree(v, d)
  BY DEF Taken
<1>7. \A d \in Clst : IsFree(w, d) <=> d \notin Range(t) /\ (IsFree(v, d) \/ d \in Range(s))
  BY <1>2, <1>6
<1>8. \A d \in Clst : d \notin Range(s) /\ d \notin Range(t) => w.fat[d] = v.fat[d]
  BY <1>2
<1>9. \A d \in Clst : d \in Range(t) => d \in Range(s) \/ IsFree(v, d)
  BY <1>2
<1> QED
  BY <1>1, <1>5, <1>7, <1>8, <1>9 DEF Rechained, t

\* The clusters of a contiguous piece, and no others, are in its interval.
LEMMA RunAt ==
  ASSUME NEW s \in Seq(Clst), Injective(s), NEW a \in 1 .. Len(s), NEW n \in Nat,
         a + n - 1 <= Len(s), Run(s, a, a + n - 1), NEW i \in 1 .. Len(s)
  PROVE  s[i] >= s[a] /\ s[i] < s[a] + n <=> i \in a .. a + n - 1
<1> DEFINE m == Len(s)
           j == a + (s[i] - s[a])
<1>1. m \in Nat /\ a \in 1 .. m /\ i \in 1 .. m /\ a + n - 1 <= m
  BY SeqFacts
<1>2. s[i] \in Nat /\ s[a] \in Nat
  <2>1. s[i] \in Clst /\ s[a] \in Clst
    BY SeqFacts
  <2>2. Clst \subseteq Nat
    BY FatAssumption
  <2> QED
    BY <2>1, <2>2
<1>3. \A k \in a .. a + n - 1 : s[k] = s[a] + (k - a)
  BY DEF Run
<1>4. \A k \in 1 .. m : s[k] = s[i] => k = i
  BY DEF Injective
<1> HIDE DEF m
<1>5. ASSUME i \in a .. a + n - 1 PROVE s[i] >= s[a] /\ s[i] < s[a] + n
  <2>1. s[i] = s[a] + (i - a)
    BY <1>3, <1>5
  <2> QED
    BY <1>1, <1>2, <1>5, <2>1
<1>6. ASSUME s[i] >= s[a], s[i] < s[a] + n PROVE i \in a .. a + n - 1
  <2>1. j \in a .. a + n - 1 /\ j \in 1 .. m /\ j - a = s[i] - s[a]
    BY <1>1, <1>2, <1>6
  <2> HIDE DEF j
  <2>2. s[j] = s[a] + (j - a)
    BY <1>3, <2>1
  <2>3. s[j] = s[i]
    BY <1>2, <2>1, <2>2
  <2> QED
    BY <1>4, <2>1, <2>3
<1> QED
  BY <1>5, <1>6

LEMMA PutRunFat ==
  ASSUME NEW v \in Volumes, NEW a, NEW n, NEW m, NEW term
  PROVE  \A d \in Clst : PutRun(v, a, n, m, term).fat[d] =
           IF d < a \/ d >= a + n THEN v.fat[d] ELSE IF d = a + m - 1 THEN term ELSE d + 1
<1> DEFINE F == [c \in Clst |-> IF c < a \/ c >= a + n THEN v.fat[c]
                                ELSE IF c = a + m - 1 THEN term ELSE c + 1]
<1>1. PutRun(v, a, n, m, term).fat = F
  BY DEF PutRun, Volumes
<1> QED
  BY <1>1

\* In w n links of s from a on have been put, the one of the m-th of them to term.
RunLinked(v, w, s, a, n, m, term) ==
  /\ \A i \in 1 .. Len(s) :
       w.fat[s[i]] = IF i \in a .. a + n - 1 THEN IF i = a + m - 1 THEN term ELSE s[i] + 1
                     ELSE v.fat[s[i]]
  /\ \A d \in Clst : d \notin Range(s) => w.fat[d] = v.fat[d]

LEMMA RunPut ==
  ASSUME NEW v \in Volumes, NEW s \in Seq(Clst), Injective(s), NEW a \in 1 .. Len(s),
         NEW n \in Nat, a + n - 1 <= Len(s), Run(s, a, a + n - 1), NEW m \in Nat, NEW term
  PROVE  RunLinked(v, PutRun(v, s[a], n, m, term), s, a, n, m, term)
<1> DEFINE w == PutRun(v, s[a], n, m, term)
<1>1. \A d \in Clst : w.fat[d] = IF d < s[a] \/ d >= s[a] + n THEN v.fat[d]
                                 ELSE IF d = s[a] + m - 1 THEN term ELSE d + 1
  BY PutRunFat
<1>2. \A k \in 1 .. Len(s) : s[k] \in Clst /\ s[k] \in Nat
  <2>1. \A k \in 1 .. Len(s) : s[k] \in Clst
    BY SeqFacts
  <2> QED
    BY <2>1, FatAssumption
<1>3. \A k \in a .. a + n - 1 : s[k] = s[a] + (k - a)
  BY DEF Run
<1>4. s[a] \in Nat
  BY <1>2
<1> HIDE DEF w
<1>5. ASSUME NEW i \in 1 .. Len(s)
      PROVE  w.fat[s[i]] = IF i \in a .. a + n - 1
                           THEN IF i = a + m - 1 THEN term ELSE s[i] + 1
                           ELSE v.fat[s[i]]
  <2>1. s[i] >= s[a] /\ s[i] < s[a] + n <=> i \in a .. a + n - 1
    BY RunAt
  <2>2. s[i] \in Clst /\ s[i] \in Nat
    BY <1>2
  <2>3. CASE i \in a .. a + n - 1
    <3>1. s[i] = s[a] + (i - a)
      BY <1>3, <2>3
    <3>2. s[i] = s[a] + m - 1 <=> i = a + m - 1
      BY <1>4, <2>2, <3>1
    <3>3. ~(s[i] < s[a] \/ s[i] >= s[a] + n)
      BY <1>4, <2>1, <2>2, <2>3
    <3>4. w.fat[s[i]] = IF s[i] = s[a] + m - 1 THEN term ELSE s[i] + 1
      BY <1>1, <2>2, <3>3
    <3> QED
      BY <2>3, <3>2, <3>4
  <2>4. CASE i \notin a .. a + n - 1
    BY <1>1, <1>4, <2>1, <2>2, <2>4
  <2> QED
    BY <2>3, <2>4
<1>6. ASSUME NEW d \in Clst, d \notin Range(s) PROVE w.fat[d] = v.fat[d]
  <2>1. d \in Nat
    BY FatAssumption
  <2>2. ~(d >= s[a] /\ d < s[a] + n)
    <3> SUFFICES ASSUME d >= s[a], d < s[a] + n PROVE FALSE
      OBVIOUS
    <3> DEFINE k == a + (d - s[a])
    <3>1. k \in a .. a + n - 1 /\ k - a = d - s[a] /\ a \in Nat /\ Len(s) \in Nat
      BY <1>4, <2>1, SeqFacts
    <3> HIDE DEF k
    <3>2. s[k] = d
      BY <1>3, <1>4, <2>1, <3>1
    <3>3. k \in 1 .. Len(s)
      BY <3>1
    <3> QED
      BY <1>6, <3>2, <3>3, RangeIs
  <2> QED
    BY <1>1, <1>4, <2>1, <2>2
<1> QED
  BY <1>5, <1>6 DEF w, RunLinked

\* The last cluster of a chain, where create_chain goes on from
LastOf(s) == IF Len(s) = 0 THEN 0 ELSE s[Len(s)]

\* From v to w the file with the chain s got the cluster c; its object is p.
Longer(v, w, p, s, c) ==
  /\ c \in Clst /\ c \notin Range(s)
  /\ Rechained(v, w, s, Append(s, c))
  /\ Shape(w, Named(p, c), Append(s, c))

\* The links from the last fragment to a new one
EdgeLinked(v, w, o, s, c) ==
  /\ \A i \in (IF o.stat = 2 THEN Len(s) ELSE First(o)) .. Len(s) :
       w.fat[s[i]] = IF i < Len(s) THEN s[i + 1] ELSE c
  /\ \A d \in Clst : d \notin Range(s) => w.fat[d] = v.fat[d]

LEMMA EdgePut ==
  ASSUME NEW v \in Volumes, NEW o \in Objects, NEW s, Shape(v, o, s), Len(s) > 0,
         NEW e \in Nat, o.stat = 2 => e = 1, o.stat # 2 => e = Edge(o), NEW c
  PROVE  EdgeLinked(v, PutRun(v, s[Len(s)] - e + 1, e, e, c), o, s, c)
<1> DEFINE m == Len(s)
           a == m - e + 1
           b == IF o.stat = 2 THEN m ELSE First(o)
<1>1. /\ s \in Seq(Clst) /\ Injective(s) /\ m \in Nat /\ m > 0
      /\ o.n_frag \in 0 .. m /\ o.n_cont \in Nat /\ o.stat \in {0, 2, 3}
      /\ \A i \in 1 .. m : s[i] \in Nat
  BY ShapeFields
<1>2. e = IF o.stat = 2 \/ o.n_frag = 0 THEN 1 ELSE o.n_frag
  BY DEF Edge
<1>3. o.stat # 2 => \A i \in First(o) .. m - e : v.fat[s[i]] = s[i + 1]
  BY DEF Shape, Linked
<1>4. o.stat # 2 /\ o.n_frag > 0 => e = o.n_frag /\ Run(s, m - o.n_frag + 1, m)
  BY <1>2 DEF Shape
<1>5. b \in Nat /\ b >= 1
  BY <1>1 DEF First
<1>6. o.stat # 2 => b = First(o)
  OBVIOUS
<1>7. o.stat = 2 => b = m
  OBVIOUS
<1>8. m = Len(s)
  OBVIOUS
<1> HIDE DEF m, b
<1>9. e \in 1 .. m /\ a \in 1 .. m /\ a + e - 1 = m
  BY <1>1, <1>2
<1>10. \A i \in a .. m : s[i] = s[a] + (i - a)
  <2>1. CASE e = 1
    <3>1. a = m /\ s[m] \in Nat
      BY <1>1, <2>1
    <3>2. \A i \in m .. m : i = m /\ s[i] = s[m] + (m - m)
      BY <1>1, <3>1
    <3> QED
      BY <3>1, <3>2
  <2>2. CASE e # 1
    <3>1. e = o.n_frag /\ Run(s, m - o.n_frag + 1, m)
      BY <1>1, <1>2, <1>4, <2>2
    <3> QED
      BY <3>1 DEF Run
  <2> QED
    BY <2>1, <2>2
<1> DEFINE w == PutRun(v, s[a], e, e, c)
<1> HIDE DEF a
<1>11. s[m] - e + 1 = s[a]
  <2>1. m \in a .. m /\ s[a] \in Nat /\ m - a = e - 1
    BY <1>1, <1>9
  <2>2. s[m] = s[a] + (m - a)
    BY <1>10, <2>1
  <2> QED
    BY <1>9, <2>1, <2>2
<1>12. /\ \A i \in 1 .. m : w.fat[s[i]] = IF i \in a .. m THEN IF i = m THEN c ELSE s[i] + 1
                                        ELSE v.fat[s[i]]
       /\ \A d \in Clst : d \notin Range(s) => w.fat[d] = v.fat[d]
  <2>1. Run(s, a, a + e - 1)
    <3>1. Run(s, a, m)
      BY <1>10 DEF Run
    <3> QED
      BY <1>9, <3>1
  <2>2. a \in 1 .. Len(s) /\ a + e - 1 <= Len(s)
    BY <1>1, <1>8, <1>9
  <2>3. RunLinked(v, w, s, a, e, e, c)
    BY <1>1, <2>1, <2>2, RunPut
  <2> HIDE DEF w
  <2> QED
    BY <1>8, <1>9, <2>3 DEF RunLinked
<1> HIDE DEF w
<1>13. ASSUME NEW i \in b .. m PROVE w.fat[s[i]] = IF i < m THEN s[i + 1] ELSE c
  <2>1. i \in 1 .. m
    BY <1>1, <1>5
  <2>2. CASE i = m
    <3>1. i \in a .. m
      BY <1>9, <2>2
    <3> QED
      BY <1>12, <2>1, <2>2, <3>1
  <2>3. CASE i < m /\ i >= a
    <3>1. i \in a .. m /\ i + 1 \in a .. m /\ i # m
      BY <1>1, <1>9, <2>1, <2>3
    <3>2. s[i] = s[a] + (i - a) /\ s[i + 1] = s[a] + (i + 1 - a) /\ s[a] \in Nat
      BY <1>1, <1>9, <1>10, <3>1
    <3>3. s[i + 1] = s[i] + 1
      BY <1>9, <2>1, <3>2
    <3> QED
      BY <1>12, <2>1, <2>3, <3>1, <3>3
  <2>4. CASE i < m /\ i < a
    <3>1. o.stat # 2
      BY <1>1, <1>7, <2>1, <2>4
    <3>2. i \in First(o) .. m - e /\ i \notin a .. m
      BY <1>1, <1>6, <1>9, <2>1, <2>4, <3>1
    <3> QED
      BY <1>3, <1>12, <2>1, <2>4, <3>1, <3>2
  <2> QED
    BY <1>1, <1>9, <2>1, <2>2, <2>3, <2>4
<1>14. w = PutRun(v, s[m] - e + 1, e, e, c)
  BY <1>11 DEF w
<1> QED
  BY <1>12, <1>13, <1>14 DEF b, m, EdgeLinked

LEMMA LastOfIs ==
  ASSUME NEW s \in Seq(Clst)
  PROVE  /\ LastOf(s) \in {0} \cup Clst /\ (LastOf(s) = 0 <=> Len(s) = 0)
         /\ Len(s) > 0 => LastOf(s) = s[Len(s)] /\ Len(s) \in 1 .. Len(s)
<1>1. Len(s) \in Nat /\ \A i \in 1 .. Len(s) : s[i] \in Clst
  BY SeqFacts
<1>2. CASE Len(s) = 0
  BY <1>2 DEF LastOf
<1>3. CASE Len(s) > 0
  <2>1. Len(s) \in 1 .. Len(s)
    BY <1>1, <1>3
  <2>2. s[Len(s)] \in Clst
    BY <1>1, <2>1
  <2>3. s[Len(s)] # 0
    BY <2>2, FatAssumption
  <2> QED
    BY <1>3, <2>1, <2>2, <2>3 DEF LastOf
<1> QED
  BY <1>1, <1>2, <1>3

\* One cluster more is marked in the bitmap.
LEMMA MarkedOne ==
  ASSUME NEW v \in Volumes, v.type = "exfat", v.free # 0, NEW s \in Seq(Clst), Injective(s),
         Taken(v, s), NEW c \in Clst, c \notin v.used,
         NEW w \in Volumes, SameBut(Marked(v, c), w),
         \A d \in Clst : d \notin Range(s) => w.fat[d] = v.fat[d]
  PROVE  LET a == Allocated(w, c)
         IN  /\ c \notin Range(s) /\ Rechained(v, a, s, Append(s, c))
             /\ a.fat = w.fat
<1> DEFINE a == Allocated(w, c)
<1>1. /\ Marked(v, c).type = v.type /\ Marked(v, c).used = v.used \cup {c}
      /\ Marked(v, c).free = v.free
  BY MarkedType
<1>2. w.type = v.type /\ w.used = v.used \cup {c} /\ w.free = v.free
  BY <1>1 DEF SameBut
<1>3. /\ a \in Volumes /\ a.type = w.type /\ a.used = w.used /\ a.fat = w.fat
      /\ a.free = IF w.free = UNKNOWN THEN UNKNOWN ELSE w.free - 1
  BY <1>2, AllocatedType
<1> HIDE DEF a
<1>4. a.type = v.type /\ a.free = IF v.free = UNKNOWN THEN UNKNOWN ELSE v.free - 1
  BY <1>2, <1>3
<1>5. IsFree(v, c) /\ \A d \in Clst : IsFree(a, d) <=> IsFree(v, d) /\ d # c
  BY <1>2, <1>3 DEF IsFree
<1>6. \A d \in Clst : d \notin Range(s) /\ d # c => a.fat[d] = v.fat[d]
  BY <1>3
<1>7. c \notin Range(s) /\ Rechained(v, a, s, Append(s, c))
  BY <1>3, <1>4, <1>5, <1>6, TakenOne
<1> QED
  BY <1>3, <1>7 DEF a

\* The three ways in which create_chain goes on with a chain on exFAT
LEMMA GrownRun ==
  ASSUME NEW v \in Volumes, v.type = "exfat", v.free # 0, NEW o \in Objects,
         NEW s, Shape(v, o, s), Taken(v, s), NEW c \in Clst, c \notin v.used,
         NEW o1 \in Objects, o1.sclust = o.sclust, o1.n_frag = o.n_frag, o1.stat = 2,
         Len(s) > 0 => o.stat = 2 /\ c = s[Len(s)] + 1
  PROVE  Longer(v, Allocated(Marked(v, c), c), o1, s, c)
<1> DEFINE w == Marked(v, c)
           a == Allocated(w, c)
           p == Named(o1, c)
<1>1. s \in Seq(Clst) /\ Len(s) \in Nat /\ Injective(s) /\ o.n_frag \in 0 .. Len(s)
      /\ (Len(s) > 0 => o.sclust # 0) /\ (Len(s) = 0 => o.sclust = 0)
  BY ShapeFields
<1>2. w \in Volumes /\ SameBut(w, w) /\ w.fat = v.fat
  BY MarkedType DEF SameBut
<1>3. \A d \in Clst : d \notin Range(s) => w.fat[d] = v.fat[d]
  BY <1>2
<1>4. /\ p \in Objects /\ p.sclust = (IF o1.sclust = 0 THEN c ELSE o1.sclust)
      /\ p.stat = o1.stat /\ p.n_frag = o1.n_frag
  BY NamedType
<1>5. o.stat = 2 => o.n_frag = 0
  BY DEF Shape
<1> HIDE DEF w, p
<1>6. c \notin Range(s) /\ Rechained(v, a, s, Append(s, c))
  BY <1>1, <1>2, <1>3, MarkedOne DEF w
<1> HIDE DEF a
<1>7. p.sclust = (IF Len(s) = 0 THEN c ELSE o.sclust) /\ p.stat = 2 /\ p.n_frag = 0
  BY <1>1, <1>4, <1>5
<1>8. Shape(a, p, Append(s, c))
  BY <1>4, <1>6, <1>7, AppendRun
<1>9. Longer(v, a, o1, s, c)
  BY <1>6, <1>8 DEF Longer, p
<1> QED
  BY <1>9 DEF a, w

LEMMA GrownEdge ==
  ASSUME NEW v \in Volumes, v.type = "exfat", v.free # 0, NEW o \in Objects,
         NEW s, Shape(v, o, s), Taken(v, s), Len(s) > 0, NEW c \in Clst, c \notin v.used,
         c = s[Len(s)] + 1, o.stat # 2,
         NEW o1 \in Objects, o1.sclust = o.sclust, o1.n_frag = o.n_frag,
         o1.stat = o.stat, o1.n_cont = o.n_cont
  PROVE  Longer(v, Allocated(Marked(v, c), c), LongerEdge(o1), s, c)
<1> DEFINE w == Marked(v, c)
           a == Allocated(w, c)
           k == IF o.n_frag = 0 THEN 2 ELSE o.n_frag + 1
           q == [o1 EXCEPT !.n_frag = k]
           p == Named(q, c)
<1>1. s \in Seq(Clst) /\ Len(s) \in Nat /\ Injective(s) /\ o.n_frag \in 0 .. Len(s)
      /\ o.sclust # 0
  BY ShapeFields
<1>2. w \in Volumes /\ SameBut(w, w) /\ w.fat = v.fat
  BY MarkedType DEF SameBut
<1>3. \A d \in Clst : d \notin Range(s) => w.fat[d] = v.fat[d]
  BY <1>2
<1>4. LongerEdge(o1) = q
  BY DEF LongerEdge
<1> HIDE DEF w
<1>5. c \notin Range(s) /\ Rechained(v, a, s, Append(s, c)) /\ a.fat = w.fat
  BY <1>1, <1>2, <1>3, MarkedOne DEF w
<1> HIDE DEF a
<1>6. Len(s) + 1 \in 0 .. Clusters
  <2>1. Append(s, c) \in Seq(Clst) /\ Injective(Append(s, c)) /\ Len(Append(s, c)) = Len(s) + 1
    BY <1>1, <1>5, AppendIs
  <2>2. Len(Append(s, c)) \in 0 .. Clusters
    BY <2>1, InjectiveSize
  <2> QED
    BY <2>1, <2>2, Zenon
<1>7. k \in 0 .. Clusters
  <2>1. Clusters \in Nat
    BY FatAssumption
  <2> QED
    BY <1>1, <1>6, <2>1
<1> HIDE DEF k
<1>8. q \in Objects /\ q.sclust = o1.sclust /\ q.stat = o1.stat /\ q.n_cont = o1.n_cont /\ q.n_frag = k
  BY <1>7, FragType
<1> HIDE DEF q
<1>9. /\ p \in Objects /\ p.sclust = (IF q.sclust = 0 THEN c ELSE q.sclust)
      /\ p.stat = q.stat /\ p.n_cont = q.n_cont /\ p.n_frag = q.n_frag
  BY <1>8, NamedType
<1> HIDE DEF p
<1>10. p.sclust = o.sclust /\ p.stat = o.stat /\ p.n_cont = o.n_cont
  BY <1>1, <1>8, <1>9
<1>11. p.n_frag = IF o.n_frag = 0 THEN 2 ELSE o.n_frag + 1
  BY <1>8, <1>9 DEF k
<1>12. \A d \in Range(s) : a.fat[d] = v.fat[d]
  BY <1>2, <1>5
<1>13. Shape(a, p, Append(s, c))
  <2>1. c \notin Range(s) /\ p \in Objects
    BY <1>5, <1>9
  <2> QED
    BY <1>10, <1>11, <1>12, <2>1, AppendEdge, ZenonT(60)
<1>14. Longer(v, a, q, s, c)
  BY <1>5, <1>13 DEF Longer, p
<1> QED
  BY <1>4, <1>14 DEF a, w

LEMMA GrownBreak ==
  ASSUME NEW v \in Volumes, v.type = "exfat", v.free # 0, NEW o \in Objects,
         NEW s, Shape(v, o, s), Taken(v, s), Len(s) > 0, NEW c \in Clst, c \notin v.used,
         NEW o1 \in Objects, o1.sclust = o.sclust, o1.n_frag = o.n_frag,
         IF o.stat = 2 THEN o1.stat = 3 /\ o1.n_cont = s[Len(s)] - o.sclust
         ELSE o1.stat = o.stat /\ o1.n_cont = o.n_cont,
         NEW m, m = Edge(o1)
  PROVE  Longer(v, Allocated(PutRun(Marked(v, c), s[Len(s)] - m + 1, m, m, c), c),
                [o1 EXCEPT !.n_frag = 1], s, c)
<1> DEFINE v1 == Marked(v, c)
           w == PutRun(v1, s[Len(s)] - m + 1, m, m, c)
           a == Allocated(w, c)
           q == [o1 EXCEPT !.n_frag = 1]
           p == Named(q, c)
           b == IF o.stat = 2 THEN Len(s) ELSE First(o)
<1>1. s \in Seq(Clst) /\ Len(s) \in Nat /\ Injective(s) /\ o.n_frag \in 0 .. Len(s)
      /\ o.sclust # 0 /\ o.sclust = s[1] /\ o.stat \in {0, 2, 3} /\ o.n_cont \in Nat
      /\ (\A i \in 1 .. Len(s) : s[i] \in Clst /\ s[i] \in Nat)
      /\ (o.stat = 3 => o.n_cont + 1 < Len(s))
  BY ShapeFields
<1>2. o.stat = 2 => o.n_frag = 0 /\ Run(s, 1, Len(s))
  BY DEF Shape
<1>3. m \in Nat /\ (o.stat = 2 => m = 1) /\ (o.stat # 2 => m = Edge(o))
  BY <1>1, <1>2 DEF Edge
<1>4. o.stat = 2 => s[Len(s)] - o.sclust = Len(s) - 1
  <2> SUFFICES ASSUME o.stat = 2 PROVE s[Len(s)] - o.sclust = Len(s) - 1
    OBVIOUS
  <2>1. Len(s) \in 1 .. Len(s) /\ 1 \in 1 .. Len(s)
    BY <1>1
  <2>2. s[Len(s)] = s[1] + (Len(s) - 1) /\ s[1] \in Nat
    BY <1>1, <1>2, <2>1 DEF Run
  <2> QED
    BY <1>1, <2>2
<1>5. v1 \in Volumes /\ v1.fat = v.fat
  BY MarkedType
<1> HIDE DEF v1
<1>6. Shape(v1, o, s)
  <2>1. \A d \in Range(s) : v1.fat[d] = v.fat[d]
    BY <1>5
  <2> QED
    BY <2>1, ShapeStays
<1>7. /\ \A i \in b .. Len(s) : w.fat[s[i]] = IF i < Len(s) THEN s[i + 1] ELSE c
      /\ \A d \in Clst : d \notin Range(s) => w.fat[d] = v1.fat[d]
  <2>1. EdgeLinked(v1, w, o, s, c)
    BY <1>3, <1>5, <1>6, EdgePut
  <2> QED
    BY <2>1 DEF EdgeLinked
<1>8. w \in Volumes /\ SameBut(v1, w)
  <2>1. Len(s) \in 1 .. Len(s)
    BY <1>1
  <2>2. s[Len(s)] - m + 1 \in Int /\ m \in Int /\ c \in 0 .. EOC
    <3>1. Clst \subseteq Int /\ Clst \subseteq 0 .. EOC
      BY FatAssumption
    <3>2. s[Len(s)] \in Int /\ c \in 0 .. EOC
      BY <1>1, <2>1, <3>1
    <3>3. m \in Int
      BY <1>1, <1>3
    <3> QED
      BY <3>2, <3>3
  <2> QED
    BY <1>5, <2>2, PutRunSame
<1>9. \A d \in Clst : d \notin Range(s) => w.fat[d] = v.fat[d]
  BY <1>5, <1>7
<1> HIDE DEF w, b
<1>10. c \notin Range(s) /\ Rechained(v, a, s, Append(s, c)) /\ a.fat = w.fat
  BY <1>1, <1>8, <1>9, MarkedOne DEF v1
<1> HIDE DEF a
<1>11. q \in Objects /\ q.sclust = o1.sclust /\ q.stat = o1.stat /\ q.n_cont = o1.n_cont /\ q.n_frag = 1
  <2>1. 1 \in 0 .. Clusters
    BY FatAssumption
  <2> QED
    BY <2>1, FragType
<1> HIDE DEF q
<1>12. /\ p \in Objects /\ p.sclust = (IF q.sclust = 0 THEN c ELSE q.sclust)
       /\ p.stat = q.stat /\ p.n_cont = q.n_cont /\ p.n_frag = q.n_frag
  BY <1>11, NamedType
<1> HIDE DEF p
<1>13. p.sclust = (IF Len(s) = 0 THEN c ELSE o.sclust) /\ p.n_frag \in {0, 1} /\ p.n_frag # 0
  BY <1>1, <1>11, <1>12
<1>14. p.stat = o1.stat /\ p.n_cont = o1.n_cont
  BY <1>11, <1>12
<1>15. p.stat # 2
  BY <1>14
<1>16. ASSUME p.stat = 3 PROVE p.n_cont + 1 <= Len(s) /\ Run(s, 1, p.n_cont + 1)
  <2>1. CASE o.stat = 2
    <3>1. p.n_cont + 1 = Len(s)
      BY <1>1, <1>4, <1>14, <2>1
    <3> QED
      BY <1>1, <1>2, <2>1, <3>1
  <2>2. CASE o.stat # 2
    <3>1. o.stat = 3 /\ p.n_cont = o.n_cont
      BY <1>14, <1>16, <2>2
    <3> QED
      BY <1>1, <3>1 DEF Shape
  <2> QED
    BY <2>1, <2>2
<1>17. First(p) = b
  <2>1. CASE o.stat = 2
    <3>1. p.stat = 3 /\ p.n_cont + 1 = Len(s)
      BY <1>1, <1>4, <1>14, <2>1
    <3> QED
      BY <2>1, <3>1 DEF First, b
  <2>2. CASE o.stat # 2
    BY <1>14, <2>2 DEF First, b
  <2> QED
    BY <2>1, <2>2
<1>18. \A i \in First(p) .. Len(s) : a.fat[s[i]] = IF i < Len(s) THEN s[i + 1] ELSE c
  BY <1>7, <1>10, <1>17
<1>19. Shape(a, p, Append(s, c))
  BY <1>10, <1>12, <1>13, <1>15, <1>16, <1>18, AppendLinked
<1>20. Longer(v, a, q, s, c)
  BY <1>10, <1>19 DEF Longer, p
<1> QED
  BY <1>20 DEF a, w, v1, q

\* What create_chain does at the end of a chain: nothing, or one cluster more
AtEnd(v, o, s, r) ==
  \/ r.v = v /\ r.o = o /\ r.ret = FULL
  \/ r.ret \in Clst /\ Longer(v, r.v, r.o, s, r.ret)

LEMMA BitmapLonger ==
  ASSUME NEW v \in Volumes, v.type = "exfat", v.free # 0, NEW o \in Objects,
         NEW s, Shape(v, o, s), Taken(v, s),
         LastOf(s) # 0 => ~(GetFat(v, o, LastOf(s)) < 2),
         NEW scl, NEW r \in CreateBitmap(v, o, LastOf(s), scl), r.ret # DISK
  PROVE  AtEnd(v, o, s, r)
<1> DEFINE clst == LastOf(s)
           c  == FindBitmap(v, scl)
           v1 == Marked(v, c)
           o1 == Stretched(o, clst, c)
           m  == Edge(o1)
<1>1. s \in Seq(Clst) /\ Len(s) \in Nat /\ (Len(s) > 0 => o.sclust # 0)
  BY ShapeFields
<1>2. /\ clst \in {0} \cup Clst /\ (clst = 0 <=> Len(s) = 0)
      /\ Len(s) > 0 => clst = s[Len(s)]
  BY <1>1, LastOfIs
<1>3. clst # 0 => ~(GetFat(v, o, clst) < 2)
  OBVIOUS
<1>4. \/ c = 0 /\ r.v = v /\ r.o = o /\ r.ret = FULL
      \/ /\ c \in Clst /\ c \notin v.used
         /\ \/ o1.stat = 2 /\ r.v = Allocated(v1, c) /\ r.o = o1 /\ r.ret = c
            \/ /\ o1.stat # 2 /\ c = clst + 1
               /\ r.v = Allocated(v1, c) /\ r.o = LongerEdge(o1) /\ r.ret = c
            \/ /\ o1.stat # 2 /\ c # clst + 1
               /\ r.v = Allocated(PutRun(v1, clst - m + 1, m, m, c), c)
               /\ r.o = [o1 EXCEPT !.n_frag = 1] /\ r.ret = c
  BY BitmapOutcomes
<1> HIDE DEF c, clst
<1>5. CASE c = 0
  <2>1. c \notin Clst
    BY <1>5, FatAssumption
  <2>2. r.v = v /\ r.o = o /\ r.ret = FULL
    BY <1>4, <2>1
  <2> QED
    BY <2>2 DEF AtEnd
<1>6. CASE c \in Clst /\ c \notin v.used
  <2>1. /\ o1 \in Objects /\ o1.sclust = o.sclust /\ o1.n_frag = o.n_frag
        /\ o1.stat = IF clst = 0 THEN 2
                     ELSE IF o.stat = 2 /\ c # clst + 1 THEN 3 ELSE o.stat
        /\ o1.n_cont = IF clst # 0 /\ o.stat = 2 /\ c # clst + 1 THEN clst - o.sclust
                       ELSE o.n_cont
    BY <1>2, <1>3, <1>6, StretchedType
  <2> HIDE DEF o1
  <2>2. CASE o1.stat = 2 /\ r.v = Allocated(v1, c) /\ r.o = o1 /\ r.ret = c
    <3>1. Len(s) > 0 => o.stat = 2 /\ c = s[Len(s)] + 1
      BY <1>1, <1>2, <2>1, <2>2
    <3>2. Longer(v, Allocated(v1, c), o1, s, c)
      BY <1>6, <2>1, <2>2, <3>1, GrownRun
    <3> QED
      BY <1>6, <2>2, <3>2 DEF AtEnd
  <2>3. CASE /\ o1.stat # 2 /\ c = clst + 1
             /\ r.v = Allocated(v1, c) /\ r.o = LongerEdge(o1) /\ r.ret = c
    <3>1. Len(s) > 0 /\ c = s[Len(s)] + 1 /\ o.stat # 2 /\ o1.stat = o.stat /\ o1.n_cont = o.n_cont
      BY <1>1, <1>2, <2>1, <2>3
    <3>2. Longer(v, Allocated(v1, c), LongerEdge(o1), s, c)
      BY <1>6, <2>1, <3>1, GrownEdge
    <3> QED
      BY <1>6, <2>3, <3>2 DEF AtEnd
  <2>4. CASE /\ o1.stat # 2 /\ c # clst + 1
             /\ r.v = Allocated(PutRun(v1, clst - m + 1, m, m, c), c)
             /\ r.o = [o1 EXCEPT !.n_frag = 1] /\ r.ret = c
    <3>1. Len(s) > 0 /\ clst = s[Len(s)]
      BY <1>1, <1>2, <2>1, <2>4
    <3>2. IF o.stat = 2 THEN o1.stat = 3 /\ o1.n_cont = s[Len(s)] - o.sclust
          ELSE o1.stat = o.stat /\ o1.n_cont = o.n_cont
      BY <1>1, <1>2, <2>1, <2>4, <3>1
    <3>3. m = Edge(o1)
      OBVIOUS
    <3> HIDE DEF m
    <3>4. Longer(v, Allocated(PutRun(v1, s[Len(s)] - m + 1, m, m, c), c),
                 [o1 EXCEPT !.n_frag = 1], s, c)
      BY <1>6, <2>1, <3>1, <3>2, <3>3, GrownBreak
    <3>5. Longer(v, r.v, r.o, s, c)
      BY <2>4, <3>1, <3>4
    <3> QED
      BY <1>6, <2>4, <3>5 DEF AtEnd
  <2>5. c # 0
    BY <1>6, FatAssumption
  <2> QED
    BY <1>4, <2>2, <2>3, <2>4, <2>5
<1> QED
  BY <1>4, <1>5, <1>6

LEMMA PutFat ==
  ASSUME NEW v \in Volumes, NEW c \in Clst, NEW val \in 0 .. EOC
  PROVE  \A d \in Clst : Put(v, c, val).fat[d] = IF d = c THEN val ELSE v.fat[d]
  BY DEF Put, Volumes

\* One cluster more is linked on FAT32.
LEMMA GrownFat ==
  ASSUME NEW v \in Volumes, v.type = "fat32", v.free # 0, NEW o \in Objects, Plain(v, o),
         NEW s, Shape(v, o, s), Taken(v, s), NEW c \in Clst, v.fat[c] = FREE
  PROVE  LET v1 == Put(v, c, EOC)
             v2 == IF LastOf(s) = 0 THEN v1 ELSE Put(v1, LastOf(s), c)
         IN  Longer(v, Allocated(v2, c), o, s, c)
<1> DEFINE v1 == Put(v, c, EOC)
           v2 == IF LastOf(s) = 0 THEN v1 ELSE Put(v1, LastOf(s), c)
           a  == Allocated(v2, c)
           p  == Named(o, c)
<1>1. /\ s \in Seq(Clst) /\ Len(s) \in Nat /\ Injective(s)
      /\ \A i \in 1 .. Len(s) : s[i] \in Clst /\ s[i] \in Nat
      /\ (Len(s) > 0 => o.sclust = s[1] /\ o.sclust # 0)
      /\ (Len(s) = 0 => o.sclust = 0)
  BY ShapeFields
<1>2. LastOf(s) \in {0} \cup Clst /\ (LastOf(s) = 0 <=> Len(s) = 0)
      /\ (Len(s) > 0 => LastOf(s) = s[Len(s)] /\ Len(s) \in 1 .. Len(s))
  BY <1>1, LastOfIs
<1>3. c \in 0 .. EOC /\ EOC \in 0 .. EOC /\ c # 0 /\ EOC # 0
  BY FatAssumption
<1>4. v1 \in Volumes /\ SameBut(v, v1) /\ \A d \in Clst : v1.fat[d] = IF d = c THEN EOC ELSE v.fat[d]
  BY <1>3, PutSame, PutFat
<1> HIDE DEF v1
<1>5. /\ v2 \in Volumes /\ SameBut(v1, v2)
      /\ \A d \in Clst : v2.fat[d] = IF Len(s) > 0 /\ d = LastOf(s) THEN c ELSE v1.fat[d]
  <2>1. CASE Len(s) = 0
    <3>1. v2 = v1
      BY <1>2, <2>1
    <3> QED
      BY <1>4, <2>1, <3>1 DEF SameBut
  <2>2. CASE Len(s) # 0
    <3>1. v2 = Put(v1, LastOf(s), c) /\ LastOf(s) \in Clst
      BY <1>2, <2>2
    <3>2. /\ Put(v1, LastOf(s), c) \in Volumes /\ SameBut(v1, Put(v1, LastOf(s), c))
          /\ \A d \in Clst : Put(v1, LastOf(s), c).fat[d] = IF d = LastOf(s) THEN c ELSE v1.fat[d]
      BY <1>3, <1>4, <3>1, PutSame, PutFat
    <3> QED
      BY <1>1, <2>2, <3>1, <3>2
  <2> QED
    BY <2>1, <2>2
<1> HIDE DEF v2
<1>6. v2.type = v.type /\ v2.free = v.free
  BY <1>4, <1>5 DEF SameBut
<1>7. /\ a \in Volumes /\ a.type = v2.type /\ a.fat = v2.fat
      /\ a.free = IF v2.free = UNKNOWN THEN UNKNOWN ELSE v2.free - 1
  BY <1>5, <1>6, AllocatedType
<1> HIDE DEF a
<1>8. IsFree(v, c)
  BY DEF IsFree
<1>9. c \notin Range(s)
  BY <1>8 DEF Taken
<1>10. \A i \in 1 .. Len(s) : s[i] # c
  BY <1>1, <1>9, RangeIs
<1>11. \A d \in Clst : a.fat[d] = IF Len(s) > 0 /\ d = LastOf(s) THEN c
                                   ELSE IF d = c THEN EOC ELSE v.fat[d]
  BY <1>4, <1>5, <1>7
<1>12. Len(s) > 0 => LastOf(s) \in Range(s) /\ LastOf(s) \in Clst
  BY <1>1, <1>2, RangeIs
<1>13. \A d \in Clst : IsFree(a, d) <=> IsFree(v, d) /\ d # c
  <2> SUFFICES ASSUME NEW d \in Clst PROVE IsFree(a, d) <=> IsFree(v, d) /\ d # c
    OBVIOUS
  <2>1. (IsFree(a, d) <=> a.fat[d] = FREE) /\ (IsFree(v, d) <=> v.fat[d] = FREE)
    BY <1>6, <1>7 DEF IsFree
  <2>2. Len(s) > 0 /\ d = LastOf(s) => ~IsFree(v, d)
    BY <1>12 DEF Taken
  <2> QED
    BY <1>3, <1>11, <2>1, <2>2
<1>14. \A d \in Clst : d \notin Range(s) /\ d # c => a.fat[d] = v.fat[d]
  BY <1>11, <1>12
<1>15. a.type = v.type /\ a.free = IF v.free = UNKNOWN THEN UNKNOWN ELSE v.free - 1
  BY <1>6, <1>7
<1>16. Rechained(v, a, s, Append(s, c))
  BY <1>1, <1>7, <1>8, <1>13, <1>14, <1>15, TakenOne
<1>17. /\ p \in Objects /\ p.sclust = (IF o.sclust = 0 THEN c ELSE o.sclust)
       /\ p.stat = o.stat /\ p.n_cont = o.n_cont /\ p.n_frag = o.n_frag
  BY NamedType
<1> HIDE DEF p
<1>18. o.stat = 0 /\ o.n_frag = 0 /\ p.stat = 0 /\ p.n_frag = 0
  BY <1>17 DEF Plain
<1>19. p.sclust = IF Len(s) = 0 THEN c ELSE o.sclust
  BY <1>1, <1>17
<1>20. \A i \in 1 .. Len(s) - 1 : v.fat[s[i]] = s[i + 1]
  <2>1. Linked(v, s, 1, Len(s) - 1)
    BY <1>18 DEF Shape, First, Edge
  <2> QED
    BY <2>1 DEF Linked
<1>21. ASSUME NEW i \in First(p) .. Len(s) PROVE a.fat[s[i]] = IF i < Len(s) THEN s[i + 1] ELSE c
  <2>1. i \in 1 .. Len(s)
    BY <1>1, <1>18 DEF First
  <2>2. s[i] \in Clst /\ s[i] # c
    BY <1>1, <1>10, <2>1
  <2>3. CASE i = Len(s)
    BY <1>2, <1>11, <2>1, <2>2, <2>3
  <2>4. CASE i # Len(s)
    <3>1. i \in 1 .. Len(s) - 1 /\ i < Len(s)
      BY <1>1, <2>1, <2>4
    <3>2. s[i] # LastOf(s)
      <4>1. LastOf(s) = s[Len(s)] /\ Len(s) \in 1 .. Len(s)
        BY <1>2, <2>1
      <4> QED
        BY <1>1, <2>1, <2>4, <4>1 DEF Injective
    <3> QED
      BY <1>11, <1>20, <2>2, <3>1, <3>2
  <2> QED
    BY <2>3, <2>4
<1>22. a.fat[c] = EOC
  BY <1>9, <1>11, <1>12
<1>23. Shape(a, p, Append(s, c))
  BY <1>9, <1>17, <1>18, <1>19, <1>21, <1>22, AppendLinked
<1>24. Longer(v, a, o, s, c)
  BY <1>9, <1>16, <1>23 DEF Longer, p
<1> QED
  BY <1>24 DEF a, v2, v1

LEMMA FatLonger ==
  ASSUME NEW v \in Volumes, v.type = "fat32", v.free # 0, NEW o \in Objects, Plain(v, o),
         NEW s, Shape(v, o, s), Taken(v, s),
         NEW scl \in Int, NEW r \in CreateFat(v, o, LastOf(s), scl), r.ret # DISK
  PROVE  AtEnd(v, o, s, r)
<1> DEFINE clst == LastOf(s)
           c  == FindFat(v, clst, scl)
           v1 == Put(v, c, EOC)
           v2 == IF clst = 0 THEN v1 ELSE Put(v1, clst, c)
<1>1. s \in Seq(Clst)
  BY ShapeFields
<1>2. clst \in {0} \cup Clst
  BY <1>1, LastOfIs
<1>3. CreateFat(v, o, clst, scl) = IF c = 0 THEN {Outcome(v, o, FULL)}
                                   ELSE {Stopped(v1, o), Outcome(Allocated(v2, c), o, c)}
  BY DEF CreateFat
<1>4. c # 0 => c \in Clst /\ IsFree(v, c)
  BY <1>2, FindFatFinds
<1> HIDE DEF c
<1>5. CASE c = 0
  <2>1. r = Outcome(v, o, FULL)
    BY <1>3, <1>5
  <2> QED
    BY <2>1, OutcomeFields DEF AtEnd
<1>6. CASE c # 0
  <2>1. r = Outcome(Allocated(v2, c), o, c)
    <3>1. Stopped(v1, o).ret = DISK
      BY OutcomeFields DEF Stopped
    <3> QED
      BY <1>3, <1>6, <3>1
  <2>2. r.v = Allocated(v2, c) /\ r.o = o /\ r.ret = c
    BY <2>1, OutcomeFields
  <2>3. c \in Clst /\ v.fat[c] = FREE
    BY <1>4, <1>6 DEF IsFree
  <2>4. Longer(v, Allocated(v2, c), o, s, c)
    BY <2>3, GrownFat
  <2> QED
    BY <2>2, <2>3, <2>4 DEF AtEnd
<1> QED
  BY <1>5, <1>6

\* create_chain, in the middle of a chain and at its end
LEMMA CreateMiddle ==
  ASSUME NEW v \in Volumes, NEW o \in Objects, Plain(v, o), NEW s, Shape(v, o, s),
         o.n_frag = 0, Whole(o, s), NEW i \in 1 .. Len(s), i < Len(s),
         NEW r \in CreateChain(v, o, s[i]), r.ret # DISK
  PROVE  r.v = v /\ r.o = o /\ r.ret = s[i + 1] /\ r.ret \in Clst
<1>1. Len(s) \in Nat /\ \A j \in 1 .. Len(s) : s[j] \in Clst
  BY ShapeFields
<1>2. i + 1 \in 1 .. Len(s)
  BY <1>1
<1>3. GetFat(v, o, s[i]) = s[i + 1]
  BY NextOf
<1>4. s[i + 1] \in Clst /\ s[i] \in Clst
  BY <1>1, <1>2
<1> DEFINE next == GetFat(v, o, s[i])
<1>5. s[i] # 0 /\ ~(s[i] # 0 /\ next < 2) /\ next \in Clst
  BY <1>3, <1>4, FatAssumption
<1>6. CreateChain(v, o, s[i]) = {Stopped(v, o)} \cup {Outcome(v, o, next)}
  BY <1>5 DEF CreateChain
<1>7. Stopped(v, o).ret = DISK
  BY OutcomeFields DEF Stopped
<1>8. r = Outcome(v, o, s[i + 1])
  BY <1>3, <1>6, <1>7
<1> QED
  BY <1>4, <1>8, OutcomeFields

\* At the end of a chain create_chain looks for a free cluster.
LEMMA EndCases ==
  ASSUME NEW v \in Volumes, NEW o \in Objects, Plain(v, o), NEW s, Shape(v, o, s),
         Len(s) > 0 => Whole(o, s), NEW r \in CreateChain(v, o, LastOf(s))
  PROVE  \/ r = Stopped(v, o)
         \/ v.free = 0 /\ r = Outcome(v, o, FULL)
         \/ /\ v.free # 0 /\ (LastOf(s) # 0 => ~(GetFat(v, o, LastOf(s)) < 2))
            /\ \E scl \in Int : IF v.type = "exfat" THEN r \in CreateBitmap(v, o, LastOf(s), scl)
                               ELSE r \in CreateFat(v, o, LastOf(s), scl)
<1> DEFINE clst == LastOf(s)
           next == GetFat(v, o, clst)
           scl  == IF clst # 0 THEN clst
                   ELSE IF v.last \in 1 .. Clusters + 1 THEN v.last ELSE 1
<1>1. s \in Seq(Clst) /\ Len(s) \in Nat /\ o.n_frag \in 0 .. Len(s)
  BY ShapeFields
<1>2. /\ clst \in {0} \cup Clst /\ (clst = 0 <=> Len(s) = 0)
      /\ Len(s) > 0 => clst = s[Len(s)] /\ Len(s) \in 1 .. Len(s)
  BY <1>1, LastOfIs
<1>3. clst # 0 => next = EOC
  <2> SUFFICES ASSUME clst # 0 PROVE next = EOC
    OBVIOUS
  <2>1. Len(s) > 0 /\ clst = s[Len(s)] /\ Len(s) \in 1 .. Len(s)
    BY <1>1, <1>2
  <2> HIDE DEF clst
  <2>2. CASE o.n_frag = 0
    <3> DEFINE i == Len(s)
    <3>1. i \in 1 .. Len(s) /\ ~(i < Len(s))
      BY <2>1
    <3>2. GetFat(v, o, s[i]) = IF i < Len(s) THEN s[i + 1] ELSE EOC
      <4> HIDE DEF i
      <4> QED
        BY <2>1, <2>2, <3>1, NextOf
    <3>3. GetFat(v, o, s[i]) = EOC
      BY <3>1, <3>2
    <3> QED
      BY <2>1, <3>3
  <2>3. CASE o.n_frag # 0
    <3>1. o.n_frag > 0
      BY <1>1, <2>3
    <3>2. GetFat(v, o, s[Len(s)]) = EOC
      BY <2>1, <3>1, NextAtEdge
    <3> QED
      BY <2>1, <3>2
  <2> QED
    BY <2>2, <2>3
<1>4. clst # 0 => ~(next < 2) /\ next \notin Clst
  BY <1>3, FatAssumption
<1>5. scl \in Int
  BY <1>2, FatAssumption
<1>6. r \in {Stopped(v, o)} \cup
         (IF v.free = 0 THEN {Outcome(v, o, FULL)}
          ELSE IF v.type = "exfat" THEN CreateBitmap(v, o, clst, scl)
          ELSE CreateFat(v, o, clst, scl))
  BY <1>4 DEF CreateChain
<1> HIDE DEF scl
<1> HIDE DEF scl, clst
<1>7. CASE v.free = 0
  BY <1>6, <1>7
<1>8. CASE v.free # 0
  <2>1. \/ r = Stopped(v, o)
        \/ IF v.type = "exfat" THEN r \in CreateBitmap(v, o, clst, scl)
           ELSE r \in CreateFat(v, o, clst, scl)
    BY <1>6, <1>8
  <2> QED
    BY <1>4, <1>5, <1>8, <2>1 DEF clst
<1> QED
  BY <1>7, <1>8

LEMMA CreateAtEnd ==
  ASSUME NEW v \in Volumes, NEW o \in Objects, Plain(v, o), NEW s, Shape(v, o, s),
         Taken(v, s), Len(s) > 0 => Whole(o, s),
         NEW r \in CreateChain(v, o, LastOf(s)), r.ret # DISK
  PROVE  AtEnd(v, o, s, r)
<1>1. CASE r = Stopped(v, o)
  <2>1. Stopped(v, o).ret = DISK
    BY OutcomeFields DEF Stopped
  <2> QED
    BY <1>1, <2>1
<1>2. CASE r = Outcome(v, o, FULL)
  BY <1>2, OutcomeFields DEF AtEnd
<1>3. CASE /\ v.free # 0 /\ (LastOf(s) # 0 => ~(GetFat(v, o, LastOf(s)) < 2))
           /\ \E scl \in Int : IF v.type = "exfat" THEN r \in CreateBitmap(v, o, LastOf(s), scl)
                              ELSE r \in CreateFat(v, o, LastOf(s), scl)
  <2>1. PICK scl \in Int : IF v.type = "exfat" THEN r \in CreateBitmap(v, o, LastOf(s), scl)
                           ELSE r \in CreateFat(v, o, LastOf(s), scl)
    BY <1>3
  <2>2. CASE v.type = "exfat"
    BY <1>3, <2>1, <2>2, BitmapLonger
  <2>3. CASE v.type # "exfat"
    <3>1. v.type = "fat32"
      BY <2>3 DEF Volumes
    <3> QED
      BY <1>3, <2>1, <2>3, <3>1, FatLonger
  <2> QED
    BY <2>2, <2>3
<1> QED
  BY <1>1, <1>2, <1>3, EndCases

\* The size of an object says nothing of its links.
LEMMA ShapeSize ==
  ASSUME NEW v, NEW o, NEW p, NEW s, Shape(v, o, s), p.sclust = o.sclust,
         p.stat = o.stat, p.n_cont = o.n_cont, p.n_frag = o.n_frag
  PROVE  Shape(v, p, s)
  BY DEF Shape, First, Edge

-----------------------------------------------------------------------------
\* A chain is put on the FAT

\* From v to w only FAT entries of s have been written, on exFAT.
Patched(v, w, s) ==
  /\ SameBut(v, w)
  /\ \A c \in Clst : v.type # "exfat" \/ c \notin Range(s) => w.fat[c] = v.fat[c]

LEMMA PatchedAlike ==
  ASSUME NEW v, NEW w, NEW s, Patched(v, w, s)
  PROVE  w.type = v.type /\ \A c \in Clst : IsFree(w, c) <=> IsFree(v, c)
  BY DEF Patched, SameBut, IsFree

LEMMA FreeAlike ==
  ASSUME NEW v, NEW w, w.free = v.free, \A c \in Clst : IsFree(w, c) <=> IsFree(v, c)
  PROVE  FreeKnown(v) => FreeKnown(w)
<1>1. {c \in Clst : IsFree(w, c)} = {c \in Clst : IsFree(v, c)}
  OBVIOUS
<1> QED
  BY <1>1 DEF FreeKnown, CountFree

LEMMA PatchedKeeps ==
  ASSUME NEW v, NEW w, NEW s, Patched(v, w, s), Taken(v, s)
  PROVE  Rechained(v, w, s, s)
<1>1. w.type = v.type /\ \A c \in Clst : IsFree(w, c) <=> IsFree(v, c)
  BY PatchedAlike
<1>2. w.free = v.free
  BY DEF Patched, SameBut
<1>3. FreeKnown(v) => FreeKnown(w)
  BY <1>1, <1>2, FreeAlike
<1>4. \A c \in Clst : c \notin Range(s) => w.fat[c] = v.fat[c]
  BY DEF Patched
<1>5. \A c \in Clst : IsFree(w, c) <=> c \notin Range(s) /\ (IsFree(v, c) \/ c \in Range(s))
  BY <1>1 DEF Taken
<1> QED
  BY <1>1, <1>3, <1>4, <1>5 DEF Rechained

\* fill_last_frag puts the growing edge on the FAT.
LEMMA EdgeFlushed ==
  ASSUME NEW v \in Volumes, v.type = "exfat", NEW o \in Objects, NEW s, Shape(v, o, s),
         NEW lcl \in 0 .. EOC, o.n_frag > 0 => lcl = s[Len(s)],
         NEW r \in FillLast(v, o, lcl, EOC), r.ret = OK
  PROVE  /\ Shape(r.v, r.o, s) /\ r.o.n_frag = 0 /\ Patched(v, r.v, s)
<1>1. /\ s \in Seq(Clst) /\ Len(s) \in Nat /\ o.n_frag \in 0 .. Len(s) /\ o.n_cont \in Nat
      /\ o.stat \in {0, 2, 3} /\ \A i \in 1 .. Len(s) : s[i] \in Clst /\ s[i] \in Nat
      /\ (o.stat = 3 => o.n_cont + 1 < Len(s))
  BY ShapeFields
<1>2. EOC \in 0 .. EOC
  BY FatAssumption
<1>3. /\ r.v \in Volumes /\ SameBut(v, r.v) /\ r.o \in Objects /\ r.o.sclust = o.sclust
      /\ r.o.stat = o.stat /\ r.o.n_cont = o.n_cont /\ r.o.n_frag = 0
      /\ r.v = PutRun(v, lcl - o.n_frag + 1, o.n_frag, o.n_frag, EOC)
  BY <1>2, FillLastOutcomes
<1>4. CASE o.n_frag = 0
  <2>1. \A d \in Clst : r.v.fat[d] = v.fat[d]
    <3> DEFINE a == lcl - o.n_frag + 1
    <3>1. \A d \in Clst : PutRun(v, a, o.n_frag, o.n_frag, EOC).fat[d] =
             IF d < a \/ d >= a + o.n_frag THEN v.fat[d]
             ELSE IF d = a + o.n_frag - 1 THEN EOC ELSE d + 1
      BY PutRunFat
    <3>2. a \in Int /\ a + o.n_frag = a /\ Clst \subseteq Int
      BY <1>4, FatAssumption
    <3> HIDE DEF a
    <3> QED
      BY <1>3, <3>1, <3>2 DEF a
  <2>2. Patched(v, r.v, s)
    BY <1>3, <2>1 DEF Patched
  <2>3. Shape(v, r.o, s)
    BY <1>3, <1>4, ShapeSize
  <2>4. \A d \in Range(s) : r.v.fat[d] = v.fat[d]
    BY <1>1, <2>1, RangeIs
  <2>5. Shape(r.v, r.o, s)
    BY <1>3, <2>3, <2>4, ShapeStays
  <2> QED
    BY <1>3, <2>2, <2>5
<1>5. CASE o.n_frag # 0
  <2>1. o.n_frag > 0 /\ lcl = s[Len(s)] /\ o.stat # 2 /\ Len(s) > 0
    BY <1>1, <1>5 DEF Shape
  <2> DEFINE e == o.n_frag
             w == PutRun(v, s[Len(s)] - e + 1, e, e, EOC)
  <2>2. e \in Nat /\ (o.stat = 2 => e = 1) /\ (o.stat # 2 => e = Edge(o))
    BY <1>1, <2>1 DEF Edge
  <2>3. r.v = w
    BY <1>3, <2>1
  <2>4. /\ \A i \in (IF o.stat = 2 THEN Len(s) ELSE First(o)) .. Len(s) :
             w.fat[s[i]] = IF i < Len(s) THEN s[i + 1] ELSE EOC
        /\ \A d \in Clst : d \notin Range(s) => w.fat[d] = v.fat[d]
    <3> HIDE DEF e
    <3>1. EdgeLinked(v, w, o, s, EOC)
      BY <2>1, <2>2, EdgePut
    <3> QED
      BY <3>1 DEF EdgeLinked
  <2> HIDE DEF w
  <2>5. \A i \in First(o) .. Len(s) : w.fat[s[i]] = IF i < Len(s) THEN s[i + 1] ELSE EOC
    BY <2>1, <2>4
  <2>6. Patched(v, r.v, s)
    BY <1>3, <2>3, <2>4 DEF Patched
  <2>7. First(o) \in 1 .. Len(s) /\ First(r.o) = First(o) /\ Edge(r.o) = 1
    BY <1>1, <1>3, <2>1 DEF First, Edge
  <2>8. Linked(w, s, First(r.o), Len(s) - Edge(r.o))
    <3> SUFFICES ASSUME NEW i \in First(r.o) .. Len(s) - Edge(r.o) PROVE w.fat[s[i]] = s[i + 1]
      BY DEF Linked
    <3>1. i \in First(o) .. Len(s) /\ i < Len(s)
      BY <1>1, <2>7
    <3> QED
      BY <2>5, <3>1
  <2>9. w.fat[s[Len(s)]] = EOC
    <3>1. Len(s) \in First(o) .. Len(s) /\ ~(Len(s) < Len(s))
      BY <1>1, <2>7
    <3> QED
      BY <2>5, <3>1
  <2>10. s \in Seq(Clst) /\ Injective(s) /\ r.o.sclust = IF Len(s) = 0 THEN 0 ELSE s[1]
    BY <1>3 DEF Shape
  <2>11. r.o.stat = 3 => /\ r.o.n_cont + 2 <= Len(s) /\ Run(s, 1, r.o.n_cont + 1)
                         /\ r.o.n_frag <= Len(s) - r.o.n_cont - 1
    <3>1. o.stat = 3 => o.n_cont + 2 <= Len(s) /\ Run(s, 1, o.n_cont + 1)
      BY DEF Shape
    <3> QED
      BY <1>1, <1>3, <3>1
  <2>12. r.o.n_frag <= Len(s) /\ ~(r.o.n_frag > 0) /\ r.o.stat # 2
    BY <1>1, <1>3, <2>1
  <2>13. Shape(w, r.o, s)
    BY <2>8, <2>9, <2>10, <2>11, <2>12 DEF Shape
  <2> QED
    BY <1>3, <2>3, <2>6, <2>13
<1> QED
  BY <1>4, <1>5

\* fill_first_frag puts the first fragment on the FAT.
LEMMA FirstFlushed ==
  ASSUME NEW v \in Volumes, v.type = "exfat", NEW o \in Objects, NEW s, Shape(v, o, s),
         NEW r \in FillFirst(v, o), r.ret = OK
  PROVE  Shape(r.v, r.o, s) /\ r.o.n_frag = o.n_frag /\ r.o.stat \in {0, 2} /\ Patched(v, r.v, s)
<1>1. /\ s \in Seq(Clst) /\ Len(s) \in Nat /\ o.n_frag \in 0 .. Len(s) /\ o.n_cont \in Nat
      /\ o.stat \in {0, 2, 3} /\ \A i \in 1 .. Len(s) : s[i] \in Clst /\ s[i] \in Nat
      /\ (o.stat = 3 => o.n_cont + 1 < Len(s) /\ o.n_frag <= Len(s) - o.n_cont - 1)
      /\ (Len(s) > 0 => o.sclust = s[1])
  BY ShapeFields
<1>2. /\ r.v \in Volumes /\ SameBut(v, r.v) /\ r.o \in Objects /\ r.o.sclust = o.sclust
      /\ r.o.n_frag = o.n_frag
      /\ IF o.stat # 3 THEN r.v = v /\ r.o = o
         ELSE r.v = PutRun(v, o.sclust, o.n_cont, o.n_cont + 1, EOC) /\ r.o.stat = 0
  BY FillFirstOutcomes
<1>3. CASE o.stat # 3
  <2>1. r.v = v /\ r.o = o
    BY <1>2, <1>3
  <2>2. Patched(v, r.v, s)
    BY <2>1 DEF Patched, SameBut
  <2> QED
    BY <1>1, <1>3, <2>1, <2>2
<1>4. CASE o.stat = 3
  <2> DEFINE n == o.n_cont
             w == PutRun(v, s[1], n, n + 1, EOC)
  <2>1. r.v = w /\ r.o.stat = 0 /\ Len(s) > 0
    BY <1>1, <1>2, <1>4
  <2>2. n + 2 <= Len(s) /\ Run(s, 1, n + 1) /\ Linked(v, s, n + 1, Len(s) - Edge(o))
        /\ (o.n_frag > 0 => Run(s, Len(s) - o.n_frag + 1, Len(s)))
        /\ (o.n_frag = 0 => v.fat[s[Len(s)]] = EOC)
        /\ s \in Seq(Clst) /\ Injective(s) /\ (o.sclust = IF Len(s) = 0 THEN 0 ELSE s[1])
    BY <1>4, <2>1 DEF Shape, First
  <2>3. n \in Nat /\ 1 \in 1 .. Len(s) /\ 1 + n - 1 <= Len(s) /\ n + 1 \in Nat /\ 1 + n - 1 = n
        /\ 1 + (n + 1) - 1 = n + 1
    <3>1. n \in Nat /\ Len(s) \in Nat
      BY <1>1
    <3> HIDE DEF n
    <3> QED
      BY <2>2, <3>1
  <2> HIDE DEF n
  <2>4. Run(s, 1, 1 + n - 1)
    BY <2>2, <2>3 DEF Run
  <2>5. RunLinked(v, w, s, 1, n, n + 1, EOC)
    BY <2>2, <2>3, <2>4, RunPut
  <2> HIDE DEF w
  <2>6. /\ \A i \in 1 .. Len(s) : w.fat[s[i]] = IF i \in 1 .. n THEN s[i] + 1 ELSE v.fat[s[i]]
        /\ \A d \in Clst : d \notin Range(s) => w.fat[d] = v.fat[d]
    BY <2>3, <2>5 DEF RunLinked
  <2>7. Patched(v, r.v, s)
    BY <1>2, <2>1, <2>6 DEF Patched
  <2>8. First(r.o) = 1 /\ Edge(r.o) = Edge(o) /\ Edge(o) \in 1 .. Len(s)
    BY <1>1, <1>2, <2>1 DEF First, Edge
  <2>9. Linked(w, s, First(r.o), Len(s) - Edge(r.o))
    <3> SUFFICES ASSUME NEW i \in 1 .. Len(s) - Edge(o) PROVE w.fat[s[i]] = s[i + 1]
      BY <2>8 DEF Linked
    <3>1. i \in 1 .. Len(s) /\ i + 1 \in 1 .. Len(s)
      BY <1>1, <2>8
    <3>2. CASE i \in 1 .. n
      <4>1. i \in 1 .. n + 1 /\ i + 1 \in 1 .. n + 1
        BY <2>3, <3>2
      <4>2. s[i] = s[1] + (i - 1) /\ s[i + 1] = s[1] + (i + 1 - 1) /\ s[1] \in Nat
        BY <1>1, <2>2, <2>3, <4>1 DEF Run
      <4>3. s[i + 1] = s[i] + 1
        BY <3>1, <4>2
      <4> QED
        BY <2>6, <3>1, <3>2, <4>3
    <3>3. CASE i \notin 1 .. n
      <4>1. i \in n + 1 .. Len(s) - Edge(o)
        BY <2>3, <3>3
      <4> QED
        BY <2>2, <2>6, <3>1, <3>3, <4>1 DEF Linked
    <3> QED
      BY <3>2, <3>3
  <2>10. o.n_frag = 0 => w.fat[s[Len(s)]] = EOC
    <3>1. Len(s) \in 1 .. Len(s) /\ Len(s) \notin 1 .. n
      BY <1>1, <2>2, <2>3
    <3> QED
      BY <2>2, <2>6, <3>1
  <2>11. r.o.sclust = (IF Len(s) = 0 THEN 0 ELSE s[1]) /\ r.o.n_frag <= Len(s)
         /\ r.o.stat # 2 /\ r.o.stat # 3 /\ r.o.n_frag = o.n_frag
    BY <1>1, <1>2, <2>1, <2>2
  <2>12. Shape(w, r.o, s)
    BY <2>2, <2>9, <2>10, <2>11 DEF Shape
  <2> QED
    BY <1>2, <2>1, <2>7, <2>12
<1> QED
  BY <1>3, <1>4

\* f_sync leaves the whole chain of a file on the FAT, or implied by its status.
LEMMA SettledSound ==
  ASSUME NEW v \in Volumes, NEW o \in Objects, Plain(v, o), NEW s, Shape(v, o, s),
         NEW clust \in 0 .. EOC, o.n_frag > 0 => clust = s[Len(s)],
         NEW r \in Settled(v, o, clust), r.ret = OK
  PROVE  /\ Shape(r.v, r.o, s) /\ r.o.n_frag = 0 /\ r.o.stat \in {0, 2} /\ Patched(v, r.v, s)
<1>1. CASE v.type # "exfat"
  <2>1. r = Outcome(v, o, OK)
    BY <1>1 DEF Settled
  <2>2. r.v = v /\ r.o = o
    BY <2>1, OutcomeFields
  <2>3. v.type = "fat32"
    BY <1>1 DEF Volumes
  <2> QED
    BY <2>2, <2>3 DEF Plain, Patched, SameBut
<1>2. CASE v.type = "exfat"
  <2>1. OK # DISK
    BY FatAssumption
  <2>2. PICK q \in FillFirst(v, o) : q.ret = OK /\ r \in FillLast(q.v, q.o, clust, EOC)
    BY <1>2, <2>1 DEF Settled
  <2>3. /\ Shape(q.v, q.o, s) /\ q.o.n_frag = o.n_frag /\ q.o.stat \in {0, 2} /\ Patched(v, q.v, s)
    BY <1>2, <2>2, FirstFlushed
  <2>4. q.v \in Volumes /\ q.o \in Objects
    BY <2>2, FillFirstOutcomes
  <2>5. q.v.type = "exfat"
    BY <1>2, <2>3 DEF Patched, SameBut
  <2>6. q.o.n_frag > 0 => clust = s[Len(s)]
    BY <2>3
  <2>7. /\ Shape(r.v, r.o, s) /\ r.o.n_frag = 0 /\ Patched(q.v, r.v, s)
    BY <2>2, <2>3, <2>4, <2>5, <2>6, EdgeFlushed
  <2>8. r.o.stat = q.o.stat
    <3>1. EOC \in 0 .. EOC
      BY FatAssumption
    <3> QED
      BY <2>2, <2>4, <3>1, FillLastOutcomes
  <2>9. Patched(v, r.v, s)
    BY <2>3, <2>7 DEF Patched, SameBut
  <2> QED
    BY <2>3, <2>7, <2>8, <2>9
<1> QED
  BY <1>1, <1>2

\* Nothing but a disk error keeps f_sync from doing so.
LEMMA SettledExists ==
  ASSUME NEW v, NEW o \in Objects, NEW clust
  PROVE  \E r \in Settled(v, o, clust) : r.ret = OK
<1>1. CASE v.type # "exfat"
  <2>1. Outcome(v, o, OK) \in Settled(v, o, clust)
    BY <1>1 DEF Settled
  <2> QED
    BY <2>1, OutcomeFields
<1>2. CASE v.type = "exfat"
  <2>1. PICK q \in FillFirst(v, o) : q.ret = OK /\ q.o.n_frag = o.n_frag
    <3>1. CASE o.stat # 3
      <4>1. Outcome(v, o, OK) \in FillFirst(v, o)
        BY <3>1 DEF FillFirst
      <4> QED
        BY <4>1, OutcomeFields
    <3>2. CASE o.stat = 3
      <4> DEFINE p == [o EXCEPT !.stat = 0]
                 w == PutRun(v, o.sclust, o.n_cont, o.n_cont + 1, EOC)
      <4>1. Outcome(w, p, OK) \in FillFirst(v, o)
        BY <3>2 DEF FillFirst
      <4>2. p.n_frag = o.n_frag
        BY DEF Objects
      <4> HIDE DEF p, w
      <4> QED
        BY <4>1, <4>2, OutcomeFields
    <3> QED
      BY <3>1, <3>2
  <2> DEFINE n == q.o.n_frag
             r == Outcome(PutRun(q.v, clust - n + 1, n, n, EOC), [q.o EXCEPT !.n_frag = n - n], OK)
  <2>2. n \in 0 .. n
    BY <2>1, FatAssumption DEF Objects
  <2>3. r \in FillLast(q.v, q.o, clust, EOC)
    BY <2>2 DEF FillLast
  <2>4. r.ret = OK
    BY OutcomeFields
  <2> HIDE DEF r
  <2>5. r \in Settled(v, o, clust)
    BY <1>2, <2>1, <2>3 DEF Settled
  <2> QED
    BY <2>4, <2>5
<1> QED
  BY <1>1, <1>2

-----------------------------------------------------------------------------
\* Clusters are given back

LEMMA ReleasedIs ==
  ASSUME NEW v \in Volumes, NEW u \in Seq(Clst)
  PROVE  LET w == Released(v, u)
             n == v.free + Len(u)
         IN  /\ w \in Volumes /\ w.type = v.type
             /\ w.free = IF v.free >= Clusters THEN v.free ELSE IF n > Clusters THEN Clusters ELSE n
             /\ \A d \in Clst : IsFree(w, d) <=> IsFree(v, d) \/ d \in Range(u)
             /\ \A d \in Clst : v.type = "exfat" \/ d \notin Range(u) => w.fat[d] = v.fat[d]
<1> DEFINE w == Released(v, u)
           n == v.free + Len(u)
           free == IF v.free >= Clusters THEN v.free ELSE IF n > Clusters THEN Clusters ELSE n
           used == IF v.type = "exfat" THEN v.used \ Range(u) ELSE v.used
           fat  == IF v.type = "exfat" THEN v.fat
                   ELSE [c \in Clst |-> IF c \in Range(u) THEN FREE ELSE v.fat[c]]
<1>1. w \in Volumes /\ w.type = v.type
  BY ReleasedType
<1>2. w = [v EXCEPT !.free = free, !.used = used, !.fat = fat]
  BY DEF Released, Volumes
<1> HIDE DEF free, used, fat, w
<1>3. w.free = free /\ w.used = used /\ w.fat = fat
  BY <1>2 DEF Volumes
<1>4. \A d \in Clst : fat[d] = IF v.type # "exfat" /\ d \in Range(u) THEN FREE ELSE v.fat[d]
  BY DEF fat
<1>5. \A d \in Clst : IsFree(w, d) <=> IsFree(v, d) \/ d \in Range(u)
  <2>1. CASE v.type = "exfat"
    BY <1>1, <1>3, <2>1 DEF IsFree, used
  <2>2. CASE v.type # "exfat"
    BY <1>1, <1>3, <1>4, <2>2 DEF IsFree
  <2> QED
    BY <2>1, <2>2
<1>6. \A d \in Clst : v.type = "exfat" \/ d \notin Range(u) => w.fat[d] = v.fat[d]
  BY <1>3, <1>4
<1> QED
  BY <1>1, <1>3, <1>5, <1>6 DEF w, free

\* As many clusters more are free as were given back.
LEMMA CountMore ==
  ASSUME NEW v \in Volumes, NEW w \in Volumes, NEW u \in Seq(Clst), Injective(u), Taken(v, u),
         \A d \in Clst : IsFree(w, d) <=> IsFree(v, d) \/ d \in Range(u)
  PROVE  /\ CountFree(v) \in Nat /\ Len(u) \in Nat /\ CountFree(w) = CountFree(v) + Len(u)
         /\ CountFree(w) \in 0 .. Clusters
<1> DEFINE S == {d \in Clst : IsFree(v, d)}
           T == {d \in Clst : IsFree(w, d)}
<1>1. IsFiniteSet(Range(u)) /\ Cardinality(Range(u)) = Len(u) /\ Len(u) \in Nat
  BY InjectiveSize, SeqFacts
<1>2. Range(u) \subseteq Clst
  BY RangeIs
<1>3. T = S \cup Range(u) /\ S \cap Range(u) = {}
  BY <1>2 DEF Taken
<1>4. IsFiniteSet(S)
  <2>1. IsFiniteSet(Clst)
    <3>1. 2 \in Int /\ Clusters + 1 \in Int
      BY FatAssumption
    <3> QED
      BY <3>1, FS_Interval
  <2>2. S \subseteq Clst
    OBVIOUS
  <2> HIDE DEF S
  <2> QED
    BY <2>1, <2>2, FS_Subset
<1>5. CountFree(v) = Cardinality(S) /\ CountFree(w) = Cardinality(T)
  BY DEF CountFree
<1>6. CountFree(w) \in 0 .. Clusters
  BY CountFreeType
<1> HIDE DEF S, T
<1>7. Cardinality(S) \in Nat /\ Cardinality(S \cap Range(u)) = 0
  BY <1>3, <1>4, FS_CardinalityType, FS_EmptySet
<1>8. Cardinality(S \cup Range(u)) = Cardinality(S) + Cardinality(Range(u)) - Cardinality(S \cap Range(u))
  BY <1>1, <1>4, FS_Union
<1>9. Cardinality(T) = Cardinality(S) + Len(u)
  BY <1>1, <1>3, <1>7, <1>8
<1> QED
  BY <1>1, <1>5, <1>6, <1>7, <1>9

LEMMA ReleasedCounts ==
  ASSUME NEW v \in Volumes, NEW u \in Seq(Clst), Injective(u), Taken(v, u)
  PROVE  FreeKnown(v) => FreeKnown(Released(v, u))
<1> DEFINE w == Released(v, u)
<1>1. /\ w \in Volumes
      /\ w.free = IF v.free >= Clusters THEN v.free
                  ELSE IF v.free + Len(u) > Clusters THEN Clusters ELSE v.free + Len(u)
      /\ \A d \in Clst : IsFree(w, d) <=> IsFree(v, d) \/ d \in Range(u)
  BY ReleasedIs
<1> HIDE DEF w
<1>2. /\ CountFree(v) \in Nat /\ Len(u) \in Nat /\ CountFree(w) = CountFree(v) + Len(u)
      /\ CountFree(w) \in 0 .. Clusters
  BY <1>1, CountMore
<1>3. v.free \in 0 .. Clusters \cup {UNKNOWN} /\ Clusters \in Nat
  BY FatAssumption DEF Volumes
<1>4. CASE v.free = UNKNOWN
  <2>1. w.free = UNKNOWN
    BY <1>1, <1>3, <1>4
  <2> QED
    BY <2>1 DEF FreeKnown, w
<1>5. CASE v.free # UNKNOWN /\ v.free = CountFree(v)
  <2>1. w.free = CountFree(w)
    BY <1>1, <1>2, <1>3, <1>5
  <2> QED
    BY <2>1 DEF FreeKnown, w
<1> QED
  BY <1>4, <1>5 DEF FreeKnown

\* get_fat looks at one entry of the FAT.
LEMMA GetFatLocal ==
  ASSUME NEW v, NEW w, NEW o, NEW c, w.type = v.type, w.fat[c] = v.fat[c]
  PROVE  GetFat(w, o, c) = GetFat(v, o, c)
  BY Zenon DEF GetFat

\* The two pieces of a chain
LEMMA Pieces ==
  ASSUME NEW s \in Seq(Clst), Injective(s), NEW k \in 0 .. Len(s)
  PROVE  LET t == SubSeq(s, 1, k)
             u == SubSeq(s, k + 1, Len(s))
         IN  /\ t \in Seq(Clst) /\ Len(t) = k /\ (\A i \in 1 .. k : t[i] = s[i]) /\ Injective(t)
             /\ u \in Seq(Clst) /\ Len(u) = Len(s) - k /\ Injective(u)
             /\ \A i \in 1 .. Len(s) - k : u[i] = s[k + i]
             /\ \A d : d \in Range(s) <=> d \in Range(t) \/ d \in Range(u)
             /\ \A d : ~(d \in Range(t) /\ d \in Range(u))
<1> DEFINE t == SubSeq(s, 1, k)
           u == SubSeq(s, k + 1, Len(s))
           m == Len(s)
<1>1. m \in Nat /\ k \in Nat /\ \A i \in 1 .. m : s[i] \in Clst
  <2>1. Len(s) \in Nat /\ \A i \in 1 .. Len(s) : s[i] \in Clst
    BY SeqFacts
  <2> QED
    BY <2>1
<1>2. t \in Seq(Clst) /\ Len(t) = k /\ \A i \in 1 .. k : t[i] = s[i]
  BY Prefix
<1>3. u \in Seq(Clst) /\ Len(u) = m - k /\ \A i \in 1 .. m - k : u[i] = s[k + i]
  <2>1. k + 1 \in Int /\ m \in Int /\ \A i \in k + 1 .. m : s[i] \in Clst
    BY <1>1
  <2>2. /\ u \in Seq(Clst) /\ Len(u) = (IF k + 1 <= m THEN m - (k + 1) + 1 ELSE 0)
        /\ \A i \in 1 .. m - (k + 1) + 1 : u[i] = s[(k + 1) + i - 1]
    BY <2>1, SubSeqProperties
  <2> HIDE DEF u
  <2>3. (IF k + 1 <= m THEN m - (k + 1) + 1 ELSE 0) = m - k
    BY <1>1
  <2>4. ASSUME NEW i \in 1 .. m - k PROVE u[i] = s[k + i]
    <3>1. i \in 1 .. m - (k + 1) + 1 /\ (k + 1) + i - 1 = k + i
      BY <1>1
    <3> QED
      BY <2>2, <3>1
  <2> QED
    BY <2>2, <2>3, <2>4
<1> HIDE DEF t, u
<1>4. \A i, j \in 1 .. m : s[i] = s[j] => i = j
  BY DEF Injective
<1> HIDE DEF m
<1>5. Injective(t)
  <2>1. \A i \in 1 .. k : i \in 1 .. m
    BY <1>1 DEF m
  <2> QED
    BY <1>2, <1>4, <2>1 DEF Injective
<1>6. Injective(u)
  <2> SUFFICES ASSUME NEW i \in 1 .. m - k, NEW j \in 1 .. m - k, u[i] = u[j] PROVE i = j
    BY <1>3 DEF Injective
  <2>1. k + i \in 1 .. m /\ k + j \in 1 .. m
    BY <1>1
  <2>2. k + i = k + j
    BY <1>3, <1>4, <2>1
  <2> QED
    BY <1>1, <2>2
<1>7. \A d : d \in Range(s) <=> \E i \in 1 .. m : s[i] = d
  BY RangeIs DEF m
<1>8. \A d : d \in Range(t) <=> \E i \in 1 .. k : t[i] = d
  <2>1. t \in Seq(Clst) /\ Len(t) = k
    BY <1>2
  <2>2. \A d : d \in Range(t) <=> \E i \in 1 .. Len(t) : t[i] = d
    BY <2>1, RangeIs
  <2> QED
    BY <2>1, <2>2
<1>9. \A d : d \in Range(u) <=> \E i \in 1 .. m - k : u[i] = d
  BY <1>3, RangeIs
<1>10. ASSUME NEW d, d \in Range(s) PROVE d \in Range(t) \/ d \in Range(u)
  <2>1. PICK i \in 1 .. m : s[i] = d
    BY <1>7, <1>10
  <2>2. CASE i <= k
    <3>1. i \in 1 .. k
      BY <2>2
    <3> QED
      BY <1>2, <1>8, <2>1, <3>1
  <2>3. CASE i > k
    <3>1. i - k \in 1 .. m - k /\ k + (i - k) = i
      BY <1>1, <2>3
    <3>2. u[i - k] = d
      BY <1>3, <2>1, <3>1
    <3> QED
      BY <1>9, <3>1, <3>2
  <2> QED
    BY <1>1, <2>2, <2>3
<1>11. ASSUME NEW d, d \in Range(t) PROVE d \in Range(s) /\ d \notin Range(u)
  <2>1. PICK i \in 1 .. k : t[i] = d
    BY <1>8, <1>11
  <2>2. i \in 1 .. m /\ s[i] = d
    BY <1>1, <1>2, <2>1 DEF m
  <2>3. ASSUME NEW j \in 1 .. m - k, u[j] = d PROVE FALSE
    <3>1. k + j \in 1 .. m /\ s[k + j] = d /\ k + j # i
      BY <1>1, <1>3, <2>3
    <3> QED
      BY <1>4, <2>2, <3>1
  <2> QED
    BY <1>7, <1>9, <2>2, <2>3
<1>12. ASSUME NEW d, d \in Range(u) PROVE d \in Range(s)
  <2>1. PICK j \in 1 .. m - k : u[j] = d
    BY <1>9, <1>12
  <2>2. k + j \in 1 .. m /\ s[k + j] = d
    BY <1>1, <1>3, <2>1
  <2> QED
    BY <1>7, <2>2
<1> QED
  BY <1>2, <1>3, <1>5, <1>6, <1>10, <1>11, <1>12 DEF t, u, m

\* The end of a chain is given back, and what is left keeps its links.
LEMMA ReleasedTail ==
  ASSUME NEW v \in Volumes, NEW x \in Volumes, NEW s \in Seq(Clst), Injective(s), Taken(v, s),
         NEW k \in 0 .. Len(s), x.type = v.type, x.used = v.used, x.free = v.free,
         \A d \in Clst : x.fat[d] = v.fat[d] \/ (d \in Range(SubSeq(s, 1, k)) /\ x.fat[d] = EOC)
  PROVE  LET w == Released(x, SubSeq(s, k + 1, Len(s)))
         IN  /\ w \in Volumes /\ Rechained(v, w, s, SubSeq(s, 1, k))
             /\ \A d \in Range(SubSeq(s, 1, k)) : w.fat[d] = x.fat[d]
<1> DEFINE t == SubSeq(s, 1, k)
           u == SubSeq(s, k + 1, Len(s))
           w == Released(x, u)
<1>1. /\ t \in Seq(Clst) /\ Injective(t)
      /\ u \in Seq(Clst) /\ Injective(u)
      /\ \A d : d \in Range(s) <=> d \in Range(t) \/ d \in Range(u)
      /\ \A d : ~(d \in Range(t) /\ d \in Range(u))
  BY Pieces
<1> HIDE DEF t, u
<1>2. EOC # 0
  BY FatAssumption
<1>3. ASSUME NEW d \in Clst PROVE IsFree(x, d) <=> IsFree(v, d)
  <2>1. CASE x.fat[d] = v.fat[d]
    BY <2>1 DEF IsFree
  <2>2. CASE d \in Range(t) /\ x.fat[d] = EOC
    <3>1. ~IsFree(v, d)
      BY <1>1, <2>2 DEF Taken
    <3>2. CASE v.type = "exfat"
      BY <3>2 DEF IsFree
    <3>3. CASE v.type # "exfat"
      BY <1>2, <2>2, <3>1, <3>3 DEF IsFree
    <3> QED
      BY <3>2, <3>3
  <2> QED
    BY <2>1, <2>2 DEF t
<1>4. Taken(x, u)
  BY <1>1, <1>3 DEF Taken
<1>5. /\ w \in Volumes /\ w.type = x.type
      /\ \A d \in Clst : IsFree(w, d) <=> IsFree(x, d) \/ d \in Range(u)
      /\ \A d \in Clst : x.type = "exfat" \/ d \notin Range(u) => w.fat[d] = x.fat[d]
  BY <1>1, ReleasedIs
<1>6. FreeKnown(x) => FreeKnown(w)
  BY <1>1, <1>4, ReleasedCounts
<1> HIDE DEF w
<1>7. FreeKnown(v) => FreeKnown(x)
  BY <1>3, FreeAlike
<1>8. \A c \in Clst : c \notin Range(s) /\ c \notin Range(t) => w.fat[c] = v.fat[c]
  BY <1>1, <1>5 DEF t
<1>9. \A c \in Clst : IsFree(w, c) <=> c \notin Range(t) /\ (IsFree(v, c) \/ c \in Range(s))
  BY <1>1, <1>3, <1>5 DEF Taken
<1>10. \A c \in Clst : c \in Range(t) => c \in Range(s) \/ IsFree(v, c)
  BY <1>1
<1>11. Rechained(v, w, s, t)
  BY <1>5, <1>6, <1>7, <1>8, <1>9, <1>10 DEF Rechained
<1>12. \A d \in Range(t) : w.fat[d] = x.fat[d]
  <2>1. Range(t) \subseteq Clst
    BY <1>1, RangeIs
  <2> QED
    BY <1>1, <1>5, <2>1
<1> QED
  BY <1>5, <1>11, <1>12 DEF t, u, w

LEMMA EmptyShape ==
  ASSUME NEW v, NEW o \in Objects, o.sclust = 0, o.n_frag = 0, o.stat = 0
  PROVE  Shape(v, o, <<>>) /\ Len(<<>>) = 0
<1>1. <<>> \in Seq(Clst) /\ Len(<<>>) = 0
  OBVIOUS
<1> DEFINE e == <<>>
<1>2. e \in Seq(Clst) /\ Len(e) = 0
  BY <1>1
<1> HIDE DEF e
<1>3. Injective(e)
  BY <1>2 DEF Injective
<1>4. o.sclust = IF Len(e) = 0 THEN 0 ELSE e[1]
  BY <1>2
<1>5. First(o) = 1 /\ Edge(o) = 1
  BY DEF First, Edge
<1>6. Linked(v, e, First(o), Len(e) - Edge(o))
  BY <1>2, <1>5 DEF Linked
<1>7. o.n_frag <= Len(e) /\ ~(o.n_frag > 0) /\ ~(Len(e) > 0)
  BY <1>2
<1>9. Shape(v, o, e)
  BY <1>2, <1>3, <1>4, <1>6, <1>7 DEF Shape
<1> QED
  BY <1>1, <1>9 DEF e

\* The status of an object that has lost all its clusters
LEMMA EmptiedStatus ==
  ASSUME NEW v \in Volumes, NEW o \in Objects, Plain(v, o)
  PROVE  LET p == Shortened(v, o, 0)
         IN  p \in Objects /\ p.n_frag = o.n_frag /\ p.stat = 0
<1>1. CASE v.type # "exfat"
  <2>1. v.type = "fat32"
    BY <1>1 DEF Volumes
  <2>2. Shortened(v, o, 0) = o /\ o.stat = 0
    BY <1>1, <2>1 DEF Shortened, Plain
  <2> QED
    BY <2>2
<1>2. CASE v.type = "exfat"
  <2>1. Shortened(v, o, 0) = [o EXCEPT !.stat = 0]
    BY <1>2 DEF Shortened
  <2> QED
    BY <2>1 DEF Objects
<1> QED
  BY <1>1, <1>2

\* remove_chain of a whole chain
LEMMA RemovedWhole ==
  ASSUME NEW v \in Volumes, NEW o \in Objects, Plain(v, o), NEW s, Shape(v, o, s), Taken(v, s),
         o.n_frag = 0, Whole(o, s), Len(s) > 0,
         NEW r \in RemoveChain(v, o, o.sclust, 0), r.ret # DISK
  PROVE  /\ r.ret = OK /\ Rechained(v, r.v, s, <<>>)
         /\ r.o \in Objects /\ r.o.n_frag = 0 /\ r.o.stat = 0
<1>1. /\ s \in Seq(Clst) /\ Len(s) \in Nat /\ Injective(s) /\ o.sclust = s[1]
      /\ \A i \in 1 .. Len(s) : s[i] \in Clst
  BY ShapeFields
<1>2. \A i \in 1 .. Len(s) : GetFat(v, o, s[i]) = IF i < Len(s) THEN s[i + 1] ELSE EOC
  BY NextOf
<1>3. Walk(v, o, o.sclust) = s
  BY <1>1, <1>2, WalkChain
<1>4. GetFat(v, o, Last(s)) = EOC
  <2>1. Len(s) \in 1 .. Len(s) /\ Last(s) = s[Len(s)]
    BY <1>1 DEF Last
  <2> QED
    BY <1>2, <2>1
<1>5. o.sclust \in Clst /\ EOC # INT_ERR
  BY <1>1, FatAssumption
<1>6. v.type = "exfat" => Range(s) \subseteq v.used
  <2>1. Range(s) \subseteq Clst
    BY <1>1, RangeIs
  <2> QED
    BY <2>1 DEF Taken, IsFree
<1> DEFINE w == Released(v, s)
           p == Shortened(v, o, 0)
<1>7. RemoveChain(v, o, o.sclust, 0) =
        {Stopped(v, o)} \cup Halfway(v, s, o)
        \cup {Outcome(w, p, OK)}
  BY <1>3, <1>4, <1>5, <1>6 DEF RemoveChain
<1>8. \A x : Stopped(x, o).ret = DISK
  BY OutcomeFields DEF Stopped
<1>9. r = Outcome(w, p, OK)
  <2> HIDE DEF w, p
  <2>1. r \notin Halfway(v, s, o)
    BY HalfwayStopped
  <2> QED
    BY <1>7, <1>8, <2>1
<1>10. r.v = w /\ r.o = p /\ r.ret = OK
  BY <1>9, OutcomeFields
<1>11. Rechained(v, w, s, <<>>)
  <2> DEFINE k == 0
  <2>1. k \in 0 .. Len(s)
    BY <1>1
  <2>2. SubSeq(s, 1, k) = <<>> /\ SubSeq(s, k + 1, Len(s)) = s
    BY <1>1, SubSeqEmpty, SubSeqFull
  <2> HIDE DEF k
  <2>3. Rechained(v, Released(v, SubSeq(s, k + 1, Len(s))), s, SubSeq(s, 1, k))
    BY <1>1, <2>1, ReleasedTail
  <2> QED
    BY <2>2, <2>3
<1>12. p \in Objects /\ p.n_frag = o.n_frag /\ p.stat = 0
  BY EmptiedStatus
<1> HIDE DEF w, p
<1> QED
  BY <1>10, <1>11, <1>12

\* What the status of a shortened object is
LEMMA ShortenedStatus ==
  ASSUME NEW x, NEW o \in Objects, NEW c, c # 0
  PROVE  LET p == Shortened(x, o, c)
             t == Walk(x, o, o.sclust)
         IN  /\ x.type # "exfat" => p.stat = o.stat
             /\ x.type = "exfat" /\ o.stat = 0 =>
                  p.stat = IF \A i \in 1 .. Len(t) : t[i] = o.sclust + i - 1 THEN 2 ELSE 0
             /\ x.type = "exfat" /\ o.stat = 3 =>
                  p.stat = IF c >= o.sclust /\ c <= o.sclust + o.n_cont THEN 2 ELSE 3
             /\ x.type = "exfat" /\ o.stat = 2 => p.stat = 2
<1> DEFINE t == Walk(x, o, o.sclust)
           q(n) == [o EXCEPT !.stat = n]
<1>1. \A n : q(n).stat = n
  BY DEF Objects
<1>2. Shortened(x, o, c) =
        IF x.type # "exfat" THEN o
        ELSE IF o.stat = 0
        THEN q(IF \A i \in 1 .. Len(t) : t[i] = o.sclust + i - 1 THEN 2 ELSE o.stat)
        ELSE IF o.stat = 3 /\ c >= o.sclust /\ c <= o.sclust + o.n_cont THEN q(2)
        ELSE o
  BY DEF Shortened
<1> HIDE DEF t, q
<1> QED
  BY <1>1, <1>2 DEF t

\* It fits what is left: the links up to the cut, and an end there.
LEMMA ShortenedSound ==
  ASSUME NEW v \in Volumes, NEW x \in Volumes, NEW w, NEW o \in Objects, Plain(v, o),
         NEW s, Shape(v, o, s), o.n_frag = 0, NEW k \in 1 .. Len(s), x.type = v.type,
         NEW t \in Seq(Clst), Injective(t), Len(t) = k, \A i \in 1 .. k : t[i] = s[i],
         \A i \in 1 .. k : w.fat[t[i]] = IF i = k /\ o.stat # 2 THEN EOC ELSE v.fat[s[i]],
         v.type = "exfat" /\ o.stat = 0 => Walk(x, o, o.sclust) = t
  PROVE  Shape(w, Shortened(x, o, s[k]), t)
<1> DEFINE c == s[k]
           p == Shortened(x, o, c)
           m == Len(s)
<1>1. /\ s \in Seq(Clst) /\ m \in Nat /\ Injective(s) /\ o.n_cont \in Nat /\ o.stat \in {0, 2, 3}
      /\ (\A i \in 1 .. m : s[i] \in Clst /\ s[i] \in Nat)
      /\ (m > 0 => o.sclust = s[1])
      /\ (o.stat = 3 => o.n_cont + 1 \in 1 .. m /\ o.n_cont + 1 < m)
  BY ShapeFields
<1>2. /\ o.stat = 2 => Run(s, 1, m)
      /\ o.stat = 3 => Run(s, 1, o.n_cont + 1)
      /\ o.stat # 2 => Linked(v, s, First(o), m - 1)
  BY DEF Shape, Edge
<1>3. k \in Nat /\ k >= 1 /\ k <= m
  BY <1>1
<1> HIDE DEF m
<1>4. c \in Clst /\ c \in Nat /\ c # 0
  <2>1. k \in 1 .. m
    BY <1>1, <1>3
  <2>2. c \in Clst /\ c \in Nat
    BY <1>1, <2>1
  <2> HIDE DEF c
  <2> QED
    BY <2>2
<1> HIDE DEF c
<1>5. /\ p \in Objects /\ p.sclust = o.sclust /\ p.n_cont = o.n_cont /\ p.n_frag = o.n_frag
      /\ p.stat \in {0, 2, o.stat}
  BY ShortenedType
<1>6. /\ x.type # "exfat" => p.stat = o.stat
      /\ x.type = "exfat" /\ o.stat = 0 =>
           p.stat = IF \A i \in 1 .. Len(Walk(x, o, o.sclust)) :
                         Walk(x, o, o.sclust)[i] = o.sclust + i - 1 THEN 2 ELSE 0
      /\ x.type = "exfat" /\ o.stat = 3 =>
           p.stat = IF c >= o.sclust /\ c <= o.sclust + o.n_cont THEN 2 ELSE 3
      /\ x.type = "exfat" /\ o.stat = 2 => p.stat = 2
  BY <1>4, ShortenedStatus
<1>7. v.type # "exfat" => o.stat = 0
  BY DEF Volumes, Plain
<1> HIDE DEF p
<1>8. o.sclust = s[1] /\ t[1] = s[1] /\ 1 \in 1 .. m /\ s[1] \in Nat
  BY <1>1, <1>3
<1>9. o.stat = 3 => (k <= o.n_cont + 1 <=> c >= o.sclust /\ c <= o.sclust + o.n_cont)
  <2> SUFFICES ASSUME o.stat = 3
               PROVE  k <= o.n_cont + 1 <=> c >= o.sclust /\ c <= o.sclust + o.n_cont
    OBVIOUS
  <2>1. Run(s, 1, o.n_cont + 1) /\ o.n_cont + 1 \in 1 .. m
    BY <1>1, <1>2
  <2>2. CASE k <= o.n_cont + 1
    <3>1. k \in 1 .. o.n_cont + 1
      BY <1>3, <2>2
    <3>2. c = s[1] + (k - 1)
      BY <2>1, <3>1 DEF Run, c
    <3> QED
      BY <1>1, <1>3, <1>8, <2>2, <3>2
  <2>3. CASE c >= o.sclust /\ c <= o.sclust + o.n_cont
    <3> DEFINE n == o.n_cont + 1
    <3>1. n \in 1 .. Len(s) /\ k \in 1 .. Len(s)
      BY <1>3, <2>1 DEF m
    <3>2. s[k] >= s[1] /\ s[k] - s[1] < n
      BY <1>1, <1>4, <1>8, <2>3 DEF c
    <3> HIDE DEF n
    <3>3. Run(s, 1, n)
      BY <2>1 DEF n
    <3>4. k = s[k] - s[1] + 1
      BY <1>1, <3>1, <3>2, <3>3, RunHas
    <3> QED
      BY <1>1, <1>4, <1>8, <3>2, <3>4 DEF n, c
  <2> QED
    BY <2>2, <2>3
<1>10. ASSUME p.stat = 2 PROVE Run(t, 1, k)
  <2>1. CASE o.stat = 2
    <3>1. \A i \in 1 .. k : i \in 1 .. m
      BY <1>1, <1>3
    <3> QED
      BY <1>2, <1>8, <2>1, <3>1 DEF Run
  <2>2. CASE o.stat = 3
    <3>1. x.type = "exfat" /\ k <= o.n_cont + 1
      BY <1>6, <1>7, <1>9, <1>10, <2>2
    <3>2. \A i \in 1 .. k : i \in 1 .. o.n_cont + 1
      BY <1>1, <1>3, <3>1
    <3> QED
      BY <1>2, <1>8, <2>2, <3>2 DEF Run
  <2>3. CASE o.stat = 0
    <3>1. x.type = "exfat" /\ Walk(x, o, o.sclust) = t
      BY <1>6, <1>10, <2>3
    <3>2. \A i \in 1 .. k : t[i] = o.sclust + i - 1
      BY <1>6, <1>10, <2>3, <3>1
    <3> SUFFICES ASSUME NEW i \in 1 .. k PROVE t[i] = t[1] + (i - 1)
      BY DEF Run
    <3>3. t[i] = o.sclust + i - 1
      BY <3>2
    <3> QED
      BY <1>8, <3>3
  <2> QED
    BY <1>1, <2>1, <2>2, <2>3
<1>11. ASSUME p.stat # 2 PROVE o.stat # 2 /\ p.stat = o.stat
  BY <1>1, <1>6, <1>7, <1>11
<1>12. ASSUME p.stat = 3 PROVE p.n_cont + 2 <= k /\ Run(t, 1, p.n_cont + 1)
  <2>1. o.stat = 3 /\ ~(k <= o.n_cont + 1)
    BY <1>6, <1>7, <1>9, <1>11, <1>12
  <2>2. \A i \in 1 .. o.n_cont + 1 : i \in 1 .. k
    BY <1>1, <1>3, <2>1
  <2>3. Run(t, 1, o.n_cont + 1)
    BY <1>2, <1>8, <2>1, <2>2 DEF Run
  <2> QED
    BY <1>1, <1>3, <1>5, <2>1, <2>3
<1>13. First(p) \in Nat /\ First(p) >= 1 /\ Edge(p) = 1
  BY <1>1, <1>5 DEF First, Edge
<1>14. ASSUME p.stat # 2 PROVE Linked(w, t, First(p), k - 1)
  <2>1. o.stat # 2 /\ First(p) = First(o)
    BY <1>5, <1>11, <1>14 DEF First
  <2> SUFFICES ASSUME NEW i \in First(p) .. k - 1 PROVE w.fat[t[i]] = t[i + 1]
    BY DEF Linked
  <2>2. i \in First(o) .. m - 1 /\ i \in 1 .. k /\ i # k /\ i + 1 \in 1 .. k
    BY <1>3, <1>1, <1>13, <2>1
  <2>3. v.fat[s[i]] = s[i + 1]
    BY <1>2, <2>1, <2>2 DEF Linked
  <2> QED
    BY <2>2, <2>3
<1>15. ASSUME p.stat # 2 PROVE w.fat[t[k]] = EOC
  <2>1. k \in 1 .. k /\ o.stat # 2
    BY <1>3, <1>11, <1>15
  <2> QED
    BY <2>1
<1>16. p.n_frag = 0
  BY <1>5
<1> DEFINE n == Len(t)
<1>17. n = k
  OBVIOUS
<1> HIDE DEF n
<1>18. p.sclust = IF n = 0 THEN 0 ELSE t[1]
  BY <1>3, <1>5, <1>8, <1>17
<1>19. p.n_frag <= n
  BY <1>3, <1>16, <1>17
<1>20. p.stat = 2 => Run(t, 1, n) /\ p.n_frag = 0
  BY <1>10, <1>16, <1>17
<1>21. p.stat = 3 => /\ p.n_cont + 2 <= n /\ Run(t, 1, p.n_cont + 1)
                     /\ p.n_frag <= n - p.n_cont - 1
  BY <1>1, <1>3, <1>5, <1>12, <1>16, <1>17
<1>22. p.stat # 2 => Linked(w, t, First(p), n - Edge(p))
  BY <1>13, <1>14, <1>17
<1>23. p.n_frag > 0 => Run(t, n - p.n_frag + 1, n)
  BY <1>16
<1>24. n > 0 /\ p.n_frag = 0 /\ p.stat # 2 => w.fat[t[n]] = EOC
  BY <1>15, <1>17
<1>25. Shape(w, p, t)
  BY <1>18, <1>19, <1>20, <1>21, <1>22, <1>23, <1>24, Zenon DEF Shape, n
<1> QED
  BY <1>25 DEF p, c

\* get_fat follows s to its end.
Followed(v, o, s) ==
  \A i \in 1 .. Len(s) : GetFat(v, o, s[i]) = IF i < Len(s) THEN s[i + 1] ELSE EOC

LEMMA WalkFollowed ==
  ASSUME NEW v, NEW o, NEW s \in Seq(Clst), Injective(s), Len(s) > 0, Followed(v, o, s)
  PROVE  Walk(v, o, s[1]) = s
BY WalkChain DEF Followed

\* A chain cut behind its cluster number k
BothSides(s, k) ==
  LET t == SubSeq(s, 1, k)
      u == SubSeq(s, k + 1, Len(s))
  IN  /\ t \in Seq(Clst) /\ Len(t) = k /\ (\A i \in 1 .. k : t[i] = s[i]) /\ Injective(t)
      /\ u \in Seq(Clst) /\ Len(u) = Len(s) - k /\ Injective(u)
      /\ \A i \in 1 .. Len(s) - k : u[i] = s[k + i]

LEMMA CutSides ==
  ASSUME NEW s \in Seq(Clst), Injective(s), NEW k \in 0 .. Len(s)
  PROVE  BothSides(s, k)
BY Pieces, Zenon DEF BothSides

\* get_fat behind the cut, and before it when the links are on the FAT
LEMMA CutWalks ==
  ASSUME NEW v \in Volumes, NEW x \in Volumes, NEW o \in Objects, Plain(v, o),
         NEW s, Shape(v, o, s), o.n_frag = 0, Whole(o, s),
         NEW k \in 1 .. Len(s), k < Len(s), x.type = v.type,
         \A d \in Clst : d # s[k] => x.fat[d] = v.fat[d],
         o.stat # 2 => x.fat[s[k]] = EOC
  PROVE  LET t == SubSeq(s, 1, k)
             u == SubSeq(s, k + 1, Len(s))
         IN  /\ Len(u) > 0 /\ Walk(x, o, s[k + 1]) = u /\ GetFat(x, o, Last(u)) = EOC
             /\ v.type = "exfat" /\ o.stat = 0 => Walk(x, o, o.sclust) = t
<1> DEFINE t == SubSeq(s, 1, k)
           u == SubSeq(s, k + 1, Len(s))
           m == Len(s)
           e == m - k
<1>1. /\ s \in Seq(Clst) /\ m \in Nat /\ Injective(s) /\ o.stat \in {0, 2, 3}
      /\ (\A i \in 1 .. m : s[i] \in Clst /\ s[i] \in Nat)
      /\ (m > 0 => o.sclust = s[1])
  BY ShapeFields
<1>2. k \in 0 .. Len(s)
  BY <1>1
<1>3. /\ t \in Seq(Clst) /\ Len(t) = k /\ (\A i \in 1 .. k : t[i] = s[i]) /\ Injective(t)
      /\ u \in Seq(Clst) /\ Len(u) = e /\ Injective(u)
      /\ \A i \in 1 .. e : u[i] = s[k + i]
  <2>1. BothSides(s, k)
    BY <1>1, <1>2, CutSides
  <2> QED
    BY <2>1, Zenon DEF BothSides
<1>4. \A i \in 1 .. m : GetFat(v, o, s[i]) = IF i < m THEN s[i + 1] ELSE EOC
  BY NextOf
<1>5. \A i, j \in 1 .. m : s[i] = s[j] => i = j
  BY <1>1 DEF Injective
<1>6. k \in 1 .. m /\ k < m
  OBVIOUS
<1> HIDE DEF t, u, m
<1>7. e \in Nat /\ e > 0 /\ k \in Nat /\ k >= 1
  BY <1>1, <1>6
<1>8. ASSUME NEW i \in 1 .. m, i # k
      PROVE  GetFat(x, o, s[i]) = IF i < m THEN s[i + 1] ELSE EOC
  <2>1. s[i] # s[k] /\ s[i] \in Clst
    BY <1>1, <1>5, <1>6, <1>8
  <2>2. x.fat[s[i]] = v.fat[s[i]]
    BY <2>1
  <2>3. GetFat(x, o, s[i]) = GetFat(v, o, s[i])
    BY <2>2, GetFatLocal
  <2> QED
    BY <1>4, <2>3
<1> HIDE DEF e
<1>9. ASSUME NEW i \in 1 .. e PROVE GetFat(x, o, u[i]) = IF i < e THEN u[i + 1] ELSE EOC
  <2>1. k + i \in 1 .. m /\ k + i # k /\ (k + i < m <=> i < e) /\ k + i + 1 = k + (i + 1)
    BY <1>1, <1>6, <1>7 DEF e
  <2>2. u[i] = s[k + i]
    BY <1>3
  <2>3. GetFat(x, o, u[i]) = IF k + i < m THEN s[k + i + 1] ELSE EOC
    BY <1>8, <2>1, <2>2
  <2>4. CASE i < e
    <3>1. i + 1 \in 1 .. e
      BY <1>7, <2>4
    <3>2. u[i + 1] = s[k + (i + 1)]
      BY <1>3, <3>1
    <3> QED
      BY <2>1, <2>3, <2>4, <3>2
  <2>5. CASE ~(i < e)
    BY <2>1, <2>3, <2>5
  <2> QED
    BY <2>4, <2>5
<1>10. Walk(x, o, u[1]) = u
  <2>1. Followed(x, o, u)
    BY <1>3, <1>9 DEF Followed
  <2>2. Len(u) > 0
    BY <1>3, <1>7
  <2>3. u \in Seq(Clst) /\ Injective(u)
    BY <1>3
  <2> QED
    BY <2>1, <2>2, <2>3, WalkFollowed
<1>11. u[1] = s[k + 1]
  <2>1. 1 \in 1 .. e
    BY <1>7
  <2> QED
    BY <1>3, <2>1
<1>12. GetFat(x, o, Last(u)) = EOC
  <2>1. e \in 1 .. e /\ ~(e < e)
    BY <1>7
  <2>2. GetFat(x, o, u[e]) = EOC
    BY <1>9, <2>1
  <2> QED
    BY <1>3, <2>2 DEF Last
<1>13. ASSUME v.type = "exfat", o.stat = 0 PROVE Walk(x, o, o.sclust) = t
  <2>1. GetFat(x, o, s[k]) = EOC
    <3>1. s[k] \in Clst /\ x.type = "exfat" /\ x.fat[s[k]] = EOC
      BY <1>1, <1>6, <1>13
    <3> QED
      BY <1>13, <3>1 DEF GetFat
  <2>2. ASSUME NEW i \in 1 .. k PROVE GetFat(x, o, t[i]) = IF i < k THEN t[i + 1] ELSE EOC
    <3>1. CASE i = k
      BY <1>3, <2>1, <3>1
    <3>2. CASE i # k
      <4>1. i \in 1 .. m /\ i < m /\ i < k /\ i + 1 \in 1 .. k
        BY <1>1, <1>6, <1>7, <3>2
      <4> QED
        BY <1>3, <1>8, <3>2, <4>1
    <3> QED
      BY <3>1, <3>2
  <2>3. Followed(x, o, t)
    BY <1>3, <2>2 DEF Followed
  <2>4. Len(t) > 0
    BY <1>3, <1>7
  <2>5. Walk(x, o, t[1]) = t
    <3>1. t \in Seq(Clst) /\ Injective(t)
      BY <1>3
    <3> QED
      BY <2>3, <2>4, <3>1, WalkFollowed
  <2>6. t[1] = s[1] /\ o.sclust = s[1]
    BY <1>1, <1>3, <1>6, <1>7
  <2> QED
    BY <2>5, <2>6
<1>14. Len(u) > 0
  BY <1>3, <1>7
<1> QED
  BY <1>10, <1>11, <1>12, <1>13, <1>14 DEF t, u, m

\* t is s up to its cluster number k, on a FAT that x and then w stand for.
CutHere(v, x, w, o, s, t, k) ==
  /\ t \in Seq(Clst) /\ Injective(t) /\ Len(t) = k /\ \A i \in 1 .. k : t[i] = s[i]
  /\ \A i \in 1 .. k : w.fat[t[i]] = IF i = k /\ o.stat # 2 THEN EOC ELSE v.fat[s[i]]
  /\ v.type = "exfat" /\ o.stat = 0 => Walk(x, o, o.sclust) = t

LEMMA CutHereSound ==
  ASSUME NEW v \in Volumes, NEW x \in Volumes, NEW w, NEW o \in Objects, Plain(v, o),
         NEW s, Shape(v, o, s), o.n_frag = 0, NEW k \in 1 .. Len(s), x.type = v.type,
         NEW t, CutHere(v, x, w, o, s, t, k)
  PROVE  Shape(w, Shortened(x, o, s[k]), t)
BY ShortenedSound, ZenonT(60) DEF CutHere

\* remove_chain behind a cluster
LEMMA RemovedTail ==
  ASSUME NEW v \in Volumes, NEW o \in Objects, Plain(v, o), NEW s, Shape(v, o, s), Taken(v, s),
         o.n_frag = 0, Whole(o, s), NEW k \in 1 .. Len(s), k < Len(s),
         NEW r \in RemoveChain(v, o, s[k + 1], s[k]), r.ret # DISK
  PROVE  LET t == SubSeq(s, 1, k)
         IN  r.ret = OK /\ Rechained(v, r.v, s, t) /\ Shape(r.v, r.o, t)
<1> DEFINE t == SubSeq(s, 1, k)
           u == SubSeq(s, k + 1, Len(s))
           c == s[k]
           x == IF v.type = "fat32" \/ o.stat # 2 THEN Put(v, c, EOC) ELSE v
           w == Released(x, u)
           p == Shortened(x, o, c)
<1>1. /\ s \in Seq(Clst) /\ Len(s) \in Nat /\ Injective(s) /\ o.stat \in {0, 2, 3}
      /\ (\A i \in 1 .. Len(s) : s[i] \in Clst /\ s[i] \in Nat)
      /\ (Len(s) > 0 => o.sclust = s[1])
  BY ShapeFields
<1>2. k \in 0 .. Len(s) /\ k + 1 \in 1 .. Len(s) /\ k \in Nat
  BY <1>1
<1>3. /\ t \in Seq(Clst) /\ Len(t) = k /\ (\A i \in 1 .. k : t[i] = s[i]) /\ Injective(t)
      /\ u \in Seq(Clst) /\ Injective(u)
      /\ \A d : d \in Range(s) <=> d \in Range(t) \/ d \in Range(u)
  BY <1>1, <1>2, Pieces
<1>4. c \in Clst /\ c # 0 /\ s[k + 1] \in Clst /\ EOC \in 0 .. EOC /\ EOC # INT_ERR
  <2>1. c \in Clst /\ s[k + 1] \in Clst
    BY <1>1, <1>2 DEF c
  <2> HIDE DEF c
  <2> QED
    BY <2>1, FatAssumption
<1>6. v.type # "exfat" => v.type = "fat32" /\ o.stat = 0
  BY DEF Volumes, Plain
<1> HIDE DEF t, u
<1>5. c \in Range(t)
  <2>1. k \in 1 .. Len(t) /\ t[k] = c
    BY <1>3, <1>2 DEF c
  <2>2. t \in Seq(Clst)
    BY <1>3
  <2>3. \A i \in 1 .. Len(t) : t[i] \in Range(t)
    BY <2>2, RangeIs
  <2> QED
    BY <2>1, <2>3
<1> HIDE DEF c
<1>7. /\ x \in Volumes /\ x.type = v.type /\ x.used = v.used /\ x.free = v.free
      /\ \A d \in Clst : x.fat[d] = IF d = c /\ o.stat # 2 THEN EOC ELSE v.fat[d]
  <2>1. CASE v.type = "fat32" \/ o.stat # 2
    <3>1. x = Put(v, c, EOC) /\ o.stat # 2
      BY <1>6, <2>1
    <3>2. /\ Put(v, c, EOC) \in Volumes /\ SameBut(v, Put(v, c, EOC))
          /\ \A d \in Clst : Put(v, c, EOC).fat[d] = IF d = c THEN EOC ELSE v.fat[d]
      BY <1>4, PutSame, PutFat
    <3> HIDE DEF x
    <3> QED
      BY <3>1, <3>2 DEF SameBut
  <2>2. CASE ~(v.type = "fat32" \/ o.stat # 2)
    <3>1. x = v /\ o.stat = 2
      BY <2>2
    <3> HIDE DEF x
    <3> QED
      BY <3>1
  <2> QED
    BY <2>1, <2>2
<1> HIDE DEF x
<1>8. /\ Walk(x, o, s[k + 1]) = u /\ GetFat(x, o, Last(u)) = EOC
      /\ v.type = "exfat" /\ o.stat = 0 => Walk(x, o, o.sclust) = t
  <2>1. (\A d \in Clst : d # s[k] => x.fat[d] = v.fat[d]) /\ (o.stat # 2 => x.fat[s[k]] = EOC)
    BY <1>4, <1>7 DEF c
  <2> QED
    BY <1>7, <2>1, CutWalks DEF t, u
<1>9. x.type = "exfat" => Range(u) \subseteq x.used
  <2>1. Range(u) \subseteq Clst
    BY <1>3, RangeIs
  <2> QED
    BY <1>3, <1>7, <2>1 DEF Taken, IsFree
<1>10. RemoveChain(v, o, s[k + 1], c) =
        {Stopped(v, o)} \cup Halfway(x, u, o)
        \cup {Outcome(w, p, OK)}
  <2>1. x = IF c # 0 /\ (v.type = "fat32" \/ o.stat # 2) THEN Put(v, c, EOC) ELSE v
    BY <1>4 DEF x
  <2> HIDE DEF w, p
  <2>2. ~(GetFat(x, o, Last(Walk(x, o, s[k + 1]))) = INT_ERR
          \/ (v.type = "exfat" /\ ~Range(Walk(x, o, s[k + 1])) \subseteq v.used))
    BY <1>4, <1>7, <1>8, <1>9
  <2> QED
    BY <1>4, <1>8, <2>1, <2>2 DEF RemoveChain, w, p
<1>11. \A y : Stopped(y, o).ret = DISK
  BY OutcomeFields DEF Stopped
<1>12. r = Outcome(w, p, OK)
  <2>1. r \in RemoveChain(v, o, s[k + 1], c)
    BY DEF c
  <2> HIDE DEF w, p
  <2>2. r \notin Halfway(x, u, o)
    BY HalfwayStopped
  <2> QED
    BY <1>10, <1>11, <2>1, <2>2
<1>13. r.v = w /\ r.o = p /\ r.ret = OK
  BY <1>12, OutcomeFields
<1>14. /\ w \in Volumes /\ Rechained(v, w, s, t) /\ \A d \in Range(t) : w.fat[d] = x.fat[d]
  <2>1. \A d \in Clst : x.fat[d] = v.fat[d] \/ (d \in Range(SubSeq(s, 1, k)) /\ x.fat[d] = EOC)
    BY <1>5, <1>7 DEF t
  <2> QED
    BY <1>1, <1>2, <1>7, <2>1, ReleasedTail DEF t, u
<1> HIDE DEF w
<1>15. \A i \in 1 .. k : w.fat[t[i]] = IF i = k /\ o.stat # 2 THEN EOC ELSE v.fat[s[i]]
  <2> SUFFICES ASSUME NEW i \in 1 .. k
               PROVE  w.fat[t[i]] = IF i = k /\ o.stat # 2 THEN EOC ELSE v.fat[s[i]]
    OBVIOUS
  <2>1. t[i] = s[i] /\ t[i] \in Range(t) /\ s[i] \in Clst
    <3>1. t \in Seq(Clst)
      BY <1>3
    <3>2. \A j \in 1 .. Len(t) : t[j] \in Range(t)
      BY <3>1, RangeIs
    <3> QED
      BY <1>1, <1>2, <1>3, <3>2
  <2>2. w.fat[t[i]] = x.fat[s[i]]
    BY <1>14, <2>1
  <2>3. s[i] = c <=> i = k
    <3>1. i \in 1 .. Len(s) /\ k \in 1 .. Len(s)
      BY <1>2
    <3> QED
      BY <1>1, <3>1 DEF Injective, c
  <2> QED
    BY <1>7, <2>1, <2>2, <2>3
<1>16. Shape(w, p, t)
  <2>1. /\ t \in Seq(Clst) /\ Injective(t) /\ Len(t) = k /\ \A i \in 1 .. k : t[i] = s[i]
    BY <1>3
  <2>2. v.type = "exfat" /\ o.stat = 0 => Walk(x, o, o.sclust) = t
    BY <1>8
  <2>3. x \in Volumes /\ x.type = v.type
    BY <1>7
  <2>4. CutHere(v, x, w, o, s, t, k)
    BY <1>15, <2>1, <2>2 DEF CutHere
  <2>5. Shape(w, Shortened(x, o, s[k]), t)
    BY <2>3, <2>4, CutHereSound
  <2> QED
    BY <2>5 DEF c
<1> QED
  BY <1>13, <1>14, <1>16 DEF t

-----------------------------------------------------------------------------
\* The invariant: what holds between the calls, and within them, without a disk error

\* The allocation info of an entry of the volume v
LoadedOn(v, e) == Object(e.sclust, e.size, IF v.type = "exfat" THEN e.stat ELSE 0)

\* A file that is not open: its entry leads to its clusters, and its size says
\* how many they are.
Filed(v, e, s) ==
  IF e = NoEntry THEN s = <<>>
  ELSE Shape(v, LoadedOn(v, e), s) /\ Len(s) = Count(e.size)

\* The volume, and the files on it but for the one that is open
Kept(v, en, ch, open) ==
  /\ Owned(v, ch)
  /\ \A f \in Files : f # open => Filed(v, en[f], ch[f])

\* The FIL object of a file with the clusters s, between two calls or in a transfer
Pointing(f, s) ==
  /\ Len(s) = Count(f.o.size) /\ f.fptr <= f.o.size
  /\ f.fptr > 0 => f.clust = s[Count(f.fptr)]

\* In a seek, rest sectors from its end: k clusters have been passed.
Passed(f, s, rest, k) ==
  /\ f.fptr = CSize * k /\ k + 1 <= Len(s) /\ f.clust = s[k + 1]
  /\ Count(f.o.size) <= Len(s) /\ (Count(f.o.size) < Len(s) => Len(s) = k + 1)
  /\ f.fptr <= f.o.size
  /\ ~f.write => f.fptr + rest <= f.o.size

Seeking(f, s, rest) == \E k \in Nat : Passed(f, s, rest, k)

\* The entry e of the volume v says what the FIL object says.
Stored(v, e, o) ==
  /\ e.sclust = o.sclust /\ e.size = o.size
  /\ v.type = "exfat" => e.stat = o.stat
  /\ o.n_frag = 0 /\ o.stat # 3

\* The open file: its clusters, the one that the next access goes on from, and,
\* when nothing is to be stored, its entry.
Held(v, e, f, s, at, rest) ==
  /\ e # NoEntry /\ ~f.err
  /\ Shape(v, f.o, s)
  /\ f.o.n_frag > 0 => f.clust = s[Len(s)]
  /\ IF at = "seek" THEN Seeking(f, s, rest) ELSE Pointing(f, s)
  /\ ~f.modified /\ at \in {"idle", "read"} => Stored(v, e, f.o)
  /\ ~f.modified /\ at = "seek" => Stored(v, e, f.o) \/ (f.write /\ f.o.size <= f.fptr)

Sound ==
  /\ Kept(vol, entry, chain, cur)
  /\ cur # NoFile => Held(vol, entry[cur], fp, chain[cur], pc, left)
  /\ res # "int"

FatSound == faults = 0 => Sound

\* What the volume and the files keep when a call has changed one file
LEMMA SameShape ==
  ASSUME NEW v, NEW o, NEW p, NEW s, Shape(v, o, s), o.stat # 3, p.sclust = o.sclust,
         p.stat = o.stat, p.n_frag = o.n_frag
  PROVE  Shape(v, p, s)
BY DEF Shape, First, Edge

LEMMA LoadedOnType ==
  ASSUME NEW v \in Volumes, NEW e \in Entries
  PROVE  LET o == LoadedOn(v, e)
         IN  /\ o \in Objects /\ Plain(v, o) /\ o.sclust = e.sclust /\ o.size = e.size
             /\ o.stat = (IF v.type = "exfat" THEN e.stat ELSE 0) /\ o.n_cont = 0 /\ o.n_frag = 0
BY FatAssumption, FileAssumption DEF LoadedOn, Object, Entries, Objects, Plain, Volumes

LEMMA FiledAs ==
  ASSUME NEW v \in Volumes, NEW e \in Entries \cup {NoEntry}, NEW s, Filed(v, e, s)
  PROVE  /\ e = NoEntry => s = <<>>
         /\ e # NoEntry => e \in Entries /\ Shape(v, LoadedOn(v, e), s) /\ Len(s) = Count(e.size)
BY DEF Filed

\* No other entry than that of f is another.
SameEntries(en, ex, f) == \A g \in Files : g # f => ex[g] = en[g]

\* The same, but for f
KeptBut(v, en, ch, f, open) ==
  /\ Owned(v, ch)
  /\ \A g \in Files : g # f /\ g # open => Filed(v, en[g], ch[g])

\* One file has got other clusters, or an open file is stored.
LEMMA KeptMoves ==
  ASSUME NEW v \in Volumes, NEW w \in Volumes, NEW en \in [Files -> Entries \cup {NoEntry}],
         NEW ch \in [Files -> Seq(Clst)], NEW open, Kept(v, en, ch, open),
         NEW f \in Files, NEW t \in Seq(Clst), Rechained(v, w, ch[f], t),
         NEW ex, SameEntries(en, ex, f)
  PROVE  KeptBut(w, ex, [ch EXCEPT ![f] = t], f, open)
<1>1. Owned(v, ch)
  BY DEF Kept
<1>2. Owned(w, [ch EXCEPT ![f] = t])
  BY <1>1, OwnedMoves
<1>3. ASSUME NEW g \in Files, g # f, g # open
      PROVE  Filed(w, ex[g], [ch EXCEPT ![f] = t][g])
  <2>1. Filed(v, en[g], ch[g]) /\ ex[g] = en[g] /\ [ch EXCEPT ![f] = t][g] = ch[g]
    BY <1>3 DEF Kept, SameEntries
  <2>2. CASE en[g] = NoEntry
    BY <2>1, <2>2 DEF Filed
  <2>3. CASE en[g] # NoEntry
    <3> DEFINE o == LoadedOn(v, en[g])
    <3>1. en[g] \in Entries /\ Shape(v, o, ch[g]) /\ Len(ch[g]) = Count(en[g].size)
      BY <2>1, <2>3 DEF Filed
    <3>2. o \in Objects
      BY <3>1, LoadedOnType
    <3>3. LoadedOn(w, en[g]) = o
      BY DEF LoadedOn, Rechained
    <3> HIDE DEF o
    <3>4. Shape(w, o, ch[g])
      BY <1>1, <1>3, <3>1, <3>2, OthersStay
    <3> QED
      BY <2>1, <2>3, <3>1, <3>3, <3>4 DEF Filed
  <2> QED
    BY <2>2, <2>3
<1> QED
  BY <1>2, <1>3 DEF KeptBut

\* The same for the open file
LEMMA KeptOpen ==
  ASSUME NEW v \in Volumes, NEW w \in Volumes, NEW en \in [Files -> Entries \cup {NoEntry}],
         NEW ch \in [Files -> Seq(Clst)], NEW f \in Files, Kept(v, en, ch, f),
         NEW t \in Seq(Clst), Rechained(v, w, ch[f], t)
  PROVE  Kept(w, en, [ch EXCEPT ![f] = t], f)
<1>1. SameEntries(en, en, f)
  BY DEF SameEntries
<1>2. KeptBut(w, en, [ch EXCEPT ![f] = t], f, f)
  BY <1>1, KeptMoves
<1> QED
  BY <1>2 DEF Kept, KeptBut

\* The links of the open file are put on the FAT.
LEMMA KeptPatched ==
  ASSUME NEW v \in Volumes, NEW w \in Volumes, NEW en \in [Files -> Entries \cup {NoEntry}],
         NEW ch \in [Files -> Seq(Clst)], NEW f \in Files, Kept(v, en, ch, f),
         Patched(v, w, ch[f])
  PROVE  Kept(w, en, ch, f)
<1>1. Taken(v, ch[f])
  BY DEF Taken, Kept, Owned
<1>2. Rechained(v, w, ch[f], ch[f])
  BY <1>1, PatchedKeeps
<1> DEFINE t == ch[f]
<1>3. t \in Seq(Clst) /\ [ch EXCEPT ![f] = t] = ch /\ Rechained(v, w, ch[f], t)
  BY <1>2
<1> HIDE DEF t
<1>4. Kept(w, en, [ch EXCEPT ![f] = t], f)
  BY <1>3, KeptOpen
<1> QED
  BY <1>3, <1>4

LEMMA OwnTaken ==
  ASSUME NEW v, NEW en, NEW ch, NEW f \in Files, NEW open, Kept(v, en, ch, open)
  PROVE  Taken(v, ch[f])
BY DEF Taken, Kept, Owned

\* Where create_chain looks next says nothing of the clusters.
LEMMA SuggestionAside ==
  ASSUME NEW v, NEW w, NEW x, x.type = w.type, x.fat = w.fat, x.used = w.used, x.free = w.free,
         NEW s, NEW t, Rechained(v, w, s, t)
  PROVE  Rechained(v, x, s, t)
<1>1. \A c \in Clst : IsFree(x, c) <=> IsFree(w, c)
  BY DEF IsFree
<1>2. FreeKnown(w) => FreeKnown(x)
  BY <1>1, FreeAlike
<1> QED
  BY <1>1, <1>2 DEF Rechained

\* Sound: the start, and the calls that leave the links alone
LEMMA SoundInit == Init => FatSound
<1> SUFFICES ASSUME Init PROVE Sound
  BY DEF FatSound
<1>1. PICK type \in {"fat32", "exfat"} :
        vol = [type |-> type, used |-> {}, last |-> UNKNOWN, free |-> UNKNOWN,
               fat |-> [c \in Clst |-> IF type = "exfat" THEN 2 ELSE FREE]]
  BY DEF Init
<1>2. \A c \in Clst : IsFree(vol, c)
  <2>1. CASE type = "exfat"
    BY <1>1, <2>1 DEF IsFree
  <2>2. CASE type # "exfat"
    BY <1>1, <2>2 DEF IsFree
  <2> QED
    BY <2>1, <2>2
<1>3. \A f \in Files : chain[f] = <<>> /\ entry[f] = NoEntry
  BY DEF Init
<1>4. \A f \in Files : \A c : c \notin Range(chain[f])
  <2>1. \A c : c \notin Range(<<>>)
    BY DEF Range
  <2> QED
    BY <1>3, <2>1
<1>5. FreeKnown(vol)
  BY <1>1 DEF FreeKnown
<1>6. Kept(vol, entry, chain, cur)
  BY <1>2, <1>3, <1>4, <1>5 DEF Kept, Owned, Filed
<1> QED
  BY <1>6 DEF Sound, Init

LEMMA SoundTransfer ==
  ASSUME FatTypeInv, Sound, NEW kind \in {"read", "write"}, Transfer(kind)
  PROVE  Sound'
<1>1. /\ pc = "idle" /\ cur # NoFile /\ ~fp.err /\ pc' = kind
      /\ UNCHANGED <<vol, entry, cur, fp, res, chain>>
  BY DEF Transfer, Valid
<1>2. Kept(vol, entry, chain, cur)' /\ res' # "int"
  BY <1>1 DEF Sound
<1>3. Held(vol, entry[cur], fp, chain[cur], "idle", left)
  BY <1>1 DEF Sound
<1>4. Held(vol, entry[cur], fp, chain[cur], kind, left')
  BY <1>3 DEF Held
<1>5. Held(vol, entry[cur], fp, chain[cur], pc, left)'
  BY <1>1, <1>4
<1> QED
  BY <1>2, <1>5 DEF Sound

\* f_getfree counts the free clusters.
LEMMA SoundGetFree ==
  ASSUME FatTypeInv, Sound, faults = 0, GetFree, faults' = 0
  PROVE  Sound'
<1>1. /\ cur = NoFile /\ vol' = [vol EXCEPT !.free = CountFree(vol)] /\ res' = "ok"
      /\ UNCHANGED <<entry, cur, chain>> /\ vol \in Volumes
  BY DEF GetFree, Faults, FatTypeInv, Proper
<1>2. vol'.type = vol.type /\ vol'.fat = vol.fat /\ vol'.used = vol.used /\ vol'.free = CountFree(vol)
  BY <1>1 DEF Volumes
<1>3. \A c : IsFree(vol', c) <=> IsFree(vol, c)
  BY <1>2 DEF IsFree
<1>4. FreeKnown(vol')
  BY <1>2, <1>3 DEF FreeKnown, CountFree
<1>5. Owned(vol', chain)
  BY <1>3, <1>4 DEF Sound, Kept, Owned
<1>6. ASSUME NEW f \in Files, f # cur PROVE Filed(vol', entry[f], chain[f])
  <2>1. Filed(vol, entry[f], chain[f]) /\ entry[f] \in Entries \cup {NoEntry}
    BY <1>6 DEF Sound, Kept, FatTypeInv, Proper
  <2>2. CASE entry[f] = NoEntry
    BY <2>1, <2>2 DEF Filed
  <2>3. CASE entry[f] # NoEntry
    <3> DEFINE o == LoadedOn(vol, entry[f])
    <3>1. Shape(vol, o, chain[f]) /\ Len(chain[f]) = Count(entry[f].size)
      BY <2>1, <2>3 DEF Filed
    <3>2. o \in Objects
      BY <1>1, <2>1, <2>3, LoadedOnType
    <3>3. LoadedOn(vol', entry[f]) = o
      BY <1>2 DEF LoadedOn
    <3> HIDE DEF o
    <3>4. Shape(vol', o, chain[f])
      BY <1>2, <3>1, <3>2, ShapeStays
    <3> QED
      BY <2>3, <3>1, <3>3, <3>4 DEF Filed
  <2> QED
    BY <2>2, <2>3
<1>7. Kept(vol, entry, chain, cur)'
  BY <1>1, <1>5, <1>6 DEF Kept
<1> QED
  BY <1>1, <1>7 DEF Sound

\* The pointer gets to at, within the m-th cluster, and the size with it.
Reached(g, s, at, z, m) ==
  /\ m <= Len(s) /\ Count(z) <= Len(s) /\ (Count(z) < Len(s) => Len(s) = m)
  /\ g.clust = s[m] /\ g.fptr = at /\ g.o.size = IF at > z THEN at ELSE z

LEMMA PointingAt ==
  ASSUME NEW g, NEW s \in Seq(Clst), NEW at \in Nat, NEW z \in Nat, NEW m \in Nat,
         Count(at) = m, Reached(g, s, at, z, m)
  PROVE  Pointing(g, s)
<1> DEFINE y == g.o.size
           l == Len(s)
<1>1. /\ m <= l /\ Count(z) <= l /\ (Count(z) < l => l = m)
      /\ g.clust = s[m] /\ g.fptr = at /\ y = IF at > z THEN at ELSE z
  BY DEF Reached
<1>2. l \in Nat /\ Count(z) \in Nat
  BY CountBounds
<1> HIDE DEF y, l
<1>3. l = Count(y)
  <2>1. CASE at > z
    <3>1. z <= at
      BY <2>1
    <3>2. Count(z) <= Count(at)
      BY <3>1, CountMonotone
    <3> QED
      BY <1>1, <1>2, <2>1, <3>2
  <2>2. CASE ~(at > z)
    <3>1. at <= z
      BY <2>2
    <3>2. Count(at) <= Count(z)
      BY <3>1, CountMonotone
    <3> QED
      BY <1>1, <1>2, <2>2, <3>2
  <2> QED
    BY <2>1, <2>2
<1>4. g.fptr <= y /\ g.clust = s[Count(g.fptr)]
  BY <1>1
<1> QED
  BY <1>3, <1>4 DEF Pointing, y, l

\* The end of a seek, within the cluster that it has come to
LEMMA SeekingEnds ==
  ASSUME NEW f \in Fils, NEW s \in Seq(Clst), NEW rest \in 1 .. CSize, Seeking(f, s, rest),
         NEW g \in Fils, g.clust = f.clust, g.fptr = f.fptr + rest,
         g.o.size = IF f.fptr + rest > f.o.size THEN f.fptr + rest ELSE f.o.size
  PROVE  Pointing(g, s)
<1>1. PICK k \in Nat :
        /\ f.fptr = CSize * k /\ k + 1 <= Len(s) /\ f.clust = s[k + 1]
        /\ Count(f.o.size) <= Len(s) /\ (Count(f.o.size) < Len(s) => Len(s) = k + 1)
        /\ f.fptr <= f.o.size
  BY DEF Seeking, Passed
<1> DEFINE at == f.fptr + rest
           z == f.o.size
           m == k + 1
<1>2. z \in Nat /\ at \in Nat /\ m \in Nat /\ Count(at) = m
  <2>1. f.fptr \in Nat /\ z \in Nat
    BY FileAssumption DEF Fils, Objects
  <2>2. Count(CSize * k + rest) = k + 1
    BY CountWithin
  <2>3. at \in Nat /\ m \in Nat
    BY <2>1, FatAssumption
  <2>4. Count(at) = m
    BY <1>1, <2>2
  <2> QED
    BY <2>1, <2>3, <2>4
<1>3. Reached(g, s, at, z, m)
  BY <1>1 DEF Reached
<1> HIDE DEF at, z, m
<1> QED
  BY <1>2, <1>3, PointingAt

LEMMA SoundSeekEnd ==
  ASSUME FatTypeInv, Sound, SeekEnd
  PROVE  Sound'
<1> DEFINE at == fp.fptr + left
           size == IF at > fp.o.size THEN at ELSE fp.o.size
           changed == fp.modified \/ at > fp.o.size
<1>1. /\ pc = "seek" /\ pc' = "idle" /\ left <= CSize
      /\ UNCHANGED <<vol, entry, cur, res, chain>>
      /\ fp' = [fp EXCEPT !.fptr = at, !.o.size = IF at > @ THEN at ELSE @,
                          !.modified = @ \/ (at > fp.o.size)]
  BY DEF SeekEnd
<1>2. /\ cur \in Files /\ left \in 1 .. CSize /\ fp \in Fils /\ fp.o \in Objects
      /\ chain[cur] \in Seq(Clst) /\ cur # NoFile
      /\ at \in 0 .. MaxSize /\ size \in 0 .. MaxSize /\ fp.o.size \in Nat
  <2>1. Proper /\ Calling
    BY DEF FatTypeInv
  <2>2. fp.fptr + left <= MaxSize /\ left > 0 /\ cur \in Files /\ left \in 0 .. MaxSize
    BY <1>1, <2>1 DEF Calling, Proper
  <2>3. /\ left \in 1 .. CSize /\ at \in 0 .. MaxSize /\ size \in 0 .. MaxSize /\ fp.o.size \in Nat
        /\ fp.o \in Objects
    BY <1>1, <2>1, <2>2, LoadedCur
  <2>4. chain[cur] \in Seq(Clst) /\ fp \in Fils /\ cur # NoFile
    BY <2>1, <2>2, FileAssumption DEF Proper
  <2> QED
    BY <2>2, <2>3, <2>4
<1>3. changed \in BOOLEAN
  OBVIOUS
<1>4. fp' = [fp EXCEPT !.fptr = at, !.o = [fp.o EXCEPT !.size = size], !.modified = changed]
  BY <1>1, <1>2 DEF Fils, Objects
<1>5. Held(vol, entry[cur], fp, chain[cur], "seek", left)
  BY <1>1, <1>2 DEF Sound
<1> HIDE DEF at, size, changed
<1>6. /\ fp' \in Fils /\ fp'.o.stat = fp.o.stat /\ fp'.o.n_frag = fp.o.n_frag
      /\ fp'.o.sclust = fp.o.sclust /\ fp'.o.n_cont = fp.o.n_cont /\ fp'.o.size = size
      /\ fp'.clust = fp.clust /\ fp'.fptr = at /\ fp'.err = fp.err /\ fp'.modified = changed
  BY <1>2, <1>3, <1>4 DEF Fils, Objects
<1>7. Pointing(fp', chain[cur])
  <2>1. Seeking(fp, chain[cur], left)
    BY <1>5 DEF Held
  <2>2. /\ fp'.fptr = fp.fptr + left
        /\ fp'.o.size = IF fp.fptr + left > fp.o.size THEN fp.fptr + left ELSE fp.o.size
    BY <1>6 DEF at, size
  <2> QED
    BY <1>2, <1>6, <2>1, <2>2, SeekingEnds
<1>8. Shape(vol, fp'.o, chain[cur])
  BY <1>5, <1>6, ShapeSize DEF Held
<1>9. ~fp'.modified => Stored(vol, entry[cur], fp'.o)
  <2> SUFFICES ASSUME ~fp'.modified PROVE Stored(vol, entry[cur], fp'.o)
    OBVIOUS
  <2>1. ~fp.modified /\ ~(at > fp.o.size)
    BY <1>6 DEF changed
  <2>2. fp'.o.size = fp.o.size
    BY <1>6, <2>1 DEF size
  <2>3. ~(fp.o.size <= fp.fptr)
    <3>1. Proper /\ fp.o.size \in Nat
      BY OpenFile
    <3>2. fp.fptr \in Nat
      BY <3>1, LoadedCur
    <3>3. left > 0 /\ left \in Nat
      BY <1>2
    <3> QED
      BY <2>1, <3>1, <3>2, <3>3 DEF at
  <2>4. Stored(vol, entry[cur], fp.o)
    BY <1>5, <2>1, <2>3 DEF Held
  <2> QED
    BY <1>6, <2>2, <2>4 DEF Stored
<1>10. Held(vol, entry[cur], fp', chain[cur], "idle", left')
  BY <1>5, <1>6, <1>7, <1>8, <1>9 DEF Held
<1>11. Kept(vol, entry, chain, cur)' /\ res' # "int"
  BY <1>1 DEF Sound
<1>12. Held(vol, entry[cur], fp, chain[cur], pc, left)'
  BY <1>1, <1>10
<1> QED
  BY <1>11, <1>12 DEF Sound

-----------------------------------------------------------------------------
\* f_read and f_write

\* The cluster that a transfer goes on with
LEMMA CountOfShare ==
  ASSUME NEW n \in Nat, NEW d \in 1 .. CSize, d <= CSize - (n % CSize)
  PROVE  /\ Count(n + d) \in Nat /\ Count(n + d) >= 1 /\ Count(n) \in Nat
         /\ n % CSize = 0 => Count(n) = Count(n + d) - 1 /\ (n = 0 <=> Count(n + d) = 1)
         /\ n % CSize # 0 => Count(n) = Count(n + d) /\ n > 0
<1> DEFINE q == n \div CSize
           r == n % CSize
           x == CSize * q
<1>1. q \in Int /\ r \in 0 .. CSize - 1 /\ n = x + r /\ x \in Int
  BY Quotient
<1>2. CSize \in Nat /\ CSize > 0
  BY FatAssumption
<1>3. q \in Nat
  BY <1>2
<1>4. Count(x) = q /\ \A l \in 1 .. CSize : Count(x + l) = q + 1
  BY <1>3, CountWithin
<1>5. d <= CSize - r
  OBVIOUS
<1>6. Count(n) \in Nat /\ (n = 0 <=> Count(n) = 0)
  BY CountBounds
<1> HIDE DEF q, r, x
<1>7. r + d \in 1 .. CSize /\ n + d = x + (r + d)
  BY <1>1, <1>2, <1>5
<1>8. Count(n + d) = q + 1
  BY <1>4, <1>7
<1>9. r = 0 => Count(n) = q
  BY <1>1, <1>4
<1>10. r # 0 => Count(n) = q + 1
  <2> SUFFICES ASSUME r # 0 PROVE Count(n) = q + 1
    OBVIOUS
  <2>1. r \in 1 .. CSize /\ n = x + r
    BY <1>1, <1>2
  <2> QED
    BY <1>4, <2>1
<1>11. /\ Count(n + d) \in Nat /\ Count(n + d) >= 1 /\ Count(n) \in Nat
       /\ r = 0 => Count(n) = Count(n + d) - 1 /\ (n = 0 <=> Count(n + d) = 1)
       /\ r # 0 => Count(n) = Count(n + d) /\ n > 0
  BY <1>1, <1>3, <1>6, <1>8, <1>9, <1>10
<1> QED
  BY <1>11 DEF r

\* The number of that cluster in the chain
StepTo == Count(fp.fptr + Share)

LEMMA StepToIs ==
  ASSUME FatTypeInv, pc # "idle"
  PROVE  /\ StepTo \in Nat /\ StepTo >= 1 /\ Count(fp.fptr) \in Nat
         /\ OnBoundary => Count(fp.fptr) = StepTo - 1 /\ (fp.fptr = 0 <=> StepTo = 1)
         /\ ~OnBoundary => Count(fp.fptr) = StepTo /\ fp.fptr > 0
<1> DEFINE n == fp.fptr
           d == Share
<1>1. Proper /\ Calling
  BY DEF FatTypeInv
<1>2. n \in Nat /\ d \in 1 .. CSize /\ d <= CSize - (n % CSize)
  <2>1. n \in Nat /\ n \in Int
    BY <1>1, LoadedCur
  <2>2. d \in 1 .. left /\ left \in 1 .. MaxSize /\ d <= CSize - (n % CSize)
    BY <1>1, ShareBounds
  <2>3. n % CSize \in 0 .. CSize - 1 /\ CSize \in Nat /\ MaxSize \in Nat
    BY <1>1, <2>1, Quotient, LoadedCur
  <2> QED
    BY <2>1, <2>2, <2>3
<1> HIDE DEF n, d
<1>3. /\ Count(n + d) \in Nat /\ Count(n + d) >= 1 /\ Count(n) \in Nat
      /\ n % CSize = 0 => Count(n) = Count(n + d) - 1 /\ (n = 0 <=> Count(n + d) = 1)
      /\ n % CSize # 0 => Count(n) = Count(n + d) /\ n > 0
  BY <1>2, CountOfShare
<1> QED
  BY <1>3 DEF n, d, StepTo, OnBoundary

\* If it is there already
LEMMA NextCluster ==
  ASSUME FatTypeInv, pc \in {"read", "write"}, NEW e, NEW s,
         Held(vol, e, fp, s, pc, left), StepTo <= Len(s)
  PROVE  /\ StepTo \in 1 .. Len(s) /\ s[StepTo] \in Clst
         /\ fp.o.n_frag > 0 => s[StepTo] = s[Len(s)]
         /\ ~OnBoundary => fp.clust = s[StepTo]
         /\ OnBoundary => /\ fp.o.n_frag = 0
                          /\ fp.fptr = 0 => fp.o.sclust = s[StepTo] /\ fp.o.sclust # 0
                          /\ fp.fptr # 0 => /\ StepTo - 1 \in 1 .. Len(s) /\ fp.clust = s[StepTo - 1]
                                            /\ GetFat(vol, fp.o, fp.clust) = s[StepTo]
<1> DEFINE m == StepTo
           o == fp.o
           l == Len(s)
           n == Count(fp.fptr)
<1>1. Proper /\ Edged /\ vol \in Volumes /\ o \in Objects /\ Plain(vol, o)
  BY OpenFile
<1>2. /\ m \in Nat /\ m >= 1 /\ n \in Nat
      /\ OnBoundary => n = m - 1 /\ (fp.fptr = 0 <=> m = 1)
      /\ ~OnBoundary => n = m /\ fp.fptr > 0
  BY StepToIs
<1>3. Shape(vol, o, s) /\ Pointing(fp, s) /\ (o.n_frag > 0 => fp.clust = s[Len(s)])
  BY DEF Held
<1>4. /\ s \in Seq(Clst) /\ l \in Nat /\ Injective(s) /\ (\A i \in 1 .. l : s[i] \in Clst)
      /\ (l > 0 => o.sclust = s[1] /\ o.sclust # 0) /\ o.n_frag \in Nat
  <2> HIDE DEF o
  <2>1. /\ s \in Seq(Clst) /\ Len(s) \in Nat /\ Injective(s)
        /\ (\A i \in 1 .. Len(s) : s[i] \in Clst /\ s[i] \in Nat)
        /\ (Len(s) > 0 => o.sclust = s[1] /\ o.sclust # 0) /\ o.n_frag \in 0 .. Len(s)
    BY <1>1, <1>3, ShapeFields
  <2> QED
    BY <2>1
<1>5. fp.fptr > 0 => fp.clust = s[n]
  BY <1>3 DEF Pointing
<1>6. o.n_frag > 0 => fp.fptr > 0 /\ fp.clust = s[l]
  BY <1>1, <1>3 DEF Edged
<1>7. fp.fptr \in Nat
  BY <1>1, LoadedCur
<1>8. m <= l
  OBVIOUS
<1>9. \A i \in 1 .. l : o.n_frag = 0 => GetFat(vol, o, s[i]) = IF i < l THEN s[i + 1] ELSE EOC
  <2> SUFFICES ASSUME NEW i \in 1 .. Len(s), o.n_frag = 0
               PROVE  GetFat(vol, o, s[i]) = IF i < Len(s) THEN s[i + 1] ELSE EOC
    OBVIOUS
  <2>1. Len(s) = Count(o.size)
    BY <1>3 DEF Pointing
  <2> HIDE DEF o, m
  <2>2. Whole(o, s)
    BY <1>1, <1>3, <2>1, WholeBySize
  <2> QED
    BY <1>1, <1>3, <2>2, NextOf
<1> HIDE DEF m, o, l, n
<1>10. m \in 1 .. l /\ s[m] \in Clst
  BY <1>2, <1>4, <1>8
<1>11. ASSUME ~OnBoundary
       PROVE  fp.clust = s[m] /\ (o.n_frag > 0 => s[m] = s[l])
  BY <1>2, <1>5, <1>6, <1>11
<1>12. ASSUME OnBoundary
       PROVE  /\ o.n_frag = 0
              /\ fp.fptr = 0 => o.sclust = s[m] /\ o.sclust # 0
              /\ fp.fptr # 0 => /\ m - 1 \in 1 .. l /\ fp.clust = s[m - 1]
                                /\ GetFat(vol, o, fp.clust) = s[m]
  <2>1. ASSUME fp.fptr # 0
        PROVE  m - 1 \in 1 .. l /\ fp.clust = s[m - 1] /\ m - 1 < l /\ m = (m - 1) + 1 /\ l \in 1 .. l
    BY <1>2, <1>5, <1>7, <1>8, <1>4, <1>12, <2>1
  <2>2. o.n_frag = 0
    <3> SUFFICES ASSUME o.n_frag > 0 PROVE FALSE
      BY <1>4
    <3>1. fp.fptr # 0 /\ fp.clust = s[l]
      BY <1>6
    <3>2. m - 1 \in 1 .. Len(s) /\ l \in 1 .. Len(s) /\ s[m - 1] = s[l] /\ m - 1 < l
      BY <2>1, <3>1 DEF l
    <3>3. m - 1 = l
      BY <1>4, <3>2 DEF Injective
    <3> QED
      BY <3>2, <3>3, <1>4
  <2>3. ASSUME fp.fptr = 0 PROVE o.sclust = s[m] /\ o.sclust # 0
    BY <1>2, <1>4, <1>8, <1>12, <2>3
  <2>4. ASSUME fp.fptr # 0 PROVE GetFat(vol, o, fp.clust) = s[m]
    <3>1. m - 1 \in 1 .. l /\ fp.clust = s[m - 1] /\ m - 1 < l /\ m = (m - 1) + 1
      BY <2>1, <2>4
    <3>2. GetFat(vol, o, s[m - 1]) = s[(m - 1) + 1]
      BY <1>9, <2>2, <3>1
    <3> QED
      BY <3>1, <3>2
  <2> QED
    BY <2>1, <2>2, <2>3, <2>4
<1> QED
  BY <1>10, <1>11, <1>12, <1>4 DEF m, o, l

\* The file object after a transfer from or to a cluster, be it a new one
LEMMA MovedHeld ==
  ASSUME FatTypeInv, pc \in {"read", "write"}, NEW e, NEW v, e # NoEntry,
         NEW f \in Fils, f.fptr = fp.fptr, f.o.size = fp.o.size, ~f.err,
         f.modified = fp.modified,
         NEW s \in Seq(Clst), Shape(v, f.o, s), Count(fp.o.size) <= Len(s),
         StepTo <= Len(s), Count(fp.o.size) < Len(s) => Len(s) = StepTo, f.clust = s[StepTo],
         f.o.n_frag > 0 => s[StepTo] = s[Len(s)],
         pc = "read" /\ ~fp.modified => Stored(v, e, f.o),
         Moved(f, Share)
  PROVE  Held(v, e, fp', s, pc', left') /\ res' # "int"
<1> DEFINE at == fp.fptr + Share
           z == fp.o.size
           m == StepTo
<1>1. Proper /\ Calling
  BY DEF FatTypeInv
<1>2. /\ Share \in Nat /\ f.fptr + Share <= MaxSize /\ at \in Nat /\ z \in Nat /\ m \in Nat
      /\ Count(at) = m /\ (pc = "read" => at <= z)
  <2>1. Share \in 1 .. left /\ left \in 1 .. MaxSize /\ fp.fptr + left <= MaxSize
    BY <1>1, ShareBounds
  <2>2. pc = "read" => fp.fptr + left <= fp.o.size
    BY <1>1 DEF Calling
  <2>3. m \in Nat
    BY StepToIs
  <2>4. Count(at) = m
    BY DEF StepTo
  <2>5. fp.fptr \in Nat /\ fp.o.size \in Nat /\ MaxSize \in Nat
    BY <1>1, LoadedCur
  <2> QED
    BY <2>1, <2>2, <2>3, <2>4, <2>5
<1>3. /\ fp' \in Fils /\ fp'.o.sclust = f.o.sclust /\ fp'.o.stat = f.o.stat
      /\ fp'.o.n_cont = f.o.n_cont /\ fp'.o.n_frag = f.o.n_frag
      /\ fp'.o.size = (IF at > z THEN at ELSE z)
      /\ fp'.clust = f.clust /\ fp'.fptr = at
      /\ fp'.err = f.err
      /\ (fp'.modified <=> (f.modified \/ (pc = "write" /\ left = Share)))
      /\ res' = "ok" /\ pc' = (IF left = Share THEN "idle" ELSE pc)
  BY <1>2, MovedFields
<1>4. Reached(fp', s, at, z, m)
  BY <1>3 DEF Reached
<1> HIDE DEF at, z, m
<1>5. Pointing(fp', s)
  BY <1>2, <1>4, PointingAt
<1>6. Shape(v, fp'.o, s)
  BY <1>3, ShapeSize
<1>7. fp'.o.n_frag > 0 => fp'.clust = s[Len(s)]
  BY <1>3
<1>8. ASSUME ~fp'.modified, pc' \in {"idle", "read"} PROVE Stored(v, e, fp'.o)
  <2>1. ~fp.modified /\ pc = "read"
    BY <1>3, <1>8
  <2>2. fp'.o.size = z /\ f.o.size = z
    BY <1>2, <1>3, <2>1 DEF z
  <2>3. Stored(v, e, f.o)
    BY <2>1
  <2> QED
    BY <1>3, <2>2, <2>3 DEF Stored
<1>9. pc' # "seek"
  BY <1>3
<1> QED
  BY <1>3, <1>5, <1>6, <1>7, <1>8, <1>9 DEF Held

LEMMA SoundReadStep ==
  ASSUME FatTypeInv, Sound, faults = 0, ReadStep, faults' = 0
  PROVE  Sound'
<1> DEFINE s == chain[cur]
           c == IF ~OnBoundary THEN fp.clust
                ELSE IF fp.fptr = 0 THEN fp.o.sclust ELSE GetFat(vol, fp.o, fp.clust)
<1>1. /\ pc = "read" /\ UNCHANGED <<vol, entry, cur, chain, loose, opens>>
      /\ \/ c \in Clst /\ Moved([fp EXCEPT !.clust = c], Share)
         \/ c \notin Clst /\ Abort(fp.o, "int")
         \/ Faults(1)
  BY DEF ReadStep
<1>2. Proper /\ Calling /\ cur \in Files /\ cur # NoFile /\ fp \in Fils
  BY <1>1, FileAssumption DEF FatTypeInv, Calling, Proper
<1>3. Held(vol, entry[cur], fp, s, pc, left)
  BY <1>2 DEF Sound
<1>4. s \in Seq(Clst) /\ Shape(vol, fp.o, s) /\ Len(s) = Count(fp.o.size)
  BY <1>1, <1>2, <1>3 DEF Held, Pointing, Proper
<1>5. StepTo <= Len(s)
  <2> DEFINE a == fp.fptr + Share
             z == fp.o.size
  <2>1. a \in Nat /\ z \in Nat /\ a <= z
    <3>1. Share \in 1 .. left /\ left \in 1 .. MaxSize
      BY <1>1, <1>2, ShareBounds
    <3>2. fp.fptr + left <= fp.o.size
      BY <1>1, <1>2 DEF Calling
    <3> QED
      BY <1>2, <3>1, <3>2, LoadedCur
  <2> HIDE DEF a, z
  <2>2. Count(a) <= Count(z)
    BY <2>1, CountMonotone
  <2> QED
    BY <1>4, <2>2 DEF a, z, StepTo
<1>6. c = s[StepTo] /\ c \in Clst /\ (fp.o.n_frag > 0 => s[StepTo] = s[Len(s)])
  <2>1. pc \in {"read", "write"}
    BY <1>1
  <2> HIDE DEF s
  <2> QED
    BY <1>3, <1>5, <2>1, NextCluster
<1>7. Moved([fp EXCEPT !.clust = c], Share)
  <2>1. ~Faults(1)
    BY DEF Faults
  <2> HIDE DEF c
  <2> QED
    BY <1>1, <1>6, <2>1
<1> DEFINE f == [fp EXCEPT !.clust = c]
<1> HIDE DEF c, s
<1>8. /\ f \in Fils /\ f.o = fp.o /\ f.clust = c /\ f.fptr = fp.fptr /\ f.err = fp.err
      /\ f.modified = fp.modified
  BY <1>2, <1>6 DEF Fils
<1> HIDE DEF f
<1>9. Held(vol, entry[cur], fp', s, pc', left') /\ res' # "int"
  <2>1. entry[cur] # NoEntry /\ ~fp.err /\ (~fp.modified => Stored(vol, entry[cur], fp.o))
    BY <1>1, <1>3 DEF Held
  <2>2. Moved(f, Share)
    BY <1>7 DEF f
  <2>3. Count(fp.o.size) <= Len(s) /\ ~(Count(fp.o.size) < Len(s))
    <3>1. Len(s) \in Nat
      BY <1>4, SeqFacts
    <3> QED
      BY <1>4, <3>1
  <2> QED
    BY <1>1, <1>4, <1>5, <1>6, <1>8, <2>1, <2>2, <2>3, MovedHeld
<1>10. Kept(vol, entry, chain, cur)'
  BY <1>1 DEF Sound
<1>11. Held(vol, entry[cur], fp, chain[cur], pc, left)'
  BY <1>1, <1>9 DEF s
<1> QED
  BY <1>9, <1>10, <1>11 DEF Sound

\* What a file that is written gets
LEMMA GivenIs ==
  ASSUME Proper, cur \in Files, NEW c, Given(c)
  PROVE  /\ c \in Range(chain[cur]) => chain' = chain
         /\ c \notin Range(chain[cur]) => chain' = [chain EXCEPT ![cur] = Append(chain[cur], c)]
<1>1. chain \in [Files -> Seq(Clst)]
  BY DEF Proper
<1>2. ASSUME c \in Range(chain[cur]) PROVE chain' = chain
  <2>1. chain' = [chain EXCEPT ![cur] = chain[cur]]
    BY <1>2 DEF Given
  <2> QED
    BY <1>1, <2>1
<1>3. ASSUME c \notin Range(chain[cur])
      PROVE  chain' = [chain EXCEPT ![cur] = Append(chain[cur], c)]
  BY <1>3 DEF Given
<1> QED
  BY <1>2, <1>3

\* f_write goes on with the next cluster of the file, or gets one, or none is free.
Target(r, s) ==
  \/ r.v = vol /\ r.o = fp.o /\ StepTo <= Len(s) /\ r.ret = s[StepTo]
  \/ r.v = vol /\ r.o = fp.o /\ r.ret = FULL
  \/ StepTo = Len(s) + 1 /\ r.ret \in Clst /\ Longer(vol, r.v, r.o, s, r.ret)

LEMMA TargetsSound ==
  ASSUME FatTypeInv, pc = "write", NEW e, NEW s, Held(vol, e, fp, s, pc, left), Taken(vol, s),
         NEW r \in Targets, r.ret # DISK
  PROVE  Target(r, s)
<1>1. Proper /\ Edged /\ vol \in Volumes /\ fp.o \in Objects /\ Plain(vol, fp.o)
  BY OpenFile
<1>2. /\ StepTo \in Nat /\ StepTo >= 1 /\ Count(fp.fptr) \in Nat
      /\ OnBoundary => Count(fp.fptr) = StepTo - 1 /\ (fp.fptr = 0 <=> StepTo = 1)
      /\ ~OnBoundary => Count(fp.fptr) = StepTo /\ fp.fptr > 0
  BY StepToIs
<1>3. Shape(vol, fp.o, s) /\ Pointing(fp, s) /\ (fp.o.n_frag > 0 => fp.clust = s[Len(s)])
  BY DEF Held
<1>4. /\ s \in Seq(Clst) /\ Len(s) \in Nat
      /\ (Len(s) > 0 => fp.o.sclust = s[1] /\ fp.o.sclust # 0) /\ (Len(s) = 0 => fp.o.sclust = 0)
  <2> DEFINE o == fp.o
  <2>1. o \in Objects /\ Shape(vol, o, s)
    BY <1>1, <1>3
  <2> HIDE DEF o
  <2>2. /\ s \in Seq(Clst) /\ Len(s) \in Nat
        /\ (Len(s) > 0 => o.sclust = s[1] /\ o.sclust # 0) /\ (Len(s) = 0 => o.sclust = 0)
    BY <2>1, ShapeFields
  <2> QED
    BY <2>2 DEF o
<1>5. Count(fp.fptr) <= Len(s) /\ fp.fptr \in Nat
  <2> DEFINE a == fp.fptr
             z == fp.o.size
  <2>1. a \in Nat /\ z \in Nat /\ a <= z
    BY <1>1, <1>3, LoadedCur DEF Pointing
  <2> HIDE DEF a, z
  <2>2. Count(a) <= Count(z)
    BY <2>1, CountMonotone
  <2> QED
    BY <1>3, <2>1, <2>2 DEF a, z, Pointing
<1>6. CASE StepTo <= Len(s)
  <2>1. /\ StepTo \in 1 .. Len(s) /\ s[StepTo] \in Clst
        /\ ~OnBoundary => fp.clust = s[StepTo]
        /\ OnBoundary => /\ fp.o.n_frag = 0
                         /\ fp.fptr = 0 => fp.o.sclust = s[StepTo] /\ fp.o.sclust # 0
                         /\ fp.fptr # 0 => /\ StepTo - 1 \in 1 .. Len(s) /\ fp.clust = s[StepTo - 1]
    <3>1. pc \in {"read", "write"}
      OBVIOUS
    <3> QED
      BY <1>6, <3>1, NextCluster
  <2>2. CASE ~OnBoundary
    BY <1>6, <2>1, <2>2, OutcomeFields DEF Targets, Target
  <2>3. CASE OnBoundary /\ fp.fptr = 0
    BY <1>6, <2>1, <2>3, OutcomeFields DEF Targets, Target
  <2>4. CASE OnBoundary /\ fp.fptr # 0
    <3> DEFINE i == StepTo - 1
               o == fp.o
    <3>1. r \in CreateChain(vol, fp.o, fp.clust)
      BY <2>4 DEF Targets
    <3>2. i \in 1 .. Len(s) /\ i < Len(s) /\ i + 1 = StepTo
      BY <1>2, <1>4, <1>6, <2>1, <2>4
    <3>3. o.n_frag = 0 /\ Len(s) = Count(o.size) /\ r \in CreateChain(vol, o, s[i])
      BY <1>3, <2>1, <2>4, <3>1 DEF Pointing
    <3> HIDE DEF i, o
    <3>4. o \in Objects /\ Plain(vol, o) /\ Shape(vol, o, s)
      BY <1>1, <1>3 DEF o
    <3>5. r.v = vol /\ r.o = o /\ r.ret = s[i + 1]
      <4>1. Whole(o, s)
        BY <3>3, <3>4, WholeBySize
      <4> QED
        BY <1>1, <3>2, <3>3, <3>4, <4>1, CreateMiddle
    <3> QED
      BY <1>6, <3>2, <3>5 DEF Target, o
  <2> QED
    BY <2>2, <2>3, <2>4
<1>7. CASE StepTo > Len(s)
  <2>1. OnBoundary /\ StepTo = Len(s) + 1 /\ Count(fp.fptr) = Len(s)
    BY <1>2, <1>4, <1>5, <1>7
  <2>2. r \in CreateChain(vol, fp.o, LastOf(s))
    <3>1. CASE fp.fptr = 0
      <4>1. Len(s) = 0 /\ fp.o.sclust = 0
        BY <1>2, <1>4, <2>1, <3>1
      <4> QED
        BY <2>1, <3>1, <4>1 DEF Targets, LastOf
    <3>2. CASE fp.fptr # 0
      <4>1. Len(s) # 0 /\ fp.fptr > 0
        BY <1>2, <1>4, <1>5, <2>1, <3>2
      <4>2. fp.clust = s[Len(s)]
        BY <1>3, <2>1, <4>1 DEF Pointing
      <4> QED
        BY <2>1, <3>2, <4>1, <4>2 DEF Targets, LastOf
    <3> QED
      BY <3>1, <3>2
  <2>3. AtEnd(vol, fp.o, s, r)
    <3> DEFINE o == fp.o
    <3>1. /\ o \in Objects /\ Plain(vol, o) /\ Shape(vol, o, s)
          /\ (Len(s) > 0 => Len(s) = Count(o.size)) /\ r \in CreateChain(vol, o, LastOf(s))
      BY <1>1, <1>3, <2>2 DEF Pointing
    <3> HIDE DEF o
    <3>2. AtEnd(vol, o, s, r)
      <4>1. Len(s) > 0 => Whole(o, s)
        BY <3>1, WholeBySize
      <4> QED
        BY <1>1, <3>1, <4>1, CreateAtEnd
    <3> QED
      BY <3>2 DEF o
  <2> QED
    BY <2>1, <2>3 DEF AtEnd, Target
<1> QED
  BY <1>2, <1>4, <1>6, <1>7

\* f_write
LEMMA SoundWriteStep ==
  ASSUME FatTypeInv, Sound, faults = 0, WriteStep, faults' = 0
  PROVE  Sound'
<1> DEFINE s == chain[cur]
<1>1. pc = "write" /\ UNCHANGED <<entry, cur, loose, opens>>
  BY DEF WriteStep
<1>2. Proper /\ Calling /\ cur \in Files /\ cur # NoFile /\ fp \in Fils
  BY <1>1, FileAssumption DEF FatTypeInv, Calling, Proper
<1>3. Held(vol, entry[cur], fp, s, pc, left) /\ Kept(vol, entry, chain, cur) /\ Taken(vol, s)
  BY <1>2, OwnTaken DEF Sound
<1>4. PICK r \in Targets :
        \/ /\ r.ret = FULL /\ Takes(r)
           /\ fp' = [fp EXCEPT !.o = r.o, !.modified = TRUE]
           /\ pc' = "idle" /\ left' = 0 /\ res' = "full"
           /\ UNCHANGED chain
        \/ r.ret \notin Clst \cup {FULL} /\ Takes(r)
        \/ /\ r.ret \in Clst /\ Takes(r) /\ Given(r.ret)
           /\ Moved([fp EXCEPT !.o = Named(r.o, r.ret), !.clust = r.ret], Share)
        \/ Faults(1)
  BY DEF WriteStep, Targets, Named
<1>5. ~Faults(1)
  BY DEF Faults
<1>6. Takes(r) => r.ret # DISK /\ vol' = r.v
  BY <1>2, TakesFields
<1>7. r.ret # DISK => Target(r, s)
  <2> HIDE DEF s
  <2> QED
    BY <1>1, <1>3, TargetsSound
<1>8. /\ s \in Seq(Clst) /\ Shape(vol, fp.o, s) /\ Len(s) = Count(fp.o.size) /\ fp.fptr <= fp.o.size
      /\ (fp.fptr > 0 => fp.clust = s[Count(fp.fptr)])
      /\ entry[cur] # NoEntry /\ ~fp.err
  BY <1>1, <1>2, <1>3 DEF Held, Pointing, Proper
<1>9. \A i \in 1 .. Len(s) : s[i] \in Clst /\ s[i] # 0
  <2>1. s \in Seq(Clst)
    BY <1>8
  <2> HIDE DEF s
  <2>2. \A i \in 1 .. Len(s) : s[i] \in Clst
    BY <2>1, SeqFacts
  <2> QED
    BY <2>2
<1>10. StepTo \in Nat /\ StepTo >= 1 /\ Len(s) \in Nat
  BY <1>1, <1>8, StepToIs
<1> HIDE DEF s
<1>11. CASE /\ r.ret = FULL /\ Takes(r)
            /\ fp' = [fp EXCEPT !.o = r.o, !.modified = TRUE]
            /\ pc' = "idle" /\ left' = 0 /\ res' = "full"
            /\ UNCHANGED chain
  <2>1. r.v = vol /\ r.o = fp.o
    BY <1>6, <1>7, <1>9, <1>10, <1>11 DEF Target
  <2>2. fp' = [fp EXCEPT !.modified = TRUE]
    BY <1>2, <1>11, <2>1 DEF Fils
  <2>3. fp'.o = fp.o /\ fp'.clust = fp.clust /\ fp'.fptr = fp.fptr /\ fp'.modified = TRUE /\ fp'.err = fp.err
    BY <1>2, <2>2 DEF Fils
  <2>4. Held(vol, entry[cur], fp', s, "idle", left')
    BY <1>1, <1>3, <2>3 DEF Held, Pointing
  <2>5. vol' = vol
    BY <1>6, <1>11, <2>1
  <2>6. Held(vol, entry[cur], fp, chain[cur], pc, left)'
    BY <1>1, <1>11, <2>4, <2>5 DEF s
  <2>7. Kept(vol, entry, chain, cur)'
    BY <1>1, <1>3, <1>11, <2>5
  <2> QED
    BY <1>11, <2>6, <2>7 DEF Sound
<1>12. CASE r.ret \notin Clst \cup {FULL} /\ Takes(r)
  BY <1>6, <1>7, <1>9, <1>10, <1>12 DEF Target
<1>13. CASE /\ r.ret \in Clst /\ Takes(r) /\ Given(r.ret)
            /\ Moved([fp EXCEPT !.o = Named(r.o, r.ret), !.clust = r.ret], Share)
  <2> DEFINE o == Named(r.o, r.ret)
             f == [fp EXCEPT !.o = o, !.clust = r.ret]
  <2>1. r.o \in Objects /\ r.o.size = fp.o.size
    BY <1>2, TargetsType DEF FatTypeInv
  <2>2. o \in Objects /\ o.size = fp.o.size
    <3>1. o \in Objects /\ o.size = r.o.size
      BY <1>13, <2>1, NamedType
    <3> QED
      BY <2>1, <3>1
  <2> HIDE DEF o
  <2>3. /\ f \in Fils /\ f.o = o /\ f.clust = r.ret /\ f.fptr = fp.fptr /\ f.err = fp.err
        /\ f.modified = fp.modified
    BY <1>2, <1>13, <2>2 DEF Fils
  <2> HIDE DEF f
  <2>4. Moved(f, Share)
    BY <1>13 DEF f, o
  <2>5. vol' = r.v
    BY <1>6, <1>13
  <2>6. CASE r.v = vol /\ r.o = fp.o /\ StepTo <= Len(s) /\ r.ret = s[StepTo]
    <3>1. r.ret \in Range(s)
      BY <1>8, <1>10, <2>6, RangeIs
    <3>2. chain' = chain
      BY <1>2, <1>13, <3>1, GivenIs DEF s
    <3>3. o = fp.o
      <4>1. fp.o.sclust # 0
        <5>1. Len(s) > 0 /\ s[1] # 0
          BY <1>9, <1>10, <2>6
        <5> QED
          BY <1>8, <5>1 DEF Shape
      <4> QED
        BY <2>6, <4>1 DEF o, Named
    <3>4. fp.o.n_frag > 0 => s[StepTo] = s[Len(s)]
      BY <1>1, <1>3, <2>6, NextCluster
    <3>5. Held(vol, entry[cur], fp', s, pc', left') /\ res' # "int"
      <4>1. Count(fp.o.size) <= Len(s) /\ ~(Count(fp.o.size) < Len(s))
        BY <1>8, <1>10
      <4>2. Shape(vol, f.o, s) /\ f.o.n_frag = fp.o.n_frag /\ f.o.size = fp.o.size
        BY <1>8, <2>3, <3>3
      <4> QED
        BY <1>1, <1>8, <2>3, <2>4, <2>6, <3>4, <4>1, <4>2, MovedHeld
    <3>6. Kept(vol, entry, chain, cur)'
      BY <1>1, <1>3, <2>5, <2>6, <3>2
    <3>7. Held(vol, entry[cur], fp, chain[cur], pc, left)'
      BY <1>1, <2>5, <2>6, <3>2, <3>5 DEF s
    <3> QED
      BY <3>5, <3>6, <3>7 DEF Sound
  <2>7. CASE StepTo = Len(s) + 1 /\ r.ret \in Clst /\ Longer(vol, r.v, r.o, s, r.ret)
    <3> DEFINE t == Append(s, r.ret)
    <3>1. r.ret \notin Range(s) /\ Rechained(vol, r.v, s, t) /\ Shape(r.v, o, t)
      BY <2>7 DEF Longer, o
    <3>2. t \in Seq(Clst) /\ Len(t) = Len(s) + 1 /\ t[Len(s) + 1] = r.ret
      BY <1>8, <2>7, AppendProperties
    <3>3. chain' = [chain EXCEPT ![cur] = t]
      BY <1>2, <1>13, <3>1, GivenIs DEF s
    <3> HIDE DEF t
    <3>4. chain'[cur] = t /\ chain \in [Files -> Seq(Clst)]
      BY <1>2, <3>3 DEF Proper
    <3>5. Kept(r.v, entry, [chain EXCEPT ![cur] = t], cur)
      <4>1. /\ vol \in Volumes /\ r.v \in Volumes
            /\ entry \in [Files -> Entries \cup {NoEntry}]
        BY <1>2, TargetsType DEF FatTypeInv, Proper
      <4>2. Rechained(vol, r.v, chain[cur], t)
        BY <3>1 DEF s
      <4> QED
        BY <1>2, <1>3, <3>2, <3>4, <4>1, <4>2, KeptOpen
    <3>6. Held(r.v, entry[cur], fp', t, pc', left') /\ res' # "int"
      <4>1. Count(fp.o.size) <= Len(t) /\ StepTo <= Len(t) /\ Len(t) = StepTo
            /\ f.clust = t[StepTo] /\ t[StepTo] = t[Len(t)]
        BY <1>8, <1>10, <2>3, <2>7, <3>2
      <4>2. Shape(r.v, f.o, t) /\ f.o.size = fp.o.size
        BY <2>2, <2>3, <3>1
      <4>3. pc # "read"
        BY <1>1
      <4> QED
        BY <1>1, <1>8, <2>3, <2>4, <3>2, <4>1, <4>2, <4>3, MovedHeld
    <3>7. Kept(vol, entry, chain, cur)'
      BY <1>1, <2>5, <3>3, <3>5
    <3>8. Held(vol, entry[cur], fp, chain[cur], pc, left)'
      BY <1>1, <2>5, <3>4, <3>6
    <3> QED
      BY <3>6, <3>7, <3>8 DEF Sound
  <2> QED
    BY <1>6, <1>7, <1>13, <2>6, <2>7 DEF Target
<1> QED
  BY <1>4, <1>5, <1>11, <1>12, <1>13

-----------------------------------------------------------------------------
\* f_lseek

\* The growing edge is put on the FAT.
LEMMA FlushedSound ==
  ASSUME FatTypeInv, NEW e, NEW s, Held(vol, e, fp, s, "idle", left),
         NEW r \in FlushedEdge, r.ret # DISK
  PROVE  /\ r.ret = OK /\ r.v \in Volumes /\ r.o \in Objects /\ Plain(r.v, r.o)
         /\ Shape(r.v, r.o, s) /\ r.o.n_frag = 0 /\ Patched(vol, r.v, s)
         /\ r.o.sclust = fp.o.sclust /\ r.o.size = fp.o.size
         /\ Stored(vol, e, fp.o) => Stored(r.v, e, r.o)
<1> DEFINE o == fp.o
           c == fp.clust
<1>1. Proper /\ Edged /\ vol \in Volumes /\ o \in Objects /\ c \in 0 .. EOC /\ EOC \in 0 .. EOC
  BY OpenFile, LoadedCur, FatAssumption
<1>2. /\ r.v \in Volumes /\ r.v.type = vol.type
      /\ r.o \in Objects /\ r.o.sclust = fp.o.sclust /\ r.o.size = fp.o.size
      /\ Plain(r.v, r.o) /\ r.ret \in {OK, DISK} /\ (r.ret = OK => r.o.n_frag = 0)
  BY <1>1, FlushedEdgeType
<1>3. Shape(vol, o, s) /\ (o.n_frag > 0 => c = s[Len(s)])
  BY DEF Held
<1>4. CASE vol.type = "exfat"
  <2>1. r \in FillLast(vol, o, c, EOC)
    BY <1>4 DEF FlushedEdge
  <2> DEFINE t == EOC
  <2>2. t \in 0 .. EOC /\ r \in FillLast(vol, o, c, t)
    BY <1>1, <2>1
  <2> HIDE DEF o, c, t
  <2>3. r.o.stat = o.stat
    BY <1>1, <2>2, FillLastOutcomes
  <2>4. Shape(r.v, r.o, s) /\ Patched(vol, r.v, s)
    BY <1>1, <1>2, <1>3, <1>4, <2>1, EdgeFlushed
  <2> QED
    BY <1>2, <2>3, <2>4 DEF o, Stored
<1>5. CASE vol.type # "exfat"
  <2>1. r.v = vol /\ r.o = fp.o /\ r.ret = OK
    BY <1>5, OutcomeFields DEF FlushedEdge
  <2>2. Patched(vol, vol, s)
    BY DEF Patched, SameBut
  <2> QED
    BY <1>2, <1>3, <2>1, <2>2
<1> QED
  BY <1>4, <1>5

\* Where f_lseek starts from
LEMMA SeekFromHere ==
  ASSUME NEW f \in Fils, NEW s \in Seq(Clst), Pointing(f, s), f.fptr > 0,
         NEW g, NEW ofs \in Nat, g.clust = f.clust, g.fptr = ClusterBase(f.fptr),
         g.o.size = f.o.size, ~g.write => ofs <= f.o.size
  PROVE  Seeking(g, s, ofs - ClusterBase(f.fptr))
<1> DEFINE p == f.fptr
           z == f.o.size
           k == Count(p) - 1
           b == ClusterBase(p)
<1>1. p \in Nat /\ p > 0 /\ z \in Nat /\ p <= z
  BY FileAssumption DEF Fils, Objects, Pointing
<1>2. Len(s) = Count(z) /\ f.clust = s[Count(p)]
  BY DEF Pointing
<1> HIDE DEF p, z
<1>3. Count(p) \in Nat /\ Count(p) # 0 /\ Count(p) <= Count(z) /\ Count(z) \in Nat
  <2>1. Count(p) \in Nat /\ (p = 0 <=> Count(p) = 0)
    BY <1>1, CountBounds
  <2>2. Count(p) <= Count(z)
    BY <1>1, CountMonotone
  <2>3. Count(z) \in Nat
    BY <1>1, CountBounds
  <2> QED
    BY <1>1, <2>1, <2>2, <2>3
<1>4. k \in Nat /\ k + 1 = Count(p)
  BY <1>3
<1>5. b = CSize * k
  BY <1>1, CountBefore DEF ClusterBase
<1>6. b \in Nat /\ b < p
  BY <1>1, ClusterBaseBounds
<1> HIDE DEF k, b
<1>7. /\ g.fptr = CSize * k /\ k + 1 <= Len(s) /\ g.clust = s[k + 1]
      /\ Count(g.o.size) <= Len(s) /\ (Count(g.o.size) < Len(s) => Len(s) = k + 1)
      /\ g.fptr <= g.o.size
      /\ ~g.write => g.fptr + (ofs - b) <= g.o.size
  <2>1. g.fptr = b /\ g.o.size = z /\ (~g.write => ofs <= z)
    BY DEF b, z, p
  <2>2. g.fptr = CSize * k /\ k + 1 <= Len(s) /\ g.clust = s[k + 1]
    BY <1>2, <1>3, <1>4, <1>5, <2>1
  <2>3. Count(z) <= Len(s) /\ ~(Count(z) < Len(s))
    BY <1>2, <1>3
  <2>4. b <= z
    BY <1>1, <1>6
  <2>5. b + (ofs - b) = ofs
    BY <1>6
  <2> QED
    BY <2>1, <2>2, <2>3, <2>4, <2>5
<1>8. Seeking(g, s, ofs - b)
  BY <1>4, <1>7 DEF Seeking, Passed
<1> QED
  BY <1>8 DEF b, p

LEMMA SeekFromStart ==
  ASSUME NEW s \in Seq(Clst), Len(s) > 0, NEW g, NEW ofs \in Nat, g.o.size \in Nat,
         g.clust = s[1], g.fptr = 0,
         Count(g.o.size) <= Len(s), Count(g.o.size) < Len(s) => Len(s) = 1,
         ~g.write => ofs <= g.o.size
  PROVE  Seeking(g, s, ofs)
<1>1. CSize * 0 = 0
  BY FatAssumption
<1>2. 0 + 1 <= Len(s)
  OBVIOUS
<1>3. 0 \in Nat /\ g.fptr = CSize * 0 /\ g.clust = s[0 + 1] /\ g.fptr <= g.o.size
      /\ (Count(g.o.size) < Len(s) => Len(s) = 0 + 1) /\ (~g.write => g.fptr + ofs <= g.o.size)
  BY <1>1
<1> QED
  BY <1>2, <1>3 DEF Seeking, Passed

LEMMA SeekOfsBound ==
  ASSUME Proper, NEW asked \in Offsets
  PROVE  /\ SeekOfs(asked) \in Nat /\ (~fp.write => SeekOfs(asked) <= fp.o.size)
<1>1. fp.o.size \in Nat /\ asked \in Nat
  BY LoadedCur, FileAssumption
<1> QED
  BY <1>1 DEF SeekOfs

\* A seek that is under way, or has ended at 0
LEMMA SeekHeld ==
  ASSUME NEW v, NEW e, NEW s, NEW g \in Fils, NEW rest, e # NoEntry, ~g.err,
         Shape(v, g.o, s), g.o.n_frag = 0, Seeking(g, s, rest),
         ~g.modified => Stored(v, e, g.o)
  PROVE  Held(v, e, g, s, "seek", rest)
BY DEF Held

\* f_lseek gives a file without a cluster its first one, or none is free.
LEMMA SoundSeekNew ==
  ASSUME FatTypeInv, Sound, pc = "idle", cur \in Files, UNCHANGED <<entry, cur>>,
         NEW r, r.v \in Volumes, r.o \in Objects, Plain(r.v, r.o), r.o.n_frag = 0,
         r.o.size = fp.o.size,
         Shape(r.v, r.o, chain[cur]), Kept(r.v, entry, chain, cur), r.o.sclust = 0,
         entry[cur] # NoEntry, ~fp.err, Len(chain[cur]) = Count(fp.o.size),
         ~fp.modified => Stored(r.v, entry[cur], r.o),
         NEW ofs \in Nat, ofs > 0, ~fp.write => ofs <= fp.o.size,
         NEW n \in CreateChain(r.v, r.o, 0), n.ret # DISK, vol' = n.v,
         IF n.ret \in Clst
         THEN /\ SeekStarts([fp EXCEPT !.o = [n.o EXCEPT !.sclust = n.ret],
                                       !.fptr = 0, !.clust = n.ret], ofs)
              /\ Given(n.ret)
         ELSE /\ fp' = [fp EXCEPT !.o = n.o, !.fptr = 0,
                                  !.clust = IF n.ret = FULL THEN 0 ELSE @,
                                  !.err = n.ret # FULL]
              /\ res' = Result(n.ret)
              /\ UNCHANGED <<pc, left, chain>>
  PROVE  Sound'
<1> DEFINE s == chain[cur]
           e == entry[cur]
           w == r.v
           o == r.o
<1>1. Proper /\ fp \in Fils /\ s \in Seq(Clst) /\ fp.o.size \in Nat /\ cur # NoFile
  <2>1. Proper /\ fp \in Fils /\ chain \in [Files -> Seq(Clst)] /\ fp.o.size \in Nat
    BY OpenFile
  <2>2. s \in Seq(Clst)
    BY <2>1
  <2>3. cur # NoFile
    BY FileAssumption
  <2> QED
    BY <2>1, <2>2, <2>3
<1>2. Len(s) = 0 /\ s = <<>> /\ Taken(w, s)
  <2>1. Len(s) = 0
    <3>1. Len(s) > 0 => o.sclust = s[1] /\ o.sclust # 0
      <4> HIDE DEF o, s
      <4>1. o \in Objects /\ Shape(r.v, o, s)
        BY DEF o, s
      <4> QED
        BY <4>1, ShapeFields
    <3>2. Len(s) \in Nat
      BY <1>1
    <3> QED
      BY <3>1, <3>2
  <2>2. s = <<>>
    BY <1>1, <2>1, EmptySeq
  <2>3. Taken(w, s)
    BY OwnTaken
  <2> QED
    BY <2>1, <2>2, <2>3
<1>3. fp.o.size = 0 /\ o.size = 0 /\ Count(0) = 0
  <2> DEFINE z == fp.o.size
  <2>1. Count(z) = 0 /\ z \in Nat
    BY <1>1, <1>2
  <2> HIDE DEF z
  <2>2. z = 0
    BY <2>1, CountBounds
  <2> QED
    BY <2>1, <2>2 DEF z
<1>4. fp.write /\ fp.write \in BOOLEAN
  BY <1>1, <1>3 DEF Fils
<1>5. AtEnd(w, o, s, n)
  <2>1. LastOf(s) = 0
    BY <1>2 DEF LastOf
  <2>2. n \in CreateChain(w, o, LastOf(s)) /\ w \in Volumes /\ o \in Objects /\ Plain(w, o) /\ Shape(w, o, s)
    BY <2>1
  <2>3. Len(s) > 0 => Whole(o, s)
    BY <1>2
  <2> HIDE DEF w, o, s
  <2> QED
    BY <1>2, <2>2, <2>3, CreateAtEnd
<1> HIDE DEF s, e
<1>6. CASE n.v = w /\ n.o = o /\ n.ret = FULL
  <2>1. n.ret \notin Clst /\ Result(n.ret) = "ok"
    BY <1>6, FatAssumption DEF Result
  <2>2. fp' = [fp EXCEPT !.o = o, !.fptr = 0, !.clust = 0, !.err = FALSE]
    BY <1>6, <2>1
  <2>3. /\ fp'.o = o /\ fp'.fptr = 0 /\ fp'.clust = 0 /\ fp'.err = FALSE
        /\ fp'.modified = fp.modified /\ fp' \in Fils
    <3>1. 0 \in 0 .. MaxSize /\ o \in Objects
      BY <1>1, LoadedCur
    <3> HIDE DEF o
    <3> QED
      BY <1>1, <2>2, <3>1 DEF Fils
  <2>4. Pointing(fp', s)
    BY <1>2, <1>3, <2>3 DEF Pointing
  <2>5. /\ e # NoEntry /\ Shape(w, o, s) /\ o.n_frag = 0 /\ (~fp.modified => Stored(w, e, o))
    BY DEF s, e
  <2>6. Held(w, e, fp', s, "idle", left')
    BY <2>3, <2>4, <2>5 DEF Held
  <2>7. /\ pc' = "idle" /\ chain' = chain /\ vol' = w /\ res' = "ok"
    BY <1>6, <2>1
  <2>8. Held(vol, entry[cur], fp, chain[cur], pc, left)'
    BY <2>6, <2>7 DEF s, e
  <2>9. Kept(vol, entry, chain, cur)'
    BY <2>7
  <2> QED
    BY <2>7, <2>8, <2>9 DEF Sound
<1>7. CASE n.ret \in Clst /\ Longer(w, n.v, n.o, s, n.ret)
  <2> DEFINE c == n.ret
             t == Append(s, c)
             p == Named(n.o, c)
  <2>1. /\ n.v \in Volumes /\ n.o \in Objects /\ n.o.sclust = 0 /\ n.o.size = 0
    <3> DEFINE u == 0
    <3>1. u \in {0, EOC} \cup Clst /\ n \in CreateChain(w, o, u) /\ w \in Volumes /\ o \in Objects /\ Plain(w, o)
      OBVIOUS
    <3>2. Fits(o, u)
      BY DEF Fits
    <3> HIDE DEF u, w, o
    <3>3. n.v \in Volumes /\ n.o \in Objects /\ n.o.sclust = o.sclust /\ n.o.size = o.size
      BY <3>1, <3>2, CreateChainType
    <3> QED
      BY <1>3, <3>3 DEF o
  <2>2. c \notin Range(s) /\ Rechained(w, n.v, s, t) /\ Shape(n.v, p, t)
    BY <1>7 DEF Longer
  <2>3. t \in Seq(Clst) /\ Len(t) = 1 /\ t[1] = c
    BY <1>1, <1>2, <1>7, AppendProperties
  <2>4. p = [n.o EXCEPT !.sclust = c] /\ p \in Objects /\ p.size = 0
    <3>1. p = [n.o EXCEPT !.sclust = c]
      BY <2>1 DEF Named
    <3>2. p \in Objects /\ p.size = n.o.size
      BY <1>7, <2>1, NamedType
    <3> QED
      BY <2>1, <3>1, <3>2
  <2>5. Given(c) /\ fp' = [fp EXCEPT !.o = p, !.fptr = 0, !.clust = c]
        /\ left' = ofs /\ pc' = "seek" /\ res' = "ok"
    BY <1>7, <2>4 DEF SeekStarts
  <2>6. chain' = [chain EXCEPT ![cur] = t]
    BY <1>1, <2>2, <2>5, GivenIs DEF s
  <2> HIDE DEF t, p
  <2>7. /\ fp'.o = p /\ fp'.fptr = 0 /\ fp'.clust = c /\ fp'.err = fp.err
        /\ fp'.write = fp.write /\ fp' \in Fils
    <3>1. 0 \in 0 .. MaxSize
      BY <1>1, LoadedCur
    <3> QED
      BY <1>1, <1>7, <2>4, <2>5, <3>1 DEF Fils
  <2>8. chain'[cur] = t /\ chain \in [Files -> Seq(Clst)]
    BY <1>1, <2>6 DEF Proper
  <2>9. Seeking(fp', t, ofs)
    <3>1. fp'.o.size = 0 /\ fp'.clust = t[1] /\ fp'.write
      BY <1>4, <2>3, <2>4, <2>7
    <3>2. /\ Count(fp'.o.size) <= Len(t) /\ Len(t) > 0
          /\ (Count(fp'.o.size) < Len(t) => Len(t) = 1)
      BY <1>3, <2>3, <3>1
    <3>3. fp'.fptr = 0 /\ fp'.o.size \in Nat
      BY <2>7, <3>1
    <3>4. t \in Seq(Clst)
      BY <2>3
    <3> DEFINE g == fp'
    <3>5. /\ g.o.size \in Nat /\ g.clust = t[1] /\ g.fptr = 0 /\ g.write
          /\ Count(g.o.size) <= Len(t) /\ Len(t) > 0
          /\ (Count(g.o.size) < Len(t) => Len(t) = 1)
      BY <3>1, <3>2, <3>3
    <3> HIDE DEF g
    <3>6. Seeking(g, t, ofs)
      BY <3>4, <3>5, SeekFromStart
    <3> QED
      BY <3>6 DEF g
  <2>10. Held(n.v, e, fp', t, "seek", ofs)
    <3>1. e # NoEntry
      BY DEF e
    <3>2. fp'.o.n_frag > 0 => fp'.clust = t[Len(t)]
      BY <2>3, <2>7
    <3>3. fp'.write /\ fp'.o.size <= fp'.fptr
      BY <1>4, <2>4, <2>7
    <3>4. Shape(n.v, fp'.o, t) /\ ~fp'.err
      BY <2>2, <2>7 DEF p
    <3> QED
      BY <2>9, <3>1, <3>2, <3>3, <3>4 DEF Held
  <2>11. Kept(n.v, entry, [chain EXCEPT ![cur] = t], cur)
    <3>1. w \in Volumes /\ entry \in [Files -> Entries \cup {NoEntry}] /\ Kept(w, entry, chain, cur)
      BY <1>1 DEF Proper
    <3>2. Rechained(w, n.v, chain[cur], t)
      BY <2>2 DEF s, t
    <3> HIDE DEF w
    <3> QED
      BY <2>1, <2>3, <2>8, <3>1, <3>2, KeptOpen
  <2>12. Kept(vol, entry, chain, cur)'
    BY <2>6, <2>11
  <2>13. Held(vol, entry[cur], fp, chain[cur], pc, left)'
    BY <2>5, <2>8, <2>10 DEF e
  <2> QED
    BY <2>5, <2>12, <2>13 DEF Sound
<1> QED
  BY <1>5, <1>6, <1>7 DEF AtEnd

LEMMA SoundSeek ==
  ASSUME FatTypeInv, Sound, faults = 0, Seek, faults' = 0
  PROVE  Sound'
<1> DEFINE s == chain[cur]
           e == entry[cur]
<1>1. pc = "idle" /\ cur # NoFile /\ UNCHANGED <<entry, cur, loose, opens>>
  BY DEF Seek, Valid
<1>2. Proper /\ Edged /\ cur \in Files /\ fp \in Fils /\ s \in Seq(Clst)
      /\ entry \in [Files -> Entries \cup {NoEntry}] /\ chain \in [Files -> Seq(Clst)]
      /\ vol \in Volumes
  BY <1>1 DEF FatTypeInv, Proper
<1>3. PICK asked \in Offsets, r \in FlushedEdge : SeekCase(asked, r)
  BY SeekCases
<1> DEFINE ofs == SeekOfs(asked)
<1>4. Held(vol, e, fp, s, "idle", left) /\ Kept(vol, entry, chain, cur)
  BY <1>1 DEF Sound
<1>5. ofs \in Nat /\ (~fp.write => ofs <= fp.o.size)
  BY <1>2, SeekOfsBound
<1> HIDE DEF ofs
<1>6. r.ret # DISK => /\ r.ret = OK /\ r.v \in Volumes /\ r.o \in Objects /\ Plain(r.v, r.o)
                      /\ Shape(r.v, r.o, s) /\ r.o.n_frag = 0 /\ Patched(vol, r.v, s)
                      /\ r.o.sclust = fp.o.sclust /\ r.o.size = fp.o.size
                      /\ (Stored(vol, e, fp.o) => Stored(r.v, e, r.o))
  BY <1>4, FlushedSound
<1>7. \A n : Takes(n) => n.ret # DISK /\ vol' = n.v
  BY <1>2, TakesFields
<1>8. r.ret # DISK => Kept(r.v, entry, chain, cur)
  BY <1>2, <1>4, <1>6, KeptPatched
<1>9. /\ e # NoEntry /\ ~fp.err /\ Pointing(fp, s) /\ (~fp.modified => Stored(vol, e, fp.o))
  BY <1>4 DEF Held
<1>10. /\ fp.fptr \in Nat /\ fp.o.size \in Nat /\ Len(s) = Count(fp.o.size) /\ DISK # OK
  <2>1. fp.fptr \in Nat /\ fp.o.size \in Nat
    BY <1>2, LoadedCur
  <2>2. Len(s) = Count(fp.o.size)
    BY <1>9 DEF Pointing
  <2>3. DISK # OK
    BY FatAssumption
  <2> QED
    BY <2>1, <2>2, <2>3
<1> HIDE DEF s, e
<1>11. CASE /\ r.ret = OK /\ ofs = 0 /\ Takes(r)
            /\ fp' = [fp EXCEPT !.o = r.o, !.fptr = 0] /\ res' = "ok"
            /\ UNCHANGED <<pc, left, chain>>
  <2>1. /\ fp'.o = r.o /\ fp'.fptr = 0 /\ fp'.clust = fp.clust /\ fp'.err = fp.err
        /\ fp'.modified = fp.modified
    BY <1>2, <1>11 DEF Fils
  <2>2. Pointing(fp', s)
    BY <1>6, <1>10, <1>11, <2>1 DEF Pointing
  <2>3. Held(r.v, e, fp', s, "idle", left')
    BY <1>6, <1>9, <1>10, <1>11, <2>1, <2>2 DEF Held
  <2>4. vol' = r.v /\ r.ret # DISK
    BY <1>7, <1>11
  <2>5. Held(vol, entry[cur], fp, chain[cur], pc, left)'
    BY <1>1, <1>11, <2>3, <2>4 DEF s, e
  <2>6. Kept(vol, entry, chain, cur)'
    BY <1>1, <1>8, <1>11, <2>4
  <2> QED
    BY <1>11, <2>5, <2>6 DEF Sound
<1>12. ASSUME r.ret = OK, Takes(r), NEW g \in Fils, g.o = r.o, g.err = fp.err,
              g.modified = fp.modified, NEW rest, SeekStarts(g, rest), Seeking(g, s, rest),
              UNCHANGED chain
       PROVE  Sound'
  <2>1. Held(r.v, e, g, s, "seek", rest)
    BY <1>6, <1>9, <1>10, <1>12, SeekHeld
  <2>2. vol' = r.v /\ r.ret # DISK /\ fp' = g /\ left' = rest /\ pc' = "seek" /\ res' = "ok"
    BY <1>7, <1>12 DEF SeekStarts
  <2>3. Held(vol, entry[cur], fp, chain[cur], pc, left)'
    BY <1>1, <1>12, <2>1, <2>2 DEF s, e
  <2>4. Kept(vol, entry, chain, cur)'
    BY <1>1, <1>8, <1>12, <2>2
  <2> QED
    BY <2>2, <2>3, <2>4 DEF Sound
<1>13. CASE /\ r.ret = OK /\ ofs > 0 /\ SeekHere(ofs) /\ Takes(r)
            /\ SeekStarts([fp EXCEPT !.o = r.o, !.fptr = ClusterBase(fp.fptr)],
                          ofs - ClusterBase(fp.fptr))
            /\ UNCHANGED chain
  <2> DEFINE g == [fp EXCEPT !.o = r.o, !.fptr = ClusterBase(fp.fptr)]
  <2>1. ClusterBase(fp.fptr) \in 0 .. MaxSize /\ fp.fptr > 0
    <3>1. fp.fptr > 0
      BY <1>13 DEF SeekHere
    <3>2. ClusterBase(fp.fptr) \in Nat /\ ClusterBase(fp.fptr) < fp.fptr
      BY <1>10, <3>1, ClusterBaseBounds
    <3> QED
      BY <1>2, <3>1, <3>2, LoadedCur
  <2>2. /\ g \in Fils /\ g.o = r.o /\ g.fptr = ClusterBase(fp.fptr) /\ g.clust = fp.clust
        /\ g.err = fp.err /\ g.modified = fp.modified /\ g.write = fp.write
    BY <1>2, <1>6, <1>10, <1>13, <2>1 DEF Fils
  <2>3. SeekStarts(g, ofs - ClusterBase(fp.fptr))
    BY <1>13
  <2> HIDE DEF g
  <2>4. Seeking(g, s, ofs - ClusterBase(fp.fptr))
    <3>1. g.o.size = fp.o.size
      BY <1>6, <1>10, <1>13, <2>2
    <3>2. s \in Seq(Clst)
      BY <1>2 DEF s
    <3> QED
      BY <1>2, <1>5, <1>9, <2>1, <2>2, <3>1, <3>2, SeekFromHere
  <2> QED
    BY <1>12, <1>13, <2>2, <2>3, <2>4
<1>14. CASE /\ r.ret = OK /\ ofs > 0 /\ ~SeekHere(ofs) /\ r.o.sclust # 0 /\ Takes(r)
            /\ SeekStarts([fp EXCEPT !.o = r.o, !.fptr = 0, !.clust = r.o.sclust], ofs)
            /\ UNCHANGED chain
  <2> DEFINE g == [fp EXCEPT !.o = r.o, !.fptr = 0, !.clust = r.o.sclust]
  <2>1. r.o.sclust \in Clst /\ r.o \in Objects /\ 0 \in 0 .. MaxSize /\ r.o.size = fp.o.size
    <3>1. r.o \in Objects /\ r.o.sclust # 0 /\ r.o.size = fp.o.size
      BY <1>6, <1>10, <1>14
    <3>2. r.o.sclust \in Clst
      BY <3>1 DEF Objects
    <3>3. MaxSize \in Nat
      BY FileAssumption
    <3> QED
      BY <3>1, <3>2, <3>3
  <2>2. /\ g \in Fils /\ g.o = r.o /\ g.fptr = 0 /\ g.clust = r.o.sclust
        /\ g.err = fp.err /\ g.modified = fp.modified /\ g.write = fp.write
    BY <1>2, <2>1 DEF Fils
  <2>3. SeekStarts(g, ofs)
    BY <1>14
  <2> HIDE DEF g
  <2>4. s \in Seq(Clst) /\ Len(s) \in Nat /\ Len(s) > 0 /\ r.o.sclust = s[1]
    <3> DEFINE o == r.o
    <3>1. o \in Objects /\ Shape(r.v, o, s) /\ o.sclust # 0
      BY <1>6, <1>10, <1>14
    <3> HIDE DEF o
    <3>2. /\ s \in Seq(Clst) /\ Len(s) \in Nat /\ (Len(s) > 0 => o.sclust = s[1])
          /\ (Len(s) = 0 => o.sclust = 0)
      BY <3>1, ShapeFields
    <3> QED
      BY <3>1, <3>2 DEF o
  <2>5. Seeking(g, s, ofs)
    <3>1. Count(g.o.size) <= Len(s) /\ ~(Count(g.o.size) < Len(s))
      BY <1>10, <2>1, <2>2, <2>4
    <3>2. g.o.size \in Nat /\ g.clust = s[1] /\ (~g.write => ofs <= g.o.size)
      BY <1>5, <1>10, <2>1, <2>2, <2>4
    <3> QED
      BY <1>5, <2>2, <2>4, <3>1, <3>2, SeekFromStart
  <2> QED
    BY <1>12, <1>14, <2>2, <2>3, <2>5
<1>15. CASE /\ r.ret = OK /\ ofs > 0 /\ ~SeekHere(ofs) /\ r.o.sclust = 0
            /\ \E n \in CreateChain(r.v, r.o, 0) :
              /\ Takes(n)
              /\ IF n.ret \in Clst
                 THEN /\ SeekStarts([fp EXCEPT !.o = [n.o EXCEPT !.sclust = n.ret],
                                               !.fptr = 0, !.clust = n.ret], ofs)
                      /\ Given(n.ret)
                 ELSE /\ fp' = [fp EXCEPT !.o = n.o, !.fptr = 0,
                                          !.clust = IF n.ret = FULL THEN 0 ELSE @,
                                          !.err = n.ret # FULL]
                      /\ res' = Result(n.ret)
                      /\ UNCHANGED <<pc, left, chain>>
  <2>1. PICK n \in CreateChain(r.v, r.o, 0) :
              /\ Takes(n)
              /\ IF n.ret \in Clst
                 THEN /\ SeekStarts([fp EXCEPT !.o = [n.o EXCEPT !.sclust = n.ret],
                                               !.fptr = 0, !.clust = n.ret], ofs)
                      /\ Given(n.ret)
                 ELSE /\ fp' = [fp EXCEPT !.o = n.o, !.fptr = 0,
                                          !.clust = IF n.ret = FULL THEN 0 ELSE @,
                                          !.err = n.ret # FULL]
                      /\ res' = Result(n.ret)
                      /\ UNCHANGED <<pc, left, chain>>
    BY <1>15
  <2>2. n.ret # DISK /\ vol' = n.v
    BY <1>7, <2>1
  <2>3. /\ r.v \in Volumes /\ r.o \in Objects /\ Plain(r.v, r.o) /\ r.o.n_frag = 0
        /\ r.o.size = fp.o.size /\ r.o.sclust = 0 /\ Kept(r.v, entry, chain, cur)
        /\ Shape(r.v, r.o, chain[cur])
    BY <1>6, <1>8, <1>10, <1>15 DEF s
  <2>4. /\ entry[cur] # NoEntry /\ ~fp.err /\ Len(chain[cur]) = Count(fp.o.size)
        /\ (~fp.modified => Stored(r.v, entry[cur], r.o))
    BY <1>6, <1>9, <1>10, <1>15 DEF s, e
  <2>5. ofs \in Nat /\ ofs > 0 /\ (~fp.write => ofs <= fp.o.size)
    BY <1>5, <1>15
  <2> QED
    BY <1>1, <1>2, <2>1, <2>2, <2>3, <2>4, <2>5, SoundSeekNew
<1>16. ~(r.ret = DISK /\ Takes(r))
  BY <1>7
<1> QED
  BY <1>3, <1>11, <1>13, <1>14, <1>15, <1>16 DEF SeekCase, ofs

\* f_lseek: one cluster further

\* What StretchedTo does
LEMMA StretchedToIs ==
  ASSUME Proper, NEW at \in 0 .. MaxSize
  PROVE  LET o == StretchedTo(at)
         IN  /\ o \in Objects /\ o.sclust = fp.o.sclust /\ o.stat = fp.o.stat
             /\ o.n_cont = fp.o.n_cont /\ o.n_frag = fp.o.n_frag
             /\ o.size = IF fp.write /\ at > fp.o.size THEN at ELSE fp.o.size
             /\ o = fp.o <=> ~(fp.write /\ at > fp.o.size)
<1>1. fp.o \in Objects /\ fp.o.size \in Nat
  BY LoadedCur
<1>2. CASE fp.write /\ at > fp.o.size
  <2> DEFINE p == [fp.o EXCEPT !.size = at]
  <2>1. /\ p \in Objects /\ p.sclust = fp.o.sclust /\ p.stat = fp.o.stat
        /\ p.n_cont = fp.o.n_cont /\ p.n_frag = fp.o.n_frag /\ p.size = at
    BY <1>1 DEF Objects
  <2>2. StretchedTo(at) = p
    BY <1>2 DEF StretchedTo
  <2> HIDE DEF p
  <2>3. p # fp.o
    <3>1. p.size # fp.o.size
      BY <1>1, <1>2, <2>1
    <3> QED
      BY <3>1
  <2> QED
    BY <1>2, <2>1, <2>2, <2>3
<1>3. CASE ~(fp.write /\ at > fp.o.size)
  <2>1. StretchedTo(at) = fp.o
    BY <1>3 DEF StretchedTo
  <2> QED
    BY <1>1, <1>3, <2>1
<1> QED
  BY <1>2, <1>3

\* f_lseek goes on with the next cluster of the file, or gets one, or none is free.
NextTarget(r, o, s, k) ==
  \/ k + 2 <= Len(s) /\ r.v = vol /\ r.o = fp.o /\ o = fp.o /\ r.ret = s[k + 2]
  \/ fp.write /\ k + 1 = Len(s) /\ r.v = vol /\ r.o = o /\ r.ret = FULL
  \/ fp.write /\ k + 1 = Len(s) /\ r.ret \in Clst /\ Longer(vol, r.v, r.o, s, r.ret)

LEMMA NextInChain ==
  ASSUME FatTypeInv, pc = "seek", left > CSize, NEW e, NEW s, Held(vol, e, fp, s, pc, left),
         NEW k \in Nat, Passed(fp, s, left, k), k + 1 < Len(s)
  PROVE  /\ fp.o.n_frag = 0 /\ Len(s) = Count(fp.o.size) /\ fp.o.size > CSize * (k + 1)
         /\ k + 1 \in 1 .. Len(s) /\ k + 2 = (k + 1) + 1 /\ s[k + 2] \in Clst
<1> DEFINE o == fp.o
           l == Len(s)
           z == fp.o.size
<1>1. Proper /\ o \in Objects /\ z \in Nat
  BY LoadedCur DEF FatTypeInv
<1>2. Shape(vol, o, s) /\ (o.n_frag > 0 => fp.clust = s[Len(s)])
  BY DEF Held
<1>3. s \in Seq(Clst) /\ Len(s) \in Nat /\ Injective(s) /\ (\A i \in 1 .. Len(s) : s[i] \in Clst)
      /\ o.n_frag \in Nat
  <2> HIDE DEF o
  <2>1. s \in Seq(Clst) /\ Len(s) \in Nat /\ Injective(s) /\ o.n_frag \in 0 .. Len(s)
        /\ (\A i \in 1 .. Len(s) : s[i] \in Clst /\ s[i] \in Nat)
    BY <1>1, <1>2, ShapeFields
  <2> QED
    BY <2>1
<1>4. /\ fp.clust = s[k + 1] /\ Count(z) <= l /\ (Count(z) < l => l = k + 1)
  BY DEF Passed
<1> HIDE DEF o, l, z
<1>5. k + 1 \in 1 .. Len(s) /\ k + 2 \in 1 .. Len(s) /\ k + 2 = (k + 1) + 1 /\ Len(s) \in 1 .. Len(s)
  BY <1>3
<1>6. o.n_frag = 0
  <2> SUFFICES ASSUME o.n_frag > 0 PROVE FALSE
    BY <1>3
  <2>1. s[k + 1] = s[Len(s)]
    BY <1>2, <1>4
  <2>2. k + 1 = Len(s)
    BY <1>3, <1>5, <2>1 DEF Injective
  <2> QED
    BY <1>3, <2>2
<1>7. Count(z) \in Nat
  BY <1>1, CountBounds
<1>8. Count(z) = l
  BY <1>3, <1>4, <1>7 DEF l
<1>9. z > CSize * (k + 1)
  <2>1. Count(z) > k + 1 /\ k + 1 \in Nat
    BY <1>3, <1>8 DEF l
  <2> QED
    BY <1>1, <2>1, CountAbove
<1> QED
  BY <1>3, <1>5, <1>6, <1>8, <1>9 DEF o, l, z

LEMMA NextAtEnd ==
  ASSUME FatTypeInv, pc = "seek", left > CSize, NEW e, NEW s, Held(vol, e, fp, s, pc, left),
         NEW k \in Nat, Passed(fp, s, left, k), k + 1 = Len(s), NEW at, at = fp.fptr + CSize
  PROVE  /\ fp.write /\ Len(s) = Count(StretchedTo(at).size) /\ fp.clust = LastOf(s)
         /\ Count(at) = k + 1 /\ at = CSize * (k + 1) /\ fp.o.size <= at
<1> DEFINE z == fp.o.size
           l == Len(s)
           y == StretchedTo(at).size
<1>1. Proper /\ Calling /\ z \in Nat /\ CSize \in Nat /\ CSize > 0 /\ fp.fptr \in Nat
  BY LoadedCur DEF FatTypeInv
<1>2. left \in 0 .. MaxSize /\ fp.fptr + left <= MaxSize
  BY <1>1 DEF Calling, Proper
<1>3. /\ fp.fptr = CSize * k /\ fp.clust = s[k + 1] /\ Count(z) <= l
      /\ (~fp.write => fp.fptr + left <= z)
  BY DEF Passed
<1>4. at = CSize * (k + 1) /\ Count(at) = k + 1 /\ at \in 0 .. MaxSize /\ at \in Nat
  <2>1. CSize * (k + 1) = CSize * k + CSize
    BY CountWithin
  <2>2. Count(CSize * (k + 1)) = k + 1
    <3>1. k + 1 \in Nat
      OBVIOUS
    <3> QED
      BY <3>1, CountWithin
  <2> QED
    BY <1>1, <1>2, <1>3, <2>1, <2>2, LoadedCur
<1>5. y = IF fp.write /\ at > z THEN at ELSE z
  BY <1>1, <1>4, StretchedToIs
<1>6. l = k + 1 /\ l \in Nat
  OBVIOUS
<1>7. fp.clust = LastOf(s)
  <2>1. Len(s) # 0
    BY <1>6 DEF l
  <2>2. fp.clust = s[Len(s)]
    BY <1>3
  <2> QED
    BY <2>1, <2>2 DEF LastOf
<1> HIDE DEF z, l, y
<1>8. z <= at
  <2>1. ~(Count(z) > k + 1)
    <3>1. Count(z) \in Nat
      BY <1>1, CountBounds
    <3> QED
      BY <1>3, <1>6, <3>1
  <2>2. (z > CSize * (k + 1)) <=> (Count(z) > k + 1)
    <3>1. k + 1 \in Nat
      OBVIOUS
    <3> QED
      BY <1>1, <3>1, CountAbove
  <2> QED
    BY <1>1, <1>4, <2>1, <2>2
<1>9. fp.write
  BY <1>1, <1>2, <1>3, <1>8
<1>10. y = at
  BY <1>1, <1>4, <1>5, <1>8, <1>9
<1> QED
  BY <1>4, <1>6, <1>7, <1>8, <1>9, <1>10 DEF z, l, y

LEMMA NextTargetsSound ==
  ASSUME FatTypeInv, pc = "seek", left > CSize, NEW e, NEW s, Held(vol, e, fp, s, pc, left),
         Taken(vol, s), NEW k \in Nat, Passed(fp, s, left, k), NEW at, at = fp.fptr + CSize,
         NEW r \in NextTargets(StretchedTo(at)), r.ret # DISK
  PROVE  NextTarget(r, StretchedTo(at), s, k)
<1>1. Proper /\ Edged /\ Calling /\ vol \in Volumes /\ fp.o \in Objects /\ Plain(vol, fp.o)
      /\ fp.o.size \in Nat
  BY OpenFile
<1>2. Shape(vol, fp.o, s)
  BY DEF Held
<1>3. k + 1 <= Len(s) /\ fp.clust = s[k + 1] /\ fp.fptr = CSize * k
  BY DEF Passed
<1>4. at \in 0 .. MaxSize /\ at = CSize * (k + 1)
  <2>1. left \in 0 .. MaxSize /\ fp.fptr + left <= MaxSize
    BY <1>1 DEF Proper, Calling
  <2>2. CSize * (k + 1) = CSize * k + CSize
    BY CountWithin
  <2>3. at = CSize * (k + 1)
    BY <1>3, <2>2
  <2>4. CSize \in Nat /\ MaxSize \in Nat /\ fp.fptr \in Nat
    BY <1>1, LoadedCur
  <2>5. at \in 0 .. MaxSize
    BY <2>1, <2>4
  <2> QED
    BY <2>3, <2>5
<1>5. s \in Seq(Clst) /\ Len(s) \in Nat
  BY <1>2 DEF Shape
<1>6. CASE k + 1 < Len(s)
  <2> DEFINE i == k + 1
             o == fp.o
  <2>1. /\ o.n_frag = 0 /\ Len(s) = Count(o.size) /\ fp.o.size > CSize * (k + 1)
        /\ i \in 1 .. Len(s) /\ k + 2 = i + 1 /\ s[k + 2] \in Clst
    BY <1>6, NextInChain
  <2>2. StretchedTo(at) = fp.o
    BY <1>1, <1>4, <2>1 DEF StretchedTo
  <2>3. /\ fp.clust = s[i] /\ i < Len(s) /\ o \in Objects /\ Plain(vol, o) /\ Shape(vol, o, s)
        /\ k + 2 <= Len(s)
    BY <1>1, <1>2, <1>3, <1>5, <1>6
  <2>6. Whole(o, s)
    BY <2>1, <2>3, WholeBySize
  <2>4. CASE fp.write
    <3>1. r \in CreateChain(vol, o, s[i])
      BY <2>2, <2>3, <2>4 DEF NextTargets
    <3> HIDE DEF i, o
    <3>2. r.v = vol /\ r.o = o /\ r.ret = s[i + 1]
      BY <1>1, <2>1, <2>3, <2>6, <3>1, CreateMiddle
    <3> QED
      BY <2>1, <2>2, <2>3, <3>2 DEF NextTarget, o
  <2>5. CASE ~fp.write
    <3>1. r = Outcome(vol, o, GetFat(vol, o, s[i])) \/ r = Stopped(vol, o)
      BY <2>2, <2>3, <2>5 DEF NextTargets
    <3> HIDE DEF i, o
    <3>2. GetFat(vol, o, s[i]) = s[i + 1]
      BY <1>1, <2>1, <2>3, <2>6, NextOf
    <3>3. r.v = vol /\ r.o = o /\ r.ret = s[i + 1]
      BY <3>1, <3>2, OutcomeFields DEF Stopped
    <3> QED
      BY <2>1, <2>2, <2>3, <3>3 DEF NextTarget, o
  <2> QED
    BY <2>4, <2>5
<1>7. CASE k + 1 = Len(s)
  <2> DEFINE o == StretchedTo(at)
  <2>1. fp.write /\ Len(s) = Count(o.size) /\ fp.clust = LastOf(s)
    BY <1>7, NextAtEnd
  <2>2. /\ o \in Objects /\ o.sclust = fp.o.sclust /\ o.stat = fp.o.stat
        /\ o.n_cont = fp.o.n_cont /\ o.n_frag = fp.o.n_frag
    BY <1>1, <1>4, StretchedToIs
  <2>3. r \in CreateChain(vol, o, LastOf(s))
    BY <2>1 DEF NextTargets
  <2> HIDE DEF o
  <2>4. Plain(vol, o)
    BY <1>1, <2>2 DEF Plain
  <2>5. Shape(vol, o, s)
    BY <1>2, <2>2, ShapeSize
  <2>6. AtEnd(vol, o, s, r)
    <3>1. Len(s) > 0 => Whole(o, s)
      BY <2>1, <2>2, <2>5, WholeBySize
    <3> QED
      BY <1>1, <2>2, <2>3, <2>4, <2>5, <3>1, CreateAtEnd
  <2> QED
    BY <1>7, <2>1, <2>6 DEF AtEnd, NextTarget, o
<1> QED
  BY <1>3, <1>5, <1>6, <1>7

\* The seek after a step to the next cluster of the file
LEMMA PassedNext ==
  ASSUME FatTypeInv, pc = "seek", left > CSize, NEW e, NEW s, Held(vol, e, fp, s, pc, left),
         NEW k \in Nat, Passed(fp, s, left, k), k + 2 <= Len(s),
         NEW g, g.fptr = fp.fptr + CSize, g.clust = s[k + 2], g.o = fp.o, g.write = fp.write
  PROVE  Passed(g, s, left - CSize, k + 1) /\ ~(fp.o.size <= fp.fptr)
<1> DEFINE z == fp.o.size
           l == Len(s)
           p == fp.fptr
           j == k + 1
<1>1. Proper /\ Calling /\ z \in Nat /\ CSize \in Nat /\ CSize > 0 /\ p \in Nat /\ left \in Nat
  <2>1. Proper /\ Calling /\ z \in Nat
    BY OpenFile
  <2>2. CSize \in Nat /\ CSize > 0 /\ MaxSize \in Nat /\ p \in Nat
    BY <2>1, LoadedCur
  <2>3. left \in 0 .. MaxSize
    BY <2>1 DEF Proper
  <2> QED
    BY <2>1, <2>2, <2>3
<1>2. p = CSize * k /\ (~fp.write => p + left <= z)
  BY DEF Passed
<1>3. k + 1 < Len(s) /\ Len(s) \in Nat /\ k + 2 <= Len(s)
  <2>1. s \in Seq(Clst)
    BY DEF Held, Shape
  <2>2. Len(s) \in Nat
    BY <2>1
  <2> QED
    BY <2>2
<1>4. l = Count(z) /\ z > CSize * j
  BY <1>3, NextInChain
<1>5. CSize * j = p + CSize
  <2>1. CSize * (k + 1) = CSize * k + CSize
    BY CountWithin
  <2> QED
    BY <1>2, <2>1
<1>6. g.fptr = p + CSize /\ g.clust = s[k + 2] /\ g.o.size = z /\ g.write = fp.write
  OBVIOUS
<1> HIDE DEF z, p
<1>7. Count(z) \in Nat
  BY <1>1, CountBounds
<1>8. /\ g.fptr = CSize * j /\ j + 1 <= Len(s) /\ g.clust = s[j + 1]
      /\ g.fptr <= z /\ ~(z <= p)
  <2>1. j + 1 = k + 2
    OBVIOUS
  <2>2. p + CSize <= z /\ ~(z <= p)
    BY <1>1, <1>4, <1>5
  <2> QED
    BY <1>3, <1>5, <1>6, <2>1, <2>2
<1>9. Count(z) <= Len(s) /\ ~(Count(z) < Len(s))
  BY <1>4, <1>7
<1>10. ~g.write => g.fptr + (left - CSize) <= z
  BY <1>1, <1>2, <1>6
<1>11. Passed(g, s, left - CSize, j)
  BY <1>6, <1>8, <1>9, <1>10 DEF Passed
<1> QED
  BY <1>8, <1>11 DEF z, p

LEMMA SoundSeekStep ==
  ASSUME FatTypeInv, Sound, faults = 0, SeekStep, faults' = 0
  PROVE  Sound'
<1> DEFINE s == chain[cur]
           e == entry[cur]
           at == fp.fptr + CSize
           o == StretchedTo(at)
           changed == fp.modified \/ (o # fp.o)
           f == [fp EXCEPT !.fptr = at, !.modified = @ \/ (o # fp.o)]
<1>1. pc = "seek" /\ left > CSize /\ UNCHANGED <<entry, cur, loose, opens>>
  BY SeekStepCases
<1>2. Proper /\ Edged /\ Calling /\ cur \in Files /\ cur # NoFile /\ fp \in Fils
      /\ s \in Seq(Clst) /\ entry \in [Files -> Entries \cup {NoEntry}]
      /\ chain \in [Files -> Seq(Clst)] /\ vol \in Volumes
  BY <1>1, FileAssumption DEF FatTypeInv, Proper, Calling
<1>3. Held(vol, e, fp, s, pc, left) /\ Kept(vol, entry, chain, cur) /\ Taken(vol, s)
  BY <1>2, OwnTaken DEF Sound
<1>4. PICK r \in NextTargets(o) : SeekStepCase(r, at, o)
  BY SeekStepCases
<1>5. PICK k \in Nat : Passed(fp, s, left, k)
  BY <1>1, <1>3 DEF Held, Seeking
<1>6. r.ret # DISK /\ vol' = r.v
  <2>1. Takes(r)
    BY <1>4 DEF SeekStepCase
  <2> HIDE DEF at, o
  <2> QED
    BY <1>2, <2>1, TakesFields
<1>7. NextTarget(r, o, s, k)
  <2> HIDE DEF s, e
  <2>1. at = fp.fptr + CSize
    OBVIOUS
  <2>2. r \in NextTargets(StretchedTo(at))
    OBVIOUS
  <2> HIDE DEF at, o
  <2>3. NextTarget(r, StretchedTo(at), s, k)
    BY <1>1, <1>3, <1>5, <1>6, <2>1, <2>2, NextTargetsSound
  <2> QED
    BY <2>3 DEF o
<1>8. at \in 0 .. MaxSize /\ at \in Nat /\ at > fp.fptr /\ fp.fptr \in Nat /\ fp.o.size \in Nat
  <2>1. left \in 0 .. MaxSize /\ fp.fptr + left <= MaxSize
    BY <1>1, <1>2 DEF Proper, Calling
  <2>2. fp.fptr \in Nat /\ fp.o.size \in Nat /\ CSize \in Nat /\ CSize > 0 /\ MaxSize \in Nat
    BY <1>2, LoadedCur
  <2>3. left \in Nat /\ left > CSize
    BY <1>1, <2>1
  <2> QED
    BY <2>1, <2>2, <2>3
<1>9. /\ o \in Objects /\ o.sclust = fp.o.sclust /\ o.stat = fp.o.stat
      /\ o.n_cont = fp.o.n_cont /\ o.n_frag = fp.o.n_frag
      /\ o.size = (IF fp.write /\ at > fp.o.size THEN at ELSE fp.o.size)
      /\ (o = fp.o <=> ~(fp.write /\ at > fp.o.size))
  <2> HIDE DEF at
  <2> QED
    BY <1>2, <1>8, StretchedToIs
<1>10. /\ f \in Fils /\ f.clust = fp.clust /\ f.fptr = at /\ f.err = fp.err /\ f.write = fp.write
       /\ f.modified = changed
  <2>1. changed \in BOOLEAN
    OBVIOUS
  <2>2. f = [fp EXCEPT !.fptr = at, !.modified = changed]
    BY <1>2 DEF Fils
  <2> HIDE DEF changed, f, at
  <2> QED
    BY <1>2, <1>8, <2>1, <2>2 DEF Fils
<1>11. e # NoEntry /\ ~fp.err /\ Shape(vol, fp.o, s)
       /\ (~fp.modified => Stored(vol, e, fp.o) \/ (fp.write /\ fp.o.size <= fp.fptr))
  BY <1>1, <1>3 DEF Held
<1>12. r.v \in Volumes /\ r.o \in Objects /\ r.o.sclust = o.sclust /\ r.o.size = o.size
  <2> HIDE DEF o, at
  <2> QED
    BY <1>2, <1>9, NextTargetsType
<1>13. \A i \in 1 .. Len(s) : s[i] \in Clst
  <2>1. s \in Seq(Clst)
    BY <1>2
  <2> HIDE DEF s
  <2> QED
    BY <2>1, SeqFacts
<1>14. Len(s) \in Nat
  BY <1>2
<1> HIDE DEF s, e, at, o, f, changed
<1>15. CASE k + 2 <= Len(s) /\ r.v = vol /\ r.o = fp.o /\ o = fp.o /\ r.ret = s[k + 2]
  <2>1. k + 2 \in 1 .. Len(s) /\ r.ret \in Clst
    BY <1>13, <1>14, <1>15
  <2>2. fp' = [f EXCEPT !.o = r.o, !.clust = r.ret] /\ left' = left - CSize /\ Given(r.ret)
        /\ UNCHANGED <<pc, res>>
    BY <1>4, <2>1 DEF SeekStepCase, f
  <2>3. /\ fp'.o = fp.o /\ fp'.clust = s[k + 2] /\ fp'.fptr = at /\ fp'.err = fp.err
        /\ fp'.write = fp.write /\ (fp'.modified <=> fp.modified)
    <3>1. f.modified <=> fp.modified
      BY <1>10, <1>15 DEF changed
    <3> QED
      BY <1>10, <1>12, <1>15, <2>1, <2>2, <3>1 DEF Fils
  <2>4. chain' = chain
    <3>1. r.ret \in Range(s)
      <4>1. s \in Seq(Clst)
        BY <1>2 DEF s
      <4>2. \A i \in 1 .. Len(s) : s[i] \in Range(s)
        BY <4>1, RangeIs
      <4> QED
        BY <1>15, <2>1, <4>2
    <3> QED
      BY <1>2, <2>2, <3>1, GivenIs DEF s
  <2>5. Passed(fp', s, left - CSize, k + 1) /\ ~(fp.o.size <= fp.fptr)
    <3> DEFINE g == fp'
    <3>1. g.fptr = fp.fptr + CSize /\ g.clust = s[k + 2] /\ g.o = fp.o /\ g.write = fp.write
      BY <2>3 DEF at
    <3>2. k + 2 <= Len(s)
      BY <1>15
    <3> HIDE DEF g
    <3>3. Passed(g, s, left - CSize, k + 1) /\ ~(fp.o.size <= fp.fptr)
      BY <1>1, <1>3, <1>5, <3>1, <3>2, PassedNext
    <3> QED
      BY <3>3 DEF g
  <2>6. fp.o.n_frag = 0
    <3>1. k + 1 < Len(s)
      BY <1>14, <1>15
    <3> QED
      BY <1>1, <1>3, <1>5, <3>1, NextInChain
  <2>7. Seeking(fp', s, left')
    <3>1. k + 1 \in Nat
      OBVIOUS
    <3> QED
      BY <2>2, <2>5, <3>1 DEF Seeking
  <2>8. Held(vol, e, fp', s, "seek", left')
    BY <1>11, <2>3, <2>5, <2>6, <2>7 DEF Held
  <2>9. Held(vol, entry[cur], fp, chain[cur], pc, left)'
    BY <1>1, <1>6, <1>15, <2>2, <2>4, <2>8 DEF s, e
  <2>10. Kept(vol, entry, chain, cur)' /\ res' # "int"
    BY <1>1, <1>3, <1>6, <1>15, <2>2, <2>4 DEF Sound
  <2> QED
    BY <2>9, <2>10 DEF Sound
<1>16. k + 1 = Len(s) => /\ Count(at) = k + 1 /\ at = CSize * (k + 1) /\ fp.o.size <= at
                         /\ Len(s) = Count(o.size)
  <2> SUFFICES ASSUME k + 1 = Len(s)
               PROVE  /\ Count(at) = k + 1 /\ at = CSize * (k + 1) /\ fp.o.size <= at
                      /\ Len(s) = Count(o.size)
    OBVIOUS
  <2>1. at = fp.fptr + CSize
    BY DEF at
  <2> QED
    BY <1>1, <1>3, <1>5, <2>1, NextAtEnd DEF o
<1>17. CASE fp.write /\ k + 1 = Len(s) /\ r.v = vol /\ r.o = o /\ r.ret = FULL
  <2>1. /\ fp' = [f EXCEPT !.o = r.o] /\ left' = 0 /\ pc' = "idle"
        /\ UNCHANGED <<res, chain>>
    BY <1>4, <1>17 DEF SeekStepCase, f
  <2>2. /\ fp'.o = o /\ fp'.clust = fp.clust /\ fp'.fptr = at /\ fp'.err = fp.err
        /\ fp'.modified = changed
    BY <1>10, <1>17, <2>1 DEF Fils
  <2>3. Shape(vol, o, s) /\ (o.n_frag > 0 => fp.clust = s[Len(s)])
    <3>1. fp.o.n_frag > 0 => fp.clust = s[Len(s)]
      BY <1>3 DEF Held
    <3> QED
      BY <1>9, <1>11, <3>1, ShapeSize
  <2>4. Pointing(fp', s)
    <3> DEFINE g == fp'
               z == fp.o.size
               m == k + 1
    <3>1. Count(at) = m /\ z <= at /\ Len(s) = Count(o.size)
      BY <1>16, <1>17
    <3>2. fp.clust = s[k + 1] /\ Count(z) <= Len(s) /\ (Count(z) < Len(s) => Len(s) = k + 1)
      BY <1>5 DEF Passed
    <3>3. g.o.size = IF at > z THEN at ELSE z
      BY <1>9, <1>17, <2>2
    <3>4. m <= Len(s)
      BY <1>14, <1>17
    <3>5. Reached(g, s, at, z, m)
      BY <2>2, <3>2, <3>3, <3>4 DEF Reached
    <3>6. z \in Nat /\ m \in Nat /\ s \in Seq(Clst)
      BY <1>2, <1>8 DEF s
    <3> HIDE DEF g, z, m
    <3>7. Pointing(g, s)
      BY <1>8, <3>1, <3>5, <3>6, PointingAt
    <3> QED
      BY <3>7 DEF g
  <2>5. ~fp'.modified => Stored(vol, e, fp'.o)
    <3> SUFFICES ASSUME ~fp'.modified PROVE Stored(vol, e, fp'.o)
      OBVIOUS
    <3>1. ~fp.modified /\ o = fp.o
      BY <2>2 DEF changed
    <3>2. ~(fp.o.size <= fp.fptr)
      BY <1>8, <1>9, <1>17, <3>1
    <3> QED
      BY <1>11, <2>2, <3>1, <3>2
  <2>6. Held(vol, e, fp', s, "idle", left')
    BY <1>11, <2>2, <2>3, <2>4, <2>5 DEF Held
  <2>7. Held(vol, entry[cur], fp, chain[cur], pc, left)'
    BY <1>1, <1>6, <1>17, <2>1, <2>6 DEF s, e
  <2>8. Kept(vol, entry, chain, cur)' /\ res' # "int"
    BY <1>1, <1>3, <1>6, <1>17, <2>1 DEF Sound
  <2> QED
    BY <2>7, <2>8 DEF Sound
<1>18. CASE fp.write /\ k + 1 = Len(s) /\ r.ret \in Clst /\ Longer(vol, r.v, r.o, s, r.ret)
  <2> DEFINE c == r.ret
             t == Append(s, c)
  <2>1. fp' = [f EXCEPT !.o = r.o, !.clust = r.ret] /\ left' = left - CSize /\ Given(r.ret)
        /\ UNCHANGED <<pc, res>>
    BY <1>4, <1>18 DEF SeekStepCase, f
  <2>2. /\ fp'.o = r.o /\ fp'.clust = c /\ fp'.fptr = at /\ fp'.err = fp.err
        /\ fp'.write = fp.write /\ fp'.modified = changed
    BY <1>10, <1>12, <1>18, <2>1 DEF Fils
  <2>3. r.o.sclust # 0
    <3> DEFINE p == fp.o
    <3>1. p \in Objects /\ Shape(vol, p, s) /\ Len(s) > 0
      BY <1>2, <1>11, <1>18, LoadedCur
    <3> HIDE DEF p
    <3>2. p.sclust # 0
      BY <3>1, ShapeFields
    <3> QED
      BY <1>9, <1>12, <3>2 DEF p
  <2>4. c \notin Range(s) /\ Rechained(vol, r.v, s, t) /\ Shape(r.v, r.o, t)
    BY <1>18, <2>3 DEF Longer, Named
  <2>5. /\ t \in Seq(Clst) /\ Len(t) = k + 2 /\ t[k + 2] = c /\ k + 2 = (k + 1) + 1
    <3>1. s \in Seq(Clst)
      BY <1>2 DEF s
    <3>2. t \in Seq(Clst) /\ Len(t) = Len(s) + 1 /\ t[Len(s) + 1] = c
      BY <1>18, <3>1, AppendProperties
    <3> QED
      BY <1>18, <3>2
  <2>6. chain' = [chain EXCEPT ![cur] = t]
    BY <1>2, <2>1, <2>4, GivenIs DEF s
  <2> HIDE DEF t, c
  <2>7. chain'[cur] = t
    BY <1>2, <2>6
  <2>8. r.o.size = at /\ Count(at) = k + 1 /\ at = CSize * (k + 1)
    <3>1. o.size = at
      BY <1>8, <1>9, <1>16, <1>18
    <3> QED
      BY <1>12, <1>16, <1>18, <3>1
  <2>9. Passed(fp', t, left', k + 1)
    <3>1. fp'.fptr = CSize * (k + 1) /\ fp'.o.size = at /\ fp'.fptr <= fp'.o.size
      BY <1>8, <2>2, <2>8
    <3>2. fp'.clust = t[(k + 1) + 1] /\ (k + 1) + 1 <= Len(t) /\ Len(t) = (k + 1) + 1
      BY <2>2, <2>5
    <3>3. Count(fp'.o.size) <= Len(t)
      BY <2>5, <2>8, <3>1
    <3> QED
      BY <1>18, <2>2, <3>1, <3>2, <3>3 DEF Passed
  <2>10. Seeking(fp', t, left')
    <3>1. k + 1 \in Nat
      OBVIOUS
    <3> QED
      BY <2>9, <3>1 DEF Seeking
  <2>11. Held(r.v, e, fp', t, "seek", left')
    <3>1. fp'.o.n_frag > 0 => fp'.clust = t[Len(t)]
      BY <2>2, <2>5
    <3>2. fp'.write /\ fp'.o.size <= fp'.fptr
      BY <1>8, <1>18, <2>2, <2>8
    <3>3. Shape(r.v, fp'.o, t) /\ ~fp'.err
      BY <1>11, <2>2, <2>4
    <3> QED
      BY <1>11, <2>10, <3>1, <3>2, <3>3 DEF Held
  <2>12. Kept(r.v, entry, [chain EXCEPT ![cur] = t], cur)
    <3>1. Rechained(vol, r.v, chain[cur], t)
      BY <2>4 DEF s
    <3> QED
      BY <1>2, <1>3, <1>12, <2>5, <3>1, KeptOpen
  <2>13. Kept(vol, entry, chain, cur)' /\ res' # "int"
    BY <1>1, <1>6, <2>1, <2>6, <2>12 DEF Sound
  <2>14. Held(vol, entry[cur], fp, chain[cur], pc, left)'
    BY <1>1, <1>6, <2>1, <2>7, <2>11 DEF e
  <2> QED
    BY <2>13, <2>14 DEF Sound
<1> QED
  BY <1>7, <1>15, <1>17, <1>18 DEF NextTarget

-----------------------------------------------------------------------------
\* f_truncate

\* All of a sequence is itself.
LEMMA WholeIs ==
  ASSUME NEW s \in Seq(Clst)
  PROVE  SubSeq(s, 1, Len(s)) = s /\ SubSeq(s, 1, 0) = <<>>
<1>1. Len(s) \in 0 .. Len(s) /\ 0 \in 0 .. Len(s)
  OBVIOUS
<1>2. /\ SubSeq(s, 1, Len(s)) \in Seq(Clst) /\ Len(SubSeq(s, 1, Len(s))) = Len(s)
      /\ \A i \in 1 .. Len(s) : SubSeq(s, 1, Len(s))[i] = s[i]
  BY <1>1, Prefix
<1>3. SubSeq(s, 1, 0) \in Seq(Clst) /\ Len(SubSeq(s, 1, 0)) = 0
  BY <1>1, Prefix
<1> QED
  BY <1>2, <1>3, SeqEqual

\* How many clusters a truncation leaves, and where the next one is
LEMMA CutAt ==
  ASSUME FatTypeInv, NEW e, NEW s, Held(vol, e, fp, s, "idle", left), fp.fptr < fp.o.size
  PROVE  LET k == Count(fp.fptr)
         IN  /\ s \in Seq(Clst) /\ Shape(vol, fp.o, s) /\ Len(s) = Count(fp.o.size) /\ Len(s) > 0
             /\ k \in 0 .. Len(s) /\ (fp.fptr = 0 <=> k = 0)
             /\ fp.fptr = 0 => fp.o.n_frag = 0
             /\ fp.fptr > 0 => fp.clust = s[k]
             /\ k > 0 /\ k < Len(s) => fp.o.n_frag = 0 /\ GetFat(vol, fp.o, fp.clust) = s[k + 1]
                                       /\ s[k + 1] \in Clst
             /\ k > 0 /\ k = Len(s) => GetFat(vol, fp.o, fp.clust) = EOC
             /\ Len(s) * CSize < fp.fptr + CSize => k = Len(s)
<1> DEFINE o == fp.o
           k == Count(fp.fptr)
<1>0. Proper
  BY DEF FatTypeInv
<1>1. /\ vol \in Volumes /\ o \in Objects /\ Plain(vol, o)
      /\ fp.fptr \in Nat /\ o.size \in Nat /\ o.n_frag \in Nat
  <2>1. vol \in Volumes /\ o \in Objects
    BY <1>0, LoadedCur DEF Proper
  <2>2. Plain(vol, o)
    BY DEF FatTypeInv, Edged
  <2>3. fp.fptr \in Nat /\ o.size \in Nat /\ o.n_frag \in Nat
    BY <1>0, LoadedCur
  <2> QED
    BY <2>1, <2>2, <2>3
<1>2. /\ Shape(vol, o, s) /\ Len(s) = Count(o.size) /\ o.size > fp.fptr
      /\ fp.fptr > 0 => fp.clust = s[k]
      /\ o.n_frag > 0 => fp.clust = s[Len(s)]
  BY DEF Held, Pointing
<1>3. fp.fptr = 0 => o.n_frag = 0
  BY <1>1 DEF FatTypeInv, Edged
<1>4. k \in Nat /\ Count(o.size) \in Nat /\ k <= Count(o.size) /\ Count(o.size) > 0
      /\ (fp.fptr = 0 <=> k = 0)
  <2>1. Count(o.size) > 0 /\ Count(o.size) \in Nat
    <3>1. o.size \in Nat /\ o.size # 0
      BY <1>1
    <3>2. Count(o.size) \in Nat /\ Count(o.size) # 0
      BY <3>1, CountBounds
    <3> QED
      BY <3>2
  <2>2. k \in Nat /\ (fp.fptr = 0 <=> k = 0)
    BY <1>1, CountBounds
  <2>3. k <= Count(o.size)
    BY <1>1, <1>2, CountMonotone
  <2> QED
    BY <2>1, <2>2, <2>3
<1>5. ASSUME Len(s) * CSize < fp.fptr + CSize PROVE k = Len(s)
  <2>1. fp.fptr <= CSize * Count(o.size) /\ CSize * Count(o.size) < fp.fptr + CSize
    <3>1. o.size <= CSize * Count(o.size) /\ CSize * Count(o.size) \in Nat
      BY <1>1, CountBounds
    <3>2. Count(o.size) * CSize < fp.fptr + CSize
      BY <1>2, <1>5
    <3>3. Count(o.size) * CSize = CSize * Count(o.size)
      BY <1>4, FatAssumption, Product
    <3> QED
      BY <1>1, <1>2, <3>1, <3>2, <3>3
  <2>2. Count(fp.fptr) = Count(o.size)
    BY <1>1, <1>4, <2>1, CountIs
  <2> QED
    BY <1>2, <2>2
<1> HIDE DEF o, k
<1>6. /\ s \in Seq(Clst) /\ Len(s) \in Nat /\ Injective(s)
      /\ \A i \in 1 .. Len(s) : s[i] \in Clst /\ s[i] \in Nat
  BY <1>1, <1>2, ShapeFields
<1>7. k \in 0 .. Len(s) /\ Len(s) > 0
  BY <1>2, <1>4, <1>6
<1>10. Whole(o, s)
  BY <1>1, <1>2, WholeBySize
<1>8. ASSUME k > 0, k < Len(s)
      PROVE  o.n_frag = 0 /\ GetFat(vol, o, fp.clust) = s[k + 1] /\ s[k + 1] \in Clst
  <2>1. k \in 1 .. Len(s) /\ Len(s) \in 1 .. Len(s) /\ k + 1 \in 1 .. Len(s) /\ k # Len(s)
    BY <1>6, <1>7, <1>8
  <2>2. fp.clust = s[k]
    BY <1>1, <1>2, <1>4, <1>8
  <2>3. s[k] # s[Len(s)]
    BY <1>6, <2>1 DEF Injective
  <2>4. o.n_frag = 0
    BY <1>1, <1>2, <2>2, <2>3
  <2>5. GetFat(vol, o, s[k]) = IF k < Len(s) THEN s[k + 1] ELSE EOC
    BY <1>1, <1>2, <1>10, <2>1, <2>4, NextOf
  <2> QED
    BY <1>6, <1>8, <2>1, <2>2, <2>4, <2>5
<1>9. ASSUME k > 0, k = Len(s) PROVE GetFat(vol, o, fp.clust) = EOC
  <2>1. Len(s) \in 1 .. Len(s) /\ fp.clust = s[Len(s)]
    BY <1>1, <1>2, <1>4, <1>6, <1>9
  <2>2. CASE o.n_frag = 0
    <3> DEFINE n == Len(s)
    <3>1. n \in 1 .. Len(s)
      BY <2>1
    <3> HIDE DEF n
    <3>2. GetFat(vol, o, s[n]) = IF n < Len(s) THEN s[n + 1] ELSE EOC
      BY <1>1, <1>2, <1>10, <2>2, <3>1, NextOf
    <3> QED
      BY <1>6, <2>1, <3>2 DEF n
  <2>3. CASE o.n_frag > 0
    BY <1>1, <1>2, <1>10, <2>1, <2>3, NextAtEdge
  <2> QED
    BY <1>1, <2>2, <2>3
<1> QED
  BY <1>2, <1>3, <1>4, <1>5, <1>6, <1>7, <1>8, <1>9 DEF o, k

\* The clusters behind the pointer are given back, and those before it stay.
LEMMA CutSound ==
  ASSUME FatTypeInv, NEW e, NEW s, Held(vol, e, fp, s, "idle", left), fp.fptr < fp.o.size,
         Taken(vol, s), NEW r \in TruncateCut, r.ret # DISK
  PROVE  LET t == SubSeq(s, 1, Count(fp.fptr))
         IN  /\ r.ret = OK /\ Rechained(vol, r.v, s, t)
             /\ fp.fptr = 0 => r.o.n_frag = 0 /\ r.o.stat = 0
             /\ fp.fptr > 0 => Shape(r.v, r.o, t)
             /\ fp.o.n_frag > 0 => Count(fp.fptr) = Len(s)
<1> DEFINE o == fp.o
           k == Count(fp.fptr)
           t == SubSeq(s, 1, k)
<1>0. Proper
  BY DEF FatTypeInv
<1>1. vol \in Volumes /\ o \in Objects /\ Plain(vol, o) /\ fp.fptr \in Nat /\ o.n_frag \in Nat
  <2>1. vol \in Volumes /\ o \in Objects
    BY <1>0, LoadedCur DEF Proper
  <2>2. Plain(vol, o)
    BY DEF FatTypeInv, Edged
  <2>3. fp.fptr \in Nat /\ o.n_frag \in Nat
    BY <1>0, LoadedCur
  <2> QED
    BY <2>1, <2>2, <2>3
<1>2. /\ s \in Seq(Clst) /\ Shape(vol, o, s) /\ Len(s) = Count(o.size) /\ Len(s) > 0
      /\ k \in 0 .. Len(s) /\ (fp.fptr = 0 <=> k = 0)
      /\ fp.fptr = 0 => o.n_frag = 0
      /\ fp.fptr > 0 => fp.clust = s[k]
      /\ k > 0 /\ k < Len(s) => o.n_frag = 0 /\ GetFat(vol, o, fp.clust) = s[k + 1]
                                /\ s[k + 1] \in Clst
      /\ k > 0 /\ k = Len(s) => GetFat(vol, o, fp.clust) = EOC
  BY CutAt
<1>7. Whole(o, s)
  BY <1>1, <1>2, WholeBySize
<1>3. OK # DISK /\ EOC # DISK /\ ~(EOC < 2) /\ EOC \notin Clst
      /\ \A c \in Clst : ~(c < 2)
  BY FatAssumption
<1>4. CASE fp.fptr = 0
  <2>1. r \in RemoveChain(vol, o, o.sclust, 0)
    BY <1>4, ZenonT(60) DEF TruncateCut
  <2>2. k = 0 /\ o.n_frag = 0
    BY <1>2, <1>4
  <2>3. t = <<>>
    BY <1>2, <2>2, WholeIs
  <2> HIDE DEF o, t, k
  <2>4. r.ret = OK /\ Rechained(vol, r.v, s, <<>>) /\ r.o.n_frag = 0 /\ r.o.stat = 0
    BY <1>1, <1>2, <1>7, <2>1, <2>2, RemovedWhole
  <2>5. Rechained(vol, r.v, s, t)
    BY <2>3, <2>4
  <2> QED
    BY <1>4, <2>2, <2>4, <2>5 DEF o, t, k
<1>5. CASE fp.fptr > 0 /\ k < Len(s)
  <2>1. k \in 1 .. Len(s) /\ k > 0 /\ fp.fptr # 0
    BY <1>1, <1>2, <1>5
  <2>2. fp.clust = s[k] /\ GetFat(vol, o, fp.clust) = s[k + 1] /\ s[k + 1] \in Clst /\ o.n_frag = 0
    BY <1>2, <1>5, <2>1
  <2>3. r \in RemoveChain(vol, o, s[k + 1], s[k]) \cup {Stopped(vol, o)}
    <3>1. GetFat(vol, fp.o, fp.clust) \in Clst /\ ~(GetFat(vol, fp.o, fp.clust) < 2)
      BY <1>3, <2>2
    <3>2. r \in RemoveChain(vol, fp.o, GetFat(vol, fp.o, fp.clust), fp.clust) \cup {Stopped(vol, fp.o)}
      BY <2>1, <3>1, ZenonT(60) DEF TruncateCut
    <3> QED
      BY <2>2, <3>2
  <2>4. r \in RemoveChain(vol, o, s[k + 1], s[k])
    BY <2>3 DEF Stopped, Outcome
  <2> HIDE DEF o, k
  <2>5. r.ret = OK /\ Rechained(vol, r.v, s, SubSeq(s, 1, k)) /\ Shape(r.v, r.o, SubSeq(s, 1, k))
    BY <1>1, <1>2, <1>5, <1>7, <2>1, <2>2, <2>4, RemovedTail
  <2> QED
    BY <1>1, <2>1, <2>2, <2>5 DEF o, k
<1>6. CASE fp.fptr > 0 /\ k = Len(s)
  <2>1. fp.fptr # 0 /\ GetFat(vol, fp.o, fp.clust) = EOC
    BY <1>1, <1>2, <1>6
  <2>2. GetFat(vol, fp.o, fp.clust) \notin Clst /\ ~(GetFat(vol, fp.o, fp.clust) < 2)
    BY <1>3, <2>1
  <2>3. r \in {Outcome(vol, fp.o, OK), Stopped(vol, fp.o)}
    BY <2>1, <2>2, ZenonT(60) DEF TruncateCut
  <2>4. r.v = vol /\ r.o = o /\ r.ret = OK
    BY <2>3 DEF Stopped, Outcome
  <2>5. t = s
    BY <1>2, <1>6, WholeIs
  <2>6. Patched(vol, vol, s)
    BY DEF Patched, SameBut
  <2>7. Rechained(vol, vol, s, s)
    BY <2>6, PatchedKeeps
  <2> HIDE DEF t
  <2>8. Rechained(vol, r.v, s, t) /\ Shape(r.v, r.o, t)
    BY <1>2, <2>4, <2>5, <2>7
  <2> QED
    BY <1>1, <1>6, <2>1, <2>4, <2>8 DEF t
<1> QED
  BY <1>1, <1>2, <1>4, <1>5, <1>6

LEMMA SoundTruncate ==
  ASSUME FatTypeInv, Sound, faults = 0, Truncate, faults' = 0
  PROVE  Sound'
<1> DEFINE s == chain[cur]
           e == entry[cur]
           k == Count(fp.fptr)
           t == SubSeq(s, 1, k)
<1>1. /\ pc = "idle" /\ cur # NoFile /\ fp.fptr < fp.o.size
      /\ UNCHANGED <<pc, entry, cur, left, opens>>
      /\ chain' = [chain EXCEPT ![cur] =
                     IF Len(@) * CSize < fp.fptr + CSize THEN @
                     ELSE SubSeq(@, 1, (fp.fptr + CSize - 1) \div CSize)]
  BY TruncateCases DEF Valid
<1>2. Proper /\ Edged /\ cur \in Files /\ fp \in Fils /\ s \in Seq(Clst)
      /\ entry \in [Files -> Entries \cup {NoEntry}] /\ chain \in [Files -> Seq(Clst)]
      /\ vol \in Volumes
  BY <1>1 DEF FatTypeInv, Proper
<1>3. PICK r \in TruncateCut : TruncateCase(r)
  BY TruncateCases
<1>4. Held(vol, e, fp, s, "idle", left) /\ Kept(vol, entry, chain, cur)
  BY <1>1 DEF Sound
<1>5. r.ret # DISK /\ vol' = r.v
  <2>1. Takes(r)
    BY <1>3 DEF TruncateCase
  <2> QED
    BY <1>2, <2>1, TakesFields
<1>6. e # NoEntry /\ Taken(vol, s)
  BY <1>2, <1>4, OwnTaken DEF Held
<1>7. /\ r.v \in Volumes /\ r.o \in Objects /\ r.o.n_frag = fp.o.n_frag
      /\ r.o.sclust = fp.o.sclust
  BY <1>2, TruncateCutType
<1>8. chain' = [chain EXCEPT ![cur] = t]
  <2>1. Len(s) * CSize < fp.fptr + CSize => k = Len(s)
    BY <1>1, <1>4, CutAt
  <2>2. SubSeq(s, 1, Len(s)) = s
    BY <1>2, WholeIs
  <2>3. Len(s) * CSize < fp.fptr + CSize => t = s
    BY <2>1, <2>2
  <2> QED
    BY <1>1, <2>3 DEF Count
<1>9. /\ r.ret = OK /\ Rechained(vol, r.v, s, t)
      /\ fp.fptr = 0 => r.o.n_frag = 0 /\ r.o.stat = 0
      /\ fp.fptr > 0 => Shape(r.v, r.o, t)
      /\ fp.o.n_frag > 0 => k = Len(s)
  BY <1>1, <1>4, <1>5, <1>6, CutSound
<1>10. /\ k \in 0 .. Len(s) /\ (fp.fptr = 0 <=> k = 0) /\ (fp.fptr > 0 => fp.clust = s[k])
       /\ fp.fptr = 0 => fp.o.n_frag = 0
  BY <1>1, <1>4, CutAt
<1>11. /\ fp'.o.size = fp.fptr /\ fp'.o.stat = r.o.stat /\ fp'.o.n_cont = r.o.n_cont
       /\ fp'.o.n_frag = r.o.n_frag /\ fp'.o.sclust = IF fp.fptr = 0 THEN 0 ELSE r.o.sclust
       /\ fp'.clust = fp.clust /\ fp'.fptr = fp.fptr /\ fp'.modified = TRUE /\ fp'.err = FALSE
  <2>1. fp' = [fp EXCEPT !.o = [r.o EXCEPT !.size = fp.fptr,
                                        !.sclust = IF fp.fptr = 0 THEN 0 ELSE @],
                      !.modified = TRUE, !.err = r.ret # OK]
    BY <1>3 DEF TruncateCase
  <2> QED
    BY <1>2, <1>7, <1>9, <2>1 DEF Fils, Objects
<1>12. res' = "ok"
  BY <1>3, <1>9, FatAssumption DEF TruncateCase, Result
<1>13. fp.fptr \in Nat /\ fp.o.n_frag \in Nat /\ Len(s) \in Nat
  BY <1>2, LoadedCur
<1>14. t \in Seq(Clst) /\ Len(t) = k /\ \A i \in 1 .. k : t[i] = s[i]
  <2> HIDE DEF k, s
  <2> QED
    BY <1>2, <1>10, Prefix
<1> HIDE DEF t, k
<1>15. Kept(r.v, entry, [chain EXCEPT ![cur] = t], cur)
  BY <1>2, <1>4, <1>7, <1>9, <1>14, KeptOpen DEF s
<1>16. fp' \in Fils
  <2>1. FatTypeInv'
    BY FatTypeTruncate
  <2> QED
    BY <2>1 DEF FatTypeInv, Proper
<1> HIDE DEF s
<1>17. Shape(r.v, fp'.o, t)
  <2>1. CASE fp.fptr = 0
    <3> DEFINE p == fp'.o
    <3>1. p \in Objects /\ p.sclust = 0 /\ p.n_frag = 0 /\ p.stat = 0
      BY <1>9, <1>11, <1>16, <2>1 DEF Fils
    <3> HIDE DEF p
    <3>2. Shape(r.v, p, <<>>)
      BY <3>1, EmptyShape
    <3>3. t = <<>>
      BY <1>2, <1>10, <2>1, WholeIs DEF t
    <3> QED
      BY <3>2, <3>3 DEF p
  <2>2. CASE fp.fptr > 0
    <3>1. Shape(r.v, r.o, t)
      BY <1>9, <2>2
    <3> DEFINE p == fp'.o
    <3>2. /\ p.sclust = r.o.sclust /\ p.stat = r.o.stat
          /\ p.n_cont = r.o.n_cont /\ p.n_frag = r.o.n_frag
      BY <1>11, <1>13, <2>2
    <3> HIDE DEF p
    <3>3. Shape(r.v, p, t)
      BY <3>1, <3>2, ShapeSize
    <3> QED
      BY <3>3 DEF p
  <2> QED
    BY <1>13, <2>1, <2>2
<1>18. Pointing(fp', t)
  <2>1. Len(t) = Count(fp'.o.size)
    BY <1>11, <1>14 DEF k
  <2>2. fp'.fptr <= fp'.o.size
    BY <1>11, <1>13
  <2>3. fp'.fptr > 0 => fp'.clust = t[Count(fp'.fptr)]
    <3>1. fp.fptr > 0 => k \in 1 .. k
      BY <1>10, <1>13
    <3>2. fp.fptr > 0 => fp.clust = t[k]
      BY <1>10, <1>14, <3>1
    <3> QED
      BY <1>11, <3>2 DEF k
  <2> QED
    BY <2>1, <2>2, <2>3 DEF Pointing
<1>19. fp'.o.n_frag > 0 => fp'.clust = t[Len(t)]
  <2>1. ASSUME fp'.o.n_frag > 0 PROVE fp.clust = t[k]
    <3>1. fp.o.n_frag > 0 /\ fp.fptr > 0
      BY <1>7, <1>10, <1>11, <1>13, <2>1
    <3>2. k \in 1 .. k
      BY <1>10, <1>13, <3>1
    <3> QED
      BY <1>10, <1>14, <3>1, <3>2
  <2> QED
    BY <1>11, <1>14, <2>1
<1>20. Held(r.v, e, fp', t, "idle", left')
  BY <1>6, <1>11, <1>17, <1>18, <1>19 DEF Held
<1>21. chain'[cur] = t
  BY <1>2, <1>8
<1>22. Held(vol, entry[cur], fp, chain[cur], pc, left)'
  BY <1>1, <1>5, <1>20, <1>21 DEF e
<1>23. Kept(vol, entry, chain, cur)'
  BY <1>1, <1>5, <1>8, <1>15
<1> QED
  BY <1>12, <1>22, <1>23 DEF Sound

-----------------------------------------------------------------------------
\* f_sync and f_close

\* An entry that says what the object says leads to its clusters.
LEMMA FiledFrom ==
  ASSUME NEW v \in Volumes, NEW o \in Objects, Plain(v, o), NEW s, Shape(v, o, s),
         Len(s) = Count(o.size), NEW e \in Entries, Stored(v, e, o)
  PROVE  e # NoEntry /\ Filed(v, e, s)
<1> DEFINE p == LoadedOn(v, e)
<1>1. /\ o.n_frag = 0 /\ o.stat # 3 /\ e.sclust = o.sclust /\ e.size = o.size
      /\ v.type = "exfat" => e.stat = o.stat
  BY DEF Stored
<1>2. v.type # "exfat" => o.stat = 0
  BY DEF Plain, Volumes
<1>3. p.sclust = e.sclust /\ p.stat = (IF v.type = "exfat" THEN e.stat ELSE 0) /\ p.n_frag = 0
  BY LoadedOnType
<1> HIDE DEF p
<1>4. p.sclust = o.sclust /\ p.stat = o.stat /\ p.n_frag = o.n_frag
  BY <1>1, <1>2, <1>3
<1>5. Shape(v, p, s)
  BY <1>1, <1>4, SameShape
<1>6. Len(s) = Count(e.size)
  BY <1>1
<1>7. e # NoEntry
  <2>1. e.sclust \in {0} \cup Clst
    BY DEF Entries
  <2>2. NoEntry.sclust \notin {0} \cup Clst
    BY FatAssumption DEF NoEntry, Object
  <2> QED
    BY <2>1, <2>2
<1> QED
  BY <1>5, <1>6, <1>7 DEF Filed, p

\* The file is closed: its entry says all that is needed to find it again.
LEMMA KeptClosed ==
  ASSUME NEW v \in Volumes, NEW w \in Volumes, NEW en \in [Files -> Entries \cup {NoEntry}],
         NEW ex, NEW ch \in [Files -> Seq(Clst)], NEW f \in Files, Kept(v, en, ch, f),
         Patched(v, w, ch[f]), SameEntries(en, ex, f), Filed(w, ex[f], ch[f])
  PROVE  Kept(w, ex, ch, NoFile)
<1>1. Taken(v, ch[f])
  BY OwnTaken
<1>2. Rechained(v, w, ch[f], ch[f])
  BY <1>1, PatchedKeeps
<1>3. [ch EXCEPT ![f] = ch[f]] = ch /\ ch[f] \in Seq(Clst)
  OBVIOUS
<1>4. KeptBut(w, ex, [ch EXCEPT ![f] = ch[f]], f, f)
  BY <1>2, <1>3, KeptMoves
<1> QED
  BY <1>3, <1>4 DEF Kept, KeptBut

LEMMA SyncStores ==
  ASSUME FatTypeInv, pc = "idle", cur \in Files, NEW s, Held(vol, entry[cur], fp, s, "idle", left),
         NEW r \in Settled(vol, fp.o, fp.clust), r.ret = OK
  PROVE  LET x == Object(r.o.sclust, r.o.size, r.o.stat)
         IN  /\ r.v \in Volumes /\ r.o \in Objects /\ Patched(vol, r.v, s)
             /\ x \in Entries /\ x # NoEntry /\ Stored(r.v, x, r.o) /\ Filed(r.v, x, s)
             /\ Shape(r.v, r.o, s) /\ r.o.n_frag = 0 /\ r.o.size = fp.o.size
<1> DEFINE o == fp.o
           x == Object(r.o.sclust, r.o.size, r.o.stat)
<1>1. Proper /\ Edged
  BY DEF FatTypeInv
<1>2. vol \in Volumes /\ o \in Objects /\ Plain(vol, o) /\ fp.clust \in 0 .. EOC
  <2>1. vol \in Volumes /\ o \in Objects
    BY <1>1, LoadedCur DEF Proper
  <2>2. Plain(vol, o)
    BY <1>1 DEF Edged
  <2>3. fp.clust \in 0 .. EOC
    BY <1>1, LoadedCur, FatAssumption
  <2> QED
    BY <2>1, <2>2, <2>3
<1>3. Shape(vol, o, s) /\ (o.n_frag > 0 => fp.clust = s[Len(s)])
  BY DEF Held
<1>4. Len(s) = Count(o.size)
  BY DEF Held, Pointing
<1>5. r \in Settled(vol, o, fp.clust)
  OBVIOUS
<1> HIDE DEF o
<1>6. /\ r.v \in Volumes /\ r.v.type = vol.type /\ r.o \in Objects /\ r.o.size = o.size
      /\ Plain(r.v, r.o) /\ r.o.n_frag = 0 /\ r.o.stat \in {0, 2}
  BY <1>2, <1>5, SettledType
<1>7. Shape(r.v, r.o, s) /\ Patched(vol, r.v, s)
  BY <1>2, <1>3, <1>5, SettledSound
<1>8. x \in Entries
  BY <1>6, ObjectType DEF Objects
<1>9. Stored(r.v, x, r.o)
  BY <1>6 DEF Stored, Object
<1> HIDE DEF x
<1>10. x # NoEntry /\ Filed(r.v, x, s)
  <2> DEFINE v == r.v
             p == r.o
  <2>1. v \in Volumes /\ p \in Objects /\ Plain(v, p) /\ Shape(v, p, s) /\ Stored(v, x, p)
    BY <1>6, <1>7, <1>9
  <2>2. Len(s) = Count(p.size)
    BY <1>4, <1>6
  <2> HIDE DEF v, p
  <2>3. x # NoEntry /\ Filed(v, x, s)
    BY <1>8, <2>1, <2>2, FiledFrom
  <2> QED
    BY <2>3 DEF v
<1> QED
  BY <1>6, <1>7, <1>8, <1>9, <1>10 DEF o, x

LEMMA SoundSync ==
  ASSUME FatTypeInv, Sound, faults = 0, NEW close \in BOOLEAN, Sync(close), faults' = 0
  PROVE  Sound'
<1> DEFINE s == chain[cur]
           e == entry[cur]
<1>1. pc = "idle" /\ cur # NoFile /\ UNCHANGED <<pc, left, chain, opens>>
  BY SyncCases
<1>2. Proper /\ Edged /\ cur \in Files /\ fp \in Fils /\ s \in Seq(Clst)
      /\ entry \in [Files -> Entries \cup {NoEntry}] /\ chain \in [Files -> Seq(Clst)]
      /\ vol \in Volumes
  BY <1>1 DEF FatTypeInv, Proper
<1>3. Held(vol, e, fp, s, "idle", left) /\ Kept(vol, entry, chain, cur)
  BY <1>1 DEF Sound
<1>4. CASE /\ ~fp.modified /\ close /\ res' = "ok"
           /\ UNCHANGED <<vol, entry, faults>>
           /\ cur' = NoFile /\ fp' = Closed
  <2>1. e # NoEntry /\ Stored(vol, e, fp.o) /\ Shape(vol, fp.o, s) /\ Len(s) = Count(fp.o.size)
    BY <1>3, <1>4 DEF Held, Pointing
  <2>2. e \in Entries /\ fp.o \in Objects /\ Plain(vol, fp.o)
    <3>1. Plain(vol, fp.o)
      BY <1>2 DEF Edged
    <3> QED
      BY <1>2, <2>1, <3>1, LoadedCur
  <2>3. Filed(vol, e, s)
    <3> DEFINE o == fp.o
    <3>1. Stored(vol, e, o) /\ Shape(vol, o, s) /\ Len(s) = Count(o.size) /\ e \in Entries
          /\ o \in Objects /\ Plain(vol, o)
      BY <2>1, <2>2
    <3> HIDE DEF o
    <3> QED
      BY <1>2, <3>1, FiledFrom
  <2>4. Patched(vol, vol, s) /\ SameEntries(entry, entry, cur)
    BY DEF Patched, SameBut, SameEntries
  <2>5. Kept(vol, entry, chain, NoFile)
    BY <1>2, <1>3, <2>3, <2>4, KeptClosed
  <2>6. Kept(vol, entry, chain, cur)'
    BY <1>1, <1>4, <2>5
  <2> QED
    BY <1>4, <2>6 DEF Sound
<1>5. ASSUME NEW r \in Settled(vol, fp.o, fp.clust),
             SyncCase(close, r, [entry EXCEPT ![cur] = Object(r.o.sclust, r.o.size, r.o.stat)])
      PROVE  Sound'
  <2> DEFINE x == Object(r.o.sclust, r.o.size, r.o.stat)
             stored == [entry EXCEPT ![cur] = x]
  <2>1. r.ret = OK /\ vol' = r.v /\ entry' = stored /\ res' = "ok"
    <3>1. ~Faults(1)
      BY DEF Faults
    <3> QED
      BY <1>5, <3>1 DEF SyncCase
  <2>2. /\ r.v \in Volumes /\ r.o \in Objects /\ Patched(vol, r.v, s)
        /\ x \in Entries /\ x # NoEntry /\ Stored(r.v, x, r.o) /\ Filed(r.v, x, s)
        /\ Shape(r.v, r.o, s) /\ r.o.n_frag = 0 /\ r.o.size = fp.o.size
    BY <1>1, <1>2, <1>3, <2>1, SyncStores
  <2> HIDE DEF x
  <2>3. SameEntries(entry, stored, cur) /\ stored[cur] = x
    BY <1>2 DEF SameEntries
  <2> HIDE DEF stored
  <2>4. CASE close /\ cur' = NoFile /\ fp' = Closed
    <3>1. Kept(r.v, stored, chain, NoFile)
      BY <1>2, <1>3, <2>2, <2>3, KeptClosed
    <3>2. Kept(vol, entry, chain, cur)'
      BY <1>1, <2>1, <2>4, <3>1
    <3> QED
      BY <2>1, <2>4, <3>2 DEF Sound
  <2>5. CASE /\ cur' = cur
             /\ \E kept \in BOOLEAN :
                  /\ kept => res' = "disk"
                  /\ fp' = [fp EXCEPT !.o = r.o, !.modified = kept]
    <3>1. fp' = [fp EXCEPT !.o = r.o, !.modified = FALSE]
      BY <2>1, <2>5
    <3>2. fp'.o = r.o /\ fp'.clust = fp.clust /\ fp'.fptr = fp.fptr /\ fp'.err = fp.err
      BY <1>2, <3>1 DEF Fils
    <3>3. Pointing(fp, s) /\ ~fp.err
      BY <1>3 DEF Held
    <3>4. Pointing(fp', s)
      BY <2>2, <3>2, <3>3 DEF Pointing
    <3>5. r.o.n_frag = 0 /\ ~(r.o.n_frag > 0)
      BY <2>2
    <3>6. Held(r.v, x, fp', s, "idle", left)
      BY <2>2, <3>2, <3>3, <3>4, <3>5 DEF Held
    <3>7. Kept(r.v, entry, chain, cur)
      BY <1>2, <1>3, <2>2, KeptPatched
    <3>8. Kept(r.v, stored, chain, cur)
      BY <2>3, <3>7 DEF Kept, SameEntries
    <3>9. Held(vol, entry[cur], fp, chain[cur], pc, left)'
      BY <1>1, <2>1, <2>3, <2>5, <3>6
    <3>10. Kept(vol, entry, chain, cur)'
      BY <1>1, <2>1, <2>5, <3>8
    <3> QED
      BY <2>1, <3>9, <3>10 DEF Sound
  <2>6. \/ close /\ cur' = NoFile /\ fp' = Closed
        \/ /\ cur' = cur
           /\ \E kept \in BOOLEAN :
                /\ kept => res' = "disk"
                /\ fp' = [fp EXCEPT !.o = r.o, !.modified = kept]
    BY <1>5, ZenonT(60) DEF SyncCase
  <2> QED
    BY <2>4, <2>5, <2>6
<1> QED
  BY <1>4, <1>5, SyncCases

-----------------------------------------------------------------------------
\* f_open and f_unlink

\* What an entry leads to, as f_open and f_unlink load it
LEMMA FiledObject ==
  ASSUME Proper, NEW open, Kept(vol, entry, chain, open), NEW f \in Files, f # open, Exists(f)
  PROVE  LET o == Loaded(entry[f])
             s == chain[f]
         IN  /\ o \in Objects /\ Plain(vol, o) /\ o.n_frag = 0 /\ Shape(vol, o, s)
             /\ s \in Seq(Clst) /\ Len(s) = Count(o.size) /\ Taken(vol, s)
             /\ o.sclust = 0 <=> Len(s) = 0
             /\ Stored(vol, entry[f], o)
<1> DEFINE o == Loaded(entry[f])
           s == chain[f]
<1>1. /\ entry[f] \in Entries /\ o \in Objects /\ Plain(vol, o)
      /\ o.sclust = entry[f].sclust /\ o.size = entry[f].size
      /\ o.stat = IF vol.type = "exfat" THEN entry[f].stat ELSE 0
      /\ o.n_cont = 0 /\ o.n_frag = 0
  BY EntryLoads
<1>2. entry[f] # NoEntry /\ Filed(vol, entry[f], s)
  BY DEF Exists, Kept
<1>3. LoadedOn(vol, entry[f]) = o
  BY DEF LoadedOn, Loaded
<1> HIDE DEF o
<1>4. Shape(vol, o, s) /\ Len(s) = Count(entry[f].size)
  BY <1>2, <1>3 DEF Filed
<1>5. Len(s) = Count(o.size)
  BY <1>1, <1>4
<1>6. Taken(vol, s)
  BY OwnTaken
<1>7. s \in Seq(Clst) /\ (o.sclust = 0 <=> Len(s) = 0)
  <2>1. /\ s \in Seq(Clst) /\ Len(s) \in Nat
        /\ Len(s) > 0 => o.sclust = s[1] /\ o.sclust # 0
        /\ Len(s) = 0 => o.sclust = 0
    BY <1>1, <1>4, ShapeFields
  <2> QED
    BY <2>1
<1>8. Stored(vol, entry[f], o)
  <2>1. o.stat # 3
    BY <1>1 DEF Entries
  <2> QED
    BY <1>1, <2>1 DEF Stored
<1> QED
  BY <1>1, <1>4, <1>5, <1>6, <1>7, <1>8 DEF o

\* A file is emptied: all that it had is given back.
LEMMA Emptied ==
  ASSUME Proper, NEW open, Kept(vol, entry, chain, open), NEW f \in Files, f # open, Exists(f),
         LET o == Loaded(entry[f])
         IN  o.sclust # 0,
         NEW r \in RemoveChain(vol, Loaded(entry[f]), Loaded(entry[f]).sclust, 0), r.ret # DISK
  PROVE  r.ret = OK /\ Rechained(vol, r.v, chain[f], <<>>) /\ r.v \in Volumes
<1> DEFINE o == Loaded(entry[f])
           s == chain[f]
<1>1. /\ o \in Objects /\ Plain(vol, o) /\ o.n_frag = 0 /\ Shape(vol, o, s)
      /\ s \in Seq(Clst) /\ Len(s) = Count(o.size) /\ Taken(vol, s)
      /\ (o.sclust = 0 <=> Len(s) = 0)
  BY FiledObject
<1>2. o.sclust # 0 /\ r \in RemoveChain(vol, o, o.sclust, 0) /\ vol \in Volumes
  BY DEF Proper
<1> HIDE DEF o, s
<1>3. Len(s) > 0
  BY <1>1, <1>2
<1>4. r.ret = OK /\ Rechained(vol, r.v, s, <<>>)
  <2>1. Whole(o, s)
    BY <1>1, WholeBySize
  <2> QED
    BY <1>1, <1>2, <1>3, <2>1, RemovedWhole
<1>5. r.v \in Volumes
  BY <1>1, <1>2, RemoveChainType
<1> QED
  BY <1>4, <1>5 DEF s

\* Nothing is given back by a file that has nothing.
LEMMA EmptyAlready ==
  ASSUME NEW v, NEW s, s = <<>>
  PROVE  Rechained(v, v, s, <<>>)
<1>1. Patched(v, v, s) /\ Taken(v, s)
  BY DEF Patched, SameBut, Taken, Range
<1> QED
  BY <1>1, PatchedKeeps

\* An open file when another one is changed
LEMMA HeldElsewhere ==
  ASSUME NEW v, NEW w, NEW ch \in [Files -> Seq(Clst)], Owned(v, ch), NEW f \in Files,
         NEW t \in Seq(Clst), Rechained(v, w, ch[f], t), NEW g \in Files, g # f,
         NEW e, NEW p \in Fils, NEW at, NEW rest, Held(v, e, p, ch[g], at, rest)
  PROVE  Held(w, e, p, ch[g], at, rest)
<1> DEFINE o == p.o
           s == ch[g]
<1>1. o \in Objects /\ Shape(v, o, ch[g])
  BY DEF Held, Fils
<1> HIDE DEF o
<1>2. Shape(w, o, ch[g])
  BY <1>1, OthersStay
<1>3. w.type = v.type
  BY DEF Rechained
<1>4. Stored(v, e, p.o) => Stored(w, e, p.o)
  BY <1>3 DEF Stored
<1>5. Shape(w, p.o, s)
  BY <1>2 DEF o
<1>6. Held(v, e, p, s, at, rest)
  OBVIOUS
<1> HIDE DEF s
<1>7. Held(w, e, p, s, at, rest)
  BY <1>4, <1>5, <1>6 DEF Held
<1> QED
  BY <1>7 DEF s

\* A file that starts anew
LEMMA HeldNew ==
  ASSUME Proper, NEW v
  PROVE  Held(v, Object(0, 0, 0), NewFil(Object(0, 0, 0), TRUE, TRUE), <<>>, "idle", 0)
<1> DEFINE o == Object(0, 0, 0)
           g == NewFil(o, TRUE, TRUE)
<1>1. o \in Objects
  <2>1. 0 \in {0} \cup Clst /\ 0 \in 0 .. MaxSize /\ 0 \in {0, 2}
    BY FileAssumption
  <2> QED
    BY <2>1, ObjectType
<1>2. o.sclust = 0 /\ o.n_frag = 0 /\ o.stat = 0 /\ o.size = 0
  BY DEF Object
<1>3. o # NoEntry
  <2>1. NoEntry.sclust # 0
    BY FatAssumption DEF NoEntry, Object
  <2> QED
    BY <1>2, <2>1
<1> HIDE DEF o
<1>4. Shape(v, o, <<>>)
  BY <1>1, <1>2, EmptyShape
<1>5. /\ g.o = o /\ g.fptr = 0 /\ g.modified = TRUE /\ g.err = FALSE
  BY DEF NewFil
<1> HIDE DEF g
<1>6. Pointing(g, <<>>)
  <2>1. Count(0) = 0
    BY CountBounds
  <2> QED
    BY <1>2, <1>5, <2>1 DEF Pointing
<1>7. Held(v, o, g, <<>>, "idle", 0)
  BY <1>2, <1>3, <1>4, <1>5, <1>6 DEF Held
<1> QED
  BY <1>7 DEF o, g

LEMMA SoundOpenCreate ==
  ASSUME FatTypeInv, Sound, faults = 0, NEW f \in Files, OpenCreate(f), faults' = 0
  PROVE  Sound'
<1> DEFINE s == chain[f]
           x == Object(0, 0, 0)
           old == OldObject(f)
           opened == [entry EXCEPT ![f] = x]
           new == NewFil(x, TRUE, TRUE)
<1>1. pc = "idle" /\ cur = NoFile /\ UNCHANGED <<pc, left, loose>>
  BY OpenCreateCases
<1>2. Proper /\ entry \in [Files -> Entries \cup {NoEntry}] /\ chain \in [Files -> Seq(Clst)]
      /\ vol \in Volumes /\ f # NoFile /\ left \in 0 .. MaxSize
  BY FileAssumption DEF FatTypeInv, Proper
<1>3. Kept(vol, entry, chain, NoFile)
  BY <1>1 DEF Sound
<1>4. OpenCreateCase(f, old, opened)
  BY OpenCreateCases
<1>5. Exists(f) => old = Loaded(entry[f])
  BY DEF OldObject
<1>6. ~Exists(f) => old.sclust = 0 /\ s = <<>>
  <2>1. ASSUME ~Exists(f) PROVE old.sclust = 0 /\ s = <<>>
    <3>1. Filed(vol, entry[f], s) /\ entry[f] = NoEntry
      BY <1>2, <1>3, <2>1 DEF Kept, Exists
    <3> QED
      BY <2>1, <3>1 DEF OldObject, Object, Filed
  <2> QED
    BY <2>1
<1>7. Exists(f) => s \in Seq(Clst) /\ (old.sclust = 0 <=> Len(s) = 0)
  BY <1>2, <1>3, <1>5, FiledObject
<1>8. SameEntries(entry, opened, f) /\ opened[f] = x
  BY <1>2 DEF SameEntries
<1> HIDE DEF old, opened, new, x, s
<1>9. ASSUME NEW w \in Volumes, Rechained(vol, w, s, <<>>), vol' = w, entry' = opened,
             cur' = f, fp' = new, res' = "ok", chain' = [chain EXCEPT ![f] = <<>>]
      PROVE  Sound'
  <2>1. KeptBut(w, opened, [chain EXCEPT ![f] = <<>>], f, NoFile)
    <3>1. <<>> \in Seq(Clst)
      OBVIOUS
    <3> QED
      BY <1>2, <1>3, <1>8, <1>9, <3>1, KeptMoves DEF s
  <2>2. Kept(w, opened, [chain EXCEPT ![f] = <<>>], f)
    <3>1. \A g \in Files : g # NoFile
      BY FileAssumption
    <3> QED
      BY <2>1, <3>1 DEF Kept, KeptBut
  <2>3. Kept(vol, entry, chain, cur)'
    BY <1>9, <2>2
  <2>4. Held(w, x, new, <<>>, "idle", 0)
    BY <1>2, HeldNew DEF x, new
  <2>5. Held(w, x, new, <<>>, "idle", left)
    BY <2>4 DEF Held
  <2>6. chain'[f] = <<>> /\ entry'[f] = x
    BY <1>2, <1>8, <1>9
  <2>7. Held(vol, entry[cur], fp, chain[cur], pc, left)'
    BY <1>1, <1>9, <2>5, <2>6
  <2> QED
    BY <1>9, <2>3, <2>7 DEF Sound
<1>10. CASE /\ old.sclust = 0
            /\ entry' = opened
            /\ cur' = f /\ fp' = new /\ res' = "ok"
            /\ UNCHANGED <<vol, chain, faults>>
  <2>1. s = <<>>
    <3>1. s \in Seq(Clst) /\ Len(s) = 0 => s = <<>>
      OBVIOUS
    <3> QED
      BY <1>6, <1>7, <1>10, <3>1
  <2>2. Rechained(vol, vol, s, <<>>)
    BY <2>1, EmptyAlready
  <2>3. chain' = [chain EXCEPT ![f] = <<>>]
    <3>1. chain[f] = <<>>
      BY <2>1 DEF s
    <3> QED
      BY <1>2, <1>10, <3>1
  <2>4. vol' = vol
    BY <1>10
  <2> QED
    BY <1>2, <1>9, <1>10, <2>2, <2>3, <2>4
<1>11. CASE /\ old.sclust # 0
            /\ entry' = opened
            /\ \E r \in RemoveChain(vol, old, old.sclust, 0) :
                 /\ vol' = IF vol.type = "exfat" \/ r.ret = OK
                           THEN [r.v EXCEPT !.last = old.sclust - 1] ELSE r.v
                 /\ Faults(Error(r))
                 /\ IF r.ret = OK
                    THEN cur' = f /\ fp' = new /\ res' = "ok"
                    ELSE UNCHANGED <<cur, fp>> /\ res' = Result(r.ret)
            /\ chain' = [chain EXCEPT ![f] = <<>>]
  <2>1. PICK r \in RemoveChain(vol, old, old.sclust, 0) :
                 /\ vol' = IF vol.type = "exfat" \/ r.ret = OK
                           THEN [r.v EXCEPT !.last = old.sclust - 1] ELSE r.v
                 /\ Faults(Error(r))
                 /\ IF r.ret = OK
                    THEN cur' = f /\ fp' = new /\ res' = "ok"
                    ELSE UNCHANGED <<cur, fp>> /\ res' = Result(r.ret)
    BY <1>11
  <2>2. r.ret # DISK
    BY <2>1 DEF Faults, Error
  <2>3. Exists(f)
    BY <1>6, <1>11
  <2>4. r.ret = OK /\ Rechained(vol, r.v, s, <<>>) /\ r.v \in Volumes
    <3>1. old = Loaded(entry[f])
      BY <1>5, <2>3
    <3>2. r \in RemoveChain(vol, Loaded(entry[f]), Loaded(entry[f]).sclust, 0)
          /\ Loaded(entry[f]).sclust # 0
      BY <1>11, <2>1, <3>1
    <3> QED
      BY <1>2, <1>3, <2>2, <2>3, <3>2, Emptied DEF s
  <2> DEFINE w == [r.v EXCEPT !.last = old.sclust - 1]
  <2>5. vol' = w
    BY <2>1, <2>4
  <2>6. w.type = r.v.type /\ w.fat = r.v.fat /\ w.used = r.v.used /\ w.free = r.v.free
    BY <2>4 DEF Volumes
  <2>7. vol' \in Volumes
    <3>1. FatTypeInv'
      BY FatTypeOpenCreate
    <3> QED
      BY <3>1 DEF FatTypeInv, Proper
  <2>8. w \in Volumes
    BY <2>5, <2>7
  <2> HIDE DEF w
  <2>9. Rechained(vol, w, s, <<>>)
    BY <2>4, <2>6, SuggestionAside
  <2> QED
    BY <1>9, <1>11, <2>1, <2>4, <2>5, <2>8, <2>9
<1>12. ~Faults(1)
  BY DEF Faults
<1> QED
  BY <1>4, <1>10, <1>11, <1>12, ZenonT(60) DEF OpenCreateCase, new, x

LEMMA SoundUnlink ==
  ASSUME FatTypeInv, Sound, faults = 0, NEW f \in Files, Unlink(f), faults' = 0
  PROVE  Sound'
<1> DEFINE s == chain[f]
           o == Loaded(entry[f])
           gone == [entry EXCEPT ![f] = NoEntry]
<1>1. pc = "idle" /\ cur # f /\ Exists(f) /\ UNCHANGED <<pc, cur, fp, left, loose, opens>>
  BY DEF Unlink
<1>2. Proper /\ entry \in [Files -> Entries \cup {NoEntry}] /\ chain \in [Files -> Seq(Clst)]
      /\ vol \in Volumes /\ cur \in Files \cup {NoFile} /\ fp \in Fils
  BY DEF FatTypeInv, Proper
<1>3. Kept(vol, entry, chain, cur)
      /\ (cur # NoFile => Held(vol, entry[cur], fp, chain[cur], pc, left))
  BY DEF Sound
<1>4. \/ o.sclust = 0 /\ entry' = gone /\ res' = "ok" /\ UNCHANGED <<vol, chain>>
      \/ /\ o.sclust # 0 /\ entry' = gone /\ chain' = [chain EXCEPT ![f] = <<>>]
         /\ \E r \in RemoveChain(vol, o, o.sclust, 0) : Takes(r) /\ res' = Result(r.ret)
  <2>1. ~Faults(1)
    BY DEF Faults
  <2> QED
    BY <2>1 DEF Unlink
<1>5. SameEntries(entry, gone, f) /\ gone[f] = NoEntry
  BY <1>2 DEF SameEntries
<1>6. s \in Seq(Clst) /\ (o.sclust = 0 <=> Len(s) = 0)
  BY <1>1, <1>2, <1>3, FiledObject
<1> HIDE DEF gone, s
<1>7. ASSUME NEW w \in Volumes, Rechained(vol, w, s, <<>>), vol' = w, entry' = gone,
             res' = "ok", chain' = [chain EXCEPT ![f] = <<>>]
      PROVE  Sound'
  <2>1. <<>> \in Seq(Clst)
    OBVIOUS
  <2>2. KeptBut(w, gone, [chain EXCEPT ![f] = <<>>], f, cur)
    BY <1>2, <1>3, <1>5, <1>7, <2>1, KeptMoves DEF s
  <2>3. Filed(w, gone[f], [chain EXCEPT ![f] = <<>>][f])
    BY <1>2, <1>5 DEF Filed
  <2>4. Kept(w, gone, [chain EXCEPT ![f] = <<>>], cur)
    BY <2>2, <2>3 DEF Kept, KeptBut
  <2>5. Kept(vol, entry, chain, cur)'
    BY <1>1, <1>7, <2>4
  <2>6. ASSUME cur # NoFile PROVE Held(vol, entry[cur], fp, chain[cur], pc, left)'
    <3>1. Owned(vol, chain) /\ cur \in Files
      BY <1>2, <1>3, <2>6 DEF Kept
    <3>2. Held(vol, entry[cur], fp, chain[cur], pc, left)
      BY <1>3, <2>6
    <3>3. Held(w, entry[cur], fp, chain[cur], pc, left)
      BY <1>1, <1>2, <1>7, <2>1, <3>1, <3>2, HeldElsewhere DEF s
    <3>4. entry'[cur] = entry[cur] /\ chain'[cur] = chain[cur]
      BY <1>1, <1>2, <1>5, <1>7, <3>1 DEF SameEntries
    <3> QED
      BY <1>1, <1>7, <3>3, <3>4
  <2> QED
    BY <1>1, <1>7, <2>5, <2>6 DEF Sound
<1>8. CASE o.sclust = 0 /\ entry' = gone /\ res' = "ok" /\ UNCHANGED <<vol, chain>>
  <2>1. s = <<>>
    BY <1>6, <1>8
  <2>2. Rechained(vol, vol, s, <<>>)
    BY <2>1, EmptyAlready
  <2>3. chain' = [chain EXCEPT ![f] = <<>>]
    <3>1. chain[f] = <<>>
      BY <2>1 DEF s
    <3> QED
      BY <1>2, <1>8, <3>1
  <2>4. vol' = vol
    BY <1>8
  <2> QED
    BY <1>2, <1>7, <1>8, <2>2, <2>3, <2>4
<1>9. CASE /\ o.sclust # 0 /\ entry' = gone /\ chain' = [chain EXCEPT ![f] = <<>>]
           /\ \E r \in RemoveChain(vol, o, o.sclust, 0) : Takes(r) /\ res' = Result(r.ret)
  <2>1. PICK r \in RemoveChain(vol, o, o.sclust, 0) : Takes(r) /\ res' = Result(r.ret)
    BY <1>9
  <2>2. r.ret # DISK /\ vol' = r.v
    BY <1>2, <2>1, TakesFields
  <2>3. r.ret = OK /\ Rechained(vol, r.v, s, <<>>) /\ r.v \in Volumes
    BY <1>1, <1>2, <1>3, <1>9, <2>1, <2>2, Emptied DEF s
  <2>4. res' = "ok"
    BY <2>1, <2>3, FatAssumption DEF Result
  <2> QED
    BY <1>7, <1>9, <2>2, <2>3, <2>4
<1> QED
  BY <1>4, <1>8, <1>9

\* FA_OPEN_APPEND finds the last cluster.
LEMMA AppendAtLast ==
  ASSUME Proper, NEW o \in Objects, Plain(vol, o), NEW s, Shape(vol, o, s), o.n_frag = 0,
         Len(s) = Count(o.size), o.size > 0
  PROVE  AppendAt(o) = s[Count(o.size)] /\ AppendAt(o) \in Clst
<1>1. vol \in Volumes /\ o.size \in Nat
  BY FileAssumption DEF Proper, Objects
<1>2. ChainOf(vol, o) = s
  <2>1. Whole(o, s)
    BY WholeBySize
  <2> QED
    BY <1>1, <2>1, FoundAs
<1>3. /\ s \in Seq(Clst) /\ Len(s) \in Nat /\ \A i \in 1 .. Len(s) : s[i] \in Clst /\ s[i] \in Nat
  BY ShapeFields
<1> DEFINE n == o.size
           k == Count(n)
<1>4. n \in Nat /\ n > 0
  BY <1>1
<1>5. Len(s) = k
  OBVIOUS
<1> HIDE DEF n
<1>6. (n - 1) \div CSize = k - 1
  BY <1>4, CountBefore
<1>7. k \in Nat /\ k # 0
  <2>1. n \in Nat /\ n # 0
    BY <1>4
  <2>2. Count(n) \in Nat /\ ((n = 0) <=> (Count(n) = 0))
    BY <2>1, CountBounds
  <2> QED
    BY <2>1, <2>2
<1> HIDE DEF k
<1>8. k - 1 < Len(s) /\ (k - 1) + 1 = k /\ k \in 1 .. Len(s)
  BY <1>5, <1>7
<1>9. AppendAt(o) = s[k]
  BY <1>2, <1>6, <1>8 DEF AppendAt, n
<1> QED
  BY <1>3, <1>8, <1>9 DEF k, n

LEMMA SoundOpenExisting ==
  ASSUME FatTypeInv, Sound, faults = 0, NEW f \in Files, NEW append \in BOOLEAN,
         OpenExisting(f, append), faults' = 0
  PROVE  Sound'
<1> DEFINE o == Loaded(entry[f])
           s == chain[f]
           e == entry[f]
<1>1. pc = "idle" /\ cur = NoFile /\ Exists(f) /\ UNCHANGED <<pc, vol, entry, left, chain, loose>>
  BY OpenExistingCases
<1>2. Proper /\ f # NoFile
  BY FileAssumption DEF FatTypeInv, Proper
<1>3. Kept(vol, entry, chain, NoFile)
  BY <1>1 DEF Sound
<1>4. OpenExistingCase(f, append, o)
  BY OpenExistingCases
<1>5. /\ o \in Objects /\ Plain(vol, o) /\ o.n_frag = 0 /\ Shape(vol, o, s)
      /\ s \in Seq(Clst) /\ Len(s) = Count(o.size) /\ Stored(vol, e, o)
  BY <1>1, <1>2, <1>3, FiledObject
<1>6. e # NoEntry
  BY <1>1 DEF Exists
<1> HIDE DEF o, s, e
<1>7. o.size \in Nat /\ ~(o.n_frag > 0)
  BY <1>5, FileAssumption DEF Objects
<1>8. ASSUME NEW g, g.o = o, ~g.err, g.fptr \in {0, o.size},
             g.fptr > 0 => g.clust = s[Count(o.size)],
             cur' = f, fp' = g, res' = "ok"
      PROVE  Sound'
  <2>1. Pointing(g, s)
    BY <1>5, <1>7, <1>8 DEF Pointing
  <2>2. Held(vol, e, g, s, "idle", left)
    BY <1>5, <1>6, <1>7, <1>8, <2>1 DEF Held
  <2>3. Held(vol, entry[cur], fp, chain[cur], pc, left)'
    BY <1>1, <1>8, <2>2 DEF e, s
  <2>4. Kept(vol, entry, chain, f)
    BY <1>3, FileAssumption DEF Kept
  <2>5. Kept(vol, entry, chain, cur)'
    BY <1>1, <1>8, <2>4
  <2> QED
    BY <1>8, <2>3, <2>5 DEF Sound
<1>9. CASE /\ append /\ o.size > 0
           /\ IF AppendAt(o) >= 2
              THEN /\ cur' = f /\ res' = "ok"
                   /\ fp' = [NewFil(o, TRUE, FALSE) EXCEPT !.clust = AppendAt(o), !.fptr = o.size]
              ELSE res' = "int" /\ UNCHANGED <<cur, fp>>
  <2>1. AppendAt(o) = s[Count(o.size)] /\ AppendAt(o) \in Clst
    BY <1>2, <1>5, <1>9, AppendAtLast
  <2> DEFINE g == [NewFil(o, TRUE, FALSE) EXCEPT !.clust = AppendAt(o), !.fptr = o.size]
  <2>2. cur' = f /\ res' = "ok" /\ fp' = g
    <3>1. AppendAt(o) >= 2
      BY <2>1, FatAssumption
    <3> QED
      BY <1>9, <3>1
  <2>3. g.o = o /\ g.err = FALSE /\ g.fptr = o.size /\ g.clust = AppendAt(o)
    BY DEF NewFil
  <2> HIDE DEF g
  <2> QED
    BY <1>8, <2>1, <2>2, <2>3
<1>10. CASE /\ cur' = f /\ res' = "ok"
            /\ \E write \in BOOLEAN : (append => write) /\ fp' = NewFil(o, write, FALSE)
  <2>1. PICK write \in BOOLEAN : fp' = NewFil(o, write, FALSE)
    BY <1>10
  <2> DEFINE g == NewFil(o, write, FALSE)
  <2>2. g.o = o /\ g.err = FALSE /\ g.fptr = 0
    BY DEF NewFil
  <2>3. fp' = g
    BY <2>1
  <2> HIDE DEF g
  <2>4. ~g.err /\ g.fptr \in {0, o.size} /\ ~(g.fptr > 0)
    BY <2>2
  <2> QED
    BY <1>8, <1>10, <2>2, <2>3, <2>4
<1>11. ~Faults(1)
  BY DEF Faults
<1> QED
  BY <1>4, <1>9, <1>10, <1>11 DEF OpenExistingCase

-----------------------------------------------------------------------------
\* What follows for the chains of the files

LEMMA FaultsOnlyGrow ==
  ASSUME Proper, Next
  PROVE  faults' = faults \/ faults' = faults + 1
<1>1. faults \in Nat
  BY FileAssumption DEF Proper
<1>2. ASSUME NEW n \in {0, 1}, Faults(n) PROVE faults' = faults \/ faults' = faults + 1
  BY <1>1, <1>2 DEF Faults
<1>3. ASSUME NEW r, Faults(Error(r)) PROVE faults' = faults \/ faults' = faults + 1
  <2>1. Error(r) \in {0, 1}
    BY DEF Error
  <2> QED
    BY <1>2, <1>3, <2>1
<1>4. ASSUME NEW r, Takes(r) PROVE faults' = faults \/ faults' = faults + 1
  BY <1>3, <1>4 DEF Takes
<1>5. ASSUME NEW f \in Files, OpenCreate(f) PROVE faults' = faults \/ faults' = faults + 1
  BY <1>2, <1>3, <1>5, OpenCreateCases, ZenonT(60) DEF OpenCreateCase
<1>6. ASSUME NEW f \in Files, Unlink(f) PROVE faults' = faults \/ faults' = faults + 1
  BY <1>2, <1>4, <1>6, ZenonT(60) DEF Unlink
<1>7. ASSUME NEW f \in Files, NEW append \in BOOLEAN, OpenExisting(f, append)
      PROVE  faults' = faults \/ faults' = faults + 1
  BY <1>2, <1>7, OpenExistingCases, ZenonT(60) DEF OpenExistingCase
<1>8. ASSUME NEW kind \in {"read", "write"}, Transfer(kind)
      PROVE  faults' = faults \/ faults' = faults + 1
  BY <1>8 DEF Transfer
<1>9. CASE ReadStep
  BY <1>2, <1>9, ZenonT(60) DEF ReadStep
<1>10. CASE WriteStep
  BY <1>2, <1>4, <1>10, ZenonT(60) DEF WriteStep
<1>11. CASE Seek
  <2>1. PICK asked \in Offsets, r \in FlushedEdge : SeekCase(asked, r)
    BY <1>11, SeekCases
  <2> QED
    BY <1>4, <2>1, ZenonT(60) DEF SeekCase
<1>12. CASE SeekStep
  BY <1>4, <1>12, SeekStepCases, ZenonT(60) DEF SeekStepCase
<1>13. CASE SeekEnd
  BY <1>13 DEF SeekEnd
<1>14. CASE Truncate
  BY <1>4, <1>14, TruncateCases, ZenonT(60) DEF TruncateCase
<1>15. ASSUME NEW close \in BOOLEAN, Sync(close) PROVE faults' = faults \/ faults' = faults + 1
  BY <1>2, <1>15, SyncCases, ZenonT(60) DEF SyncCase
<1>16. CASE GetFree
  BY <1>16 DEF GetFree, Faults
<1> QED
  BY <1>5, <1>6, <1>7, <1>8, <1>9, <1>10, <1>11, <1>12, <1>13, <1>14, <1>15, <1>16 DEF Next

LEMMA SoundNext == FatTypeInv /\ FatSound /\ [Next]_vars => FatSound'
<1> SUFFICES ASSUME FatTypeInv, FatSound, [Next]_vars, faults' = 0 PROVE Sound'
  BY DEF FatSound
<1>1. CASE UNCHANGED vars
  BY <1>1 DEF vars, FatSound, Sound
<1>2. CASE Next
  <2>1. faults = 0
    <3>1. Proper /\ faults \in Nat
      BY FileAssumption DEF FatTypeInv, Proper
    <3> QED
      BY <1>2, <3>1, FaultsOnlyGrow
  <2>2. Sound
    BY <2>1 DEF FatSound
  <2> QED
    BY <1>2, <2>1, <2>2, SoundOpenCreate, SoundUnlink, SoundOpenExisting, SoundTransfer,
       SoundReadStep, SoundWriteStep, SoundSeek, SoundSeekStep, SoundSeekEnd,
       SoundTruncate, SoundSync, SoundGetFree DEF Next
<1> QED
  BY <1>1, <1>2

\* The open file is found by what f_sync would leave of it.
LEMMA OpenFound ==
  ASSUME FatTypeInv, Sound, pc = "idle", cur \in Files
  PROVE  ChainOf(SettledNow.v, SettledNow.o) = chain[cur]
<1> DEFINE o == fp.o
           s == chain[cur]
           r == SettledNow
<1>1. Proper /\ Edged
  BY DEF FatTypeInv
<1>2. vol \in Volumes /\ o \in Objects /\ Plain(vol, o) /\ fp.clust \in 0 .. EOC
  <2>1. vol \in Volumes /\ o \in Objects
    BY <1>1, LoadedCur DEF Proper
  <2>2. Plain(vol, o)
    BY <1>1 DEF Edged
  <2>3. fp.clust \in 0 .. EOC
    BY <1>1, LoadedCur, FatAssumption
  <2> QED
    BY <2>1, <2>2, <2>3
<1>3. Held(vol, entry[cur], fp, s, "idle", left)
  BY FileAssumption DEF Sound
<1> HIDE DEF s
<1>4. Shape(vol, o, s) /\ (o.n_frag > 0 => fp.clust = s[Len(s)]) /\ Len(s) = Count(o.size)
  BY <1>3 DEF Held, Pointing
<1>5. r \in Settled(vol, o, fp.clust) /\ r.ret = OK
  <2>1. \E x \in Settled(vol, o, fp.clust) : x.ret = OK
    BY <1>2, SettledExists
  <2> QED
    BY <2>1 DEF SettledNow
<1> HIDE DEF o, r
<1>6. r.v \in Volumes /\ r.o \in Objects /\ Plain(r.v, r.o) /\ r.o.size = o.size
  BY <1>2, <1>5, SettledType
<1>7. Shape(r.v, r.o, s) /\ r.o.n_frag = 0
  BY <1>2, <1>4, <1>5, SettledSound
<1> DEFINE v == r.v
           p == r.o
<1>8. v \in Volumes /\ p \in Objects /\ Plain(v, p) /\ Shape(v, p, s) /\ p.n_frag = 0
  BY <1>6, <1>7
<1>9. Len(s) = Count(p.size)
  BY <1>4, <1>6
<1> HIDE DEF v, p
<1>10. ChainOf(v, p) = s
  <2>1. Whole(p, s)
    BY <1>8, <1>9, WholeBySize
  <2> QED
    BY <1>8, <2>1, FoundAs
<1> QED
  BY <1>10 DEF v, p, r, s

\* A file that is not open is found by its entry.
LEMMA EntryFound ==
  ASSUME Proper, NEW open, Kept(vol, entry, chain, open), NEW f \in Files, f # open
  PROVE  IF Exists(f) THEN ChainOf(vol, Loaded(entry[f])) = chain[f] ELSE chain[f] = <<>>
<1>1. CASE Exists(f)
  <2> DEFINE o == Loaded(entry[f])
             s == chain[f]
  <2>1. /\ o \in Objects /\ Plain(vol, o) /\ o.n_frag = 0 /\ Shape(vol, o, s)
        /\ Len(s) = Count(o.size)
    BY <1>1, FiledObject
  <2>2. vol \in Volumes
    BY DEF Proper
  <2> HIDE DEF o, s
  <2>3. ChainOf(vol, o) = s
    <3>1. Whole(o, s)
      BY <2>1, WholeBySize
    <3> QED
      BY <2>1, <2>2, <3>1, FoundAs
  <2> QED
    BY <1>1, <2>3 DEF o, s
<1>2. CASE ~Exists(f)
  BY <1>2 DEF Kept, Filed, Exists
<1> QED
  BY <1>1, <1>2

\* fp->clust is the cluster of the byte before the file pointer.
LEMMA PointerFound ==
  ASSUME FatTypeInv, Sound, pc = "idle", cur \in Files, fp.fptr > 0
  PROVE  LET i == (fp.fptr - 1) \div CSize + 1
         IN  i \in DOMAIN chain[cur] /\ fp.clust = chain[cur][i]
<1> DEFINE s == chain[cur]
           n == fp.fptr
           k == Count(n)
           m == fp.o.size
<1>1. Proper
  BY DEF FatTypeInv
<1>2. n \in Nat /\ m \in Nat /\ s \in Seq(Clst)
  <2>1. n \in Nat /\ m \in Nat
    BY <1>1, LoadedCur
  <2> QED
    BY <1>1, <2>1 DEF Proper
<1>3. Pointing(fp, s)
  BY FileAssumption DEF Sound, Held
<1>4. Len(s) = Count(m) /\ n <= m /\ n > 0 /\ fp.clust = s[k]
  BY <1>3 DEF Pointing
<1> HIDE DEF n, m, s
<1>5. k <= Count(m)
  BY <1>2, <1>4, CountMonotone
<1>6. k \in Nat /\ k # 0
  <2>1. n # 0
    BY <1>2, <1>4
  <2>2. Count(n) \in Nat /\ ((n = 0) <=> (Count(n) = 0))
    BY <1>2, CountBounds
  <2> QED
    BY <2>1, <2>2
<1>7. (n - 1) \div CSize = k - 1
  <2>1. n > 0
    BY <1>4
  <2> QED
    BY <1>2, <2>1, CountBefore
<1> HIDE DEF k
<1>8. (n - 1) \div CSize + 1 = k
  BY <1>6, <1>7
<1>9. k \in DOMAIN s
  BY <1>2, <1>4, <1>5, <1>6
<1> QED
  BY <1>4, <1>8, <1>9 DEF n, s

LEMMA SoundIsFound == FatTypeInv /\ FatSound => ChainIsFound
<1> SUFFICES ASSUME FatTypeInv, FatSound, pc = "idle", faults = 0
             PROVE  /\ \A f \in Files : FoundChain(f) = chain[f]
                    /\ cur # NoFile /\ fp.fptr > 0 =>
                         LET i == (fp.fptr - 1) \div CSize + 1
                         IN  i \in DOMAIN chain[cur] /\ fp.clust = chain[cur][i]
  BY DEF ChainIsFound
<1>1. Sound /\ Proper
  BY DEF FatSound, FatTypeInv
<1>2. Kept(vol, entry, chain, cur)
  BY <1>1 DEF Sound
<1>3. ASSUME NEW f \in Files PROVE FoundChain(f) = chain[f]
  <2>1. CASE f = cur
    BY <1>1, <2>1, OpenFound DEF FoundChain
  <2>2. CASE f # cur
    BY <1>1, <1>2, <2>2, EntryFound DEF FoundChain
  <2> QED
    BY <2>1, <2>2
<1>4. cur # NoFile => cur \in Files
  BY <1>1 DEF Proper
<1> QED
  BY <1>1, <1>3, <1>4, PointerFound

LEMMA SoundIsUnshared == FatTypeInv /\ FatSound => NothingLostOrShared
<1> SUFFICES ASSUME FatTypeInv, FatSound, faults = 0
             PROVE  /\ UNION {Range(chain[f]) : f \in Files} = InUse
                    /\ \A f, g \in Files : f # g => Range(chain[f]) \cap Range(chain[g]) = {}
                    /\ vol.free # UNKNOWN => vol.free = CountFree(vol)
  BY DEF NothingLostOrShared
<1>1. Owned(vol, chain) /\ chain \in [Files -> Seq(Clst)]
  BY DEF FatSound, Sound, Kept, FatTypeInv, Proper
<1>2. \A f \in Files : Range(chain[f]) \subseteq Clst
  BY <1>1, RangeIs
<1>3. /\ \A c \in Clst : ~IsFree(vol, c) <=> \E f \in Files : c \in Range(chain[f])
      /\ \A f, g \in Files, c \in Clst : c \in Range(chain[f]) /\ c \in Range(chain[g]) => f = g
      /\ vol.free # UNKNOWN => vol.free = CountFree(vol)
  BY <1>1 DEF Owned, FreeKnown
<1>4. ASSUME NEW c PROVE c \in UNION {Range(chain[f]) : f \in Files} <=> c \in InUse
  <2>1. c \in UNION {Range(chain[f]) : f \in Files} <=> \E f \in Files : c \in Range(chain[f])
    OBVIOUS
  <2>2. c \in InUse <=> c \in Clst /\ ~IsFree(vol, c)
    BY DEF InUse
  <2> QED
    BY <1>2, <1>3, <2>1, <2>2
<1>5. UNION {Range(chain[f]) : f \in Files} = InUse
  BY <1>4
<1>6. ASSUME NEW f \in Files, NEW g \in Files, f # g
      PROVE  Range(chain[f]) \cap Range(chain[g]) = {}
  BY <1>2, <1>3, <1>6
<1> QED
  BY <1>3, <1>5, <1>6

\* Spec => [](FatTypeInv /\ FatSound), of which the theorems are parts
LEMMA FatInvariant ==
  /\ Init => FatTypeInv /\ FatSound
  /\ FatTypeInv /\ FatSound /\ [Next]_vars => (FatTypeInv /\ FatSound)'
<1>1. Init => FatTypeInv /\ FatSound
  BY FatTypeInit, SoundInit
<1>2. ASSUME FatTypeInv, FatSound, [Next]_vars PROVE (FatTypeInv /\ FatSound)'
  BY <1>2, FatTypeNext, SoundNext
<1> QED
  BY <1>1, <1>2

\* FatFile.ChainIsFound: as long as no disk error occurs, following a file leads
\* through the clusters it was given, in their order, and fp->clust is that of the
\* byte before the file pointer, however f_write and f_lseek grew it, f_truncate cut
\* it and f_open with FA_OPEN_APPEND went on with it, on FAT32 and on exFAT, with the
\* links that get_fat makes up before fill_first_frag and fill_last_frag write them.
THEOREM ChainFollowed == Spec => []ChainIsFound
<1> DEFINE Inv == FatTypeInv /\ FatSound
<1>1. (Init => Inv) /\ (Inv /\ [Next]_vars => Inv')
  BY FatInvariant
<1>2. Inv => ChainIsFound
  BY SoundIsFound
<1> HIDE DEF Inv
<1> QED
  BY <1>1, <1>2, PTL DEF Spec

\* FatFile.NothingLostOrShared: as long as no disk error occurs, create_chain gives
\* out free clusters, remove_chain gives back all of a chain and no more, and
\* fs->free_clst, once f_getfree has counted, stays the number of the free clusters.
THEOREM ClustersOwned == Spec => []NothingLostOrShared
<1> DEFINE Inv == FatTypeInv /\ FatSound
<1>1. (Init => Inv) /\ (Inv /\ [Next]_vars => Inv')
  BY FatInvariant
<1>2. Inv => NothingLostOrShared
  BY SoundIsUnshared
<1> HIDE DEF Inv
<1> QED
  BY <1>1, <1>2, PTL DEF Spec

\* FatFile.ChecksHold: as long as no disk error occurs, no call runs into an
\* internal check of chain handling, and ends in FR_INT_ERR.
THEOREM NoInternalError == Spec => []ChecksHold
<1> DEFINE Inv == FatTypeInv /\ FatSound
<1>1. (Init => Inv) /\ (Inv /\ [Next]_vars => Inv')
  BY FatInvariant
<1>2. Inv => ChecksHold
  BY DEF FatSound, Sound, ChecksHold
<1> HIDE DEF Inv
<1> QED
  BY <1>1, <1>2, PTL DEF Spec
=============================================================================

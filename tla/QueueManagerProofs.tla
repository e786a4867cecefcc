------------------------- MODULE QueueManagerProofs -------------------------
(***************************************************************************)
(* Theorems about QueueManager, for any files, requests, settings and      *)
(* crashes.                                                                *)
(***************************************************************************)
EXTENDS QueueManager, WellFoundedInduction, TLAPS

\* A set of natural numbers has a least element.
LEMMA LeastNatural ==
    ASSUME NEW T, T \subseteq Nat, T # {}
    PROVE  \E y \in T : \A z \in T : y <= z
  <1> DEFINE R == {p \in Nat \X Nat : p[1] < p[2]}
  <1>1. IsWellFoundedOn(R, Nat)
    BY NatLessThanWellFounded DEF OpToRel
  <1>2. PICK y \in T : \A z \in T : <<z, y>> \notin R
    <2> HIDE DEF R
    <2> QED
      BY <1>1, WFMin
  <1>3. ASSUME NEW z \in T
        PROVE  y <= z
    <2>1. z \in Nat /\ y \in Nat /\ <<z, y>> \notin R
      BY <1>2
    <2> QED
      BY <2>1
  <1> QED
    BY <1>3

\* Keep's recursion is defined: it walks through the sequence and takes what is in D.
LEMMA KeepSteps ==
    ASSUME NEW S, NEW s \in Seq(S), NEW D
    PROVE  \E K : /\ Keep(s, D) = K[Len(s)] /\ K[0] = <<>>
                  /\ \A n \in 1 .. Len(s) :
                        K[n] = IF n \in D THEN Append(K[n-1], s[n]) ELSE K[n-1]
  <1> DEFINE F(g, n) == IF n = 0 THEN <<>>
                        ELSE IF n \in D THEN Append(g[n-1], s[n]) ELSE g[n-1]
             Exists(m) == \E g : g = [n \in 0 .. m |-> F(g, n)]
             K == CHOOSE g : g = [n \in 0 .. Len(s) |-> F(g, n)]
  <1>1. ASSUME NEW m \in Nat, Exists(m)
        PROVE  Exists(m + 1)
    <2> PICK g : g = [n \in 0 .. m |-> F(g, n)]
      BY <1>1
    <2> DEFINE h == [n \in 0 .. m + 1 |-> IF n = m + 1 THEN F(g, n) ELSE g[n]]
    <2>1. ASSUME NEW n \in 0 .. m + 1
          PROVE  h[n] = F(h, n)
      <3>1. n # 0 => n - 1 \in 0 .. m /\ h[n-1] = g[n-1]
        OBVIOUS
      <3>2. h[n] = F(g, n)
        <4>1. CASE n = m + 1
          BY <4>1
        <4>2. CASE n # m + 1
          <5>1. n \in 0 .. m
            BY <4>2
          <5>2. g[n] = F(g, n)
            <6> HIDE DEF F
            <6> QED
              BY <5>1
          <5> QED
            BY <4>2, <5>2
        <4> QED
          BY <4>1, <4>2
      <3> QED
        BY <3>1, <3>2
    <2>2. h = [n \in 0 .. m + 1 |-> h[n]]
      OBVIOUS
    <2>3. h = [n \in 0 .. m + 1 |-> F(h, n)]
      <3> HIDE DEF h, F
      <3> QED
        BY <2>1, <2>2
    <2> QED
      <3> HIDE DEF h, F
      <3> QED
        BY <2>3
  <1>2. Exists(0)
    <2> DEFINE h == [n \in 0 .. 0 |-> <<>>]
    <2>1. \A n \in 0 .. 0 : F(h, n) = <<>>
      OBVIOUS
    <2>2. h = [n \in 0 .. 0 |-> F(h, n)]
      BY <2>1
    <2> QED
      <3> HIDE DEF h, F
      <3> QED
        BY <2>2
  <1>3. \A m \in Nat : Exists(m)
    <2> HIDE DEF Exists
    <2> SUFFICES ASSUME {m \in Nat : ~Exists(m)} # {}
                 PROVE  FALSE
      OBVIOUS
    <2> PICK y \in {m \in Nat : ~Exists(m)} : \A z \in {m \in Nat : ~Exists(m)} : y <= z
      BY LeastNatural
    <2>0. y # 0
      BY <1>2
    <2>1. y - 1 \in Nat
      BY <2>0
    <2>2. Exists(y - 1)
      BY <2>1
    <2> QED
      BY <1>1, <2>1, <2>2, (y - 1) + 1 = y
  <1>4. Len(s) \in Nat
    OBVIOUS
  <1>5. K = [n \in 0 .. Len(s) |-> F(K, n)]
    <2>1. \E g : g = [n \in 0 .. Len(s) |-> F(g, n)]
      BY <1>3, <1>4
    <2> HIDE DEF F
    <2> QED
      BY <2>1
  <1>6. \A n \in 0 .. Len(s) : K[n] = F(K, n)
    <2> HIDE DEF K, F
    <2> QED
      BY <1>5
  <1>7. Keep(s, D) = K[Len(s)]
    BY DEF Keep
  <1>8. K[0] = <<>>
    <2>1. F(K, 0) = <<>>
      OBVIOUS
    <2> HIDE DEF K, F
    <2> QED
      BY <1>4, <1>6, <2>1
  <1>9. ASSUME NEW n \in 1 .. Len(s)
        PROVE  K[n] = IF n \in D THEN Append(K[n-1], s[n]) ELSE K[n-1]
    <2>1. K[n] = F(K, n)
      <3> HIDE DEF K, F
      <3> QED
        BY <1>4, <1>6
    <2> HIDE DEF K
    <2> QED
      BY <2>1
  <1> HIDE DEF K
  <1> QED
    BY <1>7, <1>8, <1>9

\* What is kept of a sequence is a sequence over the same set.
LEMMA KeepType ==
    ASSUME NEW S, NEW s \in Seq(S), NEW D
    PROVE  Keep(s, D) \in Seq(S)
  <1>1. PICK K : /\ Keep(s, D) = K[Len(s)] /\ K[0] = <<>>
                 /\ \A n \in 1 .. Len(s) :
                       K[n] = IF n \in D THEN Append(K[n-1], s[n]) ELSE K[n-1]
    BY KeepSteps
  <1> DEFINE T == {n \in 0 .. Len(s) : K[n] \notin Seq(S)}
  <1>2. T = {}
    <2> SUFFICES ASSUME T # {}
                 PROVE  FALSE
      OBVIOUS
    <2>1. T \subseteq Nat
      OBVIOUS
    <2> PICK y \in T : \A z \in T : y <= z
      BY <2>1, LeastNatural
    <2>2. y # 0
      <3>1. <<>> \in Seq(S)
        OBVIOUS
      <3> QED
        BY <1>1, <3>1
    <2>3. y \in 1 .. Len(s) /\ y - 1 \in 0 .. Len(s) /\ s[y] \in S
      BY <2>2
    <2>4. K[y-1] \in Seq(S)
      BY <2>3
    <2>5. \A q \in Seq(S), e \in S : Append(q, e) \in Seq(S)
      OBVIOUS
    <2>6. K[y] \in Seq(S)
      <3>1. Append(K[y-1], s[y]) \in Seq(S)
        <4> HIDE DEF T
        <4> QED
          BY <2>3, <2>4, <2>5
      <3>2. K[y] = Append(K[y-1], s[y]) \/ K[y] = K[y-1]
        BY <1>1, <2>3
      <3> QED
        BY <2>4, <3>1, <3>2
    <2> QED
      BY <2>6
  <1>3. Len(s) \in 0 .. Len(s)
    OBVIOUS
  <1> QED
    BY <1>1, <1>2, <1>3

LEMMA RemoveAtType ==
    ASSUME NEW S, NEW s \in Seq(S), NEW i \in DOMAIN s
    PROVE  RemoveAt(s, i) \in Seq(S)
  <1>1. SubSeq(s, 1, i - 1) \in Seq(S)
    OBVIOUS
  <1>2. SubSeq(s, i + 1, Len(s)) \in Seq(S)
    OBVIOUS
  <1> QED
    BY <1>1, <1>2 DEF RemoveAt

LEMMA FirstNamedType ==
    ASSUME NEW q \in Seq(Files), NEW f \in Files
    PROVE  FirstNamed(q, f) # 0 => FirstNamed(q, f) \in DOMAIN q
  <1> DEFINE hits == {i \in DOMAIN q : Base[q[i]] = Base[f]}
  <1>1. CASE hits = {}
    BY <1>1 DEF FirstNamed
  <1>2. CASE hits # {}
    <2>1. hits \subseteq Nat
      OBVIOUS
    <2>2. \E y \in hits : \A z \in hits : y <= z
      <3> HIDE DEF hits
      <3> QED
        BY <1>2, <2>1, LeastNatural
    <2>3. (CHOOSE i \in hits : \A j \in hits : i <= j) \in hits
      <3> HIDE DEF hits
      <3> QED
        BY <2>2
    <2> QED
      BY <1>2, <2>3 DEF FirstNamed
  <1> QED
    BY <1>1, <1>2

-----------------------------------------------------------------------------
(***************************************************************************)
(* Removing an element and keeping some of the rest.                       *)
(***************************************************************************)

LEMMA RemoveAtIs ==
    ASSUME NEW S, NEW s \in Seq(S), NEW i \in DOMAIN s
    PROVE  /\ RemoveAt(s, i) \in Seq(S) /\ Len(RemoveAt(s, i)) = Len(s) - 1
           /\ \A n \in 1 .. Len(s) - 1 : RemoveAt(s, i)[n] = IF n < i THEN s[n] ELSE s[n+1]
  <1> DEFINE p == SubSeq(s, 1, i - 1)
             q == SubSeq(s, i + 1, Len(s))
  <1>1. i \in 1 .. Len(s) /\ Len(s) \in Nat
    OBVIOUS
  <1>2. p \in Seq(S) /\ Len(p) = i - 1 /\ \A n \in 1 .. i - 1 : p[n] = s[n]
    BY <1>1
  <1>3. q \in Seq(S) /\ Len(q) = Len(s) - i /\ \A n \in 1 .. Len(s) - i : q[n] = s[n+i]
    BY <1>1
  <1>4. RemoveAt(s, i) = p \o q
    BY DEF RemoveAt
  <1> HIDE DEF p, q
  <1>5. p \o q \in Seq(S) /\ Len(p \o q) = Len(s) - 1
    BY <1>1, <1>2, <1>3
  <1>6. ASSUME NEW n \in 1 .. Len(s) - 1
        PROVE  (p \o q)[n] = IF n < i THEN s[n] ELSE s[n+1]
    <2>1. CASE n < i
      <3>1. n \in 1 .. Len(p)
        BY <1>1, <1>2, <2>1
      <3>2. (p \o q)[n] = p[n]
        BY <1>2, <1>3, <3>1
      <3> QED
        BY <1>1, <1>2, <2>1, <3>2
    <2>2. CASE n >= i
      <3>1. n - (i - 1) \in 1 .. Len(s) - i /\ n - (i - 1) + i = n + 1
        BY <1>1, <2>2
      <3>2. (p \o q)[n] = q[n - (i - 1)]
        BY <1>1, <1>2, <1>3, <2>2
      <3>3. q[n - (i - 1)] = s[n - (i - 1) + i]
        BY <1>3, <3>1
      <3> QED
        BY <1>1, <2>2, <3>1, <3>2, <3>3
    <2>3. n < i \/ n >= i
      BY <1>1
    <2> QED
      BY <2>1, <2>2, <2>3
  <1> QED
    BY <1>4, <1>5, <1>6

\* Where the n-th element of RemoveAt(s, i) was in s.
Before(i, n) == IF n < i THEN n ELSE n + 1

\* To remove an element and keep some of the others is to keep those.
LEMMA KeepRemoved ==
    ASSUME NEW S, NEW s \in Seq(S), NEW i \in DOMAIN s, NEW D, i \notin D, NEW E,
           \A n \in 1 .. Len(s) - 1 : n \in E <=> Before(i, n) \in D
    PROVE  Keep(RemoveAt(s, i), E) = Keep(s, D)
  <1> DEFINE t == RemoveAt(s, i)
  <1>1. /\ t \in Seq(S) /\ Len(t) = Len(s) - 1
        /\ \A n \in 1 .. Len(s) - 1 : t[n] = IF n < i THEN s[n] ELSE s[n+1]
    BY RemoveAtIs
  <1> HIDE DEF t
  <1>2. PICK K : /\ Keep(s, D) = K[Len(s)] /\ K[0] = <<>>
                 /\ \A n \in 1 .. Len(s) :
                       K[n] = IF n \in D THEN Append(K[n-1], s[n]) ELSE K[n-1]
    BY KeepSteps
  <1>3. PICK J : /\ Keep(t, E) = J[Len(t)] /\ J[0] = <<>>
                 /\ \A n \in 1 .. Len(t) :
                       J[n] = IF n \in E THEN Append(J[n-1], t[n]) ELSE J[n-1]
    BY <1>1, KeepSteps
  <1>4. i \in 1 .. Len(s) /\ Len(s) \in Nat /\ K[i] = K[i-1]
    BY <1>2
  <1> DEFINE T == {n \in 0 .. Len(s) - 1 : J[n] # IF n < i THEN K[n] ELSE K[n+1]}
  <1>5. T = {}
    <2> SUFFICES ASSUME T # {}
                 PROVE  FALSE
      OBVIOUS
    <2>1. T \subseteq Nat
      OBVIOUS
    <2> PICK y \in T : \A z \in T : y <= z
      BY <2>1, LeastNatural
    <2>2. y # 0
      BY <1>2, <1>3, <1>4
    <2>3. y \in 1 .. Len(s) - 1 /\ y - 1 \in 0 .. Len(s) - 1
      BY <2>2
    <2>4. J[y-1] = IF y - 1 < i THEN K[y-1] ELSE K[y]
      BY <2>3
    <2>5. J[y] = IF y \in E THEN Append(J[y-1], t[y]) ELSE J[y-1]
      BY <1>1, <1>3, <2>3
    <2>6. CASE y < i
      <3>1. J[y-1] = K[y-1] /\ t[y] = s[y] /\ (y \in E <=> y \in D)
        BY <1>1, <1>4, <2>3, <2>4, <2>6 DEF Before
      <3>2. y \in 1 .. Len(s) /\ J[y] # K[y]
        BY <1>4, <2>3, <2>6
      <3> HIDE DEF T
      <3> QED
        BY <1>2, <2>5, <3>1, <3>2
    <2>7. CASE y >= i
      <3>1. J[y-1] = K[y]
        <4>1. CASE y = i
          BY <1>4, <2>4, <4>1
        <4>2. CASE y > i
          BY <1>4, <2>3, <2>4, <4>2
        <4> QED
          BY <1>4, <2>3, <2>7, <4>1, <4>2
      <3>2. t[y] = s[y+1] /\ (y \in E <=> y + 1 \in D)
        BY <1>1, <1>4, <2>3, <2>7 DEF Before
      <3>3. y + 1 \in 1 .. Len(s) /\ y + 1 - 1 = y /\ J[y] # K[y+1]
        BY <1>4, <2>3, <2>7
      <3>4. K[y+1] = IF y + 1 \in D THEN Append(K[y], s[y+1]) ELSE K[y]
        BY <1>2, <3>3
      <3> HIDE DEF T
      <3> QED
        BY <2>5, <3>1, <3>2, <3>3, <3>4
    <2> QED
      BY <1>4, <2>3, <2>6, <2>7
  <1>6. Len(t) \in 0 .. Len(s) - 1 /\ J[Len(t)] = K[Len(s)]
    <2>1. Len(s) - 1 \in 0 .. Len(s) - 1 /\ Len(s) - 1 + 1 = Len(s)
      BY <1>4
    <2>2. J[Len(s) - 1] = IF Len(s) - 1 < i THEN K[Len(s) - 1] ELSE K[Len(s) - 1 + 1]
      BY <1>5, <2>1
    <2>3. CASE i = Len(s)
      BY <1>1, <1>4, <2>1, <2>2, <2>3
    <2>4. CASE i < Len(s)
      BY <1>1, <1>4, <2>1, <2>2, <2>4
    <2> QED
      BY <1>4, <2>3, <2>4
  <1> QED
    BY <1>2, <1>3, <1>6 DEF t

\* To keep all is to change nothing.
LEMMA KeepAll ==
    ASSUME NEW S, NEW s \in Seq(S)
    PROVE  Keep(s, DOMAIN s) = s
  <1>1. PICK K : /\ Keep(s, DOMAIN s) = K[Len(s)] /\ K[0] = <<>>
                 /\ \A n \in 1 .. Len(s) :
                       K[n] = IF n \in DOMAIN s THEN Append(K[n-1], s[n]) ELSE K[n-1]
    BY KeepSteps
  <1>2. Len(s) \in Nat /\ DOMAIN s = 1 .. Len(s)
    OBVIOUS
  <1> DEFINE T == {n \in 0 .. Len(s) : K[n] # SubSeq(s, 1, n)}
  <1>3. T = {}
    <2> SUFFICES ASSUME T # {}
                 PROVE  FALSE
      OBVIOUS
    <2>1. T \subseteq Nat
      OBVIOUS
    <2> PICK y \in T : \A z \in T : y <= z
      BY <2>1, LeastNatural
    <2>2. y # 0
      <3>1. SubSeq(s, 1, 0) = <<>>
        OBVIOUS
      <3> QED
        BY <1>1, <3>1
    <2>3. y \in 1 .. Len(s) /\ y - 1 \in 0 .. Len(s)
      BY <2>2
    <2>4. K[y-1] = SubSeq(s, 1, y - 1)
      BY <2>3
    <2>5. K[y] = Append(SubSeq(s, 1, y - 1), s[y])
      BY <1>1, <1>2, <2>3, <2>4
    <2>6. \A n \in 1 .. Len(s) : Append(SubSeq(s, 1, n - 1), s[n]) = SubSeq(s, 1, n)
      OBVIOUS
    <2> QED
      BY <2>3, <2>5, <2>6
  <1>4. Len(s) \in 0 .. Len(s)
    BY <1>2
  <1>5. SubSeq(s, 1, Len(s)) = s
    OBVIOUS
  <1> QED
    BY <1>1, <1>3, <1>4, <1>5

LEMMA KeepAllButOne ==
    ASSUME NEW S, NEW s \in Seq(S), NEW i \in DOMAIN s
    PROVE  Keep(s, DOMAIN s \ {i}) = RemoveAt(s, i)
  <1> DEFINE t == RemoveAt(s, i)
  <1>1. t \in Seq(S) /\ Len(t) = Len(s) - 1
    BY RemoveAtIs
  <1>2. \A n \in 1 .. Len(s) - 1 : n \in DOMAIN t <=> Before(i, n) \in DOMAIN s \ {i}
    BY <1>1 DEF Before
  <1>3. Keep(t, DOMAIN t) = Keep(s, DOMAIN s \ {i})
    <2> i \notin DOMAIN s \ {i}
      OBVIOUS
    <2> QED
      BY <1>2, KeepRemoved
  <1>4. Keep(t, DOMAIN t) = t
    BY <1>1, KeepAll
  <1> QED
    BY <1>3, <1>4

-----------------------------------------------------------------------------
\* What a pop of the playlist returns.  Only an empty queue, or one of played files
\* only, gives nothing; with Unique and Random the file was not played yet.
PopOf(r, pl, pd) ==
    /\ r.insert = <<>> /\ ~r.isInsert
    /\ r.playlist \in Seq(Files) /\ r.played \subseteq Names
    /\ \/ r.file = NoFile
       \/ r.file \in Files /\ pl # <<>> /\ r.played = pd \union {Base[r.file]}

LEMMA PickAnyPops ==
    ASSUME NEW pl \in Seq(Files), NEW pd \in SUBSET Names, NEW random \in BOOLEAN,
           NEW r \in PickAny(pl, pd, random)
    PROVE  /\ PopOf(r, pl, pd)
           /\ pl = <<>> => r.file = NoFile
           /\ pl # <<>> /\ ~random => r.file = pl[1]
  <1>1. CASE pl = <<>>
    <2>1. r = Picked(NoFile, FALSE, <<>>, pl, pd)
      BY <1>1 DEF PickAny
    <2>2. r.file = NoFile /\ r.insert = <<>> /\ r.isInsert = FALSE
          /\ r.playlist = pl /\ r.played = pd
      BY <2>1 DEF Picked
    <2> QED
      BY <1>1, <2>2 DEF PopOf
  <1>2. CASE pl # <<>>
    <2> PICK i \in IF random THEN DOMAIN pl ELSE {1} :
           r = Picked(pl[i], FALSE, <<>>, RemoveAt(pl, i), pd \union {Base[pl[i]]})
      BY <1>2 DEF PickAny
    <2>1. i \in DOMAIN pl /\ pl[i] \in Files
      BY <1>2
    <2>2. RemoveAt(pl, i) \in Seq(Files) /\ Base[pl[i]] \in Names
      BY <2>1, RemoveAtType, QueueAssumption
    <2> QED
      BY <1>2, <2>1, <2>2 DEF Picked, PopOf
  <1> QED
    BY <1>1, <1>2

LEMMA PickFreshPops ==
    ASSUME NEW pl \in Seq(Files), NEW pd \in SUBSET Names, NEW r \in PickFresh(pl, pd)
    PROVE  /\ PopOf(r, pl, pd)
           /\ pl = <<>> => r.file = NoFile
           /\ r.file # NoFile => Base[r.file] \notin pd
  <1> DEFINE fresh == {i \in DOMAIN pl : Base[pl[i]] \notin pd}
             stale == DOMAIN pl \ fresh
  <1>1. CASE fresh = {}
    <2>1. r = Picked(NoFile, FALSE, <<>>, <<>>, IF pl = <<>> THEN pd ELSE {})
      BY <1>1 DEF PickFresh
    <2>2. r.file = NoFile /\ r.insert = <<>> /\ r.isInsert = FALSE
          /\ r.playlist = <<>> /\ r.played \subseteq Names
      BY <2>1 DEF Picked
    <2>3. <<>> \in Seq(Files)
      OBVIOUS
    <2> HIDE DEF fresh
    <2> QED
      BY <2>2, <2>3 DEF PopOf
  <1>2. CASE fresh # {}
    <2> DEFINE P(i, D) == Picked(pl[i], FALSE, <<>>, Keep(pl, DOMAIN pl \ (D \union {i})),
                                 pd \union {Base[pl[i]]})
    <2> DEFINE W == {P(i, D) : i \in fresh, D \in SUBSET stale}
    <2>3. PickFresh(pl, pd) =
            IF fresh = {}
            THEN { Picked(NoFile, FALSE, <<>>, <<>>, IF pl = <<>> THEN pd ELSE {}) }
            ELSE W
      BY DEF PickFresh
    <2>4. r \in W
      <3> HIDE DEF fresh, W
      <3> QED
        BY <1>2, <2>3
    <2>5. \E i \in fresh, D \in SUBSET stale : r = P(i, D)
      <3> HIDE DEF fresh, stale, P
      <3> QED
        BY <2>4
    <2> PICK i \in fresh, D \in SUBSET stale : r = P(i, D)
      BY <2>5
    <2>1. i \in DOMAIN pl /\ pl[i] \in Files /\ Base[pl[i]] \notin pd /\ pl # <<>>
      BY <1>2
    <2>2. Keep(pl, DOMAIN pl \ (D \union {i})) \in Seq(Files) /\ Base[pl[i]] \in Names
      BY <2>1, KeepType, QueueAssumption
    <2> QED
      BY <2>1, <2>2 DEF Picked, PopOf
  <1> QED
    BY <1>1, <1>2

\* What a call of NextFile returns.
LEMMA NextFilePops ==
    ASSUME TypeOK, NEW r \in NextFile(insert, playlist, original, played, cfg)
    PROVE  /\ r.insert \in Seq(Files) /\ r.playlist \in Seq(Files) /\ r.played \subseteq Names
           /\ r.isInsert <=> insert # <<>>
           /\ r.isInsert => /\ r.file \in Files
                            /\ r.playlist = playlist /\ r.played = played
           /\ r.file \in Files \union {NoFile}
           /\ ~r.isInsert /\ playlist # <<>> /\ ~cfg.random => r.file = playlist[1]
           /\ ~r.isInsert /\ playlist = <<>> /\ ~cfg.loop => r.file = NoFile
           /\ ~r.isInsert /\ playlist = <<>> /\ r.file # NoFile => r.played = {Base[r.file]}
           /\ ~r.isInsert /\ playlist # <<>> /\ r.file # NoFile =>
                  /\ r.played = played \union {Base[r.file]}
                  /\ cfg.random /\ cfg.unique => Base[r.file] \notin played
  <1>0. /\ insert \in Seq(Files) /\ playlist \in Seq(Files) /\ original \in Seq(Files)
        /\ played \in SUBSET Names /\ NoFile \notin Files
        /\ cfg.loop \in BOOLEAN /\ cfg.random \in BOOLEAN /\ cfg.unique \in BOOLEAN
    BY QueueAssumption DEF TypeOK
  <1>1. CASE insert # <<>>
    <2>1. r = Picked(Head(insert), TRUE, Tail(insert), playlist, played)
      BY <1>1 DEF NextFile
    <2>2. Head(insert) \in Files /\ Tail(insert) \in Seq(Files)
      BY <1>0, <1>1
    <2>3. /\ r.file = Head(insert) /\ r.isInsert = TRUE /\ r.insert = Tail(insert)
          /\ r.playlist = playlist /\ r.played = played
      BY <2>1 DEF Picked
    <2> QED
      BY <1>0, <1>1, <2>2, <2>3
  <1>2. CASE insert = <<>>
    <2> DEFINE loops == playlist = <<>> /\ cfg.loop /\ original # <<>>
               pl0   == IF loops THEN original ELSE playlist
               pd0   == IF loops THEN {} ELSE played
    <2>1. r \in IF cfg.unique /\ cfg.random THEN PickFresh(pl0, pd0)
                ELSE PickAny(pl0, pd0, cfg.random)
      BY <1>2 DEF NextFile
    <2>2. pl0 \in Seq(Files) /\ pd0 \in SUBSET Names
      BY <1>0
    <2>3. /\ PopOf(r, pl0, pd0)
          /\ pl0 = <<>> => r.file = NoFile
          /\ cfg.random /\ cfg.unique /\ r.file # NoFile => Base[r.file] \notin pd0
          /\ pl0 # <<>> /\ ~cfg.random => r.file = pl0[1]
      <3> HIDE DEF pl0, pd0
      <3>1. CASE cfg.unique /\ cfg.random
        <4>1. r \in PickFresh(pl0, pd0)
          BY <2>1, <3>1
        <4> QED
          BY <2>2, <3>1, <4>1, PickFreshPops
      <3>2. CASE ~(cfg.unique /\ cfg.random)
        <4>1. r \in PickAny(pl0, pd0, cfg.random)
          BY <2>1, <3>2
        <4> QED
          BY <1>0, <2>2, <3>2, <4>1, PickAnyPops
      <3> QED
        BY <3>1, <3>2
    <2>4. playlist # <<>> => pl0 = playlist /\ pd0 = played
      OBVIOUS
    <2>5. playlist = <<>> => \/ pl0 = <<>>
                             \/ pd0 = {} /\ cfg.loop
      OBVIOUS
    <2> HIDE DEF pl0, pd0
    <2> QED
      BY <1>0, <1>2, <2>3, <2>4, <2>5 DEF PopOf
  <1> QED
    BY <1>1, <1>2

LEMMA LoadTypes ==
    ASSUME TypeOK, Load(disk)
    PROVE  playlist' \in Seq(Files) /\ original' \in Seq(Files) /\ played' \subseteq Names
  <1>1. disk \in [state : {"none", "torn", "saved"}, data : Saved]
    BY DEF TypeOK
  <1>2. disk.data.playlist \in Seq(Files) /\ disk.data.original \in Seq(Files)
        /\ disk.data.played \in SUBSET Names
    BY <1>1 DEF Saved
  <1> QED
    BY <1>2 DEF Load, TypeOK

-----------------------------------------------------------------------------
\* Nothing is left of a program that does not run, and what RestartCurrent is to put in
\* front is a file.
DownIsBlank ==
    /\ playlistDir \in PlaylistDirs
    /\ \A h \in Handlers : pc[h] = "front" => arg[h] \in Files
    /\ ~up => /\ lock = NoFile /\ \A h \in Handlers : pc[h] = "idle"
              /\ original = <<>> /\ heard = <<>> /\ promise = NoFile

LEMMA BlankTypes ==
    /\ <<>> \in Seq(Files) /\ <<>> \in Seq(Names)
    /\ NoDisk \in [state : {"none", "torn", "saved"}, data : Saved]
    /\ TornDisk \in [state : {"none", "torn", "saved"}, data : Saved]
    /\ \A m \in Saved : OnDisk(m) \in [state : {"none", "torn", "saved"}, data : Saved]
  BY DEF NoDisk, TornDisk, OnDisk, Saved, Nothing

\* A request that is served moves to its next step, which is not a Save's write.
LEMMA ServedTypes ==
    ASSUME TypeOK, DownIsBlank, NEW h \in Handlers,
           NEW then \in {"idle", "save", "refill"}, Serve(h, then),
           insert' \in Seq(Files), playlist' \in Seq(Files), original' \in Seq(Files),
           played' \subseteq Names, heard' \in Seq(Names),
           promise' \in Files \union {NoFile, Silent}
    PROVE  TypeOK' /\ DownIsBlank'
  <1> USE QueueAssumption
  <1>1. /\ up /\ pc[h] = "idle" /\ pc' = [pc EXCEPT ![h] = then]
        /\ UNCHANGED <<cfg, current, rpc, next, lock, snapshot, disk, arg, up, playlistDir, crashes>>
    BY DEF Serve, runner, saving, world
  <1>2. /\ pc' \in [Handlers -> {"idle", "front", "save", "writing", "refill", "refilling"}]
        /\ \A g \in Handlers : pc'[g] = "writing" <=> lock' = g
        /\ \A g \in Handlers : pc'[g] = "front" => arg'[g] \in Files
    BY <1>1 DEF TypeOK, DownIsBlank
  <1>3. DownIsBlank'
    BY <1>1, <1>2 DEF DownIsBlank
  <1> QED
    BY <1>1, <1>2, <1>3 DEF TypeOK

\* A request keeps the types: what it adds are files, what it removes was in the queue.
LEMMA RequestKeepsTypes ==
    ASSUME TypeOK, DownIsBlank, NEW h \in Handlers, Request(h)
    PROVE  TypeOK' /\ DownIsBlank'
  <1> USE QueueAssumption
  <1>0. /\ insert \in Seq(Files) /\ playlist \in Seq(Files) /\ original \in Seq(Files)
        /\ played \subseteq Names /\ heard \in Seq(Names)
        /\ promise \in Files \union {NoFile, Silent}
    BY DEF TypeOK
  <1>1. ASSUME NEW files \in Batches,
               PushInsert(h, files) \/ PushPlaylist(h, files) \/ ReplacePlaylist(h, files)
        PROVE  TypeOK' /\ DownIsBlank'
    <2>1. files \in Seq(Files)
      OBVIOUS
    <2>2. Serve(h, "save")
      BY <1>1 DEF PushInsert, PushPlaylist, ReplacePlaylist
    <2>3. /\ insert' \in Seq(Files) /\ playlist' \in Seq(Files) /\ original' \in Seq(Files)
          /\ played' \subseteq Names /\ heard' \in Seq(Names)
          /\ promise' \in Files \union {NoFile, Silent}
      <3>0. \A q \in Seq(Files) : q \o files \in Seq(Files)
        BY <2>1
      <3>1. CASE PushInsert(h, files)
        BY <1>0, <3>0, <3>1 DEF PushInsert
      <3>2. CASE PushPlaylist(h, files)
        BY <1>0, <3>0, <3>2 DEF PushPlaylist
      <3>3. CASE ReplacePlaylist(h, files)
        BY <1>0, <2>1, <3>3, BlankTypes DEF ReplacePlaylist, Replaced
      <3> QED
        BY <1>1, <3>1, <3>2, <3>3
    <2> QED
      BY <2>2, <2>3, ServedTypes
  <1>2. ASSUME NEW type, ClearQueue(h, type)
        PROVE  TypeOK' /\ DownIsBlank'
    <2>1. /\ insert' \in Seq(Files) /\ playlist' \in Seq(Files) /\ original' \in Seq(Files)
          /\ played' \subseteq Names /\ heard' \in Seq(Names)
          /\ promise' \in Files \union {NoFile, Silent}
      BY <1>0, <1>2, BlankTypes DEF ClearQueue
    <2> QED
      BY <1>2, <2>1, ServedTypes DEF ClearQueue
  <1>3. ASSUME NEW type \in {"insert", "playlist"}, NEW f \in Files,
               RemoveFromQueue(h, type, f)
        PROVE  TypeOK' /\ DownIsBlank'
    <2> DEFINE i == FirstNamed(IF type = "insert" THEN insert ELSE playlist, f)
    <2>1. type = "insert" /\ i # 0 => RemoveAt(insert, i) \in Seq(Files)
      BY <1>0, FirstNamedType, RemoveAtType
    <2>2. type = "playlist" /\ i # 0 => RemoveAt(playlist, i) \in Seq(Files)
      BY <1>0, FirstNamedType, RemoveAtType
    <2>3. /\ Serve(h, IF i = 0 THEN "idle" ELSE "save")
          /\ insert' = IF type = "insert" /\ i # 0 THEN RemoveAt(insert, i) ELSE insert
          /\ playlist' = IF type = "playlist" /\ i # 0 THEN RemoveAt(playlist, i) ELSE playlist
          /\ promise' = IF type = "playlist" /\ i # 0 /\ promise # Silent
                        THEN NoFile ELSE promise
          /\ UNCHANGED <<original, played, heard>>
      BY <1>3 DEF RemoveFromQueue
    <2>4. /\ insert' \in Seq(Files) /\ playlist' \in Seq(Files) /\ original' \in Seq(Files)
          /\ played' \subseteq Names /\ heard' \in Seq(Names)
          /\ promise' \in Files \union {NoFile, Silent}
      <3> HIDE DEF i
      <3> QED
        BY <1>0, <2>1, <2>2, <2>3
    <2>5. (IF i = 0 THEN "idle" ELSE "save") \in {"idle", "save", "refill"}
      OBVIOUS
    <2> HIDE DEF i
    <2> QED
      BY <2>3, <2>4, <2>5, ServedTypes
  <1>4. ASSUME NEW c \in Configs, SetConfig(h, c)
        PROVE  TypeOK' /\ DownIsBlank'
    BY <1>4 DEF SetConfig, queues, runner, saving, world, TypeOK, DownIsBlank
  <1>5. CASE RestartCurrent(h)
    <2>1. /\ pc[h] = "idle" /\ pc' = [pc EXCEPT ![h] = "front"]
          /\ arg' = [arg EXCEPT ![h] = current] /\ current \in Files /\ up
      BY <1>5 DEF RestartCurrent, TypeOK
    <2>2. /\ pc' \in [Handlers -> {"idle", "front", "save", "writing", "refill", "refilling"}]
          /\ arg' \in [Handlers -> Files \union {NoFile}]
          /\ \A g \in Handlers : pc'[g] = "writing" <=> lock = g
          /\ \A g \in Handlers : pc'[g] = "front" => arg'[g] \in Files
      BY <2>1 DEF TypeOK, DownIsBlank
    <2> QED
      BY <1>5, <2>1, <2>2
         DEF RestartCurrent, queues, runner, saving, world, TypeOK, DownIsBlank
  <1>6. CASE AutoLoad(h)
    <2>1. playlist' \in Seq(Files) /\ original' \in Seq(Files) /\ played' \subseteq Names
      BY <1>6, LoadTypes DEF AutoLoad
    <2> QED
      BY <1>0, <1>6, <2>1, BlankTypes, ServedTypes DEF AutoLoad
  <1> QED
    BY <1>1, <1>2, <1>3, <1>4, <1>5, <1>6
       DEF Request, HandleInject, HandleQueueClear, HandleQueueRemove, HandleStationConfig

LEMMA ContinueKeepsTypes ==
    ASSUME TypeOK, DownIsBlank, NEW h \in Handlers, Continue(h)
    PROVE  TypeOK' /\ DownIsBlank'
  <1> USE QueueAssumption
  <1> DEFINE States == {"idle", "front", "save", "writing", "refill", "refilling"}
  <1>1. CASE PushPlaylistFront(h)
    <2>1. /\ up /\ pc[h] = "front" /\ lock = NoFile /\ arg[h] \in Files
          /\ pc' = [pc EXCEPT ![h] = "save"] /\ arg' = [arg EXCEPT ![h] = NoFile]
      BY <1>1 DEF PushPlaylistFront, DownIsBlank
    <2>2. playlist' \in Seq(Files) /\ promise' \in Files
      BY <1>1, <2>1 DEF PushPlaylistFront, TypeOK
    <2>3. /\ pc' \in [Handlers -> States] /\ arg' \in [Handlers -> Files \union {NoFile}]
          /\ \A g \in Handlers : pc'[g] = "writing" <=> lock = g
          /\ \A g \in Handlers : pc'[g] = "front" => arg'[g] \in Files
      BY <2>1 DEF TypeOK, DownIsBlank
    <2> QED
      BY <1>1, <2>1, <2>2, <2>3
         DEF PushPlaylistFront, runner, saving, world, TypeOK, DownIsBlank
  <1>2. CASE SaveBegin(h)
    <2>1. /\ up /\ pc[h] = "save" /\ lock = NoFile
          /\ pc' = [pc EXCEPT ![h] = "writing"] /\ lock' = h
      BY <1>2 DEF SaveBegin
    <2>2. Memory \in Saved
      BY DEF Memory, Saved, TypeOK
    <2>3. {disk', snapshot'} \subseteq [state : {"none", "torn", "saved"}, data : Saved]
      BY <1>2, <2>2, BlankTypes DEF SaveBegin
    <2>4. /\ pc' \in [Handlers -> States]
          /\ \A g \in Handlers : pc'[g] = "writing" <=> lock' = g
          /\ \A g \in Handlers : pc'[g] = "front" => arg[g] \in Files
      BY <2>1 DEF TypeOK, DownIsBlank
    <2> QED
      BY <1>2, <2>1, <2>3, <2>4 DEF SaveBegin, queues, runner, world, TypeOK, DownIsBlank
  <1>3. CASE SaveEnd(h)
    <2>1. /\ up /\ pc[h] = "writing"
          /\ pc' = [pc EXCEPT ![h] = "idle"] /\ lock' = NoFile
      BY <1>3 DEF SaveEnd
    <2>3. {disk', snapshot'} \subseteq [state : {"none", "torn", "saved"}, data : Saved]
      BY <1>3, BlankTypes DEF SaveEnd, TypeOK
    <2>4. /\ pc' \in [Handlers -> States]
          /\ \A g \in Handlers : pc'[g] = "writing" <=> lock' = g
          /\ \A g \in Handlers : pc'[g] = "front" => arg[g] \in Files
      BY <2>1 DEF TypeOK, DownIsBlank
    <2> QED
      BY <1>3, <2>1, <2>3, <2>4 DEF SaveEnd, queues, runner, world, TypeOK, DownIsBlank
  <1>4. CASE AutoRefillTest(h)
    <2>1. /\ pc' \in [Handlers -> States] /\ up
          /\ \A g \in Handlers : pc'[g] = "writing" <=> lock = g
          /\ \A g \in Handlers : pc'[g] = "front" => arg[g] \in Files
      BY <1>4 DEF AutoRefillTest, TypeOK, DownIsBlank
    <2> QED
      BY <1>4, <2>1 DEF AutoRefillTest, queues, runner, saving, world, TypeOK, DownIsBlank
  <1>5. CASE AutoRefill(h)
    <2>1. /\ pc' \in [Handlers -> States] /\ up
          /\ \A g \in Handlers : pc'[g] = "writing" <=> lock = g
          /\ \A g \in Handlers : pc'[g] = "front" => arg[g] \in Files
      BY <1>5 DEF AutoRefill, TypeOK, DownIsBlank
    <2> QED
      BY <1>5, <2>1, BlankTypes DEF AutoRefill, runner, saving, world, TypeOK, DownIsBlank
  <1> QED
    BY <1>1, <1>2, <1>3, <1>4, <1>5 DEF Continue

LEMMA PopKeepsTypes ==
    ASSUME TypeOK, DownIsBlank, PopTrack
    PROVE  TypeOK' /\ DownIsBlank'
  <1> USE QueueAssumption
  <1> PICK r \in NextFile(insert, playlist, original, played, cfg) :
         /\ insert' = r.insert /\ playlist' = r.playlist /\ played' = r.played
         /\ next' = ToPlay(r.file)
         /\ heard' = IF r.isInsert THEN heard
                     ELSE IF r.file = NoFile THEN <<>>
                     ELSE (IF playlist = <<>> THEN <<>> ELSE heard)
                          \o (IF cfg.random /\ cfg.unique THEN <<Base[r.file]>> ELSE <<>>)
         /\ promise' = IF r.isInsert THEN promise ELSE NoFile
    BY DEF PopTrack
  <1>1. /\ insert' \in Seq(Files) /\ playlist' \in Seq(Files) /\ played' \subseteq Names
        /\ r.file \in Files \union {NoFile}
    BY NextFilePops
  <1>2. next' \in Files \union {Silent, NoFile}
    BY <1>1 DEF ToPlay
  <1>3. heard' \in Seq(Names)
    <2>1. CASE r.isInsert \/ r.file = NoFile
      BY <2>1, BlankTypes DEF TypeOK
    <2>2. CASE ~r.isInsert /\ r.file # NoFile
      <3>1. Base[r.file] \in Names
        BY <1>1, <2>2
      <3>2. /\ (IF playlist = <<>> THEN <<>> ELSE heard) \in Seq(Names)
            /\ (IF cfg.random /\ cfg.unique THEN <<Base[r.file]>> ELSE <<>>) \in Seq(Names)
        BY <3>1 DEF TypeOK
      <3>3. \A p, q \in Seq(Names) : p \o q \in Seq(Names)
        OBVIOUS
      <3> QED
        BY <2>2, <3>2, <3>3
    <2> QED
      BY <2>1, <2>2
  <1>4. promise' \in Files \union {NoFile, Silent}
    BY DEF TypeOK
  <1>5. rpc' = (IF next' = NoFile THEN "pop" ELSE "popped") /\ up
        /\ UNCHANGED <<original, cfg, current, lock, snapshot, disk, pc, arg, up, playlistDir, crashes>>
    BY DEF PopTrack, saving, world
  <1> HIDE DEF PopTrack
  <1> QED
    BY <1>1, <1>2, <1>3, <1>4, <1>5 DEF TypeOK, DownIsBlank

LEMMA TypesAndBlank == Spec => [](TypeOK /\ DownIsBlank)
  <1> USE QueueAssumption
  <1>1. Init => TypeOK /\ DownIsBlank
    BY BlankTypes DEF Init, TypeOK, DownIsBlank
  <1>2. TypeOK /\ DownIsBlank /\ [Next]_vars => TypeOK' /\ DownIsBlank'
    <2> SUFFICES ASSUME TypeOK, DownIsBlank, [Next]_vars
                 PROVE  TypeOK' /\ DownIsBlank'
      OBVIOUS
    <2>1. CASE Boot
      BY <2>1 DEF Boot, queues, saving, world, TypeOK, DownIsBlank
    <2>2. CASE SelfHeal
      BY <2>2, BlankTypes DEF SelfHeal, runner, saving, world, TypeOK, DownIsBlank
    <2>3. CASE StartTrack
      BY <2>3 DEF StartTrack, queues, saving, world, TypeOK, DownIsBlank
    <2>4. CASE Crash
      BY <2>4, BlankTypes DEF Crash, TypeOK, DownIsBlank
    <2>5. CASE Restart
      <3>1. playlist' \in Seq(Files) /\ original' \in Seq(Files) /\ played' \subseteq Names
        BY <2>5, LoadTypes DEF Restart
      <3> QED
        BY <2>5, <3>1 DEF Restart, runner, saving, TypeOK, DownIsBlank
    <2>6. CASE RestartInject
      <3>1. playlistDir \in Seq(Files)
        BY DEF DownIsBlank
      <3>2. [playlist |-> playlistDir, original |-> playlistDir, played |-> {}] \in Saved
        BY <3>1 DEF Saved
      <3>3. disk' \in [state : {"none", "torn", "saved"}, data : Saved]
        BY <2>6, <3>2, BlankTypes DEF RestartInject
      <3> QED
        BY <2>6, <3>1, <3>3, BlankTypes DEF RestartInject, Replaced, runner, TypeOK, DownIsBlank
    <2>7. CASE UNCHANGED vars
      BY <2>7 DEF vars, TypeOK, DownIsBlank
    <2> QED
      BY <2>1, <2>2, <2>3, <2>4, <2>5, <2>6, <2>7, PopKeepsTypes, RequestKeepsTypes,
         ContinueKeepsTypes DEF Next
  <1> QED
    BY <1>1, <1>2, PTL DEF Spec

\* Every variable keeps its type, and qm.mu is held by the one request that writes the file.
THEOREM TypeCorrect == Spec => []TypeOK
  BY TypesAndBlank, PTL

-----------------------------------------------------------------------------
\* While a Save writes, what it writes has the pool in memory, which waits for qm.mu to
\* change; a file that is not whole has nothing.
PoolIsBeingSaved ==
    /\ lock # NoFile => snapshot.state = "saved" /\ snapshot.data.original = original
    /\ disk.state # "saved" => disk \in {NoDisk, TornDisk}

\* A step that touches neither the pool nor the file, and ends no save.
LEMMA PoolStays ==
    ASSUME PoolIsOnDisk, PoolIsBeingSaved, UNCHANGED <<original, lock, snapshot, disk, up>>,
           (\A h \in Handlers : pc'[h] \notin {"save", "writing"})
               => \A h \in Handlers : pc[h] \notin {"save", "writing"}
    PROVE  PoolIsOnDisk' /\ PoolIsBeingSaved'
  BY DEF PoolIsOnDisk, PoolIsBeingSaved

\* A request that is served and is to save, or that touches no pool.
LEMMA PoolServed ==
    ASSUME TypeOK, PoolIsOnDisk, PoolIsBeingSaved, NEW h \in Handlers, NEW then,
           Serve(h, then), then = "save" \/ original' = original
    PROVE  PoolIsOnDisk' /\ PoolIsBeingSaved'
  <1>1. /\ up /\ pc[h] = "idle" /\ lock = NoFile /\ pc' = [pc EXCEPT ![h] = then]
        /\ UNCHANGED <<lock, snapshot, disk, up>>
    BY DEF Serve, saving, world
  <1>2. pc'[h] = then /\ \A g \in Handlers \ {h} : pc'[g] = pc[g]
    BY <1>1 DEF TypeOK
  <1>3. CASE then = "save"
    BY <1>1, <1>2, <1>3 DEF PoolIsOnDisk, PoolIsBeingSaved
  <1>4. CASE original' = original
    BY <1>1, <1>2, <1>4, PoolStays
  <1> QED
    BY <1>3, <1>4

\* Theorem: whatever requests, crashes and restarts there are, .queue.json has the pool that
\* is in memory, or is torn, when no request has a save to do.
THEOREM PoolSurvives == Spec => []PoolIsOnDisk
  <1> DEFINE Inv == PoolIsOnDisk /\ PoolIsBeingSaved
  <1> USE QueueAssumption
  <1>1. Init => Inv
    BY DEF Init, PoolIsOnDisk, PoolIsBeingSaved
  <1>2. TypeOK /\ DownIsBlank /\ Inv /\ [Next]_vars => Inv'
    <2> SUFFICES ASSUME TypeOK, DownIsBlank, PoolIsOnDisk, PoolIsBeingSaved, [Next]_vars
                 PROVE  PoolIsOnDisk' /\ PoolIsBeingSaved'
      OBVIOUS
    <2>1. CASE Boot \/ SelfHeal \/ PopTrack \/ StartTrack \/ UNCHANGED vars
      <3>1. UNCHANGED <<original, lock, snapshot, disk, up, pc>>
        BY <2>1 DEF Boot, SelfHeal, PopTrack, StartTrack, queues, saving, world, vars
      <3> QED
        BY <3>1, PoolStays
    <2>2. ASSUME NEW h \in Handlers, Request(h)
          PROVE  PoolIsOnDisk' /\ PoolIsBeingSaved'
      <3>1. CASE HandleInject(h)
        BY <3>1, PoolServed DEF HandleInject, PushInsert, PushPlaylist, ReplacePlaylist
      <3>2. CASE HandleQueueClear(h)
        BY <3>2, PoolServed DEF HandleQueueClear, ClearQueue
      <3>3. ASSUME NEW type \in {"insert", "playlist"}, NEW f \in Files,
                   RemoveFromQueue(h, type, f)
            PROVE  PoolIsOnDisk' /\ PoolIsBeingSaved'
        <4> DEFINE then == IF FirstNamed(IF type = "insert" THEN insert ELSE playlist, f) = 0
                           THEN "idle" ELSE "save"
        <4>1. Serve(h, then) /\ original' = original
          BY <3>3 DEF RemoveFromQueue
        <4> HIDE DEF then
        <4> QED
          BY <4>1, PoolServed
      <3>4. CASE HandleStationConfig(h)
        <4>1. UNCHANGED <<original, lock, snapshot, disk, up, pc>>
          BY <3>4 DEF HandleStationConfig, SetConfig, queues, saving, world
        <4> QED
          BY <4>1, PoolStays
      <3>5. CASE RestartCurrent(h)
        <4>1. /\ UNCHANGED <<original, lock, snapshot, disk, up>>
              /\ pc[h] = "idle" /\ pc' = [pc EXCEPT ![h] = "front"]
          BY <3>5 DEF RestartCurrent, queues, saving, world
        <4>2. \A g \in Handlers \ {h} : pc'[g] = pc[g]
          BY <4>1 DEF TypeOK
        <4> QED
          BY <4>1, <4>2, PoolStays
      <3>6. CASE AutoLoad(h)
        <4>1. /\ up /\ pc[h] = "idle" /\ lock = NoFile /\ pc' = [pc EXCEPT ![h] = "refill"]
              /\ UNCHANGED <<lock, snapshot, disk, up>> /\ Load(disk)
          BY <3>6 DEF AutoLoad, Serve, saving, world
        <4>2. CASE disk.state = "saved"
          <5>1. original' = disk'.data.original
            BY <4>1, <4>2 DEF Load
          <5> QED
            BY <4>1, <5>1 DEF PoolIsOnDisk, PoolIsBeingSaved
        <4>3. CASE disk.state # "saved"
          <5>1. original' = original
            BY <4>1, <4>3 DEF Load
          <5> QED
            BY <3>6, <5>1, PoolServed DEF AutoLoad
        <4> QED
          BY <4>2, <4>3
      <3> QED
        BY <2>2, <3>1, <3>2, <3>3, <3>4, <3>5, <3>6 DEF Request, HandleQueueRemove
    <2>3. ASSUME NEW h \in Handlers, Continue(h)
          PROVE  PoolIsOnDisk' /\ PoolIsBeingSaved'
      <3>1. CASE PushPlaylistFront(h)
        <4>1. UNCHANGED <<original, lock, snapshot, disk, up>> /\ pc'[h] = "save"
          BY <3>1 DEF PushPlaylistFront, saving, world, TypeOK
        <4> QED
          BY <4>1, PoolStays
      <3>2. CASE SaveBegin(h)
        <4>1. pc'[h] = "writing" /\ snapshot' = OnDisk(Memory) /\ disk' = TornDisk
              /\ original' = original
          BY <3>2 DEF SaveBegin, queues, TypeOK
        <4>2. snapshot'.state = "saved" /\ snapshot'.data.original = original
          BY <4>1 DEF OnDisk, Memory
        <4> QED
          BY <4>1, <4>2 DEF PoolIsOnDisk, PoolIsBeingSaved
      <3>3. CASE SaveEnd(h)
        <4>1. lock = h /\ h # NoFile
          BY <3>3 DEF SaveEnd, TypeOK
        <4>2. disk' = snapshot /\ original' = original /\ lock' = NoFile
          BY <3>3 DEF SaveEnd, queues
        <4> QED
          BY <4>1, <4>2 DEF PoolIsOnDisk, PoolIsBeingSaved
      <3>4. CASE AutoRefillTest(h) \/ AutoRefill(h)
        <4>1. /\ UNCHANGED <<original, lock, snapshot, disk, up>>
              /\ pc[h] \in {"refill", "refilling"} /\ pc' = [pc EXCEPT ![h] = pc'[h]]
          BY <3>4 DEF AutoRefillTest, AutoRefill, queues, saving, world, TypeOK
        <4>2. \A g \in Handlers \ {h} : pc'[g] = pc[g]
          BY <4>1 DEF TypeOK
        <4> QED
          BY <4>1, <4>2, PoolStays
      <3> QED
        BY <2>3, <3>1, <3>2, <3>3, <3>4 DEF Continue
    <2>4. CASE Crash
      BY <2>4 DEF Crash, PoolIsOnDisk, PoolIsBeingSaved
    <2>5. CASE Restart
      <3>1. lock = NoFile /\ original = <<>> /\ UNCHANGED <<lock, snapshot, disk>> /\ Load(disk)
        BY <2>5 DEF Restart, saving, DownIsBlank
      <3>2. disk.state = "saved" => original' = disk.data.original
        BY <3>1 DEF Load
      <3>3. disk.state # "saved" => original' = <<>> /\ disk \in {NoDisk, TornDisk}
        BY <3>1 DEF Load, PoolIsBeingSaved
      <3> QED
        BY <3>1, <3>2, <3>3 DEF PoolIsOnDisk, PoolIsBeingSaved
    <2>6. CASE RestartInject
      <3>1. lock = NoFile /\ lock' = NoFile /\ original' = playlistDir
            /\ disk' = OnDisk([playlist |-> playlistDir, original |-> playlistDir, played |-> {}])
        BY <2>6 DEF RestartInject, Replaced, DownIsBlank
      <3>2. disk'.state = "saved" /\ disk'.data.original = original'
        BY <3>1 DEF OnDisk
      <3> QED
        BY <3>1, <3>2 DEF PoolIsOnDisk, PoolIsBeingSaved
    <2> QED
      BY <2>1, <2>2, <2>3, <2>4, <2>5, <2>6 DEF Next
  <1> QED
    BY <1>1, <1>2, TypesAndBlank, PTL DEF Spec

-----------------------------------------------------------------------------
\* What was heard in this pass is in PlayedSet.
HeardIsPlayed == \A i \in DOMAIN heard : heard[i] \in played

\* A name that a sequence without repeats lacks can be added to it.
LEMMA AddedOnce ==
    ASSUME NEW q \in Seq(Names), NEW m \in Names, NEW s, s = q \o <<m>>,
           \A i, j \in DOMAIN q : q[i] = q[j] => i = j,
           \A i \in DOMAIN q : q[i] # m
    PROVE  /\ \A i, j \in DOMAIN s : s[i] = s[j] => i = j
           /\ \A i \in DOMAIN s : s[i] = m \/ \E j \in DOMAIN q : s[i] = q[j]
  <1>1. /\ Len(q) \in Nat /\ DOMAIN q = 1 .. Len(q) /\ DOMAIN s = 1 .. Len(q) + 1
        /\ s[Len(q) + 1] = m
    OBVIOUS
  <1>2. \A i \in 1 .. Len(q) : s[i] = q[i]
    OBVIOUS
  <1>3. \A i \in DOMAIN s : i \in DOMAIN q \/ i = Len(q) + 1
    BY <1>1
  <1>4. \A i, j \in DOMAIN s : s[i] = s[j] => i = j
    <2> SUFFICES ASSUME NEW i \in DOMAIN s, NEW j \in DOMAIN s, s[i] = s[j]
                 PROVE  i = j
      OBVIOUS
    <2>1. CASE i \in DOMAIN q /\ j \in DOMAIN q
      BY <1>1, <1>2, <2>1
    <2>2. CASE i = Len(q) + 1 \/ j = Len(q) + 1
      BY <1>1, <1>2, <1>3, <2>2
    <2> QED
      BY <1>3, <2>1, <2>2
  <1>5. \A i \in DOMAIN s : s[i] = m \/ \E j \in DOMAIN q : s[i] = q[j]
    BY <1>1, <1>2, <1>3
  <1> QED
    BY <1>4, <1>5

\* Theorem: with Random and Unique no name is heard twice in a pass, whatever requests
\* come meanwhile: a pass outlives none of the steps that empty PlayedSet.
THEOREM HeardOnce == Spec => []NoRepeatInPass
  <1> DEFINE Inv == NoRepeatInPass /\ HeardIsPlayed
  <1> USE QueueAssumption
  <1>1. Init => Inv
    BY DEF Init, NoRepeatInPass, HeardIsPlayed
  <1>2. TypeOK /\ DownIsBlank /\ Inv /\ [Next]_vars => Inv'
    <2> SUFFICES ASSUME TypeOK, DownIsBlank, NoRepeatInPass, HeardIsPlayed, [Next]_vars
                 PROVE  NoRepeatInPass' /\ HeardIsPlayed'
      OBVIOUS
    <2>a. heard' = <<>> => NoRepeatInPass' /\ HeardIsPlayed'
      BY DEF NoRepeatInPass, HeardIsPlayed
    <2>b. heard' = heard /\ played' = played => NoRepeatInPass' /\ HeardIsPlayed'
      BY DEF NoRepeatInPass, HeardIsPlayed
    <2>1. CASE PopTrack
      <3> PICK r \in NextFile(insert, playlist, original, played, cfg) :
             /\ played' = r.played
             /\ heard' = IF r.isInsert THEN heard
                         ELSE IF r.file = NoFile THEN <<>>
                         ELSE (IF playlist = <<>> THEN <<>> ELSE heard)
                              \o (IF cfg.random /\ cfg.unique THEN <<Base[r.file]>> ELSE <<>>)
        BY <2>1 DEF PopTrack
      <3>1. CASE r.isInsert
        <4>1. r.played = played
          BY <3>1, NextFilePops
        <4> QED
          BY <2>b, <3>1, <4>1
      <3>2. CASE ~r.isInsert /\ r.file = NoFile
        BY <2>a, <3>2
      <3>3. CASE ~r.isInsert /\ r.file # NoFile
        <4> DEFINE kept == IF playlist = <<>> THEN <<>> ELSE heard
                   n == Base[r.file]
        <4>1. /\ kept \in Seq(Names) /\ n \in Names
              /\ \A i, j \in DOMAIN kept : kept[i] = kept[j] => i = j
              /\ \A i \in DOMAIN kept : kept[i] \in played'
              /\ n \in played'
          BY <3>3, NextFilePops DEF TypeOK, NoRepeatInPass, HeardIsPlayed
        <4>2. CASE cfg.random /\ cfg.unique
          <5>1. heard' = kept \o <<n>>
            BY <3>3, <4>2
          <5>2. \A i \in DOMAIN kept : kept[i] # n
            BY <3>3, <4>2, NextFilePops DEF HeardIsPlayed
          <5> HIDE DEF kept, n
          <5>3. /\ kept \in Seq(Names) /\ n \in Names
                /\ \A i, j \in DOMAIN kept : kept[i] = kept[j] => i = j
            BY <4>1
          <5>4. /\ \A i, j \in DOMAIN heard' : heard'[i] = heard'[j] => i = j
                /\ \A i \in DOMAIN heard' :
                       heard'[i] = n \/ \E j \in DOMAIN kept : heard'[i] = kept[j]
            <6> DEFINE s == kept \o <<n>>
            <6>1. /\ \A i, j \in DOMAIN s : s[i] = s[j] => i = j
                  /\ \A i \in DOMAIN s : s[i] = n \/ \E j \in DOMAIN kept : s[i] = kept[j]
              BY <5>2, <5>3, AddedOnce
            <6>2. heard' = s
              BY <5>1
            <6> HIDE DEF s
            <6> QED
              BY <6>1, <6>2
          <5>5. \A i \in DOMAIN heard' : heard'[i] \in played'
            BY <4>1, <5>4
          <5> QED
            BY <5>4, <5>5 DEF NoRepeatInPass, HeardIsPlayed
        <4>3. CASE ~(cfg.random /\ cfg.unique)
          <5>1. heard' = kept \o <<>>
            BY <3>3, <4>3
          <5>2. heard' = kept
            <6>1. kept \in Seq(Names)
              BY <4>1
            <6>2. \A q \in Seq(Names) : q \o <<>> = q
              OBVIOUS
            <6> HIDE DEF kept
            <6> QED
              BY <5>1, <6>1, <6>2
          <5> HIDE DEF kept
          <5> QED
            BY <4>1, <5>2 DEF NoRepeatInPass, HeardIsPlayed
        <4> QED
          BY <4>2, <4>3
      <3> QED
        BY <3>1, <3>2, <3>3
    <2>2. CASE Boot \/ SelfHeal \/ StartTrack \/ UNCHANGED vars
      BY <2>2, <2>b DEF Boot, SelfHeal, StartTrack, queues, vars
    <2>3. ASSUME NEW h \in Handlers, Request(h)
          PROVE  NoRepeatInPass' /\ HeardIsPlayed'
      <3>1. CASE HandleInject(h)
        BY <3>1, <2>a, <2>b
           DEF HandleInject, PushInsert, PushPlaylist, ReplacePlaylist, Replaced
      <3>2. CASE HandleQueueClear(h) \/ HandleQueueRemove(h)
        BY <3>2, <2>b DEF HandleQueueClear, ClearQueue, HandleQueueRemove, RemoveFromQueue
      <3>3. CASE HandleStationConfig(h) \/ RestartCurrent(h)
        BY <3>3, <2>b DEF HandleStationConfig, SetConfig, RestartCurrent, queues
      <3>4. CASE AutoLoad(h)
        BY <3>4, <2>a DEF AutoLoad
      <3> QED
        BY <2>3, <3>1, <3>2, <3>3, <3>4 DEF Request
    <2>4. ASSUME NEW h \in Handlers, Continue(h)
          PROVE  NoRepeatInPass' /\ HeardIsPlayed'
      BY <2>4, <2>a, <2>b
         DEF Continue, PushPlaylistFront, SaveBegin, SaveEnd, AutoRefillTest, AutoRefill, queues
    <2>5. CASE Crash \/ Restart \/ RestartInject
      BY <2>5, <2>a DEF Crash, Restart, RestartInject, Replaced, DownIsBlank
    <2> QED
      BY <2>1, <2>2, <2>3, <2>4, <2>5 DEF Next
  <1> QED
    BY <1>1, <1>2, TypesAndBlank, PTL DEF Spec

-----------------------------------------------------------------------------
\* A restarted file is at the head of the playlist, a cleared playlist is empty, until what
\* was promised is kept or a request revokes it.
PromiseStands ==
    /\ promise \in Files => playlist # <<>> /\ playlist[1] = promise
    /\ promise = Silent => playlist = <<>>

LEMMA PromiseHolds == Spec => []PromiseStands
  <1> USE QueueAssumption
  <1>1. Init => PromiseStands
    BY DEF Init, PromiseStands
  <1>2. TypeOK /\ DownIsBlank /\ PromiseStands /\ [Next]_vars => PromiseStands'
    <2> SUFFICES ASSUME TypeOK, DownIsBlank, PromiseStands, [Next]_vars
                 PROVE  PromiseStands'
      OBVIOUS
    <2>a. promise' = NoFile => PromiseStands'
      BY DEF PromiseStands
    <2>b. promise' = promise /\ playlist' = playlist => PromiseStands'
      BY DEF PromiseStands
    <2>1. CASE PopTrack
      <3> PICK r \in NextFile(insert, playlist, original, played, cfg) :
             /\ playlist' = r.playlist
             /\ promise' = IF r.isInsert THEN promise ELSE NoFile
        BY <2>1 DEF PopTrack
      <3>1. r.isInsert => r.playlist = playlist
        BY NextFilePops
      <3> QED
        BY <3>1, <2>a, <2>b
    <2>2. CASE Boot \/ SelfHeal \/ StartTrack \/ UNCHANGED vars
      BY <2>2, <2>a, <2>b DEF Boot, SelfHeal, StartTrack, queues, vars
    <2>3. ASSUME NEW h \in Handlers, Request(h)
          PROVE  PromiseStands'
      <3>1. ASSUME NEW files \in Batches, PushPlaylist(h, files)
            PROVE  PromiseStands'
        <4>1. /\ playlist' = playlist \o files /\ files \in Seq(Files)
              /\ playlist \in Seq(Files)
              /\ promise' = IF promise = Silent THEN NoFile ELSE promise
          BY <3>1 DEF PushPlaylist, TypeOK
        <4>2. playlist # <<>> => playlist' # <<>> /\ playlist'[1] = playlist[1]
          BY <4>1
        <4> QED
          BY <4>1, <4>2 DEF PromiseStands
      <3>2. ASSUME NEW files \in Batches,
                   PushInsert(h, files) \/ ReplacePlaylist(h, files)
            PROVE  PromiseStands'
        BY <3>2, <2>a, <2>b DEF PushInsert, ReplacePlaylist, Replaced
      <3>3. CASE HandleQueueClear(h)
        <4> PICK type \in {"insert", "playlist", "all"} : ClearQueue(h, type)
          BY <3>3 DEF HandleQueueClear
        <4>1. CASE type = "insert"
          BY <4>1, <2>b DEF ClearQueue
        <4>2. CASE type # "insert"
          BY <4>2 DEF ClearQueue, PromiseStands
        <4> QED
          BY <4>1, <4>2
      <3>4. ASSUME NEW type \in {"insert", "playlist"}, NEW f \in Files,
                   RemoveFromQueue(h, type, f)
            PROVE  PromiseStands'
        <4> DEFINE i == FirstNamed(IF type = "insert" THEN insert ELSE playlist, f)
        <4>1. /\ playlist' = IF type = "playlist" /\ i # 0 THEN RemoveAt(playlist, i) ELSE playlist
              /\ promise' = IF type = "playlist" /\ i # 0 /\ promise # Silent
                            THEN NoFile ELSE promise
          BY <3>4 DEF RemoveFromQueue
        <4>2. type = "playlist" /\ i # 0 => playlist # <<>>
          <5>1. playlist \in Seq(Files)
            BY DEF TypeOK
          <5>2. type = "playlist" /\ i # 0 => i \in DOMAIN playlist
            BY <5>1, FirstNamedType
          <5> HIDE DEF i
          <5> QED
            BY <5>1, <5>2
        <4>3. type = "playlist" /\ i # 0 => promise # Silent
          BY <4>2 DEF PromiseStands
        <4> HIDE DEF i
        <4> QED
          BY <4>1, <4>3, <2>a, <2>b
      <3>5. CASE HandleStationConfig(h) \/ RestartCurrent(h)
        BY <3>5, <2>b DEF HandleStationConfig, SetConfig, RestartCurrent, queues
      <3>6. CASE AutoLoad(h)
        BY <3>6, <2>a DEF AutoLoad
      <3> QED
        BY <2>3, <3>1, <3>2, <3>3, <3>4, <3>5, <3>6 DEF Request, HandleInject, HandleQueueRemove
    <2>4. ASSUME NEW h \in Handlers, Continue(h)
          PROVE  PromiseStands'
      <3>1. CASE PushPlaylistFront(h)
        <4>1. /\ playlist' = <<arg[h]>> \o playlist /\ promise' = arg[h]
              /\ arg[h] \in Files /\ playlist \in Seq(Files)
          BY <3>1 DEF PushPlaylistFront, DownIsBlank, TypeOK
        <4>2. playlist' # <<>> /\ playlist'[1] = arg[h]
          BY <4>1
        <4> QED
          BY <4>1, <4>2 DEF PromiseStands
      <3>2. CASE SaveBegin(h) \/ SaveEnd(h) \/ AutoRefillTest(h) \/ AutoRefill(h)
        BY <3>2, <2>a, <2>b DEF SaveBegin, SaveEnd, AutoRefillTest, AutoRefill, queues
      <3> QED
        BY <2>4, <3>1, <3>2 DEF Continue
    <2>5. CASE Crash \/ Restart \/ RestartInject
      BY <2>5, <2>a DEF Crash, Restart, RestartInject, Replaced, DownIsBlank
    <2> QED
      BY <2>1, <2>2, <2>3, <2>4, <2>5 DEF Next
  <1> QED
    BY <1>1, <1>2, TypesAndBlank, PTL DEF Spec

\* Theorem: a restarted track is what the playlist gives next, in order, whatever is pushed,
\* inserted or cleared of the insert queue between the restart and the pop.
THEOREM RestartsReplay == Spec => RestartReplaysInOrder
  <1> USE QueueAssumption
  <1>1. TypeOK /\ PromiseStands /\ [Next]_vars
        => [ PopTrack /\ insert = <<>> /\ promise \in Files \ MissingFiles /\ ~cfg.random
                => next' = promise ]_vars
    <2> SUFFICES ASSUME TypeOK, PromiseStands, PopTrack, insert = <<>>,
                        promise \in Files \ MissingFiles, ~cfg.random
                 PROVE  next' = promise
      OBVIOUS
    <2> PICK r \in NextFile(insert, playlist, original, played, cfg) : next' = ToPlay(r.file)
      BY DEF PopTrack
    <2>1. r.file = promise
      BY NextFilePops DEF PromiseStands
    <2> QED
      BY <2>1 DEF ToPlay
  <1> QED
    BY <1>1, TypesAndBlank, PromiseHolds, PTL DEF Spec, RestartReplaysInOrder

\* Theorem: a cleared playlist gives nothing while Loop is off, until a request fills it.
THEOREM ClearedIsSilent == Spec => ClearedStaysSilent
  <1> USE QueueAssumption
  <1>1. TypeOK /\ PromiseStands /\ [Next]_vars
        => [ PopTrack /\ insert = <<>> /\ promise = Silent /\ ~cfg.loop
                => next' \in {Silent, NoFile} ]_vars
    <2> SUFFICES ASSUME TypeOK, PromiseStands, PopTrack, insert = <<>>,
                        promise = Silent, ~cfg.loop
                 PROVE  next' \in {Silent, NoFile}
      OBVIOUS
    <2> PICK r \in NextFile(insert, playlist, original, played, cfg) : next' = ToPlay(r.file)
      BY DEF PopTrack
    <2>1. r.file = NoFile
      BY NextFilePops DEF PromiseStands
    <2> QED
      BY <2>1 DEF ToPlay
  <1> QED
    BY <1>1, TypesAndBlank, PromiseHolds, PTL DEF Spec, ClearedStaysSilent

-----------------------------------------------------------------------------
(***************************************************************************)
(* NextFile and the recursion of popPlaylist.                              *)
(***************************************************************************)

Fresh(pl, pd) == {i \in DOMAIN pl : Base[pl[i]] \notin pd}
Stale(pl, pd) == DOMAIN pl \ Fresh(pl, pd)

\* The played files D were dropped, then the fresh file at i was taken.
Taken(pl, pd, i, D) ==
    Picked(pl[i], FALSE, <<>>, Keep(pl, DOMAIN pl \ (D \union {i})), pd \union {Base[pl[i]]})

TakesFresh(pl, pd, r) ==
    \E i \in Fresh(pl, pd), D \in SUBSET Stale(pl, pd) : r = Taken(pl, pd, i, D)

LEMMA FreshResults ==
    ASSUME NEW pl, NEW pd, NEW r
    PROVE  /\ Fresh(pl, pd) = {} =>
                 (r \in PickFresh(pl, pd) <=>
                    r = Picked(NoFile, FALSE, <<>>, <<>>, IF pl = <<>> THEN pd ELSE {}))
           /\ Fresh(pl, pd) # {} => (r \in PickFresh(pl, pd) <=> TakesFresh(pl, pd, r))
  <1> DEFINE W == {Taken(pl, pd, i, D) : i \in Fresh(pl, pd), D \in SUBSET Stale(pl, pd)}
  <1>1. PickFresh(pl, pd) =
          IF Fresh(pl, pd) = {}
          THEN { Picked(NoFile, FALSE, <<>>, <<>>, IF pl = <<>> THEN pd ELSE {}) }
          ELSE W
    BY DEF PickFresh, Fresh, Stale, Taken
  <1>2. r \in W <=> TakesFresh(pl, pd, r)
    BY DEF TakesFresh
  <1> HIDE DEF W
  <1> QED
    BY <1>1, <1>2

\* What is fresh in the queue without its k-th file, and where it was in the queue.
LEMMA BeforeFacts ==
    ASSUME NEW pl \in Seq(Files), NEW pd, NEW k \in DOMAIN pl, Base[pl[k]] \in pd
    PROVE  LET t == RemoveAt(pl, k)
           IN  /\ t \in Seq(Files) /\ DOMAIN t = 1 .. Len(pl) - 1
               /\ \A n \in DOMAIN t : /\ Before(k, n) \in DOMAIN pl /\ Before(k, n) # k
                                      /\ t[n] = pl[Before(k, n)]
                                      /\ n \in Fresh(t, pd) <=> Before(k, n) \in Fresh(pl, pd)
               /\ \A n1, n2 \in DOMAIN t : Before(k, n1) = Before(k, n2) => n1 = n2
               /\ \A i \in DOMAIN pl : i # k => \E n \in DOMAIN t : Before(k, n) = i
  <1> DEFINE t == RemoveAt(pl, k)
  <1>1. /\ t \in Seq(Files) /\ Len(t) = Len(pl) - 1
        /\ \A n \in 1 .. Len(pl) - 1 : t[n] = IF n < k THEN pl[n] ELSE pl[n+1]
    BY RemoveAtIs
  <1>2. k \in 1 .. Len(pl) /\ Len(pl) \in Nat /\ DOMAIN pl = 1 .. Len(pl)
    OBVIOUS
  <1> HIDE DEF t
  <1>3. DOMAIN t = 1 .. Len(pl) - 1
    BY <1>1
  <1>4. \A n \in DOMAIN t : /\ Before(k, n) \in DOMAIN pl /\ Before(k, n) # k
                            /\ t[n] = pl[Before(k, n)]
    BY <1>1, <1>2, <1>3 DEF Before
  <1>5. \A n \in DOMAIN t : n \in Fresh(t, pd) <=> Before(k, n) \in Fresh(pl, pd)
    BY <1>4 DEF Fresh
  <1>6. \A n1, n2 \in DOMAIN t : Before(k, n1) = Before(k, n2) => n1 = n2
    BY <1>2, <1>3 DEF Before
  <1>7. ASSUME NEW i \in DOMAIN pl, i # k
        PROVE  \E n \in DOMAIN t : Before(k, n) = i
    <2>1. CASE i < k
      <3>1. i \in DOMAIN t /\ Before(k, i) = i
        BY <1>2, <1>3, <2>1 DEF Before
      <3> QED
        BY <3>1
    <2>2. CASE i > k
      <3>1. i - 1 \in DOMAIN t /\ Before(k, i - 1) = i
        BY <1>2, <1>3, <2>2 DEF Before
      <3> QED
        BY <3>1
    <2>3. i < k \/ i > k
      BY <1>2, <1>7
    <2> QED
      BY <2>1, <2>2, <2>3
  <1> QED
    BY <1>1, <1>3, <1>4, <1>5, <1>6, <1>7 DEF t

\* A result of the queue without a played file is one of the queue, and one that drops
\* that file among others is one of the queue without it.
LEMMA DropFirst ==
    ASSUME NEW pl \in Seq(Files), NEW pd, NEW k \in DOMAIN pl, Base[pl[k]] \in pd,
           NEW n \in DOMAIN RemoveAt(pl, k), NEW E \in SUBSET DOMAIN RemoveAt(pl, k), n \notin E,
           NEW D \in SUBSET DOMAIN pl, k \in D,
           \A j \in DOMAIN RemoveAt(pl, k) : j \in E <=> Before(k, j) \in D
    PROVE  Taken(RemoveAt(pl, k), pd, n, E) = Taken(pl, pd, Before(k, n), D)
  <1> DEFINE t == RemoveAt(pl, k)
             i == Before(k, n)
  <1>1. /\ t \in Seq(Files) /\ DOMAIN t = 1 .. Len(pl) - 1
        /\ \A j \in DOMAIN t : Before(k, j) \in DOMAIN pl
        /\ \A j1, j2 \in DOMAIN t : Before(k, j1) = Before(k, j2) => j1 = j2
        /\ t[n] = pl[i] /\ i # k
    BY BeforeFacts
  <1>2. \A j \in 1 .. Len(pl) - 1 :
            j \in DOMAIN t \ (E \union {n}) <=> Before(k, j) \in DOMAIN pl \ (D \union {i})
    BY <1>1
  <1>3. Keep(t, DOMAIN t \ (E \union {n})) = Keep(pl, DOMAIN pl \ (D \union {i}))
    <2>1. k \notin DOMAIN pl \ (D \union {i})
      OBVIOUS
    <2> HIDE DEF i
    <2> QED
      BY <1>2, <2>1, KeepRemoved
  <1> HIDE DEF t, i
  <1>4. Taken(t, pd, n, E) = Taken(pl, pd, i, D)
    BY <1>1, <1>3 DEF Taken
  <1> QED
    BY <1>4 DEF t, i

\* One call of popPlaylist under Random and Unique whose dice show i.
Branch(pl, pd, i) ==
    IF Base[pl[i]] \notin pd
    THEN { Picked(pl[i], FALSE, <<>>, RemoveAt(pl, i), pd \union {Base[pl[i]]}) }
    ELSE IF RemoveAt(pl, i) = <<>> THEN { Picked(NoFile, FALSE, <<>>, <<>>, {}) }
    ELSE PickFresh(RemoveAt(pl, i), pd)

\* PickFresh obeys the recursion: what a call returns is a result of PickFresh, ...
LEMMA BranchIsFresh ==
    ASSUME NEW pl \in Seq(Files), NEW pd, NEW k \in DOMAIN pl, NEW r \in Branch(pl, pd, k)
    PROVE  r \in PickFresh(pl, pd)
  <1> DEFINE t == RemoveAt(pl, k)
  <1>1. pl # <<>>
    OBVIOUS
  <1>2. CASE Base[pl[k]] \notin pd
    <2>1. r = Picked(pl[k], FALSE, <<>>, t, pd \union {Base[pl[k]]})
      BY <1>2 DEF Branch
    <2>2. DOMAIN pl \ ({} \union {k}) = DOMAIN pl \ {k}
      OBVIOUS
    <2>3. Keep(pl, DOMAIN pl \ ({} \union {k})) = t
      BY <2>2, KeepAllButOne
    <2>4. r = Taken(pl, pd, k, {})
      BY <2>1, <2>3 DEF Taken
    <2>5. k \in Fresh(pl, pd) /\ {} \in SUBSET Stale(pl, pd)
      BY <1>2 DEF Fresh
    <2> QED
      BY <2>4, <2>5, FreshResults DEF TakesFresh
  <1>3. CASE Base[pl[k]] \in pd
    <2>1. /\ t \in Seq(Files) /\ DOMAIN t = 1 .. Len(pl) - 1
          /\ \A n \in DOMAIN t : /\ Before(k, n) \in DOMAIN pl /\ Before(k, n) # k
                                 /\ n \in Fresh(t, pd) <=> Before(k, n) \in Fresh(pl, pd)
          /\ \A n1, n2 \in DOMAIN t : Before(k, n1) = Before(k, n2) => n1 = n2
          /\ \A i \in DOMAIN pl : i # k => \E n \in DOMAIN t : Before(k, n) = i
      BY <1>3, BeforeFacts
    <2>2. k \notin Fresh(pl, pd)
      BY <1>3 DEF Fresh
    <2>3. Fresh(t, pd) = {} <=> Fresh(pl, pd) = {}
      <3>1. Fresh(t, pd) \subseteq DOMAIN t /\ Fresh(pl, pd) \subseteq DOMAIN pl
        BY DEF Fresh
      <3> HIDE DEF t
      <3> QED
        BY <2>1, <2>2, <3>1
    <2>4. CASE t = <<>>
      <3>1. r = Picked(NoFile, FALSE, <<>>, <<>>, {})
        BY <1>3, <2>4 DEF Branch
      <3>2. Fresh(pl, pd) = {}
        <4>1. DOMAIN t = {}
          BY <2>4
        <4> HIDE DEF t
        <4> QED
          BY <2>3, <4>1 DEF Fresh
      <3> QED
        BY <1>1, <3>1, <3>2, FreshResults
    <2>5. CASE t # <<>>
      <3>1. r \in PickFresh(t, pd)
        BY <1>3, <2>5 DEF Branch
      <3>2. CASE Fresh(t, pd) = {}
        <4>1. r = Picked(NoFile, FALSE, <<>>, <<>>, {})
          <5> HIDE DEF t
          <5> QED
            BY <2>5, <3>1, <3>2, FreshResults
        <4> QED
          BY <1>1, <2>3, <3>2, <4>1, FreshResults
      <3>3. CASE Fresh(t, pd) # {}
        <4> HIDE DEF t
        <4>0. TakesFresh(t, pd, r)
          BY <3>1, <3>3, FreshResults
        <4>1. PICK n \in Fresh(t, pd), E \in SUBSET Stale(t, pd) : r = Taken(t, pd, n, E)
          BY <4>0 DEF TakesFresh
        <4> DEFINE D == {k} \union {Before(k, j) : j \in E}
        <4>2. n \in DOMAIN t /\ E \subseteq DOMAIN t /\ n \notin E
          BY DEF Fresh, Stale
        <4>3. D \in SUBSET Stale(pl, pd)
          BY <1>3, <2>1, <2>2, <4>2 DEF Stale
        <4>4. D \in SUBSET DOMAIN pl
          BY <4>3 DEF Stale
        <4>5. \A j \in DOMAIN t : j \in E <=> Before(k, j) \in D
          BY <2>1, <4>2
        <4>6. Before(k, n) \in Fresh(pl, pd)
          BY <2>1, <4>2
        <4>7. Taken(t, pd, n, E) = Taken(pl, pd, Before(k, n), D)
          <5>1. k \in D
            OBVIOUS
          <5> HIDE DEF D
          <5> QED
            BY <1>3, <4>2, <4>4, <4>5, <5>1, DropFirst DEF t
        <4> HIDE DEF D
        <4> QED
          BY <4>1, <4>3, <4>6, <4>7, FreshResults DEF TakesFresh
      <3> QED
        BY <3>2, <3>3
    <2> QED
      BY <2>4, <2>5
  <1> QED
    BY <1>2, <1>3

\* ... and each result of PickFresh is what some call returns.
LEMMA FreshIsBranch ==
    ASSUME NEW pl \in Seq(Files), pl # <<>>, NEW pd, NEW r \in PickFresh(pl, pd)
    PROVE  \E k \in DOMAIN pl : r \in Branch(pl, pd, k)
  <1>1. 1 \in DOMAIN pl
    OBVIOUS
  <1>2. CASE Fresh(pl, pd) = {}
    <2> DEFINE t == RemoveAt(pl, 1)
    <2>1. r = Picked(NoFile, FALSE, <<>>, <<>>, {})
      BY <1>2, FreshResults
    <2>2. Base[pl[1]] \in pd
      BY <1>1, <1>2 DEF Fresh
    <2>3. CASE t = <<>>
      BY <1>1, <2>1, <2>2, <2>3 DEF Branch
    <2>4. CASE t # <<>>
      <3>1. \A n \in DOMAIN t : n \notin Fresh(t, pd)
        BY <1>1, <1>2, <2>2, BeforeFacts
      <3>2. Fresh(t, pd) = {}
        BY <3>1 DEF Fresh
      <3>3. r \in PickFresh(t, pd)
        <4> HIDE DEF t
        <4> QED
          BY <2>1, <2>4, <3>2, FreshResults
      <3> QED
        BY <1>1, <2>2, <2>4, <3>3 DEF Branch
    <2> QED
      BY <2>3, <2>4
  <1>3. CASE Fresh(pl, pd) # {}
    <2>0. TakesFresh(pl, pd, r)
      BY <1>3, FreshResults
    <2>1. PICK i \in Fresh(pl, pd), D \in SUBSET Stale(pl, pd) : r = Taken(pl, pd, i, D)
      BY <2>0 DEF TakesFresh
    <2>2. i \in DOMAIN pl /\ Base[pl[i]] \notin pd
      BY DEF Fresh
    <2>3. CASE D = {}
      <3>1. DOMAIN pl \ (D \union {i}) = DOMAIN pl \ {i}
        BY <2>3
      <3>2. Keep(pl, DOMAIN pl \ (D \union {i})) = RemoveAt(pl, i)
        BY <2>2, <3>1, KeepAllButOne
      <3>3. r \in Branch(pl, pd, i)
        BY <2>1, <2>2, <3>2 DEF Taken, Branch
      <3> QED
        BY <2>2, <3>3
    <2>4. CASE D # {}
      <3>1. PICK k \in D : TRUE
        BY <2>4
      <3>2. k \in DOMAIN pl /\ Base[pl[k]] \in pd /\ k # i
        BY <2>2 DEF Stale, Fresh
      <3> DEFINE t == RemoveAt(pl, k)
      <3>3. /\ \A n \in DOMAIN t : n \in Fresh(t, pd) <=> Before(k, n) \in Fresh(pl, pd)
            /\ \A j \in DOMAIN pl : j # k => \E n \in DOMAIN t : Before(k, n) = j
        BY <3>2, BeforeFacts
      <3>4. PICK n \in DOMAIN t : Before(k, n) = i
        BY <2>2, <3>2, <3>3
      <3> HIDE DEF t
      <3> DEFINE E == {j \in DOMAIN t : Before(k, j) \in D}
      <3>5. n \in Fresh(t, pd)
        BY <3>3, <3>4
      <3>6. E \in SUBSET Stale(t, pd)
        BY <3>3 DEF Stale
      <3>7. n \notin E
        BY <3>4 DEF Stale
      <3>8. Taken(t, pd, n, E) = Taken(pl, pd, i, D)
        <4>1. D \in SUBSET DOMAIN pl /\ E \in SUBSET DOMAIN t
          BY DEF Stale
        <4>2. \A j \in DOMAIN t : j \in E <=> Before(k, j) \in D
          OBVIOUS
        <4> HIDE DEF E
        <4> QED
          BY <3>2, <3>4, <3>7, <4>1, <4>2, DropFirst DEF t
      <3>9. r \in PickFresh(t, pd)
        <4> HIDE DEF E
        <4> QED
          BY <2>1, <3>5, <3>6, <3>8, FreshResults DEF TakesFresh
      <3>10. t # <<>>
        BY <3>4
      <3>11. r \in Branch(pl, pd, k)
        BY <3>2, <3>9, <3>10 DEF Branch, t
      <3> QED
        BY <3>2, <3>11
    <2> QED
      BY <2>3, <2>4
  <1> QED
    BY <1>2, <1>3

\* popPlaylist under Random and Unique is PickFresh: PickFresh obeys popPlaylist's
\* recursion, and what obeys it is determined, by the length of the queue.
LEMMA PopPlaylistIsFresh ==
    ASSUME NEW queue \in Seq(Files), NEW pd, cfg.unique = TRUE
    PROVE  PopPlaylist(queue, pd) = PickFresh(queue, pd)
  <1> DEFINE Call(g, pl, i) ==
                 IF ~(cfg.unique /\ Base[pl[i]] \in pd)
                 THEN { Picked(pl[i], FALSE, <<>>, RemoveAt(pl, i), pd \union {Base[pl[i]]}) }
                 ELSE IF RemoveAt(pl, i) = <<>> THEN { Picked(NoFile, FALSE, <<>>, <<>>, {}) }
                 ELSE g[RemoveAt(pl, i)]
             Body(g, pl) == IF pl = <<>> THEN { Picked(NoFile, FALSE, <<>>, <<>>, pd) }
                            ELSE UNION { Call(g, pl, i) : i \in DOMAIN pl }
             Pop == CHOOSE g : g = [pl \in Seq(Files) |-> Body(g, pl)]
             G == [pl \in Seq(Files) |-> PickFresh(pl, pd)]
  <1>1. PopPlaylist(queue, pd) = Pop[queue]
    BY DEF PopPlaylist
  <1>2. ASSUME NEW g, NEW pl \in Seq(Files),
               \A q \in Seq(Files) : Len(q) < Len(pl) => g[q] = PickFresh(q, pd)
        PROVE  Body(g, pl) = PickFresh(pl, pd)
    <2>1. CASE pl = <<>>
      <3>1. Body(g, pl) = { Picked(NoFile, FALSE, <<>>, <<>>, pd) }
        BY <2>1
      <3>2. Fresh(pl, pd) = {}
        BY <2>1 DEF Fresh
      <3>3. PickFresh(pl, pd) = { Picked(NoFile, FALSE, <<>>, <<>>, pd) }
        BY <2>1, <3>2 DEF PickFresh, Fresh
      <3> QED
        BY <3>1, <3>3
    <2>2. CASE pl # <<>>
      <3>1. ASSUME NEW i \in DOMAIN pl
            PROVE  Call(g, pl, i) = Branch(pl, pd, i)
        <4>1. RemoveAt(pl, i) \in Seq(Files) /\ Len(RemoveAt(pl, i)) = Len(pl) - 1
          BY RemoveAtIs
        <4>2. g[RemoveAt(pl, i)] = PickFresh(RemoveAt(pl, i), pd)
          BY <1>2, <4>1
        <4> QED
          BY <4>2 DEF Branch
      <3>2. \A r : r \in PickFresh(pl, pd) <=> \E i \in DOMAIN pl : r \in Branch(pl, pd, i)
        BY <2>2, BranchIsFresh, FreshIsBranch
      <3>3. Body(g, pl) = UNION { Call(g, pl, i) : i \in DOMAIN pl }
        BY <2>2
      <3> HIDE DEF Call, Body
      <3>4. \A r : r \in Body(g, pl) <=> \E i \in DOMAIN pl : r \in Branch(pl, pd, i)
        BY <3>1, <3>3
      <3> QED
        BY <3>2, <3>4
    <2> QED
      BY <2>1, <2>2
  <1>3. G = [pl \in Seq(Files) |-> Body(G, pl)]
    <2>1. \A pl \in Seq(Files) : G[pl] = PickFresh(pl, pd)
      OBVIOUS
    <2>2. G = [pl \in Seq(Files) |-> G[pl]]
      OBVIOUS
    <2>3. \A pl \in Seq(Files) : G[pl] = Body(G, pl)
      <3> HIDE DEF G, Body
      <3> QED
        BY <1>2, <2>1
    <2> HIDE DEF G, Body
    <2> QED
      BY <2>2, <2>3
  <1>4. Pop = [pl \in Seq(Files) |-> Body(Pop, pl)]
    <2>1. \E g : g = [pl \in Seq(Files) |-> Body(g, pl)]
      <3> HIDE DEF G, Body
      <3> QED
        BY <1>3
    <2> HIDE DEF Body
    <2> QED
      BY <2>1
  <1>5. \A pl \in Seq(Files) : Pop[pl] = Body(Pop, pl)
    <2> HIDE DEF Pop, Body
    <2> QED
      BY <1>4
  <1> HIDE DEF G, Body, Pop
  <1> DEFINE T == {Len(q) : q \in {p \in Seq(Files) : Pop[p] # PickFresh(p, pd)}}
  <1>6. T = {}
    <2> SUFFICES ASSUME T # {}
                 PROVE  FALSE
      OBVIOUS
    <2>1. T \subseteq Nat
      OBVIOUS
    <2> PICK y \in T : \A z \in T : y <= z
      BY <2>1, LeastNatural
    <2>2. PICK q \in Seq(Files) : Pop[q] # PickFresh(q, pd) /\ y = Len(q)
      OBVIOUS
    <2>3. \A p \in Seq(Files) : Len(p) < Len(q) => Pop[p] = PickFresh(p, pd)
      <3> SUFFICES ASSUME NEW p \in Seq(Files), Len(p) < Len(q), Pop[p] # PickFresh(p, pd)
                   PROVE  FALSE
        OBVIOUS
      <3>1. Len(p) \in T
        OBVIOUS
      <3>2. y <= Len(p) /\ Len(p) \in Nat /\ Len(q) \in Nat
        BY <3>1
      <3> HIDE DEF T
      <3> QED
        BY <2>2, <3>2
    <2>4. Pop[q] = PickFresh(q, pd)
      BY <1>2, <1>5, <2>3
    <2> QED
      BY <2>2, <2>4
  <1>7. Pop[queue] = PickFresh(queue, pd)
    BY <1>6
  <1> QED
    BY <1>1, <1>7

LEMMA PlaylistHalf ==
    ASSUME NEW pl \in Seq(Files), NEW pd, cfg.unique \in BOOLEAN, cfg.random \in BOOLEAN
    PROVE  NextFromPlaylist(pl, pd) =
             IF cfg.unique /\ cfg.random THEN PickFresh(pl, pd) ELSE PickAny(pl, pd, cfg.random)
  <1> DEFINE Try(i) == IF cfg.unique /\ cfg.random /\ Base[pl[i]] \in pd
                       THEN PopPlaylist(RemoveAt(pl, i), IF RemoveAt(pl, i) = <<>> THEN {} ELSE pd)
                       ELSE { Picked(pl[i], FALSE, <<>>, RemoveAt(pl, i), pd \union {Base[pl[i]]}) }
             Dice == IF cfg.random THEN DOMAIN pl ELSE {1}
  <1>1. NextFromPlaylist(pl, pd) =
          IF pl = <<>> THEN { Picked(NoFile, FALSE, <<>>, pl, pd) }
          ELSE UNION { Try(i) : i \in Dice }
    BY DEF NextFromPlaylist
  <1>2. \A q : Fresh(<<>>, q) = {}
    BY DEF Fresh
  <1>3. \A q : PickFresh(<<>>, q) = { Picked(NoFile, FALSE, <<>>, <<>>, q) }
    BY <1>2 DEF PickFresh, Fresh
  <1>4. CASE pl = <<>>
    BY <1>1, <1>3, <1>4 DEF PickAny
  <1>5. CASE pl # <<>> /\ cfg.unique /\ cfg.random
    <2>1. ASSUME NEW i \in DOMAIN pl
          PROVE  Try(i) = Branch(pl, pd, i)
      <3>1. RemoveAt(pl, i) \in Seq(Files)
        BY RemoveAtIs
      <3>2. \A q : PopPlaylist(RemoveAt(pl, i), q) = PickFresh(RemoveAt(pl, i), q)
        BY <1>5, <3>1, PopPlaylistIsFresh
      <3>3. CASE RemoveAt(pl, i) = <<>>
        BY <1>3, <1>5, <3>2, <3>3 DEF Branch
      <3>4. CASE RemoveAt(pl, i) # <<>>
        BY <1>5, <3>2, <3>4 DEF Branch
      <3> QED
        BY <3>3, <3>4
    <2>2. Dice = DOMAIN pl
      BY <1>5
    <2>3. \A r : r \in PickFresh(pl, pd) <=> \E i \in DOMAIN pl : r \in Branch(pl, pd, i)
      BY <1>5, BranchIsFresh, FreshIsBranch
    <2> HIDE DEF Try, Dice
    <2>4. \A r : r \in NextFromPlaylist(pl, pd) <=> \E i \in DOMAIN pl : r \in Branch(pl, pd, i)
      BY <1>1, <1>5, <2>1, <2>2
    <2>5. NextFromPlaylist(pl, pd) = PickFresh(pl, pd)
      BY <2>3, <2>4
    <2> QED
      BY <1>5, <2>5
  <1>6. CASE pl # <<>> /\ ~(cfg.unique /\ cfg.random)
    <2> DEFINE One(i) == Picked(pl[i], FALSE, <<>>, RemoveAt(pl, i), pd \union {Base[pl[i]]})
    <2>1. \A i : Try(i) = {One(i)}
      BY <1>6
    <2>2. PickAny(pl, pd, cfg.random) = { One(i) : i \in Dice }
      BY <1>6 DEF PickAny
    <2> HIDE DEF Try, Dice, One
    <2>3. UNION { Try(i) : i \in Dice } = { One(i) : i \in Dice }
      BY <2>1
    <2> QED
      BY <1>1, <1>6, <2>2, <2>3
  <1> QED
    BY <1>4, <1>5, <1>6

\* Theorem: in every state, for queues and pools of any length, what NextFile can return
\* and the queues it leaves are those of the code's recursion.
THEOREM NextFileRecurses == Spec => []NextFileIsRecursion
  <1>1. TypeOK => NextFileIsRecursion
    <2> SUFFICES ASSUME TypeOK, insert = <<>>
                 PROVE  NextFile(insert, playlist, original, played, cfg) =
                          IF playlist = <<>> /\ cfg.loop /\ original # <<>>
                          THEN NextFromPlaylist(original, {})
                          ELSE NextFromPlaylist(playlist, played)
      BY DEF NextFileIsRecursion
    <2>1. /\ playlist \in Seq(Files) /\ original \in Seq(Files)
          /\ cfg.unique \in BOOLEAN /\ cfg.random \in BOOLEAN
      BY QueueAssumption DEF TypeOK
    <2> DEFINE Next1(pl, pd) == IF cfg.unique /\ cfg.random THEN PickFresh(pl, pd)
                                ELSE PickAny(pl, pd, cfg.random)
    <2>2. NextFromPlaylist(original, {}) = Next1(original, {})
          /\ NextFromPlaylist(playlist, played) = Next1(playlist, played)
      BY <2>1, PlaylistHalf
    <2>3. CASE playlist = <<>> /\ cfg.loop /\ original # <<>>
      BY <2>2, <2>3 DEF NextFile
    <2>4. CASE ~(playlist = <<>> /\ cfg.loop /\ original # <<>>)
      BY <2>2, <2>4 DEF NextFile
    <2> QED
      BY <2>3, <2>4
  <1> QED
    BY <1>1, TypeCorrect, PTL
=============================================================================

----------------------- MODULE ManualPlaylistProofs -----------------------
(***************************************************************************)
(* Theorems about ManualPlaylist, for any number of slots, starts and raw  *)
(* files.                                                                  *)
(***************************************************************************)
EXTENDS ManualPlaylist, WellFoundedInduction, FiniteSetTheorems, TLAPS

\* A bounded set of integers has a greatest element, which Max gives.
LEMMA BoundedHasMax ==
    ASSUME NEW k \in Int, NEW S, S \subseteq -1 .. k, S # {}
    PROVE  Max(S) \in S /\ \A x \in S : x <= Max(S)
  <1> DEFINE R == {p \in Nat \X Nat : p[1] < p[2]}
             T == {k - x : x \in S}
  <1>1. \A x \in S : x \in Int /\ x <= k
    OBVIOUS
  <1>2. T \subseteq Nat
    BY <1>1
  <1>3. T # {}
    OBVIOUS
  <1>4. IsWellFoundedOn(R, Nat)
    BY NatLessThanWellFounded DEF OpToRel
  <1>5. PICK y \in T : \A z \in T : <<z, y>> \notin R
    <2> HIDE DEF R, T
    <2> QED
      BY <1>2, <1>3, <1>4, WFMin
  <1>6. \A z \in T : z >= y
    <2> SUFFICES ASSUME NEW z \in T
                 PROVE  z >= y
      OBVIOUS
    <2>1. z \in Nat /\ y \in Nat
      BY <1>2
    <2>2. <<z, y>> \notin R
      BY <1>5
    <2> HIDE DEF T
    <2> QED
      BY <2>1, <2>2
  <1>7. PICK m \in S : y = k - m
    OBVIOUS
  <1>8. \A x \in S : k - x >= k - m
    BY <1>6, <1>7
  <1>9. \A x \in S : m >= x
    BY <1>1, <1>8
  <1> QED
    BY <1>9 DEF Max

-----------------------------------------------------------------------------
\* A segment on disk is one that ffmpeg has begun.
BegunOnly ==
    /\ \A i \in Indices : raw[i] <= base + pos + 1
    /\ \A i \in SlotIds : slot[i] <= base + pos + 1

LEMMA TopIsPresent ==
    ASSUME TypeOK
    PROVE  LET top1 == Max(Present(raw) \union {-1})
           IN  top1 \in Present(raw) \union {-1} /\ top1 \in -1 .. MaxIndex
  <1>1. Present(raw) \union {-1} \subseteq -1 .. MaxIndex
    BY PlaylistAssumption DEF TypeOK, Present, Indices
  <1>2. MaxIndex \in Int /\ Present(raw) \union {-1} # {}
    BY PlaylistAssumption
  <1>3. Max(Present(raw) \union {-1}) \in Present(raw) \union {-1}
    BY <1>1, <1>2, BoundedHasMax
  <1> QED
    BY <1>1, <1>3

\* What a promotion leaves in a slot was there or was one of the files it moved.
LEMMA MovedFrom ==
    ASSUME TypeOK, NEW P \in SUBSET Indices, NEW s \in Moved(P)
    PROVE  /\ s \in [SlotIds -> Nat]
           /\ \A i \in SlotIds : s[i] = slot[i] \/ \E p \in P : p % Slots = i /\ s[i] = raw[p]
  <1> PICK L \in SUBSET P :
         s = [i \in SlotIds |-> LET mine == {p \in L : p % Slots = i}
                                IN  IF mine = {} THEN slot[i]
                                    ELSE raw[CHOOSE p \in mine : TRUE]]
    BY DEF Moved
  <1>1. ASSUME NEW i \in SlotIds
        PROVE  s[i] = slot[i] \/ \E p \in P : p % Slots = i /\ s[i] = raw[p]
    <2> DEFINE mine == {p \in L : p % Slots = i}
    <2>1. CASE mine = {}
      BY <2>1
    <2>2. CASE mine # {}
      <3>1. (CHOOSE p \in mine : TRUE) \in mine
        BY <2>2
      <3> QED
        BY <2>2, <3>1
    <2> QED
      BY <2>1, <2>2
  <1>2. DOMAIN s = SlotIds /\ s = [i \in SlotIds |-> s[i]]
    OBVIOUS
  <1>3. \A i \in SlotIds : s[i] \in Nat
    BY <1>1 DEF TypeOK
  <1> QED
    BY <1>1, <1>2, <1>3

\* A promotion moves files that are there, older than the newest it saw.
LEMMA PromoteMoves ==
    ASSUME TypeOK, NEW m \in Managers, Promote(m)
    PROVE  \E P \in SUBSET Indices :
               /\ slot' \in Moved(P)
               /\ raw' = [i \in Indices |-> IF i \in P THEN 0 ELSE raw[i]]
               /\ \A p \in P : raw[p] # 0 /\ p < top'[m]
  <1> PICK young \in SUBSET {pos} :
         LET P == {i \in Present(raw) : i < top'[m]}
                     \ (young \union IF settled THEN {} ELSE {pos - 1})
         IN  /\ slot' \in Moved(P)
             /\ raw' = [i \in Indices |-> IF i \in P THEN 0 ELSE raw[i]]
    BY DEF Promote
  <1> DEFINE P == {i \in Present(raw) : i < top'[m]}
                     \ (young \union IF settled THEN {} ELSE {pos - 1})
  <1>1. P \in SUBSET Indices /\ \A p \in P : raw[p] # 0 /\ p < top'[m]
    BY DEF Present, TypeOK
  <1>2. /\ slot' \in Moved(P)
        /\ raw' = [i \in Indices |-> IF i \in P THEN 0 ELSE raw[i]]
    OBVIOUS
  <1> HIDE DEF P
  <1> QED
    BY <1>1, <1>2

LEMMA NewestIsSlot ==
    ASSUME TypeOK, BegunOnly
    PROVE  Newest \in SlotIds /\ \A j \in SlotIds : slot[j] <= slot[Newest]
  <1> DEFINE S == {slot[i] : i \in SlotIds}
             k == base + pos + 1
  <1>1. k \in Int /\ \A i \in SlotIds : slot[i] \in Nat /\ slot[i] <= k
    BY PlaylistAssumption DEF TypeOK, BegunOnly
  <1>2. S \subseteq -1 .. k
    BY <1>1
  <1>3. 0 \in SlotIds
    BY PlaylistAssumption DEF SlotIds
  <1>4. S # {}
    BY <1>3
  <1>5. Max(S) \in S /\ \A x \in S : x <= Max(S)
    <2> HIDE DEF S, k
    <2> QED
      BY <1>1, <1>2, <1>4, BoundedHasMax
  <1>6. \E i \in SlotIds : \A j \in SlotIds : slot[j] <= slot[i]
    <2> HIDE DEF k
    <2> QED
      BY <1>5
  <1> QED
    BY <1>6 DEF Newest

\* A list has as many segments as slots are known, each out of a slot.
LEMMA ListOfTypes ==
    ASSUME TypeOK, BegunOnly, NEW n \in 0 .. Slots, NEW t \in -1 .. MaxIndex
    PROVE  /\ ListOf(n, t).seq \in Nat
           /\ ListOf(n, t).base = base
           /\ ListOf(n, t).segs \in Seq(Nat) /\ Len(ListOf(n, t).segs) = n
           /\ \A i \in 1 .. n : \E j \in SlotIds : ListOf(n, t).segs[i] = slot[j]
  <1>1. \A i \in 1 .. n : (Newest - n + i + Slots) % Slots \in SlotIds
    BY NewestIsSlot, PlaylistAssumption DEF SlotIds
  <1>2. \A i \in 1 .. n : slot[(Newest - n + i + Slots) % Slots] \in Nat
    BY <1>1 DEF TypeOK
  <1>3. Max({0, t - n + 1}) \in {0, t - n + 1} /\ 0 <= Max({0, t - n + 1})
    <2>1. {0, t - n + 1} \subseteq -1 .. MaxIndex + 1 \/ t - n + 1 < -1
      BY PlaylistAssumption
    <2>2. CASE t - n + 1 >= 0
      BY <2>2, PlaylistAssumption DEF Max
    <2>3. CASE t - n + 1 < 0
      BY <2>3, PlaylistAssumption DEF Max
    <2> QED
      BY <2>2, <2>3, PlaylistAssumption
  <1>4. Max({0, t - n + 1}) \in Nat
    BY <1>3, PlaylistAssumption
  <1>5. [i \in 1 .. n |-> slot[(Newest - n + i + Slots) % Slots]] \in Seq(Nat)
    BY <1>2
  <1> QED
    BY <1>1, <1>4, <1>5, PlaylistAssumption DEF ListOf

LEMMA TypesAndBegun == Spec => [](TypeOK /\ BegunOnly)
  <1> DEFINE Inv == TypeOK /\ BegunOnly
  <1>1. Init => Inv
    <2> SUFFICES ASSUME Init
                 PROVE  Inv
      OBVIOUS
    <2>1. gen \in 0 .. MaxStarts /\ base \in Nat /\ pos \in -1 .. MaxIndex
      BY PlaylistAssumption DEF Init
    <2>2. raw \in [Indices -> Nat] /\ slot \in [SlotIds -> Nat]
      BY DEF Init, NoRaw
    <2>3. top \in [Managers -> -1 .. MaxIndex]
      BY PlaylistAssumption DEF Init
    <2>4. playlist.seq \in Nat /\ playlist.base \in Nat /\ playlist.segs \in Seq(Nat)
          /\ Len(playlist.segs) <= Slots
      BY PlaylistAssumption DEF Init, NoList
    <2>5. BegunOnly
      BY DEF Init, NoRaw, BegunOnly
    <2> QED
      BY <2>1, <2>2, <2>3, <2>4, <2>5 DEF Init, TypeOK
  <1>2. Inv /\ [Next]_vars => Inv'
    <2> SUFFICES ASSUME TypeOK, BegunOnly, [Next]_vars
                 PROVE  TypeOK' /\ BegunOnly'
      OBVIOUS
    <2> USE PlaylistAssumption DEF ffmpeg, disk
    <2>1. CASE StartEngine
      <3>1. gen' \in 0 .. MaxStarts /\ base' \in Nat /\ pos' \in -1 .. MaxIndex
            /\ base' + pos' + 1 = base + pos + 1
        BY <2>1 DEF StartEngine, TypeOK
      <3> QED
        BY <2>1, <3>1 DEF StartEngine, TypeOK, BegunOnly
    <2>2. CASE StopEngine
      BY <2>2 DEF StopEngine, TypeOK, BegunOnly
    <2>3. CASE NextSegment
      <3>1. pos' \in -1 .. MaxIndex /\ base + pos + 2 \in Nat /\ pos + 1 \in Indices
        BY <2>3 DEF NextSegment, TypeOK, Indices
      <3>2. raw' \in [Indices -> Nat]
        BY <2>3, <3>1 DEF NextSegment, TypeOK
      <3>3. \A i \in Indices : raw'[i] <= base' + pos' + 1
        BY <2>3, <3>1 DEF NextSegment, TypeOK, BegunOnly
      <3>4. \A i \in SlotIds : slot'[i] <= base' + pos' + 1
        BY <2>3, <3>1 DEF NextSegment, TypeOK, BegunOnly
      <3> QED
        BY <2>3, <3>1, <3>2, <3>3, <3>4 DEF NextSegment, TypeOK, BegunOnly
    <2>4. CASE Settle
      BY <2>4 DEF Settle, TypeOK, BegunOnly
    <2>5. ASSUME NEW m \in Managers, Clean(m)
          PROVE  TypeOK' /\ BegunOnly'
      <3>1. raw' \in [Indices -> Nat] /\ \A i \in Indices : raw'[i] = 0
        BY <2>5 DEF Clean, NoRaw
      <3>2. Present(slot) \subseteq SlotIds
        BY DEF Present, TypeOK
      <3>3. base + pos + 1 >= 0
        BY DEF TypeOK
      <3> QED
        BY <2>5, <3>1, <3>2, <3>3 DEF Clean, TypeOK, BegunOnly
    <2>6. ASSUME NEW m \in Managers, Exit(m)
          PROVE  TypeOK' /\ BegunOnly'
      BY <2>6 DEF Exit, TypeOK, BegunOnly
    <2>7. ASSUME NEW m \in Managers, Promote(m)
          PROVE  TypeOK' /\ BegunOnly'
      <3> PICK P \in SUBSET Indices :
             /\ slot' \in Moved(P)
             /\ raw' = [i \in Indices |-> IF i \in P THEN 0 ELSE raw[i]]
        BY <2>7, PromoteMoves
      <3>1. slot' \in [SlotIds -> Nat]
        BY MovedFrom
      <3>2. \A i \in SlotIds : slot'[i] = slot[i] \/ \E p \in P : slot'[i] = raw[p]
        BY MovedFrom
      <3>3. raw' \in [Indices -> Nat] /\ \A i \in Indices : raw'[i] = raw[i] \/ raw'[i] = 0
        BY DEF TypeOK
      <3>4. top' \in [Managers -> -1 .. MaxIndex]
        BY <2>7, TopIsPresent DEF Promote, TypeOK
      <3>5. base + pos + 1 >= 0
        BY DEF TypeOK
      <3>6. BegunOnly'
        BY <2>7, <3>2, <3>3, <3>5 DEF Promote, BegunOnly
      <3> QED
        BY <2>7, <3>1, <3>3, <3>4, <3>6 DEF Promote, TypeOK
    <2>8. ASSUME NEW m \in Managers, Publish(m)
          PROVE  TypeOK' /\ BegunOnly'
      <3>1. known' \in [Managers -> SUBSET SlotIds]
        BY <2>8 DEF Publish, TypeOK, Present
      <3>2. Cardinality(known'[m]) \in 0 .. Slots
        <4>1. IsFiniteSet(SlotIds) /\ Cardinality(SlotIds) = Slots
          BY FS_Interval DEF SlotIds
        <4>2. known'[m] \subseteq SlotIds
          BY <3>1
        <4>3. Cardinality(known'[m]) \in Nat /\ Cardinality(known'[m]) <= Slots
          BY <4>1, <4>2, FS_Subset, FS_CardinalityType
        <4> QED
          BY <4>3
      <3>3. top[m] \in -1 .. MaxIndex
        BY DEF TypeOK
      <3>4. /\ playlist'.seq \in Nat /\ playlist'.base \in Nat
            /\ playlist'.segs \in Seq(Nat) /\ Len(playlist'.segs) <= Slots
        <4>1. CASE playlist' = playlist
          BY <4>1 DEF TypeOK
        <4>2. CASE playlist' = ListOf(Cardinality(known'[m]), top[m])
          <5> DEFINE n == Cardinality(known'[m])
                     t == top[m]
          <5>1. n \in 0 .. Slots /\ t \in -1 .. MaxIndex /\ playlist' = ListOf(n, t)
            BY <3>2, <3>3, <4>2
          <5>2. base \in Nat
            BY DEF TypeOK
          <5> HIDE DEF n, t
          <5>3. /\ ListOf(n, t).seq \in Nat /\ ListOf(n, t).base = base
                /\ ListOf(n, t).segs \in Seq(Nat) /\ Len(ListOf(n, t).segs) = n
            BY <5>1, ListOfTypes
          <5> QED
            BY <5>1, <5>2, <5>3
        <4> QED
          BY <2>8, <4>1, <4>2 DEF Publish
      <3> QED
        BY <2>8, <3>1, <3>4 DEF Publish, TypeOK, BegunOnly
    <2>9. CASE UNCHANGED vars
      BY <2>9 DEF vars, TypeOK, BegunOnly
    <2> QED
      BY <2>1, <2>2, <2>3, <2>4, <2>5, <2>6, <2>7, <2>8, <2>9 DEF Next
  <1> QED
    BY <1>1, <1>2, PTL DEF Spec

\* Every variable keeps its type; the list is never longer than there are slots, as a slot
\* is counted once however often it is written.
THEOREM TypeCorrect == Spec => []TypeOK
  BY TypesAndBegun, PTL

-----------------------------------------------------------------------------
LEMMA EntriesAreNat ==
    ASSUME NEW s \in Seq(Nat)
    PROVE  \A i \in 1 .. Len(s) : s[i] \in Nat
  OBVIOUS

\* Before the first restart that left segments, a segment is one more than its index, and
\* what is in a slot is finished.
FirstStart ==
    base = 0 =>
        /\ \A i \in Indices : raw[i] # 0 => raw[i] = i + 1 /\ i <= pos
        /\ \A i \in SlotIds : slot[i] # 0 => slot[i] <= pos

\* Theorem: no segment that ffmpeg still writes is listed, for any number of slots and
\* goroutines: a promotion moves what is older than the newest raw file only.
THEOREM ListedIsFinished == Spec => []NoUnfinishedSegment
  <1> DEFINE Inv == NoUnfinishedSegment /\ FirstStart
  <1>1. Init => Inv
    BY DEF Init, NoRaw, NoList, FirstStart, NoUnfinishedSegment
  <1>2. TypeOK /\ BegunOnly /\ TypeOK' /\ Inv /\ [Next]_vars => Inv'
    <2> SUFFICES ASSUME TypeOK, BegunOnly, TypeOK', NoUnfinishedSegment, FirstStart, [Next]_vars
                 PROVE  NoUnfinishedSegment' /\ FirstStart'
      OBVIOUS
    <2> USE PlaylistAssumption DEF ffmpeg, disk, NoUnfinishedSegment, FirstStart
    <2>1. CASE StartEngine
      <3>1. base' = 0 => base = 0 /\ pos = -1 /\ pos' = pos
        BY <2>1 DEF StartEngine, TypeOK
      <3> QED
        BY <2>1, <3>1 DEF StartEngine
    <2>2. CASE NextSegment
      <3>1. pos' = pos + 1 /\ pos \in Int /\ pos + 1 \in Indices /\ base' = base
        BY <2>2 DEF NextSegment, TypeOK, Indices
      <3>2. \A i \in Indices : i \in Int
        BY DEF Indices
      <3>3. base = 0 => \A i \in Indices : raw'[i] # 0 => raw'[i] = i + 1 /\ i <= pos'
        BY <2>2, <3>1, <3>2 DEF NextSegment, TypeOK
      <3>4. base = 0 => \A i \in SlotIds : slot'[i] # 0 => slot'[i] <= pos'
        BY <2>2, <3>1 DEF NextSegment, TypeOK
      <3>5. \A i \in 1 .. Len(playlist.segs) : playlist.segs[i] \in Nat
        <4>1. playlist.segs \in Seq(Nat)
          BY DEF TypeOK
        <4> QED
          BY ONLY <4>1, EntriesAreNat
      <3>6. NoUnfinishedSegment'
        BY <2>2, <3>1, <3>5 DEF NextSegment
      <3> QED
        BY <3>1, <3>3, <3>4, <3>6
    <2>3. CASE StopEngine \/ Settle
      BY <2>3 DEF StopEngine, Settle
    <2>4. ASSUME NEW m \in Managers, Clean(m)
          PROVE  NoUnfinishedSegment' /\ FirstStart'
      BY <2>4 DEF Clean, NoRaw
    <2>5. ASSUME NEW m \in Managers, Exit(m)
          PROVE  NoUnfinishedSegment' /\ FirstStart'
      BY <2>5 DEF Exit
    <2>6. ASSUME NEW m \in Managers, Promote(m)
          PROVE  NoUnfinishedSegment' /\ FirstStart'
      <3> PICK P \in SUBSET Indices :
             /\ slot' \in Moved(P)
             /\ raw' = [i \in Indices |-> IF i \in P THEN 0 ELSE raw[i]]
             /\ \A p \in P : raw[p] # 0 /\ p < top'[m]
        BY <2>6, PromoteMoves
      <3>1. \A i \in SlotIds : slot'[i] = slot[i] \/ \E p \in P : slot'[i] = raw[p]
        BY MovedFrom
      <3>2. top'[m] \in Present(raw) \union {-1} /\ top'[m] \in -1 .. MaxIndex
        BY <2>6, TopIsPresent DEF Promote, TypeOK
      <3>3. base = 0 => top'[m] <= pos
        BY <3>2 DEF Present, TypeOK
      <3>4. \A p \in P : p \in Int
        BY DEF Indices
      <3>5. base = 0 => \A p \in P : raw[p] <= pos
        BY <3>2, <3>3, <3>4 DEF TypeOK
      <3>6. UNCHANGED <<base, pos, playlist>>
        BY <2>6 DEF Promote
      <3>7. base = 0 => \A i \in SlotIds : slot'[i] # 0 => slot'[i] <= pos
        BY <3>1, <3>5
      <3> QED
        BY <3>6, <3>7
    <2>7. ASSUME NEW m \in Managers, Publish(m)
          PROVE  NoUnfinishedSegment' /\ FirstStart'
      <3> DEFINE n == Cardinality(known'[m])
                 t == top[m]
      <3>1. UNCHANGED <<base, pos, raw, slot>>
        BY <2>7 DEF Publish
      <3>2. CASE playlist' = playlist
        BY <3>1, <3>2
      <3>3. CASE playlist' = ListOf(n, t) /\ Present(slot) # {}
        <4>1. known'[m] \subseteq SlotIds
          BY DEF TypeOK
        <4>2. IsFiniteSet(SlotIds) /\ Cardinality(SlotIds) = Slots
          BY FS_Interval DEF SlotIds
        <4>3. n \in 0 .. Slots
          <5>1. n \in Nat /\ n <= Slots
            BY <4>1, <4>2, FS_Subset, FS_CardinalityType
          <5> QED
            BY <5>1
        <4>4. t \in -1 .. MaxIndex
          BY DEF TypeOK
        <4> HIDE DEF n, t
        <4>5. /\ Len(ListOf(n, t).segs) = n
              /\ \A i \in 1 .. n : \E j \in SlotIds : ListOf(n, t).segs[i] = slot[j]
          BY <4>3, <4>4, ListOfTypes
        <4>6. base = 0 => pos >= 0
          BY <3>3 DEF Present, TypeOK
        <4>7. base = 0 => \A j \in SlotIds : slot[j] <= pos
          BY <4>6 DEF TypeOK
        <4>8. base = 0 => \A i \in 1 .. Len(playlist'.segs) : playlist'.segs[i] <= pos
          BY <3>3, <4>5, <4>7
        <4> QED
          BY <3>1, <4>8
      <3> QED
        BY <2>7, <3>2, <3>3 DEF Publish
    <2>8. CASE UNCHANGED vars
      BY <2>8 DEF vars
    <2> QED
      BY <2>1, <2>2, <2>3, <2>4, <2>5, <2>6, <2>7, <2>8 DEF Next
  <1> QED
    BY <1>1, <1>2, TypesAndBegun, PTL DEF Spec
-----------------------------------------------------------------------------
(***************************************************************************)
(* Remainders.  The solver knows a % n as what n leaves of a, and little   *)
(* about products; what the slots need follows from the quotient.          *)
(***************************************************************************)

LEMMA Quotient ==
    ASSUME NEW n \in Nat \ {0}, NEW a \in Int
    PROVE  \E q \in Int, r \in 0 .. n - 1 : a = n * q + r /\ r = a % n
  <1>1. (a \div n) \in Int /\ a = n * (a \div n) + (a % n) /\ (a % n) \in 0 .. n - 1
    OBVIOUS
  <1> QED
    BY <1>1

LEMMA SmallMultiple ==
    ASSUME NEW n \in Nat \ {0}, NEW d \in Int, n * d < n, n * d > 0 - n
    PROVE  d = 0
  <1>1. CASE d >= 1
    BY <1>1
  <1>2. CASE d <= -1
    <2>1. n * d <= 0 - n
      BY <1>2
    <2> QED
      BY <2>1
  <1> QED
    BY <1>1, <1>2

LEMMA RemainderIs ==
    ASSUME NEW n \in Nat \ {0}, NEW q \in Int, NEW r \in 0 .. n - 1
    PROVE  (n * q + r) % n = r
  <1> DEFINE a == n * q + r
  <1>1. PICK p \in Int, t \in 0 .. n - 1 : a = n * p + t /\ t = a % n
    <2>1. a \in Int
      OBVIOUS
    <2> HIDE DEF a
    <2> QED
      BY <2>1, Quotient
  <1>2. n * (q - p) = t - r
    BY <1>1
  <1>3. q - p = 0
    <2>1. q - p \in Int /\ t - r < n /\ t - r > 0 - n
      OBVIOUS
    <2> QED
      BY <1>2, <2>1, SmallMultiple
  <1> QED
    BY <1>1, <1>2, <1>3

LEMMA RemainderOnce ==
    ASSUME NEW n \in Nat \ {0}, NEW a \in Int
    PROVE  (a + n) % n = a % n
  <1>1. PICK q \in Int, r \in 0 .. n - 1 : a = n * q + r /\ r = a % n
    BY Quotient
  <1>2. a + n = n * (q + 1) + r /\ q + 1 \in Int
    BY <1>1
  <1> QED
    BY <1>1, <1>2, RemainderIs

LEMMA RemainderSum ==
    ASSUME NEW n \in Nat \ {0}, NEW a \in Int, NEW b \in Int
    PROVE  ((a % n) + b) % n = (a + b) % n
  <1>1. PICK q \in Int, r \in 0 .. n - 1 : a = n * q + r /\ r = a % n
    BY Quotient
  <1> DEFINE c == r + b
  <1>2. PICK p \in Int, t \in 0 .. n - 1 : c = n * p + t /\ t = c % n
    <2>1. c \in Int
      OBVIOUS
    <2> HIDE DEF c
    <2> QED
      BY <2>1, Quotient
  <1>3. a + b = n * (q + p) + t /\ q + p \in Int
    BY <1>1, <1>2
  <1>4. (a + b) % n = t
    BY <1>3, RemainderIs
  <1> QED
    BY <1>1, <1>2, <1>4

\* Fewer than n numbers in a row have different remainders.
LEMMA RemaindersDiffer ==
    ASSUME NEW n \in Nat \ {0}, NEW a \in Int, NEW b \in Int,
           a <= b, b < a + n, a % n = b % n
    PROVE  a = b
  <1>1. PICK q \in Int, r \in 0 .. n - 1 : a = n * q + r /\ r = a % n
    BY Quotient
  <1>2. PICK p \in Int, t \in 0 .. n - 1 : b = n * p + t /\ t = b % n
    BY Quotient
  <1>3. n * (p - q) = b - a /\ p - q \in Int
    BY <1>1, <1>2
  <1>4. p - q = 0
    BY <1>3, SmallMultiple
  <1> QED
    BY <1>3, <1>4

-----------------------------------------------------------------------------
(***************************************************************************)
(* ListIsWindow and SequenceNearSegments.  Of the files of the current     *)
(* ffmpeg, those from some index lo on wait to be moved; the ones before   *)
(* it are in the slots, the last Slots of them without a gap (but for the  *)
(* first, which a goroutine may have removed).                             *)
(***************************************************************************)

\* The slot of a file.  The proofs use it by its facts only.
SlotOf(i) == i % Slots

LEMMA SlotOfFacts ==
    /\ \A i \in Int : SlotOf(i) \in SlotIds /\ SlotOf(i + Slots) = SlotOf(i)
    /\ \A i \in SlotIds : SlotOf(i) = i
    /\ \A i, j \in Int : i <= j /\ j < i + Slots /\ SlotOf(i) = SlotOf(j) => i = j
    /\ \A i, j \in Int : SlotOf(SlotOf(i) + j) = SlotOf(i + j)
  <1>1. Slots \in Nat \ {0}
    BY PlaylistAssumption
  <1>2. ASSUME NEW i \in Int
        PROVE  SlotOf(i) \in SlotIds /\ SlotOf(i + Slots) = SlotOf(i)
    <2>1. i % Slots \in 0 .. Slots - 1
      BY <1>1, Quotient
    <2>2. (i + Slots) % Slots = i % Slots
      BY <1>1, RemainderOnce
    <2> QED
      BY <2>1, <2>2 DEF SlotOf, SlotIds
  <1>3. ASSUME NEW i \in SlotIds
        PROVE  SlotOf(i) = i
    BY <1>1 DEF SlotOf, SlotIds
  <1>4. ASSUME NEW i \in Int, NEW j \in Int, i <= j, j < i + Slots, SlotOf(i) = SlotOf(j)
        PROVE  i = j
    BY <1>1, <1>4, RemaindersDiffer DEF SlotOf
  <1>5. ASSUME NEW i \in Int, NEW j \in Int
        PROVE  SlotOf(SlotOf(i) + j) = SlotOf(i + j)
    BY <1>1, RemainderSum DEF SlotOf
  <1> QED
    BY <1>2, <1>3, <1>4, <1>5

Waiting(lo) ==
    /\ lo \in 0 .. pos + 1 /\ pos - lo <= Slots
    /\ \A i \in Indices : raw[i] > base <=> i \in lo .. pos
    /\ \A i \in lo .. pos : raw[i] = base + i + 1

Filled(s, lo) ==
    /\ \A k \in SlotIds : s[k] > base =>
          \E i \in Nat : lo - Slots <= i /\ i < lo /\ SlotOf(i) = k /\ s[k] = base + i + 1
    /\ \A i \in Nat : 1 <= i /\ lo - Slots <= i /\ i < lo => s[SlotOf(i)] = base + i + 1

\* In the first start, what was moved is all but the newest file or two.
NearTop(lo) ==
    gen = 1 /\ Present(slot) # {} =>
        /\ lo <= pos
        /\ \A m \in Managers : manager[m] = "scan" => lo \in {top[m] - 1, top[m]}

\* The files of an earlier ffmpeg are removed before the second file of the new one.
Cleaned == \A m \in Managers : manager[m] # "clean"
OldAreRemoved == IF Cleaned THEN \A i \in Indices : raw[i] # 0 => raw[i] > base ELSE pos <= 0

KnownArePresent == \A m \in Managers : known[m] \subseteq Present(slot)

FirstStarts ==
    /\ gen = 0 => ~started /\ pos = -1 /\ playlist = NoList
    /\ gen <= 1 => base = 0
    /\ \A m \in Managers : m > gen => manager[m] = "none"

WindowInv ==
    /\ \E lo \in Nat : Waiting(lo) /\ Filled(slot, lo) /\ NearTop(lo)
    /\ OldAreRemoved /\ KnownArePresent /\ FirstStarts

\* A file whose slot no other file of the promotion goes to is in its slot after it.
LEMMA MovedAlone ==
    ASSUME TypeOK, NEW P \in SUBSET Indices, NEW s \in Moved(P), NEW p \in P,
           \A q \in P : SlotOf(q) = SlotOf(p) => q = p
    PROVE  s[SlotOf(p)] = raw[p]
  <1> PICK L \in SUBSET P :
         /\ s = [i \in SlotIds |-> LET mine == {q \in L : SlotOf(q) = i}
                                   IN  IF mine = {} THEN slot[i]
                                       ELSE raw[CHOOSE q \in mine : TRUE]]
         /\ \A q \in P : Cardinality({r \in L : SlotOf(r) = SlotOf(q)}) = 1
    BY DEF Moved, SlotOf
  <1> DEFINE mine == {q \in L : SlotOf(q) = SlotOf(p)}
  <1>1. mine \subseteq {p}
    OBVIOUS
  <1>2. mine # {}
    <2>1. Cardinality(mine) = 1
      OBVIOUS
    <2>2. Cardinality({}) = 0
      BY FS_EmptySet
    <2> HIDE DEF mine
    <2> QED
      BY <2>1, <2>2
  <1>3. (CHOOSE q \in mine : TRUE) = p
    BY <1>1, <1>2
  <1>4. SlotOf(p) \in SlotIds
    BY SlotOfFacts DEF Indices
  <1>5. s[SlotOf(p)] = IF mine = {} THEN slot[SlotOf(p)] ELSE raw[CHOOSE q \in mine : TRUE]
    BY <1>4
  <1> QED
    BY <1>2, <1>3, <1>5

\* Files in a row, as many as there are slots at most, go each to a slot of its own, in
\* place of the file Slots before it.
LEMMA MoveFills ==
    ASSUME TypeOK, NEW lo \in Nat, NEW h \in Nat, lo <= h, h <= MaxIndex + 1, h - lo <= Slots,
           \A i \in lo .. h - 1 : raw[i] = base + i + 1,
           Filled(slot, lo), NEW s \in Moved(lo .. h - 1)
    PROVE  Filled(s, h)
  <1> DEFINE P == lo .. h - 1
  <1>1. P \in SUBSET Indices
    BY PlaylistAssumption DEF Indices
  <1>2. \A i \in SlotIds : s[i] = slot[i] \/ \E p \in P : SlotOf(p) = i /\ s[i] = raw[p]
    BY <1>1, MovedFrom DEF SlotOf
  <1>3. \A p \in P : s[SlotOf(p)] = raw[p]
    <2> SUFFICES ASSUME NEW p \in P
                 PROVE  s[SlotOf(p)] = raw[p]
      OBVIOUS
    <2>1. \A q \in P : SlotOf(q) = SlotOf(p) => q = p
      <3> SUFFICES ASSUME NEW q \in P, SlotOf(q) = SlotOf(p)
                   PROVE  q = p
        OBVIOUS
      <3>1. q \in Int /\ p \in Int /\ q < p + Slots /\ p < q + Slots
        BY PlaylistAssumption
      <3>2. CASE q <= p
        BY <3>1, <3>2, SlotOfFacts
      <3>3. CASE p <= q
        BY <3>1, <3>3, SlotOfFacts
      <3> QED
        BY <3>1, <3>2, <3>3
    <2> HIDE DEF P
    <2> QED
      BY <1>1, <2>1, MovedAlone DEF P
  <1>4. base \in Nat /\ Slots \in Nat \ {0}
    BY PlaylistAssumption DEF TypeOK
  <1>5. ASSUME NEW k \in SlotIds, s[k] > base
        PROVE  \E i \in Nat : h - Slots <= i /\ i < h /\ SlotOf(i) = k /\ s[k] = base + i + 1
    <2>1. CASE \E p \in P : SlotOf(p) = k
      <3>1. PICK p \in P : SlotOf(p) = k
        BY <2>1
      <3>2. p \in Nat /\ h - Slots <= p /\ p < h /\ s[k] = base + p + 1
        BY <1>3, <1>4, <3>1
      <3> QED
        BY <3>1, <3>2
    <2>2. CASE \A p \in P : SlotOf(p) # k
      <3>1. s[k] = slot[k]
        BY <1>2, <2>2
      <3>2. PICK i \in Nat : lo - Slots <= i /\ i < lo /\ SlotOf(i) = k /\ slot[k] = base + i + 1
        BY <1>5, <3>1 DEF Filled
      <3>3. SlotOf(i + Slots) = k
        BY <1>4, <3>2, SlotOfFacts
      <3>4. i + Slots \notin P
        BY <2>2, <3>3
      <3>5. h - Slots <= i
        BY <1>4, <3>2, <3>4
      <3> QED
        BY <3>1, <3>2, <3>5
    <2> QED
      BY <2>1, <2>2
  <1>6. ASSUME NEW i \in Nat, 1 <= i, h - Slots <= i, i < h
        PROVE  s[SlotOf(i)] = base + i + 1
    <2>1. CASE i \in P
      BY <1>3, <2>1
    <2>2. CASE i < lo
      <3>1. SlotOf(i) \in SlotIds
        BY SlotOfFacts
      <3>2. slot[SlotOf(i)] = base + i + 1
        BY <1>4, <1>6, <2>2 DEF Filled
      <3>3. \A p \in P : SlotOf(p) # SlotOf(i)
        <4> SUFFICES ASSUME NEW p \in P, SlotOf(p) = SlotOf(i)
                     PROVE  FALSE
          OBVIOUS
        <4>1. p \in Int /\ i < p /\ p < i + Slots
          BY <1>4, <1>6, <2>2
        <4> QED
          BY <1>4, <4>1, SlotOfFacts
      <3> QED
        BY <1>2, <3>1, <3>2, <3>3
    <2> QED
      BY <1>6, <2>1, <2>2
  <1> QED
    BY <1>5, <1>6 DEF Filled

\* Once the old files are gone, a promotion moves the oldest files that wait and leaves
\* the newest, or the newest two.
LEMMA PromotesARow ==
    ASSUME TypeOK, Cleaned, OldAreRemoved, NEW lo \in Nat, Waiting(lo), NEW m \in Managers, Promote(m)
    PROVE  \E h \in lo .. pos + 1 :
               /\ slot' \in Moved(lo .. h - 1)
               /\ raw' = [i \in Indices |-> IF i \in lo .. h - 1 THEN 0 ELSE raw[i]]
               /\ lo > pos => h = lo
               /\ lo <= pos => h \in {pos - 1, pos} /\ top'[m] = pos
  <1>1. pos \in -1 .. MaxIndex /\ lo <= pos + 1 /\ MaxIndex \in Nat /\ base \in Nat
    BY PlaylistAssumption DEF TypeOK, Waiting
  <1>2. Present(raw) = lo .. pos
    <2>1. DOMAIN raw = Indices /\ \A i \in Indices : raw[i] \in Nat
      BY DEF TypeOK
    <2>2. \A i \in Indices : raw[i] # 0 <=> i \in lo .. pos
      BY <1>1, <2>1 DEF OldAreRemoved, Waiting
    <2>3. lo .. pos \subseteq Indices
      BY <1>1 DEF Indices
    <2> QED
      BY <2>1, <2>2, <2>3 DEF Present
  <1>3. lo <= pos => top'[m] = pos
    <2> SUFFICES ASSUME lo <= pos
                 PROVE  top'[m] = pos
      OBVIOUS
    <2> DEFINE S == Present(raw) \union {-1}
    <2>1. S \subseteq -1 .. MaxIndex /\ pos \in S /\ S # {} /\ MaxIndex \in Int
          /\ \A i \in S : i <= pos
      BY <1>1, <1>2
    <2>2. Max(S) \in S /\ \A x \in S : x <= Max(S)
      <3> HIDE DEF S
      <3> QED
        BY <2>1, BoundedHasMax
    <2>3. Max(S) = pos
      <3> HIDE DEF S
      <3>1. Max(S) \in -1 .. MaxIndex /\ pos \in -1 .. MaxIndex /\ pos <= Max(S) /\ Max(S) <= pos
        BY <1>1, <2>1, <2>2
      <3> QED
        BY <3>1
    <2> QED
      BY <2>3 DEF Promote, TypeOK
  <1> PICK young \in SUBSET {pos} :
         LET P == {i \in Present(raw) : i < top'[m]}
                     \ (young \union IF settled THEN {} ELSE {pos - 1})
         IN  /\ slot' \in Moved(P)
             /\ raw' = [i \in Indices |-> IF i \in P THEN 0 ELSE raw[i]]
    BY DEF Promote
  <1> DEFINE P == {i \in Present(raw) : i < top'[m]}
                     \ (young \union IF settled THEN {} ELSE {pos - 1})
             h == IF lo > pos THEN lo ELSE IF settled \/ lo = pos THEN pos ELSE pos - 1
  <1>4. P = lo .. h - 1
    <2>1. CASE lo > pos
      BY <1>1, <1>2, <2>1
    <2>2. CASE lo <= pos
      <3>1. {i \in Present(raw) : i < top'[m]} = lo .. pos - 1
        BY <1>1, <1>2, <1>3, <2>2
      <3>2. P = (lo .. pos - 1) \ IF settled THEN {} ELSE {pos - 1}
        BY <1>1, <3>1
      <3> QED
        BY <1>1, <2>2, <3>2
    <2> QED
      BY <1>1, <2>1, <2>2
  <1>5. /\ h \in lo .. pos + 1
        /\ lo > pos => h = lo
        /\ lo <= pos => h \in {pos - 1, pos}
    BY <1>1
  <1>6. slot' \in Moved(P) /\ raw' = [i \in Indices |-> IF i \in P THEN 0 ELSE raw[i]]
    OBVIOUS
  <1> HIDE DEF P, h
  <1> QED
    BY <1>3, <1>4, <1>5, <1>6

\* The newest slot has the file before lo, if the slots have a file of the current ffmpeg.
LEMMA NewestIsLast ==
    ASSUME TypeOK, BegunOnly, NEW lo \in Nat, Filled(slot, lo), NEW k \in SlotIds, slot[k] > base
    PROVE  lo >= 1 /\ Newest = SlotOf(lo - 1)
  <1>1. base \in Nat /\ Slots \in Nat \ {0} /\ \A j \in SlotIds : slot[j] \in Nat
    BY PlaylistAssumption DEF TypeOK
  <1>2. Newest \in SlotIds /\ slot[k] <= slot[Newest]
    BY NewestIsSlot
  <1>3. slot[Newest] > base
    BY <1>1, <1>2
  <1>4. PICK i \in Nat : i < lo /\ SlotOf(i) = Newest /\ slot[Newest] = base + i + 1
    BY <1>2, <1>3 DEF Filled
  <1>5. lo >= 1
    BY <1>4
  <1>6. CASE lo = 1
    BY <1>4, <1>6
  <1>7. CASE lo > 1
    <2>1. lo - 1 \in Nat /\ 1 <= lo - 1 /\ lo - Slots <= lo - 1 /\ lo - 1 < lo
      BY <1>1, <1>7
    <2>2. slot[SlotOf(lo - 1)] = base + (lo - 1) + 1
      BY <2>1 DEF Filled
    <2>3. SlotOf(lo - 1) \in SlotIds
      BY <2>1, SlotOfFacts
    <2>4. base + (lo - 1) + 1 <= base + i + 1
      BY <1>4, <2>2, <2>3, NewestIsSlot
    <2>5. i = lo - 1
      BY <1>1, <1>4, <2>4
    <2> QED
      BY <1>4, <2>5
  <1> QED
    BY <1>5, <1>6, <1>7

\* Where the j-th entry of a list of n comes from.
LEMMA EntryOfList ==
    ASSUME TypeOK, BegunOnly, NEW lo \in Nat, Filled(slot, lo), NEW k \in SlotIds, slot[k] > base,
           NEW n \in 0 .. Slots, NEW t, NEW j \in 1 .. n
    PROVE  ListOf(n, t).segs[j] = slot[SlotOf(lo - 1 - n + j)]
  <1>1. lo >= 1 /\ Newest = SlotOf(lo - 1)
    BY NewestIsLast
  <1>2. Newest \in Int /\ Slots \in Nat \ {0}
    BY NewestIsSlot, PlaylistAssumption DEF SlotIds
  <1>3. ListOf(n, t).segs[j] = slot[SlotOf(Newest - n + j + Slots)]
    BY DEF ListOf, SlotOf
  <1>4. SlotOf(Newest - n + j + Slots) = SlotOf(Newest + (j - n))
    <2>1. Newest - n + j + Slots = (Newest + (j - n)) + Slots /\ Newest + (j - n) \in Int
      BY <1>2
    <2> QED
      BY <2>1, SlotOfFacts
  <1>5. SlotOf(Newest + (j - n)) = SlotOf((lo - 1) + (j - n))
    BY <1>1, SlotOfFacts
  <1>6. (lo - 1) + (j - n) = lo - 1 - n + j
    OBVIOUS
  <1> QED
    BY <1>3, <1>4, <1>5, <1>6

\* An entry that is a segment of the current ffmpeg is the one its place in the list says.
LEMMA EntryIsInPlace ==
    ASSUME TypeOK, BegunOnly, NEW lo \in Nat, Filled(slot, lo),
           NEW n \in 0 .. Slots, NEW t, NEW j \in 1 .. n, ListOf(n, t).segs[j] > base
    PROVE  ListOf(n, t).segs[j] = base + lo - n + j
  <1>1. ListOf(n, t).segs[j] = slot[(Newest - n + j + Slots) % Slots]
    BY DEF ListOf
  <1>2. (Newest - n + j + Slots) % Slots \in SlotIds
    BY NewestIsSlot, PlaylistAssumption DEF SlotIds
  <1>3. ListOf(n, t).segs[j] = slot[SlotOf(lo - 1 - n + j)]
    BY <1>1, <1>2, EntryOfList
  <1>4. lo - 1 - n + j \in Int /\ Slots \in Nat \ {0} /\ base \in Nat
    BY PlaylistAssumption DEF TypeOK
  <1>5. SlotOf(lo - 1 - n + j) \in SlotIds
    BY <1>4, SlotOfFacts
  <1>6. PICK i \in Nat : /\ lo - Slots <= i /\ i < lo
                         /\ SlotOf(i) = SlotOf(lo - 1 - n + j)
                         /\ slot[SlotOf(lo - 1 - n + j)] = base + i + 1
    BY <1>3, <1>5 DEF Filled
  <1> DEFINE e == lo - 1 - n + j
  <1>7. lo - Slots <= e /\ e < lo /\ e \in Int /\ SlotOf(i) = SlotOf(e)
    BY <1>4, <1>6
  <1>8. i = e
    <2> HIDE DEF e
    <2>1. CASE i <= e
      <3>1. e < i + Slots
        BY <1>4, <1>6, <1>7
      <3> QED
        BY <1>7, <2>1, <3>1, SlotOfFacts
    <2>2. CASE e <= i
      <3>1. i < e + Slots
        BY <1>4, <1>6, <1>7
      <3> QED
        BY <1>7, <2>2, <3>1, SlotOfFacts
    <2> QED
      BY <1>7, <2>1, <2>2
  <1> QED
    BY <1>3, <1>4, <1>6, <1>8

\* Before a restart finds segments, a list of as many entries as there are slots with a
\* segment names no empty slot.
LEMMA NoEmptyEntry ==
    ASSUME TypeOK, BegunOnly, base = 0, NEW lo \in Nat, Filled(slot, lo), Present(slot) # {},
           NEW n \in 0 .. Slots, n = Cardinality(Present(slot)), NEW t, NEW j \in 1 .. n
    PROVE  ListOf(n, t).segs[j] > base
  <1>1. Slots \in Nat \ {0} /\ DOMAIN slot = SlotIds /\ \A k \in SlotIds : slot[k] \in Nat
    BY PlaylistAssumption DEF TypeOK
  <1>2. PICK k \in SlotIds : slot[k] > base
    BY <1>1 DEF Present
  <1>3. lo >= 1
    BY <1>2, NewestIsLast
  <1> DEFINE e == lo - 1 - n + j
  <1>4. e \in Int /\ lo - Slots <= e /\ e < lo
    BY <1>1
  <1>5. ListOf(n, t).segs[j] = slot[SlotOf(e)]
    BY <1>2, EntryOfList
  <1>6. CASE 1 <= e
    <2>1. slot[SlotOf(e)] = base + e + 1
      <3> HIDE DEF e
      <3> QED
        BY <1>4, <1>6 DEF Filled
    <2> QED
      BY <1>5, <1>6, <2>1
  <1>7. CASE e <= 0
    <2>1. lo <= n
      BY <1>7
    <2>2. Present(slot) \subseteq 0 .. lo - 1
      <3> SUFFICES ASSUME NEW s \in Present(slot)
                   PROVE  s \in 0 .. lo - 1
        OBVIOUS
      <3>1. s \in SlotIds /\ slot[s] > base
        BY <1>1 DEF Present
      <3>2. PICK i \in Nat : i < lo /\ SlotOf(i) = s
        BY <3>1 DEF Filled
      <3>3. i \in SlotIds
        BY <1>1, <2>1, <3>2 DEF SlotIds
      <3>4. s = i
        BY <3>2, <3>3, SlotOfFacts
      <3> QED
        BY <3>2, <3>4
    <2>3. IsFiniteSet(0 .. lo - 1) /\ Cardinality(0 .. lo - 1) = lo
      <3>1. 0 \in Int /\ lo - 1 \in Int
        OBVIOUS
      <3>2. IsFiniteSet(0 .. lo - 1)
            /\ Cardinality(0 .. lo - 1) = IF 0 > lo - 1 THEN 0 ELSE (lo - 1) - 0 + 1
        BY <3>1, FS_Interval
      <3> QED
        BY <1>3, <3>2
    <2>4. n <= lo
      BY <2>2, <2>3, FS_Subset
    <2>5. Present(slot) = 0 .. lo - 1
      BY <2>1, <2>2, <2>3, <2>4, FS_Subset
    <2>6. e = 0
      BY <1>7, <2>1, <2>4
    <2>7. 0 \in SlotIds /\ 0 \in Present(slot)
      BY <1>1, <1>3, <2>5 DEF SlotIds
    <2>8. SlotOf(e) = 0 /\ slot[0] > base
      <3>1. SlotOf(0) = 0
        BY <2>7, SlotOfFacts
      <3>2. slot[0] > base
        BY <1>1, <2>7 DEF Present
      <3> HIDE DEF e
      <3> QED
        BY <2>6, <3>1, <3>2
    <2> QED
      BY <1>5, <2>8
  <1> QED
    BY <1>4, <1>6, <1>7

LEMMA WindowAtStart == Init => WindowInv
  <1> SUFFICES ASSUME Init
               PROVE  WindowInv
    OBVIOUS
  <1> USE PlaylistAssumption
  <1>1. base = 0 /\ pos = -1 /\ gen = 0 /\ ~started /\ playlist = NoList
    BY DEF Init
  <1>2. (\A i \in Indices : raw[i] = 0) /\ \A k \in SlotIds : slot[k] = 0
    BY DEF Init, NoRaw
  <1>3. Waiting(0)
    BY <1>1, <1>2 DEF Waiting
  <1>4. Filled(slot, 0)
    BY <1>1, <1>2 DEF Filled
  <1>5. NearTop(0)
    BY <1>1 DEF NearTop
  <1>6. OldAreRemoved /\ KnownArePresent /\ FirstStarts
    BY <1>1, <1>2 DEF Init, OldAreRemoved, KnownArePresent, FirstStarts
  <1> QED
    BY <1>3, <1>4, <1>5, <1>6 DEF WindowInv

\* A start: nothing of the new ffmpeg is there.
LEMMA WindowAtRestart ==
    ASSUME TypeOK, BegunOnly, WindowInv, StartEngine
    PROVE  WindowInv'
  <1> USE PlaylistAssumption DEF disk
  <1>1. base \in Nat /\ pos \in -1 .. MaxIndex /\ gen \in Nat /\ gen < MaxStarts
    BY DEF StartEngine, TypeOK
  <1>2. /\ base' = base + pos + 1 /\ pos' = -1 /\ gen' = gen + 1
        /\ manager' = [manager EXCEPT ![gen+1] = "clean"]
        /\ UNCHANGED <<raw, slot, top, known, playlist>>
    BY DEF StartEngine
  <1>3. Waiting(0)'
    BY <1>1, <1>2 DEF Waiting, TypeOK, BegunOnly
  <1>4. Filled(slot, 0)'
    BY <1>1, <1>2 DEF Filled, TypeOK, BegunOnly
  <1>5. gen' = 1 => base' = 0
    BY <1>1, <1>2 DEF WindowInv, FirstStarts
  <1>6. NearTop(0)'
    <2>1. gen' = 1 => Present(slot') = {}
      BY <1>2, <1>5 DEF Present, TypeOK, BegunOnly
    <2> QED
      BY <2>1 DEF NearTop
  <1>7. gen + 1 \in Managers /\ DOMAIN manager = Managers
    BY <1>1 DEF Managers, TypeOK
  <1>8. OldAreRemoved'
    <2>1. ~Cleaned'
      BY <1>2, <1>7 DEF Cleaned
    <2> QED
      BY <1>2, <2>1 DEF OldAreRemoved
  <1>9. KnownArePresent'
    BY <1>2 DEF WindowInv, KnownArePresent, Present
  <1>10. FirstStarts'
    <2>1. \A m \in Managers : m > gen' => manager'[m] = "none"
      BY <1>1, <1>2, <1>7 DEF WindowInv, FirstStarts, Managers
    <2>2. gen' # 0 /\ (gen' <= 1 => base' = 0)
      BY <1>1, <1>2, <1>5
    <2> QED
      BY <2>1, <2>2 DEF FirstStarts
  <1> QED
    BY <1>3, <1>4, <1>6, <1>8, <1>9, <1>10 DEF WindowInv

\* ffmpeg opens a file: one more waits, and there is room for it.
LEMMA WindowAtSegment ==
    ASSUME TypeOK, BegunOnly, WindowInv, NextSegment
    PROVE  WindowInv'
  <1> USE PlaylistAssumption
  <1>1. PICK lo \in Nat : Waiting(lo) /\ Filled(slot, lo) /\ NearTop(lo)
    BY DEF WindowInv
  <1>2. base \in Nat /\ pos \in -1 .. MaxIndex /\ pos + 1 \in Indices /\ Slots \in Nat
    BY DEF NextSegment, TypeOK, Indices
  <1>3. /\ pos' = pos + 1 /\ raw' = [raw EXCEPT ![pos+1] = base + pos + 2]
        /\ UNCHANGED <<started, gen, base, slot, manager, top, known, playlist>>
    BY DEF NextSegment
  <1>4. pos' - lo <= Slots
    <2>1. CASE lo > pos
      BY <1>2, <1>3, <2>1
    <2>2. CASE lo <= pos
      <3>1. Cardinality(Present(raw)) <= MaxBacklog
        BY DEF NextSegment
      <3>2. lo .. pos \subseteq Present(raw)
        <4>1. \A i \in lo .. pos : i \in Indices /\ raw[i] = base + i + 1
          BY <1>1, <1>2 DEF Waiting, Indices
        <4> QED
          BY <1>2, <4>1 DEF Present, TypeOK
      <3>3. IsFiniteSet(Present(raw))
        <4>1. IsFiniteSet(Indices)
          BY FS_Interval DEF Indices
        <4> QED
          BY <4>1, FS_Subset DEF Present, TypeOK
      <3>4. Cardinality(lo .. pos) = pos - lo + 1
        <4>1. Cardinality(lo .. pos) = IF lo > pos THEN 0 ELSE pos - lo + 1
          BY <1>2, FS_Interval
        <4> QED
          BY <1>2, <2>2, <4>1
      <3>5. Cardinality(lo .. pos) <= Cardinality(Present(raw))
        BY <3>2, <3>3, FS_Subset
      <3>6. Cardinality(Present(raw)) \in Nat
        BY <3>3, FS_CardinalityType
      <3> QED
        BY <1>2, <1>3, <3>1, <3>4, <3>5, <3>6
    <2> QED
      BY <1>2, <2>1, <2>2
  <1>5. Waiting(lo)'
    <2>1. lo \in 0 .. pos' + 1
      BY <1>1, <1>2, <1>3 DEF Waiting
    <2>2. \A i \in Indices : i \in Int /\ raw'[i] = IF i = pos + 1 THEN base + i + 1 ELSE raw[i]
      <3>1. DOMAIN raw = Indices /\ \A i \in Indices : i \in Int
        BY DEF TypeOK, Indices
      <3>2. raw'[pos + 1] = base + pos + 2 /\ \A i \in Indices : i # pos + 1 => raw'[i] = raw[i]
        BY <1>2, <1>3, <3>1
      <3>3. base + pos + 2 = base + (pos + 1) + 1
        BY <1>2
      <3> QED
        BY <3>1, <3>2, <3>3
    <2>3. \A i \in Indices : raw'[i] > base <=> i \in lo .. pos'
      BY <1>1, <1>2, <1>3, <2>2 DEF Waiting
    <2>4. \A i \in lo .. pos' : i \in Indices
      BY <1>2, <1>3 DEF Indices
    <2>5. \A i \in lo .. pos' : raw'[i] = base + i + 1
      BY <1>1, <1>2, <1>3, <2>2, <2>4 DEF Waiting
    <2> QED
      BY <1>3, <1>4, <2>1, <2>3, <2>5 DEF Waiting
  <1>6. Filled(slot, lo)'
    BY <1>1, <1>3 DEF Filled
  <1>7. NearTop(lo)'
    BY <1>1, <1>2, <1>3 DEF NearTop, Present
  <1>8. OldAreRemoved'
    <2>1. Cleaned' <=> Cleaned
      BY <1>3 DEF Cleaned
    <2>2. CASE Cleaned
      <3>1. \A i \in Indices : raw'[i] # 0 => raw'[i] > base
        BY <1>2, <1>3, <2>2 DEF WindowInv, OldAreRemoved, TypeOK
      <3> QED
        BY <1>3, <2>1, <2>2, <3>1 DEF OldAreRemoved
    <2>3. CASE ~Cleaned
      <3>1. ~(pos >= 0)
        BY <2>3 DEF NextSegment, Cleaned
      <3> QED
        BY <1>2, <1>3, <2>1, <2>3, <3>1 DEF OldAreRemoved
    <2> QED
      BY <2>2, <2>3
  <1>9. KnownArePresent'
    BY <1>3 DEF WindowInv, KnownArePresent, Present
  <1>10. FirstStarts'
    <2>1. gen # 0
      BY DEF WindowInv, FirstStarts, NextSegment
    <2> QED
      BY <1>3, <2>1 DEF WindowInv, FirstStarts
  <1> QED
    BY <1>5, <1>6, <1>7, <1>8, <1>9, <1>10 DEF WindowInv

\* A goroutine removes the raw files: of the new ffmpeg, the first at most.
LEMMA WindowAtClean ==
    ASSUME TypeOK, BegunOnly, WindowInv, NEW m \in Managers, Clean(m)
    PROVE  WindowInv'
  <1> USE PlaylistAssumption DEF ffmpeg
  <1>1. PICK lo \in Nat : Waiting(lo) /\ Filled(slot, lo) /\ NearTop(lo)
    BY DEF WindowInv
  <1>2. base \in Nat /\ pos \in -1 .. 0 /\ Slots \in Nat \ {0} /\ lo \in 0 .. pos + 1
    BY <1>1 DEF Clean, WindowInv, OldAreRemoved, Cleaned, TypeOK, Waiting
  <1>3. /\ raw' = NoRaw /\ manager' = [manager EXCEPT ![m] = "loop"]
        /\ known' = [known EXCEPT ![m] = Present(slot)]
        /\ UNCHANGED <<started, gen, base, pos, slot, top, playlist>>
    BY DEF Clean
  <1>4. Waiting(pos + 1)'
    <2>1. \A i \in Indices : raw'[i] = 0
      BY <1>3 DEF NoRaw
    <2> QED
      BY <1>2, <1>3, <2>1 DEF Waiting
  <1>5. Filled(slot, pos + 1)'
    BY <1>1, <1>2, <1>3 DEF Filled
  <1>6. NearTop(pos + 1)'
    <2> SUFFICES ASSUME gen = 1, Present(slot) # {}
                 PROVE  FALSE
      BY <1>3 DEF NearTop
    <2>1. lo = 0 /\ base = 0
      BY <1>1, <1>2 DEF NearTop, WindowInv, FirstStarts
    <2>2. \A k \in SlotIds : ~(slot[k] > base)
      BY <1>1, <2>1 DEF Filled
    <2> QED
      BY <2>1, <2>2 DEF Present, TypeOK
  <1>7. OldAreRemoved'
    BY <1>2, <1>3 DEF OldAreRemoved, NoRaw
  <1>8. KnownArePresent'
    BY <1>3 DEF WindowInv, KnownArePresent, TypeOK, Present
  <1>9. FirstStarts'
    BY <1>3 DEF Clean, WindowInv, FirstStarts, TypeOK
  <1>10. pos' + 1 \in Nat /\ pos' = pos
    BY <1>2, <1>3
  <1> QED
    BY <1>4, <1>5, <1>6, <1>7, <1>8, <1>9, <1>10 DEF WindowInv

\* A promotion.
LEMMA WindowAtPromote ==
    ASSUME TypeOK, BegunOnly, WindowInv, NEW m \in Managers, Promote(m)
    PROVE  WindowInv'
  <1> USE PlaylistAssumption DEF ffmpeg
  <1>1. PICK lo \in Nat : Waiting(lo) /\ Filled(slot, lo) /\ NearTop(lo)
    BY DEF WindowInv
  <1>2. base \in Nat /\ pos \in -1 .. MaxIndex /\ Slots \in Nat \ {0} /\ lo \in 0 .. pos + 1
        /\ MaxIndex \in Nat
    BY <1>1 DEF TypeOK, Waiting
  <1>3. /\ manager' = [manager EXCEPT ![m] = "scan"]
        /\ UNCHANGED <<started, gen, base, pos, known, playlist>>
    BY DEF Promote
  <1>4. PICK P \in SUBSET Indices :
           /\ slot' \in Moved(P)
           /\ raw' = [i \in Indices |-> IF i \in P THEN 0 ELSE raw[i]]
           /\ \A p \in P : raw[p] # 0 /\ p < top'[m]
    BY PromoteMoves
  <1>5. /\ slot' \in [SlotIds -> Nat]
        /\ \A k \in SlotIds : slot'[k] = slot[k] \/ \E p \in P : SlotOf(p) = k /\ slot'[k] = raw[p]
    BY <1>4, MovedFrom DEF SlotOf
  <1>6. \A i \in Indices : raw'[i] = raw[i] \/ raw'[i] = 0
    BY <1>4
  <1>7. Cleaned' <=> Cleaned
    BY <1>3 DEF Promote, Cleaned, TypeOK
  <1>8. OldAreRemoved'
    BY <1>3, <1>6, <1>7 DEF WindowInv, OldAreRemoved
  <1>9. Present(slot) \subseteq Present(slot')
    <2>1. \A k \in SlotIds : slot[k] # 0 => slot'[k] # 0
      BY <1>4, <1>5
    <2> QED
      BY <1>5, <2>1 DEF Present, TypeOK
  <1>10. KnownArePresent'
    BY <1>3, <1>9 DEF WindowInv, KnownArePresent
  <1>11. FirstStarts'
    BY <1>3 DEF Promote, WindowInv, FirstStarts, TypeOK
  <1>12. gen = 1 => m = 1 /\ Cleaned
    <2>1. gen = 1 => m = 1
      BY DEF Promote, WindowInv, FirstStarts, Managers
    <2>2. gen = 1 => \A q \in Managers : q # 1 => manager[q] = "none"
      BY DEF WindowInv, FirstStarts, Managers
    <2> QED
      BY <2>1, <2>2 DEF Promote, Cleaned
  <1>13. \E h \in Nat : Waiting(h)' /\ Filled(slot, h)' /\ NearTop(h)'
    <2>1. CASE Cleaned
      <3>1. PICK h \in lo .. pos + 1 :
               /\ slot' \in Moved(lo .. h - 1)
               /\ raw' = [i \in Indices |-> IF i \in lo .. h - 1 THEN 0 ELSE raw[i]]
               /\ lo > pos => h = lo
               /\ lo <= pos => h \in {pos - 1, pos} /\ top'[m] = pos
        BY <1>1, <2>1, PromotesARow DEF WindowInv
      <3>2. /\ h \in Nat /\ lo <= h /\ h <= MaxIndex + 1 /\ h - lo <= Slots /\ h <= pos + 1
            /\ pos - h <= Slots /\ h - 1 <= pos
        BY <1>1, <1>2, <3>1 DEF Waiting
      <3>3. \A i \in lo .. h - 1 : raw[i] = base + i + 1
        BY <1>1, <1>2, <3>2 DEF Waiting
      <3>4. Filled(slot', h)
        BY <1>1, <3>1, <3>2, <3>3, MoveFills
      <3>5. Filled(slot, h)'
        BY <1>3, <3>4 DEF Filled
      <3>6. Waiting(h)'
        <4>1. \A i \in Indices : i \in Int /\ raw'[i] = IF i \in lo .. h - 1 THEN 0 ELSE raw[i]
          BY <3>1 DEF Indices
        <4>2. \A i \in Indices : raw'[i] > base <=> i \in h .. pos
          BY <1>1, <1>2, <3>2, <4>1 DEF Waiting
        <4>3. \A i \in h .. pos : i \in Indices
          BY <1>2, <3>2 DEF Indices
        <4>4. \A i \in h .. pos : raw'[i] = base + i + 1
          BY <1>1, <1>2, <3>2, <4>1, <4>3 DEF Waiting
        <4>5. h \in 0 .. pos + 1
          BY <1>2, <3>2
        <4> QED
          BY <1>3, <3>2, <4>2, <4>4, <4>5 DEF Waiting
      <3>7. NearTop(h)'
        <4> SUFFICES ASSUME gen = 1, Present(slot') # {}
                     PROVE  /\ h <= pos
                            /\ \A q \in Managers : manager'[q] = "scan" => h \in {top'[q] - 1, top'[q]}
          BY <1>3 DEF NearTop
        <4>1. lo <= pos
          <5> SUFFICES ASSUME lo > pos
                       PROVE  FALSE
            BY <1>2
          <5>1. Present(slot) = {}
            BY <1>1, <1>2 DEF NearTop
          <5>2. Present(raw) = {}
            <6>1. \A i \in Indices : ~(raw[i] > base)
              BY <1>1, <1>2 DEF Waiting
            <6> QED
              BY <2>1, <6>1 DEF WindowInv, OldAreRemoved, Present, TypeOK
          <5>3. P = {}
            BY <1>4, <5>2 DEF Present, TypeOK
          <5>4. \A k \in SlotIds : slot'[k] = slot[k]
            BY <1>5, <5>3
          <5> QED
            BY <1>5, <5>1, <5>4 DEF Present, TypeOK
        <4>2. h \in {pos - 1, pos} /\ top'[m] = pos
          BY <3>1, <4>1
        <4>3. \A q \in Managers : manager'[q] = "scan" => q = m
          BY <1>3, <1>12 DEF WindowInv, FirstStarts, Managers, TypeOK
        <4> QED
          BY <1>2, <4>2, <4>3
      <3> QED
        BY <3>2, <3>5, <3>6, <3>7
    <2>2. CASE ~Cleaned
      <3>1. pos <= 0
        BY <2>2 DEF WindowInv, OldAreRemoved
      <3> PICK h \in Nat : h = IF pos = 0 /\ 0 \in P THEN 1 ELSE lo
        OBVIOUS
      <3>2. h \in Nat /\ h \in 0 .. pos + 1 /\ lo <= h /\ h <= 1
        BY <1>2, <3>1
      <3>3. Waiting(h)'
        <4>1. \A i \in Indices : i \in Int /\ raw'[i] = IF i \in P THEN 0 ELSE raw[i]
          BY <1>4 DEF Indices
        <4>2. \A i \in Indices : raw'[i] > base => i = 0 /\ pos = 0 /\ lo = 0 /\ i \notin P
          BY <1>1, <1>2, <3>1, <4>1 DEF Waiting
        <4>3. \A i \in h .. pos : i = 0 /\ pos = 0 /\ lo = 0 /\ i \notin P /\ i \in Indices
          BY <1>2, <3>1, <3>2 DEF Indices
        <4>4. \A i \in h .. pos : raw'[i] = base + i + 1
          BY <1>1, <1>2, <4>1, <4>3 DEF Waiting
        <4>5. \A i \in Indices : raw'[i] > base <=> i \in h .. pos
          BY <1>2, <3>2, <4>1, <4>2, <4>4
        <4> QED
          BY <1>2, <1>3, <3>1, <3>2, <4>4, <4>5 DEF Waiting
      <3>4. Filled(slot, h)'
        <4>1. ASSUME NEW k \in SlotIds, slot'[k] > base
              PROVE  h = 1 /\ k = 0 /\ slot'[k] = base + 1
          <5>1. CASE slot'[k] = slot[k]
            <6>1. PICK i \in Nat : i < lo /\ SlotOf(i) = k /\ slot[k] = base + i + 1
              BY <1>1, <4>1, <5>1 DEF Filled
            <6>2. i = 0 /\ lo = 1
              BY <1>2, <3>1, <6>1
            <6>3. 0 \in SlotIds
              BY <1>2 DEF SlotIds
            <6>4. k = 0
              BY <6>1, <6>2, <6>3, SlotOfFacts
            <6> QED
              BY <1>2, <3>2, <5>1, <6>1, <6>2, <6>4
          <5>2. CASE \E p \in P : SlotOf(p) = k /\ slot'[k] = raw[p]
            <6>1. PICK p \in P : SlotOf(p) = k /\ slot'[k] = raw[p]
              BY <5>2
            <6>2. p \in lo .. pos /\ raw[p] = base + p + 1
              BY <1>1, <4>1, <6>1 DEF Waiting
            <6>3. p = 0 /\ pos = 0
              BY <1>2, <3>1, <6>2
            <6>4. 0 \in SlotIds
              BY <1>2 DEF SlotIds
            <6>5. k = 0
              BY <6>1, <6>3, <6>4, SlotOfFacts
            <6> QED
              BY <1>2, <6>1, <6>2, <6>3, <6>5
          <5> QED
            BY <1>5, <5>1, <5>2
        <4>2. 0 \in SlotIds /\ SlotOf(0) = 0
          <5>1. 0 \in SlotIds
            BY <1>2 DEF SlotIds
          <5> QED
            BY <5>1, SlotOfFacts
        <4>3. \A i \in Nat : 1 <= i /\ i < h => FALSE
          BY <3>2
        <4>4. \A k \in SlotIds : slot'[k] > base =>
                \E i \in Nat : h - Slots <= i /\ i < h /\ SlotOf(i) = k /\ slot'[k] = base + i + 1
          <5> SUFFICES ASSUME NEW k \in SlotIds, slot'[k] > base
                       PROVE  h - Slots <= 0 /\ 0 < h /\ SlotOf(0) = k /\ slot'[k] = base + 0 + 1
            OBVIOUS
          <5>1. h = 1 /\ k = 0 /\ slot'[k] = base + 1
            BY <4>1
          <5> QED
            BY <1>2, <4>2, <5>1
        <4> QED
          BY <1>3, <4>3, <4>4 DEF Filled
      <3>5. NearTop(h)'
        BY <1>3, <1>12, <2>2 DEF NearTop
      <3> QED
        BY <3>2, <3>3, <3>4, <3>5
    <2> QED
      BY <2>1, <2>2
  <1> QED
    BY <1>8, <1>10, <1>11, <1>13 DEF WindowInv

\* Steps that leave the files, and what the goroutines know, alone.
LEMMA WindowAtOthers ==
    ASSUME TypeOK, WindowInv,
           UNCHANGED <<gen, base, pos, raw, slot, top, known, playlist>>,
           started' => started,
           \A m \in Managers : /\ manager'[m] \in {"clean", "scan"} => manager'[m] = manager[m]
                               /\ manager[m] \in {"none", "clean"} => manager'[m] = manager[m]
    PROVE  WindowInv'
  <1>1. PICK lo \in Nat : Waiting(lo) /\ Filled(slot, lo) /\ NearTop(lo)
    BY DEF WindowInv
  <1>2. Waiting(lo)' /\ Filled(slot, lo)'
    BY <1>1 DEF Waiting, Filled
  <1>3. NearTop(lo)'
    BY <1>1 DEF NearTop, Present
  <1>4. Cleaned' <=> Cleaned
    BY DEF Cleaned
  <1>5. OldAreRemoved' /\ KnownArePresent'
    BY <1>4 DEF WindowInv, OldAreRemoved, KnownArePresent, Present
  <1>6. FirstStarts'
    BY DEF WindowInv, FirstStarts
  <1> QED
    BY <1>2, <1>3, <1>5, <1>6 DEF WindowInv

\* The rest of the turn.  What is known is what is there, so the list is as long as the
\* slots with a segment are many.
LEMMA PublishLists ==
    ASSUME TypeOK, WindowInv, NEW m \in Managers, Publish(m)
    PROVE  /\ known'[m] = Present(slot)
           /\ Cardinality(Present(slot)) \in 0 .. Slots
           /\ playlist' = playlist \/ /\ Present(slot) # {}
                                      /\ playlist' = ListOf(Cardinality(Present(slot)), top[m])
  <1>1. known'[m] = Present(slot)
    BY DEF Publish, WindowInv, KnownArePresent, TypeOK
  <1>2. Cardinality(Present(slot)) \in 0 .. Slots
    <2>1. IsFiniteSet(SlotIds) /\ Cardinality(SlotIds) = Slots
      BY FS_Interval, PlaylistAssumption DEF SlotIds
    <2>2. Present(slot) \subseteq SlotIds
      BY DEF Present, TypeOK
    <2>3. Cardinality(Present(slot)) \in Nat /\ Cardinality(Present(slot)) <= Slots
      BY <2>1, <2>2, FS_Subset, FS_CardinalityType
    <2> QED
      BY <2>3, PlaylistAssumption
  <1> QED
    BY <1>1, <1>2 DEF Publish

LEMMA WindowAtPublish ==
    ASSUME TypeOK, WindowInv, NEW m \in Managers, Publish(m)
    PROVE  WindowInv'
  <1> USE DEF ffmpeg, disk
  <1>1. /\ manager' = [manager EXCEPT ![m] = "loop"]
        /\ UNCHANGED <<started, gen, base, pos, raw, slot, top>>
    BY DEF Publish
  <1>2. PICK lo \in Nat : Waiting(lo) /\ Filled(slot, lo) /\ NearTop(lo)
    BY DEF WindowInv
  <1>3. Waiting(lo)' /\ Filled(slot, lo)'
    BY <1>1, <1>2 DEF Waiting, Filled
  <1>4. NearTop(lo)'
    BY <1>1, <1>2 DEF NearTop, Present, TypeOK
  <1>5. Cleaned' <=> Cleaned
    BY <1>1 DEF Publish, Cleaned, TypeOK
  <1>6. OldAreRemoved'
    BY <1>1, <1>5 DEF WindowInv, OldAreRemoved
  <1>7. KnownArePresent'
    <2>1. \A q \in Managers : known'[q] = known[q] \/ known'[q] = Present(slot)
      BY PublishLists DEF Publish, TypeOK
    <2> QED
      BY <1>1, <2>1 DEF WindowInv, KnownArePresent, Present
  <1>8. FirstStarts'
    <2>1. gen # 0
      BY DEF WindowInv, FirstStarts, Publish, Managers
    <2> QED
      BY <1>1, <2>1 DEF Publish, WindowInv, FirstStarts, TypeOK
  <1> QED
    BY <1>3, <1>4, <1>6, <1>7, <1>8 DEF WindowInv

LEMMA WindowStep ==
    ASSUME TypeOK, BegunOnly, WindowInv, [Next]_vars
    PROVE  WindowInv'
  <1> USE DEF ffmpeg, disk
  <1>1. CASE StartEngine
    BY <1>1, WindowAtRestart
  <1>2. CASE NextSegment
    BY <1>2, WindowAtSegment
  <1>3. CASE StopEngine \/ Settle \/ UNCHANGED vars
    BY <1>3, WindowAtOthers DEF StopEngine, Settle, vars
  <1>4. ASSUME NEW m \in Managers, Clean(m)
        PROVE  WindowInv'
    BY <1>4, WindowAtClean
  <1>5. ASSUME NEW m \in Managers, Exit(m)
        PROVE  WindowInv'
    <2>1. \A q \in Managers : /\ manager'[q] \in {"clean", "scan"} => manager'[q] = manager[q]
                              /\ manager[q] \in {"none", "clean"} => manager'[q] = manager[q]
      BY <1>5 DEF Exit, TypeOK
    <2> QED
      BY <1>5, <2>1, WindowAtOthers DEF Exit
  <1>6. ASSUME NEW m \in Managers, Promote(m)
        PROVE  WindowInv'
    BY <1>6, WindowAtPromote
  <1>7. ASSUME NEW m \in Managers, Publish(m)
        PROVE  WindowInv'
    BY <1>7, WindowAtPublish
  <1> QED
    BY <1>1, <1>2, <1>3, <1>4, <1>5, <1>6, <1>7 DEF Next

LEMMA TypesAndWindow == Spec => [](TypeOK /\ BegunOnly /\ WindowInv)
  <1>1. TypeOK /\ BegunOnly /\ TypeOK' /\ BegunOnly' /\ WindowInv /\ [Next]_vars => WindowInv'
    BY WindowStep
  <1> QED
    BY <1>1, WindowAtStart, TypesAndBegun, PTL DEF Spec

\* Theorem: a list names consecutive segments, each on disk, before a restart and again
\* as soon as its segments are all of the new ffmpeg, whatever order the files of one
\* promotion are moved in and however many goroutines move them.
THEOREM ListNamesAWindow == Spec => []ListIsWindow
  <1>1. Init => ListIsWindow
    BY DEF Init, NoList, ListIsWindow, Consecutive
  <1>2. TypeOK /\ BegunOnly /\ WindowInv /\ ListIsWindow /\ [Next]_vars => ListIsWindow'
    <2> SUFFICES ASSUME TypeOK, BegunOnly, WindowInv, ListIsWindow, [Next]_vars
                 PROVE  ListIsWindow'
      OBVIOUS
    <2>1. CASE UNCHANGED playlist
      BY <2>1 DEF ListIsWindow, Consecutive
    <2>2. ASSUME NEW m \in Managers, Publish(m), playlist' # playlist
          PROVE  ListIsWindow'
      <3> DEFINE n == Cardinality(Present(slot))
                 t == top[m]
      <3>1. Present(slot) # {} /\ n \in 0 .. Slots /\ playlist' = ListOf(n, t)
        BY <2>2, PublishLists
      <3>2. PICK lo \in Nat : Filled(slot, lo)
        BY DEF WindowInv
      <3>3. base \in Nat /\ t \in -1 .. MaxIndex
        BY DEF TypeOK
      <3>4. playlist'.base = base /\ Len(playlist'.segs) = n
        <4> HIDE DEF n, t
        <4> QED
          BY <3>1, <3>3, ListOfTypes
      <3>5. base = 0 => \A j \in 1 .. n : playlist'.segs[j] > base
        <4> SUFFICES ASSUME base = 0, NEW j \in 1 .. n
                     PROVE  ListOf(n, t).segs[j] > base
          BY <3>1
        <4> HIDE DEF t
        <4> QED
          BY <3>1, <3>2, NoEmptyEntry
      <3> SUFFICES ASSUME \A j \in 1 .. n : playlist'.segs[j] > base
                   PROVE  /\ Consecutive(playlist'.segs)
                          /\ \A i \in 1 .. n : playlist'.segs[i] # 0
        BY <3>4, <3>5 DEF ListIsWindow
      <3>6. \A j \in 1 .. n : playlist'.segs[j] = base + lo - n + j
        <4> SUFFICES ASSUME NEW j \in 1 .. n
                     PROVE  ListOf(n, t).segs[j] = base + lo - n + j
          BY <3>1
        <4>1. ListOf(n, t).segs[j] > base
          BY <3>1
        <4> HIDE DEF n, t
        <4> QED
          BY <3>1, <3>2, <4>1, EntryIsInPlace
      <3>7. n \in Int
        BY <3>1
      <3> HIDE DEF n, t
      <3>8. Consecutive(playlist'.segs)
        <4> SUFFICES ASSUME NEW i \in 1 .. n - 1
                     PROVE  playlist'.segs[i+1] = playlist'.segs[i] + 1
          BY <3>4 DEF Consecutive
        <4>1. i \in 1 .. n /\ i + 1 \in 1 .. n
          BY <3>7
        <4>2. playlist'.segs[i] = base + lo - n + i /\ playlist'.segs[i+1] = base + lo - n + (i + 1)
          BY <3>6, <4>1
        <4> QED
          BY <3>3, <3>7, <4>2
      <3> QED
        BY <3>3, <3>8
    <2> QED
      BY <2>1, <2>2 DEF Next, vars, StartEngine, StopEngine, NextSegment, Settle, Clean, Exit,
                        Promote, ffmpeg, disk
  <1> QED
    BY <1>1, <1>2, TypesAndWindow, PTL DEF Spec

\* Theorem: with one goroutine, the sequence number of a list runs one or two ahead of
\* its first segment, for any number of slots: the promotion before it left the newest
\* file or two, and nothing is moved until the list is written.
THEOREM NumbersStayNear == Spec => []SequenceNearSegments
  <1>1. Init => SequenceNearSegments
    BY DEF Init, SequenceNearSegments
  <1>2. TypeOK /\ BegunOnly /\ WindowInv /\ SequenceNearSegments /\ [Next]_vars
            => SequenceNearSegments'
    <2> SUFFICES ASSUME TypeOK, BegunOnly, WindowInv, SequenceNearSegments, [Next]_vars
                 PROVE  SequenceNearSegments'
      OBVIOUS
    <2>1. CASE UNCHANGED <<gen, playlist>>
      BY <2>1 DEF SequenceNearSegments
    <2>2. CASE StartEngine
      <3>1. gen' = gen + 1 /\ playlist' = playlist /\ gen \in Nat
        BY <2>2 DEF StartEngine, TypeOK
      <3>2. gen' = 1 => playlist' = NoList
        BY <3>1 DEF WindowInv, FirstStarts
      <3>3. NoList.segs = <<>>
        BY DEF NoList
      <3> QED
        BY <3>2, <3>3 DEF SequenceNearSegments
    <2>3. ASSUME NEW m \in Managers, Publish(m), playlist' # playlist
          PROVE  SequenceNearSegments'
      <3> DEFINE n == Cardinality(Present(slot))
                 t == top[m]
      <3>1. Present(slot) # {} /\ n \in 0 .. Slots /\ playlist' = ListOf(n, t)
        BY <2>3, PublishLists
      <3>2. t \in -1 .. MaxIndex /\ MaxIndex \in Nat /\ Slots \in Nat \ {0}
        BY PlaylistAssumption DEF TypeOK
      <3>3. n >= 1
        <4>1. IsFiniteSet(SlotIds)
          BY FS_Interval, PlaylistAssumption DEF SlotIds
        <4>2. Present(slot) \subseteq SlotIds
          BY DEF Present, TypeOK
        <4>3. IsFiniteSet(Present(slot)) /\ n # 0
          BY <3>1, <4>1, <4>2, FS_Subset, FS_EmptySet
        <4> QED
          BY <3>1, <3>2, <4>3
      <3>4. gen' = gen /\ manager[m] = "scan"
        BY <2>3 DEF Publish, ffmpeg
      <3> SUFFICES ASSUME gen = 1
                   PROVE  playlist'.seq - (playlist'.segs[1] - 1) \in {1, 2}
        BY <3>4 DEF SequenceNearSegments
      <3>5. PICK lo \in Nat : Filled(slot, lo) /\ NearTop(lo)
        BY DEF WindowInv
      <3>6. lo \in {t - 1, t}
        BY <3>1, <3>4, <3>5 DEF NearTop
      <3>7. base = 0
        BY DEF WindowInv, FirstStarts
      <3>8. 1 \in 1 .. n
        BY <3>1, <3>3
      <3>9. ListOf(n, t).segs[1] > base
        <4> HIDE DEF t
        <4> QED
          BY <3>1, <3>5, <3>7, <3>8, NoEmptyEntry
      <3> HIDE DEF n, t
      <3>10. ListOf(n, t).segs[1] = base + lo - n + 1
        BY <3>1, <3>5, <3>8, <3>9, EntryIsInPlace
      <3>11. t - n + 1 >= 1
        <4>1. n \in Int /\ lo - n + 1 > 0
          BY <3>1, <3>2, <3>7, <3>9, <3>10
        <4> QED
          BY <4>1, <3>2, <3>6
      <3>12. ListOf(n, t).seq = t - n + 1
        <4>1. Max({0, t - n + 1}) = t - n + 1
          BY <3>1, <3>2, <3>11 DEF Max
        <4> QED
          BY <4>1 DEF ListOf
      <3> QED
        BY <3>1, <3>2, <3>6, <3>7, <3>10, <3>12
    <2> QED
      BY <2>1, <2>2, <2>3 DEF Next, vars, StopEngine, NextSegment, Settle, Clean, Exit,
                              Promote, Publish, ffmpeg, disk
  <1> QED
    BY <1>1, <1>2, TypesAndWindow, PTL DEF Spec
=============================================================================

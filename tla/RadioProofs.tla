----------------------------- MODULE RadioProofs -----------------------------
(***************************************************************************)
(* The three plugins of the radios, for any configuration, any web, any    *)
(* stations and any pages.  The configured radios are listed in their      *)
(* order, each with its own stream, whatever the order in which its        *)
(* threads end.  The place of a list of radio-browser tells exactly what a *)
(* control point has chosen on its way there.  The BBC plugin lists the    *)
(* first programmes of a page which can be streamed, in the order of the   *)
(* page.                                                                   *)
(***************************************************************************)
EXTENDS RadioDirectory, RadioBrowser, BbcPlugin,
        FiniteSetTheorems, SequenceTheorems, WellFoundedInduction, TLAPS

-----------------------------------------------------------------------------
(* The elements of a list at some of its places *)

\* The number of places up to i, and the n-th place.
Upto(places, i) == Cardinality({j \in places : j <= i})
Place(places, n) == CHOOSE i \in places : Upto(places, i) = n

LEMMA LeastPlace ==
    ASSUME NEW T, T \subseteq Nat, T # {}
    PROVE  \E n \in T : \A m \in T : n <= m
<1> DEFINE R == OpToRel(<, Nat)
<1>1. R = {p \in Nat \X Nat : p[1] < p[2]}
    BY Zenon DEF OpToRel
<1>2. IsWellFoundedOn(R, Nat)
    BY NatLessThanWellFounded
<1> HIDE DEF R
<1>3. PICK n \in T : \A m \in T : ~(<<m, n>> \in R)
    BY <1>2, WFMin
<1>4. ASSUME NEW m \in T PROVE n <= m
    <2>1. <<m, n>> \in Nat \X Nat /\ ~(m < n)
        BY <1>1, <1>3
    <2>. QED BY <2>1
<1>. QED BY <1>4

LEMMA UptoCounts ==
    ASSUME NEW n \in Nat, NEW places, \A j \in places : j \in 1..n
    PROVE  /\ Cardinality(places) \in Nat
           /\ \A i \in Nat : Upto(places, i) \in Nat
           /\ Upto(places, 0) = 0 /\ Upto(places, n) = Cardinality(places)
           /\ \A i \in Nat : Upto(places, i + 1)
                = IF i + 1 \in places THEN Upto(places, i) + 1 ELSE Upto(places, i)
           /\ \A i, k \in Nat : i <= k => Upto(places, i) <= Upto(places, k)
           /\ \A i \in Nat, k \in places : i < k => Upto(places, i) < Upto(places, k)
           /\ \A k \in places : Upto(places, k) \in 1..Cardinality(places)
<1> DEFINE before(i) == {j \in places : j <= i}
<1>1. IsFiniteSet(places)
    <2>1. places \in SUBSET (1..n)
        OBVIOUS
    <2>2. IsFiniteSet(1..n)
        BY FS_Interval
    <2>. QED BY <2>1, <2>2, FS_Subset
<1>2. Cardinality(places) \in Nat
    BY <1>1, FS_CardinalityType
<1>3. ASSUME NEW i \in Nat PROVE IsFiniteSet(before(i)) /\ Cardinality(before(i)) \in Nat
    <2>1. before(i) \in SUBSET places
        OBVIOUS
    <2>. QED BY <1>1, <2>1, FS_Subset, FS_CardinalityType
<1>4. before(0) = {} /\ before(n) = places
    <2>1. before(0) = {}
        OBVIOUS
    <2>2. before(n) = places
        OBVIOUS
    <2>. QED BY <2>1, <2>2
<1>5. ASSUME NEW i \in Nat
      PROVE  Cardinality(before(i + 1))
               = IF i + 1 \in places THEN Cardinality(before(i)) + 1 ELSE Cardinality(before(i))
    <2>1. CASE i + 1 \in places
        <3>1. \A j \in places : j <= i + 1 <=> j <= i \/ j = i + 1
            OBVIOUS
        <3>2. before(i + 1) = before(i) \cup {i + 1}
            BY <2>1, <3>1, Zenon
        <3>3. i + 1 \notin before(i)
            OBVIOUS
        <3>. QED BY <1>3, <2>1, <3>2, <3>3, FS_AddElement
    <2>2. CASE i + 1 \notin places
        <3>1. \A j \in places : j <= i + 1 <=> j <= i
            BY <2>2
        <3>2. before(i + 1) = before(i)
            BY <3>1, Zenon
        <3>. QED BY <2>2, <3>2
    <2>. QED BY <2>1, <2>2
<1>6. ASSUME NEW i \in Nat, NEW k \in Nat, i <= k
      PROVE  Cardinality(before(i)) <= Cardinality(before(k))
    <2>1. \A j \in places : j <= i => j <= k
        BY <1>6
    <2>2. before(i) \in SUBSET before(k)
        BY <2>1, Zenon
    <2>. QED BY <1>3, <2>2, FS_Subset
<1>7. ASSUME NEW i \in Nat, NEW k \in places, i < k
      PROVE  Cardinality(before(i)) < Cardinality(before(k))
    <2>1. k \in Nat /\ k \in before(k) /\ k \notin before(i)
        BY <1>7
    <2>3. \A j \in places : j <= i => j <= k
        BY <1>7
    <2>4. before(i) \in SUBSET before(k)
        BY <2>3, Zenon
    <2>2. Cardinality(before(i)) <= Cardinality(before(k))
          /\ Cardinality(before(i)) # Cardinality(before(k))
        BY <1>3, <2>1, <2>4, FS_Subset
    <2>. QED BY <1>3, <2>1, <2>2
<1>8. Cardinality(before(0)) = 0 /\ Cardinality(before(n)) = Cardinality(places)
    BY <1>4, FS_EmptySet
<1> HIDE DEF before
<1>9. ASSUME NEW k \in places PROVE Cardinality(before(k)) \in 1..Cardinality(places)
    <2>1. k \in Nat /\ 0 < k /\ k <= n
        OBVIOUS
    <2>2. Cardinality(before(0)) < Cardinality(before(k))
        BY <1>7, <2>1
    <2>3. Cardinality(before(k)) <= Cardinality(before(n))
        BY <1>6, <2>1
    <2>. QED BY <1>2, <1>3, <1>8, <2>1, <2>2, <2>3
<1>10. \A i : Upto(places, i) = Cardinality(before(i))
    BY DEF Upto, before
<1>. QED BY <1>2, <1>3, <1>5, <1>6, <1>7, <1>8, <1>9, <1>10

\* Every number up to that of the places is that of one place.
LEMMA PlaceIs ==
    ASSUME NEW n \in Nat, NEW places, \A j \in places : j \in 1..n
    PROVE  /\ \A k \in 1..Cardinality(places) :
                Place(places, k) \in places /\ Upto(places, Place(places, k)) = k
           /\ \A i \in places : Place(places, Upto(places, i)) = i
<1>1. ASSUME NEW i \in places, NEW k \in places, Upto(places, i) = Upto(places, k)
      PROVE  i = k
    <2>1. i \in Nat /\ k \in Nat /\ Upto(places, i) \in Nat
        BY UptoCounts
    <2>2. (i < k => Upto(places, i) < Upto(places, k)) /\ (k < i => Upto(places, k) < Upto(places, i))
        BY <2>1, UptoCounts
    <2>3. ~(i < k) /\ ~(k < i)
        BY <1>1, <2>1, <2>2
    <2>. QED BY <2>1, <2>3
<1>2. ASSUME NEW k \in 1..Cardinality(places)
      PROVE  \E i \in places : Upto(places, i) = k
    <2> DEFINE T == {i \in 0..n : Upto(places, i) >= k}
    <2>1. n \in T /\ T \subseteq Nat
        BY UptoCounts
    <2>2. PICK i \in T : \A m \in T : i <= m
        BY <2>1, LeastPlace
    <2>3. i # 0 /\ i - 1 \in Nat /\ i - 1 \notin T
        BY <2>2, UptoCounts
    <2>4. Upto(places, i) \in Nat /\ Upto(places, i - 1) \in Nat
          /\ Upto(places, i) >= k /\ Upto(places, i - 1) < k
        BY <2>2, <2>3, UptoCounts
    <2>5. Upto(places, i) = IF i \in places THEN Upto(places, i - 1) + 1 ELSE Upto(places, i - 1)
        <3>1. (i - 1) + 1 = i
            BY <2>2
        <3>. QED BY <2>3, <3>1, UptoCounts
    <2>. QED BY <2>4, <2>5
<1>3. \A k \in 1..Cardinality(places) :
         Place(places, k) \in places /\ Upto(places, Place(places, k)) = k
    BY <1>2 DEF Place
<1>4. ASSUME NEW i \in places PROVE Place(places, Upto(places, i)) = i
    BY <1>1, <1>3, UptoCounts
<1>. QED BY <1>3, <1>4

LEMMA AtPlacesIs ==
    ASSUME NEW S, NEW list \in Seq(S), NEW places, \A j \in places : j \in 1..Len(list)
    PROVE  /\ AtPlaces(list, places) \in Seq(S)
           /\ Len(AtPlaces(list, places)) = Cardinality(places)
           /\ \A k \in 1..Cardinality(places) : AtPlaces(list, places)[k] = list[Place(places, k)]
<1>1. Len(list) \in Nat /\ \A i \in 1..Len(list) : list[i] \in S
    BY LenProperties, ElementOfSeq
<1>2. AtPlaces(list, places) = [k \in 1..Cardinality(places) |-> list[Place(places, k)]]
    BY DEF AtPlaces, Place, Upto
<1>3. Cardinality(places) \in Nat
    BY <1>1, UptoCounts
<1>4. \A k \in 1..Cardinality(places) : list[Place(places, k)] \in S
    BY <1>1, PlaceIs
<1>. QED BY <1>2, <1>3, <1>4, IsASeq, LenProperties

\* Two sets of places which agree up to one place have the same elements up to there.
LEMMA SameBeginning ==
    ASSUME NEW S, NEW list \in Seq(S), NEW P, \A j \in P : j \in 1..Len(list), NEW Q, \A j \in Q : j \in 1..Len(list),
           NEW last \in 0..Len(list), \A i \in 1..last : i \in P <=> i \in Q,
           NEW r \in Nat, r <= Upto(P, last)
    PROVE  /\ r <= Cardinality(P) /\ r <= Cardinality(Q)
           /\ \A k \in 1..r : AtPlaces(list, P)[k] = AtPlaces(list, Q)[k]
<1>1. Len(list) \in Nat
    BY LenProperties
<1>2. ASSUME NEW i \in 0..last PROVE Upto(P, i) = Upto(Q, i)
    <2>1. {j \in P : j <= i} = {j \in Q : j <= i}
        OBVIOUS
    <2>. QED BY <2>1 DEF Upto
<1>3. r <= Cardinality(P) /\ r <= Cardinality(Q)
    <2>1. ASSUME NEW T, \A j \in T : j \in 1..Len(list)
          PROVE  Upto(T, last) \in Nat /\ Cardinality(T) \in Nat /\ Upto(T, last) <= Cardinality(T)
        <3>1. last \in Nat /\ last <= Len(list)
            BY <1>1
        <3>. QED BY <1>1, <2>1, <3>1, UptoCounts
    <2>2. /\ Upto(P, last) \in Nat /\ Cardinality(P) \in Nat /\ Upto(P, last) <= Cardinality(P)
          /\ Upto(Q, last) \in Nat /\ Cardinality(Q) \in Nat /\ Upto(Q, last) <= Cardinality(Q)
        BY <2>1
    <2>3. Upto(P, last) = Upto(Q, last)
        BY <1>1, <1>2
    <2>. QED BY <2>2, <2>3
<1>6. Cardinality(P) \in Nat /\ Cardinality(Q) \in Nat
    BY <1>1, UptoCounts
<1>7. last \in Nat /\ Upto(P, last) \in Nat
    <2>1. last \in Nat
        BY <1>1
    <2>. QED BY <1>1, <2>1, UptoCounts
<1>8. ASSUME NEW p \in P PROVE p \in Nat /\ (last < p => Upto(P, last) < Upto(P, p))
    <2>1. p \in Nat
        BY <1>1
    <2>. QED BY <1>1, <1>7, <2>1, UptoCounts
<1>4. ASSUME NEW k \in 1..r PROVE Place(P, k) = Place(Q, k)
    <2>1. k \in 1..Cardinality(P)
        BY <1>3, <1>6
    <2>2. Place(P, k) \in P /\ Upto(P, Place(P, k)) = k
        BY <1>1, <2>1, PlaceIs
    <2>3. Place(P, k) <= last
        <3>1. ~(last < Place(P, k))
            BY <1>7, <1>8, <2>2
        <3>. QED BY <1>7, <1>8, <2>2, <3>1
    <2>4. Place(P, k) \in Q /\ Upto(Q, Place(P, k)) = k
        BY <1>1, <1>2, <2>2, <2>3
    <2>. QED BY <1>1, <2>4, PlaceIs
<1>5. ASSUME NEW k \in 1..r PROVE AtPlaces(list, P)[k] = AtPlaces(list, Q)[k]
    <2>1. k \in 1..Cardinality(P) /\ k \in 1..Cardinality(Q)
        BY <1>3, <1>6
    <2>. QED BY <1>4, <2>1, AtPlacesIs
<1>. QED BY <1>3, <1>5
-----------------------------------------------------------------------------
(* Lists *)

IsList(s) == Len(s) \in Nat /\ s = [i \in 1..Len(s) |-> s[i]]

LEMMA ListIsSeq ==
    ASSUME NEW s, IsList(s)
    PROVE  /\ s \in Seq({s[i] : i \in 1..Len(s)})
           /\ DOMAIN s = 1..Len(s)
<1>1. Len(s) \in Nat /\ s = [i \in 1..Len(s) |-> s[i]]
    BY DEF IsList
<1>2. DOMAIN s = 1..Len(s)
    BY <1>1, Zenon
<1>3. \A i \in 1..Len(s) : s[i] \in {s[k] : k \in 1..Len(s)}
    OBVIOUS
<1>4. [i \in 1..Len(s) |-> s[i]] \in Seq({s[k] : k \in 1..Len(s)})
    BY <1>1, <1>3, IsASeq
<1>. QED BY <1>1, <1>2, <1>4, Zenon

LEMMA SeqIsList ==
    ASSUME NEW S, NEW s \in Seq(S)
    PROVE  IsList(s)
<1>1. Len(s) \in Nat /\ s \in [1..Len(s) -> S]
    BY LenProperties
<1>. QED BY <1>1 DEF IsList

LEMMA Appended ==
    ASSUME NEW s, IsList(s), NEW x
    PROVE  /\ IsList(Append(s, x)) /\ Len(Append(s, x)) = Len(s) + 1
           /\ Append(s, x)[Len(s) + 1] = x
           /\ \A i \in 1..Len(s) : Append(s, x)[i] = s[i]
<1> DEFINE S == {s[i] : i \in 1..Len(s)} \cup {x}
<1>1. s \in Seq(S) /\ x \in S
    <2>1. s \in Seq({s[i] : i \in 1..Len(s)})
        BY ListIsSeq
    <2>2. Len(s) \in Nat /\ \A i \in 1..Len(s) : s[i] \in S
        BY DEF IsList
    <2>3. [i \in 1..Len(s) |-> s[i]] \in Seq(S)
        BY <2>2, IsASeq
    <2>. QED BY <2>3 DEF IsList
<1> HIDE DEF S
<1>2. Append(s, x) \in Seq(S) /\ Len(Append(s, x)) = Len(s) + 1
      /\ Append(s, x)[Len(s) + 1] = x /\ \A i \in 1..Len(s) : Append(s, x)[i] = s[i]
    BY <1>1, AppendProperties
<1>3. IsList(Append(s, x))
    BY <1>2, SeqIsList
<1>. QED BY <1>2, <1>3

\* What is put at one place of a list.
Put(s, k, x) == [s EXCEPT ![k] = x]

LEMMA Replaced ==
    ASSUME NEW s, IsList(s), NEW k \in 1..Len(s), NEW x
    PROVE  /\ IsList(Put(s, k, x)) /\ Len(Put(s, k, x)) = Len(s)
           /\ \A i \in 1..Len(s) : Put(s, k, x)[i] = IF i = k THEN x ELSE s[i]
<1> DEFINE S == {s[i] : i \in 1..Len(s)} \cup {x}
<1>1. s \in Seq(S) /\ x \in S
    <2>2. Len(s) \in Nat /\ \A i \in 1..Len(s) : s[i] \in S
        BY DEF IsList
    <2>3. [i \in 1..Len(s) |-> s[i]] \in Seq(S)
        BY <2>2, IsASeq
    <2>. QED BY <2>3 DEF IsList
<1> HIDE DEF S
<1>2. Put(s, k, x) \in Seq(S) /\ Len(Put(s, k, x)) = Len(s)
      /\ \A i \in 1..Len(s) : Put(s, k, x)[i] = IF i = k THEN x ELSE s[i]
    BY <1>1, ExceptSeq DEF Put
<1>3. IsList(Put(s, k, x))
    BY <1>2, SeqIsList
<1>. QED BY <1>2, <1>3

LEMMA EmptyList == IsList(<<>>) /\ Len(<<>>) = 0
<1>1. <<>> \in Seq({})
    OBVIOUS
<1>. QED BY <1>1, SeqIsList

\* The elements of a list which an increasing numbering names are those at its places.
LEMMA Increasing ==
    ASSUME NEW n \in Nat, NEW m \in Nat, NEW of \in [1..n -> 1..m],
           \A i, k \in 1..n : i < k => of[i] < of[k]
    PROVE  LET S == {of[i] : i \in 1..n}
           IN  S \in SUBSET (1..m) /\ Cardinality(S) = n /\ \A k \in 1..n : Place(S, k) = of[k]
<1> DEFINE S == {of[i] : i \in 1..n}
           Upper(k) == {of[i] : i \in 1..k}
<1>1. S \in SUBSET (1..m)
    OBVIOUS
<1>2. \A i, k \in 1..n : of[i] = of[k] => i = k
    <2> SUFFICES ASSUME NEW i \in 1..n, NEW k \in 1..n, of[i] = of[k] PROVE i = k
        OBVIOUS
    <2>1. of[i] \in Nat /\ of[k] \in Nat
        OBVIOUS
    <2>2. ~(i < k) /\ ~(k < i)
        BY <2>1
    <2>. QED BY <2>2
<1>3. ASSUME NEW k \in 0..n PROVE Cardinality(Upper(k)) = k
    <2> DEFINE f == [i \in 1..k |-> of[i]]
    <2>1. \A i \in 1..k : i \in 1..n
        OBVIOUS
    <2>2. f \in [1..k -> Upper(k)]
        OBVIOUS
    <2>3. \A a, b \in 1..k : f[a] = f[b] => a = b
        BY <1>2, <2>1
    <2>4. \A t \in Upper(k) : \E i \in 1..k : f[i] = t
        OBVIOUS
    <2>5. DOMAIN f = 1..k
        OBVIOUS
    <2> HIDE DEF f, Upper
    <2>6. f \in Bijection(1..k, Upper(k))
        BY <2>2, <2>3, <2>4, <2>5, Zenon DEF Bijection, Injection, Surjection, IsInjective
    <2>7. IsFiniteSet(1..k) /\ Cardinality(1..k) = k
        BY FS_Interval
    <2>8. ExistsBijection(1..k, Upper(k))
        BY <2>6 DEF ExistsBijection
    <2>. QED BY <2>7, <2>8, FS_Bijection
<1>4. S = Upper(n)
    OBVIOUS
<1>5. Cardinality(S) = n
    BY <1>3, <1>4
<1>6. ASSUME NEW k \in 1..n PROVE Place(S, k) = of[k]
    <2>1. \A i \in 1..n : of[i] <= of[k] <=> i <= k
        <3> SUFFICES ASSUME NEW i \in 1..n PROVE of[i] <= of[k] <=> i <= k
            OBVIOUS
        <3>1. of[i] \in Nat /\ of[k] \in Nat /\ (i < k => of[i] < of[k]) /\ (k < i => of[k] < of[i])
            OBVIOUS
        <3>2. i < k \/ i = k \/ k < i
            OBVIOUS
        <3>. QED BY <3>1, <3>2
    <2>2. {j \in S : j <= of[k]} = Upper(k)
        <3>1. ASSUME NEW j \in S, j <= of[k] PROVE j \in Upper(k)
            <4>1. PICK i \in 1..n : j = of[i]
                OBVIOUS
            <4>2. i \in 1..k
                BY <2>1, <3>1, <4>1
            <4>. QED BY <4>1, <4>2
        <3>2. ASSUME NEW j \in Upper(k) PROVE j \in S /\ j <= of[k]
            <4>1. PICK i \in 1..k : j = of[i]
                OBVIOUS
            <4>2. i \in 1..n /\ i <= k
                OBVIOUS
            <4>. QED BY <2>1, <4>1, <4>2
        <3>. QED BY <3>1, <3>2
    <2>3. Upto(S, of[k]) = k
        <3>1. k \in 0..n
            OBVIOUS
        <3>. QED BY <1>3, <2>2, <3>1 DEF Upto
    <2>4. of[k] \in S
        OBVIOUS
    <2>5. \A j \in S : j \in 1..m
        BY <1>1
    <2> HIDE DEF S
    <2>. QED BY <2>3, <2>4, <2>5, PlaceIs
<1>. QED BY <1>1, <1>5, <1>6

-----------------------------------------------------------------------------
(* The configured radios: the inductive invariant *)

\* The stations which were meant, the radios of the file at hand, and where the places begin which
\* its threads were given: those before are of the stations of the files which were read.
Promised == Confs[files].stations
RadioKeys(c) == {i \in DOMAIN getSubKeys_unsorted(c) : IsRadio(getSubKeys_unsorted(c)[i])}
Earlier == IF pc = "serving" THEN Len(Promised) ELSE IF at.file = 1 THEN 0 ELSE Len(StationsOf(Opened(1)))
Kept == Len(radios) - Len(threads)

RadioOf(station) == [title |-> station[1], stream |-> MeantFrom(station[2]), uri |-> station[2]]
Lists(i, j) == Promised[j][2] # NoUrl /\ radios[i] = RadioOf(Promised[j])

\* How far the loading is.
ReadingPlace ==
    /\ files \in DOMAIN Confs /\ down \in SUBSET Flaky
    /\ pc \in {"keys", "join", "final", "serving"}
    /\ at.file \in 1..2 /\ at = [file |-> at.file, key |-> at.key]
    /\ at.key \in 1..(Len(Sections) + 1)
    /\ conf = Opened(at.file)
    /\ pc \in {"final", "serving"} => at.key = Len(Sections) + 1
    /\ pc = "serving" => at.file = 2
    /\ IsList(radios) /\ IsList(threads) /\ Kept \in Nat
    /\ Len(threads) = IF pc = "serving" THEN 0 ELSE Upto(RadioKeys(conf), at.key - 1)

\* The radios which were kept: in order, each that of its station, and none is missing which is reliable.
KeptAs(of) ==
    /\ \A i, k \in 1..Kept : i < k => of[i] < of[k]
    /\ \A i \in 1..Kept : Lists(i, of[i])
    /\ \A j \in 1..Earlier : Promised[j][2] \in Reliable => \E i \in 1..Kept : of[i] = j
KeptRadios == \E of \in [1..Kept -> 1..Earlier] : KeptAs(of)

\* An address on the way of a station.
Follows(url, from) ==
    /\ NotThere(url) \/ MeantFrom(url) = MeantFrom(from)
    /\ from \in Reliable => url \in Reliable
    /\ from = NoUrl => url = NoUrl

\* A thread has the next place for the next station.
Thread(k) ==
    LET t == threads[k]
        s == Promised[Earlier + k]
    IN  /\ t = [idx |-> Kept + k, title |-> s[1], uri |-> s[2], info |-> t.info, doing |-> t.doing]
        /\ t.info = UrlInfo(t.info.kind, t.info.url, t.info.decoder)
        /\ t.doing \in {"info", "extract", "done"}
        /\ radios[Kept + k] = NoRadio \/ Lists(Kept + k, Earlier + k)
        /\ t.doing = "done" /\ s[2] \in Reliable => radios[Kept + k] # NoRadio
        /\ t.doing # "done" => Follows(t.info.url, s[2])
        /\ t.doing = "extract" => \E d \in SUBSET Flaky : t.info = getMediaStreamInfo(t.info.url, d) /\ t.info.kind = "playlist"

Answered ==
    answer.flag = "children" => pc = "serving" /\ RadiosServed

DirInv ==
    IF pc = "off" THEN answer = NoListing /\ threads = <<>>
    ELSE ReadingPlace /\ KeptRadios /\ (\A k \in 1..Len(threads) : Thread(k)) /\ Answered

-----------------------------------------------------------------------------
(* The configured radios: the stations of a file, and the way to a stream *)

AddressOf(c, k) == IF get(c, <<"url">>, k) = NoValue THEN NoUrl ELSE get(c, <<"url">>, k)

LEMMA StationsAre ==
    ASSUME ConfsAsMeant, NEW n \in DOMAIN Confs, NEW f \in 1..2
    PROVE  LET c == Parsed[n][f]
               keys == getSubKeys_unsorted(c)
           IN  /\ Len(keys) \in Nat /\ \A i \in RadioKeys(c) : i \in 1..Len(keys)
               /\ IsList(StationsOf(c)) /\ Len(StationsOf(c)) = Cardinality(RadioKeys(c))
               /\ \A i \in 1..Cardinality(RadioKeys(c)) :
                    StationsOf(c)[i] = <<Tail(keys[Place(RadioKeys(c), i)]), AddressOf(c, keys[Place(RadioKeys(c), i)])>>
<1> DEFINE c == Parsed[n][f]
           keys == getSubKeys_unsorted(c)
           sections == AtPlaces(keys, RadioKeys(c))
<1>1. keys \in Seq(Seq(STRING))
    BY DEF ConfsAsMeant
<1> HIDE DEF c
<1>2. Len(keys) \in Nat /\ DOMAIN keys = 1..Len(keys)
    BY <1>1, LenProperties
<1>3. RadioKeys(c) = {i \in 1..Len(keys) : IsRadio(keys[i])}
    BY <1>2 DEF RadioKeys
<1>4. \A i \in RadioKeys(c) : i \in 1..Len(keys)
    BY <1>3
<1> HIDE DEF keys
<1>5. /\ sections \in Seq(Seq(STRING)) /\ Len(sections) = Cardinality(RadioKeys(c))
      /\ \A i \in 1..Cardinality(RadioKeys(c)) : sections[i] = keys[Place(RadioKeys(c), i)]
    BY <1>1, <1>4, AtPlacesIs
<1>6. Len(sections) \in Nat /\ DOMAIN sections = 1..Len(sections)
    BY <1>5, LenProperties
<1>7. StationsOf(c) = [i \in DOMAIN sections |-> <<Tail(sections[i]), AddressOf(c, sections[i])>>]
    BY Zenon DEF StationsOf, AddressOf, RadioKeys, keys
<1> HIDE DEF sections
<1> DEFINE station(i) == <<Tail(sections[i]), AddressOf(c, sections[i])>>
<1>8. StationsOf(c) = [i \in 1..Len(sections) |-> station(i)]
    BY <1>6, <1>7
<1>9. \A i \in 1..Len(sections) : StationsOf(c)[i] = <<Tail(sections[i]), AddressOf(c, sections[i])>>
    BY <1>8
<1>10. IsList(StationsOf(c)) /\ Len(StationsOf(c)) = Len(sections)
    <2> HIDE DEF station
    <2>1. \A i \in 1..Len(sections) : station(i) \in {station(j) : j \in 1..Len(sections)}
        OBVIOUS
    <2>2. [i \in 1..Len(sections) |-> station(i)] \in Seq({station(j) : j \in 1..Len(sections)})
        BY <1>6, <2>1, IsASeq
    <2>3. DOMAIN StationsOf(c) = 1..Len(sections)
        BY <1>8
    <2>4. IsList(StationsOf(c)) /\ DOMAIN StationsOf(c) = 1..Len(StationsOf(c))
        BY <1>8, <2>2, SeqIsList, ListIsSeq
    <2>. QED BY <1>6, <2>3, <2>4 DEF IsList
<1>. QED BY <1>2, <1>4, <1>5, <1>9, <1>10 DEF c, keys

LEMMA PromisedAre ==
    ASSUME ConfsAsMeant, files \in DOMAIN Confs
    PROVE  LET first == StationsOf(Opened(1))
               second == StationsOf(Opened(2))
           IN  /\ IsList(Promised) /\ DOMAIN Promised = 1..Len(Promised)
               /\ Len(first) \in Nat /\ Len(second) \in Nat /\ Len(Promised) = Len(first) + Len(second)
               /\ \A i \in 1..Len(first) : Promised[i] = first[i]
               /\ \A i \in 1..Len(second) : Promised[Len(first) + i] = second[i]
               /\ \A j \in 1..Len(Promised) : /\ Promised[j][2] \in DOMAIN Meant \cup {NoUrl}
                                              /\ Promised[j] = <<Promised[j][1], Promised[j][2]>>
<1> DEFINE first == StationsOf(Opened(1))
           second == StationsOf(Opened(2))
           S == {first[i] : i \in 1..Len(first)} \cup {second[i] : i \in 1..Len(second)}
<1>1. IsList(first) /\ IsList(second)
    BY StationsAre DEF Opened
<1>9. /\ \A i \in 1..Len(first) : first[i] = <<first[i][1], first[i][2]>>
      /\ \A i \in 1..Len(second) : second[i] = <<second[i][1], second[i][2]>>
    <2>1. ASSUME NEW f \in 1..2, NEW i \in 1..Len(StationsOf(Opened(f)))
          PROVE  StationsOf(Opened(f))[i] = <<StationsOf(Opened(f))[i][1], StationsOf(Opened(f))[i][2]>>
        <3>1. i \in 1..Cardinality(RadioKeys(Parsed[files][f]))
            BY StationsAre DEF Opened
        <3> DEFINE c == Parsed[files][f]
                   k == getSubKeys_unsorted(c)[Place(RadioKeys(c), i)]
        <3>2. StationsOf(c)[i] = <<Tail(k), AddressOf(c, k)>>
            BY <3>1, StationsAre
        <3> HIDE DEF c, k
        <3>3. StationsOf(c)[i] = <<StationsOf(c)[i][1], StationsOf(c)[i][2]>>
            BY <3>2
        <3>. QED BY <3>3 DEF Opened, c
    <2>. QED BY <2>1
<1>2. Promised = first \o second /\ \A j \in DOMAIN Promised : Promised[j][2] \in DOMAIN Meant \cup {NoUrl}
    BY DEF ConfsAsMeant, Promised, Opened
<1> HIDE DEF first, second
<1>3. Len(first) \in Nat /\ Len(second) \in Nat
    BY <1>1 DEF IsList
<1>4. first \in Seq(S) /\ second \in Seq(S)
    <2>1. (\A i \in 1..Len(first) : first[i] \in S) /\ (\A i \in 1..Len(second) : second[i] \in S)
        OBVIOUS
    <2> HIDE DEF S
    <2>2. [i \in 1..Len(first) |-> first[i]] \in Seq(S) /\ [i \in 1..Len(second) |-> second[i]] \in Seq(S)
        BY <1>3, <2>1, IsASeq
    <2>. QED BY <1>1, <2>2 DEF IsList
<1> HIDE DEF S
<1>5. /\ Promised \in Seq(S) /\ Len(Promised) = Len(first) + Len(second)
      /\ \A i \in 1..(Len(first) + Len(second)) :
           Promised[i] = IF i <= Len(first) THEN first[i] ELSE second[i - Len(first)]
    BY <1>2, <1>4, ConcatProperties
<1>6. IsList(Promised) /\ DOMAIN Promised = 1..Len(Promised)
    BY <1>5, SeqIsList, LenProperties
<1>7. \A i \in 1..Len(first) : Promised[i] = first[i]
    BY <1>3, <1>5
<1>8. \A i \in 1..Len(second) : Promised[Len(first) + i] = second[i]
    <2> SUFFICES ASSUME NEW i \in 1..Len(second) PROVE Promised[Len(first) + i] = second[i]
        OBVIOUS
    <2>1. Len(first) + i \in 1..(Len(first) + Len(second)) /\ ~(Len(first) + i <= Len(first))
          /\ (Len(first) + i) - Len(first) = i
        BY <1>3
    <2>. QED BY <1>5, <2>1
<1>10. \A j \in 1..Len(Promised) : Promised[j] = <<Promised[j][1], Promised[j][2]>>
    <2> SUFFICES ASSUME NEW j \in 1..Len(Promised) PROVE Promised[j] = <<Promised[j][1], Promised[j][2]>>
        OBVIOUS
    <2>1. CASE j <= Len(first)
        BY <1>3, <1>7, <1>9, <2>1
    <2>2. CASE ~(j <= Len(first))
        <3>1. j - Len(first) \in 1..Len(second) /\ Len(first) + (j - Len(first)) = j
            BY <1>3, <1>5, <2>2
        <3>2. Promised[j] = second[j - Len(first)]
            BY <1>8, <3>1
        <3>. QED BY <1>9, <3>1, <3>2
    <2>. QED BY <2>1, <2>2
<1>. QED BY <1>2, <1>3, <1>5, <1>6, <1>7, <1>8, <1>10 DEF first, second

\* What fetchStream.py gets from one address, whether or not it is one of those which were meant.
LEMMA Leads ==
    ASSUME LeadsAsMeant, NEW d1 \in SUBSET Flaky, NEW d2 \in SUBSET Flaky, NEW u
    PROVE  LET info == getMediaStreamInfo(u, d1)
               next == NextUrl(info, d2)
           IN  /\ info = UrlInfo(info.kind, info.url, info.decoder)
               /\ info.kind = "stream" => u # NoUrl /\ info.url = MeantFrom(u) /\ ~NotThere(u)
               /\ info.kind = "playlist" => /\ u # NoUrl /\ info.url = u /\ ~NotThere(u)
                                            /\ next # NoUrl => Follows(next, u)
               /\ u \in Reliable => /\ u # NoUrl
                                    /\ info.kind = "stream" \/ (info.kind = "playlist" /\ next \in Reliable \ {NoUrl})
<1> DEFINE info == getMediaStreamInfo(u, d1)
           next == NextUrl(info, d2)
<1>1. \/ info = Failed
      \/ u # NoUrl /\ Head(u) # "http" /\ info = UrlInfo("stream", u, "none")
      \/ u # NoUrl /\ u \in DOMAIN Web /\ \E to : info = UrlInfo("stream", to, "none")
      \/ u # NoUrl /\ u \in DOMAIN Web /\ \E decoder : info = UrlInfo("playlist", u, decoder)
    BY DEF getMediaStreamInfo
<1>2. /\ u = NoUrl => info = Failed
      /\ Failed.kind = "failed"
    BY DEF getMediaStreamInfo, Failed, UrlInfo
<1> HIDE DEF info
<1>3. info = UrlInfo(info.kind, info.url, info.decoder)
    BY <1>1 DEF UrlInfo, Failed
<1>4. u \in DOMAIN Web \cup DOMAIN Meant \cup Reliable =>
        /\ info.kind = "stream" => info.url = MeantFrom(u)
        /\ info.kind = "playlist" => next = NoUrl \/ NotThere(next) \/ MeantFrom(next) = MeantFrom(u)
        /\ u \in Reliable => info.kind = "stream" \/ (info.kind = "playlist" /\ next \in Reliable \ {NoUrl})
    BY DEF LeadsAsMeant, info
<1>5. info.kind = "stream" => u # NoUrl /\ info.url = MeantFrom(u)
    <2>1. CASE u \in DOMAIN Web \cup DOMAIN Meant \cup Reliable
        BY <1>2, <1>4, <2>1
    <2>2. CASE u \notin DOMAIN Web \cup DOMAIN Meant \cup Reliable
        <3>1. MeantFrom(u) = u
            BY <2>2 DEF MeantFrom
        <3>2. info = Failed \/ (u # NoUrl /\ info = UrlInfo("stream", u, "none"))
            BY <1>1, <2>2
        <3>. QED BY <1>2, <3>1, <3>2 DEF UrlInfo
    <2>. QED BY <2>1, <2>2
<1>6. info.kind = "playlist" => u \in DOMAIN Web /\ u # NoUrl /\ info.url = u
    BY <1>1, <1>2 DEF UrlInfo
<1>7. u \in Reliable => u # NoUrl
    BY <1>2, <1>4
<1>8. info.kind = "playlist" /\ next # NoUrl => Follows(next, u)
    BY <1>4, <1>6 DEF Follows
<1>9. info.kind \in {"stream", "playlist"} => ~NotThere(u)
    BY <1>1, <1>2 DEF NotThere
<1>. QED BY <1>3, <1>4, <1>5, <1>6, <1>7, <1>8, <1>9 DEF info

-----------------------------------------------------------------------------
(* The configured radios: the steps *)

LEMMA Known ==
    ASSUME ConfsAsMeant, ReadingPlace
    PROVE  /\ Earlier \in Nat /\ Len(Promised) \in Nat /\ Earlier + Len(threads) <= Len(Promised)
           /\ pc # "serving" =>
                /\ Earlier + Len(StationsOf(conf)) <= Len(Promised)
                /\ \A k \in 1..Len(StationsOf(conf)) : Promised[Earlier + k] = StationsOf(conf)[k]
           /\ pc = "final" => Len(threads) = Len(StationsOf(conf))
<1>1. /\ files \in DOMAIN Confs /\ at.file \in 1..2 /\ conf = Opened(at.file) /\ conf = Parsed[files][at.file]
    BY DEF ReadingPlace, Opened
<1>2. /\ Len(StationsOf(Opened(1))) \in Nat /\ Len(StationsOf(Opened(2))) \in Nat
      /\ Len(Promised) = Len(StationsOf(Opened(1))) + Len(StationsOf(Opened(2)))
      /\ \A i \in 1..Len(StationsOf(Opened(1))) : Promised[i] = StationsOf(Opened(1))[i]
      /\ \A i \in 1..Len(StationsOf(Opened(2))) :
           Promised[Len(StationsOf(Opened(1))) + i] = StationsOf(Opened(2))[i]
    BY <1>1, PromisedAre
<1>3. /\ Len(Sections) \in Nat /\ \A i \in RadioKeys(conf) : i \in 1..Len(Sections)
      /\ Len(StationsOf(conf)) = Cardinality(RadioKeys(conf)) /\ Len(StationsOf(conf)) \in Nat
    <2>1. IsList(StationsOf(conf))
        BY <1>1, StationsAre
    <2>2. Len(StationsOf(conf)) \in Nat
        BY <2>1 DEF IsList
    <2>. QED BY <1>1, <2>2, StationsAre DEF Sections
<1>4. CASE pc = "serving"
    BY <1>2, <1>4 DEF Earlier, ReadingPlace
<1>5. CASE pc # "serving"
    <2>1. Len(threads) = Upto(RadioKeys(conf), at.key - 1) /\ at.key - 1 \in Nat /\ at.key - 1 <= Len(Sections)
        BY <1>3, <1>5 DEF ReadingPlace
    <2>2. Len(threads) \in Nat /\ Len(threads) <= Len(StationsOf(conf))
        <3>1. /\ Upto(RadioKeys(conf), at.key - 1) <= Upto(RadioKeys(conf), Len(Sections))
              /\ Upto(RadioKeys(conf), Len(Sections)) = Cardinality(RadioKeys(conf))
              /\ Upto(RadioKeys(conf), at.key - 1) \in Nat
            BY <1>3, <2>1, UptoCounts
        <3>. QED BY <1>3, <2>1, <3>1
    <2>3. pc = "final" => Len(threads) = Len(StationsOf(conf))
        <3>1. ASSUME pc = "final" PROVE at.key - 1 = Len(Sections)
            BY <1>3, <3>1 DEF ReadingPlace
        <3>. QED BY <1>3, <2>1, <3>1, UptoCounts
    <2>4. Earlier = IF at.file = 1 THEN 0 ELSE Len(StationsOf(Opened(1)))
        BY <1>5 DEF Earlier
    <2>5. CASE at.file = 1
        <3>1. Earlier = 0 /\ conf = Opened(1)
            BY <1>1, <2>4, <2>5
        <3>2. \A k \in 1..Len(StationsOf(conf)) : Promised[Earlier + k] = StationsOf(conf)[k]
            <4>1. \A k \in 1..Len(StationsOf(conf)) : Earlier + k = k
                BY <3>1
            <4>. QED BY <1>2, <3>1, <4>1
        <3>. QED BY <1>2, <1>3, <2>2, <2>3, <3>1, <3>2
    <2>6. CASE at.file = 2
        <3>1. Earlier = Len(StationsOf(Opened(1)))
            BY <2>4, <2>6
        <3>2. conf = Opened(2)
            BY <1>1, <2>6
        <3>. QED BY <1>2, <1>3, <2>2, <2>3, <3>1, <3>2
    <2>. QED BY <1>1, <2>5, <2>6
<1>. QED BY <1>4, <1>5

LEMMA RadioIsSome == \A s : s[2] # NoUrl => RadioOf(s) # NoRadio
BY DEF RadioOf, NoRadio

\* A step which leaves the lists alone.
LEMMA ListsStay ==
    ASSUME DirInv, pc # "off", UNCHANGED <<files, conf, at, radios, threads>>,
           down' \in SUBSET Flaky, pc' = pc \/ (pc # "serving" /\ pc' \in {"keys", "join", "final"}),
           pc' = "final" => at.key = Len(Sections) + 1
    PROVE  ReadingPlace' /\ KeptRadios' /\ (\A k \in 1..Len(threads') : Thread(k)') /\ pc' # "off"
<1>1. ReadingPlace /\ KeptRadios /\ (\A k \in 1..Len(threads) : Thread(k)) /\ Answered
    BY DEF DirInv
<1>2. pc' = "serving" <=> pc = "serving"
    OBVIOUS
<1>3. /\ Promised' = Promised /\ Kept' = Kept /\ Earlier' = Earlier /\ Sections' = Sections
      /\ \A i, j : Lists(i, j)' <=> Lists(i, j)
    BY <1>2 DEF Promised, Kept, Earlier, Sections, Lists, Opened
<1>4. ReadingPlace'
    BY <1>1, <1>2, <1>3 DEF ReadingPlace, Opened
<1>5. KeptRadios'
    <2>1. PICK of \in [1..Kept -> 1..Earlier] : KeptAs(of)
        BY <1>1 DEF KeptRadios
    <2>2. KeptAs(of)'
        BY <1>3, <2>1 DEF KeptAs
    <2>. QED BY <1>3, <2>1, <2>2 DEF KeptRadios
<1>6. \A k \in 1..Len(threads') : Thread(k)'
    BY <1>1, <1>3 DEF Thread
<1>8. pc' # "off"
    BY <1>1 DEF ReadingPlace
<1>. QED BY <1>4, <1>5, <1>6, <1>8

\* A step of one thread: it still follows its station, or it has ended.
LEMMA ThreadMoves ==
    ASSUME ConfsAsMeant, DirInv, pc # "off", NEW i \in 1..Len(threads), NEW info, NEW does,
           threads' = [threads EXCEPT ![i] = [idx |-> Kept + i, title |-> Promised[Earlier + i][1],
                                              uri |-> Promised[Earlier + i][2], info |-> info, doing |-> does]],
           \/ radios' = radios
           \/ Promised[Earlier + i][2] # NoUrl /\ radios' = [radios EXCEPT ![Kept + i] = RadioOf(Promised[Earlier + i])],
           info = UrlInfo(info.kind, info.url, info.decoder), does \in {"info", "extract", "done"},
           does = "done" /\ Promised[Earlier + i][2] \in Reliable => radios'[Kept + i] # NoRadio,
           does # "done" => Follows(info.url, Promised[Earlier + i][2]),
           does = "extract" => \E d \in SUBSET Flaky : info = getMediaStreamInfo(info.url, d) /\ info.kind = "playlist",
           UNCHANGED <<files, down, kills, pc, conf, maxthreads, at, cntt, answer>>
    PROVE  DirInv'
<1>1. ReadingPlace /\ KeptRadios /\ (\A k \in 1..Len(threads) : Thread(k)) /\ Answered
    BY DEF DirInv
<1>2. /\ IsList(radios) /\ IsList(threads) /\ Kept \in Nat /\ Len(radios) \in Nat /\ Len(threads) \in Nat
      /\ Len(radios) = Kept + Len(threads) /\ pc # "serving"
    BY <1>1 DEF ReadingPlace, IsList, Kept
<1>3. /\ IsList(threads') /\ Len(threads') = Len(threads)
      /\ threads'[i] = [idx |-> Kept + i, title |-> Promised[Earlier + i][1], uri |-> Promised[Earlier + i][2],
                        info |-> info, doing |-> does]
      /\ \A k \in 1..Len(threads) : k # i => threads'[k] = threads[k]
    <2> DEFINE new == [idx |-> Kept + i, title |-> Promised[Earlier + i][1], uri |-> Promised[Earlier + i][2],
                       info |-> info, doing |-> does]
    <2>1. threads' = Put(threads, i, new)
        BY DEF Put
    <2> HIDE DEF new
    <2>2. /\ IsList(Put(threads, i, new)) /\ Len(Put(threads, i, new)) = Len(threads)
          /\ \A k \in 1..Len(threads) : Put(threads, i, new)[k] = IF k = i THEN new ELSE threads[k]
        BY <1>2, Replaced
    <2>3. /\ IsList(threads') /\ Len(threads') = Len(threads)
          /\ \A k \in 1..Len(threads) : threads'[k] = IF k = i THEN new ELSE threads[k]
        BY <2>1, <2>2, Zenon
    <2>. QED BY <2>3 DEF new
<1>4. /\ IsList(radios') /\ Len(radios') = Len(radios)
      /\ \A k \in 1..Len(radios) : k # Kept + i => radios'[k] = radios[k]
      /\ \/ radios'[Kept + i] = radios[Kept + i]
         \/ Promised[Earlier + i][2] # NoUrl /\ radios'[Kept + i] = RadioOf(Promised[Earlier + i])
    <2>1. CASE radios' = radios
        BY <1>2, <2>1
    <2>2. CASE Promised[Earlier + i][2] # NoUrl /\ radios' = [radios EXCEPT ![Kept + i] = RadioOf(Promised[Earlier + i])]
        <3>1. Kept + i \in 1..Len(radios)
            BY <1>2
        <3> DEFINE new == RadioOf(Promised[Earlier + i])
                   place == Kept + i
        <3>2. radios' = Put(radios, place, new) /\ place \in 1..Len(radios)
            BY <2>2, <3>1 DEF Put
        <3> HIDE DEF new, place
        <3>3. /\ IsList(radios') /\ Len(radios') = Len(radios)
              /\ \A k \in 1..Len(radios) : radios'[k] = IF k = place THEN new ELSE radios[k]
            BY <1>2, <3>2, Replaced
        <3>. QED BY <2>2, <3>2, <3>3 DEF new, place
    <2>. QED BY <2>1, <2>2
<1>5. Promised' = Promised /\ Kept' = Kept /\ Earlier' = Earlier /\ Sections' = Sections
    BY <1>3, <1>4 DEF Promised, Kept, Earlier, Sections, Opened
<1>6. ReadingPlace'
    BY <1>1, <1>3, <1>4, <1>5 DEF ReadingPlace, Opened
<1>7. KeptRadios'
    <2>1. \A k \in 1..Kept : k \in 1..Len(radios) /\ k # Kept + i
        BY <1>2
    <2>2. \A k \in 1..Kept : \A j : Lists(k, j)' <=> Lists(k, j)
        BY <1>4, <1>5, <2>1 DEF Lists
    <2>3. PICK of \in [1..Kept -> 1..Earlier] : KeptAs(of)
        BY <1>1 DEF KeptRadios
    <2>4. KeptAs(of)'
        BY <1>5, <2>2, <2>3 DEF KeptAs
    <2>. QED BY <1>5, <2>3, <2>4 DEF KeptRadios
<1>8. ASSUME NEW k \in 1..Len(threads), k # i PROVE Thread(k)'
    <2>1. threads'[k] = threads[k]
        BY <1>3, <1>8
    <2>2. radios'[Kept + k] = radios[Kept + k]
        BY <1>2, <1>4, <1>8
    <2>3. Lists(Kept + k, Earlier + k)' <=> Lists(Kept + k, Earlier + k)
        BY <1>5, <2>2 DEF Lists
    <2>. QED BY <1>1, <1>5, <2>1, <2>2, <2>3 DEF Thread
<1>9. Thread(i)'
    <2> DEFINE s == Promised[Earlier + i]
    <2>1. /\ threads'[i].idx = Kept + i /\ threads'[i].title = s[1] /\ threads'[i].uri = s[2]
          /\ threads'[i].info = info /\ threads'[i].doing = does
        BY <1>3
    <2>2. threads'[i] = [idx |-> Kept + i, title |-> s[1], uri |-> s[2],
                         info |-> threads'[i].info, doing |-> threads'[i].doing]
        BY <1>3, <2>1
    <2>3. radios'[Kept + i] = NoRadio \/ Lists(Kept + i, Earlier + i)'
        <3>1. radios[Kept + i] = NoRadio \/ Lists(Kept + i, Earlier + i)
            BY <1>1 DEF Thread
        <3>. QED BY <1>4, <1>5, <3>1 DEF Lists
    <2>. QED BY <1>5, <2>1, <2>2, <2>3 DEF Thread
<1>10. Answered'
    BY <1>1, <1>2 DEF Answered
<1>. QED BY <1>2, <1>3, <1>6, <1>7, <1>8, <1>9, <1>10 DEF DirInv

\* A thread which goes on with another address.
Goes(r, info, does) == [r EXCEPT !.info = info, !.doing = does]

LEMMA ThreadFields ==
    ASSUME NEW r, r = [idx |-> r.idx, title |-> r.title, uri |-> r.uri, info |-> r.info, doing |-> r.doing]
    PROVE  /\ \A info, does : Goes(r, info, does)
                 = [idx |-> r.idx, title |-> r.title, uri |-> r.uri, info |-> info, doing |-> does]
           /\ \A does : [r EXCEPT !.doing = does] = Goes(r, r.info, does)
<1>1. r \in [idx : {r.idx}, title : {r.title}, uri : {r.uri}, info : {r.info}, doing : {r.doing}]
    BY Zenon
<1>2. ASSUME NEW info, NEW does
      PROVE  Goes(r, info, does) = [idx |-> r.idx, title |-> r.title, uri |-> r.uri, info |-> info, doing |-> does]
    <2>1. Goes(r, info, does) \in [idx : {r.idx}, title : {r.title}, uri : {r.uri}, info : {info}, doing : {does}]
        BY <1>1 DEF Goes
    <2>. QED BY <2>1
<1>3. ASSUME NEW does PROVE [r EXCEPT !.doing = does] = Goes(r, r.info, does)
    <2> DEFINE q == [r EXCEPT !.doing = does]
    <2>1. q \in [idx : {r.idx}, title : {r.title}, uri : {r.uri}, info : {r.info}, doing : {does}]
        BY <1>1
    <2> HIDE DEF q
    <2>2. q = [idx |-> r.idx, title |-> r.title, uri |-> r.uri, info |-> r.info, doing |-> does]
        BY <2>1
    <2>3. q = Goes(r, r.info, does)
        BY <1>2, <2>2, Zenon
    <2>. QED BY <2>3 DEF q
<1>. QED BY <1>2, <1>3, Zenon

LEMMA FetchStep ==
    ASSUME ConfsAsMeant, LeadsAsMeant, DirInv, pc # "off", NEW i \in DOMAIN threads, Fetch(i)
    PROVE  DirInv'
<1> DEFINE t == threads[i]
           s == Promised[Earlier + i]
           told == getMediaStreamInfo(t.info.url, down)
           next == NextUrl(t.info, down)
<1>1. ReadingPlace /\ (\A k \in 1..Len(threads) : Thread(k)) /\ down \in SUBSET Flaky
    BY DEF DirInv, ReadingPlace
<1>2. /\ IsList(radios) /\ IsList(threads) /\ DOMAIN radios = 1..Len(radios) /\ DOMAIN threads = 1..Len(threads)
      /\ Kept \in Nat /\ Len(radios) \in Nat /\ Len(threads) \in Nat /\ Len(radios) = Kept + Len(threads)
    BY <1>1, ListIsSeq DEF ReadingPlace, IsList, Kept
<1>3. i \in 1..Len(threads) /\ Kept + i \in DOMAIN radios
    BY <1>2
<1>4. /\ t = [idx |-> Kept + i, title |-> s[1], uri |-> s[2], info |-> t.info, doing |-> t.doing]
      /\ t.info = UrlInfo(t.info.kind, t.info.url, t.info.decoder)
      /\ t.doing # "done" => Follows(t.info.url, s[2])
      /\ t.doing = "extract" => \E d \in SUBSET Flaky : t.info = getMediaStreamInfo(t.info.url, d) /\ t.info.kind = "playlist"
    BY <1>1, <1>3 DEF Thread
<1>5. UNCHANGED <<files, down, kills, pc, conf, maxthreads, at, cntt, answer>> /\ t.doing # "done"
    BY DEF Fetch
<1>9. \A info, does : Goes(t, info, does) = [idx |-> Kept + i, title |-> s[1], uri |-> s[2], info |-> info, doing |-> does]
    <2> HIDE DEF t, s
    <2>1. t.idx = Kept + i /\ t.title = s[1] /\ t.uri = s[2]
        BY <1>4
    <2>2. t = [idx |-> t.idx, title |-> t.title, uri |-> t.uri, info |-> t.info, doing |-> t.doing]
        BY <1>4, <2>1
    <2>. QED BY <2>1, <2>2, ThreadFields
<1>10. \A does : [t EXCEPT !.doing = does] = Goes(t, t.info, does)
    <2> HIDE DEF t, s
    <2>1. t.idx = Kept + i /\ t.title = s[1] /\ t.uri = s[2]
        BY <1>4
    <2>2. t = [idx |-> t.idx, title |-> t.title, uri |-> t.uri, info |-> t.info, doing |-> t.doing]
        BY <1>4, <2>1
    <2>. QED BY <2>2, ThreadFields
<1>6. CASE t.doing = "info"
    <2> DEFINE does == IF told.kind = "playlist" THEN "extract" ELSE "done"
    <2>1. /\ threads' = [threads EXCEPT ![i].info = told, ![i].doing = does]
          /\ radios' = IF told.kind = "stream" /\ t.idx \in DOMAIN radios
                       THEN [radios EXCEPT ![t.idx] = [title |-> t.title, stream |-> told.url, uri |-> t.uri]]
                       ELSE radios
        BY <1>6 DEF Fetch
    <2>2. /\ told = UrlInfo(told.kind, told.url, told.decoder)
          /\ told.kind = "stream" => t.info.url # NoUrl /\ told.url = MeantFrom(t.info.url) /\ ~NotThere(t.info.url)
          /\ told.kind = "playlist" => t.info.url # NoUrl /\ told.url = t.info.url
          /\ t.info.url \in Reliable => told.kind = "stream" \/ told.kind = "playlist"
        BY <1>1, Leads
    <2> HIDE DEF told
    <2>3. /\ NotThere(t.info.url) \/ MeantFrom(t.info.url) = MeantFrom(s[2])
          /\ s[2] \in Reliable => t.info.url \in Reliable
          /\ s[2] = NoUrl => t.info.url = NoUrl
        BY <1>4, <1>5 DEF Follows
    <2>4. t.idx = Kept + i /\ t.title = s[1] /\ t.uri = s[2]
        BY <1>4
    <2>5. threads' = [threads EXCEPT ![i] = [idx |-> Kept + i, title |-> s[1], uri |-> s[2], info |-> told, doing |-> does]]
        <3>1. Goes(t, told, does) = [idx |-> Kept + i, title |-> s[1], uri |-> s[2], info |-> told, doing |-> does]
            BY <1>9
        <3>2. threads' = [threads EXCEPT ![i] = Goes(t, told, does)]
            BY <2>1 DEF Goes
        <3>. QED BY <3>1, <3>2
    <2>6. told.kind = "stream" => s[2] # NoUrl /\ radios' = [radios EXCEPT ![Kept + i] = RadioOf(s)]
        <3>1. ASSUME told.kind = "stream" PROVE RadioOf(s) = [title |-> t.title, stream |-> told.url, uri |-> t.uri]
            BY <2>2, <2>3, <2>4, <3>1 DEF RadioOf
        <3>. QED BY <1>3, <2>1, <2>2, <2>3, <2>4, <3>1
    <2>7. told.kind # "stream" => radios' = radios
        BY <2>1
    <2>8. does = "done" /\ s[2] \in Reliable => radios'[Kept + i] # NoRadio
        <3>1. ASSUME does = "done", s[2] \in Reliable PROVE told.kind = "stream"
            BY <2>2, <2>3, <3>1
        <3>2. ASSUME told.kind = "stream" PROVE radios'[Kept + i] = RadioOf(s)
            BY <1>2, <1>3, <2>6, <3>2, Replaced
        <3>. QED BY <2>6, <3>1, <3>2, RadioIsSome
    <2>9. does # "done" => Follows(told.url, s[2])
        BY <1>4, <1>5, <2>2
    <2>10. does = "extract" => \E d \in SUBSET Flaky : told = getMediaStreamInfo(told.url, d) /\ told.kind = "playlist"
        BY <1>1, <2>2 DEF told
    <2>11. does \in {"info", "extract", "done"}
        OBVIOUS
    <2> HIDE DEF does, t, s
    <2>. QED BY <1>3, <1>5, <2>2, <2>5, <2>6, <2>7, <2>8, <2>9, <2>10, <2>11, ThreadMoves DEF s
<1>7. CASE t.doing = "extract"
    <2> DEFINE info == IF next = NoUrl THEN t.info ELSE [t.info EXCEPT !.url = next]
               does == IF next = NoUrl THEN "done" ELSE "info"
    <2>1. /\ threads' = IF next = NoUrl THEN [threads EXCEPT ![i].doing = "done"]
                        ELSE [threads EXCEPT ![i].info.url = next, ![i].doing = "info"]
          /\ radios' = radios
        BY <1>7 DEF Fetch
    <2>2. PICK d \in SUBSET Flaky : t.info = getMediaStreamInfo(t.info.url, d) /\ t.info.kind = "playlist"
        BY <1>4, <1>7
    <2>3. /\ next # NoUrl => Follows(next, t.info.url)
          /\ ~NotThere(t.info.url)
          /\ t.info.url \in Reliable => next # NoUrl
        <3> DEFINE u == t.info.url
                   again == getMediaStreamInfo(u, d)
        <3>1. /\ again.kind = "playlist" => (NextUrl(again, down) # NoUrl => Follows(NextUrl(again, down), u)) /\ ~NotThere(u)
              /\ u \in Reliable => \/ again.kind = "stream"
                                   \/ again.kind = "playlist" /\ NextUrl(again, down) \in Reliable \ {NoUrl}
            BY <1>1, Leads
        <3>2. again = t.info
            BY <2>2
        <3> HIDE DEF again
        <3>. QED BY <2>2, <3>1, <3>2
    <2> HIDE DEF next
    <2>4. Follows(t.info.url, s[2])
        BY <1>4, <1>5
    <2>5. threads' = [threads EXCEPT ![i] = [idx |-> Kept + i, title |-> s[1], uri |-> s[2], info |-> info, doing |-> does]]
        <3>1. CASE next = NoUrl
            <4>1. threads' = [threads EXCEPT ![i] = [t EXCEPT !.doing = "done"]]
                BY <2>1, <3>1
            <4>2. [t EXCEPT !.doing = "done"] = Goes(t, info, does)
                BY <1>10, <3>1
            <4>3. threads' = [threads EXCEPT ![i] = Goes(t, info, does)]
                BY <4>1, <4>2, Zenon
            <4>. QED BY <1>9, <4>3
        <3>2. CASE next # NoUrl
            <4>1. threads' = [threads EXCEPT ![i] = Goes(t, info, does)]
                BY <2>1, <3>2 DEF Goes
            <4>. QED BY <1>9, <4>1
        <3>. QED BY <3>1, <3>2
    <2>6. info = UrlInfo(info.kind, info.url, info.decoder) /\ (next # NoUrl => info.url = next)
        BY <1>4 DEF UrlInfo
    <2>7. does = "done" => s[2] \notin Reliable
        BY <2>3, <2>4 DEF Follows
    <2>8. does # "done" => Follows(info.url, s[2])
        BY <2>3, <2>4, <2>6 DEF Follows
    <2>9. does \in {"info", "extract", "done"} /\ does # "extract"
        OBVIOUS
    <2> HIDE DEF info, does, t, s
    <2>. QED BY <1>3, <1>5, <2>1, <2>5, <2>6, <2>7, <2>8, <2>9, ThreadMoves DEF s
<1>8. t.doing = "info" \/ t.doing = "extract"
    BY DEF Fetch
<1>. QED BY <1>6, <1>7, <1>8

LEMMA ReadKeyStep ==
    ASSUME ConfsAsMeant, LeadsAsMeant, DirInv, ReadKey
    PROVE  DirInv'
<1> DEFINE k == Sections[at.key]
           uri == get(conf, <<"url">>, k)
<1>1. ReadingPlace /\ KeptRadios /\ (\A n \in 1..Len(threads) : Thread(n)) /\ Answered /\ pc = "keys"
    BY DEF DirInv, ReadKey
<1>2. /\ at.file \in 1..2 /\ at.key \in 1..Len(Sections) /\ Len(Sections) \in Nat
      /\ at' = [file |-> at.file, key |-> at.key + 1] /\ at'.file = at.file /\ at'.key = at.key + 1
      /\ pc' \in {"keys", "join"} /\ UNCHANGED <<files, down, conf, answer>> /\ conf = Opened(at.file)
    <2>1. at.file \in 1..2 /\ at.key \in 1..(Len(Sections) + 1) /\ at = [file |-> at.file, key |-> at.key]
          /\ files \in DOMAIN Confs /\ conf = Opened(at.file)
        BY <1>1 DEF ReadingPlace
    <2>2. Len(Sections) \in Nat
        BY <2>1, StationsAre DEF Sections, Opened
    <2>3. at.key <= Len(Sections) /\ at' = [at EXCEPT !.key = @ + 1] /\ UNCHANGED <<files, down, conf, answer>>
        BY DEF ReadKey
    <2>4. at' = [file |-> at.file, key |-> at.key + 1]
        BY <2>1, <2>3
    <2>5. pc' \in {"keys", "join"}
        BY <1>1 DEF ReadKey
    <2>. QED BY <2>1, <2>2, <2>3, <2>4, <2>5
<1>3. /\ IsList(radios) /\ IsList(threads) /\ Kept \in Nat /\ Len(radios) \in Nat /\ Len(threads) \in Nat
      /\ Len(radios) = Kept + Len(threads) /\ Len(threads) = Upto(RadioKeys(conf), at.key - 1)
      /\ files \in DOMAIN Confs /\ down \in SUBSET Flaky
    BY <1>1 DEF ReadingPlace, IsList, Kept
<1>4. /\ \A i \in RadioKeys(conf) : i \in 1..Len(Sections)
      /\ Len(StationsOf(conf)) = Cardinality(RadioKeys(conf)) /\ conf = Parsed[files][at.file]
      /\ at.key \in RadioKeys(conf) <=> IsRadio(k)
      /\ \A i \in 1..Cardinality(RadioKeys(conf)) :
           StationsOf(conf)[i] = <<Tail(Sections[Place(RadioKeys(conf), i)]), AddressOf(conf, Sections[Place(RadioKeys(conf), i)])>>
    <2>1. conf = Parsed[files][at.file]
        BY <1>2 DEF Opened
    <2>2. RadioKeys(conf) = {i \in DOMAIN Sections : IsRadio(Sections[i])}
        BY DEF RadioKeys, Sections
    <2>3. Sections \in Seq(Seq(STRING))
        BY <1>2, <1>3, <2>1 DEF ConfsAsMeant, Sections
    <2>4. DOMAIN Sections = 1..Len(Sections)
        BY <2>3, LenProperties
    <2>5. Len(StationsOf(conf)) = Cardinality(RadioKeys(conf))
        BY <1>2, <1>3, <2>1, StationsAre
    <2>6. \A i \in 1..Cardinality(RadioKeys(conf)) :
            StationsOf(conf)[i] = <<Tail(Sections[Place(RadioKeys(conf), i)]), AddressOf(conf, Sections[Place(RadioKeys(conf), i)])>>
        <3> DEFINE c == Parsed[files][at.file]
        <3>1. \A i \in 1..Cardinality(RadioKeys(c)) :
                StationsOf(c)[i] = <<Tail(getSubKeys_unsorted(c)[Place(RadioKeys(c), i)]),
                                     AddressOf(c, getSubKeys_unsorted(c)[Place(RadioKeys(c), i)])>>
            BY <1>2, <1>3, StationsAre
        <3>2. c = conf
            BY <2>1
        <3> HIDE DEF c
        <3>. QED BY <3>1, <3>2, Zenon DEF Sections
    <2>. QED BY <1>2, <2>1, <2>2, <2>4, <2>5, <2>6
<1>5. Upto(RadioKeys(conf), at.key) = IF at.key \in RadioKeys(conf) THEN Len(threads) + 1 ELSE Len(threads)
    <2>1. at.key - 1 \in Nat /\ (at.key - 1) + 1 = at.key
        BY <1>2
    <2>2. Upto(RadioKeys(conf), (at.key - 1) + 1)
            = IF (at.key - 1) + 1 \in RadioKeys(conf) THEN Upto(RadioKeys(conf), at.key - 1) + 1
              ELSE Upto(RadioKeys(conf), at.key - 1)
        BY <1>2, <1>4, <2>1, UptoCounts
    <2>. QED BY <1>3, <2>1, <2>2
<1>6. Promised' = Promised /\ Earlier' = Earlier /\ Sections' = Sections
    BY <1>1, <1>2 DEF Promised, Earlier, Sections, Opened
<1>7. Answered'
    BY <1>1, <1>2 DEF Answered
<1>8. ASSUME IsList(radios'), IsList(threads'), Kept' = Kept, Len(threads') = Upto(RadioKeys(conf), at.key),
             \A i \in 1..Len(radios) : radios'[i] = radios[i]
      PROVE  ReadingPlace' /\ KeptRadios'
    <2>1. at'.key \in 1..(Len(Sections) + 1) /\ at'.key - 1 = at.key
        BY <1>2
    <2>2. ReadingPlace'
        BY <1>2, <1>3, <1>6, <1>8, <2>1 DEF ReadingPlace, Opened
    <2>3. \A i \in 1..Kept : \A j : Lists(i, j)' <=> Lists(i, j)
        BY <1>3, <1>6, <1>8 DEF Lists
    <2>4. PICK of \in [1..Kept -> 1..Earlier] : KeptAs(of)
        BY <1>1 DEF KeptRadios
    <2>5. KeptAs(of)'
        BY <1>6, <1>8, <2>3, <2>4 DEF KeptAs
    <2>. QED BY <1>6, <1>8, <2>2, <2>4, <2>5 DEF KeptRadios
<1>9. CASE ~IsRadio(k)
    <2>1. UNCHANGED <<radios, threads>>
        BY <1>9 DEF ReadKey
    <2>2. Kept' = Kept
        BY <2>1 DEF Kept
    <2>3. ReadingPlace' /\ KeptRadios'
        BY <1>3, <1>4, <1>5, <1>8, <1>9, <2>1, <2>2
    <2>4. \A n \in 1..Len(threads') : Thread(n)'
        BY <1>1, <1>6, <2>1, <2>2 DEF Thread, Lists
    <2>. QED BY <1>2, <1>7, <2>3, <2>4 DEF DirInv
<1>10. CASE IsRadio(k)
    <2> DEFINE new == IF uri = NoValue THEN [NewThread(Tail(k), NoUrl) EXCEPT !.doing = "done"] ELSE NewThread(Tail(k), uri)
               n == Len(threads) + 1
               s == Promised[Earlier + n]
    <2>1. radios' = Append(radios, NoRadio) /\ threads' = Append(threads, new)
        BY <1>10 DEF ReadKey
    <2>2. /\ IsList(radios') /\ Len(radios') = Len(radios) + 1 /\ radios'[Len(radios) + 1] = NoRadio
          /\ \A i \in 1..Len(radios) : radios'[i] = radios[i]
        BY <1>3, <2>1, Appended
    <2>3. /\ IsList(threads') /\ Len(threads') = n /\ threads'[n] = new
          /\ \A i \in 1..Len(threads) : threads'[i] = threads[i]
        <3> HIDE DEF new
        <3>. QED BY <1>3, <2>1, Appended
    <2>4. Kept' = Kept
        BY <1>3, <2>2, <2>3 DEF Kept
    <2>5. ReadingPlace' /\ KeptRadios'
        <3>1. Len(threads') = Upto(RadioKeys(conf), at.key)
            BY <1>4, <1>5, <1>10, <2>3
        <3>. QED BY <1>8, <2>2, <2>3, <2>4, <3>1
    <2>6. s = <<Tail(k), AddressOf(conf, k)>>
        <3>1. at.key \in RadioKeys(conf) /\ Upto(RadioKeys(conf), at.key) = n
            BY <1>4, <1>5, <1>10
        <3>2. n \in 1..Cardinality(RadioKeys(conf)) /\ Place(RadioKeys(conf), n) = at.key
            <4>1. Upto(RadioKeys(conf), at.key) \in 1..Cardinality(RadioKeys(conf))
                BY <1>2, <1>4, <3>1, UptoCounts
            <4>2. Place(RadioKeys(conf), Upto(RadioKeys(conf), at.key)) = at.key
                BY <1>2, <1>4, <3>1, PlaceIs
            <4>. QED BY <3>1, <4>1, <4>2
        <3>3. StationsOf(conf)[n] = <<Tail(k), AddressOf(conf, k)>>
            BY <1>4, <3>2
        <3>4. Promised[Earlier + n] = StationsOf(conf)[n]
            BY <1>1, <1>4, <3>2, Known
        <3>. QED BY <3>3, <3>4
    <2>7. ASSUME NEW i \in 1..Len(threads) PROVE Thread(i)'
        <3>1. threads'[i] = threads[i] /\ radios'[Kept + i] = radios[Kept + i]
            BY <1>3, <2>2, <2>3
        <3>. QED BY <1>1, <1>6, <2>4, <3>1 DEF Thread, Lists
    <2>8. ASSUME NEW i \in {n} PROVE Thread(i)'
        <3>1. new = [idx |-> Kept + n, title |-> s[1], uri |-> s[2], info |-> new.info, doing |-> new.doing]
              /\ new.info = UrlInfo("begin", s[2], "none") /\ new.doing = IF uri = NoValue THEN "done" ELSE "info"
            <4>1. Len(radios) + 1 = Kept + n
                BY <1>3
            <4>2. s[1] = Tail(k) /\ s[2] = IF uri = NoValue THEN NoUrl ELSE uri
                BY <2>6 DEF AddressOf
            <4> DEFINE fresh == NewThread(s[1], s[2])
            <4>3. fresh = [idx |-> Kept + n, title |-> s[1], uri |-> s[2], info |-> UrlInfo("begin", s[2], "none"), doing |-> "info"]
                BY <4>1 DEF NewThread
            <4>4. new = IF uri = NoValue THEN [fresh EXCEPT !.doing = "done"] ELSE fresh
                BY <4>2
            <4> HIDE DEF fresh, new, uri, s
            <4>5. fresh = [idx |-> fresh.idx, title |-> fresh.title, uri |-> fresh.uri, info |-> fresh.info, doing |-> fresh.doing]
                  /\ fresh.idx = Kept + n /\ fresh.title = s[1] /\ fresh.uri = s[2]
                  /\ fresh.info = UrlInfo("begin", s[2], "none") /\ fresh.doing = "info"
                BY <4>3
            <4>6. new = Goes(fresh, fresh.info, IF uri = NoValue THEN "done" ELSE "info")
                BY <4>4, <4>5, ThreadFields
            <4>7. new = [idx |-> Kept + n, title |-> s[1], uri |-> s[2], info |-> UrlInfo("begin", s[2], "none"),
                         doing |-> IF uri = NoValue THEN "done" ELSE "info"]
                BY <4>5, <4>6, ThreadFields
            <4>. QED BY <4>7
        <3>2. uri = NoValue => s[2] = NoUrl
            BY <2>6 DEF AddressOf
        <3>3. NoUrl \notin Reliable
            BY <1>3, Leads
        <3>4. radios'[Kept + n] = NoRadio
            <4>1. Len(radios) + 1 = Kept + n
                BY <1>3
            <4>. QED BY <2>2, <4>1
        <3>5. Follows(s[2], s[2])
            BY DEF Follows
        <3>6. new.info.url = s[2] /\ new.info = UrlInfo(new.info.kind, new.info.url, new.info.decoder)
            <4> HIDE DEF new, s
            <4>. QED BY <3>1 DEF UrlInfo
        <3>7. threads'[n] = new /\ Kept' = Kept /\ s = Promised'[Earlier' + n] /\ Earlier' = Earlier
            BY <1>6, <2>3, <2>4
        <3> HIDE DEF new, s, n, uri
        <3>8. i = n /\ threads'[i] = new /\ Kept' + i = Kept + n /\ Promised'[Earlier' + i] = s
              /\ radios'[Kept' + i] = NoRadio
            BY <3>4, <3>7
        <3>9. /\ threads'[i].doing \in {"info", "done"} /\ threads'[i].doing = "done" => s[2] \notin Reliable
              /\ Follows(threads'[i].info.url, s[2])
            BY <3>1, <3>2, <3>3, <3>5, <3>6, <3>8
        <3>. QED BY <3>1, <3>6, <3>8, <3>9 DEF Thread
    <2>9. \A i \in 1..Len(threads') : Thread(i)'
        <3>1. \A i \in 1..Len(threads') : i \in 1..Len(threads) \/ i \in {n}
            BY <1>3, <2>3
        <3>. QED BY <2>7, <2>8, <3>1
    <2>. QED BY <1>2, <1>7, <2>5, <2>9 DEF DirInv
<1>. QED BY <1>9, <1>10

\* The places of a set follow each other.
LEMMA PlacesFollow ==
    ASSUME NEW n \in Nat, NEW places, \A j \in places : j \in 1..n,
           NEW i \in 1..Cardinality(places), NEW k \in 1..Cardinality(places), i < k
    PROVE  Place(places, i) < Place(places, k)
<1>1. /\ Place(places, i) \in places /\ Upto(places, Place(places, i)) = i
      /\ Place(places, k) \in places /\ Upto(places, Place(places, k)) = k
    BY PlaceIs
<1>2. Place(places, i) \in Nat /\ Place(places, k) \in Nat /\ Cardinality(places) \in Nat
    BY <1>1, UptoCounts
<1>3. Place(places, k) <= Place(places, i) => k <= i
    BY <1>1, <1>2, UptoCounts
<1>. QED BY <1>2, <1>3

LEMMA CompactStep ==
    ASSUME ConfsAsMeant, LeadsAsMeant, DirInv, Compact
    PROVE  DirInv'
<1> DEFINE K == {i \in DOMAIN radios : radios[i] # NoRadio}
           R == Len(radios)
           all == Earlier + Len(threads)
<1>1. ReadingPlace /\ KeptRadios /\ (\A n \in 1..Len(threads) : Thread(n)) /\ Answered /\ pc = "final"
    BY DEF DirInv, Compact
<1>2. /\ IsList(radios) /\ DOMAIN radios = 1..R /\ Kept \in Nat /\ R \in Nat /\ Len(threads) \in Nat
      /\ R = Kept + Len(threads) /\ files \in DOMAIN Confs /\ down \in SUBSET Flaky
      /\ at.file \in 1..2 /\ at = [file |-> at.file, key |-> at.key] /\ conf = Opened(at.file)
      /\ at.key = Len(Sections) + 1 /\ DOMAIN threads = 1..Len(threads)
    BY <1>1, ListIsSeq DEF ReadingPlace, IsList, Kept
<1>3. /\ Earlier \in Nat /\ Len(Promised) \in Nat /\ all <= Len(Promised) /\ all \in Nat
      /\ Len(threads) = Len(StationsOf(conf))
    BY <1>1, <1>2, Known
<1>4. UNCHANGED <<files, down, answer>> /\ radios' = AtPlaces(radios, K) /\ threads' = <<>>
    BY DEF Compact
<1>5. \A i \in K : i \in 1..R
    BY <1>2
<1>6. Cardinality(K) \in Nat
    BY <1>2, <1>5, UptoCounts
<1>7. /\ IsList(radios') /\ Len(radios') = Cardinality(K)
      /\ \A n \in 1..Cardinality(K) : radios'[n] = radios[Place(K, n)] /\ Place(K, n) \in K
    <2> DEFINE S == {radios[i] : i \in 1..R}
    <2>1. radios \in Seq(S)
        BY <1>2, ListIsSeq
    <2> HIDE DEF S, K
    <2>2. /\ radios' \in Seq(S) /\ Len(radios') = Cardinality(K)
          /\ \A n \in 1..Cardinality(K) : radios'[n] = radios[Place(K, n)]
        BY <1>4, <1>5, <2>1, AtPlacesIs
    <2>. QED BY <1>2, <1>5, <2>2, SeqIsList, PlaceIs
<1>8. IsList(threads') /\ Len(threads') = 0 /\ Kept' = Cardinality(K) /\ Kept' \in Nat
    BY <1>4, <1>6, <1>7, EmptyList DEF Kept
\* The stations of all the places.
<1>9. PICK of \in [1..Kept -> 1..Earlier] : KeptAs(of)
    BY <1>1 DEF KeptRadios
<1> DEFINE station(i) == IF i <= Kept THEN of[i] ELSE Earlier + (i - Kept)
<1>10. \A i \in 1..R : station(i) \in 1..all
    BY <1>2, <1>3, <1>9
<1>11. \A i, k \in 1..R : i < k => station(i) < station(k)
    <2> SUFFICES ASSUME NEW i \in 1..R, NEW k \in 1..R, i < k PROVE station(i) < station(k)
        OBVIOUS
    <2>1. CASE k <= Kept
        <3>1. i \in 1..Kept /\ k \in 1..Kept
            BY <1>2, <2>1
        <3>. QED BY <1>9, <2>1, <3>1 DEF KeptAs
    <2>2. CASE i <= Kept /\ ~(k <= Kept)
        <3>1. i \in 1..Kept /\ k - Kept \in Nat \ {0}
            BY <1>2, <2>2
        <3>2. of[i] \in 1..Earlier
            BY <1>9, <3>1
        <3>. QED BY <1>3, <2>2, <3>1, <3>2
    <2>3. CASE ~(i <= Kept) /\ ~(k <= Kept)
        BY <1>2, <1>3, <2>3
    <2>. QED BY <1>2, <2>1, <2>2, <2>3
<1>12. ASSUME NEW i \in K PROVE Lists(i, station(i))
    <2>1. CASE i <= Kept
        <3>1. i \in 1..Kept
            BY <1>2, <2>1
        <3>. QED BY <1>9, <2>1, <3>1 DEF KeptAs
    <2>2. CASE ~(i <= Kept)
        <3>1. i - Kept \in 1..Len(threads) /\ Kept + (i - Kept) = i /\ radios[i] # NoRadio
            BY <1>2, <2>2
        <3>2. Thread(i - Kept)
            BY <1>1, <3>1
        <3>. QED BY <2>2, <3>1, <3>2 DEF Thread
    <2>. QED BY <2>1, <2>2
<1>13. ASSUME NEW j \in 1..all, Promised[j][2] \in Reliable PROVE \E i \in K : station(i) = j
    <2>1. CASE j <= Earlier
        <3>1. j \in 1..Earlier
            BY <1>3, <2>1
        <3>2. PICK i \in 1..Kept : of[i] = j
            BY <1>9, <1>13, <3>1 DEF KeptAs
        <3>3. Lists(i, of[i]) /\ i \in 1..R
            BY <1>2, <1>9, <3>2 DEF KeptAs
        <3>4. radios[i] # NoRadio
            BY <3>3, RadioIsSome DEF Lists
        <3>5. i \in K
            BY <1>2, <3>3, <3>4
        <3>. QED BY <1>2, <3>2, <3>5
    <2>2. CASE ~(j <= Earlier)
        <3> DEFINE n == j - Earlier
        <3>1. n \in 1..Len(threads) /\ Earlier + n = j /\ Kept + n \in 1..R /\ ~(Kept + n <= Kept)
              /\ Earlier + ((Kept + n) - Kept) = j
            BY <1>2, <1>3, <2>2
        <3> HIDE DEF n
        <3>2. Thread(n) /\ threads[n].doing = "done"
            BY <1>1, <1>2, <3>1 DEF Compact, Joined
        <3>3. radios[Kept + n] # NoRadio
            BY <1>13, <3>1, <3>2 DEF Thread
        <3>4. Kept + n \in K
            BY <1>2, <3>1, <3>3
        <3>. QED BY <3>1, <3>4
    <2>. QED BY <1>3, <2>1, <2>2
<1>14. pc' \in {"keys", "serving"} /\ (pc' = "serving" <=> at.file = 2)
       /\ at' = (IF at.file = 1 THEN [file |-> 2, key |-> 1] ELSE at) /\ conf' = (IF at.file = 1 THEN Opened(2) ELSE conf)
    BY <1>1, <1>2 DEF Compact
<1>15. Promised' = Promised /\ Earlier' = all
    <2>1. Promised' = Promised
        BY <1>4 DEF Promised
    <2>2. CASE at.file = 1
        <3>1. Earlier' = Len(StationsOf(Opened(1)))
            BY <1>4, <1>14, <2>2 DEF Earlier, Opened
        <3>2. Earlier = 0 /\ conf = Opened(1)
            BY <1>1, <1>2, <2>2 DEF Earlier
        <3>. QED BY <1>2, <1>3, <2>1, <3>1, <3>2
    <2>3. CASE at.file = 2
        <3>1. Earlier' = Len(Promised)
            BY <1>14, <2>1, <2>3 DEF Earlier
        <3>2. Earlier = Len(StationsOf(Opened(1))) /\ conf = Opened(2)
            BY <1>1, <1>2, <2>3 DEF Earlier
        <3>3. Len(Promised) = Len(StationsOf(Opened(1))) + Len(StationsOf(Opened(2)))
            BY <1>2, PromisedAre
        <3>. QED BY <1>3, <2>1, <3>1, <3>2, <3>3
    <2>. QED BY <1>2, <2>2, <2>3
<1>16. ReadingPlace'
    <2> HIDE DEF K
    <2>1. CASE at.file = 1
        <3>1. at'.file = 2 /\ at'.key = 1 /\ at' = [file |-> at'.file, key |-> at'.key] /\ pc' = "keys"
              /\ conf' = Parsed[files'][at'.file]
            BY <1>4, <1>14, <2>1 DEF Opened
        <3>2. conf' = Parsed[files][2]
            BY <1>14, <2>1 DEF Opened
        <3>3. Len(Sections') \in Nat /\ \A i \in RadioKeys(conf') : i \in 1..Len(Sections')
            BY <1>2, <3>2, StationsAre DEF Sections
        <3>4. Upto(RadioKeys(conf'), 0) = 0
            BY <3>3, UptoCounts
        <3>5. at'.key \in 1..(Len(Sections') + 1) /\ at'.key - 1 = 0
            BY <3>1, <3>3
        <3>6. Len(threads') = Upto(RadioKeys(conf'), at'.key - 1)
            BY <1>8, <3>4, <3>5
        <3>. QED BY <1>2, <1>4, <1>6, <1>7, <1>8, <3>1, <3>5, <3>6 DEF ReadingPlace, Opened
    <2>2. CASE at.file = 2
        <3>1. at' = at /\ pc' = "serving" /\ conf' = conf
            BY <1>14, <2>2
        <3>3. Sections' = Sections /\ conf' = Parsed[files'][at'.file]
            BY <1>2, <1>4, <3>1 DEF Opened, Sections
        <3>2. at.key \in 1..(Len(Sections) + 1)
            BY <1>1 DEF ReadingPlace
        <3>. QED BY <1>2, <1>4, <1>6, <1>7, <1>8, <2>2, <3>1, <3>2, <3>3 DEF ReadingPlace, Opened
    <2>. QED BY <1>2, <2>1, <2>2
<1>17. KeptRadios'
    <2>1. \A n \in 1..Cardinality(K) : Place(K, n) \in K /\ Place(K, n) \in 1..R
        BY <1>5, <1>7
    <2> HIDE DEF K
    <2>2. PICK of2 \in [1..Cardinality(K) -> 1..all] : \A n \in 1..Cardinality(K) : of2[n] = station(Place(K, n))
        <3> DEFINE f == [n \in 1..Cardinality(K) |-> station(Place(K, n))]
        <3>1. f \in [1..Cardinality(K) -> 1..all] /\ \A n \in 1..Cardinality(K) : f[n] = station(Place(K, n))
            BY <1>10, <2>1
        <3>. QED BY <3>1
    <2> HIDE DEF station
    <2>4. \A i, k \in 1..Cardinality(K) : i < k => of2[i] < of2[k]
        BY <1>2, <1>5, <1>11, <2>1, <2>2, PlacesFollow
    <2>5. \A n \in 1..Cardinality(K) : Lists(n, of2[n])'
        <3> SUFFICES ASSUME NEW n \in 1..Cardinality(K) PROVE Lists(n, of2[n])'
            OBVIOUS
        <3>1. Lists(Place(K, n), of2[n]) /\ radios'[n] = radios[Place(K, n)]
            BY <1>7, <1>12, <2>1, <2>2
        <3>. QED BY <1>15, <3>1 DEF Lists
    <2>6. ASSUME NEW j \in 1..all, Promised[j][2] \in Reliable PROVE \E n \in 1..Cardinality(K) : of2[n] = j
        <3>1. PICK i \in K : station(i) = j
            BY <1>13, <2>6
        <3>2. Upto(K, i) \in 1..Cardinality(K) /\ Place(K, Upto(K, i)) = i
            BY <1>2, <1>5, UptoCounts, PlaceIs
        <3>. QED BY <2>2, <3>1, <3>2
    <2>7. KeptAs(of2)'
        BY <1>8, <1>15, <2>4, <2>5, <2>6 DEF KeptAs
    <2>8. of2 \in [1..Kept' -> 1..Earlier']
        BY <1>8, <1>15, <2>2
    <2>. QED BY <2>7, <2>8 DEF KeptRadios
<1>18. Answered'
    BY <1>1, <1>4 DEF Answered
<1>19. \A n \in 1..Len(threads') : Thread(n)'
    <2>1. \A n \in 1..Len(threads') : FALSE
        BY <1>8
    <2>. QED BY <2>1
<1>. QED BY <1>14, <1>16, <1>17, <1>18, <1>19 DEF DirInv

\* What a control point is answered.
Follow(listing) ==
    \E S \in SUBSET DOMAIN Promised :
        LET listed == AtPlaces(Promised, S)
        IN  /\ Len(listed) = Len(listing)
            /\ \A i \in DOMAIN listed :
                 LET e == listing[i]
                 IN  <<e.title, e.from>> = listed[i] /\ e.uri = Meant[e.from]
            /\ \A j \in DOMAIN Promised : Promised[j][2] \in Reliable => j \in S

LEMMA ChildrenServed ==
    ASSUME ConfsAsMeant, DirInv, pc = "serving", NEW objid,
           NEW listing, listing = [i \in DOMAIN radios |-> Entry(objid, i, radios[i])]
    PROVE  Follow(listing)
<1> DEFINE m == Len(Promised)
<1>1. /\ ReadingPlace /\ KeptRadios
      /\ IsList(radios) /\ Len(threads) = 0 /\ files \in DOMAIN Confs /\ Len(radios) \in Nat
    BY DEF DirInv, ReadingPlace, IsList
<1>2. Kept = Len(radios) /\ Earlier = m /\ DOMAIN radios = 1..Len(radios)
    BY <1>1, ListIsSeq DEF Kept, Earlier
<1>3. /\ IsList(Promised) /\ m \in Nat /\ DOMAIN Promised = 1..m
      /\ \A j \in 1..m : /\ Promised[j][2] \in DOMAIN Meant \cup {NoUrl}
                         /\ Promised[j] = <<Promised[j][1], Promised[j][2]>>
    BY <1>1, PromisedAre DEF IsList
<1>4. PICK of \in [1..Kept -> 1..Earlier] : KeptAs(of)
    BY <1>1 DEF KeptRadios
<1> DEFINE n == Len(radios)
           S == {of[i] : i \in 1..n}
           listed == AtPlaces(Promised, S)
<1> HIDE DEF m
<1>5. of \in [1..n -> 1..m] /\ n \in Nat
    BY <1>1, <1>2, <1>4
<1>6. S \in SUBSET (1..m) /\ Cardinality(S) = n /\ \A k \in 1..n : Place(S, k) = of[k]
    <2>1. \A i, k \in 1..n : i < k => of[i] < of[k]
        BY <1>2, <1>4 DEF KeptAs
    <2> HIDE DEF n
    <2>. QED BY <1>3, <1>5, <2>1, Increasing
<1>7. Len(listed) = n /\ (\A k \in 1..n : listed[k] = Promised[of[k]]) /\ DOMAIN listed = 1..n
    <2> DEFINE T == {Promised[j] : j \in 1..Len(Promised)}
    <2>1. Promised \in Seq(T)
        BY <1>3, ListIsSeq
    <2>2. \A j \in S : j \in 1..Len(Promised)
        BY <1>6 DEF m
    <2> HIDE DEF T, S
    <2>3. /\ listed \in Seq(T) /\ Len(listed) = Cardinality(S)
          /\ \A k \in 1..Cardinality(S) : listed[k] = Promised[Place(S, k)]
        BY <2>1, <2>2, AtPlacesIs
    <2>. QED BY <1>6, <2>3, LenProperties
<1>8. Len(listing) = n /\ \A i \in 1..n : listing[i] = Entry(objid, i, radios[i])
    <2> DEFINE e(i) == Entry(objid, i, radios[i])
    <2>1. listing = [i \in 1..n |-> e(i)]
        BY <1>2
    <2> HIDE DEF e
    <2>2. \A i \in 1..n : e(i) \in {e(k) : k \in 1..n}
        OBVIOUS
    <2>3. [i \in 1..n |-> e(i)] \in Seq({e(k) : k \in 1..n})
        BY <1>5, <2>2, IsASeq
    <2>4. 1..n = 1..Len(listing) /\ Len(listing) \in Nat
        BY <2>1, <2>3, LenProperties
    <2>5. Len(listing) = n
        BY <1>5, <2>4
    <2>6. \A i \in 1..n : listing[i] = e(i)
        BY <2>1
    <2>. QED BY <2>5, <2>6 DEF e
<1>9. ASSUME NEW i \in 1..n
      PROVE  LET e == listing[i] IN <<e.title, e.from>> = listed[i] /\ e.uri = Meant[e.from]
    <2> DEFINE s == Promised[of[i]]
               e == listing[i]
    <2>1. of[i] \in 1..m /\ Lists(i, of[i]) /\ e = Entry(objid, i, radios[i])
        BY <1>2, <1>4, <1>5, <1>8 DEF KeptAs
    <2>2. /\ s[2] \in DOMAIN Meant \cup {NoUrl} /\ s = <<s[1], s[2]>> /\ listed[i] = s
          /\ s[2] # NoUrl /\ radios[i] = RadioOf(s)
        BY <1>3, <1>7, <2>1 DEF Lists
    <2>3. e.title = radios[i].title /\ e.uri = radios[i].stream /\ e.from = radios[i].uri
        BY <2>1 DEF Entry
    <2> HIDE DEF s, e
    <2>4. e.title = s[1] /\ e.from = s[2] /\ e.uri = MeantFrom(s[2])
        BY <2>2, <2>3 DEF RadioOf
    <2>5. s[2] \in DOMAIN Meant /\ MeantFrom(s[2]) = Meant[s[2]]
        BY <2>2 DEF MeantFrom
    <2>. QED BY <2>2, <2>4, <2>5 DEF e
<1>10. ASSUME NEW j \in DOMAIN Promised, Promised[j][2] \in Reliable PROVE j \in S
    <2>1. PICK i \in 1..Kept : of[i] = j
        BY <1>2, <1>3, <1>4, <1>10 DEF KeptAs
    <2>. QED BY <1>2, <2>1
<1>11. S \in SUBSET DOMAIN Promised
    BY <1>3, <1>6
<1>12. /\ Len(listed) = Len(listing)
       /\ \A i \in DOMAIN listed :
            LET e == listing[i] IN <<e.title, e.from>> = listed[i] /\ e.uri = Meant[e.from]
       /\ \A j \in DOMAIN Promised : Promised[j][2] \in Reliable => j \in S
    BY <1>7, <1>8, <1>9, <1>10
<1> HIDE DEF S, n
<1>. QED BY <1>11, <1>12, Zenon DEF Follow

LEMMA BrowseDirStep ==
    ASSUME ConfsAsMeant, DirInv, NEW objid, BrowseChildren(objid) \/ BrowseMeta(objid)
    PROVE  DirInv'
<1>1. /\ pc = "serving" /\ UNCHANGED <<files, down, pc, conf, at, radios, threads>>
    BY DEF BrowseChildren, BrowseMeta
<1>2. ReadingPlace /\ down' \in SUBSET Flaky
    BY <1>1 DEF DirInv, ReadingPlace
<1>3. ReadingPlace' /\ KeptRadios' /\ (\A k \in 1..Len(threads') : Thread(k)') /\ pc' # "off"
    BY <1>1, <1>2, ListsStay
<1>4. CASE BrowseMeta(objid)
    <2>1. answer'.flag = "meta"
        BY <1>4 DEF BrowseMeta
    <2>. QED BY <1>3, <2>1 DEF DirInv, Answered
<1>5. CASE BrowseChildren(objid)
    <2>1. answer'.flag = "children" /\ answer'.entries = [i \in DOMAIN radios |-> Entry(objid, i, radios[i])]
        BY <1>5 DEF BrowseChildren
    <2>2. Follow(answer'.entries)
        BY <1>1, <2>1, ChildrenServed
    <2>3. Confs[files'].stations = Promised
        BY <1>1 DEF Promised
    <2>4. RadiosServed'
        BY <2>2, <2>3 DEF RadiosServed, Follow
    <2>. QED BY <1>1, <1>3, <2>4 DEF DirInv, Answered
<1>. QED BY <1>4, <1>5

\* The loading from its beginning.
Start ==
    /\ files \in DOMAIN Confs /\ down \in SUBSET Flaky /\ pc = "keys" /\ at = [file |-> 1, key |-> 1]
    /\ conf = Opened(1) /\ radios = <<>> /\ threads = <<>> /\ answer = NoListing

LEMMA StartDirInv == ConfsAsMeant /\ Start => DirInv
<1>. SUFFICES ASSUME ConfsAsMeant, Start PROVE DirInv
    OBVIOUS
<1>1. /\ files \in DOMAIN Confs /\ down \in SUBSET Flaky /\ pc = "keys" /\ at = [file |-> 1, key |-> 1]
      /\ at.file = 1 /\ at.key = 1 /\ conf = Opened(1) /\ conf = Parsed[files][1]
      /\ radios = <<>> /\ threads = <<>> /\ answer = NoListing
    BY DEF Start, Opened
<1>2. /\ IsList(radios) /\ IsList(threads) /\ Len(radios) = 0 /\ Len(threads) = 0
    BY <1>1, EmptyList
<1>3. Kept = 0 /\ Earlier = 0
    BY <1>1, <1>2 DEF Kept, Earlier
<1>4. Len(Sections) \in Nat /\ Upto(RadioKeys(conf), 0) = 0
    <2>1. Len(Sections) \in Nat /\ \A i \in RadioKeys(conf) : i \in 1..Len(Sections)
        BY <1>1, StationsAre DEF Sections
    <2>. QED BY <2>1, UptoCounts
<1>5. ReadingPlace
    <2>1. at.key - 1 = 0 /\ at.key \in 1..(Len(Sections) + 1)
        BY <1>1, <1>4
    <2>. QED BY <1>1, <1>2, <1>3, <1>4, <2>1 DEF ReadingPlace
<1>6. KeptRadios
    <2>1. PICK of \in [1..0 -> 1..0] : TRUE
        <3>1. [i \in 1..0 |-> i] \in [1..0 -> 1..0]
            OBVIOUS
        <3>. QED BY <3>1
    <2>2. KeptAs(of)
        BY <1>3 DEF KeptAs
    <2>. QED BY <1>3, <2>1, <2>2 DEF KeptRadios
<1>7. \A k \in 1..Len(threads) : Thread(k)
    <2>1. \A k \in 1..Len(threads) : FALSE
        BY <1>2
    <2>. QED BY <2>1
<1>8. Answered
    BY <1>1 DEF Answered, NoListing
<1>. QED BY <1>1, <1>5, <1>6, <1>7, <1>8 DEF DirInv

LEMMA InitDirInv == ConfsAsMeant /\ (DirInit \/ DirOff) => DirInv
<1>1. DirInit => Start
    BY DEF DirInit, Begun, Start
<1>2. DirOff => DirInv
    BY DEF DirOff, DirInv
<1>. QED BY <1>1, <1>2, StartDirInv

LEMMA KilledStep == ASSUME ConfsAsMeant, DirInv, Killed PROVE DirInv'
<1>1. Start'
    <2>1. files \in DOMAIN Confs /\ down \in SUBSET Flaky
        BY DEF DirInv, ReadingPlace, Killed
    <2>. QED BY <2>1 DEF Start, Killed, Opened
<1>2. ConfsAsMeant' /\ Start' => DirInv'
    BY StartDirInv, PTL
<1>3. ConfsAsMeant'
    OBVIOUS
<1>. QED BY <1>1, <1>2, <1>3

LEMMA StepDirInv == ConfsAsMeant /\ LeadsAsMeant /\ DirInv /\ [DirNext]_dirvars => DirInv'
<1>. SUFFICES ASSUME ConfsAsMeant, LeadsAsMeant, DirInv, [DirNext]_dirvars PROVE DirInv'
    OBVIOUS
<1>1. CASE pc = "off"
    <2>1. threads = <<>> /\ DOMAIN threads = {}
        BY <1>1 DEF DirInv
    <2>2. ~ReadKey /\ ~JoinThreads /\ ~ReadLast /\ ~Compact /\ ~Killed
        BY <1>1 DEF ReadKey, JoinThreads, ReadLast, Compact, Killed
    <2>3. ~(\E id : BrowseChildren(id) \/ BrowseMeta(id)) /\ ~(\E u : Flicker(u))
        BY <1>1 DEF BrowseChildren, BrowseMeta, Flicker
    <2>4. UNCHANGED dirvars
        BY <2>1, <2>2, <2>3 DEF DirNext, Load
    <2>. QED BY <1>1, <2>4 DEF DirInv, dirvars
<1>2. CASE pc # "off"
    <2>1. ASSUME UNCHANGED <<files, conf, at, radios, threads, answer>>, down' \in SUBSET Flaky,
                 pc' = pc \/ (pc # "serving" /\ pc' \in {"keys", "join", "final"}), pc' = "final" => at.key = Len(Sections) + 1
          PROVE  DirInv'
        <3>1. ReadingPlace' /\ KeptRadios' /\ (\A k \in 1..Len(threads') : Thread(k)') /\ pc' # "off"
            BY <1>2, <2>1, ListsStay
        <3>2. Answered'
            BY <1>2, <2>1 DEF DirInv, Answered, RadiosServed
        <3>. QED BY <3>1, <3>2 DEF DirInv
    <2>2. down \in SUBSET Flaky /\ at.key \in 1..(Len(Sections) + 1) /\ Len(Sections) \in Nat
          /\ (pc = "final" => at.key = Len(Sections) + 1)
        <3>1. files \in DOMAIN Confs /\ at.file \in 1..2 /\ conf = Parsed[files][at.file]
            BY <1>2 DEF DirInv, ReadingPlace, Opened
        <3>2. Len(Sections) \in Nat
            BY <3>1, StationsAre DEF Sections
        <3>. QED BY <1>2, <3>2 DEF DirInv, ReadingPlace
    <2>3. CASE ReadKey
        BY <2>3, ReadKeyStep
    <2>4. CASE JoinThreads
        BY <2>1, <2>2, <2>4 DEF JoinThreads
    <2>5. CASE ReadLast
        <3>1. at.key = Len(Sections) + 1
            BY <2>2, <2>5 DEF ReadLast
        <3>. QED BY <2>1, <2>2, <2>5, <3>1 DEF ReadLast
    <2>6. CASE Compact
        BY <2>6, CompactStep
    <2>7. CASE \E i \in DOMAIN threads : Fetch(i)
        BY <1>2, <2>7, FetchStep
    <2>8. CASE \E id : BrowseChildren(id) \/ BrowseMeta(id)
        BY <2>8, BrowseDirStep
    <2>9. CASE Killed
        BY <2>9, KilledStep
    <2>10. CASE \E u \in Flaky : Flicker(u)
        BY <2>1, <2>2, <2>10 DEF Flicker
    <2>11. CASE UNCHANGED dirvars
        BY <2>1, <2>2, <2>11 DEF dirvars
    <2>. QED BY <2>3, <2>4, <2>5, <2>6, <2>7, <2>8, <2>9, <2>10, <2>11 DEF DirNext, Load
<1>. QED BY <1>1, <1>2

\* _readRadiosFromConf(), _fetchStream(): each thread has the place of its own radio, and what was
\* compacted keeps the order of the configuration, in both files and for any number of threads.
THEOREM RadiosInPlace == ConfsAsMeant /\ LeadsAsMeant => (DirSpec => []DirInv)
<1>. SUFFICES ASSUME ConfsAsMeant, LeadsAsMeant PROVE DirSpec => []DirInv
    OBVIOUS
<1>1. DirInit \/ DirOff => DirInv
    BY InitDirInv
<1>2. DirInv /\ [DirNext]_dirvars => DirInv'
    BY StepDirInv
<1>. QED BY <1>1, <1>2, PTL DEF DirSpec

\* The list of upradios-app.py has the radios of the configuration, in their order, each with its own
\* title and stream, and those which always answer: however many threads there are, in whatever order
\* they end, whichever addresses stop answering and however often the process is killed.
THEOREM RadiosListed == ConfsAsMeant /\ LeadsAsMeant => (DirSpec => []RadiosServed)
<1>1. DirInv => RadiosServed
    BY DEF DirInv, Answered, RadiosServed, NoListing
<1>. QED BY <1>1, RadiosInPlace, PTL
-----------------------------------------------------------------------------
(* The BBC plugin: the keys of a page *)

Items == DOMAIN Versions \cup {NoPid}
AskedFor(k) == {Keys[m] : m \in 1..k}

LEMMA PageType ==
    ASSUME PagesOfProgrammes, asked \in DOMAIN Programmes
    PROVE  Page \in Seq(Items) /\ Len(Page) \in Nat /\ DOMAIN Page = 1..Len(Page)
<1> DEFINE all == Programmes[asked]
           places == {i \in DOMAIN all : all[i] # NoPid}
<1>1. all \in Seq(Items)
    BY DEF PagesOfProgrammes, Items
<1>2. DOMAIN all = 1..Len(all)
    BY <1>1, LenProperties
<1>3. \A i \in places : i \in 1..Len(all)
    BY <1>2
<1> HIDE DEF all, places
<1>4. AtPlaces(all, places) \in Seq(Items)
    BY <1>1, <1>3, AtPlacesIs
<1>5. Page = AtPlaces(all, places)
    BY DEF Page, all, places
<1>. QED BY <1>4, <1>5, LenProperties

\* Each programme of the page is once among the keys, at the rank of its first place.
LEMMA KeysIs ==
    ASSUME PagesOfProgrammes, asked \in DOMAIN Programmes
    PROVE  /\ Len(Keys) \in Nat
           /\ \A i \in 1..Len(Page) : \E f \in FirstPlaces : f <= i /\ Page[f] = Page[i]
           /\ \A f \in FirstPlaces : f \in 1..Len(Page) /\ Upto(FirstPlaces, f) \in 1..Len(Keys)
                                     /\ Keys[Upto(FirstPlaces, f)] = Page[f]
           /\ \A k \in 1..Len(Keys) :
                \E f \in FirstPlaces : Upto(FirstPlaces, f) = k /\ Keys[k] = Page[f]
           /\ \A k, m \in 1..Len(Keys) : Keys[k] = Keys[m] => k = m
<1>1. Page \in Seq(Items) /\ Len(Page) \in Nat /\ DOMAIN Page = 1..Len(Page)
    BY PageType
<1>2. \A f \in FirstPlaces : f \in 1..Len(Page)
    BY <1>1 DEF FirstPlaces
<1>3. /\ Len(Keys) = Cardinality(FirstPlaces)
      /\ \A k \in 1..Cardinality(FirstPlaces) : Keys[k] = Page[Place(FirstPlaces, k)]
    BY <1>1, <1>2, AtPlacesIs DEF Keys
<1>4. /\ Cardinality(FirstPlaces) \in Nat
      /\ \A f \in FirstPlaces : Upto(FirstPlaces, f) \in 1..Cardinality(FirstPlaces)
    BY <1>1, <1>2, UptoCounts
<1>5. /\ \A k \in 1..Cardinality(FirstPlaces) :
           Place(FirstPlaces, k) \in FirstPlaces /\ Upto(FirstPlaces, Place(FirstPlaces, k)) = k
      /\ \A f \in FirstPlaces : Place(FirstPlaces, Upto(FirstPlaces, f)) = f
    BY <1>1, <1>2, PlaceIs
<1>6. ASSUME NEW i \in 1..Len(Page)
      PROVE  \E f \in FirstPlaces : f <= i /\ Page[f] = Page[i]
    <2> DEFINE T == {j \in 1..Len(Page) : Page[j] = Page[i]}
    <2>1. i \in T /\ T \subseteq Nat
        OBVIOUS
    <2>2. PICK f \in T : \A j \in T : f <= j
        BY <2>1, LeastPlace
    <2>3. ASSUME NEW j \in 1..f - 1 PROVE Page[j] # Page[f]
        <3>1. j \in 1..Len(Page) /\ ~(f <= j)
            BY <1>1, <2>2
        <3>. QED BY <2>2, <3>1
    <2>4. f \in FirstPlaces
        BY <1>1, <2>2, <2>3 DEF FirstPlaces
    <2>. QED BY <2>1, <2>2, <2>4
<1>7. ASSUME NEW f \in FirstPlaces, NEW g \in FirstPlaces, Page[f] = Page[g]
      PROVE  f = g
    <2>1. f \in Nat /\ g \in Nat /\ 1 <= f /\ 1 <= g
        BY <1>1, <1>2
    <2>2. (\A j \in 1..f - 1 : Page[j] # Page[f]) /\ (\A j \in 1..g - 1 : Page[j] # Page[g])
        BY DEF FirstPlaces
    <2>. QED BY <1>7, <2>1, <2>2
<1>8. ASSUME NEW k \in 1..Len(Keys), NEW m \in 1..Len(Keys), Keys[k] = Keys[m]
      PROVE  k = m
    <2>1. Place(FirstPlaces, k) = Place(FirstPlaces, m)
        BY <1>3, <1>5, <1>7, <1>8
    <2>. QED BY <1>3, <1>5, <2>1
<1>9. ASSUME NEW f \in FirstPlaces
      PROVE  Upto(FirstPlaces, f) \in 1..Len(Keys) /\ Keys[Upto(FirstPlaces, f)] = Page[f]
    BY <1>3, <1>4, <1>5
<1>10. ASSUME NEW k \in 1..Len(Keys)
       PROVE  \E f \in FirstPlaces : Upto(FirstPlaces, f) = k /\ Keys[k] = Page[f]
    BY <1>3, <1>5
<1>. QED BY <1>2, <1>3, <1>4, <1>6, <1>8, <1>9, <1>10

\* Up to the first place of the last key, all was asked for; and what was asked for is there.
LEMMA AskedPlaces ==
    ASSUME PagesOfProgrammes, asked \in DOMAIN Programmes, NEW k \in 0..Len(Keys)
    PROVE  \E last \in 0..Len(Page) :
             /\ \A i \in 1..last : Page[i] \in AskedFor(k)
             /\ k = Len(Keys) => \A i \in 1..Len(Page) : Page[i] \in AskedFor(k)
             /\ \A p \in AskedFor(k) : \E f \in 1..last : f \in FirstPlaces /\ Page[f] = p
<1>1. Len(Page) \in Nat /\ Len(Keys) \in Nat
    BY PageType, KeysIs
<1>2. \A f \in FirstPlaces : f \in 1..Len(Page)
    BY KeysIs
<1>3. ASSUME NEW f \in FirstPlaces, NEW g \in FirstPlaces,
             Upto(FirstPlaces, f) <= Upto(FirstPlaces, g)
      PROVE  f <= g
    <2>1. f \in Nat /\ g \in Nat
        BY <1>1, <1>2
    <2>2. Upto(FirstPlaces, f) \in Nat /\ Upto(FirstPlaces, g) \in Nat
          /\ (g < f => Upto(FirstPlaces, g) < Upto(FirstPlaces, f))
        BY <1>1, <1>2, <2>1, UptoCounts
    <2>. QED BY <1>3, <2>1, <2>2
<1>4. ASSUME NEW f \in FirstPlaces, NEW g \in FirstPlaces, f <= g
      PROVE  Upto(FirstPlaces, f) <= Upto(FirstPlaces, g)
    <2>1. f \in Nat /\ g \in Nat
        BY <1>1, <1>2
    <2>. QED BY <1>1, <1>2, <1>4, <2>1, UptoCounts
<1>5. ASSUME NEW i \in 1..Len(Page), NEW f \in FirstPlaces, Page[f] = Page[i],
             Upto(FirstPlaces, f) <= k
      PROVE  Page[i] \in AskedFor(k)
    <2>1. Upto(FirstPlaces, f) \in 1..Len(Keys) /\ Keys[Upto(FirstPlaces, f)] = Page[f]
        BY KeysIs
    <2>2. Upto(FirstPlaces, f) \in 1..k
        BY <1>1, <1>5, <2>1
    <2>. QED BY <1>5, <2>1, <2>2 DEF AskedFor
<1>6. ASSUME k = Len(Keys), NEW i \in 1..Len(Page) PROVE Page[i] \in AskedFor(k)
    <2>1. PICK f \in FirstPlaces : f <= i /\ Page[f] = Page[i]
        BY KeysIs
    <2>2. Upto(FirstPlaces, f) \in 1..Len(Keys)
        BY KeysIs
    <2>3. Upto(FirstPlaces, f) <= k
        BY <1>1, <1>6, <2>2
    <2>. QED BY <1>5, <2>1, <2>3
<1>7. CASE k = 0
    <2>1. AskedFor(k) = {}
        BY <1>7 DEF AskedFor
    <2>2. \A i \in 1..0 : Page[i] \in AskedFor(k)
        OBVIOUS
    <2>. QED BY <1>1, <1>6, <2>1, <2>2
<1>8. CASE k # 0
    <2>1. k \in 1..Len(Keys)
        BY <1>1, <1>8
    <2>2. PICK last \in FirstPlaces : Upto(FirstPlaces, last) = k
        BY <2>1, KeysIs
    <2>3. last \in 0..Len(Page) /\ last \in Nat
        BY <1>1, <1>2, <2>2
    <2>4. ASSUME NEW i \in 1..last PROVE Page[i] \in AskedFor(k)
        <3>1. i \in 1..Len(Page)
            BY <1>1, <2>3
        <3>2. PICK f \in FirstPlaces : f <= i /\ Page[f] = Page[i]
            BY <3>1, KeysIs
        <3>3. f <= last
            BY <1>1, <1>2, <2>3, <3>2
        <3>4. Upto(FirstPlaces, f) <= k
            BY <1>4, <2>2, <3>3
        <3>. QED BY <1>5, <3>1, <3>2, <3>4
    <2>5. ASSUME NEW p \in AskedFor(k)
          PROVE  \E f \in 1..last : f \in FirstPlaces /\ Page[f] = p
        <3>1. PICK m \in 1..k : p = Keys[m]
            BY DEF AskedFor
        <3>2. m \in 1..Len(Keys) /\ m <= k
            BY <1>1, <2>1
        <3>3. PICK f \in FirstPlaces : Upto(FirstPlaces, f) = m /\ Keys[m] = Page[f]
            BY <3>2, KeysIs
        <3>4. f <= last
            BY <1>3, <2>2, <3>2, <3>3
        <3>5. f \in 1..last
            BY <1>1, <1>2, <2>3, <3>4
        <3>. QED BY <3>1, <3>3, <3>5
    <2>. QED BY <1>6, <2>3, <2>4, <2>5
<1>. QED BY <1>7, <1>8

\* The programmes found among the first keys are finitely many, and no key follows twice.
LEMMA AskedNext ==
    ASSUME PagesOfProgrammes, asked \in DOMAIN Programmes, NEW k \in 0..Len(Keys)
    PROVE  /\ IsFiniteSet(AskedFor(k))
           /\ k # Len(Keys) => AskedFor(k + 1) = AskedFor(k) \cup {Keys[k + 1]}
                               /\ Keys[k + 1] \notin AskedFor(k)
<1>1. Len(Keys) \in Nat
    BY KeysIs
<1>2. IsFiniteSet(AskedFor(k))
    <2> DEFINE f == [m \in 1..k |-> Keys[m]]
    <2>1. IsFiniteSet(1..k)
        BY FS_Interval
    <2>2. f \in Surjection(1..k, AskedFor(k))
        BY DEF AskedFor, Surjection
    <2> HIDE DEF f
    <2>. QED BY <2>1, <2>2, FS_Surjection
<1>3. ASSUME k # Len(Keys)
      PROVE  AskedFor(k + 1) = AskedFor(k) \cup {Keys[k + 1]} /\ Keys[k + 1] \notin AskedFor(k)
    <2>1. \A m : m \in 1..k + 1 <=> m \in 1..k \/ m = k + 1
        BY <1>1
    <2>2. AskedFor(k + 1) = AskedFor(k) \cup {Keys[k + 1]}
        BY <2>1, Zenon DEF AskedFor
    <2>3. ASSUME NEW m \in 1..k PROVE Keys[m] # Keys[k + 1]
        <3>1. m \in 1..Len(Keys) /\ k + 1 \in 1..Len(Keys) /\ m # k + 1
            BY <1>1, <1>3
        <3>. QED BY <3>1, KeysIs
    <2>. QED BY <2>2, <2>3 DEF AskedFor
<1>. QED BY <1>2, <1>3

PlacesOf(found) == {i \in DOMAIN Page : Page[i] \in found}
StreamedPlaces == {i \in DOMAIN Page : Streamed(Page[i])}

\* Enough has been found: no other answer would change the list.
LEMMA FoundIsEnough ==
    ASSUME PagesOfProgrammes, asked \in DOMAIN Programmes, NEW k \in 0..Len(Keys),
           NEW found, found = {p \in AskedFor(k) : Streamed(p)},
           k = Len(Keys) \/ Cardinality(found) >= reqcount
    PROVE  Prefix(AtPlaces(Page, PlacesOf(found))) = Prefix(AtPlaces(Page, StreamedPlaces))
<1>1. /\ Page \in Seq(Items) /\ Len(Page) \in Nat /\ DOMAIN Page = 1..Len(Page)
      /\ reqcount \in Nat
    BY PageType DEF PagesOfProgrammes
<1>2. PICK last \in 0..Len(Page) :
        /\ \A i \in 1..last : Page[i] \in AskedFor(k)
        /\ k = Len(Keys) => \A i \in 1..Len(Page) : Page[i] \in AskedFor(k)
        /\ \A p \in AskedFor(k) : \E f \in 1..last : f \in FirstPlaces /\ Page[f] = p
    BY AskedPlaces
<1>3. CASE k = Len(Keys)
    <2>1. \A i \in DOMAIN Page : Page[i] \in found <=> Streamed(Page[i])
        BY <1>1, <1>2, <1>3
    <2>2. PlacesOf(found) = StreamedPlaces
        BY <2>1, Zenon DEF PlacesOf, StreamedPlaces
    <2>. QED BY <2>2
<1>4. CASE Cardinality(found) >= reqcount
    <2> DEFINE P == PlacesOf(found)
               Q == StreamedPlaces
               upto == {j \in P : j <= last}
    <2>1. (\A i \in P : i \in 1..Len(Page)) /\ (\A i \in Q : i \in 1..Len(Page))
        BY <1>1 DEF PlacesOf, StreamedPlaces
    <2>2. \A i \in 1..last : i \in P <=> i \in Q
        <3>. SUFFICES ASSUME NEW i \in 1..last PROVE i \in P <=> i \in Q
            OBVIOUS
        <3>1. i \in DOMAIN Page /\ Page[i] \in AskedFor(k)
            BY <1>1, <1>2
        <3>. QED BY <3>1 DEF PlacesOf, StreamedPlaces
    <2>3. last \in Nat
        BY <1>1
    <2>4. IsFiniteSet(upto) /\ Cardinality(upto) \in Nat
        <3>1. IsFiniteSet(1..Len(Page))
            BY <1>1, FS_Interval
        <3>2. upto \in SUBSET (1..Len(Page))
            BY <2>1
        <3>. QED BY <3>1, <3>2, FS_Subset, FS_CardinalityType
    <2>5. Cardinality(found) <= Cardinality(upto)
        <3> DEFINE first == [p \in found |-> CHOOSE f \in 1..last : f \in FirstPlaces /\ Page[f] = p]
        <3>1. ASSUME NEW p \in found
              PROVE  first[p] \in 1..last /\ Page[first[p]] = p
            <4>1. \E f \in 1..last : f \in FirstPlaces /\ Page[f] = p
                BY <1>2
            <4>. QED BY <4>1
        <3>2. ASSUME NEW p \in found PROVE first[p] \in upto
            <4> HIDE DEF first
            <4>1. first[p] \in DOMAIN Page /\ first[p] <= last
                BY <1>1, <3>1
            <4>. QED BY <3>1, <4>1 DEF PlacesOf
        <3>3. first \in [found -> upto]
            BY <3>2
        <3> HIDE DEF first
        <3>4. first \in Injection(found, upto)
            BY <3>1, <3>3 DEF Injection, IsInjective
        <3>. QED BY <2>4, <3>4, FS_Injection
    <2>6. reqcount <= Upto(P, last)
        <3>1. IsFiniteSet(found)
            <4>1. found \in SUBSET AskedFor(k)
                OBVIOUS
            <4>. QED BY <4>1, AskedNext, FS_Subset
        <3>2. Cardinality(found) \in Nat
            BY <3>1, FS_CardinalityType
        <3>3. Upto(P, last) = Cardinality(upto)
            BY DEF Upto
        <3> HIDE DEF upto
        <3>. QED BY <1>1, <1>4, <2>4, <2>5, <3>2, <3>3
    <2> HIDE DEF P, Q
    <2>7. /\ reqcount <= Cardinality(P) /\ reqcount <= Cardinality(Q)
          /\ \A i \in 1..reqcount : AtPlaces(Page, P)[i] = AtPlaces(Page, Q)[i]
        BY <1>1, <2>1, <2>2, <2>6, SameBeginning
    <2>8. ASSUME NEW T, \A i \in T : i \in 1..Len(Page), reqcount <= Cardinality(T)
          PROVE  Prefix(AtPlaces(Page, T)) = [i \in 1..reqcount |-> AtPlaces(Page, T)[i]]
        <3>1. Len(AtPlaces(Page, T)) = Cardinality(T) /\ Cardinality(T) \in Nat
            BY <1>1, <2>8, AtPlacesIs, UptoCounts
        <3>2. (IF Len(AtPlaces(Page, T)) > reqcount THEN reqcount ELSE Len(AtPlaces(Page, T))) = reqcount
            BY <1>1, <2>8, <3>1
        <3>3. Prefix(AtPlaces(Page, T)) = SubSeq(AtPlaces(Page, T), 1, reqcount)
            BY <3>2 DEF Prefix
        <3> DEFINE all == AtPlaces(Page, T)
        <3> HIDE DEF all
        <3>4. SubSeq(all, 1, reqcount) = [i \in 1..reqcount |-> all[i]]
            BY <1>1
        <3>. QED BY <3>3, <3>4 DEF all
    <2>9. Prefix(AtPlaces(Page, P)) = Prefix(AtPlaces(Page, Q))
        BY <2>1, <2>7, <2>8
    <2>. QED BY <2>9 DEF P, Q
<1>. QED BY <1>3, <1>4

-----------------------------------------------------------------------------
(* The BBC plugin: the inductive invariant *)

\* What has been found, when the threads of the first "started" keys have been started.
Found ==
    /\ asked \in DOMAIN Programmes /\ started \in 0..Len(Keys)
    /\ running \subseteq AskedFor(started)
    /\ resdata = {p \in AskedFor(started) \ running : Streamed(p)}

\* The loop goes to its end with all keys, or with as many programmes as may be shown.
Enough == started = Len(Keys) \/ Cardinality(resdata) >= reqcount

\* ProgrammesInOrder says nothing of the way to a list: the data are always those of the threads
\* which have ended, among the first keys.
BbcInv ==
    /\ doing \in {"wait", "start", "batch", "count", "join", "list"}
    /\ doing # "wait" => Found
    /\ doing \in {"join", "list"} => Enough
    /\ doing = "list" => running = {}
    /\ doing = "wait" => ProgrammesInOrder

LEMMA SamePage ==
    ASSUME asked' = asked, late' = late
    PROVE  /\ Page' = Page /\ Keys' = Keys
           /\ \A p : Streamed(p)' <=> Streamed(p)
BY DEF Page, Keys, FirstPlaces, Streamed

\* A step which starts no thread and ends none.
LEMMA QuietStep ==
    ASSUME Found, UNCHANGED <<asked, late, started, running, resdata>>
    PROVE  Found'
<1>1. Page' = Page /\ Keys' = Keys /\ \A p : Streamed(p)' <=> Streamed(p)
    BY SamePage
<1>2. AskedFor(started)' = AskedFor(started)
    BY <1>1 DEF AskedFor
<1>3. resdata' = {p \in AskedFor(started)' \ running' : Streamed(p)'}
    BY <1>1, <1>2 DEF Found
<1>. QED BY <1>1, <1>2, <1>3 DEF Found

LEMMA StartThreadStep ==
    ASSUME PagesOfProgrammes, BbcInv, StartThread
    PROVE  BbcInv'
<1>1. Found /\ asked' = asked /\ late' = late /\ resdata' = resdata
    BY DEF BbcInv, StartThread
<1>2. Page' = Page /\ Keys' = Keys /\ \A p : Streamed(p)' <=> Streamed(p)
    BY <1>1, SamePage
<1>3. CASE started = Len(Keys)
    <2>1. Found' /\ doing' = "join" /\ started' = started
        BY <1>1, <1>3, QuietStep DEF StartThread
    <2>. QED BY <1>2, <1>3, <2>1 DEF BbcInv, Enough
<1>4. CASE started # Len(Keys)
    <2>1. /\ started' = started + 1 /\ running' = running \cup {Keys[started + 1]}
          /\ doing' \in {"batch", "count"}
        BY <1>2, <1>4 DEF StartThread
    <2>2. Len(Keys) \in Nat
        BY <1>1, KeysIs DEF Found
    <2>3. started' \in 0..Len(Keys)
        BY <1>1, <1>4, <2>1, <2>2 DEF Found
    <2>4. /\ AskedFor(started + 1) = AskedFor(started) \cup {Keys[started + 1]}
          /\ Keys[started + 1] \notin AskedFor(started)
        BY <1>1, <1>4, AskedNext DEF Found
    <2>5. AskedFor(started)' = AskedFor(started + 1)
        BY <1>2, <2>1 DEF AskedFor
    <2>6. AskedFor(started)' \ running' = AskedFor(started) \ running
        BY <1>1, <2>1, <2>4, <2>5 DEF Found
    <2>7. resdata' = {p \in AskedFor(started)' \ running' : Streamed(p)'}
        BY <1>1, <1>2, <2>6 DEF Found
    <2>8. running' \subseteq AskedFor(started)'
        BY <1>1, <2>1, <2>4, <2>5 DEF Found
    <2>9. Found'
        BY <1>1, <1>2, <2>3, <2>7, <2>8 DEF Found
    <2>. QED BY <2>1, <2>9 DEF BbcInv
<1>. QED BY <1>3, <1>4

LEMMA ThreadEndsStep ==
    ASSUME PagesOfProgrammes, BbcInv, NEW p, ThreadEnds(p)
    PROVE  BbcInv'
<1>1. /\ asked' = asked /\ late' = late /\ started' = started /\ doing' = doing /\ entries' = entries
      /\ p \in running /\ running' = running \ {p}
      /\ resdata' = IF Streamed(p) THEN resdata \cup {p} ELSE resdata
    BY DEF ThreadEnds
<1>2. Page' = Page /\ Keys' = Keys /\ \A q : Streamed(q)' <=> Streamed(q)
    BY <1>1, SamePage
<1>3. CASE doing = "wait"
    <2>1. ProgrammesInOrder' <=> ProgrammesInOrder
        BY <1>1, <1>2 DEF ProgrammesInOrder
    <2>. QED BY <1>1, <1>3, <2>1 DEF BbcInv
<1>4. CASE doing # "wait"
    <2>1. Found
        BY <1>4 DEF BbcInv
    <2>2. AskedFor(started)' = AskedFor(started)
        BY <1>1, <1>2 DEF AskedFor
    <2>3. resdata' = {q \in AskedFor(started) \ running' : Streamed(q)}
        <3>1. p \in AskedFor(started)
            BY <1>1, <2>1 DEF Found
        <3>2. \A q : q \in AskedFor(started) \ running'
                     <=> q \in AskedFor(started) \ running \/ q = p
            BY <1>1, <3>1
        <3>3. resdata = {q \in AskedFor(started) \ running : Streamed(q)}
            BY <2>1 DEF Found
        <3>4. ASSUME NEW q
              PROVE  q \in resdata' <=> q \in AskedFor(started) \ running' /\ Streamed(q)
            BY <1>1, <3>2, <3>3
        <3>. QED BY <3>4
    <2>4. resdata' = {q \in AskedFor(started)' \ running' : Streamed(q)'}
        BY <1>2, <2>2, <2>3
    <2>5. Found'
        BY <1>1, <1>2, <2>1, <2>2, <2>4 DEF Found
    <2>6. IsFiniteSet(resdata) /\ Cardinality(resdata) \in Nat
        <3>1. IsFiniteSet(AskedFor(started))
            BY <2>1, AskedNext DEF Found
        <3>2. resdata \in SUBSET AskedFor(started)
            BY <2>1 DEF Found
        <3>. QED BY <3>1, <3>2, FS_Subset, FS_CardinalityType
    <2>7. Cardinality(resdata') \in Nat /\ Cardinality(resdata') >= Cardinality(resdata)
        <3>1. CASE Streamed(p)
            <4>1. resdata' = resdata \cup {p}
                BY <1>1, <3>1
            <4>2. Cardinality(resdata \cup {p}) = IF p \in resdata THEN Cardinality(resdata) ELSE Cardinality(resdata) + 1
                BY <2>6, FS_AddElement
            <4>. QED BY <2>6, <4>1, <4>2
        <3>2. CASE ~Streamed(p)
            BY <1>1, <2>6, <3>2
        <3>. QED BY <3>1, <3>2
    <2>8. Enough => Enough'
        BY <1>1, <1>2, <2>6, <2>7 DEF Enough, PagesOfProgrammes
    <2>9. running = {} => FALSE
        BY <1>1
    <2>. QED BY <1>1, <1>4, <2>5, <2>8, <2>9 DEF BbcInv
<1>. QED BY <1>3, <1>4

LEMMA ListStep ==
    ASSUME PagesOfProgrammes, BbcInv, List
    PROVE  BbcInv'
<1>1. Found /\ Enough /\ running = {} /\ asked' = asked /\ late' = late /\ doing' = "wait"
    BY DEF BbcInv, List
<1>2. Page' = Page /\ \A p : Streamed(p)' <=> Streamed(p)
    BY <1>1, SamePage
<1> DEFINE found == Prefix(AtPlaces(Page, PlacesOf(resdata)))
<1>3. entries' = [i \in DOMAIN found |-> [kind |-> "it", path |-> Append(asked, found[i]),
                                         programme |-> found[i], trackno |-> i]]
    BY DEF List, PlacesOf
<1>4. found = [i \in DOMAIN found |-> found[i]]
    <2> DEFINE all == AtPlaces(Page, PlacesOf(resdata))
               n == IF Len(all) > reqcount THEN reqcount ELSE Len(all)
    <2>1. found = SubSeq(all, 1, n)
        BY DEF Prefix
    <2>2. n \in Nat
        <3>1. /\ Page \in Seq(Items) /\ DOMAIN Page = 1..Len(Page) /\ Len(Page) \in Nat
              /\ reqcount \in Nat
            BY <1>1, PageType DEF Found, PagesOfProgrammes
        <3>2. \A i \in PlacesOf(resdata) : i \in 1..Len(Page)
            BY <3>1 DEF PlacesOf
        <3>3. Len(all) \in Nat
            BY <3>1, <3>2, AtPlacesIs, UptoCounts
        <3> HIDE DEF all
        <3>. QED BY <3>1, <3>3
    <2> HIDE DEF all, n, found
    <2>3. SubSeq(all, 1, n) = [i \in 1..n |-> all[i]]
        BY <2>2
    <2>. QED BY <2>1, <2>3
<1>5. found = Prefix(AtPlaces(Page, StreamedPlaces))
    <2>1. resdata = {p \in AskedFor(started) : Streamed(p)}
        BY <1>1 DEF Found
    <2>. QED BY <1>1, <2>1, FoundIsEnough DEF Found, Enough
<1> HIDE DEF found
<1>6. DOMAIN entries' = DOMAIN found /\ \A i \in DOMAIN found : entries'[i].programme = found[i]
    BY <1>3
<1>7. [i \in DOMAIN entries' |-> entries'[i].programme] = found
    BY <1>4, <1>6
<1>8. StreamedPlaces' = StreamedPlaces
    BY <1>2 DEF StreamedPlaces
<1>9. Prefix(AtPlaces(Page, StreamedPlaces))' = Prefix(AtPlaces(Page, StreamedPlaces))
    BY <1>2, <1>8 DEF AtPlaces, Prefix
<1>10. ProgrammesInOrder'
    BY <1>5, <1>7, <1>9 DEF ProgrammesInOrder, StreamedPlaces
<1>. QED BY <1>1, <1>10 DEF BbcInv

\* The routes know six views.
LEMMA Views ==
    ASSUME NEW place
    PROVE  _dispatch(BbcRoutes, place).view \in
             {"none", "root", "root_stations", "station_view", "station_date_view", "root_podcasts", "podcast_view"}
<1> DEFINE hits == {i \in 1..Len(BbcRoutes) : RuleMatches(BbcRoutes[i].pattern, place)}
           first == CHOOSE i \in hits : \A j \in hits : i <= j
<1>1. Len(BbcRoutes) = 6 /\ \A i \in 1..6 : BbcRoutes[i].view \in
             {"root", "root_stations", "station_view", "station_date_view", "root_podcasts", "podcast_view"}
    BY DEF BbcRoutes, Route
<1>2. CASE hits = {}
    BY <1>2 DEF _dispatch, NoView
<1>3. CASE hits # {}
    <2>1. hits \subseteq Nat /\ hits \subseteq 1..6
        BY <1>1
    <2>2. _dispatch(BbcRoutes, place).view = BbcRoutes[first].view
        BY <1>3 DEF _dispatch
    <2> HIDE DEF hits
    <2>3. first \in hits
        BY <1>3, <2>1, LeastPlace
    <2> HIDE DEF first
    <2>. QED BY <1>1, <2>1, <2>2, <2>3
<1>. QED BY <1>2, <1>3

\* The other views have no programmes: an entry which is listed is a container.
LEMMA ListingHasContainers ==
    ASSUME NEW to, to.view \in {"root", "root_stations", "station_view", "root_podcasts"},
           Listing(to) # <<>>
    PROVE  \E i \in DOMAIN Listing(to) : Listing(to)[i].kind # "it"
<1>1. ASSUME NEW f, NEW S, f = [x \in S |-> f[x]], f # <<>>, \A x \in S : f[x].kind = "ct"
      PROVE  \E x \in DOMAIN f : f[x].kind # "it"
    <2>1. S # {}
        BY <1>1
    <2>. QED BY <1>1, <2>1
<1>2. \A view, args : add_directory(BbcRoutes, view, args).kind = "ct"
    BY DEF add_directory
<1>3. CASE to.view = "root"
    <2> DEFINE views == IF hasfeedparser THEN <<"root_stations", "root_podcasts">> ELSE <<"root_stations">>
    <2>1. Listing(to) = [i \in 1..Len(views) |-> add_directory(BbcRoutes, views[i], <<>>)]
        BY <1>3 DEF Listing, root, Directories
    <2> HIDE DEF views
    <2>. QED BY <1>1, <1>2, <2>1
<1>4. CASE to.view = "root_stations"
    <2> DEFINE linked == AtPlaces(stations, {i \in 1..Len(stations) : stations[i] \notin HttpIds})
               entry(i) == [add_directory(BbcRoutes, "station_view", <<linked[i]>>) EXCEPT !.title = <<stations[i]>>]
    <2>1. Listing(to) = [i \in 1..Len(linked) |-> entry(i)]
        BY <1>4 DEF Listing, root_stations, View
    <2> HIDE DEF linked
    <2>2. \A i : entry(i).kind = "ct"
        BY DEF add_directory
    <2> HIDE DEF entry
    <2>. QED BY <1>1, <2>1, <2>2
<1>5. CASE to.view = "station_view"
    <2> DEFINE dirargs(i) == <<to.args[1], <<Days[i][1]>>, <<Days[i][2]>>, <<Days[i][3]>> >>
    <2>1. Listing(to) = [i \in DOMAIN Days |-> add_directory(BbcRoutes, "station_date_view", dirargs(i))]
        BY <1>5 DEF Listing, station_view
    <2> HIDE DEF dirargs
    <2>. QED BY <1>1, <1>2, <2>1
<1>6. CASE to.view = "root_podcasts"
    <2>1. Listing(to) = [i \in DOMAIN Podcasts |-> add_directory(BbcRoutes, "podcast_view", <<Podcasts[i]>>)]
        BY <1>6 DEF Listing, root_podcasts
    <2>. QED BY <1>1, <1>2, <2>1
<1>. QED BY <1>3, <1>4, <1>5, <1>6

LEMMA BrowseStep ==
    ASSUME PagesOfProgrammes, BbcInv, browse
    PROVE  BbcInv'
<1>1. PICK place : asked' = place /\ (Directory(place, _dispatch(BbcRoutes, place))
                                     \/ FetchDetails(place, _dispatch(BbcRoutes, place)))
    BY DEF browse
<1>2. CASE Directory(place, _dispatch(BbcRoutes, place))
    <2> DEFINE to == _dispatch(BbcRoutes, place)
    <2>1. to.view \in {"root", "root_stations", "station_view", "root_podcasts"}
        BY <1>2, Views DEF Directory
    <2>2. entries' = Listing(to) /\ doing' = "wait"
        BY <1>2 DEF Directory
    <2> HIDE DEF to
    <2>3. ~(entries' # <<>> /\ \A i \in DOMAIN entries' : entries'[i].kind = "it")
        BY <2>1, <2>2, ListingHasContainers
    <2>4. ProgrammesInOrder'
        BY <2>3 DEF ProgrammesInOrder
    <2>. QED BY <2>2, <2>4 DEF BbcInv
<1>3. CASE FetchDetails(place, _dispatch(BbcRoutes, place))
    <2>1. CASE doing' = "wait" /\ entries' = <<>>
        BY <2>1 DEF BbcInv, ProgrammesInOrder
    <2>2. CASE /\ place \in DOMAIN Programmes /\ doing' = "start"
               /\ started' = 0 /\ running' = {} /\ resdata' = {}
        <3>1. Len(Keys)' \in Nat
            <4>1. PagesOfProgrammes /\ (asked \in DOMAIN Programmes)' => (Len(Keys) \in Nat)'
                BY KeysIs, PTL
            <4>. QED BY <1>1, <2>2, <4>1
        <3>2. AskedFor(0)' = {}
            BY DEF AskedFor
        <3>. QED BY <1>1, <2>2, <3>1, <3>2 DEF BbcInv, Found
    <2>. QED BY <1>3, <2>1, <2>2 DEF FetchDetails
<1>. QED BY <1>1, <1>2, <1>3

LEMMA LoopStep ==
    ASSUME BbcInv, JoinBatch \/ Count \/ LastJoin \/ UNCHANGED bbcvars
    PROVE  BbcInv'
<1>1. UNCHANGED <<asked, late, started, running, resdata, entries>>
    BY DEF JoinBatch, Count, LastJoin, bbcvars
<1>2. Page' = Page /\ Keys' = Keys /\ \A p : Streamed(p)' <=> Streamed(p)
    BY <1>1, SamePage
<1>3. Found => Found'
    BY <1>1, QuietStep
<1>4. Enough' <=> Enough
    BY <1>1, <1>2 DEF Enough
<1>5. CASE JoinBatch
    BY <1>3, <1>5 DEF JoinBatch, BbcInv
<1>6. CASE Count
    <2>1. datacount = Cardinality(resdata)
        BY DEF datacount
    <2>. QED BY <1>3, <1>4, <1>6, <2>1 DEF Count, BbcInv, Enough
<1>7. CASE LastJoin
    BY <1>1, <1>3, <1>4, <1>7 DEF LastJoin, AllJoined, BbcInv
<1>8. CASE UNCHANGED bbcvars
    <2>1. ProgrammesInOrder' <=> ProgrammesInOrder
        BY <1>2, <1>8 DEF ProgrammesInOrder, bbcvars
    <2>. QED BY <1>3, <1>4, <1>8, <2>1 DEF BbcInv, bbcvars
<1>. QED BY <1>5, <1>6, <1>7, <1>8

LEMMA InitBbcInv == BbcInit \/ BbcOff => BbcInv
BY DEF BbcInit, BbcOff, BbcInv, ProgrammesInOrder

LEMMA StepBbcInv == PagesOfProgrammes /\ BbcInv /\ [BbcNext]_bbcvars => BbcInv'
<1>. SUFFICES ASSUME PagesOfProgrammes, BbcInv, [BbcNext]_bbcvars PROVE BbcInv'
    OBVIOUS
<1>1. CASE browse
    BY <1>1, BrowseStep
<1>2. CASE StartThread
    BY <1>2, StartThreadStep
<1>3. CASE JoinBatch \/ Count \/ LastJoin \/ UNCHANGED bbcvars
    BY <1>3, LoopStep
<1>4. CASE List
    BY <1>4, ListStep
<1>5. CASE \E p \in DOMAIN Versions : ThreadEnds(p)
    BY <1>5, ThreadEndsStep
<1>. QED BY <1>1, <1>2, <1>3, <1>4, <1>5 DEF BbcNext

\* _fetchdetails(): whatever the threads do, the data are those of the first keys whose thread has
\* ended, and the loop stops with all keys or with enough data.
THEOREM FoundInvariant == PagesOfProgrammes => (BbcSpec => []BbcInv)
<1>. SUFFICES ASSUME PagesOfProgrammes PROVE BbcSpec => []BbcInv
    OBVIOUS
<1>1. BbcInv /\ [BbcNext]_bbcvars => BbcInv'
    BY StepBbcInv
<1>. QED BY <1>1, InitBbcInv, PTL DEF BbcSpec

\* station_date_view() and podcast_view() list the first programmes of the page which can be
\* streamed, in its order, whichever thread ends first and although the loop asks for no more.
THEOREM FirstProgrammes == PagesOfProgrammes => (BbcSpec => []ProgrammesInOrder)
<1>1. BbcInv => ProgrammesInOrder
    BY DEF BbcInv, ProgrammesInOrder
<1>. QED BY <1>1, FoundInvariant, PTL
-----------------------------------------------------------------------------
(* The radio-browser plugin: the invariant *)

Words == Crits \cup {"radios"} \cup (UNION {ValuesOf(Stations, crit) : crit \in Crits})
         \cup (UNION {ToSet(SplitValue[x]) : x \in DOMAIN SplitValue})

Odd(i) == i % 2 = 1

\* A path which a control point takes: names and values by turns, and the pairs are what was chosen.
Taken(path, pairs) ==
    /\ path \in Seq(Words)
    /\ \A i \in 1..Len(path) : Odd(i) => path[i] \in Crits \/ (i = Len(path) /\ path[i] = "radios")
    /\ \A i \in 1..Len(path) : ~Odd(i) => path[i] # None
    /\ PathToCrits(path).filterargs = pairs

\* StationsAsChosen says nothing of the places on the way: each was taken with what was chosen up
\* to there, or is that of a value with a slash, which lists nothing.
RbInv ==
    IF reply.asked = "children"
    THEN \/ Taken(reply.place, chosen) /\ \E codes : reply.entries = Children(reply.place, codes)
         \/ ~RadiosPlace(reply.place) /\ reply.entries = {}
    ELSE \A e \in reply.entries : e.kind = "it"

-----------------------------------------------------------------------------
(* The radio-browser plugin: paths *)

LEMMA Parity ==
    ASSUME NEW n \in Nat
    PROVE  /\ Odd(n + 1) <=> ~Odd(n)
           /\ Odd(n + 2) <=> Odd(n)
BY DEF Odd

Complete(path) == {i \in 1..Len(path) : i % 2 = 1 /\ i < Len(path)}
LEMMA Fields ==
    ASSUME NEW path
    PROVE  LET c == PathToCrits(path) n == Len(path)
           IN  /\ c.crit = IF n = 0 THEN None ELSE IF n % 2 = 1 THEN path[n] ELSE path[n - 1]
               /\ c.value = IF n # 0 /\ n % 2 = 0 THEN path[n] ELSE None
               /\ c.filterargs = {<<path[i], path[i + 1]>> : i \in Complete(path)}
               /\ c.raises = \E i \in Complete(path) : path[i] \notin Crits
BY DEF PathToCrits, Complete

\* A path which is taken does not raise.
LEMMA TakenReads ==
    ASSUME NEW path, NEW pairs, Taken(path, pairs)
    PROVE  /\ Len(path) \in Nat
           /\ ~PathToCrits(path).raises
           /\ Odd(Len(path)) => /\ PathToCrits(path).crit = path[Len(path)]
                                /\ path[Len(path)] \in Crits \cup {"radios"}
                                /\ PathToCrits(path).value = None
           /\ ~Odd(Len(path)) /\ Len(path) # 0 =>
                /\ PathToCrits(path).crit \in Crits
                /\ PathToCrits(path).value # None
           /\ Len(path) = 0 => PathToCrits(path).crit = None /\ PathToCrits(path).value = None
<1> DEFINE n == Len(path)
<1>1. n \in Nat
    BY LenProperties DEF Taken
<1>2. ~PathToCrits(path).raises
    <2>. SUFFICES ASSUME NEW i \in Complete(path) PROVE path[i] \in Crits
        BY Fields
    <2>. QED BY <1>1 DEF Taken, Complete, Odd
<1> DEFINE crit == PathToCrits(path).crit
           value == PathToCrits(path).value
<1>6. /\ crit = IF n = 0 THEN None ELSE IF Odd(n) THEN path[n] ELSE path[n - 1]
      /\ value = IF n # 0 /\ n % 2 = 0 THEN path[n] ELSE None
    BY Fields DEF Odd
<1>7. n % 2 = 0 <=> ~Odd(n)
    BY <1>1 DEF Odd
<1> HIDE DEF crit, value
<1>3. CASE n = 0
    <2>1. ~Odd(n)
        BY <1>3 DEF Odd
    <2>. QED BY <1>1, <1>2, <1>3, <1>6, <2>1 DEF crit, value
<1>4. CASE n # 0 /\ Odd(n)
    <2>1. path[n] \in Crits \cup {"radios"}
        BY <1>1, <1>4 DEF Taken
    <2>2. crit = path[n] /\ value = None
        BY <1>4, <1>6, <1>7
    <2>. QED BY <1>1, <1>2, <1>4, <2>1, <2>2 DEF crit, value
<1>5. CASE n # 0 /\ ~Odd(n)
    <2>1. n \in 1..n /\ n - 1 \in 1..n /\ Odd(n - 1) /\ n - 1 # n
        BY <1>1, <1>5 DEF Odd
    <2>2. path[n] # None /\ path[n - 1] \in Crits
        BY <1>5, <2>1 DEF Taken
    <2>3. crit = path[n - 1] /\ value = path[n]
        BY <1>5, <1>6, <1>7
    <2>. QED BY <1>1, <1>2, <1>5, <2>2, <2>3 DEF crit, value
<1>. QED BY <1>3, <1>4, <1>5

-----------------------------------------------------------------------------
(* The radio-browser plugin: one more name in a path *)

\* The name of a criterion, or "radios", below a value or the root: nothing more is chosen.
LEMMA TakeName ==
    ASSUME PlainNames, NEW path, NEW pairs, Taken(path, pairs), ~Odd(Len(path)),
           NEW x \in Crits \cup {"radios"}
    PROVE  Taken(Child(path, x), pairs)
<1> DEFINE n == Len(path)
           q == path \o <<x>>
<1>1. Child(path, x) = q
    BY DEF Child, PlainNames
<1>2. path \in Seq(Words) /\ n \in Nat /\ x \in Words
    BY LenProperties DEF Taken, Words
<1>3. /\ q \in Seq(Words) /\ Len(q) = n + 1 /\ q[n + 1] = x
      /\ \A i \in 1..n : q[i] = path[i]
    BY <1>2, ConcatProperties
<1> HIDE DEF q
<1>4. \A i \in 1..n : Odd(i) => path[i] \in Crits
    BY <1>2 DEF Taken
<1>5. \A i \in 1..n + 1 : i \in 1..n \/ i = n + 1
    BY <1>2
<1>6. Odd(n + 1)
    BY <1>2, Parity
<1>7. Complete(q) = Complete(path)
    BY <1>2, <1>3 DEF Complete, Odd
<1>8. \A i \in Complete(path) : i \in 1..n /\ i + 1 \in 1..n
    BY <1>2 DEF Complete
<1>9. PathToCrits(q).filterargs = pairs
    <2>1. \A i \in Complete(path) : <<q[i], q[i + 1]>> = <<path[i], path[i + 1]>>
        BY <1>3, <1>8
    <2>2. {<<q[i], q[i + 1]>> : i \in Complete(q)} = {<<path[i], path[i + 1]>> : i \in Complete(path)}
        BY <1>7, <2>1
    <2>. QED BY <2>2, Fields DEF Taken
<1>10. \A i \in 1..Len(q) : Odd(i) => q[i] \in Crits \/ (i = Len(q) /\ q[i] = "radios")
    BY <1>3, <1>4, <1>5
<1>11. \A i \in 1..Len(q) : ~Odd(i) => q[i] # None
    BY <1>3, <1>5, <1>6 DEF Taken
<1>. QED BY <1>1, <1>3, <1>9, <1>10, <1>11 DEF Taken

\* A value below the name of a criterion: the pair is chosen.
LEMMA TakeValue ==
    ASSUME NEW path, NEW pairs, Taken(path, pairs), Odd(Len(path)), path[Len(path)] \in Crits,
           NEW v \in Words, v # None, v \notin DOMAIN SplitValue
    PROVE  Taken(Child(path, v), pairs \cup {<<Last(path), v>>})
<1> DEFINE n == Len(path)
           q == path \o <<v>>
<1>1. Child(path, v) = q
    BY DEF Child
<1>2. path \in Seq(Words) /\ n \in Nat
    BY LenProperties DEF Taken
<1>3. /\ q \in Seq(Words) /\ Len(q) = n + 1 /\ q[n + 1] = v
      /\ \A i \in 1..n : q[i] = path[i]
    BY <1>2, ConcatProperties
<1> HIDE DEF q
<1>4. \A i \in 1..n + 1 : i \in 1..n \/ i = n + 1
    BY <1>2
<1>5. ~Odd(n + 1) /\ n \in 1..n
    BY <1>2 DEF Odd
<1>6. Complete(q) = Complete(path) \cup {n}
    BY <1>2, <1>3, <1>5 DEF Complete, Odd
<1>7. \A i \in Complete(path) : i \in 1..n /\ i + 1 \in 1..n
    BY <1>2 DEF Complete
<1>8. PathToCrits(q).filterargs = pairs \cup {<<Last(path), v>>}
    <2>1. \A i \in Complete(path) : <<q[i], q[i + 1]>> = <<path[i], path[i + 1]>>
        BY <1>3, <1>7
    <2>2. <<q[n], q[n + 1]>> = <<Last(path), v>>
        BY <1>3, <1>5 DEF Last
    <2>3. {<<q[i], q[i + 1]>> : i \in Complete(q)}
          = {<<path[i], path[i + 1]>> : i \in Complete(path)} \cup {<<Last(path), v>>}
        BY <1>6, <2>1, <2>2
    <2>. QED BY <2>3, Fields DEF Taken
<1>9. \A i \in 1..Len(q) : Odd(i) => q[i] \in Crits \/ (i = Len(q) /\ q[i] = "radios")
    <2>. SUFFICES ASSUME NEW i \in 1..n, Odd(i) PROVE path[i] \in Crits
        BY <1>3, <1>4, <1>5
    <2>. QED BY DEF Taken
<1>10. \A i \in 1..Len(q) : ~Odd(i) => q[i] # None
    BY <1>3, <1>4 DEF Taken
<1>. QED BY <1>1, <1>3, <1>8, <1>9, <1>10 DEF Taken

\* A value with a slash in it leads to a place which has nothing.
LEMMA TakeCut ==
    ASSUME PlainNames, NEW path, NEW pairs, Taken(path, pairs), Odd(Len(path)),
           NEW v \in DOMAIN SplitValue, NEW codes
    PROVE  ~RadiosPlace(Child(path, v)) /\ Children(Child(path, v), codes) = {}
<1> DEFINE n == Len(path)
           parts == SplitValue[v]
           m == Len(parts)
           q == path \o parts
<1>1. Child(path, v) = q
    BY DEF Child
<1>2. /\ path \in Seq(Words) /\ n \in Nat /\ n >= 1
      /\ parts \in Seq(Words) /\ m \in Nat /\ m >= 2
      /\ \A i \in 2..m : parts[i] \notin Crits \cup {"radios", None}
    <2>1. path \in Seq(Words) /\ n \in Nat /\ n >= 1
        BY LenProperties DEF Taken, Odd
    <2>2. parts \in Seq(ToSet(parts)) /\ m >= 2 /\ \A i \in 2..m : parts[i] \notin Crits \cup {"radios", None}
        BY DEF PlainNames
    <2>3. ToSet(parts) \subseteq Words
        BY DEF Words
    <2>. QED BY <2>1, <2>2, <2>3, SeqMonotonic, LenProperties
<1>3. /\ q \in Seq(Words) /\ Len(q) = n + m
      /\ \A i \in 2..m : q[n + i] = parts[i]
    <2>1. \A i \in 1..n + m : q[i] = IF i <= n THEN path[i] ELSE parts[i - n]
        BY <1>2, ConcatProperties
    <2>2. q \in Seq(Words) /\ Len(q) = n + m
        BY <1>2, ConcatProperties
    <2>3. ASSUME NEW i \in 2..m PROVE q[n + i] = parts[i]
        <3>1. n + i \in 1..n + m /\ ~(n + i <= n) /\ (n + i) - n = i
            BY <1>2
        <3>. QED BY <2>1, <3>1
    <2>. QED BY <2>2, <2>3
<1> HIDE DEF q, parts, m
<1>4. Odd(n + 2)
    BY <1>2, Parity
<1>5. Last(q) \notin Crits \cup {"radios", None}
    <2>1. q[Len(q)] = parts[m]
        BY <1>2, <1>3
    <2>. QED BY <1>2, <2>1 DEF Last
<1>6. ~RadiosPlace(q)
    BY <1>5 DEF RadiosPlace
<1>7. q[n + 2] \notin Crits \cup {"radios", None}
    <2>1. 2 \in 2..m
        BY <1>2
    <2>. QED BY <1>2, <1>3, <2>1
<1>8. Children(q, codes) = {}
    <2>1. CASE m = 2
        <3>1. Len(q) # 0 /\ Len(q) = n + 2
            BY <1>2, <1>3, <2>1
        <3> DEFINE c == PathToCrits(q)
        <3>2. /\ c.crit = IF Len(q) = 0 THEN None ELSE IF Odd(Len(q)) THEN q[Len(q)] ELSE q[Len(q) - 1]
              /\ c.value = IF Len(q) # 0 /\ Len(q) % 2 = 0 THEN q[Len(q)] ELSE None
            BY Fields DEF Odd
        <3>3. Odd(Len(q)) /\ Len(q) % 2 # 0
            BY <1>4, <3>1 DEF Odd
        <3> HIDE DEF c
        <3>4. c.crit = q[n + 2] /\ c.value = None
            BY <3>1, <3>2, <3>3
        <3>. QED BY <1>7, <3>4 DEF Children, c
    <2>2. CASE m > 2
        <3>1. n + 2 \in Complete(q)
            BY <1>2, <1>3, <1>4, <2>2 DEF Complete, Odd
        <3>2. PathToCrits(q).raises
            BY <1>7, <3>1, Fields
        <3>. QED BY <3>2 DEF Children
    <2>. QED BY <1>2, <2>1, <2>2
<1>. QED BY <1>1, <1>6, <1>8

-----------------------------------------------------------------------------
(* The radio-browser plugin: what a place shows *)

\* The containers of a place which was taken.
LEMMA Entries ==
    ASSUME PlainNames, NEW path, NEW pairs, Taken(path, pairs), NEW codes,
           NEW e \in Children(path, codes), e.kind = "ct"
    PROVE  \/ /\ ~Odd(Len(path))
              /\ \E x \in Crits \cup {"radios"} : e.id = Child(path, x)
           \/ /\ Odd(Len(path)) /\ path[Len(path)] \in Crits
              /\ e.title \in Words /\ e.title # None /\ e.id = Child(path, e.title)
<1> DEFINE c == PathToCrits(path)
           n == Len(path)
           result == Facets(c.filterargs)
<1>1. ~c.raises
    BY TakenReads
<1>2. CASE Odd(n)
    <2>1. c.crit = path[n] /\ path[n] \in Crits \cup {"radios"} /\ c.value = None
        BY <1>2, TakenReads
    <2>2. c.crit # "radios"
        <3>. SUFFICES ASSUME c.crit = "radios" PROVE FALSE
            OBVIOUS
        <3>1. PICK st \in result : e = RadioToEntry(path, <<None>>, st)
            BY <1>1 DEF Children
        <3>. QED BY <3>1 DEF RadioToEntry
    <2>3. c.crit \in Crits /\ c.crit # None
        BY <2>1, <2>2 DEF Crits, None
    <2>4. PICK v \in Offered(result, c.crit, codes) : e = DirEntry(path, v, v)
        BY <1>1, <2>1, <2>2, <2>3 DEF Children
    <2>5. v \in ValuesOf(result, c.crit)
        BY <2>4 DEF Offered
    <2>6. PICK st \in Stations : v \in Values(st, c.crit)
        BY <2>5 DEF ValuesOf, Facets
    <2> HIDE DEF c, result
    <2>7. v \in Words /\ v # None
        BY <2>3, <2>6 DEF Words, ValuesOf, PlainNames
    <2>8. e.title = v /\ e.id = Child(path, v)
        BY <2>4 DEF DirEntry
    <2>. QED BY <1>2, <2>1, <2>3, <2>7, <2>8
<1>3. CASE ~Odd(n)
    <2>1. c.crit # "radios" /\ ~(c.crit # None /\ c.value = None)
        BY <1>3, TakenReads DEF Crits, None
    <2>2. e \in {DirEntry(path, crit, crit) : crit \in Crits \ c.setcrits}
                \cup (IF c.value = None THEN {} ELSE {DirEntry(path, "radios", "radios")})
        BY <1>1, <2>1 DEF Children
    <2>3. \E x \in Crits \cup {"radios"} : e = DirEntry(path, x, x)
        BY <2>2
    <2>. QED BY <1>3, <2>3 DEF DirEntry
<1>. QED BY <1>2, <1>3

\* The radios of a place which was taken.
LEMMA Radios ==
    ASSUME NEW path, NEW pairs, Taken(path, pairs), RadiosPlace(path), NEW codes
    PROVE  {e.station : e \in Children(path, codes)}
           = {st.uuid : st \in {s \in Stations : \A c \in pairs : c[2] \in Values(s, c[1])}}
<1> DEFINE c == PathToCrits(path)
<1>1. ~c.raises /\ c.crit = "radios" /\ c.filterargs = pairs
    BY TakenReads DEF RadiosPlace, Odd, Last, Taken
<1> HIDE DEF c
<1>2. Children(path, codes) = {RadioToEntry(path, <<None>>, st) : st \in Facets(pairs)}
    BY <1>1 DEF Children, c
<1>3. \A st : RadioToEntry(path, <<None>>, st).station = st.uuid
    BY DEF RadioToEntry
<1>. QED BY <1>2, <1>3 DEF Facets

-----------------------------------------------------------------------------
(* The radio-browser plugin: the steps *)

LEMMA RootTaken == Taken(<<>>, {})
<1>1. Len(<<>>) = 0 /\ <<>> \in Seq(Words)
    OBVIOUS
<1>2. Complete(<<>>) = {}
    BY <1>1 DEF Complete
<1>3. PathToCrits(<<>>).filterargs = {}
    BY <1>2, Fields
<1>. QED BY <1>1, <1>3 DEF Taken

LEMMA OpenStep == ASSUME PlainNames, RbInv, Open PROVE RbInv'
<1>1. CASE Asked(<<>>, "children", Children(<<>>, ccodetoc')) /\ chosen' = {}
    BY <1>1, RootTaken DEF Asked, RbInv
<1>2. ASSUME NEW e \in reply.entries, e.kind = "ct",
             Asked(e.id, "children", Children(e.id, ccodetoc')),
             chosen' = IF reply.place # <<>> /\ Len(reply.place) % 2 = 1
                       THEN chosen \cup {<<Last(reply.place), e.title>>} ELSE chosen
      PROVE  RbInv'
    <2> DEFINE p == reply.place
    <2>1. Taken(p, chosen) /\ \E codes : reply.entries = Children(p, codes)
        BY <1>2 DEF RbInv
    <2>2. PICK codes : e \in Children(p, codes)
        BY <2>1
    <2>3. \/ /\ ~Odd(Len(p))
             /\ \E x \in Crits \cup {"radios"} : e.id = Child(p, x)
          \/ /\ Odd(Len(p)) /\ p[Len(p)] \in Crits
             /\ e.title \in Words /\ e.title # None /\ e.id = Child(p, e.title)
        BY <1>2, <2>1, <2>2, Entries
    <2>4. reply' = [place |-> e.id, asked |-> "children", entries |-> Children(e.id, ccodetoc')]
        BY <1>2 DEF Asked
    <2>5. chosen' = IF Odd(Len(p)) THEN chosen \cup {<<Last(p), e.title>>} ELSE chosen
        <3>1. Len(<<>>) = 0 /\ ~Odd(0)
            BY DEF Odd
        <3>2. Odd(Len(p)) => p # <<>>
            BY <3>1, Zenon
        <3>. QED BY <1>2, <3>2 DEF Odd
    <2> HIDE DEF p
    <2>6. CASE ~Odd(Len(p))
        <3>1. Taken(e.id, chosen')
            BY <2>1, <2>3, <2>5, <2>6, TakeName
        <3>. QED BY <2>4, <3>1 DEF RbInv
    <2>7. CASE Odd(Len(p)) /\ e.title \notin DOMAIN SplitValue
        <3>1. Taken(e.id, chosen')
            BY <2>1, <2>3, <2>5, <2>7, TakeValue
        <3>. QED BY <2>4, <3>1 DEF RbInv
    <2>8. CASE Odd(Len(p)) /\ e.title \in DOMAIN SplitValue
        <3>1. ~RadiosPlace(e.id) /\ Children(e.id, ccodetoc') = {}
            BY <2>1, <2>3, <2>8, TakeCut
        <3>. QED BY <2>4, <3>1 DEF RbInv
    <2>. QED BY <2>6, <2>7, <2>8
<1>. QED BY <1>1, <1>2 DEF Open

LEMMA StationsOnly == \A p, i, st : RadioToEntry(p, i, st).kind = "it"
BY DEF RadioToEntry

LEMMA RbStep == ASSUME PlainNames, RbInv, [RbNext]_rbvars PROVE RbInv'
<1>1. CASE Open
    BY <1>1, OpenStep
<1>2. CASE Meta
    <2>1. PICK e \in reply.entries :
            LET known == {st \in Stations : e.kind = "it" /\ st.uuid = Last(e.id)}
            IN  Asked(e.id, "meta", {RadioToEntry(e.id, <<None>>, st) : st \in known})
        BY <1>2 DEF Meta
    <2>. QED BY <2>1, StationsOnly DEF RbInv, Asked
<1>3. CASE Search
    <2>1. PICK name \in Searched :
            LET c == PathToCrits(reply.place)
            IN  Asked(reply.place, "search",
                      IF c.raises THEN {}
                      ELSE {RadioToEntry(reply.place, <<None>>, st) : st \in {s \in Facets(c.filterargs) : s.name = name}})
        BY <1>3 DEF Search
    <2>. QED BY <2>1, StationsOnly DEF RbInv, Asked
<1>4. CASE Restarted \/ InitRaises \/ UNCHANGED rbvars
    BY <1>4 DEF Restarted, InitRaises, rbvars, RbInv
<1>. QED BY <1>1, <1>2, <1>3, <1>4 DEF RbNext

\* Whatever a control point opens and asks for on its way, whatever is restarted or fails, the
\* places which it reaches tell what it has chosen (_pathtocrits() and browse()).
THEOREM PlacesTell == PlainNames => (RbSpec => []RbInv)
<1>. SUFFICES ASSUME PlainNames PROVE RbSpec => []RbInv
    OBVIOUS
<1>1. RbInit \/ RbOff => RbInv
    BY DEF RbInit, RbOff, RbInv
<1>2. RbInv /\ [RbNext]_rbvars => RbInv'
    BY RbStep
<1>. QED BY <1>1, <1>2, PTL DEF RbSpec

\* The list of radios of a place has the stations with everything which was chosen on the way, and
\* no others, if the names in the directory do not mean something in a path.
THEOREM ChosenStations == PlainNames => (RbSpec => []StationsAsChosen)
<1>. SUFFICES ASSUME PlainNames PROVE RbSpec => []StationsAsChosen
    OBVIOUS
<1>1. RbInv => StationsAsChosen
    BY Radios DEF RbInv, StationsAsChosen
<1>. QED BY <1>1, PlacesTell, PTL
=============================================================================

--------------------------- MODULE SubsonicProofs ---------------------------
(***************************************************************************)
(* The pages of a list of the Subsonic plugin, for any library and any     *)
(* size of a page: who follows Next from the first page to the last one is *)
(* shown the whole list, each element once and in its order, and what the  *)
(* pages show is true: an album is whole and in its order, the art of an   *)
(* artist or genre is of its own albums, and an entry made because there   *)
(* is something behind it leads to it.                                     *)
(***************************************************************************)
EXTENDS SubsonicBrowse, FiniteSetTheorems, SequenceTheorems, WellFoundedInduction, TLAPS

-----------------------------------------------------------------------------
(* The invariant *)

\* The lists which are cut into pages (those of the albums of an artist lose elements).
Paged(id) ==
    \/ id.n = "tag" /\ id.v \in DOMAIN Ordered \cup {"fs", "fsl", "fav_rtsts"}
    \/ id.n \in {"gnr_lbus", "gnr_rtst_lbms"}

ListOf(id) ==
    IF id.n = "tag"
    THEN IF id.v \in DOMAIN Ordered THEN Ordered[id.v]
         ELSE IF id.v = "fav_rtsts" THEN Starred.artists ELSE Starred.songs
    ELSE IF id.n = "gnr_lbus" THEN GenreAlbums(id.g) ELSE ArtistGenreAlbums(id.v, id.g)

\* The place of the last element of the page at an offset.
PageEnd(list, offset) == IF Len(list) < offset + PageSize THEN Len(list) ELSE offset + PageSize

IsList(s) == Len(s) \in Nat /\ s = [i \in 1..Len(s) |-> s[i]]

ItemOf(n, v, o, g, path, mode) == [n |-> n, v |-> v, o |-> o, g |-> g, ap |-> path, sntr |-> mode]
IsItemRecord(r) == r = ItemOf(r.n, r.v, r.o, r.g, r.ap, r.sntr)

\* An identifier which a handler makes: tags have nothing but a name and an offset, and only the
\* first page of the favourite songs is that of "fs".
Known(id) ==
    /\ IsItemRecord(id) /\ id.n \in ElementNames /\ id.o \in Nat
    /\ id.n = "tag" => id.v \in TagNames /\ id = At(Tag(id.v), id.o) /\ (id.v = "fs" => id.o = 0)

\* An entry of the page of an identifier begins a list, or continues the one at hand.
Entry(id, e) ==
    /\ Known(e)
    /\ e.o # 0 => /\ IsNext(id, e)
                  /\ Paged(id) => e.o = id.o + PageSize /\ e.o <= Len(ListOf(id))

\* The first elements of a list, and no others, are shown.
SeenTo(s, list, k) ==
    /\ IsList(s) /\ Len(s) = k /\ k \in 0..Len(list)
    /\ \A i \in 1..k : s[i].v = list[i]

Place ==
    \/ Known(at) /\ ~IsItem(at)
    \/ at \in {Root, Nowhere}
    \/ at.v \in DOMAIN Found /\ at = Search(at.v)

LoopInv ==
    /\ loop = [for |-> loop.for, offset |-> loop.offset, last |-> loop.last]
    /\ loop.for \in {"none", "listing", "caching", "answer"}
    /\ at = Nowhere => loop.for \in {"none", "caching"}
    /\ loop.for # "none" => page = <<>>

ShownInv ==
    Paged(at) =>
        /\ SeenTo(seen, ListOf(at), IF loop.for = "none" THEN PageEnd(ListOf(at), at.o) ELSE at.o)
        /\ at.o \in 0..Len(ListOf(at))
        /\ loop.for = "none" /\ ~(\E e \in ToSet(page) : IsNext(at, e)) =>
             PageEnd(ListOf(at), at.o) = Len(ListOf(at))

PageInv ==
    /\ Place /\ LoopInv /\ ShownInv
    /\ \A e \in ToSet(page) : Entry(at, e)

-----------------------------------------------------------------------------
(* Lists *)

LEMMA ListIsSeq ==
    ASSUME NEW s, IsList(s)
    PROVE  /\ s \in Seq({s[i] : i \in 1..Len(s)})
           /\ DOMAIN s = 1..Len(s)
<1>1. Len(s) \in Nat /\ s = [i \in 1..Len(s) |-> s[i]]
    BY DEF IsList
<1>2. DOMAIN s = 1..Len(s)
    BY <1>1, Zenon
<1>3. \A i \in 1..Len(s) : s[i] \in {s[k] : k \in 1..Len(s)}
    OBVIOUS
<1>4. [i \in 1..Len(s) |-> s[i]] \in Seq({s[k] : k \in 1..Len(s)})
    BY <1>1, <1>3, IsASeq
<1>. QED BY <1>1, <1>2, <1>4, Zenon

LEMMA SeqIsList ==
    ASSUME NEW S, NEW s \in Seq(S)
    PROVE  IsList(s)
<1>1. Len(s) \in Nat /\ s \in [1..Len(s) -> S]
    BY LenProperties
<1>. QED BY <1>1 DEF IsList

LEMMA FunctionIsList ==
    ASSUME NEW n \in Nat, NEW f, f = [i \in 1..n |-> f[i]]
    PROVE  IsList(f) /\ Len(f) = n
<1>1. \A i \in 1..n : f[i] \in {f[k] : k \in 1..n}
    OBVIOUS
<1>2. [i \in 1..n |-> f[i]] \in Seq({f[k] : k \in 1..n})
    BY <1>1, IsASeq
<1>3. f \in Seq({f[k] : k \in 1..n})
    BY <1>2, Zenon
<1>4. DOMAIN f = 1..n
    BY Zenon
<1>. QED BY <1>3, <1>4, SeqIsList, LenProperties

LEMMA EmptyList == IsList(<<>>) /\ Len(<<>>) = 0
<1>1. <<>> \in Seq({})
    OBVIOUS
<1>. QED BY <1>1, SeqIsList

LEMMA Joined ==
    ASSUME NEW s, IsList(s), NEW t, IsList(t)
    PROVE  /\ IsList(s \o t) /\ Len(s \o t) = Len(s) + Len(t)
           /\ \A i \in 1..Len(s) : (s \o t)[i] = s[i]
           /\ \A i \in 1..Len(t) : (s \o t)[Len(s) + i] = t[i]
           /\ \A e \in ToSet(s \o t) : e \in ToSet(s) \/ e \in ToSet(t)
<1> DEFINE S == {s[i] : i \in 1..Len(s)}
           T == {t[i] : i \in 1..Len(t)}
<1>1. s \in Seq(S) /\ t \in Seq(T) /\ DOMAIN s = 1..Len(s) /\ DOMAIN t = 1..Len(t)
    BY ListIsSeq
<1>2. Len(s) \in Nat /\ Len(t) \in Nat
    BY DEF IsList
<1> HIDE DEF S, T
<1>3. s \in Seq(S \cup T) /\ t \in Seq(S \cup T)
    BY <1>1, SeqMonotonic
<1>4. /\ s \o t \in Seq(S \cup T) /\ Len(s \o t) = Len(s) + Len(t)
      /\ \A i \in 1..Len(s) + Len(t) : (s \o t)[i] = IF i <= Len(s) THEN s[i] ELSE t[i - Len(s)]
    BY <1>3, ConcatProperties
<1>5. IsList(s \o t) /\ DOMAIN (s \o t) = 1..Len(s) + Len(t)
    BY <1>4, SeqIsList, LenProperties
<1>6. ASSUME NEW i \in 1..Len(t) PROVE (s \o t)[Len(s) + i] = t[i]
    <2>1. Len(s) + i \in 1..Len(s) + Len(t) /\ ~(Len(s) + i <= Len(s)) /\ (Len(s) + i) - Len(s) = i
        BY <1>2
    <2>. QED BY <1>4, <2>1
<1>7. ASSUME NEW i \in 1..Len(s) + Len(t)
      PROVE  (s \o t)[i] \in ToSet(s) \/ (s \o t)[i] \in ToSet(t)
    <2>1. CASE i <= Len(s)
        <3>1. i \in DOMAIN s /\ (s \o t)[i] = s[i]
            BY <1>1, <1>2, <1>4, <2>1
        <3>. QED BY <3>1 DEF ToSet
    <2>2. CASE ~(i <= Len(s))
        <3>1. i - Len(s) \in DOMAIN t /\ (s \o t)[i] = t[i - Len(s)]
            BY <1>1, <1>2, <1>4, <2>2
        <3>. QED BY <3>1 DEF ToSet
    <2>. QED BY <2>1, <2>2
<1>8. \A e \in ToSet(s \o t) : e \in ToSet(s) \/ e \in ToSet(t)
    BY <1>5, <1>7 DEF ToSet
<1>9. \A i \in 1..Len(s) : (s \o t)[i] = s[i]
    BY <1>2, <1>4
<1>. QED BY <1>4, <1>5, <1>6, <1>8, <1>9

LEMMA One ==
    ASSUME NEW x
    PROVE  IsList(<<x>>) /\ Len(<<x>>) = 1 /\ <<x>>[1] = x /\ (\A e \in ToSet(<<x>>) : e = x) /\ x \in ToSet(<<x>>)
<1>1. <<x>> \in Seq({x}) /\ Len(<<x>>) = 1 /\ <<x>>[1] = x
    OBVIOUS
<1>2. DOMAIN <<x>> = 1..1
    BY <1>1, LenProperties
<1>3. IsList(<<x>>)
    BY <1>1, SeqIsList
<1>4. \A i \in DOMAIN <<x>> : i = 1 /\ <<x>>[i] = x
    BY <1>1, <1>2
<1>5. 1 \in DOMAIN <<x>>
    BY <1>2
<1>6. (\A e \in ToSet(<<x>>) : e = x) /\ x \in ToSet(<<x>>)
    BY <1>1, <1>4, <1>5, Zenon DEF ToSet
<1>. QED BY <1>1, <1>3, <1>6

\* A part of a list.
LEMMA Cut ==
    ASSUME NEW s, NEW m \in Int, NEW n \in Int
    PROVE  /\ IsList(SubSeq(s, m, n))
           /\ Len(SubSeq(s, m, n)) = IF m <= n THEN n - m + 1 ELSE 0
           /\ \A i \in 1..n - m + 1 : SubSeq(s, m, n)[i] = s[m + i - 1]
<1> DEFINE S == {s[i] : i \in m..n}
<1>1. \A i \in m..n : s[i] \in S
    OBVIOUS
<1> HIDE DEF S
<1>2. /\ SubSeq(s, m, n) \in Seq(S)
      /\ Len(SubSeq(s, m, n)) = IF m <= n THEN n - m + 1 ELSE 0
      /\ \A i \in 1..n - m + 1 : SubSeq(s, m, n)[i] = s[m + i - 1]
    BY <1>1, SubSeqProperties
<1>. QED BY <1>2, SeqIsList

LEMMA AtPlacesIsList ==
    ASSUME NEW list, IsList(list), NEW places, places \subseteq DOMAIN list
    PROVE  IsList(AtPlaces(list, places))
<1>1. IsFiniteSet(places) /\ Cardinality(places) \in Nat
    <2>1. DOMAIN list = 1..Len(list) /\ Len(list) \in Nat
        BY ListIsSeq DEF IsList
    <2>2. IsFiniteSet(1..Len(list))
        BY <2>1, FS_Interval
    <2>. QED BY <2>1, <2>2, FS_Subset, FS_CardinalityType
<1>2. AtPlaces(list, places) = [n \in 1..Cardinality(places) |-> AtPlaces(list, places)[n]]
    BY DEF AtPlaces
<1>. QED BY <1>1, <1>2, FunctionIsList

\* The entries of a list of values.
LEMMA EachOf ==
    ASSUME NEW n, NEW values
    PROVE  /\ \A e \in ToSet(Each(n, values)) : \E v : e = ItemIdentifier(n, v)
           /\ IsList(values) =>
                /\ IsList(Each(n, values)) /\ Len(Each(n, values)) = Len(values)
                /\ \A i \in 1..Len(values) : Each(n, values)[i] = ItemIdentifier(n, values[i])
<1>1. Each(n, values) = [i \in DOMAIN values |-> ItemIdentifier(n, values[i])]
    BY DEF Each
<1>2. \A e \in ToSet(Each(n, values)) : \E v : e = ItemIdentifier(n, v)
    BY <1>1 DEF ToSet
<1>3. ASSUME IsList(values)
      PROVE  /\ IsList(Each(n, values)) /\ Len(Each(n, values)) = Len(values)
             /\ \A i \in 1..Len(values) : Each(n, values)[i] = ItemIdentifier(n, values[i])
    <2>1. DOMAIN values = 1..Len(values) /\ Len(values) \in Nat
        BY <1>3, ListIsSeq DEF IsList
    <2>2. Each(n, values) = [i \in 1..Len(values) |-> Each(n, values)[i]]
        BY <1>1, <2>1
    <2>3. \A i \in 1..Len(values) : Each(n, values)[i] = ItemIdentifier(n, values[i])
        BY <1>1, <2>1
    <2>. QED BY <2>1, <2>2, <2>3, FunctionIsList
<1>. QED BY <1>2, <1>3

-----------------------------------------------------------------------------
(* The entries which the handlers make *)

\* The mode of a new identifier.
Yes == TRUE

LEMMA NewItem == \A n, v : ItemIdentifier(n, v) = ItemOf(n, v, 0, "", "", Yes)
<1>1. ASSUME NEW n, NEW v PROVE ItemIdentifier(n, v) = ItemOf(n, v, 0, "", "", Yes)
    BY Zenon DEF ItemIdentifier, ItemOf, Yes
<1>. QED BY <1>1

\* An identifier with another genre, version path, mode or offset.
LEMMA ChangedItem ==
    ASSUME NEW n, NEW v, NEW x
    PROVE  /\ InGenre(ItemIdentifier(n, v), x) = ItemOf(n, v, 0, x, "", Yes)
           /\ InVersion(ItemIdentifier(n, v), x) = ItemOf(n, v, 0, "", x, Yes)
           /\ InMode(ItemIdentifier(n, v), x) = ItemOf(n, v, 0, "", "", x)
           /\ At(ItemIdentifier(n, v), x) = ItemOf(n, v, x, "", "", Yes)
<1> DEFINE r == ItemOf(n, v, 0, "", "", Yes)
<1>1. IsItemRecord(r) /\ r.n = n /\ r.v = v /\ r.o = 0 /\ r.g = "" /\ r.ap = "" /\ r.sntr = Yes
    BY DEF ItemOf, IsItemRecord
<1>2. ItemIdentifier(n, v) = r
    BY NewItem
<1> HIDE DEF r
<1>3. /\ InGenre(r, x) = ItemOf(r.n, r.v, r.o, x, r.ap, r.sntr)
      /\ InVersion(r, x) = ItemOf(r.n, r.v, r.o, r.g, x, r.sntr)
      /\ InMode(r, x) = ItemOf(r.n, r.v, r.o, r.g, r.ap, x)
      /\ At(r, x) = ItemOf(r.n, r.v, x, r.g, r.ap, r.sntr)
    <2>1. IsItemRecord(r)
        BY <1>1
    <2>. QED BY <2>1 DEF IsItemRecord, ItemOf, InGenre, InVersion, InMode, At
<1>. QED BY <1>1, <1>2, <1>3, Zenon

\* What is not a tag may have any value, genre, path and mode.
LEMMA Items ==
    ASSUME NEW n \in ElementNames \ {"tag"}, NEW v, NEW x
    PROVE  /\ Known(ItemIdentifier(n, v)) /\ ItemIdentifier(n, v).o = 0
           /\ \A e \in {InGenre(ItemIdentifier(n, v), x), InVersion(ItemIdentifier(n, v), x),
                        InMode(ItemIdentifier(n, v), x)} : Known(e) /\ e.o = 0
<1>1. \A g, p, m : Known(ItemOf(n, v, 0, g, p, m)) /\ ItemOf(n, v, 0, g, p, m).o = 0
    BY DEF Known, ItemOf, IsItemRecord
<1>2. /\ ItemIdentifier(n, v) = ItemOf(n, v, 0, "", "", Yes)
      /\ InGenre(ItemIdentifier(n, v), x) = ItemOf(n, v, 0, x, "", Yes)
      /\ InVersion(ItemIdentifier(n, v), x) = ItemOf(n, v, 0, "", x, Yes)
      /\ InMode(ItemIdentifier(n, v), x) = ItemOf(n, v, 0, "", "", x)
    BY NewItem, ChangedItem, Zenon
<1>3. ASSUME NEW e, NEW g, NEW p, NEW m, e = ItemOf(n, v, 0, g, p, m) PROVE Known(e) /\ e.o = 0
    BY <1>1, <1>3, Zenon
<1>. QED BY <1>2, <1>3, Zenon

LEMMA TagItems ==
    ASSUME NEW t \in TagNames PROVE Known(Tag(t)) /\ Tag(t).o = 0 /\ Tag(t).n = "tag"
<1>1. "tag" \in ElementNames
    BY DEF ElementNames
<1>2. Tag(t) = ItemOf("tag", t, 0, "", "", Yes) /\ At(Tag(t), 0) = ItemOf("tag", t, 0, "", "", Yes)
    BY NewItem, ChangedItem DEF Tag
<1>3. LET r == ItemOf("tag", t, 0, "", "", Yes)
      IN  IsItemRecord(r) /\ r.n = "tag" /\ r.v = t /\ r.o = 0
    BY DEF ItemOf, IsItemRecord
<1>4. IsItemRecord(Tag(t)) /\ Tag(t).n = "tag" /\ Tag(t).v = t /\ Tag(t).o = 0 /\ Tag(t) = At(Tag(t), 0)
    BY <1>2, <1>3
<1>. QED BY <1>1, <1>4 DEF Known

\* The next page of a list, whose identifier differs in nothing but the offset.
LEMMA NextItem ==
    ASSUME NEW id, Known(id), NEW k \in Nat, k > id.o, ~(id.n = "tag" /\ id.v = "fs")
    PROVE  Known(At(id, k)) /\ At(id, k).o = k /\ IsNext(id, At(id, k))
<1>1. At(id, k) = ItemOf(id.n, id.v, k, id.g, id.ap, id.sntr)
    BY DEF Known, IsItemRecord, ItemOf, At
<1>2. IsItemRecord(At(id, k)) /\ At(id, k).n = id.n /\ At(id, k).v = id.v /\ At(id, k).g = id.g /\ At(id, k).o = k
    BY <1>1 DEF ItemOf, IsItemRecord
<1>3. IsNext(id, At(id, k))
    BY <1>2 DEF IsNext
<1>4. ASSUME id.n = "tag"
      PROVE  id.v \in TagNames /\ id.v # "fs" /\ At(id, k) = At(Tag(id.v), k)
    <2>1. id = At(Tag(id.v), id.o) /\ id.v \in TagNames /\ id.v # "fs"
        BY <1>4 DEF Known
    <2>2. At(Tag(id.v), id.o) = ItemOf("tag", id.v, id.o, "", "", Yes)
          /\ At(Tag(id.v), k) = ItemOf("tag", id.v, k, "", "", Yes)
        BY ChangedItem DEF Tag
    <2>3. id.g = "" /\ id.ap = "" /\ id.sntr = Yes
        <3>1. LET e == ItemOf("tag", id.v, id.o, "", "", Yes) IN e.g = "" /\ e.ap = "" /\ e.sntr = Yes
            BY DEF ItemOf
        <3>. QED BY <2>1, <2>2, <3>1, Zenon
    <2>. QED BY <1>1, <1>4, <2>1, <2>2, <2>3
<1>5. id.n \in ElementNames
    BY DEF Known
<1>. QED BY <1>2, <1>3, <1>4, <1>5 DEF Known

-----------------------------------------------------------------------------
(* A page of a list *)

\* What may follow the elements of a page.
IsTail(id, next) ==
    \/ next = <<>> /\ PageEnd(ListOf(id), id.o) = Len(ListOf(id))
    \/ \E x : /\ next = <<x>> /\ Known(x) /\ IsNext(id, x)
              /\ x.o = id.o + PageSize /\ x.o <= Len(ListOf(id))

IsPage(id, answer) ==
    \E n \in ElementNames \ {"tag"} : \E next :
       answer = Each(n, Slice(ListOf(id), id.o)) \o next /\ IsTail(id, next)

LEMMA SliceOf ==
    ASSUME NEW list, IsList(list), NEW k \in 0..Len(list)
    PROVE  /\ PageEnd(list, k) \in k..Len(list)
           /\ IsList(Slice(list, k)) /\ Len(Slice(list, k)) = PageEnd(list, k) - k
           /\ \A i \in 1..PageEnd(list, k) - k : Slice(list, k)[i] = list[k + i]
<1> DEFINE end == PageEnd(list, k)
<1>1. Len(list) \in Nat /\ PageSize \in Nat \ {0}
    BY LibraryAssumption DEF IsList
<1>2. end \in k..Len(list) /\ k \in Nat /\ end \in Nat
    BY <1>1 DEF PageEnd
<1>3. Slice(list, k) = SubSeq(list, k + 1, end)
    BY DEF Slice, PageEnd
<1> HIDE DEF end
<1>4. k + 1 \in Int /\ end \in Int /\ end - (k + 1) + 1 = end - k /\ (~(k + 1 <= end) => end - k = 0)
    BY <1>2
<1>5. /\ IsList(SubSeq(list, k + 1, end))
      /\ Len(SubSeq(list, k + 1, end)) = end - k
      /\ \A i \in 1..end - k : SubSeq(list, k + 1, end)[i] = list[(k + 1) + i - 1]
    BY <1>4, Cut
<1>6. \A i \in 1..end - k : (k + 1) + i - 1 = k + i
    BY <1>2
<1>. QED BY <1>2, <1>3, <1>5, <1>6 DEF end

\* What an answer lists is the page, without the Next which may follow it.
LEMMA ElementsOfPage ==
    ASSUME NEW id, id.o \in Nat, NEW page1, IsList(page1), \A i \in 1..Len(page1) : page1[i].o = 0
    PROVE  /\ Elements(id, page1 \o <<>>) = page1
           /\ \A x : IsNext(id, x) => Elements(id, page1 \o <<x>>) = page1
<1> DEFINE S == {page1[i] : i \in 1..Len(page1)}
<1>1. page1 \in Seq(S) /\ Len(page1) \in Nat
    BY ListIsSeq DEF IsList
<1> HIDE DEF S
<1>2. Elements(id, page1 \o <<>>) = page1
    <2>1. page1 \o <<>> = page1
        BY <1>1, ConcatEmptySeq
    <2>2. ASSUME page1 # <<>> PROVE ~IsNext(id, Last(page1))
        <3>1. Len(page1) \in 1..Len(page1)
            BY <1>1, <2>2
        <3>2. Last(page1).o = 0
            BY <3>1 DEF Last
        <3>3. \A e : e.o = 0 => ~(e.o > id.o) /\ ~(e.o > 0)
            OBVIOUS
        <3>. QED BY <3>2, <3>3 DEF IsNext
    <2>. QED BY <2>1, <2>2, Zenon DEF Elements
<1>3. ASSUME NEW x, IsNext(id, x) PROVE Elements(id, page1 \o <<x>>) = page1
    <2> DEFINE all == page1 \o <<x>>
    <2>1. /\ IsList(all) /\ Len(all) = Len(page1) + 1
          /\ \A i \in 1..Len(page1) : all[i] = page1[i]
          /\ all[Len(page1) + 1] = x
        <3>1. IsList(<<x>>) /\ Len(<<x>>) = 1 /\ <<x>>[1] = x
            BY One
        <3>2. 1 \in 1..Len(<<x>>)
            BY <3>1
        <3> HIDE DEF all
        <3>3. /\ IsList(all) /\ Len(all) = Len(page1) + Len(<<x>>)
              /\ \A i \in 1..Len(page1) : all[i] = page1[i]
              /\ \A i \in 1..Len(<<x>>) : all[Len(page1) + i] = <<x>>[i]
            BY <3>1, Joined DEF all
        <3>. QED BY <3>1, <3>2, <3>3, Zenon
    <2> HIDE DEF all
    <2>2. Last(all) = x /\ all # <<>>
        BY <1>1, <2>1, EmptyList DEF Last
    <2>3. Front(all) = page1
        <3>1. Front(all) = SubSeq(all, 1, Len(page1))
            BY <1>1, <2>1 DEF Front
        <3>2. \A i \in 1..Len(page1) : all[i] \in S
            BY <1>1, <2>1, ElementOfSeq
        <3>3. /\ SubSeq(all, 1, Len(page1)) \in Seq(S)
              /\ Len(SubSeq(all, 1, Len(page1))) = IF 1 <= Len(page1) THEN Len(page1) - 1 + 1 ELSE 0
              /\ \A i \in 1..Len(page1) - 1 + 1 : SubSeq(all, 1, Len(page1))[i] = all[1 + i - 1]
            BY <1>1, <3>2, SubSeqProperties
        <3>4. \A i \in 1..Len(page1) : SubSeq(all, 1, Len(page1))[i] = page1[i]
            BY <1>1, <2>1, <3>3
        <3>5. Len(SubSeq(all, 1, Len(page1))) = Len(page1)
            BY <1>1, <3>3
        <3>. QED BY <1>1, <3>1, <3>3, <3>4, <3>5, SeqEqual
    <2>. QED BY <1>3, <2>2, <2>3, Zenon DEF Elements, all
<1>. QED BY <1>2, <1>3

\* A page of a list is shown after those before it.
LEMMA PageShown ==
    ASSUME NEW id, Known(id), Paged(id), IsList(ListOf(id)), id.o \in 0..Len(ListOf(id)),
           NEW s, SeenTo(s, ListOf(id), id.o), NEW answer, IsPage(id, answer)
    PROVE  /\ SeenTo(s \o Elements(id, answer), ListOf(id), PageEnd(ListOf(id), id.o))
           /\ \A e \in ToSet(answer) : Entry(id, e)
           /\ ~(\E e \in ToSet(answer) : IsNext(id, e)) => PageEnd(ListOf(id), id.o) = Len(ListOf(id))
<1> DEFINE W == ListOf(id)
           k == id.o
           end == PageEnd(W, k)
<1>0. PICK n \in ElementNames \ {"tag"} : \E next : answer = Each(n, Slice(W, k)) \o next /\ IsTail(id, next)
    BY Zenon DEF IsPage
<1>1. PICK next :
         /\ answer = Each(n, Slice(W, k)) \o next
         /\ \/ next = <<>> /\ end = Len(W)
            \/ \E x : /\ next = <<x>> /\ Known(x) /\ IsNext(id, x)
                      /\ x.o = id.o + PageSize /\ x.o <= Len(W)
    BY <1>0, Zenon DEF IsTail
<1> DEFINE p == Each(n, Slice(W, k))
<1>2. /\ end \in k..Len(W) /\ k \in 0..Len(W) /\ Len(W) \in Nat
      /\ IsList(Slice(W, k)) /\ Len(Slice(W, k)) = end - k
      /\ \A i \in 1..end - k : Slice(W, k)[i] = W[k + i]
    BY SliceOf DEF IsList
<1>3. /\ IsList(p) /\ Len(p) = end - k
      /\ \A i \in 1..end - k : p[i] = ItemIdentifier(n, W[k + i])
      /\ \A e \in ToSet(p) : \E v : e = ItemIdentifier(n, v)
    BY <1>2, EachOf
<1> HIDE DEF W, end, p, k
<1>4. \A v : Known(ItemIdentifier(n, v)) /\ ItemIdentifier(n, v).o = 0 /\ ItemIdentifier(n, v).v = v
    <2>1. ASSUME NEW v PROVE ItemIdentifier(n, v).v = v
        BY DEF ItemIdentifier
    <2>. QED BY <2>1, Items
<1>5. /\ \A i \in 1..end - k : p[i].v = W[k + i] /\ p[i].o = 0
      /\ \A e \in ToSet(p) : Known(e) /\ e.o = 0
    BY <1>3, <1>4
<1>6. SeenTo(s \o p, W, end)
    <2>1. IsList(s) /\ Len(s) = k /\ \A i \in 1..k : s[i].v = W[i]
        BY DEF SeenTo, W, k
    <2>2. /\ IsList(s \o p) /\ Len(s \o p) = k + (end - k)
          /\ \A i \in 1..k : (s \o p)[i] = s[i]
          /\ \A i \in 1..end - k : (s \o p)[k + i] = p[i]
        <3>1. /\ IsList(s \o p) /\ Len(s \o p) = Len(s) + Len(p)
              /\ \A i \in 1..Len(s) : (s \o p)[i] = s[i]
              /\ \A i \in 1..Len(p) : (s \o p)[Len(s) + i] = p[i]
            <4>1. IsList(s) /\ IsList(p)
                BY <1>3, <2>1
            <4>. QED BY <4>1, Joined
        <3>. QED BY <1>3, <2>1, <3>1, Zenon
    <2>3. ASSUME NEW i \in 1..end PROVE (s \o p)[i].v = W[i]
        <3>1. CASE i <= k
            BY <1>2, <2>1, <2>2, <3>1
        <3>2. CASE ~(i <= k)
            <4>1. i - k \in 1..end - k /\ k + (i - k) = i
                BY <1>2, <3>2
            <4>. QED BY <1>5, <2>2, <4>1
        <3>. QED BY <3>1, <3>2
    <2>4. k + (end - k) = end /\ end \in 0..Len(W)
        BY <1>2
    <2>. QED BY <2>2, <2>3, <2>4 DEF SeenTo
<1>7. id.o \in Nat /\ \A i \in 1..Len(p) : p[i].o = 0
    BY <1>3, <1>5 DEF Known
<1>8. CASE next = <<>> /\ end = Len(W)
    <2>1. answer = p \o <<>>
        BY <1>1, <1>8 DEF p
    <2>2. Elements(id, answer) = p
        BY <1>3, <1>7, <2>1, ElementsOfPage
    <2>3. \A e \in ToSet(answer) : e \in ToSet(p)
        <3>1. \A e : e \notin ToSet(<<>>)
            BY EmptyList, ListIsSeq DEF ToSet
        <3>. QED BY <1>3, <2>1, <3>1, Joined, EmptyList
    <2>4. \A e \in ToSet(answer) : Entry(id, e)
        BY <1>5, <2>3 DEF Entry
    <2>. QED BY <1>6, <1>8, <2>2, <2>4 DEF W, end, k
<1>9. CASE \E x : next = <<x>> /\ Known(x) /\ IsNext(id, x) /\ x.o = id.o + PageSize /\ x.o <= Len(W)
    <2>1. PICK x : next = <<x>> /\ Known(x) /\ IsNext(id, x) /\ x.o = id.o + PageSize /\ x.o <= Len(W)
        BY <1>9
    <2>2. answer = p \o <<x>>
        BY <1>1, <2>1 DEF p
    <2>3. Elements(id, answer) = p
        BY <1>3, <1>7, <2>1, <2>2, ElementsOfPage
    <2>4. IsList(<<x>>) /\ Len(<<x>>) = 1 /\ <<x>>[1] = x /\ (\A e \in ToSet(<<x>>) : e = x)
        BY One
    <2>5. \A e \in ToSet(answer) : e \in ToSet(p) \/ e = x
        BY <1>3, <2>2, <2>4, Joined
    <2>6. x \in ToSet(answer)
        <3>1. IsList(answer) /\ Len(answer) = Len(p) + 1 /\ Len(p) \in Nat
            BY <1>3, <2>2, <2>4, Joined DEF IsList
        <3>2. 1 \in 1..Len(<<x>>)
            BY <2>4
        <3>3. answer[Len(p) + 1] = x
            <4>1. IsList(p) /\ IsList(<<x>>)
                BY <1>3, <2>4
            <4>2. \A i \in 1..Len(<<x>>) : (p \o <<x>>)[Len(p) + i] = <<x>>[i]
                BY <4>1, Joined
            <4>. QED BY <2>2, <2>4, <3>2, <4>2, Zenon
        <3>4. Len(p) + 1 \in DOMAIN answer
            BY <3>1, ListIsSeq
        <3>. QED BY <3>3, <3>4, Zenon DEF ToSet
    <2>7. Entry(id, x)
        BY <2>1 DEF Entry, W
    <2>8. \A e \in ToSet(answer) : Entry(id, e)
        BY <1>5, <2>5, <2>7 DEF Entry
    <2>. QED BY <1>6, <2>1, <2>3, <2>6, <2>8 DEF W, end, k
<1>. QED BY <1>1, <1>8, <1>9

\* The lists which are cut into pages are lists, of any library.
LEMMA ListsAreLists ==
    ASSUME NEW id, Paged(id) PROVE IsList(ListOf(id))
<1>1. \A g : IsList(GenreAlbums(g))
    <2>1. ASSUME NEW g PROVE IsList(GenreAlbums(g))
        BY LibraryAssumption, SeqIsList, AtPlacesIsList DEF GenreAlbums
    <2>. QED BY <2>1
<1>2. \A x, g : IsList(ArtistGenreAlbums(x, g))
    <2>1. ASSUME NEW x, NEW g PROVE IsList(ArtistGenreAlbums(x, g))
        <3> DEFINE places == {i \in DOMAIN GenreAlbums(g) : Named(x, AlbumOf[GenreAlbums(g)[i]].artist)}
        <3>1. ArtistGenreAlbums(x, g) = AtPlaces(GenreAlbums(g), places)
            BY DEF ArtistGenreAlbums
        <3>2. places \subseteq DOMAIN GenreAlbums(g)
            OBVIOUS
        <3> HIDE DEF places
        <3>. QED BY <1>1, <3>1, <3>2, AtPlacesIsList
    <2>. QED BY <2>1
<1>3. \A t \in DOMAIN Ordered : IsList(Ordered[t])
    BY LibraryAssumption, SeqIsList
<1>4. IsList(Starred.artists) /\ IsList(Starred.songs)
    BY LibraryAssumption, SeqIsList
<1>. QED BY <1>1, <1>2, <1>3, <1>4 DEF Paged, ListOf

LEMMA Tails ==
    ASSUME NEW id, Known(id), IsList(ListOf(id)), id.o \in 0..Len(ListOf(id)),
           NEW x, Known(x), IsNext(id, x), x.o = id.o + PageSize, NEW next,
           \/ next = IF Len(Slice(ListOf(id), id.o)) = PageSize THEN <<x>> ELSE <<>>
           \/ next = IF Len(ListOf(id)) > id.o + PageSize THEN <<x>> ELSE <<>>
    PROVE  IsTail(id, next)
<1> DEFINE W == ListOf(id)
           k == id.o
<1>1. Len(W) \in Nat /\ k \in 0..Len(W) /\ PageSize \in Nat \ {0}
    BY LibraryAssumption DEF IsList
<1>2. Len(Slice(W, k)) = PageEnd(W, k) - k
    BY SliceOf
<1> HIDE DEF W, k
<1>3. Len(Slice(W, k)) = PageSize => k + PageSize <= Len(W)
    BY <1>1, <1>2 DEF PageEnd
<1>4. Len(Slice(W, k)) # PageSize => PageEnd(W, k) = Len(W)
    BY <1>1, <1>2 DEF PageEnd
<1>5. Len(W) > k + PageSize => k + PageSize <= Len(W)
    BY <1>1
<1>6. ~(Len(W) > k + PageSize) => PageEnd(W, k) = Len(W)
    BY <1>1 DEF PageEnd
<1>7. (next = <<x>> /\ k + PageSize <= Len(W)) \/ (next = <<>> /\ PageEnd(W, k) = Len(W))
    BY <1>3, <1>4, <1>5, <1>6, Zenon DEF W, k
<1>. QED BY <1>7, Zenon DEF IsTail, W, k

LEMMA NextIs ==
    ASSUME NEW id, Known(id), IsList(ListOf(id)), id.o \in 0..Len(ListOf(id)), ~(id.n = "tag" /\ id.v = "fs")
    PROVE  IsTail(id, NextIfFull(ListOf(id), id)) /\ IsTail(id, NextIfMore(ListOf(id), id, id))
<1>1. id.o + PageSize \in Nat /\ id.o + PageSize > id.o
    <2>1. PageSize \in Nat \ {0}
        BY LibraryAssumption
    <2>2. id.o \in Nat
        BY DEF Known
    <2>. QED BY <2>1, <2>2
<1>2. Known(At(id, id.o + PageSize)) /\ At(id, id.o + PageSize).o = id.o + PageSize /\ IsNext(id, At(id, id.o + PageSize))
    BY <1>1, NextItem
<1>3. IsTail(id, NextIfFull(ListOf(id), id))
    BY <1>2, Tails DEF NextIfFull
<1>4. IsTail(id, NextIfMore(ListOf(id), id, id))
    BY <1>2, Tails DEF NextIfMore
<1>. QED BY <1>3, <1>4

\* The first page of the favourite songs is continued by those of "fsl", whatever its mode.
LEMMA NextOfSongs ==
    ASSUME NEW id, Known(id), id.n = "tag", id.v \in {"fs", "fsl"},
           IsList(ListOf(id)), id.o \in 0..Len(ListOf(id))
    PROVE  IsTail(id, NextIfMore(ListOf(id), id, Tag("fsl")))
<1> DEFINE k == id.o + PageSize
           x == At(Tag("fsl"), k)
<1>1. id.o \in Nat /\ k \in Nat /\ k > id.o /\ k > 0
    <2>1. PageSize \in Nat \ {0}
        BY LibraryAssumption
    <2>2. id.o \in Nat
        BY DEF Known
    <2>. QED BY <2>1, <2>2
<1>2. "fsl" \in TagNames
    BY DEF TagNames
<1>3. Known(Tag("fsl")) /\ Tag("fsl").o = 0 /\ Tag("fsl").v = "fsl" /\ Tag("fsl").n = "tag" /\ Tag("fsl").g = ""
    <2>1. Tag("fsl").v = "fsl" /\ Tag("fsl").g = ""
        BY DEF Tag, ItemIdentifier
    <2>. QED BY <1>2, <2>1, TagItems
<1>4. Known(x) /\ x.o = k
    BY <1>1, <1>3, NextItem
<1>5. x.n = "tag" /\ x.v = "fsl" /\ x.g = ""
    <2>1. x = ItemOf("tag", "fsl", k, "", "", Yes)
        BY ChangedItem DEF Tag
    <2>2. LET e == ItemOf("tag", "fsl", k, "", "", Yes) IN e.n = "tag" /\ e.v = "fsl" /\ e.g = ""
        BY DEF ItemOf
    <2>. QED BY <2>1, <2>2, Zenon
<1> HIDE DEF x, k
<1>6. IsNext(id, x)
    <2>1. CASE id.v = "fs"
        <3>1. id = Tag("fs")
            <4>1. id = At(Tag("fs"), 0)
                BY <2>1 DEF Known
            <4>2. At(Tag("fs"), 0) = Tag("fs")
                BY NewItem, ChangedItem DEF Tag
            <4>. QED BY <4>1, <4>2
        <3>. QED BY <1>1, <1>4, <1>5, <3>1 DEF IsNext
    <2>2. CASE id.v = "fsl"
        <3>1. id = At(Tag("fsl"), id.o)
            BY <2>2 DEF Known
        <3>2. At(Tag("fsl"), id.o) = ItemOf("tag", "fsl", id.o, "", "", Yes)
            BY ChangedItem DEF Tag
        <3>3. ItemOf("tag", "fsl", id.o, "", "", Yes).g = ""
            BY DEF ItemOf
        <3>4. id.g = ""
            BY <3>1, <3>2, <3>3, Zenon
        <3>. QED BY <1>1, <1>4, <1>5, <2>2, <3>4 DEF IsNext
    <2>. QED BY <2>1, <2>2
<1>7. NextIfMore(ListOf(id), id, Tag("fsl")) = IF Len(ListOf(id)) > id.o + PageSize THEN <<x>> ELSE <<>>
    BY DEF NextIfMore, x, k
<1>. QED BY <1>4, <1>6, <1>7, Tails DEF k

LEMMA PagedAnswer ==
    ASSUME NEW id, Known(id), Paged(id), id.o \in 0..Len(ListOf(id)), NEW answer \in Answers(id)
    PROVE  IsPage(id, answer)
<1>1. IsList(ListOf(id))
    BY ListsAreLists
<1>2. ASSUME NEW n \in ElementNames \ {"tag"}, NEW next, IsTail(id, next),
             answer = Each(n, Slice(ListOf(id), id.o)) \o next
      PROVE  IsPage(id, answer)
    BY <1>2, Zenon DEF IsPage
<1>3. {"lbm", "sprs_lbm", "sngntr_n", "sngntr_s", "rtst"} \subseteq ElementNames \ {"tag"}
    BY DEF ElementNames
<1>4. id.n \notin {"root", "search"} /\ id # Root
    <2>1. id.n \notin {"root", "search"}
        BY DEF Known, ElementNames
    <2>2. Root.n = "root"
        BY DEF Root, ItemIdentifier
    <2>. QED BY <2>1, <2>2
<1>5. CASE id.n = "tag"
    <2>1. answer \in TagHandler(id)
        BY <1>4, <1>5 DEF Answers
    <2>2. CASE id.v \in DOMAIN Ordered
        <3>1. id.v \in {"n", "rp", "hr", "mp", "fav"}
            BY <2>2, LibraryAssumption
        <3>2. answer = __handler_tag_type(id)
            BY <2>1, <3>1 DEF TagHandler
        <3>3. ListOf(id) = Ordered[id.v]
            BY <1>5, <2>2 DEF ListOf
        <3>4. PICK n \in ElementNames \ {"tag"} : answer = Each(n, Slice(ListOf(id), id.o)) \o NextIfFull(ListOf(id), id)
            BY <1>3, <3>2, <3>3 DEF __handler_tag_type, _load_albums_by_type
        <3>5. IsTail(id, NextIfFull(ListOf(id), id))
            BY <1>1, <3>1, NextIs
        <3>. QED BY <1>2, <3>4, <3>5
    <2>3. CASE id.v \in {"fs", "fsl"}
        <3>1. PICK n \in ElementNames \ {"tag"} :
                answer = Each(n, Slice(Starred.songs, id.o)) \o NextIfMore(Starred.songs, id, Tag("fsl"))
            <4>1. \E m : answer = _get_favourite_songs(id, m)
                BY <2>1, <2>3 DEF TagHandler
            <4>2. PICK m : answer = _get_favourite_songs(id, m)
                BY <4>1
            <4>. QED BY <1>3, <4>2 DEF _get_favourite_songs, SongEntries
        <3>2. ListOf(id) = Starred.songs
            BY <1>5, <2>3, LibraryAssumption DEF ListOf
        <3>3. IsTail(id, NextIfMore(ListOf(id), id, Tag("fsl")))
            BY <1>1, <1>5, <2>3, NextOfSongs
        <3>. QED BY <1>2, <3>1, <3>2, <3>3
    <2>4. CASE id.v = "fav_rtsts"
        <3>1. answer = ArtistEntries(Slice(Starred.artists, id.o)) \o NextIfMore(Starred.artists, id, id)
            BY <2>1, <2>4 DEF TagHandler, _handler_tag_artists_favourite
        <3>2. ListOf(id) = Starred.artists
            BY <1>5, <2>4, LibraryAssumption DEF ListOf
        <3>3. IsTail(id, NextIfMore(ListOf(id), id, id))
            BY <1>1, <2>4, NextIs
        <3>. QED BY <1>2, <1>3, <3>1, <3>2, <3>3 DEF ArtistEntries
    <2>. QED BY <1>5, <2>2, <2>3, <2>4 DEF Paged
<1>6. CASE id.n \in {"gnr_lbus", "gnr_rtst_lbms"}
    <2>1. answer \in ElementHandler(id)
        BY <1>4, <1>6 DEF Answers
    <2>2. IsTail(id, NextIfFull(ListOf(id), id)) /\ IsTail(id, NextIfMore(ListOf(id), id, id))
        BY <1>1, <1>6, NextIs
    <2>3. \/ answer = AlbumEntries(Slice(ListOf(id), id.o)) \o NextIfFull(ListOf(id), id)
          \/ answer = AlbumEntries(Slice(ListOf(id), id.o)) \o NextIfMore(ListOf(id), id, id)
        <3>1. CASE id.n = "gnr_lbus"
            <4>1. answer = _handler_element_genre_album_list(id)
                BY <2>1, <3>1 DEF ElementHandler
            <4>. QED BY <3>1, <4>1 DEF _handler_element_genre_album_list, ListOf
        <3>2. CASE id.n = "gnr_rtst_lbms"
            <4>1. answer = _handler_element_genre_artist_albums(id)
                BY <2>1, <3>2 DEF ElementHandler
            <4>. QED BY <3>2, <4>1 DEF _handler_element_genre_artist_albums, ListOf
        <3>. QED BY <1>6, <3>1, <3>2
    <2>. QED BY <1>2, <1>3, <2>2, <2>3 DEF AlbumEntries
<1>. QED BY <1>5, <1>6 DEF Paged

-----------------------------------------------------------------------------
(* The other answers *)

Plain(answer) == \A e \in ToSet(answer) : Known(e) /\ e.o = 0
Things == ElementNames \ {"tag"}

LEMMA PlainEach ==
    ASSUME NEW n \in Things, NEW values
    PROVE  Plain(Each(n, values)) /\ (IsList(values) => IsList(Each(n, values)))
<1>1. \A e \in ToSet(Each(n, values)) : \E v : e = ItemIdentifier(n, v)
    BY EachOf
<1>2. \A v : Known(ItemIdentifier(n, v)) /\ ItemIdentifier(n, v).o = 0
    BY Items DEF Things
<1>. QED BY <1>1, <1>2, EachOf DEF Plain

LEMMA PlainTags ==
    ASSUME NEW tags \in Seq(TagNames)
    PROVE  Plain(Tags(tags))
<1>1. Tags(tags) = [i \in DOMAIN tags |-> Tag(tags[i])]
    BY DEF Tags, Each, Tag
<1>2. \A i \in DOMAIN tags : tags[i] \in TagNames
    BY LenProperties, ElementOfSeq
<1>3. \A i \in DOMAIN tags : Known(Tag(tags[i])) /\ Tag(tags[i]).o = 0
    BY <1>2, TagItems
<1>. QED BY <1>1, <1>3 DEF Plain, ToSet

LEMMA PlainOne ==
    ASSUME NEW x, Known(x), x.o = 0 PROVE Plain(<<x>>) /\ IsList(<<x>>)
BY One DEF Plain

LEMMA PlainTwo ==
    ASSUME NEW x, NEW y, Known(x), x.o = 0, Known(y), y.o = 0 PROVE Plain(<<x, y>>) /\ IsList(<<x, y>>)
<1>1. <<x, y>> \in Seq({x, y}) /\ Len(<<x, y>>) = 2 /\ <<x, y>>[1] = x /\ <<x, y>>[2] = y
    OBVIOUS
<1>2. DOMAIN <<x, y>> = 1..2
    BY <1>1, LenProperties
<1>3. \A i \in DOMAIN <<x, y>> : i = 1 \/ i = 2
    BY <1>2
<1>4. \A i \in DOMAIN <<x, y>> : <<x, y>>[i] = x \/ <<x, y>>[i] = y
    BY <1>1, <1>3, Zenon
<1>. QED BY <1>1, <1>4, SeqIsList, Zenon DEF Plain, ToSet

LEMMA PlainEmpty == Plain(<<>>) /\ IsList(<<>>)
<1>1. \A e : e \notin ToSet(<<>>)
    BY EmptyList, ListIsSeq DEF ToSet
<1>. QED BY <1>1, EmptyList DEF Plain

LEMMA PlainJoined ==
    ASSUME NEW s, Plain(s), IsList(s), NEW t, Plain(t), IsList(t)
    PROVE  Plain(s \o t) /\ IsList(s \o t)
<1>1. IsList(s \o t) /\ \A e \in ToSet(s \o t) : e \in ToSet(s) \/ e \in ToSet(t)
    BY Joined
<1>. QED BY <1>1 DEF Plain

LEMMA PlainEntry ==
    ASSUME NEW id, NEW answer, Plain(answer) PROVE \A e \in ToSet(answer) : Entry(id, e)
BY DEF Plain, Entry

\* The lists of names whose pages may have a Next though they are not cut out of one list.
LEMMA WithNext ==
    ASSUME NEW id, Known(id), ~Paged(id), ~(id.n = "tag" /\ id.v = "fs"),
           NEW n \in Things, NEW values, IsList(values), NEW next,
           next \in {<<>>, <<At(id, id.o + PageSize)>>}
    PROVE  \A e \in ToSet(Each(n, values) \o next) : Entry(id, e)
<1> DEFINE x == At(id, id.o + PageSize)
<1>1. id.o + PageSize \in Nat /\ id.o + PageSize > id.o
    <2>1. PageSize \in Nat \ {0}
        BY LibraryAssumption
    <2>2. id.o \in Nat
        BY DEF Known
    <2>. QED BY <2>1, <2>2
<1>2. Known(x) /\ IsNext(id, x)
    BY <1>1, NextItem
<1> HIDE DEF x
<1>3. IsList(Each(n, values)) /\ Plain(Each(n, values))
    BY PlainEach
<1>4. IsList(<<x>>) /\ \A e \in ToSet(<<x>>) : e = x
    BY One
<1>5. IsList(<<>>) /\ \A e \in ToSet(<<>>) : e = x
    BY EmptyList, ListIsSeq DEF ToSet
<1>6. next \in {<<>>, <<x>>}
    BY DEF x
<1>7. \A e \in ToSet(Each(n, values) \o next) : e \in ToSet(Each(n, values)) \/ e = x
    <2>1. IsList(next) /\ \A e \in ToSet(next) : e = x
        BY <1>4, <1>5, <1>6
    <2>. QED BY <1>3, <2>1, Joined
<1>8. Entry(id, x)
    BY <1>2 DEF Entry
<1>. QED BY <1>3, <1>7, <1>8, PlainEntry

LEMMA RandomSongs ==
    ASSUME NEW asEntry, NEW answer \in _get_random_songs(asEntry) PROVE Plain(answer)
<1> DEFINE x == InMode(ItemIdentifier("nxt_rndm_sngs", "some_random_song"), asEntry)
<1>1. PICK pick \in RandomPicks.songs : answer = SongEntries(pick, asEntry) \o <<x>>
    BY DEF _get_random_songs
<1>2. "nxt_rndm_sngs" \in Things /\ {"sngntr_n", "sngntr_s"} \subseteq Things
    BY DEF Things, ElementNames
<1>3. Plain(<<x>>) /\ IsList(<<x>>)
    <2>1. Known(x) /\ x.o = 0
        BY <1>2, Items DEF Things
    <2> HIDE DEF x
    <2>. QED BY <2>1, PlainOne
<1> HIDE DEF x
<1>4. IsList(pick)
    BY LibraryAssumption, SeqIsList
<1>5. Plain(SongEntries(pick, asEntry)) /\ IsList(SongEntries(pick, asEntry))
    <2>1. PICK n \in Things : SongEntries(pick, asEntry) = Each(n, pick)
        BY <1>2 DEF SongEntries
    <2>. QED BY <1>4, <2>1, PlainEach
<1>. QED BY <1>1, <1>3, <1>5, PlainJoined

LEMMA TagAnswers ==
    ASSUME NEW id, Known(id), ~Paged(id), id.n = "tag", NEW answer \in TagHandler(id)
    PROVE  \A e \in ToSet(answer) : Entry(id, e)
<1>1. id.v \in TagNames /\ id.v \notin {"n", "rp", "hr", "mp", "fav", "fs", "fsl", "fav_rtsts"}
    BY LibraryAssumption DEF Known, Paged
<1>2. {"gnr", "rtst", "rtst_ntl", "pl", "i_rd", "lbm", "sprs_lbm"} \subseteq Things
    BY DEF Things, ElementNames
<1>3. CASE id.v \in {"glbms", "grtsts", "gsngs"}
    <2>1. PICK tags \in Seq(TagNames) : answer = Tags(tags)
        <3>1. /\ <<"n", "rp", "hr", "mp", "r", "fav">> \in Seq(TagNames)
              /\ <<"a_all", "a_ndx", "fav_rtsts">> \in Seq(TagNames)
              /\ <<"rs", "rsl", "fs", "fsl">> \in Seq(TagNames)
            BY DEF TagNames
        <3>2. answer \in {_handler_tag_group_albums, _handler_tag_group_artists, _handler_tag_group_songs}
            BY <1>3 DEF TagHandler
        <3>. QED BY <3>1, <3>2 DEF _handler_tag_group_albums, _handler_tag_group_artists, _handler_tag_group_songs
    <2>. QED BY <2>1, PlainTags, PlainEntry
<1>4. CASE id.v = "r"
    <2>1. answer \in _handler_tag_random(id)
        BY <1>4 DEF TagHandler
    <2>2. PICK pick \in RandomPicks.albums :
            answer = _load_albums_by_type(pick) \o IF Len(pick) = PageSize THEN <<At(id, id.o + PageSize)>> ELSE <<>>
        BY <2>1 DEF _handler_tag_random
    <2>3. IsList(pick)
        BY LibraryAssumption, SeqIsList
    <2>4. PICK n \in Things : _load_albums_by_type(pick) = Each(n, pick)
        BY <1>2 DEF _load_albums_by_type
    <2>5. PICK next \in {<<>>, <<At(id, id.o + PageSize)>>} : answer = Each(n, pick) \o next
        BY <2>2, <2>4, Zenon
    <2>. QED BY <1>4, <2>3, <2>5, WithNext
<1>5. CASE id.v \in {"rs", "rsl"}
    <2>1. \E m : answer \in _get_random_songs(m)
        BY <1>5 DEF TagHandler
    <2>. QED BY <2>1, RandomSongs, PlainEntry
<1>6. CASE id.v \in {"g", "a_all", "a_ndx", "pl", "ir"}
    <2>1. answer \in {_create_list_of_genres, _get_list_of_artists, _create_list_of_artist_initials,
                      _create_list_of_playlist, _create_list_of_internet_radio}
        BY <1>6 DEF TagHandler
    <2>2. Plain(_create_list_of_artist_initials)
        <3>1. \A v : Known(ItemIdentifier("rtst_ntl", v)) /\ ItemIdentifier("rtst_ntl", v).o = 0
            BY <1>2, Items DEF Things
        <3>. QED BY <3>1 DEF _create_list_of_artist_initials, Plain, ToSet
    <2>3. /\ Plain(_create_list_of_genres) /\ Plain(_get_list_of_artists)
          /\ Plain(_create_list_of_playlist) /\ Plain(_create_list_of_internet_radio)
        BY <1>2, PlainEach DEF _create_list_of_genres, _get_list_of_artists, ArtistEntries,
                                _create_list_of_playlist, _create_list_of_internet_radio
    <2>. QED BY <2>1, <2>2, <2>3, PlainEntry
<1>. QED BY <1>1, <1>3, <1>4, <1>5, <1>6 DEF TagNames

\* The entries about an artist, which are there when there is something behind them.
LEMMA ArtistExtras ==
    ASSUME NEW x
    PROVE  /\ Plain(_artist_to_top_songs_entry(x)) /\ IsList(_artist_to_top_songs_entry(x))
           /\ Plain(_similar_artists_for_artist(x)) /\ IsList(_similar_artists_for_artist(x))
           /\ Plain(_radio_entry(x)) /\ IsList(_radio_entry(x))
<1>1. \A n \in {"rtsttp", "rtsttp_sl", "rtst_smlr", "rd", "rd_sl"} : \A v :
         Known(ItemIdentifier(n, v)) /\ ItemIdentifier(n, v).o = 0
    <2>1. {"rtsttp", "rtsttp_sl", "rtst_smlr", "rd", "rd_sl"} \subseteq ElementNames \ {"tag"}
        BY DEF ElementNames
    <2>. QED BY <2>1, Items
<1>2. /\ Plain(<<ItemIdentifier("rtsttp", x), ItemIdentifier("rtsttp_sl", x)>>)
      /\ IsList(<<ItemIdentifier("rtsttp", x), ItemIdentifier("rtsttp_sl", x)>>)
    BY <1>1, PlainTwo
<1>3. Plain(<<ItemIdentifier("rtst_smlr", x)>>) /\ IsList(<<ItemIdentifier("rtst_smlr", x)>>)
    BY <1>1, PlainOne
<1>4. /\ Plain(<<ItemIdentifier("rd", x), ItemIdentifier("rd_sl", x)>>)
      /\ IsList(<<ItemIdentifier("rd", x), ItemIdentifier("rd_sl", x)>>)
    BY <1>1, PlainTwo
<1>. QED BY <1>2, <1>3, <1>4, PlainEmpty
     DEF IfAny, _artist_to_top_songs_entry, _similar_artists_for_artist, _radio_entry

LEMMA ElementAnswers ==
    ASSUME NEW id, Known(id), ~Paged(id), id.n # "tag", ~IsItem(id), NEW answer \in ElementHandler(id)
    PROVE  \A e \in ToSet(answer) : Entry(id, e)
<1>1. {"lbm", "gnr", "gnr_rtsts", "gnr_lbus", "rtst", "gnr_rtst", "trk", "sngntr_n", "sngntr_s", "sprs_lbm",
       "rtst_lbms", "gnr_rtst_lbms"} \subseteq Things
    BY DEF Things, ElementNames
<1>2. \A n \in Things : \A v : Known(ItemIdentifier(n, v)) /\ ItemIdentifier(n, v).o = 0
    BY Items DEF Things
<1>3. \A n \in Things : \A v, g : Known(InGenre(ItemIdentifier(n, v), g)) /\ InGenre(ItemIdentifier(n, v), g).o = 0
    <2>1. ASSUME NEW n \in Things, NEW v, NEW g
          PROVE  Known(InGenre(ItemIdentifier(n, v), g)) /\ InGenre(ItemIdentifier(n, v), g).o = 0
        BY Items DEF Things
    <2>. QED BY <2>1
<1>4. \A v : Plain(ArtistEntries(v)) /\ Plain(AlbumEntries(v)) /\ Plain(Tracks(v))
    BY <1>1, PlainEach DEF ArtistEntries, AlbumEntries, Tracks
<1>5. \A v : IsList(ArtistEntries(<<v>>)) /\ IsList(AlbumEntries(<<v>>))
    BY <1>1, One, PlainEach DEF ArtistEntries, AlbumEntries
<1>6. \A v, m : Plain(SongEntries(v, m))
    <2>1. ASSUME NEW v, NEW m PROVE Plain(SongEntries(v, m))
        BY <1>1, PlainEach DEF SongEntries
    <2>. QED BY <2>1
<1>7. CASE id.n = "rtst_lbms"
    <2> DEFINE albums == ArtistAlbums(id.v)
               more == Len(albums) > PageSize + id.o
               n == IF more \/ Len(albums) = PageSize THEN PageSize ELSE Len(albums) % PageSize
               last == IF id.o + n > Len(albums) THEN Len(albums) ELSE id.o + n
               next == IF more THEN <<At(id, id.o + PageSize)>> ELSE <<>>
    <2>1. IsList(albums) /\ Len(albums) \in Nat
        <3>1. IsList(albums)
            BY LibraryAssumption, SeqIsList, AtPlacesIsList DEF ArtistAlbums
        <3>. QED BY <3>1 DEF IsList
    <2>2. id.o \in Nat /\ PageSize \in Nat \ {0}
        BY LibraryAssumption DEF Known
    <2>3. answer = AlbumEntries(SubSeq(albums, id.o + 1, last)) \o next
        BY <1>7 DEF ElementHandler, _handler_element_artist_albums
    <2> HIDE DEF albums
    <2>4. Len(albums) % PageSize \in Nat
        BY <2>1, <2>2
    <2>5. last \in Int /\ id.o + 1 \in Int
        BY <2>1, <2>2, <2>4
    <2>6. next \in {<<>>, <<At(id, id.o + PageSize)>>}
        OBVIOUS
    <2> HIDE DEF more, n, last, next
    <2>7. IsList(SubSeq(albums, id.o + 1, last))
        BY <2>5, Cut
    <2>. QED BY <1>1, <1>7, <2>3, <2>6, <2>7, WithNext DEF AlbumEntries
<1>8. CASE id.n \in {"rtst", "sprs_lbm"}
    <2>1. CASE id.n = "rtst"
        <3>1. answer = <<ItemIdentifier("rtst_lbms", id.v)>> \o _artist_to_top_songs_entry(id.v)
                         \o _similar_artists_for_artist(id.v) \o _radio_entry(id.v)
            BY <2>1 DEF ElementHandler, _handler_element_artist
        <3>2. Plain(<<ItemIdentifier("rtst_lbms", id.v)>>) /\ IsList(<<ItemIdentifier("rtst_lbms", id.v)>>)
            BY <1>1, <1>2, PlainOne
        <3>3. Plain(answer)
            BY <3>1, <3>2, ArtistExtras, PlainJoined
        <3>. QED BY <3>3, PlainEntry
    <2>2. CASE id.n = "sprs_lbm"
        <3>1. PICK x : answer = AlbumEntries(<<id.v>>) \o _artist_entry_for_album(id.v) \o _artist_to_top_songs_entry(x)
                                  \o _similar_artists_for_artist(x) \o _radio_entry(id.v)
            BY <2>2 DEF ElementHandler, _handler_element_navigable_album
        <3>2. Plain(_artist_entry_for_album(id.v)) /\ IsList(_artist_entry_for_album(id.v))
            BY <1>4, <1>5 DEF _artist_entry_for_album
        <3>3. Plain(AlbumEntries(<<id.v>>) \o _artist_entry_for_album(id.v) \o _artist_to_top_songs_entry(x))
              /\ IsList(AlbumEntries(<<id.v>>) \o _artist_entry_for_album(id.v) \o _artist_to_top_songs_entry(x))
            BY <1>4, <1>5, <3>2, ArtistExtras, PlainJoined
        <3>4. Plain(answer)
            BY <3>1, <3>3, ArtistExtras, PlainJoined
        <3>. QED BY <3>4, PlainEntry
    <2>. QED BY <1>8, <2>1, <2>2
<1>9. CASE id.n \in {"gnr", "gnr_rtst", "gnr_rtsts", "sngntr_n"}
    <2>1. CASE id.n = "gnr"
        <3>1. answer = _handler_element_genre(id)
            BY <2>1 DEF ElementHandler
        <3>2. Plain(answer)
            BY <1>1, <1>3, <3>1, PlainTwo DEF _handler_element_genre
        <3>. QED BY <3>2, PlainEntry
    <2>2. CASE id.n = "gnr_rtst"
        <3>1. answer = ArtistEntries(<<id.v>>) \o <<InGenre(ItemIdentifier("gnr_rtst_lbms", id.v), id.g)>>
            BY <2>2 DEF ElementHandler, _handler_element_genre_artist
        <3>2. LET t == <<InGenre(ItemIdentifier("gnr_rtst_lbms", id.v), id.g)>> IN Plain(t) /\ IsList(t)
            BY <1>1, <1>3, PlainOne
        <3>3. Plain(answer)
            BY <1>4, <1>5, <3>1, <3>2, PlainJoined
        <3>. QED BY <3>3, PlainEntry
    <2>3. CASE id.n = "gnr_rtsts"
        <3>1. PICK artists : answer = [i \in DOMAIN artists |-> InGenre(ItemIdentifier("gnr_rtst", artists[i]), id.g)]
            BY <2>3 DEF ElementHandler, _handler_element_genre_artists
        <3>2. Plain(answer)
            BY <1>1, <1>3, <3>1 DEF Plain, ToSet
        <3>. QED BY <3>2, PlainEntry
    <2>4. CASE id.n = "sngntr_n"
        <3>1. PICK a, x : answer = <<ItemIdentifier("sngntr_s", id.v)>> \o AlbumEntries(<<a>>) \o ArtistEntries(<<x>>)
            BY <2>4 DEF ElementHandler, _handler_element_song_entry
        <3>2. Plain(<<ItemIdentifier("sngntr_s", id.v)>>) /\ IsList(<<ItemIdentifier("sngntr_s", id.v)>>)
            BY <1>1, <1>2, PlainOne
        <3>3. Plain(answer)
            BY <1>4, <1>5, <3>1, <3>2, PlainJoined
        <3>. QED BY <3>3, PlainEntry
    <2>. QED BY <1>9, <2>1, <2>2, <2>3, <2>4
<1>10. CASE id.n = "lbm"
    <2>1. answer = _handler_element_album(id)
        BY <1>10 DEF ElementHandler
    <2>2. Plain(_load_album_tracks(id.v, id.ap))
        BY <1>4 DEF _load_album_tracks
    <2>3. \A path : Known(VersionEntry(id.v, path)) /\ VersionEntry(id.v, path).o = 0
        BY <1>1, Items DEF VersionEntry, Things
    <2>4. \A paths : Plain([i \in DOMAIN paths |-> VersionEntry(id.v, paths[i])])
        BY <2>3 DEF Plain, ToSet
    <2>5. Plain(answer)
        BY <2>1, <2>2, <2>4 DEF _handler_element_album
    <2>. QED BY <2>5, PlainEntry
<1>11. CASE id.n = "nxt_rndm_sngs"
    <2>1. \E m : answer \in _get_random_songs(m)
        BY <1>11 DEF ElementHandler
    <2>. QED BY <2>1, RandomSongs, PlainEntry
<1>12. CASE id.n \in {"rtst_ntl", "pl", "sngntr_s", "rtsttp", "rtsttp_sl", "rtst_smlr", "rd", "rd_sl"}
    <2>1. \E v, m : answer \in {ArtistEntries(v), Tracks(v), SongEntries(v, m)}
        BY <1>12 DEF ElementHandler, _handler_element_artist_initial, _create_list_of_playlist_entries,
              _handler_element_song_entry_song, _handler_element_artist_top_songs_common,
              _handler_element_similar_artists, _handler_radio, _handler_radio_song_list
    <2>2. Plain(answer)
        BY <1>4, <1>6, <2>1
    <2>. QED BY <2>2, PlainEntry
<1>. QED BY <1>7, <1>8, <1>9, <1>10, <1>11, <1>12 DEF Known, Paged, IsItem, ElementNames

LEMMA AnswersOf ==
    ASSUME NEW id, NEW answer \in Answers(id),
           \/ Known(id) /\ ~IsItem(id) /\ ~Paged(id)
           \/ id = Root
           \/ id.v \in DOMAIN Found /\ id = Search(id.v)
    PROVE  \A e \in ToSet(answer) : Entry(id, e)
<1>1. CASE Known(id) /\ ~IsItem(id) /\ ~Paged(id)
    <2>1. id.n \notin {"root", "search"} /\ id # Root
        <3>1. id.n \notin {"root", "search"}
            BY <1>1 DEF Known, ElementNames
        <3>2. Root.n = "root"
            BY DEF Root, ItemIdentifier
        <3>. QED BY <3>1, <3>2
    <2>2. CASE id.n = "tag"
        <3>1. answer \in TagHandler(id)
            BY <2>1, <2>2 DEF Answers
        <3>. QED BY <1>1, <2>2, <3>1, TagAnswers
    <2>3. CASE id.n # "tag"
        <3>1. answer \in ElementHandler(id)
            BY <2>1, <2>3 DEF Answers
        <3>. QED BY <1>1, <2>3, <3>1, ElementAnswers
    <2>. QED BY <2>2, <2>3
<1>2. CASE id = Root
    <2>1. answer = _show_tags
        <3>1. Root.n = "root"
            BY DEF Root, ItemIdentifier
        <3>. QED BY <1>2, <3>1 DEF Answers
    <2>2. answer = Tags(RootTags) \/ answer = <<>>
        BY <2>1 DEF _show_tags
    <2>3. Plain(answer)
        BY <2>2, LibraryAssumption, PlainTags, PlainEmpty
    <2>. QED BY <2>3, PlainEntry
<1>3. CASE id.v \in DOMAIN Found /\ id = Search(id.v)
    <2>1. id.n = "search" /\ id # Root
        <3>1. Search(id.v).n = "search" /\ Root.n = "root"
            BY DEF Search, Root, ItemIdentifier
        <3>. QED BY <1>3, <3>1
    <2>2. answer = SearchAnswer(id.v)
        BY <2>1 DEF Answers
    <2>3. id.v \in {"album", "track", "artist"}
        BY <1>3, LibraryAssumption
    <2>4. \E n \in {"sprs_lbm", "sngntr_n", "rtst"} : \E values : answer = Each(n, values)
        BY <2>2, <2>3 DEF SearchAnswer, SongEntries, ArtistEntries
    <2>5. {"sprs_lbm", "sngntr_n", "rtst"} \subseteq Things
        BY DEF Things, ElementNames
    <2>6. Plain(answer)
        BY <2>4, <2>5, PlainEach
    <2>. QED BY <2>6, PlainEntry
<1>. QED BY <1>1, <1>2, <1>3

-----------------------------------------------------------------------------
(* The steps *)

\* Where a client may go from a page: to the beginning of a list, or on in the one at hand.
LEMMA GoesOn ==
    ASSUME NEW here, here.o \in Nat, NEW e, Entry(here, e), IsNext(here, e), Paged(e), Known(here) \/ ~Paged(here)
    PROVE  /\ Known(here) /\ Paged(here) /\ ListOf(e) = ListOf(here)
           /\ e.o = here.o + PageSize /\ e.o <= Len(ListOf(here))
<1>1. e.o # 0
    BY DEF IsNext
<1>2. Paged(here) /\ ListOf(e) = ListOf(here)
    <2>1. CASE here.n = e.n /\ here.v = e.v /\ here.g = e.g
        BY <2>1 DEF Paged, ListOf
    <2>2. CASE here = Tag("fs") /\ e.n = "tag" /\ e.v = "fsl"
        <3>1. here.n = "tag" /\ here.v = "fs"
            <4>1. Tag("fs").n = "tag" /\ Tag("fs").v = "fs"
                BY DEF Tag, ItemIdentifier
            <4>. QED BY <2>2, <4>1
        <3>. QED BY <2>2, <3>1, LibraryAssumption DEF Paged, ListOf
    <2>. QED BY <2>1, <2>2 DEF IsNext
<1>. QED BY <1>1, <1>2 DEF Entry

LEMMA PlaceOffset ==
    ASSUME Place
    PROVE  at.o \in Nat /\ (Known(at) \/ ~Paged(at))
<1>1. Root.o = 0 /\ Root.n = "root" /\ Nowhere.o = 0 /\ Nowhere.n = "none"
    BY DEF Root, Nowhere, ItemIdentifier
<1>2. \A f : Search(f).o = 0 /\ Search(f).n = "search"
    <2>1. ASSUME NEW f PROVE Search(f).o = 0 /\ Search(f).n = "search"
        BY DEF Search, ItemIdentifier
    <2>. QED BY <2>1
<1>3. \/ Known(at)
      \/ at.o = 0 /\ at.n \in {"root", "none", "search"}
    BY <1>1, <1>2 DEF Place
<1>4. at.n \in {"root", "none", "search"} => ~Paged(at)
    BY DEF Paged
<1>. QED BY <1>3, <1>4 DEF Known

LEMMA Loops ==
    /\ LET l == NoLoop IN l.for = "none" /\ l = [for |-> l.for, offset |-> l.offset, last |-> l.last]
    /\ \A what : LET l == Loop(what) IN l.for = what /\ l = [for |-> l.for, offset |-> l.offset, last |-> l.last]
<1>1. ASSUME NEW what
      PROVE  LET l == Loop(what) IN l.for = what /\ l = [for |-> l.for, offset |-> l.offset, last |-> l.last]
    <2>1. Loop(what) = [for |-> what, offset |-> 0, last |-> -1]
        <3>1. PICK l : l = NoLoop
            OBVIOUS
        <3>2. l = [for |-> "none", offset |-> 0, last |-> -1]
            BY <3>1 DEF NoLoop
        <3>3. [l EXCEPT !.for = what] = [for |-> what, offset |-> 0, last |-> -1]
            BY <3>2
        <3>. QED BY <3>1, <3>3 DEF Loop
    <2>. QED BY <2>1
<1>2. LET l == NoLoop IN l.for = "none" /\ l = [for |-> l.for, offset |-> l.offset, last |-> l.last]
    BY DEF NoLoop
<1>. QED BY <1>1, <1>2

LEMMA NotPaged == /\ ~Paged(Root) /\ ~Paged(Nowhere) /\ \A f : ~Paged(Search(f))
                  /\ \A f : Nowhere \notin {Root, Search(f)}
                  /\ ~Known(Nowhere)
<1>1. Root.n = "root" /\ Nowhere.n = "none"
    BY DEF Root, Nowhere, ItemIdentifier
<1>2. ASSUME NEW f PROVE Search(f).n = "search"
    BY DEF Search, ItemIdentifier
<1>3. \A f : Search(f).n = "search"
    BY <1>2
<1>. QED BY <1>1, <1>3 DEF Paged, Known, ElementNames

LEMMA BrowseStep ==
    ASSUME PageInv, browse PROVE PageInv'
<1>1. PICK id \in {e \in ToSet(page) : ~IsItem(e)} \cup {Root} \cup {Search(f) : f \in DOMAIN Found} :
         /\ at' = id
         /\ seen' = IF IsNext(at, id) THEN seen ELSE <<>>
         /\ loop' = IF NeedsListing(id) THEN Loop("listing") ELSE AfterListing(id)
    BY DEF browse
<1>2. loop.for = "none" /\ page' = <<>>
    BY DEF browse
<1>3. \/ id \in ToSet(page) /\ ~IsItem(id) /\ Entry(at, id) /\ Known(id)
      \/ id = Root
      \/ \E f \in DOMAIN Found : id = Search(f)
    BY <1>1 DEF PageInv, Entry
<1>4. \A f : Search(f).v = f
    <2>1. ASSUME NEW f PROVE Search(f).v = f
        BY DEF Search, ItemIdentifier
    <2>. QED BY <2>1
<1>5. (Known(id) /\ ~IsItem(id)) \/ id = Root \/ (id.v \in DOMAIN Found /\ id = Search(id.v))
    BY <1>3, <1>4
<1>6. Place'
    BY <1>1, <1>5 DEF Place, Known, IsItemRecord, IsItem
<1>7. loop'.for \in {"listing", "caching", "answer"}
      /\ loop' = [for |-> loop'.for, offset |-> loop'.offset, last |-> loop'.last]
    <2>1. \E what \in {"listing", "caching", "answer"} : loop' = Loop(what)
        BY <1>1 DEF AfterListing
    <2>. QED BY <2>1, Loops
<1>8. LoopInv'
    <2>1. id # Nowhere
        BY <1>5, NotPaged
    <2>. QED BY <1>1, <1>2, <1>7, <2>1 DEF LoopInv
<1>9. Paged(id) => SeenTo(seen', ListOf(id), id.o) /\ id.o \in 0..Len(ListOf(id))
    <2> SUFFICES ASSUME Paged(id) PROVE SeenTo(seen', ListOf(id), id.o) /\ id.o \in 0..Len(ListOf(id))
        OBVIOUS
    <2>1. Entry(at, id) /\ Known(id)
        BY <1>3, NotPaged
    <2>2. at.o \in Nat /\ (Known(at) \/ ~Paged(at))
        BY PlaceOffset DEF PageInv
    <2>3. IsList(ListOf(id)) /\ Len(ListOf(id)) \in Nat
        BY ListsAreLists DEF IsList
    <2>4. CASE IsNext(at, id)
        <3>1. /\ Known(at) /\ Paged(at) /\ ListOf(id) = ListOf(at)
              /\ id.o = at.o + PageSize /\ id.o <= Len(ListOf(at))
            BY <2>1, <2>2, <2>4, GoesOn
        <3>2. SeenTo(seen, ListOf(at), PageEnd(ListOf(at), at.o))
            BY <1>2, <3>1 DEF PageInv, ShownInv
        <3>3. PageEnd(ListOf(at), at.o) = id.o
            BY <2>1, <2>2, <2>3, <3>1, LibraryAssumption DEF PageEnd, Known
        <3>4. id.o \in Nat
            BY <2>1 DEF Known
        <3>5. seen' = seen
            BY <1>1, <2>4
        <3>. QED BY <2>3, <3>1, <3>2, <3>3, <3>4, <3>5
    <2>5. CASE ~IsNext(at, id)
        <3>1. id.o = 0 /\ seen' = <<>>
            BY <1>1, <2>1, <2>5 DEF Entry
        <3>. QED BY <2>3, <3>1, EmptyList DEF SeenTo
    <2>. QED BY <2>4, <2>5
<1>10. ShownInv'
    <2>1. loop'.for # "none"
        BY <1>7
    <2>2. ASSUME NEW i, NEW q, NEW l, i = id, l.for # "none", q = seen' PROVE
            Paged(i) =>
               /\ SeenTo(q, ListOf(i), IF l.for = "none" THEN PageEnd(ListOf(i), i.o) ELSE i.o)
               /\ i.o \in 0..Len(ListOf(i))
        BY <1>9, <2>2
    <2>. QED BY <1>1, <2>1, <2>2 DEF ShownInv
<1>11. (\A e \in ToSet(page) : Entry(at, e))'
    BY <1>2, PlainEmpty DEF Plain, Entry, ToSet
<1>. QED BY <1>6, <1>8, <1>10, <1>11 DEF PageInv

\* While the loops of a request run, nothing is shown.
LEMMA Waiting ==
    ASSUME PageInv, at' = at, seen' = seen, page' = page, loop.for # "none",
           loop' = [for |-> loop'.for, offset |-> loop'.offset, last |-> loop'.last],
           loop'.for \in {"none", "listing", "caching", "answer"},
           loop'.for = "none" => at = Nowhere, at = Nowhere => loop'.for \in {"none", "caching"}
    PROVE  PageInv'
<1>1. page = <<>> /\ page' = <<>>
    BY DEF PageInv, LoopInv
<1>2. Place'
    BY DEF PageInv, Place, Known, IsItemRecord, IsItem
<1>3. LoopInv'
    BY <1>1 DEF LoopInv
<1>4. ShownInv'
    <2>1. Paged(at) => /\ SeenTo(seen, ListOf(at), at.o) /\ at.o \in 0..Len(ListOf(at))
                       /\ loop'.for # "none"
        BY NotPaged DEF PageInv, ShownInv
    <2>2. ASSUME NEW i, NEW q, NEW l, i = at, l = loop', q = seen PROVE
            Paged(i) =>
               /\ SeenTo(q, ListOf(i), IF l.for = "none" THEN PageEnd(ListOf(i), i.o) ELSE i.o)
               /\ i.o \in 0..Len(ListOf(i)) /\ l.for # "none"
        BY <2>1, <2>2
    <2>. QED BY <2>2 DEF ShownInv
<1>5. (\A e \in ToSet(page) : Entry(at, e))'
    BY <1>1, PlainEmpty DEF Plain, Entry, ToSet
<1>. QED BY <1>2, <1>3, <1>4, <1>5 DEF PageInv

LEMMA ReadAlbumsStep ==
    ASSUME PageInv, ReadAlbums PROVE PageInv'
<1>1. PICK k, n : loop' = [loop EXCEPT !.offset = k, !.last = n]
    BY DEF ReadAlbums
<1>2. loop.for \in {"listing", "caching"} /\ at' = at /\ seen' = seen /\ page' = page
    BY DEF ReadAlbums
<1>3. loop'.for = loop.for /\ loop' = [for |-> loop'.for, offset |-> loop'.offset, last |-> loop'.last]
    <2>1. ASSUME NEW l, l = [for |-> l.for, offset |-> l.offset, last |-> l.last]
          PROVE  LET m == [l EXCEPT !.offset = k, !.last = n]
                 IN  m.for = l.for /\ m = [for |-> m.for, offset |-> m.offset, last |-> m.last]
        <3>1. PICK m : m = [l EXCEPT !.offset = k, !.last = n]
            OBVIOUS
        <3>2. m = [for |-> l.for, offset |-> k, last |-> n]
            <4>1. PICK h : h = [l EXCEPT !.offset = k]
                OBVIOUS
            <4>2. h = [for |-> l.for, offset |-> k, last |-> l.last]
                BY <2>1, <4>1
            <4>3. [h EXCEPT !.last = n] = [for |-> l.for, offset |-> k, last |-> n]
                BY <4>2
            <4>. QED BY <3>1, <4>1, <4>3, Zenon
        <3>3. m.for = l.for /\ m = [for |-> m.for, offset |-> m.offset, last |-> m.last]
            BY <3>2
        <3>. QED BY <3>1, <3>3, Zenon
    <2>. QED BY <1>1, <2>1 DEF PageInv, LoopInv
<1>4. at = Nowhere => loop.for = "caching"
    BY <1>2 DEF PageInv, LoopInv
<1>. QED BY <1>2, <1>3, <1>4, Waiting

LEMMA ReadDoneStep ==
    ASSUME PageInv, ReadDone PROVE PageInv'
<1>1. loop.for \in {"listing", "caching"} /\ at' = at /\ seen' = seen /\ page' = page
    BY DEF ReadDone
<1>2. \/ loop.for = "listing" /\ \E what \in {"caching", "answer"} : loop' = Loop(what)
      \/ at = Nowhere /\ loop' = NoLoop
      \/ at # Nowhere /\ loop' = Loop("answer")
    BY <1>1 DEF ReadDone, AfterListing
<1>3. loop.for = "listing" => at # Nowhere
    BY DEF PageInv, LoopInv
<1>4. /\ loop' = [for |-> loop'.for, offset |-> loop'.offset, last |-> loop'.last]
      /\ loop'.for \in {"none", "caching", "answer"}
      /\ loop'.for = "none" <=> at = Nowhere
    BY <1>2, <1>3, Loops
<1>. QED BY <1>1, <1>4, Waiting

LEMMA ReadFailsStep ==
    ASSUME PageInv, ReadFails PROVE PageInv'
<1>1. at' = Nowhere /\ loop' = NoLoop /\ page' = <<>>
    BY DEF ReadFails, PageInv, LoopInv
<1>2. Place'
    BY <1>1 DEF Place
<1>3. LoopInv'
    BY <1>1, Loops DEF LoopInv
<1>4. ShownInv'
    <2>1. ~Paged(Nowhere)
        BY NotPaged
    <2>2. ASSUME NEW i, i = Nowhere PROVE ~Paged(i)
        BY <2>1, <2>2
    <2>3. ~Paged(at)'
        BY <1>1, <2>2
    <2>. QED BY <2>3 DEF ShownInv
<1>5. (\A e \in ToSet(page) : Entry(at, e))'
    BY <1>1, PlainEmpty DEF Plain, Entry, ToSet
<1>. QED BY <1>2, <1>3, <1>4, <1>5 DEF PageInv

LEMMA AnswerStep ==
    ASSUME PageInv, Answer PROVE PageInv'
<1>1. PICK answer \in Answers(at) : page' = answer /\ seen' = seen \o Elements(at, answer)
    BY DEF Answer
<1>2. loop.for = "answer" /\ loop' = NoLoop /\ at' = at
    BY DEF Answer
<1>3. at # Nowhere /\ Place
    BY <1>2 DEF PageInv, LoopInv
<1>4. Place'
    BY <1>2, <1>3 DEF Place, Known, IsItemRecord, IsItem
<1>5. loop'.for = "none" /\ LoopInv'
    BY <1>2, <1>3, Loops DEF LoopInv
<1>6. ASSUME Paged(at)
      PROVE  /\ SeenTo(seen', ListOf(at), PageEnd(ListOf(at), at.o)) /\ at.o \in 0..Len(ListOf(at))
             /\ \A e \in ToSet(answer) : Entry(at, e)
             /\ ~(\E e \in ToSet(answer) : IsNext(at, e)) => PageEnd(ListOf(at), at.o) = Len(ListOf(at))
    <2>1. Known(at)
        BY <1>3, <1>6, PlaceOffset
    <2>2. SeenTo(seen, ListOf(at), at.o) /\ at.o \in 0..Len(ListOf(at))
        BY <1>2, <1>6 DEF PageInv, ShownInv
    <2>3. IsPage(at, answer)
        BY <1>1, <1>6, <2>1, <2>2, PagedAnswer
    <2>4. IsList(ListOf(at))
        BY <1>6, ListsAreLists
    <2>. QED BY <1>1, <1>6, <2>1, <2>2, <2>3, <2>4, PageShown
<1>7. \A e \in ToSet(answer) : Entry(at, e)
    <2>1. CASE Paged(at)
        BY <1>6, <2>1
    <2>2. CASE ~Paged(at)
        BY <1>1, <1>3, <2>2, AnswersOf DEF Place
    <2>. QED BY <2>1, <2>2
<1>8. (\A e \in ToSet(page) : Entry(at, e))'
    <2>1. ASSUME NEW i, NEW p, i = at, p = answer PROVE \A e \in ToSet(p) : Entry(i, e)
        BY <1>7, <2>1
    <2>. QED BY <1>1, <1>2, <2>1
<1>9. ShownInv'
    <2>1. ASSUME NEW i, NEW q, NEW p, NEW l, i = at, l.for = "none", q = seen', p = answer PROVE
            Paged(i) =>
               /\ SeenTo(q, ListOf(i), IF l.for = "none" THEN PageEnd(ListOf(i), i.o) ELSE i.o)
               /\ i.o \in 0..Len(ListOf(i))
               /\ l.for = "none" /\ ~(\E e \in ToSet(p) : IsNext(i, e)) => PageEnd(ListOf(i), i.o) = Len(ListOf(i))
        BY <1>6, <2>1
    <2>. QED BY <1>1, <1>2, <1>5, <2>1 DEF ShownInv
<1>. QED BY <1>4, <1>5, <1>8, <1>9 DEF PageInv

LEMMA StepPageInv == PageInv /\ [Next]_vars => PageInv'
<1> SUFFICES ASSUME PageInv, [Next]_vars PROVE PageInv'
    OBVIOUS
<1>1. CASE browse
    BY <1>1, BrowseStep
<1>2. CASE ReadAlbums
    BY <1>2, ReadAlbumsStep
<1>3. CASE ReadDone
    BY <1>3, ReadDoneStep
<1>4. CASE ReadFails
    BY <1>4, ReadFailsStep
<1>5. CASE Answer
    BY <1>5, AnswerStep
<1>6. CASE UNCHANGED vars
    <2>1. at' = at /\ page' = page /\ seen' = seen /\ loop' = loop
        BY <1>6 DEF vars
    <2>2. Place'
        BY <2>1 DEF PageInv, Place, Known, IsItemRecord, IsItem
    <2>3. LoopInv'
        BY <2>1 DEF PageInv, LoopInv
    <2>4. ShownInv'
        <3>1. ASSUME NEW i, NEW q, NEW p, NEW l, i = at, l = loop, q = seen, p = page PROVE
                Paged(i) =>
                   /\ SeenTo(q, ListOf(i), IF l.for = "none" THEN PageEnd(ListOf(i), i.o) ELSE i.o)
                   /\ i.o \in 0..Len(ListOf(i))
                   /\ l.for = "none" /\ ~(\E e \in ToSet(p) : IsNext(i, e)) => PageEnd(ListOf(i), i.o) = Len(ListOf(i))
            BY <3>1 DEF PageInv, ShownInv
        <3>. QED BY <2>1, <3>1 DEF ShownInv
    <2>5. (\A e \in ToSet(page) : Entry(at, e))'
        <3>1. ASSUME NEW i, NEW p, i = at, p = page PROVE \A e \in ToSet(p) : Entry(i, e)
            BY <3>1 DEF PageInv
        <3>. QED BY <2>1, <3>1
    <2>. QED BY <2>2, <2>3, <2>4, <2>5 DEF PageInv
<1>. QED BY <1>1, <1>2, <1>3, <1>4, <1>5, <1>6 DEF Next

LEMMA InitPageInv == Init => PageInv
<1> SUFFICES ASSUME Init PROVE PageInv
    OBVIOUS
<1>1. at = Nowhere /\ page = <<>> /\ loop = Loop("caching")
    BY DEF Init
<1>2. Place
    BY <1>1 DEF Place
<1>3. LoopInv
    BY <1>1, Loops DEF LoopInv
<1>4. ShownInv
    BY <1>1, NotPaged DEF ShownInv
<1>5. \A e \in ToSet(page) : Entry(at, e)
    BY <1>1, PlainEmpty, PlainEntry
<1>. QED BY <1>2, <1>3, <1>4, <1>5 DEF PageInv

-----------------------------------------------------------------------------
(* The art caches *)

\* Art which may be cached for a key.
Belongs(k, art) ==
    LET of(x) == IF k[1] = "rtst_ntl" THEN InitialOf(x) ELSE x
    IN  IF art[1] = "cover" THEN art[2] = k[2] \/ of(art[2]) = k[2]
        ELSE IF k[1] = "gnr" THEN AlbumOf[art[2]].genre = k[2]
        ELSE of(AlbumOf[art[2]].artist) = k[2]
AllBelong(c) == \A k \in DOMAIN c : Belongs(k, c[k])

\* The step of each of the loops which fill the caches.
CacheStep(loops, known, list, c, n) ==
    CASE loops = "entries" -> CacheEntry(c, known, list[n])
      [] loops = "newest" -> CacheIfFirst(c, list[n])
      [] OTHER -> CacheInitial(c, list[n])
Filled(loops, known, list, c, m, g) ==
    g = [n \in 0..m |-> IF n = 0 THEN c ELSE CacheStep(loops, known, list, g[n - 1], n)]

\* Induction, for a set in the place of a formula.
LEMMA Climb ==
    ASSUME NEW n \in Nat, NEW T, 0 \in T, \A i \in 0..n - 1 : i \in T => i + 1 \in T
    PROVE  \A i \in 0..n : i \in T
<1> SUFFICES ASSUME NEW j \in 0..n, j \notin T PROVE FALSE
    OBVIOUS
<1> DEFINE R == OpToRel(<, Nat)
           U == {i \in 0..n : i \notin T}
<1>1. R = {p \in Nat \X Nat : p[1] < p[2]}
    BY Zenon DEF OpToRel
<1>2. IsWellFoundedOn(R, Nat)
    BY NatLessThanWellFounded
<1>3. U \subseteq Nat /\ U # {}
    OBVIOUS
<1> HIDE DEF R
<1>4. PICK i \in U : \A m \in U : ~(<<m, i>> \in R)
    BY <1>2, <1>3, WFMin
<1>5. i # 0 /\ i - 1 \in 0..n - 1 /\ i - 1 \notin U
    <2>1. i # 0 /\ i - 1 \in 0..n - 1
        OBVIOUS
    <2>2. <<i - 1, i>> \in R
        BY <1>1, <2>1
    <2>. QED BY <1>4, <2>1, <2>2
<1>6. i - 1 \in T /\ (i - 1) + 1 = i
    BY <1>5
<1>. QED BY <1>5, <1>6

\* Each loop defines what is in the cache after each of its steps.
LEMMA LoopFills ==
    ASSUME NEW N \in Nat, NEW loops, NEW known, NEW list, NEW c
    PROVE  \E g : Filled(loops, known, list, c, N, g)
<1> DEFINE T == {m \in 0..N : \E g : Filled(loops, known, list, c, m, g)}
           Step(d, n) == CacheStep(loops, known, list, d, n)
<1> HIDE DEF Step
<1>1. 0 \in T
    <2>1. PICK g : g = [i \in 0..0 |-> c]
        OBVIOUS
    <2>2. Filled(loops, known, list, c, 0, g)
        BY <2>1 DEF Filled
    <2>3. 0 \in 0..N
        OBVIOUS
    <2>. QED BY <2>2, <2>3, Zenon
<1>2. ASSUME NEW m \in 0..N - 1, m \in T PROVE m + 1 \in T
    <2>1. PICK g : g = [i \in 0..m |-> IF i = 0 THEN c ELSE Step(g[i - 1], i)]
        BY <1>2 DEF Filled, Step
    <2>2. PICK h : h = [i \in 0..m + 1 |-> IF i <= m THEN g[i] ELSE Step(g[m], m + 1)]
        OBVIOUS
    <2>3. ASSUME NEW i \in 0..m + 1 PROVE h[i] = IF i = 0 THEN c ELSE Step(h[i - 1], i)
        <3>1. CASE i = 0
            <4>1. 0 \in 0..m /\ 0 \in 0..m + 1 /\ 0 <= m
                OBVIOUS
            <4>. QED BY <2>1, <2>2, <3>1, <4>1
        <3>2. CASE i \in 1..m
            <4>1. i \in 0..m /\ i - 1 \in 0..m + 1 /\ i - 1 <= m /\ i <= m /\ i # 0
                BY <3>2
            <4>2. h[i] = g[i] /\ h[i - 1] = g[i - 1] /\ g[i] = Step(g[i - 1], i)
                BY <2>1, <2>2, <4>1
            <4>. QED BY <4>1, <4>2
        <3>3. CASE i = m + 1
            <4>1. m \in 0..m + 1 /\ ~(m + 1 <= m) /\ (m + 1) - 1 = m /\ m + 1 # 0 /\ m <= m
                OBVIOUS
            <4>2. h[m + 1] = Step(g[m], m + 1) /\ h[m] = g[m]
                BY <2>2, <4>1
            <4>. QED BY <3>3, <4>1, <4>2
        <3>. QED BY <3>1, <3>2, <3>3
    <2>4. h = [i \in 0..m + 1 |-> h[i]]
        BY <2>2
    <2>5. Filled(loops, known, list, c, m + 1, h)
        BY <2>3, <2>4 DEF Filled, Step
    <2>6. m + 1 \in 0..N
        OBVIOUS
    <2>. QED BY <2>5, <2>6, Zenon
<1>3. N \in T
    <2> HIDE DEF T
    <2>1. \A i \in 0..N : i \in T
        BY <1>1, <1>2, Climb
    <2>. QED BY <2>1
<1>. QED BY <1>3, Zenon

LEMMA LoopKeeps ==
    ASSUME NEW N \in Nat, NEW loops, NEW known, NEW list, NEW c, AllBelong(c),
           NEW g, Filled(loops, known, list, c, N, g),
           \A n \in 1..N : \A d : AllBelong(d) => AllBelong(CacheStep(loops, known, list, d, n))
    PROVE  AllBelong(g[N])
<1> DEFINE T == {n \in 0..N : AllBelong(g[n])}
<1>1. 0 \in T
    <2>1. g[0] = c
        BY DEF Filled
    <2>. QED BY <2>1
<1>2. ASSUME NEW n \in 0..N - 1, n \in T PROVE n + 1 \in T
    <2>1. n + 1 \in 1..N /\ n + 1 \in 0..N /\ (n + 1) - 1 = n /\ n + 1 # 0
        OBVIOUS
    <2>2. g[n + 1] = CacheStep(loops, known, list, g[n], n + 1)
        BY <2>1 DEF Filled
    <2>. QED BY <1>2, <2>1, <2>2
<1> HIDE DEF T
<1>3. N \in T
    BY <1>1, <1>2, Climb
<1>. QED BY <1>3 DEF T

LEMMA PutBelongs ==
    ASSUME NEW c, AllBelong(c), NEW k, NEW v, Belongs(k, v)
    PROVE  AllBelong(Put(c, k, v)) /\ AllBelong(PutNew(c, k, v))
<1>1. AllBelong(Put(c, k, v))
    BY DEF AllBelong, Put
<1>. QED BY <1>1 DEF PutNew

LEMMA ArtOf ==
    /\ \A a : /\ Belongs(<<"gnr", AlbumOf[a].genre>>, AlbumArt(a))
              /\ Belongs(<<"rtst", AlbumOf[a].artist>>, AlbumArt(a))
              /\ Belongs(<<"rtst_ntl", InitialOf(AlbumOf[a].artist)>>, AlbumArt(a))
    /\ \A type, x : Belongs(<<type, x>>, Cover(x))
BY DEF Belongs, AlbumArt, Cover

LEMMA EntryBelongs ==
    ASSUME NEW c, AllBelong(c), NEW known, \A x \in DOMAIN known : known[x] = InitialOf(x), NEW e
    PROVE  AllBelong(CacheEntry(c, known, e))
<1>1. AllBelong(CacheAlbum(c, known, e.v))
    <2> DEFINE x == AlbumOf[e.v].artist
               b == Put(c, <<"gnr", AlbumOf[e.v].genre>>, AlbumArt(e.v))
               d == Put(b, <<"rtst", x>>, AlbumArt(e.v))
    <2>1. AllBelong(b)
        BY ArtOf, PutBelongs
    <2> HIDE DEF b
    <2>2. AllBelong(d)
        BY <2>1, ArtOf, PutBelongs
    <2> HIDE DEF d
    <2>3. x \in DOMAIN known => AllBelong(Put(d, <<"rtst_ntl", known[x]>>, AlbumArt(e.v)))
        BY <2>2, ArtOf, PutBelongs
    <2>. QED BY <2>2, <2>3, Zenon DEF CacheAlbum, b, d
<1>2. AllBelong(Put(c, <<"gnr", AlbumOf[e.v].genre>>, AlbumArt(e.v)))
    BY ArtOf, PutBelongs
<1>3. \A type : AllBelong(Put(c, <<type, e.v>>, Cover(e.v))) /\ AllBelong(PutNew(c, <<type, e.v>>, Cover(e.v)))
    BY ArtOf, PutBelongs
<1>. QED BY <1>1, <1>2, <1>3 DEF CacheEntry

LEMMA FirstBelongs ==
    ASSUME NEW c, AllBelong(c), NEW a PROVE AllBelong(CacheIfFirst(c, a))
<1> DEFINE b == PutNew(c, <<"gnr", AlbumOf[a].genre>>, AlbumArt(a))
<1>1. AllBelong(b)
    BY ArtOf, PutBelongs
<1> HIDE DEF b
<1>2. AllBelong(PutNew(b, <<"rtst", AlbumOf[a].artist>>, AlbumArt(a)))
    BY <1>1, ArtOf, PutBelongs
<1>. QED BY <1>2 DEF CacheIfFirst, b

\* An artist is under one index: that of the loop is the one which InitialOf gives.
LEMMA IndexOfArtist ==
    ASSUME NEW i \in DOMAIN Initials, NEW x \in ToSet(Initials[i].artists)
    PROVE  InitialOf(x) = Initials[i].name
<1> DEFINE r == CHOOSE r \in ToSet(Initials) : x \in ToSet(r.artists)
<1>1. Initials[i] \in ToSet(Initials)
    BY DEF ToSet
<1>2. r \in ToSet(Initials) /\ x \in ToSet(r.artists)
    BY <1>1
<1> HIDE DEF r
<1>3. PICK j \in DOMAIN Initials : r = Initials[j]
    BY <1>2 DEF ToSet
<1>4. ToSet(Initials[i].artists) \cap ToSet(Initials[j].artists) # {}
    BY <1>2, <1>3
<1>5. Initials[i].name = Initials[j].name
    BY <1>4, ReferencesAssumption
<1>. QED BY <1>3, <1>5 DEF InitialOf, r

LEMMA Least ==
    ASSUME NEW T, T \subseteq Nat, T # {}
    PROVE  \E n \in T : \A m \in T : n <= m
<1> DEFINE R == OpToRel(<, Nat)
<1>1. R = {p \in Nat \X Nat : p[1] < p[2]}
    BY Zenon DEF OpToRel
<1>2. IsWellFoundedOn(R, Nat)
    BY NatLessThanWellFounded
<1> HIDE DEF R
<1>3. PICK n \in T : \A m \in T : ~(<<m, n>> \in R)
    BY <1>2, WFMin
<1>4. ASSUME NEW m \in T PROVE n <= m
    <2>1. <<m, n>> \in Nat \X Nat /\ ~(m < n)
        BY <1>1, <1>3
    <2>. QED BY <2>1
<1>. QED BY <1>4

LEMMA InitialBelongs ==
    ASSUME NEW c, AllBelong(c), NEW i \in DOMAIN Initials PROVE AllBelong(CacheInitial(c, Initials[i]))
<1> DEFINE r == Initials[i]
           known == {j \in DOMAIN r.artists : <<"rtst", r.artists[j]>> \in DOMAIN c}
           first == CHOOSE j \in known : \A k \in known : j <= k
           x == r.artists[first]
<1>1. CASE known = {}
    BY <1>1 DEF CacheInitial
<1>2. CASE known # {}
    <2>1. r.artists \in Seq(DOMAIN TopSongs)
        <3>1. Initials \in Seq([name : STRING, artists : Seq(DOMAIN TopSongs)])
            BY ReferencesAssumption
        <3>2. r \in [name : STRING, artists : Seq(DOMAIN TopSongs)]
            BY <3>1, LenProperties, ElementOfSeq
        <3>. QED BY <3>2
    <2> HIDE DEF r
    <2>2. known \subseteq Nat
        <3>1. DOMAIN r.artists = 1..Len(r.artists)
            BY <2>1, LenProperties
        <3>. QED BY <3>1
    <2> HIDE DEF known
    <2>3. first \in known
        <3>1. \E j \in known : \A k \in known : j <= k
            BY <1>2, <2>2, Least
        <3>. QED BY <3>1
    <2> HIDE DEF first
    <2>4. <<"rtst", x>> \in DOMAIN c /\ x \in ToSet(r.artists)
        BY <2>3 DEF known, ToSet
    <2> HIDE DEF x
    <2>5. InitialOf(x) = r.name
        BY <2>4, IndexOfArtist DEF r
    <2>6. Belongs(<<"rtst", x>>, c[<<"rtst", x>>])
        BY <2>4 DEF AllBelong
    <2>7. Belongs(<<"rtst_ntl", r.name>>, c[<<"rtst", x>>])
        BY <2>5, <2>6 DEF Belongs
    <2>8. AllBelong(Put(c, <<"rtst_ntl", r.name>>, c[<<"rtst", x>>]))
        BY <2>7, PutBelongs
    <2>. QED BY <1>2, <2>8, Zenon DEF CacheInitial, r, known, first, x
<1>. QED BY <1>1, <1>2

LEMMA EntriesBelong ==
    ASSUME NEW c, AllBelong(c), NEW known, \A x \in DOMAIN known : known[x] = InitialOf(x),
           NEW entries, Len(entries) \in Nat
    PROVE  AllBelong(CacheEntries(c, known, entries))
<1> DEFINE g == CHOOSE g : g = [n \in 0..Len(entries) |-> IF n = 0 THEN c ELSE CacheEntry(g[n - 1], known, entries[n])]
<1>1. \E f : f = [n \in 0..Len(entries) |-> IF n = 0 THEN c ELSE CacheEntry(f[n - 1], known, entries[n])]
    <2>1. PICK f : Filled("entries", known, entries, c, Len(entries), f)
        BY LoopFills
    <2>. QED BY <2>1 DEF Filled, CacheStep
<1>2. CacheEntries(c, known, entries) = g[Len(entries)]
    BY Zenon DEF CacheEntries
<1>3. g = [n \in 0..Len(entries) |-> IF n = 0 THEN c ELSE CacheEntry(g[n - 1], known, entries[n])]
    BY <1>1
<1> HIDE DEF g
<1>4. Filled("entries", known, entries, c, Len(entries), g)
    BY <1>3 DEF Filled, CacheStep
<1>5. \A n \in 1..Len(entries) : \A d : AllBelong(d) => AllBelong(CacheStep("entries", known, entries, d, n))
    BY EntryBelongs DEF CacheStep
<1>. QED BY <1>2, <1>4, <1>5, LoopKeeps

LEMMA NewestBelong ==
    ASSUME NEW c, AllBelong(c), NEW albums, Len(albums) \in Nat
    PROVE  AllBelong(CacheNewest(c, albums))
<1> DEFINE g == CHOOSE g : g = [n \in 0..Len(albums) |-> IF n = 0 THEN c ELSE CacheIfFirst(g[n - 1], albums[n])]
<1>1. \E f : f = [n \in 0..Len(albums) |-> IF n = 0 THEN c ELSE CacheIfFirst(f[n - 1], albums[n])]
    <2>1. PICK f : Filled("newest", <<>>, albums, c, Len(albums), f)
        BY LoopFills
    <2>. QED BY <2>1 DEF Filled, CacheStep
<1>2. CacheNewest(c, albums) = g[Len(albums)]
    BY Zenon DEF CacheNewest
<1>3. g = [n \in 0..Len(albums) |-> IF n = 0 THEN c ELSE CacheIfFirst(g[n - 1], albums[n])]
    BY <1>1
<1> HIDE DEF g
<1>4. Filled("newest", <<>>, albums, c, Len(albums), g)
    BY <1>3 DEF Filled, CacheStep
<1>5. \A n \in 1..Len(albums) : \A d : AllBelong(d) => AllBelong(CacheStep("newest", <<>>, albums, d, n))
    BY FirstBelongs DEF CacheStep
<1>. QED BY <1>2, <1>4, <1>5, LoopKeeps

LEMMA InitialsBelong ==
    ASSUME NEW c, AllBelong(c)
    PROVE  AllBelong(CacheInitials(c))
<1> DEFINE g == CHOOSE g : g = [n \in 0..Len(Initials) |-> IF n = 0 THEN c ELSE CacheInitial(g[n - 1], Initials[n])]
<1>0. Len(Initials) \in Nat /\ DOMAIN Initials = 1..Len(Initials)
    <2>1. Initials \in Seq([name : STRING, artists : Seq(DOMAIN TopSongs)])
        BY ReferencesAssumption
    <2>. QED BY <2>1, LenProperties
<1>1. \E f : f = [n \in 0..Len(Initials) |-> IF n = 0 THEN c ELSE CacheInitial(f[n - 1], Initials[n])]
    <2>1. PICK f : Filled("initials", <<>>, Initials, c, Len(Initials), f)
        BY <1>0, LoopFills
    <2>. QED BY <2>1 DEF Filled, CacheStep
<1>2. CacheInitials(c) = g[Len(Initials)]
    BY Zenon DEF CacheInitials
<1>3. g = [n \in 0..Len(Initials) |-> IF n = 0 THEN c ELSE CacheInitial(g[n - 1], Initials[n])]
    BY <1>1
<1> HIDE DEF g
<1>4. Filled("initials", <<>>, Initials, c, Len(Initials), g)
    BY <1>3 DEF Filled, CacheStep
<1>5. \A n \in 1..Len(Initials) : \A d : AllBelong(d) => AllBelong(CacheStep("initials", <<>>, Initials, d, n))
    BY <1>0, InitialBelongs DEF CacheStep
<1>. QED BY <1>0, <1>2, <1>4, <1>5, LoopKeeps

LEMMA ArtIs == ArtBelongs <=> AllBelong(cache)
BY DEF ArtBelongs, AllBelong, Belongs

LEMMA InitArt == Init => AllBelong(cache)
BY DEF Init, NoCache, AllBelong

LEMMA StepArt ==
    loop.offset \in Int /\ AllBelong(cache) /\ (\A answer \in Answers(at) : loop.for = "answer" => IsList(answer)) /\ [Next]_vars
        => AllBelong(cache)'
<1> SUFFICES ASSUME loop.offset \in Int, AllBelong(cache), \A answer \in Answers(at) : loop.for = "answer" => IsList(answer),
                    [Next]_vars
             PROVE  AllBelong(cache)'
    OBVIOUS
<1>1. CASE browse
    BY <1>1 DEF browse, AllBelong, Belongs, InitialOf
<1>2. CASE ReadAlbums
    <2> DEFINE n == IF Len(LoopList) - loop.offset < MaxReturn THEN Len(LoopList) - loop.offset ELSE MaxReturn
               albums == SubSeq(LoopList, loop.offset + 1, loop.offset + n)
    <2>1. cache' = IF loop.for = "caching" THEN CacheNewest(cache, albums) ELSE cache
        BY <1>2 DEF ReadAlbums
    <2>2. Len(albums) \in Nat
        <3>1. IsList(LoopList)
            <4>1. IsList(Albums) /\ IsList(GenreAlbums(at.g))
                BY LibraryAssumption, SeqIsList, AtPlacesIsList DEF GenreAlbums
            <4>. QED BY <4>1 DEF LoopList
        <3>2. loop.offset + 1 \in Int /\ loop.offset + n \in Int
            BY <3>1, LibraryAssumption DEF IsList
        <3> HIDE DEF n
        <3>3. IsList(albums)
            BY <3>2, Cut
        <3>. QED BY <3>3 DEF IsList
    <2> HIDE DEF albums
    <2>3. AllBelong(cache')
        BY <2>1, <2>2, NewestBelong
    <2>. QED BY <2>3 DEF AllBelong, Belongs, InitialOf
<1>3. CASE ReadDone
    <2>1. cache' = cache \/ cache' = CacheInitials(cache)
        BY <1>3 DEF ReadDone
    <2>2. AllBelong(cache')
        BY <2>1, InitialsBelong
    <2>. QED BY <2>2 DEF AllBelong, Belongs, InitialOf
<1>4. CASE ReadFails
    BY <1>4 DEF ReadFails, AllBelong, Belongs, InitialOf
<1>5. CASE Answer
    <2>1. PICK answer \in Answers(at) :
            /\ initials' = LearnInitials(at)
            /\ cache' = CacheEntries(cache, initials', Elements(at, answer))
        BY <1>5 DEF Answer
    <2>2. \A x \in DOMAIN initials' : initials'[x] = InitialOf(x)
        BY <2>1 DEF LearnInitials
    <2>3. Len(Elements(at, answer)) \in Nat
        <3>1. IsList(answer)
            BY <1>5 DEF Answer
        <3>2. IsList(Elements(at, answer))
            <4>1. Len(answer) - 1 \in Int /\ 1 \in Int
                BY <3>1 DEF IsList
            <4>2. IsList(Front(answer))
                BY <4>1, Cut DEF Front
            <4>. QED BY <3>1, <4>2 DEF Elements
        <3>. QED BY <3>2 DEF IsList
    <2>4. AllBelong(cache')
        BY <2>1, <2>2, <2>3, EntriesBelong
    <2>. QED BY <2>4 DEF AllBelong, Belongs, InitialOf
<1>6. CASE UNCHANGED vars
    BY <1>6 DEF vars, AllBelong, Belongs, InitialOf
<1>. QED BY <1>1, <1>2, <1>3, <1>4, <1>5, <1>6 DEF Next

-----------------------------------------------------------------------------
(* Places of a list, in an order *)

Below(S, R, i) == {j \in S : <<j, i>> \in R}

\* In a total order the elements have the ranks from 0 on, each of them once.
LEMMA Ranked ==
    ASSUME NEW S, IsFiniteSet(S), NEW R,
           \A i \in S : <<i, i>> \notin R,
           \A i, j \in S : i # j => <<i, j>> \in R \/ <<j, i>> \in R,
           \A i, j, k \in S : <<i, j>> \in R /\ <<j, k>> \in R => <<i, k>> \in R
    PROVE  /\ \A i \in S : Cardinality(Below(S, R, i)) \in 0..Cardinality(S) - 1
           /\ \A i, k \in S : <<i, k>> \in R <=> Cardinality(Below(S, R, i)) < Cardinality(Below(S, R, k))
           /\ \A n \in 1..Cardinality(S) : \E i \in S : Cardinality(Below(S, R, i)) = n - 1
<1> DEFINE below(i) == Below(S, R, i)
<1>1. ASSUME NEW i \in S
      PROVE  /\ IsFiniteSet(below(i)) /\ Cardinality(below(i)) \in Nat
             /\ Cardinality(below(i)) < Cardinality(S) /\ Cardinality(S) \in Nat
    <2>1. below(i) \in SUBSET S /\ below(i) # S
        BY DEF Below
    <2>2. /\ IsFiniteSet(below(i)) /\ Cardinality(below(i)) <= Cardinality(S)
          /\ Cardinality(below(i)) # Cardinality(S)
        BY <2>1, FS_Subset
    <2>3. Cardinality(below(i)) \in Nat /\ Cardinality(S) \in Nat
        BY <2>2, FS_CardinalityType
    <2>. QED BY <2>2, <2>3
<1>2. ASSUME NEW i \in S, NEW k \in S, <<i, k>> \in R
      PROVE  Cardinality(below(i)) < Cardinality(below(k))
    <2>1. below(i) \in SUBSET below(k) /\ i \in below(k) /\ i \notin below(i)
        BY <1>2 DEF Below
    <2>2. Cardinality(below(i)) <= Cardinality(below(k)) /\ Cardinality(below(i)) # Cardinality(below(k))
        BY <1>1, <2>1, FS_Subset
    <2>. QED BY <1>1, <2>2
<1>3. ASSUME NEW i \in S, NEW k \in S, Cardinality(below(i)) < Cardinality(below(k))
      PROVE  <<i, k>> \in R
    <2>1. i # k /\ ~(Cardinality(below(k)) < Cardinality(below(i)))
        BY <1>1, <1>3
    <2>. QED BY <1>2, <2>1
<1>4. \A n \in 1..Cardinality(S) : \E i \in S : Cardinality(below(i)) = n - 1
    <2> DEFINE f == [i \in S |-> Cardinality(below(i)) + 1]
               T == 1..Cardinality(S)
    <2>1. Cardinality(S) \in Nat
        BY FS_CardinalityType
    <2>2. IsFiniteSet(T) /\ Cardinality(T) = Cardinality(S)
        BY <2>1, FS_Interval
    <2>3. f \in [S -> T]
        BY <1>1
    <2>4. ASSUME NEW i \in S, NEW k \in S, f[i] = f[k] PROVE i = k
        <3>1. Cardinality(below(i)) = Cardinality(below(k))
            BY <1>1, <2>4
        <3>2. ~(Cardinality(below(i)) < Cardinality(below(k))) /\ ~(Cardinality(below(k)) < Cardinality(below(i)))
            BY <1>1, <3>1
        <3>. QED BY <1>2, <3>2
    <2>5. f \in Injection(S, T)
        BY <2>3, <2>4 DEF Injection, IsInjective
    <2> HIDE DEF f, T
    <2>6. f \in Surjection(S, T)
        BY <2>2, <2>5, FS_Injection
    <2>7. \A n \in T : \E i \in S : f[i] = n
        BY <2>6 DEF Surjection
    <2>8. ASSUME NEW n \in 1..Cardinality(S) PROVE \E i \in S : Cardinality(below(i)) = n - 1
        <3>1. PICK i \in S : f[i] = n
            BY <2>7 DEF T
        <3>2. Cardinality(below(i)) + 1 = n
            BY <3>1 DEF f
        <3>. QED BY <1>1, <3>2
    <2>. QED BY <2>8
<1>. QED BY <1>1, <1>2, <1>3, <1>4

\* The places in the order of their ranks.
ByRank(S, R) == [n \in 1..Cardinality(S) |-> CHOOSE i \in S : Cardinality(Below(S, R, i)) = n - 1]
Orders(S, R, place) ==
    /\ place \in [1..Cardinality(S) -> S]
    /\ \A m, n \in 1..Cardinality(S) : m < n => <<place[m], place[n]>> \in R
    /\ \A i \in S : \E n \in 1..Cardinality(S) : place[n] = i

LEMMA RankOrders ==
    ASSUME NEW S, IsFiniteSet(S), NEW R,
           \A i \in S : <<i, i>> \notin R,
           \A i, j \in S : i # j => <<i, j>> \in R \/ <<j, i>> \in R,
           \A i, j, k \in S : <<i, j>> \in R /\ <<j, k>> \in R => <<i, k>> \in R
    PROVE  Orders(S, R, ByRank(S, R)) /\ Cardinality(S) \in Nat
<1> DEFINE place == ByRank(S, R)
           rank(i) == Cardinality(Below(S, R, i))
<1>1. Cardinality(S) \in Nat
    BY FS_CardinalityType
<1>2. \A n \in 1..Cardinality(S) : place[n] \in S /\ rank(place[n]) = n - 1
    <2>1. ASSUME NEW n \in 1..Cardinality(S) PROVE place[n] \in S /\ rank(place[n]) = n - 1
        <3>1. \E i \in S : rank(i) = n - 1
            BY Ranked
        <3>2. place[n] = CHOOSE i \in S : rank(i) = n - 1
            BY DEF ByRank
        <3>. QED BY <3>1, <3>2
    <2>. QED BY <2>1
<1>3. place \in [1..Cardinality(S) -> S]
    BY <1>2 DEF ByRank
<1>4. \A i \in S : rank(i) \in 0..Cardinality(S) - 1
    BY Ranked
<1>5. \A i, k \in S : <<i, k>> \in R <=> rank(i) < rank(k)
    BY Ranked
<1> HIDE DEF place, rank
<1>6. \A m, n \in 1..Cardinality(S) : m < n => <<place[m], place[n]>> \in R
    BY <1>1, <1>2, <1>5
<1>7. ASSUME NEW i \in S PROVE \E n \in 1..Cardinality(S) : place[n] = i
    <2> DEFINE n == rank(i) + 1
    <2>1. n \in 1..Cardinality(S) /\ n - 1 = rank(i)
        BY <1>1, <1>4
    <2>2. place[n] \in S /\ rank(place[n]) = rank(i)
        BY <1>2, <2>1
    <2>3. ~(rank(i) < rank(place[n])) /\ ~(rank(place[n]) < rank(i))
        BY <1>4, <2>2
    <2>4. place[n] = i
        BY <1>5, <2>2, <2>3
    <2>. QED BY <2>1, <2>4
<1>. QED BY <1>1, <1>3, <1>6, <1>7 DEF Orders, place

\* How the elements at some places of a list are found in it.
ChosenAt(S, list, places, place) ==
    /\ place \in [1..Cardinality(places) -> places] /\ Cardinality(places) \in Nat
    /\ AtPlaces(list, places) \in Seq(S) /\ Len(AtPlaces(list, places)) = Cardinality(places)
    /\ \A n \in 1..Cardinality(places) : AtPlaces(list, places)[n] = list[place[n]]
    /\ \A m, n \in 1..Cardinality(places) : m < n => place[m] < place[n]
    /\ \A i \in places : \E n \in 1..Cardinality(places) : place[n] = i

LEMMA Chosen ==
    ASSUME NEW S, NEW list \in Seq(S), NEW places, places \subseteq DOMAIN list
    PROVE  \E place : ChosenAt(S, list, places, place)
<1> DEFINE R == {p \in places \X places : p[1] < p[2]}
           place == ByRank(places, R)
<1>1. DOMAIN list = 1..Len(list) /\ Len(list) \in Nat /\ \A i \in DOMAIN list : list[i] \in S
    BY LenProperties, ElementOfSeq
<1>2. IsFiniteSet(places)
    <2>1. IsFiniteSet(1..Len(list))
        BY <1>1, FS_Interval
    <2>. QED BY <1>1, <2>1, FS_Subset
<1>3. \A i, j \in places : <<i, j>> \in R <=> i < j
    OBVIOUS
<1>4. \A i \in places : i \in Nat
    BY <1>1
<1> HIDE DEF R
<1>5. Orders(places, R, place) /\ Cardinality(places) \in Nat
    <2>1. \A i \in places : <<i, i>> \notin R
        BY <1>3, <1>4
    <2>2. \A i, j \in places : i # j => <<i, j>> \in R \/ <<j, i>> \in R
        BY <1>3, <1>4
    <2>3. \A i, j, k \in places : <<i, j>> \in R /\ <<j, k>> \in R => <<i, k>> \in R
        BY <1>3, <1>4
    <2>. QED BY <1>2, <2>1, <2>2, <2>3, RankOrders
<1>6. ASSUME NEW n \in 1..Cardinality(places)
      PROVE  (CHOOSE i \in places : Cardinality({j \in places : j <= i}) = n) = place[n]
    <2>1. ASSUME NEW i \in places
          PROVE  Cardinality({j \in places : j <= i}) = Cardinality(Below(places, R, i)) + 1
                 /\ Cardinality(Below(places, R, i)) \in Nat
        <3>1. Below(places, R, i) = {j \in places : j < i}
            BY <1>3 DEF Below
        <3>2. {j \in places : j <= i} = Below(places, R, i) \cup {i} /\ i \notin Below(places, R, i)
            BY <1>4, <3>1
        <3>3. IsFiniteSet(Below(places, R, i))
            BY <1>2, FS_Subset DEF Below
        <3>. QED BY <3>2, <3>3, FS_AddElement, FS_CardinalityType
    <2>2. \A i \in places : Cardinality({j \in places : j <= i}) = n <=> Cardinality(Below(places, R, i)) = n - 1
        BY <2>1
    <2>3. (CHOOSE i \in places : Cardinality({j \in places : j <= i}) = n)
            = CHOOSE i \in places : Cardinality(Below(places, R, i)) = n - 1
        BY <2>2
    <2>. QED BY <2>3 DEF ByRank
<1> HIDE DEF place
<1>7. AtPlaces(list, places) = [n \in 1..Cardinality(places) |-> list[place[n]]]
    <2> DEFINE h(n) == CHOOSE i \in places : Cardinality({j \in places : j <= i}) = n
    <2>1. AtPlaces(list, places) = [n \in 1..Cardinality(places) |-> list[h(n)]]
        BY Zenon DEF AtPlaces
    <2>2. \A n \in 1..Cardinality(places) : h(n) = place[n]
        BY <1>6
    <2> HIDE DEF h
    <2>. QED BY <2>1, <2>2
<1>8. \A n \in 1..Cardinality(places) : place[n] \in places
    BY <1>5 DEF Orders
<1>9. \A n \in 1..Cardinality(places) : list[place[n]] \in S
    BY <1>1, <1>8
<1>10. AtPlaces(list, places) \in Seq(S) /\ Len(AtPlaces(list, places)) = Cardinality(places)
    BY <1>5, <1>7, <1>9, IsASeq, LenProperties
<1>11. \A m, n \in 1..Cardinality(places) : m < n => place[m] < place[n]
    BY <1>3, <1>5, <1>8 DEF Orders
<1>. QED BY <1>5, <1>7, <1>10, <1>11 DEF Orders, ChosenAt

-----------------------------------------------------------------------------
(* The order of songs *)

Level(s, t) == \A i \in 1..5 : Key(s)[i] = Key(t)[i]

LEMMA KeyIs == \A s \in DOMAIN SongOf : \A i \in 1..5 : Key(s)[i] \in Nat
<1> SUFFICES ASSUME NEW s \in DOMAIN SongOf PROVE \A i \in 1..5 : Key(s)[i] \in Nat
    OBVIOUS
<1> DEFINE r == SongOf[s]
<1>1. /\ r.disc \in Nat /\ r.track \in Nat
      /\ Rank[r.artist] \in Nat /\ Rank[r.album] \in Nat /\ Rank[r.dir] \in Nat
    BY SongsAssumption
<1>2. Key(s) = <<Rank[r.artist], Rank[r.album], Rank[r.dir], r.disc, r.track>>
    BY DEF Key
<1> HIDE DEF r
<1>3. Key(s)[1] \in Nat /\ Key(s)[2] \in Nat /\ Key(s)[3] \in Nat /\ Key(s)[4] \in Nat /\ Key(s)[5] \in Nat
    BY <1>1, <1>2
<1>4. \A i \in 1..5 : i = 1 \/ i = 2 \/ i = 3 \/ i = 4 \/ i = 5
    OBVIOUS
<1>. QED BY <1>3, <1>4

LEMMA BeforeOrder ==
    /\ \A s, t \in DOMAIN SongOf : Before(s, t) \/ Before(t, s) \/ Level(s, t)
    /\ \A s, t \in DOMAIN SongOf : Before(s, t) => ~Before(t, s) /\ ~Level(s, t)
    /\ \A s, t, u \in DOMAIN SongOf : Before(s, t) /\ Before(t, u) => Before(s, u)
    /\ \A s, t, u \in DOMAIN SongOf : Before(s, t) /\ Level(t, u) => Before(s, u)
    /\ \A s, t, u \in DOMAIN SongOf : Level(s, t) /\ Before(t, u) => Before(s, u)
    /\ \A s, t, u \in DOMAIN SongOf : Level(s, t) /\ Level(t, u) => Level(s, u)
<1>1. ASSUME NEW s \in DOMAIN SongOf, NEW t \in DOMAIN SongOf, ~Level(s, t)
      PROVE  Before(s, t) \/ Before(t, s)
    <2> DEFINE T == {i \in 1..5 : Key(s)[i] # Key(t)[i]}
    <2>1. T \subseteq Nat /\ T # {}
        BY <1>1 DEF Level
    <2>2. PICK i \in T : \A j \in T : i <= j
        BY <2>1, Least
    <2>3. \A j \in 1..i - 1 : j \in 1..5 /\ ~(i <= j)
        OBVIOUS
    <2>4. \A j \in 1..i - 1 : Key(s)[j] = Key(t)[j] /\ Key(t)[j] = Key(s)[j]
        BY <2>2, <2>3
    <2>5. i \in 1..5 /\ (Key(s)[i] < Key(t)[i] \/ Key(t)[i] < Key(s)[i])
        BY KeyIs
    <2>. QED BY <2>4, <2>5 DEF Before
<1>2. ASSUME NEW s \in DOMAIN SongOf, NEW t \in DOMAIN SongOf, Before(s, t)
      PROVE  ~Level(s, t)
    BY <1>2, KeyIs DEF Before, Level
<1>3. ASSUME NEW s \in DOMAIN SongOf, NEW t \in DOMAIN SongOf, NEW u \in DOMAIN SongOf, Before(s, t), Before(t, u)
      PROVE  Before(s, u)
    <2>1. PICK i \in 1..5 : Key(s)[i] < Key(t)[i] /\ \A j \in 1..i - 1 : Key(s)[j] = Key(t)[j]
        BY <1>3 DEF Before
    <2>2. PICK k \in 1..5 : Key(t)[k] < Key(u)[k] /\ \A j \in 1..k - 1 : Key(t)[j] = Key(u)[j]
        BY <1>3 DEF Before
    <2>3. CASE i < k
        <3>1. i \in 1..k - 1 /\ \A j \in 1..i - 1 : j \in 1..k - 1
            BY <2>3
        <3>2. Key(s)[i] < Key(u)[i] /\ \A j \in 1..i - 1 : Key(s)[j] = Key(u)[j]
            BY <2>1, <2>2, <3>1
        <3>. QED BY <3>2 DEF Before
    <2>4. CASE i = k
        <3>1. Key(s)[i] < Key(u)[i]
            BY <2>1, <2>2, <2>4, KeyIs
        <3>2. \A j \in 1..i - 1 : Key(s)[j] = Key(u)[j]
            BY <2>1, <2>2, <2>4
        <3>. QED BY <3>1, <3>2 DEF Before
    <2>5. CASE k < i
        <3>1. k \in 1..i - 1 /\ \A j \in 1..k - 1 : j \in 1..i - 1
            BY <2>5
        <3>2. Key(s)[k] < Key(u)[k] /\ \A j \in 1..k - 1 : Key(s)[j] = Key(u)[j]
            BY <2>1, <2>2, <3>1
        <3>. QED BY <3>2 DEF Before
    <2>. QED BY <2>3, <2>4, <2>5
<1>4. ASSUME NEW s \in DOMAIN SongOf, NEW t \in DOMAIN SongOf, Before(s, t)
      PROVE  ~Before(t, s)
    <2>1. ~Before(s, s)
        BY <1>2 DEF Level
    <2>. QED BY <1>3, <1>4, <2>1
<1>5. \A s, t, u \in DOMAIN SongOf : Before(s, t) /\ Level(t, u) => Before(s, u)
    <2>1. ASSUME NEW s, NEW t, NEW u, Before(s, t), Level(t, u) PROVE Before(s, u)
        <3>1. PICK i \in 1..5 : Key(s)[i] < Key(t)[i] /\ \A j \in 1..i - 1 : Key(s)[j] = Key(t)[j]
            BY <2>1 DEF Before
        <3>2. \A j \in 1..i - 1 : j \in 1..5
            OBVIOUS
        <3>3. Key(s)[i] < Key(u)[i] /\ \A j \in 1..i - 1 : Key(s)[j] = Key(u)[j]
            BY <2>1, <3>1, <3>2 DEF Level
        <3>. QED BY <3>3 DEF Before
    <2>. QED BY <2>1
<1>6. \A s, t, u \in DOMAIN SongOf : Level(s, t) /\ Before(t, u) => Before(s, u)
    <2>1. ASSUME NEW s, NEW t, NEW u, Level(s, t), Before(t, u) PROVE Before(s, u)
        <3>1. PICK i \in 1..5 : Key(t)[i] < Key(u)[i] /\ \A j \in 1..i - 1 : Key(t)[j] = Key(u)[j]
            BY <2>1 DEF Before
        <3>2. \A j \in 1..i - 1 : j \in 1..5
            OBVIOUS
        <3>3. Key(s)[i] < Key(u)[i] /\ \A j \in 1..i - 1 : Key(s)[j] = Key(u)[j]
            BY <2>1, <3>1, <3>2 DEF Level
        <3>. QED BY <3>3 DEF Before
    <2>. QED BY <2>1
<1>7. \A s, t, u \in DOMAIN SongOf : Level(s, t) /\ Level(t, u) => Level(s, u)
    BY DEF Level
<1>. QED BY <1>1, <1>2, <1>3, <1>4, <1>5, <1>6, <1>7

\* The order of the sorted songs is total.
LEMMA PrecedesOrder ==
    ASSUME NEW songs \in Seq(DOMAIN SongOf)
    PROVE  LET S == DOMAIN songs
           IN  /\ \A i \in S : ~Precedes(songs, i, i)
               /\ \A i, j \in S : i # j => Precedes(songs, i, j) \/ Precedes(songs, j, i)
               /\ \A i, j, k \in S : Precedes(songs, i, j) /\ Precedes(songs, j, k) => Precedes(songs, i, k)
<1>1. DOMAIN songs = 1..Len(songs) /\ Len(songs) \in Nat /\ \A i \in DOMAIN songs : songs[i] \in DOMAIN SongOf
    BY LenProperties, ElementOfSeq
<1>2. ASSUME NEW i \in DOMAIN songs, NEW j \in DOMAIN songs
      PROVE  Precedes(songs, i, j) <=> Before(songs[i], songs[j]) \/ (i < j /\ Level(songs[i], songs[j]))
    <2>1. ~Before(songs[j], songs[i]) <=> Before(songs[i], songs[j]) \/ Level(songs[i], songs[j])
        <3>1. Level(songs[i], songs[j]) <=> Level(songs[j], songs[i])
            BY DEF Level
        <3>. QED BY <1>1, <3>1, BeforeOrder
    <2>. QED BY <2>1 DEF Precedes
<1>3. \A i \in DOMAIN songs : i \in Nat
    BY <1>1
<1>4. ASSUME NEW i \in DOMAIN songs PROVE ~Precedes(songs, i, i)
    BY <1>1, <1>2, <1>3, BeforeOrder
<1>5. ASSUME NEW i \in DOMAIN songs, NEW j \in DOMAIN songs, i # j
      PROVE  Precedes(songs, i, j) \/ Precedes(songs, j, i)
    <2>1. i < j \/ j < i
        BY <1>3, <1>5
    <2>2. Level(songs[i], songs[j]) => Level(songs[j], songs[i])
        BY DEF Level
    <2>. QED BY <1>1, <1>2, <2>1, <2>2, BeforeOrder
<1>6. ASSUME NEW i \in DOMAIN songs, NEW j \in DOMAIN songs, NEW k \in DOMAIN songs,
             Precedes(songs, i, j), Precedes(songs, j, k)
      PROVE  Precedes(songs, i, k)
    <2>1. i < j /\ j < k => i < k
        BY <1>3
    <2>2. Before(songs[i], songs[j]) \/ (i < j /\ Level(songs[i], songs[j]))
        BY <1>2, <1>6
    <2>3. Before(songs[j], songs[k]) \/ (j < k /\ Level(songs[j], songs[k]))
        BY <1>2, <1>6
    <2>4. songs[i] \in DOMAIN SongOf /\ songs[j] \in DOMAIN SongOf /\ songs[k] \in DOMAIN SongOf
        BY <1>1
    <2>5. Before(songs[i], songs[k]) \/ (i < k /\ Level(songs[i], songs[k]))
        BY <2>1, <2>2, <2>3, <2>4, BeforeOrder
    <2>. QED BY <1>2, <2>5
<1>. QED BY <1>4, <1>5, <1>6

\* A list of songs is sorted: it has the same songs, none before one which should come first.
SortedAt(songs, place) ==
    /\ place \in [DOMAIN songs -> DOMAIN songs]
    /\ sort_song_list(songs) \in Seq(DOMAIN SongOf) /\ Len(sort_song_list(songs)) = Len(songs)
    /\ \A n \in DOMAIN songs : sort_song_list(songs)[n] = songs[place[n]]
    /\ \A m, n \in DOMAIN songs : m < n => Precedes(songs, place[m], place[n])
    /\ \A i \in DOMAIN songs : \E n \in DOMAIN songs : place[n] = i

LEMMA SortsSongs ==
    ASSUME NEW songs \in Seq(DOMAIN SongOf)
    PROVE  \E place : SortedAt(songs, place)
<1> DEFINE S == DOMAIN songs
           R == {p \in S \X S : Precedes(songs, p[1], p[2])}
           place == ByRank(S, R)
<1>1. S = 1..Len(songs) /\ Len(songs) \in Nat /\ \A i \in S : songs[i] \in DOMAIN SongOf
    BY LenProperties, ElementOfSeq
<1>2. IsFiniteSet(S) /\ Cardinality(S) = Len(songs)
    BY <1>1, FS_Interval
<1>3. \A i, j \in S : <<i, j>> \in R <=> Precedes(songs, i, j)
    OBVIOUS
<1> HIDE DEF R
<1>4. Orders(S, R, place)
    <2>1. \A i \in S : <<i, i>> \notin R
        BY <1>3, PrecedesOrder
    <2>2. \A i, j \in S : i # j => <<i, j>> \in R \/ <<j, i>> \in R
        BY <1>3, PrecedesOrder
    <2>3. \A i, j, k \in S : <<i, j>> \in R /\ <<j, k>> \in R => <<i, k>> \in R
        BY <1>3, PrecedesOrder
    <2>. QED BY <1>2, <2>1, <2>2, <2>3, RankOrders
<1>5. \A i \in S : Below(S, R, i) = {j \in S : Precedes(songs, j, i)}
    BY <1>3 DEF Below
<1>6. ASSUME NEW n \in S
      PROVE  (CHOOSE i \in S : Cardinality({j \in S : Precedes(songs, j, i)}) = n - 1) = place[n]
    <2>1. (CHOOSE i \in S : Cardinality({j \in S : Precedes(songs, j, i)}) = n - 1)
            = CHOOSE i \in S : Cardinality(Below(S, R, i)) = n - 1
        BY <1>5
    <2>2. n \in 1..Cardinality(S)
        BY <1>1, <1>2
    <2>3. place[n] = CHOOSE i \in S : Cardinality(Below(S, R, i)) = n - 1
        <3> HIDE DEF S
        <3>. QED BY <2>2 DEF ByRank
    <2>. QED BY <2>1, <2>3
<1> HIDE DEF place
<1>7. sort_song_list(songs) = [n \in S |-> songs[place[n]]]
    <2> DEFINE h(n) == CHOOSE i \in S : Cardinality({j \in S : Precedes(songs, j, i)}) = n - 1
    <2>1. sort_song_list(songs) = [n \in S |-> songs[h(n)]]
        BY Zenon DEF sort_song_list
    <2>2. \A n \in S : h(n) = place[n]
        BY <1>6
    <2> HIDE DEF h
    <2>. QED BY <2>1, <2>2
<1>8. place \in [S -> S] /\ \A n \in S : place[n] \in S
    BY <1>1, <1>2, <1>4 DEF Orders
<1>9. \A n \in S : songs[place[n]] \in DOMAIN SongOf
    BY <1>1, <1>8
<1>10. sort_song_list(songs) \in Seq(DOMAIN SongOf) /\ Len(sort_song_list(songs)) = Len(songs)
    BY <1>1, <1>7, <1>9, IsASeq, LenProperties
<1>11. \A m, n \in S : m < n => Precedes(songs, place[m], place[n])
    BY <1>1, <1>2, <1>3, <1>4, <1>8 DEF Orders
<1>12. \A i \in S : \E n \in S : place[n] = i
    BY <1>1, <1>2, <1>4 DEF Orders
<1>. QED BY <1>7, <1>8, <1>10, <1>11, <1>12 DEF SortedAt

-----------------------------------------------------------------------------
(* What there is behind an entry *)

\* An entry whose handler finds what it names, and something to show if the entry promises it.
Good(e) ==
    /\ e.n \in {"lbm", "sprs_lbm"} => e.v \in DOMAIN AlbumOf
    /\ e.n \in {"trk", "sngntr_n", "sngntr_s"} => e.v \in DOMAIN SongOf
    /\ e.n \in {"rtst", "rtst_lbms", "rtsttp", "rtsttp_sl", "rtst_smlr", "gnr_rtst", "gnr_rtst_lbms"} =>
         e.v \in DOMAIN TopSongs
    /\ e.n \in {"rtsttp", "rtsttp_sl"} => TopSongs[e.v] # <<>>
    /\ e.n = "rtst_smlr" => Similar[e.v] # <<>>
    /\ e.n \in {"rd", "rd_sl"} => e.v \in DOMAIN SimilarSongs /\ SimilarSongs[e.v] # <<>>
    /\ e.n = "gnr" => e.v \in Genres
    /\ e.n = "gnr_rtsts" => e.g \in Genres
    /\ e.n \in {"gnr_rtst", "gnr_rtst_lbms"} => e.o < Len(ArtistGenreAlbums(e.v, e.g))
    /\ e.n = "rtst_ntl" => \E i \in DOMAIN Initials : e.v = Initials[i].name
    /\ e.n = "pl" => e.v \in DOMAIN Playlists
Fine(answer) == IsList(answer) /\ \A e \in ToSet(answer) : Good(e)

LEMMA GoodItems ==
    /\ \A a \in DOMAIN AlbumOf : /\ Good(ItemIdentifier("lbm", a)) /\ Good(ItemIdentifier("sprs_lbm", a))
                                 /\ \A path : Good(VersionEntry(a, path))
    /\ \A s \in DOMAIN SongOf : \A n \in {"trk", "sngntr_n", "sngntr_s"} : Good(ItemIdentifier(n, s))
    /\ \A x \in DOMAIN TopSongs :
         /\ Good(ItemIdentifier("rtst", x)) /\ Good(ItemIdentifier("rtst_lbms", x))
         /\ TopSongs[x] # <<>> => Good(ItemIdentifier("rtsttp", x)) /\ Good(ItemIdentifier("rtsttp_sl", x))
         /\ Similar[x] # <<>> => Good(ItemIdentifier("rtst_smlr", x))
    /\ \A x \in DOMAIN SimilarSongs :
         SimilarSongs[x] # <<>> => Good(ItemIdentifier("rd", x)) /\ Good(ItemIdentifier("rd_sl", x))
    /\ \A g \in Genres : /\ Good(ItemIdentifier("gnr", g))
                         /\ \A v : Good(InGenre(ItemIdentifier("gnr_rtsts", v), g))
    /\ \A v, g : Good(InGenre(ItemIdentifier("gnr_lbus", v), g))
    /\ \A x \in DOMAIN TopSongs : \A g : Len(ArtistGenreAlbums(x, g)) > 0 =>
         Good(InGenre(ItemIdentifier("gnr_rtst", x), g)) /\ Good(InGenre(ItemIdentifier("gnr_rtst_lbms", x), g))
    /\ \A t, k : Good(Tag(t)) /\ Good(At(Tag(t), k))
    /\ \A v, m : Good(InMode(ItemIdentifier("nxt_rndm_sngs", v), m)) /\ Good(ItemIdentifier("i_rd", v))
    /\ \A i \in DOMAIN Initials : Good(ItemIdentifier("rtst_ntl", Initials[i].name))
    /\ \A p \in DOMAIN Playlists : Good(ItemIdentifier("pl", p))
<1>1. \A a \in DOMAIN AlbumOf : /\ Good(ItemIdentifier("lbm", a)) /\ Good(ItemIdentifier("sprs_lbm", a))
                                /\ \A path : Good(VersionEntry(a, path))
    <2>2. ASSUME NEW a \in DOMAIN AlbumOf, NEW n \in {"lbm", "sprs_lbm"}, NEW path
          PROVE  Good(ItemOf(n, a, 0, "", path, Yes))
        <3> DEFINE e == ItemOf(n, a, 0, "", path, Yes)
        <3>1. e.n = n /\ e.v = a
            BY DEF ItemOf
        <3> HIDE DEF e
        <3>2. Good(e)
            BY <3>1 DEF Good
        <3>. QED BY <3>2 DEF e
    <2>3. \A a, path : VersionEntry(a, path) = ItemOf("lbm", a, 0, "", path, Yes)
        BY ChangedItem DEF VersionEntry
    <2>. QED BY <2>2, <2>3, NewItem
<1>2. ASSUME NEW n, NEW v,
             /\ n \in {"trk", "sngntr_n", "sngntr_s"} => v \in DOMAIN SongOf
             /\ n \in {"rtst", "rtst_lbms", "rtsttp", "rtsttp_sl", "rtst_smlr"} => v \in DOMAIN TopSongs
             /\ n \in {"rtsttp", "rtsttp_sl"} => TopSongs[v] # <<>>
             /\ n = "rtst_smlr" => Similar[v] # <<>>
             /\ n \in {"rd", "rd_sl"} => v \in DOMAIN SimilarSongs /\ SimilarSongs[v] # <<>>
             /\ n = "gnr" => v \in Genres
             /\ n = "rtst_ntl" => \E i \in DOMAIN Initials : v = Initials[i].name
             /\ n = "pl" => v \in DOMAIN Playlists,
             n \notin {"lbm", "sprs_lbm", "gnr_rtsts", "gnr_rtst", "gnr_rtst_lbms"}
      PROVE  \A k, m : Good(ItemOf(n, v, k, "", "", m))
    <2> SUFFICES ASSUME NEW k, NEW m PROVE Good(ItemOf(n, v, k, "", "", m))
        OBVIOUS
    <2> DEFINE e == ItemOf(n, v, k, "", "", m)
    <2>1. e.n = n /\ e.v = v
        BY DEF ItemOf
    <2> HIDE DEF e
    <2>2. Good(e)
        BY <1>2, <2>1 DEF Good
    <2>. QED BY <2>2 DEF e
<1>3. \A n, v : ItemIdentifier(n, v) = ItemOf(n, v, 0, "", "", Yes)
    BY NewItem
<1>4. \A s \in DOMAIN SongOf : \A n \in {"trk", "sngntr_n", "sngntr_s"} : Good(ItemIdentifier(n, s))
    BY <1>2, <1>3
<1>5. ASSUME NEW x \in DOMAIN TopSongs
      PROVE  /\ Good(ItemIdentifier("rtst", x)) /\ Good(ItemIdentifier("rtst_lbms", x))
             /\ TopSongs[x] # <<>> => Good(ItemIdentifier("rtsttp", x)) /\ Good(ItemIdentifier("rtsttp_sl", x))
             /\ Similar[x] # <<>> => Good(ItemIdentifier("rtst_smlr", x))
    BY <1>2, <1>3
<1>6. ASSUME NEW x \in DOMAIN SimilarSongs, SimilarSongs[x] # <<>>
      PROVE  Good(ItemIdentifier("rd", x)) /\ Good(ItemIdentifier("rd_sl", x))
    BY <1>2, <1>3, <1>6
<1>7. \A g \in Genres : Good(ItemIdentifier("gnr", g))
    BY <1>2, <1>3
<1>8. \A v, k, m : Good(ItemOf("tag", v, k, "", "", m)) /\ Good(ItemOf("nxt_rndm_sngs", v, k, "", "", m))
                   /\ Good(ItemOf("i_rd", v, k, "", "", m))
    BY <1>2
<1>9. \A t, k : Good(Tag(t)) /\ Good(At(Tag(t), k))
    <2>1. \A t, k : Tag(t) = ItemOf("tag", t, 0, "", "", Yes) /\ At(Tag(t), k) = ItemOf("tag", t, k, "", "", Yes)
        BY NewItem, ChangedItem DEF Tag
    <2>. QED BY <1>8, <2>1
<1>10. \A v, m : Good(InMode(ItemIdentifier("nxt_rndm_sngs", v), m)) /\ Good(ItemIdentifier("i_rd", v))
    <2>1. \A v, m : InMode(ItemIdentifier("nxt_rndm_sngs", v), m) = ItemOf("nxt_rndm_sngs", v, 0, "", "", m)
        BY ChangedItem
    <2>. QED BY <1>3, <1>8, <2>1
<1>11. \A i \in DOMAIN Initials : Good(ItemIdentifier("rtst_ntl", Initials[i].name))
    BY <1>2, <1>3
<1>12. \A p \in DOMAIN Playlists : Good(ItemIdentifier("pl", p))
    BY <1>2, <1>3
<1>13. ASSUME NEW n, NEW v, NEW g,
              \/ n = "gnr_rtsts" /\ g \in Genres
              \/ n = "gnr_lbus"
              \/ n \in {"gnr_rtst", "gnr_rtst_lbms"} /\ v \in DOMAIN TopSongs /\ Len(ArtistGenreAlbums(v, g)) > 0
       PROVE  Good(InGenre(ItemIdentifier(n, v), g))
    <2> DEFINE e == ItemOf(n, v, 0, g, "", Yes)
    <2>1. e.n = n /\ e.v = v /\ e.g = g /\ e.o = 0
        BY DEF ItemOf
    <2> HIDE DEF e
    <2>2. n \in {"gnr_rtst", "gnr_rtst_lbms"} => 0 < Len(ArtistGenreAlbums(v, g))
        BY <1>13
    <2>3. Good(e)
        BY <1>13, <2>1, <2>2 DEF Good
    <2>4. InGenre(ItemIdentifier(n, v), g) = e
        BY ChangedItem DEF e
    <2>. QED BY <2>3, <2>4
<1>14. \A g \in Genres : \A v : Good(InGenre(ItemIdentifier("gnr_rtsts", v), g))
    BY <1>13
<1>15. \A v, g : Good(InGenre(ItemIdentifier("gnr_lbus", v), g))
    BY <1>13
<1>16. ASSUME NEW x \in DOMAIN TopSongs, NEW g, Len(ArtistGenreAlbums(x, g)) > 0
       PROVE  Good(InGenre(ItemIdentifier("gnr_rtst", x), g)) /\ Good(InGenre(ItemIdentifier("gnr_rtst_lbms", x), g))
    BY <1>13, <1>16
<1>. QED BY <1>1, <1>4, <1>5, <1>6, <1>7, <1>9, <1>10, <1>11, <1>12, <1>14, <1>15, <1>16

LEMMA FineEach ==
    ASSUME NEW S, NEW values \in Seq(S), NEW n, \A v \in S : Good(ItemIdentifier(n, v))
    PROVE  Fine(Each(n, values))
<1>1. IsList(values) /\ DOMAIN values = 1..Len(values) /\ \A i \in DOMAIN values : values[i] \in S
    BY SeqIsList, LenProperties, ElementOfSeq
<1>2. IsList(Each(n, values))
    BY <1>1, EachOf
<1>3. \A e \in ToSet(Each(n, values)) : \E i \in DOMAIN values : e = ItemIdentifier(n, values[i])
    BY DEF Each, ToSet
<1>. QED BY <1>1, <1>2, <1>3 DEF Fine

LEMMA FineEmpty == Fine(<<>>)
<1>1. \A e : e \notin ToSet(<<>>)
    BY EmptyList, ListIsSeq DEF ToSet
<1>. QED BY <1>1, EmptyList DEF Fine

LEMMA FineOne ==
    ASSUME NEW x, Good(x) PROVE Fine(<<x>>)
BY One DEF Fine

LEMMA FineJoined ==
    ASSUME NEW s, Fine(s), NEW t, Fine(t) PROVE Fine(s \o t)
<1>1. IsList(s \o t) /\ \A e \in ToSet(s \o t) : e \in ToSet(s) \/ e \in ToSet(t)
    BY Joined DEF Fine
<1>. QED BY <1>1 DEF Fine

LEMMA FineTwo ==
    ASSUME NEW x, NEW y, Good(x), Good(y) PROVE Fine(<<x, y>>)
<1>1. <<x, y>> \in Seq({x, y}) /\ Len(<<x, y>>) = 2 /\ <<x, y>>[1] = x /\ <<x, y>>[2] = y
    OBVIOUS
<1>2. DOMAIN <<x, y>> = 1..2
    BY <1>1, LenProperties
<1>3. \A i \in DOMAIN <<x, y>> : i = 1 \/ i = 2
    BY <1>2
<1>4. \A i \in DOMAIN <<x, y>> : <<x, y>>[i] = x \/ <<x, y>>[i] = y
    BY <1>1, <1>3, Zenon
<1>5. \A e \in ToSet(<<x, y>>) : Good(e)
    BY <1>4, Zenon DEF ToSet
<1>. QED BY <1>1, <1>5, SeqIsList, Zenon DEF Fine

LEMMA GoodNext ==
    ASSUME NEW id, Known(id), Good(id), NEW k \in Nat,
           id.n \in {"gnr_rtst", "gnr_rtst_lbms"} => k < Len(ArtistGenreAlbums(id.v, id.g))
    PROVE  Good(At(id, k)) /\ Fine(<<At(id, k)>>)
<1>1. At(id, k) = ItemOf(id.n, id.v, k, id.g, id.ap, id.sntr)
    BY DEF Known, IsItemRecord, ItemOf, At
<1> DEFINE e == At(id, k)
<1>2. e.n = id.n /\ e.v = id.v /\ e.g = id.g /\ e.o = k
    BY <1>1 DEF ItemOf
<1> HIDE DEF e
<1>3. Good(e)
    BY <1>2 DEF Good
<1>. QED BY <1>3, FineOne DEF e

-----------------------------------------------------------------------------
(* The types of the lists *)

LEMMA Picked ==
    ASSUME NEW S, NEW list \in Seq(S), NEW places, places \subseteq DOMAIN list
    PROVE  /\ AtPlaces(list, places) \in Seq(S)
           /\ ToSet(AtPlaces(list, places)) = {list[i] : i \in places}
           /\ places # {} => Len(AtPlaces(list, places)) > 0
<1> DEFINE s == AtPlaces(list, places)
           m == Cardinality(places)
<1>1. PICK place :
        /\ place \in [1..m -> places] /\ m \in Nat
        /\ s \in Seq(S) /\ Len(s) = m
        /\ \A n \in 1..m : s[n] = list[place[n]]
        /\ \A i \in places : \E n \in 1..m : place[n] = i
    BY Chosen DEF ChosenAt
<1> HIDE DEF s, m
<1>2. DOMAIN s = 1..m
    BY <1>1, LenProperties
<1>3. ToSet(s) = {list[i] : i \in places}
    <2>1. \A n \in DOMAIN s : \E i \in places : s[n] = list[i]
        BY <1>1, <1>2
    <2>2. \A i \in places : \E n \in DOMAIN s : s[n] = list[i]
        BY <1>1, <1>2
    <2>. QED BY <2>1, <2>2 DEF ToSet
<1>4. places # {} => m > 0
    BY <1>1
<1>. QED BY <1>1, <1>3, <1>4 DEF s

LEMMA PartOf ==
    ASSUME NEW S, NEW s \in Seq(S), NEW k \in Nat PROVE Slice(s, k) \in Seq(S)
<1> DEFINE end == IF Len(s) < k + PageSize THEN Len(s) ELSE k + PageSize
<1>1. Len(s) \in Nat /\ \A i \in 1..Len(s) : s[i] \in S
    BY LenProperties, ElementOfSeq
<1>2. k + 1 \in Int /\ end \in Int /\ end <= Len(s)
    BY <1>1, LibraryAssumption
<1> HIDE DEF end
<1>3. \A i \in k + 1..end : i \in 1..Len(s)
    BY <1>1, <1>2
<1>4. \A i \in k + 1..end : s[i] \in S
    BY <1>1, <1>3
<1>5. SubSeq(s, k + 1, end) \in Seq(S)
    BY <1>2, <1>4, SubSeqProperties
<1>. QED BY <1>5 DEF Slice, end

LEMMA GenreLists ==
    ASSUME NEW g
    PROVE  /\ GenreAlbums(g) \in Seq(DOMAIN AlbumOf)
           /\ \A x : ArtistGenreAlbums(x, g) \in Seq(DOMAIN AlbumOf)
           /\ GenreArtists(g) \in Seq(DOMAIN TopSongs)
           /\ \A x \in ToSet(GenreArtists(g)) : Len(ArtistGenreAlbums(x, g)) > 0
           /\ g \in Genres => Len(GenreArtists(g)) > 0
<1> DEFINE inGenre == {i \in DOMAIN Albums : AlbumOf[Albums[i]].genre = g}
           albums == GenreAlbums(g)
           of(x) == {i \in DOMAIN albums : Named(x, AlbumOf[albums[i]].artist)}
           places == {i \in DOMAIN Artists : \E a \in ToSet(albums) : AlbumOf[a].artist = Artists[i]}
<1>1. albums \in Seq(DOMAIN AlbumOf) /\ ToSet(albums) = {Albums[i] : i \in inGenre}
    <2>1. inGenre \subseteq DOMAIN Albums /\ Albums \in Seq(DOMAIN AlbumOf)
        BY LibraryAssumption
    <2>2. albums = AtPlaces(Albums, inGenre)
        BY DEF GenreAlbums
    <2> HIDE DEF inGenre, albums
    <2>. QED BY <2>1, <2>2, Picked
<1> HIDE DEF albums
<1>2. ASSUME NEW x
      PROVE  ArtistGenreAlbums(x, g) \in Seq(DOMAIN AlbumOf)
             /\ (of(x) # {} => Len(ArtistGenreAlbums(x, g)) > 0)
    <2>1. ArtistGenreAlbums(x, g) = AtPlaces(albums, of(x)) /\ of(x) \subseteq DOMAIN albums
        BY DEF ArtistGenreAlbums, albums
    <2> HIDE DEF of
    <2>. QED BY <1>1, <2>1, Picked
<1>3. /\ GenreArtists(g) \in Seq(DOMAIN TopSongs) /\ ToSet(GenreArtists(g)) = {Artists[i] : i \in places}
      /\ places # {} => Len(GenreArtists(g)) > 0
    <2>1. GenreArtists(g) = AtPlaces(Artists, places) /\ places \subseteq DOMAIN Artists
        BY DEF GenreArtists, albums
    <2>2. Artists \in Seq(DOMAIN TopSongs)
        BY ReferencesAssumption
    <2> HIDE DEF places
    <2>. QED BY <2>1, <2>2, Picked
<1>4. ASSUME NEW x \in ToSet(GenreArtists(g)) PROVE of(x) # {}
    <2>1. PICK a \in ToSet(albums) : AlbumOf[a].artist = x
        BY <1>3
    <2>. QED BY <2>1 DEF ToSet, Named
<1>5. ASSUME g \in Genres PROVE places # {}
    <2>1. PICK a \in ToSet(Albums) : AlbumOf[a].genre = g
        BY <1>5 DEF Genres
    <2>2. a \in ToSet(albums)
        BY <1>1, <2>1 DEF ToSet
    <2>3. PICK i \in DOMAIN Artists : Artists[i] = AlbumOf[a].artist
        BY <2>1, ReferencesAssumption DEF ToSet
    <2>4. i \in places
        BY <2>2, <2>3
    <2>. QED BY <2>4
<1>. QED BY <1>1, <1>2, <1>3, <1>4, <1>5 DEF albums

LEMMA ArtistAlbumsType == \A x : ArtistAlbums(x) \in Seq(DOMAIN AlbumOf)
<1> SUFFICES ASSUME NEW x PROVE ArtistAlbums(x) \in Seq(DOMAIN AlbumOf)
    OBVIOUS
<1> DEFINE places == {i \in DOMAIN Albums : AlbumOf[Albums[i]].artist = x}
<1>1. places \subseteq DOMAIN Albums /\ Albums \in Seq(DOMAIN AlbumOf) /\ ArtistAlbums(x) = AtPlaces(Albums, places)
    BY LibraryAssumption DEF ArtistAlbums
<1> HIDE DEF places
<1>. QED BY <1>1, Picked

\* A finite set in some order.
LEMMA InOrderOf ==
    ASSUME NEW S, IsFiniteSet(S) PROVE SetToSeq(S) \in Seq(S) /\ (S # {} => SetToSeq(S) # <<>>)
<1>1. Cardinality(S) \in Nat /\ ExistsBijection(1..Cardinality(S), S)
    BY FS_CardinalityType
<1>2. PICK f : f \in [1..Cardinality(S) -> S] /\ IsInjective(f)
    BY <1>1 DEF ExistsBijection, Bijection, Injection
<1>3. SetToSeq(S) \in [1..Cardinality(S) -> S]
    BY <1>2 DEF SetToSeq
<1>4. SetToSeq(S) \in Seq(S)
    BY <1>1, <1>3
<1>5. S # {} => SetToSeq(S) # <<>>
    <2> SUFFICES ASSUME S # {}, SetToSeq(S) = <<>> PROVE FALSE
        OBVIOUS
    <2>1. Cardinality(S) # 0
        BY FS_EmptySet
    <2>2. DOMAIN SetToSeq(S) = 1..Cardinality(S) /\ DOMAIN SetToSeq(S) = {}
        BY <1>3
    <2>. QED BY <1>1, <2>1, <2>2
<1>. QED BY <1>4, <1>5

LEMMA FiniteGenres == IsFiniteSet(Genres)
<1> DEFINE f == [i \in DOMAIN Albums |-> AlbumOf[Albums[i]].genre]
<1>1. DOMAIN Albums = 1..Len(Albums) /\ Len(Albums) \in Nat
    BY LibraryAssumption, LenProperties
<1>2. IsFiniteSet(DOMAIN Albums)
    BY <1>1, FS_Interval
<1>3. f \in Surjection(DOMAIN Albums, Genres)
    BY DEF Surjection, Genres, ToSet
<1>. QED BY <1>2, <1>3, FS_Surjection

LEMMA SortedSongs ==
    ASSUME NEW a \in DOMAIN AlbumOf
    PROVE  /\ get_album_tracks[a] \in Seq(DOMAIN SongOf)
           /\ ToSet(get_album_tracks[a]) = ToSet(AlbumOf[a].songs)
           /\ \A path : Fine(_load_album_tracks(a, path))
<1> DEFINE songs == AlbumOf[a].songs
           sorted == get_album_tracks[a]
<1>1. songs \in Seq(DOMAIN SongOf) /\ sorted = sort_song_list(songs)
    BY ReferencesAssumption DEF get_album_tracks
<1> HIDE DEF songs, sorted
<1>2. PICK place :
        /\ place \in [DOMAIN songs -> DOMAIN songs]
        /\ sort_song_list(songs) \in Seq(DOMAIN SongOf) /\ Len(sort_song_list(songs)) = Len(songs)
        /\ \A n \in DOMAIN songs : sort_song_list(songs)[n] = songs[place[n]]
        /\ \A m, n \in DOMAIN songs : m < n => Precedes(songs, place[m], place[n])
        /\ \A i \in DOMAIN songs : \E n \in DOMAIN songs : place[n] = i
    BY <1>1, SortsSongs, Zenon DEF SortedAt
<1>3. DOMAIN sorted = DOMAIN songs
    BY <1>1, <1>2, LenProperties
<1>4. ToSet(sorted) = ToSet(songs)
    <2>1. \A n \in DOMAIN sorted : \E i \in DOMAIN songs : sorted[n] = songs[i]
        BY <1>1, <1>2, <1>3
    <2>2. \A i \in DOMAIN songs : \E n \in DOMAIN sorted : sorted[n] = songs[i]
        BY <1>1, <1>2, <1>3
    <2>. QED BY <2>1, <2>2 DEF ToSet
<1>5. ASSUME NEW path PROVE Fine(_load_album_tracks(a, path))
    <2> DEFINE places == {i \in DOMAIN sorted : path = "" \/ SongOf[sorted[i]].dir = path}
    <2>1. _load_album_tracks(a, path) = Each("trk", AtPlaces(sorted, places)) /\ places \subseteq DOMAIN sorted
        BY DEF _load_album_tracks, Tracks, sorted
    <2> HIDE DEF places
    <2>2. AtPlaces(sorted, places) \in Seq(DOMAIN SongOf)
        BY <1>1, <1>2, <2>1, Picked
    <2>3. \A s \in DOMAIN SongOf : Good(ItemIdentifier("trk", s))
        BY GoodItems
    <2>. QED BY <2>1, <2>2, <2>3, FineEach
<1>. QED BY <1>1, <1>2, <1>4, <1>5 DEF sorted, songs

-----------------------------------------------------------------------------
(* The answers *)

LEMMA FineNext ==
    ASSUME NEW id, Known(id), Good(id), id.n \notin {"gnr_rtst", "gnr_rtst_lbms"},
           NEW next \in {<<>>, <<At(id, id.o + PageSize)>>}
    PROVE  Fine(next)
<1>1. id.o + PageSize \in Nat
    BY LibraryAssumption DEF Known
<1>. QED BY <1>1, GoodNext, FineEmpty

LEMMA FineSongs ==
    ASSUME NEW songs \in Seq(DOMAIN SongOf), NEW asEntry
    PROVE  Fine(SongEntries(songs, asEntry)) /\ Fine(Tracks(songs))
<1>1. \A n \in {"trk", "sngntr_n", "sngntr_s"} : \A s \in DOMAIN SongOf : Good(ItemIdentifier(n, s))
    BY GoodItems
<1>2. \A n \in {"trk", "sngntr_n", "sngntr_s"} : Fine(Each(n, songs))
    BY <1>1, FineEach
<1>. QED BY <1>2 DEF SongEntries, Tracks

LEMMA FineAlbums ==
    ASSUME NEW albums \in Seq(DOMAIN AlbumOf)
    PROVE  Fine(AlbumEntries(albums)) /\ Fine(_load_albums_by_type(albums)) /\ Fine(Each("sprs_lbm", albums))
<1>1. \A n \in {"lbm", "sprs_lbm"} : \A a \in DOMAIN AlbumOf : Good(ItemIdentifier(n, a))
    BY GoodItems
<1>2. \A n \in {"lbm", "sprs_lbm"} : Fine(Each(n, albums))
    BY <1>1, FineEach
<1>. QED BY <1>2 DEF AlbumEntries, _load_albums_by_type

LEMMA FineArtists ==
    ASSUME NEW artists \in Seq(DOMAIN TopSongs) PROVE Fine(ArtistEntries(artists))
<1>1. \A x \in DOMAIN TopSongs : Good(ItemIdentifier("rtst", x))
    BY GoodItems
<1>. QED BY <1>1, FineEach DEF ArtistEntries

LEMMA FineTags == ASSUME NEW tags \in Seq(TagNames) PROVE Fine(Tags(tags))
<1>1. \A t : Good(ItemIdentifier("tag", t))
    BY GoodItems DEF Tag
<1>. QED BY <1>1, FineEach DEF Tags

LEMMA FineRandom ==
    ASSUME NEW m, NEW answer \in _get_random_songs(m) PROVE Fine(answer)
<1> DEFINE x == InMode(ItemIdentifier("nxt_rndm_sngs", "some_random_song"), m)
<1>1. PICK pick \in RandomPicks.songs : answer = SongEntries(pick, m) \o <<x>>
    BY DEF _get_random_songs
<1>2. Good(x)
    BY GoodItems
<1> HIDE DEF x
<1>3. Fine(SongEntries(pick, m)) /\ Fine(<<x>>)
    BY <1>2, FineOne, FineSongs, LibraryAssumption
<1>. QED BY <1>1, <1>3, FineJoined

LEMMA FineLists ==
    /\ Fine(_create_list_of_genres) /\ Fine(_get_list_of_artists) /\ Fine(_create_list_of_artist_initials)
    /\ Fine(_create_list_of_playlist) /\ Fine(_create_list_of_internet_radio)
<1>1. Fine(_create_list_of_genres)
    <2>1. SetToSeq(Genres) \in Seq(Genres)
        BY FiniteGenres, InOrderOf
    <2>2. \A g \in Genres : Good(ItemIdentifier("gnr", g))
        BY GoodItems
    <2>. QED BY <2>1, <2>2, FineEach DEF _create_list_of_genres
<1>2. Fine(_get_list_of_artists)
    BY FineArtists, ReferencesAssumption DEF _get_list_of_artists
<1>3. Fine(_create_list_of_artist_initials)
    <2>1. DOMAIN Initials = 1..Len(Initials) /\ Len(Initials) \in Nat
        BY ReferencesAssumption, LenProperties
    <2>2. \A i \in DOMAIN Initials : Good(ItemIdentifier("rtst_ntl", Initials[i].name))
        BY GoodItems
    <2> DEFINE list == [i \in DOMAIN Initials |-> ItemIdentifier("rtst_ntl", Initials[i].name)]
    <2>3. \A e \in ToSet(list) : Good(e)
        BY <2>2 DEF ToSet
    <2>4. list = [i \in 1..Len(Initials) |-> list[i]]
        BY <2>1
    <2> HIDE DEF list
    <2>5. IsList(list)
        BY <2>1, <2>4, FunctionIsList
    <2>. QED BY <2>3, <2>5 DEF Fine, _create_list_of_artist_initials, list
<1>4. Fine(_create_list_of_playlist)
    <2>1. SetToSeq(DOMAIN Playlists) \in Seq(DOMAIN Playlists)
        BY ReferencesAssumption, InOrderOf
    <2>2. \A p \in DOMAIN Playlists : Good(ItemIdentifier("pl", p))
        BY GoodItems
    <2>. QED BY <2>1, <2>2, FineEach DEF _create_list_of_playlist
<1>5. Fine(_create_list_of_internet_radio)
    <2>1. \A v \in ToSet(Stations) : Good(ItemIdentifier("i_rd", v))
        BY GoodItems
    <2>. QED BY ReferencesAssumption, <2>1, FineEach DEF _create_list_of_internet_radio
<1>. QED BY <1>1, <1>2, <1>3, <1>4, <1>5

LEMMA FineTagAnswers ==
    ASSUME NEW id, Known(id), Good(id), id.n = "tag", NEW answer \in TagHandler(id) PROVE Fine(answer)
<1>1. id.v \in TagNames /\ id.o \in Nat
    BY DEF Known
<1>2. \A next \in {<<>>, <<At(id, id.o + PageSize)>>} : Fine(next)
    BY FineNext
<1>3. CASE id.v \in {"glbms", "grtsts", "gsngs"}
    <2>1. PICK tags \in Seq(TagNames) : answer = Tags(tags)
        <3>1. /\ <<"n", "rp", "hr", "mp", "r", "fav">> \in Seq(TagNames)
              /\ <<"a_all", "a_ndx", "fav_rtsts">> \in Seq(TagNames)
              /\ <<"rs", "rsl", "fs", "fsl">> \in Seq(TagNames)
            BY DEF TagNames
        <3>2. answer \in {_handler_tag_group_albums, _handler_tag_group_artists, _handler_tag_group_songs}
            BY <1>3 DEF TagHandler
        <3>. QED BY <3>1, <3>2 DEF _handler_tag_group_albums, _handler_tag_group_artists, _handler_tag_group_songs
    <2>. QED BY <2>1, FineTags
<1>4. CASE id.v \in {"n", "rp", "hr", "mp", "fav"}
    <2>1. answer = _load_albums_by_type(Slice(Ordered[id.v], id.o)) \o NextIfFull(Ordered[id.v], id)
        BY <1>4 DEF TagHandler, __handler_tag_type
    <2>2. Slice(Ordered[id.v], id.o) \in Seq(DOMAIN AlbumOf)
        BY <1>1, <1>4, PartOf, LibraryAssumption
    <2>3. Fine(NextIfFull(Ordered[id.v], id))
        BY <1>2 DEF NextIfFull
    <2>. QED BY <2>1, <2>2, <2>3, FineAlbums, FineJoined
<1>5. CASE id.v = "r"
    <2>1. answer \in _handler_tag_random(id)
        BY <1>5 DEF TagHandler
    <2>2. PICK pick \in RandomPicks.albums :
            answer = _load_albums_by_type(pick) \o IF Len(pick) = PageSize THEN <<At(id, id.o + PageSize)>> ELSE <<>>
        BY <2>1 DEF _handler_tag_random
    <2>3. Fine(_load_albums_by_type(pick))
        BY FineAlbums, LibraryAssumption
    <2>4. PICK next \in {<<>>, <<At(id, id.o + PageSize)>>} : answer = _load_albums_by_type(pick) \o next
        BY <2>2, Zenon
    <2>. QED BY <1>2, <2>3, <2>4, FineJoined
<1>6. CASE id.v \in {"rs", "rsl"}
    <2>1. \E m : answer \in _get_random_songs(m)
        BY <1>6 DEF TagHandler
    <2>. QED BY <2>1, FineRandom
<1>7. CASE id.v \in {"fs", "fsl"}
    <2>1. \E m : answer = _get_favourite_songs(id, m)
        BY <1>7 DEF TagHandler
    <2>2. PICK m : answer = SongEntries(Slice(Starred.songs, id.o), m) \o NextIfMore(Starred.songs, id, Tag("fsl"))
        BY <2>1 DEF _get_favourite_songs
    <2>3. Fine(SongEntries(Slice(Starred.songs, id.o), m))
        BY <1>1, PartOf, FineSongs, LibraryAssumption
    <2>4. Fine(NextIfMore(Starred.songs, id, Tag("fsl")))
        <3>1. Good(At(Tag("fsl"), id.o + PageSize))
            BY GoodItems
        <3>. QED BY <3>1, FineOne, FineEmpty DEF NextIfMore
    <2>. QED BY <2>2, <2>3, <2>4, FineJoined
<1>8. CASE id.v = "fav_rtsts"
    <2>1. answer = ArtistEntries(Slice(Starred.artists, id.o)) \o NextIfMore(Starred.artists, id, id)
        BY <1>8 DEF TagHandler, _handler_tag_artists_favourite
    <2>2. Fine(ArtistEntries(Slice(Starred.artists, id.o)))
        BY <1>1, PartOf, FineArtists, LibraryAssumption
    <2>3. Fine(NextIfMore(Starred.artists, id, id))
        BY <1>2 DEF NextIfMore
    <2>. QED BY <2>1, <2>2, <2>3, FineJoined
<1>9. CASE id.v \in {"g", "a_all", "a_ndx", "pl", "ir"}
    <2>1. answer \in {_create_list_of_genres, _get_list_of_artists, _create_list_of_artist_initials,
                      _create_list_of_playlist, _create_list_of_internet_radio}
        BY <1>9 DEF TagHandler
    <2>. QED BY <2>1, FineLists
<1>. QED BY <1>1, <1>3, <1>4, <1>5, <1>6, <1>7, <1>8, <1>9 DEF TagNames

LEMMA FineExtras ==
    /\ \A x \in DOMAIN TopSongs : Fine(_artist_to_top_songs_entry(x)) /\ Fine(_similar_artists_for_artist(x))
    /\ \A x \in DOMAIN SimilarSongs : Fine(_radio_entry(x))
<1>1. ASSUME NEW x \in DOMAIN TopSongs
      PROVE  Fine(_artist_to_top_songs_entry(x)) /\ Fine(_similar_artists_for_artist(x))
    <2>1. TopSongs[x] # <<>> => Good(ItemIdentifier("rtsttp", x)) /\ Good(ItemIdentifier("rtsttp_sl", x))
        BY GoodItems
    <2>2. Similar[x] # <<>> => Good(ItemIdentifier("rtst_smlr", x))
        BY GoodItems
    <2>. QED BY <2>1, <2>2, FineEmpty, FineOne, FineTwo
         DEF IfAny, _artist_to_top_songs_entry, _similar_artists_for_artist
<1>2. ASSUME NEW x \in DOMAIN SimilarSongs PROVE Fine(_radio_entry(x))
    <2>1. SimilarSongs[x] # <<>> => Good(ItemIdentifier("rd", x)) /\ Good(ItemIdentifier("rd_sl", x))
        BY GoodItems
    <2>. QED BY <2>1, FineEmpty, FineTwo DEF IfAny, _radio_entry
<1>. QED BY <1>1, <1>2

LEMMA OneOf == ASSUME NEW S, NEW x \in S PROVE <<x>> \in Seq(S)
OBVIOUS

LEMMA VersionPaths ==
    ASSUME NEW songs \in Seq(DOMAIN SongOf)
    PROVE  /\ IsList(Versions(songs))
           /\ ToSet(Versions(songs)) = {SongOf[s].dir : s \in ToSet(songs)}
<1> DEFINE dirs == [i \in DOMAIN songs |-> SongOf[songs[i]].dir]
           places == {i \in DOMAIN songs : \A j \in 1..i - 1 : dirs[j] # dirs[i]}
           paths == AtPlaces(dirs, places)
           D == {SongOf[s].dir : s \in ToSet(songs)}
<1>1. DOMAIN songs = 1..Len(songs) /\ Len(songs) \in Nat
    BY LenProperties
<1>2. dirs \in Seq(D) /\ DOMAIN dirs = DOMAIN songs /\ places \subseteq DOMAIN dirs
    <2>1. \A i \in 1..Len(songs) : SongOf[songs[i]].dir \in D
        BY <1>1 DEF ToSet
    <2>2. dirs = [i \in 1..Len(songs) |-> SongOf[songs[i]].dir]
        BY <1>1
    <2>3. dirs \in Seq(D)
        BY <1>1, <2>1, <2>2, IsASeq
    <2>. QED BY <2>3
<1>3. Versions(songs) = paths
    BY DEF Versions
<1>5. ASSUME NEW i \in DOMAIN songs PROVE \E k \in places : dirs[k] = dirs[i]
    <2> DEFINE T == {j \in DOMAIN songs : dirs[j] = dirs[i]}
    <2>1. T \subseteq Nat /\ T # {}
        BY <1>1
    <2>2. PICK k \in T : \A j \in T : k <= j
        BY <2>1, Least
    <2>3. \A j \in 1..k - 1 : j \in DOMAIN songs /\ ~(k <= j)
        BY <1>1
    <2>4. \A j \in 1..k - 1 : dirs[j] # dirs[k]
        BY <2>2, <2>3
    <2>. QED BY <2>2, <2>4
<1>6. \A d \in D : \E k \in places : dirs[k] = d
    <2> SUFFICES ASSUME NEW d \in D PROVE \E k \in places : dirs[k] = d
        OBVIOUS
    <2>1. PICK i \in DOMAIN songs : d = dirs[i]
        BY DEF ToSet
    <2>. QED BY <1>5, <2>1
<1>7. \A k \in DOMAIN dirs : dirs[k] \in D
    BY <1>2 DEF ToSet
<1> HIDE DEF dirs, places, D
<1>8. paths \in Seq(D) /\ ToSet(paths) = {dirs[i] : i \in places}
    BY <1>2, Picked
<1> HIDE DEF paths
<1>9. ToSet(paths) = D
    BY <1>2, <1>6, <1>7, <1>8
<1>10. IsList(paths)
    BY <1>8, SeqIsList
<1>. QED BY <1>3, <1>9, <1>10 DEF D

LEMMA FineAlbumPage ==
    ASSUME NEW id, id.v \in DOMAIN AlbumOf PROVE Fine(_handler_element_album(id))
<1> DEFINE paths == Versions(AlbumOf[id.v].songs)
           versions == [i \in DOMAIN paths |-> VersionEntry(id.v, paths[i])]
<1>1. IsList(paths)
    BY VersionPaths, ReferencesAssumption
<1> HIDE DEF paths
<1>2. \A path : Good(VersionEntry(id.v, path))
    BY GoodItems
<1>3. DOMAIN paths = 1..Len(paths) /\ Len(paths) \in Nat
    BY <1>1, ListIsSeq DEF IsList
<1>4. versions = [i \in 1..Len(paths) |-> versions[i]] /\ \A e \in ToSet(versions) : Good(e)
    BY <1>2, <1>3 DEF ToSet
<1> HIDE DEF versions
<1>5. Fine(versions)
    BY <1>3, <1>4, FunctionIsList DEF Fine
<1>6. Fine(_load_album_tracks(id.v, id.ap))
    BY SortedSongs
<1>. QED BY <1>5, <1>6 DEF _handler_element_album, versions, paths

LEMMA FineGenreAnswers ==
    ASSUME NEW id, Known(id), Good(id), id.n \in {"gnr", "gnr_rtsts", "gnr_lbus", "gnr_rtst", "gnr_rtst_lbms"},
           NEW answer \in ElementHandler(id)
    PROVE  Fine(answer) /\ (id.n \in {"gnr", "gnr_rtsts", "gnr_rtst_lbms"} => answer # <<>>)
<1>1. id.o \in Nat /\ PageSize \in Nat \ {0}
    BY LibraryAssumption DEF Known
<1>2. CASE id.n = "gnr"
    <2> DEFINE x == InGenre(ItemIdentifier("gnr_rtsts", id.v), id.v)
               y == InGenre(ItemIdentifier("gnr_lbus", id.v), id.v)
    <2>1. answer = <<x, y>>
        BY <1>2 DEF ElementHandler, _handler_element_genre
    <2>2. Good(x) /\ Good(y)
        <3>1. id.v \in Genres
            BY <1>2 DEF Good
        <3>. QED BY <3>1, GoodItems
    <2> HIDE DEF x, y
    <2>3. <<x, y>> # <<>>
        OBVIOUS
    <2>. QED BY <2>1, <2>2, <2>3, FineTwo
<1>3. CASE id.n = "gnr_rtsts"
    <2> DEFINE artists == GenreArtists(id.g)
               entries == [i \in DOMAIN artists |-> InGenre(ItemIdentifier("gnr_rtst", artists[i]), id.g)]
    <2>1. answer = entries
        BY <1>3 DEF ElementHandler, _handler_element_genre_artists
    <2>2. /\ artists \in Seq(DOMAIN TopSongs) /\ Len(artists) > 0
          /\ \A x \in ToSet(artists) : Len(ArtistGenreAlbums(x, id.g)) > 0
        BY <1>3, GenreLists DEF Good
    <2> HIDE DEF artists
    <2>3. DOMAIN artists = 1..Len(artists) /\ Len(artists) \in Nat /\ \A i \in DOMAIN artists : artists[i] \in DOMAIN TopSongs
        BY <2>2, LenProperties, ElementOfSeq
    <2>4. \A i \in DOMAIN artists : Good(InGenre(ItemIdentifier("gnr_rtst", artists[i]), id.g))
        BY <2>2, <2>3, GoodItems DEF ToSet
    <2>5. entries = [i \in 1..Len(artists) |-> entries[i]] /\ \A e \in ToSet(entries) : Good(e)
        BY <2>3, <2>4 DEF ToSet
    <2> HIDE DEF entries
    <2>6. IsList(entries) /\ Len(entries) = Len(artists)
        BY <2>3, <2>5, FunctionIsList
    <2>7. entries # <<>>
        BY <2>2, <2>3, <2>6, EmptyList
    <2>. QED BY <2>1, <2>5, <2>6, <2>7 DEF Fine
<1>4. CASE id.n = "gnr_lbus"
    <2>1. answer = AlbumEntries(Slice(GenreAlbums(id.g), id.o)) \o NextIfFull(GenreAlbums(id.g), id)
        BY <1>4 DEF ElementHandler, _handler_element_genre_album_list
    <2>2. Slice(GenreAlbums(id.g), id.o) \in Seq(DOMAIN AlbumOf)
        BY <1>1, GenreLists, PartOf
    <2>3. Fine(NextIfFull(GenreAlbums(id.g), id))
        BY <1>4, FineNext DEF NextIfFull
    <2>. QED BY <1>4, <2>1, <2>2, <2>3, FineAlbums, FineJoined
<1>5. CASE id.n = "gnr_rtst"
    <2> DEFINE x == InGenre(ItemIdentifier("gnr_rtst_lbms", id.v), id.g)
    <2>1. answer = ArtistEntries(<<id.v>>) \o <<x>>
        BY <1>5 DEF ElementHandler, _handler_element_genre_artist
    <2>2. id.v \in DOMAIN TopSongs /\ Len(ArtistGenreAlbums(id.v, id.g)) > 0
        <3>1. id.v \in DOMAIN TopSongs /\ id.o < Len(ArtistGenreAlbums(id.v, id.g))
            BY <1>5 DEF Good
        <3>2. Len(ArtistGenreAlbums(id.v, id.g)) \in Nat
            BY GenreLists, LenProperties
        <3>. QED BY <1>1, <3>1, <3>2
    <2>3. Good(x)
        BY <2>2, GoodItems
    <2> HIDE DEF x
    <2>4. Fine(ArtistEntries(<<id.v>>)) /\ Fine(<<x>>)
        BY <2>2, <2>3, OneOf, FineArtists, FineOne
    <2>. QED BY <1>5, <2>1, <2>4, FineJoined
<1>6. CASE id.n = "gnr_rtst_lbms"
    <2> DEFINE albums == ArtistGenreAlbums(id.v, id.g)
    <2>1. answer = AlbumEntries(Slice(albums, id.o)) \o NextIfMore(albums, id, id)
        BY <1>6 DEF ElementHandler, _handler_element_genre_artist_albums
    <2>2. albums \in Seq(DOMAIN AlbumOf) /\ Len(albums) \in Nat /\ id.o < Len(albums)
        BY <1>6, GenreLists, LenProperties DEF Good
    <2>3. Len(albums) > id.o + PageSize => Fine(<<At(id, id.o + PageSize)>>)
        <3>1. id.o + PageSize \in Nat
            BY <1>1
        <3>2. Len(albums) > id.o + PageSize => id.o + PageSize < Len(albums)
            BY <1>1, <2>2
        <3>. QED BY <3>1, <3>2, GoodNext
    <2> HIDE DEF albums
    <2>4. Fine(NextIfMore(albums, id, id))
        BY <2>3, FineEmpty DEF NextIfMore
    <2>5. Slice(albums, id.o) \in Seq(DOMAIN AlbumOf) /\ Len(Slice(albums, id.o)) > 0
        <3>1. IsList(albums) /\ id.o \in 0..Len(albums)
            BY <1>1, <2>2, SeqIsList
        <3>2. Len(Slice(albums, id.o)) = PageEnd(albums, id.o) - id.o
            BY <3>1, SliceOf
        <3>3. PageEnd(albums, id.o) - id.o > 0
            BY <1>1, <2>2 DEF PageEnd
        <3>. QED BY <1>1, <2>2, <3>2, <3>3, PartOf
    <2>6. Fine(AlbumEntries(Slice(albums, id.o)))
        BY <2>5, FineAlbums
    <2>7. Len(AlbumEntries(Slice(albums, id.o))) = Len(Slice(albums, id.o))
        BY <2>5, SeqIsList, EachOf DEF AlbumEntries
    <2>8. Len(answer) > 0
        <3>1. /\ IsList(AlbumEntries(Slice(albums, id.o))) /\ IsList(NextIfMore(albums, id, id))
            BY <2>4, <2>6 DEF Fine
        <3>2. Len(answer) = Len(AlbumEntries(Slice(albums, id.o))) + Len(NextIfMore(albums, id, id))
            BY <2>1, <3>1, Joined
        <3>3. Len(NextIfMore(albums, id, id)) \in Nat /\ Len(AlbumEntries(Slice(albums, id.o))) \in Nat
            BY <3>1 DEF IsList
        <3>. QED BY <2>5, <2>7, <3>2, <3>3
    <2>. QED BY <2>1, <2>4, <2>6, <2>8, FineJoined, EmptyList
<1>. QED BY <1>2, <1>3, <1>4, <1>5, <1>6

\* A list which is not empty has entries.
LEMMA EachFull ==
    ASSUME NEW S, NEW values \in Seq(S), values # <<>>
    PROVE  Tracks(values) # <<>> /\ ArtistEntries(values) # <<>> /\ \A m : SongEntries(values, m) # <<>>
<1>1. IsList(values) /\ Len(values) # 0
    BY SeqIsList, EmptySeq
<1>2. \A n : Each(n, values) # <<>>
    BY <1>1, EachOf, EmptyList
<1>. QED BY <1>2 DEF Tracks, ArtistEntries, SongEntries

LEMMA FineMore ==
    ASSUME NEW id, id.n \in {"rtsttp", "rtsttp_sl", "rtst_smlr", "rd", "rd_sl"}, Good(id), NEW answer \in ElementHandler(id)
    PROVE  Fine(answer) /\ answer # <<>>
<1>1. CASE id.n \in {"rtsttp", "rtsttp_sl"}
    <2>1. answer = SongEntries(TopSongs[id.v], TRUE) \/ answer = Tracks(TopSongs[id.v])
        BY <1>1 DEF ElementHandler, _handler_element_artist_top_songs_common
    <2>2. TopSongs[id.v] \in Seq(DOMAIN SongOf) /\ TopSongs[id.v] # <<>>
        BY <1>1, ReferencesAssumption DEF Good
    <2>. QED BY <2>1, <2>2, FineSongs, EachFull
<1>2. CASE id.n = "rtst_smlr"
    <2>1. answer = ArtistEntries(Similar[id.v])
        BY <1>2 DEF ElementHandler, _handler_element_similar_artists
    <2>2. Similar[id.v] \in Seq(DOMAIN TopSongs) /\ Similar[id.v] # <<>>
        BY <1>2, ReferencesAssumption DEF Good
    <2>. QED BY <2>1, <2>2, FineArtists, EachFull
<1>3. CASE id.n \in {"rd", "rd_sl"}
    <2>1. answer = SongEntries(SimilarSongs[id.v], TRUE) \/ answer = Tracks(SimilarSongs[id.v])
        BY <1>3 DEF ElementHandler, _handler_radio, _handler_radio_song_list
    <2>2. SimilarSongs[id.v] \in Seq(DOMAIN SongOf) /\ SimilarSongs[id.v] # <<>>
        BY <1>3, ReferencesAssumption DEF Good
    <2>. QED BY <2>1, <2>2, FineSongs, EachFull
<1>. QED BY <1>1, <1>2, <1>3

LEMMA FineElementAnswers ==
    ASSUME NEW id, Known(id), Good(id), id.n # "tag", ~IsItem(id), NEW answer \in ElementHandler(id)
    PROVE  Fine(answer)
<1>1. id.o \in Nat /\ PageSize \in Nat \ {0}
    BY LibraryAssumption DEF Known
<1>2. CASE id.n \in {"gnr", "gnr_rtsts", "gnr_lbus", "gnr_rtst", "gnr_rtst_lbms"}
    BY <1>2, FineGenreAnswers
<1>3. CASE id.n \in {"rtsttp", "rtsttp_sl", "rtst_smlr", "rd", "rd_sl"}
    BY <1>3, FineMore
<1>4. CASE id.n = "rtst"
    <2>1. answer = <<ItemIdentifier("rtst_lbms", id.v)>> \o _artist_to_top_songs_entry(id.v)
                     \o _similar_artists_for_artist(id.v) \o _radio_entry(id.v)
        BY <1>4 DEF ElementHandler, _handler_element_artist
    <2>2. id.v \in DOMAIN TopSongs /\ id.v \in DOMAIN SimilarSongs
        BY <1>4, ReferencesAssumption DEF Good
    <2>3. Fine(<<ItemIdentifier("rtst_lbms", id.v)>>)
        BY <2>2, GoodItems, FineOne
    <2>. QED BY <2>1, <2>2, <2>3, FineExtras, FineJoined
<1>5. CASE id.n = "sprs_lbm"
    <2> DEFINE x == AlbumOf[id.v].artist
    <2>1. answer = AlbumEntries(<<id.v>>) \o ArtistEntries(<<x>>) \o _artist_to_top_songs_entry(x)
                     \o _similar_artists_for_artist(x) \o _radio_entry(id.v)
        BY <1>5 DEF ElementHandler, _handler_element_navigable_album, _artist_entry_for_album
    <2>2. id.v \in DOMAIN AlbumOf /\ x \in DOMAIN TopSongs /\ id.v \in DOMAIN SimilarSongs
        BY <1>5, ReferencesAssumption DEF Good
    <2> HIDE DEF x
    <2>3. Fine(AlbumEntries(<<id.v>>)) /\ Fine(ArtistEntries(<<x>>))
        BY <2>2, OneOf, FineAlbums, FineArtists
    <2>. QED BY <2>1, <2>2, <2>3, FineExtras, FineJoined
<1>6. CASE id.n = "sngntr_n"
    <2> DEFINE a == SongOf[id.v].album
    <2>1. answer = <<ItemIdentifier("sngntr_s", id.v)>> \o AlbumEntries(<<a>>) \o ArtistEntries(<<AlbumOf[a].artist>>)
        BY <1>6 DEF ElementHandler, _handler_element_song_entry
    <2>2. id.v \in DOMAIN SongOf /\ a \in DOMAIN AlbumOf /\ AlbumOf[a].artist \in DOMAIN TopSongs
        BY <1>6, ReferencesAssumption DEF Good
    <2> HIDE DEF a
    <2>3. Good(ItemIdentifier("sngntr_s", id.v))
        BY <2>2, GoodItems
    <2>4. Fine(<<ItemIdentifier("sngntr_s", id.v)>>) /\ Fine(AlbumEntries(<<a>>)) /\ Fine(ArtistEntries(<<AlbumOf[a].artist>>))
        BY <2>2, <2>3, OneOf, FineOne, FineAlbums, FineArtists
    <2>. QED BY <2>1, <2>4, FineJoined
<1>7. CASE id.n = "sngntr_s"
    <2>1. answer = Tracks(<<id.v>>)
        BY <1>7 DEF ElementHandler, _handler_element_song_entry_song
    <2>2. id.v \in DOMAIN SongOf
        BY <1>7 DEF Good
    <2>. QED BY <2>1, <2>2, OneOf, FineSongs
<1>8. CASE id.n = "lbm"
    <2>1. answer = _handler_element_album(id)
        BY <1>8 DEF ElementHandler
    <2>2. id.v \in DOMAIN AlbumOf
        BY <1>8 DEF Good
    <2>. QED BY <2>1, <2>2, FineAlbumPage
<1>9. CASE id.n = "pl"
    <2>1. answer = Tracks(Playlists[id.v])
        BY <1>9 DEF ElementHandler, _create_list_of_playlist_entries
    <2>2. Playlists[id.v] \in Seq(DOMAIN SongOf)
        BY <1>9, ReferencesAssumption DEF Good
    <2>. QED BY <2>1, <2>2, FineSongs
<1>10. CASE id.n = "nxt_rndm_sngs"
    <2>1. \E m : answer \in _get_random_songs(m)
        BY <1>10 DEF ElementHandler
    <2>. QED BY <2>1, FineRandom
<1>11. CASE id.n = "rtst_ntl"
    <2> DEFINE r == CHOOSE r \in ToSet(Initials) : r.name = id.v
    <2>1. answer = ArtistEntries(r.artists)
        BY <1>11 DEF ElementHandler, _handler_element_artist_initial
    <2>2. PICK i \in DOMAIN Initials : id.v = Initials[i].name
        BY <1>11 DEF Good
    <2>3. Initials[i] \in ToSet(Initials)
        BY DEF ToSet
    <2>4. r \in ToSet(Initials)
        BY <2>2, <2>3
    <2> HIDE DEF r
    <2>5. PICK j \in DOMAIN Initials : r = Initials[j]
        BY <2>4 DEF ToSet
    <2>6. Initials \in Seq([name : STRING, artists : Seq(DOMAIN TopSongs)])
        BY ReferencesAssumption
    <2>7. r \in [name : STRING, artists : Seq(DOMAIN TopSongs)]
        BY <2>5, <2>6, LenProperties, ElementOfSeq
    <2>8. r.artists \in Seq(DOMAIN TopSongs)
        BY <2>7
    <2>. QED BY <2>1, <2>8, FineArtists
<1>12. CASE id.n = "rtst_lbms"
    <2> DEFINE albums == ArtistAlbums(id.v)
               more == Len(albums) > PageSize + id.o
               n == IF more \/ Len(albums) = PageSize THEN PageSize ELSE Len(albums) % PageSize
               last == IF id.o + n > Len(albums) THEN Len(albums) ELSE id.o + n
               next == IF more THEN <<At(id, id.o + PageSize)>> ELSE <<>>
    <2>1. albums \in Seq(DOMAIN AlbumOf) /\ Len(albums) \in Nat /\ \A i \in 1..Len(albums) : albums[i] \in DOMAIN AlbumOf
        BY ArtistAlbumsType, LenProperties, ElementOfSeq
    <2>2. answer = AlbumEntries(SubSeq(albums, id.o + 1, last)) \o next
        BY <1>12 DEF ElementHandler, _handler_element_artist_albums
    <2> HIDE DEF albums
    <2>3. Len(albums) % PageSize \in Nat
        BY <1>1, <2>1
    <2>4. last \in Int /\ id.o + 1 \in Int /\ last <= Len(albums)
        BY <1>1, <2>1, <2>3
    <2>5. next \in {<<>>, <<At(id, id.o + PageSize)>>}
        OBVIOUS
    <2> HIDE DEF more, n, last, next
    <2>6. \A i \in id.o + 1..last : albums[i] \in DOMAIN AlbumOf
        BY <1>1, <2>1, <2>4
    <2>7. SubSeq(albums, id.o + 1, last) \in Seq(DOMAIN AlbumOf)
        BY <2>4, <2>6, SubSeqProperties
    <2>8. Fine(next)
        BY <1>12, <2>5, FineNext
    <2>. QED BY <2>2, <2>7, <2>8, FineAlbums, FineJoined
<1>. QED BY <1>2, <1>3, <1>4, <1>5, <1>6, <1>7, <1>8, <1>9, <1>10, <1>11, <1>12
     DEF Known, IsItem, ElementNames

\* Every answer is a list of entries with something behind them.
LEMMA FineAnswers ==
    ASSUME NEW id, Good(id), NEW answer \in Answers(id),
           \/ Known(id) /\ ~IsItem(id)
           \/ id = Root
           \/ id.v \in DOMAIN Found /\ id = Search(id.v)
    PROVE  Fine(answer)
<1>1. CASE Known(id) /\ ~IsItem(id)
    <2>1. id.n \notin {"root", "search"} /\ id # Root
        <3>1. id.n \notin {"root", "search"}
            BY <1>1 DEF Known, ElementNames
        <3>2. Root.n = "root"
            BY DEF Root, ItemIdentifier
        <3>. QED BY <3>1, <3>2
    <2>2. CASE id.n = "tag"
        <3>1. answer \in TagHandler(id)
            BY <2>1, <2>2 DEF Answers
        <3>. QED BY <1>1, <2>2, <3>1, FineTagAnswers
    <2>3. CASE id.n # "tag"
        <3>1. answer \in ElementHandler(id)
            BY <2>1, <2>3 DEF Answers
        <3>. QED BY <1>1, <2>3, <3>1, FineElementAnswers
    <2>. QED BY <2>2, <2>3
<1>2. CASE id = Root
    <2>1. answer = _show_tags
        <3>1. Root.n = "root"
            BY DEF Root, ItemIdentifier
        <3>. QED BY <1>2, <3>1 DEF Answers
    <2>2. answer = Tags(RootTags) \/ answer = <<>>
        BY <2>1 DEF _show_tags
    <2>. QED BY <2>2, LibraryAssumption, FineTags, FineEmpty
<1>3. CASE id.v \in DOMAIN Found /\ id = Search(id.v)
    <2>1. id.n = "search" /\ id # Root
        <3>1. Search(id.v).n = "search" /\ Root.n = "root"
            BY DEF Search, Root, ItemIdentifier
        <3>. QED BY <1>3, <3>1
    <2>2. answer = SearchAnswer(id.v)
        BY <2>1 DEF Answers
    <2>3. id.v \in {"album", "track", "artist"}
        BY <1>3, LibraryAssumption
    <2>4. Found[id.v] \in Seq(CASE id.v = "album" -> DOMAIN AlbumOf [] id.v = "track" -> DOMAIN SongOf
                                 [] id.v = "artist" -> DOMAIN TopSongs)
        BY <1>3, ReferencesAssumption
    <2>5. CASE id.v = "album"
        <3>1. answer = Each("sprs_lbm", Found[id.v]) /\ Found[id.v] \in Seq(DOMAIN AlbumOf)
            BY <2>2, <2>4, <2>5 DEF SearchAnswer
        <3>. QED BY <3>1, FineAlbums
    <2>6. CASE id.v = "track"
        <3>1. answer = SongEntries(sort_song_list(Found[id.v]), TRUE) /\ Found[id.v] \in Seq(DOMAIN SongOf)
            BY <2>2, <2>4, <2>6 DEF SearchAnswer
        <3>2. sort_song_list(Found[id.v]) \in Seq(DOMAIN SongOf)
            BY <3>1, SortsSongs DEF SortedAt
        <3>. QED BY <3>1, <3>2, FineSongs
    <2>7. CASE id.v = "artist"
        <3>1. answer = ArtistEntries(Found[id.v]) /\ Found[id.v] \in Seq(DOMAIN TopSongs)
            BY <2>2, <2>4, <2>7 DEF SearchAnswer
        <3>. QED BY <3>1, FineArtists
    <2>. QED BY <2>3, <2>5, <2>6, <2>7
<1>. QED BY <1>1, <1>2, <1>3

-----------------------------------------------------------------------------
(* The pages of an album *)

\* A page of tracks: which songs there are, and in what order.
AreTracks(a, path, p) ==
    /\ IsList(p) /\ \A i \in 1..Len(p) : p[i] = ItemIdentifier("trk", p[i].v) /\ p[i].v \in ToSet(AlbumOf[a].songs)
    /\ {e.v : e \in ToSet(p)} = {s \in ToSet(AlbumOf[a].songs) : path = "" \/ SongOf[s].dir = path}
    /\ \A i, j \in 1..Len(p) : i < j => ~Before(p[j].v, p[i].v)

LEMMA TracksOf ==
    ASSUME NEW a \in DOMAIN AlbumOf, NEW path
    PROVE  AreTracks(a, path, _load_album_tracks(a, path))
<1> DEFINE songs == AlbumOf[a].songs
           sorted == sort_song_list(songs)
           places == {i \in DOMAIN sorted : path = "" \/ SongOf[sorted[i]].dir = path}
           chosen == AtPlaces(sorted, places)
           p == Each("trk", chosen)
<1>1. songs \in Seq(DOMAIN SongOf) /\ get_album_tracks[a] = sorted
    BY ReferencesAssumption DEF get_album_tracks
<1>2. _load_album_tracks(a, path) = p
    BY <1>1 DEF _load_album_tracks, Tracks
<1>3. DOMAIN songs = 1..Len(songs) /\ Len(songs) \in Nat /\ \A i \in DOMAIN songs : songs[i] \in DOMAIN SongOf
    BY <1>1, LenProperties, ElementOfSeq
<1> HIDE DEF songs
<1>4. PICK rank : SortedAt(songs, rank)
    BY <1>1, SortsSongs
<1>5. /\ rank \in [DOMAIN songs -> DOMAIN songs] /\ sorted \in Seq(DOMAIN SongOf) /\ Len(sorted) = Len(songs)
      /\ \A n \in DOMAIN songs : sorted[n] = songs[rank[n]]
      /\ \A m, n \in DOMAIN songs : m < n => Precedes(songs, rank[m], rank[n])
      /\ \A i \in DOMAIN songs : \E n \in DOMAIN songs : rank[n] = i
    BY <1>4 DEF SortedAt
<1> HIDE DEF sorted
<1>6. DOMAIN sorted = DOMAIN songs
    BY <1>3, <1>5, LenProperties
<1>7. \A m, n \in DOMAIN sorted : m < n => ~Before(sorted[n], sorted[m])
    <2> SUFFICES ASSUME NEW m \in DOMAIN sorted, NEW n \in DOMAIN sorted, m < n PROVE ~Before(sorted[n], sorted[m])
        OBVIOUS
    <2>1. Precedes(songs, rank[m], rank[n]) /\ rank[m] \in DOMAIN songs /\ rank[n] \in DOMAIN songs
        BY <1>5, <1>6
    <2>2. ~Before(songs[rank[n]], songs[rank[m]])
        BY <1>3, <2>1, BeforeOrder DEF Precedes
    <2>. QED BY <1>5, <1>6, <2>2
<1>8. ToSet(sorted) = ToSet(songs)
    BY <1>1, SortedSongs DEF songs
<1>9. places \subseteq DOMAIN sorted /\ {sorted[i] : i \in places} = {s \in ToSet(sorted) : path = "" \/ SongOf[s].dir = path}
    BY DEF ToSet
<1> HIDE DEF places
<1>10. PICK place : ChosenAt(DOMAIN SongOf, sorted, places, place)
    BY <1>5, <1>9, Chosen
<1>11. /\ place \in [1..Cardinality(places) -> places] /\ Cardinality(places) \in Nat
       /\ chosen \in Seq(DOMAIN SongOf) /\ Len(chosen) = Cardinality(places)
       /\ \A n \in 1..Cardinality(places) : chosen[n] = sorted[place[n]]
       /\ \A m, n \in 1..Cardinality(places) : m < n => place[m] < place[n]
    BY <1>10 DEF ChosenAt
<1>12. ToSet(chosen) = {sorted[i] : i \in places}
    <2>1. sorted \in Seq(DOMAIN SongOf) /\ places \subseteq DOMAIN sorted
        BY <1>5, <1>9
    <2>. QED BY <2>1, Picked
<1> HIDE DEF chosen
<1>13. \A i, j \in 1..Len(chosen) : i < j => ~Before(chosen[j], chosen[i])
    <2> SUFFICES ASSUME NEW i \in 1..Len(chosen), NEW j \in 1..Len(chosen), i < j
                 PROVE  ~Before(chosen[j], chosen[i])
        OBVIOUS
    <2>1. i \in 1..Cardinality(places) /\ j \in 1..Cardinality(places)
        BY <1>11
    <2>2. place[i] < place[j] /\ chosen[i] = sorted[place[i]] /\ chosen[j] = sorted[place[j]]
        BY <1>11, <2>1
    <2>3. place[i] \in DOMAIN sorted /\ place[j] \in DOMAIN sorted
        BY <1>9, <1>11, <2>1
    <2>. QED BY <1>7, <2>2, <2>3
<1>14. /\ IsList(p) /\ Len(p) = Len(chosen)
       /\ \A i \in 1..Len(chosen) : p[i] = ItemIdentifier("trk", chosen[i]) /\ p[i].v = chosen[i]
    <2>1. IsList(chosen)
        BY <1>11, SeqIsList
    <2>2. /\ IsList(p) /\ Len(p) = Len(chosen) /\ \A i \in 1..Len(chosen) : p[i] = ItemIdentifier("trk", chosen[i])
        BY <2>1, EachOf
    <2>3. \A v : ItemIdentifier("trk", v).v = v
        BY DEF ItemIdentifier
    <2>. QED BY <2>2, <2>3
<1> HIDE DEF p
<1>15. DOMAIN p = 1..Len(chosen) /\ DOMAIN chosen = 1..Len(chosen)
    BY <1>11, <1>14, ListIsSeq, LenProperties
<1>16. {e.v : e \in ToSet(p)} = ToSet(chosen)
    <2>1. \A i \in DOMAIN p : p[i].v = chosen[i]
        BY <1>14, <1>15
    <2>. QED BY <1>15, <2>1 DEF ToSet
<1>17. \A i \in 1..Len(chosen) : chosen[i] \in ToSet(songs)
    BY <1>8, <1>9, <1>12, <1>15 DEF ToSet
<1>18. AreTracks(a, path, p)
    BY <1>8, <1>9, <1>12, <1>13, <1>14, <1>16, <1>17 DEF AreTracks, songs
<1>. QED BY <1>2, <1>18

LEMMA TracksInOrder ==
    ASSUME NEW a \in DOMAIN AlbumOf, NEW path, NEW p, AreTracks(a, path, p),
           \A i, j \in 1..Len(p) : SongOf[p[i].v].dir = SongOf[p[j].v].dir
    PROVE  InOrder(p) /\ {TrackNumber(p, i) : i \in DOMAIN p} = DOMAIN p
<1>0. /\ IsList(p) /\ \A i \in 1..Len(p) : p[i].v \in ToSet(AlbumOf[a].songs)
      /\ \A i, j \in 1..Len(p) : i < j => ~Before(p[j].v, p[i].v)
    BY DEF AreTracks
<1>1. Len(p) \in Nat /\ DOMAIN p = 1..Len(p)
    BY <1>0, ListIsSeq DEF IsList
<1>2. ASSUME NEW i \in DOMAIN p PROVE TrackNumber(p, i) = i
    <2> DEFINE Dir(k) == SongOf[p[k].v].dir
               First(k) == (\A j \in k..i : Dir(j) = Dir(i)) /\ (k = 1 \/ Dir(k - 1) # Dir(i))
               first == CHOOSE k \in 1..i : First(k)
    <2>1. i \in Nat /\ i >= 1 /\ i <= Len(p)
        BY <1>1
    <2>2. \A k \in 1..Len(p) : Dir(k) = Dir(i)
        BY <1>1
    <2>3. First(1) /\ 1 \in 1..i
        BY <2>1, <2>2
    <2>4. \A k \in 1..i : First(k) => k = 1
        <3> SUFFICES ASSUME NEW k \in 1..i, First(k), k # 1 PROVE FALSE
            OBVIOUS
        <3>1. k - 1 \in 1..Len(p)
            BY <2>1
        <3>. QED BY <2>2, <3>1
    <2>5. TrackNumber(p, i) = i - first + 1
        BY DEF TrackNumber
    <2> HIDE DEF First
    <2>6. first = 1
        BY <2>3, <2>4
    <2> HIDE DEF first
    <2>. QED BY <2>1, <2>5, <2>6
<1>3. InOrder(p)
    <2> SUFFICES ASSUME NEW i \in 1..Len(p) - 1, SongOf[p[i].v].artist = SongOf[p[i + 1].v].artist
                 PROVE  LET s == SongOf[p[i].v] t == SongOf[p[i + 1].v]
                        IN  s.disc < t.disc \/ (s.disc = t.disc /\ s.track <= t.track)
        BY DEF InOrder
    <2> DEFINE x == p[i].v
               y == p[i + 1].v
               s == SongOf[x]
               t == SongOf[y]
    <2>1. i \in 1..Len(p) /\ i + 1 \in 1..Len(p) /\ i < i + 1
        BY <1>1
    <2>2. ~Before(y, x) /\ s.dir = t.dir /\ x \in ToSet(AlbumOf[a].songs) /\ y \in ToSet(AlbumOf[a].songs)
        BY <1>0, <2>1
    <2>3. s.album = a /\ t.album = a /\ s.artist = t.artist
        BY <2>2, ReferencesAssumption
    <2>4. x \in DOMAIN SongOf /\ y \in DOMAIN SongOf
        <3>1. AlbumOf[a].songs \in Seq(DOMAIN SongOf)
            BY ReferencesAssumption
        <3>2. \A z \in ToSet(AlbumOf[a].songs) : z \in DOMAIN SongOf
            BY <3>1, LenProperties, ElementOfSeq DEF ToSet
        <3>. QED BY <2>2, <3>2
    <2> HIDE DEF x, y
    <2>5. s.disc \in Nat /\ t.disc \in Nat /\ s.track \in Nat /\ t.track \in Nat
        BY <2>4, SongsAssumption
    <2>6. /\ Key(x) = <<Rank[s.artist], Rank[s.album], Rank[s.dir], s.disc, s.track>>
          /\ Key(y) = <<Rank[t.artist], Rank[t.album], Rank[t.dir], t.disc, t.track>>
        BY DEF Key
    <2> HIDE DEF s, t
    <2>7. /\ Key(x)[1] = Key(y)[1] /\ Key(x)[2] = Key(y)[2] /\ Key(x)[3] = Key(y)[3]
          /\ Key(x)[4] = s.disc /\ Key(y)[4] = t.disc /\ Key(x)[5] = s.track /\ Key(y)[5] = t.track
        BY <2>2, <2>3, <2>6
    <2>8. ~(t.disc < s.disc)
        <3> SUFFICES ASSUME t.disc < s.disc PROVE Before(y, x)
            BY <2>2
        <3>1. \A j \in 1..4 - 1 : j = 1 \/ j = 2 \/ j = 3
            OBVIOUS
        <3>2. \A j \in 1..4 - 1 : Key(y)[j] = Key(x)[j]
            BY <2>7, <3>1
        <3>3. 4 \in 1..5 /\ Key(y)[4] < Key(x)[4]
            BY <2>7
        <3>. QED BY <3>2, <3>3 DEF Before
    <2>9. s.disc = t.disc => ~(t.track < s.track)
        <3> SUFFICES ASSUME s.disc = t.disc, t.track < s.track PROVE Before(y, x)
            BY <2>2
        <3>1. \A j \in 1..5 - 1 : j = 1 \/ j = 2 \/ j = 3 \/ j = 4
            OBVIOUS
        <3>2. \A j \in 1..5 - 1 : Key(y)[j] = Key(x)[j]
            BY <2>7, <3>1
        <3>3. 5 \in 1..5 /\ Key(y)[5] < Key(x)[5]
            BY <2>7
        <3>. QED BY <3>2, <3>3 DEF Before
    <2>10. s.disc < t.disc \/ (s.disc = t.disc /\ s.track <= t.track)
        BY <2>5, <2>8, <2>9
    <2>. QED BY <2>10 DEF s, t, x, y
<1>. QED BY <1>2, <1>3

AlbumWhole(id, p) ==
    IF p[1].n = "lbm"
    THEN \A s \in ToSet(AlbumOf[id.v].songs) :
            Cardinality({e \in ToSet(p) : \E t \in ToSet(_load_album_tracks(id.v, e.ap)) : t.v = s}) = 1
    ELSE /\ {e.v : e \in ToSet(p)} = {s \in ToSet(AlbumOf[id.v].songs) : id.ap = "" \/ SongOf[s].dir = id.ap}
         /\ {TrackNumber(p, i) : i \in DOMAIN p} = DOMAIN p
         /\ InOrder(p)

LEMMA WholeAlbum ==
    ASSUME NEW id, id.v \in DOMAIN AlbumOf, NEW p, p = _handler_element_album(id), p # <<>>
    PROVE  AlbumWhole(id, p)
<1> DEFINE a == id.v
           songs == AlbumOf[a].songs
           paths == Versions(songs)
<1>1. a \in DOMAIN AlbumOf /\ songs \in Seq(DOMAIN SongOf)
    BY ReferencesAssumption
<1>2. IsList(paths) /\ ToSet(paths) = {SongOf[s].dir : s \in ToSet(songs)}
    BY <1>1, VersionPaths
<1>3. DOMAIN paths = 1..Len(paths) /\ Len(paths) \in Nat
    BY <1>2, ListIsSeq DEF IsList
<1>4. \A s \in ToSet(songs) : s \in DOMAIN SongOf /\ SongOf[s].dir # ""
    <2>1. \A s \in ToSet(songs) : s \in DOMAIN SongOf
        BY <1>1, LenProperties, ElementOfSeq DEF ToSet
    <2>. QED BY <2>1, SongsAssumption
<1>5. IsList(p) /\ 1 \in 1..Len(p)
    <2>1. IsList(p)
        BY FineAlbumPage DEF Fine
    <2>2. Len(p) # 0
        <3>1. p \in Seq({p[i] : i \in 1..Len(p)})
            BY <2>1, ListIsSeq
        <3>. QED BY <3>1, EmptySeq
    <2>. QED BY <2>1, <2>2 DEF IsList
<1>6. CASE id.ap = "" /\ Len(paths) > 1
    <2>1. p = [i \in DOMAIN paths |-> VersionEntry(a, paths[i])]
        BY <1>6 DEF _handler_element_album
    <2> HIDE DEF paths
    <2>2. \A path : VersionEntry(a, path).n = "lbm" /\ VersionEntry(a, path).ap = path
        <3>1. \A path : VersionEntry(a, path) = ItemOf("lbm", a, 0, "", path, Yes)
            BY ChangedItem DEF VersionEntry
        <3>2. \A path : ItemOf("lbm", a, 0, "", path, Yes).n = "lbm" /\ ItemOf("lbm", a, 0, "", path, Yes).ap = path
            BY DEF ItemOf
        <3>. QED BY <3>1, <3>2
    <2>3. p[1].n = "lbm"
        <3>0. Len(paths) > 1
            BY <1>6
        <3>1. 1 \in DOMAIN paths
            BY <1>3, <3>0
        <3>. QED BY <2>1, <2>2, <3>1
    <2>4. ASSUME NEW s \in ToSet(songs)
          PROVE  Cardinality({e \in ToSet(p) : \E t \in ToSet(_load_album_tracks(a, e.ap)) : t.v = s}) = 1
        <3> DEFINE x == VersionEntry(a, SongOf[s].dir)
                   holds(e) == \E t \in ToSet(_load_album_tracks(a, e.ap)) : t.v = s
        <3>1. \A path : path # "" => (\E t \in ToSet(_load_album_tracks(a, path)) : t.v = s) <=> SongOf[s].dir = path
            <4> SUFFICES ASSUME NEW path, path # ""
                         PROVE  (\E t \in ToSet(_load_album_tracks(a, path)) : t.v = s) <=> SongOf[s].dir = path
                OBVIOUS
            <4>1. {e.v : e \in ToSet(_load_album_tracks(a, path))} = {u \in ToSet(songs) : path = "" \/ SongOf[u].dir = path}
                BY <1>1, TracksOf DEF AreTracks
            <4> HIDE DEF songs
            <4>. QED BY <4>1
        <3>2. \A i \in DOMAIN paths : paths[i] # ""
            BY <1>2, <1>4 DEF ToSet
        <3>3. \A e \in ToSet(p) : \E i \in DOMAIN paths : e = VersionEntry(a, paths[i]) /\ e.ap = paths[i]
            BY <2>1, <2>2 DEF ToSet
        <3>4. \E i \in DOMAIN paths : paths[i] = SongOf[s].dir
            BY <1>2 DEF ToSet
        <3>5. x \in ToSet(p) /\ x.ap = SongOf[s].dir /\ SongOf[s].dir # ""
            BY <1>4, <2>1, <2>2, <3>4 DEF ToSet
        <3> HIDE DEF songs
        <3>6. \A e \in ToSet(p) : holds(e) <=> e = x
            <4> SUFFICES ASSUME NEW e \in ToSet(p) PROVE holds(e) <=> e = x
                OBVIOUS
            <4>1. PICK i \in DOMAIN paths : e = VersionEntry(a, paths[i]) /\ e.ap = paths[i]
                BY <3>3
            <4>2. e.ap # ""
                BY <3>2, <4>1
            <4>3. holds(e) <=> SongOf[s].dir = e.ap
                BY <3>1, <4>2
            <4> HIDE DEF holds
            <4>4. e = x => SongOf[s].dir = e.ap
                BY <3>5
            <4>5. SongOf[s].dir = e.ap => e = x
                BY <4>1
            <4>. QED BY <4>3, <4>4, <4>5
        <3> HIDE DEF x, holds
        <3>7. {e \in ToSet(p) : holds(e)} = {x}
            BY <3>5, <3>6
        <3>8. Cardinality({x}) = 1
            BY FS_Singleton
        <3>. QED BY <3>7, <3>8 DEF holds
    <2>. QED BY <2>3, <2>4 DEF AlbumWhole
<1>7. CASE ~(id.ap = "" /\ Len(paths) > 1)
    <2>1. p = _load_album_tracks(a, id.ap)
        BY <1>7 DEF _handler_element_album
    <2>1a. AreTracks(a, id.ap, p)
        BY <1>1, <2>1, TracksOf
    <2>2. /\ \A i \in 1..Len(p) : p[i] = ItemIdentifier("trk", p[i].v) /\ p[i].v \in ToSet(songs)
          /\ {e.v : e \in ToSet(p)} = {s \in ToSet(songs) : id.ap = "" \/ SongOf[s].dir = id.ap}
          /\ \A i, j \in 1..Len(p) : i < j => ~Before(p[j].v, p[i].v)
        BY <2>1a DEF AreTracks
    <2>3. p[1].n # "lbm"
        <3>1. \A v : ItemIdentifier("trk", v).n = "trk"
            BY DEF ItemIdentifier
        <3>2. p[1] = ItemIdentifier("trk", p[1].v)
            BY <1>5, <2>2
        <3>. QED BY <3>1, <3>2
    <2>4. \A i, j \in 1..Len(p) : SongOf[p[i].v].dir = SongOf[p[j].v].dir
        <3>1. CASE id.ap # ""
            <4>1. \A i \in 1..Len(p) : p[i].v \in {e.v : e \in ToSet(p)}
                BY <1>5, ListIsSeq DEF ToSet
            <4>2. \A i \in 1..Len(p) : SongOf[p[i].v].dir = id.ap
                BY <2>2, <3>1, <4>1
            <4>. QED BY <4>2
        <3>2. CASE ~(Len(paths) > 1)
            <4>1. \A d \in ToSet(paths) : d = paths[1]
                <5>1. \A i \in DOMAIN paths : i = 1
                    BY <1>3, <3>2
                <5> HIDE DEF paths
                <5>. QED BY <5>1 DEF ToSet
            <4>2. \A i \in 1..Len(p) : SongOf[p[i].v].dir = paths[1]
                <5> HIDE DEF paths, songs
                <5>. QED BY <1>2, <2>2, <4>1
            <4>. QED BY <4>2
        <3>. QED BY <1>7, <3>1, <3>2
    <2>5. InOrder(p) /\ {TrackNumber(p, i) : i \in DOMAIN p} = DOMAIN p
        BY <1>1, <2>1a, <2>4, TracksInOrder
    <2>. QED BY <2>2, <2>3, <2>5 DEF AlbumWhole
<1>. QED BY <1>6, <1>7

-----------------------------------------------------------------------------
(* The invariant of what the pages promise *)

\* The place and the entries in the client's hands are good, the art in the caches belongs to where
\* it is, and when no request is running the page is an answer to the identifier it was asked for.
GoodInv ==
    /\ Good(at) /\ Fine(page) /\ AllBelong(cache) /\ loop.offset \in Int
    /\ loop.for = "none" /\ at # Nowhere => page \in Answers(at)

LEMMA GoodPlaces == Good(Root) /\ Good(Nowhere) /\ \A f : Good(Search(f))
<1>1. Root.n = "root" /\ Nowhere.n = "none" /\ \A f : Search(f).n = "search"
    BY DEF Root, Nowhere, Search, ItemIdentifier
<1>2. \A e : e.n \in {"root", "none", "search"} => Good(e)
    BY DEF Good
<1>. QED BY <1>1, <1>2

LEMMA PlaceAnswers ==
    ASSUME Place, Good(at), at # Nowhere, NEW answer \in Answers(at) PROVE Fine(answer)
BY FineAnswers DEF Place

LEMMA NextOffset ==
    ASSUME PageInv, loop.offset \in Int, [Next]_vars PROVE loop'.offset \in Int
<1>1. \A what : Loop(what).offset \in Int
    <2>1. ASSUME NEW what PROVE Loop(what).offset \in Int
        BY DEF Loop, NoLoop
    <2>. QED BY <2>1
<1>2. NoLoop.offset \in Int
    BY DEF NoLoop
<1>3. CASE ReadAlbums
    <2>1. PICK n : /\ n = IF Len(LoopList) - loop.offset < MaxReturn THEN Len(LoopList) - loop.offset ELSE MaxReturn
                   /\ loop' = [loop EXCEPT !.offset = loop.offset + n, !.last = n]
        BY <1>3 DEF ReadAlbums
    <2>2. n \in Int
        <3>1. IsList(LoopList)
            <4>1. IsList(Albums) /\ IsList(GenreAlbums(at.g))
                BY LibraryAssumption, GenreLists, SeqIsList
            <4>. QED BY <4>1 DEF LoopList
        <3>. QED BY <2>1, <3>1, LibraryAssumption DEF IsList
    <2>3. PICK k : k = loop.offset + n
        OBVIOUS
    <2>4. ASSUME NEW l, l = [for |-> l.for, offset |-> l.offset, last |-> l.last]
          PROVE  [l EXCEPT !.offset = k, !.last = n].offset = k
        <3>1. PICK h : h = [l EXCEPT !.offset = k]
            OBVIOUS
        <3>2. h = [for |-> l.for, offset |-> k, last |-> l.last]
            BY <2>4, <3>1
        <3>3. [h EXCEPT !.last = n] = [for |-> l.for, offset |-> k, last |-> n]
            BY <3>2
        <3>4. [l EXCEPT !.offset = k, !.last = n] = [h EXCEPT !.last = n]
            BY <3>1, Zenon
        <3>5. [for |-> l.for, offset |-> k, last |-> n].offset = k
            OBVIOUS
        <3>. QED BY <3>3, <3>4, <3>5, Zenon
    <2>5. loop'.offset = k
        BY <2>1, <2>3, <2>4 DEF PageInv, LoopInv
    <2>. QED BY <2>2, <2>3, <2>5
<1>4. CASE ~ReadAlbums
    <2>1. loop' = loop \/ loop' = NoLoop \/ \E what : loop' = Loop(what)
        BY <1>4 DEF Next, vars, browse, ReadDone, ReadFails, Answer, AfterListing
    <2>. QED BY <1>1, <1>2, <2>1
<1>. QED BY <1>3, <1>4

LEMMA StepGoodInv == PageInv /\ GoodInv /\ [Next]_vars => GoodInv'
<1> SUFFICES ASSUME PageInv, GoodInv, [Next]_vars PROVE GoodInv'
    OBVIOUS
<1>1. loop'.offset \in Int
    BY NextOffset DEF GoodInv
<1>2. AllBelong(cache)'
    <2>1. \A answer \in Answers(at) : loop.for = "answer" => IsList(answer)
        BY PlaceAnswers DEF PageInv, LoopInv, GoodInv, Fine
    <2>. QED BY <2>1, StepArt DEF GoodInv
<1>3. /\ \E id : at' = id /\ Good(id)
      /\ \E p : page' = p /\ Fine(p)
      /\ loop'.for = "none" /\ at' # Nowhere => page' \in Answers(at')
    <2>1. CASE browse
        <3>1. PICK id \in {e \in ToSet(page) : ~IsItem(e)} \cup {Root} \cup {Search(f) : f \in DOMAIN Found} :
                 /\ at' = id
                 /\ loop' = IF NeedsListing(id) THEN Loop("listing") ELSE AfterListing(id)
            BY <2>1 DEF browse
        <3>2. Good(id)
            BY <3>1, GoodPlaces DEF GoodInv, Fine
        <3>3. loop'.for # "none"
            <4>1. \E what \in {"listing", "caching", "answer"} : loop' = Loop(what)
                BY <3>1 DEF AfterListing
            <4>. QED BY <4>1, Loops
        <3>4. page' = <<>>
            BY <2>1 DEF browse
        <3>. QED BY <3>1, <3>2, <3>3, <3>4, FineEmpty
    <2>2. CASE ReadAlbums
        <3>1. at' = at /\ page' = page /\ loop'.for # "none"
            <4>1. PICK k, n : loop' = [loop EXCEPT !.offset = k, !.last = n]
                BY <2>2 DEF ReadAlbums
            <4>2. loop'.for = loop.for
                <5>1. ASSUME NEW l, l = [for |-> l.for, offset |-> l.offset, last |-> l.last]
                      PROVE  [l EXCEPT !.offset = k, !.last = n].for = l.for
                    <6>1. PICK h : h = [l EXCEPT !.offset = k]
                        OBVIOUS
                    <6>2. h = [for |-> l.for, offset |-> k, last |-> l.last]
                        BY <5>1, <6>1
                    <6>3. [h EXCEPT !.last = n].for = l.for
                        BY <6>2
                    <6>. QED BY <6>1, <6>3, Zenon
                <5>. QED BY <4>1, <5>1 DEF PageInv, LoopInv
            <4>. QED BY <2>2, <4>2 DEF ReadAlbums
        <3>. QED BY <3>1 DEF GoodInv
    <2>3. CASE ReadDone
        <3>1. at' = at /\ page' = page /\ loop.for \in {"listing", "caching"}
            BY <2>3 DEF ReadDone
        <3>2. \/ loop.for = "listing" /\ \E what \in {"caching", "answer"} : loop' = Loop(what)
              \/ at = Nowhere
              \/ loop' = Loop("answer")
            BY <2>3, <3>1 DEF ReadDone, AfterListing
        <3>3. loop'.for = "none" => at = Nowhere
            BY <3>2, Loops
        <3>. QED BY <3>1, <3>3 DEF GoodInv
    <2>4. CASE ReadFails
        <3>1. at' = Nowhere /\ page' = page
            BY <2>4 DEF ReadFails
        <3>. QED BY <3>1, GoodPlaces DEF GoodInv
    <2>5. CASE Answer
        <3>1. PICK answer \in Answers(at) : page' = answer
            BY <2>5 DEF Answer
        <3>2. at' = at /\ loop.for = "answer"
            BY <2>5 DEF Answer
        <3>3. Fine(answer)
            BY <3>1, <3>2, PlaceAnswers DEF PageInv, LoopInv, GoodInv
        <3>. QED BY <3>1, <3>2, <3>3 DEF GoodInv
    <2>6. CASE UNCHANGED vars
        BY <2>6 DEF vars, GoodInv
    <2>. QED BY <2>1, <2>2, <2>3, <2>4, <2>5, <2>6 DEF Next
<1>. QED BY <1>1, <1>2, <1>3 DEF GoodInv

LEMMA InitGoodInv == Init => GoodInv
<1> SUFFICES ASSUME Init PROVE GoodInv
    OBVIOUS
<1>1. at = Nowhere /\ page = <<>> /\ loop = Loop("caching")
    BY DEF Init
<1>2. loop.offset \in Int
    BY <1>1 DEF Loop, NoLoop
<1>. QED BY <1>1, <1>2, InitArt, GoodPlaces, FineEmpty DEF GoodInv

LEMMA Promised ==
    ASSUME ArtForTags, PageInv, GoodInv PROVE PromisedEntries
<1> SUFFICES ASSUME Answered, at.n \in {"gnr", "gnr_rtsts", "rtsttp", "rtsttp_sl", "rtst_smlr", "rd", "rd_sl",
                                        "gnr_rtst_lbms", "root"}
             PROVE  page # <<>>
    BY DEF PromisedEntries
<1>1. Root.n = "root" /\ Nowhere.n = "none" /\ \A f : Search(f).n = "search"
    BY DEF Root, Nowhere, Search, ItemIdentifier
<1>2. page \in Answers(at) /\ at # Nowhere
    BY <1>1 DEF GoodInv, Answered
<1>3. Good(at) /\ Place
    BY DEF GoodInv, PageInv
<1>4. CASE at = Root
    <2>1. page = Tags(RootTags)
        BY <1>2, <1>4 DEF Answers, _show_tags, ArtForTags
    <2>2. RootTags \in Seq(TagNames) /\ RootTags # <<>>
        BY LibraryAssumption DEF ArtForTags
    <2>3. Len(Tags(RootTags)) = Len(RootTags) /\ Len(RootTags) # 0
        BY <2>2, SeqIsList, EmptySeq, EachOf DEF Tags
    <2>. QED BY <2>1, <2>3, EmptyList
<1>5. CASE at # Root
    <2>1. Known(at)
        BY <1>1, <1>2, <1>3, <1>5 DEF Place
    <2>2. at.n # "root"
        BY <2>1 DEF Known, ElementNames
    <2>3. page \in ElementHandler(at)
        BY <1>2, <1>5, <2>2 DEF Answers
    <2>4. CASE at.n \in {"gnr", "gnr_rtsts", "gnr_rtst_lbms"}
        BY <1>3, <2>1, <2>3, <2>4, FineGenreAnswers
    <2>5. CASE at.n \in {"rtsttp", "rtsttp_sl", "rtst_smlr", "rd", "rd_sl"}
        BY <1>3, <2>3, <2>5, FineMore
    <2>. QED BY <2>2, <2>4, <2>5
<1>. QED BY <1>4, <1>5

LEMMA AlbumsWhole ==
    ASSUME PageInv, GoodInv PROVE AlbumPagesWhole
<1> SUFFICES ASSUME Answered, at.n = "lbm", page # <<>> PROVE AlbumWhole(at, page)
    BY DEF AlbumPagesWhole, AlbumWhole
<1>1. Root.n = "root" /\ Nowhere.n = "none"
    BY DEF Root, Nowhere, ItemIdentifier
<1>2. page \in Answers(at) /\ at # Root
    BY <1>1 DEF GoodInv, Answered
<1>3. page = _handler_element_album(at)
    BY <1>2 DEF Answers, ElementHandler
<1>4. at.v \in DOMAIN AlbumOf
    BY DEF GoodInv, Good
<1>. QED BY <1>3, <1>4, WholeAlbum

-----------------------------------------------------------------------------
(* The theorems *)

\* Every page is made of identifiers from which a client begins a list or goes on in the one at hand,
\* and what it was shown of a list is the list up to the end of the page (subsonic-app.py: the
\* handlers of the tags and elements, and the offsets of their Next entries).
THEOREM PagesFollow == Spec => []PageInv
<1>1. Init => PageInv
    BY InitPageInv
<1>2. PageInv /\ [Next]_vars => PageInv'
    BY StepPageInv
<1>. QED BY <1>1, <1>2, PTL DEF Spec

\* Who follows Next from the first page of a list to the last has seen all of it, each element once
\* and in its order (subsonic-app.py: _handler_tag_*, _handler_element_* and their next pages).
THEOREM ListsCovered == Spec => []PagesCoverList
<1>1. PageInv => PagesCoverList
    <2> SUFFICES ASSUME PageInv, LastPage, at.n # "rtst_lbms" PROVE SeenAll
        BY DEF PagesCoverList
    <2>1. loop.for = "none" /\ ~(\E e \in ToSet(page) : IsNext(at, e))
        BY DEF LastPage, Answered
    <2>2. CASE Paged(at)
        <3>1. SeenTo(seen, ListOf(at), Len(ListOf(at))) /\ IsList(ListOf(at))
            BY <2>1, <2>2, ListsAreLists DEF PageInv, ShownInv
        <3>2. DOMAIN seen = 1..Len(ListOf(at)) /\ \A i \in DOMAIN seen : seen[i].v = ListOf(at)[i]
            BY <3>1, ListIsSeq DEF SeenTo
        <3>3. [i \in DOMAIN seen |-> seen[i].v] = [i \in 1..Len(ListOf(at)) |-> ListOf(at)[i]]
            BY <3>2
        <3>4. [i \in DOMAIN seen |-> seen[i].v] = ListOf(at)
            BY <3>1, <3>3, Zenon DEF IsList
        <3>5. WholeList(at) = ListOf(at)
            BY <2>2, LibraryAssumption DEF Paged, WholeList, ListOf
        <3>. QED BY <3>4, <3>5 DEF SeenAll
    <2>3. CASE ~Paged(at)
        <3>1. WholeList(at) = [i \in DOMAIN seen |-> seen[i].v]
            BY <2>3, LibraryAssumption DEF Paged, WholeList
        <3>. QED BY <3>1 DEF SeenAll
    <2>. QED BY <2>2, <2>3
<1>. QED BY <1>1, PagesFollow, PTL

\* What the pages show is true when the initial page finds art for its tags, which it does not in an
\* empty library: the page of an album has each of its songs, once, in its order and numbered
\* (subsonic-app.py: _load_album_tracks, _handler_element_album; album_util.py: sort_song_list); the
\* art which the caches hold of an artist, genre or initial is that of an album of its own (caching.py,
\* subsonic_init.py); and an entry which is made only if there is something behind it does not lead
\* to an empty page (_handler_element_artist, _handler_element_song_entry, _radio_entry).
THEOREM PagesKept == ArtForTags => (Spec => []PagesKeepPromises)
<1> SUFFICES ASSUME ArtForTags PROVE Spec => []PagesKeepPromises
    OBVIOUS
<1>1. Init => PageInv /\ GoodInv
    BY InitPageInv, InitGoodInv
<1>2. PageInv /\ GoodInv /\ [Next]_vars => (PageInv /\ GoodInv)'
    BY StepPageInv, StepGoodInv
<1>3. PageInv /\ GoodInv => PagesKeepPromises
    BY ArtIs, Promised, AlbumsWhole DEF PagesKeepPromises, GoodInv
<1>. QED BY <1>1, <1>2, <1>3, PTL DEF Spec
=============================================================================

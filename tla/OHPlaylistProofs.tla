-------------------------- MODULE OHPlaylistProofs --------------------------
(***************************************************************************)
(* For queues of any length, any number of changes and any uris: the array *)
(* which makeIdArray() caches for MPD's version is MPD's queue, the        *)
(* metadata cache covers it and never changes what it says of a uri,       *)
(* insertions go where they were asked for, and every variable keeps its   *)
(* type.                                                                   *)
(***************************************************************************)
EXTENDS OHPlaylist, SequenceTheorems, FiniteSetTheorems, WellFoundedInduction, TLAPS

-----------------------------------------------------------------------------
(* The inductive invariant *)

InsertRequest == [op : {"insert"}, after : Nat, uri : Uri, pos : Nat]
DeleteRequest == [op : {"delete"}, after : Nat]

QueueType ==
    /\ mq \in Seq(Entry) /\ saved.q \in Seq(Entry)
    /\ qv \in Nat /\ nid \in Nat \ {0} /\ lastpos \in Nat

\* The request of the SOAP thread, at the points where it is used.
RequestType ==
    /\ pc \in {"set", "insert", "list", "add", "stat"} => req \in InsertRequest
    /\ pc = "delete" => req \in DeleteRequest
    /\ pc \in {"restore", "activate"} => req \in InsertRequest \cup DeleteRequest \cup {NoRequest}

\* A version which somebody remembers is not newer than MPD's.
VersionInv ==
    /\ arrqv \in 0..qv /\ stat.qv \in 0..qv /\ eqv \in 0..qv
    /\ pc = "arrread" => req.qv \in 0..qv

\* IdArrayFresh and MetaCovers, also while the service is inactive.
Cached == arrqv = qv => arr = Ids(mq) /\ Uris(mq) \subseteq DOMAIN meta

IInv == QueueType /\ RequestType /\ VersionInv /\ Cached

-----------------------------------------------------------------------------
(* Changes of the queue *)

LEMMA Parts ==
    ASSUME NEW q \in Seq(Entry), NEW m \in Int, NEW n \in Int, 1 <= m, n <= Len(q)
    PROVE  SubSeq(q, m, n) \in Seq(Entry)
<1>1. \A j \in m..n : q[j] \in Entry
    BY ElementOfSeq, LenProperties
<1>. QED BY <1>1, SubSeqProperties

LEMMA InsertAtType ==
    ASSUME NEW q \in Seq(Entry), NEW i \in 1..Len(q) + 1, NEW e \in Entry
    PROVE  InsertAt(q, i, e) \in Seq(Entry)
<1>. Len(q) \in Nat
    BY LenProperties
<1>1. SubSeq(q, 1, i - 1) \in Seq(Entry) /\ SubSeq(q, i, Len(q)) \in Seq(Entry)
    BY Parts
<1>2. SubSeq(q, 1, i - 1) \o <<e>> \in Seq(Entry)
    BY <1>1, ConcatProperties
<1>. QED BY <1>1, <1>2, ConcatProperties DEF InsertAt

LEMMA RemoveAtType ==
    ASSUME NEW q \in Seq(Entry), NEW i \in 1..Len(q)
    PROVE  RemoveAt(q, i) \in Seq(Entry)
<1>. Len(q) \in Nat
    BY LenProperties
<1>1. SubSeq(q, 1, i - 1) \in Seq(Entry) /\ SubSeq(q, i + 1, Len(q)) \in Seq(Entry)
    BY Parts
<1>. QED BY <1>1, ConcatProperties DEF RemoveAt

\* An addition or a deletion makes a new version, so that the cached array is not
\* that of MPD's version any more.
LEMMA NewVersion ==
    ASSUME VersionInv, qv \in Nat, qv' \in Nat, qv' > qv,
           UNCHANGED <<arrqv, eqv>>, stat'.qv \in 0..qv',
           pc' = "arrread" => pc = "arrread" /\ req' = req
    PROVE  VersionInv' /\ Cached'
BY DEF VersionInv, Cached

LEMMA AddAtKeeps ==
    ASSUME QueueType, NEW pos \in Nat, NEW u \in Uri, NEW by \in {"cp", "other"},
           CanAdd(pos), AddAt(pos, u, by)
    PROVE  mq' \in Seq(Entry) /\ qv' = qv + 1 /\ nid' \in Nat \ {0}
<1>1. [id |-> nid, uri |-> u, by |-> by] \in Entry
    BY DEF QueueType, Entry
<1>2. pos + 1 \in 1..Len(mq) + 1
    BY LenProperties DEF QueueType, CanAdd
<1>3. InsertAt(mq, pos + 1, [id |-> nid, uri |-> u, by |-> by]) \in Seq(Entry)
    BY <1>1, <1>2, InsertAtType DEF QueueType
<1>. QED BY <1>3 DEF QueueType, AddAt

LEMMA DeleteKeeps ==
    ASSUME QueueType, NEW i \in DOMAIN mq, NEW was, Delete(i, was)
    PROVE  mq' \in Seq(Entry) /\ qv' = qv + 1 /\ nid' = nid
BY LenProperties, RemoveAtType DEF QueueType, Delete

LEMMA IndexType ==
    ASSUME QueueType, NEW id \in IdSet(mq)
    PROVE  IndexOf(mq, id) \in DOMAIN mq /\ IndexOf(mq, id) \in Nat
<1>1. \E i \in DOMAIN mq : mq[i].id = id
    BY DEF IdSet
<1>2. IndexOf(mq, id) \in DOMAIN mq
    BY <1>1 DEF IndexOf
<1>. QED BY <1>2, LenProperties DEF QueueType

-----------------------------------------------------------------------------
(* The array *)

LEMMA InitInv == Init => IInv
<1>. SUFFICES ASSUME Init PROVE IInv
    OBVIOUS
<1>1. QueueType /\ RequestType
    BY EmptySeq DEF Init, QueueType, RequestType
<1>2. VersionInv /\ Cached
    BY DEF Init, VersionInv, Cached, Live
<1>. QED BY <1>1, <1>2 DEF IInv

\* The queue is read after the version was.
LEMMA MakeReadCached ==
    ASSUME NEW v \in 0..qv, qv \in Nat, UNCHANGED <<mq, qv>>, MakeRead(v)
    PROVE  arrqv' \in 0..qv' /\ Cached'
<1>1. Ids(mq)' = Ids(mq) /\ Uris(mq)' = Uris(mq)
    BY DEF Ids, Uris
<1>. QED BY <1>1 DEF Cached, MakeRead

LEMMA MakeSameCached ==
    ASSUME Cached, VersionInv, UNCHANGED <<mq, qv>>, MakeSame
    PROVE  arrqv' \in 0..qv' /\ Cached'
<1>1. Ids(mq)' = Ids(mq) /\ Uris(mq)' = Uris(mq)
    BY DEF Ids, Uris
<1>2. DOMAIN meta' = DOMAIN meta
    BY DEF MakeSame
<1>. QED BY <1>1, <1>2 DEF Cached, MakeSame, VersionInv

\* Nothing which concerns the array changes, but the cache may have more metadata.
LEMMA CachedSame ==
    ASSUME Cached, UNCHANGED <<mq, qv, arr, arrqv>>, DOMAIN meta \subseteq DOMAIN meta'
    PROVE  Cached'
BY DEF Cached, Ids, Uris

-----------------------------------------------------------------------------
(* The steps of each actor *)

LEMMA EventInv == ASSUME IInv, EventThreads PROVE IInv'
<1>1. UNCHANGED <<mq, qv, nid, saved, lastpos, pc, req>>
    BY DEF EventThreads, EventWake, Poll, Callback, CallbackRead, mpd, last, source, soap
<1>2. QueueType' /\ RequestType'
    BY <1>1 DEF IInv, QueueType, RequestType
<1>3. CASE EventWake \/ Poll
    <2>1. UNCHANGED <<cache, eqv>> /\ stat'.qv = qv
        BY <1>3 DEF EventWake, Poll, Live, thread
    <2>2. VersionInv'
        BY <1>1, <2>1 DEF IInv, QueueType, VersionInv, cache
    <2>. QED BY <1>1, <1>2, <2>1, <2>2, CachedSame DEF IInv, cache
<1>4. ASSUME NEW th \in Threads, Callback(th) PROVE IInv'
    <2>1. UNCHANGED stat
        BY <1>4 DEF Callback
    <2>2. CASE UNCHANGED cache
        <3>1. eqv' \in 0..qv
            BY <1>4, <2>2 DEF Callback, IInv, VersionInv
        <3>. QED BY <1>1, <1>2, <2>1, <2>2, <3>1, CachedSame DEF IInv, cache, VersionInv
    <2>3. CASE MakeSame /\ UNCHANGED eqv
        <3>1. arrqv' \in 0..qv' /\ Cached'
            BY <1>1, <2>3, MakeSameCached DEF IInv
        <3>. QED BY <1>1, <1>2, <2>1, <2>3, <3>1 DEF IInv, VersionInv
    <2>. QED BY <1>4, <2>2, <2>3 DEF Callback
<1>5. CASE CallbackRead
    <2>1. arrqv' \in 0..qv' /\ Cached'
        BY <1>1, <1>5, MakeReadCached DEF IInv, QueueType, VersionInv, CallbackRead
    <2>2. eqv' = 0 /\ qv' \in Nat /\ UNCHANGED stat
        BY <1>1, <1>5 DEF CallbackRead, IInv, QueueType
    <2>. QED BY <1>1, <1>2, <2>1, <2>2 DEF IInv, VersionInv
<1>. QED BY <1>3, <1>4, <1>5 DEF EventThreads

\* A call of a control point.
LEMMA RequestInv ==
    ASSUME IInv, NEW r \in InsertRequest \cup DeleteRequest, Request(r)
    PROVE  IInv'
<1>1. r.op \in {"insert", "delete"} /\ (r.op = "insert" <=> r \in InsertRequest)
      /\ (r.op = "delete" <=> r \in DeleteRequest)
    BY DEF InsertRequest, DeleteRequest
<1>2. QueueType'
    BY DEF IInv, QueueType, Request, mpd, last, source
<1>3. RequestType'
    BY <1>1 DEF Request, Goto, RequestType
<1>4. VersionInv' /\ Cached'
    BY CachedSame DEF IInv, VersionInv, Request, Goto, mpd, cache, thread
<1>. QED BY <1>2, <1>3, <1>4 DEF IInv

LEMMA CallInv == ASSUME IInv, InsertCall \/ DeleteCall PROVE IInv'
<1>1. CASE InsertCall
    <2>1. PICK after \in 0..nid - 1, u \in Uri :
              Request([op |-> "insert", after |-> after, uri |-> u, pos |-> 0])
        BY <1>1 DEF InsertCall
    <2>2. [op |-> "insert", after |-> after, uri |-> u, pos |-> 0] \in InsertRequest
        BY DEF IInv, QueueType, InsertRequest
    <2>. QED BY <2>1, <2>2, RequestInv
<1>2. CASE DeleteCall
    <2>1. PICK id \in 1..nid - 1 : Request([op |-> "delete", after |-> id])
        BY <1>2 DEF DeleteCall
    <2>2. [op |-> "delete", after |-> id] \in DeleteRequest
        BY DEF IInv, QueueType, DeleteRequest
    <2>. QED BY <2>1, <2>2, RequestInv
<1>. QED BY <1>1, <1>2

LEMMA InsertInv ==
    ASSUME IInv, CacheSet \/ InsertAfterId \/ InsertList \/ InsertStat
    PROVE  IInv'
<1>1. UNCHANGED <<mq, qv, nid, saved, arr, arrqv, eqv>>
    BY DEF CacheSet, InsertAfterId, InsertList, InsertStat, mpd, source, cache, thread
<1>2. lastpos' \in Nat
    BY DEF IInv, QueueType, RequestType, InsertRequest, CacheSet, InsertAfterId, InsertList,
           InsertStat, last
<1>3. QueueType'
    BY <1>1, <1>2 DEF IInv, QueueType
<1>4. req' \in InsertRequest \/ pc' = "idle"
    <2>1. CASE CacheSet \/ InsertStat
        BY <2>1 DEF IInv, RequestType, CacheSet, InsertStat, Finish
    <2>2. CASE InsertAfterId
        BY <2>2 DEF IInv, QueueType, RequestType, InsertRequest, InsertAfterId
    <2>3. CASE InsertList
        <3>1. PositionAfter(req.after) \in Nat
            BY IndexType, LenProperties DEF IInv, QueueType, PositionAfter
        <3>. QED BY <2>3, <3>1 DEF IInv, RequestType, InsertRequest, InsertList
    <2>. QED BY <2>1, <2>2, <2>3
<1>5. pc' \in {"insert", "add", "list", "idle"}
    BY DEF CacheSet, InsertAfterId, InsertList, InsertStat, Goto, Finish
<1>6. RequestType'
    BY <1>4, <1>5 DEF RequestType
<1>7. VersionInv'
    <2>1. stat'.qv \in 0..qv
        BY DEF IInv, QueueType, VersionInv, CacheSet, InsertAfterId, InsertList, InsertStat, Live
    <2>. QED BY <1>1, <1>5, <2>1 DEF IInv, VersionInv
<1>8. DOMAIN meta \subseteq DOMAIN meta'
    BY DEF CacheSet, InsertAfterId, InsertList, InsertStat, cache
<1>. QED BY <1>1, <1>3, <1>6, <1>7, <1>8, CachedSame DEF IInv

LEMMA AddInv == ASSUME IInv, InsertAdd PROVE IInv'
<1>1. UNCHANGED <<stat, lastpos, saved, cache, eqv>>
    BY DEF InsertAdd, source, thread
<1>2. (pc' = "stat" /\ req' = req) \/ pc' = "idle"
    BY DEF InsertAdd, Goto, Finish
<1>. req \in InsertRequest
    BY DEF IInv, RequestType, InsertAdd
<1>3. RequestType'
    BY <1>1, <1>2 DEF RequestType
<1>4. CASE CanAdd(req.pos) /\ AddAt(req.pos, req.uri, "cp")
    <2>1. mq' \in Seq(Entry) /\ qv' = qv + 1 /\ nid' \in Nat \ {0}
        BY <1>2, <1>4, AddAtKeeps DEF IInv, InsertRequest
    <2>2. QueueType'
        BY <1>1, <2>1 DEF IInv, QueueType
    <2>3. VersionInv' /\ Cached'
        BY <1>1, <1>2, <2>1, NewVersion DEF IInv, QueueType, VersionInv, cache
    <2>. QED BY <1>3, <2>2, <2>3 DEF IInv
<1>5. CASE UNCHANGED mpd
    <2>1. QueueType' /\ VersionInv'
        BY <1>1, <1>2, <1>5 DEF IInv, QueueType, VersionInv, mpd, cache
    <2>. QED BY <1>1, <1>3, <1>5, <2>1, CachedSame DEF IInv, mpd, cache
<1>. QED BY <1>4, <1>5 DEF InsertAdd

LEMMA DeleteInv == ASSUME IInv, DeleteId PROVE IInv'
<1>1. UNCHANGED <<stat, lastpos, saved, cache, eqv>>
    BY DEF DeleteId, last, source, thread
<1>2. pc' = "idle"
    BY DEF DeleteId, Finish
<1>3. RequestType'
    BY <1>2 DEF RequestType
<1>4. CASE req.after \in IdSet(mq)
    <2>1. PICK was : Delete(IndexOf(mq, req.after), was)
        BY <1>4 DEF DeleteId
    <2>2. IndexOf(mq, req.after) \in DOMAIN mq
        BY <1>4, IndexType DEF IInv
    <2>3. mq' \in Seq(Entry) /\ qv' = qv + 1 /\ nid' = nid
        BY <2>1, <2>2, DeleteKeeps DEF IInv
    <2>4. QueueType'
        BY <1>1, <2>3 DEF IInv, QueueType
    <2>5. VersionInv' /\ Cached'
        BY <1>1, <1>2, <2>3, NewVersion DEF IInv, QueueType, VersionInv, cache
    <2>. QED BY <1>3, <2>4, <2>5 DEF IInv
<1>5. CASE req.after \notin IdSet(mq)
    <2>1. UNCHANGED <<mq, qv, nid>>
        BY <1>5 DEF DeleteId
    <2>2. QueueType' /\ VersionInv'
        BY <1>1, <1>2, <2>1 DEF IInv, QueueType, VersionInv, cache
    <2>. QED BY <1>1, <1>3, <2>1, <2>2, CachedSame DEF IInv, cache
<1>. QED BY <1>4, <1>5

\* IdArray, Read, and setActive(false) up to its makestate().
LEMMA ArrayInv ==
    ASSUME IInv, ArrayCall \/ ArrayRead \/ ArrayToken \/ Read \/ Deactivate
    PROVE  IInv'
<1>1. UNCHANGED <<mq, qv, nid, saved, lastpos, stat, eqv>>
    BY DEF ArrayCall, ArrayRead, ArrayToken, Read, Deactivate, mpd, last, source, thread
<1>2. QueueType'
    BY <1>1 DEF IInv, QueueType
<1>3. pc' \in {"idle", "arrread", "token", "save"}
    BY DEF ArrayCall, ArrayRead, ArrayToken, Read, Deactivate, Goto, Finish, soap
<1>4. RequestType'
    BY <1>3 DEF RequestType
<1>5. pc' = "arrread" => req'.qv \in 0..qv
    BY DEF IInv, VersionInv, ArrayCall, ArrayRead, ArrayToken, Read, Deactivate, Goto, Finish, soap
<1>6. arrqv' \in 0..qv' /\ Cached'
    <2>1. CASE UNCHANGED <<arr, arrqv>> /\ DOMAIN meta \subseteq DOMAIN meta'
        BY <1>1, <2>1, CachedSame DEF IInv, VersionInv
    <2>2. CASE MakeSame
        BY <1>1, <2>2, MakeSameCached DEF IInv
    <2>3. CASE MakeRead(stat.qv) \/ (pc = "arrread" /\ MakeRead(req.qv))
        BY <1>1, <2>3, MakeReadCached DEF IInv, QueueType, VersionInv
    <2>4. CASE Read
        BY <2>1, <2>4 DEF Read
    <2>5. CASE ArrayCall \/ ArrayRead \/ ArrayToken \/ Deactivate
        BY <2>1, <2>2, <2>3, <2>5 DEF ArrayCall, ArrayRead, ArrayToken, Deactivate, cache
    <2>. QED BY <2>4, <2>5
<1>. QED BY <1>1, <1>2, <1>4, <1>5, <1>6 DEF IInv, VersionInv

-----------------------------------------------------------------------------
(* The source *)

LEMMA PlayInv == ASSUME IInv, Play \/ Pause \/ Stop \/ SaveState \/ Activate PROVE IInv'
<1>1. UNCHANGED <<mq, qv, nid, lastpos, cache, eqv>>
    BY DEF Play, Pause, Stop, SaveState, Activate, mpd, last, thread
<1>2. saved'.q \in Seq(Entry)
    BY DEF IInv, QueueType, Play, Pause, Stop, SaveState, Activate, source
<1>3. pc' = "idle" \/ (pc' = "restore" /\ req' = NoRequest)
    BY DEF Play, Pause, Stop, SaveState, Activate, Goto, soap, NoRequest
<1>4. stat'.qv \in 0..qv'
    BY <1>1 DEF IInv, QueueType, VersionInv, Play, Pause, Stop, SaveState, Activate, Live
<1>5. QueueType' /\ RequestType'
    BY <1>1, <1>2, <1>3 DEF IInv, QueueType, RequestType
<1>6. VersionInv'
    BY <1>1, <1>3, <1>4 DEF IInv, VersionInv, cache
<1>. QED BY <1>1, <1>5, <1>6, CachedSame DEF IInv, cache

LEMMA RestoreInv == ASSUME IInv, RestoreState PROVE IInv'
<1> DEFINE n == Len(saved.q)
<1>1. n \in Nat /\ saved.q \in [1..n -> Entry]
    BY LenProperties DEF IInv, QueueType
<1>2. UNCHANGED <<saved, cache, eqv, req>>
    BY DEF RestoreState, source, thread
<1>3. mq' \in Seq(Entry)
    <2>1. \A i \in 1..n : [saved.q[i] EXCEPT !.id = nid + i - 1] \in Entry
        <3>. SUFFICES ASSUME NEW i \in 1..n PROVE [saved.q[i] EXCEPT !.id = nid + i - 1] \in Entry
            OBVIOUS
        <3>1. saved.q[i] \in Entry /\ nid + i - 1 \in Nat \ {0}
            BY <1>1 DEF IInv, QueueType
        <3>. QED BY <3>1 DEF Entry
    <2>2. mq' = [i \in 1..n |-> [saved.q[i] EXCEPT !.id = nid + i - 1]]
        BY DEF RestoreState
    <2>3. mq' \in [1..n -> Entry]
        BY <2>1, <2>2
    <2>. QED BY <1>1, <2>3, SeqDef
<1>4. qv' = qv + n + 1 /\ nid' = nid + n
    BY DEF RestoreState
<1>5. lastpos' \in Nat
    BY <1>1 DEF IInv, QueueType, RestoreState, last
<1>6. QueueType'
    BY <1>1, <1>2, <1>3, <1>4, <1>5 DEF IInv, QueueType
<1>7. pc = "restore" /\ pc' = "activate"
    BY DEF RestoreState, Goto
<1>8. RequestType'
    BY <1>2, <1>7 DEF IInv, RequestType
<1>9. stat'.qv \in 0..qv'
    BY <1>1, <1>4 DEF IInv, QueueType, VersionInv, RestoreState, Live
<1>10. VersionInv' /\ Cached'
    BY <1>1, <1>2, <1>4, <1>7, <1>9, NewVersion DEF IInv, QueueType, cache
<1>. QED BY <1>6, <1>8, <1>10 DEF IInv

\* A set of numbers has a first one.
LEMMA First ==
    ASSUME NEW S \in SUBSET Nat, S # {}
    PROVE  \E i \in S : \A j \in S : i <= j
<1> DEFINE R == OpToRel(<, Nat)
<1>1. R = {p \in Nat \X Nat : p[1] < p[2]}
    BY Zenon DEF OpToRel
<1>2. IsWellFoundedOn(R, Nat)
    BY NatLessThanWellFounded
<1> HIDE DEF R
<1>3. PICK i \in S : \A j \in S : ~(<<j, i>> \in R)
    BY <1>2, WFMin
<1>4. ASSUME NEW j \in S PROVE i <= j
    <2>1. <<j, i>> \in Nat \X Nat /\ ~(j < i)
        BY <1>1, <1>3
    <2>. QED BY <2>1
<1>. QED BY <1>4

\* An id of the saved queue is mapped to an id of MPD's queue, or to 0.
LEMMA OldIdType == ASSUME QueueType, NEW id PROVE IdFromOldId(id) \in Nat
<1> DEFINE uris == {saved.q[i].uri : i \in {j \in DOMAIN saved.q : saved.q[j].id = id}}
           found == {i \in DOMAIN mq : mq[i].uri \in uris}
           first == CHOOSE i \in found : \A j \in found : i <= j
<1>1. CASE found = {}
    BY <1>1 DEF IdFromOldId
<1>2. CASE found # {}
    <2>1. found \subseteq Nat
        BY LenProperties DEF QueueType
    <2>2. \E i \in found : \A j \in found : i <= j
        <3>. HIDE DEF found
        <3>. QED BY <1>2, <2>1, First
    <2>3. first \in DOMAIN mq
        BY <2>2
    <2>4. mq[first] \in Entry
        BY <2>3, LenProperties, ElementOfSeq DEF QueueType
    <2>5. IdFromOldId(id) = mq[first].id
        BY <1>2 DEF IdFromOldId
    <2>. QED BY <2>4, <2>5 DEF Entry
<1>. QED BY <1>1, <1>2

LEMMA ActivatedInv == ASSUME IInv, Activated PROVE IInv'
<1>1. UNCHANGED <<mq, qv, nid, saved, lastpos, stat, cache, eqv>>
    BY DEF Activated, mpd, last, thread
<1>2. QueueType'
    BY <1>1 DEF IInv, QueueType
<1>3. pc' \in {"idle", "set", "delete"} /\ pc = "activate"
    BY DEF Activated, Goto, Finish
<1>4. RequestType'
    <2>1. CASE pc' = "idle"
        BY <2>1 DEF RequestType
    <2>2. CASE pc' # "idle"
        <3>1. req.op # "none" /\ req' = [req EXCEPT !.after = IdFromOldId(req.after)]
              /\ pc' = IF req.op = "insert" THEN "set" ELSE "delete"
            BY <2>2 DEF Activated, Goto, Finish
        <3>2. req \in InsertRequest \cup DeleteRequest
            BY <1>3, <3>1 DEF IInv, RequestType, NoRequest
        <3>3. IdFromOldId(req.after) \in Nat
            BY OldIdType DEF IInv
        <3>4. CASE req \in InsertRequest
            BY <3>1, <3>3, <3>4 DEF InsertRequest, RequestType
        <3>5. CASE req \in DeleteRequest
            BY <3>1, <3>3, <3>5 DEF DeleteRequest, RequestType
        <3>. QED BY <3>2, <3>4, <3>5
    <2>. QED BY <2>1, <2>2
<1>5. VersionInv'
    BY <1>1, <1>3 DEF IInv, VersionInv, cache
<1>. QED BY <1>1, <1>2, <1>4, <1>5, CachedSame DEF IInv, cache

-----------------------------------------------------------------------------
(* MPD and its other clients *)

LEMMA OtherInv == ASSUME IInv, OtherAdd \/ OtherDelete PROVE IInv'
<1>1. UNCHANGED <<stat, lastpos, saved, cache, eqv, pc, req>>
    BY DEF OtherAdd, OtherDelete, last, source, thread
<1>2. mq' \in Seq(Entry) /\ qv' = qv + 1 /\ nid' \in Nat \ {0}
    <2>1. CASE OtherAdd
        <3>1. PICK pos \in 0..Len(mq), u \in Uri : CanAdd(pos) /\ AddAt(pos, u, "other")
            BY <2>1 DEF OtherAdd
        <3>2. pos \in Nat
            BY LenProperties DEF IInv, QueueType
        <3>. QED BY <3>1, <3>2, AddAtKeeps DEF IInv
    <2>2. CASE OtherDelete
        <3>1. PICK i \in DOMAIN mq : Delete(i, play)
            BY <2>2 DEF OtherDelete
        <3>. QED BY <3>1, DeleteKeeps DEF IInv, QueueType
    <2>. QED BY <2>1, <2>2
<1>3. QueueType' /\ RequestType'
    BY <1>1, <1>2 DEF IInv, QueueType, RequestType
<1>4. VersionInv' /\ Cached'
    BY <1>1, <1>2, NewVersion DEF IInv, QueueType, VersionInv, cache
<1>. QED BY <1>3, <1>4 DEF IInv

LEMMA SameInv == ASSUME IInv, Advance \/ NewTitle \/ UNCHANGED vars PROVE IInv'
<1>1. UNCHANGED <<mq, qv, nid, stat, lastpos, saved, cache, eqv, pc, req>>
    BY DEF Advance, NewTitle, vars, mpd, last, source, thread, soap
<1>2. QueueType' /\ RequestType' /\ VersionInv'
    BY <1>1 DEF IInv, QueueType, RequestType, VersionInv, cache
<1>. QED BY <1>1, <1>2, CachedSame DEF IInv, cache

-----------------------------------------------------------------------------
(* The theorems *)

LEMMA StepInv == IInv /\ [Next]_vars => IInv'
<1>. SUFFICES ASSUME IInv, [Next]_vars PROVE IInv'
    OBVIOUS
<1>1. CASE EventThreads
    BY <1>1, EventInv
<1>2. CASE SoapWork
    BY <1>2, InsertInv, AddInv, DeleteInv, ArrayInv, PlayInv, RestoreInv, ActivatedInv DEF SoapWork
<1>3. CASE InsertCall \/ DeleteCall
    BY <1>3, CallInv
<1>4. CASE Play \/ Pause \/ Stop \/ Activate
    BY <1>4, PlayInv
<1>5. CASE ArrayCall \/ Read \/ Deactivate
    BY <1>5, ArrayInv
<1>6. CASE OtherAdd \/ OtherDelete
    BY <1>6, OtherInv
<1>7. CASE Advance \/ NewTitle \/ UNCHANGED vars
    BY <1>7, SameInv
<1>. QED BY <1>1, <1>2, <1>3, <1>4, <1>5, <1>6, <1>7 DEF Next

\* The inductive invariant of the playlist service: the array and the metadata which
\* makeIdArray() caches belong to a version which is not newer than MPD's.
THEOREM CacheInvariant == Spec => []IInv
BY InitInv, StepInv, PTL DEF Spec

\* makeIdArray() reads the version before the queue: whatever the other threads and
\* the other MPD clients do, an array with MPD's version is MPD's queue.
THEOREM ArrayFresh == Spec => []IdArrayFresh
<1>1. IInv => IdArrayFresh
    BY DEF IInv, Cached, IdArrayFresh
<1>. QED BY <1>1, CacheInvariant, PTL

\* The metadata of every track which the array shows is in m_metacache ("not found"
\* should not happen).
THEOREM CacheCovers == Spec => []MetaCovers
<1>1. IInv => MetaCovers
    BY DEF IInv, Cached, MetaCovers
<1>. QED BY <1>1, CacheInvariant, PTL

-----------------------------------------------------------------------------
(* Insertions, when upmpdcli is MPD's only client *)

LEMMA InsertAtElements ==
    ASSUME NEW q \in Seq(Entry), NEW i \in 1..Len(q) + 1, NEW e \in Entry
    PROVE  /\ DOMAIN InsertAt(q, i, e) = 1..Len(q) + 1
           /\ InsertAt(q, i, e)[i] = e
           /\ \A j \in 1..i - 1 : InsertAt(q, i, e)[j] = q[j]
           /\ \A j \in i + 1..Len(q) + 1 : InsertAt(q, i, e)[j] = q[j - 1]
<1> DEFINE a == SubSeq(q, 1, i - 1)
           b == SubSeq(q, i, Len(q))
<1>. Len(q) \in Nat
    BY LenProperties
<1>1. a \in Seq(Entry) /\ Len(a) = i - 1 /\ \A j \in 1..i - 1 : a[j] = q[j]
    BY Parts, SubSeqProperties
<1>2. b \in Seq(Entry) /\ Len(b) = Len(q) - i + 1 /\ \A j \in 1..Len(q) - i + 1 : b[j] = q[i + j - 1]
    BY Parts, SubSeqProperties
<1> HIDE DEF a, b
<1>3. /\ a \o <<e>> \in Seq(Entry) /\ Len(a \o <<e>>) = i
      /\ \A j \in 1..i - 1 : (a \o <<e>>)[j] = q[j]
      /\ (a \o <<e>>)[i] = e
    BY <1>1, ConcatProperties
<1>4. /\ (a \o <<e>>) \o b \in Seq(Entry) /\ Len((a \o <<e>>) \o b) = Len(q) + 1
      /\ \A j \in 1..i : ((a \o <<e>>) \o b)[j] = (a \o <<e>>)[j]
      /\ \A j \in i + 1..Len(q) + 1 : ((a \o <<e>>) \o b)[j] = b[j - i]
    BY <1>2, <1>3, ConcatProperties
<1>5. InsertAt(q, i, e) = (a \o <<e>>) \o b
    BY DEF InsertAt, a, b
<1>6. \A j \in i + 1..Len(q) + 1 : ((a \o <<e>>) \o b)[j] = q[j - 1]
    <2>. SUFFICES ASSUME NEW j \in i + 1..Len(q) + 1 PROVE ((a \o <<e>>) \o b)[j] = q[j - 1]
        OBVIOUS
    <2>1. j - i \in 1..Len(q) - i + 1 /\ i + (j - i) - 1 = j - 1
        OBVIOUS
    <2>. QED BY <1>2, <1>4, <2>1
<1>7. DOMAIN ((a \o <<e>>) \o b) = 1..Len(q) + 1
    BY <1>4, LenProperties
<1>. QED BY <1>3, <1>4, <1>5, <1>6, <1>7

LEMMA RemoveAtElements ==
    ASSUME NEW q \in Seq(Entry), NEW i \in 1..Len(q)
    PROVE  /\ DOMAIN RemoveAt(q, i) = 1..Len(q) - 1
           /\ \A j \in 1..i - 1 : RemoveAt(q, i)[j] = q[j]
           /\ \A j \in i..Len(q) - 1 : RemoveAt(q, i)[j] = q[j + 1]
<1> DEFINE a == SubSeq(q, 1, i - 1)
           b == SubSeq(q, i + 1, Len(q))
<1>. Len(q) \in Nat
    BY LenProperties
<1>1. a \in Seq(Entry) /\ Len(a) = i - 1 /\ \A j \in 1..i - 1 : a[j] = q[j]
    BY Parts, SubSeqProperties
<1>2. b \in Seq(Entry) /\ Len(b) = Len(q) - i /\ \A j \in 1..Len(q) - i : b[j] = q[i + j]
    BY Parts, SubSeqProperties
<1> HIDE DEF a, b
<1>3. /\ a \o b \in Seq(Entry) /\ Len(a \o b) = Len(q) - 1
      /\ \A j \in 1..i - 1 : (a \o b)[j] = a[j]
      /\ \A j \in i..Len(q) - 1 : (a \o b)[j] = b[j - i + 1]
    <2>1. /\ a \o b \in Seq(Entry) /\ Len(a \o b) = Len(a) + Len(b)
          /\ \A j \in 1..Len(a) + Len(b) :
                (a \o b)[j] = IF j <= Len(a) THEN a[j] ELSE b[j - Len(a)]
        BY <1>1, <1>2, ConcatProperties
    <2>2. Len(a) = i - 1 /\ Len(b) = Len(q) - i
        BY <1>1, <1>2
    <2>3. Len(a) + Len(b) = Len(q) - 1
        BY <2>2
    <2>4. ASSUME NEW j \in 1..i - 1 PROVE (a \o b)[j] = a[j]
        BY <2>1, <2>2, <2>3
    <2>5. ASSUME NEW j \in i..Len(q) - 1 PROVE (a \o b)[j] = b[j - i + 1]
        <3>1. j \in 1..Len(a) + Len(b) /\ ~(j <= Len(a)) /\ j - Len(a) = j - i + 1
            BY <2>2, <2>3
        <3>. QED BY <2>1, <3>1
    <2>. QED BY <2>1, <2>3, <2>4, <2>5
<1>4. \A j \in i..Len(q) - 1 : (a \o b)[j] = q[j + 1]
    <2>. SUFFICES ASSUME NEW j \in i..Len(q) - 1 PROVE (a \o b)[j] = q[j + 1]
        OBVIOUS
    <2>1. j - i + 1 \in 1..Len(q) - i /\ i + (j - i + 1) = j + 1
        OBVIOUS
    <2>. QED BY <1>2, <1>3, <2>1
<1>5. DOMAIN (a \o b) = 1..Len(q) - 1
    BY <1>3, LenProperties
<1>6. RemoveAt(q, i) = a \o b
    BY DEF RemoveAt, a, b
<1>. QED BY <1>1, <1>3, <1>4, <1>5, <1>6

\* The position of the last insertion, and that of the current one.
IdsBelow == \A i \in DOMAIN mq : mq[i].id < nid
Remembered ==
    lastid # 0 /\ lastqv = qv => lastpos + 1 \in DOMAIN mq /\ mq[lastpos + 1].id = lastid
Position ==
    /\ pc = "list" => req.after # 0
    /\ pc = "add" => /\ req.pos \in 0..Len(mq)
                     /\ req.after = 0 => req.pos = 0
                     /\ req.after \in IdSet(mq) => req.pos \in DOMAIN mq /\ mq[req.pos].id = req.after
    /\ pc = "stat" => req.pos + 1 \in DOMAIN mq /\ mq[req.pos + 1].id = lastid
PlaceInv == IInv /\ lastqv \in 0..qv /\ IdsBelow /\ Remembered /\ Position

LEMMA IdNotZero == ASSUME QueueType PROVE 0 \notin IdSet(mq)
<1>1. \A i \in DOMAIN mq : mq[i] \in Entry
    BY LenProperties, ElementOfSeq DEF QueueType
<1>. QED BY <1>1 DEF IdSet, Entry

\* The queue and the remembered position do not change.
LEMMA QuietPlace ==
    ASSUME PlaceInv, IInv', UNCHANGED <<mq, qv, nid, last>>,
           UNCHANGED <<pc, req>> \/ pc' \notin {"list", "add", "stat"}
    PROVE  PlaceInv'
<1>1. (lastqv \in 0..qv)' /\ IdsBelow' /\ Remembered'
    BY DEF PlaceInv, IdsBelow, Remembered, last
<1>2. Position'
    BY DEF PlaceInv, Position, IdSet, last
<1>. QED BY <1>1, <1>2 DEF PlaceInv

LEMMA FindPlace ==
    ASSUME PlaceInv, IInv', InsertAfterId \/ InsertList \/ InsertStat
    PROVE  PlaceInv'
<1>1. UNCHANGED <<mq, qv, nid>>
    BY DEF InsertAfterId, InsertList, InsertStat, mpd
<1>2. pc \in {"insert", "list", "stat"} /\ req \in InsertRequest
    BY DEF PlaceInv, IInv, RequestType, InsertAfterId, InsertList, InsertStat
<1>3. 0 \notin IdSet(mq) /\ qv \in Nat /\ Len(mq) \in Nat /\ DOMAIN mq = 1..Len(mq)
    BY IdNotZero, LenProperties DEF PlaceInv, IInv, QueueType
<1>4. CASE InsertAfterId
    <2>1. UNCHANGED last /\ pc = "insert"
        BY <1>4 DEF InsertAfterId
    <2>2. CASE req.after = 0
        <3>1. pc' = "add" /\ req'.after = 0 /\ req'.pos = 0
            BY <1>2, <1>4, <2>2 DEF InsertAfterId, Goto, InsertRequest
        <3>2. Position'
            BY <1>1, <1>3, <3>1 DEF Position, IdSet
        <3>. QED BY <1>1, <2>1, <3>2 DEF PlaceInv, IdsBelow, Remembered, last
    <2>3. CASE req.after # 0 /\ lastid = req.after /\ lastqv = qv
        <3>1. pc' = "add" /\ req'.after = req.after /\ req'.pos = lastpos + 1
            BY <1>2, <1>4, <2>3 DEF InsertAfterId, Goto, InsertRequest
        <3>2. Position'
            BY <1>1, <1>3, <2>3, <3>1 DEF PlaceInv, Remembered, Position, IdSet
        <3>. QED BY <1>1, <2>1, <3>2 DEF PlaceInv, IdsBelow, Remembered, last
    <2>4. CASE req.after # 0 /\ ~(lastid = req.after /\ lastqv = qv)
        <3>1. pc' = "list" /\ req' = req
            BY <1>4, <2>4 DEF InsertAfterId, Goto
        <3>2. Position'
            BY <2>4, <3>1 DEF Position
        <3>. QED BY <1>1, <2>1, <3>2 DEF PlaceInv, IdsBelow, Remembered, last
    <2>. QED BY <2>2, <2>3, <2>4
<1>5. CASE InsertList
    <2>1. UNCHANGED last /\ pc = "list" /\ pc' = "add"
        BY <1>5 DEF InsertList, Goto
    <2>2. req'.after = req.after /\ req'.pos = PositionAfter(req.after)
        BY <1>2, <1>5 DEF InsertList, InsertRequest
    <2>3. req.after # 0
        BY <2>1 DEF PlaceInv, Position
    <2>4. ASSUME req.after \in IdSet(mq)
          PROVE  req'.pos \in DOMAIN mq /\ mq[req'.pos].id = req.after
        <3>1. PICK i \in DOMAIN mq : mq[i].id = req.after
            BY <2>4 DEF IdSet
        <3>2. mq # <<>>
            BY <3>1
        <3>3. req'.pos = IndexOf(mq, req.after)
            BY <2>2, <2>4, <3>2 DEF PositionAfter
        <3>. QED BY <3>1, <3>3 DEF IndexOf
    <2>5. req'.pos \in 0..Len(mq)
        BY <1>3, <2>2, IndexType DEF PlaceInv, IInv, PositionAfter
    <2>6. Position'
        BY <1>1, <2>1, <2>2, <2>3, <2>4, <2>5 DEF Position, IdSet
    <2>. QED BY <1>1, <2>1, <2>6 DEF PlaceInv, IdsBelow, Remembered, last
<1>6. CASE InsertStat
    <2>1. pc = "stat" /\ pc' = "idle" /\ UNCHANGED lastid /\ lastpos' = req.pos /\ lastqv' = qv
        BY <1>6 DEF InsertStat, Finish
    <2>2. Remembered' /\ Position'
        BY <1>1, <2>1 DEF PlaceInv, Remembered, Position
    <2>. QED BY <1>1, <1>3, <2>1, <2>2 DEF PlaceInv, IdsBelow
<1>. QED BY <1>4, <1>5, <1>6

\* The new track is at the position which was asked for, the ones before it stay.
LEMMA AddElements ==
    ASSUME QueueType, IdsBelow, NEW pos \in Nat, NEW u \in Uri, NEW by \in {"cp", "other"},
           CanAdd(pos), AddAt(pos, u, by)
    PROVE  /\ pos + 1 \in DOMAIN mq' /\ mq'[pos + 1].id = nid
           /\ \A j \in DOMAIN mq' : j # pos + 1 => mq'[j].id < nid
           /\ \A j \in 1..pos : mq'[j] = mq[j]
           /\ IdsBelow'
<1> DEFINE e == [id |-> nid, uri |-> u, by |-> by]
<1>1. mq \in Seq(Entry) /\ e \in Entry /\ nid \in Nat
    BY DEF QueueType, Entry
<1>2. Len(mq) \in Nat /\ DOMAIN mq = 1..Len(mq) /\ pos + 1 \in 1..Len(mq) + 1
    BY <1>1, LenProperties DEF CanAdd
<1>3. mq' = InsertAt(mq, pos + 1, e) /\ nid' = nid + 1
    BY DEF AddAt
<1>4. e.id = nid
    OBVIOUS
<1> HIDE DEF e
<1>5. /\ DOMAIN mq' = 1..Len(mq) + 1 /\ mq'[pos + 1] = e
      /\ \A j \in 1..(pos + 1) - 1 : mq'[j] = mq[j]
      /\ \A j \in (pos + 1) + 1..Len(mq) + 1 : mq'[j] = mq[j - 1]
    <2> DEFINE k == pos + 1
    <2>1. k \in 1..Len(mq) + 1 /\ mq' = InsertAt(mq, k, e)
        BY <1>2, <1>3
    <2> HIDE DEF k
    <2>2. /\ DOMAIN InsertAt(mq, k, e) = 1..Len(mq) + 1
          /\ InsertAt(mq, k, e)[k] = e
          /\ \A j \in 1..k - 1 : InsertAt(mq, k, e)[j] = mq[j]
          /\ \A j \in k + 1..Len(mq) + 1 : InsertAt(mq, k, e)[j] = mq[j - 1]
        BY <1>1, <2>1, InsertAtElements, Zenon
    <2>. QED BY <2>1, <2>2 DEF k
<1>6. ASSUME NEW j \in 1..Len(mq) + 1, j # pos + 1
      PROVE  mq'[j].id < nid
    <2>1. CASE j < pos + 1
        <3>1. j \in DOMAIN mq /\ mq'[j] = mq[j]
            BY <1>2, <1>5, <2>1
        <3>. QED BY <3>1 DEF IdsBelow
    <2>2. CASE j > pos + 1
        <3>1. j - 1 \in DOMAIN mq /\ mq'[j] = mq[j - 1]
            BY <1>2, <1>5, <2>2
        <3>. QED BY <3>1 DEF IdsBelow
    <2>. QED BY <1>2, <1>6, <2>1, <2>2
<1>7. IdsBelow'
    <2>. SUFFICES ASSUME NEW j \in DOMAIN mq' PROVE mq'[j].id < nid + 1
        BY <1>3 DEF IdsBelow
    <2>1. CASE j = pos + 1
        BY <1>1, <1>4, <1>5, <2>1
    <2>2. CASE j # pos + 1
        <3>1. mq'[j].id < nid
            BY <1>5, <1>6, <2>2
        <3>2. mq'[j].id \in Nat
            <4>1. mq' \in Seq(Entry)
                BY <1>1, <1>2, <1>3, InsertAtType
            <4>2. mq'[j] \in Entry
                BY <4>1, LenProperties, ElementOfSeq
            <4>. QED BY <4>2 DEF Entry
        <3>. QED BY <1>1, <3>1, <3>2
    <2>. QED BY <2>1, <2>2
<1>. QED BY <1>2, <1>4, <1>5, <1>6, <1>7

LEMMA AddPlace == ASSUME PlaceInv, IInv', InsertAdd PROVE PlaceInv'
<1>1. pc = "add" /\ req \in InsertRequest /\ UNCHANGED <<lastpos, lastqv>>
    BY DEF PlaceInv, IInv, RequestType, InsertAdd
<1>2. CASE /\ CanAdd(req.pos) /\ AddAt(req.pos, req.uri, "cp") /\ lastid' = nid
           /\ pc' = "stat" /\ req' = req
    <2>1. qv' = qv + 1
        BY <1>2 DEF AddAt
    <2>2. req.pos + 1 \in DOMAIN mq' /\ mq'[req.pos + 1].id = nid /\ IdsBelow'
        BY <1>1, <1>2, AddElements DEF PlaceInv, IInv, InsertRequest
    <2>3. (lastqv \in 0..qv)' /\ Remembered'
        BY <1>1, <2>1 DEF PlaceInv, IInv, QueueType, Remembered
    <2>4. Position'
        BY <1>1, <1>2, <2>2 DEF Position
    <2>. QED BY <2>2, <2>3, <2>4 DEF PlaceInv
<1>3. CASE lastid' = 0 /\ pc' = "idle" /\ UNCHANGED mpd
    <2>1. Remembered' /\ Position'
        BY <1>3 DEF Remembered, Position
    <2>. QED BY <1>1, <1>3, <2>1 DEF PlaceInv, IdsBelow, mpd
<1>. QED BY <1>2, <1>3 DEF InsertAdd, Goto, Finish

LEMMA DeleteElements ==
    ASSUME QueueType, IdsBelow, NEW i \in DOMAIN mq, NEW was, Delete(i, was)
    PROVE  IdsBelow' /\ qv' = qv + 1
<1>1. mq \in Seq(Entry) /\ DOMAIN mq = 1..Len(mq) /\ Len(mq) \in Nat
    BY LenProperties DEF QueueType
<1>2. /\ DOMAIN RemoveAt(mq, i) = 1..Len(mq) - 1
      /\ \A j \in 1..i - 1 : RemoveAt(mq, i)[j] = mq[j]
      /\ \A j \in i..Len(mq) - 1 : RemoveAt(mq, i)[j] = mq[j + 1]
    BY <1>1, RemoveAtElements
<1>3. mq' = RemoveAt(mq, i) /\ nid' = nid /\ qv' = qv + 1
    BY DEF Delete
<1>4. ASSUME NEW j \in 1..Len(mq) - 1 PROVE mq'[j].id < nid
    <2>1. CASE j < i
        <3>1. j \in DOMAIN mq /\ mq'[j] = mq[j]
            BY <1>1, <1>2, <1>3, <2>1
        <3>. QED BY <3>1 DEF IdsBelow
    <2>2. CASE j >= i
        <3>1. j + 1 \in DOMAIN mq /\ mq'[j] = mq[j + 1]
            BY <1>1, <1>2, <1>3, <2>2
        <3>. QED BY <3>1 DEF IdsBelow
    <2>. QED BY <1>1, <2>1, <2>2
<1>. QED BY <1>2, <1>3, <1>4 DEF IdsBelow

LEMMA DeletePlace == ASSUME PlaceInv, IInv', DeleteId PROVE PlaceInv'
<1>1. UNCHANGED last /\ pc' = "idle"
    BY DEF DeleteId, Finish
<1>2. Position'
    BY <1>1 DEF Position
<1>3. CASE req.after \in IdSet(mq)
    <2>1. PICK was : Delete(IndexOf(mq, req.after), was)
        BY <1>3 DEF DeleteId
    <2>2. IndexOf(mq, req.after) \in DOMAIN mq
        BY <1>3, IndexType DEF PlaceInv, IInv
    <2>3. IdsBelow' /\ qv' = qv + 1
        BY <2>1, <2>2, DeleteElements DEF PlaceInv, IInv
    <2>4. (lastqv \in 0..qv)' /\ Remembered'
        BY <1>1, <2>3 DEF PlaceInv, IInv, QueueType, Remembered, last
    <2>. QED BY <1>2, <2>3, <2>4 DEF PlaceInv
<1>4. CASE req.after \notin IdSet(mq)
    BY <1>1, <1>4, QuietPlace DEF DeleteId
<1>. QED BY <1>3, <1>4

LEMMA OtherPlace == ASSUME ~Others, PlaceInv, IInv', OtherAdd \/ OtherDelete PROVE PlaceInv'
<1>1. UNCHANGED last /\ pc = "idle" /\ pc' = "idle"
    BY DEF OtherAdd, OtherDelete
<1>2. Position'
    BY <1>1 DEF Position
<1>3. IdsBelow' /\ qv' = qv + 1
    <2>1. CASE OtherAdd
        <3>1. PICK pos \in 0..Len(mq), u \in Uri : CanAdd(pos) /\ AddAt(pos, u, "other")
            BY <2>1 DEF OtherAdd
        <3>2. pos \in Nat
            BY LenProperties DEF PlaceInv, IInv, QueueType
        <3>3. IdsBelow'
            BY <3>1, <3>2, AddElements DEF PlaceInv, IInv
        <3>. QED BY <3>1, <3>3 DEF AddAt
    <2>2. CASE OtherDelete
        <3>1. PICK i \in DOMAIN mq : Delete(i, play)
            BY <2>2 DEF OtherDelete
        <3>. QED BY <3>1, DeleteElements DEF PlaceInv, IInv
    <2>. QED BY <2>1, <2>2
<1>4. (lastqv \in 0..qv)' /\ Remembered'
    BY <1>1, <1>3 DEF PlaceInv, IInv, QueueType, Remembered, last
<1>. QED BY <1>2, <1>3, <1>4 DEF PlaceInv

LEMMA RestorePlace == ASSUME PlaceInv, IInv', RestoreState PROVE PlaceInv'
<1> DEFINE n == Len(saved.q)
<1>1. n \in Nat /\ saved.q \in [1..n -> Entry] /\ nid \in Nat /\ qv \in Nat
    BY LenProperties DEF PlaceInv, IInv, QueueType
<1>2. /\ mq' = [i \in 1..n |-> [saved.q[i] EXCEPT !.id = nid + i - 1]]
      /\ nid' = nid + n /\ qv' = qv + n + 1
      /\ IF n = 0 THEN UNCHANGED last ELSE lastid' = nid' - 1 /\ lastpos' = n - 1 /\ lastqv' = qv'
    BY DEF RestoreState
<1>3. ASSUME NEW i \in 1..n PROVE mq'[i].id = nid + i - 1
    <2>1. saved.q[i] \in Entry
        BY <1>1
    <2>. QED BY <1>2, <2>1 DEF Entry
<1>4. DOMAIN mq' = 1..n
    BY <1>2
<1> HIDE DEF n
<1>5. IdsBelow'
    BY <1>1, <1>2, <1>3, <1>4 DEF IdsBelow
<1>6. (lastqv \in 0..qv)' /\ Remembered'
    <2>1. CASE n = 0
        BY <1>1, <1>2, <2>1 DEF PlaceInv, Remembered, last
    <2>2. CASE n # 0
        <3>1. lastid' = nid + n - 1 /\ lastpos' + 1 = n /\ lastqv' = qv' /\ qv' \in Nat
            BY <1>1, <1>2, <2>2
        <3>2. n \in 1..n
            BY <1>1, <2>2
        <3>. QED BY <1>3, <1>4, <3>1, <3>2 DEF Remembered
    <2>. QED BY <2>1, <2>2
<1>7. Position'
    BY DEF Position, RestoreState, Goto
<1>. QED BY <1>5, <1>6, <1>7 DEF PlaceInv

LEMMA PlaceStep == ASSUME ~Others, PlaceInv, [Next]_vars PROVE PlaceInv'
<1>1. IInv'
    BY StepInv DEF PlaceInv
<1>2. CASE EventThreads
    <2>1. UNCHANGED <<mpd, last, soap>>
        BY <1>2 DEF EventThreads, EventWake, Callback, CallbackRead, Poll
    <2>. QED BY <1>1, <2>1, QuietPlace DEF mpd, soap
<1>3. CASE \/ CacheSet \/ ArrayRead \/ ArrayToken \/ SaveState \/ Activated \/ InsertCall
           \/ DeleteCall \/ Play \/ Pause \/ Stop \/ ArrayCall \/ Deactivate \/ Activate
    <2>1. UNCHANGED <<mq, qv, nid, last>>
        BY <1>3 DEF CacheSet, ArrayRead, ArrayToken, SaveState, Activated, InsertCall, DeleteCall,
           Request, Play, Pause, Stop, ArrayCall, Deactivate, Activate, mpd
    <2>2. UNCHANGED <<pc, req>> \/ pc' \notin {"list", "add", "stat"}
        BY <1>3 DEF CacheSet, ArrayRead, ArrayToken, SaveState, Activated, InsertCall, DeleteCall,
           Request, Play, Pause, Stop, ArrayCall, Deactivate, Activate, Goto, Finish, soap
    <2>. QED BY <1>1, <2>1, <2>2, QuietPlace
<1>4. CASE Read \/ Advance \/ NewTitle \/ UNCHANGED vars
    <2>1. UNCHANGED <<mq, qv, nid, last, pc, req>>
        BY <1>4 DEF Read, Advance, NewTitle, vars, mpd, soap
    <2>. QED BY <1>1, <2>1, QuietPlace
<1>5. CASE InsertAfterId \/ InsertList \/ InsertStat
    BY <1>1, <1>5, FindPlace
<1>6. CASE InsertAdd
    BY <1>1, <1>6, AddPlace
<1>7. CASE DeleteId
    BY <1>1, <1>7, DeletePlace
<1>8. CASE RestoreState
    BY <1>1, <1>8, RestorePlace
<1>9. CASE OtherAdd \/ OtherDelete
    BY <1>1, <1>9, OtherPlace
<1>. QED BY <1>2, <1>3, <1>4, <1>5, <1>6, <1>7, <1>8, <1>9 DEF Next, SoapWork

-----------------------------------------------------------------------------
(* The metadata which control points gave *)

\* makeIdArray() reads the queue while the service is active and nobody can change
\* that, so that the queue which it reads is the playlist.
ReadLock ==
    /\ pc \in {"arrread", "save"} => active
    /\ epc # "idle" => active /\ pc \notin {"arrread", "token", "save"}

\* MPDCli knows the uri of one song at most: only a song which has MPD's own metadata
\* loses it when its title changes.
OneUri == \A u, v \in stat.uri : u = v

MetaInv == ReadLock /\ OneUri

LEMMA LockStep == ASSUME ReadLock, [Next]_vars PROVE ReadLock'
<1>1. CASE EventThreads
    BY <1>1 DEF ReadLock, StateFree, EventThreads, EventWake, Poll, Callback, CallbackRead,
                source, thread, soap
<1>2. CASE SoapWork
    BY <1>2 DEF ReadLock, StateFree, SoapWork, CacheSet, InsertAfterId, InsertList, InsertAdd,
                InsertStat, DeleteId, ArrayRead, ArrayToken, SaveState, RestoreState, Activated,
                Goto, Finish, source, thread
<1>3. CASE InsertCall \/ DeleteCall
    BY <1>3 DEF ReadLock, InsertCall, DeleteCall, Request, Goto, source, thread
<1>4. CASE Play \/ Pause \/ Stop \/ ArrayCall \/ Read \/ Deactivate \/ Activate
    BY <1>4 DEF ReadLock, StateFree, Play, Pause, Stop, ArrayCall, Read, Deactivate, Activate, Goto,
                source, thread, soap
<1>5. CASE OtherAdd \/ OtherDelete \/ Advance \/ NewTitle \/ UNCHANGED vars
    BY <1>5 DEF ReadLock, OtherAdd, OtherDelete, Advance, NewTitle, vars, source, thread, soap
<1>. QED BY <1>1, <1>2, <1>3, <1>4, <1>5 DEF Next

LEMMA OneUriStep == ASSUME OneUri, [Next]_vars PROVE OneUri'
<1>1. Live.uri = {} \/ \E w : Live.uri = {w}
    BY DEF Live
<1>2. Live'.uri = {} \/ \E w : Live'.uri = {w}
    BY DEF Live
<1>3. stat' = stat \/ stat' = Live \/ stat' = Live'
    BY DEF Next, EventThreads, EventWake, Callback, CallbackRead, Poll, SoapWork, CacheSet,
       InsertAfterId, InsertList, InsertAdd, InsertStat, DeleteId, ArrayRead, ArrayToken,
       SaveState, RestoreState, Activated, InsertCall, DeleteCall, Request, Play, Pause, Stop,
       ArrayCall, Read, Deactivate, Activate, OtherAdd, OtherDelete, Advance, NewTitle, vars
<1>. QED BY <1>1, <1>2, <1>3 DEF OneUri

\* The metadata of uri u was given by a control point, and is kept.
Kept(u) == u \in DOMAIN meta /\ meta[u] = "cp" => u \in DOMAIN meta' /\ meta'[u] = "cp"

LEMMA MakeSameKeeps == ASSUME OneUri, MakeSame, NEW u PROVE Kept(u)
<1>1. CASE TitleChanged /\ u \in stat.uri
    <2>1. u \in DOMAIN meta => meta[u] \in Titles
        BY <1>1 DEF TitleChanged, OneUri
    <2>2. "cp" \notin Titles
        BY DEF Titles
    <2>. QED BY <2>1, <2>2 DEF Kept
<1>2. CASE ~(TitleChanged /\ u \in stat.uri)
    BY <1>2 DEF Kept, MakeSame
<1>. QED BY <1>1, <1>2

LEMMA MakeReadKeeps == ASSUME NEW v, MakeRead(v), NEW u \in Uris(mq) PROVE Kept(u)
BY DEF Kept, MakeRead

\* No step loses what the control points said of a track of the playlist.
LEMMA StepKeeps ==
    ASSUME MetaInv, [Next]_vars, NEW u \in Uris(Playlist) \cap Uris(Playlist)'
    PROVE  Kept(u)
<1>1. CASE UNCHANGED cache
    BY <1>1 DEF Kept, cache
<1>2. CASE CacheSet
    BY <1>2 DEF Kept, CacheSet
<1>3. CASE Read
    BY <1>3 DEF Kept, Read
<1>4. CASE MakeSame
    BY <1>4, MakeSameKeeps DEF MetaInv
<1>5. ASSUME active, NEW v, MakeRead(v) PROVE Kept(u)
    BY <1>5, MakeReadKeeps DEF Playlist
<1>6. CASE CallbackRead
    BY <1>5, <1>6 DEF MetaInv, ReadLock, CallbackRead
<1>7. CASE ArrayRead
    BY <1>5, <1>7 DEF MetaInv, ReadLock, ArrayRead
<1>8. CASE Deactivate
    BY <1>4, <1>5, <1>8 DEF Deactivate
<1>9. CASE (\E th \in Threads : Callback(th)) \/ ArrayCall
    BY <1>1, <1>4, <1>9 DEF Callback, ArrayCall
<1>10. CASE \/ EventWake \/ Poll \/ InsertCall \/ DeleteCall \/ Play \/ Pause \/ Stop \/ Activate
            \/ OtherAdd \/ OtherDelete \/ Advance \/ NewTitle \/ UNCHANGED vars
    BY <1>1, <1>10 DEF EventWake, Poll, InsertCall, DeleteCall, Request, Play, Pause, Stop, Activate,
                       OtherAdd, OtherDelete, Advance, NewTitle, vars
<1>11. CASE \/ InsertAfterId \/ InsertList \/ InsertAdd \/ InsertStat \/ DeleteId \/ ArrayToken
            \/ SaveState \/ RestoreState \/ Activated
    BY <1>1, <1>11 DEF InsertAfterId, InsertList, InsertAdd, InsertStat, DeleteId, ArrayToken,
                       SaveState, RestoreState, Activated
<1>. QED BY <1>2, <1>3, <1>6, <1>7, <1>8, <1>9, <1>10, <1>11 DEF Next, EventThreads, SoapWork

\* The metadata which a control point gave with a track is not lost nor replaced by
\* MPD's while the track is in the playlist: whatever the other clients of MPD do,
\* through any number of switches, and for a queue of any length.
THEOREM MetadataStable == Spec => MetaStable
<1>1. Init => MetaInv
    BY DEF Init, MetaInv, ReadLock, OneUri, Live
<1>2. MetaInv /\ [Next]_vars => MetaInv'
    BY LockStep, OneUriStep DEF MetaInv
<1>3. MetaInv /\ [Next]_vars =>
          [\A u \in Uris(Playlist) \cap Uris(Playlist)' \cap DOMAIN meta :
              meta[u] = "cp" => u \in DOMAIN meta' /\ meta'[u] = "cp"]_vars
    BY StepKeeps DEF Kept
<1>. QED BY <1>1, <1>2, <1>3, PTL DEF Spec, MetaStable

-----------------------------------------------------------------------------
(* Type correctness *)

Distinct(q) == \A i, j \in DOMAIN q : q[i].id = q[j].id => i = j

PlayStates == {"play", "pause", "stop"}

\* MPD: no id is given twice, the song is in the queue, and something plays only if
\* there is one.
SongInv == song \in IdSet(mq) \cup {0} /\ play \in PlayStates /\ (song = 0 => play = "stop")
MpdInv ==
    /\ Len(mq) <= MaxLen /\ Len(saved.q) <= MaxLen /\ saved.pos \in 0..Len(saved.q)
    /\ saved.play \in PlayStates /\ (saved.pos = 0 => saved.play = "stop")
    /\ IdsBelow /\ Distinct(mq) /\ SongInv
    /\ title \in Titles /\ evt \in BOOLEAN

\* MPDCli, which knows nothing that MPD does not know yet.
ClientType ==
    /\ stat \in [qv : 0..qv, song : 0..nid, title : Titles, uri : SUBSET Uri]
    /\ lastid \in 0..nid /\ lastpos \in 0..MaxLen /\ lastqv \in 0..qv
    /\ pc = "stat" => req.pos <= MaxLen

ListsType ==
    /\ upnp \in Seq(Nat) /\ arr \in Seq(Nat) /\ pub \in Seq(Nat)
    /\ DOMAIN meta \subseteq Uri /\ \A u \in DOMAIN meta : meta[u] \in Origins
ThreadType ==
    /\ epc \in {"idle"} \cup (Threads \cap due)
    /\ poller \in BOOLEAN /\ due \subseteq Threads \cup {"last"}
    /\ pc \in {"idle", "set", "insert", "list", "add", "stat", "delete", "arrread", "token",
              "save", "restore", "activate"}
    /\ active \in BOOLEAN /\ disturbed \in BOOLEAN

TypeInv == IInv /\ MpdInv /\ ClientType /\ ListsType /\ ThreadType

\* Distinct ids are as many as the tracks.
LEMMA DistinctCount ==
    ASSUME NEW q \in Seq(Entry), Distinct(q)
    PROVE  Cardinality(IdSet(q)) = Len(q)
<1> DEFINE f == [i \in 1..Len(q) |-> q[i].id]
<1>1. Len(q) \in Nat /\ DOMAIN q = 1..Len(q)
    BY LenProperties
<1>2. f \in Bijection(1..Len(q), IdSet(q))
    <2>1. f \in [1..Len(q) -> IdSet(q)]
        BY <1>1 DEF IdSet
    <2>2. \A i, j \in 1..Len(q) : f[i] = f[j] => i = j
        BY <1>1 DEF Distinct
    <2>3. \A x \in IdSet(q) : \E i \in 1..Len(q) : f[i] = x
        BY <1>1 DEF IdSet
    <2>. QED BY <2>1, <2>2, <2>3 DEF Bijection, Injection, Surjection, IsInjective
<1>3. IsFiniteSet(1..Len(q)) /\ Cardinality(1..Len(q)) = Len(q)
    BY <1>1, FS_Interval
<1> HIDE DEF f
<1>4. Cardinality(IdSet(q)) = Cardinality(1..Len(q))
    BY <1>2, <1>3, FS_Bijection DEF ExistsBijection
<1>. QED BY <1>3, <1>4

LEMMA IdsType == ASSUME NEW q \in Seq(Entry) PROVE Ids(q) \in Seq(Nat)
<1>1. Len(q) \in Nat /\ DOMAIN q = 1..Len(q) /\ \A i \in 1..Len(q) : q[i] \in Entry
    BY LenProperties, ElementOfSeq
<1>2. Ids(q) \in [1..Len(q) -> Nat]
    BY <1>1 DEF Ids, Entry
<1>. QED BY <1>1, <1>2, SeqDef

LEMMA UrisType == ASSUME QueueType PROVE Uris(mq) \subseteq Uri
<1>1. \A i \in DOMAIN mq : mq[i] \in Entry
    BY LenProperties, ElementOfSeq DEF QueueType
<1>. QED BY <1>1 DEF Uris, Entry

\* What updStatus() reads.
LEMMA LiveType ==
    QueueType /\ MpdInv =>
        Live \in [qv : 0..qv, song : 0..nid, title : Titles, uri : SUBSET Uri]
<1>. SUFFICES ASSUME QueueType, MpdInv
              PROVE  Live \in [qv : 0..qv, song : 0..nid, title : Titles, uri : SUBSET Uri]
    OBVIOUS
<1>1. song \in 0..nid
    <2>1. CASE song = 0
        BY <2>1 DEF QueueType
    <2>2. CASE song \in IdSet(mq)
        <3>1. PICK i \in DOMAIN mq : mq[i].id = song
            BY <2>2 DEF IdSet
        <3>2. mq[i] \in Entry /\ mq[i].id < nid
            BY LenProperties, ElementOfSeq DEF QueueType, MpdInv, IdsBelow
        <3>. QED BY <3>1, <3>2 DEF Entry, QueueType
    <2>. QED BY <2>1, <2>2 DEF MpdInv, SongInv
<1>2. Live.uri \subseteq Uri
    <2>1. CASE song = 0
        BY <2>1 DEF Live
    <2>2. CASE song # 0
        <3>1. IndexOf(mq, song) \in DOMAIN mq
            BY <2>2, IndexType DEF MpdInv, SongInv
        <3>2. mq[IndexOf(mq, song)] \in Entry
            BY <3>1, LenProperties, ElementOfSeq DEF QueueType
        <3>. QED BY <2>2, <3>2 DEF Live, Entry
    <2>. QED BY <2>1, <2>2
<1>. QED BY <1>1, <1>2 DEF Live, QueueType, MpdInv

LEMMA TypeParts == TypeInv => TypeOK
<1>. SUFFICES ASSUME TypeInv PROVE TypeOK
    OBVIOUS
<1>1. Cardinality(IdSet(mq)) = Len(mq)
    BY DistinctCount DEF TypeInv, IInv, QueueType, MpdInv
<1>. QED BY <1>1 DEF TypeInv, IInv, QueueType, VersionInv, MpdInv, SongInv, PlayStates,
                     ClientType, ListsType, ThreadType, TypeOK

LEMMA AddMpd ==
    ASSUME QueueType, MpdInv, NEW pos \in Nat, NEW u \in Uri, NEW by \in {"cp", "other"},
           CanAdd(pos), AddAt(pos, u, by)
    PROVE  Len(mq)' <= MaxLen /\ IdsBelow' /\ Distinct(mq)' /\ SongInv'
<1> DEFINE e == [id |-> nid, uri |-> u, by |-> by]
           Old(j) == IF j <= pos THEN j ELSE j - 1
<1>1. mq \in Seq(Entry) /\ e \in Entry /\ nid \in Nat /\ e.id = nid
    BY DEF QueueType, Entry
<1>2. Len(mq) \in Nat /\ DOMAIN mq = 1..Len(mq) /\ pos + 1 \in 1..Len(mq) + 1
    BY <1>1, LenProperties DEF CanAdd
<1>3. mq' = InsertAt(mq, pos + 1, e) /\ song' = song /\ play' = play
    BY DEF AddAt
<1> HIDE DEF e
<1>4. /\ DOMAIN mq' = 1..Len(mq) + 1 /\ mq'[pos + 1] = e
      /\ \A j \in 1..(pos + 1) - 1 : mq'[j] = mq[j]
      /\ \A j \in (pos + 1) + 1..Len(mq) + 1 : mq'[j] = mq[j - 1]
    <2>1. /\ DOMAIN InsertAt(mq, pos + 1, e) = 1..Len(mq) + 1
          /\ InsertAt(mq, pos + 1, e)[pos + 1] = e
          /\ \A j \in 1..(pos + 1) - 1 : InsertAt(mq, pos + 1, e)[j] = mq[j]
          /\ \A j \in (pos + 1) + 1..Len(mq) + 1 : InsertAt(mq, pos + 1, e)[j] = mq[j - 1]
        BY <1>1, <1>2, InsertAtElements
    <2>2. mq' = InsertAt(mq, pos + 1, e)
        BY <1>3
    <2>. QED BY <2>1, <2>2, Zenon
<1>5. ASSUME NEW j \in DOMAIN mq', j # pos + 1
      PROVE  Old(j) \in DOMAIN mq /\ mq'[j] = mq[Old(j)] /\ mq'[j].id # nid
    <2>1. Old(j) \in DOMAIN mq /\ mq'[j] = mq[Old(j)]
        BY <1>2, <1>4, <1>5
    <2>2. mq[Old(j)].id < nid
        BY <2>1 DEF MpdInv, IdsBelow
    <2>. QED BY <1>1, <2>1, <2>2
<1>6. Distinct(mq)'
    <2>. SUFFICES ASSUME NEW i \in DOMAIN mq', NEW j \in DOMAIN mq', mq'[i].id = mq'[j].id
                  PROVE  i = j
        BY DEF Distinct
    <2>1. CASE i = pos + 1 \/ j = pos + 1
        BY <1>1, <1>4, <1>5, <2>1
    <2>2. CASE i # pos + 1 /\ j # pos + 1
        <3>1. Old(i) = Old(j)
            BY <1>5, <2>2 DEF MpdInv, Distinct
        <3>. QED BY <1>2, <1>4, <2>2, <3>1
    <2>. QED BY <2>1, <2>2
<1>7. ASSUME NEW k \in DOMAIN mq PROVE \E j \in DOMAIN mq' : mq'[j].id = mq[k].id
    <2>1. CASE k <= pos
        BY <1>2, <1>4, <2>1
    <2>2. CASE k > pos
        <3>1. k + 1 \in DOMAIN mq' /\ mq'[k + 1] = mq[k]
            BY <1>2, <1>4, <2>2
        <3>. QED BY <3>1
    <2>. QED BY <1>2, <2>1, <2>2
<1>8. SongInv'
    BY <1>3, <1>7 DEF MpdInv, SongInv, IdSet
<1>9. Len(mq') = Len(mq) + 1
    <2>1. mq' \in Seq(Entry)
        BY <1>1, <1>2, <1>3, InsertAtType
    <2>. QED BY <1>2, <1>4, <2>1, LenProperties
<1>10. IdsBelow'
    BY AddElements DEF MpdInv
<1>. QED BY <1>2, <1>6, <1>8, <1>9, <1>10, BoundsAssumption DEF CanAdd

LEMMA SameLength == ASSUME NEW m \in Nat, NEW n \in Nat, 1..m = 1..n PROVE m = n
<1>1. Cardinality(1..m) = m /\ Cardinality(1..n) = n
    BY FS_Interval
<1>. QED BY <1>1

LEMMA DeleteMpd ==
    ASSUME QueueType, MpdInv, NEW i \in DOMAIN mq, NEW was \in PlayStates,
           song = 0 => was = "stop", Delete(i, was)
    PROVE  Len(mq)' <= MaxLen /\ IdsBelow' /\ Distinct(mq)' /\ SongInv'
<1> DEFINE Old(j) == IF j < i THEN j ELSE j + 1
<1>1. mq \in Seq(Entry) /\ DOMAIN mq = 1..Len(mq) /\ Len(mq) \in Nat
    BY LenProperties DEF QueueType
<1>2. mq' = RemoveAt(mq, i)
    BY DEF Delete
<1>3. /\ DOMAIN mq' = 1..Len(mq) - 1
      /\ \A j \in 1..i - 1 : mq'[j] = mq[j]
      /\ \A j \in i..Len(mq) - 1 : mq'[j] = mq[j + 1]
    BY <1>1, <1>2, RemoveAtElements, Zenon
<1>4. ASSUME NEW j \in DOMAIN mq' PROVE Old(j) \in DOMAIN mq /\ mq'[j] = mq[Old(j)]
    BY <1>1, <1>3
<1>5. Distinct(mq)'
    <2>. SUFFICES ASSUME NEW j \in DOMAIN mq', NEW k \in DOMAIN mq', mq'[j].id = mq'[k].id
                  PROVE  j = k
        BY DEF Distinct
    <2>1. Old(j) = Old(k)
        BY <1>4 DEF MpdInv, Distinct
    <2>. QED BY <1>1, <1>3, <2>1
<1>6. ASSUME NEW k \in DOMAIN mq, k # i PROVE \E j \in DOMAIN mq' : mq'[j].id = mq[k].id
    <2>1. CASE k < i
        BY <1>1, <1>3, <2>1
    <2>2. CASE k > i
        <3>1. k - 1 \in DOMAIN mq' /\ mq'[k - 1] = mq[k]
            BY <1>1, <1>3, <2>2
        <3>. QED BY <3>1
    <2>. QED BY <1>1, <1>6, <2>1, <2>2
<1>7. song' \in IdSet(mq)' \cup {0}
    <2>1. CASE song = mq[i].id
        <3>1. song' = 0 \/ song' = Following(mq, i)
            BY <2>1 DEF Delete
        <3>2. CASE i < Len(mq)
            BY <1>1, <1>6, <3>1, <3>2 DEF Following, IdSet
        <3>. QED BY <3>1, <3>2 DEF Following
    <2>2. CASE song # mq[i].id
        <3>1. song' = song
            BY <2>2 DEF Delete
        <3>. QED BY <1>6, <2>2, <3>1 DEF MpdInv, SongInv, IdSet
    <2>. QED BY <2>1, <2>2
<1>10. SongInv'
    BY <1>7 DEF SongInv, PlayStates, Delete
<1>8. Len(mq') <= MaxLen
    <2>1. mq' \in Seq(Entry)
        BY <1>1, <1>2, RemoveAtType
    <2>2. Len(mq') \in Nat /\ 1..Len(mq') = 1..Len(mq) - 1
        BY <1>3, <2>1, LenProperties
    <2>3. Len(mq') = Len(mq) - 1
        <3>1. Len(mq) - 1 \in Nat
            BY <1>1
        <3>. QED BY <2>2, <3>1, SameLength
    <2>. QED BY <1>1, <2>3, BoundsAssumption DEF MpdInv
<1>9. IdsBelow'
    BY DeleteElements DEF MpdInv
<1>. QED BY <1>5, <1>8, <1>9, <1>10

\* The steps which change the queue, the song or what is saved of them.
LEMMA MpdStep == ASSUME IInv, MpdInv, [Next]_vars PROVE MpdInv'
<1>. QueueType
    BY DEF IInv
<1>1. ASSUME UNCHANGED <<mq, nid, song, play, title, saved>>, evt' \in BOOLEAN PROVE MpdInv'
    BY <1>1 DEF MpdInv, SongInv, IdsBelow, Distinct, IdSet
<1>2. ASSUME UNCHANGED saved, title' \in Titles, evt' \in BOOLEAN, Len(mq)' <= MaxLen, IdsBelow',
             Distinct(mq)', SongInv'
      PROVE  MpdInv'
    BY <1>2 DEF MpdInv
<1>3. CASE \/ EventThreads \/ CacheSet \/ InsertAfterId \/ InsertList \/ InsertStat
           \/ ArrayRead \/ ArrayToken \/ Activated \/ InsertCall \/ DeleteCall \/ ArrayCall
           \/ Read \/ Deactivate \/ Activate \/ UNCHANGED vars
    <2>1. UNCHANGED <<mq, nid, song, play, title, saved>> /\ evt' \in {evt, FALSE}
        BY <1>3, Zenon
        DEF EventThreads, EventWake, Callback, CallbackRead, Poll, CacheSet, InsertAfterId,
            InsertList, InsertStat, ArrayRead, ArrayToken, Activated, InsertCall, DeleteCall,
            Request, ArrayCall, Read, Deactivate, Activate, mpd, source, vars
    <2>. QED BY <1>1, <2>1 DEF MpdInv
<1>4. CASE InsertAdd
    <2>1. UNCHANGED saved /\ req \in InsertRequest
        BY <1>4 DEF IInv, RequestType, InsertAdd, source
    <2>2. CASE CanAdd(req.pos) /\ AddAt(req.pos, req.uri, "cp")
        <3>1. UNCHANGED title /\ evt' = TRUE
            BY <2>2 DEF AddAt
        <3>. QED BY <1>2, <2>1, <2>2, <3>1, AddMpd DEF InsertRequest, MpdInv
    <2>3. CASE UNCHANGED <<mpd, evt>>
        BY <1>1, <2>1, <2>3 DEF MpdInv, mpd
    <2>. QED BY <1>4, <2>2, <2>3 DEF InsertAdd
<1>5. CASE OtherAdd
    <2>1. PICK pos \in 0..Len(mq), u \in Uri : CanAdd(pos) /\ AddAt(pos, u, "other")
        BY <1>5 DEF OtherAdd
    <2>2. pos \in Nat
        BY LenProperties DEF QueueType
    <2>3. UNCHANGED <<saved, title>> /\ evt' = TRUE
        BY <1>5, <2>1 DEF OtherAdd, AddAt, source
    <2>. QED BY <1>2, <2>1, <2>2, <2>3, AddMpd DEF MpdInv
<1>6. CASE DeleteId
    <2>1. UNCHANGED <<saved, title>>
        BY <1>6 DEF DeleteId, Delete, source
    <2> DEFINE was == IF stat.song = req.after THEN "stop" ELSE play
    <2>2. was \in PlayStates /\ (song = 0 => was = "stop")
        BY DEF MpdInv, SongInv, PlayStates
    <2>3. CASE req.after \in IdSet(mq)
        <3>1. Delete(IndexOf(mq, req.after), was) /\ IndexOf(mq, req.after) \in DOMAIN mq
            BY <1>6, <2>3, IndexType DEF DeleteId
        <3>2. evt' = TRUE
            BY <3>1 DEF Delete
        <3> HIDE DEF was
        <3>. QED BY <1>2, <2>1, <2>2, <3>1, <3>2, DeleteMpd DEF MpdInv
    <2>4. CASE req.after \notin IdSet(mq)
        <3>1. play' = was /\ evt' = (evt \/ was # play) /\ UNCHANGED <<mq, nid, song>>
            BY <1>6, <2>4 DEF DeleteId
        <3> HIDE DEF was
        <3>2. evt' \in BOOLEAN
            BY <3>1, Zenon
        <3>. QED BY <2>1, <2>2, <3>1, <3>2 DEF MpdInv, SongInv, IdsBelow, Distinct, IdSet
    <2>. QED BY <2>3, <2>4
<1>7. CASE OtherDelete
    <2>1. PICK i \in DOMAIN mq : Delete(i, play)
        BY <1>7 DEF OtherDelete
    <2>2. UNCHANGED <<saved, title>> /\ evt' = TRUE
        BY <1>7, <2>1 DEF OtherDelete, Delete, source
    <2>3. play \in PlayStates /\ (song = 0 => play = "stop")
        BY DEF MpdInv, SongInv
    <2>. QED BY <1>2, <2>1, <2>2, <2>3, DeleteMpd DEF MpdInv
<1>8. CASE Play \/ Pause \/ Stop \/ Advance \/ NewTitle
    <2>1. UNCHANGED <<mq, nid, saved>> /\ evt' = TRUE /\ title' \in Titles
        BY <1>8 DEF MpdInv, Titles, Play, Pause, Stop, Advance, NewTitle, source
    <2>2. SongInv'
        <3>1. CASE Advance
            <4>1. song \in IdSet(mq)
                BY <3>1 DEF MpdInv, SongInv, Advance
            <4>2. IndexOf(mq, song) \in DOMAIN mq /\ IndexOf(mq, song) \in Nat
                BY <4>1, IndexType
            <4>3. IndexOf(mq, song) < Len(mq) => IndexOf(mq, song) + 1 \in DOMAIN mq
                BY <4>2, LenProperties DEF QueueType
            <4>. QED BY <3>1, <4>3 DEF Advance, Following, SongInv, PlayStates, IdSet
        <3>2. CASE Play
            <4>1. 0 \notin IdSet(mq)
                BY IdNotZero
            <4>. QED BY <2>1, <3>2, <4>1 DEF Play, SongInv, PlayStates, IdSet
        <3>3. CASE Pause \/ Stop \/ NewTitle
            BY <2>1, <3>3 DEF MpdInv, Pause, Stop, NewTitle, SongInv, PlayStates, IdSet
        <3>. QED BY <1>8, <3>1, <3>2, <3>3
    <2>. QED BY <2>1, <2>2 DEF MpdInv, IdsBelow, Distinct
<1>9. CASE SaveState
    <2>1. UNCHANGED <<mq, nid, title, song>> /\ play' = "stop"
        BY <1>9 DEF SaveState
    <2>2. evt' \in BOOLEAN
        BY <1>9, Zenon DEF SaveState, MpdInv
    <2>3. /\ saved'.q = mq /\ saved'.play = play
          /\ saved'.pos = IF play = "stop" THEN 0 ELSE IndexOf(mq, song)
        BY <1>9 DEF SaveState
    <2>4. play # "stop" => IndexOf(mq, song) \in DOMAIN mq
        BY IndexType DEF MpdInv, SongInv
    <2>5. saved'.pos \in 0..Len(mq) /\ (saved'.pos = 0 => play = "stop")
        BY <2>3, <2>4, LenProperties DEF QueueType
    <2>6. SongInv'
        BY <2>1 DEF MpdInv, SongInv, PlayStates, IdSet
    <2>7. saved'.play \in PlayStates /\ (saved'.pos = 0 => saved'.play = "stop")
        BY <2>3, <2>5 DEF MpdInv, SongInv
    <2>. QED BY <2>1, <2>2, <2>3, <2>5, <2>6, <2>7 DEF MpdInv, IdsBelow, Distinct
<1>10. CASE RestoreState
    <2> DEFINE n == Len(saved.q)
    <2>1. n \in Nat /\ saved.q \in [1..n -> Entry] /\ nid \in Nat \ {0}
        BY LenProperties DEF QueueType
    <2>2. /\ mq' = [i \in 1..n |-> [saved.q[i] EXCEPT !.id = nid + i - 1]]
          /\ nid' = nid + n /\ title' = title /\ evt' = TRUE /\ UNCHANGED saved
          /\ song' = IF saved.pos = 0 THEN 0 ELSE nid + saved.pos - 1
          /\ play' = saved.play
        BY <1>10 DEF RestoreState, source
    <2>3. ASSUME NEW i \in 1..n PROVE mq'[i].id = nid + i - 1
        <3>1. saved.q[i] \in Entry
            BY <2>1
        <3>. QED BY <2>2, <3>1 DEF Entry
    <2>4. DOMAIN mq' = 1..n
        BY <2>2
    <2>5. Len(mq') = n
        BY <2>1, <2>2
    <2>6. saved.pos \in 0..n /\ n <= MaxLen
        BY DEF MpdInv
    <2> HIDE DEF n
    <2>7. IdsBelow' /\ Distinct(mq)'
        <3>1. \A i \in 1..n : mq'[i].id < nid'
            BY <2>1, <2>2, <2>3
        <3>2. \A i, j \in 1..n : mq'[i].id = mq'[j].id => i = j
            BY <2>1, <2>3
        <3>. QED BY <2>4, <3>1, <3>2 DEF IdsBelow, Distinct
    <2>8. song' \in IdSet(mq)' \cup {0} /\ (song' = 0 => saved.pos = 0)
        BY <2>1, <2>2, <2>3, <2>4, <2>6 DEF IdSet
    <2>9. SongInv'
        BY <2>2, <2>8 DEF SongInv, MpdInv
    <2>. QED BY <1>2, <2>2, <2>5, <2>6, <2>7, <2>9 DEF MpdInv
<1>. QED BY <1>3, <1>4, <1>5, <1>6, <1>7, <1>8, <1>9, <1>10 DEF Next, SoapWork

LEMMA ClientStep == ASSUME IInv, MpdInv, ClientType, IInv', MpdInv', [Next]_vars PROVE ClientType'
<1> DEFINE Status == [qv : 0..qv, song : 0..nid, title : Titles, uri : SUBSET Uri]
<1>1. qv \in Nat /\ qv' \in Nat /\ qv <= qv' /\ nid \in Nat /\ nid' \in Nat /\ nid <= nid'
    <2>1. qv \in Nat /\ qv' \in Nat /\ nid \in Nat /\ nid' \in Nat /\ Len(saved.q) \in Nat
        BY LenProperties DEF IInv, QueueType
    <2>2. \/ qv' = qv \/ qv' = qv + 1 \/ qv' = qv + Len(saved.q) + 1
        BY DEF Next, EventThreads, EventWake, Callback, CallbackRead, Poll, SoapWork, CacheSet,
           InsertAfterId, InsertList, InsertAdd, InsertStat, DeleteId, ArrayRead, ArrayToken,
           SaveState, RestoreState, Activated, InsertCall, DeleteCall, Request, Play, Pause, Stop,
           ArrayCall, Read, Deactivate, Activate, OtherAdd, OtherDelete, Advance, NewTitle,
           AddAt, Delete, mpd, vars
    <2>3. \/ nid' = nid \/ nid' = nid + 1 \/ nid' = nid + Len(saved.q)
        BY DEF Next, EventThreads, EventWake, Callback, CallbackRead, Poll, SoapWork, CacheSet,
           InsertAfterId, InsertList, InsertAdd, InsertStat, DeleteId, ArrayRead, ArrayToken,
           SaveState, RestoreState, Activated, InsertCall, DeleteCall, Request, Play, Pause, Stop,
           ArrayCall, Read, Deactivate, Activate, OtherAdd, OtherDelete, Advance, NewTitle,
           AddAt, Delete, mpd, vars
    <2>. QED BY <2>1, <2>2, <2>3
<1>2. stat' \in Status'
    <2>1. Live \in Status /\ Live' \in Status'
        <3>1. QueueType /\ MpdInv /\ QueueType' /\ MpdInv'
            BY DEF IInv
        <3>2. Live \in Status /\ (Live \in Status)'
            BY <3>1, LiveType, PTL
        <3>. QED BY <3>2
    <2>2. Status \subseteq Status'
        BY <1>1
    <2>3. stat \in Status
        BY DEF ClientType
    <2>4. stat' = stat \/ stat' = Live \/ stat' = Live'
        BY DEF Next, EventThreads, EventWake, Callback, CallbackRead, Poll, SoapWork, CacheSet,
           InsertAfterId, InsertList, InsertAdd, InsertStat, DeleteId, ArrayRead, ArrayToken,
           SaveState, RestoreState, Activated, InsertCall, DeleteCall, Request, Play, Pause, Stop,
           ArrayCall, Read, Deactivate, Activate, OtherAdd, OtherDelete, Advance, NewTitle, vars
    <2> HIDE DEF Status
    <2>. QED BY <2>1, <2>2, <2>3, <2>4
<1>3. lastid' \in 0..nid' /\ lastpos' \in 0..MaxLen /\ lastqv' \in 0..qv'
    <2>1. CASE UNCHANGED last
        BY <1>1, <2>1 DEF ClientType, last
    <2>2. CASE InsertAdd
        <3>1. lastid' = 0 \/ (lastid' = nid /\ nid' = nid + 1)
            BY <2>2 DEF InsertAdd, AddAt
        <3>2. UNCHANGED <<lastpos, lastqv>>
            BY <2>2 DEF InsertAdd
        <3>. QED BY <1>1, <3>1, <3>2 DEF ClientType
    <2>3. CASE InsertStat
        <3>1. req \in InsertRequest /\ req.pos <= MaxLen
            BY <2>3 DEF IInv, RequestType, ClientType, InsertStat
        <3>2. req.pos \in 0..MaxLen
            BY <3>1, BoundsAssumption DEF InsertRequest
        <3>. QED BY <1>1, <2>3, <3>2 DEF ClientType, InsertStat, mpd
    <2>4. CASE RestoreState
        <3>1. Len(saved.q) \in Nat /\ Len(saved.q) <= MaxLen
            BY LenProperties DEF IInv, QueueType, MpdInv
        <3>2. CASE Len(saved.q) = 0
            BY <2>1, <2>4, <3>2 DEF RestoreState
        <3>3. CASE Len(saved.q) # 0
            <4>1. /\ lastid' = nid' - 1 /\ lastpos' = Len(saved.q) - 1 /\ lastqv' = qv'
                  /\ nid' = nid + Len(saved.q)
                BY <2>4, <3>3 DEF RestoreState
            <4>. QED BY <1>1, <3>1, <3>3, <4>1, BoundsAssumption
        <3>. QED BY <3>2, <3>3
    <2>. QED
        BY <2>1, <2>2, <2>3, <2>4
        DEF Next, EventThreads, EventWake, Callback, CallbackRead, Poll, SoapWork, CacheSet,
            InsertAfterId, InsertList, DeleteId, ArrayRead, ArrayToken, SaveState, Activated,
            InsertCall, DeleteCall, Request, Play, Pause, Stop, ArrayCall, Read, Deactivate, Activate,
            OtherAdd, OtherDelete, Advance, NewTitle, vars
<1>4. pc' = "stat" => req'.pos <= MaxLen
    <2>1. CASE InsertAdd
        <3>1. pc' = "stat" => CanAdd(req.pos) /\ req' = req
            BY <2>1 DEF InsertAdd, Goto, Finish
        <3>2. req \in InsertRequest /\ Len(mq) \in Nat
            BY <2>1, LenProperties DEF IInv, QueueType, RequestType, InsertAdd
        <3>. QED BY <3>1, <3>2, BoundsAssumption DEF CanAdd, InsertRequest
    <2>2. CASE ~InsertAdd
        <3>1. pc' = "stat" => pc = "stat" /\ req' = req
            BY <2>2
            DEF Next, EventThreads, EventWake, Callback, CallbackRead, Poll, SoapWork, CacheSet,
                InsertAfterId, InsertList, InsertStat, DeleteId, ArrayRead, ArrayToken,
                SaveState, RestoreState, Activated, InsertCall, DeleteCall, Request, Play, Pause, Stop,
                ArrayCall, Read, Deactivate, Activate, OtherAdd, OtherDelete, Advance, NewTitle,
                Goto, Finish, vars, soap
        <3>. QED BY <3>1 DEF ClientType
    <2>. QED BY <2>1, <2>2
<1>. QED BY <1>2, <1>3, <1>4 DEF ClientType

LEMMA ListsStep == ASSUME QueueType, RequestType, MpdInv, OneUri, ClientType, ListsType, [Next]_vars
                   PROVE  ListsType'
<1>1. Ids(mq) \in Seq(Nat) /\ Uris(mq) \subseteq Uri
    BY IdsType, UrisType DEF QueueType
<1>2. SameArray \in Seq(Nat)
    BY EmptySeq DEF SameArray, ListsType
<1>3. "cp" \in Origins /\ title \in Origins /\ stat.title \in Origins
    BY DEF Origins, MpdInv, ClientType
<1>4. ASSUME UNCHANGED cache, UNCHANGED upnp, pub' \in Seq(Nat) PROVE ListsType'
    BY <1>4 DEF ListsType, cache
<1>5. ASSUME MakeSame, upnp' \in Seq(Nat), pub' \in Seq(Nat) PROVE ListsType'
    BY <1>3, <1>5 DEF ListsType, MakeSame
<1>6. ASSUME NEW v, MakeRead(v), upnp' \in Seq(Nat), pub' \in Seq(Nat) PROVE ListsType'
    BY <1>1, <1>3, <1>6 DEF ListsType, MakeRead
<1>7. CASE (\E th \in Threads : Callback(th)) \/ CallbackRead
    <2>1. upnp' = upnp /\ pub' \in Seq(Nat)
        BY <1>1, <1>2, <1>7 DEF ListsType, Callback, CallbackRead, source
    <2>2. UNCHANGED cache \/ MakeSame \/ \E v : MakeRead(v)
        BY <1>7 DEF Callback, CallbackRead
    <2>. QED BY <1>4, <1>5, <1>6, <2>1, <2>2 DEF ListsType
<1>8. CASE ArrayCall \/ ArrayRead \/ Deactivate
    <2>1. upnp' \in Seq(Nat) /\ pub' = pub
        BY <1>1, <1>2, <1>8 DEF ListsType, ArrayCall, ArrayRead, Deactivate, source
    <2>2. CASE UNCHANGED cache /\ UNCHANGED upnp
        BY <1>4, <2>1, <2>2 DEF ListsType
    <2>3. CASE MakeSame \/ \E v : MakeRead(v)
        BY <1>5, <1>6, <2>1, <2>3 DEF ListsType
    <2>. QED BY <1>8, <2>2, <2>3 DEF ArrayCall, ArrayRead, Deactivate, source
<1>9. CASE CacheSet \/ Read
    <2>1. UNCHANGED <<upnp, arr, pub>>
        BY <1>9 DEF CacheSet, Read, source
    <2>2. CASE CacheSet
        <3>1. req.uri \in Uri
            BY <2>2 DEF RequestType, InsertRequest, CacheSet
        <3>. QED BY <1>3, <2>1, <2>2, <3>1 DEF ListsType, CacheSet
    <2>3. CASE Read
        <3>1. PICK i \in DOMAIN mq :
                  meta' = [u \in DOMAIN meta \cup {mq[i].uri} |->
                              IF u \in DOMAIN meta THEN meta[u] ELSE title]
            BY <2>3 DEF Read
        <3>2. mq[i].uri \in Uri
            BY <1>1 DEF Uris
        <3>. QED BY <1>3, <2>1, <3>1, <3>2 DEF ListsType
    <2>. QED BY <1>9, <2>2, <2>3
<1>10. CASE \/ EventWake \/ Poll \/ InsertCall \/ DeleteCall \/ Play \/ Pause \/ Stop \/ Activate
            \/ OtherAdd \/ OtherDelete \/ Advance \/ NewTitle \/ UNCHANGED vars
    BY <1>4, <1>10 DEF ListsType, EventWake, Poll, InsertCall, DeleteCall, Request, Play, Pause, Stop,
                       Activate, OtherAdd, OtherDelete, Advance, NewTitle, source, vars
<1>11. CASE \/ InsertAfterId \/ InsertList \/ InsertAdd \/ InsertStat \/ DeleteId \/ ArrayToken
            \/ SaveState \/ RestoreState \/ Activated
    BY <1>4, <1>11 DEF ListsType, InsertAfterId, InsertList, InsertAdd, InsertStat, DeleteId,
                       ArrayToken, SaveState, RestoreState, Activated, source
<1>. QED BY <1>7, <1>8, <1>9, <1>10, <1>11 DEF Next, EventThreads, SoapWork

LEMMA ThreadStep == ASSUME ThreadType, [Next]_vars PROVE ThreadType'
<1>1. CASE EventThreads
    <2>1. UNCHANGED <<pc, active, disturbed>>
        BY <1>1 DEF EventThreads, EventWake, Poll, Callback, CallbackRead, source, soap
    <2>2. poller' = poller \/ poller' = (play = "play")
        BY <1>1 DEF EventThreads, EventWake, Poll, Callback, CallbackRead
    <2>3. poller' \in BOOLEAN
        BY <2>2, Zenon DEF ThreadType
    <2>4. epc' \in {"idle"} \cup (Threads \cap due') /\ due' \subseteq Threads \cup {"last"}
        <3>1. CASE EventWake
            BY <3>1 DEF ThreadType, EventWake, Threads
        <3>2. CASE Poll
            BY <3>2 DEF ThreadType, Poll, Threads
        <3>3. ASSUME NEW th \in Threads, Callback(th)
              PROVE  epc' \in {"idle"} \cup (Threads \cap due') /\ due' \subseteq Threads \cup {"last"}
            BY <3>3 DEF ThreadType, Callback, StateFree
        <3>4. CASE CallbackRead
            BY <3>4 DEF ThreadType, CallbackRead
        <3>. QED BY <1>1, <3>1, <3>2, <3>3, <3>4 DEF EventThreads
    <2>. QED BY <2>1, <2>3, <2>4 DEF ThreadType
<1>2. CASE SoapWork
    BY <1>2 DEF ThreadType, SoapWork, CacheSet, InsertAfterId, InsertList, InsertAdd,
                InsertStat, DeleteId, ArrayRead, ArrayToken, SaveState, RestoreState, Activated,
                Goto, Finish, source, thread
<1>3. CASE InsertCall \/ DeleteCall
    BY <1>3 DEF ThreadType, InsertCall, DeleteCall, Request, Goto, source, thread
<1>4. CASE Play \/ Pause \/ Stop \/ ArrayCall \/ Read \/ Deactivate \/ Activate
    BY <1>4 DEF ThreadType, Play, Pause, Stop, ArrayCall, Read, Deactivate, Activate, Goto, source,
                thread, soap
<1>5. CASE OtherAdd \/ OtherDelete \/ Advance \/ NewTitle \/ UNCHANGED vars
    <2>1. UNCHANGED <<pc, active, thread>>
        BY <1>5 DEF OtherAdd, OtherDelete, Advance, NewTitle, vars, source, soap
    <2> DEFINE Inserting == pc \in {"list", "add"}
    <2>2. disturbed' = disturbed \/ disturbed' = Inserting
        BY <1>5 DEF OtherAdd, OtherDelete, Advance, NewTitle, vars, soap
    <2>3. Inserting \in BOOLEAN
        BY DEF Inserting
    <2> HIDE DEF Inserting
    <2>4. disturbed' \in BOOLEAN
        BY <2>2, <2>3, Zenon DEF ThreadType
    <2>. QED BY <2>1, <2>4 DEF ThreadType, thread
<1>. QED BY <1>1, <1>2, <1>3, <1>4, <1>5 DEF Next

\* For a queue of any length: MPD's ids are distinct and its song is in the queue,
\* the queue does not grow over max_playlist_length (not when it is restored either),
\* and MPDCli never remembers an id or a version which MPD has not given.
THEOREM TypeCorrect == Spec => []TypeOK
<1>1. Init => TypeInv /\ OneUri
    <2>. SUFFICES ASSUME Init PROVE TypeInv /\ OneUri
        OBVIOUS
    <2>1. IInv
        BY InitInv
    <2>. DOMAIN <<>> = {} /\ Len(<<>>) = 0
        BY EmptySeq
    <2>2. MpdInv
        <3>1. /\ mq = <<>> /\ saved.q = <<>> /\ saved.pos = 0 /\ saved.play = "stop"
              /\ song = 0 /\ play = "stop"
            BY DEF Init
        <3>2. IdsBelow /\ Distinct(mq)
            BY <3>1 DEF IdsBelow, Distinct
        <3>3. title \in Titles /\ evt \in BOOLEAN
            BY DEF Init, Titles
        <3>. QED BY <3>1, <3>2, <3>3, BoundsAssumption DEF MpdInv, SongInv, PlayStates
    <2>3. ClientType /\ OneUri
        BY BoundsAssumption DEF Init, ClientType, OneUri, Live, Titles
    <2>4. ListsType
        <3>1. upnp = <<>> /\ arr = <<>> /\ pub = <<>> /\ meta = <<>>
            BY DEF Init
        <3>. QED BY <3>1, EmptySeq DEF ListsType
    <2>5. ThreadType
        BY DEF Init, ThreadType
    <2>. QED BY <2>1, <2>2, <2>3, <2>4, <2>5 DEF TypeInv
<1>2. TypeInv /\ OneUri /\ [Next]_vars => TypeInv' /\ OneUri'
    <2>. SUFFICES ASSUME TypeInv, OneUri, [Next]_vars PROVE TypeInv' /\ OneUri'
        OBVIOUS
    <2>1. IInv' /\ OneUri'
        BY StepInv, OneUriStep DEF TypeInv
    <2>2. MpdInv'
        BY MpdStep DEF TypeInv
    <2>3. ClientType'
        BY <2>1, <2>2, ClientStep DEF TypeInv
    <2>4. ListsType' /\ ThreadType'
        BY ListsStep, ThreadStep DEF TypeInv, IInv
    <2>. QED BY <2>1, <2>2, <2>3, <2>4 DEF TypeInv
<1>3. TypeInv => TypeOK
    BY TypeParts
<1>. QED BY <1>1, <1>2, <1>3, PTL DEF Spec

-----------------------------------------------------------------------------
(* The place of an insertion *)

\* The insertion itself: it fails only when the queue is full.
LEMMA AddAfter ==
    ASSUME PlaceInv, Len(mq) <= MaxLen, [Next]_vars, pc = "add", pc' # pc
    PROVE  IF Len(mq) = MaxLen THEN mq' = mq
           ELSE /\ nid \in IdSet(mq')
                /\ LET i == IndexOf(mq', nid)
                   IN  IF req.after = 0 THEN i = 1
                       ELSE req.after \in IdSet(mq) => i > 1 /\ mq'[i - 1].id = req.after
<1>1. InsertAdd
    BY DEF Next, EventThreads, EventWake, Callback, CallbackRead, Poll, SoapWork, CacheSet,
       InsertAfterId, InsertList, InsertStat, DeleteId, ArrayRead, ArrayToken, SaveState,
       RestoreState, Activated, InsertCall, DeleteCall, Request, Play, Pause, Stop, ArrayCall,
       Read, Deactivate, Activate, OtherAdd, OtherDelete, Advance, NewTitle, Goto, vars, soap
<1>2. CASE Len(mq) = MaxLen
    BY <1>1, <1>2, BoundsAssumption DEF InsertAdd, CanAdd, mpd
<1>3. CASE Len(mq) # MaxLen
    <2>1. req.pos \in Nat /\ req.uri \in Uri
        BY <1>1 DEF PlaceInv, IInv, RequestType, InsertRequest, InsertAdd
    <2>2. CanAdd(req.pos)
        BY <1>3, BoundsAssumption, LenProperties
        DEF PlaceInv, IInv, QueueType, Position, CanAdd
    <2>3. AddAt(req.pos, req.uri, "cp")
        BY <1>1, <2>2 DEF InsertAdd
    <2>4. /\ req.pos + 1 \in DOMAIN mq' /\ mq'[req.pos + 1].id = nid
          /\ \A j \in DOMAIN mq' : j # req.pos + 1 => mq'[j].id < nid
          /\ \A j \in 1..req.pos : mq'[j] = mq[j]
        BY <2>1, <2>2, <2>3, AddElements DEF PlaceInv, IInv
    <2>5. nid \in Nat
        BY DEF PlaceInv, IInv, QueueType
    <2>6. IndexOf(mq', nid) = req.pos + 1
        <3>1. \A j \in DOMAIN mq' : j # req.pos + 1 => mq'[j].id # nid
            BY <2>4, <2>5
        <3>. QED BY <2>4, <3>1 DEF IndexOf
    <2>7. nid \in IdSet(mq')
        BY <2>4 DEF IdSet
    <2>8. CASE req.after = 0
        BY <1>3, <2>1, <2>6, <2>7, <2>8 DEF PlaceInv, Position
    <2>9. CASE req.after \in IdSet(mq)
        <3>1. req.pos \in DOMAIN mq /\ mq[req.pos].id = req.after
            BY <2>9 DEF PlaceInv, Position
        <3>2. req.pos >= 1
            BY <3>1, LenProperties DEF PlaceInv, IInv, QueueType
        <3>3. mq'[req.pos] = mq[req.pos] /\ (req.pos + 1) - 1 = req.pos
            BY <2>1, <2>4, <3>2
        <3>4. req.after # 0
            BY <2>9, IdNotZero DEF PlaceInv, IInv
        <3>. QED BY <1>3, <2>1, <2>6, <2>7, <3>1, <3>2, <3>3, <3>4
    <2>. QED BY <1>3, <2>6, <2>7, <2>8, <2>9
<1>. QED BY <1>2, <1>3

\* insertAfterId(): when upmpdcli is the only client of MPD, a track is inserted after
\* the one asked for, whether its position was remembered or looked for, in a queue of
\* any length, and through any switches of the source; only a full queue refuses it.
THEOREM InsertedAfter == ASSUME ~Others PROVE Spec => InsertPlace
<1>1. Init => PlaceInv
    <2>. SUFFICES ASSUME Init PROVE PlaceInv
        OBVIOUS
    <2>1. IInv
        BY InitInv
    <2>2. lastqv \in 0..qv /\ IdsBelow /\ Remembered /\ Position
        BY DEF Init, IdsBelow, Remembered, Position
    <2>. QED BY <2>1, <2>2 DEF PlaceInv
<1>2. PlaceInv /\ [Next]_vars => PlaceInv'
    BY PlaceStep
<1>3. TypeOK => Len(mq) <= MaxLen
    BY DEF TypeOK
<1>4. PlaceInv /\ Len(mq) <= MaxLen /\ [Next]_vars =>
          [pc = "add" /\ pc' # pc /\ ~disturbed =>
              IF Len(mq) = MaxLen THEN mq' = mq
              ELSE /\ nid \in IdSet(mq')
                   /\ LET i == IndexOf(mq', nid)
                      IN  IF req.after = 0 THEN i = 1
                          ELSE req.after \in IdSet(mq) => i > 1 /\ mq'[i - 1].id = req.after]_vars
    BY AddAfter
<1>. QED BY <1>1, <1>2, <1>3, <1>4, TypeCorrect, PTL DEF Spec, InsertPlace

-----------------------------------------------------------------------------
(* The events, when the source is not switched *)

OnlySource == active /\ pc \notin {"save", "restore", "activate"}

\* Once the event thread has taken the last event, MPDCli knows what MPD does, and once
\* its callback has run, the control points know it.
Known == ~evt => stat = Live
Polling == ~evt => poller = (play = "play")
Sent == \/ pub = Ids(mq)
        \/ pub = <<>> /\ ~NeedRead /\ ~TitleChanged /\ arr = Ids(mq)
AllSent == ~evt /\ "event" \notin due => Sent /\ (pc = "arrread" => pub = Ids(mq))
SentInv == IInv /\ ReadLock /\ OnlySource /\ Known /\ AllSent

LEMMA OnlySourceStep == ASSUME ~Switches, OnlySource, [Next]_vars PROVE OnlySource'
<1>1. CASE EventThreads
    BY <1>1 DEF OnlySource, EventThreads, EventWake, Poll, Callback, CallbackRead, source, soap
<1>2. CASE SoapWork
    BY <1>2 DEF OnlySource, SoapWork, CacheSet, InsertAfterId, InsertList, InsertAdd,
                InsertStat, DeleteId, ArrayRead, ArrayToken, SaveState, RestoreState, Activated,
                Goto, Finish, source
<1>3. CASE InsertCall \/ DeleteCall
    BY <1>3 DEF OnlySource, InsertCall, DeleteCall, Request, Goto, source
<1>4. CASE Play \/ Pause \/ Stop \/ ArrayCall \/ Read \/ Deactivate \/ Activate
    BY <1>4 DEF OnlySource, Play, Pause, Stop, ArrayCall, Read, Deactivate, Activate, Goto,
                source, soap
<1>5. CASE OtherAdd \/ OtherDelete \/ Advance \/ NewTitle \/ UNCHANGED vars
    BY <1>5 DEF OnlySource, OtherAdd, OtherDelete, Advance, NewTitle, vars, source, soap
<1>. QED BY <1>1, <1>2, <1>3, <1>4, <1>5 DEF Next

\* A step changes what MPD holds and plays only together with evt.
LEMMA Told ==
    ASSUME OnlySource, [Next]_vars, ~evt'
    PROVE  /\ UNCHANGED mpd
           /\ ~evt \/ EventWake
<1>1. CASE EventThreads
    BY <1>1 DEF EventThreads, EventWake, Poll, Callback, CallbackRead
<1>2. CASE CacheSet \/ InsertAfterId \/ InsertList \/ InsertAdd \/ InsertStat
    BY <1>2 DEF CacheSet, InsertAfterId, InsertList, InsertAdd, InsertStat, AddAt
<1>3. CASE DeleteId
    <2> DEFINE was == IF stat.song = req.after THEN "stop" ELSE play
    <2>1. req.after \notin IdSet(mq)
        BY <1>3 DEF DeleteId, Delete
    <2>2. play' = was /\ evt' = (evt \/ was # play) /\ UNCHANGED <<mq, qv, nid, song, title>>
        BY <1>3, <2>1 DEF DeleteId
    <2> HIDE DEF was
    <2>3. ~evt /\ was = play
        BY <2>2, Zenon
    <2>. QED BY <2>2, <2>3 DEF mpd
<1>4. CASE ArrayRead \/ ArrayToken \/ SaveState \/ RestoreState \/ Activated
    BY <1>4 DEF OnlySource, ArrayRead, ArrayToken, SaveState, RestoreState, Activated
<1>5. CASE InsertCall \/ DeleteCall \/ ArrayCall \/ Read \/ Deactivate \/ Activate
    BY <1>5 DEF InsertCall, DeleteCall, Request, ArrayCall, Read, Deactivate, Activate
<1>6. CASE Play \/ Pause \/ Stop \/ OtherAdd \/ OtherDelete \/ Advance \/ NewTitle
    BY <1>6 DEF Play, Pause, Stop, OtherAdd, OtherDelete, Advance, NewTitle, AddAt, Delete
<1>7. CASE UNCHANGED vars
    BY <1>7 DEF vars
<1>. QED BY <1>1, <1>2, <1>3, <1>4, <1>5, <1>6, <1>7 DEF Next, SoapWork

LEMMA LiveSame == UNCHANGED mpd => Live' = Live /\ Ids(mq)' = Ids(mq)
BY DEF mpd, Live, IndexOf, Ids

LEMMA KnownStep == ASSUME OnlySource, Known, [Next]_vars PROVE Known'
<1>. SUFFICES ASSUME ~evt' PROVE stat' = Live'
    BY DEF Known
<1>1. UNCHANGED mpd /\ Live' = Live /\ (~evt \/ EventWake)
    BY Told, LiveSame
<1>2. stat' = stat \/ stat' = Live \/ stat' = Live'
    BY DEF Next, EventThreads, EventWake, Callback, CallbackRead, Poll, SoapWork, CacheSet,
       InsertAfterId, InsertList, InsertAdd, InsertStat, DeleteId, ArrayRead, ArrayToken,
       SaveState, RestoreState, Activated, InsertCall, DeleteCall, Request, Play, Pause, Stop,
       ArrayCall, Read, Deactivate, Activate, OtherAdd, OtherDelete, Advance, NewTitle, vars
<1>3. CASE EventWake
    BY <1>1, <1>3 DEF EventWake
<1>. QED BY <1>1, <1>2, <1>3 DEF Known

LEMMA PollingStep == ASSUME OnlySource, Polling, [Next]_vars PROVE Polling'
<1>. SUFFICES ASSUME ~evt' PROVE poller' = (play' = "play")
    BY DEF Polling
<1>1. play' = play /\ (~evt \/ EventWake)
    BY Told DEF mpd
<1>2. CASE EventWake
    <2>1. poller' = (play = "play")
        BY <1>2 DEF EventWake
    <2>. QED BY <1>1, <2>1, Zenon
<1>3. CASE ~EventWake
    <2>1. poller' = poller
        BY <1>3
        DEF Next, EventThreads, Callback, CallbackRead, Poll, SoapWork, CacheSet, InsertAfterId,
            InsertList, InsertAdd, InsertStat, DeleteId, ArrayRead, ArrayToken, SaveState,
            RestoreState, Activated, InsertCall, DeleteCall, Request, Play, Pause, Stop,
            ArrayCall, Read, Deactivate, Activate, OtherAdd, OtherDelete, Advance, NewTitle,
            vars, thread
    <2>2. poller = (play = "play")
        BY <1>1, <1>3 DEF Polling
    <2>. QED BY <1>1, <2>1, <2>2, Zenon
<1>. QED BY <1>2, <1>3

\* What makeIdArray() answers for an unchanged version has been sent, or is the empty
\* array: the metadata has the new title then.
LEMMA SameSent ==
    ASSUME IInv, UNCHANGED mpd, UNCHANGED stat, stat = Live, ~NeedRead, MakeSame, pub' = SameArray
    PROVE  Sent'
<1>1. arr = Ids(mq) /\ Ids(mq)' = Ids(mq)
    BY LiveSame DEF IInv, Cached, NeedRead, Live
<1>2. UNCHANGED <<arr, arrqv>> /\ ~NeedRead'
    BY DEF MakeSame, NeedRead
<1>3. CASE TitleChanged
    <2>1. \A u \in DOMAIN meta' : u \in stat.uri => meta'[u] = stat.title
        BY <1>3 DEF MakeSame
    <2>2. ~TitleChanged'
        BY <2>1 DEF TitleChanged
    <2>. QED BY <1>1, <1>2, <1>3, <2>2 DEF Sent, SameArray
<1>4. CASE ~TitleChanged
    BY <1>1, <1>4 DEF Sent, SameArray
<1>. QED BY <1>3, <1>4

\* No title has changed for MPDCli if none had, and metadata is added which control
\* points or the present title give.
LEMMA SentSame ==
    ASSUME Sent, UNCHANGED <<mpd, pub, stat, arr, arrqv>>,
           \A u \in DOMAIN meta' : \/ u \in DOMAIN meta /\ meta'[u] = meta[u]
                                  \/ meta'[u] \in {"cp", stat.title}
    PROVE  Sent'
<1>1. Ids(mq)' = Ids(mq)
    BY LiveSame
<1>2. "cp" \notin Titles
    BY DEF Titles
<1>3. TitleChanged' => TitleChanged
    BY <1>2 DEF TitleChanged
<1>. QED BY <1>1, <1>3 DEF Sent, NeedRead

LEMMA SentStep == ASSUME ~Switches, SentInv, IInv', [Next]_vars PROVE AllSent'
<1>. SUFFICES ASSUME ~evt', "event" \notin due' PROVE Sent' /\ (pc' = "arrread" => pub' = Ids(mq)')
    BY DEF AllSent
<1>1. ~EventWake /\ ~evt /\ UNCHANGED mpd /\ Ids(mq)' = Ids(mq) /\ Live' = Live
    <2>1. ~EventWake
        BY DEF EventWake
    <2>. QED BY <2>1, Told, LiveSame DEF SentInv
<1>2. stat = Live /\ UNCHANGED stat
    <2>1. stat = Live
        BY <1>1 DEF SentInv, Known
    <2>2. Known'
        BY KnownStep DEF SentInv
    <2>. QED BY <1>1, <2>1, <2>2 DEF Known
<1>3. ASSUME NEW th \in Threads, Callback(th) PROVE Sent' /\ (pc' = "arrread" => pub' = Ids(mq)')
    <2>1. active /\ StateFree /\ UNCHANGED soap
        BY <1>3 DEF SentInv, OnlySource, Callback
    <2>2. pc' # "arrread"
        BY <2>1 DEF StateFree, soap
    <2>3. CASE NeedRead
        <3>1. UNCHANGED <<cache, pub, due>>
            BY <1>3, <2>1, <2>3 DEF Callback
        <3>2. Sent
            BY <1>1, <3>1 DEF SentInv, AllSent
        <3>. QED BY <1>1, <1>2, <2>2, <3>1, <3>2, SentSame DEF cache
    <2>4. CASE ~NeedRead
        BY <1>1, <1>2, <1>3, <2>1, <2>2, <2>4, SameSent DEF SentInv, Callback
    <2>. QED BY <2>3, <2>4
<1>4. CASE CallbackRead
    BY <1>1, <1>4 DEF CallbackRead, Sent
<1>5. CASE ~CallbackRead /\ ~(\E th \in Threads : Callback(th))
    <2>1. UNCHANGED pub /\ "event" \notin due
        BY <1>1, <1>5
        DEF Next, EventThreads, Poll, SoapWork, CacheSet, InsertAfterId,
            InsertList, InsertAdd, InsertStat, DeleteId, ArrayRead, ArrayToken, SaveState,
            RestoreState, Activated, InsertCall, DeleteCall, Request, Play, Pause, Stop,
            ArrayCall, Read, Deactivate, Activate, OtherAdd, OtherDelete, Advance, NewTitle,
            vars, thread, SentInv, OnlySource
    <2>2. Sent /\ (pc = "arrread" => pub = Ids(mq))
        BY <1>1, <2>1 DEF SentInv, AllSent
    <2>3. CASE ArrayCall
        <3>1. CASE NeedRead
            <4>1. UNCHANGED cache /\ pub = Ids(mq)
                BY <2>2, <2>3, <3>1 DEF ArrayCall, Sent
            <4>. QED BY <1>1, <2>1, <4>1 DEF Sent
        <3>2. CASE ~NeedRead
            <4>1. MakeSame /\ pc' = "token"
                BY <2>3, <3>2 DEF ArrayCall, Goto
            <4>2. ~TitleChanged => UNCHANGED <<arr, arrqv>> /\ DOMAIN meta' = DOMAIN meta
                                   /\ \A u \in DOMAIN meta : meta'[u] = meta[u]
                BY <4>1 DEF MakeSame
            <4>3. CASE pub = Ids(mq)
                BY <1>1, <2>1, <4>1, <4>3 DEF Sent
            <4>4. CASE pub # Ids(mq)
                <5>1. ~TitleChanged
                    BY <2>2, <4>4 DEF Sent
                <5>. QED BY <1>1, <1>2, <2>1, <2>2, <4>1, <4>2, <5>1, SentSame
            <4>. QED BY <4>3, <4>4
        <3>. QED BY <3>1, <3>2
    <2>4. CASE ArrayRead
        BY <1>1, <2>1, <2>2, <2>4 DEF ArrayRead, Goto, Sent
    <2>5. CASE CacheSet
        <3>1. UNCHANGED <<arr, arrqv>> /\ pc' # "arrread"
              /\ \A u \in DOMAIN meta' : \/ u \in DOMAIN meta /\ meta'[u] = meta[u]
                                        \/ meta'[u] \in {"cp", stat.title}
            BY <2>5 DEF CacheSet, Goto
        <3>. QED BY <1>1, <1>2, <2>1, <2>2, <3>1, SentSame
    <2>6. CASE Read
        <3>1. UNCHANGED <<arr, arrqv>> /\ pc' # "arrread"
            BY <2>6 DEF Read, soap
        <3>2. \A u \in DOMAIN meta' : \/ u \in DOMAIN meta /\ meta'[u] = meta[u]
                                     \/ meta'[u] = title
            BY <2>6 DEF Read
        <3>3. title = stat.title
            BY <1>2 DEF Live
        <3>. QED BY <1>1, <1>2, <2>1, <2>2, <3>1, <3>2, <3>3, SentSame
    <2>7. CASE ~(ArrayCall \/ ArrayRead \/ CacheSet \/ Read)
        <3>1. UNCHANGED cache /\ (pc' = "arrread" => pc = "arrread")
            BY <1>1, <1>5, <2>7
            DEF Next, EventThreads, Poll, SoapWork, InsertAfterId,
                InsertList, InsertAdd, InsertStat, DeleteId, ArrayToken, SaveState,
                RestoreState, Activated, InsertCall, DeleteCall, Request, Play, Pause, Stop,
                Deactivate, Activate, OtherAdd, OtherDelete, Advance, NewTitle, Goto, Finish,
                vars, soap, SentInv, OnlySource
        <3>. QED BY <1>1, <1>2, <2>1, <2>2, <3>1, SentSame DEF cache
    <2>. QED BY <2>3, <2>4, <2>5, <2>6, <2>7
<1>. QED BY <1>3, <1>4, <1>5

\* onEvent() misses no change: when no event is on its way the control points have been
\* sent the array of the tracks in the queue, or the empty one after a title changed,
\* which the next callback replaces; and the poller runs, for that, while MPD plays.
THEOREM ChangesPublished == ASSUME ~Switches PROVE Spec => []PublishedAtRest
<1>1. Init => SentInv /\ Polling
    <2>. SUFFICES ASSUME Init PROVE SentInv /\ Polling
        OBVIOUS
    <2>1. IInv
        BY InitInv
    <2>2. ReadLock /\ OnlySource /\ Known
        BY DEF Init, ReadLock, OnlySource, Known
    <2>3. Ids(mq) = <<>>
        BY EmptySeq DEF Init, Ids
    <2>4. AllSent
        BY <2>3 DEF Init, AllSent, Sent
    <2>5. Polling
        BY Zenon DEF Init, Polling
    <2>. QED BY <2>1, <2>2, <2>4, <2>5 DEF SentInv
<1>2. SentInv /\ Polling /\ [Next]_vars => SentInv' /\ Polling'
    <2>. SUFFICES ASSUME SentInv, Polling, [Next]_vars PROVE SentInv' /\ Polling'
        OBVIOUS
    <2>1. IInv' /\ ReadLock' /\ OnlySource' /\ Known' /\ Polling'
        BY StepInv, LockStep, OnlySourceStep, KnownStep, PollingStep DEF SentInv
    <2>2. AllSent'
        BY <2>1, SentStep
    <2>. QED BY <2>1, <2>2 DEF SentInv
<1>3. SentInv /\ Polling => PublishedAtRest
    <2>. SUFFICES ASSUME SentInv, Polling, AtRest PROVE Sent /\ poller = (play = "play")
        BY DEF PublishedAtRest, Sent, SameArray
    <2>1. Sent
        BY DEF SentInv, AllSent, AtRest
    <2>2. poller = (play = "play")
        BY DEF Polling, AtRest
    <2>. QED BY <2>1, <2>2
<1>. QED BY <1>1, <1>2, <1>3, PTL DEF Spec
=============================================================================

------------------------- MODULE SourceSwitchProofs -------------------------
(* What SourceSwitch guarantees for every set of sources, tracks and volumes. *)
EXTENDS SourceSwitch, SequenceTheorems, TLAPS

-----------------------------------------------------------------------------
(* Exactly one owner *)

\* The services are active as source s wants them.
ActiveFor(s) ==
    /\ plActive <=> s \in PlaylistSources
    /\ rdActive <=> s \in RadioSources
    /\ rcActive <=> s = "Songcast"

NoneActive == ~plActive /\ ~rdActive /\ ~rcActive

SourcesOK == src \in Sources /\ persisted \in Sources /\ target \in Sources

\* OneOwner is not inductive: it says nothing of the middle of a switch, where
\* the old source has been left and the new one is not entered yet.
OwnerInv ==
    /\ SourcesOK
    /\ pc \in {"idle", "resume", "leave", "sndstop", "sndstart", "enter", "commit"}
    /\ pc \in {"idle", "resume", "leave"} => ActiveFor(src)
    /\ pc \in {"sndstop", "sndstart", "enter"} => NoneActive
    /\ pc = "commit" => ActiveFor(target)

LEMMA OwnerInit == Init => OwnerInv
BY SourcesAssumption DEF Init, OwnerInv, SourcesOK, ActiveFor, PlaylistSources, RadioSources

\* Leaving the current source makes every service inactive.
LEMMA OwnerLeave ==
    ASSUME OwnerInv, LeavePlaylist \/ LeaveRadio \/ LeaveReceiver \/ LeaveScript
    PROVE  OwnerInv'
<1>1. NoneActive'
    BY DEF OwnerInv, ActiveFor, NoneActive, LeavePlaylist, LeaveRadio, LeaveReceiver,
           LeaveScript, PlaylistSources, RadioSources, svars, plvars, rdvars, rcvars
<1>2. pc' \in {"sndstop", "sndstart", "enter"}
    BY DEF LeavePlaylist, LeaveRadio, LeaveReceiver, LeaveScript, ToStart
<1>3. SourcesOK'
    BY DEF OwnerInv, SourcesOK, LeavePlaylist, LeaveRadio, LeaveReceiver, LeaveScript, svars
<1>. QED BY <1>1, <1>2, <1>3 DEF OwnerInv

\* The sender is started and stopped between two sources.
LEMMA OwnerSender ==
    ASSUME OwnerInv, SndStop \/ SndStart \/ SndStartFails
    PROVE  OwnerInv'
<1>1. NoneActive'
    BY DEF OwnerInv, NoneActive, SndStop, SndStart, SndStartFails, plvars, rdvars
<1>2. SourcesOK'
    BY DEF OwnerInv, SourcesOK, SndStop, SndStart, SndStartFails, svars
<1>3. pc' \in {"sndstart", "enter"} \/ (pc' = "commit" /\ target' = "Script")
    BY DEF SndStop, SndStart, SndStartFails, ToStart, svars
<1>. QED
    BY <1>1, <1>2, <1>3
    DEF OwnerInv, NoneActive, ActiveFor, PlaylistSources, RadioSources

\* Entering the target makes its service active, and the commit makes it the
\* current source.
LEMMA OwnerEnter ==
    ASSUME OwnerInv, EnterPlaylist \/ EnterRadio \/ EnterReceiver \/ Commit
    PROVE  OwnerInv'
<1>1. CASE EnterPlaylist \/ EnterRadio \/ EnterReceiver
    <2>1. pc' = "commit" /\ ActiveFor(target)'
        BY <1>1 DEF OwnerInv, NoneActive, ActiveFor, EnterPlaylist, EnterRadio, EnterReceiver,
                    PlaylistSources, RadioSources, svars, plvars, rdvars, rcvars
    <2>2. SourcesOK'
        BY <1>1 DEF OwnerInv, SourcesOK, EnterPlaylist, EnterRadio, EnterReceiver, svars
    <2>. QED BY <2>1, <2>2 DEF OwnerInv
<1>2. CASE Commit
    <2>1. ActiveFor(src)'
        BY <1>2 DEF OwnerInv, ActiveFor, Commit, plvars, rdvars, rcvars
    <2>2. SourcesOK' /\ pc' \in {"idle", "resume"}
        BY <1>2, SourcesAssumption DEF OwnerInv, SourcesOK, Commit
    <2>. QED BY <2>1, <2>2 DEF OwnerInv
<1>. QED BY <1>1, <1>2

\* The entry of iSetSourceIndex.
LEMMA OwnerSwitch ==
    ASSUME OwnerInv, pc = "idle",
           SetSourceIndex \/ PlaylistWakes \/ RadioWakes \/ ReceiverWakes \/ ReceiverStop
    PROVE  OwnerInv'
<1>1. UNCHANGED <<src, persisted, plActive, rdActive, rcActive>>
    BY DEF SetSourceIndex, PlaylistWakes, RadioWakes, ReceiverWakes, ReceiverStop,
           plvars, rdvars, rcvars
<1>2. pc' \in {"idle", "resume", "leave"} /\ target' \in Sources
    BY DEF OwnerInv, SourcesOK, SetSourceIndex, PlaylistWakes, RadioWakes, ReceiverWakes,
           ReceiverStop, Switch
<1>. QED BY <1>1, <1>2 DEF OwnerInv, SourcesOK, ActiveFor

\* The actions which act on MPD only.
LEMMA OwnerWork ==
    ASSUME OwnerInv,
           \/ PlaylistEdit \/ PlaylistPlay \/ TransportStop \/ RadioSetId \/ RadioPlay
           \/ ReceiverPlay \/ SetVolume \/ MetaScriptStart \/ MetaScriptDone
    PROVE  OwnerInv'
<1>1. UNCHANGED <<src, persisted, target, plActive, rdActive, rcActive>>
    BY DEF PlaylistEdit, PlaylistPlay, TransportStop, RadioSetId, RadioPlay, ReceiverPlay,
           SetVolume, MetaScriptStart, MetaScriptDone, svars, plvars, rdvars, rcvars
<1>2. pc' = pc \/ (pc \in {"idle", "resume"} /\ pc' = "idle")
    BY DEF PlaylistEdit, PlaylistPlay, TransportStop, RadioSetId, RadioPlay, ReceiverPlay,
           SetVolume, MetaScriptStart, MetaScriptDone, Doing, Done
<1>. QED BY <1>1, <1>2 DEF OwnerInv, SourcesOK, ActiveFor, NoneActive

LEMMA OwnerRestart == ASSUME OwnerInv, Restart PROVE OwnerInv'
BY SourcesAssumption
DEF OwnerInv, SourcesOK, ActiveFor, NoneActive, PlaylistSources, RadioSources, Restart

LEMMA OwnerStep == OwnerInv /\ [Next]_vars => OwnerInv'
<1>. SUFFICES ASSUME OwnerInv, [Next]_vars PROVE OwnerInv'
    OBVIOUS
<1>1. CASE SwitchStep
    BY <1>1, OwnerLeave, OwnerSender, OwnerEnter DEF SwitchStep
<1>2. CASE SetSourceIndex \/ PlaylistWakes \/ RadioWakes \/ ReceiverWakes \/ ReceiverStop
    <2>1. pc = "idle"
        BY <1>2 DEF SetSourceIndex, PlaylistWakes, RadioWakes, ReceiverWakes, ReceiverStop
    <2>. QED BY <1>2, <2>1, OwnerSwitch
<1>3. CASE \/ PlaylistEdit \/ PlaylistPlay \/ TransportStop \/ RadioSetId \/ RadioPlay
           \/ ReceiverPlay \/ SetVolume \/ MetaScriptStart \/ MetaScriptDone
    BY <1>3, OwnerWork
<1>4. CASE Restart
    BY <1>4, OwnerRestart
<1>5. CASE UNCHANGED vars
    BY <1>5 DEF OwnerInv, SourcesOK, ActiveFor, NoneActive, vars, svars, plvars, rdvars, rcvars
<1>. QED BY <1>1, <1>2, <1>3, <1>4, <1>5 DEF Next

\* The inductive invariant holds in every reachable state.
THEOREM OwnerInvariant == Spec => []OwnerInv
BY OwnerInit, OwnerStep, PTL DEF Spec

\* For every configuration of the sources, whatever MPD call fails and wherever
\* the process is restarted: between two SOAP actions exactly the service of
\* OHProduct's m_sourceIndex is active.
THEOREM ExactlyOneOwner == Spec => []OneOwner
<1>1. OwnerInv => OneOwner
    BY DEF OwnerInv, OneOwner, ActiveFor
<1>. QED BY <1>1, OwnerInvariant, PTL

-----------------------------------------------------------------------------
(* Type correctness *)

\* A MPD has a state which was read: never "unk".
Live(m) == m \in State /\ m.st # "unk"

LEMMA StoppedType == ASSUME NEW m, Live(m) PROVE Live(Stopped(m)) /\ Live(Cleared(m))
<1>1. <<>> \in Seq(Tracks)
    BY EmptySeq
<1>. QED BY <1>1 DEF Live, State, Stopped, Cleared

LEMMA EmptyType == ASSUME NEW v \in Vol PROVE Empty(v) \in State
BY EmptySeq DEF Empty, State

LEMMA StopsType == ASSUME NEW m, Live(m), NEW r \in Stops(m) PROVE Live(r)
BY StoppedType DEF Stops

LEMMA SavesType == ASSUME NEW old \in State, NEW m \in State, NEW s \in Saves(old, m)
                   PROVE  s \in State
<1>1. <<>> \in Seq(Tracks)
    BY EmptySeq
<1>. QED BY <1>1 DEF Saves, State

LEMMA RestoredType == ASSUME NEW m, Live(m), NEW s \in State, NEW external \in BOOLEAN
                      PROVE  Live(Restored(m, s, external))
BY DEF Live, State, Restored

LEMMA RestoresType == ASSUME NEW m, Live(m), NEW s \in State, NEW external \in BOOLEAN,
                             NEW r \in Restores(m, s, external)
                      PROVE  Live(r)
<1>1. CASE r = Restored(m, s, external)
    BY <1>1, RestoredType
<1>2. CASE r = m
    BY <1>2
<1>3. ASSUME NEW i \in 0..Len(s.q), r = [m EXCEPT !.q = SubSeq(s.q, 1, i), !.st = "stop"]
      PROVE  Live(r)
    <2>1. s.q \in Seq(Tracks) /\ Len(s.q) \in Nat
        BY LenProperties DEF State
    <2>2. \A j \in 1..i : s.q[j] \in Tracks
        BY <2>1, ElementOfSeq
    <2>3. SubSeq(s.q, 1, i) \in Seq(Tracks)
        BY <2>1, <2>2, SubSeqProperties
    <2>. QED BY <1>3, <2>3 DEF Live, State
<1>. QED BY <1>1, <1>2, <1>3 DEF Restores

LEMMA EditedType == ASSUME NEW q \in Seq(Tracks), NEW e \in Edited(q) PROVE e \in Seq(Tracks)
<1>. Len(q) \in Nat
    BY LenProperties
<1>1. \A m, n \in Int : 1 <= m /\ n <= Len(q) => SubSeq(q, m, n) \in Seq(Tracks)
    <2>. SUFFICES ASSUME NEW m \in Int, NEW n \in Int, 1 <= m, n <= Len(q)
                  PROVE  SubSeq(q, m, n) \in Seq(Tracks)
        OBVIOUS
    <2>1. \A j \in m..n : q[j] \in Tracks
        BY ElementOfSeq
    <2>. QED BY <2>1, SubSeqProperties
<1>2. CASE e = <<>>
    BY <1>2, EmptySeq
<1>3. ASSUME NEW i \in 1..Len(q), e = RemoveAt(q, i) PROVE e \in Seq(Tracks)
    <2>1. SubSeq(q, 1, i-1) \in Seq(Tracks) /\ SubSeq(q, i+1, Len(q)) \in Seq(Tracks)
        BY <1>1
    <2>. QED BY <1>3, <2>1, ConcatProperties DEF RemoveAt
<1>4. ASSUME NEW i \in 1..Len(q) + 1, NEW t \in Track, e = InsertAt(q, i, t)
      PROVE  e \in Seq(Tracks)
    <2>1. SubSeq(q, 1, i-1) \in Seq(Tracks) /\ SubSeq(q, i, Len(q)) \in Seq(Tracks)
        BY <1>1
    <2>2. <<t>> \in Seq(Tracks)
        BY DEF Tracks
    <2>3. SubSeq(q, 1, i-1) \o <<t>> \in Seq(Tracks)
        BY <2>1, <2>2, ConcatProperties
    <2>. QED BY <1>4, <2>1, <2>3, ConcatProperties DEF InsertAt
<1>. QED BY <1>2, <1>3, <1>4 DEF Edited

\* The parts of TypeOK, as each action disturbs them.
SwitchType ==
    /\ src \in Sources /\ persisted \in Sources /\ target \in Sources
    /\ pc \in {"idle", "leave", "sndstop", "sndstart", "enter", "commit", "resume"}
    /\ after \in {"none", "plplay", "pledit", "rdplay", "rcplay"}
    /\ ok \in BOOLEAN /\ boot \in BOOLEAN
ServiceType ==
    /\ plActive \in BOOLEAN /\ rdActive \in BOOLEAN /\ rcActive \in BOOLEAN
    /\ rdChosen \in BOOLEAN /\ rdPending \in BOOLEAN
    /\ rdScript \in {"none", "stop", "play"}
    /\ radioFlag \in BOOLEAN /\ rcCmd \in BOOLEAN
    /\ chosen \subseteq Vol /\ clean \in BOOLEAN
MpdType ==
    /\ plSaved \in State /\ rdSaved \in State
    /\ mpd \in [{"main", "aux"} -> State]
    /\ mpd["main"].st # "unk" /\ mpd["aux"].st # "unk"
    /\ cur \in {"main", "aux"}
    /\ userpl \in Seq(Tracks)

LEMMA TypeParts == TypeOK <=> SwitchType /\ ServiceType /\ MpdType
BY DEF TypeOK, SwitchType, ServiceType, MpdType

LEMMA LiveMpd == ASSUME MpdType PROVE \A m \in {"main", "aux"} : Live(mpd[m])
BY DEF MpdType, Live

\* Replacing one of the two MPDs by a live state keeps the pair well typed.
LEMMA MpdUpdate ==
    ASSUME MpdType, NEW m \in {"main", "aux"}, NEW r, Live(r), mpd' = [mpd EXCEPT ![m] = r]
    PROVE  /\ mpd' \in [{"main", "aux"} -> State]
           /\ mpd'["main"].st # "unk" /\ mpd'["aux"].st # "unk"
BY DEF MpdType, Live

LEMMA TypeInit == Init => TypeOK
<1>. SUFFICES ASSUME Init PROVE TypeOK
    OBVIOUS
<1>1. PICK v \in Vol : /\ plSaved = Empty(v) /\ rdSaved = Empty(v)
                      /\ mpd = [m \in {"main", "aux"} |-> [q |-> <<>>, st |-> "stop", vol |-> v]]
    BY DEF Init
<1>2. <<>> \in Seq(Tracks)
    BY EmptySeq
<1>3. MpdType
    BY <1>1, <1>2, EmptyType DEF MpdType, Init, State
<1>4. SwitchType /\ ServiceType
    BY SourcesAssumption DEF Init, SwitchType, ServiceType
<1>. QED BY <1>3, <1>4, TypeParts

LEMMA TypeSwitch == ASSUME SwitchType, [Next]_vars PROVE SwitchType'
<1>1. CASE SwitchStep
    BY <1>1, SourcesAssumption
    DEF SwitchType, SwitchStep, LeavePlaylist, LeaveRadio, LeaveReceiver, LeaveScript, SndStop,
        SndStart, SndStartFails, EnterPlaylist, EnterRadio, EnterReceiver, Commit, ToStart, svars
<1>2. CASE SetSourceIndex \/ PlaylistWakes \/ RadioWakes \/ ReceiverWakes \/ ReceiverStop
    BY <1>2 DEF SwitchType, SetSourceIndex, PlaylistWakes, RadioWakes, ReceiverWakes,
                ReceiverStop, Switch
<1>3. CASE \/ PlaylistEdit \/ PlaylistPlay \/ TransportStop \/ RadioSetId \/ RadioPlay
           \/ ReceiverPlay \/ SetVolume \/ MetaScriptStart \/ MetaScriptDone
    BY <1>3 DEF SwitchType, PlaylistEdit, PlaylistPlay, TransportStop, RadioSetId, RadioPlay,
                ReceiverPlay, SetVolume, MetaScriptStart, MetaScriptDone, Done, svars
<1>4. CASE Restart
    BY <1>4, SourcesAssumption DEF SwitchType, Restart
<1>5. CASE UNCHANGED vars
    BY <1>5 DEF SwitchType, vars, svars
<1>. QED BY <1>1, <1>2, <1>3, <1>4, <1>5 DEF Next

LEMMA TypeService == ASSUME ServiceType, MpdType, [Next]_vars PROVE ServiceType'
<1>1. CASE LeavePlaylist \/ LeaveRadio \/ LeaveReceiver \/ LeaveScript
    <2>1. clean' \in BOOLEAN
        BY <1>1, Zenon DEF ServiceType, LeavePlaylist, LeaveRadio, LeaveReceiver, LeaveScript, ghosts
    <2>. QED BY <1>1, <2>1 DEF ServiceType, LeavePlaylist, LeaveRadio, LeaveReceiver, LeaveScript,
                               plvars, rdvars, rcvars, ghosts
<1>2. CASE SndStop \/ SndStart \/ SndStartFails
    <2>1. clean' \in BOOLEAN /\ chosen' \subseteq Vol
        BY <1>2, Zenon DEF ServiceType, SndStop, SndStart, SndStartFails
    <2>2. rcCmd' \in BOOLEAN /\ UNCHANGED <<plActive, rdActive, rcActive, rdChosen, rdPending,
                                             rdScript, radioFlag>>
        BY <1>2 DEF SndStop, SndStart, SndStartFails, plvars, rdvars
    <2>. QED BY <2>1, <2>2 DEF ServiceType
<1>3. CASE EnterPlaylist \/ EnterRadio \/ EnterReceiver \/ Commit
    <2>1. clean' \in BOOLEAN /\ chosen' \subseteq Vol /\ radioFlag' \in BOOLEAN
        BY <1>3, Zenon DEF ServiceType, EnterPlaylist, EnterRadio, EnterReceiver, Commit,
                           rdvars, ghosts
    <2>2. plActive' \in BOOLEAN /\ rdActive' \in BOOLEAN /\ rcActive' \in BOOLEAN
        BY <1>3 DEF ServiceType, EnterPlaylist, EnterRadio, EnterReceiver, Commit,
                    plvars, rdvars, rcvars
    <2>3. UNCHANGED <<rdChosen, rdPending, rdScript, rcCmd>>
        BY <1>3 DEF EnterPlaylist, EnterRadio, EnterReceiver, Commit, rdvars, rcvars
    <2>. QED BY <2>1, <2>2, <2>3 DEF ServiceType
<1>4. CASE SetSourceIndex \/ PlaylistWakes \/ RadioWakes \/ ReceiverWakes \/ ReceiverStop
    <2>1. rcCmd' \in {rcCmd, FALSE}
        BY <1>4, Zenon DEF SetSourceIndex, PlaylistWakes, RadioWakes, ReceiverWakes, ReceiverStop,
                           rcvars
    <2>2. UNCHANGED <<plActive, rdActive, rcActive, rdChosen, rdPending, rdScript, radioFlag,
                      chosen, clean>>
        BY <1>4 DEF SetSourceIndex, PlaylistWakes, RadioWakes, ReceiverWakes, ReceiverStop,
                    plvars, rdvars, rcvars, ghosts
    <2>. QED BY <2>1, <2>2 DEF ServiceType
<1>5. CASE PlaylistEdit \/ PlaylistPlay \/ TransportStop \/ RadioSetId \/ RadioPlay
    <2>1. rdPending' \in BOOLEAN /\ rdChosen' \in BOOLEAN
        BY <1>5, Zenon DEF ServiceType, PlaylistEdit, PlaylistPlay, TransportStop, RadioSetId,
                           RadioPlay, rdvars
    <2>2. UNCHANGED <<plActive, rdActive, rcActive, rdScript, radioFlag, rcCmd, chosen, clean>>
        BY <1>5 DEF PlaylistEdit, PlaylistPlay, TransportStop, RadioSetId, RadioPlay,
                    plvars, rdvars, rcvars, ghosts
    <2>. QED BY <2>1, <2>2 DEF ServiceType
<1>6. CASE ReceiverPlay \/ SetVolume \/ MetaScriptDone
    <2>1. /\ chosen' \subseteq Vol /\ clean' \in BOOLEAN /\ rcCmd' \in BOOLEAN
          /\ rdScript' \in {rdScript, "none"}
        BY <1>6, Zenon DEF ServiceType, ReceiverPlay, SetVolume, MetaScriptDone, rcvars, ghosts
    <2>2. UNCHANGED <<plActive, rdActive, rcActive, rdChosen, rdPending, radioFlag>>
        BY <1>6 DEF ReceiverPlay, SetVolume, MetaScriptDone, plvars, rdvars, rcvars, ghosts
    <2>. QED BY <2>1, <2>2 DEF ServiceType
<1>7. CASE MetaScriptStart
    <2>1. mpd[cur].st \in {"stop", "play"}
        BY DEF MpdType, State
    <2>. QED BY <1>7, <2>1 DEF ServiceType, MetaScriptStart, plvars, rdvars, rcvars, ghosts
<1>8. CASE Restart
    BY <1>8 DEF ServiceType, Restart
<1>9. CASE UNCHANGED vars
    BY <1>9 DEF ServiceType, vars, plvars, rdvars, rcvars, ghosts
<1>. QED BY <1>1, <1>2, <1>3, <1>4, <1>5, <1>6, <1>7, <1>8, <1>9 DEF Next, SwitchStep

\* Leaving and entering a source, starting and stopping the sender.
LEMMA TypeMpdSwitch == ASSUME MpdType, SwitchStep PROVE MpdType'
<1>. ExternalVolume \in BOOLEAN /\ ByScript \in BOOLEAN
    BY ValuesAssumption DEF ByScript
<1>. cur \in {"main", "aux"} /\ \A m \in {"main", "aux"} : Live(mpd[m])
    BY LiveMpd DEF MpdType
<1>. \A m \in {"main", "aux"} : Live(Stopped(mpd[m])) /\ Live(Cleared(mpd[m]))
    BY StoppedType
<1>1. CASE LeavePlaylist
    <2>1. PICK s \in Saves(plSaved, mpd[cur]), m \in Stops(mpd[cur]) :
              plSaved' = s /\ mpd' = [mpd EXCEPT ![cur] = m]
        BY <1>1 DEF LeavePlaylist
    <2>2. Live(m) /\ s \in State
        BY StopsType, SavesType DEF MpdType
    <2>. QED BY <1>1, <2>1, <2>2, MpdUpdate DEF MpdType, LeavePlaylist, rdvars
<1>2. CASE LeaveRadio
    <2>1. PICK s \in Saves(rdSaved, mpd[cur]),
               m \in {Cleared(mpd[cur])} \cup (IF Faulty THEN {mpd[cur]} ELSE {}) :
              rdSaved' = s /\ mpd' = [mpd EXCEPT ![cur] = m]
        BY <1>2 DEF LeaveRadio
    <2>2. Live(m) /\ s \in State
        BY SavesType DEF MpdType
    <2>. QED BY <1>2, <2>1, <2>2, MpdUpdate DEF MpdType, LeaveRadio, plvars
<1>3. CASE LeaveReceiver \/ LeaveScript \/ EnterReceiver \/ Commit
    BY <1>3 DEF MpdType, LeaveReceiver, LeaveScript, EnterReceiver, Commit, plvars, rdvars, ghosts
<1>4. CASE SndStop
    <2>1. CASE cur = "aux"
        <3>1. PICK s \in Saves(Empty(mpd["main"].vol), mpd["aux"]) :
              \E m \in IF s = mpd["aux"] THEN Restores(mpd["main"], s, ExternalVolume)
                      ELSE {mpd["main"]} :
                  mpd' = [mpd EXCEPT !["main"] = m, !["aux"] = Stopped(@)]
            BY <1>4, <2>1 DEF SndStop
        <3>2. s \in State
            <4>1. Empty(mpd["main"].vol) \in State
                BY EmptyType DEF Live, State
            <4>. QED BY <4>1, SavesType DEF Live
        <3>3. PICK m : Live(m) /\ mpd' = [mpd EXCEPT !["main"] = m, !["aux"] = Stopped(@)]
            BY <3>1, <3>2, RestoresType
        <3>4. mpd' = [mpd EXCEPT !["main"] = m, !["aux"] = Stopped(mpd["aux"])]
            BY <3>3 DEF MpdType
        <3>. QED BY <1>4, <3>3, <3>4 DEF MpdType, SndStop, Live, plvars, rdvars
    <2>2. CASE cur # "aux"
        BY <1>4, <2>2 DEF MpdType, SndStop, plvars, rdvars
    <2>. QED BY <2>1, <2>2
<1>5. CASE SndStartFails
    <2>1. PICK m \in Stops(mpd[cur]) : mpd' = [mpd EXCEPT ![cur] = m]
        BY <1>5 DEF SndStartFails
    <2>. QED BY <1>5, <2>1, StopsType, MpdUpdate DEF MpdType, SndStartFails, plvars, rdvars
<1>6. CASE SndStart
    <2>1. CASE target \in Internal
        <3>1. PICK m \in Stops(mpd["main"]),
                   s \in Saves(Empty(mpd["main"].vol), Stopped(mpd["main"])) :
              \E a \in IF s = Stopped(mpd["main"]) THEN Restores(mpd["aux"], s, ExternalVolume)
                      ELSE {mpd["aux"]} :
                  mpd' = [mpd EXCEPT !["main"] = [m EXCEPT !.vol = FullScale], !["aux"] = a]
            BY <1>6, <2>1 DEF SndStart
        <3>2. s \in State
            <4>1. Empty(mpd["main"].vol) \in State
                BY EmptyType DEF Live, State
            <4>. QED BY <4>1, SavesType DEF Live
        <3>3. PICK a : /\ Live(a)
                       /\ mpd' = [mpd EXCEPT !["main"] = [m EXCEPT !.vol = FullScale], !["aux"] = a]
            BY <3>1, <3>2, RestoresType
        <3>4. Live(m)
            BY StopsType
        <3>5. Live([m EXCEPT !.vol = FullScale])
            BY <3>4, ValuesAssumption DEF Live, State
        <3>. QED BY <1>6, <2>1, <3>3, <3>5 DEF MpdType, SndStart, Live, plvars, rdvars
    <2>2. CASE target \notin Internal
        <3>1. PICK m \in Stops(mpd["main"]) : mpd' = [mpd EXCEPT !["main"] = m]
            BY <1>6, <2>2 DEF SndStart
        <3>. QED BY <1>6, <2>2, <3>1, StopsType, MpdUpdate DEF MpdType, SndStart, plvars, rdvars
    <2>. QED BY <2>1, <2>2
<1>7. CASE EnterPlaylist
    <2>1. PICK m \in Restores(mpd[cur], plSaved, ByScript) : mpd' = [mpd EXCEPT ![cur] = m]
        BY <1>7 DEF EnterPlaylist
    <2>2. Live(m)
        BY RestoresType DEF MpdType
    <2>. QED BY <1>7, <2>1, <2>2, MpdUpdate DEF MpdType, EnterPlaylist, rdvars
<1>8. CASE EnterRadio
    <2>1. CASE mpd' = mpd
        BY <1>8, <2>1 DEF MpdType, EnterRadio, plvars
    <2>2. CASE mpd' # mpd
        <3>1. PICK m \in Restores(mpd[cur], rdSaved, ByScript) : mpd' = [mpd EXCEPT ![cur] = m]
            BY <1>8, <2>2 DEF EnterRadio
        <3>2. Live(m)
            BY RestoresType DEF MpdType
        <3>. QED BY <1>8, <3>1, <3>2, MpdUpdate DEF MpdType, EnterRadio, plvars
    <2>. QED BY <2>1, <2>2
<1>. QED BY <1>1, <1>2, <1>3, <1>4, <1>5, <1>6, <1>7, <1>8 DEF SwitchStep

\* The other actions.
LEMMA TypeMpdWork == ASSUME MpdType, [Next]_vars, ~SwitchStep PROVE MpdType'
<1>. cur \in {"main", "aux"} /\ \A m \in {"main", "aux"} : Live(mpd[m])
    BY LiveMpd DEF MpdType
<1>. DEFINE m == mpd[cur]
<1>. m \in State /\ m.st \in {"stop", "play"} /\ m.q \in Seq(Tracks)
    BY DEF Live, State
<1>1. ASSUME UNCHANGED <<plSaved, rdSaved, cur>>, userpl' \in Seq(Tracks),
             NEW r, Live(r), mpd' = [mpd EXCEPT ![cur] = r]
      PROVE  MpdType'
    BY <1>1, MpdUpdate DEF MpdType
<1>2. CASE \/ SetSourceIndex \/ PlaylistWakes \/ RadioWakes \/ ReceiverWakes \/ ReceiverStop
           \/ ReceiverPlay \/ MetaScriptStart \/ UNCHANGED vars
    BY <1>2 DEF MpdType, SetSourceIndex, PlaylistWakes, RadioWakes, ReceiverWakes, ReceiverStop,
                ReceiverPlay, MetaScriptStart, vars, plvars, rdvars, ghosts
<1>3. CASE PlaylistEdit
    <2>1. PICK q \in Edited(m.q) \cup {m.q} :
              /\ mpd' = [mpd EXCEPT ![cur].q = q, ![cur].st = IF q = <<>> THEN "stop" ELSE @]
              /\ userpl' = IF q = m.q THEN userpl ELSE q
        BY <1>3 DEF PlaylistEdit
    <2>2. q \in Seq(Tracks)
        BY EditedType
    <2>3. mpd' = [mpd EXCEPT ![cur] = [m EXCEPT !.q = q, !.st = IF q = <<>> THEN "stop" ELSE m.st]]
        BY <2>1 DEF MpdType, State
    <2>4. Live([m EXCEPT !.q = q, !.st = IF q = <<>> THEN "stop" ELSE m.st])
        BY <2>2 DEF Live, State
    <2>5. userpl' \in Seq(Tracks)
        BY <2>1, <2>2 DEF MpdType
    <2>. QED BY <1>1, <1>3, <2>3, <2>4, <2>5 DEF PlaylistEdit, plvars, rdvars
<1>4. CASE PlaylistPlay \/ TransportStop \/ RadioSetId
    <2>1. PICK st \in {"stop", "play"} : mpd' = [mpd EXCEPT ![cur] = [m EXCEPT !.st = st]]
        BY <1>4 DEF PlaylistPlay, TransportStop, RadioSetId, MpdType, State
    <2>2. Live([m EXCEPT !.st = st])
        BY DEF Live, State
    <2>. QED BY <1>1, <1>4, <2>1, <2>2
             DEF PlaylistPlay, TransportStop, RadioSetId, MpdType, plvars, rdvars, ghosts
<1>5. CASE RadioPlay
    <2>1. CASE UNCHANGED mpd
        BY <1>5, <2>1 DEF MpdType, RadioPlay, plvars, ghosts
    <2>2. CASE mpd' = [mpd EXCEPT ![cur] = Cleared(@)]
        BY <1>1, <1>5, <2>2, StoppedType DEF MpdType, RadioPlay, plvars, ghosts
    <2>3. CASE mpd' = [mpd EXCEPT ![cur].q = <<Stream>>, ![cur].st = "play"]
        <3>1. mpd' = [mpd EXCEPT ![cur] = [m EXCEPT !.q = <<Stream>>, !.st = "play"]]
            BY <2>3 DEF MpdType, State
        <3>2. Live([m EXCEPT !.q = <<Stream>>, !.st = "play"])
            <4>1. Stream \in Tracks
                BY DEF Tracks
            <4>2. <<Stream>> \in Seq(Tracks)
                BY <4>1
            <4>. QED BY <4>2 DEF Live, State
        <3>. QED BY <1>1, <1>5, <3>1, <3>2 DEF MpdType, RadioPlay, plvars, ghosts
    <2>. QED BY <1>5, <2>1, <2>2, <2>3 DEF RadioPlay
<1>6. CASE SetVolume
    <2>1. PICK v \in Vol : mpd' = [mpd EXCEPT ![cur] = [m EXCEPT !.vol = v]]
        BY <1>6 DEF SetVolume, MpdType, State
    <2>2. Live([m EXCEPT !.vol = v])
        BY DEF Live, State
    <2>3. UNCHANGED <<plSaved, rdSaved, cur, userpl>>
        BY <1>6, Zenon DEF SetVolume, plvars, rdvars
    <2>. QED BY <1>1, <2>1, <2>2, <2>3 DEF MpdType
<1>7. CASE MetaScriptDone
    <2>1. CASE UNCHANGED mpd
        BY <1>7, <2>1 DEF MpdType, MetaScriptDone, plvars, rdvars, ghosts
    <2>2. CASE mpd' # mpd
        <3>1. PICK q \in {m.q, Append(m.q, Stream)}, st \in {m.st, "play"} :
                  mpd' = [mpd EXCEPT ![cur] = [m EXCEPT !.q = q, !.st = st]]
            BY <1>7, <2>2 DEF MetaScriptDone, MpdType, State
        <3>2. q \in Seq(Tracks)
            BY AppendProperties DEF Tracks
        <3>3. Live([m EXCEPT !.q = q, !.st = st])
            BY <3>2 DEF Live, State
        <3>. QED BY <1>1, <1>7, <3>1, <3>3 DEF MpdType, MetaScriptDone, plvars, rdvars, ghosts
    <2>. QED BY <2>1, <2>2
<1>8. CASE Restart
    <2>1. PICK v \in Vol : plSaved' = Empty(v) /\ rdSaved' = Empty(v)
        BY <1>8 DEF Restart
    <2>2. mpd' = [mpd EXCEPT !["aux"] = Cleared(mpd["aux"])]
        BY <1>8 DEF Restart, MpdType
    <2>3. Live(Cleared(mpd["aux"]))
        BY StoppedType
    <2>. QED BY <1>8, <2>1, <2>2, <2>3, EmptyType, MpdUpdate DEF MpdType, Restart
<1>. QED BY <1>2, <1>3, <1>4, <1>5, <1>6, <1>7, <1>8 DEF Next

\* The types hold: in particular the status of a MPD is never left unread, and
\* everything which is restored in a queue is a track or the radio's stream.
THEOREM TypeCorrect == Spec => []TypeOK
<1>1. Init => TypeOK
    BY TypeInit
<1>2. TypeOK /\ [Next]_vars => TypeOK'
    <2>. SUFFICES ASSUME TypeOK, [Next]_vars PROVE (SwitchType /\ ServiceType /\ MpdType)'
        BY DEF TypeOK, SwitchType, ServiceType, MpdType
    <2>1. SwitchType /\ ServiceType /\ MpdType
        BY TypeParts
    <2>. QED BY <2>1, TypeSwitch, TypeService, TypeMpdSwitch, TypeMpdWork
<1>. QED BY <1>1, <1>2, PTL DEF Spec

-----------------------------------------------------------------------------
(* The playlist is kept *)

\* What the action does after the switch is for the service it switches to.
AfterFor(s) ==
    /\ after \in {"plplay", "pledit"} => s = "Playlist"
    /\ after = "rdplay" => s = "Radio"
AfterInv ==
    /\ pc = "resume" => AfterFor(src)
    /\ pc \in {"leave", "sndstop", "sndstart", "enter", "commit"} => AfterFor(target)

\* PlaylistKept is inductive only with the owner of MPD: it is the playlist
\* service alone which works on the queue while it is active, and the others
\* alone while it is not.
KeptInv == TypeOK /\ OwnerInv /\ AfterInv /\ PlaylistKept

LEMMA AfterStep == ASSUME AfterInv, OwnerInv, [Next]_vars PROVE AfterInv'
<1>1. CASE SwitchStep
    BY <1>1 DEF AfterInv, AfterFor, SwitchStep, LeavePlaylist, LeaveRadio, LeaveReceiver,
                LeaveScript, SndStop, SndStart, SndStartFails, EnterPlaylist, EnterRadio,
                EnterReceiver, Commit, ToStart, svars
<1>2. CASE SetSourceIndex \/ PlaylistWakes \/ RadioWakes \/ ReceiverWakes \/ ReceiverStop
    <2>1. CASE SetSourceIndex \/ ReceiverStop
        BY <2>1 DEF AfterInv, AfterFor, SetSourceIndex, ReceiverStop, Switch
    <2>2. CASE PlaylistWakes
        BY <2>2 DEF AfterInv, AfterFor, PlaylistWakes, Switch
    <2>3. CASE RadioWakes \/ ReceiverWakes
        BY <2>3 DEF AfterInv, AfterFor, RadioWakes, ReceiverWakes, Switch
    <2>. QED BY <1>2, <2>1, <2>2, <2>3
<1>3. CASE PlaylistEdit \/ PlaylistPlay \/ RadioPlay \/ ReceiverPlay
    BY <1>3 DEF AfterInv, AfterFor, PlaylistEdit, PlaylistPlay, RadioPlay, ReceiverPlay, Done
<1>4. CASE TransportStop \/ RadioSetId \/ SetVolume \/ MetaScriptStart \/ MetaScriptDone
    BY <1>4 DEF AfterInv, AfterFor, TransportStop, RadioSetId, SetVolume, MetaScriptStart,
                MetaScriptDone, svars
<1>5. CASE Restart
    BY <1>5 DEF AfterInv, AfterFor, Restart
<1>6. CASE UNCHANGED vars
    BY <1>6 DEF AfterInv, AfterFor, vars, svars
<1>. QED BY <1>1, <1>2, <1>3, <1>4, <1>5, <1>6 DEF Next

\* A switch moves the playlist between the device's MPD and the saved state.
LEMMA KeptSwitch == ASSUME KeptInv, SwitchStep PROVE PlaylistKept'
<1>1. CASE LeavePlaylist
    BY <1>1 DEF KeptInv, OwnerInv, ActiveFor, PlaylistKept, LeavePlaylist
<1>2. CASE LeaveRadio \/ LeaveReceiver \/ LeaveScript
    <2>1. ~plActive
        BY <1>2 DEF KeptInv, OwnerInv, ActiveFor, PlaylistSources, RadioSources,
                    LeaveRadio, LeaveReceiver, LeaveScript
    <2>2. UNCHANGED <<plActive, plSaved, userpl>>
        BY <1>2 DEF LeaveRadio, LeaveReceiver, LeaveScript, plvars, ghosts
    <2>3. clean' => clean
        BY <1>2, Zenon DEF LeaveRadio, LeaveReceiver, LeaveScript, ghosts
    <2>. QED BY <2>1, <2>2, <2>3 DEF KeptInv, PlaylistKept
<1>3. CASE SndStop \/ SndStart \/ SndStartFails
    <2>1. ~plActive
        BY <1>3 DEF KeptInv, OwnerInv, NoneActive, SndStop, SndStart, SndStartFails
    <2>2. UNCHANGED <<plActive, plSaved, userpl>>
        BY <1>3 DEF SndStop, SndStart, SndStartFails, plvars, ghosts
    <2>3. clean' => clean
        BY <1>3, Zenon DEF SndStop, SndStart, SndStartFails, ghosts
    <2>. QED BY <2>1, <2>2, <2>3 DEF KeptInv, PlaylistKept
<1>4. CASE EnterPlaylist
    <2>1. ~plActive /\ cur \in DOMAIN mpd
        BY <1>4 DEF KeptInv, OwnerInv, NoneActive, TypeOK, EnterPlaylist
    <2>2. PICK m : /\ mpd' = [mpd EXCEPT ![cur] = m]
                   /\ clean' = (clean /\ m = Restored(mpd[cur], plSaved, ByScript))
        BY <1>4 DEF EnterPlaylist
    <2>3. clean' => clean /\ m = Restored(mpd[cur], plSaved, ByScript)
        BY <2>2, Zenon
    <2>4. m = Restored(mpd[cur], plSaved, ByScript) => mpd'[cur].q = plSaved.q
        BY <2>1, <2>2 DEF Restored
    <2>. QED BY <1>4, <2>1, <2>3, <2>4 DEF KeptInv, PlaylistKept, EnterPlaylist
<1>5. CASE EnterRadio \/ EnterReceiver
    <2>1. ~plActive
        BY <1>5 DEF KeptInv, OwnerInv, NoneActive, EnterRadio, EnterReceiver
    <2>2. UNCHANGED <<plActive, plSaved, userpl>>
        BY <1>5 DEF EnterRadio, EnterReceiver, plvars, ghosts
    <2>3. clean' => clean
        BY <1>5, Zenon DEF EnterRadio, EnterReceiver, ghosts
    <2>. QED BY <2>1, <2>2, <2>3 DEF KeptInv, PlaylistKept
<1>6. CASE Commit
    BY <1>6 DEF KeptInv, PlaylistKept, Commit, plvars, ghosts
<1>. QED BY <1>1, <1>2, <1>3, <1>4, <1>5, <1>6 DEF SwitchStep

\* The work of the services on the queue.
LEMMA KeptWork == ASSUME KeptInv, [Next]_vars, ~SwitchStep PROVE PlaylistKept'
<1>. cur \in {"main", "aux"} /\ DOMAIN mpd = {"main", "aux"}
    BY DEF KeptInv, TypeOK
<1>. \A m \in {"main", "aux"} : DOMAIN mpd[m] = {"q", "st", "vol"}
    BY DEF KeptInv, TypeOK, State
<1>1. CASE \/ SetSourceIndex \/ PlaylistWakes \/ RadioWakes \/ ReceiverWakes \/ ReceiverStop
           \/ ReceiverPlay \/ MetaScriptStart \/ UNCHANGED vars
    <2>1. UNCHANGED <<plActive, plSaved, mpd, cur, userpl, clean>>
        BY <1>1 DEF SetSourceIndex, PlaylistWakes, RadioWakes, ReceiverWakes, ReceiverStop,
                    ReceiverPlay, MetaScriptStart, vars, plvars, ghosts
    <2>. QED BY <2>1 DEF KeptInv, PlaylistKept
<1>2. CASE PlaylistEdit
    <2>1. plActive
        BY <1>2 DEF PlaylistEdit, Doing, KeptInv, AfterInv, AfterFor, OwnerInv, ActiveFor,
                    PlaylistSources
    <2>2. UNCHANGED <<plActive, cur, clean>> /\ (mpd[cur].q = userpl => mpd'[cur].q = userpl')
        BY <1>2 DEF PlaylistEdit, plvars
    <2>. QED BY <2>1, <2>2 DEF KeptInv, PlaylistKept
<1>3. CASE PlaylistPlay \/ TransportStop \/ RadioSetId \/ SetVolume
    <2>1. mpd'[cur].q = mpd[cur].q
        BY <1>3 DEF PlaylistPlay, TransportStop, RadioSetId, SetVolume
    <2>2. UNCHANGED <<plActive, plSaved, cur, userpl, clean>>
        BY <1>3 DEF PlaylistPlay, TransportStop, RadioSetId, SetVolume, plvars, ghosts
    <2>. QED BY <2>1, <2>2 DEF KeptInv, PlaylistKept
<1>4. CASE RadioPlay
    <2>1. ~plActive
        BY <1>4 DEF RadioPlay, Doing, KeptInv, AfterInv, AfterFor, OwnerInv, ActiveFor,
                    PlaylistSources, RadioSources
    <2>2. UNCHANGED <<plActive, plSaved, userpl, clean>>
        BY <1>4 DEF RadioPlay, plvars, ghosts
    <2>. QED BY <2>1, <2>2 DEF KeptInv, PlaylistKept
<1>5. CASE MetaScriptDone
    <2>1. UNCHANGED <<plActive, plSaved, cur, userpl>>
        BY <1>5 DEF MetaScriptDone, plvars
    <2>2. CASE rdActive
        <3>1. ~plActive
            BY <2>2 DEF KeptInv, OwnerInv, ActiveFor, NoneActive, PlaylistSources, RadioSources
        <3>2. clean' => clean
            BY <1>5, Zenon DEF MetaScriptDone
        <3>. QED BY <2>1, <3>1, <3>2 DEF KeptInv, PlaylistKept
    <2>3. CASE ~rdActive
        <3>1. clean' => clean /\ mpd' = mpd
            BY <1>5, <2>3, Zenon DEF MetaScriptDone
        <3>. QED BY <2>1, <3>1 DEF KeptInv, PlaylistKept
    <2>. QED BY <2>2, <2>3
<1>6. CASE Restart
    BY <1>6 DEF KeptInv, PlaylistKept, Restart
<1>. QED BY <1>1, <1>2, <1>3, <1>4, <1>5, <1>6 DEF Next

\* For every configuration of the sources: as long as MPD obeys, the process is not
\* restarted in the middle of something else than Playlist and no metascript comes
\* back to an inactive radio, no sequence of actions and switches (sender modes
\* included) loses or replaces the user's playlist.
THEOREM PlaylistNeverLost == Spec => []PlaylistKept
<1>1. Init => KeptInv
    BY TypeInit, OwnerInit DEF Init, KeptInv, AfterInv, PlaylistKept
<1>2. KeptInv /\ [Next]_vars => KeptInv'
    <2>. SUFFICES ASSUME KeptInv, [Next]_vars PROVE KeptInv'
        OBVIOUS
    <2>1. TypeOK'
        <3>1. SwitchType /\ ServiceType /\ MpdType
            BY TypeParts DEF KeptInv
        <3>2. (SwitchType /\ ServiceType /\ MpdType)'
            BY <3>1, TypeSwitch, TypeService, TypeMpdSwitch, TypeMpdWork
        <3>. QED BY <3>2 DEF TypeOK, SwitchType, ServiceType, MpdType
    <2>2. OwnerInv' /\ AfterInv'
        BY OwnerStep, AfterStep DEF KeptInv
    <2>3. PlaylistKept'
        BY KeptSwitch, KeptWork
    <2>. QED BY <2>1, <2>2, <2>3 DEF KeptInv
<1>3. KeptInv => PlaylistKept
    BY DEF KeptInv
<1>. QED BY <1>1, <1>2, <1>3, PTL DEF Spec

-----------------------------------------------------------------------------
(* The sender mode *)

\* MainSilentWhileSending is inductive once the start of a sender is known to begin
\* with the main MPD in use.
SilentInv == MainSilentWhileSending /\ (cur = "aux" => pc # "sndstart")

\* The main MPD of a device which uses the auxiliary one is not touched.
LEMMA SilentAux ==
    ASSUME TypeOK, SilentInv, UNCHANGED cur, clean' => clean,
           NEW r, mpd' = [mpd EXCEPT ![cur] = r], cur = "aux"
    PROVE  clean' => mpd'["main"].st = "stop"
BY DEF TypeOK, SilentInv, MainSilentWhileSending

LEMMA SilentSwitch == ASSUME TypeOK, SilentInv, SwitchStep PROVE SilentInv'
<1>. cur \in {"main", "aux"} /\ mpd \in [{"main", "aux"} -> State]
    BY DEF TypeOK
<1>. Internal \subseteq Sending
    BY DEF Sending
<1>1. CASE LeavePlaylist \/ LeaveRadio
    <2>1. UNCHANGED <<cur, src, target>>
        BY <1>1 DEF LeavePlaylist, LeaveRadio, svars
    <2>2. clean' => clean
        BY <1>1, Zenon DEF LeavePlaylist, LeaveRadio
    <2>3. PICK r : mpd' = [mpd EXCEPT ![cur] = r]
        BY <1>1 DEF LeavePlaylist, LeaveRadio
    <2>4. cur = "aux" => src \in Internal /\ pc' = "sndstop"
        BY <1>1 DEF SilentInv, MainSilentWhileSending, LeavePlaylist, LeaveRadio
    <2>. QED BY <2>1, <2>2, <2>3, <2>4, SilentAux DEF SilentInv, MainSilentWhileSending
<1>2. CASE LeaveReceiver \/ LeaveScript
    <2>1. cur = "main"
        BY <1>2 DEF SilentInv, MainSilentWhileSending, LeaveReceiver, LeaveScript, Internal
    <2>. QED BY <1>2, <2>1 DEF SilentInv, MainSilentWhileSending, LeaveReceiver, LeaveScript
<1>3. CASE SndStop
    BY <1>3 DEF SilentInv, MainSilentWhileSending, SndStop
<1>4. CASE SndStart \/ SndStartFails
    <2>1. cur = "main"
        BY <1>4 DEF SilentInv, SndStart, SndStartFails
    <2>2. CASE SndStartFails
        BY <2>1, <2>2 DEF SilentInv, MainSilentWhileSending, SndStartFails
    <2>3. CASE SndStart /\ target \notin Internal
        BY <2>1, <2>3 DEF SilentInv, MainSilentWhileSending, SndStart
    <2>4. CASE SndStart /\ target \in Internal
        <3>1. PICK m, a : /\ mpd' = [mpd EXCEPT !["main"] = [m EXCEPT !.vol = FullScale],
                                                !["aux"] = a]
                          /\ clean' => m = Stopped(mpd["main"])
            BY <2>4, Zenon DEF SndStart
        <3>2. clean' => mpd'["main"].st = "stop"
            BY <3>1 DEF Stopped, State
        <3>3. pc' = "enter" /\ target' = target
            BY <2>4 DEF SndStart, svars, Internal
        <3>. QED BY <2>4, <3>2, <3>3 DEF SilentInv, MainSilentWhileSending
    <2>. QED BY <1>4, <2>2, <2>3, <2>4
<1>5. CASE EnterPlaylist \/ EnterRadio
    <2>1. UNCHANGED <<cur, target>> /\ pc' = "commit" /\ pc = "enter"
        BY <1>5 DEF EnterPlaylist, EnterRadio, svars
    <2>2. clean' => clean
        BY <1>5, Zenon DEF EnterPlaylist, EnterRadio
    <2>3. (mpd' = mpd) \/ \E r : mpd' = [mpd EXCEPT ![cur] = r]
        BY <1>5 DEF EnterPlaylist, EnterRadio
    <2>. QED BY <2>1, <2>2, <2>3, SilentAux DEF SilentInv, MainSilentWhileSending
<1>6. CASE EnterReceiver
    BY <1>6 DEF SilentInv, MainSilentWhileSending, EnterReceiver, svars, ghosts
<1>7. CASE Commit
    BY <1>7 DEF SilentInv, MainSilentWhileSending, Commit, ghosts
<1>. QED BY <1>1, <1>2, <1>3, <1>4, <1>5, <1>6, <1>7 DEF SwitchStep

LEMMA SilentWork == ASSUME TypeOK, SilentInv, [Next]_vars, ~SwitchStep PROVE SilentInv'
<1>. cur \in {"main", "aux"} /\ mpd \in [{"main", "aux"} -> State]
    BY DEF TypeOK
<1>1. ASSUME UNCHANGED <<cur, src, target>>, clean' => clean,
             (mpd' = mpd) \/ \E r : mpd' = [mpd EXCEPT ![cur] = r],
             pc' = pc \/ (pc \in {"idle", "resume"} /\ pc' = "idle")
      PROVE  SilentInv'
    BY <1>1, SilentAux DEF SilentInv, MainSilentWhileSending
<1>2. CASE SetSourceIndex \/ PlaylistWakes \/ RadioWakes \/ ReceiverWakes \/ ReceiverStop
    <2>1. pc = "idle" /\ pc' \in {"idle", "resume", "leave"} /\ UNCHANGED <<cur, src, mpd, clean>>
        BY <1>2 DEF SetSourceIndex, PlaylistWakes, RadioWakes, ReceiverWakes, ReceiverStop,
                    Switch, ghosts
    <2>. QED BY <2>1 DEF SilentInv, MainSilentWhileSending
<1>3. CASE PlaylistEdit \/ PlaylistPlay \/ RadioPlay \/ ReceiverPlay
    <2>1. UNCHANGED <<cur, src, target, clean>> /\ pc \in {"idle", "resume"} /\ pc' = "idle"
        BY <1>3 DEF PlaylistEdit, PlaylistPlay, RadioPlay, ReceiverPlay, Doing, Done, ghosts
    <2>2. (mpd' = mpd) \/ \E r : mpd' = [mpd EXCEPT ![cur] = r]
        BY <1>3 DEF PlaylistEdit, PlaylistPlay, RadioPlay, ReceiverPlay
    <2>. QED BY <1>1, <2>1, <2>2
<1>4. CASE TransportStop \/ RadioSetId \/ SetVolume \/ MetaScriptStart
    <2>1. UNCHANGED <<cur, src, target, clean, pc>>
        BY <1>4 DEF TransportStop, RadioSetId, SetVolume, MetaScriptStart, svars, ghosts
    <2>2. (mpd' = mpd) \/ \E r : mpd' = [mpd EXCEPT ![cur] = r]
        BY <1>4 DEF TransportStop, RadioSetId, SetVolume, MetaScriptStart
    <2>. QED BY <1>1, <2>1, <2>2
<1>5. CASE MetaScriptDone
    <2>1. UNCHANGED <<cur, src, target, pc>>
        BY <1>5 DEF MetaScriptDone, svars
    <2>2. clean' => clean
        BY <1>5, Zenon DEF MetaScriptDone
    <2>3. (mpd' = mpd) \/ \E r : mpd' = [mpd EXCEPT ![cur] = r]
        BY <1>5 DEF MetaScriptDone
    <2>. QED BY <1>1, <2>1, <2>2, <2>3
<1>6. CASE Restart
    BY <1>6 DEF SilentInv, MainSilentWhileSending, Restart
<1>7. CASE UNCHANGED vars
    BY <1>1, <1>7 DEF vars, svars, ghosts
<1>. QED BY <1>2, <1>3, <1>4, <1>5, <1>6, <1>7 DEF Next

LEMMA SilentInvariant == Spec => []SilentInv
<1>1. Init => SilentInv
    BY DEF Init, SilentInv, MainSilentWhileSending
<1>2. TypeOK /\ SilentInv /\ [Next]_vars => SilentInv'
    BY SilentSwitch, SilentWork
<1>. QED BY <1>1, <1>2, TypeCorrect, PTL DEF Spec

\* For every configuration of the sources, whatever MPD call fails and wherever the
\* process is restarted: the device uses the auxiliary MPD only from the start of an
\* internal sender source to the end of its stop, and as long as MPD obeyed the main
\* MPD plays nothing meanwhile, which leaves the output to the receiver.
THEOREM MainStaysSilent == Spec => []MainSilentWhileSending
<1>1. SilentInv => MainSilentWhileSending
    BY DEF SilentInv
<1>. QED BY <1>1, SilentInvariant, PTL

\* FullScaleOnlyWhileSending at every point of a switch: the mixer of the MPD which
\* the device uses, and every saved state which may still be restored, have a volume
\* which somebody chose.
Chosen(m) == m.vol \in chosen
VolumeInv ==
    /\ Chosen(mpd[cur])
    /\ ~plActive => Chosen(plSaved)
    /\ rdSaved.st # "unk" => Chosen(rdSaved)
FullScaleInv == ~ExternalVolume /\ clean => VolumeInv

\* What a MPD which obeys keeps of the volume.
LEMMA VolumeKept ==
    ASSUME TypeOK
    PROVE  /\ \A m \in {"main", "aux"} : /\ Stopped(mpd[m]).vol = mpd[m].vol
                                         /\ Cleared(mpd[m]).vol = mpd[m].vol
           /\ \A m, s : Restored(m, s, FALSE).vol = s.vol
BY DEF TypeOK, State, Stopped, Cleared, Restored

LEMMA FullScaleSwitch ==
    ASSUME TypeOK, OwnerInv, SilentInv, FullScaleInv, SwitchStep PROVE FullScaleInv'
<1>. SUFFICES ASSUME ~ExternalVolume, clean' PROVE VolumeInv'
    BY DEF FullScaleInv
<1>. cur \in {"main", "aux"} /\ mpd \in [{"main", "aux"} -> State]
    BY DEF TypeOK
<1>. ExternalVolume = FALSE /\ ByScript = FALSE
    BY ValuesAssumption DEF ByScript
<1>1. clean => VolumeInv
    BY DEF FullScaleInv
<1>2. CASE LeavePlaylist
    <2>1. PICK s, m : /\ plSaved' = s /\ mpd' = [mpd EXCEPT ![cur] = m]
                      /\ clean' = (clean /\ s = mpd[cur] /\ m = Stopped(mpd[cur]))
        BY <1>2 DEF LeavePlaylist
    <2>2. clean /\ s = mpd[cur] /\ m = Stopped(mpd[cur])
        BY <2>1, Zenon
    <2>3. UNCHANGED <<cur, rdSaved, chosen>>
        BY <1>2 DEF LeavePlaylist, rdvars
    <2>. QED BY <1>1, <2>1, <2>2, <2>3, VolumeKept DEF VolumeInv, Chosen
<1>3. CASE LeaveRadio
    <2>1. PICK s, m : /\ rdSaved' = s /\ mpd' = [mpd EXCEPT ![cur] = m]
                      /\ clean' = (clean /\ s = mpd[cur] /\ m = Cleared(mpd[cur]))
        BY <1>3 DEF LeaveRadio
    <2>2. clean /\ s = mpd[cur] /\ m = Cleared(mpd[cur])
        BY <2>1, Zenon
    <2>3. UNCHANGED <<cur, plActive, plSaved, chosen>>
        BY <1>3 DEF LeaveRadio, plvars
    <2>. QED BY <1>1, <2>1, <2>2, <2>3, VolumeKept DEF VolumeInv, Chosen
<1>4. CASE SndStop
    <2>1. UNCHANGED <<plActive, plSaved, rdSaved, chosen>> /\ cur' = "main"
        BY <1>4 DEF SndStop, plvars, rdvars
    <2>2. CASE cur = "aux"
        <3>1. PICK m : /\ mpd' = [mpd EXCEPT !["main"] = m, !["aux"] = Stopped(@)]
                       /\ clean' = (clean /\ m = Restored(mpd["main"], mpd["aux"], FALSE))
            BY <1>4, <2>2 DEF SndStop
        <3>2. clean /\ m = Restored(mpd["main"], mpd["aux"], FALSE)
            BY <3>1, Zenon
        <3>. QED BY <1>1, <2>1, <2>2, <3>1, <3>2, VolumeKept DEF VolumeInv, Chosen
    <2>3. CASE cur = "main"
        <3>1. UNCHANGED <<mpd, clean>>
            BY <1>4, <2>3 DEF SndStop
        <3>. QED BY <1>1, <2>1, <2>3, <3>1 DEF VolumeInv, Chosen
    <2>. QED BY <2>2, <2>3
<1>5. CASE SndStart
    <2>1. UNCHANGED <<plActive, plSaved, rdSaved, chosen>>
        BY <1>5 DEF SndStart, plvars, rdvars
    <2>2. CASE target \in Internal
        <3>1. PICK m, a :
                /\ mpd' = [mpd EXCEPT !["main"] = [m EXCEPT !.vol = FullScale], !["aux"] = a]
                /\ cur' = "aux"
                /\ clean' = (clean /\ m = Stopped(mpd["main"])
                             /\ a = Restored(mpd["aux"], Stopped(mpd["main"]), FALSE))
            BY <1>5, <2>2 DEF SndStart
        <3>2. clean /\ a = Restored(mpd["aux"], Stopped(mpd["main"]), FALSE)
            BY <3>1, Zenon
        <3>3. a.vol = mpd["main"].vol
            BY <3>2, VolumeKept
        <3>4. mpd'[cur'].vol = mpd["main"].vol
            BY <3>1, <3>3
        <3>5. cur = "main"
            BY <1>5 DEF SndStart, SilentInv
        <3>. QED BY <1>1, <2>1, <3>2, <3>4, <3>5 DEF VolumeInv, Chosen
    <2>3. CASE target \notin Internal
        <3>1. PICK m : /\ mpd' = [mpd EXCEPT !["main"] = m]
                       /\ clean' = (clean /\ m = Stopped(mpd["main"])) /\ cur' = cur
            BY <1>5, <2>3 DEF SndStart
        <3>2. clean /\ m = Stopped(mpd["main"])
            BY <3>1, Zenon
        <3>. QED BY <1>1, <2>1, <3>1, <3>2, VolumeKept DEF VolumeInv, Chosen
    <2>. QED BY <2>2, <2>3
<1>6. CASE SndStartFails
    <2>1. PICK m : /\ mpd' = [mpd EXCEPT ![cur] = m]
                   /\ clean' = (clean /\ m = Stopped(mpd[cur]))
        BY <1>6 DEF SndStartFails
    <2>2. clean /\ m = Stopped(mpd[cur])
        BY <2>1, Zenon
    <2>3. UNCHANGED <<cur, plActive, plSaved, rdSaved, chosen>>
        BY <1>6 DEF SndStartFails, plvars, rdvars
    <2>. QED BY <1>1, <2>1, <2>2, <2>3, VolumeKept DEF VolumeInv, Chosen
<1>7. CASE EnterPlaylist
    <2>1. PICK m : /\ mpd' = [mpd EXCEPT ![cur] = m]
                   /\ clean' = (clean /\ m = Restored(mpd[cur], plSaved, FALSE))
        BY <1>7 DEF EnterPlaylist
    <2>2. clean /\ m = Restored(mpd[cur], plSaved, FALSE)
        BY <2>1, Zenon
    <2>3. UNCHANGED <<cur, plSaved, rdSaved, chosen>> /\ plActive' = TRUE
        BY <1>7 DEF EnterPlaylist, rdvars
    <2>4. ~plActive
        BY <1>7 DEF EnterPlaylist, OwnerInv, NoneActive
    <2>. QED BY <1>1, <2>1, <2>2, <2>3, <2>4, VolumeKept DEF VolumeInv, Chosen
<1>8. CASE EnterRadio
    <2>1. UNCHANGED <<cur, plActive, plSaved, rdSaved, chosen>>
        BY <1>8 DEF EnterRadio, plvars
    <2>2. CASE rdChosen /\ rdSaved.st # "unk"
        <3>1. PICK m : /\ mpd' = [mpd EXCEPT ![cur] = m]
                       /\ clean' = (clean /\ m = Restored(mpd[cur], rdSaved, FALSE))
            BY <1>8, <2>2 DEF EnterRadio
        <3>2. clean /\ m = Restored(mpd[cur], rdSaved, FALSE)
            BY <3>1, Zenon
        <3>3. m.vol = rdSaved.vol
            BY <3>2, VolumeKept
        <3>4. mpd'[cur].vol = rdSaved.vol
            BY <3>1, <3>3
        <3>. QED BY <1>1, <2>1, <2>2, <3>2, <3>4 DEF VolumeInv, Chosen
    <2>3. CASE ~(rdChosen /\ rdSaved.st # "unk")
        <3>1. UNCHANGED <<mpd, clean>>
            BY <1>8, <2>3 DEF EnterRadio
        <3>. QED BY <1>1, <2>1, <3>1 DEF VolumeInv, Chosen
    <2>. QED BY <2>2, <2>3
<1>9. CASE LeaveReceiver \/ LeaveScript \/ EnterReceiver \/ Commit
    <2>1. UNCHANGED <<mpd, cur, plActive, plSaved, rdSaved, chosen, clean>>
        BY <1>9 DEF LeaveReceiver, LeaveScript, EnterReceiver, Commit, plvars, rdvars, ghosts
    <2>. QED BY <1>1, <2>1 DEF VolumeInv, Chosen
<1>. QED BY <1>2, <1>3, <1>4, <1>5, <1>6, <1>7, <1>8, <1>9 DEF SwitchStep

LEMMA FullScaleWork ==
    ASSUME TypeOK, FullScaleInv, [Next]_vars, ~SwitchStep PROVE FullScaleInv'
<1>. SUFFICES ASSUME ~ExternalVolume, clean' PROVE VolumeInv'
    BY DEF FullScaleInv
<1>. cur \in {"main", "aux"} /\ mpd \in [{"main", "aux"} -> State]
    BY DEF TypeOK
<1>. DOMAIN mpd[cur] = {"q", "st", "vol"}
    BY DEF State
<1>1. clean => VolumeInv
    BY DEF FullScaleInv
<1>2. ASSUME mpd'[cur'].vol = mpd[cur].vol, clean, chosen' = chosen,
             UNCHANGED <<plActive, plSaved, rdSaved>>
      PROVE  VolumeInv'
    BY <1>1, <1>2 DEF VolumeInv, Chosen
<1>3. CASE \/ SetSourceIndex \/ PlaylistWakes \/ RadioWakes \/ ReceiverWakes \/ ReceiverStop
           \/ ReceiverPlay \/ MetaScriptStart \/ UNCHANGED vars
    <2>1. UNCHANGED <<mpd, cur, plActive, plSaved, rdSaved, chosen, clean>>
        BY <1>3 DEF SetSourceIndex, PlaylistWakes, RadioWakes, ReceiverWakes, ReceiverStop,
                    ReceiverPlay, MetaScriptStart, vars, plvars, rdvars, ghosts
    <2>. QED BY <1>2, <2>1
<1>4. CASE PlaylistEdit \/ PlaylistPlay \/ TransportStop \/ RadioSetId \/ RadioPlay
    <2>1. UNCHANGED <<cur, plActive, plSaved, rdSaved, chosen, clean>>
        BY <1>4 DEF PlaylistEdit, PlaylistPlay, TransportStop, RadioSetId, RadioPlay, plvars,
                    rdvars, ghosts
    <2>2. mpd'[cur].vol = mpd[cur].vol
        <3>1. CASE PlaylistEdit
            BY <3>1 DEF PlaylistEdit
        <3>2. CASE PlaylistPlay \/ TransportStop \/ RadioSetId
            BY <3>2 DEF PlaylistPlay, TransportStop, RadioSetId
        <3>3. CASE RadioPlay
            BY <3>3 DEF RadioPlay, Cleared
        <3>. QED BY <1>4, <3>1, <3>2, <3>3
    <2>. QED BY <1>2, <2>1, <2>2
<1>5. CASE SetVolume
    <2>1. PICK v : mpd' = [mpd EXCEPT ![cur].vol = v] /\ chosen' = chosen \cup {v}
        BY <1>5 DEF SetVolume
    <2>2. UNCHANGED <<cur, plActive, plSaved, rdSaved, clean>>
        BY <1>5 DEF SetVolume, plvars, rdvars
    <2>. QED BY <1>1, <2>1, <2>2 DEF VolumeInv, Chosen
<1>6. CASE MetaScriptDone
    <2>1. UNCHANGED <<cur, plActive, plSaved, rdSaved, chosen>>
        BY <1>6 DEF MetaScriptDone, plvars, rdvars
    <2>2. clean
        BY <1>6, Zenon DEF MetaScriptDone
    <2>3. mpd'[cur].vol = mpd[cur].vol
        BY <1>6 DEF MetaScriptDone
    <2>. QED BY <1>2, <2>1, <2>2, <2>3
<1>7. CASE Restart
    <2>1. clean /\ cur = "main"
        BY <1>7, Zenon DEF Restart
    <2>2. mpd'["main"] = mpd["main"] /\ cur' = "main" /\ plActive' = TRUE /\ chosen' = chosen
        BY <1>7 DEF Restart
    <2>3. rdSaved'.st = "unk"
        BY <1>7 DEF Restart, Empty
    <2>. QED BY <1>1, <2>1, <2>2, <2>3 DEF VolumeInv, Chosen
<1>. QED BY <1>3, <1>4, <1>5, <1>6, <1>7 DEF Next

\* For every configuration of the sources where MPD controls the volume: the main
\* mixer, which the start of an internal sender turns to full scale, is back to a
\* volume which was chosen when the switch that leaves the sender is done.
THEOREM FullScaleEnds == Spec => []FullScaleOnlyWhileSending
<1>1. Init => FullScaleInv
    <2>. SUFFICES ASSUME Init PROVE VolumeInv
        BY DEF FullScaleInv
    <2>1. PICK v \in Vol : /\ plSaved = Empty(v) /\ rdSaved = Empty(v) /\ chosen = {v}
                          /\ mpd = [m \in {"main", "aux"} |-> [q |-> <<>>, st |-> "stop", vol |-> v]]
        BY DEF Init
    <2>2. cur = "main"
        BY DEF Init
    <2>. QED BY <2>1, <2>2 DEF VolumeInv, Chosen, Empty
<1>2. TypeOK /\ OwnerInv /\ SilentInv /\ FullScaleInv /\ [Next]_vars => FullScaleInv'
    BY FullScaleSwitch, FullScaleWork
<1>3. FullScaleInv => FullScaleOnlyWhileSending
    BY DEF FullScaleInv, VolumeInv, Chosen, FullScaleOnlyWhileSending
<1>. QED BY <1>1, <1>2, <1>3, TypeCorrect, OwnerInvariant, SilentInvariant, PTL DEF Spec
=============================================================================

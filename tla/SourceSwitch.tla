---------------------------- MODULE SourceSwitch ----------------------------
(***************************************************************************)
(* Switching the audio source of the OpenHome device: OHProduct's          *)
(* iSetSourceIndex with the setActive() of the services it deactivates and *)
(* activates (OHPlaylist, OHRadio, OHReceiver), the SenderReceiver         *)
(* start()/stop() which moves the whole device from the main MPD to an     *)
(* auxiliary one and back, the persistence of the source name, and a       *)
(* restart of the process at any step.                                     *)
(*                                                                         *)
(* One OpenHome SOAP action runs at a time (libupnpp serialises the        *)
(* actions of a device).  pc is the point that action has reached inside   *)
(* iSetSourceIndex; the radio metadata script is run by the MPD event      *)
(* thread, which shares no lock with it.                                   *)
(***************************************************************************)
EXTENDS Naturals, Sequences, SequencesExt

CONSTANTS
    Track,       \* what a control point may put in the playlist
    Stream,      \* the audio URL of a radio channel
    Vol,         \* volumes
    MaxLen,      \* bound on the length of the playlist
    Sources,     \* the names in o_sources, which depend on the configuration
    MetaRadio,   \* BOOLEAN: the radio channel has no static uri, only a metascript
    ExternalVolume, \* BOOLEAN: scripts control the volume (externalvolumecontrol)
    Faulty       \* BOOLEAN: calls to MPD may fail, the process may be restarted

AllSources == {"Playlist", "Radio", "Songcast",
               "PL-to-Songcast", "RD-to-Songcast", "Script"}
FullScale == 100

ASSUME SourcesAssumption ==
    /\ Sources \subseteq AllSources
    /\ "Playlist" \in Sources
ASSUME ValuesAssumption ==
    /\ Stream \notin Track
    /\ FullScale \in Vol
    /\ MaxLen \in Nat
    /\ MetaRadio \in BOOLEAN
    /\ ExternalVolume \in BOOLEAN
    /\ Faulty \in BOOLEAN

VARIABLES
    src,        \* OHProduct::m_sourceIndex, as a name
    persisted,  \* the source name in g_state
    plActive,   \* OHPlaylist::m_active
    plSaved,    \* OHPlaylist::m_mpdsavedstate
    rdActive,   \* OHRadio::m_active
    rdSaved,    \* OHRadio::m_mpdsavedstate
    rdChosen,   \* OHRadio::m_id # 0
    rdPending,  \* OHRadio::m_playpending
    rdScript,   \* the metascript run by the event thread: "none", or the MPD
                \* state which makestate() had read when it started the script
    radioFlag,  \* UpMpd::m_radioplaying
    rcActive,   \* OHReceiver::m_active
    rcCmd,      \* OHReceiver::m_cmd is set: the receiver process was started
    mpd,        \* the two MPDs: what they hold, if they play, and the mixer which
                \* MPDCli::setVolume controls (MPD's own, or the one of the scripts)
    cur,        \* which one m_dev->getmpdcli() is
    pc,         \* where the current SOAP action is in iSetSourceIndex
    target,     \* its argument
    after,      \* what the action does once the source is switched
    ok,         \* its local variable ok
    boot,       \* it is called by the OHProduct constructor
    userpl,     \* ghost: the playlist as the user last made it
    chosen,     \* ghost: the volumes which somebody chose
    clean       \* ghost: no MPD call failed, no restart outside of Playlist mode, no
                \* metascript came back to an inactive radio

svars  == <<src, persisted, target, after, ok, boot>>
plvars == <<plActive, plSaved>>
rdvars == <<rdActive, rdSaved, rdChosen, rdPending, radioFlag>>
rcvars == <<rcActive, rcCmd>>
ghosts == <<userpl, chosen, clean>>
vars == <<svars, plvars, rdvars, rdScript, rcvars, mpd, cur, pc, ghosts>>

-----------------------------------------------------------------------------
(* Values *)

Tracks == Track \cup {Stream}
\* An MpdState: the queue and, of the status, the play state and the volume.
State == [q : Seq(Tracks), st : {"unk", "stop", "play"}, vol : Vol]
Empty(v) == [q |-> <<>>, st |-> "unk", vol |-> v]
Internal == {"PL-to-Songcast", "RD-to-Songcast"}
Sending == Internal \cup {"Script"}
PlaylistSources == {"Playlist", "PL-to-Songcast"}
RadioSources == {"Radio", "RD-to-Songcast"}

\* MPDCli::saveState into old from MPD m.  It fails before it touches old, or
\* after it has set the status and cleared the queue.
Saves(old, m) ==
    {m} \cup (IF Faulty THEN {old, [m EXCEPT !.q = <<>>]} ELSE {})

\* What MPDCli::restoreState(s) leaves in MPD m: the queue is replaced, the
\* volume set unless a script controls it (external), and the track started
\* again if it was playing.
RestoredFromSecond(m, s, external) ==            \* mutant: inserts from song 1
    [q |-> IF s.q = <<>> THEN <<>> ELSE Tail(s.q), vol |-> IF external THEN m.vol ELSE s.vol,
     st |-> IF s.st = "play" /\ s.q # <<>> THEN "play" ELSE "stop"]
Restored(m, s, external) ==
    [q |-> s.q, vol |-> IF external THEN m.vol ELSE s.vol,
     st |-> IF s.st = "play" /\ s.q # <<>> THEN "play" ELSE "stop"]

\* restoreState(s) fails at the connection, or between two inserts.
Restores(m, s, external) ==
    {Restored(m, s, external)} \cup
    (IF Faulty
     THEN {m} \cup {[m EXCEPT !.q = SubSeq(s.q, 1, i), !.st = "stop"] : i \in 0..Len(s.q)}
     ELSE {})

\* m_externalvolumecontrol of the device's MPDCli: forceInternalVControl() has
\* cleared it on the auxiliary one when the device uses it.
ByScript == ExternalVolume /\ cur = "main"

\* MPDCli::stop().
Stopped(m) == [m EXCEPT !.st = "stop"]
Stops(m) == {Stopped(m)} \cup (IF Faulty THEN {m} ELSE {})
Cleared(m) == [m EXCEPT !.q = <<>>, !.st = "stop"]

\* Where iSetSourceIndex goes once the current source is inactive.
ToStart(t) == IF t \in Sending THEN "sndstart" ELSE "enter"

Init ==
    /\ src = "Playlist" /\ persisted = "Playlist"
    /\ plActive = TRUE /\ rdActive = FALSE /\ rcActive = FALSE
    /\ \E v \in Vol :
          /\ plSaved = Empty(v) /\ rdSaved = Empty(v)
          /\ chosen = {v}
          /\ mpd = [m \in {"main", "aux"} |-> [q |-> <<>>, st |-> "stop", vol |-> v]]
    /\ rdChosen = FALSE /\ rdPending = FALSE /\ rdScript = "none"
    /\ radioFlag = FALSE /\ rcCmd = FALSE
    /\ cur = "main"
    /\ pc = "idle" /\ target = "Playlist" /\ after = "none"
    /\ ok = TRUE /\ boot = FALSE
    /\ userpl = <<>> /\ clean = TRUE

-----------------------------------------------------------------------------
(* OHProduct::iSetSourceIndex *)

\* Its entry.  A switch to the current source does nothing, and the SOAP
\* action goes on with what it had to do.
Switch(t, then) ==
    /\ t \in Sources
    /\ IF t = src
       THEN /\ pc' = IF then = "none" THEN "idle" ELSE "resume"
            /\ UNCHANGED <<target, ok>>
       ELSE /\ pc' = "leave" /\ target' = t /\ ok' = TRUE
    /\ after' = then

SetSourceIndex ==
    /\ pc = "idle"
    /\ \E t \in Sources : Switch(t, "none")
    /\ UNCHANGED <<src, persisted, boot, plvars, rdvars, rdScript, rcvars, mpd, cur, ghosts>>

\* OHPlaylist::setActive(false): save the MPD state, stop.
LeavePlaylist ==
    /\ pc = "leave" /\ src \in PlaylistSources
    /\ \E s \in Saves(plSaved, mpd[cur]), m \in Stops(mpd[cur]) :
          /\ plSaved' = s
          /\ mpd' = [mpd EXCEPT ![cur] = m]
          /\ clean' = (clean /\ s = mpd[cur] /\ m = Stopped(mpd[cur]))
    /\ plActive' = FALSE
    /\ pc' = IF src \in Sending THEN "sndstop" ELSE ToStart(target)
    /\ UNCHANGED <<svars, rdvars, rdScript, rcvars, cur, userpl, chosen>>

\* OHRadio::setActive(false): save the MPD state, clear the queue, stop.
LeaveRadio ==
    /\ pc = "leave" /\ src \in RadioSources
    /\ radioFlag' = FALSE /\ rdActive' = FALSE /\ rdPending' = FALSE
    /\ \E s \in Saves(rdSaved, mpd[cur]),
          m \in {Cleared(mpd[cur])} \cup (IF Faulty THEN {mpd[cur]} ELSE {}) :
          /\ rdSaved' = s
          /\ mpd' = [mpd EXCEPT ![cur] = m]
          /\ clean' = (clean /\ s = mpd[cur] /\ m = Cleared(mpd[cur]))
    /\ pc' = IF src \in Sending THEN "sndstop" ELSE ToStart(target)
    /\ UNCHANGED <<svars, plvars, rdChosen, rdScript, rcvars, cur, userpl, chosen>>

\* OHReceiver::setActive(false), in the play mode (ALSA) where the receiver
\* does not use MPD.
LeaveReceiver ==
    /\ pc = "leave" /\ src = "Songcast"
    /\ rcActive' = FALSE /\ rcCmd' = FALSE
    /\ pc' = ToStart(target)
    /\ UNCHANGED <<svars, plvars, rdvars, rdScript, mpd, cur, ghosts>>

LeaveScript ==
    /\ pc = "leave" /\ src = "Script"
    /\ pc' = "sndstop"
    /\ UNCHANGED <<svars, plvars, rdvars, rdScript, rcvars, mpd, cur, ghosts>>

\* Mutant: the auxiliary MPD's state is not copied back.
SndStopNoCopy ==
    /\ pc = "sndstop"
    /\ rcCmd' = FALSE
    /\ mpd' = IF cur = "aux" THEN [mpd EXCEPT !["aux"] = Stopped(@)] ELSE mpd
    /\ cur' = "main"
    /\ pc' = ToStart(target)
    /\ UNCHANGED <<svars, plvars, rdvars, rdScript, rcActive, ghosts>>

\* Mutant: the device keeps using the auxiliary MPD.
SndStopKeepsAux ==
    /\ pc = "sndstop"
    /\ rcCmd' = FALSE
    /\ pc' = ToStart(target)
    /\ UNCHANGED <<svars, plvars, rdvars, rdScript, rcActive, mpd, cur, ghosts>>

\* SenderReceiver::stop().  When an auxiliary MPD was in use its state is
\* copied back to the main one, whatever copyMpd() returns.
SndStop ==
    /\ pc = "sndstop"
    /\ rcCmd' = FALSE
    /\ IF cur = "aux"
       THEN \E s \in Saves(Empty(mpd["main"].vol), mpd["aux"]) :
            \E m \in IF s = mpd["aux"] THEN Restores(mpd["main"], s, ExternalVolume)
                    ELSE {mpd["main"]} :
              /\ mpd' = [mpd EXCEPT !["main"] = m, !["aux"] = Stopped(@)]
              /\ clean' = (clean /\ m = Restored(mpd["main"], mpd["aux"], ExternalVolume))
       ELSE UNCHANGED <<mpd, clean>>
    /\ cur' = "main"
    /\ pc' = ToStart(target)
    /\ UNCHANGED <<svars, plvars, rdvars, rdScript, rcActive, userpl, chosen>>

\* SenderReceiver::start() fails: no sender, bad output, no new MPD, no
\* receiver.  clear() stops the receiver and the processes.
SndStartFails ==
    /\ pc = "sndstart" /\ Faulty
    /\ ok' = FALSE /\ rcCmd' = FALSE
    /\ \E m \in Stops(mpd[cur]) :
          /\ mpd' = [mpd EXCEPT ![cur] = m]
          /\ clean' = (clean /\ m = Stopped(mpd[cur]))
    /\ pc' = IF target = "Script" THEN "commit" ELSE "enter"
    /\ UNCHANGED <<src, persisted, target, after, boot, plvars, rdvars, rdScript,
                   rcActive, cur, userpl, chosen>>

\* SenderReceiver::start() succeeds: the receiver plays, and for an internal
\* source the main MPD's state is copied to the auxiliary one, which becomes
\* the device's.  The stream is scaled (scstreamscaled): the auxiliary MPD's own
\* volume is the device's from then on, and the main mixer goes to full scale.
SndStart ==
    /\ pc = "sndstart"
    /\ rcCmd' = TRUE
    /\ IF target \in Internal
       THEN \E m \in Stops(mpd["main"]), s \in Saves(Empty(mpd["main"].vol), Stopped(mpd["main"])) :
            \E a \in IF s = Stopped(mpd["main"]) THEN Restores(mpd["aux"], s, ExternalVolume)
                    ELSE {mpd["aux"]} :
              /\ mpd' = [mpd EXCEPT !["main"] = [m EXCEPT !.vol = FullScale], !["aux"] = a]
              /\ cur' = "aux"
              /\ clean' = (clean /\ m = Stopped(mpd["main"])
                           /\ a = Restored(mpd["aux"], Stopped(mpd["main"]), ExternalVolume))
       ELSE \E m \in Stops(mpd["main"]) :
              /\ mpd' = [mpd EXCEPT !["main"] = m]
              /\ clean' = (clean /\ m = Stopped(mpd["main"]))
              /\ UNCHANGED cur
    /\ pc' = IF target = "Script" THEN "commit" ELSE "enter"
    /\ UNCHANGED <<svars, plvars, rdvars, rdScript, rcActive, userpl, chosen>>

\* OHPlaylist::setActive(true): clear the queue, restore the saved state.
EnterPlaylist ==
    /\ pc = "enter" /\ target \in PlaylistSources
    /\ plActive' = TRUE
    /\ \E m \in Restores(mpd[cur], plSaved, ByScript) :
          /\ mpd' = [mpd EXCEPT ![cur] = m]
          /\ clean' = (clean /\ m = Restored(mpd[cur], plSaved, ByScript))
    /\ pc' = "commit"
    /\ UNCHANGED <<svars, plSaved, rdvars, rdScript, rcvars, cur, userpl, chosen>>

\* OHRadio::setActive(true): restore the saved state, if there is one and a
\* channel is selected.  Only the Radio source sets the radio flag.
EnterRadio ==
    /\ pc = "enter" /\ target \in RadioSources
    /\ rdActive' = TRUE
    /\ radioFlag' = (radioFlag \/ target = "Radio")
    /\ IF rdChosen /\ rdSaved.st # "unk"
       THEN \E m \in Restores(mpd[cur], rdSaved, ByScript) :
              /\ mpd' = [mpd EXCEPT ![cur] = m]
              /\ clean' = (clean /\ m = Restored(mpd[cur], rdSaved, ByScript))
       ELSE UNCHANGED <<mpd, clean>>
    /\ pc' = "commit"
    /\ UNCHANGED <<svars, plvars, rdSaved, rdChosen, rdPending, rdScript, rcvars, cur, userpl,
                   chosen>>

EnterReceiver ==
    /\ pc = "enter" /\ target = "Songcast"
    /\ rcActive' = TRUE
    /\ pc' = "commit"
    /\ UNCHANGED <<svars, plvars, rdvars, rdScript, rcCmd, mpd, cur, ghosts>>

\* Mutant: a failed switch returns before the index is set.
CommitIfOk ==
    /\ pc = "commit"
    /\ src' = IF ok THEN target ELSE src
    /\ persisted' = IF boot /\ ~ok THEN "Playlist" ELSE target
    /\ boot' = FALSE
    /\ pc' = IF after = "none" THEN "idle" ELSE "resume"
    /\ UNCHANGED <<target, after, ok, plvars, rdvars, rdScript, rcvars, mpd, cur, ghosts>>

\* The end of iSetSourceIndex: the index is set and the name saved even if the
\* sender did not start.  The constructor falls back to the name Playlist in
\* the saved state on an error.
Commit ==
    /\ pc = "commit"
    /\ src' = target
    /\ persisted' = IF boot /\ ~ok THEN "Playlist" ELSE target
    /\ boot' = FALSE
    /\ pc' = IF after = "none" THEN "idle" ELSE "resume"
    /\ UNCHANGED <<target, after, ok, plvars, rdvars, rdScript, rcvars, mpd, cur, ghosts>>

-----------------------------------------------------------------------------
(* The other SOAP actions.  Those of an inactive service switch to its     *)
(* source first and then do their work (pc = "resume").                    *)


\* What an action does for a service, now if it is active, or once the switch
\* has been made.
Doing(what, active) ==
    \/ pc = "idle" /\ active
    \/ pc = "resume" /\ after = what

Done == pc' = "idle" /\ after' = "none"

\* OHPlaylist Play, SeekIndex, SeekId, Insert, DeleteId, DeleteAll while
\* inactive.
PlaylistWakes ==
    /\ pc = "idle" /\ ~plActive
    /\ \E then \in {"plplay", "pledit"} : Switch("Playlist", then)
    /\ UNCHANGED <<src, persisted, boot, plvars, rdvars, rdScript, rcvars, mpd, cur, ghosts>>

\* Insert, DeleteId and DeleteAll change the queue; after a switch the id in
\* the request may not be found any more (idFromOldId) and nothing is done.
Edited(q) ==
    {InsertAt(q, i, t) : i \in 1..Len(q) + 1, t \in Track}
    \cup {RemoveAt(q, i) : i \in 1..Len(q)} \cup {<<>>}

PlaylistEdit ==
    /\ Doing("pledit", plActive)
    /\ \E q \in Edited(mpd[cur].q) \cup {mpd[cur].q} :
          /\ Len(q) <= MaxLen
          /\ mpd' = [mpd EXCEPT ![cur].q = q, ![cur].st = IF q = <<>> THEN "stop" ELSE @]
          /\ userpl' = IF q = mpd[cur].q THEN userpl ELSE q
    /\ Done
    /\ UNCHANGED <<src, persisted, target, ok, boot, plvars, rdvars, rdScript, rcvars,
                   cur, chosen, clean>>

PlaylistPlay ==
    /\ Doing("plplay", plActive)
    /\ mpd' = [mpd EXCEPT ![cur].st = IF mpd[cur].q = <<>> THEN "stop" ELSE "play"]
    /\ Done
    /\ UNCHANGED <<src, persisted, target, ok, boot, plvars, rdvars, rdScript, rcvars,
                   cur, ghosts>>

\* OHPlaylist and OHRadio Stop act on MPD whichever service is active.
TransportStop ==
    /\ pc = "idle"
    /\ mpd' = [mpd EXCEPT ![cur].st = "stop"]
    /\ rdPending' \in {rdPending, FALSE}
    /\ UNCHANGED <<svars, plvars, rdActive, rdSaved, rdChosen, radioFlag, rdScript, rcvars,
                   cur, pc, ghosts>>

RadioSetId ==
    /\ pc = "idle" /\ "Radio" \in Sources
    /\ mpd' = [mpd EXCEPT ![cur].st = "stop"]
    /\ rdPending' = FALSE /\ rdChosen' = TRUE
    /\ UNCHANGED <<svars, plvars, rdActive, rdSaved, radioFlag, rdScript, rcvars, cur, pc, ghosts>>

RadioWakes ==
    /\ pc = "idle" /\ ~rdActive /\ "Radio" \in Sources
    /\ Switch("Radio", "rdplay")
    /\ UNCHANGED <<src, persisted, boot, plvars, rdvars, rdScript, rcvars, mpd, cur, ghosts>>

\* OHRadio::setPlaying(): a channel with a static uri replaces the queue by its
\* audio stream; a channel with only a metascript clears the queue and waits
\* for makestate() to run the script.  Channel 0 has neither at first.
RadioPlay ==
    /\ Doing("rdplay", rdActive)
    /\ IF ~rdChosen
       THEN UNCHANGED <<mpd, rdPending>>
       ELSE IF MetaRadio
       THEN /\ mpd' = [mpd EXCEPT ![cur] = Cleared(@)]
            /\ rdPending' = TRUE
       ELSE /\ mpd' = [mpd EXCEPT ![cur].q = <<Stream>>, ![cur].st = "play"]
            /\ UNCHANGED rdPending
    /\ Done
    /\ UNCHANGED <<src, persisted, target, ok, boot, plvars, rdActive, rdSaved, rdChosen,
                   radioFlag, rdScript, rcvars, cur, ghosts>>

\* OHReceiver Play.
ReceiverWakes ==
    /\ pc = "idle" /\ ~rcActive /\ "Songcast" \in Sources
    /\ Switch("Songcast", "rcplay")
    /\ UNCHANGED <<src, persisted, boot, plvars, rdvars, rdScript, rcvars, mpd, cur, ghosts>>

ReceiverPlay ==
    /\ Doing("rcplay", rcActive)
    /\ rcCmd' \in BOOLEAN      \* startExec may fail: iStop()
    /\ Done
    /\ UNCHANGED <<src, persisted, target, ok, boot, plvars, rdvars, rdScript, rcActive,
                   mpd, cur, ghosts>>

\* OHReceiver Stop: stop the receiver, then go back to the Playlist source.
ReceiverStop ==
    /\ pc = "idle" /\ "Songcast" \in Sources
    /\ rcCmd' = FALSE
    /\ Switch("Playlist", "none")
    /\ UNCHANGED <<src, persisted, boot, plvars, rdvars, rdScript, rcActive, mpd, cur, ghosts>>

\* A control point sets the volume of the device.
SetVolume ==
    /\ pc = "idle"
    /\ \E v \in Vol : /\ mpd' = [mpd EXCEPT ![cur].vol = v]
                      /\ chosen' = chosen \cup {v}
    /\ UNCHANGED <<svars, plvars, rdvars, rdScript, rcvars, cur, pc, userpl, clean>>

-----------------------------------------------------------------------------
(* The event thread: OHRadio::makestate() and its metascript *)

\* makestate() reads m_active, the MPD state and m_playpending, then runs the
\* script, which takes its time.
MetaScriptStart ==
    /\ MetaRadio /\ rdScript = "none"
    /\ rdActive /\ rdChosen
    /\ rdPending \/ mpd[cur].st = "play"
    /\ rdScript' = mpd[cur].st
    /\ UNCHANGED <<svars, plvars, rdvars, rcvars, mpd, cur, pc, ghosts>>

\* The script has returned an audio uri: append it to the queue unless it is
\* there, and start to play if a play is pending.
MetaScriptDone ==
    /\ rdScript # "none"
    /\ IF rdPending \/ rdScript = "play"
       THEN LET q == mpd[cur].q
                q2 == IF Contains(q, Stream) THEN q ELSE Append(q, Stream)
            IN  mpd' = [mpd EXCEPT ![cur].q = q2,
                                   ![cur].st = IF rdPending /\ rdScript # "play"
                                               THEN "play" ELSE @]
       ELSE UNCHANGED mpd
    /\ rdScript' = "none"
    /\ clean' = (clean /\ (rdActive \/ mpd' = mpd))
    /\ UNCHANGED <<svars, plvars, rdvars, rcvars, cur, pc, userpl, chosen>>

-----------------------------------------------------------------------------
(* The process is restarted: the services are constructed again, playlist  *)
(* active, and OHProduct goes to the saved source.  The main MPD lives on. *)
Restart ==
    /\ Faulty
    /\ src' = "Playlist" /\ UNCHANGED persisted
    /\ plActive' = TRUE /\ rdActive' = FALSE /\ rcActive' = FALSE
    /\ \E v \in Vol : plSaved' = Empty(v) /\ rdSaved' = Empty(v)
    /\ rdPending' = FALSE /\ rdScript' = "none" /\ radioFlag' = FALSE
    /\ rcCmd' = FALSE
    /\ UNCHANGED rdChosen
    /\ mpd' = [mpd EXCEPT !["aux"] = Cleared(@)]
    /\ cur' = "main"
    /\ IF persisted = "Playlist"
       THEN pc' = "idle" /\ UNCHANGED target /\ boot' = FALSE
       ELSE pc' = "leave" /\ target' = persisted /\ boot' = TRUE
    /\ after' = "none" /\ ok' = TRUE
    /\ clean' = (clean /\ cur = "main" /\ mpd["main"].q = userpl)
    /\ UNCHANGED <<userpl, chosen>>

SwitchStep ==
    \/ LeavePlaylist \/ LeaveRadio \/ LeaveReceiver \/ LeaveScript
    \/ SndStop \/ SndStart \/ SndStartFails
    \/ EnterPlaylist \/ EnterRadio \/ EnterReceiver \/ Commit

Next ==
    \/ SetSourceIndex \/ SwitchStep
    \/ PlaylistWakes \/ PlaylistEdit \/ PlaylistPlay \/ TransportStop
    \/ RadioSetId \/ RadioWakes \/ RadioPlay
    \/ ReceiverWakes \/ ReceiverPlay \/ ReceiverStop
    \/ SetVolume
    \/ MetaScriptStart \/ MetaScriptDone
    \/ Restart

Spec == Init /\ [][Next]_vars

-----------------------------------------------------------------------------
(* Properties *)

TypeOK ==
    /\ src \in Sources /\ persisted \in Sources /\ target \in Sources
    /\ plActive \in BOOLEAN /\ rdActive \in BOOLEAN /\ rcActive \in BOOLEAN
    /\ plSaved \in State /\ rdSaved \in State
    /\ rdChosen \in BOOLEAN /\ rdPending \in BOOLEAN
    /\ rdScript \in {"none", "stop", "play"}
    /\ radioFlag \in BOOLEAN /\ rcCmd \in BOOLEAN
    /\ mpd \in [{"main", "aux"} -> State]
    /\ mpd["main"].st # "unk" /\ mpd["aux"].st # "unk"
    /\ cur \in {"main", "aux"}
    /\ pc \in {"idle", "leave", "sndstop", "sndstart", "enter", "commit", "resume"}
    /\ after \in {"none", "plplay", "pledit", "rdplay", "rcplay"}
    /\ ok \in BOOLEAN /\ boot \in BOOLEAN
    /\ userpl \in Seq(Tracks) /\ chosen \subseteq Vol /\ clean \in BOOLEAN

\* Between two SOAP actions exactly the service of the selected source is
\* active, whatever MPD call failed and wherever the process was restarted.
OneOwner ==
    pc \in {"idle", "resume"} =>
        /\ plActive <=> src \in PlaylistSources
        /\ rdActive <=> src \in RadioSources
        /\ rcActive <=> src = "Songcast"

\* The user's playlist is in the device's MPD while the playlist service is
\* active, and in its saved state while another source uses MPD: no sequence
\* of switches (through the sender modes too) loses or replaces it.
PlaylistKept ==
    clean => IF plActive THEN mpd[cur].q = userpl ELSE plSaved.q = userpl

\* The main mixer, which sender mode turns to full scale, is back to a volume
\* which somebody chose when the main MPD is the device's again.  Where scripts
\* control the volume it is not: restoreState() leaves the script's volume alone,
\* and nothing undoes the setVolume(100) of SenderReceiver::start().
FullScaleOnlyWhileSending ==
    ~ExternalVolume /\ clean /\ pc \in {"idle", "resume"} /\ cur = "main"
        => mpd["main"].vol \in chosen

\* The device uses the auxiliary MPD only while an internal sender source is
\* selected (or being left), and the main MPD is silent then.
MainSilentWhileSending ==
    cur = "aux" =>
        /\ clean => mpd["main"].st = "stop"
        /\ pc \in {"idle", "resume", "leave", "sndstop"} => src \in Internal
        /\ pc \in {"enter", "commit"} => target \in Internal

\* What upmpd.hxx says of the radio flag: "Help avtransport report correct
\* metadata for radios", "called by ohproduct when setting the source".
RadioFlagSet ==
    pc = "idle" /\ rdActive => radioFlag

\* What ohradio.cxx says of the metascript's audio uri: "queue it to mpd.
\* Don't do this while stopped": it is not added for a radio that is inactive.
NoStreamWhileStopped ==
    [][\A m \in {"main", "aux"} :
          MetaScriptDone /\ mpd'[m].q # mpd[m].q => rdActive \/ rdPending]_vars
=============================================================================

---------------------------- MODULE UprclTagView ----------------------------
(***************************************************************************)
(* The tag view of a folder of the Uprcl media server, browseFolder() of   *)
(* uprcltags.py: the folder tree shows it as two containers, one of which  *)
(* hides the contents of the other for a while when it is opened, so that  *)
(* a control point which walks the whole tree does not enter it.  The      *)
(* requests come one after the other, and time.time() does not go back.    *)
(* An update of the index makes a new object, with an empty list.          *)
(***************************************************************************)
EXTENDS Integers, SequencesExt, FiniteSetsExt

CONSTANTS
    Views,     \* the object ids of the tag views
    HideTime,  \* the seconds for which one is hidden (2)
    MaxTime,   \* bound: seconds in a behaviour
    MaxHides   \* bound: visits to ">> Hide Contents" which are remembered

VARIABLES
    hidden,  \* self.hidden: <<time, view>>, the latest first
    now,     \* time.time()
    opened,  \* the answer to the last request for the tags of a folder, or <<>>
    asked    \* for each view the time of the last visit to its ">> Hide Contents"

viewvars == <<hidden, now, opened, asked>>

Never == -HideTime

ViewInit == hidden = <<>> /\ now = 0 /\ opened = <<>> /\ asked = [v \in Views |-> Never]

ViewOff == hidden = <<>> /\ now = 0 /\ opened = <<>> /\ asked = <<>>

\* browseFolder() of ">> Hide Contents".
hchide(v) ==
    /\ Len(hidden) < MaxHides
    /\ hidden' = << <<now, v>> >> \o hidden
    /\ asked' = [asked EXCEPT ![v] = now]
    /\ opened' = <<>>
    /\ UNCHANGED now

\* Where the loop on self.hidden stops: an entry which is too old, with which the
\* older ones go, or an entry for this view.
Old(i) == hidden[i][1] <= now - HideTime
Stops(v) == {i \in DOMAIN hidden : Old(i) \/ hidden[i][2] = v}

\* browseFolder() of the container with the name of the folder.
hctags(v) ==
    /\ IF Stops(v) # {} /\ ~Old(Min(Stops(v)))
       THEN opened' = <<v, FALSE>> /\ UNCHANGED hidden
       ELSE /\ opened' = <<v, TRUE>>
            /\ hidden' = IF Stops(v) = {} THEN hidden ELSE SubSeq(hidden, 1, Min(Stops(v)) - 1)
    /\ UNCHANGED <<now, asked>>

Tick == now < MaxTime /\ now' = now + 1 /\ opened' = <<>> /\ UNCHANGED <<hidden, asked>>

ViewNext == Tick \/ \E v \in Views : hchide(v) \/ hctags(v)

----------------------------------------------------------------------------
\* A folder shows no tags for HideTime seconds after the visit to its ">> Hide Contents", whatever the
\* other folders are asked for meanwhile, and shows them otherwise (uprcltags.py 622-640).
HiddenForAWhile ==
    opened # <<>> => opened[2] = (asked[opened[1]] <= now - HideTime)
=============================================================================

---- MODULE RadioBrowser ----
(***************************************************************************)
(* The plugin of the radio-browser.info directory (radio-browser-app.py):  *)
(* a control point narrows the stations down by tag, country and language. *)
(* The place in the tree is all there is: an identifier is a path of names *)
(* and values, from which each request finds the selection again.          *)
(*                                                                         *)
(* A path is a sequence of what lies between its slashes; a value with a   *)
(* slash in it takes several places (html.escape() leaves slashes alone).  *)
(* The directory itself, and the facets by which it selects, are outside   *)
(* of the program (the pyradios package).                                  *)
(***************************************************************************)
EXTENDS Naturals, FiniteSets, Sequences, SequencesExt

CONSTANTS Stations,   \* the stations: identifier, name, tags, countrycode, language, codec
          Countries,  \* the codes for which the directory has the name of a country
          SplitValue, \* for a value with slashes, its parts
          Searched    \* the names which are searched for

VARIABLES enabled, rb,
          ccodetoc,   \* _ccodetoc: the codes of the countries
          reply,      \* the last reply: the place, what was asked, the entries
          chosen      \* what the control point has chosen on its way to the place of the reply
rbvars == <<enabled, rb, ccodetoc, reply, chosen>>

Crits == {"tags", "countrycodes", "languages"}
None == "None"
Child(path, x) == path \o (IF x \in DOMAIN SplitValue THEN SplitValue[x] ELSE <<x>>)

\* External: the stations which a filter keeps, and the values they have for a criterion.
Values(st, crit) == CASE crit = "tags" -> st.tags [] crit = "countrycodes" -> {st.countrycode}
                      [] crit = "languages" -> {st.language}
Facets(args) == {st \in Stations : \A a \in args : a[2] \in Values(st, a[1])}
ValuesOf(stations, crit) == UNION {Values(st, crit) : st \in stations}

\* Mutant: the filter is made of the last name and value.
PathToCritsKeepsLast(path) ==
  LET n == Len(path)
      complete == {i \in 1..n : i % 2 = 1 /\ i < n}
      bad == \E i \in complete : path[i] \notin Crits
  IN  [crit |-> IF n = 0 THEN None ELSE IF n % 2 = 1 THEN path[n] ELSE path[n - 1],
       value |-> IF n # 0 /\ n % 2 = 0 THEN path[n] ELSE None,
       setcrits |-> {path[i] : i \in complete},
       filterargs |-> {<<path[i], path[i + 1]>> : i \in {j \in complete : j + 2 >= n}},
       raises |-> bad]

\* _pathtocrits(): names and values by turns.  A name which is none of the criteria, and is not the
\* last, raises.
PathToCrits(path) ==
  LET n == Len(path)
      complete == {i \in 1..n : i % 2 = 1 /\ i < n}
      bad == \E i \in complete : path[i] \notin Crits
  IN  [crit |-> IF n = 0 THEN None ELSE IF n % 2 = 1 THEN path[n] ELSE path[n - 1],
       value |-> IF n # 0 /\ n % 2 = 0 THEN path[n] ELSE None,
       setcrits |-> {path[i] : i \in complete},
       filterargs |-> {<<path[i], path[i + 1]>> : i \in complete},
       raises |-> bad]

\* _radiotoentry(): "idgiven" is the identifier of the caller, or None.
Mime(codec) == CASE codec = "flac" -> "audio/flac" [] codec = "aac+" -> "audio/aac"
                 [] codec = "ogg" -> "audio/ogg" [] OTHER -> "audio/mpeg"
RadioToEntry(pid, idgiven, st) ==
  [kind |-> "it", id |-> IF idgiven = <<None>> THEN pid \o <<"$", st.uuid>> ELSE idgiven,
   title |-> st.name, mime |-> Mime(st.codec), station |-> st.uuid]
DirEntry(path, x, title) == [kind |-> "ct", id |-> Child(path, x), title |-> title]

\* _initradios(), when the directory tells its countries.
InitRadios ==
  IF rb = "none" THEN rb' = "made" /\ ccodetoc' = Countries ELSE UNCHANGED <<rb, ccodetoc>>

\* It does not tell them: the command fails.  The object was kept before, and the countries stay unknown.
InitRaises ==
  /\ enabled /\ rb = "none"
  /\ rb' = "made" /\ ccodetoc' = {}
  /\ UNCHANGED <<enabled, reply, chosen>>

\* The values which are offered for a criterion, those of the countries only with a name.
Offered(stations, crit, codes) ==
  IF crit = "countrycodes" THEN ValuesOf(stations, crit) \cap codes ELSE ValuesOf(stations, crit) \ {""}

\* browse() of the children of a place (the number in the title of the last entry is left out).
Children(path, codes) ==
  LET c == PathToCrits(path)
      result == Facets(c.filterargs)
  IN  IF c.raises THEN {}
      ELSE IF c.crit = "radios" THEN {RadioToEntry(path, <<None>>, st) : st \in result}
      ELSE IF c.crit # None /\ c.value = None
           THEN IF c.crit \notin Crits THEN {}
                ELSE {DirEntry(path, v, v) : v \in Offered(result, c.crit, codes)}
      ELSE {DirEntry(path, crit, crit) : crit \in Crits \ c.setcrits}
           \cup (IF c.value = None THEN {} ELSE {DirEntry(path, "radios", "radios")})

RbInit == /\ enabled = TRUE /\ rb = "none" /\ ccodetoc = {}
          /\ reply = [place |-> <<>>, asked |-> "nothing", entries |-> {}] /\ chosen = {}
RbOff == enabled = FALSE /\ rb = "none" /\ ccodetoc = {} /\ chosen = {}
         /\ reply = [place |-> <<>>, asked |-> "nothing", entries |-> {}]

\* _returnentries()
Asked(path, what, entries) == reply' = [place |-> path, asked |-> what, entries |-> entries]

\* The control point opens the root, or an entry of the last listing.  What it chooses is the title
\* of an entry, below the name of the criterion.
Open ==
  /\ enabled /\ InitRadios
  /\ \/ /\ Asked(<<>>, "children", Children(<<>>, ccodetoc'))
        /\ chosen' = {}
     \/ \E e \in reply.entries :
          /\ e.kind = "ct"
          /\ Asked(e.id, "children", Children(e.id, ccodetoc'))
          /\ chosen' = IF reply.place # <<>> /\ Len(reply.place) % 2 = 1
                       THEN chosen \cup {<<Last(reply.place), e.title>>} ELSE chosen
  /\ UNCHANGED enabled

\* browse() of the metadata of a station: the identifier asked for becomes the place.  That of a
\* container raises.
Meta ==
  /\ enabled /\ InitRadios /\ reply.asked # "meta"
  /\ \E e \in reply.entries :
       LET known == {st \in Stations : e.kind = "it" /\ st.uuid = Last(e.id)}
       IN  Asked(e.id, "meta", {RadioToEntry(e.id, <<None>>, st) : st \in known})
  /\ UNCHANGED <<enabled, chosen>>

\* search(): the stations below a place which have a name; the place is the container.
Search ==
  /\ enabled /\ InitRadios
  /\ \E name \in Searched :
       LET c == PathToCrits(reply.place)
       IN  /\ reply.asked \in {"nothing", "children"}
           /\ Asked(reply.place, "search",
                    IF c.raises THEN {}
                    ELSE {RadioToEntry(reply.place, <<None>>, st) : st \in {s \in Facets(c.filterargs) : s.name = name}})
  /\ UNCHANGED <<enabled, chosen>>

\* The process is killed, for a late answer, and started again for the next request.
Restarted ==
  /\ enabled /\ rb' = "none" /\ ccodetoc' = {}
  /\ UNCHANGED <<enabled, reply, chosen>>

RbNext == Restarted \/ InitRaises \/ Open \/ Meta \/ Search

RbSpec == (RbInit \/ RbOff) /\ [][RbNext]_rbvars

-----------------------------------------------------------------------------
\* Names of the directory which a path tells apart.  None stands for no value, and is not one.  The
\* path is not quoted: a value with a slash in it is cut into parts, of which only the first is where
\* a value is looked for, so that the others must not be names which mean something there
\* ("pop/radios" would list the radios of the tag "pop").
PlainNames ==
  /\ \A st \in Stations, crit \in Crits : None \notin Values(st, crit)
  /\ DOMAIN SplitValue \cap (Crits \cup {"radios"}) = {}
  /\ \A x \in DOMAIN SplitValue :
       /\ SplitValue[x] \in Seq(ToSet(SplitValue[x])) /\ Len(SplitValue[x]) >= 2
       /\ \A i \in 2..Len(SplitValue[x]) : SplitValue[x][i] \notin Crits \cup {"radios", None}

\* A place which lists radios.
RadiosPlace(path) == Len(path) % 2 = 1 /\ Last(path) = "radios"

\* The list of radios of a place has the stations with everything that the control point has chosen on
\* its way, and no others, although each request only has the identifier to go by (_pathtocrits()).
StationsAsChosen ==
  reply.asked = "children" /\ RadiosPlace(reply.place) =>
    {e.station : e \in reply.entries} = {st.uuid : st \in {s \in Stations : \A c \in chosen : c[2] \in Values(s, c[1])}}
====

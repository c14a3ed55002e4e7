---- MODULE PluginRouting ----
(***************************************************************************)
(* What the streaming plugins share (pycommon): the routes of routing.py,  *)
(* from a place to the view function which lists it and back, and the      *)
(* entries which xbmcplug.py makes of the things a service returns.        *)
(*                                                                         *)
(* A path is a sequence of segments.  An identifier is a sequence of       *)
(* segments too: most have one, an identifier with a slash has several.    *)
(* A route table is the sequence of a plugin's rules, in the order of its  *)
(* decorators: routing.py walks them in that order.                        *)
(***************************************************************************)
EXTENDS Naturals, Sequences, SequencesExt, Places

CONSTANTS HttpIds,       \* the identifiers which begin with "http"
          Unavailable    \* the things the service names but does not stream

\* An identifier which has a place of its own: one segment, and not an address, so that
\* UrlRule.match() finds it again and urls_from_id() does not leave it out.
IsId(x) == x \in Seq(STRING) /\ Len(x) = 1 /\ x[1] # "" /\ x \notin HttpIds
IsIdList(list) == list \in Seq(Seq(STRING)) /\ \A i \in 1..Len(list) : IsId(list[i])

NoneArg == <<"None">>                  \* str(None), as a segment
Arg == "<>"                            \* a parameter in a pattern
Route(view, pattern) == [view |-> view, pattern |-> pattern]

ArgsUpTo(pattern, i) == Cardinality({j \in 1..i : pattern[j] = Arg})

\* Mutant: a rule matches the beginning of a path.
RuleMatchesPrefix(pattern, path) ==
  /\ Len(pattern) <= Len(path)
  /\ \A i \in 1..Len(pattern) : pattern[i] \in {Arg, path[i]} /\ path[i] # ""

\* UrlRule.match(): a parameter takes one segment, which is not empty.
RuleMatches(pattern, path) ==
  /\ Len(pattern) = Len(path)
  /\ \A i \in 1..Len(path) : pattern[i] \in {Arg, path[i]} /\ path[i] # ""

MatchedArgs(pattern, path) ==
  [n \in 1..ArgsUpTo(pattern, Len(pattern)) |->
     <<path[CHOOSE i \in 1..Len(pattern) : pattern[i] = Arg /\ ArgsUpTo(pattern, i) = n]>>]

\* UrlRule.make_path(), with as many arguments as the pattern has parameters.
make_path(pattern, args) ==
  FlattenSeq([i \in 1..Len(pattern) |->
                IF pattern[i] = Arg THEN args[ArgsUpTo(pattern, i)] ELSE <<pattern[i]>>])

\* Plugin._dispatch(): the first rule which matches; no view when none does (RoutingError).
NoView == [view |-> "none", args |-> <<>>]
_dispatch(routes, path) ==
  LET hits == {i \in 1..Len(routes) : RuleMatches(routes[i].pattern, path)}
      first == CHOOSE i \in hits : \A j \in hits : i <= j
  IN  IF hits = {} THEN NoView
      ELSE [view |-> routes[first].view, args |-> MatchedArgs(routes[first].pattern, path)]

\* Plugin.url_for(): every view of the plugins has one rule.
url_for(routes, view, args) ==
  make_path(routes[CHOOSE i \in 1..Len(routes) : routes[i].view = view].pattern, args)

\* XbmcPlugin.add_directory(): a fixed entry of a view.
add_directory(routes, view, args) ==
  [kind |-> "ct", title |-> args, to |-> [view |-> view, args |-> args], path |-> url_for(routes, view, args)]

Directories(routes, views) == [i \in 1..Len(views) |-> add_directory(routes, views[i], <<>>)]

\* urls_from_id() and XbmcPlugin.view(): the urls leave out the identifiers which begin with
\* "http", the titles do not, and the two lists are paired by position.
View(routes, view, ids) ==
  LET linked == AtPlaces(ids, {i \in 1..Len(ids) : ids[i] \notin HttpIds})
  IN  [i \in 1..Len(linked) |->
         [add_directory(routes, view, <<linked[i]>>) EXCEPT !.title = <<ids[i]>>]]

\* The things of a list which the service streams.
Available(ids) == AtPlaces(ids, {i \in 1..Len(ids) : ids[i] \notin Unavailable})

\* trackentries(): the tracks of a list which can be streamed, below the place listed.
trackentries(tracks) ==
  LET streamed == Available(tracks)
  IN  [i \in 1..Len(streamed) |->
         [kind |-> "it", title |-> <<streamed[i]>>, to |-> [view |-> "track", args |-> <<streamed[i]>>],
          path |-> <<"track">> \o streamed[i]]]

\* trackid_from_urlpath(): the identifier in the address made by trackentries().
trackid_from_urlpath(path) == Tail(path)

\* The loops of the sessions over a paged call (loopget, _loopit, get_items_loop): pages of
\* "slice" things until a short page, until "max" (0: no limit), or until a page is not
\* answered: "answered" is the number of pages which are.
Pages(things, max, slice, answered) ==
  LET bound == IF max = 0 THEN answered * slice
               ELSE LET whole == ((max + slice - 1) \div slice) * slice
                    IN  IF whole < answered * slice THEN whole ELSE answered * slice
  IN  SubSeq(things, 1, IF Len(things) < bound THEN Len(things) ELSE bound)
====

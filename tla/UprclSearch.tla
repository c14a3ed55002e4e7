---------------------------- MODULE UprclSearch -----------------------------
(***************************************************************************)
(* Searching the Uprcl media server (uprclsearch.py): a search criteria    *)
(* string of ContentDirectory becomes a query in the language of Recoll,   *)
(* which selects documents of the index.                                   *)
(*                                                                         *)
(* A criteria string is a sequence of tokens: "kind" and "word", and for a *)
(* quoted value its "parts", the words and phrases between its quotes.     *)
(* Words which are not separated by blanks are one token.  A query is a    *)
(* sequence of tokens too, a clause being one of them.                     *)
(***************************************************************************)
EXTENDS Naturals, Sequences, SequencesExt, FiniteSets

CONSTANTS upnp2rclfields, \* for the names of fields in searches, those of Recoll
          Criteria,       \* the criteria which are searched for
          Index,          \* the documents: for each field its words, "folder", "id", and "made" if
                          \* uprcltagscreate.py made it for an album or an artist
          TagEntries,     \* the ids of the albums and artists which the tag tree lists
          FolderOf,       \* for the container of a search, the folders below its dirpath()
          audiomtypes,    \* the mime types which are shown
          ContainerClasses, ItemClasses,  \* the words which start with object.container, object.item
          Rank, lower     \* the place of a word in the order of strings; the word in lower case

VARIABLES criteria, glued, container,
          entries     \* <<the documents which were found, their entries>>, or <<>> before that
searchvars == <<criteria, glued, container, entries>>

Word(w) == [kind |-> "word", word |-> w, parts |-> <<>>]
Sign(s) == [kind |-> "sign", word |-> s, parts |-> <<>>]
Quoted(parts) == [kind |-> "value", word |-> "", parts |-> parts]
Container == << <<"inode/directory">> >>

Sym(s) == [kind |-> "symbol", word |-> s, field |-> "", words |-> <<>>]
Clause(kind, field, words) == [kind |-> kind, word |-> "", field |-> field, words |-> words]

\* _separatePhrasesAndWords() and _searchClauses(): one clause for the words, which must all be
\* there, and one for each phrase.
Words(v) == FlattenSeq(SelectSeq(v, LAMBDA p : Len(p) = 1))
Phrases(v) == SelectSeq(v, LAMBDA p : Len(p) # 1)
_searchClauses(neg, field, v) ==
  (IF Words(v) = <<>> THEN <<>> ELSE <<Clause(IF neg THEN "no words" ELSE "words", field, Words(v))>>)
  \o [i \in DOMAIN Phrases(v) |-> Clause(IF neg THEN "no phrase" ELSE "phrase", field, Phrases(v)[i])]

\* Mutant: the two fields of a negated title are alternatives.
MakeSearchExpOr(v, field, neg) ==
  IF field # "title" THEN <<Sym("(")>> \o _searchClauses(neg, field, v) \o <<Sym(")")>>
  ELSE <<Sym("("), Sym("(")>> \o _searchClauses(neg, "title", v)
       \o <<Sym(")"), Sym("OR"), Sym("(")>>
       \o _searchClauses(neg, "filename", v) \o <<Sym(")"), Sym(")")>>

\* _makeSearchExp(), for a field and its value: a title is also searched for in the file names.
MakeSearchExp(v, field, neg) ==
  IF field # "title" THEN <<Sym("(")>> \o _searchClauses(neg, field, v) \o <<Sym(")")>>
  ELSE <<Sym("("), Sym("(")>> \o _searchClauses(neg, "title", v)
       \o <<Sym(")"), Sym(IF neg THEN "AND" ELSE "OR"), Sym("(")>>
       \o _searchClauses(neg, "filename", v) \o <<Sym(")"), Sym(")")>>

\* The values which start with a class for containers, or for what is not one.
ClassValue(v) == Len(v) = 1 /\ Head(v[1]) \in ContainerClasses \cup ItemClasses
Exp(v, field, oper, neg) ==
  CASE oper = "I" -> <<>>
    [] oper \in {":", "="} /\ ClassValue(v) -> MakeSearchExp(Container, field, neg \/ Head(v[1]) \in ItemClasses)
    [] OTHER -> MakeSearchExp(v, field, neg)

\* A turn of the loop of _upnpsearchtorecoll().  A word which is neither an operator nor a field makes
\* the string unusable ("failed").
Start == [out |-> <<>>, field |-> "", oper |-> "", neg |-> FALSE, failed |-> FALSE]
Operators == {"contains", "doesnotcontain", "derivedfrom", "exists"}
Token(p, t) ==
  CASE p.failed -> p
    [] t.kind = "sign" /\ t.word \in {"(", ")"} -> [p EXCEPT !.out = Append(@, Sym(t.word))]
    [] t.kind = "sign" -> [p EXCEPT !.oper = @ \o t.word]
    [] t.kind = "value" -> [Start EXCEPT !.out = p.out \o Exp(t.parts, p.field, p.oper, p.neg)]
    [] t.word \in Operators -> [p EXCEPT !.oper = IF t.word = "exists" THEN "I" ELSE ":",
                                         !.neg = @ \/ t.word = "doesnotcontain"]
    [] t.word \in {"true", "false", "and"} -> p
    [] t.word = "or" -> [p EXCEPT !.out = Append(@, Sym("OR"))]
    [] t.word = "upnp:class" -> [p EXCEPT !.field = "mime"]
    [] t.word \in DOMAIN upnp2rclfields -> [p EXCEPT !.field = upnp2rclfields[t.word]]
    [] OTHER -> [p EXCEPT !.failed = TRUE]

NoQuery == <<Sym("none")>>
_upnpsearchtorecoll(tokens) ==
  IF tokens = <<Sign("*")>> THEN <<Sym("everything")>>
  ELSE LET p == FoldLeft(Token, Start, tokens) IN IF p.failed THEN NoQuery ELSE p.out

-----------------------------------------------------------------------------
(* External: what Recoll selects.  OR binds more tightly than the AND between terms.  *)
(* "recoll takes all mime: clause as global filters" (uprclsearch.py:168): they are no *)
(* terms of the expression, wherever they are written.                                 *)

HasPhrase(text, words) ==
  \E i \in 1..Len(text) : i + Len(words) - 1 <= Len(text) /\ SubSeq(text, i, i + Len(words) - 1) = words
Matches(d, c) ==
  LET text == d[c.field]
      there == IF c.kind \in {"words", "no words"} THEN \A i \in DOMAIN c.words : HasPhrase(text, <<c.words[i]>>)
               ELSE HasPhrase(text, c.words)
  IN  IF c.kind \in {"words", "phrase"} THEN there ELSE ~there

\* One of the mime types which are asked for, and none of those which are excluded.
Mime(c) == c.kind # "symbol" /\ c.field = "mime"
Filters(d, query) ==
  LET clauses == {c \in Range(query) : Mime(c)}
      asked == {c \in clauses : c.kind \in {"words", "phrase"}}
  IN  /\ asked # {} => \E c \in asked : Matches(d, c)
      /\ \A c \in clauses \ asked : Matches(d, c)

\* An expression is what is open: the values which must hold ("and"), and the alternatives of the
\* group of ORs at its end.  A term is the set of its value, {} if there is nothing in it.
Frame == [and |-> {}, group |-> {}, or |-> FALSE]
Conjuncts(f) == f.and \cup IF f.group = {} THEN {} ELSE {TRUE \in f.group}
Term(f, bs) == IF f.or THEN [f EXCEPT !.group = @ \cup bs, !.or = FALSE]
               ELSE [and |-> Conjuncts(f), group |-> bs, or |-> FALSE]
ValueOf(f) == IF Conjuncts(f) = {} THEN {} ELSE {FALSE \notin Conjuncts(f)}
Selects(d, query) ==
  LET Step(stack, t) ==
        CASE t.word = "(" -> <<Frame>> \o stack
          [] t.word = ")" -> <<Term(stack[2], ValueOf(stack[1]))>> \o SubSeq(stack, 3, Len(stack))
          [] t.word = "OR" -> [stack EXCEPT ![1].or = TRUE]
          [] t.word \in {"AND", "everything"} -> stack
          [] OTHER -> [stack EXCEPT ![1] = Term(@, IF Mime(t) THEN {} ELSE {Matches(d, t)})]
  IN  Filters(d, query) /\ FALSE \notin ValueOf(FoldLeft(Step, <<Frame>>, query)[1])

-----------------------------------------------------------------------------
(* Criteria: a relation has a "field", an "oper" and a "value"; "and" and "or"        *)
(* have a "left" and a "right".  How they are written:                                *)

Relation(r, glue) ==
  IF r.oper = "exists" THEN <<Word(r.field), Word("exists"), Word(IF glue THEN "true)" ELSE "true")>>
  ELSE IF r.oper = "=" THEN <<Word(r.field), Sign("="), Quoted(r.value)>>
  ELSE <<Word(r.field), Word(r.oper), Quoted(r.value)>>
\* Without a blank before it, the parenthesis after "true" is a part of the word.
Group(r, glue) ==
  IF r.oper = "exists" /\ glue THEN <<Sign("(")>> \o Relation(r, TRUE)
  ELSE <<Sign("(")>> \o Relation(r, FALSE) \o <<Sign(")")>>
Written(c, glue) ==
  CASE c.form = "all" -> <<Sign("*")>>
    [] c.form = "one" -> Relation(c.a, FALSE)
    [] c.form = "group" -> Group(c.a, glue) \o <<Word(c.op)>> \o Group(c.b, glue)
    [] c.form = "left" -> <<Sign("(")>> \o Relation(c.a, FALSE) \o <<Word(c.op)>> \o Relation(c.b, FALSE) \o <<Sign(")")>>
                          \o <<Word(c.op2)>> \o Relation(c.c, FALSE)
    [] c.form = "flat" -> Relation(c.a, FALSE) \o <<Word(c.op)>> \o Relation(c.b, FALSE)
                          \o <<Word(c.op2)>> \o Relation(c.c, FALSE)

-----------------------------------------------------------------------------
(* Entries.  A doc of the file system becomes one if it is audio or a directory; the  *)
(* track number is written as n or n/total, a sequence of numbers here.               *)

rcldoctoentry(d) ==
  LET title == IF d.title = <<>> THEN d.filename ELSE d.title
      artist == IF d.artist = <<>> THEN d.albumartist ELSE d.artist
  IN  IF d.mime[1] \notin audiomtypes THEN <<>>
      ELSE <<[id |-> d.id, tp |-> IF d.mime = Container[1] THEN "ct" ELSE "it", tt |-> title, artist |-> artist,
              album |-> d.album, folder |-> d.folder, file |-> d.filename, track |-> d.track]>>

\* The entry of an album or an artist of the tag tree (direntryforalbid(), direntryforartid()).
direntryfor(d) ==
  IF d.id \notin TagEntries THEN <<>>
  ELSE <<[id |-> d.id, tp |-> "ct", tt |-> d.title, artist |-> d.artist,
          album |-> <<>>, folder |-> "", file |-> <<>>, track |-> <<>>]>>

\* _cmpentries_func(): containers by title, then the others by album, directory, track number and file.
Letters(text) == [i \in DOMAIN text |-> Rank[text[i]]]
Less(s, t) == \E n \in 0..Len(s) : /\ IsPrefix(SubSeq(s, 1, n), t) /\ n < Len(t)
                                   /\ n < Len(s) => s[n + 1] < t[n + 1]
TrackNo(e) == IF e.track = <<>> THEN 0 ELSE e.track[1]
Keys(e) == <<Letters(e.album), Letters(<<e.folder>>), <<TrackNo(e)>>, Letters(e.file)>>
_cmpentries_func(e, f) ==
  IF e.tp # f.tp THEN e.tp = "ct"
  ELSE IF e.tp = "ct" THEN Less(Letters([i \in DOMAIN e.tt |-> lower[e.tt[i]]]), Letters([i \in DOMAIN f.tt |-> lower[f.tt[i]]]))
  ELSE \E n \in DOMAIN Keys(e) : SubSeq(Keys(e), 1, n - 1) = SubSeq(Keys(f), 1, n - 1) /\ Less(Keys(e)[n], Keys(f)[n])

\* The sort of Python keeps the order of equal entries.
Placed(sorted, e) ==
  LET n == Cardinality({i \in DOMAIN sorted : ~_cmpentries_func(e, sorted[i])})
  IN  InsertAt(sorted, n + 1, e)

\* search(): what the query selects, below the folder of the container, in any order.
Found(tokens, folders) ==
  LET query == _upnpsearchtorecoll(tokens)
  IN  IF query \in {<<>>, NoQuery} THEN {}
      ELSE {d \in Index : Selects(d, query) /\ d.folder \in folders}
search(fetched) ==
  FoldLeft(Placed, <<>>, FlattenSeq([i \in DOMAIN fetched |->
             IF fetched[i].made THEN direntryfor(fetched[i]) ELSE rcldoctoentry(fetched[i])]))

SearchInit == criteria \in Criteria /\ glued \in BOOLEAN /\ container \in DOMAIN FolderOf /\ entries = <<>>
SearchOff == criteria = [form |-> "all"] /\ glued = FALSE /\ container = "off" /\ entries = <<>>
Search ==
  /\ entries = <<>> /\ container \in DOMAIN FolderOf
  /\ \E found \in {Found(Written(criteria, glued), FolderOf[container])} :
       \E fetched \in SetToSeqs(found) : entries' = <<found, search(fetched)>>
  /\ UNCHANGED <<criteria, glued, container>>

-----------------------------------------------------------------------------
\* The meaning of criteria: "and" binds more tightly than "or", a title is that of the document or of
\* its file, and what a field is asked to exist for is not looked at.
Holds(d, r) ==
  LET fields == IF r.field = "dc:title" THEN {"title", "filename"}
                ELSE {IF r.field = "upnp:class" THEN "mime" ELSE upnp2rclfields[r.field]}
      has == \E f \in fields : \A i \in DOMAIN r.value : HasPhrase(d[f], r.value[i])
  IN  CASE r.field = "upnp:class" -> (Head(r.value[1]) \in ContainerClasses) = (d.mime = <<"inode/directory">>)
        [] r.oper = "doesnotcontain" -> ~has
        [] OTHER -> has
Both(op, x, y) == IF op = "and" THEN x /\ y ELSE x \/ y
Meaning(d, c) ==
  CASE c.form = "all" -> TRUE
    [] c.form = "one" -> Holds(d, c.a)
    [] c.form = "group" -> Both(c.op, Holds(d, c.a), Holds(d, c.b))
    [] c.form = "left" -> Both(c.op2, Both(c.op, Holds(d, c.a), Holds(d, c.b)), Holds(d, c.c))
    [] c.form = "flat" -> IF c.op = "or" /\ c.op2 = "and"
                          THEN Holds(d, c.a) \/ (Holds(d, c.b) /\ Holds(d, c.c))
                          ELSE Both(c.op2, Both(c.op, Holds(d, c.a), Holds(d, c.b)), Holds(d, c.c))

\* "the translation is not exact" (uprclsearch.py:16-17): what "exists" leaves out, "and" beside "or"
\* without parentheses (262-268), and a class which is one of several alternatives (167-170).
Relations(c) == CASE c.form = "all" -> {} [] c.form = "one" -> {c.a} [] c.form = "group" -> {c.a, c.b}
                  [] OTHER -> {c.a, c.b, c.c}
Alternatives(c) ==
  CASE c.form \in {"all", "one"} -> {}
    [] c.form = "group" -> IF c.op = "or" THEN {c.a, c.b} ELSE {}
    [] OTHER -> (IF c.op = "or" THEN {c.a, c.b} ELSE {}) \cup (IF c.op2 = "or" THEN Relations(c) ELSE {})
Grouped(c) == /\ \A r \in Relations(c) : r.oper # "exists"
              /\ c.form = "flat" => c.op = c.op2
Translated(c) == Grouped(c) /\ \A r \in Alternatives(c) : r.field # "upnp:class"

IsMeant == entries[1] = {d \in Index : Meaning(d, criteria) /\ d.folder \in FolderOf[container]}

\* A search finds what the criteria mean and nothing else, in the folder of the container, where the
\* translation is exact: it keeps the fields, the negations and the grouping, and a class restricts
\* what the rest finds (_upnpsearchtorecoll(), _makeSearchExp(), search()).
FindsWhatIsMeant == entries # <<>> /\ Translated(criteria) => IsMeant

\* "just translating the relExps into field clauses and forwarding the booleans and parentheses"
\* (uprclsearch.py:192-193): the same for classes which are alternatives.  The code does not have this
\* property: (upnp:class derivedfrom X or dc:title contains Y) finds only what is both.
BooleansForwarded == entries # <<>> /\ Grouped(criteria) => IsMeant

\* A list of search results has the tracks of an album together, and within a folder in the order of
\* their numbers, whatever the order of the documents of the index (uprclutils.py:396-463).
AlbumsTogether ==
  entries # <<>> =>
    LET list == entries[2]
        same(i, j) == list[i].tp = "it" /\ list[j].tp = "it" /\ list[i].album = list[j].album
    IN  /\ \A i, j \in DOMAIN list : list[i].tp = "it" /\ list[j].tp = "ct" => j < i
        /\ \A i, k \in DOMAIN list : i < k /\ same(i, k) =>
             /\ \A j \in i..k : same(i, j)
             /\ list[i].folder = list[k].folder => TrackNo(list[i]) <= TrackNo(list[k])
=============================================================================

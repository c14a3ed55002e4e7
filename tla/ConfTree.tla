---- MODULE ConfTree ----
(***************************************************************************)
(* Reading a configuration file (pycommon/conftree.py, ConfSimple).  A     *)
(* file is a sequence of lines and a line a sequence of tokens: the        *)
(* characters "#", "[", "]", "=" and "\" which the parser looks at, and    *)
(* words for what lies between them.  Blanks around tokens are dropped by  *)
(* the parser and are not represented.                                     *)
(***************************************************************************)
EXTENDS Naturals, FiniteSets, Sequences, SequencesExt

CONSTANT Lower   \* for a word which is not in lower case, its form in lower case

NoValue == <<"no value">>      \* None
Top == <<>>                    \* the section above the first "[section]" line

\* CaseInsensitiveDict: the key under which a name is stored.
Key(name, casesens) ==
  IF casesens THEN name
  ELSE [i \in DOMAIN name |-> IF name[i] \in DOMAIN Lower THEN Lower[name[i]] ELSE name[i]]

\* A submap, or the map of the submaps, with one more entry.
With(map, key, value) == [k \in DOMAIN map \cup {key} |-> IF k = key THEN value ELSE map[k]]

\* bytes.strip(b'[]')
StripBrackets(line) ==
  LET kept == {i \in DOMAIN line : line[i] \notin {"[", "]"}}
  IN  IF kept = {} THEN <<>>
      ELSE SubSeq(line, CHOOSE i \in kept : \A j \in kept : i <= j, CHOOSE i \in kept : \A j \in kept : j <= i)

Equals(line) == {i \in DOMAIN line : line[i] = "="}
FirstEqual(line) == CHOOSE i \in Equals(line) : \A j \in Equals(line) : i <= j

NewParse == [appending |-> FALSE, line |-> <<>>, submapkey |-> Top, subkeys |-> <<>>,
             submaps |-> With(<<>>, Top, <<>>)]

\* "nm = value" goes to the section at hand, which exists from its first value on.
Store(p, line, casesens) ==
  LET nm == Key(SubSeq(line, 1, FirstEqual(line) - 1), casesens)
      sk == Key(p.submapkey, casesens)
      old == IF sk \in DOMAIN p.submaps THEN p.submaps[sk] ELSE <<>>
  IN  [p EXCEPT !.submaps = With(p.submaps, sk, With(old, nm, SubSeq(line, FirstEqual(line) + 1, Len(line))))]

\* One turn of the loop of _parseinput().
ParseLine(p, cline, casesens) ==
  LET line == IF p.appending THEN p.line \o cline ELSE cline
      q == [p EXCEPT !.line = line, !.appending = FALSE]
  IN  CASE line = <<>> \/ Head(line) = "#" -> [p EXCEPT !.line = line]
        [] Last(line) = "\\" -> [q EXCEPT !.line = Front(line), !.appending = TRUE]
        [] Head(line) = "[" -> [q EXCEPT !.submapkey = StripBrackets(line), !.subkeys = Append(@, StripBrackets(line))]
        [] Equals(line) = {} -> q
        [] OTHER -> Store(q, line, casesens)

\* ConfSimple(): what a program knows of the file.  A file which cannot be opened is empty.
ConfSimple(lines, casesens) ==
  LET p == FoldLeft(LAMBDA q, cline : ParseLine(q, cline, casesens), NewParse, lines)
  IN  [subkeys |-> p.subkeys, submaps |-> p.submaps, casesens |-> casesens]

getSubKeys_unsorted(conf) == conf.subkeys

\* get() and getbin()
get(conf, nm, sk) ==
  LET s == Key(sk, conf.casesens)
      n == Key(nm, conf.casesens)
  IN  IF s \in DOMAIN conf.submaps /\ n \in DOMAIN conf.submaps[s] THEN conf.submaps[s][n] ELSE NoValue
====

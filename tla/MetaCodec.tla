----------------------------- MODULE MetaCodec ------------------------------
(***************************************************************************)
(* One line of the metadata cache file: how dmcacheSaveWorker() writes an  *)
(* entry and how dmcacheRestore() reads it.  Characters are their codes.   *)
(***************************************************************************)
EXTENDS Integers, Sequences, SequencesExt

CONSTANTS
    Char,       \* the characters of keys and values
    MaxLen,     \* bound: their length
    LL          \* the size of the line buffer

\* Bytes; none is 0, which ends a string of C.
ASSUME CharAssumption == Char \subseteq 1..255

VARIABLES
    key, value,   \* an entry of the cache
    line,         \* its line, without the end of line
    got           \* what is read: <<>>, <<"error">>, or the key and the value

codecvars == <<key, value, line, got>>

Percent == 37
Equals == 61
Special == {Percent, Equals, 10, 13}

Hex(d) == IF d < 10 THEN 48 + d ELSE 55 + d
\* h2d().
H2d(c) ==
    CASE c \in 48..57 -> c - 48
      [] c \in 65..70 -> c - 55
      [] OTHER -> -1

Escape(c) == IF c \in Special THEN <<Percent, Hex(c \div 16), Hex(c % 16)>> ELSE <<c>>
\* encode().
Encode(s) ==
    LET out[n \in 0..Len(s)] == IF n = 0 THEN <<>> ELSE out[n - 1] \o Escape(s[n])
    IN  out[Len(s)]

\* What a % and the two characters after it stand for: nothing, if they are no digits.
Unescape(a, b) == IF H2d(a) # -1 /\ H2d(b) # -1 THEN <<(16 * H2d(a) + H2d(b)) % 256>> ELSE <<>>

\* Mutant: stops one character too early.
LastEscapeEarly(s) == Len(s) - 3
\* The last position where the loop of decode() looks for a %.
LastEscape(s) == Len(s) - 2

\* decode(), whose last two characters are copied.
Decode(s) ==
    LET rest[i \in 1..(Len(s) + 1)] ==
            CASE i > LastEscape(s) -> SubSeq(s, i, Len(s))
              [] i <= LastEscape(s) /\ s[i] = Percent -> Unescape(s[i + 1], s[i + 2]) \o rest[i + 3]
              [] OTHER -> <<s[i]>> \o rest[i + 1]
    IN  IF Len(s) <= 2 THEN s ELSE rest[1]

\* getline() with LL - 1, then strchr().
Fits(l) == Len(l) <= LL - 2
ReadLine(l) ==
    LET at == SelectInSeq(l, LAMBDA c : c = Equals)
    IN  IF Fits(l) /\ at # 0
        THEN <<Decode(SubSeq(l, 1, at - 1)), Decode(SubSeq(l, at + 1, Len(l)))>>
        ELSE <<"error">>

Strings == UNION {[1..n -> Char] : n \in 0..MaxLen}

CodecInit == key \in Strings /\ value \in Strings /\ line = <<>> /\ got = <<>>

Save ==
    /\ line = <<>>
    /\ line' = Encode(key) \o <<Equals>> \o Encode(value)
    /\ UNCHANGED <<key, value, got>>

Restore ==
    /\ line # <<>> /\ got = <<>>
    /\ got' = ReadLine(line)
    /\ UNCHANGED <<key, value, line>>

CodecNext == Save \/ Restore
CodecSpec == CodecInit /\ [][CodecNext]_codecvars

-----------------------------------------------------------------------------
(* Properties *)

\* "Encode uris and values so that they can be decoded": what fits in the buffer of a line is read
\* as it was, also when it looks like an escape or like a separator (ohmetacache.cxx:56-106, 190-205).
RoundTrip == got # <<>> => got = IF Fits(line) THEN <<key, value>> ELSE <<"error">>
=============================================================================

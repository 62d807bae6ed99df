----------------------------- MODULE LineIndex -----------------------------
(***************************************************************************)
(* Byte offsets and positions (crates/itaruby_syntax/src/lib.rs), and the  *)
(* file URIs of the language server (main_loop.rs).  A text is a sequence  *)
(* of characters; Utf8 and Utf16 give the bytes and the UTF-16 code units  *)
(* of one.  A path or URI is the sequence of its bytes.                    *)
(***************************************************************************)
EXTENDS Integers, Sequences, SequencesExt, FiniteSets

CONSTANTS Newline, Utf8, Utf16

Char == DOMAIN Utf8
ASSUME WidthAssumption == Utf8 \in [Char -> 1..4] /\ Utf16 \in [Char -> 1..2]

Sum(f, s) ==
    LET sum[n \in 0..Len(s)] == IF n = 0 THEN 0 ELSE sum[n - 1] + f[s[n]]
    IN  sum[Len(s)]
Bytes(s) == Sum(Utf8, s)
\* The byte offsets at which a character starts, and the end of the text.
Boundaries(text) == {Bytes(SubSeq(text, 1, n)) : n \in 0..Len(text)}
\* The characters of the slice text[a..b]; both ends have to be boundaries.
Slice(text, a, b) ==
    LET from == CHOOSE n \in 0..Len(text) : Bytes(SubSeq(text, 1, n)) = a
        to == CHOOSE n \in 0..Len(text) : Bytes(SubSeq(text, 1, n)) = b
    IN  SubSeq(text, from + 1, to)

\* 0, and after each newline the offset that follows it.
line_starts(text) ==
    LET starts[n \in 0..Len(text)] ==
            IF n = 0 THEN <<0>>
            ELSE IF text[n] = Newline THEN Append(starts[n - 1], Bytes(SubSeq(text, 1, n))) ELSE starts[n - 1]
    IN  starts[Len(text)]

\* Slicing inside a character panics.
line_col_panics(text, offset) == offset < Bytes(text) /\ offset \notin Boundaries(text)

\* 0-based line and column; an offset past the end is the end.
line_col(text, offset) ==
    LET at == IF offset > Bytes(text) THEN Bytes(text) ELSE offset
        starts == line_starts(text)
        line == CHOOSE l \in DOMAIN starts : starts[l] <= at /\ (l = Len(starts) \/ starts[l + 1] > at)
    IN  [line |-> line - 1, col |-> Sum(Utf16, Slice(text, starts[line], at))]

line_start(text, line) ==
    LET starts == line_starts(text)
    IN  IF line >= Len(starts) THEN Last(starts) ELSE starts[line + 1]

\* The first character of the line at or past the column; the end of the line,
\* its newline included, when there is none.
MutOffset(text, line, col) ==
    LET starts == line_starts(text)
        from == line_start(text, line)
        chars == Slice(text, from, IF line + 1 < Len(starts) THEN starts[line + 2] ELSE Bytes(text))
        hits == {n \in 1..Len(chars) : n - 1 >= col}
    IN  from + Bytes(IF hits = {} THEN chars ELSE SubSeq(chars, 1, (CHOOSE n \in hits : \A m \in hits : n <= m) - 1))
offset(text, line, col) ==
    LET starts == line_starts(text)
        from == line_start(text, line)
        chars == Slice(text, from, IF line + 1 < Len(starts) THEN starts[line + 2] ELSE Bytes(text))
        hits == {n \in 1..Len(chars) : Sum(Utf16, SubSeq(chars, 1, n - 1)) >= col}
    IN  from + Bytes(IF hits = {} THEN chars ELSE SubSeq(chars, 1, (CHOOSE n \in hits : \A m \in hits : n <= m) - 1))

\* The end of the line an offset is on, without its newline.
line_end(text, at) ==
    LET starts == line_starts(text)
        line == line_col(text, at).line
    IN  IF line + 1 < Len(starts) THEN starts[line + 2] - 1 ELSE Bytes(text)

(******************************** UTF-8 ************************************)
\* The bytes of the character that a byte starts; 0 if it starts none.
CharLen(b) ==
    IF b < 128 THEN 1 ELSE IF b \in 194..223 THEN 2
    ELSE IF b \in 224..239 THEN 3 ELSE IF b \in 240..244 THEN 4 ELSE 0
\* May b be byte i of the character that `first` starts?
Follows(first, i, b) ==
    b \in IF i # 2 THEN 128..191
         ELSE IF first = 224 THEN 160..191 ELSE IF first = 237 THEN 128..159
         ELSE IF first = 240 THEN 144..191 ELSE IF first = 244 THEN 128..143 ELSE 128..191

\* Is there a character at j, no byte of it missing?
CharAt(s, j) ==
    /\ CharLen(s[j]) > 0 /\ j + CharLen(s[j]) <= Len(s) + 1
    /\ \A i \in 2..CharLen(s[j]) : Follows(s[j], i, s[j + i - 1])
\* The bytes of a text: each belongs to a character, no byte missing.
IsUtf8(s) == \A i \in 1..Len(s) : \E j \in 1..i : CharAt(s, j) /\ i < j + CharLen(s[j])
\* The end of the bytes at j that begin a character and do not finish it; of one
\* byte when it starts none.
Broken(s, j) ==
    CHOOSE e \in (j + 1)..(Len(s) + 1) :
        /\ \A i \in 2..(e - j) : i < CharLen(s[j]) /\ Follows(s[j], i, s[j + i - 1])
        /\ e <= Len(s) => ~(e - j + 1 <= CharLen(s[j]) /\ Follows(s[j], e - j + 1, s[e]))

\* Bytes that are no character become one replacement character.
Replacement == <<239, 191, 189>>
from_utf8_lossy(s) ==
    LET from[j \in 1..(Len(s) + 1)] ==
            IF j > Len(s) THEN <<>>
            ELSE IF CharAt(s, j) THEN SubSeq(s, j, j + CharLen(s[j]) - 1) \o from[j + CharLen(s[j])]
            ELSE Replacement \o from[Broken(s, j)]
    IN  from[1]

(*************************** percent coding ********************************)
Percent == 37
Slash == 47
Digits == 48..57
Safe == Digits \cup (65..90) \cup (97..122)
        \cup {45, 95, 46, 126, Slash, 58, 64, 33, 36, 38, 39, 40, 41, 42, 43, 44, 59, 61}

HexDigit(n) == IF n < 10 THEN 48 + n ELSE 55 + n
MutPercentEncode(p) ==
    FlattenSeq([i \in DOMAIN p |->
        IF p[i] \in Safe \cup {Percent} THEN <<p[i]>> ELSE <<Percent, HexDigit(p[i] \div 16), HexDigit(p[i] % 16)>>])
percent_encode_path(p) ==
    FlattenSeq([i \in DOMAIN p |->
        IF p[i] \in Safe THEN <<p[i]>> ELSE <<Percent, HexDigit(p[i] \div 16), HexDigit(p[i] % 16)>>])

\* from_str_radix takes digits of both cases and a leading plus sign.
HexValue(c) ==
    CASE c \in Digits -> c - 48 [] c \in 65..70 -> c - 55 [] c \in 97..102 -> c - 87 [] OTHER -> -1
Radix16(a, b) ==
    IF HexValue(b) = -1 THEN -1
    ELSE IF a = 43 THEN HexValue(b)
    ELSE IF HexValue(a) = -1 THEN -1 ELSE 16 * HexValue(a) + HexValue(b)

unescape(s) ==
    LET escape(i) == s[i] = Percent /\ i + 2 <= Len(s) /\ Radix16(s[i + 1], s[i + 2]) # -1
        from[i \in 1..(Len(s) + 1)] ==
            IF i > Len(s) THEN <<>>
            ELSE IF escape(i) THEN <<Radix16(s[i + 1], s[i + 2])>> \o from[i + 3]
            ELSE <<s[i]>> \o from[i + 1]
    IN  from[1]
percent_decode(s) == from_utf8_lossy(unescape(s))

\* The path of a file URI; a relative path gains a leading slash.
path_to_uri(p) ==
    LET encoded == percent_encode_path(from_utf8_lossy(p))
    IN  IF encoded # <<>> /\ Head(encoded) = Slash THEN encoded ELSE <<Slash>> \o encoded
uri_to_path(uri) == percent_decode(uri)
=============================================================================

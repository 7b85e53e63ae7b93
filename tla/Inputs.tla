------------------------------ MODULE Inputs ------------------------------
(***************************************************************************)
(* What is read of data that others made: the sounds of a card             *)
(* (wav_reader.h), the texts of a phone (utf8_text.h checks them and       *)
(* text_layout.h wraps them), a network's name (network_config.cpp) and    *)
(* the dates of the weather provider (network_weather_parse.cpp).  Each is *)
(* a function: s is [unit: which, of: its input, answer: what it returned, *)
(* once it was called].                                                    *)
(***************************************************************************)
EXTENDS Integers, Sequences, FiniteSets

CONSTANTS
  MaxChunks,  \* chunks that are looked at (32)
  Limit,      \* bytes of a channel's sound (96000)
  MaxLines,   \* lines of a wrapped text (40)
  MaxText,    \* bound: characters of a text
  Years       \* of the dates

VARIABLE s

None == <<>>
Smallest(S) == CHOOSE x \in S : \A y \in S : x <= y
Largest(S) == CHOOSE x \in S : \A y \in S : x >= y

(***************************************************************************)
(* Sounds: [chunks, length: of the file, riff: the end that its header     *)
(* says].  A chunk has a kind, the size that it says, and a format, if it  *)
(* is one that the codec plays (wav_channels), its channels.               *)
(***************************************************************************)
Format(size, channels) == [kind |-> "fmt", size |-> size, channels |-> channels]
Data(size) == [kind |-> "data", size |-> size, channels |-> 0]
Other == [kind |-> "other", size |-> 1, channels |-> 0]

Chunks ==
  {Format(16, 1), Format(18, 2), Format(15, 1), Other}
    \cup {Data(n) : n \in {0, 2, 3, Limit, 2 * Limit, 2 * Limit + 4}}

\* Where each chunk begins, and the last one ends with its padding.
Offsets(chunks) ==
  LET f[i \in 1 .. Len(chunks) + 1] ==
        IF i = 1 THEN 12 ELSE f[i - 1] + 8 + chunks[i - 1].size + (chunks[i - 1].size % 2)
  IN f
End(chunks) == Offsets(chunks)[Len(chunks) + 1]

Files ==
  UNION {{[chunks |-> c, length |-> End(c) + d[1], riff |-> End(c) + d[2]] : d \in {<<0, 0>>, <<0, -1>>, <<-1, 0>>, <<1, 0>>}} :
           c \in (UNION {[1 .. n -> Chunks] : n \in 1 .. MaxChunks}) \cup {<<Other>> \o c : c \in [1 .. MaxChunks -> Chunks]}}

\* wav_open's loop, after n chunks: what it has found, or that it has returned.
Found(file, n) ==
  LET At(offset) == {i \in 1 .. Len(file.chunks) : Offsets(file.chunks)[i] = offset}
      After(c, offset) == offset + 8 + c.size + (c.size % 2)
      \* What it makes of a chunk: one that ends in the file, whose format can be played.
      Read(x, c) ==
        IF After(c, x.at) > file.riff \/ (c.kind = "fmt" /\ (c.size < 16 \/ c.channels = 0)) THEN [x EXCEPT !.over = TRUE]
        ELSE [x EXCEPT !.at = After(c, @),
                       !.channels = IF c.kind = "fmt" THEN c.channels ELSE @,
                       !.offset = IF c.kind = "data" THEN x.at + 8 ELSE @,
                       !.bytes = IF c.kind = "data" THEN c.size ELSE @]
      f[i \in 0 .. n] ==
        IF i = 0 THEN [at |-> 12, channels |-> 0, offset |-> 0, bytes |-> 0, over |-> FALSE]
        ELSE IF f[i - 1].over \/ (f[i - 1].channels # 0 /\ f[i - 1].offset # 0) THEN f[i - 1]
        ELSE IF At(f[i - 1].at) = {} THEN [f[i - 1] EXCEPT !.over = TRUE]
        ELSE Read(f[i - 1], file.chunks[CHOOSE k \in At(f[i - 1].at) : TRUE])
  IN f[n]

\* wav_open.
WavOpen(file) ==
  LET x == Found(file, MaxChunks)
      whole == x.bytes > 0 /\ x.bytes % (2 * x.channels) = 0 /\ x.bytes <= Limit * x.channels
  IN IF file.riff <= file.length /\ ~x.over /\ x.channels # 0 /\ x.offset # 0 /\ whole
     THEN [offset |-> x.offset, bytes |-> x.bytes, channels |-> x.channels] ELSE None

(***************************************************************************)
(* Texts in UTF-8: [bytes, limit].  The bytes are those at which the       *)
(* ranges of the encoding begin and end.                                   *)
(***************************************************************************)
Leads == {31, 65, 127, 128, 191, 193, 194, 223, 224, 225, 237, 238, 239, 240, 241, 244, 245, 255}
Nexts == {65, 127, 128, 143, 144, 159, 160, 191, 192}
Texts ==
  {<<a, b, c>> : a \in Leads, b \in Nexts, c \in {65, 128, 191}}
    \cup {<<a, b, 128, c>> : a \in Leads, b \in Nexts, c \in {65, 128, 191}}
    \cup {<<65, a, b, 191>> : a \in Leads, b \in Nexts}

\* The bytes of a code point that begins with a lead, or 0.
Size(lead) ==
  CASE lead < 128 -> 1
    [] lead \in 194 .. 223 -> 2
    [] lead \in 224 .. 239 -> 3
    [] lead \in 240 .. 244 -> 4
    [] OTHER -> 0

\* The value of the bytes from..from + size - 1, of which the first gives 7 - size bits.
Value(bytes, from, size) ==
  LET f[i \in 0 .. size - 1] == IF i = 0 THEN bytes[from] % (2 ^ (7 - size)) ELSE f[i - 1] * 64 + (bytes[from + i] % 64)
  IN f[size - 1]

\* Not fewer bits than its size is for, not a surrogate, and not past the last code point.
InRange(value, size) == value >= <<0, 128, 2048, 65536>>[size] /\ value <= 1114111 /\ value \notin 55296 .. 57343

\* The loop's body: a code point at from that ends by end, of a value of that size.
CodePoint(bytes, from, end) ==
  LET size == Size(bytes[from])
      value == Value(bytes, from, size)
  IN /\ size > 0 /\ size <= end - from + 1
     /\ \A i \in from + 1 .. from + size - 1 : bytes[i] \in 128 .. 191
     /\ size > 1 => InRange(value, size)

\* utf8_prefix.
Prefix(bytes, limit) ==
  LET end == Smallest({Len(bytes), limit})
      f[at \in 0 .. end] ==
        IF at < end /\ CodePoint(bytes, at + 1, end) THEN f[at + Size(bytes[at + 1])] ELSE at
  IN f[0]

\* text of network_config.cpp, which the byte 0 ends: no control characters, and no part of a code point.
PlainText(bytes) ==
  Prefix(bytes, Len(bytes)) = Len(bytes) /\ \A i \in 1 .. Len(bytes) : bytes[i] >= 32 /\ bytes[i] # 127

(***************************************************************************)
(* Texts that are wrapped: [text, columns].  Lines are <<first, last>>,    *)
(* the places of their characters in the text.                             *)
(***************************************************************************)
Letters == {"a", " ", "\n"}

\* The characters of a line that begins at from.
Fits(text, columns, from) ==
  LET stop == {i \in from .. Len(text) : text[i] = "\n"} \cup {Len(text) + 1, from + columns}
  IN Smallest(stop) - from

\* How many of them are kept: up to the last space, if a word would be cut.
Kept(text, columns, from) ==
  LET length == Fits(text, columns, from)
      spaces == {i \in from + 1 .. from + length - 1 : text[i] = " "}
      cut == length = columns /\ from + length <= Len(text) /\ text[from + length] = "a"
  IN IF cut /\ spaces # {} THEN Largest(spaces) - from ELSE length

\* The next line begins after the spaces, and the terminator of the last line.
Begins(text, at) == Smallest({i \in at .. Len(text) : text[i] # " "} \cup {Len(text) + 1})

\* wrap_text: its lines, and the place where it stopped.
Wrapped(text, columns) ==
  LET f[n \in 0 .. MaxLines] ==
        IF n = 0 THEN [lines |-> <<>>, at |-> 1]
        ELSE LET from == Begins(text, f[n - 1].at)
                 after == from + Kept(text, columns, from)
             IN IF f[n - 1].at > Len(text) THEN f[n - 1]
                ELSE IF from > Len(text) THEN [f[n - 1] EXCEPT !.at = from]
                ELSE [lines |-> Append(f[n - 1].lines, <<from, after - 1>>),
                      at |-> IF after <= Len(text) /\ text[after] = "\n" THEN after + 1 ELSE after]
  IN f[MaxLines]

Wrap(text, columns) ==
  LET x == Wrapped(text, columns)
  IN [lines |-> x.lines, clipped |-> Len(x.lines) = MaxLines /\ x.at <= Len(text)]

(***************************************************************************)
(* Dates: [year, month, day] of ten characters of the right kinds.         *)
(***************************************************************************)
Days == <<31, 28, 31, 30, 31, 30, 31, 31, 30, 31, 30, 31>>
MonthOffset == <<0, 3, 2, 5, 0, 3, 5, 1, 4, 6, 2, 4>>

\* weekday: 0 is Sunday, -1 not a date.
Weekday(d) ==
  LET y == IF d.month < 3 THEN d.year - 1 ELSE d.year
      leap == IF d.month = 2 /\ d.year % 4 = 0 THEN 1 ELSE 0
  IN IF d.year \notin 2024 .. 2099 \/ d.month \notin 1 .. 12 THEN -1
     ELSE IF d.day < 1 \/ d.day > Days[d.month] + leap THEN -1
     ELSE (y + y \div 4 - y \div 100 + y \div 400 + MonthOffset[d.month] + d.day) % 7

-----------------------------------------------------------------------------

Init ==
  \/ \E file \in Files : s = [unit |-> "wav", of |-> file, answer |-> None]
  \/ \E bytes \in Texts, limit \in 1 .. 4 : s = [unit |-> "utf8", of |-> [bytes |-> bytes, limit |-> limit], answer |-> None]
  \/ \E n \in 1 .. MaxText, columns \in 1 .. 3 : \E text \in [1 .. n -> Letters] :
       s = [unit |-> "wrap", of |-> [text |-> text, columns |-> columns], answer |-> None]
  \/ \E year \in Years, month \in 0 .. 13, day \in {0, 1, 28, 29, 30, 31, 32} :
       s = [unit |-> "date", of |-> [year |-> year, month |-> month, day |-> day], answer |-> None]

Next ==
  LET Returns(x) == s' = [s EXCEPT !.answer = <<x>>]
  IN \/ s.unit = "wav" /\ Returns(WavOpen(s.of))
     \/ s.unit = "utf8" /\ Returns([prefix |-> Prefix(s.of.bytes, s.of.limit), plain |-> PlainText(s.of.bytes)])
     \/ s.unit = "wrap" /\ Returns(Wrap(s.of.text, s.of.columns))
     \/ s.unit = "date" /\ Returns(Weekday(s.of))

-----------------------------------------------------------------------------

\* A sound that is played lies in the file, is whole frames, and no longer than three seconds; a
\* file whose one format and one sound, among the chunks that are looked at, are such is played.
\* (docs/SOUND.md, "SD sounds")
SoundChunks(kind) == {i \in 1 .. Len(s.of.chunks) : s.of.chunks[i].kind = kind}
Playable(i, channels) == LET n == s.of.chunks[i].size IN n \in 1 .. Limit * channels /\ n % (2 * channels) = 0
Simple(i, j) ==
  /\ SoundChunks("fmt") = {i} /\ SoundChunks("data") = {j} /\ i <= MaxChunks /\ j <= MaxChunks
  /\ s.of.chunks[i].size >= 16 /\ s.of.chunks[i].channels # 0 /\ Playable(j, s.of.chunks[i].channels)
  /\ End(s.of.chunks) <= s.of.riff /\ s.of.riff <= s.of.length

WavRight ==
  LET x == s.answer[1] IN
  /\ x # None =>
       /\ x.offset + x.bytes <= s.of.length /\ x.offset + x.bytes <= s.of.riff
       /\ \E i \in SoundChunks("fmt") : s.of.chunks[i].channels = x.channels
       /\ \E j \in SoundChunks("data") :
            Offsets(s.of.chunks)[j] + 8 = x.offset /\ s.of.chunks[j].size = x.bytes /\ Playable(j, x.channels)
  /\ (\E i, j \in 1 .. Len(s.of.chunks) : Simple(i, j)) => x # None

\* The well-formed sequences of the Unicode standard (table 3-7): the ranges of their bytes.
Trail == 128 .. 191
Table ==
  {<<0 .. 127>>, <<194 .. 223, Trail>>,
   <<{224}, 160 .. 191, Trail>>, <<(225 .. 236) \cup {238, 239}, Trail, Trail>>, <<{237}, 128 .. 159, Trail>>,
   <<{240}, 144 .. 191, Trail, Trail>>, <<241 .. 243, Trail, Trail, Trail>>, <<{244}, 128 .. 143, Trail, Trail>>}

\* A text of n bytes is one of whole characters when a cut after each of them is one that the next
\* character goes on from.
Character(bytes, from, to) ==
  \E row \in Table : Len(row) = to - from + 1 /\ \A i \in 1 .. Len(row) : bytes[from + i - 1] \in row[i]
WholeText(bytes, n) ==
  \E cuts \in SUBSET (0 .. n) :
    /\ {0, n} \subseteq cuts
    /\ \A a \in cuts \ {n} : \E b \in cuts : b > a /\ Character(bytes, a + 1, b) /\ \A c \in cuts : ~(a < c /\ c < b)

\* "Shared UTF-8 prefix validation keeps complete code points [...]. Malformed or incomplete
\* sequences end the retained prefix." (docs/AUDIT_REMEDIATION.md:18)
PrefixRight ==
  LET x == s.answer[1]
      n == Len(s.of.bytes)
  IN /\ x.prefix = Largest({i \in 0 .. Smallest({n, s.of.limit}) : WholeText(s.of.bytes, i)})
     /\ x.plain <=> WholeText(s.of.bytes, n) /\ \A i \in 1 .. n : s.of.bytes[i] \notin (0 .. 31) \cup {127}

\* No line is wider than the columns; every letter is on one line, in order, unless the text is
\* clipped; a word that fits in a line is not cut; a terminator ends a line, and without one the
\* next line begins with a word that did not fit, or is blank for a space that did not.
LineOf(i, lines) == {k \in DOMAIN lines : i \in lines[k][1] .. lines[k][2]}
Together(text, i, j) == \A k \in i .. j : text[k] = "a"
Broken(text, columns, a, b) ==
  LET newlines == {i \in a[2] + 1 .. b[1] - 1 : text[i] = "\n"}
      word == Smallest({i \in b[1] .. Len(text) : text[i] # "a"} \cup {Len(text) + 1}) - 1
  IN IF newlines = {} THEN word - a[1] >= columns \/ (b[2] < b[1] /\ a[2] - a[1] = columns - 1) ELSE Cardinality(newlines) = 1
WrapRight ==
  LET x == s.answer[1]
      text == s.of.text
      places == {i \in 1 .. Len(text) : text[i] = "a"}
  IN /\ \A k \in DOMAIN x.lines : x.lines[k][2] - x.lines[k][1] < s.of.columns
     /\ \A k \in 1 .. Len(x.lines) - 1 : Broken(text, s.of.columns, x.lines[k], x.lines[k + 1])
     /\ ~x.clipped => \A i \in places : Cardinality(LineOf(i, x.lines)) = 1
     /\ \A i, j \in places : \A a \in LineOf(i, x.lines), b \in LineOf(j, x.lines) :
          /\ i <= j => a <= b
          /\ i < j /\ (\E k \in i .. j : text[k] = "\n") => a < b
          /\ i < j /\ a # b /\ Together(text, i, j) =>
               \E p, q \in places : p <= i /\ q >= j /\ q - p >= s.of.columns /\ Together(text, p, q)

\* The weekday of a day is the days since Monday the first of January 2024.
IsLeap(year) == year % 4 = 0 /\ (year % 100 = 0 => year % 400 = 0)
MonthDays(year, month) == IF month = 2 /\ IsLeap(year) THEN 29 ELSE Days[month]
DaysBefore(year, month) ==
  LET y[n \in 2024 .. 2100] == IF n = 2024 THEN 0 ELSE y[n - 1] + (IF IsLeap(n - 1) THEN 366 ELSE 365)
      m[n \in 1 .. 12] == IF n = 1 THEN y[year] ELSE m[n - 1] + MonthDays(year, n - 1)
  IN m[month]

WeekdayRight ==
  LET d == s.of
      exists == d.year \in 2024 .. 2099 /\ d.month \in 1 .. 12 /\ d.day \in 1 .. MonthDays(d.year, d.month)
  IN s.answer[1] = IF exists THEN (DaysBefore(d.year, d.month) + d.day) % 7 ELSE -1

InputsRight ==
  s.answer # None =>
    CASE s.unit = "wav" -> WavRight
      [] s.unit = "utf8" -> PrefixRight
      [] s.unit = "wrap" -> WrapRight
      [] s.unit = "date" -> WeekdayRight
=============================================================================

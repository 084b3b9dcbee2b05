------------------------------- MODULE Ujson -------------------------------
(***************************************************************************)
(* The strings and integers of ujson.c, as they are written to a stream of *)
(* characters and read back from it.  Characters are their codes.  A       *)
(* reader is at a position of the text; ujson_ungetc, which the readers    *)
(* call at most once between two calls of ujson_getc, moves it back by one.*)
(***************************************************************************)
EXTENDS Integers, Sequences, SequencesExt

CONSTANT IntBits   \* width of the integers (8 to 64 in the code)

ASSUME IntBitsAssumption == IntBits \in Nat \ {0}

Quote     == 34
Slash     == 47
Backslash == 92
Minus     == 45
Digits    == 48..57
Spaces    == {32} \cup 9..13

\* the escapes of one letter: b, t, n, f, r
Short ==
  [c \in {8, 9, 10, 12, 13} |->
     CASE c = 8 -> 98 [] c = 9 -> 116 [] c = 10 -> 110 [] c = 12 -> 102 [] OTHER -> 114]

Hex(n)   == IF n < 10 THEN 48 + n ELSE 97 + n - 10
HexDigits == (48..57) \cup (65..70) \cup (97..102)
Unhex(c) == CASE c \in 48..57 -> c - 48 [] c \in 65..70 -> c - 55 [] OTHER -> c - 87

-----------------------------------------------------------------------------
(* Writing *)

\* Mutant: a backslash is written as it is
EscapeNotBackslash(ch) ==
  CASE ch = Quote -> <<Backslash, ch>>
    [] ch \in DOMAIN Short -> <<Backslash, Short[ch]>>
    [] ch \notin DOMAIN Short /\ (ch < 32 \/ ch >= 127) ->
         <<Backslash, 117, 48, 48, Hex(ch \div 16), Hex(ch % 16)>>
    [] OTHER -> <<ch>>

Escape(ch) ==
  CASE ch \in {Quote, Backslash} -> <<Backslash, ch>>
    [] ch \in DOMAIN Short -> <<Backslash, Short[ch]>>
    [] ch \notin DOMAIN Short /\ (ch < 32 \/ ch >= 127) ->
         <<Backslash, 117, 48, 48, Hex(ch \div 16), Hex(ch % 16)>>
    [] OTHER -> <<ch>>

SerializeString(str) ==
  <<Quote>> \o FlattenSeq([i \in DOMAIN str |-> Escape(str[i])]) \o <<Quote>>

Decimal(value) ==
  LET dec[n \in 0..value] == (IF n < 10 THEN <<>> ELSE dec[n \div 10]) \o <<48 + (n % 10)>>
  IN  dec[value]

\* ujson_serialize_integer32 and 64: the absolute value is the two's
\* complement in the integer's width, which a minimum has none of
SerializeInteger(value) ==
  IF value < 0 THEN <<Minus>> \o Decimal((-value) % 2^IntBits) ELSE Decimal(value)

-----------------------------------------------------------------------------
(* Reading: the result has .ok, the .value and the position .at after it.  *)

Failed(at) == [ok |-> FALSE, at |-> at]

\* position of the first character that is no space; Len(text) + 1 if none
SkipSpaces(text, at) ==
  CHOOSE p \in at..(Len(text) + 1) :
    /\ p <= Len(text) => text[p] \notin Spaces
    /\ \A q \in at..(p - 1) : text[q] \in Spaces

\* the character at the start of text[at..], one escape or the character itself
OneChar(text, at) ==
  IF text[at] # Backslash THEN [ok |-> TRUE, value |-> text[at], at |-> at + 1]
  ELSE IF at = Len(text) THEN Failed(at)
  ELSE LET ch == text[at + 1] IN
       CASE ch \in {Quote, Backslash, Slash} -> [ok |-> TRUE, value |-> ch, at |-> at + 2]
         [] \E c \in DOMAIN Short : Short[c] = ch ->
              [ok |-> TRUE, value |-> CHOOSE c \in DOMAIN Short : Short[c] = ch, at |-> at + 2]
         [] ch = 117 ->
              IF at + 5 > Len(text) \/ \E k \in 2..5 : text[at + k] \notin HexDigits
              THEN Failed(at)
              ELSE [ok |-> TRUE, at |-> at + 6,   \* four digits, cut to a char
                    value |-> (16 * Unhex(text[at + 4]) + Unhex(text[at + 5])) % 256]
         [] OTHER -> Failed(at)

\* ujson_parse_qs into a buffer of len characters, its nul included: what
\* does not fit is read and dropped
ParseString(text, at, len) ==
  LET from == SkipSpaces(text, at)
      rest[p \in from..(Len(text) + 1)] ==
        IF p > Len(text) THEN Failed(p)
        ELSE IF text[p] = Quote THEN [ok |-> TRUE, value |-> <<>>, at |-> p + 1]
        ELSE LET c == OneChar(text, p) IN
             IF ~c.ok \/ ~rest[c.at].ok THEN Failed(p)
             ELSE [ok |-> TRUE, value |-> <<c.value>> \o rest[c.at].value, at |-> rest[c.at].at]
  IN  IF from > Len(text) \/ text[from] # Quote THEN Failed(from)
      ELSE LET all == rest[from + 1]
           IN  IF ~all.ok THEN Failed(all.at)
               ELSE [all EXCEPT !.value = SubSeq(@, 1, IF Len(@) < len THEN Len(@) ELSE len - 1)]

\* what the digits read so far are worth
ValueOf(digits) ==
  LET v[k \in 0..Len(digits)] == IF k = 0 THEN 0 ELSE 10 * v[k - 1] + digits[k] - 48
  IN  v[Len(digits)]

\* ujson_parse_integer: the low bits of the value are stored, whatever it is
\* (a 64-bit one is added up in an int64_t, which is taken to wrap); the
\* character that ends the number is put back
ParseInteger(text, at) ==
  LET from  == SkipSpaces(text, at)
      neg   == from <= Len(text) /\ text[from] = Minus
      start == IF neg THEN from + 1 ELSE from
      end   == CHOOSE p \in start..(Len(text) + 1) :
                 /\ p <= Len(text) => text[p] \notin Digits
                 /\ \A q \in start..(p - 1) : text[q] \in Digits
      value == ValueOf(SubSeq(text, start, end - 1))
  IN  IF end = start THEN Failed(start)
      ELSE [ok |-> TRUE, value |-> (IF neg THEN -value ELSE value) % 2^IntBits, at |-> end]

-----------------------------------------------------------------------------
(* A string that is written and followed by other text is read back up to  *)
(* the buffer's length, and reading stops just after it, also when the     *)
(* string did not fit.                                                     *)
StringComesBack(str, len, after) ==
  LET text == SerializeString(str) IN
  ParseString(text \o after, 1, len) =
    [ok |-> TRUE, at |-> Len(text) + 1,
     value |-> SubSeq(str, 1, IF Len(str) < len THEN Len(str) ELSE len - 1)]

(* An integer of either sign, the smallest one included, comes back with   *)
(* the same bits, and the text after it is left alone.                     *)
IntegerComesBack(value, after) ==
  LET text == SerializeInteger(value) IN
  ParseInteger(text \o after, 1) = [ok |-> TRUE, value |-> value % 2^IntBits, at |-> Len(text) + 1]

=============================================================================

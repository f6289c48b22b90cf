--------------------------------- MODULE Display ---------------------------------
(***************************************************************************)
(* How served text is shown (cmd/axt-verify/main.go printable,             *)
(* escapeDisplay, writeJSONEscape).                                        *)
(*                                                                         *)
(* Unicode is scaled down to eighteen runes written in base 4: \x takes    *)
(* one digit, \u two and \U four, as two, four and eight do in base 16.    *)
(* The runes past 15 stand for those outside the BMP, written in UTF-16 as *)
(* 13 followed by 14 or 15.  A byte that is no UTF-8 is a negative number. *)
(***************************************************************************)
EXTENDS Integers, Sequences, SequencesExt

Digit == 0..3
Backslash == 4
LetterU == 5
CapitalU == 6
LetterX == 7
Newline == 8
Escape == 9          \* a C0 control, which the JSON encoder escapes
C1Control == 10      \* one it does not
RuneError == 11      \* U+FFFD
LetterN == 12
HighHalf == 13
LowHalf == 14..15
Astral == 16..17     \* 17 is a format character, a tag

LastOfBMP == 15
Rune == (0..12) \cup Astral
Byte == -4..-1

\* What served text can be made of.
Text(n) == BoundedSeq(Rune \cup Byte, n)
Clean(text) == \A i \in 1..Len(text) : text[i] \in Rune

IsControl(r) == r \in {Newline, Escape, C1Control, 17}

Hex(r, width) == [i \in 1..width |-> (r \div 4^(width - i)) % 4]

\* printable: one unit of text as it is printed.
PrintableUnit(u) ==
  IF u = Backslash THEN <<Backslash, Backslash>>
  ELSE IF u \in Byte THEN <<Backslash, LetterX>> \o Hex(-u - 1, 1)
  ELSE IF ~IsControl(u) THEN <<u>>
  ELSE IF u > LastOfBMP THEN <<Backslash, CapitalU>> \o Hex(u, 4)
  ELSE <<Backslash, LetterU>> \o Hex(u, 2)

Each(text, Unit(_)) == FlattenSeq([i \in 1..Len(text) |-> Unit(text[i])])
Printable(text) == Each(text, PrintableUnit)

\* encoding/json: the text of a string, whose quotes play no part.
MarshalUnit(u) ==
  CASE u = Backslash -> <<Backslash, Backslash>>
    [] u = Newline -> <<Backslash, LetterN>>
    [] u = Escape -> <<Backslash, LetterU>> \o Hex(Escape, 2)
    [] u \in Byte -> <<Backslash, LetterU>> \o Hex(RuneError, 2)
    [] OTHER -> <<u>>
Marshal(text) == Each(text, MarshalUnit)

EncodeRune(r) == <<HighHalf, 14 + (r - 16)>>

\* Slip: as many digits as the rune takes.
WriteJSONEscapeLong(r) ==
  <<Backslash, LetterU>> \o IF r > LastOfBMP THEN Hex(r, 3) ELSE Hex(r, 2)

WriteJSONEscape(r) ==
  IF r > LastOfBMP
  THEN <<Backslash, LetterU>> \o Hex(EncodeRune(r)[1], 2)
         \o <<Backslash, LetterU>> \o Hex(EncodeRune(r)[2], 2)
  ELSE <<Backslash, LetterU>> \o Hex(r, 2)

DisplayUnit(r) == IF IsControl(r) THEN WriteJSONEscape(r) ELSE <<r>>
EscapeDisplay(raw) == Each(raw, DisplayUnit)
----------------------------------------------------------------------------------
\* The number a run of digits spells.
Spelled(digits) ==
  LET upto[i \in 0..Len(digits)] == IF i = 0 THEN 0 ELSE 4 * upto[i - 1] + digits[i]
  IN upto[Len(digits)]

\* A reader of printed text, which knows the escapes and nothing of how they came
\* about.
ReadPrinted(out) ==
  LET from[i \in 1..(Len(out) + 6)] ==
        LET Escaped(width) == Spelled(SubSeq(out, i + 2, i + 1 + width))
        IN IF i > Len(out) THEN <<>>
           ELSE IF out[i] # Backslash THEN <<out[i]>> \o from[i + 1]
           ELSE CASE out[i + 1] = Backslash -> <<Backslash>> \o from[i + 2]
                  [] out[i + 1] = LetterX -> <<-Escaped(1) - 1>> \o from[i + 3]
                  [] out[i + 1] = LetterU -> <<Escaped(2)>> \o from[i + 4]
                  [] out[i + 1] = CapitalU -> <<Escaped(4)>> \o from[i + 6]
                  [] OTHER -> <<RuneError>> \o from[i + 2]
  IN from[1]

\* A JSON decoder's string: \u escapes are code units, and two that pair are a rune.
Unmarshal(raw) ==
  LET Quad(i) == IF /\ i + 3 <= Len(raw) /\ raw[i] = Backslash /\ raw[i + 1] = LetterU
                    /\ raw[i + 2] \in Digit /\ raw[i + 3] \in Digit
                 THEN Spelled(SubSeq(raw, i + 2, i + 3)) ELSE -1
      from[i \in 1..(Len(raw) + 8)] ==
        IF i > Len(raw) THEN <<>>
        ELSE IF raw[i] # Backslash THEN <<raw[i]>> \o from[i + 1]
        ELSE IF raw[i + 1] = LetterN THEN <<Newline>> \o from[i + 2]
        ELSE IF Quad(i) = -1 THEN <<raw[i + 1]>> \o from[i + 2]
        ELSE IF Quad(i) = HighHalf /\ Quad(i + 4) \in LowHalf
        THEN <<16 + (Quad(i + 4) - 14)>> \o from[i + 8]
        ELSE IF Quad(i) = HighHalf \/ Quad(i) \in LowHalf THEN <<RuneError>> \o from[i + 4]
        ELSE <<Quad(i)>> \o from[i + 4]
  IN from[1]
==================================================================================

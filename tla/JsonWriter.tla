----------------------------- MODULE JsonWriter -----------------------------
(***************************************************************************)
(* The writer of JSON (include/ebus/detail/json_writer.hpp and             *)
(* src/ebus/utils/json_writer.cpp): calls append pieces of text to a small *)
(* buffer that is flushed to a visitor.  A writer is a record:             *)
(*   out, buf      what the visitor was given, and the buffer              *)
(*   first         first_: no comma before the next value or key           *)
(*   after_key     after_key_: a key waits for its value                   *)
(*   pretty, level pretty_, indent_level_                                  *)
(* The text of a number (to_chars, formatFloat) is given.                  *)
(***************************************************************************)
EXTENDS JsonReader

CONSTANT WriterBuffer    \* writer_buffer_size

ASSUME WriterAssumption == WriterBuffer \in Nat \ {0}

NewWriter(pretty) ==
  [out |-> << >>, buf |-> << >>, first |-> TRUE, after_key |-> FALSE,
   pretty |-> pretty, level |-> 0]

-----------------------------------------------------------------------------
FlushBuffer(w) == [w EXCEPT !.out = @ \o w.buf, !.buf = << >>]

\* A piece that does not fit empties the buffer, and passes it by if it is
\* larger than the buffer.
Write(w, s) ==
  IF Len(w.buf) + Len(s) <= WriterBuffer THEN [w EXCEPT !.buf = @ \o s]
  ELSE LET e == FlushBuffer(w)
       IN  IF Len(s) > WriterBuffer THEN [e EXCEPT !.out = @ \o s]
           ELSE [e EXCEPT !.buf = s]

\* A comma is written in front of everything but the first of a container.
Separate(w) == IF w.first THEN w ELSE Write(w, << "," >>)

IndentSpaces == 2

\* writeIndent writes the characters one by one.
WriteIndent(w) ==
  LET f[i \in 0..(w.level * IndentSpaces)] ==
        IF i = 0 THEN Write(w, << Newline >>) ELSE Write(f[i - 1], << " " >>)
  IN  IF w.pretty THEN f[w.level * IndentSpaces] ELSE w

BeforeValue(w) ==
  LET s == Separate(w)
      i == IF ~w.after_key /\ w.level > 0 THEN WriteIndent(s) ELSE s
  IN  [i EXCEPT !.after_key = FALSE]

AfterValue(w) == [w EXCEPT !.first = FALSE, !.after_key = FALSE]

-----------------------------------------------------------------------------
(* startObject, startArray, endObject, endArray.                           *)

StartContainer(w, bracket) ==
  [Write(BeforeValue(w), << bracket >>) EXCEPT
     !.level = IF w.pretty THEN @ + 1 ELSE @, !.first = TRUE]

EndContainer(w, bracket) ==
  LET i == IF w.pretty THEN WriteIndent([w EXCEPT !.level = @ - 1]) ELSE w
  IN  AfterValue(FlushBuffer(Write(i, << bracket >>)))

AppendKey(w, key) ==
  LET k == Write(Write(Write(WriteIndent(Separate(w)), << Quote >>), key),
                 << Quote, ":" >>)
  IN  [(IF w.pretty THEN Write(k, << " " >>) ELSE k) EXCEPT
         !.first = TRUE, !.after_key = TRUE]

-----------------------------------------------------------------------------
\* writeEscapedJson: the characters that have an escape, and the others
\* below 0x20, of which Control stands for 0x01.
EscapeOf(c) ==
  CASE c \in {Quote, Back} -> << Back, c >>
    [] c = Newline         -> << Back, "n" >>
    [] c = Control         -> << Back, "u", "0", "0", "0", "1" >>
    [] OTHER               -> << >>

\* The run of plain characters from start to before i is one piece, and the
\* escape after it another.
WriteEscaped(w, s) ==
  LET f[i \in 0..Len(s)] ==
        IF i = 0 THEN [w |-> w, start |-> 1]
        ELSE LET p   == f[i - 1]
                 run == SubSeq(s, p.start, i - 1)
                 esc == EscapeOf(s[i])
             IN  IF esc = << >> THEN p
                 ELSE [w |-> Write(IF run = << >> THEN p.w
                                   ELSE Write(p.w, run), esc),
                       start |-> i + 1]
      end == f[Len(s)]
  IN  IF end.start > Len(s) THEN end.w
      ELSE Write(end.w, SubSeq(s, end.start, Len(s)))

WriteQuoted(w, s) ==
  Write(WriteEscaped(Write(w, << Quote >>), s), << Quote >>)

\* A scalar: a string by its characters, anything else by its text.
WriteScalar(w, token, text) ==
  IF token = "string" THEN WriteQuoted(w, text) ELSE Write(w, text)

\* writeValue and writeField of a scalar.
WriteValue(w, token, text) ==
  AfterValue(WriteScalar(BeforeValue(w), token, text))

WriteField(w, key, token, text) ==
  AfterValue(WriteScalar(AppendKey(w, key), token, text))

\* Up to where writeValue and writeField call toJson of an object.
BeforeObject(w)           == FlushBuffer([BeforeValue(w) EXCEPT !.first = TRUE])
BeforeObjectField(w, key) == FlushBuffer(AppendKey(w, key))
=============================================================================

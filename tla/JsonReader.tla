----------------------------- MODULE JsonReader -----------------------------
(***************************************************************************)
(* The pull parser for JSON (src/ebus/utils/json_reader.cpp), which reads  *)
(* a whole text or a stream of chunks through a buffer of fixed size.  A   *)
(* text is a sequence of characters; Quote and Back are the two that       *)
(* matter inside strings, Control is one of the characters below 0x20.     *)
(*                                                                         *)
(* A reader is a record of the source's fields:                            *)
(*   json, pos     the text in the buffer and the place in it (from 0)     *)
(*   rest          what the memory of the buffer holds behind the text     *)
(*   tok, raw      the token or the fragment the last call returned        *)
(*   value         value_                                                  *)
(*   need, ended   need_more_data_, ended_                                 *)
(*   cap           size of the fixed buffer, 0 for a whole text            *)
(*   inraw, start  rawvalue_in_progress_, rawvalue_start_                  *)
(*   instr, depth  where skipToClosing was interrupted                     *)
(* value and raw are views, a place and a length: what they show is what   *)
(* the memory holds there now.  buffer_pos_ is always 0.                   *)
(***************************************************************************)
EXTENDS Naturals, SequencesExt

Quote   == "'"
Back    == "/"
Newline == "~"
Control == "^"

White     == {" ", Newline}
Digits    == {"0", "1"}
NumberChs == Digits \cup {".", "e", "E", "+", "-"}

Brackets ==
  [c \in {"{", "}", "[", "]"} |->
     CASE c = "{" -> "object_start" [] c = "}" -> "object_end"
       [] c = "[" -> "array_start"  [] c = "]" -> "array_end"]

Containers == {"object_start", "array_start"}

Keywords ==
  [c \in {"t", "f", "n"} |->
     CASE c = "t" -> << "t", "r", "u", "e" >>
       [] c = "f" -> << "f", "a", "l", "s", "e" >>
       [] c = "n" -> << "n", "u", "l", "l" >>]

View(a, b) == [at |-> a, len |-> b - a]     \* of the characters a .. b-1

NoView == View(0, 0)

Unwritten == "?"

Reader(json, cap, ended) ==
  [json |-> json, rest |-> [i \in 1..cap |-> Unwritten], pos |-> 0,
   tok |-> "none", raw |-> NoView, value |-> NoView, need |-> FALSE,
   ended |-> ended, cap |-> cap, inraw |-> FALSE, start |-> 0,
   instr |-> FALSE, depth |-> 1]

Stream(cap) == Reader(<< >>, cap, FALSE)

-----------------------------------------------------------------------------
AtEnd(r)   == r.pos >= Len(r.json)
Cur(r)     == r.json[r.pos + 1]

\* What a view shows.
Memory(r)  == r.json \o r.rest
Show(r, v) == SubSeq(Memory(r), v.at + 1, v.at + v.len)

\* The first place from p on whose character is not in chs, or the end.
FirstNot(json, p, chs) ==
  LET outside == {i \in p..Len(json) : i = Len(json) \/ json[i + 1] \notin chs}
  IN  IF outside = {} THEN Len(json) ELSE Min(outside)

SkipWhitespace(r) == [r EXCEPT !.pos = FirstNot(r.json, @, White)]

WholeText(json) == SkipWhitespace(Reader(json, 0, TRUE))

Token(r, tok) == [r EXCEPT !.tok = tok]

\* The text ends inside a token: wait for more of it, or give up.
Incomplete(r, tok) ==
  IF r.ended THEN Token(r, tok)
  ELSE [Token(r, "need_more_data") EXCEPT !.need = TRUE]

(***************************************************************************)
(* readString: the place of the closing quote of a string whose text       *)
(* starts at p0, or NoPlace if the buffer ends first.  An escape \u takes  *)
(* uni characters: six, or two for validate, which does not look at it.    *)
(***************************************************************************)
NoPlace == 1000

StringEnd(json, p0, uni) ==
  LET n == Len(json)
      f[p \in p0..(n + 6)] ==
        IF p >= n THEN NoPlace
        ELSE IF json[p + 1] = Quote THEN p
        ELSE IF json[p + 1] # Back THEN f[p + 1]
        ELSE IF p + 1 >= n THEN NoPlace
        ELSE IF json[p + 2] # "u" THEN f[p + 2]
        ELSE IF p + uni > n THEN NoPlace ELSE f[p + uni]
  IN  f[p0]

\* A string is a key if a colon follows - in the buffer as it is now.
NextString(r) ==
  LET e     == StringEnd(r.json, r.pos + 1, 6)
      read  == [r EXCEPT !.value = View(r.pos + 1, e), !.pos = e + 1]
      ahead == SkipWhitespace(read)
  IN  IF e = NoPlace THEN Incomplete([r EXCEPT !.value = NoView], "error")
      ELSE IF ~AtEnd(ahead) /\ Cur(ahead) = ":" THEN Token(ahead, "key")
      ELSE Token(read, "string")

NextKeyword(r) ==
  LET word == Keywords[Cur(r)]
      e    == r.pos + Len(word)
  IN  IF e <= Len(r.json) /\ SubSeq(r.json, r.pos + 1, e) = word
      THEN Token([r EXCEPT !.value = View(r.pos, e), !.pos = e],
                 IF Head(word) = "n" THEN "null" ELSE "boolean")
      ELSE IF e > Len(r.json) THEN Incomplete(r, "error")
      ELSE Token(r, "error")

\* Plausible error: a number ends with the buffer.
NextNumberEager(r) ==
  LET e == FirstNot(r.json, r.pos + 1, NumberChs)
  IN  Token([r EXCEPT !.value = View(r.pos, e), !.pos = e], "number")

\* A number that reaches the end of the buffer may go on in the next chunk.
NextNumber(r) ==
  LET e == FirstNot(r.json, r.pos + 1, NumberChs)
  IN  IF ~r.ended /\ e >= Len(r.json) THEN Incomplete(r, "error")
      ELSE Token([r EXCEPT !.value = View(r.pos, e), !.pos = e], "number")

NextToken(r) ==
  LET c == Cur(r)
  IN  CASE c \in DOMAIN Brackets       -> Token([r EXCEPT !.pos = @ + 1],
                                                Brackets[c])
        [] c = Quote                   -> NextString(r)
        [] c \in DOMAIN Keywords       -> NextKeyword(r)
        [] c \in Digits \cup {"-"}     -> NextNumber(r)
        [] OTHER                       -> Token(r, "error")

\* One separator before the token is skipped, whichever it is.
NextTok(r) ==
  LET r0 == SkipWhitespace(r)
      r1 == IF Cur(r0) \in {":", ","}
            THEN SkipWhitespace([r0 EXCEPT !.pos = @ + 1]) ELSE r0
      r2 == [r1 EXCEPT !.need = FALSE]
  IN  IF AtEnd(r0) THEN Incomplete(r0, "end")
      ELSE IF AtEnd(r1) THEN Incomplete(r2, "error")
      ELSE NextToken(r2)

-----------------------------------------------------------------------------
(***************************************************************************)
(* skipToClosing: on to the bracket that closes the container, from where  *)
(* an earlier call was interrupted.  Brackets are counted, not matched.    *)
(***************************************************************************)
SkipToClosing(r) ==
  LET n == Len(r.json)
      f[p \in 0..(n + 1), d \in 0..(n + r.depth), s \in BOOLEAN] ==
        IF d = 0 \/ p >= n THEN << p, d, s >>
        ELSE LET c == r.json[p + 1]
             IN  IF s /\ c = Back
                 THEN IF p + 1 >= n THEN << p, d, s >> ELSE f[p + 2, d, s]
                 ELSE IF c = Quote THEN f[p + 1, d, ~s]
                 ELSE IF ~s /\ c \in {"{", "["} THEN f[p + 1, d + 1, s]
                 ELSE IF ~s /\ c \in {"}", "]"} THEN f[p + 1, d - 1, s]
                 ELSE f[p + 1, d, s]
      stop == f[r.pos, r.depth, r.instr]
      open == stop[1] < n /\ stop[2] > 0        \* in front of a lone Back
  IN  IF open /\ r.ended THEN [r EXCEPT !.pos = n]
      ELSE IF stop[2] > 0
      THEN [r EXCEPT !.pos = stop[1], !.need = TRUE,
                     !.instr = stop[3], !.depth = stop[2]]
      ELSE [r EXCEPT !.pos = stop[1], !.need = FALSE,
                     !.instr = FALSE, !.depth = 1]

SkipComposite(r) == IF r.tok \in Containers THEN SkipToClosing(r) ELSE r

\* Plausible error: a container is skipped by its first token.
SkipValueFlat(r) == NextTok(r)

SkipValue(r) == SkipComposite(NextTok(r))

\* rawValue; the fragment is in raw, and tok is "raw" when it is complete.
RawDone(r, a) == [r EXCEPT !.tok = "raw", !.raw = View(a, r.pos)]

RawResumed(r) ==
  LET r1 == SkipToClosing(r)
  IN  IF r1.need THEN Token(r1, "need_more_data")
      ELSE RawDone([r1 EXCEPT !.inraw = FALSE], r1.start)

RawValue(r) ==
  LET r0 == SkipWhitespace(r)
      r1 == IF ~AtEnd(r0) /\ Cur(r0) \in {":", ","}
            THEN SkipWhitespace([r0 EXCEPT !.pos = @ + 1]) ELSE r0
      r2 == NextTok(r1)
      r3 == SkipComposite(r2)
  IN  IF r.inraw THEN RawResumed(r)
      ELSE IF r2.tok \in {"need_more_data", "end", "error"} THEN r2
      ELSE IF r2.tok \in Containers /\ r3.need
      THEN [Token(r3, "need_more_data") EXCEPT !.start = r1.pos,
                                               !.inraw = TRUE]
      ELSE RawDone(r3, r1.pos)

-----------------------------------------------------------------------------
(***************************************************************************)
(* feed with a fixed buffer: what was consumed is discarded when the chunk *)
(* does not fit, and the chunk is refused (need is set) when it still does *)
(* not.  The memory is moved and written under value_, which stays where   *)
(* it is and may show something else from then on.                         *)
(***************************************************************************)
Discard(r) ==
  LET to     == IF r.inraw /\ r.start < r.pos THEN r.start ELSE r.pos
      unread == SubSeq(r.json, to + 1, Len(r.json))
  IN  [r EXCEPT !.json = unread,
                !.rest = SubSeq(Memory(r), Len(unread) + 1, r.cap),
                !.pos = @ - to,
                !.start = IF r.inraw THEN @ - to ELSE @]

Feed(r, chunk) ==
  LET fits == Len(chunk) <= Len(r.rest)
      room == IF fits THEN r ELSE Discard(r)
  IN  IF Len(chunk) > Len(room.rest) THEN [room EXCEPT !.need = TRUE]
      ELSE [room EXCEPT !.json = @ \o chunk,
                        !.rest = SubSeq(@, Len(chunk) + 1, Len(@)),
                        !.need = FALSE]

EndOfInput(r) == [r EXCEPT !.ended = TRUE, !.need = r.inraw]

\* reset keeps ended_.
ResetReader(r) ==
  IF r.cap > 0
  THEN [Reader(<< >>, r.cap, r.ended) EXCEPT !.rest = Memory(r)]
  ELSE SkipWhitespace(Reader(r.json, 0, r.ended))

-----------------------------------------------------------------------------
(* findKey and get, over a whole text.                                     *)

RECURSIVE FindKey(_, _, _)
FindKey(r, key, depth) ==
  LET r1 == NextTok(r)
  IN  CASE r1.tok \in {"end", "error", "need_more_data"} -> Token(r1, "error")
        [] r1.tok \in Containers -> FindKey(r1, key, depth + 1)
        [] r1.tok \in {"object_end", "array_end"} ->
             IF depth = 0 THEN Token(r1, "error")
             ELSE FindKey(r1, key, depth - 1)
        [] r1.tok = "key" /\ depth = 0 /\ Show(r1, r1.value) = key -> r1
        [] OTHER -> FindKey(r1, key, depth)

RECURSIVE SkipValues(_, _)
SkipValues(r, n) == IF n = 0 THEN r ELSE SkipValues(SkipValue(r), n - 1)

\* A segment of a path: a key, or the index of an element.
Key(k)   == [key |-> k]
Index(i) == [index |-> i]
IsKey(seg) == "key" \in DOMAIN seg

\* Where a segment leads inside a container.  Keys that are numbers are left
\* out; an array takes nothing else.
Descend(r, container, seg) ==
  IF IsKey(seg) # (container = "object_start") THEN Token(r, "error")
  ELSE IF IsKey(seg) THEN FindKey(r, seg.key, 0)
  ELSE Token(SkipValues(r, seg.index), "none")

\* The value a path leads to from inside a container.
RECURSIVE GetFrom(_, _, _)
GetFrom(r, container, path) ==
  LET found == Descend(r, container, path[1])
      r1    == NextTok(found)
  IN  IF found.tok = "error" THEN found
      ELSE IF \/ r1.tok = "need_more_data"
              \/ /\ container = "array_start"
                 /\ r1.tok \in {"array_end", "end", "error"}
      THEN Token(r1, "error")
      ELSE IF Len(path) = 1 THEN r1
      ELSE IF r1.tok \in Containers THEN GetFrom(r1, r1.tok, Tail(path))
      ELSE Token(r1, "error")

Get(r, path) ==
  LET r1 == NextTok(ResetReader(r))
  IN  IF r1.tok \in Containers THEN GetFrom(r1, r1.tok, path)
      ELSE Token(r1, "error")

-----------------------------------------------------------------------------
(***************************************************************************)
(* validate: a walk with the state of the grammar and the stack of open    *)
(* containers.  maxdepth is max_recursion_depth.                           *)
(***************************************************************************)
ScalarEnd(json, p) ==
  LET c == json[p + 1]
  IN  IF c = Quote
      THEN LET e == StringEnd(json, p + 1, 2) IN IF e = NoPlace THEN e ELSE e + 1
      ELSE IF c \in DOMAIN Keywords
      THEN LET e == p + Len(Keywords[c])
           IN  IF SubSeq(json, p + 1, e) = Keywords[c] THEN e ELSE NoPlace
      ELSE IF c \in Digits \cup {"-"} THEN FirstNot(json, p + 1, NumberChs)
      ELSE NoPlace

Closes(top, c) == << top, c >> \in {<< "{", "}" >>, << "[", "]" >>}

RECURSIVE ValidateFrom(_, _, _, _, _)
ValidateFrom(json, p0, state, stack, maxdepth) ==
  LET n     == Len(json)
      p     == FirstNot(json, p0, White)
      c     == json[p + 1]
      q     == FirstNot(json, p + 1, White)
      top   == IF stack = << >> THEN "none" ELSE Head(stack)
      go(at, st, sk) == ValidateFrom(json, at, st, sk, maxdepth)
      close == /\ Closes(top, c)
               /\ go(p + 1, "comma_or_end", Tail(stack))
      open  == /\ Len(stack) < maxdepth
               /\ go(p + 1,
                     IF q < n /\ json[q + 1] = (IF c = "{" THEN "}" ELSE "]")
                     THEN "comma_or_end"
                     ELSE IF c = "{" THEN "key_or_end" ELSE "value",
                     << c >> \o stack)
      e     == ScalarEnd(json, p)
  IN  IF p >= n THEN stack = << >> /\ state = "comma_or_end"
      ELSE CASE state = "value" ->
                  IF c \in {"{", "["} THEN open
                  ELSE e # NoPlace /\ go(e, "comma_or_end", stack)
             [] state = "key_or_end" ->
                  IF c = "}" THEN close
                  ELSE c = Quote /\ e # NoPlace /\ go(e, "colon", stack)
             [] state = "colon" -> c = ":" /\ go(p + 1, "value", stack)
             [] state = "comma_or_end" ->
                  IF c # "," THEN close
                  ELSE /\ q < n
                       /\ json[q + 1] \notin {"}", "]"}
                       /\ go(q, IF top = "{" THEN "key_or_end" ELSE "value",
                             stack)

Validate(json, maxdepth) ==
  /\ FirstNot(json, 0, White) < Len(json)
  /\ ValidateFrom(json, 0, "value", << >>, maxdepth)
=============================================================================

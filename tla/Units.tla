------------------------------- MODULE Units --------------------------------
(***************************************************************************)
(* All parts of the library that keep to themselves: those of PlainUnits   *)
(* and the JSON reader and writer.  unit never changes, so a behaviour of  *)
(* one of the plain units is one of PlainSpec.                             *)
(***************************************************************************)
EXTENDS PlainUnits, JsonWriter

CONSTANTS
  Trees,        \* JSON documents
  MaxChunk, BufferSizes,
  Lexemes, MaxLexemes, MaxDepth,
  Paths

-----------------------------------------------------------------------------
(* A JSON document as a tree: a scalar is its token and its characters, an *)
(* array the sequence of its elements, an object the sequence of pairs of  *)
(* a key and a value.                                                      *)

Scalar(token, text) == [k |-> token, text |-> text]
Array(elements)     == [k |-> "array_start", of |-> elements]
Object(fields)      == [k |-> "object_start", of |-> fields]

(***************************************************************************)
(* The writer is given a tree the way the library's toJson methods do it:  *)
(* scalars by writeValue and writeField, an array in an object by a scope  *)
(* with a key, and everything else that is nested by writeValue or         *)
(* writeField, which call toJson.                                          *)
(***************************************************************************)
RECURSIVE WriteTree(_, _)
RECURSIVE WriteEntries(_, _, _)

WriteTree(w, tree) ==
  IF tree.k = "array_start"
  THEN EndContainer(WriteEntries(StartContainer(w, "["), tree, 1), "]")
  ELSE IF tree.k = "object_start"
  THEN EndContainer(WriteEntries(StartContainer(w, "{"), tree, 1), "}")
  ELSE WriteValue(w, tree.k, tree.text)

WriteEntries(w, tree, i) ==
  IF i > Len(tree.of) THEN w
  ELSE LET e     == tree.of[i]
           value == IF tree.k = "object_start" THEN e[2] ELSE e
       IN  WriteEntries(
             CASE tree.k = "array_start" /\ value.k \notin Containers ->
                    WriteTree(w, value)
               [] tree.k = "array_start" /\ value.k \in Containers ->
                    AfterValue(WriteTree(BeforeObject(w), value))
               [] tree.k = "object_start" /\ value.k \notin Containers ->
                    WriteField(w, e[1], value.k, value.text)
               [] tree.k = "object_start" /\ value.k = "array_start" ->
                    WriteTree(AppendKey(w, e[1]), value)
               [] OTHER ->
                    AfterValue(WriteTree(BeforeObjectField(w, e[1]), value)),
             tree, i + 1)

\* What the visitor has got when the writer is destroyed.
Written(tree, pretty) == FlushBuffer(WriteTree(NewWriter(pretty), tree)).out

-----------------------------------------------------------------------------
NewDocument(tree, cap) ==
  LET doc == Written(tree, TRUE)
  IN  [doc |-> doc, fed |-> 0, r |-> Stream(cap), whole |-> WholeText(doc),
       kept |-> TRUE, border |-> FALSE]

Init ==
  \/ PlainInit
  \/ unit = "stream" /\ x \in {NewDocument(t, c) : t \in Trees,
                                                   c \in BufferSizes}
  \/ unit = "path" /\ x \in [tree : Trees, pretty : BOOLEAN]
  \/ unit = "validate" /\ x = << >>

-----------------------------------------------------------------------------
(* Inputs that grow.                                                       *)

MoreText ==
  /\ Of("validate")
  /\ Len(x) < MaxLexemes
  /\ \E l \in Lexemes : x' = Append(x, l)

-----------------------------------------------------------------------------
(***************************************************************************)
(* The stream: r is fed the document in chunks, whole has all of it.       *)
(* Whatever r answers for good, whole is asked too.  border says that when *)
(* r answered there was nothing but white space behind the token in the    *)
(* buffer, and more of the text to come; kept that nothing has been        *)
(* discarded from the buffer since.                                        *)
(***************************************************************************)
FeedChunk ==
  /\ Of("stream")
  /\ \E k \in 1..MaxChunk :
       /\ x.fed + k <= Len(x.doc)
       /\ LET r1 == Feed(x.r, SubSeq(x.doc, x.fed + 1, x.fed + k))
          IN  x' = [x EXCEPT !.r = r1, !.fed = IF r1.need THEN @ ELSE @ + k,
                             !.kept = @ /\ IsPrefix(x.r.json, r1.json)]

EndInput ==
  /\ Of("stream")
  /\ x.fed = Len(x.doc) /\ ~x.r.ended
  /\ x' = [x EXCEPT !.r = EndOfInput(@)]

Answered(r1, whole1) ==
  x' = [x EXCEPT !.r = r1,
                 !.whole = IF r1.tok = "need_more_data" THEN @ ELSE whole1,
                 !.kept = TRUE,
                 !.border = ~r1.ended /\ AtEnd(SkipWhitespace(r1))]

ReadToken ==
  /\ Of("stream")
  /\ ~x.r.inraw /\ x.r.tok \notin {"end", "error"}
  /\ Answered(NextTok(x.r), NextTok(x.whole))

\* rawValue reads the value of a key.
ReadRaw ==
  /\ Of("stream")
  /\ x.whole.tok = "key"
  /\ Answered(RawValue(x.r), RawValue(x.whole))

-----------------------------------------------------------------------------
Next ==
  \/ PlainNext
  \/ MoreText
  \/ FeedChunk \/ EndInput \/ ReadToken \/ ReadRaw

Spec == Init /\ [][Next]_vars

-----------------------------------------------------------------------------
\* The tokens that have a value of their own.
Scalars == {"key", "string", "number", "boolean", "null"}

\* However the text is cut into chunks and however often the buffer is
\* compacted (json_reader.cpp), the reader returns the tokens it would have
\* returned for the whole text - but for a key whose colon is not in the
\* buffer yet, which it returns as a string (json_reader.cpp:77-86), so that
\* findKey and forEachField pass it over.  value() shows the characters of
\* the token, and the view rawValue returned those of the value, from the
\* answer until feed discards what was read; from then on they may show
\* anything (json_reader.cpp:448).
ChunkingInvisible ==
  unit = "stream" /\ x.r.tok # "need_more_data" =>
    /\ x.r.tok = IF x.whole.tok = "key" /\ x.border THEN "string" ELSE x.whole.tok
    /\ x.kept /\ x.r.tok \in Scalars =>
         Show(x.r, x.r.value) = Show(x.whole, x.whole.value)
    /\ x.kept /\ x.r.tok = "raw" =>
         Show(x.r, x.r.raw) = Show(x.whole, x.whole.raw)

\* The token of the value a path leads to in a tree, "error" if none.
RECURSIVE Lookup(_, _)
Lookup(tree, path) ==
  IF path = << >> THEN tree.k
  ELSE IF tree.k = "array_start"
  THEN IF ~IsKey(path[1]) /\ path[1].index < Len(tree.of)
       THEN Lookup(tree.of[path[1].index + 1], Tail(path)) ELSE "error"
  ELSE IF tree.k = "object_start"
  THEN LET hits == SelectSeq(tree.of, LAMBDA f : Key(f[1]) = path[1])
       IN  IF hits = << >> THEN "error" ELSE Lookup(hits[1][2], Tail(path))
  ELSE "error"

\* The path asks no array for an element it does not have.
RECURSIVE InBounds(_, _)
InBounds(tree, path) ==
  \/ path = << >>
  \/ /\ tree.k = "array_start"
     /\ ~IsKey(path[1]) =>
          /\ path[1].index < Len(tree.of)
          /\ InBounds(tree.of[path[1].index + 1], Tail(path))
  \/ /\ tree.k = "object_start"
     /\ \A i \in DOMAIN tree.of :
          Key(tree.of[i][1]) = path[1] => InBounds(tree.of[i][2], Tail(path))
  \/ tree.k \notin Containers

\* What the writer has written of a tree (json_writer.hpp), pretty or not,
\* validates, and get finds in it the value a path leads to through the
\* nested containers, or reports an error if a key is missing.  Paths with
\* an index past the end of an array are left out: skipValue walks over the
\* end of the array (json_reader.cpp:388) and get returns a token of what
\* follows, where json_reader.hpp:165 has "Token::Error if not found".
GetFinds ==
  unit = "path" =>
    LET text == Written(x.tree, x.pretty)
    IN  /\ Validate(text, MaxDepth)
        /\ \A path \in Paths :
             InBounds(x.tree, path) =>
               Get(WholeText(text), path).tok = Lookup(x.tree, path)

-----------------------------------------------------------------------------
(* The grammar of JSON over lexemes.                                       *)

RECURSIVE IsValue(_)
RECURSIVE IsList(_, _)

IsValue(s) ==
  \/ Len(s) = 1 /\ s[1] \notin {<< c >> : c \in {"{", "}", "[", "]", ",", ":"}}
  \/ /\ Len(s) >= 2
     /\ \E b \in {"{", "["} :
          /\ s[1] = << b >>
          /\ s[Len(s)] = << IF b = "{" THEN "}" ELSE "]" >>
          /\ \/ Len(s) = 2
             \/ IsList(SubSeq(s, 2, Len(s) - 1), b = "{")

IsField(s, keyed) ==
  IF ~keyed THEN IsValue(s)
  ELSE /\ Len(s) >= 3
       /\ s[1][1] = Quote /\ s[2] = << ":" >>
       /\ IsValue(SubSeq(s, 3, Len(s)))

IsList(s, keyed) ==
  \/ IsField(s, keyed)
  \/ \E i \in 2..(Len(s) - 1) :
       /\ s[i] = << "," >>
       /\ IsField(SubSeq(s, 1, i - 1), keyed)
       /\ IsList(SubSeq(s, i + 1, Len(s)), keyed)

\* The containers that are open at once.
Nesting(s) ==
  Max({Cardinality({i \in 1..n : s[i] \in {<< "{" >>, << "[" >>}})
         - Cardinality({i \in 1..n : s[i] \in {<< "}" >>, << "]" >>}})
         : n \in 0..Len(s)})

\* json_reader.hpp:156-158 on validate: "Performs a strict structural
\* validation of the JSON string.  Checks for correct comma placement, colon
\* usage, and balanced containers.  @return true if the JSON is strictly
\* valid."  What it accepts is JSON, and all JSON that is not nested too
\* deep is accepted.  It does not hold: a comma at the top level is accepted
\* (json_reader.cpp:318-321), so that "1 , 1" is valid.
ValidateExact ==
  unit = "validate" =>
    (Validate(FlattenSeq([i \in DOMAIN x |-> x[i] \o << " " >>]), MaxDepth)
       <=> x # << >> /\ IsValue(x) /\ Nesting(x) <= MaxDepth)
=============================================================================

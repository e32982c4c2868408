------------------------------- MODULE MCUnits -------------------------------
EXTENDS Units

\* A part with its checksum, and one whose checksum is wrong.
WithCrc(s)  == Extend(Reduced(Append(s, CalculateCRC(s, FALSE)))).s
WrongCrc(s) == Extend(Reduced(Append(s, (CalculateCRC(s, FALSE) + 1) % 256))).s

ToSlave   == << 16, 8, 7, 4, 1, Syn >>
ToMaster  == << 16, 3, 7, 4, 0 >>
ToAll     == << 16, Broad, 7, 4, 0 >>
FromSlave == << 1, Ext >>

MCParts == {WithCrc(s) : s \in {ToSlave, ToMaster, ToAll, FromSlave}}
             \cup {WrongCrc(s) : s \in {ToSlave, FromSlave}}

MCStuff       == {0, 1, 2, Syn, Ext}
MCDataBytes   == {0, 1, 9, 10, 127, 128, 153, 154, 255}
MCWholeValues == {-32769, -32768, -129, -128, -2, -1, 0, 1, 99, 100, 127, 128,
                  254, 255, 256, 32767, 65535, 65536}
MCResponses   == {<< Response.received, 5 >>, << Response.received, 200 >>,
                  << Response.started, 16 >>}

Num  == Scalar("number", << "1", "0" >>)
True == Scalar("boolean", Keywords["t"])
Nul  == Scalar("null", Keywords["n"])
Esc  == Scalar("string", << "x", Back, Quote >>)
Brk  == Scalar("string", << Control, "}", Newline >>)

KeyA == << "a" >>
KeyB == << "b" >>

MCTrees ==
  {Object(<< << KeyA, Num >>, << KeyB, Esc >> >>),
   Object(<< << KeyA, Array(<< Num, Brk >>) >>, << KeyB, True >> >>),
   Object(<< << KeyB, Object(<< << KeyA, Nul >> >>) >>, << KeyA, Num >> >>),
   Array(<< Array(<< >>), Object(<< << KeyA, Num >> >>), Num >>)}

MCPaths ==
  UNION {[1..n -> {Key(KeyA), Key(KeyB), Index(0), Index(1), Index(2)}]
           : n \in 1..2}

MCLexemes == {<< c >> : c \in {"{", "}", "[", "]", ",", ":", "1"}}
               \cup {<< Quote, "a", Quote >>}

\* Two nodes of the same driver, and one of each.
MCGenerators ==
  {<< NewGenerator(a, 0), NewGenerator(b, 1) >> : a, b \in BOOLEAN}
==============================================================================

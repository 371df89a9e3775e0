-------------------------------- MODULE Wire --------------------------------
(***************************************************************************)
(* Protocol-buffer bytes as the generated codec sees them through the      *)
(* buffa runtime: a message is a sequence of tokens, each with its width,  *)
(* so that a length prefix that is off by one reads the wrong tokens.      *)
(*                                                                         *)
(* Integers are scaled: a 64-bit one has 3 bits and a 32-bit one has 2,    *)
(* and a varint carries one bit per byte.  A negative int32 is extended to *)
(* 64 bits on the wire, as protobuf does.                                  *)
(***************************************************************************)
EXTENDS Integers, Sequences, SequencesExt

Two32 == 4
Two64 == 8

Numbers == {"uint64", "uint32", "int32", "bool"}
Scalars == Numbers \cup {"string"}

Texts == {"", "s", "long", "bad"}       \* "bad" is not UTF-8
TextLen == [t \in Texts |-> CASE t = "" -> 0 [] t = "s" -> 1 [] t = "long" -> 2 [] t = "bad" -> 1]

\* The values a field of a scalar type holds in memory, and its default.
ScalarValues(type) ==
    CASE type = "uint64" -> 0 .. Two64 - 1
      [] type = "uint32" -> 0 .. Two32 - 1
      [] type = "int32"  -> (-Two32 \div 2) .. Two32 \div 2 - 1
      [] type = "bool"   -> BOOLEAN
      [] type = "string" -> Texts \ {"bad"}
IsDefault(type, v) ==
    CASE type = "string" -> v = ""
      [] type = "bool"   -> ~v
      [] OTHER           -> v = 0

VarintLen(w) == CHOOSE n \in 1 .. 10 : w < 2^n /\ (n = 1 \/ w >= 2^(n - 1))
TagLen(number) == IF number < 16 THEN 1 ELSE 2

Tag(number, wireType) == <<"tag", <<number, wireType>>, TagLen(number)>>
Varint(w) == <<"varint", w, VarintLen(w)>>
Text(t) == <<"text", t, TextLen[t]>>

RECURSIVE Width(_)
Width(tokens) == IF tokens = << >> THEN 0 ELSE Head(tokens)[3] + Width(Tail(tokens))

\* What a number is on the wire, and what a reader of each type makes of it.
ToWire(type, v) ==
    CASE type = "int32" -> v % Two64
      [] type = "bool"  -> IF v THEN 1 ELSE 0
      [] OTHER          -> v
FromWire(type, w) ==
    CASE type = "uint64" -> w
      [] type = "uint32" -> w % Two32
      [] type = "int32"  -> LET u == w % Two32 IN IF 2 * u >= Two32 THEN u - Two32 ELSE u
      [] type = "bool"   -> w # 0

\* The encoded length of a scalar without its tag, and the field put_X_field writes.
EncodedLen(type, v) ==
    IF type = "string" THEN VarintLen(TextLen[v]) + TextLen[v] ELSE VarintLen(ToWire(type, v))
Delimited(number, payload) == <<Tag(number, "len"), Varint(Width(payload))>> \o payload
PutField(number, type, v) ==
    IF type = "string"
    THEN Delimited(number, IF v = "" THEN << >> ELSE <<Text(v)>>)
    ELSE <<Tag(number, "varint"), Varint(ToWire(type, v))>>

\* How many tokens make up the next n bytes after the first i tokens; -1 when
\* no token ends there.
RECURSIVE Take(_, _, _)
Take(tokens, i, n) ==
    IF n = 0 THEN i
    ELSE IF n < 0 \/ i = Len(tokens) THEN -1
    ELSE Take(tokens, i + 1, n - tokens[i + 1][3])

\* The record the tokens start with: its number, its wire type, the number or
\* the tokens it carries, and what follows it.  ok is FALSE where the reader
\* runs out of bytes or meets no tag.
NoRecord == [ok |-> FALSE, number |-> 0, wireType |-> "len", payload |-> << >>, rest |-> << >>]
NextRecord(tokens) ==
    IF Len(tokens) < 2 \/ tokens[1][1] # "tag" \/ tokens[2][1] # "varint" THEN NoRecord
    ELSE LET wireType == tokens[1][2][2]
             last == IF wireType = "varint" THEN 2 ELSE Take(tokens, 2, tokens[2][2])
         IN  IF last = -1 THEN NoRecord
             ELSE [ok       |-> TRUE,
                   number   |-> tokens[1][2][1],
                   wireType |-> wireType,
                   payload  |-> IF wireType = "varint" THEN <<tokens[2]>> ELSE SubSeq(tokens, 3, last),
                   rest     |-> SubSeq(tokens, last + 1, Len(tokens))]
=============================================================================

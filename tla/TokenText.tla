----------------------------- MODULE TokenText -----------------------------
(***************************************************************************)
(* What a token says of itself, and how store_tokens keeps it (tokens.rs): *)
(* the text and decimals decoded out of raw eth_call answers, and the      *)
(* string encoding of the stored value.                                    *)
(*                                                                         *)
(* Text is a sequence of characters; a number in it is one character, and  *)
(* the hexadecimal data of an answer is abstracted to its shape.           *)
(***************************************************************************)
EXTENDS Integers, FiniteSets, Sequences, SequencesExt

CONSTANTS
  Chars,     \* the characters, words and tags among them
  Numeral    \* the decimal text of a number, as one character

FIELD_SEP == "US"
Nul == "NUL"
Space == " "
Controls == {FIELD_SEP, Nul}

MAX_TEXT_LEN == 4      \* scaled from 128
MAX_DECIMALS == 255

ASSUME TextAssumption ==
  /\ {FIELD_SEP, Nul, Space, "unknown", "ETH", "Ethereum", "n", "s", "b", "d", "?"} \subseteq Chars
  /\ Numeral \in [0 .. MAX_DECIMALS -> Chars]
  /\ \A m, n \in 0 .. MAX_DECIMALS : Numeral[m] = Numeral[n] => m = n
  /\ \A n \in 0 .. MAX_DECIMALS : Numeral[n] # FIELD_SEP

UNKNOWN_TEXT == <<"unknown">>
NATIVE_SYMBOL == <<"ETH">>
NATIVE_NAME == <<"Ethereum">>
DEFAULT_DECIMALS == 18
NATIVE_DECIMALS == 18

-----------------------------------------------------------------------------
(* An answer of the node.  A dynamic string, a right-padded bytes32 and a  *)
(* number differ in length or place and cannot be taken for each other;    *)
(* "null" is the word 0x..01 some contracts answer instead of reverting.   *)
String(text) == [shape |-> "string", text |-> text]
Bytes32(text) == [shape |-> "bytes32", text |-> text]
Number(n) == [shape |-> "number", value |-> n]
Null == [shape |-> "null"]
Failed == [shape |-> "failed"]

(* A finite set of numbers in ascending order.                             *)
Sorted(S) ==
  [k \in 1 .. Cardinality(S) |-> CHOOSE n \in S : Cardinality({m \in S : m <= n}) = k]

(* What is left of a text when some characters are dropped (SelectSeq, in  *)
(* the form that proofs need).                                             *)
Without(s, dropped) ==
  LET kept == Sorted({i \in DOMAIN s : s[i] \notin dropped})
  IN  [k \in DOMAIN kept |-> s[kept[k]]]

TrimSpaces(s) ==
  LET solid == {i \in DOMAIN s : s[i] # Space}
  IN  IF solid = {} THEN << >> ELSE SubSeq(s, Min(solid), Max(solid))

Cut(s) == SubSeq(s, 1, IF Len(s) < MAX_TEXT_LEN THEN Len(s) ELSE MAX_TEXT_LEN)

(* Faulty: only the padding is dropped.                                    *)
sanitize_padding(raw) == TrimSpaces(Cut(Without(raw, {Nul})))

(* Control characters are dropped before the cut, spaces trimmed after it. *)
sanitize(raw) == TrimSpaces(Cut(Without(raw, Controls)))

(* Each decoder gives a set of at most one.                                *)
Readable(text) == IF text = << >> THEN {} ELSE {text}

decode_abi_string(raw) == IF raw.shape = "string" THEN Readable(sanitize(raw.text)) ELSE {}

(* Trailing zeros are padding; all zeros is no text.                       *)
decode_bytes32_string(raw) ==
  IF raw.shape # "bytes32" THEN {}
  ELSE LET ends == {i \in DOMAIN raw.text : raw.text[i] # Nul}
       IN  IF ends = {} THEN {} ELSE Readable(sanitize(SubSeq(raw.text, 1, Max(ends))))

Text(raw) == decode_abi_string(raw) \cup decode_bytes32_string(raw)

decode_text(raw) ==
  IF Text(raw) = {} THEN [text |-> UNKNOWN_TEXT, source |-> "?"]
  ELSE [text |-> CHOOSE t \in Text(raw) : TRUE,
        source |-> IF raw.shape = "string" THEN "s" ELSE "b"]

decode_decimals(raw) ==
  IF raw.shape = "number" /\ raw.value < MAX_DECIMALS THEN {raw.value} ELSE {}

-----------------------------------------------------------------------------
(* A resolved token, and its stored value.                                 *)

Token(symbol, name, decimals) ==
  [symbol |-> symbol.text, name |-> name.text,
   decimals |-> IF decimals = {} THEN DEFAULT_DECIMALS ELSE CHOOSE d \in decimals : TRUE,
   sources |-> <<symbol.source, name.source>>, measured |-> decimals # {}]

native_token ==
  Token([text |-> NATIVE_SYMBOL, source |-> "n"], [text |-> NATIVE_NAME, source |-> "n"],
        {NATIVE_DECIMALS})

encode_token_value(t) ==
  t.symbol \o <<FIELD_SEP>> \o t.name \o <<FIELD_SEP>> \o <<Numeral[t.decimals]>>
    \o <<FIELD_SEP>> \o t.sources \o <<IF t.measured THEN "d" ELSE "?">>

(* value.split(FIELD_SEP).                                                 *)
Split(value) ==
  LET ends == Sorted({i \in DOMAIN value : value[i] = FIELD_SEP} \cup {Len(value) + 1})
  IN  [k \in DOMAIN ends |->
         SubSeq(value, IF k = 1 THEN 1 ELSE ends[k - 1] + 1, ends[k] - 1)]

Numerals == [text \in {Numeral[n] : n \in DOMAIN Numeral} |->
               CHOOSE n \in DOMAIN Numeral : Numeral[n] = text]

Parse(digits) == {Numerals[digit] : digit \in ToSet(digits) \cap DOMAIN Numerals}

(* None for a value that is not four fields, rather than a guess.          *)
decode_token_value(value) ==
  LET parts == Split(value)
      wellFormed ==
        /\ Len(parts) = 4
        /\ Len(parts[3]) = 1 /\ Parse(parts[3]) # {}
        /\ Len(parts[4]) = 3
        /\ parts[4][1] \in {"n", "s", "b", "?"} /\ parts[4][2] \in {"n", "s", "b", "?"}
        /\ parts[4][3] \in {"d", "?"}
  IN  IF ~wellFormed THEN {}
      ELSE {[symbol |-> parts[1], name |-> parts[2],
             decimals |-> CHOOSE n \in Parse(parts[3]) : TRUE,
             sources |-> <<parts[4][1], parts[4][2]>>, measured |-> parts[4][3] = "d"]}
=============================================================================

---------------------------- MODULE TokensProofs ----------------------------
(***************************************************************************)
(* Proofs about the token stores, for every set of currencies and pools,   *)
(* every answer of the chain and every bound.                              *)
(***************************************************************************)
EXTENDS Tokens, Extremes, FiniteSetTheorems

-----------------------------------------------------------------------------
(* The rows of a block, and what the block says of the pools.              *)

BlockTyped == block \in Blocks

(* A pool that store_pools knows has its currencies in the token table, or *)
(* is one the block under way initialises.                                 *)
PoolsListed ==
  \A p \in store_pools :
    \/ \A side \in Sides : Currency(p, side) \in DOMAIN token
    \/ stage # "idle" /\ \E i \in RowsOf({"Initialize"}) : block[i].pool = p

(* db_out finds the Initialize rows resolved.                              *)
InitsResolved ==
  stage = "db_out" => \A i \in RowsOf({"Initialize"}) : enriched[i].resolved

(* The ordinals are those of the block's writes.                           *)
OrdinalsExact ==
  \A c \in DOMAIN ordinals : c \in Mentioned /\ ordinals[c] = Ordinal(c)

TokensInv ==
  /\ BlockTyped /\ store_pools \subseteq Pools
  /\ PoolsListed /\ InitsResolved /\ OrdinalsExact

LEMMA InitTokens == Init => TokensInv
<1> SUFFICES ASSUME Init PROVE TokensInv
  OBVIOUS
<1>1. MaxRows \in Nat
  BY TokensAssumption
<1>2. <<>> \in [1 .. 0 -> Row] /\ 0 \in 0 .. MaxRows
  BY <1>1
<1>3. BlockTyped
  BY <1>2 DEF Init, BlockTyped, Blocks
<1> QED
  BY <1>3 DEF Init, TokensInv, PoolsListed, InitsResolved, OrdinalsExact

(* The rows of a block are numbered from one and name pools.               *)
LEMMA BlockRows ==
  ASSUME BlockTyped
  PROVE  /\ DOMAIN block \in SUBSET (Nat \ {0})
         /\ \A i \in DOMAIN block : block[i].pool \in Pools
         /\ \A K : RowsOf(K) \subseteq DOMAIN block
<1>1. PICK k \in 0 .. MaxRows : block \in [1 .. k -> Row]
  BY DEF BlockTyped, Blocks
<1>2. DOMAIN block = 1 .. k /\ \A i \in DOMAIN block : block[i] \in Row
  BY <1>1
<1> QED
  BY <1>2 DEF RowsOf, Row

LEMMA CurrencyTyped ==
  ASSUME NEW p \in Pools, NEW side \in Sides
  PROVE  Currency(p, side) \in Currencies
BY TokensAssumption DEF Currency, Sides

-----------------------------------------------------------------------------
(* The modules of a block.                                                 *)

LEMMA NewBlockTokens ==
  ASSUME TokensInv, NEW b \in Blocks, NewBlock(b)
  PROVE  TokensInv'
<1>1. /\ stage = "idle" /\ stage' = "store_tokens" /\ block' = b
      /\ ordinals' = <<>> /\ token' = token
      /\ store_pools' = store_pools
                          \cup {b[i].pool : i \in {k \in DOMAIN b : b[k].kind = "Initialize"}}
  BY DEF NewBlock
<1>2. BlockTyped' /\ InitsResolved' /\ OrdinalsExact'
  BY <1>1 DEF BlockTyped, Blocks, InitsResolved, OrdinalsExact
<1>3. \A p \in store_pools' \ store_pools : \E i \in RowsOf({"Initialize"})' : block'[i].pool = p
  BY <1>1 DEF RowsOf
<1>4. PoolsListed'
  BY <1>1, <1>3 DEF TokensInv, PoolsListed, Currency
<1>5. \A i \in DOMAIN b : b[i].pool \in Pools
  <2>1. PICK k \in 0 .. MaxRows : b \in [1 .. k -> Row]
    BY DEF Blocks
  <2> QED
    BY <2>1 DEF Row
<1>6. store_pools' \subseteq Pools
  BY <1>1, <1>5 DEF TokensInv
<1> QED
  BY <1>2, <1>4, <1>6 DEF TokensInv

LEMMA StoreTokensTokens == ASSUME TokensInv, StoreTokens PROVE TokensInv'
<1>1. /\ stage = "store_tokens" /\ stage' = "map_enriched"
      /\ ordinals' = [c \in Mentioned |-> Ordinal(c)]
      /\ UNCHANGED <<block, store_pools, token>>
  BY DEF StoreTokens
<1>2. BlockTyped' /\ InitsResolved' /\ PoolsListed'
  BY <1>1 DEF TokensInv, BlockTyped, Blocks, InitsResolved, PoolsListed, RowsOf, Currency
<1>3. OrdinalsExact'
  BY <1>1 DEF OrdinalsExact, Mentioned, Ordinal, Mentions, RowsOf, Currency
<1> QED
  BY <1>1, <1>2, <1>3 DEF TokensInv

(* An Initialize row needs no store to know its pool.                      *)
LEMMA MapEnrichedTokens == ASSUME TokensInv, MapEnriched PROVE TokensInv'
<1>1. /\ stage = "map_enriched" /\ stage' = "db_out"
      /\ enriched' = [i \in DOMAIN block |-> AttachTokens(block[i])]
      /\ UNCHANGED <<block, store_pools, ordinals, token>>
  BY DEF MapEnriched
<1>2. BlockTyped' /\ PoolsListed' /\ OrdinalsExact'
  BY <1>1 DEF TokensInv, BlockTyped, Blocks, PoolsListed, RowsOf, Currency, OrdinalsExact,
     Mentioned, Ordinal, Mentions
<1>3. \A i \in RowsOf({"Initialize"}) : enriched'[i].resolved
  BY <1>1 DEF RowsOf, AttachTokens, Resolved
<1>4. InitsResolved'
  BY <1>1, <1>3 DEF InitsResolved, RowsOf
<1> QED
  BY <1>1, <1>2, <1>4 DEF TokensInv

(* The Initialize rows of the block put both their currencies in the table.*)
LEMMA DbOutTokens == ASSUME TokensInv, DbOut PROVE TokensInv'
<1> DEFINE named == {c \in Currencies : SourceRow(c) # 0}
<1>1. /\ stage = "db_out" /\ stage' = "idle"
      /\ DOMAIN token' = DOMAIN token \cup named
      /\ UNCHANGED <<block, store_pools, ordinals, enriched>>
  BY DEF DbOut
<1>2. \A i \in RowsOf({"Initialize"}), side \in Sides : Currency(block[i].pool, side) \in named
  <2> TAKE i \in RowsOf({"Initialize"}), side \in Sides
  <2> DEFINE c == Currency(block[i].pool, side)
             inits == Naming({"Initialize"}, c)
  <2>1. c \in Currencies
    BY BlockRows, CurrencyTyped DEF TokensInv
  <2>2. i \in inits
    BY <1>1 DEF TokensInv, InitsResolved, Naming
  <2>3. inits \in SUBSET Nat /\ 0 \notin inits
    BY BlockRows DEF TokensInv, Naming
  <2> HIDE DEF c
  <2>4. SourceRow(c) = Min(inits)
    BY <2>2 DEF SourceRow
  <2> HIDE DEF inits
  <2>5. Min(inits) \in inits
    BY <2>2, <2>3, MinFacts
  <2> QED
    BY <2>1, <2>3, <2>4, <2>5 DEF c
<1> HIDE DEF named
<1>3. PoolsListed'
  BY <1>1, <1>2 DEF TokensInv, PoolsListed, Currency
<1>4. BlockTyped' /\ InitsResolved' /\ OrdinalsExact'
  BY <1>1 DEF TokensInv, BlockTyped, Blocks, InitsResolved, OrdinalsExact, Mentioned, Ordinal,
     Mentions, RowsOf, Currency
<1> QED
  BY <1>1, <1>3, <1>4 DEF TokensInv

LEMMA NextTokens == TokensInv /\ [Next]_vars => TokensInv'
<1> SUFFICES ASSUME TokensInv, [Next]_vars PROVE TokensInv'
  OBVIOUS
<1>1. CASE UNCHANGED vars
  <2>1. BlockTyped' /\ store_pools' \subseteq Pools
    BY <1>1 DEF vars, TokensInv, BlockTyped, Blocks
  <2>2. PoolsListed' /\ InitsResolved'
    BY <1>1 DEF vars, TokensInv, PoolsListed, InitsResolved, RowsOf, Currency
  <2>3. OrdinalsExact'
    BY <1>1 DEF vars, TokensInv, OrdinalsExact, Mentioned, Ordinal, Mentions, RowsOf, Currency
  <2> QED
    BY <2>1, <2>2, <2>3 DEF TokensInv
<1> QED
  BY <1>1, NewBlockTokens, StoreTokensTokens, MapEnrichedTokens, DbOutTokens DEF Next

LEMMA TokensInvariance == Spec => []TokensInv
BY InitTokens, NextTokens, PTL DEF Spec

-----------------------------------------------------------------------------
(* Between blocks the token table has a row for every currency of every    *)
(* pool the stream saw initialised, traded or not (db_out.rs:116-118).     *)
THEOREM TokensListed == Spec => []EveryTokenListed
<1>1. TokensInv => EveryTokenListed
  BY DEF TokensInv, PoolsListed, EveryTokenListed
<1> QED
  BY <1>1, TokensInvariance, PTL

-----------------------------------------------------------------------------
(* The order of the writes.  A place is twice the row's number and the     *)
(* side, so the least place of a currency is at its least row.             *)
LEMMA PlaceBounds ==
  ASSUME TokensInv, NEW c \in Mentioned
  PROVE  /\ Ordinal(c) \in Nat /\ Place(c) \in Nat
         /\ 2 * Ordinal(c) + 1 <= Place(c) /\ Place(c) <= 2 * Ordinal(c) + 2
<1> DEFINE M == Mentions(c)
           at == {n \in RowsOf({"Initialize"}) \X Sides : Currency(block[n[1]].pool, n[2]) = c}
           P == {2 * m[1] + m[2] : m \in at}
<1>1. M # {} /\ M \in SUBSET Nat
  BY BlockRows DEF TokensInv, Mentioned, Mentions
<1>2. Ordinal(c) = Min(M) /\ Place(c) = Min(P)
  BY DEF Ordinal, Place
<1>3. Min(M) \in M /\ \A y \in M : Min(M) <= y
  <2> HIDE DEF M
  <2> QED
    BY <1>1, MinFacts
<1>4. \A m \in at : m[1] \in M /\ m[1] \in Nat /\ m[2] \in {1, 2}
  BY <1>1 DEF Mentions, Sides
<1>5. \A i \in M : \E m \in at : m[1] = i
  <2> TAKE i \in M
  <2>1. PICK side \in Sides : Currency(block[i].pool, side) = c
    BY DEF Mentions
  <2>2. <<i, side>> \in at
    BY <2>1 DEF Mentions
  <2> QED
    BY <2>2
<1> HIDE DEF at, M
<1>6. P \in SUBSET Nat /\ \A q \in P : \E m \in at : q = 2 * m[1] + m[2]
  BY <1>4
<1>7. PICK m \in at : m[1] = Min(M)
  BY <1>3, <1>5
<1>8. 2 * m[1] + m[2] \in P
  OBVIOUS
<1> HIDE DEF P
<1>9. Min(P) \in P /\ \A q \in P : Min(P) <= q
  BY <1>6, <1>8, MinFacts
<1>10. PICK n \in at : Min(P) = 2 * n[1] + n[2]
  BY <1>6, <1>9
<1>11. Min(M) <= n[1] /\ n[1] \in Nat /\ n[2] \in {1, 2}
  BY <1>3, <1>4
<1>12. Min(P) <= 2 * Min(M) + m[2] /\ m[2] \in {1, 2} /\ Min(M) \in Nat
  BY <1>4, <1>7, <1>8, <1>9
<1> QED
  BY <1>2, <1>10, <1>11, <1>12

(* The writes of a block are made in first-seen order and their ordinals   *)
(* never decrease in that order (tokens.rs fetch_token_meta).              *)
THEOREM OrdinalsInOrder == Spec => []OrdinalsNeverDecrease
<1>1. TokensInv => OrdinalsNeverDecrease
  <2> SUFFICES ASSUME TokensInv, NEW c \in DOMAIN ordinals, NEW d \in DOMAIN ordinals,
                      Place(c) < Place(d)
               PROVE  ordinals[c] <= ordinals[d]
    BY DEF OrdinalsNeverDecrease
  <2>1. /\ c \in Mentioned /\ ordinals[c] = Ordinal(c)
        /\ d \in Mentioned /\ ordinals[d] = Ordinal(d)
    BY DEF TokensInv, OrdinalsExact
  <2>2. /\ Ordinal(c) \in Nat /\ Place(c) \in Nat /\ Ordinal(d) \in Nat /\ Place(d) \in Nat
        /\ 2 * Ordinal(c) + 1 <= Place(c) /\ Place(d) <= 2 * Ordinal(d) + 2
    BY <2>1, PlaceBounds
  <2> QED
    BY <2>1, <2>2
<1> QED
  BY <1>1, TokensInvariance, PTL

-----------------------------------------------------------------------------
(* A finite set of numbers in order: every member has one place.  Its rank *)
(* is how many members are not above it; ranks differ and none is left out.*)
LEMMA SortedFacts ==
  ASSUME NEW S \in SUBSET Nat, IsFiniteSet(S)
  PROVE  /\ Cardinality(S) \in Nat /\ DOMAIN Sorted(S) = 1 .. Cardinality(S)
         /\ \A k \in 1 .. Cardinality(S) : Sorted(S)[k] \in S
         /\ \A x \in S : \E k \in 1 .. Cardinality(S) : Sorted(S)[k] = x
         /\ \A i, j \in 1 .. Cardinality(S) : i < j => Sorted(S)[i] < Sorted(S)[j]
<1> DEFINE n == Cardinality(S)
           low(x) == {m \in S : m <= x}
           rank == [x \in S |-> Cardinality(low(x))]
<1>1. n \in Nat
  BY FS_CardinalityType
<1>2. \A x \in S : /\ IsFiniteSet(low(x)) /\ rank[x] \in 1 .. n
  <2> TAKE x \in S
  <2>1. low(x) \in SUBSET S /\ x \in low(x)
    OBVIOUS
  <2>2. IsFiniteSet(low(x)) /\ Cardinality(low(x)) <= n
    BY <2>1, FS_Subset, Zenon
  <2>3. Cardinality(low(x)) \in Nat /\ Cardinality(low(x)) # 0
    BY <2>1, <2>2, FS_CardinalityType, FS_EmptySet, Zenon
  <2> QED
    BY <1>1, <2>2, <2>3
<1>3. \A x, y \in S : x < y => rank[x] < rank[y]
  <2> TAKE x, y \in S
  <2> HAVE x < y
  <2>1. low(x) \in SUBSET low(y) /\ y \in low(y) /\ y \notin low(x)
    <3>1. x \in Nat /\ y \in Nat /\ ~(y <= x) /\ y <= y
      OBVIOUS
    <3>2. \A m \in S : m <= x => m <= y
      BY <3>1
    <3> QED
      BY <3>1, <3>2
  <2>2. Cardinality(low(x)) <= Cardinality(low(y)) /\ Cardinality(low(x)) # Cardinality(low(y))
    BY <1>2, <2>1, FS_Subset, Zenon
  <2> QED
    BY <1>2, <2>2
<1> HIDE DEF low, n
<1>4. rank \in [S -> 1 .. n]
  BY <1>2
<1>5. \A x, y \in S : rank[x] = rank[y] => x = y
  BY <1>1, <1>2, <1>3
<1>6. \A k \in 1 .. n : \E x \in S : rank[x] = k
  <2> SUFFICES ASSUME NEW k \in 1 .. n, \A x \in S : rank[x] # k
               PROVE  FALSE
    OBVIOUS
  <2> DEFINE T == (1 .. n) \ {k}
  <2>1. IsFiniteSet(1 .. n) /\ Cardinality(1 .. n) = n
    BY <1>1, FS_Interval
  <2>2. IsFiniteSet(T) /\ Cardinality(T) = n - 1
    BY <2>1, FS_RemoveElement
  <2>3. rank \in [S -> T]
    BY <1>4
  <2> HIDE DEF T, rank
  <2>4. rank \in Injection(S, T)
    BY <1>5, <2>3 DEF Injection, IsInjective
  <2>5. Cardinality(S) <= Cardinality(T)
    BY <2>2, <2>4, FS_Injection DEF ExistsInjection
  <2> QED
    BY <1>1, <2>2, <2>5 DEF n
<1>7. \A k \in 1 .. n : Sorted(S)[k] = CHOOSE x \in S : Cardinality(low(x)) = k
  BY DEF Sorted, n, low
<1>8. \A k \in 1 .. n : Sorted(S)[k] \in S /\ rank[Sorted(S)[k]] = k
  <2>1. \A k \in 1 .. n : \E x \in S : Cardinality(low(x)) = k
    BY <1>6
  <2>2. \A k \in 1 .. n : Sorted(S)[k] \in S /\ Cardinality(low(Sorted(S)[k])) = k
    BY <1>7, <2>1
  <2> QED
    BY <2>2
<1> HIDE DEF rank
<1>9. \A x \in S : rank[x] \in 1 .. n /\ Sorted(S)[rank[x]] = x
  BY <1>4, <1>5, <1>8
<1>10. ASSUME NEW i \in 1 .. n, NEW j \in 1 .. n, i < j
       PROVE  Sorted(S)[i] < Sorted(S)[j]
  <2>1. Sorted(S)[i] \in Nat /\ Sorted(S)[j] \in Nat
    BY <1>8
  <2>2. Sorted(S)[j] < Sorted(S)[i] => j < i
    BY <1>3, <1>8
  <2>3. Sorted(S)[i] = Sorted(S)[j] => i = j
    BY <1>8
  <2> QED
    BY <1>10, <2>1, <2>2, <2>3
<1>11. DOMAIN Sorted(S) = 1 .. n
  BY DEF Sorted, n
<1> QED
  BY <1>1, <1>8, <1>9, <1>10, <1>11 DEF n

-----------------------------------------------------------------------------
(* Text that can be a field of a stored value: no separator in it.         *)
Clean(s) == s \in Seq(Chars) /\ \A i \in DOMAIN s : s[i] # FIELD_SEP

(* Dropping the controls drops every separator.                            *)
LEMMA WithoutClean ==
  ASSUME NEW s \in Seq(Chars)
  PROVE  Clean(Without(s, Controls))
<1> DEFINE D == {i \in DOMAIN s : s[i] \notin Controls}
           kept == Sorted(D)
<1>1. D \in SUBSET Nat /\ IsFiniteSet(D) /\ DOMAIN s = 1 .. Len(s) /\ Len(s) \in Nat
  <2>1. DOMAIN s = 1 .. Len(s) /\ Len(s) \in Nat
    OBVIOUS
  <2>2. IsFiniteSet(1 .. Len(s)) /\ D \in SUBSET (1 .. Len(s))
    BY <2>1, FS_Interval
  <2>3. IsFiniteSet(D)
    BY <2>2, FS_Subset, Zenon
  <2> QED
    BY <2>1, <2>2, <2>3
<1> DEFINE n == Cardinality(D)
<1> HIDE DEF D
<1>2. n \in Nat /\ DOMAIN kept = 1 .. n /\ \A k \in 1 .. n : kept[k] \in D
  BY <1>1, SortedFacts
<1>3. Without(s, Controls) = [k \in DOMAIN kept |-> s[kept[k]]]
  BY DEF Without, D
<1> HIDE DEF kept, n
<1>4. \A k \in 1 .. n : s[kept[k]] \in Chars /\ s[kept[k]] # FIELD_SEP
  BY <1>1, <1>2 DEF D, Controls
<1> QED
  BY <1>2, <1>3, <1>4 DEF Clean

LEMMA SubSeqClean ==
  ASSUME NEW s, Clean(s), NEW m \in 1 .. Len(s) + 1, NEW n \in 0 .. Len(s)
  PROVE  Clean(SubSeq(s, m, n))
BY DEF Clean

LEMMA CutClean == ASSUME NEW s, Clean(s) PROVE Clean(Cut(s))
<1>1. Len(s) \in Nat /\ MAX_TEXT_LEN \in Nat
  BY DEF Clean, MAX_TEXT_LEN
<1>2. 1 \in 1 .. Len(s) + 1 /\ (IF Len(s) < MAX_TEXT_LEN THEN Len(s) ELSE MAX_TEXT_LEN) \in 0 .. Len(s)
  BY <1>1
<1> QED
  BY <1>2, SubSeqClean DEF Cut

LEMMA TrimClean == ASSUME NEW s, Clean(s) PROVE Clean(TrimSpaces(s))
<1> DEFINE solid == {i \in DOMAIN s : s[i] # Space}
<1>1. Len(s) \in Nat /\ DOMAIN s = 1 .. Len(s)
  BY DEF Clean
<1>2. solid \in SUBSET Nat /\ solid \in SUBSET (0 .. Len(s)) /\ solid \in SUBSET (1 .. Len(s))
  BY <1>1
<1>3. TrimSpaces(s) = IF solid = {} THEN << >> ELSE SubSeq(s, Min(solid), Max(solid))
  BY DEF TrimSpaces
<1> HIDE DEF solid
<1>4. CASE solid = {}
  BY <1>3, <1>4 DEF Clean
<1>5. CASE solid # {}
  <2>1. Min(solid) \in solid /\ Max(solid) \in solid
    BY <1>1, <1>2, <1>5, MinFacts, MaxFacts
  <2>2. Min(solid) \in 1 .. Len(s) /\ Max(solid) \in 1 .. Len(s)
    BY <1>2, <2>1, Zenon
  <2>3. \A m, n \in 1 .. Len(s) : m \in 1 .. Len(s) + 1 /\ n \in 0 .. Len(s)
    BY <1>1
  <2> QED
    BY <1>3, <1>5, <2>2, <2>3, SubSeqClean
<1> QED
  BY <1>4, <1>5

LEMMA SanitizeClean == ASSUME NEW raw \in Seq(Chars) PROVE Clean(sanitize(raw))
BY WithoutClean, CutClean, TrimClean DEF sanitize

(* Whatever a token answers, what is read of it is clean.                  *)
LEMMA TextClean ==
  ASSUME NEW raw, raw.shape \in {"string", "bytes32"} => raw.text \in Seq(Chars),
         NEW t \in Text(raw)
  PROVE  Clean(t)
<1>1. CASE t \in decode_abi_string(raw)
  BY <1>1, SanitizeClean DEF decode_abi_string, Readable
<1>2. CASE t \in decode_bytes32_string(raw)
  <2> DEFINE ends == {i \in DOMAIN raw.text : raw.text[i] # Nul}
  <2>1. /\ raw.text \in Seq(Chars) /\ ends # {}
        /\ t = sanitize(SubSeq(raw.text, 1, Max(ends)))
    BY <1>2 DEF decode_bytes32_string, Readable
  <2>2. /\ Len(raw.text) \in Nat /\ DOMAIN raw.text = 1 .. Len(raw.text)
        /\ ends \in SUBSET (0 .. Len(raw.text))
    BY <2>1
  <2> HIDE DEF ends
  <2>3. Max(ends) \in 0 .. Len(raw.text)
    BY <2>1, <2>2, MaxFacts
  <2>4. SubSeq(raw.text, 1, Max(ends)) \in Seq(Chars)
    BY <2>1, <2>2, <2>3
  <2> QED
    BY <2>1, <2>4, SanitizeClean
<1> QED
  BY <1>1, <1>2 DEF Text

-----------------------------------------------------------------------------
(* The stored value.  A token whose text is clean comes back as it went in.*)
Origins == {"n", "s", "b", "?"}

WellKept(t) ==
  /\ t = [symbol |-> t.symbol, name |-> t.name, decimals |-> t.decimals,
          sources |-> <<t.sources[1], t.sources[2]>>, measured |-> t.measured]
  /\ Clean(t.symbol) /\ Clean(t.name)
  /\ t.decimals \in 0 .. MAX_DECIMALS
  /\ t.sources[1] \in Origins /\ t.sources[2] \in Origins
  /\ t.measured \in BOOLEAN

LEMMA Joined ==
  ASSUME NEW s \in Seq(Chars), NEW r \in Seq(Chars)
  PROVE  /\ s \o r \in Seq(Chars) /\ Len(s \o r) = Len(s) + Len(r)
         /\ \A i \in 1 .. Len(s) : (s \o r)[i] = s[i]
         /\ \A i \in 1 .. Len(r) : (s \o r)[Len(s) + i] = r[i]
OBVIOUS

LEMMA OneChar ==
  ASSUME NEW c \in Chars
  PROVE  <<c>> \in Seq(Chars) /\ Len(<<c>>) = 1 /\ <<c>>[1] = c
OBVIOUS

LEMMA JoinedOne ==
  ASSUME NEW s \in Seq(Chars), NEW c \in Chars
  PROVE  /\ s \o <<c>> \in Seq(Chars) /\ Len(s \o <<c>>) = Len(s) + 1
         /\ \A i \in 1 .. Len(s) : (s \o <<c>>)[i] = s[i]
         /\ (s \o <<c>>)[Len(s) + 1] = c
BY Joined, OneChar

(* Where the characters of an encoded token are.                           *)
LEMMA EncodedPlaces ==
  ASSUME NEW t, WellKept(t)
  PROVE  LET v == encode_token_value(t)
             ls == Len(t.symbol)
             ln == Len(t.name)
             b == ls + ln + 2
         IN  /\ v \in Seq(Chars) /\ Len(v) = b + 5
             /\ ls \in Nat /\ ln \in Nat
             /\ \A i \in 1 .. ls : v[i] = t.symbol[i]
             /\ v[ls + 1] = FIELD_SEP
             /\ \A i \in 1 .. ln : v[ls + 1 + i] = t.name[i]
             /\ v[b] = FIELD_SEP
             /\ v[b + 1] = Numeral[t.decimals]
             /\ v[b + 2] = FIELD_SEP
             /\ v[b + 3] = t.sources[1] /\ v[b + 4] = t.sources[2]
             /\ v[b + 5] = IF t.measured THEN "d" ELSE "?"
<1> DEFINE x == t.symbol
           y == t.name
           flag == IF t.measured THEN "d" ELSE "?"
           numeral == Numeral[t.decimals]
           s1 == x \o <<FIELD_SEP>>
           s2 == s1 \o y
           s3 == s2 \o <<FIELD_SEP>>
           s4 == s3 \o <<numeral>>
           s5 == s4 \o <<FIELD_SEP>>
           s6 == s5 \o t.sources
           s7 == s6 \o <<flag>>
           ls == Len(x)
           ln == Len(y)
<1>1. encode_token_value(t) = s7
  BY DEF encode_token_value
<1>2. /\ x \in Seq(Chars) /\ y \in Seq(Chars) /\ ls \in Nat /\ ln \in Nat
      /\ numeral \in Chars /\ FIELD_SEP \in Chars /\ flag \in Chars
  BY TextAssumption DEF WellKept, Clean
<1>3. /\ t.sources = <<t.sources[1], t.sources[2]>>
      /\ t.sources \in Seq(Chars) /\ Len(t.sources) = 2
  <2>1. t.sources = <<t.sources[1], t.sources[2]>>
    BY DEF WellKept
  <2>2. t.sources[1] \in Chars /\ t.sources[2] \in Chars
    BY TextAssumption DEF WellKept, Origins
  <2>3. \A c, d \in Chars : <<c, d>> \in Seq(Chars) /\ Len(<<c, d>>) = 2
    OBVIOUS
  <2> QED
    BY <2>1, <2>2, <2>3
<1>a. ls = Len(x) /\ ln = Len(y)
  OBVIOUS
<1> HIDE DEF numeral, flag, x, y, ls, ln
<1>4. /\ s1 \in Seq(Chars) /\ Len(s1) = ls + 1
      /\ \A i \in 1 .. ls : s1[i] = x[i]
      /\ s1[ls + 1] = FIELD_SEP
  <2>1. /\ s1 \in Seq(Chars) /\ Len(s1) = Len(x) + 1
        /\ \A i \in 1 .. Len(x) : s1[i] = x[i]
        /\ s1[Len(x) + 1] = FIELD_SEP
    BY <1>2, <1>2, JoinedOne
  <2> QED
    BY <1>2, <1>a, <1>2, <2>1
<1> HIDE DEF s1
<1>5. /\ s2 \in Seq(Chars) /\ Len(s2) = ls + ln + 1
      /\ \A i \in 1 .. ls + 1 : s2[i] = s1[i]
      /\ \A i \in 1 .. ln : s2[ls + 1 + i] = y[i]
  <2>1. /\ s2 \in Seq(Chars) /\ Len(s2) = Len(s1) + Len(y)
        /\ \A i \in 1 .. Len(s1) : s2[i] = s1[i]
        /\ \A i \in 1 .. Len(y) : s2[Len(s1) + i] = y[i]
    BY <1>2, <1>4, Joined
  <2> QED
    BY <1>2, <1>a, <1>4, <2>1
<1> HIDE DEF s2
<1>6. /\ s3 \in Seq(Chars) /\ Len(s3) = ls + ln + 2
      /\ \A i \in 1 .. ls + ln + 1 : s3[i] = s2[i]
      /\ s3[ls + ln + 2] = FIELD_SEP
  <2>1. /\ s3 \in Seq(Chars) /\ Len(s3) = Len(s2) + 1
        /\ \A i \in 1 .. Len(s2) : s3[i] = s2[i]
        /\ s3[Len(s2) + 1] = FIELD_SEP
    BY <1>2, <1>5, JoinedOne
  <2> QED
    BY <1>2, <1>a, <1>5, <2>1
<1> HIDE DEF s3
<1>7. /\ s4 \in Seq(Chars) /\ Len(s4) = ls + ln + 3
      /\ \A i \in 1 .. ls + ln + 2 : s4[i] = s3[i]
      /\ s4[ls + ln + 3] = numeral
  <2>1. /\ s4 \in Seq(Chars) /\ Len(s4) = Len(s3) + 1
        /\ \A i \in 1 .. Len(s3) : s4[i] = s3[i]
        /\ s4[Len(s3) + 1] = numeral
    BY <1>2, <1>6, JoinedOne
  <2> QED
    BY <1>2, <1>a, <1>6, <2>1
<1> HIDE DEF s4
<1>8. /\ s5 \in Seq(Chars) /\ Len(s5) = ls + ln + 4
      /\ \A i \in 1 .. ls + ln + 3 : s5[i] = s4[i]
      /\ s5[ls + ln + 4] = FIELD_SEP
  <2>1. /\ s5 \in Seq(Chars) /\ Len(s5) = Len(s4) + 1
        /\ \A i \in 1 .. Len(s4) : s5[i] = s4[i]
        /\ s5[Len(s4) + 1] = FIELD_SEP
    BY <1>2, <1>7, JoinedOne
  <2> QED
    BY <1>2, <1>a, <1>7, <2>1
<1> HIDE DEF s5
<1>9. /\ s6 \in Seq(Chars) /\ Len(s6) = ls + ln + 6
      /\ \A i \in 1 .. ls + ln + 4 : s6[i] = s5[i]
      /\ s6[ls + ln + 5] = t.sources[1] /\ s6[ls + ln + 6] = t.sources[2]
  <2>1. /\ s6 \in Seq(Chars) /\ Len(s6) = Len(s5) + 2
        /\ \A i \in 1 .. Len(s5) : s6[i] = s5[i]
        /\ \A i \in 1 .. 2 : s6[Len(s5) + i] = t.sources[i]
    BY <1>3, <1>8, Joined
  <2>2. s6[Len(s5) + 1] = t.sources[1] /\ s6[Len(s5) + 2] = t.sources[2]
    BY <2>1
  <2>3. /\ Len(s5) + 1 = ls + ln + 5 /\ Len(s5) + 2 = ls + ln + 6
    BY <1>2, <1>8
  <2>4. s6[ls + ln + 5] = t.sources[1] /\ s6[ls + ln + 6] = t.sources[2]
    BY <2>2, <2>3
  <2> QED
    BY <1>8, <2>1, <2>3, <2>4
<1> HIDE DEF s6
<1>10. /\ s7 \in Seq(Chars) /\ Len(s7) = ls + ln + 7
       /\ \A i \in 1 .. ls + ln + 6 : s7[i] = s6[i]
       /\ s7[ls + ln + 7] = flag
  <2>1. /\ s7 \in Seq(Chars) /\ Len(s7) = Len(s6) + 1
        /\ \A i \in 1 .. Len(s6) : s7[i] = s6[i]
        /\ s7[Len(s6) + 1] = flag
    BY <1>2, <1>9, JoinedOne
  <2> QED
    BY <1>2, <1>a, <1>9, <2>1
<1> HIDE DEF s7
<1>11. \A i \in 1 .. ls : s7[i] = x[i]
  BY <1>2, <1>4, <1>5, <1>6, <1>7, <1>8, <1>9, <1>10
<1>12. \A i \in 1 .. ln : s7[ls + 1 + i] = y[i]
  <2> TAKE i \in 1 .. ln
  <2> DEFINE k == ls + 1 + i
  <2>1. /\ k \in 1 .. ls + ln + 1 /\ k \in 1 .. ls + ln + 2 /\ k \in 1 .. ls + ln + 3
        /\ k \in 1 .. ls + ln + 4 /\ k \in 1 .. ls + ln + 6
    BY <1>2
  <2>2. s2[k] = y[i]
    BY <1>5
  <2> HIDE DEF k
  <2>3. s7[k] = y[i]
    BY <1>6, <1>7, <1>8, <1>9, <1>10, <2>1, <2>2
  <2> QED
    BY <2>3 DEF k
<1>13. s7[ls + 1] = FIELD_SEP
  <2> DEFINE k == ls + 1
  <2>1. /\ k \in 1 .. ls + 1 /\ k \in 1 .. ls + ln + 1 /\ k \in 1 .. ls + ln + 2
        /\ k \in 1 .. ls + ln + 3 /\ k \in 1 .. ls + ln + 4 /\ k \in 1 .. ls + ln + 6
    BY <1>2
  <2>2. s1[k] = FIELD_SEP
    BY <1>4
  <2> HIDE DEF k
  <2>3. s7[k] = FIELD_SEP
    BY <1>5, <1>6, <1>7, <1>8, <1>9, <1>10, <2>1, <2>2
  <2> QED
    BY <2>3 DEF k
<1>14. s7[ls + ln + 2] = FIELD_SEP /\ s7[ls + ln + 3] = numeral /\ s7[ls + ln + 4] = FIELD_SEP
  <2> DEFINE k == ls + ln + 2
             m == ls + ln + 3
             o == ls + ln + 4
  <2>1. /\ k \in 1 .. ls + ln + 2 /\ k \in 1 .. ls + ln + 3
        /\ k \in 1 .. ls + ln + 4 /\ k \in 1 .. ls + ln + 6
    BY <1>2
  <2>2. /\ m \in 1 .. ls + ln + 3 /\ m \in 1 .. ls + ln + 4 /\ m \in 1 .. ls + ln + 6
        /\ o \in 1 .. ls + ln + 4 /\ o \in 1 .. ls + ln + 6
    BY <1>2
  <2>3. s3[k] = FIELD_SEP /\ s4[m] = numeral /\ s5[o] = FIELD_SEP
    BY <1>6, <1>7, <1>8
  <2> HIDE DEF k, m, o
  <2>4. s7[k] = FIELD_SEP
    BY <1>7, <1>8, <1>9, <1>10, <2>1, <2>3
  <2>5. s7[m] = numeral /\ s7[o] = FIELD_SEP
    BY <1>8, <1>9, <1>10, <2>2, <2>3
  <2> QED
    BY <2>4, <2>5 DEF k, m, o
<1>15. s7[ls + ln + 5] = t.sources[1] /\ s7[ls + ln + 6] = t.sources[2]
  BY <1>2, <1>9, <1>10
<1> DEFINE b == ls + ln + 2
<1>16. /\ b + 1 = ls + ln + 3 /\ b + 2 = ls + ln + 4 /\ b + 3 = ls + ln + 5
       /\ b + 4 = ls + ln + 6 /\ b + 5 = ls + ln + 7
  BY <1>2
<1> HIDE DEF b
<1>17. /\ s7[b + 1] = numeral /\ s7[b + 2] = FIELD_SEP
       /\ s7[b + 3] = t.sources[1] /\ s7[b + 4] = t.sources[2]
       /\ s7[b + 5] = flag /\ Len(s7) = b + 5
  <2>1. Len(s7) = ls + ln + 7 /\ s7[ls + ln + 7] = flag
    BY <1>10
  <2>2. s7[b + 1] = numeral /\ s7[b + 2] = FIELD_SEP
    BY <1>14, <1>16, Zenon
  <2>3. s7[b + 3] = t.sources[1] /\ s7[b + 4] = t.sources[2]
    BY <1>15, <1>16, Zenon
  <2>4. s7[b + 5] = flag /\ Len(s7) = b + 5
    BY <1>16, <2>1, Zenon
  <2> QED
    BY <2>2, <2>3, <2>4
<1>18. s7[b] = FIELD_SEP
  BY <1>14 DEF b
<1>19. /\ encode_token_value(t) = s7 /\ s7 \in Seq(Chars) /\ Len(s7) = b + 5
       /\ ls \in Nat /\ ln \in Nat
       /\ \A i \in 1 .. ls : s7[i] = x[i]
       /\ s7[ls + 1] = FIELD_SEP
       /\ \A i \in 1 .. ln : s7[ls + 1 + i] = y[i]
       /\ s7[b] = FIELD_SEP /\ s7[b + 1] = numeral /\ s7[b + 2] = FIELD_SEP
       /\ s7[b + 3] = t.sources[1] /\ s7[b + 4] = t.sources[2] /\ s7[b + 5] = flag
  <2>1. Len(s7) = b + 5 /\ s7 \in Seq(Chars)
    BY <1>10, <1>17
  <2> QED
    BY <1>1, <1>2, <1>11, <1>12, <1>13, <1>17, <1>18, <2>1
<1> DEFINE v == encode_token_value(t)
<1>20. v = s7
  BY <1>1
<1> HIDE DEF v
<1>21. /\ v \in Seq(Chars) /\ Len(v) = b + 5
       /\ ls \in Nat /\ ln \in Nat
       /\ \A i \in 1 .. ls : v[i] = x[i]
       /\ v[ls + 1] = FIELD_SEP
       /\ \A i \in 1 .. ln : v[ls + 1 + i] = y[i]
       /\ v[b] = FIELD_SEP /\ v[b + 1] = numeral /\ v[b + 2] = FIELD_SEP
       /\ v[b + 3] = t.sources[1] /\ v[b + 4] = t.sources[2] /\ v[b + 5] = flag
  BY <1>19, <1>20
<1> QED
  BY <1>21, Zenon DEF numeral, flag, x, y, ls, ln, b, v

LEMMA AfterName ==
  ASSUME NEW q \in Nat, NEW i \in 1 .. q + 5, q < i, i # q + 2
  PROVE  i = q + 1 \/ i = q + 3 \/ i = q + 4 \/ i = q + 5
OBVIOUS

(* The text v has the two clean texts x and y, and the characters c, d, e  *)
(* and f, with separators at p, q and q + 2.                               *)
Laid(v, x, y, c, d, e, f, p, q) ==
  /\ Clean(x) /\ Clean(y)
  /\ c \in Chars /\ d \in Chars /\ e \in Chars /\ f \in Chars
  /\ c # FIELD_SEP /\ d # FIELD_SEP /\ e # FIELD_SEP /\ f # FIELD_SEP
  /\ p \in Nat /\ q \in Nat /\ p = Len(x) + 1 /\ q = p + Len(y) + 1
  /\ v \in Seq(Chars) /\ Len(v) = q + 5
  /\ \A i \in 1 .. Len(x) : v[i] = x[i]
  /\ v[p] = FIELD_SEP
  /\ \A i \in 1 .. Len(y) : v[p + i] = y[i]
  /\ v[q] = FIELD_SEP /\ v[q + 1] = c /\ v[q + 2] = FIELD_SEP
  /\ v[q + 3] = d /\ v[q + 4] = e /\ v[q + 5] = f

LEMMA LaidEnds ==
  ASSUME NEW v, NEW x, NEW y, NEW c, NEW d, NEW e, NEW f, NEW p, NEW q,
         Laid(v, x, y, c, d, e, f, p, q)
  PROVE  {i \in DOMAIN v : v[i] = FIELD_SEP} \cup {Len(v) + 1} = {p, q, q + 2, q + 6}
<1>0. /\ \A i \in 1 .. Len(x) : v[i] # FIELD_SEP
      /\ \A i \in 1 .. Len(y) : v[p + i] # FIELD_SEP
  <2>1. \A s : Clean(s) => \A i \in 1 .. Len(s) : s[i] # FIELD_SEP
    BY DEF Clean
  <2>2. /\ \A i \in 1 .. Len(x) : x[i] # FIELD_SEP
        /\ \A i \in 1 .. Len(y) : y[i] # FIELD_SEP
    BY <2>1 DEF Laid
  <2>3. /\ \A i \in 1 .. Len(x) : v[i] = x[i]
        /\ \A i \in 1 .. Len(y) : v[p + i] = y[i]
    BY DEF Laid
  <2> QED
    BY <2>2, <2>3
<1> x \in Seq(Chars) /\ y \in Seq(Chars)
  BY DEF Laid, Clean
<1> USE DEF Laid
<1>1. p < q /\ DOMAIN v = 1 .. q + 5 /\ p \in 1 .. q + 5 /\ Len(x) \in Nat /\ Len(y) \in Nat
  OBVIOUS
<1>2. \A i \in DOMAIN v : v[i] = FIELD_SEP => i \in {p, q, q + 2}
  <2> SUFFICES ASSUME NEW i \in DOMAIN v, v[i] = FIELD_SEP, i \notin {p, q, q + 2}
               PROVE  FALSE
    OBVIOUS
  <2>1. \/ i \in 1 .. Len(x)
        \/ \E j \in 1 .. Len(y) : i = p + j
        \/ i = q + 1 \/ i = q + 3 \/ i = q + 4 \/ i = q + 5
    <3>1. CASE i < p
      BY <1>1, <3>1
    <3>2. CASE p < i /\ i < q
      <4>1. i - p \in 1 .. Len(y) /\ i = p + (i - p)
        BY <1>1, <3>2
      <4> QED
        BY <4>1
    <3>3. CASE q < i
      <4>1. i \in 1 .. q + 5 /\ i # q + 2
        BY <1>1
      <4> QED
        BY <3>3, <4>1, AfterName
    <3> QED
      BY <1>1, <3>1, <3>2, <3>3
  <2> QED
    BY <1>0, <2>1
<1>3. \A i \in {p, q, q + 2} : i \in DOMAIN v /\ v[i] = FIELD_SEP
  BY <1>1
<1>4. Len(v) + 1 = q + 6
  OBVIOUS
<1> QED
  BY <1>2, <1>3, <1>4

(* Four numbers in ascending order are sorted as they stand.               *)
LEMMA SortedFour ==
  ASSUME NEW p \in Nat, NEW q \in Nat, NEW r \in Nat, NEW s \in Nat, p < q, q < r, r < s
  PROVE  /\ DOMAIN Sorted({p, q, r, s}) = 1 .. 4
         /\ Sorted({p, q, r, s})[1] = p /\ Sorted({p, q, r, s})[2] = q
         /\ Sorted({p, q, r, s})[3] = r /\ Sorted({p, q, r, s})[4] = s
<1> DEFINE S == {p, q, r, s}
           o == Sorted(S)
<1>1. IsFiniteSet({p}) /\ Cardinality({p}) = 1
  BY FS_Singleton
<1>2. IsFiniteSet({p, q}) /\ Cardinality({p, q}) = 2
  <2>1. {p, q} = {p} \cup {q} /\ q \notin {p}
    OBVIOUS
  <2>2. IsFiniteSet({p} \cup {q}) /\ Cardinality({p} \cup {q}) = 1 + 1
    BY <1>1, <2>1, FS_AddElement
  <2> QED
    BY <2>1, <2>2
<1>3. IsFiniteSet({p, q, r}) /\ Cardinality({p, q, r}) = 3
  <2>1. {p, q, r} = {p, q} \cup {r} /\ r \notin {p, q}
    OBVIOUS
  <2> QED
    BY <1>2, <2>1, FS_AddElement
<1>4. IsFiniteSet(S) /\ Cardinality(S) = 4
  <2>1. S = {p, q, r} \cup {s} /\ s \notin {p, q, r}
    OBVIOUS
  <2> QED
    BY <1>3, <2>1, FS_AddElement
<1>5. S \in SUBSET Nat
  OBVIOUS
<1> HIDE DEF S
<1>6. /\ DOMAIN o = 1 .. 4
      /\ \A k \in 1 .. 4 : o[k] \in S
      /\ \A i, j \in 1 .. 4 : i < j => o[i] < o[j]
  BY <1>4, <1>5, SortedFacts
<1> HIDE DEF o
<1>7. o[1] < o[2] /\ o[2] < o[3] /\ o[3] < o[4]
  BY <1>6
<1>8. o[1] \in S /\ o[2] \in S /\ o[3] \in S /\ o[4] \in S
  BY <1>6
<1>9. o[1] = p /\ o[2] = q /\ o[3] = r /\ o[4] = s
  BY <1>7, <1>8 DEF S
<1> QED
  BY <1>6, <1>9 DEF o, S

(* Text that lies in v from k + 1 on is that part of v.                    *)
LEMMA FieldIs ==
  ASSUME NEW v \in Seq(Chars), NEW s \in Seq(Chars), NEW k \in Nat, NEW n \in Nat,
         n = k + Len(s), n <= Len(v),
         \A i \in 1 .. Len(s) : v[k + i] = s[i]
  PROVE  SubSeq(v, k + 1, n) = s
<1> DEFINE u == SubSeq(v, k + 1, n)
<1>1. u \in Seq(Chars) /\ Len(u) = Len(s) /\ \A i \in 1 .. Len(s) : u[i] = v[k + i]
  OBVIOUS
<1> HIDE DEF u
<1>2. \A i \in 1 .. Len(s) : u[i] = s[i]
  BY <1>1
<1>3. u = s
  BY <1>1, <1>2
<1> QED
  BY <1>3 DEF u

(* The numerals differ, so parsing one gives its number back.              *)
LEMMA ParseNumeral ==
  ASSUME NEW n \in 0 .. MAX_DECIMALS, NEW digits, digits = <<Numeral[n]>>
  PROVE  Parse(digits) = {n}
<1> DEFINE D == {Numeral[m] : m \in DOMAIN Numeral}
<1>1. DOMAIN Numeral = 0 .. MAX_DECIMALS
  BY TextAssumption
<1>2. Numeral[n] \in D
  BY <1>1
<1>3. \A m \in DOMAIN Numeral : Numeral[m] = Numeral[n] => m = n
  BY <1>1, TextAssumption
<1>4. Numerals = [text \in D |-> CHOOSE m \in DOMAIN Numeral : Numeral[m] = text]
  BY DEF Numerals
<1> HIDE DEF D
<1>5. Numerals[Numeral[n]] = n
  BY <1>1, <1>2, <1>3, <1>4
<1>6. ToSet(digits) = {Numeral[n]}
  BY DEF ToSet
<1>7. DOMAIN Numerals = D
  BY <1>4
<1> QED
  BY <1>2, <1>5, <1>6, <1>7 DEF Parse

(* Split finds the four fields again.                                      *)
LEMMA LaidFields ==
  ASSUME NEW v, NEW x, NEW y, NEW c, NEW d, NEW e, NEW f, NEW p, NEW q,
         Laid(v, x, y, c, d, e, f, p, q)
  PROVE  /\ Len(Split(v)) = 4
         /\ Split(v)[1] = SubSeq(v, 1, p - 1)
         /\ Split(v)[2] = SubSeq(v, p + 1, q - 1)
         /\ Split(v)[3] = SubSeq(v, q + 1, (q + 2) - 1)
         /\ Split(v)[4] = SubSeq(v, q + 2 + 1, (q + 6) - 1)
<1> DEFINE E == {i \in DOMAIN v : v[i] = FIELD_SEP} \cup {Len(v) + 1}
           ends == Sorted(E)
           parts == Split(v)
<1>1. parts = [k \in DOMAIN ends |->
                 SubSeq(v, IF k = 1 THEN 1 ELSE ends[k - 1] + 1, ends[k] - 1)]
  BY DEF Split
<1>2. E = {p, q, q + 2, q + 6}
  BY LaidEnds
<1>r. p \in Nat /\ q \in Nat /\ p < q
  BY DEF Laid, Clean
<1> HIDE DEF E
<1>3. PICK r \in Nat, s \in Nat :
        /\ r = q + 2 /\ s = q + 6
        /\ DOMAIN ends = 1 .. 4
        /\ ends[1] = p /\ ends[2] = q /\ ends[3] = r /\ ends[4] = s
  <2>1. PICK r \in Nat, s \in Nat : r = q + 2 /\ s = q + 6 /\ q < r /\ r < s
    BY <1>r
  <2>2. E = {p, q, r, s}
    BY <1>2, <2>1
  <2>3. /\ DOMAIN ends = 1 .. 4
        /\ ends[1] = p /\ ends[2] = q /\ ends[3] = r /\ ends[4] = s
    BY <1>r, <2>1, <2>2, SortedFour
  <2> QED
    BY <2>1, <2>3
<1> HIDE DEF ends, parts
<1>4. /\ DOMAIN parts = 1 .. 4
      /\ \A k \in 1 .. 4 :
           parts[k] = SubSeq(v, IF k = 1 THEN 1 ELSE ends[k - 1] + 1, ends[k] - 1)
  BY <1>1, <1>3
<1>5. parts = [k \in 1 .. 4 |-> parts[k]]
  BY <1>1, <1>3
<1>6. Len(parts) = 4
  BY <1>5
<1>7. /\ parts[1] = SubSeq(v, 1, ends[1] - 1)
      /\ parts[2] = SubSeq(v, ends[1] + 1, ends[2] - 1)
      /\ parts[3] = SubSeq(v, ends[2] + 1, ends[3] - 1)
      /\ parts[4] = SubSeq(v, ends[3] + 1, ends[4] - 1)
  BY <1>4
<1>8. /\ parts[1] = SubSeq(v, 1, p - 1)
      /\ parts[2] = SubSeq(v, p + 1, q - 1)
      /\ parts[3] = SubSeq(v, q + 1, (q + 2) - 1)
      /\ parts[4] = SubSeq(v, q + 2 + 1, (q + 6) - 1)
  <2>1. parts[1] = SubSeq(v, 1, p - 1) /\ parts[2] = SubSeq(v, p + 1, q - 1)
    BY <1>3, <1>7, Zenon
  <2>2. ends[2] = q /\ ends[3] = q + 2 /\ ends[4] = q + 6
    BY <1>3, Zenon
  <2>3. parts[3] = SubSeq(v, q + 1, (q + 2) - 1)
    BY <1>7, <2>2, Zenon
  <2>4. parts[4] = SubSeq(v, q + 2 + 1, (q + 6) - 1)
    BY <1>7, <2>2, Zenon
  <2> QED
    BY <2>1, <2>3, <2>4
<1> QED
  BY <1>6, <1>8 DEF parts

(* The fields are the ones that were laid out: they do not shift.          *)
LEMMA LaidBack ==
  ASSUME NEW v, NEW x, NEW y, NEW c, NEW d, NEW e, NEW f, NEW p, NEW q,
         Laid(v, x, y, c, d, e, f, p, q)
  PROVE  /\ SubSeq(v, 1, p - 1) = x
         /\ SubSeq(v, p + 1, q - 1) = y
         /\ SubSeq(v, q + 1, (q + 2) - 1) = <<c>>
         /\ SubSeq(v, q + 2 + 1, (q + 6) - 1) = <<d, e, f>>
<1> x \in Seq(Chars) /\ y \in Seq(Chars)
  BY DEF Laid, Clean
<1> USE DEF Laid
<1>1. SubSeq(v, 1, p - 1) = x
  OBVIOUS
<1>2. SubSeq(v, p + 1, q - 1) = y
  <2> DEFINE n == q - 1
  <2>1. n \in Nat /\ n = p + Len(y) /\ n <= Len(v)
    OBVIOUS
  <2> HIDE DEF n
  <2>2. SubSeq(v, p + 1, n) = y
    BY <2>1, FieldIs
  <2> QED
    BY <2>2 DEF n
<1>3. SubSeq(v, q + 1, (q + 2) - 1) = <<c>>
  <2> DEFINE n == (q + 2) - 1
             u == <<c>>
  <2>1. u \in Seq(Chars) /\ Len(u) = 1 /\ u[1] = c
    OBVIOUS
  <2>2. n \in Nat /\ n = q + Len(u) /\ n <= Len(v)
    BY <2>1
  <2> HIDE DEF n, u
  <2>3. \A i \in 1 .. Len(u) : v[q + i] = u[i]
    BY <2>1
  <2>4. SubSeq(v, q + 1, n) = u
    BY <2>1, <2>2, <2>3, FieldIs
  <2> QED
    BY <2>4 DEF n, u
<1>4. SubSeq(v, q + 2 + 1, (q + 6) - 1) = <<d, e, f>>
  <2> DEFINE m == q + 2
             n == (q + 6) - 1
             u == <<d, e, f>>
  <2>1. u \in Seq(Chars) /\ Len(u) = 3 /\ u[1] = d /\ u[2] = e /\ u[3] = f
    OBVIOUS
  <2>2. m \in Nat /\ n \in Nat /\ n = m + Len(u) /\ n <= Len(v)
    BY <2>1
  <2>3. v[m + 1] = d /\ v[m + 2] = e /\ v[m + 3] = f
    <3>1. m + 1 = q + 3 /\ m + 2 = q + 4 /\ m + 3 = q + 5
      OBVIOUS
    <3> HIDE DEF m
    <3> QED
      BY <3>1
  <2> HIDE DEF m, n, u
  <2>4. \A i \in 1 .. Len(u) : v[m + i] = u[i]
    <3>1. \A i \in 1 .. Len(u) : i = 1 \/ i = 2 \/ i = 3
      BY <2>1
    <3> QED
      BY <2>1, <2>3, <3>1
  <2>5. SubSeq(v, m + 1, n) = u
    BY <2>1, <2>2, <2>4, FieldIs
  <2> QED
    BY <2>5 DEF m, n, u
<1> QED
  BY <1>1, <1>2, <1>3, <1>4

(* Decoding undoes encoding (decode_token_value, encode_token_value).      *)
LEMMA RoundTrip ==
  ASSUME NEW t, WellKept(t)
  PROVE  decode_token_value(encode_token_value(t)) = {t}
<1> DEFINE v == encode_token_value(t)
           x == t.symbol
           y == t.name
           c == Numeral[t.decimals]
           d == t.sources[1]
           e == t.sources[2]
           f == IF t.measured THEN "d" ELSE "?"
           n == t.decimals
           parts == Split(v)
<1>1. /\ c \in Chars /\ d \in Chars /\ e \in Chars /\ f \in Chars
      /\ c # FIELD_SEP /\ d # FIELD_SEP /\ e # FIELD_SEP /\ f # FIELD_SEP
  BY TextAssumption DEF WellKept, Origins, FIELD_SEP
<1>2. PICK p, q : Laid(v, x, y, c, d, e, f, p, q)
  <2> DEFINE l == Len(x)
             b == l + Len(y) + 2
  <2>1. /\ v \in Seq(Chars) /\ Len(v) = b + 5
        /\ l \in Nat /\ Len(y) \in Nat
        /\ \A i \in 1 .. l : v[i] = x[i]
        /\ v[l + 1] = FIELD_SEP
        /\ \A i \in 1 .. Len(y) : v[l + 1 + i] = y[i]
        /\ v[b] = FIELD_SEP /\ v[b + 1] = c /\ v[b + 2] = FIELD_SEP
        /\ v[b + 3] = d /\ v[b + 4] = e /\ v[b + 5] = f
    BY EncodedPlaces
  <2>2. Clean(x) /\ Clean(y)
    BY DEF WellKept
  <2> HIDE DEF v, x, y, c, d, e, f
  <2>3. l + 1 \in Nat /\ b \in Nat /\ b = l + 1 + Len(y) + 1
    BY <2>1
  <2>4. Laid(v, x, y, c, d, e, f, l + 1, b)
    BY <1>1, <2>1, <2>2, <2>3 DEF Laid
  <2> QED
    BY <2>4
<1>5. d \in {"n", "s", "b", "?"} /\ e \in {"n", "s", "b", "?"}
  BY DEF WellKept, Origins
<1>6. f \in {"d", "?"} /\ (f = "d") = t.measured
  BY DEF WellKept
<1>7. /\ t = [symbol |-> x, name |-> y, decimals |-> n, sources |-> <<d, e>>, measured |-> f = "d"]
      /\ Parse(<<c>>) = {n}
  <2>1. Parse(<<c>>) = {n}
    BY ParseNumeral DEF WellKept
  <2>2. t = [symbol |-> x, name |-> y, decimals |-> n, sources |-> <<d, e>>, measured |-> f = "d"]
    BY <1>6 DEF WellKept
  <2> QED
    BY <2>1, <2>2
<1>8. decode_token_value(v) =
         IF ~(/\ Len(parts) = 4
              /\ Len(parts[3]) = 1 /\ Parse(parts[3]) # {}
              /\ Len(parts[4]) = 3
              /\ parts[4][1] \in {"n", "s", "b", "?"} /\ parts[4][2] \in {"n", "s", "b", "?"}
              /\ parts[4][3] \in {"d", "?"})
         THEN {}
         ELSE {[symbol |-> parts[1], name |-> parts[2],
                decimals |-> CHOOSE m \in Parse(parts[3]) : TRUE,
                sources |-> <<parts[4][1], parts[4][2]>>, measured |-> parts[4][3] = "d"]}
  BY DEF decode_token_value
<1> HIDE DEF v, x, y, c, d, e, f, n, parts
<1>9. /\ Len(parts) = 4
      /\ parts[1] = SubSeq(v, 1, p - 1)
      /\ parts[2] = SubSeq(v, p + 1, q - 1)
      /\ parts[3] = SubSeq(v, q + 1, (q + 2) - 1)
      /\ parts[4] = SubSeq(v, q + 2 + 1, (q + 6) - 1)
  <2>1. Len(Split(v)) = 4
    BY <1>2, LaidFields
  <2>2. Split(v)[1] = SubSeq(v, 1, p - 1)
    BY <1>2, LaidFields
  <2>3. Split(v)[2] = SubSeq(v, p + 1, q - 1)
    BY <1>2, LaidFields
  <2>4. Split(v)[3] = SubSeq(v, q + 1, (q + 2) - 1)
    BY <1>2, LaidFields
  <2>5. Split(v)[4] = SubSeq(v, q + 2 + 1, (q + 6) - 1)
    BY <1>2, LaidFields
  <2> QED
    BY <2>1, <2>2, <2>3, <2>4, <2>5 DEF parts
<1>10. /\ SubSeq(v, 1, p - 1) = x
       /\ SubSeq(v, p + 1, q - 1) = y
       /\ SubSeq(v, q + 1, (q + 2) - 1) = <<c>>
       /\ SubSeq(v, q + 2 + 1, (q + 6) - 1) = <<d, e, f>>
  BY <1>2, LaidBack
<1>13. parts[1] = x /\ parts[2] = y /\ parts[3] = <<c>> /\ parts[4] = <<d, e, f>>
  BY <1>9, <1>10, Zenon
<1>14. Len(parts[3]) = 1 /\ Len(parts[4]) = 3
       /\ parts[4][1] = d /\ parts[4][2] = e /\ parts[4][3] = f
  BY <1>13
<1>15. (CHOOSE m \in {n} : TRUE) = n
  OBVIOUS
<1>16. Parse(parts[3]) = {n} /\ Parse(parts[3]) # {}
  BY <1>7, <1>13
<1>17. decode_token_value(v) =
         {[symbol |-> x, name |-> y, decimals |-> CHOOSE m \in {n} : TRUE,
           sources |-> <<d, e>>, measured |-> f = "d"]}
  <2>1. /\ Len(parts) = 4
        /\ Len(parts[3]) = 1 /\ Parse(parts[3]) # {}
        /\ Len(parts[4]) = 3
        /\ parts[4][1] \in {"n", "s", "b", "?"} /\ parts[4][2] \in {"n", "s", "b", "?"}
        /\ parts[4][3] \in {"d", "?"}
    BY <1>5, <1>6, <1>9, <1>14, <1>16, Zenon
  <2>2. decode_token_value(v) =
          {[symbol |-> parts[1], name |-> parts[2],
            decimals |-> CHOOSE m \in Parse(parts[3]) : TRUE,
            sources |-> <<parts[4][1], parts[4][2]>>, measured |-> parts[4][3] = "d"]}
    BY <1>8, <2>1, Zenon
  <2> QED
    BY <1>13, <1>14, <1>16, <2>2, Zenon
<1>18. decode_token_value(v) = {t}
  BY <1>7, <1>15, <1>17
<1> QED
  BY <1>18 DEF v

-----------------------------------------------------------------------------
(* The eth_call batch.  The currencies asked for are in it, each has a     *)
(* place in a chunk, and the answer found at that place is its own.        *)

(* The place of a currency is that of one of its mentions.                 *)
LEMMA PlaceAt ==
  ASSUME TokensInv, NEW c \in Mentioned
  PROVE  \E i \in RowsOf({"Initialize"}), side \in Sides :
           /\ Currency(block[i].pool, side) = c
           /\ i \in Nat /\ Place(c) = 2 * i + side
<1> DEFINE at == {n \in RowsOf({"Initialize"}) \X Sides : Currency(block[n[1]].pool, n[2]) = c}
           P == {2 * m[1] + m[2] : m \in at}
<1>1. Place(c) = Min(P)
  BY DEF Place
<1>2. \A m \in at : m[1] \in RowsOf({"Initialize"}) /\ m[1] \in Nat /\ m[2] \in {1, 2}
  BY BlockRows DEF TokensInv, Sides
<1>3. at # {}
  <2>1. PICK i \in RowsOf({"Initialize"}), side \in Sides : Currency(block[i].pool, side) = c
    BY DEF Mentioned, Mentions
  <2>2. <<i, side>> \in at
    BY <2>1
  <2> QED
    BY <2>2
<1>4. P \in SUBSET Nat /\ P # {}
  <2> HIDE DEF at
  <2> QED
    BY <1>2, <1>3
<1>5. Min(P) \in P
  <2> HIDE DEF P
  <2> QED
    BY <1>4, MinFacts
<1>6. PICK m \in at : Min(P) = 2 * m[1] + m[2]
  BY <1>5
<1> QED
  BY <1>1, <1>2, <1>6 DEF Sides

(* Two currencies cannot be first mentioned on the same side of one row.   *)
LEMMA PlacesDiffer ==
  ASSUME TokensInv, NEW c \in Mentioned, NEW d \in Mentioned, Place(c) = Place(d)
  PROVE  c = d
<1>1. PICK i \in RowsOf({"Initialize"}), s \in Sides :
        Currency(block[i].pool, s) = c /\ i \in Nat /\ Place(c) = 2 * i + s
  BY PlaceAt
<1>2. PICK j \in RowsOf({"Initialize"}), t \in Sides :
        Currency(block[j].pool, t) = d /\ j \in Nat /\ Place(d) = 2 * j + t
  BY PlaceAt
<1>3. i = j /\ s = t
  <2>1. 2 * i + s = 2 * j + t /\ s \in {1, 2} /\ t \in {1, 2}
    BY <1>1, <1>2 DEF Sides
  <2>2. \A m, n \in Nat : /\ 2 * m + 1 # 2 * n + 2
                          /\ 2 * m + 1 = 2 * n + 1 => m = n
                          /\ 2 * m + 2 = 2 * n + 2 => m = n
    OBVIOUS
  <2> QED
    BY <1>1, <1>2, <2>1, <2>2
<1> QED
  BY <1>1, <1>2, <1>3

(* The order of the writes has each currency, and only those asked for.    *)
LEMMA InPlaceFacts ==
  ASSUME TokensInv, NEW S \in SUBSET Mentioned
  PROVE  /\ InPlace(S) \in Seq(S)
         /\ \A c \in S : \E k \in 1 .. Len(InPlace(S)) : InPlace(S)[k] = c
<1> DEFINE place == [c \in S |-> Place(c)]
           P == {place[c] : c \in S}
           order == Sorted(P)
           n == Cardinality(P)
<1>1. InPlace(S) = [k \in DOMAIN order |-> CHOOSE c \in S : place[c] = order[k]]
  BY DEF InPlace
<1>2. P \in SUBSET Nat
  BY PlaceBounds
<1>3. IsFiniteSet(P)
  <2> DEFINE bound == 2 * MaxRows + 2
  <2>1. MaxRows \in Nat /\ bound \in Nat
    BY TokensAssumption
  <2>2. \A i \in DOMAIN block : i \in 1 .. MaxRows
    BY TokensAssumption DEF TokensInv, BlockTyped, Blocks
  <2>3. \A c \in S : Place(c) \in 0 .. bound
    <3> TAKE c \in S
    <3>1. PICK i \in RowsOf({"Initialize"}), side \in Sides : i \in Nat /\ Place(c) = 2 * i + side
      BY PlaceAt
    <3>2. i \in 1 .. MaxRows /\ side \in {1, 2}
      BY <2>2 DEF RowsOf, Sides
    <3> QED
      BY <2>1, <3>1, <3>2
  <2> HIDE DEF bound
  <2>4. P \in SUBSET (0 .. bound)
    BY <2>3
  <2>5. IsFiniteSet(0 .. bound)
    BY <2>1, FS_Interval
  <2> QED
    BY <2>4, <2>5, FS_Subset, Zenon
<1>4. \A c, d \in S : place[c] = place[d] => c = d
  BY PlacesDiffer
<1>5. \A q \in P : \E c \in S : place[c] = q
  OBVIOUS
<1>6. \A c \in S : place[c] \in P
  OBVIOUS
<1> HIDE DEF P, place
<1>7. /\ n \in Nat /\ DOMAIN order = 1 .. n
      /\ \A k \in 1 .. n : order[k] \in P
      /\ \A q \in P : \E k \in 1 .. n : order[k] = q
  BY <1>2, <1>3, SortedFacts
<1> HIDE DEF order, n
<1>8. \A k \in 1 .. n : InPlace(S)[k] \in S /\ place[InPlace(S)[k]] = order[k]
  BY <1>1, <1>5, <1>7
<1>9. InPlace(S) \in Seq(S) /\ Len(InPlace(S)) = n
  BY <1>1, <1>7, <1>8
<1>10. \A c \in S : \E k \in 1 .. n : InPlace(S)[k] = c
  BY <1>4, <1>6, <1>7, <1>8
<1> QED
  BY <1>9, <1>10

LEMMA Division ==
  ASSUME NEW n \in Nat, NEW size \in Nat \ {0}
  PROVE  /\ n \div size \in Nat /\ n % size \in 0 .. size - 1
         /\ n = size * (n \div size) + (n % size)
<1>1. n \div size \in Nat /\ n % size \in 0 .. size - 1
  OBVIOUS
<1>2. n = size * (n \div size) + (n % size)
  BY Z3T(30)
<1> QED
  BY <1>1, <1>2

(* Enough chunks for all, and the i-th element is in one of them.          *)
LEMMA ChunkPlace ==
  ASSUME NEW n \in Nat, NEW i \in 1 .. n, NEW size \in Nat \ {0}
  PROVE  \E k \in 1 .. (n + size - 1) \div size, o \in 1 .. size :
           /\ i = (k - 1) * size + o
           /\ (k - 1) * size + 1 \in Nat
           /\ k * size \in Nat /\ i <= k * size
<1> DEFINE q == (i - 1) \div size
           r == (i - 1) % size
           Q == (n + size - 1) \div size
           R == (n + size - 1) % size
<1>1. q \in Nat /\ r \in 0 .. size - 1 /\ i - 1 = size * q + r
  <2>1. i - 1 \in Nat
    OBVIOUS
  <2> QED
    BY <2>1, Division
<1>2. Q \in Nat /\ R \in 0 .. size - 1 /\ n + size - 1 = size * Q + R
  <2>1. n + size - 1 \in Nat
    OBVIOUS
  <2> QED
    BY <2>1, Division
<1> HIDE DEF q, r, Q, R
<1>3. size * (q + 1) = size * q + size /\ size * (Q + 1) = size * Q + size
  BY <1>1, <1>2
<1>4. size * q \in Nat /\ size * Q \in Nat
  BY <1>1, <1>2
<1>5. size * (q + 1) < size * (Q + 1)
  BY <1>1, <1>2, <1>3, <1>4
<1>6. q + 1 <= Q
  <2>1. \A x, y \in Nat : size * x < size * (y + 1) => x <= y
    OBVIOUS
  <2> QED
    BY <1>1, <1>2, <1>5, <2>1
<1> DEFINE k == q + 1
           o == r + 1
<1>7. k \in 1 .. Q /\ o \in 1 .. size
  BY <1>1, <1>2, <1>6
<1>8. (k - 1) * size = size * q /\ k * size = size * q + size
  BY <1>1, <1>3
<1>9. i = (k - 1) * size + o /\ (k - 1) * size + 1 \in Nat /\ k * size \in Nat /\ i <= k * size
  BY <1>1, <1>4, <1>8
<1> QED
  BY <1>7, <1>9 DEF Q

LEMMA MinOfTwo ==
  ASSUME NEW m \in Nat, NEW n \in Nat
  PROVE  Min({m, n}) = IF m <= n THEN m ELSE n
BY DEF Min

(* No element is lost when a list is cut into chunks.                      *)
LEMMA ChunkHas ==
  ASSUME NEW T, NEW s \in Seq(T), NEW i \in 1 .. Len(s)
  PROVE  \E m \in (DOMAIN Chunks(s)) \X (1 .. MaxTokensPerBatch) :
           m[2] \in DOMAIN Chunks(s)[m[1]] /\ Chunks(s)[m[1]][m[2]] = s[i]
<1> DEFINE size == MaxTokensPerBatch
           n == Len(s)
<1>1. n \in Nat /\ size \in Nat \ {0} /\ i \in 1 .. n
  BY TokensAssumption
<1>2. Chunks(s) = [k \in 1 .. (n + size - 1) \div size |->
                     SubSeq(s, (k - 1) * size + 1, Min({k * size, n}))]
  BY DEF Chunks
<1> HIDE DEF size
<1>3. PICK k \in 1 .. (n + size - 1) \div size, o \in 1 .. size :
        /\ i = (k - 1) * size + o
        /\ (k - 1) * size + 1 \in Nat
        /\ k * size \in Nat /\ i <= k * size
  BY <1>1, ChunkPlace
<1> DEFINE lo == (k - 1) * size + 1
           hi == Min({k * size, n})
           chunk == SubSeq(s, lo, hi)
<1>4. Chunks(s)[k] = chunk /\ k \in DOMAIN Chunks(s)
  BY <1>2, <1>3
<1>5. hi \in Nat /\ i <= hi /\ hi <= n
  BY <1>1, <1>3, MinOfTwo
<1>6. lo \in 1 .. i /\ o \in Nat /\ i = lo + o - 1 /\ o \in 1 .. hi - lo + 1
  BY <1>1, <1>3, <1>5
<1> HIDE DEF lo, hi, n
<1>7. o \in DOMAIN SubSeq(s, lo, hi) /\ SubSeq(s, lo, hi)[o] = s[i]
  BY <1>1, <1>5, <1>6 DEF n
<1>8. o \in DOMAIN Chunks(s)[k] /\ Chunks(s)[k][o] = s[i]
  BY <1>4, <1>7
<1>9. <<k, o>> \in (DOMAIN Chunks(s)) \X (1 .. size)
  BY <1>3, <1>4
<1> QED
  BY <1>8, <1>9 DEF size

(* What an answer can be: the token's own, or none.                        *)
LEMMA RawIs ==
  ASSUME NEW chunk, NEW failed, NEW short, NEW i \in Nat \ {0}, NEW offset \in 0 .. 2
  PROVE  LET raw == Raw(Responses(chunk, failed, short), i, offset)
         IN  raw = Failed \/ raw = Null \/ raw = Answer(chunk[i], offset)
<1> DEFINE responses == Responses(chunk, failed, short)
           j == CALLS_PER_TOKEN * (i - 1) + offset + 1
           c(m) == chunk[1 + (m - 1) \div CALLS_PER_TOKEN]
           o(m) == (m - 1) % CALLS_PER_TOKEN
           length == IF short THEN 2 ELSE CALLS_PER_TOKEN * Len(chunk)
<1>1. responses = [m \in 1 .. length |-> IF <<c(m), o(m)>> \in failed THEN NoAnswer(o(m))
                                         ELSE Answer(c(m), o(m))]
  BY DEF Responses
<1>2. Raw(responses, i, offset) = IF j \in DOMAIN responses THEN responses[j] ELSE Failed
  BY DEF Raw
<1>3. 1 + (j - 1) \div CALLS_PER_TOKEN = i /\ o(j) = offset
  <2>1. j - 1 = 3 * (i - 1) + offset /\ i - 1 \in Nat
    BY DEF CALLS_PER_TOKEN
  <2>2. \A a \in Nat : (3 * a + offset) \div 3 = a /\ (3 * a + offset) % 3 = offset
    OBVIOUS
  <2> QED
    BY <2>1, <2>2 DEF CALLS_PER_TOKEN
<1>4. c(j) = chunk[i]
  BY <1>3
<1> HIDE DEF responses, j, c, o, length
<1>5. j \in DOMAIN responses =>
        responses[j] = IF <<c(j), o(j)>> \in failed THEN NoAnswer(o(j)) ELSE Answer(c(j), o(j))
  BY <1>1
<1>6. NoAnswer(offset) = Failed \/ NoAnswer(offset) = Null
  BY DEF NoAnswer
<1>7. Raw(responses, i, offset) \in {Failed, Null, Answer(chunk[i], offset)}
  BY <1>2, <1>3, <1>4, <1>5, <1>6
<1> QED
  BY <1>7 DEF responses

(* No answer reads as unknown, and of an answer only clean text is read.   *)
LEMMA TextIs ==
  ASSUME NEW answer, answer.shape \in {"string", "bytes32"}, answer.text \in Seq(Chars),
         NEW raw, raw = Failed \/ raw = Null \/ raw = answer
  PROVE  LET d == decode_text(raw)
         IN  /\ d.text \in {UNKNOWN_TEXT} \cup Text(answer)
             /\ Clean(d.text) /\ d.source \in Origins
             /\ d.source = "?" => d.text = UNKNOWN_TEXT
<1> DEFINE d == decode_text(raw)
<1>1. d = IF Text(raw) = {} THEN [text |-> UNKNOWN_TEXT, source |-> "?"]
          ELSE [text |-> CHOOSE t \in Text(raw) : TRUE,
                source |-> IF raw.shape = "string" THEN "s" ELSE "b"]
  BY DEF decode_text
<1> HIDE DEF d
<1>2. Clean(UNKNOWN_TEXT)
  <2>1. UNKNOWN_TEXT = <<"unknown">> /\ "unknown" \in Chars /\ "unknown" # FIELD_SEP
    BY TextAssumption DEF UNKNOWN_TEXT, FIELD_SEP
  <2> QED
    BY <2>1, OneChar DEF Clean
<1> SUFFICES /\ d.text \in {UNKNOWN_TEXT} \cup Text(answer)
             /\ Clean(d.text) /\ d.source \in Origins
             /\ d.source = "?" => d.text = UNKNOWN_TEXT
  BY DEF d
<1>3. CASE Text(raw) = {}
  BY <1>1, <1>2, <1>3 DEF Origins
<1>4. CASE Text(raw) # {}
  <2>1. raw = answer
    <3>1. Text(Failed) = {}
      BY DEF Text, decode_abi_string, decode_bytes32_string, Failed
    <3>2. Text(Null) = {}
      BY DEF Text, decode_abi_string, decode_bytes32_string, Null
    <3> QED
      BY <1>4, <3>1, <3>2
  <2>2. d.text \in Text(answer) /\ d.source \in {"s", "b"}
    BY <1>1, <1>4, <2>1
  <2>3. Clean(d.text)
    BY <2>2, TextClean
  <2> QED
    BY <2>2, <2>3 DEF Origins
<1> QED
  BY <1>3, <1>4

(* Decimals are the contract's or none.                                    *)
LEMMA DecimalsIs ==
  ASSUME NEW c \in Currencies,
         NEW raw, raw = Failed \/ raw = Null \/ raw = Number(Decimals[c])
  PROVE  decode_decimals(raw) = {} \/ decode_decimals(raw) = {Decimals[c]}
<1>1. decode_decimals(Failed) = {}
  BY DEF decode_decimals, Failed
<1>2. decode_decimals(Null) = {}
  BY DEF decode_decimals, Null
<1>3. decode_decimals(Number(Decimals[c])) \in {{}, {Decimals[c]}}
  BY DEF decode_decimals, Number
<1> QED
  BY <1>1, <1>2, <1>3

(* A token as store_tokens may have resolved it.                           *)
Faithful(c, t) ==
  /\ WellKept(t)
  /\ t.symbol \in Called(c, Symbols[c], NATIVE_SYMBOL)
  /\ t.name \in Called(c, Names[c], NATIVE_NAME)
  /\ t.sources[1] = "?" => t.symbol = UNKNOWN_TEXT
  /\ t.decimals = IF t.measured THEN Decimals[c] ELSE DEFAULT_DECIMALS

LEMMA TokenFaithful ==
  ASSUME NEW c \in Currencies, NEW symbol, NEW name, NEW decimals,
         symbol.text \in Called(c, Symbols[c], NATIVE_SYMBOL), Clean(symbol.text),
         name.text \in Called(c, Names[c], NATIVE_NAME), Clean(name.text),
         symbol.source \in Origins, name.source \in Origins,
         symbol.source = "?" => symbol.text = UNKNOWN_TEXT,
         decimals = {} \/ decimals = {Decimals[c]}
  PROVE  Faithful(c, Token(symbol, name, decimals))
<1> DEFINE t == Token(symbol, name, decimals)
<1>1. Decimals[c] \in 0 .. MAX_DECIMALS /\ DEFAULT_DECIMALS \in 0 .. MAX_DECIMALS
  BY TokensAssumption DEF MAX_DECIMALS, DEFAULT_DECIMALS
<1>2. (CHOOSE d \in {Decimals[c]} : TRUE) = Decimals[c]
  OBVIOUS
<1>3. t = [symbol |-> symbol.text, name |-> name.text,
           decimals |-> IF decimals = {} THEN DEFAULT_DECIMALS ELSE Decimals[c],
           sources |-> <<symbol.source, name.source>>, measured |-> decimals # {}]
  <2>1. decimals # {} => (CHOOSE d \in decimals : TRUE) = Decimals[c]
    BY <1>2
  <2> QED
    BY <2>1 DEF Token
<1> HIDE DEF t
<1>4. /\ t.symbol = symbol.text /\ t.name = name.text
      /\ t.decimals = IF decimals = {} THEN DEFAULT_DECIMALS ELSE Decimals[c]
      /\ t.sources = <<symbol.source, name.source>> /\ t.measured = (decimals # {})
      /\ t.sources[1] = symbol.source /\ t.sources[2] = name.source
  BY <1>3
<1>5. t = [symbol |-> t.symbol, name |-> t.name, decimals |-> t.decimals,
           sources |-> <<t.sources[1], t.sources[2]>>, measured |-> t.measured]
  BY <1>3
<1>6. WellKept(t)
  BY <1>1, <1>4, <1>5 DEF WellKept
<1> QED
  BY <1>4, <1>6 DEF Faithful, t

LEMMA NativeFaithful == Faithful(Native, native_token)
<1> DEFINE symbol == [text |-> NATIVE_SYMBOL, source |-> "n"]
           name == [text |-> NATIVE_NAME, source |-> "n"]
<1>1. Clean(NATIVE_SYMBOL) /\ Clean(NATIVE_NAME)
  <2>1. /\ NATIVE_SYMBOL = <<"ETH">> /\ "ETH" \in Chars /\ "ETH" # FIELD_SEP
        /\ NATIVE_NAME = <<"Ethereum">> /\ "Ethereum" \in Chars /\ "Ethereum" # FIELD_SEP
    BY TextAssumption DEF NATIVE_SYMBOL, NATIVE_NAME, FIELD_SEP
  <2> QED
    BY <2>1, OneChar DEF Clean
<1>2. /\ symbol.text \in Called(Native, Symbols[Native], NATIVE_SYMBOL)
      /\ name.text \in Called(Native, Names[Native], NATIVE_NAME)
      /\ symbol.source = "n" /\ name.source = "n"
      /\ symbol.text = NATIVE_SYMBOL /\ name.text = NATIVE_NAME
  BY DEF Called
<1>3. Native \in Currencies /\ {NATIVE_DECIMALS} = {Decimals[Native]}
  BY TokensAssumption
<1>4. native_token = Token(symbol, name, {NATIVE_DECIMALS})
  BY DEF native_token
<1> HIDE DEF symbol, name
<1>5. Faithful(Native, Token(symbol, name, {NATIVE_DECIMALS}))
  BY <1>1, <1>2, <1>3, TokenFaithful DEF Origins
<1> QED
  BY <1>4, <1>5

(* Every token store_tokens resolves is faithful, whichever calls failed.  *)
LEMMA FetchedFaithful ==
  ASSUME TokensInv, NEW c \in Mentioned, NEW failed, NEW short,
         NEW chunks, chunks = Chunks(Asked),
         NEW responses,
         responses = [k \in DOMAIN chunks |-> Responses(chunks[k], failed, k \in short)]
  PROVE  Faithful(c, Fetched(c, chunks, responses))
<1>1. CASE c = Native
  BY <1>1, NativeFaithful DEF Fetched
<1>2. CASE c # Native
  <2> DEFINE has(m) == m[2] \in DOMAIN chunks[m[1]] /\ chunks[m[1]][m[2]] = c
             places == (DOMAIN chunks) \X (1 .. MaxTokensPerBatch)
             at == CHOOSE m \in places : has(m)
             chunk == chunks[at[1]]
             raw(offset) == Raw(responses[at[1]], at[2], offset)
  <2>1. \E m \in places : has(m)
    <3>1. Mentioned \ {Native} \in SUBSET Mentioned /\ c \in Mentioned \ {Native}
      BY <1>2
    <3>2. /\ Asked \in Seq(Mentioned \ {Native})
          /\ \E k \in 1 .. Len(Asked) : Asked[k] = c
      BY <3>1, InPlaceFacts DEF Asked
    <3> QED
      BY <3>2, ChunkHas
  <2>2. at \in places /\ has(at)
    BY <2>1
  <2>3. Fetched(c, chunks, responses) = FetchedFrom(responses[at[1]], at[2])
    BY <1>2 DEF Fetched
  <2> HIDE DEF at
  <2>4. at[1] \in DOMAIN chunks /\ at[2] \in Nat \ {0} /\ chunk[at[2]] = c
    BY <2>2
  <2>5. responses[at[1]] = Responses(chunk, failed, at[1] \in short)
    BY <2>4
  <2>6. \A offset \in 0 .. 2 : raw(offset) = Failed \/ raw(offset) = Null \/ raw(offset) = Answer(c, offset)
    BY <2>4, <2>5, RawIs
  <2>7. FetchedFrom(responses[at[1]], at[2])
          = Token(decode_text(raw(0)), decode_text(raw(1)), decode_decimals(raw(2)))
    BY DEF FetchedFrom
  <2> HIDE DEF raw, places, has, chunk
  <2>8. c \in Currencies
    BY DEF Mentioned
  <2>9. /\ raw(0) = Failed \/ raw(0) = Null \/ raw(0) = Symbols[c]
        /\ raw(1) = Failed \/ raw(1) = Null \/ raw(1) = Names[c]
        /\ raw(2) = Failed \/ raw(2) = Null \/ raw(2) = Number(Decimals[c])
    BY <2>6 DEF Answer
  <2>10. /\ Symbols[c].shape \in {"string", "bytes32"} /\ Symbols[c].text \in Seq(Chars)
         /\ Names[c].shape \in {"string", "bytes32"} /\ Names[c].text \in Seq(Chars)
    BY <2>8, TokensAssumption
  <2> DEFINE symbol == decode_text(raw(0))
             name == decode_text(raw(1))
             decimals == decode_decimals(raw(2))
  <2>11. /\ symbol.text \in {UNKNOWN_TEXT} \cup Text(Symbols[c])
         /\ Clean(symbol.text) /\ symbol.source \in Origins
         /\ symbol.source = "?" => symbol.text = UNKNOWN_TEXT
    BY <2>9, <2>10, TextIs
  <2>12. /\ name.text \in {UNKNOWN_TEXT} \cup Text(Names[c])
         /\ Clean(name.text) /\ name.source \in Origins
    BY <2>9, <2>10, TextIs
  <2>13. decimals = {} \/ decimals = {Decimals[c]}
    BY <2>8, <2>9, DecimalsIs
  <2> HIDE DEF symbol, name, decimals
  <2>14. /\ symbol.text \in Called(c, Symbols[c], NATIVE_SYMBOL)
         /\ name.text \in Called(c, Names[c], NATIVE_NAME)
    BY <1>2, <2>11, <2>12 DEF Called
  <2>15. Faithful(c, Token(symbol, name, decimals))
    BY <2>8, <2>11, <2>12, <2>13, <2>14, TokenFaithful
  <2> QED
    BY <2>3, <2>7, <2>15 DEF symbol, name, decimals
<1> QED
  BY <1>1, <1>2

-----------------------------------------------------------------------------
(* What the store holds, and what is read of it.                           *)

(* Every entry is the encoding of a token as it was resolved.              *)
StoreGood ==
  \A c \in DOMAIN store_tokens :
    c \in Currencies /\ \E t : Faithful(c, t) /\ store_tokens[c] = encode_token_value(t)

(* An entry of the store decodes to a faithful token.                      *)
LEMMA KnownIs ==
  ASSUME StoreGood, NEW c
  PROVE  /\ Known(c) = {} \/ \E t : Faithful(c, t) /\ Known(c) = {t}
         /\ c \in DOMAIN store_tokens => \E t : Faithful(c, t) /\ Known(c) = {t}
<1>1. CASE c \notin DOMAIN store_tokens
  BY <1>1 DEF Known
<1>2. CASE c \in DOMAIN store_tokens
  <2>1. PICK t : Faithful(c, t) /\ store_tokens[c] = encode_token_value(t)
    BY <1>2 DEF StoreGood
  <2>2. Known(c) = {t}
    BY <1>2, <2>1, RoundTrip DEF Known, Faithful
  <2> QED
    BY <2>1, <2>2
<1> QED
  BY <1>1, <1>2

LEMMA PairTyped ==
  ASSUME NEW S, NEW f, f = [side \in {1, 2} |-> f[side]], f[1] \in S, f[2] \in S
  PROVE  f \in S \X S /\ f \in Seq(S)
<1>1. f = <<f[1], f[2]>>
  OBVIOUS
<1>2. \A x, y \in S : <<x, y>> \in S \X S /\ <<x, y>> \in Seq(S)
  OBVIOUS
<1> QED
  BY <1>1, <1>2

EnrichedRows ==
  [resolved : BOOLEAN, decimals : Nat \X Nat, symbols : Seq(Seq(Chars)), measured : BOOLEAN]

(* The columns of a row are typed, and measured decimals are true.         *)
LEMMA AttachFacts ==
  ASSUME StoreGood, NEW row
  PROVE  /\ AttachTokens(row) \in EnrichedRows
         /\ \A side \in Sides : AttachTokens(row).symbols[side] \in Seq(Chars)
         /\ AttachTokens(row).measured =>
              \A side \in Sides : AttachTokens(row).decimals[side] = Decimals[Currency(row.pool, side)]
<1> DEFINE cur(side) == Currency(row.pool, side)
           known == [side \in Sides |-> IF Resolved(row) THEN Known(cur(side)) ELSE {}]
           the(side) == CHOOSE t \in known[side] : TRUE
           S == [side \in Sides |-> IF known[side] = {} THEN <<>> ELSE the(side).symbol]
           D == [side \in Sides |-> IF known[side] = {} THEN 0 ELSE the(side).decimals]
           m == Measured(known)
           a == AttachTokens(row)
<1>1. a = [resolved |-> Resolved(row), symbols |-> S, decimals |-> D, measured |-> m]
  BY DEF AttachTokens
<1>2. \A side \in Sides :
        known[side] = {} \/ \E t : Faithful(cur(side), t) /\ known[side] = {t}
  BY KnownIs
<1>3. \A t : (CHOOSE x \in {t} : TRUE) = t
  OBVIOUS
<1>4. \A side \in Sides : known[side] # {} => Faithful(cur(side), the(side)) /\ known[side] = {the(side)}
  BY <1>2, <1>3
<1>5. m = \A side \in Sides : \E t \in known[side] : t.measured
  BY DEF Measured
<1>6. Resolved(row) \in BOOLEAN /\ m \in BOOLEAN
  BY DEF Resolved, Measured
<1> HIDE DEF known, the, m, a, cur
<1>7. \A side \in Sides :
        /\ S[side] = IF known[side] = {} THEN <<>> ELSE the(side).symbol
        /\ D[side] = IF known[side] = {} THEN 0 ELSE the(side).decimals
  OBVIOUS
<1>8. /\ S = [side \in {1, 2} |-> S[side]] /\ D = [side \in {1, 2} |-> D[side]]
  BY DEF Sides
<1> HIDE DEF S, D
<1>9. \A side \in Sides : S[side] \in Seq(Chars) /\ D[side] \in Nat
  <2> TAKE side \in Sides
  <2>1. CASE known[side] = {}
    <3>1. <<>> \in Seq(Chars)
      OBVIOUS
    <3>2. S[side] = <<>> /\ D[side] = 0
      BY <1>7, <2>1
    <3> QED
      BY <3>1, <3>2
  <2>2. CASE known[side] # {}
    <3>1. Clean(the(side).symbol) /\ the(side).decimals \in 0 .. MAX_DECIMALS
      BY <1>4, <2>2 DEF Faithful, WellKept
    <3>2. the(side).symbol \in Seq(Chars) /\ the(side).decimals \in Nat
      BY <3>1 DEF Clean
    <3> QED
      BY <1>7, <2>2, <3>2
  <2> QED
    BY <2>1, <2>2
<1>10. D \in Nat \X Nat /\ S \in Seq(Seq(Chars))
  BY <1>8, <1>9, PairTyped DEF Sides
<1>11. m => \A side \in Sides : D[side] = Decimals[cur(side)]
  <2> SUFFICES ASSUME m, NEW side \in Sides PROVE D[side] = Decimals[cur(side)]
    OBVIOUS
  <2>1. PICK t \in known[side] : t.measured
    BY <1>5
  <2>2. Faithful(cur(side), the(side)) /\ t = the(side) /\ D[side] = the(side).decimals
    BY <1>4, <1>7, <2>1
  <2> QED
    BY <2>1, <2>2 DEF Faithful
<1>12. a \in EnrichedRows
  BY <1>1, <1>6, <1>10 DEF EnrichedRows
<1>13. a.symbols = S /\ a.decimals = D /\ a.measured = m
  BY <1>1
<1> QED
  BY <1>9, <1>11, <1>12, <1>13 DEF a, cur

(* A pool that store_pools knows has an entry for both its currencies, or  *)
(* is one the block initialises and store_tokens has yet to run on.        *)
StoreKeeps ==
  \A p \in store_pools :
    \/ \A side \in Sides : Currency(p, side) \in DOMAIN store_tokens
    \/ stage = "store_tokens" /\ \E i \in RowsOf({"Initialize"}) : block[i].pool = p

(* The rows of map_enriched are typed, and those of the block at db_out.   *)
RowsTyped ==
  /\ DOMAIN enriched \subseteq DOMAIN block
  /\ stage = "db_out" => DOMAIN enriched = DOMAIN block
  /\ \A i \in DOMAIN enriched :
       enriched[i] \in EnrichedRows /\ \A side \in Sides : enriched[i].symbols[side] \in Seq(Chars)
  /\ \A c \in DOMAIN token :
       token[c] \in [symbol : Seq(Chars), decimals : Nat, measured : BOOLEAN, last_seen : 1 .. MaxBlocks]

Counted ==
  /\ height \in 0 .. MaxBlocks
  /\ stage \in {"idle", "store_tokens", "map_enriched", "db_out"}
  /\ stage # "idle" => height # 0
  /\ store_pools \cap Legacy = {}
  /\ asked \in Seq(Currencies \ {Native})

KeptInv == StoreGood /\ StoreKeeps /\ RowsTyped /\ Counted /\ MeasuredIsTrue

LEMMA InitKept == Init => KeptInv
BY TokensAssumption DEF Init, KeptInv, StoreGood, StoreKeeps, RowsTyped, Counted, MeasuredIsTrue

LEMMA NewBlockKept ==
  ASSUME KeptInv, NEW b \in Blocks, NewBlock(b)
  PROVE  KeptInv'
<1>1. /\ stage = "idle" /\ stage' = "store_tokens" /\ block' = b
      /\ height < MaxBlocks /\ height' = height + 1 /\ Legal(b)
      /\ asked' = <<>> /\ enriched' = <<>> /\ token' = token /\ store_tokens' = store_tokens
      /\ store_pools' = store_pools
                          \cup {b[i].pool : i \in {k \in DOMAIN b : b[k].kind = "Initialize"}}
  BY DEF NewBlock
<1>2. StoreGood'
  BY <1>1 DEF KeptInv, StoreGood, Faithful, WellKept, Clean, Called, Text
<1>3. StoreKeeps'
  <2>1. \A p \in store_pools' \ store_pools :
          \E i \in RowsOf({"Initialize"})' : block'[i].pool = p
    BY <1>1 DEF RowsOf
  <2> QED
    BY <1>1, <2>1 DEF KeptInv, StoreKeeps, Currency
<1>4. RowsTyped' /\ MeasuredIsTrue'
  BY <1>1 DEF KeptInv, RowsTyped, MeasuredIsTrue
<1>5. Counted'
  <2>1. \A i \in DOMAIN b : b[i].kind = "Initialize" => b[i].pool \notin Legacy
    BY <1>1 DEF Legal
  <2>2. height' \in 0 .. MaxBlocks /\ height' # 0
    BY <1>1, TokensAssumption DEF KeptInv, Counted
  <2> QED
    BY <1>1, <2>1, <2>2 DEF KeptInv, Counted
<1> QED
  BY <1>2, <1>3, <1>4, <1>5 DEF KeptInv

LEMMA StoreTokensKept == ASSUME TokensInv, KeptInv, StoreTokens PROVE KeptInv'
<1> DEFINE chunks == Chunks(Asked)
           responses(failed, short) ==
             [k \in DOMAIN chunks |-> Responses(chunks[k], failed, k \in short)]
<1>1. /\ stage = "store_tokens" /\ stage' = "map_enriched" /\ asked' = Asked
      /\ UNCHANGED <<height, block, store_pools, enriched, token>>
  BY DEF StoreTokens
<1>2. PICK failed, short :
        store_tokens' = [c \in DOMAIN store_tokens \cup Mentioned |->
                           IF c \in Mentioned
                           THEN encode_token_value(Fetched(c, chunks, responses(failed, short)))
                           ELSE store_tokens[c]]
  BY DEF StoreTokens
<1>3. \A c \in Mentioned : Faithful(c, Fetched(c, chunks, responses(failed, short)))
  BY FetchedFaithful
<1> HIDE DEF chunks, responses
<1>4. DOMAIN store_tokens' = DOMAIN store_tokens \cup Mentioned
  BY <1>2
<1>5. StoreGood'
  <2> SUFFICES ASSUME NEW c \in DOMAIN store_tokens'
               PROVE  c \in Currencies /\ \E t : Faithful(c, t) /\ store_tokens'[c] = encode_token_value(t)
    BY DEF StoreGood, Faithful, WellKept, Clean, Called, Text
  <2>1. CASE c \in Mentioned
    <3>1. c \in Currencies
      BY <2>1 DEF Mentioned
    <3>2. store_tokens'[c] = encode_token_value(Fetched(c, chunks, responses(failed, short)))
      BY <1>2, <2>1
    <3> QED
      BY <1>3, <2>1, <3>1, <3>2
  <2>2. CASE c \notin Mentioned
    <3>1. c \in DOMAIN store_tokens /\ store_tokens'[c] = store_tokens[c]
      BY <1>2, <1>4, <2>2
    <3> QED
      BY <3>1 DEF KeptInv, StoreGood
  <2> QED
    BY <2>1, <2>2
<1>6. StoreKeeps'
  <2>1. \A i \in RowsOf({"Initialize"}), side \in Sides : Currency(block[i].pool, side) \in Mentioned
    <3> TAKE i \in RowsOf({"Initialize"}), side \in Sides
    <3>1. Currency(block[i].pool, side) \in Currencies
      BY BlockRows, CurrencyTyped DEF TokensInv
    <3> QED
      BY <3>1 DEF Mentioned, Mentions
  <2> QED
    BY <1>1, <1>4, <2>1 DEF KeptInv, StoreKeeps, Currency
<1>7. RowsTyped' /\ MeasuredIsTrue'
  BY <1>1 DEF KeptInv, RowsTyped, MeasuredIsTrue, Currency
<1>8. Counted'
  <2>1. Asked \in Seq(Currencies \ {Native})
    <3>1. Mentioned \ {Native} \in SUBSET Mentioned /\ Mentioned \ {Native} \subseteq Currencies \ {Native}
      BY DEF Mentioned
    <3>2. Asked \in Seq(Mentioned \ {Native})
      BY <3>1, InPlaceFacts DEF Asked
    <3> QED
      BY <3>1, <3>2
  <2> QED
    BY <1>1, <2>1 DEF KeptInv, Counted
<1> QED
  BY <1>5, <1>6, <1>7, <1>8 DEF KeptInv

LEMMA MapEnrichedKept == ASSUME KeptInv, MapEnriched PROVE KeptInv'
<1>1. /\ stage = "map_enriched" /\ stage' = "db_out"
      /\ enriched' = [i \in DOMAIN block |-> AttachTokens(block[i])]
      /\ UNCHANGED <<height, block, store_pools, store_tokens, asked, token>>
  BY DEF MapEnriched
<1>2. \A i \in DOMAIN enriched' : i \in DOMAIN block /\ enriched'[i] = AttachTokens(block[i])
  BY <1>1
<1>3. StoreGood
  BY DEF KeptInv
<1>4. StoreGood'
  BY <1>1 DEF KeptInv, StoreGood, Faithful, WellKept, Clean, Called, Text
<1>5. StoreKeeps' /\ Counted'
  BY <1>1 DEF KeptInv, StoreKeeps, Counted, Currency, RowsOf
<1>6. RowsTyped'
  BY <1>1, <1>2, <1>3, AttachFacts DEF KeptInv, RowsTyped
<1>7. MeasuredIsTrue'
  BY <1>1, <1>2, <1>3, AttachFacts DEF KeptInv, MeasuredIsTrue, Currency
<1> QED
  BY <1>4, <1>5, <1>6, <1>7 DEF KeptInv

(* The row that gives a currency its columns has the currency on the side  *)
(* the columns are taken from.                                             *)
LEMMA SourceRowFacts ==
  ASSUME TokensInv, NEW c, SourceRow(c) # 0
  PROVE  /\ SourceRow(c) \in DOMAIN block
         /\ SideOf(block[SourceRow(c)].pool, c) \in Sides
         /\ Currency(block[SourceRow(c)].pool, SideOf(block[SourceRow(c)].pool, c)) = c
<1> DEFINE inits == Naming({"Initialize"}, c)
           swaps == Naming({"Swap"}, c)
           row == SourceRow(c)
           sides == {side \in Sides : Currency(block[row].pool, side) = c}
<1>1. inits \in SUBSET Nat /\ swaps \in SUBSET Nat
  BY BlockRows DEF TokensInv, Naming
<1>2. row = IF inits # {} THEN Min(inits) ELSE IF swaps # {} THEN Min(swaps) ELSE 0
  BY DEF SourceRow
<1>3. \A i \in inits \cup swaps :
        i \in DOMAIN block /\ \E side \in Sides : Currency(block[i].pool, side) = c
  BY DEF Naming, RowsOf
<1> HIDE DEF inits, swaps, row
<1>4. row \in inits \cup swaps
  <2>1. inits # {} => Min(inits) \in inits
    BY <1>1, MinFacts
  <2>2. swaps # {} => Min(swaps) \in swaps
    BY <1>1, MinFacts
  <2> QED
    BY <1>2, <2>1, <2>2 DEF row
<1>5. sides # {} /\ sides \in SUBSET Nat
  BY <1>3, <1>4 DEF Sides
<1>6. SideOf(block[row].pool, c) = Min(sides)
  BY DEF SideOf
<1> HIDE DEF sides
<1>7. Min(sides) \in sides
  BY <1>5, MinFacts
<1> QED
  BY <1>3, <1>4, <1>6, <1>7 DEF sides, row

LEMMA DbOutKept == ASSUME TokensInv, KeptInv, DbOut PROVE KeptInv'
<1> DEFINE named == {c \in Currencies : SourceRow(c) # 0}
<1>1. /\ stage = "db_out" /\ stage' = "idle"
      /\ token' = [c \in DOMAIN token \cup named |-> IF c \in named THEN TokenRow(c) ELSE token[c]]
      /\ UNCHANGED <<height, block, store_pools, store_tokens, asked, enriched>>
  BY DEF DbOut
<1>2. \A c \in named :
        /\ TokenRow(c) \in [symbol : Seq(Chars), decimals : Nat, measured : BOOLEAN,
                            last_seen : 1 .. MaxBlocks]
        /\ TokenRow(c).measured => TokenRow(c).decimals = Decimals[c]
  <2> TAKE c \in named
  <2> DEFINE row == SourceRow(c)
             side == SideOf(block[row].pool, c)
  <2>1. row \in DOMAIN block /\ side \in Sides /\ Currency(block[row].pool, side) = c
    BY SourceRowFacts
  <2>2. TokenRow(c) = [symbol |-> enriched[row].symbols[side], decimals |-> enriched[row].decimals[side],
                       measured |-> enriched[row].measured, last_seen |-> height]
    BY DEF TokenRow
  <2> HIDE DEF row, side
  <2>3. /\ enriched[row] \in EnrichedRows /\ enriched[row].symbols[side] \in Seq(Chars)
        /\ enriched[row].measured => enriched[row].decimals[side] = Decimals[c]
    BY <1>1, <2>1 DEF KeptInv, RowsTyped, MeasuredIsTrue
  <2>4. enriched[row].decimals[side] \in Nat /\ enriched[row].measured \in BOOLEAN
    BY <2>1, <2>3 DEF EnrichedRows, Sides
  <2>5. height \in 1 .. MaxBlocks
    BY <1>1, TokensAssumption DEF KeptInv, Counted
  <2> QED
    BY <2>2, <2>3, <2>4, <2>5
<1> HIDE DEF named
<1>3. \A c \in DOMAIN token' : \/ c \in named /\ token'[c] = TokenRow(c)
                               \/ c \in DOMAIN token /\ token'[c] = token[c]
  BY <1>1
<1>4. RowsTyped'
  BY <1>1, <1>2, <1>3 DEF KeptInv, RowsTyped
<1>5. MeasuredIsTrue'
  BY <1>1, <1>2, <1>3 DEF KeptInv, MeasuredIsTrue, Currency
<1>6. StoreGood'
  BY <1>1 DEF KeptInv, StoreGood, Faithful, WellKept, Clean, Called, Text
<1>7. StoreKeeps' /\ Counted'
  BY <1>1 DEF KeptInv, StoreKeeps, Counted, Currency, RowsOf
<1> QED
  BY <1>4, <1>5, <1>6, <1>7 DEF KeptInv

LEMMA NextKept == TokensInv /\ KeptInv /\ [Next]_vars => KeptInv'
<1> SUFFICES ASSUME TokensInv, KeptInv, [Next]_vars PROVE KeptInv'
  OBVIOUS
<1>1. CASE UNCHANGED vars
  <2>1. StoreGood'
    BY <1>1 DEF vars, KeptInv, StoreGood, Faithful, WellKept, Clean, Called, Text
  <2>2. StoreKeeps' /\ Counted'
    BY <1>1 DEF vars, KeptInv, StoreKeeps, Counted, Currency, RowsOf
  <2>3. RowsTyped'
    BY <1>1 DEF vars, KeptInv, RowsTyped
  <2>4. MeasuredIsTrue'
    BY <1>1 DEF vars, KeptInv, MeasuredIsTrue, Currency
  <2> QED
    BY <2>1, <2>2, <2>3, <2>4 DEF KeptInv
<1> QED
  BY <1>1, NewBlockKept, StoreTokensKept, MapEnrichedKept, DbOutKept DEF Next

LEMMA KeptInvariance == Spec => []KeptInv
BY InitKept, NextKept, TokensInvariance, PTL DEF Spec

-----------------------------------------------------------------------------
(* Every variable has its type (tokens.rs, enrich.rs, db_out.rs).          *)
THEOREM TypeCorrect == Spec => []TypeOK
<1>1. TokensInv /\ KeptInv => TypeOK
  <2> SUFFICES ASSUME TokensInv, KeptInv PROVE TypeOK
    OBVIOUS
  <2>1. \A c \in DOMAIN store_tokens : c \in Currencies /\ store_tokens[c] \in Seq(Chars)
    <3> TAKE c \in DOMAIN store_tokens
    <3>1. PICK t : Faithful(c, t) /\ store_tokens[c] = encode_token_value(t)
      BY DEF KeptInv, StoreGood
    <3>2. encode_token_value(t) \in Seq(Chars)
      BY <3>1, EncodedPlaces DEF Faithful
    <3> QED
      BY <3>1, <3>2 DEF KeptInv, StoreGood
  <2>2. \A c \in DOMAIN ordinals : ordinals[c] \in DOMAIN block
    <3> TAKE c \in DOMAIN ordinals
    <3> DEFINE M == Mentions(c)
    <3>1. ordinals[c] = Min(M) /\ M # {} /\ M \in SUBSET Nat /\ M \subseteq DOMAIN block
      BY BlockRows DEF TokensInv, OrdinalsExact, Ordinal, Mentioned, Mentions
    <3> HIDE DEF M
    <3>2. Min(M) \in M
      BY <3>1, MinFacts
    <3> QED
      BY <3>1, <3>2
  <2>3. store_pools \subseteq Pools \ Legacy
    BY DEF TokensInv, KeptInv, Counted
  <2> QED
    BY <2>1, <2>2, <2>3 DEF TypeOK, TokensInv, BlockTyped, KeptInv, Counted, RowsTyped, EnrichedRows
<1> QED
  BY <1>1, TokensInvariance, KeptInvariance, PTL

(* Money is never scaled by a default: a row, or a row of the token table, *)
(* that says its decimals were measured has the decimals of the contract,  *)
(* whatever calls failed in whichever blocks (tokens.rs, attach_tokens).   *)
THEOREM MeasuredDecimalsAreTrue == Spec => []MeasuredIsTrue
<1>1. KeptInv => MeasuredIsTrue
  BY DEF KeptInv
<1> QED
  BY <1>1, KeptInvariance, PTL

(* A row that finds its pool finds an entry that decodes for both its      *)
(* currencies, and the entry's fields are the token's own, whatever        *)
(* separators and numbers it puts into its name (tokens.rs,                *)
(* fetch_token_meta, sanitize, decode_token_value).                        *)
THEOREM ResolvedTokensDecode == Spec => []ResolvedHasTokens
<1>1. TokensInv /\ KeptInv => ResolvedHasTokens
  <2> SUFFICES ASSUME TokensInv, KeptInv, stage \in {"map_enriched", "db_out", "idle"},
                      NEW p \in store_pools, NEW side \in Sides
               PROVE  LET c == Currency(p, side)
                      IN  /\ c \in DOMAIN store_tokens
                          /\ \E t \in Known(c) :
                               /\ t.symbol \in Called(c, Symbols[c], NATIVE_SYMBOL)
                               /\ t.name \in Called(c, Names[c], NATIVE_NAME)
                               /\ t.sources[1] = "?" => t.symbol = UNKNOWN_TEXT
                               /\ t.decimals = IF t.measured THEN Decimals[c] ELSE DEFAULT_DECIMALS
    BY DEF ResolvedHasTokens
  <2> DEFINE c == Currency(p, side)
  <2>1. c \in DOMAIN store_tokens
    BY DEF KeptInv, StoreKeeps
  <2> HIDE DEF c
  <2>2. PICK t : Faithful(c, t) /\ Known(c) = {t}
    BY <2>1, KnownIs DEF KeptInv
  <2>3. t \in Known(c)
    BY <2>2
  <2> QED
    BY <2>1, <2>2, <2>3 DEF c, Faithful
<1> QED
  BY <1>1, TokensInvariance, KeptInvariance, PTL
=============================================================================

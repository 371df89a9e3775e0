---------------------------- MODULE DbOutProofs ----------------------------
(***************************************************************************)
(* The tables of the sink hold exactly the blocks up to its cursor, for    *)
(* any alphabet of logs, batch size and number of runs and reorganisations.*)
(***************************************************************************)
EXTENDS DbOut, Extremes, FiniteSetTheorems

(* What the stream keeps of the chain.                                     *)
ChainLegal ==
  /\ chain \in Seq(Blocks) /\ Len(chain) <= Stop
  /\ \A x \in Places(chain) : LegalAt(chain, x)

-----------------------------------------------------------------------------
(* The chain and its places.                                               *)

LEMMA BlockFacts ==
  ASSUME NEW b \in Blocks
  PROVE  /\ \E k \in 0 .. MaxLogs : DOMAIN b = 1 .. k
         /\ DOMAIN b \subseteq 1 .. MaxLogs /\ DOMAIN b \subseteq Nat
         /\ \A i \in DOMAIN b : b[i] \in Log
<1>1. PICK k \in 0 .. MaxLogs : b \in [1 .. k -> Logs]
  BY DEF Blocks
<1> QED
  BY <1>1, DbOutAssumption

LEMMA LogFacts ==
  ASSUME NEW l \in Log
  PROVE  /\ l.kind \in {"Initialize", "Swap", "Transfer", "Subscription", "AggregatorPoolRegistered"}
         /\ l.kind \in {"Initialize", "Swap"} => l.id \in Pools /\ l.value \in Nat
         /\ l.kind = "Transfer" => /\ l.id \in Positions /\ l.from \in Owners \cup {Nobody}
                                   /\ l.value \in Owners \cup {Nobody}
BY DEF Log

LEMMA PlaceFacts ==
  ASSUME NEW c \in Seq(Blocks)
  PROVE  /\ \A n \in DOMAIN c : \A i \in DOMAIN c[n] : <<n, i>> \in Places(c)
         /\ \A x \in Places(c) : /\ x = <<x[1], x[2]>> /\ x[1] \in DOMAIN c /\ x[2] \in DOMAIN c[x[1]]
                                 /\ x[1] \in Nat \ {0} /\ x[2] \in 1 .. MaxLogs
                                 /\ LogAt(c, x) \in Log
<1>1. \A n \in DOMAIN c : \A i \in DOMAIN c[n] : <<n, i>> \in Places(c)
  BY DEF Places
<1>2. ASSUME NEW x \in Places(c)
      PROVE  /\ x = <<x[1], x[2]>> /\ x[1] \in DOMAIN c /\ x[2] \in DOMAIN c[x[1]]
             /\ x[1] \in Nat \ {0} /\ x[2] \in 1 .. MaxLogs
             /\ LogAt(c, x) \in Log
  <2>1. PICK n \in DOMAIN c : x \in {n} \X DOMAIN c[n]
    BY DEF Places
  <2>2. c[n] \in Blocks /\ n \in Nat \ {0}
    OBVIOUS
  <2>3. x = <<x[1], x[2]>> /\ x[1] = n /\ x[2] \in DOMAIN c[n]
    BY <2>1
  <2>4. x[2] \in 1 .. MaxLogs /\ c[n][x[2]] \in Log
    BY <2>2, <2>3, BlockFacts
  <2> QED
    BY <2>2, <2>3, <2>4 DEF LogAt
<1> QED
  BY <1>1, <1>2

(* Two places of a chain are the same or one is before the other.          *)
LEMMA BeforeFacts ==
  ASSUME NEW c \in Seq(Blocks), NEW x \in Places(c), NEW y \in Places(c)
  PROVE  /\ x = y \/ Before(x, y) \/ Before(y, x)
         /\ Before(x, y) => x # y /\ ~Before(y, x)
<1>1. /\ x = <<x[1], x[2]>> /\ y = <<y[1], y[2]>>
      /\ x[1] \in Nat /\ x[2] \in Nat /\ y[1] \in Nat /\ y[2] \in Nat
  BY PlaceFacts, DbOutAssumption
<1> QED
  BY <1>1 DEF Before

(* A place that no other is after is the latest.                           *)
LEMMA LatestIs ==
  ASSUME NEW c \in Seq(Blocks), NEW S \in SUBSET Places(c),
         NEW x \in S, \A y \in S : ~Before(x, y)
  PROVE  Latest(S) = x
<1>1. PICK z : z = Latest(S)
  OBVIOUS
<1>2. z \in S /\ \A y \in S : ~Before(z, y)
  BY <1>1 DEF Latest
<1>3. x \in Places(c) /\ z \in Places(c)
  BY <1>2
<1>4. ~Before(x, z) /\ ~Before(z, x)
  BY <1>2
<1> QED
  BY <1>1, <1>3, <1>4, BeforeFacts

(* Every set of places that is not empty has one.                          *)
LEMMA LatestExists ==
  ASSUME NEW c \in Seq(Blocks), NEW S \in SUBSET Places(c), S # {}
  PROVE  Latest(S) \in S /\ \A y \in S : ~Before(Latest(S), y)
<1>1. \A x \in S : /\ x = <<x[1], x[2]>> /\ x[1] \in 0 .. Len(c) /\ x[2] \in 0 .. MaxLogs
  <2> TAKE x \in S
  <2>1. x \in Places(c)
    OBVIOUS
  <2>2. x[1] \in DOMAIN c /\ DOMAIN c = 1 .. Len(c) /\ Len(c) \in Nat
    BY <2>1, PlaceFacts
  <2> QED
    BY <2>1, <2>2, PlaceFacts
<1>2. Len(c) \in Nat /\ MaxLogs \in Nat
  BY DbOutAssumption
<1> DEFINE A == {x[1] : x \in S}
<1>3. A \in SUBSET (0 .. Len(c)) /\ A # {}
  BY <1>1
<1>4. PICK a \in A : \A b \in A : b <= a
  <2> HIDE DEF A
  <2> QED
    BY <1>2, <1>3, MaxFacts
<1> DEFINE B == {x[2] : x \in {y \in S : y[1] = a}}
<1>5. B \in SUBSET (0 .. MaxLogs) /\ B # {}
  BY <1>1
<1>6. PICK b \in B : \A d \in B : d <= b
  <2> HIDE DEF B
  <2> QED
    BY <1>2, <1>5, MaxFacts
<1>7. PICK x \in S : x[1] = a /\ x[2] = b
  OBVIOUS
<1>8. ASSUME NEW y \in S PROVE ~Before(x, y)
  <2>1. y[1] <= a /\ (y[1] = a => y[2] <= b)
    BY <1>4, <1>6
  <2> QED
    BY <1>1, <1>7, <2>1 DEF Before
<1> QED
  BY <1>8 DEF Latest

-----------------------------------------------------------------------------
(* What a legal chain says of one pool or position.                        *)

LEMMA HistoryFacts ==
  ASSUME NEW c \in Seq(Blocks), NEW id, NEW K
  PROVE  /\ History(c, id, K) \subseteq Places(c)
         /\ \A x \in History(c, id, K) : LogAt(c, x).kind \in K /\ LogAt(c, x).id = id
         /\ \A n \in DOMAIN c : \A i \in DOMAIN c[n] :
              <<n, i>> \in History(c, id, K) <=> c[n][i].kind \in K /\ c[n][i].id = id
<1>1. \A n, i : LogAt(c, <<n, i>>) = c[n][i]
  BY DEF LogAt
<1> QED
  BY <1>1, PlaceFacts DEF History

(* A pool of the stream is initialised once.                               *)
LEMMA InitOnce ==
  ASSUME ChainLegal, NEW p, NEW x \in History(chain, p, {"Initialize"})
  PROVE  /\ p \in Pools \ Legacy
         /\ \A y \in History(chain, p, {"Initialize"}) : y = x
<1>1. chain \in Seq(Blocks)
  BY DEF ChainLegal
<1>2. ASSUME NEW z \in History(chain, p, {"Initialize"})
      PROVE  /\ p \notin Legacy /\ p \in Pools /\ z \in Places(chain)
             /\ \A y \in History(chain, p, {"Initialize"}) : ~Before(y, z)
  <2>1. z \in Places(chain) /\ LogAt(chain, z).kind = "Initialize" /\ LogAt(chain, z).id = p
    BY <1>1, HistoryFacts
  <2>2. LegalAt(chain, z) /\ LogAt(chain, z) \in Log
    BY <1>1, <2>1, PlaceFacts DEF ChainLegal
  <2>3. p \in Pools
    BY <2>1, <2>2, LogFacts
  <2>4. p \notin Legacy /\ {y \in History(chain, p, {"Initialize"}) : Before(y, z)} = {}
    BY <2>1, <2>2 DEF LegalAt
  <2> QED
    BY <2>1, <2>3, <2>4
<1>3. ASSUME NEW y \in History(chain, p, {"Initialize"})
      PROVE  y = x
  BY <1>1, <1>2, BeforeFacts
<1> QED
  BY <1>2, <1>3

(* It is swapped only after that.                                          *)
LEMMA SwapAfterInit ==
  ASSUME ChainLegal, NEW p, p \notin Legacy, NEW x \in History(chain, p, {"Swap"})
  PROVE  \E y \in History(chain, p, {"Initialize"}) : Before(y, x)
<1>1. chain \in Seq(Blocks)
  BY DEF ChainLegal
<1>2. x \in Places(chain) /\ LogAt(chain, x).kind = "Swap" /\ LogAt(chain, x).id = p
  BY <1>1, HistoryFacts
<1>3. LegalAt(chain, x)
  BY <1>2 DEF ChainLegal
<1>4. {y \in History(chain, p, {"Initialize"}) : Before(y, x)} # {}
  BY <1>2, <1>3 DEF LegalAt
<1> QED
  BY <1>4

(* The first transfer of a position of the stream mints it, no other does. *)
LEMMA MintFirst ==
  ASSUME ChainLegal, NEW t, NEW x \in History(chain, t, {"Transfer"})
  PROVE  /\ t \in Positions
         /\ LogAt(chain, x).from = Nobody
              <=> t \notin Minted /\ \A y \in History(chain, t, {"Transfer"}) : ~Before(y, x)
<1>1. chain \in Seq(Blocks)
  BY DEF ChainLegal
<1>2. x \in Places(chain) /\ LogAt(chain, x).kind = "Transfer" /\ LogAt(chain, x).id = t
  BY <1>1, HistoryFacts
<1>3. LegalAt(chain, x) /\ LogAt(chain, x) \in Log
  BY <1>1, <1>2, PlaceFacts DEF ChainLegal
<1>4. LogAt(chain, x).from = Nobody
        <=> t \notin Minted /\ {y \in History(chain, t, {"Transfer"}) : Before(y, x)} = {}
  BY <1>2, <1>3 DEF LegalAt
<1> QED
  BY <1>2, <1>3, <1>4, LogFacts

LEMMA KnownFacts ==
  ASSUME ChainLegal, NEW p, NEW n
  PROVE  p \in Known(n) <=> \E x \in History(chain, p, {"Initialize"}) : x[1] <= n
BY InitOnce DEF Known

-----------------------------------------------------------------------------
(* What the first m blocks say, they say in every chain that begins with   *)
(* them.                                                                   *)

SameTo(c, d, m) ==
  /\ c \in Seq(Blocks) /\ d \in Seq(Blocks)
  /\ m \in Nat /\ m <= Len(c) /\ m <= Len(d)
  /\ \A k \in 1 .. m : c[k] = d[k]

LEMMA SamePlaces ==
  ASSUME NEW c, NEW d, NEW m, SameTo(c, d, m)
  PROVE  \A x \in Places(c) : x[1] <= m => x \in Places(d) /\ LogAt(d, x) = LogAt(c, x)
<1> SUFFICES ASSUME NEW x \in Places(c), x[1] <= m
             PROVE  x \in Places(d) /\ LogAt(d, x) = LogAt(c, x)
  OBVIOUS
<1>1. c \in Seq(Blocks) /\ d \in Seq(Blocks) /\ m \in Nat /\ DOMAIN d = 1 .. Len(d) /\ Len(d) \in Nat
  BY DEF SameTo
<1>2. x = <<x[1], x[2]>> /\ x[2] \in DOMAIN c[x[1]] /\ x[1] \in Nat \ {0}
  BY <1>1, PlaceFacts
<1>3. x[1] \in 1 .. m /\ x[1] \in DOMAIN d
  BY <1>1, <1>2 DEF SameTo
<1>4. c[x[1]] = d[x[1]]
  BY <1>3 DEF SameTo
<1>5. <<x[1], x[2]>> \in Places(d)
  BY <1>1, <1>2, <1>3, <1>4, PlaceFacts
<1> QED
  BY <1>2, <1>4, <1>5 DEF LogAt

LEMMA SameTurned ==
  ASSUME NEW c, NEW d, NEW m, SameTo(c, d, m)
  PROVE  SameTo(d, c, m)
BY DEF SameTo

LEMMA SameHistory ==
  ASSUME NEW c, NEW d, NEW m, SameTo(c, d, m), NEW n \in 0 .. m, NEW id, NEW K
  PROVE  Upto(History(c, id, K), n) = Upto(History(d, id, K), n)
<1>1. ASSUME NEW a, NEW b, SameTo(a, b, m)
      PROVE  Upto(History(a, id, K), n) \subseteq Upto(History(b, id, K), n)
  <2> SUFFICES ASSUME NEW x \in Upto(History(a, id, K), n)
               PROVE  x \in Upto(History(b, id, K), n)
    OBVIOUS
  <2>1. x \in Places(a) /\ x[1] <= n /\ x[1] \in Nat
    BY <1>1, PlaceFacts DEF Upto, History, SameTo
  <2>2. x[1] <= m
    BY <1>1, <2>1 DEF SameTo
  <2>3. x \in Places(b) /\ LogAt(b, x) = LogAt(a, x)
    BY <1>1, <2>1, <2>2, SamePlaces
  <2> QED
    BY <2>3 DEF Upto, History
<1> QED
  BY <1>1, SameTurned

LEMMA SameLegal ==
  ASSUME NEW c, NEW d, NEW m, SameTo(c, d, m), NEW x \in Places(c), x[1] <= m, LegalAt(c, x)
  PROVE  LegalAt(d, x)
<1>1. x[1] \in 0 .. m /\ c \in Seq(Blocks) /\ d \in Seq(Blocks)
  BY PlaceFacts DEF SameTo
<1>2. LogAt(d, x) = LogAt(c, x)
  BY SamePlaces
<1>3. ASSUME NEW a \in Seq(Blocks), NEW id, NEW K, NEW y
      PROVE  y \in History(a, id, K) /\ Before(y, x)
               <=> y \in Upto(History(a, id, K), x[1]) /\ Before(y, x)
  <2>1. y \in History(a, id, K) => y[1] \in Nat /\ x[1] \in Nat
    BY <1>1, HistoryFacts, PlaceFacts
  <2> QED
    BY <2>1 DEF Upto, Before
<1>4. \A id, K : {y \in History(c, id, K) : Before(y, x)} = {y \in History(d, id, K) : Before(y, x)}
  <2> TAKE id, K
  <2>1. Upto(History(c, id, K), x[1]) = Upto(History(d, id, K), x[1])
    BY <1>1, SameHistory
  <2> QED
    BY <1>1, <1>3, <2>1
<1>5. \A y : y \in Places(c) /\ Before(y, x) => LogAt(d, y) = LogAt(c, y)
  <2> SUFFICES ASSUME NEW y \in Places(c), Before(y, x)
               PROVE  LogAt(d, y) = LogAt(c, y)
    OBVIOUS
  <2>1. y[1] <= m
    BY <1>1, PlaceFacts DEF Before, SameTo
  <2> QED
    BY <2>1, SamePlaces
<1>6. \A id, K : \A y \in {z \in History(c, id, K) : Before(z, x)} : LogAt(d, y) = LogAt(c, y)
  BY <1>1, <1>5, HistoryFacts
<1>7. CASE LogAt(c, x).kind = "Transfer"
  BY <1>2, <1>4, <1>6, <1>7 DEF LegalAt
<1>8. CASE LogAt(c, x).kind # "Transfer"
  BY <1>2, <1>4, <1>8 DEF LegalAt
<1> QED
  BY <1>7, <1>8

LEMMA SameEvents ==
  ASSUME NEW m, SameTo(chain, chain', m), NEW n \in 0 .. m, NEW K
  PROVE  /\ EventsUpto(K, n)' = EventsUpto(K, n)
         /\ \A x \in EventsUpto(K, n) : LogAt(chain', x) = LogAt(chain, x)
<1>1. \A x \in Places(chain) : x[1] <= n => x \in Places(chain') /\ LogAt(chain', x) = LogAt(chain, x)
  <2> TAKE x \in Places(chain)
  <2>1. x[1] \in Nat /\ m \in Nat
    BY PlaceFacts DEF SameTo
  <2> QED
    BY <2>1, SamePlaces
<1>2. \A x \in Places(chain') : x[1] <= n => x \in Places(chain)
  <2> TAKE x \in Places(chain')
  <2>1. x[1] \in Nat /\ m \in Nat
    BY PlaceFacts DEF SameTo
  <2>2. SameTo(chain', chain, m)
    BY SameTurned
  <2> QED
    BY <2>1, <2>2, SamePlaces
<1> QED
  BY <1>1, <1>2 DEF EventsUpto, Upto

-----------------------------------------------------------------------------
(* A database that holds exactly the first n blocks, key by key.           *)

EventTables == {"swap", "position_event", "aggregator_pool", "pool_stats"}

(* The keys that the first n blocks give the tables nothing updates.       *)
EventKey(table, k, n) ==
  \/ table = "swap" /\ k \in EventsUpto({"Swap"}, n)
  \/ table = "position_event" /\ k \in EventsUpto({"Transfer", "Subscription"}, n)
  \/ /\ table = "aggregator_pool"
     /\ \E x \in EventsUpto({"AggregatorPoolRegistered"}, n) : k = LogAt(chain, x).id
  \/ /\ table = "pool_stats"
     /\ \E x \in EventsUpto({"Swap"}, n) : k = <<LogAt(chain, x).id, x[1]>>

Paired(db) == \A key \in DOMAIN db : key = <<key[1], key[2]>> /\ key[1] \in Tables

PoolsExact(db, n) ==
  \A p : /\ <<"pool", p>> \in DOMAIN db <=> p \in Known(n)
         /\ p \in Known(n) => db[<<"pool", p>>] = PoolRow(p, n)

PositionsExact(db, n) ==
  \A t : /\ <<"position", t>> \in DOMAIN db <=> t \in MintedIn(n)
         /\ t \in MintedIn(n) => db[<<"position", t>>] = PositionRow(t, n)

EventsExact(db, n) ==
  \A table \in EventTables : \A k : <<table, k>> \in DOMAIN db <=> EventKey(table, k, n)

(* The columns that relate the swaps to their summaries.                   *)
RowsExact(db, n) ==
  \A x \in EventsUpto({"Swap"}, n) :
    /\ db[<<"swap", x>>].pool = LogAt(chain, x).id
    /\ db[<<"pool_stats", <<LogAt(chain, x).id, x[1]>>>>].swap_count
         = SwapCount(LogAt(chain, x).id, x[1])

Exact(db, n) ==
  Paired(db) /\ PoolsExact(db, n) /\ PositionsExact(db, n) /\ EventsExact(db, n) /\ RowsExact(db, n)

LEMMA KeysOfPaired ==
  ASSUME NEW db, Paired(db), NEW table, NEW k
  PROVE  k \in KeysOf(db, table) <=> <<table, k>> \in DOMAIN db
<1>1. ASSUME k \in KeysOf(db, table) PROVE <<table, k>> \in DOMAIN db
  <2>1. PICK j \in DOMAIN db : j[1] = table /\ k = j[2]
    BY <1>1 DEF KeysOf
  <2> QED
    BY <2>1 DEF Paired
<1>2. ASSUME <<table, k>> \in DOMAIN db PROVE k \in KeysOf(db, table)
  <2> DEFINE j == <<table, k>>
  <2>1. j \in DOMAIN db /\ j[1] = table /\ j[2] = k
    BY <1>2
  <2> QED
    BY <2>1 DEF KeysOf
<1> QED
  BY <1>1, <1>2

LEMMA ExactHolds ==
  ASSUME NEW db, NEW n, Exact(db, n)
  PROVE  HoldsBlocks(db, n)
<1>1. \A table, k : k \in KeysOf(db, table) <=> <<table, k>> \in DOMAIN db
  BY KeysOfPaired DEF Exact
<1>2. /\ KeysOf(db, "pool") = Known(n)
      /\ \A p \in Known(n) : db[<<"pool", p>>] = PoolRow(p, n)
  BY <1>1 DEF Exact, PoolsExact
<1>3. /\ KeysOf(db, "position") = MintedIn(n)
      /\ \A t \in MintedIn(n) : db[<<"position", t>>] = PositionRow(t, n)
  BY <1>1 DEF Exact, PositionsExact
<1>4. \A table \in EventTables : \A k : k \in KeysOf(db, table) <=> EventKey(table, k, n)
  BY <1>1 DEF Exact, EventsExact
<1>5. KeysOf(db, "swap") = EventsUpto({"Swap"}, n)
  <2>1. \A k : k \in KeysOf(db, "swap") <=> k \in EventsUpto({"Swap"}, n)
    BY <1>4 DEF EventTables, EventKey
  <2> QED
    BY <2>1
<1>6. KeysOf(db, "position_event") = EventsUpto({"Transfer", "Subscription"}, n)
  <2>1. \A k : k \in KeysOf(db, "position_event") <=> k \in EventsUpto({"Transfer", "Subscription"}, n)
    BY <1>4 DEF EventTables, EventKey
  <2> QED
    BY <2>1
<1>7. KeysOf(db, "aggregator_pool")
        = {LogAt(chain, x).id : x \in EventsUpto({"AggregatorPoolRegistered"}, n)}
  <2>1. \A k : k \in KeysOf(db, "aggregator_pool")
                 <=> \E x \in EventsUpto({"AggregatorPoolRegistered"}, n) : k = LogAt(chain, x).id
    BY <1>4 DEF EventTables, EventKey
  <2> QED
    BY <2>1
<1>8. KeysOf(db, "pool_stats") = {<<LogAt(chain, x).id, x[1]>> : x \in EventsUpto({"Swap"}, n)}
  <2>1. \A k : k \in KeysOf(db, "pool_stats")
                 <=> \E x \in EventsUpto({"Swap"}, n) : k = <<LogAt(chain, x).id, x[1]>>
    BY <1>4 DEF EventTables, EventKey
  <2> QED
    BY <2>1
<1> QED
  BY <1>2, <1>3, <1>5, <1>6, <1>7, <1>8 DEF HoldsBlocks

(* The rows are those of the latest logs, which exist.                     *)
LEMMA KnownUpto ==
  ASSUME NEW p, NEW n
  PROVE  p \in Known(n) <=> p \in Pools /\ Upto(History(chain, p, {"Initialize"}), n) # {}
BY DEF Known, Upto

LEMMA UptoWiden ==
  ASSUME NEW c, NEW id, NEW K, NEW L, K \subseteq L, NEW n
  PROVE  Upto(History(c, id, K), n) \subseteq Upto(History(c, id, L), n)
BY DEF Upto, History

LEMMA SameExact ==
  ASSUME NEW m, SameTo(chain, chain', m), NEW n \in 0 .. m, NEW db, Exact(db, n)
  PROVE  Exact(db, n)'
<1> DEFINE Of(c, id, K) == Upto(History(c, id, K), n)
<1>1. \A id, K : Of(chain', id, K) = Of(chain, id, K)
  BY SameHistory
<1>2. ASSUME NEW id, NEW K, Of(chain, id, K) # {}
      PROVE  LogAt(chain', Latest(Of(chain', id, K))) = LogAt(chain, Latest(Of(chain, id, K)))
  <2>1. Of(chain, id, K) \in SUBSET Places(chain) /\ chain \in Seq(Blocks)
    BY HistoryFacts DEF Upto, SameTo
  <2>2. Latest(Of(chain, id, K)) \in Of(chain, id, K)
    <3> HIDE DEF Of
    <3> QED
      BY <1>2, <2>1, LatestExists
  <2>3. Latest(Of(chain, id, K))[1] \in Nat /\ Latest(Of(chain, id, K))[1] <= m
    <3>1. Latest(Of(chain, id, K)) \in Places(chain) /\ Latest(Of(chain, id, K))[1] <= n
      BY <2>1, <2>2 DEF Upto
    <3>2. Latest(Of(chain, id, K))[1] \in Nat
      BY <2>1, <3>1, PlaceFacts
    <3> QED
      BY <3>1, <3>2 DEF SameTo
  <2>4. LogAt(chain', Latest(Of(chain, id, K))) = LogAt(chain, Latest(Of(chain, id, K)))
    BY <2>1, <2>2, <2>3, SamePlaces
  <2> QED
    BY <1>1, <2>4
<1>3. Known(n)' = Known(n)
  <2>1. \A p : p \in Known(n) <=> p \in Pools /\ Of(chain, p, {"Initialize"}) # {}
    BY KnownUpto
  <2>2. \A p : p \in Known(n)' <=> p \in Pools /\ Of(chain', p, {"Initialize"}) # {}
    BY DEF Known, Upto
  <2> QED
    BY <1>1, <2>1, <2>2
<1>4. \A p \in Known(n) : PoolRow(p, n)' = PoolRow(p, n)
  <2> TAKE p \in Known(n)
  <2>1. Of(chain, p, {"Initialize"}) # {}
    BY KnownUpto
  <2>2. Of(chain, p, {"Initialize", "Swap"}) # {}
    BY <2>1, UptoWiden
  <2>3. LogAt(chain', Latest(Of(chain', p, {"Initialize", "Swap"})))
          = LogAt(chain, Latest(Of(chain, p, {"Initialize", "Swap"})))
    BY <1>2, <2>2
  <2>4. /\ Of(chain', p, {"Initialize"}) = Of(chain, p, {"Initialize"})
        /\ Of(chain', p, {"Swap"}) = Of(chain, p, {"Swap"})
    BY <1>1
  <2> QED
    BY <2>3, <2>4 DEF PoolRow
<1>5. MintedIn(n)' = MintedIn(n)
  BY <1>1 DEF MintedIn
<1>6. \A t \in MintedIn(n) : PositionRow(t, n)' = PositionRow(t, n)
  <2> TAKE t \in MintedIn(n)
  <2>1. Of(chain, t, {"Transfer"}) # {}
    BY DEF MintedIn
  <2>2. LogAt(chain', Latest(Of(chain', t, {"Transfer"})))
          = LogAt(chain, Latest(Of(chain, t, {"Transfer"})))
    BY <1>2, <2>1
  <2>3. Of(chain', t, {"Transfer"}) = Of(chain, t, {"Transfer"})
    BY <1>1
  <2>4. \A x \in Of(chain, t, {"Transfer"}) : LogAt(chain', x) = LogAt(chain, x)
    <3> TAKE x \in Of(chain, t, {"Transfer"})
    <3>1. x \in Places(chain) /\ x[1] <= n /\ x[1] \in Nat
      BY PlaceFacts DEF Upto, History, SameTo
    <3>2. x[1] <= m
      BY <3>1 DEF SameTo
    <3> QED
      BY <3>1, <3>2, SamePlaces
  <2>5. (CHOOSE x \in Of(chain', t, {"Transfer"}) : LogAt(chain', x).from = Nobody)
          = (CHOOSE x \in Of(chain, t, {"Transfer"}) : LogAt(chain, x).from = Nobody)
    BY <2>3, <2>4
  <2> QED
    BY <2>2, <2>3, <2>5 DEF PositionRow
<1>7. \A table, k : EventKey(table, k, n)' <=> EventKey(table, k, n)
  <2> TAKE table, k
  <2>1. \A K : /\ EventsUpto(K, n)' = EventsUpto(K, n)
               /\ \A x \in EventsUpto(K, n) : LogAt(chain', x) = LogAt(chain, x)
    BY SameEvents
  <2> QED
    BY <2>1 DEF EventKey
<1>8. PoolsExact(db, n)'
  BY <1>3, <1>4 DEF Exact, PoolsExact
<1>9. PositionsExact(db, n)'
  BY <1>5, <1>6 DEF Exact, PositionsExact
<1>10. EventsExact(db, n)'
  BY <1>7 DEF Exact, EventsExact
<1>11. RowsExact(db, n)'
  <2>1. /\ EventsUpto({"Swap"}, n)' = EventsUpto({"Swap"}, n)
        /\ \A x \in EventsUpto({"Swap"}, n) : LogAt(chain', x) = LogAt(chain, x)
    BY SameEvents
  <2>2. \A x \in EventsUpto({"Swap"}, n) : \A p : SwapCount(p, x[1])' = SwapCount(p, x[1])
    <3> TAKE x \in EventsUpto({"Swap"}, n)
    <3> TAKE p
    <3>1. x \in Places(chain) /\ x[1] <= n /\ chain \in Seq(Blocks)
      BY DEF EventsUpto, Upto, SameTo
    <3>2. x[1] \in Nat \ {0}
      BY <3>1, PlaceFacts
    <3>3. x[1] \in 1 .. m
      BY <3>1, <3>2 DEF SameTo
    <3>4. chain'[x[1]] = chain[x[1]]
      BY <3>3 DEF SameTo
    <3>5. SwapsOf(p, x[1])' = SwapsOf(p, x[1])
      BY <3>4 DEF SwapsOf, Rows
    <3> QED
      BY <3>5 DEF SwapCount
  <2> QED
    BY <2>1, <2>2 DEF Exact, RowsExact
<1> QED
  BY <1>8, <1>9, <1>10, <1>11 DEF Exact, Paired

-----------------------------------------------------------------------------
(* The changes of a block, by the log each comes from.                     *)

PoolUpdate(n, i) ==
  Change(Place("swap", i, 2), "pool", chain[n][i].id, "Update", i,
         [price |-> chain[n][i].value, last_swap_block |-> n])

SwapCreate(n, i) ==
  Change(Place("swap", i, 1), "swap", <<n, i>>, "Create", i, [pool |-> chain[n][i].id])

PositionEvent(n, i) ==
  Change(Place("position_event", i, 1), "position_event", <<n, i>>, "Create", i,
         [position |-> chain[n][i].id, kind |-> chain[n][i].kind])

PositionMint(n, i) ==
  Change(Place("position_event", i, 2), "position", chain[n][i].id, "Create", i,
         [owner |-> chain[n][i].value, last_transfer_block |-> n, created_at_block |-> n])

PositionMove(n, i) ==
  Change(Place("position_event", i, 2), "position", chain[n][i].id, "Update", i,
         [owner |-> chain[n][i].value, last_transfer_block |-> n])

FromPool(c, n, i) ==
  \/ chain[n][i].kind = "Initialize" /\ c = PoolCreate(n, i)
  \/ chain[n][i].kind = "Swap" /\ chain[n][i].id \in Known(n) /\ c = PoolUpdate(n, i)

FromPosition(c, n, i) ==
  /\ chain[n][i].kind = "Transfer"
  /\ c = IF chain[n][i].from = Nobody THEN PositionMint(n, i) ELSE PositionMove(n, i)

FromEvent(c, n, i) ==
  \/ chain[n][i].kind = "Swap" /\ c = SwapCreate(n, i)
  \/ chain[n][i].kind \in {"Transfer", "Subscription"} /\ c = PositionEvent(n, i)
  \/ chain[n][i].kind = "AggregatorPoolRegistered" /\ c = AggregatorPool(n, i)

LEMMA ChangeForms ==
  ASSUME NEW n, NEW c
  PROVE  c \in Changes(n) <=>
           \/ \E i \in DOMAIN chain[n] : FromPool(c, n, i) \/ FromPosition(c, n, i) \/ FromEvent(c, n, i)
           \/ \E p \in Active(n) : c = PoolStats(p, n)
<1>1. \A i \in Rows(n, {"Swap"}) :
        c \in SwapChanges(n, i)
          <=> c = SwapCreate(n, i) \/ (chain[n][i].id \in Known(n) /\ c = PoolUpdate(n, i))
  BY DEF SwapChanges, PoolStateUpdate, SwapCreate, PoolUpdate
<1>2. \A i \in Rows(n, {"Transfer", "Subscription"}) :
        c \in PositionChanges(n, i) <=> c = PositionEvent(n, i) \/ FromPosition(c, n, i)
  BY DEF PositionChanges, PositionState, PositionEvent, FromPosition, PositionMint, PositionMove
<1>3. c \in Changes(n) <=>
        \/ \E i \in Rows(n, {"Initialize"}) : c = PoolCreate(n, i)
        \/ \E i \in Rows(n, {"Swap"}) : c \in SwapChanges(n, i)
        \/ \E i \in Rows(n, {"Transfer", "Subscription"}) : c \in PositionChanges(n, i)
        \/ \E i \in Rows(n, {"AggregatorPoolRegistered"}) : c = AggregatorPool(n, i)
        \/ \E p \in Active(n) : c = PoolStats(p, n)
  BY DEF Changes
<1>4. \A i, K : i \in Rows(n, K) <=> i \in DOMAIN chain[n] /\ chain[n][i].kind \in K
  BY DEF Rows
<1>5. \A i : FromPosition(c, n, i) => chain[n][i].kind = "Transfer"
  BY DEF FromPosition
<1>6. (\E i \in DOMAIN chain[n] : FromPool(c, n, i) \/ FromPosition(c, n, i) \/ FromEvent(c, n, i))
        <=> \/ \E i \in Rows(n, {"Initialize"}) : c = PoolCreate(n, i)
            \/ \E i \in Rows(n, {"Swap"}) : c \in SwapChanges(n, i)
            \/ \E i \in Rows(n, {"Transfer", "Subscription"}) : c \in PositionChanges(n, i)
            \/ \E i \in Rows(n, {"AggregatorPoolRegistered"}) : c = AggregatorPool(n, i)
  BY <1>1, <1>2, <1>4, <1>5 DEF FromPool, FromEvent
<1> QED
  BY <1>3, <1>6

(* What each form is, column by column.                                    *)
LEMMA LoopNumbers ==
  /\ Loop("pool") = 1 /\ Loop("swap") = 2 /\ Loop("position_event") = 3
  /\ Loop("aggregator_pool") = 4 /\ Loop("pool_stats") = 5
BY DEF Loop

LEMMA PoolForm ==
  ASSUME NEW n, NEW i, NEW c, FromPool(c, n, i)
  PROVE  /\ c.key = <<"pool", chain[n][i].id>> /\ c.ordinal = i
         /\ \/ chain[n][i].kind = "Initialize" /\ c.op = "Create" /\ c.place = <<1, i, 1>>
            \/ /\ chain[n][i].kind = "Swap" /\ c.op = "Update" /\ c.place = <<2, i, 2>>
               /\ chain[n][i].id \in Known(n)
<1>1. CASE chain[n][i].kind = "Initialize" /\ c = PoolCreate(n, i)
  BY <1>1, LoopNumbers DEF PoolCreate, Change, Place
<1>2. CASE chain[n][i].kind = "Swap" /\ chain[n][i].id \in Known(n) /\ c = PoolUpdate(n, i)
  BY <1>2, LoopNumbers DEF PoolUpdate, Change, Place
<1> QED
  BY <1>1, <1>2 DEF FromPool

LEMMA PoolFormRow ==
  ASSUME NEW n, NEW i, NEW c, FromPool(c, n, i)
  PROVE  /\ c.row.price = chain[n][i].value
         /\ chain[n][i].kind = "Initialize" =>
              /\ DOMAIN c.row = {"price", "created_at_block", "last_swap_block"}
              /\ c.row.created_at_block = n /\ c.row.last_swap_block = 0
         /\ chain[n][i].kind = "Swap" =>
              DOMAIN c.row = {"price", "last_swap_block"} /\ c.row.last_swap_block = n
<1>1. CASE chain[n][i].kind = "Initialize" /\ c = PoolCreate(n, i)
  BY <1>1 DEF PoolCreate, Change
<1>2. CASE chain[n][i].kind = "Swap" /\ chain[n][i].id \in Known(n) /\ c = PoolUpdate(n, i)
  BY <1>2 DEF PoolUpdate, Change
<1> QED
  BY <1>1, <1>2 DEF FromPool

LEMMA PositionForm ==
  ASSUME NEW n, NEW i, NEW c, FromPosition(c, n, i)
  PROVE  /\ c.key = <<"position", chain[n][i].id>> /\ c.ordinal = i /\ c.place = <<3, i, 2>>
         /\ chain[n][i].kind = "Transfer"
         /\ chain[n][i].from = Nobody => c.op = "Create"
         /\ chain[n][i].from # Nobody => c.op = "Update"
<1>1. CASE chain[n][i].from = Nobody
  <2>1. c = PositionMint(n, i)
    BY <1>1 DEF FromPosition
  <2> QED
    BY <1>1, <2>1, LoopNumbers DEF FromPosition, PositionMint, Change, Place
<1>2. CASE chain[n][i].from # Nobody
  <2>1. c = PositionMove(n, i)
    BY <1>2 DEF FromPosition
  <2> QED
    BY <1>2, <2>1, LoopNumbers DEF FromPosition, PositionMove, Change, Place
<1> QED
  BY <1>1, <1>2

LEMMA PositionFormRow ==
  ASSUME NEW n, NEW i, NEW c, FromPosition(c, n, i)
  PROVE  /\ c.row.owner = chain[n][i].value /\ c.row.last_transfer_block = n
         /\ chain[n][i].from = Nobody =>
              /\ DOMAIN c.row = {"owner", "last_transfer_block", "created_at_block"}
              /\ c.row.created_at_block = n
         /\ chain[n][i].from # Nobody => DOMAIN c.row = {"owner", "last_transfer_block"}
<1>1. CASE chain[n][i].from = Nobody
  <2>1. c = PositionMint(n, i)
    BY <1>1 DEF FromPosition
  <2> QED
    BY <1>1, <2>1 DEF PositionMint, Change
<1>2. CASE chain[n][i].from # Nobody
  <2>1. c = PositionMove(n, i)
    BY <1>2 DEF FromPosition
  <2> QED
    BY <1>2, <2>1 DEF PositionMove, Change
<1> QED
  BY <1>1, <1>2

LEMMA EventForm ==
  ASSUME NEW n, NEW i, NEW c, FromEvent(c, n, i)
  PROVE  /\ c.op = "Create" /\ c.ordinal = i
         /\ \/ chain[n][i].kind = "Swap" /\ c.key = <<"swap", <<n, i>>>> /\ c.place = <<2, i, 1>>
            \/ /\ chain[n][i].kind \in {"Transfer", "Subscription"}
               /\ c.key = <<"position_event", <<n, i>>>> /\ c.place = <<3, i, 1>>
            \/ /\ chain[n][i].kind = "AggregatorPoolRegistered"
               /\ c.key = <<"aggregator_pool", chain[n][i].id>> /\ c.place = <<4, i, 1>>
<1>1. CASE chain[n][i].kind = "Swap" /\ c = SwapCreate(n, i)
  BY <1>1, LoopNumbers DEF SwapCreate, Change, Place
<1>2. CASE chain[n][i].kind \in {"Transfer", "Subscription"} /\ c = PositionEvent(n, i)
  BY <1>2, LoopNumbers DEF PositionEvent, Change, Place
<1>3. CASE chain[n][i].kind = "AggregatorPoolRegistered" /\ c = AggregatorPool(n, i)
  BY <1>3, LoopNumbers DEF AggregatorPool, Change, Place
<1> QED
  BY <1>1, <1>2, <1>3 DEF FromEvent

(* A summary is a Create of its own key, pushed by the last loop.          *)
LEMMA StatsFacts ==
  ASSUME chain \in Seq(Blocks), NEW n \in DOMAIN chain, NEW p \in Active(n)
  PROVE  /\ PoolStats(p, n).key = <<"pool_stats", <<p, n>>>>
         /\ PoolStats(p, n).op = "Create"
         /\ \E idx \in Nat : PoolStats(p, n).place = <<5, idx, 1>>
         /\ PoolStats(p, n).ordinal \in Nat
<1> DEFINE lower == {q \in Active(n) : PoolOrder[q] < PoolOrder[p]}
           row == [swap_count |-> SwapCount(p, n)]
           idx == Cardinality(lower)
<1>1. PoolStats(p, n)
        = [place |-> <<Loop("pool_stats"), idx, 1>>, key |-> <<"pool_stats", <<p, n>>>>,
           op |-> "Create", ordinal |-> FirstStatsOrdinal + idx, row |-> row]
  BY DEF PoolStats, Change, Place, StatsKey, StatsOrdinal
<1>2. idx \in Nat
  <2>1. chain[n] \in Blocks
    OBVIOUS
  <2>2. PICK k \in 0 .. MaxLogs : DOMAIN chain[n] = 1 .. k
    BY <2>1, BlockFacts
  <2>3. IsFiniteSet(DOMAIN chain[n])
    BY <2>2, FS_Interval, DbOutAssumption
  <2> DEFINE rows == {i \in DOMAIN chain[n] : chain[n][i].id \in lower}
             f == [i \in rows |-> chain[n][i].id]
  <2>4. IsFiniteSet(rows)
    BY <2>3, FS_Subset
  <2>5. \A q \in lower : \E i \in rows : f[i] = q
    BY DEF Active, SwapsOf, Rows
  <2>6. f \in Surjection(rows, lower)
    BY <2>5 DEF Surjection
  <2>7. IsFiniteSet(lower)
    BY <2>4, <2>6, FS_Surjection
  <2> QED
    BY <2>7, FS_CardinalityType
<1>3. Loop("pool_stats") = 5
  BY LoopNumbers
<1> HIDE DEF idx, row
<1> QED
  BY <1>1, <1>2, <1>3 DEF FirstStatsOrdinal

-----------------------------------------------------------------------------
(* Changes of one row are in the order of their logs, whichever order the  *)
(* sink takes them in.                                                     *)

Lined(order, S) ==
  /\ \A c \in S : c.ordinal \in 1 .. MaxLogs
  /\ \A c, d \in S : /\ Precedes(order, c, d) <=> c.ordinal < d.ordinal
                     /\ c.ordinal = d.ordinal => c = d

LEMMA LinedSubset ==
  ASSUME NEW order, NEW S, Lined(order, S), NEW R \in SUBSET S
  PROVE  Lined(order, R)
BY DEF Lined

LEMMA LinedLast ==
  ASSUME NEW order, NEW S, Lined(order, S), S # {}
  PROVE  LastIn(order, S) \in S /\ \A d \in S : d.ordinal <= LastIn(order, S).ordinal
<1>1. MaxLogs \in Nat
  BY DbOutAssumption
<1> DEFINE ordinals == {c.ordinal : c \in S}
<1>2. ordinals \in SUBSET (0 .. MaxLogs) /\ ordinals # {}
  BY <1>1 DEF Lined
<1>3. PICK o \in ordinals : \A q \in ordinals : q <= o
  <2> HIDE DEF ordinals
  <2> QED
    BY <1>1, <1>2, MaxFacts
<1>4. PICK c \in S : c.ordinal = o
  OBVIOUS
<1>5. \A d \in S : ~Precedes(order, c, d)
  <2> TAKE d \in S
  <2>1. d.ordinal \in ordinals /\ d.ordinal \in 1 .. MaxLogs /\ c.ordinal \in 1 .. MaxLogs
    BY DEF Lined
  <2>2. d.ordinal <= o
    BY <1>3, <2>1
  <2>3. ~(c.ordinal < d.ordinal)
    BY <1>1, <1>4, <2>1, <2>2
  <2> QED
    BY <2>3 DEF Lined
<1>6. LastIn(order, S) \in S /\ \A d \in S : ~Precedes(order, LastIn(order, S), d)
  BY <1>5 DEF LastIn
<1>7. PICK z : z = LastIn(order, S)
  OBVIOUS
<1>8. z \in S /\ \A d \in S : ~(z.ordinal < d.ordinal)
  BY <1>6, <1>7 DEF Lined
<1>9. \A d \in S : d.ordinal <= z.ordinal
  BY <1>1, <1>8 DEF Lined
<1> QED
  BY <1>7, <1>8, <1>9

LEMMA LinedFirst ==
  ASSUME NEW order, NEW S, Lined(order, S), S # {}
  PROVE  FirstIn(order, S) \in S /\ \A d \in S : FirstIn(order, S).ordinal <= d.ordinal
<1>1. MaxLogs \in Nat
  BY DbOutAssumption
<1> DEFINE ordinals == {c.ordinal : c \in S}
<1>2. ordinals \in SUBSET Nat /\ ordinals # {}
  BY <1>1 DEF Lined
<1>3. PICK o \in ordinals : \A q \in ordinals : o <= q
  <2> HIDE DEF ordinals
  <2> QED
    BY <1>2, LeastExists
<1>4. PICK c \in S : c.ordinal = o
  OBVIOUS
<1>5. \A d \in S : ~Precedes(order, d, c)
  <2> TAKE d \in S
  <2>1. d.ordinal \in ordinals /\ d.ordinal \in 1 .. MaxLogs /\ c.ordinal \in 1 .. MaxLogs
    BY DEF Lined
  <2>2. o <= d.ordinal
    BY <1>3, <2>1
  <2>3. ~(d.ordinal < c.ordinal)
    BY <1>1, <1>4, <2>1, <2>2
  <2> QED
    BY <2>3 DEF Lined
<1>6. FirstIn(order, S) \in S /\ \A d \in S : ~Precedes(order, d, FirstIn(order, S))
  BY <1>5 DEF FirstIn
<1>7. PICK z : z = FirstIn(order, S)
  OBVIOUS
<1>8. z \in S /\ \A d \in S : ~(d.ordinal < z.ordinal)
  BY <1>6, <1>7 DEF Lined
<1>9. \A d \in S : z.ordinal <= d.ordinal
  BY <1>1, <1>8 DEF Lined
<1> QED
  BY <1>7, <1>8, <1>9

ChangesOf(n, key) == {c \in Changes(n) : c.key = key}

LEMMA ChangeKeys ==
  ASSUME chain \in Seq(Blocks), NEW n \in DOMAIN chain
  PROVE  /\ \A c, i : FromPool(c, n, i) => c.key = <<"pool", chain[n][i].id>>
         /\ \A c, i : FromPosition(c, n, i) => c.key = <<"position", chain[n][i].id>>
         /\ \A c, i : FromEvent(c, n, i) =>
              \E table \in {"swap", "position_event", "aggregator_pool"} : \E k : c.key = <<table, k>>
         /\ \A q \in Active(n) : PoolStats(q, n).key = <<"pool_stats", <<q, n>>>>
<1>1. \A c, i : FromPool(c, n, i) => c.key = <<"pool", chain[n][i].id>>
  BY PoolForm
<1>2. \A c, i : FromPosition(c, n, i) => c.key = <<"position", chain[n][i].id>>
  BY PositionForm
<1>3. ASSUME NEW c, NEW i, FromEvent(c, n, i)
      PROVE  \E table \in {"swap", "position_event", "aggregator_pool"} : \E k : c.key = <<table, k>>
  <2>1. \/ c.key = <<"swap", <<n, i>>>> \/ c.key = <<"position_event", <<n, i>>>>
        \/ c.key = <<"aggregator_pool", chain[n][i].id>>
    BY <1>3, EventForm
  <2> QED
    BY <2>1
<1>4. \A q \in Active(n) : PoolStats(q, n).key = <<"pool_stats", <<q, n>>>>
  BY StatsFacts
<1> QED
  BY <1>1, <1>2, <1>3, <1>4

(* Which logs change a row.                                                *)
LEMMA PoolChanges ==
  ASSUME chain \in Seq(Blocks), NEW n \in DOMAIN chain, NEW p, NEW c
  PROVE  c \in ChangesOf(n, <<"pool", p>>)
           <=> \E i \in DOMAIN chain[n] : chain[n][i].id = p /\ FromPool(c, n, i)
BY ChangeKeys, ChangeForms DEF ChangesOf

LEMMA PositionRowChanges ==
  ASSUME chain \in Seq(Blocks), NEW n \in DOMAIN chain, NEW t, NEW c
  PROVE  c \in ChangesOf(n, <<"position", t>>)
           <=> \E i \in DOMAIN chain[n] : chain[n][i].id = t /\ FromPosition(c, n, i)
BY ChangeKeys, ChangeForms DEF ChangesOf

(* A pool is initialised before it is swapped, in its block too.           *)
LEMMA InitThenSwap ==
  ASSUME ChainLegal, NEW n \in DOMAIN chain, NEW i \in DOMAIN chain[n], NEW j \in DOMAIN chain[n],
         chain[n][i].kind = "Initialize", chain[n][i].id = chain[n][j].id
  PROVE  /\ chain[n][j].kind = "Initialize" => i = j
         /\ chain[n][j].kind = "Swap" => i < j
<1> DEFINE p == chain[n][i].id
<1>1. chain \in Seq(Blocks) /\ n \in Nat
  BY DEF ChainLegal
<1>2. <<n, i>> \in History(chain, p, {"Initialize"})
  BY <1>1, HistoryFacts
<1>3. p \notin Legacy /\ \A y \in History(chain, p, {"Initialize"}) : y = <<n, i>>
  BY <1>2, InitOnce
<1>4. ASSUME chain[n][j].kind = "Initialize" PROVE i = j
  <2>1. <<n, j>> \in History(chain, p, {"Initialize"})
    BY <1>1, <1>4, HistoryFacts
  <2> QED
    BY <1>3, <2>1
<1>5. ASSUME chain[n][j].kind = "Swap" PROVE i < j
  <2>1. <<n, j>> \in History(chain, p, {"Swap"})
    BY <1>1, <1>5, HistoryFacts
  <2>2. PICK y \in History(chain, p, {"Initialize"}) : Before(y, <<n, j>>)
    BY <1>3, <2>1, SwapAfterInit
  <2>3. Before(<<n, i>>, <<n, j>>)
    BY <1>3, <2>2
  <2>4. ~(n < n)
    BY <1>1
  <2> QED
    BY <2>3, <2>4 DEF Before
<1> QED
  BY <1>4, <1>5

LEMMA PoolLined ==
  ASSUME ChainLegal, NEW n \in DOMAIN chain, NEW p, NEW order \in Orders
  PROVE  Lined(order, ChangesOf(n, <<"pool", p>>))
<1>1. chain \in Seq(Blocks)
  BY DEF ChainLegal
<1>2. DOMAIN chain[n] \subseteq 1 .. MaxLogs
  BY <1>1, BlockFacts
<1>3. \A c \in ChangesOf(n, <<"pool", p>>) : c.ordinal \in 1 .. MaxLogs
  BY <1>1, <1>2, PoolChanges, PoolForm
<1>4. ASSUME NEW c \in ChangesOf(n, <<"pool", p>>), NEW d \in ChangesOf(n, <<"pool", p>>)
      PROVE  /\ Precedes(order, c, d) <=> c.ordinal < d.ordinal
             /\ c.ordinal = d.ordinal => c = d
  <2>1. PICK i \in DOMAIN chain[n] : chain[n][i].id = p /\ FromPool(c, n, i)
    BY <1>1, PoolChanges
  <2>2. PICK j \in DOMAIN chain[n] : chain[n][j].id = p /\ FromPool(d, n, j)
    BY <1>1, PoolChanges
  <2>3. c.ordinal = i /\ d.ordinal = j /\ i \in Nat /\ j \in Nat
    BY <1>2, <2>1, <2>2, PoolForm, DbOutAssumption
  <2>4. /\ chain[n][i].kind \in {"Initialize", "Swap"} /\ chain[n][j].kind \in {"Initialize", "Swap"}
        /\ c.place = IF chain[n][i].kind = "Initialize" THEN <<1, i, 1>> ELSE <<2, i, 2>>
        /\ d.place = IF chain[n][j].kind = "Initialize" THEN <<1, j, 1>> ELSE <<2, j, 2>>
    BY <2>1, <2>2, PoolForm
  <2>5. i = j => c = d
    BY <2>1, <2>2 DEF FromPool
  <2>6. /\ chain[n][i].kind = "Initialize" /\ chain[n][j].kind = "Initialize" => i = j
        /\ chain[n][i].kind = "Initialize" /\ chain[n][j].kind = "Swap" => i < j
        /\ chain[n][i].kind = "Swap" /\ chain[n][j].kind = "Initialize" => j < i
    BY <2>1, <2>2, InitThenSwap
  <2>7. InArray(c, d) <=> i < j
    <3>1. CASE chain[n][i].kind = "Initialize" /\ chain[n][j].kind = "Initialize"
      BY <2>3, <2>4, <2>6, <3>1 DEF InArray
    <3>2. CASE chain[n][i].kind = "Initialize" /\ chain[n][j].kind = "Swap"
      BY <2>3, <2>4, <2>6, <3>2 DEF InArray
    <3>3. CASE chain[n][i].kind = "Swap" /\ chain[n][j].kind = "Initialize"
      BY <2>3, <2>4, <2>6, <3>3 DEF InArray
    <3>4. CASE chain[n][i].kind = "Swap" /\ chain[n][j].kind = "Swap"
      BY <2>3, <2>4, <3>4 DEF InArray
    <3> QED
      BY <2>4, <3>1, <3>2, <3>3, <3>4
  <2> QED
    BY <2>3, <2>5, <2>7 DEF Precedes
<1> QED
  BY <1>3, <1>4 DEF Lined

LEMMA PositionLined ==
  ASSUME chain \in Seq(Blocks), NEW n \in DOMAIN chain, NEW t, NEW order \in Orders
  PROVE  Lined(order, ChangesOf(n, <<"position", t>>))
<1>1. DOMAIN chain[n] \subseteq 1 .. MaxLogs
  BY BlockFacts
<1>2. \A c \in ChangesOf(n, <<"position", t>>) : c.ordinal \in 1 .. MaxLogs
  BY <1>1, PositionRowChanges, PositionForm
<1>3. ASSUME NEW c \in ChangesOf(n, <<"position", t>>), NEW d \in ChangesOf(n, <<"position", t>>)
      PROVE  /\ Precedes(order, c, d) <=> c.ordinal < d.ordinal
             /\ c.ordinal = d.ordinal => c = d
  <2>1. PICK i \in DOMAIN chain[n] : FromPosition(c, n, i)
    BY PositionRowChanges
  <2>2. PICK j \in DOMAIN chain[n] : FromPosition(d, n, j)
    BY PositionRowChanges
  <2>3. c.ordinal = i /\ d.ordinal = j /\ i \in Nat /\ j \in Nat
    BY <1>1, <2>1, <2>2, PositionForm, DbOutAssumption
  <2>4. c.place = <<3, i, 2>> /\ d.place = <<3, j, 2>>
    BY <2>1, <2>2, PositionForm
  <2>5. i = j => c = d
    BY <2>1, <2>2 DEF FromPosition
  <2>6. InArray(c, d) <=> i < j
    BY <2>3, <2>4 DEF InArray
  <2> QED
    BY <2>3, <2>5, <2>6 DEF Precedes
<1> QED
  BY <1>2, <1>3 DEF Lined

-----------------------------------------------------------------------------
(* What the sink does to one row.                                          *)

LEMMA AfterFacts ==
  ASSUME NEW db, NEW changes, NEW order, NEW key
  PROVE  /\ key \in DOMAIN TablesAfter(db, changes, order)
              <=> key \in DOMAIN db \/ Effective(db, changes, order, key) # {}
         /\ Effective(db, changes, order, key) # {} =>
              TablesAfter(db, changes, order)[key] = RowAfter(db, changes, order, key)
         /\ Effective(db, changes, order, key) = {} /\ key \in DOMAIN db =>
              TablesAfter(db, changes, order)[key] = db[key]
<1>1. key \in Touched(db, changes, order) <=> Effective(db, changes, order, key) # {}
  BY DEF Touched, Effective
<1> QED
  BY <1>1 DEF TablesAfter

LEMMA EffectiveThere ==
  ASSUME NEW db, NEW n, NEW order, NEW key \in DOMAIN db
  PROVE  Effective(db, Changes(n), order, key) = ChangesOf(n, key)
BY DEF Effective, ChangesOf

LEMMA EffectiveNone ==
  ASSUME NEW db, NEW n, NEW order, NEW key, key \notin DOMAIN db,
         \A c \in ChangesOf(n, key) : c.op # "Create"
  PROVE  Effective(db, Changes(n), order, key) = {}
BY DEF Effective, ChangesOf, Creates

LEMMA EffectiveMade ==
  ASSUME NEW db, NEW n, NEW order, NEW key, Lined(order, ChangesOf(n, key)),
         NEW d \in ChangesOf(n, key), d.op = "Create",
         \A c \in ChangesOf(n, key) : d.ordinal <= c.ordinal
  PROVE  Effective(db, Changes(n), order, key) = ChangesOf(n, key)
<1>1. d \in Creates(Changes(n), key)
  BY DEF ChangesOf, Creates
<1>2. \A c \in ChangesOf(n, key) : d = c \/ Precedes(order, d, c)
  <2> TAKE c \in ChangesOf(n, key)
  <2>1. d.ordinal = c.ordinal \/ d.ordinal < c.ordinal
    BY DbOutAssumption DEF Lined
  <2> QED
    BY <2>1 DEF Lined
<1> QED
  BY <1>1, <1>2 DEF Effective, ChangesOf

Setting(S, column) == {c \in S : column \in DOMAIN c.row}

LEMMA RowFacts ==
  ASSUME NEW db, NEW changes, NEW order, NEW key, NEW S, S = Effective(db, changes, order, key),
         NEW row, row = RowAfter(db, changes, order, key),
         NEW columns, columns = DOMAIN (IF key \in DOMAIN db THEN db[key] ELSE FirstIn(order, S).row)
  PROVE  /\ row = [column \in columns |-> row[column]]
         /\ \A column \in columns : Setting(S, column) = {} => row[column] = db[key][column]
         /\ \A column \in columns : Setting(S, column) # {} =>
              row[column] = LastIn(order, Setting(S, column)).row[column]
<1>1. row = [column \in columns |->
               IF Setting(S, column) = {} THEN db[key][column]
               ELSE LastIn(order, Setting(S, column)).row[column]]
  BY DEF RowAfter, Setting
<1> QED
  BY <1>1

LEMMA PoolColumns ==
  ASSUME NEW row, row = [column \in {"price", "created_at_block", "last_swap_block"} |-> row[column]]
  PROVE  row = [price |-> row["price"], created_at_block |-> row["created_at_block"],
                last_swap_block |-> row["last_swap_block"]]
<1> DEFINE r == [price |-> row["price"], created_at_block |-> row["created_at_block"],
                 last_swap_block |-> row["last_swap_block"]]
<1>1. /\ DOMAIN r = {"price", "created_at_block", "last_swap_block"}
      /\ r = [column \in DOMAIN r |-> r[column]]
  OBVIOUS
<1>2. \A column \in {"price", "created_at_block", "last_swap_block"} : r[column] = row[column]
  OBVIOUS
<1> HIDE DEF r
<1>3. row = r
  BY <1>1, <1>2
<1> QED
  BY <1>3 DEF r

LEMMA PositionColumns ==
  ASSUME NEW row,
         row = [column \in {"owner", "last_transfer_block", "created_at_block"} |-> row[column]]
  PROVE  row = [owner |-> row["owner"], last_transfer_block |-> row["last_transfer_block"],
                created_at_block |-> row["created_at_block"]]
<1> DEFINE r == [owner |-> row["owner"], last_transfer_block |-> row["last_transfer_block"],
                 created_at_block |-> row["created_at_block"]]
<1>1. /\ DOMAIN r = {"owner", "last_transfer_block", "created_at_block"}
      /\ r = [column \in DOMAIN r |-> r[column]]
  OBVIOUS
<1>2. \A column \in {"owner", "last_transfer_block", "created_at_block"} : r[column] = row[column]
  OBVIOUS
<1> HIDE DEF r
<1>3. row = r
  BY <1>1, <1>2
<1> QED
  BY <1>3 DEF r

LEMMA EarliestExists ==
  ASSUME NEW c \in Seq(Blocks), NEW S \in SUBSET Places(c), S # {}
  PROVE  \E x \in S : \A y \in S : ~Before(y, x)
<1>1. \A x \in S : x = <<x[1], x[2]>> /\ x[1] \in Nat /\ x[2] \in Nat
  BY PlaceFacts, DbOutAssumption
<1> DEFINE A == {x[1] : x \in S}
<1>2. A \in SUBSET Nat /\ A # {}
  BY <1>1
<1>3. PICK a \in A : \A b \in A : a <= b
  <2> HIDE DEF A
  <2> QED
    BY <1>2, LeastExists
<1> DEFINE B == {x[2] : x \in {y \in S : y[1] = a}}
<1>4. B \in SUBSET Nat /\ B # {}
  BY <1>1
<1>5. PICK b \in B : \A d \in B : b <= d
  <2> HIDE DEF B
  <2> QED
    BY <1>4, LeastExists
<1>6. PICK x \in S : x[1] = a /\ x[2] = b
  OBVIOUS
<1>7. ASSUME NEW y \in S PROVE ~Before(y, x)
  <2>1. a <= y[1] /\ (y[1] = a => b <= y[2])
    BY <1>3, <1>5
  <2> QED
    BY <1>1, <1>6, <2>1 DEF Before
<1> QED
  BY <1>7

-----------------------------------------------------------------------------
(* One more block: the pools.                                              *)

LEMMA UptoNext ==
  ASSUME chain \in Seq(Blocks), NEW n \in DOMAIN chain, NEW id, NEW K, NEW x
  PROVE  x \in Upto(History(chain, id, K), n)
           <=> \/ x \in Upto(History(chain, id, K), n - 1)
               \/ \E i \in DOMAIN chain[n] :
                    x = <<n, i>> /\ chain[n][i].kind \in K /\ chain[n][i].id = id
<1>1. n \in Nat
  OBVIOUS
<1>2. ASSUME x \in Upto(History(chain, id, K), n), x \notin Upto(History(chain, id, K), n - 1)
      PROVE  \E i \in DOMAIN chain[n] : x = <<n, i>> /\ chain[n][i].kind \in K /\ chain[n][i].id = id
  <2>1. x \in History(chain, id, K) /\ x[1] <= n /\ ~(x[1] <= n - 1)
    BY <1>2 DEF Upto
  <2>2. x \in Places(chain) /\ LogAt(chain, x).kind \in K /\ LogAt(chain, x).id = id
    BY <2>1, HistoryFacts
  <2>3. x = <<x[1], x[2]>> /\ x[1] \in Nat /\ x[2] \in DOMAIN chain[x[1]]
    BY <2>2, PlaceFacts
  <2>4. x[1] = n
    BY <1>1, <2>1, <2>3
  <2> QED
    BY <2>2, <2>3, <2>4 DEF LogAt
<1>3. ASSUME x \in Upto(History(chain, id, K), n - 1)
      PROVE  x \in Upto(History(chain, id, K), n)
  <2>1. x \in History(chain, id, K) /\ x[1] <= n - 1
    BY <1>3 DEF Upto
  <2>2. x[1] \in Nat
    BY <2>1, HistoryFacts, PlaceFacts
  <2> QED
    BY <1>1, <2>1, <2>2 DEF Upto
<1>4. ASSUME NEW i \in DOMAIN chain[n], x = <<n, i>>, chain[n][i].kind \in K, chain[n][i].id = id
      PROVE  x \in Upto(History(chain, id, K), n)
  <2>1. x \in History(chain, id, K)
    BY <1>4, HistoryFacts
  <2>2. x[1] <= n
    BY <1>1, <1>4
  <2> QED
    BY <2>1, <2>2 DEF Upto
<1> QED
  BY <1>2, <1>3, <1>4

(* What the blocks before say cannot be at the block's own number.         *)
LEMMA UptoBefore ==
  ASSUME chain \in Seq(Blocks), NEW n \in DOMAIN chain, NEW id, NEW K,
         NEW x \in Upto(History(chain, id, K), n - 1)
  PROVE  /\ x \in Places(chain) /\ x[1] < n
         /\ \A i : x # <<n, i>> /\ Before(x, <<n, i>>) /\ ~Before(<<n, i>>, x)
<1>1. n \in Nat /\ x \in Places(chain) /\ x[1] <= n - 1
  BY HistoryFacts DEF Upto
<1>2. x[1] < n /\ x[1] \in Nat
  BY <1>1, PlaceFacts
<1> QED
  BY <1>1, <1>2 DEF Before

LEMMA KnownNext ==
  ASSUME ChainLegal, NEW n \in DOMAIN chain, NEW p
  PROVE  p \in Known(n)
           <=> \/ p \in Known(n - 1)
               \/ \E i \in DOMAIN chain[n] : chain[n][i].kind = "Initialize" /\ chain[n][i].id = p
<1>1. chain \in Seq(Blocks)
  BY DEF ChainLegal
<1>2. \A k : p \in Known(k) <=> Upto(History(chain, p, {"Initialize"}), k) # {}
  BY KnownFacts DEF Upto
<1>3. \A x : x \in Upto(History(chain, p, {"Initialize"}), n)
               <=> \/ x \in Upto(History(chain, p, {"Initialize"}), n - 1)
                   \/ \E i \in DOMAIN chain[n] :
                        x = <<n, i>> /\ chain[n][i].kind \in {"Initialize"} /\ chain[n][i].id = p
  BY <1>1, UptoNext
<1> QED
  BY <1>2, <1>3

(* A pool that was known is not initialised again.                         *)
LEMMA KnownStays ==
  ASSUME ChainLegal, NEW n \in DOMAIN chain, NEW p \in Known(n - 1), NEW i \in DOMAIN chain[n],
         chain[n][i].id = p
  PROVE  chain[n][i].kind # "Initialize"
<1> SUFFICES ASSUME chain[n][i].kind = "Initialize" PROVE FALSE
  OBVIOUS
<1>1. chain \in Seq(Blocks)
  BY DEF ChainLegal
<1>2. <<n, i>> \in History(chain, p, {"Initialize"})
  BY <1>1, HistoryFacts
<1>3. PICK x : x \in Upto(History(chain, p, {"Initialize"}), n - 1)
  BY KnownFacts DEF Upto
<1>4. x = <<n, i>>
  BY <1>2, <1>3, InitOnce DEF Upto
<1> QED
  BY <1>1, <1>3, <1>4, UptoBefore

(* The last change of a pool's row is that of the latest log about it.     *)
LEMMA PoolLatest ==
  ASSUME ChainLegal, NEW n \in DOMAIN chain, NEW p, NEW order \in Orders,
         ChangesOf(n, <<"pool", p>>) # {}
  PROVE  \E i \in DOMAIN chain[n] :
           /\ chain[n][i].id = p /\ FromPool(LastIn(order, ChangesOf(n, <<"pool", p>>)), n, i)
           /\ \A j \in DOMAIN chain[n] :
                chain[n][j].id = p /\ chain[n][j].kind \in {"Initialize", "Swap"} => j <= i
           /\ Latest(Upto(History(chain, p, {"Initialize", "Swap"}), n)) = <<n, i>>
<1> DEFINE S == ChangesOf(n, <<"pool", p>>)
           L == LastIn(order, S)
           places == Upto(History(chain, p, {"Initialize", "Swap"}), n)
<1>1. chain \in Seq(Blocks) /\ n \in Nat
  BY DEF ChainLegal
<1>2. L \in S /\ \A d \in S : d.ordinal <= L.ordinal
  BY PoolLined, LinedLast
<1>3. PICK i \in DOMAIN chain[n] : chain[n][i].id = p /\ FromPool(L, n, i)
  BY <1>1, <1>2, PoolChanges
<1>4. L.ordinal = i
  BY <1>3, PoolForm
<1>5. p \in Known(n)
  BY <1>3, PoolForm, KnownNext
<1>6. ASSUME NEW j \in DOMAIN chain[n], chain[n][j].id = p,
             chain[n][j].kind \in {"Initialize", "Swap"}
      PROVE  j <= i
  <2>1. PICK d : FromPool(d, n, j)
    BY <1>5, <1>6 DEF FromPool
  <2>2. d \in S /\ d.ordinal = j
    BY <1>1, <1>6, <2>1, PoolChanges, PoolForm
  <2> QED
    BY <1>2, <1>4, <2>2
<1>7. <<n, i>> \in places
  <2>1. chain[n][i].kind \in {"Initialize", "Swap"}
    BY <1>3 DEF FromPool
  <2> QED
    BY <1>1, <1>3, <2>1, UptoNext
<1>8. ASSUME NEW y \in places PROVE ~Before(<<n, i>>, y)
  <2>1. CASE y \in Upto(History(chain, p, {"Initialize", "Swap"}), n - 1)
    BY <1>1, <2>1, UptoBefore
  <2>2. CASE \E j \in DOMAIN chain[n] :
               y = <<n, j>> /\ chain[n][j].kind \in {"Initialize", "Swap"} /\ chain[n][j].id = p
    <3>1. PICK j \in DOMAIN chain[n] :
                 y = <<n, j>> /\ chain[n][j].kind \in {"Initialize", "Swap"} /\ chain[n][j].id = p
      BY <2>2
    <3>2. j <= i /\ i \in Nat /\ j \in Nat
      BY <1>1, <1>6, <3>1, BlockFacts
    <3>3. ~(n < n) /\ ~(i < j)
      BY <1>1, <3>2
    <3> QED
      BY <3>1, <3>3 DEF Before
  <2> QED
    BY <1>1, <2>1, <2>2, UptoNext
<1>9. places \in SUBSET Places(chain)
  BY <1>1, HistoryFacts DEF Upto
<1>10. Latest(places) = <<n, i>>
  <2> HIDE DEF places
  <2> QED
    BY <1>1, <1>7, <1>8, <1>9, LatestIs
<1> QED
  BY <1>3, <1>6, <1>10

LEMMA SwapLatest ==
  ASSUME ChainLegal, NEW n \in DOMAIN chain, NEW p, NEW i \in DOMAIN chain[n],
         chain[n][i].kind = "Swap", chain[n][i].id = p,
         Latest(Upto(History(chain, p, {"Initialize", "Swap"}), n)) = <<n, i>>
  PROVE  /\ Upto(History(chain, p, {"Swap"}), n) # {}
         /\ Latest(Upto(History(chain, p, {"Swap"}), n)) = <<n, i>>
<1> DEFINE places == Upto(History(chain, p, {"Initialize", "Swap"}), n)
           swaps == Upto(History(chain, p, {"Swap"}), n)
<1>1. chain \in Seq(Blocks)
  BY DEF ChainLegal
<1>2. <<n, i>> \in swaps
  BY <1>1, UptoNext
<1>3. swaps \subseteq places /\ places \in SUBSET Places(chain) /\ places # {}
  <2>1. swaps \subseteq places
    BY UptoWiden
  <2>2. places \in SUBSET Places(chain)
    BY <1>1, HistoryFacts DEF Upto
  <2> QED
    BY <1>2, <2>1, <2>2
<1> HIDE DEF places, swaps
<1>4. \A y \in places : ~Before(Latest(places), y)
  BY <1>1, <1>3, LatestExists
<1>5. \A y \in swaps : ~Before(<<n, i>>, y)
  BY <1>3, <1>4 DEF places
<1>6. swaps \in SUBSET Places(chain)
  BY <1>3
<1>7. Latest(swaps) = <<n, i>>
  BY <1>1, <1>2, <1>5, <1>6, LatestIs
<1> QED
  BY <1>2, <1>7 DEF swaps

(* A block without logs about a known pool leaves its row.                 *)
LEMMA PoolUntouched ==
  ASSUME ChainLegal, NEW n \in DOMAIN chain, NEW p \in Known(n - 1),
         ChangesOf(n, <<"pool", p>>) = {}
  PROVE  PoolRow(p, n) = PoolRow(p, n - 1)
<1>1. chain \in Seq(Blocks)
  BY DEF ChainLegal
<1>2. \A i \in DOMAIN chain[n] :
        chain[n][i].id = p => chain[n][i].kind \notin {"Initialize", "Swap"}
  <2> SUFFICES ASSUME NEW i \in DOMAIN chain[n], chain[n][i].id = p,
                      chain[n][i].kind \in {"Initialize", "Swap"}
               PROVE  FALSE
    OBVIOUS
  <2>1. p \in Known(n)
    BY KnownNext
  <2>2. PICK c : FromPool(c, n, i)
    BY <2>1 DEF FromPool
  <2>3. c \in ChangesOf(n, <<"pool", p>>)
    BY <1>1, <2>2, PoolChanges
  <2> QED
    BY <2>3
<1>3. ASSUME NEW K, K \subseteq {"Initialize", "Swap"}
      PROVE  Upto(History(chain, p, K), n) = Upto(History(chain, p, K), n - 1)
  <2>1. \A x : x \in Upto(History(chain, p, K), n) <=> x \in Upto(History(chain, p, K), n - 1)
    BY <1>1, <1>2, <1>3, UptoNext
  <2> QED
    BY <2>1
<1>4. /\ Upto(History(chain, p, {"Initialize"}), n) = Upto(History(chain, p, {"Initialize"}), n - 1)
      /\ Upto(History(chain, p, {"Swap"}), n) = Upto(History(chain, p, {"Swap"}), n - 1)
      /\ Upto(History(chain, p, {"Initialize", "Swap"}), n)
           = Upto(History(chain, p, {"Initialize", "Swap"}), n - 1)
  BY <1>3
<1> QED
  BY <1>4 DEF PoolRow

(* A swap sets the price and the block of the last swap.                   *)
LEMMA PoolUpdated ==
  ASSUME ChainLegal, NEW n \in DOMAIN chain, NEW p \in Known(n - 1), NEW order \in Orders,
         NEW db, <<"pool", p>> \in DOMAIN db, db[<<"pool", p>>] = PoolRow(p, n - 1),
         ChangesOf(n, <<"pool", p>>) # {}
  PROVE  RowAfter(db, Changes(n), order, <<"pool", p>>) = PoolRow(p, n)
<1> DEFINE key == <<"pool", p>>
           S == ChangesOf(n, key)
           columns == {"price", "created_at_block", "last_swap_block"}
<1>1. chain \in Seq(Blocks)
  BY DEF ChainLegal
<1>2. PICK row : row = RowAfter(db, Changes(n), order, key)
  OBVIOUS
<1>3. Effective(db, Changes(n), order, key) = S
  BY EffectiveThere
<1>4. columns = DOMAIN (IF key \in DOMAIN db THEN db[key] ELSE FirstIn(order, S).row)
  BY DEF PoolRow
<1>5. /\ row = [column \in columns |-> row[column]]
      /\ \A column \in columns : Setting(S, column) = {} => row[column] = db[key][column]
      /\ \A column \in columns : Setting(S, column) # {} =>
           row[column] = LastIn(order, Setting(S, column)).row[column]
  <2> HIDE DEF S, key, columns
  <2> QED
    BY <1>2, <1>3, <1>4, RowFacts
<1>6. \A c \in S : DOMAIN c.row = {"price", "last_swap_block"}
  <2> TAKE c \in S
  <2>1. PICK i \in DOMAIN chain[n] : chain[n][i].id = p /\ FromPool(c, n, i)
    BY <1>1, PoolChanges
  <2>2. chain[n][i].kind = "Swap"
    BY <2>1, KnownStays DEF FromPool
  <2> QED
    BY <2>1, <2>2, PoolFormRow
<1>7. /\ Setting(S, "price") = S /\ Setting(S, "last_swap_block") = S
      /\ Setting(S, "created_at_block") = {}
  <2> HIDE DEF S
  <2> QED
    BY <1>6 DEF Setting
<1>8. PICK i \in DOMAIN chain[n] :
           /\ chain[n][i].id = p /\ FromPool(LastIn(order, S), n, i)
           /\ Latest(Upto(History(chain, p, {"Initialize", "Swap"}), n)) = <<n, i>>
  BY PoolLatest
<1>9. chain[n][i].kind = "Swap"
  BY <1>8, KnownStays DEF FromPool
<1>10. LastIn(order, S).row.price = chain[n][i].value /\ LastIn(order, S).row.last_swap_block = n
  BY <1>8, <1>9, PoolFormRow
<1>11. row["price"] = PoolRow(p, n).price
  <2>1. row["price"] = chain[n][i].value
    BY <1>5, <1>7, <1>10
  <2> QED
    BY <1>8, <2>1 DEF PoolRow, LogAt
<1>12. row["last_swap_block"] = PoolRow(p, n).last_swap_block
  <2>1. row["last_swap_block"] = n
    BY <1>5, <1>7, <1>10
  <2>2. /\ Upto(History(chain, p, {"Swap"}), n) # {}
        /\ Latest(Upto(History(chain, p, {"Swap"}), n)) = <<n, i>>
    BY <1>8, <1>9, SwapLatest
  <2> QED
    BY <2>1, <2>2 DEF PoolRow
<1>13. row["created_at_block"] = PoolRow(p, n).created_at_block
  <2>1. row["created_at_block"] = PoolRow(p, n - 1).created_at_block
    BY <1>5, <1>7
  <2>2. \A x : x \in Upto(History(chain, p, {"Initialize"}), n)
                 <=> x \in Upto(History(chain, p, {"Initialize"}), n - 1)
    BY <1>1, UptoNext, KnownStays
  <2>3. Upto(History(chain, p, {"Initialize"}), n) = Upto(History(chain, p, {"Initialize"}), n - 1)
    BY <2>2
  <2> QED
    BY <2>1, <2>3 DEF PoolRow
<1>14. PoolRow(p, n) = [price |-> PoolRow(p, n).price,
                        created_at_block |-> PoolRow(p, n).created_at_block,
                        last_swap_block |-> PoolRow(p, n).last_swap_block]
  BY DEF PoolRow
<1> HIDE DEF S, key
<1>15. row = [price |-> row["price"], created_at_block |-> row["created_at_block"],
              last_swap_block |-> row["last_swap_block"]]
  BY <1>5, PoolColumns
<1> QED
  BY <1>2, <1>11, <1>12, <1>13, <1>14, <1>15 DEF key

(* A pool initialised in the block has the row of its creation, with what  *)
(* the swaps of the block set.                                             *)
LEMMA PoolMade ==
  ASSUME ChainLegal, NEW n \in DOMAIN chain, NEW p, p \notin Known(n - 1), p \in Known(n),
         NEW order \in Orders, NEW db, <<"pool", p>> \notin DOMAIN db
  PROVE  /\ Effective(db, Changes(n), order, <<"pool", p>>) # {}
         /\ RowAfter(db, Changes(n), order, <<"pool", p>>) = PoolRow(p, n)
<1> DEFINE key == <<"pool", p>>
           S == ChangesOf(n, key)
           columns == {"price", "created_at_block", "last_swap_block"}
<1>1. chain \in Seq(Blocks) /\ n \in Nat /\ DOMAIN chain[n] \subseteq Nat
  BY BlockFacts DEF ChainLegal
<1>2. PICK row : row = RowAfter(db, Changes(n), order, key)
  OBVIOUS
<1>3. PICK o \in DOMAIN chain[n] : chain[n][o].kind = "Initialize" /\ chain[n][o].id = p
  BY KnownNext
<1>4. PICK d : d = PoolCreate(n, o)
  OBVIOUS
<1>5. FromPool(d, n, o)
  BY <1>3, <1>4 DEF FromPool
<1>6. d \in S /\ d.op = "Create" /\ d.ordinal = o
  BY <1>1, <1>3, <1>5, PoolChanges, PoolForm
<1>7. Lined(order, S)
  BY PoolLined
<1>8. ASSUME NEW c \in S
      PROVE  /\ d.ordinal <= c.ordinal
             /\ {"price", "last_swap_block"} \subseteq DOMAIN c.row
             /\ "created_at_block" \in DOMAIN c.row <=> c = d
  <2>1. PICK i \in DOMAIN chain[n] : chain[n][i].id = p /\ FromPool(c, n, i)
    BY <1>1, PoolChanges
  <2>2. c.ordinal = i /\ i \in Nat /\ o \in Nat
    BY <1>1, <2>1, PoolForm
  <2>3. CASE chain[n][i].kind = "Initialize"
    <3>1. i = o
      BY <1>3, <2>1, <2>3, InitThenSwap
    <3>2. c = d
      BY <1>3, <1>4, <2>1, <3>1 DEF FromPool
    <3>3. DOMAIN c.row = columns
      BY <2>1, <2>3, PoolFormRow
    <3> QED
      BY <1>6, <2>2, <3>1, <3>2, <3>3
  <2>4. CASE chain[n][i].kind = "Swap"
    <3>1. o < i
      BY <1>3, <2>1, <2>4, InitThenSwap
    <3>2. DOMAIN c.row = {"price", "last_swap_block"}
      BY <2>1, <2>4, PoolFormRow
    <3> QED
      BY <1>6, <2>2, <3>1, <3>2
  <2> QED
    BY <2>1, <2>3, <2>4 DEF FromPool
<1>9. Effective(db, Changes(n), order, key) = S
  <2> HIDE DEF key
  <2> QED
    BY <1>6, <1>7, <1>8, EffectiveMade
<1>10. DOMAIN d.row = columns /\ d.row.created_at_block = n
  BY <1>3, <1>5, PoolFormRow
<1>11. FirstIn(order, S) = d
  <2> HIDE DEF S
  <2>1. PICK z : z = FirstIn(order, S)
    OBVIOUS
  <2>2. z \in S /\ z.ordinal <= d.ordinal
    BY <1>6, <1>7, <2>1, LinedFirst
  <2>3. z.ordinal = d.ordinal
    BY <1>6, <1>7, <1>8, <2>2, DbOutAssumption DEF Lined
  <2> QED
    BY <1>6, <1>7, <2>1, <2>2, <2>3 DEF Lined
<1>12. columns = DOMAIN (IF key \in DOMAIN db THEN db[key] ELSE FirstIn(order, S).row)
  BY <1>10, <1>11
<1>13. /\ row = [column \in columns |-> row[column]]
       /\ \A column \in columns : Setting(S, column) # {} =>
            row[column] = LastIn(order, Setting(S, column)).row[column]
  <2> HIDE DEF S, key, columns
  <2> QED
    BY <1>2, <1>9, <1>12, RowFacts
<1>14. /\ Setting(S, "price") = S /\ Setting(S, "last_swap_block") = S
       /\ Setting(S, "created_at_block") = {d}
  <2> HIDE DEF S
  <2> QED
    BY <1>6, <1>8 DEF Setting
<1>15. LastIn(order, {d}) = d
  <2>1. Lined(order, {d}) /\ {d} # {}
    BY <1>6, <1>7, LinedSubset
  <2> QED
    BY <2>1, LinedLast
<1>16. PICK i \in DOMAIN chain[n] :
           /\ chain[n][i].id = p /\ FromPool(LastIn(order, S), n, i)
           /\ \A j \in DOMAIN chain[n] :
                chain[n][j].id = p /\ chain[n][j].kind \in {"Initialize", "Swap"} => j <= i
           /\ Latest(Upto(History(chain, p, {"Initialize", "Swap"}), n)) = <<n, i>>
  BY <1>6, PoolLatest
<1>17. row["price"] = PoolRow(p, n).price
  <2>1. row["price"] = chain[n][i].value
    BY <1>6, <1>13, <1>14, <1>16, PoolFormRow
  <2> QED
    BY <1>16, <2>1 DEF PoolRow, LogAt
<1>18. row["created_at_block"] = PoolRow(p, n).created_at_block
  <2>1. row["created_at_block"] = n
    BY <1>10, <1>13, <1>14, <1>15
  <2> DEFINE inits == Upto(History(chain, p, {"Initialize"}), n)
  <2>2. <<n, o>> \in inits
    BY <1>1, <1>3, UptoNext
  <2>3. inits \in SUBSET Places(chain) /\ inits # {}
    BY <1>1, <2>2, HistoryFacts DEF Upto
  <2>4. Latest(inits) \in inits
    <3> HIDE DEF inits
    <3> QED
      BY <1>1, <2>3, LatestExists
  <2>5. Latest(inits) = <<n, o>>
    BY <2>2, <2>4, InitOnce DEF Upto
  <2> QED
    BY <2>1, <2>5 DEF PoolRow
<1>19. row["last_swap_block"] = PoolRow(p, n).last_swap_block
  <2>1. row["last_swap_block"] = LastIn(order, S).row.last_swap_block
    BY <1>6, <1>13, <1>14
  <2>2. CASE chain[n][i].kind = "Swap"
    <3>1. LastIn(order, S).row.last_swap_block = n
      BY <1>16, <2>2, PoolFormRow
    <3>2. /\ Upto(History(chain, p, {"Swap"}), n) # {}
          /\ Latest(Upto(History(chain, p, {"Swap"}), n)) = <<n, i>>
      BY <1>16, <2>2, SwapLatest
    <3> QED
      BY <2>1, <3>1, <3>2 DEF PoolRow
  <2>3. CASE chain[n][i].kind = "Initialize"
    <3>1. LastIn(order, S).row.last_swap_block = 0
      BY <1>16, <2>3, PoolFormRow
    <3>2. i = o
      BY <1>3, <1>16, <2>3, InitThenSwap
    <3>3. ASSUME NEW x \in Upto(History(chain, p, {"Swap"}), n) PROVE FALSE
      <4>1. CASE x \in Upto(History(chain, p, {"Swap"}), n - 1)
        <5>1. <<n, o>> \in History(chain, p, {"Initialize"})
          BY <1>1, <1>3, HistoryFacts
        <5>2. p \notin Legacy /\ \A y \in History(chain, p, {"Initialize"}) : y = <<n, o>>
          BY <5>1, InitOnce
        <5>3. x \in History(chain, p, {"Swap"})
          BY DEF Upto
        <5>4. Before(<<n, o>>, x)
          BY <5>2, <5>3, SwapAfterInit
        <5> QED
          BY <1>1, <4>1, <5>4, UptoBefore
      <4>2. CASE \E j \in DOMAIN chain[n] :
                   x = <<n, j>> /\ chain[n][j].kind \in {"Swap"} /\ chain[n][j].id = p
        <5>1. PICK j \in DOMAIN chain[n] : chain[n][j].kind = "Swap" /\ chain[n][j].id = p
          BY <4>2
        <5>2. o < j /\ j <= i
          BY <1>3, <1>16, <5>1, InitThenSwap
        <5> QED
          BY <1>1, <3>2, <5>2
      <4> QED
        BY <1>1, <4>1, <4>2, UptoNext
    <3> QED
      BY <2>1, <3>1, <3>3 DEF PoolRow
  <2> QED
    BY <1>16, <2>2, <2>3 DEF FromPool
<1>20. PoolRow(p, n) = [price |-> PoolRow(p, n).price,
                        created_at_block |-> PoolRow(p, n).created_at_block,
                        last_swap_block |-> PoolRow(p, n).last_swap_block]
  BY DEF PoolRow
<1>21. Effective(db, Changes(n), order, key) # {}
  BY <1>6, <1>9
<1> HIDE DEF S, key
<1>22. row = [price |-> row["price"], created_at_block |-> row["created_at_block"],
              last_swap_block |-> row["last_swap_block"]]
  BY <1>13, PoolColumns
<1> QED
  BY <1>2, <1>17, <1>18, <1>19, <1>20, <1>21, <1>22 DEF key

LEMMA PoolBlock ==
  ASSUME ChainLegal, NEW n \in DOMAIN chain, NEW order \in Orders, NEW db, PoolsExact(db, n - 1)
  PROVE  PoolsExact(TablesAfter(db, Changes(n), order), n)
<1> SUFFICES ASSUME NEW p
             PROVE  /\ <<"pool", p>> \in DOMAIN TablesAfter(db, Changes(n), order) <=> p \in Known(n)
                    /\ p \in Known(n) =>
                         TablesAfter(db, Changes(n), order)[<<"pool", p>>] = PoolRow(p, n)
  BY DEF PoolsExact
<1> DEFINE key == <<"pool", p>>
           after == TablesAfter(db, Changes(n), order)
           effective == Effective(db, Changes(n), order, key)
<1>1. chain \in Seq(Blocks)
  BY DEF ChainLegal
<1>2. /\ key \in DOMAIN db <=> p \in Known(n - 1)
      /\ p \in Known(n - 1) => db[key] = PoolRow(p, n - 1)
  BY DEF PoolsExact
<1>3. /\ key \in DOMAIN after <=> key \in DOMAIN db \/ effective # {}
      /\ effective # {} => after[key] = RowAfter(db, Changes(n), order, key)
      /\ effective = {} /\ key \in DOMAIN db => after[key] = db[key]
  <2> HIDE DEF key
  <2> QED
    BY AfterFacts
<1>4. CASE p \in Known(n - 1)
  <2>1. effective = ChangesOf(n, key) /\ p \in Known(n)
    BY <1>2, <1>4, EffectiveThere, KnownNext
  <2>2. CASE effective = {}
    BY <1>2, <1>3, <1>4, <2>1, <2>2, PoolUntouched
  <2>3. CASE effective # {}
    <3>1. RowAfter(db, Changes(n), order, key) = PoolRow(p, n)
      BY <1>2, <1>4, <2>1, <2>3, PoolUpdated
    <3> QED
      BY <1>2, <1>3, <1>4, <2>1, <2>3, <3>1
  <2> QED
    BY <2>2, <2>3
<1>5. CASE p \notin Known(n - 1) /\ p \in Known(n)
  BY <1>2, <1>3, <1>5, PoolMade
<1>6. CASE p \notin Known(n)
  <2>1. p \notin Known(n - 1)
    BY <1>6, KnownNext
  <2>2. \A c \in ChangesOf(n, key) : FALSE
    <3> SUFFICES ASSUME NEW c \in ChangesOf(n, key) PROVE FALSE
      OBVIOUS
    <3>1. PICK i \in DOMAIN chain[n] : chain[n][i].id = p /\ FromPool(c, n, i)
      BY <1>1, PoolChanges
    <3> QED
      BY <1>6, <3>1, PoolForm, KnownNext
  <2>3. effective = {}
    BY <1>2, <2>1, <2>2, EffectiveNone
  <2> QED
    BY <1>2, <1>3, <1>6, <2>1, <2>3
<1> QED
  BY <1>4, <1>5, <1>6

-----------------------------------------------------------------------------
(* One more block: the positions.                                          *)

LEMMA MintedNext ==
  ASSUME chain \in Seq(Blocks), NEW n \in DOMAIN chain, NEW t
  PROVE  t \in MintedIn(n)
           <=> \/ t \in MintedIn(n - 1)
               \/ /\ t \in Positions \ Minted
                  /\ \E i \in DOMAIN chain[n] : chain[n][i].kind = "Transfer" /\ chain[n][i].id = t
<1>1. \A x : x \in Upto(History(chain, t, {"Transfer"}), n)
               <=> \/ x \in Upto(History(chain, t, {"Transfer"}), n - 1)
                   \/ \E i \in DOMAIN chain[n] :
                        x = <<n, i>> /\ chain[n][i].kind \in {"Transfer"} /\ chain[n][i].id = t
  BY UptoNext
<1> QED
  BY <1>1 DEF MintedIn

(* A position of the stream is minted once.                                *)
LEMMA MintIs ==
  ASSUME ChainLegal, NEW t, NEW n, NEW x \in Upto(History(chain, t, {"Transfer"}), n),
         LogAt(chain, x).from = Nobody
  PROVE  (CHOOSE y \in Upto(History(chain, t, {"Transfer"}), n) : LogAt(chain, y).from = Nobody) = x
<1>1. chain \in Seq(Blocks)
  BY DEF ChainLegal
<1>2. PICK z : z = CHOOSE y \in Upto(History(chain, t, {"Transfer"}), n) :
                     LogAt(chain, y).from = Nobody
  OBVIOUS
<1>3. z \in Upto(History(chain, t, {"Transfer"}), n) /\ LogAt(chain, z).from = Nobody
  BY <1>2
<1>4. x \in History(chain, t, {"Transfer"}) /\ z \in History(chain, t, {"Transfer"})
  BY <1>3 DEF Upto
<1>5. ~Before(x, z) /\ ~Before(z, x)
  BY <1>3, <1>4, MintFirst
<1>6. x = z
  BY <1>1, <1>4, <1>5, BeforeFacts, HistoryFacts
<1> QED
  BY <1>2, <1>6

LEMMA MintThere ==
  ASSUME ChainLegal, NEW k \in Int, NEW t \in MintedIn(k)
  PROVE  \E x \in Upto(History(chain, t, {"Transfer"}), k) : LogAt(chain, x).from = Nobody
<1> DEFINE moves == Upto(History(chain, t, {"Transfer"}), k)
<1>1. chain \in Seq(Blocks)
  BY DEF ChainLegal
<1>2. moves \in SUBSET Places(chain) /\ moves # {}
  BY <1>1, HistoryFacts DEF Upto, MintedIn
<1>3. PICK x \in moves : \A y \in moves : ~Before(y, x)
  <2> HIDE DEF moves
  <2> QED
    BY <1>1, <1>2, EarliestExists
<1>4. x \in History(chain, t, {"Transfer"}) /\ x[1] <= k
  BY <1>3 DEF Upto
<1>5. ASSUME NEW y \in History(chain, t, {"Transfer"}), Before(y, x)
      PROVE  FALSE
  <2>1. y[1] \in Nat /\ x[1] \in Nat
    BY <1>1, <1>4, HistoryFacts, PlaceFacts
  <2>2. y[1] <= k
    BY <1>4, <1>5, <2>1 DEF Before
  <2> QED
    BY <1>3, <1>5, <2>2 DEF Upto
<1>6. t \notin Minted
  BY DEF MintedIn
<1>7. LogAt(chain, x).from = Nobody
  BY <1>4, <1>5, <1>6, MintFirst
<1> QED
  BY <1>3, <1>7

(* A position that was minted is not minted again.                         *)
LEMMA MintedStays ==
  ASSUME ChainLegal, NEW n \in DOMAIN chain, NEW t \in MintedIn(n - 1), NEW i \in DOMAIN chain[n],
         chain[n][i].id = t, chain[n][i].kind = "Transfer"
  PROVE  chain[n][i].from # Nobody
<1>1. chain \in Seq(Blocks)
  BY DEF ChainLegal
<1>2. <<n, i>> \in History(chain, t, {"Transfer"})
  BY <1>1, HistoryFacts
<1>3. PICK x : x \in Upto(History(chain, t, {"Transfer"}), n - 1)
  BY DEF MintedIn
<1>4. x \in History(chain, t, {"Transfer"}) /\ Before(x, <<n, i>>)
  BY <1>1, <1>3, UptoBefore DEF Upto
<1>5. LogAt(chain, <<n, i>>).from # Nobody
  BY <1>2, <1>4, MintFirst
<1> QED
  BY <1>5 DEF LogAt

LEMMA PositionLatest ==
  ASSUME chain \in Seq(Blocks), NEW n \in DOMAIN chain, NEW t, NEW order \in Orders,
         ChangesOf(n, <<"position", t>>) # {}
  PROVE  \E i \in DOMAIN chain[n] :
           /\ chain[n][i].id = t /\ FromPosition(LastIn(order, ChangesOf(n, <<"position", t>>)), n, i)
           /\ Latest(Upto(History(chain, t, {"Transfer"}), n)) = <<n, i>>
<1> DEFINE S == ChangesOf(n, <<"position", t>>)
           L == LastIn(order, S)
           moves == Upto(History(chain, t, {"Transfer"}), n)
<1>1. n \in Nat
  OBVIOUS
<1>2. L \in S /\ \A d \in S : d.ordinal <= L.ordinal
  BY PositionLined, LinedLast
<1>3. PICK i \in DOMAIN chain[n] : chain[n][i].id = t /\ FromPosition(L, n, i)
  BY <1>2, PositionRowChanges
<1>4. L.ordinal = i /\ chain[n][i].kind = "Transfer"
  BY <1>3, PositionForm
<1>5. ASSUME NEW j \in DOMAIN chain[n], chain[n][j].id = t, chain[n][j].kind = "Transfer"
      PROVE  j <= i
  <2>1. PICK d : FromPosition(d, n, j)
    BY <1>5 DEF FromPosition
  <2>2. d \in S /\ d.ordinal = j
    BY <1>5, <2>1, PositionRowChanges, PositionForm
  <2> QED
    BY <1>2, <1>4, <2>2
<1>6. <<n, i>> \in moves
  BY <1>3, <1>4, UptoNext
<1>7. ASSUME NEW y \in moves PROVE ~Before(<<n, i>>, y)
  <2>1. CASE y \in Upto(History(chain, t, {"Transfer"}), n - 1)
    BY <2>1, UptoBefore
  <2>2. CASE \E j \in DOMAIN chain[n] :
               y = <<n, j>> /\ chain[n][j].kind \in {"Transfer"} /\ chain[n][j].id = t
    <3>1. PICK j \in DOMAIN chain[n] :
                 y = <<n, j>> /\ chain[n][j].kind = "Transfer" /\ chain[n][j].id = t
      BY <2>2
    <3>2. j <= i /\ i \in Nat /\ j \in Nat
      BY <1>5, <3>1, BlockFacts
    <3>3. ~(n < n) /\ ~(i < j)
      BY <1>1, <3>2
    <3> QED
      BY <3>1, <3>3 DEF Before
  <2> QED
    BY <2>1, <2>2, UptoNext
<1>8. moves \in SUBSET Places(chain)
  BY HistoryFacts DEF Upto
<1>9. Latest(moves) = <<n, i>>
  <2> HIDE DEF moves
  <2> QED
    BY <1>6, <1>7, <1>8, LatestIs
<1> QED
  BY <1>3, <1>9

LEMMA PositionUntouched ==
  ASSUME chain \in Seq(Blocks), NEW n \in DOMAIN chain, NEW t, ChangesOf(n, <<"position", t>>) = {}
  PROVE  PositionRow(t, n) = PositionRow(t, n - 1)
<1>1. \A i \in DOMAIN chain[n] : chain[n][i].id = t => chain[n][i].kind # "Transfer"
  <2> SUFFICES ASSUME NEW i \in DOMAIN chain[n], chain[n][i].id = t, chain[n][i].kind = "Transfer"
               PROVE  FALSE
    OBVIOUS
  <2>1. PICK c : FromPosition(c, n, i)
    BY DEF FromPosition
  <2>2. c \in ChangesOf(n, <<"position", t>>)
    BY <2>1, PositionRowChanges
  <2> QED
    BY <2>2
<1>2. \A x : x \in Upto(History(chain, t, {"Transfer"}), n)
               <=> x \in Upto(History(chain, t, {"Transfer"}), n - 1)
  BY <1>1, UptoNext
<1>3. Upto(History(chain, t, {"Transfer"}), n) = Upto(History(chain, t, {"Transfer"}), n - 1)
  BY <1>2
<1> QED
  BY <1>3 DEF PositionRow

(* A transfer sets the owner and the block of the last transfer.           *)
LEMMA PositionUpdated ==
  ASSUME ChainLegal, NEW n \in DOMAIN chain, NEW t \in MintedIn(n - 1), NEW order \in Orders,
         NEW db, <<"position", t>> \in DOMAIN db, db[<<"position", t>>] = PositionRow(t, n - 1),
         ChangesOf(n, <<"position", t>>) # {}
  PROVE  RowAfter(db, Changes(n), order, <<"position", t>>) = PositionRow(t, n)
<1> DEFINE key == <<"position", t>>
           S == ChangesOf(n, key)
           columns == {"owner", "last_transfer_block", "created_at_block"}
<1>1. chain \in Seq(Blocks) /\ n - 1 \in Int
  BY DEF ChainLegal
<1>2. PICK row : row = RowAfter(db, Changes(n), order, key)
  OBVIOUS
<1>3. Effective(db, Changes(n), order, key) = S
  BY EffectiveThere
<1>4. columns = DOMAIN (IF key \in DOMAIN db THEN db[key] ELSE FirstIn(order, S).row)
  BY DEF PositionRow
<1>5. /\ row = [column \in columns |-> row[column]]
      /\ \A column \in columns : Setting(S, column) = {} => row[column] = db[key][column]
      /\ \A column \in columns : Setting(S, column) # {} =>
           row[column] = LastIn(order, Setting(S, column)).row[column]
  <2> HIDE DEF S, key, columns
  <2> QED
    BY <1>2, <1>3, <1>4, RowFacts
<1>6. \A c \in S : DOMAIN c.row = {"owner", "last_transfer_block"}
  <2> TAKE c \in S
  <2>1. PICK i \in DOMAIN chain[n] : chain[n][i].id = t /\ FromPosition(c, n, i)
    BY <1>1, PositionRowChanges
  <2>2. chain[n][i].from # Nobody
    BY <2>1, PositionForm, MintedStays
  <2> QED
    BY <2>1, <2>2, PositionFormRow
<1>7. /\ Setting(S, "owner") = S /\ Setting(S, "last_transfer_block") = S
      /\ Setting(S, "created_at_block") = {}
  <2> HIDE DEF S
  <2> QED
    BY <1>6 DEF Setting
<1>8. PICK i \in DOMAIN chain[n] :
           /\ chain[n][i].id = t /\ FromPosition(LastIn(order, S), n, i)
           /\ Latest(Upto(History(chain, t, {"Transfer"}), n)) = <<n, i>>
  BY <1>1, PositionLatest
<1>9. /\ LastIn(order, S).row.owner = chain[n][i].value
      /\ LastIn(order, S).row.last_transfer_block = n
  BY <1>8, PositionFormRow
<1>10. row["owner"] = PositionRow(t, n).owner
  <2>1. row["owner"] = chain[n][i].value
    BY <1>5, <1>7, <1>9
  <2> QED
    BY <1>8, <2>1 DEF PositionRow, LogAt
<1>11. row["last_transfer_block"] = PositionRow(t, n).last_transfer_block
  <2>1. row["last_transfer_block"] = n
    BY <1>5, <1>7, <1>9
  <2> QED
    BY <1>8, <2>1 DEF PositionRow
<1>12. row["created_at_block"] = PositionRow(t, n).created_at_block
  <2>1. row["created_at_block"] = PositionRow(t, n - 1).created_at_block
    BY <1>5, <1>7
  <2>2. PICK x \in Upto(History(chain, t, {"Transfer"}), n - 1) : LogAt(chain, x).from = Nobody
    BY <1>1, MintThere
  <2>3. x \in Upto(History(chain, t, {"Transfer"}), n)
    BY <1>1, UptoNext
  <2>4. PositionRow(t, n - 1).created_at_block = x[1]
    BY <2>2, MintIs DEF PositionRow
  <2>5. PositionRow(t, n).created_at_block = x[1]
    BY <2>2, <2>3, MintIs DEF PositionRow
  <2> QED
    BY <2>1, <2>4, <2>5
<1>13. PositionRow(t, n) = [owner |-> PositionRow(t, n).owner,
                            last_transfer_block |-> PositionRow(t, n).last_transfer_block,
                            created_at_block |-> PositionRow(t, n).created_at_block]
  BY DEF PositionRow
<1> HIDE DEF S, key
<1>14. row = [owner |-> row["owner"], last_transfer_block |-> row["last_transfer_block"],
              created_at_block |-> row["created_at_block"]]
  BY <1>5, PositionColumns
<1> QED
  BY <1>2, <1>10, <1>11, <1>12, <1>13, <1>14 DEF key

(* A position that first moves in the block is minted by that move.        *)
LEMMA PositionMade ==
  ASSUME ChainLegal, NEW n \in DOMAIN chain, NEW t, t \notin MintedIn(n - 1), t \in MintedIn(n),
         NEW order \in Orders, NEW db, <<"position", t>> \notin DOMAIN db
  PROVE  /\ Effective(db, Changes(n), order, <<"position", t>>) # {}
         /\ RowAfter(db, Changes(n), order, <<"position", t>>) = PositionRow(t, n)
<1> DEFINE key == <<"position", t>>
           S == ChangesOf(n, key)
           columns == {"owner", "last_transfer_block", "created_at_block"}
           moves == Upto(History(chain, t, {"Transfer"}), n)
<1>1. chain \in Seq(Blocks) /\ n \in Nat /\ DOMAIN chain[n] \subseteq Nat
  BY BlockFacts DEF ChainLegal
<1>2. PICK row : row = RowAfter(db, Changes(n), order, key)
  OBVIOUS
<1>3. t \notin Minted /\ Upto(History(chain, t, {"Transfer"}), n - 1) = {}
  BY DEF MintedIn
<1>4. \A j \in DOMAIN chain[n] :
        chain[n][j].id = t /\ chain[n][j].kind = "Transfer" => \E c \in S : c.ordinal = j
  <2> TAKE j \in DOMAIN chain[n]
  <2> HAVE chain[n][j].id = t /\ chain[n][j].kind = "Transfer"
  <2>1. PICK c : FromPosition(c, n, j)
    BY DEF FromPosition
  <2>2. c \in S /\ c.ordinal = j
    BY <1>1, <2>1, PositionRowChanges, PositionForm
  <2> QED
    BY <2>2
<1>5. Lined(order, S) /\ S # {}
  <2>1. \E j \in DOMAIN chain[n] : chain[n][j].kind = "Transfer" /\ chain[n][j].id = t
    BY <1>1, MintedNext
  <2> QED
    BY <1>1, <1>4, <2>1, PositionLined
<1>6. PICK d : d = FirstIn(order, S)
  OBVIOUS
<1>7. d \in S /\ \A c \in S : d.ordinal <= c.ordinal
  <2> HIDE DEF S
  <2> QED
    BY <1>5, <1>6, LinedFirst
<1>8. PICK o \in DOMAIN chain[n] : chain[n][o].id = t /\ FromPosition(d, n, o)
  BY <1>1, <1>7, PositionRowChanges
<1>9. d.ordinal = o /\ chain[n][o].kind = "Transfer"
  BY <1>8, PositionForm
<1>10. <<n, o>> \in History(chain, t, {"Transfer"})
  BY <1>1, <1>8, <1>9, HistoryFacts
<1>11. ASSUME NEW y \in History(chain, t, {"Transfer"}), Before(y, <<n, o>>)
       PROVE  FALSE
  <2>1. y[1] \in Nat /\ y[2] \in Nat
    BY <1>1, HistoryFacts, PlaceFacts, DbOutAssumption
  <2>2. y[1] <= n /\ (y[1] = n => y[2] < o)
    BY <1>1, <1>11, <2>1 DEF Before
  <2>3. y \in moves
    BY <2>2 DEF Upto
  <2>4. PICK j \in DOMAIN chain[n] :
               y = <<n, j>> /\ chain[n][j].kind = "Transfer" /\ chain[n][j].id = t
    BY <1>1, <1>3, <2>3, UptoNext
  <2>5. PICK c \in S : c.ordinal = j
    BY <1>4, <2>4
  <2>6. y[1] = n /\ y[2] = j /\ j \in Nat /\ o \in Nat
    BY <1>1, <2>4
  <2>7. j < o /\ o <= j
    BY <1>7, <1>9, <2>2, <2>5, <2>6
  <2> QED
    BY <2>6, <2>7
<1>12. chain[n][o].from = Nobody
  <2>1. LogAt(chain, <<n, o>>).from = Nobody
    BY <1>3, <1>10, <1>11, MintFirst
  <2> QED
    BY <2>1 DEF LogAt
<1>13. d.op = "Create" /\ DOMAIN d.row = columns /\ d.row.created_at_block = n
  BY <1>8, <1>12, PositionForm, PositionFormRow
<1>14. ASSUME NEW c \in S
       PROVE  /\ {"owner", "last_transfer_block"} \subseteq DOMAIN c.row
              /\ "created_at_block" \in DOMAIN c.row <=> c = d
  <2>1. PICK i \in DOMAIN chain[n] : chain[n][i].id = t /\ FromPosition(c, n, i)
    BY <1>1, PositionRowChanges
  <2>2. c.ordinal = i /\ i \in Nat /\ o \in Nat /\ chain[n][i].kind = "Transfer"
    BY <1>1, <2>1, PositionForm
  <2>3. CASE i = o
    <3>1. c = d
      BY <1>8, <2>1, <2>3 DEF FromPosition
    <3> QED
      BY <1>13, <3>1
  <2>4. CASE i # o
    <3>1. o < i
      BY <1>7, <1>9, <2>2, <2>4
    <3>2. Before(<<n, o>>, <<n, i>>)
      BY <3>1 DEF Before
    <3>3. <<n, i>> \in History(chain, t, {"Transfer"})
      BY <1>1, <2>1, <2>2, HistoryFacts
    <3>4. LogAt(chain, <<n, i>>).from # Nobody
      BY <1>10, <3>2, <3>3, MintFirst
    <3>5. DOMAIN c.row = {"owner", "last_transfer_block"}
      BY <2>1, <3>4, PositionFormRow DEF LogAt
    <3>6. c # d
      BY <1>9, <2>2, <2>4
    <3> QED
      BY <3>5, <3>6
  <2> QED
    BY <2>3, <2>4
<1>15. Effective(db, Changes(n), order, key) = S
  <2> HIDE DEF key
  <2> QED
    BY <1>5, <1>7, <1>13, EffectiveMade
<1>16. columns = DOMAIN (IF key \in DOMAIN db THEN db[key] ELSE FirstIn(order, S).row)
  BY <1>6, <1>13
<1>17. /\ row = [column \in columns |-> row[column]]
       /\ \A column \in columns : Setting(S, column) # {} =>
            row[column] = LastIn(order, Setting(S, column)).row[column]
  <2> HIDE DEF S, key, columns
  <2> QED
    BY <1>2, <1>15, <1>16, RowFacts
<1>18. /\ Setting(S, "owner") = S /\ Setting(S, "last_transfer_block") = S
       /\ Setting(S, "created_at_block") = {d}
  <2> HIDE DEF S
  <2> QED
    BY <1>7, <1>14 DEF Setting
<1>19. LastIn(order, {d}) = d
  <2>1. Lined(order, {d}) /\ {d} # {}
    BY <1>5, <1>7, LinedSubset
  <2> QED
    BY <2>1, LinedLast
<1>20. PICK i \in DOMAIN chain[n] :
           /\ chain[n][i].id = t /\ FromPosition(LastIn(order, S), n, i)
           /\ Latest(moves) = <<n, i>>
  BY <1>1, <1>7, PositionLatest
<1>21. row["owner"] = PositionRow(t, n).owner
  <2>1. row["owner"] = chain[n][i].value
    BY <1>5, <1>17, <1>18, <1>20, PositionFormRow
  <2> QED
    BY <1>20, <2>1 DEF PositionRow, LogAt
<1>22. row["last_transfer_block"] = PositionRow(t, n).last_transfer_block
  <2>1. row["last_transfer_block"] = n
    BY <1>5, <1>17, <1>18, <1>20, PositionFormRow
  <2> QED
    BY <1>20, <2>1 DEF PositionRow
<1>23. row["created_at_block"] = PositionRow(t, n).created_at_block
  <2>1. row["created_at_block"] = n
    BY <1>13, <1>17, <1>18, <1>19
  <2>2. <<n, o>> \in moves
    BY <1>1, <1>8, <1>9, UptoNext
  <2>3. LogAt(chain, <<n, o>>).from = Nobody
    BY <1>12 DEF LogAt
  <2>4. (CHOOSE y \in moves : LogAt(chain, y).from = Nobody) = <<n, o>>
    BY <2>2, <2>3, MintIs
  <2>5. PositionRow(t, n).created_at_block
          = (CHOOSE y \in moves : LogAt(chain, y).from = Nobody)[1]
    BY DEF PositionRow
  <2>6. PositionRow(t, n).created_at_block = <<n, o>>[1]
    BY <2>4, <2>5
  <2> QED
    BY <2>1, <2>6
<1>24. PositionRow(t, n) = [owner |-> PositionRow(t, n).owner,
                            last_transfer_block |-> PositionRow(t, n).last_transfer_block,
                            created_at_block |-> PositionRow(t, n).created_at_block]
  BY DEF PositionRow
<1>25. Effective(db, Changes(n), order, key) # {}
  BY <1>5, <1>15
<1> HIDE DEF S, key
<1>26. row = [owner |-> row["owner"], last_transfer_block |-> row["last_transfer_block"],
              created_at_block |-> row["created_at_block"]]
  BY <1>17, PositionColumns
<1> QED
  BY <1>2, <1>21, <1>22, <1>23, <1>24, <1>25, <1>26 DEF key

LEMMA PositionBlock ==
  ASSUME ChainLegal, NEW n \in DOMAIN chain, NEW order \in Orders, NEW db,
         PositionsExact(db, n - 1)
  PROVE  PositionsExact(TablesAfter(db, Changes(n), order), n)
<1> SUFFICES ASSUME NEW t
             PROVE  /\ <<"position", t>> \in DOMAIN TablesAfter(db, Changes(n), order)
                         <=> t \in MintedIn(n)
                    /\ t \in MintedIn(n) =>
                         TablesAfter(db, Changes(n), order)[<<"position", t>>] = PositionRow(t, n)
  BY DEF PositionsExact
<1> DEFINE key == <<"position", t>>
           after == TablesAfter(db, Changes(n), order)
           effective == Effective(db, Changes(n), order, key)
<1>1. chain \in Seq(Blocks)
  BY DEF ChainLegal
<1>2. /\ key \in DOMAIN db <=> t \in MintedIn(n - 1)
      /\ t \in MintedIn(n - 1) => db[key] = PositionRow(t, n - 1)
  BY DEF PositionsExact
<1>3. /\ key \in DOMAIN after <=> key \in DOMAIN db \/ effective # {}
      /\ effective # {} => after[key] = RowAfter(db, Changes(n), order, key)
      /\ effective = {} /\ key \in DOMAIN db => after[key] = db[key]
  <2> HIDE DEF key
  <2> QED
    BY AfterFacts
<1>4. CASE t \in MintedIn(n - 1)
  <2>1. effective = ChangesOf(n, key) /\ t \in MintedIn(n)
    BY <1>1, <1>2, <1>4, EffectiveThere, MintedNext
  <2>2. CASE effective = {}
    BY <1>1, <1>2, <1>3, <1>4, <2>1, <2>2, PositionUntouched
  <2>3. CASE effective # {}
    <3>1. RowAfter(db, Changes(n), order, key) = PositionRow(t, n)
      BY <1>2, <1>4, <2>1, <2>3, PositionUpdated
    <3> QED
      BY <1>2, <1>3, <1>4, <2>1, <2>3, <3>1
  <2> QED
    BY <2>2, <2>3
<1>5. CASE t \notin MintedIn(n - 1) /\ t \in MintedIn(n)
  BY <1>2, <1>3, <1>5, PositionMade
<1>6. CASE t \notin MintedIn(n)
  <2>1. t \notin MintedIn(n - 1)
    BY <1>1, <1>6, MintedNext
  <2>2. \A c \in ChangesOf(n, key) : c.op # "Create"
    <3> SUFFICES ASSUME NEW c \in ChangesOf(n, key), c.op = "Create" PROVE FALSE
      OBVIOUS
    <3>1. PICK i \in DOMAIN chain[n] : chain[n][i].id = t /\ FromPosition(c, n, i)
      BY <1>1, PositionRowChanges
    <3>2. chain[n][i].from = Nobody /\ chain[n][i].kind = "Transfer"
      BY <3>1, PositionForm
    <3>3. <<n, i>> \in History(chain, t, {"Transfer"})
      BY <1>1, <3>1, <3>2, HistoryFacts
    <3>4. t \in Positions \ Minted
      BY <3>2, <3>3, MintFirst DEF LogAt
    <3> QED
      BY <1>1, <1>6, <3>1, <3>2, <3>4, MintedNext
  <2>3. effective = {}
    BY <1>2, <2>1, <2>2, EffectiveNone
  <2> QED
    BY <1>2, <1>3, <1>6, <2>1, <2>3
<1> QED
  BY <1>4, <1>5, <1>6

-----------------------------------------------------------------------------
(* One more block: the tables nothing updates.                             *)

LEMMA EventsNext ==
  ASSUME chain \in Seq(Blocks), NEW n \in DOMAIN chain, NEW K, NEW x
  PROVE  x \in EventsUpto(K, n)
           <=> \/ x \in EventsUpto(K, n - 1)
               \/ \E i \in DOMAIN chain[n] : x = <<n, i>> /\ chain[n][i].kind \in K
<1>1. n \in Nat
  OBVIOUS
<1>2. ASSUME x \in EventsUpto(K, n), x \notin EventsUpto(K, n - 1)
      PROVE  \E i \in DOMAIN chain[n] : x = <<n, i>> /\ chain[n][i].kind \in K
  <2>1. x \in Places(chain) /\ LogAt(chain, x).kind \in K /\ x[1] <= n /\ ~(x[1] <= n - 1)
    BY <1>2 DEF EventsUpto, Upto
  <2>2. x = <<x[1], x[2]>> /\ x[1] \in Nat /\ x[2] \in DOMAIN chain[x[1]]
    BY <2>1, PlaceFacts
  <2>3. x[1] = n
    BY <1>1, <2>1, <2>2
  <2> QED
    BY <2>1, <2>2, <2>3 DEF LogAt
<1>3. ASSUME x \in EventsUpto(K, n - 1)
      PROVE  x \in EventsUpto(K, n)
  <2>1. x \in Places(chain) /\ LogAt(chain, x).kind \in K /\ x[1] <= n - 1
    BY <1>3 DEF EventsUpto, Upto
  <2>2. x[1] \in Nat
    BY <2>1, PlaceFacts
  <2>3. x[1] <= n
    BY <1>1, <2>1, <2>2
  <2> QED
    BY <2>1, <2>3 DEF EventsUpto, Upto
<1>4. ASSUME NEW i \in DOMAIN chain[n], x = <<n, i>>, chain[n][i].kind \in K
      PROVE  x \in EventsUpto(K, n)
  <2>1. x \in Places(chain) /\ LogAt(chain, x).kind \in K
    BY <1>4, PlaceFacts DEF LogAt
  <2>2. x[1] <= n
    BY <1>1, <1>4
  <2> QED
    BY <2>1, <2>2 DEF EventsUpto, Upto
<1> QED
  BY <1>2, <1>3, <1>4

LEMMA EventsBefore ==
  ASSUME chain \in Seq(Blocks), NEW n \in DOMAIN chain, NEW K, NEW x \in EventsUpto(K, n - 1)
  PROVE  x[1] # n /\ x[1] \in Nat
<1>1. x \in Places(chain) /\ x[1] <= n - 1 /\ n \in Nat
  BY DEF EventsUpto, Upto
<1> QED
  BY <1>1, PlaceFacts

LEMMA ActiveFacts ==
  ASSUME chain \in Seq(Blocks), NEW n \in DOMAIN chain, NEW p
  PROVE  p \in Active(n)
           <=> \E i \in DOMAIN chain[n] : chain[n][i].kind = "Swap" /\ chain[n][i].id = p
<1>1. \A i \in DOMAIN chain[n] : chain[n][i].kind = "Swap" => chain[n][i].id \in Pools
  BY BlockFacts, LogFacts
<1> QED
  BY <1>1 DEF Active, SwapsOf, Rows

(* What gives an event table a key in block n.                             *)
NewEvent(table, k, n) ==
  \E i \in DOMAIN chain[n] :
    \/ table = "swap" /\ chain[n][i].kind = "Swap" /\ k = <<n, i>>
    \/ /\ table = "position_event" /\ chain[n][i].kind \in {"Transfer", "Subscription"}
       /\ k = <<n, i>>
    \/ /\ table = "aggregator_pool" /\ chain[n][i].kind = "AggregatorPoolRegistered"
       /\ k = chain[n][i].id
    \/ table = "pool_stats" /\ chain[n][i].kind = "Swap" /\ k = <<chain[n][i].id, n>>

LEMMA EventChange ==
  ASSUME chain \in Seq(Blocks), NEW n \in DOMAIN chain, NEW table \in EventTables, NEW k,
         NEW c \in ChangesOf(n, <<table, k>>)
  PROVE  c.op = "Create" /\ NewEvent(table, k, n)
<1>1. c \in Changes(n) /\ c.key = <<table, k>> /\ table \notin {"pool", "position"}
  BY DEF ChangesOf, EventTables
<1>2. CASE \E p \in Active(n) : c = PoolStats(p, n)
  <2>1. PICK p \in Active(n) : c = PoolStats(p, n)
    BY <1>2
  <2>2. c.op = "Create" /\ c.key = <<"pool_stats", <<p, n>>>>
    BY <2>1, StatsFacts
  <2>3. table = "pool_stats" /\ k = <<p, n>>
    BY <1>1, <2>2
  <2>4. PICK i \in DOMAIN chain[n] : chain[n][i].kind = "Swap" /\ chain[n][i].id = p
    BY ActiveFacts
  <2> QED
    BY <2>2, <2>3, <2>4 DEF NewEvent
<1>3. CASE \E i \in DOMAIN chain[n] : FromEvent(c, n, i)
  <2>1. PICK i \in DOMAIN chain[n] : FromEvent(c, n, i)
    BY <1>3
  <2>2. /\ c.op = "Create"
        /\ \/ chain[n][i].kind = "Swap" /\ c.key = <<"swap", <<n, i>>>>
           \/ /\ chain[n][i].kind \in {"Transfer", "Subscription"}
              /\ c.key = <<"position_event", <<n, i>>>>
           \/ /\ chain[n][i].kind = "AggregatorPoolRegistered"
              /\ c.key = <<"aggregator_pool", chain[n][i].id>>
    BY <2>1, EventForm
  <2>3. \/ chain[n][i].kind = "Swap" /\ table = "swap" /\ k = <<n, i>>
        \/ /\ chain[n][i].kind \in {"Transfer", "Subscription"}
           /\ table = "position_event" /\ k = <<n, i>>
        \/ /\ chain[n][i].kind = "AggregatorPoolRegistered"
           /\ table = "aggregator_pool" /\ k = chain[n][i].id
    BY <1>1, <2>2
  <2> QED
    BY <2>2, <2>3 DEF NewEvent
<1>4. \A i : ~FromPool(c, n, i) /\ ~FromPosition(c, n, i)
  BY <1>1, ChangeKeys
<1> QED
  BY <1>1, <1>2, <1>3, <1>4, ChangeForms

LEMMA NewEventChange ==
  ASSUME chain \in Seq(Blocks), NEW n \in DOMAIN chain, NEW table, NEW k, NewEvent(table, k, n)
  PROVE  ChangesOf(n, <<table, k>>) # {}
<1>1. PICK i \in DOMAIN chain[n] :
        \/ table = "swap" /\ chain[n][i].kind = "Swap" /\ k = <<n, i>>
        \/ /\ table = "position_event" /\ chain[n][i].kind \in {"Transfer", "Subscription"}
           /\ k = <<n, i>>
        \/ /\ table = "aggregator_pool" /\ chain[n][i].kind = "AggregatorPoolRegistered"
           /\ k = chain[n][i].id
        \/ table = "pool_stats" /\ chain[n][i].kind = "Swap" /\ k = <<chain[n][i].id, n>>
  BY DEF NewEvent
<1>2. CASE table = "swap" /\ chain[n][i].kind = "Swap" /\ k = <<n, i>>
  <2>1. FromEvent(SwapCreate(n, i), n, i)
    BY <1>2 DEF FromEvent
  <2>2. SwapCreate(n, i).key = <<table, k>>
    BY <1>2, <2>1, EventForm
  <2> QED
    BY <2>1, <2>2, ChangeForms DEF ChangesOf
<1>3. CASE /\ table = "position_event" /\ chain[n][i].kind \in {"Transfer", "Subscription"}
           /\ k = <<n, i>>
  <2>1. FromEvent(PositionEvent(n, i), n, i)
    BY <1>3 DEF FromEvent
  <2>2. PositionEvent(n, i).key = <<table, k>>
    BY <1>3, <2>1, EventForm
  <2> QED
    BY <2>1, <2>2, ChangeForms DEF ChangesOf
<1>4. CASE /\ table = "aggregator_pool" /\ chain[n][i].kind = "AggregatorPoolRegistered"
           /\ k = chain[n][i].id
  <2>1. FromEvent(AggregatorPool(n, i), n, i)
    BY <1>4 DEF FromEvent
  <2>2. AggregatorPool(n, i).key = <<table, k>>
    BY <1>4, <2>1, EventForm
  <2> QED
    BY <2>1, <2>2, ChangeForms DEF ChangesOf
<1>5. CASE table = "pool_stats" /\ chain[n][i].kind = "Swap" /\ k = <<chain[n][i].id, n>>
  <2>1. chain[n][i].id \in Active(n)
    BY <1>5, ActiveFacts
  <2>2. PoolStats(chain[n][i].id, n).key = <<table, k>>
    BY <1>5, <2>1, StatsFacts
  <2> QED
    BY <2>1, <2>2, ChangeForms DEF ChangesOf
<1> QED
  BY <1>1, <1>2, <1>3, <1>4, <1>5

LEMMA EventKeyNext ==
  ASSUME chain \in Seq(Blocks), NEW n \in DOMAIN chain, NEW table, NEW k
  PROVE  EventKey(table, k, n) <=> EventKey(table, k, n - 1) \/ NewEvent(table, k, n)
<1>1. \A K, x : x \in EventsUpto(K, n)
                  <=> \/ x \in EventsUpto(K, n - 1)
                      \/ \E i \in DOMAIN chain[n] : x = <<n, i>> /\ chain[n][i].kind \in K
  BY EventsNext
<1>2. \A i : LogAt(chain, <<n, i>>) = chain[n][i] /\ <<n, i>>[1] = n
  BY DEF LogAt
<1>3. CASE table = "swap"
  BY <1>1, <1>3 DEF EventKey, NewEvent
<1>4. CASE table = "position_event"
  BY <1>1, <1>4 DEF EventKey, NewEvent
<1>5. CASE table = "aggregator_pool"
  <2>1. EventKey(table, k, n)
          <=> \E x \in EventsUpto({"AggregatorPoolRegistered"}, n) : k = LogAt(chain, x).id
    BY <1>5 DEF EventKey
  <2>2. EventKey(table, k, n - 1)
          <=> \E x \in EventsUpto({"AggregatorPoolRegistered"}, n - 1) : k = LogAt(chain, x).id
    BY <1>5 DEF EventKey
  <2>3. NewEvent(table, k, n)
          <=> \E i \in DOMAIN chain[n] :
                chain[n][i].kind = "AggregatorPoolRegistered" /\ k = chain[n][i].id
    BY <1>5 DEF NewEvent
  <2>4. ASSUME NEW x \in EventsUpto({"AggregatorPoolRegistered"}, n), k = LogAt(chain, x).id
        PROVE  EventKey(table, k, n - 1) \/ NewEvent(table, k, n)
    <3>1. CASE x \in EventsUpto({"AggregatorPoolRegistered"}, n - 1)
      BY <2>2, <2>4, <3>1
    <3>2. CASE \E i \in DOMAIN chain[n] : x = <<n, i>> /\ chain[n][i].kind \in {"AggregatorPoolRegistered"}
      BY <1>2, <2>3, <2>4, <3>2
    <3> QED
      BY <1>1, <3>1, <3>2
  <2>5. ASSUME NEW x \in EventsUpto({"AggregatorPoolRegistered"}, n - 1), k = LogAt(chain, x).id
        PROVE  EventKey(table, k, n)
    BY <1>1, <2>1, <2>5
  <2>6. ASSUME NewEvent(table, k, n)
        PROVE  EventKey(table, k, n)
    <3>1. PICK i \in DOMAIN chain[n] : chain[n][i].kind = "AggregatorPoolRegistered" /\ k = chain[n][i].id
      BY <2>3, <2>6
    <3>2. <<n, i>> \in EventsUpto({"AggregatorPoolRegistered"}, n)
      BY <1>1, <3>1
    <3> QED
      BY <1>2, <2>1, <3>1, <3>2
  <2> QED
    BY <2>1, <2>2, <2>4, <2>5, <2>6
<1>6. CASE table = "pool_stats"
  <2>1. EventKey(table, k, n)
          <=> \E x \in EventsUpto({"Swap"}, n) : k = <<LogAt(chain, x).id, x[1]>>
    BY <1>6 DEF EventKey
  <2>2. EventKey(table, k, n - 1)
          <=> \E x \in EventsUpto({"Swap"}, n - 1) : k = <<LogAt(chain, x).id, x[1]>>
    BY <1>6 DEF EventKey
  <2>3. NewEvent(table, k, n)
          <=> \E i \in DOMAIN chain[n] : chain[n][i].kind = "Swap" /\ k = <<chain[n][i].id, n>>
    BY <1>6 DEF NewEvent
  <2>4. ASSUME NEW x \in EventsUpto({"Swap"}, n), k = <<LogAt(chain, x).id, x[1]>>
        PROVE  EventKey(table, k, n - 1) \/ NewEvent(table, k, n)
    <3>1. CASE x \in EventsUpto({"Swap"}, n - 1)
      BY <2>2, <2>4, <3>1
    <3>2. CASE \E i \in DOMAIN chain[n] : x = <<n, i>> /\ chain[n][i].kind \in {"Swap"}
      BY <1>2, <2>3, <2>4, <3>2
    <3> QED
      BY <1>1, <3>1, <3>2
  <2>5. ASSUME NEW x \in EventsUpto({"Swap"}, n - 1), k = <<LogAt(chain, x).id, x[1]>>
        PROVE  EventKey(table, k, n)
    BY <1>1, <2>1, <2>5
  <2>6. ASSUME NewEvent(table, k, n)
        PROVE  EventKey(table, k, n)
    <3>1. PICK i \in DOMAIN chain[n] : chain[n][i].kind = "Swap" /\ k = <<chain[n][i].id, n>>
      BY <2>3, <2>6
    <3>2. <<n, i>> \in EventsUpto({"Swap"}, n)
      BY <1>1, <3>1
    <3> QED
      BY <1>2, <2>1, <3>1, <3>2
  <2> QED
    BY <2>1, <2>2, <2>4, <2>5, <2>6
<1>7. CASE table \notin EventTables
  BY <1>7 DEF EventKey, NewEvent, EventTables
<1> QED
  BY <1>3, <1>4, <1>5, <1>6, <1>7 DEF EventTables

LEMMA EventsBlock ==
  ASSUME chain \in Seq(Blocks), NEW n \in DOMAIN chain, NEW order \in Orders, NEW db,
         EventsExact(db, n - 1)
  PROVE  EventsExact(TablesAfter(db, Changes(n), order), n)
<1> SUFFICES ASSUME NEW table \in EventTables, NEW k
             PROVE  <<table, k>> \in DOMAIN TablesAfter(db, Changes(n), order) <=> EventKey(table, k, n)
  BY DEF EventsExact
<1>1. <<table, k>> \in DOMAIN db <=> EventKey(table, k, n - 1)
  BY DEF EventsExact
<1>2. <<table, k>> \in DOMAIN TablesAfter(db, Changes(n), order)
        <=> <<table, k>> \in DOMAIN db \/ Effective(db, Changes(n), order, <<table, k>>) # {}
  BY AfterFacts
<1>3. ChangesOf(n, <<table, k>>) # {} <=> NewEvent(table, k, n)
  BY EventChange, NewEventChange
<1>4. \A c \in ChangesOf(n, <<table, k>>) : c \in Effective(db, Changes(n), order, <<table, k>>)
  <2> TAKE c \in ChangesOf(n, <<table, k>>)
  <2>1. c.op = "Create"
    BY EventChange
  <2> QED
    BY <2>1 DEF ChangesOf, Effective, Creates
<1>5. Effective(db, Changes(n), order, <<table, k>>) \subseteq ChangesOf(n, <<table, k>>)
  BY DEF ChangesOf, Effective
<1> QED
  BY <1>1, <1>2, <1>3, <1>4, <1>5, EventKeyNext

(* The key of an event or of a summary is created once, and not when it is *)
(* there.                                                                  *)
LEMMA EventOnce ==
  ASSUME chain \in Seq(Blocks), NEW n \in DOMAIN chain,
         NEW table \in EventTables \ {"aggregator_pool"}, NEW k,
         NEW c \in ChangesOf(n, <<table, k>>), NEW d \in ChangesOf(n, <<table, k>>)
  PROVE  c = d /\ ~EventKey(table, k, n - 1)
<1>1. /\ c \in Changes(n) /\ c.key = <<table, k>> /\ d \in Changes(n) /\ d.key = <<table, k>>
      /\ table \notin {"pool", "position", "aggregator_pool"}
  BY DEF ChangesOf, EventTables
<1>2. \A i : /\ ~FromPool(c, n, i) /\ ~FromPosition(c, n, i)
             /\ ~FromPool(d, n, i) /\ ~FromPosition(d, n, i)
  BY <1>1, ChangeKeys
<1>3. CASE table = "pool_stats"
  <2>1. ASSUME NEW e \in {c, d} PROVE \E p \in Active(n) : e = PoolStats(p, n) /\ k = <<p, n>>
    <3>1. \A i : ~FromEvent(e, n, i)
      BY <1>1, <1>3, ChangeKeys
    <3>2. PICK p \in Active(n) : e = PoolStats(p, n)
      BY <1>1, <1>2, <3>1, ChangeForms
    <3> QED
      BY <1>1, <3>2, StatsFacts
  <2>2. PICK p \in Active(n) : c = PoolStats(p, n) /\ k = <<p, n>>
    BY <2>1
  <2>3. PICK q \in Active(n) : d = PoolStats(q, n) /\ k = <<q, n>>
    BY <2>1
  <2>4. p = q
    BY <2>2, <2>3
  <2>5. ASSUME EventKey(table, k, n - 1) PROVE FALSE
    <3>1. PICK x \in EventsUpto({"Swap"}, n - 1) : k = <<LogAt(chain, x).id, x[1]>>
      BY <1>3, <2>5 DEF EventKey
    <3>2. x[1] # n
      BY EventsBefore
    <3> QED
      BY <2>2, <3>1, <3>2
  <2> QED
    BY <2>2, <2>3, <2>4, <2>5
<1>4. CASE table \in {"swap", "position_event"}
  <2>1. \A p \in Active(n) : c # PoolStats(p, n) /\ d # PoolStats(p, n)
    BY <1>1, <1>4, StatsFacts
  <2>2. PICK i \in DOMAIN chain[n] : FromEvent(c, n, i)
    BY <1>1, <1>2, <2>1, ChangeForms
  <2>3. PICK j \in DOMAIN chain[n] : FromEvent(d, n, j)
    BY <1>1, <1>2, <2>1, ChangeForms
  <2>4. k = <<n, i>>
    BY <1>1, <1>4, <2>2, EventForm
  <2>5. k = <<n, j>>
    BY <1>1, <1>4, <2>3, EventForm
  <2>6. i = j
    BY <2>4, <2>5
  <2>7. c = d
    <3>1. chain[n][i].kind \in {"Swap", "Transfer", "Subscription"}
      BY <1>1, <1>4, <2>2, EventForm
    <3> QED
      BY <2>2, <2>3, <2>6, <3>1 DEF FromEvent
  <2>8. ASSUME EventKey(table, k, n - 1) PROVE FALSE
    <3>1. PICK K : k \in EventsUpto(K, n - 1)
      BY <1>4, <2>8 DEF EventKey
    <3>2. k[1] # n
      BY <3>1, EventsBefore
    <3> QED
      BY <2>4, <3>2
  <2> QED
    BY <2>7, <2>8
<1> QED
  BY <1>3, <1>4 DEF EventTables

(* A row the block makes is that of its Create, and one that is there      *)
(* already is left alone.                                                  *)
LEMMA EventRowMade ==
  ASSUME chain \in Seq(Blocks), NEW n \in DOMAIN chain, NEW order, NEW db,
         EventsExact(db, n - 1),
         NEW table \in EventTables \ {"aggregator_pool"}, NEW k,
         NEW c \in ChangesOf(n, <<table, k>>), ~Precedes(order, c, c),
         NEW column \in DOMAIN c.row
  PROVE  TablesAfter(db, Changes(n), order)[<<table, k>>][column] = c.row[column]
<1>1. /\ \A d \in ChangesOf(n, <<table, k>>) : d = c
      /\ ~EventKey(table, k, n - 1)
  BY EventOnce
<1>2. <<table, k>> \notin DOMAIN db
  BY <1>1 DEF EventsExact
<1>3. PICK S : S = Effective(db, Changes(n), order, <<table, k>>)
  OBVIOUS
<1>4. S = {c}
  <2>1. c.op = "Create"
    BY EventChange
  <2>2. c \in S
    BY <1>3, <2>1 DEF Effective, ChangesOf, Creates
  <2>3. S \subseteq ChangesOf(n, <<table, k>>)
    BY <1>3 DEF Effective, ChangesOf
  <2> QED
    BY <1>1, <2>2, <2>3
<1>5. FirstIn(order, S) = c /\ LastIn(order, S) = c
  BY <1>4 DEF FirstIn, LastIn
<1>6. PICK row : row = RowAfter(db, Changes(n), order, <<table, k>>)
  OBVIOUS
<1>7. PICK columns : columns = DOMAIN (IF <<table, k>> \in DOMAIN db THEN db[<<table, k>>]
                                       ELSE FirstIn(order, S).row)
  OBVIOUS
<1>8. columns = DOMAIN c.row
  BY <1>2, <1>5, <1>7
<1>9. Setting(S, column) = S
  BY <1>4 DEF Setting
<1>10. row[column] = LastIn(order, S).row[column]
  <2>1. \A col \in columns : Setting(S, col) # {} =>
          row[col] = LastIn(order, Setting(S, col)).row[col]
    BY <1>3, <1>6, <1>7, RowFacts
  <2>2. Setting(S, column) # {} /\ column \in columns
    BY <1>4, <1>8, <1>9
  <2>3. row[column] = LastIn(order, Setting(S, column)).row[column]
    BY <2>1, <2>2
  <2> QED
    BY <1>9, <2>3
<1>11. TablesAfter(db, Changes(n), order)[<<table, k>>] = row
  BY <1>3, <1>4, <1>6, AfterFacts
<1> QED
  BY <1>5, <1>10, <1>11

LEMMA EventRowKept ==
  ASSUME chain \in Seq(Blocks), NEW n \in DOMAIN chain, NEW order, NEW db,
         EventsExact(db, n - 1),
         NEW table \in EventTables \ {"aggregator_pool"}, NEW k, EventKey(table, k, n - 1)
  PROVE  TablesAfter(db, Changes(n), order)[<<table, k>>] = db[<<table, k>>]
<1>1. ChangesOf(n, <<table, k>>) = {}
  BY EventOnce
<1>2. Effective(db, Changes(n), order, <<table, k>>) = {}
  BY <1>1 DEF Effective, ChangesOf
<1>3. <<table, k>> \in DOMAIN db
  BY DEF EventsExact
<1> QED
  BY <1>2, <1>3, AfterFacts

(* The two rows of a swap of block n.                                      *)
LEMMA SwapRowMade ==
  ASSUME chain \in Seq(Blocks), NEW n \in DOMAIN chain, NEW order \in Orders, NEW db,
         EventsExact(db, n - 1), NEW i \in DOMAIN chain[n], chain[n][i].kind = "Swap"
  PROVE  TablesAfter(db, Changes(n), order)[<<"swap", <<n, i>>>>].pool = chain[n][i].id
<1>1. PICK c : c = SwapCreate(n, i)
  OBVIOUS
<1>2. FromEvent(c, n, i)
  BY <1>1 DEF FromEvent
<1>3. c.key = <<"swap", <<n, i>>>> /\ c.place = <<2, i, 1>> /\ c.ordinal = i
  BY <1>2, EventForm
<1>4. c \in ChangesOf(n, <<"swap", <<n, i>>>>)
  BY <1>2, <1>3, ChangeForms DEF ChangesOf
<1>5. i \in Nat
  BY BlockFacts, DbOutAssumption
<1>6. ~Precedes(order, c, c)
  BY <1>3, <1>5 DEF Precedes, InArray
<1>7. "pool" \in DOMAIN c.row /\ c.row["pool"] = chain[n][i].id
  BY <1>1 DEF SwapCreate, Change
<1>8. "swap" \in EventTables \ {"aggregator_pool"}
  BY DEF EventTables
<1> QED
  BY <1>4, <1>6, <1>7, <1>8, EventRowMade

LEMMA SummaryRowMade ==
  ASSUME chain \in Seq(Blocks), NEW n \in DOMAIN chain, NEW order \in Orders, NEW db,
         EventsExact(db, n - 1), NEW p \in Active(n)
  PROVE  TablesAfter(db, Changes(n), order)[<<"pool_stats", <<p, n>>>>].swap_count = SwapCount(p, n)
<1>1. PICK c : c = PoolStats(p, n)
  OBVIOUS
<1>2. c.key = <<"pool_stats", <<p, n>>>> /\ c.ordinal \in Nat
  BY <1>1, StatsFacts
<1>3. PICK idx \in Nat : c.place = <<5, idx, 1>>
  BY <1>1, StatsFacts
<1>4. c \in ChangesOf(n, <<"pool_stats", <<p, n>>>>)
  BY <1>1, <1>2, ChangeForms DEF ChangesOf
<1>5. ~Precedes(order, c, c)
  BY <1>2, <1>3 DEF Precedes, InArray
<1>6. "swap_count" \in DOMAIN c.row /\ c.row["swap_count"] = SwapCount(p, n)
  BY <1>1 DEF PoolStats, Change
<1>7. "pool_stats" \in EventTables \ {"aggregator_pool"}
  BY DEF EventTables
<1> QED
  BY <1>4, <1>5, <1>6, <1>7, EventRowMade

LEMMA RowsBlock ==
  ASSUME chain \in Seq(Blocks), NEW n \in DOMAIN chain, NEW order \in Orders, NEW db,
         EventsExact(db, n - 1), RowsExact(db, n - 1)
  PROVE  RowsExact(TablesAfter(db, Changes(n), order), n)
<1>1. PICK after : after = TablesAfter(db, Changes(n), order)
  OBVIOUS
<1> SUFFICES ASSUME NEW x \in EventsUpto({"Swap"}, n)
             PROVE  /\ after[<<"swap", x>>].pool = LogAt(chain, x).id
                    /\ after[<<"pool_stats", <<LogAt(chain, x).id, x[1]>>>>].swap_count
                         = SwapCount(LogAt(chain, x).id, x[1])
  BY <1>1 DEF RowsExact
<1>2. CASE x \in EventsUpto({"Swap"}, n - 1)
  <2>1. EventKey("swap", x, n - 1) /\ EventKey("pool_stats", <<LogAt(chain, x).id, x[1]>>, n - 1)
    BY <1>2 DEF EventKey
  <2>2. {"swap", "pool_stats"} \subseteq EventTables \ {"aggregator_pool"}
    BY DEF EventTables
  <2>3. /\ after[<<"swap", x>>] = db[<<"swap", x>>]
        /\ after[<<"pool_stats", <<LogAt(chain, x).id, x[1]>>>>]
             = db[<<"pool_stats", <<LogAt(chain, x).id, x[1]>>>>]
    BY <1>1, <2>1, <2>2, EventRowKept
  <2> QED
    BY <1>2, <2>3 DEF RowsExact
<1>3. CASE \E i \in DOMAIN chain[n] : x = <<n, i>> /\ chain[n][i].kind \in {"Swap"}
  <2>1. PICK i \in DOMAIN chain[n] : x = <<n, i>> /\ chain[n][i].kind = "Swap"
    BY <1>3
  <2>2. LogAt(chain, x) = chain[n][i] /\ x[1] = n
    BY <2>1 DEF LogAt
  <2>3. after[<<"swap", x>>].pool = chain[n][i].id
    BY <1>1, <2>1, SwapRowMade
  <2>4. chain[n][i].id \in Active(n)
    BY <2>1, ActiveFacts
  <2>5. after[<<"pool_stats", <<chain[n][i].id, n>>>>].swap_count = SwapCount(chain[n][i].id, n)
    BY <1>1, <2>4, SummaryRowMade
  <2> QED
    BY <2>2, <2>3, <2>5
<1> QED
  BY <1>2, <1>3, EventsNext

LEMMA KeysPaired ==
  ASSUME chain \in Seq(Blocks), NEW n \in DOMAIN chain, NEW c \in Changes(n)
  PROVE  c.key = <<c.key[1], c.key[2]>> /\ c.key[1] \in Tables
<1>1. \E table \in Tables : \E k : c.key = <<table, k>>
  <2>1. CASE \E p \in Active(n) : c = PoolStats(p, n)
    BY <2>1, ChangeKeys DEF Tables
  <2>2. CASE \E i \in DOMAIN chain[n] : FromPool(c, n, i) \/ FromPosition(c, n, i)
    BY <2>2, ChangeKeys DEF Tables
  <2>3. CASE \E i \in DOMAIN chain[n] : FromEvent(c, n, i)
    BY <2>3, ChangeKeys DEF Tables
  <2> QED
    BY <2>1, <2>2, <2>3, ChangeForms
<1> QED
  BY <1>1

LEMMA ExactAfter ==
  ASSUME ChainLegal, NEW n \in DOMAIN chain, NEW order \in Orders, NEW db, Exact(db, n - 1)
  PROVE  Exact(TablesAfter(db, Changes(n), order), n)
<1>1. chain \in Seq(Blocks)
  BY DEF ChainLegal
<1>2. PoolsExact(TablesAfter(db, Changes(n), order), n)
  BY PoolBlock DEF Exact
<1>3. PositionsExact(TablesAfter(db, Changes(n), order), n)
  BY PositionBlock DEF Exact
<1>4. EventsExact(TablesAfter(db, Changes(n), order), n)
  BY <1>1, EventsBlock DEF Exact
<1>5. RowsExact(TablesAfter(db, Changes(n), order), n)
  BY <1>1, RowsBlock DEF Exact
<1>6. Paired(TablesAfter(db, Changes(n), order))
  <2> SUFFICES ASSUME NEW key \in DOMAIN TablesAfter(db, Changes(n), order)
               PROVE  key = <<key[1], key[2]>> /\ key[1] \in Tables
    BY DEF Paired
  <2>1. CASE key \in DOMAIN db
    BY <2>1 DEF Paired, Exact
  <2>2. CASE key \in Touched(db, Changes(n), order)
    <3>1. PICK c \in Changes(n) : key = c.key
      BY <2>2 DEF Touched
    <3>2. c.key = <<c.key[1], c.key[2]>> /\ c.key[1] \in Tables
      BY <1>1, KeysPaired
    <3> QED
      BY <3>1, <3>2
  <2>3. DOMAIN TablesAfter(db, Changes(n), order) = DOMAIN db \cup Touched(db, Changes(n), order)
    BY DEF TablesAfter
  <2> QED
    BY <2>1, <2>2, <2>3
<1> QED
  BY <1>2, <1>3, <1>4, <1>5, <1>6 DEF Exact

(* A row's key is created once, and not when it is there.                  *)
LEMMA PoolOnce ==
  ASSUME ChainLegal, NEW n \in DOMAIN chain, NEW p,
         NEW c \in ChangesOf(n, <<"pool", p>>), NEW d \in ChangesOf(n, <<"pool", p>>),
         c.op = "Create", d.op = "Create"
  PROVE  c = d /\ p \notin Known(n - 1)
<1>1. chain \in Seq(Blocks)
  BY DEF ChainLegal
<1>2. PICK i \in DOMAIN chain[n] : chain[n][i].id = p /\ FromPool(c, n, i)
  BY <1>1, PoolChanges
<1>3. PICK j \in DOMAIN chain[n] : chain[n][j].id = p /\ FromPool(d, n, j)
  BY <1>1, PoolChanges
<1>4. chain[n][i].kind = "Initialize" /\ chain[n][j].kind = "Initialize"
  BY <1>2, <1>3, PoolForm
<1>5. i = j
  BY <1>2, <1>3, <1>4, InitThenSwap
<1>6. c = d
  BY <1>2, <1>3, <1>5 DEF FromPool
<1> QED
  BY <1>2, <1>4, <1>6, KnownStays

LEMMA PositionOnce ==
  ASSUME ChainLegal, NEW n \in DOMAIN chain, NEW t,
         NEW c \in ChangesOf(n, <<"position", t>>), NEW d \in ChangesOf(n, <<"position", t>>),
         c.op = "Create", d.op = "Create"
  PROVE  c = d /\ t \notin MintedIn(n - 1)
<1>1. chain \in Seq(Blocks)
  BY DEF ChainLegal
<1>2. PICK i \in DOMAIN chain[n] : chain[n][i].id = t /\ FromPosition(c, n, i)
  BY <1>1, PositionRowChanges
<1>3. PICK j \in DOMAIN chain[n] : chain[n][j].id = t /\ FromPosition(d, n, j)
  BY <1>1, PositionRowChanges
<1>4. /\ chain[n][i].kind = "Transfer" /\ chain[n][i].from = Nobody
      /\ chain[n][j].kind = "Transfer" /\ chain[n][j].from = Nobody
  BY <1>2, <1>3, PositionForm
<1>5. /\ <<n, i>> \in History(chain, t, {"Transfer"})
      /\ <<n, j>> \in History(chain, t, {"Transfer"})
  BY <1>1, <1>2, <1>3, <1>4, HistoryFacts
<1>6. ~Before(<<n, i>>, <<n, j>>) /\ ~Before(<<n, j>>, <<n, i>>)
  BY <1>4, <1>5, MintFirst DEF LogAt
<1>7. <<n, i>> \in Places(chain) /\ <<n, j>> \in Places(chain)
  BY <1>1, PlaceFacts
<1>8. i = j
  BY <1>1, <1>6, <1>7, BeforeFacts
<1>9. c = d
  BY <1>2, <1>3, <1>8 DEF FromPosition
<1> QED
  BY <1>2, <1>4, <1>9, MintedStays

LEMMA RefusedFacts ==
  ASSUME ChainLegal, NEW n \in DOMAIN chain, NEW db, Exact(db, n - 1),
         NEW key \in Refused(db, Changes(n))
  PROVE  key[1] = "aggregator_pool"
<1> SUFFICES ASSUME key[1] # "aggregator_pool" PROVE FALSE
  OBVIOUS
<1>1. chain \in Seq(Blocks)
  BY DEF ChainLegal
<1>2. PICK b \in Changes(n) : b.key = key
  BY DEF Refused
<1>3. key = <<key[1], key[2]>> /\ key[1] \in Tables
  BY <1>1, <1>2, KeysPaired
<1>4. PICK table, k : key = <<table, k>> /\ table \in Tables \ {"aggregator_pool"}
  BY <1>3
<1>5. PICK c \in ChangesOf(n, key), d \in ChangesOf(n, key) :
        c.op = "Create" /\ d.op = "Create" /\ (key \in DOMAIN db \/ c # d)
  BY DEF Refused, Creates, ChangesOf
<1>6. CASE table = "pool"
  <2>1. c = d /\ k \notin Known(n - 1)
    BY <1>4, <1>5, <1>6, PoolOnce
  <2>2. key \notin DOMAIN db
    BY <1>4, <1>6, <2>1 DEF Exact, PoolsExact
  <2> QED
    BY <1>5, <2>1, <2>2
<1>7. CASE table = "position"
  <2>1. c = d /\ k \notin MintedIn(n - 1)
    BY <1>4, <1>5, <1>7, PositionOnce
  <2>2. key \notin DOMAIN db
    BY <1>4, <1>7, <2>1 DEF Exact, PositionsExact
  <2> QED
    BY <1>5, <2>1, <2>2
<1>8. CASE table \in EventTables
  <2>1. c = d /\ ~EventKey(table, k, n - 1)
    BY <1>1, <1>4, <1>5, <1>8, EventOnce
  <2>2. key \notin DOMAIN db
    BY <1>4, <1>8, <2>1 DEF Exact, EventsExact
  <2> QED
    BY <1>5, <2>1, <2>2
<1> QED
  BY <1>4, <1>6, <1>7, <1>8 DEF Tables, EventTables

-----------------------------------------------------------------------------
(* A batch of blocks.                                                      *)

DatabaseBody(db, order, k) ==
  IF k = 0 THEN tables ELSE TablesAfter(db[k - 1], Changes(cursor + k), order)

LEMMA DatabasesExist ==
  ASSUME NEW order, NEW f \in Nat
  PROVE  \E db : db = [k \in 0 .. f |-> DatabaseBody(db, order, k)]
<1> DEFINE Solves(db, j) == db = [k \in 0 .. j |-> DatabaseBody(db, order, k)]
           Bad == {j \in Nat : ~\E db : Solves(db, j)}
<1>1. Bad = {}
  <2> SUFFICES ASSUME Bad # {} PROVE FALSE
    OBVIOUS
  <2>1. PICK j \in Bad : \A i \in Bad : j <= i
    <3>1. Bad \in SUBSET Nat
      OBVIOUS
    <3> HIDE DEF Bad
    <3> QED
      BY <3>1, LeastExists
  <2>2. j # 0
    <3> SUFFICES ASSUME j = 0 PROVE FALSE
      OBVIOUS
    <3> DEFINE z == [k \in 0 .. 0 |-> tables]
    <3>1. \A k \in 0 .. 0 : DatabaseBody(z, order, k) = tables
      BY DEF DatabaseBody
    <3>2. z = [k \in 0 .. 0 |-> DatabaseBody(z, order, k)]
      BY <3>1
    <3> QED
      BY <3>2
  <2>3. j \in Nat /\ j - 1 \in Nat /\ j - 1 \notin Bad
    <3>1. j \in Nat
      BY <2>1
    <3> HIDE DEF Bad
    <3> QED
      BY <2>1, <2>2, <3>1
  <2>4. PICK g : Solves(g, j - 1)
    BY <2>3
  <2> DEFINE h == [k \in 0 .. j |-> DatabaseBody(g, order, k)]
  <2>5. \A k \in 0 .. j - 1 : h[k] = g[k]
    <3> TAKE k \in 0 .. j - 1
    <3>1. k \in 0 .. j
      BY <2>3
    <3>2. g[k] = DatabaseBody(g, order, k)
      BY <2>4
    <3> QED
      BY <3>1, <3>2
  <2>6. \A k \in 0 .. j : DatabaseBody(h, order, k) = DatabaseBody(g, order, k)
    <3> TAKE k \in 0 .. j
    <3>1. k # 0 => k - 1 \in 0 .. j - 1
      BY <2>3
    <3>2. k # 0 => h[k - 1] = g[k - 1]
      BY <2>5, <3>1
    <3> HIDE DEF h
    <3> QED
      BY <3>2 DEF DatabaseBody
  <2>7. h = [k \in 0 .. j |-> DatabaseBody(h, order, k)]
    <3> DEFINE r == [k \in 0 .. j |-> DatabaseBody(h, order, k)]
    <3>1. \A k \in 0 .. j : h[k] = r[k]
      BY <2>6
    <3> QED
      BY <2>6
  <2> HIDE DEF h
  <2>8. j \notin Bad
    BY <2>7
  <2> QED
    BY <2>1, <2>8
<1> QED
  BY <1>1

LEMMA DatabasesFacts ==
  ASSUME NEW order
  PROVE  /\ Databases(order)[0] = tables
         /\ \A k \in 1 .. FlushInterval :
              Databases(order)[k] = TablesAfter(Databases(order)[k - 1], Changes(cursor + k), order)
<1> DEFINE db == CHOOSE d : d = [k \in 0 .. FlushInterval |-> DatabaseBody(d, order, k)]
<1>1. db = [k \in 0 .. FlushInterval |-> DatabaseBody(db, order, k)]
  BY DatabasesExist, DbOutAssumption
<1>2. Databases(order) = db
  BY DEF Databases, DatabaseBody
<1> HIDE DEF db
<1>3. \A k \in 0 .. FlushInterval : db[k] = DatabaseBody(db, order, k)
  BY <1>1
<1>4. 0 \in 0 .. FlushInterval
  BY DbOutAssumption
<1>5. db[0] = tables
  BY <1>3, <1>4 DEF DatabaseBody
<1>6. \A k \in 1 .. FlushInterval : db[k] = TablesAfter(db[k - 1], Changes(cursor + k), order)
  BY <1>3, DbOutAssumption DEF DatabaseBody
<1> QED
  BY <1>2, <1>5, <1>6

(* Block by block the batch takes the tables to those of its last block.   *)
LEMMA BatchExact ==
  ASSUME ChainLegal, cursor \in Nat, cursor + FlushInterval <= Len(chain),
         Exact(tables, cursor), NEW order \in Orders
  PROVE  \A k \in 0 .. FlushInterval : Exact(Databases(order)[k], cursor + k)
<1> DEFINE Bad == {k \in 0 .. FlushInterval : ~Exact(Databases(order)[k], cursor + k)}
<1>1. Bad = {}
  <2> SUFFICES ASSUME Bad # {} PROVE FALSE
    OBVIOUS
  <2>1. PICK k \in Bad : \A j \in Bad : k <= j
    <3>1. Bad \in SUBSET Nat
      OBVIOUS
    <3> HIDE DEF Bad
    <3> QED
      BY <3>1, LeastExists
  <2>2. k \in 0 .. FlushInterval /\ k # 0
    <3>1. Exact(Databases(order)[0], cursor + 0)
      BY DatabasesFacts
    <3> QED
      BY <3>1
  <2>3. k - 1 \in 0 .. FlushInterval /\ k - 1 \notin Bad
    <3>1. k - 1 \in 0 .. FlushInterval
      BY <2>2, DbOutAssumption
    <3> HIDE DEF Bad
    <3> QED
      BY <2>1, <2>2, <3>1, DbOutAssumption
  <2>4. Exact(Databases(order)[k - 1], cursor + (k - 1))
    BY <2>3
  <2>5. cursor + k \in DOMAIN chain /\ cursor + (k - 1) = (cursor + k) - 1
    BY <2>2, DbOutAssumption DEF ChainLegal
  <2>6. Exact(TablesAfter(Databases(order)[k - 1], Changes(cursor + k), order), cursor + k)
    BY <2>4, <2>5, ExactAfter
  <2>7. Databases(order)[k] = TablesAfter(Databases(order)[k - 1], Changes(cursor + k), order)
    BY <2>2, DatabasesFacts
  <2> QED
    BY <2>6, <2>7
<1> QED
  BY <1>1

-----------------------------------------------------------------------------
(* The history table keeps the tables as they were after every block.      *)

Recorded(h, a, b) ==
  /\ DOMAIN h \subseteq DOMAIN b
  /\ \A key \in DOMAIN h : h[key] = IF key \in DOMAIN a THEN {a[key]} ELSE {}
  /\ \A key : key \notin DOMAIN h => /\ key \in DOMAIN a <=> key \in DOMAIN b
                                     /\ key \in DOMAIN a => b[key] = a[key]

Snapshots(S) ==
  /\ S[cursor] = tables
  /\ \A n \in 0 .. cursor : Exact(S[n], n) /\ S[n] = [key \in DOMAIN S[n] |-> S[n][key]]
  /\ \A n \in 1 .. cursor : Recorded(history[n], S[n - 1], S[n])

LEMMA ImagesRecord ==
  ASSUME NEW db, NEW changes, NEW order
  PROVE  Recorded(Images(db, changes, order), db, TablesAfter(db, changes, order))
<1> DEFINE h == Images(db, changes, order)
           after == TablesAfter(db, changes, order)
<1>1. DOMAIN h = Touched(db, changes, order)
  BY DEF Images
<1>2. DOMAIN after = DOMAIN db \cup Touched(db, changes, order)
  BY DEF TablesAfter
<1>3. \A key \in DOMAIN h : h[key] = IF key \in DOMAIN db THEN {db[key]} ELSE {}
  BY DEF Images
<1>4. \A key \in DOMAIN db : key \notin Touched(db, changes, order) => after[key] = db[key]
  BY DEF TablesAfter
<1> HIDE DEF h, after
<1>5. Recorded(h, db, after)
  BY <1>1, <1>2, <1>3, <1>4 DEF Recorded
<1> QED
  BY <1>5 DEF h, after

LEMMA Held ==
  ASSUME NEW S, Snapshots(S), cursor \in Nat
  PROVE  S[cursor] = tables /\ Exact(tables, cursor) /\ tables = [key \in DOMAIN tables |-> tables[key]]
<1>1. cursor \in 0 .. cursor /\ S[cursor] = tables
  BY DEF Snapshots
<1>2. \A n \in 0 .. cursor : Exact(S[n], n) /\ S[n] = [key \in DOMAIN S[n] |-> S[n][key]]
  BY DEF Snapshots
<1>3. Exact(S[cursor], cursor) /\ S[cursor] = [key \in DOMAIN S[cursor] |-> S[cursor][key]]
  BY <1>1, <1>2
<1> QED
  BY <1>1, <1>3

(* A row no block from n + 1 to j touched is after j what it was after n.  *)
LEMMA Untouched ==
  ASSUME NEW S, Snapshots(S), cursor \in Nat, NEW n \in 0 .. cursor, NEW key,
         NEW j \in n .. cursor, \A k \in n + 1 .. j : key \notin DOMAIN history[k]
  PROVE  /\ key \in DOMAIN S[n] <=> key \in DOMAIN S[j]
         /\ key \in DOMAIN S[n] => S[j][key] = S[n][key]
<1> DEFINE Same(k) == /\ key \in DOMAIN S[n] <=> key \in DOMAIN S[k]
                      /\ key \in DOMAIN S[n] => S[k][key] = S[n][key]
           Bad == {k \in n .. j : ~Same(k)}
<1>1. Bad = {}
  <2> SUFFICES ASSUME Bad # {} PROVE FALSE
    OBVIOUS
  <2>1. PICK k \in Bad : \A i \in Bad : k <= i
    <3>1. Bad \in SUBSET Nat
      OBVIOUS
    <3> HIDE DEF Bad
    <3> QED
      BY <3>1, LeastExists
  <2>2. k \in n .. j /\ k # n /\ ~Same(k)
    OBVIOUS
  <2>3. k \in n + 1 .. j /\ k \in 1 .. cursor /\ k - 1 \in n .. j /\ ~(k <= k - 1)
    BY <2>2
  <2>4. Same(k - 1)
    <3> HIDE DEF Same
    <3> QED
      BY <2>1, <2>3
  <2>5. Recorded(history[k], S[k - 1], S[k]) /\ key \notin DOMAIN history[k]
    BY <2>3 DEF Snapshots
  <2>6. /\ key \in DOMAIN S[k - 1] <=> key \in DOMAIN S[k]
        /\ key \in DOMAIN S[k - 1] => S[k][key] = S[k - 1][key]
    BY <2>5 DEF Recorded
  <2> QED
    BY <2>2, <2>4, <2>6
<1>2. j \in n .. j
  OBVIOUS
<1> QED
  BY <1>1, <1>2

(* No row is deleted.                                                      *)
LEMMA RowsStay ==
  ASSUME NEW S, Snapshots(S), cursor \in Nat, NEW n \in 0 .. cursor, NEW key \in DOMAIN S[n]
  PROVE  key \in DOMAIN tables
<1> DEFINE Bad == {k \in n .. cursor : key \notin DOMAIN S[k]}
<1>1. Bad = {}
  <2> SUFFICES ASSUME Bad # {} PROVE FALSE
    OBVIOUS
  <2>1. PICK k \in Bad : \A i \in Bad : k <= i
    <3>1. Bad \in SUBSET Nat
      OBVIOUS
    <3> HIDE DEF Bad
    <3> QED
      BY <3>1, LeastExists
  <2>2. k \in n .. cursor /\ k # n /\ key \notin DOMAIN S[k]
    OBVIOUS
  <2>3. k \in 1 .. cursor /\ k - 1 \in n .. cursor /\ ~(k <= k - 1)
    BY <2>2
  <2>4. key \in DOMAIN S[k - 1]
    BY <2>1, <2>3
  <2>5. Recorded(history[k], S[k - 1], S[k])
    BY <2>3 DEF Snapshots
  <2> QED
    BY <2>2, <2>4, <2>5 DEF Recorded
<1>2. cursor \in n .. cursor /\ S[cursor] = tables
  BY DEF Snapshots
<1> QED
  BY <1>1, <1>2

(* The images give back the tables after any block the database holds.     *)
LEMMA TablesAtIs ==
  ASSUME NEW S, Snapshots(S), cursor \in Nat, NEW n \in 0 .. cursor
  PROVE  TablesAt(n) = S[n]
<1>1. S[cursor] = tables
  BY DEF Snapshots
<1>2. ASSUME NEW key \in DOMAIN tables
      PROVE  ImageAt(n, key) = IF key \in DOMAIN S[n] THEN {S[n][key]} ELSE {}
  <2> DEFINE later == {m \in n + 1 .. cursor : key \in DOMAIN history[m]}
  <2>1. CASE later = {}
    <3>1. \A k \in n + 1 .. cursor : key \notin DOMAIN history[k]
      BY <2>1
    <3>2. /\ key \in DOMAIN S[n] <=> key \in DOMAIN tables
          /\ key \in DOMAIN S[n] => tables[key] = S[n][key]
      <4>1. cursor \in n .. cursor
        OBVIOUS
      <4> QED
        BY <1>1, <3>1, <4>1, Untouched
    <3>3. ImageAt(n, key) = {tables[key]}
      BY <2>1 DEF ImageAt
    <3> QED
      BY <1>2, <3>2, <3>3
  <2>2. CASE later # {}
    <3>1. PICK m : m = Min(later)
      OBVIOUS
    <3>2. m \in later /\ \A k \in later : m <= k
      <4>1. later \in SUBSET Nat
        OBVIOUS
      <4> HIDE DEF later
      <4> QED
        BY <2>2, <3>1, <4>1, MinFacts
    <3>3. m \in 1 .. cursor /\ m - 1 \in n .. cursor /\ key \in DOMAIN history[m]
      BY <3>2
    <3>4. \A k \in n + 1 .. m - 1 : key \notin DOMAIN history[k]
      <4> SUFFICES ASSUME NEW k \in n + 1 .. m - 1, key \in DOMAIN history[k] PROVE FALSE
        OBVIOUS
      <4>1. k \in later /\ ~(m <= k)
        BY <3>3
      <4> QED
        BY <3>2, <4>1
    <3>5. /\ key \in DOMAIN S[n] <=> key \in DOMAIN S[m - 1]
          /\ key \in DOMAIN S[n] => S[m - 1][key] = S[n][key]
      BY <3>3, <3>4, Untouched
    <3>6. history[m][key] = IF key \in DOMAIN S[m - 1] THEN {S[m - 1][key]} ELSE {}
      BY <3>3 DEF Snapshots, Recorded
    <3>7. ImageAt(n, key) = history[m][key]
      BY <2>2, <3>1 DEF ImageAt
    <3> QED
      BY <3>5, <3>6, <3>7
  <2> QED
    BY <2>1, <2>2
<1>3. DOMAIN S[n] \subseteq DOMAIN tables
  BY RowsStay
<1>4. {k \in DOMAIN tables : ImageAt(n, k) # {}} = DOMAIN S[n]
  BY <1>2, <1>3
<1>5. \A key \in DOMAIN S[n] : (CHOOSE row \in ImageAt(n, key) : TRUE) = S[n][key]
  <2> TAKE key \in DOMAIN S[n]
  <2>1. ImageAt(n, key) = {S[n][key]}
    BY <1>2, <1>3
  <2> QED
    BY <2>1
<1>6. TablesAt(n) = [key \in DOMAIN S[n] |-> S[n][key]]
  BY <1>4, <1>5 DEF TablesAt
<1> QED
  BY <1>6 DEF Snapshots

-----------------------------------------------------------------------------
(* The inductive invariant.  The chain is legal, and the tables, with the  *)
(* images of the history table, hold every block up to the cursor exactly: *)
(* taking blocks back needs the rows as they were, not only as they are.   *)

IInv ==
  /\ ChainLegal
  /\ running \in BOOLEAN
  /\ cursor \in 0 .. read /\ read \in 0 .. Len(chain)
  /\ runs \in 0 .. MaxRuns /\ undos \in 0 .. MaxUndos
  /\ Len(history) = cursor /\ \E H : history \in Seq(H)
  /\ \A key \in refused : key[1] = "aggregator_pool"
  /\ \E S : Snapshots(S)

LEMMA SnapshotsKept ==
  ASSUME NEW S, Snapshots(S), NEW m, SameTo(chain, chain', m), cursor \in Nat,
         cursor' \in 0 .. cursor, cursor' <= m, tables' = S[cursor'],
         \A k \in 1 .. cursor' : history'[k] = history[k]
  PROVE  Snapshots(S)'
<1>1. \A n \in 0 .. cursor' : n \in 0 .. cursor /\ n \in 0 .. m
  BY DEF SameTo
<1>2. \A n \in 0 .. cursor' : Exact(S[n], n)'
  <2> TAKE n \in 0 .. cursor'
  <2>1. Exact(S[n], n) /\ n \in 0 .. m
    BY <1>1 DEF Snapshots
  <2> QED
    BY <2>1, SameExact
<1>3. \A n \in 0 .. cursor' : S[n] = [key \in DOMAIN S[n] |-> S[n][key]]
  BY <1>1 DEF Snapshots
<1>4. \A n \in 1 .. cursor' : Recorded(history'[n], S[n - 1], S[n])
  <2> TAKE n \in 1 .. cursor'
  <2>1. n \in 1 .. cursor
    BY <1>1
  <2> QED
    BY <2>1 DEF Snapshots
<1> QED
  BY <1>2, <1>3, <1>4 DEF Snapshots, Recorded

(* A legal chain stays legal when it is cut or extended.                   *)
LEMMA ChainCut ==
  ASSUME ChainLegal, NEW m \in 0 .. Len(chain), chain' = SubSeq(chain, 1, m)
  PROVE  ChainLegal' /\ SameTo(chain, chain', m) /\ Len(chain') = m
<1>1. chain \in Seq(Blocks) /\ Len(chain) \in Nat /\ Len(chain) <= Stop
  BY DEF ChainLegal
<1>2. chain' \in Seq(Blocks) /\ Len(chain') = m /\ \A k \in 1 .. m : chain'[k] = chain[k]
  BY <1>1
<1>3. SameTo(chain, chain', m)
  BY <1>1, <1>2 DEF SameTo
<1>4. \A x \in Places(chain') : LegalAt(chain', x)
  <2> TAKE x \in Places(chain')
  <2>1. x[1] \in DOMAIN chain' /\ DOMAIN chain' = 1 .. m
    <3>1. chain' \in Seq(Blocks) /\ DOMAIN chain' = 1 .. m
      BY <1>2
    <3> QED
      BY <3>1, PlaceFacts
  <2>2. x[1] <= m
    BY <2>1
  <2>3. x \in Places(chain)
    BY <1>3, <2>2, SameTurned, SamePlaces
  <2> QED
    BY <1>3, <2>2, <2>3, SameLegal DEF ChainLegal
<1>5. Len(chain') <= Stop
  BY <1>1, <1>2, DbOutAssumption
<1> QED
  BY <1>2, <1>3, <1>4, <1>5 DEF ChainLegal

LEMMA ChainGrown ==
  ASSUME ChainLegal, Len(chain) < Stop, NEW b \in Blocks, Extends(chain, b),
         chain' = Append(chain, b)
  PROVE  ChainLegal' /\ SameTo(chain, chain', Len(chain)) /\ Len(chain') = Len(chain) + 1
<1>1. chain \in Seq(Blocks) /\ Len(chain) \in Nat
  BY DEF ChainLegal
<1>2. /\ chain' \in Seq(Blocks) /\ Len(chain') = Len(chain) + 1
      /\ \A k \in 1 .. Len(chain) : chain'[k] = chain[k]
      /\ chain'[Len(chain')] = b
  BY <1>1
<1>3. SameTo(chain, chain', Len(chain))
  BY <1>1, <1>2 DEF SameTo
<1>4. \A x \in Places(chain') : LegalAt(chain', x)
  <2> TAKE x \in Places(chain')
  <2>1. x = <<x[1], x[2]>> /\ x[1] \in 1 .. Len(chain') /\ x[2] \in DOMAIN chain'[x[1]]
    <3>1. chain' \in Seq(Blocks) /\ DOMAIN chain' = 1 .. Len(chain')
      BY <1>2
    <3> QED
      BY <3>1, PlaceFacts
  <2>2. CASE x[1] <= Len(chain)
    <3>1. x \in Places(chain)
      BY <1>3, <2>2, SameTurned, SamePlaces
    <3> QED
      BY <1>3, <2>2, <3>1, SameLegal DEF ChainLegal
  <2>3. CASE x[1] = Len(chain')
    <3>1. x[2] \in DOMAIN b /\ x = <<Len(chain'), x[2]>>
      BY <1>2, <2>1, <2>3
    <3> QED
      BY <3>1 DEF Extends
  <2> QED
    BY <1>1, <1>2, <2>1, <2>2, <2>3
<1>5. Len(chain') <= Stop
  BY <1>1, <1>2, DbOutAssumption
<1> QED
  BY <1>2, <1>3, <1>4, <1>5 DEF ChainLegal

LEMMA IInvInit ==
  Init => IInv
<1> SUFFICES ASSUME Init PROVE IInv
  OBVIOUS
<1>1. /\ chain = <<>> /\ running = FALSE /\ read = 0 /\ cursor = 0 /\ tables = <<>>
      /\ history = <<>> /\ refused = {} /\ runs = 0 /\ undos = 0
  BY DEF Init
<1>2. Places(chain) = {}
  BY <1>1 DEF Places
<1>3. ChainLegal
  BY <1>1, <1>2, DbOutAssumption DEF ChainLegal
<1>4. Exact(tables, 0)
  <2>1. \A p : p \notin Known(0)
    BY <1>2 DEF Known, History
  <2>2. \A t : t \notin MintedIn(0)
    BY <1>2 DEF MintedIn, Upto, History
  <2>3. \A table, k : ~EventKey(table, k, 0)
    BY <1>2 DEF EventKey, EventsUpto, Upto
  <2>4. DOMAIN tables = {}
    BY <1>1
  <2>5. RowsExact(tables, 0)
    BY <1>2 DEF RowsExact, EventsUpto, Upto
  <2> QED
    BY <2>1, <2>2, <2>3, <2>4, <2>5 DEF Exact, Paired, PoolsExact, PositionsExact, EventsExact
<1>5. \E S : Snapshots(S)
  <2> DEFINE S == [n \in {0} |-> tables]
  <2>1. S[0] = tables
    OBVIOUS
  <2>2. tables = [key \in DOMAIN tables |-> tables[key]]
    BY <1>1
  <2> HIDE DEF S
  <2>3. Snapshots(S)
    BY <1>1, <1>4, <2>1, <2>2 DEF Snapshots
  <2> QED
    BY <2>3
<1>6. history \in Seq({}) /\ Len(history) = 0
  BY <1>1
<1>7. 0 \in 0 .. MaxRuns /\ 0 \in 0 .. MaxUndos
  BY DbOutAssumption
<1>8. /\ running \in BOOLEAN /\ cursor \in 0 .. read /\ read \in 0 .. Len(chain)
      /\ runs \in 0 .. MaxRuns /\ undos \in 0 .. MaxUndos
  <2>1. Len(chain) = 0
    BY <1>1
  <2>2. running \in BOOLEAN
    BY <1>1
  <2>3. cursor \in 0 .. read /\ read \in 0 .. Len(chain)
    BY <1>1, <2>1
  <2>4. runs \in 0 .. MaxRuns /\ undos \in 0 .. MaxUndos
    BY <1>1, <1>7
  <2> QED
    BY <2>2, <2>3, <2>4
<1>9. Len(history) = cursor /\ \E H : history \in Seq(H)
  BY <1>1, <1>6
<1>10. \A key \in refused : key[1] = "aggregator_pool"
  BY <1>1
<1> QED
  BY <1>3, <1>5, <1>8, <1>9, <1>10 DEF IInv

LEMMA TablesStay ==
  ASSUME IInv, UNCHANGED <<chain, cursor, tables, history>>
  PROVE  /\ ChainLegal'
         /\ Len(history') = cursor' /\ \E H : history' \in Seq(H)
         /\ (\E S : Snapshots(S))'
<1>1. ChainLegal'
  BY DEF IInv, ChainLegal
<1>2. Len(history') = cursor' /\ \E H : history' \in Seq(H)
  BY DEF IInv
<1>3. chain \in Seq(Blocks) /\ cursor \in Nat /\ cursor <= Len(chain)
  BY DEF IInv, ChainLegal
<1>4. SameTo(chain, chain', cursor)
  BY <1>3 DEF SameTo
<1>5. PICK S : Snapshots(S)
  BY DEF IInv
<1>6. tables' = S[cursor']
  BY <1>5 DEF Snapshots
<1>7. cursor' \in 0 .. cursor /\ cursor' <= cursor
  BY <1>3
<1>8. \A k \in 1 .. cursor' : history'[k] = history[k]
  OBVIOUS
<1>9. Snapshots(S)'
  BY <1>3, <1>4, <1>5, <1>6, <1>7, <1>8, SnapshotsKept
<1> QED
  BY <1>1, <1>2, <1>9

LEMMA StartStep ==
  ASSUME IInv, Start
  PROVE  IInv'
<1>1. UNCHANGED <<chain, cursor, tables, history>>
  BY DEF Start
<1>2. /\ running' \in BOOLEAN /\ cursor' \in 0 .. read' /\ read' \in 0 .. Len(chain')
      /\ runs' \in 0 .. MaxRuns /\ undos' \in 0 .. MaxUndos
  BY DbOutAssumption DEF IInv, Start
<1>3. \A key \in refused' : key[1] = "aggregator_pool"
  BY DEF IInv, Start
<1> QED
  BY <1>1, <1>2, <1>3, TablesStay DEF IInv

LEMMA QuitStep ==
  ASSUME IInv, Quit
  PROVE  IInv'
<1>1. UNCHANGED <<chain, cursor, tables, history>>
  BY DEF Quit
<1>2. cursor \in Nat /\ cursor <= Len(chain) /\ Len(chain) \in Nat
  BY DEF IInv, ChainLegal
<1>3. cursor' \in 0 .. read' /\ read' \in 0 .. Len(chain')
  BY <1>2 DEF Quit
<1>4. running' \in BOOLEAN /\ runs' \in 0 .. MaxRuns /\ undos' \in 0 .. MaxUndos
  BY DEF IInv, Quit
<1>5. \A key \in refused' : key[1] = "aggregator_pool"
  BY DEF IInv, Quit
<1> QED
  BY <1>1, <1>3, <1>4, <1>5, TablesStay DEF IInv

LEMMA StreamStep ==
  ASSUME IInv, Stream
  PROVE  IInv'
<1>1. chain \in Seq(Blocks) /\ Len(chain) \in Nat /\ read \in Nat /\ cursor \in Nat
      /\ cursor <= read /\ read <= Len(chain)
  BY DEF IInv, ChainLegal
<1>2. UNCHANGED <<running, cursor, tables, history, refused, runs, undos>> /\ read' = read + 1
  BY DEF Stream
<1>3. CASE read < Len(chain) /\ chain' = chain
  <2>1. UNCHANGED <<chain, cursor, tables, history>>
    BY <1>2, <1>3
  <2>2. cursor' \in 0 .. read' /\ read' \in 0 .. Len(chain')
    BY <1>1, <1>2, <1>3
  <2>3. /\ running' \in BOOLEAN /\ runs' \in 0 .. MaxRuns /\ undos' \in 0 .. MaxUndos
        /\ \A key \in refused' : key[1] = "aggregator_pool"
    BY <1>2 DEF IInv
  <2> QED
    BY <2>1, <2>2, <2>3, TablesStay DEF IInv
<1>4. CASE read = Len(chain) /\ \E b \in Blocks : Extends(chain, b) /\ chain' = Append(chain, b)
  <2>1. PICK b \in Blocks : Extends(chain, b) /\ chain' = Append(chain, b)
    BY <1>4
  <2>2. Len(chain) < Stop /\ ChainLegal
    BY <1>4 DEF Stream, IInv
  <2>3. ChainLegal' /\ SameTo(chain, chain', Len(chain)) /\ Len(chain') = Len(chain) + 1
    BY <2>1, <2>2, ChainGrown
  <2>4. cursor' \in 0 .. read' /\ read' \in 0 .. Len(chain')
    BY <1>1, <1>2, <1>4, <2>3
  <2>5. PICK S : Snapshots(S)
    BY DEF IInv
  <2>6. tables' = S[cursor']
    BY <1>2, <2>5 DEF Snapshots
  <2>7. cursor' \in 0 .. cursor /\ cursor' <= Len(chain)
    BY <1>1, <1>2
  <2>8. \A k \in 1 .. cursor' : history'[k] = history[k]
    BY <1>2
  <2>9. Snapshots(S)'
    BY <1>1, <2>3, <2>5, <2>6, <2>7, <2>8, SnapshotsKept
  <2>10. /\ running' \in BOOLEAN /\ runs' \in 0 .. MaxRuns /\ undos' \in 0 .. MaxUndos
         /\ \A key \in refused' : key[1] = "aggregator_pool"
         /\ Len(history') = cursor' /\ \E H : history' \in Seq(H)
    BY <1>2 DEF IInv
  <2> QED
    BY <2>3, <2>4, <2>9, <2>10 DEF IInv
<1>5. \/ read < Len(chain) /\ chain' = chain
      \/ read = Len(chain) /\ \E b \in Blocks : Extends(chain, b) /\ chain' = Append(chain, b)
  BY <1>1 DEF Stream
<1> QED
  BY <1>3, <1>4, <1>5

LEMMA UndoStep ==
  ASSUME IInv, NEW n \in 0 .. Len(chain), Undo(n)
  PROVE  IInv'
<1>1. /\ ChainLegal /\ Len(chain) \in Nat /\ n \in Nat /\ cursor \in Nat /\ Len(history) = cursor
  BY DEF IInv, ChainLegal
<1>2. ChainLegal' /\ SameTo(chain, chain', n) /\ Len(chain') = n
  BY <1>1, ChainCut DEF Undo
<1>3. cursor' = (IF n < cursor THEN n ELSE cursor) /\ read' = n
  BY DEF Undo
<1>4. cursor' \in 0 .. cursor /\ cursor' <= n
  BY <1>1, <1>3
<1>5. PICK H : history \in Seq(H)
  BY DEF IInv
<1>6. /\ history' \in Seq(H) /\ Len(history') = cursor'
      /\ \A k \in 1 .. cursor' : history'[k] = history[k]
  <2>1. history' = SubSeq(history, 1, cursor')
    BY DEF Undo
  <2>2. PICK c : c = cursor'
    OBVIOUS
  <2>3. c \in 0 .. Len(history)
    BY <1>1, <1>4, <2>2
  <2>4. SubSeq(history, 1, c) \in Seq(H) /\ Len(SubSeq(history, 1, c)) = c
        /\ \A k \in 1 .. c : SubSeq(history, 1, c)[k] = history[k]
    BY <1>5, <2>3
  <2> QED
    BY <2>1, <2>2, <2>4
<1>7. PICK S : Snapshots(S)
  BY DEF IInv
<1>8. tables' = S[cursor']
  <2>1. tables' = TablesAt(n)
    BY DEF Undo
  <2>2. CASE n < cursor
    BY <1>1, <1>3, <1>7, <2>1, <2>2, TablesAtIs
  <2>3. CASE ~(n < cursor)
    <3>1. n + 1 .. cursor = {}
      BY <1>1, <2>3
    <3>2. \A key : ImageAt(n, key) = {tables[key]}
      BY <3>1 DEF ImageAt
    <3>3. TablesAt(n) = [key \in DOMAIN tables |-> tables[key]]
      <4>1. {key \in DOMAIN tables : ImageAt(n, key) # {}} = DOMAIN tables
        BY <3>2
      <4>2. \A key : (CHOOSE row \in ImageAt(n, key) : TRUE) = tables[key]
        BY <3>2
      <4> QED
        BY <4>1, <4>2 DEF TablesAt
    <3>4. S[cursor] = tables /\ S[cursor] = [key \in DOMAIN S[cursor] |-> S[cursor][key]]
      BY <1>1, <1>7, Held
    <3>5. cursor' = cursor
      BY <1>3, <2>3
    <3> QED
      BY <2>1, <3>3, <3>4, <3>5
  <2> QED
    BY <2>2, <2>3
<1>9. Snapshots(S)'
  BY <1>1, <1>2, <1>4, <1>6, <1>7, <1>8, SnapshotsKept
<1>10. cursor' \in 0 .. read' /\ read' \in 0 .. Len(chain')
  BY <1>1, <1>2, <1>3, <1>4
<1>11. undos' \in 0 .. MaxUndos
  BY DbOutAssumption DEF Undo, IInv
<1>12. /\ running' \in BOOLEAN /\ runs' \in 0 .. MaxRuns
       /\ \A key \in refused' : key[1] = "aggregator_pool"
  BY DEF Undo, IInv
<1> QED
  BY <1>2, <1>6, <1>9, <1>10, <1>11, <1>12 DEF IInv

LEMMA Concatenated ==
  ASSUME NEW H, NEW s \in Seq(H), NEW f \in Nat, NEW t, t = [k \in 1 .. f |-> t[k]]
  PROVE  /\ \E A : s \o t \in Seq(A)
         /\ Len(s \o t) = Len(s) + f
         /\ \A k \in 1 .. Len(s) : (s \o t)[k] = s[k]
         /\ \A k \in 1 .. f : (s \o t)[Len(s) + k] = t[k]
<1> DEFINE A == H \cup {t[k] : k \in 1 .. f}
<1>1. s \in Seq(A)
  <2>1. Len(s) \in Nat /\ s \in [1 .. Len(s) -> H]
    OBVIOUS
  <2>2. s \in [1 .. Len(s) -> A]
    BY <2>1
  <2> HIDE DEF A
  <2> QED
    BY <2>1, <2>2
<1>2. t \in Seq(A) /\ Len(t) = f
  <2>1. t \in [1 .. f -> A]
    OBVIOUS
  <2> HIDE DEF A
  <2> QED
    BY <2>1
<1> HIDE DEF A
<1>3. s \o t \in Seq(A) /\ Len(s \o t) = Len(s) + f
  BY <1>1, <1>2
<1>4. \A k \in 1 .. Len(s) : (s \o t)[k] = s[k]
  BY <1>1, <1>2
<1>5. \A k \in 1 .. f : (s \o t)[Len(s) + k] = t[k]
  BY <1>1, <1>2
<1> QED
  BY <1>3, <1>4, <1>5

LEMMA HistoryGrows ==
  ASSUME NEW H, history \in Seq(H), Len(history) = cursor, cursor' = cursor + FlushInterval,
         NEW t, t = [k \in 1 .. FlushInterval |-> t[k]], history' = history \o t
  PROVE  /\ \E A : history' \in Seq(A)
         /\ Len(history') = cursor'
         /\ \A k \in 1 .. cursor : history'[k] = history[k]
         /\ \A k \in 1 .. FlushInterval : history'[cursor + k] = t[k]
<1>1. FlushInterval \in Nat
  BY DbOutAssumption
<1>2. \E A : history \o t \in Seq(A)
  BY Zenon, <1>1, Concatenated
<1>3. Len(history \o t) = Len(history) + FlushInterval
  BY Zenon, <1>1, Concatenated
<1>4. \A k \in 1 .. Len(history) : (history \o t)[k] = history[k]
  BY Zenon, <1>1, Concatenated
<1>5. \A k \in 1 .. FlushInterval : (history \o t)[Len(history) + k] = t[k]
  BY SMT, <1>1, Concatenated
<1> QED
  BY <1>2, <1>3, <1>4, <1>5

(* A batch in one transaction adds the tables after each of its blocks.    *)
LEMMA BatchSnapshots ==
  ASSUME ChainLegal, cursor \in Nat, cursor + FlushInterval <= Len(chain), NEW order \in Orders,
         NEW S, Snapshots(S), NEW H, history \in Seq(H), Len(history) = cursor,
         chain' = chain, cursor' = cursor + FlushInterval,
         tables' = Databases(order)[FlushInterval],
         NEW t, history' = history \o t,
         t = [k \in 1 .. FlushInterval |->
                Images(Databases(order)[k - 1], Changes(cursor + k), order)]
  PROVE  /\ Len(history') = cursor' /\ \E A : history' \in Seq(A)
         /\ (\E T : Snapshots(T))'
<1>1. FlushInterval \in Nat /\ FlushInterval > 0
  BY DbOutAssumption
<1>2. PICK db : db = Databases(order)
  OBVIOUS
<1>3. /\ db[0] = tables
      /\ \A k \in 1 .. FlushInterval : db[k] = TablesAfter(db[k - 1], Changes(cursor + k), order)
  BY <1>2, DatabasesFacts
<1>4. S[cursor] = tables /\ Exact(tables, cursor)
  BY Held
<1>5. \A k \in 0 .. FlushInterval : Exact(db[k], cursor + k)
  BY <1>2, <1>4, BatchExact
<1>6. \A k \in 1 .. FlushInterval : t[k] = Images(db[k - 1], Changes(cursor + k), order)
  BY <1>2
<1>7. t = [k \in 1 .. FlushInterval |-> t[k]]
  OBVIOUS
<1>8. /\ \E A : history' \in Seq(A)
      /\ Len(history') = cursor'
      /\ \A k \in 1 .. cursor : history'[k] = history[k]
      /\ \A k \in 1 .. FlushInterval : history'[cursor + k] = t[k]
  BY Zenon, <1>7, HistoryGrows
<1> PICK T : T = [n \in 0 .. cursor + FlushInterval |->
                    IF n <= cursor THEN S[n] ELSE db[n - cursor]]
  OBVIOUS
<1>9. \A n \in 0 .. cursor : T[n] = S[n]
  BY <1>1
<1>10. \A k \in 1 .. FlushInterval : T[cursor + k] = db[k]
  BY <1>1
<1>11. \A k \in 0 .. FlushInterval : T[cursor + k] = db[k]
  <2> TAKE k \in 0 .. FlushInterval
  <2>1. CASE k = 0
    <3>1. T[cursor] = S[cursor]
      BY <1>9
    <3>2. cursor + 0 = cursor
      OBVIOUS
    <3> QED
      BY <1>3, <1>4, <2>1, <3>1, <3>2
  <2>2. CASE k # 0
    <3>1. k \in 1 .. FlushInterval
      BY <2>2
    <3> QED
      BY <1>10, <3>1
  <2> QED
    BY <2>1, <2>2
<1>12. T[cursor'] = tables'
  <2>1. FlushInterval \in 0 .. FlushInterval
    BY <1>1
  <2>2. T[cursor + FlushInterval] = db[FlushInterval]
    BY <1>11, <2>1
  <2> QED
    BY <1>2, <2>2
<1>13. SameTo(chain, chain', cursor + FlushInterval)
  BY <1>1 DEF SameTo, ChainLegal
<1>14. ASSUME NEW n \in 0 .. cursor + FlushInterval
       PROVE  Exact(T[n], n) /\ T[n] = [key \in DOMAIN T[n] |-> T[n][key]]
  <2>1. CASE n <= cursor
    <3>1. n \in 0 .. cursor
      BY <2>1
    <3> QED
      BY <1>9, <3>1 DEF Snapshots
  <2>2. CASE ~(n <= cursor)
    <3>1. PICK k \in 1 .. FlushInterval : n = cursor + k
      <4>1. n - cursor \in 1 .. FlushInterval /\ n = cursor + (n - cursor)
        BY <1>1, <2>2
      <4> QED
        BY <4>1
    <3>2. T[n] = db[k] /\ k \in 0 .. FlushInterval
      BY <1>10, <3>1
    <3>3. Exact(T[n], n)
      BY <1>5, <3>1, <3>2
    <3>4. T[n] = TablesAfter(db[k - 1], Changes(cursor + k), order)
      BY <1>3, <3>2
    <3> QED
      BY <3>3, <3>4 DEF TablesAfter
  <2> QED
    BY <2>1, <2>2
<1>15. ASSUME NEW n \in 1 .. cursor + FlushInterval
       PROVE  Recorded(history'[n], T[n - 1], T[n])
  <2>1. CASE n <= cursor
    <3>1. n \in 1 .. cursor /\ n \in 0 .. cursor /\ n - 1 \in 0 .. cursor
      BY <2>1
    <3>2. T[n] = S[n] /\ T[n - 1] = S[n - 1] /\ history'[n] = history[n]
      BY <1>8, <1>9, <3>1
    <3> QED
      BY <3>1, <3>2 DEF Snapshots
  <2>2. CASE ~(n <= cursor)
    <3>1. PICK k \in 1 .. FlushInterval : n = cursor + k
      <4>1. n - cursor \in 1 .. FlushInterval /\ n = cursor + (n - cursor)
        BY <1>1, <2>2
      <4> QED
        BY <4>1
    <3>2. k - 1 \in 0 .. FlushInterval /\ n - 1 = cursor + (k - 1) /\ k \in 0 .. FlushInterval
      BY <1>1, <3>1
    <3>3. T[n] = db[k] /\ T[n - 1] = db[k - 1]
      BY <1>11, <3>1, <3>2
    <3>4. history'[n] = Images(db[k - 1], Changes(cursor + k), order)
      BY <1>6, <1>8, <3>1
    <3>5. db[k] = TablesAfter(db[k - 1], Changes(cursor + k), order)
      BY <1>3
    <3> QED
      BY <3>3, <3>4, <3>5, ImagesRecord
  <2> QED
    BY <2>1, <2>2
<1>16. \A n \in 0 .. cursor' : Exact(T[n], n)'
  <2> TAKE n \in 0 .. cursor'
  <2>1. n \in 0 .. cursor + FlushInterval
    OBVIOUS
  <2>2. Exact(T[n], n)
    BY <1>14, <2>1
  <2> QED
    BY <1>13, <2>1, <2>2, SameExact
<1>17. Snapshots(T)'
  BY <1>12, <1>14, <1>15, <1>16 DEF Snapshots, Recorded
<1> QED
  BY <1>8, <1>17

LEMMA FlushStep ==
  ASSUME IInv, NEW order \in Orders, Flush(order)
  PROVE  IInv'
<1>1. /\ ChainLegal /\ cursor \in Nat /\ read = cursor + FlushInterval /\ read <= Len(chain)
      /\ Len(chain) \in Nat /\ FlushInterval \in Nat /\ Len(history) = cursor
  BY DbOutAssumption DEF IInv, ChainLegal, Flush
<1>2. cursor + FlushInterval <= Len(chain)
  BY <1>1
<1>3. PICK S, H : Snapshots(S) /\ history \in Seq(H)
  BY DEF IInv
<1>4. PICK db : db = Databases(order)
  OBVIOUS
<1>5. \A k \in 0 .. FlushInterval : Exact(db[k], cursor + k)
  <2>1. Exact(tables, cursor)
    BY <1>1, <1>3, Held
  <2> QED
    BY <1>1, <1>2, <1>4, <2>1, BatchExact
<1>6. \A key \in refused' : key[1] = "aggregator_pool"
  <2> TAKE key \in refused'
  <2>1. refused' = UNION {Refused(db[k - 1], Changes(cursor + k)) : k \in 1 .. FlushInterval}
    BY <1>4 DEF Flush
  <2>2. PICK k \in 1 .. FlushInterval : key \in Refused(db[k - 1], Changes(cursor + k))
    BY <2>1
  <2>3. /\ cursor + k \in DOMAIN chain /\ k - 1 \in 0 .. FlushInterval
        /\ cursor + (k - 1) = (cursor + k) - 1
    BY <1>1, <1>2 DEF ChainLegal
  <2>4. Exact(db[k - 1], (cursor + k) - 1)
    BY <1>5, <2>3
  <2> QED
    BY <1>1, <2>2, <2>3, <2>4, RefusedFacts
<1>7. UNCHANGED <<chain, runs, undos>>
  BY DEF Flush
<1>8. ChainLegal' /\ runs' \in 0 .. MaxRuns /\ undos' \in 0 .. MaxUndos
  BY <1>7 DEF IInv, ChainLegal
<1>9. CASE refused' = {}
  <2>1. /\ tables' = db[FlushInterval]
        /\ history' = history \o [k \in 1 .. FlushInterval |->
                                    Images(db[k - 1], Changes(cursor + k), order)]
        /\ cursor' = read
        /\ UNCHANGED <<running, read>>
    BY <1>4, <1>9 DEF Flush
  <2>2. /\ Len(history') = cursor' /\ \E A : history' \in Seq(A)
        /\ (\E T : Snapshots(T))'
    <3>1. PICK t : t = [k \in 1 .. FlushInterval |->
                          Images(db[k - 1], Changes(cursor + k), order)]
      OBVIOUS
    <3>2. history' = history \o t /\ tables' = Databases(order)[FlushInterval]
      BY <1>4, <2>1, <3>1
    <3>3. t = [k \in 1 .. FlushInterval |->
                 Images(Databases(order)[k - 1], Changes(cursor + k), order)]
      BY <1>4, <3>1
    <3>4. cursor' = cursor + FlushInterval /\ chain' = chain
      BY <1>1, <1>7, <2>1
    <3> QED
      BY <1>1, <1>2, <1>3, <3>2, <3>3, <3>4, BatchSnapshots
  <2>3. running' \in BOOLEAN /\ cursor' \in 0 .. read' /\ read' \in 0 .. Len(chain')
    <3>1. running' \in BOOLEAN
      BY <2>1 DEF IInv
    <3>2. cursor' = read /\ read' = read /\ read \in Nat /\ Len(chain') = Len(chain)
      BY <1>1, <1>7, <2>1
    <3> QED
      BY <1>1, <3>1, <3>2
  <2> QED
    BY <1>6, <1>8, <2>2, <2>3 DEF IInv
<1>10. CASE refused' # {}
  <2>1. running' = FALSE /\ read' = cursor /\ UNCHANGED <<tables, history, cursor>>
    BY <1>10 DEF Flush
  <2>2. UNCHANGED <<chain, cursor, tables, history>>
    BY <1>7, <2>1
  <2>3. cursor' \in 0 .. read' /\ read' \in 0 .. Len(chain')
    <3>1. cursor' = cursor /\ read' = cursor /\ Len(chain') = Len(chain)
      BY <1>7, <2>1
    <3> QED
      BY <1>1, <3>1
  <2>4. running' \in BOOLEAN
    BY <2>1
  <2> QED
    BY <1>6, <1>8, <2>2, <2>3, <2>4, TablesStay DEF IInv
<1> QED
  BY <1>9, <1>10

LEMMA IInvNext ==
  IInv /\ [Next]_vars => IInv'
<1> SUFFICES ASSUME IInv, [Next]_vars PROVE IInv'
  OBVIOUS
<1>1. CASE Start
  BY <1>1, StartStep
<1>2. CASE Stream
  BY <1>2, StreamStep
<1>3. CASE Finish \/ Crash
  BY <1>3, QuitStep DEF Finish, Crash
<1>4. CASE \E order \in Orders : Flush(order)
  BY <1>4, FlushStep
<1>5. CASE \E n \in 0 .. Len(chain) : Undo(n)
  BY <1>5, UndoStep
<1>6. CASE UNCHANGED vars
  <2>1. UNCHANGED <<chain, cursor, tables, history>> /\ UNCHANGED <<running, read, refused, runs, undos>>
    BY <1>6 DEF vars
  <2>2. /\ running' \in BOOLEAN /\ cursor' \in 0 .. read' /\ read' \in 0 .. Len(chain')
        /\ runs' \in 0 .. MaxRuns /\ undos' \in 0 .. MaxUndos
        /\ \A key \in refused' : key[1] = "aggregator_pool"
    BY <2>1 DEF IInv
  <2> QED
    BY <2>1, <2>2, TablesStay DEF IInv
<1> QED
  BY <1>1, <1>2, <1>3, <1>4, <1>5, <1>6 DEF Next

LEMMA Invariance ==
  Spec => []IInv
<1>1. Init => IInv
  BY IInvInit
<1>2. IInv /\ [Next]_vars => IInv'
  BY IInvNext
<1> QED
  BY <1>1, <1>2, PTL DEF Spec

-----------------------------------------------------------------------------
(* What the rows of an exact database are made of.                         *)

LEMMA PoolRowTyped ==
  ASSUME ChainLegal, NEW n, NEW p \in Known(n)
  PROVE  PoolRow(p, n) \in [price : Nat, created_at_block : 1 .. Stop, last_swap_block : 0 .. Stop]
<1> DEFINE places == Upto(History(chain, p, {"Initialize", "Swap"}), n)
           inits == Upto(History(chain, p, {"Initialize"}), n)
           swaps == Upto(History(chain, p, {"Swap"}), n)
<1>1. chain \in Seq(Blocks) /\ Len(chain) \in Nat /\ Len(chain) <= Stop /\ Stop \in Nat
  BY DbOutAssumption DEF ChainLegal
<1>2. inits # {} /\ inits \subseteq places
  BY KnownUpto, UptoWiden
<1>3. \A K : Upto(History(chain, p, K), n) \in SUBSET Places(chain)
  BY <1>1, HistoryFacts DEF Upto
<1>4. \A K : Upto(History(chain, p, K), n) # {} =>
               /\ Latest(Upto(History(chain, p, K), n)) \in Upto(History(chain, p, K), n)
               /\ Latest(Upto(History(chain, p, K), n))[1] \in 1 .. Stop
  <2> TAKE K
  <2> HAVE Upto(History(chain, p, K), n) # {}
  <2>1. PICK x : x = Latest(Upto(History(chain, p, K), n))
    OBVIOUS
  <2>2. x \in Upto(History(chain, p, K), n)
    BY <1>1, <1>3, <2>1, LatestExists
  <2>3. x \in Places(chain)
    BY <1>3, <2>2
  <2>4. x[1] \in DOMAIN chain
    BY <1>1, <2>3, PlaceFacts
  <2> QED
    BY <1>1, <2>1, <2>2, <2>4
<1>5. LogAt(chain, Latest(places)).value \in Nat
  <2>1. Latest(places) \in places
    BY <1>2, <1>4
  <2>2. Latest(places) \in History(chain, p, {"Initialize", "Swap"})
    BY <2>1 DEF Upto
  <2>3. /\ LogAt(chain, Latest(places)).kind \in {"Initialize", "Swap"}
        /\ Latest(places) \in Places(chain)
    BY <1>1, <2>2, HistoryFacts
  <2>4. LogAt(chain, Latest(places)) \in Log
    BY <1>1, <2>3, PlaceFacts
  <2> QED
    BY <2>3, <2>4, LogFacts
<1>6. Latest(inits)[1] \in 1 .. Stop
  BY <1>2, <1>4
<1>7. (IF swaps = {} THEN 0 ELSE Latest(swaps)[1]) \in 0 .. Stop
  BY <1>1, <1>4
<1>8. PoolRow(p, n) = [price |-> LogAt(chain, Latest(places)).value,
                       created_at_block |-> Latest(inits)[1],
                       last_swap_block |-> IF swaps = {} THEN 0 ELSE Latest(swaps)[1]]
  BY DEF PoolRow
<1> HIDE DEF places, inits, swaps
<1> QED
  BY <1>5, <1>6, <1>7, <1>8

LEMMA PositionRowTyped ==
  ASSUME ChainLegal, NEW n \in Int, NEW t \in MintedIn(n)
  PROVE  PositionRow(t, n) \in [owner : Owners \cup {Nobody}, created_at_block : 1 .. Stop,
                                last_transfer_block : 1 .. Stop]
<1> DEFINE moves == Upto(History(chain, t, {"Transfer"}), n)
<1>1. chain \in Seq(Blocks) /\ Len(chain) \in Nat /\ Len(chain) <= Stop /\ Stop \in Nat
  BY DbOutAssumption DEF ChainLegal
<1>2. moves # {} /\ moves \in SUBSET Places(chain)
  BY <1>1, HistoryFacts DEF MintedIn, Upto
<1>3. \A x \in moves : x[1] \in 1 .. Stop /\ LogAt(chain, x).value \in Owners \cup {Nobody}
  <2> TAKE x \in moves
  <2>1. x \in History(chain, t, {"Transfer"})
    BY DEF Upto
  <2>2. x \in Places(chain) /\ LogAt(chain, x).kind = "Transfer"
    BY <1>1, <2>1, HistoryFacts
  <2>3. x[1] \in DOMAIN chain /\ LogAt(chain, x) \in Log
    BY <1>1, <2>2, PlaceFacts
  <2>4. x[1] \in 1 .. Stop
    BY <1>1, <2>3
  <2> QED
    BY <2>2, <2>3, <2>4, LogFacts
<1>4. PICK x \in moves : LogAt(chain, x).from = Nobody
  BY MintThere
<1>5. (CHOOSE y \in moves : LogAt(chain, y).from = Nobody) = x
  BY <1>4, MintIs
<1>6. Latest(moves) \in moves
  <2> HIDE DEF moves
  <2> QED
    BY <1>1, <1>2, LatestExists
<1>7. PositionRow(t, n) = [owner |-> LogAt(chain, Latest(moves)).value,
                           last_transfer_block |-> Latest(moves)[1],
                           created_at_block |-> (CHOOSE y \in moves : LogAt(chain, y).from = Nobody)[1]]
  BY DEF PositionRow
<1> HIDE DEF moves
<1>8. PositionRow(t, n) = [owner |-> LogAt(chain, Latest(moves)).value,
                           last_transfer_block |-> Latest(moves)[1],
                           created_at_block |-> x[1]]
  BY <1>5, <1>7
<1> QED
  BY <1>3, <1>4, <1>6, <1>8

LEMMA IInvTypeOK ==
  IInv => TypeOK
<1> SUFFICES ASSUME IInv PROVE TypeOK
  OBVIOUS
<1>1. PICK S : Snapshots(S)
  BY DEF IInv
<1>2. ChainLegal /\ cursor \in Nat
  BY DEF IInv
<1>3. Exact(tables, cursor)
  BY <1>1, <1>2, Held
<1>4. ASSUME NEW k \in DOMAIN tables
      PROVE  /\ k[1] \in Tables
             /\ k[1] = "pool" => tables[k] \in [price : Nat, created_at_block : 1 .. Stop,
                                                last_swap_block : 0 .. Stop]
             /\ k[1] = "position" => tables[k] \in [owner : Owners \cup {Nobody},
                                                    created_at_block : 1 .. Stop,
                                                    last_transfer_block : 1 .. Stop]
  <2>1. k = <<k[1], k[2]>> /\ k[1] \in Tables
    BY <1>3 DEF Exact, Paired
  <2>2. CASE k[1] = "pool"
    <3>1. k[2] \in Known(cursor) /\ tables[k] = PoolRow(k[2], cursor)
      BY <1>3, <2>1, <2>2 DEF Exact, PoolsExact
    <3>2. PoolRow(k[2], cursor) \in [price : Nat, created_at_block : 1 .. Stop,
                                     last_swap_block : 0 .. Stop]
      BY <1>2, <3>1, PoolRowTyped
    <3> QED
      BY <2>1, <2>2, <3>1, <3>2
  <2>3. CASE k[1] = "position"
    <3>1. k[2] \in MintedIn(cursor) /\ tables[k] = PositionRow(k[2], cursor)
      BY <1>3, <2>1, <2>3 DEF Exact, PositionsExact
    <3>2. PositionRow(k[2], cursor) \in [owner : Owners \cup {Nobody}, created_at_block : 1 .. Stop,
                                         last_transfer_block : 1 .. Stop]
      BY <1>2, <3>1, PositionRowTyped
    <3> QED
      BY <2>1, <2>3, <3>1, <3>2
  <2> QED
    BY <2>1, <2>2, <2>3
<1>5. /\ chain \in Seq(Blocks) /\ running \in BOOLEAN
      /\ cursor \in 0 .. read /\ read \in 0 .. Len(chain)
      /\ runs \in 0 .. MaxRuns /\ undos \in 0 .. MaxUndos /\ Len(history) = cursor
  BY DEF IInv, ChainLegal
<1> QED
  BY <1>4, <1>5 DEF TypeOK

LEMMA ExactTables ==
  ASSUME IInv
  PROVE  Exact(tables, cursor)
<1>1. PICK S : Snapshots(S)
  BY DEF IInv
<1> QED
  BY <1>1, Held DEF IInv

LEMMA IInvTablesAtCursor ==
  IInv => TablesAtCursor
BY ExactTables, ExactHolds DEF TablesAtCursor

LEMMA IInvPoolUpdatesLand ==
  IInv => PoolUpdatesLand
<1> SUFFICES ASSUME IInv, NEW n \in DOMAIN chain, NEW order \in Orders, NEW c \in Changes(n),
                    c.op = "Update", c.key[1] = "pool"
             PROVE  \/ c.key[2] \in Known(n - 1)
                    \/ \E d \in Creates(Changes(n), c.key) : Precedes(order, d, c)
  BY DEF PoolUpdatesLand
<1>1. ChainLegal /\ chain \in Seq(Blocks)
  BY DEF IInv, ChainLegal
<1>2. \A p \in Active(n) : c # PoolStats(p, n)
  BY <1>1, StatsFacts
<1>3. \A i : ~FromEvent(c, n, i)
  BY EventForm
<1>4. \A i : ~FromPosition(c, n, i)
  BY PositionForm
<1>5. PICK i \in DOMAIN chain[n] : FromPool(c, n, i)
  BY <1>1, <1>2, <1>3, <1>4, ChangeForms
<1> DEFINE p == chain[n][i].id
<1>6. chain[n][i].kind = "Swap" /\ p \in Known(n) /\ c.key = <<"pool", p>> /\ c.ordinal = i
  BY <1>5, PoolForm
<1>7. CASE p \in Known(n - 1)
  BY <1>6, <1>7
<1>8. CASE \E o \in DOMAIN chain[n] : chain[n][o].kind = "Initialize" /\ chain[n][o].id = p
  <2>1. PICK o \in DOMAIN chain[n] : chain[n][o].kind = "Initialize" /\ chain[n][o].id = p
    BY <1>8
  <2>2. o < i
    BY <1>1, <1>6, <2>1, InitThenSwap
  <2>3. PICK d : d = PoolCreate(n, o)
    OBVIOUS
  <2>4. FromPool(d, n, o)
    BY <2>1, <2>3 DEF FromPool
  <2>5. d.ordinal = o /\ d.op = "Create"
    BY <2>1, <2>4, PoolForm
  <2>6. d \in ChangesOf(n, <<"pool", p>>) /\ c \in ChangesOf(n, <<"pool", p>>)
    BY <1>1, <1>5, <2>1, <2>4, PoolChanges
  <2>7. Precedes(order, d, c)
    BY <1>1, <1>6, <2>2, <2>5, <2>6, PoolLined DEF Lined
  <2>8. d \in Creates(Changes(n), c.key)
    BY <1>6, <2>5, <2>6 DEF Creates, ChangesOf
  <2> QED
    BY <2>7, <2>8
<1> QED
  BY <1>1, <1>6, <1>7, <1>8, KnownNext

(* The rows a summary counts are the swaps of its pool in its block.       *)
LEMMA SwapRowsAre ==
  ASSUME IInv, NEW x \in EventsUpto({"Swap"}, cursor)
  PROVE  Cardinality(SwapRows(LogAt(chain, x).id, x[1])) = SwapCount(LogAt(chain, x).id, x[1])
<1>1. chain \in Seq(Blocks) /\ Exact(tables, cursor)
  BY ExactTables DEF IInv, ChainLegal
<1>2. PICK p, n : p = LogAt(chain, x).id /\ n = x[1]
  OBVIOUS
<1>3. n \in DOMAIN chain /\ n \in Nat \ {0} /\ n <= cursor
  BY <1>1, <1>2, PlaceFacts DEF EventsUpto, Upto
<1>4. \A y : y \in KeysOf(tables, "swap") <=> y \in EventsUpto({"Swap"}, cursor)
  BY <1>1, ExactHolds DEF HoldsBlocks
<1>5. \A y : y \in SwapRows(p, n)
               <=> y \in EventsUpto({"Swap"}, cursor) /\ y[1] = n /\ LogAt(chain, y).id = p
  BY <1>1, <1>4 DEF SwapRows, Exact, RowsExact
<1>6. \A i \in SwapsOf(p, n) : <<n, i>> \in SwapRows(p, n)
  <2> TAKE i \in SwapsOf(p, n)
  <2>1. i \in DOMAIN chain[n] /\ chain[n][i].kind = "Swap" /\ chain[n][i].id = p
    BY DEF SwapsOf, Rows
  <2>2. <<n, i>> \in Places(chain) /\ LogAt(chain, <<n, i>>) = chain[n][i] /\ <<n, i>>[1] = n
    BY <1>1, <1>3, <2>1, PlaceFacts DEF LogAt
  <2> QED
    BY <1>3, <1>5, <2>1, <2>2 DEF EventsUpto, Upto
<1>7. \A y \in SwapRows(p, n) : \E i \in SwapsOf(p, n) : y = <<n, i>>
  <2> TAKE y \in SwapRows(p, n)
  <2>1. y \in Places(chain) /\ LogAt(chain, y).kind = "Swap" /\ y[1] = n /\ LogAt(chain, y).id = p
    BY <1>5 DEF EventsUpto, Upto
  <2>2. y = <<n, y[2]>> /\ y[2] \in DOMAIN chain[n]
    BY <1>1, <2>1, PlaceFacts
  <2>3. y[2] \in SwapsOf(p, n)
    BY <2>1, <2>2 DEF SwapsOf, Rows, LogAt
  <2> QED
    BY <2>2, <2>3
<1>8. IsFiniteSet(SwapsOf(p, n))
  <2>1. PICK k \in 0 .. MaxLogs : DOMAIN chain[n] = 1 .. k
    BY <1>1, <1>3, BlockFacts
  <2>2. IsFiniteSet(DOMAIN chain[n])
    BY <2>1, FS_Interval, DbOutAssumption
  <2> QED
    BY <2>2, FS_Subset DEF SwapsOf, Rows
<1> DEFINE f == [i \in SwapsOf(p, n) |-> <<n, i>>]
<1>9. f \in Bijection(SwapsOf(p, n), SwapRows(p, n))
  BY <1>6, <1>7 DEF Bijection, Injection, Surjection, IsInjective
<1>10. Cardinality(SwapRows(p, n)) = Cardinality(SwapsOf(p, n))
  BY <1>8, <1>9, FS_Bijection DEF ExistsBijection
<1> QED
  BY <1>2, <1>10 DEF SwapCount

LEMMA IInvSummariesCountRows ==
  IInv => SummariesCountRows
<1> SUFFICES ASSUME IInv PROVE SummariesCountRows
  OBVIOUS
<1>1. Exact(tables, cursor)
  BY ExactTables
<1>2. HoldsBlocks(tables, cursor)
  BY <1>1, ExactHolds
<1>3. ASSUME NEW k \in KeysOf(tables, "pool_stats")
      PROVE  tables[<<"pool_stats", k>>].swap_count = Cardinality(SwapRows(k[1], k[2]))
  <2>1. PICK x \in EventsUpto({"Swap"}, cursor) : k = <<LogAt(chain, x).id, x[1]>>
    BY <1>2 DEF HoldsBlocks
  <2>2. k[1] = LogAt(chain, x).id /\ k[2] = x[1]
    BY <2>1
  <2>3. tables[<<"pool_stats", k>>].swap_count = SwapCount(LogAt(chain, x).id, x[1])
    BY <1>1, <2>1 DEF Exact, RowsExact
  <2> QED
    BY <2>2, <2>3, SwapRowsAre
<1>4. ASSUME NEW x \in KeysOf(tables, "swap")
      PROVE  <<tables[<<"swap", x>>].pool, x[1]>> \in KeysOf(tables, "pool_stats")
  <2>1. x \in EventsUpto({"Swap"}, cursor)
    BY <1>2 DEF HoldsBlocks
  <2>2. tables[<<"swap", x>>].pool = LogAt(chain, x).id
    BY <1>1, <2>1 DEF Exact, RowsExact
  <2> QED
    BY <1>2, <2>1, <2>2 DEF HoldsBlocks
<1> QED
  BY <1>3, <1>4 DEF SummariesCountRows

-----------------------------------------------------------------------------
(* Every row of the tables has its columns, the sink's cursor is within    *)
(* what the run has read, and the history has an entry for each block of   *)
(* the database, in every state.                                           *)
THEOREM TypeCorrect ==
  Spec => []TypeOK
BY Invariance, IInvTypeOK, PTL

(* In every state the database holds exactly the blocks up to the sink's   *)
(* cursor, as their logs say: no event is lost or written twice, no pool   *)
(* or position has a stale column, whichever order the sink applies a      *)
(* block in, however often it crashes and starts again, and after any      *)
(* number of reorganisations that take blocks back from the row images.    *)
THEOREM DatabaseExact ==
  Spec => []TablesAtCursor
BY Invariance, IInvTablesAtCursor, PTL

(* db_out writes no Update of a pool that finds no row: the pool was known *)
(* before the block, or its Create comes first, in the order of the array  *)
(* and in the order of the ordinals.                                       *)
THEOREM UpdatesFindRows ==
  Spec => []PoolUpdatesLand
BY Invariance, IInvPoolUpdatesLand, PTL

(* What a reader finds in a summary is what it can count: the swap rows of *)
(* the pool and block that are there, in every state, whichever way the    *)
(* sink fills the two tables, and every swap row has its summary.          *)
THEOREM SummariesTrue ==
  Spec => []SummariesCountRows
BY Invariance, IInvSummariesCountRows, PTL

(* The only key the sink can refuse is that of an aggregator pool: a key   *)
(* of any other table is created once, in whatever batches and runs.       *)
THEOREM OtherKeysNeverRecur ==
  Spec => []OnlyRegistrationsRecur
<1>1. IInv => OnlyRegistrationsRecur
  BY DEF IInv, OnlyRegistrationsRecur
<1> QED
  BY <1>1, Invariance, PTL
=============================================================================

------------------------------- MODULE DbOut -------------------------------
(***************************************************************************)
(* db_out (db_out.rs) turns a block into an array of changes to the tables *)
(* of schema.sql, each with a primary key, an operation and an ordinal.    *)
(* The array is the set of its changes, each with the place db_out pushes  *)
(* it at.                                                                  *)
(* The SQL sink, which is external, applies them in batches of blocks, one *)
(* transaction with its cursor per batch.  It may keep the order of the    *)
(* array or sort a block by ordinal (db_out.rs:39-43), table by table: it  *)
(* promises no order among tables (schema.sql:41-43).  It refuses a Create *)
(* of a key that exists and ignores an Update of one that does not, it may *)
(* crash, and at the end of a bounded run it drops a batch that is not     *)
(* full (README.md, "Sinking").  When the chain reorganises it takes back  *)
(* the blocks that are gone, from the row images it keeps in its history   *)
(* table (schema.sql:16).                                                  *)
(*                                                                         *)
(* Event tables that only differ in their columns are represented by swap  *)
(* and position_event; the token table is in the module Tokens.            *)
(***************************************************************************)
EXTENDS Integers, Sequences, FiniteSets, FiniteSetsExt

CONSTANTS
  Pools,           \* pool ids
  PoolOrder,       \* pool id -> its rank among them as text
  Legacy,          \* the pools initialised before the stream's first block
  Positions,       \* PositionManager NFTs
  Minted,          \* the positions minted before the stream's first block
  Owners,          \* owners of positions
  Nobody,          \* the zero address
  Logs,            \* the alphabet of logs blocks are made of
  MaxLogs,         \* bound: logs in a block
  Stop,            \* bound: the last block of a run
  FlushInterval,   \* blocks in a batch
  MaxRuns,         \* bound: starts of the sink
  MaxUndos         \* bound: reorganisations of the chain

(* `value` is the price of an Initialize or Swap, the new owner of a       *)
(* Transfer and the emitter of an AggregatorPoolRegistered; a Subscription *)
(* has none of them.                                                       *)
Log ==
  [kind : {"Initialize", "Swap"}, id : Pools, from : {Nobody}, value : Nat]
    \cup [kind : {"Transfer"}, id : Positions, from : Owners \cup {Nobody},
          value : Owners \cup {Nobody}]
    \cup [kind : {"Subscription"}, id : Positions, from : {Nobody}, value : {0}]
    \cup [kind : {"AggregatorPoolRegistered"}, id : Pools, from : {Nobody}, value : Owners]

(* Summaries are numbered from here: no block has as many logs             *)
(* (db_out.rs:593-602).                                                    *)
FirstStatsOrdinal == 1000000

ASSUME DbOutAssumption ==
  /\ Legacy \subseteq Pools /\ Minted \subseteq Positions
  /\ PoolOrder \in [Pools -> Nat]
  /\ \A p, q \in Pools : PoolOrder[p] = PoolOrder[q] => p = q
  /\ Nobody \notin Owners
  /\ Logs \subseteq Log
  /\ MaxLogs \in Nat
  /\ Stop \in Nat /\ MaxRuns \in Nat /\ MaxUndos \in Nat
  /\ FlushInterval \in Nat \ {0}

VARIABLES
  chain,      \* the blocks streamed so far, in any run
  running,    \* a run of the sink is in progress
  read,       \* blocks the run has read: cursor + 1 .. read are in the batch
  cursor,     \* blocks the database holds
  tables,     \* <<table, key>> -> row
  history,    \* block the database holds -> the rows it changed, as they were
  refused,    \* keys whose Create the sink refused: it stops for good
  runs,       \* starts so far
  undos       \* reorganisations so far

vars == <<chain, running, read, cursor, tables, history, refused, runs, undos>>

-----------------------------------------------------------------------------
(* The chain.                                                              *)

Places(c) == UNION {{n} \X DOMAIN c[n] : n \in DOMAIN c}

Before(x, y) == x[1] < y[1] \/ (x[1] = y[1] /\ x[2] < y[2])

LogAt(c, x) == c[x[1]][x[2]]

(* Where c has logs of the kinds K about id.                               *)
History(c, id, K) == {x \in Places(c) : LogAt(c, x).kind \in K /\ LogAt(c, x).id = id}

(* A pool is initialised once, before it is used; a position is minted     *)
(* once, before it moves, and never moves again once it is burnt.          *)
LegalAt(c, x) ==
  LET l == LogAt(c, x)
      earlier(K) == {y \in History(c, l.id, K) : Before(y, x)}
  IN  CASE l.kind = "Initialize" -> l.id \notin Legacy /\ earlier({"Initialize"}) = {}
        [] l.kind = "Swap" -> l.id \in Legacy \/ earlier({"Initialize"}) # {}
        [] l.kind = "Transfer" ->
             /\ (l.from = Nobody) <=> (l.id \notin Minted /\ earlier({"Transfer"}) = {})
             /\ \A y \in earlier({"Transfer"}) : LogAt(c, y).value # Nobody
        [] l.kind = "Subscription" -> l.id \in Minted \/ earlier({"Transfer"}) # {}
        [] OTHER -> TRUE

Extends(c, b) ==
  LET d == Append(c, b) IN \A i \in DOMAIN b : LegalAt(d, <<Len(d), i>>)

(* The pools the stream has seen initialised by the end of block n.        *)
Known(n) == {p \in Pools : \E x \in History(chain, p, {"Initialize"}) : x[1] <= n}

-----------------------------------------------------------------------------
(* db_out.                                                                 *)

(* The rows of the given kinds in block n: the lists are in log order.     *)
Rows(n, K) == {i \in DOMAIN chain[n] : chain[n][i].kind \in K}

(* Faulty: the pools are pushed after the rows that update them.           *)
LoopPoolsLast(table) ==
  CASE table = "swap" -> 1
    [] table = "position_event" -> 2
    [] table = "aggregator_pool" -> 3
    [] table = "pool_stats" -> 4
    [] OTHER -> 5

(* The loops of db_out, by the table they are about: pools first,          *)
(* aggregates last.                                                        *)
Loop(table) ==
  CASE table = "pool" -> 1
    [] table = "swap" -> 2
    [] table = "position_event" -> 3
    [] table = "aggregator_pool" -> 4
    [] OTHER -> 5

(* The push-th change of row i of a loop.                                  *)
Place(loop, i, push) == <<Loop(loop), i, push>>

Change(place, table, key, op, ordinal, row) ==
  [place |-> place, key |-> <<table, key>>, op |-> op, ordinal |-> ordinal, row |-> row]

(* A row's ordinal is its log index.                                       *)
PoolCreate(n, i) ==
  Change(Place("pool", i, 1), "pool", chain[n][i].id, "Create", i,
         [price |-> chain[n][i].value, created_at_block |-> n, last_swap_block |-> 0])

(* Faulty: a pool that never resolved is updated too.                      *)
PoolStateUpdateAlways(n, i) ==
  {Change(Place("swap", i, 2), "pool", chain[n][i].id, "Update", i,
          [price |-> chain[n][i].value, last_swap_block |-> n])}

(* Faulty: the test for the tokens is inverted.                            *)
PoolStateUpdateUnresolved(n, i) ==
  {change \in PoolStateUpdateAlways(n, i) : chain[n][i].id \notin Known(n)}

(* A swap whose tokens did not resolve has no pool row to update.          *)
PoolStateUpdate(n, i) ==
  IF chain[n][i].id \notin Known(n) THEN {}
  ELSE {Change(Place("swap", i, 2), "pool", chain[n][i].id, "Update", i,
               [price |-> chain[n][i].value, last_swap_block |-> n])}

SwapChanges(n, i) ==
  {Change(Place("swap", i, 1), "swap", <<n, i>>, "Create", i, [pool |-> chain[n][i].id])}
    \cup PoolStateUpdate(n, i)

(* Faulty: a subscription moves the position too.                          *)
PositionStateOfAnyKind(n, i) ==
  LET l == chain[n][i]
      moved == [owner |-> l.value, last_transfer_block |-> n]
  IN  IF l.kind = "Transfer" /\ l.from = Nobody
      THEN {Change(Place("position_event", i, 2), "position", l.id, "Create", i,
                   [owner |-> l.value, last_transfer_block |-> n, created_at_block |-> n])}
      ELSE {Change(Place("position_event", i, 2), "position", l.id, "Update", i, moved)}

(* Only a transfer moves a position; the mint creates it.                  *)
PositionState(n, i) ==
  LET l == chain[n][i]
  IN  IF l.kind # "Transfer" THEN {}
      ELSE IF l.from = Nobody
      THEN {Change(Place("position_event", i, 2), "position", l.id, "Create", i,
                   [owner |-> l.value, last_transfer_block |-> n, created_at_block |-> n])}
      ELSE {Change(Place("position_event", i, 2), "position", l.id, "Update", i,
                   [owner |-> l.value, last_transfer_block |-> n])}

PositionChanges(n, i) ==
  {Change(Place("position_event", i, 1), "position_event", <<n, i>>, "Create", i,
          [position |-> chain[n][i].id, kind |-> chain[n][i].kind])}
    \cup PositionState(n, i)

AggregatorPool(n, i) ==
  Change(Place("aggregator_pool", i, 1), "aggregator_pool", chain[n][i].id, "Create", i,
         [hook |-> chain[n][i].value])

(* Above any log index.                                                    *)
StatsOrdinal(idx) == FirstStatsOrdinal + idx

(* Faulty: one row per pool.                                               *)
StatsKeyOfPool(p, n) == p

(* One row per pool and block.                                             *)
StatsKey(p, n) == <<p, n>>

SwapsOf(p, n) == {i \in Rows(n, {"Swap"}) : chain[n][i].id = p}

(* Faulty: the running total in place of the block's own count.            *)
SwapCountSoFar(p, n) == Cardinality({x \in History(chain, p, {"Swap"}) : x[1] <= n})

(* The accumulator starts afresh in each block (enrich.rs).                *)
SwapCount(p, n) == Cardinality(SwapsOf(p, n))

Active(n) == {p \in Pools : SwapsOf(p, n) # {}}

(* The summaries come sorted by pool id (enrich.rs).                       *)
PoolStats(p, n) ==
  LET idx == Cardinality({q \in Active(n) : PoolOrder[q] < PoolOrder[p]})
  IN  Change(Place("pool_stats", idx, 1), "pool_stats", StatsKey(p, n), "Create",
             StatsOrdinal(idx), [swap_count |-> SwapCount(p, n)])

Changes(n) ==
  {PoolCreate(n, i) : i \in Rows(n, {"Initialize"})}
    \cup (UNION {SwapChanges(n, i) : i \in Rows(n, {"Swap"})})
    \cup (UNION {PositionChanges(n, i) : i \in Rows(n, {"Transfer", "Subscription"})})
    \cup {AggregatorPool(n, i) : i \in Rows(n, {"AggregatorPoolRegistered"})}
    \cup {PoolStats(p, n) : p \in Active(n)}

-----------------------------------------------------------------------------
(* The sink.                                                               *)

(* The two orders the changes to a key may be applied in.  Changes to      *)
(* different tables have none, and nothing below compares them: what a     *)
(* change does to its row depends on the changes to the same key only.     *)
Orders == {"array", "ordinal"}

InArray(c, d) ==
  \/ c.place[1] < d.place[1]
  \/ c.place[1] = d.place[1] /\ c.place[2] < d.place[2]
  \/ c.place[1] = d.place[1] /\ c.place[2] = d.place[2] /\ c.place[3] < d.place[3]

(* Changes of equal ordinal stay in the order of the array.                *)
Precedes(order, c, d) ==
  IF order = "array" THEN InArray(c, d)
  ELSE c.ordinal < d.ordinal \/ (c.ordinal = d.ordinal /\ InArray(c, d))

FirstIn(order, S) == CHOOSE c \in S : \A d \in S : ~Precedes(order, d, c)
LastIn(order, S) == CHOOSE c \in S : \A d \in S : ~Precedes(order, c, d)

Creates(changes, key) == {c \in changes : c.key = key /\ c.op = "Create"}

(* A Create of a key that exists, in the database or earlier in the block. *)
Refused(db, changes) ==
  {key \in {c.key : c \in changes} :
     \/ key \in DOMAIN db /\ Creates(changes, key) # {}
     \/ \E c, d \in Creates(changes, key) : c # d}

(* The changes of key that find the row there, or make it.                 *)
Effective(db, changes, order, key) ==
  {c \in changes : /\ c.key = key
                   /\ \/ key \in DOMAIN db
                      \/ \E d \in Creates(changes, key) : d = c \/ Precedes(order, d, c)}

Touched(db, changes, order) ==
  {key \in {c.key : c \in changes} : Effective(db, changes, order, key) # {}}

(* The last effective change of a column is its value.                     *)
RowAfter(db, changes, order, key) ==
  LET effective == Effective(db, changes, order, key)
      columns == DOMAIN (IF key \in DOMAIN db THEN db[key] ELSE FirstIn(order, effective).row)
      sets(column) == {c \in effective : column \in DOMAIN c.row}
  IN  [column \in columns |->
         IF sets(column) = {} THEN db[key][column] ELSE LastIn(order, sets(column)).row[column]]

TablesAfter(db, changes, order) ==
  [key \in DOMAIN db \cup Touched(db, changes, order) |->
     IF key \in Touched(db, changes, order) THEN RowAfter(db, changes, order, key) ELSE db[key]]

(* The row images a block leaves in the history table: none of a row that  *)
(* was not there.                                                          *)
Images(db, changes, order) ==
  [key \in Touched(db, changes, order) |-> IF key \in DOMAIN db THEN {db[key]} ELSE {}]

Start ==
  /\ ~running /\ refused = {} /\ runs < MaxRuns
  /\ running' = TRUE /\ runs' = runs + 1
  /\ UNCHANGED <<chain, read, cursor, tables, history, refused, undos>>

Blocks == UNION {[1 .. k -> Logs] : k \in 0 .. MaxLogs}

(* The next block of the chain, the same as in an earlier run.             *)
Stream ==
  /\ running
  /\ read < Stop /\ read - cursor < FlushInterval
  /\ read' = read + 1
  /\ IF read < Len(chain) THEN chain' = chain
     ELSE \E b \in Blocks : Extends(chain, b) /\ chain' = Append(chain, b)
  /\ UNCHANGED <<running, cursor, tables, history, refused, runs, undos>>

(* The tables after each block of the batch.                               *)
Databases(order) ==
  LET db[k \in 0 .. FlushInterval] ==
        IF k = 0 THEN tables ELSE TablesAfter(db[k - 1], Changes(cursor + k), order)
  IN  db

(* A full batch is one transaction: all of it and the cursor, or nothing.  *)
Flush(order) ==
  LET db == Databases(order)
      batch == 1 .. FlushInterval
  IN  /\ running
      /\ read - cursor = FlushInterval
      /\ refused' = UNION {Refused(db[k - 1], Changes(cursor + k)) : k \in batch}
      /\ IF refused' = {}
         THEN /\ tables' = db[FlushInterval]
              /\ history' = history \o [k \in batch |-> Images(db[k - 1], Changes(cursor + k), order)]
              /\ cursor' = read
              /\ UNCHANGED <<running, read>>
         ELSE /\ running' = FALSE /\ read' = cursor
              /\ UNCHANGED <<tables, history, cursor>>
      /\ UNCHANGED <<chain, runs, undos>>

(* The row as it was at the end of block n, if there was one.              *)
ImageAt(n, key) ==
  LET later == {m \in n + 1 .. cursor : key \in DOMAIN history[m]}
  IN  IF later = {} THEN {tables[key]} ELSE history[Min(later)][key]

TablesAt(n) ==
  [key \in {k \in DOMAIN tables : ImageAt(n, k) # {}} |-> CHOOSE row \in ImageAt(n, key) : TRUE]

(* The blocks above n are gone.  Those in the batch are forgotten, those   *)
(* in the database are taken back, in one transaction.                     *)
Undo(n) ==
  /\ running /\ undos < MaxUndos
  /\ n < read
  /\ undos' = undos + 1
  /\ chain' = SubSeq(chain, 1, n)
  /\ read' = n
  /\ cursor' = IF n < cursor THEN n ELSE cursor
  /\ tables' = TablesAt(n)
  /\ history' = SubSeq(history, 1, cursor')
  /\ UNCHANGED <<running, refused, runs>>

Quit ==
  /\ running' = FALSE /\ read' = cursor
  /\ UNCHANGED <<chain, cursor, tables, history, refused, runs, undos>>

(* A bounded run ends: what is left of the batch is dropped.               *)
Finish ==
  /\ running
  /\ read = Stop /\ read - cursor < FlushInterval
  /\ Quit

(* Crashes are finitely many: the last run has none.                       *)
Crash ==
  /\ running /\ runs < MaxRuns
  /\ Quit

Init ==
  /\ chain = <<>> /\ running = FALSE /\ read = 0 /\ cursor = 0
  /\ tables = <<>> /\ history = <<>> /\ refused = {} /\ runs = 0 /\ undos = 0

Next ==
  \/ Start \/ Stream \/ Finish \/ Crash
  \/ \E order \in Orders : Flush(order)
  \/ \E n \in 0 .. Len(chain) : Undo(n)

Spec == Init /\ [][Next]_vars

(* The sink goes on reading and flushing, and is started again.            *)
FairSpec ==
  Spec /\ WF_vars(Start) /\ WF_vars(Stream) /\ WF_vars(\E order \in Orders : Flush(order))

-----------------------------------------------------------------------------
Tables == {"pool", "swap", "position", "position_event", "aggregator_pool", "pool_stats"}

(* Every variable has its type and every row its columns (schema.sql).     *)
TypeOK ==
  /\ chain \in Seq(Blocks)
  /\ running \in BOOLEAN
  /\ cursor \in 0 .. read /\ read \in 0 .. Len(chain)
  /\ runs \in 0 .. MaxRuns /\ undos \in 0 .. MaxUndos
  /\ Len(history) = cursor
  /\ \A k \in DOMAIN tables :
       /\ k[1] \in Tables
       /\ k[1] = "pool" => tables[k] \in [price : Nat, created_at_block : 1 .. Stop,
                                          last_swap_block : 0 .. Stop]
       /\ k[1] = "position" => tables[k] \in [owner : Owners \cup {Nobody},
                                              created_at_block : 1 .. Stop,
                                              last_transfer_block : 1 .. Stop]

Upto(S, n) == {x \in S : x[1] <= n}

Latest(S) == CHOOSE x \in S : \A y \in S : ~Before(x, y)

(* What the chain says of the state after block n: the price of a pool and *)
(* the owner of a position are those of the latest log about it.           *)
PoolRow(p, n) ==
  [price            |-> LogAt(chain, Latest(Upto(History(chain, p, {"Initialize", "Swap"}), n))).value,
   created_at_block |-> Latest(Upto(History(chain, p, {"Initialize"}), n))[1],
   last_swap_block  |-> LET swaps == Upto(History(chain, p, {"Swap"}), n)
                        IN  IF swaps = {} THEN 0 ELSE Latest(swaps)[1]]

PositionRow(t, n) ==
  LET moves == Upto(History(chain, t, {"Transfer"}), n)
  IN  [owner               |-> LogAt(chain, Latest(moves)).value,
       last_transfer_block |-> Latest(moves)[1],
       created_at_block    |-> (CHOOSE x \in moves : LogAt(chain, x).from = Nobody)[1]]

KeysOf(db, table) == {k[2] : k \in {j \in DOMAIN db : j[1] = table}}

MintedIn(n) == {t \in Positions \ Minted : Upto(History(chain, t, {"Transfer"}), n) # {}}

EventsUpto(K, n) == {x \in Upto(Places(chain), n) : LogAt(chain, x).kind \in K}

(* A database that holds exactly the first n blocks: each event once, each *)
(* pool and position of the stream in the state of the latest log about    *)
(* it, none that the stream did not see created, and a summary for each    *)
(* pool and block with a swap.                                             *)
HoldsBlocks(db, n) ==
  /\ KeysOf(db, "pool") = Known(n)
  /\ \A p \in Known(n) : db[<<"pool", p>>] = PoolRow(p, n)
  /\ KeysOf(db, "position") = MintedIn(n)
  /\ \A t \in MintedIn(n) : db[<<"position", t>>] = PositionRow(t, n)
  /\ KeysOf(db, "swap") = EventsUpto({"Swap"}, n)
  /\ KeysOf(db, "position_event") = EventsUpto({"Transfer", "Subscription"}, n)
  /\ KeysOf(db, "aggregator_pool")
       = {LogAt(chain, x).id : x \in EventsUpto({"AggregatorPoolRegistered"}, n)}
  /\ KeysOf(db, "pool_stats") = {<<LogAt(chain, x).id, x[1]>> : x \in EventsUpto({"Swap"}, n)}

(* The tables hold exactly the blocks up to the cursor, whatever the order *)
(* in which the sink applies a block, the crashes, the restarts and the    *)
(* blocks taken back (db_out.rs:39-43, 212-217, 339-346).                  *)
TablesAtCursor == HoldsBlocks(tables, cursor)

(* In either order a pool's Update comes when its row is there: db_out     *)
(* writes no Update the database would ignore (db_out.rs:226-232).         *)
PoolUpdatesLand ==
  \A n \in DOMAIN chain, order \in Orders :
    \A c \in Changes(n) :
      c.op = "Update" /\ c.key[1] = "pool" =>
        \/ c.key[2] \in Known(n - 1)
        \/ \E d \in Creates(Changes(n), c.key) : Precedes(order, d, c)

(* A reader of the database never meets a summary that counts a swap it    *)
(* cannot see, nor a swap no summary counts: a summary counts exactly the  *)
(* swap rows of its pool and block, in whatever order the sink fills the   *)
(* two tables, after crashes, restarts and blocks taken back               *)
(* (db_out.rs:89-91, enrich.rs:155-161).                                   *)
SwapRows(p, n) ==
  {x \in KeysOf(tables, "swap") : x[1] = n /\ tables[<<"swap", x>>].pool = p}

SummariesCountRows ==
  /\ \A k \in KeysOf(tables, "pool_stats") :
       tables[<<"pool_stats", k>>].swap_count = Cardinality(SwapRows(k[1], k[2]))
  /\ \A x \in KeysOf(tables, "swap") :
       <<tables[<<"swap", x>>].pool, x[1]>> \in KeysOf(tables, "pool_stats")

(* The sink never refuses a row on the ground of its key, in any block or  *)
(* after any restart, unless a pool is registered as an aggregator pool    *)
(* twice (db_out.rs:144-147).                                              *)
OnlyRegistrationsRecur == \A key \in refused : key[1] = "aggregator_pool"

(* A run whose length is a multiple of the flush interval reaches its      *)
(* last block in the database, whatever crashes came before, unless a pool *)
(* is registered twice (README.md, "Sinking").  The padding counts on      *)
(* final blocks: after a reorganisation the cursor may be off the interval.*)
Reregistered ==
  \E p \in Pools : Cardinality(History(chain, p, {"AggregatorPoolRegistered"})) > 1

PaddedRunCompletes == <>(cursor = Stop \/ Reregistered \/ undos > 0)

(* db_out.rs:144-147: token is the only table whose primary key recurs.    *)
OnlyTokenRecurs == refused = {}
=============================================================================

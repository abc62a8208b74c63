# A TLA+ model of the feed simulator

The repository is a market-data simulator: thirty symbols, each with a
price-time priority order book that a goroutine keeps changing, a WebSocket feed
of the changes (JSON or binary ITCH 5.0), snapshots and a trade log in
PostgreSQL, an archive of old trades on disk, and a REST API over all of it.
This directory holds TLA+ models of the parts with state, TLC runs on small
instances, and TLAPS proofs for every value of the constants.

Paths below are relative to `go-feed/`.

## The system

| Part | State | Operations | What is hard |
|---|---|---|---|
| Order book (`internal/orderbook/book.go`, `order.go`) | two sorted arrays of price levels, `orderMap`, the id and match counters shared by all symbols | `AddOrder`, `RemoveOrder`, `ReduceOrder`, `ReplaceOrder`, `RestoreOrder`; readers | keeping three structures in step through the sort and the trim to `MaxLevels` |
| Simulator (`internal/orderbook/simulator.go`) | its book | `Initialize`, `Step` with `doAdd`, `doCancel`, `doReplace`, `doTrade`, `doReplenish` | the messages must let a consumer rebuild the book |
| Process (`cmd/feedsim/main.go`) | runners, `tradeCh`, two trade writers | start-up, ticks, `enqueueTrades`, signal, exit | bounded channel, order of shutdown |
| Snapshotter (`internal/persist/snapshot.go`) | one transaction | `Run`, `Save`, `Load`, `SaveTrade` | reads a running system without stopping it; crashes; failing statements |
| Sessions (`internal/session`) | the client map under a RW lock; per client a format, subscriptions, a bounded channel, two goroutines | `Register`, control messages, `Broadcast`, `SendToClient`, `Unregister` | clients that stall, change format or vanish in the middle of a broadcast |
| Archiver (`internal/archive/archiver.go`) | cursor in the database, day-files on disk | `cycle`, `archiveDay`, `rotate` | several non-atomic steps over two stores, retried after a crash |
| Retention (`internal/persist/retention.go`) | none | `prune`, a size monitor | deletes what the archiver is about to read |
| History (`internal/archive/history.go`, `catalog.go`, `reader.go`, `candles.go`), query layer (`internal/persist/queries.go`) and the handlers over them (`internal/api`) | none; a client keeps the cursor of its next page | `QueryTrades`, `QueryCandles`, zero-filling, paging | splits a query between stores that move, while it runs and between two pages; boundaries of buckets, pages and rings |
| Market engine, random generator, stress controller (`internal/engine`) | prices, sector shocks, generator state and spare, phase | `GenerateSectorShocks`, `Tick`, `Gaussian`, `StressController.Tick` | shared by all runners, under two locks that are given up half-way |
| ITCH codec (`internal/itch`) and decoder (`cmd/decoder`) | none | two encoders, a framing loop, ten decoders | the same layouts written down three times |
| Configuration, symbols, database access, visualizer | none of their own | I/O | nothing that a model would reach |

How they interact: a runner calls `market.Tick`, `sim.Step`, `enqueueTrades` and
`mgr.Broadcast` in turn. Runners share only the two counters, the generator and
the market. `Save` reads every book under its own lock, one after the other, and
the counters after that. Trade writers, pruner, archiver and history queries
meet in the `trades` table; archiver and queries meet in the archive directory.
Nothing else is shared, and no lock spans two of these parts.

What makes each part correct:

* book: `orderMap` and the levels hold the same orders; sides are sorted and
  bounded; no order overtakes another; a new order has an id of its own;
* feed: a consumer that applies the messages has the orders the book has;
* recovery: no id is handed out that an order of the books or of the snapshot has; a
  snapshot is consistent; the trade log loses nothing but what is dropped by design and
  what a reused number hides;
* sessions: order of messages, no service to clients that left, no runner held
  up, no leaked client;
* archive: a saved trade is in one of the stores until retention or rotation
  removes it;
* history: pages form one series in which no stored trade is missing or repeated;
* engine: no random value serves twice, no runner waits for ever, and what a runner
  hands to the simulator is in range;
* wire: a binary client and a JSON client are told the same.

## The modules

### OrderBook, Simulator, PriceTimeBook

`OrderBook` has the value of a `Book` and one operator for each method; a method
runs under `Book.mu`, so it is one change of the value. Prices are ticks and
shares are lots of 100. `addToSide` appends and sorts; the model inserts at the
sorted place, and `InsertIsSort` says that on every reachable side this is the only
thing the sort can give, whatever `sort.Slice` does inside (it is not stable).

`Simulator` has one action for each handler. `price` moves anywhere a tick can
take it (`Tick`), because the properties must hold for any price path. Draws are
existential quantifiers over `IntRange`. `OtherRunners` stands for the other 29
symbols' use of the counters. `mirror` is the book of a consumer that applies
each message; its operators (`OnAddOrder`, ...) follow the ITCH meaning of the
messages, since no consumer is part of the repository, and are marked external.
`legacy` are the orders that rested before the consumer joined: the feed sends no
picture of the book.

`PriceTimeBook` says what a depth-limited price-time book promises, with one queue
for each quoted price and no arrays: an order joins the end of its price's queue, the
prices beyond the best `MaxLevels` are quoted no more, a replaced order leaves and a new
one joins, and only the front of the best queue trades. `Simulator` maps its levels to it
(`QueueOf`, `Abstract`); `RefinesPriceTimeBook` is the claim.

### Recovery (`MCRecovery`)

The counters, the runners down to the points where they take an id or a match
number, the trade channel and its writers, `Save` statement by statement, `Load`
with its failures, the signal, the exit and a crash at any moment. A book is the
set of its ids, and `shares` is the heap of `Order` structs: `Save` collects
pointers and reads through them later. A transaction takes effect at `Commit` or
not at all. `LoadMayFail` and `DbMayFail` switch failures of the database on; a `Load`
that fails may have restored any rows and either counter, or none. Three history
variables remember what the program itself forgets: `issued` and `executed`, the ids and
match numbers each run has handed out, and `discarded`, the trades of this run that
`SaveTrade` had to leave out because their number was in the log.

### Restart

The book of `OrderBook`, whole, with `Save` and `Load` around it. `AllOrders` collects
pointers under the book's lock, `CopyFrom` reads an order's shares (`shares` is the
heap of `Order` structs) at any later moment, `SaveCounter` reads the id counter after
the last row and some time before `Commit`, a crash empties the process, and `Load`
restores the rows in any order through the same insertion, sort and trim as a new
order. `Recovery` keeps counters, symbols and failures and abstracts the book;
`Restart` does it the other way round.

### Session (`MCSession`)

A connection with its two pumps, the control messages, and one `Broadcast` for
each symbol that walks the client map while it holds the read lock. A waiting
writer keeps new readers out, as Go's `RWMutex` does. `Broadcast` reads the
subscription and the format of a client in separate steps, as the code does. A peer that stops reading for
longer than the write deadline is a peer that is gone.

### Archive (`MCArchive`)

The trades table, the directory and the cursor, with the archiver's cycle step by
step (`cycle`, `startDay`, `Select`, `CommitFile`, `DeleteRange`, `saveCursor`,
`rotate`), the pruner, inserts that arrive late, failures of any call, and crashes.
Time is a counter of instants, `DayLen` to the day; at the last instant the clock
stands and the tickers go on. A trade is its `executed_at`; a file's size is the number
of its trades. Temp files that a crash leaves behind stay on disk and `rotate` counts
them. `slow` records that a cycle was not over within its instant.

`MaxDelay <= MaxAge` is assumed: an `INSERT` does not hang for longer than the age
at which its day is archived. Without it `NothingVanishes` is false; the code sets
no timeout of its own.

### History (`MCHistory`)

A REST client that reads one symbol's history page by page: `handleCandles` with
`X-Next-Cursor`, `handleTrades` with limit and offset. A query fixes its boundary
(`Begin`), reads the live table (`ReadLive`) and then the archive (`Answer`); trades
arrive and days move between the stores between any two of these steps. A bar is its
bucket with the set of trades it aggregates, which determines its prices and volume.
The SQL bounds trades by the cursor and the archive bounds buckets by it, and the model
keeps the difference. The tail ring of the reader is modelled slot by slot. The
archiver of module `Archive` is reduced to what a query sees of it: the file appears,
the rows go, or the `DELETE` fails.

### Engine (`MCEngine`)

The turns of the runners over what they share. `Gaussian` is one action for each
section under `RNG.mu`; its callers hold `MarketEngine.mu` or, in the stress
controller, nothing. A random value is named by the draw it comes from, so that two
values can be told apart and no arithmetic is needed; the price after a tick (up
to the bound `MaxPrice`, with the floor of one tick applied), the rejection of a pair of
draws and the intensity of the controller are then any choice.
Phases, intervals and action counts are computed as in the code, in tenths of the
intensity.

### Wire (`MCWire`)

The encoders and the decoders as tables of slices, taken from each function on its own,
so that a wrong offset in one of them is a disagreement. 64-bit numbers are their eight
bytes. A frame has up to three messages with their length prefix, as the decoder
accepts them (the server sends one), or one body without it. Prices are whole ticks of
0.01, the tick size of every symbol; for these `uint32(price * 10000)` loses nothing.
JSON trims white space on both sides of a ticker (`TrimSpace`), the decoder only spaces at
the end (`readStock`); they agree on the texts that `WireAssumption` admits.
Its names (`WireSpec`, `batch`, `payload`) are chosen so that it can stand beside `Session`,
which carries the frames, in one module of proofs.

## The runs

All finish within the five minutes a run is given, on two workers.

| Run | Checks | Shows |
|---|---|---|
| `simulator` | `TypeOK`, `BookConsistent`, `LadderOrdered`, `MirrorCoversBook`, `NoOverExecution`, `InsertIsSort`, `PriorityKept`, `LeaksOnlyByReplace`, `RefinesPriceTimeBook` | the book and the feed under every sequence of handlers; the arrays implement the abstract book |
| `recovery` | `TypeOK`, `FreshIDs`, `SnapshotClosed`, `SnapshotsAdvance` | crashes and failed saves at any step |
| `trade_log` | `TradesAccounted`, `QueuedTradeSettled` | the channel at its limit, two runs of the process, a `Load` and a database that may fail |
| `restart` | `RestoredBook`, `RowsBetween` | a whole book through a save under a trading runner, a crash, and a load in any row order |
| `session` | `TypeOK`, `InOrder`, `NoZombies`, `FramesTyped`, `SilentAfterUnregister` | two clients that come, switch format, stall and go |
| `session_live` | `BroadcastReturns`, `GoneClientsLeave` | progress with two runners and a client that never reads |
| `archive` | `TypeOK`, `NothingVanishes`, `CursorPassesNothing`, `RotatesOldestFirst`, `PrunedAreArchived`, `ArchiverCatchesUp` | the cycle with crashes, failures, inserts and pruning between its steps; every old trade leaves the table |
| `history` | `TypeOK`, `PagesDescend`, `NothingSkipped`, `TradePageExact` | pages of candles and trades while the stores move |
| `engine` | `DeviatesOnce`, `FreshShocks`, `InputsInRange`, `TickReturns` | two runners in every interleaving over the generator, the market and the controller |
| `wire` | `FramesSplit`, `FormatsAgree` | all message types, both encodings, the decoder |

Two further runs record where the code does not do what the repository says of
it; each checks one statement and TLC shows how it fails:

| Run | Statement | What happens |
|---|---|---|
| `number_reuse` | `order.go:29` and `order.go:47`, order ids and match numbers are globally unique | a runner takes id 2 and makes trade 2 after the running `Save` has read the counters; the `Save` commits, the process crashes, and the run that starts from this snapshot hands out both numbers again |
| `history_gap` | `history.go:20`, the split has no gap | a trade archived but younger than the retention cutoff is found nowhere |

`NumbersUnique` asks only that one of the two claims holds, so that its counterexample
refutes both, and only of a run that started from a snapshot, so that TLC does not answer
with a crash before the first one.

Several properties hold only under a condition that the code does not establish by
itself, and their statements say so:

* `FreshIDs`: it is what remains of unique order ids, while `Load` succeeds. A new order
  gets no id that was handed out before in its run, none that the last snapshot counted,
  and none that an order in a book, in the snapshot or in a running `Save` has. The ids handed out, and broadcast,
  between the last snapshot and a crash are handed out again (`number_reuse`).
* `TradesAccounted`: a trade of this run is in the log as a row of this run, or it was
  dropped (full channel, error of `SaveTrade`, `main.go:290` and `303`), or
  `ON CONFLICT DO NOTHING` discarded it because an earlier run has a row under its number
  (`snapshot.go:259`). The last is a loss that nobody is told of and follows from
  `number_reuse`; the property says that it happens in no other case.
* `LeaksOnlyByReplace`: a consumer keeps an order the book has dropped only after a
  replace whose insertion trimmed a level (`simulator.go:260`). Every other handler
  publishes the deletes, as `simulator.go:172` says.
* `FramesTyped`: a client that switches format while subscribed can get JSON in a binary
  frame or the reverse (`handler.go:179`). One that asks for its format first, as the
  decoder does, cannot.
* `PrunedAreArchived`: retention must exceed a day, the archive-after age and the
  archiver's interval together. The defaults (24 h + 24 h + 6 h against 2 days) do not, so
  the first hours of a day can be pruned before its day-file is written, unlike
  `history.go:18`.
* `NothingSkipped`: a day whose rows are deleted between `Bounds` and the live read of a
  query is missing from its answer (`history.go:62`).
* `TradePageExact`: when the stores are split as `QueryTrades` expects. Rows beyond
  `MaxLimit` (offset and limit together) cannot be reached at all.
* `RowsBetween`: an order that was executed in full while `CopyFrom` ran is saved with no
  shares, and trades one more lot after a restart.

The models also contain these behaviours, which no run is devoted to:

* `main` can return before `Run` has made the final snapshot (`main.go:150`);
* when `Load` fails half-way, ids start from one beside the orders already
  restored (`main.go:77`), which is why `recovery` and the theorems assume that it
  does not fail;
* orders of a level come back in the order of the rows, which the `SELECT` leaves open
  (`snapshot.go:191`; only seeded orders have an `Order.Priority`, and nothing reads it): time priority
  is not kept across a restart;
* unsubscribing from one symbol has no effect after a subscription to `*`
  (`client.go:84`);
* a `DELETE` that failed, then a prune, then the retried cycle: the complete day-file
  is replaced by what is left in the table (`archiver.go:233`);
* with `fill=zero`, no `from` and a limit of one, every page is full and has a cursor,
  so a client that follows the cursors never comes to an end;
* every runner regenerates the shocks of all sectors, so two symbols of a sector
  normally tick with different shocks, although `market.go:25` has them "generated once
  per tick cycle"; what holds is that no price moves twice by one shock (`FreshShocks`);
* the runners share one generator in scheduling order, so a seed does not fix the price
  paths; a spare that another call overwrites is lost, and a restart loses it too.

### Bounds

* `simulator`: two levels, so a third price trims; four orders seed the
  book and two more ids are enough for a trim caused by an add, one caused by a
  replace, and a queue of two at one price; two lots make partial and full
  executions different.
* `recovery`: two symbols and two starts of the process, three ids, so that ids are
  handed out before, during and after a save, and after a crash. `trade_log`: a
  channel of one and two trades in a step, so that it is full; two runs and two match
  numbers, so that a number comes back while the first run's row is there. One of the two
  writers: with both, the liveness property takes longer than a run may; for any number
  of writers `TradesAccounted` is proved.
* `session`: three control messages over all clients, enough to subscribe and switch format
  in either order and once back; a buffer of one and batches of up to two messages, so that buffers
  overflow inside a batch; two clients, one of which may leave while the other is
  being served.
* `archive`: four days of two instants, three trades, a file limit of two trades,
  three failures: enough for a day with two trades, a retried day, a left-over temp
  file and a rotation of several files; the retention period is the shortest that
  `PrunedAreArchived` asks for.
* `history`: days of four instants with two candles each, up to three old trades and one
  that arrives, pages of one to three rows and up to four of them: buckets and days with
  none, one and several trades, bounds inside a bucket, rings that wrap, and a page
  boundary in either store. `history_gap` has all trades in one page.
* `engine`: BLITZ and one other runner, each in its sector, three turns in all and one
  rejected pair: both locks contended, a spare left by either runner for the other, and
  every phase; prices of one and two ticks, and a tick that the floor lifts. The default
  intervals of `StressConfig`.
* `wire`: a small and a field-filling message of each type, frames of up to three.
* `restart`: one side (the sides do not interact), two levels and three prices, so that
  the trim would show; three ids, two snapshots, one crash.

The named bounds (`MaxOrderID`, `MaxMatch`, `MaxMessages`, `MaxControls`, `MaxTime`,
...) only cut behaviours off; deadlock is not checked in the runs where they make
the system stop (a simulation never stops otherwise).

### Fairness

* `trade_log`: each trade writer keeps running. They are goroutines in a loop over a
  channel, and the Go scheduler runs every goroutine that can run.
* `session_live`: a `Broadcast` that has begun goes on, and so does a pump whose read
  or write has failed (the deadlines `pongWait` and `writeWait` see to it). No
  fairness is assumed of peers, nor of writes to a peer that is there.
* `archive`: the process is started again (`restart: unless-stopped` in
  `docker-compose.yml`), the tickers fire, a cycle that began goes on, an `INSERT`
  ends. Failures are finite (`MaxFailures`).
* `engine`: each runner goes on while it can. `Gaussian` rejects finitely many pairs
  (`MaxRetries`), which the code guarantees with probability one only.

## The proofs

`OrderBookProofs` proves, for any `MaxLevels`, that each method keeps a book well
formed (`BookOK`) and what it does to the orders: `AddOrderOK`, `RemoveOrderOK`,
`ReduceOrderOK`, `ReplaceOrderOK`. `BookOK` is stronger than what a run checks for
one method at a time: inserting a level at its sorted place needs that the side was
strictly sorted, removing an order needs that it is queued once, and evicting needs
that the trimmed levels hold only orders of `orderMap`.

`SimulatorProofs` proves `Spec => []Inv` with

* `BookOK(book)`,
* every id in the book or known to the consumer is at most `orderIDCounter`
  (otherwise `AddOrder` could be given an id that is taken, and a replace could hit a
  stale entry of the consumer),
* the consumer's entries are orders with at least one lot and agree with the book
  where both have the order, and what it does not know is in `legacy`,

and from it `TypeOK`, `BookConsistent`, `LadderOrdered`, `MirrorCoversBook` and
`NoOverExecution`, which `simulator` checks, and `IdsBelowCounter` and `FreshIds`, which
follow so directly that no run repeats them. The action property `LeaksOnlyByReplace`
needs besides that, while the book is seeded, nobody acts and the consumer knows
nothing (`QuietSeeding`): only then an eviction announces no delete. The assumptions are
`MaxLevelsAssumption` and `SimulatorAssumption`: positive sizes, and a reference
price above `MaxLevels` ticks so that seeding stays above zero.

`SimulatorProofs` proves further that the simulator implements `PriceTimeBook`, that it keeps
price-time priority and that the model's insertion is the code's sort, all from `Inv`.

* *Arrays and queues.* The queue of a price is that of its level (`QueueView`), and a
  level's place in a sorted array is one more than the number of better prices (`Rank`, by
  counting). So the first `MaxLevels` levels are those of the best `MaxLevels` prices
  (`BestLevels`, `TrimQueues`), and `AddOrder` and `RemoveOrder` do to the arrays what
  `Join` and `Leave` do to the queues (`AddOrderQueues`, `RemoveOrderQueues`), the order
  that is trimmed as it arrives and the level that empties included.
* *Steps.* `StepKinds` sorts the actions of `Simulator` into those that leave the book
  alone and those that enter, replace, cancel or execute one order; each kind is a step or
  a stutter of `PriceTimeBook` (`EnterRefines`, `ReplaceRefines`, `RemoveRefines`,
  `TradeRefines`). The abstract book has a largest price and a largest order, so the proof
  carries `LimitInv` besides: no price is more than `orderIDCounter * ReplaceTicks` above
  where orders are placed, because every replacement takes an id.
* *Priority.* `PriorityKept` relates the places of two orders before and after a step. It
  follows from the effect on each queue: a queue keeps its orders in their order (`Keeps`)
  whether one joins at the end, one leaves or prices are trimmed, and an execution hits an
  order nobody is ahead of (`NobodyAhead`).
* *The sort.* A sorted side is determined by its levels, because `Rank` fixes the place of
  each (`SortedIsUnique`); the insertion is a sorted rearrangement, so every sorted
  rearrangement is the insertion (`InsertionIsTheSort`).

`RestartProofs` proves both properties of `Restart`. A row may be saved with no shares, so
the book while it is loaded is not `BookOK`; `WellFormed` is `BookOK` of the same book
with one lot in each order, which lets the lemmas on `AddOrder` be used again. What is
carried from `AllOrders` through `CopyFrom`, `Commit`, a crash and `Load` is that the rows
quote at most `MaxLevels` prices on a side (`Fits`): then no insertion of any of them, in
any order, trims a level (`NoTrim`), which is `RestoredInFull`. `SnapshotsLieBetween`
follows the shares of a collected order, which only go down, and needs that ids are not
reused while a save runs.

`RecoveryProofs` proves, for any number of symbols, writers and runs and under
`~LoadMayFail`, that a new order gets a fresh id (`IDsAreFresh`, in the sense of
`FreshIDs`), that committed snapshots are closed and
that persisted counters never go back. The invariant follows an id through the
save: ids collected from the books are at most the live counter, which is read
later, so a committed row is at most the committed counter; an order is in one book
only, so no id is collected twice; and the live counters are at least the persisted
ones while the process is up; what this run has issued lies at or below the live counter
(`HistoryOK`), and no two orders alive at one moment have the same (`LiveIDsDistinct`).
The assumption is needed (see the list of behaviours above).
Types, the accounting of trades with its three kinds of loss (`TradesStayAccounted`) and
that no row of the log is changed (`LogIsAppendOnly`) are proved without it, with every failure the model has.

`SessionProofs` proves the five safety properties of `Session` for any set of clients and
symbols, any batch and any channel size.

* `InOrder` compares only what a client has been sent. `OrderInv` follows each symbol's
  messages from there back to the broadcast: what was written is at most what is in
  `writePump`'s hand, that is below what waits in the channel, rising, and that is at
  most what the running `Broadcast` has offered this client so far (`Reached`).
* `NoZombies` needs that a pump exists from registration on, and `SilentAfterUnregister`
  that a `Broadcast` or a `SendToClient` inside the read lock serves clients of the map
  only, while a waiting `Unregister` is kept out.
* `FramesTyped` needs that nothing at all is on its way to a client that has not
  subscribed (`Unasked`): only then is a format that was asked for first the format of
  every frame. The encoding that `Broadcast` has chosen and not yet sent is part of it.

`SessionAssumption`: `Symbols` is finite, and no client is the placeholder `"none"`.

`SessionProofs` also proves what is in the frames: both properties of `Wire`, for any messages
and any number of them in a frame.

* *Fields.* What the encoder writes for a field the decoder reads back (`FieldBack`): numbers
  of 16 and 32 bits by quotient and remainder, text because trimming undoes padding (and
  JSON has nothing to trim, `TrimBack`), a time
  because its two high bytes are 0, and a price because hundredths and ten-thousandths of
  it have the same digits (`PriceBack`).
* *Layouts.* The slices of a layout lie side by side, each as wide as its field (`Run`), so
  every byte comes from one field (`SlotFound`, `BodyAt`). For each of the ten types the
  slices the decoder reads are slices the encoder wrote, the length it asks for is the
  length of the body, and JSON has the field (`TypesAgree`).
* *Frames.* `Packed` keeps the offsets between the messages. From the last offset back, the
  loop of the decoder finds the messages that follow (`LoopReadsRest`); a single prefix that
  covers the frame can then only be that of a single message. A body without prefix begins
  with a type, and no type is below 65: taken for a length, its first two bytes lead past the
  44 bytes of the longest body, so the loop finds nothing (`BodyRead`). The loop is a
  recursive function; it exists because every jump leads forward (`LoopExists`).

`WireAssumption` says what a message is: numbers in the range of their fields, counts not
negative, a time of day below 2^48 ns, a price below 2^32 ten-thousandths (429,496.73), and
tickers and MPIDs in ASCII that fit their field and neither begin nor end with white space.

`ArchiveProofs` proves types, `NothingVanishes`, `CursorPassesNothing`,
`PrunedAreArchived` and `RotatesOldestFirst` for days, ages, delays, intervals and files of
any length. The invariant says,
for each step of the cycle, where the rows of the day it works on are: at the `COMMIT` of
the file all rows left in the table are in the batch and so is what an earlier attempt
had written (unless it was pruned since), so replacing the file loses nothing; at the
`DELETE` the file is the batch; and while a file's day still has rows, because a `DELETE`
failed, the file holds nothing that is not in the table or pruned. That no row can arrive
in a day that was passed needs `MaxDelay <= MaxAge`. `PrunedAreArchived` needs the pace of
the archiver (`PaceInv`): without failures and slow cycles the last one began less than an
interval ago.

`RotatesOldestFirst` is about sums: `SizeOf` counts the units of a set of files, so it adds up
over disjoint sets (`SizesAdd`) and grows with the set (`SizesGrow`) without an induction.
The files that go are closed under "older" (`OlderGoes`), so they are all that is older than
the oldest file that stays, which gives that the rest fits (`RestFits`); and with the files
of the newest day that went it would not have fitted (`NoMoreThanNeeded`). That no other
step empties a day-file needs that a file is committed with rows in it (`CommitInv`).

`HistoryProofs` proves the four invariants of `History`, for any number of days, trades, bars,
limits, offsets and requests.

* *Induction over data.* The loops of the code are functions on `0 .. n`. That such a function
  exists and what it computes is proved by the least number at which it fails (`LeastNat`,
  `UpTo`), which the library has for sets. So `Recursion` gives each loop its equations, the
  lemmas on the tail ring say that after any number of pushes it holds the last ones in
  order, and the walk over the day-files that it stops with the newest trades of them all.
* *Newest first.* The place of a trade on a page is the number of newer ones, so the newest
  trades of two stores, one wholly older than the other, are those of the union, and a
  page is the trades whose rank lies between offset and limit (`PageByRank`).
* *The invariant.* `PagesDescend` and `NothingSkipped` speak of what the client has; a query in
  flight needs: where the stores can overlap while a day moves (`ClockInv`); that what is
  older than the boundary of the query is archived and, unless it was overtaken, what is
  younger is in the table when the table is read (`SplitInv`); that the cursor is the last
  bucket the client has and lies on a bucket (`CursorInv`), or one bucket could come in two
  parts; and that the bars read from the table lie between split and cursor and hold
  all that was stored there, as far as the limit goes (`MergedInv`). For trades `TradesInv` says that
  what was read from the table is the newest part of it. Each part was checked by TLC
  before it was proved.

`HistoryAssumption`: intervals divide a day, a request has at most one bound of each kind,
and what is stored at the start is not younger than the clock.

`EngineProofs` proves, for any number of symbols, sectors, turns and rejected draws,
the three invariants of `Engine`. `DeviatesOnce` says nothing of a value that is still
to be returned, so its invariant `RngInv` follows every draw: it is in one place, given
to a caller, the spare, or pending in one call of `Gaussian`. `FreshShocks` needs that
and `ShockInv`: whoever is inside `GenerateSectorShocks` or `Tick` holds the lock, and
what a runner is still to use (the sectors it has stored, or all of them on its way to
`Tick`) is a value its price has not moved by; another runner that regenerates them in
between puts values there that nobody has seen. `InputsInRange` needs the arithmetic of
the interval between `max` and `min` for every intensity. `EngineAssumption` asks that
every symbol has a sector, that `min` is 1 ms to `max` and that a phase lasts.

Only model-checked, and why:

* liveness (`QueuedTradeSettled`, `BroadcastReturns`, `GoneClientsLeave`,
  `ArchiverCatchesUp`, `TickReturns`): out of the prover's reach.

## Not modelled

The arithmetic of prices and of the generator (PCG, Box-Muller, GBM) and its saved
state; `Order.Priority` (never read) and `MPID` in the book; the size monitor (logs
only); SQL text, gzip, HTTP and the parsing of parameters; the names of JSON fields;
`QueryTradesMulti` and `QueryStats`, each one `SELECT` over the live table; the handlers
that only read (`handleSymbols` reads best bid and best ask in two steps and may show a
pair that never was); configuration, migrations and the visualizer. `PROJECT.json` lists
each component with its reason, and the hazards no property covers.

## Plan

Done, in this order: order book and simulator with their abstract specification and
proofs; recovery and its proofs; sessions; archive and retention; history, query layer
and paging; engine; codec; a whole book through a restart.

Proved since: the refinement, priority and the sort; a book through a restart; the trade
log; the safety of sessions, archive, history and paging; rotation; the codec.

Every safety property that a run checks is a theorem.

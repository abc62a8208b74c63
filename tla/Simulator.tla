------------------------------- MODULE Simulator -------------------------------
(***************************************************************************)
(* The simulated activity of one symbol: orderbook/simulator.go, driven by *)
(* the symbol's runner goroutine in cmd/feedsim/main.go, together with a   *)
(* consumer of the feed that rebuilds the full book from the messages.     *)
(*                                                                         *)
(* The runner is the only goroutine that changes the symbol's book, so     *)
(* one handler of Step (doAdd, doCancel, ...) is one action.  The order    *)
(* id counter and the match counter are shared with the runners of the     *)
(* other symbols (OtherRunners).                                           *)
(*                                                                         *)
(* mirror is what a lossless consumer holds once it has applied everything *)
(* the handlers published: within one symbol the messages reach a client   *)
(* in the order they were produced.  Subscribe lets a consumer join at     *)
(* any step boundary; it is sent no picture of the orders that rest        *)
(* already, and legacy are the orders it cannot know.                      *)
(***************************************************************************)
EXTENDS OrderBook

CONSTANTS
    OrdersPerLevel,     \* orders seeded on each level (3 in the code)
    RefPrice,           \* the symbol's base price, in ticks
    AddTicks,           \* doAdd places 1..AddTicks ticks from the price (10)
    ReplenishTicks,     \* doReplenish places 1..ReplenishTicks ticks away (5)
    ReplaceTicks,       \* doReplace shifts by at most ReplaceTicks ticks (2)
    MaxLots,            \* the largest order, in lots (10)
    MinReplenishLots,   \* the smallest order of doReplenish, in lots (2)
    IsStress,           \* TRUE for the symbol that stressRunner drives
    MaxStressActions,   \* actions per tick of the stress symbol (10)
    MaxPrice,           \* bound: the market price
    MaxOrderID,         \* bound: order ids handed out
    MaxMatch            \* bound: match numbers handed out

ASSUME SimulatorAssumption ==
    /\ OrdersPerLevel \in Nat \ {0}
    /\ RefPrice \in Nat /\ RefPrice > MaxLevels
    /\ AddTicks \in Nat \ {0}
    /\ ReplenishTicks \in Nat \ {0}
    /\ ReplaceTicks \in Nat
    /\ MaxLots \in Nat \ {0}
    /\ MinReplenishLots \in 1 .. MaxLots
    /\ IsStress \in BOOLEAN
    /\ MaxStressActions \in Nat \ {0}
    /\ MaxPrice \in Nat /\ RefPrice <= MaxPrice
    /\ MaxOrderID \in Nat
    /\ MaxMatch \in Nat

VARIABLES
    book,               \* Simulator.book
    price,              \* MarketEngine.prices[locate], in ticks
    orderIDCounter,     \* orderbook.orderIDCounter
    matchCounter,       \* orderbook.matchCounter
    seed,               \* where Initialize is: [level, j, side]; level = MaxLevels when done
    actionsLeft,        \* actions the current Step has still to perform
    mirror,             \* the consumer's orders: order id -> order
    legacy              \* ids of resting orders the consumer was never told of

vars == <<book, price, orderIDCounter, matchCounter, seed, actionsLeft, mirror, legacy>>

-----------------------------------------------------------------------------
(* Random draws and prices.                                                *)

\* Mutant: one more than max can be drawn.
IntRangePastMax(min, max) == IF min >= max THEN {min, max + 1} ELSE min .. max + 1

\* The values RNG.IntRange(min, max) can return.
IntRange(min, max) == IF min >= max THEN {min} ELSE min .. max

FloorTick(p) == IF p < 1 THEN 1 ELSE p

\* The price offset ticks away from current, on the passive side of it.
PassivePrice(current, side, offset) ==
    FloorTick(IF side = SideBuy THEN current - offset ELSE current + offset)

NextOrderID == orderIDCounter + 1

\* Bound: an action that needs an id needs the id to be below MaxOrderID.
CanAllocate(n) == orderIDCounter + n <= MaxOrderID

-----------------------------------------------------------------------------
(* The consumer: what each message type does to its copy of the book.      *)

OnAddOrder(m, o) == With(m, o)

OnOrderDelete(m, ids) == Without(m, ids)

OnOrderReplace(m, origRef, ref, newPrice, newShares) ==
    IF origRef \in DOMAIN m
    THEN With(Without(m, {origRef}), Replacement(m[origRef], ref, newPrice, newShares))
    ELSE m

OnOrderExecuted(m, ref, shares) ==
    IF ref \notin DOMAIN m THEN m
    ELSE IF m[ref].Shares = shares THEN Without(m, {ref})
         ELSE [m EXCEPT ![ref].Shares = @ - shares]

\* Mutant: the add is not published when the insertion trimmed an order.
addMsgsOrDeletes(m, o, evicted) ==
    IF evicted # {} THEN OnOrderDelete(m, evicted) ELSE OnAddOrder(m, o)

\* Mutant: the trimmed orders are not published.
addMsgsOnly(m, o, evicted) == IF o.ID \in evicted THEN m ELSE OnAddOrder(m, o)

\* The messages of addMsgs: an add for o unless o was itself trimmed, and a
\* delete for every other trimmed order.
addMsgs(m, o, evicted) ==
    IF o.ID \in evicted
    THEN OnOrderDelete(m, evicted \ {o.ID})
    ELSE OnOrderDelete(OnAddOrder(m, o), evicted)

-----------------------------------------------------------------------------
(* Start-up.                                                               *)

Seeding == seed.level < MaxLevels

Init ==
    /\ book = NewBook
    /\ price = RefPrice
    /\ orderIDCounter = 0
    /\ matchCounter = 0
    /\ seed = [level |-> 0, j |-> 0, side |-> SideBuy]
    /\ actionsLeft = 0
    /\ mirror = [id \in {} |-> {}]
    /\ legacy = {}

NextSeed == IF seed.side = SideBuy
            THEN [seed EXCEPT !.side = SideSell]
            ELSE IF seed.j + 1 < OrdersPerLevel
                 THEN [level |-> seed.level, j |-> seed.j + 1, side |-> SideBuy]
                 ELSE [level |-> seed.level + 1, j |-> 0, side |-> SideBuy]

\* Half a turn of the inner loop of Initialize: the bid, then the ask, on a
\* level.  main discards the messages.
Initialize ==
    /\ Seeding
    /\ CanAllocate(1)
    /\ \E shares \in 1 .. MaxLots :
           LET offset == seed.level + 1
               o == [ID |-> NextOrderID, Side |-> seed.side,
                     Price |-> IF seed.side = SideBuy THEN RefPrice - offset
                                                      ELSE RefPrice + offset,
                     Shares |-> shares]
           IN  book' = AddOrder(book, o)
    /\ orderIDCounter' = NextOrderID
    /\ seed' = NextSeed
    /\ legacy' = (legacy \cup {NextOrderID}) \cap DOMAIN book'.orderMap
    /\ UNCHANGED <<price, matchCounter, actionsLeft, mirror>>

-----------------------------------------------------------------------------
(* The runner.                                                             *)

\* How many actions a tick performs: symbolRunner derives the number from
\* the order count, stressRunner takes it from the stress controller.
NumActions == IF IsStress THEN 1 .. MaxStressActions ELSE {1 + (OrderCount(book) % 3)}

\* A tick: MarketEngine.Tick moves the price anywhere from one tick up, and
\* Step starts.
Tick ==
    /\ ~Seeding
    /\ actionsLeft = 0
    /\ price' \in 1 .. MaxPrice
    /\ actionsLeft' \in NumActions
    /\ UNCHANGED <<book, orderIDCounter, matchCounter, seed, mirror, legacy>>

\* Step has an action left to perform.
Acting == actionsLeft > 0

Acted == actionsLeft' = actionsLeft - 1 /\ UNCHANGED <<price, seed>>

\* doAdd and doReplenish: a new order within ticks of the price.
Place(ticks, lots) ==
    /\ CanAllocate(1)
    /\ \E side \in Sides, offset \in IntRange(1, ticks), shares \in lots :
           LET o == [ID |-> NextOrderID, Side |-> side,
                     Price |-> PassivePrice(price, side, offset), Shares |-> shares]
           IN  /\ book' = AddOrder(book, o)
               /\ mirror' = addMsgs(mirror, o, Evicted(book, o))
    /\ legacy' = legacy \cap DOMAIN book'.orderMap
    /\ orderIDCounter' = NextOrderID
    /\ UNCHANGED matchCounter

doAdd == Acting /\ Acted /\ Place(AddTicks, IntRange(1, MaxLots))

doReplenish == Acting /\ Acted /\ Place(ReplenishTicks, IntRange(MinReplenishLots, MaxLots))

\* The orders doCancel and doReplace choose from.
Resting == OrdersOn(book, SideBuy) \cup OrdersOn(book, SideSell)

doCancel ==
    /\ Acting /\ Acted
    /\ \/ /\ Resting = {}
          /\ UNCHANGED <<book, mirror, legacy>>
       \/ \E id \in Resting :
              /\ book' = RemoveOrder(book, id)
              /\ mirror' = OnOrderDelete(mirror, {id})
              /\ legacy' = legacy \ {id}
    /\ UNCHANGED <<orderIDCounter, matchCounter>>

\* Only an OrderReplace is published, whatever the insertion of the new
\* order trimmed.
doReplace ==
    /\ Acting /\ Acted
    /\ \/ /\ Resting = {}
          /\ UNCHANGED <<book, orderIDCounter, mirror, legacy>>
       \/ /\ CanAllocate(1)
          /\ \E oldID \in Resting, shift \in -ReplaceTicks .. ReplaceTicks,
                newShares \in IntRange(1, MaxLots) :
                LET newPrice == FloorTick(book.orderMap[oldID].Price + shift)
                    newID    == NextOrderID
                IN  /\ book' = ReplaceOrder(book, oldID, newID, newPrice, newShares)
                    /\ mirror' = OnOrderReplace(mirror, oldID, newID, newPrice, newShares)
                    /\ legacy' = (IF oldID \in DOMAIN mirror THEN legacy
                                  ELSE legacy \cup {newID}) \cap DOMAIN book'.orderMap
          /\ orderIDCounter' = NextOrderID
    /\ UNCHANGED matchCounter

\* An aggressor of either side hits the first order on the opposite side.
\* A trade needs both sides to be quoted.
Quoted == BestBid(book) # 0 /\ BestAsk(book) # 0

doTrade ==
    /\ Acting /\ Acted
    /\ \/ /\ ~Quoted
          /\ UNCHANGED <<book, matchCounter, mirror, legacy>>
       \/ /\ Quoted
          /\ matchCounter < MaxMatch
          /\ \E side \in Sides :
                LET id == FirstOrder(book, side)
                IN  \E tradeShares \in IntRange(1, book.orderMap[id].Shares) :
                        /\ book' = ReduceOrder(book, id, tradeShares)
                        /\ mirror' = OnOrderExecuted(mirror, id, tradeShares)
          /\ legacy' = legacy \cap DOMAIN book'.orderMap
          /\ matchCounter' = matchCounter + 1
    /\ UNCHANGED orderIDCounter

\* The runners of the other symbols draw from the same counters.
OtherRunners ==
    /\ \/ /\ CanAllocate(1)
          /\ orderIDCounter' = NextOrderID
          /\ UNCHANGED matchCounter
       \/ /\ matchCounter < MaxMatch
          /\ matchCounter' = matchCounter + 1
          /\ UNCHANGED orderIDCounter
    /\ ~Seeding
    /\ UNCHANGED <<book, price, seed, actionsLeft, mirror, legacy>>

\* A consumer joins between two steps, knowing nothing of what rests.
Subscribe ==
    /\ ~Seeding
    /\ actionsLeft = 0
    /\ mirror' = [id \in {} |-> {}]
    /\ legacy' = DOMAIN book.orderMap
    /\ UNCHANGED <<book, price, orderIDCounter, matchCounter, seed, actionsLeft>>

Next ==
    \/ Initialize
    \/ Tick
    \/ doAdd
    \/ doReplenish
    \/ doCancel
    \/ doReplace
    \/ doTrade
    \/ OtherRunners
    \/ Subscribe

Spec == Init /\ [][Next]_vars

-----------------------------------------------------------------------------
(* Properties.                                                             *)

\* Every variable has its type; the orders of the book and of the consumer
\* are orders, and counters stay within the bounds.
TypeOK ==
    /\ BookType(book)
    /\ price \in 1 .. MaxPrice
    /\ orderIDCounter \in 0 .. MaxOrderID
    /\ matchCounter \in 0 .. MaxMatch
    /\ seed \in [level : 0 .. MaxLevels, j : 0 .. OrdersPerLevel - 1, side : Sides]
    /\ actionsLeft \in Nat
    /\ legacy \subseteq DOMAIN book.orderMap

\* The book never orphans an order and never serves one it has dropped: the
\* orders in orderMap are exactly those reachable through the levels, each
\* once, on the side and at the price it was entered with (AddOrder,
\* removeFromSide and the trim of addToSide keep the two in step).
BookConsistent == Reachable(book) /\ NoOrphans(book) /\ NoDuplicates(book)

\* After any sequence of handlers each side is strictly sorted, best first,
\* with at most MaxLevels levels and no empty one: BestBid, BestAsk and
\* RandomBidOrder(0) rely on it.
LadderOrdered == LevelsSorted(book) /\ LevelsBounded(book)

\* The ids the book holds were handed out by NextOrderID, so the next one
\* collides with no resting order.
IdsBelowCounter == \A id \in DOMAIN book.orderMap : id <= orderIDCounter

\* A consumer that applies every message knows every order that was entered
\* since it joined, with the side, price and remaining shares the book has.
MirrorCoversBook ==
    /\ DOMAIN book.orderMap \subseteq DOMAIN mirror \cup legacy
    /\ \A id \in DOMAIN book.orderMap \cap DOMAIN mirror : mirror[id] = book.orderMap[id]

\* No order is ever executed for more than the shares announced for it, even
\* when it was announced by a replace.
NoOverExecution == \A id \in DOMAIN mirror : mirror[id].Shares > 0

\* Orders the consumer holds although the book has dropped them.
Leaked == DOMAIN mirror \ DOMAIN book.orderMap

\* A consumer that rebuilds the book leaks no order through adds, cancels and
\* trades, whatever they trim: addMsgs, Initialize and the other handlers
\* publish a delete for each order that leaves the book.  Only a replace,
\* which publishes nothing for what its insertion trims, leaks.
LeaksOnlyByReplace == [][Leaked' \subseteq Leaked \/ doReplace]_vars

\* x is served before y: a better level, or earlier in the queue of the same
\* level.
ServedBefore(b, x, y) ==
    LET levels == b.levels[b.orderMap[x].Side]
    IN  \E i \in DOMAIN levels : \E j \in DOMAIN levels[i].Orders :
            /\ Holds(levels, i, j, x)
            /\ \E k \in i .. Len(levels) : \E l \in DOMAIN levels[k].Orders :
                   (i = k => j < l) /\ Holds(levels, k, l, y)

Survivors == DOMAIN book.orderMap \cap DOMAIN book'.orderMap

\* Price-time priority: no step lets an order overtake one that rested
\* before it and still does, changes the price of a resting order or gives
\* it more shares; an execution reduces only an order nobody is ahead of.
PriorityKept ==
    [][/\ \A x, y \in Survivors :
              ServedBefore(book, x, y) => ServedBefore(book', x, y)
       /\ \A x \in Survivors :
              /\ book'.orderMap[x].Price = book.orderMap[x].Price
              /\ book'.orderMap[x].Shares <= book.orderMap[x].Shares
              /\ book'.orderMap[x].Shares < book.orderMap[x].Shares =>
                    \A y \in DOMAIN book.orderMap : ~ServedBefore(book, y, x)]_book

\* An id that enters the book was never handed out before, to this symbol or
\* to another: an order that left the book never comes back.
FreshIds ==
    [][\A id \in DOMAIN book'.orderMap \ DOMAIN book.orderMap :
           id > orderIDCounter]_vars

\* What sort.Slice may return: the levels rearranged, none before a better
\* one.
Rearranged(s) == {[i \in DOMAIN s |-> s[f[i]]] : f \in Bijection(DOMAIN s, DOMAIN s)}

NoInversion(s, descending) ==
    \A i, k \in DOMAIN s : i < k => ~Better(s[k].Price, s[i].Price, descending)

SortsOf(s, descending) == {t \in Rearranged(s) : NoInversion(t, descending)}

\* addToSide appends the new level and sorts all of them; the model inserts it
\* at its place.  On every reachable side, and for every price that has no
\* level, the insertion is the one result the sort can have (sort.Slice in
\* addToSide).
InsertIsSort ==
    \A side \in Sides, p \in 1 .. MaxPrice + AddTicks :
        LET levels   == book.levels[side]
            newLevel == [Price |-> p, Orders |-> <<MaxOrderID + 1>>]
        IN  ~HasPrice(levels, p) =>
                SortsOf(Append(levels, newLevel), side = SideBuy)
                  = {InsertAt(levels, SortedPosition(levels, p, side = SideBuy), newLevel)}

-----------------------------------------------------------------------------
(* The abstract specification.                                             *)

\* The book as PriceTimeBook sees it.
QueueOf(levels) == [p \in {levels[i].Price : i \in DOMAIN levels} |->
                        levels[LevelOf(levels, p)].Orders]

\* Above every price: of a seeded order, of one that is placed, and of one that
\* was replaced as often as there are ids.
HighestPrice ==
    MaxPrice + MaxLevels + AddTicks + ReplenishTicks + MaxOrderID * ReplaceTicks

Abstract == INSTANCE PriceTimeBook WITH
    queue  <- [side \in Sides |-> QueueOf(book.levels[side])],
    lots   <- [id \in DOMAIN book.orderMap |-> book.orderMap[id].Shares],
    lastID <- orderIDCounter,
    Prices <- 1 .. HighestPrice,
    Ids    <- 1 .. MaxOrderID,
    Lots   <- 1 .. MaxLots

\* Every handler of the simulator, run on sorted and trimmed arrays, is a step
\* of the abstract price-time priority book: eviction drops exactly the worst
\* price, a replacement loses its place, trades hit the front of the best
\* queue (Book's methods as the simulator's handlers call them).
RefinesPriceTimeBook == Abstract!Spec
=============================================================================

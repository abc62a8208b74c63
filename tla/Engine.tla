-------------------------------- MODULE Engine --------------------------------
(***************************************************************************)
(* What the runners share: the random generator (engine/random.go), the    *)
(* market engine (engine/market.go) and, for BLITZ, the stress controller  *)
(* (engine/stress.go), called from the tick loops of cmd/feedsim/main.go.  *)
(*                                                                         *)
(* Every symbol has a runner.  In each turn it regenerates the shocks of   *)
(* all sectors and ticks its own price; MarketEngine.mu is released in     *)
(* between, so another runner can regenerate them again.  RNG.mu protects  *)
(* one draw: Gaussian holds it to take the spare, for each draw and to     *)
(* keep the second value, and never over the whole call, while the market  *)
(* (under its own lock) and the stress controller (under none) call it.    *)
(*                                                                         *)
(* A number is what tells it from the others: the n-th draw that Gaussian  *)
(* makes is n, and a Gaussian value is named by the draw it is scaled      *)
(* from.  The draws of Simulator.Step and of the controller fall between   *)
(* those of Gaussian and change none of these names: they are left out.    *)
(* Which way a price moves, and whether a pair of draws falls inside the   *)
(* unit circle, is then any choice.  Intensities are tenths, prices are    *)
(* ticks and durations are units of some seconds.                          *)
(***************************************************************************)
EXTENDS Integers, Sequences, FiniteSets

CONSTANTS
    Symbols,            \* the symbols that tick at a fixed interval
    Blitz,              \* the stress symbol
    Sectors,            \* symbol.Sectors(): a sequence
    SectorOf,           \* symbol -> its sector
    StressConfig,       \* phase -> [min, max], the tick interval in milliseconds
    Lasts,              \* phase -> the durations randomDuration can return
    RawIntensity,       \* values of sine wave plus random walk, before the clamp
    MaxPrice,           \* bound: the highest price, in ticks
    MaxPause,           \* bound: units of time between two ticks of the controller
    MaxTurns,           \* bound: turns of the runners' loops, in all
    MaxRetries          \* bound: pairs of draws that Gaussian rejects, in all

Runners == Symbols \cup {Blitz}
Phases  == {"calm", "active", "burst"}
Nobody  == "nobody"

ASSUME EngineAssumption ==
    /\ Blitz \notin Symbols
    /\ Nobody \notin Runners
    /\ Sectors \in Seq(STRING) /\ Sectors # <<>>
    /\ \A r \in Runners : \E i \in DOMAIN Sectors : Sectors[i] = SectorOf[r]
    /\ \A p \in Phases : /\ StressConfig[p].max \in Nat
                         /\ StressConfig[p].min \in 1 .. StressConfig[p].max
                         /\ Lasts[p] \subseteq Nat \ {0}
    /\ RawIntensity \subseteq Int
    /\ MaxPrice \in Nat \ {0}
    /\ MaxPause \in Nat /\ MaxTurns \in Nat /\ MaxRetries \in Nat

VARIABLES
    draws,              \* RNG.state: how many draws Gaussian has made
    spare,              \* RNG.spare, or 0 when hasSpare is false
    lock,               \* the runner that holds MarketEngine.mu, or Nobody
    sectorShocks,       \* MarketEngine.sectorShocks: sector -> value
    todo,               \* index of the sector GenerateSectorShocks is at
    prices,             \* MarketEngine.prices
    at,                 \* runner -> where its loop is
    call,               \* runner -> the call of Gaussian it is in
    stress,             \* the fields of StressController, and what Tick returned
    turns,              \* history: turns begun
    retries,            \* history: pairs of draws rejected
    given,              \* history: the values Gaussian returned
    calls,              \* history: how many it returned
    ticks,              \* history: runner -> ticks of its price
    seen                \* history: runner -> sector shocks its price ticked with

rng     == <<draws, spare, retries, given, calls>>
market  == <<lock, sectorShocks, todo, prices, ticks, seen>>
vars    == <<rng, market, at, call, stress, turns>>

Idle   == [pc |-> "none", u |-> 0, v |-> 0]
Called == [pc |-> "take", u |-> 0, v |-> 0]

Places == {"idle", "controller", "spike", "toShocks", "shocks", "toTick", "tick", "step"}

\* NewRNG, NewMarketEngine and NewStressController; no sector has a shock yet.
Init ==
    /\ draws = 0 /\ spare = 0
    /\ lock = Nobody /\ todo = 1
    /\ sectorShocks = [i \in DOMAIN Sectors |-> 0]
    /\ prices = [r \in Runners |-> 1]
    /\ at = [r \in Runners |-> "idle"]
    /\ call = [r \in Runners |-> Idle]
    /\ \E d \in Lasts["calm"] :
           stress = [phase |-> "calm", age |-> 0, duration |-> d, intensity |-> 0,
                     interval |-> StressConfig["calm"].max, numActions |-> 1]
    /\ turns = 0 /\ retries = 0 /\ given = {} /\ calls = 0
    /\ ticks = [r \in Runners |-> 0] /\ seen = [r \in Runners |-> {}]

-----------------------------------------------------------------------------
(* RNG.Gaussian, one action per section under RNG.mu.  Returns(r, x) is    *)
(* what the caller does with the value x, further down.                    *)

\* The controller adds x to its random walk.
ControllerUses(r, x) ==
    /\ at[r] = "controller"
    /\ at' = [at EXCEPT ![r] = "spike"]
    /\ call' = [call EXCEPT ![r] = Idle]
    /\ UNCHANGED market

\* Mutant: the lock is still held when GenerateSectorShocks returns.
ShocksUseKeepLock(r, x) ==
    /\ at[r] = "shocks"
    /\ sectorShocks' = [sectorShocks EXCEPT ![todo] = x]
    /\ IF todo < Len(Sectors)
       THEN /\ todo' = todo + 1
            /\ call' = [call EXCEPT ![r] = Called]
            /\ UNCHANGED at
       ELSE /\ todo' = 1
            /\ call' = [call EXCEPT ![r] = Idle]
            /\ at' = [at EXCEPT ![r] = "toTick"]
    /\ UNCHANGED <<lock, prices, ticks, seen>>

\* GenerateSectorShocks stores x for one sector and goes on to the next.
ShocksUse(r, x) ==
    /\ at[r] = "shocks"
    /\ sectorShocks' = [sectorShocks EXCEPT ![todo] = x]
    /\ IF todo < Len(Sectors)
       THEN /\ todo' = todo + 1
            /\ call' = [call EXCEPT ![r] = Called]
            /\ UNCHANGED <<at, lock>>
       ELSE /\ todo' = 1 /\ lock' = Nobody
            /\ call' = [call EXCEPT ![r] = Idle]
            /\ at' = [at EXCEPT ![r] = "toTick"]
    /\ UNCHANGED <<prices, ticks, seen>>

\* A price that was snapped to the tick size is kept at one tick at least.
Floored(price) == IF price < 1 THEN 1 ELSE price

\* The shock of the runner's sector.
ShockOf(r) == sectorShocks[CHOOSE i \in DOMAIN Sectors : Sectors[i] = SectorOf[r]]

\* Tick blends the sector's shock with x, which takes the price to any whole
\* number of ticks, where it was included, and none at all before the floor.
TickUses(r, x) ==
    /\ at[r] = "tick"
    /\ \E price \in 0 .. MaxPrice : prices' = [prices EXCEPT ![r] = Floored(price)]
    /\ lock' = Nobody
    /\ at' = [at EXCEPT ![r] = "step"]
    /\ call' = [call EXCEPT ![r] = Idle]
    /\ ticks' = [ticks EXCEPT ![r] = @ + 1]
    /\ seen' = [seen EXCEPT ![r] = @ \cup {ShockOf(r)}]
    /\ UNCHANGED <<sectorShocks, todo>>

Returns(r, x) ==
    /\ given' = given \cup {x}
    /\ calls' = calls + 1
    /\ ControllerUses(r, x) \/ ShocksUse(r, x) \/ TickUses(r, x)
    /\ UNCHANGED <<stress, turns>>

\* Mutant: the spare is returned and stays there.
TakeSpareKeeps(r) ==
    /\ call[r].pc = "take" /\ spare # 0
    /\ Returns(r, spare)
    /\ UNCHANGED <<draws, retries, spare>>

\* hasSpare: the spare is the value and there is none any more.
TakeSpare(r) ==
    /\ call[r].pc = "take" /\ spare # 0
    /\ spare' = 0
    /\ Returns(r, spare)
    /\ UNCHANGED <<draws, retries>>

NoSpare(r) ==
    /\ call[r].pc = "take" /\ spare = 0
    /\ call' = [call EXCEPT ![r].pc = "u"]
    /\ UNCHANGED <<rng, market, at, stress, turns>>

\* Float64, that is Uint32, for u and then for v.
DrawU(r) ==
    /\ call[r].pc = "u"
    /\ draws' = draws + 1
    /\ call' = [call EXCEPT ![r].pc = "v", ![r].u = draws + 1]
    /\ UNCHANGED <<spare, retries, given, calls, market, at, stress, turns>>

\* s = u*u + v*v lies in (0, 1) and the loop ends, or the loop goes on.
DrawV(r) ==
    /\ call[r].pc = "v"
    /\ draws' = draws + 1
    /\ \/ /\ call' = [call EXCEPT ![r].pc = "keep", ![r].v = draws + 1]
          /\ UNCHANGED retries
       \/ /\ retries < MaxRetries
          /\ call' = [call EXCEPT ![r].pc = "u"]
          /\ retries' = retries + 1
    /\ UNCHANGED <<spare, given, calls, market, at, stress, turns>>

\* The second value becomes the spare, over one that another caller may have
\* left there meanwhile, and the first one is returned.
KeepSpare(r) ==
    /\ call[r].pc = "keep"
    /\ spare' = call[r].v
    /\ Returns(r, call[r].u)
    /\ UNCHANGED <<draws, retries>>

Gaussian(r) == TakeSpare(r) \/ NoSpare(r) \/ DrawU(r) \/ DrawV(r) \/ KeepSpare(r)

-----------------------------------------------------------------------------
(* StressController.                                                       *)

\* Mutant: the random walk carries the intensity out of [0, 1].
ClampNot(x) == x

\* The intensity is kept in [0, 1].
Clamp(x) == IF x < 0 THEN 0 ELSE IF x > 10 THEN 10 ELSE x

\* updatePhase: the phase for an intensity.
updatePhase(intensity) ==
    IF intensity < 3 THEN "calm" ELSE IF intensity < 7 THEN "active" ELSE "burst"

\* ms as a whole number of milliseconds, at least one.
Interval(phase, intensity) ==
    LET c  == StressConfig[phase]
        ms == (c.max * 10 - (c.max - c.min) * intensity) \div 10
    IN  IF ms < 1 THEN 1 ELSE ms

NumActions(phase, intensity) ==
    CASE phase = "calm"   -> 1 + intensity \div 10
      [] phase = "active" -> 3 + (intensity * 2) \div 10
      [] phase = "burst"  -> 5 + (intensity * 5) \div 10

\* The rest of StressController.Tick, after its Gaussian: the mega-spike, and
\* a new phase once the present one has lasted.
StressTick ==
    /\ at[Blitz] = "spike"
    /\ \E raw \in RawIntensity, spike \in BOOLEAN, pause \in 0 .. MaxPause :
           LET intensity == IF spike THEN 10 ELSE Clamp(raw)
               elapsed   == stress.age + pause
               over      == elapsed >= stress.duration
               phase     == IF over THEN updatePhase(intensity) ELSE stress.phase
           IN  \E d \in IF over THEN Lasts[phase] ELSE {stress.duration} :
                   stress' = [phase |-> phase, age |-> IF over THEN 0 ELSE elapsed,
                              duration |-> d, intensity |-> intensity,
                              interval |-> Interval(phase, intensity),
                              numActions |-> NumActions(phase, intensity)]
    /\ at' = [at EXCEPT ![Blitz] = "toShocks"]
    /\ UNCHANGED <<rng, market, call, turns>>

-----------------------------------------------------------------------------
(* The loops of symbolRunner and stressRunner.                             *)

\* The ticker fires, or time.Sleep is over.
Wake(r) ==
    /\ at[r] = "idle" /\ turns < MaxTurns
    /\ turns' = turns + 1
    /\ at' = [at EXCEPT ![r] = IF r = Blitz THEN "controller" ELSE "toShocks"]
    /\ call' = [call EXCEPT ![r] = IF r = Blitz THEN Called ELSE Idle]
    /\ UNCHANGED <<rng, market, stress>>

\* Mutant: the shocks are generated by the first runner only.
GenerateSectorShocksOnce(r) ==
    /\ at[r] = "toShocks" /\ lock = Nobody
    /\ IF \E i \in DOMAIN Sectors : sectorShocks[i] = 0
       THEN /\ lock' = r
            /\ at' = [at EXCEPT ![r] = "shocks"]
            /\ call' = [call EXCEPT ![r] = Called]
       ELSE /\ at' = [at EXCEPT ![r] = "toTick"]
            /\ UNCHANGED <<lock, call>>
    /\ UNCHANGED <<rng, sectorShocks, todo, prices, ticks, seen, stress, turns>>

\* GenerateSectorShocks takes the lock and calls Gaussian for its first
\* sector.
GenerateSectorShocks(r) ==
    /\ at[r] = "toShocks" /\ lock = Nobody
    /\ lock' = r
    /\ at' = [at EXCEPT ![r] = "shocks"]
    /\ call' = [call EXCEPT ![r] = Called]
    /\ UNCHANGED <<rng, sectorShocks, todo, prices, ticks, seen, stress, turns>>

\* MarketEngine.Tick up to its call of Gaussian.
Tick(r) ==
    /\ at[r] = "toTick" /\ lock = Nobody
    /\ lock' = r
    /\ at' = [at EXCEPT ![r] = "tick"]
    /\ call' = [call EXCEPT ![r] = Called]
    /\ UNCHANGED <<rng, sectorShocks, todo, prices, ticks, seen, stress, turns>>

\* The rest of the turn: Simulator.Step is in Simulator, enqueueTrades in
\* Recovery and Broadcast in Session.
Step(r) ==
    /\ at[r] = "step"
    /\ at' = [at EXCEPT ![r] = "idle"]
    /\ UNCHANGED <<rng, market, call, stress, turns>>

-----------------------------------------------------------------------------

Runner(r) == Wake(r) \/ GenerateSectorShocks(r) \/ Tick(r) \/ Step(r) \/ Gaussian(r)
                \/ (r = Blitz /\ StressTick)

Next == \E r \in Runners : Runner(r)

Spec == Init /\ [][Next]_vars

\* The Go scheduler runs every goroutine that can run.
FairSpec == Spec /\ \A r \in Runners : WF_vars(Runner(r))

-----------------------------------------------------------------------------
(* Properties.                                                             *)

\* Gaussian never returns a value twice, although its caller does not hold
\* the generator's lock from the look at hasSpare to the return: no two calls
\* share a spare, and a spare overwritten by another is simply lost.
DeviatesOnce == Cardinality(given) = calls

\* A price never moves twice by the same sector shock, however the runners
\* are interleaved between GenerateSectorShocks and Tick, and never by none.
FreshShocks ==
    \A r \in Runners : Cardinality(seen[r]) = ticks[r] /\ 0 \notin seen[r]

\* What the engine hands to a Step is in the range that the simulator is
\* built for: a price of at least one tick and, for BLITZ, an interval and a
\* number of actions of the current phase, which has not outlived its time.
InputsInRange ==
    /\ \A r \in Runners : prices[r] >= 1
    /\ stress.interval \in StressConfig[stress.phase].min .. StressConfig[stress.phase].max
    /\ stress.numActions \in CASE stress.phase = "calm"   -> 1 .. 2
                               [] stress.phase = "active" -> 3 .. 5
                               [] stress.phase = "burst"  -> 5 .. 10
    /\ stress.age < stress.duration

\* Every turn of a runner comes to its end: with the market's lock held over
\* calls that take the generator's lock, nobody waits for ever.
TickReturns == \A r \in Runners : at[r] # "idle" ~> at[r] = "idle"
=============================================================================

------------------------------ MODULE RateCard ------------------------------
(* The rate card: a vendored card, an override fetched from a catalog that   *)
(* may serve anything, and the card readers price with.  Several requests    *)
(* ask for a refresh at once, the refresh runs in a thread of its own, and a *)
(* reader takes the override's stamp before it reads the file.               *)
EXTENDS Naturals, FiniteSets

CONSTANTS
  Model,            \* model names
  ProviderOf,       \* ProviderOf[m]
  VendoredRate,     \* vendored card: model -> rate, 0 when it has none
  Catalogs,         \* what the catalog may serve: cards, by name
  MinModels,        \* fewest models a catalog may list
  RateFactor,       \* _MAX_RATE_FACTOR
  Asker, Interval, RetryAfter, MaxTime

\* Rates are not negative, and the factor moves no rate out of its own range.
ASSUME RateAssumption ==
  /\ VendoredRate \in [Model -> Nat] /\ RateFactor \in Nat \ {0} /\ RetryAfter \in Nat
  /\ \A c \in DOMAIN Catalogs : \A m \in DOMAIN Catalogs[c] : Catalogs[c][m] \in Nat

VARIABLES
  time,
  override,         \* the override on file: its card and when it was fetched
  fetchers,         \* refresh threads: what each holds
  threadSet,        \* self._thread is set
  notBefore,
  ask,              \* asker -> how far its maybe_refresh is
  lastStart,        \* when the last refresh began
  read,             \* a reader: the stamp it took
  layeredCache,     \* stamp -> the card cached for it
  pricedWith            \* the card the last reader priced with

rateVars == <<time, override, fetchers, threadSet, notBefore, ask, lastStart, read, layeredCache, pricedWith>>

Broken == [m \in {} |-> 0]      \* a catalog that does not parse
NoOverride == [at |-> 0, card |-> Broken]
Priced(card) == {m \in DOMAIN card : card[m] # 0}
Vendored == [m \in Model |-> VendoredRate[m]]

RateInit ==
  /\ time = 1 /\ override = NoOverride /\ fetchers = {} /\ threadSet = FALSE /\ notBefore = 0
  /\ ask = [a \in Asker |-> "idle"] /\ lastStart = 0
  /\ read = [pc |-> "idle"] /\ layeredCache = [s \in {} |-> Vendored] /\ pricedWith = Vendored

RateTick ==
  /\ time < MaxTime /\ time' = time + 1
  /\ UNCHANGED <<override, fetchers, threadSet, notBefore, ask, lastStart, read, layeredCache, pricedWith>>

-----------------------------------------------------------------------------
(* maybe_refresh: a look under the lock, the due check outside it, a second  *)
(* look under the lock.                                                      *)
MayStart == ~threadSet /\ time >= notBefore
PeriodicDue == override = NoOverride \/ time - override.at > Interval
\* Models the effective card cannot price are due at once.
FirstLook(a, unpriced) ==
  /\ ask[a] = "idle" /\ MayStart /\ (unpriced \/ PeriodicDue)
  /\ ask' = [ask EXCEPT ![a] = "due"]
  /\ UNCHANGED <<time, override, fetchers, threadSet, notBefore, lastStart, read, layeredCache, pricedWith>>
SecondLook == MayStart
StartsRefresh(a) ==
  /\ ask[a] = "due" /\ ask' = [ask EXCEPT ![a] = "idle"]
  /\ IF SecondLook
     THEN /\ notBefore' = time + RetryAfter /\ threadSet' = TRUE /\ lastStart' = time
          /\ fetchers' = fetchers \cup {[id |-> a, began |-> time, catalog |-> "none"]}
     ELSE UNCHANGED <<notBefore, threadSet, lastStart, fetchers>>
  /\ UNCHANGED <<time, override, read, layeredCache, pricedWith>>

-----------------------------------------------------------------------------
(* refresh_override *)
Fetches(f, c) ==
  /\ f.catalog = "none" /\ fetchers' = (fetchers \ {f}) \cup {[f EXCEPT !.catalog = c]}
  /\ UNCHANGED <<time, override, threadSet, notBefore, ask, lastStart, read, layeredCache, pricedWith>>

RateJump(card) ==
  \E m \in Priced(card) \cap Priced(Vendored) :
    card[m] > RateFactor * Vendored[m] \/ Vendored[m] > RateFactor * card[m]
\* Mutant: moved rates are not looked at.
LostOnly(card) ==
  {ProviderOf[m] : m \in Priced(card)} # {ProviderOf[m] : m \in Model} \/ Cardinality(Priced(card)) < MinModels
Suspicion(card) ==
  \/ {ProviderOf[m] : m \in Priced(card)} # {ProviderOf[m] : m \in Model}
  \/ Cardinality(Priced(card)) < MinModels
  \/ RateJump(card)
\* A failed or refused fetch leaves the file alone; the thread slot is freed either way.
EndsRefresh(f) ==
  LET card == Catalogs[f.catalog] IN
  /\ f.catalog # "none" /\ fetchers' = fetchers \ {f} /\ threadSet' = FALSE
  /\ override' = IF f.catalog = "down" \/ card = Broken \/ Suspicion(card) THEN override
                 ELSE [at |-> time, card |-> card]
  /\ UNCHANGED <<time, notBefore, ask, lastStart, read, layeredCache, pricedWith>>

-----------------------------------------------------------------------------
(* load_effective_rate_card *)
Layered(o) ==
  IF o.card = Broken THEN Vendored
  ELSE [m \in Model |-> IF m \in Priced(o.card) THEN o.card[m] ELSE Vendored[m]]
\* A stray write leaves a file that does not parse, under a stamp of its own.
DamagesOverride ==
  /\ override # NoOverride /\ override.card # Broken /\ override' = [at |-> override.at, card |-> Broken]
  /\ UNCHANGED <<time, fetchers, threadSet, notBefore, ask, lastStart, read, layeredCache, pricedWith>>
Stamp(o) == <<o.at, o.card = Broken>>
TakesStamp ==
  /\ read.pc = "idle" /\ read' = [pc |-> "read", stamp |-> Stamp(override)]
  /\ UNCHANGED <<time, override, fetchers, threadSet, notBefore, ask, lastStart, layeredCache, pricedWith>>
LoadsCard ==
  LET card == IF read.stamp \in DOMAIN layeredCache THEN layeredCache[read.stamp]
              ELSE IF read.stamp = Stamp(NoOverride) THEN Vendored ELSE Layered(override)
  IN
  /\ read.pc = "read" /\ read' = [pc |-> "idle"] /\ pricedWith' = card
  /\ layeredCache' = [s \in DOMAIN layeredCache \cup {read.stamp} |-> IF s = read.stamp THEN card ELSE layeredCache[s]]
  /\ UNCHANGED <<time, override, fetchers, threadSet, notBefore, ask, lastStart>>

RateNext ==
  \/ RateTick \/ DamagesOverride \/ TakesStamp \/ LoadsCard
  \/ \E a \in Asker : StartsRefresh(a) \/ \E unpriced \in BOOLEAN : FirstLook(a, unpriced)
  \/ \E f \in fetchers : EndsRefresh(f) \/ \E c \in DOMAIN Catalogs : Fetches(f, c)

RateSpec == RateInit /\ [][RateNext]_rateVars

-----------------------------------------------------------------------------
(* Whatever the catalog serves, a reader prices every vendored model, and    *)
(* never at a rate moved by more than the factor: a bad fetch prices nothing *)
(* and a damaged override falls back to the vendored card.                   *)
PricedInRange(m) ==
  /\ m \in Priced(pricedWith)
  /\ pricedWith[m] <= RateFactor * Vendored[m] /\ Vendored[m] <= RateFactor * pricedWith[m]

(* At most one refresh runs, and the next begins no sooner than RetryAfter   *)
(* later, however many requests found one due at the same moment.            *)
OneRefresh ==
  [][lastStart' # lastStart => fetchers = {} /\ (lastStart = 0 \/ time - lastStart >= RetryAfter)]_rateVars

\* No fetch and no crowd of askers upsets the card: readers price every model
\* within the factor and one refresh runs at a time (refresh_rate_card,
\* maybe_refresh).
RatesStand == [](\A m \in Priced(Vendored) : PricedInRange(m)) /\ OneRefresh
=============================================================================

--------------------------- MODULE AggregationProof ---------------------------
(***************************************************************************)
(* Theorems about Aggregation for any items, payments, rates and queries.  *)
(*                                                                         *)
(* Rates.  A rate a query has in hand was found in a row or pulled from    *)
(* the bank.  A row comes from a rate in hand, so each is as published if  *)
(* the other is: RatesInv says it of both, and of the rate between two.    *)
(*                                                                         *)
(* Answers.  TotalsInv says of every query what it has read, at which      *)
(* moment since it was asked, and that the value it has for each item is   *)
(* the metric of that item alone.  That the values reduce to the metric of *)
(* all items, in whatever order they come, is a fact about sums, minima    *)
(* and maxima over finite sets, proved first by induction on cardinality.  *)
(***************************************************************************)
EXTENDS Aggregation, FiniteSetTheorems, WellFoundedInduction, TLAPS

\* Each row is the rate of its currency and day.
RowsPublished ==
  \A row \in rates :
    /\ <<row.fromCurrency, row.date>> \in DOMAIN Published
    /\ row.rate = Published[<<row.fromCurrency, row.date>>]

\* What the steps of a query leave alone.
Fields == {"step", "ask", "todo", "got", "pulled"}

RateAsked(s) == s.ask.view = "rate"

AskNames(s) ==
  RateAsked(s) => {s.ask.dto.fromCurrency, s.ask.dto.toCurrency} \subseteq Currencies

\* The keys of the rates a query s is about.
KeysOf(s) == s.todo \cup DOMAIN s.got

KeysArePairs(s) == \A k \in KeysOf(s) : k = <<k[1], k[2]>>

(* What is in hand for key k: nothing (0), or the rate published.  Of an     *)
(* undefined currency a query finds any rate of the day.                     *)
InHand(s, k) ==
  k[1] # NoCurrency =>
    s.got[k] = 0 \/ (k \in DOMAIN Published /\ s.got[k] = Published[k])

GotPublished(s) == \A k \in DOMAIN s.got : InHand(s, k)

PulledPublished(s) ==
  s.pulled = <<>> \/ \E key \in DOMAIN Published :
                       key = <<key[1], key[2]>> /\ s.pulled = <<key, Published[key]>>

(* A query for a rate gathers what its quotient needs, and answers with it.  *)
RateAnswer(s) ==
  RateAsked(s) =>
    /\ s.step \in {"rates", "answered", "error"}
    /\ s.step = "rates" => DerivativeKeys({s.ask.dto}) \subseteq KeysOf(s)
    /\ s.step = "answered" =>
         s.answer["rate"] =
           PublishedRate(s.ask.dto.fromCurrency, s.ask.dto.toCurrency, s.ask.dto.date)

UnderWay(s) ==
  /\ Fields \subseteq DOMAIN s
  /\ AskNames(s)
  /\ KeysArePairs(s)
  /\ GotPublished(s)
  /\ PulledPublished(s)
  /\ RateAnswer(s)

\* Let TLC check that it is invariant before it is proved.
RatesInv ==
  /\ world \in DOMAIN Worlds
  /\ DOMAIN query = Query
  /\ RowsPublished
  /\ \A q \in Query : ~At(q, "idle") => UnderWay(query[q])

-------------------------------------------------------------------------------
(* The helpers. *)

LEMMA UpdatedIs ==
  ASSUME NEW old, NEW new
  PROVE  /\ DOMAIN Updated(old, new) = DOMAIN old \cup DOMAIN new
         /\ \A x \in DOMAIN new : Updated(old, new)[x] = new[x]
         /\ \A x \in DOMAIN old \ DOMAIN new : Updated(old, new)[x] = old[x]
  BY DEF Updated

LEMMA KeysNeeded ==
  ASSUME NEW dto
  PROVE  /\ \A k \in DerivativeKeys({dto}) : k = <<k[1], k[2]>>
         /\ \A c \in {dto.fromCurrency, dto.toCurrency} :
              c # BYN /\ dto.fromCurrency # dto.toCurrency =>
                <<c, dto.date>> \in DerivativeKeys({dto})
  <1>1. \A k \in DerivativeKeys({dto}) : k = <<k[1], k[2]>>
    BY DEF DerivativeKeys
  <1>2. ASSUME NEW c \in {dto.fromCurrency, dto.toCurrency},
               c # BYN, dto.fromCurrency # dto.toCurrency
        PROVE  <<c, dto.date>> \in DerivativeKeys({dto})
    BY <1>2 DEF DerivativeKeys
  <1> QED
    BY <1>1, <1>2

LEMMA KeysRequired ==
  ASSUME NEW dtos
  PROVE  \A k \in DerivativeKeys(dtos) : k = <<k[1], k[2]>>
  BY DEF DerivativeKeys

(* A row found for a currency that is given holds the rate published for     *)
(* the key.                                                                  *)
LEMMA FoundIsPublished ==
  ASSUME RowsPublished, NEW keys, NEW f \in Fillings(keys), NEW k \in keys,
         k = <<k[1], k[2]>>, k[1] # NoCurrency
  PROVE  f[k] = 0 \/ (k \in DOMAIN Published /\ f[k] = Published[k])
  <1>1. CASE FoundRates(k[1], k[2]) = {}
    BY <1>1 DEF Fillings
  <1>2. CASE FoundRates(k[1], k[2]) # {}
    <2>1. f[k] \in FoundRates(k[1], k[2])
      BY <1>2 DEF Fillings
    <2>2. PICK row \in rates : /\ row.date = k[2] /\ row.fromCurrency = k[1]
                               /\ f[k] = row.rate
      BY <2>1 DEF FoundRates
    <2>3. <<row.fromCurrency, row.date>> = k
      BY <2>2
    <2> QED
      BY <2>2, <2>3 DEF RowsPublished
  <1> QED
    BY <1>1, <1>2

LEMMA FillingsAreMaps ==
  ASSUME NEW keys, NEW f \in Fillings(keys) PROVE DOMAIN f = keys
  BY DEF Fillings

(* With nothing missing, the quotient is that of the published rates.        *)
LEMMA QuotientPublished ==
  ASSUME NEW q \in Query, UnderWay(query[q]), RateAsked(query[q]), Gathered(q)
  PROVE  LET dto == query[q].ask.dto
         IN  Quotient(dto, query[q].got)
               = PublishedRate(dto.fromCurrency, dto.toCurrency, dto.date)
  <1> DEFINE s == query[q]
             dto == s.ask.dto
  <1>1. \A k \in DOMAIN s.got : s.got[k] # 0
    BY DEF Gathered, Missing
  <1>2. DerivativeKeys({dto}) \subseteq DOMAIN s.got
    BY DEF UnderWay, RateAnswer, KeysOf, Gathered, At
  <1>3. ASSUME NEW c \in {dto.fromCurrency, dto.toCurrency},
               c # BYN, dto.fromCurrency # dto.toCurrency
        PROVE  s.got[<<c, dto.date>>] = Published[<<c, dto.date>>]
    <2> DEFINE k == <<c, dto.date>>
    <2>1. k \in DOMAIN s.got
      BY <1>2, <1>3, KeysNeeded
    <2>2. k[1] # NoCurrency
      BY CurrenciesKnown DEF UnderWay, AskNames
    <2>3. InHand(s, k)
      BY <2>1 DEF UnderWay, GotPublished
    <2> QED
      BY <1>1, <2>1, <2>2, <2>3 DEF InHand
  <1> HIDE DEF dto, s
  <1>4. Quotient(dto, s.got) = PublishedRate(dto.fromCurrency, dto.toCurrency, dto.date)
    BY <1>3 DEF Quotient, PublishedRate
  <1> QED
    BY <1>4 DEF dto, s

-------------------------------------------------------------------------------
(* Queries other than q stay as they are, and no row is written.             *)
LEMMA OneQuery ==
  ASSUME RatesInv, NEW q \in Query, NEW t, query' = [query EXCEPT ![q] = t],
         UNCHANGED world, RowsPublished', t.step # "idle" => UnderWay(t)
  PROVE  RatesInv'
  <1>1. \A p \in Query : query'[p] = IF p = q THEN t ELSE query[p]
    BY DEF RatesInv
  <1>2. DOMAIN query' = Query
    BY DEF RatesInv
  <1>3. ASSUME NEW p \in Query, ~At(p, "idle")' PROVE UnderWay(query'[p])
    <2>1. CASE p = q
      BY <1>1, <1>3, <2>1 DEF At
    <2>2. CASE p # q
      <3>1. query'[p] = query[p]
        BY <1>1, <2>2
      <3>2. ~At(p, "idle")
        BY <1>3, <3>1 DEF At
      <3> QED
        BY <3>1, <3>2 DEF RatesInv
    <2> QED
      BY <2>1, <2>2
  <1> QED
    BY <1>2, <1>3 DEF RatesInv
(* The steps of a query that leave its rates alone. *)

(* changed touches none of what a query knows of rates, or answers it.       *)
Aside(q, changed) ==
  /\ DOMAIN changed \cap {"ask", "todo", "got", "pulled"} = {}
  /\ RateAsked(query[q]) => RateAnswer(Updated(query[q], changed))

LEMMA AsideKeeps ==
  ASSUME RatesInv, NEW q \in Query, NEW changed, ~At(q, "idle"),
         Steps(q, changed), UNCHANGED rates, Aside(q, changed)
  PROVE  RatesInv'
  <1> DEFINE s == query[q]
             t == Updated(s, changed)
  <1>1. UnderWay(s)
    BY DEF RatesInv
  <1>2. t.ask = s.ask /\ t.todo = s.todo /\ t.got = s.got /\ t.pulled = s.pulled
    <2>1. {"ask", "todo", "got", "pulled"} \subseteq DOMAIN s \ DOMAIN changed
      BY <1>1 DEF UnderWay, Fields, Aside
    <2>2. \A x \in DOMAIN s \ DOMAIN changed : t[x] = s[x]
      BY UpdatedIs
    <2> HIDE DEF s, t
    <2>3. t["ask"] = s["ask"] /\ t["todo"] = s["todo"] /\ t["got"] = s["got"]
          /\ t["pulled"] = s["pulled"]
      BY <2>1, <2>2
    <2> QED
      BY <2>3
  <1>3. Fields \subseteq DOMAIN t
    <2>1. DOMAIN t = DOMAIN s \cup DOMAIN changed
      BY DEF Updated
    <2> HIDE DEF s, t
    <2> QED
      BY <1>1, <2>1 DEF UnderWay
  <1>4. query' = [query EXCEPT ![q] = t]
    BY DEF Steps
  <1>5. RateAsked(s) => RateAnswer(t)
    BY DEF Aside
  <1> HIDE DEF s, t
  <1>6. UnderWay(t)
    BY <1>1, <1>2, <1>3, <1>5
       DEF UnderWay, AskNames, RateAsked, KeysArePairs, KeysOf, GotPublished, InHand,
           PulledPublished, RateAnswer
  <1>7. world' = world /\ RowsPublished'
    BY DEF Steps, RatesInv, RowsPublished
  <1> QED
    BY <1>4, <1>6, <1>7, OneQuery

\* For a query that asked for no rate it is enough not to touch them.
LEMMA TotalsAside ==
  ASSUME NEW q, NEW changed, ~RateAsked(query[q]),
         DOMAIN changed \cap {"ask", "todo", "got", "pulled"} = {}
  PROVE  Aside(q, changed)
  BY DEF Aside

\* A query for a rate is nowhere else.
LEMMA RateSteps ==
  ASSUME RatesInv, NEW q \in Query, RateAsked(query[q])
  PROVE  \A step \in {"items", "counted", "load", "workspaces", "currency", "reduce"} :
           ~At(q, step)
  BY DEF RatesInv, UnderWay, RateAnswer, At

LEMMA LoseKeeps ==
  ASSUME RatesInv, NEW q \in Query, ~At(q, "idle"), NEW over, Lose(q, over), UNCHANGED rates
  PROVE  RatesInv'
  <1> DEFINE changed == [step |-> IF query[q].ask.view = "rate" THEN "error" ELSE "reduce",
                         values |-> <<>>, lost |-> over]
             t == Updated(query[q], changed)
  <1>1. Steps(q, changed)
    BY DEF Lose
  <1>2. DOMAIN changed = {"step", "values", "lost"}
    OBVIOUS
  <1>3. ASSUME RateAsked(query[q]) PROVE RateAnswer(t)
    <2>1. t.step = "error"
      BY <1>3 DEF Updated, RateAsked
    <2> QED
      BY <2>1 DEF RateAnswer
  <1>4. Aside(q, changed)
    BY <1>2, <1>3 DEF Aside
  <1> QED
    BY <1>1, <1>4, AsideKeeps

(* The steps of a query for metrics.                                         *)
LEMMA MetricsKeep ==
  ASSUME RatesInv, NEW q \in Query,
         \/ FindItems(q) \/ CountItems(q) \/ Load(q) \/ FindPayments(q)
         \/ FindWorkspaces(q) \/ SumUp(q) \/ Reduce(q)
  PROVE  RatesInv'
  <1>1. ~RateAsked(query[q])
    BY RateSteps DEF FindItems, CountItems, Load, FindPayments, FindWorkspaces, SumUp, Reduce,
       RateAsked
  <1>2. ~At(q, "idle")
    BY DEF FindItems, CountItems, Load, FindPayments, FindWorkspaces, SumUp, Reduce, Gathered, At
  <1>3. UNCHANGED rates
    BY DEF FindItems, CountItems, Load, FindPayments, FindWorkspaces, SumUp, Reduce
  <1>4. ASSUME NEW changed, Steps(q, changed),
               DOMAIN changed \cap {"ask", "todo", "got", "pulled"} = {}
        PROVE  RatesInv'
    BY <1>1, <1>2, <1>3, <1>4, TotalsAside, AsideKeeps
  <1>5. ASSUME NEW step, NEW ids, Steps(q, [ids |-> ids, step |-> step]) PROVE RatesInv'
    BY <1>4, <1>5
  <1>6. ASSUME NEW step, NEW answer, Steps(q, [step |-> step, answer |-> answer])
        PROVE  RatesInv'
    BY <1>4, <1>6
  <1>7. ASSUME NEW step, NEW values, Steps(q, [step |-> step, values |-> values])
        PROVE  RatesInv'
    BY <1>4, <1>7
  <1>8. ASSUME NEW step, NEW found, Steps(q, [step |-> step, found |-> found])
        PROVE  RatesInv'
    BY <1>4, <1>8
  <1>9. ASSUME NEW step, NEW places, Steps(q, [step |-> step, places |-> places])
        PROVE  RatesInv'
    BY <1>4, <1>9
  <1>10. CASE FindItems(q)
    BY <1>5, <1>10 DEF FindItems
  <1>11. CASE CountItems(q)
    BY <1>6, <1>11 DEF CountItems
  <1>12. CASE Load(q)
    BY <1>7, <1>12 DEF Load
  <1>13. CASE FindPayments(q)
    BY <1>7, <1>8, <1>13 DEF FindPayments
  <1>14. CASE FindWorkspaces(q)
    BY <1>9, <1>14 DEF FindWorkspaces
  <1>15. CASE SumUp(q)
    BY <1>7, <1>15 DEF SumUp
  <1>16. CASE Reduce(q)
    BY <1>6, <1>16 DEF Reduce
  <1> QED
    BY <1>10, <1>11, <1>12, <1>13, <1>14, <1>15, <1>16

-------------------------------------------------------------------------------
(* The steps that gather rates. *)

LEMMA AsksKeeps ==
  ASSUME RatesInv, NEW q \in Query, Asks(q) PROVE RatesInv'
  <1>1. PICK ask \in Worlds[world].offered[q] :
          query' = [query EXCEPT ![q] =
                     [step |-> IF ask.view = "rate" THEN "rates" ELSE "items",
                      ask |-> ask, saw |-> {db},
                      todo |-> IF ask.view = "rate" THEN DerivativeKeys({ask.dto}) ELSE {},
                      got |-> <<>>, pulled |-> <<>>, lost |-> "no"]]
    BY DEF Asks
  <1> DEFINE t == [step |-> IF ask.view = "rate" THEN "rates" ELSE "items",
                   ask |-> ask, saw |-> {db},
                   todo |-> IF ask.view = "rate" THEN DerivativeKeys({ask.dto}) ELSE {},
                   got |-> <<>>, pulled |-> <<>>, lost |-> "no"]
  <1>2. Fields \subseteq DOMAIN t
    BY DEF Fields
  <1>3. AskNames(t)
    BY RatesAskName DEF AskNames, RateAsked, RatesInv
  <1>4. DOMAIN t.got = {}
    OBVIOUS
  <1>5. \A k \in t.todo : k = <<k[1], k[2]>>
    BY KeysRequired
  <1>6. KeysArePairs(t) /\ GotPublished(t) /\ PulledPublished(t)
    BY <1>4, <1>5 DEF KeysArePairs, KeysOf, GotPublished, PulledPublished
  <1>7. RateAnswer(t)
    BY DEF RateAnswer, RateAsked, KeysOf
  <1>8. world' = world /\ RowsPublished'
    BY DEF Asks, RatesInv, RowsPublished
  <1>9. query' = [query EXCEPT ![q] = t]
    BY <1>1
  <1> HIDE DEF t
  <1> QED
    BY <1>2, <1>3, <1>6, <1>7, <1>8, <1>9, OneQuery DEF UnderWay

LEMMA GetDefaultCurrencyKeeps ==
  ASSUME RatesInv, NEW q \in Query, GetDefaultCurrency(q) PROVE RatesInv'
  <1> DEFINE s == query[q]
             found == {db.defaults[w] : w \in s.places}
             it == IF found = {} THEN NoCurrency ELSE CHOOSE c \in found : TRUE
             keys == DerivativeKeys(Required(s.found, it))
             t == Updated(s, [step |-> "rates", currency |-> it, todo |-> keys])
  <1>1. ~At(q, "idle") /\ UNCHANGED rates
    BY DEF GetDefaultCurrency, At
  <1>2. CASE Lose(q, "currencies")
    BY <1>1, <1>2, LoseKeeps
  <1>3. CASE Steps(q, [step |-> "rates", currency |-> it, todo |-> keys])
    <2>1. UnderWay(s) /\ ~RateAsked(s)
      BY <1>1, RateSteps DEF RatesInv, GetDefaultCurrency
    <2>2. \A k \in keys : k = <<k[1], k[2]>>
      BY KeysRequired
    <2>3. query' = [query EXCEPT ![q] = t]
      BY <1>3 DEF Steps
    <2>4. world' = world /\ RowsPublished'
      BY <1>1, <1>3 DEF Steps, RatesInv, RowsPublished
    <2> HIDE DEF keys, it, s
    <2>5. DOMAIN t = DOMAIN s \cup {"step", "currency", "todo"}
      BY DEF Updated
    <2>6. t.ask = s.ask /\ t.got = s.got /\ t.pulled = s.pulled /\ t.todo = keys
      BY <2>1 DEF Updated, UnderWay, Fields
    <2> HIDE DEF t
    <2>7. UnderWay(t)
      BY <2>1, <2>2, <2>5, <2>6
         DEF UnderWay, Fields, AskNames, RateAsked, KeysArePairs, KeysOf, GotPublished, InHand,
             PulledPublished, RateAnswer
    <2> QED
      BY <2>3, <2>4, <2>7, OneQuery
  <1> QED
    BY <1>2, <1>3 DEF GetDefaultCurrency

LEMMA FindRatesKeeps ==
  ASSUME RatesInv, NEW q \in Query, FindRates(q) PROVE RatesInv'
  <1> DEFINE s == query[q]
  <1>1. PICK key \in s.todo :
          \E f \in Fillings({k \in s.todo : k[1] = key[1]}) :
            Steps(q, [got |-> Updated(s.got, f),
                      todo |-> s.todo \ {k \in s.todo : k[1] = key[1]}])
    BY DEF FindRates
  <1> DEFINE keys == {k \in s.todo : k[1] = key[1]}
  <1>2. PICK f \in Fillings(keys) :
          Steps(q, [got |-> Updated(s.got, f), todo |-> s.todo \ keys])
    BY <1>1
  <1> DEFINE got == Updated(s.got, f)
             t == Updated(s, [got |-> got, todo |-> s.todo \ keys])
  <1>3. UnderWay(s) /\ s.step = "rates"
    BY DEF RatesInv, FindRates, At
  <1>4. query' = [query EXCEPT ![q] = t] /\ world' = world /\ RowsPublished'
    BY <1>2 DEF Steps, FindRates, RatesInv, RowsPublished
  <1>5. keys \subseteq s.todo
    OBVIOUS
  <1>6. RowsPublished /\ DOMAIN f = keys
    BY FillingsAreMaps DEF RatesInv
  <1> HIDE DEF s, keys
  <1>7. DOMAIN got = DOMAIN s.got \cup keys
    BY <1>6 DEF Updated
  <1>8. \A k \in DOMAIN got : got[k] = IF k \in keys THEN f[k] ELSE s.got[k]
    BY <1>6 DEF Updated
  <1> HIDE DEF got
  <1>9. /\ DOMAIN t = DOMAIN s \cup {"got", "todo"}
        /\ t.ask = s.ask /\ t.pulled = s.pulled /\ t.step = s.step
        /\ t.got = got /\ t.todo = s.todo \ keys
    BY <1>3 DEF Updated, UnderWay, Fields
  <1> HIDE DEF t
  <1>10. KeysOf(t) = KeysOf(s)
    BY <1>5, <1>7, <1>9 DEF KeysOf
  <1>11. \A k \in KeysOf(s) : k = <<k[1], k[2]>>
    BY <1>3 DEF UnderWay, KeysArePairs
  <1>12. ASSUME NEW k \in DOMAIN t.got PROVE InHand(t, k)
    <2>1. CASE k \in keys
      <3>1. k = <<k[1], k[2]>>
        BY <1>5, <1>11, <2>1 DEF KeysOf
      <3>2. k[1] # NoCurrency => f[k] = 0 \/ (k \in DOMAIN Published /\ f[k] = Published[k])
        BY <1>6, <2>1, <3>1, FoundIsPublished
      <3>3. t.got[k] = f[k]
        BY <1>8, <1>9, <1>12, <2>1
      <3> QED
        BY <3>2, <3>3 DEF InHand
    <2>2. CASE k \notin keys
      <3>1. k \in DOMAIN s.got /\ t.got[k] = s.got[k]
        BY <1>7, <1>8, <1>9, <1>12, <2>2
      <3>2. InHand(s, k)
        BY <1>3, <3>1 DEF UnderWay, GotPublished
      <3> QED
        BY <3>1, <3>2 DEF InHand
    <2> QED
      BY <2>1, <2>2
  <1>13. UnderWay(t)
    BY <1>3, <1>9, <1>10, <1>12
       DEF UnderWay, AskNames, RateAsked, KeysArePairs, GotPublished, PulledPublished, RateAnswer
  <1> QED
    BY <1>4, <1>13, OneQuery

LEMMA PullKeeps ==
  ASSUME RatesInv, NEW q \in Query, Pull(q) PROVE RatesInv'
  <1> DEFINE s == query[q]
  <1>1. UnderWay(s) /\ s.step = "rates" /\ ~At(q, "idle") /\ UNCHANGED rates
    BY DEF RatesInv, Pull, At
  <1>2. CASE Lose(q, "bank")
    BY <1>1, <1>2, LoseKeeps
  <1>3. CASE ~Lose(q, "bank")
    <2>1. PICK key \in Missing(q) :
            key \in DOMAIN Published /\ Steps(q, [pulled |-> <<key, Published[key]>>])
      BY <1>3 DEF Pull
    <2> DEFINE t == Updated(s, [pulled |-> <<key, Published[key]>>])
    <2>2. key \in DOMAIN s.got
      BY DEF Missing
    <2>3. key = <<key[1], key[2]>>
      BY <1>1, <2>2 DEF UnderWay, KeysArePairs, KeysOf
    <2>4. query' = [query EXCEPT ![q] = t] /\ world' = world /\ RowsPublished'
      BY <1>1, <2>1 DEF Steps, RatesInv, RowsPublished
    <2> HIDE DEF s
    <2>5. /\ DOMAIN t = DOMAIN s \cup {"pulled"}
          /\ t.ask = s.ask /\ t.got = s.got /\ t.todo = s.todo /\ t.step = s.step
          /\ t.pulled = <<key, Published[key]>>
      BY <1>1 DEF Updated, UnderWay, Fields
    <2> HIDE DEF t
    <2>6. PulledPublished(t)
      BY <2>1, <2>3, <2>5 DEF PulledPublished
    <2>7. UnderWay(t)
      BY <1>1, <2>5, <2>6
         DEF UnderWay, AskNames, RateAsked, KeysArePairs, KeysOf, GotPublished, InHand, RateAnswer
    <2> QED
      BY <2>4, <2>7, OneQuery
  <1> QED
    BY <1>2, <1>3

LEMMA SaveKeeps ==
  ASSUME RatesInv, NEW q \in Query, Save(q) PROVE RatesInv'
  <1> DEFINE s == query[q]
  <1>1. UnderWay(s) /\ s.step = "rates" /\ s.pulled # <<>>
    BY DEF RatesInv, Save, At
  <1>2. PICK key \in DOMAIN Published :
          key = <<key[1], key[2]>> /\ s.pulled = <<key, Published[key]>>
    BY <1>1 DEF UnderWay, PulledPublished
  <1> DEFINE got == [s.got EXCEPT ![key] = Published[key]]
             t == Updated(s, [got |-> got, pulled |-> <<>>])
  <1>3. /\ rates' = rates \cup {Saved(key, Published[key], q)}
        /\ query' = [query EXCEPT ![q] = t] /\ world' = world
    BY <1>2 DEF Save, Steps
  <1>4. RowsPublished'
    <2> DEFINE new == Saved(key, Published[key], q)
    <2>1. <<new.fromCurrency, new.date>> = key /\ new.rate = Published[key]
      BY <1>2 DEF Saved
    <2>2. RowsPublished
      BY DEF RatesInv
    <2> HIDE DEF new
    <2> QED
      BY <1>2, <1>3, <2>1, <2>2 DEF RowsPublished, new
  <1> HIDE DEF s
  <1>5. DOMAIN got = DOMAIN s.got
    OBVIOUS
  <1>6. \A k \in DOMAIN s.got : got[k] = IF k = key THEN Published[key] ELSE s.got[k]
    OBVIOUS
  <1> HIDE DEF got
  <1>7. /\ DOMAIN t = DOMAIN s \cup {"got", "pulled"}
        /\ t.ask = s.ask /\ t.todo = s.todo /\ t.step = s.step
        /\ t.got = got /\ t.pulled = <<>>
    BY <1>1 DEF Updated, UnderWay, Fields
  <1> HIDE DEF t
  <1>8. ASSUME NEW k \in DOMAIN t.got PROVE InHand(t, k)
    <2>1. InHand(s, k)
      BY <1>1, <1>5, <1>7, <1>8 DEF UnderWay, GotPublished
    <2> QED
      BY <1>2, <1>5, <1>6, <1>7, <1>8, <2>1 DEF InHand
  <1>9. UnderWay(t)
    BY <1>1, <1>5, <1>7, <1>8
       DEF UnderWay, AskNames, RateAsked, KeysArePairs, KeysOf, GotPublished, PulledPublished,
           RateAnswer
  <1> QED
    BY <1>3, <1>4, <1>9, OneQuery

LEMMA RateOfKeeps ==
  ASSUME RatesInv, NEW q \in Query, RateOf(q) PROVE RatesInv'
  <1> DEFINE s == query[q]
             dto == s.ask.dto
             changed == [step |-> "answered",
                         answer |-> [x \in {"rate"} |-> Quotient(dto, s.got)]]
             t == Updated(s, changed)
  <1>1. UnderWay(s) /\ RateAsked(s) /\ Gathered(q) /\ ~At(q, "idle") /\ UNCHANGED rates
    BY DEF RatesInv, RateOf, Gathered, At, RateAsked
  <1>2. Steps(q, changed)
    BY DEF RateOf
  <1>3. Quotient(dto, s.got) = PublishedRate(dto.fromCurrency, dto.toCurrency, dto.date)
    BY <1>1, QuotientPublished
  <1>4. t.step = "answered" /\ t.answer["rate"] = Quotient(dto, s.got) /\ t.ask = s.ask
    BY <1>1 DEF Updated, UnderWay, Fields
  <1>5. RateAnswer(t)
    BY <1>3, <1>4 DEF RateAnswer
  <1>6. Aside(q, changed)
    BY <1>5 DEF Aside
  <1> QED
    BY <1>1, <1>2, <1>6, AsideKeeps

LEMMA FinishKeeps ==
  ASSUME RatesInv, NEW q \in Query, Finish(q) PROVE RatesInv'
  <1>1. query' = [query EXCEPT ![q] = Idle] /\ world' = world /\ RowsPublished'
    BY DEF Finish, RatesInv, RowsPublished
  <1>2. Idle.step = "idle"
    BY DEF Idle
  <1> QED
    BY <1>1, <1>2, OneQuery

LEMMA ChangeKeeps ==
  ASSUME RatesInv, NEW after, Change(after) PROVE RatesInv'
  <1>1. world' = world /\ RowsPublished' /\ DOMAIN query' = Query
    BY DEF Change, RatesInv, RowsPublished
  <1>2. ASSUME NEW q \in Query, ~At(q, "idle")' PROVE UnderWay(query'[q])
    <2> DEFINE s == query[q]
               t == [s EXCEPT !.saw = @ \cup {after}]
    <2>1. ~At(q, "idle") /\ query'[q] = t
      BY <1>2 DEF Change, At, Idle
    <2>2. UnderWay(s)
      BY <2>1 DEF RatesInv
    <2> HIDE DEF s
    <2>3. /\ DOMAIN t = DOMAIN s /\ t.step = s.step /\ t.ask = s.ask /\ t.todo = s.todo
          /\ t.got = s.got /\ t.pulled = s.pulled /\ t.answer = s.answer
      OBVIOUS
    <2> HIDE DEF t
    <2> QED
      BY <2>1, <2>2, <2>3
         DEF UnderWay, AskNames, RateAsked, KeysArePairs, KeysOf, GotPublished, InHand,
             PulledPublished, RateAnswer
  <1> QED
    BY <1>1, <1>2 DEF RatesInv

LEMMA InvStart == Init => RatesInv
  <1> SUFFICES ASSUME Init PROVE RatesInv
    OBVIOUS
  <1>1. rates = {} /\ world \in DOMAIN Worlds /\ query = [q \in Query |-> Idle]
    BY DEF Init
  <1>2. Idle.step = "idle"
    BY DEF Idle
  <1> QED
    BY <1>1, <1>2 DEF RatesInv, RowsPublished, At

LEMMA StepKeeps == RatesInv /\ [Next]_vars => RatesInv'
  <1> SUFFICES ASSUME RatesInv, [Next]_vars PROVE RatesInv'
    OBVIOUS
  <1>1. ASSUME NEW q \in Query, Asks(q) \/ Step(q) \/ Finish(q) PROVE RatesInv'
    BY <1>1, AsksKeeps, FinishKeeps, MetricsKeep, GetDefaultCurrencyKeeps, FindRatesKeeps,
       PullKeeps, SaveKeeps, RateOfKeeps DEF Step
  <1>2. CASE Others
    <2>1. PICK after : Change(after)
      BY <1>2 DEF Others, PaymentAdded, PaymentDeleted, ItemDeleted, TagUnassigned,
         CurrencyChanged
    <2> QED
      BY <2>1, ChangeKeeps
  <1>3. CASE UNCHANGED vars
    BY <1>3 DEF vars, RatesInv, RowsPublished, At
  <1> QED
    BY <1>1, <1>2, <1>3 DEF Next

(* The inductive invariant: every row is as published, and so is every rate  *)
(* a query has found, pulled or answered with.                               *)
THEOREM RatesInvariantHolds == Spec => []RatesInv
  <1> QED
    BY InvStart, StepKeeps, PTL DEF Spec

(* Whatever queries pull and save at once, however many save the same rate,  *)
(* every row is the rate the bank published for its currency and day, and    *)
(* every rate answered the quotient of the published ones.  (getMany,        *)
(* pullAndSave)                                                              *)
THEOREM RatesStayAsPublished == Spec => []RatesAsPublished
  <1>1. RatesInv => RatesAsPublished
    BY DEF RatesInv, RatesAsPublished, RowsPublished, UnderWay, RateAnswer, RateAsked, At
  <1> QED
    BY <1>1, RatesInvariantHolds, PTL

-------------------------------------------------------------------------------
(* Sums over finite sets.  The sum of the library goes by whatever element   *)
(* CHOOSE yields; it goes by any.                                            *)

LEMMA LeastNumber ==
  ASSUME NEW T \in SUBSET Nat, T # {}
  PROVE  \E n \in T : \A m \in T : n <= m
  <1>1. PICK n \in T : \A m \in T : ~ (<<m, n>> \in OpToRel(<, Nat))
    BY NatLessThanWellFounded, WFMin
  <1>2. \A m \in T : ~ (m < n)
    BY <1>1 DEF OpToRel
  <1> QED
    BY <1>2

LEMMA Shrinks ==
  ASSUME NEW s, IsFiniteSet(s), NEW x \in s
  PROVE  /\ IsFiniteSet(s \ {x}) /\ Cardinality(s) \in Nat /\ Cardinality(s \ {x}) \in Nat
         /\ Cardinality(s \ {x}) = Cardinality(s) - 1
  BY FS_RemoveElement, FS_CardinalityType

\* What holds of nothing, and of one element more, holds of any finite set.
LEMMA OverFinite ==
  ASSUME NEW S, IsFiniteSet(S), NEW G, {} \in G,
         \A s \in SUBSET S : s \in G => \A x \in S \ s : s \cup {x} \in G
  PROVE  S \in G
  <1> DEFINE T == {n \in Nat : \E s \in SUBSET S : Cardinality(s) = n /\ s \notin G}
  <1>1. ASSUME T # {} PROVE FALSE
    <2>1. PICK n \in T : \A m \in T : n <= m
      BY <1>1, LeastNumber
    <2>2. PICK s \in SUBSET S : Cardinality(s) = n /\ s \notin G
      OBVIOUS
    <2>3. PICK x \in s : TRUE
      BY <2>2
    <2>4. IsFiniteSet(s)
      BY FS_Subset
    <2>5. Cardinality(s \ {x}) \in Nat /\ Cardinality(s \ {x}) = n - 1
      BY <2>2, <2>3, <2>4, Shrinks
    <2>6. s \ {x} \in G
      <3>1. n - 1 < n
        OBVIOUS
      <3>2. n - 1 \notin T
        BY <2>1, <3>1
      <3> QED
        BY <2>5, <3>2
    <2>7. (s \ {x}) \cup {x} = s /\ x \in S \ (s \ {x})
      BY <2>3
    <2> QED
      BY <2>2, <2>6, <2>7
  <1>2. Cardinality(S) \in Nat
    BY FS_CardinalityType
  <1> QED
    BY <1>1, <1>2

Drawn(s) == CHOOSE x \in s : TRUE

\* it holds the sums of f over the subsets of S.
SumTable(f, S, it) ==
  it = [s \in SUBSET S |-> IF s = {} THEN 0 ELSE f[Drawn(s)] + it[s \ {Drawn(s)}]]

LEMMA SumsExist ==
  ASSUME NEW S, IsFiniteSet(S), NEW f
  PROVE  \E it : SumTable(f, S, it)
  <1> DEFINE Small(n) == {s \in SUBSET S : Cardinality(s) <= n}
             Partial(n, g) ==
               g = [s \in Small(n) |-> IF s = {} THEN 0 ELSE f[Drawn(s)] + g[s \ {Drawn(s)}]]
             T == {n \in Nat : \A g : ~Partial(n, g)}
  <1>1. \A s \in SUBSET S : IsFiniteSet(s) /\ Cardinality(s) \in Nat
                            /\ Cardinality(s) <= Cardinality(S)
    BY FS_Subset, FS_CardinalityType
  <1>2. ASSUME NEW n \in Nat, NEW s \in Small(n), s # {}
        PROVE  n > 0 /\ s \ {Drawn(s)} \in Small(n - 1)
    <2>1. Drawn(s) \in s
      BY <1>2 DEF Drawn
    <2>2. Cardinality(s \ {Drawn(s)}) \in Nat /\ Cardinality(s \ {Drawn(s)}) = Cardinality(s) - 1
      BY <1>1, <2>1, Shrinks
    <2> QED
      BY <1>1, <2>2
  <1>3. ASSUME T # {} PROVE FALSE
    <2>1. PICK n \in T : \A m \in T : n <= m
      BY <1>3, LeastNumber
    <2>2. CASE n = 0
      <3> DEFINE g == [s \in Small(n) |-> 0]
      <3>1. \A s \in Small(n) : s = {}
        <4>1. ASSUME NEW s \in Small(n), s # {} PROVE FALSE
          <5>1. n \in Nat /\ n > 0
            BY <1>2, <4>1
          <5> QED
            BY <2>2, <5>1
        <4> QED
          BY <4>1
      <3>2. Partial(n, g)
        BY <3>1
      <3> QED
        BY <3>2
    <2>3. CASE n # 0
      <3>1. n \in Nat /\ n - 1 \in Nat
        BY <2>3
      <3>2. n - 1 \notin T
        <4> HIDE DEF T
        <4>1. ~ (n <= n - 1)
          BY <3>1
        <4> QED
          BY <2>1, <4>1
      <3>3. PICK g : Partial(n - 1, g)
        <4> HIDE DEF Partial
        <4> QED
          BY <3>1, <3>2
      <3> DEFINE h == [s \in Small(n) |-> IF s = {} THEN 0 ELSE f[Drawn(s)] + g[s \ {Drawn(s)}]]
      <3>4. Small(n - 1) \subseteq Small(n)
        BY <1>1, <3>1
      <3>5. \A s \in Small(n - 1) :
              g[s] = IF s = {} THEN 0 ELSE f[Drawn(s)] + g[s \ {Drawn(s)}]
        BY <3>3
      <3>6. \A s \in Small(n - 1) : h[s] = g[s]
        BY <3>4, <3>5
      <3>7. \A s \in Small(n) : s # {} => s \ {Drawn(s)} \in Small(n - 1)
        BY <1>2
      <3>8. \A s \in Small(n) : s # {} => h[s \ {Drawn(s)}] = g[s \ {Drawn(s)}]
        BY <3>6, <3>7
      <3>9. Partial(n, h)
        BY <3>8
      <3> QED
        BY <3>9
    <2> QED
      BY <2>2, <2>3
  <1>4. Cardinality(S) \in Nat
    BY <1>1
  <1>5. PICK g : Partial(Cardinality(S), g)
    <2> HIDE DEF Partial
    <2> QED
      BY <1>3, <1>4
  <1>6. Small(Cardinality(S)) = SUBSET S
    BY <1>1
  <1>7. SumTable(f, S, g)
    BY <1>5, <1>6 DEF SumTable
  <1> QED
    BY <1>7

LEMMA SumIsTabled ==
  ASSUME NEW S, IsFiniteSet(S), NEW f
  PROVE  \E it : SumTable(f, S, it) /\ SumFunctionOnSet(f, S) = it[S]
  <1> DEFINE Iterates(it) ==
        it = [s \in SUBSET S |-> IF s = {} THEN 0
                ELSE LET x == CHOOSE x \in s : TRUE IN f[x] + it[s \ {x}]]
             it == CHOOSE it : Iterates(it)
  <1>1. SumFunctionOnSet(f, S) = it[S]
    BY DEF SumFunctionOnSet, FoldFunctionOnSet, MapThenFoldSet
  <1>2. \A jt : Iterates(jt) <=> SumTable(f, S, jt)
    BY DEF SumTable, Drawn
  <1> HIDE DEF Iterates
  <1>3. \E jt : Iterates(jt)
    BY <1>2, SumsExist
  <1>4. Iterates(it)
    BY <1>3
  <1> QED
    BY <1>1, <1>2, <1>4

LEMMA TablesAgree ==
  ASSUME NEW S, NEW R \in SUBSET S, IsFiniteSet(S), NEW f, NEW it, NEW jt,
         SumTable(f, S, it), SumTable(f, R, jt)
  PROVE  it[R] = jt[R]
  <1> DEFINE T == {n \in Nat : \E s \in SUBSET R : Cardinality(s) = n /\ it[s] # jt[s]}
  <1>1. \A s \in SUBSET R : /\ it[s] = IF s = {} THEN 0 ELSE f[Drawn(s)] + it[s \ {Drawn(s)}]
                            /\ jt[s] = IF s = {} THEN 0 ELSE f[Drawn(s)] + jt[s \ {Drawn(s)}]
    BY DEF SumTable
  <1>2. ASSUME T # {} PROVE FALSE
    <2>1. PICK n \in T : \A m \in T : n <= m
      BY <1>2, LeastNumber
    <2>2. PICK s \in SUBSET R : Cardinality(s) = n /\ it[s] # jt[s]
      OBVIOUS
    <2>3. s # {}
      BY <1>1, <2>2
    <2>4. Drawn(s) \in s
      BY <2>3 DEF Drawn
    <2>5. IsFiniteSet(s)
      BY FS_Subset
    <2>6. Cardinality(s \ {Drawn(s)}) \in Nat /\ Cardinality(s \ {Drawn(s)}) = n - 1
      BY <2>2, <2>4, <2>5, Shrinks
    <2>7. n - 1 \notin T
      <3>1. n - 1 < n
        OBVIOUS
      <3> QED
        BY <2>1, <3>1
    <2>8. it[s \ {Drawn(s)}] = jt[s \ {Drawn(s)}]
      BY <2>6, <2>7
    <2> QED
      BY <1>1, <2>2, <2>3, <2>8
  <1>3. IsFiniteSet(R)
    BY FS_Subset
  <1>4. Cardinality(R) \in Nat
    BY <1>3, FS_CardinalityType
  <1> QED
    BY <1>2, <1>4

LEMMA SumOfNone == ASSUME NEW f PROVE SumFunctionOnSet(f, {}) = 0
  <1>1. IsFiniteSet({})
    BY FS_EmptySet
  <1>2. PICK it : SumTable(f, {}, it) /\ SumFunctionOnSet(f, {}) = it[{}]
    BY <1>1, SumIsTabled
  <1> QED
    BY <1>2 DEF SumTable

LEMMA SumByAny ==
  ASSUME NEW S, IsFiniteSet(S), S # {}, NEW f
  PROVE  SumFunctionOnSet(f, S) = f[Drawn(S)] + SumFunctionOnSet(f, S \ {Drawn(S)})
  <1> DEFINE R == S \ {Drawn(S)}
  <1>1. IsFiniteSet(R) /\ R \in SUBSET S
    BY FS_Subset
  <1>2. PICK it : SumTable(f, S, it) /\ SumFunctionOnSet(f, S) = it[S]
    BY SumIsTabled
  <1>3. PICK jt : SumTable(f, R, jt) /\ SumFunctionOnSet(f, R) = jt[R]
    BY <1>1, SumIsTabled
  <1>4. it[R] = jt[R]
    BY <1>1, <1>2, <1>3, TablesAgree
  <1>5. it[S] = f[Drawn(S)] + it[R]
    BY <1>2 DEF SumTable
  <1> QED
    BY <1>2, <1>3, <1>4, <1>5

Whole(f, S) == \A x \in S : f[x] \in Int

LEMMA SumByEach ==
  ASSUME NEW S, IsFiniteSet(S), NEW f, Whole(f, S)
  PROVE  /\ SumFunctionOnSet(f, S) \in Int
         /\ \A x \in S : SumFunctionOnSet(f, S) = f[x] + SumFunctionOnSet(f, S \ {x})
  <1> DEFINE Sum(s) == SumFunctionOnSet(f, s)
             Good(s) == Sum(s) \in Int /\ \A x \in s : Sum(s) = f[x] + Sum(s \ {x})
             T == {n \in Nat : \E s \in SUBSET S : Cardinality(s) = n /\ ~Good(s)}
  <1>1. \A s \in SUBSET S : IsFiniteSet(s)
    BY FS_Subset
  <1>2. Sum({}) = 0
    BY SumOfNone
  <1>3. \A s \in SUBSET S : s # {} => Drawn(s) \in s /\ Sum(s) = f[Drawn(s)] + Sum(s \ {Drawn(s)})
    BY <1>1, SumByAny DEF Drawn
  <1>i. \A x \in S : f[x] \in Int
    BY DEF Whole
  <1> HIDE DEF Sum
  <1>4. ASSUME T # {} PROVE FALSE
    <2>1. PICK n \in T : \A m \in T : n <= m
      BY <1>4, LeastNumber
    <2>2. PICK s \in SUBSET S : Cardinality(s) = n /\ ~Good(s)
      OBVIOUS
    <2>3. s # {}
      BY <1>2, <2>2
    <2>4. ASSUME NEW x \in s PROVE Good(s \ {x})
      <3>1. Cardinality(s \ {x}) \in Nat /\ Cardinality(s \ {x}) = n - 1
        BY <1>1, <2>2, Shrinks
      <3>2. n - 1 < n
        OBVIOUS
      <3>3. n - 1 \notin T
        BY <2>1, <3>2
      <3> QED
        BY <3>1, <3>3
    <2> DEFINE y == Drawn(s)
    <2>5. y \in s /\ Sum(s) = f[y] + Sum(s \ {y})
      BY <1>3, <2>3
    <2> HIDE DEF y
    <2>6. Sum(s) \in Int
      BY <1>i, <2>4, <2>5
    <2>7. ASSUME NEW x \in s, x # y PROVE Sum(s) = f[x] + Sum(s \ {x})
      <3>1. Sum(s \ {y}) = f[x] + Sum((s \ {y}) \ {x})
        BY <2>4, <2>5, <2>7
      <3>2. Sum(s \ {x}) = f[y] + Sum((s \ {x}) \ {y})
        BY <2>4, <2>5, <2>7
      <3>3. (s \ {y}) \ {x} = (s \ {x}) \ {y}
        OBVIOUS
      <3>4. Sum((s \ {x}) \ {y}) \in Int
        <4>1. Good(s \ {x}) /\ y \in s \ {x}
          BY <2>4, <2>5, <2>7
        <4>2. PICK u : u = Sum((s \ {x}) \ {y})
          OBVIOUS
        <4>3. s \ {x} \in SUBSET S /\ (s \ {x}) \ {y} \in SUBSET S
          OBVIOUS
        <4>4. Cardinality((s \ {x}) \ {y}) \in Nat /\ Cardinality((s \ {x}) \ {y}) < n
          <5>1. Cardinality(s \ {x}) \in Nat /\ Cardinality(s \ {x}) = n - 1
            BY <1>1, <2>2, Shrinks
          <5>2. /\ Cardinality((s \ {x}) \ {y}) \in Nat
                /\ Cardinality((s \ {x}) \ {y}) = Cardinality(s \ {x}) - 1
            BY <1>1, <4>1, <4>3, Shrinks
          <5> QED
            BY <5>1, <5>2
        <4>5. Cardinality((s \ {x}) \ {y}) \notin T
          BY <2>1, <4>4
        <4> QED
          BY <4>3, <4>4, <4>5
      <3>5. \A a, b, u \in Int : b + (a + u) = a + (b + u)
        OBVIOUS
      <3>6. f[x] \in Int /\ f[y] \in Int
        BY <1>i, <2>5, <2>7
      <3> DEFINE rest == Sum((s \ {x}) \ {y})
      <3>7. Sum((s \ {y}) \ {x}) = rest
        BY <3>3
      <3> HIDE DEF rest
      <3>8. Sum(s) = f[y] + (f[x] + rest)
        BY <2>5, <3>1, <3>7
      <3>9. f[x] + Sum(s \ {x}) = f[x] + (f[y] + rest)
        BY <3>2 DEF rest
      <3>10. rest \in Int
        BY <3>4 DEF rest
      <3> QED
        BY <3>5, <3>6, <3>8, <3>9, <3>10
    <2> QED
      BY <2>2, <2>5, <2>6, <2>7
  <1>5. Cardinality(S) \in Nat
    BY FS_CardinalityType
  <1>6. Good(S)
    BY <1>4, <1>5
  <1> QED
    BY <1>6 DEF Sum

LEMMA SumSplits ==
  ASSUME NEW A, NEW B, IsFiniteSet(A), IsFiniteSet(B), A \cap B = {}, NEW f, Whole(f, A \cup B)
  PROVE  SumFunctionOnSet(f, A \cup B) = SumFunctionOnSet(f, A) + SumFunctionOnSet(f, B)
  <1> DEFINE Sum(s) == SumFunctionOnSet(f, s)
             G == {b \in SUBSET B : Sum(A \cup b) = Sum(A) + Sum(b)}
  <1>1. Sum({}) = 0
    BY SumOfNone
  <1>2. \A b \in SUBSET B : IsFiniteSet(b) /\ IsFiniteSet(A \cup b)
    BY FS_Subset, FS_Union
  <1>3. \A b \in SUBSET B : Whole(f, b) /\ Whole(f, A \cup b)
    BY DEF Whole
  <1>4. \A b \in SUBSET B : /\ Sum(b) \in Int /\ Sum(A \cup b) \in Int
                            /\ \A x \in b : Sum(b) = f[x] + Sum(b \ {x})
                            /\ \A x \in A \cup b : Sum(A \cup b) = f[x] + Sum((A \cup b) \ {x})
    BY <1>2, <1>3, SumByEach
  <1>5. Sum(A) \in Int
    <2>1. Sum(A \cup {}) \in Int
      BY <1>4
    <2> QED
      BY <2>1
  <1>i. \A x \in B : f[x] \in Int
    BY DEF Whole
  <1> HIDE DEF Sum
  <1>6. {} \in G
    BY <1>1, <1>5
  <1>7. ASSUME NEW s \in SUBSET B, s \in G, NEW x \in B \ s PROVE s \cup {x} \in G
    <2> DEFINE t == s \cup {x}
    <2>a. t \in SUBSET B /\ t \ {x} = s /\ (A \cup t) \ {x} = A \cup s /\ x \in t /\ x \in A \cup t
      OBVIOUS
    <2> HIDE DEF t
    <2>2. Sum(t) = f[x] + Sum(s)
      BY <1>4, <2>a
    <2>3. Sum(A \cup t) = f[x] + Sum(A \cup s)
      <3>1. Sum(A \cup t) = f[x] + Sum((A \cup t) \ {x})
        BY <1>4, <2>a
      <3>2. Sum((A \cup t) \ {x}) = Sum(A \cup s)
        BY <2>a
      <3> QED
        BY <3>1, <3>2
    <2>4. Sum(A \cup t) = Sum(A) + Sum(t)
      BY <1>i, <1>4, <1>5, <1>7, <2>2, <2>3
    <2>5. t \in G
      BY <2>a, <2>4
    <2> QED
      BY <2>5 DEF t
  <1> HIDE DEF G
  <1>8. B \in G
    BY <1>6, <1>7, OverFinite
  <1> QED
    BY <1>8 DEF G, Sum

LEMMA SumsSame ==
  ASSUME NEW S, IsFiniteSet(S), NEW f, NEW g, \A x \in S : f[x] = g[x], Whole(f, S)
  PROVE  SumFunctionOnSet(f, S) = SumFunctionOnSet(g, S)
  <1> DEFINE G == {s \in SUBSET S : SumFunctionOnSet(f, s) = SumFunctionOnSet(g, s)}
  <1>1. {} \in G
    BY SumOfNone
  <1>2. ASSUME NEW s \in SUBSET S, s \in G, NEW x \in S \ s PROVE s \cup {x} \in G
    <2> DEFINE t == s \cup {x}
    <2>1. t \in SUBSET S /\ t \ {x} = s /\ x \in t
      OBVIOUS
    <2>2. IsFiniteSet(t) /\ Whole(f, t) /\ Whole(g, t)
      BY <2>1, FS_Subset DEF Whole
    <2> HIDE DEF t
    <2>3. /\ SumFunctionOnSet(f, t) = f[x] + SumFunctionOnSet(f, s)
          /\ SumFunctionOnSet(g, t) = g[x] + SumFunctionOnSet(g, s)
      BY <2>1, <2>2, SumByEach
    <2>4. t \in G
      BY <1>2, <2>1, <2>3
    <2> QED
      BY <2>4 DEF t
  <1> HIDE DEF G
  <1>3. S \in G
    BY <1>1, <1>2, OverFinite
  <1> QED
    BY <1>3 DEF G

-------------------------------------------------------------------------------
(* The greatest and the least of finitely many numbers.                      *)

LEMMA MaxIsGreatest ==
  ASSUME NEW S \in SUBSET Int, IsFiniteSet(S), S # {}
  PROVE  Max(S) \in S /\ \A y \in S : y <= Max(S)
  <1> DEFINE G == {s \in SUBSET S : s = {} \/ \E x \in s : \A y \in s : x >= y}
  <1>1. {} \in G
    OBVIOUS
  <1>2. ASSUME NEW s \in SUBSET S, s \in G, NEW x \in S \ s PROVE s \cup {x} \in G
    <2>1. CASE s = {}
      BY <2>1
    <2>2. CASE s # {}
      <3>1. PICK m \in s : \A y \in s : m >= y
        BY <1>2, <2>2
      <3>2. \A y \in s \cup {x} : (IF x >= m THEN x ELSE m) >= y
        BY <3>1
      <3> QED
        BY <3>2
    <2> QED
      BY <2>1, <2>2
  <1> HIDE DEF G
  <1>3. S \in G
    BY <1>1, <1>2, OverFinite
  <1>4. \E x \in S : \A y \in S : x >= y
    BY <1>3 DEF G
  <1>5. Max(S) \in S /\ \A y \in S : Max(S) >= y
    BY <1>4 DEF Max
  <1> QED
    BY <1>5

LEMMA MinIsLeast ==
  ASSUME NEW S \in SUBSET Int, IsFiniteSet(S), S # {}
  PROVE  Min(S) \in S /\ \A y \in S : Min(S) <= y
  <1> DEFINE G == {s \in SUBSET S : s = {} \/ \E x \in s : \A y \in s : x <= y}
  <1>1. {} \in G
    OBVIOUS
  <1>2. ASSUME NEW s \in SUBSET S, s \in G, NEW x \in S \ s PROVE s \cup {x} \in G
    <2>1. CASE s = {}
      BY <2>1
    <2>2. CASE s # {}
      <3>1. PICK m \in s : \A y \in s : m <= y
        BY <1>2, <2>2
      <3>2. \A y \in s \cup {x} : (IF x <= m THEN x ELSE m) <= y
        BY <3>1
      <3> QED
        BY <3>2
    <2> QED
      BY <2>1, <2>2
  <1> HIDE DEF G
  <1>3. S \in G
    BY <1>1, <1>2, OverFinite
  <1>4. \E x \in S : \A y \in S : x <= y
    BY <1>3 DEF G
  <1>5. Min(S) \in S /\ \A y \in S : Min(S) <= y
    BY <1>4 DEF Min
  <1> QED
    BY <1>5

-------------------------------------------------------------------------------
(* The reduction of the values of the items ids, item by item.               *)

Onto(field, values, ids, acc, i) ==
  IF i \in ids THEN Reducer(field, acc, values[i]) ELSE acc

\* it holds the reductions of the values at each set of places of order.
ReductionTable(field, values, ids, order, it) ==
  it = [s \in SUBSET DOMAIN order |->
          IF s = {} THEN defaultValue(field)
          ELSE Onto(field, values, ids, it[s \ {Max(s)}], order[Max(s)])]

LEMMA ReductionsExist ==
  ASSUME NEW n \in Nat, NEW order, DOMAIN order = 1..n, NEW field, NEW values, NEW ids
  PROVE  \E it : ReductionTable(field, values, ids, order, it)
  <1> DEFINE S == 1..n
             base == defaultValue(field)
             Next1(acc, i) == Onto(field, values, ids, acc, i)
             Small(m) == {s \in SUBSET S : Cardinality(s) <= m}
             Partial(m, g) ==
               g = [s \in Small(m) |->
                      IF s = {} THEN base ELSE Next1(g[s \ {Max(s)}], order[Max(s)])]
             T == {m \in Nat : \A g : ~Partial(m, g)}
  <1>0. IsFiniteSet(S) /\ S \in SUBSET Int
    BY FS_Interval
  <1> HIDE DEF S, base, Next1
  <1>1. \A s \in SUBSET S : IsFiniteSet(s) /\ Cardinality(s) \in Nat
                            /\ Cardinality(s) <= Cardinality(S)
    BY <1>0, FS_Subset, FS_CardinalityType
  <1>2. ASSUME NEW m \in Nat, NEW s \in Small(m), s # {}
        PROVE  m > 0 /\ s \ {Max(s)} \in Small(m - 1)
    <2>1. Max(s) \in s
      BY <1>0, <1>1, <1>2, MaxIsGreatest
    <2>2. Cardinality(s \ {Max(s)}) \in Nat /\ Cardinality(s \ {Max(s)}) = Cardinality(s) - 1
      BY <1>1, <2>1, Shrinks
    <2> QED
      BY <1>1, <2>2
  <1>3. ASSUME T # {} PROVE FALSE
    <2>1. PICK m \in T : \A l \in T : m <= l
      BY <1>3, LeastNumber
    <2>2. CASE m = 0
      <3> DEFINE g == [s \in Small(m) |-> base]
      <3>1. \A s \in Small(m) : s = {}
        <4>1. ASSUME NEW s \in Small(m), s # {} PROVE FALSE
          <5>1. m \in Nat /\ m > 0
            BY <1>2, <4>1
          <5> QED
            BY <2>2, <5>1
        <4> QED
          BY <4>1
      <3>2. Partial(m, g)
        BY <3>1
      <3> QED
        BY <3>2
    <2>3. CASE m # 0
      <3>1. m \in Nat /\ m - 1 \in Nat
        BY <2>3
      <3>2. m - 1 \notin T
        <4> HIDE DEF T
        <4>1. ~ (m <= m - 1)
          BY <3>1
        <4> QED
          BY <2>1, <4>1
      <3>3. PICK g : Partial(m - 1, g)
        <4> HIDE DEF Partial
        <4> QED
          BY <3>1, <3>2
      <3> DEFINE h == [s \in Small(m) |->
                         IF s = {} THEN base ELSE Next1(g[s \ {Max(s)}], order[Max(s)])]
      <3>4. Small(m - 1) \subseteq Small(m)
        BY <1>1, <3>1
      <3>5. \A s \in Small(m - 1) :
              g[s] = IF s = {} THEN base ELSE Next1(g[s \ {Max(s)}], order[Max(s)])
        BY <3>3
      <3>6. \A s \in Small(m - 1) : h[s] = g[s]
        BY <3>4, <3>5
      <3>7. \A s \in Small(m) : s # {} => s \ {Max(s)} \in Small(m - 1)
        BY <1>2
      <3>8. \A s \in Small(m) : s # {} => h[s \ {Max(s)}] = g[s \ {Max(s)}]
        BY <3>6, <3>7
      <3>9. Partial(m, h)
        BY <3>8
      <3> QED
        BY <3>9
    <2> QED
      BY <2>2, <2>3
  <1>4. Cardinality(S) \in Nat
    BY <1>1
  <1>5. PICK g : Partial(Cardinality(S), g)
    <2> HIDE DEF Partial
    <2> QED
      BY <1>3, <1>4
  <1>6. Small(Cardinality(S)) = SUBSET S
    BY <1>1
  <1>7. ReductionTable(field, values, ids, order, g)
    BY <1>5, <1>6 DEF ReductionTable, S, base, Next1
  <1> QED
    BY <1>7

\* a holds the reduction of the first k items, for each k.
LEMMA ReducedStepByStep ==
  ASSUME NEW n \in Nat, NEW order, DOMAIN order = 1..n, NEW field, NEW values, NEW ids
  PROVE  \E a : /\ a[0] = defaultValue(field)
                /\ \A k \in 1..n : a[k] = Onto(field, values, ids, a[k - 1], order[k])
                /\ Reduced(field, values, ids, order) = a[n]
  <1> DEFINE Iterates(it) ==
        it = [s \in SUBSET DOMAIN order |->
                IF s = {} THEN defaultValue(field)
                ELSE LET x == Max(s)
                     IN  IF order[x] \in ids THEN Reducer(field, it[s \ {x}], values[order[x]])
                         ELSE it[s \ {x}]]
             it == CHOOSE it : Iterates(it)
  <1>1. Reduced(field, values, ids, order) = it[DOMAIN order]
    BY DEF Reduced, FoldLeft, MapThenFoldSet
  <1>2. \A jt : Iterates(jt) <=> ReductionTable(field, values, ids, order, jt)
    BY DEF ReductionTable, Onto
  <1> HIDE DEF Iterates
  <1>3. \E jt : Iterates(jt)
    BY <1>2, ReductionsExist
  <1>4. ReductionTable(field, values, ids, order, it)
    BY <1>2, <1>3
  <1> HIDE DEF it
  <1> DEFINE a == [k \in 0..n |-> it[1..k]]
  <1>5. a[0] = defaultValue(field)
    <2>1. 1..0 = {} /\ 1..0 \in SUBSET DOMAIN order
      OBVIOUS
    <2>2. it[1..0] = defaultValue(field)
      BY <1>4, <2>1 DEF ReductionTable
    <2> QED
      BY <2>2
  <1>6. ASSUME NEW k \in 1..n PROVE a[k] = Onto(field, values, ids, a[k - 1], order[k])
    <2> DEFINE s == 1..k
    <2>1. s \in SUBSET DOMAIN order /\ s # {} /\ s \in SUBSET Int /\ IsFiniteSet(s)
      <3>1. IsFiniteSet(s)
        <4>1. 1 \in Int /\ k \in Int
          OBVIOUS
        <4> QED
          BY <4>1, FS_Interval
      <3>2. k \in s
        OBVIOUS
      <3>3. s \in SUBSET DOMAIN order /\ s \in SUBSET Int
        OBVIOUS
      <3> QED
        BY <3>1, <3>2, <3>3
    <2>2. Max(s) \in s /\ \A y \in s : y <= Max(s)
      <3> HIDE DEF s
      <3> QED
        BY <2>1, MaxIsGreatest
    <2>3. Max(s) = k
      BY <2>2
    <2>4. s \ {k} = 1..(k - 1)
      OBVIOUS
    <2>5. it[s] = Onto(field, values, ids, it[s \ {Max(s)}], order[Max(s)])
      <3> HIDE DEF s
      <3> QED
        BY <1>4, <2>1 DEF ReductionTable
    <2>6. it[s] = Onto(field, values, ids, it[1..(k - 1)], order[k])
      BY <2>3, <2>4, <2>5
    <2>7. a[k] = it[s] /\ a[k - 1] = it[1..(k - 1)]
      OBVIOUS
    <2> QED
      BY <2>6, <2>7
  <1>7. a[n] = it[DOMAIN order]
    OBVIOUS
  <1> HIDE DEF a
  <1> QED
    BY <1>1, <1>5, <1>6, <1>7

\* What holds at first and at each next number holds of all up to n.
LEMMA UpTo ==
  ASSUME NEW n \in Nat, NEW G, 0 \in G, \A k \in 1..n : k - 1 \in G => k \in G
  PROVE  n \in G
  <1> DEFINE T == {k \in 0..n : k \notin G}
  <1>1. ASSUME T # {} PROVE FALSE
    <2>1. T \in SUBSET Nat
      OBVIOUS
    <2>2. PICK k \in T : \A m \in T : k <= m
      <3> HIDE DEF T
      <3> QED
        BY <1>1, <2>1, LeastNumber
    <2>3. k \in 1..n /\ k - 1 \notin T
      BY <2>2
    <2> QED
      BY <2>2, <2>3
  <1> QED
    BY <1>1

-------------------------------------------------------------------------------
(* Totals add up: the total of one item more is reduced from that of the     *)
(* item and that of the others.                                              *)

LEMMA ChosenSplits ==
  ASSUME NEW d, NEW ask, NEW D, NEW i, i \notin D
  PROVE  /\ Chosen(d, ask, D \cup {i}) = Chosen(d, ask, D) \cup Chosen(d, ask, {i})
         /\ Chosen(d, ask, D) \cap Chosen(d, ask, {i}) = {}
  BY DEF Chosen

LEMMA ChosenAreRows ==
  ASSUME NEW d, IsData(d), NEW ask, NEW ids
  PROVE  /\ Chosen(d, ask, ids) \in SUBSET DOMAIN d.payments
         /\ IsFiniteSet(Chosen(d, ask, ids))
  <1>1. Chosen(d, ask, ids) \in SUBSET DOMAIN d.payments
    BY DEF Chosen
  <1> QED
    BY <1>1, FS_Subset DEF IsData

FirstDay(days) == IF days = {} THEN NoDay ELSE Min(days)
LastDay(days)  == IF days = {} THEN NoDay ELSE Max(days)

LEMMA FirstOfBoth ==
  ASSUME NEW S \in SUBSET (Nat \ {0}), NEW T \in SUBSET (Nat \ {0}),
         IsFiniteSet(S), IsFiniteSet(T), T # {}
  PROVE  FirstDay(S \cup T) = Earliest(FirstDay(S), FirstDay(T))
  <1>1. IsFiniteSet(S \cup T)
    BY FS_Union
  <1>2. Min(T) \in T /\ \A y \in T : Min(T) <= y
    BY MinIsLeast
  <1>3. Min(S \cup T) \in S \cup T /\ \A y \in S \cup T : Min(S \cup T) <= y
    BY <1>1, MinIsLeast
  <1>4. CASE S = {}
    <2>1. S \cup T = T
      BY <1>4
    <2> QED
      BY <1>4, <2>1 DEF FirstDay, Earliest
  <1>5. CASE S # {}
    <2>1. Min(S) \in S /\ \A y \in S : Min(S) <= y
      BY <1>5, MinIsLeast
    <2>2. Min(S) \in Nat /\ Min(S) # 0 /\ Min(T) \in Nat /\ Min(S \cup T) \in Nat
      BY <1>2, <1>3, <2>1
    <2>3. Min(S \cup T) <= Min(S) /\ Min(S \cup T) <= Min(T)
      BY <1>2, <1>3, <2>1
    <2>4. Min(S) <= Min(S \cup T) \/ Min(T) <= Min(S \cup T)
      BY <1>2, <1>3, <2>1
    <2>5. Min(S \cup T) = IF Min(T) < Min(S) THEN Min(T) ELSE Min(S)
      BY <2>2, <2>3, <2>4
    <2> QED
      BY <1>5, <2>2, <2>5 DEF FirstDay, Earliest, NoDay
  <1> QED
    BY <1>4, <1>5

LEMMA LastOfBoth ==
  ASSUME NEW S \in SUBSET (Nat \ {0}), NEW T \in SUBSET (Nat \ {0}),
         IsFiniteSet(S), IsFiniteSet(T)
  PROVE  LastDay(S \cup T) = Latest(LastDay(S), LastDay(T))
  <1>1. IsFiniteSet(S \cup T)
    BY FS_Union
  <1>2. CASE S = {}
    <2>1. S \cup T = T
      BY <1>2
    <2> QED
      BY <1>2, <2>1 DEF LastDay, Latest
  <1>3. CASE S # {} /\ T = {}
    <2>0. S \in SUBSET Int /\ S # {}
      BY <1>3
    <2>1. Max(S) \in Nat /\ Max(S) # 0
      <3>1. Max(S) \in S
        BY <2>0, MaxIsGreatest
      <3> QED
        BY <3>1
    <2>2. S \cup T = S
      BY <1>3
    <2>3. LastDay(S) = Max(S) /\ LastDay(T) = 0
      BY <1>3 DEF LastDay, NoDay
    <2> QED
      BY <2>1, <2>2, <2>3 DEF Latest, NoDay
  <1>4. CASE S # {} /\ T # {}
    <2>1. Max(S) \in S /\ \A y \in S : y <= Max(S)
      BY <1>4, MaxIsGreatest
    <2>2. Max(T) \in T /\ \A y \in T : y <= Max(T)
      BY <1>4, MaxIsGreatest
    <2>3. Max(S \cup T) \in S \cup T /\ \A y \in S \cup T : y <= Max(S \cup T)
      BY <1>1, <1>4, MaxIsGreatest
    <2>4. Max(S) \in Nat /\ Max(S) # 0 /\ Max(T) \in Nat /\ Max(S \cup T) \in Nat
      BY <2>1, <2>2, <2>3
    <2>5. Max(S) <= Max(S \cup T) /\ Max(T) <= Max(S \cup T)
      BY <2>1, <2>2, <2>3
    <2>6. Max(S \cup T) <= Max(S) \/ Max(S \cup T) <= Max(T)
      BY <2>1, <2>2, <2>3
    <2>7. Max(S \cup T) = IF Max(T) > Max(S) THEN Max(T) ELSE Max(S)
      BY <2>4, <2>5, <2>6
    <2> QED
      BY <1>4, <2>4, <2>7 DEF LastDay, Latest, NoDay
  <1> QED
    BY <1>2, <1>3, <1>4

LEMMA DaysAreNumbers ==
  ASSUME NEW d, IsData(d), NEW ps \in SUBSET DOMAIN d.payments
  PROVE  Days(d, ps) \in SUBSET (Nat \ {0}) /\ IsFiniteSet(Days(d, ps))
  <1>1. Days(d, ps) \in SUBSET (Nat \ {0})
    BY DEF Days, IsData, IsPayment
  <1> DEFINE f == [p \in ps |-> d.payments[p].date]
  <1>2. f \in Surjection(ps, Days(d, ps))
    BY DEF Days, Surjection
  <1>3. IsFiniteSet(ps)
    BY FS_Subset DEF IsData
  <1> QED
    BY <1>1, <1>2, <1>3, FS_Surjection

\* The amount of payment p in the currency c.
PriceIn(d, p, c) ==
  Times(d.payments[p].cost,
        PublishedRate(d.payments[p].currency, c, d.payments[p].date))

Priced(d, ask, ids, c) == \A p \in Chosen(d, ask, ids) : PriceIn(d, p, c) \in Int

\* The sums of Total, over functions on all of the payments.
LEMMA CostsOfAll ==
  ASSUME NEW d, IsData(d), NEW ps \in SUBSET DOMAIN d.payments, NEW x
  PROVE  SumFunctionOnSet([p \in ps |-> d.payments[p].cost],
                          {p \in ps : d.payments[p].currency = x})
         = SumFunctionOnSet([p \in DOMAIN d.payments |-> d.payments[p].cost],
                            {p \in ps : d.payments[p].currency = x})
  <1> DEFINE f == [p \in ps |-> d.payments[p].cost]
             g == [p \in DOMAIN d.payments |-> d.payments[p].cost]
             S == {p \in ps : d.payments[p].currency = x}
  <1>1. S \in SUBSET DOMAIN d.payments /\ IsFiniteSet(DOMAIN d.payments)
    BY DEF IsData
  <1>2. IsFiniteSet(S)
    BY <1>1, FS_Subset
  <1>3. (\A p \in S : f[p] = g[p]) /\ Whole(f, S)
    BY DEF Whole, IsData, IsPayment
  <1> HIDE DEF f, g, S
  <1>4. SumFunctionOnSet(f, S) = SumFunctionOnSet(g, S)
    BY <1>2, <1>3, SumsSame
  <1> QED
    BY <1>4 DEF f, g, S

LEMMA PricesOfAll ==
  ASSUME NEW d, IsData(d), NEW ask, NEW ids, NEW c, Priced(d, ask, ids, c)
  PROVE  SumFunctionOnSet([p \in Chosen(d, ask, ids) |->
                 Times(d.payments[p].cost,
                       PublishedRate(d.payments[p].currency, c, d.payments[p].date))],
                 Chosen(d, ask, ids))
         = SumFunctionOnSet([p \in DOMAIN d.payments |-> PriceIn(d, p, c)],
                            Chosen(d, ask, ids))
  <1> DEFINE ps == Chosen(d, ask, ids)
             f == [p \in ps |-> PriceIn(d, p, c)]
             g == [p \in DOMAIN d.payments |-> PriceIn(d, p, c)]
  <1>1. ps \in SUBSET DOMAIN d.payments /\ IsFiniteSet(ps)
    BY ChosenAreRows
  <1>2. (\A p \in ps : f[p] = g[p]) /\ Whole(f, ps)
    BY <1>1 DEF Whole, Priced
  <1> HIDE DEF f, g, ps
  <1>3. SumFunctionOnSet(f, ps) = SumFunctionOnSet(g, ps)
    BY <1>1, <1>2, SumsSame
  <1> QED
    BY <1>3 DEF f, g, ps, PriceIn

LEMMA TotalOfNone ==
  ASSUME NEW d, NEW ask, Aggregates(ask), NEW c
  PROVE  Total(d, ask, {}, c) = defaultValue(ask.field)
  <1>1. Chosen(d, ask, {}) = {}
    BY DEF Chosen
  <1>2. Cardinality({}) = 0
    BY FS_EmptySet
  <1>3. \A f : SumFunctionOnSet(f, {}) = 0
    BY SumOfNone
  <1>4. CASE ask.field \in {"items", "count"}
    BY <1>1, <1>2, <1>4 DEF Total, defaultValue
  <1>5. CASE ask.field = "firstPaymentDate"
    BY <1>1, <1>5 DEF Total, defaultValue, NoDay
  <1>6. CASE ask.field = "lastPaymentDate"
    BY <1>1, <1>6 DEF Total, defaultValue, NoDay
  <1>7. CASE ask.field = "costByCurrency"
    <2>1. \A x : {p \in Chosen(d, ask, {}) : d.payments[p].currency = x} = {}
      BY <1>1
    <2>2. Total(d, ask, {}, c) =
            [x \in Currencies |->
                SumFunctionOnSet([p \in Chosen(d, ask, {}) |-> d.payments[p].cost],
                                 {p \in Chosen(d, ask, {}) : d.payments[p].currency = x})]
      BY <1>7 DEF Total
    <2>3. Total(d, ask, {}, c) = [x \in Currencies |-> 0]
      BY <1>3, <2>1, <2>2
    <2> QED
      BY <1>7, <2>3 DEF defaultValue, NoCost
  <1>8. CASE ask.field = "costInDefaultCurrency"
    <2>1. Total(d, ask, {}, c) =
            SumFunctionOnSet([p \in Chosen(d, ask, {}) |->
               Times(d.payments[p].cost,
                     PublishedRate(d.payments[p].currency, c, d.payments[p].date))],
               Chosen(d, ask, {}))
      BY <1>8 DEF Total
    <2>2. Total(d, ask, {}, c) = 0
      BY <1>1, <1>3, <2>1
    <2> QED
      BY <1>8, <2>2 DEF defaultValue
  <1> QED
    BY <1>4, <1>5, <1>6, <1>7, <1>8 DEF Aggregates

\* For the total of the items ids to be reduced from those of each.
Reducible(d, ask, ids, c) ==
  /\ ask.field # "items"
  /\ ask.field = "firstPaymentDate" => \A i \in ids : Chosen(d, ask, {i}) # {}
  /\ ask.field = "costInDefaultCurrency" => Priced(d, ask, ids, c)

LEMMA TotalOfOneMore ==
  ASSUME NEW d, IsData(d), NEW ask, Aggregates(ask), NEW D, NEW i, i \notin D, NEW c,
         Reducible(d, ask, D \cup {i}, c)
  PROVE  Total(d, ask, D \cup {i}, c)
           = Reducer(ask.field, Total(d, ask, D, c), Total(d, ask, {i}, c))
  <1> DEFINE A == Chosen(d, ask, D)
             B == Chosen(d, ask, {i})
             rows == DOMAIN d.payments
  <1>1. Chosen(d, ask, D \cup {i}) = A \cup B /\ A \cap B = {}
    BY ChosenSplits
  <1>2. /\ A \in SUBSET rows /\ IsFiniteSet(A) /\ B \in SUBSET rows /\ IsFiniteSet(B)
        /\ A \cup B \in SUBSET rows /\ IsFiniteSet(A \cup B)
    BY ChosenAreRows, FS_Union
  <1>3. CASE ask.field = "count"
    <2>1. Cardinality(A \cup B) = Cardinality(A) + Cardinality(B)
      <3>1. Cardinality(A \cap B) = 0
        BY <1>1, FS_EmptySet
      <3>2. Cardinality(A \cup B) = Cardinality(A) + Cardinality(B) - Cardinality(A \cap B)
        BY <1>2, FS_Union
      <3>3. Cardinality(A) \in Nat /\ Cardinality(B) \in Nat
        BY <1>2, FS_CardinalityType
      <3> QED
        BY <3>1, <3>2, <3>3
    <2>2. \A ids : Total(d, ask, ids, c) = Cardinality(Chosen(d, ask, ids))
      BY <1>3 DEF Total
    <2>3. \A acc, cur : Reducer(ask.field, acc, cur) = acc + cur
      BY <1>3 DEF Reducer
    <2> QED
      BY <1>1, <2>1, <2>2, <2>3
  <1>4. CASE ask.field = "firstPaymentDate"
    <2>1. \A ids : Total(d, ask, ids, c) = FirstDay(Days(d, Chosen(d, ask, ids)))
      BY <1>4 DEF Total, FirstDay, Days
    <2>2. \A acc, cur : Reducer(ask.field, acc, cur) = Earliest(acc, cur)
      BY <1>4 DEF Reducer
    <2>3. Days(d, A \cup B) = Days(d, A) \cup Days(d, B)
      BY DEF Days
    <2>4. /\ Days(d, A) \in SUBSET (Nat \ {0}) /\ IsFiniteSet(Days(d, A))
          /\ Days(d, B) \in SUBSET (Nat \ {0}) /\ IsFiniteSet(Days(d, B))
      BY <1>2, DaysAreNumbers
    <2>5. Days(d, B) # {}
      BY <1>4 DEF Days, Reducible
    <2>6. FirstDay(Days(d, A) \cup Days(d, B))
            = Earliest(FirstDay(Days(d, A)), FirstDay(Days(d, B)))
      BY <2>4, <2>5, FirstOfBoth
    <2> QED
      BY <1>1, <2>1, <2>2, <2>3, <2>6
  <1>5. CASE ask.field = "lastPaymentDate"
    <2>1. \A ids : Total(d, ask, ids, c) = LastDay(Days(d, Chosen(d, ask, ids)))
      BY <1>5 DEF Total, LastDay, Days
    <2>2. \A acc, cur : Reducer(ask.field, acc, cur) = Latest(acc, cur)
      BY <1>5 DEF Reducer
    <2>3. Days(d, A \cup B) = Days(d, A) \cup Days(d, B)
      BY DEF Days
    <2>4. /\ Days(d, A) \in SUBSET (Nat \ {0}) /\ IsFiniteSet(Days(d, A))
          /\ Days(d, B) \in SUBSET (Nat \ {0}) /\ IsFiniteSet(Days(d, B))
      BY <1>2, DaysAreNumbers
    <2>5. LastDay(Days(d, A) \cup Days(d, B))
            = Latest(LastDay(Days(d, A)), LastDay(Days(d, B)))
      BY <2>4, LastOfBoth
    <2> QED
      BY <1>1, <2>1, <2>2, <2>3, <2>5
  <1>6. CASE ask.field = "costByCurrency"
    <2> DEFINE f == [p \in rows |-> d.payments[p].cost]
               In(x, ps) == {p \in ps : d.payments[p].currency = x}
    <2>1. ASSUME NEW ids
          PROVE  Total(d, ask, ids, c) =
                   [x \in Currencies |-> SumFunctionOnSet(f, In(x, Chosen(d, ask, ids)))]
      <3> DEFINE ps == Chosen(d, ask, ids)
                 g == [p \in ps |-> d.payments[p].cost]
      <3>1. Total(d, ask, ids, c) =
              [x \in Currencies |-> SumFunctionOnSet(g, In(x, ps))]
        BY <1>6 DEF Total
      <3>2. \A x : SumFunctionOnSet(g, In(x, ps)) = SumFunctionOnSet(f, In(x, ps))
        <4>1. ps \in SUBSET DOMAIN d.payments
          BY ChosenAreRows
        <4> HIDE DEF ps
        <4> QED
          BY <4>1, CostsOfAll
      <3> HIDE DEF g, f, In, ps
      <3>3. [x \in Currencies |-> SumFunctionOnSet(g, In(x, ps))]
              = [x \in Currencies |-> SumFunctionOnSet(f, In(x, ps))]
        BY <3>2
      <3> QED
        BY <3>1, <3>3 DEF ps
    <2>2. \A acc, cur : Reducer(ask.field, acc, cur) = SumCosts(acc, cur)
      BY <1>6 DEF Reducer
    <2>3. ASSUME NEW x
          PROVE  SumFunctionOnSet(f, In(x, A \cup B))
                   = SumFunctionOnSet(f, In(x, A)) + SumFunctionOnSet(f, In(x, B))
      <3>1. IsFiniteSet(In(x, A)) /\ IsFiniteSet(In(x, B)) /\ In(x, A) \cap In(x, B) = {}
        <4>1. In(x, A) \in SUBSET A /\ In(x, B) \in SUBSET B
          OBVIOUS
        <4> QED
          BY <1>1, <1>2, <4>1, FS_Subset
      <3>2. In(x, A \cup B) = In(x, A) \cup In(x, B)
        OBVIOUS
      <3>3. Whole(f, In(x, A) \cup In(x, B))
        BY <1>2 DEF Whole, IsData, IsPayment
      <3> HIDE DEF In, f, A, B
      <3>4. SumFunctionOnSet(f, In(x, A) \cup In(x, B))
              = SumFunctionOnSet(f, In(x, A)) + SumFunctionOnSet(f, In(x, B))
        BY <3>1, <3>3, SumSplits
      <3> QED
        BY <3>2, <3>4
    <2> HIDE DEF In, f, A, B
    <2> DEFINE tA == [x \in Currencies |-> SumFunctionOnSet(f, In(x, A))]
               tB == [x \in Currencies |-> SumFunctionOnSet(f, In(x, B))]
               tAB == [x \in Currencies |-> SumFunctionOnSet(f, In(x, A \cup B))]
    <2>4. tAB = SumCosts(tA, tB)
      BY <2>3 DEF SumCosts
    <2>5. Total(d, ask, D, c) = tA /\ Total(d, ask, {i}, c) = tB
          /\ Total(d, ask, D \cup {i}, c) = tAB
      BY <1>1, <2>1 DEF A, B
    <2> QED
      BY <2>2, <2>4, <2>5
  <1>7. CASE ask.field = "costInDefaultCurrency"
    <2> DEFINE f == [p \in rows |-> PriceIn(d, p, c)]
    <2>1. ASSUME NEW ids, Priced(d, ask, ids, c)
          PROVE  Total(d, ask, ids, c) = SumFunctionOnSet(f, Chosen(d, ask, ids))
      BY <1>7, <2>1, PricesOfAll DEF Total
    <2>2. \A acc, cur : Reducer(ask.field, acc, cur) = acc + cur
      BY <1>7 DEF Reducer
    <2>3. /\ Priced(d, ask, D \cup {i}, c) /\ Priced(d, ask, D, c) /\ Priced(d, ask, {i}, c)
          /\ Whole(f, A \cup B)
      BY <1>1, <1>2, <1>7 DEF Priced, Whole, Reducible
    <2>4. SumFunctionOnSet(f, A \cup B) = SumFunctionOnSet(f, A) + SumFunctionOnSet(f, B)
      BY <1>1, <1>2, <2>3, SumSplits
    <2> HIDE DEF f
    <2> QED
      BY <1>1, <2>1, <2>2, <2>3, <2>4
  <1> QED
    BY <1>3, <1>4, <1>5, <1>6, <1>7 DEF Aggregates, Reducible

\* Each item of the batch has a place in the order, and one only.
LEMMA OrdersAreOnto ==
  ASSUME NEW S, IsFiniteSet(S), NEW order \in SetToSeqs(S)
  PROVE  /\ Cardinality(S) \in Nat /\ DOMAIN order = 1..Cardinality(S)
         /\ \A i \in S : \E k \in 1..Cardinality(S) : order[k] = i
         /\ \A k \in 1..Cardinality(S) : order[k] \in S
         /\ \A k, l \in 1..Cardinality(S) : order[k] = order[l] => k = l
  <1> DEFINE n == Cardinality(S)
  <1>1. n \in Nat
    BY FS_CardinalityType
  <1>2. order \in Injection(1..n, S)
    BY DEF SetToSeqs, Injection, IsInjective
  <1>3. Cardinality(1..n) = n
    <2>1. 1 \in Int /\ n \in Int
      BY <1>1
    <2>2. Cardinality(1..n) = IF 1 > n THEN 0 ELSE n - 1 + 1
      BY <2>1, FS_Interval
    <2> QED
      BY <1>1, <2>2
  <1>4. order \in Surjection(1..n, S)
    BY <1>2, <1>3, FS_Injection
  <1> QED
    BY <1>1, <1>2, <1>4 DEF Injection, IsInjective, Surjection

\* values has the total of each of the items ids.
Tabled(d, ask, ids, c, values) == \A i \in ids : values[i] = Total(d, ask, {i}, c)

(* Whatever order the items come in, their totals reduce to their total.     *)
LEMMA ReducedIsTotal ==
  ASSUME NEW d, IsData(d), NEW ask, Aggregates(ask),
         NEW batch, IsFiniteSet(batch), NEW values, NEW c,
         NEW ids \in SUBSET batch, NEW order \in SetToSeqs(batch),
         Tabled(d, ask, ids, c, values), Reducible(d, ask, ids, c)
  PROVE  Reduced(ask.field, values, ids, order) = Total(d, ask, ids, c)
  <1>m. ASSUME NEW E \in SUBSET ids, NEW i \in ids, i \notin E
        PROVE  Total(d, ask, E \cup {i}, c)
                 = Reducer(ask.field, Total(d, ask, E, c), Total(d, ask, {i}, c))
    <2>1. Chosen(d, ask, E \cup {i}) \subseteq Chosen(d, ask, ids)
      BY DEF Chosen
    <2>2. Reducible(d, ask, E \cup {i}, c)
      BY <2>1 DEF Reducible, Priced
    <2> QED
      BY <1>m, <2>2, TotalOfOneMore
  <1> DEFINE n == Cardinality(batch)
             Before(k) == {order[j] : j \in 1..k}
  <1>1. /\ n \in Nat /\ DOMAIN order = 1..n
        /\ \A i \in batch : \E k \in 1..n : order[k] = i
        /\ \A k \in 1..n : order[k] \in batch
        /\ \A k, l \in 1..n : order[k] = order[l] => k = l
    BY OrdersAreOnto
  <1> HIDE DEF n
  <1>2. PICK a : /\ a[0] = defaultValue(ask.field)
                 /\ \A k \in 1..n : a[k] = Onto(ask.field, values, ids, a[k - 1], order[k])
                 /\ Reduced(ask.field, values, ids, order) = a[n]
    <2> DEFINE field == ask.field
    <2>1. n \in Nat /\ DOMAIN order = 1..n
      BY <1>1
    <2> HIDE DEF field, Before
    <2>2. \E a : /\ a[0] = defaultValue(field)
                 /\ \A k \in 1..n : a[k] = Onto(field, values, ids, a[k - 1], order[k])
                 /\ Reduced(field, values, ids, order) = a[n]
      BY <2>1, ReducedStepByStep
    <2> QED
      BY <2>2 DEF field
  <1> DEFINE G == {k \in 0..n : a[k] = Total(d, ask, ids \cap Before(k), c)}
  <1>3. 0 \in G
    <2>1. ids \cap Before(0) = {}
      OBVIOUS
    <2>2. a[0] = Total(d, ask, {}, c)
      BY <1>2, TotalOfNone
    <2>3. 0 \in 0..n
      BY <1>1
    <2> QED
      BY <2>1, <2>2, <2>3
  <1>4. ASSUME NEW k \in 1..n, k - 1 \in G PROVE k \in G
    <2> DEFINE D == ids \cap Before(k - 1)
               i == order[k]
    <2>1. i \in batch /\ i \notin D
      <3>1. \A j \in 1..(k - 1) : j \in 1..n /\ j # k
        BY <1>1
      <3> QED
        BY <1>1, <3>1
    <2>2. Before(k) = Before(k - 1) \cup {i}
      <3>1. 1..k = (1..(k - 1)) \cup {k}
        BY <1>1
      <3> QED
        BY <3>1
    <2>3. a[k - 1] = Total(d, ask, D, c)
      BY <1>4
    <2>4. a[k] = Onto(ask.field, values, ids, a[k - 1], i)
      BY <1>2
    <2>5. k \in 0..n
      BY <1>1
    <2>6. ids \cap Before(k) = IF i \in ids THEN D \cup {i} ELSE D
      BY <2>2
    <2>g. k \in G <=> a[k] = Total(d, ask, ids \cap Before(k), c)
      BY <2>5
    <2> HIDE DEF D, i, Before, G
    <2>8. CASE i \in ids
      <3>1. D \in SUBSET ids
        BY DEF D
      <3>3. Total(d, ask, D \cup {i}, c)
              = Reducer(ask.field, Total(d, ask, D, c), Total(d, ask, {i}, c))
        BY <1>m, <2>1, <2>8, <3>1
      <3>4. a[k] = Reducer(ask.field, Total(d, ask, D, c), Total(d, ask, {i}, c))
        BY <2>1, <2>3, <2>4, <2>8 DEF Onto, Tabled
      <3>5. a[k] = Total(d, ask, ids \cap Before(k), c)
        BY <2>6, <2>8, <3>3, <3>4
      <3> QED
        BY <2>g, <3>5
    <2>9. CASE i \notin ids
      <3>1. a[k] = Total(d, ask, ids \cap Before(k), c)
        BY <2>3, <2>4, <2>6, <2>9 DEF Onto
      <3> QED
        BY <2>g, <3>1
    <2> QED
      BY <2>8, <2>9
  <1>5. n \in G
    <2> HIDE DEF G
    <2> QED
      BY <1>1, <1>3, <1>4, UpTo
  <1>6. ids \cap Before(n) = ids
    BY <1>1
  <1> QED
    BY <1>2, <1>5, <1>6

-------------------------------------------------------------------------------
(* What a query has read, at which moments since it was asked.               *)

\* The items a query s is about.
BatchOf(s) == UNION {s.ids[p] : p \in DOMAIN s.ids}

\* At some moment item i was not there.
Missed(s, i) == \E d \in s.saw : i \notin DOMAIN d.items

\* The gaps of KnownGap for the items ids that do not depend on the answer.
Gap(s, ids) ==
  \/ s.ask.field = "firstPaymentDate"
       /\ \E i \in ids, d \in s.saw : Grouped(d, s.ask.ownFilter, i) = {}
  \/ s.ask.field \in {"count", "firstPaymentDate", "lastPaymentDate"}
       /\ s.ask.ownFilter.ids # Absent
  \/ s.ask.field = "costInDefaultCurrency" /\ \E i \in ids : Missed(s, i)

\* A cost that is lost, and may be.
LostIt(s) ==
  /\ s.ask.field = "costInDefaultCurrency"
  /\ \/ s.lost = "bank" /\ MayFail
     \/ s.lost = "currencies" /\ \E a, b \in CurrenciesOf(s.saw, BatchOf(s)) : a # b

\* A cost of items all of which were deleted meanwhile.
Vain(s) == s.ask.field = "costInDefaultCurrency" /\ \A i \in BatchOf(s) : Missed(s, i)

IsDb(d) == IsData(d) /\ \A p \in DOMAIN d.payments : d.payments[p].date \in PaymentDays

MetricSteps ==
  {"items", "counted", "load", "workspaces", "currency", "rates", "reduce", "answered"}

\* The fields of a query at each step; now is the database.
Asked(s, now) ==
  /\ {"step", "ask", "saw", "lost", "todo", "got", "pulled"} \subseteq DOMAIN s
  /\ Aggregates(s.ask)
  /\ IsFiniteSet(s.saw) /\ now \in s.saw
  /\ \A d \in s.saw : IsDb(d) /\ DOMAIN d.defaults = DOMAIN now.defaults
  /\ s.step \in MetricSteps
  /\ s.step = "counted" => s.ask.field = "items"
  /\ s.step = "load" => s.ask.field # "items"
  /\ s.step \in {"workspaces", "currency", "rates"} => s.ask.field = "costInDefaultCurrency"
  /\ s.step \in {"items", "load", "workspaces", "currency"} => s.got = <<>>

\* Each part of what a query needs was read from one database it saw.
HasItems(s) == "ids" \in DOMAIN s /\ \E d \in s.saw : s.ids = ItemIds(d, s.ask)

FoundIn(d, s) ==
  [p \in UNION {Selected(d, s.ask.ownFilter, i) : i \in BatchOf(s)} |-> d.payments[p]]

HasPayments(s) ==
  /\ "found" \in DOMAIN s /\ BatchOf(s) # {}
  /\ \E d \in s.saw : s.found = FoundIn(d, s)

HasPlaces(s) ==
  /\ "places" \in DOMAIN s
  /\ \E d \in s.saw : s.places = {d.items[i].workspace : i \in BatchOf(s) \cap DOMAIN d.items}

\* Every item that was there throughout had the default currency c.
ItsCurrency(s, c) ==
  /\ c \in Currencies \/ \A i \in BatchOf(s) : Missed(s, i)
  /\ \E d, e \in s.saw : \A i \in BatchOf(s) :
       Missed(s, i) \/ (i \in DOMAIN e.items /\ c = d.defaults[e.items[i].workspace])

HasCurrency(s) ==
  /\ "currency" \in DOMAIN s
  /\ KeysOf(s) = DerivativeKeys(Required(s.found, s.currency))
  /\ ItsCurrency(s, s.currency)

(* The values of the items ids are metrics at one moment d in one currency   *)
(* c: those of different moments would not add up to the metric of any.      *)
Measures(s, ids, d, c) ==
  /\ Reducible(d, s.ask, ids, c)
  /\ \A i \in ids : s.values[i] = Total(d, s.ask, {i}, c)
  /\ s.ask.field = "costInDefaultCurrency" => ids = {} \/ c \in CurrenciesOf(s.saw, ids)

HasValues(s) ==
  /\ "values" \in DOMAIN s
  /\ \/ s.values = <<>> /\ (LostIt(s) \/ Vain(s))
     \/ /\ DOMAIN s.values = BatchOf(s)
        /\ \E d \in s.saw, c \in Currencies :
             \A ids \in SUBSET BatchOf(s) : Gap(s, ids) \/ Measures(s, ids, d, c)

\* v is the metric over the items ids had at a moment of s.
TotalOf(s, ids, v) ==
  \E d \in s.saw, c \in Currencies :
    /\ v = Total(d, s.ask, ids, c)
    /\ s.ask.field = "costInDefaultCurrency" => ids = {} \/ c \in CurrenciesOf(s.saw, ids)

HasAnswer(s) ==
  /\ "answer" \in DOMAIN s /\ DOMAIN s.answer = DOMAIN s.ids
  /\ \A p \in DOMAIN s.answer :
       \/ Gap(s, s.ids[p])
       \/ LostIt(s) /\ s.answer[p] = 0
       \/ \E d \in s.saw : TotalOf(s, ItemIds(d, s.ask)[p], s.answer[p])

Measured(s, now) ==
  /\ Asked(s, now)
  /\ s.step # "items" => HasItems(s)
  /\ s.step \in {"workspaces", "currency", "rates"} => HasPayments(s)
  /\ s.step = "currency" => HasPlaces(s)
  /\ s.step = "rates"    => HasCurrency(s)
  /\ s.step = "reduce"   => HasValues(s)
  /\ s.step = "answered" => HasAnswer(s)

TotalsInv ==
  /\ IsDb(db)
  /\ \A q \in Query : ~At(q, "idle") /\ ~RateAsked(query[q]) => Measured(query[q], db)

\* An image of a finite set is finite.
LEMMA ImageIsFinite ==
  ASSUME NEW S, IsFiniteSet(S), NEW f, DOMAIN f = S
  PROVE  IsFiniteSet({f[x] : x \in S})
  <1> DEFINE T == {f[x] : x \in S}
             g == [x \in S |-> f[x]]
  <1>1. g \in Surjection(S, T)
    BY DEF Surjection
  <1> QED
    BY <1>1, FS_Surjection

LEMMA CurrenciesAreFinite ==
  ASSUME NEW saw, IsFiniteSet(saw), \A d \in saw : IsData(d), NEW ids
  PROVE  IsFiniteSet(CurrenciesOf(saw, ids))
  <1> DEFINE Of(e) == {d.defaults[e.items[i].workspace] : d \in saw, i \in ids \cap DOMAIN e.items}
             all == {Of(e) : e \in saw}
  <1>1. ASSUME NEW e \in saw PROVE IsFiniteSet(Of(e))
    <2> DEFINE S == saw \X (ids \cap DOMAIN e.items)
               f == [x \in S |-> x[1].defaults[e.items[x[2]].workspace]]
    <2>1. IsFiniteSet(ids \cap DOMAIN e.items)
      <3>1. IsFiniteSet(DOMAIN e.items)
        BY DEF IsData
      <3>2. ids \cap DOMAIN e.items \in SUBSET DOMAIN e.items
        OBVIOUS
      <3> QED
        BY <3>1, <3>2, FS_Subset
    <2>2. IsFiniteSet(S)
      BY <2>1, FS_Product
    <2>3. Of(e) = {f[x] : x \in S}
      <3>1. \A d \in saw, i \in ids \cap DOMAIN e.items :
              <<d, i>> \in S /\ f[<<d, i>>] = d.defaults[e.items[i].workspace]
        OBVIOUS
      <3>2. \A x \in S : /\ x[1] \in saw /\ x[2] \in ids \cap DOMAIN e.items
                         /\ f[x] = x[1].defaults[e.items[x[2]].workspace]
        OBVIOUS
      <3>3. \A c : c \in Of(e) <=> \E d \in saw, i \in ids \cap DOMAIN e.items :
                                    c = d.defaults[e.items[i].workspace]
        OBVIOUS
      <3> HIDE DEF f, S, Of
      <3>4. ASSUME NEW c \in Of(e) PROVE \E x \in S : c = f[x]
        <4>1. PICK d \in saw, i \in ids \cap DOMAIN e.items : c = d.defaults[e.items[i].workspace]
          BY <3>3
        <4>2. <<d, i>> \in S /\ f[<<d, i>>] = c
          BY <3>1, <4>1
        <4> QED
          BY <4>2
      <3>5. ASSUME NEW x \in S PROVE f[x] \in Of(e)
        BY <3>2, <3>3
      <3> QED
        BY <3>4, <3>5
    <2>4. DOMAIN f = S
      OBVIOUS
    <2> HIDE DEF f, S, Of
    <2> QED
      BY <2>2, <2>3, <2>4, ImageIsFinite
  <1>2. IsFiniteSet(all)
    <2> DEFINE g == [e \in saw |-> Of(e)]
    <2>1. DOMAIN g = saw /\ all = {g[e] : e \in saw}
      OBVIOUS
    <2> HIDE DEF g, all, Of
    <2> QED
      BY <2>1, ImageIsFinite
  <1>3. CurrenciesOf(saw, ids) = UNION all
    BY DEF CurrenciesOf
  <1>4. \A T \in all : IsFiniteSet(T)
    BY <1>1
  <1> HIDE DEF all
  <1> QED
    BY <1>2, <1>3, <1>4, FS_UNION

LEMMA BatchIsFinite ==
  ASSUME NEW s, NEW d, IsData(d), Aggregates(s.ask), s.ids = ItemIds(d, s.ask)
  PROVE  IsFiniteSet(BatchOf(s))
  <1>1. \A f, pf : getIds(d, f, pf) \subseteq DOMAIN d.items
    BY DEF getIds
  <1>2. CASE s.ask.view = "query"
    BY <1>1, <1>2, FS_Subset DEF ItemIds, IsData, BatchOf
  <1>3. CASE s.ask.view = "workspace"
    <2>1. BatchOf(s) \subseteq DOMAIN d.items
      BY <1>1, <1>3 DEF ItemIds, BatchOf
    <2> QED
      BY <2>1, FS_Subset DEF IsData
  <1>4. CASE s.ask.view = "tag"
    <2>1. BatchOf(s) \subseteq DOMAIN d.items
      BY <1>1, <1>4 DEF ItemIds, BatchOf
    <2> QED
      BY <2>1, FS_Subset DEF IsData
  <1>5. CASE s.ask.view = "item"
    <2>1. BatchOf(s) \subseteq s.ask.parents
      BY <1>5 DEF ItemIds, BatchOf
    <2> QED
      BY <2>1, FS_Subset DEF Aggregates
  <1> QED
    BY <1>2, <1>3, <1>4, <1>5 DEF Aggregates

LEMMA SelectedAreChosen ==
  ASSUME NEW d, IsData(d), NEW ask, Aggregates(ask), NEW i
  PROVE  /\ Selected(d, ask.ownFilter, i) = Chosen(d, ask, {i})
         /\ ask.ownFilter.ids = Absent => Grouped(d, ask.ownFilter, i) = Chosen(d, ask, {i})
  <1> DEFINE f == ask.ownFilter
  <1>1. \A p \in DOMAIN d.payments : d.payments[p].date \in Nat
    BY DEF IsData, IsPayment
  <1>2. /\ f.dateFrom # Absent => f.dateFrom \in Nat
        /\ f.dateTo # Absent => f.dateTo \in Nat
    BY DEF Aggregates
  <1>3. \A p \in DOMAIN d.payments :
          InDates(f, d.payments[p]) <=>
            /\ f.dateFrom # Absent => d.payments[p].date >= f.dateFrom
            /\ f.dateTo # Absent => d.payments[p].date <= f.dateTo
    BY <1>1, <1>2 DEF InDates
  <1> HIDE DEF f
  <1> QED
    BY <1>3 DEF Selected, Grouped, PaymentsOf, Chosen, f

LEMMA LoadedIsTotal ==
  ASSUME NEW d, IsData(d), NEW ask, Aggregates(ask), NEW i, NEW c,
         \/ ask.field = "costByCurrency"
         \/ /\ ask.field \in {"count", "firstPaymentDate", "lastPaymentDate"}
            /\ ask.ownFilter.ids = Absent
  PROVE  Loaded(d, ask.field, ask.ownFilter, i) = Total(d, ask, {i}, c)
  <1>1. CASE ask.field = "costByCurrency"
    BY <1>1, SelectedAreChosen DEF Loaded, Total, CostByCurrency
  <1>2. CASE ask.field = "count" /\ ask.ownFilter.ids = Absent
    BY <1>2, SelectedAreChosen DEF Loaded, Total
  <1>3. CASE ask.field = "firstPaymentDate" /\ ask.ownFilter.ids = Absent
    BY <1>3, SelectedAreChosen DEF Loaded, Total, Days
  <1>4. CASE ask.field = "lastPaymentDate" /\ ask.ownFilter.ids = Absent
    BY <1>4, SelectedAreChosen DEF Loaded, Total, Days
  <1> QED
    BY <1>1, <1>2, <1>3, <1>4

-------------------------------------------------------------------------------
(* What a query has come to know it keeps, however much it sees later.       *)

LEMMA CurrenciesGrow ==
  ASSUME NEW saw, NEW more, saw \subseteq more, NEW ids
  PROVE  CurrenciesOf(saw, ids) \subseteq CurrenciesOf(more, ids)
  <1>1. ASSUME NEW c \in CurrenciesOf(saw, ids) PROVE c \in CurrenciesOf(more, ids)
    <2>1. PICK e \in saw : \E d \in saw, i \in ids \cap DOMAIN e.items :
                             c = d.defaults[e.items[i].workspace]
      BY DEF CurrenciesOf
    <2>2. \E d \in more, i \in ids \cap DOMAIN e.items : c = d.defaults[e.items[i].workspace]
      BY <2>1
    <2> QED
      BY <2>2 DEF CurrenciesOf
  <1> QED
    BY <1>1

LEMMA LaterKeeps ==
  ASSUME NEW s, NEW t, t.ask = s.ask, t.ids = s.ids, s.saw \subseteq t.saw
  PROVE  /\ BatchOf(t) = BatchOf(s)
         /\ \A ids : Gap(s, ids) => Gap(t, ids)
         /\ t.lost = s.lost /\ LostIt(s) => LostIt(t)
         /\ Vain(s) => Vain(t)
         /\ \A ids : CurrenciesOf(s.saw, ids) \subseteq CurrenciesOf(t.saw, ids)
         /\ \A c : ItsCurrency(s, c) => ItsCurrency(t, c)
         /\ \A d : FoundIn(d, t) = FoundIn(d, s)
         /\ \A ids, v : TotalOf(s, ids, v) => TotalOf(t, ids, v)
  <1>1. BatchOf(t) = BatchOf(s)
    BY DEF BatchOf
  <1>m. \A i : Missed(s, i) => Missed(t, i)
    BY DEF Missed
  <1>2. (\A ids : Gap(s, ids) => Gap(t, ids)) /\ (Vain(s) => Vain(t))
    BY <1>1, <1>m DEF Gap, Vain
  <1>3. \A ids : CurrenciesOf(s.saw, ids) \subseteq CurrenciesOf(t.saw, ids)
    BY CurrenciesGrow
  <1>4. t.lost = s.lost /\ LostIt(s) => LostIt(t)
    BY <1>1, <1>3 DEF LostIt
  <1>5. ASSUME NEW c, ItsCurrency(s, c) PROVE ItsCurrency(t, c)
    <2>1. c \in Currencies \/ \A i \in BatchOf(t) : Missed(t, i)
      BY <1>1, <1>5, <1>m DEF ItsCurrency
    <2>2. PICK d \in s.saw, e \in s.saw : \A i \in BatchOf(s) :
            Missed(s, i) \/ (i \in DOMAIN e.items /\ c = d.defaults[e.items[i].workspace])
      BY <1>5 DEF ItsCurrency
    <2>3. /\ d \in t.saw /\ e \in t.saw
          /\ \A i \in BatchOf(t) :
               Missed(t, i) \/ (i \in DOMAIN e.items /\ c = d.defaults[e.items[i].workspace])
      BY <1>1, <1>m, <2>2
    <2> QED
      BY <2>1, <2>3 DEF ItsCurrency
  <1>6. \A d : FoundIn(d, t) = FoundIn(d, s)
    BY <1>1 DEF FoundIn
  <1>7. ASSUME NEW ids, NEW v, TotalOf(s, ids, v) PROVE TotalOf(t, ids, v)
    <2>1. PICK d \in s.saw, c \in Currencies :
            /\ v = Total(d, s.ask, ids, c)
            /\ s.ask.field = "costInDefaultCurrency" => ids = {} \/ c \in CurrenciesOf(s.saw, ids)
      BY <1>7 DEF TotalOf
    <2>2. d \in t.saw
      OBVIOUS
    <2> QED
      BY <1>3, <2>1, <2>2 DEF TotalOf
  <1> QED
    BY <1>1, <1>2, <1>3, <1>4, <1>5, <1>6, <1>7

LEMMA SeesMore ==
  ASSUME NEW s, NEW now, NEW after, Measured(s, now), IsDb(after),
         DOMAIN after.defaults = DOMAIN now.defaults
  PROVE  Measured([s EXCEPT !.saw = @ \cup {after}], after)
  <1> DEFINE t == [s EXCEPT !.saw = @ \cup {after}]
  <1>1. /\ DOMAIN t = DOMAIN s /\ t.saw = s.saw \cup {after}
        /\ t.step = s.step /\ t.ask = s.ask /\ t.ids = s.ids /\ t.found = s.found
        /\ t.places = s.places /\ t.currency = s.currency /\ t.todo = s.todo /\ t.got = s.got
        /\ t.values = s.values /\ t.answer = s.answer /\ t.lost = s.lost
    BY DEF Measured, Asked
  <1> HIDE DEF t
  <1>2. /\ BatchOf(t) = BatchOf(s)
        /\ \A ids : Gap(s, ids) => Gap(t, ids)
        /\ LostIt(s) => LostIt(t)
        /\ Vain(s) => Vain(t)
        /\ \A ids : CurrenciesOf(s.saw, ids) \subseteq CurrenciesOf(t.saw, ids)
        /\ \A c : ItsCurrency(s, c) => ItsCurrency(t, c)
        /\ \A d : FoundIn(d, t) = FoundIn(d, s)
        /\ \A ids, v : TotalOf(s, ids, v) => TotalOf(t, ids, v)
    BY <1>1, LaterKeeps
  <1>3. Asked(t, after)
    <2>1. IsFiniteSet(t.saw)
      <3>1. IsFiniteSet(s.saw)
        BY DEF Measured, Asked
      <3> QED
        BY <1>1, <3>1, FS_AddElement
    <2> QED
      BY <1>1, <2>1 DEF Measured, Asked
  <1>4. HasItems(s) => HasItems(t)
    BY <1>1 DEF HasItems
  <1>5. HasPayments(s) => HasPayments(t)
    BY <1>1, <1>2 DEF HasPayments
  <1>6. HasPlaces(s) => HasPlaces(t)
    BY <1>1, <1>2 DEF HasPlaces
  <1>7. HasCurrency(s) => HasCurrency(t)
    BY <1>1, <1>2 DEF HasCurrency, KeysOf
  <1>8. HasValues(s) => HasValues(t)
    <2>1. ASSUME NEW ids, NEW d, NEW c, Measures(s, ids, d, c) PROVE Measures(t, ids, d, c)
      BY <1>1, <1>2, <2>1 DEF Measures
    <2> QED
      BY <1>1, <1>2, <2>1 DEF HasValues
  <1>9. HasAnswer(s) => HasAnswer(t)
    <2>1. ASSUME NEW p, NEW d \in s.saw, TotalOf(s, ItemIds(d, s.ask)[p], s.answer[p])
          PROVE  d \in t.saw /\ TotalOf(t, ItemIds(d, t.ask)[p], t.answer[p])
      BY <1>1, <1>2, <2>1
    <2> QED
      BY <1>1, <1>2, <2>1 DEF HasAnswer
  <1>10. Measured(t, after)
    BY <1>1, <1>3, <1>4, <1>5, <1>6, <1>7, <1>8, <1>9 DEF Measured
  <1> QED
    BY <1>10 DEF t

LEMMA ChangeKeepsTotals ==
  ASSUME TotalsInv, RatesInv, NEW after, Change(after), IsDb(after),
         DOMAIN after.defaults = DOMAIN db.defaults
  PROVE  TotalsInv'
  <1>1. IsDb(db')
    BY DEF Change
  <1>2. ASSUME NEW q \in Query, ~At(q, "idle")', ~RateAsked(query[q])' PROVE Measured(query[q], db)'
    <2> DEFINE s == query[q]
               t == [s EXCEPT !.saw = @ \cup {after}]
    <2>1. ~At(q, "idle") /\ query'[q] = t
      BY <1>2 DEF Change, At, Idle
    <2>2. UnderWay(s)
      BY <2>1 DEF RatesInv
    <2> HIDE DEF s
    <2>3. t.ask = s.ask
      BY <2>2 DEF UnderWay, Fields
    <2>4. Measured(s, db)
      <3>1. ~RateAsked(s)
        BY <1>2, <2>1, <2>3 DEF RateAsked
      <3> QED
        BY <2>1, <3>1 DEF TotalsInv, s
    <2>5. Measured(t, after)
      BY <2>4, SeesMore
    <2> QED
      BY <2>1, <2>5 DEF Change
  <1> QED
    BY <1>1, <1>2 DEF TotalsInv

LEMMA OthersKeepTotals ==
  ASSUME TotalsInv, RatesInv, Others PROVE TotalsInv'
  <1>1. IsDb(db) /\ IsData(db) /\ \A p \in DOMAIN db.payments : db.payments[p].date \in PaymentDays
    BY DEF TotalsInv, IsDb
  <1>2. ASSUME NEW p \in DOMAIN Late, PaymentAdded(p) PROVE TotalsInv'
    <2> DEFINE after == [db EXCEPT !.payments =
                           [x \in DOMAIN @ \cup {p} |-> IF x = p THEN Late[p] ELSE @[x]]]
    <2>1. Change(after)
      BY <1>2 DEF PaymentAdded
    <2>2. /\ DOMAIN after = DOMAIN db /\ after.items = db.items /\ after.defaults = db.defaults
          /\ after.payments = [x \in DOMAIN db.payments \cup {p} |->
                                 IF x = p THEN Late[p] ELSE db.payments[x]]
      BY <1>1 DEF IsData
    <2> HIDE DEF after
    <2>3. IsFiniteSet(DOMAIN after.payments)
      <3>1. DOMAIN after.payments = DOMAIN db.payments \cup {p}
        BY <2>2
      <3>2. IsFiniteSet(DOMAIN db.payments)
        BY <1>1 DEF IsData
      <3> QED
        BY <3>1, <3>2, FS_AddElement
    <2>4. \A x \in DOMAIN after.payments :
            IsPayment(after.payments[x]) /\ after.payments[x].date \in PaymentDays
      <3>1. IsPayment(Late[p]) /\ Late[p].date \in PaymentDays
        BY LateAreTyped DEF PaymentDays
      <3> QED
        BY <1>1, <2>2, <3>1 DEF IsData
    <2>5. IsDb(after)
      BY <1>1, <2>2, <2>3, <2>4 DEF IsDb, IsData
    <2> QED
      BY <2>1, <2>2, <2>5, ChangeKeepsTotals
  <1>3. ASSUME NEW p \in DOMAIN db.payments, PaymentDeleted(p) PROVE TotalsInv'
    <2> DEFINE after == [db EXCEPT !.payments = [x \in DOMAIN @ \ {p} |-> @[x]]]
    <2>1. Change(after)
      BY <1>3 DEF PaymentDeleted
    <2>2. /\ DOMAIN after = DOMAIN db /\ after.items = db.items /\ after.defaults = db.defaults
          /\ after.payments = [x \in DOMAIN db.payments \ {p} |-> db.payments[x]]
      BY <1>1 DEF IsData
    <2> HIDE DEF after
    <2>3. IsFiniteSet(DOMAIN after.payments)
      <3>1. DOMAIN after.payments \in SUBSET DOMAIN db.payments
        BY <2>2
      <3> QED
        BY <1>1, <3>1, FS_Subset DEF IsData
    <2>4. IsDb(after)
      BY <1>1, <2>2, <2>3 DEF IsDb, IsData
    <2> QED
      BY <2>1, <2>2, <2>4, ChangeKeepsTotals
  <1>4. ASSUME NEW i \in DOMAIN db.items, ItemDeleted(i) PROVE TotalsInv'
    <2> DEFINE after == [db EXCEPT
                 !.items    = [x \in DOMAIN @ \ {i} |-> @[x]],
                 !.payments = [p \in {x \in DOMAIN @ : @[x].itemId # i} |-> @[p]]]
    <2>1. Change(after)
      BY <1>4 DEF ItemDeleted
    <2>2. /\ DOMAIN after = DOMAIN db /\ after.defaults = db.defaults
          /\ after.items = [x \in DOMAIN db.items \ {i} |-> db.items[x]]
          /\ after.payments = [p \in {x \in DOMAIN db.payments : db.payments[x].itemId # i} |->
                                 db.payments[p]]
      BY <1>1 DEF IsData
    <2> HIDE DEF after
    <2>3. IsFiniteSet(DOMAIN after.payments) /\ IsFiniteSet(DOMAIN after.items)
      <3>1. /\ DOMAIN after.payments \in SUBSET DOMAIN db.payments
            /\ DOMAIN after.items \in SUBSET DOMAIN db.items
        BY <2>2
      <3> QED
        BY <1>1, <3>1, FS_Subset DEF IsData
    <2>4. IsDb(after)
      BY <1>1, <2>2, <2>3 DEF IsDb, IsData
    <2> QED
      BY <2>1, <2>2, <2>4, ChangeKeepsTotals
  <1>5. ASSUME NEW i \in DOMAIN db.items, NEW t, TagUnassigned(i, t) PROVE TotalsInv'
    <2> DEFINE after == [db EXCEPT !.items[i].tags = @ \ {t}]
    <2>1. Change(after)
      BY <1>5 DEF TagUnassigned
    <2>2. /\ DOMAIN after = DOMAIN db /\ after.payments = db.payments
          /\ after.defaults = db.defaults
          /\ after.items = [db.items EXCEPT ![i].tags = @ \ {t}]
      BY <1>1 DEF IsData
    <2> HIDE DEF after
    <2>3. /\ DOMAIN after.items = DOMAIN db.items
          /\ \A x \in DOMAIN db.items : /\ DOMAIN after.items[x] = DOMAIN db.items[x]
                                        /\ after.items[x].workspace = db.items[x].workspace
      BY <1>1, <2>2 DEF IsData
    <2>4. IsDb(after)
      BY <1>1, <2>2, <2>3 DEF IsDb, IsData
    <2> QED
      BY <2>1, <2>2, <2>4, ChangeKeepsTotals
  <1>6. ASSUME NEW w \in DOMAIN db.defaults, NEW c \in Currencies, CurrencyChanged(w, c)
        PROVE  TotalsInv'
    <2> DEFINE after == [db EXCEPT !.defaults[w] = c]
    <2>1. Change(after)
      BY <1>6 DEF CurrencyChanged
    <2>2. /\ DOMAIN after = DOMAIN db /\ after.payments = db.payments /\ after.items = db.items
          /\ after.defaults = [db.defaults EXCEPT ![w] = c]
      BY <1>1 DEF IsData
    <2> HIDE DEF after
    <2>3. IsDb(after)
      BY <1>1, <2>2 DEF IsDb, IsData
    <2> QED
      BY <2>1, <2>2, <2>3, ChangeKeepsTotals
  <1> QED
    BY <1>2, <1>3, <1>4, <1>5, <1>6 DEF Others

-------------------------------------------------------------------------------
(* The steps of a query for a metric. *)

\* The other queries stay as they are.
LEMMA OneMetric ==
  ASSUME TotalsInv, RatesInv, NEW q \in Query, NEW t, query' = [query EXCEPT ![q] = t],
         UNCHANGED db, t.step # "idle" /\ ~RateAsked(t) => Measured(t, db)
  PROVE  TotalsInv'
  <1>1. \A p \in Query : query'[p] = IF p = q THEN t ELSE query[p]
    BY DEF RatesInv
  <1>2. ASSUME NEW p \in Query, ~At(p, "idle")', ~RateAsked(query[p])'
        PROVE  Measured(query[p], db)'
    <2>1. CASE p = q
      BY <1>1, <1>2, <2>1 DEF At
    <2>2. CASE p # q
      <3>1. query'[p] = query[p]
        BY <1>1, <2>2
      <3>2. ~At(p, "idle") /\ ~RateAsked(query[p])
        BY <1>2, <3>1 DEF At
      <3>3. Measured(query[p], db)
        BY <3>2 DEF TotalsInv
      <3> QED
        BY <3>1, <3>3
    <2> QED
      BY <2>1, <2>2
  <1>3. IsDb(db)'
    BY DEF TotalsInv
  <1> QED
    BY <1>2, <1>3 DEF TotalsInv

\* changed puts query q at another step.
Moves(q, changed) ==
  /\ "step" \in DOMAIN changed
  /\ DOMAIN changed \cap {"ask", "saw"} = {}

LEMMA Moved ==
  ASSUME TotalsInv, RatesInv, NEW q \in Query, ~At(q, "idle"),
         NEW changed, Steps(q, changed), Moves(q, changed),
         ~RateAsked(query[q]) => Measured(Updated(query[q], changed), db)
  PROVE  TotalsInv'
  <1> DEFINE s == query[q]
             t == Updated(s, changed)
  <1>1. UnderWay(s)
    BY DEF RatesInv
  <1>2. t.ask = s.ask
    BY <1>1 DEF Updated, UnderWay, Fields, Moves
  <1>3. query' = [query EXCEPT ![q] = t] /\ UNCHANGED db
    BY DEF Steps
  <1>4. ~RateAsked(t) => Measured(t, db)
    BY <1>2 DEF RateAsked
  <1> HIDE DEF t
  <1> QED
    BY <1>3, <1>4, OneMetric

LEMMA MetricAt ==
  ASSUME TotalsInv, NEW q \in Query, ~At(q, "idle"), ~RateAsked(query[q])
  PROVE  Measured(query[q], db)
  BY DEF TotalsInv

LEMMA ItemsFound ==
  ASSUME TotalsInv, RatesInv, NEW q \in Query, FindItems(q) PROVE TotalsInv'
  <1> DEFINE s == query[q]
             changed == [ids |-> ItemIds(db, s.ask),
                         step |-> IF s.ask.field = "items" THEN "counted" ELSE "load"]
             t == Updated(s, changed)
  <1>1. ~At(q, "idle") /\ Steps(q, changed) /\ Moves(q, changed) /\ s.step = "items"
    BY DEF FindItems, At, Moves
  <1>2. ASSUME ~RateAsked(s) PROVE Measured(t, db)
    <2>1. Asked(s, db)
      BY <1>1, <1>2, MetricAt DEF Measured
    <2>2. /\ DOMAIN t = DOMAIN s \cup {"ids", "step"}
          /\ t.ids = ItemIds(db, s.ask)
          /\ t.step = IF s.ask.field = "items" THEN "counted" ELSE "load"
          /\ t.ask = s.ask /\ t.got = s.got /\ t.saw = s.saw
      BY <2>1 DEF Updated, Asked
    <2> HIDE DEF s, t
    <2>3. Asked(t, db)
      BY <1>1, <2>1, <2>2 DEF Asked, MetricSteps
    <2>4. HasItems(t)
      BY <2>1, <2>2 DEF Asked, HasItems
    <2> QED
      BY <2>2, <2>3, <2>4 DEF Measured
  <1> HIDE DEF changed
  <1> QED
    BY <1>1, <1>2, Moved

LEMMA ItemsCounted ==
  ASSUME TotalsInv, RatesInv, NEW q \in Query, CountItems(q) PROVE TotalsInv'
  <1> DEFINE s == query[q]
             changed == [step |-> "answered",
                         answer |-> [p \in DOMAIN s.ids |-> Cardinality(s.ids[p])]]
             t == Updated(s, changed)
  <1>1. ~At(q, "idle") /\ Steps(q, changed) /\ Moves(q, changed) /\ s.step = "counted"
    BY DEF CountItems, At, Moves
  <1>2. ASSUME ~RateAsked(s) PROVE Measured(t, db)
    <2>1. Asked(s, db) /\ HasItems(s) /\ s.ask.field = "items"
      BY <1>1, <1>2, MetricAt DEF Measured, Asked
    <2>2. /\ DOMAIN t = DOMAIN s \cup {"answer", "step"}
          /\ t.answer = [p \in DOMAIN s.ids |-> Cardinality(s.ids[p])] /\ t.step = "answered"
          /\ t.ask = s.ask /\ t.got = s.got /\ t.saw = s.saw /\ t.ids = s.ids
      BY <2>1 DEF Updated, Asked, HasItems
    <2> HIDE DEF s, t
    <2>3. Asked(t, db)
      BY <2>1, <2>2 DEF Asked, MetricSteps
    <2>4. PICK d \in s.saw : s.ids = ItemIds(d, s.ask)
      BY <2>1 DEF HasItems
    <2>5. ASSUME NEW p \in DOMAIN t.answer
          PROVE  TotalOf(t, ItemIds(d, t.ask)[p], t.answer[p])
      <3>1. t.answer[p] = Cardinality(ItemIds(d, t.ask)[p])
        BY <2>2, <2>4
      <3>2. \A ids : Total(d, t.ask, ids, BYN) = Cardinality(ids)
        BY <2>1, <2>2 DEF Total
      <3>3. t.ask.field # "costInDefaultCurrency" /\ BYN \in Currencies /\ d \in t.saw
        BY <2>1, <2>2, CurrenciesKnown
      <3> QED
        BY <3>1, <3>2, <3>3 DEF TotalOf
    <2>6. HasAnswer(t)
      <3>1. "answer" \in DOMAIN t /\ DOMAIN t.answer = DOMAIN t.ids /\ d \in t.saw
        BY <2>2, <2>4
      <3> QED
        BY <2>5, <3>1 DEF HasAnswer
    <2>7. HasItems(t)
      BY <2>1, <2>2 DEF HasItems
    <2> QED
      BY <2>2, <2>3, <2>6, <2>7 DEF Measured
  <1> HIDE DEF changed
  <1> QED
    BY <1>1, <1>2, Moved

LEMMA ValuesLoaded ==
  ASSUME TotalsInv, RatesInv, NEW q \in Query, Load(q) PROVE TotalsInv'
  <1> DEFINE s == query[q]
             changed == [step |-> "reduce",
                         values |-> [i \in BatchOf(s) |->
                                       Loaded(db, s.ask.field, s.ask.ownFilter, i)]]
             t == Updated(s, changed)
  <1>1. /\ ~At(q, "idle") /\ Moves(q, changed) /\ s.step = "load"
        /\ s.ask.field # "costInDefaultCurrency"
    BY DEF Load, At, Moves
  <1>s. Steps(q, changed)
    BY DEF Load, Batch, BatchOf, Filter
  <1>2. ASSUME ~RateAsked(s) PROVE Measured(t, db)
    <2>1. Asked(s, db) /\ HasItems(s) /\ s.ask.field # "items"
      BY <1>1, <1>2, MetricAt DEF Measured, Asked
    <2>2. /\ DOMAIN t = DOMAIN s \cup {"values", "step"}
          /\ t.values = [i \in BatchOf(s) |-> Loaded(db, s.ask.field, s.ask.ownFilter, i)]
          /\ t.step = "reduce"
          /\ t.ask = s.ask /\ t.got = s.got /\ t.saw = s.saw /\ t.ids = s.ids
      BY <2>1 DEF Updated, Asked, HasItems
    <2> HIDE DEF s, t
    <2>3. Asked(t, db)
      BY <2>1, <2>2 DEF Asked, MetricSteps
    <2>4. HasItems(t)
      BY <2>1, <2>2 DEF HasItems
    <2>5. BatchOf(t) = BatchOf(s)
      BY <2>2 DEF BatchOf
    <2>6. IsData(db) /\ db \in t.saw /\ Aggregates(t.ask)
      BY <2>3 DEF Asked, IsDb
    <2>7. ASSUME NEW ids \in SUBSET BatchOf(t), ~Gap(t, ids) PROVE Measures(t, ids, db, BYN)
      <3>1. \/ t.ask.field = "costByCurrency"
            \/ /\ t.ask.field \in {"count", "firstPaymentDate", "lastPaymentDate"}
               /\ t.ask.ownFilter.ids = Absent
        BY <1>1, <2>1, <2>2, <2>6, <2>7 DEF Aggregates, Gap
      <3>2. \A i \in ids : t.values[i] = Total(db, t.ask, {i}, BYN)
        <4>1. ASSUME NEW i
              PROVE  Loaded(db, t.ask.field, t.ask.ownFilter, i) = Total(db, t.ask, {i}, BYN)
          BY <2>6, <3>1, LoadedIsTotal
        <4> QED
          BY <2>2, <2>5, <4>1
      <3>3. ASSUME t.ask.field = "firstPaymentDate", NEW i \in ids
            PROVE  Chosen(db, t.ask, {i}) # {}
        <4>1. Grouped(db, t.ask.ownFilter, i) # {}
          BY <2>6, <2>7, <3>3 DEF Gap
        <4>2. Grouped(db, t.ask.ownFilter, i) = Chosen(db, t.ask, {i})
          BY <2>6, <3>1, <3>3, SelectedAreChosen
        <4> QED
          BY <4>1, <4>2
      <3>4. Reducible(db, t.ask, ids, BYN)
        BY <1>1, <2>1, <2>2, <3>3 DEF Reducible
      <3> QED
        BY <1>1, <2>2, <3>2, <3>4 DEF Measures
    <2>8. HasValues(t)
      <3>1. "values" \in DOMAIN t /\ DOMAIN t.values = BatchOf(t)
        BY <2>2, <2>5
      <3>2. BYN \in Currencies
        BY CurrenciesKnown
      <3> QED
        BY <2>6, <2>7, <3>1, <3>2 DEF HasValues
    <2> QED
      BY <2>2, <2>3, <2>4, <2>8 DEF Measured
  <1> HIDE DEF changed
  <1> QED
    BY <1>1, <1>s, <1>2, Moved

LEMMA PaymentsFound ==
  ASSUME TotalsInv, RatesInv, NEW q \in Query, FindPayments(q) PROVE TotalsInv'
  <1> DEFINE s == query[q]
             none == [step |-> "reduce", values |-> <<>>]
             some == [step |-> "workspaces", found |-> FoundIn(db, s)]
  <1>1. ~At(q, "idle") /\ s.step = "load" /\ s.ask.field = "costInDefaultCurrency"
    BY DEF FindPayments, At
  <1>2. \/ BatchOf(s) = {} /\ Steps(q, none)
        \/ BatchOf(s) # {} /\ Steps(q, some)
    BY DEF FindPayments, Batch, BatchOf, Filter, FoundIn
  <1>3. Moves(q, none) /\ Moves(q, some)
    BY DEF Moves
  <1>4. ASSUME ~RateAsked(s), BatchOf(s) = {} PROVE Measured(Updated(s, none), db)
    <2> DEFINE t == Updated(s, none)
    <2>1. Asked(s, db) /\ HasItems(s)
      BY <1>1, <1>4, MetricAt DEF Measured
    <2>2. /\ DOMAIN t = DOMAIN s \cup {"values", "step"}
          /\ t.values = <<>> /\ t.step = "reduce"
          /\ t.ask = s.ask /\ t.got = s.got /\ t.saw = s.saw /\ t.ids = s.ids
      BY <2>1 DEF Updated, Asked, HasItems
    <2> HIDE DEF s, t
    <2>3. Asked(t, db)
      BY <2>1, <2>2 DEF Asked, MetricSteps
    <2>4. HasItems(t)
      BY <2>1, <2>2 DEF HasItems
    <2>5. BatchOf(t) = {} /\ DOMAIN t.values = {}
      BY <1>4, <2>2 DEF BatchOf
    <2>6. Reducible(db, t.ask, {}, BYN)
      BY <1>1, <2>2 DEF Reducible, Priced, Chosen
    <2>7. db \in t.saw /\ BYN \in Currencies /\ "values" \in DOMAIN t
      BY <2>2, <2>3, CurrenciesKnown DEF Asked
    <2>8. HasValues(t)
      <3>1. \A ids \in SUBSET BatchOf(t) : Measures(t, ids, db, BYN)
        BY <2>2, <2>5, <2>6 DEF Measures
      <3> QED
        BY <2>5, <2>7, <3>1 DEF HasValues
    <2>9. Measured(t, db)
      BY <2>2, <2>3, <2>4, <2>8 DEF Measured
    <2> QED
      BY <2>9 DEF t
  <1>5. ASSUME ~RateAsked(s), BatchOf(s) # {} PROVE Measured(Updated(s, some), db)
    <2> DEFINE t == Updated(s, some)
    <2>1. Asked(s, db) /\ HasItems(s)
      BY <1>1, <1>5, MetricAt DEF Measured
    <2>2. /\ DOMAIN t = DOMAIN s \cup {"found", "step"}
          /\ t.found = FoundIn(db, s) /\ t.step = "workspaces"
          /\ t.ask = s.ask /\ t.got = s.got /\ t.saw = s.saw /\ t.ids = s.ids
      BY <2>1 DEF Updated, Asked, HasItems
    <2> HIDE DEF s, t
    <2>3. Asked(t, db)
      BY <1>1, <2>1, <2>2 DEF Asked, MetricSteps
    <2>4. HasItems(t)
      BY <2>1, <2>2 DEF HasItems
    <2>5. BatchOf(t) = BatchOf(s) /\ FoundIn(db, t) = FoundIn(db, s)
      BY <2>2 DEF BatchOf, FoundIn
    <2>6. HasPayments(t)
      BY <1>5, <2>2, <2>3, <2>5 DEF HasPayments, Asked
    <2>7. Measured(t, db)
      BY <2>2, <2>3, <2>4, <2>6 DEF Measured
    <2> QED
      BY <2>7 DEF t
  <1> HIDE DEF none, some
  <1> QED
    BY <1>1, <1>2, <1>3, <1>4, <1>5, Moved

LEMMA WorkspacesFound ==
  ASSUME TotalsInv, RatesInv, NEW q \in Query, FindWorkspaces(q) PROVE TotalsInv'
  <1> DEFINE s == query[q]
             changed == [step |-> "currency",
                         places |-> {db.items[i].workspace : i \in BatchOf(s) \cap DOMAIN db.items}]
             t == Updated(s, changed)
  <1>1. ~At(q, "idle") /\ Moves(q, changed) /\ s.step = "workspaces"
    BY DEF FindWorkspaces, At, Moves
  <1>s. Steps(q, changed)
    BY DEF FindWorkspaces, Batch, BatchOf
  <1>2. ASSUME ~RateAsked(s) PROVE Measured(t, db)
    <2>1. Asked(s, db) /\ HasItems(s) /\ HasPayments(s)
      BY <1>1, <1>2, MetricAt DEF Measured
    <2>2. /\ DOMAIN t = DOMAIN s \cup {"places", "step"}
          /\ t.places = {db.items[i].workspace : i \in BatchOf(s) \cap DOMAIN db.items}
          /\ t.step = "currency" /\ t.found = s.found
          /\ t.ask = s.ask /\ t.got = s.got /\ t.saw = s.saw /\ t.ids = s.ids
      BY <2>1 DEF Updated, Asked, HasItems, HasPayments
    <2> HIDE DEF s, t
    <2>3. Asked(t, db)
      BY <1>1, <2>1, <2>2 DEF Asked, MetricSteps
    <2>4. HasItems(t)
      BY <2>1, <2>2 DEF HasItems
    <2>5. BatchOf(t) = BatchOf(s)
      BY <2>2 DEF BatchOf
    <2>6. \A d : FoundIn(d, t) = FoundIn(d, s)
      BY <2>2, <2>5 DEF FoundIn
    <2>7. HasPayments(t)
      BY <2>1, <2>2, <2>5, <2>6 DEF HasPayments
    <2>8. HasPlaces(t)
      BY <2>2, <2>3, <2>5 DEF HasPlaces, Asked
    <2> QED
      BY <2>2, <2>3, <2>4, <2>7, <2>8 DEF Measured
  <1> HIDE DEF changed
  <1> QED
    BY <1>1, <1>s, <1>2, Moved

-------------------------------------------------------------------------------
(* The steps a cost takes besides. *)

LEMMA CostLost ==
  ASSUME TotalsInv, RatesInv, NEW q \in Query, ~At(q, "idle"), NEW over, Lose(q, over),
         ~RateAsked(query[q]) =>
           /\ query[q].step # "items" /\ query[q].ask.field = "costInDefaultCurrency"
           /\ \/ over = "bank" /\ (MayFail \/ Vain(query[q]))
              \/ /\ over = "currencies"
                 /\ \E a, b \in CurrenciesOf(query[q].saw, BatchOf(query[q])) : a # b
  PROVE  TotalsInv'
  <1> DEFINE s == query[q]
             changed == [step |-> IF s.ask.view = "rate" THEN "error" ELSE "reduce",
                         values |-> <<>>, lost |-> over]
             t == Updated(s, changed)
  <1>1. Steps(q, changed) /\ Moves(q, changed)
    BY DEF Lose, Moves
  <1>2. ASSUME ~RateAsked(s) PROVE Measured(t, db)
    <2>1. Asked(s, db) /\ HasItems(s)
      BY <1>2, MetricAt DEF Measured
    <2>2. /\ DOMAIN t = DOMAIN s \cup {"values", "step", "lost"}
          /\ t.values = <<>> /\ t.step = "reduce" /\ t.lost = over
          /\ t.ask = s.ask /\ t.saw = s.saw /\ t.ids = s.ids
      BY <1>2, <2>1 DEF Updated, Asked, HasItems, RateAsked
    <2>i. /\ s.ask.field = "costInDefaultCurrency"
          /\ \/ over = "bank" /\ (MayFail \/ Vain(s))
             \/ over = "currencies" /\ \E a, b \in CurrenciesOf(s.saw, BatchOf(s)) : a # b
      BY <1>2
    <2> HIDE DEF s, t
    <2>3. Asked(t, db)
      BY <2>1, <2>2 DEF Asked, MetricSteps
    <2>4. HasItems(t)
      BY <2>1, <2>2 DEF HasItems
    <2>5. BatchOf(t) = BatchOf(s) /\ (Vain(s) => Vain(t))
      BY <2>2, LaterKeeps
    <2>6. Vain(t) \/ LostIt(t)
      BY <2>2, <2>5, <2>i DEF LostIt
    <2>7. HasValues(t)
      BY <2>2, <2>6 DEF HasValues
    <2> QED
      BY <2>2, <2>3, <2>4, <2>7 DEF Measured
  <1> HIDE DEF changed
  <1> QED
    BY <1>1, <1>2, Moved

DefaultsOf(d, s) == {d.defaults[w] : w \in s.places}
TheDefault(found) == IF found = {} THEN NoCurrency ELSE CHOOSE c \in found : TRUE

\* Of the places of a batch, one default currency: that of every item.
LEMMA OneDefault ==
  ASSUME NEW s, NEW now, Asked(s, now), HasItems(s), HasPlaces(s)
  PROVE  /\ Cardinality(DefaultsOf(now, s)) > 1 =>
              \E a, b \in CurrenciesOf(s.saw, BatchOf(s)) : a # b
         /\ ~ (Cardinality(DefaultsOf(now, s)) > 1) =>
              ItsCurrency(s, TheDefault(DefaultsOf(now, s)))
  <1> DEFINE found == {now.defaults[w] : w \in s.places}
             it == IF found = {} THEN NoCurrency ELSE CHOOSE c \in found : TRUE
  <1>1. PICK d \in s.saw :
          s.places = {d.items[i].workspace : i \in BatchOf(s) \cap DOMAIN d.items}
    BY DEF HasPlaces
  <1>2. /\ now \in s.saw /\ IsData(d) /\ IsData(now) /\ DOMAIN d.defaults = DOMAIN now.defaults
        /\ Aggregates(s.ask)
    BY DEF Asked, IsDb
  <1>3. IsFiniteSet(BatchOf(s))
    <2>1. PICK e \in s.saw : s.ids = ItemIds(e, s.ask)
      BY DEF HasItems
    <2>2. IsData(e)
      BY DEF Asked, IsDb
    <2> QED
      BY <1>2, <2>1, <2>2, BatchIsFinite
  <1> DEFINE here == BatchOf(s) \cap DOMAIN d.items
             f == [i \in here |-> now.defaults[d.items[i].workspace]]
  <1>4. found = {f[i] : i \in here} /\ DOMAIN f = here
    <2>1. s.places = {d.items[i].workspace : i \in here}
      BY <1>1
    <2>2. \A i \in here : f[i] = now.defaults[d.items[i].workspace]
      OBVIOUS
    <2>3. DOMAIN f = here
      OBVIOUS
    <2> HIDE DEF here, f
    <2>4. found = {now.defaults[d.items[i].workspace] : i \in here}
      BY <2>1
    <2>5. {f[i] : i \in here} = {now.defaults[d.items[i].workspace] : i \in here}
      BY <2>2
    <2> QED
      BY <2>3, <2>4, <2>5
  <1>5. IsFiniteSet(found)
    <2>1. IsFiniteSet(here)
      <3>1. here \in SUBSET BatchOf(s)
        OBVIOUS
      <3> QED
        BY <1>3, <3>1, FS_Subset
    <2> HIDE DEF f, here, found
    <2> QED
      BY <1>4, <2>1, ImageIsFinite
  <1>6. \A c \in found : \E i \in here : c = now.defaults[d.items[i].workspace]
    BY <1>4
  <1>7. found \subseteq CurrenciesOf(s.saw, BatchOf(s))
    <2>1. ASSUME NEW c \in found PROVE c \in CurrenciesOf(s.saw, BatchOf(s))
      <3>1. PICK i \in here : c = now.defaults[d.items[i].workspace]
        BY <1>6
      <3> HIDE DEF found, f
      <3>2. \E x \in s.saw, j \in BatchOf(s) \cap DOMAIN d.items :
              c = x.defaults[d.items[j].workspace]
        BY <1>2, <3>1
      <3> QED
        BY <3>2 DEF CurrenciesOf
    <2> QED
      BY <2>1
  <1>8. ASSUME Cardinality(found) > 1
        PROVE  \E a, b \in CurrenciesOf(s.saw, BatchOf(s)) : a # b
    <2> HIDE DEF found
    <2>1. found # {}
      BY <1>8, FS_EmptySet
    <2>2. PICK a \in found : TRUE
      BY <2>1
    <2>3. found # {a}
      <3>1. ~ (Cardinality({a}) > 1)
        <4>1. Cardinality({a}) = 1
          BY FS_Singleton
        <4> QED
          BY <4>1
      <3> QED
        BY <1>8, <3>1
    <2>4. \E b \in found : a # b
      BY <2>2, <2>3
    <2> QED
      BY <1>7, <2>4
  <1>9. ASSUME ~ (Cardinality(found) > 1) PROVE ItsCurrency(s, it)
    <2>1. \A i \in BatchOf(s) : Missed(s, i) \/ i \in here
      BY DEF Missed
    <2>2. \A i \in here : now.defaults[d.items[i].workspace] \in found
      BY <1>4
    <2>3. \A i \in here : i \in DOMAIN d.items /\ now.defaults[d.items[i].workspace] \in Currencies
      BY <1>2 DEF IsData
    <2> HIDE DEF f, here
    <2>4. CASE found = {}
      <3>1. \A i \in BatchOf(s) : Missed(s, i)
        BY <2>1, <2>2, <2>4
      <3> QED
        BY <1>2, <3>1 DEF ItsCurrency
    <2>5. CASE found # {}
      <3> HIDE DEF found
      <3>1. PICK x : found = {x}
        <4>1. Cardinality(found) \in Nat
          BY <1>5, FS_CardinalityType
        <4>2. Cardinality(found) # 0
          BY <1>5, <2>5, FS_EmptySet
        <4>3. Cardinality(found) = 1
          BY <1>9, <4>1, <4>2
        <4> QED
          BY <1>5, <4>3, FS_Singleton
      <3>2. it = x
        BY <3>1
      <3>3. \A i \in here : i \in DOMAIN d.items /\ x = now.defaults[d.items[i].workspace]
        BY <2>2, <2>3, <3>1
      <3>4. x \in Currencies
        <4>1. PICK i \in here : x = now.defaults[d.items[i].workspace]
          BY <1>6, <3>1
        <4> QED
          BY <2>3, <4>1
      <3>5. \A i \in BatchOf(s) :
              Missed(s, i) \/ (i \in DOMAIN d.items /\ x = now.defaults[d.items[i].workspace])
        BY <2>1, <3>3
      <3>6. ItsCurrency(s, x)
        BY <1>2, <3>4, <3>5 DEF ItsCurrency
      <3> QED
        BY <3>2, <3>6
    <2> QED
      BY <2>4, <2>5
  <1> QED
    BY <1>8, <1>9 DEF DefaultsOf, TheDefault

LEMMA CurrencyFound ==
  ASSUME TotalsInv, RatesInv, NEW q \in Query, GetDefaultCurrency(q) PROVE TotalsInv'
  <1> DEFINE s == query[q]
             found == DefaultsOf(db, s)
             it == TheDefault(found)
             keys == DerivativeKeys(Required(s.found, it))
             changed == [step |-> "rates", currency |-> it, todo |-> keys]
             t == Updated(s, changed)
  <1>1. ~At(q, "idle") /\ s.step = "currency"
    BY DEF GetDefaultCurrency, At
  <1>2. \/ Cardinality(found) > 1 /\ Lose(q, "currencies")
        \/ ~ (Cardinality(found) > 1) /\ Steps(q, changed)
    BY DEF GetDefaultCurrency, DefaultsOf, TheDefault
  <1>3. ASSUME ~RateAsked(s)
        PROVE  Asked(s, db) /\ HasItems(s) /\ HasPayments(s) /\ HasPlaces(s)
               /\ s.ask.field = "costInDefaultCurrency" /\ s.got = <<>>
    BY <1>1, <1>3, MetricAt DEF Measured, Asked
  <1>4. ASSUME ~RateAsked(s)
        PROVE  /\ Cardinality(found) > 1 =>
                    \E a, b \in CurrenciesOf(s.saw, BatchOf(s)) : a # b
               /\ ~ (Cardinality(found) > 1) => ItsCurrency(s, it)
    BY <1>3, <1>4, OneDefault
  <1>5. CASE Cardinality(found) > 1 /\ Lose(q, "currencies")
    BY <1>1, <1>3, <1>4, <1>5, CostLost
  <1>6. CASE ~ (Cardinality(found) > 1) /\ Steps(q, changed)
    <2>1. Moves(q, changed)
      BY DEF Moves
    <2>2. ASSUME ~RateAsked(s) PROVE Measured(t, db)
      <3>1. /\ Asked(s, db) /\ HasItems(s) /\ HasPayments(s) /\ s.got = <<>>
            /\ s.ask.field = "costInDefaultCurrency"
        BY <1>3, <2>2
      <3>2. ItsCurrency(s, it)
        BY <1>4, <1>6, <2>2
      <3> HIDE DEF it, found
      <3>3. /\ DOMAIN t = DOMAIN s \cup {"step", "currency", "todo"}
            /\ t.step = "rates" /\ t.currency = it /\ t.todo = keys
            /\ t.ask = s.ask /\ t.saw = s.saw /\ t.ids = s.ids /\ t.found = s.found
            /\ t.got = s.got
        BY <3>1 DEF Updated, Asked, HasItems, HasPayments
      <3> HIDE DEF s, t
      <3>4. Asked(t, db)
        BY <3>1, <3>3 DEF Asked, MetricSteps
      <3>5. HasItems(t)
        BY <3>1, <3>3 DEF HasItems
      <3>6. /\ BatchOf(t) = BatchOf(s)
            /\ \A c : ItsCurrency(s, c) => ItsCurrency(t, c)
            /\ \A d : FoundIn(d, t) = FoundIn(d, s)
        BY <3>3, LaterKeeps
      <3>7. HasPayments(t)
        BY <3>1, <3>3, <3>6 DEF HasPayments
      <3>8. KeysOf(t) = DerivativeKeys(Required(t.found, t.currency))
        BY <3>1, <3>3 DEF KeysOf
      <3>9. HasCurrency(t)
        BY <3>2, <3>3, <3>6, <3>8 DEF HasCurrency
      <3> QED
        BY <3>3, <3>4, <3>5, <3>7, <3>9 DEF Measured
    <2> HIDE DEF changed
    <2> QED
      BY <1>1, <1>6, <2>1, <2>2, Moved
  <1> QED
    BY <1>2, <1>5, <1>6

\* A step that gathers rates leaves all else, and what it is about.
LEMMA StillGathering ==
  ASSUME NEW s, NEW t, NEW now, Measured(s, now), s.step = "rates",
         {"step", "ask", "saw", "lost", "todo", "got", "pulled"} \subseteq DOMAIN t,
         DOMAIN s \subseteq DOMAIN t, t.step = s.step, t.ask = s.ask, t.saw = s.saw,
         t.ids = s.ids, t.found = s.found, t.currency = s.currency, KeysOf(t) = KeysOf(s)
  PROVE  Measured(t, now)
  <1>1. Asked(s, now) /\ HasItems(s) /\ HasPayments(s) /\ HasCurrency(s)
    BY DEF Measured
  <1>2. Asked(t, now)
    BY <1>1 DEF Asked
  <1>3. HasItems(t)
    BY <1>1 DEF HasItems
  <1>4. /\ BatchOf(t) = BatchOf(s)
        /\ \A c : ItsCurrency(s, c) => ItsCurrency(t, c)
        /\ \A d : FoundIn(d, t) = FoundIn(d, s)
    BY LaterKeeps
  <1>5. HasPayments(t)
    BY <1>1, <1>4 DEF HasPayments
  <1>6. HasCurrency(t)
    BY <1>1, <1>4 DEF HasCurrency
  <1> QED
    BY <1>2, <1>3, <1>5, <1>6 DEF Measured

LEMMA Gathering ==
  ASSUME TotalsInv, RatesInv, NEW q \in Query, query[q].step = "rates",
         NEW t, query' = [query EXCEPT ![q] = t], UNCHANGED db,
         DOMAIN query[q] \subseteq DOMAIN t,
         \A x \in DOMAIN query[q] \ {"todo", "got", "pulled"} : t[x] = query[q][x],
         KeysOf(t) = KeysOf(query[q])
  PROVE  TotalsInv'
  <1> DEFINE s == query[q]
  <1>1. ~At(q, "idle")
    BY DEF At
  <1>2. t.ask = s.ask
    BY <1>1 DEF RatesInv, UnderWay, Fields
  <1>3. ASSUME ~RateAsked(s) PROVE Measured(t, db)
    <2>1. Measured(s, db)
      BY <1>1, <1>3, MetricAt
    <2>2. {"step", "ask", "saw", "lost", "todo", "got", "pulled", "ids", "found", "currency"}
            \subseteq DOMAIN s
      BY <2>1 DEF Measured, Asked, HasItems, HasPayments, HasCurrency
    <2> HIDE DEF s
    <2>3. /\ DOMAIN s \subseteq DOMAIN t
          /\ \A x \in DOMAIN s \ {"todo", "got", "pulled"} : t[x] = s[x]
          /\ KeysOf(t) = KeysOf(s) /\ s.step = "rates"
      BY DEF s
    <2>4. /\ t.step = s.step /\ t.ask = s.ask /\ t.saw = s.saw
          /\ t.ids = s.ids /\ t.found = s.found /\ t.currency = s.currency
      BY <2>2, <2>3
    <2> QED
      BY <2>1, <2>2, <2>3, <2>4, StillGathering
  <1>4. ~RateAsked(t) => Measured(t, db)
    BY <1>2, <1>3 DEF RateAsked
  <1> QED
    BY <1>4, OneMetric

LEMMA RatesFound ==
  ASSUME TotalsInv, RatesInv, NEW q \in Query, FindRates(q) PROVE TotalsInv'
  <1> DEFINE s == query[q]
  <1>1. s.step = "rates" /\ ~At(q, "idle")
    BY DEF FindRates, At
  <1>2. PICK key \in s.todo : \E f \in Fillings({k \in s.todo : k[1] = key[1]}) :
          Steps(q, [got |-> Updated(s.got, f),
                    todo |-> s.todo \ {k \in s.todo : k[1] = key[1]}])
    BY DEF FindRates
  <1> DEFINE keys == {k \in s.todo : k[1] = key[1]}
  <1>3. PICK f \in Fillings(keys) : Steps(q, [got |-> Updated(s.got, f), todo |-> s.todo \ keys])
    BY <1>2
  <1> DEFINE t == Updated(s, [got |-> Updated(s.got, f), todo |-> s.todo \ keys])
  <1>4. query' = [query EXCEPT ![q] = t] /\ UNCHANGED db
    BY <1>3 DEF Steps
  <1>5. DOMAIN f = keys /\ keys \subseteq s.todo
    BY FillingsAreMaps
  <1> HIDE DEF s, keys
  <1>6. /\ DOMAIN s \subseteq DOMAIN t
        /\ \A x \in DOMAIN s \ {"todo", "got", "pulled"} : t[x] = s[x]
        /\ t.got = Updated(s.got, f) /\ t.todo = s.todo \ keys
    BY DEF Updated
  <1>7. DOMAIN Updated(s.got, f) = DOMAIN s.got \cup keys
    BY <1>5, UpdatedIs
  <1> HIDE DEF t
  <1>8. KeysOf(t) = KeysOf(s)
    BY <1>5, <1>6, <1>7 DEF KeysOf
  <1> QED
    BY <1>1, <1>4, <1>6, <1>8, Gathering DEF s

LEMMA RatePulled ==
  ASSUME TotalsInv, RatesInv, NEW q \in Query, Pull(q) PROVE TotalsInv'
  <1> DEFINE s == query[q]
  <1>1. s.step = "rates" /\ ~At(q, "idle")
    BY DEF Pull, At
  <1>2. PICK key \in Missing(q) :
          \/ Steps(q, [pulled |-> <<key, Published[key]>>])
          \/ (MayFail \/ key \notin DOMAIN Published) /\ Lose(q, "bank")
    BY DEF Pull
  <1>3. CASE Steps(q, [pulled |-> <<key, Published[key]>>])
    <2> DEFINE t == Updated(s, [pulled |-> <<key, Published[key]>>])
    <2>1. query' = [query EXCEPT ![q] = t] /\ UNCHANGED db
      BY <1>3 DEF Steps
    <2>u. {"todo", "got"} \subseteq DOMAIN s
      BY <1>1 DEF RatesInv, UnderWay, Fields
    <2> HIDE DEF s
    <2>2. /\ DOMAIN s \subseteq DOMAIN t
          /\ \A x \in DOMAIN s \ {"todo", "got", "pulled"} : t[x] = s[x]
          /\ t.got = s.got /\ t.todo = s.todo
      BY <2>u DEF Updated
    <2> HIDE DEF t
    <2>3. KeysOf(t) = KeysOf(s)
      BY <2>2 DEF KeysOf
    <2> QED
      BY <1>1, <2>1, <2>2, <2>3, Gathering DEF s
  <1>4. CASE (MayFail \/ key \notin DOMAIN Published) /\ Lose(q, "bank")
    <2>1. ASSUME ~RateAsked(s), ~Vain(s), ~MayFail PROVE FALSE
      <3>1. Asked(s, db) /\ HasPayments(s) /\ HasCurrency(s)
        BY <1>1, <2>1, MetricAt DEF Measured
      <3>f. s.ask.field = "costInDefaultCurrency"
        BY <1>1, <3>1 DEF Asked
      <3>2. key \notin DOMAIN Published
        BY <1>4, <2>1
      <3>3. key \in KeysOf(s)
        BY DEF Missing, KeysOf
      <3> HIDE DEF s
      <3>4. s.currency \in Currencies
        BY <2>1, <3>1, <3>f DEF HasCurrency, ItsCurrency, Vain
      <3>5. key \in DerivativeKeys(Required(s.found, s.currency))
        BY <3>1, <3>3 DEF HasCurrency
      <3>6. PICK dto \in Required(s.found, s.currency) :
              \E c \in {dto.fromCurrency, dto.toCurrency} \ {BYN} : key = <<c, dto.date>>
        BY <3>5 DEF DerivativeKeys
      <3>7. PICK p \in DOMAIN s.found :
              dto = Dto(s.found[p].currency, s.currency, s.found[p].date)
        BY <3>6 DEF Required, Range
      <3>8. PICK d \in s.saw : s.found = FoundIn(d, s)
        BY <3>1 DEF HasPayments
      <3>9. p \in DOMAIN d.payments /\ s.found[p] = d.payments[p]
        BY <3>7, <3>8 DEF FoundIn, Selected, Grouped, PaymentsOf
      <3>10. s.found[p].currency \in Currencies /\ s.found[p].date \in PaymentDays
        BY <3>1, <3>9 DEF Asked, IsDb, IsData, IsPayment
      <3>11. dto.fromCurrency \in Currencies /\ dto.toCurrency \in Currencies
             /\ dto.date \in PaymentDays
        BY <3>4, <3>7, <3>10 DEF Dto
      <3> QED
        BY <2>1, <3>2, <3>6, <3>11, BankPublishes
    <2>2. ASSUME ~RateAsked(s)
          PROVE  s.step # "items" /\ s.ask.field = "costInDefaultCurrency"
      BY <1>1, <2>2, MetricAt DEF Measured, Asked
    <2> QED
      BY <1>1, <1>4, <2>1, <2>2, CostLost
  <1> QED
    BY <1>2, <1>3, <1>4

LEMMA RateSaved ==
  ASSUME TotalsInv, RatesInv, NEW q \in Query, Save(q) PROVE TotalsInv'
  <1> DEFINE s == query[q]
             changed == [got |-> [s.got EXCEPT ![s.pulled[1]] = s.pulled[2]], pulled |-> <<>>]
             t == Updated(s, changed)
  <1>1. s.step = "rates" /\ ~At(q, "idle") /\ Steps(q, changed)
    BY DEF Save, At
  <1>2. query' = [query EXCEPT ![q] = t] /\ UNCHANGED db
    BY <1>1 DEF Steps
  <1>u. {"todo", "got"} \subseteq DOMAIN s
    BY <1>1 DEF RatesInv, UnderWay, Fields
  <1> HIDE DEF s
  <1>3. /\ DOMAIN s \subseteq DOMAIN t
        /\ \A x \in DOMAIN s \ {"todo", "got", "pulled"} : t[x] = s[x]
        /\ DOMAIN t.got = DOMAIN s.got /\ t.todo = s.todo
    BY <1>u DEF Updated
  <1> HIDE DEF t
  <1>4. KeysOf(t) = KeysOf(s)
    BY <1>3 DEF KeysOf
  <1> QED
    BY <1>1, <1>2, <1>3, <1>4, Gathering DEF s

-------------------------------------------------------------------------------
\* With nothing missing, a row is exchanged at the rates published for its day.
LEMMA Exchanged ==
  ASSUME NEW s, GotPublished(s), s.todo = {}, \A k \in DOMAIN s.got : s.got[k] # 0,
         NEW c \in Currencies, KeysOf(s) = DerivativeKeys(Required(s.found, c)),
         NEW p \in DOMAIN s.found, IsPayment(s.found[p])
  PROVE  LET row == s.found[p]
         IN  /\ Quotient(Dto(row.currency, c, row.date), s.got)
                  = PublishedRate(row.currency, c, row.date)
             /\ Times(row.cost, PublishedRate(row.currency, c, row.date)) \in Int
  <1> DEFINE row == s.found[p]
             from == row.currency
             day == row.date
             dto == Dto(from, c, day)
  <1>1. from \in Currencies /\ row.cost \in Int
    BY DEF IsPayment
  <1>2. dto.fromCurrency = from /\ dto.toCurrency = c /\ dto.date = day
    BY DEF Dto
  <1>3. ASSUME from # c PROVE dto \in Required(s.found, c)
    <2>1. row \in {x \in Range(s.found) : x.currency # c}
      BY <1>3 DEF Range
    <2> QED
      BY <2>1 DEF Required
  <1> HIDE DEF from, day, dto, row
  <1>4. ASSUME from # c, NEW x \in {from, c} \ {BYN}
        PROVE  /\ s.got[<<x, day>>] = Published[<<x, day>>]
               /\ Published[<<x, day>>] \in Nat \ {0}
    <2>1. <<x, day>> \in DerivativeKeys(Required(s.found, c))
      <3>1. dto \in {d \in Required(s.found, c) : d.fromCurrency # d.toCurrency}
        BY <1>2, <1>3, <1>4
      <3>2. <<x, day>> \in {<<y, dto.date>> : y \in {dto.fromCurrency, dto.toCurrency} \ {BYN}}
        BY <1>2, <1>4
      <3> QED
        BY <3>1, <3>2 DEF DerivativeKeys
    <2>2. <<x, day>> \in DOMAIN s.got
      BY <2>1 DEF KeysOf
    <2>3. x # NoCurrency
      BY <1>1, <1>4, CurrenciesKnown
    <2>4. InHand(s, <<x, day>>)
      BY <2>2 DEF GotPublished
    <2>5. <<x, day>> \in DOMAIN Published /\ s.got[<<x, day>>] = Published[<<x, day>>]
      BY <2>2, <2>3, <2>4 DEF InHand
    <2> QED
      BY <2>5, PublishedRates
  <1>5. Quotient(dto, s.got) = PublishedRate(from, c, day)
    BY <1>2, <1>4 DEF Quotient, PublishedRate
  <1>6. Times(row.cost, PublishedRate(from, c, day)) \in Int
    <2>1. PICK a \in Nat \ {0}, b \in Nat \ {0} : PublishedRate(from, c, day) = <<a, b>>
      BY <1>4 DEF PublishedRate
    <2>2. Times(row.cost, <<a, b>>) = (row.cost * a) \div b
      BY DEF Times
    <2>3. \A m \in Int : m \div b \in Int
      OBVIOUS
    <2>4. row.cost * a \in Int
      BY <1>1
    <2> QED
      BY <2>1, <2>2, <2>3, <2>4
  <1> QED
    BY <1>5, <1>6 DEF dto, from, day, row

\* The payments found are those chosen of each item.
LEMMA FoundAreChosen ==
  ASSUME NEW s, NEW d, IsData(d), Aggregates(s.ask), s.found = FoundIn(d, s)
  PROVE  /\ DOMAIN s.found = Chosen(d, s.ask, BatchOf(s))
         /\ \A p \in DOMAIN s.found : p \in DOMAIN d.payments /\ s.found[p] = d.payments[p]
         /\ \A i \in BatchOf(s) : {p \in DOMAIN s.found : s.found[p].itemId = i}
                                    = Chosen(d, s.ask, {i})
  <1>1. \A i : Selected(d, s.ask.ownFilter, i) = Chosen(d, s.ask, {i})
    BY SelectedAreChosen
  <1>2. DOMAIN s.found = UNION {Chosen(d, s.ask, {i}) : i \in BatchOf(s)}
    BY <1>1 DEF FoundIn
  <1>3. DOMAIN s.found = Chosen(d, s.ask, BatchOf(s))
    BY <1>2 DEF Chosen
  <1>4. \A p \in DOMAIN s.found : s.found[p] = d.payments[p]
    BY DEF FoundIn
  <1>5. \A p \in DOMAIN s.found : p \in DOMAIN d.payments
    BY <1>3 DEF Chosen
  <1>6. ASSUME NEW i \in BatchOf(s)
        PROVE  {p \in DOMAIN s.found : s.found[p].itemId = i} = Chosen(d, s.ask, {i})
    BY <1>3, <1>4, <1>6 DEF Chosen
  <1> QED
    BY <1>3, <1>4, <1>5, <1>6

\* The costs of the items, summed up at those rates, are their totals.
LEMMA CostIsItsTotal ==
  ASSUME NEW s, NEW d, IsData(d), Aggregates(s.ask), s.found = FoundIn(d, s),
         s.ask.field = "costInDefaultCurrency",
         GotPublished(s), s.todo = {}, \A k \in DOMAIN s.got : s.got[k] # 0,
         NEW c \in Currencies, KeysOf(s) = DerivativeKeys(Required(s.found, c))
  PROVE  /\ Reducible(d, s.ask, BatchOf(s), c)
         /\ \A i \in BatchOf(s) : Cost(s.found, i, c, s.got) = Total(d, s.ask, {i}, c)
  <1>1. /\ DOMAIN s.found = Chosen(d, s.ask, BatchOf(s))
        /\ \A p \in DOMAIN s.found : p \in DOMAIN d.payments /\ s.found[p] = d.payments[p]
        /\ \A i \in BatchOf(s) : {p \in DOMAIN s.found : s.found[p].itemId = i}
                                   = Chosen(d, s.ask, {i})
    BY FoundAreChosen
  <1>2. \A p \in DOMAIN s.found : IsPayment(s.found[p])
    BY <1>1 DEF IsData
  <1>3. ASSUME NEW p \in DOMAIN s.found
        PROVE  /\ PriceIn(d, p, c) \in Int
               /\ Times(s.found[p].cost,
                        Quotient(Dto(s.found[p].currency, c, s.found[p].date), s.got))
                    = PriceIn(d, p, c)
    <2>1. /\ Quotient(Dto(s.found[p].currency, c, s.found[p].date), s.got)
               = PublishedRate(s.found[p].currency, c, s.found[p].date)
          /\ Times(s.found[p].cost, PublishedRate(s.found[p].currency, c, s.found[p].date)) \in Int
      BY <1>2, Exchanged
    <2> QED
      BY <1>1, <2>1 DEF PriceIn
  <1>4. Reducible(d, s.ask, BatchOf(s), c)
    BY <1>1, <1>3 DEF Reducible, Priced
  <1>5. ASSUME NEW i \in BatchOf(s)
        PROVE  Cost(s.found, i, c, s.got) = Total(d, s.ask, {i}, c)
    <2> DEFINE f == [p \in DOMAIN s.found |->
                       Times(s.found[p].cost,
                             Quotient(Dto(s.found[p].currency, c, s.found[p].date), s.got))]
               ps == Chosen(d, s.ask, {i})
               g == [p \in ps |->
                       Times(d.payments[p].cost,
                             PublishedRate(d.payments[p].currency, c, d.payments[p].date))]
    <2>1. Cost(s.found, i, c, s.got) = SumFunctionOnSet(f, ps)
      BY <1>1 DEF Cost
    <2>2. Total(d, s.ask, {i}, c) = SumFunctionOnSet(g, ps)
      BY DEF Total
    <2>3. IsFiniteSet(ps)
      BY ChosenAreRows
    <2>4. ps \subseteq DOMAIN s.found
      BY <1>1
    <2>5. \A p \in DOMAIN s.found : f[p] = PriceIn(d, p, c)
      BY <1>3
    <2>6. \A p \in ps : g[p] = PriceIn(d, p, c)
      BY DEF PriceIn
    <2> HIDE DEF f, g, ps
    <2>7. (\A p \in ps : f[p] = g[p]) /\ Whole(f, ps)
      BY <1>3, <2>4, <2>5, <2>6 DEF Whole
    <2>8. SumFunctionOnSet(f, ps) = SumFunctionOnSet(g, ps)
      BY <2>3, <2>7, SumsSame
    <2> QED
      BY <2>1, <2>2, <2>8
  <1> QED
    BY <1>4, <1>5

LEMMA CostSummedUp ==
  ASSUME TotalsInv, RatesInv, NEW q \in Query, SumUp(q) PROVE TotalsInv'
  <1> DEFINE s == query[q]
             changed == [step |-> "reduce",
                         values |-> [i \in BatchOf(s) |-> Cost(s.found, i, s.currency, s.got)]]
             t == Updated(s, changed)
  <1>1. ~At(q, "idle") /\ Moves(q, changed) /\ s.step = "rates" /\ s.todo = {} /\ ~RateAsked(s)
        /\ \A k \in DOMAIN s.got : s.got[k] # 0
    BY DEF SumUp, Gathered, Missing, At, Moves, RateAsked
  <1>s. Steps(q, changed)
    BY DEF SumUp, Batch, BatchOf
  <1>2. GotPublished(s)
    BY <1>1 DEF RatesInv, UnderWay
  <1>3. Measured(t, db)
    <2>1. /\ Asked(s, db) /\ HasItems(s) /\ HasPayments(s) /\ HasCurrency(s)
          /\ s.ask.field = "costInDefaultCurrency"
      BY <1>1, MetricAt DEF Measured, Asked
    <2>2. /\ DOMAIN t = DOMAIN s \cup {"values", "step"}
          /\ t.values = [i \in BatchOf(s) |-> Cost(s.found, i, s.currency, s.got)]
          /\ t.step = "reduce"
          /\ t.ask = s.ask /\ t.saw = s.saw /\ t.ids = s.ids
      BY <2>1 DEF Updated, Asked, HasItems
    <2> HIDE DEF s, t
    <2>3. Asked(t, db)
      BY <2>1, <2>2 DEF Asked, MetricSteps
    <2>4. HasItems(t)
      BY <2>1, <2>2 DEF HasItems
    <2>5. /\ BatchOf(t) = BatchOf(s)
          /\ \A c : ItsCurrency(s, c) => ItsCurrency(t, c)
      BY <2>2, LaterKeeps
    <2>6. PICK d \in s.saw : s.found = FoundIn(d, s)
      BY <2>1 DEF HasPayments
    <2>c. /\ d \in t.saw /\ "values" \in DOMAIN t /\ DOMAIN t.values = BatchOf(t)
          /\ t.ask.field = "costInDefaultCurrency"
      BY <2>1, <2>2, <2>5, <2>6
    <2>v. ASSUME Vain(t) PROVE HasValues(t)
      <3>1. ASSUME NEW ids \in SUBSET BatchOf(t), ~Gap(t, ids) PROVE Measures(t, ids, d, BYN)
        <4>1. ids = {}
          BY <2>c, <2>v, <3>1 DEF Gap, Vain
        <4>2. Chosen(d, t.ask, {}) = {}
          BY DEF Chosen
        <4> QED
          BY <2>c, <4>1, <4>2 DEF Measures, Reducible, Priced
      <3>2. BYN \in Currencies
        BY CurrenciesKnown
      <3>3. \A ids \in SUBSET BatchOf(t) : Gap(t, ids) \/ Measures(t, ids, d, BYN)
        BY <3>1
      <3> QED
        BY <2>c, <3>2, <3>3 DEF HasValues
    <2>w. ASSUME ~Vain(t) PROVE HasValues(t)
      <3> DEFINE c == s.currency
      <3>1. ItsCurrency(t, c)
        BY <2>1, <2>5 DEF HasCurrency
      <3>2. c \in Currencies
        BY <2>c, <2>w, <3>1 DEF ItsCurrency, Vain
      <3>4. IsData(d) /\ Aggregates(s.ask) /\ KeysOf(s) = DerivativeKeys(Required(s.found, c))
        BY <2>1, <2>6 DEF Asked, IsDb, HasCurrency
      <3> HIDE DEF c
      <3>5. /\ Reducible(d, t.ask, BatchOf(t), c)
            /\ \A i \in BatchOf(t) : Cost(s.found, i, c, s.got) = Total(d, t.ask, {i}, c)
        BY <1>1, <1>2, <2>1, <2>2, <2>5, <2>6, <3>2, <3>4, CostIsItsTotal
      <3>6. ASSUME NEW ids \in SUBSET BatchOf(t), ~Gap(t, ids) PROVE Measures(t, ids, d, c)
        <4>1. Reducible(d, t.ask, ids, c)
          <5>1. Chosen(d, t.ask, ids) \subseteq Chosen(d, t.ask, BatchOf(t))
            BY DEF Chosen
          <5> QED
            BY <2>c, <3>5, <5>1 DEF Reducible, Priced
        <4>2. \A i \in ids : t.values[i] = Total(d, t.ask, {i}, c)
          BY <2>2, <2>5, <3>5 DEF c
        <4>3. ASSUME ids # {} PROVE c \in CurrenciesOf(t.saw, ids)
          <5>1. PICK i \in ids : TRUE
            BY <4>3
          <5>2. ~Missed(t, i)
            BY <2>c, <3>6 DEF Gap
          <5>3. PICK x \in t.saw, y \in t.saw : \A j \in BatchOf(t) :
                  Missed(t, j) \/ (j \in DOMAIN y.items /\ c = x.defaults[y.items[j].workspace])
            BY <3>1 DEF ItsCurrency
          <5>4. i \in ids \cap DOMAIN y.items /\ c = x.defaults[y.items[i].workspace]
            BY <5>2, <5>3
          <5>5. \E z \in t.saw, j \in ids \cap DOMAIN y.items :
                  c = z.defaults[y.items[j].workspace]
            BY <5>4
          <5> QED
            BY <5>5 DEF CurrenciesOf
        <4> QED
          BY <4>1, <4>2, <4>3 DEF Measures
      <3>7. \A ids \in SUBSET BatchOf(t) : Gap(t, ids) \/ Measures(t, ids, d, c)
        BY <3>6
      <3> QED
        BY <2>c, <3>2, <3>7 DEF HasValues
    <2>7. HasValues(t)
      BY <2>v, <2>w
    <2> QED
      BY <2>2, <2>3, <2>4, <2>7 DEF Measured
  <1> HIDE DEF changed
  <1> QED
    BY <1>1, <1>s, <1>3, Moved

LEMMA ValuesReduced ==
  ASSUME TotalsInv, RatesInv, NEW q \in Query, Reduce(q) PROVE TotalsInv'
  <1> DEFINE s == query[q]
  <1>1. ~At(q, "idle") /\ s.step = "reduce"
    BY DEF Reduce, At
  <1>2. PICK order \in SetToSeqs(DOMAIN s.values) :
          Steps(q, [step |-> "answered",
                    answer |-> [p \in DOMAIN s.ids |->
                                  Reduced(s.ask.field, s.values, s.ids[p], order)]])
    BY DEF Reduce
  <1> DEFINE changed == [step |-> "answered",
                         answer |-> [p \in DOMAIN s.ids |->
                                       Reduced(s.ask.field, s.values, s.ids[p], order)]]
             t == Updated(s, changed)
  <1>3. Moves(q, changed)
    BY DEF Moves
  <1>4. ASSUME ~RateAsked(s) PROVE Measured(t, db)
    <2>1. Asked(s, db) /\ HasItems(s) /\ HasValues(s)
      BY <1>1, <1>4, MetricAt DEF Measured
    <2>2. /\ DOMAIN t = DOMAIN s \cup {"answer", "step"}
          /\ t.answer = [p \in DOMAIN s.ids |-> Reduced(s.ask.field, s.values, s.ids[p], order)]
          /\ t.step = "answered" /\ t.lost = s.lost
          /\ t.ask = s.ask /\ t.saw = s.saw /\ t.ids = s.ids
      BY <2>1 DEF Updated, Asked, HasItems
    <2> HIDE DEF s, t
    <2>3. Asked(t, db)
      BY <2>1, <2>2 DEF Asked, MetricSteps
    <2>4. HasItems(t)
      BY <2>1, <2>2 DEF HasItems
    <2>5. /\ BatchOf(t) = BatchOf(s) /\ (\A ids : Gap(s, ids) => Gap(t, ids))
          /\ (LostIt(s) => LostIt(t))
          /\ \A ids, v : TotalOf(s, ids, v) => TotalOf(t, ids, v)
      BY <2>2, LaterKeeps
    <2>6. PICK e \in s.saw : s.ids = ItemIds(e, s.ask)
      BY <2>1 DEF HasItems
    <2>c. /\ IsData(e) /\ Aggregates(s.ask) /\ e \in t.saw
          /\ "answer" \in DOMAIN t /\ DOMAIN t.answer = DOMAIN t.ids
          /\ \A p \in DOMAIN t.ids : /\ s.ids[p] \in SUBSET BatchOf(s)
                                    /\ t.ids[p] = s.ids[p] /\ s.ids[p] = ItemIds(e, t.ask)[p]
      BY <2>1, <2>2, <2>6 DEF Asked, IsDb, BatchOf
    <2>7. ASSUME s.values = <<>>, LostIt(s) \/ Vain(s) PROVE HasAnswer(t)
      <3>1. DOMAIN s.values = {}
        BY <2>7
      <3>2. order \in SetToSeqs({})
        BY <3>1
      <3>3. DOMAIN order = 1..0
        <4>1. IsFiniteSet({}) /\ Cardinality({}) = 0
          BY FS_EmptySet
        <4>2. DOMAIN order = 1..Cardinality({})
          BY <3>2, <4>1, OrdersAreOnto
        <4> QED
          BY <4>1, <4>2
      <3>f. s.ask.field = "costInDefaultCurrency"
        BY <2>7 DEF LostIt, Vain
      <3>4. ASSUME NEW p \in DOMAIN t.answer
            PROVE  t.answer[p] = defaultValue(s.ask.field) /\ t.answer[p] = 0
        <4>1. PICK a : /\ a[0] = defaultValue(s.ask.field)
                       /\ Reduced(s.ask.field, s.values, s.ids[p], order) = a[0]
          <5> DEFINE field == s.ask.field
                     values == s.values
                     ids == s.ids[p]
          <5> HIDE DEF field, values, ids
          <5>1. 0 \in Nat
            OBVIOUS
          <5>2. \E a : a[0] = defaultValue(field) /\ Reduced(field, values, ids, order) = a[0]
            BY <3>3, <5>1, ReducedStepByStep
          <5> QED
            BY <5>2 DEF field, values, ids
        <4>2. defaultValue(s.ask.field) = 0
          BY <3>f DEF defaultValue
        <4> QED
          BY <2>2, <2>c, <4>1, <4>2
      <3>5. CASE LostIt(s)
        BY <2>5, <2>c, <3>4, <3>5 DEF HasAnswer
      <3>6. CASE Vain(s)
        <4>1. ASSUME NEW p \in DOMAIN t.answer, ~Gap(s, s.ids[p])
              PROVE  TotalOf(t, ItemIds(e, t.ask)[p], t.answer[p])
          <5>1. s.ids[p] = {}
            BY <2>c, <3>6, <3>f, <4>1 DEF Gap, Vain
          <5>2. t.answer[p] = Total(e, t.ask, {}, BYN)
            BY <2>2, <2>c, <3>4, TotalOfNone
          <5>3. ItemIds(e, t.ask)[p] = {}
            BY <2>c, <5>1
          <5> QED
            BY <2>c, <5>2, <5>3, CurrenciesKnown DEF TotalOf
        <4> QED
          BY <2>5, <2>c, <4>1 DEF HasAnswer
      <3> QED
        BY <2>7, <3>5, <3>6
    <2>8. ASSUME DOMAIN s.values = BatchOf(s),
                 \E d \in s.saw, c \in Currencies :
                    \A ids \in SUBSET BatchOf(s) : Gap(s, ids) \/ Measures(s, ids, d, c)
          PROVE  HasAnswer(t)
      <3>1. PICK d \in s.saw, c \in Currencies :
              \A ids \in SUBSET BatchOf(s) : Gap(s, ids) \/ Measures(s, ids, d, c)
        BY <2>8
      <3>2. IsData(d)
        BY <2>1 DEF Asked, IsDb
      <3>4. IsFiniteSet(BatchOf(s))
        BY <2>6, <2>c, BatchIsFinite
      <3>5. order \in SetToSeqs(BatchOf(s))
        BY <2>8
      <3>6. ASSUME NEW p \in DOMAIN t.answer, ~Gap(s, s.ids[p])
            PROVE  TotalOf(t, ItemIds(e, t.ask)[p], t.answer[p])
        <4> DEFINE batch == BatchOf(s)
                   values == s.values
                   ids == s.ids[p]
                   ask == s.ask
        <4>1. ids \in SUBSET batch /\ Measures(s, ids, d, c)
          BY <2>c, <3>1, <3>6
        <4>2. Reduced(ask.field, values, ids, order) = Total(d, ask, ids, c)
          <5>1. /\ IsData(d) /\ Aggregates(ask) /\ IsFiniteSet(batch)
                /\ Tabled(d, ask, ids, c, values) /\ Reducible(d, ask, ids, c)
                /\ ids \in SUBSET batch /\ order \in SetToSeqs(batch)
            BY <2>c, <3>2, <3>4, <3>5, <4>1 DEF Tabled, Measures
          <5> HIDE DEF batch, values, ids, ask
          <5> QED
            BY <5>1, ReducedIsTotal
        <4>3. t.answer[p] = Total(d, s.ask, s.ids[p], c)
          BY <2>2, <2>c, <4>2
        <4>4. TotalOf(s, s.ids[p], t.answer[p])
          BY <3>1, <4>1, <4>3 DEF TotalOf, Measures
        <4> QED
          BY <2>5, <2>c, <4>4
      <3> QED
        BY <2>5, <2>c, <3>6 DEF HasAnswer
    <2>9. HasAnswer(t)
      BY <2>1, <2>7, <2>8 DEF HasValues
    <2> QED
      BY <2>2, <2>3, <2>4, <2>9 DEF Measured
  <1> HIDE DEF changed
  <1>5. Steps(q, changed)
    BY <1>2 DEF changed
  <1> QED
    BY <1>1, <1>3, <1>4, <1>5, Moved

-------------------------------------------------------------------------------
(* How a query begins and ends, and the theorems.                            *)

LEMMA MetricAsked ==
  ASSUME TotalsInv, RatesInv, NEW q \in Query, Asks(q) PROVE TotalsInv'
  <1>1. PICK ask \in Worlds[world].offered[q] :
          query' = [query EXCEPT ![q] =
                     [step |-> IF ask.view = "rate" THEN "rates" ELSE "items",
                      ask |-> ask, saw |-> {db},
                      todo |-> IF ask.view = "rate" THEN DerivativeKeys({ask.dto}) ELSE {},
                      got |-> <<>>, pulled |-> <<>>, lost |-> "no"]]
    BY DEF Asks
  <1> DEFINE t == [step |-> IF ask.view = "rate" THEN "rates" ELSE "items",
                   ask |-> ask, saw |-> {db},
                   todo |-> IF ask.view = "rate" THEN DerivativeKeys({ask.dto}) ELSE {},
                   got |-> <<>>, pulled |-> <<>>, lost |-> "no"]
  <1>2. query' = [query EXCEPT ![q] = t] /\ UNCHANGED db
    BY <1>1 DEF Asks
  <1>3. ASSUME ~RateAsked(t) PROVE Measured(t, db)
    <2>1. ask.view # "rate" /\ t.step = "items"
      BY <1>3 DEF RateAsked
    <2>2. Aggregates(t.ask)
      BY <2>1, AsksAreTyped DEF RatesInv
    <2>3. t.saw = {db} /\ IsFiniteSet({db}) /\ IsDb(db)
      BY FS_Singleton DEF TotalsInv
    <2>4. /\ DOMAIN t = {"step", "ask", "saw", "lost", "todo", "got", "pulled"}
          /\ t.got = <<>>
      OBVIOUS
    <2> HIDE DEF t
    <2>5. Asked(t, db)
      BY <2>1, <2>2, <2>3, <2>4 DEF Asked, MetricSteps
    <2> QED
      BY <2>1, <2>5 DEF Measured
  <1> HIDE DEF t
  <1> QED
    BY <1>2, <1>3, OneMetric

LEMMA RateGiven ==
  ASSUME TotalsInv, RatesInv, NEW q \in Query, RateOf(q) PROVE TotalsInv'
  <1> DEFINE changed == [step |-> "answered",
                         answer |-> [x \in {"rate"} |-> Quotient(query[q].ask.dto, query[q].got)]]
  <1>1. ~At(q, "idle") /\ RateAsked(query[q]) /\ Steps(q, changed)
    BY DEF RateOf, Gathered, At, RateAsked
  <1>2. Moves(q, changed)
    BY DEF Moves
  <1> HIDE DEF changed
  <1> QED
    BY <1>1, <1>2, Moved

LEMMA AnswerTaken ==
  ASSUME TotalsInv, RatesInv, NEW q \in Query, Finish(q) PROVE TotalsInv'
  <1>1. query' = [query EXCEPT ![q] = Idle] /\ UNCHANGED db
    BY DEF Finish
  <1>2. Idle.step = "idle"
    BY DEF Idle
  <1> QED
    BY <1>1, <1>2, OneMetric

LEMMA TotalsStart == Init => TotalsInv
  <1> SUFFICES ASSUME Init PROVE TotalsInv
    OBVIOUS
  <1>1. world \in DOMAIN Worlds /\ db = Worlds[world].db /\ query = [q \in Query |-> Idle]
    BY DEF Init
  <1>2. Idle.step = "idle"
    BY DEF Idle
  <1>3. IsDb(db)
    BY <1>1, WorldsAreTyped DEF IsDb, PaymentDays
  <1> QED
    BY <1>1, <1>2, <1>3 DEF TotalsInv, At

LEMMA TotalsStep == TotalsInv /\ RatesInv /\ [Next]_vars => TotalsInv'
  <1> SUFFICES ASSUME TotalsInv, RatesInv, [Next]_vars PROVE TotalsInv'
    OBVIOUS
  <1>1. ASSUME NEW q \in Query, Asks(q) \/ Step(q) \/ Finish(q) PROVE TotalsInv'
    BY <1>1, MetricAsked, AnswerTaken, ItemsFound, ItemsCounted, ValuesLoaded, PaymentsFound,
       WorkspacesFound, CurrencyFound, RatesFound, RatePulled, RateSaved, RateGiven,
       CostSummedUp, ValuesReduced DEF Step
  <1>2. CASE Others
    BY <1>2, OthersKeepTotals
  <1>3. CASE UNCHANGED vars
    BY <1>3 DEF vars, TotalsInv, At
  <1> QED
    BY <1>1, <1>2, <1>3 DEF Next

(* The inductive invariant: what each query has read, when, and what the     *)
(* values and answers it has so far are the metrics of.                      *)
THEOREM TotalsInvariantHolds == Spec => []TotalsInv
  <1>1. Init => RatesInv /\ TotalsInv
    BY InvStart, TotalsStart
  <1>2. (RatesInv /\ TotalsInv) /\ [Next]_vars => (RatesInv /\ TotalsInv)'
    BY StepKeeps, TotalsStep
  <1> QED
    BY <1>1, <1>2, PTL DEF Spec

(* The items the resolvers find of a parent are those that match the filters *)
(* by what the filters mean.  (getWhereClause and the loaders of the ids)    *)
LEMMA ItemsAreTheParents ==
  ASSUME NEW d, NEW ask, Aggregates(ask), NEW p \in DOMAIN ItemIds(d, ask)
  PROVE  ItemIds(d, ask)[p] = ItemsOf(d, ask, p)
  <1> DEFINE f == ask.itemsFilter
             days == ask.paymentsFilter
             Paid(i) == \/ days.dateFrom = Absent /\ days.dateTo = Absent
                        \/ \E x \in DOMAIN d.payments :
                             /\ d.payments[x].itemId = i
                             /\ days.dateFrom # Absent => days.dateFrom <= d.payments[x].date
                             /\ days.dateTo # Absent => d.payments[x].date <= days.dateTo
  <1>1. \A i : Paid(i) <=> (days.dateFrom # Absent \/ days.dateTo # Absent =>
                             \E x \in PaymentsOf(d, i) : InDates(days, d.payments[x]))
    BY DEF PaymentsOf, InDates
  <1>2. ASSUME NEW g, NEW i
        PROVE  ItemMatches(d, g, days, i) <=>
                 /\ g.tagIds \notin {Absent, {}} => g.tagIds \cap d.items[i].tags # {}
                 /\ g.title # Absent => g.title \in d.items[i].words
                 /\ Paid(i)
    BY <1>1 DEF ItemMatches
  <1>3. ask.view # "item" =>
          ItemsOf(d, ask, p) =
            {i \in DOMAIN d.items :
               /\ ask.view = "workspace" => d.items[i].workspace = p
               /\ IF ask.view = "tag" THEN p \in d.items[i].tags
                  ELSE f.tagIds \in {Absent, {}} \/ \E t \in f.tagIds : t \in d.items[i].tags
               /\ f.title # Absent => f.title \in d.items[i].words
               /\ Paid(i)}
    BY DEF ItemsOf
  <1> HIDE DEF Paid, days, f
  <1>4. CASE ask.view = "query"
    BY <1>2, <1>3, <1>4 DEF ItemIds, getIds, f, days
  <1>5. CASE ask.view = "workspace"
    BY <1>2, <1>3, <1>5 DEF ItemIds, getIds, f, days
  <1>6. CASE ask.view = "tag"
    <2> DEFINE g == [ask.itemsFilter EXCEPT !.tagIds = ask.parents]
    <2>1. g.tagIds = ask.parents /\ g.title = f.title
      BY DEF Aggregates, f
    <2> HIDE DEF g
    <2>2. ItemIds(d, ask) = [t \in ask.parents |->
            {i \in getIds(d, g, days) : t \in d.items[i].tags}]
      BY <1>6 DEF ItemIds, g, days
    <2>3. p \in ask.parents
      BY <2>2
    <2>4. ItemIds(d, ask)[p] = {i \in getIds(d, g, days) : p \in d.items[i].tags}
      BY <2>2, <2>3
    <2>5. ItemsOf(d, ask, p) =
            {i \in DOMAIN d.items : /\ p \in d.items[i].tags
                                    /\ f.title # Absent => f.title \in d.items[i].words
                                    /\ Paid(i)}
      BY <1>3, <1>6
    <2>6. \A i : i \in getIds(d, g, days) <=> i \in DOMAIN d.items /\ ItemMatches(d, g, days, i)
      BY DEF getIds
    <2>7. \A i : p \in d.items[i].tags =>
            (ItemMatches(d, g, days, i) <=>
               (f.title # Absent => f.title \in d.items[i].words) /\ Paid(i))
      BY <1>2, <2>1, <2>3
    <2> QED
      BY <2>4, <2>5, <2>6, <2>7
  <1>7. CASE ask.view = "item"
    BY <1>7 DEF ItemIds, ItemsOf
  <1> QED
    BY <1>4, <1>5, <1>6, <1>7 DEF Aggregates

LEMMA SameParents ==
  ASSUME NEW ask, Aggregates(ask), NEW d, NEW e
  PROVE  DOMAIN ItemIds(d, ask) = DOMAIN ItemIds(e, ask)
  BY DEF ItemIds, Aggregates

\* v, a total at one moment, is among those a query may answer.
LEMMA TotalIsAmong ==
  ASSUME NEW s, Aggregates(s.ask), NEW p, NEW d \in s.saw, NEW v,
         TotalOf(s, ItemsOf(d, s.ask, p), v)
  PROVE  v \in Totals(s.ask, s.saw, p)
  <1> DEFINE ids == ItemsOf(d, s.ask, p)
             known == CurrenciesOf(s.saw, ids)
             names == IF known = {} THEN {BYN} ELSE known
  <1>1. PICK e \in s.saw, c \in Currencies :
          /\ v = Total(e, s.ask, ids, c)
          /\ s.ask.field = "costInDefaultCurrency" => ids = {} \/ c \in known
    BY DEF TotalOf
  <1> HIDE DEF ids, known
  <1>2. \E x \in names : v = Total(e, s.ask, ids, x)
    <2>1. names # {}
      OBVIOUS
    <2>2. PICK x \in names : TRUE
      BY <2>1
    <2>3. CASE s.ask.field # "costInDefaultCurrency"
      <3>1. Total(e, s.ask, ids, c) = Total(e, s.ask, ids, x)
        BY <2>3 DEF Total, Aggregates
      <3> QED
        BY <1>1, <2>2, <3>1
    <2>4. CASE s.ask.field = "costInDefaultCurrency" /\ c \in known
      BY <1>1, <2>4
    <2>5. CASE s.ask.field = "costInDefaultCurrency" /\ ids = {}
      <3>1. Total(e, s.ask, {}, c) = Total(e, s.ask, {}, x)
        BY TotalOfNone
      <3> QED
        BY <1>1, <2>2, <2>5, <3>1
    <2> QED
      BY <1>1, <2>3, <2>4, <2>5
  <1>3. v \in {Total(x, s.ask, ids, y) : x \in s.saw, y \in names}
    BY <1>2
  <1> QED
    BY <1>3 DEF Totals, ids, known

(* However reads and changes interleave, whatever is batched together and in *)
(* whatever order the items are reduced, each parent is answered the metric  *)
(* of its own items that match, under the filter of the field, or falls into *)
(* a gap KnownGap names.  (the loaders, getCostInDefaultCurrencyByItemIds    *)
(* and the resolvers' reductions)                                            *)
THEOREM AnswersStayTotals == Spec => []AnswersAreTotals
  <1>1. ASSUME TotalsInv, NEW q \in Query, Answered(q), NEW p \in DOMAIN query[q].answer
        PROVE  Exact(q, p) \/ KnownGap(q, p)
    <2> DEFINE s == query[q]
    <2>1. Asked(s, db) /\ HasItems(s) /\ HasAnswer(s)
      BY <1>1 DEF TotalsInv, Measured, Answered, At, RateAsked
    <2>2. Batch(q) = BatchOf(s) /\ Filter(q) = s.ask.ownFilter
      BY DEF Batch, BatchOf, Filter
    <2>3. ASSUME Gap(s, s.ids[p]) PROVE KnownGap(q, p)
      BY <2>2, <2>3 DEF Gap, Missed, KnownGap, EmptyItem, Vanished
    <2>4. ASSUME LostIt(s), s.answer[p] = 0 PROVE KnownGap(q, p)
      <3>1. ASSUME NEW a \in CurrenciesOf(s.saw, BatchOf(s)),
                   NEW b \in CurrenciesOf(s.saw, BatchOf(s)), a # b
            PROVE  SeveralCurrencies(q)
        <4> DEFINE all == CurrenciesOf(s.saw, BatchOf(s))
        <4>1. IsFiniteSet(all)
          BY <2>1, CurrenciesAreFinite DEF Asked, IsDb
        <4> HIDE DEF all
        <4>2. Cardinality(all) \in Nat
          BY <4>1, FS_CardinalityType
        <4>3. Cardinality(all) # 0 /\ Cardinality(all) # 1
          <5>1. a \in all /\ b \in all
            BY DEF all
          <5>2. Cardinality(all) # 0
            BY <4>1, <5>1, FS_EmptySet
          <5>3. Cardinality(all) # 1
            BY <3>1, <4>1, <5>1, FS_Singleton
          <5> QED
            BY <5>2, <5>3
        <4>4. Cardinality(all) > 1
          BY <4>2, <4>3
        <4> QED
          BY <2>2, <4>4 DEF SeveralCurrencies, all
      <3>2. \/ s.lost = "bank" /\ MayFail
            \/ s.lost = "currencies" /\ SeveralCurrencies(q)
        BY <2>4, <3>1 DEF LostIt
      <3> QED
        BY <2>4, <3>2 DEF KnownGap
    <2>5. ASSUME NEW d \in s.saw, TotalOf(s, ItemIds(d, s.ask)[p], s.answer[p])
          PROVE  Exact(q, p)
      <3>1. Aggregates(s.ask)
        BY <2>1 DEF Asked
      <3>2. p \in DOMAIN ItemIds(d, s.ask)
        <4>1. PICK e \in s.saw : s.ids = ItemIds(e, s.ask)
          BY <2>1 DEF HasItems
        <4>2. p \in DOMAIN s.ids
          BY <2>1 DEF HasAnswer
        <4> QED
          BY <3>1, <4>1, <4>2, SameParents
      <3>3. TotalOf(s, ItemsOf(d, s.ask, p), s.answer[p])
        BY <2>5, <3>1, <3>2, ItemsAreTheParents
      <3>4. s.answer[p] \in Totals(s.ask, s.saw, p)
        BY <3>1, <3>3, TotalIsAmong
      <3> QED
        BY <3>4 DEF Exact
    <2>6. p \in DOMAIN s.answer
      BY <1>1
    <2> HIDE DEF s
    <2> QED
      BY <2>1, <2>3, <2>4, <2>5, <2>6 DEF HasAnswer
  <1>2. TotalsInv => AnswersAreTotals
    BY <1>1 DEF AnswersAreTotals
  <1> QED
    BY <1>2, TotalsInvariantHolds, PTL
===============================================================================

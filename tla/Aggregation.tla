----------------------------- MODULE Aggregation -----------------------------
(* Aggregated metrics (src/src/items-aggregation, payments-aggregation,      *)
(* item-cost): a query finds the items of every parent (all, each workspace, *)
(* each tag, one item), a data loader fetches one metric for the items of    *)
(* all parents in one batch, and the resolver reduces the values of each     *)
(* parent's items.  Every read is a query of its own; the database changes   *)
(* between them.                                                             *)
EXTENDS CurrencyRates, SequencesExt

CONSTANTS
  Query,        \* queries that may be under way at once
  Worlds,       \* where to begin: name -> [db, offered: query -> what it may ask]
  Late,         \* payments that may be added: id -> row
  Currencies,   \* BYN and the others
  Absent,       \* an argument, or a bound of a filter, that is not given
  MaxChanges,   \* bound: changes by others, over the whole behaviour
  MayFail       \* whether the bank may fail to answer

ASSUME WorldsAsk == \A w \in DOMAIN Worlds : DOMAIN Worlds[w].offered = Query
ASSUME ChangesBound == MaxChanges \in Nat
ASSUME CurrenciesKnown == BYN \in Currencies /\ NoCurrency \notin Currencies

(* GetCurrencyRateInDto: neither currency may be left out.                   *)
ASSUME RatesAskName ==
  \A w \in DOMAIN Worlds, q \in Query : \A ask \in Worlds[w].offered[q] :
    ask.view = "rate" => {ask.dto.fromCurrency, ask.dto.toCurrency} \subseteq Currencies

(* The arguments of the aggregations.                                        *)
Aggregates(ask) ==
  /\ ask.view \in {"query", "workspace", "tag", "item"} /\ IsFiniteSet(ask.parents)
  /\ {"tagIds", "title"} \subseteq DOMAIN ask.itemsFilter
  /\ ask.field \in {"items", "count", "costByCurrency", "firstPaymentDate",
                    "lastPaymentDate", "costInDefaultCurrency"}
  /\ ask.ownFilter.dateFrom # Absent => ask.ownFilter.dateFrom \in Nat
  /\ ask.ownFilter.dateTo # Absent => ask.ownFilter.dateTo \in Nat

ASSUME AsksAreTyped ==
  \A w \in DOMAIN Worlds, q \in Query : \A ask \in Worlds[w].offered[q] :
    ask.view # "rate" => Aggregates(ask)

(* The tables of items, payments and workspaces.                             *)
IsPayment(row) ==
  row.currency \in Currencies /\ row.cost \in Int /\ row.date \in Nat \ {0}

IsData(d) ==
  /\ DOMAIN d = {"items", "payments", "defaults"}
  /\ IsFiniteSet(DOMAIN d.items) /\ IsFiniteSet(DOMAIN d.payments)
  /\ \A i \in DOMAIN d.items : /\ DOMAIN d.items[i] = {"workspace", "tags", "words"}
                               /\ d.items[i].workspace \in DOMAIN d.defaults
  /\ \A p \in DOMAIN d.payments : IsPayment(d.payments[p])
  /\ \A w \in DOMAIN d.defaults : d.defaults[w] \in Currencies

ASSUME WorldsAreTyped == \A w \in DOMAIN Worlds : IsData(Worlds[w].db)
ASSUME LateAreTyped   == \A p \in DOMAIN Late : IsPayment(Late[p])

(* The bank has a rate for every day of a payment, if it may not fail.       *)
PaymentDays ==
  {Late[p].date : p \in DOMAIN Late}
    \cup UNION {{Worlds[w].db.payments[p].date : p \in DOMAIN Worlds[w].db.payments}
               : w \in DOMAIN Worlds}

ASSUME BankPublishes ==
  MayFail \/ \A c \in Currencies \ {BYN}, day \in PaymentDays : <<c, day>> \in DOMAIN Published

VARIABLES
  db,        \* items: id -> [workspace, tags, words],
             \* payments: id -> [itemId, currency, cost, date],
             \* defaults: workspace -> defaultCurrency
  query,     \* how far each query has come
  changes,   \* changes by others so far
  world      \* where it began

vars == <<rates, db, query, changes, world>>
-------------------------------------------------------------------------------
(* Filters.                                                                  *)
AnyPayment == [dateFrom |-> Absent, dateTo |-> Absent, ids |-> Absent]
AnyItem    == [tagIds |-> Absent, title |-> Absent]

\* Mutant: the last day does not count, as in filterPayments.
InDatesBefore(f, p) ==
  /\ f.dateFrom # Absent => f.dateFrom <= p.date
  /\ f.dateTo # Absent => p.date < f.dateTo

InDates(f, p) ==
  /\ f.dateFrom # Absent => f.dateFrom <= p.date
  /\ f.dateTo # Absent => p.date <= f.dateTo

PaymentsOf(d, i) == {p \in DOMAIN d.payments : d.payments[p].itemId = i}

(* getWhereClause of the items: by tag (an empty list filters nothing), by   *)
(* words of the title and, if the payments are filtered by date, by having   *)
(* one in range.                                                             *)
ItemMatches(d, f, pf, i) ==
  /\ f.tagIds \notin {Absent, {}} => f.tagIds \cap d.items[i].tags # {}
  /\ f.title # Absent => f.title \in d.items[i].words
  /\ pf.dateFrom # Absent \/ pf.dateTo # Absent =>
       \E p \in PaymentsOf(d, i) : InDates(pf, d.payments[p])

getIds(d, f, pf) == {i \in DOMAIN d.items : ItemMatches(d, f, pf, i)}

(* The parents of an aggregation and the items of each: everything, the      *)
(* workspaces, the tags (whose loader puts its own keys into the filter), or *)
(* an item.                                                                  *)
ItemIds(d, ask) ==
  CASE ask.view = "query" -> [x \in {"all"} |-> getIds(d, ask.itemsFilter, ask.paymentsFilter)]
    [] ask.view = "workspace" ->
         [w \in ask.parents |->
            {i \in getIds(d, ask.itemsFilter, ask.paymentsFilter) : d.items[i].workspace = w}]
    [] ask.view = "tag" ->
         [t \in ask.parents |->
            {i \in getIds(d, [ask.itemsFilter EXCEPT !.tagIds = ask.parents],
                          ask.paymentsFilter) : t \in d.items[i].tags}]
    [] ask.view = "item" -> [i \in ask.parents |-> {i}]

(* groupBy itemId: only the dates of the filter are asked about.             *)
Grouped(d, f, i) == {p \in PaymentsOf(d, i) : InDates(f, d.payments[p])}

(* getPaymentsByItemIds: the ids of the filter too.                          *)
Selected(d, f, i) == {p \in Grouped(d, f, i) : f.ids # Absent => p \in f.ids}

NoDay == 0       \* null: in a comparison JavaScript makes it 0, before any day

Days(d, ps) == {d.payments[p].date : p \in ps}

CostByCurrency(d, ps) ==
  [c \in Currencies |-> SumFunctionOnSet([p \in ps |-> d.payments[p].cost],
                                         {p \in ps : d.payments[p].currency = c})]

NoCost == [c \in Currencies |-> 0]

(* The loaders that need one query: the metric of item i.                    *)
Loaded(d, field, f, i) ==
  LET days == Days(d, Grouped(d, f, i))
  IN  CASE field = "count"            -> Cardinality(Grouped(d, f, i))
        [] field = "costByCurrency"   -> CostByCurrency(d, Selected(d, f, i))
        [] field = "firstPaymentDate" -> IF days = {} THEN NoDay ELSE Min(days)
        [] field = "lastPaymentDate"  -> IF days = {} THEN NoDay ELSE Max(days)

(* The reducers of the metrics, and what they start from.                    *)
Earliest(acc, cur) == IF acc = NoDay THEN cur ELSE IF cur < acc THEN cur ELSE acc
Latest(acc, cur)   == IF acc = NoDay THEN cur ELSE IF cur > acc THEN cur ELSE acc
SumCosts(acc, cur) == [c \in Currencies |-> acc[c] + cur[c]]

Reducer(field, acc, cur) ==
  CASE field = "costByCurrency"   -> SumCosts(acc, cur)
    [] field = "firstPaymentDate" -> Earliest(acc, cur)
    [] field = "lastPaymentDate"  -> Latest(acc, cur)
    [] OTHER                      -> acc + cur

defaultValue(field) == IF field = "costByCurrency" THEN NoCost ELSE 0

(* The values of the items ids reduced, in the order the items are in.       *)
Reduced(field, values, ids, order) ==
  FoldLeft(LAMBDA acc, i : IF i \in ids THEN Reducer(field, acc, values[i]) ELSE acc,
           defaultValue(field), order)
-------------------------------------------------------------------------------
(* A query.  step: where it is; ask: what was asked; ids: parent -> items;   *)
(* found: the payments a cost is for; currency: what it is in; todo, got,    *)
(* pulled: the rates it gathers; values: what the loader has for each item;  *)
(* answer: parent -> value.  History: saw, the databases since it was asked; *)
(* lost, over what its batch failed.                                         *)
Idle == [step |-> "idle"]

At(q, step) == query[q].step = step

\* The map old with the entries of new put in.
Updated(old, new) ==
  [x \in DOMAIN old \cup DOMAIN new |-> IF x \in DOMAIN new THEN new[x] ELSE old[x]]

Steps(q, changed) ==
  query' = [query EXCEPT ![q] = Updated(query[q], changed)] /\ UNCHANGED <<db, changes, world>>

Asks(q) ==
  /\ At(q, "idle")
  /\ \E ask \in Worlds[world].offered[q] :
       query' = [query EXCEPT ![q] =
                   [step |-> IF ask.view = "rate" THEN "rates" ELSE "items",
                    ask |-> ask, saw |-> {db},
                    todo |-> IF ask.view = "rate" THEN DerivativeKeys({ask.dto}) ELSE {},
                    got |-> <<>>, pulled |-> <<>>, lost |-> "no"]]
  /\ UNCHANGED <<rates, db, changes, world>>

(* items-aggregation resolvers: the ids of every parent's items.             *)
FindItems(q) ==
  /\ At(q, "items")
  /\ Steps(q, [ids |-> ItemIds(db, query[q].ask),
               step |-> IF query[q].ask.field = "items" THEN "counted" ELSE "load"])
  /\ UNCHANGED rates

(* The field resolver of ItemsAggregation.count.                             *)
CountItems(q) ==
  /\ At(q, "counted")
  /\ Steps(q, [step |-> "answered",
               answer |-> [p \in DOMAIN query[q].ids |-> Cardinality(query[q].ids[p])]])
  /\ UNCHANGED rates

(* The keys of the data loader: the items of all parents, once each.         *)
Batch(q) == UNION {query[q].ids[p] : p \in DOMAIN query[q].ids}

(* The filter the loader is for is that of the field itself: the validation  *)
(* pipe makes an object of an argument that is not given, so the parent's    *)
(* filter is never fallen back on.                                           *)
Filter(q) == query[q].ask.ownFilter

Load(q) ==
  /\ At(q, "load") /\ query[q].ask.field # "costInDefaultCurrency"
  /\ Steps(q, [step |-> "reduce",
               values |-> [i \in Batch(q) |->
                             Loaded(db, query[q].ask.field, Filter(q), i)]])
  /\ UNCHANGED rates

(* getCostInDefaultCurrencyByItemIds: the payments, *)
FindPayments(q) ==
  /\ At(q, "load") /\ query[q].ask.field = "costInDefaultCurrency"
  /\ IF Batch(q) = {} THEN Steps(q, [step |-> "reduce", values |-> <<>>])
     ELSE Steps(q, [step |-> "workspaces",
                    found |-> [p \in UNION {Selected(db, Filter(q), i) : i \in Batch(q)}
                                 |-> db.payments[p]]])
  /\ UNCHANGED rates

(* the workspaces of the items, *)
FindWorkspaces(q) ==
  /\ At(q, "workspaces")
  /\ Steps(q, [step |-> "currency",
               places |-> {db.items[i].workspace : i \in Batch(q) \cap DOMAIN db.items}])
  /\ UNCHANGED rates

(* A batch that fails is an error for each of its keys; errors are filtered  *)
(* out before the reduction.                                                 *)
Lose(q, over) ==
  Steps(q, [step |-> IF query[q].ask.view = "rate" THEN "error" ELSE "reduce",
            values |-> <<>>, lost |-> over])

Required(found, currency) ==
  {Dto(p.currency, currency, p.date) : p \in {x \in Range(found) : x.currency # currency}}

(* their default currency, of which there may be one, *)
GetDefaultCurrency(q) ==
  LET found == {db.defaults[w] : w \in query[q].places}
      it    == IF found = {} THEN NoCurrency ELSE CHOOSE c \in found : TRUE
  IN  /\ At(q, "currency")
      /\ IF Cardinality(found) > 1 THEN Lose(q, "currencies")
         ELSE Steps(q, [step |-> "rates", currency |-> it,
                        todo |-> DerivativeKeys(Required(query[q].found, it))])
      /\ UNCHANGED rates

(* and the rates: per currency those stored, *)
Missing(q) == {k \in DOMAIN query[q].got : query[q].got[k] = 0}

FindRates(q) ==
  /\ At(q, "rates") /\ Missing(q) = {}
  /\ \E key \in query[q].todo :
       LET keys == {k \in query[q].todo : k[1] = key[1]}
       IN  \E f \in Fillings(keys) :
             Steps(q, [got |-> Updated(query[q].got, f), todo |-> query[q].todo \ keys])
  /\ UNCHANGED rates

(* then those the bank is asked for, saved one after the other.              *)
Pull(q) ==
  /\ At(q, "rates") /\ query[q].pulled = <<>>
  /\ \E key \in Missing(q) :
       \/ /\ key \in DOMAIN Published
          /\ Steps(q, [pulled |-> <<key, Published[key]>>])
       \/ /\ MayFail \/ key \notin DOMAIN Published
          /\ Lose(q, "bank")
  /\ UNCHANGED rates

\* Mutant: the rate pulled is not dropped.
SaveKeeping(q) ==
  /\ At(q, "rates") /\ query[q].pulled # <<>>
  /\ LET key  == query[q].pulled[1]
         rate == query[q].pulled[2]
     IN  /\ rates' = rates \cup {Saved(key, rate, q)}
         /\ Steps(q, [got |-> [query[q].got EXCEPT ![key] = rate]])

Save(q) ==
  /\ At(q, "rates") /\ query[q].pulled # <<>>
  /\ LET key  == query[q].pulled[1]
         rate == query[q].pulled[2]
     IN  /\ rates' = rates \cup {Saved(key, rate, q)}
         /\ Steps(q, [got |-> [query[q].got EXCEPT ![key] = rate], pulled |-> <<>>])

Gathered(q) == At(q, "rates") /\ query[q].todo = {} /\ Missing(q) = {}

RateOf(q) ==
  /\ Gathered(q) /\ query[q].ask.view = "rate"
  /\ Steps(q, [step |-> "answered",
               answer |-> [x \in {"rate"} |-> Quotient(query[q].ask.dto, query[q].got)]])
  /\ UNCHANGED rates

(* getCostInDefaultCurrency: each payment at the rate of its day.            *)
Cost(found, i, currency, got) ==
  SumFunctionOnSet(
    [p \in DOMAIN found |->
       Times(found[p].cost, Quotient(Dto(found[p].currency, currency, found[p].date), got))],
    {p \in DOMAIN found : found[p].itemId = i})

SumUp(q) ==
  /\ Gathered(q) /\ query[q].ask.view # "rate"
  /\ Steps(q, [step |-> "reduce",
               values |-> [i \in Batch(q) |->
                             Cost(query[q].found, i, query[q].currency, query[q].got)]])
  /\ UNCHANGED rates

(* The resolver of the field: the values of a parent's items, those that are *)
(* not errors, reduced in the order the items were found in, which no        *)
(* ORDER BY settles.                                                         *)
Reduce(q) ==
  /\ At(q, "reduce")
  /\ \E order \in SetToSeqs(DOMAIN query[q].values) :
       Steps(q, [step |-> "answered",
                 answer |-> [p \in DOMAIN query[q].ids |->
                   Reduced(query[q].ask.field, query[q].values, query[q].ids[p], order)]])
  /\ UNCHANGED rates

Finish(q) ==
  /\ query[q].step \in {"answered", "error"}
  /\ query' = [query EXCEPT ![q] = Idle]
  /\ UNCHANGED <<rates, db, changes, world>>
-------------------------------------------------------------------------------
(* Changes by others (the ledger's operations, as far as a query sees them). *)
Change(after) ==
  /\ changes < MaxChanges
  /\ db' = after
  /\ changes' = changes + 1
  /\ query' = [q \in Query |-> IF At(q, "idle") THEN Idle
                               ELSE [query[q] EXCEPT !.saw = @ \cup {after}]]
  /\ UNCHANGED <<rates, world>>

PaymentAdded(p) ==
  /\ p \notin DOMAIN db.payments /\ Late[p].itemId \in DOMAIN db.items
  /\ Change([db EXCEPT !.payments =
              [x \in DOMAIN @ \cup {p} |-> IF x = p THEN Late[p] ELSE @[x]]])

PaymentDeleted(p) ==
  /\ p \in DOMAIN db.payments
  /\ Change([db EXCEPT !.payments = [x \in DOMAIN @ \ {p} |-> @[x]]])

ItemDeleted(i) ==
  /\ i \in DOMAIN db.items
  /\ Change([db EXCEPT
       !.items    = [x \in DOMAIN @ \ {i} |-> @[x]],
       !.payments = [p \in {x \in DOMAIN @ : @[x].itemId # i} |-> @[p]]])

TagUnassigned(i, t) ==
  /\ i \in DOMAIN db.items /\ t \in db.items[i].tags
  /\ Change([db EXCEPT !.items[i].tags = @ \ {t}])

CurrencyChanged(w, c) ==
  /\ db.defaults[w] # c
  /\ Change([db EXCEPT !.defaults[w] = c])

Init ==
  /\ rates = {}
  /\ world \in DOMAIN Worlds
  /\ db = Worlds[world].db
  /\ query = [q \in Query |-> Idle]
  /\ changes = 0

Step(q) ==
  \/ FindItems(q) \/ CountItems(q) \/ Load(q) \/ FindPayments(q) \/ FindWorkspaces(q)
  \/ GetDefaultCurrency(q) \/ FindRates(q) \/ Pull(q) \/ Save(q) \/ RateOf(q)
  \/ SumUp(q) \/ Reduce(q)

Others ==
  \/ \E p \in DOMAIN Late : PaymentAdded(p)
  \/ \E p \in DOMAIN db.payments : PaymentDeleted(p)
  \/ \E i \in DOMAIN db.items : ItemDeleted(i) \/ \E t \in db.items[i].tags : TagUnassigned(i, t)
  \/ \E w \in DOMAIN db.defaults, c \in Currencies : CurrencyChanged(w, c)

Next ==
  \/ \E q \in Query : Asks(q) \/ Step(q) \/ Finish(q)
  \/ Others

Spec == Init /\ [][Next]_vars

(* Node runs the continuations of a query and the database and the bank      *)
(* answer, if only with an error.                                            *)
FairSpec == Spec /\ \A q \in Query : WF_vars(Step(q))
-------------------------------------------------------------------------------
(* What a metric means, from a database alone.                               *)
PublishedRate(from, to, day) ==
  LET leg(c) == IF c = BYN THEN 1 ELSE Published[<<c, day>>]
  IN  IF from = to THEN <<1, 1>> ELSE <<leg(from), leg(to)>>

(* The payments of the items ids under the filter of an ask.                 *)
Chosen(d, ask, ids) ==
  LET f == ask.ownFilter
  IN  {p \in DOMAIN d.payments :
         /\ d.payments[p].itemId \in ids
         /\ f.dateFrom # Absent => d.payments[p].date >= f.dateFrom
         /\ f.dateTo # Absent => d.payments[p].date <= f.dateTo
         /\ f.ids # Absent => p \in f.ids}

(* The metric over the items ids, with the payments of database d, in the    *)
(* currency c.                                                               *)
Total(d, ask, ids, c) ==
  LET chosen == Chosen(d, ask, ids)
      days == {d.payments[p].date : p \in chosen}
  IN  CASE ask.field = "items"            -> Cardinality(ids)
        [] ask.field = "count"            -> Cardinality(chosen)
        [] ask.field = "firstPaymentDate" -> IF days = {} THEN NoDay ELSE Min(days)
        [] ask.field = "lastPaymentDate"  -> IF days = {} THEN NoDay ELSE Max(days)
        [] ask.field = "costByCurrency"   ->
             [x \in Currencies |->
                SumFunctionOnSet([p \in chosen |-> d.payments[p].cost],
                                 {p \in chosen : d.payments[p].currency = x})]
        [] ask.field = "costInDefaultCurrency" ->
             SumFunctionOnSet([p \in chosen |->
               Times(d.payments[p].cost,
                     PublishedRate(d.payments[p].currency, c, d.payments[p].date))], chosen)

(* The items of a parent that match the filters, from what the filters mean. *)
ItemsOf(d, ask, parent) ==
  LET f    == ask.itemsFilter
      days == ask.paymentsFilter
      Within(day) == /\ days.dateFrom # Absent => days.dateFrom <= day
                     /\ days.dateTo # Absent => day <= days.dateTo
  IN  IF ask.view = "item" THEN {parent}
      ELSE {i \in DOMAIN d.items :
              /\ ask.view = "workspace" => d.items[i].workspace = parent
              /\ IF ask.view = "tag" THEN parent \in d.items[i].tags
                 ELSE f.tagIds \in {Absent, {}} \/ \E t \in f.tagIds : t \in d.items[i].tags
              /\ f.title # Absent => f.title \in d.items[i].words
              /\ \/ days.dateFrom = Absent /\ days.dateTo = Absent
                 \/ \E p \in DOMAIN d.payments :
                      d.payments[p].itemId = i /\ Within(d.payments[p].date)}

(* The values a query may answer for a parent: its items as they were at one *)
(* moment, the payments at another, the default currency at a third.         *)
CurrenciesOf(saw, ids) ==
  UNION {{d.defaults[e.items[i].workspace] : d \in saw, i \in ids \cap DOMAIN e.items}
         : e \in saw}

Totals(ask, saw, parent) ==
  UNION {LET ids == ItemsOf(d, ask, parent)
             known == CurrenciesOf(saw, ids)
         IN  {Total(e, ask, ids, c) : e \in saw, c \in IF known = {} THEN {BYN} ELSE known}
         : d \in saw}

Answered(q) == At(q, "answered") /\ query[q].ask.view # "rate"

Exact(q, p) == query[q].answer[p] \in Totals(query[q].ask, query[q].saw, p)

(* Where the answer for parent p is known not to be a total: the first date  *)
(* of items of p some of which have no payment in range; counts and dates,   *)
(* which pass over the ids of the filter; a cost when an item of p is        *)
(* deleted meanwhile; and a cost lost, which shows as 0, because the bank    *)
(* failed or the items of the batch had several default currencies.          *)
EmptyItem(q, p) ==
  \E i \in query[q].ids[p], d \in query[q].saw : Grouped(d, Filter(q), i) = {}

Vanished(q, p) == \E i \in query[q].ids[p], d \in query[q].saw : i \notin DOMAIN d.items

SeveralCurrencies(q) == Cardinality(CurrenciesOf(query[q].saw, Batch(q))) > 1

KnownGap(q, p) ==
  LET field == query[q].ask.field
  IN  \/ field = "firstPaymentDate" /\ EmptyItem(q, p)
      \/ field \notin {"items", "costByCurrency", "costInDefaultCurrency"}
           /\ Filter(q).ids # Absent
      \/ field = "costInDefaultCurrency" /\ Vanished(q, p)
      \/ /\ query[q].answer[p] = 0
         /\ \/ query[q].lost = "bank" /\ MayFail
            \/ query[q].lost = "currencies" /\ SeveralCurrencies(q)

(* However reads and changes interleave and whatever is batched together,    *)
(* each parent is answered the metric of its own items that match, under the *)
(* filter of the field, or falls into a gap named above.  (getWhereClause,   *)
(* the loaders, getCostInDefaultCurrencyByItemIds and the resolvers'         *)
(* reductions)                                                               *)
AnswersAreTotals ==
  \A q \in Query : Answered(q) =>
    \A p \in DOMAIN query[q].answer : Exact(q, p) \/ KnownGap(q, p)

(* Whatever queries pull and save at once, each rate stored is the one the   *)
(* bank published for its currency and day, and each rate answered the       *)
(* quotient of the published ones.  (getMany, pullAndSave)                   *)
RatesAsPublished ==
  /\ \A row \in rates :
       /\ <<row.fromCurrency, row.date>> \in DOMAIN Published
       /\ row.rate = Published[<<row.fromCurrency, row.date>>]
  /\ \A q \in Query :
       At(q, "answered") /\ query[q].ask.view = "rate" =>
         LET dto == query[q].ask.dto
         IN  query[q].answer["rate"] = PublishedRate(dto.fromCurrency, dto.toCurrency, dto.date)

(* Every query is answered, or ends in an error: none waits for a rate for   *)
(* ever, the bank failing or not.                                            *)
EveryQueryEnds ==
  \A q \in Query : ~At(q, "idle") ~> query[q].step \in {"answered", "error"}

(* payments-aggregation/README.md: "Total cost converted to the workspace's  *)
(* default currency", for each workspace of a query that asks several.       *)
CostIsTotal ==
  \A q \in Query :
    Answered(q) /\ query[q].ask.field = "costInDefaultCurrency" =>
      \A p \in DOMAIN query[q].answer : Exact(q, p)
===============================================================================

----------------------------- MODULE MCAggregation ----------------------------
(* Two workspaces, three items (i2 has no payments), two days.               *)
EXTENDS Aggregation

CONSTANTS w1, w2, t1, i1, i2, i3, p1, p2, p3, p4, q1, q2, usd, eur

PublishedMC ==
  (<<usd, 1>> :> 4) @@ (<<usd, 2>> :> 8) @@ (<<eur, 1>> :> 2) @@ (<<eur, 2>> :> 16)

It(w, tags, words) == [workspace |-> w, tags |-> tags, words |-> words]
Pay(i, c, cost, day) == [itemId |-> i, currency |-> c, cost |-> cost, date |-> day]

With(c1, c2) ==
  [items    |-> (i1 :> It(w1, {t1}, {"food"})) @@ (i2 :> It(w1, {}, {"rent"}))
                  @@ (i3 :> It(w2, {t1}, {"food", "rent"})),
   payments |-> (p1 :> Pay(i1, usd, 16, 1)) @@ (p2 :> Pay(i1, eur, 32, 2))
                  @@ (p3 :> Pay(i3, BYN, 48, 2)),
   defaults |-> (w1 :> c1) @@ (w2 :> c2)]

LateMC == p4 :> Pay(i2, eur, 16, 1)

Ask(view, parents, items, pays, own, field) ==
  [view |-> view, parents |-> parents, itemsFilter |-> items, paymentsFilter |-> pays,
   ownFilter |-> own, field |-> field]

FromDay2 == [AnyPayment EXCEPT !.dateFrom = 2]
ToDay1   == [AnyPayment EXCEPT !.dateTo = 1]
OnlyP1   == [AnyPayment EXCEPT !.ids = {p1}]
Food     == [AnyItem EXCEPT !.title = "food"]
Tagged   == [AnyItem EXCEPT !.tagIds = {t1}]
NoTags   == [AnyItem EXCEPT !.tagIds = {}]

Scopes ==
  {<<"query", {}, AnyItem, AnyPayment>>, <<"query", {}, Tagged, FromDay2>>,
   <<"workspace", {w1, w2}, AnyItem, AnyPayment>>, <<"workspace", {w1, w2}, Food, FromDay2>>,
   <<"workspace", {w1, w2}, NoTags, ToDay1>>,
   <<"tag", {t1}, AnyItem, AnyPayment>>, <<"item", {i1}, AnyItem, AnyPayment>>}

Asks4(scope, own, field) == Ask(scope[1], scope[2], scope[3], scope[4], own, field)

Metrics ==
  {Asks4(s, own, field) : s \in Scopes, own \in {AnyPayment, FromDay2, ToDay1, OnlyP1},
     field \in {"count", "costByCurrency", "firstPaymentDate", "lastPaymentDate"}}
  \cup {Asks4(s, AnyPayment, "items") : s \in Scopes}

Costs(owns) == {Asks4(s, own, "costInDefaultCurrency") : s \in Scopes, own \in owns}

RateAsk(from, to, day) == [view |-> "rate", dto |-> Dto(from, to, day), field |-> "rate"]

Alone(asks) == (q1 :> asks) @@ (q2 :> {})

World(c1, c2, asks) == [db |-> With(c1, c2), offered |-> asks]

Everything ==
  [metrics |-> World(usd, BYN, Alone(Metrics)),
   costs   |-> World(usd, usd, Alone(Costs({AnyPayment, FromDay2, OnlyP1}))),
   mixed   |-> World(usd, BYN, Alone(Costs({AnyPayment})
                \cup {RateAsk(eur, usd, 1), RateAsk(usd, BYN, 2), RateAsk(BYN, BYN, 1)})),
   pulling |-> World(usd, usd,
     (q1 :> {Asks4(<<"item", {i1}, AnyItem, AnyPayment>>, AnyPayment, "costInDefaultCurrency")})
       @@ (q2 :> {RateAsk(eur, usd, 2)}))]

\* One query, for the cost of each of two workspaces.
EachWorkspace ==
  LET asks == {Asks4(<<"workspace", {w1, w2}, AnyItem, AnyPayment>>, own,
                     "costInDefaultCurrency") : own \in {AnyPayment, FromDay2, ToDay1}}
  IN  [same   |-> World(eur, eur, Alone(asks)), differ |-> World(usd, BYN, Alone(asks))]
===============================================================================

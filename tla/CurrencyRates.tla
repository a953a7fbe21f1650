---------------------------- MODULE CurrencyRates ----------------------------
(* Exchange rates (src/src/currency-rate): what is stored is the rate of a   *)
(* currency to BYN on a day, pulled from the National Bank when a query      *)
(* first needs it; any other rate is the quotient of two of those.           *)
EXTENDS Integers, FiniteSets

CONSTANTS
  Published,   \* external, the bank: <<currency, day>> -> its rate to BYN
  BYN,         \* the currency rates are stored in
  NoCurrency   \* undefined

ASSUME PublishedRates ==
  \A key \in DOMAIN Published : /\ key[1] \notin {BYN, NoCurrency}
                                /\ Published[key] \in Nat \ {0}

VARIABLE rates   \* the rows of currency_rate, with the query that saved each:
                 \* no unique key keeps two from saving the same rate

(* A rate asked for: from one currency to another on a day.                  *)
Dto(from, to, day) == [fromCurrency |-> from, toCurrency |-> to, date |-> day]

(* getDerivativeMap: the stored rates a list of dtos needs.                  *)
DerivativeKeys(dtos) ==
  UNION {{<<c, dto.date>> : c \in {dto.fromCurrency, dto.toCurrency} \ {BYN}} :
           dto \in {d \in dtos : d.fromCurrency # d.toCurrency}}

(* findMany({date in days, fromCurrency}); an undefined currency filters     *)
(* nothing.                                                                  *)
FoundRates(c, day) ==
  {row.rate : row \in {x \in rates : x.date = day /\ (c = NoCurrency \/ x.fromCurrency = c)}}

(* The rates a findMany may put into the map; 0 stands for null.             *)
Fillings(keys) ==
  LET found == UNION {FoundRates(k[1], k[2]) : k \in keys} \cup {0}
  IN  {f \in [keys -> found] : \A k \in keys :
         IF FoundRates(k[1], k[2]) = {} THEN f[k] = 0 ELSE f[k] \in FoundRates(k[1], k[2])}

\* Mutant: a rate is saved under the first day.
SavedOnFirst(key, rate, q) ==
  [fromCurrency |-> key[1], date |-> 1, rate |-> rate, by |-> q]

Saved(key, rate, q) ==
  [fromCurrency |-> key[1], date |-> key[2], rate |-> rate, by |-> q]

(* getRate of getMany: the quotient, as a pair.                              *)
Quotient(dto, got) ==
  LET leg(c) == IF c = BYN THEN 1 ELSE got[<<c, dto.date>>]
  IN  IF dto.fromCurrency = dto.toCurrency THEN <<1, 1>>
      ELSE <<leg(dto.fromCurrency), leg(dto.toCurrency)>>

(* An amount times a rate.  Exact for the amounts and rates the models use,  *)
(* as Decimal is for all practical purposes.                                 *)
Times(cost, rate) == (cost * rate[1]) \div rate[2]
===============================================================================

------------------------ MODULE ExchangeRatesProofs -------------------------
(***************************************************************************)
(* Theorems about ExchangeRates: what ExchangeService says of its rates    *)
(* and how exactly it converts, for any calls, tables, expiry and units.   *)
(*                                                                         *)
(* The first lemmas are about the arithmetic of convert: what a rounded    *)
(* quotient differs by from the exact one, and how the two roundings, of   *)
(* the rate and of the amount, add up.  The invariant says of the cache    *)
(* that its table is the last one that was stored, by a call that is over, *)
(* and expires a TTL after; of a call, that it was sent its table before   *)
(* its timer fired; of an answer, that it was converted as it should be.   *)
(***************************************************************************)
EXTENDS ExchangeRates, TLAPS

(* Floor division.                                                         *)
LEMMA Division ==
    ASSUME NEW n \in Int, NEW d \in Nat \ {0}
    PROVE  /\ n \div d \in Int
           /\ d * (n \div d) <= n /\ n < d * (n \div d) + d
OBVIOUS

LEMMA Product ==
    ASSUME NEW a \in Nat, NEW b \in Int, NEW k \in Int, b <= k
    PROVE  a * b <= a * k
OBVIOUS

(* Round is off by at most a half.                                         *)
LEMMA RoundedBy ==
    ASSUME NEW n \in Int, NEW d \in Nat \ {0}
    PROVE  /\ Round(n, d) \in Int
           /\ 2 * (d * Round(n, d)) - 2 * n <= d
           /\ 2 * n - 2 * (d * Round(n, d)) <= d
<1> DEFINE r == (2 * n + d) \div (2 * d)
<1>1. 2 * n + d \in Int /\ 2 * d \in Nat \ {0}
  OBVIOUS
<1>2. r \in Int /\ (2 * d) * r <= 2 * n + d /\ 2 * n + d < (2 * d) * r + 2 * d
  BY <1>1, Division
<1> HIDE DEF r
<1>3. (2 * d) * r = 2 * (d * r) /\ d * r \in Int
  BY <1>2
<1>4. Round(n, d) = r
  BY DEF Round, r
<1>5. 2 * (d * r) - 2 * n <= d /\ 2 * n - 2 * (d * r) <= d
  <2> DEFINE p == d * r
  <2> HIDE DEF p
  <2>1. p \in Int /\ 2 * p <= 2 * n + d /\ 2 * n + d < 2 * p + 2 * d
    BY <1>2, <1>3 DEF p
  <2>2. QED
    BY <2>1 DEF p
<1>6. QED
  BY <1>2, <1>4, <1>5

(* The rate has so many steps for one of the amount.                       *)
LEMMA UnitSteps ==
    /\ RateUnit \div MoneyUnit \in Nat \ {0}
    /\ (RateUnit \div MoneyUnit) * MoneyUnit = RateUnit
<1> DEFINE q == RateUnit \div MoneyUnit
<1>1. RateUnit \in Nat \ {0} /\ MoneyUnit \in Nat \ {0} /\ RateUnit % MoneyUnit = 0
  BY UnitAssumption
<1>2. q \in Int /\ q * MoneyUnit = RateUnit
  BY <1>1
<1> HIDE DEF q
<1>3. q > 0
  <2>1. SUFFICES ASSUME q <= 0 PROVE FALSE
    BY <1>2
  <2>2. q * MoneyUnit <= 0
    BY <1>1, <1>2, <2>1
  <2>3. QED
    BY <1>1, <1>2, <2>2
<1>4. QED
  BY <1>2, <1>3 DEF q

(* Two roundings, of the rate and of the amount, add up.                   *)
LEMMA ErrorsAddUp ==
    ASSUME NEW from \in Nat, NEW to \in Nat, NEW x \in Nat, NEW unit \in Nat, NEW money \in Nat,
           NEW steps \in Nat, steps * money = unit,
           NEW rate \in Int, NEW conv \in Int,
           2 * (from * rate) - 2 * (to * unit) <= from,
           2 * (to * unit) - 2 * (from * rate) <= from,
           2 * (steps * conv) - 2 * (x * rate) <= steps,
           2 * (x * rate) - 2 * (steps * conv) <= steps
    PROVE  /\ 2 * steps * (conv * from - x * to * money) <= from * (steps + x)
           /\ 2 * steps * (x * to * money - conv * from) <= from * (steps + x)
<1> DEFINE u == 2 * (steps * conv) - 2 * (x * rate)
           w == 2 * (from * rate) - 2 * (to * unit)
           error == conv * from - x * to * money
<1>1. u \in Int /\ w \in Int /\ u <= steps /\ -u <= steps /\ w <= from /\ -w <= from
  OBVIOUS
<1>2. 2 * steps * error = from * u + x * w
  <2>1. 2 * steps * error = 2 * steps * (conv * from) - 2 * steps * (x * to * money)
    OBVIOUS
  <2>2. 2 * steps * (x * to * money) = 2 * (x * (to * unit))
    <3>1. 2 * steps * (x * to * money) = 2 * (x * (to * (steps * money)))
      OBVIOUS
    <3>2. QED
      BY <3>1
  <2>3. from * u = 2 * steps * (conv * from) - 2 * (from * (x * rate))
    OBVIOUS
  <2>4. x * w = 2 * (from * (x * rate)) - 2 * (x * (to * unit))
    OBVIOUS
  <2>5. QED
    BY <2>1, <2>2, <2>3, <2>4
<1>3. /\ from * u <= from * steps /\ from * (-u) <= from * steps
      /\ x * w <= x * from /\ x * (-w) <= x * from
  <2> HIDE DEF u, w
  <2>1. /\ from * u <= from * steps /\ from * (-u) <= from * steps
    BY <1>1, Product
  <2>2. /\ x * w <= x * from /\ x * (-w) <= x * from
    BY <1>1, Product
  <2>3. QED
    BY <2>1, <2>2
<1>4. from * (steps + x) = from * steps + x * from
  OBVIOUS
<1>5. 2 * steps * (x * to * money - conv * from) = -(from * u + x * w)
  <2>1. 2 * steps * (x * to * money - conv * from) = -(2 * steps * error)
    OBVIOUS
  <2>2. QED
    BY <1>2, <2>1
<1>6. -(from * u + x * w) = from * (-u) + x * (-w)
  <2> HIDE DEF u, w
  <2>1. QED
    BY <1>1
<1>7. QED
  <2> DEFINE a == from * u  b == x * w  c == from * steps  d == x * from
  <2>1. a \in Int /\ b \in Int /\ c \in Int /\ d \in Int
    BY <1>1
  <2>2. a <= c /\ -a <= c /\ b <= d /\ -b <= d
    <3>1. from * (-u) = -(from * u) /\ x * (-w) = -(x * w)
      <4> HIDE DEF u, w
      <4>1. QED
        BY <1>1
    <3>2. QED
      BY <1>3, <3>1
  <2> HIDE DEF a, b, c, d, u, w
  <2>3. a + b <= c + d /\ -(a + b) <= c + d
    BY <2>1, <2>2
  <2>4. QED
    BY <1>2, <1>4, <1>5, <2>3 DEF a, b, c, d

(* What an amount converted with one table differs by from the exact one.  *)
LEMMA ConversionError ==
    ASSUME NEW x \in Nat, NEW rates \in Table, NEW from \in Currency, NEW to \in Currency,
           rates[from] # 0
    PROVE  LET error == Converted(x, Rate(rates, from, to)) * rates[from]
                            - x * rates[to] * MoneyUnit
               steps == RateUnit \div MoneyUnit
           IN  2 * steps * (IF error < 0 THEN -error ELSE error) <= rates[from] * (steps + x)
<1> DEFINE steps == RateUnit \div MoneyUnit
           base == rates[from]
           quote == rates[to]
           rate == Rate(rates, from, to)
           conv == Converted(x, rate)
<1>1. steps \in Nat \ {0} /\ steps * MoneyUnit = RateUnit
  BY UnitSteps
<1>2. base \in Nat \ {0} /\ quote \in Nat /\ RateUnit \in Nat /\ MoneyUnit \in Nat
  BY UnitAssumption DEF Table
<1>3. rate = Round(quote * RateUnit, base) /\ conv = Round(x * rate, steps)
  BY DEF Rate, Converted
<1> HIDE DEF steps, base, quote, rate, conv
<1>4. quote * RateUnit \in Int
  BY <1>2
<1>5. /\ rate \in Int
      /\ 2 * (base * rate) - 2 * (quote * RateUnit) <= base
      /\ 2 * (quote * RateUnit) - 2 * (base * rate) <= base
  BY <1>2, <1>3, <1>4, RoundedBy
<1>6. x * rate \in Int
  BY <1>5
<1>7. /\ conv \in Int
      /\ 2 * (steps * conv) - 2 * (x * rate) <= steps
      /\ 2 * (x * rate) - 2 * (steps * conv) <= steps
  BY <1>1, <1>3, <1>6, RoundedBy
<1>8. /\ 2 * steps * (conv * base - x * quote * MoneyUnit) <= base * (steps + x)
      /\ 2 * steps * (x * quote * MoneyUnit - conv * base) <= base * (steps + x)
  <2>1. steps \in Nat /\ base \in Nat
    BY <1>1, <1>2
  <2>2. QED
    BY <1>1, <1>2, <1>5, <1>7, <2>1, ErrorsAddUp
<1> DEFINE error == conv * base - x * quote * MoneyUnit
<1>9. error \in Int /\ -error = x * quote * MoneyUnit - conv * base
  <2> DEFINE a == conv * base  b == x * quote * MoneyUnit
  <2>1. a \in Int /\ b \in Int
    BY <1>2, <1>7
  <2> HIDE DEF a, b
  <2>2. a - b \in Int /\ -(a - b) = b - a
    BY <2>1
  <2>3. QED
    BY <2>2 DEF a, b
<1>10. 2 * steps * (IF error < 0 THEN -error ELSE error) <= base * (steps + x)
  <2>1. CASE error < 0
    <3>1. 2 * steps * (-error) <= base * (steps + x)
      BY <1>8, <1>9
    <3> HIDE DEF error
    <3>2. QED
      BY <2>1, <3>1
  <2>2. CASE ~(error < 0)
    <3>1. 2 * steps * error <= base * (steps + x)
      BY <1>8
    <3> HIDE DEF error
    <3>2. QED
      BY <2>2, <3>1
  <2>3. QED
    BY <2>1, <2>2
<1>11. QED
  BY <1>10 DEF steps, base, quote, rate, conv, error

-----------------------------------------------------------------------------
(* What the invariant is made of.                                          *)

Sources == {"cache", "api", "fallback"}

Tables == {DefaultRates} \cup 0..MaxClock

Answers ==
    {Pending, Refused} \cup [source : {"none needed"}, converted : Int]
    \cup [source : Sources, table : Tables, converted : Int]

\* The call e was the last to store its table, t.
LastStored(e, t) ==
    /\ stored[e] # NotStored /\ quoted[e] = t
    /\ \A d \in Call : stored[d] <= stored[e]

(* The table in Redis is the last that was stored, for a TTL.              *)
CacheKept ==
    cache # Empty =>
        \E e \in Call : LastStored(e, cache.table) /\ cache.until = stored[e] + Ttl

(* A call is sent its table before its timer fires.                        *)
Timely(c) ==
    /\ pc[c] = "fetching" => clock \in begun[c]..(begun[c] + HeaderTimeout)
    /\ pc[c] \in {"body", "storing"} => quoted[c] \in begun[c]..(begun[c] + HeaderTimeout)

(* The error of a conversion with the rates of one table.                  *)
Within(q, rates, converted) ==
    LET error == converted * rates[q.from] - q.amount * rates[q.to] * MoneyUnit
        steps == RateUnit \div MoneyUnit
    IN  2 * steps * (IF error < 0 THEN -error ELSE error) <= rates[q.from] * (steps + q.amount)

Accurate(c) ==
    Answered(c) => Within(asked[c], RatesOf(answer[c].table), answer[c].converted)

CallInv(c) ==
    /\ quoted[c] <= clock
    /\ pc[c] \notin {"idle", "over"} => asked[c].amount > 0
    /\ pc[c] # "over" => stored[c] = NotStored
    /\ Timely(c)
    /\ Accurate(c)

RatesInv ==
    /\ TypeOK
    /\ answer \in [Call -> Answers]
    /\ CacheKept
    /\ \A c \in Call : CallInv(c)

LEMMA InitRates == Init => RatesInv
<1> SUFFICES ASSUME Init PROVE RatesInv
  OBVIOUS
<1>1. TypeOK
  BY TimeAssumption DEF Init, TypeOK, Steps, Pending
<1>2. answer \in [Call -> Answers] /\ \A c \in Call : answer[c].source = "none"
  BY DEF Init, Answers, Pending
<1>3. CacheKept /\ \A c \in Call : CallInv(c)
  BY <1>2 DEF Init, CacheKept, CallInv, Timely, Accurate, Answered
<1>4. QED
  BY <1>1, <1>2, <1>3 DEF RatesInv

LEMMA Times ==
    /\ Ttl \in Nat \ {0} /\ MaxClock \in Nat /\ HeaderTimeout \in Nat
    /\ Defaults \in Table /\ Market \in [0..MaxClock -> Table]
    /\ Mixes \subseteq [Call -> Request]
BY TimeAssumption, DataAssumption

(* A step of one call.                                                     *)
Alone(c) ==
    /\ UNCHANGED <<clock, asked>>
    /\ \A d \in Call \ {c} :
          /\ pc'[d] = pc[d] /\ begun'[d] = begun[d] /\ quoted'[d] = quoted[d]
          /\ answer'[d] = answer[d] /\ stored'[d] = stored[d]

LEMMA OneCall ==
    ASSUME RatesInv, NEW c \in Call, Alone(c), TypeOK', answer' \in [Call -> Answers],
           CacheKept', CallInv(c)'
    PROVE  RatesInv'
<1>1. ASSUME NEW d \in Call \ {c} PROVE CallInv(d)'
  BY DEF RatesInv, CallInv, Timely, Accurate, Answered, Alone
<1>2. QED
  BY <1>1 DEF RatesInv

(* What was stored stays so, and what is in Redis with it.                 *)
LEMMA CacheStays ==
    ASSUME RatesInv, NEW c \in Call, Alone(c), pc[c] # "over", UNCHANGED <<cache, stored>>
    PROVE  CacheKept'
<1>1. SUFFICES ASSUME NEW e \in Call, LastStored(e, cache.table), cache.until = stored[e] + Ttl
               PROVE  LastStored(e, cache.table)' /\ cache'.until = stored'[e] + Ttl
  BY DEF RatesInv, CacheKept
<1>2. e # c
  BY <1>1 DEF RatesInv, CallInv, LastStored
<1>3. QED
  BY <1>1, <1>2 DEF Alone, LastStored

(* The one answer of a call that is sent a table, or falls back.           *)
LEMMA NewAnswer ==
    ASSUME RatesInv, NEW c \in Call, NEW source \in Sources, NEW t \in Tables,
           pc[c] \notin {"idle", "over"}, Answer(c, source, t)
    PROVE  \E v \in Answers :
              /\ answer' = [answer EXCEPT ![c] = v]
              /\ v = Refused \/ (v.source = source /\ v.table = t)
              /\ v.source \in Sources =>
                    Within(asked[c], RatesOf(v.table), v.converted)
<1> DEFINE q == asked[c]
           rates == RatesOf(t)
           conv == Converted(q.amount, Rate(rates, q.from, q.to))
           zero == rates[q.from] = 0 \/ rates[q.to] = 0
           w == [source |-> source, table |-> t, converted |-> conv]
<1>1. q \in Request /\ q.amount \in Nat /\ q.from \in Currency /\ q.to \in Currency
  BY Times DEF RatesInv, CallInv, TypeOK, Request
<1>2. rates \in Table
  BY Times DEF RatesOf, Tables
<1>3. answer' = [answer EXCEPT ![c] = IF zero THEN Refused ELSE w]
  BY DEF Answer
<1>4. CASE zero
  <2>1. Refused \in Answers /\ Refused.source \notin Sources
    BY DEF Answers, Refused, Sources
  <2>2. answer' = [answer EXCEPT ![c] = Refused]
    BY <1>3, <1>4
  <2>3. QED
    BY <2>1, <2>2, Zenon
<1>5. CASE ~zero
  <2>1. rates[q.from] \in Nat \ {0}
    BY <1>1, <1>2, <1>5 DEF Table
  <2>2. Within(q, rates, conv)
    <3> HIDE DEF q, rates
    <3>1. QED
      BY <1>1, <1>2, <2>1, ConversionError DEF Within
  <2>3. conv \in Int
    <3> HIDE DEF rates
    <3>1. rates[q.to] * RateUnit \in Int
      BY <1>1, <1>2, UnitAssumption DEF Table
    <3>2. Rate(rates, q.from, q.to) \in Int
      BY <2>1, <3>1, RoundedBy DEF Rate
    <3>3. q.amount * Rate(rates, q.from, q.to) \in Int
      BY <1>1, <3>2
    <3>4. QED
      BY <3>3, UnitSteps, RoundedBy DEF Converted
  <2> HIDE DEF conv
  <2>4. w \in Answers
    BY <2>3 DEF Answers
  <2>5. w.source = source /\ w.table = t /\ w.converted = conv
    OBVIOUS
  <2>6. Within(asked[c], RatesOf(w.table), w.converted)
    BY <2>2, <2>5
  <2>7. answer' = [answer EXCEPT ![c] = w]
    BY <1>3, <1>5
  <2> HIDE DEF w
  <2>8. QED
    BY <2>4, <2>5, <2>6, <2>7, Zenon
<1>6. QED
  BY <1>4, <1>5

-----------------------------------------------------------------------------
(* The steps.                                                              *)

CacheTyped ==
    \/ cache = Empty
    \/ cache.table \in 0..clock /\ cache.until \in (clock + 1)..(clock + Ttl)

(* A call that ends with an answer.                                        *)
LEMMA Ends ==
    ASSUME RatesInv, NEW c \in Call, NEW source \in Sources, NEW t \in Tables,
           pc[c] \notin {"idle", "over"}, Return(c, source, t),
           UNCHANGED <<clock, asked, begun, quoted>>,
           stored' = stored \/ stored' = [stored EXCEPT ![c] = clock],
           CacheTyped', CacheKept'
    PROVE  RatesInv'
<1>1. PICK v \in Answers :
          /\ answer' = [answer EXCEPT ![c] = v]
          /\ v = Refused \/ (v.source = source /\ v.table = t)
          /\ v.source \in Sources => Within(asked[c], RatesOf(v.table), v.converted)
  BY NewAnswer DEF Return
<1>2. /\ answer' \in [Call -> Answers] /\ answer'[c] = v
      /\ \A d \in Call \ {c} : answer'[d] = answer[d]
  BY <1>1 DEF RatesInv
<1>3. /\ pc' \in [Call -> Steps] /\ pc'[c] = "over"
      /\ \A d \in Call \ {c} : pc'[d] = pc[d]
  BY DEF Return, RatesInv, TypeOK, Steps
<1>4. /\ stored' \in [Call -> {NotStored} \cup 0..clock']
      /\ \A d \in Call \ {c} : stored'[d] = stored[d]
  <2>1. clock \in 0..clock /\ stored \in [Call -> {NotStored} \cup 0..clock]
    BY Times DEF RatesInv, TypeOK
  <2>2. QED
    BY <2>1
<1>5. v # Pending
  BY <1>1 DEF Refused, Pending, Sources
<1>6. TypeOK'
  <2>1. \A d \in Call : answer'[d] # Pending <=> pc'[d] = "over"
    BY <1>2, <1>3, <1>5 DEF RatesInv, TypeOK, Pending
  <2>2. QED
    BY <1>3, <1>4, <2>1 DEF RatesInv, TypeOK, CacheTyped, Pending, Empty
<1>7. Alone(c)
  BY <1>2, <1>3, <1>4 DEF Alone
<1>8. CallInv(c)'
  <2>1. Accurate(c)'
    BY <1>1, <1>2 DEF Accurate, Answered, Sources
  <2>2. QED
    BY <1>3, <2>1 DEF RatesInv, CallInv, Timely
<1>9. QED
  BY <1>2, <1>6, <1>7, <1>8, OneCall

(* An answer without a table to be stored.                                 *)
LEMMA EndsPlainly ==
    ASSUME RatesInv, NEW c \in Call, NEW source \in Sources, NEW t \in Tables,
           pc[c] \notin {"idle", "over"}, Return(c, source, t),
           UNCHANGED <<clock, asked, cache, begun, quoted, stored>>
    PROVE  RatesInv'
<1>1. CacheTyped'
  BY DEF RatesInv, TypeOK, CacheTyped
<1>2. Alone(c)
  BY DEF Alone, Return, Answer, RatesInv, TypeOK
<1>3. CacheKept'
  BY <1>2, CacheStays
<1>4. QED
  BY <1>1, <1>3, Ends

(* A call that goes on.                                                    *)
LEMMA GoesOn ==
    ASSUME RatesInv, NEW c \in Call, NEW step \in {"reading", "fetching", "body", "storing"},
           pc[c] # "over", asked[c].amount > 0, pc' = [pc EXCEPT ![c] = step],
           UNCHANGED <<clock, asked, cache, answer, stored>>,
           begun' = begun \/ begun' = [begun EXCEPT ![c] = clock],
           quoted' = quoted \/ quoted' = [quoted EXCEPT ![c] = clock],
           Timely(c)'
    PROVE  RatesInv'
<1>1. /\ pc' \in [Call -> Steps] /\ pc'[c] = step
      /\ \A d \in Call \ {c} : pc'[d] = pc[d]
  BY DEF RatesInv, TypeOK, Steps
<1>2. clock \in 0..MaxClock /\ clock \in Int
  BY Times DEF RatesInv, TypeOK
<1>3. /\ begun' \in [Call -> 0..MaxClock] /\ quoted' \in [Call -> 0..MaxClock]
      /\ quoted'[c] <= clock'
      /\ \A d \in Call \ {c} : begun'[d] = begun[d] /\ quoted'[d] = quoted[d]
  BY <1>2 DEF RatesInv, CallInv, TypeOK
<1>4. Alone(c)
  BY <1>1, <1>3 DEF Alone
<1>5. CacheKept'
  BY <1>4, CacheStays
<1>6. TypeOK' /\ answer' \in [Call -> Answers]
  BY <1>1, <1>3 DEF RatesInv, TypeOK, Pending, Empty
<1>7. CallInv(c)'
  BY <1>1, <1>3 DEF RatesInv, CallInv, Accurate, Answered
<1>8. QED
  BY <1>4, <1>5, <1>6, <1>7, OneCall

LEMMA FallsBack ==
    ASSUME RatesInv, NEW c \in Call, pc[c] \notin {"idle", "over"}, FallBack(c),
           UNCHANGED <<clock, asked, cache, begun, quoted, stored>>
    PROVE  RatesInv'
<1>1. "fallback" \in Sources /\ DefaultRates \in Tables /\ Return(c, "fallback", DefaultRates)
  BY DEF Sources, Tables, FallBack
<1>2. QED
  BY <1>1, EndsPlainly

LEMMA TickStep == ASSUME RatesInv, Tick PROVE RatesInv'
<1>1. /\ clock' = clock + 1 /\ clock' \in 0..MaxClock /\ clock \in Nat
      /\ UNCHANGED <<asked, pc, begun, quoted, answer, stored>>
      /\ cache' = IF clock' >= cache.until THEN Empty ELSE cache
      /\ \A c \in Call : pc[c] = "fetching" => clock < begun[c] + HeaderTimeout
  BY Times DEF Tick, RatesInv, TypeOK
<1>2. TypeOK'
  <2>1. CacheTyped'
    BY <1>1, Times DEF RatesInv, TypeOK, CacheTyped, Empty
  <2>2. stored' \in [Call -> {NotStored} \cup 0..clock']
    BY <1>1, Times DEF RatesInv, TypeOK
  <2>3. QED
    BY <1>1, <2>1, <2>2 DEF RatesInv, TypeOK, CacheTyped, Pending, Empty
<1>3. CacheKept'
  <2>1. CASE cache' = cache
    BY <1>1, <2>1 DEF RatesInv, CacheKept, LastStored
  <2>2. CASE cache' = Empty
    BY <2>2 DEF CacheKept, Empty
  <2>3. QED
    BY <1>1, <2>1, <2>2
<1>4. ASSUME NEW c \in Call PROVE CallInv(c)'
  <2>1. begun[c] \in Int /\ quoted[c] \in Int /\ HeaderTimeout \in Int
    BY Times DEF RatesInv, TypeOK
  <2>2. CallInv(c)
    BY DEF RatesInv
  <2>3. Timely(c)'
    BY <1>1, <2>1, <2>2 DEF CallInv, Timely
  <2>4. quoted'[c] <= clock'
    BY <1>1, <2>1, <2>2 DEF CallInv
  <2>5. Accurate(c)'
    BY <1>1, <2>2 DEF CallInv, Accurate, Answered
  <2>6. QED
    BY <1>1, <2>2, <2>3, <2>4, <2>5 DEF CallInv
<1>5. QED
  BY <1>1, <1>2, <1>3, <1>4 DEF RatesInv

LEMMA ConvertStep == ASSUME RatesInv, NEW c \in Call, Convert(c) PROVE RatesInv'
<1>1. pc[c] = "idle" /\ UNCHANGED <<clock, asked, cache, begun, quoted, stored>>
  BY DEF Convert
<1>2. asked[c] \in Request
  BY Times DEF RatesInv, TypeOK
<1>3. CASE asked[c].amount > 0 /\ pc' = [pc EXCEPT ![c] = "reading"] /\ UNCHANGED answer
  <2>1. Timely(c)'
    BY <1>3 DEF Timely, RatesInv, TypeOK
  <2>2. QED
    BY <1>1, <1>3, <2>1, GoesOn
<1>4. ASSUME NEW v \in Answers, answer' = [answer EXCEPT ![c] = v], v # Pending,
             v.source \notin Sources, pc' = [pc EXCEPT ![c] = "over"]
      PROVE  RatesInv'
  <2>1. /\ pc' \in [Call -> Steps] /\ pc'[c] = "over"
        /\ \A d \in Call \ {c} : pc'[d] = pc[d]
        /\ answer' \in [Call -> Answers] /\ answer'[c] = v
        /\ \A d \in Call \ {c} : answer'[d] = answer[d]
    BY <1>4 DEF RatesInv, TypeOK, Steps
  <2>2. Alone(c)
    BY <1>1, <2>1 DEF Alone
  <2>3. CacheKept'
    BY <1>1, <2>2, CacheStays
  <2>4. TypeOK'
    BY <1>1, <1>4, <2>1 DEF RatesInv, TypeOK, Pending, Empty
  <2>5. CallInv(c)'
    BY <1>1, <1>4, <2>1 DEF RatesInv, CallInv, Timely, Accurate, Answered, Sources
  <2>6. QED
    BY <2>1, <2>2, <2>3, <2>4, <2>5, OneCall
<1>5. CASE answer' = [answer EXCEPT ![c] = Refused] /\ pc' = [pc EXCEPT ![c] = "over"]
  <2>1. Refused \in Answers /\ Refused # Pending /\ Refused.source \notin Sources
    BY DEF Answers, Refused, Pending, Sources
  <2>2. QED
    BY <1>4, <1>5, <2>1
<1>6. CASE /\ answer' = [answer EXCEPT ![c] =
                [source |-> "none needed", converted |-> Converted(asked[c].amount, RateUnit)]]
           /\ pc' = [pc EXCEPT ![c] = "over"]
  <2> DEFINE conv == Converted(asked[c].amount, RateUnit)
             v == [source |-> "none needed", converted |-> conv]
  <2>1. asked[c].amount * RateUnit \in Int
    BY <1>2, UnitAssumption DEF Request
  <2>2. conv \in Int
    BY <2>1, UnitSteps, RoundedBy DEF Converted
  <2> HIDE DEF conv
  <2>3. v \in Answers /\ v # Pending /\ v.source \notin Sources
    BY <2>2 DEF Answers, Pending, Sources
  <2>4. answer' = [answer EXCEPT ![c] = v]
    BY <1>6 DEF conv
  <2> HIDE DEF v
  <2>5. QED
    BY <1>4, <1>6, <2>3, <2>4
<1>7. QED
  BY <1>3, <1>5, <1>6 DEF Convert

LEMMA ReadStep == ASSUME RatesInv, NEW c \in Call, ReadCache(c) PROVE RatesInv'
<1>1. /\ pc[c] = "reading" /\ asked[c].amount > 0
      /\ UNCHANGED <<clock, asked, cache, quoted, stored>>
  BY DEF ReadCache, RatesInv, CallInv
<1>2. CASE Fetch(c)
  <2>1. /\ begun' = [begun EXCEPT ![c] = clock] /\ pc' = [pc EXCEPT ![c] = "fetching"]
        /\ clock \in Int /\ HeaderTimeout \in Nat
    BY <1>2, Times DEF Fetch, RatesInv, TypeOK
  <2>2. Timely(c)'
    BY <1>1, <2>1 DEF Timely, RatesInv, TypeOK
  <2>3. QED
    BY <1>1, <1>2, <2>1, <2>2, GoesOn DEF Fetch
<1>3. CASE cache # Empty /\ Return(c, "cache", cache.table) /\ UNCHANGED begun
  <2>1. cache.table \in Tables /\ "cache" \in Sources
    BY <1>3, Times DEF RatesInv, TypeOK, Tables, Sources
  <2>2. QED
    BY <1>1, <1>3, <2>1, EndsPlainly
<1>4. QED
  BY <1>2, <1>3 DEF ReadCache

LEMMA StoreStep == ASSUME RatesInv, NEW c \in Call, Store(c) PROVE RatesInv'
<1>1. /\ pc[c] = "storing" /\ Return(c, "api", quoted[c])
      /\ UNCHANGED <<clock, asked, begun, quoted>>
  BY DEF Store
<1>2. /\ quoted[c] \in Tables /\ "api" \in Sources
      /\ quoted[c] \in 0..clock /\ clock \in 0..MaxClock /\ Ttl \in Nat \ {0}
  BY <1>1, Times DEF RatesInv, CallInv, TypeOK, Tables, Sources
<1>3. CASE UNCHANGED <<cache, stored>>
  BY <1>1, <1>2, <1>3, EndsPlainly
<1>4. CASE cache' = Entry(quoted[c]) /\ stored' = [stored EXCEPT ![c] = clock]
  <2>1. cache' = [table |-> quoted[c], until |-> clock + Ttl]
    BY <1>4 DEF Entry
  <2>2. CacheTyped'
    BY <1>1, <1>2, <2>1 DEF CacheTyped
  <2>3. /\ stored'[c] = clock /\ clock # NotStored
        /\ \A d \in Call : stored'[d] <= clock
    BY <1>2, <1>4, Times DEF RatesInv, TypeOK, NotStored
  <2>4. LastStored(c, quoted[c])'
    BY <1>1, <2>3 DEF LastStored
  <2>5. CacheKept'
    BY <1>1, <2>1, <2>3, <2>4 DEF CacheKept
  <2>6. QED
    BY <1>1, <1>2, <1>4, <2>2, <2>5, Ends
<1>5. QED
  BY <1>3, <1>4 DEF Store

LEMMA RatesNext == RatesInv /\ [Next]_vars => RatesInv'
<1> SUFFICES ASSUME RatesInv, [Next]_vars PROVE RatesInv'
  OBVIOUS
<1>1. ASSUME NEW c \in Call, Respond(c) \/ GetBody(c) \/ LoseFetch(c) PROVE RatesInv'
  <2>1. /\ pc[c] \in {"fetching", "body"} /\ asked[c].amount > 0 /\ Timely(c)
        /\ UNCHANGED <<clock, asked, cache, begun, stored>>
    BY <1>1 DEF Respond, GetBody, LoseFetch, RatesInv, CallInv
  <2>2. CASE FallBack(c) /\ UNCHANGED quoted
    BY <2>1, <2>2, FallsBack
  <2>3. CASE /\ pc[c] = "fetching" /\ pc' = [pc EXCEPT ![c] = "body"]
             /\ quoted' = [quoted EXCEPT ![c] = clock] /\ UNCHANGED answer
    <3>1. Timely(c)'
      BY <2>1, <2>3 DEF Timely, RatesInv, TypeOK
    <3>2. QED
      BY <2>1, <2>3, <3>1, GoesOn
  <2>4. CASE pc[c] = "body" /\ pc' = [pc EXCEPT ![c] = "storing"] /\ UNCHANGED <<quoted, answer>>
    <3>1. Timely(c)'
      BY <2>1, <2>4 DEF Timely, RatesInv, TypeOK
    <3>2. QED
      BY <2>1, <2>4, <3>1, GoesOn
  <2>5. QED
    BY <1>1, <2>2, <2>3, <2>4 DEF Respond, GetBody, LoseFetch
<1>2. CASE UNCHANGED vars
  <2>1. TypeOK' /\ answer' \in [Call -> Answers]
    BY <1>2 DEF vars, RatesInv, TypeOK, Pending, Empty
  <2>2. CacheKept' /\ \A c \in Call : CallInv(c)'
    BY <1>2 DEF vars, RatesInv, CacheKept, LastStored, CallInv, Timely, Accurate, Answered
  <2>3. QED
    BY <2>1, <2>2 DEF RatesInv
<1>3. QED
  BY <1>1, <1>2, TickStep, ConvertStep, ReadStep, StoreStep DEF Next

-----------------------------------------------------------------------------
(* Every value is of its type, and a call has an answer when it is over.   *)
THEOREM TypeCorrect == Spec => []TypeOK
<1>1. RatesInv => TypeOK
  BY DEF RatesInv
<1>2. QED
  BY <1>1, InitRates, RatesNext, PTL DEF Spec

LEMMA ReturnTells ==
    ASSUME RatesInv, NEW c \in Call, NEW source \in Sources, NEW t, Return(c, source, t),
           source = "api" => t = quoted[c] /\ pc[c] = "storing",
           source = "fallback" => t = DefaultRates,
           source = "cache" => cache # Empty /\ t = cache.table /\ pc[c] = "reading"
    PROVE  Told(c, answer'[c]) /\ \A d \in Call \ {c} : answer'[d] = answer[d]
<1>1. /\ \/ answer'[c] = Refused
         \/ answer'[c].source = source /\ answer'[c].table = t
      /\ \A d \in Call \ {c} : answer'[d] = answer[d]
  BY DEF Return, Answer, RatesInv
<1>2. CASE answer'[c] = Refused
  BY <1>1, <1>2 DEF Told, Refused
<1>3. CASE answer'[c].source = source /\ answer'[c].table = t
  <2>1. CASE source = "api"
    BY <1>1, <1>3, <2>1 DEF Told, RatesInv, CallInv, Timely
  <2>2. CASE source = "fallback"
    BY <1>1, <1>3, <2>2 DEF Told
  <2>3. CASE source = "cache"
    <3>1. PICK e \in Call : LastStored(e, t) /\ cache.until = stored[e] + Ttl
      BY <2>3 DEF RatesInv, CacheKept
    <3>2. e # c
      BY <2>3, <3>1 DEF RatesInv, CallInv, LastStored
    <3>3. clock - stored[e] < Ttl
      <4>1. /\ clock \in Int /\ cache.until \in Int /\ clock < cache.until
            /\ stored[e] \in Int /\ Ttl \in Int
        BY <2>3, <3>1, Times DEF RatesInv, TypeOK, LastStored, NotStored
      <4>2. QED
        BY <3>1, <4>1
    <3>4. QED
      BY <1>1, <1>3, <2>3, <3>1, <3>2, <3>3 DEF Told, LastStored
  <2>4. QED
    BY <2>1, <2>2, <2>3 DEF Sources
<1>4. QED
  BY <1>1, <1>2, <1>3

(* What getExchangeRate says of its rates is true: live ones are what this *)
(* call was sent in time, cached ones the last that were stored and        *)
(* younger there than the TTL, and the constants are called a fallback.    *)
THEOREM SourcesTold == Spec => SourceTold
<1>1. RatesInv /\ [Next]_vars =>
        [\A c \in Call : answer'[c] # answer[c] => Told(c, answer'[c])]_vars
  <2>1. SUFFICES ASSUME RatesInv, Next, NEW c \in Call, answer'[c] # answer[c]
                 PROVE  Told(c, answer'[c])
    OBVIOUS
  <2>2. ASSUME NEW d \in Call, \/ Convert(d) \/ ReadCache(d) \/ Respond(d) \/ LoseFetch(d)
                               \/ GetBody(d) \/ Store(d)
        PROVE  Told(c, answer'[c])
    <3>1. CASE FallBack(d)
      BY <2>1, <3>1, ReturnTells DEF FallBack, Sources
    <3>2. CASE pc[d] = "reading" /\ cache # Empty /\ Return(d, "cache", cache.table)
      BY <2>1, <3>2, ReturnTells DEF Sources
    <3>3. CASE pc[d] = "storing" /\ Return(d, "api", quoted[d])
      BY <2>1, <3>3, ReturnTells DEF Sources
    <3>4. CASE Convert(d)
      <4> DEFINE v == [source |-> "none needed",
                       converted |-> Converted(asked[d].amount, RateUnit)]
      <4>1. answer' = [answer EXCEPT ![d] = Refused] \/ answer' = [answer EXCEPT ![d] = v]
        BY <2>1, <3>4 DEF Convert
      <4>2. v.source = "none needed" /\ Refused.source = "refused"
        BY DEF Refused
      <4> HIDE DEF v
      <4>3. answer'[c] = Refused \/ answer'[c] = v
        BY <2>1, <4>1 DEF RatesInv
      <4>4. QED
        BY <4>2, <4>3 DEF Told
    <3>5. QED
      BY <2>1, <2>2, <3>1, <3>2, <3>3, <3>4
         DEF ReadCache, Fetch, Respond, LoseFetch, GetBody, Store
  <2>3. QED
    BY <2>1, <2>2 DEF Next, Tick
<1>2. QED
  BY <1>1, InitRates, RatesNext, PTL DEF Spec, SourceTold

(* convert rounds twice, with toFixed(6) and with toFixed(4), and uses one *)
(* table for both directions: what it answers differs from the exact       *)
(* amount by no more than the two roundings account for, for any rates.    *)
THEOREM Accuracy == Spec => []ConvertedAccurately
<1>1. RatesInv => ConvertedAccurately
  BY DEF RatesInv, CallInv, Accurate, Within, ConvertedAccurately
<1>2. QED
  BY <1>1, InitRates, RatesNext, PTL DEF Spec
=============================================================================

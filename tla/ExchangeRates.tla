--------------------------- MODULE ExchangeRates ----------------------------
(***************************************************************************)
(* ExchangeService: convert and the calls it makes, getExchangeRate,       *)
(* getLatestRates and fetchLiveRates.  The rates come from a key of Redis  *)
(* that expires, else from a provider on the Internet whose answer is      *)
(* stored there, else from a constant table; calls run concurrently, and   *)
(* Redis, the provider and the network can fail each of them.              *)
(*                                                                         *)
(* A table of the provider is known by the time at which it was quoted,    *)
(* and the constant one by DefaultRates.                                   *)
(***************************************************************************)
EXTENDS Integers

CONSTANTS
    Call,           \* the calls of convert
    Currency,
    Mixes,          \* what the calls may be asked for: functions on Call
    Market,         \* the provider's tables; 0 for a currency it does not have
    Defaults,       \* DEFAULT_FALLBACK_RATES
    Ttl,            \* FX_CACHE_TTL
    HeaderTimeout,  \* 5 seconds
    RateUnit,       \* 1000000: toFixed(6)
    MoneyUnit,      \* 10000: toFixed(4)
    MaxClock        \* bound: how long a behaviour lasts

Request == [amount : Int, from : Currency, to : Currency]

Table == [Currency -> Nat]

ASSUME DataAssumption ==
    /\ Mixes \subseteq [Call -> Request]
    /\ Market \in [0..MaxClock -> Table] /\ Defaults \in Table

ASSUME TimeAssumption == Ttl \in Nat \ {0} /\ HeaderTimeout \in Nat /\ MaxClock \in Nat

ASSUME UnitAssumption ==
    /\ RateUnit \in Nat \ {0} /\ MoneyUnit \in Nat \ {0}
    /\ RateUnit % MoneyUnit = 0

VARIABLES
    clock,
    asked,    \* what the calls are asked for
    cache,    \* the key of Redis: the table in it and when it expires
    pc,       \* the step of a call
    begun,    \* when its fetch began
    quoted,   \* when the table that it was sent was quoted
    answer,   \* what it returns
    stored    \* history: when it has stored its table in Redis

vars == <<clock, asked, cache, pc, begun, quoted, answer, stored>>

Steps == {"idle", "reading", "fetching", "body", "storing", "over"}
Empty == [until |-> 0]
DefaultRates == -1
NotStored == -1
Pending == [source |-> "none"]
Refused == [source |-> "refused"]

-----------------------------------------------------------------------------
(* The conversion.                                                         *)

Truncate(n, d) == n \div d  \* fault: cut off instead of rounded

Round(n, d) == (2 * n + d) \div (2 * d)

\* from -> to = (base -> to) / (base -> from)
Rate(rates, from, to) == Round(rates[to] * RateUnit, rates[from])

Converted(amount, rate) == Round(amount * rate, RateUnit \div MoneyUnit)

RatesOf(t) == IF t = DefaultRates THEN Defaults ELSE Market[t]

Answer(c, source, t) ==
    LET q == asked[c]
        rates == RatesOf(t)
        rate == Rate(rates, q.from, q.to)
    IN  answer' = [answer EXCEPT ![c] =
            IF rates[q.from] = 0 \/ rates[q.to] = 0 THEN Refused
            ELSE [source |-> source, table |-> t, converted |-> Converted(q.amount, rate)]]

Return(c, source, t) ==
    /\ Answer(c, source, t)
    /\ pc' = [pc EXCEPT ![c] = "over"]

LabelledApi(c) == Return(c, "api", DefaultRates)  \* fault: the constants pass for live rates

FallBack(c) == Return(c, "fallback", DefaultRates)

-----------------------------------------------------------------------------
Tick ==
    /\ clock < MaxClock
    /\ \A c \in Call : pc[c] # "reading"
    /\ \A c \in Call : pc[c] = "fetching" => clock < begun[c] + HeaderTimeout
    /\ clock' = clock + 1
    /\ cache' = IF clock' >= cache.until THEN Empty ELSE cache
    /\ UNCHANGED <<asked, pc, begun, quoted, answer, stored>>

(* An amount that is not positive is refused, and equal currencies need no *)
(* rates: the source says "cache" of them.  Calls begin early enough for   *)
(* their timers.                                                           *)
Convert(c) ==
    /\ pc[c] = "idle"
    /\ clock + HeaderTimeout <= MaxClock
    /\ LET q == asked[c]
       IN  \/ /\ q.amount <= 0
              /\ answer' = [answer EXCEPT ![c] = Refused]
              /\ pc' = [pc EXCEPT ![c] = "over"]
           \/ /\ q.amount > 0 /\ q.from = q.to
              /\ answer' = [answer EXCEPT ![c] =
                    [source |-> "none needed", converted |-> Converted(q.amount, RateUnit)]]
              /\ pc' = [pc EXCEPT ![c] = "over"]
           \/ /\ q.amount > 0 /\ q.from # q.to
              /\ pc' = [pc EXCEPT ![c] = "reading"]
              /\ UNCHANGED answer
    /\ UNCHANGED <<clock, asked, cache, begun, quoted, stored>>

Fetch(c) ==
    /\ pc' = [pc EXCEPT ![c] = "fetching"]
    /\ begun' = [begun EXCEPT ![c] = clock]
    /\ UNCHANGED answer

\* GET, which finds a table, or nothing, or fails.
ReadCache(c) ==
    /\ pc[c] = "reading"
    /\ \/ cache # Empty /\ Return(c, "cache", cache.table) /\ UNCHANGED begun
       \/ Fetch(c)
    /\ UNCHANGED <<clock, asked, cache, quoted, stored>>

(* The provider answers: with a table, whose body is still on its way when *)
(* the timer is cleared, or with an error status.                          *)
Respond(c) ==
    /\ pc[c] = "fetching"
    /\ \/ /\ pc' = [pc EXCEPT ![c] = "body"]
          /\ quoted' = [quoted EXCEPT ![c] = clock]
          /\ UNCHANGED answer
       \/ FallBack(c) /\ UNCHANGED quoted
    /\ UNCHANGED <<clock, asked, cache, begun, stored>>

\* The fetch is aborted by its timer, or the network fails before.
LoseFetch(c) ==
    /\ pc[c] = "fetching"
    /\ FallBack(c)
    /\ UNCHANGED <<clock, asked, cache, begun, quoted, stored>>

NoTimer(c) == FALSE  \* fault: nothing aborts the fetch

TimeOut(c) == clock >= begun[c] + HeaderTimeout /\ LoseFetch(c)

\* The body: a table, or something else, or the connection is lost.
GetBody(c) ==
    /\ pc[c] = "body"
    /\ \/ pc' = [pc EXCEPT ![c] = "storing"] /\ UNCHANGED answer
       \/ FallBack(c)
    /\ UNCHANGED <<clock, asked, cache, begun, quoted, stored>>

Forever(t) == [table |-> t, until |-> MaxClock + 1]  \* fault: no EX

Entry(t) == [table |-> t, until |-> clock + Ttl]

\* SET key rates EX ttl, which may fail; the call is answered all the same.
Store(c) ==
    /\ pc[c] = "storing"
    /\ \/ /\ cache' = Entry(quoted[c])
          /\ stored' = [stored EXCEPT ![c] = clock]
       \/ UNCHANGED <<cache, stored>>
    /\ Return(c, "api", quoted[c])
    /\ UNCHANGED <<clock, asked, begun, quoted>>

-----------------------------------------------------------------------------
Init ==
    /\ clock = 0
    /\ asked \in Mixes
    /\ cache = Empty
    /\ pc = [c \in Call |-> "idle"]
    /\ begun = [c \in Call |-> 0]
    /\ quoted = [c \in Call |-> 0]
    /\ answer = [c \in Call |-> Pending]
    /\ stored = [c \in Call |-> NotStored]

Next ==
    \/ Tick
    \/ \E c \in Call : \/ Convert(c) \/ ReadCache(c) \/ Respond(c) \/ LoseFetch(c)
                       \/ GetBody(c) \/ Store(c)

Spec == Init /\ [][Next]_vars

(* Time passes and timers fire, and Redis answers.  The provider need not. *)
Fairness ==
    /\ WF_vars(Tick)
    /\ \A c \in Call : WF_vars(ReadCache(c)) /\ WF_vars(TimeOut(c)) /\ WF_vars(Store(c))

FairSpec == Spec /\ Fairness

-----------------------------------------------------------------------------
(* Every value is of its type; a call has an answer when it is over.       *)
TypeOK ==
    /\ clock \in 0..MaxClock
    /\ asked \in Mixes
    /\ \/ cache = Empty
       \/ cache.table \in 0..clock /\ cache.until \in (clock + 1)..(clock + Ttl)
    /\ pc \in [Call -> Steps]
    /\ begun \in [Call -> 0..MaxClock] /\ quoted \in [Call -> 0..MaxClock]
    /\ \A c \in Call : answer[c] # Pending <=> pc[c] = "over"
    /\ stored \in [Call -> {NotStored} \cup 0..clock]

Answered(c) == answer[c].source \in {"cache", "api", "fallback"}

\* What is true of the rates behind a, when c is answered with it.
Told(c, a) ==
    /\ a.source = "api" =>
          a.table = quoted[c] /\ quoted[c] \in begun[c]..(begun[c] + HeaderTimeout)
    /\ a.source = "fallback" => a.table = DefaultRates
    /\ a.source = "cache" =>
          \E e \in Call \ {c} : /\ stored[e] # NotStored /\ quoted[e] = a.table
                                /\ clock - stored[e] < Ttl
                                /\ \A d \in Call : stored[d] <= stored[e]

(* A call is told the truth about its rates.  "api": they are the table    *)
(* that this very call was sent before its timer fired.  "fallback": they  *)
(* are the constants, which no other source returns.  "cache": they are a  *)
(* table that another call has stored, less than a TTL ago, and no other   *)
(* was stored since: a newer table is lost only to a call that was sent an *)
(* older one and stores it later.                                          *)
SourceTold ==
    [][\A c \in Call : answer'[c] # answer[c] => Told(c, answer'[c])]_vars

(* The amount is that of one table, up to half a unit of the last decimal  *)
(* of the rate, for each unit of the amount, and half of the amount's own  *)
(* (exchange.service.ts:80, "from -> to = (base -> to) / (base -> from)"). *)
ConvertedAccurately ==
    \A c \in Call : Answered(c) =>
        LET q == asked[c]
            rates == RatesOf(answer[c].table)
            error == answer[c].converted * rates[q.from] - q.amount * rates[q.to] * MoneyUnit
            steps == RateUnit \div MoneyUnit
        IN  2 * steps * (IF error < 0 THEN -error ELSE error) <= rates[q.from] * (steps + q.amount)

(* Every call that has begun is answered, also when Redis or the provider  *)
(* fails it, unless the provider sends its headers and never the body: the *)
(* timer is cleared by then (exchange.service.ts:205, "5 second timeout"). *)
AnsweredUnlessBodyStalls ==
    \A c \in Call : pc[c] = "reading" ~> (pc[c] = "over" \/ [](pc[c] = "body"))
=============================================================================

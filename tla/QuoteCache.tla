------------------------------ MODULE QuoteCache ------------------------------
(***************************************************************************)
(* What a checkout is priced with: PaymentPricingService and the buy       *)
(* config, whose quote cache sits on the spot price cache of               *)
(* MarketsService, which also caches the market list and the currencies.   *)
(*                                                                         *)
(* A price is the moment at which the provider's answer came in, the money *)
(* it says is left out; there is one asset and one market list, the cache  *)
(* keys are independent.  A handler runs from one await to the next.       *)
(***************************************************************************)
EXTENDS Naturals

CONSTANTS
    QuoteHandlers,      \* requests that can be at work at once
    MaxTime,            \* bound on the clock
    QuoteTtl,           \* QUOTE_TTL_MS and MARKETS_CACHE_TTL_MS, which are equal
    CurrenciesTtl       \* QUOTE_CURRENCIES_CACHE_TTL_MS

ASSUME QuoteAssumption ==
    /\ MaxTime \in Nat \ {0}
    /\ QuoteTtl \in Nat \ {0}
    /\ CurrenciesTtl \in Nat \ {0}

Times == 0..MaxTime
NoEntry == [at |-> 0, expires |-> 0]
IdleQuote == [op |-> "none"]
NoAnswer == [kind |-> "none"]

VARIABLES
    now,
    quoteCache,         \* one entry each, with the moment of its data
    spotPriceCache,
    marketsCache,
    quoteCurrencies,    \* when the cached currencies expire
    quoting,            \* the requests at work
    answer              \* the answer given last

quoteVars == <<now, quoteCache, spotPriceCache, marketsCache, quoteCurrencies,
               quoting, answer>>

Entries == [at : Times, expires : 0..(MaxTime + QuoteTtl)]

QuoteTypeOK ==
    /\ now \in Times
    /\ {quoteCache, spotPriceCache, marketsCache} \subseteq Entries
    /\ quoteCurrencies \in 0..(MaxTime + CurrenciesTtl)
    /\ quoting \in [QuoteHandlers -> {IdleQuote} \cup
           [op : {"price", "list"}, stage : {"start", "currencies", "lookup", "fetch"},
            kept : Entries]]
    /\ answer = NoAnswer \/ answer \in
           [kind : {"price", "list"}, status : {"fresh", "cached", "fallback", "stale"},
            age : Times]

QuoteInit ==
    /\ now = 1
    /\ quoteCache = NoEntry /\ spotPriceCache = NoEntry
    /\ marketsCache = NoEntry /\ quoteCurrencies = 0
    /\ quoting = [h \in QuoteHandlers |-> IdleQuote]
    /\ answer = NoAnswer

Caches == <<quoteCache, spotPriceCache, marketsCache, quoteCurrencies>>

(* An entry counts while it has not expired, and is kept after that.       *)
Fresh(entry) == entry.expires > now
Entry(at, ttl) == [at |-> at, expires |-> now + ttl]

Tick == now < MaxTime /\ now' = now + 1 /\ UNCHANGED <<Caches, quoting, answer>>

Go(h, stage) == quoting' = [quoting EXCEPT ![h].stage = stage]

Give(h, status, at) ==
    /\ answer' = [kind |-> quoting[h].op, status |-> status, age |-> now - at]
    /\ quoting' = [quoting EXCEPT ![h] = IdleQuote]

Refuse(h) == quoting' = [quoting EXCEPT ![h] = IdleQuote] /\ UNCHANGED answer

Request(h, op) ==
    /\ quoting[h] = IdleQuote
    /\ quoting' = [quoting EXCEPT ![h] =
           [op |-> op, stage |-> "start", kept |-> NoEntry]]
    /\ UNCHANGED <<now, Caches, answer>>

-----------------------------------------------------------------------------
(* quotePurchase and getBuyConfig: the presale price first, then the quote. *)
GetActivePresalePrice(h) ==
    /\ quoting[h].op = "price" /\ quoting[h].stage = "start"
    /\ \/ Go(h, "lookup") /\ UNCHANGED answer
       \/ Refuse(h)
    /\ UNCHANGED <<now, Caches>>

(* Faulty: a hit keeps the quote for another while.                        *)
MutantQuoteHit == quoteCache' = [quoteCache EXCEPT !.expires = now + QuoteTtl]

QuoteHit == UNCHANGED quoteCache

(* getFreshAssetQuote, and getCryptoSpotPriceUsd on a miss.  The quote     *)
(* made of a cached price lives as long as one made of a new price.        *)
GetFreshAssetQuote(h) ==
    /\ quoting[h].op = "price" /\ quoting[h].stage = "lookup"
    /\ IF Fresh(quoteCache)
       THEN QuoteHit /\ Give(h, "cached", quoteCache.at)
       ELSE IF Fresh(spotPriceCache)
       THEN /\ quoteCache' = Entry(spotPriceCache.at, QuoteTtl)
            /\ Give(h, "fresh", spotPriceCache.at)
       ELSE /\ quoting' = [quoting EXCEPT ![h].stage = "fetch", ![h].kept = quoteCache]
            /\ UNCHANGED <<quoteCache, answer>>
    /\ UNCHANGED <<now, spotPriceCache, marketsCache, quoteCurrencies>>

SpotPriceFetched(h) ==
    /\ quoting[h].op = "price" /\ quoting[h].stage = "fetch"
    /\ spotPriceCache' = Entry(now, QuoteTtl)
    /\ quoteCache' = Entry(now, QuoteTtl)
    /\ Give(h, "fresh", now)
    /\ UNCHANGED <<now, marketsCache, quoteCurrencies>>

(* An error status of the provider falls back on the quote that was there  *)
(* when the fetch began; a fetch that throws fails the request.            *)
SpotPriceUnavailable(h) ==
    /\ quoting[h].op = "price" /\ quoting[h].stage = "fetch"
    /\ \/ quoting[h].kept # NoEntry /\ Give(h, "fallback", quoting[h].kept.at)
       \/ Refuse(h)
    /\ UNCHANGED <<now, Caches>>

-----------------------------------------------------------------------------
(* getCryptoMarkets: first the currencies, to refuse an unknown one.       *)
GetCryptoQuoteCurrencies(h) ==
    /\ quoting[h].op = "list" /\ quoting[h].stage = "start"
    /\ Go(h, IF quoteCurrencies > now THEN "lookup" ELSE "currencies")
    /\ UNCHANGED <<now, Caches, answer>>

(* Without an answer the old currencies serve, or a built-in list.         *)
QuoteCurrenciesFetched(h) ==
    /\ quoting[h].op = "list" /\ quoting[h].stage = "currencies"
    /\ quoteCurrencies' \in {quoteCurrencies, now + CurrenciesTtl}
    /\ Go(h, "lookup") /\ UNCHANGED answer
    /\ UNCHANGED <<now, quoteCache, spotPriceCache, marketsCache>>

GetCryptoMarkets(h) ==
    /\ quoting[h].op = "list" /\ quoting[h].stage = "lookup"
    /\ \/ Fresh(marketsCache) /\ Give(h, "cached", marketsCache.at)
       \/ /\ ~Fresh(marketsCache)
          /\ quoting' = [quoting EXCEPT ![h].stage = "fetch", ![h].kept = marketsCache]
          /\ UNCHANGED answer
       \/ Refuse(h)
    /\ UNCHANGED <<now, Caches>>

MarketsFetched(h) ==
    /\ quoting[h].op = "list" /\ quoting[h].stage = "fetch"
    /\ marketsCache' = Entry(now, QuoteTtl)
    /\ Give(h, "fresh", now)
    /\ UNCHANGED <<now, quoteCache, spotPriceCache, quoteCurrencies>>

MarketsUnavailable(h) ==
    /\ quoting[h].op = "list" /\ quoting[h].stage = "fetch"
    /\ IF quoting[h].kept # NoEntry THEN Give(h, "stale", quoting[h].kept.at) ELSE Refuse(h)
    /\ UNCHANGED <<now, Caches>>

QuoteNext ==
    \/ Tick
    \/ \E h \in QuoteHandlers :
           \/ \E op \in {"price", "list"} : Request(h, op)
           \/ GetActivePresalePrice(h) \/ GetFreshAssetQuote(h)
           \/ SpotPriceFetched(h) \/ SpotPriceUnavailable(h)
           \/ GetCryptoQuoteCurrencies(h) \/ QuoteCurrenciesFetched(h)
           \/ GetCryptoMarkets(h) \/ MarketsFetched(h) \/ MarketsUnavailable(h)

QuoteSpec == QuoteInit /\ [][QuoteNext]_quoteVars

-----------------------------------------------------------------------------
(* One cache upon the other never makes a price older than the sum of both *)
(* lifetimes, nor a market list older than one, whatever the order in      *)
(* which concurrent requests miss, fetch and answer; what is older was     *)
(* served because the provider failed that very request.                   *)
PricesAreRecent ==
    answer # NoAnswer /\ answer.status \in {"fresh", "cached"} =>
        answer.age < (IF answer.kind = "price" THEN 2 ELSE 1) * QuoteTtl
=============================================================================

---------------------------- MODULE MarketContext ----------------------------
(***************************************************************************)
(* The backend's market context (backend/queries.py): what an item is      *)
(* worth now, for the audit's tools (analytics/tools.py).  Requests run    *)
(* concurrently, each from the stored facts of the item and then from      *)
(* Skinport's sales history, which the backend caches.                     *)
(*                                                                         *)
(* A name is a record [base, version].  Missing stands for None.           *)
(***************************************************************************)
EXTENDS Pricing

CONSTANTS
    Requests,
    Names,
    NoVersion,
    Stored(_),     \* the stored item of a name: [type, average, macro], a macro being [latest, volume] or NoMacro
    IsStored(_),   \* whether there is one
    NoMacro,
    Listed(_, _),  \* Skinport's history of a base name at a time: entries [version, history], perhaps none
    TTL,           \* CACHE_TTL_SECONDS
    Timeout,       \* of the request to Skinport
    Limit,         \* of search_macro_trends
    MaxTime

\* Times are in whole units, and the cache keeps entries for some.
ContextAssumption == TTL \in Nat \ {0} /\ MaxTime \in Nat

VARIABLES
    time,
    cache,         \* sales_history_cache: the entry of a name, when it was stored, Missing for never
    request,       \* each request: where it is, its name, the stored facts it read, when it looked
                   \* in the cache or asked, and what Skinport answers
    context        \* what it returns

vars == <<time, cache, request, context>>

NoEntry == [version |-> NoVersion]
NoContext == [status |-> "none"]
Idle == [phase |-> "idle"]

Init ==
    /\ time = 0
    /\ cache = [n \in Names |-> [at |-> Missing, entry |-> NoEntry]]
    /\ request = [r \in Requests |-> Idle]
    /\ context = [r \in Requests |-> NoContext]

-----------------------------------------------------------------------------
(* From facts to context.                                                  *)

\* Volume in hundredths of a sale a day; without a macro baseline everything is liquid.
apply_liquidity_guardrails(macro, type) ==
    macro = NoMacro \/ macro.volume >= (IF macro.latest > 15000 \/ type \in {"Knife", "Glove"} THEN 5 ELSE 50)

\* The entry of the version, or else the first
resolved_entry(entries, version) ==
    LET own == {i \in DOMAIN entries : version # NoVersion /\ entries[i].version = version}
    IN  IF own = {} THEN entries[1] ELSE entries[CHOOSE i \in own : \A j \in own : i <= j]

analyze_real_time_history(entry) ==
    IF entry = NoEntry THEN [median |-> Missing, decline |-> [num |-> 0, den |-> 1]]
    ELSE [median |-> resolve_recent_median(entry.history), decline |-> detect_downtrend(entry.history)]

\* The context of the stored facts and an entry, with the floor that fetch_live_market_floor tells the auditor
ContextOf(facts, entry) ==
    LET real == analyze_real_time_history(entry)
        liquid == apply_liquidity_guardrails(facts.macro, facts.type)
        cash == IF ~liquid THEN Missing ELSE IF real.median # Missing THEN real.median ELSE facts.average
    IN  [status |-> "ok", liquid |-> liquid, median |-> real.median, cash |-> cash,
         threshold |-> IF cash = Missing THEN Missing ELSE compute_snipe_threshold(cash, real.decline),
         floor |-> IF cash > 0 THEN cash ELSE IF real.median > 0 THEN real.median ELSE 0]

-----------------------------------------------------------------------------
(* A request.                                                              *)

Base(name) == [base |-> name.base, version |-> NoVersion]

Return(r, answer) ==
    /\ context' = [context EXCEPT ![r] = answer]
    /\ request' = [request EXCEPT ![r].phase = "done"]

\* _resolve_item and the two baselines. A query of a baseline that fails is None, and so are those after it in the
\* transaction; an unreachable database is the request's error.
Resolve(r, name) ==
    /\ request[r].phase = "idle"
    /\ UNCHANGED <<time, cache>>
    /\ \/ ~IsStored(Base(name)) /\ Return(r, [status |-> "not found"])
       \/ IsStored(Base(name)) /\ Return(r, [status |-> "error"])
       \/ LET item == IF IsStored(name) THEN Stored(name) ELSE Stored(Base(name))
          IN  /\ IsStored(Base(name))
              /\ \E failed \in {"none", "macro", "both"} :
                    request' = [request EXCEPT ![r] =
                        [phase |-> "resolved", name |-> name, at |-> Missing, entries |-> <<>>,
                         facts |-> [type |-> Stored(Base(name)).type,
                                    average |-> IF failed = "both" THEN Missing ELSE item.average,
                                    macro |-> IF failed = "none" THEN item.macro ELSE NoMacro]]]
              /\ UNCHANGED context

\* fetch_skinport_sales_history: from the cache, or a request that takes the time before it
FetchHistory(r) ==
    LET name == request[r].name
        cached == cache[name]
    IN  /\ request[r].phase = "resolved"
        /\ IF cached.at # Missing /\ time - cached.at < TTL
           THEN /\ context' = [context EXCEPT ![r] = ContextOf(request[r].facts, cached.entry)]
                /\ request' = [request EXCEPT ![r].phase = "done", ![r].at = time]
           ELSE request' = [request EXCEPT ![r].phase = "asking", ![r].at = time] /\ UNCHANGED context
        /\ UNCHANGED <<time, cache>>

\* Skinport makes its answer.
Serve(r) ==
    /\ request[r].phase = "asking"
    /\ request' = [request EXCEPT ![r].phase = "served", ![r].entries = Listed(request[r].name.base, time)]
    /\ UNCHANGED <<time, cache, context>>

\* Mutant of HistoryArrives: kept from the moment of the answer.
HistoryArrivesStamped(r) ==
    LET entries == request[r].entries
        entry == IF entries = <<>> THEN NoEntry ELSE resolved_entry(entries, request[r].name.version)
    IN  /\ request[r].phase = "served"
        /\ IF entries = <<>> THEN UNCHANGED cache
           ELSE cache' = [cache EXCEPT ![request[r].name] = [at |-> time, entry |-> entry]]
        /\ Return(r, ContextOf(request[r].facts, entry))
        /\ UNCHANGED time

\* It arrives.
HistoryArrives(r) ==
    LET entries == request[r].entries
        entry == IF entries = <<>> THEN NoEntry ELSE resolved_entry(entries, request[r].name.version)
    IN  /\ request[r].phase = "served"
        /\ IF entries = <<>> THEN UNCHANGED cache
           ELSE cache' = [cache EXCEPT ![request[r].name] = [at |-> request[r].at, entry |-> entry]]
        /\ Return(r, ContextOf(request[r].facts, entry))
        /\ UNCHANGED time

\* Another status, no answer in time, or no JSON
HistoryFails(r) ==
    /\ request[r].phase \in {"asking", "served"}
    /\ Return(r, ContextOf(request[r].facts, NoEntry))
    /\ UNCHANGED <<time, cache>>

\* search_macro_trends: the limit comes before the items without a baseline are left out.
SearchTrends(r) ==
    /\ request[r].phase = "idle"
    /\ \E base \in {n.base : n \in Names} :
          LET matching == {n \in Names : n.base = base /\ IsStored(n)}
              limit == IF Cardinality(matching) < Limit THEN Cardinality(matching) ELSE Limit
          IN  \E rows \in kSubset(limit, matching) :
                 Return(r, [status |-> "trends", found |-> {n \in rows : Stored(n).macro # NoMacro}])
    /\ UNCHANGED <<time, cache>>

\* The clock, which never passes the timeout of a request
Tick ==
    /\ time < MaxTime
    /\ \A r \in Requests : request[r].phase \in {"asking", "served"} => time - request[r].at < Timeout
    /\ time' = time + 1
    /\ UNCHANGED <<cache, request, context>>

Next ==
    \/ Tick
    \/ \E r \in Requests :
          \/ \E name \in Names : Resolve(r, name)
          \/ FetchHistory(r) \/ Serve(r) \/ HistoryArrives(r) \/ HistoryFails(r)
          \/ SearchTrends(r)

-----------------------------------------------------------------------------
(* However requests overlap, a context is what Skinport's sales say of     *)
(* this item at a moment less than TTL before the request looked, or it is *)
(* made without them: fetch_skinport_sales_history takes the time before   *)
(* it asks, so a slow answer is not kept for longer.                       *)
ContextFresh ==
    \A r \in Requests :
        context[r].status = "ok" =>
            \/ context[r] = ContextOf(request[r].facts, NoEntry)
            \/ \E t \in 0..time :
                  /\ t > request[r].at - TTL
                  /\ Listed(request[r].name.base, t) # <<>>
                  /\ context[r] = ContextOf(request[r].facts,
                                            resolved_entry(Listed(request[r].name.base, t), request[r].name.version))
=============================================================================

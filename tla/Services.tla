------------------------------ MODULE Services ------------------------------
(***************************************************************************)
(* Requests to the services outside: alert providers (Alerts), Skinport    *)
(* (SkinportPoll, and MarketContext for the backend), DMarket              *)
(* (DMarketClient) and the LLM provider with MLflow (Audit).  They run in  *)
(* several containers and share nothing, so a step is of one of them.      *)
(***************************************************************************)
EXTENDS Alerts, Integers

CONSTANTS
    Poll, Margin, MaxRetryAfter, MaxFallback, PollRetryAfters, MaxFaults,          \* of SkinportPoll
    Callers, Interval, Second, MaxBackoff, MaxRetries, ClientRetryAfters,          \* of DMarketClient
    Trades, Models, Configs, MaxToolRounds, AuditAttempts, ApproveAt, Scores,      \* of Audit
    Waits, DefaultWait, NoTrade, Absent, Garbled,
    Requests, Names, NoVersion, Stored(_), IsStored(_), NoMacro, Listed(_, _),     \* of MarketContext
    Spread(_), TTL, Timeout, Limit, MaxTime

VARIABLES
    pc, left, fallback, kept, owed, unsaved, forgot, early, faults,     \* of SkinportPoll
    waiting, next, call, gap, hold, slipped, crowded,                   \* of DMarketClient
    models, flow, todo, trade, phase, round, attempt, model, status,    \* of Audit
    logged, experiment, out, told, called, wait,
    time, cache, request, context                                       \* of MarketContext

Skinport == INSTANCE SkinportPoll WITH RetryAfters <- PollRetryAfters

DMarket == INSTANCE DMarketClient WITH RetryAfters <- ClientRetryAfters, queue <- waiting

Audit == INSTANCE Audit WITH MaxAttempts <- AuditAttempts, asked <- called

Context == INSTANCE MarketContext

ASSUME ServicesAssumption ==
    /\ Skinport!PollAssumption
    /\ DMarket!ClientAssumption
    /\ Audit!AuditAssumption
    /\ Context!ContextAssumption

skinport == <<pc, left, fallback, kept, owed, unsaved, forgot, early, faults>>
dmarket == <<waiting, next, call, gap, hold, slipped, crowded>>
audit == <<models, flow, todo, trade, phase, round, attempt, model, status, logged, experiment, out, told, called, wait>>
market == <<time, cache, request, context>>
all == <<vars, skinport, dmarket, audit, market>>

ServicesInit == Init /\ Skinport!Init /\ DMarket!Init /\ Audit!Init /\ Context!Init

ServicesNext ==
    \/ Next /\ UNCHANGED <<skinport, dmarket, audit, market>>
    \/ Skinport!Next /\ UNCHANGED <<vars, dmarket, audit, market>>
    \/ DMarket!Next /\ UNCHANGED <<vars, skinport, audit, market>>
    \/ Audit!Next /\ UNCHANGED <<vars, skinport, dmarket, market>>
    \/ Context!Next /\ UNCHANGED <<vars, skinport, dmarket, audit>>

ServicesSpec == ServicesInit /\ [][ServicesNext]_all

(* No request goes out that its service does not welcome: none of SkinportPoll is early, as far as the poller can know;
   those of DMarketClient start apart and are held back when none are left this second; and in Audit a model without quota
   is not asked again, and retries wait as long as the provider asks. *)
RequestsPaced == Skinport!Polite /\ DMarket!RequestsPaced /\ Audit!ProviderRespected

(* Every call of the DMarket client ends, and so does a run of the audit, with every trade audited. *)
Returns == DMarket!Returns /\ Audit!AuditEnds

(* MarketContext: a context is of sales no older than the cache allows. *)
ContextFresh == Context!ContextFresh
=============================================================================

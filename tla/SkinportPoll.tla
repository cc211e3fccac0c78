---------------------------- MODULE SkinportPoll ----------------------------
(***************************************************************************)
(* Polling Skinport's /v1/items (apps/listener/scrapers/skinport.py): when *)
(* the next request goes out, over answers of every kind, restarts, and an *)
(* edge Redis that fails or comes back empty.                              *)
(*                                                                         *)
(* Times are what is left of them: a tick makes every wait shorter.  A     *)
(* time in the past and no time at all make no difference, so the expiry   *)
(* of the key is the moment its time comes.                                *)
(***************************************************************************)
EXTENDS Naturals

CONSTANTS
    Poll,            \* POLL_INTERVAL_SECONDS
    Margin,          \* RETRY_AFTER_MARGIN_SECONDS
    MaxRetryAfter,   \* MAX_RETRY_AFTER_SECONDS
    MaxFallback,     \* MAX_FALLBACK_BACKOFF_SECONDS
    RetryAfters,     \* the delays a 429 may ask for
    MaxFaults        \* bound: restarts, and errors of Redis

\* Times are in whole units, and the backoff of a 429 without a usable delay starts at the poll interval.
PollAssumption ==
    /\ Poll \in Nat /\ Margin \in Nat /\ MaxRetryAfter \in Nat /\ MaxFaults \in Nat
    /\ MaxFallback \in Nat /\ MaxFallback >= Poll /\ RetryAfters \subseteq Nat

VARIABLES
    pc,         \* the poller
    left,       \* until its next_request_at
    fallback,   \* fallback_backoff_seconds
    kept,       \* until the time under NEXT_ITEMS_REQUEST_KEY, 0 for none
    owed,       \* ghost: until a request is welcome, by what the venue answered last
    unsaved,    \* ghost: Redis does not hold the time that the last request asks for
    forgot,     \* ghost: the poller started without that time
    early,      \* ghost: a request went out before it was welcome, by a poller that could know
    faults

vars == <<pc, left, fallback, kept, owed, unsaved, forgot, early, faults>>

Init ==
    /\ pc = "starting" /\ left = 0 /\ fallback = Poll /\ kept = 0
    /\ owed = 0 /\ unsaved = FALSE /\ forgot = FALSE /\ early = FALSE /\ faults = 0

Longer(x, y) == IF x < y THEN y ELSE x
Shorter(x, y) == IF x < y THEN x ELSE y
Fault == faults < MaxFaults /\ faults' = faults + 1

\* NextRequestStore.load
Loaded == kept

\* The start of poll_market_stream.  A Redis error is as good as no time.
Start ==
    /\ pc = "starting" /\ pc' = "waiting" /\ fallback' = Poll
    /\ \/ left' = Loaded /\ UNCHANGED <<forgot, faults>>
       \/ left' = 0 /\ forgot' = TRUE /\ Fault
    /\ UNCHANGED <<kept, owed, unsaved, early>>

Ask ==
    /\ pc = "waiting" /\ left = 0 /\ pc' = "asking"
    /\ early' = (early \/ (owed > 0 /\ ~forgot))
    /\ owed' = Poll /\ unsaved' = TRUE /\ forgot' = FALSE
    /\ UNCHANGED <<left, fallback, kept, faults>>

\* parse_retry_after: a longer delay is unusable.
Usable(delay) == delay <= MaxRetryAfter

Answered(wait, backoff, asks) ==
    /\ pc = "asking" /\ pc' = "saving"
    /\ left' = wait /\ fallback' = backoff /\ owed' = asks
    /\ UNCHANGED <<kept, unsaved, forgot, early, faults>>

\* 200, with the items
Items == Answered(Poll, Poll, owed)

\* Any other status, a timeout or a lost connection
Failed == Answered(Poll, fallback, owed)

RateLimited(delay) == Usable(delay) /\ Answered(delay + Margin, fallback, delay)

NextFallback == Shorter(MaxFallback, 2 * fallback)

\* A 429 without a usable Retry-After; the venue wants longer and longer waits.
RateLimitedBlindly == Answered(NextFallback, NextFallback, Longer(owed, Shorter(MaxFallback, 2 * fallback)))

\* NextRequestStore.save, before the items are handed on
Save ==
    /\ pc = "saving" /\ pc' = "handing_on"
    /\ \/ kept' = left /\ unsaved' = FALSE /\ UNCHANGED faults
       \/ Fault /\ UNCHANGED <<kept, unsaved>>
    /\ UNCHANGED <<left, fallback, owed, forgot, early>>

\* Handing the items on takes as long as the consumer does.
HandedOn ==
    /\ pc = "handing_on" /\ pc' = "waiting"
    /\ UNCHANGED <<left, fallback, kept, owed, unsaved, forgot, early, faults>>

\* The listener, or only the poll (rest_poll_producer), starts anew.
Restart ==
    /\ pc # "starting" /\ pc' = "starting" /\ Fault
    /\ forgot' = (forgot \/ unsaved)
    /\ UNCHANGED <<left, fallback, kept, owed, unsaved, early>>

\* The edge Redis comes back empty.
RedisRestarts ==
    /\ Fault
    /\ kept' = 0 /\ unsaved' = TRUE
    /\ forgot' = (forgot \/ pc = "starting")
    /\ UNCHANGED <<pc, left, fallback, owed, early>>

Less(n) == IF n = 0 THEN 0 ELSE n - 1

Tick ==
    /\ left + kept + owed > 0
    /\ left' = Less(left) /\ kept' = Less(kept) /\ owed' = Less(owed)
    /\ UNCHANGED <<pc, fallback, unsaved, forgot, early, faults>>

Next ==
    \/ Start \/ Ask \/ Items \/ Failed \/ RateLimitedBlindly \/ Save \/ HandedOn
    \/ \E delay \in RetryAfters : RateLimited(delay)
    \/ Restart \/ RedisRestarts \/ Tick

Spec == Init /\ [][Next]_vars

(* No request goes out within the poll interval of the last one or within the lockout of a 429, restarts
   included, unless the time was never stored, got lost with Redis or could not be read
   (poll_market_stream; "a restart never polls early (#282)"). *)
Polite == ~early
=============================================================================

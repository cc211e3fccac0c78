--------------------------- MODULE DMarketClient ---------------------------
(***************************************************************************)
(* The pacing of DMarket requests (DMarketClient in                        *)
(* packages/shared_utils/src/shared_utils/dmarket.py): callers that share  *)
(* one client, its lock, the pause after the last request of a second, and *)
(* the retries after a 429.                                                *)
(*                                                                         *)
(* Times are what is left of them: a tick makes every wait shorter.        *)
(***************************************************************************)
EXTENDS Naturals, Sequences

CONSTANTS
    Callers,
    Interval,     \* 1 / max_requests_per_second
    Second,
    MaxBackoff,   \* MAX_BACKOFF_SECONDS
    MaxRetries,
    RetryAfters   \* the delays a 429 may ask for, 0 without the header

\* Times and counts are in whole units.
ClientAssumption ==
    /\ Interval \in Nat /\ Second \in Nat /\ MaxBackoff \in Nat /\ MaxRetries \in Nat
    /\ RetryAfters \subseteq Nat

VARIABLES
    queue,      \* who waits for _lock, its holder in front
    next,       \* until _next_request_at
    call,       \* each caller's get: where it is, its sleep, its retries and its backoff
    gap,        \* ghost: until Interval has passed since the last request
    hold,       \* ghost: until a second has passed since a response said that no requests are left
    slipped,    \* ghost: how many requests went out within that second
    crowded     \* ghost: a request went out within Interval of another

vars == <<queue, next, call, gap, hold, slipped, crowded>>

Idle == [pc |-> "idle", sleep |-> 0, retries |-> 0, backoff |-> 0]

Init ==
    /\ queue = <<>> /\ next = 0 /\ call = [c \in Callers |-> Idle]
    /\ gap = 0 /\ hold = 0 /\ slipped = 0 /\ crowded = FALSE

Longer(x, y) == IF x < y THEN y ELSE x
Shorter(x, y) == IF x < y THEN x ELSE y
Less(n) == IF n = 0 THEN 0 ELSE n - 1

\* get: its first attempt queues for the lock.
Get(c) ==
    /\ call[c].pc = "idle"
    /\ call' = [call EXCEPT ![c] = [pc |-> "queued", sleep |-> 0, retries |-> 0, backoff |-> Second]]
    /\ queue' = Append(queue, c)
    /\ UNCHANGED <<next, gap, hold, slipped, crowded>>

\* _wait_for_turn sleeps until the next request may start, with the lock held.
FallAsleep(c) ==
    /\ call[c].pc = "queued" /\ queue # <<>> /\ Head(queue) = c /\ next > 0
    /\ call' = [call EXCEPT ![c].pc = "asleep", ![c].sleep = next]
    /\ UNCHANGED <<queue, next, gap, hold, slipped, crowded>>

\* Mutant of Turn: the turn after this one counts from the time of day, not from a pause set meanwhile.
TurnForgets == Interval

\* The turn after this one: a pause set during the sleep counts.
Turn == next + Interval

\* Its turn: the request goes out.
Send(c) ==
    /\ queue # <<>> /\ Head(queue) = c
    /\ \/ call[c].pc = "queued" /\ next = 0
       \/ call[c].pc = "asleep" /\ call[c].sleep = 0
    /\ call' = [call EXCEPT ![c].pc = "sent"]
    /\ queue' = Tail(queue)
    /\ next' = Turn
    /\ gap' = Interval /\ crowded' = (crowded \/ gap > 0)
    /\ slipped' = IF hold > 0 THEN slipped + 1 ELSE slipped
    /\ UNCHANGED hold

PausedUntil == Longer(next, Second)

\* _pause_after: the response used the last request of the second.
Pause(last) ==
    IF last THEN next' = PausedUntil /\ hold' = Second /\ slipped' = 0
    ELSE UNCHANGED <<next, hold, slipped>>

\* Any status but 429: the payload, or an error
Answered(c) ==
    /\ call[c].pc = "sent"
    /\ \E last \in BOOLEAN : Pause(last)
    /\ call' = [call EXCEPT ![c] = Idle]
    /\ UNCHANGED <<queue, gap, crowded>>

\* Mutant of Spent: a refusal does not count.
SpentNever(c) == FALSE

Spent(c) == call[c].retries = MaxRetries

\* 429: the caller sleeps without the lock.
Refused(c, delay) ==
    /\ call[c].pc = "sent"
    /\ \E last \in BOOLEAN : Pause(last)
    /\ call' = [call EXCEPT ![c] =
           [pc |-> "refused", sleep |-> Shorter(Longer(delay, @.backoff), MaxBackoff),
            retries |-> @.retries, backoff |-> Shorter(2 * @.backoff, MaxBackoff)]]
    /\ UNCHANGED <<queue, gap, crowded>>

\* After the sleep, another attempt
Retry(c) ==
    /\ call[c].pc = "refused" /\ call[c].sleep = 0 /\ ~Spent(c)
    /\ call' = [call EXCEPT ![c] =
           [pc |-> "queued", sleep |-> 0, retries |-> Shorter(@.retries + 1, MaxRetries), backoff |-> @.backoff]]
    /\ queue' = Append(queue, c)
    /\ UNCHANGED <<next, gap, hold, slipped, crowded>>

\* or DMarketAPIError.
GiveUp(c) ==
    /\ call[c].pc = "refused" /\ call[c].sleep = 0 /\ Spent(c)
    /\ call' = [call EXCEPT ![c] = Idle]
    /\ UNCHANGED <<queue, next, gap, hold, slipped, crowded>>

Tick ==
    /\ next + gap + hold > 0 \/ \E c \in Callers : call[c].sleep > 0
    /\ next' = Less(next) /\ gap' = Less(gap) /\ hold' = Less(hold)
    /\ slipped' = IF hold <= 1 THEN 0 ELSE slipped
    /\ call' = [c \in Callers |-> [call[c] EXCEPT !.sleep = Less(@)]]
    /\ UNCHANGED <<queue, crowded>>

Step(c) ==
    \/ FallAsleep(c) \/ Send(c) \/ Answered(c) \/ Retry(c) \/ GiveUp(c)
    \/ \E delay \in RetryAfters : Refused(c, delay)

Next == Tick \/ \E c \in Callers : Get(c) \/ Step(c)

Spec == Init /\ [][Next]_vars

\* Requests have a timeout, the lock is first come first served, and time passes.
Fairness == WF_vars(Tick) /\ \A c \in Callers : WF_vars(Step(c))

(* Requests start at least Interval apart, whoever makes them and whatever was refused, and after a response that
   used the last request of the second at most one goes out before a second is over: the one that slept through
   its turn already (_wait_for_turn, _pause_after). *)
RequestsPaced == ~crowded /\ slipped <= 1

(* Every call returns or fails (get): refusals are bounded, and no caller is passed over. *)
Returns == \A c \in Callers : call[c].pc # "idle" ~> call[c].pc = "idle"
=============================================================================

------------------------------- MODULE Alerts -------------------------------
(***************************************************************************)
(* Trade alerts (AlertDispatcher and RateLimiter in                        *)
(* apps/listener/alerts.py): what submit queues, and each channel's single *)
(* sender with its rate limit, its pauses and its attempts.                *)
(*                                                                         *)
(* Times are ages: a tick makes every send older and every pause shorter.  *)
(* The queue and its worker are a BoundedTaskPool with one worker.         *)
(***************************************************************************)
EXTENDS Naturals, Sequences, SequencesExt

CONSTANTS
    Channels,
    Alerts,          \* the approvals
    Key(_), Snapshot(_),   \* purchase_keys of an alert
    QueueSize, MaxPerWindow, Window, MaxWait, MaxAttempts,
    RetryAfters      \* the pauses a 429 may ask for

ASSUME AlertsAssumption ==
    /\ QueueSize \in Nat \ {0} /\ MaxPerWindow \in Nat \ {0} /\ Window \in Nat \ {0}
    /\ MaxWait \in Nat /\ MaxAttempts \in Nat \ {0} /\ RetryAfters \subseteq Nat

VARIABLES
    alerted,     \* _alerted, the keys remembered
    submitted,   \* ghost: the alerts that were no repeats, in order
    queue, sender,   \* each channel's queue, and what its worker does
    sent, paused,    \* each limiter's _sent as ages, and how long it is still paused
    posts, asked,    \* ghosts: the ages of the requests posted, and the rest of the pauses asked for
    delivered,   \* ghost: how often the provider took each alert
    outcome,     \* each alert's outcome per channel
    stored,      \* the outcomes the backend stored, per channel and alert
    open

limiter == <<sent, paused, posts, asked>>
results == <<delivered, outcome, stored>>
vars == <<alerted, submitted, queue, sender, sent, paused, posts, asked, delivered, outcome, stored, open>>

Idle == [pc |-> "idle"]
Outcomes == {"sent", "failed", "rate_limited", "dropped"}
Each(x) == [c \in Channels |-> x]

Init ==
    /\ alerted = {} /\ submitted = <<>>
    /\ queue = Each(<<>>) /\ sender = Each(Idle)
    /\ sent = Each(<<>>) /\ paused = Each(0) /\ posts = Each(<<>>) /\ asked = Each(0)
    /\ delivered = Each([a \in Alerts |-> 0])
    /\ outcome = Each([a \in Alerts |-> "none"])
    /\ stored = Each([a \in Alerts |-> <<>>])
    /\ open = TRUE

-----------------------------------------------------------------------------
\* The keys an alert leaves behind: its own, and that of the snapshot that shows it.
Remembered(a) == {Key(a), Snapshot(a)}

Accepts(c) == open /\ Len(queue[c]) < QueueSize

\* submit.  A repeat does nothing; an alert is remembered even where a full queue drops it.
Submit(a) ==
    /\ Key(a) \notin alerted
    /\ alerted' = alerted \cup Remembered(a)
    /\ submitted' = Append(submitted, a)
    /\ queue' = [c \in Channels |-> IF Accepts(c) THEN Append(queue[c], a) ELSE queue[c]]
    /\ outcome' = [c \in Channels |-> IF Accepts(c) THEN outcome[c] ELSE [outcome[c] EXCEPT ![a] = "dropped"]]
    /\ UNCHANGED <<sender, limiter, delivered, stored, open>>

-----------------------------------------------------------------------------
(* One channel's sender.                                                   *)

Becomes(c, s) == sender' = [sender EXCEPT ![c] = s]
Acquiring(a, n) == [pc |-> "acquiring", alert |-> a, attempt |-> n]
Settled(a, o) == [pc |-> "settled", alert |-> a, outcome |-> o]

Take(c) ==
    /\ sender[c] = Idle /\ queue[c] # <<>>
    /\ Becomes(c, Acquiring(Head(queue[c]), 1))
    /\ queue' = [queue EXCEPT ![c] = Tail(@)]
    /\ UNCHANGED <<alerted, submitted, limiter, results, open>>

Longer(x, y) == IF x < y THEN y ELSE x

\* Mutant of WaitTime: only the window counts.
WaitTimeUnpaused(c) == IF Len(sent[c]) >= MaxPerWindow THEN Window - sent[c][1] ELSE 0

\* wait_seconds: the rest of the pause, and until the oldest send leaves the window
WaitTime(c) ==
    Longer(paused[c], IF Len(sent[c]) >= MaxPerWindow THEN Window - sent[c][1] ELSE 0)

\* The slot is taken, and the request goes out at once.
TakeSlot(c) ==
    /\ WaitTime(c) = 0
    /\ sent' = [sent EXCEPT ![c] = Append(@, 0)]
    /\ posts' = [posts EXCEPT ![c] = Append(@, 0)]
    /\ Becomes(c, [sender[c] EXCEPT !.pc = "posting"])

\* acquire: a wait that is short enough is slept through and looked at again, in Tick.
Acquire(c) ==
    /\ sender[c].pc = "acquiring"
    /\ \/ TakeSlot(c)
       \/ /\ WaitTime(c) > MaxWait
          /\ Becomes(c, Settled(sender[c].alert, "rate_limited"))
          /\ UNCHANGED <<sent, posts>>
    /\ UNCHANGED <<alerted, submitted, queue, paused, asked, results, open>>

\* Mutant of NextAttempt: a 429 does not use up an attempt.
NextAttemptFree(s) == Acquiring(s.alert, s.attempt)

\* After a 429
NextAttempt(s) ==
    IF s.attempt < MaxAttempts THEN Acquiring(s.alert, s.attempt + 1) ELSE Settled(s.alert, "rate_limited")

\* The provider's reply, by whether it took the message: any other status, or a body that is not ok, is a failure.
OutcomeOf(taken) == IF taken THEN "sent" ELSE "failed"

\* Mutant of AfterError: a request without an answer is posted again.
AfterErrorRetry(s) == NextAttempt(s)

\* A request without an answer is not posted again: the provider may have taken it.
AfterError(s) == Settled(s.alert, "failed")

Delivered(c, a) == delivered' = [delivered EXCEPT ![c][a] = @ + 1]

Reply(c) ==
    LET s == sender[c] IN
    /\ s.pc = "posting"
    /\ \/ Becomes(c, Settled(s.alert, OutcomeOf(TRUE))) /\ Delivered(c, s.alert) /\ UNCHANGED <<paused, asked>>
       \/ Becomes(c, Settled(s.alert, OutcomeOf(FALSE))) /\ UNCHANGED <<delivered, paused, asked>>
       \/ \E r \in RetryAfters :
             /\ paused' = [paused EXCEPT ![c] = Longer(@, r)]
             /\ asked' = [asked EXCEPT ![c] = Longer(@, r)]
             /\ Becomes(c, NextAttempt(s)) /\ UNCHANGED delivered
       \/ /\ Becomes(c, AfterError(s)) /\ UNCHANGED <<paused, asked>>
          /\ Delivered(c, s.alert) \/ UNCHANGED delivered
    /\ UNCHANGED <<alerted, submitted, queue, sent, posts, outcome, stored, open>>

\* _record: the backend stores the outcome, or the failure to store it is only counted.
Record(c) ==
    LET s == sender[c] IN
    /\ s.pc = "settled"
    /\ Becomes(c, Idle)
    /\ outcome' = [outcome EXCEPT ![c][s.alert] = s.outcome]
    /\ \/ stored' = [stored EXCEPT ![c][s.alert] = Append(@, s.outcome)]
       \/ UNCHANGED stored
    /\ UNCHANGED <<alerted, submitted, queue, limiter, delivered, open>>

-----------------------------------------------------------------------------
\* How many of the oldest sends leave the window now
Expired(ages) ==
    CHOOSE n \in 0..Len(ages) : /\ \A i \in 1..n : ages[i] + 1 >= Window
                                /\ n < Len(ages) => ages[n + 1] + 1 < Window

Older(ages) == SubSeq([i \in 1..Len(ages) |-> ages[i] + 1], Expired(ages) + 1, Len(ages))
Shorter(x) == IF x = 0 THEN 0 ELSE x - 1

Tick ==
    /\ \E c \in Channels : sent[c] # <<>> \/ paused[c] > 0 \/ posts[c] # <<>> \/ asked[c] > 0
    /\ sent' = [c \in Channels |-> Older(sent[c])]
    /\ posts' = [c \in Channels |-> Older(posts[c])]
    /\ paused' = [c \in Channels |-> Shorter(paused[c])]
    /\ asked' = [c \in Channels |-> Shorter(asked[c])]
    /\ UNCHANGED <<alerted, submitted, queue, sender, results, open>>

\* close, at its timeout or with nothing left: what is queued is dropped, what is being sent is cancelled.
Close ==
    /\ open /\ open' = FALSE
    /\ queue' = Each(<<>>)
    /\ sender' = Each(Idle)
    /\ UNCHANGED <<alerted, submitted, limiter, results>>

Send(c) == Take(c) \/ Acquire(c) \/ Reply(c) \/ Record(c)

Next ==
    \/ \E a \in Alerts : Submit(a)
    \/ \E c \in Channels : Send(c)
    \/ Tick \/ Close

Spec == Init /\ [][Next]_vars

\* Requests have a timeout, and time passes.
Fairness == WF_vars(Tick) /\ \A c \in Channels : WF_vars(Send(c))

-----------------------------------------------------------------------------
TypeOK ==
    /\ alerted \subseteq {Key(a) : a \in Alerts} \cup {Snapshot(a) : a \in Alerts}
    /\ \A c \in Channels :
         /\ queue[c] \in Seq(Alerts) /\ Len(queue[c]) <= QueueSize
         /\ \/ sender[c] = Idle
            \/ sender[c] \in [pc : {"acquiring", "posting"}, alert : Alerts, attempt : 1..MaxAttempts]
            \/ sender[c] \in [pc : {"settled"}, alert : Alerts, outcome : Outcomes]
         /\ sent[c] \in Seq(0..Window - 1) /\ Len(sent[c]) <= MaxPerWindow
         /\ \A a \in Alerts : outcome[c][a] \in Outcomes \cup {"none"} /\ stored[c][a] \in Seq(Outcomes)

(* A channel's provider gets at most MaxPerWindow requests in any window, retries after a 429 included, and
   none before the pause asked for by a 429 is over (RateLimiter). *)
Paced ==
    /\ TypeOK
    /\ \A c \in Channels :
         /\ Len(posts[c]) <= MaxPerWindow
         /\ sender[c].pc = "posting" => asked[c] = 0

(* A listing is alerted once on a channel, whatever is retried, times out or is approved again, and the REST
   snapshot that shows an alerted listing is not alerted after it (submit).  Its trade_alerts row can be trusted:
   there is at most one, an alert stored as sent was taken by the provider, and one that was given up on was not
   (_record). *)
OneMessage ==
    /\ \A c \in Channels, a \in Alerts :
         /\ delivered[c][a] <= 1
         /\ Len(stored[c][a]) <= 1
         /\ \A o \in ToSet(stored[c][a]) \cup {outcome[c][a]} :
               /\ o = "sent" => delivered[c][a] > 0
               /\ o \in {"rate_limited", "dropped"} => delivered[c][a] = 0
    /\ \A i, j \in 1..Len(submitted) : i < j => Key(submitted[j]) # Snapshot(submitted[i])

(* A queued alert is sent or given up on in the end, unless the dispatcher closes. *)
Settles == \A c \in Channels, a \in Alerts :
    (\E i \in 1..Len(queue[c]) : queue[c][i] = a) ~> (outcome[c][a] # "none" \/ ~open)
=============================================================================

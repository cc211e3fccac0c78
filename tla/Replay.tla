------------------------------- MODULE Replay -------------------------------
(***************************************************************************)
(* The replay harness (apps/listener/backtest): recorded feed events and   *)
(* REST snapshots of a range are merged into one stream and decided by the *)
(* live rules, each with the baseline build in effect at that moment, and  *)
(* the decisions are written to a log.                                     *)
(*                                                                         *)
(* What the price window and the rules say of a tick is any of Scores and  *)
(* any rule: Detection models how they come to it.  What a replay writes   *)
(* before its range starts (the warmup) is only its baseline switches.     *)
(***************************************************************************)
EXTENDS Integers, Sequences, FiniteSets, FiniteSetsExt, SequencesExt

CONSTANTS
    Listings,      \* listing IDs of the item
    Lowest,        \* a REST snapshot, which names no listing
    Prices,
    Scores,        \* what the window gives: records [z, savings, stickers, macro]
    NoScore,
    Rules, NoRule, \* the DRE rules that approve
    LiveZ, LiveSavings, StickerZ,   \* Z_SCORE_THRESHOLD, MIN_SAVINGS_CENTS, Z_SCORE_STICKER_THRESHOLD
    PollGap,       \* POLL_GAP_MS
    WarmupStart, LogStart, LogEnd,  \* replay_start, --start, --end
    MaxLogged      \* bound: decisions in the log

ASSUME ReplayAssumption ==
    /\ Lowest \notin Listings /\ NoScore \notin Scores /\ NoRule \notin Rules
    /\ Scores \subseteq [z : Int, savings : Int, stickers : Nat, macro : BOOLEAN]
    /\ WarmupStart \in Nat /\ LogStart \in Nat /\ LogEnd \in Nat
    /\ WarmupStart <= LogStart /\ LogStart < LogEnd
    /\ PollGap \in Nat /\ MaxLogged \in Nat

VARIABLES
    builds,    \* when each stored build was built
    head,      \* per stream: the time of the event waiting in the heap, Wanted or Ended
    last,      \* per stream: the recorded time of the last row read
    poll,      \* PollClock: when the poll of the last snapshot row started
    active,    \* the build loaded into the store, or NoBuild
    log,       \* the decision log: baseline switches and decisions
    given      \* history: what the rules were given for each logged decision

vars == <<builds, head, last, poll, active, log, given>>

Times == 0..(LogEnd - 1)
Streams == {"snapshots", "feed"}
Wanted == -1
Ended == -2
NoBuild == -1

-----------------------------------------------------------------------------
(* The builds in effect.                                                   *)

\* Mutant of Scheduled: the builds of the range only.
ScheduledInside(stored) == {b \in stored : b < LogEnd /\ b >= WarmupStart}

\* The newest build at or before the start, and every later one before the end.
Scheduled(stored) ==
    LET before == {b \in stored : b <= WarmupStart}
    IN  {b \in stored : b < LogEnd /\ b >= (IF before = {} THEN WarmupStart ELSE Max(before))}

\* The newest build built by then; before any, the first one.
active_build(t) ==
    LET built == {b \in Scheduled(builds) : b <= t}
    IN  IF built = {} THEN Min(Scheduled(builds)) ELSE Max(built)

\* The log's line of a switch to another build, if there is one.
advance(t) ==
    IF active_build(t) = active THEN <<>>
    ELSE <<[type |-> "baseline", build |-> active_build(t), from |-> t, look_ahead |-> active_build(t) > t]>>

-----------------------------------------------------------------------------
(* The live rules on one scored tick, and what they leave in the log.      *)

source_can_trigger(s) == ~s.macro

should_trigger_anomaly(s, z, savings) ==
    /\ source_can_trigger(s)
    /\ s.z < (IF s.stickers > 0 THEN StickerZ ELSE z)
    /\ s.stickers > 0 \/ s.savings >= savings

Decision(approve, reason, s, rule, low) ==
    [approve |-> approve, reason |-> reason, score |-> s, dre_reason |-> rule, below_fee_floor |-> low]

\* rule is what the DRE says of the tick, low that its estimate is below the fee floor.
decide_scored(s, rule, low, z, savings) ==
    IF s = NoScore THEN Decision(FALSE, "insufficient_history", s, NoRule, FALSE)
    ELSE IF ~source_can_trigger(s) THEN Decision(FALSE, "macro_only", s, NoRule, FALSE)
    ELSE IF ~should_trigger_anomaly(s, z, savings)
         THEN Decision(FALSE, "below_threshold", s, rule, rule # NoRule /\ low)
    ELSE IF rule = NoRule THEN Decision(FALSE, "dre_rejected", s, NoRule, FALSE)
    ELSE IF low THEN Decision(FALSE, "below_fee_floor", s, NoRule, FALSE)
    ELSE Decision(TRUE, rule, s, NoRule, FALSE)

Repeat(reason) == Decision(FALSE, reason, NoScore, NoRule, FALSE)

-----------------------------------------------------------------------------
(* The replay loop.                                                        *)

Init ==
    /\ builds \in {stored \in SUBSET Times : Scheduled(stored) # {}}   \* the command refuses a range without one
    /\ head = [s \in Streams |-> Wanted] /\ last = [s \in Streams |-> WarmupStart]
    /\ poll = [started |-> WarmupStart, previous |-> WarmupStart - PollGap - 1]
    /\ active = NoBuild /\ log = <<>> /\ given = <<>>

\* A snapshot row gets the time its poll started.
stamp(t) == IF t - poll.previous > PollGap THEN t ELSE poll.started

\* push_next: the next row of a stream goes into the heap.
Pull(s) ==
    /\ head[s] = Wanted
    /\ \/ head' = [head EXCEPT ![s] = Ended] /\ UNCHANGED <<last, poll>>
       \/ \E t \in last[s]..(LogEnd - 1) :
            /\ last' = [last EXCEPT ![s] = t]
            /\ \/ s = "feed" /\ head' = [head EXCEPT ![s] = t] /\ UNCHANGED poll
               \/ s = "snapshots" /\ head' = [head EXCEPT ![s] = stamp(t)]
                  /\ poll' = [started |-> stamp(t), previous |-> t]
    /\ UNCHANGED <<builds, active, log, given>>

\* The heap's smallest: the earlier event, and a snapshot before a feed event of the same time.
First(s) ==
    /\ \A x \in Streams : head[x] # Wanted
    /\ head[s] \in Times
    /\ \A x \in Streams \ {s} : head[x] = Ended \/ head[s] < head[x] \/ (head[s] = head[x] /\ s = "snapshots")

should_log(of, d) == of # Lowest \/ d.approve

\* The event of a stream makes a tick whose decision is logged.
Handle(s, t, of, p, d, g) ==
    /\ First(s)
    /\ head[s] = t
    /\ of \in IF s = "feed" THEN Listings ELSE {Lowest}
    /\ t >= LogStart /\ should_log(of, d)
    /\ Len(given) < MaxLogged
    /\ active' = active_build(t)
    /\ head' = [head EXCEPT ![s] = Wanted]
    /\ log' = log \o advance(t) \o <<[type |-> "decision", time |-> t, of |-> of, price |-> p, d |-> d]>>
    /\ given' = Append(given, g)
    /\ UNCHANGED <<builds, last, poll>>

\* A listing that repeats an earlier tick is not scored.
Skip(s, of, p) == Handle(s, head[s], of, p, Repeat("duplicate"), [score |-> NoScore, rule |-> NoRule, low |-> FALSE])

Score(s, of, p) ==
    \E w \in Scores \cup {NoScore}, rule \in Rules \cup {NoRule}, low \in BOOLEAN :
        /\ w = NoScore => rule = NoRule
        /\ rule = NoRule => ~low
        /\ Handle(s, head[s], of, p, decide_scored(w, rule, low, LiveZ, LiveSavings),
                  [score |-> w, rule |-> rule, low |-> low])

\* An event that leaves no decision in the log: a listing that was sold, any tick of the warmup, or a lowest ask that
\* is unchanged, a duplicate or not approved
Pass(s) ==
    /\ First(s)
    /\ active' = active_build(head[s])
    /\ head' = [head EXCEPT ![s] = Wanted]
    /\ log' = log \o advance(head[s])
    /\ UNCHANGED <<builds, last, poll, given>>

Next ==
    \E s \in Streams :
        \/ Pull(s) \/ Pass(s)
        \/ \E of \in Listings \cup {Lowest}, p \in Prices : Skip(s, of, p) \/ Score(s, of, p)

Spec == Init /\ [][Next]_vars
=============================================================================

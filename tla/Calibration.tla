---------------------------- MODULE Calibration ----------------------------
(***************************************************************************)
(* The CFO calibration experiment (apps/analytics/cfo_calibration.py): an  *)
(* LLM is asked, with several system prompts, how likely each labeled      *)
(* trade is to make money, from what was known when it was decided.  The   *)
(* answers go to a verdicts file that later runs resume from, and the      *)
(* report scores them.                                                     *)
(*                                                                         *)
(* A question is a trade and a prompt (variant), one model is asked, and   *)
(* probabilities are integers out of Unit.  Every reader of the verdicts   *)
(* file looks at the lines of one question, so the file is a sequence per  *)
(* question.  Wording, token counts and intervals are left out.            *)
(***************************************************************************)
EXTENDS Integers, Sequences, FiniteSets, FiniteSetsExt, SequencesExt

CONSTANTS
    Cases,         \* the labeled trades, in the run's seeded order: records [decided, item, profitable, margin]
    Variants,      \* VARIANTS, in order
    Concurrency,   \* questions open at once
    MaxToolRounds, MaxRetries,   \* MAX_TOOL_ROUNDS, MAX_RATE_LIMIT_RETRIES
    Unit,          \* the probability 1.0
    Probabilities, \* what the model can answer
    Failed,        \* the verdict of a question whose evaluation failed
    Thresholds, Bins,            \* THRESHOLDS, RELIABILITY_BINS
    SalesSpan, ListingsSpan,     \* RECENT_SALES_DAYS, RECENT_LISTINGS_HOURS
    MaxTime, MaxRuns             \* bounds

CalibrationAssumption ==
    /\ Len(Cases) \in Nat /\ DOMAIN Cases = 1..Len(Cases) /\ \A c \in DOMAIN Cases : Cases[c].decided \in Nat
    /\ Len(Variants) \in Nat /\ DOMAIN Variants = 1..Len(Variants)
    /\ Concurrency \in Nat /\ SalesSpan \in Nat /\ ListingsSpan \in Nat /\ MaxTime \in Nat
    /\ Failed \notin Probabilities

VARIABLES
    tool_loop, \* ask_cfo's tool loop, or ask_claude_code's one sealed prompt
    market,   \* what the database holds of the item: when builds, sales and listings came
    lines,    \* the verdicts file: per question, its verdicts
    running,  \* a run is under way
    pending,  \* the questions whose task waits for a slot
    asks,     \* the open questions: where each one's conversation is
    quota,    \* a daily quota (or a usage limit) was hit in this run
    runs

vars == <<tool_loop, market, lines, running, pending, asks, quota, runs>>

Questions == (DOMAIN Cases) \X (DOMAIN Variants)
Fresh == [stage |-> "tools", round |-> 1, attempt |-> 1]
NoAsks == [q \in {} |-> Fresh]
Open == DOMAIN asks

-----------------------------------------------------------------------------
(* What a question may show of the market.                                 *)

Decided == {Cases[c].decided : c \in DOMAIN Cases}

fetch_baseline_snapshots(until) == {b \in market.builds : b <= until}

\* load_cases: what is read for all trades together.
history ==
    [builds |-> fetch_baseline_snapshots(Max(Decided)),
     sold |-> {s \in market.sold : Min(Decided) - SalesSpan <= s /\ s < Max(Decided)},
     listed |-> {s \in market.listed : Min(Decided) - ListingsSpan <= s /\ s < Max(Decided)}]

before(events, start, end) == {e \in events : start <= e /\ e < end}

\* Mutant of as_of: the newest build that was read.
as_of_newest(known, moment) ==
    [build |-> known.builds,
     sales |-> before(known.sold, moment - SalesSpan, moment),
     listings |-> before(known.listed, moment - ListingsSpan, moment)]

\* MarketView: the newest build of the moment, and the events shortly before it.
as_of(known, moment) ==
    [build |-> LET built == {b \in known.builds : b <= moment} IN IF built = {} THEN {} ELSE {Max(built)},
     sales |-> before(known.sold, moment - SalesSpan, moment),
     listings |-> before(known.listed, moment - ListingsSpan, moment)]

-----------------------------------------------------------------------------
(* The verdicts file.                                                      *)

Answers(q) == {i \in DOMAIN lines[q] : lines[q][i] # Failed}

\* Mutant of Done: every run starts from nothing.
DoneNever(q) == FALSE

\* A question with a successful verdict is not asked again.
Done(q) == Answers(q) # {}

\* latest_verdicts: the first success, or the last failure.
Verdict(q) == IF Answers(q) # {} THEN lines[q][Min(Answers(q))] ELSE lines[q][Len(lines[q])]

-----------------------------------------------------------------------------
(* A run.                                                                  *)

Init ==
    /\ tool_loop \in BOOLEAN
    /\ market \in [builds : SUBSET (0..MaxTime), sold : SUBSET (0..MaxTime), listed : SUBSET (0..MaxTime)]
    /\ lines = [q \in Questions |-> <<>>]
    /\ running = FALSE /\ pending = <<>> /\ asks = NoAsks /\ quota = FALSE
    /\ runs = 0

\* Every prompt is asked about one trade before the next trade.
Order(q, r) == q[1] < r[1] \/ (q[1] = r[1] /\ q[2] < r[2])

sorted(set, precedes(_, _)) ==
    [i \in 1..Cardinality(set) |-> CHOOSE x \in set : Cardinality({y \in set : precedes(y, x)}) = i - 1]

StartRun ==
    /\ ~running
    /\ runs < MaxRuns
    /\ running' = TRUE /\ runs' = runs + 1 /\ quota' = FALSE
    /\ pending' = sorted({q \in Questions : ~Done(q)}, Order)
    /\ UNCHANGED <<tool_loop, market, lines, asks>>

\* The first task in line gets a slot; after a quota error it asks nothing.
TakeSlot ==
    /\ running
    /\ pending # <<>>
    /\ Cardinality(Open) < Concurrency
    /\ pending' = Tail(pending)
    /\ asks' = IF quota THEN asks ELSE [q \in Open \cup {Head(pending)} |-> IF q \in Open THEN asks[q] ELSE Fresh]
    /\ UNCHANGED <<tool_loop, market, lines, running, quota, runs>>

Close(q) == asks' = [r \in Open \ {q} |-> asks[r]]
Go(q, state) == asks' = [asks EXCEPT ![q] = state]

Write(q, verdict) ==
    /\ lines' = [lines EXCEPT ![q] = Append(@, verdict)]
    /\ Close(q)
    /\ UNCHANGED <<tool_loop, market, running, pending, quota, runs>>

Continue(q, state) ==
    /\ Go(q, state)
    /\ UNCHANGED <<tool_loop, market, lines, running, pending, quota, runs>>

\* A good answer ends the question, whatever the stage.
Answer(q) == \E p \in Probabilities : Write(q, p)

AskFinally(q) == Continue(q, [Fresh EXCEPT !.stage = "final"])

\* No verdict in the answer: it is asked for once more, without tools.
Garbled(q) ==
    /\ tool_loop
    /\ IF asks[q].stage = "tools" THEN AskFinally(q) ELSE Write(q, Failed)

\* The model calls tools; after the last round it is asked for the answer.
CallTools(q) ==
    /\ tool_loop /\ asks[q].stage = "tools"
    /\ IF asks[q].round < MaxToolRounds
       THEN Continue(q, [Fresh EXCEPT !.round = asks[q].round + 1])
       ELSE AskFinally(q)

\* The provider rejects a tool call: asked again with tools off, then without any.
RejectTool(q) ==
    /\ tool_loop
    /\ \/ asks[q].stage = "tools" /\ AskFinally(q)
       \/ asks[q].stage = "final" /\ Continue(q, [Fresh EXCEPT !.stage = "bare"])
       \/ asks[q].stage = "bare" /\ Write(q, Failed)

\* A rate limit, a server error or a lost connection is retried; another rejection is not.
Trouble(q) ==
    /\ tool_loop
    /\ \/ asks[q].attempt < MaxRetries /\ Continue(q, [asks[q] EXCEPT !.attempt = @ + 1])
       \/ Write(q, Failed)

\* Claude Code: no answer in time, an error, or no verdict in the answer.
ClaudeFails(q) == ~tool_loop /\ Write(q, Failed)

\* The daily quota leaves no verdict and stops new questions.
HitQuota(q) ==
    /\ quota' = TRUE
    /\ Close(q)
    /\ UNCHANGED <<tool_loop, market, lines, running, pending, runs>>

EndRun ==
    /\ running
    /\ pending = <<>> /\ Open = {}
    /\ running' = FALSE
    /\ UNCHANGED <<tool_loop, market, lines, pending, asks, quota, runs>>

\* The process is killed: the open questions' answers are lost.
Kill ==
    /\ running
    /\ running' = FALSE /\ pending' = <<>> /\ asks' = NoAsks
    /\ UNCHANGED <<tool_loop, market, lines, quota, runs>>

Respond(q) == Answer(q) \/ Garbled(q) \/ CallTools(q) \/ RejectTool(q) \/ Trouble(q) \/ ClaudeFails(q) \/ HitQuota(q)

Next == StartRun \/ TakeSlot \/ (\E q \in Open : Respond(q)) \/ EndRun \/ Kill

Spec == Init /\ [][Next]_vars

-----------------------------------------------------------------------------
(* The report.                                                             *)

AnsweredBy(v) == {c \in DOMAIN Cases : lines[<<c, v>>] # <<>>}
Present == {v \in DOMAIN Variants : AnsweredBy(v) # {}}

\* The trades that every prompt has answered; a failure counts as an answer.
complete == IF Present = {} THEN {} ELSE {c \in DOMAIN Cases : \A v \in Present : c \in AnsweredBy(v)}

scored(v) == {c \in complete : lines[<<c, v>>] # <<>> /\ Verdict(<<c, v>>) # Failed}

group_summary(cs) ==
    [trades |-> Cardinality(cs), profitable |-> Cardinality({c \in cs : Cases[c].profitable}),
     net_pnl |-> FoldSet(LAMBDA c, acc : acc + Cases[c].margin, 0, cs)]

\* A trade without a probability is kept, as the DRE alone would keep it.
vetoed(v, threshold) == {c \in scored(v) : Verdict(<<c, v>>) < threshold}

\* What the vetoes change, added up item by item.
paired_veto_difference(cs) ==
    LET Items == {Cases[c].item : c \in complete}
        Of(i) == FoldSet(LAMBDA c, acc : acc - Cases[c].margin, 0, {c \in cs : Cases[c].item = i})
    IN  FoldSet(LAMBDA i, acc : acc + Of(i), 0, Items)

\* The bins' members: half-open, the last one closed.
reliability(v) ==
    [b \in 1..Bins |->
        {c \in scored(v) : LET p == Verdict(<<c, v>>) * Bins
                           IN  \/ (b - 1) * Unit <= p /\ p < b * Unit
                               \/ b = Bins /\ p = Unit * Bins}]

\* Twice the wins of profitable trades over the others, and twice the pairs: ties count half.
roc_auc(v, profitable) ==
    LET P(c) == Verdict(<<c, v>>)
        pairs == {pair \in scored(v) \X scored(v) :
                    Cases[pair[1]].profitable = profitable /\ Cases[pair[2]].profitable # profitable}
    IN  [wins |-> 2 * Cardinality({pair \in pairs : P(pair[1]) > P(pair[2])})
                  + Cardinality({pair \in pairs : P(pair[1]) = P(pair[2])}),
         of |-> 2 * Cardinality(pairs)]

-----------------------------------------------------------------------------
(* What a question shows is all that was recorded for it, and nothing of   *)
(* a later moment: the newest build at the decision and the events of the  *)
(* spans before it, though all trades' data is read at once (load_cases,   *)
(* MarketHistory.as_of).                                                   *)
SeesWhatWasKnown ==
    \A m \in Decided :
        LET view == as_of(history, m)
            built == {b \in market.builds : b <= m}
        IN  /\ view.build = {b \in built : \A x \in built : x <= b}
            /\ view.sales = {s \in market.sold : s < m /\ m - s <= SalesSpan}
            /\ view.listings = {s \in market.listed : s < m /\ m - s <= ListingsSpan}

(* No question is asked again after a successful verdict, however often a  *)
(* run stops and resumes (the module docstring: "without paying for a      *)
(* trade twice"); what a kill loses was never written.                     *)
PaidOnce == \A q \in Questions : Cardinality(Answers(q)) <= 1 /\ (q \in Open => Answers(q) = {})

(* Whenever a run has stopped, at most Concurrency questions before the    *)
(* last one with a verdict have none: what a quota or a kill leaves is a   *)
(* sample of trades answered by every prompt (run_verdicts).               *)
LeavesSample ==
    ~running =>
        Cardinality({q \in Questions : lines[q] = <<>> /\ \E r \in Questions : lines[r] # <<>> /\ Order(q, r)})
            <= Concurrency

(* The report compares the prompts on the same trades, and each gate       *)
(* divides them: kept and vetoed trades make up the DRE's, the paired      *)
(* difference is what the vetoes save, every probability is in one bin,    *)
(* and the AUC of the losses complements that of the gains.                *)
ReportAddsUp ==
    \A v \in Present :
        /\ complete \subseteq AnsweredBy(v)
        /\ \A t \in Thresholds :
             LET out == group_summary(vetoed(v, t))
                 kept == group_summary(complete \ vetoed(v, t))
             IN  /\ \A f \in DOMAIN kept : kept[f] + out[f] = group_summary(complete)[f]
                 /\ kept.net_pnl = group_summary(complete).net_pnl + paired_veto_difference(vetoed(v, t))
        /\ FoldSet(LAMBDA b, acc : acc + Cardinality(reliability(v)[b]), 0, 1..Bins) = Cardinality(scored(v))
        /\ roc_auc(v, TRUE).wins + roc_auc(v, FALSE).wins = roc_auc(v, TRUE).of

=============================================================================

-------------------------------- MODULE Audit --------------------------------
(***************************************************************************)
(* The daily audit (apps/analytics/evaluate_performance.py): an LLM is     *)
(* asked about every paper trade, one after the other, and each verdict is *)
(* logged to MLflow.  A model whose daily quota is used up is replaced by  *)
(* the next configured one (llm_config.py), other failures are retried.    *)
(*                                                                         *)
(* An error tells how long to wait on up to three channels: the header in  *)
(* milliseconds, the header in seconds, and the text of the message.       *)
(***************************************************************************)
EXTENDS Integers, Sequences, FiniteSets, FiniteSetsExt

CONSTANTS
    Trades,
    Models,         \* names of models
    Configs,        \* what LLM_MODEL and LLM_FALLBACK_MODELS may hold: records [primary, fallbacks]
    MaxToolRounds,  \* _MAX_TOOL_ROUNDS
    MaxAttempts,
    ApproveAt, Scores,
    Waits,          \* the waits a provider may ask for
    DefaultWait,    \* of _extract_retry_after
    NoTrade, Absent, Garbled

\* Waits are in whole seconds.
AuditAssumption ==
    /\ \A c \in Configs : c.primary \in Models /\ c.fallbacks \in Seq(Models)
    /\ Waits \subseteq Nat /\ DefaultWait \in Nat
    /\ Absent \notin Waits /\ Garbled \notin Waits

VARIABLES
    models,      \* the configured models, in order
    flow,        \* "on", "off", "killed"
    todo,        \* fetched trades that are still to be audited
    trade,       \* the one being audited, or NoTrade
    phase,       \* of its audit: "tools", "json", "wait", "log" (then "run" while MLflow has it open)
    round, attempt,
    model,       \* _model_index_var
    status,      \* eval_status, or "" before there is one
    logged,      \* per trade: what MLflow shows of its audit in this run of the flow
    experiment,  \* get_experiment_id's cache
    out,         \* the models whose quota of the day is used up
    told,        \* history: the ones that have said so in this run
    asked,       \* history: the last call's model, and whether it had said so
    wait         \* of the retry: how long, and how long the provider asked for (history)

vars == <<models, flow, todo, trade, phase, round, attempt, model, status, logged, experiment, out, told, asked, wait>>

-----------------------------------------------------------------------------
(* Settings and errors.                                                    *)

\* _parse_fallback_models: each name once, where it comes first, and the primary model not again.
Kept(raw, primary) == {i \in 1..Len(raw) : raw[i] # primary /\ \A j \in 1..i - 1 : raw[j] # raw[i]}
Rank(i, kept) == Cardinality({j \in kept : j <= i})
Nth(n, kept) == CHOOSE i \in kept : Rank(i, kept) = n

parse_fallback_models(raw, primary) ==
    LET kept == Kept(raw, primary)
    IN  [n \in 1..Cardinality(kept) |-> raw[Nth(n, kept)]]

all_models(config) == <<config.primary>> \o parse_fallback_models(config.fallbacks, config.primary)

\* A wait w told on some of the channels, the others empty or unreadable.
Errors == {[c \in {"ms", "after", "text"} |-> IF c \in on THEN w ELSE IF c \in bad THEN Garbled ELSE Absent] :
              w \in Waits, on \in SUBSET {"ms", "after", "text"}, bad \in SUBSET {"ms", "after"}}

Readable(value) == value \notin {Absent, Garbled}

extract_retry_after(e) == IF Readable(e.text) THEN e.text + 1 ELSE DefaultWait

retry_delay_for(e) ==
    IF Readable(e.ms) THEN e.ms + 1
    ELSE IF Readable(e.after) THEN e.after + 1
    ELSE extract_retry_after(e)

AskedFor(e) == Max({0} \cup {e[c] : c \in {d \in DOMAIN e : Readable(e[d])}})

-----------------------------------------------------------------------------
(* The flow.                                                               *)

NoWait == [delay |-> 0, wished |-> 0]

Init ==
    /\ models \in {all_models(c) : c \in Configs}
    /\ flow = "off" /\ todo = {} /\ trade = NoTrade /\ phase = "log" /\ round = 0 /\ attempt = 0 /\ model = 1
    /\ status = "" /\ logged = [t \in Trades |-> "none"] /\ experiment = "unknown"
    /\ out = {} /\ told = {} /\ asked = [model |-> models[1], told |-> FALSE] /\ wait = NoWait

\* The container runs the flow on every trade there is; by then another day's quota may have begun.
Start ==
    /\ flow # "on"
    /\ flow' = "on" /\ todo' = Trades /\ model' = 1 /\ trade' = NoTrade
    /\ logged' = [t \in Trades |-> "none"] /\ experiment' = "unknown"
    /\ out' \in {out, {}} /\ told' = {} /\ asked' = [model |-> models[1], told |-> FALSE]
    /\ wait' = NoWait /\ status' = ""
    /\ UNCHANGED <<models, phase, round, attempt>>

\* A conversation with the model starts from the prompt.
Prompt == phase' = "tools" /\ round' = 0

AuditTrade(t) ==
    /\ flow = "on" /\ trade = NoTrade /\ t \in todo
    /\ todo' = todo \ {t} /\ trade' = t /\ attempt' = 0 /\ status' = "" /\ wait' = NoWait
    /\ Prompt
    /\ UNCHANGED <<models, flow, model, logged, experiment, out, told, asked>>

Finish ==
    /\ flow = "on" /\ trade = NoTrade /\ todo = {}
    /\ flow' = "off"
    /\ UNCHANGED <<models, todo, trade, phase, round, attempt, model, status, logged, experiment, out, told, asked, wait>>

Current == models[model]

\* One request to the current model, in the tool loop or for the verdict.
Call == /\ flow = "on" /\ trade # NoTrade /\ phase \in {"tools", "json"}
        /\ asked' = [model |-> Current, told |-> Current \in told]

\* _tool_loop: tools are called for MaxToolRounds rounds at most, and then the model has to conclude.
ToolLoop ==
    /\ Call /\ phase = "tools" /\ Current \notin out
    /\ \/ round < MaxToolRounds /\ round' = round + 1 /\ UNCHANGED phase
       \/ phase' = "json" /\ UNCHANGED round
    /\ UNCHANGED <<models, flow, todo, trade, attempt, model, status, logged, experiment, out, told, wait>>

\* _json_phase, and the verdict
JsonPhase ==
    /\ Call /\ phase = "json" /\ Current \notin out
    /\ \E score \in Scores : status' = IF score >= ApproveAt THEN "APPROVED" ELSE "REJECTED"
    /\ phase' = "log"
    /\ UNCHANGED <<models, flow, todo, trade, round, attempt, model, logged, experiment, out, told, wait>>

\* The next configured model, or 0 when there is none.
switch_to_next_model(m) == IF m < Len(models) THEN m + 1 ELSE 0

GiveUp == status' = "ERROR" /\ phase' = "log"

\* A quota of the day is used up: the next model, or the end of this audit.
QuotaError ==
    /\ Call
    /\ out' = out \cup {Current} /\ told' = told \cup {Current}
    /\ IF switch_to_next_model(model) # 0
         THEN model' = switch_to_next_model(model) /\ Prompt /\ UNCHANGED status
         ELSE GiveUp /\ UNCHANGED <<model, round>>
    /\ UNCHANGED <<models, flow, todo, trade, attempt, logged, experiment, wait>>

\* Anything else: the provider, a tool that does not exist, an answer that is not JSON or not a score.
OtherError ==
    /\ Call /\ Current \notin out
    /\ attempt' = attempt + 1
    /\ IF attempt + 1 < MaxAttempts
         THEN \E e \in Errors : /\ wait' = [delay |-> retry_delay_for(e), wished |-> AskedFor(e)]
                                /\ phase' = "wait" /\ UNCHANGED status
         ELSE GiveUp /\ UNCHANGED wait
    /\ UNCHANGED <<models, flow, todo, trade, round, model, logged, experiment, out, told>>

Retry ==
    /\ flow = "on" /\ trade # NoTrade /\ phase = "wait"
    /\ Prompt /\ wait' = NoWait
    /\ UNCHANGED <<models, flow, todo, trade, attempt, model, status, logged, experiment, out, told, asked>>

-----------------------------------------------------------------------------
(* _log_cfo_evaluation                                                     *)

Logging == flow = "on" /\ trade # NoTrade
Shown(what) == logged' = [logged EXCEPT ![trade] = what]
Next_trade == trade' = NoTrade /\ UNCHANGED phase

\* create_run, in the experiment or, when that could not be looked up, in experiment 1.
CreateRun ==
    /\ Logging /\ phase = "log"
    /\ experiment' \in IF experiment = "unknown" THEN {"cfo-evaluation", "1"} ELSE {experiment}
    /\ \/ phase' = "run" /\ Shown("RUNNING") /\ UNCHANGED trade
       \/ Shown("not logged") /\ Next_trade
    /\ UNCHANGED <<models, flow, todo, round, attempt, model, status, out, told, asked, wait>>

\* MLflow does not answer the lookup either.
NoExperiment ==
    /\ Logging /\ phase = "log" /\ experiment = "unknown"
    /\ Shown("not logged") /\ Next_trade
    /\ UNCHANGED <<models, flow, todo, round, attempt, model, status, experiment, out, told, asked, wait>>

\* The parameters and the reasoning are logged and the run is closed; when that fails it is closed as failed,
\* or left as it is when MLflow refuses that too.
CloseRun ==
    /\ Logging /\ phase = "run"
    /\ \/ Shown(IF status = "ERROR" THEN "FAILED" ELSE "FINISHED")
       \/ Shown("FAILED")
       \/ UNCHANGED logged
    /\ Next_trade
    /\ UNCHANGED <<models, flow, todo, round, attempt, model, status, experiment, out, told, asked, wait>>

Kill ==
    /\ flow = "on"
    /\ flow' = "killed" /\ todo' = {} /\ trade' = NoTrade
    /\ UNCHANGED <<models, phase, round, attempt, model, status, logged, experiment, out, told, asked, wait>>

Work == \/ \E t \in Trades : AuditTrade(t)
        \/ Finish \/ ToolLoop \/ JsonPhase \/ QuotaError \/ OtherError \/ Retry
        \/ CreateRun \/ NoExperiment \/ CloseRun

Next == Start \/ Work \/ Kill

\* Requests and tools have timeouts, and nothing else can hold the flow up.
Fairness == WF_vars(Work)

Spec == Init /\ [][Next]_vars /\ Fairness
-----------------------------------------------------------------------------

\* Once a model has said that its quota of the day is used up, it is asked again only when it is the last.
NotAskedAgain == asked.told => asked.model = models[Len(models)]

\* A retry leaves the provider the time it asked for, on whichever channel it could be read.
WaitsAsAsked == wait.delay >= wait.wished

\* What a provider says is respected (evaluate_performance.py:189-190, 221).
ProviderRespected == NotAskedAgain /\ WaitsAsAsked

\* However the providers and MLflow fail, a run that is not killed gets through every trade (evaluate_trade).
AuditEnds == flow = "on" ~> \/ flow = "killed"
                            \/ flow = "off" /\ \A t \in Trades : logged[t] # "none"
=============================================================================

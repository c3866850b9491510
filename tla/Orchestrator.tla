---------------------------- MODULE Orchestrator ----------------------------
(***************************************************************************)
(* kaggle/code_cpt_train/run.py: the kernel that measures configurations,  *)
(* tries learning rates and starts the main pre-training run, all as       *)
(* launches of code_cpt/train.py (module Training), one after the other    *)
(* and without a timeout.  It decides by files the launches leave in       *)
(* directories that a kernel started before may have used.                 *)
(***************************************************************************)
EXTENDS Integers, SequencesExt

CONSTANTS
  Specs,         \* benchmark_specs: the configurations measured first, in order
  Workers,       \* numbers of loader workers tried with the best of them
  Rates,         \* the learning rates of the pilots, in order
  PerUpdateOf,   \* configuration -> tokens of an update (tokens_per_update)
  Measures,      \* what a launch may measure: its speed and the updates it took
  Evaluations,   \* evaluations a pilot may get: loss, regressions, general
  BaseLoss,      \* the loss of the base model
  PilotRange,    \* least and most tokens of a pilot, before rounding
  ProbeTokens,   \* of a measurement (65536 in the code)
  CorpusTokens,  \* actual_train_tokens of the corpus
  PilotWindow,   \* a pilot is to take this long (900 s in the code)
  KernelStarts   \* bound: times the kernel is started

ASSUME KernelOK == /\ Specs \in Seq(ToSet(Specs)) /\ Workers \in Seq(ToSet(Workers))
                   /\ Rates \in Seq(ToSet(Rates)) /\ Len(Specs) > 0 /\ Len(Rates) > 0
                   /\ Measures \subseteq [speed : Nat, steps : Nat]
                   /\ Evaluations \subseteq [loss : Nat, regressions : Nat, general : BOOLEAN]
                   /\ PerUpdateOf \in [ToSet(Specs) -> Nat \ {0}]
                   /\ BaseLoss \in Nat
                   /\ PilotRange \in Nat \X Nat /\ PilotRange[1] <= PilotRange[2]
                   /\ PilotWindow \in Nat
                   /\ ProbeTokens \in Nat /\ CorpusTokens \in Nat
                   /\ KernelStarts \in Nat

VARIABLES
  phase,       \* what the kernel is doing
  starts,      \* times it was started
  benchmarks,  \* records of the measurements
  selected,    \* the record of the configuration selected so far
  pilots,      \* records of the pilots
  mainRun,     \* the record of the main run
  summaries,   \* launch name -> summary.json
  evaluations, \* launch name -> micro_eval.json
  reports      \* files of the kernel that were written completely

kernelVars == << phase, starts, benchmarks, selected, pilots, mainRun,
                 summaries, evaluations, reports >>

\* Every name is launched at most once in a kernel, so the kernel tells which
\* launch wrote a file.
Nothing == [kernel |-> 0]

\* In the record of a launch that is not stable; nothing reads it there.
NoSpeed == 0

\* The names of launches, which are also their directories.
SpecName(i)   == << "benchmark", i >>
WorkerName(i) == << "workers", i >>
PilotName(i)  == << "pilot", i >>
MainName      == << "main", 0 >>
LaunchNames   == {SpecName(i) : i \in DOMAIN Specs} \cup {WorkerName(i) : i \in DOMAIN Workers}
                 \cup {PilotName(i) : i \in DOMAIN Rates} \cup {MainName}

OrchestratorTypeOK ==
  /\ phase \in {"off", "baseline", "specs", "workers", "pilots", "main", "ended", "failed"}
  /\ starts \in 0 .. KernelStarts
  /\ Len(benchmarks) <= Len(Specs) + Len(Workers) /\ Len(pilots) <= Len(Rates)
  /\ phase \in {"workers", "pilots", "main"} => selected.stable /\ selected.kernel = starts
  /\ \A n \in LaunchNames : /\ summaries[n].kernel \in 0 .. starts
                            /\ evaluations[n].kernel \in 0 .. starts
  /\ reports \subseteq {"baseline", "benchmarks", "lr_sweep", "orchestrator_summary"}

OrchestratorInit ==
  /\ phase = "off" /\ starts = 0
  /\ benchmarks = << >> /\ selected = Nothing /\ pilots = << >> /\ mainRun = Nothing
  /\ summaries = [n \in LaunchNames |-> Nothing]
  /\ evaluations = [n \in LaunchNames |-> Nothing]
  /\ reports = {}

-----------------------------------------------------------------------------
(***************************************************************************)
(* A launch, and what is made of it.                                       *)
(***************************************************************************)

\* What train.py has written when it ends, in this order: the evaluation if
\* it was asked for, the summary.  It ends well only with both.
Endings(evaluated) ==
  {e \in [exit : {0, 1}, eval : BOOLEAN, summary : BOOLEAN] :
     /\ e.eval => evaluated
     /\ e.summary => (evaluated => e.eval)
     /\ e.exit = 0 => e.summary}

Summary(speed, stop, steps) ==
  [kernel |-> starts, speed |-> speed, stop |-> stop, steps |-> steps]
Evaluation(e) ==
  [kernel |-> starts, loss |-> e.loss, regressions |-> e.regressions, general |-> e.general]

\* Mutant of stable_record: the summary counts however the launch ended.
stable_record_any(exit, summary) ==
  /\ summary # Nothing
  /\ summary.stop # "broad_validation_deterioration" /\ summary.steps > 0

\* A launch is stable if it ended well and its summary says so.
stable_record(exit, summary) ==
  /\ exit = 0 /\ summary # Nothing
  /\ summary.stop # "broad_validation_deterioration" /\ summary.steps > 0

\* The list the record of a launch is added to.
Recorded(record) ==
  \/ /\ phase \in {"specs", "workers"} /\ benchmarks' = Append(benchmarks, record)
     /\ UNCHANGED << pilots, mainRun >>
  \/ /\ phase = "pilots" /\ pilots' = Append(pilots, record)
     /\ UNCHANGED << benchmarks, mainRun >>
  \/ /\ phase = "main" /\ mainRun' = record
     /\ UNCHANGED << benchmarks, pilots >>

launch_training(name, config, workers, rate, tokens, ending, summary, evaluation) ==
  LET found  == IF ending.summary THEN summary ELSE summaries[name]
      stable == stable_record(ending.exit, found)
      record == [kernel |-> starts, name |-> name, config |-> config, workers |-> workers,
                 rate |-> rate, tokens |-> tokens, exit |-> ending.exit, stable |-> stable,
                 speed |-> IF stable THEN found.speed ELSE NoSpeed]
  IN
  /\ summaries' = [summaries EXCEPT ![name] = found]
  /\ evaluations' = [evaluations EXCEPT ![name] = IF ending.eval THEN evaluation ELSE @]
  /\ Recorded(record)

\* Of the rows that fit, the best, and the first of those: what Python's max
\* and min return for the list of them.
Best(rows, Fits(_), Better(_, _)) ==
  rows[CHOOSE i \in DOMAIN rows :
         /\ Fits(rows[i])
         /\ \A j \in DOMAIN rows : Fits(rows[j]) =>
              ~Better(rows[j], rows[i]) /\ (j < i => Better(rows[i], rows[j]))]

StableRows(rows) == {row \in ToSet(rows) : row.stable}

pick_configuration(rows) ==
  Best(rows, LAMBDA row : row.stable, LAMBDA p, q : p.speed > q.speed)

\* The safety gates of pick_learning_rate.
eligible(pilot) ==
  /\ pilot.stable /\ evaluations[pilot.name] # Nothing
  /\ evaluations[pilot.name].loss < BaseLoss
  /\ evaluations[pilot.name].regressions <= 2 /\ evaluations[pilot.name].general

pick_learning_rate ==
  Best(pilots, eligible, LAMBDA p, q : evaluations[p.name].loss < evaluations[q.name].loss)

\* The tokens of a pilot: what the selected configuration does in the
\* window, within the range, rounded up to whole updates.
pilot_tokens ==
  LET measured == selected.speed * PilotWindow
      update   == PerUpdateOf[selected.config]
      capped   == IF measured < PilotRange[2] THEN measured ELSE PilotRange[2]
      tokens   == IF capped > PilotRange[1] THEN capped ELSE PilotRange[1]
  IN  ((tokens + update - 1) \div update) * update

-----------------------------------------------------------------------------
(***************************************************************************)
(* main.                                                                   *)
(***************************************************************************)
StartKernel ==
  /\ phase \in {"off", "ended", "failed"} /\ starts < KernelStarts
  /\ starts' = starts + 1
  /\ phase' = "baseline"
  /\ benchmarks' = << >> /\ selected' = Nothing /\ pilots' = << >> /\ mainRun' = Nothing
  /\ UNCHANGED << summaries, evaluations, reports >>

\* The kernel raises, or is taken away: what it had decided is gone, except
\* for its files.
Drop ==
  /\ phase' = "failed"
  /\ benchmarks' = << >> /\ selected' = Nothing /\ pilots' = << >> /\ mainRun' = Nothing
  /\ UNCHANGED << starts, summaries, evaluations, reports >>

Baseline ==
  /\ phase = "baseline"
  /\ phase' = "specs" /\ reports' = reports \cup {"baseline"}
  /\ UNCHANGED << starts, benchmarks, selected, pilots, mainRun, summaries, evaluations >>

\* Steps are updates that were not skipped; a benchmark and a pilot have no
\* baseline to compare with, so only the main run may stop for it.
Benchmark(name, config, workers) ==
  \E e \in Endings(FALSE), m \in Measures :
    launch_training(name, config, workers, "probe", ProbeTokens, e, Summary(m.speed, "max_tokens", m.steps), Nothing)

MeasureSpec ==
  LET i == Len(benchmarks) + 1 IN
  /\ phase = "specs" /\ i <= Len(Specs)
  /\ Benchmark(SpecName(i), Specs[i], 1)
  /\ UNCHANGED << phase, starts, selected, reports >>

\* Without a stable measurement the kernel raises, before benchmarks.json.
SelectSpec ==
  /\ phase = "specs" /\ Len(benchmarks) = Len(Specs)
  /\ IF StableRows(benchmarks) = {} THEN Drop
     ELSE /\ selected' = pick_configuration(benchmarks)
          /\ phase' = "workers"
          /\ UNCHANGED << starts, benchmarks, pilots, mainRun, summaries,
                          evaluations, reports >>

MeasureWorkers ==
  LET i == Len(benchmarks) - Len(Specs) + 1 IN
  /\ phase = "workers" /\ i <= Len(Workers)
  /\ Benchmark(WorkerName(i), selected.config, Workers[i])
  /\ UNCHANGED << phase, starts, selected, reports >>

SelectWorkers ==
  /\ phase = "workers" /\ Len(benchmarks) = Len(Specs) + Len(Workers)
  /\ selected' = pick_configuration(benchmarks)
  /\ phase' = "pilots"
  /\ reports' = reports \cup {"benchmarks"}
  /\ UNCHANGED << starts, benchmarks, pilots, mainRun, summaries, evaluations >>

Pilot ==
  LET i == Len(pilots) + 1 IN
  /\ phase = "pilots" /\ i <= Len(Rates)
  /\ \E e \in Endings(TRUE), outcome \in Evaluations :
       launch_training(PilotName(i), selected.config, selected.workers, Rates[i],
                       pilot_tokens, e,
                       Summary(selected.speed, "max_tokens", 1),
                       Evaluation(outcome))
  /\ UNCHANGED << phase, starts, selected, reports >>

\* All pilots failing the gates is an error too, before lr_sweep.json.
SelectRate ==
  /\ phase = "pilots" /\ Len(pilots) = Len(Rates)
  /\ IF ~ \E pilot \in ToSet(pilots) : eligible(pilot) THEN Drop
     ELSE /\ phase' = "main"
          /\ reports' = reports \cup {"lr_sweep"}
          /\ UNCHANGED << starts, benchmarks, selected, pilots, mainRun, summaries,
                          evaluations >>

LaunchMain ==
  /\ phase = "main" /\ mainRun = Nothing
  /\ \E e \in Endings(FALSE), stop \in {"max_tokens", "broad_validation_deterioration"} :
       launch_training(MainName, selected.config, selected.workers, pick_learning_rate.rate,
                       CorpusTokens, e,
                       Summary(selected.speed, stop, 1), Nothing)
  /\ UNCHANGED << phase, starts, selected, reports >>

\* orchestrator_summary.json is written before a failed main run is an error.
Finish ==
  /\ phase = "main" /\ mainRun # Nothing
  /\ reports' = reports \cup {"orchestrator_summary"}
  /\ phase' = IF mainRun.exit # 0 THEN "failed" ELSE "ended"
  /\ UNCHANGED << starts, benchmarks, selected, pilots, mainRun, summaries, evaluations >>

HaltKernel == phase \notin {"off", "ended", "failed"} /\ Drop

OrchestratorNext ==
  \/ Baseline \/ MeasureSpec \/ SelectSpec \/ MeasureWorkers \/ SelectWorkers
  \/ Pilot \/ SelectRate \/ LaunchMain \/ Finish \/ HaltKernel

-----------------------------------------------------------------------------
(***************************************************************************)
(* Properties.                                                             *)
(***************************************************************************)

\* The main run, the one that spends the session, stands on evidence of this
\* kernel: its configuration is that of a launch that ended well and was the
\* fastest of those; its learning rate is that of a pilot of the same
\* configuration whose own evaluation, not one left by an earlier kernel,
\* improved on the base model, and no pilot that passes the gates has a lower
\* loss (pick_configuration, pick_learning_rate, launch_training).
MainFromEvidence ==
  mainRun # Nothing =>
    /\ \E b \in ToSet(benchmarks) :
         /\ b.config = mainRun.config /\ b.workers = mainRun.workers /\ b.exit = 0
         /\ summaries[b.name].kernel = starts
         /\ \A c \in ToSet(benchmarks) :
              c.exit = 0 /\ summaries[c.name].steps > 0 => c.speed <= b.speed
    /\ \E p \in ToSet(pilots) :
         LET e == evaluations[p.name] IN
         /\ p.rate = mainRun.rate /\ p.exit = 0 /\ e.kernel = starts
         /\ p.config = mainRun.config /\ p.workers = mainRun.workers
         /\ p.tokens >= PilotRange[1] /\ p.tokens % PerUpdateOf[p.config] = 0
         /\ e.loss < BaseLoss /\ e.regressions <= 2 /\ e.general
         /\ \A q \in ToSet(pilots) : eligible(q) => e.loss <= evaluations[q.name].loss
=============================================================================

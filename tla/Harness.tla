------------------------------ MODULE Harness ------------------------------
(***************************************************************************)
(* The code benchmark from end to end: the suite is authored (Authoring),  *)
(* models answer it (Predictions), the answers are scored (Evaluation).    *)
(* The scripts meet in files only.  They are run by hand, one at a time,   *)
(* each as often as one likes; any of them may be killed at any moment.    *)
(***************************************************************************)
EXTENDS Evaluation

CONSTANT MaxScores   \* bound: times the evaluation is started

VARIABLE started   \* times each script was started

harnessVars == << authorVars, genVars, evalVars, started >>

Scripts == {"author", "generate", "evaluate"}
Idle    == author.at = "off" /\ gen.at = "off" /\ evaluation.at = "off"

HarnessInit ==
  /\ AuthoringInit /\ PredictionsInit /\ EvaluationInit
  /\ started = [s \in Scripts |-> 0]

HarnessTypeOK ==
  /\ AuthoringTypeOK /\ PredictionsTypeOK /\ EvaluationTypeOK
  /\ started \in [Scripts -> Nat]

Start(script, limit) ==
  /\ Idle /\ started[script] < limit
  /\ started' = [started EXCEPT ![script] = @ + 1]

Author ==
  /\ \/ \E blank \in SUBSET Cases \ {{}} : StartAuthor(blank) /\ Start("author", MaxAuthors)
     \/ AuthoringNext /\ UNCHANGED started
  /\ UNCHANGED << genVars, evalVars >>

Generate ==
  /\ \/ \E model \in Weights, workers \in Pools :
          StartRun(model, workers) /\ Start("generate", MaxRuns)
     \/ PredictionsNext /\ UNCHANGED started
  /\ UNCHANGED << authorVars, evalVars >>

Score ==
  /\ \/ StartEvaluation /\ Start("evaluate", MaxScores) /\ UNCHANGED spoilt
     \/ EvaluationNext /\ UNCHANGED started
  /\ UNCHANGED << authorVars, metadata, lines, unended, gen >>

HarnessNext == Author \/ Generate \/ Score
=============================================================================

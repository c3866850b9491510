----------------------------- MODULE Evaluation -----------------------------
(***************************************************************************)
(* scripts/evaluate_code_benchmark.py with eval/code_benchmark.py: the     *)
(* saved answers are put into their fixtures, compiled, tested and run,    *)
(* and the outcomes are written as results.jsonl and then summary.json.    *)
(***************************************************************************)
EXTENDS Predictions

CONSTANTS
  Check,       \* per case, which of compile, test, run and expected_stdout it has
  Outcomes     \* bound: what the commands of one answer may do

Exits == {"zero", "nonzero", "late", "missing"}

ASSUME CheckOK ==
  Check \in [Cases -> [compile : BOOLEAN, test : BOOLEAN, run : BOOLEAN, stdout : BOOLEAN]]
ASSUME OutcomesOK ==
  Outcomes \subseteq [compile : Exits, test : Exits, run : Exits, equal : BOOLEAN]

VARIABLES
  evaluation,  \* memory of the script
  results,     \* results.jsonl, per case
  summary      \* summary.json

evalVars == << evaluation, results, summary >>

Statuses == {"pass", "fail", "timeout", "unavailable", "not_run"}
NoResult == [c \in {} |-> "not_run"]
NotEvaluating(ok) == [at |-> "off", done |-> NoResult, refused |-> FALSE, ok |-> ok]

EvaluationTypeOK ==
  /\ evaluation.at \in {"off", "check", "results", "summary"}
  /\ evaluation.refused \in BOOLEAN /\ evaluation.ok \in BOOLEAN
  /\ \A c \in DOMAIN evaluation.done :
       evaluation.done[c].compile \in Statuses /\ evaluation.done[c].test \in Statuses

EvaluationInit ==
  /\ evaluation = NotEvaluating(FALSE)
  /\ results = NoResult /\ summary = NoFile

\* load_suite, load_predictions: a torn or repeated line, or a case without an
\* answer, ends the script.  Answers are matched by id alone.
StartEvaluation ==
  /\ evaluation.at = "off" /\ suite > 0
  /\ IF Exists(lines) /\ Readable(lines) /\ Cases \subseteq Saved(lines)
     THEN evaluation' = [NotEvaluating(FALSE) EXCEPT !.at = "check"]
     ELSE evaluation' = NotEvaluating(FALSE)
  /\ UNCHANGED << results, summary >>

\* The command is not installed, runs past its limit and is killed, or ends.
_run_trusted(exit) ==
  IF exit = "missing" THEN "unavailable"
  ELSE IF exit = "late" THEN "timeout"
  ELSE IF exit = "zero" THEN "pass" ELSE "fail"

\* Mutant of stages: the tests are run although the answer does not compile.
stages_uncompiled(check, outcome) ==
  [compile |-> IF check.compile THEN _run_trusted(outcome.compile) ELSE "not_run",
   test |-> IF ~check.test THEN "not_run"
            ELSE IF _run_trusted(outcome.test) = "pass" /\ check.run THEN _run_trusted(outcome.run)
            ELSE _run_trusted(outcome.test)]

\* Each command is run only when the ones before it have passed.  A case that
\* has a command to run but none to test with is never run.
stages(check, outcome) ==
  LET compiled == IF check.compile THEN _run_trusted(outcome.compile) ELSE "not_run"
      tested   == _run_trusted(outcome.test)
      ran      == IF tested = "pass" /\ check.run THEN _run_trusted(outcome.run) ELSE tested
  IN [compile |-> compiled,
      test |-> IF ~check.test \/ compiled \notin {"pass", "not_run"} THEN "not_run"
               ELSE IF ran = "pass" /\ check.stdout /\ ~outcome.equal THEN "fail"
               ELSE ran]

\* Whether everything the case asks for went well.
Earned(check, outcome) ==
  /\ check.test /\ outcome.test = "zero"
  /\ check.compile => outcome.compile = "zero"
  /\ check.run => outcome.run = "zero"
  /\ check.stdout => outcome.equal

\* A worker evaluates one case in a directory of its own.  The cases share
\* nothing, so the order the workers take them in does not matter.
Current(c) ==
  /\ evaluation.at = "check" /\ c \notin DOMAIN evaluation.done
  /\ \A d \in Cases : d < c => d \in DOMAIN evaluation.done

Done(c, row) ==
  [d \in DOMAIN evaluation.done \cup {c} |-> IF d = c THEN row ELSE evaluation.done[d]]

evaluate_prediction(c, outcome) ==
  /\ Current(c)
  /\ LET s == stages(Check[c], outcome)
         row == [compile |-> s.compile, test |-> s.test, earned |-> Earned(Check[c], outcome)]
     IN evaluation' = [evaluation EXCEPT !.done = Done(c, row)]
  /\ UNCHANGED << results, summary >>

\* Setting up the fixture or starting a command raises.  The pool finishes the
\* other cases first.
Refused(c) ==
  /\ Current(c) /\ spoilt < MaxFailures /\ spoilt' = spoilt + 1
  /\ LET row == [compile |-> "not_run", test |-> "not_run", earned |-> FALSE]
     IN evaluation' = [evaluation EXCEPT !.refused = TRUE, !.done = Done(c, row)]
  /\ UNCHANGED << results, summary >>

\* Nothing is written when one case raised.
Gather ==
  /\ evaluation.at = "check" /\ DOMAIN evaluation.done = Cases
  /\ evaluation' = IF evaluation.refused THEN NotEvaluating(FALSE)
                   ELSE [evaluation EXCEPT !.at = "results"]
  /\ UNCHANGED << results, summary >>

write_results ==
  /\ evaluation.at = "results"
  /\ results' = evaluation.done
  /\ evaluation' = [evaluation EXCEPT !.at = "summary"]
  /\ UNCHANGED summary

\* The rates are taken of the cases that are configured for the check, so a
\* test that was skipped counts as failed.
summarize_results(rows) ==
  LET eligible  == {c \in DOMAIN rows : Check[c].test \/ Check[c].run}
      compiling == {c \in DOMAIN rows : Check[c].compile}
  IN [total    |-> Cardinality(DOMAIN rows),
      compiled |-> Cardinality({c \in compiling : rows[c].compile = "pass"}),
      compile_of |-> Cardinality(compiling),
      tested   |-> Cardinality({c \in eligible : rows[c].test = "pass"}),
      test_of  |-> Cardinality(eligible),
      timeouts |-> Quantify(DOMAIN rows, LAMBDA c : rows[c].compile = "timeout")
                   + Quantify(DOMAIN rows, LAMBDA c : rows[c].test = "timeout")]

write_summary ==
  /\ evaluation.at = "summary"
  /\ summary' = summarize_results(evaluation.done)
  /\ evaluation' = NotEvaluating(TRUE)
  /\ UNCHANGED results

KillEvaluation ==
  /\ evaluation.at # "off"
  /\ evaluation' = NotEvaluating(FALSE)
  /\ \/ UNCHANGED << results, summary >>
     \/ evaluation.at = "results" /\ results' = NoResult /\ UNCHANGED summary
     \/ evaluation.at = "summary" /\ summary' = Torn /\ UNCHANGED results

EvaluationNext ==
  \/ (\/ Gather \/ write_results \/ write_summary \/ KillEvaluation
      \/ \E c \in Cases, outcome \in Outcomes : evaluate_prediction(c, outcome)) /\ UNCHANGED spoilt
  \/ \E c \in Cases : Refused(c)

-----------------------------------------------------------------------------
\* The tests counted as passed in a finished evaluation are those of the cases
\* for which every command that is asked for succeeded on the right output, no
\* more and no less (evaluate_prediction, summarize_results).
ScoreEarned ==
  evaluation.ok =>
    /\ summary.total = Cardinality(Cases) /\ DOMAIN results = Cases
    /\ summary.tested = Quantify(Cases, LAMBDA c : results[c].earned)
    /\ summary.tested <= summary.test_of
=============================================================================

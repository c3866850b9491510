------------------------------- MODULE Bench -------------------------------
(***************************************************************************)
(* The throughput lab: kaggle/code_cpt_bench/run_bench.py launches every   *)
(* candidate as a job of two ranks (run_bench in code_cpt/bench.py), waits *)
(* for it with a timeout, reads the result.json it left, and appends a     *)
(* line to throughput_benchmarks.jsonl.                                    *)
(*                                                                         *)
(* A failure is data: an exception in the training loop of a rank becomes  *)
(* the status of that rank, an exception elsewhere makes main write a      *)
(* result of its own, on each rank that has one.  Every collective needs   *)
(* both ranks, so a rank that fails alone leaves the other one waiting.    *)
(* result.json is emptied first and written then, by whoever writes it.    *)
(*                                                                         *)
(* Tokens are counted in blocks; an optimizer update is one step.  The     *)
(* candidates are the ones that train: a candidate with a worker_command   *)
(* of its own (fsdp2_probe) is not part of the model.                      *)
(***************************************************************************)
EXTENDS Integers, Sequences, FiniteSets

CONSTANTS
  Matrix,       \* the candidates, in the order of the file
  PerUpdate,    \* candidate -> blocks of an update (2 * microbatch * accumulation)
  Budget,       \* candidate -> blocks it may train on
  Overrides,    \* values of --max-tokens; 0 is none
  MaxOverflows, \* overflows that end a job (8 in the code)
  LabSessions,  \* bound: times the lab is started on one output directory
  MaxOrphans    \* bound: jobs without a launcher when another is launched

ASSUME MatrixOK == Matrix \in Seq({Matrix[i] : i \in DOMAIN Matrix})
ASSUME LabOK == /\ PerUpdate \in [{Matrix[i] : i \in DOMAIN Matrix} -> Nat \ {0}]
                /\ Budget \in [{Matrix[i] : i \in DOMAIN Matrix} -> Nat]
                /\ Overrides \subseteq Nat /\ MaxOverflows \in Nat \ {0} /\ LabSessions \in Nat
                /\ MaxOrphans \in Nat

VARIABLES
  lab,       \* where the lab is
  session,   \* times it was started
  wanted,    \* candidates of this session
  override,  \* its --max-tokens
  index,     \* the candidate of the matrix it is at
  launches,  \* jobs launched so far
  jobs,      \* the jobs that have processes
  exitCode,  \* of the job the lab waited for
  results,   \* candidate -> its result.json
  last,      \* the last line of throughput_benchmarks.jsonl
  reported,  \* candidates with a line of this session in it
  disturbed  \* observer: at the last launch a job of the same candidate was still there

benchVars == << lab, session, wanted, override, index, launches, jobs, exitCode,
                results, last, reported, disturbed >>
labState  == << session, wanted, override >>

Candidates == {Matrix[i] : i \in DOMAIN Matrix}
Ranks == {0, 1}
Main  == 0

\* What result.json may be besides the result of a job.
NoResult == [status |-> "none"]
Empty    == [status |-> "unreadable", launch |-> 0]
NoExit   == -1
NoLine   == [result |-> NoResult, exit |-> NoExit]

Job == [id : 1 .. launches, name : Candidates, target : Nat,
        at : [Ranks -> {"setup", "train", "gather", "write", "writing", "barrier",
                         "raised", "done"}],
        status : [Ranks -> {"pass", "error"}],
        steps : Nat, tried : Nat]

BenchTypeOK ==
  /\ lab \in {"off", "next", "running", "collect", "report", "ended", "killed"}
  /\ session \in 0 .. LabSessions /\ wanted \subseteq Candidates /\ override \in Overrides \cup {0}
  /\ index \in 1 .. Len(Matrix) + 1
  /\ jobs \subseteq Job
  /\ \A j \in jobs : /\ j.steps <= j.tried /\ j.tried <= j.target
                     /\ \A r \in Ranks : j.at[r] = "train" => j.status[r] = "pass"
  /\ exitCode \in {0, 1, 124} /\ disturbed \in BOOLEAN /\ reported \subseteq wanted

BenchInit ==
  /\ lab = "off" /\ session = 0 /\ wanted = {} /\ override = 0 /\ index = 1
  /\ launches = 0 /\ jobs = {} /\ exitCode = 0
  /\ results = [n \in Candidates |-> NoResult]
  /\ last = NoLine /\ reported = {} /\ disturbed = FALSE

-----------------------------------------------------------------------------
(***************************************************************************)
(* The lab.                                                                *)
(***************************************************************************)
Idle == lab \in {"off", "ended", "killed"}

\* main up to the loop over the candidates; the output directory of an
\* earlier session is used again as it is.
StartLab(names, tokens) ==
  /\ Idle /\ session < LabSessions
  /\ session' = session + 1
  /\ wanted' = names /\ override' = tokens
  /\ index' = 1 /\ lab' = "next" /\ reported' = {} /\ last' = NoLine
  /\ exitCode' = 0 /\ disturbed' = FALSE
  /\ UNCHANGED << launches, jobs, results >>

Candidate == Matrix[index]
Tokens    == IF override > 0 THEN override ELSE Budget[Candidate]

\* validate_alignment: an error unless the budget is a number of updates.
validate_alignment == Tokens % PerUpdate[Candidate] = 0

\* bounded_optimizer_steps, with the blocks there are.
Steps(available) ==
  LET budget == (Tokens + PerUpdate[Candidate] - 1) \div PerUpdate[Candidate]
      blocks == available \div PerUpdate[Candidate]
  IN  IF budget < blocks THEN budget ELSE blocks

Skip ==
  /\ lab = "next" /\ index <= Len(Matrix) /\ Candidate \notin wanted
  /\ index' = index + 1
  /\ UNCHANGED << lab, labState, launches, jobs, exitCode, results, last, reported, disturbed >>

AppendLine(content, exit) ==
  /\ last' = [launch |-> launches, exit |-> exit, orphan |-> disturbed,
              result |-> content]
  /\ reported' = reported \cup {Candidate}

\* A budget that is not a number of updates: the result and the line are
\* written without a launch.
Misaligned ==
  /\ lab = "next" /\ index <= Len(Matrix) /\ Candidate \in wanted /\ ~validate_alignment
  /\ results' = [results EXCEPT ![Candidate] = [status |-> "misaligned"]]
  /\ AppendLine([status |-> "misaligned"], NoExit)
  /\ index' = index + 1
  /\ UNCHANGED << lab, labState, launches, jobs, exitCode, disturbed >>

launch_candidate(available) ==
  /\ Cardinality(jobs) <= MaxOrphans
  /\ lab = "next" /\ index <= Len(Matrix) /\ Candidate \in wanted /\ validate_alignment
  /\ launches' = launches + 1
  /\ jobs' = jobs \cup {[id |-> launches + 1, name |-> Candidate, target |-> Steps(available),
                         at |-> [r \in Ranks |-> "setup"],
                         status |-> [r \in Ranks |-> "pass"], steps |-> 0, tried |-> 0]}
  /\ lab' = "running"
  /\ disturbed' = \E j \in jobs : j.name = Candidate
  /\ UNCHANGED << labState, index, exitCode, results, last, reported >>

\* The launcher returns when both ranks have ended.
JobExits ==
  /\ lab = "running"
  /\ \E j \in jobs : /\ j.id = launches /\ \A r \in Ranks : j.at[r] = "done"
                     /\ jobs' = jobs \ {j}
  /\ exitCode' = 0 /\ lab' = "collect"
  /\ UNCHANGED << labState, index, launches, results, last, reported, disturbed >>

\* Mutant of Timeout: the lab waits as long as it takes.
Timeout_none == lab = "running" /\ UNCHANGED benchVars

\* The timeout kills the launcher; its ranks go on.  If the job has printed
\* anything, what was captured is bytes, adding text to it raises a
\* TypeError, and the lab ends; otherwise the exit code is 124.
Timeout ==
  /\ lab = "running"
  /\ \/ lab' = "collect" /\ exitCode' = 124
     \/ lab' = "ended" /\ UNCHANGED exitCode
  /\ UNCHANGED << labState, index, launches, jobs, results, last, reported, disturbed >>

\* What the record of the candidate takes from result.json; a missing one is
\* written.
Collect ==
  LET found == IF results[Candidate] = NoResult THEN [status |-> "missing"]
               ELSE results[Candidate]
  IN
  /\ lab = "collect"
  /\ results' = IF found.status = "missing" THEN [results EXCEPT ![Candidate] = found] ELSE results
  /\ AppendLine(found, exitCode)
  /\ index' = index + 1
  /\ lab' = "next" /\ exitCode' = 0
  /\ UNCHANGED << labState, launches, jobs, disturbed >>

\* throughput_benchmarks.json, the plots and the ranking.
Report ==
  /\ lab = "next" /\ index > Len(Matrix)
  /\ lab' = "ended"
  /\ UNCHANGED << labState, index, launches, jobs, exitCode, results, last, reported, disturbed >>

\* The machine is taken away: with the lab end all the jobs.
Killed ==
  /\ lab # "off" /\ lab # "killed" /\ lab' = "killed"
  /\ jobs' = {}
  /\ UNCHANGED << labState, index, launches, exitCode, results, last, reported, disturbed >>

-----------------------------------------------------------------------------
(***************************************************************************)
(* A job.                                                                  *)
(***************************************************************************)
Become(j, k) ==
  /\ jobs' = (jobs \ {j}) \cup {k}
  /\ UNCHANGED << lab, labState, index, launches, exitCode, last, reported, disturbed >>

\* write_text: first the file is emptied, whatever it holds and whoever is
\* writing it.
Emptied(j) == results' = [results EXCEPT ![j.name] = Empty]

\* Two texts in one file, the end of the longer one behind the shorter one.
Mixed(j) == [status |-> "unreadable", launch |-> j.id, ranks |-> j.status]

\* Then the text is written from the start of the file.  What somebody else has
\* written there since, a longer text, goes on behind it.
Written(j, text) ==
  \/ results' = [results EXCEPT ![j.name] = text]
  \/ results[j.name] # Empty /\ results' = [results EXCEPT ![j.name] = Mixed(j)]

Both(j, place) == \A r \in Ranks : j.at[r] = place

Failure(j) == [status |-> "error", launch |-> j.id]

Result(j) ==
  IF j.status[Main] = "error" THEN Failure(j)
  ELSE [status |-> "pass", launch |-> j.id, ranks |-> j.status, steps |-> j.steps,
        target |-> j.target, tried |-> j.tried]

\* An exception outside the training loop: main writes a result, whichever
\* rank it is.
Raise(j, r) ==
  /\ j.at[r] \in {"setup", "gather"}
  /\ Become(j, [j EXCEPT !.at[r] = "raised", !.status[r] = "error"])
  /\ Emptied(j)

\* Mutant of WriteFailure: main leaves a failure to the log.
WriteFailure_quiet(j, r) ==
  /\ j.at[r] = "raised"
  /\ Become(j, [j EXCEPT !.at[r] = "done"])
  /\ UNCHANGED results

\* The failure is written, and the process ends well.
WriteFailure(j, r) ==
  /\ j.at[r] = "raised"
  /\ Become(j, [j EXCEPT !.at[r] = "done"])
  /\ Written(j, Failure(j))

\* The model is loaded and prepared on both ranks.  With a budget below one
\* update they raise instead.
SetUp(j) ==
  /\ Both(j, "setup") /\ j.target > 0
  /\ Become(j, [j EXCEPT !.at = [r \in Ranks |-> "train"]])
  /\ UNCHANGED results

\* An update.  An overflow, which the gradient scaler settles for both ranks,
\* uses up its blocks and takes no step; the last one allowed raises.
Update(j) ==
  /\ Both(j, "train") /\ j.steps < j.target /\ j.tried < j.target
  /\ \/ Become(j, [j EXCEPT !.steps = @ + 1, !.tried = @ + 1])
     \/ /\ j.tried - j.steps + 1 < MaxOverflows
        /\ Become(j, [j EXCEPT !.tried = @ + 1])
  /\ UNCHANGED results

\* Mutant of LoopFails: running out of blocks is the end of the loop only.
LoopFails_exhausted(j) ==
  /\ Both(j, "train") /\ j.steps < j.target
  /\ Become(j, [j EXCEPT !.at = [r \in Ranks |-> "gather"]])
  /\ UNCHANGED results

\* A loss or a gradient that is not finite, overflow upon overflow, or no
\* more blocks: both ranks see the same reduced values and leave the loop.
LoopFails(j) ==
  /\ Both(j, "train") /\ j.steps < j.target
  /\ Become(j, [j EXCEPT !.at = [r \in Ranks |-> "gather"],
                         !.status = [r \in Ranks |-> "error"]])
  /\ UNCHANGED results

\* Out of memory, or any other exception of one rank in the loop.
Fall(j, r) ==
  /\ j.at[r] = "train" /\ j.steps < j.target
  /\ Become(j, [j EXCEPT !.at[r] = "gather", !.status[r] = "error"])
  /\ UNCHANGED results

LoopEnds(j) ==
  /\ Both(j, "train") /\ j.steps = j.target
  /\ Become(j, [j EXCEPT !.at = [r \in Ranks |-> "gather"]])
  /\ UNCHANGED results

\* The memory statistics of all ranks; then the main rank writes.
Gather(j) ==
  /\ Both(j, "gather")
  /\ Become(j, [j EXCEPT !.at = [r \in Ranks |-> IF r = Main THEN "write" ELSE "barrier"]])
  /\ UNCHANGED results

OpenResult(j) ==
  /\ j.at[Main] = "write"
  /\ Become(j, [j EXCEPT !.at[Main] = "writing"])
  /\ Emptied(j)

Write(j) ==
  /\ j.at[Main] = "writing"
  /\ Become(j, [j EXCEPT !.at[Main] = "barrier"])
  /\ Written(j, Result(j))

Leave(j) ==
  /\ Both(j, "barrier")
  /\ Become(j, [j EXCEPT !.at = [r \in Ranks |-> "done"]])
  /\ UNCHANGED results

\* A rank is killed, by the watchdog of a collective that takes too long or
\* from outside.  A launcher that is still there kills the other rank and
\* returns 1.
Abort(j) ==
  /\ \E r \in Ranks : j.at[r] # "done"
  /\ jobs' = jobs \ {j}
  /\ IF lab = "running" /\ j.id = launches
     THEN lab' = "collect" /\ exitCode' = 1
     ELSE UNCHANGED << lab, exitCode >>
  /\ UNCHANGED << labState, index, launches, results, last, reported, disturbed >>

\* A job whose launcher is gone ends by itself.
OrphanEnds(j) ==
  /\ Both(j, "done") /\ ~(lab = "running" /\ j.id = launches)
  /\ jobs' = jobs \ {j}
  /\ UNCHANGED << lab, labState, index, launches, exitCode, results, last, reported, disturbed >>

JobNext ==
  \E j \in jobs :
    \/ SetUp(j) \/ Update(j) \/ LoopFails(j) \/ LoopEnds(j)
    \/ Gather(j) \/ OpenResult(j) \/ Write(j) \/ Leave(j) \/ Abort(j) \/ OrphanEnds(j)
    \/ \E r \in Ranks : Raise(j, r) \/ WriteFailure(j, r) \/ Fall(j, r)

LabNext(available) ==
  \/ Skip \/ Misaligned \/ JobExits \/ Timeout \/ Collect \/ Report
  \/ launch_candidate(available)

-----------------------------------------------------------------------------
(***************************************************************************)
(* Properties.                                                             *)
(***************************************************************************)

\* A line says "pass" only of a job in which every rank took all its steps, on
\* data of its own each, without an overflow: the data set holds exactly the
\* blocks of the budget, so one skipped update ends the job as an error, and
\* the failure of one rank keeps the other from writing (run_bench).
PassIsWhole ==
  last.result.status = "pass" =>
    /\ last.result.steps = last.result.target /\ last.result.tried = last.result.target
    /\ \A r \in Ranks : last.result.ranks[r] = "pass"

\* A result that an earlier session left in the directory is taken for the
\* result of this launch only if the launcher failed: when it returns 0 the job
\* has written its own result, unless a job of this candidate that ran out of time
\* was still at work when this one was launched.  It cannot be read only when both
\* ranks failed and wrote over each other (launch_candidate, main of bench.py).
FreshUnlessOrphan ==
  last.exit = 0 /\ ~last.orphan =>
    /\ last.result.status \in {"pass", "error", "unreadable"}
    /\ last.result.launch = last.launch
    /\ last.result.status = "unreadable" => \A r \in Ranks : last.result.ranks[r] = "error"

\* A job that hangs does not hold up the lab for ever (run).
LabMovesOn == (lab = "running") ~> (lab # "running")

\* When the lab was not killed there is a line for every candidate asked for.
EveryCandidateReported ==
  lab = "ended" => wanted \subseteq reported
=============================================================================

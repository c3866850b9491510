---------------------------- MODULE Predictions ----------------------------
(***************************************************************************)
(* eval/code_generation.py, generate_predictions: the model under test     *)
(* answers every case of the suite.  Answers are appended to a file, one   *)
(* line each, and a second file names the suite, the model and the number  *)
(* of workers they come from, so that a run that was killed or failed can  *)
(* be started again and asks only for what is missing.                     *)
(***************************************************************************)
EXTENDS Authoring, SequencesExt

CONSTANTS
  Weights,     \* the models, by their fingerprint or revision
  Pools,       \* values of --workers
  MaxRuns,     \* bound: times a generation is started
  MaxFailures, \* bound: requests, writes and fixtures that fail
  NoFile,      \* a file that is not there
  Torn         \* a file, or a line of one, that was not written to its end

ASSUME PoolsOK  == Pools \subseteq Nat \ {0}
ASSUME BoundsOK == MaxRuns \in Nat /\ MaxFailures \in Nat

Metadata   == [suite : 1 .. MaxAuthors, model : Weights, workers : Pools]
Line(c, m) == [case |-> c, suite |-> m.suite, model |-> m.model]
Answers    == {Line(c, m) : c \in Cases, m \in Metadata}

\* A file that is absent or torn is neither metadata, nor an answer, nor answers.
ASSUME FilesOK ==
  /\ NoFile # Torn /\ {NoFile, Torn} \cap (Metadata \cup Answers) = {}
  /\ NoFile \notin Seq(Answers \cup {Torn})

VARIABLES
  metadata,  \* the metadata file
  lines,     \* the predictions file, line by line
  unended,   \* its last line lacks the newline
  gen,       \* memory of the run
  spoilt     \* failures so far

\* The futures of a run: not started, running, answered but not yet saved, raised.
Futures == [queue : SUBSET Cases, running : SUBSET Cases, answered : SUBSET Cases,
            raised : SUBSET Cases]
NoFuture == [queue |-> {}, running |-> {}, answered |-> {}, raised |-> {}]

\* ok: the last run returned.  failing: an exception is on its way out of the run.
\* glued (an observer): the cases whose answers the run put into one line.
NotGenerating(ok) ==
  [at |-> "off", mine |-> NoFile, futures |-> NoFuture, failing |-> FALSE, ok |-> ok,
   glued |-> {}]

genVars == << metadata, lines, unended, gen, spoilt >>

Exists(file) == file # NoFile
Whole(file)  == file \notin {NoFile, Torn}

PredictionsTypeOK ==
  /\ ~Whole(metadata) \/ metadata \in Metadata
  /\ gen.at \in {"off", "gate", "stamp", "load", "work"}
  /\ gen.futures \in Futures /\ gen.failing \in BOOLEAN /\ gen.ok \in BOOLEAN
  /\ gen.glued \subseteq Cases
  /\ unended \in BOOLEAN /\ (unended => Exists(lines) /\ lines # << >>)
  /\ spoilt \in 0 .. MaxFailures

PredictionsInit ==
  /\ metadata = NoFile /\ lines = NoFile /\ unended = FALSE
  /\ gen = NotGenerating(FALSE) /\ spoilt = 0

StartRun(model, workers) ==
  /\ gen.at = "off" /\ suite > 0
  /\ gen' = [NotGenerating(FALSE) EXCEPT !.at = "gate",
               !.mine = [suite |-> suite, model |-> model, workers |-> workers]]
  /\ UNCHANGED << metadata, lines, unended, spoilt >>

Fail == gen' = NotGenerating(FALSE)

\* Mutant of mismatch: the digest of the suite is not compared.
mismatch_lenient ==
  metadata # NoFile /\ (metadata = Torn \/ metadata.model # gen.mine.model)

\* Output without metadata, metadata that cannot be read or is another run's.
mismatch ==
  \/ Exists(lines) /\ metadata = NoFile
  \/ metadata # NoFile /\ metadata # gen.mine

\* write_text truncates the metadata file before it fills it.
Gate ==
  /\ gen.at = "gate"
  /\ IF mismatch
     THEN Fail /\ UNCHANGED metadata
     ELSE IF metadata = NoFile
          THEN metadata' = Torn /\ gen' = [gen EXCEPT !.at = "stamp"]
          ELSE gen' = [gen EXCEPT !.at = "load"] /\ UNCHANGED metadata
  /\ UNCHANGED << lines, unended, spoilt >>

Stamp ==
  /\ gen.at = "stamp"
  /\ metadata' = gen.mine
  /\ gen' = [gen EXCEPT !.at = "load"]
  /\ UNCHANGED << lines, unended, spoilt >>

Saved(file) == {file[i].case : i \in {j \in DOMAIN file : Whole(file[j])}}
Readable(file) ==
  /\ \A i \in DOMAIN file : Whole(file[i])
  /\ \A i, j \in DOMAIN file : file[i].case = file[j].case => i = j

pending == IF Exists(lines) THEN Cases \ Saved(lines) ELSE Cases

\* A line that cannot be parsed or comes twice ends the run; one that only lacks
\* its newline is as good as any.  Every missing case is submitted, and the
\* output is opened to append.
Load ==
  /\ gen.at = "load"
  /\ IF Exists(lines) /\ ~Readable(lines)
     THEN Fail /\ UNCHANGED lines
     ELSE /\ lines' = IF Exists(lines) THEN lines ELSE << >>
          /\ gen' = [gen EXCEPT !.at = "work", !.futures.queue = pending]
  /\ UNCHANGED << metadata, unended, spoilt >>

Alone == gen.mine.workers = 1

\* A worker takes the next case.  With one worker each answer is saved before
\* the next is asked for, and nothing is asked for after a failure; a pool goes
\* on with all that was submitted.
Take ==
  LET f == gen.futures IN
  /\ gen.at = "work" /\ f.queue # {}
  /\ Cardinality(f.running) < gen.mine.workers
  /\ Alone => f.answered \cup f.raised = {} /\ ~gen.failing
  /\ gen' = [gen EXCEPT !.futures.queue = @ \ {Min(f.queue)},
                        !.futures.running = @ \cup {Min(f.queue)}]
  /\ UNCHANGED << metadata, lines, unended, spoilt >>

\* provider.generate
Answer(c) ==
  /\ c \in gen.futures.running
  /\ gen' = [gen EXCEPT !.futures.running = @ \ {c}, !.futures.answered = @ \cup {c}]
  /\ UNCHANGED << metadata, lines, unended, spoilt >>

\* A time-out, an error status, a body without choices.
Raise(c) ==
  /\ c \in gen.futures.running /\ spoilt < MaxFailures
  /\ gen' = [gen EXCEPT !.futures.running = @ \ {c}, !.futures.raised = @ \cup {c}]
  /\ spoilt' = spoilt + 1
  /\ UNCHANGED << metadata, lines, unended >>

\* What is appended to a line without newline makes one line of the two, which
\* is no JSON.
Appended(text) ==
  IF unended THEN [lines EXCEPT ![Len(lines)] = Torn] ELSE Append(lines, text)
Glued(c) == IF unended THEN {lines[Len(lines)].case, c} ELSE {}

\* as_completed hands out finished futures in any order.
save(c) ==
  /\ c \in gen.futures.answered /\ ~gen.failing
  /\ lines' = Appended(Line(c, gen.mine)) /\ unended' = FALSE
  /\ gen' = [gen EXCEPT !.futures.answered = @ \ {c}, !.glued = @ \cup Glued(c)]
  /\ UNCHANGED << metadata, spoilt >>

\* The disk is full: nothing of the line is written, or a part that is no JSON,
\* or all of it but the newline, or (closing the file tries again) all of it.
save_fails(c) ==
  /\ c \in gen.futures.answered /\ ~gen.failing /\ spoilt < MaxFailures
  /\ \/ UNCHANGED << lines, unended >>
     \/ lines' = Appended(Torn) /\ unended' = TRUE
     \/ lines' = Appended(Line(c, gen.mine)) /\ unended' \in BOOLEAN
  /\ gen' = [gen EXCEPT !.futures.answered = @ \ {c}, !.failing = TRUE]
  /\ spoilt' = spoilt + 1
  /\ UNCHANGED metadata

\* future.result() of a future that raised.
Reraise(c) ==
  /\ c \in gen.futures.raised /\ ~gen.failing
  /\ gen' = [gen EXCEPT !.futures.raised = @ \ {c}, !.failing = TRUE]
  /\ UNCHANGED << metadata, lines, unended, spoilt >>

\* Mutant of AllSaved: what raised is passed over.
AllSaved_lenient ==
  gen.futures.queue \cup gen.futures.running \cup gen.futures.answered = {}

AllSaved == gen.futures = NoFuture

Return ==
  /\ gen.at = "work" /\ ~gen.failing /\ AllSaved
  /\ gen' = [NotGenerating(TRUE) EXCEPT !.mine = gen.mine, !.glued = gen.glued]
  /\ UNCHANGED << metadata, lines, unended, spoilt >>

\* The pool is left when everything submitted has run; answers that were not
\* saved yet are lost.
Leave ==
  /\ gen.failing
  /\ ~Alone => gen.futures.queue \cup gen.futures.running = {}
  /\ Fail
  /\ UNCHANGED << metadata, lines, unended, spoilt >>

KillRun == gen.at # "off" /\ Fail /\ UNCHANGED << metadata, lines, unended, spoilt >>

PredictionsNext ==
  \/ Gate \/ Stamp \/ Load \/ Take \/ Return \/ Leave \/ KillRun
  \/ \E c \in Cases : Answer(c) \/ Raise(c) \/ save(c) \/ save_fails(c) \/ Reraise(c)

-----------------------------------------------------------------------------
\* All answers of the file come from the suite and the model its metadata names,
\* whatever runs were refused, killed or resumed (code_generation.py, metadata gate).
OneSource ==
  Exists(lines) =>
    /\ Whole(metadata)
    /\ \A i \in DOMAIN lines : Whole(lines[i]) => lines[i] = Line(lines[i].case, metadata)

\* When a run returns, the file has one line of its suite and model for every
\* case and reads back whole.  Only if the file it began with lacked its last
\* newline and a case was missing, one line is unreadable, and the answers that
\* are lost in it are exactly two (code_generation.py generate_predictions, save).
ReadyIsWhole ==
  gen.ok =>
    /\ \A c \in Cases \ gen.glued : \E i \in DOMAIN lines :
         /\ lines[i] = Line(c, gen.mine)
         /\ \A j \in DOMAIN lines : Whole(lines[j]) /\ lines[j].case = c => j = i
    /\ Saved(lines) = Cases \ gen.glued
    /\ IF gen.glued = {} THEN Readable(lines)
       ELSE /\ \E c, d \in Cases : c # d /\ gen.glued = {c, d}
            /\ \E i \in DOMAIN lines : \A j \in DOMAIN lines : Whole(lines[j]) <=> j # i
=============================================================================

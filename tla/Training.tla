------------------------------ MODULE Training ------------------------------
(***************************************************************************)
(* The pre-training loop (run_training in code_cpt/train.py) in the        *)
(* configuration of the main run (kaggle/code_cpt_train/run.py): snapshots *)
(* at milestones, an evaluation after each, a deadline, a final snapshot   *)
(* and a resume point.                                                     *)
(*                                                                         *)
(* Every rank runs the same program and meets the others in collective     *)
(* operations.  What all ranks compute alike from reduced values is kept   *)
(* once; what a rank knows by itself - its clock, the free space it read,  *)
(* whether its part of the state was saved, and on the main rank the       *)
(* evaluation - is kept for each.  A token count is a number of blocks,    *)
(* because packed blocks have no padding.                                  *)
(***************************************************************************)
EXTENDS Integers, FiniteSetsExt

CONSTANTS
  Ranks, Main,      \* the processes, and the one that writes files
  Blocks,           \* blocks in the packed corpus
  BlocksPerUpdate,  \* blocks all ranks use up in one optimizer update
  TokenLimits,      \* the values of config.max_tokens a session may be given
  Milestones,       \* config.milestones
  MaxConsecutive,   \* overflows in a row that end the run (8 in the code)
  NoResume,         \* there is no resume metadata
  MaxSessions       \* bound: runs of the program

ASSUME RanksOK  == Main \in Ranks
ASSUME BlocksOK == Blocks \in Nat /\ BlocksPerUpdate \in Nat \ {0} /\ TokenLimits \subseteq Nat
ASSUME LimitsOK == /\ Milestones \subseteq Nat \ {0}
                   /\ MaxConsecutive \in Nat \ {0} /\ MaxSessions \in Nat

VARIABLES
  at,           \* where each rank is
  stop,         \* stop_requested of each rank
  reason,       \* stop_reason of each rank
  saw,          \* what each rank saw of the disk and of its part of the save
  late,         \* the deadline has passed
  counters,     \* training_tokens and optimizer_steps
  plan,         \* what the session computed before it began
  overflows,    \* updates skipped in this session
  consecutive,  \* of them, the last ones in a row
  checked,      \* milestone_checked_tokens
  todo,         \* snapshots to take before the loop goes on
  model,        \* the weights: how often each block was trained on
  snapshots,    \* snapshot directories of this output directory
  resume,       \* resume-latest: the saved weights and resume_metadata.json
  torn,         \* observer: a save was killed on top of an older resume point
  sessions      \* runs so far

data == << counters, plan, overflows, consecutive, checked, model >>
disk == << snapshots, resume, torn >>
vars == << at, stop, reason, saw, late, data, todo, disk, sessions >>

\* Names of the operations in which every rank waits for all the others.
\* save_state is one of them when the optimizer is sharded over the ranks.
Collectives == {"update", "snapshot", "evaluate", "agree", "gather", "save", "vote", "finish"}
\* The main rank alone is writing files; the session is over.
Writing == {"writing", "saved"}
Over    == {"off", "done", "dead"}
\* A rank does something by itself.
Alone   == {"loop", "decide", "room"}

\* The final snapshot, which no milestone is called.
Final == 0

Corpus    == 0 .. Blocks - 1
Untrained == [b \in Corpus |-> 0]
Zero      == [tokens |-> 0, steps |-> 0]
NoModel   == [b \in Corpus |-> -1]    \* a state that cannot be loaded

Counters == [tokens : Nat, steps : Nat]

TypeOK ==
  /\ at \in [Ranks -> Collectives \cup Writing \cup Over \cup Alone]
  /\ stop \in [Ranks -> BOOLEAN]
  /\ reason \in [Ranks -> {"max_tokens", "corpus_exhausted", "wall_deadline",
                            "broad_validation_deterioration"}]
  /\ saw \in [Ranks -> {"nothing", "room", "full", "saved", "failed"}]
  /\ late \in BOOLEAN /\ torn \in BOOLEAN
  /\ counters \in Counters
  /\ plan \in [mode : {"ddp", "fsdp"}, limit : Nat, initial : Nat, start : Nat,
               target : Nat, needed : Nat]
  /\ overflows \in Nat /\ consecutive \in 0 .. MaxConsecutive /\ checked \in Nat
  /\ todo \subseteq Milestones \cup {Final}
  /\ model \in [Corpus -> Nat]
  /\ snapshots \in [Milestones \cup {Final} -> {"none", "partial", "whole"}]
  /\ resume.state \in [Corpus -> Nat \cup {-1}]
  /\ resume.meta = NoResume \/ resume.meta \in [counters : Counters, next_block : Nat]
  /\ sessions \in 0 .. MaxSessions

Init ==
  /\ at = [r \in Ranks |-> "off"]
  /\ stop = [r \in Ranks |-> FALSE]
  /\ reason = [r \in Ranks |-> "max_tokens"]
  /\ late = FALSE /\ torn = FALSE
  /\ counters = Zero
  /\ saw = [r \in Ranks |-> "nothing"]
  /\ plan = [mode |-> "ddp", limit |-> 0, initial |-> 0, start |-> 0, target |-> 0, needed |-> 0]
  /\ overflows = 0 /\ consecutive = 0 /\ checked = 0
  /\ todo = {}
  /\ model = Untrained
  /\ snapshots = [m \in Milestones \cup {Final} |-> "none"]
  /\ resume = [state |-> NoModel, meta |-> NoResume]
  /\ sessions = 0

-----------------------------------------------------------------------------
(***************************************************************************)
(* Before the loop.                                                        *)
(***************************************************************************)

remaining_tokens(limit, initial) == Max({0, limit - initial})

bounded_optimizer_steps(remaining, available) ==
  LET requested == (remaining + BlocksPerUpdate - 1) \div BlocksPerUpdate
  IN  Min({requested, available \div BlocksPerUpdate})

\* Mutant of blocks_needed: the data set is the rest of the corpus.
rest_of_corpus(start, steps) == ((Blocks - start) \div BlocksPerUpdate) * BlocksPerUpdate

blocks_needed(start, steps) == steps * BlocksPerUpdate

\* Without a complete update to do the program raises before it writes anything.
StartSession(mode, limit, from, start, weights) ==
  LET steps == bounded_optimizer_steps(remaining_tokens(limit, from.tokens), Blocks - start)
  IN
  /\ \A r \in Ranks : at[r] \in Over
  /\ sessions < MaxSessions /\ sessions' = sessions + 1
  /\ steps > 0
  /\ plan' = [mode |-> mode, limit |-> limit, initial |-> from.tokens, start |-> start,
              target |-> from.steps + steps, needed |-> blocks_needed(start, steps)]
  /\ counters' = from /\ checked' = from.tokens
  /\ model' = weights
  /\ overflows' = 0 /\ consecutive' = 0 /\ todo' = {}
  /\ late' = FALSE /\ saw' = [r \in Ranks |-> "nothing"]
  /\ stop' = [r \in Ranks |-> FALSE]
  /\ reason' = [r \in Ranks |-> "max_tokens"]
  /\ at' = [r \in Ranks |-> "loop"]

\* A run from the beginning, in an output directory of its own.
Start(limit) ==
  /\ \E mode \in {"ddp", "fsdp"} : StartSession(mode, limit, Zero, 0, Untrained)
  /\ snapshots' = [m \in Milestones \cup {Final} |-> "none"]
  /\ resume' = [state |-> NoModel, meta |-> NoResume]
  /\ torn' = FALSE

\* A run that goes on from the resume point, in the same output directory and
\* the same distributed mode.  load_state fails when the saved state is not whole.
Resume(limit) ==
  /\ resume.meta # NoResume /\ resume.state # NoModel
  /\ StartSession(plan.mode, limit, resume.meta.counters, resume.meta.next_block, resume.state)
  /\ UNCHANGED disk

-----------------------------------------------------------------------------
(***************************************************************************)
(* The loop.                                                               *)
(***************************************************************************)
Meet(c) == \A r \in Ranks : at[r] = c
GoTo(c) == at' = [r \in Ranks |-> c]

session_tokens == counters.tokens - plan.initial

\* The head of the loop and next(iterator).
Loop(r) ==
  /\ at[r] = "loop"
  /\ IF counters.steps < plan.target /\ session_tokens < plan.needed
     THEN at' = [at EXCEPT ![r] = "update"] /\ UNCHANGED reason
     ELSE /\ at' = [at EXCEPT ![r] = "gather"]
          /\ reason' = [reason EXCEPT ![r] =
                          IF counters.steps < plan.target THEN "corpus_exhausted" ELSE @]
  /\ UNCHANGED << stop, saw, late, data, todo, disk, sessions >>

\* The blocks all ranks together take in one update.
Taken == LET first == plan.start + session_tokens
         IN  first .. first + BlocksPerUpdate - 1

milestones_crossed(previous, current) == {m \in Milestones : previous < m /\ m <= current}

\* The microsteps of one update and the update: a loss that is not finite is
\* seen by all ranks alike and raises (see Kill).
Applied ==
  LET tokens == counters.tokens + BlocksPerUpdate IN
  /\ Meet("update")
  /\ counters' = [tokens |-> tokens, steps |-> counters.steps + 1]
  /\ model' = [b \in Corpus |-> IF b \in Taken THEN model[b] + 1 ELSE model[b]]
  /\ consecutive' = 0
  /\ todo' = milestones_crossed(checked, tokens)
  /\ checked' = tokens
  /\ GoTo(IF todo' = {} THEN "decide" ELSE "snapshot")
  /\ UNCHANGED << stop, reason, saw, late, plan, overflows, disk, sessions >>

\* Mutant of persistent: one overflow more is let pass.
persistent_late(n) == n > MaxConsecutive

\* So many overflows in a row end the run.
persistent(n) == n >= MaxConsecutive

\* Mutant of Skipped: the milestones this update crossed count as handled.
SkippedChecks ==
  /\ Meet("update")
  /\ counters' = [counters EXCEPT !.tokens = @ + BlocksPerUpdate]
  /\ checked' = counters'.tokens
  /\ overflows' = overflows + 1 /\ consecutive' = consecutive + 1
  /\ GoTo(IF persistent(consecutive') THEN "dead" ELSE "loop")
  /\ UNCHANGED << stop, reason, saw, late, plan, todo, model, disk, sessions >>

\* The gradients overflowed and the scaler skipped the update.  Its blocks are
\* used up, and what comes after an update waits for the next one.
Skipped ==
  /\ Meet("update")
  /\ counters' = [counters EXCEPT !.tokens = @ + BlocksPerUpdate]
  /\ overflows' = overflows + 1 /\ consecutive' = consecutive + 1
  /\ GoTo(IF persistent(consecutive') THEN "dead" ELSE "loop")
  /\ UNCHANGED << stop, reason, saw, late, plan, checked, todo, model, disk, sessions >>

\* save_snapshot: all ranks gather the weights, then the main rank writes.
Snapshot ==
  /\ Meet("snapshot")
  /\ snapshots' = [snapshots EXCEPT ![Min(todo)] = "partial"]
  /\ at' = [r \in Ranks |-> IF r = Main THEN "writing" ELSE "evaluate"]
  /\ UNCHANGED << stop, reason, saw, late, data, todo, resume, torn, sessions >>

WriteSnapshot ==
  /\ at[Main] = "writing"
  /\ snapshots' = [snapshots EXCEPT ![Min(todo)] = "whole"]
  /\ at' = [at EXCEPT ![Main] = "evaluate"]
  /\ UNCHANGED << stop, reason, saw, late, data, todo, resume, torn, sessions >>

\* evaluate_micro.  Only the main rank compares the result with the baseline;
\* after the final snapshot nobody does.
Evaluate ==
  /\ Meet("evaluate")
  /\ IF todo = {Final}
     THEN GoTo("room") /\ UNCHANGED stop
     ELSE /\ GoTo("agree")
          /\ \E worse \in BOOLEAN : stop' = [stop EXCEPT ![Main] = worse]
  /\ UNCHANGED << reason, saw, late, data, todo, disk, sessions >>

\* Mutant of Agree: each rank goes on with what it knows.
AgreeAlone ==
  /\ Meet("agree")
  /\ todo' = todo \ {Min(todo)}
  /\ GoTo(IF todo' = {} THEN "decide" ELSE "snapshot")
  /\ UNCHANGED << stop, reason, saw, late, data, disk, sessions >>

\* The maximum of stop_requested over all ranks; then the next milestone.
Agree ==
  /\ Meet("agree")
  /\ stop' = [r \in Ranks |-> \E q \in Ranks : stop[q]]
  /\ todo' = todo \ {Min(todo)}
  /\ GoTo(IF todo' = {} THEN "decide" ELSE "snapshot")
  /\ UNCHANGED << reason, saw, late, data, disk, sessions >>

\* Each rank decides whether to go on, with its own reading of the clock.
Decide(r) ==
  /\ at[r] = "decide"
  /\ IF stop[r] \/ late
     THEN /\ at' = [at EXCEPT ![r] = "gather"]
          /\ reason' = [reason EXCEPT ![r] = IF stop[r] THEN "broad_validation_deterioration"
                                                        ELSE "wall_deadline"]
     ELSE at' = [at EXCEPT ![r] = "loop"] /\ UNCHANGED reason
  /\ UNCHANGED << stop, saw, late, data, todo, disk, sessions >>

Late ==
  /\ ~late /\ \E r \in Ranks : at[r] \notin Over
  /\ late' = TRUE
  /\ UNCHANGED << at, stop, reason, saw, data, todo, disk, sessions >>

-----------------------------------------------------------------------------
(***************************************************************************)
(* After the loop.                                                         *)
(***************************************************************************)

\* The statistics are gathered; the final snapshot follows.
Gather ==
  /\ Meet("gather")
  /\ todo' = {Final}
  /\ GoTo("snapshot")
  /\ UNCHANGED << stop, reason, saw, late, data, disk, sessions >>

\* Each rank reads the free space of the disk by itself, and saves or does not.
DiskUsage(r) ==
  /\ at[r] = "room"
  /\ \E free \in BOOLEAN :
       /\ saw' = [saw EXCEPT ![r] = IF free THEN "room" ELSE "full"]
       /\ at' = [at EXCEPT ![r] = IF free THEN "save" ELSE "finish"]
  /\ UNCHANGED << stop, reason, late, data, todo, disk, sessions >>

\* save_state on a rank by itself: it writes over what is there, the main rank
\* the weights.  Where the optimizer is sharded a rank can only fail alone.
SaveAlone(r) ==
  /\ at[r] = "save"
  /\ \E ok \in IF plan.mode = "ddp" THEN BOOLEAN ELSE {FALSE} :
       /\ saw' = [saw EXCEPT ![r] = IF ok THEN "saved" ELSE "failed"]
       /\ resume' = IF r = Main THEN [resume EXCEPT !.state = IF ok THEN model ELSE NoModel]
                    ELSE resume
  /\ at' = [at EXCEPT ![r] = "vote"]
  /\ UNCHANGED << stop, reason, late, data, todo, snapshots, torn, sessions >>

\* save_state of a sharded optimizer, in which the ranks wait for each other.
SaveTogether ==
  /\ plan.mode = "fsdp" /\ Meet("save")
  /\ saw' \in [Ranks -> {"saved", "failed"}]
  /\ resume' = [resume EXCEPT !.state =
                  IF \A r \in Ranks : saw'[r] = "saved" THEN model ELSE NoModel]
  /\ GoTo("vote")
  /\ UNCHANGED << stop, reason, late, data, todo, snapshots, torn, sessions >>

\* saved_by_rank is gathered, and the ranks wait for everyone.
Vote ==
  /\ Meet("vote")
  /\ at' = [r \in Ranks |-> IF r = Main THEN "saved" ELSE "finish"]
  /\ UNCHANGED << stop, reason, saw, late, data, todo, disk, sessions >>

\* Mutant of next_block: counts the updates that were applied.
next_block_by_steps == counters.steps * BlocksPerUpdate

next_block == plan.start + session_tokens

\* resume_metadata.json, or the removal of the directory when a save failed.
WriteMetadata ==
  /\ at[Main] = "saved"
  /\ resume' = IF \A r \in Ranks : saw[r] = "saved"
               THEN [resume EXCEPT !.meta = [counters |-> counters, next_block |-> next_block]]
               ELSE [state |-> NoModel, meta |-> NoResume]
  /\ at' = [at EXCEPT ![Main] = "finish"]
  /\ UNCHANGED << stop, reason, saw, late, data, todo, snapshots, torn, sessions >>

Finish ==
  /\ Meet("finish")
  /\ GoTo("done")
  /\ UNCHANGED << stop, reason, saw, late, data, todo, disk, sessions >>

\* The session ends at any moment: an exception, which the launcher turns into
\* the end of all ranks, a limit of the host, a collective that never ends.  What
\* is being written over then is lost.
Kill ==
  /\ \E r \in Ranks : at[r] \notin Over
  /\ GoTo("dead")
  /\ torn' = \/ torn
             \/ /\ resume.meta # NoResume
                /\ \E r \in Ranks : at[r] \in {"save", "vote", "saved"}
  /\ \E lost \in {resume.state} \cup {NoModel : r \in {q \in Ranks : at[q] = "save"}} :
       resume' = [resume EXCEPT !.state = lost]
  /\ UNCHANGED << stop, reason, saw, late, data, todo, snapshots, sessions >>

Next ==
  \/ \E limit \in TokenLimits : Start(limit) \/ Resume(limit)
  \/ \E r \in Ranks : Loop(r) \/ Decide(r) \/ DiskUsage(r) \/ SaveAlone(r)
  \/ Applied \/ Skipped \/ Snapshot \/ WriteSnapshot \/ Evaluate \/ Agree
  \/ Late \/ Gather \/ SaveTogether \/ Vote \/ WriteMetadata \/ Finish \/ Kill

Spec == Init /\ [][Next]_vars

-----------------------------------------------------------------------------
(***************************************************************************)
(* Properties.                                                             *)
(***************************************************************************)

\* A rank waits for all the others: with sharded optimizers in save_state too.
Waiting(r) == at[r] \in Collectives /\ (at[r] = "save" => plan.mode = "fsdp")

\* Nothing has told two ranks apart: not their clocks at the deadline, nor the
\* free space each of them read, nor a save that failed on one of them alone.
Alike(r, q) ==
  /\ reason[r] = "wall_deadline" <=> reason[q] = "wall_deadline"
  /\ saw[r] = "full" <=> saw[q] = "full"
  /\ saw[r] = "failed" <=> saw[q] = "failed"

\* Ranks that wait, wait in the same collective operation, so that nobody waits
\* for ever: every decision rests on values all ranks share.  The code has three
\* that do not, each made by a rank alone: the deadline its clock shows, the free
\* space it reads before the save, an exception in its part of the save.  Only
\* ranks told apart by one of these may ever wait in different operations.
SameCollective ==
  \A r, q \in Ranks : Waiting(r) /\ Waiting(q) /\ Alike(r, q) => at[r] = at[q]

\* The weights are exact: each block went into them at most once, none that the
\* counters have not passed, and as many as optimizer_steps says.
Exact(weights, c) ==
  LET trained == {b \in Corpus : weights[b] > 0} IN
  /\ \A b \in trained : weights[b] = 1 /\ b < c.tokens
  /\ Cardinality(trained) = c.steps * BlocksPerUpdate

\* However often a run is stopped, killed and resumed, and whichever updates
\* overflowed, the weights in memory and those a session can resume from are
\* exact (next_block and the counters in resume_metadata.json) - unless a save
\* was killed half-way on top of an older resume point.
WeightsMatchCounters ==
  ~torn => /\ Exact(model, counters)
           /\ resume.meta # NoResume /\ at[Main] \notin {"vote", "saved"} =>
                Exact(resume.state, resume.meta.counters)

\* When the loop goes on after an update, every milestone the session has
\* passed has its snapshot, those passed by a skipped update included
\* (milestone_checked_tokens).
MilestonesKept ==
  Meet("decide") =>
    \A m \in milestones_crossed(plan.initial, counters.tokens) : snapshots[m] = "whole"

\* stop_reason tells whether updates were lost: the data set holds exactly the
\* blocks of the planned updates, so a session that skipped one and was not
\* stopped otherwise ends with "corpus_exhausted", even in a corpus with blocks
\* to spare, and "max_tokens" means that no update was skipped.
ReasonTellsOverflow ==
  \A r \in Ranks : at[r] \in {"gather", "done"} =>
    /\ reason[r] = "corpus_exhausted" => overflows > 0
    /\ reason[r] = "max_tokens" => overflows = 0 /\ counters.steps = plan.target
=============================================================================

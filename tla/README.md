# TLA+ models of tabcomplete

tabcomplete trains a small next-edit completion model. The repository has three
parts that run as programs: a **trajectory collector** (an editor plugin in Lua, a
collector server in TypeScript, and offline analysis tools), a **Python package**
(`tinycomplete`: protocol, data construction, teacher generation, training,
evaluation, a playground server) and **orchestration scripts**. The collector is the
part with processes, messages, retries and files shared between processes; the
training scripts are jobs that are killed and started again on directories that
others left behind; the offline tools fold, cut, score and replay what was recorded.

Paths below are relative to the repository. `nvim/` stands for
`tools/trajectory_collector/nvim/lua/tabcomplete_trajectory/`, `server/` for
`tools/trajectory_collector/server/src/`, `analysis/` for
`tools/trajectory_collector/analysis/`, `tc/` for `src/tinycomplete/`.

## Inventory

| Component | State it keeps | Operations | What is hard | What makes it correct |
|---|---|---|---|---|
| Buffer capture (`nvim/buffers.lua`) | a shadow of the lines and a delta count per buffer, the set of attached buffers | attach, detach, line callback, refresh | the callback of one change can run when the buffer has already changed again; buffers are unloaded, renamed, excluded | a delta is computed only from a shadow that equals the text before the change |
| Anchors and life cycle (`nvim/init.lua`) | session, sequence number, `started`, `paused` | setup, rescan, pause, resume, shutdown, autocommands, `anchor_buffer` | an anchor's content is read before an asynchronous upload and emitted after it | replay from an anchor is byte-exact |
| Delivery (`nvim/init.lua`, `spool.lua`, `transport.lua`) | queue in memory, posts in flight, the spool directory | emit, flush, retry, shutdown; the callbacks of posts | time-outs racing answers, crash, exit with posts in flight, several editors on one spool, failing disk, the size cap | no event vanishes; a file is deleted only on an ACK; the spool drains |
| Server, sessions and events (`server/index.ts`, `schema.ts`) | tables machines, repositories, sessions, events | session/start, session/end, events/batch | requests repeated, late and reordered; a handler is several transactions | idempotence; an event's session exists |
| Server, blobs and snapshots (`server/blobs.ts`, `ingest.ts`, `db.ts`) | tables blobs, repository files | check, upload, snapshot | an upload racing the same upload; rows written before their transaction | an anchor's hash has its content |
| Replay verifier (`analysis/replay.ts`) | line array, failure count | apply a delta, compare with the last anchor | empty texts, blank lines, empty files | a faithful recording is accepted |
| Other analysis (`analysis/lib.ts` ...) | none | edit script, hunks, queries | ordering by clock; edges of the script | hunks rebuild the target |
| Python protocol (`tc/protocol/`) | none | parse, replay, serialize events | byte offsets inside UTF-8 sequences | what is serialized is replayed |
| Teacher (`tc/teacher/`) | a budget file, an output file | check and record spending, resume, retry | two runs on one budget file; a paid answer lost by a crash or a retry | what is recorded never exceeds the cap, and covers the bill as far as prices allow |
| Pre-training loop (`tc/code_cpt/train.py`, `data.py`) | step, tokens, blocks, overflow counters; snapshots on disk | update, skip, evaluate, snapshot, resume | ranks that decide on their own clock; a snapshot overwritten in place; skipped updates | resumed run equals uninterrupted run; ranks agree on the next collective |
| Corpus preparation (`tc/code_cpt/prepare.py`, `data.py`, `kaggle/code_cpt_prepare/`) | packers, memory-mapped arrays, files of the output directory | stream, assign a repository, pack, write, combine, mark | a kill at any point; arrays full in the middle of a document; one repository under two names | blocks are a prefix of the documents; no repository on both sides; the marker is written last; what stands beside it is whole, or newer |
| Throughput lab (`tc/code_cpt/bench.py`, `kaggle/code_cpt_bench/`) | results and report lines on disk; jobs of two ranks | launch, wait, time out, collect, report | one rank failing alone; orphans after a time-out; results left by earlier sessions | "pass" means all steps on both ranks; a line is about its own launch |
| Training orchestrator (`kaggle/code_cpt_train/run.py`) | records of launches; summaries and evaluations on disk | measure, select, pilot, launch | files of an earlier kernel; launches that fail after writing | the main run rests on evidence of this kernel |
| Data construction (`tc/data/`) | none | holes, next edits, walks through a commit | cuts inside glyphs; offsets that shift; hunk numbering | an example rebuilds its source; a walk ends in the child |
| Cache probe, tiny model (`tc/model/`) | tensors | forward passes | numerical equality | equality with the reference |
| Playground server (`tc/playground/server.py`) | a model lock, a feedback log | complete, feedback, forward | threads and two locks | feedback is written once |
| Code benchmark (`tc/eval/code_*.py`, `scripts/`) | suite, budget, predictions with metadata, results, summary | author, generate, resume, evaluate | kills, torn lines, failing futures, a suite replaced between runs | one source per file; complete when it says so; a score that was earned |
| Other evaluation (`tc/eval/`) | none | score next edits, build long prompts, latency, metrics | the distance table; files sorted by name | true distances; the needle at the depth asked for |
| Fine-tuning entry point, CLI (`tc/train/`, `tc/cli.py`) | none | start a trainer | none | none |

How they interact: the editor calls the plugin back for every change; capture
appends deltas to the delivery queue; anchors first post the hash and, if the
server asks for it, the content, and then append to the same queue; the queue is
posted in batches; what fails goes through the spool directory, which all editor
processes of a machine share. Analysis tools and the Python package read the
server's database afterwards. The playground forwards feedback to the same server.
The prepare kernel leaves a corpus directory; the benchmark lab and the training
orchestrator look for `corpus_metadata.json` in it, and the orchestrator starts
`train.py` several times and decides by the files it leaves. The scripts of the code
benchmark meet in files only: the suite, the predictions, the results.

Everything in this code that is hard to test is listed with its line in
`PROJECT.json` under "hazards", with the properties that cover it or the reason
why none does.

## Modules

| Module | Models | Read it after |
|---|---|---|
| `LineDelta` | the pure operators on line arrays: the delta of a change, canonical bytes, application of a delta (`buffers.lua`, `replay.ts`) | - |
| `EditCapture` | the capture side: editor, shadows, line callbacks, anchors with asynchronous uploads | `LineDelta` |
| `EditCapture_proofs` | type correctness and both safety properties of `EditCapture`, proved | `EditCapture`, `Basics_proofs` |
| `ReplayTool` | the loop and the verdict of `replay.ts` on recordings made by `compute_delta` | `LineDelta` |
| `EventStore` | the abstract specification of delivery: pending, stored, dropped | - |
| `Delivery` | queue, posts, network, spool, server, faults, crash and exit of several editor processes; refines `EventStore` | `EventStore` |
| `Delivery_proofs` | type correctness and safety of `Delivery`, and that it implements `EventStore`, proved | `Delivery` |
| `Basics_proofs` | lemmas the proofs share: sums over finite sets by `FoldFunction`, folds over sequences, induction by counting, largest and smallest members, cut and spliced sequences, rounding | - |
| `SessionLog` | the abstract specification of the collector: sessions, ends and events, only ever added | - |
| `CollectorServer` | the server's handlers statement by statement, with `ensure_blob` of the plugin, kills, late and repeated requests, power failures; refines `SessionLog` | `SessionLog` |
| `CollectorServer_proofs` | safety of `CollectorServer` and that it implements `SessionLog`, proved | `CollectorServer` |
| `Training` | ranks, collective operations, snapshots and resume of the pre-training loop | - |
| `Training_proofs` | all safety properties of `Training`, proved | `Training`, `Basics_proofs` |
| `Teacher` | stages, requests, retries and the shared budget file of paid generation | - |
| `Teacher_proofs` | all safety properties of `Teacher`, proved | `Teacher`, `Basics_proofs` |
| `Corpus` | the job that freezes the corpus: streams, repository split, packing, files and marker, kills | - |
| `Bench` | the throughput lab and its two-rank jobs | - |
| `Orchestrator` | the kernel that selects a configuration and a learning rate and starts the main run | `Training` |
| `Kaggle` | the three kernels composed: what the first leaves is attached to the others | `Corpus`, `Bench`, `Orchestrator` |
| `Kaggle_proofs` | types and all safety of `Bench`, `Corpus` and `Orchestrator` inside `Kaggle`, proved | `Kaggle`, `Basics_proofs` |
| `Authoring`, `Predictions`, `Evaluation` | the three scripts of the code benchmark, each extending the one whose files it reads | - |
| `Harness` | the three scripts composed: run by hand, one at a time, killed anywhere | `Evaluation` |
| `Protocol` | the event stream of the model: replay, serialization, parser | - |
| `Examples` | training examples: holes, next edits, the walk through a commit | - |
| `Scoring` | the score of a predicted edit and the place of the needle in a long prompt | - |
| `Offline` | the offline tools composed: one of `Harness`, `Protocol`, `ReplayTool`, or a call of a function of `Examples` or `Scoring` | all of these |
| `Offline_proofs` | types and safety of the three scripts, the replayed stream and its prompts, the verifier and the scores inside `Offline`, proved | `Offline`, `Basics_proofs` |
| `MCEditCapture`, `MCDelivery`, `MCCollectorServer`, `MCTeacher`, `MCKaggle`, `MCOffline` | constant values and symmetry sets for TLC | - |

`Delivery` and `CollectorServer` model the same requests from two sides: `Delivery`
takes each handler for one atomic step on three sets (`sessions`, `ended`, `stored`);
`CollectorServer` opens the handlers and shows that those three sets still behave as
`SessionLog` says.

### LineDelta

A buffer is a sequence of lines. A text is the sequence of its newline-free
segments, because no property tells two line contents apart beyond equality; the
one thing that representation must keep is that the text of *no* line and the text
of *one blank* line are the same string, and `Concat` keeps it. `canonical_bytes`
gives the empty file for a buffer that is one blank line, as `buffers.lua` does for
`fileformat=unix` with `eol` set, the case that file promises to be exact.

### EditCapture

| Variable | Code |
|---|---|
| `loaded, live, name, wiped` | the editor's buffers (external) |
| `excluded` | the buffers `util.is_excluded_buffer` rejects |
| `notes` | line changes whose `on_lines` callback has not run (external) |
| `shadows, delta_count, attached` | `M.shadows[b].lines`, `.delta_count` (modulo `periodic_anchor_every`, its only use), `M.attached` |
| `started, paused` | `M.started`, `M.paused` |
| `uploads` | calls of `ensure_blob` whose callback has not run |
| `replay, chained` | observers: what the emitted events rebuild for each path; the buffers whose every change since an emitted anchor was emitted |

One action per handler: `setup`, `rescan`, `shutdown`, `pause`, `resume`, the
autocommands `Load`, `Enter`, `Write`, `Close`, the line callback `on_lines`, and
the callback of an anchor's upload `UploadAnswered`. `Change`, `Rename` and
`ToggleExcluded` are what the user does. `inst` is the instance, chosen in `Init` and
never changed; `MaxLag`, `AnchorEvery` and the like are its fields. `MaxLag` is the number
of changes the editor may make before the first callback returns. Callbacks are
synchronous, so a second change is one that another listener makes inside the first
callback; it is reported first, and the older change afterwards, on a buffer that is
already newer.
The two requests of an upload are one: it is in flight or it is over, and whether it
succeeded goes only into a field no replay reads.

### ReplayTool

`Edit` records a faithful delta with `compute_delta`; `Start` and `Replay` are the
tool. Its first anchor is read from the blob table: empty content never gets a blob
(`HasBlob`), and the tool throws when there is none. The tool gives up after more than
`MaxFailures` mismatches. `Offline` instantiates the module.

### Delivery

| Variable | Code |
|---|---|
| `pc` | `M.started` and how far `M.shutdown` has got |
| `paused, url, seq, queue` | `M.paused`, `config.has_url()`, `M.seq`, `M.queue` |
| `writing` | the file `spool.write_batch` has opened and not yet closed |
| `posts` | `transport.post` calls whose callback has not run, with what the callback closes over |
| `net` | requests the server has not handled; `Late` marks those the sender gave up |
| `spool, nextFile` | the spool directory; file numbers stand for the time stamps the names start with, so `spool.list()` is ascending |
| `sessions, ended, stored` | the rows of the server's tables |
| `lost` | observer: events whose last copy was dropped, by cause |

The five causes are the only ways an event may end without being stored:
`exit` (the process ended with it in the queue or in a post), `cap`
(`enforce_cap`), `disk` (`write_batch` returned nil), `end` (the final batch got an
error status, which `sync_post` takes for success), `torn` (a file another editor
was still writing was read by a retry, could not be decoded and was deleted).

Actions: `Setup` (the start post, the `session_start` event and the first
`retry_spool` are one handler), `Emit`, the two timers, `Pause`, `Resume`, the six
callbacks of posts, `CloseFile` (the rest of `write_batch` and the `enforce_cap`
after it), the steps of `M.shutdown`, and `Exit`/`Crash`; on the server one action
per handler inside `Handle`; in the network `Drop`, `ReplyLost` and `TimeOut`.
`EventStore` is stated as a temporal property of this module under a refinement
mapping: pending are the events the program still holds a copy of.

### CollectorServer

| Variable | Code |
|---|---|
| `anchors` | how far `ensure_blob` has got for a session and a content hash |
| `seq, queue` | `M.seq` and `M.queue` of each plugin process |
| `sent` | requests in the network; each may arrive any number of times, in any order |
| `acked` | requests the server answered 2xx |
| `job` | the request being handled and the next statement of its handler (`fetchHandler` runs one handler at a time) |
| `db` | the committed tables of `schema.ts` |
| `staged` | rows of the open transaction of `events/batch` |
| `synced` | the tables as of the last checkpoint: `db.ts` sets `journal_mode=WAL` and `synchronous=NORMAL` |

Every transaction of a handler is one action (`StartMachine`, `StartRepo`,
`StartSession`, ...), and `Crash` may come between any two. The answers of
`blobs/check` have no effect on anybody: `transport.post` gives its callback no body,
so `ensure_blob` uploads always. `EmptyHash` is the hash of no bytes, which is
never uploaded; the run leaves it out of `Hashes`, because `ReplayTool` is about it.
What a request's checks of its body decide is one flag, `valid`.

### Training

| Variable | Code (`run_training`) |
|---|---|
| `at` | where each rank is: waiting in a collective operation, or between two |
| `stop, reason` | `stop_requested`, `stop_reason` of each rank |
| `saw` | what each rank read of the disk (`free`), then how its part of the save went (`resume_error`) |
| `late` | `deadline_seconds` have passed |
| `counters` | `training_tokens`, `optimizer_steps` |
| `plan` | `distributed_mode`, `max_tokens`, the counters at the start, `start_block`, `target_optimizer_steps`, `blocks_needed` |
| `overflows, consecutive, checked, todo` | `loss_scale_overflows`, `consecutive_loss_scale_overflows`, `milestone_checked_tokens`, the milestones still to take |
| `model` | how often each block has gone into the weights |
| `snapshots, resume` | the directories on disk, with what is in them |
| `torn` | observer: a save was killed on top of an older resume point |

A token count is a number of blocks (packed blocks have no padding). The microsteps of
one update are one action; in between a session can only be killed. `Meet(c)` is a
collective operation: it completes when all ranks have called it. Values every rank
computes from reduced numbers are kept once; the clock, `stop_requested` before its
reduction, the disk, the outcome of a save and the position in the program are kept for
each rank. `save_state` is done by each rank alone when the ranks hold whole copies
(`ddp`), and is a meeting of all when the optimizer is sharded (`fsdp`), which a rank
that fails leaves alone.

### Teacher

| Variable | Code |
|---|---|
| `at, mem` | where a run of `run_generation` is, and its local variables: its copy of the budget, `k`, the estimates behind `avg_cost`, results by kind |
| `file` | `budget.json`; a missing or unreadable file reads as nothing spent |
| `bill, lost`, `mem.due` | observers: what the provider charged, what of it no estimate on file stands for, and what was charged for an answer about to be recorded |
| `overlap` | observer: two runs were active at the same time |

`_save` writes a temporary file and renames it, so a kill leaves the old or the new
file: `record` is one step. `can_spend` compares without division:
`avg_cost` is twice the sum of the estimates over their number. The adapters report no
cost (`reported_cost_usd=None`), so what is recorded is `estimate_cost`: the reported
tokens at the peak price, and half as much again. What the provider charges is a number
of its own (`charge`): its price may be above the peak price the code knows. Tokens have
one price in the model (two in the code), and money is counted in half units.

### Corpus, Bench, Orchestrator, Kaggle

| Variable | Code |
|---|---|
| `prep, attempt, lang, rows` | where `prepare_corpus` is, how often it was started, the language and the row of its stream |
| `packer, written, records` | the two `BlockPacker`s, the filled part of the arrays, `validation_records` |
| `disk` | per output file, the attempt that opened it and whether it was finished |
| `taken` | observer: the documents given to each packer |
| `lab, session, wanted, override, index` | `main` of `run_bench.py`, `--candidates`, `--max-tokens` |
| `jobs` | the jobs that have processes: where both ranks are, their status, steps and data used up |
| `results, last, reported` | `result.json` per candidate, the last line of `throughput_benchmarks.jsonl`, who has a line |
| `disturbed` | observer: when the job was launched, another one of its candidate was still there |
| `phase, benchmarks, selected, pilots, mainRun` | `main` of `run.py` and the records it decides by |
| `summaries, evaluations, reports` | `summary.json` and `micro_eval.json` per launch name, the kernel's own files |
| `kernel, attached` | which kernel runs, and the metadata of the corpus attached to it |

A token is the record of the file it comes from, so a block shows which documents and
which repositories are in it. A row may name its repository twice
(`max_stars_repo_name`, `max_forks_repo_name`), and the split takes the first there is.
Opening an array or a file discards what it held; `Halt` leaves the files torn that
were open. The two ranks of a job meet in collectives: `Both` is the guard of one. A rank
that falls alone waits in `gather` while the other waits in the next update, until
the job is aborted or the lab runs out of time; the ranks survive that time-out.
`Endings` are the ways a launch of `train.py` may end, in the order in which it writes
its files.

### Authoring, Predictions, Evaluation, Harness

| Variable | Code |
|---|---|
| `author, purse, suite` | memory of `generate_code_benchmark.py`, `spent_usd`, the version of the suite on disk |
| `metadata, lines` | the metadata file and the lines of the predictions; either may be torn |
| `unended` | the last line of the predictions lacks its newline |
| `gen` | memory of `generate_predictions`: where it is, its futures, an exception on its way; `glued` observes the cases whose answers it wrote into one line |
| `evaluation, results, summary` | memory of `evaluate_code_benchmark.py` and its two output files |
| `started, spoilt` | bounds: starts of each script, failures |

A future is queued, running, answered or raised; `as_completed` hands out finished ones in
any order, with one worker one at a time. A write that fails (`save_fails`) leaves nothing,
a part, all but the newline, or all of the line. What cannot be parsed is `Torn`; a line
without its newline can be, until the next one is appended to it (`Appended`). The commands of a case end well, badly, late or
not at all (`Exits`).

### Protocol, Examples, Scoring, Offline

A text is a sequence of glyphs that differ in their width in UTF-8 and in what the
serialization makes of them; a line of a prompt is a tag with its fields, or text. The
parser is a fold of `parse_line`. `Examples` keeps the bytes as pairs of a glyph and
the position in it, so a cut inside a glyph is visible. The spans of tree-sitter are those the
code falls back to: words, and lines that are not blank. A commit is its edit script;
`diff` cuts it into hunks with context as git does, with a line of kind `\` behind a last
line that lacks its newline; `splitlines` breaks a text with a form feed (`page`) in two. `Scoring` computes the edit distance a row
at a time, and finds the place of the needle by the bisection of the code.
In `Offline` the variable `tool` says which tool this behaviour is; they share no
state. For pure functions, the arguments are a sample chosen in `Init`.

## Runs

| Run | Question | Result |
|---|---|---|
| `Capture` | does an anchor that is uploaded while the user edits, renames, closes, reloads or excludes the buffer ever bind an old hash to a newer text? With a change inside the callback of another, reported first, and with pauses: can a replay get another number of rows? | no: `ReplayExact`, `RowCountExact` hold |
| `Delivery` | one editor with all faults: does an event vanish without a known cause; is the whole an `EventStore`? | no / yes |
| `DeliveryTakeover` | two editors on one spool, one may crash: is a file deleted only on an ACK; is every whole file delivered while one editor runs? | yes / yes |
| `DeliveryPoison` | the same drain with a lost session/start | violated: the file of the start is refused for ever and blocks the rest |
| `Collector` | two sessions with repeated, late and reordered requests, kills and one power failure: are batches whole, foreign keys met, acknowledgements kept, anchors with content; is it a `SessionLog`? | yes |
| `Training` | three ranks, up to three sessions: do ranks that nothing told apart wait for each other in the same operation; do weights, counters and resume point agree; is every milestone taken; does `stop_reason` tell the truth? | yes, with the two exceptions below |
| `Teacher` | two runs on one budget file: is what is recorded within the cap; do the estimates cover the bill; can a restart reset the budget? | yes / yes / no |
| `TeacherStages` | does stage C begin only after 90% of stage B succeeded, as generate.py says? | violated: stage A's results count towards stage B's share |
| `Kaggle` | are blocks a prefix of their documents, with no repository on both sides; is what stands beside the marker whole, or newer; does "pass" mean all steps on both ranks; is a line about its own launch; does the main run rest on measurements of its kernel; does the lab get past a job that hangs? | yes, with the exceptions below |
| `KaggleTimeout` | is there a line for every candidate unless the lab was killed? | violated: handling a time-out adds text to bytes |
| `Offline` | is a predictions file of one suite and one model, complete when its run returned, and scored as earned; is what is serialized read back; are faithful recordings accepted, regions found, commits walked to their child, distances true and needles placed best? | yes |
| `GitNewFile` | does a walk through a commit that does not raise end in the child text? | violated for a file the commit creates |

The violated runs are explained with their lines in `PROJECT.json` under "findings".

`ReplayExact` says nothing of a buffer whose changes were not all recorded since its
anchor (`chained`): a pause, an exclusion, a divergence the guard caught or a rename
takes the buffer out until the next anchor, which is what buffers.lua promises
("the next anchor re-baselines"). With `MaxLag = 2` it can be
violated by two changes that keep the line count: buffers.lua:117-119 says so, and for
that reason it speaks of `MaxLag = 1` only. `RowCountExact` holds of every instance and
says what the guard does promise then: the guard compares numbers of lines, so a
divergence that keeps the number passes it, and the text is wrong until the delta of a
later change contradicts what the replay has there (`Corrupt`: its `removed_sha256` does
not match). As long as no delta contradicts it, the replay has as many rows as the buffer. It
needs the order the editor has: if the older change could be reported before the newer
one, it would be false.

Two properties of `Training` name their exceptions, and both are defects of the code
for which no document promises more:

- `SameCollective` speaks of ranks that nothing has told apart (`Alike`). Three decisions
  rest on what one rank alone knows: its clock at the deadline (train.py:636), the free
  space it reads (736), and an exception in its part of the save (743). When the ranks
  differ in one of them, one goes to `accelerator.gather` and another into the next
  update, past the save or into it, and both wait for ever. Without any one of the three
  parts of `Alike` TLC shows it in a few steps.
- `WeightsMatchCounters` holds unless a save was killed on top of an older resume
  point (`torn`): `save_state` overwrites in place, and `resume_metadata.json` comes
  last (train.py:741, 759). A resume then trains blocks a second time.

`BillCovered` is a bound and no identity: an estimate is usually above the charge. It
rests on `PricesOK`, the assumption behind the margin: no price of the provider is above
one and a half times the peak price. `RestartKeepsBudget` and the last part of
`BillCovered` speak of runs that do not overlap. Overlapping runs each check their own copy of the budget, so
`RecordedWithinCap` holds for the file and every copy while the bill may exceed the cap.

In `Bench`, a result that is read after the launcher failed may be an old one
(run_bench.py:226 looks only whether it exists); the exit code in the line tells. After
a launcher that returned 0 the result is that of the launch, unless a job of the same
candidate that ran out of time was still at work when this one was launched
(`FreshUnlessOrphan`). Two ranks that raise together each empty and write the one
`result.json` (bench.py:1675), so their failures may mix into a text nobody can read; the
property has it that nothing else makes a result unreadable.

`MarkerMeansWhole` speaks of every `corpus_metadata.json`, also one an earlier attempt
left: `prepare_corpus` does not delete it. Beside it the files are whole and of its job,
but for those that a later job has opened. While that job runs, or after it was killed,
old metadata and new files stand side by side, and a trainer, which looks only whether
the metadata exist, would take them for one corpus. On Kaggle every session starts on an
empty directory and `git clone` refuses the second run (`code_cpt_prepare/prepare.py:26`);
it takes the module run again on the same `--output-dir`.

`ReadyIsWhole` has one exception, and says how far it goes. Behind a line that lacks only
its newline the first answer of the next run is glued to the last one of the run before
(code_generation.py:185): one line cannot be read any more, and exactly those two answers
are lost. The list the run returns has them; whoever reads the file, a third run
included, fails, though tests/test_code_benchmark.py:251-256 has a second run find the answers of the first.

`RegionAligned` names the two places where `make_hole` does less than its test asks for
(tests/test_fim.py:40: `start < end`), and holds everywhere else. The cut of a partial
statement is moved back to a boundary of UTF-8 (fim.py:190-191): in a statement that
begins with a wide glyph it may end at its start, and the hole is empty. In a statement
of one byte that ends the file the cut is `len(raw)`, and `raw[cut]` raises an
IndexError.

`HunksReachChild` speaks of files that were there before the commit (`GitNewFile` has the
others). The walk raises exactly when a hunk shows a line without its newline: git names
that line by a `\` line, which is of no kind the code knows (git_edits.py:194), and the parent's
line differs from the one in the hunk. It leaves out files with a form feed, or another
separator that `splitlines` knows and git does not, up to the last hunk (176): there
the numbers of the hunks are too small, and TLC finds walks that raise and, among equal
lines, walks that end in a wrong text.

Met while modelling, without a run of their own:

- An anchor that is dropped after a reload leaves deltas that start from a text no event
  describes (init.lua:291-293), though protocol.md:402-404 says deltas always chain.
- An empty buffer never gets its blob (init.lua:245), so a recording that starts or ends
  empty cannot be verified, though buffers.lua:229-230 says empty files round-trip.
  `FaithfulVerifies` therefore excludes it.
- A case with a command to run and none to test is never run, but counts among the
  cases of the test rate (code_benchmark.py:338).
- Answers are matched with cases by id alone (evaluate_code_benchmark.py:53).
- A job of the training kernel has no time-out (run.py:19), so ranks that part at the
  deadline or at the save hold it to the end of its session.

### Bounds and why they are enough

- *Capture*: one buffer and one upload, in three instances (`MCEditCapture`). The hazards
  need one buffer that changes while one anchor of it is in flight. `OneByOne`: two names,
  two line contents, two lines, `AnchorEvery = 2`; a second name is what a rename needs, a
  second line what an insertion needs, and periodic anchors make one start inside a
  line callback. `Nested`: one name, two line contents, two lines and `MaxLag = 2`, the
  smallest nesting. `Paused`: one name, one line content, up to three lines, and pauses
  between changes, so that a change that was not recorded lies above, in and below one
  that is.
- *Kaggle*: blocks of two tokens and files of one to three, so that a file ends in, at and
  beyond the end of a block; two languages, one with a validation set; two repositories,
  one of them held out; two attempts. Two candidates, one with a budget that is not a
  number of updates; two sessions, one orphan, two overflows that end a job (eight in the code).
  Two learning rates and two kernels on one directory.
- *Offline*: three cases, two models, one or two workers, two runs, one failure, so that
  a run fails or is killed, the suite is replaced, and the next run meets what is left. Streams of
  four events and files of six bytes. Recordings of three lines and two edits: every pair of
  neighbouring, nested and disjoint ranges with blank lines in them. Sources of
  three glyphs, scripts of five lines (two hunks with one line of context), at most one of them with a
  form feed, either file with or without its last newline,
  scored texts of three lines, four filler files.
- *Delivery*: a batch of two, three events and a session_end make one full and one
  partial batch; four files and a cap of one make the cap bite; two faults make a
  fault of a retry after a fault of the post. Every counter (`MaxSeq`, `MaxFiles`,
  `MaxFaults`, `MaxRunning`) is a bound of the instance.
- *DeliveryTakeover*: two processes, two faults; every batch that fails has a file to
  go to (`MaxFiles`), so no bound blocks a callback whose fairness the run assumes.
- *Collector*: two sessions share `MaxEvents = 2` events: either one session has a
  start and an anchor, or both have one event. One power failure, with at most one
  checkpoint before it, since only the last one matters. After a power failure no new
  request is sent, but every one sent before may still arrive; `acked` is kept up to
  that point because the properties over it end there.
- *Training*: updates of two blocks, a corpus of nine, milestones 2 and 3, of which the
  second update crosses both when the first is skipped; two values of `max_tokens`, one
  below and one above the corpus; two overflows in a row end a run (eight in the
  code); three sessions, so that a resumed session is resumed again.
- *Teacher*: stages of one and two states, and one state of stage C; two attempts (four in the code);
  three starts of two processes; answers of one token, reported or not, one price at the
  peak and one at the edge of the margin; charges nobody records up to `MaxUnrecorded`,
  which is two or three of them. The caps are such that both bite.
- `Slots` bounds the posts in flight; an action that needs a free slot waits.

Safety runs use symmetry over interchangeable model values; runs with fairness do
not (`Symmetry` is not in their cfg). `CHECK_DEADLOCK FALSE` is set where processes
may exit or the tool ends.

### Fairness

`FairSpec` is used by `DeliveryTakeover` and `DeliveryPoison`. The batch timer, a
pending callback, an opened file and a request that is neither lost nor timed out
get weak fairness: the main loop of the editor runs what is scheduled and timers repeat. The
spool timer gets strong fairness, because it needs a free slot and an empty queue,
which come and go; the timer itself fires for ever and slots are a bound of the model.
Nothing is assumed of users (pause, exit), of crashes, or of the network beyond the
finite number of faults.

`Kaggle` uses weak fairness of `GivesUp` alone: `subprocess.run` of the lab has a
timeout (2400 s), which ends the wait whatever the job does. `LabMovesOn` needs no more.

### Assumptions of the models

- Once `M.shutdown` has started no callback of a post runs: its blocking wait only
  pumps fast events and the process ends afterwards.
- A blocking file write is two steps, open and close, because another *process*
  can look in between; the writing process does nothing else meanwhile.
- A whole spool file has size 1; the cap counts files.
- The collector answers 2xx for a batch exactly when all its sessions are known.
  Handlers are atomic in `Delivery`; `CollectorServer` takes that back.
- A committed transaction survives the death of the server process, and a power failure
  takes the database back to a checkpoint (SQLite with WAL, `synchronous=NORMAL`).
- `optimizer_step_was_skipped`, the reduced loss and the reduced gradient norm are the same on
  every rank (accelerate); the loader gives every rank its share of each update's
  blocks in order. All sessions of a resumed run use the same number of blocks per
  update (the code records `tokens_per_update` but does not compare it).
- The provider charges at most once per request, and answers in error cost nothing. Its
  price for a token is at most one and a half times `ESTIMATED_PRICING_PER_1K`.
- A process calls `M.setup` once, with the plugin enabled.
- Killing the lab's machine ends all its jobs; its time-out ends the launcher only.
- Output is written in the order of the program; a file opened for writing is empty or
  torn until it is closed.
- The offline scripts are run one at a time. Ids and sources in serialized
  lines contain no blank (serialize.py:162, 167 split at the first one).
- The longer name of the filler beside the needle costs no token.

## Theorems

TLC checks the properties on the instances above; the theorems below hold for every
value of the constants that meets the `ASSUME`s of the modules. Each
`*_proofs` module first states the inductive invariant, then proves one lemma per action
(it keeps the invariant), then the theorems. All of them except `DeletedOnlyOnAck`,
`RestartKeepsBudget` and the two refinements have the form `Spec => []P`.

| Module | Theorem | Property |
|---|---|---|
| `EditCapture_proofs` | `ReplaysAreExact` | `ReplayExact` |
| | `ReplaysHaveTheRows` | `RowCountExact` |
| | `TypeCorrect` | `TypeOK` |
| `Delivery_proofs` | `NoEventVanishes` | `Accounting` |
| | `SpoolKeepsUnacked` | `DeletedOnlyOnAck` (action property) |
| | `DeliveryIsAStore` | `ImplementsStore` (refinement of `EventStore`) |
| | `TypeCorrect`, `Invariant` | `TypeOK`, `IInv` |
| `CollectorServer_proofs` | `CollectorImplementsLog` | `ImplementsLog` (refinement of `SessionLog`) |
| | `ForeignKeysAreMet` | `ForeignKeysMet` |
| | `BatchesAreAtomic` | `BatchesWhole` |
| | `AnchorsCanBeReplayed` | `AnchorsHaveBlobs` |
| | `AcknowledgedIsStored` | `AckedIsStored` |
| | `TypeCorrect` | `TypeOK` |
| `Training_proofs` | `RanksWaitTogether` | `SameCollective` |
| | `WeightsAreExact` | `WeightsMatchCounters` |
| | `MilestonesHaveSnapshots` | `MilestonesKept` |
| | `ReasonIsTrue` | `ReasonTellsOverflow` |
| | `TypeCorrect` | `TypeOK` |
| `Teacher_proofs` | `RecordedStaysWithinCap` | `RecordedWithinCap` |
| | `BillStaysCovered` | `BillCovered` |
| | `RestartKeepsTheBudget` | `RestartKeepsBudget` (action property) |
| | `TypeCorrect` | `TypeOK` |
| `Kaggle_proofs` | `PassesAreWhole` | `PassIsWhole` |
| | `ResultsAreFresh` | `FreshUnlessOrphan` |
| | `MarkerIsLast` | `MarkerMeansWhole` |
| | `MainRunHasEvidence` | `MainFromEvidence` |
| | `BlocksAreText` | `BlocksArePrefix` |
| | `TypesCorrect` | `KaggleTypeOK` |
| `Offline_proofs` | `AnswersHaveOneSource` | `OneSource` |
| | `ReturnedRunIsWhole` | `ReadyIsWhole` |
| | `ScoresAreEarned` | `ScoreEarned` |
| | `RecordingsVerify` | `FaithfulVerifies` |
| | `PromptsReadBack` | `RoundTrip` |
| | `ScoresAreExact` | `ScoringExact` |
| | `NeedleIsNearest` | `NeedleNearest` |
| | `RegionsAreAligned` | `RegionAligned` |
| | `OfflineTypesCorrect` | `OfflineTypeOK` |

### Why each needs more than the property

**Capture.** What an event rebuilds (`replay`) and what the editor shows (`live`) are two
steps apart: the shadow lies between them, and a change may be waiting to be reported.
`CaptureInv` says for every buffer in `chained` that the replay has the rows of the
shadow and the shadow those of the buffer unless a change is waiting (`Counted`); when
changes come one at a time, that the replay *is* the shadow and the buffer is the shadow
with the one waiting change spliced in (`Traced`, `OneChange`). That an agreeing line
count says something at all is `Confirmable`: the rows of the newest change are in the
buffer, or the counts already agree. From it `CountConfirms` concludes that a
change which passes the guard of `on_lines_handler` lies within the shadow, and
`DeltaFits` that its delta can be applied to the replay. Anchors bring in that no two
valid buffers have one file name, since events name files.

**Delivery.** When a retry succeeds, the file it posted is deleted; that this loses nothing
depends on the server having stored exactly the events of *that* file, which depends on
what was in the request, which may have been answered before and after the file was
touched. `IInv` therefore has, besides `TypeOK` and `Accounting`: a request in
flight from a slot carries the events of the post that waits, or of its file while that
exists (`RequestsOK`); a post answered "ok" has its events stored (`AcksOK`); the file a
process is writing is its own and not whole (`FilesOK`). `SpoolKeepsUnacked` follows from
`IInv` before the step: only `RetryOk` (then `AcksOK` applies) and the cap delete a whole
event file. The refinement also needs that no event comes into being twice: `NumInv` adds
to `IInv` that every copy of an event, wherever it is, has a number its process has handed
out already, and that the counter is zero exactly before setup (`Numbered`). Hence an event
held after a step was held before it or is the new one (`HeldBefore`), what is stored or
lost stays so (`SettledStays`), and with `Accounting` every step is one of `EventStore` or a
stutter (`StepStores`).

**Collector.** A handler checks a foreign key in one transaction and uses it in another, a
batch may come again after half of it would be a duplicate, and an acknowledgement may
be older than a power failure. `IInv` says who may hold an event: its number is one its
session has reached (`Numbered`), session and number identify it (`KeysUnique`), it is
in one batch and then no longer queued (`BatchesApart`). Hence a duplicate that
`INSERT OR IGNORE` drops is the same event (`DuplicatesAreSame`), and batches stay whole
in the committed tables and in those of the checkpoint (`RowsOK`, with `Later` between
the two). `JobOK` remembers what the steps of a running handler have done. In
`CollectorImplementsLog` every action is shown to be a step of `SessionLog` or a stutter.

**Training.** `SameCollective` says nothing of ranks that do not wait. `PhaseInv` names the
phases of the program: the ranks go around the loop, but for those their clock has sent
out of it (`Looping`); all have been asked to stop, which the reduction in `Agree`
establishes (`Stopping`); all are at one place (`Gathered`); each is where what it saw of
the disk and of the save has sent it (`Storing`); or the main rank writes files while the
others wait in the next operation (`MainWrites`). `SessionInv` has the rest: the counters,
the position in the data set and the overflows fit the plan (`PlanOK`: an overflow uses up
the blocks of an update without a step); the resume point holds a model its own metadata
describe (`ResumeOK`); milestones up to `checked` have a snapshot or are in hand
(`TodoOK`, `CheckedOK`).

**Teacher.** The sum over runs of what is about to be recorded changes in one term per step
(`TotalUpdate`), and an estimate covers the charge for the same tokens
(`EstimateCovers`, from `PricesOK`). `IInv` says that a run which asks was within its caps before
the answer (`Allowed`, from `can_spend`), that an estimate waits for at most one `record`
(`Pending`), and that a run which has been alone so far has the file's budget in memory
(`Alone`).

**Kaggle.** A rank that passed the training loop well took all steps, and so did the other
unless that one raised since (`JobOK`): the collective operation in each update ties
them. Numbers of launches identify jobs, and a job that found no other of its candidate
stays the only one (`JobsOK`). Its file is empty while the main rank writes; what a rank
that raised finds in it is of the other rank, which raised as well; and between two
writings it is a result of this job (`OwnFile`), which the lab then collects (`LabInv`).
The files of an attempt are finished in an order that has the metadata last (`DiskOrder`),
and the files beside any metadata are of the same attempt or opened since
(`MarkerBeside`). The
records of the orchestrator are those of this kernel, row by row (`RowOK`, `PilotOK`), and
the selected one is the fastest, or the best, of them (`ChoiceOK`). For the packed text,
`PackerOK` says of each packer that the tokens of its blocks followed by those still
pending are the joined text of the documents it took, in order, and that the pending ones
fill less than a block; a document that is cut is the last (`BlocksAreText`). The counts
and the sizes of the files (`CountsOK`, `FilesOK`) complete the types.

**Offline.** `HarnessInv` has a part for each script. The cases of a run are each in
exactly one place (saved, queued, running, answered, raised, or lost in a glued line: `Shared`)
until something raises; no case has two lines, and all lines but the glued one can be read (`Once`); a
predictions file exists only under whole metadata, and its whole lines are of that suite
and model (`FileInv`); what is in memory is in the files by the time each is written
(`EvalInv`). For the verifier, `ReplayInv` says that there is a history of
buffers of which each recorded delta is an edit of two neighbouring ones, and that the tool
has rebuilt the buffer of the place it has reached. What it leaves out for the types is
`ReplaySizes`; `EditorTypes` has those of the replayed stream.

The other theorems about `Offline` are about what a function computes. An induction is
made over a set of naturals that holds zero and with every number the next (`ByCounting`), a
fold over a sequence by the run of its partial results (`FoldSteps`, `RunIs`).

- *Prompts.* The parser is a run over lines (`Reads`), so that what reads two parts one
  after the other reads them joined (`ReadsOn`). Joining the lines of a split text gives it
  back (`SplitJoined`), an escaped line is never the line that ends a block and is
  unescaped to itself (`Escaped`); hence a block gives its text back whatever it contains
  (`BlockRead`, `EscapedText`). `FileRead`, `ContextsRead` and `AnswersRead` put the blocks
  together, and `PromptTypes` is the invariant that makes the state one of texts.
- *Scores.* `Best` is the least cost of an alignment of two prefixes. An alignment either
  ends in a pair of last items or leaves one of them out, so `Best` satisfies the recurrence of
  the table (`ThreeWays`) and every cell holds it; it is zero for equal texts
  only (`NoDistance`).
- *Needle.* The loop ends within one turn per place, with the two neighbouring places
  between which the depth asked for lies; the lengths only grow, so no other is nearer.
- *Next edits.* Bytes that are whole glyphs (`Wholes`) decode, and so does a slice of
  them between two places at which no glyph is cut (`Cut`): every hole and every recent edit is such a
  slice (`HoleCuts`, `AnySpanCuts`). Recent edits are apart from the region and
  from each other, so the edited text is the parts between them with a byte after each
  edited span (`EditsPlaced`); in it the region stands where `shift` says
  (`RegionKept`). The three parts of a hole give the source back since its ends are in order.

### Assumptions

The constants are assumed to be what the code makes them, and TLC evaluates every
`ASSUME` in the run of its module:

- ranges: counts, limits and prices are natural numbers (`PricesOK` also bounds the
  provider's prices, see above), batch and update sizes are
  positive, a context has at least one line;
- sentinels (`NoHash`, `NoRow`, `NoPost`, `NoFile`, `NoLines`, `NoName`, ...) are not among the
  values they are told apart from;
- finiteness, where a sum or a maximum is taken: sessions (`SessionsFinite`), runs of
  the generator (`RunsFinite`), token counts (`TokensOK`), cases (`CasesOK`);
- shape: the matrix of candidates, the languages and the specifications are
  sequences (`MatrixOK`, `AllotOK`, `KernelOK`), `Main` is a rank (`RanksOK`), a selection is
  a set of candidates (`SelectionsOK`). There is a language: `LANGUAGE_SPECS`
  (`tc/code_cpt/prepare.py:33`) is a constant that is not empty.
- texts: what is inserted, shown in a message or taken as a snapshot is a text, and a
  snapshot fits the bound `MaxBytes` (`TextsOK`); these sets are bounds of the instance.

No theorem bounds the number of buffers, processes, sessions, ranks, runs, candidates
or cases, and none assumes fairness.

### What stays with TLC

- `SpoolDrains` and `LabMovesOn`: liveness under fairness is outside the prover's reach.
- `HunksReachChild`: the theorem would be an induction over the hunks of a commit within
  one over the lines of each, which has not been carried out.

## Not modelled, and why

- The debounced cursor events, prediction logging, `setup` with `enabled=false` and a
  second `setup` in one process.
- Compression of blobs, queries and statistics of the server.
- In `Training`: evaluation numbers, the optimizer's state apart
  from the counters, `eval_final` without `save_final`. In `Teacher`: `stage_override`,
  validation of candidates, the fake provider, which spends nothing.
- In `Corpus`: source filters, digests, the weights of the shuffle. In `Bench`: timings,
  memory numbers, plots, and the candidates with a `worker_command` of their own
  (`run_bench.py:127-161`: `fsdp2_probe`, `nccl_bench`), which are probes and do not train. In the harness: containers, evaluation of the reference answers,
  latency, metrics, export, the output benchmark. In `Examples`: the parser
  tree-sitter, wording of prompts and records.
- The playground server: a request takes the model lock for one call, and a second lock
  for one appended line; nothing else is shared.
- Edit scripts and hunks of the analysis tools, which are only displayed.
- Queries, printing, configuration, commands: no state of their own.
- Numerical code (models, losses, timings): outside what TLC can evaluate.

## Plan

In this order; the most important behaviour first.

1. Done: capture, replay, delivery and its safety proofs, the collector server, the
   training loop, paid generation, the kernels around the corpus, the code benchmark, the
   event protocol, data construction, scoring.
2. Done: proofs of every safety invariant, action property and type invariant of
   `EditCapture`, `Delivery`, `CollectorServer`, `Training`, `Teacher`, `Bench`, `Corpus`,
   `Orchestrator`, of the three scripts of the code benchmark, of the verifier, of the
   prompts, the scores and the next edits; that `CollectorServer` implements `SessionLog` and `Delivery`
   implements `EventStore`.
3. Left: the walk through a commit (`HunksReachChild`) as a theorem; a model of the playground server if it comes to share more than a lock and a file.

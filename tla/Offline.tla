------------------------------ MODULE Offline ------------------------------
(***************************************************************************)
(* The tools that are run by hand over data at rest.  They share no state  *)
(* and one runs at a time, so an instance is one of them: the code         *)
(* benchmark (Harness), the replay of an event stream into a prompt        *)
(* (Protocol), the verifier of recordings (ReplayTool), or one call of a   *)
(* function that cuts an example or scores one (Examples, Scoring), whose  *)
(* arguments are a sample.                                                 *)
(***************************************************************************)
EXTENDS Harness

CONSTANTS
  Paths, Inserted, Snapshots, Messages, Completions, MaxBytes, MaxEvents, NoPath, \* Protocol
  Blank, Lines, MaxLines, MaxDeltas, MaxMismatches,                              \* ReplayTool
  Context,      \* Examples
  MaxGlyphs,    \* bound: glyphs of a source
  MaxScript,    \* bound: lines of an edit script
  MaxText,      \* bound: lines of a scored text
  MaxFillers    \* bound: filler files of a long prompt

ASSUME StreamOK    == MaxBytes \in Nat /\ MaxEvents \in Nat /\ NoPath \notin Paths
ASSUME RecordingOK == /\ Blank \in Lines /\ MaxLines \in Nat \ {0}
                      /\ MaxDeltas \in Nat /\ MaxMismatches \in Nat
ASSUME ContextOK   == Context \in Nat \ {0}

VARIABLES
  tool, sample,
  files, open_files, cursors, diagnostics, retrieved, completions, last_predict, events,
  live, first, deltas, done, rebuilt, failures

streamVars == << files, open_files, cursors, diagnostics, retrieved, completions,
                 last_predict, events >>
replayVars == << live, first, deltas, done, rebuilt, failures >>
vars == << tool, sample, harnessVars, streamVars, replayVars >>

Stream == INSTANCE Protocol
Replay == INSTANCE ReplayTool WITH lines <- rebuilt, MaxFailures <- MaxMismatches
Data   == INSTANCE Examples
Rate   == INSTANCE Scoring

ASSUME TextsOK == /\ Inserted \subseteq Seq(Stream!Glyphs) /\ Snapshots \subseteq Seq(Stream!Glyphs)
                  /\ Messages \subseteq Seq(Stream!Glyphs)
                  /\ \A text \in Snapshots : Stream!byte_len(text) <= MaxBytes

(***************************************************************************)
(* Samples.                                                                *)
(***************************************************************************)

\* A source, a hole make_hole may choose in it, two tries at a recent edit.
Holes ==
  UNION {UNION {{[raw |-> Data!Bytes(text), region |-> region, tries |-> << x, y >>] :
                   region \in Data!make_hole(Data!Bytes(text), type),
                   x, y \in Data!AnySpan(Data!Bytes(text))} :
                type \in Data!HoleTypes} :
         text \in UNION {[1 .. n -> Data!SourceGlyphs] : n \in 1 .. MaxGlyphs}}

\* Scripts with at most one text that has a form feed, and files that may lack
\* their last newline.
Marked(script, page, bare) ==
  LET sides(i)   == IF script[i][1] = " " THEN {"-", "+"} ELSE {script[i][1]}
      last_of(i) == {s \in sides(i) : \A j \in i + 1 .. Len(script) : s \notin sides(j)}
  IN [i \in DOMAIN script |->
        << script[i][1], IF i = page THEN "page" ELSE script[i][2], last_of(i) \cap bare = {} >>]

\* git names removed lines before added ones, and no line as both; a line that
\* lost or got its newline is not a kept one.
Commits ==
  {script \in {Marked(plain, page, bare) :
                 plain \in UNION {[1 .. n -> {" ", "-", "+"} \X {"a", "b"}] : n \in 1 .. MaxScript},
                 page \in 0 .. MaxScript, bare \in SUBSET {"-", "+"}} :
     /\ \A i \in 2 .. Len(script) :
          /\ ~(script[i - 1][1] = "+" /\ script[i][1] = "-")
          /\ ~(/\ script[i - 1][1] = "-" /\ script[i][1] = "+"
               /\ Tail(script[i - 1]) = Tail(script[i]))
     /\ \A i \in DOMAIN script : script[i][1] = " " /\ ~script[i][3] => i = Len(script)}

Texts == UNION {[1 .. n -> {"a", "b"}] : n \in 0 .. MaxText}
Scored ==
  [prefix : {<< "a" >>}, region : Texts, suffix : {<< "b" >>}, expected : Texts,
   action : {"noop", "replace"}, completion : Texts]

\* The depth is asked for in percent, between 5 and 95.
Prompts ==
  [head : {0, 2}, fillers : UNION {[1 .. n -> {1, 3}] : n \in 0 .. MaxFillers}, rest : {1, 4},
   depth : {5, 10, 50, 75, 95}]

NoSample == << >>

(***************************************************************************)
(* The system.                                                             *)
(***************************************************************************)

Picked ==
  \/ tool \in {"harness", "stream", "replay"} /\ sample = NoSample
  \/ tool = "hole" /\ sample \in Holes
  \/ tool = "commit" /\ sample \in Commits
  \/ tool = "score" /\ sample \in {case \in Scored : Rate!ValidCase(case)}
  \/ tool = "prompt" /\ sample \in Prompts

Init ==
  /\ Picked
  /\ HarnessInit /\ Stream!ProtocolInit
  /\ Replay!Init /\ (tool = "replay" \/ live = << Blank >>)

Next ==
  \/ tool = "harness" /\ HarnessNext /\ UNCHANGED << tool, sample, streamVars, replayVars >>
  \/ tool = "stream" /\ Stream!ReplayEvent
     /\ UNCHANGED << tool, sample, harnessVars, replayVars >>
  \/ tool = "replay" /\ Replay!Next
     /\ UNCHANGED << tool, sample, harnessVars, streamVars >>

Spec == Init /\ [][Next]_vars

-----------------------------------------------------------------------------
OfflineTypeOK ==
  /\ tool \in {"harness", "stream", "replay", "hole", "commit", "score", "prompt"}
  /\ tool = "harness" => HarnessTypeOK
  /\ tool = "stream" => Stream!ProtocolTypeOK
  /\ tool = "replay" => Replay!TypeOK

\* A recording in which nothing is lost verifies, unless the file is empty at
\* one end, whatever lines are inserted, deleted or blanked in between
\* (replay.ts, buffers.lua).
FaithfulVerifies == tool = "replay" => Replay!FaithfulVerifies

\* What serialize_state writes parse_serialized reads back, whatever the texts
\* contain, end-of-block lines and backslashes included (serialize.py).
RoundTrip == tool = "stream" => Stream!RoundTrip

\* Where make_hole raises an IndexError, and where its hole has no byte in it.
EndsInOneByte(raw) ==
  raw[Len(raw)][1] = "a" /\ (Len(raw) > 1 => raw[Len(raw) - 1][1] = "newline")
BeforeWide(raw, i) == raw[i + 1] = << "wide", 1 >>

\* No hole cuts a glyph in two, the three parts give the source back, and after
\* any recent edits around it the region is found, unchanged, at the offsets the
\* example names (fim.py make_hole, static_edits.py make_next_edit).  A hole has a
\* byte in it (tests/test_fim.py) unless it stands before a wide glyph, and there
\* is one unless the source ends in a line of one byte.
RegionAligned ==
  tool = "hole" =>
    LET raw    == sample.raw
        region == sample.region
        prefix == Data!Slice(raw, 0, region[1])
        middle == Data!Slice(raw, region[1], region[2])
        suffix == Data!Slice(raw, region[2], Len(raw))
        edit   == Data!make_next_edit(raw, region, sample.tries)
    IN
    \/ region = Data!Raises /\ EndsInOneByte(raw)
    \/ /\ region[1] < region[2] \/ (region[1] = region[2] /\ BeforeWide(raw, region[1]))
       /\ prefix \o middle \o suffix = raw
       /\ \A part \in {prefix, middle, suffix, edit.current} : Data!Decodes(part)
       /\ Data!Slice(edit.current, edit.start, edit.end) = middle

Parent == Data!splitlines(Data!Side(sample, "-"))
Child  == Data!splitlines(Data!Side(sample, "+"))
Walked == Data!_intermediates(Parent, Data!diff(sample))

\* Applying the hunks of a commit one after the other ends in the child and
\* never meets a line that is not there; it raises exactly when a hunk shows a
\* line without its newline (git_edits.py _intermediates).  That is for a file
\* that was not empty before the commit and has no form feed up to its last hunk.
HunksReachChild ==
  tool = "commit" /\ Parent # << >> =>
    LET shown == Data!Shown(sample)
        paged == \E i \in DOMAIN sample, j \in shown :
                   i <= j /\ sample[i][1] # "+" /\ sample[i][2] = "page"
    IN \/ paged
       \/ IF \E i \in shown : ~sample[i][3] THEN Walked.error
          ELSE ~Walked.error /\ Data!splitlines(Walked.lines) = Child

\* tests/test_git_edits.py: intermediates converge on the child text.
LastIsChild == tool = "commit" /\ ~Walked.error => Data!splitlines(Walked.lines) = Child

\* The fewest insertions, deletions and replacements, over all ways to put the
\* items of x and y side by side in order.
Alignments(x, y) ==
  {pairs \in SUBSET ((DOMAIN x) \X (DOMAIN y)) :
     \A p, q \in pairs : p = q \/ (p[1] < q[1] /\ p[2] < q[2]) \/ (p[1] > q[1] /\ p[2] > q[2])}
Distance(x, y) ==
  Min({Len(x) + Len(y) - 2 * Cardinality(a) + Quantify(a, LAMBDA p : x[p[1]] # y[p[2]]) :
       a \in Alignments(x, y)})

\* The score of a next edit: the distance is the true one, the answer that was
\* expected gets every point and gives the text after the edit, and no other
\* answer is called exact (next_edit_benchmark.py).
ScoringExact ==
  tool = "score" =>
    LET result == Rate!evaluate_next_edit_prediction(sample, sample.completion)
        after  == IF sample.action = "noop" THEN sample.region ELSE sample.expected
    IN
    /\ result.distance = Distance(sample.completion, sample.expected)
    /\ result.exact_match <=> result.distance = 0
    /\ result.exact_match => /\ result.action_correct
                             /\ result.text = sample.prefix \o after \o sample.suffix

\* No place between the fillers is nearer to the depth asked for than the one
\* the bisection finds (long_context_benchmark.py materialize_long_context_case).
NeedleNearest ==
  tool = "prompt" =>
    \A k \in 0 .. Len(sample.fillers) :
      Rate!Off(sample, Rate!positioned(sample)) <= Rate!Off(sample, k)
=============================================================================

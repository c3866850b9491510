----------------------------- MODULE ReplayTool -----------------------------
(***************************************************************************)
(* The offline verifier analysis/replay.ts: it rebuilds a file from its    *)
(* first anchor and all its edit deltas and compares the bytes with the    *)
(* last anchor.  The recording it reads is produced here by a buffer that  *)
(* is edited with nothing lost, so every verdict other than "match" is a   *)
(* false alarm of the recorder's encoding or of the verifier.              *)
(***************************************************************************)
EXTENDS LineDelta

CONSTANTS
  Lines,        \* the lines a buffer can hold
  MaxLines,     \* bound: lines in a buffer
  MaxDeltas,    \* bound: edits of a recording
  MaxFailures   \* mismatches after which the verifier stops (5 in the code)

Contents == UNION {[1 .. n -> Lines] : n \in 1 .. MaxLines}

VARIABLES
  live,       \* the buffer while it is recorded
  first,      \* content of the first anchor
  deltas,     \* the recorded edit deltas
  done,       \* deltas the verifier has looked at; -1 before it starts
  lines,      \* its line array
  failures    \* its mismatch counter

recording == << live, first, deltas >>
vars      == << recording, done, lines, failures >>

Deltas == [start_row : 0 .. MaxLines, old_end_row : 0 .. MaxLines,
           new_end_row : 0 .. MaxLines,
           deleted_text : Contents, inserted_text : Contents]

TypeOK ==
  /\ live \in Contents
  /\ first \in Contents \cup {EmptyFile}
  /\ Len(deltas) <= MaxDeltas /\ \A i \in DOMAIN deltas : deltas[i] \in Deltas
  /\ done \in -1 .. Len(deltas)
  /\ \A i \in DOMAIN lines : lines[i] \in Lines
  /\ failures \in 0 .. MaxFailures + 1

Init ==
  /\ live \in Contents
  /\ first = canonical_bytes(live)
  /\ deltas = << >>
  /\ done = -1
  /\ lines = << >>
  /\ failures = 0

(***************************************************************************)
(* Recording.                                                              *)
(***************************************************************************)

Edit(start, end, new) ==
  LET after == splice_lines(live, start, end, new)
      d     == compute_delta(live, start, end, new)
  IN
  /\ done = -1 /\ Len(deltas) < MaxDeltas
  /\ start <= end /\ end <= Len(live) /\ after \in Contents
  /\ live' = after
  /\ deltas' = Append(deltas, d)
  /\ UNCHANGED << first, done, lines, failures >>

(***************************************************************************)
(* Verification.  norm() takes the final newline off a text; every text    *)
(* that has a blob ends in one, so it is left out of the texts here.       *)
(***************************************************************************)

\* Content that is not empty gets a blob.  Empty content gets none: ensure_blob
\* sends no upload for it and handleBlobsUpload refuses it.
HasBlob(content) == content # EmptyFile

\* blobBytes throws when there is no blob, which ends the tool at once.
Start ==
  /\ done = -1
  /\ IF HasBlob(first)
     THEN done' = 0 /\ lines' = first
     ELSE done' = Len(deltas) /\ UNCHANGED lines
  /\ UNCHANGED << recording, failures >>

Fits(d) ==
  /\ DeltaMatches(lines, d)
  /\ Len(InsertedLines(d)) = d.new_end_row - d.start_row

\* One turn of the loop over the deltas.
Replay ==
  LET d == deltas[done + 1] IN
  /\ done \in 0 .. Len(deltas) - 1 /\ failures <= MaxFailures
  /\ done' = done + 1
  /\ IF Fits(d)
     THEN lines' = ApplyDelta(lines, d) /\ UNCHANGED failures
     ELSE failures' = failures + 1 /\ UNCHANGED lines
  /\ UNCHANGED recording

Next ==
  \/ \E start, end \in 0 .. MaxLines, new \in Contents \cup {<< >>} : Edit(start, end, new)
  \/ Start \/ Replay

Spec == Init /\ [][Next]_vars

\* The verdict, with an anchor of the final buffer as the last one.
Finished == done = Len(deltas) \/ failures > MaxFailures
last     == canonical_bytes(live)
ReplayOK == HasBlob(first) /\ HasBlob(last) /\ failures = 0 /\ Concat(lines) = Concat(last)

-----------------------------------------------------------------------------
\* A faithful recording of a file that is not empty at either end verifies,
\* whatever lines are inserted, deleted or blanked in between (replay.ts).
FaithfulVerifies ==
  (Finished /\ first # EmptyFile /\ last # EmptyFile) => ReplayOK
=============================================================================

------------------------------ MODULE LineDelta ------------------------------
(***************************************************************************)
(* The pure line-array operators of the trajectory collector: what the     *)
(* editor plugin computes for one text change (buffers.lua), and what the  *)
(* offline tools do with the result (analysis/replay.ts).                  *)
(*                                                                         *)
(* A buffer is a sequence of lines.  A text made by joining lines with     *)
(* newlines is represented by its newline-free segments, so joining no     *)
(* lines and joining one blank line give the same text, as they do in the  *)
(* program.                                                                *)
(***************************************************************************)
EXTENDS Integers, Sequences

CONSTANT Blank      \* the empty line ""

\* table.concat(lines, "\n"): the text of zero lines is the empty string,
\* which is also the text of one blank line.
Concat(lines) == IF lines = << >> THEN << Blank >> ELSE lines

AtMost(i, n) == IF i <= n THEN i ELSE n

\* The lines of rows [first, last), cut off at the end of the buffer.
Slice(lines, first, last) ==
  SubSeq(lines, first + 1, AtMost(last, Len(lines)))

\* Lines [first, last) replaced by `new`.
splice_lines(lines, first, last, new) ==
  Slice(lines, 0, first) \o new \o Slice(lines, last, Len(lines))

\* A row of the shadow that does not exist is read as "".
RowOrBlank(lines, i) == IF i <= Len(lines) THEN lines[i] ELSE Blank

\* The payload of an edit_delta.
compute_delta(shadow, first, last, new) ==
  [start_row     |-> first,
   old_end_row   |-> last,
   new_end_row   |-> first + Len(new),
   deleted_text  |-> Concat([i \in 1 .. (last - first) |->
                               RowOrBlank(shadow, first + i)]),
   inserted_text |-> Concat(new)]

expected_total(old_total, first, last, new_count) ==
  old_total - (last - first) + new_count

(***************************************************************************)
(* Anchors.  canonical_bytes maps a buffer that is one blank line (or has  *)
(* no line) to the empty file; every other buffer is the text of its lines *)
(* with a final newline.  The content of an anchor is represented by the   *)
(* lines it stands for, the empty file by << >>.                           *)
(***************************************************************************)
EmptyFile == << >>

canonical_bytes(lines) ==
  IF lines \in { << >>, << Blank >> } THEN EmptyFile ELSE lines

\* The buffer an editor shows for a file with that content.
BufferOf(content) == IF content = EmptyFile THEN << Blank >> ELSE content

(***************************************************************************)
(* Replay of one delta.  The range of the delta decides how many lines are *)
(* inserted: an empty text inserts as many blank lines as the range has    *)
(* rows.                                                                   *)
(***************************************************************************)
DeltaMatches(lines, d) ==
  Concat(Slice(lines, d.start_row, d.old_end_row)) = d.deleted_text

\* Mutant of InsertedLines: an empty text inserts no line (protocol.md section 6
\* describes the replay this way).
InsertedNothing(d) ==
  IF d.inserted_text = << Blank >> THEN << >> ELSE d.inserted_text

InsertedLines(d) ==
  IF d.inserted_text = << Blank >>
  THEN [i \in 1 .. (d.new_end_row - d.start_row) |-> Blank]
  ELSE d.inserted_text

ApplyDelta(lines, d) ==
  splice_lines(lines, d.start_row, d.old_end_row, InsertedLines(d))

=============================================================================

--------------------------- MODULE MCEditCapture ---------------------------
(* EditCapture with what TLC needs on top: file names, buffers and upload   *)
(* slots are interchangeable.                                               *)
EXTENDS EditCapture, TLC

Symmetry == Permutations(Paths) \cup Permutations(Buffers) \cup Permutations(Slots)

\* A line callback for each change, with periodic anchors and renames; two
\* changes before the first callback; or pauses between changes.
OneByOne == [names |-> Paths, lines |-> {"", "a"}, max_lines |-> 2, max_lag |-> 1,
             may_pause |-> FALSE, anchor_every |-> 2]
Nested(p) == [names |-> {p}, lines |-> {"", "a"}, max_lines |-> 2, max_lag |-> 2,
              may_pause |-> FALSE, anchor_every |-> 0]
Paused(p) == [names |-> {p}, lines |-> {""}, max_lines |-> 3, max_lag |-> 1,
              may_pause |-> TRUE, anchor_every |-> 0]
All == {OneByOne} \cup {Nested(p) : p \in Paths} \cup {Paused(p) : p \in Paths}
=============================================================================

------------------------------ MODULE Scoring ------------------------------
(***************************************************************************)
(* Two computations of tc/eval: how a predicted edit is scored             *)
(* (next_edit_benchmark.py), and where the file an answer depends on is    *)
(* put in a long prompt (long_context_benchmark.py).                       *)
(***************************************************************************)
EXTENDS Integers, SequencesExt

(***************************************************************************)
(* Next edits.                                                             *)
(***************************************************************************)

\* Mutant of Cell: a replacement is always paid.
Cell_paid(above, left, diagonal, same) ==
  Min({left + 1, above + 1, diagonal + 1})

Cell(above, left, diagonal, same) ==
  Min({left + 1, above + 1, diagonal + IF same THEN 0 ELSE 1})

\* One row of the table at a time, over the longer text.
_edit_distance(x, y) ==
  LET left  == IF Len(x) < Len(y) THEN y ELSE x
      right == IF Len(x) < Len(y) THEN x ELSE y
      row(previous, i) ==
        FoldLeftDomain(LAMBDA current, j :
          Append(current, Cell(previous[j + 1], Last(current), previous[j], left[i] = right[j])),
          << i >>, right)
  IN Last(FoldLeftDomain(row, [j \in 1 .. Len(right) + 1 |-> j - 1], left))

\* An empty prediction means no edit: the region stays.
evaluate_next_edit_prediction(case, completion) ==
  LET predicted == IF completion = << >> THEN "noop" ELSE "replace" IN
  [text |-> case.prefix \o (IF predicted = "noop" THEN case.region ELSE completion) \o case.suffix,
   action_correct |-> predicted = case.action,
   exact_match |-> completion = case.expected,
   distance |-> _edit_distance(completion, case.expected)]

\* validate_region_and_action
ValidCase(case) ==
  /\ case.action = "noop" => case.expected = << >>
  /\ case.action = "replace" => case.expected \notin {<< >>, case.region}

(***************************************************************************)
(* Long prompts.  head, fillers and rest are the sizes in tokens of what   *)
(* comes before the files, of the filler files and of all the rest; index  *)
(* k names the file the answer depends on.  Files are sorted by name, and  *)
(* the filler of the same index, called ..._component_after_contract,      *)
(* sorts before ..._contract.  That its name is longer is left out.        *)
(***************************************************************************)

Sum(sizes) == FoldLeft(+, 0, sizes)
Marker(prompt, k) ==
  prompt.head + Sum(SubSeq(prompt.fillers, 1, Min({k + 1, Len(prompt.fillers)})))

\* actual_depth - needle_depth, times the tokens of the prompt, in percent.
Deeper(prompt, k) ==
  100 * Marker(prompt, k) - prompt.depth * (prompt.head + Sum(prompt.fillers) + prompt.rest)
Off(prompt, k) == IF Deeper(prompt, k) < 0 THEN -Deeper(prompt, k) ELSE Deeper(prompt, k)

\* The bisection: the positions looked at when it ends, and its bounds.
Bisection(prompt) ==
  LET step(s, turn) ==
        LET mid == (s.lower + s.upper) \div 2 IN
        IF s.lower > s.upper THEN s
        ELSE IF Deeper(prompt, mid) < 0
             THEN [s EXCEPT !.lower = mid + 1, !.seen = @ \cup {mid}]
             ELSE [s EXCEPT !.upper = mid - 1, !.seen = @ \cup {mid}]
  IN FoldLeft(step, [lower |-> 0, upper |-> Len(prompt.fillers), seen |-> {}],
              [turn \in 1 .. Len(prompt.fillers) + 1 |-> turn])

\* Mutant of Positions: only the place where the bisection ended.
Positions_last(prompt) == {Max({0, Bisection(prompt).upper})}

Positions(prompt) ==
  LET b == Bisection(prompt)
  IN b.seen \cup Max({0, b.upper - 1}) .. Min({Len(prompt.fillers), b.lower + 1})

\* min over the positions looked at
positioned(prompt) ==
  CHOOSE k \in Positions(prompt) : \A j \in Positions(prompt) : Off(prompt, k) <= Off(prompt, j)
=============================================================================

------------------------------- MODULE Teacher -------------------------------
(***************************************************************************)
(* Paid generation of training data (tc/teacher): run_generation with its  *)
(* stages, the adapters' requests and retries (openrouter.py, deepseek.py) *)
(* and the budget file all runs share (budget.py).  A run may be killed at *)
(* any moment and started again, and two runs may go on at the same time.  *)
(* The adapters are told no price, so what is recorded for an answer is an *)
(* estimate: its tokens at the peak price, and half as much again.  The    *)
(* provider's bill is what it really charged, at a price of its own.       *)
(* Tokens have one price here, in and out, and money is counted in half    *)
(* units, so that the estimate is a whole number.                          *)
(***************************************************************************)
EXTENDS Integers, FiniteSetsExt, Functions

CONSTANTS
  Runs,           \* processes that generate
  SizeA, SizeB,   \* STAGE_SIZES (10 and 50 in the code)
  MaxStates,      \* max_states
  Tokens,         \* how many tokens an answer may take, prompt and output
  Prices,         \* what the provider may charge for a token
  Peak,           \* ESTIMATED_PRICING_PER_1K
  FirstEstimate,  \* avg_cost before an answer was priced
  SpendCap, ExampleCap,
  Attempts,       \* stop_after_attempt (4 in the code)
  MaxStarts,      \* bound: starts of all runs together
  MaxUnrecorded   \* bound: charges nobody records, all together

ASSUME RunsFinite == IsFiniteSet(Runs)
ASSUME SizesOK  == SizeA \in Nat \ {0} /\ SizeB \in Nat \ {0} /\ MaxStates \in Nat
ASSUME TokensOK == Tokens \subseteq Nat \ {0} /\ IsFiniteSet(Tokens) /\ Tokens # {}
\* "Conservative per-token estimates with a safety margin": the provider's
\* price may be above the peak price known here, but not beyond the margin.
ASSUME PricesOK == Peak \in Nat /\ Prices \subseteq Nat /\ \A q \in Prices : 2 * q <= 3 * Peak
ASSUME CapsOK   == FirstEstimate \in Nat /\ SpendCap \in Nat /\ ExampleCap \in Nat
ASSUME LimitsOK == Attempts \in Nat \ {0} /\ MaxStarts \in Nat /\ MaxUnrecorded \in Nat

VARIABLES
  at,        \* where each run is
  mem,       \* what each run has in memory
  file,      \* budget.json; a missing file reads as nothing spent
  bill,      \* observer: what the provider charged
  lost,      \* observer: charges that are not in the file, by cause
  overlap,   \* observer: two runs went on at the same time
  starts     \* starts so far

vars == << at, mem, file, bill, lost, overlap, starts >>

BudgetState == [spent : Nat, paid : Nat]
Nothing     == [spent |-> 0, paid |-> 0]

\* Spending nobody recorded: charges of requests that timed out, of answers that
\* were malformed or had no token count, of runs that were killed.  Spending
\* that was recorded and then overwritten by another run.
Causes == {"unrecorded", "overwritten"}

Memory ==
  [own : BudgetState,           \* Budget.state
   k : 0 .. MaxStates,          \* states that have a result
   attempt : 0 .. Attempts - 1, \* attempts that failed for the request in progress
   pending : Nat,               \* the estimate for an answer not yet recorded
   due : Nat,                   \* observer: what its reported tokens were charged
   count : Nat, sum : Nat,      \* number and sum of the estimates of good answers
   failed : 0 .. MaxStates,     \* results that are not ok
   good : 0 .. MaxStates,       \* results with an accepted candidate
   goodB : 0 .. MaxStates]      \* observer: of these, the ones of stage B

Fresh(budget) ==
  [own |-> budget, k |-> 0, attempt |-> 0, pending |-> 0, due |-> 0, count |-> 0,
   sum |-> 0, failed |-> 0, good |-> 0, goodB |-> 0]

Active(p) == at[p] # "off"

TypeOK ==
  /\ at \in [Runs -> {"off", "next", "request", "record", "result", "write"}]
  /\ mem \in [Runs -> Memory] /\ file \in BudgetState
  /\ bill \in Nat /\ lost \in [Causes -> Int]
  /\ overlap \in BOOLEAN /\ starts \in 0 .. MaxStarts

Init ==
  /\ at = [p \in Runs |-> "off"] /\ mem = [p \in Runs |-> Fresh(Nothing)]
  /\ file = Nothing
  /\ bill = 0 /\ lost = [c \in Causes |-> 0]
  /\ overlap = FALSE /\ starts = 0

\* schedule[i] for i from 0
stage(i) == IF i < SizeA THEN "A" ELSE IF i < SizeA + SizeB THEN "B" ELSE "C"

\* Mutant of _load: the budget starts anew with the process.
_load_nothing == Nothing

_load == file

\* run_generation builds its budget, which reads the file once.
Start(p) ==
  /\ ~Active(p) /\ starts < MaxStarts
  /\ starts' = starts + 1
  /\ at' = [at EXCEPT ![p] = "next"]
  /\ mem' = [mem EXCEPT ![p] = Fresh(_load)]
  /\ overlap' = (overlap \/ \E q \in Runs : Active(q))
  /\ UNCHANGED << file, bill, lost >>

End(p) == at' = [at EXCEPT ![p] = "off"] /\ mem' = [mem EXCEPT ![p] = Fresh(Nothing)]

\* Mutant of can_spend: the number of examples is not looked at.
can_spend_any(m) ==
  IF m.count = 0 THEN m.own.spent + FirstEstimate <= SpendCap
  ELSE m.count * m.own.spent + 2 * m.sum <= m.count * SpendCap

\* can_spend(avg_cost, 1), where avg_cost is twice the mean of the estimates.
can_spend(m) ==
  /\ m.own.paid + 1 <= ExampleCap
  /\ IF m.count = 0 THEN m.own.spent + FirstEstimate <= SpendCap
     ELSE m.count * m.own.spent + 2 * m.sum <= m.count * SpendCap

\* The head of the loop: a request, or the end of the states or of the budget.
Request(p) ==
  /\ at[p] = "next"
  /\ at' = [at EXCEPT ![p] = IF mem[p].k < MaxStates /\ can_spend(mem[p])
                             THEN "request" ELSE "write"]
  /\ mem' = [mem EXCEPT ![p].attempt = 0]
  /\ UNCHANGED << file, bill, lost, overlap, starts >>

Charge(c)     == bill' = bill + c
Unrecorded(c) == /\ lost.unrecorded + c <= MaxUnrecorded \/ c = 0
                 /\ lost' = [lost EXCEPT !["unrecorded"] = @ + c]

\* Mutant of estimate_cost: without the margin.
estimate_bare(tokens) == 2 * tokens * Peak

\* estimate_cost_usd: SAFETY_MARGIN is one and a half, in half units three.
estimate_cost(tokens) == 3 * tokens * Peak

\* What the provider charges for so many tokens.
charge(tokens, price) == 2 * tokens * price
Charges == {charge(t, q) : t \in Tokens, q \in Prices}

\* A good answer of t tokens.  The provider reports n of them: a missing count
\* is taken for zero.
Answered(p, t, n, price) ==
  /\ at[p] = "request"
  /\ Charge(charge(t, price))
  /\ at' = [at EXCEPT ![p] = "record"]
  /\ mem' = [mem EXCEPT ![p].pending = estimate_cost(n), ![p].due = charge(n, price)]
  /\ Unrecorded(charge(t - n, price))
  /\ UNCHANGED << file, overlap, starts >>

\* Mutant of again: one attempt more.
again_once_more(m) == m.attempt < Attempts

again(m) == m.attempt + 1 < Attempts

\* A request that came to nothing and cost c: an answer with malformed JSON, an
\* error status (which costs nothing), a time-out that may have been answered
\* all the same.  The last two may be tried again; otherwise the result is not ok.
Failed(p, c, retryable) ==
  /\ at[p] = "request"
  /\ Charge(c) /\ Unrecorded(c)
  /\ IF retryable /\ again(mem[p])
     THEN /\ mem' = [mem EXCEPT ![p].attempt = @ + 1]
          /\ UNCHANGED at
     ELSE /\ mem' = [mem EXCEPT ![p].failed = @ + 1, ![p].k = @ + 1]
          /\ at' = [at EXCEPT ![p] = "result"]
  /\ UNCHANGED << file, overlap, starts >>

spend(m) == [spent |-> m.own.spent + m.pending, paid |-> m.own.paid + 1]

\* budget.record: the run's copy of the budget replaces the file, whatever
\* another run has written there; and the answer becomes a result.
record(p) ==
  LET m == mem[p] IN
  /\ at[p] = "record"
  /\ at' = [at EXCEPT ![p] = "result"]
  /\ file' = spend(m)
  /\ lost' = [lost EXCEPT !["overwritten"] = @ + file.spent - m.own.spent]
  /\ \E accepted \in {0, 1} :
       mem' = [mem EXCEPT ![p] =
                 [m EXCEPT !.own = spend(m), !.pending = 0, !.due = 0, !.k = @ + 1,
                           !.count = @ + 1, !.sum = @ + m.pending,
                           !.good = @ + accepted,
                           !.goodB = IF stage(m.k) = "B" THEN @ + accepted ELSE @]]
  /\ UNCHANGED << bill, overlap, starts >>

\* After the last state of stage A every result must be ok.
UnhealthyA(m) == m.k = SizeA /\ MaxStates > SizeA /\ m.failed > 0

\* After the last state of stage B, 90% of the results must be good: those of
\* stage A are counted in, but the share is taken of the size of stage B.
UnhealthyB(m) == m.k = SizeA + SizeB /\ 10 * m.good < 9 * SizeB

\* The end of the loop's body; an unhealthy stage raises and ends the run.
Check(p) ==
  /\ at[p] = "result"
  /\ IF UnhealthyA(mem[p]) \/ UnhealthyB(mem[p])
     THEN End(p)
     ELSE at' = [at EXCEPT ![p] = "next"] /\ UNCHANGED mem
  /\ UNCHANGED << file, bill, lost, overlap, starts >>

\* The results are written, all at once.
Write(p) ==
  /\ at[p] = "write"
  /\ End(p)
  /\ UNCHANGED << file, bill, lost, overlap, starts >>

\* The run is killed.  The request it waits for may be charged all the same.
Kill(p, c) ==
  /\ Active(p) /\ (c > 0 => at[p] = "request")
  /\ End(p)
  /\ Charge(c) /\ Unrecorded(c + mem[p].due)
  /\ UNCHANGED << file, overlap, starts >>

Next ==
  \E p \in Runs :
    \/ Start(p) \/ Request(p) \/ record(p) \/ Check(p) \/ Write(p)
    \/ \E t \in Tokens, price \in Prices : \E n \in 0 .. t : Answered(p, t, n, price)
    \/ \E c \in Charges \cup {0}, retryable \in BOOLEAN : Failed(p, c, retryable)
    \/ \E c \in Charges \cup {0} : Kill(p, c)

Spec == Init /\ [][Next]_vars

-----------------------------------------------------------------------------
(***************************************************************************)
(* Properties.                                                             *)
(***************************************************************************)

\* The highest estimate for one answer.
OneAnswer == estimate_cost(Max(Tokens))

\* What is recorded goes beyond the cap by less than the estimate for one answer,
\* in the file and in the copy of every run, whichever runs overlap or are
\* killed; the number of examples never goes beyond its cap (can_spend, record).
RecordedWithinCap ==
  /\ file.paid <= ExampleCap
  /\ \A p \in Runs : /\ mem[p].own.paid + (IF at[p] = "record" THEN 1 ELSE 0) <= ExampleCap
                     /\ mem[p].own.spent + mem[p].pending <= SpendCap + OneAnswer
  /\ file.spent <= SpendCap + OneAnswer

Total(amounts) == FoldFunction(+, 0, amounts)

\* The estimates cover the bill: what the provider charged is at most what the
\* file holds, what was charged for answers about to be recorded, and what was
\* lost for one of the known causes; and runs that do not overlap lose nothing to
\* each other (estimate_cost_usd, record, _load).  It rests on the price of a
\* token being within the margin.
BillCovered ==
  /\ bill <= file.spent + Total([p \in Runs |-> mem[p].due])
                       + lost.unrecorded + lost.overwritten
  /\ ~overlap => lost.overwritten = 0

\* budget.py: a restarted process cannot reset the budget.  As long as one run
\* at a time is active, what is recorded only grows, across kills and restarts.
RestartKeepsBudget ==
  [][~overlap' => file'.spent >= file.spent /\ file'.paid >= file.paid]_vars

\* generate.py: stage B requires 90% schema success before stage C begins.
HealthyBBeforeC ==
  \A p \in Runs : at[p] = "request" /\ stage(mem[p].k) = "C" => 10 * mem[p].goodB >= 9 * SizeB
=============================================================================

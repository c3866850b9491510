---------------------------- MODULE Teacher_proofs ----------------------------
(***************************************************************************)
(* Proofs about Teacher: its invariants, the account of what the provider  *)
(* charged included, and that a restart does not reset the budget, for any *)
(* number of runs, tokens, prices, caps, kills and failures.               *)
(***************************************************************************)
EXTENDS Teacher, Basics_proofs

\* How much of the states a run has done.
Counting ==
  \A p \in Runs : /\ mem[p].failed <= mem[p].k /\ mem[p].good <= mem[p].k
                  /\ mem[p].goodB <= mem[p].k
                  /\ at[p] \in {"request", "record"} => mem[p].k < MaxStates

\* An estimate is kept only until it is recorded, is that of one answer, and covers
\* what was charged for the tokens it counts.
Pending ==
  \A p \in Runs : /\ mem[p].pending # 0 => at[p] = "record"
                  /\ mem[p].pending <= OneAnswer
                  /\ mem[p].due <= mem[p].pending

\* A run that asks for an answer, or has one to record, was within its caps
\* before that answer (can_spend).
Allowed ==
  \A p \in Runs : at[p] \in {"request", "record"} =>
    mem[p].own.spent <= SpendCap /\ mem[p].own.paid + 1 <= ExampleCap

\* A run that has been alone so far has the budget of the file.
Alone ==
  ~overlap => /\ \A p, q \in Runs : Active(p) /\ Active(q) => p = q
              /\ \A p \in Runs : Active(p) => mem[p].own = file

\* The inductive invariant.
IInv ==
  /\ TypeOK /\ Counting /\ Pending /\ Allowed /\ Alone
  /\ RecordedWithinCap /\ BillCovered

-----------------------------------------------------------------------------
\* What was charged for the answers the runs have yet to record.
NotRecorded == [p \in Runs |-> mem[p].due]

\* A product grows with its first factor.
LEMMA Multiplied ==
  ASSUME NEW a \in Nat, NEW b \in Nat, NEW c \in Nat, a <= b
  PROVE  a * c <= b * c
<1>1. (b - a) \in Nat /\ (b - a) * c \in Nat /\ b * c = (b - a) * c + a * c
  OBVIOUS
<1>2. a * c \in Nat /\ b * c \in Nat
  OBVIOUS
<1>3. QED
  BY <1>1, <1>2

\* No answer has a higher estimate than the longest one.
LEMMA HighestEstimate ==
  /\ OneAnswer \in Nat
  /\ \A t \in Tokens : \A n \in 0 .. t :
       /\ t \in Nat /\ n \in Nat /\ t - n \in Nat
       /\ estimate_cost(n) \in Nat /\ estimate_cost(n) <= OneAnswer
<1>1. Tokens \subseteq Int
  BY TokensOK
<1>2. Max(Tokens) \in Tokens /\ \A t \in Tokens : Max(Tokens) >= t
  BY Zenon, <1>1, TokensOK, MaxIsLargest
<1>3. Max(Tokens) \in Nat /\ Peak \in Nat
  BY <1>2, TokensOK, PricesOK
<1>4. OneAnswer \in Nat
  BY <1>3 DEF OneAnswer, estimate_cost
<1>5. ASSUME NEW t \in Tokens, NEW n \in 0 .. t
      PROVE  /\ t \in Nat /\ n \in Nat /\ t - n \in Nat
             /\ estimate_cost(n) \in Nat /\ estimate_cost(n) <= OneAnswer
  <2>1. t \in Nat /\ n \in Nat /\ t - n \in Nat /\ n <= Max(Tokens)
    BY <1>2, <1>3, TokensOK
  <2>2. n * Peak <= Max(Tokens) * Peak
    BY <1>3, <2>1, Multiplied
  <2>3. QED
    BY <1>3, <2>1, <2>2 DEF OneAnswer, estimate_cost
<1>6. QED
  BY <1>4, <1>5

\* The margin covers the provider's price (PricesOK): so many tokens cost at most
\* their estimate.
LEMMA EstimateCovers ==
  ASSUME NEW n \in Nat, NEW price \in Prices
  PROVE  charge(n, price) \in Nat /\ charge(n, price) <= estimate_cost(n)
<1>1. price \in Nat /\ Peak \in Nat /\ 2 * price <= 3 * Peak
  BY PricesOK
<1>2. (2 * price) * n <= (3 * Peak) * n
  BY <1>1, Multiplied
<1>3. (2 * price) * n = 2 * n * price /\ (3 * Peak) * n = 3 * n * Peak /\ 2 * n * price \in Nat
  BY <1>1
<1>4. QED
  BY <1>2, <1>3 DEF charge, estimate_cost

\* What the provider may charge is a natural number.
LEMMA ChargesOK == \A c \in Charges \cup {0} : c \in Nat
  BY TokensOK, PricesOK DEF Charges, charge

\* When one amount changes, the total changes by the difference.
LEMMA TotalUpdate ==
  ASSUME NEW f \in [Runs -> Nat], NEW p \in Runs, NEW v \in Nat
  PROVE  Total(f) \in Nat /\ Total([f EXCEPT ![p] = v]) = Total(f) - f[p] + v
<1>1. Total(f) \in Nat
  BY Zenon, RunsFinite, SumBounds DEF Total
<1>2. Total([f EXCEPT ![p] = v]) = Total(f) - f[p] + v
  BY Zenon, RunsFinite, SumUpdate DEF Total
<1>3. QED
  BY <1>1, <1>2

\* When one run changes what it has not recorded, the total changes by that.
LEMMA TotalStep ==
  ASSUME mem \in [Runs -> Memory], NEW p \in Runs, NEW m \in Memory,
         mem' = [mem EXCEPT ![p] = m]
  PROVE  /\ Total(NotRecorded) \in Nat
         /\ Total(NotRecorded)' = Total(NotRecorded) - mem[p].due + m.due
<1>1. NotRecorded \in [Runs -> Nat] /\ NotRecorded[p] = mem[p].due /\ m.due \in Nat
  BY DEF Memory, NotRecorded
<1>2. NotRecorded' = [NotRecorded EXCEPT ![p] = m.due]
  BY Zenon DEF Memory, NotRecorded
<1>3. QED
  BY Zenon, <1>1, <1>2, TotalUpdate

\* What a step of one run has to show: after it the run's position x and its
\* memory m are consistent, and every charge is accounted for.
LEMMA RunStep ==
  ASSUME IInv, NEW p \in Runs, NEW m \in Memory,
         NEW x \in {"off", "next", "request", "record", "result", "write"},
         mem' = [mem EXCEPT ![p] = m], at' = [at EXCEPT ![p] = x],
         m.failed <= m.k, m.good <= m.k, m.goodB <= m.k,
         x \in {"request", "record"} =>
           m.k < MaxStates /\ m.own.spent <= SpendCap /\ m.own.paid + 1 <= ExampleCap,
         m.pending # 0 => x = "record", m.pending <= OneAnswer, m.due <= m.pending,
         m.own.paid <= ExampleCap, m.own.spent + m.pending <= SpendCap + OneAnswer,
         file' \in BudgetState, file'.paid <= ExampleCap,
         file'.spent <= SpendCap + OneAnswer,
         bill' \in Nat, lost' \in [Causes -> Int], overlap' \in BOOLEAN,
         starts' \in 0 .. MaxStarts, Alone', ~overlap' => lost'.overwritten = 0,
         bill' <= bill + (file'.spent - file.spent) + (m.due - mem[p].due)
                       + (lost'.unrecorded - lost.unrecorded)
                       + (lost'.overwritten - lost.overwritten)
  PROVE  IInv'
<1>1. mem \in [Runs -> Memory] /\ at \in [Runs -> {"off", "next", "request", "record", "result", "write"}]
  BY DEF IInv, TypeOK
<1>2. mem'[p] = m /\ at'[p] = x /\ \A q \in Runs : q # p => mem'[q] = mem[q] /\ at'[q] = at[q]
  BY <1>1
<1>3. TypeOK'
  BY <1>1 DEF TypeOK
<1>4. Counting'
  BY <1>2 DEF IInv, Counting
<1>5. Pending'
  BY <1>2 DEF IInv, Pending
<1>6. Allowed'
  BY <1>2 DEF IInv, Allowed
<1>7. RecordedWithinCap'
  <2>1. ASSUME NEW q \in Runs
        PROVE  /\ mem'[q].own.paid + (IF at'[q] = "record" THEN 1 ELSE 0) <= ExampleCap
               /\ mem'[q].own.spent + mem'[q].pending <= SpendCap + OneAnswer
    <3>1. CASE q # p
      BY <1>2, <3>1 DEF IInv, RecordedWithinCap
    <3>2. CASE q = p
      <4>1. m.own.paid \in Nat
        BY DEF Memory, BudgetState
      <4>2. QED
        BY <1>2, <3>2, <4>1
    <3>3. QED
      BY <3>1, <3>2
  <2>2. QED
    BY <2>1 DEF RecordedWithinCap
<1>8. BillCovered'
  <2>1. Total(NotRecorded) \in Nat /\ Total(NotRecorded)' = Total(NotRecorded) - mem[p].due + m.due
    BY Zenon, <1>1, TotalStep
  <2>2. bill <= file.spent + Total(NotRecorded) + lost.unrecorded + lost.overwritten
    BY DEF IInv, BillCovered, NotRecorded
  <2>3. /\ bill \in Nat /\ file.spent \in Nat /\ lost.unrecorded \in Int /\ lost.overwritten \in Int
        /\ file'.spent \in Nat /\ lost'.unrecorded \in Int /\ lost'.overwritten \in Int
        /\ m.due \in Nat /\ mem[p].due \in Nat
    BY <1>1 DEF IInv, TypeOK, BudgetState, Causes, Memory
  <2>4. bill' <= file'.spent + Total(NotRecorded)' + lost'.unrecorded + lost'.overwritten
    BY <2>1, <2>2, <2>3
  <2>5. QED
    BY <2>4 DEF BillCovered, NotRecorded
<1>9. QED
  BY <1>3, <1>4, <1>5, <1>6, <1>7, <1>8 DEF IInv

\* A run that was alone still is after a step in which it neither starts nor
\* writes the file.
LEMMA StaysAlone ==
  ASSUME IInv, NEW p \in Runs, NEW m \in Memory,
         NEW x \in {"off", "next", "request", "record", "result", "write"},
         mem' = [mem EXCEPT ![p] = m], at' = [at EXCEPT ![p] = x],
         UNCHANGED << file, overlap >>, x # "off" => Active(p) /\ m.own = mem[p].own
  PROVE  Alone'
<1>1. mem \in [Runs -> Memory] /\ at \in [Runs -> {"off", "next", "request", "record", "result", "write"}]
  BY DEF IInv, TypeOK
<1>2. QED
  BY <1>1 DEF IInv, Alone, Active

\* The memory of a run and its numbers.
LEMMA MemoryOf ==
  ASSUME IInv, NEW p \in Runs
  PROVE  /\ mem[p] \in Memory
         /\ at[p] \in {"off", "next", "request", "record", "result", "write"}
         /\ mem[p].own \in BudgetState
         /\ mem[p].own.spent \in Nat /\ mem[p].own.paid \in Nat
         /\ mem[p].k \in 0 .. MaxStates /\ mem[p].attempt \in 0 .. Attempts - 1
         /\ mem[p].pending \in Nat /\ mem[p].count \in Nat /\ mem[p].sum \in Nat
         /\ mem[p].failed \in 0 .. MaxStates /\ mem[p].good \in 0 .. MaxStates
         /\ mem[p].goodB \in 0 .. MaxStates
         /\ mem[p].failed <= mem[p].k /\ mem[p].good <= mem[p].k /\ mem[p].goodB <= mem[p].k
         /\ at[p] \in {"request", "record"} =>
              /\ mem[p].k < MaxStates
              /\ mem[p].own.spent <= SpendCap /\ mem[p].own.paid + 1 <= ExampleCap
         /\ mem[p].pending # 0 => at[p] = "record"
         /\ mem[p].pending <= OneAnswer
         /\ mem[p].due \in Nat /\ mem[p].due <= mem[p].pending
         /\ mem[p].own.paid <= ExampleCap
         /\ mem[p].own.spent + mem[p].pending <= SpendCap + OneAnswer
<1>1. mem[p] \in Memory /\ at[p] \in {"off", "next", "request", "record", "result", "write"}
  BY DEF IInv, TypeOK
<1>2. mem[p].own.paid \in Nat
  BY <1>1 DEF Memory, BudgetState
<1>3. mem[p].own.paid + (IF at[p] = "record" THEN 1 ELSE 0) <= ExampleCap
  BY DEF IInv, RecordedWithinCap
<1>4. mem[p].own.paid <= ExampleCap
  BY <1>2, <1>3, CapsOK
<1>5. QED
  BY <1>1, <1>2, <1>4 DEF Memory, BudgetState, IInv, Counting, Pending, Allowed, RecordedWithinCap

\* The variables all runs share, and what holds of them.
LEMMA SharedOK ==
  ASSUME IInv
  PROVE  /\ file \in BudgetState /\ bill \in Nat /\ lost \in [Causes -> Int]
         /\ file.spent \in Nat /\ file.paid \in Nat
         /\ lost.unrecorded \in Int /\ lost.overwritten \in Int
         /\ overlap \in BOOLEAN /\ starts \in 0 .. MaxStarts
         /\ file.paid <= ExampleCap /\ file.spent <= SpendCap + OneAnswer
         /\ ~overlap => lost.overwritten = 0
  BY DEF IInv, TypeOK, BudgetState, Causes, RecordedWithinCap, BillCovered

-----------------------------------------------------------------------------
\* Nothing of a run that is over stays in memory.
LEMMA FreshOK ==
  ASSUME NEW budget \in BudgetState
  PROVE  /\ Fresh(budget) \in Memory /\ Fresh(budget).own = budget
         /\ Fresh(budget).k = 0 /\ Fresh(budget).pending = 0 /\ Fresh(budget).due = 0
         /\ Fresh(budget).failed = 0 /\ Fresh(budget).good = 0 /\ Fresh(budget).goodB = 0
  BY SizesOK, LimitsOK DEF Fresh, Memory

\* What a missing file reads as.
LEMMA NothingOK ==
  Nothing \in BudgetState /\ Nothing.spent = 0 /\ Nothing.paid = 0
  BY DEF Nothing, BudgetState

\* A mean that fits under the cap leaves what was spent under the cap.
LEMMA UnderMean ==
  ASSUME NEW n \in Nat, n > 0, NEW a \in Nat, NEW b \in Nat, NEW d \in Nat,
         n * a + d <= n * b
  PROVE  a <= b
<1>1. SUFFICES ASSUME a >= b + 1 PROVE FALSE
  OBVIOUS
<1>2. n * a >= n * (b + 1)
  BY <1>1
<1>3. n * (b + 1) = n * b + n
  OBVIOUS
<1>4. n * a \in Nat /\ n * b \in Nat
  OBVIOUS
<1>5. QED
  BY <1>2, <1>3, <1>4

\* can_spend lets a request be made only within both caps.
LEMMA CanSpend ==
  ASSUME IInv, NEW p \in Runs, can_spend(mem[p])
  PROVE  mem[p].own.spent <= SpendCap /\ mem[p].own.paid + 1 <= ExampleCap
<1>1. /\ mem[p].count \in Nat /\ mem[p].sum \in Nat /\ mem[p].own.spent \in Nat
      /\ SpendCap \in Nat /\ FirstEstimate \in Nat
  BY MemoryOf, CapsOK
<1>2. mem[p].own.paid + 1 <= ExampleCap
  BY DEF can_spend
<1>3. CASE mem[p].count = 0
  BY <1>1, <1>2, <1>3 DEF can_spend
<1>4. CASE mem[p].count # 0
  <2>1. mem[p].count * mem[p].own.spent + 2 * mem[p].sum <= mem[p].count * SpendCap
    BY <1>4 DEF can_spend
  <2>2. mem[p].count > 0 /\ 2 * mem[p].sum \in Nat
    BY <1>1, <1>4
  <2>3. mem[p].own.spent <= SpendCap
    BY <1>1, <2>1, <2>2, UnderMean
  <2>4. QED
    BY <1>2, <2>3
<1>5. QED
  BY <1>3, <1>4

\* A run starts with the budget of the file (_load); another one may be active.
LEMMA StartKeeps ==
  ASSUME IInv, NEW p \in Runs, Start(p)
  PROVE  IInv'
<1> DEFINE m == Fresh(file)
<1>1. /\ ~Active(p) /\ starts < MaxStarts /\ starts' = starts + 1
      /\ at' = [at EXCEPT ![p] = "next"] /\ mem' = [mem EXCEPT ![p] = m]
      /\ overlap' = (overlap \/ \E q \in Runs : Active(q))
      /\ UNCHANGED << file, bill, lost >>
  BY DEF Start, _load
<1>2. /\ m \in Memory /\ m.own = file /\ m.k = 0 /\ m.pending = 0 /\ m.due = 0
      /\ m.failed = 0 /\ m.good = 0 /\ m.goodB = 0
  BY FreshOK, SharedOK
<1>3. mem[p].pending = 0 /\ mem[p].due = 0
  BY <1>1, MemoryOf DEF Active
<1> HIDE DEF m
<1>4. Alone'
  BY Zenon, <1>1, <1>2 DEF Alone, Active, IInv, TypeOK
<1>5. starts' \in 0 .. MaxStarts /\ overlap' \in BOOLEAN /\ (~overlap' => lost'.overwritten = 0)
  BY <1>1, SharedOK, LimitsOK
<1>6. bill' <= bill + (file'.spent - file.spent) + (m.due - mem[p].due)
                   + (lost'.unrecorded - lost.unrecorded) + (lost'.overwritten - lost.overwritten)
  BY <1>1, <1>2, <1>3, SharedOK
<1>7. /\ m.failed <= m.k /\ m.good <= m.k /\ m.goodB <= m.k /\ m.pending <= OneAnswer
      /\ m.own.paid <= ExampleCap /\ m.own.spent + m.pending <= SpendCap + OneAnswer
      /\ file' \in BudgetState /\ file'.paid <= ExampleCap
      /\ file'.spent <= SpendCap + OneAnswer /\ bill' \in Nat /\ lost' \in [Causes -> Int]
  BY <1>1, <1>2, SharedOK, HighestEstimate
<1>8. "next" \in {"off", "next", "request", "record", "result", "write"}
      /\ "next" \notin {"request", "record"}
  OBVIOUS
<1>9. QED
  BY Zenon, <1>1, <1>2, <1>4, <1>5, <1>6, <1>7, <1>8, RunStep

\* The head of the loop asks for an answer only within the caps (can_spend).
LEMMA RequestKeeps ==
  ASSUME IInv, NEW p \in Runs, Request(p)
  PROVE  IInv'
<1> DEFINE m == [mem[p] EXCEPT !.attempt = 0]
           x == IF mem[p].k < MaxStates /\ can_spend(mem[p]) THEN "request" ELSE "write"
<1>1. /\ at[p] = "next" /\ at' = [at EXCEPT ![p] = x] /\ mem' = [mem EXCEPT ![p] = m]
      /\ UNCHANGED << file, bill, lost, overlap, starts >>
  BY DEF Request
<1>2. /\ m \in Memory /\ m.own = mem[p].own /\ m.k = mem[p].k /\ m.pending = mem[p].pending
      /\ m.due = mem[p].due
      /\ m.failed = mem[p].failed /\ m.good = mem[p].good /\ m.goodB = mem[p].goodB
  BY MemoryOf, LimitsOK DEF Memory
<1>3. x \in {"request", "write"} /\ (x = "request" => mem[p].k < MaxStates /\ can_spend(mem[p]))
  OBVIOUS
<1> HIDE DEF m, x
<1>4. mem[p].pending = 0 /\ mem[p].due = 0
  BY <1>1, MemoryOf
<1>5. Alone'
  BY Zenon, <1>1, <1>2, <1>3, StaysAlone DEF Active
<1>6. x = "request" => mem[p].own.spent <= SpendCap /\ mem[p].own.paid + 1 <= ExampleCap
  BY <1>3, CanSpend
<1>7. bill' <= bill + (file'.spent - file.spent) + (m.due - mem[p].due)
                   + (lost'.unrecorded - lost.unrecorded) + (lost'.overwritten - lost.overwritten)
  BY <1>1, <1>2, <1>4, SharedOK
<1>8. QED
  BY Zenon, <1>1, <1>2, <1>3, <1>4, <1>5, <1>6, <1>7, MemoryOf, SharedOK, RunStep

\* What lost becomes when a charge is not recorded.
LEMMA UnrecordedOK ==
  ASSUME IInv, NEW c \in Nat, Unrecorded(c)
  PROVE  /\ lost' \in [Causes -> Int] /\ lost'.overwritten = lost.overwritten
         /\ lost'.unrecorded = lost.unrecorded + c
<1>1. lost \in [Causes -> Int] /\ lost.unrecorded \in Int
  BY SharedOK
<1>2. lost' = [lost EXCEPT !["unrecorded"] = lost.unrecorded + c]
  BY DEF Unrecorded
<1>3. QED
  BY <1>1, <1>2 DEF Causes

\* An answer is recorded next, at the estimate for the tokens it reports.
LEMMA AnsweredKeeps ==
  ASSUME IInv, NEW p \in Runs, NEW t \in Tokens, NEW price \in Prices, NEW n \in 0 .. t,
         Answered(p, t, n, price)
  PROVE  IInv'
<1> DEFINE e == estimate_cost(n)
           d == charge(n, price)
           missed == charge(t - n, price)
           m == [mem[p] EXCEPT !.pending = e, !.due = d]
<1>1. /\ at[p] = "request" /\ at' = [at EXCEPT ![p] = "record"] /\ mem' = [mem EXCEPT ![p] = m]
      /\ bill' = bill + charge(t, price) /\ Unrecorded(missed)
      /\ UNCHANGED << file, overlap, starts >>
  BY DEF Answered, Charge
<1>2. t \in Nat /\ n \in Nat /\ t - n \in Nat /\ price \in Nat
  BY HighestEstimate, PricesOK
<1>3. e \in Nat /\ e <= OneAnswer /\ OneAnswer \in Nat /\ d \in Nat /\ d <= e /\ missed \in Nat
  BY <1>2, HighestEstimate, EstimateCovers
<1>4. charge(t, price) \in Nat /\ charge(t, price) = d + missed
  BY <1>2 DEF charge
<1>5. /\ m \in Memory /\ m.own = mem[p].own /\ m.k = mem[p].k /\ m.pending = e /\ m.due = d
      /\ m.failed = mem[p].failed /\ m.good = mem[p].good /\ m.goodB = mem[p].goodB
  BY Zenon, <1>3, MemoryOf DEF Memory
<1> HIDE DEF m, e, d, missed
<1>6. /\ lost' \in [Causes -> Int] /\ lost'.overwritten = lost.overwritten
      /\ lost'.unrecorded = lost.unrecorded + missed
  BY <1>1, <1>3, UnrecordedOK
<1>7. Alone'
  BY Zenon, <1>1, <1>5, StaysAlone DEF Active
<1>8. mem[p].pending = 0 /\ mem[p].due = 0
  BY <1>1, MemoryOf
<1>9. bill' <= bill + (file'.spent - file.spent) + (m.due - mem[p].due)
                    + (lost'.unrecorded - lost.unrecorded) + (lost'.overwritten - lost.overwritten)
  BY <1>1, <1>3, <1>4, <1>5, <1>6, <1>8, SharedOK
<1>10. /\ m.failed <= m.k /\ m.good <= m.k /\ m.goodB <= m.k /\ m.own.paid <= ExampleCap
       /\ m.k < MaxStates /\ m.own.spent <= SpendCap /\ m.own.paid + 1 <= ExampleCap
       /\ m.pending <= OneAnswer /\ m.due <= m.pending
       /\ m.own.spent + m.pending <= SpendCap + OneAnswer
  BY <1>1, <1>3, <1>5, MemoryOf, CapsOK
<1>11. /\ bill' \in Nat /\ file' \in BudgetState /\ file'.paid <= ExampleCap
       /\ file'.spent <= SpendCap + OneAnswer /\ overlap' \in BOOLEAN
       /\ starts' \in 0 .. MaxStarts /\ (~overlap' => lost'.overwritten = 0)
  BY <1>1, <1>4, <1>6, SharedOK
<1>12. QED
  BY Zenon, <1>1, <1>5, <1>6, <1>7, <1>9, <1>10, <1>11, RunStep

\* A request that failed is tried again, or is a result that is not ok.
LEMMA FailedKeeps ==
  ASSUME IInv, NEW p \in Runs, NEW c \in Charges \cup {0}, NEW retryable \in BOOLEAN,
         Failed(p, c, retryable)
  PROVE  IInv'
<1>1. /\ at[p] = "request" /\ bill' = bill + c /\ Unrecorded(c)
      /\ UNCHANGED << file, overlap, starts >>
  BY DEF Failed, Charge
<1>2. c \in Nat
  BY ChargesOK
<1>3. /\ lost' \in [Causes -> Int] /\ lost'.overwritten = lost.overwritten
      /\ lost'.unrecorded = lost.unrecorded + c
  BY <1>1, <1>2, UnrecordedOK
<1>4. mem[p].pending = 0 /\ mem[p].due = 0
  BY <1>1, MemoryOf
<1>5. bill' \in Nat /\ file' \in BudgetState /\ file'.paid <= ExampleCap
      /\ file'.spent <= SpendCap + OneAnswer /\ overlap' \in BOOLEAN
      /\ starts' \in 0 .. MaxStarts /\ (~overlap' => lost'.overwritten = 0)
      /\ bill' <= bill + (file'.spent - file.spent) + (0 - mem[p].due)
                       + (lost'.unrecorded - lost.unrecorded)
                      + (lost'.overwritten - lost.overwritten)
  BY <1>1, <1>2, <1>3, <1>4, SharedOK
<1>6. CASE retryable /\ again(mem[p])
  <2> DEFINE m == [mem[p] EXCEPT !.attempt = @ + 1]
  <2>1. mem' = [mem EXCEPT ![p] = m] /\ at' = [at EXCEPT ![p] = "request"]
    BY <1>1, <1>6 DEF Failed, IInv, TypeOK
  <2>2. mem[p].attempt + 1 \in 0 .. Attempts - 1
    BY <1>6, MemoryOf, LimitsOK DEF again
  <2>3. /\ m \in Memory /\ m.own = mem[p].own /\ m.k = mem[p].k /\ m.pending = 0 /\ m.due = 0
        /\ m.failed = mem[p].failed /\ m.good = mem[p].good /\ m.goodB = mem[p].goodB
    BY <1>4, <2>2, MemoryOf DEF Memory
  <2> HIDE DEF m
  <2>4. Alone'
    BY Zenon, <1>1, <2>1, <2>3, StaysAlone DEF Active
  <2>5. /\ m.failed <= m.k /\ m.good <= m.k /\ m.goodB <= m.k /\ m.own.paid <= ExampleCap
        /\ m.k < MaxStates /\ m.own.spent <= SpendCap /\ m.own.paid + 1 <= ExampleCap
        /\ m.pending <= OneAnswer /\ m.due <= m.pending
        /\ m.own.spent + m.pending <= SpendCap + OneAnswer
    BY <1>1, <1>4, <2>3, MemoryOf
  <2>6. QED
    BY Zenon, <1>3, <1>5, <2>1, <2>3, <2>4, <2>5, RunStep
<1>7. CASE ~(retryable /\ again(mem[p]))
  <2> DEFINE m == [mem[p] EXCEPT !.failed = @ + 1, !.k = @ + 1]
  <2>1. mem' = [mem EXCEPT ![p] = m] /\ at' = [at EXCEPT ![p] = "result"]
    BY Zenon, <1>7 DEF Failed
  <2>2. mem[p].k + 1 \in 0 .. MaxStates /\ mem[p].failed + 1 \in 0 .. MaxStates
    BY <1>1, MemoryOf, SizesOK
  <2>3. /\ m \in Memory /\ m.own = mem[p].own /\ m.k = mem[p].k + 1 /\ m.pending = 0 /\ m.due = 0
        /\ m.failed = mem[p].failed + 1 /\ m.good = mem[p].good /\ m.goodB = mem[p].goodB
    BY ZenonT(40), <1>4, <2>2, MemoryOf DEF Memory
  <2> HIDE DEF m
  <2>4. Alone'
    BY Zenon, <1>1, <2>1, <2>3, StaysAlone DEF Active
  <2>5. /\ m.failed <= m.k /\ m.good <= m.k /\ m.goodB <= m.k /\ m.own.paid <= ExampleCap
        /\ m.pending <= OneAnswer /\ m.due <= m.pending
        /\ m.own.spent + m.pending <= SpendCap + OneAnswer
    BY <1>4, <2>3, MemoryOf
  <2>6. QED
    BY Zenon, <1>3, <1>5, <2>1, <2>3, <2>4, <2>5, RunStep
<1>8. QED
  BY <1>6, <1>7

\* The run's copy of the budget replaces the file; what another run had written
\* there since is lost, and counted as that.
LEMMA recordKeeps ==
  ASSUME IInv, NEW p \in Runs, record(p)
  PROVE  IInv'
<1>1. PICK accepted \in {0, 1} :
        mem' = [mem EXCEPT ![p] =
                  [mem[p] EXCEPT !.own = spend(mem[p]), !.pending = 0, !.due = 0, !.k = @ + 1,
                                 !.count = @ + 1, !.sum = @ + mem[p].pending,
                                 !.good = @ + accepted,
                                 !.goodB = IF stage(mem[p].k) = "B" THEN @ + accepted ELSE @]]
  BY Zenon DEF record
<1> DEFINE m == [mem[p] EXCEPT !.own = spend(mem[p]), !.pending = 0, !.due = 0, !.k = @ + 1,
                               !.count = @ + 1, !.sum = @ + mem[p].pending,
                               !.good = @ + accepted,
                               !.goodB = IF stage(mem[p].k) = "B" THEN @ + accepted ELSE @]
<1>2. /\ at[p] = "record" /\ at' = [at EXCEPT ![p] = "result"] /\ file' = spend(mem[p])
      /\ lost' = [lost EXCEPT !["overwritten"] = @ + file.spent - mem[p].own.spent]
      /\ UNCHANGED << bill, overlap, starts >>
  BY DEF record
<1> DEFINE b == spend(mem[p])
<1>3. /\ b \in BudgetState /\ b.spent = mem[p].own.spent + mem[p].pending
      /\ b.paid = mem[p].own.paid + 1
  BY MemoryOf DEF spend, BudgetState
<1>4. /\ mem[p].k + 1 \in 0 .. MaxStates /\ mem[p].good + accepted \in 0 .. MaxStates
      /\ mem[p].goodB + accepted \in 0 .. MaxStates
      /\ mem[p].count + 1 \in Nat /\ mem[p].sum + mem[p].pending \in Nat
  BY <1>2, MemoryOf, SizesOK
<1>5. /\ m \in Memory /\ m.own = b /\ m.k = mem[p].k + 1 /\ m.pending = 0 /\ m.due = 0
      /\ m.failed = mem[p].failed /\ m.good = mem[p].good + accepted
      /\ m.goodB \in {mem[p].goodB, mem[p].goodB + accepted}
  BY Zenon, <1>3, <1>4, MemoryOf DEF Memory
<1>6. mem' = [mem EXCEPT ![p] = m] /\ file' = b
  BY <1>1, <1>2
<1> HIDE DEF m, b
<1>7. /\ lost' \in [Causes -> Int] /\ lost'.unrecorded = lost.unrecorded
      /\ lost'.overwritten = lost.overwritten + file.spent - mem[p].own.spent
  <2>1. lost \in [Causes -> Int] /\ lost.overwritten + file.spent - mem[p].own.spent \in Int
    BY SharedOK, MemoryOf
  <2>2. QED
    BY <1>2, <2>1 DEF Causes
<1>8. ~overlap => mem[p].own = file /\ \A q \in Runs : q # p => ~Active(q)
  BY <1>2 DEF IInv, Alone, Active
<1>9. Alone'
  BY <1>2, <1>5, <1>6, <1>8 DEF Alone, Active, IInv, TypeOK
<1>10. ~overlap' => lost'.overwritten = 0
  BY <1>2, <1>7, <1>8, SharedOK
<1>11. /\ m.failed <= m.k /\ m.good <= m.k /\ m.goodB <= m.k /\ m.own.paid <= ExampleCap
       /\ m.pending <= OneAnswer /\ m.due <= m.pending
        /\ m.own.spent + m.pending <= SpendCap + OneAnswer
       /\ file' \in BudgetState /\ file'.paid <= ExampleCap
       /\ file'.spent <= SpendCap + OneAnswer
  BY <1>2, <1>3, <1>5, <1>6, MemoryOf, HighestEstimate
<1>12. bill' <= bill + (file'.spent - file.spent) + (m.due - mem[p].due)
                    + (lost'.unrecorded - lost.unrecorded)
                    + (lost'.overwritten - lost.overwritten)
  BY <1>2, <1>3, <1>5, <1>6, <1>7, MemoryOf, SharedOK
<1>13. bill' \in Nat /\ overlap' \in BOOLEAN /\ starts' \in 0 .. MaxStarts
  BY <1>2, SharedOK
<1>14. QED
  BY Zenon, <1>2, <1>5, <1>6, <1>7, <1>9, <1>10, <1>11, <1>12, <1>13, RunStep

\* A run that ends, for whatever reason, and what it may still be charged.
LEMMA EndKeeps ==
  ASSUME IInv, NEW p \in Runs, End(p), UNCHANGED << file, overlap, starts >>,
         NEW c \in Nat, bill' = bill + c, lost' \in [Causes -> Int],
         lost'.overwritten = lost.overwritten,
         lost'.unrecorded = lost.unrecorded + c + mem[p].due
  PROVE  IInv'
<1> DEFINE m == Fresh(Nothing)
<1>1. at' = [at EXCEPT ![p] = "off"] /\ mem' = [mem EXCEPT ![p] = m]
  BY DEF End
<1>2. /\ m \in Memory /\ m.own = Nothing /\ m.k = 0 /\ m.pending = 0 /\ m.due = 0
      /\ m.failed = 0 /\ m.good = 0 /\ m.goodB = 0
  BY FreshOK, NothingOK
<1> HIDE DEF m
<1>3. Alone'
  BY Zenon, <1>1, <1>2, StaysAlone
<1>4. m.failed <= m.k /\ m.good <= m.k /\ m.goodB <= m.k /\ m.pending <= OneAnswer
      /\ m.own.paid <= ExampleCap /\ m.own.spent + m.pending <= SpendCap + OneAnswer
  BY <1>2, NothingOK, HighestEstimate, CapsOK
<1>5. bill' \in Nat /\ file' \in BudgetState /\ file'.paid <= ExampleCap
      /\ file'.spent <= SpendCap + OneAnswer /\ overlap' \in BOOLEAN
      /\ starts' \in 0 .. MaxStarts /\ (~overlap' => lost'.overwritten = 0)
  BY SharedOK
<1>6. bill' <= bill + (file'.spent - file.spent) + (m.due - mem[p].due)
                   + (lost'.unrecorded - lost.unrecorded) + (lost'.overwritten - lost.overwritten)
  BY <1>2, SharedOK, MemoryOf
<1>7. QED
  BY Zenon, <1>1, <1>2, <1>3, <1>4, <1>5, <1>6, RunStep

\* After a result the loop goes on, or an unhealthy stage ends the run.
LEMMA CheckKeeps ==
  ASSUME IInv, NEW p \in Runs, Check(p)
  PROVE  IInv'
<1>1. at[p] = "result" /\ UNCHANGED << file, bill, lost, overlap, starts >>
  BY DEF Check
<1>2. mem[p].pending = 0 /\ mem[p].due = 0
  BY <1>1, MemoryOf
<1>3. CASE End(p)
  <2>1. bill' = bill + 0 /\ lost' \in [Causes -> Int] /\ lost'.overwritten = lost.overwritten
        /\ lost'.unrecorded = lost.unrecorded + 0 + mem[p].due
    BY <1>1, <1>2, SharedOK
  <2>2. QED
    BY <1>1, <1>3, <2>1, EndKeeps
<1>4. CASE at' = [at EXCEPT ![p] = "next"] /\ UNCHANGED mem
  <2> DEFINE m == mem[p]
  <2>1. mem' = [mem EXCEPT ![p] = m]
    BY <1>4 DEF IInv, TypeOK
  <2>2. Alone'
    BY Zenon, <1>1, <1>4, <2>1, MemoryOf, StaysAlone DEF Active
  <2>3. bill' <= bill + (file'.spent - file.spent) + (m.due - mem[p].due)
                     + (lost'.unrecorded - lost.unrecorded) + (lost'.overwritten - lost.overwritten)
    BY <1>1, <1>2, SharedOK
  <2>4. QED
    BY Zenon, <1>1, <1>2, <1>4, <2>1, <2>2, <2>3, MemoryOf, SharedOK, RunStep
<1>5. QED
  BY <1>3, <1>4 DEF Check

\* The run ends after its results are written.
LEMMA WriteKeeps ==
  ASSUME IInv, NEW p \in Runs, Write(p)
  PROVE  IInv'
<1>1. at[p] = "write" /\ End(p) /\ UNCHANGED << file, bill, lost, overlap, starts >>
  BY DEF Write
<1>2. mem[p].pending = 0 /\ mem[p].due = 0
  BY <1>1, MemoryOf
<1>3. bill' = bill + 0 /\ lost' \in [Causes -> Int] /\ lost'.overwritten = lost.overwritten
      /\ lost'.unrecorded = lost.unrecorded + 0 + mem[p].due
  BY <1>1, <1>2, SharedOK
<1>4. QED
  BY <1>1, <1>3, EndKeeps

\* A killed run loses the charge it had not recorded, and that of its request.
LEMMA KillKeeps ==
  ASSUME IInv, NEW p \in Runs, NEW c \in Charges \cup {0}, Kill(p, c)
  PROVE  IInv'
<1>1. /\ End(p) /\ bill' = bill + c /\ Unrecorded(c + mem[p].due)
      /\ UNCHANGED << file, overlap, starts >>
  BY DEF Kill, Charge
<1>2. c \in Nat /\ mem[p].due \in Nat /\ c + mem[p].due \in Nat
  BY ChargesOK, MemoryOf
<1>3. /\ lost' \in [Causes -> Int] /\ lost'.overwritten = lost.overwritten
      /\ lost'.unrecorded = lost.unrecorded + (c + mem[p].due)
  BY <1>1, <1>2, UnrecordedOK
<1>4. lost'.unrecorded = lost.unrecorded + c + mem[p].due
  BY <1>2, <1>3, SharedOK
<1>5. QED
  BY <1>1, <1>2, <1>3, <1>4, EndKeeps

\* At first nothing was charged, recorded or allowed.
LEMMA InitIInv == ASSUME Init PROVE IInv
<1>1. \A p \in Runs : mem[p] = Fresh(Nothing) /\ at[p] = "off"
  BY DEF Init
<1>2. /\ Fresh(Nothing) \in Memory /\ Fresh(Nothing).own = Nothing
      /\ Fresh(Nothing).k = 0 /\ Fresh(Nothing).pending = 0 /\ Fresh(Nothing).due = 0
      /\ Fresh(Nothing).failed = 0 /\ Fresh(Nothing).good = 0 /\ Fresh(Nothing).goodB = 0
  BY FreshOK, NothingOK
<1>3. TypeOK
  <2>1. at \in [Runs -> {"off", "next", "request", "record", "result", "write"}]
    BY DEF Init
  <2>2. mem \in [Runs -> Memory]
    BY <1>2 DEF Init
  <2>3. file \in BudgetState /\ bill \in Nat /\ starts \in 0 .. MaxStarts
    BY NothingOK, LimitsOK DEF Init
  <2>4. lost \in [Causes -> Int]
    BY DEF Init
  <2>5. overlap \in BOOLEAN
    BY Zenon DEF Init
  <2>6. QED
    BY <2>1, <2>2, <2>3, <2>4, <2>5 DEF TypeOK
<1>4. Counting /\ Pending /\ Allowed /\ Alone
  BY <1>1, <1>2, HighestEstimate DEF Counting, Pending, Allowed, Alone, Active
<1>5. RecordedWithinCap
  <2>1. ASSUME NEW p \in Runs
        PROVE  /\ mem[p].own.paid + (IF at[p] = "record" THEN 1 ELSE 0) <= ExampleCap
               /\ mem[p].own.spent + mem[p].pending <= SpendCap + OneAnswer
    BY <1>1, <1>2, NothingOK, HighestEstimate, CapsOK
  <2>2. file.paid <= ExampleCap /\ file.spent <= SpendCap + OneAnswer
    BY NothingOK, HighestEstimate, CapsOK DEF Init
  <2>3. QED
    BY <2>1, <2>2 DEF RecordedWithinCap
<1>6. BillCovered
  <2>1. NotRecorded \in [Runs -> Nat] /\ \A p \in Runs : NotRecorded[p] = 0
    BY <1>1, <1>2 DEF NotRecorded
  <2>2. Total(NotRecorded) = 0
    BY Zenon, <2>1, RunsFinite, SumOfZeros DEF Total
  <2>3. bill = 0 /\ file.spent = 0 /\ lost.unrecorded = 0 /\ lost.overwritten = 0
    BY NothingOK DEF Init, Causes
  <2>4. QED
    BY <2>2, <2>3 DEF BillCovered, NotRecorded
<1>7. QED
  BY <1>3, <1>4, <1>5, <1>6 DEF IInv

\* Every step preserves the inductive invariant.
LEMMA NextIInv == ASSUME IInv, [Next]_vars PROVE IInv'
<1>1. CASE UNCHANGED vars
  BY <1>1 DEF vars, IInv, TypeOK, Counting, Pending, Allowed, Alone, Active,
              RecordedWithinCap, BillCovered
<1>2. ASSUME NEW p \in Runs, Start(p) PROVE IInv'
  BY <1>2, StartKeeps
<1>3. ASSUME NEW p \in Runs, Request(p) PROVE IInv'
  BY <1>3, RequestKeeps
<1>4. ASSUME NEW p \in Runs, record(p) PROVE IInv'
  BY <1>4, recordKeeps
<1>5. ASSUME NEW p \in Runs, Check(p) PROVE IInv'
  BY <1>5, CheckKeeps
<1>6. ASSUME NEW p \in Runs, Write(p) PROVE IInv'
  BY <1>6, WriteKeeps
<1>7. ASSUME NEW p \in Runs, NEW t \in Tokens, NEW price \in Prices, NEW n \in 0 .. t,
             Answered(p, t, n, price)
      PROVE  IInv'
  BY <1>7, AnsweredKeeps
<1>8. ASSUME NEW p \in Runs, NEW c \in Charges \cup {0}, NEW retryable \in BOOLEAN,
             Failed(p, c, retryable)
      PROVE  IInv'
  BY <1>8, FailedKeeps
<1>9. ASSUME NEW p \in Runs, NEW c \in Charges \cup {0}, Kill(p, c) PROVE IInv'
  BY <1>9, KillKeeps
<1>10. QED
  BY <1>1, <1>2, <1>3, <1>4, <1>5, <1>6, <1>7, <1>8, <1>9 DEF Next

\* The inductive invariant holds, whichever runs overlap, fail or are killed.
THEOREM Invariant == Spec => []IInv
<1>1. Init => IInv
  BY InitIInv
<1>2. IInv /\ [Next]_vars => IInv'
  BY NextIInv
<1>3. QED
  BY <1>1, <1>2, PTL DEF Spec

\* The variables keep their types.
THEOREM TypeCorrect == Spec => []TypeOK
<1>1. IInv => TypeOK
  BY DEF IInv
<1>2. QED
  BY <1>1, Invariant, PTL

\* What is recorded, in the file and in every run's copy of it, goes beyond the
\* cap on spending by less than one answer, and never beyond the cap on examples
\* (can_spend, record): for any number of runs that overlap.
THEOREM RecordedStaysWithinCap == Spec => []RecordedWithinCap
<1>1. IInv => RecordedWithinCap
  BY DEF IInv
<1>2. QED
  BY <1>1, Invariant, PTL

\* What the provider charged is covered by the estimates in the file and by what
\* was charged for answers yet to be recorded, or it was lost for one of the two
\* known causes (estimate_cost_usd, record, _load), as long as no price is beyond
\* the margin (PricesOK).
THEOREM BillStaysCovered == Spec => []BillCovered
<1>1. IInv => BillCovered
  BY DEF IInv
<1>2. QED
  BY <1>1, Invariant, PTL

\* A step that ends with no overlap so far lets what is recorded only grow.
LEMMA StepKeepsBudget ==
  ASSUME IInv, [Next]_vars, ~overlap'
  PROVE  file'.spent >= file.spent /\ file'.paid >= file.paid
<1>1. file.spent \in Nat /\ file.paid \in Nat
  BY SharedOK
<1>2. CASE UNCHANGED file
  BY <1>1, <1>2
<1>3. ASSUME NEW p \in Runs, record(p)
      PROVE  file'.spent >= file.spent /\ file'.paid >= file.paid
  <2>1. ~overlap /\ Active(p) /\ file' = spend(mem[p])
    BY <1>3 DEF record, Active
  <2>2. mem[p].own = file
    BY <2>1 DEF IInv, Alone
  <2>3. mem[p].pending \in Nat
    BY MemoryOf
  <2>4. file'.spent = file.spent + mem[p].pending /\ file'.paid = file.paid + 1
    BY <2>1, <2>2 DEF spend
  <2>5. QED
    BY <1>1, <2>3, <2>4
<1>4. QED
  BY Zenon, <1>2, <1>3 DEF Next, vars, Start, Request, Check, Write, Answered, Failed, Kill

\* budget.py's promise: as long as one run at a time is active, no kill and no
\* restart takes back what was recorded.
THEOREM RestartKeepsTheBudget == Spec => RestartKeepsBudget
<1>1. IInv /\ [Next]_vars
        => [~overlap' => file'.spent >= file.spent /\ file'.paid >= file.paid]_vars
  BY StepKeepsBudget
<1>2. QED
  BY <1>1, Invariant, PTL DEF Spec, RestartKeepsBudget
=============================================================================

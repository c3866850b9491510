------------------------------ MODULE MCKaggle ------------------------------
\* Values of Kaggle's constants for TLC.
EXTENDS Kaggle

CONSTANTS c, shell, a, b

LanguageOrder == << c, shell >>
Allotted      == [l \in {c, shell} |-> IF l = c THEN 2 ELSE 1]

\* The budget of b is not a number of its updates unless it is overridden.
CandidateOrder == << b, a >>
UpdateSize     == [n \in {a, b} |-> IF n = a THEN 1 ELSE 2]
BlockBudget    == [n \in {a, b} |-> IF n = a THEN 1 ELSE 3]
Selected       == {{a}, {b}}

Configurations == << "adamw_8bit" >>
WorkerCounts   == << 2 >>
LearningRates  == << "low", "high" >>
UpdateTokens   == [s \in {"adamw_8bit"} |-> 2]
PilotBounds    == << 4, 8 >>
Measured       == {[speed |-> 1, steps |-> 1], [speed |-> 2, steps |-> 0]}
Evaluated      == {[loss |-> 1, regressions |-> 2, general |-> TRUE],
                   [loss |-> 2, regressions |-> 0, general |-> TRUE],
                   [loss |-> 3, regressions |-> 0, general |-> TRUE],
                   [loss |-> 1, regressions |-> 3, general |-> TRUE]}
=============================================================================

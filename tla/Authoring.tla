----------------------------- MODULE Authoring -----------------------------
(***************************************************************************)
(* scripts/generate_code_benchmark.py: a paid model writes the cases of    *)
(* the code benchmark, batch after batch.  Each answer is paid and         *)
(* recorded before it is looked at; the batches stay in memory until the   *)
(* last one is valid, and only then does the suite replace the old one.    *)
(* --repair-existing asks anew for the cases of the suite that are blank.  *)
(***************************************************************************)
EXTENDS Integers, FiniteSetsExt, Functions

CONSTANTS
  Cases,         \* the cases of a suite (200 in the code); one a batch here
  BatchCosts,    \* what the answer to one request may cost
  BatchEstimate, \* what it is taken to cost before it is sent (0.025 dollars)
  AuthorCap,     \* --spend-cap
  BatchTries,    \* requests for one batch (3 in the code)
  MaxAuthors     \* bound: times the script is started

ASSUME CasesOK  == Cases \subseteq Nat /\ Cases # {} /\ IsFiniteSet(Cases)
ASSUME PricesOK == /\ BatchCosts \subseteq Nat /\ BatchCosts # {} /\ IsFiniteSet(BatchCosts)
                   /\ BatchEstimate \in Nat
ASSUME TriesOK  == AuthorCap \in Nat /\ BatchTries \in Nat \ {0} /\ MaxAuthors \in Nat

VARIABLES
  author,   \* memory of the script: where it is, batches to do, answers so far
  purse,    \* spent_usd in the budget file
  suite     \* the version of the suite on disk, 0 for none

authorVars == << author, purse, suite >>

\* ids: the id of the case each batch brought, chosen by the model that wrote it
NotAuthoring == [at |-> "off", todo |-> {}, tries |-> 0, ids |-> [c \in {} |-> 0]]

AuthoringTypeOK ==
  /\ author.at \in {"off", "ask", "record", "validate", "replace"}
  /\ author.todo \subseteq Cases /\ author.tries \in 0 .. BatchTries - 1
  /\ DOMAIN author.ids \subseteq Cases /\ Range(author.ids) \subseteq Cases
  /\ suite \in 0 .. MaxAuthors
  /\ purse <= AuthorCap - BatchEstimate + Max(BatchCosts \cup {BatchEstimate})

AuthoringInit == author = NotAuthoring /\ purse = 0 /\ suite = 0

\* All batches, or with a suite to repair those of its blank cases.
StartAuthor(blank) ==
  /\ author.at = "off" /\ (suite = 0 => blank = Cases)
  /\ author' = [at |-> "ask", todo |-> blank, tries |-> 0,
                ids |-> [c \in Cases \ blank |-> c]]
  /\ UNCHANGED << purse, suite >>

Abort == author' = NotAuthoring

\* Mutant of batch_can_spend: what the request will cost is not added.
batch_can_spend_late == purse <= AuthorCap

batch_can_spend == purse + BatchEstimate <= AuthorCap

\* The head of generate_batch's loop.  Without an answer of status 200 the
\* script ends, and so it does when the budget is exhausted.
Ask ==
  /\ author.at = "ask" /\ author.todo # {}
  /\ \/ batch_can_spend /\ author' = [author EXCEPT !.at = "record"]
     \/ Abort
  /\ UNCHANGED << purse, suite >>

RecordBatch(cost) ==
  /\ author.at = "record"
  /\ purse' = purse + cost
  /\ author' = [author EXCEPT !.at = "validate"]
  /\ UNCHANGED suite

\* validate_batch: a batch is taken whole or asked for again.
ValidBatch(id) ==
  /\ author.at = "validate"
  /\ \E c \in author.todo :
       /\ \A other \in author.todo : c <= other
       /\ author' = [at |-> "ask", todo |-> author.todo \ {c}, tries |-> 0,
                     ids |-> [k \in DOMAIN author.ids \cup {c} |->
                                IF k = c THEN id ELSE author.ids[k]]]
  /\ UNCHANGED << purse, suite >>

InvalidBatch ==
  /\ author.at = "validate"
  /\ IF author.tries + 1 < BatchTries
     THEN author' = [author EXCEPT !.at = "ask", !.tries = @ + 1]
     ELSE Abort
  /\ UNCHANGED << purse, suite >>

\* The end of main: with two equal ids all the batches are thrown away.
Collect ==
  /\ author.at = "ask" /\ author.todo = {}
  /\ IF IsInjective(author.ids) THEN author' = [author EXCEPT !.at = "replace"] ELSE Abort
  /\ UNCHANGED << purse, suite >>

\* temporary.replace(args.output)
Publish ==
  /\ author.at = "replace" /\ suite < MaxAuthors
  /\ suite' = suite + 1 /\ Abort
  /\ UNCHANGED purse

KillAuthor == author.at # "off" /\ Abort /\ UNCHANGED << purse, suite >>

AuthoringNext ==
  \/ Ask \/ InvalidBatch \/ Collect \/ Publish \/ KillAuthor
  \/ \E cost \in BatchCosts : RecordBatch(cost)
  \/ \E id \in Cases : ValidBatch(id)
=============================================================================

--------------------------- MODULE Offline_proofs ---------------------------
(***************************************************************************)
(* Proofs about Offline. Of the code benchmark (Authoring, Predictions,    *)
(* Evaluation, Harness): the answers of the file come from one source, a   *)
(* run that returns has answered its whole suite, and the score is earned. *)
(* Of the replay (ReplayTool): a faithful recording verifies. Of the rates *)
(* (Scoring): the needle of a long prompt is where it is asked for.  Of    *)
(* the replayed stream (Protocol) and all the others: the types.  Of the   *)
(* score of a next edit: the distance of two texts is the fewest edits.    *)
(* Of the text of a prompt: what is written is read back.  Of a synthetic  *)
(* next edit: the region is where the example says.                        *)
(***************************************************************************)
EXTENDS Offline, Basics_proofs

(***************************************************************************)
(* The inductive invariant.                                                *)
(***************************************************************************)

AuthorPlaces == {"off", "ask", "record", "validate", "replace"}
IdMaps       == UNION {[d -> Cases] : d \in SUBSET Cases}
Purses       == BatchCosts \cup {BatchEstimate}

\* The script never sends a request that the budget does not cover.
AuthorInv ==
  /\ author \in [at : AuthorPlaces, todo : SUBSET Cases, tries : 0 .. BatchTries - 1,
                 ids : IdMaps]
  /\ suite \in 0 .. MaxAuthors
  /\ purse \in Nat /\ purse <= AuthorCap - BatchEstimate + Max(Purses)
  /\ author.at = "record" => purse + BatchEstimate <= AuthorCap

GenPlaces == {"off", "gate", "stamp", "load", "work"}
GenRuns   == [at : GenPlaces, mine : Metadata \cup {NoFile}, futures : Futures,
              failing : BOOLEAN, ok : BOOLEAN, glued : SUBSET Cases]

\* Answers are there only under whole metadata, and they are its own.
FileInv ==
  /\ metadata \in Metadata \cup {NoFile, Torn}
  /\ lines # NoFile =>
       /\ lines \in Seq(Answers \cup {Torn}) /\ metadata \in Metadata
       /\ \A i \in DOMAIN lines : lines[i] = Torn \/ \E c \in Cases : lines[i] = Line(c, metadata)
  /\ unended \in BOOLEAN /\ (unended => lines # NoFile /\ lines # << >>)

\* What each place of the run knows of the two files.
RunInv ==
  /\ gen \in GenRuns
  /\ gen.at # "off" => gen.mine \in Metadata
  /\ gen.at # "work" => gen.futures = NoFuture /\ ~gen.failing
  /\ gen.at \in {"gate", "stamp", "load"} => gen.glued = {}
  /\ gen.at = "stamp" => metadata = Torn /\ lines = NoFile
  /\ gen.at \in {"load", "work"} => metadata = gen.mine
  /\ gen.at = "work" => lines # NoFile
  /\ spoilt \in 0 .. MaxFailures

\* No case has two lines, and every line can be read but the one, if any, that
\* holds the answers to the lost cases.
Once(file, lost) ==
  /\ \A i, j \in DOMAIN file :
       Whole(file[i]) /\ Whole(file[j]) /\ file[i].case = file[j].case => i = j
  /\ \/ lost = {} /\ \A i \in DOMAIN file : Whole(file[i])
     \/ /\ \E c, d \in Cases : c # d /\ lost = {c, d}
        /\ \E i \in DOMAIN file : \A j \in DOMAIN file : Whole(file[j]) <=> j # i

\* Until something raises, every case is in exactly one place.
Shared(file, f, lost) ==
  /\ Once(file, lost)
  /\ f.queue \cap (f.running \cup f.answered \cup f.raised) = {}
  /\ f.running \cap (f.answered \cup f.raised) = {} /\ f.answered \cap f.raised = {}
  /\ Saved(file) \cap (f.queue \cup f.running \cup f.answered \cup f.raised) = {}
  /\ lost \cap (Saved(file) \cup f.queue \cup f.running \cup f.answered \cup f.raised) = {}
  /\ lost \cup Saved(file) \cup f.queue \cup f.running \cup f.answered \cup f.raised = Cases
WorkInv ==
  /\ gen.at = "work" /\ ~gen.failing => /\ Shared(lines, gen.futures, gen.glued)
                                        /\ unended => gen.glued = {}
  /\ gen.ok => /\ gen.at = "off" /\ lines # NoFile
               /\ metadata = gen.mine /\ Shared(lines, NoFuture, gen.glued)

Row  == [compile : Statuses, test : Statuses, earned : BOOLEAN]
Rows == UNION {[d -> Row] : d \in SUBSET Cases}
RowsOK(rows) ==
  \A c \in DOMAIN rows : /\ rows[c].test = "pass" <=> rows[c].earned
                         /\ rows[c].earned => Check[c].test
EvalPlaces == {"off", "check", "results", "summary"}

\* A row says pass exactly when it was earned, and what is in memory is what
\* is in the files by the time each is written.
EvalInv ==
  /\ evaluation \in [at : EvalPlaces, done : Rows, refused : BOOLEAN, ok : BOOLEAN]
  /\ RowsOK(evaluation.done)
  /\ evaluation.at \in {"results", "summary"} => DOMAIN evaluation.done = Cases
  /\ evaluation.at = "summary" => results = evaluation.done
  /\ evaluation.ok => /\ evaluation.at = "off"
                      /\ results \in Rows /\ RowsOK(results) /\ DOMAIN results = Cases
                      /\ summary = summarize_results(results)

StartedInv == started \in [Scripts -> Nat]
HarnessInv == AuthorInv /\ FileInv /\ RunInv /\ WorkInv /\ EvalInv /\ StartedInv

-----------------------------------------------------------------------------
\* The largest price is a number, and no price is above it.
LEMMA PriceBound ==
  /\ Max(Purses) \in Nat
  /\ BatchEstimate <= Max(Purses)
  /\ \A cost \in BatchCosts : cost <= Max(Purses)
<1>1. Purses \subseteq Int /\ Purses # {}
  BY PricesOK DEF Purses
<1>2. IsFiniteSet(Purses)
  BY PricesOK, FS_AddElement DEF Purses
<1>3. Max(Purses) \in Purses /\ \A y \in Purses : Max(Purses) >= y
  <2> HIDE DEF Purses
  <2>1. QED
    BY ONLY Zenon, <1>1, <1>2, MaxIsLargest
<1>4. Purses \subseteq Nat
  BY PricesOK DEF Purses
<1>5. Max(Purses) \in Nat
  BY Zenon, <1>3, <1>4
<1>6. QED
  BY <1>3, <1>5, <1>4 DEF Purses

\* Authoring starts within the budget, with nothing written.
LEMMA AuthorStarts == ASSUME AuthoringInit PROVE AuthorInv
<1>1. NotAuthoring \in [at : AuthorPlaces, todo : SUBSET Cases, tries : 0 .. BatchTries - 1,
                        ids : IdMaps]
  BY TriesOK DEF NotAuthoring, AuthorPlaces, IdMaps
<1>2. 0 <= AuthorCap - BatchEstimate + Max(Purses)
  BY PriceBound, PricesOK, TriesOK
<1>3. QED
  BY <1>1, <1>2, TriesOK DEF AuthoringInit, AuthorInv, NotAuthoring

\* Throwing the batches away keeps the budget.
LEMMA AbortKeeps ==
  ASSUME AuthorInv, Abort, UNCHANGED << purse, suite >>
  PROVE  AuthorInv'
<1>1. NotAuthoring \in [at : AuthorPlaces, todo : SUBSET Cases, tries : 0 .. BatchTries - 1,
                        ids : IdMaps]
  BY TriesOK DEF NotAuthoring, AuthorPlaces, IdMaps
<1>2. NotAuthoring.at = "off"
  BY DEF NotAuthoring
<1>3. author' = NotAuthoring /\ purse' = purse /\ suite' = suite
  BY DEF Abort
<1>4. QED
  BY <1>1, <1>2, <1>3 DEF AuthorInv

\* Every step of the authoring script keeps its invariant.
LEMMA AuthorStep ==
  ASSUME AuthorInv,
         (\E blank \in SUBSET Cases : StartAuthor(blank)) \/ AuthoringNext
  PROVE  AuthorInv'
<1> USE TriesOK, PricesOK DEF AuthorPlaces
<1>1. CASE \E blank \in SUBSET Cases : StartAuthor(blank)
  <2>1. PICK blank \in SUBSET Cases : StartAuthor(blank)
    BY <1>1
  <2>2. [c \in Cases \ blank |-> c] \in IdMaps
    <3>1. [c \in Cases \ blank |-> c] \in [Cases \ blank -> Cases] /\ Cases \ blank \in SUBSET Cases
      OBVIOUS
    <3>2. QED
      BY Zenon, <3>1 DEF IdMaps
  <2>3. QED
    BY <2>1, <2>2 DEF AuthorInv, StartAuthor
<1>2. CASE Ask
  <2>1. CASE Abort
    BY <1>2, <2>1, AbortKeeps DEF Ask
  <2>2. CASE batch_can_spend /\ author' = [author EXCEPT !.at = "record"]
    <3>1. purse + BatchEstimate <= AuthorCap
      BY <2>2 DEF batch_can_spend
    <3>2. author'.at = "record" /\ author'.todo = author.todo /\ author'.tries = author.tries
          /\ author'.ids = author.ids
          /\ author' \in [at : AuthorPlaces, todo : SUBSET Cases, tries : 0 .. BatchTries - 1,
                          ids : IdMaps]
      BY <2>2 DEF AuthorInv
    <3>3. purse' = purse /\ suite' = suite
      BY <1>2 DEF Ask
    <3>4. QED
      BY <3>1, <3>2, <3>3 DEF AuthorInv
  <2>3. QED
    BY <1>2, <2>1, <2>2 DEF Ask
<1>3. CASE InvalidBatch
  <2>1. CASE author.tries + 1 < BatchTries
    <3>1. author.tries + 1 \in 0 .. BatchTries - 1
      BY <2>1 DEF AuthorInv
    <3>2. author' = [author EXCEPT !.at = "ask", !.tries = author.tries + 1]
      BY <1>3, <2>1 DEF InvalidBatch
    <3>3. author'.at = "ask"
          /\ author' \in [at : AuthorPlaces, todo : SUBSET Cases, tries : 0 .. BatchTries - 1,
                          ids : IdMaps]
      BY Zenon, <3>1, <3>2 DEF AuthorInv
    <3>4. QED
      BY <1>3, <3>3 DEF InvalidBatch, AuthorInv
  <2>2. CASE ~ (author.tries + 1 < BatchTries)
    BY <1>3, <2>2, AbortKeeps DEF InvalidBatch
  <2>3. QED
    BY <2>1, <2>2
<1>4. CASE Collect
  <2>1. CASE IsInjective(author.ids)
    BY <1>4, <2>1 DEF Collect, AuthorInv
  <2>2. CASE ~ IsInjective(author.ids)
    BY <1>4, <2>2, AbortKeeps DEF Collect
  <2>3. QED
    BY <2>1, <2>2
<1>5. CASE Publish
  <2>1. NotAuthoring \in [at : AuthorPlaces, todo : SUBSET Cases, tries : 0 .. BatchTries - 1,
                          ids : IdMaps] /\ NotAuthoring.at = "off"
    BY DEF NotAuthoring, IdMaps
  <2>2. QED
    BY <1>5, <2>1 DEF Publish, Abort, AuthorInv
<1>6. CASE KillAuthor
  BY <1>6, AbortKeeps DEF KillAuthor
<1>7. CASE \E cost \in BatchCosts : RecordBatch(cost)
  <2>1. PICK cost \in BatchCosts : RecordBatch(cost)
    BY <1>7
  <2>2. purse' \in Nat /\ purse' <= AuthorCap - BatchEstimate + Max(Purses)
    BY <2>1, PriceBound DEF RecordBatch, AuthorInv
  <2>3. QED
    BY <2>1, <2>2 DEF RecordBatch, AuthorInv
<1>8. CASE \E id \in Cases : ValidBatch(id)
  <2>1. PICK id \in Cases : ValidBatch(id)
    BY <1>8
  <2>2. PICK c \in author.todo :
          author' = [at |-> "ask", todo |-> author.todo \ {c}, tries |-> 0,
                     ids |-> [k \in DOMAIN author.ids \cup {c} |->
                                IF k = c THEN id ELSE author.ids[k]]]
    BY Zenon, <2>1 DEF ValidBatch
  <2>3. PICK d \in SUBSET Cases : author.ids \in [d -> Cases]
    BY DEF AuthorInv, IdMaps
  <2>4. c \in Cases
    BY DEF AuthorInv
  <2>5. author'.ids \in [d \cup {c} -> Cases]
    BY <2>2, <2>3, <2>1
  <2>6. author'.ids \in IdMaps
    BY <2>5, <2>4 DEF IdMaps
  <2>7. QED
    BY <2>1, <2>2, <2>6 DEF ValidBatch, AuthorInv
<1>9. QED
  BY <1>1, <1>2, <1>3, <1>4, <1>5, <1>6, <1>7, <1>8 DEF AuthoringNext

-----------------------------------------------------------------------------
\* What an answer is.
LEMMA LineFacts ==
  ASSUME NEW c \in Cases, NEW m \in Metadata
  PROVE  /\ Line(c, m) \in Answers /\ Line(c, m).case = c
         /\ Whole(Line(c, m)) /\ Line(c, m) # Torn /\ Whole(m)
<1>1. Line(c, m) \in Answers
  BY DEF Answers
<1>2. Line(c, m).case = c
  BY DEF Line
<1>3. QED
  BY <1>1, <1>2, FilesOK DEF Whole

\* A line that is appended is the last one; a torn or missing file is no file of
\* answers.
LEMMA AppendFacts ==
  ASSUME NEW s \in Seq(Answers \cup {Torn}), NEW x \in Answers \cup {Torn}
  PROVE  /\ Append(s, x) \in Seq(Answers \cup {Torn}) /\ Append(s, x) # NoFile
         /\ DOMAIN Append(s, x) = DOMAIN s \cup {Len(s) + 1}
         /\ Append(s, x)[Len(s) + 1] = x
         /\ \A i \in DOMAIN s : Append(s, x)[i] = s[i] /\ i # Len(s) + 1
<1>1. Append(s, x) \in Seq(Answers \cup {Torn})
  OBVIOUS
<1>2. QED
  BY <1>1, FilesOK

\* A saved answer makes the file longer by its case and spoils no other line.
LEMMA SavedGrows ==
  ASSUME NEW m \in Metadata, NEW s \in Seq(Answers \cup {Torn}), NEW c \in Cases,
         NEW lost, Once(s, lost), c \notin Saved(s)
  PROVE  /\ Once(Append(s, Line(c, m)), lost)
         /\ Saved(Append(s, Line(c, m))) = Saved(s) \cup {c}
<1> DEFINE t == Append(s, Line(c, m))
<1>1. Line(c, m) \in Answers \cup {Torn} /\ Line(c, m).case = c /\ Whole(Line(c, m))
  BY LineFacts
<1>2. /\ DOMAIN t = DOMAIN s \cup {Len(s) + 1} /\ t[Len(s) + 1] = Line(c, m)
      /\ \A i \in DOMAIN s : t[i] = s[i] /\ i # Len(s) + 1
  BY <1>1, AppendFacts
<1> HIDE DEF t
<1>3. \A i \in DOMAIN s : Whole(s[i]) => s[i].case # c
  BY DEF Saved
<1>4. Whole(t[Len(s) + 1]) /\ t[Len(s) + 1].case = c
  BY <1>1, <1>2
<1>5. \A i, j \in DOMAIN t : Whole(t[i]) /\ Whole(t[j]) /\ t[i].case = t[j].case => i = j
  BY <1>2, <1>3, <1>4 DEF Once
<1>6. lost = {} /\ (\A i \in DOMAIN s : Whole(s[i])) => \A i \in DOMAIN t : Whole(t[i])
  BY <1>2, <1>4
<1>7. ASSUME NEW i \in DOMAIN s, \A j \in DOMAIN s : Whole(s[j]) <=> j # i
      PROVE  i \in DOMAIN t /\ \A j \in DOMAIN t : Whole(t[j]) <=> j # i
  BY <1>2, <1>4, <1>7
<1>8. Once(t, lost)
  BY <1>5, <1>6, <1>7 DEF Once
<1>9. Saved(t) = Saved(s) \cup {c}
  <2>1. \A i \in DOMAIN s : Whole(t[i]) = Whole(s[i]) /\ t[i].case = s[i].case
    BY <1>2
  <2>2. \A x \in Saved(t) : x \in Saved(s) \cup {c}
    BY <1>2, <1>4, <2>1 DEF Saved
  <2>3. \A x \in Saved(s) \cup {c} : x \in Saved(t)
    BY <1>2, <1>4, <2>1 DEF Saved
  <2>4. QED
    BY <2>2, <2>3
<1>10. QED
  BY <1>8, <1>9 DEF t

\* An answer that is glued to the last line of a readable file takes the answer
\* of that line with it, and nothing else.
LEMMA GlueFacts ==
  ASSUME NEW s \in Seq(Answers \cup {Torn}), s # << >>, NEW c \in Cases,
         Once(s, {}), Saved(s) \subseteq Cases, c \notin Saved(s)
  PROVE  /\ s[Len(s)].case \in Saved(s)
         /\ Once([s EXCEPT ![Len(s)] = Torn], {s[Len(s)].case, c})
         /\ Saved([s EXCEPT ![Len(s)] = Torn]) = Saved(s) \ {s[Len(s)].case}
<1> DEFINE n == Len(s)
           t == [s EXCEPT ![Len(s)] = Torn]
           d == s[n].case
<1>1. n \in DOMAIN s
  OBVIOUS
<1>2. /\ DOMAIN t = DOMAIN s /\ t[n] = Torn /\ \A i \in DOMAIN s : i # n => t[i] = s[i]
  BY <1>1
<1> HIDE DEF n, t
<1>3. \A i \in DOMAIN s : Whole(s[i])
  BY Zenon DEF Once
<1>4. d \in Saved(s) /\ d \in Cases /\ d # c
  BY <1>1, <1>3 DEF Saved
<1>5. ~ Whole(t[n])
  BY <1>2 DEF Whole
<1>6. \A i \in DOMAIN t : /\ Whole(t[i]) <=> i # n
                          /\ i # n => t[i].case = s[i].case
  BY <1>2, <1>3, <1>5
<1>7. \A i, j \in DOMAIN s : s[i].case = s[j].case => i = j
  BY Zenon, <1>3 DEF Once
<1>8. \A i, j \in DOMAIN t : Whole(t[i]) /\ Whole(t[j]) /\ t[i].case = t[j].case => i = j
  BY Zenon, <1>2, <1>6, <1>7
<1>9. Once(t, {d, c})
  BY Zenon, <1>1, <1>2, <1>4, <1>6, <1>8 DEF Once
<1>10. Saved(t) = Saved(s) \ {d}
  <2>1. \A x \in Saved(t) : x \in Saved(s) \ {d}
    BY <1>1, <1>2, <1>3, <1>6, <1>7 DEF Saved
  <2>2. \A x \in Saved(s) \ {d} : x \in Saved(t)
    BY <1>1, <1>2, <1>3, <1>6 DEF Saved
  <2>3. QED
    BY <2>1, <2>2
<1>11. QED
  BY <1>4, <1>9, <1>10 DEF n, t

\* Every case is in exactly one place, the lines and the losses among them.
OneEach(saved, lost, queue, running, answered, raised) ==
  /\ saved \cap (queue \cup running \cup answered \cup raised) = {}
  /\ lost \cap (saved \cup queue \cup running \cup answered \cup raised) = {}
  /\ lost \cup saved \cup queue \cup running \cup answered \cup raised = Cases

\* A saved and an answered case are lost together.
LEMMA TakenOut ==
  ASSUME NEW saved, NEW queue, NEW running, NEW answered, NEW raised, NEW c, NEW d,
         queue \cap (running \cup answered) = {},
         answered \cap (running \cup raised) = {},
         saved \cap (queue \cup running \cup answered \cup raised) = {},
         saved \cup queue \cup running \cup answered \cup raised = Cases,
         c \in answered, d \in saved
  PROVE  OneEach(saved \ {d}, {d, c}, queue, running, answered \ {c}, raised)
<1>1. (saved \ {d}) \cap (queue \cup running \cup (answered \ {c}) \cup raised) = {}
  OBVIOUS
<1>2. {d, c} \cap ((saved \ {d}) \cup queue \cup running \cup (answered \ {c}) \cup raised) = {}
  OBVIOUS
<1>3. {d, c} \cup (saved \ {d}) \cup queue \cup running \cup (answered \ {c}) \cup raised = Cases
  OBVIOUS
<1>4. QED
  BY Zenon, <1>1, <1>2, <1>3 DEF OneEach

\* Whatever is written behind the file, and whether or not it begins a line of
\* its own, the lines are the old ones, it, or unreadable.
LEMMA AppendedFacts ==
  ASSUME FileInv, lines # NoFile, NEW x \in Answers \cup {Torn}
  PROVE  /\ Appended(x) \in Seq(Answers \cup {Torn})
         /\ Appended(x) # NoFile /\ Appended(x) # << >>
         /\ \A i \in DOMAIN Appended(x) :
              \/ Appended(x)[i] \in {Torn, x}
              \/ i \in DOMAIN lines /\ Appended(x)[i] = lines[i]
<1>1. lines \in Seq(Answers \cup {Torn}) /\ (unended => lines # << >>)
  BY DEF FileInv
<1>2. CASE unended
  <2>1. Appended(x) = [lines EXCEPT ![Len(lines)] = Torn]
    BY <1>2 DEF Appended
  <2>2. /\ [lines EXCEPT ![Len(lines)] = Torn] \in Seq(Answers \cup {Torn})
        /\ [lines EXCEPT ![Len(lines)] = Torn] # << >>
        /\ DOMAIN [lines EXCEPT ![Len(lines)] = Torn] = DOMAIN lines
        /\ \A i \in DOMAIN lines : [lines EXCEPT ![Len(lines)] = Torn][i] \in {Torn, lines[i]}
    BY <1>1, <1>2
  <2>3. QED
    BY <2>1, <2>2, FilesOK
<1>3. CASE ~ unended
  <2>1. Appended(x) = Append(lines, x)
    BY <1>3 DEF Appended
  <2>2. /\ Append(lines, x) \in Seq(Answers \cup {Torn}) /\ Append(lines, x) # NoFile
        /\ DOMAIN Append(lines, x) = DOMAIN lines \cup {Len(lines) + 1}
        /\ Append(lines, x)[Len(lines) + 1] = x
        /\ \A i \in DOMAIN lines : Append(lines, x)[i] = lines[i]
    BY <1>1, AppendFacts
  <2>3. Append(lines, x) # << >>
    BY <1>1
  <2>4. QED
    BY <2>1, <2>2, <2>3
<1>4. QED
  BY <1>2, <1>3

\* Lines of the run behind lines of the run are lines of the run.
LEMMA FileKept ==
  ASSUME FileInv, lines # NoFile, NEW c \in Cases, NEW x \in {Torn, Line(c, metadata)},
         metadata' = metadata, lines' = Appended(x), unended' \in BOOLEAN
  PROVE  FileInv' /\ lines' # NoFile
<1>1. metadata \in Metadata
  BY DEF FileInv
<1>2. Line(c, metadata) \in Answers
  BY <1>1, LineFacts
<1>3. x \in Answers \cup {Torn}
  BY <1>2
<1>4. /\ lines' \in Seq(Answers \cup {Torn}) /\ lines' # NoFile /\ lines' # << >>
      /\ \A i \in DOMAIN lines' :
           lines'[i] \in {Torn, x} \/ (i \in DOMAIN lines /\ lines'[i] = lines[i])
  BY <1>3, AppendedFacts
<1>5. \A i \in DOMAIN lines' : lines'[i] = Torn \/ \E d \in Cases : lines'[i] = Line(d, metadata)
  BY <1>4 DEF FileInv
<1>6. QED
  BY <1>1, <1>4, <1>5 DEF FileInv

\* The cases of a file of answers are cases of the suite.
LEMMA SavedAreCases ==
  ASSUME FileInv, lines # NoFile
  PROVE  Saved(lines) \subseteq Cases
<1>1. metadata \in Metadata
  BY DEF FileInv
<1>2. \A c \in Cases : Line(c, metadata).case = c
  BY DEF Line
<1>3. \A i \in DOMAIN lines : Whole(lines[i]) => lines[i].case \in Cases
  BY <1>2 DEF FileInv, Whole
<1>4. QED
  BY <1>3 DEF Saved

GenInv == FileInv /\ RunInv /\ WorkInv
Suites == suite \in 0 .. MaxAuthors

\* A run that has not begun.
LEMMA RestFacts ==
  ASSUME NEW ok \in BOOLEAN
  PROVE  /\ NotGenerating(ok).at = "off" /\ NotGenerating(ok).mine = NoFile
         /\ NotGenerating(ok).futures = NoFuture /\ NotGenerating(ok).failing = FALSE
         /\ NotGenerating(ok).ok = ok /\ NotGenerating(ok).glued = {} /\ NoFuture \in Futures
         /\ NotGenerating(ok) \in GenRuns
<1>1. NoFuture \in Futures
  BY DEF NoFuture, Futures
<1>2. QED
  BY <1>1 DEF NotGenerating, GenPlaces, GenRuns

\* Generation starts without files.
LEMMA GenStarts == ASSUME PredictionsInit PROVE GenInv
<1>1. /\ gen = NotGenerating(FALSE) /\ lines = NoFile /\ unended = FALSE
      /\ metadata = NoFile /\ spoilt = 0
  BY DEF PredictionsInit
<1>2. FileInv
  BY <1>1 DEF FileInv
<1>3. gen.at = "off" /\ gen.futures = NoFuture /\ ~ gen.failing /\ ~ gen.ok
      /\ gen \in GenRuns
  BY Zenon, <1>1, RestFacts
<1>4. spoilt \in 0 .. MaxFailures
  BY <1>1, BoundsOK
<1>5. RunInv
  BY <1>3, <1>4 DEF RunInv
<1>6. WorkInv
  BY <1>3 DEF WorkInv
<1>7. QED
  BY <1>2, <1>5, <1>6 DEF GenInv

\* A run that ends, whatever it did, leaves the files to the next one.
LEMMA FailKeeps ==
  ASSUME GenInv, Fail, UNCHANGED << metadata, lines, unended, spoilt >>
  PROVE  GenInv'
<1>1. /\ gen' = NotGenerating(FALSE)
      /\ metadata' = metadata /\ lines' = lines /\ unended' = unended /\ spoilt' = spoilt
  BY DEF Fail
<1>2. FileInv'
  BY <1>1 DEF GenInv, FileInv
<1>3. RunInv'
  BY Zenon, <1>1, RestFacts DEF GenInv, RunInv
<1>4. WorkInv'
  BY Zenon, <1>1, RestFacts DEF WorkInv
<1>5. QED
  BY <1>2, <1>3, <1>4 DEF GenInv

\* A step of a run at work that moves a case from one future to another.
LEMMA MoveKeeps ==
  ASSUME GenInv, gen.at = "work", NEW fs \in Futures, NEW stop \in BOOLEAN,
         gen' = [gen EXCEPT !.futures = fs, !.failing = stop],
         UNCHANGED << metadata, lines, unended >>, spoilt' \in 0 .. MaxFailures,
         gen.failing => stop, ~ stop => Shared(lines, fs, gen.glued)
  PROVE  GenInv'
<1>1. /\ gen'.at = "work" /\ gen'.mine = gen.mine /\ gen'.futures = fs
      /\ gen'.failing = stop /\ gen'.ok = gen.ok /\ gen'.glued = gen.glued
      /\ gen' \in GenRuns
  BY Zenon DEF GenInv, RunInv, GenPlaces, GenRuns
<1>2. FileInv'
  BY DEF GenInv, FileInv
<1>3. RunInv'
  BY <1>1 DEF GenInv, RunInv
<1>4. ~ gen.ok
  BY DEF GenInv, WorkInv
<1>5. WorkInv'
  BY <1>1, <1>4 DEF GenInv, WorkInv
<1>6. QED
  BY <1>2, <1>3, <1>5 DEF GenInv

\* The gate: a run is refused, or the metadata becomes its own.
LEMMA GateKeeps == ASSUME GenInv, Gate PROVE GenInv'
<1>1. CASE mismatch
  BY <1>1, FailKeeps DEF Gate
<1>2. CASE ~ mismatch /\ metadata = NoFile
  <2>1. lines = NoFile
    BY <1>2 DEF mismatch, Exists
  <2>2. /\ metadata' = Torn /\ lines' = NoFile /\ spoilt' = spoilt /\ unended' = unended
        /\ gen' = [gen EXCEPT !.at = "stamp"]
    BY <1>2, <2>1 DEF Gate
  <2>3. FileInv'
    BY <2>1, <2>2 DEF GenInv, FileInv
  <2>4. /\ gen'.at = "stamp" /\ gen'.mine = gen.mine /\ gen'.futures = gen.futures
        /\ gen'.failing = gen.failing /\ gen'.ok = gen.ok /\ gen'.glued = gen.glued
        /\ gen' \in GenRuns
    BY <2>2 DEF GenInv, RunInv, GenPlaces, GenRuns
  <2>5. gen.at = "gate"
    BY DEF Gate
  <2>6. RunInv'
    BY <2>2, <2>4, <2>5 DEF GenInv, RunInv
  <2>7. ~ gen.ok
    BY <2>5 DEF GenInv, WorkInv
  <2>8. WorkInv'
    BY <2>4, <2>7 DEF WorkInv
  <2>9. QED
    BY <2>3, <2>6, <2>8 DEF GenInv
<1>3. CASE ~ mismatch /\ metadata # NoFile
  <2>1. metadata = gen.mine
    BY <1>3 DEF mismatch
  <2>2. /\ metadata' = metadata /\ lines' = lines /\ unended' = unended /\ spoilt' = spoilt
        /\ gen' = [gen EXCEPT !.at = "load"]
    BY <1>3 DEF Gate
  <2>3. FileInv'
    BY <2>2 DEF GenInv, FileInv
  <2>4. /\ gen'.at = "load" /\ gen'.mine = gen.mine /\ gen'.futures = gen.futures
        /\ gen'.failing = gen.failing /\ gen'.ok = gen.ok /\ gen'.glued = gen.glued
        /\ gen' \in GenRuns
    BY <2>2 DEF GenInv, RunInv, GenPlaces, GenRuns
  <2>5. gen.at = "gate"
    BY DEF Gate
  <2>6. RunInv'
    BY <2>1, <2>2, <2>4, <2>5 DEF GenInv, RunInv
  <2>7. ~ gen.ok
    BY <2>5 DEF GenInv, WorkInv
  <2>8. WorkInv'
    BY <2>4, <2>7 DEF WorkInv
  <2>9. QED
    BY <2>3, <2>6, <2>8 DEF GenInv
<1>4. QED
  BY <1>1, <1>2, <1>3

\* The metadata is filled.
LEMMA StampKeeps == ASSUME GenInv, Stamp PROVE GenInv'
<1>1. /\ gen.at = "stamp" /\ metadata' = gen.mine
      /\ lines' = lines /\ unended' = unended /\ spoilt' = spoilt
      /\ gen' = [gen EXCEPT !.at = "load"]
  BY DEF Stamp
<1>2. gen.mine \in Metadata /\ lines = NoFile
  BY <1>1 DEF GenInv, RunInv
<1>3. FileInv'
  BY <1>1, <1>2 DEF GenInv, FileInv
<1>4. /\ gen'.at = "load" /\ gen'.mine = gen.mine /\ gen'.futures = gen.futures
      /\ gen'.failing = gen.failing /\ gen'.ok = gen.ok /\ gen'.glued = gen.glued
      /\ gen' \in GenRuns
  BY <1>1 DEF GenInv, RunInv, GenPlaces, GenRuns
<1>5. RunInv'
  BY <1>1, <1>2, <1>4 DEF GenInv, RunInv
<1>6. ~ gen.ok
  BY <1>1 DEF GenInv, WorkInv
<1>7. WorkInv'
  BY <1>4, <1>6 DEF WorkInv
<1>8. QED
  BY <1>3, <1>5, <1>7 DEF GenInv

\* What is asked for is exactly what is missing.
LEMMA LoadKeeps == ASSUME GenInv, Load PROVE GenInv'
<1>1. CASE Exists(lines) /\ ~ Readable(lines)
  BY <1>1, FailKeeps DEF Load
<1>2. CASE ~ (Exists(lines) /\ ~ Readable(lines))
  <2>1. /\ gen.at = "load" /\ metadata' = metadata /\ spoilt' = spoilt /\ unended' = unended
        /\ lines' = (IF Exists(lines) THEN lines ELSE << >>)
        /\ gen' = [gen EXCEPT !.at = "work", !.futures.queue = pending]
    BY <1>2 DEF Load
  <2>2. metadata = gen.mine /\ gen.mine \in Metadata /\ gen.futures = NoFuture
        /\ ~ gen.failing /\ ~ gen.ok /\ gen.glued = {}
    BY <2>1 DEF GenInv, RunInv, WorkInv
  <2>3. << >> # NoFile
    <3>1. << >> \in Seq(Answers \cup {Torn})
      OBVIOUS
    <3>2. QED
      BY Zenon, <3>1, FilesOK
  <2>4. FileInv'
    BY <2>1, <2>2, <2>3 DEF GenInv, FileInv, Exists
  <2> DEFINE fs == [NoFuture EXCEPT !.queue = pending]
  <2>5. /\ fs.queue = pending /\ fs.running = {} /\ fs.answered = {} /\ fs.raised = {}
    BY DEF NoFuture
  <2>6. pending \subseteq Cases
    BY DEF pending
  <2>7. fs \in Futures
    BY <2>6 DEF NoFuture, Futures
  <2>8. Shared(lines', fs, {})
    <3>1. CASE Exists(lines)
      <4>1. lines' = lines /\ pending = Cases \ Saved(lines) /\ Readable(lines)
        BY <3>1, <2>1, <1>2 DEF pending
      <4>2. Saved(lines) \subseteq Cases
        BY <3>1, SavedAreCases DEF Exists, GenInv
      <4> HIDE DEF fs
      <4>3. QED
        BY <4>1, <4>2, <2>5 DEF Shared, Once, Readable
    <3>2. CASE ~ Exists(lines)
      <4>1. lines' = << >> /\ pending = Cases
        BY <3>2, <2>1 DEF pending
      <4>2. Once(<< >>, {}) /\ Saved(<< >>) = {}
        BY DEF Once, Saved
      <4> HIDE DEF fs
      <4>3. QED
        BY <4>1, <4>2, <2>5 DEF Shared
    <3>3. QED
      BY <3>1, <3>2
  <2>9. /\ gen'.at = "work" /\ gen'.mine = gen.mine /\ gen'.futures = fs
        /\ gen'.failing = gen.failing /\ gen'.ok = gen.ok /\ gen'.glued = gen.glued
        /\ gen' \in GenRuns
    BY Zenon, <2>1, <2>2, <2>7 DEF GenInv, RunInv, GenPlaces, GenRuns
  <2>10. lines' # NoFile
    BY <2>1, <2>3 DEF Exists
  <2> HIDE DEF fs
  <2>11. RunInv'
    BY <2>1, <2>2, <2>9, <2>10 DEF GenInv, RunInv
  <2>12. WorkInv'
    BY <2>2, <2>8, <2>9 DEF WorkInv
  <2>13. QED
    BY <2>4, <2>11, <2>12 DEF GenInv
<1>3. QED
  BY <1>1, <1>2

\* The smallest case of the queue is one of it.
LEMMA NextCase ==
  ASSUME NEW q, q \subseteq Cases, q # {}
  PROVE  Min(q) \in q
<1>1. IsFiniteSet(q)
  BY Zenon, CasesOK, FS_Subset
<1>2. q \subseteq Int
  BY CasesOK
<1>3. QED
  BY Zenon, <1>1, <1>2, MinIsSmallest

\* What the futures of a run are made of.
LEMMA FuturesFacts ==
  ASSUME GenInv
  PROVE  /\ gen.futures \in Futures /\ gen.futures.queue \subseteq Cases
         /\ gen.futures.running \subseteq Cases /\ gen.futures.answered \subseteq Cases
         /\ gen.futures.raised \subseteq Cases /\ gen.failing \in BOOLEAN
         /\ spoilt \in 0 .. MaxFailures
         /\ gen = [at |-> gen.at, mine |-> gen.mine, futures |-> gen.futures,
                   failing |-> gen.failing, ok |-> gen.ok, glued |-> gen.glued]
         /\ gen.futures = [queue |-> gen.futures.queue, running |-> gen.futures.running,
                           answered |-> gen.futures.answered, raised |-> gen.futures.raised]
<1>1. gen.futures \in Futures /\ gen.failing \in BOOLEAN /\ spoilt \in 0 .. MaxFailures
  BY DEF GenInv, RunInv, GenRuns
<1>2. gen = [at |-> gen.at, mine |-> gen.mine, futures |-> gen.futures,
             failing |-> gen.failing, ok |-> gen.ok, glued |-> gen.glued]
  BY DEF GenInv, RunInv, GenRuns
<1>3. QED
  BY <1>1, <1>2 DEF Futures

\* Only a run at work has futures or an exception on its way.
LEMMA WorkFacts ==
  ASSUME GenInv,
         \/ gen.failing \/ gen.futures.queue # {} \/ gen.futures.running # {}
         \/ gen.futures.answered # {} \/ gen.futures.raised # {}
  PROVE  gen.at = "work"
  BY DEF GenInv, RunInv, NoFuture

\* A worker takes the next case.
LEMMA TakeKeeps == ASSUME GenInv, Take PROVE GenInv'
<1> DEFINE c == Min(gen.futures.queue)
           fs == [gen.futures EXCEPT !.queue = @ \ {c}, !.running = @ \cup {c}]
<1>1. gen.at = "work" /\ gen.futures.queue # {} /\ UNCHANGED << metadata, lines, unended, spoilt >>
  BY DEF Take
<1>2. c \in gen.futures.queue /\ c \in Cases
  BY <1>1, NextCase, FuturesFacts
<1>3. gen' = [gen EXCEPT !.futures = fs, !.failing = gen.failing]
  BY Zenon, FuturesFacts DEF Take
<1> HIDE DEF c
<1>4. /\ fs.queue = gen.futures.queue \ {c} /\ fs.running = gen.futures.running \cup {c}
      /\ fs.answered = gen.futures.answered /\ fs.raised = gen.futures.raised
      /\ fs \in Futures
  BY Zenon, <1>2, FuturesFacts DEF Futures
<1> HIDE DEF fs
<1>5. ~ gen.failing => Shared(lines, fs, gen.glued)
  BY <1>1, <1>2, <1>4 DEF GenInv, WorkInv, Shared
<1>6. QED
  BY Zenon, <1>1, <1>3, <1>4, <1>5, FuturesFacts, MoveKeeps

\* An answer comes.
LEMMA AnswerKeeps == ASSUME GenInv, NEW c \in Cases, Answer(c) PROVE GenInv'
<1> DEFINE fs == [gen.futures EXCEPT !.running = @ \ {c}, !.answered = @ \cup {c}]
<1>1. c \in gen.futures.running /\ UNCHANGED << metadata, lines, unended, spoilt >>
  BY DEF Answer
<1>2. gen.at = "work"
  BY <1>1, WorkFacts
<1>3. gen' = [gen EXCEPT !.futures = fs, !.failing = gen.failing]
  BY Zenon, FuturesFacts DEF Answer
<1>4. /\ fs.queue = gen.futures.queue /\ fs.running = gen.futures.running \ {c}
      /\ fs.answered = gen.futures.answered \cup {c} /\ fs.raised = gen.futures.raised
      /\ fs \in Futures
  BY Zenon, FuturesFacts DEF Futures
<1> HIDE DEF fs
<1>5. ~ gen.failing => Shared(lines, fs, gen.glued)
  BY <1>1, <1>2, <1>4 DEF GenInv, WorkInv, Shared
<1>6. QED
  BY Zenon, <1>1, <1>2, <1>3, <1>4, <1>5, FuturesFacts, MoveKeeps

\* A request raises.
LEMMA RaiseKeeps == ASSUME GenInv, NEW c \in Cases, Raise(c) PROVE GenInv'
<1> DEFINE fs == [gen.futures EXCEPT !.running = @ \ {c}, !.raised = @ \cup {c}]
<1>1. /\ c \in gen.futures.running /\ UNCHANGED << metadata, lines, unended >>
      /\ spoilt < MaxFailures /\ spoilt' = spoilt + 1
  BY DEF Raise
<1>2. gen.at = "work"
  BY <1>1, WorkFacts
<1>3. gen' = [gen EXCEPT !.futures = fs, !.failing = gen.failing]
  BY Zenon, FuturesFacts DEF Raise
<1>4. /\ fs.queue = gen.futures.queue /\ fs.running = gen.futures.running \ {c}
      /\ fs.answered = gen.futures.answered /\ fs.raised = gen.futures.raised \cup {c}
      /\ fs \in Futures
  BY Zenon, FuturesFacts DEF Futures
<1> HIDE DEF fs
<1>5. ~ gen.failing => Shared(lines, fs, gen.glued)
  BY <1>1, <1>2, <1>4 DEF GenInv, WorkInv, Shared
<1>6. spoilt' \in 0 .. MaxFailures
  BY <1>1, FuturesFacts, BoundsOK
<1>7. QED
  BY Zenon, <1>1, <1>2, <1>3, <1>4, <1>5, <1>6, FuturesFacts, MoveKeeps

\* A future that raised ends the loop that saves.
LEMMA ReraiseKeeps == ASSUME GenInv, NEW c \in Cases, Reraise(c) PROVE GenInv'
<1> DEFINE fs == [gen.futures EXCEPT !.raised = @ \ {c}]
<1>1. c \in gen.futures.raised /\ UNCHANGED << metadata, lines, unended, spoilt >>
  BY DEF Reraise
<1>2. gen.at = "work"
  BY <1>1, WorkFacts
<1>3. gen' = [gen EXCEPT !.futures = fs, !.failing = TRUE]
  BY FuturesFacts DEF Reraise
<1>4. fs \in Futures
  BY FuturesFacts DEF Futures
<1> HIDE DEF fs
<1>5. QED
  BY Zenon, <1>1, <1>2, <1>3, <1>4, FuturesFacts, MoveKeeps

\* An answer is saved, in a line of its own or glued to the last one.
LEMMA SaveKeeps == ASSUME GenInv, NEW c \in Cases, save(c) PROVE GenInv'
<1> DEFINE fs   == [gen.futures EXCEPT !.answered = @ \ {c}]
           lost == gen.glued \cup Glued(c)
<1>1. /\ c \in gen.futures.answered /\ ~ gen.failing /\ UNCHANGED << metadata, spoilt >>
      /\ lines' = Appended(Line(c, gen.mine)) /\ unended' = FALSE
  BY DEF save
<1>2. gen.at = "work"
  BY <1>1, WorkFacts
<1>3. /\ metadata = gen.mine /\ gen.mine \in Metadata /\ lines # NoFile
      /\ lines \in Seq(Answers \cup {Torn}) /\ ~ gen.ok /\ gen.glued \subseteq Cases
      /\ Shared(lines, gen.futures, gen.glued) /\ (unended => gen.glued = {} /\ lines # << >>)
      /\ unended \in BOOLEAN /\ FileInv
  BY <1>1, <1>2 DEF GenInv, RunInv, FileInv, WorkInv, GenRuns
<1>4. gen' = [gen EXCEPT !.futures = fs, !.glued = lost]
  BY FuturesFacts DEF save
<1>5. /\ fs.queue = gen.futures.queue /\ fs.running = gen.futures.running
      /\ fs.answered = gen.futures.answered \ {c} /\ fs.raised = gen.futures.raised
      /\ fs \in Futures
  BY FuturesFacts DEF Futures
<1> HIDE DEF fs
<1>6. FileInv' /\ lines' # NoFile
  BY <1>1, <1>3, FileKept
<1>7. c \notin Saved(lines) /\ Once(lines, gen.glued) /\ Saved(lines) \subseteq Cases
  BY <1>1, <1>3 DEF Shared
<1>8. lost \subseteq Cases /\ Shared(lines', fs, lost)
  <2>1. CASE ~ unended
    <3>1. lost = gen.glued /\ lines' = Append(lines, Line(c, gen.mine))
      BY <2>1, <1>1 DEF Glued, Appended
    <3> HIDE DEF lost
    <3>2. Once(lines', lost) /\ Saved(lines') = Saved(lines) \cup {c}
      BY <3>1, <1>3, <1>7, SavedGrows
    <3>3. QED
      BY <3>1, <3>2, <1>1, <1>3, <1>5 DEF Shared
  <2>2. CASE unended
    <3> DEFINE d == lines[Len(lines)].case
    <3>1. lost = {d, c} /\ gen.glued = {} /\ lines' = [lines EXCEPT ![Len(lines)] = Torn]
      BY <2>2, <1>1, <1>3 DEF Glued, Appended
    <3> HIDE DEF lost
    <3>2. d \in Saved(lines) /\ Once(lines', {d, c}) /\ Saved(lines') = Saved(lines) \ {d}
      BY <3>1, <2>2, <1>3, <1>7, GlueFacts
    <3> HIDE DEF d
    <3>3. lost \subseteq Cases /\ Once(lines', lost)
      BY <3>1, <3>2, <1>7
    <3>4. /\ fs.queue \cap (fs.running \cup fs.answered \cup fs.raised) = {}
          /\ fs.running \cap (fs.answered \cup fs.raised) = {}
          /\ fs.answered \cap fs.raised = {}
      BY <1>3, <1>5 DEF Shared
    <3>5. /\ Saved(lines') \cap (fs.queue \cup fs.running \cup fs.answered \cup fs.raised) = {}
          /\ lost \cap (Saved(lines') \cup fs.queue \cup fs.running \cup fs.answered
                        \cup fs.raised) = {}
          /\ lost \cup Saved(lines') \cup fs.queue \cup fs.running \cup fs.answered
               \cup fs.raised = Cases
      <4>1. /\ gen.futures.queue \cap (gen.futures.running \cup gen.futures.answered) = {}
            /\ gen.futures.answered \cap (gen.futures.running \cup gen.futures.raised) = {}
            /\ Saved(lines) \cap (gen.futures.queue \cup gen.futures.running
                                  \cup gen.futures.answered \cup gen.futures.raised) = {}
            /\ Saved(lines) \cup gen.futures.queue \cup gen.futures.running
                 \cup gen.futures.answered \cup gen.futures.raised = Cases
        BY <1>3, <3>1 DEF Shared
      <4>2. OneEach(Saved(lines) \ {d}, {d, c}, gen.futures.queue, gen.futures.running,
                    gen.futures.answered \ {c}, gen.futures.raised)
        BY Zenon, <4>1, <3>2, <1>1, TakenOut
      <4>3. OneEach(Saved(lines'), lost, fs.queue, fs.running, fs.answered, fs.raised)
        BY Zenon, <4>2, <3>1, <3>2, <1>5
      <4>4. QED
        BY Zenon, <4>3 DEF OneEach
    <3>6. QED
      BY Zenon, <3>3, <3>4, <3>5 DEF Shared
  <2>3. QED
    BY <2>1, <2>2, <1>3
<1> HIDE DEF lost
<1>9. /\ gen'.at = "work" /\ gen'.mine = gen.mine /\ gen'.futures = fs
      /\ gen'.failing = gen.failing /\ gen'.ok = gen.ok /\ gen'.glued = lost
      /\ gen' \in GenRuns
  BY <1>2, <1>4, <1>5, <1>8 DEF GenInv, RunInv, GenPlaces, GenRuns
<1>10. RunInv'
  BY <1>1, <1>3, <1>6, <1>9 DEF GenInv, RunInv
<1>11. WorkInv'
  BY <1>1, <1>3, <1>8, <1>9 DEF WorkInv
<1>12. QED
  BY <1>6, <1>10, <1>11 DEF GenInv

\* An answer is not saved, or not to its end, or its newline is not.
LEMMA SaveFailsKeeps == ASSUME GenInv, NEW c \in Cases, save_fails(c) PROVE GenInv'
<1> DEFINE fs == [gen.futures EXCEPT !.answered = @ \ {c}]
<1>1. /\ c \in gen.futures.answered /\ UNCHANGED metadata
      /\ spoilt < MaxFailures /\ spoilt' = spoilt + 1
  BY DEF save_fails
<1>2. gen.at = "work"
  BY <1>1, WorkFacts
<1>3. /\ metadata = gen.mine /\ gen.mine \in Metadata /\ lines # NoFile
      /\ ~ gen.ok /\ FileInv
  BY <1>2 DEF GenInv, RunInv, FileInv, WorkInv
<1>4. gen' = [gen EXCEPT !.futures = fs, !.failing = TRUE]
  BY FuturesFacts DEF save_fails
<1>5. fs \in Futures
  BY FuturesFacts DEF Futures
<1> HIDE DEF fs
<1>6. FileInv' /\ lines' # NoFile
  <2>1. CASE UNCHANGED << lines, unended >>
    BY <2>1, <1>1, <1>3 DEF FileInv
  <2>2. CASE lines' = Appended(Torn) /\ unended' = TRUE
    BY <2>2, <1>1, <1>3, FileKept
  <2>3. CASE lines' = Appended(Line(c, gen.mine)) /\ unended' \in BOOLEAN
    BY <2>3, <1>1, <1>3, FileKept
  <2>4. QED
    BY <2>1, <2>2, <2>3 DEF save_fails
<1>7. /\ gen'.at = "work" /\ gen'.mine = gen.mine /\ gen'.futures = fs
      /\ gen'.failing = TRUE /\ gen'.ok = gen.ok /\ gen'.glued = gen.glued
      /\ gen' \in GenRuns
  BY Zenon, <1>2, <1>4, <1>5 DEF GenInv, RunInv, GenPlaces, GenRuns
<1>8. spoilt' \in 0 .. MaxFailures
  BY <1>1, FuturesFacts, BoundsOK
<1>9. RunInv'
  BY <1>1, <1>3, <1>6, <1>7, <1>8 DEF GenInv, RunInv
<1>10. WorkInv'
  BY <1>3, <1>7 DEF WorkInv
<1>11. QED
  BY <1>6, <1>9, <1>10 DEF GenInv

\* A run returns when every future is done and saved.
LEMMA ReturnKeeps == ASSUME GenInv, Return PROVE GenInv'
<1>1. /\ gen.at = "work" /\ ~ gen.failing /\ gen.futures = NoFuture
      /\ gen' = [NotGenerating(TRUE) EXCEPT !.mine = gen.mine, !.glued = gen.glued]
      /\ UNCHANGED << metadata, lines, unended, spoilt >>
  BY DEF Return, AllSaved
<1>2. gen.mine \in Metadata /\ metadata = gen.mine /\ lines # NoFile
      /\ Shared(lines, gen.futures, gen.glued) /\ gen.glued \subseteq Cases
  BY <1>1 DEF GenInv, RunInv, WorkInv, GenRuns
<1>3. /\ gen'.at = "off" /\ gen'.mine = gen.mine /\ gen'.futures = NoFuture
      /\ gen'.failing = FALSE /\ gen'.ok = TRUE /\ gen'.glued = gen.glued
      /\ gen' \in GenRuns
  BY Zenon, <1>1, <1>2 DEF NotGenerating, NoFuture, Futures, GenPlaces, GenRuns
<1>4. FileInv'
  BY <1>1 DEF GenInv, FileInv
<1>5. RunInv'
  BY Zenon, <1>1, <1>2, <1>3 DEF GenInv, RunInv
<1>6. WorkInv'
  BY Zenon, <1>1, <1>2, <1>3 DEF WorkInv
<1>7. QED
  BY <1>4, <1>5, <1>6 DEF GenInv

\* A run begins at the gate with the suite of the moment.
LEMMA StartRunKeeps ==
  ASSUME GenInv, Suites, NEW model \in Weights, NEW workers \in Pools, StartRun(model, workers)
  PROVE  GenInv'
<1> DEFINE m == [suite |-> suite, model |-> model, workers |-> workers]
<1>1. /\ suite > 0 /\ gen' = [NotGenerating(FALSE) EXCEPT !.at = "gate", !.mine = m]
      /\ UNCHANGED << metadata, lines, unended, spoilt >>
  BY DEF StartRun
<1>2. suite \in 1 .. MaxAuthors
  BY <1>1, TriesOK DEF Suites
<1>3. m \in Metadata
  BY <1>2 DEF Metadata
<1> HIDE DEF m
<1>4. /\ gen'.at = "gate" /\ gen'.mine = m /\ gen'.futures = NoFuture
      /\ gen'.failing = FALSE /\ gen'.ok = FALSE /\ gen'.glued = {}
      /\ gen' \in GenRuns
  BY Zenon, <1>1, <1>3 DEF NotGenerating, NoFuture, Futures, GenPlaces, GenRuns
<1>5. FileInv'
  BY <1>1 DEF GenInv, FileInv
<1>6. RunInv'
  BY Zenon, <1>1, <1>3, <1>4 DEF GenInv, RunInv
<1>7. WorkInv'
  BY <1>4 DEF WorkInv
<1>8. QED
  BY <1>5, <1>6, <1>7 DEF GenInv

\* Every step of a generation keeps its invariant.
LEMMA GenStep ==
  ASSUME GenInv, Suites,
         \/ \E model \in Weights, workers \in Pools : StartRun(model, workers)
         \/ PredictionsNext
  PROVE  GenInv'
<1>1. CASE \E model \in Weights, workers \in Pools : StartRun(model, workers)
  BY <1>1, StartRunKeeps
<1>2. CASE Gate
  BY <1>2, GateKeeps
<1>3. CASE Stamp
  BY <1>3, StampKeeps
<1>4. CASE Load
  BY <1>4, LoadKeeps
<1>5. CASE Take
  BY <1>5, TakeKeeps
<1>6. CASE Return
  BY <1>6, ReturnKeeps
<1>7. CASE Leave
  BY <1>7, FailKeeps DEF Leave
<1>8. CASE KillRun
  BY <1>8, FailKeeps DEF KillRun
<1>9. ASSUME NEW c \in Cases, Answer(c) \/ Raise(c) \/ save(c) \/ save_fails(c) \/ Reraise(c)
      PROVE  GenInv'
  BY <1>9, AnswerKeeps, RaiseKeeps, SaveKeeps, SaveFailsKeeps, ReraiseKeeps
<1>10. QED
  BY <1>1, <1>2, <1>3, <1>4, <1>5, <1>6, <1>7, <1>8, <1>9 DEF PredictionsNext

-----------------------------------------------------------------------------
\* A row of results says pass exactly when the case was earned.
LEMMA StagesEarned ==
  ASSUME NEW c \in Cases, NEW outcome \in Outcomes
  PROVE  /\ stages(Check[c], outcome).compile \in Statuses
         /\ stages(Check[c], outcome).test \in Statuses
         /\ Earned(Check[c], outcome) \in BOOLEAN
         /\ stages(Check[c], outcome).test = "pass" <=> Earned(Check[c], outcome)
         /\ Earned(Check[c], outcome) => Check[c].test
<1>1. /\ Check[c].compile \in BOOLEAN /\ Check[c].test \in BOOLEAN
      /\ Check[c].run \in BOOLEAN /\ Check[c].stdout \in BOOLEAN
  BY CheckOK
<1>2. /\ outcome.compile \in Exits /\ outcome.test \in Exits /\ outcome.run \in Exits
      /\ outcome.equal \in BOOLEAN
  BY OutcomesOK
<1>3. \A e \in Exits : /\ _run_trusted(e) \in Statuses /\ _run_trusted(e) # "not_run"
                       /\ _run_trusted(e) = "pass" <=> e = "zero"
  BY DEF Exits, Statuses, _run_trusted
<1> DEFINE compiled == IF Check[c].compile THEN _run_trusted(outcome.compile) ELSE "not_run"
           tested   == _run_trusted(outcome.test)
           ran      == IF tested = "pass" /\ Check[c].run THEN _run_trusted(outcome.run)
                       ELSE tested
<1>4. /\ stages(Check[c], outcome).compile = compiled
      /\ stages(Check[c], outcome).test =
           (IF ~ Check[c].test \/ compiled \notin {"pass", "not_run"} THEN "not_run"
            ELSE IF ran = "pass" /\ Check[c].stdout /\ ~ outcome.equal THEN "fail" ELSE ran)
  BY DEF stages
<1>5. compiled \in Statuses /\ ran \in Statuses
  BY <1>2, <1>3 DEF Statuses
<1>6. stages(Check[c], outcome).compile \in Statuses
      /\ stages(Check[c], outcome).test \in Statuses
  <2> HIDE DEF compiled, ran
  <2>1. QED
    BY <1>4, <1>5 DEF Statuses
<1>7. compiled \in {"pass", "not_run"} <=> (Check[c].compile => outcome.compile = "zero")
  BY <1>1, <1>2, <1>3
<1>8. ran = "pass" <=> outcome.test = "zero" /\ (Check[c].run => outcome.run = "zero")
  BY <1>1, <1>2, <1>3
<1>9. stages(Check[c], outcome).test = "pass" <=> Earned(Check[c], outcome)
  <2> HIDE DEF compiled, ran
  <2>1. QED
    BY <1>1, <1>2, <1>4, <1>7, <1>8 DEF Earned
<1>10. Earned(Check[c], outcome) \in BOOLEAN /\ (Earned(Check[c], outcome) => Check[c].test)
  BY DEF Earned
<1>11. QED
  BY <1>6, <1>9, <1>10

\* Of rows that say pass when earned, as many pass among the eligible cases as
\* are earned in all, and no more pass than are eligible.
LEMMA TestedIsEarned ==
  ASSUME NEW rows, RowsOK(rows), DOMAIN rows = Cases
  PROVE  /\ summarize_results(rows).total = Cardinality(Cases)
         /\ summarize_results(rows).tested = Quantify(Cases, LAMBDA c : rows[c].earned)
         /\ summarize_results(rows).tested <= summarize_results(rows).test_of
<1> DEFINE eligible == {c \in Cases : Check[c].test \/ Check[c].run}
           passed   == {c \in eligible : rows[c].test = "pass"}
           earned   == {c \in Cases : rows[c].earned}
<1>1. /\ summarize_results(rows).total = Cardinality(Cases)
      /\ summarize_results(rows).tested = Cardinality(passed)
      /\ summarize_results(rows).test_of = Cardinality(eligible)
  BY DEF summarize_results
<1>2. passed = earned
  BY DEF RowsOK
<1>3. Quantify(Cases, LAMBDA c : rows[c].earned) = Cardinality(earned)
  BY DEF Quantify
<1>4. IsFiniteSet(Cases) /\ eligible \subseteq Cases /\ passed \subseteq eligible
  BY CasesOK
<1> HIDE DEF eligible, passed
<1>5. IsFiniteSet(eligible)
  BY <1>4, FS_Subset
<1>6. Cardinality(passed) <= Cardinality(eligible)
  BY <1>4, <1>5, FS_Subset
<1>7. QED
  BY <1>1, <1>2, <1>3, <1>6

EvalRuns == [at : EvalPlaces, done : Rows, refused : BOOLEAN, ok : BOOLEAN]

\* An evaluation that is not running.
LEMMA NotEvaluatingFacts ==
  ASSUME NEW ok \in BOOLEAN
  PROVE  /\ NotEvaluating(ok) \in EvalRuns /\ NotEvaluating(ok).at = "off"
         /\ NotEvaluating(ok).done = NoResult /\ NotEvaluating(ok).ok = ok
         /\ NotEvaluating(ok).refused = FALSE
         /\ NoResult \in Rows /\ RowsOK(NoResult)
<1>1. NoResult \in [{} -> Row] /\ {} \in SUBSET Cases
  BY DEF NoResult
<1>2. NoResult \in Rows
  BY <1>1 DEF Rows
<1>3. RowsOK(NoResult)
  BY DEF RowsOK, NoResult
<1>4. QED
  BY <1>2, <1>3 DEF NotEvaluating, EvalRuns, EvalPlaces

\* An evaluation that ends without a summary leaves nothing to account for.
LEMMA EvalEnds ==
  ASSUME evaluation' = NotEvaluating(FALSE)
  PROVE  EvalInv'
<1>1. /\ NotEvaluating(FALSE) \in EvalRuns /\ NotEvaluating(FALSE).at = "off"
      /\ NotEvaluating(FALSE).done = NoResult /\ NotEvaluating(FALSE).ok = FALSE
      /\ RowsOK(NoResult)
  BY Zenon, NotEvaluatingFacts
<1>2. evaluation' \in EvalRuns /\ evaluation'.at = "off" /\ evaluation'.done = NoResult
      /\ ~ evaluation'.ok
  BY Zenon, <1>1
<1>3. RowsOK(evaluation'.done)
  BY Zenon, <1>1, <1>2
<1>4. QED
  BY Zenon, <1>2, <1>3 DEF EvalInv, EvalRuns

\* One more row.
LEMMA DoneFacts ==
  ASSUME EvalInv, NEW c \in Cases, NEW row \in Row,
         row.test = "pass" <=> row.earned, row.earned => Check[c].test
  PROVE  Done(c, row) \in Rows /\ RowsOK(Done(c, row))
<1>1. PICK d \in SUBSET Cases : evaluation.done \in [d -> Row]
  BY DEF EvalInv, Rows
<1>2. Done(c, row) \in [d \cup {c} -> Row] /\ d \cup {c} \in SUBSET Cases
  BY <1>1 DEF Done
<1>3. Done(c, row) \in Rows
  BY <1>2 DEF Rows
<1>4. \A e \in DOMAIN Done(c, row) :
        Done(c, row)[e] = (IF e = c THEN row ELSE evaluation.done[e])
        /\ (e # c => e \in DOMAIN evaluation.done)
  BY DEF Done
<1>5. RowsOK(Done(c, row))
  BY <1>4 DEF RowsOK, EvalInv
<1>6. QED
  BY <1>3, <1>5

\* While cases are evaluated, rows are added and nothing else happens.
LEMMA RowAdded ==
  ASSUME EvalInv, evaluation.at = "check", NEW c \in Cases, NEW row \in Row,
         row.test = "pass" <=> row.earned, row.earned => Check[c].test,
         NEW r \in BOOLEAN,
         evaluation' = [evaluation EXCEPT !.refused = r, !.done = Done(c, row)]
  PROVE  EvalInv'
<1>1. Done(c, row) \in Rows /\ RowsOK(Done(c, row))
  BY DoneFacts
<1>2. ~ evaluation.ok
  BY DEF EvalInv
<1>3. /\ evaluation' \in EvalRuns /\ evaluation'.at = "check"
      /\ evaluation'.done = Done(c, row) /\ evaluation'.ok = evaluation.ok
  BY Zenon, <1>1 DEF EvalInv, EvalRuns
<1>4. QED
  BY <1>1, <1>2, <1>3 DEF EvalInv, EvalRuns

\* Every step of the evaluation keeps its invariant.
LEMMA EvalStep ==
  ASSUME EvalInv, StartEvaluation \/ EvaluationNext
  PROVE  EvalInv'
<1>1. CASE StartEvaluation
  <2>1. CASE evaluation' = NotEvaluating(FALSE)
    BY <2>1, EvalEnds
  <2>2. CASE evaluation' = [NotEvaluating(FALSE) EXCEPT !.at = "check"]
    <3>1. /\ NotEvaluating(FALSE) \in EvalRuns /\ NotEvaluating(FALSE).done = NoResult
          /\ NotEvaluating(FALSE).ok = FALSE /\ RowsOK(NoResult)
      BY Zenon, NotEvaluatingFacts
    <3>2. /\ evaluation' \in EvalRuns /\ evaluation'.at = "check"
          /\ evaluation'.done = NoResult /\ ~ evaluation'.ok
      BY Zenon, <3>1, <2>2 DEF EvalRuns, EvalPlaces
    <3>3. RowsOK(evaluation'.done)
      BY <3>1, <3>2
    <3>4. QED
      BY <3>2, <3>3 DEF EvalInv, EvalRuns
  <2>3. QED
    BY Zenon, <1>1, <2>1, <2>2 DEF StartEvaluation
<1>2. CASE \E c \in Cases, outcome \in Outcomes : evaluate_prediction(c, outcome)
  <2>1. PICK c \in Cases, outcome \in Outcomes : evaluate_prediction(c, outcome)
    BY <1>2
  <2> DEFINE row == [compile |-> stages(Check[c], outcome).compile,
                     test |-> stages(Check[c], outcome).test,
                     earned |-> Earned(Check[c], outcome)]
  <2>2. row \in Row /\ (row.test = "pass" <=> row.earned) /\ (row.earned => Check[c].test)
    BY StagesEarned DEF Row
  <2>3. /\ evaluation.at = "check"
        /\ evaluation' = [evaluation EXCEPT !.done = Done(c, row)]
    BY <2>1 DEF evaluate_prediction, Current
  <2> HIDE DEF row
  <2>4. evaluation.refused \in BOOLEAN
        /\ evaluation' = [evaluation EXCEPT !.refused = evaluation.refused, !.done = Done(c, row)]
    BY Zenon, <2>3 DEF EvalInv
  <2>5. QED
    BY Zenon, <2>2, <2>3, <2>4, RowAdded
<1>3. CASE \E c \in Cases : Refused(c)
  <2>1. PICK c \in Cases : Refused(c)
    BY <1>3
  <2> DEFINE row == [compile |-> "not_run", test |-> "not_run", earned |-> FALSE]
  <2>2. row \in Row /\ (row.test = "pass" <=> row.earned) /\ (row.earned => Check[c].test)
    BY DEF Row, Statuses
  <2>3. /\ evaluation.at = "check"
        /\ evaluation' = [evaluation EXCEPT !.refused = TRUE, !.done = Done(c, row)]
    BY <2>1 DEF Refused, Current
  <2> HIDE DEF row
  <2>4. QED
    BY Zenon, <2>2, <2>3, RowAdded
<1>4. CASE Gather
  <2>1. CASE evaluation.refused
    BY <1>4, <2>1, EvalEnds DEF Gather
  <2>2. CASE ~ evaluation.refused
    <3>1. /\ evaluation.at = "check" /\ DOMAIN evaluation.done = Cases
          /\ evaluation' = [evaluation EXCEPT !.at = "results"]
      BY <1>4, <2>2 DEF Gather
    <3>2. /\ evaluation' \in EvalRuns /\ evaluation'.at = "results"
          /\ evaluation'.done = evaluation.done /\ evaluation'.ok = evaluation.ok
      BY <3>1 DEF EvalInv, EvalRuns, EvalPlaces
    <3>3. QED
      BY <3>1, <3>2 DEF EvalInv, EvalRuns
  <2>3. QED
    BY <2>1, <2>2
<1>5. CASE write_results
  <2>1. /\ evaluation.at = "results" /\ results' = evaluation.done
        /\ evaluation' = [evaluation EXCEPT !.at = "summary"]
    BY <1>5 DEF write_results
  <2>2. /\ evaluation' \in EvalRuns /\ evaluation'.at = "summary"
        /\ evaluation'.done = evaluation.done /\ evaluation'.ok = evaluation.ok
    BY <2>1 DEF EvalInv, EvalRuns, EvalPlaces
  <2>3. QED
    BY <2>1, <2>2 DEF EvalInv, EvalRuns
<1>6. CASE write_summary
  <2>1. /\ evaluation.at = "summary" /\ summary' = summarize_results(evaluation.done)
        /\ evaluation' = NotEvaluating(TRUE) /\ results' = results
    BY <1>6 DEF write_summary
  <2>2. /\ results = evaluation.done /\ DOMAIN evaluation.done = Cases
        /\ evaluation.done \in Rows /\ RowsOK(evaluation.done)
    BY <2>1 DEF EvalInv
  <2>3. /\ evaluation' \in EvalRuns /\ evaluation'.at = "off" /\ RowsOK(evaluation'.done)
    <3>1. TRUE \in BOOLEAN
      OBVIOUS
    <3>2. QED
      BY Zenon, <2>1, <3>1, NotEvaluatingFacts
  <2>4. summary' = summarize_results(results')
    BY <2>1, <2>2
  <2>5. results' \in Rows /\ RowsOK(results') /\ DOMAIN results' = Cases
    BY <2>1, <2>2
  <2>6. QED
    BY <2>3, <2>4, <2>5 DEF EvalInv, EvalRuns
<1>7. CASE KillEvaluation
  BY <1>7, EvalEnds DEF KillEvaluation
<1>8. QED
  BY <1>1, <1>2, <1>3, <1>4, <1>5, <1>6, <1>7 DEF EvaluationNext

-----------------------------------------------------------------------------
\* A step of a script keeps the invariant of all three.
LEMMA HarnessStep ==
  ASSUME HarnessInv, HarnessNext
  PROVE  HarnessInv'
<1>1. AuthorInv /\ GenInv /\ EvalInv /\ StartedInv /\ Suites
  BY DEF HarnessInv, GenInv, AuthorInv, Suites
<1>2. \A s \in Scripts : \A limit : Start(s, limit) => StartedInv'
  BY <1>1 DEF Start, StartedInv
<1>3. CASE Author
  <2>1. UNCHANGED << genVars, evalVars >>
    BY <1>3 DEF Author
  <2>2. AuthorInv'
    BY <1>1, <1>3, AuthorStep DEF Author
  <2>3. GenInv'
    BY <1>1, <2>1 DEF genVars, GenInv, FileInv, RunInv, WorkInv
  <2>4. EvalInv'
    BY <1>1, <2>1 DEF evalVars, EvalInv
  <2>5. StartedInv'
    BY <1>1, <1>2, <1>3 DEF Author, Scripts, StartedInv
  <2>6. QED
    BY <2>2, <2>3, <2>4, <2>5 DEF HarnessInv, GenInv
<1>4. CASE Generate
  <2>1. UNCHANGED << authorVars, evalVars >>
    BY <1>4 DEF Generate
  <2>2. AuthorInv'
    BY <1>1, <2>1 DEF authorVars, AuthorInv
  <2>3. GenInv'
    BY <1>1, <1>4, GenStep DEF Generate
  <2>4. EvalInv'
    BY <1>1, <2>1 DEF evalVars, EvalInv
  <2>5. StartedInv'
    BY <1>1, <1>2, <1>4 DEF Generate, Scripts, StartedInv
  <2>6. QED
    BY <2>2, <2>3, <2>4, <2>5 DEF HarnessInv, GenInv
<1>5. CASE Score
  <2>1. UNCHANGED << authorVars, metadata, lines, unended, gen >>
    BY <1>5 DEF Score
  <2>2. AuthorInv'
    BY <1>1, <2>1 DEF authorVars, AuthorInv
  <2>3. spoilt' \in 0 .. MaxFailures
    <3>1. spoilt \in 0 .. MaxFailures
      BY <1>1, FuturesFacts
    <3>2. spoilt' = spoilt \/ (spoilt < MaxFailures /\ spoilt' = spoilt + 1)
      BY Zenon, <1>5 DEF Score, EvaluationNext, Refused
    <3>3. QED
      BY <3>1, <3>2, BoundsOK
  <2>4. FileInv' /\ WorkInv'
    BY <1>1, <2>1 DEF GenInv, FileInv, WorkInv
  <2>5. RunInv'
    BY <1>1, <2>1, <2>3 DEF GenInv, RunInv
  <2>6. EvalInv'
    BY <1>1, <1>5, EvalStep DEF Score
  <2>7. StartedInv'
    BY <1>1, <1>2, <1>5 DEF Score, Scripts, StartedInv
  <2>8. QED
    BY <2>2, <2>4, <2>5, <2>6, <2>7 DEF HarnessInv
<1>6. QED
  BY <1>3, <1>4, <1>5 DEF HarnessNext

\* The inductive invariant of the benchmark scripts (generate_code_benchmark.py,
\* code_generation.py, evaluate_code_benchmark.py).
THEOREM HarnessInvariant == Spec => []HarnessInv
<1>1. Init => HarnessInv
  <2> SUFFICES ASSUME Init PROVE HarnessInv
    OBVIOUS
  <2>1. AuthoringInit /\ PredictionsInit /\ EvaluationInit /\ started = [s \in Scripts |-> 0]
    BY DEF Init, HarnessInit
  <2>2. AuthorInv
    BY <2>1, AuthorStarts
  <2>3. GenInv
    BY <2>1, GenStarts
  <2>4. EvalInv
    <3>1. evaluation = NotEvaluating(FALSE)
      BY <2>1 DEF EvaluationInit
    <3>2. /\ evaluation \in EvalRuns /\ evaluation.at = "off" /\ ~ evaluation.ok
          /\ RowsOK(evaluation.done)
      BY Zenon, <3>1, NotEvaluatingFacts
    <3>3. QED
      BY <3>2 DEF EvalInv, EvalRuns
  <2>5. StartedInv
    BY <2>1 DEF StartedInv
  <2>6. QED
    BY <2>2, <2>3, <2>4, <2>5 DEF HarnessInv, GenInv
<1>2. HarnessInv /\ [Next]_vars => HarnessInv'
  <2> SUFFICES ASSUME HarnessInv, [Next]_vars PROVE HarnessInv'
    OBVIOUS
  <2>1. CASE HarnessNext
    BY <2>1, HarnessStep
  <2>2. CASE UNCHANGED harnessVars
    BY <2>2 DEF harnessVars, authorVars, genVars, evalVars, HarnessInv, AuthorInv, FileInv,
                RunInv, WorkInv, EvalInv, StartedInv
  <2>3. HarnessNext \/ UNCHANGED harnessVars
    BY DEF Next, vars
  <2>4. QED
    BY <2>1, <2>2, <2>3
<1>3. QED
  BY <1>1, <1>2, PTL DEF Spec

\* For every suite, model, pool and number of failures, all answers of the file
\* come from the suite and the model its metadata names, whatever runs were
\* refused, killed or resumed (code_generation.py, metadata gate).
THEOREM AnswersHaveOneSource == Spec => []OneSource
<1>1. HarnessInv => OneSource
  <2> SUFFICES ASSUME HarnessInv, lines # NoFile
               PROVE  /\ Whole(metadata)
                      /\ \A i \in DOMAIN lines :
                           Whole(lines[i]) => lines[i] = Line(lines[i].case, metadata)
    BY DEF OneSource, Exists
  <2>1. metadata \in Metadata
    BY DEF HarnessInv, FileInv
  <2>2. Whole(metadata)
    BY <2>1, FilesOK DEF Whole
  <2>3. ASSUME NEW i \in DOMAIN lines, Whole(lines[i])
        PROVE  lines[i] = Line(lines[i].case, metadata)
    <3>1. PICK c \in Cases : lines[i] = Line(c, metadata)
      BY <2>3 DEF HarnessInv, FileInv, Whole
    <3>2. QED
      BY <3>1 DEF Line
  <2>4. QED
    BY <2>2, <2>3
<1>2. QED
  BY <1>1, HarnessInvariant, PTL

\* When a generation returns, the file has one line of its suite and model for
\* each case and reads back whole; if it began behind a line without its newline
\* and had something to add, exactly one line is unreadable and exactly two
\* answers are lost in it.  So it is whatever the workers, the order the answers
\* came in, and the runs before (generate_predictions, save).
THEOREM ReturnedRunIsWhole == Spec => []ReadyIsWhole
<1>1. HarnessInv => ReadyIsWhole
  <2> SUFFICES ASSUME HarnessInv, gen.ok PROVE ReadyIsWhole
    BY DEF ReadyIsWhole
  <2>1. lines # NoFile /\ metadata = gen.mine /\ Shared(lines, NoFuture, gen.glued)
    BY DEF HarnessInv, WorkInv
  <2>2. Once(lines, gen.glued) /\ Saved(lines) = Cases \ gen.glued
    BY <2>1 DEF Shared, NoFuture
  <2>3. \A i \in DOMAIN lines :
          Whole(lines[i]) => \E c \in Cases : lines[i] = Line(c, gen.mine)
    BY <2>1 DEF HarnessInv, FileInv, Whole
  <2>4. \A c \in Cases : Line(c, gen.mine).case = c
    BY DEF Line
  <2>5. ASSUME NEW c \in Cases \ gen.glued
        PROVE  \E i \in DOMAIN lines :
                 /\ lines[i] = Line(c, gen.mine)
                 /\ \A j \in DOMAIN lines : Whole(lines[j]) /\ lines[j].case = c => j = i
    <3>1. PICK i \in DOMAIN lines : Whole(lines[i]) /\ lines[i].case = c
      BY <2>2 DEF Saved
    <3>2. lines[i] = Line(c, gen.mine)
      BY <3>1, <2>3, <2>4
    <3>3. QED
      BY <3>1, <3>2, <2>2 DEF Once
  <2>6. CASE gen.glued = {}
    <3>1. \A i \in DOMAIN lines : Whole(lines[i])
      BY <2>2, <2>6 DEF Once
    <3>2. Readable(lines)
      BY <3>1, <2>2 DEF Readable, Once
    <3>3. QED
      BY <2>2, <2>5, <2>6, <3>2 DEF ReadyIsWhole
  <2>7. CASE gen.glued # {}
    <3>1. /\ \E c, d \in Cases : c # d /\ gen.glued = {c, d}
          /\ \E i \in DOMAIN lines : \A j \in DOMAIN lines : Whole(lines[j]) <=> j # i
      BY <2>2, <2>7 DEF Once
    <3>2. QED
      BY <2>2, <2>5, <2>7, <3>1 DEF ReadyIsWhole
  <2>8. QED
    BY <2>6, <2>7
<1>2. QED
  BY <1>1, HarnessInvariant, PTL

\* In a finished evaluation as many tests are counted as passed as there are
\* cases for which every command that is asked for succeeded on the right
\* output, for every suite and whatever the commands do (evaluate_prediction,
\* summarize_results).
THEOREM ScoresAreEarned == Spec => []ScoreEarned
<1>1. HarnessInv => ScoreEarned
  <2> SUFFICES ASSUME HarnessInv, evaluation.ok PROVE ScoreEarned
    BY DEF ScoreEarned
  <2>1. RowsOK(results) /\ DOMAIN results = Cases /\ summary = summarize_results(results)
    BY DEF HarnessInv, EvalInv
  <2>2. /\ summarize_results(results).total = Cardinality(Cases)
        /\ summarize_results(results).tested = Quantify(Cases, LAMBDA c : results[c].earned)
        /\ summarize_results(results).tested <= summarize_results(results).test_of
    BY Zenon, <2>1, TestedIsEarned
  <2>3. QED
    BY <2>1, <2>2 DEF ScoreEarned
<1>2. QED
  BY <1>1, HarnessInvariant, PTL

-----------------------------------------------------------------------------
(***************************************************************************)
(* The verifier of recordings.                                             *)
(***************************************************************************)

\* An edit of h1 that gives h2, and its delta.
Edited(h1, h2, d) ==
  \E start, end \in 0 .. MaxLines, new \in Replay!Contents \cup {<< >>} :
    /\ start <= end /\ end <= Len(h1)
    /\ d = Replay!compute_delta(h1, start, end, new)
    /\ h2 = Replay!splice_lines(h1, start, end, new)

\* A recording: the buffer before the first edit and after each one.
History(h) ==
  /\ h \in Seq(Replay!Contents) /\ Len(h) = Len(deltas) + 1
  /\ first = Replay!canonical_bytes(h[1]) /\ live = h[Len(h)]
  /\ \A i \in 1 .. Len(deltas) : Edited(h[i], h[i + 1], deltas[i])

\* The verifier has rebuilt the buffer as it was after the deltas it looked at.
Caught(h) == done >= 0 /\ first # Replay!EmptyFile => rebuilt = h[done + 1]

\* As long as there is a recording like that, no delta fails to fit.
ReplayInv ==
  tool = "replay" =>
    /\ deltas \in Seq(Replay!Deltas) /\ done \in -1 .. Len(deltas) /\ failures = 0
    /\ done >= 0 /\ first = Replay!EmptyFile => done = Len(deltas)
    /\ \E h : History(h) /\ Caught(h)

\* A buffer is a sequence of one line or more.
LEMMA ContentsFacts ==
  ASSUME NEW c \in Replay!Contents
  PROVE  c \in Seq(Lines) /\ Len(c) \in 1 .. MaxLines /\ c # << >>
<1>1. PICK n \in 1 .. MaxLines : c \in [1 .. n -> Lines]
  BY DEF Replay!Contents
<1>2. c \in Seq(Lines) /\ Len(c) = n
  BY <1>1, RecordingOK
<1>3. QED
  BY <1>2, RecordingOK

\* Sequences of lines that are not too long are buffers.
LEMMA ContentsIntro ==
  ASSUME NEW c \in Seq(Lines), Len(c) \in 1 .. MaxLines
  PROVE  c \in Replay!Contents
<1>1. c \in [1 .. Len(c) -> Lines]
  OBVIOUS
<1>2. QED
  BY <1>1 DEF Replay!Contents

\* What is cut out of a buffer between two rows of it.
LEMMA SliceRows ==
  ASSUME NEW s \in Seq(Lines), NEW f \in Nat, NEW l \in Nat, f <= l, l <= Len(s)
  PROVE  /\ Replay!Slice(s, f, l) = SubSeq(s, f + 1, l)
         /\ Replay!Slice(s, f, l) = [i \in 1 .. (l - f) |-> Replay!RowOrBlank(s, f + i)]
         /\ Replay!Slice(s, f, l) \in Seq(Lines)
<1> DEFINE t == [i \in 1 .. (l - f) |-> Replay!RowOrBlank(s, f + i)]
<1>1. Len(s) \in Nat
  BY LenProperties
<1>2. Replay!AtMost(l, Len(s)) = l
  BY <1>1 DEF Replay!AtMost
<1>3. Replay!Slice(s, f, l) = SubSeq(s, f + 1, l)
  BY <1>2 DEF Replay!Slice
<1>4. /\ SubSeq(s, f + 1, l) \in Seq(Lines) /\ Len(SubSeq(s, f + 1, l)) = l - f
      /\ \A i \in 1 .. l - f : SubSeq(s, f + 1, l)[i] = s[f + i]
  BY CutRows
<1>5. \A i \in 1 .. l - f : f + i <= Len(s) /\ f + i \in 1 .. Len(s)
  BY <1>1
<1>6. \A i \in 1 .. l - f : Replay!RowOrBlank(s, f + i) = s[f + i] /\ s[f + i] \in Lines
  BY <1>5 DEF Replay!RowOrBlank
<1>7. t \in Seq(Lines) /\ Len(t) = l - f /\ \A i \in 1 .. l - f : t[i] = s[f + i]
  <2>1. t \in [1 .. (l - f) -> Lines]
    BY Zenon, <1>6
  <2>2. \A i \in 1 .. l - f : t[i] = s[f + i]
    BY <1>6
  <2>3. l - f \in Nat
    OBVIOUS
  <2> HIDE DEF t
  <2>4. QED
    BY <2>1, <2>2, <2>3
<1> HIDE DEF t
<1>8. SubSeq(s, f + 1, l) = t
  BY <1>4, <1>7, SameRows
<1>9. QED
  BY <1>3, <1>4, <1>8 DEF t

\* What a splice of a buffer is made of.
LEMMA SpliceIs ==
  ASSUME NEW s \in Seq(Lines), NEW f \in Nat, NEW l \in Nat, f <= l, l <= Len(s), NEW new
  PROVE  Replay!splice_lines(s, f, l, new) =
           SubSeq(s, 1, f) \o new \o SubSeq(s, l + 1, Len(s))
<1>1. Len(s) \in Nat
  BY LenProperties
<1>2. /\ Replay!AtMost(f, Len(s)) = f
      /\ Replay!AtMost(Len(s), Len(s)) = Len(s)
  BY <1>1 DEF Replay!AtMost
<1>3. QED
  BY <1>2 DEF Replay!splice_lines, Replay!Slice

\* The lines a delta inserts are those of the edit: an empty text stands for no
\* line or for one blank line, and the range tells them apart.
LEMMA InsertedBack ==
  ASSUME NEW s, NEW f \in Nat, NEW l, NEW new \in Seq(Lines)
  PROVE  Replay!InsertedLines(Replay!compute_delta(s, f, l, new)) = new
<1> DEFINE d == Replay!compute_delta(s, f, l, new)
<1>1. /\ d.inserted_text = Replay!Concat(new) /\ d.start_row = f
      /\ d.new_end_row = f + Len(new) /\ Len(new) \in Nat
  BY LenProperties DEF Replay!compute_delta
<1> HIDE DEF d
<1>2. d.new_end_row - d.start_row = Len(new)
  BY <1>1
<1>3. Replay!InsertedLines(d) = (IF Replay!Concat(new) = << Blank >>
                                 THEN [i \in 1 .. Len(new) |-> Blank] ELSE Replay!Concat(new))
  BY <1>1, <1>2 DEF Replay!InsertedLines
<1>4. new = << >> => Replay!InsertedLines(d) = new
  BY <1>3 DEF Replay!Concat
<1>5. ASSUME new = << Blank >> PROVE Replay!InsertedLines(d) = new
  <2>1. Replay!Concat(new) = << Blank >> /\ Len(new) = 1
    BY <1>5 DEF Replay!Concat
  <2>2. [i \in 1 .. 1 |-> Blank] = << Blank >>
    OBVIOUS
  <2>3. QED
    BY <1>3, <1>5, <2>1, <2>2
<1>6. new # << >> /\ new # << Blank >> => Replay!InsertedLines(d) = new
  BY <1>3 DEF Replay!Concat
<1>7. Replay!InsertedLines(d) = new
  BY <1>4, <1>5, <1>6
<1>8. QED
  BY <1>7 DEF d

\* A delta fits the buffer it was computed from and rebuilds the next one.
LEMMA DeltaRebuilds ==
  ASSUME NEW h1 \in Replay!Contents, NEW h2, NEW d, Edited(h1, h2, d)
  PROVE  /\ Replay!DeltaMatches(h1, d) /\ Replay!ApplyDelta(h1, d) = h2
         /\ Len(Replay!InsertedLines(d)) = d.new_end_row - d.start_row
<1>1. PICK start, end \in 0 .. MaxLines, new \in Replay!Contents \cup {<< >>} :
        /\ start <= end /\ end <= Len(h1)
        /\ d = Replay!compute_delta(h1, start, end, new)
        /\ h2 = Replay!splice_lines(h1, start, end, new)
  BY DEF Edited
<1>2. h1 \in Seq(Lines) /\ new \in Seq(Lines) /\ start \in Nat /\ end \in Nat
  <2>1. h1 \in Seq(Lines)
    BY ContentsFacts
  <2>2. new \in Seq(Lines)
    <3>1. CASE new \in Replay!Contents
      BY <3>1, ContentsFacts
    <3>2. CASE new = << >>
      BY <3>2
    <3>3. QED
      BY <3>1, <3>2
  <2>3. start \in Nat /\ end \in Nat
    BY RecordingOK
  <2>4. QED
    BY <2>1, <2>2, <2>3
<1>3. Replay!InsertedLines(d) = new
  BY <1>1, <1>2, InsertedBack
<1>4. /\ d.start_row = start /\ d.old_end_row = end /\ d.new_end_row = start + Len(new)
      /\ d.deleted_text =
           Replay!Concat([i \in 1 .. (end - start) |-> Replay!RowOrBlank(h1, start + i)])
  BY <1>1 DEF Replay!compute_delta
<1>5. Replay!Slice(h1, start, end) = [i \in 1 .. (end - start) |-> Replay!RowOrBlank(h1, start + i)]
  BY <1>1, <1>2, SliceRows
<1>6. Replay!DeltaMatches(h1, d)
  BY <1>4, <1>5 DEF Replay!DeltaMatches
<1>7. Replay!ApplyDelta(h1, d) = h2
  BY <1>1, <1>3, <1>4 DEF Replay!ApplyDelta
<1>8. Len(new) = (start + Len(new)) - start
  <2>1. Len(new) \in Nat
    BY <1>2, LenProperties
  <2>2. QED
    BY <2>1, <1>2
<1>9. QED
  BY <1>3, <1>4, <1>6, <1>7, <1>8

\* A delta of an edit that leaves a buffer is one that can be recorded.
LEMMA DeltaTyped ==
  ASSUME NEW h1 \in Replay!Contents, NEW start \in 0 .. MaxLines, NEW end \in 0 .. MaxLines,
         NEW new \in Replay!Contents \cup {<< >>}, start <= end, end <= Len(h1),
         Replay!splice_lines(h1, start, end, new) \in Replay!Contents
  PROVE  Replay!compute_delta(h1, start, end, new) \in Replay!Deltas
<1> DEFINE after == Replay!splice_lines(h1, start, end, new)
           rows  == [i \in 1 .. (end - start) |-> Replay!RowOrBlank(h1, start + i)]
<1>1. h1 \in Seq(Lines) /\ Len(h1) \in 1 .. MaxLines
  BY ContentsFacts
<1>2. start \in Nat /\ end \in Nat
  BY RecordingOK
<1>3. new \in Seq(Lines) /\ Len(new) \in Nat
  <2>1. CASE new \in Replay!Contents
    BY <2>1, ContentsFacts, LenProperties
  <2>2. CASE new = << >>
    BY <2>2
  <2>3. QED
    BY <2>1, <2>2
<1>4. after = SubSeq(h1, 1, start) \o new \o SubSeq(h1, end + 1, Len(h1))
  BY Zenon, <1>1, <1>2, SpliceIs
<1>5. Len(after) \in 1 .. MaxLines
  BY ContentsFacts
<1> HIDE DEF after
<1>6. Len(after) = Len(h1) - (end - start) + Len(new)
  <2> DEFINE a == SubSeq(h1, 1, start)
             z == SubSeq(h1, end + 1, Len(h1))
  <2>1. Len(h1) \in Nat /\ start <= Len(h1)
    BY <1>1, <1>2
  <2>2. a \in Seq(Lines) /\ Len(a) = start
    BY <1>1, <1>2, <2>1
  <2>3. z \in Seq(Lines) /\ Len(z) = Len(h1) - end
    BY <1>1, <1>2, <2>1, CutRows
  <2>4. after = a \o new \o z
    BY <1>4
  <2> HIDE DEF a, z
  <2>5. Len(after) = Len(a) + Len(new) + Len(z)
    <3>1. a \in Seq(Lines) /\ new \in Seq(Lines) /\ z \in Seq(Lines)
      BY <1>3, <2>2, <2>3
    <3>2. a \o new \in Seq(Lines) /\ Len(a \o new) = Len(a) + Len(new)
      BY ONLY <3>1, ConcatProperties
    <3>3. Len((a \o new) \o z) = Len(a \o new) + Len(z)
      BY ONLY <3>1, <3>2, ConcatProperties
    <3>4. QED
      BY ONLY <2>4, <3>2, <3>3
  <2>6. QED
    BY ONLY <1>1, <1>2, <1>3, <2>2, <2>3, <2>5
<1>7. start + Len(new) \in 0 .. MaxLines
  <2>1. start + Len(new) <= Len(after)
    BY <1>1, <1>2, <1>3, <1>6
  <2>2. QED
    BY <2>1, <1>2, <1>3, <1>5, RecordingOK
<1>8. rows = Replay!Slice(h1, start, end) /\ rows \in Seq(Lines)
  BY <1>1, <1>2, SliceRows
<1>9. Len(rows) = end - start
  BY <1>2
<1> HIDE DEF rows
<1>10. << Blank >> \in Replay!Contents
  <2>1. << Blank >> \in Seq(Lines) /\ Len(<< Blank >>) = 1 /\ 1 \in 1 .. MaxLines
    BY RecordingOK
  <2>2. QED
    BY Zenon, <2>1, ContentsIntro
<1>11. Replay!Concat(rows) \in Replay!Contents
  <2>1. CASE rows = << >>
    BY <2>1, <1>10 DEF Replay!Concat
  <2>2. CASE rows # << >>
    <3>1. Len(rows) \in 1 .. MaxLines
      BY <2>2, <1>2, <1>8, <1>9, RecordingOK
    <3>2. QED
      BY <2>2, <3>1, <1>8, ContentsIntro DEF Replay!Concat
  <2>3. QED
    BY <2>1, <2>2
<1>12. Replay!Concat(new) \in Replay!Contents
  BY <1>10 DEF Replay!Concat
<1>13. QED
  BY <1>7, <1>11, <1>12 DEF Replay!compute_delta, Replay!Deltas, rows

\* The verifier starts on a recording of no edit.
LEMMA ReplayStarts ==
  ASSUME Replay!Init
  PROVE  ReplayInv
<1> DEFINE h == << live >>
<1>1. /\ live \in Replay!Contents /\ first = Replay!canonical_bytes(live)
      /\ deltas = << >> /\ done = -1 /\ failures = 0
  BY DEF Replay!Init
<1>2. h \in Seq(Replay!Contents) /\ Len(h) = 1 /\ h[1] = live
  BY <1>1
<1>3. Len(deltas) = 0 /\ deltas \in Seq(Replay!Deltas)
  BY <1>1
<1> HIDE DEF h
<1>4. History(h) /\ Caught(h)
  BY <1>1, <1>2, <1>3 DEF History, Caught
<1>5. QED
  BY <1>1, <1>3, <1>4 DEF ReplayInv

\* One more edit is one more buffer of the recording.
LEMMA EditKeeps ==
  ASSUME ReplayInv, tool = "replay", tool' = tool,
         NEW start \in 0 .. MaxLines, NEW end \in 0 .. MaxLines,
         NEW new \in Replay!Contents \cup {<< >>}, Replay!Edit(start, end, new)
  PROVE  ReplayInv'
<1> DEFINE after == Replay!splice_lines(live, start, end, new)
           d     == Replay!compute_delta(live, start, end, new)
<1>1. /\ done = -1 /\ start <= end /\ end <= Len(live) /\ after \in Replay!Contents
      /\ live' = after /\ deltas' = Append(deltas, d)
      /\ first' = first /\ done' = done /\ rebuilt' = rebuilt /\ failures' = failures
  BY DEF Replay!Edit
<1>2. PICK h : History(h)
  BY DEF ReplayInv
<1>3. /\ h \in Seq(Replay!Contents) /\ Len(h) = Len(deltas) + 1
      /\ first = Replay!canonical_bytes(h[1]) /\ live = h[Len(h)]
      /\ \A i \in 1 .. Len(deltas) : Edited(h[i], h[i + 1], deltas[i])
  BY <1>2 DEF History
<1>4. deltas \in Seq(Replay!Deltas) /\ Len(deltas) \in Nat /\ failures = 0
  BY LenProperties DEF ReplayInv
<1>5. live \in Replay!Contents
  <2>1. Len(h) \in 1 .. Len(h)
    BY <1>3, <1>4
  <2>2. QED
    BY <2>1, <1>3
<1>6. d \in Replay!Deltas
  BY <1>1, <1>5, DeltaTyped
<1>7. Edited(live, after, d)
  BY <1>1 DEF Edited
<1> HIDE DEF d, after
<1>k. PICK k : k = Append(h, after)
  BY Zenon
<1>8. /\ deltas' \in Seq(Replay!Deltas) /\ Len(deltas') = Len(deltas) + 1
      /\ deltas'[Len(deltas) + 1] = d /\ \A i \in 1 .. Len(deltas) : deltas'[i] = deltas[i]
  BY <1>1, <1>4, <1>6
<1>9. /\ k \in Seq(Replay!Contents) /\ Len(k) = Len(h) + 1 /\ k[Len(h) + 1] = after
      /\ \A i \in 1 .. Len(h) : k[i] = h[i]
  BY <1>1, <1>3, <1>k
<1>10. \A i \in 1 .. Len(deltas) + 1 : Edited(k[i], k[i + 1], deltas'[i])
  <2> SUFFICES ASSUME NEW i \in 1 .. Len(deltas) + 1 PROVE Edited(k[i], k[i + 1], deltas'[i])
    OBVIOUS
  <2>1. CASE i \in 1 .. Len(deltas)
    <3>1. i \in 1 .. Len(h) /\ i + 1 \in 1 .. Len(h)
      BY <2>1, <1>3, <1>4
    <3>2. k[i] = h[i] /\ k[i + 1] = h[i + 1] /\ deltas'[i] = deltas[i]
      BY <2>1, <3>1, <1>8, <1>9
    <3>3. QED
      BY <2>1, <3>2, <1>3
  <2>2. CASE i = Len(deltas) + 1
    <3>1. i = Len(h) /\ i \in 1 .. Len(h)
      BY <2>2, <1>3, <1>4
    <3>2. k[i] = live /\ k[i + 1] = after /\ deltas'[i] = d
      BY <2>2, <3>1, <1>3, <1>8, <1>9
    <3>3. QED
      BY <3>2, <1>7
  <2>3. QED
    BY <2>1, <2>2, <1>4
<1>11. k[1] = h[1] /\ live' = k[Len(k)]
  BY <1>1, <1>3, <1>4, <1>9
<1>12. \A i \in 1 .. Len(deltas') : Edited(k[i], k[i + 1], deltas'[i])
  BY <1>8, <1>10
<1>13. History(k)'
  <2>1. Len(k) = Len(deltas') + 1 /\ first' = Replay!canonical_bytes(k[1])
    BY <1>1, <1>3, <1>8, <1>9, <1>11
  <2>2. QED
    BY <2>1, <1>9, <1>11, <1>12 DEF History
<1>14. Caught(k)'
  BY <1>1 DEF Caught
<1>15. done' \in -1 .. Len(deltas')
  BY <1>1, <1>4, <1>8
<1>16. failures' = 0 /\ ~ (done' >= 0)
  BY <1>1, <1>4
<1>17. (\E x : History(x) /\ Caught(x))'
  BY <1>13, <1>14
<1>18. QED
  BY <1>8, <1>15, <1>16, <1>17 DEF ReplayInv

\* The verifier starts on the buffer before the first edit, or not at all.
LEMMA StartKeeps ==
  ASSUME ReplayInv, tool = "replay", tool' = tool, Replay!Start
  PROVE  ReplayInv'
<1>1. PICK h : History(h)
  BY DEF ReplayInv
<1>2. /\ deltas' = deltas /\ first' = first /\ live' = live /\ failures' = failures
      /\ first # Replay!EmptyFile => done' = 0 /\ rebuilt' = first
      /\ first = Replay!EmptyFile => done' = Len(deltas)
  BY DEF Replay!Start, Replay!HasBlob, Replay!recording
<1>3. History(h)'
  BY <1>1, <1>2 DEF History
<1>4. Caught(h)'
  BY <1>1, <1>2 DEF Caught, History, Replay!canonical_bytes, Replay!EmptyFile
<1>5. deltas \in Seq(Replay!Deltas) /\ Len(deltas) \in Nat /\ failures = 0
  BY LenProperties DEF ReplayInv
<1>6. /\ done' \in -1 .. Len(deltas')
      /\ done' >= 0 /\ first' = Replay!EmptyFile => done' = Len(deltas')
  BY <1>2, <1>5
<1>7. (\E x : History(x) /\ Caught(x))'
  BY <1>3, <1>4
<1>8. QED
  BY <1>2, <1>5, <1>6, <1>7 DEF ReplayInv

\* A turn of the loop finds a delta that fits and rebuilds the next buffer.
LEMMA TurnKeeps ==
  ASSUME ReplayInv, tool = "replay", tool' = tool, Replay!Replay
  PROVE  ReplayInv'
<1>1. PICK h : History(h) /\ Caught(h)
  BY DEF ReplayInv
<1>2. /\ deltas \in Seq(Replay!Deltas) /\ Len(deltas) \in Nat /\ failures = 0
      /\ done >= 0 /\ first = Replay!EmptyFile => done = Len(deltas)
  BY LenProperties DEF ReplayInv
<1>3. /\ done \in 0 .. Len(deltas) - 1 /\ done' = done + 1
      /\ deltas' = deltas /\ first' = first /\ live' = live
  BY DEF Replay!Replay, Replay!recording
<1>4. first # Replay!EmptyFile /\ rebuilt = h[done + 1]
  BY <1>1, <1>2, <1>3 DEF Caught
<1>5. done + 1 \in 1 .. Len(deltas) /\ done + 1 \in 1 .. Len(h)
  BY <1>1, <1>2, <1>3 DEF History
<1>6. Edited(h[done + 1], h[done + 2], deltas[done + 1]) /\ h[done + 1] \in Replay!Contents
  BY <1>1, <1>2, <1>3, <1>5 DEF History
<1>7. Replay!Fits(deltas[done + 1]) /\ Replay!ApplyDelta(rebuilt, deltas[done + 1]) = h[done + 2]
  BY <1>4, <1>6, DeltaRebuilds DEF Replay!Fits
<1>8. rebuilt' = h[done + 2] /\ failures' = failures
  BY <1>7 DEF Replay!Replay
<1>9. History(h)' /\ Caught(h)'
  BY <1>1, <1>2, <1>3, <1>8 DEF History, Caught
<1>10. /\ done' \in -1 .. Len(deltas')
       /\ done' >= 0 /\ first' = Replay!EmptyFile => done' = Len(deltas')
  BY <1>2, <1>3, <1>4
<1>11. (\E x : History(x) /\ Caught(x))'
  BY <1>9
<1>12. QED
  BY <1>2, <1>3, <1>8, <1>10, <1>11 DEF ReplayInv

\* The inductive invariant of the verifier of recordings (replay.ts).
THEOREM ReplayInvariant == Spec => []ReplayInv
<1>1. Init => ReplayInv
  BY ReplayStarts DEF Init
<1>2. ReplayInv /\ [Next]_vars => ReplayInv'
  <2> SUFFICES ASSUME ReplayInv, [Next]_vars PROVE ReplayInv'
    OBVIOUS
  <2>1. CASE tool' = tool /\ UNCHANGED replayVars
    BY <2>1 DEF ReplayInv, History, Caught, Edited, replayVars
  <2>2. CASE tool = "replay" /\ tool' = tool /\ Replay!Next
    <3>1. ASSUME NEW start \in 0 .. MaxLines, NEW end \in 0 .. MaxLines,
                 NEW new \in Replay!Contents \cup {<< >>}, Replay!Edit(start, end, new)
          PROVE  ReplayInv'
      BY <2>2, <3>1, EditKeeps
    <3>2. CASE Replay!Start
      BY <2>2, <3>2, StartKeeps
    <3>3. CASE Replay!Replay
      BY <2>2, <3>3, TurnKeeps
    <3>4. QED
      BY <2>2, <3>1, <3>2, <3>3 DEF Replay!Next
  <2>3. QED
    BY <2>1, <2>2 DEF Next, vars
<1>3. QED
  BY <1>1, <1>2, PTL DEF Spec

\* A recording in which nothing is lost verifies unless the file is empty at one
\* end, for every set of lines and any number of edits: every delta fits, and
\* what the verifier has rebuilt at the end is the buffer (replay.ts,
\* buffers.lua).
THEOREM RecordingsVerify == Spec => []FaithfulVerifies
<1>1. ReplayInv => FaithfulVerifies
  <2> SUFFICES ASSUME ReplayInv, tool = "replay", Replay!Finished, first # Replay!EmptyFile,
                      Replay!last # Replay!EmptyFile
               PROVE  Replay!ReplayOK
    BY DEF FaithfulVerifies, Replay!FaithfulVerifies
  <2>1. PICK h : History(h) /\ Caught(h)
    BY DEF ReplayInv
  <2>2. Len(deltas) \in Nat /\ failures = 0
    BY LenProperties DEF ReplayInv
  <2>3. done = Len(deltas)
    BY <2>2, RecordingOK DEF Replay!Finished
  <2>4. rebuilt = live
    BY <2>1, <2>2, <2>3 DEF History, Caught
  <2>5. Replay!last = live
    BY DEF Replay!last, Replay!canonical_bytes, Replay!EmptyFile
  <2>6. QED
    BY <2>2, <2>4, <2>5 DEF Replay!ReplayOK, Replay!HasBlob
<1>2. QED
  BY <1>1, ReplayInvariant, PTL

(***************************************************************************)
(* The needle of a long prompt.                                            *)
(***************************************************************************)

\* The recursion that Sum evaluates.
AddRec(sizes, h) ==
  h = [s \in SUBSET DOMAIN sizes |->
         IF s = {} THEN 0 ELSE h[s \ {Max(s)}] + sizes[Max(s)]]

\* Sum is a function of that recursion, applied to all the indices.
LEMMA AddUnfolds ==
  ASSUME NEW sizes
  PROVE  Rate!Sum(sizes) = (CHOOSE h : AddRec(sizes, h))[DOMAIN sizes]
  BY DEF Rate!Sum, Rate!FoldLeft, Rate!MapThenFoldSet, Rate!Max, Max, AddRec

\* The sum of the first sizes.
LEMMA SumSteps ==
  ASSUME NEW sizes \in Seq(Nat)
  PROVE  \E r \in [0 .. Len(sizes) -> Nat] :
           /\ r[0] = 0 /\ r[Len(sizes)] = Rate!Sum(sizes)
           /\ \A i \in 1 .. Len(sizes) : r[i] = r[i - 1] + sizes[i]
<1> DEFINE n == Len(sizes)
           G == [p \in (1 .. n) \X Nat |-> p[2] + sizes[p[1]]]
<1>1. n \in Nat /\ DOMAIN sizes = 1 .. n /\ \A i \in 1 .. n : sizes[i] \in Nat
  OBVIOUS
<1>3. 0 \in Nat /\ G \in [(1 .. n) \X Nat -> Nat]
  BY <1>1
<1>5. \A i \in 1 .. n, t \in Nat : G[<< i, t >>] = t + sizes[i]
  OBVIOUS
<1> HIDE DEF n, G
<1>0. PICK h, r : FoldRun(n, Nat, 0, G, h, r)
  BY ONLY Zenon, <1>1, <1>3, FoldSteps
<1>6. /\ h \in [SUBSET (1 .. n) -> Nat] /\ r \in [0 .. n -> Nat]
      /\ Fold(0, G, 1 .. n, h) /\ r[0] = 0
      /\ \A i \in 1 .. n : r[i] = G[<< i, r[i - 1] >>]
      /\ \A i \in 0 .. n : r[i] = h[1 .. i]
  BY ONLY Zenon, <1>0 DEF FoldRun
<1>7. AddRec(sizes, h)
  <2>1. ASSUME NEW s \in SUBSET (1 .. n), s # {}
        PROVE  h[s] = h[s \ {Max(s)}] + sizes[Max(s)]
    <3>1. Max(s) \in 1 .. n
      BY <2>1, IndexIn, <1>1
    <3>2. h[s] = G[<< Max(s), h[s \ {Max(s)}] >>]
      BY Zenon, <1>6, <2>1 DEF Fold
    <3>3. h[s \ {Max(s)}] \in Nat
      BY Zenon, <1>6
    <3> QED BY <3>1, <3>2, <3>3, <1>5
  <2>2. h[{}] = 0
    BY <1>6 DEF Fold
  <2> QED BY Zenon, <1>1, <1>6, <2>1, <2>2 DEF AddRec
<1> DEFINE k == CHOOSE g : AddRec(sizes, g)
<1>8. AddRec(sizes, k)
  BY <1>7
<1>9. Rate!Sum(sizes) = k[1 .. n]
  BY <1>1, AddUnfolds
<1> HIDE DEF k
<1>10. \A i \in 0 .. n : k[1 .. i] = r[i]
  <2> DEFINE S == {i \in Nat : i <= n => k[1 .. i] = r[i]}
  <2>1. 0 \in S
    <3>1. k[{}] = 0
      BY <1>8 DEF AddRec
    <3>2. 1 .. 0 = {}
      OBVIOUS
    <3> QED BY <1>6, <3>1, <3>2
  <2>2. ASSUME NEW i \in Nat, i \in S
        PROVE  i + 1 \in S
    <3> SUFFICES ASSUME i + 1 <= n PROVE k[1 .. i + 1] = r[i + 1]
      OBVIOUS
    <3>1. Max(1 .. i + 1) = i + 1 /\ (1 .. i + 1) \ {i + 1} = 1 .. i
          /\ 1 .. i + 1 \in SUBSET (1 .. n) /\ 1 .. i + 1 # {} /\ i + 1 \in 1 .. n
      <4>1. n \in Nat
        BY <1>1
      <4> QED BY ONLY <4>1, <2>2, i + 1 <= n, FirstIndices
    <3>2. k[1 .. i + 1] = k[1 .. i] + sizes[i + 1]
      BY Zenon, <1>1, <1>8, <3>1 DEF AddRec
    <3>3. k[1 .. i] = r[i] /\ r[i] \in Nat
      <4>1. i \in 0 .. n
        BY <1>1
      <4> QED BY <2>2, <1>6, <4>1
    <3>4. r[i + 1] = G[<< i + 1, r[i] >>]
      <4>1. (i + 1) - 1 = i
        OBVIOUS
      <4> QED BY <1>6, <3>1, <4>1
    <3> QED BY <3>1, <3>2, <3>3, <3>4, <1>5
  <2>3. \A i \in Nat : i \in S
    <3> HIDE DEF S
    <3> QED BY Zenon, <2>1, <2>2, ByCounting
  <2> QED BY <2>3, <1>1
<1>11. r[n] = Rate!Sum(sizes)
  BY <1>1, <1>9, <1>10
<1>12. \A i \in 1 .. n : r[i] = r[i - 1] + sizes[i]
  <2> TAKE i \in 1 .. n
  <2>1. i - 1 \in 0 .. n
    BY <1>1
  <2>2. r[i - 1] \in Nat
    BY <1>6, <2>1
  <2> QED BY Zenon, <1>5, <1>6, <2>2
<1> QED BY <1>1, <1>6, <1>11, <1>12 DEF n

\* The sum of the first m sizes is one, and it grows with m.
LEMMA PrefixSums ==
  ASSUME NEW sizes \in Seq(Nat)
  PROVE  /\ Rate!Sum(sizes) \in Nat
         /\ \A m \in 0 .. Len(sizes) : Rate!Sum(SubSeq(sizes, 1, m)) \in Nat
         /\ \A i, j \in 0 .. Len(sizes) :
              i <= j => Rate!Sum(SubSeq(sizes, 1, i)) <= Rate!Sum(SubSeq(sizes, 1, j))
<1> DEFINE n == Len(sizes)
<1>1. n \in Nat
  OBVIOUS
<1>2. PICK r \in [0 .. n -> Nat] :
           /\ r[0] = 0 /\ r[n] = Rate!Sum(sizes)
           /\ \A i \in 1 .. n : r[i] = r[i - 1] + sizes[i]
  BY SumSteps
<1>3. ASSUME NEW m \in 0 .. n
      PROVE  Rate!Sum(SubSeq(sizes, 1, m)) = r[m]
  <2> DEFINE u == SubSeq(sizes, 1, m)
  <2>1. u \in Seq(Nat) /\ Len(u) = m /\ \A i \in 1 .. m : u[i] = sizes[i]
    OBVIOUS
  <2> HIDE DEF u, n
  <2>2. PICK q \in [0 .. m -> Nat] :
           /\ q[0] = 0 /\ q[m] = Rate!Sum(u)
           /\ \A i \in 1 .. m : q[i] = q[i - 1] + u[i]
    <3>1. \E q \in [0 .. Len(u) -> Nat] :
           /\ q[0] = 0 /\ q[Len(u)] = Rate!Sum(u)
           /\ \A i \in 1 .. Len(u) : q[i] = q[i - 1] + u[i]
      BY <2>1, SumSteps
    <3>2. Len(u) = m
      BY <2>1
    <3> QED BY ONLY Zenon, <3>1, <3>2
  <2> DEFINE S == {i \in Nat : i <= m => q[i] = r[i]}
  <2>3. 0 \in S
    BY <1>2, <2>2
  <2>4. ASSUME NEW i \in Nat, i \in S PROVE i + 1 \in S
    <3> SUFFICES ASSUME i + 1 <= m PROVE q[i + 1] = r[i + 1]
      OBVIOUS
    <3>1. i + 1 \in 1 .. m /\ i + 1 \in 1 .. n /\ (i + 1) - 1 = i
      BY <1>1
    <3>2. q[i + 1] = q[i] + u[i + 1]
      BY ONLY <2>2, <3>1
    <3>3. r[i + 1] = r[i] + sizes[i + 1]
      BY ONLY <1>2, <3>1
    <3>4. u[i + 1] = sizes[i + 1] /\ q[i] = r[i]
      BY <2>1, <2>4, <3>1
    <3> QED BY ONLY <3>2, <3>3, <3>4
  <2>5. m \in S
    <3>1. \A i \in Nat : i \in S
      <4> HIDE DEF S
      <4> QED BY Zenon, <2>3, <2>4, ByCounting
    <3> QED BY <3>1
  <2> QED BY <2>2, <2>5 DEF u
<1>4. ASSUME NEW i \in 0 .. n
      PROVE  \A d \in Nat : i + d <= n => r[i] <= r[i + d]
  <2> HIDE DEF n
  <2> DEFINE S == {d \in Nat : i + d <= n => r[i] <= r[i + d]}
  <2>1. 0 \in S
    BY <1>1, <1>2
  <2>2. ASSUME NEW d \in Nat, d \in S PROVE d + 1 \in S
    <3> SUFFICES ASSUME i + (d + 1) <= n PROVE r[i] <= r[i + (d + 1)]
      OBVIOUS
    <3> DEFINE e == i + d
    <3>1. e \in 0 .. n /\ e + 1 \in 1 .. n /\ (e + 1) - 1 = e /\ i + (d + 1) = e + 1 /\ e <= n
      BY <1>1
    <3>2. r[e + 1] = r[e] + sizes[e + 1] /\ sizes[e + 1] \in Nat /\ r[e] \in Nat /\ r[i] \in Nat
      <4>1. r[e] \in Nat /\ r[i] \in Nat
        BY Zenon, <1>2, <3>1
      <4>2. sizes[e + 1] \in Nat
        BY <3>1 DEF n
      <4> HIDE DEF e
      <4>3. r[e + 1] = r[e] + sizes[e + 1]
        BY ONLY <1>2, <3>1
      <4> QED BY <4>1, <4>2, <4>3
    <3>3. r[i] <= r[e]
      BY <2>2, <3>1
    <3> HIDE DEF e
    <3>4. r[i] <= r[e + 1]
      BY ONLY <3>2, <3>3
    <3> QED BY <3>1, <3>4
  <2>3. \A d \in Nat : d \in S
    <3> HIDE DEF S
    <3> QED BY Zenon, <2>1, <2>2, ByCounting
  <2> QED BY Zenon, <2>3
<1>5. ASSUME NEW i \in 0 .. n, NEW j \in 0 .. n, i <= j
      PROVE  r[i] <= r[j]
  <2>1. j - i \in Nat /\ i + (j - i) = j /\ j <= n
    BY <1>1, <1>5
  <2> HIDE DEF n
  <2> QED BY Zenon, <1>4, <2>1
<1> HIDE DEF n
<1>6. /\ n \in 0 .. n /\ \A m \in 0 .. n : r[m] \in Nat
  BY <1>1, <1>2
<1> QED BY <1>2, <1>3, <1>5, <1>6 DEF n

\* A prompt, as far as its needle is concerned.
Prompt == [head : Nat, fillers : Seq(Nat), rest : Nat, depth : Nat]

\* The deeper the file is put, the deeper is the needle.
LEMMA DeeperGrows ==
  ASSUME NEW p \in Prompt
  PROVE  /\ Len(p.fillers) \in Nat
         /\ \A k \in 0 .. Len(p.fillers) : Rate!Deeper(p, k) \in Int
         /\ \A j, k \in 0 .. Len(p.fillers) : j <= k => Rate!Deeper(p, j) <= Rate!Deeper(p, k)
<1> DEFINE f == p.fillers
           n == Len(f)
           m(k) == IF k + 1 <= n THEN k + 1 ELSE n
           sum(k) == Rate!Sum(SubSeq(f, 1, m(k)))
           whole == p.depth * (p.head + Rate!Sum(f) + p.rest)
<1>1. f \in Seq(Nat) /\ n \in Nat /\ p.head \in Nat /\ p.rest \in Nat /\ p.depth \in Nat
  BY DEF Prompt
<1>2. \A k \in 0 .. n : Rate!Min({k + 1, n}) = m(k)
  <2> TAKE k \in 0 .. n
  <2> HIDE DEF n
  <2>1. k + 1 \in Int /\ n \in Int
    BY <1>1
  <2> QED BY <2>1 DEF Rate!Min
<1>3. /\ Rate!Sum(f) \in Nat
      /\ \A i \in 0 .. n : Rate!Sum(SubSeq(f, 1, i)) \in Nat
      /\ \A i, j \in 0 .. n : i <= j => Rate!Sum(SubSeq(f, 1, i)) <= Rate!Sum(SubSeq(f, 1, j))
  <2> HIDE DEF f
  <2> QED BY <1>1, PrefixSums
<1>4. \A k \in 0 .. n : m(k) \in 0 .. n
  <2> HIDE DEF n
  <2> QED BY <1>1
<1>5. \A j, k \in 0 .. n : j <= k => m(j) <= m(k)
  <2> HIDE DEF n
  <2> QED BY <1>1
<1>6. \A k \in 0 .. n : sum(k) \in Nat
  <2> HIDE DEF m, n
  <2> QED BY <1>3, <1>4
<1>7. \A j, k \in 0 .. n : j <= k => sum(j) <= sum(k)
  <2> HIDE DEF m, n
  <2> QED BY <1>3, <1>4, <1>5
<1>8. whole \in Int
  <2>1. p.head + Rate!Sum(f) + p.rest \in Nat
    BY <1>1, <1>3
  <2> QED BY <1>1, <2>1
<1>9. \A k \in 0 .. n : Rate!Deeper(p, k) = 100 * (p.head + sum(k)) - whole
  BY <1>2 DEF Rate!Deeper, Rate!Marker
<1> HIDE DEF f, n, sum, whole
<1>10. \A k \in 0 .. n : Rate!Deeper(p, k) \in Int
  BY <1>1, <1>6, <1>8, <1>9
<1>11. \A j, k \in 0 .. n : j <= k => Rate!Deeper(p, j) <= Rate!Deeper(p, k)
  BY SMTT(30), <1>1, <1>6, <1>7, <1>8, <1>9
<1> QED BY <1>1, <1>10, <1>11 DEF n, f

(***************************************************************************)
(* The bisection.                                                          *)
(***************************************************************************)

\* One turn of its loop.
Turn(p, s) ==
  LET mid == (s.lower + s.upper) \div 2 IN
  IF s.lower > s.upper THEN s
  ELSE IF Rate!Deeper(p, mid) < 0
       THEN [s EXCEPT !.lower = mid + 1, !.seen = @ \cup {mid}]
       ELSE [s EXCEPT !.upper = mid - 1, !.seen = @ \cup {mid}]

\* What is below the bounds is not deep enough, what is above them is.
Bounds(p) ==
  {s \in [lower : 0 .. Len(p.fillers) + 1, upper : -1 .. Len(p.fillers),
          seen : SUBSET (0 .. Len(p.fillers))] :
     /\ s.lower <= s.upper + 1
     /\ \A k \in 0 .. Len(p.fillers) : /\ k < s.lower => Rate!Deeper(p, k) < 0
                                       /\ k > s.upper => Rate!Deeper(p, k) >= 0}

\* A turn keeps that, and leaves less between the bounds.
LEMMA TurnNarrows ==
  ASSUME NEW p \in Prompt, NEW s \in Bounds(p)
  PROVE  /\ Turn(p, s) \in Bounds(p)
         /\ s.lower <= s.upper =>
              Turn(p, s).upper - Turn(p, s).lower < s.upper - s.lower
         /\ s.lower > s.upper => Turn(p, s) = s
<1> DEFINE n == Len(p.fillers)
           mid == (s.lower + s.upper) \div 2
           D(k) == Rate!Deeper(p, k)
<1>1. /\ n \in Nat /\ \A k \in 0 .. n : D(k) \in Int
      /\ \A j, k \in 0 .. n : j <= k => D(j) <= D(k)
  BY DeeperGrows
<1>2. /\ s \in [lower : 0 .. n + 1, upper : -1 .. n, seen : SUBSET (0 .. n)]
      /\ s.lower <= s.upper + 1
      /\ \A k \in 0 .. n : (k < s.lower => D(k) < 0) /\ (k > s.upper => D(k) >= 0)
  BY DEF Bounds
<1> HIDE DEF n, D
<1>3. /\ s.lower \in Int /\ s.upper \in Int /\ s.lower >= 0 /\ s.upper <= n
      /\ s.seen \subseteq 0 .. n /\ s.upper >= -1 /\ s.lower <= n + 1
  BY <1>1, <1>2
<1>4. CASE s.lower > s.upper
  <2>1. Turn(p, s) = s
    BY <1>4 DEF Turn
  <2>2. ~ (s.lower <= s.upper)
    BY <1>3, <1>4
  <2> QED BY <2>1, <2>2
<1>5. CASE ~ (s.lower > s.upper)
  <2>1. mid \in Int /\ s.lower <= mid /\ mid <= s.upper
    BY <1>3, <1>5
  <2> HIDE DEF mid
  <2>2. mid \in 0 .. n
    BY <1>1, <1>3, <2>1
  <2>3. CASE D(mid) < 0
    <3> DEFINE t == [lower |-> mid + 1, upper |-> s.upper, seen |-> s.seen \cup {mid}]
    <3>1. Turn(p, s) = t
      <4>1. Turn(p, s) = [s EXCEPT !.lower = mid + 1, !.seen = @ \cup {mid}]
        BY <1>5, <2>3 DEF Turn, mid, D
      <4> QED BY Zenon, <1>2, <4>1
    <3>2. t.lower = mid + 1 /\ t.upper = s.upper /\ t.seen = s.seen \cup {mid}
          /\ t \in [lower : 0 .. n + 1, upper : -1 .. n, seen : SUBSET (0 .. n)]
      BY <1>1, <1>3, <2>1, <2>2
    <3> HIDE DEF t
    <3>3. \A k \in 0 .. n : (k < t.lower => D(k) < 0) /\ (k > t.upper => D(k) >= 0)
      <4> TAKE k \in 0 .. n
      <4>1. k < t.lower => D(k) < 0
        <5> HAVE k < t.lower
        <5>1. k <= mid
          BY <1>1, <2>1, <3>2
        <5>2. D(k) <= D(mid) /\ D(k) \in Int /\ D(mid) \in Int
          BY <1>1, <2>2, <5>1
        <5> QED BY ONLY <2>3, <5>2
      <4> QED BY <1>2, <3>2, <4>1
    <3>4. t.lower <= t.upper + 1 /\ t.upper - t.lower < s.upper - s.lower
      BY <1>3, <2>1, <3>2
    <3> QED BY <1>5, <3>1, <3>2, <3>3, <3>4 DEF Bounds, n, D
  <2>4. CASE ~ (D(mid) < 0)
    <3> DEFINE t == [lower |-> s.lower, upper |-> mid - 1, seen |-> s.seen \cup {mid}]
    <3>1. Turn(p, s) = t
      <4>1. Turn(p, s) = [s EXCEPT !.upper = mid - 1, !.seen = @ \cup {mid}]
        BY <1>5, <2>4 DEF Turn, mid, D
      <4> QED BY Zenon, <1>2, <4>1
    <3>2. t.lower = s.lower /\ t.upper = mid - 1 /\ t.seen = s.seen \cup {mid}
          /\ t \in [lower : 0 .. n + 1, upper : -1 .. n, seen : SUBSET (0 .. n)]
      BY <1>1, <1>3, <2>1, <2>2
    <3> HIDE DEF t
    <3>3. \A k \in 0 .. n : (k < t.lower => D(k) < 0) /\ (k > t.upper => D(k) >= 0)
      <4> TAKE k \in 0 .. n
      <4>1. k > t.upper => D(k) >= 0
        <5> HAVE k > t.upper
        <5>1. mid <= k
          BY <1>1, <2>1, <3>2
        <5>2. D(mid) <= D(k) /\ D(k) \in Int /\ D(mid) \in Int
          BY <1>1, <2>2, <5>1
        <5> QED BY ONLY <2>4, <5>2
      <4> QED BY <1>2, <3>2, <4>1
    <3>4. t.lower <= t.upper + 1 /\ t.upper - t.lower < s.upper - s.lower
      BY <1>3, <2>1, <3>2
    <3> QED BY <1>5, <3>1, <3>2, <3>3, <3>4 DEF Bounds, n, D
  <2> QED BY <2>3, <2>4
<1> QED BY <1>4, <1>5

\* The recursion that Bisection evaluates.
TurnRec(p, h) ==
  h = [s \in SUBSET DOMAIN [turn \in 1 .. Len(p.fillers) + 1 |-> turn] |->
         IF s = {} THEN [lower |-> 0, upper |-> Len(p.fillers), seen |-> {}]
         ELSE Turn(p, h[s \ {Max(s)}])]

\* Bisection is a function of that recursion, applied to all the turns.
LEMMA BisectionUnfolds ==
  ASSUME NEW p
  PROVE  Rate!Bisection(p) =
           (CHOOSE h : TurnRec(p, h))[DOMAIN [turn \in 1 .. Len(p.fillers) + 1 |-> turn]]
  BY DEF Rate!Bisection, Rate!FoldLeft, Rate!MapThenFoldSet, Rate!Max, Max, TurnRec, Turn

\* The state after each turn.
LEMMA BisectionSteps ==
  ASSUME NEW p \in Prompt
  PROVE  \E r \in [0 .. Len(p.fillers) + 1 -> Bounds(p)] :
           /\ r[0] = [lower |-> 0, upper |-> Len(p.fillers), seen |-> {}]
           /\ r[Len(p.fillers) + 1] = Rate!Bisection(p)
           /\ \A i \in 1 .. Len(p.fillers) + 1 : r[i] = Turn(p, r[i - 1])
<1> DEFINE n == Len(p.fillers) + 1
           V == Bounds(p)
           b == [lower |-> 0, upper |-> Len(p.fillers), seen |-> {}]
           G == [q \in (1 .. n) \X V |-> Turn(p, q[2])]
           sq == [turn \in 1 .. n |-> turn]
<1>1. n \in Nat /\ Len(p.fillers) \in Nat /\ DOMAIN sq = 1 .. n
  <2>1. Len(p.fillers) \in Nat
    BY DeeperGrows
  <2> QED BY <2>1
<1>2. b \in V
  <2>1. b \in [lower : 0 .. Len(p.fillers) + 1, upper : -1 .. Len(p.fillers),
               seen : SUBSET (0 .. Len(p.fillers))]
    BY <1>1
  <2>2. \A k \in 0 .. Len(p.fillers) : ~ (k < b.lower) /\ ~ (k > b.upper)
    BY <1>1
  <2> QED BY <1>1, <2>1, <2>2 DEF Bounds
<1>3. \A t \in V : Turn(p, t) \in V
  BY TurnNarrows
<1>4. G \in [(1 .. n) \X V -> V]
  <2> HIDE DEF V
  <2> QED BY <1>3
<1>5. \A i \in 1 .. n, t \in V : G[<< i, t >>] = Turn(p, t)
  <2> HIDE DEF V, n
  <2> QED OBVIOUS
<1> HIDE DEF n, G, V, b, sq
<1>0. PICK h, r : FoldRun(n, V, b, G, h, r)
  BY ONLY Zenon, <1>1, <1>2, <1>4, FoldSteps
<1>6. /\ h \in [SUBSET (1 .. n) -> V] /\ r \in [0 .. n -> V]
      /\ Fold(b, G, 1 .. n, h) /\ r[0] = b
      /\ \A i \in 1 .. n : r[i] = G[<< i, r[i - 1] >>]
      /\ \A i \in 0 .. n : r[i] = h[1 .. i]
  BY ONLY <1>0 DEF FoldRun
<1>13. \A g : TurnRec(p, g) <=> g = [s \in SUBSET (1 .. n) |->
                                       IF s = {} THEN b ELSE Turn(p, g[s \ {Max(s)}])]
  BY <1>1 DEF TurnRec, n, b, sq
<1>7. TurnRec(p, h)
  <2>1. ASSUME NEW s \in SUBSET (1 .. n), s # {}
        PROVE  h[s] = Turn(p, h[s \ {Max(s)}])
    <3>1. Max(s) \in 1 .. n
      BY <2>1, IndexIn, <1>1
    <3>2. h[s] = G[<< Max(s), h[s \ {Max(s)}] >>]
      BY Zenon, <1>6, <2>1 DEF Fold
    <3>3. h[s \ {Max(s)}] \in V
      BY Zenon, <1>6
    <3> QED BY <3>1, <3>2, <3>3, <1>5
  <2>2. h[{}] = b
    BY <1>6 DEF Fold
  <2> DEFINE z == [s \in SUBSET (1 .. n) |->
                     IF s = {} THEN b ELSE Turn(p, h[s \ {Max(s)}])]
  <2>3. \A s \in SUBSET (1 .. n) : h[s] = z[s]
    BY Zenon, <2>1, <2>2
  <2>4. h \in [SUBSET (1 .. n) -> V] /\ DOMAIN z = SUBSET (1 .. n)
    BY <1>6
  <2>5. z = [s \in DOMAIN z |-> z[s]]
    OBVIOUS
  <2> HIDE DEF z
  <2>6. h = z
    BY ONLY <2>3, <2>4, <2>5
  <2> USE DEF z
  <2>7. h = [s \in SUBSET (1 .. n) |-> IF s = {} THEN b ELSE Turn(p, h[s \ {Max(s)}])]
    BY ONLY <2>6
  <2> QED BY ONLY Zenon, <1>13, <2>7
<1> DEFINE k == CHOOSE g : TurnRec(p, g)
<1>8. TurnRec(p, k)
  BY <1>7
<1>9. Rate!Bisection(p) = k[1 .. n]
  BY <1>1, BisectionUnfolds DEF n, sq
<1> HIDE DEF k
<1>14. k = [s \in SUBSET (1 .. n) |-> IF s = {} THEN b ELSE Turn(p, k[s \ {Max(s)}])]
  BY ONLY Zenon, <1>8, <1>13
<1>10. \A i \in 0 .. n : k[1 .. i] = r[i]
  <2> DEFINE S == {i \in Nat : i <= n => k[1 .. i] = r[i]}
  <2>1. 0 \in S
    <3>1. k[{}] = b
      BY ONLY <1>14
    <3>2. 1 .. 0 = {}
      OBVIOUS
    <3> QED BY <1>6, <3>1, <3>2
  <2>2. ASSUME NEW i \in Nat, i \in S
        PROVE  i + 1 \in S
    <3> SUFFICES ASSUME i + 1 <= n PROVE k[1 .. i + 1] = r[i + 1]
      OBVIOUS
    <3>1. Max(1 .. i + 1) = i + 1 /\ (1 .. i + 1) \ {i + 1} = 1 .. i
          /\ 1 .. i + 1 \in SUBSET (1 .. n) /\ 1 .. i + 1 # {} /\ i + 1 \in 1 .. n
      <4>1. n \in Nat
        BY <1>1
      <4> QED BY ONLY <4>1, <2>2, i + 1 <= n, FirstIndices
    <3>2. k[1 .. i + 1] = Turn(p, k[1 .. i])
      <4>1. k[1 .. i + 1] = Turn(p, k[(1 .. i + 1) \ {Max(1 .. i + 1)}])
        BY ONLY Zenon, <1>14, <3>1
      <4> QED BY ONLY Zenon, <3>1, <4>1
    <3>3. k[1 .. i] = r[i] /\ r[i] \in V
      <4>1. i \in 0 .. n
        BY <1>1
      <4> QED BY <2>2, <1>6, <4>1
    <3>4. r[i + 1] = G[<< i + 1, r[i] >>]
      <4>1. (i + 1) - 1 = i
        OBVIOUS
      <4> QED BY <1>6, <3>1, <4>1
    <3> QED BY <3>1, <3>2, <3>3, <3>4, <1>5
  <2>3. \A i \in Nat : i \in S
    <3> HIDE DEF S
    <3> QED BY <2>1, <2>2, ByCounting
  <2> QED BY <2>3, <1>1
<1>11. r[n] = Rate!Bisection(p)
  BY <1>1, <1>9, <1>10
<1>12. \A i \in 1 .. n : r[i] = Turn(p, r[i - 1])
  <2> TAKE i \in 1 .. n
  <2>1. i - 1 \in 0 .. n
    BY <1>1
  <2>2. r[i - 1] \in V
    BY <1>6, <2>1
  <2> QED BY Zenon, <1>5, <1>6, <2>2
<1> QED BY <1>6, <1>11, <1>12 DEF n, V, b

\* It ends with nothing between the bounds: one turn for each place is enough.
LEMMA BisectionEnds ==
  ASSUME NEW p \in Prompt
  PROVE  Rate!Bisection(p) \in Bounds(p) /\ Rate!Bisection(p).lower = Rate!Bisection(p).upper + 1
<1> DEFINE n == Len(p.fillers)
<1>1. n \in Nat
  BY DeeperGrows
<1>2. PICK r \in [0 .. n + 1 -> Bounds(p)] :
           /\ r[0] = [lower |-> 0, upper |-> n, seen |-> {}]
           /\ r[n + 1] = Rate!Bisection(p)
           /\ \A i \in 1 .. n + 1 : r[i] = Turn(p, r[i - 1])
  BY BisectionSteps
<1>3. ASSUME NEW s \in Bounds(p)
      PROVE  s.lower \in Int /\ s.upper \in Int /\ s.lower <= s.upper + 1
  BY <1>1 DEF Bounds
<1> HIDE DEF n
<1> DEFINE W(i) == r[i].upper - r[i].lower <= n - i
           S == {i \in Nat : i <= n + 1 => r[i].lower > r[i].upper \/ W(i)}
<1>4. 0 \in S
  BY <1>1, <1>2
<1>5. ASSUME NEW i \in Nat, i \in S PROVE i + 1 \in S
  <2> SUFFICES ASSUME i + 1 <= n + 1 PROVE r[i + 1].lower > r[i + 1].upper \/ W(i + 1)
    OBVIOUS
  <2>1. i + 1 \in 1 .. n + 1 /\ (i + 1) - 1 = i /\ i \in 0 .. n + 1 /\ i + 1 \in 0 .. n + 1
        /\ i <= n + 1
    BY <1>1
  <2> DEFINE a == r[i]
             c == r[i + 1]
  <2>2. a \in Bounds(p) /\ c \in Bounds(p) /\ c = Turn(p, a)
    <3>1. c = Turn(p, a)
      BY ONLY <1>2, <2>1
    <3>2. a \in Bounds(p) /\ c \in Bounds(p)
      BY <1>2, <2>1
    <3> QED BY <3>1, <3>2
  <2>3. a.lower > a.upper \/ a.upper - a.lower <= n - i
    BY <1>5, <2>1
  <2> HIDE DEF a, c
  <2>4. /\ a.lower <= a.upper => c.upper - c.lower < a.upper - a.lower
        /\ a.lower > a.upper => c = a
    BY <2>2, TurnNarrows
  <2>5. /\ a.lower \in Int /\ a.upper \in Int /\ c.lower \in Int /\ c.upper \in Int
    BY <1>3, <2>2
  <2>6. c.lower > c.upper \/ c.upper - c.lower <= n - (i + 1)
    BY ONLY <1>1, <2>3, <2>4, <2>5, i \in Nat
  <2> QED BY <2>6 DEF c
<1>6. n + 1 \in S
  <2>1. \A i \in Nat : i \in S
    <3> HIDE DEF S
    <3> QED BY <1>4, <1>5, ByCounting
  <2> QED BY <1>1, <2>1
<1> DEFINE e == r[n + 1]
<1>7. e \in Bounds(p) /\ e = Rate!Bisection(p)
  <2>1. n + 1 \in 0 .. n + 1
    BY <1>1
  <2> QED BY <1>2, <2>1
<1>8. e.lower > e.upper \/ e.upper - e.lower <= n - (n + 1)
  BY <1>1, <1>6
<1> HIDE DEF e
<1>9. e.lower \in Int /\ e.upper \in Int /\ e.lower <= e.upper + 1
  BY <1>3, <1>7
<1>10. e.lower = e.upper + 1
  BY ONLY <1>1, <1>8, <1>9
<1> QED BY <1>7, <1>10

\* One of the two places next to where it ended is the nearest of all, and
\* both are looked at.
LEMMA NearestFound ==
  ASSUME NEW p \in Prompt, NEW k \in 0 .. Len(p.fillers)
  PROVE  Rate!Off(p, Rate!positioned(p)) <= Rate!Off(p, k)
<1> DEFINE n == Len(p.fillers)
           b == Rate!Bisection(p)
           P == Rate!Positions(p)
           D(j) == Rate!Deeper(p, j)
           O(j) == Rate!Off(p, j)
<1>1. /\ n \in Nat /\ \A j \in 0 .. n : D(j) \in Int
      /\ \A i, j \in 0 .. n : i <= j => D(i) <= D(j)
  BY DeeperGrows
<1>2. b \in Bounds(p) /\ b.lower = b.upper + 1
  BY BisectionEnds
<1>3. /\ b.lower \in 0 .. n + 1 /\ b.upper \in -1 .. n /\ b.seen \subseteq 0 .. n
      /\ \A j \in 0 .. n : (j < b.lower => D(j) < 0) /\ (j > b.upper => D(j) >= 0)
  <2>1. \A j \in 0 .. n : (j < b.lower => D(j) < 0) /\ (j > b.upper => D(j) >= 0)
    BY <1>2 DEF Bounds
  <2>2. b.lower \in 0 .. n + 1 /\ b.upper \in -1 .. n /\ b.seen \subseteq 0 .. n
    BY <1>2 DEF Bounds
  <2> QED BY <2>1, <2>2
<1>4. \A j \in 0 .. n : O(j) \in Nat /\ O(j) = IF D(j) < 0 THEN -D(j) ELSE D(j)
  <2> TAKE j \in 0 .. n
  <2>1. O(j) = IF D(j) < 0 THEN -D(j) ELSE D(j)
    BY DEF Rate!Off
  <2>2. D(j) \in Int
    BY <1>1
  <2> HIDE DEF D, O
  <2> QED BY ONLY <2>1, <2>2
<1> DEFINE from == IF b.upper - 1 < 0 THEN 0 ELSE b.upper - 1
           upto == IF b.lower + 1 > n THEN n ELSE b.lower + 1
<1>5. P = b.seen \cup from .. upto
  <2>1. Rate!Max({0, b.upper - 1}) = from
    <3> DEFINE x == b.upper - 1
    <3>1. x \in Int
      BY <1>3
    <3> HIDE DEF x
    <3>2. Rate!Max({0, x}) = IF x < 0 THEN 0 ELSE x
      BY ONLY <3>1 DEF Rate!Max
    <3> QED BY <3>2 DEF x
  <2>2. Rate!Min({n, b.lower + 1}) = upto
    <3> DEFINE x == b.lower + 1
    <3>1. x \in Int /\ n \in Int
      BY <1>1, <1>3
    <3> HIDE DEF x, n
    <3>2. Rate!Min({n, x}) = IF x > n THEN n ELSE x
      BY ONLY <3>1 DEF Rate!Min
    <3> QED BY <3>2 DEF x
  <2> QED BY <2>1, <2>2 DEF Rate!Positions
<1> HIDE DEF n, b, P, D, O
<1>6. P \subseteq 0 .. n
  BY SMTT(30), <1>1, <1>2, <1>3, <1>5
<1>7. \E c \in P : O(c) <= O(k)
  <2>1. CASE k < b.lower
    <3>1. b.upper \in 0 .. n /\ k <= b.upper /\ b.upper \in P /\ b.upper < b.lower
      BY SMTT(30), <1>1, <1>2, <1>3, <1>5, <2>1 DEF n
    <3>2. D(k) <= D(b.upper) /\ D(b.upper) < 0 /\ D(k) \in Int /\ D(b.upper) \in Int
      BY <1>1, <1>3, <3>1 DEF n
    <3>3. O(k) = -D(k) /\ O(b.upper) = -D(b.upper)
      BY <1>4, <3>1, <3>2 DEF n
    <3>4. O(b.upper) <= O(k)
      BY ONLY <3>2, <3>3
    <3> QED BY <3>1, <3>4
  <2>2. CASE ~ (k < b.lower)
    <3>1. b.lower \in 0 .. n /\ b.lower <= k /\ b.lower \in P /\ b.lower > b.upper
      BY <1>1, <1>2, <1>3, <1>5, <2>2 DEF n
    <3>2. D(b.lower) <= D(k) /\ D(b.lower) >= 0 /\ D(k) \in Int /\ D(b.lower) \in Int
      BY <1>1, <1>3, <3>1 DEF n
    <3>3. O(k) = D(k) /\ O(b.lower) = D(b.lower)
      BY <1>4, <3>1, <3>2 DEF n
    <3>4. O(b.lower) <= O(k)
      BY ONLY <3>2, <3>3
    <3> QED BY <3>1, <3>4
  <2> QED BY <2>1, <2>2
<1>8. \E c \in P : \A j \in P : O(c) <= O(j)
  <2> DEFINE S == {O(j) : j \in P}
  <2>1. S \subseteq Nat /\ S # {}
    BY <1>4, <1>6, <1>7
  <2>2. PICK m \in S : \A x \in S : m <= x
    <3> HIDE DEF S
    <3> QED BY ONLY Zenon, <2>1, LeastExists
  <2> QED BY <2>2
<1> DEFINE c == Rate!positioned(p)
<1>9. c \in P /\ \A j \in P : O(c) <= O(j)
  <2>1. c = CHOOSE x \in P : \A j \in P : O(x) <= O(j)
    BY DEF Rate!positioned, P, O
  <2> HIDE DEF c
  <2> QED BY <1>8, <2>1
<1> HIDE DEF c
<1>10. PICK d \in P : O(d) <= O(k)
  BY <1>7
<1>11. O(c) <= O(d) /\ O(c) \in Nat /\ O(d) \in Nat /\ O(k) \in Nat
  BY <1>4, <1>6, <1>9 DEF n
<1>12. O(c) <= O(k)
  BY ONLY <1>10, <1>11
<1> QED BY <1>12 DEF O, c

\* Wherever the fillers and their sizes lie, no place for the file is nearer to
\* the depth asked for than the one that materialize_long_context_case finds by
\* bisection (long_context_benchmark.py).
THEOREM NeedleIsNearest == Spec => []NeedleNearest
<1>0. ASSUME tool = "prompt" => sample \in Prompts
      PROVE  NeedleNearest
  <2> SUFFICES ASSUME tool = "prompt", NEW k \in 0 .. Len(sample.fillers)
               PROVE  Rate!Off(sample, Rate!positioned(sample)) <= Rate!Off(sample, k)
    BY DEF NeedleNearest
  <2>1. sample \in Prompt
    <3>1. sample \in Prompts
      BY <1>0
    <3>2. PICK m \in 0 .. MaxFillers : sample.fillers \in [1 .. m -> {1, 3}]
      BY <3>1 DEF Prompts
    <3>3. m \in Nat
      BY <3>2
    <3>4. sample.fillers \in Seq(Nat)
      BY <3>2, <3>3
    <3>5. sample \in [head : {0, 2}, fillers : UNION {[1 .. l -> {1, 3}] : l \in 0 .. MaxFillers},
                      rest : {1, 4}, depth : {5, 10, 50, 75, 95}]
      BY <3>1 DEF Prompts
    <3> QED BY <3>4, <3>5 DEF Prompt
  <2> QED BY <2>1, NearestFound
<1>1. Init => (tool = "prompt" => sample \in Prompts)
  BY DEF Init, Picked
<1>2. (tool = "prompt" => sample \in Prompts) /\ [Next]_vars
        => (tool = "prompt" => sample \in Prompts)'
  BY DEF Next, vars, Prompts
<1> QED BY <1>0, <1>1, <1>2, PTL DEF Spec

(***************************************************************************)
(* The types of all the tools.                                             *)
(***************************************************************************)

\* A text without glyphs has no bytes.
LEMMA NothingIsShort == Stream!byte_len(<< >>) = 0
<1>1. DOMAIN << >> = {} /\ SUBSET {} = {{}}
  OBVIOUS
<1> DEFINE Rec0(g) == g = [s \in SUBSET DOMAIN << >> |->
                        IF s = {} THEN 0
                        ELSE g[s \ {Max(s)}] + Stream!Width(<< >>[Max(s)])]
<1>2. Stream!byte_len(<< >>) = (CHOOSE g : Rec0(g))[DOMAIN << >>]
  BY DEF Stream!byte_len, Stream!FoldLeft, Stream!MapThenFoldSet, Stream!Max, Max
<1>3. \A g : Rec0(g) => g[{}] = 0
  BY <1>1
<1>4. Rec0([s \in {{}} |-> 0])
  BY <1>1
<1> HIDE DEF Rec0
<1>5. Rec0(CHOOSE g : Rec0(g))
  BY <1>4
<1> QED BY <1>1, <1>2, <1>3, <1>5

\* The first of the places where a path stands.
LEMMA FirstPlace ==
  ASSUME NEW s \in Seq(Paths), NEW p, \E i \in 1 .. Len(s) : s[i] = p
  PROVE  \E k \in 1 .. Len(s) :
           s[k] = p /\ Stream!RemoveFirst(s, p) = SubSeq(s, 1, k - 1) \o SubSeq(s, k + 1, Len(s))
<1> DEFINE I == {i \in 1 .. Len(s) : s[i] = p}
<1>1. I # {} /\ I \subseteq Nat
  OBVIOUS
<1>2. Stream!Min(I) \in I
  <2> HIDE DEF I
  <2>1. \E m \in I : \A x \in I : m <= x
    BY ONLY Zenon, <1>1, LeastExists
  <2> QED BY <2>1 DEF Stream!Min
<1>3. Stream!RemoveFirst(s, p) = Stream!RemoveAt(s, Stream!Min(I))
  BY <1>1 DEF Stream!RemoveFirst, Stream!SelectInSeq
<1>4. Stream!Min(I) \in 1 .. Len(s) /\ s[Stream!Min(I)] = p
  BY <1>2
<1> HIDE DEF I
<1> QED BY Zenon, <1>3, <1>4 DEF Stream!RemoveAt

\* What list.remove leaves of the open files: all of them but one.
LEMMA ClosedIsGone ==
  ASSUME NEW s \in Seq(Paths), Stream!IsInjective(s), NEW p
  PROVE  /\ Stream!RemoveFirst(s, p) \in Seq(Paths)
         /\ Stream!IsInjective(Stream!RemoveFirst(s, p))
         /\ Stream!ToSet(Stream!RemoveFirst(s, p)) = Stream!ToSet(s) \ {p}
<1> DEFINE n == Len(s)
           r == Stream!RemoveFirst(s, p)
<1>1. CASE ~ \E i \in 1 .. Len(s) : s[i] = p
  <2>1. r = s
    BY <1>1 DEF Stream!RemoveFirst
  <2>2. p \notin Stream!ToSet(s)
    BY <1>1 DEF Stream!ToSet
  <2> QED BY <2>1, <2>2
<1>2. CASE \E i \in 1 .. Len(s) : s[i] = p
  <2>1. PICK k \in 1 .. n : s[k] = p /\ r = SubSeq(s, 1, k - 1) \o SubSeq(s, k + 1, n)
    BY Zenon, <1>2, FirstPlace
  <2> HIDE DEF r
  <2>2. /\ n \in Nat /\ r \in Seq(Paths) /\ Len(r) = n - 1
        /\ \A i \in 1 .. n - 1 : r[i] = IF i < k THEN s[i] ELSE s[i + 1]
    <3> DEFINE a == SubSeq(s, 1, k - 1)
               b == SubSeq(s, k + 1, n)
    <3>1. n \in Nat /\ k \in Nat /\ 1 <= k /\ k <= n
      OBVIOUS
    <3>2. /\ a \in Seq(Paths) /\ Len(a) = k - 1 /\ \A i \in 1 .. k - 1 : a[i] = s[i]
      BY <3>1
    <3>3. /\ b \in Seq(Paths) /\ Len(b) = n - k /\ \A i \in 1 .. n - k : b[i] = s[k + i]
      BY <3>1
    <3> HIDE DEF a, b, n
    <3>4. r = a \o b
      BY <2>1 DEF a, b
    <3>5. r \in Seq(Paths) /\ Len(r) = n - 1
      <4>1. a \in Seq(Paths) /\ b \in Seq(Paths)
        BY ONLY <3>2, <3>3
      <4>2. a \o b \in Seq(Paths) /\ Len(a \o b) = Len(a) + Len(b)
        BY ONLY <4>1, ConcatProperties
      <4>3. Len(a) + Len(b) = n - 1
        BY ONLY <3>1, <3>2, <3>3
      <4> QED BY ONLY <3>4, <4>2, <4>3
    <3>6. ASSUME NEW i \in 1 .. n - 1 PROVE r[i] = IF i < k THEN s[i] ELSE s[i + 1]
      <4>1. CASE i < k
        <5>1. i \in 1 .. Len(a) /\ i \in 1 .. k - 1
          BY ONLY <4>1, <3>1, <3>2, i \in 1 .. n - 1
        <5>2. r[i] = a[i]
          BY ONLY <5>1, <3>2, <3>3, <3>4
        <5> QED BY <4>1, <5>1, <5>2, <3>2
      <4>2. CASE ~ (i < k)
        <5> DEFINE j == i - (k - 1)
        <5>1. j \in 1 .. n - k /\ k + j = i + 1 /\ i = (k - 1) + j
          BY ONLY <4>2, <3>1, i \in 1 .. n - 1
        <5> HIDE DEF j
        <5>2. r[(k - 1) + j] = b[j]
          BY ONLY <5>1, <3>1, <3>2, <3>3, <3>4
        <5>3. b[j] = s[i + 1]
          BY ONLY <5>1, <3>3
        <5> QED BY <4>2, <5>1, <5>2, <5>3
      <4> QED BY <4>1, <4>2
    <3> QED BY <3>1, <3>5, <3>6
  <2>3. n \in Nat /\ k \in Nat /\ 1 <= k /\ k <= n /\ DOMAIN r = 1 .. n - 1 /\ DOMAIN s = 1 .. n
    BY <2>2
  <2>4. \A i, j \in 1 .. n : s[i] = s[j] => i = j
    BY <2>3 DEF Stream!IsInjective
  <2> HIDE DEF n
  <2>5. Stream!IsInjective(r)
    <3> SUFFICES ASSUME NEW i \in 1 .. n - 1, NEW j \in 1 .. n - 1, r[i] = r[j] PROVE i = j
      BY <2>3 DEF Stream!IsInjective
    <3> DEFINE x == IF i < k THEN i ELSE i + 1
               y == IF j < k THEN j ELSE j + 1
    <3>1. x \in 1 .. n /\ y \in 1 .. n
      BY <2>3
    <3>2. r[i] = s[x] /\ r[j] = s[y]
      BY <2>2
    <3>3. x = y
      <4> HIDE DEF x, y
      <4> QED BY Zenon, <2>4, <3>1, <3>2
    <3> QED BY <2>3, <3>3
  <2>6. \A i \in 1 .. n - 1 : r[i] # p /\ \E x \in 1 .. n : r[i] = s[x]
    <3> TAKE i \in 1 .. n - 1
    <3> DEFINE x == IF i < k THEN i ELSE i + 1
    <3>1. x \in 1 .. n /\ x # k
      BY <2>3
    <3>2. r[i] = s[x]
      BY <2>2
    <3> HIDE DEF x
    <3> QED BY Zenon, <2>1, <2>4, <3>1, <3>2
  <2>7. \A x \in 1 .. n : s[x] # p => \E i \in 1 .. n - 1 : r[i] = s[x]
    <3> SUFFICES ASSUME NEW x \in 1 .. n, s[x] # p PROVE \E i \in 1 .. n - 1 : r[i] = s[x]
      OBVIOUS
    <3> DEFINE i == IF x < k THEN x ELSE x - 1
    <3>1. x # k
      BY <2>1
    <3>2. i \in 1 .. n - 1 /\ (i < k => i = x) /\ (~ (i < k) => i + 1 = x)
      BY <2>3, <3>1
    <3> HIDE DEF i
    <3>3. r[i] = s[x]
      BY <2>2, <3>2
    <3> QED BY <3>2, <3>3
  <2>8. Stream!ToSet(r) = Stream!ToSet(s) \ {p}
    <3>1. Stream!ToSet(r) = {r[i] : i \in 1 .. n - 1} /\ Stream!ToSet(s) = {s[i] : i \in 1 .. n}
      BY <2>3 DEF Stream!ToSet
    <3>2. {r[i] : i \in 1 .. n - 1} = {s[i] : i \in 1 .. n} \ {p}
      <4> DEFINE A == {r[i] : i \in 1 .. n - 1}
                 B == {s[i] : i \in 1 .. n} \ {p}
      <4>1. \A z \in A : z \in B
        <5> TAKE z \in A
        <5>1. PICK i \in 1 .. n - 1 : z = r[i]
          OBVIOUS
        <5> QED BY ONLY <2>6, <5>1
      <4>2. \A z \in B : z \in A
        <5> TAKE z \in B
        <5>1. PICK x \in 1 .. n : z = s[x] /\ s[x] # p
          OBVIOUS
        <5> QED BY ONLY <2>7, <5>1
      <4> QED BY Zenon, <4>1, <4>2
    <3> QED BY ONLY Zenon, <3>1, <3>2
  <2> QED BY <2>2, <2>5, <2>8 DEF r
<1> QED BY <1>1, <1>2

\* What list.append leaves: one more.
LEMMA OpenedIsThere ==
  ASSUME NEW p \in Paths, open_files \in Seq(Paths), Stream!IsInjective(open_files)
  PROVE  /\ Stream!Opened(p) \in Seq(Paths) /\ Stream!IsInjective(Stream!Opened(p))
         /\ Stream!ToSet(Stream!Opened(p)) = Stream!ToSet(open_files) \cup {p}
<1> DEFINE s == open_files
<1>1. CASE p \in Stream!ToSet(s)
  <2>1. Stream!Opened(p) = s
    BY <1>1 DEF Stream!Opened
  <2> QED BY <1>1, <2>1
<1>2. CASE p \notin Stream!ToSet(s)
  <2> DEFINE r == Append(s, p)
             n == Len(s)
  <2>1. Stream!Opened(p) = r
    BY <1>2 DEF Stream!Opened
  <2>2. /\ n \in Nat /\ r \in Seq(Paths) /\ Len(r) = n + 1 /\ DOMAIN r = 1 .. n + 1
        /\ DOMAIN s = 1 .. n /\ r[n + 1] = p /\ \A i \in 1 .. n : r[i] = s[i]
    OBVIOUS
  <2> HIDE DEF r, n
  <2>3. \A i \in 1 .. n + 1 : i \in 1 .. n \/ i = n + 1
    BY <2>2
  <2>4. 1 .. n \subseteq 1 .. n + 1 /\ n + 1 \in 1 .. n + 1
    BY <2>2
  <2>5. \A i \in 1 .. n : r[i] # p
    BY <1>2, <2>2 DEF Stream!ToSet
  <2>6. \A i, j \in 1 .. n : s[i] = s[j] => i = j
    BY <2>2 DEF Stream!IsInjective
  <2>7. Stream!IsInjective(r)
    <3> SUFFICES ASSUME NEW i \in 1 .. n + 1, NEW j \in 1 .. n + 1, r[i] = r[j] PROVE i = j
      BY <2>2 DEF Stream!IsInjective
    <3> QED BY <2>2, <2>3, <2>5, <2>6
  <2>8. Stream!ToSet(r) = Stream!ToSet(s) \cup {p}
    BY <2>2, <2>3, <2>4 DEF Stream!ToSet
  <2> QED BY <2>1, <2>2, <2>7, <2>8
<1> QED BY <1>1, <1>2

\* The editor state of the event stream, without the counter of its events.
EditorTypes ==
  /\ DOMAIN files \subseteq Paths
  /\ \A p \in DOMAIN files : /\ files[p] \in Seq(Stream!Glyphs)
                             /\ Stream!byte_len(files[p]) <= MaxBytes
  /\ open_files \in Seq(Paths) /\ Stream!IsInjective(open_files)
  /\ Stream!ToSet(open_files) \subseteq DOMAIN files
  /\ DOMAIN cursors \subseteq DOMAIN files /\ DOMAIN diagnostics \subseteq DOMAIN files
  /\ \A p \in DOMAIN diagnostics : Stream!ToSet(diagnostics[p]) \subseteq Stream!Entry
  /\ last_predict.path \in {NoPath} \cup DOMAIN files

\* Files that are only added to.
LEMMA MoreFiles ==
  ASSUME EditorTypes, NEW p \in Paths, NEW text \in Seq(Stream!Glyphs),
         Stream!byte_len(text) <= MaxBytes, files' = Stream!Put(files, p, text),
         open_files' = Stream!Opened(p),
         UNCHANGED << cursors, diagnostics, last_predict >>
  PROVE  EditorTypes'
<1>1. /\ DOMAIN files' = DOMAIN files \cup {p} /\ files'[p] = text
      /\ \A x \in DOMAIN files \ {p} : files'[x] = files[x]
  BY DEF Stream!Put
<1>2. /\ open_files' \in Seq(Paths) /\ Stream!IsInjective(open_files')
      /\ Stream!ToSet(open_files') = Stream!ToSet(open_files) \cup {p}
  BY OpenedIsThere DEF EditorTypes
<1> QED BY <1>1, <1>2 DEF EditorTypes

\* A splice at two boundaries of a text leaves a text.
LEMMA SplicedText ==
  ASSUME NEW text \in Seq(Stream!Glyphs), NEW new \in Seq(Stream!Glyphs), NEW start, NEW end,
         Stream!CanSplice(text, start, end)
  PROVE  Stream!byte_splice(text, start, end, new) \in Seq(Stream!Glyphs)
<1> DEFINE before == CHOOSE n \in Stream!Boundary(text, start) : TRUE
           after  == CHOOSE n \in Stream!Boundary(text, end) : TRUE
<1>1. before \in Stream!Boundary(text, start) /\ after \in Stream!Boundary(text, end)
  BY DEF Stream!CanSplice, Stream!check_boundary
<1>2. before \in 0 .. Len(text) /\ after \in 0 .. Len(text)
  BY <1>1 DEF Stream!Boundary
<1>3. Stream!byte_splice(text, start, end, new) =
        SubSeq(text, 1, before) \o new \o SubSeq(text, after + 1, Len(text))
  BY DEF Stream!byte_splice
<1> HIDE DEF before, after
<1>4. /\ SubSeq(text, 1, before) \in Seq(Stream!Glyphs)
      /\ SubSeq(text, after + 1, Len(text)) \in Seq(Stream!Glyphs)
  BY <1>2
<1> QED BY <1>3, <1>4

\* Every event keeps the types.
LEMMA EventKeeps == ASSUME EditorTypes, Stream!apply_event PROVE EditorTypes'
<1>1. ASSUME NEW p \in Paths, Stream!OpenFile(p) PROVE EditorTypes'
  <2>1. CASE Stream!Known(p)
    <3>1. /\ files' = files /\ open_files' = Stream!Opened(p)
          /\ UNCHANGED << cursors, diagnostics, last_predict >>
      BY <1>1, <2>1 DEF Stream!OpenFile
    <3>2. /\ open_files' \in Seq(Paths) /\ Stream!IsInjective(open_files')
          /\ Stream!ToSet(open_files') = Stream!ToSet(open_files) \cup {p}
      BY <3>1, OpenedIsThere DEF EditorTypes
    <3> QED BY <2>1, <3>1, <3>2 DEF EditorTypes, Stream!Known
  <2>2. CASE ~ Stream!Known(p)
    <3>1. /\ files' = Stream!Put(files, p, << >>) /\ open_files' = Stream!Opened(p)
          /\ UNCHANGED << cursors, diagnostics, last_predict >>
      BY <1>1, <2>2 DEF Stream!OpenFile
    <3>2. << >> \in Seq(Stream!Glyphs) /\ Stream!byte_len(<< >>) <= MaxBytes
      BY NothingIsShort, StreamOK
    <3> QED BY Zenon, <3>1, <3>2, MoreFiles
  <2> QED BY <2>1, <2>2
<1>2. ASSUME NEW p \in Paths, Stream!CloseFile(p) PROVE EditorTypes'
  <2>1. /\ open_files' = Stream!RemoveFirst(open_files, p)
        /\ UNCHANGED << files, cursors, diagnostics, last_predict >>
    BY <1>2 DEF Stream!CloseFile
  <2>2. /\ open_files' \in Seq(Paths) /\ Stream!IsInjective(open_files')
        /\ Stream!ToSet(open_files') = Stream!ToSet(open_files) \ {p}
    BY <2>1, ClosedIsGone DEF EditorTypes
  <2> QED BY <2>1, <2>2 DEF EditorTypes
<1>3. ASSUME NEW p \in Paths, NEW text \in Snapshots, Stream!Snapshot(p, text) PROVE EditorTypes'
  <2>1. /\ files' = Stream!Put(files, p, text) /\ open_files' = Stream!Opened(p)
        /\ UNCHANGED << cursors, diagnostics, last_predict >>
    BY <1>3 DEF Stream!Snapshot
  <2> QED BY <2>1, TextsOK, MoreFiles
<1>4. ASSUME NEW p \in Paths, NEW start, NEW end, NEW text \in Inserted,
             Stream!Splice(p, start, end, text)
      PROVE  EditorTypes'
  <2> DEFINE new == Stream!byte_splice(files[p], start, end, text)
  <2>1. /\ p \in DOMAIN files /\ Stream!CanSplice(files[p], start, end)
        /\ Stream!byte_len(new) <= MaxBytes /\ files' = [files EXCEPT ![p] = new]
        /\ UNCHANGED << open_files, cursors, diagnostics, last_predict >>
    BY <1>4 DEF Stream!Splice, Stream!Known
  <2>2. new \in Seq(Stream!Glyphs)
    BY <2>1, TextsOK, SplicedText DEF EditorTypes
  <2> HIDE DEF new
  <2>3. /\ DOMAIN files' = DOMAIN files /\ files'[p] = new
        /\ \A x \in DOMAIN files \ {p} : files'[x] = files[x]
    BY <2>1
  <2> QED BY <2>1, <2>2, <2>3 DEF EditorTypes
<1>5. ASSUME NEW p \in Paths, NEW offset, Stream!Cursor(p, offset) PROVE EditorTypes'
  <2>1. /\ p \in DOMAIN files /\ DOMAIN cursors' = DOMAIN cursors \cup {p}
        /\ UNCHANGED << files, open_files, diagnostics, last_predict >>
    BY <1>5 DEF Stream!Cursor, Stream!Known, Stream!Put
  <2> QED BY <2>1 DEF EditorTypes
<1>6. ASSUME NEW p \in Paths, NEW offset, Stream!Predict(p, offset) PROVE EditorTypes'
  <2>1. /\ p \in DOMAIN files /\ last_predict'.path = p
        /\ UNCHANGED << files, open_files, cursors, diagnostics >>
    BY <1>6 DEF Stream!Predict, Stream!Known
  <2> QED BY <2>1 DEF EditorTypes
<1>7. ASSUME NEW p \in Paths, NEW entries, Stream!ToSet(entries) \subseteq Stream!Entry,
             Stream!Diagnostics(p, entries)
      PROVE  EditorTypes'
  <2>1. /\ p \in DOMAIN files /\ diagnostics' = Stream!Put(diagnostics, p, entries)
        /\ UNCHANGED << files, open_files, cursors, last_predict >>
    BY <1>7 DEF Stream!Diagnostics, Stream!Known
  <2>2. /\ DOMAIN diagnostics' = DOMAIN diagnostics \cup {p} /\ diagnostics'[p] = entries
        /\ \A x \in DOMAIN diagnostics \ {p} : diagnostics'[x] = diagnostics[x]
    BY <2>1 DEF Stream!Put
  <2> QED BY <1>7, <2>1, <2>2 DEF EditorTypes
<1>8. Stream!ToSet(<< >>) \subseteq Stream!Entry
  BY DEF Stream!ToSet
<1>9. ASSUME NEW offset \in 0 .. MaxBytes, NEW message \in Messages
      PROVE  Stream!ToSet(<< [start |-> 0, end |-> offset, message |-> message] >>)
               \subseteq Stream!Entry
  <2> DEFINE e == [start |-> 0, end |-> offset, message |-> message]
  <2>1. e \in Stream!Entry
    BY StreamOK DEF Stream!Entry
  <2> HIDE DEF e
  <2> QED BY <2>1 DEF Stream!ToSet, e
<1>10. ASSUME NEW p, NEW content, Stream!Retrieve(p, content) PROVE EditorTypes'
  BY <1>10 DEF Stream!Retrieve, EditorTypes
<1>11. ASSUME NEW id, NEW status, Stream!Complete(id, status) PROVE EditorTypes'
  BY <1>11 DEF Stream!Complete, EditorTypes
<1> QED
  BY Zenon, <1>1, <1>2, <1>3, <1>4, <1>5, <1>6, <1>7, <1>8, <1>9, <1>10,
     <1>11 DEF Stream!apply_event

\* With the counter of the events.
StreamTypes == EditorTypes /\ events \in -1 .. MaxEvents

\* The types of the replayed stream hold at first.
LEMMA StreamStarts == ASSUME Stream!ProtocolInit PROVE StreamTypes
<1>1. /\ files = Stream!Empty /\ open_files = << >> /\ cursors = Stream!Empty
      /\ diagnostics = Stream!Empty /\ events = 0
      /\ last_predict = [path |-> NoPath, offset |-> 0]
  BY DEF Stream!ProtocolInit
<1>2. DOMAIN Stream!Empty = {}
  BY DEF Stream!Empty
<1>3. << >> \in Seq(Paths) /\ Stream!IsInjective(<< >>) /\ Stream!ToSet(<< >>) = {}
  BY DEF Stream!IsInjective, Stream!ToSet
<1>4. last_predict.path = NoPath /\ events \in -1 .. MaxEvents
  BY <1>1, StreamOK
<1> QED BY <1>1, <1>2, <1>3, <1>4 DEF StreamTypes, EditorTypes

\* And whatever event comes.
LEMMA StreamKeeps == ASSUME StreamTypes, Stream!ReplayEvent PROVE StreamTypes'
<1>1. CASE Stream!apply_event /\ events' = events + 1
  <2>1. events' \in -1 .. MaxEvents
    BY <1>1, StreamOK DEF Stream!ReplayEvent
  <2> QED BY <1>1, <2>1, EventKeeps DEF StreamTypes
<1>2. CASE events' = -1 /\ UNCHANGED Stream!editor
  <2>1. events' \in -1 .. MaxEvents
    BY <1>2, StreamOK
  <2> QED BY <1>2, <2>1 DEF StreamTypes, EditorTypes, Stream!editor
<1> QED BY <1>1, <1>2 DEF Stream!ReplayEvent

\* They are the types of the protocol.
LEMMA StreamTyped == ASSUME StreamTypes PROVE Stream!ProtocolTypeOK
  BY DEF StreamTypes, EditorTypes, Stream!ProtocolTypeOK

\* The scripts' types are part of their invariant.
LEMMA HarnessTyped == ASSUME HarnessInv PROVE HarnessTypeOK
<1>1. AuthoringTypeOK
  <2>1. /\ author \in [at : AuthorPlaces, todo : SUBSET Cases, tries : 0 .. BatchTries - 1,
                       ids : IdMaps]
        /\ suite \in 0 .. MaxAuthors /\ purse <= AuthorCap - BatchEstimate + Max(Purses)
    BY DEF HarnessInv, AuthorInv
  <2>2. DOMAIN author.ids \subseteq Cases /\ Range(author.ids) \subseteq Cases
    <3>1. author.ids \in IdMaps
      BY <2>1
    <3>2. PICK d \in SUBSET Cases : author.ids \in [d -> Cases]
      BY <3>1 DEF IdMaps
    <3> QED BY <3>2 DEF Range
  <2> QED BY <2>1, <2>2 DEF AuthoringTypeOK, AuthorPlaces, Purses
<1>2. PredictionsTypeOK
  BY DEF HarnessInv, FileInv, RunInv, PredictionsTypeOK, Whole, Exists, GenPlaces, GenRuns
<1>3. EvaluationTypeOK
  <2>1. evaluation \in [at : EvalPlaces, done : Rows, refused : BOOLEAN, ok : BOOLEAN]
    BY DEF HarnessInv, EvalInv
  <2>2. \A c \in DOMAIN evaluation.done :
          evaluation.done[c].compile \in Statuses /\ evaluation.done[c].test \in Statuses
    <3>1. evaluation.done \in Rows
      BY <2>1
    <3>2. PICK d \in SUBSET Cases : evaluation.done \in [d -> Row]
      BY <3>1 DEF Rows
    <3>3. \A c \in DOMAIN evaluation.done : evaluation.done[c] \in Row
      BY <3>2
    <3> QED BY <3>3 DEF Row
  <2> QED BY <2>1, <2>2 DEF EvaluationTypeOK, EvalPlaces
<1> QED BY <1>1, <1>2, <1>3 DEF HarnessInv, StartedInv, HarnessTypeOK

\* What the invariant of the verifier leaves out: the length of the recording,
\* and the line array when there is nothing to rebuild.
ReplaySizes ==
  tool = "replay" =>
    /\ Len(deltas) <= MaxDeltas
    /\ done = -1 \/ first = Replay!EmptyFile => rebuilt = << >>

\* With it, the types of the verifier hold.
LEMMA ReplayTyped == ASSUME ReplayInv, ReplaySizes, tool = "replay" PROVE Replay!TypeOK
<1>1. /\ deltas \in Seq(Replay!Deltas) /\ done \in -1 .. Len(deltas) /\ failures = 0
      /\ Len(deltas) <= MaxDeltas /\ Len(deltas) \in Nat
  BY DEF ReplayInv, ReplaySizes
<1>2. PICK h : History(h) /\ Caught(h)
  BY DEF ReplayInv
<1>3. /\ h \in Seq(Replay!Contents) /\ Len(h) = Len(deltas) + 1
      /\ first = Replay!canonical_bytes(h[1]) /\ live = h[Len(h)]
  BY <1>2 DEF History
<1>4. \A i \in 1 .. Len(deltas) + 1 : h[i] \in Replay!Contents
  BY <1>3
<1>5. 1 \in 1 .. Len(deltas) + 1 /\ Len(deltas) + 1 \in 1 .. Len(deltas) + 1
  BY <1>1
<1>6. live \in Replay!Contents /\ first \in Replay!Contents \cup {Replay!EmptyFile}
  BY <1>3, <1>4, <1>5 DEF Replay!canonical_bytes
<1>7. \A i \in DOMAIN deltas : deltas[i] \in Replay!Deltas
  BY <1>1
<1>8. \A i \in DOMAIN rebuilt : rebuilt[i] \in Lines
  <2>1. CASE done = -1 \/ first = Replay!EmptyFile
    BY <2>1 DEF ReplaySizes
  <2>2. CASE ~ (done = -1 \/ first = Replay!EmptyFile)
    <3>1. done + 1 \in 1 .. Len(deltas) + 1 /\ done >= 0
      BY <1>1, <2>2
    <3>2. rebuilt = h[done + 1]
      BY <1>2, <2>2, <3>1 DEF Caught
    <3>3. rebuilt \in Seq(Lines)
      BY <1>4, <3>1, <3>2, ContentsFacts
    <3> QED BY <3>3
  <2> QED BY <2>1, <2>2
<1>9. failures \in 0 .. MaxMismatches + 1
  BY <1>1, RecordingOK
<1> QED BY <1>1, <1>6, <1>7, <1>8, <1>9 DEF Replay!TypeOK

\* A step of the verifier keeps the rest.
LEMMA SizesKept ==
  ASSUME ReplayInv, ReplaySizes, tool = "replay", tool' = tool, Replay!Next
  PROVE  ReplaySizes'
<1>1. deltas \in Seq(Replay!Deltas) /\ done \in -1 .. Len(deltas) /\ Len(deltas) \in Nat
  BY DEF ReplayInv
<1>2. /\ Len(deltas) <= MaxDeltas
      /\ done = -1 \/ first = Replay!EmptyFile => rebuilt = << >>
  BY DEF ReplaySizes
<1>3. ASSUME NEW start, NEW end, NEW new, Replay!Edit(start, end, new)
      PROVE  ReplaySizes'
  <2> DEFINE d == Replay!compute_delta(live, start, end, new)
  <2>1. /\ Len(deltas) < MaxDeltas /\ deltas' = Append(deltas, d)
        /\ UNCHANGED << first, done, rebuilt >>
    BY <1>3 DEF Replay!Edit
  <2> HIDE DEF d
  <2>2. Len(deltas') = Len(deltas) + 1
    BY <1>1, <2>1
  <2> QED BY <1>1, <1>2, <2>1, <2>2, RecordingOK DEF ReplaySizes
<1>4. CASE Replay!Start
  <2>1. /\ UNCHANGED << deltas, first >> /\ done = -1
        /\ first # Replay!EmptyFile => done' = 0
        /\ first = Replay!EmptyFile => rebuilt' = rebuilt
    BY <1>4 DEF Replay!Start, Replay!recording, Replay!HasBlob
  <2> QED BY <1>2, <2>1 DEF ReplaySizes
<1>5. CASE Replay!Replay
  <2>1. UNCHANGED << deltas, first >> /\ done \in 0 .. Len(deltas) - 1 /\ done' = done + 1
    BY <1>5 DEF Replay!Replay, Replay!recording
  <2>2. first # Replay!EmptyFile
    BY <1>1, <2>1 DEF ReplayInv
  <2>3. done' # -1
    BY <1>1, <2>1
  <2> QED BY <1>2, <2>1, <2>2, <2>3 DEF ReplaySizes
<1> QED BY <1>3, <1>4, <1>5 DEF Replay!Next

\* The types of all the tools hold in every state: in a replayed stream the open
\* files are distinct and known, no cursor, diagnostic or request names a file
\* that is not, and no file is longer than what a splice was checked for
\* (replay.py); a verifier looks at no more deltas than there are (replay.ts).
THEOREM OfflineTypesCorrect == Spec => []OfflineTypeOK
<1> DEFINE Tools == {"harness", "stream", "replay", "hole", "commit", "score", "prompt"}
           Inv == tool \in Tools /\ StreamTypes /\ ReplaySizes
<1>1. Init => Inv
  <2> SUFFICES ASSUME Init PROVE Inv
    OBVIOUS
  <2>1. tool \in Tools
    BY DEF Init, Picked
  <2>2. StreamTypes
    BY StreamStarts DEF Init
  <2>3. ReplaySizes
    <3>1. deltas = << >> /\ done = -1 /\ rebuilt = << >>
      BY DEF Init, Replay!Init
    <3> QED BY <3>1, RecordingOK DEF ReplaySizes
  <2> QED BY <2>1, <2>2, <2>3
<1>2. Inv /\ ReplayInv /\ [Next]_vars => Inv'
  <2> SUFFICES ASSUME Inv, ReplayInv, [Next]_vars PROVE Inv'
    OBVIOUS
  <2>1. tool' = tool
    BY DEF Next, vars
  <2>2. StreamTypes'
    <3>1. CASE Stream!ReplayEvent
      BY <3>1, StreamKeeps
    <3>2. CASE UNCHANGED streamVars
      BY <3>2 DEF streamVars, StreamTypes, EditorTypes
    <3> QED BY <3>1, <3>2 DEF Next, vars
  <2>3. ReplaySizes'
    <3>1. CASE tool = "replay" /\ Replay!Next
      BY <2>1, <3>1, SizesKept
    <3>2. CASE UNCHANGED replayVars
      BY <2>1, <3>2 DEF replayVars, ReplaySizes
    <3> QED BY <3>1, <3>2 DEF Next, vars
  <2> QED BY <2>1, <2>2, <2>3
<1>3. Inv /\ ReplayInv /\ HarnessInv => OfflineTypeOK
  BY HarnessTyped, StreamTyped, ReplayTyped DEF OfflineTypeOK
<1> HIDE DEF Inv
<1> QED BY <1>1, <1>2, <1>3, ReplayInvariant, HarnessInvariant, PTL DEF Spec

(***************************************************************************)
(* The score of a next edit: edit_distance is the least cost of an         *)
(* alignment of the two texts.  The cost satisfies the recurrence of the   *)
(* table (ThreeWays), so that every cell of it is the cost of its prefixes *)
(* (BestFills), and the corner is that of the texts.                       *)
(***************************************************************************)

\* The indices of a sequence, as FoldLeftDomain folds them.
Indices(s) == [i \in DOMAIN s |-> i]
Longer(x, y)  == IF Len(x) < Len(y) THEN y ELSE x
Shorter(x, y) == IF Len(x) < Len(y) THEN x ELSE y

\* The recursion that fills a row of the table, the row, the recursion over
\* the rows, and the last one.
CellsRec(left, right, previous, i, g) ==
  g = [s \in SUBSET DOMAIN Indices(right) |->
         IF s = {} THEN << i >>
         ELSE Append(g[s \ {Max(s)}],
                     Rate!Cell(previous[Indices(right)[Max(s)] + 1], Rate!Last(g[s \ {Max(s)}]),
                               previous[Indices(right)[Max(s)]],
                               left[i] = right[Indices(right)[Max(s)]]))]
Filled(left, right, previous, i) ==
  (CHOOSE g : CellsRec(left, right, previous, i, g))[DOMAIN Indices(right)]
RowsRec(left, right, h) ==
  h = [s \in SUBSET DOMAIN Indices(left) |->
         IF s = {} THEN [j \in 1 .. Len(right) + 1 |-> j - 1]
         ELSE Filled(left, right, h[s \ {Max(s)}], Indices(left)[Max(s)])]
LastRow(left, right) == (CHOOSE h : RowsRec(left, right, h))[DOMAIN Indices(left)]

\* The distance is the last cell of the last row.
LEMMA DistanceUnfolds ==
  ASSUME NEW x, NEW y
  PROVE  Rate!_edit_distance(x, y) =
           Rate!Last(LastRow(Longer(x, y), Shorter(x, y)))
  BY DEF Rate!_edit_distance, Rate!FoldLeftDomain, Rate!FoldLeft, Rate!MapThenFoldSet,
         Rate!Max, Max, LastRow, RowsRec, Filled, CellsRec, Indices, Longer, Shorter

\* A cell is the least of three numbers.
LEMMA CellIsLeast ==
  ASSUME NEW a \in Nat, NEW b \in Nat, NEW c \in Nat, NEW same
  PROVE  LET d == c + IF same THEN 0 ELSE 1
             v == Rate!Cell(a, b, c, same)
         IN  /\ d \in Nat /\ v \in {a + 1, b + 1, d} /\ v \in Nat
             /\ v <= a + 1 /\ v <= b + 1 /\ v <= d
<1> DEFINE e == IF same THEN 0 ELSE 1
           d == c + e
           S == {b + 1, a + 1, d}
<1>1. e \in Nat
  OBVIOUS
<1>2. Rate!Cell(a, b, c, same) = Rate!Min(S)
  BY DEF Rate!Cell
<1> HIDE DEF e
<1>3. d \in Nat
  BY <1>1
<1> HIDE DEF d
<1>4. S \subseteq Nat /\ S # {}
  BY <1>3
<1>5. Rate!Min(S) \in S /\ \A x \in S : Rate!Min(S) <= x
  <2> HIDE DEF S
  <2>1. \E x \in S : \A z \in S : x <= z
    BY ONLY Zenon, <1>4, LeastExists
  <2> QED BY <2>1 DEF Rate!Min
<1> DEFINE v == Rate!Min(S)
<1>6. v \in {a + 1, b + 1, d} /\ v \in Nat /\ v <= a + 1 /\ v <= b + 1 /\ v <= d
  BY <1>4, <1>5
<1> HIDE DEF v
<1>7. d \in Nat /\ v = Rate!Cell(a, b, c, same) /\ d = c + IF same THEN 0 ELSE 1
  BY <1>2, <1>3 DEF v, d, e
<1> QED BY ONLY <1>6, <1>7

\* A cell is filled from the one above, the one on the left and the one between.
LEMMA CellsFilled ==
  ASSUME NEW X, NEW left \in Seq(X), NEW right \in Seq(X), NEW i \in Nat,
         NEW previous \in [1 .. Len(right) + 1 -> Nat]
  PROVE  LET f == Filled(left, right, previous, i)
         IN  /\ f \in [1 .. Len(right) + 1 -> Nat] /\ f[1] = i
             /\ \A j \in 1 .. Len(right) :
                  f[j + 1] = Rate!Cell(previous[j + 1], f[j], previous[j], left[i] = right[j])
<1> DEFINE m == Len(right)
           V == Seq(Nat) \ {<< >>}
           C(j, l) == Rate!Cell(previous[j + 1], l, previous[j], left[i] = right[j])
           G == [q \in (1 .. m) \X V |-> Append(q[2], C(q[1], Rate!Last(q[2])))]
           f == Filled(left, right, previous, i)
<1>1. /\ m \in Nat /\ DOMAIN Indices(right) = 1 .. m
      /\ \A j \in 1 .. m : Indices(right)[j] = j
  BY DEF Indices
<1>2. \A j \in 1 .. m : \A l \in Nat : C(j, l) \in Nat
  <2> TAKE j \in 1 .. m
  <2> TAKE l \in Nat
  <2>1. previous[j + 1] \in Nat /\ previous[j] \in Nat
    BY <1>1
  <2> QED BY ONLY Zenon, <2>1, l \in Nat, CellIsLeast
<1> HIDE DEF C
<1>3. << i >> \in V /\ \A t \in V : Len(t) \in Nat \ {0} /\ Rate!Last(t) = t[Len(t)]
                                    /\ Rate!Last(t) \in Nat
  <2>1. << i >> \in V
    OBVIOUS
  <2> SUFFICES ASSUME NEW t \in V
               PROVE  Len(t) \in Nat \ {0} /\ Rate!Last(t) = t[Len(t)] /\ Rate!Last(t) \in Nat
    BY <2>1
  <2>2. Len(t) \in Nat \ {0} /\ Rate!Last(t) = t[Len(t)]
    BY DEF Rate!Last
  <2>3. t[Len(t)] \in Nat
    BY <2>2
  <2> QED BY <2>2, <2>3
<1>4. \A j \in 1 .. m, t \in V : Append(t, C(j, Rate!Last(t))) \in V
  <2> TAKE j \in 1 .. m, t \in V
  <2> DEFINE e == C(j, Rate!Last(t))
  <2>1. e \in Nat /\ t \in Seq(Nat)
    BY Zenon, <1>2, <1>3
  <2> HIDE DEF e
  <2>2. Append(t, e) \in Seq(Nat) /\ Len(Append(t, e)) = Len(t) + 1 /\ Len(t) \in Nat
    BY ONLY <2>1
  <2>3. Append(t, e) # << >>
    <3>1. Len(Append(t, e)) # 0
      BY ONLY <2>2
    <3>2. Len(<< >>) = 0
      OBVIOUS
    <3> DEFINE z == Append(t, e)
    <3> HIDE DEF z
    <3>3. Len(z) # 0 => z # << >>
      BY ONLY <3>2
    <3> QED BY ONLY <3>1, <3>3 DEF z
  <2> QED BY <2>2, <2>3 DEF e
<1>5. G \in [(1 .. m) \X V -> V]
  <2> HIDE DEF V
  <2> QED BY <1>4
<1>6. \A j \in 1 .. m, t \in V : G[<< j, t >>] = Append(t, C(j, Rate!Last(t)))
  <2> HIDE DEF V, m
  <2> QED OBVIOUS
<1> HIDE DEF m, G, V
<1>7. PICK h, r : FoldRun(m, V, << i >>, G, h, r)
  BY ONLY Zenon, <1>1, <1>3, <1>5, FoldSteps
<1>8. /\ h \in [SUBSET (1 .. m) -> V] /\ r \in [0 .. m -> V]
      /\ Fold(<< i >>, G, 1 .. m, h) /\ r[0] = << i >>
      /\ \A j \in 1 .. m : r[j] = G[<< j, r[j - 1] >>]
  BY ONLY <1>7 DEF FoldRun
<1>9. \A g : CellsRec(left, right, previous, i, g) <=>
              g = [s \in SUBSET (1 .. m) |->
                     IF s = {} THEN << i >>
                     ELSE Append(g[s \ {Max(s)}], C(Max(s), Rate!Last(g[s \ {Max(s)}])))]
  <2>1. ASSUME NEW s \in SUBSET (1 .. m), s # {}
        PROVE  Indices(right)[Max(s)] = Max(s)
    <3>1. Max(s) \in 1 .. m
      BY <2>1, IndexIn, <1>1
    <3> QED BY <1>1, <3>1
  <2> TAKE g
  <2> DEFINE u == [s \in SUBSET DOMAIN Indices(right) |->
         IF s = {} THEN << i >>
         ELSE Append(g[s \ {Max(s)}],
                     Rate!Cell(previous[Indices(right)[Max(s)] + 1], Rate!Last(g[s \ {Max(s)}]),
                               previous[Indices(right)[Max(s)]],
                               left[i] = right[Indices(right)[Max(s)]]))]
             w == [s \in SUBSET (1 .. m) |->
                     IF s = {} THEN << i >>
                     ELSE Append(g[s \ {Max(s)}], C(Max(s), Rate!Last(g[s \ {Max(s)}])))]
  <2>2. u = w
    <3>1. DOMAIN u = SUBSET (1 .. m) /\ DOMAIN w = SUBSET (1 .. m)
      BY <1>1
    <3>2. \A s \in SUBSET (1 .. m) : u[s] = w[s]
      <4> TAKE s \in SUBSET (1 .. m)
      <4>1. CASE s = {}
        BY <1>1, <4>1
      <4>2. CASE s # {}
        BY Zenon, <1>1, <2>1, <4>2 DEF C
      <4> QED BY Zenon, <4>1, <4>2
    <3>3. u = [s \in DOMAIN u |-> u[s]] /\ w = [s \in DOMAIN w |-> w[s]]
      OBVIOUS
    <3> HIDE DEF u, w
    <3> QED BY ONLY <3>1, <3>2, <3>3
  <2>3. CellsRec(left, right, previous, i, g) <=> g = u
    BY DEF CellsRec
  <2> QED BY ONLY Zenon, <2>2, <2>3 DEF w
<1>10. CellsRec(left, right, previous, i, h)
  <2> DEFINE w == [s \in SUBSET (1 .. m) |->
                     IF s = {} THEN << i >>
                     ELSE Append(h[s \ {Max(s)}], C(Max(s), Rate!Last(h[s \ {Max(s)}])))]
  <2>1. \A s \in SUBSET (1 .. m) : h[s] = w[s]
    <3> TAKE s \in SUBSET (1 .. m)
    <3>1. CASE s = {}
      BY <1>8, <3>1 DEF Fold
    <3>2. CASE s # {}
      <4>1. Max(s) \in 1 .. m
        BY <3>2, IndexIn, <1>1
      <4>2. h[s] = G[<< Max(s), h[s \ {Max(s)}] >>]
        BY Zenon, <1>8, <3>2 DEF Fold
      <4>3. h[s \ {Max(s)}] \in V
        BY Zenon, <1>8
      <4> QED BY Zenon, <3>2, <4>1, <4>2, <4>3, <1>6
    <3> QED BY <3>1, <3>2
  <2>2. h = [s \in SUBSET (1 .. m) |-> h[s]] /\ w = [s \in SUBSET (1 .. m) |-> w[s]]
    BY <1>8
  <2> HIDE DEF w
  <2>3. h = w
    BY ONLY Zenon, <2>1, <2>2
  <2> QED BY ONLY Zenon, <1>9, <2>3 DEF w
<1> DEFINE k == CHOOSE g : CellsRec(left, right, previous, i, g)
<1>11. CellsRec(left, right, previous, i, k)
  BY <1>10
<1>12. f = k[1 .. m]
  BY <1>1 DEF Filled
<1> HIDE DEF k, f
<1>13. k = [s \in SUBSET (1 .. m) |->
              IF s = {} THEN << i >>
              ELSE Append(k[s \ {Max(s)}], C(Max(s), Rate!Last(k[s \ {Max(s)}])))]
  BY ONLY Zenon, <1>9, <1>11
<1>14. k[{}] = << i >>
  BY ONLY <1>13
<1>15. \A j \in 1 .. m : k[1 .. j] = Append(k[1 .. j - 1], C(j, Rate!Last(k[1 .. j - 1])))
  <2> TAKE j \in 1 .. m
  <2>1. Max(1 .. j) = j /\ (1 .. j) \ {j} = 1 .. j - 1 /\ 1 .. j \in SUBSET (1 .. m)
        /\ 1 .. j # {}
    <3>1. j - 1 \in Nat /\ (j - 1) + 1 <= m /\ (j - 1) + 1 = j
      BY <1>1
    <3> QED BY ONLY SMTT(30), <1>1, <3>1, FirstIndices
  <2>2. k[1 .. j] = Append(k[(1 .. j) \ {Max(1 .. j)}],
                           C(Max(1 .. j), Rate!Last(k[(1 .. j) \ {Max(1 .. j)}])))
    BY ONLY Zenon, <1>13, <2>1
  <2> QED BY ONLY Zenon, <2>1, <2>2
<1>16. \A j \in 0 .. m : k[1 .. j] = r[j] /\ k[1 .. j] \in V
  <2>1. \A j \in 1 .. m : k[1 .. j - 1] \in V => k[1 .. j] = G[<< j, k[1 .. j - 1] >>]
    BY Zenon, <1>6, <1>15
  <2>2. m \in Nat
    BY <1>1
  <2>3. Stepwise(m, V, << i >>, G, k)
    BY ONLY <1>14, <2>1 DEF Stepwise
  <2> QED BY ONLY <1>7, <2>2, <2>3, RunIs
<1> DEFINE Q(j) == /\ Len(r[j]) = j + 1 /\ r[j][1] = i
                   /\ \A l \in 1 .. j : r[j][l + 1] = C(l, r[j][l])
           S == {j \in Nat : j <= m => Q(j)}
<1>17. 0 \in S
  BY SMTT(30), <1>8
<1>18. ASSUME NEW j \in Nat, j \in S PROVE j + 1 \in S
  <2> SUFFICES ASSUME j + 1 <= m PROVE Q(j + 1)
    OBVIOUS
  <2> DEFINE a == r[j]
             b == r[j + 1]
  <2>1. j + 1 \in 1 .. m /\ (j + 1) - 1 = j /\ j \in 0 .. m /\ j <= m
    BY <1>1
  <2>2. a \in V /\ b = Append(a, C(j + 1, Rate!Last(a)))
    BY Zenon, <1>6, <1>8, <2>1
  <2>3. /\ Len(a) = j + 1 /\ a[1] = i /\ \A l \in 1 .. j : a[l + 1] = C(l, a[l])
    BY Zenon, <1>18, <2>1
  <2> HIDE DEF a, b
  <2>4. a \in Seq(Nat) /\ Rate!Last(a) = a[j + 1] /\ Rate!Last(a) \in Nat
    BY Zenon, <1>3, <2>2, <2>3 DEF V
  <2>5. C(j + 1, Rate!Last(a)) \in Nat
    BY Zenon, <1>2, <2>1, <2>4
  <2>6. /\ Len(b) = j + 2 /\ b[j + 2] = C(j + 1, a[j + 1])
        /\ \A l \in 1 .. j + 1 : b[l] = a[l]
    BY <2>2, <2>3, <2>4, <2>5
  <2>7. \A l \in 1 .. j + 1 : b[l + 1] = C(l, b[l])
    <3> TAKE l \in 1 .. j + 1
    <3>1. CASE l = j + 1
      BY <2>6, <3>1
    <3>2. CASE l \in 1 .. j
      <4>1. l + 1 \in 1 .. j + 1
        BY <3>2
      <4> QED BY <2>3, <2>6, <3>2, <4>1
    <3> QED BY <3>1, <3>2
  <2>8. b[1] = i /\ Len(b) = (j + 1) + 1
    BY <2>3, <2>6
  <2> QED BY <2>7, <2>8 DEF b
<1>19. m \in S
  <2>1. \A j \in Nat : j \in S
    <3> HIDE DEF S
    <3> QED BY Zenon, <1>17, <1>18, ByCounting
  <2> QED BY <1>1, <2>1
<1>20. f = r[m] /\ f \in Seq(Nat)
  <2>1. m \in 0 .. m
    BY <1>1
  <2> QED BY <1>12, <1>16, <2>1 DEF V
<1>21. Len(f) = m + 1 /\ f[1] = i /\ \A l \in 1 .. m : f[l + 1] = C(l, f[l])
  BY <1>1, <1>19, <1>20
<1>22. f \in [1 .. m + 1 -> Nat]
  BY <1>20, <1>21
<1> QED BY <1>21, <1>22 DEF f, C, m

\* The rows of the table, one after the other.
RowsRun(left, right, r) ==
  /\ r \in [0 .. Len(left) -> [1 .. Len(right) + 1 -> Nat]]
  /\ r[0] = [j \in 1 .. Len(right) + 1 |-> j - 1]
  /\ r[Len(left)] = LastRow(left, right)
  /\ \A i \in 1 .. Len(left) : r[i] = Filled(left, right, r[i - 1], i)

\* There are such rows.
LEMMA RowsSteps ==
  ASSUME NEW X, NEW left \in Seq(X), NEW right \in Seq(X)
  PROVE  \E r : RowsRun(left, right, r)
<1> DEFINE n == Len(left)
           m == Len(right)
           V == [1 .. m + 1 -> Nat]
           F(i, p) == Filled(left, right, p, i)
           b == [j \in 1 .. m + 1 |-> j - 1]
           G == [q \in (1 .. n) \X V |-> F(q[1], q[2])]
<1>1. /\ n \in Nat /\ m \in Nat /\ DOMAIN Indices(left) = 1 .. n
      /\ \A i \in 1 .. n : Indices(left)[i] = i
  BY DEF Indices
<1>2. \A i \in 1 .. n, p \in V : F(i, p) \in V
  <2> TAKE i \in 1 .. n, p \in V
  <2>1. i \in Nat
    BY <1>1
  <2> QED BY Zenon, <2>1, CellsFilled
<1>3. b \in V
  BY <1>1
<1> HIDE DEF F, V
<1>4. G \in [(1 .. n) \X V -> V]
  BY <1>2
<1>5. \A i \in 1 .. n, p \in V : G[<< i, p >>] = F(i, p)
  <2> HIDE DEF n
  <2> QED OBVIOUS
<1> HIDE DEF n, m, G, b
<1>6. PICK h, r : FoldRun(n, V, b, G, h, r)
  BY ONLY Zenon, <1>1, <1>3, <1>4, FoldSteps
<1>7. /\ h \in [SUBSET (1 .. n) -> V] /\ r \in [0 .. n -> V]
      /\ Fold(b, G, 1 .. n, h) /\ r[0] = b
      /\ \A i \in 1 .. n : r[i] = G[<< i, r[i - 1] >>]
  BY ONLY <1>6 DEF FoldRun
<1>8. \A g : RowsRec(left, right, g) <=>
              g = [s \in SUBSET (1 .. n) |->
                     IF s = {} THEN b ELSE F(Max(s), g[s \ {Max(s)}])]
  <2>1. ASSUME NEW s \in SUBSET (1 .. n), s # {}
        PROVE  Indices(left)[Max(s)] = Max(s)
    <3>1. Max(s) \in 1 .. n
      BY <2>1, IndexIn, <1>1
    <3> QED BY <1>1, <3>1
  <2> TAKE g
  <2> DEFINE u == [s \in SUBSET DOMAIN Indices(left) |->
                     IF s = {} THEN [j \in 1 .. Len(right) + 1 |-> j - 1]
                     ELSE Filled(left, right, g[s \ {Max(s)}], Indices(left)[Max(s)])]
             w == [s \in SUBSET (1 .. n) |->
                     IF s = {} THEN b ELSE F(Max(s), g[s \ {Max(s)}])]
  <2>2. u = w
    <3>1. DOMAIN u = SUBSET (1 .. n) /\ DOMAIN w = SUBSET (1 .. n)
      BY <1>1
    <3>2. \A s \in SUBSET (1 .. n) : u[s] = w[s]
      <4> TAKE s \in SUBSET (1 .. n)
      <4>1. CASE s = {}
        BY <1>1, <4>1 DEF b, m
      <4>2. CASE s # {}
        BY Zenon, <1>1, <2>1, <4>2 DEF F
      <4> QED BY <4>1, <4>2
    <3>3. u = [s \in DOMAIN u |-> u[s]] /\ w = [s \in DOMAIN w |-> w[s]]
      OBVIOUS
    <3> HIDE DEF u, w
    <3> QED BY ONLY <3>1, <3>2, <3>3
  <2>3. RowsRec(left, right, g) <=> g = u
    BY DEF RowsRec
  <2> QED BY ONLY Zenon, <2>2, <2>3 DEF w
<1>9. RowsRec(left, right, h)
  <2> DEFINE w == [s \in SUBSET (1 .. n) |->
                     IF s = {} THEN b ELSE F(Max(s), h[s \ {Max(s)}])]
  <2>1. \A s \in SUBSET (1 .. n) : h[s] = w[s]
    <3> TAKE s \in SUBSET (1 .. n)
    <3>1. CASE s = {}
      BY <1>7, <3>1 DEF Fold
    <3>2. CASE s # {}
      <4>1. Max(s) \in 1 .. n
        BY <3>2, IndexIn, <1>1
      <4>2. h[s] = G[<< Max(s), h[s \ {Max(s)}] >>]
        BY Zenon, <1>7, <3>2 DEF Fold
      <4>3. h[s \ {Max(s)}] \in V
        BY Zenon, <1>7
      <4> QED BY Zenon, <3>2, <4>1, <4>2, <4>3, <1>5
    <3> QED BY <3>1, <3>2
  <2>2. h = [s \in SUBSET (1 .. n) |-> h[s]] /\ w = [s \in SUBSET (1 .. n) |-> w[s]]
    BY <1>7
  <2> HIDE DEF w
  <2>3. h = w
    BY ONLY Zenon, <2>1, <2>2
  <2> QED BY ONLY Zenon, <1>8, <2>3 DEF w
<1> DEFINE k == CHOOSE g : RowsRec(left, right, g)
<1>10. RowsRec(left, right, k)
  BY <1>9
<1> HIDE DEF k
<1>11. k = [s \in SUBSET (1 .. n) |-> IF s = {} THEN b ELSE F(Max(s), k[s \ {Max(s)}])]
  BY ONLY Zenon, <1>8, <1>10
<1>12. k[{}] = b
  BY ONLY <1>11
<1>13. \A i \in 1 .. n : k[1 .. i] = F(i, k[1 .. i - 1])
  <2> TAKE i \in 1 .. n
  <2>1. Max(1 .. i) = i /\ (1 .. i) \ {i} = 1 .. i - 1 /\ 1 .. i \in SUBSET (1 .. n)
        /\ 1 .. i # {}
    <3>1. i - 1 \in Nat /\ (i - 1) + 1 <= n /\ (i - 1) + 1 = i
      BY <1>1
    <3> QED BY ONLY Zenon, <1>1, <3>1, FirstIndices
  <2>2. k[1 .. i] = F(Max(1 .. i), k[(1 .. i) \ {Max(1 .. i)}])
    BY ONLY Zenon, <1>11, <2>1
  <2> QED BY ONLY Zenon, <2>1, <2>2
<1>14. \A i \in 0 .. n : k[1 .. i] = r[i] /\ k[1 .. i] \in V
  <2>1. Stepwise(n, V, b, G, k)
    BY <1>5, <1>12, <1>13 DEF Stepwise
  <2>2. n \in Nat
    BY <1>1
  <2> QED BY ONLY <1>6, <2>1, <2>2, RunIs
<1>15. r[n] = k[1 .. n]
  BY <1>1, <1>14
<1>16. \A i \in 1 .. n : r[i] = F(i, r[i - 1])
  <2> TAKE i \in 1 .. n
  <2>1. i - 1 \in 0 .. n
    BY <1>1
  <2>2. r[i - 1] \in V
    BY <1>7, <2>1
  <2> QED BY Zenon, <1>5, <1>7, <2>2
<1> QED BY Zenon, <1>1, <1>7, <1>15, <1>16 DEF n, m, V, F, b, k, LastRow, RowsRun

\* A function of two places that is what the algorithm computes: the borders,
\* and every cell from the three next to it.
Table(left, right, B) ==
  /\ B \in [(0 .. Len(left)) \X (0 .. Len(right)) -> Nat]
  /\ \A i \in 0 .. Len(left) : B[<< i, 0 >>] = i
  /\ \A j \in 0 .. Len(right) : B[<< 0, j >>] = j
  /\ \A i \in 1 .. Len(left), j \in 1 .. Len(right) :
       B[<< i, j >>] = Rate!Cell(B[<< i - 1, j >>], B[<< i, j - 1 >>], B[<< i - 1, j - 1 >>],
                                 left[i] = right[j])

\* The last cell of the last row is the corner of any such table.
LEMMA CornerIsDistance ==
  ASSUME NEW X, NEW left \in Seq(X), NEW right \in Seq(X), NEW B, Table(left, right, B)
  PROVE  Rate!Last(LastRow(left, right)) = B[<< Len(left), Len(right) >>]
<1> DEFINE n == Len(left)
           m == Len(right)
           C(a, b, c, i, j) == Rate!Cell(a, b, c, left[i] = right[j])
<1>1. n \in Nat /\ m \in Nat
  OBVIOUS
<1>2. /\ B \in [(0 .. n) \X (0 .. m) -> Nat]
      /\ \A i \in 0 .. n : B[<< i, 0 >>] = i
      /\ \A j \in 0 .. m : B[<< 0, j >>] = j
      /\ \A i \in 1 .. n, j \in 1 .. m :
           B[<< i, j >>] = C(B[<< i - 1, j >>], B[<< i, j - 1 >>], B[<< i - 1, j - 1 >>], i, j)
  BY Zenon DEF Table
<1>0. PICK r : RowsRun(left, right, r)
  BY RowsSteps
<1>3. /\ r \in [0 .. n -> [1 .. m + 1 -> Nat]] /\ r[0] = [j \in 1 .. m + 1 |-> j - 1]
      /\ r[n] = LastRow(left, right)
      /\ \A i \in 1 .. n : r[i] = Filled(left, right, r[i - 1], i)
  BY <1>0 DEF RowsRun
<1>4. ASSUME NEW i \in 1 .. n
      PROVE  /\ r[i][1] = i
             /\ \A j \in 1 .. m : r[i][j + 1] = C(r[i - 1][j + 1], r[i][j], r[i - 1][j], i, j)
  <2>1. i \in Nat /\ r[i - 1] \in [1 .. m + 1 -> Nat] /\ r[i] = Filled(left, right, r[i - 1], i)
    <3>1. i - 1 \in 0 .. n /\ i \in Nat
      BY <1>1
    <3> QED BY Zenon, <1>3, <3>1
  <2> DEFINE p == r[i - 1]
             f == Filled(left, right, p, i)
  <2>2. p \in [1 .. Len(right) + 1 -> Nat] /\ i \in Nat
    BY <2>1
  <2> HIDE DEF p
  <2>3. /\ f[1] = i
        /\ \A j \in 1 .. m : f[j + 1] = C(p[j + 1], f[j], p[j], i, j)
    <3>1. LET g == Filled(left, right, p, i)
          IN  /\ g \in [1 .. Len(right) + 1 -> Nat] /\ g[1] = i
              /\ \A j \in 1 .. Len(right) :
                   g[j + 1] = Rate!Cell(p[j + 1], g[j], p[j], left[i] = right[j])
      BY ONLY left \in Seq(X), right \in Seq(X), <2>2, CellsFilled
    <3> QED BY <3>1
  <2> QED BY <2>1, <2>3 DEF p
<1> HIDE DEF n, m, C
<1> DEFINE S == {i \in Nat : i <= n => \A j \in 0 .. m : r[i][j + 1] = B[<< i, j >>]}
<1>5. 0 \in S
  <2> SUFFICES ASSUME NEW j \in 0 .. m PROVE r[0][j + 1] = B[<< 0, j >>]
    OBVIOUS
  <2>1. j + 1 \in 1 .. m + 1 /\ (j + 1) - 1 = j
    BY <1>1
  <2> QED BY <1>2, <1>3, <2>1
<1>6. ASSUME NEW i \in Nat, i \in S PROVE i + 1 \in S
  <2> SUFFICES ASSUME i + 1 <= n PROVE \A j \in 0 .. m : r[i + 1][j + 1] = B[<< i + 1, j >>]
    OBVIOUS
  <2>1. i + 1 \in 1 .. n /\ (i + 1) - 1 = i /\ i \in 0 .. n /\ i + 1 \in 0 .. n /\ i <= n
    BY <1>1
  <2>2. \A j \in 0 .. m : r[i][j + 1] = B[<< i, j >>]
    BY <1>6, <2>1
  <2>3. /\ r[i + 1][1] = i + 1
        /\ \A j \in 1 .. m : r[i + 1][j + 1] = C(r[i][j + 1], r[i + 1][j], r[i][j], i + 1, j)
    BY <1>4, <2>1
  <2>4. \A j \in 1 .. m :
          B[<< i + 1, j >>] = C(B[<< i, j >>], B[<< i + 1, j - 1 >>], B[<< i, j - 1 >>], i + 1, j)
    BY Zenon, <1>2, <2>1
  <2> DEFINE P == {j \in Nat : j <= m => r[i + 1][j + 1] = B[<< i + 1, j >>]}
  <2>5. 0 \in P
    BY <1>2, <2>1, <2>3
  <2>6. ASSUME NEW j \in Nat, j \in P PROVE j + 1 \in P
    <3> SUFFICES ASSUME j + 1 <= m PROVE r[i + 1][(j + 1) + 1] = B[<< i + 1, j + 1 >>]
      OBVIOUS
    <3>1. j + 1 \in 1 .. m /\ (j + 1) - 1 = j /\ j \in 0 .. m /\ j + 1 \in 0 .. m /\ j <= m
      BY <1>1
    <3>2. r[i + 1][j + 1] = B[<< i + 1, j >>]
      BY <2>6, <3>1
    <3>3. r[i][(j + 1) + 1] = B[<< i, j + 1 >>] /\ r[i][j + 1] = B[<< i, j >>]
      BY <2>2, <3>1
    <3>4. r[i + 1][(j + 1) + 1] = C(r[i][(j + 1) + 1], r[i + 1][j + 1], r[i][j + 1], i + 1, j + 1)
      BY ONLY <2>3, <3>1
    <3>5. B[<< i + 1, j + 1 >>] =
            C(B[<< i, j + 1 >>], B[<< i + 1, j >>], B[<< i, j >>], i + 1, j + 1)
      BY ONLY Zenon, <2>4, <3>1
    <3> QED BY ONLY <3>2, <3>3, <3>4, <3>5
  <2>7. \A j \in Nat : j \in P
    <3> HIDE DEF P
    <3> QED BY <2>5, <2>6, ByCounting
  <2> QED BY <1>1, <2>7
<1>7. n \in S
  <2>1. \A i \in Nat : i \in S
    <3> HIDE DEF S
    <3> QED BY <1>5, <1>6, ByCounting
  <2> QED BY <1>1, <2>1
<1>8. r[n][m + 1] = B[<< n, m >>] /\ r[n] \in [1 .. m + 1 -> Nat]
  <2>1. m \in 0 .. m /\ n \in 0 .. n /\ n <= n
    BY <1>1
  <2>2. \A j \in 0 .. m : r[n][j + 1] = B[<< n, j >>]
    BY <1>7, <2>1
  <2> QED BY <1>3, <2>1, <2>2
<1>9. Len(r[n]) = m + 1
  <2> DEFINE e == r[n]
  <2>1. e \in [1 .. m + 1 -> Nat] /\ m + 1 \in Nat
    BY <1>1, <1>8
  <2> HIDE DEF e
  <2>2. Len(e) = m + 1
    BY ONLY <2>1
  <2> QED BY <2>2 DEF e
<1> QED BY <1>3, <1>8, <1>9 DEF Rate!Last, n, m

\* Two pairs of places are in the same order in both texts.
Ordered(p, q) ==
  p = q \/ (p[1] < q[1] /\ p[2] < q[2]) \/ (p[1] > q[1] /\ p[2] > q[2])

\* The alignments of the first i items with the first j, and what one costs.
Aligned(i, j) ==
  {a \in SUBSET ((1 .. i) \X (1 .. j)) : \A p, q \in a : Ordered(p, q)}
Unequal(x, y, a) == {p \in a : x[p[1]] # y[p[2]]}
Cost(x, y, i, j, a) == i + j - 2 * Cardinality(a) + Cardinality(Unequal(x, y, a))

\* An alignment has no more pairs than there are items on either side.
LEMMA AlignedFinite ==
  ASSUME NEW i \in Nat, NEW j \in Nat, NEW a \in Aligned(i, j), NEW x, NEW y
  PROVE  /\ IsFiniteSet(a) /\ Cardinality(a) \in Nat
         /\ Cardinality(a) <= i /\ Cardinality(a) <= j
         /\ IsFiniteSet(Unequal(x, y, a)) /\ Cardinality(Unequal(x, y, a)) \in Nat
         /\ Cost(x, y, i, j, a) \in Nat
<1>1. /\ \A p \in a : p[1] \in 1 .. i /\ p[2] \in 1 .. j
      /\ \A p, q \in a : Ordered(p, q)
  BY DEF Aligned
<1>2. /\ IsFiniteSet(1 .. i) /\ Cardinality(1 .. i) = i
      /\ IsFiniteSet(1 .. j) /\ Cardinality(1 .. j) = j
  BY FS_Interval
<1>3. \A p, q \in a : (p[1] = q[1] => p = q) /\ (p[2] = q[2] => p = q)
  <2> TAKE p, q \in a
  <2>1. p[1] \in Int /\ q[1] \in Int /\ p[2] \in Int /\ q[2] \in Int /\ Ordered(p, q)
    BY <1>1
  <2> QED BY <2>1 DEF Ordered
<1>4. [p \in a |-> p[1]] \in Injection(a, 1 .. i) /\ [p \in a |-> p[2]] \in Injection(a, 1 .. j)
  BY <1>1, <1>3 DEF Injection, IsInjective
<1>5. IsFiniteSet(a) /\ Cardinality(a) <= i /\ Cardinality(a) <= j
  BY <1>2, <1>4, FS_Injection
<1>6. Cardinality(a) \in Nat
  BY <1>5, FS_CardinalityType
<1>7. IsFiniteSet(Unequal(x, y, a)) /\ Cardinality(Unequal(x, y, a)) \in Nat
  <2>1. Unequal(x, y, a) \in SUBSET a
    BY DEF Unequal
  <2> QED BY <1>5, <2>1, FS_Subset, FS_CardinalityType
<1>8. Cost(x, y, i, j, a) \in Nat
  BY <1>5, <1>6, <1>7 DEF Cost
<1> QED BY <1>5, <1>6, <1>7, <1>8

\* An item that is left out on either side costs one.
LEMMA LeftOut ==
  ASSUME NEW i \in Nat, NEW j \in Nat, NEW a \in Aligned(i, j), NEW x, NEW y
  PROVE  /\ a \in Aligned(i + 1, j) /\ Cost(x, y, i + 1, j, a) = Cost(x, y, i, j, a) + 1
         /\ a \in Aligned(i, j + 1) /\ Cost(x, y, i, j + 1, a) = Cost(x, y, i, j, a) + 1
<1>1. a \in SUBSET ((1 .. i) \X (1 .. j)) /\ \A p, q \in a : Ordered(p, q)
  BY DEF Aligned
<1>2. (1 .. i) \X (1 .. j) \subseteq (1 .. i + 1) \X (1 .. j)
  OBVIOUS
<1>3. (1 .. i) \X (1 .. j) \subseteq (1 .. i) \X (1 .. j + 1)
  OBVIOUS
<1>4. a \in Aligned(i + 1, j) /\ a \in Aligned(i, j + 1)
  BY <1>1, <1>2, <1>3 DEF Aligned
<1>5. Cardinality(a) \in Nat /\ Cardinality(Unequal(x, y, a)) \in Nat
  BY AlignedFinite
<1> QED BY <1>4, <1>5 DEF Cost

\* Two items side by side cost one if they differ.
LEMMA SideBySide ==
  ASSUME NEW i \in Nat, NEW j \in Nat, NEW a \in Aligned(i, j), NEW x, NEW y
  PROVE  /\ a \cup {<< i + 1, j + 1 >>} \in Aligned(i + 1, j + 1)
         /\ Cost(x, y, i + 1, j + 1, a \cup {<< i + 1, j + 1 >>}) =
              Cost(x, y, i, j, a) + IF x[i + 1] = y[j + 1] THEN 0 ELSE 1
<1> DEFINE e == << i + 1, j + 1 >>
           b == a \cup {e}
<1>1. /\ \A p \in a : p \in (1 .. i) \X (1 .. j)
      /\ \A p \in a : p[1] \in 1 .. i /\ p[2] \in 1 .. j
      /\ \A p, q \in a : Ordered(p, q)
  BY DEF Aligned
<1>2. e \notin a /\ e[1] = i + 1 /\ e[2] = j + 1
  BY <1>1
<1>3. \A p \in a : p[1] < i + 1 /\ p[2] < j + 1
  BY <1>1
<1>4. b \in Aligned(i + 1, j + 1)
  <2>1. \A p, q \in b : Ordered(p, q)
    BY <1>1, <1>2, <1>3 DEF Ordered
  <2>2. e \in (1 .. i + 1) \X (1 .. j + 1)
    OBVIOUS
  <2>3. (1 .. i) \X (1 .. j) \subseteq (1 .. i + 1) \X (1 .. j + 1)
    OBVIOUS
  <2>4. b \in SUBSET ((1 .. i + 1) \X (1 .. j + 1))
    BY <1>1, <2>2, <2>3
  <2> QED BY <2>1, <2>4 DEF Aligned
<1>5. /\ IsFiniteSet(a) /\ Cardinality(a) \in Nat
      /\ IsFiniteSet(Unequal(x, y, a)) /\ Cardinality(Unequal(x, y, a)) \in Nat
  BY AlignedFinite
<1>6. Cardinality(b) = Cardinality(a) + 1
  BY Zenon, <1>2, <1>5, FS_AddElement
<1>7. CASE x[i + 1] = y[j + 1]
  <2>1. Unequal(x, y, b) = Unequal(x, y, a)
    BY <1>2, <1>7 DEF Unequal
  <2> QED BY <1>4, <1>5, <1>6, <1>7, <2>1 DEF Cost
<1>8. CASE x[i + 1] # y[j + 1]
  <2>1. Unequal(x, y, b) = Unequal(x, y, a) \cup {e} /\ e \notin Unequal(x, y, a)
    BY <1>2, <1>8 DEF Unequal
  <2>2. Cardinality(Unequal(x, y, b)) = Cardinality(Unequal(x, y, a)) + 1
    BY Zenon, <1>5, <2>1, FS_AddElement
  <2> QED BY <1>4, <1>5, <1>6, <1>8, <2>2 DEF Cost
<1> QED BY <1>7, <1>8

\* There is no other way: the last items are side by side, or one is left out.
LEMMA ThreeWays ==
  ASSUME NEW i \in Nat, NEW j \in Nat, NEW a \in Aligned(i + 1, j + 1)
  PROVE  \/ a \in Aligned(i, j + 1) \/ a \in Aligned(i + 1, j)
         \/ \E b \in Aligned(i, j) : a = b \cup {<< i + 1, j + 1 >>}
<1> DEFINE e == << i + 1, j + 1 >>
           b == a \ {e}
<1>1. /\ \A p \in a : p \in (1 .. i + 1) \X (1 .. j + 1)
      /\ \A p \in a : p[1] \in 1 .. i + 1 /\ p[2] \in 1 .. j + 1 /\ p = << p[1], p[2] >>
      /\ \A p, q \in a : Ordered(p, q)
  BY DEF Aligned
<1>2. CASE \A p \in a : p[1] # i + 1
  <2>1. \A p \in a : p[1] \in 1 .. i /\ p[2] \in 1 .. j + 1 /\ p = << p[1], p[2] >>
    BY <1>1, <1>2
  <2>2. \A p \in a : p \in (1 .. i) \X (1 .. j + 1)
    BY <2>1
  <2> QED BY <1>1, <2>2 DEF Aligned
<1>3. CASE \A p \in a : p[2] # j + 1
  <2>1. \A p \in a : p[1] \in 1 .. i + 1 /\ p[2] \in 1 .. j /\ p = << p[1], p[2] >>
    BY <1>1, <1>3
  <2>2. \A p \in a : p \in (1 .. i + 1) \X (1 .. j)
    BY <2>1
  <2> QED BY <1>1, <2>2 DEF Aligned
<1>4. CASE (\E p \in a : p[1] = i + 1) /\ (\E q \in a : q[2] = j + 1)
  <2>1. PICK p \in a : p[1] = i + 1
    BY <1>4
  <2>2. PICK q \in a : q[2] = j + 1
    BY <1>4
  <2>3. p = q
    <3>1. /\ Ordered(p, q) /\ p[1] \in Int /\ q[1] \in Int /\ p[2] \in Int /\ q[2] \in Int
          /\ q[1] <= i + 1 /\ p[2] <= j + 1
      BY <1>1
    <3> QED BY <2>1, <2>2, <3>1 DEF Ordered
  <2>4. e \in a
    BY <1>1, <2>1, <2>2, <2>3
  <2>5. \A r \in b : r[1] \in 1 .. i /\ r[2] \in 1 .. j
    <3> TAKE r \in b
    <3>1. Ordered(r, e) /\ r # e /\ r[1] \in 1 .. i + 1 /\ r[2] \in 1 .. j + 1
      BY <1>1, <2>4
    <3>2. e[1] = i + 1 /\ e[2] = j + 1
      OBVIOUS
    <3> HIDE DEF e
    <3> QED BY <3>1, <3>2 DEF Ordered
  <2>6. \A r \in b : r \in (1 .. i) \X (1 .. j)
    BY <1>1, <2>5
  <2>7. b \in Aligned(i, j)
    BY <1>1, <2>6 DEF Aligned
  <2>8. a = b \cup {e}
    BY <2>4
  <2> QED BY <2>7, <2>8
<1> QED BY <1>2, <1>3, <1>4

\* The cost of the cheapest alignment of the first i items with the first j.
Costs(x, y, i, j) == {Cost(x, y, i, j, a) : a \in Aligned(i, j)}
Best(x, y, i, j)  == CHOOSE c \in Costs(x, y, i, j) : \A d \in Costs(x, y, i, j) : c <= d

\* There is one.
LEMMA BestExists ==
  ASSUME NEW i \in Nat, NEW j \in Nat, NEW x, NEW y
  PROVE  /\ Best(x, y, i, j) \in Nat
         /\ \E a \in Aligned(i, j) : Cost(x, y, i, j, a) = Best(x, y, i, j)
         /\ \A a \in Aligned(i, j) : Best(x, y, i, j) <= Cost(x, y, i, j, a)
<1> DEFINE S == Costs(x, y, i, j)
<1>1. S \subseteq Nat
  BY AlignedFinite DEF Costs
<1>2. {} \in Aligned(i, j)
  BY DEF Aligned
<1>3. S # {}
  BY <1>2 DEF Costs
<1>4. \E c \in S : \A d \in S : c <= d
  <2> HIDE DEF S
  <2> QED BY ONLY Zenon, <1>1, <1>3, LeastExists
<1>5. Best(x, y, i, j) \in S /\ \A d \in S : Best(x, y, i, j) <= d
  BY <1>4 DEF Best
<1> QED BY <1>1, <1>5 DEF Costs

\* With nothing on one side all items of the other are left out.
LEMMA BestAtBorder ==
  ASSUME NEW i \in Nat, NEW x, NEW y
  PROVE  Best(x, y, i, 0) = i /\ Best(x, y, 0, i) = i
<1>1. \A a \in Aligned(i, 0) : a = {}
  BY DEF Aligned
<1>2. \A a \in Aligned(0, i) : a = {}
  BY DEF Aligned
<1>3. Unequal(x, y, {}) = {} /\ Cardinality({}) = 0
  BY FS_EmptySet DEF Unequal
<1>4. Cost(x, y, i, 0, {}) = i /\ Cost(x, y, 0, i, {}) = i
  BY <1>3 DEF Cost
<1>5. Best(x, y, i, 0) = i
  <2>1. PICK a \in Aligned(i, 0) : Cost(x, y, i, 0, a) = Best(x, y, i, 0)
    BY BestExists
  <2> QED BY <1>1, <1>4, <2>1
<1>6. Best(x, y, 0, i) = i
  <2>1. PICK a \in Aligned(0, i) : Cost(x, y, 0, i, a) = Best(x, y, 0, i)
    BY BestExists
  <2> QED BY <1>2, <1>4, <2>1
<1> QED BY <1>5, <1>6

\* The cheapest is the least of three.
LEMMA BestIsCell ==
  ASSUME NEW i \in Nat, NEW j \in Nat, NEW x, NEW y
  PROVE  Best(x, y, i + 1, j + 1) =
           Rate!Cell(Best(x, y, i, j + 1), Best(x, y, i + 1, j), Best(x, y, i, j),
                     x[i + 1] = y[j + 1])
<1> DEFINE e == Best(x, y, i + 1, j + 1)
           a == Best(x, y, i, j + 1)
           b == Best(x, y, i + 1, j)
           c == Best(x, y, i, j)
           d == c + IF x[i + 1] = y[j + 1] THEN 0 ELSE 1
           v == Rate!Cell(a, b, c, x[i + 1] = y[j + 1])
<1>1. i + 1 \in Nat /\ j + 1 \in Nat
  OBVIOUS
<1>2. a \in Nat /\ b \in Nat /\ c \in Nat /\ e \in Nat
  BY <1>1, BestExists
<1>3. e <= a + 1
  <2>1. PICK s \in Aligned(i, j + 1) : Cost(x, y, i, j + 1, s) = a
    BY <1>1, BestExists
  <2>2. s \in Aligned(i + 1, j + 1) /\ Cost(x, y, i + 1, j + 1, s) = a + 1
    BY <1>1, <2>1, LeftOut
  <2> QED BY <1>1, <2>2, BestExists
<1>4. e <= b + 1
  <2>1. PICK s \in Aligned(i + 1, j) : Cost(x, y, i + 1, j, s) = b
    BY <1>1, BestExists
  <2>2. s \in Aligned(i + 1, j + 1) /\ Cost(x, y, i + 1, j + 1, s) = b + 1
    BY <1>1, <2>1, LeftOut
  <2> QED BY <1>1, <2>2, BestExists
<1>5. e <= d
  <2>1. PICK s \in Aligned(i, j) : Cost(x, y, i, j, s) = c
    BY BestExists
  <2>2. /\ s \cup {<< i + 1, j + 1 >>} \in Aligned(i + 1, j + 1)
        /\ Cost(x, y, i + 1, j + 1, s \cup {<< i + 1, j + 1 >>}) = d
    BY <2>1, SideBySide
  <2> QED BY <1>1, <2>2, BestExists
<1>6. a + 1 <= e \/ b + 1 <= e \/ d <= e
  <2>1. PICK s \in Aligned(i + 1, j + 1) : Cost(x, y, i + 1, j + 1, s) = e
    BY <1>1, BestExists
  <2>2. CASE s \in Aligned(i, j + 1)
    <3>1. Cost(x, y, i + 1, j + 1, s) = Cost(x, y, i, j + 1, s) + 1
      BY <1>1, <2>2, LeftOut
    <3>2. a <= Cost(x, y, i, j + 1, s) /\ Cost(x, y, i, j + 1, s) \in Nat
      BY <1>1, <2>2, BestExists, AlignedFinite
    <3> HIDE DEF a, e
    <3> QED BY <1>2, <2>1, <3>1, <3>2
  <2>3. CASE s \in Aligned(i + 1, j)
    <3>1. Cost(x, y, i + 1, j + 1, s) = Cost(x, y, i + 1, j, s) + 1
      BY <1>1, <2>3, LeftOut
    <3>2. b <= Cost(x, y, i + 1, j, s) /\ Cost(x, y, i + 1, j, s) \in Nat
      BY <1>1, <2>3, BestExists, AlignedFinite
    <3> HIDE DEF b, e
    <3> QED BY <1>2, <2>1, <3>1, <3>2
  <2>4. CASE \E t \in Aligned(i, j) : s = t \cup {<< i + 1, j + 1 >>}
    <3>1. PICK t \in Aligned(i, j) : s = t \cup {<< i + 1, j + 1 >>}
      BY <2>4
    <3> DEFINE paid == IF x[i + 1] = y[j + 1] THEN 0 ELSE 1
    <3>2. Cost(x, y, i + 1, j + 1, s) = Cost(x, y, i, j, t) + paid /\ paid \in Nat
      BY <3>1, SideBySide
    <3>3. c <= Cost(x, y, i, j, t) /\ Cost(x, y, i, j, t) \in Nat
      BY BestExists, AlignedFinite
    <3>4. d = c + paid
      OBVIOUS
    <3> HIDE DEF c, d, e, paid
    <3> QED BY <1>2, <2>1, <3>2, <3>3, <3>4
  <2> QED BY <2>2, <2>3, <2>4, ThreeWays
<1>7. /\ d \in Nat /\ v \in {a + 1, b + 1, d} /\ v \in Nat
      /\ v <= a + 1 /\ v <= b + 1 /\ v <= d
  <2> HIDE DEF a, b, c
  <2>1. LET dd == c + IF x[i + 1] = y[j + 1] THEN 0 ELSE 1
            vv == Rate!Cell(a, b, c, x[i + 1] = y[j + 1])
        IN  /\ dd \in Nat /\ vv \in {a + 1, b + 1, dd} /\ vv \in Nat
            /\ vv <= a + 1 /\ vv <= b + 1 /\ vv <= dd
    BY ONLY Zenon, <1>2, CellIsLeast
  <2> QED BY <2>1
<1> HIDE DEF a, b, c, d, e, v
<1>8. e = v
  BY ONLY <1>2, <1>3, <1>4, <1>5, <1>6, <1>7
<1> QED BY <1>8 DEF a, b, c, e, v

\* So it fills the table, whichever of the two texts is taken for the rows.
LEMMA BestFills ==
  ASSUME NEW X, NEW x \in Seq(X), NEW y \in Seq(X)
  PROVE  /\ Table(x, y, [q \in (0 .. Len(x)) \X (0 .. Len(y)) |-> Best(x, y, q[1], q[2])])
         /\ Table(y, x, [q \in (0 .. Len(y)) \X (0 .. Len(x)) |-> Best(x, y, q[2], q[1])])
<1> DEFINE n == Len(x)
           m == Len(y)
           A == [q \in (0 .. n) \X (0 .. m) |-> Best(x, y, q[1], q[2])]
           B == [q \in (0 .. m) \X (0 .. n) |-> Best(x, y, q[2], q[1])]
<1>1. n \in Nat /\ m \in Nat
  OBVIOUS
<1>2. \A i \in 0 .. n, j \in 0 .. m : Best(x, y, i, j) \in Nat
  BY <1>1, BestExists
<1>3. /\ \A i \in 0 .. n, j \in 0 .. m : A[<< i, j >>] = Best(x, y, i, j)
      /\ \A i \in 0 .. n, j \in 0 .. m : B[<< j, i >>] = Best(x, y, i, j)
  <2> HIDE DEF n, m
  <2> QED OBVIOUS
<1>4. A \in [(0 .. n) \X (0 .. m) -> Nat] /\ B \in [(0 .. m) \X (0 .. n) -> Nat]
  <2> HIDE DEF n, m
  <2> QED BY Zenon, <1>2
<1> HIDE DEF A, B, n, m
<1>5. ASSUME NEW i \in 1 .. n, NEW j \in 1 .. m
      PROVE  /\ Best(x, y, i, j) = Rate!Cell(Best(x, y, i - 1, j), Best(x, y, i, j - 1),
                                             Best(x, y, i - 1, j - 1), x[i] = y[j])
             /\ Best(x, y, i, j) = Rate!Cell(Best(x, y, i, j - 1), Best(x, y, i - 1, j),
                                             Best(x, y, i - 1, j - 1), y[j] = x[i])
  <2> DEFINE a == Best(x, y, i - 1, j)
             b == Best(x, y, i, j - 1)
             c == Best(x, y, i - 1, j - 1)
  <2>1. i - 1 \in Nat /\ j - 1 \in Nat /\ (i - 1) + 1 = i /\ (j - 1) + 1 = j
    BY <1>1
  <2>2. Best(x, y, (i - 1) + 1, (j - 1) + 1) =
          Rate!Cell(Best(x, y, i - 1, (j - 1) + 1), Best(x, y, (i - 1) + 1, j - 1),
                    Best(x, y, i - 1, j - 1), x[(i - 1) + 1] = y[(j - 1) + 1])
    BY ONLY <2>1, BestIsCell
  <2>3. Best(x, y, i, j) = Rate!Cell(a, b, c, x[i] = y[j])
    BY ONLY <2>1, <2>2
  <2> HIDE DEF a, b, c
  <2>4. Rate!Cell(a, b, c, x[i] = y[j]) = Rate!Cell(b, a, c, y[j] = x[i])
    <3>1. (IF x[i] = y[j] THEN 0 ELSE 1) = (IF y[j] = x[i] THEN 0 ELSE 1)
      OBVIOUS
    <3> DEFINE d == c + (IF x[i] = y[j] THEN 0 ELSE 1)
               f == c + (IF y[j] = x[i] THEN 0 ELSE 1)
    <3>2. /\ Rate!Cell(a, b, c, x[i] = y[j]) = Rate!Min({b + 1, a + 1, d})
          /\ Rate!Cell(b, a, c, y[j] = x[i]) = Rate!Min({a + 1, b + 1, f})
      BY DEF Rate!Cell
    <3>3. d = f
      BY <3>1
    <3> HIDE DEF d, f
    <3>4. {b + 1, a + 1, d} = {a + 1, b + 1, f}
      BY <3>3
    <3> QED BY Zenon, <3>2, <3>4
  <2> QED BY <2>3, <2>4 DEF a, b, c
<1>6. \A i \in 1 .. n : i - 1 \in 0 .. n /\ i \in 0 .. n
  BY <1>1
<1>7. \A j \in 1 .. m : j - 1 \in 0 .. m /\ j \in 0 .. m
  BY <1>1
<1>8. ASSUME NEW i \in 1 .. n, NEW j \in 1 .. m
      PROVE  /\ A[<< i, j >>] = Rate!Cell(A[<< i - 1, j >>], A[<< i, j - 1 >>],
                                          A[<< i - 1, j - 1 >>], x[i] = y[j])
             /\ B[<< j, i >>] = Rate!Cell(B[<< j - 1, i >>], B[<< j, i - 1 >>],
                                          B[<< j - 1, i - 1 >>], y[j] = x[i])
  <2>1. /\ A[<< i, j >>] = Best(x, y, i, j) /\ A[<< i - 1, j >>] = Best(x, y, i - 1, j)
        /\ A[<< i, j - 1 >>] = Best(x, y, i, j - 1)
        /\ A[<< i - 1, j - 1 >>] = Best(x, y, i - 1, j - 1)
    BY <1>3, <1>6, <1>7
  <2>2. /\ B[<< j, i >>] = Best(x, y, i, j) /\ B[<< j, i - 1 >>] = Best(x, y, i - 1, j)
        /\ B[<< j - 1, i >>] = Best(x, y, i, j - 1)
        /\ B[<< j - 1, i - 1 >>] = Best(x, y, i - 1, j - 1)
    BY <1>3, <1>6, <1>7
  <2> QED BY <1>5, <2>1, <2>2
<1>9. /\ \A i \in 0 .. n : A[<< i, 0 >>] = i /\ B[<< 0, i >>] = i
      /\ \A j \in 0 .. m : A[<< 0, j >>] = j /\ B[<< j, 0 >>] = j
  <2>1. 0 \in 0 .. n /\ 0 \in 0 .. m
    BY <1>1
  <2> QED BY <1>3, <2>1, BestAtBorder
<1>10. Table(x, y, A)
  BY Zenon, <1>4, <1>8, <1>9 DEF Table, n, m
<1>11. Table(y, x, B)
  BY Zenon, <1>4, <1>8, <1>9 DEF Table, n, m
<1> QED BY <1>10, <1>11 DEF A, B, n, m

\* What the program computes is the least cost.
LEMMA DistanceIsBest ==
  ASSUME NEW X, NEW x \in Seq(X), NEW y \in Seq(X)
  PROVE  Rate!_edit_distance(x, y) = Best(x, y, Len(x), Len(y))
<1> DEFINE n == Len(x)
           m == Len(y)
           A == [q \in (0 .. n) \X (0 .. m) |-> Best(x, y, q[1], q[2])]
           B == [q \in (0 .. m) \X (0 .. n) |-> Best(x, y, q[2], q[1])]
<1>1. n \in Nat /\ m \in Nat
  OBVIOUS
<1>2. Table(x, y, A) /\ Table(y, x, B)
  BY Zenon, BestFills
<1>3. A[<< n, m >>] = Best(x, y, n, m) /\ B[<< m, n >>] = Best(x, y, n, m)
  <2>1. n \in 0 .. n /\ m \in 0 .. m
    BY <1>1
  <2> HIDE DEF n, m
  <2> QED BY <2>1
<1> HIDE DEF A, B
<1>4. CASE n < m
  <2>1. Longer(x, y) = y /\ Shorter(x, y) = x
    BY <1>4 DEF Longer, Shorter
  <2>2. Rate!_edit_distance(x, y) = Rate!Last(LastRow(y, x))
    BY <2>1, DistanceUnfolds
  <2>3. Rate!Last(LastRow(y, x)) = B[<< Len(y), Len(x) >>]
    BY <1>2, CornerIsDistance
  <2> QED BY <1>3, <2>2, <2>3
<1>5. CASE ~ (n < m)
  <2>1. Longer(x, y) = x /\ Shorter(x, y) = y
    BY <1>5 DEF Longer, Shorter
  <2>2. Rate!_edit_distance(x, y) = Rate!Last(LastRow(x, y))
    BY <2>1, DistanceUnfolds
  <2>3. Rate!Last(LastRow(x, y)) = A[<< Len(x), Len(y) >>]
    BY <1>2, CornerIsDistance
  <2> QED BY <1>3, <2>2, <2>3
<1> QED BY <1>4, <1>5

\* The distance of Offline is that least cost.
LEMMA LeastIsDistance ==
  ASSUME NEW X, NEW x \in Seq(X), NEW y \in Seq(X)
  PROVE  Distance(x, y) = Best(x, y, Len(x), Len(y))
<1>1. DOMAIN x = 1 .. Len(x) /\ DOMAIN y = 1 .. Len(y)
  OBVIOUS
<1>2. Alignments(x, y) = Aligned(Len(x), Len(y))
  BY <1>1 DEF Alignments, Aligned, Ordered
<1> DEFINE S == {Len(x) + Len(y) - 2 * Cardinality(a) + Quantify(a, LAMBDA p : x[p[1]] # y[p[2]]) :
                   a \in Alignments(x, y)}
<1>3. Distance(x, y) = Min(S)
  BY DEF Distance
<1>4. S = Costs(x, y, Len(x), Len(y))
  BY <1>2 DEF Costs, Cost, Unequal, Quantify
<1> QED BY Zenon, <1>3, <1>4 DEF Min, Best

\* It is zero for equal texts only.
LEMMA NoDistance ==
  ASSUME NEW X, NEW x \in Seq(X), NEW y \in Seq(X)
  PROVE  Best(x, y, Len(x), Len(y)) = 0 <=> x = y
<1> DEFINE n == Len(x)
           m == Len(y)
           P(i) == \A j \in 0 .. m : Best(x, y, i, j) = 0 =>
                     i = j /\ \A k \in 1 .. i : x[k] = y[k]
           S == {i \in Nat : i <= n => P(i)}
           T == {i \in Nat : Best(x, x, i, i) = 0}
<1>1. n \in Nat /\ m \in Nat
  OBVIOUS
<1>2. 0 \in S
  BY <1>1, BestAtBorder
<1>3. ASSUME NEW i \in Nat, i \in S PROVE i + 1 \in S
  <2> SUFFICES ASSUME i + 1 <= n, NEW j \in 0 .. m, Best(x, y, i + 1, j) = 0
               PROVE  i + 1 = j /\ \A k \in 1 .. i + 1 : x[k] = y[k]
    OBVIOUS
  <2>1. i <= n /\ i + 1 \in Nat
    BY <1>1
  <2>2. j # 0
    BY <2>1, BestAtBorder
  <2> DEFINE l == j - 1
  <2>3. l \in Nat /\ j = l + 1 /\ l \in 0 .. m /\ l + 1 \in Nat
    BY <1>1, <2>2
  <2> HIDE DEF l
  <2> DEFINE a == Best(x, y, i, l + 1)
             b == Best(x, y, i + 1, l)
             c == Best(x, y, i, l)
             e == Best(x, y, i + 1, l + 1)
             paid == IF x[i + 1] = y[l + 1] THEN 0 ELSE 1
  <2>4. a \in Nat /\ b \in Nat /\ c \in Nat /\ e = 0
    BY <2>1, <2>3, BestExists
  <2>5. e \in {a + 1, b + 1, c + paid}
    <3>1. e = Rate!Cell(a, b, c, x[i + 1] = y[l + 1])
      BY <2>3, BestIsCell
    <3> HIDE DEF a, b, c, e
    <3>2. LET dd == c + IF x[i + 1] = y[l + 1] THEN 0 ELSE 1
              vv == Rate!Cell(a, b, c, x[i + 1] = y[l + 1])
          IN  /\ dd \in Nat /\ vv \in {a + 1, b + 1, dd} /\ vv \in Nat
              /\ vv <= a + 1 /\ vv <= b + 1 /\ vv <= dd
      BY ONLY Zenon, <2>4, CellIsLeast
    <3> QED BY <3>1, <3>2
  <2>6. paid \in {0, 1} /\ (paid = 0 => x[i + 1] = y[l + 1])
    OBVIOUS
  <2> HIDE DEF a, b, c, e, paid
  <2>7. c = 0 /\ paid = 0
    BY ONLY <2>4, <2>5, <2>6
  <2>8. i = l /\ \A k \in 1 .. i : x[k] = y[k]
    BY <1>3, <2>1, <2>3, <2>7 DEF c
  <2>9. \A k \in 1 .. i + 1 : k \in 1 .. i \/ k = i + 1
    OBVIOUS
  <2> QED BY <2>3, <2>6, <2>7, <2>8, <2>9
<1>4. \A i \in Nat : i \in S
  <2> HIDE DEF S
  <2> QED BY <1>2, <1>3, ByCounting
<1>5. Best(x, y, n, m) = 0 => x = y
  <2> SUFFICES ASSUME Best(x, y, n, m) = 0 PROVE x = y
    OBVIOUS
  <2>1. n = m /\ \A k \in 1 .. n : x[k] = y[k]
    BY <1>1, <1>4
  <2> QED BY <2>1
<1>6. 0 \in T
  BY BestAtBorder
<1>7. ASSUME NEW i \in Nat, i \in T PROVE i + 1 \in T
  <2>1. PICK a \in Aligned(i, i) : Cost(x, x, i, i, a) = 0
    BY <1>7, BestExists
  <2>2. /\ a \cup {<< i + 1, i + 1 >>} \in Aligned(i + 1, i + 1)
        /\ Cost(x, x, i + 1, i + 1, a \cup {<< i + 1, i + 1 >>}) = 0
    <3>1. /\ a \cup {<< i + 1, i + 1 >>} \in Aligned(i + 1, i + 1)
          /\ Cost(x, x, i + 1, i + 1, a \cup {<< i + 1, i + 1 >>}) =
               Cost(x, x, i, i, a) + IF x[i + 1] = x[i + 1] THEN 0 ELSE 1
      BY ONLY i \in Nat, a \in Aligned(i, i), SideBySide
    <3> QED BY <2>1, <3>1
  <2>3. i + 1 \in Nat
    OBVIOUS
  <2>4. Best(x, x, i + 1, i + 1) \in Nat /\ Best(x, x, i + 1, i + 1) <= 0
    BY <2>2, <2>3, BestExists
  <2> QED BY <2>3, <2>4
<1>8. \A i \in Nat : i \in T
  <2> HIDE DEF T
  <2> QED BY <1>6, <1>7, ByCounting
<1> QED BY <1>1, <1>5, <1>8

\* The edit distance of any two texts is the fewest edits, the answer that was
\* expected gets every point and gives the text after the edit, and no other is
\* called exact (next_edit_benchmark.py _edit_distance,
\* evaluate_next_edit_prediction).
THEOREM ScoresAreExact == Spec => []ScoringExact
<1> DEFINE Inv == tool = "score" => sample \in Scored /\ Rate!ValidCase(sample)
<1>1. Init => Inv
  BY DEF Init, Picked
<1>2. Inv /\ [Next]_vars => Inv'
  BY DEF Next, vars, Scored, Rate!ValidCase
<1>3. Inv => ScoringExact
  <2> DEFINE c == sample.completion
             e == sample.expected
             result == Rate!evaluate_next_edit_prediction(sample, c)
             after == IF sample.action = "noop" THEN sample.region ELSE e
  <2> SUFFICES ASSUME tool = "score", sample \in Scored, Rate!ValidCase(sample)
               PROVE  /\ result.distance = Distance(c, e)
                      /\ result.exact_match <=> result.distance = 0
                      /\ result.exact_match =>
                           /\ result.action_correct
                           /\ result.text = sample.prefix \o after \o sample.suffix
    BY Zenon DEF ScoringExact
  <2>1. /\ c \in Texts /\ e \in Texts /\ sample.action \in {"noop", "replace"}
        /\ sample.action = "noop" => e = << >>
        /\ sample.action = "replace" => e \notin {<< >>, sample.region}
    BY DEF Scored, Rate!ValidCase
  <2>2. \A t \in Texts : t \in Seq({"a", "b"})
    <3> TAKE t \in Texts
    <3>1. PICK k \in 0 .. MaxText : t \in [1 .. k -> {"a", "b"}]
      BY DEF Texts
    <3>2. k \in Nat
      BY <3>1
    <3> QED BY <3>1, <3>2
  <2>3. c \in Seq({"a", "b"}) /\ e \in Seq({"a", "b"})
    BY <2>1, <2>2
  <2> DEFINE predicted == IF c = << >> THEN "noop" ELSE "replace"
  <2>4. /\ result.distance = Rate!_edit_distance(c, e) /\ result.exact_match = (c = e)
        /\ result.action_correct = (predicted = sample.action)
        /\ result.text = sample.prefix \o (IF predicted = "noop" THEN sample.region ELSE c)
                           \o sample.suffix
    BY Zenon DEF Rate!evaluate_next_edit_prediction
  <2> HIDE DEF c, e, result
  <2>5. result.distance = Best(c, e, Len(c), Len(e))
    BY ONLY <2>3, <2>4, DistanceIsBest
  <2>6. result.distance = Distance(c, e)
    BY ONLY <2>3, <2>5, LeastIsDistance
  <2>7. result.exact_match <=> result.distance = 0
    <3>1. Best(c, e, Len(c), Len(e)) = 0 <=> c = e
      BY ONLY <2>3, NoDistance
    <3>2. result.exact_match <=> c = e
      BY ONLY Zenon, <2>4
    <3> QED BY ONLY <2>5, <3>1, <3>2
  <2>8. ASSUME c = e
        PROVE  predicted = sample.action /\ result.text = sample.prefix \o after \o sample.suffix
    BY Zenon, <2>1, <2>4, <2>8
  <2> QED BY Zenon, <2>4, <2>6, <2>7, <2>8
<1> HIDE DEF Inv
<1> QED BY <1>1, <1>2, <1>3, PTL DEF Spec

(***************************************************************************)
(* The prompt is read back.  The parser is a run over the lines (Reads), so *)
(* that what reads two parts one after the other reads them joined.  Joining *)
(* the lines of a text undoes splitting it, and an escaped line is never the *)
(* line that ends a block: a block gives its text back, whatever it contains. *)
(* A file, the contexts and the completions are read block by block and line *)
(* by line, and the request ends the prompt.                               *)
(***************************************************************************)

\* The recursion inside parse_serialized, on the sets of lines.
ParseRec(ls, D, h) ==
  h = [s \in SUBSET D |-> IF s = {} THEN Stream!Fresh
                          ELSE Stream!parse_line(h[s \ {Max(s)}], ls[Max(s)])]
Parsed(ls) == (CHOOSE h : ParseRec(ls, DOMAIN ls, h))[DOMAIN ls]

\* From the parser's state s the lines lead to t.
Reads(s, ls, t) ==
  \E r : /\ r[0] = s /\ r[Len(ls)] = t
         /\ \A i \in 1 .. Len(ls) : r[i] = Stream!parse_line(r[i - 1], ls[i])

\* What parse_serialized does.
LEMMA ParseUnfolds ==
  ASSUME NEW ls
  PROVE  Stream!parse_serialized(ls) =
           IF Parsed(ls).block = Stream!NoBlock THEN Parsed(ls)
           ELSE [Parsed(ls) EXCEPT !.error = TRUE]
  BY DEF Stream!parse_serialized, Stream!FoldLeft, Stream!MapThenFoldSet, Stream!Max, Max,
         Parsed, ParseRec

\* The recursion can be carried out over any number of lines.
LEMMA ParseExists ==
  ASSUME NEW ls
  PROVE  \A n \in Nat : \E h : ParseRec(ls, 1 .. n, h)
<1> DEFINE S == {n \in Nat : \E h : ParseRec(ls, 1 .. n, h)}
<1>1. 0 \in S
  <2> DEFINE h == [s \in SUBSET (1 .. 0) |-> Stream!Fresh]
  <2>1. \A s \in SUBSET (1 .. 0) : s = {}
    OBVIOUS
  <2>2. h = [s \in SUBSET (1 .. 0) |->
               IF s = {} THEN Stream!Fresh
               ELSE Stream!parse_line(h[s \ {Max(s)}], ls[Max(s)])]
    BY <2>1
  <2> HIDE DEF h
  <2>3. ParseRec(ls, 1 .. 0, h)
    BY <2>2 DEF ParseRec
  <2> QED BY <2>3
<1>2. ASSUME NEW n \in Nat, n \in S PROVE n + 1 \in S
  <2>1. PICK h : ParseRec(ls, 1 .. n, h)
    BY <1>2
  <2> DEFINE g == [s \in SUBSET (1 .. n + 1) |->
                     IF n + 1 \in s THEN Stream!parse_line(h[s \ {n + 1}], ls[n + 1]) ELSE h[s]]
             A(s) == IF s = {} THEN Stream!Fresh
                     ELSE Stream!parse_line(g[s \ {Max(s)}], ls[Max(s)])
  <2>2. ASSUME NEW s \in SUBSET (1 .. n + 1) PROVE g[s] = A(s)
    <3>1. CASE n + 1 \in s
      <4>1. Max(s) = n + 1
        <5> HIDE DEF g
        <5>1. IsFiniteSet(s) /\ s \subseteq Int /\ s # {}
          <6>1. IsFiniteSet(1 .. n + 1)
            BY FS_Interval
          <6>2. IsFiniteSet(s)
            BY ONLY Zenon, s \in SUBSET (1 .. n + 1), <6>1, FS_Subset
          <6> QED BY <3>1, <6>2
        <5>2. Max(s) \in s /\ Max(s) >= n + 1
          BY ONLY Zenon, <3>1, <5>1, MaxIsLargest
        <5>3. Max(s) \in 1 .. n + 1
          BY Zenon, <5>2
        <5> QED BY ONLY <5>2, <5>3, n \in Nat
      <4>2. s \ {n + 1} \in SUBSET (1 .. n + 1) /\ n + 1 \notin s \ {n + 1}
        OBVIOUS
      <4>3. g[s \ {n + 1}] = h[s \ {n + 1}]
        BY <4>2
      <4> HIDE DEF g
      <4>4. g[s] = Stream!parse_line(h[s \ {n + 1}], ls[n + 1])
        BY <3>1 DEF g
      <4> QED BY <3>1, <4>1, <4>3, <4>4
    <3>2. CASE n + 1 \notin s
      <4>1. s \in SUBSET (1 .. n)
        BY <3>2
      <4>2. g[s] = h[s]
        BY <3>2
      <4>3. h[s] = IF s = {} THEN Stream!Fresh
                   ELSE Stream!parse_line(h[s \ {Max(s)}], ls[Max(s)])
        BY Zenon, <2>1, <4>1 DEF ParseRec
      <4>4. s \ {Max(s)} \in SUBSET (1 .. n + 1) /\ n + 1 \notin s \ {Max(s)}
        BY Zenon, <3>2
      <4>5. g[s \ {Max(s)}] = h[s \ {Max(s)}]
        BY <4>4
      <4> HIDE DEF g
      <4> QED BY <4>2, <4>3, <4>5
    <3> QED BY <3>1, <3>2
  <2>3. g = [s \in SUBSET (1 .. n + 1) |-> A(s)]
    <3> HIDE DEF A
    <3> QED BY Zenon, <2>2
  <2> HIDE DEF g
  <2>4. ParseRec(ls, 1 .. n + 1, g)
    BY Zenon, <2>3 DEF ParseRec
  <2> QED BY <2>4
<1> HIDE DEF S
<1>3. \A n \in Nat : n \in S
  BY <1>1, <1>2, ByCounting
<1> QED BY <1>3 DEF S

\* It ends where the lines lead.
LEMMA ReadsAll ==
  ASSUME NEW L, NEW ls \in Seq(L), NEW t, Reads(Stream!Fresh, ls, t)
  PROVE  Parsed(ls) = t
<1> DEFINE n == Len(ls)
           h == CHOOSE k : ParseRec(ls, 1 .. n, k)
<1>1. n \in Nat /\ DOMAIN ls = 1 .. n
  OBVIOUS
<1>2. ParseRec(ls, 1 .. n, h)
  <2>1. \E k : ParseRec(ls, 1 .. n, k)
    BY <1>1, ParseExists
  <2> QED BY <2>1
<1>3. Parsed(ls) = h[1 .. n]
  BY <1>1 DEF Parsed
<1>4. PICK r : /\ r[0] = Stream!Fresh /\ r[n] = t
               /\ \A i \in 1 .. n : r[i] = Stream!parse_line(r[i - 1], ls[i])
  BY DEF Reads
<1> HIDE DEF h, n
<1> DEFINE S == {i \in Nat : i <= n => h[1 .. i] = r[i]}
<1>5. 0 \in S
  <2>1. 1 .. 0 = {} /\ {} \in SUBSET (1 .. n)
    OBVIOUS
  <2>2. h[{}] = Stream!Fresh
    BY <1>2 DEF ParseRec
  <2> QED BY <1>4, <2>1, <2>2
<1>6. ASSUME NEW i \in Nat, i \in S PROVE i + 1 \in S
  <2> SUFFICES ASSUME i + 1 <= n PROVE h[1 .. i + 1] = r[i + 1]
    OBVIOUS
  <2>1. /\ Max(1 .. i + 1) = i + 1 /\ (1 .. i + 1) \ {i + 1} = 1 .. i
        /\ 1 .. i + 1 \in SUBSET (1 .. n) /\ 1 .. i + 1 # {} /\ i + 1 \in 1 .. n
    BY ONLY Zenon, <1>1, i \in Nat, i + 1 <= n, FirstIndices
  <2>2. h[1 .. i + 1] = Stream!parse_line(h[1 .. i], ls[i + 1])
    BY Zenon, <1>2, <2>1 DEF ParseRec
  <2>3. h[1 .. i] = r[i] /\ (i + 1) - 1 = i
    BY <1>1, <1>6
  <2> QED BY <1>4, <2>1, <2>2, <2>3
<1>7. \A i \in Nat : i \in S
  <2> HIDE DEF S
  <2> QED BY <1>5, <1>6, ByCounting
<1> QED BY <1>1, <1>3, <1>4, <1>7

\* Lines after other lines.
LEMMA ReadsOn ==
  ASSUME NEW L, NEW x \in Seq(L), NEW y \in Seq(L), NEW s, NEW t, NEW u,
         Reads(s, x, t), Reads(t, y, u)
  PROVE  Reads(s, x \o y, u)
<1>1. PICK a : /\ a[0] = s /\ a[Len(x)] = t
               /\ \A i \in 1 .. Len(x) : a[i] = Stream!parse_line(a[i - 1], x[i])
  BY DEF Reads
<1>2. PICK b : /\ b[0] = t /\ b[Len(y)] = u
               /\ \A i \in 1 .. Len(y) : b[i] = Stream!parse_line(b[i - 1], y[i])
  BY DEF Reads
<1> DEFINE n == Len(x)
           m == Len(y)
           r == [i \in 0 .. n + m |-> IF i <= n THEN a[i] ELSE b[i - n]]
<1>3. n \in Nat /\ m \in Nat /\ Len(x \o y) = n + m
  OBVIOUS
<1>4. /\ \A i \in 1 .. n : (x \o y)[i] = x[i]
      /\ \A i \in n + 1 .. n + m : (x \o y)[i] = y[i - n]
  OBVIOUS
<1>5. \A i \in 0 .. n : r[i] = a[i]
  BY <1>3
<1>6. \A i \in n .. n + m : r[i] = b[i - n]
  BY <1>1, <1>2, <1>3
<1> HIDE DEF n, m, r
<1>7. r[0] = s /\ r[n + m] = u
  BY <1>1, <1>2, <1>3, <1>5, <1>6 DEF n, m
<1>8. \A i \in 1 .. n + m : r[i] = Stream!parse_line(r[i - 1], (x \o y)[i])
  <2> TAKE i \in 1 .. n + m
  <2>1. CASE i <= n
    <3>1. i \in 1 .. n /\ i \in 0 .. n /\ i - 1 \in 0 .. n
      BY <1>3, <2>1
    <3> QED BY <1>1, <1>4, <1>5, <3>1 DEF n
  <2>2. CASE ~ (i <= n)
    <3>1. /\ i \in n + 1 .. n + m /\ i \in n .. n + m /\ i - 1 \in n .. n + m
          /\ i - n \in 1 .. m /\ (i - n) - 1 = (i - 1) - n
      BY <1>3, <2>2
    <3>2. b[i - n] = Stream!parse_line(b[(i - n) - 1], y[i - n])
      BY <1>2, <3>1 DEF m
    <3> QED BY Zenon, <1>4, <1>6, <3>1, <3>2
  <2> QED BY Zenon, <2>1, <2>2
<1> QED BY Zenon, <1>3, <1>7, <1>8 DEF Reads

\* No line, and one.
LEMMA ReadsNone == ASSUME NEW s PROVE Reads(s, << >>, s)
<1> DEFINE r == [i \in {0} |-> s]
<1>1. r[0] = s /\ r[Len(<< >>)] = s /\ \A i \in 1 .. Len(<< >>) : FALSE
  OBVIOUS
<1> HIDE DEF r
<1> QED BY <1>1 DEF Reads

\* One line.
LEMMA ReadsOne == ASSUME NEW s, NEW l, NEW t, t = Stream!parse_line(s, l) PROVE Reads(s, << l >>, t)
<1> DEFINE r == [i \in 0 .. 1 |-> IF i = 0 THEN s ELSE t]
           ls == << l >>
<1>1. Len(ls) = 1 /\ ls[1] = l
  OBVIOUS
<1>2. r[0] = s /\ r[1] = t
  OBVIOUS
<1> HIDE DEF r, ls
<1>3. \A i \in 1 .. Len(ls) : r[i] = Stream!parse_line(r[i - 1], ls[i])
  BY <1>1, <1>2
<1>4. Reads(s, ls, t)
  BY <1>1, <1>2, <1>3 DEF Reads
<1> QED BY <1>4 DEF ls

\* The recursion inside join, and what it has after each line.
JoinRec(ls, h) ==
  h = [s \in SUBSET DOMAIN Tail(ls) |->
         IF s = {} THEN Head(ls)
         ELSE h[s \ {Max(s)}] \o << "newline" >> \o Tail(ls)[Max(s)]]
JoinRun(ls, q) ==
  /\ q \in [1 .. Len(ls) -> Seq(Stream!Glyphs)] /\ q[1] = ls[1]
  /\ \A i \in 1 .. Len(ls) - 1 : q[i + 1] = q[i] \o << "newline" >> \o ls[i + 1]
  /\ q[Len(ls)] = Stream!join(ls)

\* join is its recursion.
LEMMA JoinUnfolds ==
  ASSUME NEW ls PROVE Stream!join(ls) = (CHOOSE h : JoinRec(ls, h))[DOMAIN Tail(ls)]
  BY DEF Stream!join, Stream!FoldLeft, Stream!MapThenFoldSet, Stream!Max, Max, JoinRec

\* Three texts put together.
LEMMA ThreeTexts ==
  ASSUME NEW X, NEW x \in Seq(X), NEW y \in Seq(X), NEW z \in Seq(X)
  PROVE  x \o y \o z \in Seq(X)
  OBVIOUS

\* A line is put after the others.
LEMMA JoinRuns ==
  ASSUME NEW ls \in Seq(Seq(Stream!Glyphs)), ls # << >>
  PROVE  \E q : JoinRun(ls, q)
<1> DEFINE n == Len(ls) - 1
           V == Seq(Stream!Glyphs)
           nl == << "newline" >>
           G == [p \in (1 .. n) \X V |-> p[2] \o nl \o ls[p[1] + 1]]
<1>1. /\ n \in Nat /\ Len(ls) = n + 1 /\ DOMAIN Tail(ls) = 1 .. n /\ Head(ls) = ls[1]
      /\ \A i \in 1 .. n : Tail(ls)[i] = ls[i + 1] /\ ls[i + 1] \in V
      /\ ls[1] \in V
  OBVIOUS
<1>2. nl \in V
  BY DEF Stream!Glyphs
<1> HIDE DEF n, V, nl
<1>3. \A i \in 1 .. n, t \in V : t \o nl \o ls[i + 1] \in V
  <2> TAKE i \in 1 .. n, t \in V
  <2>1. ls[i + 1] \in V
    BY <1>1
  <2> QED BY <1>2, <2>1, ThreeTexts DEF V
<1>4. G \in [(1 .. n) \X V -> V]
  BY <1>3
<1>5. \A i \in 1 .. n, t \in V : G[<< i, t >>] = t \o nl \o ls[i + 1]
  BY Zenon
<1> HIDE DEF G
<1>6. PICK h, r : FoldRun(n, V, ls[1], G, h, r)
  BY ONLY Zenon, <1>1, <1>4, FoldSteps
<1>7. /\ h \in [SUBSET (1 .. n) -> V] /\ r \in [0 .. n -> V]
      /\ Fold(ls[1], G, 1 .. n, h) /\ r[0] = ls[1]
      /\ \A j \in 1 .. n : r[j] = G[<< j, r[j - 1] >>]
  BY ONLY <1>6 DEF FoldRun
<1>8. \A s \in SUBSET (1 .. n) : s # {} => Max(s) \in 1 .. n /\ s \ {Max(s)} \in SUBSET (1 .. n)
  BY Zenon, <1>1, IndexIn
<1>9. JoinRec(ls, h)
  <2>1. h = [s \in SUBSET (1 .. n) |->
               IF s = {} THEN ls[1] ELSE G[<< Max(s), h[s \ {Max(s)}] >>]]
    BY Zenon, <1>7 DEF Fold
  <2>2. ASSUME NEW s \in SUBSET (1 .. n), s # {}
        PROVE  G[<< Max(s), h[s \ {Max(s)}] >>] = h[s \ {Max(s)}] \o nl \o Tail(ls)[Max(s)]
    <3>1. Max(s) \in 1 .. n /\ h[s \ {Max(s)}] \in V
      BY Zenon, <1>7, <1>8, <2>2
    <3> QED BY Zenon, <1>1, <1>5, <3>1
  <2>3. h = [s \in SUBSET (1 .. n) |->
               IF s = {} THEN ls[1] ELSE h[s \ {Max(s)}] \o nl \o Tail(ls)[Max(s)]]
    BY Zenon, <2>1, <2>2
  <2> QED BY Zenon, <1>1, <2>3 DEF JoinRec, nl
<1> DEFINE k == CHOOSE g : JoinRec(ls, g)
<1>10. JoinRec(ls, k)
  BY <1>9
<1> HIDE DEF k
<1>11. Stepwise(n, V, ls[1], G, k)
  <2>1. k = [s \in SUBSET (1 .. n) |->
               IF s = {} THEN ls[1] ELSE k[s \ {Max(s)}] \o nl \o Tail(ls)[Max(s)]]
    BY Zenon, <1>1, <1>10 DEF JoinRec, nl
  <2>2. k[{}] = ls[1]
    BY <2>1
  <2>3. ASSUME NEW i \in 1 .. n, k[1 .. i - 1] \in V
        PROVE  k[1 .. i] = G[<< i, k[1 .. i - 1] >>]
    <3>1. Max(1 .. i) = i
      BY LastIndex
    <3>2. (1 .. i) \ {i} = 1 .. i - 1 /\ i \in 1 .. i /\ 1 .. i \in SUBSET (1 .. n)
      BY ONLY <1>1, i \in 1 .. n
    <3>3. k[1 .. i] = k[1 .. i - 1] \o nl \o Tail(ls)[i]
      BY Zenon, <2>1, <3>1, <3>2
    <3> QED BY Zenon, <1>1, <1>5, <2>3, <3>3
  <2> QED BY <2>2, <2>3 DEF Stepwise
<1>12. \A i \in 0 .. n : k[1 .. i] = r[i] /\ k[1 .. i] \in V
  BY ONLY <1>1, <1>6, <1>11, RunIs
<1>13. k[1 .. n] = Stream!join(ls)
  BY Zenon, <1>1, JoinUnfolds DEF k
<1> DEFINE q == [i \in 1 .. n + 1 |-> r[i - 1]]
<1>14. q \in [1 .. n + 1 -> V]
  BY <1>1, <1>7
<1>15. q[1] = ls[1] /\ q[n + 1] = Stream!join(ls)
  BY <1>1, <1>7, <1>12, <1>13
<1>16. ASSUME NEW i \in 1 .. n PROVE q[i + 1] = q[i] \o nl \o ls[i + 1]
  <2>1. q[i + 1] = r[i] /\ q[i] = r[i - 1] /\ r[i - 1] \in V
    BY SMTT(30), <1>1, <1>7
  <2> HIDE DEF q
  <2> QED BY Zenon, <1>5, <1>7, <2>1
<1> HIDE DEF q
<1>17. JoinRun(ls, q)
  BY Zenon, <1>1, <1>14, <1>15, <1>16 DEF JoinRun, n, V, nl
<1> QED BY <1>17

\* One line is the text, and a further line comes after a newline.
LEMMA JoinOne ==
  ASSUME NEW l \in Seq(Stream!Glyphs) PROVE Stream!join(<< l >>) = l
<1> DEFINE ls == << l >>
<1>1. ls \in Seq(Seq(Stream!Glyphs)) /\ ls # << >> /\ Len(ls) = 1 /\ ls[1] = l
  OBVIOUS
<1> HIDE DEF ls
<1>2. PICK q : JoinRun(ls, q)
  BY <1>1, JoinRuns
<1> QED BY <1>1, <1>2 DEF JoinRun, ls

\* A line more.
LEMMA JoinMore ==
  ASSUME NEW ls \in Seq(Seq(Stream!Glyphs)), ls # << >>, NEW l \in Seq(Stream!Glyphs)
  PROVE  /\ Stream!join(Append(ls, l)) = Stream!join(ls) \o << "newline" >> \o l
         /\ Stream!join(ls) \in Seq(Stream!Glyphs)
<1> DEFINE n == Len(ls)
           m == Append(ls, l)
<1>1. /\ n \in Nat \ {0} /\ Len(ls) = n /\ Len(m) = n + 1
      /\ m \in Seq(Seq(Stream!Glyphs)) /\ m # << >>
  <2>1. n \in Nat \ {0} /\ Len(m) = n + 1 /\ m \in Seq(Seq(Stream!Glyphs))
    OBVIOUS
  <2>2. Len(<< >>) = 0
    OBVIOUS
  <2> HIDE DEF m
  <2> QED BY <2>1, <2>2
<1>2. m[n + 1] = l /\ \A i \in 1 .. n : m[i] = ls[i]
  OBVIOUS
<1>3. PICK q : JoinRun(ls, q)
  BY JoinRuns
<1>4. PICK p : JoinRun(m, p)
  BY Zenon, <1>1, JoinRuns
<1> HIDE DEF m, n
<1>5. /\ q[1] = ls[1] /\ q[n] = Stream!join(ls) /\ q[n] \in Seq(Stream!Glyphs)
      /\ \A i \in 1 .. n - 1 : q[i + 1] = q[i] \o << "newline" >> \o ls[i + 1]
  <2>1. n \in 1 .. n /\ Len(ls) = n
    BY <1>1
  <2>2. /\ q \in [1 .. n -> Seq(Stream!Glyphs)] /\ q[1] = ls[1] /\ q[n] = Stream!join(ls)
        /\ \A i \in 1 .. n - 1 : q[i + 1] = q[i] \o << "newline" >> \o ls[i + 1]
    BY ONLY Zenon, <1>3, <2>1 DEF JoinRun
  <2> QED BY Zenon, <2>1, <2>2
<1>6. /\ p[1] = m[1] /\ p[n + 1] = Stream!join(m)
      /\ \A i \in 1 .. n : p[i + 1] = p[i] \o << "newline" >> \o m[i + 1]
  <2>1. Len(m) - 1 = n
    BY <1>1
  <2> QED BY Zenon, <1>1, <1>4, <2>1 DEF JoinRun
<1> DEFINE S == {i \in Nat : i + 1 <= n => p[i + 1] = q[i + 1]}
<1>7. 0 \in S
  BY <1>1, <1>2, <1>5, <1>6
<1>8. ASSUME NEW i \in Nat, i \in S PROVE i + 1 \in S
  <2> SUFFICES ASSUME (i + 1) + 1 <= n PROVE p[(i + 1) + 1] = q[(i + 1) + 1]
    OBVIOUS
  <2>1. i + 1 \in 1 .. n - 1 /\ i + 1 \in 1 .. n /\ (i + 1) + 1 \in 1 .. n /\ i + 1 <= n
    BY <1>1
  <2>2. p[i + 1] = q[i + 1] /\ m[(i + 1) + 1] = ls[(i + 1) + 1]
    BY <1>2, <1>8, <2>1
  <2> QED BY Zenon, <1>5, <1>6, <2>1, <2>2
<1>9. \A i \in Nat : i \in S
  <2> HIDE DEF S
  <2> QED BY Zenon, <1>7, <1>8, ByCounting
<1>10. p[n] = q[n]
  <2>1. n - 1 \in Nat /\ (n - 1) + 1 = n
    BY <1>1
  <2> QED BY <1>9, <2>1
<1>11. p[n + 1] = q[n] \o << "newline" >> \o l
  <2>1. n \in 1 .. n
    BY <1>1
  <2>2. p[n + 1] = p[n] \o << "newline" >> \o m[n + 1]
    BY Zenon, <1>6, <2>1
  <2> QED BY <1>2, <1>10, <2>2
<1> QED BY <1>5, <1>6, <1>11 DEF m

\* The lines of a text; there is always one.
LineSeqs == {ls \in Seq(Seq(Stream!Glyphs)) : ls # << >>}
Grown(ls, g) ==
  IF g = "newline" THEN Append(ls, << >>) ELSE [ls EXCEPT ![Len(ls)] = Append(@, g)]
SplitRec(text, h) ==
  h = [s \in SUBSET DOMAIN text |->
         IF s = {} THEN << << >> >> ELSE Grown(h[s \ {Max(s)}], text[Max(s)])]

\* split is its recursion.
LEMMA SplitUnfolds ==
  ASSUME NEW text PROVE Stream!split(text) = (CHOOSE h : SplitRec(text, h))[DOMAIN text]
  BY DEF Stream!split, Stream!FoldLeft, Stream!MapThenFoldSet, Stream!Max, Max, SplitRec, Grown

\* A line is the last one, alone or after others.
LEMMA LastLine ==
  ASSUME NEW ls \in LineSeqs
  PROVE  /\ Len(ls) \in Nat \ {0} /\ ls[Len(ls)] \in Seq(Stream!Glyphs)
         /\ \/ ls = << ls[Len(ls)] >>
            \/ \E f \in LineSeqs : ls = Append(f, ls[Len(ls)])
<1> DEFINE n == Len(ls)
           l == ls[n]
           f == SubSeq(ls, 1, n - 1)
<1>1. ls \in Seq(Seq(Stream!Glyphs)) /\ n \in Nat \ {0} /\ l \in Seq(Stream!Glyphs)
  BY DEF LineSeqs
<1>2. CASE n = 1
  <2>1. ls = << l >>
    BY <1>1, <1>2
  <2> QED BY <1>1, <2>1
<1>3. CASE n # 1
  <2>1. /\ f \in Seq(Seq(Stream!Glyphs)) /\ Len(f) = n - 1 /\ n - 1 # 0
        /\ \A i \in 1 .. n - 1 : f[i] = ls[i]
    <3>1. n - 1 \in 0 .. Len(ls) /\ n - 1 # 0
      BY <1>1, <1>3
    <3> DEFINE k == n - 1
    <3> HIDE DEF k
    <3>2. /\ SubSeq(ls, 1, k) \in Seq(Seq(Stream!Glyphs)) /\ Len(SubSeq(ls, 1, k)) = k
          /\ \A i \in 1 .. k : SubSeq(ls, 1, k)[i] = ls[i]
      <4>1. k \in Nat /\ k <= Len(ls)
        BY ONLY <1>1, <3>1 DEF k, n
      <4>2. /\ SubSeq(ls, 0 + 1, k) \in Seq(Seq(Stream!Glyphs))
            /\ Len(SubSeq(ls, 0 + 1, k)) = k - 0
            /\ \A i \in 1 .. k - 0 : SubSeq(ls, 0 + 1, k)[i] = ls[0 + i]
        BY ONLY <1>1, <4>1, CutRows, 0 \in Nat, 0 <= k
      <4> QED BY <4>1, <4>2
    <3> QED BY <3>1, <3>2 DEF k
  <2>2. ls = Append(f, l)
    <3>1. Append(f, l) \in Seq(Seq(Stream!Glyphs)) /\ Len(Append(f, l)) = n
      BY <1>1, <2>1
    <3>2. \A i \in 1 .. n : Append(f, l)[i] = ls[i]
      BY <1>1, <2>1
    <3> DEFINE z == Append(f, l)
    <3> HIDE DEF z, n
    <3>3. Len(ls) = n
      BY DEF n
    <3> QED BY ONLY <1>1, <3>1, <3>2, <3>3 DEF z
  <2>3. f # << >>
    <3>1. Len(<< >>) = 0
      OBVIOUS
    <3> HIDE DEF f, n
    <3> QED BY Zenon, <2>1, <3>1
  <2> QED BY Zenon, <1>1, <2>1, <2>2, <2>3 DEF LineSeqs
<1> QED BY <1>2, <1>3

\* The last item of a sequence is replaced.
LEMMA LastReplaced ==
  ASSUME NEW X, NEW f \in Seq(X), NEW l \in X, NEW m \in X
  PROVE  [Append(f, l) EXCEPT ![Len(f) + 1] = m] = Append(f, m)
<1> DEFINE n == Len(f)
           c == Append(f, l)
           a == [c EXCEPT ![n + 1] = m]
           b == Append(f, m)
<1>1. n \in Nat /\ c \in Seq(X) /\ Len(c) = n + 1 /\ \A i \in 1 .. n : c[i] = f[i]
  OBVIOUS
<1>2. b \in Seq(X) /\ Len(b) = n + 1 /\ b[n + 1] = m /\ \A i \in 1 .. n : b[i] = f[i]
  OBVIOUS
<1> HIDE DEF b, c, n
<1>3. DOMAIN c = 1 .. n + 1 /\ b \in [1 .. n + 1 -> X]
  BY <1>1, <1>2
<1>4. a[n + 1] = m /\ \A i \in 1 .. n : a[i] = c[i]
  BY <1>1, <1>3
<1>5. DOMAIN a = 1 .. n + 1 /\ a = [i \in 1 .. n + 1 |-> a[i]]
  BY Zenon, <1>3
<1> HIDE DEF a
<1>6. \A i \in 1 .. n + 1 : i \in 1 .. n \/ i = n + 1
  BY <1>1
<1>7. \A i \in 1 .. n + 1 : a[i] = b[i]
  BY <1>1, <1>2, <1>4, <1>6
<1>8. a = b
  BY <1>3, <1>5, <1>7
<1> QED BY <1>8 DEF a, b, c, n

\* A glyph more: the lines put together again have it at their end.
LEMMA JoinGrown ==
  ASSUME NEW ls \in LineSeqs, NEW g \in Stream!Glyphs
  PROVE  /\ Grown(ls, g) \in LineSeqs
         /\ Stream!join(Grown(ls, g)) = Append(Stream!join(ls), g)
<1> DEFINE n == Len(ls)
           l == ls[n]
<1>1. /\ n \in Nat \ {0} /\ l \in Seq(Stream!Glyphs)
      /\ ls = << l >> \/ \E f \in LineSeqs : ls = Append(f, l)
  BY LastLine
<1>2. ls \in Seq(Seq(Stream!Glyphs)) /\ ls # << >>
  BY DEF LineSeqs
<1>3. CASE g = "newline"
  <2>1. Grown(ls, g) = Append(ls, << >>)
    BY <1>3 DEF Grown
  <2>2. << >> \in Seq(Stream!Glyphs)
    OBVIOUS
  <2>3. Append(ls, << >>) \in Seq(Seq(Stream!Glyphs)) /\ Len(Append(ls, << >>)) = n + 1
    BY <1>2, <2>2
  <2>4. Append(ls, << >>) # << >>
    <3> DEFINE z == Append(ls, << >>)
    <3>1. Len(<< >>) = 0
      OBVIOUS
    <3> HIDE DEF z, n
    <3> QED BY <1>1, <2>3, <3>1 DEF z
  <2>5. /\ Stream!join(Append(ls, << >>)) = Stream!join(ls) \o << "newline" >> \o << >>
        /\ Stream!join(ls) \in Seq(Stream!Glyphs)
    BY ONLY Zenon, <1>2, <2>2, JoinMore
  <2>6. Stream!join(ls) \o << "newline" >> \o << >> = Append(Stream!join(ls), "newline")
    <3> DEFINE z == Stream!join(ls)
    <3> HIDE DEF z
    <3>1. z \in Seq(Stream!Glyphs)
      BY <2>5 DEF z
    <3>2. z \o << "newline" >> \o << >> = Append(z, "newline")
      BY ONLY <3>1
    <3> QED BY <3>2 DEF z
  <2> QED BY Zenon, <1>3, <2>1, <2>3, <2>4, <2>5, <2>6 DEF LineSeqs
<1>4. CASE g # "newline"
  <2> DEFINE m == Append(l, g)
  <2>1. m \in Seq(Stream!Glyphs) /\ Grown(ls, g) = [ls EXCEPT ![n] = m]
    BY <1>1, <1>4 DEF Grown
  <2>2. CASE ls = << l >>
    <3>1. Grown(ls, g) = << m >>
      <4> HIDE DEF m, l
      <4>1. n = 1
        BY <2>2
      <4>2. [<< l >> EXCEPT ![1] = m] = << m >>
        OBVIOUS
      <4> HIDE DEF n
      <4> QED BY <2>1, <2>2, <4>1, <4>2
    <3>2. Stream!join(<< m >>) = m /\ Stream!join(<< l >>) = l
      BY Zenon, <1>1, <2>1, JoinOne
    <3>3. << m >> \in LineSeqs
      <4> HIDE DEF m
      <4> QED BY <2>1 DEF LineSeqs
    <3> HIDE DEF l
    <3> QED BY Zenon, <2>2, <3>1, <3>2, <3>3
  <2>3. ASSUME NEW f \in LineSeqs, ls = Append(f, l)
        PROVE  /\ Grown(ls, g) \in LineSeqs
               /\ Stream!join(Grown(ls, g)) = Append(Stream!join(ls), g)
    <3>1. f \in Seq(Seq(Stream!Glyphs)) /\ f # << >>
      BY DEF LineSeqs
    <3>2. Grown(ls, g) = Append(f, m)
      <4> HIDE DEF m, l
      <4>1. n = Len(f) + 1 /\ Len(f) \in Nat
        BY <1>1, <2>3, <3>1
      <4>2. [Append(f, l) EXCEPT ![Len(f) + 1] = m] = Append(f, m)
        BY ONLY <1>1, <2>1, <3>1, LastReplaced
      <4> HIDE DEF n
      <4> QED BY <2>1, <2>3, <4>1, <4>2
    <3>3. /\ Stream!join(Append(f, m)) = Stream!join(f) \o << "newline" >> \o m
          /\ Stream!join(Append(f, l)) = Stream!join(f) \o << "newline" >> \o l
          /\ Stream!join(f) \in Seq(Stream!Glyphs)
      <4> HIDE DEF m, l
      <4> QED BY ONLY Zenon, <1>1, <2>1, <3>1, JoinMore
    <3>4. Append(f, m) \in LineSeqs
      <4> HIDE DEF m
      <4>1. Append(f, m) \in Seq(Seq(Stream!Glyphs)) /\ Len(f) \in Nat
            /\ Len(Append(f, m)) = Len(f) + 1
        BY <2>1, <3>1
      <4>2. Append(f, m) # << >>
        <5> DEFINE z == Append(f, m)
        <5>1. Len(<< >>) = 0
          OBVIOUS
        <5> HIDE DEF z
        <5>2. Len(z) # 0
          BY <4>1 DEF z
        <5> QED BY Zenon, <5>1, <5>2 DEF z
      <4> QED BY <4>1, <4>2 DEF LineSeqs
    <3>5. \A x \in Seq(Stream!Glyphs) :
            x \o << "newline" >> \o Append(l, g) = Append(x \o << "newline" >> \o l, g)
      <4> TAKE x \in Seq(Stream!Glyphs)
      <4>1. x \o << "newline" >> \in Seq(Stream!Glyphs)
        BY DEF Stream!Glyphs
      <4> DEFINE z == x \o << "newline" >>
      <4> HIDE DEF z, l, n
      <4> QED BY <1>1, <4>1 DEF z
    <3> DEFINE j == Stream!join(f)
    <3>6. j \o << "newline" >> \o m = Append(j \o << "newline" >> \o l, g)
      <4> HIDE DEF j, l
      <4> QED BY <3>3, <3>5 DEF j
    <3>7. Stream!join(ls) = j \o << "newline" >> \o l
      BY Zenon, <2>3, <3>3
    <3> HIDE DEF j, l, m
    <3> QED BY Zenon, <3>2, <3>3, <3>4, <3>6, <3>7 DEF j
  <2> QED BY <1>1, <2>2, <2>3
<1> QED BY <1>3, <1>4

\* A text is its lines put together.
LEMMA SplitJoined ==
  ASSUME NEW text \in Seq(Stream!Glyphs)
  PROVE  Stream!split(text) \in LineSeqs /\ Stream!join(Stream!split(text)) = text
<1> DEFINE n == Len(text)
           V == LineSeqs
           base == << << >> >>
           G == [p \in (1 .. n) \X V |-> Grown(p[2], text[p[1]])]
<1>1. n \in Nat /\ DOMAIN text = 1 .. n /\ \A i \in 1 .. n : text[i] \in Stream!Glyphs
  OBVIOUS
<1>2. base \in V
  <2>1. << >> \in Seq(Stream!Glyphs)
    OBVIOUS
  <2> QED BY <2>1 DEF LineSeqs
<1> HIDE DEF n, V
<1>3. \A i \in 1 .. n, t \in V : /\ Grown(t, text[i]) \in V
                                 /\ Stream!join(Grown(t, text[i])) = Append(Stream!join(t), text[i])
  BY <1>1, JoinGrown DEF V
<1>4. G \in [(1 .. n) \X V -> V]
  BY <1>3
<1>5. \A i \in 1 .. n, t \in V : G[<< i, t >>] = Grown(t, text[i])
  OBVIOUS
<1> HIDE DEF G, base
<1>6. PICK h, r : FoldRun(n, V, base, G, h, r)
  BY ONLY Zenon, <1>1, <1>2, <1>4, FoldSteps
<1>7. /\ h \in [SUBSET (1 .. n) -> V] /\ r \in [0 .. n -> V]
      /\ Fold(base, G, 1 .. n, h) /\ r[0] = base
      /\ \A j \in 1 .. n : r[j] = G[<< j, r[j - 1] >>]
  BY ONLY <1>6 DEF FoldRun
<1>8. \A s \in SUBSET (1 .. n) : s # {} => Max(s) \in 1 .. n /\ s \ {Max(s)} \in SUBSET (1 .. n)
  BY Zenon, <1>1, IndexIn
<1>9. SplitRec(text, h)
  <2>1. h = [s \in SUBSET (1 .. n) |->
               IF s = {} THEN base ELSE G[<< Max(s), h[s \ {Max(s)}] >>]]
    BY Zenon, <1>7 DEF Fold
  <2>2. ASSUME NEW s \in SUBSET (1 .. n), s # {}
        PROVE  G[<< Max(s), h[s \ {Max(s)}] >>] = Grown(h[s \ {Max(s)}], text[Max(s)])
    <3>1. Max(s) \in 1 .. n /\ h[s \ {Max(s)}] \in V
      BY <1>7, <1>8, <2>2
    <3> QED BY <1>5, <3>1
  <2>3. h = [s \in SUBSET (1 .. n) |->
               IF s = {} THEN base ELSE Grown(h[s \ {Max(s)}], text[Max(s)])]
    BY Zenon, <2>1, <2>2
  <2> QED BY Zenon, <1>1, <2>3 DEF SplitRec, base
<1> DEFINE k == CHOOSE g : SplitRec(text, g)
<1>10. SplitRec(text, k)
  BY <1>9
<1> HIDE DEF k
<1>11. Stepwise(n, V, base, G, k)
  <2>1. k = [s \in SUBSET (1 .. n) |->
               IF s = {} THEN base ELSE Grown(k[s \ {Max(s)}], text[Max(s)])]
    BY Zenon, <1>1, <1>10 DEF SplitRec, base
  <2>2. k[{}] = base
    BY <2>1
  <2>3. ASSUME NEW i \in 1 .. n, k[1 .. i - 1] \in V
        PROVE  k[1 .. i] = G[<< i, k[1 .. i - 1] >>]
    <3>1. Max(1 .. i) = i
      BY LastIndex
    <3>2. (1 .. i) \ {i} = 1 .. i - 1 /\ i \in 1 .. i /\ 1 .. i \in SUBSET (1 .. n)
      BY ONLY <1>1, i \in 1 .. n
    <3>3. k[1 .. i] = Grown(k[1 .. i - 1], text[i])
      BY Zenon, <2>1, <3>1, <3>2
    <3> QED BY <1>5, <2>3, <3>3
  <2> QED BY <2>2, <2>3 DEF Stepwise
<1>12. \A i \in 0 .. n : k[1 .. i] = r[i]
  BY ONLY <1>1, <1>6, <1>11, RunIs
<1>13. r[n] = Stream!split(text)
  BY <1>1, <1>12, SplitUnfolds DEF k
<1> DEFINE J(i) == Stream!join(r[i])
           S == {i \in Nat : i <= n => /\ J(i) \in Seq(Stream!Glyphs) /\ Len(J(i)) = i
                                       /\ \A j \in 1 .. i : J(i)[j] = text[j]}
<1>14. 0 \in S
  <2>1. << >> \in Seq(Stream!Glyphs)
    OBVIOUS
  <2>2. J(0) = << >>
    BY Zenon, <1>7, <2>1, JoinOne DEF base
  <2>3. Len(<< >>) = 0 /\ \A j \in 1 .. 0 : FALSE
    OBVIOUS
  <2> HIDE DEF J
  <2> QED BY Zenon, <2>1, <2>2, <2>3
<1>15. ASSUME NEW i \in Nat, i \in S PROVE i + 1 \in S
  <2> SUFFICES ASSUME i + 1 <= n
               PROVE  /\ J(i + 1) \in Seq(Stream!Glyphs) /\ Len(J(i + 1)) = i + 1
                      /\ \A j \in 1 .. i + 1 : J(i + 1)[j] = text[j]
    OBVIOUS
  <2>1. i + 1 \in 1 .. n /\ i \in 0 .. n /\ (i + 1) - 1 = i /\ i <= n
    BY <1>1
  <2>2. r[i + 1] = Grown(r[i], text[i + 1])
    BY Zenon, <1>5, <1>7, <2>1
  <2>3. J(i + 1) = Append(J(i), text[i + 1])
    BY Zenon, <1>3, <1>7, <2>1, <2>2
  <2> HIDE DEF J
  <2>4. /\ J(i) \in Seq(Stream!Glyphs) /\ Len(J(i)) = i
        /\ \A j \in 1 .. i : J(i)[j] = text[j]
    BY <1>15, <2>1
  <2>5. text[i + 1] \in Stream!Glyphs
    BY <1>1, <2>1
  <2>6. \A j \in 1 .. i + 1 : j \in 1 .. i \/ j = i + 1
    OBVIOUS
  <2>7. \A x \in Seq(Stream!Glyphs), g \in Stream!Glyphs : Len(x) = i =>
          /\ Append(x, g) \in Seq(Stream!Glyphs) /\ Len(Append(x, g)) = i + 1
          /\ Append(x, g)[i + 1] = g /\ \A j \in 1 .. i : Append(x, g)[j] = x[j]
    OBVIOUS
  <2> DEFINE x == J(i)
             y == J(i + 1)
             g == text[i + 1]
  <2> HIDE DEF x, y, g
  <2>8. /\ y \in Seq(Stream!Glyphs) /\ Len(y) = i + 1
        /\ y[i + 1] = g /\ \A j \in 1 .. i : y[j] = x[j]
    <3>1. y = Append(x, g) /\ x \in Seq(Stream!Glyphs) /\ Len(x) = i /\ g \in Stream!Glyphs
      BY <2>3, <2>4, <2>5 DEF x, y, g
    <3> QED BY ONLY <2>7, <3>1
  <2>9. \A j \in 1 .. i + 1 : y[j] = text[j]
    BY <2>4, <2>6, <2>8 DEF x, g
  <2> QED BY <2>8, <2>9 DEF y
<1>16. \A i \in Nat : i \in S
  <2> HIDE DEF S
  <2> QED BY <1>14, <1>15, ByCounting
<1>17. J(n) = text
  <2> HIDE DEF J
  <2>1. /\ J(n) \in Seq(Stream!Glyphs) /\ Len(J(n)) = n
        /\ \A j \in 1 .. n : J(n)[j] = text[j]
    BY SMTT(30), <1>1, <1>16
  <2> QED BY <2>1 DEF n
<1>18. r[n] \in LineSeqs
  BY <1>1, <1>7 DEF V
<1> QED BY <1>13, <1>17, <1>18

\* An escaped line is no end of a block, and it is the line when read.
Marks == {"</S>", "</D>", "</X>"}

\* An escaped line is never the line that ends a block, and unescaping it gives it back.
LEMMA Escaped ==
  ASSUME NEW l \in Seq(Stream!Glyphs)
  PROVE  /\ Stream!_escape(l) \in Seq(Stream!Glyphs)
         /\ Stream!_unescape(Stream!_escape(l)) = l
         /\ \A m \in Marks : Stream!_escape(l) # << m >>
<1> DEFINE e == << "backslash" >> \o l
<1>1. CASE Stream!Marked(l) \/ (l # << >> /\ Head(l) = "backslash")
  <2>1. Stream!_escape(l) = e
    BY <1>1 DEF Stream!_escape
  <2>2. e \in Seq(Stream!Glyphs) /\ Len(e) = Len(l) + 1 /\ e[1] = "backslash"
    BY DEF Stream!Glyphs
  <2>3. e # << >> /\ Head(e) = "backslash" /\ Tail(e) = l
    BY DEF Stream!Glyphs
  <2>4. Stream!_unescape(e) = l
    BY <2>3 DEF Stream!_unescape
  <2>5. \A m \in Marks : e # << m >>
    <3> TAKE m \in Marks
    <3>1. << m >>[1] = m /\ m # "backslash"
      BY DEF Marks
    <3> HIDE DEF e
    <3> QED BY <2>2, <3>1
  <2> QED BY <2>1, <2>2, <2>4, <2>5
<1>2. CASE ~ (Stream!Marked(l) \/ (l # << >> /\ Head(l) = "backslash"))
  <2>1. Stream!_escape(l) = l /\ Stream!_unescape(l) = l
    BY <1>2 DEF Stream!_escape, Stream!_unescape
  <2>2. \A m \in Marks : l # << m >>
    <3> TAKE m \in Marks
    <3>1. << m >> # << >> /\ Head(<< m >>) = m
      OBVIOUS
    <3> QED BY <1>2, <3>1 DEF Stream!Marked, Marks
  <2> QED BY <2>1, <2>2
<1> QED BY <1>1, <1>2

\* The lines of a block are those of the text, escaped.
LEMMA EscapedText ==
  ASSUME NEW text \in Seq(Stream!Glyphs)
  PROVE  LET n == Len(Stream!split(text))
             buf == [i \in 1 .. n |-> Stream!_escape(Stream!split(text)[i])]
         IN  /\ n \in Nat /\ DOMAIN Stream!split(text) = 1 .. n
             /\ buf \in [1 .. n -> Seq(Stream!Glyphs)]
             /\ \A i \in 1 .. n : \A m \in Marks : buf[i] # << m >>
             /\ Stream!join([i \in DOMAIN buf |-> Stream!_unescape(buf[i])]) = text
<1> DEFINE ls == Stream!split(text)
           n == Len(ls)
           buf == [i \in 1 .. n |-> Stream!_escape(ls[i])]
<1>1. ls \in Seq(Seq(Stream!Glyphs)) /\ Stream!join(ls) = text
  BY SplitJoined DEF LineSeqs
<1> HIDE DEF ls
<1>2. n \in Nat /\ DOMAIN ls = 1 .. n /\ \A i \in 1 .. n : ls[i] \in Seq(Stream!Glyphs)
  BY <1>1
<1>3. \A i \in 1 .. n : /\ Stream!_escape(ls[i]) \in Seq(Stream!Glyphs)
                        /\ Stream!_unescape(Stream!_escape(ls[i])) = ls[i]
                        /\ \A m \in Marks : Stream!_escape(ls[i]) # << m >>
  BY <1>2, Escaped
<1> HIDE DEF n
<1>4. /\ buf \in [1 .. n -> Seq(Stream!Glyphs)]
      /\ \A i \in 1 .. n : \A m \in Marks : buf[i] # << m >>
  BY <1>3
<1>5. [i \in DOMAIN buf |-> Stream!_unescape(buf[i])] = ls
  <2>1. ls = [i \in 1 .. n |-> ls[i]]
    BY <1>1, <1>2
  <2>2. \A i \in 1 .. n : Stream!_unescape(buf[i]) = ls[i]
    BY <1>3
  <2>3. DOMAIN buf = 1 .. n
    OBVIOUS
  <2> HIDE DEF buf
  <2> QED BY <2>1, <2>2, <2>3
<1> QED BY Zenon, <1>1, <1>2, <1>4, <1>5 DEF ls, n

\* A state of the parser before the line of the request.
Parser(f, o, c, d, x, a, cur, block, buf) ==
  [files |-> f, open_files |-> o, cursors |-> c, diagnostics |-> d, retrieved |-> x,
   completions |-> a, last_predict |-> [path |-> NoPath, offset |-> 0],
   current |-> cur, block |-> block, buf |-> buf, ended |-> FALSE, error |-> FALSE]

\* The parser starts outside of any file.
LEMMA FreshIs ==
  Stream!Fresh = Parser(Stream!Empty, << >>, Stream!Empty, Stream!Empty, << >>, Stream!Empty,
                        NoPath, Stream!NoBlock, << >>)
  BY DEF Stream!Fresh, Parser

\* The line of a file opens it.
LEMMA FileLine ==
  ASSUME NEW f, NEW o, NEW c, NEW d, NEW x, NEW a, NEW p, p \notin Stream!ToSet(o)
  PROVE  Stream!parse_line(Parser(f, o, c, d, x, a, NoPath, Stream!NoBlock, << >>),
                           [tag |-> "F", path |-> p]) =
           Parser(Stream!Put(f, p, << >>), Append(o, p), c, d, x, a, p, Stream!NoBlock, << >>)
<1> DEFINE s == Parser(f, o, c, d, x, a, NoPath, Stream!NoBlock, << >>)
           line == [tag |-> "F", path |-> p]
<1>1. s.ended = FALSE /\ s.block = Stream!NoBlock /\ s.open_files = o /\ s.files = f
  BY DEF Parser
<1>2. line.tag = "F" /\ line.path = p
  OBVIOUS
<1> HIDE DEF s, line
<1>3. Stream!parse_line(s, line) =
        [s EXCEPT !.current = line.path, !.files = Stream!Put(@, line.path, << >>),
                  !.open_files = IF line.path \in Stream!ToSet(@) THEN @ ELSE Append(@, line.path)]
  BY Zenon, <1>1, <1>2, Zenon DEF Stream!parse_line
<1>4. Stream!parse_line(s, line) =
        [s EXCEPT !.current = p, !.files = Stream!Put(f, p, << >>),
                  !.open_files = Append(o, p)]
  BY <1>1, <1>2, <1>3
<1> QED BY ZenonT(40), <1>4 DEF s, line, Parser

\* The other lines with a tag.
LEMMA EndFileLine ==
  ASSUME NEW f, NEW o, NEW c, NEW d, NEW x, NEW a, NEW p
  PROVE  Stream!parse_line(Parser(f, o, c, d, x, a, p, Stream!NoBlock, << >>),
                           [tag |-> "/F"]) =
           Parser(f, o, c, d, x, a, NoPath, Stream!NoBlock, << >>)
<1> DEFINE s == Parser(f, o, c, d, x, a, p, Stream!NoBlock, << >>)
           line == [tag |-> "/F"]
<1>1. s.ended = FALSE /\ s.block = Stream!NoBlock /\ line.tag = "/F"
  BY DEF Parser
<1> HIDE DEF s, line
<1>2. Stream!parse_line(s, line) = [s EXCEPT !.current = NoPath]
  BY Zenon, <1>1, Zenon DEF Stream!parse_line
<1> QED BY ZenonT(40), <1>1, <1>2 DEF s, line, Parser

\* The line of a text starts its block.
LEMMA TextLine ==
  ASSUME NEW f, NEW o, NEW c, NEW d, NEW x, NEW a, NEW p, p # NoPath
  PROVE  Stream!parse_line(Parser(f, o, c, d, x, a, p, Stream!NoBlock, << >>),
                           [tag |-> "S"]) =
           Parser(f, o, c, d, x, a, p, [tag |-> "S"], << >>)
<1> DEFINE s == Parser(f, o, c, d, x, a, p, Stream!NoBlock, << >>)
           line == [tag |-> "S"]
<1>1. s.ended = FALSE /\ s.block = Stream!NoBlock /\ s.current # NoPath /\ line.tag = "S"
  BY DEF Parser
<1> HIDE DEF s, line
<1>2. Stream!parse_line(s, line) = [s EXCEPT !.block = line]
  BY Zenon, <1>1, Zenon DEF Stream!parse_line
<1> QED BY ZenonT(40), <1>1, <1>2 DEF s, line, Parser

\* So does that of an entry of the diagnostics.
LEMMA EntryLine ==
  ASSUME NEW f, NEW o, NEW c, NEW d, NEW x, NEW a, NEW p, p # NoPath, NEW i, NEW j
  PROVE  Stream!parse_line(Parser(f, o, c, d, x, a, p, Stream!NoBlock, << >>),
                           [tag |-> "D", start |-> i, end |-> j]) =
           Parser(f, o, c, d, x, a, p, [tag |-> "D", start |-> i, end |-> j], << >>)
<1> DEFINE s == Parser(f, o, c, d, x, a, p, Stream!NoBlock, << >>)
           line == [tag |-> "D", start |-> i, end |-> j]
<1>1. s.ended = FALSE /\ s.block = Stream!NoBlock /\ s.current # NoPath /\ line.tag = "D"
  BY DEF Parser
<1> HIDE DEF s, line
<1>2. Stream!parse_line(s, line) = [s EXCEPT !.block = line]
  BY Zenon, <1>1, Zenon DEF Stream!parse_line
<1> QED BY ZenonT(40), <1>1, <1>2 DEF s, line, Parser

\* And that of a retrieved context.
LEMMA ContextLine ==
  ASSUME NEW f, NEW o, NEW c, NEW d, NEW x, NEW a, NEW q
  PROVE  Stream!parse_line(Parser(f, o, c, d, x, a, NoPath, Stream!NoBlock, << >>),
                           [tag |-> "X", path |-> q]) =
           Parser(f, o, c, d, x, a, NoPath, [tag |-> "X", path |-> q], << >>)
<1> DEFINE s == Parser(f, o, c, d, x, a, NoPath, Stream!NoBlock, << >>)
           line == [tag |-> "X", path |-> q]
<1>1. s.ended = FALSE /\ s.block = Stream!NoBlock /\ line.tag = "X"
  BY DEF Parser
<1> HIDE DEF s, line
<1>2. Stream!parse_line(s, line) = [s EXCEPT !.block = line]
  BY Zenon, <1>1, Zenon DEF Stream!parse_line
<1> QED BY ZenonT(40), <1>1, <1>2 DEF s, line, Parser

\* The line of a cursor sets it.
LEMMA CursorLine ==
  ASSUME NEW f, NEW o, NEW c, NEW d, NEW x, NEW a, NEW p, p # NoPath, NEW i
  PROVE  Stream!parse_line(Parser(f, o, c, d, x, a, p, Stream!NoBlock, << >>),
                           [tag |-> "C", offset |-> i]) =
           Parser(f, o, Stream!Put(c, p, i), d, x, a, p, Stream!NoBlock, << >>)
<1> DEFINE s == Parser(f, o, c, d, x, a, p, Stream!NoBlock, << >>)
           line == [tag |-> "C", offset |-> i]
<1>1. /\ s.ended = FALSE /\ s.block = Stream!NoBlock /\ s.current = p /\ p # NoPath
      /\ line.tag = "C" /\ line.offset = i /\ s.cursors = c
  BY DEF Parser
<1> HIDE DEF s, line
<1>2. Stream!parse_line(s, line) = [s EXCEPT !.cursors = Stream!Put(@, s.current, line.offset)]
  BY Zenon, <1>1, Zenon DEF Stream!parse_line
<1> QED BY ZenonT(40), <1>1, <1>2 DEF s, line, Parser

\* The line of a completion sets its status.
LEMMA AnswerLine ==
  ASSUME NEW f, NEW o, NEW c, NEW d, NEW x, NEW a, NEW id, NEW status
  PROVE  Stream!parse_line(Parser(f, o, c, d, x, a, NoPath, Stream!NoBlock, << >>),
                           [tag |-> "A", id |-> id, status |-> status]) =
           Parser(f, o, c, d, x, Stream!Put(a, id, status), NoPath, Stream!NoBlock, << >>)
<1> DEFINE s == Parser(f, o, c, d, x, a, NoPath, Stream!NoBlock, << >>)
           line == [tag |-> "A", id |-> id, status |-> status]
<1>1. /\ s.ended = FALSE /\ s.block = Stream!NoBlock /\ s.completions = a
      /\ line.tag = "A" /\ line.id = id /\ line.status = status
  BY DEF Parser
<1> HIDE DEF s, line
<1>2. Stream!parse_line(s, line) = [s EXCEPT !.completions = Stream!Put(@, line.id, line.status)]
  BY Zenon, <1>1, Zenon DEF Stream!parse_line
<1> QED BY ZenonT(40), <1>1, <1>2 DEF s, line, Parser

\* The line of the request, and the end of the prompt.
TagP(r)     == [tag |-> "P", predict |-> r]
Asked(s, r) == [s EXCEPT !.last_predict = r, !.ended = TRUE]

\* The line of the request ends the prompt.
LEMMA RequestLine ==
  ASSUME NEW f, NEW o, NEW c, NEW d, NEW x, NEW a, NEW r
  PROVE  Stream!parse_line(Parser(f, o, c, d, x, a, NoPath, Stream!NoBlock, << >>), TagP(r)) =
           Asked(Parser(f, o, c, d, x, a, NoPath, Stream!NoBlock, << >>), r)
<1> DEFINE s == Parser(f, o, c, d, x, a, NoPath, Stream!NoBlock, << >>)
           line == TagP(r)
<1>1. /\ s.ended = FALSE /\ s.block = Stream!NoBlock
      /\ line.tag = "P" /\ line.predict = r
  BY DEF Parser, TagP
<1> HIDE DEF s, line
<1>2. Stream!parse_line(s, line) = [s EXCEPT !.last_predict = line.predict, !.ended = TRUE]
  BY Zenon, <1>1, Zenon DEF Stream!parse_line
<1> QED BY <1>1, <1>2 DEF s, line, Asked

\* A block ends with a mark.
LEMMA Ends ==
  ASSUME NEW i, NEW j, NEW p
  PROVE  /\ Stream!EndOf([tag |-> "S"]) = Stream!End("</S>")
         /\ Stream!EndOf([tag |-> "D", start |-> i, end |-> j]) = Stream!End("</D>")
         /\ Stream!EndOf([tag |-> "X", path |-> p]) = Stream!End("</X>")
<1>1. ASSUME NEW b, b.tag = "S" PROVE Stream!EndOf(b) = Stream!End("</S>")
  BY Zenon, <1>1, Zenon DEF Stream!EndOf
<1>2. ASSUME NEW b, b.tag = "D" PROVE Stream!EndOf(b) = Stream!End("</D>")
  BY Zenon, <1>2, Zenon DEF Stream!EndOf
<1>3. ASSUME NEW b, b.tag = "X" PROVE Stream!EndOf(b) = Stream!End("</X>")
  BY Zenon, <1>3, Zenon DEF Stream!EndOf
<1> DEFINE bs == [tag |-> "S"]
           bd == [tag |-> "D", start |-> i, end |-> j]
           bx == [tag |-> "X", path |-> p]
<1>4. bs.tag = "S" /\ bd.tag = "D" /\ bx.tag = "X"
  OBVIOUS
<1> HIDE DEF bs, bd, bx
<1>5. /\ Stream!EndOf(bs) = Stream!End("</S>") /\ Stream!EndOf(bd) = Stream!End("</D>")
      /\ Stream!EndOf(bx) = Stream!End("</X>")
  BY <1>1, <1>2, <1>3, <1>4
<1> QED BY <1>5 DEF bs, bd, bx

\* A line inside a block, and the mark.
LEMMA LineInBlock ==
  ASSUME NEW f, NEW o, NEW c, NEW d, NEW x, NEW a, NEW p, NEW b, b # Stream!NoBlock,
         NEW m \in Marks, Stream!EndOf(b) = Stream!End(m), NEW buf, NEW l, l # << m >>
  PROVE  Stream!parse_line(Parser(f, o, c, d, x, a, p, b, buf), Stream!Text(l)) =
           Parser(f, o, c, d, x, a, p, b, Append(buf, l))
<1> DEFINE s == Parser(f, o, c, d, x, a, p, b, buf)
           line == Stream!Text(l)
<1>1. s.ended = FALSE /\ s.block = b /\ s.buf = buf
  BY DEF Parser
<1>2. line.tag = "text" /\ line.text = l
  BY DEF Stream!Text
<1>3. Stream!End(m).text = << m >>
  BY DEF Stream!End, Stream!Text
<1>4. line # Stream!EndOf(b)
  BY <1>2, <1>3
<1> HIDE DEF s, line
<1>5. Stream!parse_line(s, line) = [s EXCEPT !.buf = Append(@, line.text)]
  BY Zenon, <1>1, <1>2, <1>4, Zenon DEF Stream!parse_line
<1> QED BY ZenonT(40), <1>1, <1>2, <1>5 DEF s, line, Parser

\* The line that ends a block takes it.
LEMMA EndOfBlock ==
  ASSUME NEW f, NEW o, NEW c, NEW d, NEW x, NEW a, NEW p, NEW b, b # Stream!NoBlock, NEW buf
  PROVE  Stream!parse_line(Parser(f, o, c, d, x, a, p, b, buf), Stream!EndOf(b)) =
           Stream!take_block(Parser(f, o, c, d, x, a, p, b, buf))
<1> DEFINE s == Parser(f, o, c, d, x, a, p, b, buf)
<1>1. s.ended = FALSE /\ s.block = b
  BY DEF Parser
<1> HIDE DEF s
<1>2. Stream!parse_line(s, Stream!EndOf(b)) = Stream!take_block(s)
  BY Zenon, <1>1, Zenon DEF Stream!parse_line
<1> QED BY <1>2 DEF s

\* The first items of a sequence, and one more.
LEMMA OneMore ==
  ASSUME NEW X, NEW s \in Seq(X), NEW i \in 1 .. Len(s)
  PROVE  SubSeq(s, 1, i) = Append(SubSeq(s, 1, i - 1), s[i])
  OBVIOUS

\* The lines of a block as a sequence.
BlockLines(text) ==
  [i \in 1 .. Len(Stream!split(text)) |-> Stream!_escape(Stream!split(text)[i])]

\* The lines of a block are read one after the other, and then taken.
LEMMA BlockRead ==
  ASSUME NEW f, NEW o, NEW c, NEW d, NEW x, NEW a, NEW p, NEW b, b # Stream!NoBlock,
         NEW m \in Marks, Stream!EndOf(b) = Stream!End(m), NEW text \in Seq(Stream!Glyphs)
  PROVE  Reads(Parser(f, o, c, d, x, a, p, b, << >>), Stream!Block(text, m),
               Stream!take_block(Parser(f, o, c, d, x, a, p, b, BlockLines(text))))
<1> DEFINE n == Len(Stream!split(text))
           buf == BlockLines(text)
           ls == Stream!Block(text, m)
           P(z) == Parser(f, o, c, d, x, a, p, b, z)
           r == [i \in 0 .. n + 1 |->
                   IF i <= n THEN P(SubSeq(buf, 1, i)) ELSE Stream!take_block(P(buf))]
<1>1. /\ n \in Nat /\ DOMAIN Stream!split(text) = 1 .. n
      /\ buf \in [1 .. n -> Seq(Stream!Glyphs)]
      /\ \A i \in 1 .. n : buf[i] # << m >>
  BY Zenon, EscapedText DEF BlockLines
<1>2. ls = [i \in 1 .. n |-> Stream!Text(buf[i])] \o << Stream!End(m) >>
  BY <1>1 DEF Stream!Block, BlockLines
<1> HIDE DEF n, buf
<1>3. Len(ls) = n + 1 /\ ls[n + 1] = Stream!End(m) /\ \A i \in 1 .. n : ls[i] = Stream!Text(buf[i])
  <2> DEFINE u == [i \in 1 .. n |-> Stream!Text(buf[i])]
             T == {Stream!Text(buf[i]) : i \in 1 .. n} \cup {Stream!End(m)}
  <2>1. u \in Seq(T) /\ Len(u) = n /\ Stream!End(m) \in T
    BY <1>1
  <2>2. \A i \in 1 .. n : u[i] = Stream!Text(buf[i])
    OBVIOUS
  <2> DEFINE e == Stream!End(m)
  <2> HIDE DEF u, T, ls, e
  <2>3. ls = u \o << e >> /\ e \in T
    BY <1>2, <2>1 DEF u, e
  <2>4. Len(u \o << e >>) = n + 1 /\ (u \o << e >>)[n + 1] = e
        /\ \A i \in 1 .. n : (u \o << e >>)[i] = u[i]
    BY ONLY <2>1, <2>3, <1>1
  <2> QED BY Zenon, <2>2, <2>3, <2>4 DEF e
<1>4. /\ buf \in Seq(Seq(Stream!Glyphs)) /\ Len(buf) = n /\ SubSeq(buf, 1, 0) = << >>
      /\ SubSeq(buf, 1, n) = buf
  BY <1>1
<1>5. \A i \in 1 .. n : SubSeq(buf, 1, i) = Append(SubSeq(buf, 1, i - 1), buf[i])
  <2> TAKE i \in 1 .. n
  <2> QED BY ONLY i \in 1 .. n, <1>1, <1>4, OneMore
<1> HIDE DEF ls, P
<1>6. /\ r[0] = P(<< >>) /\ r[n + 1] = Stream!take_block(P(buf))
      /\ \A i \in 0 .. n : r[i] = P(SubSeq(buf, 1, i))
  BY <1>1, <1>4
<1> HIDE DEF r
<1>7. \A i \in 1 .. n + 1 : r[i] = Stream!parse_line(r[i - 1], ls[i])
  <2> TAKE i \in 1 .. n + 1
  <2>1. CASE i <= n
    <3>1. i \in 1 .. n /\ i \in 0 .. n /\ i - 1 \in 0 .. n
      BY <1>1, <2>1
    <3>2. Stream!parse_line(P(SubSeq(buf, 1, i - 1)), Stream!Text(buf[i])) =
            P(Append(SubSeq(buf, 1, i - 1), buf[i]))
      BY <1>1, <3>1, LineInBlock DEF P
    <3> QED BY Zenon, <1>3, <1>5, <1>6, <3>1, <3>2
  <2>2. CASE i = n + 1
    <3>1. i - 1 = n /\ n \in 0 .. n
      BY <1>1, <2>2
    <3>2. Stream!parse_line(P(buf), Stream!EndOf(b)) = Stream!take_block(P(buf))
      BY EndOfBlock DEF P
    <3> QED BY Zenon, <1>3, <1>4, <1>6, <2>2, <3>1, <3>2
  <2> QED BY <1>1, <2>1, <2>2
<1>8. Reads(P(<< >>), ls, Stream!take_block(P(buf)))
  <2>1. Len(ls) = n + 1
    BY <1>3
  <2> QED BY <1>6, <1>7, <2>1 DEF Reads
<1> QED BY <1>8 DEF P, ls, buf

\* The recursion inside Flat.
FlatRec(parts, h) ==
  h = [s \in SUBSET DOMAIN parts |-> IF s = {} THEN << >> ELSE h[s \ {Max(s)}] \o parts[Max(s)]]

\* Flat is its recursion.
LEMMA FlatUnfolds ==
  ASSUME NEW parts PROVE Stream!Flat(parts) = (CHOOSE h : FlatRec(parts, h))[DOMAIN parts]
  BY DEF Stream!Flat, Stream!FoldLeft, Stream!MapThenFoldSet, Stream!Max, Max, FlatRec

\* Parts that are read one after the other are read as a whole.
LEMMA FlatRead ==
  ASSUME NEW L, NEW parts \in Seq(Seq(L)), NEW q,
         \A i \in 1 .. Len(parts) : Reads(q[i - 1], parts[i], q[i])
  PROVE  Stream!Flat(parts) \in Seq(L) /\ Reads(q[0], Stream!Flat(parts), q[Len(parts)])
<1> DEFINE n == Len(parts)
           V == Seq(L)
           base == << >>
           G == [p \in (1 .. n) \X V |-> p[2] \o parts[p[1]]]
<1>1. n \in Nat /\ DOMAIN parts = 1 .. n /\ \A i \in 1 .. n : parts[i] \in V
  OBVIOUS
<1>2. base \in V
  OBVIOUS
<1>3. \A i \in 1 .. n, t \in V : t \o parts[i] \in V
  <2> TAKE i \in 1 .. n, t \in V
  <2>1. parts[i] \in V
    BY <1>1
  <2> HIDE DEF n
  <2> QED BY <2>1
<1> HIDE DEF n, V
<1>4. G \in [(1 .. n) \X V -> V]
  BY <1>3
<1>5. \A i \in 1 .. n, t \in V : G[<< i, t >>] = t \o parts[i]
  BY Zenon
<1> HIDE DEF G, base
<1>6. PICK h, r : FoldRun(n, V, base, G, h, r)
  BY ONLY Zenon, <1>1, <1>2, <1>4, FoldSteps
<1>7. /\ h \in [SUBSET (1 .. n) -> V] /\ r \in [0 .. n -> V]
      /\ Fold(base, G, 1 .. n, h) /\ r[0] = base
      /\ \A j \in 1 .. n : r[j] = G[<< j, r[j - 1] >>]
  BY ONLY <1>6 DEF FoldRun
<1>8. \A s \in SUBSET (1 .. n) : s # {} => Max(s) \in 1 .. n /\ s \ {Max(s)} \in SUBSET (1 .. n)
  BY Zenon, <1>1, IndexIn
<1>9. FlatRec(parts, h)
  <2>1. h = [s \in SUBSET (1 .. n) |->
               IF s = {} THEN base ELSE G[<< Max(s), h[s \ {Max(s)}] >>]]
    BY Zenon, <1>7 DEF Fold
  <2>2. ASSUME NEW s \in SUBSET (1 .. n), s # {}
        PROVE  G[<< Max(s), h[s \ {Max(s)}] >>] = h[s \ {Max(s)}] \o parts[Max(s)]
    <3>1. Max(s) \in 1 .. n /\ h[s \ {Max(s)}] \in V
      BY <1>7, <1>8, <2>2
    <3> QED BY Zenon, <1>5, <3>1
  <2>3. h = [s \in SUBSET (1 .. n) |->
               IF s = {} THEN base ELSE h[s \ {Max(s)}] \o parts[Max(s)]]
    BY Zenon, <2>1, <2>2
  <2> QED BY Zenon, <1>1, <2>3 DEF FlatRec, base
<1> DEFINE k == CHOOSE g : FlatRec(parts, g)
<1>10. FlatRec(parts, k)
  BY <1>9
<1> HIDE DEF k
<1>11. Stepwise(n, V, base, G, k)
  <2>1. k = [s \in SUBSET (1 .. n) |->
               IF s = {} THEN base ELSE k[s \ {Max(s)}] \o parts[Max(s)]]
    BY Zenon, <1>1, <1>10 DEF FlatRec, base
  <2>2. k[{}] = base
    BY <2>1
  <2>3. ASSUME NEW i \in 1 .. n, k[1 .. i - 1] \in V
        PROVE  k[1 .. i] = G[<< i, k[1 .. i - 1] >>]
    <3>1. Max(1 .. i) = i
      BY LastIndex
    <3>2. (1 .. i) \ {i} = 1 .. i - 1 /\ i \in 1 .. i /\ 1 .. i \in SUBSET (1 .. n)
      BY ONLY <1>1, i \in 1 .. n
    <3>3. k[1 .. i] = k[1 .. i - 1] \o parts[i]
      BY Zenon, <2>1, <3>1, <3>2
    <3> QED BY Zenon, <1>5, <2>3, <3>3
  <2> QED BY <2>2, <2>3 DEF Stepwise
<1>12. \A i \in 0 .. n : k[1 .. i] = r[i]
  BY ONLY <1>1, <1>6, <1>11, RunIs
<1>13. r[n] = Stream!Flat(parts)
  <2>1. Stream!Flat(parts) = k[DOMAIN parts]
    BY FlatUnfolds DEF k
  <2>2. n \in 0 .. n
    BY <1>1
  <2> QED BY <1>1, <1>12, <2>1, <2>2
<1> DEFINE S == {i \in Nat : i <= n => Reads(q[0], r[i], q[i])}
<1>14. 0 \in S
  BY <1>7, ReadsNone DEF base
<1>15. ASSUME NEW i \in Nat, i \in S PROVE i + 1 \in S
  <2> SUFFICES ASSUME i + 1 <= n PROVE Reads(q[0], r[i + 1], q[i + 1])
    OBVIOUS
  <2>1. i + 1 \in 1 .. n /\ i \in 0 .. n /\ (i + 1) - 1 = i /\ i <= n
    BY <1>1
  <2>2. r[i + 1] = r[i] \o parts[i + 1] /\ r[i] \in V /\ parts[i + 1] \in V
    BY Zenon, <1>1, <1>5, <1>7, <2>1
  <2>3. Reads(q[0], r[i], q[i]) /\ Reads(q[i], parts[i + 1], q[i + 1])
    BY <1>15, <2>1 DEF n
  <2> QED BY <2>2, <2>3, ReadsOn DEF V
<1>16. \A i \in Nat : i \in S
  <2> HIDE DEF S
  <2> QED BY <1>14, <1>15, ByCounting
<1> QED BY <1>1, <1>7, <1>13, <1>16 DEF n, V

\* What is taken from a block.
LEMMA TakenText ==
  ASSUME NEW f, NEW o, NEW c, NEW d, NEW x, NEW a, NEW p, NEW text \in Seq(Stream!Glyphs)
  PROVE  Stream!take_block(Parser(f, o, c, d, x, a, p, [tag |-> "S"], BlockLines(text))) =
           Parser(Stream!Put(f, p, text), o, c, d, x, a, p, Stream!NoBlock, << >>)
<1> DEFINE b == [tag |-> "S"]
           buf == BlockLines(text)
           s == Parser(f, o, c, d, x, a, p, b, buf)
<1>1. s.files = f /\ s.current = p /\ s.block = b /\ s.buf = buf /\ s.diagnostics = d
  BY DEF Parser
<1>2. Stream!join([i \in DOMAIN buf |-> Stream!_unescape(buf[i])]) = text
  BY EscapedText DEF BlockLines
<1>3. b.tag = "S"
  OBVIOUS
<1> HIDE DEF b, buf, s
<1>4. Stream!take_block(s) =
        [[s EXCEPT !.block = Stream!NoBlock, !.buf = << >>] EXCEPT !.files = Stream!Put(@, p, text)]
  BY Zenon, <1>1, <1>2, <1>3, Zenon DEF Stream!take_block
<1>5. Stream!take_block(s) =
        Parser(Stream!Put(f, p, text), o, c, d, x, a, p, Stream!NoBlock, << >>)
  BY ZenonT(40), <1>4 DEF s, Parser
<1> QED BY <1>5 DEF s, b, buf

\* The tag line of an entry, the entry, and those of its file so far.
TagD(i, j) == [tag |-> "D", start |-> i, end |-> j]
EntryOf(i, j, text) == [start |-> i, end |-> j, message |-> text]
Seen(d, p) == IF p \in DOMAIN d THEN d[p] ELSE << >>

\* From the block of an entry, the entry.
LEMMA TakenEntry ==
  ASSUME NEW f, NEW o, NEW c, NEW d, NEW x, NEW a, NEW p, NEW i, NEW j,
         NEW text \in Seq(Stream!Glyphs)
  PROVE  Stream!take_block(Parser(f, o, c, d, x, a, p, TagD(i, j), BlockLines(text))) =
           Parser(f, o, c, Stream!Put(d, p, Append(Seen(d, p), EntryOf(i, j, text))), x, a, p,
                  Stream!NoBlock, << >>)
<1> DEFINE b == TagD(i, j)
           buf == BlockLines(text)
           s == Parser(f, o, c, d, x, a, p, b, buf)
           new == Append(Seen(d, p), EntryOf(i, j, text))
<1>1. s.files = f /\ s.current = p /\ s.block = b /\ s.buf = buf /\ s.diagnostics = d
  BY DEF Parser
<1>2. Stream!join([k \in DOMAIN buf |-> Stream!_unescape(buf[k])]) = text
  BY EscapedText DEF BlockLines
<1>3. b.tag = "D" /\ b.start = i /\ b.end = j
  BY DEF TagD
<1>4. new = Append(IF p \in DOMAIN d THEN d[p] ELSE << >>,
                   [start |-> i, end |-> j, message |-> text])
  BY DEF Seen, EntryOf
<1> HIDE DEF b, buf, s, new
<1>5. Stream!take_block(s) =
        [[s EXCEPT !.block = Stream!NoBlock, !.buf = << >>]
           EXCEPT !.diagnostics = Stream!Put(@, p, new)]
  BY Zenon, <1>1, <1>2, <1>3, <1>4, Zenon DEF Stream!take_block
<1>6. Stream!take_block(s) =
        Parser(f, o, c, Stream!Put(d, p, new), x, a, p, Stream!NoBlock, << >>)
  BY ZenonT(40), <1>5 DEF s, Parser
<1> QED BY <1>6 DEF s, b, buf, new

\* From the block of a context, the context.
LEMMA TakenContext ==
  ASSUME NEW f, NEW o, NEW c, NEW d, NEW x, NEW a, NEW p, NEW k, NEW text \in Seq(Stream!Glyphs)
  PROVE  Stream!take_block(Parser(f, o, c, d, x, a, p, [tag |-> "X", path |-> k],
                                  BlockLines(text))) =
           Parser(f, o, c, d, Append(x, [path |-> k, content |-> text]), a, p,
                  Stream!NoBlock, << >>)
<1> DEFINE b == [tag |-> "X", path |-> k]
           buf == BlockLines(text)
           s == Parser(f, o, c, d, x, a, p, b, buf)
<1>1. /\ s.files = f /\ s.current = p /\ s.block = b /\ s.buf = buf /\ s.diagnostics = d
      /\ s.retrieved = x
  BY DEF Parser
<1>2. Stream!join([i \in DOMAIN buf |-> Stream!_unescape(buf[i])]) = text
  BY EscapedText DEF BlockLines
<1>3. b.tag = "X" /\ b.path = k
  OBVIOUS
<1> HIDE DEF b, buf, s
<1>4. Stream!take_block(s) =
        [[s EXCEPT !.block = Stream!NoBlock, !.buf = << >>]
           EXCEPT !.retrieved = Append(@, [path |-> k, content |-> text])]
  BY Zenon, <1>1, <1>2, <1>3, Zenon DEF Stream!take_block
<1>5. Stream!take_block(s) =
        Parser(f, o, c, d, Append(x, [path |-> k, content |-> text]), a, p,
               Stream!NoBlock, << >>)
  BY ZenonT(40), <1>4 DEF s, Parser
<1> QED BY <1>5 DEF s, b, buf

\* The lines a prompt may have.
TextLines    == {Stream!Text(l) : l \in Seq(Stream!Glyphs)}
FileLines    == {[tag |-> "F", path |-> p] : p \in Paths}
ContextLines == {[tag |-> "X", path |-> p] : p \in Paths}
PlainLines   == {[tag |-> "S"], [tag |-> "/F"]}
CursorLines  == {[tag |-> "C", offset |-> cursors[p]] : p \in DOMAIN cursors}
EntryLines   == {[tag |-> "D", start |-> i, end |-> j] : i \in 0 .. MaxBytes, j \in 0 .. MaxBytes}
AnswerLines  == {[tag |-> "A", id |-> k, status |-> completions[k]] : k \in DOMAIN completions}
RequestLines == {[tag |-> "P", predict |-> last_predict]}
PromptLines ==
  TextLines \cup FileLines \cup ContextLines \cup PlainLines \cup CursorLines \cup EntryLines
  \cup AnswerLines \cup RequestLines

\* Each kind of line is one of them.
LEMMA LinesThere ==
  /\ \A l \in Seq(Stream!Glyphs) : Stream!Text(l) \in PromptLines
  /\ \A p \in Paths : /\ [tag |-> "F", path |-> p] \in PromptLines
                       /\ [tag |-> "X", path |-> p] \in PromptLines
  /\ [tag |-> "S"] \in PromptLines /\ [tag |-> "/F"] \in PromptLines
  /\ \A p \in DOMAIN cursors : [tag |-> "C", offset |-> cursors[p]] \in PromptLines
  /\ \A i \in 0 .. MaxBytes : \A j \in 0 .. MaxBytes :
        [tag |-> "D", start |-> i, end |-> j] \in PromptLines
  /\ \A k \in DOMAIN completions :
        [tag |-> "A", id |-> k, status |-> completions[k]] \in PromptLines
  /\ [tag |-> "P", predict |-> last_predict] \in PromptLines
<1>1. \A l \in Seq(Stream!Glyphs) : Stream!Text(l) \in TextLines
  BY DEF TextLines
<1>2. \A p \in Paths : [tag |-> "F", path |-> p] \in FileLines
  BY DEF FileLines
<1>3. \A p \in Paths : [tag |-> "X", path |-> p] \in ContextLines
  BY DEF ContextLines
<1>4. [tag |-> "S"] \in PlainLines /\ [tag |-> "/F"] \in PlainLines
  BY DEF PlainLines
<1>5. \A p \in DOMAIN cursors : [tag |-> "C", offset |-> cursors[p]] \in CursorLines
  BY DEF CursorLines
<1>6. \A i \in 0 .. MaxBytes : \A j \in 0 .. MaxBytes :
        [tag |-> "D", start |-> i, end |-> j] \in EntryLines
  BY DEF EntryLines
<1>7. \A k \in DOMAIN completions :
        [tag |-> "A", id |-> k, status |-> completions[k]] \in AnswerLines
  BY DEF AnswerLines
<1>8. [tag |-> "P", predict |-> last_predict] \in RequestLines
  BY DEF RequestLines
<1>9. TextLines \cup FileLines \cup ContextLines \cup PlainLines \cup CursorLines \cup EntryLines
      \cup AnswerLines \cup RequestLines \subseteq PromptLines
  BY DEF PromptLines
<1> QED BY <1>1, <1>2, <1>3, <1>4, <1>5, <1>6, <1>7, <1>8, <1>9

\* The lines of a block are such lines.
LEMMA BlockTyped ==
  ASSUME NEW m \in Marks, NEW text \in Seq(Stream!Glyphs)
  PROVE  Stream!Block(text, m) \in Seq(PromptLines)
<1> DEFINE n == Len(Stream!split(text))
           buf == BlockLines(text)
           u == [i \in 1 .. n |-> Stream!Text(buf[i])]
<1>1. /\ n \in Nat /\ DOMAIN Stream!split(text) = 1 .. n
      /\ buf \in [1 .. n -> Seq(Stream!Glyphs)]
  BY Zenon, EscapedText DEF BlockLines
<1>2. Stream!Block(text, m) = u \o << Stream!End(m) >>
  BY <1>1 DEF Stream!Block, BlockLines
<1> HIDE DEF n, buf
<1>3. \A l \in Seq(Stream!Glyphs) : Stream!Text(l) \in PromptLines
  BY LinesThere
<1>4. Stream!End(m) \in PromptLines
  <2>1. << m >> \in Seq(Stream!Glyphs)
    BY DEF Stream!Glyphs, Marks
  <2> QED BY Zenon, <1>3, <2>1 DEF Stream!End
<1>5. u \in Seq(PromptLines)
  BY <1>1, <1>3
<1> HIDE DEF u
<1> QED BY <1>2, <1>4, <1>5

\* A line with a tag and its block.
LEMMA TagAndBlock ==
  ASSUME NEW f, NEW o, NEW c, NEW d, NEW x, NEW a, NEW p, NEW b \in PromptLines,
         b # Stream!NoBlock, NEW m \in Marks, Stream!EndOf(b) = Stream!End(m),
         NEW text \in Seq(Stream!Glyphs), NEW s, NEW t,
         s = Parser(f, o, c, d, x, a, p, Stream!NoBlock, << >>),
         Stream!parse_line(s, b) = Parser(f, o, c, d, x, a, p, b, << >>),
         Stream!take_block(Parser(f, o, c, d, x, a, p, b, BlockLines(text))) = t
  PROVE  Reads(s, << b >> \o Stream!Block(text, m), t)
<1>1. Reads(s, << b >>, Parser(f, o, c, d, x, a, p, b, << >>))
  BY ReadsOne
<1>2. Reads(Parser(f, o, c, d, x, a, p, b, << >>), Stream!Block(text, m), t)
  BY BlockRead
<1>3. << b >> \in Seq(PromptLines) /\ Stream!Block(text, m) \in Seq(PromptLines)
  BY BlockTyped
<1> QED BY Zenon, <1>1, <1>2, <1>3, ReadsOn

\* A tag is no absent block.
LEMMA TagsAreBlocks ==
  ASSUME NEW i, NEW j, NEW p
  PROVE  /\ [tag |-> "S"] # Stream!NoBlock /\ [tag |-> "X", path |-> p] # Stream!NoBlock
         /\ [tag |-> "D", start |-> i, end |-> j] # Stream!NoBlock
<1> DEFINE bs == [tag |-> "S"]
           bd == [tag |-> "D", start |-> i, end |-> j]
           bx == [tag |-> "X", path |-> p]
           none == Stream!NoBlock
<1>1. bs.tag = "S" /\ bd.tag = "D" /\ bx.tag = "X" /\ none.tag = "none"
  BY DEF Stream!NoBlock
<1> HIDE DEF bs, bd, bx, none
<1>2. bs # none /\ bd # none /\ bx # none
  BY <1>1
<1> QED BY <1>2 DEF bs, bd, bx, none

\* A key that is put twice has the later value.
LEMMA PutTwice ==
  ASSUME NEW f, NEW k, NEW v, NEW w
  PROVE  Stream!Put(Stream!Put(f, k, v), k, w) = Stream!Put(f, k, w)
  BY DEF Stream!Put

\* A key that is put has the value.
LEMMA PutThere ==
  ASSUME NEW f, NEW k, NEW v
  PROVE  k \in DOMAIN Stream!Put(f, k, v) /\ Stream!Put(f, k, v)[k] = v
  BY DEF Stream!Put

\* An entry of the diagnostics is read back.
LEMMA EntryRead ==
  ASSUME NEW f, NEW o, NEW c, NEW d, NEW x, NEW a, NEW p, p # NoPath,
         NEW i \in 0 .. MaxBytes, NEW j \in 0 .. MaxBytes, NEW text \in Seq(Stream!Glyphs)
  PROVE  Reads(Parser(f, o, c, d, x, a, p, Stream!NoBlock, << >>),
               << TagD(i, j) >> \o Stream!Block(text, "</D>"),
               Parser(f, o, c, Stream!Put(d, p, Append(Seen(d, p), EntryOf(i, j, text))),
                      x, a, p, Stream!NoBlock, << >>))
<1> DEFINE b == TagD(i, j)
           new == Append(Seen(d, p), EntryOf(i, j, text))
<1>1. Stream!parse_line(Parser(f, o, c, d, x, a, p, Stream!NoBlock, << >>), b) =
        Parser(f, o, c, d, x, a, p, b, << >>)
  BY EntryLine DEF TagD
<1>2. Stream!take_block(Parser(f, o, c, d, x, a, p, b, BlockLines(text))) =
        Parser(f, o, c, Stream!Put(d, p, new), x, a, p, Stream!NoBlock, << >>)
  BY TakenEntry
<1>3. b \in PromptLines
  BY LinesThere DEF TagD
<1>4. b # Stream!NoBlock /\ Stream!EndOf(b) = Stream!End("</D>") /\ "</D>" \in Marks
  BY Zenon, Ends, TagsAreBlocks DEF Marks, TagD
<1> HIDE DEF b, new
<1>5. Reads(Parser(f, o, c, d, x, a, p, Stream!NoBlock, << >>),
            << b >> \o Stream!Block(text, "</D>"),
            Parser(f, o, c, Stream!Put(d, p, new), x, a, p, Stream!NoBlock, << >>))
  BY <1>1, <1>2, <1>3, <1>4, TagAndBlock
<1> QED BY <1>5 DEF b, new

\* The diagnostics of a file are read back.
LEMMA EntriesRead ==
  ASSUME NEW f, NEW o, NEW c, NEW d, NEW x, NEW a, NEW p, p # NoPath, p \notin DOMAIN d,
         NEW es \in Seq([start : 0 .. MaxBytes, end : 0 .. MaxBytes, message : Seq(Stream!Glyphs)])
  PROVE  LET parts == [i \in DOMAIN es |->
                         << TagD(es[i].start, es[i].end) >> \o Stream!Block(es[i].message, "</D>")]
         IN  /\ Stream!Flat(parts) \in Seq(PromptLines)
             /\ Reads(Parser(f, o, c, d, x, a, p, Stream!NoBlock, << >>), Stream!Flat(parts),
                      Parser(f, o, c, IF es = << >> THEN d ELSE Stream!Put(d, p, es), x, a, p,
                             Stream!NoBlock, << >>))
<1> DEFINE n == Len(es)
           E == [start : 0 .. MaxBytes, end : 0 .. MaxBytes, message : Seq(Stream!Glyphs)]
           b(i) == TagD(es[i].start, es[i].end)
           parts == [i \in DOMAIN es |-> << b(i) >> \o Stream!Block(es[i].message, "</D>")]
           sub(k) == SubSeq(es, 1, k)
           g == [i \in 0 .. n |-> IF i = 0 THEN d ELSE Stream!Put(d, p, sub(i))]
           q == [i \in 0 .. n |-> Parser(f, o, c, g[i], x, a, p, Stream!NoBlock, << >>)]
<1>1. /\ n \in Nat /\ DOMAIN es = 1 .. n
      /\ \A i \in 1 .. n : es[i] \in E
  <2>1. es \in Seq(E)
    OBVIOUS
  <2> HIDE DEF E
  <2> QED BY <2>1
<1>2. \A i \in 1 .. n : /\ es[i].start \in 0 .. MaxBytes /\ es[i].end \in 0 .. MaxBytes
                        /\ es[i].message \in Seq(Stream!Glyphs)
                        /\ es[i] = EntryOf(es[i].start, es[i].end, es[i].message)
  BY <1>1 DEF EntryOf
<1>3. \A i \in 1 .. n : sub(i) = Append(sub(i - 1), es[i])
  <2> TAKE i \in 1 .. n
  <2> QED BY Zenon, OneMore
<1>4. sub(n) = es /\ sub(0) = << >> /\ (n = 0 <=> es = << >>)
  OBVIOUS
<1>5. \A i \in 1 .. n : b(i) \in PromptLines
  <2>1. \A u \in 0 .. MaxBytes : \A v \in 0 .. MaxBytes :
          [tag |-> "D", start |-> u, end |-> v] \in PromptLines
    BY Zenon, LinesThere
  <2>2. \A u \in 0 .. MaxBytes : \A v \in 0 .. MaxBytes : TagD(u, v) \in PromptLines
    BY Zenon, <2>1 DEF TagD
  <2> HIDE DEF n
  <2> QED BY Zenon, <1>2, <2>2
<1>6. "</D>" \in Marks
  BY DEF Marks
<1>7. \A i \in 1 .. n : b(i) # Stream!NoBlock /\ Stream!EndOf(b(i)) = Stream!End("</D>")
  BY Zenon, Ends, TagsAreBlocks DEF TagD
<1> HIDE DEF n, E, sub
<1>8. /\ g[0] = d /\ \A i \in 1 .. n : g[i] = Stream!Put(d, p, sub(i))
      /\ \A i \in 0 .. n : q[i] = Parser(f, o, c, g[i], x, a, p, Stream!NoBlock, << >>)
  BY <1>1
<1> HIDE DEF g, q
<1>9. \A i \in 1 .. n : g[i] = Stream!Put(g[i - 1], p, Append(Seen(g[i - 1], p), es[i]))
  <2> TAKE i \in 1 .. n
  <2>1. CASE i = 1
    <3>1. i - 1 = 0
      BY <2>1
    <3>2. sub(i) = Append(<< >>, es[i])
      BY Zenon, <1>3, <1>4, <3>1
    <3>3. g[i - 1] = d /\ g[i] = Stream!Put(d, p, Append(<< >>, es[i]))
      BY <1>8, <3>1, <3>2
    <3> QED BY <3>3 DEF Seen
  <2>2. CASE i # 1
    <3>1. i - 1 \in 1 .. n
      BY <1>1, <2>2
    <3>2. g[i - 1] = Stream!Put(d, p, sub(i - 1))
      BY <1>8, <3>1
    <3>3. Seen(g[i - 1], p) = sub(i - 1)
      BY <3>2, PutThere DEF Seen
    <3>4. g[i] = Stream!Put(d, p, Append(sub(i - 1), es[i]))
      BY Zenon, <1>3, <1>8
    <3>5. Stream!Put(g[i - 1], p, Append(sub(i - 1), es[i])) =
            Stream!Put(d, p, Append(sub(i - 1), es[i]))
      BY <3>2, PutTwice
    <3> QED BY <3>3, <3>4, <3>5
  <2> QED BY <2>1, <2>2
<1>10. \A i \in 1 .. n : Reads(q[i - 1], parts[i], q[i])
  <2> TAKE i \in 1 .. n
  <2> DEFINE u == es[i].start
             v == es[i].end
             w == es[i].message
             e == g[i - 1]
  <2>1. parts[i] = << TagD(u, v) >> \o Stream!Block(w, "</D>")
    BY <1>1
  <2>2. /\ u \in 0 .. MaxBytes /\ v \in 0 .. MaxBytes /\ w \in Seq(Stream!Glyphs)
        /\ es[i] = EntryOf(u, v, w)
    BY <1>2
  <2>3. g[i] = Stream!Put(e, p, Append(Seen(e, p), EntryOf(u, v, w)))
    BY Zenon, <1>9, <2>2
  <2>4. /\ q[i - 1] = Parser(f, o, c, e, x, a, p, Stream!NoBlock, << >>)
        /\ q[i] = Parser(f, o, c, g[i], x, a, p, Stream!NoBlock, << >>)
    <3>1. i - 1 \in 0 .. n /\ i \in 0 .. n
      BY <1>1
    <3> QED BY <1>8, <3>1
  <2> HIDE DEF u, v, w, e, parts
  <2>5. Reads(Parser(f, o, c, e, x, a, p, Stream!NoBlock, << >>),
              << TagD(u, v) >> \o Stream!Block(w, "</D>"),
              Parser(f, o, c, Stream!Put(e, p, Append(Seen(e, p), EntryOf(u, v, w))),
                     x, a, p, Stream!NoBlock, << >>))
    BY <2>2, EntryRead
  <2> QED BY ONLY <2>1, <2>3, <2>4, <2>5
<1>11. parts \in Seq(Seq(PromptLines)) /\ Len(parts) = n
  <2>1. \A i \in 1 .. n : << b(i) >> \o Stream!Block(es[i].message, "</D>") \in Seq(PromptLines)
    <3> TAKE i \in 1 .. n
    <3>1. Stream!Block(es[i].message, "</D>") \in Seq(PromptLines) /\ b(i) \in PromptLines
      BY Zenon, <1>2, <1>5, <1>6, BlockTyped
    <3> HIDE DEF b
    <3> QED BY <3>1
  <2> HIDE DEF b
  <2> QED BY <1>1, <2>1
<1> HIDE DEF parts
<1>12. /\ Stream!Flat(parts) \in Seq(PromptLines)
       /\ Reads(q[0], Stream!Flat(parts), q[n])
  BY Zenon, <1>10, <1>11, FlatRead
<1>13. /\ q[0] = Parser(f, o, c, d, x, a, p, Stream!NoBlock, << >>)
       /\ q[n] = Parser(f, o, c, IF es = << >> THEN d ELSE Stream!Put(d, p, es), x, a, p,
                        Stream!NoBlock, << >>)
  <2>1. 0 \in 0 .. n /\ n \in 0 .. n
    BY <1>1
  <2>2. g[n] = IF es = << >> THEN d ELSE Stream!Put(d, p, es)
    <3>1. CASE n = 0
      BY <1>4, <1>8, <3>1
    <3>2. CASE n # 0
      <4>1. n \in 1 .. n
        BY <1>1, <3>2
      <4> QED BY <1>4, <1>8, <3>2, <4>1
    <3> QED BY <3>1, <3>2
  <2> QED BY <1>8, <2>1, <2>2
<1> QED BY <1>12, <1>13 DEF parts

\* What is read back of a file besides its text.
WithCursor(c, p)  == IF p \in DOMAIN cursors THEN Stream!Put(c, p, cursors[p]) ELSE c
Told(p)           == p \in DOMAIN diagnostics /\ diagnostics[p] # << >>
WithEntries(d, p) == IF Told(p) THEN Stream!Put(d, p, diagnostics[p]) ELSE d

\* The four parts of a file in the prompt.
CursorPart(p) == IF p \in DOMAIN cursors THEN << [tag |-> "C", offset |-> cursors[p]] >> ELSE << >>
EntryParts(es) ==
  [i \in DOMAIN es |-> << TagD(es[i].start, es[i].end) >> \o Stream!Block(es[i].message, "</D>")]
EntriesPart(p) ==
  IF p \notin DOMAIN diagnostics THEN << >> ELSE Stream!Flat(EntryParts(diagnostics[p]))

\* A file is written part by part.
LEMMA FileParts ==
  ASSUME NEW p
  PROVE  Stream!serialize_file(p) =
           ((((<< [tag |-> "F", path |-> p], [tag |-> "S"] >> \o Stream!Block(files[p], "</S>"))
              \o CursorPart(p)) \o EntriesPart(p)) \o << [tag |-> "/F"] >>)
  BY DEF Stream!serialize_file, CursorPart, EntriesPart, EntryParts, TagD

\* Two lines, one after the other.
LEMMA Joined ==
  ASSUME NEW X, NEW x \in Seq(X), NEW y \in Seq(X), Len(x) = 1, Len(y) = 1
  PROVE  x \o y \in Seq(X) /\ Len(x \o y) = 2 /\ (x \o y)[1] = x[1] /\ (x \o y)[2] = y[1]
<1>1. x \o y \in Seq(X)
  OBVIOUS
<1>2. Len(x \o y) = Len(x) + Len(y)
  OBVIOUS
<1>3. /\ \A i \in 1 .. Len(x) : (x \o y)[i] = x[i]
      /\ \A i \in Len(x) + 1 .. Len(x) + Len(y) : (x \o y)[i] = y[i - Len(x)]
  BY SMTT(30)
<1>4. 1 \in 1 .. Len(x) /\ 2 \in Len(x) + 1 .. Len(x) + Len(y) /\ 2 - Len(x) = 1
  OBVIOUS
<1> QED BY ONLY <1>1, <1>2, <1>3, <1>4, Len(x) = 1, Len(y) = 1

\* They make a sequence of two.
LEMMA TwoLines ==
  ASSUME NEW X, NEW u \in X, NEW v \in X
  PROVE  << u >> \o << v >> = << u, v >> /\ << u >> \in Seq(X) /\ << v >> \in Seq(X)
<1> DEFINE x == << u >>
           y == << v >>
           z == << u, v >>
<1>1. x \in Seq(X) /\ Len(x) = 1 /\ x[1] = u
  OBVIOUS
<1>2. y \in Seq(X) /\ Len(y) = 1 /\ y[1] = v
  OBVIOUS
<1>3. z \in Seq(X) /\ Len(z) = 2 /\ z[1] = u /\ z[2] = v
  OBVIOUS
<1> HIDE DEF x, y, z
<1>4. x \o y \in Seq(X) /\ Len(x \o y) = 2 /\ (x \o y)[1] = x[1] /\ (x \o y)[2] = y[1]
  BY <1>1, <1>2, Joined
<1> DEFINE w == x \o y
<1>5. w \in Seq(X) /\ Len(w) = 2 /\ w[1] = u /\ w[2] = v
  BY <1>1, <1>2, <1>4
<1> HIDE DEF w
<1>6. w = z
  <2>1. w \in [1 .. 2 -> X] /\ z \in [1 .. 2 -> X]
    BY <1>3, <1>5
  <2>2. \A i \in 1 .. 2 : i = 1 \/ i = 2
    OBVIOUS
  <2> QED BY <1>3, <1>5, <2>1, <2>2
<1> QED BY <1>1, <1>2, <1>6 DEF w, x, y, z

\* A file is read back with its text, its cursor and its diagnostics.
LEMMA FileRead ==
  ASSUME NEW f, NEW o, NEW c, NEW d, NEW x, NEW a, NEW p \in Paths,
         files[p] \in Seq(Stream!Glyphs), p \notin Stream!ToSet(o), p \notin DOMAIN d,
         p \in DOMAIN diagnostics =>
           diagnostics[p] \in Seq([start : 0 .. MaxBytes, end : 0 .. MaxBytes,
                                   message : Seq(Stream!Glyphs)])
  PROVE  /\ Stream!serialize_file(p) \in Seq(PromptLines)
         /\ Reads(Parser(f, o, c, d, x, a, NoPath, Stream!NoBlock, << >>), Stream!serialize_file(p),
                  Parser(Stream!Put(f, p, files[p]), Append(o, p), WithCursor(c, p),
                         WithEntries(d, p), x, a, NoPath, Stream!NoBlock, << >>))
<1> DEFINE F == [tag |-> "F", path |-> p]
           T == [tag |-> "S"]
           E == [tag |-> "/F"]
           B == Stream!Block(files[p], "</S>")
           C == CursorPart(p)
           D == EntriesPart(p)
           none == Stream!NoBlock
           f1 == Stream!Put(f, p, << >>)
           f2 == Stream!Put(f, p, files[p])
           o2 == Append(o, p)
           c2 == WithCursor(c, p)
           d2 == WithEntries(d, p)
<1>1. p # NoPath
  BY StreamOK
<1>2. F \in PromptLines /\ T \in PromptLines /\ E \in PromptLines
  BY Zenon, LinesThere
<1>3. T # none /\ Stream!EndOf(T) = Stream!End("</S>") /\ "</S>" \in Marks
  BY Zenon, Ends, TagsAreBlocks DEF Marks
<1>4. B \in Seq(PromptLines)
  BY <1>3, BlockTyped
<1>5. Reads(Parser(f, o, c, d, x, a, NoPath, none, << >>), << F >>,
            Parser(f1, o2, c, d, x, a, p, none, << >>))
  <2>1. Stream!parse_line(Parser(f, o, c, d, x, a, NoPath, none, << >>), F) =
          Parser(f1, o2, c, d, x, a, p, none, << >>)
    BY FileLine
  <2> HIDE DEF F, none, f1, o2
  <2> QED BY <2>1, ReadsOne
<1>6. Reads(Parser(f1, o2, c, d, x, a, p, none, << >>), << T >>,
            Parser(f1, o2, c, d, x, a, p, T, << >>))
  <2>1. Stream!parse_line(Parser(f1, o2, c, d, x, a, p, none, << >>), T) =
          Parser(f1, o2, c, d, x, a, p, T, << >>)
    <3> HIDE DEF f1, o2
    <3> QED BY <1>1, TextLine
  <2> HIDE DEF T, none, f1, o2
  <2> QED BY <2>1, ReadsOne
<1>7. Stream!take_block(Parser(f1, o2, c, d, x, a, p, T, BlockLines(files[p]))) =
        Parser(f2, o2, c, d, x, a, p, none, << >>)
  <2>1. Stream!Put(f1, p, files[p]) = f2
    BY PutTwice
  <2>2. Stream!take_block(Parser(f1, o2, c, d, x, a, p, T, BlockLines(files[p]))) =
          Parser(Stream!Put(f1, p, files[p]), o2, c, d, x, a, p, none, << >>)
    <3> HIDE DEF f1, o2
    <3> QED BY TakenText
  <2> HIDE DEF f1, f2, o2, T, none
  <2> QED BY <2>1, <2>2
<1>8. Reads(Parser(f1, o2, c, d, x, a, p, T, << >>), B,
            Parser(f2, o2, c, d, x, a, p, none, << >>))
  <2> HIDE DEF f1, f2, o2, T, none
  <2> QED BY <1>3, <1>7, BlockRead DEF none
<1>9. /\ C \in Seq(PromptLines)
      /\ Reads(Parser(f2, o2, c, d, x, a, p, none, << >>), C,
               Parser(f2, o2, c2, d, x, a, p, none, << >>))
  <2> HIDE DEF f2, o2
  <2>1. CASE p \in DOMAIN cursors
    <3> DEFINE l == [tag |-> "C", offset |-> cursors[p]]
    <3>1. C = << l >> /\ c2 = Stream!Put(c, p, cursors[p])
      BY <2>1 DEF CursorPart, WithCursor
    <3>2. l \in PromptLines
      BY <2>1, LinesThere
    <3>3. Stream!parse_line(Parser(f2, o2, c, d, x, a, p, none, << >>), l) =
            Parser(f2, o2, Stream!Put(c, p, cursors[p]), d, x, a, p, none, << >>)
      BY <1>1, CursorLine
    <3> HIDE DEF l, c2, C, none
    <3> QED BY <3>1, <3>2, <3>3, ReadsOne
  <2>2. CASE p \notin DOMAIN cursors
    <3>1. C = << >> /\ c2 = c
      BY <2>2 DEF CursorPart, WithCursor
    <3> HIDE DEF c2, C, none
    <3> QED BY <3>1, ReadsNone
  <2> QED BY <2>1, <2>2
<1>10. /\ D \in Seq(PromptLines)
       /\ Reads(Parser(f2, o2, c2, d, x, a, p, none, << >>), D,
                Parser(f2, o2, c2, d2, x, a, p, none, << >>))
  <2> HIDE DEF f2, o2, c2
  <2>1. CASE p \in DOMAIN diagnostics
    <3> DEFINE es == diagnostics[p]
    <3>1. es \in Seq([start : 0 .. MaxBytes, end : 0 .. MaxBytes, message : Seq(Stream!Glyphs)])
      BY <2>1
    <3>2. D = Stream!Flat(EntryParts(es))
      BY <2>1 DEF EntriesPart
    <3>3. d2 = IF es = << >> THEN d ELSE Stream!Put(d, p, es)
      BY <2>1 DEF WithEntries, Told
    <3> HIDE DEF es, D, d2
    <3>4. /\ Stream!Flat(EntryParts(es)) \in Seq(PromptLines)
          /\ Reads(Parser(f2, o2, c2, d, x, a, p, Stream!NoBlock, << >>),
                   Stream!Flat(EntryParts(es)),
                   Parser(f2, o2, c2, IF es = << >> THEN d ELSE Stream!Put(d, p, es), x, a, p,
                          Stream!NoBlock, << >>))
      BY Zenon, <1>1, <3>1, EntriesRead DEF EntryParts
    <3> QED BY <3>2, <3>3, <3>4
  <2>2. CASE p \notin DOMAIN diagnostics
    <3>1. D = << >> /\ d2 = d
      BY <2>2 DEF EntriesPart, WithEntries, Told
    <3> HIDE DEF D, d2, none
    <3> QED BY <3>1, ReadsNone
  <2> QED BY <2>1, <2>2
<1>11. Reads(Parser(f2, o2, c2, d2, x, a, p, none, << >>), << E >>,
             Parser(f2, o2, c2, d2, x, a, NoPath, none, << >>))
  <2>1. Stream!parse_line(Parser(f2, o2, c2, d2, x, a, p, none, << >>), E) =
          Parser(f2, o2, c2, d2, x, a, NoPath, none, << >>)
    <3> HIDE DEF f2, o2, c2, d2
    <3> QED BY EndFileLine
  <2> HIDE DEF E, none, f2, o2, c2, d2
  <2> QED BY <2>1, ReadsOne
<1>12. Stream!serialize_file(p) = ((((<< F, T >> \o B) \o C) \o D) \o << E >>)
  BY Zenon, FileParts
<1> HIDE DEF F, T, E, B, C, D, none, f1, f2, o2, c2, d2
<1> DEFINE s0 == Parser(f, o, c, d, x, a, NoPath, none, << >>)
           l0 == << F, T >>
           fl == << F >>
           tl == << T >>
           el == << E >>
<1>13. /\ l0 = fl \o tl /\ fl \in Seq(PromptLines) /\ tl \in Seq(PromptLines)
       /\ el \in Seq(PromptLines)
  BY Zenon, <1>2, TwoLines
<1>14. Reads(s0, fl, Parser(f1, o2, c, d, x, a, p, none, << >>))
  BY <1>5
<1>15. Reads(Parser(f1, o2, c, d, x, a, p, none, << >>), tl,
             Parser(f1, o2, c, d, x, a, p, T, << >>))
  BY <1>6
<1>16. Reads(Parser(f2, o2, c2, d2, x, a, p, none, << >>), el,
             Parser(f2, o2, c2, d2, x, a, NoPath, none, << >>))
  BY <1>11
<1>17. Stream!serialize_file(p) = (((l0 \o B) \o C) \o D) \o el
  BY <1>12
<1> HIDE DEF s0, l0, fl, tl, el
<1>18. Reads(s0, l0, Parser(f1, o2, c, d, x, a, p, T, << >>)) /\ l0 \in Seq(PromptLines)
  <2>1. fl \o tl \in Seq(PromptLines)
    BY <1>13
  <2> QED BY <1>13, <1>14, <1>15, <2>1, ReadsOn
<1> DEFINE l1 == l0 \o B
           l2 == l1 \o C
           l3 == l2 \o D
           l4 == l3 \o el
<1>19. l1 \in Seq(PromptLines) /\ l2 \in Seq(PromptLines) /\ l3 \in Seq(PromptLines)
       /\ l4 \in Seq(PromptLines)
  BY ONLY <1>4, <1>9, <1>10, <1>13, <1>18
<1>20. Reads(s0, l1, Parser(f2, o2, c, d, x, a, p, none, << >>))
  BY <1>4, <1>8, <1>18, ReadsOn
<1> HIDE DEF l1
<1>21. Reads(s0, l2, Parser(f2, o2, c2, d, x, a, p, none, << >>))
  BY <1>9, <1>19, <1>20, ReadsOn
<1> HIDE DEF l2
<1>22. Reads(s0, l3, Parser(f2, o2, c2, d2, x, a, p, none, << >>))
  BY <1>10, <1>19, <1>21, ReadsOn
<1> HIDE DEF l3
<1>23. Reads(s0, l4, Parser(f2, o2, c2, d2, x, a, NoPath, none, << >>))
  BY <1>13, <1>16, <1>19, <1>22, ReadsOn
<1>24. Stream!serialize_file(p) = l4
  BY ONLY <1>17 DEF l1, l2, l3, l4
<1> HIDE DEF l4
<1> QED BY <1>19, <1>23, <1>24 DEF s0, none, f2, o2, c2, d2

\* What is read back of a set of files.
FilesOf(S)   == [p \in DOMAIN files \cap S |-> files[p]]
CursorsOf(S) == [p \in DOMAIN cursors \cap S |-> cursors[p]]
EntriesOf(S) ==
  [p \in {q \in DOMAIN diagnostics \cap S : diagnostics[q] # << >>} |-> diagnostics[p]]

\* One file more.
LEMMA FilesGrow ==
  ASSUME NEW S, NEW p \in DOMAIN files, p \notin S
  PROVE  /\ FilesOf(S \cup {p}) = Stream!Put(FilesOf(S), p, files[p])
         /\ CursorsOf(S \cup {p}) = WithCursor(CursorsOf(S), p)
         /\ EntriesOf(S \cup {p}) = WithEntries(EntriesOf(S), p)
         /\ p \notin DOMAIN EntriesOf(S)
<1>1. FilesOf(S \cup {p}) = Stream!Put(FilesOf(S), p, files[p])
  <2>1. DOMAIN files \cap (S \cup {p}) = (DOMAIN files \cap S) \cup {p}
    OBVIOUS
  <2>2. DOMAIN FilesOf(S) = DOMAIN files \cap S
        /\ \A x \in DOMAIN files \cap S : FilesOf(S)[x] = files[x]
    BY DEF FilesOf
  <2>3. [x \in (DOMAIN files \cap S) \cup {p} |-> files[x]] =
          [x \in (DOMAIN files \cap S) \cup {p} |-> IF x = p THEN files[p] ELSE FilesOf(S)[x]]
    BY <2>2
  <2> QED BY <2>1, <2>2, <2>3 DEF FilesOf, Stream!Put
<1>2. CursorsOf(S \cup {p}) = WithCursor(CursorsOf(S), p)
  <2>1. DOMAIN CursorsOf(S) = DOMAIN cursors \cap S
        /\ \A x \in DOMAIN cursors \cap S : CursorsOf(S)[x] = cursors[x]
    BY DEF CursorsOf
  <2>2. CASE p \in DOMAIN cursors
    <3>1. DOMAIN cursors \cap (S \cup {p}) = (DOMAIN cursors \cap S) \cup {p}
      BY <2>2
    <3>2. [x \in (DOMAIN cursors \cap S) \cup {p} |-> cursors[x]] =
            [x \in (DOMAIN cursors \cap S) \cup {p} |->
               IF x = p THEN cursors[p] ELSE CursorsOf(S)[x]]
      BY <2>1
    <3>3. CursorsOf(S \cup {p}) = Stream!Put(CursorsOf(S), p, cursors[p])
      BY <2>1, <3>1, <3>2 DEF CursorsOf, Stream!Put
    <3> QED BY <2>2, <3>3 DEF WithCursor
  <2>3. CASE p \notin DOMAIN cursors
    <3>1. DOMAIN cursors \cap (S \cup {p}) = DOMAIN cursors \cap S
      BY <2>3
    <3> QED BY <2>3, <3>1 DEF WithCursor, CursorsOf
  <2> QED BY <2>2, <2>3
<1>3. DOMAIN EntriesOf(S) = {q \in DOMAIN diagnostics \cap S : diagnostics[q] # << >>}
      /\ \A x \in DOMAIN EntriesOf(S) : EntriesOf(S)[x] = diagnostics[x]
  BY DEF EntriesOf
<1>4. EntriesOf(S \cup {p}) = WithEntries(EntriesOf(S), p)
  <2> DEFINE old == {q \in DOMAIN diagnostics \cap S : diagnostics[q] # << >>}
             new == {q \in DOMAIN diagnostics \cap (S \cup {p}) : diagnostics[q] # << >>}
  <2>1. CASE Told(p)
    <3>1. new = old \cup {p}
      BY <2>1 DEF Told
    <3>2. EntriesOf(S \cup {p}) = [x \in new |-> diagnostics[x]]
      BY DEF EntriesOf
    <3>3. DOMAIN EntriesOf(S) = old /\ \A x \in old : EntriesOf(S)[x] = diagnostics[x]
      BY <1>3
    <3> HIDE DEF old, new
    <3>4. [x \in old \cup {p} |-> diagnostics[x]] =
            [x \in old \cup {p} |-> IF x = p THEN diagnostics[p] ELSE EntriesOf(S)[x]]
      BY <3>3
    <3>5. EntriesOf(S \cup {p}) = Stream!Put(EntriesOf(S), p, diagnostics[p])
      BY <3>1, <3>2, <3>3, <3>4 DEF Stream!Put
    <3> QED BY <2>1, <3>5 DEF WithEntries
  <2>2. CASE ~ Told(p)
    <3>1. new = old
      BY <2>2 DEF Told
    <3> QED BY <2>2, <3>1 DEF WithEntries, EntriesOf
  <2> QED BY <2>1, <2>2
<1> QED BY <1>1, <1>2, <1>3, <1>4

\* The types the text of a prompt relies on, besides those of the editor.
PromptTypes ==
  /\ EditorTypes
  /\ \A p \in DOMAIN diagnostics :
       diagnostics[p] \in Seq([start : 0 .. MaxBytes, end : 0 .. MaxBytes,
                               message : Seq(Stream!Glyphs)])
  /\ retrieved \in Seq([path : Paths, content : Seq(Stream!Glyphs)])
  /\ IsFiniteSet(DOMAIN completions)
  /\ completions = [k \in DOMAIN completions |-> completions[k]]

OpenPart == Stream!Flat([i \in DOMAIN open_files |-> Stream!serialize_file(open_files[i])])

\* The open files are read back.
LEMMA OpenRead ==
  ASSUME PromptTypes, NEW x, NEW a
  PROVE  LET S == Stream!ToSet(open_files) IN
         /\ OpenPart \in Seq(PromptLines)
         /\ Reads(Parser(Stream!Empty, << >>, Stream!Empty, Stream!Empty, x, a, NoPath,
                         Stream!NoBlock, << >>), OpenPart,
                  Parser(FilesOf(S), open_files, CursorsOf(S), EntriesOf(S), x, a, NoPath,
                         Stream!NoBlock, << >>))
<1> DEFINE n == Len(open_files)
           S(i) == {open_files[j] : j \in 1 .. i}
           none == Stream!NoBlock
           sub(i) == SubSeq(open_files, 1, i)
           P(i) == Parser(FilesOf(S(i)), sub(i), CursorsOf(S(i)), EntriesOf(S(i)), x, a, NoPath,
                          none, << >>)
           q == [i \in 0 .. n |-> P(i)]
           parts == [i \in DOMAIN open_files |-> Stream!serialize_file(open_files[i])]
<1>1. /\ n \in Nat /\ DOMAIN open_files = 1 .. n /\ open_files \in Seq(Paths)
      /\ \A i \in 1 .. n : open_files[i] \in Paths /\ open_files[i] \in DOMAIN files
  BY DEF PromptTypes, EditorTypes, Stream!ToSet
<1>2. \A i, j \in 1 .. n : open_files[i] = open_files[j] => i = j
  BY <1>1 DEF PromptTypes, EditorTypes, Stream!IsInjective
<1>3. \A i \in 1 .. n : S(i) = S(i - 1) \cup {open_files[i]} /\ open_files[i] \notin S(i - 1)
  <2> TAKE i \in 1 .. n
  <2>1. 1 .. i = (1 .. i - 1) \cup {i} /\ i \notin 1 .. i - 1 /\ 1 .. i - 1 \subseteq 1 .. n
    BY <1>1
  <2> HIDE DEF n
  <2>2. S(i) = S(i - 1) \cup {open_files[i]}
    BY ONLY <2>1
  <2>3. open_files[i] \notin S(i - 1)
    BY <1>2, <2>1
  <2> QED BY <2>2, <2>3
<1>4. \A i \in 1 .. n : sub(i) = Append(sub(i - 1), open_files[i])
  <2> TAKE i \in 1 .. n
  <2> QED BY <1>1, OneMore
<1>5. \A i \in 1 .. n : Stream!ToSet(sub(i - 1)) = S(i - 1)
  <2> TAKE i \in 1 .. n
  <2>1. DOMAIN sub(i - 1) = 1 .. i - 1 /\ \A j \in 1 .. i - 1 : sub(i - 1)[j] = open_files[j]
    BY <1>1
  <2> HIDE DEF sub
  <2> QED BY <2>1 DEF Stream!ToSet
<1>6. sub(n) = open_files /\ sub(0) = << >> /\ S(0) = {} /\ S(n) = Stream!ToSet(open_files)
  <2>1. sub(n) = open_files /\ sub(0) = << >>
    BY <1>1
  <2>2. S(0) = {} /\ S(n) = Stream!ToSet(open_files)
    BY <1>1 DEF Stream!ToSet
  <2> QED BY <2>1, <2>2
<1>7. FilesOf({}) = Stream!Empty /\ CursorsOf({}) = Stream!Empty /\ EntriesOf({}) = Stream!Empty
  BY DEF FilesOf, CursorsOf, EntriesOf, Stream!Empty
<1>8. \A i \in 0 .. n : q[i] = P(i)
  OBVIOUS
<1> HIDE DEF q, n, S, sub
<1>9. ASSUME NEW i \in 1 .. n
      PROVE  /\ Stream!serialize_file(open_files[i]) \in Seq(PromptLines)
             /\ Reads(P(i - 1), Stream!serialize_file(open_files[i]), P(i))
  <2> DEFINE p == open_files[i]
             T == S(i - 1)
             f == FilesOf(T)
             c == CursorsOf(T)
             d == EntriesOf(T)
             o == sub(i - 1)
  <2>1. p \in Paths /\ p \in DOMAIN files /\ files[p] \in Seq(Stream!Glyphs)
    BY <1>1 DEF PromptTypes, EditorTypes
  <2>2. p \notin T /\ S(i) = T \cup {p} /\ p \notin Stream!ToSet(o) /\ sub(i) = Append(o, p)
    BY <1>3, <1>4, <1>5
  <2>3. p \in DOMAIN diagnostics =>
          diagnostics[p] \in Seq([start : 0 .. MaxBytes, end : 0 .. MaxBytes,
                                  message : Seq(Stream!Glyphs)])
    BY Zenon DEF PromptTypes
  <2> HIDE DEF p, T, o
  <2>4. /\ FilesOf(S(i)) = Stream!Put(f, p, files[p]) /\ CursorsOf(S(i)) = WithCursor(c, p)
        /\ EntriesOf(S(i)) = WithEntries(d, p) /\ p \notin DOMAIN d
    BY Zenon, <2>1, <2>2, FilesGrow
  <2> HIDE DEF f, c, d, none
  <2>5. /\ Stream!serialize_file(p) \in Seq(PromptLines)
        /\ Reads(Parser(f, o, c, d, x, a, NoPath, Stream!NoBlock, << >>),
                 Stream!serialize_file(p),
                 Parser(Stream!Put(f, p, files[p]), Append(o, p), WithCursor(c, p),
                        WithEntries(d, p), x, a, NoPath, Stream!NoBlock, << >>))
    BY Zenon, <2>1, <2>2, <2>3, <2>4, FileRead
  <2>6. P(i - 1) = Parser(f, o, c, d, x, a, NoPath, Stream!NoBlock, << >>)
    BY DEF f, o, c, d, T, none
  <2>7. P(i) = Parser(Stream!Put(f, p, files[p]), Append(o, p), WithCursor(c, p),
                      WithEntries(d, p), x, a, NoPath, Stream!NoBlock, << >>)
    BY <2>2, <2>4 DEF none
  <2> HIDE DEF P
  <2> QED BY <2>5, <2>6, <2>7 DEF p
<1>10. /\ parts \in Seq(Seq(PromptLines)) /\ Len(parts) = n
       /\ \A i \in 1 .. n : parts[i] = Stream!serialize_file(open_files[i])
  <2> HIDE DEF P
  <2>1. \A i \in 1 .. n : Stream!serialize_file(open_files[i]) \in Seq(PromptLines)
    BY <1>9
  <2> QED BY <1>1, <2>1
<1> HIDE DEF parts
<1>11. \A i \in 1 .. n : Reads(q[i - 1], parts[i], q[i])
  <2> TAKE i \in 1 .. n
  <2>1. i - 1 \in 0 .. n /\ i \in 0 .. n
    BY <1>1
  <2> HIDE DEF P
  <2> QED BY <1>8, <1>9, <1>10, <2>1
<1>12. Stream!Flat(parts) \in Seq(PromptLines) /\ Reads(q[0], Stream!Flat(parts), q[n])
  BY Zenon, <1>10, <1>11, FlatRead
<1>13. 0 \in 0 .. n /\ n \in 0 .. n
  BY <1>1
<1>14. q[0] = Parser(Stream!Empty, << >>, Stream!Empty, Stream!Empty, x, a, NoPath, none, << >>)
  BY Zenon, <1>6, <1>7, <1>8, <1>13
<1>15. q[n] = Parser(FilesOf(Stream!ToSet(open_files)), open_files,
                     CursorsOf(Stream!ToSet(open_files)), EntriesOf(Stream!ToSet(open_files)),
                     x, a, NoPath, none, << >>)
  BY <1>6, <1>8, <1>13
<1> QED BY <1>12, <1>14, <1>15 DEF OpenPart, parts

ContextsPart ==
  Stream!Flat([i \in DOMAIN retrieved |->
    << [tag |-> "X", path |-> retrieved[i].path] >> \o Stream!Block(retrieved[i].content, "</X>")])

TagX(p) == [tag |-> "X", path |-> p]
ContextOf(p, text) == [path |-> p, content |-> text]

\* A retrieved context is read back.
LEMMA ContextRead ==
  ASSUME NEW f, NEW o, NEW c, NEW d, NEW x, NEW a, NEW p \in Paths,
         NEW text \in Seq(Stream!Glyphs)
  PROVE  Reads(Parser(f, o, c, d, x, a, NoPath, Stream!NoBlock, << >>),
               << TagX(p) >> \o Stream!Block(text, "</X>"),
               Parser(f, o, c, d, Append(x, ContextOf(p, text)), a, NoPath,
                      Stream!NoBlock, << >>))
<1> DEFINE b == TagX(p)
           new == Append(x, ContextOf(p, text))
<1>1. Stream!parse_line(Parser(f, o, c, d, x, a, NoPath, Stream!NoBlock, << >>), b) =
        Parser(f, o, c, d, x, a, NoPath, b, << >>)
  BY ContextLine DEF TagX
<1>2. Stream!take_block(Parser(f, o, c, d, x, a, NoPath, b, BlockLines(text))) =
        Parser(f, o, c, d, new, a, NoPath, Stream!NoBlock, << >>)
  BY TakenContext DEF TagX, ContextOf
<1>3. b \in PromptLines
  BY Zenon, LinesThere DEF TagX
<1>4. b # Stream!NoBlock /\ Stream!EndOf(b) = Stream!End("</X>") /\ "</X>" \in Marks
  BY Zenon, Ends, TagsAreBlocks DEF Marks, TagX
<1> HIDE DEF b, new
<1>5. Reads(Parser(f, o, c, d, x, a, NoPath, Stream!NoBlock, << >>),
            << b >> \o Stream!Block(text, "</X>"),
            Parser(f, o, c, d, new, a, NoPath, Stream!NoBlock, << >>))
  BY <1>1, <1>2, <1>3, <1>4, TagAndBlock
<1> QED BY <1>5 DEF b, new

\* The retrieved contexts are read back.
LEMMA ContextsRead ==
  ASSUME PromptTypes, NEW f, NEW o, NEW c, NEW d, NEW a
  PROVE  /\ ContextsPart \in Seq(PromptLines)
         /\ Reads(Parser(f, o, c, d, << >>, a, NoPath, Stream!NoBlock, << >>), ContextsPart,
                  Parser(f, o, c, d, retrieved, a, NoPath, Stream!NoBlock, << >>))
<1> DEFINE n == Len(retrieved)
           sub(i) == SubSeq(retrieved, 1, i)
           part(i) == << TagX(retrieved[i].path) >> \o Stream!Block(retrieved[i].content, "</X>")
           parts == [i \in DOMAIN retrieved |-> part(i)]
           P(i) == Parser(f, o, c, d, sub(i), a, NoPath, Stream!NoBlock, << >>)
           q == [i \in 0 .. n |-> P(i)]
           R == [path : Paths, content : Seq(Stream!Glyphs)]
<1>1. /\ n \in Nat /\ DOMAIN retrieved = 1 .. n /\ retrieved \in Seq(R)
      /\ \A i \in 1 .. n : retrieved[i] \in R
  <2>1. retrieved \in Seq(R)
    BY DEF PromptTypes
  <2> HIDE DEF R
  <2> QED BY <2>1
<1>2. \A i \in 1 .. n :
        /\ retrieved[i].path \in Paths /\ retrieved[i].content \in Seq(Stream!Glyphs)
        /\ retrieved[i] = ContextOf(retrieved[i].path, retrieved[i].content)
  BY <1>1 DEF ContextOf
<1> HIDE DEF R
<1>3. \A i \in 1 .. n : sub(i) = Append(sub(i - 1), retrieved[i])
  <2> TAKE i \in 1 .. n
  <2> QED BY <1>1, OneMore
<1>4. sub(n) = retrieved /\ sub(0) = << >>
  BY <1>1
<1>5. \A i \in 0 .. n : q[i] = P(i)
  OBVIOUS
<1> HIDE DEF q, n, sub
<1>6. ASSUME NEW i \in 1 .. n
      PROVE  part(i) \in Seq(PromptLines) /\ Reads(P(i - 1), part(i), P(i))
  <2> DEFINE p == retrieved[i].path
             text == retrieved[i].content
             x == sub(i - 1)
             b == TagX(p)
             B == Stream!Block(text, "</X>")
  <2>1. p \in Paths /\ text \in Seq(Stream!Glyphs) /\ sub(i) = Append(x, ContextOf(p, text))
    BY <1>2, <1>3
  <2>2. part(i) = << b >> \o B
    OBVIOUS
  <2> HIDE DEF p, text, x
  <2>3. B \in Seq(PromptLines)
    BY <2>1, BlockTyped DEF Marks
  <2>4. b \in PromptLines
    BY Zenon, <2>1, LinesThere DEF TagX
  <2>5. Reads(Parser(f, o, c, d, x, a, NoPath, Stream!NoBlock, << >>), << b >> \o B,
              Parser(f, o, c, d, Append(x, ContextOf(p, text)), a, NoPath,
                     Stream!NoBlock, << >>))
    BY <2>1, ContextRead
  <2>6. /\ P(i - 1) = Parser(f, o, c, d, x, a, NoPath, Stream!NoBlock, << >>)
        /\ P(i) = Parser(f, o, c, d, Append(x, ContextOf(p, text)), a, NoPath,
                         Stream!NoBlock, << >>)
    BY <2>1 DEF x
  <2> HIDE DEF b, B, P, part
  <2>7. << b >> \o B \in Seq(PromptLines)
    BY <2>3, <2>4
  <2> QED BY <2>2, <2>5, <2>6, <2>7
<1> HIDE DEF P, part
<1>7. parts \in Seq(Seq(PromptLines)) /\ Len(parts) = n /\ \A i \in 1 .. n : parts[i] = part(i)
  <2>1. \A i \in 1 .. n : part(i) \in Seq(PromptLines)
    BY <1>6
  <2> QED BY <1>1, <2>1
<1> HIDE DEF parts
<1>8. \A i \in 1 .. n : Reads(q[i - 1], parts[i], q[i])
  <2> TAKE i \in 1 .. n
  <2>1. i - 1 \in 0 .. n /\ i \in 0 .. n
    BY <1>1
  <2> QED BY <1>5, <1>6, <1>7, <2>1
<1>9. Stream!Flat(parts) \in Seq(PromptLines) /\ Reads(q[0], Stream!Flat(parts), q[n])
  BY Zenon, <1>7, <1>8, FlatRead
<1>10. 0 \in 0 .. n /\ n \in 0 .. n
  BY <1>1
<1>11. /\ q[0] = Parser(f, o, c, d, << >>, a, NoPath, Stream!NoBlock, << >>)
       /\ q[n] = Parser(f, o, c, d, retrieved, a, NoPath, Stream!NoBlock, << >>)
  BY <1>4, <1>5, <1>10 DEF P
<1>12. ContextsPart = Stream!Flat(parts)
  BY DEF ContextsPart, parts, part, TagX
<1> QED BY <1>9, <1>11, <1>12

\* The ids of a finite set, each once.
LEMMA IdsOnce ==
  ASSUME NEW S, IsFiniteSet(S), NEW ids, ids = Stream!SetToSeq(S)
  PROVE  \E n \in Nat : /\ ids \in [1 .. n -> S] /\ \A k \in S : \E i \in 1 .. n : ids[i] = k
                        /\ \A i, j \in 1 .. n : ids[i] = ids[j] => i = j
<1> DEFINE n == Cardinality(S)
<1>1. n \in Nat /\ ExistsBijection(1 .. n, S)
  BY FS_CardinalityType
<1>2. PICK b : b \in Bijection(1 .. n, S)
  BY <1>1 DEF ExistsBijection
<1>3. b \in [1 .. n -> S] /\ Stream!IsInjective(b)
  BY <1>2 DEF Bijection, Injection, IsInjective, Stream!IsInjective
<1>4. ids = CHOOSE g \in [1 .. n -> S] : Stream!IsInjective(g)
  BY DEF Stream!SetToSeq, Stream!Cardinality, Cardinality
<1>5. ids \in [1 .. n -> S] /\ Stream!IsInjective(ids)
  <2> HIDE DEF n
  <2> QED BY <1>3, <1>4
<1>6. IsFiniteSet(1 .. n) /\ Cardinality(1 .. n) = n
  BY <1>1, FS_Interval
<1>7. ids \in Injection(1 .. n, S)
  BY <1>5 DEF Injection, IsInjective, Stream!IsInjective
<1>8. ids \in Surjection(1 .. n, S)
  BY <1>6, <1>7, FS_Injection
<1> HIDE DEF n
<1> QED BY <1>1, <1>5, <1>8 DEF Surjection, Stream!IsInjective

TagA(k)     == [tag |-> "A", id |-> k, status |-> completions[k]]
AnswersPart ==
  LET ids == Stream!SetToSeq(DOMAIN completions) IN [i \in DOMAIN ids |-> TagA(ids[i])]

\* The answers are read back, whatever order they are written in.
LEMMA AnswersRead ==
  ASSUME PromptTypes, NEW f, NEW o, NEW c, NEW d, NEW x
  PROVE  /\ AnswersPart \in Seq(PromptLines)
         /\ Reads(Parser(f, o, c, d, x, Stream!Empty, NoPath, Stream!NoBlock, << >>), AnswersPart,
                  Parser(f, o, c, d, x, completions, NoPath, Stream!NoBlock, << >>))
<1> DEFINE K == DOMAIN completions
           ids == Stream!SetToSeq(K)
           T(i) == {ids[j] : j \in 1 .. i}
           A(i) == [k \in T(i) |-> completions[k]]
           P(i) == Parser(f, o, c, d, x, A(i), NoPath, Stream!NoBlock, << >>)
<1>1. IsFiniteSet(K) /\ completions = [k \in K |-> completions[k]]
  BY DEF PromptTypes
<1>2. PICK n \in Nat : /\ ids \in [1 .. n -> K] /\ \A k \in K : \E i \in 1 .. n : ids[i] = k
                       /\ \A i, j \in 1 .. n : ids[i] = ids[j] => i = j
  <2> HIDE DEF K, ids
  <2> QED BY <1>1, IdsOnce DEF ids
<1>3. AnswersPart = [i \in 1 .. n |-> TagA(ids[i])]
  BY <1>2 DEF AnswersPart
<1> DEFINE q == [i \in 0 .. n |-> P(i)]
<1> HIDE DEF K, ids
<1>4. T(0) = {} /\ T(n) = K
  BY <1>2
<1>5. \A i \in 1 .. n : ids[i] \in K /\ T(i) = T(i - 1) \cup {ids[i]}
  <2> TAKE i \in 1 .. n
  <2>1. 1 .. i = (1 .. i - 1) \cup {i} /\ i \notin 1 .. i - 1 /\ 1 .. i - 1 \subseteq 1 .. n
    BY <1>2
  <2>2. T(i) = T(i - 1) \cup {ids[i]}
    BY ONLY <2>1
  <2> QED BY <1>2, <2>2
<1> HIDE DEF T
<1>6. A(0) = Stream!Empty /\ A(n) = completions
  BY <1>1, <1>4 DEF Stream!Empty
<1>7. \A i \in 1 .. n : A(i) = Stream!Put(A(i - 1), ids[i], completions[ids[i]])
  <2> TAKE i \in 1 .. n
  <2> DEFINE k == ids[i]
             S == T(i - 1)
             g == A(i - 1)
  <2>1. T(i) = S \cup {k}
    BY <1>5
  <2>2. DOMAIN g = S /\ \A y \in S : g[y] = completions[y]
    OBVIOUS
  <2> HIDE DEF k, S, g
  <2>3. [y \in S \cup {k} |-> completions[y]] =
          [y \in S \cup {k} |-> IF y = k THEN completions[k] ELSE g[y]]
    BY <2>2
  <2>4. A(i) = Stream!Put(g, k, completions[k])
    BY <2>1, <2>2, <2>3 DEF Stream!Put
  <2> QED BY <2>4 DEF g, k
<1> HIDE DEF A
<1>8. \A i \in 1 .. n : Stream!parse_line(P(i - 1), TagA(ids[i])) = P(i)
  <2> TAKE i \in 1 .. n
  <2> DEFINE k == ids[i]
             a == A(i - 1)
             s == completions[k]
  <2>1. A(i) = Stream!Put(a, k, s)
    BY <1>7
  <2> HIDE DEF a, k, s
  <2>2. Stream!parse_line(Parser(f, o, c, d, x, a, NoPath, Stream!NoBlock, << >>),
                          [tag |-> "A", id |-> k, status |-> s]) =
          Parser(f, o, c, d, x, Stream!Put(a, k, s), NoPath, Stream!NoBlock, << >>)
    BY AnswerLine
  <2>3. TagA(ids[i]) = [tag |-> "A", id |-> k, status |-> s]
    BY DEF TagA, k, s
  <2> QED BY <2>1, <2>2, <2>3 DEF a
<1> HIDE DEF P
<1>9. \A i \in 1 .. n : q[i] = Stream!parse_line(q[i - 1], AnswersPart[i])
  <2> TAKE i \in 1 .. n
  <2>1. i - 1 \in 0 .. n /\ i \in 0 .. n
    BY <1>2
  <2>2. q[i] = P(i) /\ q[i - 1] = P(i - 1)
    BY <2>1
  <2>3. AnswersPart[i] = TagA(ids[i])
    BY <1>3
  <2> HIDE DEF q
  <2> QED BY <1>8, <2>2, <2>3
<1>10. AnswersPart \in Seq(PromptLines) /\ Len(AnswersPart) = n
  <2>1. \A k \in K : TagA(k) \in PromptLines
    BY LinesThere DEF TagA, K
  <2>2. \A i \in 1 .. n : TagA(ids[i]) \in PromptLines
    BY <1>5, <2>1
  <2> QED BY <1>2, <1>3, <2>2
<1>11. q[0] = P(0) /\ q[n] = P(n)
  BY <1>2
<1> HIDE DEF q
<1>12. Reads(P(0), AnswersPart, P(n))
  BY <1>9, <1>10, <1>11 DEF Reads
<1> QED BY <1>6, <1>10, <1>12 DEF P

\* What the parser ends with.
ReadBack ==
  LET S == Stream!ToSet(open_files) IN
  Asked(Parser(FilesOf(S), open_files, CursorsOf(S), EntriesOf(S), retrieved, completions,
               NoPath, Stream!NoBlock, << >>), last_predict)

\* The state is written part by part.
LEMMA StateParts ==
  Stream!serialize_state =
    ((OpenPart \o ContextsPart) \o AnswersPart) \o << TagP(last_predict) >>
  BY DEF TagP, Stream!serialize_state, OpenPart, ContextsPart, AnswersPart, TagA

\* The prompt as a whole is read back.
LEMMA PromptRead ==
  ASSUME PromptTypes
  PROVE  Stream!parse_serialized(Stream!serialize_state) = ReadBack
<1> DEFINE S == Stream!ToSet(open_files)
           f == FilesOf(S)
           o == open_files
           c == CursorsOf(S)
           d == EntriesOf(S)
           x == retrieved
           none == Stream!NoBlock
           e == Stream!Empty
           l == TagP(last_predict)
           pl == << l >>
           s0 == Parser(e, << >>, e, e, << >>, e, NoPath, none, << >>)
           s1 == Parser(f, o, c, d, << >>, e, NoPath, none, << >>)
           s2 == Parser(f, o, c, d, x, e, NoPath, none, << >>)
           s3 == Parser(f, o, c, d, x, completions, NoPath, none, << >>)
<1>1. OpenPart \in Seq(PromptLines) /\ Reads(s0, OpenPart, s1)
  BY OpenRead
<1> HIDE DEF f, o, c, d, x, e, S
<1>2. ContextsPart \in Seq(PromptLines) /\ Reads(s1, ContextsPart, s2)
  BY ContextsRead DEF x
<1>3. AnswersPart \in Seq(PromptLines) /\ Reads(s2, AnswersPart, s3)
  BY AnswersRead DEF e
<1>4. Stream!parse_line(s3, l) = Asked(s3, last_predict)
  BY RequestLine
<1>5. ReadBack = Asked(s3, last_predict)
  BY DEF ReadBack, f, o, c, d, x, S
<1>6. l \in PromptLines
  BY LinesThere DEF TagP
<1>7. Stream!Fresh = s0
  BY FreshIs DEF e
<1>8. ReadBack.block = none
  BY <1>5 DEF Parser, Asked
<1>9. Stream!serialize_state = ((OpenPart \o ContextsPart) \o AnswersPart) \o pl
  BY StateParts
<1> HIDE DEF l, s0, s1, s2, s3
<1>10. pl \in Seq(PromptLines) /\ Reads(s3, pl, ReadBack)
  <2>1. Reads(s3, << l >>, ReadBack)
    BY <1>4, <1>5, ReadsOne
  <2> QED BY <1>6, <2>1
<1> HIDE DEF pl
<1> DEFINE l1 == OpenPart \o ContextsPart
           l2 == l1 \o AnswersPart
           l3 == l2 \o pl
<1>11. l1 \in Seq(PromptLines) /\ l2 \in Seq(PromptLines) /\ l3 \in Seq(PromptLines)
  BY ONLY <1>1, <1>2, <1>3, <1>10
<1>12. Reads(s0, l1, s2)
  BY <1>1, <1>2, ReadsOn
<1> HIDE DEF l1
<1>13. Reads(s0, l2, s3)
  BY <1>3, <1>11, <1>12, ReadsOn
<1> HIDE DEF l2
<1>14. Reads(s0, l3, ReadBack)
  BY <1>10, <1>11, <1>13, ReadsOn
<1>15. Stream!serialize_state = l3
  BY ONLY <1>9 DEF l1, l2, l3
<1> HIDE DEF l3
<1>16. Parsed(Stream!serialize_state) = ReadBack
  BY <1>7, <1>11, <1>14, <1>15, ReadsAll
<1> HIDE DEF none
<1> QED BY <1>8, <1>16, ParseUnfolds DEF none

\* It is the state that was written.
LEMMA ReadBackIs == ASSUME PromptTypes PROVE Stream!RoundTrip
<1> DEFINE S == Stream!ToSet(open_files)
           told == Stream!Shown(diagnostics)
           back == Stream!parse_serialized(Stream!serialize_state)
<1>1. back = ReadBack
  BY PromptRead
<1>2. /\ ReadBack.error = FALSE /\ ReadBack.files = FilesOf(S)
      /\ ReadBack.open_files = open_files /\ ReadBack.cursors = CursorsOf(S)
      /\ ReadBack.diagnostics = EntriesOf(S) /\ ReadBack.retrieved = retrieved
      /\ ReadBack.completions = completions /\ ReadBack.last_predict = last_predict
  BY DEF ReadBack, Parser, Asked
<1>3. FilesOf(S) = Stream!Shown(files) /\ CursorsOf(S) = Stream!Shown(cursors)
  BY DEF FilesOf, CursorsOf, Stream!Shown
<1>4. EntriesOf(S) = [p \in {q \in DOMAIN told : told[q] # << >>} |-> told[p]]
  <2>1. DOMAIN told = DOMAIN diagnostics \cap S /\ \A p \in DOMAIN told : told[p] = diagnostics[p]
    BY DEF Stream!Shown
  <2> HIDE DEF told, S
  <2>2. {q \in DOMAIN diagnostics \cap S : diagnostics[q] # << >>} =
          {q \in DOMAIN told : told[q] # << >>}
    BY <2>1
  <2> QED BY <2>1, <2>2 DEF EntriesOf
<1> HIDE DEF back, told, S
<1> QED BY <1>1, <1>2, <1>3, <1>4 DEF Stream!RoundTrip, back, told

\* The types the text relies on hold at first and whatever event comes.
LEMMA PromptStarts == ASSUME Stream!ProtocolInit, EditorTypes PROVE PromptTypes
<1>1. diagnostics = Stream!Empty /\ retrieved = << >> /\ completions = Stream!Empty
  BY DEF Stream!ProtocolInit
<1>2. DOMAIN Stream!Empty = {} /\ Stream!Empty = [k \in DOMAIN Stream!Empty |-> Stream!Empty[k]]
  BY DEF Stream!Empty
<1>3. IsFiniteSet({})
  BY FS_EmptySet
<1> QED BY <1>1, <1>2, <1>3 DEF PromptTypes

\* An event keeps them.
LEMMA PromptKeeps == ASSUME PromptTypes, Stream!apply_event PROVE PromptTypes'
<1> DEFINE E == [start : 0 .. MaxBytes, end : 0 .. MaxBytes, message : Seq(Stream!Glyphs)]
           R == [path : Paths, content : Seq(Stream!Glyphs)]
<1>1. EditorTypes'
  BY EventKeeps DEF PromptTypes
<1>2. /\ \A p \in DOMAIN diagnostics : diagnostics[p] \in Seq(E)
      /\ retrieved \in Seq(R) /\ IsFiniteSet(DOMAIN completions)
      /\ completions = [k \in DOMAIN completions |-> completions[k]]
  BY Zenon DEF PromptTypes
<1> DEFINE Rest == /\ \A p \in DOMAIN diagnostics : diagnostics[p] \in Seq(E)
                   /\ retrieved \in Seq(R) /\ IsFiniteSet(DOMAIN completions)
                   /\ completions = [k \in DOMAIN completions |-> completions[k]]
<1>3. ASSUME Rest' PROVE PromptTypes'
  BY Zenon, <1>1, <1>3 DEF PromptTypes
<1>4. ASSUME UNCHANGED << diagnostics, retrieved, completions >> PROVE Rest'
  BY Zenon, <1>2, <1>4
<1>5. ASSUME NEW p, NEW es \in Seq(E), Stream!Diagnostics(p, es) PROVE Rest'
  <2>1. diagnostics' = Stream!Put(diagnostics, p, es) /\ UNCHANGED << retrieved, completions >>
    BY <1>5 DEF Stream!Diagnostics
  <2>2. /\ DOMAIN diagnostics' = DOMAIN diagnostics \cup {p} /\ diagnostics'[p] = es
        /\ \A x \in DOMAIN diagnostics \ {p} : diagnostics'[x] = diagnostics[x]
    BY <2>1 DEF Stream!Put
  <2> HIDE DEF E, R
  <2> QED BY <1>2, <1>5, <2>1, <2>2
<1>6. \A offset \in 0 .. MaxBytes : \A message \in Messages :
        << [start |-> 0, end |-> offset, message |-> message] >> \in Seq(E)
  <2> TAKE offset \in 0 .. MaxBytes
  <2> TAKE message \in Messages
  <2> DEFINE e == [start |-> 0, end |-> offset, message |-> message]
  <2>1. e \in E
    BY StreamOK, TextsOK
  <2> HIDE DEF e, E
  <2>2. << e >> \in Seq(E)
    BY <2>1
  <2> QED BY <2>2 DEF e
<1>7. ASSUME NEW p \in Paths, NEW content \in Messages, Stream!Retrieve(p, content) PROVE Rest'
  <2> DEFINE r == [path |-> p, content |-> content]
  <2>1. r \in R
    BY TextsOK
  <2>2. retrieved' = Append(retrieved, r) /\ UNCHANGED << diagnostics, completions >>
    BY <1>7 DEF Stream!Retrieve
  <2> HIDE DEF r, R, E
  <2>3. retrieved' \in Seq(R)
    BY <1>2, <2>1, <2>2
  <2> QED BY <1>2, <2>2, <2>3
<1>8. ASSUME NEW id, NEW status, Stream!Complete(id, status) PROVE Rest'
  <2>1. completions' = Stream!Put(completions, id, status) /\ UNCHANGED << diagnostics, retrieved >>
    BY <1>8 DEF Stream!Complete
  <2>2. /\ DOMAIN completions' = DOMAIN completions \cup {id}
        /\ completions' = [k \in DOMAIN completions' |-> completions'[k]]
    BY <2>1 DEF Stream!Put
  <2>3. IsFiniteSet(DOMAIN completions')
    BY <1>2, <2>2, FS_AddElement
  <2> HIDE DEF R, E
  <2> QED BY <1>2, <2>1, <2>2, <2>3
<1>9. << >> \in Seq(E)
  OBVIOUS
<1> DEFINE other == UNCHANGED << diagnostics, retrieved, completions >>
<1>10. ASSUME NEW p, Stream!OpenFile(p) \/ Stream!CloseFile(p) PROVE other
  BY <1>10 DEF Stream!OpenFile, Stream!CloseFile
<1>11. ASSUME NEW p, NEW text, Stream!Snapshot(p, text) PROVE other
  BY <1>11 DEF Stream!Snapshot
<1>12. ASSUME NEW p, NEW start, NEW end, NEW text, Stream!Splice(p, start, end, text) PROVE other
  BY <1>12 DEF Stream!Splice
<1>13. ASSUME NEW p, NEW offset, Stream!Cursor(p, offset) \/ Stream!Predict(p, offset)
       PROVE  other
  BY <1>13 DEF Stream!Cursor, Stream!Predict
<1> HIDE DEF Rest, E, R
<1>14. other => Rest'
  BY <1>4
<1> HIDE DEF other
<1> QED
  BY Zenon, <1>3, <1>5, <1>6, <1>7, <1>8, <1>9, <1>10, <1>11, <1>12, <1>13, <1>14
     DEF Stream!apply_event

\* Whatever the texts contain, the lines that end a block and backslashes
\* included, what parse_serialized reads back from the text of the prompt is the
\* state that was written: its open files with their cursors and diagnostics, the
\* contexts, the completions and the request (serialize.py serialize_state,
\* parse_serialized).
THEOREM PromptsReadBack == Spec => []RoundTrip
<1> DEFINE Inv == tool = "stream" => PromptTypes
<1>1. Init => Inv
  <2> SUFFICES ASSUME Init PROVE PromptTypes
    OBVIOUS
  <2>1. Stream!ProtocolInit
    BY DEF Init
  <2>2. EditorTypes
    BY <2>1, StreamStarts DEF StreamTypes
  <2> QED BY <2>1, <2>2, PromptStarts
<1>2. Inv /\ [Next]_vars => Inv'
  <2> SUFFICES ASSUME Inv, [Next]_vars PROVE Inv'
    OBVIOUS
  <2>1. CASE /\ tool = "stream" /\ Stream!ReplayEvent
             /\ UNCHANGED << tool, sample, harnessVars, replayVars >>
    <3>1. PromptTypes /\ tool' = tool
      BY <2>1
    <3>2. CASE Stream!apply_event
      BY <3>1, <3>2, PromptKeeps
    <3>3. CASE UNCHANGED Stream!editor
      BY Zenon, <3>1, <3>3 DEF PromptTypes, EditorTypes, Stream!editor
    <3> QED BY <2>1, <3>2, <3>3 DEF Stream!ReplayEvent
  <2>2. CASE tool \in {"harness", "replay"} /\ UNCHANGED << tool, streamVars >>
    BY <2>2
  <2>3. CASE UNCHANGED vars
    <3>1. UNCHANGED << tool, streamVars >>
      BY <2>3 DEF vars
    <3>2. PromptTypes => PromptTypes'
      BY Zenon, <3>1 DEF streamVars, PromptTypes, EditorTypes
    <3> QED BY <3>1, <3>2
  <2> QED BY <2>1, <2>2, <2>3 DEF Next
<1>3. Inv => RoundTrip
  BY ReadBackIs DEF RoundTrip
<1> HIDE DEF Inv
<1> QED BY <1>1, <1>2, <1>3, PTL DEF Spec

\* An item is taken if it is in keep.
SelectStep(X, s, keep, t, i) == IF s[i] \in keep THEN Append(t, s[i]) ELSE t

\* The recursion inside Select.
SelectRec(X, s, keep, h) ==
  h = [d \in SUBSET DOMAIN s |->
         IF d = {} THEN << >> ELSE SelectStep(X, s, keep, h[d \ {Max(d)}], Max(d))]

\* Select is its recursion.
LEMMA SelectUnfolds ==
  ASSUME NEW X, NEW s, NEW keep
  PROVE  Data!Select(s, keep) = (CHOOSE h : SelectRec(X, s, keep, h))[DOMAIN s]
  BY DEF Data!Select, Data!FoldLeft, Data!MapThenFoldSet, Data!Max, Max,
         SelectRec, SelectStep

\* Its values after each item.
SelectRun(X, s, keep, r) ==
  /\ r \in [0 .. Len(s) -> Seq(X)] /\ r[0] = << >> /\ r[Len(s)] = Data!Select(s, keep)
  /\ \A i \in 1 .. Len(s) : r[i] = SelectStep(X, s, keep, r[i - 1], i)

\* It is carried out item by item.
LEMMA SelectHasRun ==
  ASSUME NEW X, NEW s \in Seq(X), NEW keep
  PROVE  \E r : SelectRun(X, s, keep, r)
<1> DEFINE n == Len(s)
           W == Seq(X)
           base == << >>
           G == [p \in (1 .. n) \X W |-> SelectStep(X, s, keep, p[2], p[1])]
<1>1. n \in Nat /\ DOMAIN s = 1 .. n
  OBVIOUS
<1>2. base \in W
  OBVIOUS
<1>3. \A i \in 1 .. n, t \in W : SelectStep(X, s, keep, t, i) \in W
  BY DEF SelectStep
<1> HIDE DEF n, W
<1>4. G \in [(1 .. n) \X W -> W]
  BY <1>3
<1>5. \A i \in 1 .. n, t \in W : G[<< i, t >>] = SelectStep(X, s, keep, t, i)
  OBVIOUS
<1> HIDE DEF G, base
<1>6. PICK h, r : FoldRun(n, W, base, G, h, r)
  BY ONLY <1>1, <1>2, <1>4, FoldSteps
<1>7. /\ h \in [SUBSET (1 .. n) -> W] /\ r \in [0 .. n -> W]
      /\ Fold(base, G, 1 .. n, h) /\ r[0] = base
      /\ \A j \in 1 .. n : r[j] = G[<< j, r[j - 1] >>]
  BY ONLY <1>6 DEF FoldRun
<1>8. \A d \in SUBSET (1 .. n) : d # {} => Max(d) \in 1 .. n /\ d \ {Max(d)} \in SUBSET (1 .. n)
  BY <1>1, IndexIn
<1>9. SelectRec(X, s, keep, h)
  <2>1. h = [d \in SUBSET (1 .. n) |->
               IF d = {} THEN base ELSE G[<< Max(d), h[d \ {Max(d)}] >>]]
    BY <1>7 DEF Fold
  <2>2. ASSUME NEW d \in SUBSET (1 .. n), d # {}
        PROVE  G[<< Max(d), h[d \ {Max(d)}] >>] = SelectStep(X, s, keep, h[d \ {Max(d)}], Max(d))
    <3>1. Max(d) \in 1 .. n /\ h[d \ {Max(d)}] \in W
      BY <1>7, <1>8, <2>2
    <3> QED BY <1>5, <3>1
  <2>3. h = [d \in SUBSET (1 .. n) |->
               IF d = {} THEN base ELSE SelectStep(X, s, keep, h[d \ {Max(d)}], Max(d))]
    BY <2>1, <2>2
  <2> QED BY <1>1, <2>3 DEF SelectRec, base
<1> DEFINE k == CHOOSE g : SelectRec(X, s, keep, g)
<1>10. SelectRec(X, s, keep, k)
  BY <1>9
<1> HIDE DEF k
<1>11. Stepwise(n, W, base, G, k)
  <2>1. k = [d \in SUBSET (1 .. n) |->
               IF d = {} THEN base ELSE SelectStep(X, s, keep, k[d \ {Max(d)}], Max(d))]
    BY <1>1, <1>10 DEF SelectRec, base
  <2>2. k[{}] = base
    BY <2>1
  <2>3. ASSUME NEW i \in 1 .. n, k[1 .. i - 1] \in W
        PROVE  k[1 .. i] = G[<< i, k[1 .. i - 1] >>]
    <3>1. Max(1 .. i) = i
      BY LastIndex
    <3>2. (1 .. i) \ {i} = 1 .. i - 1 /\ i \in 1 .. i /\ 1 .. i \in SUBSET (1 .. n)
      BY ONLY <1>1, i \in 1 .. n
    <3>3. k[1 .. i] = SelectStep(X, s, keep, k[1 .. i - 1], i)
      BY <2>1, <3>1, <3>2
    <3> QED BY <1>5, <2>3, <3>3
  <2> QED BY <2>2, <2>3 DEF Stepwise
<1>12. \A i \in 0 .. n : k[1 .. i] = r[i]
  BY ONLY <1>1, <1>6, <1>11, RunIs
<1>13. r[n] = Data!Select(s, keep)
  <2>1. Data!Select(s, keep) = k[DOMAIN s]
    BY SelectUnfolds DEF k
  <2>2. n \in 0 .. n
    BY <1>1
  <2> QED BY <1>1, <1>12, <2>1, <2>2
<1>14. \A i \in 1 .. n : r[i] = SelectStep(X, s, keep, r[i - 1], i)
  <2> TAKE i \in 1 .. n
  <2>1. i - 1 \in 0 .. n
    BY <1>1
  <2> QED BY <1>5, <1>7, <2>1
<1> QED BY Zenon, <1>7, <1>13, <1>14 DEF n, W, base, SelectRun

(***************************************************************************)
(* Examples are cut between glyphs, and their region is found again.       *)
(***************************************************************************)

\* The bytes of glyphs: the two bytes of a wide one come one after the other.
Lead == << "wide", 1 >>
Trail == << "wide", 2 >>
Narrow == { << "a", 1 >>, << "newline", 1 >> }
Units == Narrow \cup {Lead, Trail}
Wholes ==
  {raw \in Seq(Units) :
     \A i \in 1 .. Len(raw) :
       /\ raw[i] = Lead => i < Len(raw) /\ raw[i + 1] = Trail
       /\ raw[i] = Trail => i > 1 /\ raw[i - 1] = Lead}

\* The units are told apart by what the code reads of them.
LEMMA UnitFacts ==
  /\ Lead # Trail /\ << "a", 1 >> \notin {Lead, Trail} /\ << "newline", 1 >> \notin {Lead, Trail}
  /\ \A u \in Units : u[2] > 1 <=> u = Trail
  /\ \A u \in Units : u[1] \in Data!SourceGlyphs
  /\ \A u \in Units : u \in Data!SourceGlyphs \X {1} <=> u # Trail
  /\ \A u \in Units : u[1] = "wide" => u \in {Lead, Trail}
  /\ \A u \in Units : u[1] = "a" => u = << "a", 1 >>
  /\ \A u \in Units : u[1] = "newline" => u = << "newline", 1 >>
  BY DEF Units, Narrow, Lead, Trail, Data!SourceGlyphs

\* The text put together from two that are whole is whole.
LEMMA WholeJoin ==
  ASSUME NEW x \in Wholes, NEW y \in Wholes
  PROVE  x \o y \in Wholes
<1> DEFINE z == x \o y
           n == Len(x)
           m == Len(y)
<1>1. /\ x \in Seq(Units) /\ y \in Seq(Units) /\ z \in Seq(Units) /\ Len(z) = n + m
      /\ n \in Nat /\ m \in Nat
      /\ \A i \in 1 .. n : z[i] = x[i]
      /\ \A i \in n + 1 .. n + m : z[i] = y[i - n]
  BY DEF Wholes
<1>2. \A i \in 1 .. n : /\ x[i] = Lead => i < n /\ x[i + 1] = Trail
                        /\ x[i] = Trail => i > 1 /\ x[i - 1] = Lead
  BY DEF Wholes
<1>3. \A i \in 1 .. m : /\ y[i] = Lead => i < m /\ y[i + 1] = Trail
                        /\ y[i] = Trail => i > 1 /\ y[i - 1] = Lead
  BY DEF Wholes
<1> HIDE DEF z, n, m
<1>4. ASSUME NEW i \in 1 .. Len(z)
      PROVE  /\ z[i] = Lead => i < Len(z) /\ z[i + 1] = Trail
             /\ z[i] = Trail => i > 1 /\ z[i - 1] = Lead
  <2>1. CASE i \in 1 .. n
    <3>1. z[i] = x[i] /\ (i < n => z[i + 1] = x[i + 1]) /\ (i > 1 => z[i - 1] = x[i - 1])
      <4>1. /\ i < n => i + 1 \in 1 .. n
            /\ i > 1 => i - 1 \in 1 .. n
        BY <1>1, <2>1
      <4> QED BY Zenon, <1>1, <2>1, <4>1
    <3> QED BY <1>1, <1>2, <2>1, <3>1
  <2>2. CASE i \in n + 1 .. n + m
    <3>1. z[i] = y[i - n] /\ i - n \in 1 .. m
      BY <1>1, <2>2
    <3>2. i - n < m => z[i + 1] = y[(i - n) + 1]
      BY <1>1, <2>2
    <3>3. i - n > 1 => z[i - 1] = y[(i - n) - 1]
      BY <1>1, <2>2
    <3> QED BY <1>1, <1>3, <2>2, <3>1, <3>2, <3>3
  <2> QED BY <1>1, <2>1, <2>2
<1>5. z \in Wholes
  BY <1>1, <1>4 DEF Wholes
<1> QED BY <1>5 DEF z

\* The bytes of a glyph are whole.
LEMMA WholeGlyph ==
  /\ << Lead, Trail >> \in Wholes /\ << >> \in Wholes
  /\ \A u \in Narrow : << u >> \in Wholes
<1>1. << Lead, Trail >> \in Wholes
  <2> DEFINE s == << Lead, Trail >>
  <2>1. s \in Seq(Units) /\ Len(s) = 2 /\ s[1] = Lead /\ s[2] = Trail
    BY DEF Units
  <2> HIDE DEF s
  <2>2. s \in Wholes
    <3>1. 1 .. 2 = {1, 2} /\ Lead # Trail
      BY UnitFacts
    <3>2. \A i \in 1 .. 2 : /\ s[i] = Lead => i < 2 /\ s[i + 1] = Trail
                            /\ s[i] = Trail => i > 1 /\ s[i - 1] = Lead
      BY ONLY <2>1, <3>1
    <3> QED BY Zenon, <2>1, <3>2 DEF Wholes
  <2> QED BY <2>2 DEF s
<1>2. << >> \in Wholes
  BY DEF Wholes
<1>3. ASSUME NEW u \in Narrow PROVE << u >> \in Wholes
  <2>1. << u >> \in Seq(Units) /\ Len(<< u >>) = 1 /\ << u >>[1] = u
    BY DEF Units
  <2>2. u # Lead /\ u # Trail
    BY UnitFacts DEF Narrow
  <2> QED BY <2>1, <2>2 DEF Wholes
<1> QED BY Zenon, <1>1, <1>2, <1>3

\* The bytes of one glyph.
GlyphBytes(g) == IF g = "wide" THEN << << g, 1 >>, << g, 2 >> >> ELSE << << g, 1 >> >>

\* They are whole.
LEMMA GlyphWhole ==
  ASSUME NEW g \in Data!SourceGlyphs
  PROVE  GlyphBytes(g) \in Wholes
<1>1. CASE g = "wide"
  BY Zenon, <1>1, WholeGlyph DEF GlyphBytes, Lead, Trail
<1>2. CASE g # "wide"
  <2>1. << g, 1 >> \in Narrow
    BY <1>2 DEF Data!SourceGlyphs, Narrow
  <2> QED BY Zenon, <1>2, <2>1, WholeGlyph DEF GlyphBytes
<1> QED BY Zenon, <1>1, <1>2

\* The bytes of a text are those of its glyphs.
BytesStep(text, t, i) == t \o GlyphBytes(text[i])

\* The recursion inside Bytes.
BytesRec(text, h) ==
  h = [d \in SUBSET DOMAIN text |->
         IF d = {} THEN << >> ELSE BytesStep(text, h[d \ {Max(d)}], Max(d))]

\* Bytes is its recursion.
LEMMA BytesUnfolds ==
  ASSUME NEW text
  PROVE  Data!Bytes(text) = (CHOOSE h : BytesRec(text, h))[DOMAIN text]
  BY DEF Data!Bytes, GlyphBytes, Data!FoldLeft, Data!MapThenFoldSet, Data!Max, Max,
         BytesRec, BytesStep

\* Its values after each item.
BytesRun(text, r) ==
  /\ r \in [0 .. Len(text) -> Wholes] /\ r[0] = << >> /\ r[Len(text)] = Data!Bytes(text)
  /\ \A i \in 1 .. Len(text) : r[i] = BytesStep(text, r[i - 1], i)

\* It is carried out item by item.
LEMMA BytesHasRun ==
  ASSUME NEW text \in Seq(Data!SourceGlyphs)
  PROVE  \E r : BytesRun(text, r)
<1> DEFINE n == Len(text)
           W == Wholes
           base == << >>
           G == [p \in (1 .. n) \X W |-> BytesStep(text, p[2], p[1])]
<1>1. n \in Nat /\ DOMAIN text = 1 .. n
  OBVIOUS
<1>2. base \in W
  BY Zenon, WholeGlyph
<1>3. \A i \in 1 .. n, t \in W : BytesStep(text, t, i) \in W
  <2> TAKE i \in 1 .. n, t \in W
  <2>1. text[i] \in Data!SourceGlyphs
    OBVIOUS
  <2> QED BY Zenon, <2>1, GlyphWhole, WholeJoin DEF BytesStep
<1> HIDE DEF n, W
<1>4. G \in [(1 .. n) \X W -> W]
  BY <1>3
<1>5. \A i \in 1 .. n, t \in W : G[<< i, t >>] = BytesStep(text, t, i)
  OBVIOUS
<1> HIDE DEF G, base
<1>6. PICK h, r : FoldRun(n, W, base, G, h, r)
  BY ONLY <1>1, <1>2, <1>4, FoldSteps
<1>7. /\ h \in [SUBSET (1 .. n) -> W] /\ r \in [0 .. n -> W]
      /\ Fold(base, G, 1 .. n, h) /\ r[0] = base
      /\ \A j \in 1 .. n : r[j] = G[<< j, r[j - 1] >>]
  BY ONLY <1>6 DEF FoldRun
<1>8. \A d \in SUBSET (1 .. n) : d # {} => Max(d) \in 1 .. n /\ d \ {Max(d)} \in SUBSET (1 .. n)
  BY <1>1, IndexIn
<1>9. BytesRec(text, h)
  <2>1. h = [d \in SUBSET (1 .. n) |->
               IF d = {} THEN base ELSE G[<< Max(d), h[d \ {Max(d)}] >>]]
    BY <1>7 DEF Fold
  <2>2. ASSUME NEW d \in SUBSET (1 .. n), d # {}
        PROVE  G[<< Max(d), h[d \ {Max(d)}] >>] = BytesStep(text, h[d \ {Max(d)}], Max(d))
    <3>1. Max(d) \in 1 .. n /\ h[d \ {Max(d)}] \in W
      BY <1>7, <1>8, <2>2
    <3> QED BY <1>5, <3>1
  <2>3. h = [d \in SUBSET (1 .. n) |->
               IF d = {} THEN base ELSE BytesStep(text, h[d \ {Max(d)}], Max(d))]
    BY <2>1, <2>2
  <2> QED BY <1>1, <2>3 DEF BytesRec, base
<1> DEFINE k == CHOOSE g : BytesRec(text, g)
<1>10. BytesRec(text, k)
  BY <1>9
<1> HIDE DEF k
<1>11. Stepwise(n, W, base, G, k)
  <2>1. k = [d \in SUBSET (1 .. n) |->
               IF d = {} THEN base ELSE BytesStep(text, k[d \ {Max(d)}], Max(d))]
    BY <1>1, <1>10 DEF BytesRec, base
  <2>2. k[{}] = base
    BY <2>1
  <2>3. ASSUME NEW i \in 1 .. n, k[1 .. i - 1] \in W
        PROVE  k[1 .. i] = G[<< i, k[1 .. i - 1] >>]
    <3>1. Max(1 .. i) = i
      BY LastIndex
    <3>2. (1 .. i) \ {i} = 1 .. i - 1 /\ i \in 1 .. i /\ 1 .. i \in SUBSET (1 .. n)
      BY ONLY <1>1, i \in 1 .. n
    <3>3. k[1 .. i] = BytesStep(text, k[1 .. i - 1], i)
      BY <2>1, <3>1, <3>2
    <3> QED BY <1>5, <2>3, <3>3
  <2> QED BY <2>2, <2>3 DEF Stepwise
<1>12. \A i \in 0 .. n : k[1 .. i] = r[i]
  BY ONLY <1>1, <1>6, <1>11, RunIs
<1>13. r[n] = Data!Bytes(text)
  <2>1. Data!Bytes(text) = k[DOMAIN text]
    BY BytesUnfolds DEF k
  <2>2. n \in 0 .. n
    BY <1>1
  <2> QED BY <1>1, <1>12, <2>1, <2>2
<1>14. \A i \in 1 .. n : r[i] = BytesStep(text, r[i - 1], i)
  <2> TAKE i \in 1 .. n
  <2>1. i - 1 \in 0 .. n
    BY <1>1
  <2> QED BY <1>5, <1>7, <2>1
<1> QED BY Zenon, <1>7, <1>13, <1>14 DEF n, W, base, BytesRun

\* One item later.
LEMMA SelectNext ==
  ASSUME NEW X, NEW s \in Seq(X), NEW keep, NEW r, SelectRun(X, s, keep, r),
         NEW i \in Nat, i + 1 <= Len(s)
  PROVE  /\ r[i] \in Seq(X) /\ r[i + 1] \in Seq(X)
         /\ s[i + 1] \in keep => /\ r[i + 1] = Append(r[i], s[i + 1])
                                 /\ Len(r[i + 1]) = Len(r[i]) + 1
                                 /\ r[i + 1][Len(r[i]) + 1] = s[i + 1]
                                 /\ \A j \in 1 .. Len(r[i]) : r[i + 1][j] = r[i][j]
         /\ s[i + 1] \notin keep => r[i + 1] = r[i]
<1>1. i + 1 \in 1 .. Len(s) /\ (i + 1) - 1 = i /\ i \in 0 .. Len(s) /\ i + 1 \in 0 .. Len(s)
  OBVIOUS
<1>2. r[i] \in Seq(X) /\ r[i + 1] \in Seq(X) /\ s[i + 1] \in X
  BY <1>1 DEF SelectRun
<1>3. r[i + 1] = IF s[i + 1] \in keep THEN Append(r[i], s[i + 1]) ELSE r[i]
  BY Zenon, <1>1 DEF SelectRun, SelectStep
<1> QED BY <1>2, <1>3

\* What is kept stays where it is.
LEMMA SelectGrows ==
  ASSUME NEW X, NEW s \in Seq(X), NEW keep, NEW r, SelectRun(X, s, keep, r),
         NEW i \in 0 .. Len(s)
  PROVE  \A h \in 0 .. i : /\ r[h] \in Seq(X) /\ Len(r[h]) <= Len(r[i])
                           /\ \A j \in 1 .. Len(r[h]) : r[i][j] = r[h][j]
<1> DEFINE Kept(h, k) == /\ Len(r[h]) <= Len(r[k])
                         /\ \A j \in 1 .. Len(r[h]) : r[k][j] = r[h][j]
           S == {k \in Nat : k <= Len(s) => \A h \in 0 .. k : Kept(h, k)}
<1>1. Len(s) \in Nat /\ \A h \in 0 .. Len(s) : r[h] \in Seq(X)
  <2>1. r \in [0 .. Len(s) -> Seq(X)]
    BY Zenon DEF SelectRun
  <2> QED BY <2>1
<1>2. 0 \in S
  <2>1. \A h \in 0 .. 0 : h = 0
    OBVIOUS
  <2>2. Len(r[0]) \in Nat
    BY <1>1
  <2> QED BY <2>1, <2>2
<1>3. ASSUME NEW k \in Nat, k \in S PROVE k + 1 \in S
  <2> SUFFICES ASSUME k + 1 <= Len(s), NEW h \in 0 .. k + 1 PROVE Kept(h, k + 1)
    BY <1>3
  <2>1. /\ r[k] \in Seq(X) /\ r[k + 1] \in Seq(X)
        /\ s[k + 1] \in keep => /\ Len(r[k + 1]) = Len(r[k]) + 1
                                /\ \A j \in 1 .. Len(r[k]) : r[k + 1][j] = r[k][j]
        /\ s[k + 1] \notin keep => r[k + 1] = r[k]
    <3>1. k \in Nat /\ k + 1 <= Len(s)
      BY <1>3
    <3> HIDE DEF S
    <3> QED BY ONLY <3>1, SelectRun(X, s, keep, r), s \in Seq(X), SelectNext
  <2>2. /\ Len(r[k]) \in Nat /\ Len(r[k + 1]) \in Nat /\ Len(r[k]) <= Len(r[k + 1])
        /\ \A j \in 1 .. Len(r[k]) : r[k + 1][j] = r[k][j]
    BY <2>1
  <2>3. CASE h = k + 1
    <3>1. Kept(k + 1, k + 1)
      BY <2>2
    <3> QED BY Zenon, <2>3, <3>1
  <2>4. CASE h \in 0 .. k
    <3>1. Kept(h, k) /\ Len(r[h]) \in Nat
      BY <1>1, <1>3, <2>4
    <3> QED BY <2>2, <3>1
  <2>5. h = k + 1 \/ h \in 0 .. k
    OBVIOUS
  <2> QED BY Zenon, <2>3, <2>4, <2>5
<1>4. \A k \in Nat : k \in S
  <2> HIDE DEF S
  <2> QED BY Zenon, <1>2, <1>3, ByCounting
<1>5. i \in Nat /\ i <= Len(s)
  BY <1>1
<1>6. \A h \in 0 .. i : h \in 0 .. Len(s)
  BY <1>1
<1> QED BY Zenon, <1>1, <1>4, <1>5, <1>6

\* The items of two sequences one after the other.
LEMMA JoinRows ==
  ASSUME NEW X, NEW x \in Seq(X), NEW y \in Seq(X)
  PROVE  /\ x \o y \in Seq(X) /\ Len(x \o y) = Len(x) + Len(y)
         /\ \A i \in 1 .. Len(x) : (x \o y)[i] = x[i]
         /\ \A i \in Len(x) + 1 .. Len(x) + Len(y) : (x \o y)[i] = y[i - Len(x)]
  OBVIOUS

\* Two slices that meet are one.
LEMMA SliceJoin ==
  ASSUME NEW X, NEW s \in Seq(X), NEW a \in Nat, NEW b \in Nat, NEW c \in Nat,
         a <= b, b <= c, c <= Len(s)
  PROVE  Data!Slice(s, a, b) \o Data!Slice(s, b, c) = Data!Slice(s, a, c)
<1> DEFINE x == SubSeq(s, a + 1, b)
           y == SubSeq(s, b + 1, c)
           z == SubSeq(s, a + 1, c)
<1>1. a <= c /\ b <= Len(s)
  OBVIOUS
<1>2. x \in Seq(X) /\ Len(x) = b - a /\ \A i \in 1 .. b - a : x[i] = s[a + i]
  BY ONLY <1>1, s \in Seq(X), a \in Nat, b \in Nat, a <= b, CutRows
<1>3. y \in Seq(X) /\ Len(y) = c - b /\ \A i \in 1 .. c - b : y[i] = s[b + i]
  BY ONLY s \in Seq(X), b \in Nat, c \in Nat, b <= c, c <= Len(s), CutRows
<1>4. z \in Seq(X) /\ Len(z) = c - a /\ \A i \in 1 .. c - a : z[i] = s[a + i]
  BY ONLY <1>1, s \in Seq(X), a \in Nat, c \in Nat, c <= Len(s), CutRows
<1> HIDE DEF x, y, z
<1>5. /\ x \o y \in Seq(X) /\ Len(x \o y) = Len(x) + Len(y)
      /\ \A i \in 1 .. Len(x) : (x \o y)[i] = x[i]
      /\ \A i \in Len(x) + 1 .. Len(x) + Len(y) : (x \o y)[i] = y[i - Len(x)]
  BY ONLY <1>2, <1>3, JoinRows
<1> DEFINE u == x \o y
<1>6. \A i \in 1 .. b - a : u[i] = z[i]
  BY <1>2, <1>4, <1>5
<1>7. \A i \in b - a + 1 .. c - a : u[i] = z[i]
  <2> TAKE i \in b - a + 1 .. c - a
  <2>1. i - (b - a) \in 1 .. c - b /\ i \in 1 .. c - a /\ b + (i - (b - a)) = a + i
    OBVIOUS
  <2>2. u[i] = y[i - (b - a)]
    BY <1>2, <1>3, <1>5
  <2> QED BY <1>3, <1>4, <2>1, <2>2
<1>8. u \in Seq(X) /\ Len(u) = Len(z)
  BY <1>2, <1>3, <1>4, <1>5
<1> HIDE DEF u
<1>9. \A i \in 1 .. Len(u) : u[i] = z[i]
  BY <1>4, <1>6, <1>7, <1>8
<1>10. u = z
  BY Zenon, <1>4, <1>8, <1>9, SameRows
<1> QED BY Zenon, <1>10 DEF u, x, y, z, Data!Slice

\* A slice of one item or two.
LEMMA SliceFew ==
  ASSUME NEW X, NEW s \in Seq(X), NEW i \in Nat
  PROVE  /\ i + 1 <= Len(s) => Data!Slice(s, i, i + 1) = << s[i + 1] >>
         /\ i + 2 <= Len(s) => Data!Slice(s, i, i + 2) = << s[i + 1], s[i + 2] >>
<1>1. ASSUME i + 1 <= Len(s)
      PROVE  SubSeq(s, i + 1, i + 1) = << s[i + 1] >>
  <2>1. i + 1 \in Nat /\ i <= i + 1 /\ (i + 1) - i = 1
    OBVIOUS
  <2> DEFINE t == SubSeq(s, i + 1, i + 1)
  <2>2. t \in Seq(X) /\ Len(t) = 1 /\ t[1] = s[i + 1]
    <3>1. t \in Seq(X) /\ Len(t) = (i + 1) - i /\ \A j \in 1 .. (i + 1) - i : t[j] = s[i + j]
      BY ONLY <1>1, <2>1, s \in Seq(X), i \in Nat, CutRows
    <3>2. 1 \in 1 .. (i + 1) - i
      BY ONLY <2>1
    <3>3. Len(t) = 1 /\ t[1] = s[i + 1]
      BY ONLY <2>1, <3>1, <3>2
    <3> QED BY ONLY <3>1, <3>3
  <2> HIDE DEF t
  <2>3. t = << s[i + 1] >>
    BY <2>2
  <2> QED BY Zenon, <2>3 DEF t
<1>2. ASSUME i + 2 <= Len(s)
      PROVE  SubSeq(s, i + 1, i + 2) = << s[i + 1], s[i + 2] >>
  <2>1. i + 2 \in Nat /\ i <= i + 2 /\ (i + 2) - i = 2
    OBVIOUS
  <2> DEFINE t == SubSeq(s, i + 1, i + 2)
  <2>2. t \in Seq(X) /\ Len(t) = 2 /\ t[1] = s[i + 1] /\ t[2] = s[i + 2]
    <3>1. t \in Seq(X) /\ Len(t) = (i + 2) - i /\ \A j \in 1 .. (i + 2) - i : t[j] = s[i + j]
      BY ONLY <1>2, <2>1, s \in Seq(X), i \in Nat, CutRows
    <3> QED BY ONLY <2>1, <3>1
  <2> HIDE DEF t
  <2>3. t = << s[i + 1], s[i + 2] >>
    BY <2>2
  <2> QED BY Zenon, <2>3 DEF t
<1> QED BY Zenon, <1>1, <1>2 DEF Data!Slice

\* The byte at which the glyph begun at i ends.
GlyphEnd(raw, i) == IF i > 0 /\ raw[i] = Lead THEN i + 1 ELSE i

\* The bytes of the glyph a unit begins.
LEMMA GlyphOf ==
  /\ GlyphBytes(Lead[1]) = << Lead, Trail >>
  /\ \A u \in Narrow : GlyphBytes(u[1]) = << u >>
<1>1. GlyphBytes(Lead[1]) = << Lead, Trail >>
  <2>1. Lead[1] = "wide"
    BY DEF Lead
  <2> QED BY Zenon, <2>1 DEF GlyphBytes, Lead, Trail
<1>2. ASSUME NEW u \in Narrow PROVE GlyphBytes(u[1]) = << u >>
  <2>1. u[1] # "wide" /\ u = << u[1], 1 >>
    BY DEF Narrow
  <2>2. GlyphBytes(u[1]) = << << u[1], 1 >> >>
    BY Zenon, <2>1 DEF GlyphBytes
  <2> QED BY Zenon, <2>1, <2>2
<1> QED BY Zenon, <1>1, <1>2

\* Whole bytes are decoded, glyph after glyph.
LEMMA WholeDecodes ==
  ASSUME NEW raw \in Wholes
  PROVE  Data!Decodes(raw)
<1> DEFINE n == Len(raw)
           keep == Data!SourceGlyphs \X {1}
           leads == Data!Select(raw, keep)
           w == [i \in DOMAIN leads |-> leads[i][1]]
<1>1. /\ raw \in Seq(Units) /\ n \in Nat /\ \A i \in 1 .. n : raw[i] \in Units
      /\ \A i \in 1 .. n : /\ raw[i] = Lead => i < n /\ raw[i + 1] = Trail
                           /\ raw[i] = Trail => i > 1 /\ raw[i - 1] = Lead
  BY DEF Wholes
<1>2. PICK l : SelectRun(Units, raw, keep, l)
  BY Zenon, <1>1, SelectHasRun
<1>3. leads \in Seq(Units) /\ l[n] = leads /\ l[0] = << >>
  BY <1>1, <1>2 DEF SelectRun
<1>4. w \in Seq(Data!SourceGlyphs) /\ Len(w) = Len(leads)
      /\ \A i \in 1 .. Len(leads) : w[i] = leads[i][1]
  <2>1. \A i \in 1 .. Len(leads) : leads[i][1] \in Data!SourceGlyphs
    BY <1>3, UnitFacts
  <2>2. DOMAIN leads = 1 .. Len(leads)
    BY <1>3
  <2> HIDE DEF leads
  <2> QED BY <1>3, <2>1, <2>2
<1> HIDE DEF w, leads
<1>10. PICK b : BytesRun(w, b)
  BY Zenon, <1>4, BytesHasRun
<1>5. /\ b \in [0 .. Len(w) -> Wholes] /\ b[0] = << >> /\ b[Len(w)] = Data!Bytes(w)
      /\ \A i \in 1 .. Len(w) : b[i] = BytesStep(w, b[i - 1], i)
  BY Zenon, <1>10 DEF BytesRun
<1> DEFINE S == {i \in Nat : i <= n => b[Len(l[i])] = Data!Slice(raw, 0, GlyphEnd(raw, i))}
<1>6. 0 \in S
  <2>1. Len(l[0]) = 0 /\ GlyphEnd(raw, 0) = 0 /\ SubSeq(raw, 1, 0) = << >>
    BY <1>1, <1>3 DEF GlyphEnd
  <2>2. Data!Slice(raw, 0, 0) = << >>
    <3>1. 0 + 1 = 1
      OBVIOUS
    <3> QED BY Zenon, <2>1, <3>1 DEF Data!Slice
  <2>3. b[Len(l[0])] = Data!Slice(raw, 0, GlyphEnd(raw, 0)) /\ 0 \in Nat
    BY <1>5, <2>1, <2>2
  <2> QED BY <2>3
<1>7. ASSUME NEW i \in Nat, i \in S PROVE i + 1 \in S
  <2> SUFFICES ASSUME i + 1 <= n
               PROVE  b[Len(l[i + 1])] = Data!Slice(raw, 0, GlyphEnd(raw, i + 1))
    OBVIOUS
  <2>1. b[Len(l[i])] = Data!Slice(raw, 0, GlyphEnd(raw, i))
    BY <1>1, <1>7
  <2>2. i + 1 \in 1 .. n /\ (i > 0 => i \in 1 .. n) /\ i + 1 > 0 /\ (i + 1) - 1 = i
        /\ i + 1 \in 0 .. n /\ n \in 0 .. n
    BY <1>1
  <2> HIDE DEF S, n
  <2>3. /\ l[i] \in Seq(Units) /\ l[i + 1] \in Seq(Units)
        /\ raw[i + 1] \in keep => /\ Len(l[i + 1]) = Len(l[i]) + 1
                                  /\ l[i + 1][Len(l[i]) + 1] = raw[i + 1]
        /\ raw[i + 1] \notin keep => l[i + 1] = l[i]
    <3>1. i + 1 <= Len(raw)
      BY DEF n
    <3> QED BY ONLY SMTT(30), <1>1, <1>2, <3>1, i \in Nat, SelectNext
  <2>4. raw[i + 1] \in Units /\ (raw[i + 1] \in keep <=> raw[i + 1] # Trail)
    BY Zenon, <1>1, <2>2, UnitFacts
  <2>5. CASE raw[i + 1] = Trail
    <3>1. l[i + 1] = l[i]
      BY Zenon, <2>3, <2>4, <2>5
    <3>2. i > 0 /\ raw[i] = Lead
      BY <1>1, <2>2, <2>5
    <3>3. GlyphEnd(raw, i) = i + 1 /\ GlyphEnd(raw, i + 1) = i + 1
      BY <2>5, <3>2, UnitFacts DEF GlyphEnd
    <3> QED BY Zenon, <2>1, <3>1, <3>3
  <2>6. CASE raw[i + 1] # Trail
    <3>1. Len(l[i + 1]) = Len(l[i]) + 1 /\ l[i + 1][Len(l[i]) + 1] = raw[i + 1]
      BY Zenon, <2>3, <2>4, <2>6
    <3>2. GlyphEnd(raw, i) = i
      <4>1. i > 0 => raw[i] # Lead
        BY <1>1, <2>2, <2>6
      <4> QED BY <4>1 DEF GlyphEnd
    <3> DEFINE k == Len(l[i]) + 1
               e == GlyphEnd(raw, i + 1)
    <3>3. k \in 1 .. Len(w) /\ k - 1 = Len(l[i]) /\ leads[k] = l[i + 1][k]
      <4>1. n \in 0 .. Len(raw)
        BY <1>1 DEF n
      <4>2. \A h \in 0 .. n : /\ l[h] \in Seq(Units) /\ Len(l[h]) <= Len(l[n])
                              /\ \A j \in 1 .. Len(l[h]) : l[n][j] = l[h][j]
        BY ONLY <1>1, <1>2, <4>1, SelectGrows
      <4>3. Len(l[i + 1]) <= Len(leads) /\ \A j \in 1 .. Len(l[i + 1]) : leads[j] = l[i + 1][j]
        BY Zenon, <1>3, <2>2, <4>2
      <4>4. k \in 1 .. Len(l[i + 1]) /\ Len(l[i + 1]) \in Nat /\ k - 1 = Len(l[i])
        BY <2>3, <3>1
      <4>5. leads[k] = l[i + 1][k]
        BY Zenon, <4>3, <4>4
      <4>6. Len(leads) \in Nat
        BY <1>3
      <4> HIDE DEF k
      <4> QED BY <1>4, <4>3, <4>4, <4>5, <4>6
    <3>4. b[k] = b[k - 1] \o GlyphBytes(w[k])
      BY Zenon, <1>5, <3>3 DEF BytesStep
    <3>5. w[k] = raw[i + 1][1]
      <4>1. k \in 1 .. Len(leads)
        BY <1>4, <3>3
      <4> QED BY Zenon, <1>4, <3>1, <3>3, <4>1
    <3> HIDE DEF k
    <3>6. GlyphBytes(raw[i + 1][1]) = Data!Slice(raw, i, e) /\ e \in Nat /\ i <= e /\ e <= n
      <4>1. CASE raw[i + 1] = Lead
        <5>1. e = i + 2 /\ i + 2 <= n /\ raw[i + 2] = Trail
          <6>1. i + 1 < n /\ raw[(i + 1) + 1] = Trail
            BY Zenon, <1>1, <2>2, <4>1
          <6> QED BY <1>1, <2>2, <4>1, <6>1 DEF GlyphEnd
        <5>2. Data!Slice(raw, i, i + 2) = << raw[i + 1], raw[i + 2] >>
          BY <1>1, <5>1, SliceFew DEF n
        <5>3. GlyphBytes(raw[i + 1][1]) = << Lead, Trail >>
          BY Zenon, <4>1, GlyphOf
        <5> QED BY <4>1, <5>1, <5>2, <5>3
      <4>2. CASE raw[i + 1] # Lead
        <5>1. e = i + 1
          BY <4>2 DEF GlyphEnd
        <5>2. Data!Slice(raw, i, i + 1) = << raw[i + 1] >>
          BY <1>1, <2>2, SliceFew DEF n
        <5>3. raw[i + 1] \in Narrow
          BY Zenon, <2>4, <2>6, <4>2 DEF Units
        <5>4. GlyphBytes(raw[i + 1][1]) = << raw[i + 1] >>
          BY Zenon, <5>3, GlyphOf
        <5> QED BY <2>2, <5>1, <5>2, <5>4
      <4> QED BY Zenon, <4>1, <4>2
    <3>7. Data!Slice(raw, 0, i) \o Data!Slice(raw, i, e) = Data!Slice(raw, 0, e)
      <4>1. 0 <= i /\ 0 \in Nat /\ e <= Len(raw)
        BY <3>6 DEF n
      <4> HIDE DEF e
      <4> QED BY ONLY <1>1, <3>6, <4>1, i \in Nat, SliceJoin
    <3>8. l[i + 1] \in Seq(Units) /\ Len(l[i + 1]) = k
      BY Zenon, <2>3, <3>1 DEF k
    <3>9. b[k] = Data!Slice(raw, 0, i) \o Data!Slice(raw, i, e)
      BY Zenon, <2>1, <3>2, <3>3, <3>4, <3>5, <3>6
    <3> QED BY Zenon, <3>7, <3>8, <3>9
  <2> QED BY Zenon, <2>5, <2>6
<1>8. \A i \in Nat : i \in S
  <2> HIDE DEF S
  <2> QED BY Zenon, <1>6, <1>7, ByCounting
<1>9. Data!Bytes(w) = raw
  <2>1. GlyphEnd(raw, n) = n
    <3>1. n > 0 => n \in 1 .. n
      BY <1>1
    <3>2. n > 0 => raw[n] # Lead
      BY <1>1, <3>1
    <3> QED BY <3>2 DEF GlyphEnd
  <2>2. b[Len(leads)] = Data!Slice(raw, 0, n)
    <3>1. n \in S /\ n <= n
      BY <1>1, <1>8
    <3>2. b[Len(l[n])] = Data!Slice(raw, 0, GlyphEnd(raw, n))
      <4> HIDE DEF n
      <4> QED BY <3>1
    <3> QED BY Zenon, <1>3, <2>1, <3>2
  <2>3. Data!Slice(raw, 0, n) = raw
    BY <1>1 DEF Data!Slice
  <2> QED BY Zenon, <1>4, <1>5, <2>2, <2>3
<1> QED BY Zenon, <1>9 DEF w, leads, Data!Decodes, Data!_decode

\* The places between two glyphs, and the spans from one to a later one.
Cut(raw, k) == k \in 0 .. Len(raw) /\ (k < Len(raw) => raw[k + 1] # Trail)
Spans(raw) == {x \in Nat \X Nat : Cut(raw, x[1]) /\ Cut(raw, x[2]) /\ x[1] <= x[2]}

\* What is between two such places is whole.
LEMMA WholeSlice ==
  ASSUME NEW raw \in Wholes, NEW a \in Nat, NEW b \in Nat, Cut(raw, a), Cut(raw, b), a <= b
  PROVE  Data!Slice(raw, a, b) \in Wholes
<1> DEFINE n == Len(raw)
           t == SubSeq(raw, a + 1, b)
<1>1. /\ raw \in Seq(Units) /\ n \in Nat
      /\ \A i \in 1 .. n : /\ raw[i] = Lead => i < n /\ raw[i + 1] = Trail
                           /\ raw[i] = Trail => i > 1 /\ raw[i - 1] = Lead
  BY DEF Wholes
<1>2. a <= n /\ b <= n /\ (a < n => raw[a + 1] # Trail) /\ (b < n => raw[b + 1] # Trail)
  BY <1>1 DEF Cut
<1>3. t \in Seq(Units) /\ Len(t) = b - a /\ \A i \in 1 .. b - a : t[i] = raw[a + i]
  BY ONLY <1>1, <1>2, a \in Nat, b \in Nat, a <= b, CutRows
<1> HIDE DEF t, n
<1>4. ASSUME NEW i \in 1 .. Len(t)
      PROVE  /\ t[i] = Lead => i < Len(t) /\ t[i + 1] = Trail
             /\ t[i] = Trail => i > 1 /\ t[i - 1] = Lead
  <2>1. i \in 1 .. b - a /\ a + i \in 1 .. n /\ t[i] = raw[a + i] /\ i \in Nat
    BY <1>1, <1>2, <1>3
  <2>2. ASSUME t[i] = Lead PROVE i < Len(t) /\ t[i + 1] = Trail
    <3>1. a + i < n /\ raw[(a + i) + 1] = Trail
      BY <1>1, <2>1, <2>2
    <3>2. a + i # b
      BY <1>1, <1>2, <2>1, <3>1
    <3>3. i + 1 \in 1 .. b - a /\ a + (i + 1) = (a + i) + 1
      BY <2>1, <3>2
    <3> QED BY <1>3, <3>1, <3>3
  <2>3. ASSUME t[i] = Trail PROVE i > 1 /\ t[i - 1] = Lead
    <3>1. a + i > 1 /\ raw[(a + i) - 1] = Lead
      BY <1>1, <2>1, <2>3
    <3>2. i # 1
      <4> SUFFICES ASSUME i = 1 PROVE FALSE
        OBVIOUS
      <4>1. a < n /\ a + i = a + 1
        BY <1>1, <2>1
      <4>2. t[i] # Trail
        BY Zenon, <1>2, <2>1, <4>1
      <4> QED BY Zenon, <2>3, <4>2
    <3>3. i - 1 \in 1 .. b - a /\ a + (i - 1) = (a + i) - 1
      BY <2>1, <3>2
    <3> QED BY <1>3, <3>1, <3>3
  <2> QED BY Zenon, <2>2, <2>3
<1>5. t \in Wholes
  BY Zenon, <1>3, <1>4 DEF Wholes
<1> QED BY Zenon, <1>5 DEF t, Data!Slice

\* Where decoding goes on is inside a glyph.
LEMMA ContinuesInside ==
  ASSUME NEW raw \in Wholes, NEW k \in Nat, k < Len(raw)
  PROVE  (Data!Continues(raw, k) <=> raw[k + 1] = Trail) /\ raw[k + 1] \in Units
<1>1. raw \in Seq(Units) /\ k + 1 \in 1 .. Len(raw)
  BY DEF Wholes
<1>2. raw[k + 1] \in Units
  BY <1>1
<1> QED BY Zenon, <1>2, UnitFacts DEF Data!Continues

\* Going back from a byte ends at such a place.
LEMMA BackCut ==
  ASSUME NEW raw \in Wholes, NEW s \in Nat, NEW i \in Nat, s <= i, i < Len(raw), Cut(raw, s)
  PROVE  Data!Back(raw, i, s) \in s .. i /\ Cut(raw, Data!Back(raw, i, s))
<1> DEFINE S == {k \in s .. i : k = s \/ ~Data!Continues(raw, k)}
           m == Data!Max(S)
<1>1. S \subseteq s .. i /\ s \in S /\ Len(raw) \in Nat
  BY DEF Wholes
<1>2. IsFiniteSet(S) /\ S \subseteq Int /\ S # {}
  <2>1. IsFiniteSet(s .. i)
    BY FS_Interval
  <2>2. IsFiniteSet(S)
    BY Zenon, <1>1, <2>1, FS_Subset
  <2> QED BY <1>1, <2>2
<1>3. m \in S
  <2> HIDE DEF S
  <2> QED BY Zenon, <1>2, MaxIsLargest DEF Data!Max, Max
<1>4. m \in s .. i /\ (m = s \/ ~Data!Continues(raw, m))
  BY <1>3
<1> HIDE DEF m
<1>5. m \in Nat /\ m < Len(raw) /\ m \in 0 .. Len(raw)
  BY <1>1, <1>4
<1>6. Cut(raw, m)
  BY Zenon, <1>4, <1>5, ContinuesInside DEF Cut
<1> QED BY Zenon, <1>4, <1>6 DEF m, Data!Back

\* It passes only bytes inside a glyph.
LEMMA BackSkips ==
  ASSUME NEW raw \in Wholes, NEW s \in Nat, NEW i \in Nat, s < i, i < Len(raw),
         Data!Back(raw, i, s) = s
  PROVE  raw[s + 1] = Lead
<1> DEFINE S == {k \in s .. i : k = s \/ ~Data!Continues(raw, k)}
           m == Data!Max(S)
<1>1. S \subseteq s .. i /\ s \in S /\ s + 1 \in s .. i /\ s + 1 \in Nat /\ s + 1 < Len(raw)
  BY DEF Wholes
<1>2. IsFiniteSet(S) /\ S \subseteq Int /\ S # {}
  <2>1. IsFiniteSet(s .. i)
    BY FS_Interval
  <2>2. IsFiniteSet(S)
    BY Zenon, <1>1, <2>1, FS_Subset
  <2> QED BY <1>1, <2>2
<1>3. \A k \in S : m >= k
  <2> HIDE DEF S
  <2> QED BY Zenon, <1>2, MaxIsLargest DEF Data!Max, Max
<1>4. m = s
  BY Zenon DEF m, S, Data!Back
<1> HIDE DEF m
<1>5. s + 1 \notin S
  BY <1>3, <1>4
<1>6. Data!Continues(raw, s + 1)
  BY <1>1, <1>5
<1>7. raw[(s + 1) + 1] = Trail
  BY Zenon, <1>1, <1>6, ContinuesInside
<1>8. (s + 1) + 1 \in 1 .. Len(raw) /\ ((s + 1) + 1) - 1 = s + 1
  BY <1>1 DEF Wholes
<1>9. raw[((s + 1) + 1) - 1] = Lead
  BY Zenon, <1>7, <1>8 DEF Wholes
<1> QED BY <1>8, <1>9

\* Going on from a byte ends between two glyphs, too.
LEMMA OnwardCut ==
  ASSUME NEW raw \in Wholes, NEW i \in 0 .. Len(raw)
  PROVE  Data!Onward(raw, i) \in i .. Len(raw) /\ Cut(raw, Data!Onward(raw, i))
<1> DEFINE n == Len(raw)
           S == {k \in i .. n : k = n \/ ~Data!Continues(raw, k)}
           m == Data!Min(S)
<1>1. n \in Nat /\ S \subseteq i .. n /\ n \in S
  <2>1. n \in Nat
    BY DEF Wholes
  <2> QED BY <2>1
<1>2. IsFiniteSet(S) /\ S \subseteq Int /\ S # {}
  <2>1. IsFiniteSet(i .. n)
    BY <1>1, FS_Interval
  <2>2. IsFiniteSet(S)
    BY Zenon, <1>1, <2>1, FS_Subset
  <2> QED BY <1>1, <2>2
<1>3. m \in S
  <2> HIDE DEF S
  <2> QED BY Zenon, <1>2, MinIsSmallest DEF Data!Min, Min
<1>4. m \in i .. n /\ (m = n \/ ~Data!Continues(raw, m))
  BY <1>3
<1> HIDE DEF m
<1>5. m \in Nat /\ m <= n /\ m \in 0 .. n
  BY <1>1, <1>4
<1>6. Cut(raw, m)
  <2>1. m < Len(raw) => raw[m + 1] # Trail
    <3>1. m < Len(raw) => ~Data!Continues(raw, m)
      BY <1>1, <1>4, <1>5
    <3> QED BY Zenon, <1>5, <3>1, ContinuesInside
  <2> QED BY Zenon, <1>5, <2>1 DEF Cut
<1> QED BY Zenon, <1>4, <1>6 DEF m, Data!Onward

\* A span drawn at random is such a span, and not empty.
LEMMA AnySpanCuts ==
  ASSUME NEW raw \in Wholes, NEW x \in Data!AnySpan(raw)
  PROVE  x \in Spans(raw) /\ x[1] < x[2] /\ x = << x[1], x[2] >>
<1> DEFINE n == Len(raw)
<1>1. n \in Nat
  BY DEF Wholes
<1>2. PICK at \in 0 .. n - 1 :
        x \in {<< Data!Back(raw, at, 0), Data!Onward(raw, Data!Back(raw, at, 0) + length) >> :
                 length \in 1 .. Data!Min({32, n - Data!Back(raw, at, 0)})}
  BY DEF Data!AnySpan
<1> DEFINE start == Data!Back(raw, at, 0)
<1>3. PICK length \in 1 .. Data!Min({32, n - start}) :
        x = << start, Data!Onward(raw, start + length) >>
  BY <1>2
<1>4. start \in 0 .. at /\ Cut(raw, start)
  <2>1. Cut(raw, 0)
    <3>1. 0 < n => raw[0 + 1] # Trail
      BY DEF Wholes
    <3> QED BY <1>1, <3>1 DEF Cut
  <2>2. at \in Nat /\ 0 \in Nat /\ 0 <= at /\ at < n
    BY <1>1
  <2> QED BY Zenon, <2>1, <2>2, BackCut
<1> HIDE DEF start
<1>5. length \in Nat /\ 1 <= length /\ start + length \in 0 .. n /\ start \in Nat
  <2> DEFINE M == {32, n - start}
  <2>1. M \subseteq Int /\ M # {} /\ n - start \in M /\ start \in Nat
    BY <1>1, <1>4
  <2>2. IsFiniteSet(M)
    BY Zenon, PairFinite
  <2> HIDE DEF M
  <2>3. Data!Min(M) \in Int /\ Data!Min(M) <= n - start
    BY <2>1, <2>2, MinIsSmallest DEF Data!Min, Min
  <2> QED BY <1>1, <2>1, <2>3 DEF M
<1> DEFINE end == Data!Onward(raw, start + length)
<1>6. end \in start + length .. n /\ Cut(raw, end)
  BY Zenon, <1>5, OnwardCut
<1> HIDE DEF end
<1>7. end \in Nat /\ start < end
  BY <1>1, <1>5, <1>6
<1>8. x = << start, end >>
  BY Zenon, <1>3 DEF end
<1> QED BY <1>4, <1>5, <1>6, <1>7, <1>8 DEF Spans

\* A word or a line that is not blank.
LEMMA RunsCut ==
  ASSUME NEW raw \in Wholes, NEW hole_type \in Data!HoleTypes,
         NEW x \in Data!_collect_spans(raw, hole_type)
  PROVE  x \in Spans(raw) /\ x[1] < x[2] /\ x = << x[1], x[2] >>
<1> DEFINE n == Len(raw)
<1>1. /\ raw \in Seq(Units) /\ n \in Nat /\ \A i \in 1 .. n : raw[i] \in Units
      /\ \A i \in 1 .. n : /\ raw[i] = Lead => i < n /\ raw[i + 1] = Trail
                           /\ raw[i] = Trail => i > 1 /\ raw[i - 1] = Lead
  BY DEF Wholes
<1> DEFINE Letters == Data!_collect_spans(raw, "identifier")
           Stmts == Data!_collect_spans(raw, "statement")
<1>2. x \in Letters \/ x \in Stmts
  BY DEF Data!_collect_spans, Data!HoleTypes
<1>3. ASSUME x \in Letters
      PROVE  /\ x \in (0 .. n) \X (0 .. n) /\ x[1] < x[2]
             /\ \A i \in x[1] .. x[2] - 1 : raw[i + 1][1] = "a"
             /\ x[1] > 0 => raw[x[1]][1] # "a"
             /\ x[2] < n => raw[x[2] + 1][1] # "a"
  BY <1>3 DEF Data!_collect_spans, Data!Runs
<1>4. ASSUME x \in Stmts
      PROVE  /\ x \in (0 .. n) \X (0 .. n) /\ x[1] < x[2]
             /\ \A i \in x[1] .. x[2] - 1 : raw[i + 1][1] # "newline"
             /\ x[1] > 0 => raw[x[1]][1] = "newline"
             /\ x[2] < n => raw[x[2] + 1][1] = "newline"
  BY <1>4 DEF Data!_collect_spans, Data!Runs
<1> HIDE DEF Letters, Stmts
<1>5. x \in (0 .. n) \X (0 .. n) /\ x[1] < x[2]
  BY Zenon, <1>2, <1>3, <1>4
<1>6. PICK p \in 0 .. n, q \in 0 .. n : x = << p, q >>
  BY <1>5
<1>7. x[1] = p /\ x[2] = q /\ p < q /\ p \in Nat /\ q \in Nat /\ n \in Nat
  BY <1>1, <1>5, <1>6
<1> HIDE DEF n
<1>8. ASSUME p < n PROVE raw[p + 1] # Trail
  <2> SUFFICES ASSUME raw[p + 1] = Trail PROVE FALSE
    OBVIOUS
  <2>1. p + 1 \in 1 .. n /\ (p + 1) - 1 = p /\ p \in p .. q - 1
    BY <1>7, <1>8
  <2>2. p > 0 /\ raw[p] = Lead
    BY <1>1, <2>1
  <2>3. Lead[1] = "wide" /\ Trail[1] = "wide"
    BY DEF Lead, Trail
  <2>4. CASE x \in Letters
    <3>1. raw[p + 1][1] = "a"
      BY Zenon, <1>3, <1>7, <2>1, <2>4
    <3>2. "a" # "wide"
      OBVIOUS
    <3> QED BY Zenon, <2>3, <3>1, <3>2
  <2>5. CASE x \in Stmts
    <3>1. raw[p][1] = "newline"
      BY Zenon, <1>4, <1>7, <2>2, <2>5
    <3>2. "newline" # "wide"
      OBVIOUS
    <3> QED BY Zenon, <2>2, <2>3, <3>1, <3>2
  <2> QED BY Zenon, <1>2, <2>4, <2>5
<1>9. ASSUME q < n PROVE raw[q + 1] # Trail
  <2> SUFFICES ASSUME raw[q + 1] = Trail PROVE FALSE
    OBVIOUS
  <2>1. q + 1 \in 1 .. n /\ (q + 1) - 1 = q /\ q - 1 \in p .. q - 1 /\ (q - 1) + 1 = q
    BY <1>7, <1>9
  <2>2. raw[q] = Lead
    BY <1>1, <2>1
  <2>3. Lead[1] = "wide" /\ Trail[1] = "wide"
    BY DEF Lead, Trail
  <2>4. CASE x \in Letters
    <3>1. raw[q][1] = "a"
      BY Zenon, <1>3, <1>7, <2>1, <2>4
    <3>2. "a" # "wide"
      OBVIOUS
    <3> QED BY Zenon, <2>2, <2>3, <3>1, <3>2
  <2>5. CASE x \in Stmts
    <3>1. raw[q + 1][1] = "newline"
      BY Zenon, <1>4, <1>7, <1>9, <2>5
    <3>2. "newline" # "wide"
      OBVIOUS
    <3> QED BY Zenon, <2>3, <3>1, <3>2
  <2> QED BY Zenon, <1>2, <2>4, <2>5
<1>10. Cut(raw, p) /\ Cut(raw, q) /\ p <= q /\ x \in Nat \X Nat
  BY <1>6, <1>7, <1>8, <1>9 DEF Cut, n
<1> QED BY Zenon, <1>6, <1>7, <1>10 DEF Spans

\* The cut of a partial statement is inside it or, if it is one byte long, at its end.
LEMMA PartialIs ==
  ASSUME NEW raw \in Wholes, NEW x \in Spans(raw), x[1] < x[2], NEW tenths \in {3, 5, 7}
  PROVE  \E cut \in Nat :
           /\ x[1] < cut /\ cut <= Len(raw)
           /\ cut = Len(raw) => x[1] = Len(raw) - 1 /\ x[2] = Len(raw)
           /\ Data!Partial(raw, x, tenths) =
                IF cut = Len(raw) THEN Data!Raises ELSE << x[1], Data!Back(raw, cut, x[1]) >>
<1> DEFINE share == ((x[2] - x[1]) * tenths) \div 10
           M == {1, share}
           cut == x[1] + Data!Max(M)
           n == Len(raw)
<1>1. /\ n \in Nat /\ x[1] \in Nat /\ x[2] \in Nat /\ x[2] <= n
  BY DEF Wholes, Spans, Cut
<1>2. share \in Nat /\ share < x[2] - x[1]
  <2> DEFINE l == x[2] - x[1]
  <2>1. l \in Nat /\ l > 0
    BY <1>1
  <2> HIDE DEF l
  <2>2. (l * 3) \div 10 \in Nat /\ (l * 3) \div 10 < l
    BY <2>1
  <2>3. (l * 5) \div 10 \in Nat /\ (l * 5) \div 10 < l
    BY <2>1
  <2>4. (l * 7) \div 10 \in Nat /\ (l * 7) \div 10 < l
    BY <2>1
  <2> QED BY Zenon, <2>2, <2>3, <2>4 DEF l
<1> HIDE DEF share
<1>3. Data!Max(M) \in M /\ Data!Max(M) >= 1
  <2>1. M \subseteq Int /\ M # {} /\ 1 \in M
    BY <1>2
  <2>2. IsFiniteSet(M)
    BY Zenon, PairFinite
  <2> HIDE DEF M
  <2> QED BY Zenon, <2>1, <2>2, MaxIsLargest DEF Data!Max, Max
<1>4. /\ cut \in Nat /\ x[1] < cut /\ cut <= n
      /\ cut = n => x[1] = n - 1 /\ x[2] = n
  <2> DEFINE mx == Data!Max(M)
  <2>1. mx = 1 \/ mx = share
    BY <1>3
  <2>2. mx >= 1
    BY <1>3
  <2> HIDE DEF mx
  <2>3. mx \in Nat
    BY <1>2, <2>1
  <2>4. PICK p \in Nat, q \in Nat, w \in Nat, top \in Nat :
          p = x[1] /\ q = x[2] /\ w = mx /\ top = n
    BY Zenon, <1>1, <2>3
  <2>5. p < q /\ q <= top /\ share < q - p /\ (w = 1 \/ w = share) /\ w >= 1
    BY Zenon, <1>1, <1>2, <2>1, <2>2, <2>4
  <2>6. /\ p + w \in Nat /\ p < p + w /\ p + w <= top
        /\ p + w = top => p = top - 1 /\ q = top
    BY ONLY <1>2, <2>5
  <2>7. /\ x[1] + mx \in Nat /\ x[1] < x[1] + mx /\ x[1] + mx <= n
        /\ x[1] + mx = n => x[1] = n - 1 /\ x[2] = n
    BY Zenon, <2>4, <2>6
  <2> QED BY Zenon, <2>7 DEF mx
<1>5. Data!Partial(raw, x, tenths) =
        IF cut = n THEN Data!Raises ELSE << x[1], Data!Back(raw, cut, x[1]) >>
  BY Zenon DEF Data!Partial, cut, share
<1> HIDE DEF cut
<1> QED BY Zenon, <1>4, <1>5

\* A hole is between two glyphs, and where it is empty a wide glyph begins.
Shaped(raw, hole) ==
  hole \in Spans(raw) /\ (hole[1] < hole[2] \/ (hole[1] = hole[2] /\ raw[hole[1] + 1] = Lead))

\* A part of a statement that is not read beyond the end of the file is so.
LEMMA PartialCut ==
  ASSUME NEW raw \in Wholes, NEW x \in Spans(raw), x[1] < x[2], NEW tenths \in {3, 5, 7},
         NEW hole, hole = Data!Partial(raw, x, tenths), hole # Data!Raises
  PROVE  Shaped(raw, hole)
<1>1. /\ Len(raw) \in Nat /\ x[1] \in Nat /\ Cut(raw, x[1])
  BY DEF Wholes, Spans, Cut
<1>2. PICK cut \in Nat :
        /\ x[1] < cut /\ cut <= Len(raw)
        /\ hole = IF cut = Len(raw) THEN Data!Raises ELSE << x[1], Data!Back(raw, cut, x[1]) >>
  BY Zenon, PartialIs
<1> DEFINE end == Data!Back(raw, cut, x[1])
<1>3. cut < Len(raw) /\ hole = << x[1], end >> /\ x[1] <= cut
  BY <1>1, <1>2
<1>4. end \in x[1] .. cut /\ Cut(raw, end)
  BY Zenon, <1>1, <1>2, <1>3, BackCut
<1>5. end = x[1] => raw[x[1] + 1] = Lead
  BY Zenon, <1>1, <1>2, <1>3, BackSkips
<1> HIDE DEF end
<1>6. hole[1] = x[1] /\ hole[2] = end
  BY <1>3
<1>7. hole \in Spans(raw)
  BY <1>1, <1>3, <1>4 DEF Spans
<1>8. end \in Nat /\ (x[1] < end \/ x[1] = end)
  BY <1>1, <1>4
<1> QED BY Zenon, <1>5, <1>6, <1>7, <1>8 DEF Shaped

\* One that is: the source ends in a line of one byte.
LEMMA PartialRaises ==
  ASSUME NEW raw \in Wholes, NEW x \in Data!_collect_spans(raw, "partial_statement"),
         NEW tenths \in {3, 5, 7}, Data!Partial(raw, x, tenths) = Data!Raises
  PROVE  EndsInOneByte(raw)
<1> DEFINE n == Len(raw)
<1>1. /\ raw \in Seq(Units) /\ n \in Nat /\ \A i \in 1 .. n : raw[i] \in Units
      /\ \A i \in 1 .. n : /\ raw[i] = Lead => i < n /\ raw[i + 1] = Trail
                           /\ raw[i] = Trail => i > 1 /\ raw[i - 1] = Lead
  BY DEF Wholes
<1>2. x \in Spans(raw) /\ x[1] < x[2]
  BY RunsCut DEF Data!HoleTypes
<1>3. /\ \A i \in x[1] .. x[2] - 1 : raw[i + 1][1] # "newline"
      /\ x[1] > 0 => raw[x[1]][1] = "newline"
  BY DEF Data!_collect_spans, Data!Runs
<1>4. x[1] = n - 1 /\ x[2] = n /\ n > 0
  <2>1. PICK cut \in Nat :
          /\ x[1] < cut /\ cut <= n
          /\ cut = n => x[1] = n - 1 /\ x[2] = n
          /\ Data!Partial(raw, x, tenths) =
               IF cut = n THEN Data!Raises ELSE << x[1], Data!Back(raw, cut, x[1]) >>
    BY Zenon, <1>2, PartialIs
  <2>2. x[1] \in Nat
    BY <1>2 DEF Spans
  <2>3. cut = n
    <3>1. << x[1], Data!Back(raw, cut, x[1]) >> # Data!Raises
      BY <2>2 DEF Data!Raises
    <3> QED BY Zenon, <2>1, <3>1
  <2> QED BY <1>1, <2>1, <2>2, <2>3
<1>5. raw[n][1] # "newline" /\ (n > 1 => raw[n - 1][1] = "newline") /\ n \in 1 .. n
  <2>1. n - 1 \in x[1] .. x[2] - 1 /\ (n - 1) + 1 = n /\ n \in 1 .. n /\ (n > 1 => x[1] > 0)
    BY <1>1, <1>4
  <2> QED BY Zenon, <1>3, <1>4, <2>1
<1>6. raw[n] # Lead /\ raw[n] # Trail
  <2>1. raw[n] # Lead
    BY <1>1, <1>5
  <2>2. ASSUME raw[n] = Trail PROVE FALSE
    <3>1. n > 1 /\ raw[n - 1] = Lead
      BY Zenon, <1>1, <1>5, <2>2
    <3>2. Lead[1] # "newline"
      BY DEF Lead
    <3> QED BY Zenon, <1>5, <3>1, <3>2
  <2> QED BY Zenon, <2>1, <2>2
<1>7. raw[n] \in Narrow
  BY Zenon, <1>1, <1>5, <1>6 DEF Units
<1>8. raw[n][1] = "a"
  BY <1>5, <1>7 DEF Narrow
<1> QED BY Zenon, <1>5, <1>8 DEF EndsInOneByte

\* So is every hole, if there is one.
LEMMA HoleCuts ==
  ASSUME NEW raw \in Wholes, NEW hole_type \in Data!HoleTypes,
         NEW region \in Data!make_hole(raw, hole_type)
  PROVE  (region = Data!Raises /\ EndsInOneByte(raw)) \/ Shaped(raw, region)
<1> DEFINE found == Data!_collect_spans(raw, hole_type)
<1>1. region \in
        IF hole_type = "span" \/ found = {} THEN Data!AnySpan(raw)
        ELSE IF hole_type = "partial_statement"
             THEN {Data!Partial(raw, span, tenths) : span \in found, tenths \in {3, 5, 7}}
             ELSE found
  BY DEF Data!make_hole
<1>2. \/ region \in Data!AnySpan(raw)
      \/ /\ hole_type = "partial_statement"
         /\ \E span \in found, tenths \in {3, 5, 7} : region = Data!Partial(raw, span, tenths)
      \/ region \in found
  <2> HIDE DEF found
  <2> QED BY <1>1
<1>3. ASSUME NEW span \in found, NEW tenths \in {3, 5, 7}, hole_type = "partial_statement",
             region = Data!Partial(raw, span, tenths)
      PROVE  (region = Data!Raises /\ EndsInOneByte(raw)) \/ Shaped(raw, region)
  <2>1. span \in Spans(raw) /\ span[1] < span[2]
    BY Zenon, RunsCut
  <2>2. CASE region = Data!Raises
    BY Zenon, <1>3, <2>2, PartialRaises
  <2>3. CASE region # Data!Raises
    BY Zenon, <1>3, <2>1, <2>3, PartialCut
  <2> QED BY Zenon, <2>2, <2>3
<1>4. ASSUME region \in Data!AnySpan(raw) \/ region \in found
      PROVE  Shaped(raw, region)
  BY Zenon, <1>4, AnySpanCuts, RunsCut DEF Shaped
<1> QED BY Zenon, <1>2, <1>3, <1>4

\* A try is an edit if it is apart from the region and the edits before it.
RecentStep(X, region, tries, t, i) ==
  IF Data!Apart(tries[i], region) /\ \A j \in DOMAIN t : Data!Apart(tries[i], t[j])
  THEN Append(t, tries[i]) ELSE t

\* The recursion inside Recent.
RecentRec(X, region, tries, h) ==
  h = [d \in SUBSET DOMAIN tries |->
         IF d = {} THEN << >> ELSE RecentStep(X, region, tries, h[d \ {Max(d)}], Max(d))]

\* Recent is its recursion.
LEMMA RecentUnfolds ==
  ASSUME NEW X, NEW region, NEW tries
  PROVE  Data!Recent(region, tries) = (CHOOSE h : RecentRec(X, region, tries, h))[DOMAIN tries]
  BY DEF Data!Recent, Data!FoldLeft, Data!MapThenFoldSet, Data!Max, Max,
         RecentRec, RecentStep

\* Its values after each item.
RecentRun(X, region, tries, r) ==
  /\ r \in [0 .. Len(tries) -> Seq(X)] /\ r[0] = << >> /\ r[Len(tries)] = Data!Recent(region, tries)
  /\ \A i \in 1 .. Len(tries) : r[i] = RecentStep(X, region, tries, r[i - 1], i)

\* It is carried out item by item.
LEMMA RecentHasRun ==
  ASSUME NEW X, NEW region, NEW tries \in Seq(X)
  PROVE  \E r : RecentRun(X, region, tries, r)
<1> DEFINE n == Len(tries)
           W == Seq(X)
           base == << >>
           G == [p \in (1 .. n) \X W |-> RecentStep(X, region, tries, p[2], p[1])]
<1>1. n \in Nat /\ DOMAIN tries = 1 .. n
  OBVIOUS
<1>2. base \in W
  OBVIOUS
<1>3. \A i \in 1 .. n, t \in W : RecentStep(X, region, tries, t, i) \in W
  BY DEF RecentStep
<1> HIDE DEF n, W
<1>4. G \in [(1 .. n) \X W -> W]
  BY <1>3
<1>5. \A i \in 1 .. n, t \in W : G[<< i, t >>] = RecentStep(X, region, tries, t, i)
  OBVIOUS
<1> HIDE DEF G, base
<1>6. PICK h, r : FoldRun(n, W, base, G, h, r)
  BY ONLY <1>1, <1>2, <1>4, FoldSteps
<1>7. /\ h \in [SUBSET (1 .. n) -> W] /\ r \in [0 .. n -> W]
      /\ Fold(base, G, 1 .. n, h) /\ r[0] = base
      /\ \A j \in 1 .. n : r[j] = G[<< j, r[j - 1] >>]
  BY ONLY <1>6 DEF FoldRun
<1>8. \A d \in SUBSET (1 .. n) : d # {} => Max(d) \in 1 .. n /\ d \ {Max(d)} \in SUBSET (1 .. n)
  BY <1>1, IndexIn
<1>9. RecentRec(X, region, tries, h)
  <2>1. h = [d \in SUBSET (1 .. n) |->
               IF d = {} THEN base ELSE G[<< Max(d), h[d \ {Max(d)}] >>]]
    BY <1>7 DEF Fold
  <2>2. ASSUME NEW d \in SUBSET (1 .. n), d # {}
        PROVE  G[<< Max(d), h[d \ {Max(d)}] >>] =
                 RecentStep(X, region, tries, h[d \ {Max(d)}], Max(d))
    <3>1. Max(d) \in 1 .. n /\ h[d \ {Max(d)}] \in W
      BY <1>7, <1>8, <2>2
    <3> QED BY <1>5, <3>1
  <2>3. h = [d \in SUBSET (1 .. n) |->
               IF d = {} THEN base ELSE RecentStep(X, region, tries, h[d \ {Max(d)}], Max(d))]
    BY <2>1, <2>2
  <2> QED BY <1>1, <2>3 DEF RecentRec, base
<1> DEFINE k == CHOOSE g : RecentRec(X, region, tries, g)
<1>10. RecentRec(X, region, tries, k)
  BY <1>9
<1> HIDE DEF k
<1>11. Stepwise(n, W, base, G, k)
  <2>1. k = [d \in SUBSET (1 .. n) |->
               IF d = {} THEN base ELSE RecentStep(X, region, tries, k[d \ {Max(d)}], Max(d))]
    BY <1>1, <1>10 DEF RecentRec, base
  <2>2. k[{}] = base
    BY <2>1
  <2>3. ASSUME NEW i \in 1 .. n, k[1 .. i - 1] \in W
        PROVE  k[1 .. i] = G[<< i, k[1 .. i - 1] >>]
    <3>1. Max(1 .. i) = i
      BY LastIndex
    <3>2. (1 .. i) \ {i} = 1 .. i - 1 /\ i \in 1 .. i /\ 1 .. i \in SUBSET (1 .. n)
      BY ONLY <1>1, i \in 1 .. n
    <3>3. k[1 .. i] = RecentStep(X, region, tries, k[1 .. i - 1], i)
      BY <2>1, <3>1, <3>2
    <3> QED BY <1>5, <2>3, <3>3
  <2> QED BY <2>2, <2>3 DEF Stepwise
<1>12. \A i \in 0 .. n : k[1 .. i] = r[i]
  BY ONLY <1>1, <1>6, <1>11, RunIs
<1>13. r[n] = Data!Recent(region, tries)
  <2>1. Data!Recent(region, tries) = k[DOMAIN tries]
    BY RecentUnfolds DEF k
  <2>2. n \in 0 .. n
    BY <1>1
  <2> QED BY <1>1, <1>12, <2>1, <2>2
<1>14. \A i \in 1 .. n : r[i] = RecentStep(X, region, tries, r[i - 1], i)
  <2> TAKE i \in 1 .. n
  <2>1. i - 1 \in 0 .. n
    BY <1>1
  <2> QED BY <1>5, <1>7, <2>1
<1> QED BY Zenon, <1>7, <1>13, <1>14 DEF n, W, base, RecentRun

\* A second item.
LEMMA AppendSecond ==
  ASSUME NEW X, NEW x \in X, NEW y \in X
  PROVE  Append(<< x >>, y) = << x, y >>
<1> DEFINE s == << x >>
           t == Append(s, y)
<1>1. s \in Seq(X) /\ Len(s) = 1 /\ s[1] = x
  OBVIOUS
<1> HIDE DEF s
<1>2. t \in Seq(X) /\ Len(t) = Len(s) + 1
  BY <1>1, AppendProperties
<1>3. \A i \in 1 .. Len(s) : t[i] = s[i]
  BY <1>1, AppendProperties
<1>4. t[Len(s) + 1] = y
  BY <1>1, AppendProperties
<1> HIDE DEF t
<1>5. 1 \in 1 .. Len(s) /\ Len(s) + 1 = 2
  BY <1>1
<1>6. Len(t) = 2 /\ t[1] = x /\ t[2] = y
  BY Zenon, <1>1, <1>2, <1>3, <1>4, <1>5
<1>7. t = << x, y >>
  <2> DEFINE u == << x, y >>
  <2>1. u \in Seq(X) /\ Len(u) = 2 /\ u[1] = x /\ u[2] = y
    OBVIOUS
  <2> HIDE DEF u
  <2>2. \A i \in 1 .. 2 : i = 1 \/ i = 2
    OBVIOUS
  <2>3. \A i \in 1 .. Len(t) : t[i] = u[i]
    BY Zenon, <1>6, <2>1, <2>2
  <2>4. t = u
    BY Zenon, <1>2, <1>6, <2>1, <2>3, SameRows
  <2> QED BY Zenon, <2>4 DEF u
<1> QED BY Zenon, <1>7 DEF s, t

\* What is left of two tries.
LEMMA RecentIs ==
  ASSUME NEW X, NEW region, NEW x \in X, NEW y \in X
  PROVE  LET recent == Data!Recent(region, << x, y >>)
         IN  \/ recent = << >>
             \/ \E s \in {x, y} : recent = << s >> /\ Data!Apart(s, region)
             \/ /\ recent = << x, y >> /\ Data!Apart(y, x)
                /\ Data!Apart(x, region) /\ Data!Apart(y, region)
<1> DEFINE tries == << x, y >>
<1>1. tries \in Seq(X) /\ Len(tries) = 2 /\ tries[1] = x /\ tries[2] = y
  OBVIOUS
<1> HIDE DEF tries
<1>7. PICK r : RecentRun(X, region, tries, r)
  BY Zenon, <1>1, RecentHasRun
<1>2. /\ r[0] = << >> /\ r[Len(tries)] = Data!Recent(region, tries)
      /\ \A i \in 1 .. Len(tries) : r[i] = RecentStep(X, region, tries, r[i - 1], i)
  BY Zenon, <1>7 DEF RecentRun
<1>3. r[1] = RecentStep(X, region, tries, << >>, 1) /\ r[2] = RecentStep(X, region, tries, r[1], 2)
  <2>1. 1 \in 1 .. 2 /\ 2 \in 1 .. 2 /\ 1 - 1 = 0 /\ 2 - 1 = 1
    OBVIOUS
  <2> QED BY Zenon, <1>1, <1>2, <2>1
<1>4. \/ r[1] = << >>
      \/ r[1] = << x >> /\ Data!Apart(x, region)
  <2>1. Append(<< >>, x) = << x >>
    OBVIOUS
  <2> QED BY Zenon, <1>1, <1>3, <2>1 DEF RecentStep
<1>5. CASE r[1] = << >>
  <2>1. Append(<< >>, y) = << y >>
    OBVIOUS
  <2>2. r[2] = << >> \/ (r[2] = << y >> /\ Data!Apart(y, region))
    BY Zenon, <1>1, <1>3, <1>5, <2>1 DEF RecentStep
  <2> QED BY Zenon, <1>1, <1>2, <2>2 DEF tries
<1>6. CASE r[1] = << x >> /\ Data!Apart(x, region)
  <2>1. Append(<< x >>, y) = << x, y >> /\ 1 \in DOMAIN << x >> /\ << x >>[1] = x
    <3>1. Append(<< x >>, y) = << x, y >>
      BY AppendSecond
    <3>2. 1 \in DOMAIN << x >> /\ << x >>[1] = x
      OBVIOUS
    <3> QED BY Zenon, <3>1, <3>2
  <2>2. \/ r[2] = << x >>
        \/ r[2] = << x, y >> /\ Data!Apart(y, region) /\ Data!Apart(y, x)
    <3>1. r[2] = IF Data!Apart(y, region) /\ \A j \in DOMAIN << x >> : Data!Apart(y, << x >>[j])
                 THEN Append(<< x >>, y) ELSE << x >>
      BY Zenon, <1>1, <1>3, <1>6 DEF RecentStep
    <3> QED BY Zenon, <2>1, <3>1
  <2> QED BY Zenon, <1>1, <1>2, <1>6, <2>2 DEF tries
<1> QED BY Zenon, <1>4, <1>5, <1>6

\* How many edits are before the region.
Ahead(s, region) == IF s[1] < region[1] THEN 1 ELSE 0

\* The region is moved by a byte for each of them.
LEMMA ShiftIs ==
  ASSUME NEW X, NEW region
  PROVE  /\ Data!shift(<< >>, region) = 0
         /\ \A s \in X : Data!shift(<< s >>, region) = Ahead(s, region)
         /\ \A x, y \in X : Data!shift(<< x, y >>, region) =
              Ahead(x, region) + Ahead(y, region)
<1> DEFINE Before(s) == Ahead(s, region)
           Keep(spans) == {span \in Data!ToSet(spans) : span[1] < region[1]}
<1>1. ASSUME NEW spans \in Seq(X), NEW r, SelectRun(X, spans, Keep(spans), r)
      PROVE  /\ Len(r[0]) = 0 /\ Data!shift(spans, region) = Len(r[Len(spans)])
             /\ \A i \in Nat : i + 1 <= Len(spans) =>
                  Len(r[i]) \in Nat /\ Len(r[i + 1]) = Len(r[i]) + Before(spans[i + 1])
  <2>1. r[0] = << >> /\ r[Len(spans)] = Data!Select(spans, Keep(spans))
    BY Zenon, <1>1 DEF SelectRun
  <2>2. Data!shift(spans, region) = Len(r[Len(spans)])
    BY Zenon, <2>1 DEF Data!shift
  <2>3. ASSUME NEW i \in Nat, i + 1 <= Len(spans)
        PROVE  Len(r[i]) \in Nat /\ Len(r[i + 1]) = Len(r[i]) + Before(spans[i + 1])
    <3>1. spans[i + 1] \in Keep(spans) <=> spans[i + 1][1] < region[1]
      <4>1. i + 1 \in DOMAIN spans
        BY <2>3
      <4> QED BY Zenon, <4>1 DEF Data!ToSet
    <3> DEFINE K == Keep(spans)
    <3>2. SelectRun(X, spans, K, r)
      BY <1>1
    <3> HIDE DEF K
    <3>3. /\ r[i] \in Seq(X) /\ r[i + 1] \in Seq(X)
          /\ spans[i + 1] \in K => Len(r[i + 1]) = Len(r[i]) + 1
          /\ spans[i + 1] \notin K => r[i + 1] = r[i]
      BY ONLY <2>3, <3>2, spans \in Seq(X), SelectNext
    <3>4. spans[i + 1] \in K <=> spans[i + 1][1] < region[1]
      BY Zenon, <3>1 DEF K
    <3>5. Len(r[i]) \in Nat
      BY <3>3
    <3>6. CASE spans[i + 1][1] < region[1]
      <4>1. Before(spans[i + 1]) = 1
        BY Zenon, <3>6 DEF Ahead
      <4> QED BY Zenon, <3>3, <3>4, <3>5, <3>6, <4>1
    <3>7. CASE ~(spans[i + 1][1] < region[1])
      <4>1. Before(spans[i + 1]) = 0
        BY Zenon, <3>7 DEF Ahead
      <4> HIDE DEF Before
      <4>2. r[i + 1] = r[i]
        BY Zenon, <3>3, <3>4, <3>7
      <4> QED BY <3>5, <4>1, <4>2
    <3> QED BY Zenon, <3>6, <3>7
  <2> QED BY <2>1, <2>2, <2>3
<1>2. \A spans \in Seq(X) : \E r : SelectRun(X, spans, Keep(spans), r)
  BY Zenon, SelectHasRun
<1> HIDE DEF Keep
<1>3. Data!shift(<< >>, region) = 0
  <2>1. << >> \in Seq(X) /\ Len(<< >>) = 0
    OBVIOUS
  <2>2. PICK r : SelectRun(X, << >>, Keep(<< >>), r)
    BY Zenon, <1>2, <2>1
  <2> QED BY Zenon, <1>1, <2>1, <2>2
<1>4. ASSUME NEW s \in X PROVE Data!shift(<< s >>, region) = Before(s)
  <2>1. << s >> \in Seq(X) /\ Len(<< s >>) = 1 /\ << s >>[1] = s
    OBVIOUS
  <2>2. PICK r : SelectRun(X, << s >>, Keep(<< s >>), r)
    BY Zenon, <1>2, <2>1
  <2>3. Len(r[0]) = 0 /\ Data!shift(<< s >>, region) = Len(r[1])
    BY Zenon, <1>1, <2>1, <2>2
  <2>4. Len(r[0 + 1]) = Len(r[0]) + Before(<< s >>[0 + 1])
    <3>1. 0 \in Nat /\ 0 + 1 <= Len(<< s >>)
      BY <2>1
    <3> QED BY Zenon, <1>1, <2>1, <2>2, <3>1
  <2>5. 0 + 1 = 1 /\ Before(s) \in Nat
    BY DEF Ahead
  <2>6. Len(r[1]) = 0 + Before(s)
    BY Zenon, <2>1, <2>3, <2>4, <2>5
  <2> HIDE DEF Before
  <2> QED BY <2>3, <2>5, <2>6
<1>5. ASSUME NEW x \in X, NEW y \in X
      PROVE  Data!shift(<< x, y >>, region) = Before(x) + Before(y)
  <2> DEFINE spans == << x, y >>
  <2>1. spans \in Seq(X) /\ Len(spans) = 2 /\ spans[1] = x /\ spans[2] = y
    OBVIOUS
  <2> HIDE DEF spans
  <2>2. PICK r : SelectRun(X, spans, Keep(spans), r)
    BY Zenon, <1>2, <2>1
  <2>3. Len(r[0]) = 0 /\ Data!shift(spans, region) = Len(r[2])
    BY Zenon, <1>1, <2>1, <2>2
  <2>4. Len(r[0 + 1]) = Len(r[0]) + Before(spans[0 + 1])
    <3>1. 0 \in Nat /\ 0 + 1 <= Len(spans)
      BY <2>1
    <3> QED BY Zenon, <1>1, <2>1, <2>2, <3>1
  <2>5. Len(r[1 + 1]) = Len(r[1]) + Before(spans[1 + 1])
    <3>1. 1 \in Nat /\ 1 + 1 <= Len(spans)
      BY <2>1
    <3> QED BY Zenon, <1>1, <2>1, <2>2, <3>1
  <2>6. 0 + 1 = 1 /\ 1 + 1 = 2 /\ Before(x) \in Nat /\ Before(y) \in Nat
    BY DEF Ahead
  <2>7. Len(r[1]) = 0 + Before(x) /\ Len(r[2]) = Len(r[1]) + Before(y)
    BY Zenon, <2>1, <2>3, <2>4, <2>5, <2>6
  <2>8. Len(r[2]) = Before(x) + Before(y)
    <3> HIDE DEF Before
    <3> QED BY <2>6, <2>7
  <2> QED BY Zenon, <2>3, <2>8 DEF spans
<1> QED BY Zenon, <1>3, <1>4, <1>5

\* The spans in order: no more than two here.
LEMMA InOrderIs ==
  ASSUME NEW X
  PROVE  /\ Data!InOrder(<< >>) = << >>
         /\ \A s \in X : Data!InOrder(<< s >>) = << s >>
         /\ \A x, y \in X : x[1] < y[1] /\ ~(y[1] < x[1]) =>
              /\ Data!InOrder(<< x, y >>) = << x, y >>
              /\ Data!InOrder(<< y, x >>) = << x, y >>
<1> DEFINE Sorted(spans, s) ==
             /\ s \in [DOMAIN spans -> Data!ToSet(spans)]
             /\ \A x \in Data!ToSet(spans) : x \in Data!ToSet(s)
             /\ \A i, j \in DOMAIN spans : i < j => s[i][1] < s[j][1]
<1>1. ASSUME NEW spans, NEW s, Sorted(spans, s)
      PROVE  Sorted(spans, Data!InOrder(spans))
  BY <1>1 DEF Data!InOrder
<1>2. Data!InOrder(<< >>) = << >>
  <2> DEFINE e == << >>
  <2>1. DOMAIN e = {} /\ e \in [{} -> Data!ToSet(e)] /\ Data!ToSet(e) = {}
    BY DEF Data!ToSet
  <2>2. Sorted(e, e)
    BY <2>1
  <2> HIDE DEF Sorted
  <2>3. Sorted(e, Data!InOrder(e))
    BY Zenon, <1>1, <2>2
  <2>4. Data!InOrder(e) \in [{} -> Data!ToSet(e)]
    BY <2>1, <2>3 DEF Sorted
  <2> QED BY <2>4
<1>3. ASSUME NEW s \in X PROVE Data!InOrder(<< s >>) = << s >>
  <2> DEFINE one == << s >>
  <2>1. DOMAIN one = {1} /\ one[1] = s /\ Data!ToSet(one) = {s}
    BY DEF Data!ToSet
  <2>2. one \in [{1} -> {s}] /\ \A f \in [{1} -> {s}] : f = one
    OBVIOUS
  <2> HIDE DEF one
  <2>3. Sorted(one, one)
    BY <2>1, <2>2
  <2>4. Sorted(one, Data!InOrder(one))
    BY <1>1, <2>3
  <2>5. Data!InOrder(one) \in [{1} -> {s}]
    BY <2>1, <2>4
  <2>6. Data!InOrder(one) = one
    BY Zenon, <2>2, <2>5
  <2> QED BY Zenon, <2>6 DEF one
<1>4. ASSUME NEW x \in X, NEW y \in X, x[1] < y[1], ~(y[1] < x[1]),
             NEW spans \in {<< x, y >>, << y, x >>}
      PROVE  Data!InOrder(spans) = << x, y >>
  <2> DEFINE two == << x, y >>
  <2>1. DOMAIN two = {1, 2} /\ two[1] = x /\ two[2] = y /\ Data!ToSet(two) = {x, y}
    BY DEF Data!ToSet
  <2>2. DOMAIN spans = {1, 2} /\ Data!ToSet(spans) = {x, y}
    BY DEF Data!ToSet
  <2>3. two \in [{1, 2} -> {x, y}]
        /\ \A f \in [{1, 2} -> {x, y}] : f[1] = x /\ f[2] = y => f = two
    OBVIOUS
  <2> HIDE DEF two
  <2>4. Sorted(spans, two)
    <3>1. \A i, j \in {1, 2} : i < j => i = 1 /\ j = 2
      OBVIOUS
    <3>2. \A i, j \in {1, 2} : i < j => two[i][1] < two[j][1]
      BY Zenon, <1>4, <2>1, <3>1
    <3> QED BY Zenon, <2>1, <2>2, <2>3, <3>2
  <2> DEFINE o == Data!InOrder(spans)
  <2>5. Sorted(spans, o)
    BY Zenon, <1>1, <2>4
  <2>6. /\ o \in [{1, 2} -> {x, y}] /\ \A z \in {x, y} : z \in Data!ToSet(o)
        /\ \A i, j \in {1, 2} : i < j => o[i][1] < o[j][1]
    BY Zenon, <2>2, <2>5
  <2> HIDE DEF o, Sorted
  <2>7. 1 < 2 /\ 1 \in {1, 2} /\ 2 \in {1, 2}
    OBVIOUS
  <2>8. o[1][1] < o[2][1]
    BY Zenon, <2>6, <2>7
  <2>9. o[1] \in {x, y} /\ o[2] \in {x, y}
    BY Zenon, <2>6, <2>7
  <2>10. DOMAIN o = {1, 2}
    BY <2>6
  <2>11. (o[1] = x \/ o[2] = x) /\ (o[1] = y \/ o[2] = y)
    BY <2>6, <2>10 DEF Data!ToSet
  <2>12. x # y
    BY Zenon, <1>4
  <2>13. o[1] = x /\ o[2] = y
    BY Zenon, <1>4, <2>8, <2>9, <2>11, <2>12
  <2> QED BY Zenon, <2>3, <2>6, <2>13 DEF o, two
<1> HIDE DEF Sorted
<1> QED BY Zenon, <1>2, <1>3, <1>4

\* The text after the first edits, up to where the last of them ends.
EditStep(raw, spans, s, i) ==
  [out |-> s.out \o Data!Slice(raw, s.cursor, spans[i][1])
             \o Data!_mutate_region(Data!Slice(raw, spans[i][1], spans[i][2])),
   cursor |-> spans[i][2]]
EditedBy(raw, spans) ==
  Data!FoldLeft(LAMBDA s, span :
                  [out |-> s.out \o Data!Slice(raw, s.cursor, span[1])
                             \o Data!_mutate_region(Data!Slice(raw, span[1], span[2])),
                   cursor |-> span[2]],
                [out |-> << >>, cursor |-> 0], spans)

\* After it the text stays.
LEMMA ApplyIs ==
  ASSUME NEW raw, NEW recent
  PROVE  Data!_apply_non_overlapping(raw, recent) =
           EditedBy(raw, Data!InOrder(recent)).out
             \o Data!Slice(raw, EditedBy(raw, Data!InOrder(recent)).cursor, Len(raw))
  BY DEF Data!_apply_non_overlapping, EditedBy, Data!FoldLeft, Data!MapThenFoldSet

\* A slice of units is one of units.
LEMMA SliceType ==
  ASSUME NEW X, NEW raw \in Seq(X), NEW a \in Nat, NEW b \in 0 .. Len(raw)
  PROVE  Data!Slice(raw, a, b) \in Seq(X)
<1>1. \A i \in a + 1 .. b : raw[i] \in X
  OBVIOUS
<1> QED BY <1>1, SubSeqProperties DEF Data!Slice

\* The recursion inside the fold of _apply_non_overlapping.
EditRec(raw, spans, h) ==
  h = [d \in SUBSET DOMAIN spans |->
         IF d = {} THEN [out |-> << >>, cursor |-> 0]
         ELSE EditStep(raw, spans, h[d \ {Max(d)}], Max(d))]

\* EditedBy is its recursion.
LEMMA EditUnfolds ==
  ASSUME NEW raw, NEW spans
  PROVE  EditedBy(raw, spans) = (CHOOSE h : EditRec(raw, spans, h))[DOMAIN spans]
  BY DEF EditedBy, Data!FoldLeft, Data!MapThenFoldSet, Data!Max, Max,
         EditRec, EditStep

\* Its values after each item.
EditRun(raw, spans, r) ==
  /\ r \in [0 .. Len(spans) -> [out : Seq(Units), cursor : Nat]]
  /\ r[0] = [out |-> << >>, cursor |-> 0]
  /\ r[Len(spans)] = EditedBy(raw, spans)
  /\ \A i \in 1 .. Len(spans) : r[i] = EditStep(raw, spans, r[i - 1], i)

\* It is carried out item by item.
LEMMA EditHasRun ==
  ASSUME NEW raw \in Wholes, NEW spans \in Seq(Spans(raw))
  PROVE  \E r : EditRun(raw, spans, r)
<1> DEFINE n == Len(spans)
           W == [out : Seq(Units), cursor : Nat]
           base == [out |-> << >>, cursor |-> 0]
           G == [p \in (1 .. n) \X W |-> EditStep(raw, spans, p[2], p[1])]
<1>1. n \in Nat /\ DOMAIN spans = 1 .. n
  OBVIOUS
<1>2. base \in W
  OBVIOUS
<1>3. \A i \in 1 .. n, t \in W : EditStep(raw, spans, t, i) \in W
  <2> TAKE i \in 1 .. n, t \in W
  <2>1. /\ t.out \in Seq(Units) /\ t.cursor \in Nat /\ raw \in Seq(Units)
        /\ spans[i] \in Spans(raw)
    BY DEF Wholes
  <2>2. spans[i][1] \in 0 .. Len(raw) /\ spans[i][2] \in 0 .. Len(raw) /\ spans[i][1] \in Nat
        /\ spans[i][2] \in Nat
    BY <2>1 DEF Spans, Cut
  <2> DEFINE x == Data!Slice(raw, t.cursor, spans[i][1])
             y == Data!Slice(raw, spans[i][1], spans[i][2])
  <2>3. x \in Seq(Units) /\ y \in Seq(Units)
    BY Zenon, <2>1, <2>2, SliceType
  <2> HIDE DEF x, y
  <2>4. Data!_mutate_region(y) \in Seq(Units)
    BY <2>3 DEF Data!_mutate_region, Units, Narrow
  <2>5. t.out \o x \o Data!_mutate_region(y) \in Seq(Units)
    BY <2>1, <2>3, <2>4
  <2> QED BY <2>2, <2>5 DEF EditStep, x, y
<1> HIDE DEF n, W
<1>4. G \in [(1 .. n) \X W -> W]
  BY <1>3
<1>5. \A i \in 1 .. n, t \in W : G[<< i, t >>] = EditStep(raw, spans, t, i)
  OBVIOUS
<1> HIDE DEF G, base
<1>6. PICK h, r : FoldRun(n, W, base, G, h, r)
  BY ONLY <1>1, <1>2, <1>4, FoldSteps
<1>7. /\ h \in [SUBSET (1 .. n) -> W] /\ r \in [0 .. n -> W]
      /\ Fold(base, G, 1 .. n, h) /\ r[0] = base
      /\ \A j \in 1 .. n : r[j] = G[<< j, r[j - 1] >>]
  BY ONLY <1>6 DEF FoldRun
<1>8. \A d \in SUBSET (1 .. n) : d # {} => Max(d) \in 1 .. n /\ d \ {Max(d)} \in SUBSET (1 .. n)
  BY <1>1, IndexIn
<1>9. EditRec(raw, spans, h)
  <2>1. h = [d \in SUBSET (1 .. n) |->
               IF d = {} THEN base ELSE G[<< Max(d), h[d \ {Max(d)}] >>]]
    BY <1>7 DEF Fold
  <2>2. ASSUME NEW d \in SUBSET (1 .. n), d # {}
        PROVE  G[<< Max(d), h[d \ {Max(d)}] >>] = EditStep(raw, spans, h[d \ {Max(d)}], Max(d))
    <3>1. Max(d) \in 1 .. n /\ h[d \ {Max(d)}] \in W
      BY <1>7, <1>8, <2>2
    <3> QED BY <1>5, <3>1
  <2>3. h = [d \in SUBSET (1 .. n) |->
               IF d = {} THEN base ELSE EditStep(raw, spans, h[d \ {Max(d)}], Max(d))]
    BY <2>1, <2>2
  <2> QED BY <1>1, <2>3 DEF EditRec, base
<1> DEFINE k == CHOOSE g : EditRec(raw, spans, g)
<1>10. EditRec(raw, spans, k)
  BY <1>9
<1> HIDE DEF k
<1>11. Stepwise(n, W, base, G, k)
  <2>1. k = [d \in SUBSET (1 .. n) |->
               IF d = {} THEN base ELSE EditStep(raw, spans, k[d \ {Max(d)}], Max(d))]
    BY <1>1, <1>10 DEF EditRec, base
  <2>2. k[{}] = base
    BY <2>1
  <2>3. ASSUME NEW i \in 1 .. n, k[1 .. i - 1] \in W
        PROVE  k[1 .. i] = G[<< i, k[1 .. i - 1] >>]
    <3>1. Max(1 .. i) = i
      BY LastIndex
    <3>2. (1 .. i) \ {i} = 1 .. i - 1 /\ i \in 1 .. i /\ 1 .. i \in SUBSET (1 .. n)
      BY ONLY <1>1, i \in 1 .. n
    <3>3. k[1 .. i] = EditStep(raw, spans, k[1 .. i - 1], i)
      BY <2>1, <3>1, <3>2
    <3> QED BY <1>5, <2>3, <3>3
  <2> QED BY <2>2, <2>3 DEF Stepwise
<1>12. \A i \in 0 .. n : k[1 .. i] = r[i]
  BY ONLY <1>1, <1>6, <1>11, RunIs
<1>13. r[n] = EditedBy(raw, spans)
  <2>1. EditedBy(raw, spans) = k[DOMAIN spans]
    BY EditUnfolds DEF k
  <2>2. n \in 0 .. n
    BY <1>1
  <2> QED BY <1>1, <1>12, <2>1, <2>2
<1>14. \A i \in 1 .. n : r[i] = EditStep(raw, spans, r[i - 1], i)
  <2> TAKE i \in 1 .. n
  <2>1. i - 1 \in 0 .. n
    BY <1>1
  <2> QED BY <1>5, <1>7, <2>1
<1> QED BY Zenon, <1>7, <1>13, <1>14 DEF n, W, base, EditRun

\* The byte a recent edit adds.
Added == << << "a", 1 >> >>

\* Three sequences one after the other.
LEMMA JoinThree ==
  ASSUME NEW X, NEW x \in Seq(X), NEW y \in Seq(X), NEW z \in Seq(X)
  PROVE  (x \o y) \o z = x \o (y \o z)
  OBVIOUS

\* One edit after what is there.
OutOf(raw, out, c, p, q) ==
  out \o Data!Slice(raw, c, p) \o Data!_mutate_region(Data!Slice(raw, p, q))
Onto(raw, out, c, q) == out \o (Data!Slice(raw, c, q) \o Added)

\* It is the slice before its end with the byte added.
LEMMA EditAdds ==
  ASSUME NEW raw \in Seq(Units), NEW out \in Seq(Units),
         NEW c \in Nat, NEW p \in Nat, NEW q \in Nat,
         c <= p, p <= q, q <= Len(raw)
  PROVE  OutOf(raw, out, c, p, q) = Onto(raw, out, c, q)
<1> DEFINE x == Data!Slice(raw, c, p)
           y == Data!Slice(raw, p, q)
<1>1. x \o y = Data!Slice(raw, c, q)
  BY SliceJoin
<1>2. x \in Seq(Units) /\ y \in Seq(Units)
  BY SliceType
<1>3. Data!_mutate_region(y) = y \o Added
  BY Zenon DEF Data!_mutate_region, Added
<1>4. Added \in Seq(Units)
  BY DEF Added, Units, Narrow
<1> HIDE DEF x, y
<1>5. (out \o x) \o (y \o Added) = out \o ((x \o y) \o Added)
  <2> DEFINE w == y \o Added
  <2>1. w \in Seq(Units)
    BY <1>2, <1>4, JoinRows
  <2> HIDE DEF w
  <2>2. (out \o x) \o w = out \o (x \o w)
    BY ONLY SMTT(30), out \in Seq(Units), <1>2, <2>1, JoinThree
  <2>3. x \o (y \o Added) = (x \o y) \o Added
    BY ONLY SMTT(30), <1>2, <1>4, JoinThree
  <2> QED BY Zenon, <2>2, <2>3 DEF w
<1> QED BY Zenon, <1>1, <1>3, <1>5 DEF x, y, OutOf, Onto

\* The text after no, one or two edits.
LEMMA ApplyFew ==
  ASSUME NEW raw \in Wholes
  PROVE  /\ Data!_apply_non_overlapping(raw, << >>) = raw
         /\ \A s \in Spans(raw) : Data!_apply_non_overlapping(raw, << s >>) =
              (Data!Slice(raw, 0, s[2]) \o Added) \o Data!Slice(raw, s[2], Len(raw))
         /\ \A s, t \in Spans(raw) : \A recent \in {<< s, t >>, << t, s >>} :
              s[1] < s[2] /\ s[2] <= t[1] =>
                Data!_apply_non_overlapping(raw, recent) =
                  ((Data!Slice(raw, 0, s[2]) \o Added) \o (Data!Slice(raw, s[2], t[2]) \o Added))
                    \o Data!Slice(raw, t[2], Len(raw))
<1> DEFINE n == Len(raw)
           First(s) == [out |-> Data!Slice(raw, 0, s[2]) \o Added, cursor |-> s[2]]
           empty == [out |-> << >>, cursor |-> 0]
<1>1. raw \in Seq(Units) /\ n \in Nat /\ Added \in Seq(Units)
  BY DEF Wholes, Added, Units, Narrow
<1>2. ASSUME NEW s \in Spans(raw)
      PROVE  s[1] \in Nat /\ s[2] \in Nat /\ s[1] <= s[2] /\ s[2] <= n
  BY <1>1 DEF Spans, Cut
<1>3. ASSUME NEW spans \in Seq(Spans(raw)), Len(spans) > 0
      PROVE  EditStep(raw, spans, empty, 1) = First(spans[1])
  <2> DEFINE s == spans[1]
  <2>1. s \in Spans(raw)
    BY <1>3
  <2>2. << >> \o Data!Slice(raw, 0, s[1]) \o Data!_mutate_region(Data!Slice(raw, s[1], s[2])) =
          << >> \o (Data!Slice(raw, 0, s[2]) \o Added)
    <3>1. s[1] \in Nat /\ s[2] \in Nat /\ s[1] <= s[2] /\ s[2] <= Len(raw) /\ 0 <= s[1]
      BY <1>2, <2>1
    <3> HIDE DEF s
    <3> DEFINE e == << >>
    <3>2. e \in Seq(Units) /\ 0 \in Nat
      OBVIOUS
    <3> HIDE DEF e
    <3>3. OutOf(raw, e, 0, s[1], s[2]) = Onto(raw, e, 0, s[2])
      BY ONLY <1>1, <3>1, <3>2, EditAdds
    <3> QED BY Zenon, <3>3 DEF s, e, OutOf, Onto
  <2>3. << >> \o (Data!Slice(raw, 0, s[2]) \o Added) = Data!Slice(raw, 0, s[2]) \o Added
    <3>1. Data!Slice(raw, 0, s[2]) \in Seq(Units)
      BY <1>1, <1>2, <2>1, SliceType
    <3> QED BY <1>1, <3>1
  <2>4. empty.out = << >> /\ empty.cursor = 0
    OBVIOUS
  <2> QED BY Zenon, <2>2, <2>3, <2>4 DEF EditStep
<1>4. Data!_apply_non_overlapping(raw, << >>) = raw
  <2>1. << >> \in Seq(Spans(raw)) /\ Len(<< >>) = 0
    OBVIOUS
  <2>2. PICK r : EditRun(raw, << >>, r)
    BY Zenon, <2>1, EditHasRun
  <2>3. EditedBy(raw, << >>) = empty
    BY Zenon, <2>1, <2>2 DEF EditRun
  <2>4. Data!_apply_non_overlapping(raw, << >>) = << >> \o Data!Slice(raw, 0, n)
    <3>1. empty.out = << >> /\ empty.cursor = 0
      OBVIOUS
    <3> QED BY Zenon, <2>3, <3>1, ApplyIs, InOrderIs
  <2>5. Data!Slice(raw, 0, n) = raw
    BY <1>1 DEF Data!Slice
  <2> QED BY <1>1, <2>4, <2>5
<1>5. ASSUME NEW s \in Spans(raw)
      PROVE  Data!_apply_non_overlapping(raw, << s >>) =
               (Data!Slice(raw, 0, s[2]) \o Added) \o Data!Slice(raw, s[2], n)
  <2> DEFINE one == << s >>
  <2>1. one \in Seq(Spans(raw)) /\ Len(one) = 1 /\ one[1] = s
    OBVIOUS
  <2>2. Data!InOrder(one) = one
    BY Zenon, InOrderIs
  <2> HIDE DEF one
  <2>3. PICK r : EditRun(raw, one, r)
    BY Zenon, <2>1, EditHasRun
  <2>4. EditedBy(raw, one) = r[1] /\ r[0] = empty /\ r[1] = EditStep(raw, one, r[0], 1)
    <3>1. 1 \in 1 .. 1 /\ 1 - 1 = 0
      OBVIOUS
    <3> QED BY Zenon, <2>1, <2>3, <3>1 DEF EditRun
  <2>5. EditedBy(raw, one) = First(s)
    <3>1. Len(one) > 0
      BY <2>1
    <3> QED BY Zenon, <1>3, <2>1, <2>4, <3>1
  <2>6. First(s).out = Data!Slice(raw, 0, s[2]) \o Added /\ First(s).cursor = s[2]
    OBVIOUS
  <2> HIDE DEF First
  <2> QED BY Zenon, <2>2, <2>5, <2>6, ApplyIs DEF one
<1>6. ASSUME NEW s \in Spans(raw), NEW t \in Spans(raw), NEW recent \in {<< s, t >>, << t, s >>},
             s[1] < s[2], s[2] <= t[1]
      PROVE  Data!_apply_non_overlapping(raw, recent) =
               ((Data!Slice(raw, 0, s[2]) \o Added) \o (Data!Slice(raw, s[2], t[2]) \o Added))
                 \o Data!Slice(raw, t[2], n)
  <2> DEFINE two == << s, t >>
             u == Data!Slice(raw, 0, s[2]) \o Added
             v == Data!Slice(raw, s[2], t[2]) \o Added
  <2>1. two \in Seq(Spans(raw)) /\ Len(two) = 2 /\ two[1] = s /\ two[2] = t
    OBVIOUS
  <2>2. Data!InOrder(recent) = two
    <3>1. s[1] < t[1] /\ ~(t[1] < s[1])
      BY <1>2, <1>6
    <3> QED BY Zenon, <1>6, <3>1, InOrderIs
  <2> HIDE DEF two
  <2>3. PICK r : EditRun(raw, two, r)
    BY Zenon, <2>1, EditHasRun
  <2>4. /\ EditedBy(raw, two) = r[2] /\ r[0] = empty /\ r[1] = EditStep(raw, two, r[0], 1)
        /\ r[2] = EditStep(raw, two, r[1], 2)
    <3>1. 1 \in 1 .. 2 /\ 1 - 1 = 0 /\ 2 \in 1 .. 2 /\ 2 - 1 = 1
      OBVIOUS
    <3> QED BY Zenon, <2>1, <2>3, <3>1 DEF EditRun
  <2>5. r[1] = First(s)
    <3>1. Len(two) > 0
      BY <2>1
    <3> QED BY Zenon, <1>3, <2>1, <2>4, <3>1
  <2>6. First(s).out = u /\ First(s).cursor = s[2]
    OBVIOUS
  <2> HIDE DEF First
  <2>7. u \in Seq(Units)
    BY <1>1, <1>2, SliceType
  <2>8. u \o Data!Slice(raw, s[2], t[1]) \o Data!_mutate_region(Data!Slice(raw, t[1], t[2])) =
          u \o v
    <3>1. /\ s[2] \in Nat /\ t[1] \in Nat /\ t[2] \in Nat /\ s[2] <= t[1] /\ t[1] <= t[2]
          /\ t[2] <= Len(raw)
      BY <1>2, <1>6
    <3> HIDE DEF u
    <3>2. OutOf(raw, u, s[2], t[1], t[2]) = Onto(raw, u, s[2], t[2])
      BY ONLY <1>1, <2>7, <3>1, EditAdds
    <3> QED BY Zenon, <3>2 DEF v, OutOf, Onto
  <2>9. r[2] = [out |-> u \o v, cursor |-> t[2]]
    BY Zenon, <2>1, <2>4, <2>5, <2>6, <2>8 DEF EditStep
  <2> HIDE DEF u, v
  <2>10. r[2].out = u \o v /\ r[2].cursor = t[2]
    BY <2>9
  <2> QED BY Zenon, <2>2, <2>4, <2>10, ApplyIs DEF u, v
<1> QED BY Zenon, <1>4, <1>5, <1>6

\* A part between two others, and the text after one edit and after two.
Mid(u, m, v) == u \o m \o v
One(h, d, w) == (h \o d) \o w
Two(h, d, m, w) == ((h \o d) \o (m \o d)) \o w

\* They may be joined in any order.
Joins(x, y, z) == (x \o y) \o z = x \o (y \o z)

\* As three sequences of one set may.
LEMMA JoinAny ==
  ASSUME NEW X, NEW x \in Seq(X), NEW y \in Seq(X), NEW z \in Seq(X)
  PROVE  Joins(x, y, z)
  BY JoinThree DEF Joins

\* Where the parts of the text are.
Parts(h, d, m, w) ==
         /\ Mid(<< >>, h, d \o w) = One(h, d, w)
         /\ Mid(h \o d, w, << >>) = One(h, d, w)
         /\ Mid(<< >>, h, d \o ((m \o d) \o w)) = Two(h, d, m, w)
         /\ Mid(h \o d, m, d \o w) = Two(h, d, m, w)
         /\ Mid((h \o d) \o (m \o d), w, << >>) = Two(h, d, m, w)

\* They are there whatever was joined first.
LEMMA PartsOf ==
  ASSUME NEW X, NEW h \in Seq(X), NEW d \in Seq(X), NEW m \in Seq(X), NEW w \in Seq(X)
  PROVE  Parts(h, d, m, w)
<1>1. /\ h \o d \in Seq(X) /\ m \o d \in Seq(X) /\ d \o w \in Seq(X)
  BY JoinRows
<1> DEFINE u == h \o d
           v == m \o d
<1>2. u \in Seq(X) /\ v \in Seq(X)
  BY <1>1
<1>3. \A x \in Seq(X) : << >> \o x = x /\ x \o << >> = x
  OBVIOUS
<1>4. << >> \o h \o (d \o w) = u \o w
  <2>1. << >> \o h = h
    BY <1>3
  <2>2. h \o (d \o w) = (h \o d) \o w
    BY ONLY SMTT(30), h \in Seq(X), d \in Seq(X), w \in Seq(X), JoinThree
  <2> QED BY Zenon, <2>1, <2>2
<1>5. u \o w \o << >> = u \o w
  <2> HIDE DEF u
  <2>1. u \o w \in Seq(X)
    BY ONLY <1>2, w \in Seq(X), JoinRows
  <2> DEFINE z == u \o w
  <2>2. z \in Seq(X)
    BY <2>1
  <2> HIDE DEF z
  <2>3. z \o << >> = z
    BY ONLY <1>3, <2>2
  <2> QED BY Zenon, <2>3 DEF z
<1> HIDE DEF v
<1>6. (u \o v) \o w = u \o (v \o w)
  <2> HIDE DEF u
  <2> QED BY ONLY SMTT(30), <1>2, w \in Seq(X), JoinThree
<1>7. << >> \o h \o (d \o (v \o w)) = (u \o v) \o w
  <2> DEFINE z == v \o w
  <2>1. z \in Seq(X)
    BY ONLY <1>2, w \in Seq(X), JoinRows
  <2> HIDE DEF z
  <2>2. << >> \o h = h
    BY <1>3
  <2>3. h \o (d \o z) = (h \o d) \o z
    <3>1. Joins(h, d, z)
      BY Zenon, <2>1, JoinAny
    <3> QED BY Zenon, <3>1 DEF Joins
  <2> QED BY Zenon, <1>6, <2>2, <2>3 DEF z
<1>8. u \o m \o (d \o w) = (u \o v) \o w
  <2> DEFINE z == d \o w
  <2>1. m \o (d \o w) = (m \o d) \o w
    BY ONLY SMTT(30), m \in Seq(X), d \in Seq(X), w \in Seq(X), JoinThree
  <2>2. z \in Seq(X)
    BY <1>1
  <2> HIDE DEF u, z
  <2>3. (u \o m) \o z = u \o (m \o z)
    <3>1. Joins(u, m, z)
      BY Zenon, <1>2, <2>2, JoinAny
    <3> QED BY Zenon, <3>1 DEF Joins
  <2> QED BY Zenon, <1>6, <2>1, <2>3 DEF v, z
<1>9. (u \o v) \o w \o << >> = (u \o v) \o w
  <2> HIDE DEF u
  <2> DEFINE z == (u \o v) \o w
  <2>1. u \o v \in Seq(X)
    BY ONLY <1>2, JoinRows
  <2> DEFINE y == u \o v
  <2>2. y \in Seq(X)
    BY <2>1
  <2> HIDE DEF y
  <2>3. y \o w \in Seq(X)
    BY ONLY <2>2, w \in Seq(X), JoinRows
  <2>4. z \in Seq(X)
    BY Zenon, <2>3 DEF y
  <2> HIDE DEF z
  <2>5. z \o << >> = z
    BY ONLY <1>3, <2>4
  <2> QED BY Zenon, <2>5 DEF z
<1> QED BY Zenon, <1>4, <1>5, <1>7, <1>8, <1>9 DEF u, v, Mid, One, Two, Parts

\* The items of a slice.
LEMMA SpanRows ==
  ASSUME NEW X, NEW s \in Seq(X), NEW a \in Nat, NEW b \in Nat, a <= b, b <= Len(s)
  PROVE  /\ Data!Slice(s, a, b) \in Seq(X) /\ Len(Data!Slice(s, a, b)) = b - a
         /\ \A i \in 1 .. b - a : Data!Slice(s, a, b)[i] = s[a + i]
  BY CutRows DEF Data!Slice

\* A slice of a part that stays is found at the offset of the part.
PartAt(raw, u, a, b, v, p, q, k) ==
  Data!Slice(Mid(u, Data!Slice(raw, a, b), v), p + k, q + k) = Data!Slice(raw, p, q)

\* It does when the part before it has grown by that much.
LEMMA PartFound ==
  ASSUME NEW raw \in Seq(Units), NEW u \in Seq(Units), NEW v \in Seq(Units), NEW a \in Nat,
         NEW b \in Nat, NEW p \in Nat, NEW q \in Nat, NEW k \in Nat,
         a <= p, p <= q, q <= b, b <= Len(raw), Len(u) = a + k
  PROVE  PartAt(raw, u, a, b, v, p, q, k)
<1> DEFINE m == Data!Slice(raw, a, b)
           z == u \o m \o v
           x == SubSeq(z, (p + k) + 1, q + k)
           y == SubSeq(raw, p + 1, q)
<1>1. m \in Seq(Units) /\ Len(m) = b - a /\ \A i \in 1 .. b - a : m[i] = raw[a + i]
  <2>1. a <= b
    OBVIOUS
  <2> QED BY Zenon, <2>1, SpanRows
<1> HIDE DEF m
<1>8. u \o m \in Seq(Units) /\ Len(u \o m) = Len(u) + Len(m)
  BY ONLY <1>1, u \in Seq(Units), JoinRows
<1>2. z \in Seq(Units) /\ Len(z) = (a + k) + (b - a) + Len(v)
  <2> DEFINE t == u \o m
  <2>1. t \in Seq(Units) /\ Len(t) = (a + k) + (b - a)
    BY <1>1, <1>8
  <2> HIDE DEF t
  <2>2. t \o v \in Seq(Units) /\ Len(t \o v) = Len(t) + Len(v)
    BY ONLY <2>1, v \in Seq(Units), JoinRows
  <2> QED BY <2>1, <2>2 DEF t
<1>3. \A i \in 1 .. b - a : z[(a + k) + i] = m[i]
  <2>1. u \o m \in Seq(Units) /\ Len(u \o m) = (a + k) + (b - a)
    BY <1>1, <1>8
  <2> TAKE i \in 1 .. b - a
  <2>2. (a + k) + i \in 1 .. Len(u \o m) /\ (a + k) + i \in Len(u) + 1 .. Len(u) + Len(m)
    BY <1>1, <2>1
  <2>3. z[(a + k) + i] = (u \o m)[(a + k) + i]
    BY ONLY <2>1, <2>2, v \in Seq(Units), JoinRows
  <2>4. (u \o m)[(a + k) + i] = m[((a + k) + i) - Len(u)]
    BY ONLY <1>1, <2>2, u \in Seq(Units), JoinRows
  <2>5. ((a + k) + i) - Len(u) = i
    OBVIOUS
  <2> QED BY Zenon, <2>3, <2>4, <2>5
<1> HIDE DEF z
<1>4. x \in Seq(Units) /\ Len(x) = q - p /\ \A i \in 1 .. q - p : x[i] = z[(p + k) + i]
  <2>1. /\ p + k \in Nat /\ q + k \in Nat /\ p + k <= q + k /\ q + k <= Len(z)
        /\ (q + k) - (p + k) = q - p
    BY <1>2
  <2>2. /\ x \in Seq(Units) /\ Len(x) = (q + k) - (p + k)
        /\ \A i \in 1 .. (q + k) - (p + k) : x[i] = z[(p + k) + i]
    BY ONLY <1>2, <2>1, CutRows
  <2> QED BY Zenon, <2>1, <2>2
<1>5. y \in Seq(Units) /\ Len(y) = q - p /\ \A i \in 1 .. q - p : y[i] = raw[p + i]
  <2>1. q <= Len(raw)
    OBVIOUS
  <2> QED BY ONLY <2>1, raw \in Seq(Units), p \in Nat, q \in Nat, p <= q, CutRows
<1> HIDE DEF x, y
<1>6. ASSUME NEW i \in 1 .. Len(x) PROVE x[i] = y[i]
  <2>1. /\ i \in 1 .. q - p /\ (p - a) + i \in 1 .. b - a
        /\ (p + k) + i = (a + k) + ((p - a) + i) /\ a + ((p - a) + i) = p + i
    BY <1>4
  <2>2. x[i] = z[(a + k) + ((p - a) + i)]
    BY Zenon, <1>4, <2>1
  <2>3. z[(a + k) + ((p - a) + i)] = raw[a + ((p - a) + i)]
    BY Zenon, <1>1, <1>3, <2>1
  <2> QED BY Zenon, <1>5, <2>1, <2>2, <2>3
<1>7. x = y
  BY Zenon, <1>4, <1>5, <1>6, SameRows
<1> QED BY Zenon, <1>7 DEF x, y, z, m, Mid, PartAt, Data!Slice

\* The text is whole and has the region, k bytes further on.
Placed(raw, region, current, k) ==
  /\ current \in Wholes
  /\ Data!Slice(current, region[1] + k, region[2] + k) = Data!Slice(raw, region[1], region[2])

\* What is known of a span between two glyphs.
LEMMA SpanFacts ==
  ASSUME NEW raw \in Wholes, NEW s \in Spans(raw)
  PROVE  /\ s[1] \in Nat /\ s[2] \in Nat /\ s[1] <= s[2] /\ s[2] <= Len(raw)
         /\ Cut(raw, s[1]) /\ Cut(raw, s[2]) /\ Len(raw) \in Nat
         /\ Cut(raw, 0) /\ Cut(raw, Len(raw))
<1>1. Len(raw) \in Nat /\ raw \in Seq(Units)
  BY DEF Wholes
<1>2. Cut(raw, 0) /\ Cut(raw, Len(raw))
  <2>1. 0 < Len(raw) => raw[0 + 1] # Trail
    BY DEF Wholes
  <2> QED BY <1>1, <2>1 DEF Cut
<1>3. s[1] \in Nat /\ s[2] \in Nat /\ s[1] <= s[2] /\ Cut(raw, s[1]) /\ Cut(raw, s[2])
  BY DEF Spans
<1> QED BY <1>1, <1>2, <1>3 DEF Cut

\* A slice that ends in an added byte.
LEMMA AddedSlice ==
  ASSUME NEW raw \in Wholes, NEW a \in Nat, NEW b \in Nat, Cut(raw, a), Cut(raw, b), a <= b
  PROVE  /\ Data!Slice(raw, a, b) \in Wholes /\ Data!Slice(raw, a, b) \o Added \in Wholes
         /\ Len(Data!Slice(raw, a, b) \o Added) = (b - a) + 1
<1>1. Data!Slice(raw, a, b) \in Wholes
  BY Zenon, WholeSlice
<1>2. Added \in Wholes
  BY Zenon, WholeGlyph DEF Added, Narrow
<1>3. Data!Slice(raw, a, b) \o Added \in Wholes
  BY Zenon, <1>1, <1>2, WholeJoin
<1>4. raw \in Seq(Units) /\ b <= Len(raw)
  BY DEF Wholes, Cut
<1>5. Len(Data!Slice(raw, a, b)) = b - a /\ Data!Slice(raw, a, b) \in Seq(Units)
  BY Zenon, <1>4, SpanRows
<1>6. Added \in Seq(Units) /\ Len(Added) = 1
  BY DEF Added, Units, Narrow
<1>7. Len(Data!Slice(raw, a, b) \o Added) = Len(Data!Slice(raw, a, b)) + Len(Added)
  BY Zenon, <1>5, <1>6, JoinRows
<1> QED BY Zenon, <1>1, <1>3, <1>5, <1>6, <1>7

\* No edit, one edit apart from the region and two.
LEMMA EditsPlaced ==
  ASSUME NEW raw \in Wholes, NEW region \in Spans(raw)
  PROVE  /\ Placed(raw, region, raw, 0)
         /\ \A s \in Spans(raw) : s[1] < s[2] /\ Data!Apart(s, region) =>
              Placed(raw, region, Data!_apply_non_overlapping(raw, << s >>),
                     Ahead(s, region))
         /\ \A s, t \in Spans(raw) : \A recent \in {<< s, t >>, << t, s >>} :
              (/\ s[1] < s[2] /\ s[2] <= t[1] /\ t[1] < t[2]
               /\ Data!Apart(s, region) /\ Data!Apart(t, region)) =>
                   Placed(raw, region, Data!_apply_non_overlapping(raw, recent),
                          Ahead(s, region) + Ahead(t, region))
<1> DEFINE n == Len(raw)
           p == region[1]
           q == region[2]
<1>1. /\ p \in Nat /\ q \in Nat /\ p <= q /\ q <= n /\ n \in Nat /\ Cut(raw, 0) /\ Cut(raw, n)
      /\ raw \in Seq(Units)
  BY SpanFacts DEF Wholes
<1>2. Placed(raw, region, raw, 0)
  BY <1>1 DEF Placed
<1>3. Wholes \subseteq Seq(Units) /\ << >> \in Seq(Units)
  BY DEF Wholes
<1>4. ASSUME NEW s \in Spans(raw), s[1] < s[2], Data!Apart(s, region)
      PROVE  Placed(raw, region, Data!_apply_non_overlapping(raw, << s >>),
                    Ahead(s, region))
  <2> DEFINE u == Data!Slice(raw, 0, s[2])
             v == u \o Added
             w == Data!Slice(raw, s[2], n)
             current == One(u, Added, w)
             k == Ahead(s, region)
  <2>1. /\ s[1] \in Nat /\ s[2] \in Nat /\ s[2] <= n /\ Cut(raw, s[2])
        /\ s[2] <= p \/ s[1] >= q
    BY <1>4, SpanFacts DEF Data!Apart
  <2>2. u \in Wholes /\ v \in Wholes /\ Len(v) = s[2] + 1 /\ w \in Wholes
    <3>1. 0 \in Nat /\ 0 <= s[2]
      BY <2>1
    <3>2. u \in Wholes /\ v \in Wholes /\ Len(v) = (s[2] - 0) + 1
      BY Zenon, <1>1, <2>1, <3>1, AddedSlice
    <3>3. w \in Wholes
      BY Zenon, <1>1, <2>1, WholeSlice
    <3> QED BY <2>1, <3>2, <3>3
  <2>3. current = Data!_apply_non_overlapping(raw, << s >>)
    BY Zenon, ApplyFew DEF One
  <2>4. current \in Wholes
    BY Zenon, <2>2, WholeJoin DEF One
  <2>5. Added \in Seq(Units)
    BY DEF Added, Units, Narrow
  <2>6. CASE s[2] <= p
    <3>1. k = 1 /\ Len(v) = s[2] + 1 /\ 1 \in Nat /\ n <= Len(raw)
      BY <1>1, <1>4, <2>1, <2>2, <2>6 DEF Ahead
    <3>2. v \in Seq(Units) /\ << >> \in Seq(Units)
      BY Zenon, <1>3, <2>2
    <3>3. Mid(v, w, << >>) = current
      <4>1. u \in Seq(Units) /\ w \in Seq(Units)
        BY Zenon, <1>3, <2>2
      <4> QED BY Zenon, <2>5, <4>1, PartsOf DEF Parts
    <3> DEFINE e == << >>
    <3>5. e \in Seq(Units)
      BY <3>2
    <3> HIDE DEF e, v
    <3>4. PartAt(raw, v, s[2], n, e, p, q, 1)
      BY Zenon, <1>1, <2>1, <2>6, <3>1, <3>2, <3>5, PartFound
    <3> QED BY Zenon, <2>3, <2>4, <3>1, <3>3, <3>4 DEF e, v, PartAt, Placed
  <2>7. CASE s[1] >= q
    <3>1. k = 0 /\ 0 \in Nat /\ 0 <= p /\ q <= s[2] /\ p + 0 = p /\ q + 0 = q
          /\ Len(<< >>) = 0 + 0
      BY <1>1, <1>4, <2>1, <2>7 DEF Ahead
    <3> DEFINE e == << >>
               y == Added \o w
    <3>2. y \in Seq(Units) /\ e \in Seq(Units) /\ Len(e) = 0 + 0
      <4>1. w \in Seq(Units)
        BY Zenon, <1>3, <2>2
      <4> HIDE DEF w
      <4> QED BY <2>5, <4>1
    <3>3. Mid(e, u, y) = current
      <4>1. u \in Seq(Units) /\ w \in Seq(Units)
        BY Zenon, <1>3, <2>2
      <4> QED BY Zenon, <2>5, <4>1, PartsOf DEF Parts
    <3> HIDE DEF e, y
    <3>4. PartAt(raw, e, 0, s[2], y, p, q, 0)
      BY Zenon, <1>1, <2>1, <3>1, <3>2, PartFound
    <3> QED BY Zenon, <2>3, <2>4, <3>1, <3>3, <3>4 DEF PartAt, Placed
  <2> QED BY Zenon, <2>1, <2>6, <2>7
<1>5. ASSUME NEW s \in Spans(raw), NEW t \in Spans(raw), NEW recent \in {<< s, t >>, << t, s >>},
             s[1] < s[2], s[2] <= t[1], t[1] < t[2], Data!Apart(s, region), Data!Apart(t, region)
      PROVE  Placed(raw, region, Data!_apply_non_overlapping(raw, recent),
                    Ahead(s, region) + Ahead(t, region))
  <2> DEFINE h == Data!Slice(raw, 0, s[2])
             u == h \o Added
             m == Data!Slice(raw, s[2], t[2])
             v == m \o Added
             w == Data!Slice(raw, t[2], n)
             current == Two(h, Added, m, w)
             k == Ahead(s, region) + Ahead(t, region)
  <2>1. /\ s[1] \in Nat /\ s[2] \in Nat /\ s[2] <= n /\ Cut(raw, s[2])
        /\ t[1] \in Nat /\ t[2] \in Nat /\ t[2] <= n /\ Cut(raw, t[2])
        /\ s[2] <= p \/ s[1] >= q
        /\ t[2] <= p \/ t[1] >= q
    BY <1>5, SpanFacts DEF Data!Apart
  <2>2. /\ h \in Wholes /\ u \in Wholes /\ Len(u) = s[2] + 1
        /\ m \in Wholes /\ v \in Wholes /\ Len(v) = (t[2] - s[2]) + 1 /\ w \in Wholes
    <3>1. 0 \in Nat /\ 0 <= s[2] /\ s[2] <= t[2]
      BY <1>5, <2>1
    <3>2. h \in Wholes /\ u \in Wholes /\ Len(u) = (s[2] - 0) + 1
      BY Zenon, <1>1, <2>1, <3>1, AddedSlice
    <3>3. m \in Wholes /\ v \in Wholes /\ Len(v) = (t[2] - s[2]) + 1
      BY Zenon, <1>1, <2>1, <3>1, AddedSlice
    <3>4. w \in Wholes
      BY Zenon, <1>1, <2>1, WholeSlice
    <3>5. (s[2] - 0) + 1 = s[2] + 1
      BY <2>1
    <3> QED BY Zenon, <3>2, <3>3, <3>4, <3>5
  <2>3. current = Data!_apply_non_overlapping(raw, recent)
    BY Zenon, <1>5, ApplyFew DEF Two
  <2>4. current \in Wholes
    BY Zenon, <2>2, WholeJoin DEF Two
  <2>5. Added \in Seq(Units)
    BY DEF Added, Units, Narrow
  <2>6. /\ h \in Seq(Units) /\ u \in Seq(Units) /\ m \in Seq(Units) /\ v \in Seq(Units)
        /\ w \in Seq(Units) /\ current \in Seq(Units)
    BY Zenon, <1>3, <2>2, <2>4
  <2>7. CASE s[1] >= q
    <3>1. k = 0 /\ 0 \in Nat /\ 0 <= p /\ q <= s[2] /\ p + 0 = p /\ q + 0 = q
      BY <1>1, <1>5, <2>1, <2>7 DEF Ahead
    <3> DEFINE e == << >>
               y == Added \o (v \o w)
    <3>2. y \in Seq(Units) /\ e \in Seq(Units) /\ Len(e) = 0 + 0
      <4> HIDE DEF v, w
      <4> QED BY <2>5, <2>6
    <3>3. Mid(e, h, y) = current
      <4>1. Parts(h, Added, m, w)
        BY Zenon, <2>5, <2>6, PartsOf
      <4> QED BY Zenon, <4>1 DEF Parts
    <3> HIDE DEF e, y
    <3>4. PartAt(raw, e, 0, s[2], y, p, q, 0)
      BY Zenon, <1>1, <2>1, <3>1, <3>2, PartFound
    <3> QED BY Zenon, <2>3, <2>4, <3>1, <3>3, <3>4 DEF PartAt, Placed
  <2>8. CASE s[2] <= p /\ t[1] >= q
    <3>1. k = 1 /\ 1 \in Nat /\ s[2] <= p /\ q <= t[2]
      BY <1>1, <1>5, <2>1, <2>8 DEF Ahead
    <3> DEFINE y == Added \o w
    <3>2. y \in Seq(Units)
      <4> HIDE DEF w
      <4> QED BY <2>5, <2>6
    <3>3. Mid(u, m, y) = current
      <4>1. Parts(h, Added, m, w)
        BY Zenon, <2>5, <2>6, PartsOf
      <4> QED BY Zenon, <4>1 DEF Parts
    <3>5. Len(u) = s[2] + 1 /\ u \in Seq(Units)
      BY Zenon, <2>2, <2>6
    <3> HIDE DEF u, y
    <3>4. PartAt(raw, u, s[2], t[2], y, p, q, 1)
      BY Zenon, <1>1, <2>1, <3>1, <3>2, <3>5, PartFound
    <3> QED BY Zenon, <2>3, <2>4, <3>1, <3>3, <3>4 DEF PartAt, Placed
  <2>9. CASE t[2] <= p
    <3> DEFINE e == << >>
               y == u \o v
    <3>1. k = 2 /\ 2 \in Nat /\ t[2] <= p /\ q <= n /\ n <= Len(raw)
      BY <1>1, <1>5, <2>1, <2>9 DEF Ahead
    <3>2. y \in Seq(Units) /\ Len(y) = t[2] + 2 /\ e \in Seq(Units)
      <4>1. Len(u) = s[2] + 1 /\ Len(v) = (t[2] - s[2]) + 1
        BY Zenon, <2>2
      <4> HIDE DEF u, v
      <4>2. u \o v \in Seq(Units) /\ Len(u \o v) = Len(u) + Len(v)
        BY Zenon, <2>6, JoinRows
      <4> QED BY <2>1, <4>1, <4>2
    <3>3. Mid(y, w, e) = current
      <4>1. Parts(h, Added, m, w)
        BY Zenon, <2>5, <2>6, PartsOf
      <4> QED BY Zenon, <4>1 DEF Parts
    <3> HIDE DEF e, y
    <3>4. PartAt(raw, y, t[2], n, e, p, q, 2)
      BY Zenon, <1>1, <2>1, <3>1, <3>2, PartFound
    <3> QED BY Zenon, <2>3, <2>4, <3>1, <3>3, <3>4 DEF PartAt, Placed
  <2>10. s[1] >= q \/ (s[2] <= p /\ t[1] >= q) \/ t[2] <= p
    BY Zenon, <2>1
  <2> QED BY Zenon, <2>7, <2>8, <2>9, <2>10
<1> QED BY Zenon, <1>2, <1>4, <1>5

\* Any two tries leave the region where make_next_edit says.
LEMMA RegionKept ==
  ASSUME NEW raw \in Wholes, NEW region \in Spans(raw),
         NEW x \in Data!AnySpan(raw), NEW y \in Data!AnySpan(raw)
  PROVE  Placed(raw, region,
                Data!_apply_non_overlapping(raw, Data!Recent(region, << x, y >>)),
                Data!shift(Data!Recent(region, << x, y >>), region))
<1> DEFINE recent == Data!Recent(region, << x, y >>)
<1>1. /\ x \in Spans(raw) /\ x[1] < x[2] /\ y \in Spans(raw) /\ y[1] < y[2]
  BY Zenon, AnySpanCuts
<1>2. \/ recent = << >>
      \/ \E s \in {x, y} : recent = << s >> /\ Data!Apart(s, region)
      \/ /\ recent = << x, y >> /\ Data!Apart(y, x)
         /\ Data!Apart(x, region) /\ Data!Apart(y, region)
  BY <1>1, RecentIs
<1> HIDE DEF recent
<1>3. CASE recent = << >>
  <2>1. Data!_apply_non_overlapping(raw, recent) = raw /\ Data!shift(recent, region) = 0
    BY Zenon, <1>3, ApplyFew, ShiftIs
  <2> QED BY Zenon, <2>1, EditsPlaced DEF recent
<1>4. ASSUME NEW s \in {x, y}, recent = << s >>, Data!Apart(s, region)
      PROVE  Placed(raw, region, Data!_apply_non_overlapping(raw, recent),
                    Data!shift(recent, region))
  <2>1. s \in Spans(raw) /\ s[1] < s[2]
    BY Zenon, <1>1
  <2>2. Data!shift(recent, region) = Ahead(s, region)
    BY Zenon, <1>4, <2>1, ShiftIs
  <2>3. Placed(raw, region, Data!_apply_non_overlapping(raw, << s >>), Ahead(s, region))
    BY Zenon, <1>4, <2>1, EditsPlaced
  <2> QED BY Zenon, <1>4, <2>2, <2>3
<1>5. CASE /\ recent = << x, y >> /\ Data!Apart(y, x)
           /\ Data!Apart(x, region) /\ Data!Apart(y, region)
  <2>1. Data!shift(recent, region) = Ahead(x, region) + Ahead(y, region)
    BY Zenon, <1>1, <1>5, ShiftIs
  <2>2. Ahead(x, region) + Ahead(y, region) = Ahead(y, region) + Ahead(x, region)
    BY DEF Ahead
  <2>3. CASE x[2] <= y[1]
    <3>1. Placed(raw, region, Data!_apply_non_overlapping(raw, << x, y >>),
                 Ahead(x, region) + Ahead(y, region))
      BY Zenon, <1>1, <1>5, <2>3, EditsPlaced
    <3> QED BY Zenon, <1>5, <2>1, <3>1 DEF recent
  <2>4. CASE y[2] <= x[1]
    <3>1. Placed(raw, region, Data!_apply_non_overlapping(raw, << x, y >>),
                 Ahead(y, region) + Ahead(x, region))
      BY Zenon, <1>1, <1>5, <2>4, EditsPlaced
    <3> QED BY Zenon, <1>5, <2>1, <2>2, <3>1 DEF recent
  <2>5. y[2] <= x[1] \/ x[2] <= y[1]
    <3>1. y[2] <= x[1] \/ y[1] >= x[2]
      BY Zenon, <1>5 DEF Data!Apart
    <3>2. x[2] \in Nat /\ y[1] \in Nat
      BY Zenon, <1>1, SpanFacts
    <3> QED BY <3>1, <3>2
  <2> QED BY Zenon, <2>3, <2>4, <2>5
<1> QED BY Zenon, <1>2, <1>3, <1>4, <1>5 DEF recent

\* No hole of any source cuts a glyph in two, its three parts give the source
\* back, and after any two recent edits the region is found, unchanged, at the
\* offsets the example names (fim.py make_hole, static_edits.py make_next_edit).
\* A hole has a byte in it unless it stands before a wide glyph, and there is one
\* unless the source ends in a line of one byte.
THEOREM RegionsAreAligned == Spec => []RegionAligned
<1> DEFINE Inv == tool = "hole" => sample \in Holes
<1>1. Init => Inv
  BY DEF Init, Picked
<1>2. Inv /\ [Next]_vars => Inv'
  BY DEF Next, vars, Holes
<1>3. Inv => RegionAligned
  <2> DEFINE raw == sample.raw
             region == sample.region
             prefix == Data!Slice(raw, 0, region[1])
             middle == Data!Slice(raw, region[1], region[2])
             suffix == Data!Slice(raw, region[2], Len(raw))
             edit == Data!make_next_edit(raw, region, sample.tries)
  <2> SUFFICES ASSUME tool = "hole", sample \in Holes
               PROVE  \/ region = Data!Raises /\ EndsInOneByte(raw)
                      \/ /\ \/ region[1] < region[2]
                            \/ region[1] = region[2] /\ BeforeWide(raw, region[1])
                         /\ prefix \o middle \o suffix = raw
                         /\ Data!Decodes(prefix) /\ Data!Decodes(middle) /\ Data!Decodes(suffix)
                         /\ Data!Decodes(edit.current)
                         /\ Data!Slice(edit.current, edit.start, edit.end) = middle
    BY Zenon DEF RegionAligned
  <2>0. PICK text \in UNION {[1 .. n -> Data!SourceGlyphs] : n \in 1 .. MaxGlyphs},
              type \in Data!HoleTypes :
          sample \in {[raw |-> Data!Bytes(text), region |-> hole, tries |-> << x, y >>] :
                        hole \in Data!make_hole(Data!Bytes(text), type),
                        x, y \in Data!AnySpan(Data!Bytes(text))}
    BY DEF Holes
  <2>1. PICK hole \in Data!make_hole(Data!Bytes(text), type),
             x \in Data!AnySpan(Data!Bytes(text)), y \in Data!AnySpan(Data!Bytes(text)) :
          sample = [raw |-> Data!Bytes(text), region |-> hole, tries |-> << x, y >>]
    BY <2>0
  <2>2. raw = Data!Bytes(text) /\ region = hole /\ sample.tries = << x, y >>
    BY <2>1
  <2>3. raw \in Wholes
    <3>1. text \in Seq(Data!SourceGlyphs)
      <4>1. PICK m \in 1 .. MaxGlyphs : text \in [1 .. m -> Data!SourceGlyphs]
        BY <2>0
      <4>2. m \in Nat
        BY <4>1
      <4> QED BY <4>1, <4>2
    <3>2. PICK r : BytesRun(text, r)
      BY Zenon, <3>1, BytesHasRun
    <3>3. Len(text) \in 0 .. Len(text)
      BY <3>1
    <3>4. r[Len(text)] \in Wholes /\ r[Len(text)] = Data!Bytes(text)
      BY <3>2, <3>3 DEF BytesRun
    <3> QED BY Zenon, <2>2, <3>4
  <2> HIDE DEF raw, region, edit
  <2>14. (region = Data!Raises /\ EndsInOneByte(raw)) \/ Shaped(raw, region)
    BY Zenon, <2>2, <2>3, HoleCuts
  <2> SUFFICES ASSUME Shaped(raw, region)
               PROVE  /\ \/ region[1] < region[2]
                         \/ region[1] = region[2] /\ BeforeWide(raw, region[1])
                      /\ prefix \o middle \o suffix = raw
                      /\ Data!Decodes(prefix) /\ Data!Decodes(middle) /\ Data!Decodes(suffix)
                      /\ Data!Decodes(edit.current)
                      /\ Data!Slice(edit.current, edit.start, edit.end) = middle
    BY Zenon, <2>14 DEF raw, region, edit
  <2>4. /\ region \in Spans(raw)
        /\ region[1] < region[2] \/ (region[1] = region[2] /\ BeforeWide(raw, region[1]))
    BY Zenon DEF Shaped, BeforeWide, Lead
  <2> DEFINE recent == Data!Recent(region, << x, y >>)
             k == Data!shift(recent, region)
             current == Data!_apply_non_overlapping(raw, recent)
  <2>5. Placed(raw, region, current, k)
    BY Zenon, <2>2, <2>3, <2>4, RegionKept
  <2>6. k \in Nat
    <3>1. x \in Spans(raw) /\ y \in Spans(raw)
      BY Zenon, <2>2, <2>3, AnySpanCuts
    <3>2. \/ recent = << >>
          \/ \E s \in {x, y} : recent = << s >> /\ Data!Apart(s, region)
          \/ /\ recent = << x, y >> /\ Data!Apart(y, x)
             /\ Data!Apart(x, region) /\ Data!Apart(y, region)
      BY Zenon, <3>1, RecentIs
    <3> HIDE DEF recent
    <3>3. \/ k = 0 \/ \E s \in {x, y} : k = Ahead(s, region)
          \/ k = Ahead(x, region) + Ahead(y, region)
      BY Zenon, <3>1, <3>2, ShiftIs
    <3> QED BY <3>3 DEF Ahead
  <2>7. /\ region[1] \in Nat /\ region[2] \in Nat /\ region[1] <= region[2]
        /\ region[2] <= Len(raw) /\ Len(raw) \in Nat /\ 0 <= region[1] /\ 0 \in Nat
        /\ Cut(raw, 0) /\ Cut(raw, region[1]) /\ Cut(raw, region[2]) /\ Cut(raw, Len(raw))
    <3>1. 0 \in Nat /\ \A i \in Nat : 0 <= i
      OBVIOUS
    <3> QED BY Zenon, <2>3, <2>4, <3>1, SpanFacts
  <2>8. edit = [current |-> current, start |-> region[1] + k,
                end |-> (region[1] + k) + region[2] - region[1]]
    BY Zenon, <2>2 DEF edit, Data!make_next_edit
  <2> HIDE DEF k, current
  <2>9. /\ edit.current = current /\ edit.start = region[1] + k /\ edit.end = region[2] + k
    BY <2>6, <2>7, <2>8
  <2>10. current \in Wholes /\ Data!Slice(edit.current, edit.start, edit.end) = middle
    BY Zenon, <2>5, <2>9 DEF Placed
  <2>11. /\ Data!Decodes(Data!Slice(raw, 0, region[1])) /\ Data!Decodes(middle)
         /\ Data!Decodes(Data!Slice(raw, region[2], Len(raw)))
    BY Zenon, <2>3, <2>7, WholeSlice, WholeDecodes
  <2>12. Data!Decodes(edit.current)
    BY Zenon, <2>9, <2>10, WholeDecodes
  <2>13. prefix \o middle \o suffix = raw
    <3>1. raw \in Seq(Units) /\ Len(raw) <= Len(raw)
      BY <2>3, <2>7 DEF Wholes
    <3>2. Data!Slice(raw, 0, Len(raw)) = raw
      BY <3>1 DEF Data!Slice
    <3>3. prefix \o middle = Data!Slice(raw, 0, region[2])
      BY Zenon, <2>7, <3>1, SliceJoin
    <3>4. Data!Slice(raw, 0, region[2]) \o suffix = Data!Slice(raw, 0, Len(raw))
      <4>1. 0 <= region[2]
        BY <2>7
      <4> QED BY Zenon, <2>7, <3>1, <4>1, SliceJoin
    <3> QED BY Zenon, <3>2, <3>3, <3>4
  <2> QED BY Zenon, <2>4, <2>10, <2>11, <2>12, <2>13
<1> QED BY <1>1, <1>2, <1>3, PTL DEF Spec
=============================================================================

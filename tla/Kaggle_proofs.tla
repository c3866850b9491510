--------------------------- MODULE Kaggle_proofs ---------------------------
(***************************************************************************)
(* Proofs about the three Kaggle kernels, for every value of the           *)
(* constants: of the throughput lab (module Bench) that a pass is whole    *)
(* and a result fresh, of the preparation (module Corpus) that the         *)
(* metadata are written last and that the blocks are the text of the       *)
(* documents, and of the training kernel (module Orchestrator) that the    *)
(* main run rests on its own measurements.  Each kernel has an inductive   *)
(* invariant of its own; a step of one kernel leaves the variables of the  *)
(* other two alone, and the types of all three follow from them together.  *)
(***************************************************************************)
EXTENDS Kaggle, Basics_proofs

(***************************************************************************)
(* The throughput lab.                                                     *)
(***************************************************************************)

\* A job: a rank that is not past the loop has not failed, and one that passed
\* it well took all steps, as did the other, unless that one has raised since.
JobOK(j) ==
  /\ j.steps <= j.tried /\ j.tried <= j.target
  /\ \A r \in Ranks : j.at[r] \in {"setup", "train"} => j.status[r] = "pass"
  /\ \A r \in Ranks : j.at[r] = "raised" => j.status[r] = "error"
  /\ \A r \in Ranks : j.at[r] \notin {"setup", "train"} /\ j.status[r] = "pass" =>
       /\ j.steps = j.target
       /\ \A q \in Ranks : j.status[q] = "pass" \/ j.at[q] \in {"raised", "done"}
  /\ j.at[Main] \in {"write", "writing"} => \A q \in Ranks \ {Main} : j.at[q] = "barrier"

FreshResult(r, id) ==
  /\ r.status \in {"pass", "error", "unreadable"} /\ r.launch = id
  /\ r.status = "unreadable" => \A q \in Ranks : r.ranks[q] = "error"

HasWritten(j) == (\E r \in Ranks : j.at[r] = "done") \/ j.at[Main] = "barrier"

\* The file of a job that has it for itself: empty while the main rank writes;
\* what a raised rank finds in it is of the other one, which raised as well; and
\* between two writings it is a result of this job.
OwnFile(j) ==
  /\ j.at[Main] = "writing" => results[j.name] = Empty
  /\ (\E r \in Ranks : j.at[r] = "raised") /\ results[j.name] # Empty =>
       FreshResult(results[j.name], j.id) /\ \A q \in Ranks : j.status[q] = "error"
  /\ HasWritten(j) /\ (\A r \in Ranks : j.at[r] # "raised") /\ j.at[Main] # "writing" =>
       FreshResult(results[j.name], j.id)

\* The job the lab waits for is the only one of its candidate, unless the lab
\* found one there when it launched it.
Undisturbed == lab = "running" /\ ~ disturbed

JobsOK ==
  /\ \A j \in jobs : JobOK(j)
  /\ \A j, k \in jobs : j.id = k.id => j = k
  /\ lab = "running" => \A j \in jobs : j.id = launches => j.name = Candidate
  /\ Undisturbed => \A j \in jobs : /\ j.name = Candidate => j.id = launches
                                    /\ j.id = launches => OwnFile(j)

LabInv ==
  /\ launches \in Nat
  /\ lab \in {"running", "collect"} => index <= Len(Matrix) /\ Candidate \in wanted
  /\ lab = "collect" /\ exitCode = 0 /\ ~ disturbed =>
       FreshResult(results[Candidate], launches) /\ \A j \in jobs : j.name # Candidate

WholePass(r) == r.status = "pass" => /\ r.steps = r.target /\ r.tried = r.target
                                     /\ \A q \in Ranks : r.ranks[q] = "pass"

ResultsOK == DOMAIN results = Candidates /\ \A n \in Candidates : WholePass(results[n])

BenchInv ==
  /\ BenchTypeOK /\ JobsOK /\ LabInv /\ ResultsOK /\ PassIsWhole /\ FreshUnlessOrphan

-----------------------------------------------------------------------------
RankPlaces == {"setup", "train", "gather", "write", "writing", "barrier", "raised", "done"}

\* A job as a record of the lab.
LEMMA JobTypes ==
  ASSUME BenchTypeOK, NEW j \in jobs
  PROVE  /\ j \in Job /\ j.id \in 1 .. launches /\ j.name \in Candidates /\ j.target \in Nat
         /\ j.at \in [Ranks -> RankPlaces] /\ j.status \in [Ranks -> {"pass", "error"}]
         /\ j.steps \in Nat /\ j.tried \in Nat
  BY DEF BenchTypeOK, Job, RankPlaces

\* None of these is the result of a job that passed.
LEMMA EmptyOK == WholePass(Empty)
  BY DEF WholePass, Empty

LEMMA MixedOK == \A j : WholePass(Mixed(j))
  BY DEF WholePass, Mixed

LEMMA FailureOK == \A j : WholePass(Failure(j))
  BY DEF WholePass, Failure

\* A step of one job, which becomes k and may change its file.
LEMMA BecomeKeeps ==
  ASSUME BenchInv, NEW j \in jobs, NEW k \in Job, Become(j, k),
         k.id = j.id, k.name = j.name, JobOK(k),
         Undisturbed /\ j.id = launches => OwnFile(k)',
         \/ UNCHANGED results
         \/ \E v : results' = [results EXCEPT ![j.name] = v] /\ WholePass(v)
  PROVE  BenchInv'
<1>1. /\ jobs' = (jobs \ {j}) \cup {k}
      /\ UNCHANGED << lab, session, wanted, override, index, launches, exitCode, last,
                      reported, disturbed >>
  BY DEF Become, labState
<1>2. /\ BenchTypeOK /\ JobsOK /\ LabInv /\ ResultsOK
  BY DEF BenchInv
<1>3. j.name \in Candidates /\ DOMAIN results = Candidates /\ DOMAIN results' = Candidates
  BY <1>2, JobTypes DEF ResultsOK
<1>4. \A n \in Candidates : n # j.name => results'[n] = results[n]
  BY <1>3
<1>5. results' = results \/ WholePass(results'[j.name])
  <2>1. ASSUME NEW v, results' = [results EXCEPT ![j.name] = v], WholePass(v)
        PROVE  WholePass(results'[j.name])
    <3>1. results'[j.name] = v
      BY <1>3, <2>1
    <3> QED BY <2>1, <3>1
  <2> QED BY <2>1
<1>6. BenchTypeOK'
  <2>1. jobs' \subseteq Job /\ Job' = Job
    BY <1>1, <1>2 DEF BenchTypeOK, Job
  <2>2. \A i \in jobs' : /\ i.steps <= i.tried /\ i.tried <= i.target
                         /\ \A r \in Ranks : i.at[r] = "train" => i.status[r] = "pass"
    BY <1>1, <1>2 DEF JobsOK, JobOK
  <2> QED BY <1>1, <1>2, <2>1, <2>2 DEF BenchTypeOK
<1>7. JobsOK'
  <2>1. \A i \in jobs' : JobOK(i)
    BY <1>1, <1>2 DEF JobsOK
  <2>2. \A h, i \in jobs' : h.id = i.id => h = i
    BY <1>1, <1>2 DEF JobsOK
  <2>3. lab' = "running" => \A i \in jobs' : i.id = launches' => i.name = Candidate'
    BY <1>1, <1>2 DEF JobsOK, Candidate
  <2>4. ASSUME Undisturbed', NEW i \in jobs', i.name = Candidate'
        PROVE  i.id = launches'
    BY <1>1, <1>2, <2>4 DEF JobsOK, Undisturbed, Candidate
  <2>5. ASSUME Undisturbed', NEW i \in jobs', i.id = launches'
        PROVE  OwnFile(i)'
    <3>1. CASE i = k
      BY <1>1, <2>5, <3>1 DEF Undisturbed
    <3>2. CASE i # k
      <4>1. Undisturbed /\ i \in jobs /\ i # j /\ i.id = launches
        BY <1>1, <2>5, <3>2 DEF Undisturbed
      <4>2. i.name \in Candidates
        BY <1>2, <4>1, JobTypes
      <4>3. i.name # j.name
        BY <1>2, <4>1 DEF JobsOK, Undisturbed
      <4>4. OwnFile(i) /\ results'[i.name] = results[i.name]
        BY <1>2, <1>4, <4>1, <4>2, <4>3 DEF JobsOK
      <4> QED BY <4>4 DEF OwnFile, HasWritten, FreshResult
    <3> QED BY <3>1, <3>2
  <2> QED BY <2>1, <2>2, <2>3, <2>4, <2>5 DEF JobsOK
<1>8. LabInv'
  <2>1. Candidate' = Candidate
    BY <1>1 DEF Candidate
  <2>2. ASSUME lab = "collect", exitCode = 0, ~ disturbed
        PROVE  FreshResult(results[Candidate], launches)' /\ \A i \in jobs' : i.name # Candidate
    <3>1. /\ FreshResult(results[Candidate], launches) /\ \A i \in jobs : i.name # Candidate
          /\ Candidate \in Candidates
      BY <1>2, <2>2 DEF LabInv, BenchTypeOK
    <3>2. results'[Candidate'] = results[Candidate] /\ launches' = launches
      BY <1>1, <1>4, <2>1, <3>1
    <3> QED BY <1>1, <3>1, <3>2 DEF FreshResult
  <2> QED BY <1>1, <1>2, <2>1, <2>2 DEF LabInv
<1>9. ResultsOK'
  BY <1>2, <1>3, <1>4, <1>5 DEF ResultsOK
<1>10. PassIsWhole' /\ FreshUnlessOrphan'
  BY <1>1 DEF BenchInv, PassIsWhole, FreshUnlessOrphan
<1> QED BY <1>6, <1>7, <1>8, <1>9, <1>10 DEF BenchInv

\* A step that leaves the file alone, before anything is written.
LEMMA QuietKeeps ==
  ASSUME BenchInv, NEW j \in jobs, NEW k \in Job, Become(j, k), UNCHANGED results,
         k.id = j.id, k.name = j.name, JobOK(k),
         k.at[Main] # "writing", HasWritten(k) => HasWritten(j) /\ j.at[Main] # "writing",
         \A r \in Ranks : /\ j.status[r] = "error" => k.status[r] = "error"
                          /\ k.at[r] = "raised" <=> j.at[r] = "raised"
  PROVE  BenchInv'
<1>1. ASSUME Undisturbed, j.id = launches
      PROVE  OwnFile(k)'
  <2>1. OwnFile(j)
    BY <1>1 DEF BenchInv, JobsOK
  <2>2. results'[k.name] = results[j.name]
    OBVIOUS
  <2> QED BY <2>1, <2>2 DEF OwnFile, HasWritten, FreshResult
<1> QED BY <1>1, BecomeKeeps

\* Both ranks have loaded the model and start the loop (SetUp).
LEMMA SetUpKeeps ==
  ASSUME BenchInv, NEW j \in jobs, SetUp(j)
  PROVE  BenchInv'
<1> DEFINE k == [j EXCEPT !.at = [r \in Ranks |-> "train"]]
<1>1. (\A r \in Ranks : j.at[r] = "setup") /\ Become(j, k) /\ UNCHANGED results
  BY DEF SetUp, Both
<1>2. /\ k \in Job /\ k.id = j.id /\ k.name = j.name /\ k.target = j.target
      /\ k.at = [r \in Ranks |-> "train"] /\ k.status = j.status /\ k.steps = j.steps
      /\ k.tried = j.tried
  BY JobTypes DEF Job, BenchInv, RankPlaces
<1>3. JobOK(j)
  BY DEF BenchInv, JobsOK
<1> HIDE DEF k
<1>4. /\ JobOK(k) /\ ~ HasWritten(k) /\ k.at[Main] # "writing"
      /\ \A r \in Ranks : k.at[r] # "raised" /\ j.at[r] # "raised"
  BY <1>1, <1>2, <1>3 DEF JobOK, HasWritten, Main, Ranks
<1> QED BY <1>1, <1>2, <1>4, QuietKeeps

\* An update of both ranks, with or without an overflow (Update).
LEMMA UpdateKeeps ==
  ASSUME BenchInv, NEW j \in jobs, Update(j)
  PROVE  BenchInv'
<1>1. /\ \A r \in Ranks : j.at[r] = "train"
      /\ j.steps < j.target /\ j.tried < j.target /\ UNCHANGED results
  BY DEF Update, Both
<1>2. JobOK(j) /\ j.steps \in Nat /\ j.tried \in Nat /\ j.target \in Nat /\ BenchTypeOK
  BY JobTypes DEF BenchInv, JobsOK
<1>3. ASSUME NEW s \in {j.steps, j.steps + 1},
             Become(j, [j EXCEPT !.steps = s, !.tried = j.tried + 1])
      PROVE  BenchInv'
  <2> DEFINE n == j.tried + 1
             k == [j EXCEPT !.steps = s, !.tried = n]
  <2>1. s \in Nat /\ n \in Nat /\ s <= n /\ n <= j.target
    BY <1>1, <1>2 DEF JobOK
  <2>2. Become(j, k)
    BY <1>3
  <2> HIDE DEF n, k
  <2>3. /\ k \in Job /\ k.id = j.id /\ k.name = j.name /\ k.target = j.target
        /\ k.at = j.at /\ k.status = j.status /\ k.steps = s /\ k.tried = n
    <3>1. k = [j EXCEPT !.steps = s, !.tried = n]
      BY DEF k
    <3>2. j \in Job /\ s \in Nat /\ n \in Nat
      BY <1>2, <2>1, JobTypes
    <3> QED BY Zenon, <3>1, <3>2, Zenon DEF Job
  <2>4. k.steps <= k.tried /\ k.tried <= k.target
    BY <2>1, <2>3
  <2>5. /\ JobOK(k) /\ ~ HasWritten(k) /\ k.at[Main] # "writing"
        /\ \A r \in Ranks : k.at[r] # "raised" /\ j.at[r] # "raised"
    <3>1. \A r \in Ranks : j.at[r] = "train" /\ k.at[r] = "train" /\ k.status[r] = "pass"
      BY <1>1, <1>2, <2>3 DEF JobOK
    <3> QED BY <2>4, <3>1 DEF JobOK, HasWritten, Main, Ranks
  <2> QED BY <1>1, <2>2, <2>3, <2>5, QuietKeeps
<1>4. CASE Become(j, [j EXCEPT !.steps = @ + 1, !.tried = @ + 1])
  BY <1>3, <1>4
<1>5. CASE Become(j, [j EXCEPT !.tried = @ + 1])
  <2>1. j.tried + 1 \in Nat
    BY <1>2
  <2>2. [j EXCEPT !.tried = j.tried + 1] = [j EXCEPT !.steps = j.steps, !.tried = j.tried + 1]
    BY Zenon, <1>2, JobTypes DEF Job
  <2> QED BY <1>3, <1>5, <2>2
<1> QED BY <1>4, <1>5 DEF Update

\* Both ranks leave the loop with an error (LoopFails).
LEMMA LoopFailsKeeps ==
  ASSUME BenchInv, NEW j \in jobs, LoopFails(j)
  PROVE  BenchInv'
<1> DEFINE k == [j EXCEPT !.at = [r \in Ranks |-> "gather"], !.status = [r \in Ranks |-> "error"]]
<1>1. (\A r \in Ranks : j.at[r] = "train") /\ Become(j, k) /\ UNCHANGED results
  BY DEF LoopFails, Both
<1>2. /\ k \in Job /\ k.id = j.id /\ k.name = j.name /\ k.target = j.target
      /\ k.at = [r \in Ranks |-> "gather"] /\ k.status = [r \in Ranks |-> "error"]
      /\ k.steps = j.steps /\ k.tried = j.tried
  BY Zenon, JobTypes DEF Job, BenchInv, RankPlaces
<1>3. JobOK(j)
  BY DEF BenchInv, JobsOK
<1> HIDE DEF k
<1>4. /\ JobOK(k) /\ ~ HasWritten(k) /\ k.at[Main] # "writing"
      /\ \A r \in Ranks : k.at[r] # "raised" /\ j.at[r] # "raised"
  BY <1>1, <1>2, <1>3 DEF JobOK, HasWritten, Main, Ranks
<1> QED BY <1>1, <1>2, <1>4, QuietKeeps

\* Both ranks have taken all their steps (LoopEnds).
LEMMA LoopEndsKeeps ==
  ASSUME BenchInv, NEW j \in jobs, LoopEnds(j)
  PROVE  BenchInv'
<1> DEFINE k == [j EXCEPT !.at = [r \in Ranks |-> "gather"]]
<1>1. /\ \A r \in Ranks : j.at[r] = "train"
      /\ j.steps = j.target /\ Become(j, k) /\ UNCHANGED results
  BY DEF LoopEnds, Both
<1>2. /\ k \in Job /\ k.id = j.id /\ k.name = j.name /\ k.target = j.target
      /\ k.at = [r \in Ranks |-> "gather"] /\ k.status = j.status /\ k.steps = j.steps
      /\ k.tried = j.tried
  BY JobTypes DEF Job, BenchInv, RankPlaces
<1>3. JobOK(j)
  BY DEF BenchInv, JobsOK
<1> HIDE DEF k
<1>4. /\ JobOK(k) /\ ~ HasWritten(k) /\ k.at[Main] # "writing"
      /\ \A r \in Ranks : k.at[r] # "raised" /\ j.at[r] # "raised"
  BY <1>1, <1>2, <1>3 DEF JobOK, HasWritten, Main, Ranks
<1> QED BY <1>1, <1>2, <1>4, QuietKeeps

\* One rank leaves the loop alone; the other can then not pass it (Fall).
LEMMA FallKeeps ==
  ASSUME BenchInv, NEW j \in jobs, NEW r \in Ranks, Fall(j, r)
  PROVE  BenchInv'
<1> DEFINE k == [j EXCEPT !.at[r] = "gather", !.status[r] = "error"]
<1>1. /\ j.at[r] = "train" /\ j.steps < j.target /\ Become(j, k) /\ UNCHANGED results
  BY DEF Fall
<1>2. /\ k \in Job /\ k.id = j.id /\ k.name = j.name /\ k.target = j.target
      /\ k.at = [j.at EXCEPT ![r] = "gather"] /\ k.status = [j.status EXCEPT ![r] = "error"]
      /\ k.steps = j.steps /\ k.tried = j.tried
  BY Zenon, JobTypes DEF Job, BenchInv, RankPlaces
<1>3. JobOK(j) /\ j.steps \in Nat /\ j.target \in Nat
      /\ j.at \in [Ranks -> RankPlaces] /\ j.status \in [Ranks -> {"pass", "error"}]
  BY JobTypes DEF BenchInv, JobsOK
<1> HIDE DEF k
<1>4. \A q \in Ranks : k.at[q] = (IF q = r THEN "gather" ELSE j.at[q])
                       /\ k.status[q] = (IF q = r THEN "error" ELSE j.status[q])
  BY <1>2, <1>3
<1>5. j.steps # j.target
  BY <1>1, <1>3
<1>7. /\ j.at[Main] \notin {"write", "writing"}
      /\ k.at[Main] \notin {"write", "writing"}
  <2>1. j.at[Main] \notin {"write", "writing"}
    BY <1>1, <1>3 DEF JobOK, Main, Ranks
  <2> QED BY <1>4, <2>1 DEF Main, Ranks
<1>6. JobOK(k)
  <2>1. k.steps <= k.tried /\ k.tried <= k.target
    BY <1>2, <1>3 DEF JobOK
  <2>2. k.at[Main] \notin {"write", "writing"}
    BY <1>7 DEF Main, Ranks
  <2> QED BY <1>2, <1>3, <1>4, <1>5, <2>1, <2>2 DEF JobOK
<1>8. HasWritten(k) => HasWritten(j)
  BY <1>4 DEF HasWritten, Main, Ranks
<1>9. \A q \in Ranks : /\ j.status[q] = "error" => k.status[q] = "error"
                       /\ k.at[q] = "raised" <=> j.at[q] = "raised"
  BY <1>1, <1>4
<1> QED BY <1>1, <1>2, <1>6, <1>7, <1>8, <1>9, QuietKeeps

\* The statistics of both ranks: here, and nowhere before, a failed rank keeps
\* the other one from writing (Gather).
LEMMA GatherKeeps ==
  ASSUME BenchInv, NEW j \in jobs, Gather(j)
  PROVE  BenchInv'
<1> DEFINE a == [r \in Ranks |-> IF r = Main THEN "write" ELSE "barrier"]
           k == [j EXCEPT !.at = a]
<1>1. (\A r \in Ranks : j.at[r] = "gather") /\ Become(j, k) /\ UNCHANGED results
  BY DEF Gather, Both
<1>2. /\ k \in Job /\ k.id = j.id /\ k.name = j.name /\ k.target = j.target
      /\ k.at = a /\ k.status = j.status /\ k.steps = j.steps /\ k.tried = j.tried
  BY JobTypes DEF Job, BenchInv, RankPlaces
<1>3. JobOK(j)
  BY DEF BenchInv, JobsOK
<1> HIDE DEF k
<1>4. /\ JobOK(k) /\ ~ HasWritten(k) /\ k.at[Main] # "writing"
      /\ \A r \in Ranks : k.at[r] # "raised" /\ j.at[r] # "raised"
  BY <1>1, <1>2, <1>3 DEF JobOK, HasWritten, Main, Ranks
<1> QED BY <1>1, <1>2, <1>4, QuietKeeps

\* The barrier at the end (Leave).
LEMMA LeaveKeeps ==
  ASSUME BenchInv, NEW j \in jobs, Leave(j)
  PROVE  BenchInv'
<1> DEFINE k == [j EXCEPT !.at = [r \in Ranks |-> "done"]]
<1>1. (\A r \in Ranks : j.at[r] = "barrier") /\ Become(j, k) /\ UNCHANGED results
  BY DEF Leave, Both
<1>2. /\ k \in Job /\ k.id = j.id /\ k.name = j.name /\ k.target = j.target
      /\ k.at = [r \in Ranks |-> "done"] /\ k.status = j.status /\ k.steps = j.steps
      /\ k.tried = j.tried
  BY JobTypes DEF Job, BenchInv, RankPlaces
<1>3. JobOK(j)
  BY DEF BenchInv, JobsOK
<1> HIDE DEF k
<1>4. /\ JobOK(k) /\ HasWritten(j) /\ j.at[Main] # "writing" /\ k.at[Main] # "writing"
      /\ \A r \in Ranks : k.at[r] # "raised" /\ j.at[r] # "raised"
  BY <1>1, <1>2, <1>3 DEF JobOK, HasWritten, Main, Ranks
<1> QED BY <1>1, <1>2, <1>4, QuietKeeps

\* The main rank empties the file (OpenResult).
LEMMA OpenResultKeeps ==
  ASSUME BenchInv, NEW j \in jobs, OpenResult(j)
  PROVE  BenchInv'
<1> DEFINE k == [j EXCEPT !.at[Main] = "writing"]
<1>1. j.at[Main] = "write" /\ Become(j, k) /\ results' = [results EXCEPT ![j.name] = Empty]
  BY DEF OpenResult, Emptied
<1>2. /\ k \in Job /\ k.id = j.id /\ k.name = j.name /\ k.target = j.target
      /\ k.at = [j.at EXCEPT ![Main] = "writing"] /\ k.status = j.status /\ k.steps = j.steps
      /\ k.tried = j.tried
  BY JobTypes DEF Job, BenchInv, RankPlaces, Main, Ranks
<1>3. JobOK(j) /\ j.at \in [Ranks -> RankPlaces] /\ j.status \in [Ranks -> {"pass", "error"}]
  BY JobTypes DEF BenchInv, JobsOK
<1>4. k.at[Main] = "writing" /\ \A q \in Ranks \ {Main} : k.at[q] = "barrier" /\ j.at[q] = "barrier"
  BY <1>1, <1>2, <1>3 DEF JobOK, Main, Ranks
<1> HIDE DEF k
<1>5. JobOK(k)
  BY <1>1, <1>2, <1>3, <1>4 DEF JobOK, Main, Ranks
<1>6. results'[k.name] = Empty
  BY <1>1, <1>2, JobTypes DEF BenchInv, ResultsOK
<1>7. OwnFile(k)'
  BY <1>4, <1>6 DEF OwnFile, HasWritten, Main, Ranks
<1> QED BY Zenon, <1>1, <1>2, <1>5, <1>7, EmptyOK, BecomeKeeps

\* What main writes of a job of its own: a pass is one of both ranks, of all
\* steps.
LEMMA ResultFacts ==
  ASSUME BenchInv, NEW j \in jobs, j.at[Main] = "writing"
  PROVE  FreshResult(Result(j), j.id) /\ WholePass(Result(j))
<1>1. JobOK(j) /\ j.steps \in Nat /\ j.target \in Nat /\ j.tried \in Nat
      /\ j.at \in [Ranks -> RankPlaces] /\ j.status \in [Ranks -> {"pass", "error"}]
  BY JobTypes DEF BenchInv, JobsOK
<1>2. CASE j.status[Main] = "error"
  BY <1>2 DEF Result, Failure, WholePass, FreshResult
<1>3. CASE j.status[Main] = "pass"
  <2>1. Result(j) = [status |-> "pass", launch |-> j.id, ranks |-> j.status,
                     steps |-> j.steps, target |-> j.target, tried |-> j.tried]
    BY <1>3 DEF Result
  <2>2. j.steps = j.target /\ \A q \in Ranks : j.status[q] = "pass"
    BY <1>1, <1>3 DEF JobOK, Main, Ranks
  <2>3. j.tried = j.target
    BY <1>1, <2>2 DEF JobOK
  <2> QED BY <2>1, <2>2, <2>3 DEF WholePass, FreshResult
<1> QED BY <1>1, <1>2, <1>3 DEF Main, Ranks

\* The main rank writes (Write).
LEMMA WriteKeeps ==
  ASSUME BenchInv, NEW j \in jobs, Write(j)
  PROVE  BenchInv'
<1> DEFINE k == [j EXCEPT !.at[Main] = "barrier"]
<1>1. j.at[Main] = "writing" /\ Become(j, k)
  BY DEF Write
<1>2. /\ k \in Job /\ k.id = j.id /\ k.name = j.name /\ k.target = j.target
      /\ k.at = [j.at EXCEPT ![Main] = "barrier"] /\ k.status = j.status /\ k.steps = j.steps
      /\ k.tried = j.tried
  BY JobTypes DEF Job, BenchInv, RankPlaces, Main, Ranks
<1>3. JobOK(j) /\ j.at \in [Ranks -> RankPlaces] /\ j.status \in [Ranks -> {"pass", "error"}]
  BY JobTypes DEF BenchInv, JobsOK
<1>4. \A q \in Ranks : k.at[q] = "barrier" /\ (q # Main => j.at[q] = "barrier")
  BY <1>1, <1>2, <1>3 DEF JobOK
<1> HIDE DEF k
<1>5. JobOK(k)
  BY <1>1, <1>2, <1>3, <1>4 DEF JobOK, Main, Ranks
<1>6. PICK v : /\ results' = [results EXCEPT ![j.name] = v]
               /\ v = Result(j) \/ (v = Mixed(j) /\ results[j.name] # Empty)
  BY DEF Write, Written
<1>7. WholePass(v) /\ results'[k.name] = v
  <2>1. WholePass(v)
    BY <1>1, <1>6, ResultFacts, MixedOK
  <2> QED BY <1>2, <1>6, <2>1, JobTypes DEF BenchInv, ResultsOK
<1>8. ASSUME Undisturbed, j.id = launches
      PROVE  OwnFile(k)'
  <2>1. results[j.name] = Empty
    BY <1>1, <1>8 DEF BenchInv, JobsOK, OwnFile
  <2>2. FreshResult(v, j.id)
    BY <1>1, <1>6, <2>1, ResultFacts
  <2>3. FreshResult(results[k.name], k.id)'
    BY <1>2, <1>7, <2>2 DEF FreshResult
  <2> QED BY <1>4, <2>3 DEF OwnFile, HasWritten, Main, Ranks
<1> QED BY Zenon, <1>1, <1>2, <1>5, <1>6, <1>7, <1>8, BecomeKeeps

\* An exception outside the loop: main empties the file (Raise).
LEMMA RaiseKeeps ==
  ASSUME BenchInv, NEW j \in jobs, NEW r \in Ranks, Raise(j, r)
  PROVE  BenchInv'
<1> DEFINE k == [j EXCEPT !.at[r] = "raised", !.status[r] = "error"]
<1>1. /\ j.at[r] \in {"setup", "gather"} /\ Become(j, k)
      /\ results' = [results EXCEPT ![j.name] = Empty]
  BY DEF Raise, Emptied
<1>2. /\ k \in Job /\ k.id = j.id /\ k.name = j.name /\ k.target = j.target
      /\ k.at = [j.at EXCEPT ![r] = "raised"] /\ k.status = [j.status EXCEPT ![r] = "error"]
      /\ k.steps = j.steps /\ k.tried = j.tried
  BY Zenon, JobTypes DEF Job, BenchInv, RankPlaces
<1>3. JobOK(j) /\ j.at \in [Ranks -> RankPlaces] /\ j.status \in [Ranks -> {"pass", "error"}]
  BY JobTypes DEF BenchInv, JobsOK
<1>4. \A q \in Ranks : k.at[q] = (IF q = r THEN "raised" ELSE j.at[q])
                       /\ k.status[q] = (IF q = r THEN "error" ELSE j.status[q])
  BY <1>2, <1>3
<1> HIDE DEF k
<1>5. k.at[Main] \notin {"write", "writing"}
  <2>1. j.at[Main] \notin {"write", "writing"}
    BY <1>1, <1>3 DEF JobOK, Main, Ranks
  <2> QED BY <1>4, <2>1 DEF Main, Ranks
<1>6. JobOK(k)
  BY <1>2, <1>3, <1>4, <1>5 DEF JobOK
<1>7. results'[k.name] = Empty
  BY <1>1, <1>2, JobTypes DEF BenchInv, ResultsOK
<1>8. OwnFile(k)'
  BY <1>4, <1>5, <1>7 DEF OwnFile
<1> QED BY Zenon, <1>1, <1>2, <1>6, <1>8, EmptyOK, BecomeKeeps

\* The failure is written, perhaps over that of the other rank (WriteFailure).
LEMMA WriteFailureKeeps ==
  ASSUME BenchInv, NEW j \in jobs, NEW r \in Ranks, WriteFailure(j, r)
  PROVE  BenchInv'
<1> DEFINE k == [j EXCEPT !.at[r] = "done"]
<1>1. j.at[r] = "raised" /\ Become(j, k)
  BY DEF WriteFailure
<1>2. /\ k \in Job /\ k.id = j.id /\ k.name = j.name /\ k.target = j.target
      /\ k.at = [j.at EXCEPT ![r] = "done"] /\ k.status = j.status
      /\ k.steps = j.steps /\ k.tried = j.tried
  BY JobTypes DEF Job, BenchInv, RankPlaces
<1>3. JobOK(j) /\ j.at \in [Ranks -> RankPlaces] /\ j.status \in [Ranks -> {"pass", "error"}]
  BY JobTypes DEF BenchInv, JobsOK
<1>4. \A q \in Ranks : k.at[q] = (IF q = r THEN "done" ELSE j.at[q])
  BY <1>2, <1>3
<1> HIDE DEF k
<1>5. j.status[r] = "error"
  BY <1>1, <1>3 DEF JobOK
<1>6. k.at[Main] \notin {"write", "writing"}
  <2>1. j.at[Main] \notin {"write", "writing"}
    BY <1>1, <1>3 DEF JobOK, Main, Ranks
  <2> QED BY <1>4, <2>1 DEF Main, Ranks
<1>7. JobOK(k)
  BY <1>1, <1>2, <1>3, <1>4, <1>5, <1>6 DEF JobOK
<1>8. PICK v : /\ results' = [results EXCEPT ![j.name] = v]
               /\ v = Failure(j) \/ (v = Mixed(j) /\ results[j.name] # Empty)
  BY DEF WriteFailure, Written
<1>9. WholePass(v) /\ results'[k.name] = v
  <2>1. WholePass(v)
    BY <1>8, MixedOK, FailureOK
  <2> QED BY <1>2, <1>8, <2>1, JobTypes DEF BenchInv, ResultsOK
<1>10. ASSUME Undisturbed, j.id = launches
       PROVE  OwnFile(k)'
  <2>1. OwnFile(j)
    BY <1>10 DEF BenchInv, JobsOK
  <2>2. FreshResult(v, j.id)
    <3>1. CASE v = Failure(j)
      BY <3>1 DEF Failure, FreshResult
    <3>2. CASE v = Mixed(j) /\ results[j.name] # Empty
      <4>1. \A q \in Ranks : j.status[q] = "error"
        BY <1>1, <2>1, <3>2 DEF OwnFile
      <4> QED BY <3>2, <4>1 DEF Mixed, FreshResult
    <3> QED BY <1>8, <3>1, <3>2
  <2>3. FreshResult(results[k.name], k.id)'
    BY <1>2, <1>9, <2>2 DEF FreshResult
  <2>4. (\E q \in Ranks : k.at[q] = "raised") => \A q \in Ranks : k.status[q] = "error"
    BY <1>2, <1>4, <1>5, <1>3 DEF JobOK, Ranks
  <2> QED BY <1>6, <2>3, <2>4 DEF OwnFile
<1> QED BY Zenon, <1>1, <1>2, <1>7, <1>8, <1>9, <1>10, BecomeKeeps

-----------------------------------------------------------------------------
\* The matrix as a list of candidates.
LEMMA MatrixFacts ==
  /\ Len(Matrix) \in Nat /\ DOMAIN Matrix = 1 .. Len(Matrix)
  /\ \A i \in 1 .. Len(Matrix) : Matrix[i] \in Candidates
  BY MatrixOK DEF Candidates

\* While the lab is in the matrix, it is at a candidate.
LEMMA CandidateIn ==
  ASSUME BenchInv, index <= Len(Matrix)
  PROVE  Candidate \in Candidates /\ index + 1 \in 1 .. Len(Matrix) + 1
<1>1. index \in 1 .. Len(Matrix) + 1
  BY DEF BenchInv, BenchTypeOK
<1> QED BY <1>1, MatrixFacts DEF Candidate

\* Jobs that stay as they are, or end.
LEMMA JobsKept ==
  ASSUME BenchInv, jobs' \subseteq jobs, launches' = launches,
         lab' = "running" => UNCHANGED << lab, index, disturbed, results >>
  PROVE  JobsOK' /\ jobs' \subseteq Job' /\ launches' \in Nat
         /\ \A j \in jobs' : /\ j.steps <= j.tried /\ j.tried <= j.target
                             /\ \A r \in Ranks : j.at[r] = "train" => j.status[r] = "pass"
<1>1. BenchTypeOK /\ JobsOK
  BY DEF BenchInv
<1>2. lab' = "running" => \A j \in jobs' : j.id = launches' => j.name = Candidate'
  BY <1>1 DEF JobsOK, Candidate
<1>3. ASSUME Undisturbed', NEW j \in jobs'
      PROVE  /\ j.name = Candidate' => j.id = launches'
             /\ j.id = launches' => OwnFile(j)'
  <2>1. Undisturbed /\ j \in jobs /\ Candidate' = Candidate /\ results' = results
    BY <1>3 DEF Undisturbed, Candidate
  <2>2. OwnFile(j)' <=> OwnFile(j)
    BY <2>1 DEF OwnFile, HasWritten, FreshResult
  <2> QED BY <1>1, <2>1, <2>2 DEF JobsOK
<1>4. JobsOK'
  BY <1>1, <1>2, <1>3 DEF JobsOK
<1>5. jobs' \subseteq Job'
  BY <1>1 DEF BenchTypeOK, Job
<1> QED BY <1>1, <1>4, <1>5 DEF BenchInv, LabInv, JobsOK, JobOK

\* The lab is started, on whatever results there are (StartLab).
LEMMA StartLabKeeps ==
  ASSUME BenchInv, NEW names \in Selections, NEW tokens \in Overrides, StartLab(names, tokens)
  PROVE  BenchInv'
<1>1. /\ lab \in {"off", "ended", "killed"} /\ session < LabSessions
      /\ session' = session + 1 /\ wanted' = names /\ override' = tokens
      /\ index' = 1 /\ lab' = "next" /\ reported' = {} /\ last' = NoLine
      /\ exitCode' = 0 /\ disturbed' = FALSE
      /\ UNCHANGED << launches, jobs, results >>
  BY DEF StartLab, Idle
<1>2. /\ JobsOK' /\ jobs' \subseteq Job'
      /\ \A j \in jobs' : /\ j.steps <= j.tried /\ j.tried <= j.target
                          /\ \A r \in Ranks : j.at[r] = "train" => j.status[r] = "pass"
  BY <1>1, JobsKept
<1>3. BenchTypeOK'
  <2>1. session' \in 0 .. LabSessions
    BY <1>1, LabOK DEF BenchInv, BenchTypeOK
  <2>2. wanted' \subseteq Candidates /\ override' \in Overrides \cup {0}
    BY <1>1, SelectionsOK
  <2>3. index' \in 1 .. Len(Matrix) + 1
    BY <1>1, MatrixFacts
  <2> QED BY <1>1, <1>2, <2>1, <2>2, <2>3 DEF BenchInv, BenchTypeOK
<1>4. LabInv' /\ ResultsOK'
  BY <1>1 DEF BenchInv, LabInv, ResultsOK
<1>5. PassIsWhole' /\ FreshUnlessOrphan'
  BY <1>1 DEF NoLine, NoExit, NoResult, PassIsWhole, FreshUnlessOrphan
<1> QED BY <1>2, <1>3, <1>4, <1>5 DEF BenchInv

\* A candidate nobody asked for (Skip).
LEMMA SkipKeeps ==
  ASSUME BenchInv, Skip
  PROVE  BenchInv'
<1>1. /\ lab = "next" /\ index <= Len(Matrix) /\ index' = index + 1
      /\ UNCHANGED << lab, session, wanted, override, launches, jobs, exitCode, results, last,
                      reported, disturbed >>
  BY DEF Skip, labState
<1>2. /\ JobsOK' /\ jobs' \subseteq Job'
      /\ \A j \in jobs' : /\ j.steps <= j.tried /\ j.tried <= j.target
                          /\ \A r \in Ranks : j.at[r] = "train" => j.status[r] = "pass"
  BY <1>1, JobsKept
<1>3. BenchTypeOK'
  BY <1>1, <1>2, CandidateIn DEF BenchInv, BenchTypeOK
<1>4. LabInv' /\ ResultsOK' /\ PassIsWhole' /\ FreshUnlessOrphan'
  BY <1>1 DEF BenchInv, LabInv, ResultsOK, PassIsWhole, FreshUnlessOrphan
<1> QED BY <1>2, <1>3, <1>4 DEF BenchInv

\* A budget that is not a number of updates (Misaligned).
LEMMA MisalignedKeeps ==
  ASSUME BenchInv, Misaligned
  PROVE  BenchInv'
<1> DEFINE v == [status |-> "misaligned"]
<1>1. /\ lab = "next" /\ index <= Len(Matrix) /\ index' = index + 1 /\ Candidate \in wanted
      /\ results' = [results EXCEPT ![Candidate] = v]
      /\ last' = [launch |-> launches, exit |-> NoExit, orphan |-> disturbed,
                  result |-> v]
      /\ reported' = reported \cup {Candidate}
      /\ UNCHANGED << lab, session, wanted, override, launches, jobs, exitCode, disturbed >>
  BY DEF Misaligned, AppendLine, labState
<1>2. Candidate \in Candidates /\ v.status = "misaligned"
  BY <1>1, CandidateIn
<1> HIDE DEF v
<1>3. /\ JobsOK' /\ jobs' \subseteq Job'
      /\ \A j \in jobs' : /\ j.steps <= j.tried /\ j.tried <= j.target
                          /\ \A r \in Ranks : j.at[r] = "train" => j.status[r] = "pass"
  BY <1>1, JobsKept
<1>4. BenchTypeOK'
  BY <1>1, <1>3, CandidateIn DEF BenchInv, BenchTypeOK
<1>5. LabInv'
  BY <1>1 DEF BenchInv, LabInv
<1>6. ResultsOK'
  BY <1>1, <1>2 DEF BenchInv, ResultsOK, WholePass
<1>7. PassIsWhole' /\ FreshUnlessOrphan'
  BY <1>1, <1>2 DEF PassIsWhole, FreshUnlessOrphan, NoExit
<1> QED BY <1>3, <1>4, <1>5, <1>6, <1>7 DEF BenchInv

\* The steps a job is given are a number of updates.
LEMMA StepsAreNat ==
  ASSUME BenchInv, index <= Len(Matrix), NEW available \in Nat
  PROVE  Steps(available) \in Nat
<1>1. Candidate \in {Matrix[i] : i \in DOMAIN Matrix}
  BY CandidateIn DEF Candidates
<1>2. PerUpdate[Candidate] \in Nat \ {0} /\ Budget[Candidate] \in Nat
  BY <1>1, LabOK
<1>3. Tokens \in Nat
  BY <1>2, LabOK DEF BenchInv, BenchTypeOK, Tokens
<1> DEFINE u == PerUpdate[Candidate]
           budget == (Tokens + u - 1) \div u
           blocks == available \div u
<1>4. Steps(available) = IF budget < blocks THEN budget ELSE blocks
  BY DEF Steps
<1>5. u \in Nat \ {0} /\ Tokens + u - 1 \in Nat
  BY <1>2, <1>3
<1>6. budget \in Nat /\ blocks \in Nat
  <2> HIDE DEF u
  <2> QED BY <1>5
<1> HIDE DEF budget, blocks
<1> QED BY <1>4, <1>6

\* The job launched is the only one of its candidate, unless one of them was
\* left behind (launch_candidate).
LEMMA LaunchKeeps ==
  ASSUME BenchInv, NEW available \in Nat, launch_candidate(available)
  PROVE  BenchInv'
<1>0. PICK k : k = [id |-> launches + 1, name |-> Candidate, target |-> Steps(available),
                    at |-> [r \in Ranks |-> "setup"], status |-> [r \in Ranks |-> "pass"],
                    steps |-> 0, tried |-> 0]
  OBVIOUS
<1>1. /\ lab = "next" /\ index <= Len(Matrix) /\ Candidate \in wanted
      /\ launches' = launches + 1 /\ jobs' = jobs \cup {k} /\ lab' = "running"
      /\ disturbed' = \E j \in jobs : j.name = Candidate
      /\ UNCHANGED << session, wanted, override, index, exitCode, results, last, reported >>
  BY <1>0 DEF launch_candidate, labState
<1>2. Candidate \in Candidates /\ Steps(available) \in Nat /\ launches \in Nat
  BY <1>1, CandidateIn, StepsAreNat DEF BenchInv, LabInv
<1>3. /\ k.id = launches + 1 /\ k.name = Candidate /\ k.target = Steps(available)
      /\ k.steps = 0 /\ k.tried = 0
      /\ \A r \in Ranks : k.at[r] = "setup" /\ k.status[r] = "pass"
  BY <1>0
<1>4. k \in Job'
  BY <1>0, <1>1, <1>2 DEF Job
<1>5. \A j \in jobs : j \in Job /\ j.id \in 1 .. launches
  BY JobTypes DEF BenchInv
<1>6. jobs' \subseteq Job'
  <2>1. 1 .. launches \subseteq 1 .. (launches + 1)
    BY <1>2
  <2>2. Job \subseteq Job'
    BY <1>1, <2>1 DEF Job
  <2> QED BY <1>1, <1>4, <1>5, <2>2
<1>7. JobOK(k) /\ OwnFile(k)'
  <2>1. JobOK(k)
    BY <1>2, <1>3 DEF JobOK, Main, Ranks
  <2> QED BY <1>3, <2>1 DEF OwnFile, HasWritten, Main, Ranks
<1>8. JobsOK'
  <2>1. \A j \in jobs' : JobOK(j)
    BY <1>1, <1>7 DEF BenchInv, JobsOK
  <2>2. \A i, j \in jobs' : i.id = j.id => i = j
    <3>1. \A j \in jobs : j.id # k.id
      BY <1>2, <1>3, <1>5
    <3> QED BY <1>1, <3>1 DEF BenchInv, JobsOK
  <2>3. \A j \in jobs : j.id # launches'
    BY <1>1, <1>2, <1>5
  <2>4. \A j \in jobs' : j.id = launches' => j.name = Candidate'
    BY <1>1, <1>3, <2>3 DEF Candidate
  <2>5. ASSUME Undisturbed', NEW j \in jobs'
        PROVE  /\ j.name = Candidate' => j.id = launches'
               /\ j.id = launches' => OwnFile(j)'
    <3>1. CASE j = k
      BY <1>1, <1>3, <1>7, <3>1
    <3>2. CASE j # k
      <4>1. j \in jobs
        BY <1>1, <3>2
      <4>2. j.name # Candidate
        BY <1>1, <2>5, <4>1 DEF Undisturbed
      <4> QED BY <1>1, <2>3, <4>1, <4>2 DEF Candidate
    <3> QED BY <3>1, <3>2
  <2> QED BY <2>1, <2>2, <2>4, <2>5 DEF JobsOK
<1>9. BenchTypeOK'
  <2>1. \A j \in jobs' : /\ j.steps <= j.tried /\ j.tried <= j.target
                         /\ \A r \in Ranks : j.at[r] = "train" => j.status[r] = "pass"
    BY <1>8 DEF JobsOK, JobOK
  <2> QED BY <1>1, <1>6, <2>1 DEF BenchInv, BenchTypeOK
<1>10. LabInv' /\ ResultsOK' /\ PassIsWhole' /\ FreshUnlessOrphan'
  BY <1>1, <1>2 DEF BenchInv, LabInv, ResultsOK, PassIsWhole, FreshUnlessOrphan, Candidate
<1> QED BY <1>8, <1>9, <1>10 DEF BenchInv

\* The launcher returns 0: the job has written its own result (JobExits).
LEMMA JobExitsKeeps ==
  ASSUME BenchInv, JobExits
  PROVE  BenchInv'
<1>1. PICK j \in jobs : /\ j.id = launches /\ \A r \in Ranks : j.at[r] = "done"
                        /\ jobs' = jobs \ {j}
  BY DEF JobExits
<1>2. /\ lab = "running" /\ exitCode' = 0 /\ lab' = "collect"
      /\ UNCHANGED << session, wanted, override, index, launches, results, last, reported,
                      disturbed >>
  BY DEF JobExits, labState
<1>3. ASSUME ~ disturbed
      PROVE  FreshResult(results[Candidate], launches) /\ \A i \in jobs' : i.name # Candidate
  <2>1. OwnFile(j) /\ j.name = Candidate
    BY <1>1, <1>2, <1>3 DEF BenchInv, JobsOK, Undisturbed
  <2>2. FreshResult(results[j.name], j.id)
    BY <1>1, <2>1 DEF OwnFile, HasWritten, Main, Ranks
  <2>3. \A i \in jobs' : i.name # Candidate
    BY <1>1, <1>2, <1>3 DEF BenchInv, JobsOK, Undisturbed
  <2> QED BY <1>1, <2>1, <2>2, <2>3
<1>4. /\ JobsOK' /\ jobs' \subseteq Job'
      /\ \A i \in jobs' : /\ i.steps <= i.tried /\ i.tried <= i.target
                          /\ \A r \in Ranks : i.at[r] = "train" => i.status[r] = "pass"
  BY <1>1, <1>2, JobsKept
<1>5. BenchTypeOK'
  BY <1>2, <1>4 DEF BenchInv, BenchTypeOK
<1>6. LabInv'
  BY <1>2, <1>3 DEF BenchInv, LabInv, FreshResult, Candidate
<1>7. ResultsOK' /\ PassIsWhole' /\ FreshUnlessOrphan'
  BY <1>2 DEF BenchInv, ResultsOK, PassIsWhole, FreshUnlessOrphan
<1> QED BY <1>4, <1>5, <1>6, <1>7 DEF BenchInv

\* The lab gives up waiting; from now on the job is one left behind (Timeout).
LEMMA TimeoutKeeps ==
  ASSUME BenchInv, Timeout
  PROVE  BenchInv'
<1>1. /\ lab = "running"
      /\ \/ lab' = "collect" /\ exitCode' = 124
         \/ lab' = "ended" /\ exitCode' = exitCode
      /\ UNCHANGED << session, wanted, override, index, launches, jobs, results, last, reported,
                      disturbed >>
  BY DEF Timeout, labState
<1>2. /\ JobsOK' /\ jobs' \subseteq Job'
      /\ \A j \in jobs' : /\ j.steps <= j.tried /\ j.tried <= j.target
                          /\ \A r \in Ranks : j.at[r] = "train" => j.status[r] = "pass"
  BY <1>1, JobsKept
<1>3. BenchTypeOK'
  BY <1>1, <1>2 DEF BenchInv, BenchTypeOK
<1>4. LabInv'
  BY <1>1 DEF BenchInv, LabInv, Candidate
<1>5. ResultsOK' /\ PassIsWhole' /\ FreshUnlessOrphan'
  BY <1>1 DEF BenchInv, ResultsOK, PassIsWhole, FreshUnlessOrphan
<1> QED BY <1>2, <1>3, <1>4, <1>5 DEF BenchInv

\* The line of the candidate is written (Collect).
LEMMA CollectKeeps ==
  ASSUME BenchInv, Collect
  PROVE  BenchInv'
<1> DEFINE found == IF results[Candidate] = NoResult THEN [status |-> "missing"]
                    ELSE results[Candidate]
<1>1. /\ lab = "collect"
      /\ results' = IF found.status = "missing" THEN [results EXCEPT ![Candidate] = found]
                                                ELSE results
      /\ last' = [launch |-> launches, exit |-> exitCode, orphan |-> disturbed,
                  result |-> found]
      /\ reported' = reported \cup {Candidate}
      /\ index' = index + 1 /\ lab' = "next" /\ exitCode' = 0
      /\ UNCHANGED << session, wanted, override, launches, jobs, disturbed >>
  BY DEF Collect, AppendLine, labState
<1>2. Candidate \in Candidates /\ Candidate \in wanted /\ index + 1 \in 1 .. Len(Matrix) + 1
  BY <1>1, CandidateIn DEF BenchInv, LabInv
<1>3. WholePass(found)
  <2>1. WholePass([status |-> "missing"])
    BY DEF WholePass
  <2> QED BY <1>2, <2>1 DEF BenchInv, ResultsOK
<1>4. exitCode = 0 /\ ~ disturbed => FreshResult(found, launches)
  BY <1>1 DEF BenchInv, LabInv, FreshResult, NoResult
<1> HIDE DEF found
<1>5. /\ JobsOK' /\ jobs' \subseteq Job'
      /\ \A j \in jobs' : /\ j.steps <= j.tried /\ j.tried <= j.target
                          /\ \A r \in Ranks : j.at[r] = "train" => j.status[r] = "pass"
  BY <1>1, JobsKept
<1>6. BenchTypeOK'
  BY <1>1, <1>2, <1>5 DEF BenchInv, BenchTypeOK
<1>7. LabInv'
  BY <1>1 DEF BenchInv, LabInv
<1>8. ResultsOK'
  BY <1>1, <1>2, <1>3 DEF BenchInv, ResultsOK
<1>9. PassIsWhole' /\ FreshUnlessOrphan'
  BY Zenon, <1>1, <1>3, <1>4 DEF PassIsWhole, FreshUnlessOrphan, WholePass, FreshResult
<1> QED BY <1>5, <1>6, <1>7, <1>8, <1>9 DEF BenchInv

\* The matrix is through (Report).
LEMMA ReportKeeps ==
  ASSUME BenchInv, Report
  PROVE  BenchInv'
<1>1. /\ lab = "next" /\ lab' = "ended"
      /\ UNCHANGED << session, wanted, override, index, launches, jobs, exitCode, results, last,
                      reported, disturbed >>
  BY DEF Report, labState
<1>2. /\ JobsOK' /\ jobs' \subseteq Job'
      /\ \A j \in jobs' : /\ j.steps <= j.tried /\ j.tried <= j.target
                          /\ \A r \in Ranks : j.at[r] = "train" => j.status[r] = "pass"
  BY <1>1, JobsKept
<1>3. BenchTypeOK'
  BY <1>1, <1>2 DEF BenchInv, BenchTypeOK
<1>4. LabInv' /\ ResultsOK' /\ PassIsWhole' /\ FreshUnlessOrphan'
  BY <1>1 DEF BenchInv, LabInv, ResultsOK, PassIsWhole, FreshUnlessOrphan
<1> QED BY <1>2, <1>3, <1>4 DEF BenchInv

\* The machine is taken away (Killed).
LEMMA KilledKeeps ==
  ASSUME BenchInv, Killed
  PROVE  BenchInv'
<1>1. /\ lab' = "killed" /\ jobs' = {}
      /\ UNCHANGED << session, wanted, override, index, launches, exitCode, results, last,
                      reported, disturbed >>
  BY DEF Killed, labState
<1>2. BenchTypeOK'
  BY <1>1 DEF BenchInv, BenchTypeOK
<1>3. JobsOK' /\ LabInv' /\ ResultsOK' /\ PassIsWhole' /\ FreshUnlessOrphan'
  BY <1>1 DEF BenchInv, JobsOK, LabInv, ResultsOK, PassIsWhole, FreshUnlessOrphan
<1> QED BY <1>2, <1>3 DEF BenchInv

\* A rank is killed; a launcher that is still there returns 1 (Abort).
LEMMA AbortKeeps ==
  ASSUME BenchInv, NEW j \in jobs, Abort(j)
  PROVE  BenchInv'
<1>1. /\ jobs' = jobs \ {j}
      /\ IF lab = "running" /\ j.id = launches
         THEN lab' = "collect" /\ exitCode' = 1
         ELSE UNCHANGED << lab, exitCode >>
      /\ UNCHANGED << session, wanted, override, index, launches, results, last, reported,
                      disturbed >>
  BY DEF Abort, labState
<1>2. /\ JobsOK' /\ jobs' \subseteq Job'
      /\ \A i \in jobs' : /\ i.steps <= i.tried /\ i.tried <= i.target
                          /\ \A r \in Ranks : i.at[r] = "train" => i.status[r] = "pass"
  BY <1>1, JobsKept
<1>3. BenchTypeOK'
  BY <1>1, <1>2 DEF BenchInv, BenchTypeOK
<1>4. LabInv'
  <2>1. Candidate' = Candidate
    BY <1>1 DEF Candidate
  <2>2. lab' \in {"running", "collect"} => lab \in {"running", "collect"}
    BY <1>1
  <2>3. lab' = "collect" /\ exitCode' = 0 => lab = "collect" /\ exitCode = 0
    BY <1>1
  <2> QED BY <1>1, <2>1, <2>2, <2>3 DEF BenchInv, LabInv, FreshResult
<1>5. ResultsOK' /\ PassIsWhole' /\ FreshUnlessOrphan'
  BY <1>1 DEF BenchInv, ResultsOK, PassIsWhole, FreshUnlessOrphan
<1> QED BY <1>2, <1>3, <1>4, <1>5 DEF BenchInv

\* A job without a launcher ends (OrphanEnds).
LEMMA OrphanEndsKeeps ==
  ASSUME BenchInv, NEW j \in jobs, OrphanEnds(j)
  PROVE  BenchInv'
<1>1. /\ jobs' = jobs \ {j}
      /\ UNCHANGED << lab, session, wanted, override, index, launches, exitCode, results, last,
                      reported, disturbed >>
  BY DEF OrphanEnds, labState
<1>2. /\ JobsOK' /\ jobs' \subseteq Job'
      /\ \A i \in jobs' : /\ i.steps <= i.tried /\ i.tried <= i.target
                          /\ \A r \in Ranks : i.at[r] = "train" => i.status[r] = "pass"
  BY <1>1, JobsKept
<1>3. BenchTypeOK'
  BY <1>1, <1>2 DEF BenchInv, BenchTypeOK
<1>4. LabInv' /\ ResultsOK' /\ PassIsWhole' /\ FreshUnlessOrphan'
  BY <1>1 DEF BenchInv, LabInv, ResultsOK, PassIsWhole, FreshUnlessOrphan, FreshResult, Candidate
<1> QED BY <1>2, <1>3, <1>4 DEF BenchInv

\* Nothing was launched yet.
LEMMA BenchInitially == ASSUME BenchInit PROVE BenchInv
<1>1. BenchTypeOK
  <2>1. disturbed \in BOOLEAN
    BY Zenon DEF BenchInit
  <2>2. 1 \in 1 .. Len(Matrix) + 1 /\ 0 \in 0 .. LabSessions
    BY MatrixFacts, LabOK
  <2> QED BY <2>1, <2>2 DEF BenchInit, BenchTypeOK
<1>2. JobsOK /\ LabInv
  BY DEF BenchInit, JobsOK, LabInv, Undisturbed
<1>3. ResultsOK
  BY DEF BenchInit, ResultsOK, WholePass, NoResult
<1>4. PassIsWhole /\ FreshUnlessOrphan
  BY DEF BenchInit, PassIsWhole, FreshUnlessOrphan, NoLine, NoExit, NoResult
<1> QED BY <1>1, <1>2, <1>3, <1>4 DEF BenchInv

-----------------------------------------------------------------------------
\* The blocks of the corpus are a number.
LEMMA CorpusBlocksNat == CorpusBlocks \in Nat
<1>1. IsFiniteSet(ToSet(Languages))
  <2>1. Len(Languages) \in Nat /\ DOMAIN Languages = 1 .. Len(Languages)
    BY AllotOK
  <2>2. IsFiniteSet(1 .. Len(Languages))
    BY <2>1, FS_Interval
  <2> DEFINE S == 1 .. Len(Languages)
             T == ToSet(Languages)
             f == [i \in S |-> Languages[i]]
  <2>3. f \in Surjection(S, T)
    BY <2>1 DEF Surjection, ToSet
  <2>4. IsFiniteSet(S)
    BY <2>2
  <2> HIDE DEF S, T, f
  <2>5. IsFiniteSet(T)
    BY <2>3, <2>4, FS_Surjection
  <2> QED BY <2>5 DEF T
<1>2. TrainBlocks \in [ToSet(Languages) -> Nat]
  BY AllotOK
<1> QED BY Zenon, <1>1, <1>2, SumBounds DEF CorpusBlocks

\* Every step of the three kernels keeps the invariant of the lab.
LEMMA BenchStep ==
  ASSUME BenchInv, [Next]_kaggleVars
  PROVE  BenchInv'
<1>1. CASE UNCHANGED benchVars
  BY <1>1 DEF benchVars, BenchInv, BenchTypeOK, Job, JobsOK, Undisturbed, OwnFile, HasWritten,
              FreshResult, LabInv, Candidate, ResultsOK, PassIsWhole, FreshUnlessOrphan
<1>2. CASE LabNext(CorpusBlocks)
  BY <1>2, SkipKeeps, MisalignedKeeps, JobExitsKeeps, TimeoutKeeps, CollectKeeps, ReportKeeps,
     LaunchKeeps, CorpusBlocksNat DEF LabNext
<1>3. CASE JobNext
  BY <1>3, SetUpKeeps, UpdateKeeps, LoopFailsKeeps, LoopEndsKeeps, GatherKeeps,
     OpenResultKeeps, WriteKeeps, LeaveKeeps, AbortKeeps, OrphanEndsKeeps, RaiseKeeps,
     WriteFailureKeeps, FallKeeps DEF JobNext
<1>4. CASE Killed
  BY <1>4, KilledKeeps
<1>5. ASSUME NEW names \in Selections, NEW tokens \in Overrides, StartLab(names, tokens)
      PROVE  BenchInv'
  BY <1>5, StartLabKeeps
<1>6. CASE Bench
  BY <1>2, <1>3, <1>4, <1>5, <1>6 DEF Bench
<1>7. Next \/ UNCHANGED kaggleVars => Bench \/ UNCHANGED benchVars
  BY DEF Next, Prepare, Train, find_corpus, kaggleVars
<1> QED BY <1>1, <1>6, <1>7

\* The invariant of the throughput lab holds whatever the matrix, the budgets,
\* the numbers of sessions and of jobs left behind.
THEOREM LabInvariant == Spec => []BenchInv
<1>1. KaggleInit => BenchInv
  BY BenchInitially DEF KaggleInit
<1>2. BenchInv /\ [Next]_kaggleVars => BenchInv'
  BY BenchStep
<1> QED BY <1>1, <1>2, PTL DEF Spec

\* A line says "pass" only of a job whose two ranks took all their steps, on
\* blocks of their own, without an overflow (run_bench of code_cpt/bench.py).
THEOREM PassesAreWhole == Spec => []PassIsWhole
<1>1. BenchInv => PassIsWhole
  BY DEF BenchInv
<1> QED BY <1>1, LabInvariant, PTL

\* When a launcher returned 0, the line has the result of that launch, unless a
\* job of this candidate was still at work when it was launched; it cannot be
\* read only when both ranks failed (launch_candidate of run_bench.py, main of
\* bench.py).
THEOREM ResultsAreFresh == Spec => []FreshUnlessOrphan
<1>1. BenchInv => FreshUnlessOrphan
  BY DEF BenchInv
<1> QED BY <1>1, LabInvariant, PTL

-----------------------------------------------------------------------------
(***************************************************************************)
(* The preparation of the corpus.                                          *)
(***************************************************************************)
Places == {"off", "stream", "combine", "general", "records", "marker", "stamp",
           "done", "failed"}
File == [job : Nat, whole : BOOLEAN]
IsDone(f) == disk[f] = [job |-> attempt, whole |-> TRUE]

\* The files of this attempt are finished one after the other.
DiskOrder ==
  /\ prep \in {"combine", "general", "records", "marker", "stamp", "done"} => IsDone("micro")
  /\ prep \in {"general", "records", "marker", "stamp", "done"} => IsDone("train_blocks")
  /\ prep \in {"records", "marker", "stamp", "done"} => IsDone("general")
  /\ prep \in {"marker", "stamp", "done"} => IsDone("validation_records")
  /\ prep \in {"stamp", "done"} => IsDone("metadata")
  /\ prep \in {"stream", "combine", "general", "records"} => disk["metadata"].job # attempt

\* The files beside metadata are of the same attempt, or opened since.
MarkerBeside ==
  disk["metadata"].job > 0 =>
    \A f \in Files \ {"metadata"} :
      \/ disk[f] = [job |-> disk["metadata"].job, whole |-> TRUE]
      \/ disk[f].job > disk["metadata"].job

CorpusInv ==
  /\ attempt \in Nat /\ prep \in Places
  /\ disk \in [Files -> File] /\ \A f \in Files : disk[f].job <= attempt
  /\ DiskOrder /\ MarkerBeside

\* After a job that came to its end all files are of that job.
LEMMA MarkerFollows ==
  ASSUME CorpusInv
  PROVE  MarkerMeansWhole
<1>1. ASSUME prep = "done", NEW f \in Files
      PROVE  disk[f] = [job |-> attempt, whole |-> TRUE]
  BY <1>1 DEF CorpusInv, DiskOrder, IsDone, Files
<1> QED BY <1>1 DEF CorpusInv, MarkerBeside, MarkerMeansWhole

\* While no metadata of the present attempt are there, its other files may be
\* opened and finished.
LEMMA BesideKept ==
  ASSUME CorpusInv, NEW fs \in SUBSET (Files \ {"metadata"}),
         attempt' \in Nat, disk["metadata"].job < attempt',
         \A f \in Files \ fs : disk'[f] = disk[f],
         \A f \in fs : disk'[f].job = attempt'
  PROVE  MarkerBeside'
<1>1. disk'["metadata"] = disk["metadata"]
  BY DEF Files
<1>2. ASSUME NEW f \in Files \ {"metadata"}, disk["metadata"].job > 0
      PROVE  \/ disk'[f] = [job |-> disk["metadata"].job, whole |-> TRUE]
             \/ disk'[f].job > disk["metadata"].job
  <2>1. CASE f \in fs
    BY <2>1
  <2>2. CASE f \notin fs
    BY <1>2, <2>2 DEF CorpusInv, MarkerBeside
  <2> QED BY <2>1, <2>2
<1> QED BY <1>1, <1>2 DEF MarkerBeside

\* Files are opened, or one is finished, by this attempt.
LEMMA OpenTypes ==
  ASSUME CorpusInv, NEW fs \in SUBSET Files, Open(fs), attempt' \in Nat, attempt <= attempt'
  PROVE  /\ disk' \in [Files -> File] /\ \A f \in Files : disk'[f].job <= attempt'
         /\ \A f \in Files \ fs : disk'[f] = disk[f]
         /\ \A f \in fs : disk'[f] = [job |-> attempt', whole |-> FALSE]
<1>1. [job |-> attempt', whole |-> FALSE] \in File
  BY DEF File
<1>2. \A f \in Files : disk'[f] = IF f \in fs THEN [job |-> attempt', whole |-> FALSE] ELSE disk[f]
  BY DEF Open
<1>3. disk' \in [Files -> File]
  BY <1>1 DEF Open, CorpusInv
<1>4. ASSUME NEW f \in Files PROVE disk'[f].job <= attempt'
  <2>1. disk[f].job \in Nat /\ disk[f].job <= attempt /\ attempt \in Nat
    BY DEF CorpusInv, File
  <2> QED BY <1>2, <2>1
<1> QED BY Zenon, <1>2, <1>3, <1>4

\* A file is finished by this attempt.
LEMMA FinishedTypes ==
  ASSUME CorpusInv, NEW g \in Files, disk' = Finished(g), attempt' = attempt
  PROVE  /\ disk' \in [Files -> File] /\ \A f \in Files : disk'[f].job <= attempt'
         /\ \A f \in Files \ {g} : disk'[f] = disk[f]
         /\ disk'[g] = [job |-> attempt, whole |-> TRUE]
<1>1. [job |-> attempt, whole |-> TRUE] \in File
  BY DEF File, CorpusInv
<1>2. \A f \in Files : disk'[f] = IF f = g THEN [job |-> attempt, whole |-> TRUE] ELSE disk[f]
  BY DEF Finished, CorpusInv
<1>3. disk' \in [Files -> File]
  BY <1>1 DEF Finished, CorpusInv
<1>4. ASSUME NEW f \in Files PROVE disk'[f].job <= attempt'
  <2>1. disk[f].job \in Nat /\ disk[f].job <= attempt /\ attempt \in Nat
    BY DEF CorpusInv, File
  <2> QED BY <1>2, <2>1
<1> QED BY <1>2, <1>3, <1>4

\* Until its last file a job finds no metadata, or older ones.
LEMMA StillOld ==
  ASSUME CorpusInv, attempt' = attempt, prep \in {"stream", "combine", "general", "records"}
  PROVE  attempt' \in Nat /\ disk["metadata"].job < attempt'
<1>1. disk["metadata"].job \in Nat /\ disk["metadata"].job <= attempt /\ attempt \in Nat
  BY DEF CorpusInv, File, Files
<1> QED BY <1>1 DEF CorpusInv, DiskOrder

\* The job is started: no file is of the new attempt yet (StartJob, Refused).
LEMMA StartsKeep ==
  ASSUME CorpusInv, Refused \/ StartJob
  PROVE  CorpusInv'
<1>1. attempt' = attempt + 1 /\ attempt \in Nat /\ attempt' \in Nat /\ attempt <= attempt'
  BY DEF Refused, StartJob, Startable, CorpusInv
<1>2. \A f \in Files : disk[f].job \in Nat /\ disk[f].job <= attempt
  BY DEF CorpusInv, File
<1>3. \A f \in Files : disk[f].job < attempt' /\ disk[f].job # attempt' /\ disk[f].job <= attempt'
  BY <1>1, <1>2
<1>4. CASE Refused
  <2>1. prep' = "failed" /\ disk' = disk
    BY <1>4 DEF Refused
  <2> QED BY <1>1, <1>3, <2>1 DEF CorpusInv, DiskOrder, MarkerBeside, Places, Files
<1>5. CASE StartJob
  <2>1. prep' = "stream" /\ Open({"micro"})
    BY <1>5 DEF StartJob
  <2>2. /\ disk' \in [Files -> File] /\ \A f \in Files : disk'[f].job <= attempt'
        /\ \A f \in Files \ {"micro"} : disk'[f] = disk[f]
        /\ disk'["micro"].job = attempt'
    <3>1. {"micro"} \in SUBSET Files
      BY DEF Files
    <3> QED BY <1>1, <2>1, <3>1, OpenTypes
  <2>3. MarkerBeside'
    <3>1. {"micro"} \in SUBSET (Files \ {"metadata"}) /\ "metadata" \in Files
      BY DEF Files
    <3> QED BY <1>1, <1>3, <2>2, <3>1, BesideKept
  <2> QED BY <1>1, <1>3, <2>1, <2>2, <2>3 DEF CorpusInv, DiskOrder, Places, Files
<1> QED BY <1>4, <1>5

\* The rows of a stream, and its end (Reject, Accept, EndStream).
LEMMA StreamKeeps ==
  ASSUME CorpusInv, \/ Reject \/ EndStream
                    \/ \E names \in Names, len \in Lengths : Accept(names, len)
  PROVE  CorpusInv'
<1>1. attempt' = attempt /\ prep = "stream"
  BY Zenon DEF Reject, EndStream, Accept, Reading, Failed, stream
<1>2. CASE prep' \in {"stream", "failed"} /\ disk' = disk
  BY <1>1, <1>2 DEF CorpusInv, DiskOrder, MarkerBeside, Places, Files, IsDone
<1>3. CASE prep' = "combine" /\ disk' = Finished("micro")
  <2>1. /\ disk' \in [Files -> File] /\ \A f \in Files : disk'[f].job <= attempt'
        /\ \A f \in Files \ {"micro"} : disk'[f] = disk[f]
        /\ disk'["micro"] = [job |-> attempt, whole |-> TRUE]
    BY <1>1, <1>3, FinishedTypes DEF Files
  <2>2. MarkerBeside'
    <3>1. {"micro"} \in SUBSET (Files \ {"metadata"})
      BY DEF Files
    <3>2. attempt' \in Nat /\ disk["metadata"].job < attempt'
      BY <1>1, StillOld
    <3>3. \A f \in {"micro"} : disk'[f].job = attempt'
      BY <1>1, <2>1
    <3> QED BY <2>1, <3>1, <3>2, <3>3, BesideKept
  <2> QED BY <1>1, <1>3, <2>1, <2>2 DEF CorpusInv, DiskOrder, Places, Files, IsDone
<1> QED BY Zenon, <1>1, <1>2, <1>3 DEF Reject, EndStream, Accept, Reading, Failed

\* The files after the last stream, one at a time (Combine ... Stamp).
LEMMA WriteFileKeeps ==
  ASSUME CorpusInv, Combine \/ General \/ WriteRecords \/ WriteMarker \/ Stamp
  PROVE  CorpusInv'
<1>0. attempt' = attempt /\ attempt \in Nat /\ attempt <= attempt'
  BY DEF Combine, General, WriteRecords, WriteMarker, Stamp, Failed, CorpusInv
<1>1. ASSUME NEW f \in {"train_blocks", "general"}, Open({f}), prep' = prep,
             f = "train_blocks" => prep = "combine", f = "general" => prep = "general"
      PROVE  CorpusInv'
  <2>1. /\ disk' \in [Files -> File] /\ \A g \in Files : disk'[g].job <= attempt'
        /\ \A g \in Files \ {f} : disk'[g] = disk[g]
        /\ disk'[f].job = attempt'
    <3>1. {f} \in SUBSET Files
      BY DEF Files
    <3> QED BY <1>0, <1>1, <3>1, OpenTypes
  <2>2. MarkerBeside'
    <3>1. {f} \in SUBSET (Files \ {"metadata"})
      BY <1>1 DEF Files
    <3>2. attempt' \in Nat /\ disk["metadata"].job < attempt'
      BY <1>0, <1>1, StillOld
    <3> QED BY <2>1, <3>1, <3>2, BesideKept
  <2> QED BY <1>0, <1>1, <2>1, <2>2 DEF CorpusInv, DiskOrder, Places, Files, IsDone
<1>2. ASSUME NEW f \in Files, disk' = Finished(f),
             \/ f = "train_blocks" /\ prep = "combine" /\ prep' = "general"
             \/ f = "general" /\ prep = "general" /\ prep' = "records"
             \/ f = "validation_records" /\ prep = "records" /\ prep' = "marker"
             \/ f = "metadata" /\ prep = "marker" /\ prep' = "stamp"
      PROVE  CorpusInv'
  <2>1. /\ disk' \in [Files -> File] /\ \A g \in Files : disk'[g].job <= attempt'
        /\ \A g \in Files \ {f} : disk'[g] = disk[g]
        /\ disk'[f] = [job |-> attempt, whole |-> TRUE]
    BY Zenon, <1>0, <1>2, FinishedTypes
  <2>2. MarkerBeside'
    <3>1. CASE f # "metadata"
      <4>1. {f} \in SUBSET (Files \ {"metadata"})
        BY <3>1
      <4>2. prep \in {"stream", "combine", "general", "records"}
        BY <1>2, <3>1
      <4>3. attempt' \in Nat /\ disk["metadata"].job < attempt'
        BY <1>0, <4>2, StillOld
      <4>4. disk'[f].job = attempt'
        BY <1>0, <2>1
      <4> QED BY <2>1, <4>1, <4>3, <4>4, BesideKept
    <3>2. CASE f = "metadata"
      <4>1. \A g \in Files \ {"metadata"} : disk'[g] = [job |-> attempt, whole |-> TRUE]
        BY <1>2, <2>1, <3>2 DEF CorpusInv, DiskOrder, IsDone, Files
      <4>2. disk'["metadata"].job = attempt
        BY <2>1, <3>2
      <4> QED BY <4>1, <4>2 DEF MarkerBeside
    <3> QED BY <3>1, <3>2
  <2>3. DiskOrder'
    BY Zenon, <1>0, <1>2, <2>1 DEF CorpusInv, DiskOrder, Places, Files, IsDone
  <2>4. prep' \in Places
    BY <1>2 DEF Places
  <2> QED BY Zenon, <1>0, <2>1, <2>2, <2>3, <2>4 DEF CorpusInv
<1>3. ASSUME disk' = disk,
             \/ prep = "general" /\ prep' = "failed"
             \/ prep = "stamp" /\ prep' = "done"
      PROVE  CorpusInv'
  BY Zenon, <1>0, <1>3 DEF CorpusInv, DiskOrder, MarkerBeside, Places, Files, IsDone
<1>4. CASE Combine
  BY <1>1, <1>2, <1>4 DEF Combine, Files
<1>5. CASE General
  <2>1. CASE Open({"general"}) /\ prep' = prep
    BY <1>1, <1>5, <2>1 DEF General
  <2>2. CASE disk' = Finished("general") /\ prep' = "records"
    BY <1>2, <1>5, <2>2 DEF General, Files
  <2>3. CASE Failed
    <3>1. disk' = disk /\ prep' = "failed"
      BY <2>3 DEF Failed
    <3>2. prep = "general"
      BY <1>5 DEF General
    <3> QED BY <1>0, <3>1, <3>2 DEF CorpusInv, DiskOrder, MarkerBeside, Places, Files, IsDone
  <2> QED BY <1>5, <2>1, <2>2, <2>3 DEF General
<1>6. CASE WriteRecords \/ WriteMarker \/ Stamp
  BY <1>2, <1>3, <1>6 DEF WriteRecords, WriteMarker, Stamp, Files
<1> QED BY <1>4, <1>5, <1>6

\* The job is killed, in the middle of a file perhaps (Halt).
LEMMA HaltKeeps ==
  ASSUME CorpusInv, Halt
  PROVE  CorpusInv'
<1>1. /\ prep \notin {"off", "failed", "done"} /\ prep' = "failed"
      /\ attempt' = attempt /\ attempt \in Nat /\ attempt <= attempt'
  BY DEF Halt, CorpusInv
<1>2. CASE disk' = disk
  BY Zenon, <1>1, <1>2 DEF CorpusInv, DiskOrder, MarkerBeside, Places, Files, IsDone
<1>3. ASSUME NEW f \in Files, Open({f}), \/ prep = "records" /\ f = "validation_records"
                                         \/ prep \in {"marker", "stamp"} /\ f = "metadata"
      PROVE  CorpusInv'
  <2>1. /\ disk' \in [Files -> File] /\ \A g \in Files : disk'[g].job <= attempt'
        /\ \A g \in Files \ {f} : disk'[g] = disk[g]
        /\ disk'[f].job = attempt'
    BY <1>1, <1>3, OpenTypes
  <2>2. MarkerBeside'
    <3>1. CASE f # "metadata"
      <4>1. {f} \in SUBSET (Files \ {"metadata"})
        BY <3>1
      <4>2. prep = "records"
        BY <1>3, <3>1
      <4>3. attempt' \in Nat /\ disk["metadata"].job < attempt'
        BY <1>1, <4>2, StillOld
      <4> QED BY <2>1, <4>1, <4>3, BesideKept
    <3>2. CASE f = "metadata"
      <4>1. \A g \in Files \ {"metadata"} : disk'[g] = [job |-> attempt, whole |-> TRUE]
        BY <1>3, <2>1, <3>2 DEF CorpusInv, DiskOrder, IsDone, Files
      <4>2. disk'["metadata"].job = attempt
        BY <1>1, <2>1, <3>2
      <4> QED BY <4>1, <4>2 DEF MarkerBeside
    <3> QED BY <3>1, <3>2
  <2> QED BY Zenon, <1>1, <2>1, <2>2 DEF CorpusInv, DiskOrder, Places, Files
<1> QED BY <1>2, <1>3 DEF Halt, Files

\* Every step of the three kernels keeps the invariant of the corpus.
LEMMA CorpusStep ==
  ASSUME CorpusInv, [Next]_kaggleVars
  PROVE  CorpusInv'
<1>1. CASE UNCHANGED corpusVars
  BY <1>1 DEF corpusVars, CorpusInv, DiskOrder, MarkerBeside, IsDone
<1>2. CASE CorpusNext
  BY <1>2, StartsKeep, StreamKeeps, WriteFileKeeps, HaltKeeps DEF CorpusNext
<1>3. CASE CorpusReset
  <2>1. prep' = "off" /\ attempt' = 0 /\ disk' = [f \in Files |-> Absent]
    BY <1>3 DEF CorpusReset
  <2>2. \A f \in Files : disk'[f] = [job |-> 0, whole |-> FALSE]
    BY <2>1 DEF Absent
  <2>3. disk' \in [Files -> File]
    BY <2>1 DEF Absent, File
  <2>4. MarkerBeside'
    BY <2>2 DEF MarkerBeside, Files
  <2> QED BY <2>1, <2>2, <2>3, <2>4 DEF CorpusInv, DiskOrder, Places
<1> QED BY <1>1, <1>2, <1>3 DEF Next, Prepare, Bench, Train, find_corpus, kaggleVars

\* No file yet.
LEMMA CorpusInitially == KaggleInit => CorpusInv
<1> SUFFICES ASSUME KaggleInit PROVE CorpusInv
  OBVIOUS
<1>1. prep = "off" /\ attempt = 0 /\ disk = [f \in Files |-> Absent]
  BY DEF KaggleInit, CorpusInit
<1>2. \A f \in Files : disk[f] = [job |-> 0, whole |-> FALSE]
  BY <1>1 DEF Absent
<1>3. disk \in [Files -> File]
  BY <1>1 DEF Absent, File
<1>4. MarkerBeside
  BY <1>2 DEF MarkerBeside, Files
<1> QED BY <1>1, <1>2, <1>3, <1>4 DEF CorpusInv, DiskOrder, Places

\* Wherever the jobs are killed and however often one is started again, all the
\* files beside any metadata are whole and of the job of the metadata, or a later
\* job has opened them since (prepare_corpus).
THEOREM MarkerIsLast == Spec => []MarkerMeansWhole
<1>1. KaggleInit => CorpusInv
  BY CorpusInitially
<1>2. CorpusInv /\ [Next]_kaggleVars => CorpusInv'
  BY CorpusStep
<1>3. CorpusInv => MarkerMeansWhole
  BY MarkerFollows
<1> QED BY <1>1, <1>2, <1>3, PTL DEF Spec

-----------------------------------------------------------------------------
(***************************************************************************)
(* The text a packer is to produce.                                        *)
(***************************************************************************)

Join(text, doc) == IF text = << >> THEN doc ELSE text \o << Eos >> \o doc

\* The recursion that Joined evaluates.
JoinRec(docs, h) ==
  h = [s \in SUBSET DOMAIN docs |->
         IF s = {} THEN << >> ELSE Join(h[s \ {Max(s)}], docs[Max(s)])]

\* Joined is a function of that recursion, applied to all the documents.
LEMMA JoinedUnfolds ==
  ASSUME NEW docs
  PROVE  Joined(docs) = (CHOOSE h : JoinRec(docs, h))[DOMAIN docs]
  BY DEF Joined, FoldLeft, MapThenFoldSet, JoinRec, Join

\* The text after each of the documents.
LEMMA JoinedSteps ==
  ASSUME NEW T, Eos \in T, NEW docs \in Seq(Seq(T))
  PROVE  \E r \in [0 .. Len(docs) -> Seq(T)] :
           /\ r[0] = << >> /\ r[Len(docs)] = Joined(docs)
           /\ \A i \in 1 .. Len(docs) : r[i] = Join(r[i - 1], docs[i])
<1> DEFINE n == Len(docs)
           G == [p \in (1 .. n) \X Seq(T) |-> Join(p[2], docs[p[1]])]
<1>1. n \in Nat /\ DOMAIN docs = 1 .. n /\ \A i \in 1 .. n : docs[i] \in Seq(T)
  OBVIOUS
<1>2. \A t, u \in Seq(T) : Join(t, u) \in Seq(T)
  BY DEF Join
<1>3. G \in [(1 .. n) \X Seq(T) -> Seq(T)]
  BY <1>1, <1>2
<1> DEFINE e == << >>
           V == Seq(T)
<1>4. e \in V /\ n \in Nat /\ G \in [(1 .. n) \X V -> V]
  BY <1>3
<1>5. \A i \in 1 .. n, t \in Seq(T) : G[<< i, t >>] = Join(t, docs[i])
  OBVIOUS
<1> HIDE DEF n, G, e, V
<1>0. PICK h, r : FoldRun(n, V, e, G, h, r)
  BY ONLY Zenon, <1>4, FoldSteps
<1>6. /\ h \in [SUBSET (1 .. n) -> V] /\ r \in [0 .. n -> V]
      /\ Fold(e, G, 1 .. n, h) /\ r[0] = e
      /\ \A i \in 1 .. n : r[i] = G[<< i, r[i - 1] >>]
      /\ \A i \in 0 .. n : r[i] = h[1 .. i]
  BY ONLY Zenon, <1>0 DEF FoldRun
<1> USE DEF e, V
<1>7. JoinRec(docs, h)
  <2>1. ASSUME NEW s \in SUBSET (1 .. n), s # {}
        PROVE  h[s] = Join(h[s \ {Max(s)}], docs[Max(s)])
    <3>1. Max(s) \in 1 .. n
      BY <2>1, IndexIn, <1>1
    <3>2. h[s] = G[<< Max(s), h[s \ {Max(s)}] >>]
      BY Zenon, <1>6, <2>1 DEF Fold
    <3>3. h[s \ {Max(s)}] \in Seq(T)
      BY Zenon, <1>6
    <3> QED BY <3>1, <3>2, <3>3, <1>5
  <2>2. h[{}] = << >>
    BY <1>6 DEF Fold
  <2> QED BY Zenon, <1>1, <1>6, <2>1, <2>2 DEF JoinRec
<1> DEFINE k == CHOOSE g : JoinRec(docs, g)
<1>8. JoinRec(docs, k)
  BY <1>7
<1>9. Joined(docs) = k[1 .. n]
  BY <1>1, JoinedUnfolds
<1> HIDE DEF k
<1>10. \A i \in 0 .. n : k[1 .. i] = r[i]
  <2> DEFINE S == {i \in Nat : i <= n => k[1 .. i] = r[i]}
  <2>1. 0 \in S
    <3>1. k[{}] = << >>
      BY <1>8 DEF JoinRec
    <3>2. 1 .. 0 = {}
      OBVIOUS
    <3> QED BY <1>6, <3>1, <3>2
  <2>2. ASSUME NEW i \in Nat, i \in S
        PROVE  i + 1 \in S
    <3> SUFFICES ASSUME i + 1 <= n PROVE k[1 .. i + 1] = r[i + 1]
      OBVIOUS
    <3>1. Max(1 .. i + 1) = i + 1 /\ (1 .. i + 1) \ {i + 1} = 1 .. i
          /\ 1 .. i + 1 \in SUBSET (1 .. n) /\ 1 .. i + 1 # {} /\ i + 1 \in 1 .. n
      <4>1. n \in Nat
        BY <1>1
      <4> QED BY ONLY Zenon, <4>1, <2>2, i + 1 <= n, FirstIndices
    <3>2. k[1 .. i + 1] = Join(k[1 .. i], docs[i + 1])
      BY Zenon, <1>1, <1>8, <3>1 DEF JoinRec
    <3>3. k[1 .. i] = r[i] /\ r[i] \in Seq(T)
      <4>1. i \in 0 .. n
        BY <1>1
      <4> QED BY SMTT(30), <2>2, <1>6, <4>1
    <3>4. r[i + 1] = G[<< i + 1, r[i] >>]
      <4>1. (i + 1) - 1 = i
        OBVIOUS
      <4> QED BY <1>6, <3>1, <4>1
    <3> QED BY <3>1, <3>2, <3>3, <3>4, <1>5
  <2>3. \A i \in Nat : i \in S
    <3> HIDE DEF S
    <3> QED BY Zenon, <2>1, <2>2, ByCounting
  <2> QED BY <2>3, <1>1
<1>11. r[n] = Joined(docs)
  BY <1>1, <1>9, <1>10
<1>12. \A i \in 1 .. n : r[i] = Join(r[i - 1], docs[i])
  <2> TAKE i \in 1 .. n
  <2>1. i - 1 \in 0 .. n
    BY <1>1
  <2>2. r[i - 1] \in Seq(T)
    BY Zenon, <1>6, <2>1
  <2> QED BY Zenon, <1>5, <1>6, <2>2
<1> QED BY Zenon, <1>1, <1>6, <1>11, <1>12 DEF n

\* A document is added to the text behind an end of text, the first is the text.
LEMMA JoinedAppend ==
  ASSUME NEW T, Eos \in T, NEW docs \in Seq(Seq(T)), NEW doc \in Seq(T)
  PROVE  /\ Joined(docs) \in Seq(T) /\ Joined(<< >>) = << >>
         /\ Joined(Append(docs, doc)) = Join(Joined(docs), doc)
<1> DEFINE n == Len(docs)
           more == Append(docs, doc)
<1>1. n \in Nat /\ more \in Seq(Seq(T)) /\ Len(more) = n + 1 /\ more[n + 1] = doc
      /\ \A i \in 1 .. n : more[i] = docs[i]
  OBVIOUS
<1>2. PICK r \in [0 .. n -> Seq(T)] :
           /\ r[0] = << >> /\ r[n] = Joined(docs)
           /\ \A i \in 1 .. n : r[i] = Join(r[i - 1], docs[i])
  BY JoinedSteps
<1> HIDE DEF more
<1>3. PICK q \in [0 .. n + 1 -> Seq(T)] :
           /\ q[0] = << >> /\ q[n + 1] = Joined(more)
           /\ \A i \in 1 .. n + 1 : q[i] = Join(q[i - 1], more[i])
  <2>1. \E q \in [0 .. Len(more) -> Seq(T)] :
           /\ q[0] = << >> /\ q[Len(more)] = Joined(more)
           /\ \A i \in 1 .. Len(more) : q[i] = Join(q[i - 1], more[i])
    BY Zenon, <1>1, JoinedSteps
  <2>2. Len(more) = n + 1
    BY <1>1
  <2> HIDE DEF n
  <2> QED BY ONLY Zenon, <2>1, <2>2
<1> HIDE DEF n
<1>0. n \in Nat
  BY <1>1
<1>4. q[n] = r[n]
  <2> DEFINE S == {i \in Nat : i <= n => q[i] = r[i]}
  <2>1. 0 \in S
    BY <1>2, <1>3
  <2>2. ASSUME NEW i \in Nat, i \in S
        PROVE  i + 1 \in S
    <3> SUFFICES ASSUME i + 1 <= n PROVE q[i + 1] = r[i + 1]
      OBVIOUS
    <3>1. i + 1 \in 1 .. n /\ i + 1 \in 1 .. n + 1 /\ (i + 1) - 1 = i
      BY <1>1
    <3>2. q[i + 1] = Join(q[i], more[i + 1]) /\ r[i + 1] = Join(r[i], docs[i + 1])
      BY <1>2, <1>3, <3>1
    <3> QED BY <1>1, <2>2, <3>1, <3>2
  <2>3. \A i \in Nat : i \in S
    <3> HIDE DEF S
    <3> QED BY Zenon, <2>1, <2>2, ByCounting
  <2> QED BY <2>3, <1>1
<1>5. q[n + 1] = Join(q[n], doc)
  <2>1. n + 1 \in 1 .. n + 1 /\ (n + 1) - 1 = n
    BY <1>0
  <2> QED BY <1>1, <1>3, <2>1
<1>6. r[n] \in Seq(T)
  BY <1>1, <1>2
<1>7. Joined(<< >>) = << >>
  <2>1. << >> \in Seq(Seq(T)) /\ Len(<< >>) = 0
    OBVIOUS
  <2> QED BY ZenonT(40), <2>1, JoinedSteps
<1> QED BY <1>2, <1>3, <1>4, <1>5, <1>6, <1>7 DEF more

\* Blocks of equal size that have the tokens of a text in order, put one after
\* the other, are the beginning of the text.
BlockOf(text, block, i) == \A j \in 1 .. BlockSize : block[j] = text[(i - 1) * BlockSize + j]

FlatRec(blocks, h) ==
  h = [i \in 1 .. Len(blocks) |-> IF i = 1 THEN blocks[i] ELSE h[i - 1] \o blocks[i]]

\* FlattenSeq is a function of the recursion over the blocks, applied to the last.
LEMMA FlatUnfolds ==
  ASSUME NEW blocks, Len(blocks) # 0
  PROVE  FlattenSeq(blocks) = (CHOOSE h : FlatRec(blocks, h))[Len(blocks)]
  BY DEF FlattenSeq, FlatRec

\* The blocks up to the next one are the text up to there.
LEMMA NextBlock ==
  ASSUME NEW T, NEW text \in Seq(T), NEW i \in Nat \ {0}, i * BlockSize <= Len(text),
         NEW block \in Seq(T), Len(block) = BlockSize, BlockOf(text, block, i)
  PROVE  SubSeq(text, 1, (i - 1) * BlockSize) \o block = SubSeq(text, 1, i * BlockSize)
<1> DEFINE m == (i - 1) * BlockSize
<1>0. BlockSize \in Nat \ {0} /\ m \in Nat /\ i * BlockSize = m + BlockSize /\ Len(text) \in Nat
  <2>1. BlockSize \in Nat \ {0, 1}
    BY AllotOK
  <2>2. i - 1 \in Nat
    OBVIOUS
  <2>3. m \in Nat
    BY <2>1, <2>2
  <2>4. i * BlockSize = m + BlockSize
    BY <2>1, <2>2
  <2> QED BY <2>1, <2>3, <2>4
<1>1. \A j \in 1 .. BlockSize : block[j] = text[m + j]
  BY DEF BlockOf
<1> HIDE DEF m
<1> DEFINE u == SubSeq(text, 1, m)
           v == SubSeq(text, 1, m + BlockSize)
<1>2. u \in Seq(T) /\ Len(u) = m /\ \A j \in 1 .. m : u[j] = text[j]
  BY <1>0
<1>3. v \in Seq(T) /\ Len(v) = m + BlockSize /\ \A j \in 1 .. m + BlockSize : v[j] = text[j]
  BY <1>0
<1> HIDE DEF u, v
<1>4. /\ u \o block \in Seq(T) /\ Len(u \o block) = m + BlockSize
      /\ \A j \in 1 .. m + BlockSize : (u \o block)[j] = IF j <= m THEN u[j] ELSE block[j - m]
  BY ZenonT(40), <1>0, <1>2, ConcatProperties
<1>5. \A j \in 1 .. m + BlockSize : (u \o block)[j] = v[j]
  <2> TAKE j \in 1 .. m + BlockSize
  <2>1. CASE j <= m
    <3>1. j \in 1 .. m
      BY <1>0, <2>1
    <3>2. u[j] = text[j] /\ v[j] = text[j]
      BY ONLY <1>2, <1>3, <3>1, j \in 1 .. m + BlockSize
    <3>3. (u \o block)[j] = u[j]
      BY ONLY <1>4, <2>1, j \in 1 .. m + BlockSize
    <3> QED BY ONLY <3>2, <3>3
  <2>2. CASE j > m
    <3>1. j - m \in 1 .. BlockSize /\ m + (j - m) = j
      BY <1>0, <2>2
    <3>2. block[j - m] = text[j]
      BY <1>1, <3>1
    <3>3. ~ (j <= m)
      BY <1>0, <2>2
    <3>4. (u \o block)[j] = block[j - m]
      BY ONLY <1>4, <3>3, j \in 1 .. m + BlockSize
    <3>5. v[j] = text[j]
      BY <1>3
    <3> QED BY ONLY <3>2, <3>4, <3>5
  <2>3. j <= m \/ j > m
    BY <1>0
  <2> QED BY ONLY Zenon, <2>1, <2>2, <2>3
<1>6. u \o block = v
  BY ONLY Zenon, <1>0, <1>3, <1>4, <1>5, SeqEqual
<1> QED BY <1>0, <1>6 DEF u, v, m

\* Blocks of a text one after the other are the beginning of the text.
LEMMA BlocksInOrder ==
  ASSUME NEW T, NEW text \in Seq(T), NEW blocks \in Seq(Seq(T)),
         Len(blocks) * BlockSize <= Len(text),
         \A i \in 1 .. Len(blocks) : Len(blocks[i]) = BlockSize /\ BlockOf(text, blocks[i], i)
  PROVE  FlattenSeq(blocks) = SubSeq(text, 1, Len(blocks) * BlockSize)
<1> DEFINE n == Len(blocks)
<1>0. BlockSize \in Nat \ {0} /\ n \in Nat /\ Len(text) \in Nat
  BY AllotOK
<1>1. CASE n = 0
  <2>1. blocks = << >>
    BY <1>1
  <2>2. n * BlockSize = 0
    BY <1>0, <1>1
  <2>3. SubSeq(text, 1, 0) = << >>
    OBVIOUS
  <2> QED BY <1>1, <2>1, <2>2, <2>3 DEF FlattenSeq
<1>2. CASE n # 0
  <2> DEFINE u(i) == SubSeq(text, 1, i * BlockSize)
             g == [i \in 1 .. n |-> u(i)]
  <2>0. ASSUME NEW i \in 1 .. n
        PROVE  /\ i \in Nat \ {0} /\ i * BlockSize <= Len(text) /\ blocks[i] \in Seq(T)
               /\ Len(blocks[i]) = BlockSize /\ BlockOf(text, blocks[i], i)
    <3>1. i \in Nat \ {0} /\ i <= n
      OBVIOUS
    <3>2. i * BlockSize <= n * BlockSize
      BY Zenon, <1>0, <3>1, ProductGrows
    <3>3. i * BlockSize \in Nat /\ n * BlockSize \in Nat
      BY <1>0, <3>1
    <3>4. i * BlockSize <= Len(text)
      BY ONLY <1>0, <3>2, <3>3, Len(blocks) * BlockSize <= Len(text) DEF n
    <3> QED BY <3>1, <3>4
  <2>1. ASSUME NEW i \in 1 .. n
        PROVE  u(i) = IF i = 1 THEN blocks[i] ELSE u(i - 1) \o blocks[i]
    <3>1. SubSeq(text, 1, (i - 1) * BlockSize) \o blocks[i] = u(i)
      BY Zenon, <2>0, NextBlock
    <3>2. CASE i = 1
      <4>1. (i - 1) * BlockSize = 0
        BY <1>0, <3>2
      <4>2. SubSeq(text, 1, 0) = << >>
        OBVIOUS
      <4>3. << >> \o blocks[i] = blocks[i]
        BY <2>0, ConcatEmptySeq
      <4> QED BY Zenon, <3>1, <3>2, <4>1, <4>2, <4>3
    <3> QED BY Zenon, <3>1, <3>2
  <2>2. FlatRec(blocks, g)
    <3>1. \A i \in 1 .. n : i # 1 => i - 1 \in 1 .. n
      OBVIOUS
    <3> HIDE DEF u
    <3>2. \A i \in 1 .. n : g[i] = IF i = 1 THEN blocks[i] ELSE g[i - 1] \o blocks[i]
      BY Zenon, <2>1, <3>1
    <3>3. g = [i \in 1 .. n |-> IF i = 1 THEN blocks[i] ELSE g[i - 1] \o blocks[i]]
      <4>1. \A i \in 1 .. n : u(i) = IF i = 1 THEN blocks[i] ELSE g[i - 1] \o blocks[i]
        BY Zenon, <3>2
      <4> QED BY Zenon, <4>1
    <3> HIDE DEF g
    <3> QED BY Zenon, <3>3 DEF FlatRec
  <2> DEFINE h == CHOOSE h : FlatRec(blocks, h)
  <2>3. FlatRec(blocks, h)
    BY <2>2
  <2> HIDE DEF h, u
  <2>4. \A i \in Nat : i + 1 \in 1 .. n => h[i + 1] = u(i + 1)
    <3> DEFINE S == {i \in Nat : i + 1 \in 1 .. n => h[i + 1] = u(i + 1)}
    <3>1. 0 \in S
      <4> SUFFICES ASSUME 1 \in 1 .. n PROVE h[1] = u(1)
        OBVIOUS
      <4>1. h[1] = blocks[1]
        BY <2>3 DEF FlatRec
      <4> QED BY Zenon, <2>1, <4>1
    <3>2. ASSUME NEW i \in Nat, i \in S
          PROVE  i + 1 \in S
      <4> SUFFICES ASSUME (i + 1) + 1 \in 1 .. n PROVE h[(i + 1) + 1] = u((i + 1) + 1)
        OBVIOUS
      <4> DEFINE j == (i + 1) + 1
      <4>1. i + 1 \in 1 .. n /\ j # 1 /\ j - 1 = i + 1
        BY <1>0
      <4>2. h[i + 1] = u(i + 1)
        BY <3>2, <4>1
      <4> HIDE DEF j
      <4>3. h[j] = h[j - 1] \o blocks[j]
        BY Zenon, <2>3, <4>1 DEF FlatRec, j
      <4>4. u(j) = u(j - 1) \o blocks[j]
        BY Zenon, <2>1, <4>1 DEF j
      <4>5. h[j] = u(j)
        BY ONLY Zenon, <4>1, <4>2, <4>3, <4>4
      <4> QED BY <4>5 DEF j
    <3>3. \A i \in Nat : i \in S
      <4> HIDE DEF S
      <4> QED BY Zenon, <3>1, <3>2, ByCounting
    <3> QED BY <3>3
  <2>5. h[n] = u(n)
    <3>1. n - 1 \in Nat /\ (n - 1) + 1 = n /\ n \in 1 .. n
      BY <1>0, <1>2
    <3> QED BY Zenon, <2>4, <3>1
  <2> QED BY Zenon, <1>2, <2>5, FlatUnfolds DEF h, u
<1> QED BY <1>1, <1>2

\* An array holds the blocks of a text.
Cut(text, array) ==
  /\ Len(array) * BlockSize <= Len(text)
  /\ \A i \in 1 .. Len(array) : Len(array[i]) = BlockSize /\ BlockOf(text, array[i], i)

\* What is left of a text behind the blocks of an array.
Left(text, array, rest) ==
  /\ Len(text) = Len(array) * BlockSize + Len(rest)
  /\ \A k \in 1 .. Len(rest) : rest[k] = text[Len(array) * BlockSize + k]

\* The whole blocks there are in the tokens, and what they leave.
LEMMA WholeBlocks ==
  ASSUME NEW T, NEW tokens \in Seq(T)
  PROVE  /\ BlocksOf(tokens) \in Seq(Seq(T)) /\ RestOf(tokens) \in Seq(T)
         /\ Cut(tokens, BlocksOf(tokens)) /\ Left(tokens, BlocksOf(tokens), RestOf(tokens))
         /\ Len(RestOf(tokens)) < BlockSize
<1> DEFINE n == Len(tokens)
           q == n \div BlockSize
           b == BlocksOf(tokens)
           r == RestOf(tokens)
<1>1. BlockSize \in Nat \ {0} /\ n \in Nat
  BY AllotOK
<1>2. q \in Nat /\ q * BlockSize \in Nat /\ q * BlockSize <= n /\ n - q * BlockSize < BlockSize
  <2> HIDE DEF n
  <2> QED BY <1>1, Division
<1> HIDE DEF q
<1>3. ASSUME NEW i \in 1 .. q
      PROVE  /\ (i - 1) * BlockSize \in Nat /\ i * BlockSize = (i - 1) * BlockSize + BlockSize
             /\ i * BlockSize <= n
  <2>1. i \in Nat /\ i - 1 \in Nat /\ i <= q
    OBVIOUS
  <2>2. (i - 1) * BlockSize \in Nat /\ i * BlockSize = (i - 1) * BlockSize + BlockSize
    BY <1>1, <2>1
  <2>3. i * BlockSize <= q * BlockSize
    BY <1>1, <1>2, <2>1, ProductGrows
  <2>4. i * BlockSize \in Nat
    BY <1>1, <2>1
  <2> QED BY ONLY <1>1, <1>2, <2>2, <2>3, <2>4
<1>4. ASSUME NEW i \in 1 .. q
      PROVE  LET c == SubSeq(tokens, (i - 1) * BlockSize + 1, i * BlockSize) IN
             /\ c \in Seq(T) /\ Len(c) = BlockSize
             /\ \A j \in 1 .. BlockSize : c[j] = tokens[(i - 1) * BlockSize + j]
  <2> DEFINE m == (i - 1) * BlockSize
             e == i * BlockSize
  <2>1. m \in Nat /\ e = m + BlockSize /\ e <= n
    BY <1>3
  <2> HIDE DEF m, e
  <2>2. \A k \in m + 1 .. e : tokens[k] \in T
    BY <1>1, <2>1
  <2>3. SubSeq(tokens, m + 1, e) \in Seq(T)
        /\ Len(SubSeq(tokens, m + 1, e)) = (IF m + 1 <= e THEN e - (m + 1) + 1 ELSE 0)
        /\ \A k \in 1 .. e - (m + 1) + 1 : SubSeq(tokens, m + 1, e)[k] = tokens[m + 1 + k - 1]
    <3>1. m + 1 \in Int /\ e \in Int
      BY <1>1, <2>1
    <3> QED BY ONLY <3>1, <2>2, SubSeqProperties
  <2>4. e - (m + 1) + 1 = BlockSize /\ m + 1 <= e /\ \A k \in 1 .. BlockSize : m + 1 + k - 1 = m + k
    BY <1>1, <2>1
  <2> HIDE DEF n
  <2>5. SubSeq(tokens, m + 1, e) \in Seq(T) /\ Len(SubSeq(tokens, m + 1, e)) = BlockSize
        /\ \A k \in 1 .. BlockSize : SubSeq(tokens, m + 1, e)[k] = tokens[m + k]
    BY ONLY Zenon, <2>3, <2>4
  <2> QED BY ONLY Zenon, <2>5 DEF m, e
<1>5. b = [i \in 1 .. q |-> SubSeq(tokens, (i - 1) * BlockSize + 1, i * BlockSize)]
  BY DEF BlocksOf, q
<1>6. b \in Seq(Seq(T)) /\ Len(b) = q
  <2>1. \A i \in 1 .. q : b[i] \in Seq(T)
    BY <1>4, <1>5
  <2>2. DOMAIN b = 1 .. q
    BY <1>5
  <2>3. b \in [1 .. q -> Seq(T)]
    BY <1>5, <2>1, <2>2
  <2> HIDE DEF b
  <2> QED BY <1>2, <2>3
<1>7. \A i \in 1 .. q : Len(b[i]) = BlockSize /\ BlockOf(tokens, b[i], i)
  <2> TAKE i \in 1 .. q
  <2>1. b[i] = SubSeq(tokens, (i - 1) * BlockSize + 1, i * BlockSize)
    BY Zenon, <1>5
  <2> HIDE DEF b
  <2> QED BY <2>1, <1>4 DEF BlockOf
<1>8. r = SubSeq(tokens, q * BlockSize + 1, n)
  BY DEF RestOf, q
<1>9. r \in Seq(T) /\ Len(r) = n - q * BlockSize
      /\ \A k \in 1 .. n - q * BlockSize : r[k] = tokens[q * BlockSize + k]
  <2> DEFINE m == q * BlockSize
  <2>1. m \in Nat /\ m <= n
    BY <1>2
  <2> HIDE DEF m
  <2>2. \A k \in m + 1 .. n : tokens[k] \in T
    BY <1>1, <2>1
  <2>3. SubSeq(tokens, m + 1, n) \in Seq(T)
        /\ Len(SubSeq(tokens, m + 1, n)) = (IF m + 1 <= n THEN n - (m + 1) + 1 ELSE 0)
        /\ \A k \in 1 .. n - (m + 1) + 1 : SubSeq(tokens, m + 1, n)[k] = tokens[m + 1 + k - 1]
    <3>1. m + 1 \in Int /\ n \in Int
      BY <1>1, <2>1
    <3> HIDE DEF n
    <3> QED BY ONLY <3>1, <2>2, SubSeqProperties
  <2>4. n - (m + 1) + 1 = n - m /\ (~ (m + 1 <= n) => n - m = 0)
        /\ \A k \in 1 .. n - m : m + 1 + k - 1 = m + k
    <3> HIDE DEF n
    <3> QED BY <1>1, <2>1
  <2> HIDE DEF r, n
  <2>5. SubSeq(tokens, m + 1, n) \in Seq(T) /\ Len(SubSeq(tokens, m + 1, n)) = n - m
        /\ \A k \in 1 .. n - m : SubSeq(tokens, m + 1, n)[k] = tokens[m + k]
    BY ONLY <2>3, <2>4
  <2> QED BY <1>8, <2>5 DEF m
<1> HIDE DEF b, r, n
<1>10. Cut(tokens, b)
  BY <1>2, <1>6, <1>7 DEF Cut, n
<1>11. Left(tokens, b, r)
  <2>1. n = q * BlockSize + (n - q * BlockSize)
    BY <1>1, <1>2
  <2> QED BY <1>6, <1>9, <2>1 DEF Left, n
<1> QED BY <1>2, <1>6, <1>9, <1>10, <1>11 DEF b, r

\* A text that grows holds the same blocks.
LEMMA CutGrows ==
  ASSUME NEW T, NEW text \in Seq(T), NEW new \in Seq(T), NEW array \in Seq(Seq(T)),
         Cut(text, array)
  PROVE  Cut(text \o new, array)
<1> DEFINE m == Len(array) * BlockSize
           t == text \o new
<1>1. BlockSize \in Nat \ {0} /\ Len(array) \in Nat /\ m \in Nat
  BY AllotOK
<1>2. /\ Len(t) = Len(text) + Len(new) /\ Len(text) \in Nat /\ Len(new) \in Nat
      /\ \A k \in 1 .. Len(text) + Len(new) : t[k] = IF k <= Len(text) THEN text[k] ELSE new[k - Len(text)]
  BY ConcatProperties
<1> HIDE DEF t
<1>3. \A k \in 1 .. Len(text) : t[k] = text[k]
  BY <1>2
<1>4. m <= Len(text)
  BY DEF Cut
<1>5. ASSUME NEW i \in 1 .. Len(array)
      PROVE  Len(array[i]) = BlockSize /\ BlockOf(t, array[i], i)
  <2>1. Len(array[i]) = BlockSize /\ BlockOf(text, array[i], i)
    BY DEF Cut
  <2>2. i \in Nat /\ i - 1 \in Nat /\ i <= Len(array)
    BY <1>1
  <2>3. i * BlockSize <= m
    BY Zenon, <1>1, <2>2, ProductGrows
  <2>4. (i - 1) * BlockSize \in Nat /\ i * BlockSize = (i - 1) * BlockSize + BlockSize
    BY <1>1, <2>2
  <2> DEFINE a == (i - 1) * BlockSize
             e == i * BlockSize
  <2>6. e <= m /\ a \in Nat /\ e = a + BlockSize /\ m <= Len(text) /\ m \in Nat
        /\ Len(text) \in Nat /\ BlockSize \in Nat
    BY <1>1, <1>2, <1>4, <2>3, <2>4
  <2> HIDE DEF m, a, e
  <2>7. \A j \in 1 .. BlockSize : a + j \in 1 .. Len(text)
    BY ONLY <2>6
  <2>5. \A j \in 1 .. BlockSize : (i - 1) * BlockSize + j \in 1 .. Len(text)
    BY ONLY <2>7 DEF a
  <2> QED BY Zenon, <2>1, <2>5, <1>3 DEF BlockOf
<1>6. m <= Len(t)
  <2> HIDE DEF m
  <2> QED BY <1>1, <1>2, <1>4
<1> QED BY <1>5, <1>6 DEF Cut, t

\* The tokens a packer works on: what was left of the text, and what is new.
LEMMA LeftGrows ==
  ASSUME NEW T, NEW text \in Seq(T), NEW new \in Seq(T), NEW array \in Seq(Seq(T)),
         NEW rest \in Seq(T), Left(text, array, rest)
  PROVE  Left(text \o new, array, rest \o new)
<1> DEFINE m == Len(array) * BlockSize
           t == text \o new
           u == rest \o new
<1>1. m \in Nat
  BY AllotOK
<1>2. /\ Len(t) = Len(text) + Len(new) /\ Len(text) \in Nat /\ Len(new) \in Nat
      /\ \A k \in 1 .. Len(text) + Len(new) : t[k] = IF k <= Len(text) THEN text[k] ELSE new[k - Len(text)]
  BY ConcatProperties
<1>3. /\ Len(u) = Len(rest) + Len(new) /\ Len(rest) \in Nat
      /\ \A k \in 1 .. Len(rest) + Len(new) : u[k] = IF k <= Len(rest) THEN rest[k] ELSE new[k - Len(rest)]
  BY ConcatProperties
<1>4. Len(text) = m + Len(rest) /\ \A k \in 1 .. Len(rest) : rest[k] = text[m + k]
  BY DEF Left
<1> HIDE DEF m, t, u
<1>5. Len(t) = m + Len(u)
  BY <1>1, <1>2, <1>3, <1>4
<1>6. ASSUME NEW k \in 1 .. Len(u)
      PROVE  u[k] = t[m + k]
  <2>1. k \in 1 .. Len(rest) + Len(new) /\ m + k \in 1 .. Len(text) + Len(new)
    BY <1>1, <1>2, <1>3, <1>4
  <2>2. CASE k <= Len(rest)
    <3>1. k \in 1 .. Len(rest) /\ m + k <= Len(text)
      BY <1>1, <1>3, <1>4, <2>2
    <3>2. u[k] = rest[k] /\ t[m + k] = text[m + k]
      BY <1>2, <1>3, <2>1, <2>2, <3>1
    <3> QED BY <1>4, <3>1, <3>2
  <2>3. CASE ~ (k <= Len(rest))
    <3>1. ~ (m + k <= Len(text)) /\ k - Len(rest) = (m + k) - Len(text)
      BY <1>1, <1>2, <1>3, <1>4, <2>3
    <3>2. u[k] = new[k - Len(rest)]
      BY ONLY <1>3, <2>1, <2>3
    <3>3. t[m + k] = new[(m + k) - Len(text)]
      BY ONLY Zenon, <1>2, <2>1, <3>1
    <3> QED BY <3>1, <3>2, <3>3
  <2> QED BY <2>2, <2>3
<1> QED BY Zenon, <1>5, <1>6 DEF Left, m, t, u

\* The block with number p + i of a text is that with number i behind the first p.
LEMMA BlockBehind ==
  ASSUME NEW text, NEW tokens, NEW p \in Nat, NEW i \in Nat \ {0}, NEW block,
         Len(tokens) \in Nat, i * BlockSize <= Len(tokens),
         \A k \in 1 .. Len(tokens) : tokens[k] = text[p * BlockSize + k],
         BlockOf(tokens, block, i)
  PROVE  BlockOf(text, block, p + i)
<1> DEFINE m == (i - 1) * BlockSize
           a == p * BlockSize
<1>1. BlockSize \in Nat \ {0} /\ m \in Nat /\ a \in Nat /\ i * BlockSize = m + BlockSize
      /\ ((p + i) - 1) * BlockSize = a + m
  <2>1. BlockSize \in Nat \ {0} /\ i - 1 \in Nat
    BY AllotOK
  <2>2. (p + i) - 1 = p + (i - 1)
    OBVIOUS
  <2>3. (p + (i - 1)) * BlockSize = a + m /\ m \in Nat /\ a \in Nat
    BY <2>1
  <2>4. i * BlockSize = m + BlockSize
    BY <2>1
  <2> QED BY <2>1, <2>2, <2>3, <2>4
<1>2. \A j \in 1 .. BlockSize : block[j] = tokens[m + j]
  BY DEF BlockOf
<1>3. \A k \in 1 .. Len(tokens) : tokens[k] = text[a + k]
  OBVIOUS
<1> HIDE DEF m, a
<1>4. ASSUME NEW j \in 1 .. BlockSize
      PROVE  block[j] = text[((p + i) - 1) * BlockSize + j]
  <2>1. m + j \in 1 .. Len(tokens)
    BY <1>1
  <2>2. a + (m + j) = (a + m) + j
    BY <1>1
  <2>3. block[j] = text[a + (m + j)]
    BY <1>2, <1>3, <2>1
  <2> QED BY Zenon, <1>1, <2>2, <2>3
<1> QED BY <1>4 DEF BlockOf

\* A packer is given more tokens: the array holds the blocks of the longer text
\* as far as it has room, and the rest waits unless it is full.
LEMMA Packs ==
  ASSUME NEW T, NEW text \in Seq(T), NEW new \in Seq(T), NEW array \in Seq(Seq(T)),
         NEW pending \in Seq(T), NEW limit \in Nat, Len(array) < limit,
         Len(pending) < BlockSize, Cut(text, array), Left(text, array, pending)
  PROVE  LET more == _write_blocks(array, BlocksOf(pending \o new), limit)
             rest == RestOf(pending \o new)
         IN /\ more \in Seq(Seq(T)) /\ Len(more) <= limit /\ Cut(text \o new, more)
            /\ rest \in Seq(T) /\ Len(rest) < BlockSize
            /\ Len(more) < limit => Left(text \o new, more, rest)
            /\ ~ (Len(more) < limit) => Len(text) <= Len(more) * BlockSize
<1> DEFINE tokens == pending \o new
           t == text \o new
           b == BlocksOf(tokens)
           rest == RestOf(tokens)
           p == Len(array)
           c == IF Len(b) < limit - p THEN Len(b) ELSE limit - p
           some == SubSeq(b, 1, c)
           more == array \o some
<1>1. BlockSize \in Nat \ {0} /\ p \in Nat /\ p < limit /\ Len(text) \in Nat
  BY AllotOK
<1>2. tokens \in Seq(T) /\ t \in Seq(T)
  BY ConcatProperties
<1>3. Cut(t, array) /\ Left(t, array, tokens)
  BY CutGrows, LeftGrows
<1> HIDE DEF tokens, t
<1>4. /\ b \in Seq(Seq(T)) /\ rest \in Seq(T) /\ Cut(tokens, b) /\ Left(tokens, b, rest)
      /\ Len(rest) < BlockSize
  BY Zenon, <1>2, WholeBlocks
<1> HIDE DEF b, rest
<1>5. Len(b) \in Nat /\ c \in Nat /\ c <= Len(b) /\ c <= limit - p
  BY <1>1, <1>4
<1>6. some \in Seq(Seq(T)) /\ Len(some) = c /\ \A i \in 1 .. c : some[i] = b[i]
  BY SMTT(30), <1>4, <1>5
<1>7. /\ more \in Seq(Seq(T)) /\ Len(more) = p + c
      /\ \A i \in 1 .. p + c : more[i] = IF i <= p THEN array[i] ELSE some[i - p]
  <2> DEFINE S == Seq(T)
  <2>1. array \in Seq(S) /\ some \in Seq(S)
    BY <1>6
  <2> HIDE DEF some, S
  <2>2. /\ array \o some \in Seq(S) /\ Len(array \o some) = Len(array) + Len(some)
        /\ \A i \in 1 .. Len(array) + Len(some) : (array \o some)[i] =
              IF i <= Len(array) THEN array[i] ELSE some[i - Len(array)]
    BY ONLY <2>1, ConcatProperties
  <2>3. Len(some) = c
    BY <1>6
  <2> HIDE DEF c
  <2> QED BY ONLY <2>2, <2>3 DEF S
<1>8. more = _write_blocks(array, b, limit)
  BY DEF _write_blocks
<1> HIDE DEF some, more
<1>9. Len(more) <= limit
  BY <1>1, <1>5, <1>7
<1>10. Len(tokens) \in Nat /\ Len(b) * BlockSize <= Len(tokens)
       /\ \A i \in 1 .. Len(b) : Len(b[i]) = BlockSize /\ BlockOf(tokens, b[i], i)
  BY <1>2, <1>4 DEF Cut
<1>11. Len(t) = p * BlockSize + Len(tokens)
       /\ \A k \in 1 .. Len(tokens) : tokens[k] = t[p * BlockSize + k]
  BY Zenon, <1>3 DEF Left
<1>12. (p + c) * BlockSize = p * BlockSize + c * BlockSize /\ p * BlockSize \in Nat
       /\ c * BlockSize \in Nat /\ c * BlockSize <= Len(b) * BlockSize
       /\ Len(b) * BlockSize \in Nat
  <2>1. c * BlockSize <= Len(b) * BlockSize
    BY <1>1, <1>5, ProductGrows
  <2> HIDE DEF c, p
  <2> QED BY <1>1, <1>5, <2>1
<1>13. Cut(t, more)
  <2>1. ASSUME NEW i \in 1 .. p + c
        PROVE  Len(more[i]) = BlockSize /\ BlockOf(t, more[i], i)
    <3>1. CASE i <= p
      <4>1. more[i] = array[i] /\ i \in 1 .. p
        BY <1>1, <1>5, <1>7, <3>1
      <4> QED BY <1>3, <4>1 DEF Cut
    <3>2. CASE ~ (i <= p)
      <4> DEFINE j == i - p
      <4>1. j \in 1 .. c /\ j \in Nat \ {0} /\ j \in 1 .. Len(b) /\ i = p + j
        BY <1>1, <1>5, <3>2
      <4>2. more[i] = b[j]
        BY Zenon, <1>6, <1>7, <3>2, <4>1
      <4>3. Len(b[j]) = BlockSize /\ BlockOf(tokens, b[j], j)
        BY Zenon, <1>10, <4>1
      <4> HIDE DEF j
      <4>4. j * BlockSize <= Len(tokens)
        <5>0. j \in Nat /\ Len(b) \in Nat /\ j <= Len(b) /\ BlockSize \in Nat
          BY <1>1, <1>5, <4>1
        <5>1. j * BlockSize <= Len(b) * BlockSize
          BY ONLY Zenon, <5>0, ProductGrows
        <5>2. j * BlockSize \in Nat
          BY <1>1, <4>1
        <5> QED BY <1>10, <1>12, <5>1, <5>2
      <4> HIDE DEF p
      <4>5. BlockOf(t, b[j], p + j)
        BY ONLY Zenon, <1>1, <1>10, <1>11, <4>1, <4>3, <4>4, BlockBehind
      <4> QED BY <4>1, <4>2, <4>3, <4>5
    <3> QED BY <3>1, <3>2
  <2>2. (p + c) * BlockSize <= Len(t)
    <3> HIDE DEF p, c
    <3> QED BY <1>10, <1>11, <1>12
  <2> QED BY <1>7, <2>1, <2>2 DEF Cut
<1>14. ASSUME Len(more) < limit
       PROVE  Left(t, more, rest)
  <2>1. c = Len(b)
    BY <1>1, <1>5, <1>7, <1>14
  <2>2. Len(tokens) = c * BlockSize + Len(rest) /\ Len(rest) \in Nat
        /\ \A k \in 1 .. Len(rest) : rest[k] = tokens[c * BlockSize + k]
    <3>1. Len(rest) \in Nat
      BY <1>4
    <3>2. Len(tokens) = Len(b) * BlockSize + Len(rest)
          /\ \A k \in 1 .. Len(rest) : rest[k] = tokens[Len(b) * BlockSize + k]
      BY ONLY <1>4 DEF Left
    <3> HIDE DEF c
    <3> QED BY ONLY <2>1, <3>1, <3>2
  <2> DEFINE a == p * BlockSize
             e == c * BlockSize
  <2>3. /\ a \in Nat /\ e \in Nat /\ (p + c) * BlockSize = a + e
        /\ Len(tokens) = e + Len(rest) /\ \A k \in 1 .. Len(rest) : rest[k] = tokens[e + k]
        /\ Len(t) = a + Len(tokens) /\ \A k \in 1 .. Len(tokens) : tokens[k] = t[a + k]
    BY <1>11, <1>12, <2>2
  <2> HIDE DEF a, e, c, p
  <2>4. Len(t) = a + e + Len(rest)
    BY <2>2, <2>3
  <2>5. ASSUME NEW k \in 1 .. Len(rest)
        PROVE  rest[k] = t[(a + e) + k]
    <3>1. e + k \in 1 .. Len(tokens) /\ a + (e + k) = (a + e) + k
      BY SMTT(30), <2>2, <2>3
    <3>2. rest[k] = t[a + (e + k)]
      BY Zenon, <2>3, <3>1
    <3> QED BY <3>1, <3>2
  <2> QED BY Zenon, <1>7, <2>3, <2>4, <2>5 DEF Left
<1>15. ASSUME ~ (Len(more) < limit)
       PROVE  Len(text) <= Len(more) * BlockSize
  <2>1. c >= 1
    BY <1>1, <1>5, <1>7, <1>15
  <2>2. Len(text) = p * BlockSize + Len(pending) /\ Len(pending) \in Nat
    BY DEF Left
  <2>3. 1 * BlockSize <= c * BlockSize
    <3> HIDE DEF c
    <3> QED BY <1>1, <1>5, <2>1, ProductGrows
  <2>4. 1 * BlockSize = BlockSize
    BY <1>1
  <2> DEFINE a == p * BlockSize
             e == c * BlockSize
             f == (p + c) * BlockSize
  <2>5. a \in Nat /\ e \in Nat /\ f = a + e /\ BlockSize <= e /\ Len(text) = a + Len(pending)
    BY Zenon, <1>12, <2>2, <2>3, <2>4
  <2> HIDE DEF a, e, f
  <2>6. Len(text) <= f
    BY <1>1, <2>2, <2>5
  <2> QED BY <1>7, <2>6 DEF f
<1> QED BY Zenon, <1>4, <1>7, <1>8, <1>9, <1>13, <1>14, <1>15 DEF tokens, t, b, rest

\* What the packer of a side may hold: tokens of repositories of that side.
TokensOf(s) == [repo : {r \in Repos : r \in Held <=> s = "micro"}, row : Nat, nr : Nat]
Alphabet(s) == TokensOf(s) \cup {Eos}

\* The packer p of a side has been given docs: its array holds the blocks of
\* their text, and the tokens it keeps are what is left of that text until the
\* array is full, which the last document did.
PackerOK(s, limit, p, array, docs) ==
  /\ p \in [pending : Seq(Alphabet(s)), documents : Nat]
  /\ Len(p.pending) < BlockSize /\ p.documents = Len(docs)
  /\ array \in Seq(Seq(Alphabet(s))) /\ Len(array) <= limit
  /\ docs \in Seq(Seq(Alphabet(s))) /\ (docs # << >> => Joined(docs) # << >>)
  /\ Cut(Joined(docs), array)
  /\ Len(array) < limit => Left(Joined(docs), array, p.pending)
  /\ ~ (Len(array) < limit) /\ docs # << >> =>
       Len(Joined(Front(docs))) <= Len(array) * BlockSize

StreamInv ==
  /\ lang \in 1 .. Len(Languages) /\ rows \in 0 .. MaxRows
  /\ DOMAIN packer = Sides /\ DOMAIN written = Sides /\ DOMAIN taken = Sides
  /\ \A s \in Sides : PackerOK(s, Limit(s), packer[s], written[s], taken[s])

\* The text of the documents with one more, as the packer sees it.
LEMMA JoinedText ==
  ASSUME NEW T, Eos \in T, NEW docs \in Seq(Seq(T)), NEW doc \in Seq(T), doc # << >>,
         docs # << >> => Joined(docs) # << >>
  PROVE  LET new == (IF Len(docs) > 0 THEN << Eos >> ELSE << >>) \o doc
         IN /\ Joined(docs) \in Seq(T) /\ new \in Seq(T)
            /\ Joined(Append(docs, doc)) = Joined(docs) \o new
            /\ Joined(Append(docs, doc)) # << >>
<1> DEFINE j == Joined(docs)
           e == << Eos >>
           n == << >>
           new == (IF Len(docs) > 0 THEN e ELSE n) \o doc
<1>1. /\ j \in Seq(T) /\ Joined(<< >>) = << >>
      /\ Joined(Append(docs, doc)) = Join(j, doc)
  BY JoinedAppend
<1>2. e \in Seq(T) /\ n \in Seq(T) /\ e # n
  OBVIOUS
<1>3. j = n <=> docs = << >>
  BY <1>1
<1>4. Len(docs) > 0 <=> docs # << >>
  OBVIOUS
<1>5. Join(j, doc) = IF j = n THEN doc ELSE (j \o e) \o doc
  BY DEF Join
<1> HIDE DEF j, e, n
<1>6. CASE Len(docs) > 0
  <2>1. new = e \o doc /\ Join(j, doc) = (j \o e) \o doc
    BY <1>3, <1>4, <1>5, <1>6
  <2>2. e \o doc \in Seq(T) /\ (j \o e) \o doc = j \o (e \o doc)
    BY ONLY SMTT(30), <1>1, <1>2, doc \in Seq(T), ConcatProperties, ConcatAssociative
  <2>3. j \o (e \o doc) # n
    <3>1. j \o (e \o doc) = << >> => j = << >>
      BY ONLY <1>1, <2>2, ConcatEqualIffEmpty
    <3> QED BY <1>3, <1>4, <1>6, <3>1 DEF n
  <2> HIDE DEF new
  <2>4. Joined(Append(docs, doc)) = j \o new /\ new \in Seq(T) /\ j \o new # n
    BY ONLY <1>1, <2>1, <2>2, <2>3
  <2> QED BY <1>1, <2>4 DEF e, n, j, new
<1>7. CASE ~ (Len(docs) > 0)
  <2>1. new = n \o doc /\ Join(j, doc) = doc /\ j = n
    BY <1>3, <1>4, <1>5, <1>7
  <2>2. n \o doc = doc
    BY ConcatEmptySeq DEF n
  <2> HIDE DEF new
  <2>3. Joined(Append(docs, doc)) = j \o new /\ new \in Seq(T) /\ doc # n
    BY <1>1, <2>1, <2>2 DEF n
  <2> QED BY <1>1, <2>1, <2>2, <2>3 DEF e, n, j, new
<1> QED BY Zenon, <1>6, <1>7

\* A document given to a packer that is not full (add_document, _write_blocks).
LEMMA PackerStep ==
  ASSUME NEW s \in Sides, NEW limit \in Nat, NEW p, NEW array, NEW docs,
         PackerOK(s, limit, p, array, docs), Len(array) < limit,
         NEW doc \in Seq(Alphabet(s)), doc # << >>
  PROVE  LET packed == add_document(p, doc)
         IN PackerOK(s, limit, [packed EXCEPT !.pending = RestOf(packed.pending)],
                     _write_blocks(array, BlocksOf(packed.pending), limit), Append(docs, doc))
<1> DEFINE T == Alphabet(s)
           j == Joined(docs)
           new == (IF Len(docs) > 0 THEN << Eos >> ELSE << >>) \o doc
           tokens == p.pending \o new
           more == _write_blocks(array, BlocksOf(tokens), limit)
           rest == RestOf(tokens)
           packed == add_document(p, doc)
           q == [packed EXCEPT !.pending = RestOf(packed.pending)]
           full == Append(docs, doc)
<1>1. /\ p \in [pending : Seq(T), documents : Nat] /\ Len(p.pending) < BlockSize
      /\ p.documents = Len(docs) /\ array \in Seq(Seq(T)) /\ docs \in Seq(Seq(T))
      /\ docs # << >> => Joined(docs) # << >>
      /\ Cut(j, array) /\ Left(j, array, p.pending)
  BY DEF PackerOK
<1>2. Eos \in T
  BY DEF Alphabet
<1>3. p.pending \in Seq(T) /\ doc \in Seq(T) /\ Len(docs) \in Nat
  BY <1>1
<1>4. /\ j \in Seq(T) /\ new \in Seq(T) /\ Joined(full) = j \o new /\ Joined(full) # << >>
  <2> HIDE DEF T
  <2> QED BY Zenon, <1>1, <1>2, <1>3, JoinedText
<1>5. packed = [pending |-> tokens, documents |-> Len(docs) + 1]
  <2>1. (p.pending \o (IF Len(docs) > 0 THEN << Eos >> ELSE << >>)) \o doc = tokens
    <3> DEFINE e == IF Len(docs) > 0 THEN << Eos >> ELSE << >>
               a == p.pending
    <3>1. e \in Seq(T) /\ a \in Seq(T)
      BY <1>2, <1>3
    <3> HIDE DEF e, a, T
    <3>2. (a \o e) \o doc = a \o (e \o doc)
      BY ONLY SMTT(30), <1>3, <3>1, ConcatAssociative
    <3> QED BY Zenon, <3>2 DEF e, a
  <2>2. packed = [pending |-> (p.pending \o (IF Len(docs) > 0 THEN << Eos >> ELSE << >>)) \o doc,
                  documents |-> Len(docs) + 1]
    BY <1>1 DEF add_document
  <2> HIDE DEF tokens, packed
  <2> QED BY ONLY Zenon, <2>1, <2>2
<1> HIDE DEF T, new, j, packed, full
<1>6. /\ more \in Seq(Seq(T)) /\ Len(more) <= limit /\ Cut(j \o new, more)
      /\ rest \in Seq(T) /\ Len(rest) < BlockSize
      /\ Len(more) < limit => Left(j \o new, more, rest)
      /\ ~ (Len(more) < limit) => Len(j) <= Len(more) * BlockSize
  BY <1>1, <1>3, <1>4, Packs
<1> HIDE DEF tokens
<1>7. q = [pending |-> rest, documents |-> Len(docs) + 1] /\ packed.pending = tokens
  BY <1>5
<1>8. full \in Seq(Seq(T)) /\ Len(full) = Len(docs) + 1 /\ Front(full) = docs
  <2> DEFINE S == Seq(T)
  <2>1. docs \in Seq(S) /\ doc \in S
    BY <1>1 DEF T
  <2> HIDE DEF S
  <2>2. Append(docs, doc) \in Seq(S) /\ Len(Append(docs, doc)) = Len(docs) + 1
        /\ \A i \in 1 .. Len(docs) : Append(docs, doc)[i] = docs[i]
    BY ONLY <2>1, AppendProperties
  <2>3. Front(Append(docs, doc)) = docs
    <3> DEFINE a == Append(docs, doc)
               m == Len(docs)
               b == SubSeq(a, 1, m)
    <3>0. m \in Int /\ 1 \in Int /\ m \in Nat /\ \A i \in 1 .. m : a[i] \in S
      BY <2>1, <2>2
    <3>3. m - 1 + 1 = m
      BY <3>0
    <3>4. b \in Seq(S) /\ Len(b) = m /\ \A i \in 1 .. m : b[i] = docs[i]
      <4> HIDE DEF a, m
      <4>1. b \in Seq(S) /\ Len(b) = (IF 1 <= m THEN m - 1 + 1 ELSE 0)
            /\ \A i \in 1 .. m - 1 + 1 : b[i] = a[1 + i - 1]
        BY ONLY <3>0, SubSeqProperties
      <4>2. \A i \in 1 .. m : 1 + i - 1 = i
        BY <3>0
      <4>3. Len(b) = m
        BY <3>0, <3>3, <4>1
      <4> HIDE DEF b
      <4> QED BY <2>2, <3>0, <3>3, <4>1, <4>2, <4>3 DEF a, m
    <3> HIDE DEF b
    <3>1. b = docs
      BY ONLY <2>1, <3>4, SeqEqual DEF m
    <3> USE DEF b
    <3>2. Len(Append(docs, doc)) - 1 = Len(docs)
      BY <2>1, <2>2
    <3> QED BY ONLY <3>1, <3>2 DEF Front
  <2> QED BY <2>2, <2>3 DEF full, S
<1> HIDE DEF more, rest, q
<1>9. q \in [pending : Seq(T), documents : Nat] /\ q.pending = rest /\ q.documents = Len(full)
  BY <1>3, <1>6, <1>7, <1>8
<1>10. PackerOK(s, limit, q, more, full)
  BY <1>4, <1>6, <1>8, <1>9 DEF PackerOK, T, j
<1> QED BY <1>7, <1>10 DEF more, rest, q, packed, full, tokens

\* The allotment of a side.
LEMMA LimitNat ==
  ASSUME lang \in 1 .. Len(Languages), NEW s \in Sides
  PROVE  Limit(s) \in Nat
<1>1. Language \in ToSet(Languages)
  BY AllotOK DEF Language, ToSet
<1> QED BY <1>1, AllotOK DEF Limit

\* Nothing has been given to a packer yet.
LEMMA EmptyPackerOK ==
  ASSUME NEW s \in Sides, NEW limit \in Nat
  PROVE  PackerOK(s, limit, EmptyPacker, << >>, << >>)
<1> DEFINE T == Alphabet(s)
           e == << >>
<1>1. e \in Seq(T) /\ e \in Seq(Seq(T)) /\ Len(e) = 0 /\ Eos \in T
  BY DEF Alphabet
<1>2. Joined(e) = e
  <2>1. e \in Seq(Seq(T)) /\ e \in Seq(T)
    BY <1>1
  <2> HIDE DEF T
  <2> QED BY Zenon, <1>1, <2>1, JoinedAppend
<1>3. BlockSize \in Nat /\ BlockSize > 0 /\ 0 * BlockSize = 0
  BY AllotOK
<1>4. EmptyPacker \in [pending : Seq(T), documents : Nat]
      /\ EmptyPacker.pending = e /\ EmptyPacker.documents = 0
  BY <1>1 DEF EmptyPacker
<1>5. Cut(e, e) /\ Left(e, e, e)
  BY <1>1, <1>3 DEF Cut, Left
<1> HIDE DEF e
<1>6. PackerOK(s, limit, EmptyPacker, e, e)
  BY <1>1, <1>2, <1>3, <1>4, <1>5 DEF PackerOK, e
<1> QED BY <1>6 DEF e

\* A stream begins.
LEMMA FreshKeeps ==
  ASSUME FreshStream, lang' \in 1 .. Len(Languages)
  PROVE  StreamInv'
<1>1. /\ rows' = 0 /\ packer' = [s \in Sides |-> EmptyPacker]
      /\ written' = [s \in Sides |-> << >>] /\ taken' = [s \in Sides |-> << >>]
  BY DEF FreshStream
<1>2. 0 \in 0 .. MaxRows
  BY BoundOK
<1>3. ASSUME NEW s \in Sides
      PROVE  PackerOK(s, Limit(s)', packer'[s], written'[s], taken'[s])
  <2>1. Limit(s)' \in Nat
    <3>1. Languages[lang'] \in ToSet(Languages)
      BY AllotOK DEF ToSet
    <3> QED BY <3>1, AllotOK DEF Limit, Language
  <2>2. packer'[s] = EmptyPacker /\ written'[s] = << >> /\ taken'[s] = << >>
    BY <1>1
  <2> QED BY <2>1, <2>2, EmptyPackerOK
<1> QED BY <1>1, <1>2, <1>3 DEF StreamInv

\* The stream and its language are left alone.
LEMMA SameKeeps ==
  ASSUME StreamInv, UNCHANGED << lang, stream >>
  PROVE  StreamInv'
<1>1. /\ lang' = lang /\ rows' = rows /\ packer' = packer /\ written' = written /\ taken' = taken
  BY DEF stream
<1>2. \A s \in Sides : Limit(s)' = Limit(s)
  BY <1>1 DEF Limit, Language
<1> QED BY <1>1, <1>2 DEF StreamInv

\* A file is accepted (Accept): its tokens are of the side it is assigned to.
LEMMA AcceptKeeps ==
  ASSUME StreamInv, NEW names \in Names, NEW len \in Lengths, Accept(names, len)
  PROVE  StreamInv'
<1> DEFINE side == assignment(names)
           doc == Document(names, len)
           packed == add_document(packer[side], doc)
           q == [packed EXCEPT !.pending = RestOf(packed.pending)]
           more == _write_blocks(written[side], BlocksOf(packed.pending), Limit(side))
           full == Append(taken[side], doc)
<1>1. /\ rows < MaxRows /\ repository_identity(names) # "" /\ len > 0 /\ ~ Full(side)
      /\ rows' = rows + 1 /\ lang' = lang
      /\ packer' = [packer EXCEPT ![side] = q]
      /\ written' = [written EXCEPT ![side] = more]
      /\ taken' = [taken EXCEPT ![side] = full]
  BY Zenon DEF Accept, Reading
<1>2. /\ lang \in 1 .. Len(Languages) /\ rows \in 0 .. MaxRows
      /\ DOMAIN packer = Sides /\ DOMAIN written = Sides /\ DOMAIN taken = Sides
      /\ \A s \in Sides : PackerOK(s, Limit(s), packer[s], written[s], taken[s])
  BY DEF StreamInv
<1>3. side \in Sides /\ repository_identity(names) \in Repos
      /\ (repository_identity(names) \in Held <=> side = "micro")
  BY Zenon, <1>1 DEF assignment, Sides, repository_identity, Names
<1>4. doc \in Seq(Alphabet(side)) /\ doc # << >>
  <2> DEFINE t(i) == [repo |-> repository_identity(names), row |-> rows + 1, nr |-> i]
  <2>1. len \in Nat /\ len > 0 /\ rows + 1 \in Nat
    <3>1. len \in Nat /\ len > 0
      BY Zenon, <1>1, BoundOK
    <3>2. rows \in 0 .. MaxRows
      BY <1>2
    <3> QED BY ONLY <3>1, <3>2, BoundOK
  <2>2. \A i \in 1 .. len : t(i) \in Alphabet(side)
    BY <1>3, <2>1 DEF TokensOf, Alphabet
  <2>3. doc = [i \in 1 .. len |-> t(i)]
    BY DEF Document
  <2> HIDE DEF t, doc, side
  <2>4. doc \in Seq(Alphabet(side)) /\ Len(doc) = len
    BY <2>1, <2>2, <2>3
  <2> QED BY <2>1, <2>4
<1>5. Limit(side) \in Nat /\ Len(written[side]) < Limit(side)
  <2>1. Limit(side) \in Nat
    BY <1>2, <1>3, LimitNat
  <2>2. Len(written[side]) \in Nat
    BY <1>2, <1>3 DEF PackerOK
  <2>3. ~ (Len(written[side]) >= Limit(side))
    BY Zenon, <1>1 DEF Full
  <2> QED BY ONLY <2>1, <2>2, <2>3
<1>6. PackerOK(side, Limit(side), q, more, full)
  <2> DEFINE p == packer[side]
             a == written[side]
             d == taken[side]
             limit == Limit(side)
  <2>1. PackerOK(side, limit, p, a, d) /\ limit \in Nat /\ Len(a) < limit
        /\ side \in Sides /\ doc \in Seq(Alphabet(side)) /\ doc # << >>
    BY <1>2, <1>3, <1>4, <1>5
  <2> HIDE DEF p, a, d, limit, side, doc
  <2>2. LET z == add_document(p, doc)
        IN PackerOK(side, limit, [z EXCEPT !.pending = RestOf(z.pending)],
                    _write_blocks(a, BlocksOf(z.pending), limit), Append(d, doc))
    BY ONLY <2>1, PackerStep
  <2> QED BY <2>2 DEF p, a, d, limit
<1> HIDE DEF side, q, more, full
<1>7. \A s \in Sides : Limit(s)' = Limit(s)
  BY Zenon, <1>1 DEF Limit, Language
<1>8. ASSUME NEW s \in Sides
      PROVE  PackerOK(s, Limit(s), packer'[s], written'[s], taken'[s])
  <2>1. CASE s = side
    <3>1. packer'[s] = q /\ written'[s] = more /\ taken'[s] = full
      BY Zenon, <1>1, <1>2, <2>1
    <3> QED BY <1>6, <2>1, <3>1
  <2>2. CASE s # side
    <3>1. packer'[s] = packer[s] /\ written'[s] = written[s] /\ taken'[s] = taken[s]
      BY Zenon, <1>1, <1>2, <2>2
    <3> QED BY <1>2, <3>1
  <2> QED BY <2>1, <2>2
<1>9. /\ lang' \in 1 .. Len(Languages) /\ rows' \in 0 .. MaxRows
      /\ DOMAIN packer' = Sides /\ DOMAIN written' = Sides /\ DOMAIN taken' = Sides
  <2>1. rows' \in 0 .. MaxRows
    <3>1. rows \in 0 .. MaxRows /\ rows < MaxRows /\ rows' = rows + 1
      BY Zenon, <1>1, <1>2
    <3> QED BY ONLY <3>1, BoundOK
  <2>2. DOMAIN packer' = Sides /\ DOMAIN written' = Sides /\ DOMAIN taken' = Sides
    BY Zenon, <1>1, <1>2
  <2> QED BY Zenon, <1>1, <1>2, <2>1, <2>2
<1> QED BY <1>7, <1>8, <1>9 DEF StreamInv

\* Every step of the three kernels keeps the streams.
LEMMA StreamStep ==
  ASSUME StreamInv, [Next]_kaggleVars
  PROVE  StreamInv'
<1>0. 1 \in 1 .. Len(Languages) /\ lang \in 1 .. Len(Languages)
  BY AllotOK DEF StreamInv
<1>1. CASE UNCHANGED corpusVars
  BY <1>1, SameKeeps DEF corpusVars, stream
<1>2. CASE FreshStream /\ lang' = 1
  BY <1>0, <1>2, FreshKeeps
<1>3. CASE CorpusNext
  <2>1. CASE Refused \/ StartJob \/ Halt
    BY <1>2, <2>1 DEF Refused, StartJob, Halt
  <2>2. CASE Reject
    <3>1. /\ rows' = rows + 1 /\ rows < MaxRows /\ UNCHANGED << lang, packer, written, taken >>
      BY <2>2 DEF Reject, Reading
    <3>2. rows' \in 0 .. MaxRows
      BY <3>1, BoundOK DEF StreamInv
    <3>3. \A s \in Sides : Limit(s)' = Limit(s)
      BY <3>1 DEF Limit, Language
    <3> QED BY <3>1, <3>2, <3>3 DEF StreamInv
  <2>3. CASE EndStream
    <3>1. CASE lang < Len(Languages) /\ lang' = lang + 1 /\ FreshStream
      <4>1. lang' \in 1 .. Len(Languages)
        BY <1>0, <3>1, AllotOK
      <4> QED BY <3>1, <4>1, FreshKeeps
    <3>2. CASE UNCHANGED << lang, stream >>
      BY <3>2, SameKeeps
    <3>3. CASE Failed
      BY <1>2, <3>3 DEF Failed
    <3> QED BY <2>3, <3>1, <3>2, <3>3 DEF EndStream
  <2>4. CASE Combine \/ General \/ WriteRecords \/ WriteMarker \/ Stamp
    <3>1. UNCHANGED << lang, stream >> \/ (FreshStream /\ lang' = 1)
      BY <2>4 DEF Combine, General, WriteRecords, WriteMarker, Stamp, Failed
    <3> QED BY <1>2, <3>1, SameKeeps
  <2>5. ASSUME NEW names \in Names, NEW len \in Lengths, Accept(names, len)
        PROVE  StreamInv'
    BY <2>5, AcceptKeeps
  <2> QED BY <1>3, <2>1, <2>2, <2>3, <2>4, <2>5 DEF CorpusNext
<1>4. CASE CorpusReset
  BY <1>2, <1>4 DEF CorpusReset
<1> QED BY <1>1, <1>3, <1>4 DEF Next, Prepare, Bench, Train, find_corpus, kaggleVars

\* The blocks of a stream, from what its packers have been given.
LEMMA BlocksFollow == StreamInv => BlocksArePrefix
<1> SUFFICES ASSUME StreamInv, NEW s \in Sides
             PROVE  LET tokens == FlattenSeq(written[s]) IN
                    /\ IsPrefix(tokens, Joined(taken[s]))
                    /\ \A i \in DOMAIN tokens : tokens[i] # Eos => ((tokens[i].repo \in Held) <=> (s = "micro"))
                    /\ Full(s) /\ taken[s] # << >> => Len(Joined(Front(taken[s]))) <= Len(tokens)
  BY DEF BlocksArePrefix
<1> DEFINE T == Alphabet(s)
           w == written[s]
           d == taken[s]
           j == Joined(d)
           m == Len(w) * BlockSize
           tokens == FlattenSeq(w)
<1>1. /\ w \in Seq(Seq(T)) /\ d \in Seq(Seq(T)) /\ Cut(j, w)
      /\ ~ (Len(w) < Limit(s)) /\ d # << >> => Len(Joined(Front(d))) <= m
  BY DEF StreamInv, PackerOK
<1>2. j \in Seq(T) /\ Eos \in T
  <2>1. Eos \in T
    BY DEF Alphabet
  <2> DEFINE e == << >>
  <2>2. e \in Seq(T)
    OBVIOUS
  <2> HIDE DEF T
  <2> QED BY Zenon, <1>1, <2>1, <2>2, JoinedAppend
<1>3. m \in Nat /\ m <= Len(j) /\ Len(j) \in Nat
  BY <1>1, <1>2, AllotOK DEF Cut
<1>4. tokens = SubSeq(j, 1, m)
  <2> HIDE DEF T, w, j
  <2> QED BY <1>1, <1>2, BlocksInOrder DEF Cut
<1>5. Len(tokens) = m /\ tokens \in Seq(T) /\ \A i \in 1 .. m : tokens[i] \in T
  <2> HIDE DEF T, w, j, m, tokens
  <2> QED BY <1>2, <1>3, <1>4
<1>6. IsPrefix(tokens, j)
  <2>1. SubSeq(tokens, 1, m) = tokens
    <3> HIDE DEF T, w, j, m, tokens
    <3> QED BY <1>5, SubSeqFull
  <2> HIDE DEF T, w, j, m, tokens
  <2> QED BY <1>3, <1>4, <1>5, <2>1 DEF IsPrefix
<1>7. ASSUME NEW i \in DOMAIN tokens, tokens[i] # Eos
      PROVE  (tokens[i].repo \in Held) <=> (s = "micro")
  <2>1. tokens[i] \in T
    <3> HIDE DEF T, w, j, m, tokens
    <3> QED BY <1>5, <1>7
  <2> HIDE DEF tokens
  <2> QED BY <1>7, <2>1 DEF Alphabet, TokensOf
<1>8. Full(s) => ~ (Len(w) < Limit(s))
  <2>1. Limit(s) \in Nat /\ Len(w) \in Nat
    BY <1>1, LimitNat DEF StreamInv
  <2> QED BY <2>1 DEF Full
<1> HIDE DEF T, w, d, j, m, tokens
<1>9. Full(s) /\ d # << >> => Len(Joined(Front(d))) <= Len(tokens)
  BY <1>1, <1>5, <1>8
<1> QED BY <1>6, <1>7, <1>9 DEF w, d, j, tokens

\* Nothing has been read yet.
LEMMA StreamInitially == KaggleInit => StreamInv
<1> SUFFICES ASSUME KaggleInit PROVE StreamInv
  OBVIOUS
<1>1. /\ lang = 1 /\ rows = 0 /\ packer = [s \in Sides |-> EmptyPacker]
      /\ written = [s \in Sides |-> << >>] /\ taken = [s \in Sides |-> << >>]
  BY DEF KaggleInit, CorpusInit
<1>2. lang \in 1 .. Len(Languages) /\ rows \in 0 .. MaxRows
  BY <1>1, AllotOK, BoundOK
<1>3. \A s \in Sides : PackerOK(s, Limit(s), packer[s], written[s], taken[s])
  BY <1>1, <1>2, LimitNat, EmptyPackerOK
<1> QED BY <1>1, <1>2, <1>3 DEF StreamInv

\* The blocks of a language are the beginning of the text of its documents,
\* however the lengths of the files fall on the blocks and wherever the arrays
\* end; none holds a repository of the other side, and only the last document
\* is cut (add_document, _write_blocks, _prepare_language).
THEOREM BlocksAreText == Spec => []BlocksArePrefix
<1>1. KaggleInit => StreamInv
  BY StreamInitially
<1>2. StreamInv /\ [Next]_kaggleVars => StreamInv'
  BY StreamStep
<1>3. StreamInv => BlocksArePrefix
  BY BlocksFollow
<1> QED BY <1>1, <1>2, <1>3, PTL DEF Spec

-----------------------------------------------------------------------------
(***************************************************************************)
(* The training kernel.                                                    *)
(***************************************************************************)

RowName(i) == IF i <= Len(Specs) THEN SpecName(i) ELSE WorkerName(i - Len(Specs))

RowOK(row, name) ==
  /\ row.name = name /\ row.exit \in {0, 1} /\ row.stable \in BOOLEAN
  /\ row.config \in ToSet(Specs)
  /\ row.exit = 0 =>
       /\ summaries[name].kernel = starts /\ summaries[name].steps \in Nat
       /\ row.stable <=> summaries[name].steps > 0
  /\ row.stable => row.exit = 0 /\ row.speed \in Nat

PilotOK(row, name, rate) ==
  /\ row.name = name /\ row.rate = rate /\ row.exit \in {0, 1} /\ row.stable \in BOOLEAN
  /\ row.config = selected.config /\ row.workers = selected.workers
  /\ row.tokens = pilot_tokens
  /\ row.exit = 0 =>
       /\ evaluations[name].kernel = starts
       /\ evaluations[name].loss \in Nat /\ evaluations[name].regressions \in Nat
       /\ evaluations[name].general \in BOOLEAN
  /\ row.stable => row.exit = 0

Fastest(row) ==
  /\ row \in StableRows(benchmarks)
  /\ \A other \in StableRows(benchmarks) : other.speed <= row.speed

BestPilot(p) ==
  /\ p \in ToSet(pilots) /\ eligible(p)
  /\ \A q \in ToSet(pilots) : eligible(q) => evaluations[p.name].loss <= evaluations[q.name].loss

PhaseOK ==
  /\ phase \in {"off", "baseline", "specs", "workers", "pilots", "main", "ended", "failed"}
  /\ starts \in Nat /\ (phase # "off" => starts > 0)
  /\ phase \in {"off", "baseline"} => benchmarks = << >>
  /\ phase \in {"off", "baseline", "specs", "workers"} => pilots = << >>
  /\ mainRun # Nothing => phase \in {"main", "ended", "failed"}
  /\ phase = "specs" => Len(benchmarks) <= Len(Specs)
  /\ phase = "workers" => Len(benchmarks) >= Len(Specs)

TablesOK ==
  /\ DOMAIN summaries = LaunchNames /\ DOMAIN evaluations = LaunchNames
  /\ benchmarks \in Seq(ToSet(benchmarks)) /\ pilots \in Seq(ToSet(pilots))
  /\ Len(benchmarks) <= Len(Specs) + Len(Workers) /\ Len(pilots) <= Len(Rates)
  /\ \A i \in DOMAIN benchmarks : RowOK(benchmarks[i], RowName(i))
  /\ \A i \in DOMAIN pilots : PilotOK(pilots[i], PilotName(i), Rates[i])

ChoiceOK ==
  /\ phase \in {"workers", "pilots", "main"} => selected \in StableRows(benchmarks)
  /\ phase \in {"pilots", "main"} \/ mainRun # Nothing => Fastest(selected)
  /\ phase = "main" => \E p \in ToSet(pilots) : eligible(p)
  /\ mainRun # Nothing =>
       /\ mainRun.config = selected.config /\ mainRun.workers = selected.workers
       /\ \E p \in ToSet(pilots) : BestPilot(p) /\ mainRun.rate = p.rate

OrchInv == PhaseOK /\ TablesOK /\ ChoiceOK

-----------------------------------------------------------------------------
\* A sequence with one more member.
LEMMA AppendFacts ==
  ASSUME NEW s, s \in Seq(ToSet(s)), NEW x
  PROVE  /\ Append(s, x) \in Seq(ToSet(Append(s, x)))
         /\ Len(Append(s, x)) = Len(s) + 1 /\ Len(s) \in Nat
         /\ DOMAIN Append(s, x) = 1 .. Len(s) + 1 /\ DOMAIN s = 1 .. Len(s)
         /\ \A i \in DOMAIN s : Append(s, x)[i] = s[i]
         /\ Append(s, x)[Len(s) + 1] = x
         /\ ToSet(Append(s, x)) = ToSet(s) \cup {x}
<1> DEFINE S == ToSet(s) \cup {x}
           t == Append(s, x)
<1>1. s \in Seq(S)
  OBVIOUS
<1>2. /\ t \in Seq(S) /\ Len(t) = Len(s) + 1 /\ Len(s) \in Nat
      /\ DOMAIN t = 1 .. Len(s) + 1 /\ DOMAIN s = 1 .. Len(s)
      /\ \A i \in DOMAIN s : t[i] = s[i]
      /\ t[Len(s) + 1] = x
  <2>1. x \in S
    OBVIOUS
  <2> HIDE DEF S
  <2> QED BY <1>1, <2>1
<1> HIDE DEF t
<1>3. ToSet(t) = S
  BY <1>2 DEF ToSet
<1>4. t \in Seq(ToSet(t)) /\ ToSet(t) = ToSet(s) \cup {x}
  BY <1>2, <1>3
<1> QED BY <1>2, <1>4 DEF t

\* Names of different launches differ.
LEMMA NamesDiffer ==
  /\ \A i, j \in Nat : RowName(i) = RowName(j) => i = j
  /\ \A i, j \in Nat : PilotName(i) = PilotName(j) => i = j
  /\ \A i, j \in Nat : RowName(i) # PilotName(j) /\ RowName(i) # MainName /\ PilotName(j) # MainName
<1>1. Len(Specs) \in Nat
  BY KernelOK
<1> DEFINE L == Len(Specs)
           tag(i) == IF i <= L THEN "benchmark" ELSE "workers"
           nr(i) == IF i <= L THEN i ELSE i - L
<1>2. ASSUME NEW i \in Nat
      PROVE  /\ RowName(i)[1] = tag(i) /\ RowName(i)[2] = nr(i)
             /\ PilotName(i)[1] = "pilot" /\ PilotName(i)[2] = i
  BY DEF RowName, PilotName, SpecName, WorkerName
<1>3. MainName[1] = "main"
  BY DEF MainName
<1>4. \A i, j \in Nat : tag(i) = tag(j) /\ nr(i) = nr(j) => i = j
  BY <1>1
<1>5. \A i \in Nat : tag(i) # "pilot" /\ tag(i) # "main"
  OBVIOUS
<1> HIDE DEF tag, nr
<1>6. \A i, j \in Nat : RowName(i) = RowName(j) => i = j
  <2> TAKE i, j \in Nat
  <2> HAVE RowName(i) = RowName(j)
  <2>1. tag(i) = tag(j) /\ nr(i) = nr(j)
    BY <1>2
  <2> QED BY <2>1, <1>4
<1>7. \A i, j \in Nat : PilotName(i) = PilotName(j) => i = j
  BY <1>2
<1>8. \A i, j \in Nat :
        RowName(i) # PilotName(j) /\ RowName(i) # MainName /\ PilotName(j) # MainName
  <2> TAKE i, j \in Nat
  <2>1. RowName(i)[1] \notin {"pilot", "main"} /\ PilotName(j)[1] = "pilot" /\ MainName[1] = "main"
    BY <1>2, <1>3, <1>5
  <2> QED BY <2>1
<1> QED BY <1>6, <1>7, <1>8

\* The record of a launch.
LEMMA LaunchRecord ==
  ASSUME NEW name, NEW config, NEW workers, NEW rate, NEW tokens, NEW ending, NEW summary,
         NEW evaluation,
         launch_training(name, config, workers, rate, tokens, ending, summary, evaluation)
  PROVE  \E r : /\ Recorded(r)
                /\ r.name = name /\ r.config = config /\ r.workers = workers /\ r.rate = rate
                /\ r.tokens = tokens /\ r.exit = ending.exit /\ r # Nothing
                /\ r.kernel = starts
                /\ r.stable = stable_record(ending.exit, IF ending.summary THEN summary
                                                         ELSE summaries[name])
                /\ r.stable => r.speed = (IF ending.summary THEN summary ELSE summaries[name]).speed
<1> DEFINE found  == IF ending.summary THEN summary ELSE summaries[name]
           stable == stable_record(ending.exit, found)
           record == [kernel |-> starts, name |-> name, config |-> config, workers |-> workers,
                      rate |-> rate, tokens |-> tokens, exit |-> ending.exit, stable |-> stable,
                      speed |-> IF stable THEN found.speed ELSE NoSpeed]
<1>1. Recorded(record)
  BY DEF launch_training
<1> HIDE DEF found, stable
<1>2. /\ record.name = name /\ record.config = config /\ record.workers = workers
      /\ record.rate = rate /\ record.tokens = tokens /\ record.exit = ending.exit
      /\ record.kernel = starts
      /\ record.stable = stable /\ (stable => record.speed = found.speed)
  OBVIOUS
<1>3. record # Nothing
  <2>1. "name" \in DOMAIN record /\ "name" \notin DOMAIN Nothing
    BY DEF Nothing
  <2> QED BY <2>1
<1> HIDE DEF record
<1> QED BY <1>1, <1>2, <1>3 DEF found, stable

\* The names of the measurements and the pilots are names of launches.
LEMMA NamesLaunched ==
  /\ Len(Specs) \in Nat /\ Len(Workers) \in Nat /\ Len(Rates) \in Nat
  /\ \A i \in 1 .. Len(Specs) + Len(Workers) : RowName(i) \in LaunchNames
  /\ \A i \in 1 .. Len(Rates) : PilotName(i) \in LaunchNames
  /\ MainName \in LaunchNames
<1>1. /\ Len(Specs) \in Nat /\ Len(Workers) \in Nat /\ Len(Rates) \in Nat
      /\ DOMAIN Specs = 1 .. Len(Specs) /\ DOMAIN Workers = 1 .. Len(Workers)
      /\ DOMAIN Rates = 1 .. Len(Rates)
  BY KernelOK
<1>2. ASSUME NEW i \in 1 .. Len(Specs) + Len(Workers)
      PROVE  RowName(i) \in LaunchNames
  <2>1. CASE i <= Len(Specs)
    BY <1>1, <2>1 DEF RowName, LaunchNames
  <2>2. CASE ~ (i <= Len(Specs))
    <3>1. i - Len(Specs) \in DOMAIN Workers
      BY <1>1, <2>2
    <3> QED BY <2>2, <3>1 DEF RowName, LaunchNames
  <2> QED BY <2>1, <2>2
<1> QED BY <1>1, <1>2 DEF LaunchNames

\* max over the stable rows is a fastest stable row (pick_configuration).
LEMMA PickFastest ==
  ASSUME TablesOK, StableRows(benchmarks) # {}
  PROVE  Fastest(pick_configuration(benchmarks))
<1> DEFINE speed(i) == benchmarks[i].speed
           S == {i \in DOMAIN benchmarks : benchmarks[i].stable}
           v == [i \in S |-> speed(i)]
           Good(i) == /\ benchmarks[i].stable
                      /\ \A j \in DOMAIN benchmarks : benchmarks[j].stable =>
                           /\ ~ speed(j) > speed(i)
                           /\ j < i => speed(i) > speed(j)
           i0 == CHOOSE i \in DOMAIN benchmarks : Good(i)
<1>1. Len(benchmarks) \in Nat /\ DOMAIN benchmarks = 1 .. Len(benchmarks)
  BY DEF TablesOK
<1>2. S \subseteq 1 .. Len(benchmarks) /\ S # {}
  BY <1>1 DEF StableRows, ToSet
<1>3. \A i \in S : speed(i) \in Nat
  BY DEF TablesOK, RowOK
<1>4. v \in [S -> Int]
  BY <1>3
<1>5. PICK i \in S : \A j \in S : v[j] <= v[i] /\ (j < i => v[j] < v[i])
  <2> HIDE DEF S, v
  <2>1. QED
    BY Zenon, <1>1, <1>2, <1>4, FirstBest
<1>6. Good(i)
  <2> HIDE DEF speed
  <2>1. \A j \in S : speed(j) <= speed(i) /\ (j < i => speed(j) < speed(i))
    BY Zenon, <1>5
  <2>2. \A j \in S : ~ (speed(j) > speed(i)) /\ (j < i => speed(i) > speed(j))
    BY <1>3, <2>1
  <2>3. QED
    BY <2>2
<1>7. i0 \in DOMAIN benchmarks /\ Good(i0)
  <2> HIDE DEF Good
  <2>1. QED
    BY <1>6
<1>8. pick_configuration(benchmarks) = benchmarks[i0]
  BY DEF pick_configuration, Best
<1>9. i0 \in S /\ \A j \in S : speed(j) <= speed(i0)
  <2> HIDE DEF speed, i0
  <2>1. QED
    BY <1>3, <1>7
<1> HIDE DEF i0
<1> QED BY <1>8, <1>9 DEF Fastest, StableRows, ToSet

\* min over the eligible pilots has the lowest loss of them (pick_learning_rate).
LEMMA PickRate ==
  ASSUME TablesOK, NEW p \in ToSet(pilots), eligible(p)
  PROVE  BestPilot(pick_learning_rate)
<1> DEFINE loss(i) == evaluations[pilots[i].name].loss
           S == {i \in DOMAIN pilots : eligible(pilots[i])}
           v == [i \in S |-> -loss(i)]
           Good(i) == /\ eligible(pilots[i])
                      /\ \A j \in DOMAIN pilots : eligible(pilots[j]) =>
                           /\ ~ loss(j) < loss(i)
                           /\ j < i => loss(i) < loss(j)
           i0 == CHOOSE i \in DOMAIN pilots : Good(i)
<1>1. Len(pilots) \in Nat /\ DOMAIN pilots = 1 .. Len(pilots)
  BY DEF TablesOK
<1>2. S \subseteq 1 .. Len(pilots) /\ S # {}
  BY <1>1 DEF ToSet
<1>3. \A i \in S : loss(i) \in Nat
  BY DEF TablesOK, PilotOK, eligible
<1>4. v \in [S -> Int]
  <2> HIDE DEF loss, S
  <2>1. \A i \in S : -loss(i) \in Int
    BY <1>3
  <2>2. QED
    BY <2>1
<1>5. PICK i \in S : \A j \in S : v[j] <= v[i] /\ (j < i => v[j] < v[i])
  <2> HIDE DEF S, v
  <2>1. QED
    BY Zenon, <1>1, <1>2, <1>4, FirstBest
<1>6. Good(i)
  <2> HIDE DEF loss
  <2>1. \A j \in S : -loss(j) <= -loss(i) /\ (j < i => -loss(j) < -loss(i))
    BY <1>5
  <2>2. \A j \in S : ~ (loss(j) < loss(i)) /\ (j < i => loss(i) < loss(j))
    BY <1>3, <2>1
  <2>3. QED
    BY <2>2
<1>7. i0 \in DOMAIN pilots /\ Good(i0)
  <2> HIDE DEF Good
  <2>1. QED
    BY <1>6
<1>8. pick_learning_rate = pilots[i0]
  BY DEF pick_learning_rate, Best
<1>9. i0 \in S /\ \A j \in S : loss(i0) <= loss(j)
  <2> HIDE DEF loss, i0
  <2>1. QED
    BY <1>3, <1>7
<1> HIDE DEF i0
<1> QED BY <1>8, <1>9 DEF BestPilot, ToSet

\* What the tables and the choices say does not change with the phase.
LEMMA TablesKept ==
  ASSUME TablesOK, UNCHANGED << starts, benchmarks, pilots, summaries, evaluations >>,
         selected' = selected \/ pilots = << >>
  PROVE  TablesOK'
<1>1. \A i \in DOMAIN benchmarks' : RowOK(benchmarks[i], RowName(i))'
  BY DEF TablesOK, RowOK
<1>2. ASSUME NEW i \in DOMAIN pilots'
      PROVE  PilotOK(pilots[i], PilotName(i), Rates[i])'
  <2>1. selected' = selected /\ pilots' = pilots
    BY <1>2
  <2>2. pilot_tokens' = pilot_tokens
    BY <2>1 DEF pilot_tokens
  <2> QED BY <2>1, <2>2 DEF TablesOK, PilotOK
<1> QED BY <1>1, <1>2 DEF TablesOK

\* Without records there is nothing to say about them.
LEMMA EmptyTables ==
  ASSUME TablesOK, benchmarks' = << >>, pilots' = << >>, UNCHANGED << summaries, evaluations >>
  PROVE  TablesOK'
  BY NamesLaunched DEF TablesOK, ToSet

\* The gates look at the evaluations and nothing else.
LEMMA EligibleKept ==
  ASSUME UNCHANGED evaluations, NEW p
  PROVE  eligible(p)' = eligible(p)
  BY DEF eligible

\* The kernel raises or is killed (Drop).
LEMMA DropKeeps ==
  ASSUME OrchInv, phase # "off", Drop
  PROVE  OrchInv'
<1>1. /\ phase' = "failed" /\ benchmarks' = << >> /\ pilots' = << >> /\ mainRun' = Nothing
      /\ UNCHANGED << starts, summaries, evaluations >>
  BY DEF Drop
<1>2. TablesOK'
  BY <1>1, EmptyTables DEF OrchInv
<1> QED BY <1>1, <1>2 DEF OrchInv, PhaseOK, ChoiceOK

\* The kernel is started: every file is of an earlier one (StartKernel).
LEMMA StartKernelKeeps ==
  ASSUME OrchInv, StartKernel
  PROVE  OrchInv'
<1>1. /\ phase' = "baseline" /\ starts' = starts + 1
      /\ benchmarks' = << >> /\ pilots' = << >> /\ mainRun' = Nothing
      /\ UNCHANGED << summaries, evaluations >>
  BY DEF StartKernel
<1>2. TablesOK'
  BY <1>1, EmptyTables DEF OrchInv
<1>3. starts' \in Nat /\ starts' > 0
  BY <1>1 DEF OrchInv, PhaseOK
<1> QED BY <1>1, <1>2, <1>3 DEF OrchInv, PhaseOK, ChoiceOK

\* The baseline was evaluated (Baseline).
LEMMA BaselineKeeps ==
  ASSUME OrchInv, Baseline
  PROVE  OrchInv'
<1>1. /\ phase = "baseline" /\ phase' = "specs"
      /\ UNCHANGED << starts, benchmarks, selected, pilots, mainRun, summaries, evaluations >>
  BY DEF Baseline
<1>2. TablesOK'
  BY <1>1, TablesKept DEF OrchInv
<1>3. benchmarks = << >> /\ mainRun = Nothing
  BY <1>1 DEF OrchInv, PhaseOK
<1>4. PhaseOK'
  BY <1>1, <1>3, NamesLaunched DEF OrchInv, PhaseOK
<1> QED BY <1>1, <1>2, <1>3, <1>4 DEF OrchInv, ChoiceOK

\* The fastest stable configuration is selected, if there is one (SelectSpec).
LEMMA SelectSpecKeeps ==
  ASSUME OrchInv, SelectSpec
  PROVE  OrchInv'
<1>1. CASE StableRows(benchmarks) = {}
  BY <1>1, DropKeeps DEF SelectSpec
<1>2. CASE StableRows(benchmarks) # {}
  <2>1. /\ phase = "specs" /\ Len(benchmarks) = Len(Specs) /\ phase' = "workers"
        /\ selected' = pick_configuration(benchmarks)
        /\ UNCHANGED << starts, benchmarks, pilots, mainRun, summaries, evaluations >>
    BY <1>2 DEF SelectSpec
  <2>2. pilots = << >> /\ mainRun = Nothing
    BY <2>1 DEF OrchInv, PhaseOK
  <2>3. TablesOK'
    BY <2>1, <2>2, TablesKept DEF OrchInv
  <2>4. selected' \in StableRows(benchmarks)
    BY <1>2, <2>1, PickFastest DEF OrchInv, Fastest
  <2>5. PhaseOK'
    BY <2>1, <2>2, NamesLaunched DEF OrchInv, PhaseOK
  <2>6. StableRows(benchmarks)' = StableRows(benchmarks)
    BY <2>1
  <2> QED BY <2>1, <2>2, <2>3, <2>4, <2>5, <2>6 DEF OrchInv, ChoiceOK
<1> QED BY <1>1, <1>2

\* It is selected again with the numbers of workers (SelectWorkers).
LEMMA SelectWorkersKeeps ==
  ASSUME OrchInv, SelectWorkers
  PROVE  OrchInv'
<1>1. /\ phase = "workers" /\ phase' = "pilots"
      /\ selected' = pick_configuration(benchmarks)
      /\ UNCHANGED << starts, benchmarks, pilots, mainRun, summaries, evaluations >>
  BY DEF SelectWorkers
<1>2. pilots = << >> /\ mainRun = Nothing
  BY <1>1 DEF OrchInv, PhaseOK
<1>3. TablesOK'
  BY <1>1, <1>2, TablesKept DEF OrchInv
<1>4. Fastest(selected)'
  <2>1. Fastest(selected')
    BY <1>1, PickFastest DEF OrchInv, ChoiceOK
  <2>2. StableRows(benchmarks)' = StableRows(benchmarks)
    BY <1>1
  <2> QED BY <2>1, <2>2 DEF Fastest
<1>5. PhaseOK'
  BY <1>1, <1>2 DEF OrchInv, PhaseOK
<1>6. (selected \in StableRows(benchmarks))'
  BY <1>4 DEF Fastest
<1> QED BY <1>1, <1>2, <1>3, <1>4, <1>5, <1>6 DEF OrchInv, ChoiceOK

\* Some pilot passed the gates (SelectRate).
LEMMA SelectRateKeeps ==
  ASSUME OrchInv, SelectRate
  PROVE  OrchInv'
<1>1. CASE ~ \E p \in ToSet(pilots) : eligible(p)
  BY <1>1, DropKeeps DEF SelectRate
<1>2. CASE \E p \in ToSet(pilots) : eligible(p)
  <2>1. /\ phase = "pilots" /\ phase' = "main"
        /\ UNCHANGED << starts, benchmarks, selected, pilots, mainRun, summaries, evaluations >>
    BY <1>2 DEF SelectRate
  <2>2. TablesOK'
    BY <2>1, TablesKept DEF OrchInv
  <2>3. mainRun = Nothing
    BY <2>1 DEF OrchInv, PhaseOK
  <2>4. PhaseOK'
    BY <2>1, <2>3 DEF OrchInv, PhaseOK
  <2>5. StableRows(benchmarks)' = StableRows(benchmarks) /\ (Fastest(selected) => Fastest(selected)')
    BY <2>1 DEF Fastest, StableRows
  <2>6. (\E p \in ToSet(pilots) : eligible(p))'
    BY <1>2, <2>1 DEF eligible
  <2> QED BY <2>1, <2>2, <2>3, <2>4, <2>5, <2>6 DEF OrchInv, ChoiceOK
<1> QED BY <1>1, <1>2

\* The summary of the kernel (Finish).
LEMMA FinishKeeps ==
  ASSUME OrchInv, Finish
  PROVE  OrchInv'
<1>1. /\ phase = "main" /\ phase' \in {"failed", "ended"}
      /\ UNCHANGED << starts, benchmarks, selected, pilots, mainRun, summaries, evaluations >>
  BY DEF Finish
<1>2. TablesOK'
  BY <1>1, TablesKept DEF OrchInv
<1>3. PhaseOK'
  BY <1>1 DEF OrchInv, PhaseOK
<1>4. /\ StableRows(benchmarks)' = StableRows(benchmarks)
      /\ Fastest(selected) => Fastest(selected)'
      /\ \A p : BestPilot(p) => BestPilot(p)'
  BY <1>1 DEF Fastest, StableRows, BestPilot, eligible
<1>5. ChoiceOK'
  <2>1. phase' \notin {"workers", "pilots", "main"} /\ mainRun' = mainRun
    BY <1>1
  <2> QED BY <1>1, <1>4, <2>1 DEF OrchInv, ChoiceOK
<1> QED BY <1>2, <1>3, <1>5 DEF OrchInv

\* A stable launch ended well; for one that did, what it measured counts.
LEMMA StableRecord ==
  ASSUME OrchInv, phase # "off", NEW e \in Endings(TRUE) \cup Endings(FALSE),
         NEW speed, NEW steps, NEW stop, NEW found,
         e.summary => found = Summary(speed, stop, steps)
  PROVE  /\ e.exit \in {0, 1} /\ stable_record(e.exit, found) \in BOOLEAN
         /\ stable_record(e.exit, found) => e.exit = 0
         /\ e.exit = 0 => e.summary
         /\ e.exit = 0 => (stable_record(e.exit, found) <=>
                              (stop # "broad_validation_deterioration" /\ steps > 0))
<1> DEFINE s == Summary(speed, stop, steps)
<1>1. e.exit \in {0, 1} /\ (e.exit = 0 => e.summary)
  BY DEF Endings
<1>2. s.kernel = starts /\ s.speed = speed /\ s.steps = steps /\ s.stop = stop
  BY DEF Summary
<1>3. s # Nothing
  <2>1. s.kernel # Nothing.kernel
    BY <1>2 DEF OrchInv, PhaseOK, Nothing
  <2> QED BY <2>1
<1> HIDE DEF s
<1>4. e.summary => found = s
  BY DEF s
<1>5. stable_record(e.exit, found) \in BOOLEAN /\ (stable_record(e.exit, found) => e.exit = 0)
  BY DEF stable_record
<1>6. e.exit = 0 => (stable_record(e.exit, found) <=>
                       (stop # "broad_validation_deterioration" /\ steps > 0))
  BY <1>1, <1>2, <1>3, <1>4 DEF stable_record
<1> QED BY <1>1, <1>5, <1>6

\* One more measurement: a launch that ended well has left a summary of its own,
\* under a name no other launch of this kernel has.
LEMMA BenchmarkKeeps ==
  ASSUME OrchInv, phase \in {"specs", "workers"},
         NEW i, i = Len(benchmarks) + 1, i <= Len(Specs) + Len(Workers),
         phase = "specs" => i <= Len(Specs),
         NEW config \in ToSet(Specs), NEW workers, Benchmark(RowName(i), config, workers),
         UNCHANGED << phase, starts, selected >>
  PROVE  OrchInv'
<1> DEFINE name == RowName(i)
<1>1. PICK e \in Endings(FALSE), m \in Measures :
        launch_training(name, config, workers, "probe", ProbeTokens, e,
                        Summary(m.speed, "max_tokens", m.steps), Nothing)
  BY Zenon DEF Benchmark
<1> DEFINE s == Summary(m.speed, "max_tokens", m.steps)
           found == IF e.summary THEN s ELSE summaries[name]
<1>2. /\ summaries' = [summaries EXCEPT ![name] = found]
      /\ evaluations' = [evaluations EXCEPT ![name] = IF e.eval THEN Nothing ELSE @]
  BY <1>1 DEF launch_training
<1>3. PICK r : /\ Recorded(r) /\ r.name = name /\ r.config = config /\ r.exit = e.exit
               /\ r.stable = stable_record(e.exit, found)
               /\ r.stable => r.speed = found.speed
  <2> HIDE DEF name
  <2>1. QED BY <1>1, LaunchRecord
<1>4. benchmarks' = Append(benchmarks, r) /\ pilots' = pilots /\ mainRun' = mainRun
  BY <1>3 DEF Recorded
<1>5. /\ pilots = << >> /\ mainRun = Nothing /\ starts \in Nat /\ phase # "off"
      /\ Len(benchmarks) \in Nat /\ benchmarks \in Seq(ToSet(benchmarks))
      /\ DOMAIN summaries = LaunchNames /\ DOMAIN evaluations = LaunchNames
  BY DEF OrchInv, PhaseOK, TablesOK
<1>6. m.speed \in Nat /\ m.steps \in Nat
  BY Zenon, KernelOK
<1>7. /\ e.exit \in {0, 1} /\ r.stable \in BOOLEAN /\ (r.stable => e.exit = 0)
      /\ e.exit = 0 => e.summary /\ (r.stable <=> m.steps > 0)
      /\ s.kernel = starts /\ s.speed = m.speed /\ s.steps = m.steps
  <2> HIDE DEF name
  <2>1. "max_tokens" # "broad_validation_deterioration"
    OBVIOUS
  <2>2. e.summary => found = Summary(m.speed, "max_tokens", m.steps)
    OBVIOUS
  <2> HIDE DEF found, s
  <2>4. /\ e.exit \in {0, 1} /\ stable_record(e.exit, found) \in BOOLEAN
        /\ stable_record(e.exit, found) => e.exit = 0
        /\ e.exit = 0 => e.summary
        /\ e.exit = 0 => (stable_record(e.exit, found) <=>
                             ("max_tokens" # "broad_validation_deterioration" /\ m.steps > 0))
    BY Zenon, <1>5, <2>2, StableRecord
  <2>3. s.kernel = starts /\ s.speed = m.speed /\ s.steps = m.steps
    BY DEF Summary, s
  <2> QED BY <1>3, <2>1, <2>3, <2>4
<1> HIDE DEF s
<1>8. /\ benchmarks' \in Seq(ToSet(benchmarks')) /\ Len(benchmarks') = i
      /\ DOMAIN benchmarks' = 1 .. i /\ DOMAIN benchmarks = 1 .. Len(benchmarks)
      /\ \A j \in DOMAIN benchmarks : benchmarks'[j] = benchmarks[j]
      /\ benchmarks'[i] = r /\ ToSet(benchmarks') = ToSet(benchmarks) \cup {r}
  <2> HIDE DEF name, found
  <2> QED BY <1>4, <1>5, AppendFacts
<1>9. name \in LaunchNames /\ i \in Nat /\ i \in 1 .. Len(Specs) + Len(Workers)
  BY <1>5, NamesLaunched
<1>10. summaries'[name] = found
  BY <1>2, <1>5, <1>9
<1>11. RowOK(r, name)'
  <2> HIDE DEF name
  <2>1. r.name = name /\ r.exit \in {0, 1} /\ r.stable \in BOOLEAN /\ r.config \in ToSet(Specs)
    BY <1>3, <1>7
  <2>2. ASSUME r.exit = 0
        PROVE  /\ summaries'[name] = s /\ s.kernel = starts /\ s.steps \in Nat
               /\ r.stable <=> s.steps > 0
               /\ r.stable => r.speed \in Nat
    BY <1>3, <1>6, <1>7, <1>10, <2>2
  <2>3. r.stable => r.exit = 0
    BY <1>3, <1>7
  <2>4. starts' = starts
    OBVIOUS
  <2> QED BY <2>1, <2>2, <2>3, <2>4 DEF RowOK, name
<1>12. \A j \in DOMAIN benchmarks' : RowOK(benchmarks[j], RowName(j))'
  <2> TAKE j \in DOMAIN benchmarks'
  <2>1. CASE j = i
    BY <1>8, <1>11, <2>1 DEF RowOK
  <2>2. CASE j # i
    <3>1. j \in DOMAIN benchmarks /\ j \in Nat /\ benchmarks'[j] = benchmarks[j]
      BY <1>5, <1>8, <1>9, <2>2
    <3>2. RowName(j) # name /\ RowName(j) \in LaunchNames
      BY <1>5, <1>8, <1>9, <2>2, <3>1, NamesDiffer, NamesLaunched
    <3>3. summaries'[RowName(j)] = summaries[RowName(j)]
      BY <1>2, <1>5, <3>2
    <3>4. RowOK(benchmarks[j], RowName(j))
      BY <3>1 DEF OrchInv, TablesOK
    <3> HIDE DEF name
    <3> QED BY <3>1, <3>3, <3>4 DEF RowOK
  <2> QED BY <2>1, <2>2
<1>13. TablesOK'
  <2>1. DOMAIN summaries' = LaunchNames /\ DOMAIN evaluations' = LaunchNames
    BY <1>2, <1>5
  <2>2. pilots' = << >>
    BY <1>4, <1>5
  <2>3. pilots' \in Seq(ToSet(pilots')) /\ Len(pilots') <= Len(Rates) /\ DOMAIN pilots' = {}
    BY <2>2, NamesLaunched DEF ToSet
  <2> HIDE DEF name
  <2> QED BY <1>8, <1>12, <2>1, <2>3 DEF TablesOK
<1>14. PhaseOK'
  BY <1>4, <1>5, <1>8, <1>9, NamesLaunched DEF OrchInv, PhaseOK
<1>15. ChoiceOK'
  <2>1. StableRows(benchmarks) \subseteq StableRows(benchmarks')
    BY <1>8 DEF StableRows
  <2>2. phase' \notin {"pilots", "main"} /\ mainRun' = Nothing
    BY <1>4, <1>5
  <2> QED BY <2>1, <2>2 DEF OrchInv, ChoiceOK
<1> QED BY <1>13, <1>14, <1>15 DEF OrchInv

\* The measurements of configurations and of workers (MeasureSpec,
\* MeasureWorkers).
LEMMA MeasureKeeps ==
  ASSUME OrchInv, MeasureSpec \/ MeasureWorkers
  PROVE  OrchInv'
<1> DEFINE i == Len(benchmarks) + 1
<1>1. Len(benchmarks) \in Nat /\ Len(Specs) \in Nat /\ Len(Workers) \in Nat
      /\ DOMAIN Specs = 1 .. Len(Specs)
  BY NamesLaunched, KernelOK DEF OrchInv, TablesOK
<1>2. CASE MeasureSpec
  <2>1. /\ phase = "specs" /\ i <= Len(Specs) /\ Benchmark(SpecName(i), Specs[i], 1)
        /\ UNCHANGED << phase, starts, selected >>
    BY <1>2 DEF MeasureSpec
  <2>2. Specs[i] \in ToSet(Specs) /\ RowName(i) = SpecName(i) /\ i <= Len(Specs) + Len(Workers)
    BY <1>1, <2>1 DEF ToSet, RowName
  <2> HIDE DEF i
  <2>3. i = Len(benchmarks) + 1
    BY DEF i
  <2>4. Benchmark(RowName(i), Specs[i], 1)
    BY <2>1, <2>2
  <2> QED BY <2>1, <2>2, <2>3, <2>4, BenchmarkKeeps
<1>3. CASE MeasureWorkers
  <2> DEFINE w == Len(benchmarks) - Len(Specs) + 1
  <2>1. /\ phase = "workers" /\ w <= Len(Workers)
        /\ Benchmark(WorkerName(w), selected.config, Workers[w])
        /\ UNCHANGED << phase, starts, selected >>
    BY <1>3 DEF MeasureWorkers
  <2>2. Len(benchmarks) >= Len(Specs) /\ selected \in StableRows(benchmarks)
    BY <2>1 DEF OrchInv, PhaseOK, ChoiceOK
  <2>3. selected.config \in ToSet(Specs)
    <3>1. PICK j \in DOMAIN benchmarks : selected = benchmarks[j]
      BY <2>2 DEF StableRows, ToSet
    <3> QED BY <3>1 DEF OrchInv, TablesOK, RowOK
  <2>4. ~ (i <= Len(Specs)) /\ i - Len(Specs) = w /\ i <= Len(Specs) + Len(Workers)
    BY <1>1, <2>1, <2>2
  <2> HIDE DEF i, w
  <2>5. i = Len(benchmarks) + 1 /\ RowName(i) = WorkerName(w)
    BY <2>4 DEF RowName, i
  <2>6. Benchmark(RowName(i), selected.config, Workers[w])
    BY <2>1, <2>5
  <2> QED BY <2>1, <2>3, <2>4, <2>5, <2>6, BenchmarkKeeps
<1> QED BY <1>2, <1>3

\* One more pilot: one that ended well has left an evaluation of its own (Pilot).
LEMMA PilotKeeps ==
  ASSUME OrchInv, Pilot, NEW i, i = Len(pilots) + 1
  PROVE  OrchInv'
<1> DEFINE name == PilotName(i)
<1>1. phase = "pilots" /\ i <= Len(Rates) /\ UNCHANGED << phase, starts, selected >>
  BY DEF Pilot
<1>2. PICK e \in Endings(TRUE), o \in Evaluations :
        launch_training(name, selected.config, selected.workers, Rates[i], pilot_tokens, e,
                        Summary(selected.speed, "max_tokens", 1), Evaluation(o))
  BY Zenon DEF Pilot
<1> DEFINE s == Summary(selected.speed, "max_tokens", 1)
           found == IF e.summary THEN s ELSE summaries[name]
           eval == Evaluation(o)
<1>3. /\ summaries' = [summaries EXCEPT ![name] = found]
      /\ evaluations' = [evaluations EXCEPT ![name] = IF e.eval THEN eval ELSE @]
  BY <1>2 DEF launch_training
<1>4. PICK r : /\ Recorded(r) /\ r.name = name /\ r.config = selected.config
               /\ r.workers = selected.workers /\ r.rate = Rates[i] /\ r.tokens = pilot_tokens
               /\ r.exit = e.exit /\ r.stable = stable_record(e.exit, found)
  <2> HIDE DEF name, eval
  <2>1. QED BY <1>2, LaunchRecord DEF eval
<1>5. benchmarks' = benchmarks /\ pilots' = Append(pilots, r) /\ mainRun' = mainRun
  BY <1>1, <1>4 DEF Recorded
<1>6. /\ mainRun = Nothing /\ starts \in Nat /\ phase # "off"
      /\ Len(pilots) \in Nat /\ pilots \in Seq(ToSet(pilots))
      /\ DOMAIN summaries = LaunchNames /\ DOMAIN evaluations = LaunchNames
  BY <1>1 DEF OrchInv, PhaseOK, TablesOK
<1>7. /\ eval.kernel = starts /\ eval.loss \in Nat /\ eval.regressions \in Nat
      /\ eval.general \in BOOLEAN
  BY Zenon, KernelOK DEF Evaluation
<1>8. e.exit \in {0, 1} /\ r.stable \in BOOLEAN /\ (r.stable => e.exit = 0) /\ (e.exit = 0 => e.eval)
  <2>1. e.summary => found = Summary(selected.speed, "max_tokens", 1)
    OBVIOUS
  <2> HIDE DEF found, s
  <2>2. e.exit \in {0, 1} /\ stable_record(e.exit, found) \in BOOLEAN
        /\ (stable_record(e.exit, found) => e.exit = 0)
    BY Zenon, <1>6, <2>1, StableRecord
  <2>3. e.exit = 0 => e.eval
    BY DEF Endings
  <2> QED BY <1>4, <2>2, <2>3
<1>9. i \in 1 .. Len(Rates) /\ i \in Nat /\ name \in LaunchNames
  BY <1>1, <1>6, NamesLaunched
<1> HIDE DEF s, found, eval
<1>10. evaluations'[name] = (IF e.eval THEN eval ELSE evaluations[name])
  <2> HIDE DEF name
  <2> QED BY <1>3, <1>6, <1>9
<1>11. /\ pilots' \in Seq(ToSet(pilots')) /\ Len(pilots') = i
       /\ DOMAIN pilots' = 1 .. i /\ DOMAIN pilots = 1 .. Len(pilots)
       /\ \A j \in DOMAIN pilots : pilots'[j] = pilots[j]
       /\ pilots'[i] = r
  <2> HIDE DEF name
  <2> QED BY <1>5, <1>6, AppendFacts
<1>12. pilot_tokens' = pilot_tokens
  BY <1>1 DEF pilot_tokens
<1>13. PilotOK(r, name, Rates[i])'
  <2>1. r.exit = 0 => evaluations'[name] = eval
    BY <1>4, <1>8, <1>10
  <2> HIDE DEF name
  <2>2. /\ r.name = name /\ r.rate = Rates[i] /\ r.exit \in {0, 1} /\ r.stable \in BOOLEAN
        /\ r.config = selected.config /\ r.workers = selected.workers
        /\ r.tokens = pilot_tokens /\ (r.stable => r.exit = 0)
    BY <1>4, <1>8
  <2>3. r.exit = 0 =>
          /\ evaluations'[name].kernel = starts
          /\ evaluations'[name].loss \in Nat /\ evaluations'[name].regressions \in Nat
          /\ evaluations'[name].general \in BOOLEAN
    BY <1>7, <2>1
  <2> QED BY <1>1, <1>12, <2>2, <2>3 DEF PilotOK, name
<1>14. \A j \in DOMAIN pilots' : PilotOK(pilots[j], PilotName(j), Rates[j])'
  <2> TAKE j \in DOMAIN pilots'
  <2>1. CASE j = i
    BY <1>11, <1>13, <2>1 DEF PilotOK
  <2>2. CASE j # i
    <3>1. j \in DOMAIN pilots /\ j \in Nat /\ pilots'[j] = pilots[j] /\ j \in 1 .. Len(Rates)
      BY <1>6, <1>9, <1>11, <2>2
    <3>2. PilotName(j) # name /\ PilotName(j) \in LaunchNames
      BY <1>9, <2>2, <3>1, NamesDiffer, NamesLaunched
    <3>3. evaluations'[PilotName(j)] = evaluations[PilotName(j)]
      BY <1>3, <1>6, <3>2
    <3>4. PilotOK(pilots[j], PilotName(j), Rates[j])
      BY <3>1 DEF OrchInv, TablesOK
    <3> HIDE DEF name
    <3> QED BY <1>1, <1>12, <3>1, <3>3, <3>4 DEF PilotOK
  <2> QED BY <2>1, <2>2
<1>15. \A j \in DOMAIN benchmarks' : RowOK(benchmarks[j], RowName(j))'
  <2> TAKE j \in DOMAIN benchmarks'
  <2>1. /\ j \in DOMAIN benchmarks /\ j \in Nat /\ j \in 1 .. Len(Specs) + Len(Workers)
        /\ RowOK(benchmarks[j], RowName(j))
    BY <1>5, NamesLaunched DEF OrchInv, TablesOK
  <2>2. RowName(j) # name /\ RowName(j) \in LaunchNames
    BY <1>9, <2>1, NamesDiffer, NamesLaunched
  <2>3. summaries'[RowName(j)] = summaries[RowName(j)]
    BY <1>3, <1>6, <2>2
  <2> HIDE DEF name
  <2> QED BY <1>1, <1>5, <2>1, <2>3 DEF RowOK
<1>16. TablesOK'
  <2>1. DOMAIN summaries' = LaunchNames /\ DOMAIN evaluations' = LaunchNames
    BY <1>3, <1>6
  <2> HIDE DEF name
  <2> QED BY <1>5, <1>9, <1>11, <1>14, <1>15, <2>1 DEF OrchInv, TablesOK
<1>17. PhaseOK'
  BY <1>1, <1>5, <1>6 DEF OrchInv, PhaseOK
<1>18. ChoiceOK'
  <2>1. StableRows(benchmarks)' = StableRows(benchmarks) /\ (Fastest(selected) => Fastest(selected)')
    BY <1>1, <1>5 DEF Fastest, StableRows
  <2>2. phase' = "pilots" /\ mainRun' = Nothing
    BY <1>1, <1>5, <1>6
  <2> QED BY <1>1, <1>6, <2>1, <2>2 DEF OrchInv, ChoiceOK
<1> QED BY <1>16, <1>17, <1>18 DEF OrchInv

\* The main run: its launch changes no file of a measurement or a pilot
\* (LaunchMain).
LEMMA LaunchMainKeeps ==
  ASSUME OrchInv, LaunchMain
  PROVE  OrchInv'
<1>1. phase = "main" /\ mainRun = Nothing /\ UNCHANGED << phase, starts, selected >>
  BY DEF LaunchMain
<1>2. PICK e \in Endings(FALSE), stop \in {"max_tokens", "broad_validation_deterioration"} :
        launch_training(MainName, selected.config, selected.workers, pick_learning_rate.rate,
                        CorpusTokens, e, Summary(selected.speed, stop, 1), Nothing)
  BY Zenon DEF LaunchMain
<1> DEFINE found == IF e.summary THEN Summary(selected.speed, stop, 1) ELSE summaries[MainName]
<1>3. /\ summaries' = [summaries EXCEPT ![MainName] = found]
      /\ evaluations' = [evaluations EXCEPT ![MainName] = IF e.eval THEN Nothing ELSE @]
  BY <1>2 DEF launch_training
<1> HIDE DEF found
<1>4. PICK r : /\ Recorded(r) /\ r # Nothing /\ r.config = selected.config
               /\ r.workers = selected.workers /\ r.rate = pick_learning_rate.rate
  BY <1>2, LaunchRecord
<1>5. benchmarks' = benchmarks /\ pilots' = pilots /\ mainRun' = r
  BY <1>1, <1>4 DEF Recorded
<1>6. DOMAIN summaries = LaunchNames /\ DOMAIN evaluations = LaunchNames
  BY DEF OrchInv, TablesOK
<1>7. \A n \in LaunchNames \ {MainName} :
        summaries'[n] = summaries[n] /\ evaluations'[n] = evaluations[n]
  BY <1>3, <1>6
<1>8. /\ \A j \in DOMAIN benchmarks : RowOK(benchmarks[j], RowName(j))
                                       /\ RowName(j) \in LaunchNames \ {MainName}
      /\ \A j \in DOMAIN pilots : PilotOK(pilots[j], PilotName(j), Rates[j])
                                   /\ PilotName(j) \in LaunchNames \ {MainName}
  <2>1. /\ \A j \in DOMAIN benchmarks : j \in Nat /\ j \in 1 .. Len(Specs) + Len(Workers)
        /\ \A j \in DOMAIN pilots : j \in Nat /\ j \in 1 .. Len(Rates)
    BY NamesLaunched DEF OrchInv, TablesOK
  <2> QED BY <2>1, NamesLaunched, NamesDiffer DEF OrchInv, TablesOK
<1>9. TablesOK'
  <2>1. \A j \in DOMAIN benchmarks' : RowOK(benchmarks[j], RowName(j))'
    BY <1>1, <1>5, <1>7, <1>8 DEF RowOK
  <2>2. pilot_tokens' = pilot_tokens
    BY <1>1 DEF pilot_tokens
  <2>3. \A j \in DOMAIN pilots' : PilotOK(pilots[j], PilotName(j), Rates[j])'
    BY <1>1, <1>5, <1>7, <1>8, <2>2 DEF PilotOK
  <2>4. DOMAIN summaries' = LaunchNames /\ DOMAIN evaluations' = LaunchNames
    BY <1>3, <1>6
  <2> QED BY <1>5, <2>1, <2>3, <2>4 DEF OrchInv, TablesOK
<1>10. PhaseOK'
  BY <1>1, <1>5 DEF OrchInv, PhaseOK
<1>11. \A p \in ToSet(pilots) : /\ evaluations'[p.name] = evaluations[p.name]
                                /\ eligible(p)' <=> eligible(p)
  <2> TAKE p \in ToSet(pilots)
  <2>1. PICK j \in DOMAIN pilots : p = pilots[j]
    BY DEF ToSet
  <2>2. evaluations'[p.name] = evaluations[p.name]
    BY <1>7, <1>8, <2>1 DEF PilotOK
  <2> QED BY <2>2 DEF eligible
<1>12. BestPilot(pick_learning_rate)
  BY <1>1, PickRate DEF OrchInv, ChoiceOK
<1>13. ChoiceOK'
  <2>1. StableRows(benchmarks)' = StableRows(benchmarks) /\ (Fastest(selected) => Fastest(selected)')
    BY <1>1, <1>5 DEF Fastest, StableRows
  <2>2. Fastest(selected) /\ selected \in StableRows(benchmarks)
    BY <1>1 DEF OrchInv, ChoiceOK
  <2>3. PICK p \in ToSet(pilots) : p = pick_learning_rate
    BY <1>12 DEF BestPilot
  <2>4. BestPilot(p)'
    BY <1>5, <1>11, <1>12, <2>3 DEF BestPilot
  <2>5. (\E q \in ToSet(pilots) : BestPilot(q) /\ mainRun.rate = q.rate)'
    BY <1>4, <1>5, <2>3, <2>4
  <2>6. (\E q \in ToSet(pilots) : eligible(q))'
    BY <2>4 DEF BestPilot
  <2> QED BY <1>1, <1>4, <1>5, <2>1, <2>2, <2>5, <2>6 DEF ChoiceOK
<1> QED BY <1>9, <1>10, <1>13 DEF OrchInv

\* What is invariant of the kernel is the evidence of its main run.
LEMMA EvidenceFollows ==
  ASSUME OrchInv
  PROVE  MainFromEvidence
<1> SUFFICES ASSUME mainRun # Nothing PROVE MainFromEvidence
  BY DEF MainFromEvidence
<1>1. /\ Fastest(selected) /\ mainRun.config = selected.config
      /\ mainRun.workers = selected.workers
  BY DEF OrchInv, ChoiceOK
<1>2. PICK p \in ToSet(pilots) : BestPilot(p) /\ mainRun.rate = p.rate
  BY DEF OrchInv, ChoiceOK
<1>3. \A c \in ToSet(benchmarks) :
        /\ c.exit = 0 /\ summaries[c.name].steps > 0 => c.stable
        /\ c.stable => c.exit = 0 /\ c.speed \in Nat /\ summaries[c.name].kernel = starts
        /\ c.config \in ToSet(Specs)
  <2> TAKE c \in ToSet(benchmarks)
  <2>1. PICK j \in DOMAIN benchmarks : c = benchmarks[j]
    BY DEF ToSet
  <2> QED BY <2>1 DEF OrchInv, TablesOK, RowOK
<1>4. selected \in ToSet(benchmarks) /\ selected.stable
  BY <1>1 DEF Fastest, StableRows
<1>5. \A c \in ToSet(benchmarks) :
        c.exit = 0 /\ summaries[c.name].steps > 0 => c.speed <= selected.speed
  BY <1>1, <1>3 DEF Fastest, StableRows
<1>6. PICK j \in DOMAIN pilots : p = pilots[j] /\ PilotOK(p, PilotName(j), Rates[j])
  BY DEF OrchInv, TablesOK, ToSet
<1>7. /\ p.exit = 0 /\ evaluations[p.name].kernel = starts
      /\ p.config = mainRun.config /\ p.workers = mainRun.workers /\ p.tokens = pilot_tokens
      /\ evaluations[p.name].loss < BaseLoss /\ evaluations[p.name].regressions <= 2
      /\ evaluations[p.name].general
  BY <1>1, <1>2, <1>6 DEF PilotOK, BestPilot, eligible
<1>8. pilot_tokens >= PilotRange[1] /\ pilot_tokens % PerUpdateOf[selected.config] = 0
  <2> DEFINE measured == selected.speed * PilotWindow
             u        == PerUpdateOf[selected.config]
             capped   == IF measured < PilotRange[2] THEN measured ELSE PilotRange[2]
             t        == IF capped > PilotRange[1] THEN capped ELSE PilotRange[1]
  <2>1. u \in Nat \ {0} /\ selected.speed \in Nat
    BY Zenon, <1>3, <1>4, KernelOK
  <2>2. measured \in Nat
    BY <2>1, KernelOK
  <2> HIDE DEF measured, u
  <2>3. t \in Nat /\ t >= PilotRange[1] /\ PilotRange[1] \in Nat
    BY <2>2, KernelOK
  <2>4. pilot_tokens = ((t + u - 1) \div u) * u
    BY DEF pilot_tokens, measured, u
  <2> HIDE DEF t
  <2>5. pilot_tokens >= t /\ pilot_tokens % u = 0 /\ pilot_tokens \in Int
    <3>1. (t + u - 1) \div u \in Int
      BY <2>1, <2>3
    <3>2. ((t + u - 1) \div u) * u \in Int
      BY <2>1, <3>1
    <3> QED BY <2>1, <2>3, <2>4, <3>2, RoundUp
  <2> QED BY <2>3, <2>5 DEF u
<1>9. \A q \in ToSet(pilots) : eligible(q) => evaluations[p.name].loss <= evaluations[q.name].loss
  BY <1>2 DEF BestPilot
<1>10. \E b \in ToSet(benchmarks) :
         /\ b.config = mainRun.config /\ b.workers = mainRun.workers /\ b.exit = 0
         /\ summaries[b.name].kernel = starts
         /\ \A c \in ToSet(benchmarks) :
              c.exit = 0 /\ summaries[c.name].steps > 0 => c.speed <= b.speed
  BY <1>1, <1>3, <1>4, <1>5
<1>11. PerUpdateOf[selected.config] = PerUpdateOf[p.config]
  BY <1>1, <1>7
<1> QED BY <1>2, <1>7, <1>8, <1>9, <1>10, <1>11 DEF MainFromEvidence

\* Every step of the three kernels keeps the invariant of the training kernel.
LEMMA OrchestratorStep ==
  ASSUME OrchInv, [Next]_kaggleVars
  PROVE  OrchInv'
<1>1. CASE UNCHANGED kernelVars
  <2>1. UNCHANGED << phase, starts, benchmarks, selected, pilots, mainRun, summaries, evaluations >>
    BY <1>1 DEF kernelVars
  <2>2. TablesOK'
    BY <2>1, TablesKept DEF OrchInv
  <2>3. PhaseOK' /\ ChoiceOK'
    BY <2>1 DEF OrchInv, PhaseOK, ChoiceOK, Fastest, StableRows, BestPilot, eligible
  <2> QED BY <2>2, <2>3 DEF OrchInv
<1>2. CASE StartKernel
  BY <1>2, StartKernelKeeps
<1>3. CASE OrchestratorNext
  <2>1. HaltKernel => OrchInv'
    BY DropKeeps DEF HaltKernel
  <2>2. Pilot => OrchInv'
    BY PilotKeeps
  <2> QED BY <1>3, <2>1, <2>2, BaselineKeeps, MeasureKeeps, SelectSpecKeeps, SelectWorkersKeeps,
             SelectRateKeeps, LaunchMainKeeps, FinishKeeps DEF OrchestratorNext
<1> QED BY <1>1, <1>2, <1>3 DEF Next, Prepare, Bench, Train, find_corpus, kaggleVars

\* No launch yet.
LEMMA OrchInitially == KaggleInit => OrchInv
<1> SUFFICES ASSUME KaggleInit PROVE OrchInv
  OBVIOUS
<1>1. OrchestratorInit
  BY DEF KaggleInit
<1>2. PhaseOK
  BY <1>1 DEF OrchestratorInit, PhaseOK
<1>3. TablesOK
  BY <1>1, NamesLaunched DEF OrchestratorInit, TablesOK, ToSet
<1> QED BY <1>1, <1>2, <1>3 DEF OrchestratorInit, OrchInv, ChoiceOK

\* The main run has the configuration of the fastest measurement that ended
\* well and the learning rate of the best eligible pilot, both of this kernel and
\* not read from files of an earlier one (main of code_cpt_train/run.py).
THEOREM MainRunHasEvidence == Spec => []MainFromEvidence
<1>1. KaggleInit => OrchInv
  BY OrchInitially
<1>2. OrchInv /\ [Next]_kaggleVars => OrchInv'
  BY OrchestratorStep
<1>3. OrchInv => MainFromEvidence
  BY EvidenceFollows
<1> QED BY <1>1, <1>2, <1>3, PTL DEF Spec

-----------------------------------------------------------------------------
(***************************************************************************)
(* The types of the three kernels.                                         *)
(***************************************************************************)

\* What the kernels count, and the kernel that wrote what is read.
CountsOK ==
  /\ kernel \in {"prepare", "bench", "train"} /\ attached \in {"none", "torn", "whole"}
  /\ attempt \in 0 .. MaxJobs

FilesOK ==
  /\ starts \in 0 .. KernelStarts
  /\ \A n \in LaunchNames : /\ summaries[n].kernel \in 0 .. starts
                            /\ evaluations[n].kernel \in 0 .. starts
  /\ \A b \in ToSet(benchmarks) : b.kernel = starts
  /\ reports \subseteq {"baseline", "benchmarks", "lr_sweep", "orchestrator_summary"}

\* The kernel and the attempts at the preparation.
LEMMA CountsKept ==
  ASSUME CountsOK, [Next]_kaggleVars
  PROVE  CountsOK'
<1>1. CASE UNCHANGED << kernel, attached, attempt >>
  BY <1>1 DEF CountsOK
<1>2. CASE Prepare
  <2>1. UNCHANGED << kernel, attached >>
    BY <1>2 DEF Prepare
  <2>2. attempt' = attempt \/ (attempt < MaxJobs /\ attempt' = attempt + 1)
    BY Zenon, <1>2 DEF Prepare, CorpusNext, Refused, StartJob, Startable, Reject, EndStream, Failed,
                Combine, General, WriteRecords, WriteMarker, Stamp, Halt, Accept
  <2>3. attempt' \in 0 .. MaxJobs
    BY <2>2, BoundOK DEF CountsOK
  <2> QED BY <2>1, <2>3 DEF CountsOK
<1>3. ASSUME NEW next \in {"bench", "train"}, find_corpus(next)
      PROVE  CountsOK'
  <2>1. kernel' = next /\ attached' \in {"torn", "whole"} /\ attempt' = 0
    BY <1>3 DEF find_corpus, CorpusReset
  <2> QED BY <2>1, BoundOK DEF CountsOK
<1>4. Bench \/ Train => UNCHANGED << kernel, attached, attempt >>
  BY DEF Bench, Train, corpusVars
<1>5. UNCHANGED kaggleVars => UNCHANGED << kernel, attached, attempt >>
  BY DEF kaggleVars, corpusVars
<1> QED BY <1>1, <1>2, <1>3, <1>4, <1>5 DEF Next

\* What a launch leaves is of this kernel, or of the one that left it before.
LEMMA LaunchLeaves ==
  ASSUME OrchInv, FilesOK, NEW name, NEW config, NEW workers, NEW rate, NEW tokens, NEW ending,
         NEW summary, NEW evaluation,
         launch_training(name, config, workers, rate, tokens, ending, summary, evaluation),
         summary.kernel = starts, evaluation.kernel \in {0, starts},
         UNCHANGED << starts, reports >>
  PROVE  FilesOK'
<1> DEFINE found == IF ending.summary THEN summary ELSE summaries[name]
<1>1. /\ summaries' = [summaries EXCEPT ![name] = found]
      /\ evaluations' = [evaluations EXCEPT ![name] = IF ending.eval THEN evaluation ELSE @]
  BY DEF launch_training
<1>2. /\ starts \in Nat /\ starts \in 0 .. KernelStarts
      /\ benchmarks \in Seq(ToSet(benchmarks))
      /\ DOMAIN summaries = LaunchNames /\ DOMAIN evaluations = LaunchNames
  BY DEF OrchInv, PhaseOK, TablesOK, FilesOK
<1>3. ASSUME NEW n \in LaunchNames
      PROVE  summaries'[n].kernel \in 0 .. starts /\ evaluations'[n].kernel \in 0 .. starts
  <2>1. summaries[n].kernel \in 0 .. starts /\ evaluations[n].kernel \in 0 .. starts
    BY DEF FilesOK
  <2>2. CASE n # name
    BY <1>1, <1>2, <2>1, <2>2
  <2>3. CASE n = name
    <3>1. summaries'[n] = found /\ evaluations'[n] = IF ending.eval THEN evaluation ELSE evaluations[n]
      BY <1>1, <1>2, <2>3
    <3> QED BY <1>2, <2>1, <2>3, <3>1
  <2> QED BY <2>2, <2>3
<1>4. PICK r : Recorded(r) /\ r.kernel = starts
  <2> QED BY LaunchRecord
<1>5. ToSet(benchmarks') \subseteq ToSet(benchmarks) \cup {r}
  <2>1. benchmarks' = Append(benchmarks, r) \/ benchmarks' = benchmarks
    BY <1>4 DEF Recorded
  <2>2. ToSet(Append(benchmarks, r)) = ToSet(benchmarks) \cup {r}
    <3>1. benchmarks \in Seq(ToSet(benchmarks))
      BY <1>2
    <3> QED BY ONLY <3>1, AppendFacts
  <2> QED BY Zenon, <2>1, <2>2
<1>6. \A b \in ToSet(benchmarks') : b.kernel = starts
  BY <1>4, <1>5 DEF FilesOK
<1> QED BY <1>2, <1>3, <1>6 DEF FilesOK

\* Every step of the three kernels keeps that.
LEMMA FilesKept ==
  ASSUME OrchInv, FilesOK, [Next]_kaggleVars
  PROVE  FilesOK'
<1> DEFINE R == {"baseline", "benchmarks", "lr_sweep", "orchestrator_summary"}
<1>1. CASE UNCHANGED kernelVars
  BY <1>1 DEF kernelVars, FilesOK
<1>2. CASE StartKernel
  <2>1. /\ starts' = starts + 1 /\ starts < KernelStarts /\ benchmarks' = << >>
        /\ UNCHANGED << summaries, evaluations, reports >>
    BY <1>2 DEF StartKernel
  <2>2. starts' \in 0 .. KernelStarts /\ 0 .. starts \subseteq 0 .. starts'
    BY <2>1, KernelOK DEF FilesOK
  <2>3. ToSet(benchmarks') = {}
    BY <2>1 DEF ToSet
  <2> QED BY <2>1, <2>2, <2>3 DEF FilesOK
<1>3. CASE /\ UNCHANGED << starts, summaries, evaluations >>
           /\ benchmarks' = benchmarks \/ benchmarks' = << >>
           /\ reports' \subseteq reports \cup R
  <2>1. ToSet(benchmarks') \subseteq ToSet(benchmarks)
    BY <1>3 DEF ToSet
  <2> QED BY <1>3, <2>1 DEF FilesOK
<1>4. ASSUME NEW name, NEW config, NEW workers, Benchmark(name, config, workers),
             UNCHANGED << starts, reports >>
      PROVE  FilesOK'
  <2>1. PICK e \in Endings(FALSE), m \in Measures :
          launch_training(name, config, workers, "probe", ProbeTokens, e,
                          Summary(m.speed, "max_tokens", m.steps), Nothing)
    BY Zenon, <1>4 DEF Benchmark
  <2>2. Summary(m.speed, "max_tokens", m.steps).kernel = starts /\ Nothing.kernel = 0
    BY DEF Summary, Nothing
  <2>3. Nothing.kernel \in {0, starts}
    BY <2>2
  <2> QED BY <1>4, <2>1, <2>2, <2>3, LaunchLeaves
<1>5. CASE MeasureSpec \/ MeasureWorkers
  BY <1>4, <1>5 DEF MeasureSpec, MeasureWorkers
<1>6. CASE Pilot
  <2> DEFINE i == Len(pilots) + 1
  <2>1. PICK e \in Endings(TRUE), o \in Evaluations :
          launch_training(PilotName(i), selected.config, selected.workers, Rates[i],
                          pilot_tokens, e, Summary(selected.speed, "max_tokens", 1), Evaluation(o))
    BY Zenon, <1>6 DEF Pilot
  <2>2. Summary(selected.speed, "max_tokens", 1).kernel = starts /\ Evaluation(o).kernel = starts
    BY DEF Summary, Evaluation
  <2>3. UNCHANGED << starts, reports >>
    BY <1>6 DEF Pilot
  <2> HIDE DEF i
  <2>4. Evaluation(o).kernel \in {0, starts}
    BY <2>2
  <2> QED BY <2>1, <2>2, <2>3, <2>4, LaunchLeaves
<1>7. CASE LaunchMain
  <2>1. PICK e \in Endings(FALSE), stop \in {"max_tokens", "broad_validation_deterioration"} :
          launch_training(MainName, selected.config, selected.workers, pick_learning_rate.rate,
                          CorpusTokens, e, Summary(selected.speed, stop, 1), Nothing)
    BY Zenon, <1>7 DEF LaunchMain
  <2>2. Summary(selected.speed, stop, 1).kernel = starts /\ Nothing.kernel \in {0, starts}
    BY DEF Summary, Nothing
  <2>3. UNCHANGED << starts, reports >>
    BY <1>7 DEF LaunchMain
  <2> QED BY <2>1, <2>2, <2>3, LaunchLeaves
<1>8. CASE Baseline \/ SelectSpec \/ SelectWorkers \/ SelectRate \/ Finish \/ HaltKernel
  BY <1>3, <1>8 DEF Baseline, SelectSpec, SelectWorkers, SelectRate, Finish, HaltKernel, Drop
<1> QED BY <1>1, <1>2, <1>5, <1>6, <1>7, <1>8
        DEF Next, Prepare, Bench, Train, find_corpus, kaggleVars, OrchestratorNext

\* The types of the three kernels, from their invariants.
LEMMA TypesFollow ==
  ASSUME CountsOK, CorpusInv, StreamInv, BenchInv, OrchInv, FilesOK
  PROVE  KaggleTypeOK
<1>1. CorpusTypeOK
  <2>1. ASSUME NEW s \in Sides
        PROVE  /\ Len(packer[s].pending) < BlockSize /\ Len(written[s]) <= Limit(s)
               /\ \A i \in DOMAIN written[s] : Len(written[s][i]) = BlockSize
    <3>1. PackerOK(s, Limit(s), packer[s], written[s], taken[s])
      BY DEF StreamInv
    <3>2. DOMAIN written[s] = 1 .. Len(written[s])
      BY <3>1 DEF PackerOK
    <3> QED BY <3>1, <3>2 DEF PackerOK, Cut
  <2>2. ASSUME NEW f \in Files PROVE disk[f].job \in 0 .. attempt /\ disk[f].whole \in BOOLEAN
    BY DEF CorpusInv, File
  <2>3. lang \in 1 .. Len(Languages) /\ rows \in 0 .. MaxRows
    BY DEF StreamInv
  <2>4. prep \in Places
    BY DEF CorpusInv
  <2> QED BY <2>1, <2>2, <2>3, <2>4 DEF CorpusTypeOK, CountsOK, Places
<1>2. OrchestratorTypeOK
  <2>1. ASSUME phase \in {"workers", "pilots", "main"}
        PROVE  selected.stable /\ selected.kernel = starts
    BY <2>1 DEF OrchInv, ChoiceOK, StableRows, FilesOK
  <2> QED BY <2>1 DEF OrchestratorTypeOK, OrchInv, PhaseOK, TablesOK, FilesOK
<1> QED BY <1>1, <1>2 DEF KaggleTypeOK, CountsOK, BenchInv

\* In every state of the three kernels the variables have their types: no array
\* is longer than its allotment, no packer keeps a whole block, what is attached
\* is a corpus, and what the training kernel has selected is a stable
\* measurement of its own.
THEOREM TypesCorrect == Spec => []KaggleTypeOK
<1> DEFINE Inv == CountsOK /\ CorpusInv /\ StreamInv /\ BenchInv /\ OrchInv /\ FilesOK
<1>1. KaggleInit => Inv
  <2> SUFFICES ASSUME KaggleInit PROVE Inv
    OBVIOUS
  <2>1. CorpusInit /\ BenchInit /\ OrchestratorInit /\ kernel = "prepare" /\ attached = "none"
    BY DEF KaggleInit
  <2>2. CountsOK
    BY <2>1, BoundOK DEF CountsOK, CorpusInit
  <2>3. FilesOK
    <3>1. /\ starts = 0 /\ benchmarks = << >> /\ reports = {}
          /\ \A n \in LaunchNames : summaries[n] = Nothing /\ evaluations[n] = Nothing
      BY <2>1 DEF OrchestratorInit
    <3>2. ToSet(benchmarks) = {}
      BY <3>1 DEF ToSet
    <3> QED BY <3>1, <3>2, KernelOK DEF FilesOK, Nothing
  <2> QED BY <2>1, <2>2, <2>3, CorpusInitially, StreamInitially, BenchInitially, OrchInitially
<1>2. Inv /\ [Next]_kaggleVars => Inv'
  BY CountsKept, CorpusStep, StreamStep, BenchStep, OrchestratorStep, FilesKept
<1>3. Inv => KaggleTypeOK
  BY TypesFollow
<1> QED BY <1>1, <1>2, <1>3, PTL DEF Spec
=============================================================================

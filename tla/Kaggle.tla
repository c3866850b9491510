------------------------------- MODULE Kaggle -------------------------------
(***************************************************************************)
(* The three Kaggle kernels around one corpus.  The prepare kernel (module *)
(* Corpus) ends in any way; its output directory is attached to the lab    *)
(* (module Bench) and to the training kernel (module Orchestrator), which  *)
(* look only for a corpus_metadata.json in it.                             *)
(***************************************************************************)
EXTENDS Corpus, Bench, Orchestrator

CONSTANT Selections   \* bound: values of --candidates, as sets

ASSUME SelectionsOK == Selections \subseteq SUBSET Candidates

VARIABLES
  kernel,    \* the kernel being run
  attached   \* the metadata of the attached corpus: none, torn or whole

kaggleVars == << kernel, attached, corpusVars, benchVars, kernelVars >>

KaggleInit ==
  /\ kernel = "prepare" /\ attached = "none"
  /\ CorpusInit /\ BenchInit /\ OrchestratorInit

\* allocate_blocks gives the languages all the blocks of the corpus.
CorpusBlocks == FoldFunction(+, 0, TrainBlocks)

Prepare ==
  /\ kernel = "prepare" /\ attached = "none"
  /\ CorpusNext
  /\ UNCHANGED << kernel, attached, benchVars, kernelVars >>

\* The output of the prepare kernel becomes the input of the other two.
\* Without metadata find_corpus raises, and nothing runs.
find_corpus(next) ==
  /\ kernel = "prepare" /\ prep \in {"done", "failed"} /\ disk["metadata"].job > 0
  /\ kernel' = next
  /\ attached' = IF next = "bench" \/ disk["metadata"].whole THEN "whole" ELSE "torn"
  /\ CorpusReset
  /\ UNCHANGED << benchVars, kernelVars >>

Bench ==
  /\ kernel = "bench"
  /\ \/ LabNext(CorpusBlocks) \/ JobNext \/ Killed
     \/ \E names \in Selections, tokens \in Overrides : StartLab(names, tokens)
  /\ UNCHANGED << kernel, attached, corpusVars, kernelVars >>

\* A launch reads the metadata before it writes a file, so with torn
\* metadata it leaves none.
Train ==
  /\ kernel = "train"
  /\ StartKernel \/ OrchestratorNext
  /\ attached = "torn" => UNCHANGED << summaries, evaluations >>
  /\ UNCHANGED << kernel, attached, corpusVars, benchVars >>

Next == Prepare \/ Bench \/ Train \/ \E next \in {"bench", "train"} : find_corpus(next)

\* subprocess.run gives up waiting in the end; nothing else has to happen.
GivesUp == kernel = "bench" /\ Timeout /\ UNCHANGED << kernel, attached, corpusVars, kernelVars >>

Spec == KaggleInit /\ [][Next]_kaggleVars /\ WF_kaggleVars(GivesUp)

KaggleTypeOK ==
  /\ kernel \in {"prepare", "bench", "train"} /\ attached \in {"none", "torn", "whole"}
  /\ CorpusTypeOK /\ BenchTypeOK /\ OrchestratorTypeOK
=============================================================================

------------------------------- MODULE Corpus -------------------------------
(***************************************************************************)
(* The job that freezes the training corpus: code_cpt/prepare.py and       *)
(* data.py, run by kaggle/code_cpt_prepare.  For each language it streams  *)
(* source files, keeps whole repositories out of training, packs the       *)
(* tokens of the rest into blocks of equal size, mixes the languages, and  *)
(* writes corpus_metadata.json last: the trainers look for that file.  The *)
(* job can be killed anywhere and started again on the same directory.     *)
(*                                                                         *)
(* A token is the record of the file it comes from, or Eos.                *)
(***************************************************************************)
EXTENDS Integers, SequencesExt

CONSTANTS
  Repos,        \* repositories
  Held,         \* those whose bucket is a validation bucket
  Languages,    \* the languages, in order
  Core,         \* those that have a validation set
  TrainBlocks,  \* blocks of training each language is allotted
  MicroBlocks,  \* blocks of validation each core language is allotted
  BlockSize,    \* tokens of a block
  Lengths,      \* bound: numbers of tokens a file may have
  MaxRows,      \* bound: files of one stream
  MaxJobs,      \* bound: times the job is started
  Eos

ASSUME SplitOK == Held \subseteq Repos
ASSUME AllotOK == /\ Languages \in Seq(ToSet(Languages)) /\ Languages # << >>
                  /\ TrainBlocks \in [ToSet(Languages) -> Nat \ {0}]
                  /\ MicroBlocks \in Nat \ {0} /\ BlockSize \in Nat \ {0, 1}
ASSUME BoundOK == Lengths \subseteq Nat /\ MaxRows \in Nat /\ MaxJobs \in Nat

VARIABLES
  prep,      \* where the job is
  attempt,   \* times it was started
  lang,      \* index of the language being streamed
  rows,      \* rows read from its stream (raw_files)
  packer,    \* the two packers: pending_tokens, documents
  written,   \* the blocks in the two memory-mapped arrays of the language
  records,   \* validation_records of the language
  taken,     \* observer: the documents given to each packer, in order
  disk       \* per file of the output directory, the job that wrote it and if it finished

corpusVars == << prep, attempt, lang, rows, packer, written, records, taken, disk >>
stream     == << rows, packer, written, records, taken >>

Sides == {"train", "micro"}
Files == {"train_blocks", "micro", "general", "validation_records", "metadata"}
Absent == [job |-> 0, whole |-> FALSE]

Language == Languages[lang]
Limit(side) == IF side = "train" THEN TrainBlocks[Language]
               ELSE IF Language \in Core THEN MicroBlocks ELSE 0
Full(side)  == Len(written[side]) >= Limit(side)

CorpusTypeOK ==
  /\ prep \in {"off", "stream", "combine", "general", "records", "marker", "stamp",
               "done", "failed"}
  /\ attempt \in 0 .. MaxJobs /\ lang \in 1 .. Len(Languages) /\ rows \in 0 .. MaxRows
  /\ \A s \in Sides : /\ Len(packer[s].pending) < BlockSize
                      /\ Len(written[s]) <= Limit(s)
                      /\ \A i \in DOMAIN written[s] : Len(written[s][i]) = BlockSize
  /\ \A f \in Files : disk[f].job \in 0 .. attempt /\ disk[f].whole \in BOOLEAN

EmptyPacker == [pending |-> << >>, documents |-> 0]

\* The variables of _prepare_language at the start of a stream.
FreshStream ==
  /\ rows' = 0
  /\ packer' = [s \in Sides |-> EmptyPacker]
  /\ written' = [s \in Sides |-> << >>]
  /\ records' = << >>
  /\ taken' = [s \in Sides |-> << >>]

CorpusInit ==
  /\ prep = "off" /\ attempt = 0 /\ lang = 1 /\ rows = 0
  /\ packer = [s \in Sides |-> EmptyPacker]
  /\ written = [s \in Sides |-> << >>]
  /\ records = << >>
  /\ taken = [s \in Sides |-> << >>]
  /\ disk = [f \in Files |-> Absent]

\* The directory is left behind: the output of a finished kernel is attached
\* to other kernels, the variables begin anew.
CorpusReset ==
  /\ prep' = "off" /\ attempt' = 0 /\ lang' = 1
  /\ FreshStream
  /\ disk' = [f \in Files |-> Absent]

\* A file is opened for writing; whatever it held is gone.
Open(fs)   == disk' = [f \in Files |-> IF f \in fs THEN [job |-> attempt', whole |-> FALSE] ELSE disk[f]]
Finished(f) == [disk EXCEPT ![f] = [job |-> attempt, whole |-> TRUE]]

Failed == prep' = "failed" /\ lang' = 1 /\ FreshStream /\ UNCHANGED << attempt, disk >>

(***************************************************************************)
(* Starting.                                                               *)
(***************************************************************************)
Startable == prep \in {"off", "failed", "done"} /\ attempt < MaxJobs /\ attempt' = attempt + 1

\* No token, or a language that cannot be read with it.
Refused ==
  /\ Startable
  /\ prep' = "failed"
  /\ lang' = 1 /\ FreshStream
  /\ UNCHANGED disk

\* The first language begins: _open_array maps its arrays in full size,
\* filled with zeros.
StartJob ==
  /\ Startable
  /\ prep' = "stream"
  /\ lang' = 1 /\ FreshStream
  /\ Open({"micro"})

(***************************************************************************)
(* A row of the stream.                                                    *)
(***************************************************************************)
\* The names a row gives its repository; "" where it gives none.
Names == [stars : Repos \cup {""}, forks : Repos \cup {""}]

\* repository_identity: the first name there is.
repository_identity(names) == IF names.stars # "" THEN names.stars ELSE names.forks

\* Mutant of assignment: the file is assigned by the name of its last owner.
assignment_by_fork(names) == IF names.forks \in Held THEN "micro" ELSE "train"

assignment(names) == IF repository_identity(names) \in Held THEN "micro" ELSE "train"

Document(names, len) ==
  [i \in 1 .. len |-> [repo |-> repository_identity(names), row |-> rows + 1, nr |-> i]]

\* The packer with a document added; the blocks are still in pending.
add_document(p, doc) ==
  IF doc = << >> THEN p
  ELSE [pending |-> p.pending \o (IF p.documents > 0 THEN << Eos >> ELSE << >>) \o doc,
        documents |-> p.documents + 1]

BlocksOf(tokens) ==
  [i \in 1 .. Len(tokens) \div BlockSize |-> SubSeq(tokens, (i - 1) * BlockSize + 1, i * BlockSize)]
RestOf(tokens) == SubSeq(tokens, (Len(tokens) \div BlockSize) * BlockSize + 1, Len(tokens))

\* Mutant of _write_blocks: the blocks are not cut at the end of the array.
_write_blocks_all(array, blocks, limit) == array \o blocks

\* As many of the blocks as the array has room for.
_write_blocks(array, blocks, limit) ==
  array \o SubSeq(blocks, 1, IF Len(blocks) < limit - Len(array) THEN Len(blocks)
                             ELSE limit - Len(array))

\* The loop stops at the file that fills the second of the arrays.
Reading == prep = "stream" /\ rows < MaxRows /\ ~(Full("train") /\ Full("micro"))

\* Rows without content, rejected by their size, their repository or the
\* source filter, or of a side that is full already.
Reject ==
  /\ Reading
  /\ rows' = rows + 1
  /\ UNCHANGED << prep, attempt, lang, packer, written, records, taken, disk >>

Accept(names, len) ==
  LET side   == assignment(names)
      doc    == Document(names, len)
      packed == add_document(packer[side], doc)
  IN
  /\ Reading
  /\ repository_identity(names) # "" /\ len > 0 /\ ~Full(side)
  /\ rows' = rows + 1
  /\ packer' = [packer EXCEPT ![side] = [packed EXCEPT !.pending = RestOf(packed.pending)]]
  /\ written' = [written EXCEPT ![side] =
                   _write_blocks(@, BlocksOf(packed.pending), Limit(side))]
  /\ records' = IF side = "micro" THEN Append(records, doc) ELSE records
  /\ taken' = [taken EXCEPT ![side] = Append(@, doc)]
  /\ UNCHANGED << prep, attempt, lang, disk >>

\* The loop ends when both arrays are full, or with the stream.  A language
\* that did not fill its arrays ends the job; so does one without a file for
\* training, whose efficiency is a division by zero.
EndStream ==
  /\ prep = "stream"
  /\ IF Full("train") /\ Full("micro")
     THEN IF lang < Len(Languages)
          THEN /\ lang' = lang + 1
               /\ FreshStream
               /\ UNCHANGED << prep, attempt, disk >>
          ELSE /\ prep' = "combine"
               /\ disk' = Finished("micro")
               /\ UNCHANGED << attempt, lang, stream >>
     ELSE Failed

(***************************************************************************)
(* After the last stream.                                                  *)
(***************************************************************************)
\* _combine_training_blocks opens the array; the blocks follow, shuffled.
Combine ==
  /\ prep = "combine"
  /\ IF disk["train_blocks"].job # attempt
     THEN UNCHANGED << prep, attempt, lang, stream >> /\ Open({"train_blocks"})
     ELSE /\ disk' = Finished("train_blocks")
          /\ prep' = "general"
          /\ lang' = 1 /\ FreshStream /\ UNCHANGED attempt

\* _prepare_general_micro; the stream may be too short.
General ==
  /\ prep = "general"
  /\ IF disk["general"].job # attempt
     THEN UNCHANGED << prep, attempt, lang, stream >> /\ Open({"general"})
     ELSE \/ disk' = Finished("general") /\ prep' = "records" /\ UNCHANGED << attempt, lang, stream >>
          \/ Failed

\* The arrays of the languages are deleted, then the records are written.
WriteRecords ==
  /\ prep = "records"
  /\ disk' = Finished("validation_records")
  /\ prep' = "marker"
  /\ UNCHANGED << attempt, lang, stream >>

\* Mutant of WriteMarker: the metadata is written before the blocks are mixed.
WriteMarkerEarly ==
  /\ \/ prep = "marker" /\ prep' = "stamp"
     \/ prep = "combine" /\ disk["train_blocks"].job # attempt /\ UNCHANGED prep
  /\ disk' = Finished("metadata")
  /\ UNCHANGED << attempt, lang, stream >>

\* corpus_metadata.json; the Kaggle job then writes it again with the commit.
WriteMarker ==
  /\ prep = "marker"
  /\ disk' = Finished("metadata")
  /\ prep' = "stamp"
  /\ UNCHANGED << attempt, lang, stream >>

Stamp ==
  /\ prep = "stamp"
  /\ prep' = "done"
  /\ UNCHANGED << attempt, lang, stream, disk >>

\* The session is killed.  A text file is emptied before it is written, so a
\* kill in between leaves it torn: also the metadata, when it is stamped.
Halt ==
  /\ prep \notin {"off", "failed", "done"}
  /\ prep' = "failed"
  /\ lang' = 1 /\ FreshStream /\ UNCHANGED attempt
  /\ \/ UNCHANGED disk
     \/ prep = "records" /\ Open({"validation_records"})
     \/ prep \in {"marker", "stamp"} /\ Open({"metadata"})

CorpusNext ==
  \/ Refused \/ StartJob \/ Reject \/ EndStream \/ Combine \/ General \/ WriteRecords
  \/ WriteMarker \/ Stamp \/ Halt
  \/ \E names \in Names, len \in Lengths : Accept(names, len)

-----------------------------------------------------------------------------
(***************************************************************************)
(* Properties.                                                             *)
(***************************************************************************)

\* What a packer is specified to produce: its documents one after the other,
\* with an end of text between two.
Joined(docs) ==
  FoldLeft(LAMBDA text, doc : IF text = << >> THEN doc ELSE text \o << Eos >> \o doc,
           << >>, docs)

\* Whatever the lengths of the files and wherever the arrays end, the blocks
\* of a language are the beginning of its documents put together, nothing
\* skipped or repeated; no block holds a repository of the other side; every
\* recorded validation document but the last is in the validation set as a
\* whole (add_document, _write_blocks, _prepare_language).
BlocksArePrefix ==
  \A s \in Sides :
    LET tokens == FlattenSeq(written[s]) IN
    /\ IsPrefix(tokens, Joined(taken[s]))
    /\ \A i \in DOMAIN tokens : tokens[i] # Eos => ((tokens[i].repo \in Held) <=> (s = "micro"))
    /\ Full(s) /\ taken[s] # << >> => Len(Joined(Front(taken[s]))) <= Len(tokens)

\* Wherever the jobs are killed, a corpus_metadata.json, whole or torn, of this
\* job or of an earlier one, stands beside the files of its own job, all of them
\* whole, but for those that a later job has opened since; and after a job that
\* came to its end there are only its own.  The trainers only look whether the
\* file exists, and no job deletes it: old metadata beside what a later job left
\* behind is the one way in which they get a corpus that is not of one piece
\* (prepare_corpus writes it after everything else).
MarkerMeansWhole ==
  /\ disk["metadata"].job > 0 =>
       \A f \in Files \ {"metadata"} :
         \/ disk[f] = [job |-> disk["metadata"].job, whole |-> TRUE]
         \/ disk[f].job > disk["metadata"].job
  /\ prep = "done" => \A f \in Files : disk[f] = [job |-> attempt, whole |-> TRUE]
=============================================================================

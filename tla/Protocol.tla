------------------------------ MODULE Protocol ------------------------------
(***************************************************************************)
(* The event protocol of the model (tc/protocol): editor events are folded *)
(* into a state (replay.py), which is written as the text of a prompt and  *)
(* read back from it (serialize.py).                                       *)
(*                                                                         *)
(* A text is a sequence of glyphs.  Glyphs matter by their width in UTF-8  *)
(* and by what the serialization makes of them: the newline, the backslash *)
(* and the three lines that end a block, each of which begins with "<".    *)
(***************************************************************************)
EXTENDS Integers, SequencesExt

CONSTANTS
  Paths,       \* paths of files
  Inserted,    \* bound: texts that are inserted
  Snapshots,   \* bound: texts of snapshots
  Messages,    \* bound: diagnostics, retrieved contexts
  Completions, \* ids of completions
  MaxBytes,    \* bound: bytes of a file
  MaxEvents,   \* bound: events of a stream
  NoPath

VARIABLES
  files, open_files, cursors, diagnostics, retrieved, completions, last_predict,
  events   \* events applied so far; -1 when replay has raised

editor == << files, open_files, cursors, diagnostics, retrieved, completions, last_predict >>
protocolVars == << editor, events >>

(***************************************************************************)
(* Bytes.                                                                  *)
(***************************************************************************)

Glyphs   == {"a", "wide", "backslash", "newline", "</S>", "</D>", "</X>"}
Width(g) == CASE g = "wide" -> 2 [] g \in {"</S>", "</D>", "</X>"} -> 4 [] OTHER -> 1

byte_len(text) == FoldLeft(LAMBDA sum, g : sum + Width(g), 0, text)

\* The offsets between two glyphs, with the number of glyphs before each.
Boundary(text, offset) ==
  {n \in 0 .. Len(text) : byte_len(SubSeq(text, 1, n)) = offset}
check_boundary(text, offset) == Boundary(text, offset) # {}

CanSplice(text, start, end) ==
  start <= end /\ check_boundary(text, start) /\ check_boundary(text, end)
byte_splice(text, start, end, new) ==
  LET before == CHOOSE n \in Boundary(text, start) : TRUE
      after  == CHOOSE n \in Boundary(text, end) : TRUE
  IN SubSeq(text, 1, before) \o new \o SubSeq(text, after + 1, Len(text))

(***************************************************************************)
(* Replay.                                                                 *)
(***************************************************************************)

Entry   == [start : 0 .. MaxBytes, end : 0 .. MaxBytes, message : Messages]
Empty   == [p \in {} |-> 0]
Put(f, k, v) == [x \in DOMAIN f \cup {k} |-> IF x = k THEN v ELSE f[x]]
Known(p) == p \in DOMAIN files

ProtocolTypeOK ==
  /\ DOMAIN files \subseteq Paths
  /\ \A p \in DOMAIN files : files[p] \in Seq(Glyphs) /\ byte_len(files[p]) <= MaxBytes
  /\ ToSet(open_files) \subseteq DOMAIN files /\ IsInjective(open_files)
  /\ DOMAIN cursors \cup DOMAIN diagnostics \subseteq DOMAIN files
  /\ \A p \in DOMAIN diagnostics : ToSet(diagnostics[p]) \subseteq Entry
  /\ last_predict.path \in {NoPath} \cup DOMAIN files
  /\ events \in -1 .. MaxEvents

ProtocolInit ==
  /\ files = Empty /\ open_files = << >> /\ cursors = Empty /\ diagnostics = Empty
  /\ retrieved = << >> /\ completions = Empty
  /\ last_predict = [path |-> NoPath, offset |-> 0]
  /\ events = 0

Opened(p) == IF p \in ToSet(open_files) THEN open_files ELSE Append(open_files, p)

OpenFile(p) ==
  /\ files' = IF Known(p) THEN files ELSE Put(files, p, << >>)
  /\ open_files' = Opened(p)
  /\ UNCHANGED << cursors, diagnostics, retrieved, completions, last_predict >>

\* The content of a closed file stays, and so do its cursor and diagnostics.
CloseFile(p) ==
  /\ open_files' = RemoveFirst(open_files, p)
  /\ UNCHANGED << files, cursors, diagnostics, retrieved, completions, last_predict >>

Snapshot(p, text) ==
  /\ files' = Put(files, p, text)
  /\ open_files' = Opened(p)
  /\ UNCHANGED << cursors, diagnostics, retrieved, completions, last_predict >>

\* INSERT is a splice of no bytes, DELETE one with no text.  Offsets held
\* elsewhere are not moved.
Splice(p, start, end, text) ==
  /\ Known(p) /\ CanSplice(files[p], start, end)
  /\ LET new == byte_splice(files[p], start, end, text)
     IN byte_len(new) <= MaxBytes /\ files' = [files EXCEPT ![p] = new]
  /\ UNCHANGED << open_files, cursors, diagnostics, retrieved, completions, last_predict >>

Cursor(p, offset) ==
  /\ Known(p) /\ check_boundary(files[p], offset)
  /\ cursors' = Put(cursors, p, offset)
  /\ UNCHANGED << files, open_files, diagnostics, retrieved, completions, last_predict >>

Diagnostics(p, entries) ==
  /\ Known(p)
  /\ \A i \in DOMAIN entries : CanSplice(files[p], entries[i].start, entries[i].end)
  /\ diagnostics' = Put(diagnostics, p, entries)
  /\ UNCHANGED << files, open_files, cursors, retrieved, completions, last_predict >>

Retrieve(p, content) ==
  /\ retrieved' = Append(retrieved, [path |-> p, content |-> content])
  /\ UNCHANGED << files, open_files, cursors, diagnostics, completions, last_predict >>

Complete(id, status) ==
  /\ completions' = Put(completions, id, status)
  /\ UNCHANGED << files, open_files, cursors, diagnostics, retrieved, last_predict >>

Predict(p, offset) ==
  /\ Known(p) /\ check_boundary(files[p], offset)
  /\ last_predict' = [path |-> p, offset |-> offset]
  /\ UNCHANGED << files, open_files, cursors, diagnostics, retrieved, completions >>

apply_event ==
  \/ \E p \in Paths :
       \/ OpenFile(p) \/ CloseFile(p)
       \/ \E text \in Snapshots : Snapshot(p, text)
       \/ \E start, end \in 0 .. MaxBytes, text \in Inserted : Splice(p, start, end, text)
       \/ \E offset \in 0 .. MaxBytes : Cursor(p, offset) \/ Predict(p, offset)
       \/ \E offset \in 0 .. MaxBytes, message \in Messages :
            \/ Diagnostics(p, << >>)
            \/ Diagnostics(p, << [start |-> 0, end |-> offset, message |-> message] >>)
       \/ \E content \in Messages : Retrieve(p, content)
  \/ \E id \in Completions, status \in {"accepted", "partial", "rejected"} : Complete(id, status)

\* An event out of sequence, or one that does not apply, ends the replay.
ReplayEvent ==
  /\ events \in 0 .. MaxEvents - 1
  /\ \/ apply_event /\ events' = events + 1
     \/ events' = -1 /\ UNCHANGED editor

(***************************************************************************)
(* Serialization.  A line is a tag with its fields or a line of text.      *)
(***************************************************************************)

Text(t) == [tag |-> "text", text |-> t]
End(block) == Text(<< block >>)

split(text) ==
  FoldLeft(LAMBDA ls, g : IF g = "newline" THEN Append(ls, << >>)
                          ELSE [ls EXCEPT ![Len(ls)] = Append(@, g)],
           << << >> >>, text)
join(ls) ==
  FoldLeft(LAMBDA text, l : text \o << "newline" >> \o l, Head(ls), Tail(ls))

Marked(l) == l # << >> /\ Head(l) \in {"</S>", "</D>", "</X>"}

\* Mutant of _escape: a line that begins with a backslash is left as it is.
_escape_tags(l) == IF Marked(l) THEN << "backslash" >> \o l ELSE l

_escape(l) ==
  IF Marked(l) \/ (l # << >> /\ Head(l) = "backslash") THEN << "backslash" >> \o l ELSE l
_unescape(l) == IF l # << >> /\ Head(l) = "backslash" THEN Tail(l) ELSE l

Block(text, end) == [i \in DOMAIN split(text) |-> Text(_escape(split(text)[i]))] \o << End(end) >>

Flat(s) == FoldLeft(LAMBDA all, part : all \o part, << >>, s)

serialize_file(p) ==
  << [tag |-> "F", path |-> p], [tag |-> "S"] >> \o Block(files[p], "</S>")
  \o (IF p \in DOMAIN cursors THEN << [tag |-> "C", offset |-> cursors[p]] >> ELSE << >>)
  \o (IF p \notin DOMAIN diagnostics THEN << >>
      ELSE Flat([i \in DOMAIN diagnostics[p] |->
             << [tag |-> "D", start |-> diagnostics[p][i].start, end |-> diagnostics[p][i].end] >>
             \o Block(diagnostics[p][i].message, "</D>")]))
  \o << [tag |-> "/F"] >>

serialize_state ==
  LET ids == SetToSeq(DOMAIN completions) IN
  Flat([i \in DOMAIN open_files |-> serialize_file(open_files[i])])
  \o Flat([i \in DOMAIN retrieved |->
       << [tag |-> "X", path |-> retrieved[i].path] >> \o Block(retrieved[i].content, "</X>")])
  \o [i \in DOMAIN ids |-> [tag |-> "A", id |-> ids[i], status |-> completions[ids[i]]]]
  \o << [tag |-> "P", predict |-> last_predict] >>

(***************************************************************************)
(* The parser: one turn of its loop over the lines.  block is the tag line *)
(* whose block is being read, buf what was read of it; no tag line stands  *)
(* in a block.  After the line of the request nothing may come (ended).    *)
(***************************************************************************)

NoBlock == [tag |-> "none"]
Fresh ==
  [files |-> Empty, open_files |-> << >>, cursors |-> Empty, diagnostics |-> Empty,
   retrieved |-> << >>, completions |-> Empty,
   last_predict |-> [path |-> NoPath, offset |-> 0],
   current |-> NoPath, block |-> NoBlock, buf |-> << >>, ended |-> FALSE,
   error |-> FALSE]

EndOf(block) == End(CASE block.tag = "S" -> "</S>" [] block.tag = "D" -> "</D>" [] OTHER -> "</X>")

take_block(s) ==
  LET text == join([i \in DOMAIN s.buf |-> _unescape(s.buf[i])])
      done == [s EXCEPT !.block = NoBlock, !.buf = << >>]
      old  == IF s.current \in DOMAIN s.diagnostics THEN s.diagnostics[s.current] ELSE << >>
      entry == [start |-> s.block.start, end |-> s.block.end, message |-> text]
  IN CASE s.block.tag = "S" -> [done EXCEPT !.files = Put(@, s.current, text)]
       [] s.block.tag = "D" -> [done EXCEPT !.diagnostics = Put(@, s.current, Append(old, entry))]
       [] OTHER -> [done EXCEPT !.retrieved = Append(@, [path |-> s.block.path, content |-> text])]

parse_line(s, line) ==
  LET inside == s.current # NoPath
      bad    == [s EXCEPT !.error = TRUE]
  IN
  IF s.ended THEN bad ELSE
  IF s.block # NoBlock
  THEN IF line = EndOf(s.block) THEN take_block(s)
       ELSE IF line.tag = "text" THEN [s EXCEPT !.buf = Append(@, line.text)] ELSE bad
  ELSE
  CASE line.tag = "F" ->
         [s EXCEPT !.current = line.path, !.files = Put(@, line.path, << >>),
                   !.open_files = IF line.path \in ToSet(@) THEN @ ELSE Append(@, line.path)]
    [] line.tag = "/F" -> [s EXCEPT !.current = NoPath]
    [] line.tag = "S" -> IF inside THEN [s EXCEPT !.block = line] ELSE bad
    [] line.tag = "D" -> IF inside THEN [s EXCEPT !.block = line] ELSE bad
    [] line.tag = "X" -> [s EXCEPT !.block = line]
    [] line.tag = "C" -> IF inside THEN [s EXCEPT !.cursors = Put(@, s.current, line.offset)] ELSE bad
    [] line.tag = "A" -> [s EXCEPT !.completions = Put(@, line.id, line.status)]
    [] line.tag = "P" -> [s EXCEPT !.last_predict = line.predict, !.ended = TRUE]
    [] OTHER -> IF line = Text(<< >>) THEN s ELSE bad

parse_serialized(ls) ==
  LET end == FoldLeft(parse_line, Fresh, ls) IN
  IF end.block = NoBlock THEN end ELSE [end EXCEPT !.error = TRUE]

-----------------------------------------------------------------------------
\* serialize.py: the text is round-trippable.  Whatever the texts contain, what
\* is read back is the state of the open files, the contexts, the completions
\* and the request; nothing else of the state is written.
Shown(f) == [p \in DOMAIN f \cap ToSet(open_files) |-> f[p]]
RoundTrip ==
  LET back == parse_serialized(serialize_state)
      told == Shown(diagnostics)
  IN
  /\ ~back.error
  /\ back.files = Shown(files) /\ back.open_files = open_files /\ back.cursors = Shown(cursors)
  /\ back.diagnostics = [p \in {q \in DOMAIN told : told[q] # << >>} |-> told[p]]
  /\ back.retrieved = retrieved /\ back.completions = completions
  /\ back.last_predict = last_predict
=============================================================================

------------------------------ MODULE Examples ------------------------------
(***************************************************************************)
(* Training examples cut out of a source file (tc/data): holes to be       *)
(* filled (fim.py), synthetic next edits (static_edits.py) and the states  *)
(* between two commits (git_edits.py).  Random choices are arbitrary ones. *)
(*                                                                         *)
(* A source is a sequence of glyphs, its bytes are pairs of the glyph and  *)
(* the position in it.                                                     *)
(***************************************************************************)
EXTENDS Integers, SequencesExt

CONSTANT Context   \* lines of context of a diff (-U3 in the code)

\* The items of s that are in keep, in their order.
Select(s, keep) == FoldLeft(LAMBDA kept, x : IF x \in keep THEN Append(kept, x) ELSE kept, << >>, s)

(***************************************************************************)
(* Holes.  A span is << first byte, byte after the last >>, from 0.        *)
(***************************************************************************)

SourceGlyphs == {"a", "wide", "newline"}
Bytes(text) ==
  FoldLeft(LAMBDA raw, g : raw \o IF g = "wide" THEN << << g, 1 >>, << g, 2 >> >>
                                  ELSE << << g, 1 >> >>, << >>, text)
Slice(raw, s, e) == SubSeq(raw, s + 1, e)
Continues(raw, i) == raw[i + 1][2] > 1

\* Decoding fails when a glyph is cut.
_decode(raw)  == LET leads == Select(raw, SourceGlyphs \X {1})
                 IN [i \in DOMAIN leads |-> leads[i][1]]
Decodes(raw)  == Bytes(_decode(raw)) = raw

\* What the fallbacks find: the words, and the lines that are not blank.
Runs(raw, inside(_)) ==
  {run \in (0 .. Len(raw)) \X (0 .. Len(raw)) :
     /\ run[1] < run[2] /\ \A i \in run[1] .. run[2] - 1 : inside(raw[i + 1])
     /\ run[1] > 0 => ~inside(raw[run[1]])
     /\ run[2] < Len(raw) => ~inside(raw[run[2] + 1])}
_collect_spans(raw, hole_type) ==
  CASE hole_type = "identifier" -> Runs(raw, LAMBDA b : b[1] = "a")
    [] hole_type \in {"statement", "partial_statement"} -> Runs(raw, LAMBDA b : b[1] # "newline")
    [] OTHER -> {}

HoleTypes == {"identifier", "statement", "partial_statement", "span"}
Raises == << -1, -1 >>

\* The nearest offset at or before i, down to s, that does not cut a glyph.
Back(raw, i, s) == Max({k \in s .. i : k = s \/ ~Continues(raw, k)})

\* The nearest one at or after i.
Onward(raw, i) == Min({k \in i .. Len(raw) : k = Len(raw) \/ ~Continues(raw, k)})

\* A part of a statement: 30, 50 or 70 per cent of its bytes, at least one.  A
\* statement of one byte that ends the file is read beyond its end.
Partial(raw, span, tenths) ==
  LET cut == span[1] + Max({1, ((span[2] - span[1]) * tenths) \div 10}) IN
  IF cut = Len(raw) THEN Raises ELSE << span[1], Back(raw, cut, span[1]) >>

AnySpan(raw) ==
  UNION {LET start == Back(raw, at, 0) IN
         {<< start, Onward(raw, start + length) >> : length \in 1 .. Min({32, Len(raw) - start})} :
         at \in 0 .. Len(raw) - 1}

\* The holes make_hole may choose.
make_hole(raw, hole_type) ==
  LET found == _collect_spans(raw, hole_type) IN
  IF hole_type = "span" \/ found = {} THEN AnySpan(raw)
  ELSE IF hole_type = "partial_statement"
       THEN {Partial(raw, span, tenths) : span \in found, tenths \in {3, 5, 7}}
       ELSE found

(***************************************************************************)
(* Next edits: recent edits are applied around a region that stays.        *)
(***************************************************************************)

_mutate_region(bytes) == bytes \o << << "a", 1 >> >>

Apart(x, y) == x[2] <= y[1] \/ x[1] >= y[2]
Recent(region, tries) ==
  FoldLeft(LAMBDA kept, t : IF Apart(t, region) /\ \A i \in DOMAIN kept : Apart(t, kept[i])
                            THEN Append(kept, t) ELSE kept, << >>, tries)

\* The spans by where they start.
InOrder(spans) ==
  CHOOSE s \in [DOMAIN spans -> ToSet(spans)] :
    /\ \A x \in ToSet(spans) : x \in ToSet(s)
    /\ \A i, j \in DOMAIN spans : i < j => s[i][1] < s[j][1]

_apply_non_overlapping(raw, recent) ==
  LET ordered == InOrder(recent)
      step(s, span) == [out |-> s.out \o Slice(raw, s.cursor, span[1])
                                \o _mutate_region(Slice(raw, span[1], span[2])),
                        cursor |-> span[2]]
      end == FoldLeft(step, [out |-> << >>, cursor |-> 0], ordered)
  IN end.out \o Slice(raw, end.cursor, Len(raw))

\* Mutant of shift: edits behind the region are counted as well.
shift_all(recent, region) == Len(recent)

\* Every edit makes its span one byte longer here.
shift(recent, region) == Len(Select(recent, {span \in ToSet(recent) : span[1] < region[1]}))

\* current[new_rs:new_re] is the region, which the code asserts.
make_next_edit(raw, region, tries) ==
  LET recent == Recent(region, tries)
      start  == region[1] + shift(recent, region)
  IN [current |-> _apply_non_overlapping(raw, recent),
      start |-> start, end |-> start + region[2] - region[1]]

(***************************************************************************)
(* Commits.  A script is the whole edit of a file, line by line: kept " ", *)
(* removed "-" or added "+", the text, and whether a newline ends the      *)
(* line.  The text "page" has a form feed in it.                           *)
(***************************************************************************)

Side(script, kind) ==
  LET kept == Select(script, {l \in ToSet(script) : l[1] \in {" ", kind}})
  IN [i \in DOMAIN kept |-> << kept[i][2], kept[i][3] >>]

\* splitlines also ends a line at a form feed, git does not.
splitlines(file) ==
  FoldLeft(LAMBDA ls, l : ls \o IF l[1] = "page" THEN << << "head", TRUE >>, << "tail", l[2] >> >>
                                ELSE << l >>, << >>, file)

\* git diff: the changed lines and Context lines around each, in maximal runs.
\* A hunk without old lines is numbered by the line before it.  Every line is
\* shown with a newline; a "\" line says that the one before it has none.
Shown(script) ==
  {i \in DOMAIN script : \E j \in DOMAIN script : script[j][1] # " " /\ j - i \in -Context .. Context}
Listed(ls) ==
  FoldLeft(LAMBDA out, l : out \o IF l[3] THEN << l >> ELSE << l, << "\\", "", TRUE >> >>, << >>, ls)
diff(script) ==
  LET shown   == Shown(script)
      firsts  == Select([i \in DOMAIN script |-> i], {i \in shown : i - 1 \notin shown})
      last(i) == Min({j \in shown : j >= i /\ j + 1 \notin shown})
      hunk(i) ==
        LET ls == SubSeq(script, i, last(i))
            before == Len(Side(SubSeq(script, 1, i - 1), "-"))
        IN [lines |-> Listed(ls),
            old_start |-> IF Side(ls, "-") = << >> THEN before ELSE before + 1]
  IN [k \in DOMAIN firsts |-> hunk(firsts[k])]

\* list.insert: a negative index counts from the end.
insert(ls, at, line) ==
  LET i == IF at < 0 THEN Max({0, Len(ls) + at}) ELSE Min({at, Len(ls)})
  IN SubSeq(ls, 1, i) \o << line >> \o SubSeq(ls, i + 1, Len(ls))

\* A line that is not there, or of a kind the code does not know, raises.
Walk(s, l) ==
  LET line == << l[2], TRUE >>
      fits == s.at >= 0 /\ s.at < Len(s.lines) /\ s.lines[s.at + 1] = line IN
  CASE l[1] = "+" -> [s EXCEPT !.lines = insert(@, s.at, line), !.at = @ + 1]
    [] l[1] = " " -> [s EXCEPT !.at = @ + 1, !.error = @ \/ ~fits]
    [] l[1] = "-" -> [s EXCEPT !.lines = IF fits THEN RemoveAt(@, s.at + 1) ELSE @,
                               !.error = @ \/ ~fits]
    [] OTHER      -> [s EXCEPT !.error = TRUE]

Count(ls, kind) == Len(Select(ls, {l \in ToSet(ls) : l[1] = kind}))

\* Mutant of Offset: lines removed by earlier hunks are not taken off.
Offset_added(offset, ls) == offset + Count(ls, "+")

Offset(offset, ls) == offset + Count(ls, "+") - Count(ls, "-")

\* The lines after the last hunk, and whether a line raised.
_intermediates(parent, hunks) ==
  LET step(s, h) ==
        LET walked == FoldLeft(Walk, [s EXCEPT !.at = h.old_start - 1 + s.offset], h.lines)
        IN [walked EXCEPT !.offset = Offset(s.offset, h.lines)]
  IN FoldLeft(step, [lines |-> parent, at |-> 0, offset |-> 0, error |-> FALSE], hunks)
=============================================================================

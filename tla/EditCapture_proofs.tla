------------------------- MODULE EditCapture_proofs -------------------------
(***************************************************************************)
(* Proofs about EditCapture: the types, that what the events rebuild has   *)
(* the rows of the buffer, and that it is the buffer when every change is  *)
(* reported before the next one is made.                                   *)
(***************************************************************************)
EXTENDS EditCapture, Basics_proofs

(***************************************************************************)
(* The inductive invariant.                                                *)
(***************************************************************************)

Spans == {n \in Note : n.first <= n.last /\ n.first <= n.new_last}

\* No two buffers that are still valid have one file name.
EditorInv ==
  /\ inst \in Instances
  /\ loaded \subseteq Buffers /\ wiped \subseteq Buffers \ loaded /\ excluded \subseteq Buffers
  /\ live \in [Buffers -> Contents \cup {<< >>}]
  /\ \A b \in Buffers : b \in loaded <=> live[b] # << >>
  /\ name \in [Buffers -> Names]
  /\ \A b, c \in Buffers \ wiped : name[b] = name[c] => b = c \/ name[b] = NoName
  /\ notes \in [Buffers -> Seq(Spans)] /\ \A b \in Buffers : Len(notes[b]) <= MaxLag

\* The rows of the newest change are rows of the buffer, or the shadow has as
\* many rows as the buffer.  Without it a count that agrees would say nothing.
Confirmable(b) ==
  Last(notes[b]).first <= Len(live[b]) \/ Len(shadows[b]) = Len(live[b])

PluginInv ==
  /\ shadows \in [Buffers -> Contents \cup {NoLines}]
  /\ delta_count \in [Buffers -> Counts]
  /\ attached \subseteq loaded /\ started \in BOOLEAN /\ paused \in BOOLEAN
  /\ uploads \in [Slots -> Upload \cup {NoUpload}]
  /\ \A b \in Buffers : notes[b] # << >> =>
       b \in attached /\ (b \notin excluded /\ shadows[b] # NoLines => Confirmable(b))

\* The replay of a chained buffer has the rows of its shadow, and the shadow
\* those of the buffer unless a change is still to be reported.
Counted(b) ==
  /\ b \notin loaded => replay[name[b]] = << Blank >>
  /\ b \in loaded =>
       /\ shadows[b] # NoLines
       /\ replay[name[b]] = Corrupt \/ (/\ replay[name[b]] \in Contents
                                        /\ Len(replay[name[b]]) = Len(shadows[b]))
       /\ notes[b] = << >> => Len(shadows[b]) = Len(live[b])

\* The buffer is its shadow with the change that is still to be reported.
OneChange(b) ==
  \E new \in Contents \cup {<< >>} :
    /\ notes[b][1].last <= Len(shadows[b])
    /\ notes[b][1].new_last = notes[b][1].first + Len(new)
    /\ live[b] = splice_lines(shadows[b], notes[b][1].first, notes[b][1].last, new)

\* When changes come one by one, the replay is the shadow.
Traced(b) ==
  b \in loaded =>
    /\ replay[name[b]] = shadows[b]
    /\ notes[b] = << >> => shadows[b] = live[b]
    /\ notes[b] # << >> => OneChange(b)

Chained(b) == name[b] \in Paths /\ Counted(b) /\ (MaxLag = 1 => Traced(b))

ObserverInv ==
  /\ replay \in [Paths -> Contents \cup {<< >>, NoLines, Corrupt}]
  /\ chained \subseteq Buffers \ wiped
  /\ \A b \in chained : Chained(b)

CaptureInv == EditorInv /\ PluginInv /\ ObserverInv

-----------------------------------------------------------------------------
(***************************************************************************)
(* Lines.                                                                  *)
(***************************************************************************)

\* What the assumption on the settings says of the ones of this behaviour.
LEMMA SettingsFacts ==
  ASSUME inst \in Instances
  PROVE  /\ MaxLines \in Nat \ {0} /\ MaxLag \in Nat \ {0} /\ AnchorEvery \in Nat
         /\ Blank \in Lines /\ NoLines \notin Seq(Lines) /\ Corrupt \notin Seq(Lines)
         /\ inst.names \subseteq Paths
  BY InstancesOK DEF MaxLines, MaxLag, AnchorEvery, Lines

\* The settings never change.
LEMMA SameSettings ==
  ASSUME inst' = inst
  PROVE  /\ Contents' = Contents /\ Counts' = Counts /\ Upload' = Upload
         /\ MaxLag' = MaxLag /\ Lines' = Lines /\ MaxLines' = MaxLines
  BY DEF Contents, Counts, Upload, MaxLag, Lines, MaxLines, AnchorEvery

\* A buffer is a sequence of one line or more.
LEMMA ContentsFacts ==
  ASSUME inst \in Instances, NEW c \in Contents
  PROVE  /\ c \in Seq(Lines) /\ Len(c) \in 1 .. MaxLines /\ c # << >>
         /\ c # NoLines /\ c # Corrupt
<1>1. PICK n \in 1 .. MaxLines : c \in [1 .. n -> Lines]
  BY DEF Contents
<1>2. c \in Seq(Lines) /\ Len(c) = n
  BY <1>1, SettingsFacts
<1>3. QED
  BY <1>2, SettingsFacts

\* Sequences of lines that are not too long are buffers.
LEMMA ContentsIntro ==
  ASSUME NEW c \in Seq(Lines), Len(c) \in 1 .. MaxLines
  PROVE  c \in Contents
<1>1. c \in [1 .. Len(c) -> Lines]
  OBVIOUS
<1>2. QED
  BY <1>1 DEF Contents

\* The buffer of an empty file is one blank line.
LEMMA BlankBuffer ==
  ASSUME inst \in Instances
  PROVE  << Blank >> \in Contents
<1>1. << Blank >> \in Seq(Lines) /\ Len(<< Blank >>) = 1 /\ 1 \in 1 .. MaxLines
  BY SettingsFacts
<1>2. QED
  BY Zenon, <1>1, ContentsIntro

\* How many rows a slice has when its ends may be beyond the buffer.
LEMMA SliceLength ==
  ASSUME NEW s \in Seq(Lines), NEW f \in Nat, NEW l \in Nat
  PROVE  /\ Slice(s, f, l) \in Seq(Lines)
         /\ Len(Slice(s, f, l)) =
              IF f < AtMost(l, Len(s)) THEN AtMost(l, Len(s)) - f ELSE 0
<1> DEFINE e == AtMost(l, Len(s))
<1>1. Len(s) \in Nat
  BY LenProperties
<1>2. e \in Nat /\ e <= Len(s)
  BY <1>1 DEF AtMost
<1>s. Slice(s, f, l) = SubSeq(s, f + 1, e)
  BY DEF Slice
<1>g. SUFFICES /\ Slice(s, f, l) \in Seq(Lines)
               /\ Len(Slice(s, f, l)) = IF f < e THEN e - f ELSE 0
  BY DEF e
<1> HIDE DEF e
<1>3. CASE f < e
  <2>1. SubSeq(s, f + 1, e) \in Seq(Lines) /\ Len(SubSeq(s, f + 1, e)) = e - f
    BY <1>2, <1>3, CutRows
  <2>2. QED
    BY <2>1, <1>3, <1>s
<1>4. CASE ~ (f < e)
  <2>1. SubSeq(s, f + 1, e) = << >>
    BY <1>1, <1>2, <1>4
  <2>2. << >> \in Seq(Lines) /\ Len(<< >>) = 0
    OBVIOUS
  <2>3. Slice(s, f, l) = << >>
    BY <2>1, <1>s
  <2>4. QED
    BY ONLY <2>2, <2>3, <1>4
<1>5. QED
  BY <1>3, <1>4

\* How many rows a splice has when its ends may be beyond the buffer.
LEMMA SpliceLength ==
  ASSUME NEW s \in Seq(Lines), NEW f \in Nat, NEW l \in Nat, NEW new \in Seq(Lines)
  PROVE  /\ splice_lines(s, f, l, new) \in Seq(Lines)
         /\ Len(splice_lines(s, f, l, new)) =
              AtMost(f, Len(s)) + Len(new) + (IF l < Len(s) THEN Len(s) - l ELSE 0)
<1> DEFINE a == Slice(s, 0, f)
           z == Slice(s, l, Len(s))
<1>1. Len(s) \in Nat /\ Len(new) \in Nat /\ 0 \in Nat
  BY LenProperties
<1>2. a \in Seq(Lines) /\ Len(a) = AtMost(f, Len(s))
  <2>1. a \in Seq(Lines)
        /\ Len(a) = IF 0 < AtMost(f, Len(s)) THEN AtMost(f, Len(s)) - 0 ELSE 0
    BY Zenon, <1>1, SliceLength
  <2>2. AtMost(f, Len(s)) \in Nat
    BY <1>1 DEF AtMost
  <2>3. QED
    BY <2>1, <2>2
<1>3. z \in Seq(Lines) /\ Len(z) = IF l < Len(s) THEN Len(s) - l ELSE 0
  <2>1. z \in Seq(Lines)
        /\ Len(z) = IF l < AtMost(Len(s), Len(s)) THEN AtMost(Len(s), Len(s)) - l ELSE 0
    BY Zenon, <1>1, SliceLength
  <2>2. AtMost(Len(s), Len(s)) = Len(s)
    BY <1>1 DEF AtMost
  <2>3. QED
    BY <2>1, <2>2
<1>4. splice_lines(s, f, l, new) = (a \o new) \o z
  BY DEF splice_lines
<1> HIDE DEF a, z
<1>5. a \o new \in Seq(Lines) /\ Len(a \o new) = Len(a) + Len(new)
  BY ONLY Zenon, <1>2, new \in Seq(Lines), ConcatProperties
<1>6. (a \o new) \o z \in Seq(Lines) /\ Len((a \o new) \o z) = Len(a \o new) + Len(z)
  BY ONLY Zenon, <1>3, <1>5, ConcatProperties
<1>7. QED
  BY ONLY <1>2, <1>3, <1>4, <1>5, <1>6

\* The lines a delta inserts are those the callback read: an empty text stands
\* for no line or for one blank line, and the range tells them apart.
LEMMA InsertedBack ==
  ASSUME NEW s, NEW f \in Nat, NEW l, NEW new \in Seq(Lines)
  PROVE  InsertedLines(compute_delta(s, f, l, new)) = new
<1> DEFINE d == compute_delta(s, f, l, new)
<1>1. /\ d.inserted_text = Concat(new) /\ d.start_row = f
      /\ d.new_end_row = f + Len(new) /\ Len(new) \in Nat
  BY LenProperties DEF compute_delta
<1> HIDE DEF d
<1>2. d.new_end_row - d.start_row = Len(new)
  BY <1>1
<1>3. InsertedLines(d) = (IF Concat(new) = << Blank >>
                                 THEN [i \in 1 .. Len(new) |-> Blank] ELSE Concat(new))
  BY <1>1, <1>2 DEF InsertedLines
<1>4. new = << >> => InsertedLines(d) = new
  BY <1>3 DEF Concat
<1>5. ASSUME new = << Blank >> PROVE InsertedLines(d) = new
  <2>1. Concat(new) = << Blank >> /\ Len(new) = 1
    BY <1>5 DEF Concat
  <2>2. [i \in 1 .. 1 |-> Blank] = << Blank >>
    OBVIOUS
  <2>3. QED
    BY <1>3, <1>5, <2>1, <2>2
<1>6. new # << >> /\ new # << Blank >> => InsertedLines(d) = new
  BY <1>3 DEF Concat
<1>7. InsertedLines(d) = new
  BY <1>4, <1>5, <1>6
<1>8. QED
  BY <1>7 DEF d

\* A slice inside a buffer, row by row.
LEMMA SliceRows ==
  ASSUME NEW s \in Seq(Lines), NEW f \in Nat, NEW l \in Nat, f <= l, l <= Len(s)
  PROVE  Slice(s, f, l) = [i \in 1 .. (l - f) |-> RowOrBlank(s, f + i)]
<1> DEFINE t == [i \in 1 .. (l - f) |-> RowOrBlank(s, f + i)]
<1>1. Len(s) \in Nat
  BY LenProperties
<1>2. AtMost(l, Len(s)) = l
  BY <1>1 DEF AtMost
<1>3. Slice(s, f, l) = SubSeq(s, f + 1, l)
  BY <1>2 DEF Slice
<1>4. /\ SubSeq(s, f + 1, l) \in Seq(Lines) /\ Len(SubSeq(s, f + 1, l)) = l - f
      /\ \A i \in 1 .. l - f : SubSeq(s, f + 1, l)[i] = s[f + i]
  BY CutRows
<1>5. \A i \in 1 .. l - f : f + i <= Len(s) /\ f + i \in 1 .. Len(s)
  BY <1>1
<1>6. \A i \in 1 .. l - f : RowOrBlank(s, f + i) = s[f + i] /\ s[f + i] \in Lines
  BY <1>5 DEF RowOrBlank
<1>7. t \in Seq(Lines) /\ Len(t) = l - f /\ \A i \in 1 .. l - f : t[i] = s[f + i]
  <2>1. t \in [1 .. (l - f) -> Lines]
    BY Zenon, <1>6
  <2>2. \A i \in 1 .. l - f : t[i] = s[f + i]
    BY Zenon, <1>6
  <2>3. l - f \in Nat
    OBVIOUS
  <2> HIDE DEF t
  <2>4. QED
    BY <2>1, <2>2, <2>3
<1> HIDE DEF t
<1>8. SubSeq(s, f + 1, l) = t
  BY <1>4, <1>7, SameRows
<1>9. QED
  BY Zenon, <1>3, <1>4, <1>8 DEF t

\* What a splice of a buffer is made of.
LEMMA SpliceIs ==
  ASSUME NEW s \in Seq(Lines), NEW f \in Nat, NEW l \in Nat, f <= l, l <= Len(s), NEW new
  PROVE  splice_lines(s, f, l, new) = SubSeq(s, 1, f) \o new \o SubSeq(s, l + 1, Len(s))
<1>1. Len(s) \in Nat
  BY LenProperties
<1>2. /\ AtMost(f, Len(s)) = f
      /\ AtMost(Len(s), Len(s)) = Len(s)
  BY <1>1 DEF AtMost
<1>3. QED
  BY <1>2 DEF splice_lines, Slice

\* The lines that were put into a buffer are the ones the callback reads.
LEMMA FreshIsNew ==
  ASSUME NEW s \in Seq(Lines), NEW f \in Nat, NEW l \in Nat, f <= l, l <= Len(s),
         NEW new \in Seq(Lines)
  PROVE  Slice(splice_lines(s, f, l, new), f, f + Len(new)) = new
<1> DEFINE a == SubSeq(s, 1, f)
           z == SubSeq(s, l + 1, Len(s))
           t == a \o new \o z
<1>1. splice_lines(s, f, l, new) = t
  BY Zenon, SpliceIs
<1>2. a \in Seq(Lines) /\ Len(a) = f
  <2>1. SubSeq(s, 0 + 1, f) \in Seq(Lines) /\ Len(SubSeq(s, 0 + 1, f)) = f - 0
    BY CutRows
  <2>2. QED
    BY <2>1
<1>3. z \in Seq(Lines) /\ Len(z) \in Nat /\ Len(new) \in Nat
  BY CutRows, LenProperties
<1> HIDE DEF a, z
<1>4. Len(t) = Len(a) + Len(new) + Len(z) /\ SubSeq(t, Len(a) + 1, Len(a) + Len(new)) = new
  <2>1. a \in Seq(Lines) /\ new \in Seq(Lines) /\ z \in Seq(Lines)
    BY <1>2, <1>3
  <2>2. Len(a \o new \o z) = Len(a) + Len(new) + Len(z)
    BY ONLY <2>1, MiddleRows
  <2>3. SubSeq(a \o new \o z, Len(a) + 1, Len(a) + Len(new)) = new
    BY ONLY <2>1, MiddleRows
  <2>4. QED
    BY ONLY <2>2, <2>3
<1> HIDE DEF t
<1>5. AtMost(f + Len(new), Len(t)) = f + Len(new)
  BY ONLY <1>2, <1>3, <1>4, f \in Nat DEF AtMost
<1>6. Slice(t, f, f + Len(new)) = new
  BY <1>2, <1>4, <1>5 DEF Slice
<1>7. QED
  BY <1>1, <1>6

\* The divergence guard: when the count agrees and the newest change is one the
\* buffer can hold, the splice of any buffer with as many rows as the shadow has
\* the rows of the live one.
LEMMA CountConfirms ==
  ASSUME inst \in Instances, NEW t \in Contents, NEW r \in Contents, NEW n \in Spans, NEW fresh,
         fresh = Slice(t, n.first, n.new_last),
         Len(t) = expected_total(Len(r), n.first, n.last, Len(fresh)),
         n.first <= Len(t) \/ Len(r) = Len(t)
  PROVE  /\ fresh \in Seq(Lines)
         /\ splice_lines(r, n.first, n.last, fresh) \in Contents
         /\ Len(splice_lines(r, n.first, n.last, fresh)) = Len(t)
<1> DEFINE f == n.first
           l == n.last
           e == n.new_last
<1>1. f \in Nat /\ l \in Nat /\ e \in Nat /\ f <= l /\ f <= e
  BY DEF Spans, Note
<1>2. /\ t \in Seq(Lines) /\ Len(t) \in Nat /\ Len(t) \in 1 .. MaxLines
      /\ r \in Seq(Lines) /\ Len(r) \in Nat
  BY ContentsFacts, SettingsFacts
<1> HIDE DEF f, l, e
<1>3. fresh \in Seq(Lines)
      /\ Len(fresh) = IF f < AtMost(e, Len(t)) THEN AtMost(e, Len(t)) - f ELSE 0
  BY Zenon, <1>1, <1>2, SliceLength DEF f, e
<1>4. Len(fresh) = (IF f < (IF e <= Len(t) THEN e ELSE Len(t))
                    THEN (IF e <= Len(t) THEN e ELSE Len(t)) - f ELSE 0)
  BY ONLY <1>3 DEF AtMost
<1>5. Len(t) = Len(r) - (l - f) + Len(fresh)
  BY DEF expected_total, f, l
<1>6. /\ splice_lines(r, f, l, fresh) \in Seq(Lines)
      /\ Len(splice_lines(r, f, l, fresh)) =
           AtMost(f, Len(r)) + Len(fresh) + (IF l < Len(r) THEN Len(r) - l ELSE 0)
  <2>1. f \in Nat /\ l \in Nat /\ r \in Seq(Lines) /\ fresh \in Seq(Lines)
    BY ONLY <1>1, <1>2, <1>3
  <2>2. splice_lines(r, f, l, fresh) \in Seq(Lines)
    BY ONLY <2>1, SpliceLength
  <2>3. Len(splice_lines(r, f, l, fresh)) =
          AtMost(f, Len(r)) + Len(fresh) + (IF l < Len(r) THEN Len(r) - l ELSE 0)
    BY ONLY ZenonT(40), <2>1, SpliceLength
  <2>4. QED
    BY ONLY <2>2, <2>3
<1>7. f <= Len(t) \/ Len(r) = Len(t)
  BY DEF f
<1>8. Len(splice_lines(r, f, l, fresh)) = Len(t)
  <2>1. Len(splice_lines(r, f, l, fresh)) =
          (IF f <= Len(r) THEN f ELSE Len(r)) + Len(fresh)
            + (IF l < Len(r) THEN Len(r) - l ELSE 0)
    BY ONLY <1>6 DEF AtMost
  <2> DEFINE T == Len(t)
             R == Len(r)
             K == Len(fresh)
  <2>2. f \in Nat /\ l \in Nat /\ e \in Nat /\ T \in Nat /\ R \in Nat /\ K \in Nat
    BY Zenon, <1>1, <1>2, <1>3, LenProperties
  <2>3. /\ f <= l /\ f <= e /\ T = R - (l - f) + K /\ (f <= T \/ R = T)
        /\ K = (IF f < (IF e <= T THEN e ELSE T) THEN (IF e <= T THEN e ELSE T) - f ELSE 0)
    BY Zenon, <1>1, <1>4, <1>5, <1>7
  <2>4. Len(splice_lines(r, f, l, fresh)) =
          (IF f <= R THEN f ELSE R) + K + (IF l < R THEN R - l ELSE 0)
    BY <2>1
  <2> HIDE DEF T, R, K
  <2>5. CASE f <= T
    <3>1. f + K <= T
      BY ONLY <2>2, <2>3, <2>5
    <3>2. l <= R
      BY ONLY <2>2, <2>3, <3>1
    <3>3. QED
      BY ONLY <2>2, <2>3, <2>4, <3>2 DEF T
  <2>6. CASE R = T /\ T < f
    BY ONLY <2>2, <2>3, <2>4, <2>6 DEF T
  <2>7. QED
    BY <2>2, <2>3, <2>5, <2>6
<1>9. splice_lines(r, f, l, fresh) \in Contents
  BY <1>2, <1>6, <1>8, ContentsIntro
<1>10. QED
  BY Zenon, <1>3, <1>8, <1>9 DEF f, l

\* A delta computed from a buffer fits it and rebuilds the spliced one.
LEMMA DeltaFits ==
  ASSUME NEW s \in Seq(Lines), NEW f \in Nat, NEW l \in Nat, f <= l, l <= Len(s),
         NEW new \in Seq(Lines)
  PROVE  /\ DeltaMatches(s, compute_delta(s, f, l, new))
         /\ ApplyDelta(s, compute_delta(s, f, l, new)) = splice_lines(s, f, l, new)
<1> DEFINE d == compute_delta(s, f, l, new)
<1>1. d.start_row = f /\ d.old_end_row = l
      /\ d.deleted_text = Concat([i \in 1 .. (l - f) |-> RowOrBlank(s, f + i)])
  BY DEF compute_delta
<1>2. InsertedLines(d) = new
  BY InsertedBack
<1> HIDE DEF d
<1>3. DeltaMatches(s, d)
  BY Zenon, <1>1, SliceRows DEF DeltaMatches
<1>4. ApplyDelta(s, d) = splice_lines(s, f, l, new)
  BY <1>1, <1>2 DEF ApplyDelta
<1>5. QED
  BY <1>3, <1>4 DEF d

\* What a delta makes of a text does not depend on the deleted lines.
LEMMA AppliedIs ==
  ASSUME NEW s, NEW r, NEW f \in Nat, NEW l, NEW new \in Seq(Lines)
  PROVE  ApplyDelta(r, compute_delta(s, f, l, new)) = splice_lines(r, f, l, new)
<1> DEFINE d == compute_delta(s, f, l, new)
<1>1. d.start_row = f /\ d.old_end_row = l
  BY DEF compute_delta
<1>2. InsertedLines(d) = new
  BY InsertedBack
<1>3. QED
  BY <1>1, <1>2 DEF ApplyDelta

-----------------------------------------------------------------------------
(***************************************************************************)
(* Attaching, anchoring, emitting.                                         *)
(***************************************************************************)

\* The content of an anchor, and the buffer it stands for.
LEMMA AnchorContent ==
  ASSUME inst \in Instances, NEW c \in Contents \cup {<< >>}
  PROVE  /\ canonical_bytes(c) \in Contents \cup {EmptyFile}
         /\ BufferOf(canonical_bytes(c)) \in Contents
         /\ c # << >> => BufferOf(canonical_bytes(c)) = c
         /\ c = << >> => BufferOf(canonical_bytes(c)) = << Blank >>
<1>1. << Blank >> \in Contents
  BY BlankBuffer
<1>2. \A x \in Contents : x # << >>
  BY ContentsFacts
<1>3. QED
  BY <1>1, <1>2 DEF canonical_bytes, BufferOf, EmptyFile

\* attach gives a shadow of the live lines to buffers that are loaded and to no
\* other one.
LEMMA AttachKeeps ==
  ASSUME inst \in Instances, inst' = inst, NEW B \in SUBSET Buffers, NEW was, was \subseteq loaded',
         shadows \in [Buffers -> Contents \cup {NoLines}], delta_count \in [Buffers -> Counts],
         live' \in [Buffers -> Contents \cup {<< >>}],
         \A b \in Buffers : b \in loaded' <=> live'[b] # << >>,
         attach(B, was)
  PROVE  /\ shadows' \in [Buffers -> Contents \cup {NoLines}]
         /\ delta_count' \in [Buffers -> Counts]
         /\ attached' \subseteq loaded'
         /\ \A b \in Buffers : \/ shadows'[b] = shadows[b]
                               \/ b \in loaded' /\ shadows'[b] = live'[b]
<1> DEFINE fresh == {b \in B \cap loaded' : b \notin was \cup excluded}
<1>1. /\ shadows' = [b \in Buffers |-> IF b \in fresh THEN live'[b] ELSE shadows[b]]
      /\ delta_count' = [b \in Buffers |-> IF b \in fresh THEN 0 ELSE delta_count[b]]
      /\ attached' = was \cup fresh
  BY DEF attach
<1>2. fresh \subseteq loaded'
  OBVIOUS
<1> HIDE DEF fresh
<1>3. 0 \in Counts
  BY SettingsFacts DEF Counts
<1>4. \A b \in Buffers : b \in fresh => live'[b] \in Contents
  BY <1>2
<1>5. shadows' \in [Buffers -> Contents \cup {NoLines}]
  BY <1>1, <1>4
<1>6. delta_count' \in [Buffers -> Counts]
  BY <1>1, <1>3
<1>7. QED
  BY <1>1, <1>2, <1>5, <1>6

\* anchor_buffer puts what it captured into free slots.
LEMMA AnchorKeeps ==
  ASSUME inst \in Instances, NEW B \in SUBSET Buffers,
         uploads \in [Slots -> Upload \cup {NoUpload}],
         live' \in [Buffers -> Contents \cup {<< >>}], name' \in [Buffers -> Names],
         anchor_buffer(B)
  PROVE  uploads' \in [Slots -> Upload \cup {NoUpload}]
<1> DEFINE anchored == IF Capturing' THEN B \ (excluded \cup wiped) ELSE {}
           Put(at) == [s \in Slots |->
             IF \E b \in anchored : at[b] = s
             THEN LET b == CHOOSE x \in anchored : at[x] = s IN
                  [buf |-> b, path |-> name'[b], content |-> canonical_bytes(live'[b])]
             ELSE uploads[s]]
<1>1. PICK at \in [anchored -> FreeSlots] : uploads' = Put(at)
  BY DEF anchor_buffer
<1>2. anchored \subseteq Buffers
  OBVIOUS
<1> HIDE DEF anchored
<1>3. ASSUME NEW b \in anchored
      PROVE  [buf |-> b, path |-> name'[b], content |-> canonical_bytes(live'[b])] \in Upload
  <2>1. live'[b] \in Contents \cup {<< >>} /\ name'[b] \in Names /\ b \in Buffers
    BY <1>2
  <2>2. canonical_bytes(live'[b]) \in Contents \cup {EmptyFile}
    BY <2>1, AnchorContent
  <2>3. QED
    BY <2>1, <2>2 DEF Upload
<1>4. ASSUME NEW s \in Slots PROVE Put(at)[s] \in Upload \cup {NoUpload}
  <2>1. CASE \E b \in anchored : at[b] = s
    <3>1. (CHOOSE x \in anchored : at[x] = s) \in anchored
      BY <2>1
    <3>2. QED
      BY Zenon, <2>1, <3>1, <1>3
  <2>2. CASE ~ \E b \in anchored : at[b] = s
    BY <2>2
  <2>3. QED
    BY <2>1, <2>2
<1>5. QED
  BY <1>1, <1>4

\* The types of the three parts, and what the steps at rest have in common.
PluginTypes ==
  /\ shadows \in [Buffers -> Contents \cup {NoLines}]
  /\ delta_count \in [Buffers -> Counts]
  /\ attached \subseteq loaded /\ started \in BOOLEAN /\ paused \in BOOLEAN
  /\ uploads \in [Slots -> Upload \cup {NoUpload}]

\* At rest no change is still to be reported, so the types are all there is.
LEMMA PluginAtRest ==
  ASSUME Settled, notes' = notes, PluginTypes'
  PROVE  PluginInv'
  BY DEF Settled, PluginTypes, PluginInv

\* The editor's own state is only its own.
LEMMA EditorSame ==
  ASSUME EditorInv, inst' = inst, UNCHANGED editor
  PROVE  EditorInv'
  BY SameSettings DEF EditorInv, editor, Names

\* A buffer stays chained with its replay when nothing happens to it but that
\* its shadow is read again.
LEMMA ChainedKept ==
  ASSUME CaptureInv, inst' = inst, NEW b \in chained, name'[b] = name[b], live'[b] = live[b],
         b \in loaded' <=> b \in loaded, notes'[b] = notes[b],
         replay'[name[b]] = replay[name[b]],
         \/ shadows'[b] = shadows[b]
         \/ b \in loaded /\ notes[b] = << >> /\ shadows'[b] = live[b]
  PROVE  Chained(b)'
<1>1. Chained(b) /\ b \in Buffers
  BY DEF CaptureInv, ObserverInv
<1>2. live[b] \in Contents \/ b \notin loaded
  BY <1>1 DEF CaptureInv, EditorInv
<1>3. b \in loaded => live[b] # NoLines
  BY <1>2, ContentsFacts DEF CaptureInv, EditorInv
<1>4. Counted(b)'
  BY <1>1, <1>3, SameSettings DEF Chained, Counted
<1>5. ASSUME MaxLag = 1 PROVE Traced(b)'
  <2>1. Traced(b)
    BY <1>1, <1>5 DEF Chained
  <2>2. CASE shadows'[b] = shadows[b]
    BY <2>1, <2>2, SameSettings DEF Traced, OneChange
  <2>3. CASE b \in loaded /\ notes[b] = << >> /\ shadows'[b] = live[b]
    BY <2>1, <2>3 DEF Traced
  <2>4. QED
    BY <2>2, <2>3
<1>6. QED
  BY <1>1, <1>4, <1>5, SameSettings DEF Chained

\* What the events rebuild stays as it is when none is emitted.
LEMMA ObserverSame ==
  ASSUME CaptureInv, inst' = inst, UNCHANGED editor, UNCHANGED observer,
         \A b \in Buffers : \/ shadows'[b] = shadows[b]
                            \/ b \in loaded /\ notes[b] = << >> /\ shadows'[b] = live[b]
  PROVE  ObserverInv'
<1>1. ASSUME NEW b \in chained PROVE Chained(b)'
  BY ChainedKept DEF CaptureInv, ObserverInv, editor, observer
<1>2. QED
  BY <1>1, SameSettings DEF CaptureInv, ObserverInv, editor, observer

-----------------------------------------------------------------------------
(***************************************************************************)
(* The steps at rest.                                                      *)
(***************************************************************************)

\* Setting up, rescanning and entering attach and anchor what is loaded.
LEMMA AttachStep ==
  ASSUME CaptureInv, inst' = inst, Settled, UNCHANGED editor, UNCHANGED observer,
         started' \in BOOLEAN, paused' \in BOOLEAN,
         NEW B \in SUBSET Buffers, attach(B, attached), anchor_buffer(B)
  PROVE  CaptureInv'
<1>1. EditorInv'
  BY EditorSame DEF CaptureInv
<1>2. /\ inst \in Instances /\ uploads \in [Slots -> Upload \cup {NoUpload}]
      /\ shadows \in [Buffers -> Contents \cup {NoLines}] /\ delta_count \in [Buffers -> Counts]
      /\ attached \subseteq loaded'
      /\ live' \in [Buffers -> Contents \cup {<< >>}] /\ name' \in [Buffers -> Names]
      /\ \A b \in Buffers : b \in loaded' <=> live'[b] # << >>
  BY DEF CaptureInv, EditorInv, PluginInv, editor
<1>3. /\ shadows' \in [Buffers -> Contents \cup {NoLines}]
      /\ delta_count' \in [Buffers -> Counts]
      /\ attached' \subseteq loaded'
      /\ \A b \in Buffers : \/ shadows'[b] = shadows[b]
                            \/ b \in loaded' /\ shadows'[b] = live'[b]
  BY Zenon, <1>2, AttachKeeps
<1>4. uploads' \in [Slots -> Upload \cup {NoUpload}]
  BY <1>2, AnchorKeeps
<1>5. PluginInv'
  BY <1>3, <1>4, PluginAtRest, SameSettings DEF PluginTypes, editor
<1>6. ObserverInv'
  BY <1>3, ObserverSame DEF editor, Settled
<1>7. QED
  BY <1>1, <1>5, <1>6 DEF CaptureInv

\* Starting, pausing and writing leave the shadows alone.
LEMMA PlainStep ==
  ASSUME CaptureInv, inst' = inst, Settled, UNCHANGED editor, UNCHANGED observer,
         UNCHANGED << shadows, delta_count, attached >>,
         started' \in BOOLEAN, paused' \in BOOLEAN,
         uploads' \in [Slots -> Upload \cup {NoUpload}]
  PROVE  CaptureInv'
<1>1. EditorInv'
  BY EditorSame DEF CaptureInv
<1>2. PluginInv'
  BY PluginAtRest, SameSettings DEF CaptureInv, PluginInv, PluginTypes, editor
<1>3. ObserverInv'
  BY ObserverSame
<1>4. QED
  BY <1>1, <1>2, <1>3 DEF CaptureInv

\* A file is read into a buffer.
LEMMA LoadKeeps ==
  ASSUME CaptureInv, inst' = inst, NEW b \in Buffers, NEW p \in inst.names,
         NEW content \in Contents, Load(b, p, content)
  PROVE  CaptureInv'
<1>1. /\ Settled /\ b \notin wiped /\ NameFree(b, p)
      /\ loaded' = loaded \cup {b} /\ live' = [live EXCEPT ![b] = content]
      /\ name' = [name EXCEPT ![b] = p] /\ chained' = chained \ {b}
      /\ wiped' = wiped /\ excluded' = excluded /\ notes' = notes /\ started' = started
      /\ paused' = paused /\ replay' = replay
  BY DEF Load
<1>2. /\ inst \in Instances /\ p \in Paths /\ content # << >>
  BY SettingsFacts, ContentsFacts DEF CaptureInv, EditorInv
<1>3. EditorInv'
  <2>1. /\ live' \in [Buffers -> Contents \cup {<< >>}]
        /\ \A c \in Buffers : c \in loaded' <=> live'[c] # << >>
    BY <1>1, <1>2 DEF CaptureInv, EditorInv
  <2>2. name' \in [Buffers -> Names]
    BY <1>1, <1>2 DEF CaptureInv, EditorInv, Names
  <2>3. \A x, y \in Buffers \ wiped' : name'[x] = name'[y] => x = y \/ name'[x] = NoName
    BY <1>1 DEF CaptureInv, EditorInv, NameFree
  <2>4. loaded' \subseteq Buffers /\ wiped' \subseteq Buffers \ loaded' /\ excluded' \subseteq Buffers
    BY <1>1 DEF CaptureInv, EditorInv
  <2>5. QED
    BY <1>1, <1>2, <2>1, <2>2, <2>3, <2>4, SameSettings DEF CaptureInv, EditorInv, Names
<1>4. /\ uploads \in [Slots -> Upload \cup {NoUpload}]
      /\ shadows \in [Buffers -> Contents \cup {NoLines}] /\ delta_count \in [Buffers -> Counts]
      /\ attached \ {b} \subseteq loaded' /\ started \in BOOLEAN /\ paused \in BOOLEAN
      /\ live' \in [Buffers -> Contents \cup {<< >>}] /\ name' \in [Buffers -> Names]
      /\ \A c \in Buffers : c \in loaded' <=> live'[c] # << >>
  BY <1>1, <1>3, SameSettings DEF CaptureInv, EditorInv, PluginInv, Names
<1>5. /\ shadows' \in [Buffers -> Contents \cup {NoLines}]
      /\ delta_count' \in [Buffers -> Counts]
      /\ attached' \subseteq loaded'
      /\ uploads' \in [Slots -> Upload \cup {NoUpload}]
      /\ \A c \in Buffers : \/ shadows'[c] = shadows[c]
                            \/ c \in loaded' /\ shadows'[c] = live'[c]
  <2>1. CASE Capturing
    <3>1. attach({b}, attached \ {b}) /\ anchor_buffer({b})
      BY <2>1 DEF Load
    <3>2. {b} \in SUBSET Buffers
      OBVIOUS
    <3>3. /\ shadows' \in [Buffers -> Contents \cup {NoLines}]
          /\ delta_count' \in [Buffers -> Counts]
          /\ attached' \subseteq loaded'
          /\ \A c \in Buffers : \/ shadows'[c] = shadows[c]
                                \/ c \in loaded' /\ shadows'[c] = live'[c]
      BY Zenon, <1>2, <1>4, <3>1, <3>2, AttachKeeps
    <3>4. uploads' \in [Slots -> Upload \cup {NoUpload}]
      BY <1>2, <1>4, <3>1, <3>2, AnchorKeeps
    <3>5. QED
      BY <3>3, <3>4
  <2>2. CASE ~Capturing
    BY <1>4, <2>2 DEF Load
  <2>3. QED
    BY <2>1, <2>2
<1>6. PluginInv'
  BY <1>1, <1>4, <1>5, PluginAtRest, SameSettings DEF PluginTypes
<1>7. ObserverInv'
  <2>1. ASSUME NEW c \in chained, c # b PROVE Chained(c)'
    <3>1. c \in Buffers
      BY DEF CaptureInv, ObserverInv
    <3>2. /\ name'[c] = name[c] /\ live'[c] = live[c] /\ notes'[c] = notes[c] /\ notes[c] = << >>
          /\ c \in loaded' <=> c \in loaded
          /\ replay'[name[c]] = replay[name[c]]
      BY <1>1, <2>1, <3>1 DEF CaptureInv, EditorInv, Settled
    <3>3. \/ shadows'[c] = shadows[c]
          \/ c \in loaded /\ notes[c] = << >> /\ shadows'[c] = live[c]
      BY <1>1, <1>5, <2>1, <3>1, <3>2
    <3>4. QED
      BY <2>1, <3>2, <3>3, ChainedKept
  <2>2. QED
    BY <1>1, <2>1, SameSettings DEF CaptureInv, ObserverInv
<1>8. QED
  BY <1>3, <1>6, <1>7 DEF CaptureInv

\* A buffer gets another name.
LEMMA RenameKeeps ==
  ASSUME CaptureInv, inst' = inst, NEW b \in Buffers, NEW p \in inst.names, Rename(b, p)
  PROVE  CaptureInv'
<1>1. /\ Settled /\ b \in loaded /\ NameFree(b, p)
      /\ name' = [name EXCEPT ![b] = p] /\ chained' = chained \ {b}
      /\ UNCHANGED << loaded, live, wiped, excluded, notes, plugin, uploads, replay >>
  BY DEF Rename
<1>2. inst \in Instances /\ p \in Paths
  BY SettingsFacts DEF CaptureInv, EditorInv
<1>3. EditorInv'
  <2>1. name' \in [Buffers -> Names]
    BY <1>1, <1>2 DEF CaptureInv, EditorInv, Names
  <2>2. \A x, y \in Buffers \ wiped' : name'[x] = name'[y] => x = y \/ name'[x] = NoName
    BY <1>1 DEF CaptureInv, EditorInv, NameFree
  <2>3. QED
    BY <1>1, <1>2, <2>1, <2>2, SameSettings DEF CaptureInv, EditorInv, Names
<1>4. PluginInv'
  BY <1>1, PluginAtRest, SameSettings DEF CaptureInv, PluginInv, PluginTypes, plugin
<1>5. ObserverInv'
  <2>1. ASSUME NEW c \in chained, c # b PROVE Chained(c)'
    <3>1. c \in Buffers
      BY DEF CaptureInv, ObserverInv
    <3>2. name'[c] = name[c]
      BY <1>1, <2>1, <3>1 DEF CaptureInv, EditorInv
    <3>3. QED
      BY <1>1, <2>1, <3>2, ChainedKept DEF plugin
  <2>2. QED
    BY <1>1, <2>1, SameSettings DEF CaptureInv, ObserverInv
<1>6. QED
  BY <1>3, <1>4, <1>5 DEF CaptureInv

\* A buffer is excluded, or is not any more.
LEMMA ToggleKeeps ==
  ASSUME CaptureInv, inst' = inst, NEW b \in Buffers, ToggleExcluded(b)
  PROVE  CaptureInv'
<1>1. /\ Settled /\ excluded' \subseteq excluded \cup {b}
      /\ UNCHANGED << loaded, live, name, wiped, notes, plugin, uploads, observer >>
  BY DEF ToggleExcluded
<1>2. EditorInv'
  BY <1>1, SameSettings DEF CaptureInv, EditorInv, Names
<1>3. PluginInv'
  BY <1>1, PluginAtRest, SameSettings DEF CaptureInv, PluginInv, PluginTypes, plugin
<1>4. ObserverInv'
  <2>1. ASSUME NEW c \in chained PROVE Chained(c)'
    BY <1>1, ChainedKept DEF plugin, observer
  <2>2. QED
    BY <1>1, <2>1, SameSettings DEF CaptureInv, ObserverInv, observer
<1>5. QED
  BY <1>2, <1>3, <1>4 DEF CaptureInv

\* A buffer is unloaded or wiped out.
LEMMA CloseKeeps ==
  ASSUME CaptureInv, inst' = inst, NEW b \in Buffers, NEW wipe \in BOOLEAN, Close(b, wipe)
  PROVE  CaptureInv'
<1>1. /\ Settled /\ b \in loaded /\ loaded' = loaded \ {b}
      /\ live' = [live EXCEPT ![b] = << >>]
      /\ \/ wiped' = wiped \cup {b} /\ name' = [name EXCEPT ![b] = NoName]
         \/ wiped' = wiped /\ name' = name
      /\ attached' = attached \ {b} /\ shadows' = [shadows EXCEPT ![b] = NoLines]
      /\ delta_count' = [delta_count EXCEPT ![b] = 0] /\ chained' = chained \ {b}
      /\ UNCHANGED << excluded, notes, started, paused, uploads, replay >>
  BY DEF Close
<1>2. EditorInv'
  <2>1. /\ live' \in [Buffers -> Contents \cup {<< >>}]
        /\ \A c \in Buffers : c \in loaded' <=> live'[c] # << >>
    BY <1>1 DEF CaptureInv, EditorInv
  <2>2. name' \in [Buffers -> Names]
    BY Zenon, <1>1 DEF CaptureInv, EditorInv, Names
  <2>3. \A x, y \in Buffers \ wiped' : name'[x] = name'[y] => x = y \/ name'[x] = NoName
    BY <1>1 DEF CaptureInv, EditorInv
  <2>4. loaded' \subseteq Buffers /\ wiped' \subseteq Buffers \ loaded' /\ excluded' \subseteq Buffers
    BY <1>1 DEF CaptureInv, EditorInv
  <2>5. QED
    BY <1>1, <2>1, <2>2, <2>3, <2>4, SameSettings DEF CaptureInv, EditorInv, Names
<1>3. PluginInv'
  <2>1. 0 \in Counts
    BY SettingsFacts DEF Counts, CaptureInv, EditorInv
  <2>2. PluginTypes'
    BY <1>1, <2>1, SameSettings DEF CaptureInv, PluginInv, PluginTypes
  <2>3. QED
    BY <1>1, <2>2, PluginAtRest
<1>4. ObserverInv'
  <2>1. ASSUME NEW c \in chained, c # b PROVE Chained(c)'
    <3>1. c \in Buffers
      BY DEF CaptureInv, ObserverInv
    <3>2. /\ name'[c] = name[c] /\ live'[c] = live[c] /\ shadows'[c] = shadows[c]
          /\ c \in loaded' <=> c \in loaded
      BY <1>1, <2>1, <3>1 DEF CaptureInv, EditorInv, PluginInv
    <3>3. QED
      BY <1>1, <2>1, <3>2, ChainedKept
  <2>2. QED
    BY <1>1, <2>1, SameSettings DEF CaptureInv, ObserverInv
<1>5. QED
  BY <1>2, <1>3, <1>4 DEF CaptureInv

\* An upload has been answered: the shadow is read again, and the anchor goes out
\* if the buffer is still what was uploaded.
LEMMA AnswerKeeps ==
  ASSUME CaptureInv, inst' = inst, NEW s \in Slots, UploadAnswered(s)
  PROVE  CaptureInv'
<1>u. PICK u : u = uploads[s]
  OBVIOUS
<1>1. /\ Settled /\ u # NoUpload /\ uploads' = [uploads EXCEPT ![s] = NoUpload]
      /\ UNCHANGED << editor, delta_count, attached, started, paused >>
  BY <1>u DEF UploadAnswered
<1>2. inst \in Instances /\ u \in Upload
  BY <1>u, <1>1 DEF CaptureInv, EditorInv, PluginInv
<1>3. u.buf \in Buffers /\ u.path \in Names /\ u.content \in Contents \cup {EmptyFile}
  BY <1>2 DEF Upload
<1>4. \/ /\ u.buf \notin wiped /\ refresh_shadow(u.buf) /\ AnchorStillTrue(u) /\ EmitAnchor(u)
      \/ /\ refresh_shadow(u.buf) /\ UNCHANGED observer
      \/ UNCHANGED << shadows, observer >>
  BY <1>u DEF UploadAnswered
<1>5. \A b \in Buffers : \/ shadows'[b] = shadows[b]
                         \/ b \in loaded /\ notes[b] = << >> /\ shadows'[b] = live[b]
  BY <1>1, <1>4 DEF refresh_shadow, CaptureInv, PluginInv, Settled
<1>6. shadows' \in [Buffers -> Contents \cup {NoLines}]
  <2>1. \A b \in loaded : live[b] \in Contents
    BY DEF CaptureInv, EditorInv
  <2>2. QED
    BY <1>4, <2>1 DEF refresh_shadow, CaptureInv, PluginInv
<1>7. EditorInv'
  BY <1>1, EditorSame DEF CaptureInv
<1>8. PluginInv'
  <2>1. uploads' \in [Slots -> Upload \cup {NoUpload}]
    BY <1>1 DEF CaptureInv, PluginInv
  <2>2. PluginTypes'
    BY <1>1, <1>6, <2>1, SameSettings DEF CaptureInv, PluginInv, PluginTypes, editor
  <2>3. QED
    BY <1>1, <2>2, PluginAtRest DEF editor
<1>9. ASSUME UNCHANGED observer PROVE ObserverInv'
  BY <1>1, <1>5, <1>9, ObserverSame
<1>10. ASSUME u.buf \notin wiped, refresh_shadow(u.buf), AnchorStillTrue(u), EmitAnchor(u)
       PROVE  ObserverInv'
  <2>b. PICK b : b = u.buf
    OBVIOUS
  <2>1. name[b] = u.path /\ canonical_bytes(live[b]) = u.content /\ b \in Buffers \ wiped
    BY <2>b, <1>3, <1>10 DEF AnchorStillTrue
  <2>2. CASE ~Capturing \/ u.path = NoName
    BY <1>9, <1>10, <2>2 DEF EmitAnchor, observer
  <2>3. CASE Capturing /\ u.path # NoName
    <3>1. /\ replay' = [replay EXCEPT ![u.path] = BufferOf(u.content)]
          /\ chained' = chained \cup {b}
      BY <2>b, <1>10, <2>3 DEF EmitAnchor
    <3>2. u.path \in Paths
      BY <1>3, <2>3 DEF Names
    <3>3. /\ BufferOf(u.content) \in Contents
          /\ b \in loaded => BufferOf(u.content) = live[b] /\ live[b] \in Contents
          /\ b \notin loaded => BufferOf(u.content) = << Blank >>
      <4>1. live[b] \in Contents \cup {<< >>} /\ (b \in loaded <=> live[b] # << >>)
        BY <2>1 DEF CaptureInv, EditorInv
      <4>2. QED
        BY <1>2, <2>1, <4>1, AnchorContent
    <3>4. replay'[name'[b]] = BufferOf(u.content) /\ name'[b] = name[b] /\ live'[b] = live[b]
          /\ notes'[b] = << >> /\ loaded' = loaded
      BY <1>1, <2>1, <3>1, <3>2 DEF CaptureInv, ObserverInv, editor, Settled
    <3>5. b \in loaded => shadows'[b] = live[b]
      BY <2>b, <1>10, <2>1 DEF refresh_shadow, CaptureInv, PluginInv
    <3>6. Chained(b)'
      <4>1. Counted(b)'
        <5>1. b \in loaded => live[b] # NoLines
          BY <1>2, <3>3, ContentsFacts
        <5>2. QED
          BY <3>3, <3>4, <3>5, <5>1, SameSettings DEF Counted
      <4>2. Traced(b)'
        BY <3>3, <3>4, <3>5 DEF Traced
      <4>3. QED
        BY <2>1, <3>2, <3>4, <4>1, <4>2 DEF Chained
    <3>7. ASSUME NEW c \in chained, c # b PROVE Chained(c)'
      <4>1. c \in Buffers \ wiped /\ name[c] \in Paths
        BY DEF CaptureInv, ObserverInv, Chained
      <4>2. name[c] # u.path
        BY <2>1, <3>2, <3>7, <4>1, NamesOK DEF CaptureInv, EditorInv
      <4>3. replay'[name[c]] = replay[name[c]]
        BY <3>1, <4>1, <4>2 DEF CaptureInv, ObserverInv
      <4>4. QED
        BY <1>1, <1>5, <4>1, <4>3, ChainedKept DEF editor
    <3>8. replay' \in [Paths -> Contents \cup {<< >>, NoLines, Corrupt}]
      BY Zenon, <3>1, <3>3 DEF CaptureInv, ObserverInv
    <3>9. chained' \subseteq Buffers \ wiped'
      BY <1>1, <2>1, <3>1 DEF CaptureInv, ObserverInv, editor
    <3>10. QED
      BY <3>1, <3>6, <3>7, <3>8, <3>9, SameSettings DEF ObserverInv
  <2>4. QED
    BY <2>2, <2>3
<1>11. ASSUME UNCHANGED << shadows, observer >> PROVE ObserverInv'
  BY <1>9, <1>11
<1>12. ObserverInv'
  BY <1>4, <1>9, <1>10
<1>13. QED
  BY <1>7, <1>8, <1>12 DEF CaptureInv

-----------------------------------------------------------------------------
(***************************************************************************)
(* The steps between a change and its report.                              *)
(***************************************************************************)

\* A change that an attached buffer sees is the newest one to be reported.
LEMMA ChangeKeeps ==
  ASSUME CaptureInv, inst' = inst, NEW b \in Buffers,
         NEW first \in Nat, NEW last \in Nat, NEW new \in Contents \cup {<< >>},
         Change(b, first, last, new)
  PROVE  CaptureInv'
<1> DEFINE after == splice_lines(live[b], first, last, new)
           note  == [first |-> first, last |-> last, new_last |-> first + Len(new)]
<1>1. /\ b \in loaded /\ \A c \in Buffers \ {b} : notes[c] = << >>
      /\ Len(notes[b]) < MaxLag /\ first <= last /\ last <= Len(live[b])
      /\ after \in Contents /\ live' = [live EXCEPT ![b] = after]
      /\ UNCHANGED << loaded, name, wiped, excluded, plugin, uploads, replay >>
  BY DEF Change
<1>2. \/ /\ b \in attached /\ notes' = [notes EXCEPT ![b] = Append(@, note)]
         /\ chained' = chained
      \/ /\ b \notin attached /\ notes' = notes /\ chained' = chained \ {b}
  BY DEF Change
<1>3. /\ inst \in Instances /\ live[b] \in Contents /\ live[b] \in Seq(Lines)
      /\ Len(live[b]) \in Nat /\ notes[b] \in Seq(Spans) /\ Len(notes[b]) \in Nat
      /\ MaxLag \in Nat \ {0}
  <2>1. inst \in Instances /\ live[b] \in Contents /\ notes[b] \in Seq(Spans)
    BY <1>1 DEF CaptureInv, EditorInv
  <2>2. QED
    BY <2>1, ContentsFacts, SettingsFacts, LenProperties
<1>4. new \in Seq(Lines) /\ Len(new) \in Nat
  <2>1. CASE new \in Contents
    BY <1>3, <2>1, ContentsFacts, LenProperties
  <2>2. CASE new = << >>
    BY <2>2
  <2>3. QED
    BY <2>1, <2>2
<1>5. first <= Len(after)
  <2>1. Len(after) = AtMost(first, Len(live[b])) + Len(new)
                     + (IF last < Len(live[b]) THEN Len(live[b]) - last ELSE 0)
    <3>1. /\ live[b] \in Seq(Lines) /\ new \in Seq(Lines) /\ first \in Nat /\ last \in Nat
      BY <1>3, <1>4
    <3>2. Len(splice_lines(live[b], first, last, new)) =
            AtMost(first, Len(live[b])) + Len(new)
              + (IF last < Len(live[b]) THEN Len(live[b]) - last ELSE 0)
      BY ONLY Zenon, <3>1, SpliceLength
    <3>3. QED
      BY <3>2
  <2>2. AtMost(first, Len(live[b])) = first
    BY <1>1, <1>3 DEF AtMost
  <2> HIDE DEF after
  <2>3. QED
    BY ONLY <1>1, <1>3, <1>4, <2>1, <2>2, first \in Nat, last \in Nat
<1>6. note \in Spans
  BY <1>1, <1>4 DEF Spans, Note
<1>7. after # << >>
  BY <1>1, <1>3, ContentsFacts
<1> HIDE DEF after
<1>8. /\ note.first = first /\ note.last = last /\ note.new_last = first + Len(new)
  OBVIOUS
<1> HIDE DEF note
<1>9. /\ Append(notes[b], note) \in Seq(Spans) /\ Len(Append(notes[b], note)) = Len(notes[b]) + 1
      /\ Append(notes[b], note)[Len(notes[b]) + 1] = note
      /\ Append(notes[b], note) # << >> /\ Last(Append(notes[b], note)) = note
  BY <1>3, <1>6 DEF Last
<1>10. EditorInv'
  <2>1. /\ live' \in [Buffers -> Contents \cup {<< >>}]
        /\ \A c \in Buffers : c \in loaded' <=> live'[c] # << >>
    BY <1>1, <1>7 DEF CaptureInv, EditorInv
  <2>2. notes' \in [Buffers -> Seq(Spans)] /\ \A c \in Buffers : Len(notes'[c]) <= MaxLag
    <3>1. CASE notes' = notes
      BY <3>1 DEF CaptureInv, EditorInv
    <3>2. CASE notes' = [notes EXCEPT ![b] = Append(@, note)]
      <4>1. Len(notes[b]) + 1 <= MaxLag
        BY ONLY <1>1, <1>3
      <4>2. QED
        BY <3>2, <4>1, <1>9 DEF CaptureInv, EditorInv
    <3>3. QED
      BY <1>2, <3>1, <3>2
  <2>3. QED
    BY <1>1, <1>3, <2>1, <2>2, SameSettings DEF CaptureInv, EditorInv, Names, Spans, Note
<1>11. PluginInv'
  <2>1. PluginTypes'
    BY <1>1, SameSettings DEF CaptureInv, PluginInv, PluginTypes, plugin
  <2>2. ASSUME NEW c \in Buffers, notes'[c] # << >>
        PROVE  c \in attached /\ (c \notin excluded /\ shadows[c] # NoLines => Confirmable(c)')
    <3>1. CASE c = b
      <4>1. b \in attached /\ notes'[b] = Append(notes[b], note)
        BY <1>1, <1>2, <2>2, <3>1 DEF CaptureInv, EditorInv, PluginInv
      <4>2. Last(notes'[b]).first <= Len(live'[b])
        BY <1>1, <1>5, <1>8, <1>9, <4>1 DEF CaptureInv, EditorInv
      <4>3. QED
        BY <3>1, <4>1, <4>2 DEF Confirmable
    <3>2. CASE c # b
      BY <1>1, <1>2, <2>2, <3>2 DEF CaptureInv, EditorInv
    <3>3. QED
      BY <3>1, <3>2
  <2>3. QED
    BY <1>1, <2>1, <2>2 DEF PluginInv, PluginTypes, plugin
<1>12. ASSUME NEW c \in chained' PROVE Chained(c)'
  <2>1. c \in chained /\ c \in Buffers
    BY <1>2, <1>12 DEF CaptureInv, ObserverInv
  <2>2. CASE c # b
    <3>1. live'[c] = live[c] /\ notes'[c] = notes[c]
      BY <1>1, <1>2, <2>1, <2>2 DEF CaptureInv, EditorInv
    <3>2. /\ name'[c] = name[c] /\ replay'[name[c]] = replay[name[c]] /\ shadows'[c] = shadows[c]
          /\ c \in loaded' <=> c \in loaded
      BY <1>1 DEF plugin
    <3>3. QED
      BY <2>1, <3>1, <3>2, ChainedKept
  <2>3. CASE c = b
    <3>1. /\ notes'[b] = Append(notes[b], note) /\ live'[b] = after
          /\ name' = name /\ loaded' = loaded /\ replay' = replay /\ shadows' = shadows
      BY <1>1, <1>2, <1>12, <2>3 DEF CaptureInv, EditorInv, plugin
    <3>2. Chained(b) /\ notes'[b] # << >>
      BY <1>9, <2>1, <2>3, <3>1 DEF CaptureInv, ObserverInv
    <3>3. Counted(b)'
      BY <3>1, <3>2, SameSettings DEF Chained, Counted
    <3>4. ASSUME MaxLag = 1 PROVE Traced(b)'
      <4>1. notes[b] = << >>
        BY <1>1, <1>3, <3>4
      <4>2. Len(notes[b]) = 0
        BY <4>1
      <4>3. Traced(b)
        BY <3>2, <3>4 DEF Chained
      <4>4. shadows[b] = live[b] /\ replay[name[b]] = shadows[b]
        BY <1>1, <4>1, <4>3 DEF Traced
      <4>5. notes'[b][1] = note
        BY <1>9, <3>1, <4>2
      <4>6. /\ notes'[b][1].last <= Len(shadows'[b])
            /\ notes'[b][1].new_last = notes'[b][1].first + Len(new)
            /\ live'[b] = splice_lines(shadows'[b], notes'[b][1].first, notes'[b][1].last, new)
        BY <1>1, <1>8, <3>1, <4>4, <4>5 DEF after
      <4>7. OneChange(b)'
        BY <4>6, SameSettings DEF OneChange
      <4>8. QED
        BY <3>1, <3>2, <4>4, <4>7 DEF Traced
    <3>5. Chained(b)'
      BY <3>1, <3>2, <3>3, <3>4, SameSettings DEF Chained
    <3>6. QED
      BY <2>3, <3>5
  <2>4. QED
    BY <2>2, <2>3
<1>13. ObserverInv'
  BY <1>1, <1>2, <1>12, SameSettings DEF CaptureInv, ObserverInv
<1>14. QED
  BY <1>10, <1>11, <1>13 DEF CaptureInv

\* The newest change is reported: it is left out, the shadow is read again, or it
\* is recorded.
LEMMA ReportKeeps ==
  ASSUME CaptureInv, inst' = inst, NEW b \in Buffers, on_lines(b)
  PROVE  CaptureInv'
<1>n. PICK n : n = Last(notes[b])
  OBVIOUS
<1>f. PICK fresh : fresh = Slice(live[b], n.first, n.new_last)
  OBVIOUS
<1>d. PICK d : d = compute_delta(shadows[b], n.first, n.last, fresh)
  OBVIOUS
<1>s. PICK after : after = splice_lines(shadows[b], n.first, n.last, fresh)
  OBVIOUS
<1>c. PICK count : count = IF AnchorEvery = 0 THEN 0 ELSE (delta_count[b] + 1) % AnchorEvery
  OBVIOUS
<1> DEFINE Skip     == chained' = chained \ {b} /\ replay' = replay
           Excluded == /\ b \in excluded /\ Skip
                       /\ shadows' = shadows /\ delta_count' = delta_count /\ uploads' = uploads
           Unseen   == /\ shadows[b] = NoLines /\ shadows' = [shadows EXCEPT ![b] = live[b]]
                       /\ delta_count' = [delta_count EXCEPT ![b] = 0]
                       /\ Skip /\ uploads' = uploads
           Diverged == /\ shadows' = [shadows EXCEPT ![b] = live[b]]
                       /\ Skip /\ delta_count' = delta_count /\ uploads' = uploads
           Recorded == /\ b \notin excluded /\ shadows[b] # NoLines
                       /\ CountAgrees(b, n, fresh)
                       /\ shadows' = [shadows EXCEPT ![b] = after]
                       /\ delta_count' = [delta_count EXCEPT ![b] = count]
                       /\ EmitDelta(b, d)
                       /\ anchor_buffer({b}) \/ uploads' = uploads
<1>1. /\ notes[b] # << >> /\ notes' = [notes EXCEPT ![b] = Front(@)]
      /\ UNCHANGED << loaded, live, name, wiped, excluded, attached, started, paused >>
  BY DEF on_lines
<1>2. Excluded \/ Unseen \/ Diverged \/ Recorded
  BY <1>n, <1>f, <1>d, <1>s, <1>c DEF on_lines
<1> HIDE DEF Excluded, Unseen, Diverged, Recorded
<1>3. /\ inst \in Instances /\ b \in attached /\ b \in loaded /\ live[b] \in Contents
      /\ b \notin excluded /\ shadows[b] # NoLines =>
           Confirmable(b) /\ shadows[b] \in Contents
      /\ notes[b] \in Seq(Spans) /\ Len(notes[b]) <= MaxLag
  BY <1>1 DEF CaptureInv, EditorInv, PluginInv
<1>4. /\ Len(notes[b]) \in Nat \ {0} /\ n = notes[b][Len(notes[b])] /\ n \in Spans
      /\ Front(notes[b]) \in Seq(Spans) /\ Len(Front(notes[b])) = Len(notes[b]) - 1
  <2>1. Len(notes[b]) \in Nat /\ notes[b] \in Seq(Spans)
    BY <1>3, LenProperties
  <2>2. Len(notes[b]) \in Nat \ {0}
    BY <1>1, <2>1
  <2>3. n = notes[b][Len(notes[b])]
    BY <1>n DEF Last
  <2>4. Len(notes[b]) \in 1 .. Len(notes[b])
    BY <2>2
  <2>5. n \in Spans
    BY <2>1, <2>3, <2>4
  <2>6. /\ SubSeq(notes[b], 0 + 1, Len(notes[b]) - 1) \in Seq(Spans)
        /\ Len(SubSeq(notes[b], 0 + 1, Len(notes[b]) - 1)) = (Len(notes[b]) - 1) - 0
    BY ONLY <2>1, <2>2, CutRows
  <2>7. Front(notes[b]) \in Seq(Spans) /\ Len(Front(notes[b])) = Len(notes[b]) - 1
    BY <2>2, <2>6 DEF Front
  <2>8. QED
    BY <2>2, <2>3, <2>5, <2>7
<1>5. n.first \in Nat /\ n.last \in Nat /\ n.new_last \in Nat /\ n.first <= n.last
  BY <1>4 DEF Spans, Note
\* What the count says of the shadow, and of the replay if it has as many rows.
<1>6. ASSUME Recorded, NEW r \in Contents, Len(r) = Len(shadows[b])
      PROVE  /\ fresh \in Seq(Lines)
             /\ splice_lines(r, n.first, n.last, fresh) \in Contents
             /\ Len(splice_lines(r, n.first, n.last, fresh)) = Len(live[b])
  <2>1. Len(live[b]) = expected_total(Len(r), n.first, n.last, Len(fresh))
    BY <1>6 DEF Recorded, CountAgrees
  <2>2. n.first <= Len(live[b]) \/ Len(r) = Len(live[b])
    BY <1>n, <1>3, <1>6 DEF Recorded, Confirmable
  <2>3. live[b] \in Contents /\ r \in Contents /\ n \in Spans /\ inst \in Instances
    BY <1>3, <1>4, <1>6
  <2>4. QED
    BY ONLY <2>1, <2>2, <2>3, <1>f, CountConfirms
<1>7. ASSUME Recorded PROVE after \in Contents /\ Len(after) = Len(live[b]) /\ fresh \in Seq(Lines)
  <2>1. shadows[b] \in Contents
    BY <1>3, <1>7 DEF Recorded
  <2>2. QED
    BY <1>6, <1>7, <1>s, <2>1
<1>8. EditorInv'
  <2>1. notes' \in [Buffers -> Seq(Spans)] /\ \A c \in Buffers : Len(notes'[c]) <= MaxLag
    <3>1. Len(Front(notes[b])) <= MaxLag
      BY <1>3, <1>4, SettingsFacts
    <3>2. QED
      BY <1>1, <1>4, <3>1 DEF CaptureInv, EditorInv
  <2>2. QED
    BY <1>1, <2>1, SameSettings DEF CaptureInv, EditorInv, Names, Spans, Note
<1>9. \A c \in Buffers \ {b} : notes'[c] = notes[c] /\ shadows'[c] = shadows[c]
  BY <1>1, <1>2 DEF CaptureInv, EditorInv, PluginInv, Excluded, Unseen, Diverged, Recorded
<1>10. /\ shadows' \in [Buffers -> Contents \cup {NoLines}]
       /\ b \in excluded \/ Len(shadows'[b]) = Len(live[b])
  BY <1>2, <1>3, <1>7 DEF CaptureInv, PluginInv, Excluded, Unseen, Diverged, Recorded
<1>11. delta_count' \in [Buffers -> Counts]
  <2>1. 0 \in Counts
    BY <1>3, SettingsFacts DEF Counts
  <2>2. count \in Counts
    <3>1. CASE AnchorEvery = 0
      BY <1>c, <2>1, <3>1
    <3>2. CASE AnchorEvery # 0
      <4>1. AnchorEvery \in Nat \ {0} /\ delta_count[b] \in Nat
        BY <1>3, <3>2, SettingsFacts DEF CaptureInv, PluginInv, Counts
      <4>2. (delta_count[b] + 1) % AnchorEvery \in 0 .. AnchorEvery - 1
        BY ONLY <4>1
      <4>3. QED
        BY <1>c, <3>2, <4>2 DEF Counts
    <3>3. QED
      BY <3>1, <3>2
  <2>3. QED
    BY <1>2, <2>1, <2>2 DEF CaptureInv, PluginInv, Excluded, Unseen, Diverged, Recorded
<1>12. uploads' \in [Slots -> Upload \cup {NoUpload}]
  <2>1. /\ uploads \in [Slots -> Upload \cup {NoUpload}] /\ {b} \in SUBSET Buffers
        /\ live' \in [Buffers -> Contents \cup {<< >>}] /\ name' \in [Buffers -> Names]
    BY <1>1 DEF CaptureInv, EditorInv, PluginInv
  <2>2. CASE anchor_buffer({b})
    BY <1>3, <2>1, <2>2, AnchorKeeps
  <2>3. CASE uploads' = uploads
    BY <2>1, <2>3
  <2>4. QED
    BY <1>2, <2>2, <2>3 DEF Excluded, Unseen, Diverged, Recorded
<1>13. PluginInv'
  <2>1. PluginTypes'
    BY <1>1, <1>10, <1>11, <1>12, SameSettings DEF CaptureInv, PluginInv, PluginTypes
  <2>2. ASSUME NEW c \in Buffers, notes'[c] # << >>
        PROVE  c \in attached' /\ (c \notin excluded' /\ shadows'[c] # NoLines => Confirmable(c)')
    <3>1. CASE c = b
      BY <1>1, <1>3, <1>10, <3>1 DEF Confirmable
    <3>2. CASE c # b
      BY <1>1, <1>9, <2>2, <3>2 DEF CaptureInv, PluginInv, Confirmable
    <3>3. QED
      BY <3>1, <3>2
  <2>3. QED
    BY <2>1, <2>2 DEF PluginInv, PluginTypes
<1>14. ASSUME Excluded \/ Unseen \/ Diverged PROVE ObserverInv'
  <2>1. chained' = chained \ {b} /\ replay' = replay
    BY <1>14 DEF Excluded, Unseen, Diverged
  <2>2. ASSUME NEW c \in chained, c # b PROVE Chained(c)'
    <3>1. c \in Buffers
      BY DEF CaptureInv, ObserverInv
    <3>2. QED
      BY <1>1, <1>9, <2>1, <2>2, <3>1, ChainedKept
  <2>3. QED
    BY <1>1, <2>1, <2>2, SameSettings DEF CaptureInv, ObserverInv
<1>15. ASSUME Recorded PROVE ObserverInv'
  <2>p. PICK p : p = name[b]
    OBVIOUS
  <2>r. PICK r : r = replay[p]
    OBVIOUS
  <2>1. CASE ~(Capturing /\ p # NoName)
    <3>1. chained' = chained \ {b} /\ replay' = replay
      BY <1>15, <2>p, <2>1 DEF Recorded, EmitDelta
    <3>2. ASSUME NEW c \in chained, c # b PROVE Chained(c)'
      <4>1. c \in Buffers
        BY DEF CaptureInv, ObserverInv
      <4>2. QED
        BY <1>1, <1>9, <3>1, <3>2, <4>1, ChainedKept
    <3>3. QED
      BY <1>1, <3>1, <3>2, SameSettings DEF CaptureInv, ObserverInv
  <2>2. CASE Capturing /\ p # NoName
    <3>1. p \in Paths
      BY <2>p, <2>2 DEF CaptureInv, EditorInv, Names
    <3>2. /\ chained' = chained
          /\ replay' = [replay EXCEPT ![p] =
                          IF @ \in {NoLines, Corrupt} THEN @
                          ELSE IF DeltaMatches(@, d) /\ ApplyDelta(@, d) \in Rebuilt
                          THEN ApplyDelta(@, d) ELSE Corrupt]
      BY <1>15, <2>p, <2>2 DEF Recorded, EmitDelta
    <3>3. replay'[p] = IF r \in {NoLines, Corrupt} THEN r
                       ELSE IF DeltaMatches(r, d) /\ ApplyDelta(r, d) \in Rebuilt
                       THEN ApplyDelta(r, d) ELSE Corrupt
      BY <2>r, <3>1, <3>2 DEF CaptureInv, ObserverInv
    <3>4. replay' \in [Paths -> Contents \cup {<< >>, NoLines, Corrupt}]
      <4>1. replay'[p] \in Contents \cup {<< >>, NoLines, Corrupt}
        BY <3>3 DEF Rebuilt
      <4>2. QED
        BY <3>1, <3>2, <3>3, <4>1 DEF CaptureInv, ObserverInv
    <3>5. ASSUME NEW c \in chained, c # b PROVE Chained(c)'
      <4>1. c \in Buffers \ wiped /\ name[c] \in Paths /\ b \notin wiped
        BY <1>3 DEF CaptureInv, EditorInv, ObserverInv, Chained
      <4>2. name[c] # p
        BY <2>p, <2>2, <3>5, <4>1 DEF CaptureInv, EditorInv
      <4>3. replay'[name[c]] = replay[name[c]]
        BY <3>2, <4>1, <4>2 DEF CaptureInv, ObserverInv
      <4>4. QED
        BY <1>1, <1>9, <3>5, <4>1, <4>3, ChainedKept
    <3>6. ASSUME b \in chained PROVE Chained(b)'
      <4>1. Chained(b) /\ name'[b] = p /\ live'[b] = live[b] /\ b \in loaded'
        BY <1>1, <1>3, <2>p, <3>6 DEF CaptureInv, ObserverInv
      <4>2. shadows'[b] = after /\ after \in Contents /\ Len(after) = Len(live[b])
            /\ fresh \in Seq(Lines) /\ shadows[b] \in Contents
        BY <1>3, <1>7, <1>15 DEF Recorded, CaptureInv, PluginInv
      <4>3. ApplyDelta(r, d) = splice_lines(r, n.first, n.last, fresh)
        BY <1>d, <1>5, <4>2, AppliedIs
      <4>4. replay'[p] = Corrupt \/ (replay'[p] \in Contents /\ Len(replay'[p]) = Len(after))
        <5>1. r = Corrupt \/ (r \in Contents /\ Len(r) = Len(shadows[b]))
          BY <1>3, <2>p, <2>r, <4>1 DEF Chained, Counted
        <5>2. CASE r = Corrupt
          BY <3>3, <5>2
        <5>3. CASE r \in Contents /\ Len(r) = Len(shadows[b])
          <6>1. ApplyDelta(r, d) \in Contents /\ Len(ApplyDelta(r, d)) = Len(live[b])
            BY <1>6, <1>15, <4>3, <5>3
          <6>2. r \notin {NoLines, Corrupt}
            BY <1>3, <5>3, ContentsFacts
          <6>3. QED
            BY <3>3, <4>2, <6>1, <6>2
        <5>4. QED
          BY <5>1, <5>2, <5>3
      <4>5. Counted(b)'
        <5>1. after # NoLines
          BY <1>3, <4>2, ContentsFacts
        <5>2. QED
          BY <4>1, <4>2, <4>4, <5>1, SameSettings DEF Counted
      <4>6. ASSUME MaxLag = 1 PROVE Traced(b)'
        <5>1. Len(notes[b]) = 1 /\ n = notes[b][1] /\ Len(Front(notes[b])) = 0
          <6>k. PICK k : k = Len(notes[b])
            BY Zenon
          <6>1. k <= 1 /\ k \in Nat \ {0}
            BY <1>3, <1>4, <4>6, <6>k
          <6>2. k = 1
            BY ONLY <6>1
          <6>3. QED
            BY <1>4, <6>k, <6>2
        <5>2. notes'[b] = << >>
          <6>1. Front(notes[b]) = << >>
            BY <1>4, <5>1
          <6>2. QED
            BY <1>1, <6>1 DEF CaptureInv, EditorInv
        <5>3. Traced(b)
          BY <4>1, <4>6 DEF Chained
        <5>4. r = shadows[b] /\ OneChange(b)
          BY <1>1, <1>3, <2>p, <2>r, <5>3 DEF Traced
        <5>5. PICK new \in Contents \cup {<< >>} :
                /\ n.last <= Len(shadows[b]) /\ n.new_last = n.first + Len(new)
                /\ live[b] = splice_lines(shadows[b], n.first, n.last, new)
          BY <5>1, <5>4 DEF OneChange
        <5>6. new \in Seq(Lines) /\ shadows[b] \in Seq(Lines)
          <6>1. CASE new \in Contents
            BY <1>3, <4>2, <6>1, ContentsFacts
          <6>2. CASE new = << >>
            BY <1>3, <4>2, <6>2, ContentsFacts
          <6>3. QED
            BY <6>1, <6>2
        <5>7. fresh = new
          BY <1>f, <1>5, <5>5, <5>6, FreshIsNew
        <5>8. after = live[b]
          BY <1>s, <5>5, <5>7
        <5>9. DeltaMatches(r, d) /\ ApplyDelta(r, d) = live[b]
          BY <1>d, <1>5, <5>4, <5>5, <5>6, <5>7, DeltaFits
        <5>10. replay'[p] = live[b]
          <6>1. r \notin {NoLines, Corrupt}
            BY <1>3, <4>2, <5>4, ContentsFacts
          <6>2. QED
            BY <1>3, <3>3, <5>9, <6>1 DEF Rebuilt
        <5>11. QED
          BY <4>1, <4>2, <5>2, <5>8, <5>10 DEF Traced
      <4>7. QED
        BY <3>1, <4>1, <4>5, <4>6, SameSettings DEF Chained
    <3>7. QED
      BY <1>1, <3>2, <3>4, <3>5, <3>6, SameSettings DEF CaptureInv, ObserverInv
  <2>3. QED
    BY <2>1, <2>2
<1>16. QED
  BY <1>2, <1>8, <1>13, <1>14, <1>15 DEF CaptureInv

-----------------------------------------------------------------------------
(***************************************************************************)
(* The theorems.                                                           *)
(***************************************************************************)

\* Before M.setup nothing is attached and nothing is known.
LEMMA InitHolds == Init => CaptureInv
<1> SUFFICES ASSUME Init PROVE CaptureInv
  OBVIOUS
<1>1. inst \in Instances /\ << Blank >> \in Contents /\ 0 \in Counts
  <2>1. inst \in Instances
    BY DEF Init
  <2>2. QED
    BY <2>1, BlankBuffer, SettingsFacts DEF Counts
<1>2. EditorInv
  <2>1. /\ live \in [Buffers -> Contents \cup {<< >>}]
        /\ \A b \in Buffers : b \in loaded <=> live[b] # << >>
    BY <1>1 DEF Init
  <2>2. /\ name \in [Buffers -> Names]
        /\ \A b, c \in Buffers \ wiped : name[b] = name[c] => b = c \/ name[b] = NoName
    BY DEF Init, Names
  <2>3. notes \in [Buffers -> Seq(Spans)] /\ \A b \in Buffers : Len(notes[b]) <= MaxLag
    <3>1. MaxLag \in Nat
      BY <1>1, SettingsFacts
    <3>2. << >> \in Seq(Spans) /\ Len(<< >>) = 0
      OBVIOUS
    <3>3. QED
      BY <3>1, <3>2 DEF Init
  <2>4. QED
    BY <1>1, <2>1, <2>2, <2>3 DEF Init, EditorInv
<1>3. PluginInv
  BY Zenon, <1>1 DEF Init, PluginInv
<1>4. ObserverInv
  BY DEF Init, ObserverInv
<1>5. QED
  BY <1>2, <1>3, <1>4 DEF CaptureInv

\* Every step keeps the invariant.
LEMMA StepKeeps == CaptureInv /\ [Next]_vars => CaptureInv'
<1> SUFFICES ASSUME CaptureInv, [Next]_vars PROVE CaptureInv'
  OBVIOUS
<1>1. CASE UNCHANGED vars
  <2>1. UNCHANGED << inst, editor, plugin, uploads, observer >>
    BY <1>1 DEF vars
  <2>2. EditorInv'
    BY <2>1, EditorSame DEF CaptureInv
  <2>3. PluginInv'
    BY <2>1, SameSettings DEF CaptureInv, PluginInv, Confirmable, editor, plugin
  <2>4. ObserverInv'
    BY <2>1, ObserverSame DEF plugin
  <2>5. QED
    BY <2>2, <2>3, <2>4 DEF CaptureInv
<1>2. ASSUME inst' = inst, Steps PROVE CaptureInv'
  <2>1. /\ loaded \in SUBSET Buffers /\ started \in BOOLEAN /\ paused \in BOOLEAN
        /\ uploads \in [Slots -> Upload \cup {NoUpload}] /\ inst \in Instances
    BY DEF CaptureInv, EditorInv, PluginInv
  <2>2. CASE setup
    BY Zenon, <1>2, <2>1, <2>2, AttachStep DEF setup
  <2>3. CASE rescan
    BY <1>2, <2>1, <2>3, AttachStep DEF rescan
  <2>4. CASE shutdown
    BY Zenon, <1>2, <2>1, <2>4, PlainStep DEF shutdown
  <2>5. CASE pause
    BY <1>2, <2>1, <2>5, PlainStep DEF pause
  <2>6. CASE resume
    BY Zenon, <1>2, <2>1, <2>6, PlainStep DEF resume
  <2>7. ASSUME NEW b \in Buffers, NEW p \in inst.names, NEW c \in Contents, Load(b, p, c)
        PROVE  CaptureInv'
    BY <1>2, <2>7, LoadKeeps
  <2>8. ASSUME NEW b \in Buffers, Enter(b) PROVE CaptureInv'
    <3>1. {b} \in SUBSET Buffers /\ attach({b}, attached) /\ anchor_buffer({b}) /\ Settled
          /\ UNCHANGED editor /\ UNCHANGED observer /\ started' = started /\ paused' = paused
      BY <2>8 DEF Enter
    <3>2. QED
      BY <1>2, <2>1, <3>1, AttachStep
  <2>9. ASSUME NEW b \in Buffers, Write(b) PROVE CaptureInv'
    <3>1. {b} \in SUBSET Buffers /\ anchor_buffer({b}) /\ Settled
          /\ UNCHANGED editor /\ UNCHANGED observer /\ UNCHANGED plugin
      BY <2>9 DEF Write
    <3>2. live' \in [Buffers -> Contents \cup {<< >>}] /\ name' \in [Buffers -> Names]
      BY <3>1 DEF CaptureInv, EditorInv, editor
    <3>3. uploads' \in [Slots -> Upload \cup {NoUpload}]
      BY <2>1, <3>1, <3>2, AnchorKeeps
    <3>4. QED
      BY <1>2, <2>1, <3>1, <3>3, PlainStep DEF plugin
  <2>10. ASSUME NEW b \in Buffers, ToggleExcluded(b) PROVE CaptureInv'
    BY <1>2, <2>10, ToggleKeeps
  <2>11. ASSUME NEW b \in Buffers, on_lines(b) PROVE CaptureInv'
    BY <1>2, <2>11, ReportKeeps
  <2>12. ASSUME NEW b \in Buffers, NEW p \in inst.names, Rename(b, p) PROVE CaptureInv'
    BY <1>2, <2>12, RenameKeeps
  <2>13. ASSUME NEW b \in Buffers, NEW wipe \in BOOLEAN, Close(b, wipe) PROVE CaptureInv'
    BY <1>2, <2>13, CloseKeeps
  <2>14. ASSUME NEW b \in Buffers, NEW first \in 0 .. Len(live[b]), NEW last \in 0 .. Len(live[b]),
                NEW new \in Contents \cup {<< >>}, Change(b, first, last, new)
         PROVE  CaptureInv'
    <3>1. b \in loaded
      BY <2>14 DEF Change
    <3>2. Len(live[b]) \in Nat
      BY <2>1, <3>1, ContentsFacts, SettingsFacts DEF CaptureInv, EditorInv
    <3>3. first \in Nat /\ last \in Nat
      BY <3>2
    <3>4. QED
      BY <1>2, <2>14, <3>3, ChangeKeeps
  <2>15. ASSUME NEW s \in Slots, UploadAnswered(s) PROVE CaptureInv'
    BY <1>2, <2>15, AnswerKeeps
  <2>16. QED
    BY <1>2, <2>2, <2>3, <2>4, <2>5, <2>6, <2>7, <2>8, <2>9, <2>10, <2>11, <2>12, <2>13,
       <2>14, <2>15 DEF Steps
<1>3. QED
  BY <1>1, <1>2 DEF Next

\* The inductive invariant of the capture side holds for any number of buffers,
\* names and uploads and all the settings, however changes are nested.
THEOREM CaptureInvariant == Spec => []CaptureInv
  BY InitHolds, StepKeeps, PTL DEF Spec

\* Type correctness.
THEOREM TypeCorrect == Spec => []TypeOK
<1>1. CaptureInv => TypeOK
  <2> SUFFICES ASSUME CaptureInv PROVE TypeOK
    OBVIOUS
  <2>1. \A b \in Buffers : Len(notes[b]) <= MaxLag /\ \A i \in DOMAIN notes[b] : notes[b][i] \in Note
    <3> SUFFICES ASSUME NEW b \in Buffers
                 PROVE  /\ Len(notes[b]) <= MaxLag
                        /\ \A i \in DOMAIN notes[b] : notes[b][i] \in Note
      OBVIOUS
    <3>1. notes[b] \in Seq(Spans) /\ Len(notes[b]) <= MaxLag
      BY DEF CaptureInv, EditorInv
    <3>2. \A i \in DOMAIN notes[b] : notes[b][i] \in Spans
      BY <3>1
    <3>3. QED
      BY <3>1, <3>2 DEF Spans
  <2>2. QED
    BY <2>1 DEF CaptureInv, EditorInv, PluginInv, ObserverInv, TypeOK
<1>2. QED
  BY <1>1, CaptureInvariant, PTL

\* A replay that no delta contradicts has as many rows as the buffer, however
\* changes are nested (on_lines_handler): the count is right because the newest
\* change comes first and finds the shadow as long as it left it.
THEOREM ReplaysHaveTheRows == Spec => []RowCountExact
<1>1. CaptureInv => RowCountExact
  <2> SUFFICES ASSUME CaptureInv, Settled, NEW b \in chained
               PROVE  /\ name[b] \in Paths
                      /\ replay[name[b]] = Corrupt
                           \/ Len(replay[name[b]]) = Len(BufferOf(live[b]))
    BY DEF RowCountExact
  <2>1. Chained(b) /\ b \in Buffers /\ notes[b] = << >>
    BY DEF CaptureInv, ObserverInv, Settled
  <2>2. name[b] \in Paths /\ Counted(b)
    BY <2>1 DEF Chained
  <2>3. CASE b \in loaded
    BY <2>1, <2>2, <2>3 DEF Counted, BufferOf, EmptyFile, CaptureInv, EditorInv
  <2>4. CASE b \notin loaded
    BY Zenon, <2>1, <2>2, <2>4 DEF Counted, BufferOf, EmptyFile, CaptureInv, EditorInv
  <2>5. QED
    BY <2>2, <2>3, <2>4
<1>2. QED
  BY <1>1, CaptureInvariant, PTL

\* When changes are reported one by one, replaying a file from its last anchor
\* gives the text in the editor (anchor_buffer, on_lines_handler).
THEOREM ReplaysAreExact == Spec => []ReplayExact
<1>1. CaptureInv => ReplayExact
  <2> SUFFICES ASSUME CaptureInv, Settled, MaxLag = 1, NEW b \in chained
               PROVE  name[b] \in Paths /\ replay[name[b]] = BufferOf(canonical_bytes(live[b]))
    BY DEF ReplayExact
  <2>1. Chained(b) /\ b \in Buffers /\ notes[b] = << >> /\ inst \in Instances
    BY DEF CaptureInv, ObserverInv, EditorInv, Settled
  <2>2. name[b] \in Paths /\ Counted(b) /\ Traced(b)
    BY <2>1 DEF Chained
  <2>3. live[b] \in Contents \cup {<< >>} /\ (b \in loaded <=> live[b] # << >>)
    BY <2>1 DEF CaptureInv, EditorInv
  <2>4. QED
    BY <2>1, <2>2, <2>3, AnchorContent DEF Counted, Traced
<1>2. QED
  BY <1>1, CaptureInvariant, PTL
=============================================================================

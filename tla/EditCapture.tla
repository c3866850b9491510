----------------------------- MODULE EditCapture -----------------------------
(***************************************************************************)
(* The capture side of the editor plugin: buffers.lua (a shadow copy of    *)
(* every attached buffer, one edit_delta per line callback) and the parts  *)
(* of init.lua that emit anchors.  An anchor binds the hash of the whole   *)
(* buffer to a point of the event stream, but it is emitted only when the  *)
(* asynchronous upload of the content has been answered, while the user    *)
(* goes on editing, renaming and closing buffers.  The two requests of an  *)
(* upload are left out, it is only in flight or over: its outcome goes     *)
(* into a field no replay reads.  The reason of an anchor, which decides   *)
(* between the event types buffer_open and buffer_write, is left out too:  *)
(* both reset a replay.                                                    *)
(*                                                                         *)
(* The editor itself (buffer contents, names, the order of its callbacks)  *)
(* is external and is modelled from how the plugin uses it.  `replay` is   *)
(* an observer: what the events emitted so far rebuild for each path.      *)
(***************************************************************************)
EXTENDS LineDelta, FiniteSets, SequencesExt

CONSTANTS
  Buffers,        \* buffer numbers
  Paths,          \* absolute file names
  NoName,         \* the name of an unnamed buffer
  Slots,          \* bound: uploads that may be in flight at once
  Instances,      \* bound: the settings that are looked at
  NoLines,        \* "no shadow", "no rebuilt text"
  Corrupt,        \* a rebuilt text a delta did not fit
  NoUpload        \* a free slot

ASSUME NamesOK == NoName \notin Paths
ASSUME InstancesOK ==
  \A i \in Instances :
    /\ i.names \subseteq Paths /\ Blank \in i.lines /\ i.max_lines \in Nat \ {0}
    /\ i.max_lag \in Nat \ {0} /\ i.may_pause \in BOOLEAN /\ i.anchor_every \in Nat
    /\ {NoLines, Corrupt} \cap Seq(i.lines) = {}

VARIABLE inst     \* the settings of this behaviour

Lines       == inst.lines         \* the lines a buffer can hold
MaxLines    == inst.max_lines     \* bound: lines in a buffer
MaxLag      == inst.max_lag       \* bound: changes before the line callback of the first
MayPause    == inst.may_pause     \* bound: whether the user pauses the plugin
AnchorEvery == inst.anchor_every  \* periodic_anchor_every; 0 switches periodic anchors off

\* A buffer in the editor has at least one line.
Contents == UNION {[1 .. n -> Lines] : n \in 1 .. MaxLines}

Names   == Paths \cup {NoName}

VARIABLES
  loaded,     \* buffers with content in the editor
  live,       \* the lines of each buffer (no line when it is not loaded)
  name,       \* the file name of each buffer
  wiped,      \* buffers that are no longer valid
  excluded,   \* buffers is_excluded_buffer() rejects
  notes,      \* line changes the callback has not seen yet, per buffer
  shadows,    \* M.shadows[b].lines
  delta_count,\* M.shadows[b].delta_count, modulo AnchorEvery
  attached,   \* M.attached
  started,    \* M.started
  paused,     \* M.paused
  uploads,    \* anchors whose blob check or upload is in flight
  replay,     \* observer: what the emitted events rebuild for a path
  chained     \* observer: buffers with an anchor and no unrecorded change since

editor   == << loaded, live, name, wiped, excluded, notes >>
plugin   == << shadows, delta_count, attached, started, paused >>
observer == << replay, chained >>
vars     == << inst, editor, plugin, uploads, observer >>

Upload == [buf : Buffers, path : Names, content : Contents \cup {EmptyFile}]
Note   == [first : Nat, last : Nat, new_last : Nat]

\* The row counter is only ever read modulo periodic_anchor_every.
Counts == IF AnchorEvery = 0 THEN {0} ELSE 0 .. AnchorEvery - 1

TypeOK ==
  /\ inst \in Instances
  /\ loaded   \subseteq Buffers
  /\ wiped    \subseteq Buffers \ loaded
  /\ live     \in [Buffers -> Contents \cup {<< >>}]
  /\ name     \in [Buffers -> Names]
  /\ excluded \subseteq Buffers
  /\ \A b \in Buffers : Len(notes[b]) <= MaxLag /\ \A i \in DOMAIN notes[b] : notes[b][i] \in Note
  /\ shadows  \in [Buffers -> Contents \cup {NoLines}]
  /\ delta_count \in [Buffers -> Counts]
  /\ attached \subseteq loaded
  /\ started  \in BOOLEAN
  /\ paused   \in BOOLEAN
  /\ uploads  \in [Slots -> Upload \cup {NoUpload}]
  /\ replay   \in [Paths -> Contents \cup {<< >>, NoLines, Corrupt}]
  /\ chained  \subseteq Buffers

(***************************************************************************)
(* The state before M.setup(): some buffers are open, nothing is attached. *)
(***************************************************************************)
Init ==
  /\ inst \in Instances
  /\ loaded \in SUBSET Buffers
  /\ live   = [b \in Buffers |-> IF b \in loaded THEN << Blank >> ELSE << >>]
  /\ name   = [b \in Buffers |-> NoName]
  /\ wiped  = {}
  /\ excluded = {}
  /\ notes  = [b \in Buffers |-> << >>]
  /\ shadows = [b \in Buffers |-> NoLines]
  /\ delta_count = [b \in Buffers |-> 0]
  /\ attached = {}
  /\ started = FALSE
  /\ paused  = FALSE
  /\ uploads = [s \in Slots |-> NoUpload]
  /\ replay  = [p \in Paths |-> NoLines]
  /\ chained = {}

\* The editor runs line callbacks before anything else gets the main loop.
Settled   == \A b \in Buffers : notes[b] = << >>
Capturing == started /\ ~paused

(***************************************************************************)
(* Emission, as seen by the offline tools.  M.emit drops the event when    *)
(* the plugin is paused or not started.                                    *)
(***************************************************************************)
EmitAnchor(u) ==
  IF Capturing
  THEN /\ replay' = IF u.path = NoName THEN replay
                    ELSE [replay EXCEPT ![u.path] = BufferOf(u.content)]
       /\ chained' = IF u.path = NoName THEN chained ELSE chained \cup {u.buf}
  ELSE UNCHANGED observer

\* Bound: a rebuilt text longer than every buffer is only known to be wrong.
Rebuilt == Contents \cup {<< >>}

\* A delta without a path cannot be attributed to a file.
EmitDelta(b, d) ==
  LET p == name[b] IN
  IF Capturing /\ p # NoName
  THEN /\ replay' = [replay EXCEPT ![p] =
                       IF @ \in {NoLines, Corrupt} THEN @
                       ELSE IF DeltaMatches(@, d) /\ ApplyDelta(@, d) \in Rebuilt
                       THEN ApplyDelta(@, d) ELSE Corrupt]
       /\ UNCHANGED chained
  ELSE chained' = chained \ {b} /\ UNCHANGED replay

(***************************************************************************)
(* Attaching and anchoring.  anchor_buffer captures the content and the    *)
(* path, and starts ensure_blob; anchor_buffer(B) does it for all         *)
(* the buffers of B, in one handler.                                       *)
(***************************************************************************)
FreeSlots == {s \in Slots : uploads[s] = NoUpload}

anchor_buffer(B) ==
  LET anchored == IF Capturing' THEN B \ (excluded \cup wiped) ELSE {} IN
  \E at \in [anchored -> FreeSlots] :
    /\ \A b, c \in anchored : at[b] = at[c] => b = c
    /\ uploads' = [s \in Slots |->
         IF \E b \in anchored : at[b] = s
         THEN LET b == CHOOSE x \in anchored : at[x] = s IN
              [buf |-> b, path |-> name'[b], content |-> canonical_bytes(live'[b])]
         ELSE uploads[s]]

\* attach(): a buffer that is attached already (one of `was`) keeps its shadow.
attach(B, was) ==
  LET fresh == {b \in B \cap loaded' : b \notin was \cup excluded} IN
  /\ shadows' = [b \in Buffers |-> IF b \in fresh THEN live'[b] ELSE shadows[b]]
  /\ delta_count' = [b \in Buffers |-> IF b \in fresh THEN 0 ELSE delta_count[b]]
  /\ attached' = was \cup fresh

\* M.setup: a new session; every loaded buffer is attached and anchored.
setup ==
  /\ Settled
  /\ started' = TRUE
  /\ paused'  = FALSE
  /\ UNCHANGED << editor, observer >>
  /\ attach(loaded, attached)
  /\ anchor_buffer(loaded)

\* M.rescan attaches and anchors whatever is loaded.
rescan ==
  /\ Settled
  /\ UNCHANGED << editor, started, paused, observer >>
  /\ attach(loaded, attached)
  /\ anchor_buffer(loaded)

shutdown == Settled /\ started /\ started' = FALSE
            /\ UNCHANGED << editor, shadows, delta_count, attached, paused,
                            uploads, observer >>

pause  == Settled /\ MayPause /\ ~paused /\ paused' = TRUE
          /\ UNCHANGED << editor, shadows, delta_count, attached, started,
                          uploads, observer >>

resume == Settled /\ paused /\ paused' = FALSE
          /\ UNCHANGED << editor, shadows, delta_count, attached, started,
                          uploads, observer >>

(***************************************************************************)
(* Editor events and the autocommands they run.                            *)
(***************************************************************************)
NameFree(b, p) == \A c \in Buffers \ ({b} \cup wiped) : name[c] # p

\* A file is read into a buffer (BufReadPost, BufNewFile).  Loading over a
\* loaded buffer detaches it first; on_detach keeps the old shadow.
Load(b, p, content) ==
  /\ Settled /\ b \notin wiped /\ NameFree(b, p)
  /\ loaded' = loaded \cup {b}
  /\ live'   = [live EXCEPT ![b] = content]
  /\ name'   = [name EXCEPT ![b] = p]
  /\ chained' = chained \ {b}
  /\ UNCHANGED << wiped, excluded, notes, started, paused, replay >>
  /\ IF Capturing
     THEN /\ attach({b}, attached \ {b})
          /\ anchor_buffer({b})
     ELSE /\ attached' = attached \ {b}
          /\ UNCHANGED << shadows, delta_count, uploads >>

\* BufEnter on a buffer that is not tracked (on_buf_enter); on a tracked one
\* it only emits navigation events.
Enter(b) ==
  /\ Settled /\ Capturing
  /\ b \in loaded \ (excluded \cup attached)
  /\ UNCHANGED << editor, started, paused, observer >>
  /\ attach({b}, attached)
  /\ anchor_buffer({b})

\* BufWritePost.
Write(b) ==
  /\ Settled /\ Capturing
  /\ b \in loaded /\ name[b] # NoName
  /\ UNCHANGED << editor, plugin, observer >>
  /\ anchor_buffer({b})

\* The buffer gets another name (:file); the plugin has no handler for it.
Rename(b, p) ==
  /\ Settled /\ b \in loaded /\ name[b] # p /\ NameFree(b, p)
  /\ name' = [name EXCEPT ![b] = p]
  /\ chained' = chained \ {b}
  /\ UNCHANGED << loaded, live, wiped, excluded, notes, plugin, uploads,
                  replay >>

\* A buffer becomes excluded (opt-out variable, buffer type) or stops being so.
ToggleExcluded(b) ==
  /\ Settled /\ b \in loaded
  /\ excluded' = (excluded \ {b}) \cup ({b} \ excluded)
  /\ UNCHANGED << loaded, live, name, wiped, notes, plugin, uploads, observer >>

\* BufDelete (the buffer is unloaded) and BufWipeout (it is gone for good);
\* both end in buffers.detach.
Close(b, wipe) ==
  /\ Settled /\ b \in loaded
  /\ loaded' = loaded \ {b}
  /\ live'   = [live EXCEPT ![b] = << >>]
  /\ IF wipe
     THEN wiped' = wiped \cup {b} /\ name' = [name EXCEPT ![b] = NoName]
     ELSE UNCHANGED << wiped, name >>
  /\ attached' = attached \ {b}
  /\ shadows' = [shadows EXCEPT ![b] = NoLines]
  /\ delta_count' = [delta_count EXCEPT ![b] = 0]
  /\ chained' = chained \ {b}
  /\ UNCHANGED << excluded, notes, started, paused, uploads, replay >>

(***************************************************************************)
(* Text changes.  The editor replaces rows [first, last) and calls back;   *)
(* with MaxLag > 1 further changes of the same buffer (formatters, paired  *)
(* brackets) are made before the callback of the first one runs, by        *)
(* another listener of the first one, and are reported before it.  Bound:  *)
(* with periodic anchors a change needs a slot for the anchor it may       *)
(* start.                                                                  *)
(***************************************************************************)
Change(b, first, last, new) ==
  LET after == splice_lines(live[b], first, last, new) IN
  /\ b \in loaded
  /\ \A c \in Buffers \ {b} : notes[c] = << >>
  /\ Len(notes[b]) < MaxLag
  /\ AnchorEvery > 0 => Cardinality(FreeSlots) > Len(notes[b])
  /\ first <= last /\ last <= Len(live[b]) /\ (first < last \/ new # << >>)
  /\ after \in Contents
  /\ live' = [live EXCEPT ![b] = after]
  /\ IF b \in attached
     THEN /\ notes' = [notes EXCEPT ![b] = Append(@, [first |-> first, last |-> last,
                                                     new_last |-> first + Len(new)])]
          /\ UNCHANGED chained
     ELSE chained' = chained \ {b} /\ UNCHANGED notes
  /\ UNCHANGED << loaded, name, wiped, excluded, plugin, uploads, replay >>

\* Mutant of CountAgrees: the ranges of the callback are trusted.
CountTrusted(b, n, fresh) == TRUE

\* The divergence guard: the live line count must be what the delta implies.
CountAgrees(b, n, fresh) ==
  Len(live[b]) = expected_total(Len(shadows[b]), n.first, n.last, Len(fresh))

\* on_lines_handler for the newest change not seen yet.
on_lines(b) ==
  LET n     == Last(notes[b])
      fresh == Slice(live[b], n.first, n.new_last)
      count == IF AnchorEvery = 0 THEN 0 ELSE (delta_count[b] + 1) % AnchorEvery
      Skip  == chained' = chained \ {b} /\ UNCHANGED << replay >>
  IN
  /\ notes[b] # << >>
  /\ notes' = [notes EXCEPT ![b] = Front(@)]
  /\ UNCHANGED << loaded, live, name, wiped, excluded, attached, started, paused >>
  /\ IF b \in excluded
     THEN Skip /\ UNCHANGED << shadows, delta_count, uploads >>
     ELSE IF shadows[b] = NoLines
     THEN /\ shadows' = [shadows EXCEPT ![b] = live[b]]
          /\ delta_count' = [delta_count EXCEPT ![b] = 0]
          /\ Skip /\ UNCHANGED uploads
     ELSE IF ~CountAgrees(b, n, fresh)
     THEN /\ shadows' = [shadows EXCEPT ![b] = live[b]]
          /\ Skip /\ UNCHANGED << delta_count, uploads >>
     ELSE /\ shadows' = [shadows EXCEPT ![b] = splice_lines(@, n.first, n.last, fresh)]
          /\ delta_count' = [delta_count EXCEPT ![b] = count]
          /\ EmitDelta(b, compute_delta(shadows[b], n.first, n.last, fresh))
          /\ IF AnchorEvery > 0 /\ count = 0
             THEN anchor_buffer({b})
             ELSE UNCHANGED uploads

\* Mutant of AnchorStillTrue: an edit during the upload goes unnoticed.
AnchorSameName(u) == name[u.buf] = u.path

(***************************************************************************)
(* The callback anchor_buffer passes to ensure_blob, run when the upload   *)
(* has been answered or has failed.  The anchor is dropped when the buffer *)
(* is gone, renamed or edited since.                                       *)
(***************************************************************************)
AnchorStillTrue(u) ==
  /\ name[u.buf] = u.path
  /\ canonical_bytes(live[u.buf]) = u.content

\* Mutant of refresh_shadow: an unloaded buffer is read as well.
refresh_shadow_always(b) == shadows' = [shadows EXCEPT ![b] = live[b]]

refresh_shadow(b) ==
  shadows' = IF b \in loaded THEN [shadows EXCEPT ![b] = live[b]] ELSE shadows

UploadAnswered(s) ==
  LET u == uploads[s] IN
  /\ Settled /\ u # NoUpload
  /\ uploads' = [uploads EXCEPT ![s] = NoUpload]
  /\ UNCHANGED << editor, delta_count, attached, started, paused >>
  /\ IF u.buf \in wiped \cup excluded
     THEN UNCHANGED << shadows, observer >>
     ELSE /\ refresh_shadow(u.buf)
          /\ IF AnchorStillTrue(u) THEN EmitAnchor(u) ELSE UNCHANGED observer

Steps ==
  \/ setup \/ rescan \/ shutdown \/ pause \/ resume
  \/ \E b \in Buffers :
       \/ \E p \in inst.names, c \in Contents : Load(b, p, c)
       \/ Enter(b) \/ Write(b) \/ ToggleExcluded(b) \/ on_lines(b)
       \/ \E p \in inst.names : Rename(b, p)
       \/ \E wipe \in BOOLEAN : Close(b, wipe)
       \/ \E first, last \in 0 .. Len(live[b]), new \in Contents \cup {<< >>} :
            Change(b, first, last, new)
  \/ \E s \in Slots : UploadAnswered(s)

Next == Steps /\ UNCHANGED inst

Spec == Init /\ [][Next]_vars

-----------------------------------------------------------------------------
(***************************************************************************)
(* Properties.                                                             *)
(***************************************************************************)

\* Whenever a buffer has an anchor and every later change of it was emitted,
\* replaying its file from the last anchor gives the text in the editor: an
\* anchor answered late never binds an old hash to a newer text, and no
\* delta is computed from a shadow that had diverged (anchor_buffer,
\* on_lines_handler).
ReplayExact ==
  Settled /\ MaxLag = 1 => \A b \in chained :
    name[b] \in Paths /\ replay[name[b]] = BufferOf(canonical_bytes(live[b]))

\* However changes are nested, a replay that no delta contradicts never has
\* another number of rows than the buffer: the divergence guard lets through
\* only changes the live row count confirms (on_lines_handler).  The text of a
\* row may differ, and is noticed when the row is changed.
RowCountExact ==
  Settled => \A b \in chained :
    /\ name[b] \in Paths
    /\ replay[name[b]] = Corrupt \/ Len(replay[name[b]]) = Len(BufferOf(live[b]))
=============================================================================

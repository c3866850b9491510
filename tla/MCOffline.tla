----------------------------- MODULE MCOffline -----------------------------
\* Values of Offline's constants for TLC.
EXTENDS Offline

Symmetry == Permutations(Weights) \cup Permutations(Paths)

\* One case with everything, one that is only compiled and tested; the third
\* has a command to run but no test.
Checks == [c \in Cases |->
  [compile |-> c < 3, test |-> c < 3, run |-> c # 2, stdout |-> c = 1]]

Ends(a, b, c, same) == [compile |-> a, test |-> b, run |-> c, equal |-> same]
Ended ==
  {Ends("zero", "zero", "zero", TRUE), Ends("zero", "zero", "zero", FALSE),
   Ends("zero", "zero", "nonzero", TRUE), Ends("nonzero", "zero", "zero", TRUE),
   Ends("late", "zero", "zero", TRUE), Ends("zero", "missing", "zero", TRUE)}

\* Texts for the event stream: a glyph of two bytes, a line that looks like the
\* end of a block, one that begins with a backslash, several lines.
InsertedTexts == {<< >>, << "a" >>, << "wide" >>, << "newline", "</S>" >>}
SnapshotTexts == {<< "backslash", "a" >>, << "</S>", "newline" >>}
MessageTexts  == {<< "</D>" >>, << "backslash", "</X>", "newline", "</X>" >>}
=============================================================================

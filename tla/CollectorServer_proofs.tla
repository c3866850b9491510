------------------------ MODULE CollectorServer_proofs ------------------------
(***************************************************************************)
(* Proofs about CollectorServer: its five invariants and that it           *)
(* implements SessionLog, for every number of sessions, contents, requests *)
(* and power failures.                                                     *)
(*                                                                         *)
(* None of the invariants is inductive.  What carries them is that the     *)
(* plugin never gives two events the same session and number (Numbered,    *)
(* KeysUnique) nor puts an event in two batches (BatchesApart): INSERT OR  *)
(* IGNORE therefore drops an event only if that same event is there, and a *)
(* batch that arrives again is wholly old or wholly new.  The tables on    *)
(* disk are an earlier state of the committed ones (Later), which is why a *)
(* power failure leaves no event without its session.                      *)
(***************************************************************************)
EXTENDS CollectorServer, Basics_proofs

Requests == Starts \cup Ends \cup Batches \cup Checks \cup Uploads \cup Snapshots

\* A batch is anything sent with that operation; an event has been emitted
\* when it is still queued or in a batch.
SentBatches == {q \in sent : q.op = "batch"}
Batched(e)  == \E r \in SentBatches : e \in r.events
Emitted(e)  == Batched(e) \/ \E s \in Sessions : e \in queue[s]

\* Requests have the form the client gives them, and the running handler works
\* on one.
RequestsOK ==
  /\ sent \subseteq Requests
  /\ job # NoJob => job \in [req : Requests, at : {"begin", "repo", "session", "rows"}]

\* No event has a number its session has not reached (M.emit).
Numbered ==
  /\ \A s \in Sessions : \A e \in queue[s] : e.sess = s
  /\ \A e \in Event : Emitted(e) => e.seq <= seq[e.sess]

\* The session and the number identify an event.
KeysUnique ==
  \A e, f \in Event : Emitted(e) /\ Emitted(f) /\ e.sess = f.sess /\ e.seq = f.seq => e = f

\* An event is in one batch, and no longer queued then (M.flush).
BatchesApart ==
  /\ \A r, q \in SentBatches : r # q => r.events \cap q.events = {}
  /\ \A r \in SentBatches, s \in Sessions : r.events \cap queue[s] = {}

\* No batch is stored in part; no event is stored without its session.
Whole(tables) ==
  \A r \in SentBatches : r.events \subseteq tables.events \/ r.events \cap tables.events = {}

Known(tables) == \A e \in tables.events : InTable(tables, e.sess)

\* The tables u have every row of t that a client has been answered for.
Later(t, u) ==
  /\ t.events \subseteq u.events /\ t.blobs \subseteq u.blobs
  /\ t.file_versions \subseteq u.file_versions
  /\ \A s \in Sessions : InTable(t, s) =>
       InTable(u, s) /\ (t.sessions[s].ended => u.sessions[s].ended)

\* The tables, on disk and committed.
RowsOK ==
  /\ \A e \in db.events : Batched(e)
  /\ Whole(db) /\ Whole(synced)
  /\ Known(db) /\ Known(synced)
  /\ Later(synced, db)

\* What the steps of a handler have done already is done.
JobOK ==
  /\ ForeignKeysMet
  /\ At("start", "repo") => job.req.machine \in db.machines
  /\ staged # {} => At("batch", "rows") /\ staged \subseteq job.req.events

\* An event says uploaded only when its content is there.
UploadsHold ==
  losses = 0 => \A e \in Event : Emitted(e) /\ e.uploaded => e.hash \in db.blobs

\* The inductive invariant.
IInv ==
  /\ TypeOK /\ RequestsOK /\ Numbered /\ KeysUnique /\ BatchesApart
  /\ RowsOK /\ JobOK /\ UploadsHold /\ AckedIsStored

-----------------------------------------------------------------------------
LEMMA FreshType == ASSUME NEW rows, NEW evs PROVE Fresh(rows, evs) \subseteq evs
  BY DEF Fresh

\* What a request has of its operation.
LEMMA RequestShapes ==
  ASSUME NEW r \in Requests
  PROVE  /\ r.op = "start" => r \in Starts
         /\ r.op = "end" => r \in Ends
         /\ r.op = "batch" => r \in Batches
         /\ r.op = "check" => r \in Checks
         /\ r.op = "upload" => r \in Uploads
         /\ r.op = "snapshot" => r \in Snapshots
         /\ r.op \in {"start", "end", "batch", "check", "upload", "snapshot"}
  BY DEF Requests, Starts, Ends, Batches, Checks, Uploads, Snapshots

LEMMA BatchType ==
  ASSUME IInv, NEW r \in SentBatches PROVE r.events \subseteq Event
<1>1. r \in Requests /\ r.op = "batch"
  BY DEF IInv, RequestsOK, SentBatches
<1>2. QED
  BY <1>1, RequestShapes DEF Batches

LEMMA EmittedType ==
  ASSUME IInv, NEW e, Emitted(e) PROVE e \in Event
  BY BatchType DEF Emitted, Batched, IInv, TypeOK

\* A request that was answered stays stored while rows are only added.
LEMMA StoredStays ==
  ASSUME NEW r \in Requests, Stored(r), Later(db, db')
  PROVE  Stored(r)'
<1>1. CASE r.op = "start"
  <2>1. r.sess \in Sessions
    BY <1>1, RequestShapes DEF Starts
  <2>2. QED
    BY <1>1, <2>1 DEF Stored, Later
<1>2. CASE r.op = "end"
  <2>1. r.sess \in Sessions
    BY <1>2, RequestShapes DEF Ends
  <2>2. QED
    BY <1>2, <2>1 DEF Stored, Later
<1>3. CASE r.op = "batch"
  BY <1>3 DEF Stored, Later
<1>4. CASE r.op = "upload"
  BY <1>4 DEF Stored, Later
<1>5. CASE r.op = "snapshot"
  BY <1>5 DEF Stored, Later
<1>6. CASE r.op = "check"
  BY <1>6 DEF Stored
<1>7. QED
  BY <1>1, <1>2, <1>3, <1>4, <1>5, <1>6, RequestShapes

\* The answers given so far hold in the next state.
LEMMA AnswersStay ==
  ASSUME IInv, Later(db, db'), UNCHANGED losses,
         acked' = acked \/ \E r \in Requests : acked' = acked \cup {r} /\ Stored(r)'
  PROVE  AckedIsStored'
<1>1. SUFFICES ASSUME losses = 0, NEW r \in acked PROVE Stored(r)'
  BY DEF AckedIsStored
<1>2. r \in Requests /\ Stored(r)
  BY <1>1 DEF IInv, TypeOK, RequestsOK, AckedIsStored
<1>3. QED
  BY <1>2, StoredStays

\* A step that leaves the plugin alone leaves what it has sent numbered,
\* unique and in batches of its own.
LEMMA PluginStill ==
  ASSUME IInv, UNCHANGED Plugin
  PROVE  Numbered' /\ KeysUnique' /\ BatchesApart'
  BY DEF IInv, Plugin, client, Numbered, KeysUnique, BatchesApart, SentBatches, Batched, Emitted

\* A step of the plugin leaves the server and its database alone: what is
\* known of the rows and of the running handler holds after it, as long as no
\* batch that was sent before is changed.
LEMMA ServerStill ==
  ASSUME IInv, UNCHANGED Server, sent \subseteq sent', sent' \subseteq Requests,
         \A r \in SentBatches' : r \in SentBatches \/ r.events \cap db.events = {}
  PROVE  RequestsOK' /\ RowsOK' /\ JobOK' /\ AckedIsStored'
<1> USE DEF IInv, Server
<1>1. RequestsOK'
  BY DEF RequestsOK
<1>2. RowsOK'
  <2>1. \A e \in db.events : Batched(e)'
    BY DEF RowsOK, Batched, SentBatches
  <2>2. Whole(db)' /\ Whole(synced)'
    BY DEF RowsOK, Whole, Later
  <2>3. Known(db)' /\ Known(synced)' /\ Later(synced, db)'
    BY DEF RowsOK, Known, Later, InTable
  <2>4. QED
    BY <2>1, <2>2, <2>3 DEF RowsOK
<1>3. JobOK'
  BY DEF JobOK, ForeignKeysMet, At, InTable
<1>4. AckedIsStored'
  BY DEF AckedIsStored, Stored, InTable
<1>5. QED
  BY <1>1, <1>2, <1>3, <1>4

\* M.emit gives the event a number of its session that no event has.
LEMMA EmitKeeps ==
  ASSUME IInv, NEW s \in Sessions, NEW hash \in Hashes \cup {NoHash},
         NEW uploaded \in BOOLEAN, Emit(s, hash, uploaded),
         losses = 0 /\ uploaded => hash \in db.blobs,
         SentBatches' = SentBatches, UNCHANGED << db, losses >>
  PROVE  /\ seq' \in [Sessions -> 0 .. MaxEvents] /\ queue' \in [Sessions -> SUBSET Event]
         /\ Numbered' /\ KeysUnique' /\ BatchesApart' /\ UploadsHold'
<1> DEFINE new == [sess |-> s, seq |-> seq[s] + 1, hash |-> hash, uploaded |-> uploaded]
<1>1. seq \in [Sessions -> 0 .. MaxEvents] /\ queue \in [Sessions -> SUBSET Event]
  BY DEF IInv, TypeOK
<1>2. MaxEvents \in Nat
  BY BoundsOK
<1>3. seq[s] \in 0 .. MaxEvents /\ seq[s] < MaxEvents
  <2> DEFINE total == FoldFunction(+, 0, seq)
  <2>1. seq \in [Sessions -> Nat]
    BY <1>1, <1>2
  <2>2. seq[s] <= total /\ total \in Nat
    BY Zenon, <2>1, SessionsFinite, SumBounds
  <2>3. total < MaxEvents
    BY Zenon DEF Emit
  <2>4. seq[s] \in 0 .. MaxEvents
    BY <1>1
  <2> HIDE DEF total
  <2>5. QED
    BY <1>2, <2>2, <2>3, <2>4
<1>4. seq[s] + 1 \in 1 .. MaxEvents
  BY <1>2, <1>3
<1>5. new \in Event
  BY <1>4 DEF Event
<1>6. seq' = [seq EXCEPT ![s] = seq[s] + 1] /\ queue' = [queue EXCEPT ![s] = queue[s] \cup {new}]
  BY Zenon DEF Emit
<1>7. seq' \in [Sessions -> 0 .. MaxEvents] /\ queue' \in [Sessions -> SUBSET Event]
  BY <1>1, <1>4, <1>5, <1>6
<1>8. \A e : Emitted(e)' => Emitted(e) \/ e = new
  BY <1>1, <1>6 DEF Emitted, Batched
<1>9. \A e \in Event : Emitted(e) => e.seq <= seq[e.sess]
  BY DEF IInv, Numbered
<1>10. new.sess = s /\ new.seq = seq[s] + 1 /\ new.uploaded = uploaded /\ new.hash = hash
  OBVIOUS
<1> HIDE DEF new
<1>11. Numbered'
  <2>1. \A t \in Sessions : \A e \in queue'[t] : e.sess = t
    BY <1>1, <1>6, <1>10 DEF IInv, Numbered
  <2>2. \A e \in Event : Emitted(e)' => e.seq <= seq'[e.sess]
    <3> TAKE e \in Event
    <3> HAVE Emitted(e)'
    <3>1. e.sess \in Sessions /\ e.seq \in 1 .. MaxEvents
      BY DEF Event
    <3>2. CASE e = new
      BY <1>1, <1>3, <1>6, <1>10, <3>2
    <3>3. CASE Emitted(e)
      <4>1. e.seq <= seq[e.sess]
        BY <1>9, <3>3
      <4>2. seq'[e.sess] \in {seq[e.sess], seq[e.sess] + 1}
        BY <1>1, <1>6, <3>1
      <4>3. seq[e.sess] \in Int /\ e.seq \in Int
        BY <1>1, <1>2, <3>1
      <4>4. QED
        BY <4>1, <4>2, <4>3
    <3>4. QED
      BY <1>8, <3>2, <3>3
  <2>3. QED
    BY <2>1, <2>2 DEF Numbered
<1>12. KeysUnique'
  <2>1. ASSUME NEW e \in Event, Emitted(e), e.sess = s PROVE e.seq # new.seq
    <3>1. e.seq <= seq[s]
      BY <1>9, <2>1
    <3>2. e.seq \in Int
      BY <1>2 DEF Event
    <3>3. QED
      BY <1>3, <1>10, <3>1, <3>2
  <2>2. QED
    BY <1>8, <1>10, <2>1 DEF IInv, KeysUnique
<1>13. BatchesApart'
  <2>1. ASSUME NEW r \in SentBatches PROVE new \notin r.events
    <3>1. SUFFICES ASSUME new \in r.events PROVE FALSE
      OBVIOUS
    <3>2. Emitted(new)
      BY <3>1 DEF Emitted, Batched
    <3>3. new.seq <= seq[new.sess]
      BY <1>5, <1>9, <3>2
    <3>4. QED
      BY <1>3, <1>10, <3>3
  <2>2. QED
    BY <1>1, <1>6, <2>1 DEF IInv, BatchesApart
<1>14. UploadsHold'
  BY <1>8, <1>10 DEF IInv, UploadsHold
<1>15. QED
  BY <1>7, <1>11, <1>12, <1>13, <1>14

\* Nothing was emitted: the plugin's events are as they were.
LEMMA NoEmitKeeps ==
  ASSUME IInv, SentBatches' = SentBatches, UNCHANGED << seq, queue, db, losses >>
  PROVE  /\ seq' \in [Sessions -> 0 .. MaxEvents] /\ queue' \in [Sessions -> SUBSET Event]
         /\ Numbered' /\ KeysUnique' /\ BatchesApart' /\ UploadsHold'
  BY DEF IInv, TypeOK, Numbered, KeysUnique, BatchesApart, UploadsHold, Emitted, Batched

\* A step of the plugin keeps the types when its own variables keep theirs.
LEMMA ClientTypes ==
  ASSUME TypeOK, UNCHANGED Server, sent \subseteq sent',
         anchors' \in [Sessions \X Hashes -> {"none", "checking", "uploading", "over"}],
         seq' \in [Sessions -> 0 .. MaxEvents], queue' \in [Sessions -> SUBSET Event]
  PROVE  TypeOK'
  BY DEF Server, TypeOK, At

\* What a step of the plugin that sends no batch has to show.
LEMMA NoBatchSent ==
  ASSUME IInv, UNCHANGED Server,
         NEW R \in SUBSET Requests, sent' = sent \cup R, \A r \in R : r.op # "batch",
         anchors' \in [Sessions \X Hashes -> {"none", "checking", "uploading", "over"}],
         \/ UNCHANGED << seq, queue >>
         \/ \E s \in Sessions, hash \in Hashes \cup {NoHash}, uploaded \in BOOLEAN :
              Emit(s, hash, uploaded) /\ (losses = 0 /\ uploaded => hash \in db.blobs)
  PROVE  IInv'
<1>1. SentBatches' = SentBatches
  BY DEF SentBatches
<1>2. sent \subseteq sent' /\ sent' \subseteq Requests
  BY DEF IInv, RequestsOK
<1>3. RequestsOK' /\ RowsOK' /\ JobOK' /\ AckedIsStored'
  BY <1>1, <1>2, ServerStill
<1>4. /\ seq' \in [Sessions -> 0 .. MaxEvents] /\ queue' \in [Sessions -> SUBSET Event]
      /\ Numbered' /\ KeysUnique' /\ BatchesApart' /\ UploadsHold'
  <2>1. UNCHANGED << db, losses >>
    BY DEF Server
  <2>2. CASE UNCHANGED << seq, queue >>
    BY <1>1, <2>1, <2>2, NoEmitKeeps
  <2>3. ASSUME NEW s \in Sessions, NEW hash \in Hashes \cup {NoHash}, NEW uploaded \in BOOLEAN,
               Emit(s, hash, uploaded), losses = 0 /\ uploaded => hash \in db.blobs
        PROVE  /\ seq' \in [Sessions -> 0 .. MaxEvents] /\ queue' \in [Sessions -> SUBSET Event]
               /\ Numbered' /\ KeysUnique' /\ BatchesApart' /\ UploadsHold'
    BY <1>1, <2>1, <2>3, EmitKeeps
  <2>4. QED
    BY Zenon, <2>2, <2>3
<1>5. TypeOK'
  BY <1>2, <1>4, ClientTypes DEF IInv
<1>6. QED
  BY <1>3, <1>4, <1>5 DEF IInv

LEMMA SetupKeeps ==
  ASSUME IInv, NEW s \in Sessions, NEW m \in Machines, NEW r \in StartRepos, Setup(s, m, r)
  PROVE  IInv'
<1> DEFINE R == [op : {"start"}, sess : {s}, machine : {m}, repo : {r}, valid : BOOLEAN]
<1>1. r \in Repos \cup {NoRepo}
  BY NoRepoOK
<1>2. R \in SUBSET Starts
  BY <1>1 DEF Starts
<1>3. R \in SUBSET Requests /\ \A q \in R : q.op # "batch"
  BY <1>2 DEF Requests, Starts
<1>4. /\ sent' = sent \cup R /\ UNCHANGED << anchors, Server >>
      /\ Emit(s, NoHash, FALSE)
  BY Zenon DEF Setup
<1>5. anchors' \in [Sessions \X Hashes -> {"none", "checking", "uploading", "over"}]
  BY <1>4 DEF IInv, TypeOK
<1> HIDE DEF R
<1>6. \E t \in Sessions, hash \in Hashes \cup {NoHash}, uploaded \in BOOLEAN :
        Emit(t, hash, uploaded) /\ (losses = 0 /\ uploaded => hash \in db.blobs)
  <2> WITNESS s \in Sessions, NoHash \in Hashes \cup {NoHash}, FALSE \in BOOLEAN
  <2> QED
    BY Zenon, <1>4
<1>7. QED
  BY Zenon, <1>3, <1>4, <1>5, <1>6, NoBatchSent

LEMMA FlushKeeps ==
  ASSUME IInv, NEW s \in Sessions, Flush(s)
  PROVE  IInv'
<1> DEFINE b == [op |-> "batch", events |-> queue[s]]
<1>1. queue \in [Sessions -> SUBSET Event] /\ seq \in [Sessions -> 0 .. MaxEvents]
  BY DEF IInv, TypeOK
<1>2. b \in Batches /\ b.op = "batch" /\ b.events = queue[s]
  BY <1>1 DEF Batches
<1>3. /\ queue[s] # {} /\ sent' = sent \cup {b} /\ queue' = [queue EXCEPT ![s] = {}]
      /\ UNCHANGED << anchors, seq, Server >>
  BY DEF Flush, Send
<1> HIDE DEF b
<1>4. SentBatches' = SentBatches \cup {b}
  BY <1>2, <1>3 DEF SentBatches
<1>5. \A e : Emitted(e)' => Emitted(e)
  BY <1>1, <1>2, <1>3, <1>4 DEF Emitted, Batched
<1>6. b.events \cap db.events = {}
  BY <1>2 DEF IInv, RowsOK, Batched, BatchesApart
<1>7. sent \subseteq sent' /\ sent' \subseteq Requests
  BY <1>2, <1>3 DEF IInv, RequestsOK, Requests
<1>8. RequestsOK' /\ RowsOK' /\ JobOK' /\ AckedIsStored'
  BY <1>3, <1>4, <1>6, <1>7, ServerStill
<1>9. queue' \in [Sessions -> SUBSET Event] /\ seq' \in [Sessions -> 0 .. MaxEvents]
  BY <1>1, <1>3
<1>10. Numbered'
  BY <1>1, <1>3, <1>5 DEF IInv, Numbered
<1>11. KeysUnique'
  BY <1>5 DEF IInv, KeysUnique
<1>12. BatchesApart'
  <2>1. \A t \in Sessions : t # s => queue[t] \cap queue[s] = {}
    BY DEF IInv, Numbered
  <2>2. \A t \in Sessions : b.events \cap queue'[t] = {}
    BY <1>1, <1>2, <1>3, <2>1
  <2>3. \A r \in SentBatches : r.events \cap b.events = {}
    BY <1>2 DEF IInv, BatchesApart
  <2>4. \A r \in SentBatches, t \in Sessions : r.events \cap queue'[t] = {}
    BY <1>1, <1>3 DEF IInv, BatchesApart
  <2>5. QED
    BY <1>4, <2>2, <2>3, <2>4 DEF IInv, BatchesApart
<1>13. UploadsHold'
  BY <1>3, <1>5 DEF IInv, UploadsHold, Server
<1>14. TypeOK'
  BY <1>3, <1>7, <1>9, ClientTypes DEF IInv, TypeOK
<1>15. QED
  BY <1>8, <1>10, <1>11, <1>12, <1>13, <1>14 DEF IInv

\* The requests other than batches that the plugin sends.
LEMMA EndKeeps ==
  ASSUME IInv, NEW s \in Sessions, End(s)
  PROVE  IInv'
<1> DEFINE q == [op |-> "end", sess |-> s]
<1>1. {q} \in SUBSET Requests /\ q.op # "batch"
  BY DEF Requests, Ends
<1>2. sent' = sent \cup {q} /\ UNCHANGED << client, Server >>
  BY DEF End, Send
<1>3. UNCHANGED << seq, queue >>
      /\ anchors' \in [Sessions \X Hashes -> {"none", "checking", "uploading", "over"}]
  BY <1>2 DEF client, IInv, TypeOK
<1> HIDE DEF q
<1>4. QED
  BY Zenon, <1>1, <1>2, <1>3, NoBatchSent

LEMMA SnapshotKeeps ==
  ASSUME IInv, NEW r \in Repos, Snapshot(r)
  PROVE  IInv'
<1>1. PICK h \in Hashes :
        Send([op |-> "snapshot", repo |-> r, entries |-> {<< f, h >> : f \in Files}])
  BY DEF Snapshot
<1> DEFINE q == [op |-> "snapshot", repo |-> r, entries |-> {<< f, h >> : f \in Files}]
<1>2. {q} \in SUBSET Requests /\ q.op # "batch"
  BY DEF Requests, Snapshots
<1>3. sent' = sent \cup {q} /\ UNCHANGED << client, Server >>
  BY <1>1 DEF Snapshot, Send
<1>4. UNCHANGED << seq, queue >>
      /\ anchors' \in [Sessions \X Hashes -> {"none", "checking", "uploading", "over"}]
  BY <1>3 DEF client, IInv, TypeOK
<1> HIDE DEF q
<1>5. QED
  BY Zenon, <1>2, <1>3, <1>4, NoBatchSent

LEMMA AnchorKeeps ==
  ASSUME IInv, NEW s \in Sessions, NEW h \in Hashes, Anchor(s, h)
  PROVE  IInv'
<1> DEFINE q == [op |-> "check", hash |-> h]
<1>1. {q} \in SUBSET Requests /\ q.op # "batch"
  BY DEF Requests, Checks
<1>2. sent' = sent \cup {q} /\ UNCHANGED << seq, queue, Server >>
  BY DEF Anchor, Send
<1>3. anchors' \in [Sessions \X Hashes -> {"none", "checking", "uploading", "over"}]
  BY DEF Anchor, IInv, TypeOK
<1> HIDE DEF q
<1>4. QED
  BY Zenon, <1>1, <1>2, <1>3, NoBatchSent

LEMMA CheckAnsweredKeeps ==
  ASSUME IInv, NEW s \in Sessions, NEW h \in Hashes, CheckAnswered(s, h)
  PROVE  IInv'
<1>1. anchors' \in [Sessions \X Hashes -> {"none", "checking", "uploading", "over"}]
  BY Zenon DEF CheckAnswered, IInv, TypeOK
<1>2. UNCHANGED Server
  BY DEF CheckAnswered
<1>3. CASE h = EmptyHash
  <2>1. sent' = sent \cup {} /\ (Emit(s, h, FALSE) \/ UNCHANGED << seq, queue >>)
    BY Zenon, <1>3 DEF CheckAnswered
  <2>2. \/ UNCHANGED << seq, queue >>
        \/ \E t \in Sessions, hash \in Hashes \cup {NoHash}, uploaded \in BOOLEAN :
             Emit(t, hash, uploaded) /\ (losses = 0 /\ uploaded => hash \in db.blobs)
    BY Zenon, <2>1
  <2>3. {} \in SUBSET Requests /\ \A r \in {} : r.op # "batch"
    OBVIOUS
  <2>4. QED
    BY Zenon, <1>1, <1>2, <2>1, <2>2, <2>3, NoBatchSent
<1>4. CASE h # EmptyHash
  <2> DEFINE q == [op |-> "upload", hash |-> h]
  <2>1. {q} \in SUBSET Requests /\ q.op # "batch"
    BY DEF Requests, Uploads
  <2>2. sent' = sent \cup {q} /\ UNCHANGED << seq, queue >>
    BY <1>4 DEF CheckAnswered, Send
  <2> HIDE DEF q
  <2>3. QED
    BY Zenon, <1>1, <1>2, <2>1, <2>2, NoBatchSent
<1>5. QED
  BY <1>3, <1>4

\* An anchor says uploaded only after an answer, and then the content is there.
LEMMA UploadAnsweredKeeps ==
  ASSUME IInv, NEW s \in Sessions, NEW h \in Hashes, UploadAnswered(s, h)
  PROVE  IInv'
<1>1. anchors' \in [Sessions \X Hashes -> {"none", "checking", "uploading", "over"}]
  BY DEF UploadAnswered, IInv, TypeOK
<1>2. UNCHANGED Server /\ sent' = sent \cup {}
  BY DEF UploadAnswered
<1>3. PICK ok \in BOOLEAN : /\ ok => [op |-> "upload", hash |-> h] \in acked
                            /\ Emit(s, h, ok) \/ UNCHANGED << seq, queue >>
  BY DEF UploadAnswered
<1>4. losses = 0 /\ ok => h \in db.blobs
  BY <1>3 DEF IInv, AckedIsStored, Stored
<1>5. \/ UNCHANGED << seq, queue >>
      \/ \E t \in Sessions, hash \in Hashes \cup {NoHash}, uploaded \in BOOLEAN :
           Emit(t, hash, uploaded) /\ (losses = 0 /\ uploaded => hash \in db.blobs)
  BY <1>3, <1>4
<1>6. {} \in SUBSET Requests /\ \A r \in {} : r.op # "batch"
  OBVIOUS
<1>7. QED
  BY Zenon, <1>1, <1>2, <1>5, <1>6, NoBatchSent

LEMMA ClientKeeps == ASSUME IInv, ClientNext PROVE IInv'
  BY SetupKeeps, FlushKeeps, EndKeeps, AnchorKeeps, CheckAnsweredKeeps, UploadAnsweredKeeps,
     SnapshotKeeps DEF ClientNext

-----------------------------------------------------------------------------
\* What is uploaded stays when only rows are added.
LEMMA UploadsStay ==
  ASSUME IInv, UNCHANGED << Plugin, losses >>, db.blobs \subseteq db'.blobs
  PROVE  UploadsHold'
  BY DEF IInv, UploadsHold, Plugin, client, Emitted, Batched, SentBatches

\* The tables stay in order when rows are added that are not events.
LEMMA RowsStay ==
  ASSUME IInv, UNCHANGED << Plugin, synced >>, db'.events = db.events, Later(db, db')
  PROVE  RowsOK'
<1>1. SentBatches' = SentBatches
  BY DEF Plugin, SentBatches
<1>2. \A e \in db'.events : Batched(e)'
  BY <1>1 DEF IInv, RowsOK, Batched
<1>3. Whole(db)' /\ Whole(synced)'
  BY <1>1 DEF IInv, RowsOK, Whole
<1>4. \A e \in db.events : e.sess \in Sessions
  BY DEF IInv, TypeOK, Tables, Event
<1>5. Known(db)'
  BY <1>4 DEF IInv, RowsOK, Known, Later
<1>6. Known(synced)'
  BY DEF IInv, RowsOK, Known, InTable
<1>7. Later(synced, db)'
  <2>1. Later(synced, db)
    BY DEF IInv, RowsOK
  <2>2. synced' = synced
    OBVIOUS
  <2>3. synced.events \subseteq db'.events /\ synced.blobs \subseteq db'.blobs
        /\ synced.file_versions \subseteq db'.file_versions
    BY <2>1 DEF Later
  <2>4. ASSUME NEW s \in Sessions, InTable(synced, s)
        PROVE  InTable(db', s) /\ (synced.sessions[s].ended => db'.sessions[s].ended)
    BY <2>1, <2>4 DEF Later
  <2>5. QED
    BY <2>2, <2>3, <2>4 DEF Later, InTable
<1>8. QED
  BY <1>2, <1>3, <1>5, <1>6, <1>7 DEF RowsOK

\* What a step of the server has to show that inserts no event.
LEMMA ServerStep ==
  ASSUME IInv, UNCHANGED << Plugin, staged, synced, losses >>,
         db'.events = db.events, Later(db, db'), db' \in Tables, staged = {},
         job' = NoJob \/ job' \in [req : sent, at : {"begin", "repo", "session", "rows"}],
         ForeignKeysMet', At("start", "repo")' => job'.req.machine \in db'.machines,
         acked' = acked \/ \E r \in sent : acked' = acked \cup {r} /\ Stored(r)'
  PROVE  IInv'
<1>1. Numbered' /\ KeysUnique' /\ BatchesApart'
  BY PluginStill
<1>2. UploadsHold'
  BY UploadsStay DEF Later
<1>3. RowsOK'
  BY RowsStay
<1>4. RequestsOK'
  BY DEF IInv, RequestsOK, Plugin
<1>5. JobOK'
  BY DEF JobOK
<1>6. AckedIsStored'
  <2>1. sent \subseteq Requests
    BY DEF IInv, RequestsOK
  <2>2. QED
    BY <2>1, AnswersStay
<1>7. TypeOK'
  BY DEF IInv, TypeOK, Plugin, client
<1>8. QED
  BY <1>1, <1>2, <1>3, <1>4, <1>5, <1>6, <1>7 DEF IInv

\* Nothing is staged outside the transaction of a batch.
LEMMA NothingStaged == ASSUME IInv, ~ At("batch", "rows") PROVE staged = {}
  BY DEF IInv, TypeOK

\* The request of the running handler.
LEMMA JobShape ==
  ASSUME IInv, NEW op, NEW step, At(op, step)
  PROVE  /\ job.req \in sent /\ job.req \in Requests /\ job.req.op = op
         /\ job \in [req : sent, at : {"begin", "repo", "session", "rows"}]
         /\ job # NoJob /\ job.at = step
  BY DEF At, IInv, TypeOK, RequestsOK

LEMMA LaterSelf == ASSUME NEW t PROVE Later(t, t)
  BY DEF Later

LEMMA BeginKeeps ==
  ASSUME IInv, NEW r \in sent, Begin(r)
  PROVE  IInv'
<1>1. /\ job = NoJob /\ job' = [req |-> r, at |-> "begin"]
      /\ UNCHANGED << Plugin, staged, synced, losses >> /\ db' = db /\ acked' = acked
  BY DEF Begin
<1>2. staged = {}
  BY <1>1, NothingStaged DEF At
<1>3. ForeignKeysMet' /\ ~ At("start", "repo")'
  BY <1>1 DEF ForeignKeysMet, At
<1>4. db' \in Tables /\ Later(db, db') /\ db'.events = db.events
  BY <1>1, LaterSelf DEF IInv, TypeOK
<1>5. job' \in [req : sent, at : {"begin", "repo", "session", "rows"}]
  BY <1>1
<1>6. QED
  BY <1>1, <1>2, <1>3, <1>4, <1>5, ServerStep

\* The handler goes on to another of its steps.
LEMMA HandlerContinues ==
  ASSUME IInv, NEW op, NEW step, At(op, step),
         NEW next \in {"begin", "repo", "session", "rows"}, Continue(next)
  PROVE  /\ job' \in [req : sent, at : {"begin", "repo", "session", "rows"}]
         /\ job'.req = job.req /\ job'.at = next /\ acked' = acked
  BY JobShape DEF Continue

\* The handler ends; when it acknowledged its request, the request is stored.
LEMMA HandlerEnds ==
  ASSUME IInv, NEW r \in sent, job.req = r, Refuse \/ (Ack /\ Stored(r)')
  PROVE  /\ job' = NoJob /\ ForeignKeysMet' /\ ~ At("start", "repo")'
         /\ acked' = acked \/ \E q \in sent : acked' = acked \cup {q} /\ Stored(q)'
<1>1. job' = NoJob
  BY DEF Refuse, Ack
<1>2. ForeignKeysMet' /\ ~ At("start", "repo")'
  BY <1>1 DEF ForeignKeysMet, At
<1>3. acked' = acked \/ (acked' = acked \cup {r} /\ Stored(r)')
  BY DEF Refuse, Ack
<1>4. QED
  BY Zenon, <1>1, <1>2, <1>3, Zenon

LEMMA StartMachineKeeps ==
  ASSUME IInv, StartMachine
  PROVE  IInv'
<1>1. At("start", "begin") /\ UNCHANGED << Plugin, staged, synced, losses >>
  BY DEF StartMachine
<1>2. job.req \in Starts
  BY <1>1, JobShape, RequestShapes
<1>3. staged = {}
  BY <1>1, NothingStaged DEF At
<1>4. db \in Tables
  BY DEF IInv, TypeOK
<1>5. CASE ~ job.req.valid
  <2>1. Refuse /\ db' = db
    BY <1>5 DEF StartMachine
  <2>2. PICK r \in sent : job.req = r
    BY <1>1, JobShape
  <2>3. QED
    BY <1>1, <1>3, <1>4, <2>1, <2>2, HandlerEnds, LaterSelf, ServerStep
<1>6. CASE job.req.valid
  <2>1. Continue("repo") /\ db' = [db EXCEPT !.machines = @ \cup {job.req.machine}]
    BY <1>6 DEF StartMachine
  <2>2. /\ db' \in Tables /\ db'.events = db.events /\ db'.sessions = db.sessions
        /\ db'.blobs = db.blobs /\ db'.file_versions = db.file_versions
        /\ job.req.machine \in db'.machines
    BY <1>2, <1>4, <2>1 DEF Tables, Starts
  <2>3. Later(db, db')
    BY <2>2 DEF Later, InTable
  <2>4. job' \in [req : sent, at : {"begin", "repo", "session", "rows"}]
        /\ job'.req = job.req /\ job'.at = "repo" /\ acked' = acked /\ job.req.op = "start"
    BY <1>1, <2>1, HandlerContinues, JobShape
  <2>5. ForeignKeysMet'
    BY <2>4 DEF ForeignKeysMet, At
  <2>6. QED
    BY <1>1, <1>3, <2>2, <2>3, <2>4, <2>5, ServerStep
<1>7. QED
  BY <1>5, <1>6

LEMMA StartRepoKeeps ==
  ASSUME IInv, StartRepo
  PROVE  IInv'
<1>1. /\ At("start", "repo") /\ UNCHANGED << Plugin, staged, synced, losses >>
      /\ Continue("session")
      /\ db' = [db EXCEPT !.repositories = @ \cup ({job.req.repo} \ {NoRepo})]
  BY DEF StartRepo
<1>2. job.req \in Starts
  BY <1>1, JobShape, RequestShapes
<1>3. staged = {}
  BY <1>1, NothingStaged DEF At
<1>4. db \in Tables
  BY DEF IInv, TypeOK
<1>5. /\ db' \in Tables /\ db'.events = db.events /\ db'.sessions = db.sessions
      /\ db'.blobs = db.blobs /\ db'.file_versions = db.file_versions
      /\ db'.machines = db.machines /\ job.req.repo \in db'.repositories \cup {NoRepo}
  BY <1>1, <1>2, <1>4 DEF Tables, Starts
<1>6. Later(db, db')
  BY <1>5 DEF Later, InTable
<1>7. job' \in [req : sent, at : {"begin", "repo", "session", "rows"}]
      /\ job'.req = job.req /\ job'.at = "session" /\ acked' = acked /\ job.req.op = "start"
  BY <1>1, HandlerContinues, JobShape
<1>8. job.req.machine \in db.machines
  BY <1>1 DEF IInv, JobOK
<1>9. ForeignKeysMet' /\ ~ At("start", "repo")'
  BY <1>5, <1>7, <1>8 DEF ForeignKeysMet, At
<1>10. QED
  BY <1>1, <1>3, <1>5, <1>6, <1>7, <1>9, ServerStep

LEMMA StartSessionKeeps ==
  ASSUME IInv, StartSession
  PROVE  IInv'
<1> DEFINE row == [machine |-> job.req.machine, repo |-> job.req.repo, ended |-> FALSE]
<1>1. /\ At("start", "session") /\ UNCHANGED << Plugin, staged, synced, losses >> /\ Ack
      /\ db' = IF InTable(db, job.req.sess) THEN db ELSE [db EXCEPT !.sessions[job.req.sess] = row]
  BY DEF StartSession
<1>2. job.req \in Starts /\ job.req.op = "start"
  BY <1>1, JobShape, RequestShapes
<1>3. staged = {}
  BY <1>1, NothingStaged DEF At
<1>4. db \in Tables
  BY DEF IInv, TypeOK
<1>5. job.req.sess \in Sessions /\ row \in Session
  BY <1>2 DEF Starts, Session
<1>6. row # NoRow
  BY Zenon, <1>5, NoRowOK
<1> HIDE DEF row
<1>7. /\ db' \in Tables /\ db'.events = db.events
      /\ db'.blobs = db.blobs /\ db'.file_versions = db.file_versions
      /\ InTable(db', job.req.sess)
      /\ \A s \in Sessions : InTable(db, s) => db'.sessions[s] = db.sessions[s]
  <2>1. CASE InTable(db, job.req.sess)
    BY <1>1, <1>4, <2>1
  <2>2. CASE ~ InTable(db, job.req.sess)
    <3>1. db' = [db EXCEPT !.sessions[job.req.sess] = row]
      BY <1>1, <2>2
    <3>2. QED
      BY <1>4, <1>5, <1>6, <2>2, <3>1 DEF Tables, InTable
  <2>3. QED
    BY <2>1, <2>2
<1>8. Later(db, db')
  BY <1>7 DEF Later, InTable
<1>9. PICK r \in sent : job.req = r
  BY <1>1, JobShape
<1>10. Stored(r)'
  <2>1. r.op = "start" /\ InTable(db', r.sess)
    BY <1>2, <1>7, <1>9
  <2>2. QED
    BY <2>1 DEF Stored, InTable
<1>11. QED
  BY <1>1, <1>3, <1>7, <1>8, <1>9, <1>10, HandlerEnds, ServerStep

LEMMA EndSessionKeeps ==
  ASSUME IInv, EndSession
  PROVE  IInv'
<1>1. At("end", "begin") /\ UNCHANGED << Plugin, staged, synced, losses >>
  BY DEF EndSession
<1>2. PICK r \in sent : job.req = r /\ r \in Ends
  BY <1>1, JobShape, RequestShapes
<1>3. staged = {}
  BY <1>1, NothingStaged DEF At
<1>4. db \in Tables /\ r.sess \in Sessions /\ r.op = "end"
  BY <1>2 DEF IInv, TypeOK, Ends
<1>5. CASE ~ InTable(db, r.sess)
  <2>1. Refuse /\ db' = db
    BY <1>2, <1>5 DEF EndSession
  <2>2. QED
    BY <1>1, <1>2, <1>3, <1>4, <2>1, HandlerEnds, LaterSelf, ServerStep
<1>6. CASE InTable(db, r.sess)
  <2>1. Ack /\ db' = [db EXCEPT !.sessions[r.sess].ended = TRUE]
    BY <1>2, <1>6 DEF EndSession
  <2> DEFINE row == [db.sessions[r.sess] EXCEPT !.ended = TRUE]
  <2>2. db.sessions[r.sess] \in Session
    BY <1>4, <1>6 DEF Tables, InTable
  <2>3. row \in Session /\ row.ended
    BY Zenon, <2>2 DEF Session
  <2>4. row # NoRow
    BY Zenon, <2>3, NoRowOK
  <2> HIDE DEF row
  <2>5. db' = [db EXCEPT !.sessions = [db.sessions EXCEPT ![r.sess] = row]]
    BY <2>1 DEF row
  <2>6. /\ db' \in Tables /\ db'.events = db.events
        /\ db'.blobs = db.blobs /\ db'.file_versions = db.file_versions
        /\ db'.sessions = [db.sessions EXCEPT ![r.sess] = row]
    BY <1>4, <2>3, <2>5 DEF Tables
  <2>7. \A s \in Sessions : db'.sessions[s] = IF s = r.sess THEN row ELSE db.sessions[s]
    BY <1>4, <2>6 DEF Tables
  <2>8. Later(db, db')
    BY <2>3, <2>4, <2>6, <2>7 DEF Later, InTable
  <2>9. Stored(r)'
    BY <1>4, <2>3, <2>4, <2>7 DEF Stored, InTable
  <2>10. QED
    BY <1>1, <1>2, <1>3, <2>1, <2>6, <2>8, <2>9, HandlerEnds, ServerStep
<1>7. QED
  BY <1>5, <1>6

LEMMA BatchBeginKeeps ==
  ASSUME IInv, BatchBegin
  PROVE  IInv'
<1>1. At("batch", "begin") /\ UNCHANGED << Plugin, staged, synced, losses >> /\ db' = db
  BY DEF BatchBegin
<1>2. PICK r \in sent : job.req = r
  BY <1>1, JobShape
<1>3. staged = {} /\ r.op = "batch"
  BY <1>1, <1>2, NothingStaged, JobShape DEF At
<1>4. db' \in Tables /\ Later(db, db') /\ db'.events = db.events
  BY <1>1, LaterSelf DEF IInv, TypeOK
<1>5. CASE Refuse
  BY <1>1, <1>2, <1>3, <1>4, <1>5, HandlerEnds, ServerStep
<1>6. CASE Continue("rows") /\ \A e \in r.events : InTable(db, e.sess)
  <2>1. job' \in [req : sent, at : {"begin", "repo", "session", "rows"}]
        /\ job'.req = r /\ job'.at = "rows" /\ acked' = acked
    BY <1>1, <1>2, <1>6, HandlerContinues
  <2>2. ForeignKeysMet' /\ ~ At("start", "repo")'
    BY <1>1, <1>3, <1>6, <2>1 DEF ForeignKeysMet, At, InTable
  <2>3. QED
    BY <1>1, <1>3, <1>4, <2>1, <2>2, ServerStep
<1>7. QED
  BY <1>2, <1>5, <1>6 DEF BatchBegin

\* The rows of a transaction that is open are seen by no one.
LEMMA BatchInsertKeeps ==
  ASSUME IInv, BatchInsert
  PROVE  IInv'
<1>1. At("batch", "rows") /\ UNCHANGED << Plugin, acked, job, db, synced, losses >>
  BY DEF BatchInsert
<1>2. PICK e \in Fresh(db.events \cup staged, job.req.events) : staged' = staged \cup {e}
  BY DEF BatchInsert
<1>3. job.req \in SentBatches
  BY <1>1, JobShape DEF SentBatches
<1>4. e \in job.req.events /\ e \in Event
  BY <1>2, <1>3, FreshType, BatchType
<1>5. Numbered' /\ KeysUnique' /\ BatchesApart'
  BY <1>1, PluginStill
<1>6. UploadsHold'
  BY <1>1, UploadsStay
<1>7. RowsOK'
  BY <1>1, RowsStay, LaterSelf
<1>8. RequestsOK'
  BY <1>1 DEF IInv, RequestsOK, Plugin
<1>9. JobOK'
  <2>1. ForeignKeysMet' /\ (At("start", "repo")' => job'.req.machine \in db'.machines)
    BY <1>1 DEF IInv, JobOK, ForeignKeysMet, At, InTable
  <2>2. At("batch", "rows")' /\ staged' \subseteq job'.req.events
    BY <1>1, <1>2, <1>4 DEF IInv, JobOK, At
  <2>3. QED
    BY <2>1, <2>2 DEF JobOK
<1>10. AckedIsStored'
  BY <1>1, LaterSelf, AnswersStay
<1>11. TypeOK'
  <2>1. staged' \subseteq Event
    BY <1>2, <1>4 DEF IInv, TypeOK
  <2>2. At("batch", "rows")'
    BY <1>1 DEF At
  <2>3. QED
    BY <1>1, <2>1, <2>2 DEF IInv, TypeOK, Plugin, client
<1>12. QED
  BY <1>5, <1>6, <1>7, <1>8, <1>9, <1>10, <1>11 DEF IInv

\* Two events with the same session and number are one event, so a batch whose
\* rows are all duplicates is in the database already, or staged.
LEMMA DuplicatesAreSame ==
  ASSUME IInv, At("batch", "rows"), Fresh(db.events \cup staged, job.req.events) = {}
  PROVE  job.req.events \subseteq db.events \cup staged
<1>1. job.req \in SentBatches
  BY JobShape DEF SentBatches
<1>2. SUFFICES ASSUME NEW e \in job.req.events PROVE e \in db.events \cup staged
  OBVIOUS
<1>3. PICK f \in db.events \cup staged : << e.sess, e.seq >> = << f.sess, f.seq >>
  BY DEF Fresh
<1>4. Batched(e) /\ Batched(f)
  BY <1>1 DEF Batched, IInv, RowsOK, JobOK
<1>5. e \in Event /\ f \in Event
  BY <1>4, EmittedType DEF Emitted
<1>6. e = f
  BY <1>3, <1>4, <1>5 DEF IInv, KeysUnique, Emitted
<1>7. QED
  BY <1>6

\* The commit stores a batch, and no part of another one.
LEMMA BatchCommitHolds ==
  ASSUME IInv, BatchCommit
  PROVE  IInv'
<1>1. /\ At("batch", "rows") /\ UNCHANGED << Plugin, synced, losses >> /\ Ack
      /\ Fresh(db.events \cup staged, job.req.events) = {}
      /\ db' = [db EXCEPT !.events = @ \cup staged] /\ staged' = {}
  BY DEF BatchCommit
<1>2. PICK r \in sent : job.req = r
  BY <1>1, JobShape
<1>3. r \in SentBatches /\ r.op = "batch" /\ r \in Requests
  BY <1>1, <1>2, JobShape DEF SentBatches
<1>4. r.events \subseteq db.events \cup staged /\ staged \subseteq r.events
  BY Zenon, <1>1, <1>2, DuplicatesAreSame DEF IInv, JobOK
<1>5. db \in Tables /\ staged \subseteq Event
  BY DEF IInv, TypeOK
<1>6. /\ db' \in Tables /\ db'.events = db.events \cup staged /\ db'.sessions = db.sessions
      /\ db'.blobs = db.blobs /\ db'.file_versions = db.file_versions
  BY <1>1, <1>5 DEF Tables
<1>7. Later(db, db')
  BY <1>6 DEF Later, InTable
<1>8. Numbered' /\ KeysUnique' /\ BatchesApart'
  BY <1>1, PluginStill
<1>9. UploadsHold'
  BY <1>1, <1>6, UploadsStay
<1>10. SentBatches' = SentBatches
  BY <1>1 DEF Plugin, SentBatches
<1>11. RowsOK'
  <2>1. \A e \in db'.events : Batched(e)'
    BY <1>3, <1>4, <1>6, <1>10 DEF IInv, RowsOK, Batched
  <2>2. Whole(db)'
    <3>1. SUFFICES ASSUME NEW q \in SentBatches
                   PROVE  q.events \subseteq db'.events \/ q.events \cap db'.events = {}
      BY <1>10 DEF Whole
    <3>2. CASE q = r
      BY <1>4, <1>6, <3>2
    <3>3. CASE q # r
      <4>1. q.events \cap staged = {}
        BY <1>3, <1>4, <3>3 DEF IInv, BatchesApart
      <4>2. q.events \subseteq db.events \/ q.events \cap db.events = {}
        BY DEF IInv, RowsOK, Whole
      <4>3. QED
        BY <1>6, <4>1, <4>2
    <3>4. QED
      BY <3>2, <3>3
  <2>3. Whole(synced)'
    BY <1>1, <1>10 DEF IInv, RowsOK, Whole
  <2>4. Known(db)'
    <3>1. \A e \in r.events : InTable(db, e.sess)
      BY <1>1, <1>2 DEF IInv, JobOK, ForeignKeysMet
    <3>2. QED
      BY <1>4, <1>6, <3>1 DEF IInv, RowsOK, Known, InTable
  <2>5. Known(synced)'
    BY <1>1 DEF IInv, RowsOK, Known, InTable
  <2>6. Later(synced, db)'
    BY <1>1, <1>6 DEF IInv, RowsOK, Later, InTable
  <2>7. QED
    BY <2>1, <2>2, <2>3, <2>4, <2>5, <2>6 DEF RowsOK
<1>12. Stored(r)'
  BY <1>3, <1>4, <1>6 DEF Stored
<1>13. /\ job' = NoJob /\ ForeignKeysMet' /\ ~ At("start", "repo")'
       /\ acked' = acked \/ \E q \in sent : acked' = acked \cup {q} /\ Stored(q)'
  BY <1>1, <1>2, <1>12, HandlerEnds
<1>14. RequestsOK'
  BY <1>1, <1>13 DEF IInv, RequestsOK, Plugin
<1>15. JobOK'
  BY <1>1, <1>13 DEF JobOK
<1>16. AckedIsStored'
  <2>1. sent \subseteq Requests
    BY DEF IInv, RequestsOK
  <2>2. QED
    BY <1>1, <1>7, <1>13, <2>1, AnswersStay
<1>17. TypeOK'
  BY <1>1, <1>6, <1>13 DEF IInv, TypeOK, Plugin, client
<1>18. QED
  BY <1>8, <1>9, <1>11, <1>14, <1>15, <1>16, <1>17 DEF IInv

LEMMA BlobsCheckKeeps ==
  ASSUME IInv, BlobsCheck
  PROVE  IInv'
<1>1. /\ At("check", "begin") /\ UNCHANGED << Plugin, staged, synced, losses >>
      /\ Refuse /\ db' = db
  BY DEF BlobsCheck
<1>2. PICK r \in sent : job.req = r
  BY <1>1, JobShape
<1>3. staged = {}
  BY <1>1, NothingStaged DEF At
<1>4. db' \in Tables /\ Later(db, db') /\ db'.events = db.events
  BY <1>1, LaterSelf DEF IInv, TypeOK
<1>5. QED
  BY <1>1, <1>2, <1>3, <1>4, HandlerEnds, ServerStep

LEMMA BlobsUploadKeeps ==
  ASSUME IInv, BlobsUpload
  PROVE  IInv'
<1>1. At("upload", "begin") /\ UNCHANGED << Plugin, staged, synced, losses >>
  BY DEF BlobsUpload
<1>2. PICK r \in sent : job.req = r /\ r \in Uploads
  BY <1>1, JobShape, RequestShapes
<1>3. staged = {} /\ db \in Tables /\ r.hash \in Hashes /\ r.op = "upload"
  BY <1>1, <1>2, NothingStaged DEF At, Uploads, IInv, TypeOK
<1>4. CASE r.hash = EmptyHash
  <2>1. Refuse /\ db' = db
    BY <1>2, <1>4 DEF BlobsUpload
  <2>2. QED
    BY <1>1, <1>2, <1>3, <2>1, LaterSelf, HandlerEnds, ServerStep
<1>5. CASE r.hash # EmptyHash
  <2>1. Ack /\ db' = [db EXCEPT !.blobs = @ \cup {r.hash}]
    BY <1>2, <1>5 DEF BlobsUpload
  <2>2. /\ db' \in Tables /\ db'.events = db.events /\ db'.sessions = db.sessions
        /\ db'.blobs = db.blobs \cup {r.hash} /\ db'.file_versions = db.file_versions
    BY <1>3, <2>1 DEF Tables
  <2>3. Later(db, db')
    BY <2>2 DEF Later, InTable
  <2>4. Stored(r)'
    BY <1>3, <2>2 DEF Stored
  <2>5. QED
    BY <1>1, <1>2, <1>3, <2>1, <2>2, <2>3, <2>4, HandlerEnds, ServerStep
<1>6. QED
  BY <1>4, <1>5

LEMMA SnapshotRepoKeeps ==
  ASSUME IInv, SnapshotRepo
  PROVE  IInv'
<1>1. /\ At("snapshot", "begin") /\ UNCHANGED << Plugin, staged, synced, losses >>
      /\ Continue("repo") /\ db' = [db EXCEPT !.repositories = @ \cup {job.req.repo}]
  BY DEF SnapshotRepo
<1>2. job.req \in Snapshots /\ job.req.op = "snapshot"
  BY <1>1, JobShape, RequestShapes
<1>3. staged = {} /\ db \in Tables
  BY <1>1, NothingStaged DEF At, IInv, TypeOK
<1>4. /\ db' \in Tables /\ db'.events = db.events /\ db'.sessions = db.sessions
      /\ db'.blobs = db.blobs /\ db'.file_versions = db.file_versions
      /\ job.req.repo \in db'.repositories
  BY <1>1, <1>2, <1>3 DEF Tables, Snapshots
<1>5. Later(db, db')
  BY <1>4 DEF Later, InTable
<1>6. job' \in [req : sent, at : {"begin", "repo", "session", "rows"}]
      /\ job'.req = job.req /\ job'.at = "repo" /\ acked' = acked
  BY <1>1, HandlerContinues
<1>7. ForeignKeysMet' /\ ~ At("start", "repo")'
  BY <1>2, <1>4, <1>6 DEF ForeignKeysMet, At
<1>8. QED
  BY <1>1, <1>3, <1>4, <1>5, <1>6, <1>7, ServerStep

LEMMA SnapshotFilesKeeps ==
  ASSUME IInv, SnapshotFiles
  PROVE  IInv'
<1>1. At("snapshot", "repo") /\ UNCHANGED << Plugin, staged, synced, losses >> /\ Ack
  BY DEF SnapshotFiles
<1>2. PICK r \in sent : job.req = r /\ r \in Snapshots
  BY <1>1, JobShape, RequestShapes
<1> DEFINE files == {<< r.repo, x[1] >> : x \in r.entries}
           versions == {<< r.repo, x[1], x[2] >> : x \in r.entries}
<1>3. db' = [db EXCEPT !.files = @ \cup files, !.file_versions = @ \cup versions]
  BY <1>2 DEF SnapshotFiles
<1>4. staged = {} /\ db \in Tables /\ r.op = "snapshot"
  BY <1>1, <1>2, NothingStaged DEF At, IInv, TypeOK, Snapshots
<1>5. files \subseteq Repos \X Files /\ versions \subseteq Repos \X Files \X Hashes
  BY <1>2 DEF Snapshots
<1>6. \A x \in r.entries : << r.repo, x[1], x[2] >> \in versions
  OBVIOUS
<1> HIDE DEF files, versions
<1>7. /\ db' \in Tables /\ db'.events = db.events /\ db'.sessions = db.sessions
      /\ db'.blobs = db.blobs /\ db'.file_versions = db.file_versions \cup versions
  BY Zenon, <1>3, <1>4, <1>5 DEF Tables
<1>8. Later(db, db')
  BY <1>7 DEF Later, InTable
<1>9. Stored(r)'
  BY <1>4, <1>6, <1>7 DEF Stored
<1>10. QED
  BY <1>1, <1>2, <1>4, <1>7, <1>8, <1>9, HandlerEnds, ServerStep

-----------------------------------------------------------------------------
\* Nothing is stored in the empty tables.
LEMMA EmptyTablesOK ==
  /\ EmptyTables \in Tables /\ Known(EmptyTables) /\ Whole(EmptyTables)
  /\ \A t : Later(EmptyTables, t)
  BY DEF EmptyTables, Tables, Known, Whole, Later, InTable

LEMMA CheckpointKeeps ==
  ASSUME IInv, Checkpoint
  PROVE  IInv'
<1>1. synced' = db /\ UNCHANGED << Plugin, acked, job, db, staged, losses >>
  BY DEF Checkpoint
<1>2. Numbered' /\ KeysUnique' /\ BatchesApart'
  BY <1>1, PluginStill
<1>3. UploadsHold'
  BY <1>1, UploadsStay
<1>4. RowsOK'
  BY <1>1, LaterSelf DEF IInv, RowsOK, Batched, SentBatches, Whole, Known, InTable, Plugin
<1>5. RequestsOK'
  BY <1>1 DEF IInv, RequestsOK, Plugin
<1>6. JobOK'
  BY <1>1 DEF IInv, JobOK, ForeignKeysMet, At, InTable
<1>7. AckedIsStored'
  BY <1>1, LaterSelf, AnswersStay
<1>8. TypeOK'
  BY <1>1 DEF IInv, TypeOK, At, Plugin, client
<1>9. QED
  BY <1>2, <1>3, <1>4, <1>5, <1>6, <1>7, <1>8 DEF IInv

LEMMA CrashKeeps ==
  ASSUME IInv, Crash
  PROVE  IInv'
<1>1. job' = NoJob /\ staged' = {} /\ UNCHANGED << Plugin, acked, db, synced, losses >>
  BY DEF Crash
<1>2. Numbered' /\ KeysUnique' /\ BatchesApart'
  BY <1>1, PluginStill
<1>3. UploadsHold'
  BY <1>1, UploadsStay
<1>4. RowsOK'
  BY <1>1, RowsStay, LaterSelf
<1>5. RequestsOK'
  BY <1>1 DEF IInv, RequestsOK, Plugin
<1>6. JobOK'
  BY <1>1 DEF JobOK, ForeignKeysMet, At
<1>7. AckedIsStored'
  BY <1>1, LaterSelf, AnswersStay
<1>8. TypeOK'
  BY <1>1 DEF IInv, TypeOK, Plugin, client
<1>9. QED
  BY <1>2, <1>3, <1>4, <1>5, <1>6, <1>7, <1>8 DEF IInv

\* The database goes back to what is on disk, and the answers given are void.
LEMMA PowerFailureKeeps ==
  ASSUME IInv, PowerFailure
  PROVE  IInv'
<1>1. /\ losses < MaxLosses /\ job = NoJob /\ losses' = losses + 1
      /\ db' = synced /\ synced' = EmptyTables /\ acked' = {}
      /\ UNCHANGED << Plugin, job, staged >>
  BY DEF PowerFailure
<1>2. losses \in 0 .. MaxLosses /\ MaxLosses \in Nat
  BY BoundsOK DEF IInv, TypeOK
<1>3. losses' # 0 /\ losses' \in 0 .. MaxLosses
  BY <1>1, <1>2
<1>4. Numbered' /\ KeysUnique' /\ BatchesApart'
  BY <1>1, PluginStill
<1>5. UploadsHold' /\ AckedIsStored'
  BY <1>3 DEF UploadsHold, AckedIsStored
<1>6. SentBatches' = SentBatches
  BY <1>1 DEF Plugin, SentBatches
<1>7. RowsOK'
  <2>1. \A e \in db'.events : Batched(e)'
    BY <1>1, <1>6 DEF IInv, RowsOK, Later, Batched
  <2>2. Whole(db)' /\ Whole(synced)'
    BY <1>1, <1>6, EmptyTablesOK DEF IInv, RowsOK, Whole
  <2>3. Known(db)' /\ Known(synced)'
    BY <1>1, EmptyTablesOK DEF IInv, RowsOK, Known, InTable
  <2>4. Later(synced, db)'
    BY <1>1, EmptyTablesOK DEF Later, InTable
  <2>5. QED
    BY <2>1, <2>2, <2>3, <2>4 DEF RowsOK
<1>8. staged = {}
  BY <1>1, NothingStaged DEF At
<1>9. JobOK'
  BY <1>1, <1>8 DEF JobOK, ForeignKeysMet, At
<1>10. RequestsOK'
  BY <1>1 DEF IInv, RequestsOK, Plugin
<1>11. TypeOK'
  BY <1>1, <1>3, <1>8, EmptyTablesOK DEF IInv, TypeOK, Plugin, client
<1>12. QED
  BY <1>4, <1>5, <1>7, <1>9, <1>10, <1>11 DEF IInv

-----------------------------------------------------------------------------
LEMMA InitIInv == Init => IInv
<1> SUFFICES ASSUME Init PROVE IInv
  OBVIOUS
<1> USE DEF Init
<1>1. TypeOK
  BY BoundsOK, EmptyTablesOK DEF TypeOK
<1>2. RequestsOK /\ ~ \E e : Emitted(e)
  BY DEF RequestsOK, Emitted, Batched, SentBatches
<1>3. Numbered /\ KeysUnique /\ BatchesApart
  BY <1>2 DEF Numbered, KeysUnique, BatchesApart, SentBatches
<1>4. RowsOK
  BY Zenon, EmptyTablesOK DEF RowsOK, EmptyTables
<1>5. JobOK
  BY DEF JobOK, ForeignKeysMet, At
<1>6. UploadsHold /\ AckedIsStored
  BY <1>2 DEF UploadsHold, AckedIsStored
<1>7. QED
  BY <1>1, <1>2, <1>3, <1>4, <1>5, <1>6 DEF IInv

LEMMA NextIInv == IInv /\ [Next]_vars => IInv'
<1> SUFFICES ASSUME IInv, [Next]_vars PROVE IInv'
  OBVIOUS
<1>1. CASE ClientNext
  BY <1>1, ClientKeeps
<1>2. CASE ServerNext
  BY <1>2, BeginKeeps, StartMachineKeeps, StartRepoKeeps, StartSessionKeeps, EndSessionKeeps,
     BatchBeginKeeps, BatchInsertKeeps, BatchCommitHolds, BlobsCheckKeeps, BlobsUploadKeeps,
     SnapshotRepoKeeps, SnapshotFilesKeeps DEF ServerNext
<1>3. CASE Checkpoint \/ Crash \/ PowerFailure
  BY <1>3, CheckpointKeeps, CrashKeeps, PowerFailureKeeps
<1>4. CASE UNCHANGED vars
  BY <1>4 DEF vars, client, IInv, TypeOK, RequestsOK, Numbered, KeysUnique, BatchesApart, RowsOK,
     JobOK, UploadsHold, AckedIsStored, ForeignKeysMet, At, InTable, SentBatches, Batched,
     Emitted, Whole, Known, Later, Stored
<1>5. QED
  BY <1>1, <1>2, <1>3, <1>4 DEF Next

\* The inductive invariant holds in every reachable state.
THEOREM Invariant == Spec => []IInv
<1>1. QED
  BY InitIInv, NextIInv, PTL DEF Spec

\* The collector's variables keep their types; rows are staged only inside the
\* transaction of a batch.
THEOREM TypeCorrect == Spec => []TypeOK
<1>1. IInv => TypeOK
  BY DEF IInv
<1>2. QED
  BY <1>1, Invariant, PTL

\* No handler that has passed its checks inserts a row whose foreign key is not
\* there (handleSessionStart, handleEventsBatch, ingestRepositorySnapshot).
THEOREM ForeignKeysAreMet == Spec => []ForeignKeysMet
<1>1. IInv => ForeignKeysMet
  BY DEF IInv, JobOK
<1>2. QED
  BY <1>1, Invariant, PTL

\* Of every batch all of the events are stored or none, after any retries, kills
\* and power failures (handleEventsBatch).
THEOREM BatchesAreAtomic == Spec => []BatchesWhole
<1>1. IInv => BatchesWhole
  BY DEF IInv, RowsOK, Whole, BatchesWhole, SentBatches
<1>2. QED
  BY <1>1, Invariant, PTL

\* An anchor that is stored and says uploaded has its content in the blob store
\* (ensure_blob, storeBlob), unless power was lost.
THEOREM AnchorsCanBeReplayed == Spec => []AnchorsHaveBlobs
<1>1. IInv => AnchorsHaveBlobs
  BY EmittedType DEF IInv, RowsOK, UploadsHold, AnchorsHaveBlobs, Emitted
<1>2. QED
  BY <1>1, Invariant, PTL

\* What a handler acknowledged is stored and stays stored, whatever is repeated
\* or arrives late, unless power was lost.
THEOREM AcknowledgedIsStored == Spec => []AckedIsStored
<1>1. IInv => AckedIsStored
  BY DEF IInv
<1>2. QED
  BY <1>1, Invariant, PTL

-----------------------------------------------------------------------------
(***************************************************************************)
(* The refinement: every step of the handlers is a step of SessionLog, or  *)
(* changes nothing that SessionLog shows.                                  *)
(***************************************************************************)
InLog == {s \in Sessions : InTable(db, s)}
Over  == {s \in Sessions : InTable(db, s) /\ db.sessions[s].ended}

LEMMA LogUnchanged ==
  ASSUME db'.sessions = db.sessions, db'.events = db.events, UNCHANGED losses
  PROVE  UNCHANGED << InLog, Over, db.events, losses >>
  BY DEF InLog, Over, InTable

LEMMA StepRefines ==
  ASSUME IInv, [Next]_vars
  PROVE  [Log!Next]_<< InLog, Over, db.events, losses >>
<1> USE DEF Log!Next
<1>1. db \in Tables /\ synced \in Tables
  BY DEF IInv, TypeOK
<1>2. CASE ClientNext \/ UNCHANGED vars
  <2>1. UNCHANGED << db, losses >>
    BY Zenon, <1>2 DEF vars, ClientNext, Setup, Flush, End, Anchor, CheckAnswered, UploadAnswered,
         Snapshot, Server
  <2>2. QED
    BY <2>1, LogUnchanged
<1>3. CASE StartMachine
  <2>1. db' = db \/ db' = [db EXCEPT !.machines = @ \cup {job.req.machine}]
    BY <1>3 DEF StartMachine
  <2>2. db'.sessions = db.sessions /\ db'.events = db.events /\ UNCHANGED losses
    BY <1>1, <1>3, <2>1 DEF Tables, StartMachine
  <2>3. QED
    BY <2>2, LogUnchanged
<1>4. CASE StartRepo
  <2>1. db'.sessions = db.sessions /\ db'.events = db.events /\ UNCHANGED losses
    BY <1>1, <1>4 DEF Tables, StartRepo
  <2>2. QED
    BY <2>1, LogUnchanged
<1>5. CASE StartSession
  <2>1. At("start", "session") /\ UNCHANGED losses
    BY <1>5 DEF StartSession
  <2>2. job.req \in Starts
    BY <2>1, JobShape, RequestShapes
  <2> DEFINE row == [machine |-> job.req.machine, repo |-> job.req.repo, ended |-> FALSE]
  <2>3. db' = IF InTable(db, job.req.sess) THEN db ELSE [db EXCEPT !.sessions[job.req.sess] = row]
    BY <1>5 DEF StartSession
  <2>4. job.req.sess \in Sessions /\ ~ row.ended
    BY <2>2 DEF Starts
  <2> HIDE DEF row
  <2>5. /\ db'.events = db.events
        /\ \A s \in Sessions : \/ db'.sessions[s] = db.sessions[s]
                               \/ ~ InTable(db, s) /\ db'.sessions[s] = row
    BY <1>1, <2>3, <2>4 DEF Tables
  <2>6. InLog \subseteq InLog' /\ Over' = Over
    BY <2>4, <2>5 DEF InLog, Over, InTable
  <2>7. QED
    BY <2>1, <2>5, <2>6 DEF Log!Start, InLog, Over
<1>6. CASE EndSession
  <2>1. At("end", "begin") /\ UNCHANGED losses
    BY <1>6 DEF EndSession
  <2>2. job.req.sess \in Sessions
    BY <2>1, JobShape, RequestShapes DEF Ends
  <2>3. CASE ~ InTable(db, job.req.sess)
    <3>1. db' = db
      BY <1>6, <2>3 DEF EndSession
    <3>2. QED
      BY <2>1, <3>1, LogUnchanged
  <2>4. CASE InTable(db, job.req.sess)
    <3> DEFINE row == [db.sessions[job.req.sess] EXCEPT !.ended = TRUE]
    <3>1. db.sessions[job.req.sess] \in Session
      BY <1>1, <2>2, <2>4 DEF Tables, InTable
    <3>2. row \in Session /\ row.ended
      BY Zenon, <3>1 DEF Session
    <3>3. row # NoRow
      BY Zenon, <3>2, NoRowOK
    <3>4. db' = [db EXCEPT !.sessions = [db.sessions EXCEPT ![job.req.sess] = row]]
      BY <1>6, <2>4 DEF EndSession
    <3> HIDE DEF row
    <3>5. /\ db'.events = db.events
          /\ \A s \in Sessions : db'.sessions[s] = IF s = job.req.sess THEN row ELSE db.sessions[s]
      BY <1>1, <3>4 DEF Tables
    <3>6. InLog' = InLog /\ Over \subseteq Over' /\ Over' \subseteq InLog
      BY <2>4, <3>2, <3>3, <3>5 DEF InLog, Over, InTable
    <3>7. QED
      BY <2>1, <3>5, <3>6 DEF Log!End, InLog, Over
  <2>5. QED
    BY <2>3, <2>4
<1>7. CASE BatchBegin \/ BatchInsert \/ BlobsCheck \/ Crash \/ Checkpoint \/ \E r \in sent : Begin(r)
  <2>1. UNCHANGED << db, losses >>
    BY <1>7 DEF BatchBegin, BatchInsert, BlobsCheck, Crash, Checkpoint, Begin
  <2>2. QED
    BY <2>1, LogUnchanged
<1>8. CASE BatchCommit
  <2>1. /\ At("batch", "rows") /\ UNCHANGED losses
        /\ db' = [db EXCEPT !.events = @ \cup staged]
    BY <1>8 DEF BatchCommit
  <2>2. db'.sessions = db.sessions /\ db'.events = db.events \cup staged
    BY <1>1, <2>1 DEF Tables
  <2>3. \A e \in db'.events : InTable(db, e.sess)
    BY <2>1, <2>2 DEF IInv, RowsOK, Known, JobOK, ForeignKeysMet
  <2>4. \A e \in db'.events : e.sess \in Sessions
    BY <1>1, <2>2 DEF IInv, TypeOK, Tables, Event
  <2>5. \A e \in db'.events : e.sess \in InLog
    BY <2>3, <2>4 DEF InLog
  <2>6. InLog' = InLog /\ Over' = Over
    BY <2>2 DEF InLog, Over, InTable
  <2>7. QED
    BY Zenon, <2>1, <2>2, <2>5, <2>6 DEF Log!Append, InLog, Over
<1>9. CASE BlobsUpload
  <2>1. db' = db \/ db' = [db EXCEPT !.blobs = @ \cup {job.req.hash}]
    BY <1>9 DEF BlobsUpload
  <2>2. db'.sessions = db.sessions /\ db'.events = db.events /\ UNCHANGED losses
    BY <1>1, <1>9, <2>1 DEF Tables, BlobsUpload
  <2>3. QED
    BY <2>2, LogUnchanged
<1>10. CASE SnapshotRepo
  <2>1. db'.sessions = db.sessions /\ db'.events = db.events /\ UNCHANGED losses
    BY <1>1, <1>10 DEF Tables, SnapshotRepo
  <2>2. QED
    BY <2>1, LogUnchanged
<1>11. CASE SnapshotFiles
  <2>1. \E F, V : db' = [db EXCEPT !.files = F, !.file_versions = V]
    BY Zenon, <1>11, Zenon DEF SnapshotFiles
  <2>2. db'.sessions = db.sessions /\ db'.events = db.events /\ UNCHANGED losses
    BY <1>1, <1>11, <2>1 DEF Tables, SnapshotFiles
  <2>3. QED
    BY <2>2, LogUnchanged
<1>12. CASE PowerFailure
  <2>1. db' = synced /\ losses' = losses + 1
    BY <1>12 DEF PowerFailure
  <2>2. Later(synced, db) /\ Known(synced)
    BY DEF IInv, RowsOK
  <2>3. InLog' \subseteq InLog /\ Over' \subseteq Over \cap InLog'
    BY <2>1, <2>2 DEF InLog, Over, Later, InTable
  <2>4. \A e \in synced.events : e.sess \in Sessions
    BY <1>1 DEF Tables, Event
  <2>5. db'.events \subseteq db.events /\ \A e \in db'.events : e.sess \in InLog'
    BY <2>1, <2>2, <2>4 DEF Later, Known, InLog, InTable
  <2>6. QED
    BY <2>1, <2>3, <2>5 DEF Log!PowerFails, InLog, Over
<1>13. QED
  BY <1>2, <1>3, <1>4, <1>5, <1>6, <1>7, <1>8, <1>9, <1>10, <1>11, <1>12 DEF Next, ServerNext

\* Delivery may take the collector for the log of sessions and events.
THEOREM CollectorImplementsLog == Spec => ImplementsLog
<1>1. Init => Log!Init
  BY DEF Init, Log!Init, EmptyTables, InTable
<1>2. IInv /\ [Next]_vars => [Log!Next]_<< InLog, Over, db.events, losses >>
  BY StepRefines
<1>3. QED
  BY <1>1, <1>2, Invariant, PTL DEF Spec, ImplementsLog, Log!Spec, InLog, Over
=============================================================================

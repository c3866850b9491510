--------------------------- MODULE CollectorServer ---------------------------
(***************************************************************************)
(* The collector (server/src/index.ts, blobs.ts, ingest.ts) statement by   *)
(* statement, with the part of the plugin that needs two of its answers in *)
(* a row (ensure_blob and anchor_buffer in init.lua).                      *)
(*                                                                         *)
(* The server runs one handler at a time, but a handler is several         *)
(* database transactions and the process may be killed between any two of  *)
(* them; the host may lose power, which takes back what the database has   *)
(* not yet forced to disk.  Any request that was ever sent may be handled  *)
(* again: clients retry, and requests they have given up arrive late.      *)
(***************************************************************************)
EXTENDS Integers, FiniteSets, Functions

CONSTANTS
  Sessions,       \* session ids; one plugin process has one
  Machines, Repos, Files,
  Hashes,         \* content hashes
  EmptyHash,      \* the hash of no bytes at all
  NoHash,         \* what an event that is not an anchor has as its hash
  NoRepo,         \* the repo_id of a session without one
  StartRepos,     \* what clients send as repo_id (the plugin sends none)
  NoRow,          \* a session that is not in the table
  NoJob,          \* the server is idle
  MaxEvents,      \* bound: events of all sessions together
  MaxLosses       \* bound: power failures

ASSUME NoHashOK == NoHash \notin Hashes
ASSUME NoRepoOK  == NoRepo \notin Repos /\ StartRepos \subseteq Repos \cup {NoRepo}
ASSUME BoundsOK  == MaxEvents \in Nat /\ MaxLosses \in Nat
ASSUME SessionsFinite == IsFiniteSet(Sessions)

VARIABLES
  anchors,    \* plugin: where the ensure_blob of a session and a hash is
  seq,        \* plugin: M.seq of each session
  queue,      \* plugin: events in no batch yet
  sent,       \* requests that may arrive, for the first time or again
  acked,      \* requests answered 2xx, up to the first power failure
  job,        \* server: the request being handled and how far it is
  db,         \* server: the committed tables
  staged,     \* server: rows of the open transaction
  synced,     \* the tables as of the last write the disk has for certain
  losses      \* power failures so far

client == << anchors, seq, queue >>
vars   == << client, sent, acked, job, db, staged, synced, losses >>

Event == [sess : Sessions, seq : 1 .. MaxEvents, hash : Hashes \cup {NoHash},
          uploaded : BOOLEAN]

Starts    == [op : {"start"}, sess : Sessions, machine : Machines,
              repo : Repos \cup {NoRepo}, valid : BOOLEAN]
Ends      == [op : {"end"}, sess : Sessions]
Batches   == [op : {"batch"}, events : SUBSET Event]
Checks    == [op : {"check"}, hash : Hashes]
Uploads   == [op : {"upload"}, hash : Hashes]
Snapshots == [op : {"snapshot"}, repo : Repos, entries : SUBSET (Files \X Hashes)]

\* The tables.  A file row is identified by repository and path.
Session == [machine : Machines, repo : Repos \cup {NoRepo}, ended : BOOLEAN]

ASSUME NoRowOK == NoRow \notin Session

EmptyTables ==
  [machines |-> {}, repositories |-> {}, sessions |-> [s \in Sessions |-> NoRow],
   events |-> {}, blobs |-> {}, files |-> {}, file_versions |-> {}]

InTable(tables, s) == tables.sessions[s] # NoRow

Tables ==
  [machines : SUBSET Machines, repositories : SUBSET Repos,
   sessions : [Sessions -> Session \cup {NoRow}],
   events : SUBSET Event, blobs : SUBSET Hashes,
   files : SUBSET (Repos \X Files), file_versions : SUBSET (Repos \X Files \X Hashes)]

\* The handler of that operation has got to that step.
At(op, step) == job # NoJob /\ job.req.op = op /\ job.at = step

TypeOK ==
  /\ anchors \in [Sessions \X Hashes -> {"none", "checking", "uploading", "over"}]
  /\ seq \in [Sessions -> 0 .. MaxEvents]
  /\ queue \in [Sessions -> SUBSET Event]
  /\ acked \subseteq sent
  /\ job = NoJob \/ (job.req \in sent /\ job.at \in {"begin", "repo", "session", "rows"})
  /\ db \in Tables /\ synced \in Tables
  /\ staged \subseteq Event /\ (staged # {} => At("batch", "rows"))
  /\ losses \in 0 .. MaxLosses

Init ==
  /\ anchors = [a \in Sessions \X Hashes |-> "none"]
  /\ seq = [s \in Sessions |-> 0]
  /\ queue = [s \in Sessions |-> {}]
  /\ sent = {} /\ acked = {}
  /\ job = NoJob
  /\ db = EmptyTables /\ synced = EmptyTables
  /\ staged = {}
  /\ losses = 0

(***************************************************************************)
(* The plugin.                                                             *)
(***************************************************************************)
Send(r) == sent' = sent \cup {r}

Server == << acked, job, db, staged, synced, losses >>

\* M.emit: the event gets the next sequence number.
Emit(s, hash, uploaded) ==
  /\ FoldFunction(+, 0, seq) < MaxEvents
  /\ seq' = [seq EXCEPT ![s] = @ + 1]
  /\ queue' = [queue EXCEPT ![s] = @ \cup
                 {[sess |-> s, seq |-> seq[s] + 1, hash |-> hash, uploaded |-> uploaded]}]

\* M.setup posts session/start and queues the event session_start.  A start
\* retried from the spool has lost its body (see Delivery) and may arrive too.
Setup(s, m, r) ==
  /\ seq[s] = 0
  /\ Emit(s, NoHash, FALSE)
  /\ sent' = sent \cup [op : {"start"}, sess : {s}, machine : {m}, repo : {r}, valid : BOOLEAN]
  /\ UNCHANGED << anchors, Server >>

Flush(s) ==
  /\ queue[s] # {}
  /\ Send([op |-> "batch", events |-> queue[s]])
  /\ queue' = [queue EXCEPT ![s] = {}]
  /\ UNCHANGED << anchors, seq, Server >>

End(s) ==
  /\ seq[s] > 0
  /\ Send([op |-> "end", sess |-> s])
  /\ UNCHANGED << client, Server >>

\* snapshot_repo: the manifest of a repository, which needs no session.  The
\* event repo_snapshot that follows an answer is an event like any other.
\* Bound: one manifest of each repository.
Snapshot(r) ==
  /\ \A q \in sent : q.op = "snapshot" => q.repo # r
  /\ \E h \in Hashes :
       Send([op |-> "snapshot", repo |-> r, entries |-> {<< f, h >> : f \in Files}])
  /\ UNCHANGED << client, Server >>

\* anchor_buffer: ensure_blob first asks whether the server has the content.
Anchor(s, h) ==
  /\ seq[s] > 0 /\ anchors[<< s, h >>] = "none"
  /\ anchors' = [anchors EXCEPT ![<< s, h >>] = "checking"]
  /\ Send([op |-> "check", hash |-> h])
  /\ UNCHANGED << seq, queue, Server >>

\* Mutant of CheckAnswered: content the server says it has is not uploaded, and
\* an answer that was lost is taken for that.
CheckTrusted(s, h) ==
  /\ anchors[<< s, h >>] = "checking"
  /\ anchors' = [anchors EXCEPT ![<< s, h >>] = "over"]
  /\ Emit(s, h, TRUE)
  /\ UNCHANGED << sent, Server >>

\* The answer to the check, or its failure.  The transport hands the callback
\* no body, so the content is uploaded whatever the answer was; content
\* without bytes counts as an encoding that failed.
CheckAnswered(s, h) ==
  /\ anchors[<< s, h >>] = "checking"
  /\ IF h = EmptyHash
     THEN /\ anchors' = [anchors EXCEPT ![<< s, h >>] = "over"]
          /\ Emit(s, h, FALSE) \/ UNCHANGED << seq, queue >>
          /\ UNCHANGED sent
     ELSE /\ anchors' = [anchors EXCEPT ![<< s, h >>] = "uploading"]
          /\ Send([op |-> "upload", hash |-> h])
          /\ UNCHANGED << seq, queue >>
  /\ UNCHANGED Server

\* The upload was answered 2xx, or it failed in some way (which includes an
\* answer that was lost): the anchor is emitted either way, unless the buffer
\* has changed (see EditCapture).
UploadAnswered(s, h) ==
  /\ anchors[<< s, h >>] = "uploading"
  /\ anchors' = [anchors EXCEPT ![<< s, h >>] = "over"]
  /\ \E ok \in BOOLEAN :
       /\ ok => [op |-> "upload", hash |-> h] \in acked
       /\ Emit(s, h, ok) \/ UNCHANGED << seq, queue >>
  /\ UNCHANGED << sent, Server >>

(***************************************************************************)
(* The server.  Begin takes a request from the network; every step after   *)
(* it is at most one transaction.                                          *)
(***************************************************************************)
Plugin == << client, sent >>

Begin(r) ==
  /\ job = NoJob /\ r \in sent
  /\ job' = [req |-> r, at |-> "begin"]
  /\ UNCHANGED << Plugin, acked, db, staged, synced, losses >>

Continue(step) == job' = [job EXCEPT !.at = step] /\ UNCHANGED acked
Ack            == job' = NoJob /\ acked' = IF losses = 0 THEN acked \cup {job.req} ELSE acked
Refuse         == job' = NoJob /\ UNCHANGED acked

\* session/start: the machine row, ...
StartMachine ==
  /\ At("start", "begin")
  /\ IF ~job.req.valid
     THEN Refuse /\ UNCHANGED db
     ELSE /\ Continue("repo")
          /\ db' = [db EXCEPT !.machines = @ \cup {job.req.machine}]
  /\ UNCHANGED << Plugin, staged, synced, losses >>

\* ... a stub of the repository, ...
StartRepo ==
  /\ At("start", "repo")
  /\ Continue("session")
  /\ db' = [db EXCEPT !.repositories = @ \cup ({job.req.repo} \ {NoRepo})]
  /\ UNCHANGED << Plugin, staged, synced, losses >>

\* Mutant of StartSession: a session that is there is written again.
StartReplaces ==
  /\ At("start", "session")
  /\ Ack
  /\ db' = [db EXCEPT !.sessions[job.req.sess] =
              [machine |-> job.req.machine, repo |-> job.req.repo, ended |-> FALSE]]
  /\ UNCHANGED << Plugin, staged, synced, losses >>

\* ... and the session, unless it is there.
StartSession ==
  /\ At("start", "session")
  /\ Ack
  /\ db' = IF InTable(db, job.req.sess) THEN db
           ELSE [db EXCEPT !.sessions[job.req.sess] =
                   [machine |-> job.req.machine, repo |-> job.req.repo, ended |-> FALSE]]
  /\ UNCHANGED << Plugin, staged, synced, losses >>

EndSession ==
  /\ At("end", "begin")
  /\ IF InTable(db, job.req.sess)
     THEN Ack /\ db' = [db EXCEPT !.sessions[job.req.sess].ended = TRUE]
     ELSE Refuse /\ UNCHANGED db
  /\ UNCHANGED << Plugin, staged, synced, losses >>

\* Mutant of Fresh: sequence numbers are compared across sessions.
FreshBySeq(rows, evs) == {e \in evs : \A f \in rows : e.seq # f.seq}

\* INSERT OR IGNORE: the event id and the pair of session and sequence number
\* are unique, and the plugin gives both to an event at once.
Fresh(rows, evs) ==
  {e \in evs : \A f \in rows : << e.sess, e.seq >> # << f.sess, f.seq >>}

\* Mutant of BatchBegin: the sessions are not looked up.
BatchBeginTrusting ==
  /\ At("batch", "begin")
  /\ Continue("rows")
  /\ UNCHANGED << Plugin, db, staged, synced, losses >>

\* events/batch: unless all the sessions are known nothing happens, ...
BatchBegin ==
  /\ At("batch", "begin")
  /\ IF \A e \in job.req.events : InTable(db, e.sess)
     THEN Continue("rows")
     ELSE Refuse
  /\ UNCHANGED << Plugin, db, staged, synced, losses >>

\* Mutant of BatchInsert: each row is a transaction of its own.
BatchInsertsDirectly ==
  /\ At("batch", "rows")
  /\ \E e \in Fresh(db.events, job.req.events) :
       db' = [db EXCEPT !.events = @ \cup {e}]
  /\ UNCHANGED << Plugin, acked, job, staged, synced, losses >>

\* ... then the rows are inserted one by one in a transaction, ...
BatchInsert ==
  /\ At("batch", "rows")
  /\ \E e \in Fresh(db.events \cup staged, job.req.events) : staged' = staged \cup {e}
  /\ UNCHANGED << Plugin, acked, job, db, synced, losses >>

\* Mutant of BatchCommit: the transaction is left open.
BatchCommitKeeps ==
  /\ At("batch", "rows")
  /\ Fresh(db.events \cup staged, job.req.events) = {}
  /\ Ack
  /\ db' = [db EXCEPT !.events = @ \cup staged]
  /\ UNCHANGED << Plugin, staged, synced, losses >>

\* ... which is committed at the end.
BatchCommit ==
  /\ At("batch", "rows")
  /\ Fresh(db.events \cup staged, job.req.events) = {}
  /\ Ack
  /\ db' = [db EXCEPT !.events = @ \cup staged]
  /\ staged' = {}
  /\ UNCHANGED << Plugin, synced, losses >>

\* The answer to blobs/check is not modelled: nothing depends on it.
BlobsCheck ==
  /\ At("check", "begin") /\ Refuse
  /\ UNCHANGED << Plugin, db, staged, synced, losses >>

\* blobs/upload refuses content without bytes.
BlobsUpload ==
  /\ At("upload", "begin")
  /\ IF job.req.hash = EmptyHash
     THEN Refuse /\ UNCHANGED db
     ELSE Ack /\ db' = [db EXCEPT !.blobs = @ \cup {job.req.hash}]
  /\ UNCHANGED << Plugin, staged, synced, losses >>

\* repository/snapshot: the repository row, then one transaction for its files.
SnapshotRepo ==
  /\ At("snapshot", "begin")
  /\ Continue("repo")
  /\ db' = [db EXCEPT !.repositories = @ \cup {job.req.repo}]
  /\ UNCHANGED << Plugin, staged, synced, losses >>

SnapshotFiles ==
  LET r == job.req IN
  /\ At("snapshot", "repo")
  /\ Ack
  /\ db' = [db EXCEPT !.files = @ \cup {<< r.repo, x[1] >> : x \in r.entries},
                      !.file_versions = @ \cup {<< r.repo, x[1], x[2] >> : x \in r.entries}]
  /\ UNCHANGED << Plugin, staged, synced, losses >>

(***************************************************************************)
(* Failures.  The database runs with journal_mode=WAL and                  *)
(* synchronous=NORMAL: a commit survives the death of the process, but is  *)
(* on disk for certain only after the next checkpoint.  Only the last       *)
(* checkpoint before a power failure matters, so there is at most one.     *)
(***************************************************************************)
Checkpoint ==
  /\ synced = EmptyTables /\ db # EmptyTables /\ losses < MaxLosses
  /\ synced' = db
  /\ UNCHANGED << Plugin, acked, job, db, staged, losses >>

\* The server is killed; it starts again with what was committed.
Crash ==
  /\ job # NoJob
  /\ job' = NoJob /\ staged' = {}
  /\ UNCHANGED << Plugin, acked, db, synced, losses >>

\* In the middle of a handler a power failure is a Crash followed by this.
PowerFailure ==
  /\ losses < MaxLosses /\ job = NoJob /\ db # synced
  /\ losses' = losses + 1
  /\ db' = synced /\ synced' = EmptyTables
  /\ acked' = {}
  /\ UNCHANGED << Plugin, job, staged >>

ClientNext ==
  \/ \E s \in Sessions :
       \/ \E m \in Machines, r \in StartRepos : Setup(s, m, r)
       \/ Flush(s) \/ End(s)
       \/ \E h \in Hashes : Anchor(s, h) \/ CheckAnswered(s, h) \/ UploadAnswered(s, h)
  \/ \E r \in Repos : Snapshot(r)

ServerNext ==
  \/ \E r \in sent : Begin(r)
  \/ StartMachine \/ StartRepo \/ StartSession \/ EndSession
  \/ BatchBegin \/ BatchInsert \/ BatchCommit \/ BlobsCheck \/ BlobsUpload
  \/ SnapshotRepo \/ SnapshotFiles

\* Bound: after a power failure no new request is sent; one that was sent before
\* may arrive after it all the same.
Next == \/ losses = 0 /\ ClientNext
        \/ ServerNext \/ Checkpoint \/ Crash \/ PowerFailure

Spec == Init /\ [][Next]_vars

-----------------------------------------------------------------------------
(***************************************************************************)
(* Properties.                                                             *)
(***************************************************************************)

\* A handler that has got as far as a row with a foreign key finds the row it
\* refers to, whatever was killed or lost before: no request that passed its
\* checks ends in an internal error (handleSessionStart, handleEventsBatch,
\* ingestRepositorySnapshot).
ForeignKeysMet ==
  /\ At("start", "session") => /\ job.req.machine \in db.machines
                               /\ job.req.repo \in db.repositories \cup {NoRepo}
  /\ At("batch", "rows") => \A e \in job.req.events : InTable(db, e.sess)
  /\ At("snapshot", "repo") => job.req.repo \in db.repositories

\* protocol.md: batches are atomic.  Of a batch that was killed half-way and
\* perhaps sent again, either every event is in the database or none.
BatchesWhole ==
  \A r \in {q \in sent : q.op = "batch"} :
    r.events \subseteq db.events \/ r.events \cap db.events = {}

\* An anchor that says its content was uploaded has its content, so a replay
\* can start from it (ensure_blob, storeBlob), as long as no power was lost.
AnchorsHaveBlobs ==
  losses = 0 => \A e \in db.events : e.uploaded => e.hash \in db.blobs

\* What a request was acknowledged for is in the database and stays there,
\* whichever requests are repeated or arrive late.
Stored(r) ==
  /\ r.op \in {"start", "end"} => InTable(db, r.sess)
  /\ r.op = "end" => db.sessions[r.sess].ended
  /\ r.op = "batch" => r.events \subseteq db.events
  /\ r.op = "upload" => r.hash \in db.blobs
  /\ r.op = "snapshot" => \A x \in r.entries : << r.repo, x[1], x[2] >> \in db.file_versions

AckedIsStored == losses = 0 => \A r \in acked : Stored(r)

\* Taken together the handlers are the log of sessions and events Delivery
\* takes the server for.
Log == INSTANCE SessionLog WITH
         sessions <- {s \in Sessions : InTable(db, s)},
         ended    <- {s \in Sessions : InTable(db, s) /\ db.sessions[s].ended},
         stored   <- db.events
ImplementsLog == Log!Spec
=============================================================================

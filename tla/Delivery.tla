------------------------------ MODULE Delivery ------------------------------
(***************************************************************************)
(* How the editor plugin delivers the events it captures (init.lua,        *)
(* spool.lua, transport.lua) to the collector (server/src/index.ts).       *)
(*                                                                         *)
(* Every editor process queues its events in memory and posts them in      *)
(* batches; a batch whose post fails is written to a spool directory that  *)
(* all editor processes of the machine share, and every process retries    *)
(* what it finds there.  Posts are asynchronous: between a post and its    *)
(* callback anything may happen, and a request the client has given up may *)
(* still reach the server.  One process is one session.                    *)
(***************************************************************************)
EXTENDS Integers, FiniteSets

CONSTANTS
  Procs,        \* editor processes, which are also the session ids
  Slots,        \* bound: posts of all processes in flight at once
  Late,         \* the sender of a request nobody waits for any more
  NoPost,       \* a free slot
  NoFile,       \* a spool file that does not exist
  BatchMax,     \* batch_max_events
  SpoolCap,     \* spool_max_bytes; a whole spool file has size 1
  MaxSeq,       \* bound: events a process captures
  MaxFiles,     \* bound: spool files ever written
  MaxRunning,   \* bound: processes running at the same time
  MaxFaults,    \* bound: lost requests, lost replies, time-outs, failed writes
  FaultPaths,   \* the requests that may be lost in this instance
  UrlChoices,   \* whether server_url may be missing in this instance
  MayPause,     \* bound: whether the user pauses in this instance
  MayExit,      \* bound: whether processes shut down in this instance
  MayCrash      \* bound: whether processes crash in this instance

Paths == {"start", "batch", "end"}

ASSUME SlotsOK   == Late \notin Slots
ASSUME BoundsOK  == /\ BatchMax \in Nat \ {0} /\ SpoolCap \in Nat
                    /\ MaxSeq \in Nat /\ MaxFiles \in Nat
                    /\ MaxRunning \in Nat /\ MaxFaults \in Nat
ASSUME ChoicesOK == /\ FaultPaths \subseteq Paths /\ UrlChoices \subseteq BOOLEAN
                    /\ {MayPause, MayExit, MayCrash} \subseteq BOOLEAN

VARIABLES
  pc,           \* off, running, the three steps of M.shutdown, exited
  paused,       \* M.paused
  url,          \* config.has_url()
  seq,          \* M.seq
  queue,        \* M.queue
  writing,      \* the spool file a process has opened and not yet closed, or 0
  posts,        \* asynchronous posts whose callback has not run
  net,          \* requests the server has not handled
  spool,        \* the spool directory, by file number (oldest first)
  nextFile,     \* spool files written so far
  sessions,     \* server: rows of table sessions
  ended,        \* server: sessions with an ended_at
  stored,       \* server: rows of table events
  lost,         \* observer: events whose last copy was dropped, by cause
  faults        \* faults so far

client == << pc, paused, url, seq, queue, writing >>
server == << sessions, ended, stored >>
vars   == << client, posts, net, spool, nextFile, server, lost, faults >>

Event  == Procs \X Nat
Files  == 1 .. MaxFiles
Causes == {"exit", "cap", "torn", "disk", "end"}

Post == [proc : Procs, kind : {"start", "flush", "retry"}, events : SUBSET Event,
         file : Files \cup {0}, rest : SUBSET Files,
         status : {"waiting", "ok", "fail"}]

\* started_at tells whether the body of a session/start has that field.
Request == [path : Paths, sess : Procs, events : SUBSET Event,
            started_at : BOOLEAN, from : Slots \cup {Late}]

\* meta.kind, meta.path and events of a spool file; while it is being written
\* (not whole) nobody can decode it.
File == [kind : {"events", "session"}, path : Paths, events : SUBSET Event,
         whole : BOOLEAN]

ASSUME NoPostOK == NoPost \notin Post
ASSUME NoFileOK == NoFile \notin File

TypeOK ==
  /\ pc \in [Procs -> {"off", "running", "flushed", "closing", "leaving", "exited"}]
  /\ paused \in [Procs -> BOOLEAN]
  /\ url \in [Procs -> BOOLEAN]
  /\ seq \in [Procs -> Nat]
  /\ queue \in [Procs -> SUBSET Event]
  /\ writing \in [Procs -> Files \cup {0}]
  /\ posts \in [Slots -> Post \cup {NoPost}]
  /\ net \subseteq Request
  /\ spool \in [Files -> File \cup {NoFile}]
  /\ nextFile \in 0 .. MaxFiles
  /\ sessions \subseteq Procs
  /\ ended \subseteq Procs
  /\ stored \subseteq Event
  /\ lost \in [Causes -> SUBSET Event]
  /\ faults \in Nat

Init ==
  /\ pc = [p \in Procs |-> "off"]
  /\ paused = [p \in Procs |-> FALSE]
  /\ url = [p \in Procs |-> TRUE]
  /\ seq = [p \in Procs |-> 0]
  /\ queue = [p \in Procs |-> {}]
  /\ writing = [p \in Procs |-> 0]
  /\ posts = [s \in Slots |-> NoPost]
  /\ net = {}
  /\ spool = [f \in Files |-> NoFile]
  /\ nextFile = 0
  /\ sessions = {} /\ ended = {} /\ stored = {}
  /\ lost = [c \in Causes |-> {}]
  /\ faults = 0

FreeSlots == {s \in Slots : posts[s] = NoPost}
Alive     == {p \in Procs : pc[p] \in {"running", "flushed", "closing", "leaving"}}
\* A process that is writing a file is inside a blocking call.
Idle(p)   == p \in Alive /\ writing[p] = 0
Running(p) == Idle(p) /\ pc[p] = "running"

(***************************************************************************)
(* The spool directory.                                                    *)
(***************************************************************************)
Present == {f \in Files : spool[f] # NoFile}
Whole(sp) == {f \in Files : sp[f] # NoFile /\ sp[f].whole}

Without(sp, F) == [f \in Files |-> IF f \in F THEN NoFile ELSE sp[f]]

\* The events a retry of the files of F would deliver.
EventsIn(sp, F) ==
  UNION {sp[f].events : f \in {g \in F : sp[g] # NoFile /\ sp[g].kind = "events"}}

\* retry_spool reads the files of its list in order: the first one it can
\* decode is posted, and those it cannot decode before it are deleted.
FirstReadable(sp, list) ==
  CHOOSE f \in list \cap Whole(sp) : \A g \in list \cap Whole(sp) : f <= g

Corrupt(sp, list) ==
  {f \in list : sp[f] # NoFile /\ ~sp[f].whole /\ \A g \in list \cap Whole(sp) : f < g}

\* A file another process is still writing cannot be decoded either.
BeingWritten == {f \in Files : \E q \in Procs : writing[q] = f}
DropCorrupt(sp, list) ==
  /\ spool' = Without(sp, Corrupt(sp, list))
  /\ lost' = [lost EXCEPT !["torn"] =
                @ \cup EventsIn(sp, Corrupt(sp, list) \cap BeingWritten)]

\* The body of a retried post: meta.body is never read back, so the body of a
\* session file carries the session of the process that retries.
RetryPost(p, sp, list) ==
  LET f == FirstReadable(sp, list) IN
  [proc |-> p, kind |-> "retry", events |-> {}, file |-> f,
   rest |-> {g \in list : g > f}, status |-> "waiting"]

RetryRequest(p, sp, list, s) ==
  LET f == FirstReadable(sp, list) IN
  [path |-> sp[f].path, sess |-> p,
   events |-> IF sp[f].path = "batch" THEN sp[f].events ELSE {},
   started_at |-> FALSE, from |-> s]

\* next(): the chain of a process that retries `list`, in slot s.
RetryNext(p, sp, list, s) ==
  /\ DropCorrupt(sp, list)
  /\ IF list \cap Whole(sp) = {}
     THEN posts' = [posts EXCEPT ![s] = NoPost] /\ UNCHANGED net
     ELSE /\ posts' = [posts EXCEPT ![s] = RetryPost(p, sp, list)]
          /\ net' = net \cup {RetryRequest(p, sp, list, s)}

\* Mutant of NewFile: one file too many.
NewFileOffByOne(p, kind, path, evs) ==
  /\ nextFile <= MaxFiles
  /\ nextFile' = nextFile + 1
  /\ spool' = [spool EXCEPT ![nextFile + 1] =
                 [kind |-> kind, path |-> path, events |-> evs, whole |-> FALSE]]
  /\ writing' = [writing EXCEPT ![p] = nextFile + 1]

\* write_batch opens the file; CloseFile below is the rest of it.  `cost` is
\* the number of faults that led here.
NewFile(p, kind, path, evs) ==
  /\ nextFile < MaxFiles
  /\ nextFile' = nextFile + 1
  /\ spool' = [spool EXCEPT ![nextFile + 1] =
                 [kind |-> kind, path |-> path, events |-> evs, whole |-> FALSE]]
  /\ writing' = [writing EXCEPT ![p] = nextFile + 1]

OpenFile(p, kind, path, evs, cost) ==
  /\ NewFile(p, kind, path, evs)
  /\ faults' = faults + cost
  /\ UNCHANGED lost

\* enforce_cap deletes from the oldest file on until the rest fits; it is
\* called after a failed batch was written, never after a session file.
OverCap(sp) ==
  {f \in Files : sp[f] # NoFile /\ Cardinality({g \in Whole(sp) : f <= g}) > SpoolCap}

\* write_batch returns nil: nothing is written, and no caller looks; the files
\* of `over` are deleted by the enforce_cap that follows.
WriteFails(evs, cost, over) ==
  /\ faults + cost < MaxFaults
  /\ faults' = faults + cost + 1
  /\ spool' = Without(spool, over)
  /\ lost' = [lost EXCEPT !["disk"] = @ \cup evs, !["cap"] = @ \cup EventsIn(spool, over)]
  /\ UNCHANGED << nextFile, writing >>

CloseFile(p) ==
  LET f      == writing[p]
      closed == [spool EXCEPT ![f].whole = TRUE]
      over   == IF pc[p] = "running" /\ spool[f].kind = "events" THEN OverCap(closed) ELSE {}
  IN
  /\ f # 0
  /\ writing' = [writing EXCEPT ![p] = 0]
  /\ IF spool[f] = NoFile
     THEN UNCHANGED << spool, lost >>     \* deleted by a retry in between
     ELSE /\ spool' = Without(closed, over)
          /\ lost' = [lost EXCEPT !["cap"] = @ \cup EventsIn(closed, over)]
  /\ UNCHANGED << pc, paused, url, seq, queue, posts, net, nextFile, server, faults >>

(***************************************************************************)
(* The server.  A batch is refused as a whole when a session of one of its *)
(* events is unknown; handling a request again changes nothing.            *)
(***************************************************************************)
SessionsOf(evs) == {e[1] : e \in evs}

Accepted(r) ==
  \/ r.path = "start" /\ r.started_at
  \/ r.path = "batch" /\ SessionsOf(r.events) \subseteq sessions
  \/ r.path = "end"   /\ r.sess \in sessions

handleSessionStart(r) ==
  /\ r.path = "start"
  /\ sessions' = IF Accepted(r) THEN sessions \cup {r.sess} ELSE sessions
  /\ UNCHANGED << ended, stored >>

handleSessionEnd(r) ==
  /\ r.path = "end"
  /\ ended' = IF Accepted(r) THEN ended \cup {r.sess} ELSE ended
  /\ UNCHANGED << sessions, stored >>

\* Mutant of handleEventsBatch: only events of the sender's own session are
\* stored, although batches of others are delivered too.
handleEventsBatchOwn(r) ==
  /\ r.path = "batch"
  /\ stored' = IF Accepted(r) THEN stored \cup {e \in r.events : e[1] = r.sess} ELSE stored
  /\ UNCHANGED << sessions, ended >>

handleEventsBatch(r) ==
  /\ r.path = "batch"
  /\ stored' = IF Accepted(r) THEN stored \cup r.events ELSE stored
  /\ UNCHANGED << sessions, ended >>

Serve(r) == handleSessionStart(r) \/ handleSessionEnd(r) \/ handleEventsBatch(r)

\* The client learns the outcome of r: only a 2xx answer counts as success.
Answered(r, outcome) ==
  posts' = IF r.from = Late THEN posts
           ELSE [posts EXCEPT ![r.from].status = outcome]

Handle(r) ==
  /\ Serve(r)
  /\ net' = net \ {r}
  /\ Answered(r, IF Accepted(r) THEN "ok" ELSE "fail")
  /\ UNCHANGED << client, spool, nextFile, lost, faults >>

(***************************************************************************)
(* Network faults: a request is lost, its reply is lost, or the client     *)
(* times out and the request arrives later.                                *)
(***************************************************************************)
MayFail(r) == r.path \in FaultPaths /\ faults < MaxFaults

Drop(r) ==
  /\ MayFail(r)
  /\ faults' = faults + 1
  /\ net' = net \ {r}
  /\ Answered(r, "fail")
  /\ UNCHANGED << client, spool, nextFile, server, lost >>

ReplyLost(r) ==
  /\ MayFail(r) /\ r.from # Late
  /\ faults' = faults + 1
  /\ Serve(r)
  /\ net' = net \ {r}
  /\ Answered(r, "fail")
  /\ UNCHANGED << client, spool, nextFile, lost >>

TimeOut(r) ==
  /\ MayFail(r) /\ r.from # Late
  /\ faults' = faults + 1
  /\ net' = (net \ {r}) \cup {[r EXCEPT !.from = Late]}
  /\ Answered(r, "fail")
  /\ UNCHANGED << client, spool, nextFile, server, lost >>

(***************************************************************************)
(* Posts of a running process.                                             *)
(***************************************************************************)
NewPost(p, kind, evs, hasUrl) ==
  [proc |-> p, kind |-> kind, events |-> evs, file |-> 0, rest |-> {},
   status |-> IF hasUrl THEN "waiting" ELSE "fail"]

NewRequest(p, path, evs, s) ==
  [path |-> path, sess |-> p, events |-> evs,
   started_at |-> path = "start", from |-> s]

\* flush_now with the given queue: the events leave the queue with the post.
FlushNow(p, evs) ==
  \E s \in FreeSlots :
    /\ queue' = [queue EXCEPT ![p] = {}]
    /\ posts' = [posts EXCEPT ![s] = NewPost(p, "flush", evs, url[p])]
    /\ net' = IF url[p] THEN net \cup {NewRequest(p, "batch", evs, s)} ELSE net

\* M.setup: the start post, the session_start event and a first retry_spool.
\* Bound: two slots are free.
Setup(p) ==
  /\ pc[p] = "off" /\ Cardinality(Alive) < MaxRunning
  /\ pc' = [pc EXCEPT ![p] = "running"]
  /\ \E hasUrl \in UrlChoices : url' = [url EXCEPT ![p] = hasUrl]
  /\ seq' = [seq EXCEPT ![p] = 1]
  /\ queue' = [queue EXCEPT ![p] = {<< p, 1 >>}]
  /\ \E s, t \in FreeSlots :
       LET retrying == url'[p] /\ Whole(spool) # {} IN
       /\ s # t
       /\ posts' = [posts EXCEPT ![s] = NewPost(p, "start", {}, url'[p]),
                                 ![t] = IF retrying THEN RetryPost(p, spool, Present) ELSE NoPost]
       /\ net' = net \cup (IF url'[p] THEN {NewRequest(p, "start", {}, s)} ELSE {})
                     \cup (IF retrying THEN {RetryRequest(p, spool, Present, t)} ELSE {})
  /\ IF url'[p] THEN DropCorrupt(spool, Present) ELSE UNCHANGED << spool, lost >>
  /\ UNCHANGED << paused, writing, nextFile, server, faults >>

\* M.emit (and the key handler, which does the same): a full queue is flushed.
Emit(p) ==
  LET evs == queue[p] \cup {<< p, seq[p] + 1 >>} IN
  /\ Running(p) /\ ~paused[p] /\ seq[p] < MaxSeq
  /\ seq' = [seq EXCEPT ![p] = @ + 1]
  /\ IF Cardinality(evs) >= BatchMax
     THEN FlushNow(p, evs)
     ELSE queue' = [queue EXCEPT ![p] = evs] /\ UNCHANGED << posts, net >>
  /\ UNCHANGED << pc, paused, url, writing, spool, nextFile, server, lost, faults >>

\* The batch timer.
FlushTimer(p) ==
  /\ Running(p) /\ ~paused[p] /\ queue[p] # {}
  /\ FlushNow(p, queue[p])
  /\ UNCHANGED << pc, paused, url, seq, writing, spool, nextFile, server, lost, faults >>

\* The spool timer: retries only when the queue is empty.
RetryTimer(p) ==
  /\ Running(p) /\ ~paused[p] /\ url[p] /\ queue[p] = {} /\ Present # {}
  /\ \E s \in FreeSlots : RetryNext(p, spool, Present, s)
  /\ UNCHANGED << client, nextFile, server, faults >>

Pause(p) ==
  /\ Running(p) /\ MayPause /\ ~paused[p]
  /\ paused' = [paused EXCEPT ![p] = TRUE]
  /\ UNCHANGED << pc, url, seq, queue, writing, posts, net, spool, nextFile, server, lost, faults >>

Resume(p) ==
  /\ Running(p) /\ paused[p]
  /\ paused' = [paused EXCEPT ![p] = FALSE]
  /\ UNCHANGED << pc, url, seq, queue, writing, posts, net, spool, nextFile, server, lost, faults >>

(***************************************************************************)
(* Callbacks of the posts.  They run on the main loop of the editor, which *)
(* is never reached again once M.shutdown has started.                     *)
(***************************************************************************)
Done(s, kind, outcome) ==
  /\ posts[s] # NoPost /\ posts[s].kind = kind /\ posts[s].status = outcome
  /\ Running(posts[s].proc)

Free(s) == posts' = [posts EXCEPT ![s] = NoPost]

StartOk(s) ==
  /\ Done(s, "start", "ok")
  /\ Free(s)
  /\ UNCHANGED << client, net, spool, nextFile, server, lost, faults >>

StartFailed(s) ==
  LET p == posts[s].proc IN
  /\ Done(s, "start", "fail")
  /\ Free(s)
  /\ OpenFile(p, "session", "start", {}, 0) \/ WriteFails({}, 0, {})
  /\ UNCHANGED << pc, paused, url, seq, queue, net, server >>

\* A batch that got through is followed by a retry_spool.
FlushOk(s) ==
  /\ Done(s, "flush", "ok")
  /\ RetryNext(posts[s].proc, spool, Present, s)
  /\ UNCHANGED << client, nextFile, server, faults >>

\* Mutant of FlushFailed: a failed batch is not spooled.
FlushFailedForgets(s) ==
  /\ Done(s, "flush", "fail")
  /\ Free(s)
  /\ UNCHANGED << client, net, spool, nextFile, server, lost, faults >>

FlushFailed(s) ==
  LET p == posts[s].proc IN
  /\ Done(s, "flush", "fail")
  /\ Free(s)
  /\ \/ OpenFile(p, "events", "batch", posts[s].events, 0)
     \/ WriteFails(posts[s].events, 0, OverCap(spool))
  /\ UNCHANGED << pc, paused, url, seq, queue, net, server >>

\* Mutant of RetryOk: the file that was delivered is not removed.
RetryOkKeeps(s) ==
  /\ Done(s, "retry", "ok")
  /\ RetryNext(posts[s].proc, spool, posts[s].rest, s)
  /\ UNCHANGED << client, nextFile, server, faults >>

RetryOk(s) ==
  LET removed == [spool EXCEPT ![posts[s].file] = NoFile] IN
  /\ Done(s, "retry", "ok")
  /\ RetryNext(posts[s].proc, removed, posts[s].rest, s)
  /\ UNCHANGED << client, nextFile, server, faults >>

RetryFailed(s) ==
  /\ Done(s, "retry", "fail")
  /\ Free(s)
  /\ UNCHANGED << client, net, spool, nextFile, server, lost, faults >>

(***************************************************************************)
(* M.shutdown: the queue is flushed unless the plugin is paused, then two  *)
(* blocking posts, for which any answer counts as success.                 *)
(***************************************************************************)

\* Mutant of Shutdown: the queue is cleared although nothing was sent.
ShutdownForgets(p) ==
  /\ Running(p) /\ MayExit
  /\ pc' = [pc EXCEPT ![p] = "flushed"]
  /\ IF paused[p] \/ queue[p] = {}
     THEN queue' = [queue EXCEPT ![p] = {}] /\ UNCHANGED << posts, net >>
     ELSE FlushNow(p, queue[p])
  /\ UNCHANGED << paused, url, seq, writing, spool, nextFile, server, lost, faults >>

Shutdown(p) ==
  /\ Running(p) /\ MayExit
  /\ pc' = [pc EXCEPT ![p] = "flushed"]
  /\ IF paused[p] \/ queue[p] = {}
     THEN UNCHANGED << queue, posts, net >>
     ELSE FlushNow(p, queue[p])
  /\ UNCHANGED << paused, url, seq, writing, spool, nextFile, server, lost, faults >>

\* sync_post of r without an answer in time: it is lost, or handled, or it
\* arrives later.
Unanswered(r) ==
  /\ MayFail(r)
  /\ \/ UNCHANGED << server, net >>
     \/ Serve(r) /\ UNCHANGED net
     \/ net' = net \cup {r} /\ UNCHANGED server

\* The last batch holds only the session_end event.
SyncBatch(p) ==
  LET env == << p, seq[p] + 1 >>
      r   == [path |-> "batch", sess |-> p, events |-> {env},
              started_at |-> FALSE, from |-> Late]
  IN
  /\ Idle(p) /\ pc[p] = "flushed" /\ url[p]
  /\ pc' = [pc EXCEPT ![p] = "closing"]
  /\ seq' = [seq EXCEPT ![p] = @ + 1]
  /\ \/ /\ Serve(r)
        /\ lost' = [lost EXCEPT !["end"] = IF Accepted(r) THEN @ ELSE @ \cup {env}]
        /\ UNCHANGED << net, faults, spool, nextFile, writing >>
     \/ /\ Unanswered(r)
        /\ OpenFile(p, "events", "batch", {env}, 1) \/ WriteFails({env}, 1, {})
  /\ UNCHANGED << paused, url, queue, posts >>

SyncEnd(p) ==
  LET r == [path |-> "end", sess |-> p, events |-> {}, started_at |-> FALSE, from |-> Late]
  IN
  /\ Idle(p) /\ pc[p] = "closing"
  /\ pc' = [pc EXCEPT ![p] = "leaving"]
  /\ \/ Serve(r) /\ UNCHANGED << net, faults, spool, nextFile, writing, lost >>
     \/ /\ Unanswered(r)
        /\ OpenFile(p, "session", "end", {<< p, seq[p] >>}, 1) \/ WriteFails({}, 1, {})
  /\ UNCHANGED << paused, url, seq, queue, posts >>

\* Without a server_url both are replaced by one session file, whose events
\* are never read back.
SpoolEnd(p) ==
  LET env == << p, seq[p] + 1 >> IN
  /\ Idle(p) /\ pc[p] = "flushed" /\ ~url[p]
  /\ pc' = [pc EXCEPT ![p] = "leaving"]
  /\ seq' = [seq EXCEPT ![p] = @ + 1]
  /\ lost' = [lost EXCEPT !["end"] = @ \cup {env}]
  /\ NewFile(p, "session", "end", {env})
  /\ UNCHANGED << paused, url, queue, posts, net, server, faults >>

(***************************************************************************)
(* The end of a process.  Its queue and the callbacks of its posts are     *)
(* gone; requests that are under way may still arrive.                     *)
(***************************************************************************)
Gone(p) ==
  LET mine == {s \in Slots : posts[s] # NoPost /\ posts[s].proc = p}
      unflushed == UNION {posts[s].events : s \in {t \in mine : posts[t].kind = "flush"}}
  IN
  /\ pc' = [pc EXCEPT ![p] = "exited"]
  /\ queue' = [queue EXCEPT ![p] = {}]
  /\ writing' = [writing EXCEPT ![p] = 0]
  /\ posts' = [s \in Slots |-> IF s \in mine THEN NoPost ELSE posts[s]]
  /\ net' = {IF r.from \in mine THEN [r EXCEPT !.from = Late] ELSE r : r \in net}
  /\ lost' = [lost EXCEPT !["exit"] = @ \cup queue[p] \cup unflushed
                          \cup EventsIn(spool, {writing[p]} \cap Files)]
  /\ UNCHANGED << paused, url, seq, spool, nextFile, server, faults >>

Exit(p)  == Idle(p) /\ pc[p] = "leaving" /\ Gone(p)
Crash(p) == p \in Alive /\ MayCrash /\ Gone(p)

ProcNext(p) ==
  \/ Setup(p) \/ Emit(p) \/ FlushTimer(p) \/ RetryTimer(p)
  \/ Pause(p) \/ Resume(p) \/ CloseFile(p)
  \/ Shutdown(p) \/ SyncBatch(p) \/ SyncEnd(p) \/ SpoolEnd(p)
  \/ Exit(p) \/ Crash(p)

Callback(s) ==
  \/ StartOk(s) \/ StartFailed(s) \/ FlushOk(s) \/ FlushFailed(s)
  \/ RetryOk(s) \/ RetryFailed(s)

NetNext(r) == Handle(r) \/ Drop(r) \/ ReplyLost(r) \/ TimeOut(r)

Next ==
  \/ \E p \in Procs : ProcNext(p)
  \/ \E s \in Slots : Callback(s)
  \/ \E r \in net : NetNext(r)

Spec == Init /\ [][Next]_vars

(***************************************************************************)
(* Fairness: timers keep firing, the main loop runs what is scheduled, a   *)
(* write ends, and a request that is neither lost nor timed out is         *)
(* handled.  What users and the network do is not required.                *)
(***************************************************************************)
HandleFrom(s) == \E r \in net : r.from = s /\ Handle(r)

Fairness ==
  /\ \A p \in Procs : /\ WF_vars(FlushTimer(p)) /\ SF_vars(RetryTimer(p))
                      /\ WF_vars(CloseFile(p))
  /\ \A s \in Slots : WF_vars(Callback(s)) /\ WF_vars(HandleFrom(s))
  /\ WF_vars(HandleFrom(Late))

FairSpec == Spec /\ Fairness

-----------------------------------------------------------------------------
(***************************************************************************)
(* Properties.                                                             *)
(***************************************************************************)

\* The copies of e that the program may still deliver.
Queued(e)  == e \in queue[e[1]]
Posted(e)  == \E s \in Slots : /\ posts[s] # NoPost /\ posts[s].kind = "flush"
                               /\ e \in posts[s].events
Spooled(e) == \E f \in Files : /\ spool[f] # NoFile /\ spool[f].kind = "events"
                               /\ e \in spool[f].events
                               /\ spool[f].whole \/ f \in BeingWritten
Held(e)    == Queued(e) \/ Posted(e) \/ Spooled(e)
Settled(e) == e \in stored \/ \E c \in Causes : e \in lost[c]

\* No event gets lost on the way from M.emit through flush_now, the spool and
\* retry_spool: it is held, or stored, or was dropped for a known cause.
Accounting ==
  \A p \in Procs : \A n \in 1 .. seq[p] :
    Held(<< p, n >>) \/ Settled(<< p, n >>)

\* What the queue, the spool and the network do together is an event store:
\* events become pending once, and only being stored or dropped ends that.
Pending == {e \in Procs \X (1 .. MaxSeq + 1) : Held(e)}
Dropped == UNION {lost[c] : c \in Causes}
Store == INSTANCE EventStore WITH pending <- Pending, dropped <- Dropped
ImplementsStore == Store!Spec

\* spool.lua: a batch file is deleted only after a 2xx ACK, or by the cap.
DeletedOnlyOnAck ==
  [][\A f \in Files :
       (spool[f] # NoFile /\ spool[f].kind = "events" /\ spool[f].whole /\ spool'[f] = NoFile)
         => spool[f].events \subseteq stored' \cup lost'["cap"]]_vars

\* Every event in a whole spool file is eventually stored (or dropped by the
\* cap), as long as some editor keeps running.
SpoolDrains ==
  \A f \in Files :
    (f \in Whole(spool) /\ spool[f].kind = "events")
      ~> (spool[f] = NoFile \/ \A p \in Procs : pc[p] # "running" \/ paused[p])
=============================================================================

--------------------------- MODULE Delivery_proofs ---------------------------
(***************************************************************************)
(* Proofs about Delivery: type correctness, that no captured event is ever *)
(* unaccounted for, and that delivery is an EventStore, whatever the       *)
(* number of processes, slots, files and faults.                           *)
(***************************************************************************)
EXTENDS Delivery, TLAPS, WellFoundedInduction

-----------------------------------------------------------------------------
(* The spool operators.                                                    *)

\* The first readable file of a retry list is one of its readable files.
LEMMA FirstReadableIn ==
  ASSUME NEW sp, NEW list, list \cap Whole(sp) # {}
  PROVE  /\ FirstReadable(sp, list) \in list \cap Whole(sp)
         /\ \A g \in list \cap Whole(sp) : FirstReadable(sp, list) <= g
<1> DEFINE W == list \cap Whole(sp)
<1>1. W \subseteq Nat
  BY BoundsOK DEF Whole, Files
<1>2. PICK x \in W : \A y \in W : ~(<< y, x >> \in OpToRel(<, Nat))
  BY Zenon, <1>1, NatLessThanWellFounded, WFMin, W # {}
<1>3. \A y \in W : x <= y
  <2> TAKE y \in W
  <2>1. ~(y < x)
    BY Zenon, <1>1, <1>2 DEF OpToRel
  <2> QED BY <1>1, <2>1
<1> QED BY <1>3 DEF FirstReadable

SpoolType == [Files -> File \cup {NoFile}]
LostType  == [Causes -> SUBSET Event]
PostsType == [Slots -> Post \cup {NoPost}]

LEMMA EventsInType ==
  ASSUME NEW sp \in SpoolType, NEW F \in SUBSET Files
  PROVE  EventsIn(sp, F) \in SUBSET Event
BY DEF EventsIn, SpoolType, File

LEMMA WithoutType ==
  ASSUME NEW sp \in SpoolType, NEW F
  PROVE  Without(sp, F) \in SpoolType
BY DEF Without, SpoolType

LEMMA DropCorruptType ==
  ASSUME NEW sp \in SpoolType, NEW list \in SUBSET Files, lost \in LostType,
         DropCorrupt(sp, list)
  PROVE  spool' \in SpoolType /\ lost' \in LostType
<1>1. Corrupt(sp, list) \cap BeingWritten \in SUBSET Files
  BY DEF Corrupt
<1>2. EventsIn(sp, Corrupt(sp, list) \cap BeingWritten) \in SUBSET Event
  BY <1>1, EventsInType
<1>3. spool' \in SpoolType
  BY WithoutType DEF DropCorrupt
<1>4. lost' \in LostType
  BY <1>2 DEF DropCorrupt, LostType, Causes
<1> QED BY <1>3, <1>4

\* What a retry posts and sends.
LEMMA RetryType ==
  ASSUME NEW sp \in SpoolType, NEW list \in SUBSET Files, list \cap Whole(sp) # {},
         NEW p \in Procs, NEW s \in Slots
  PROVE  RetryPost(p, sp, list) \in Post /\ RetryRequest(p, sp, list, s) \in Request
<1> DEFINE f == FirstReadable(sp, list)
<1>1. f \in Files /\ sp[f] \in File
  BY FirstReadableIn DEF Whole, SpoolType
<1> HIDE DEF f
<1>2. RetryPost(p, sp, list) =
        [proc |-> p, kind |-> "retry", events |-> {}, file |-> f,
         rest |-> {g \in list : g > f}, status |-> "waiting"]
  BY DEF RetryPost, f
<1>3. RetryPost(p, sp, list) \in Post
  BY <1>1, <1>2 DEF Post
<1>4. RetryRequest(p, sp, list, s) =
        [path |-> sp[f].path, sess |-> p,
         events |-> IF sp[f].path = "batch" THEN sp[f].events ELSE {},
         started_at |-> FALSE, from |-> s]
  BY DEF RetryRequest, f
<1>5. RetryRequest(p, sp, list, s) \in Request
  BY <1>1, <1>4 DEF Request, File
<1> QED BY <1>3, <1>5

LEMMA RetryNextType ==
  ASSUME NEW sp \in SpoolType, NEW list \in SUBSET Files, NEW p \in Procs, NEW s \in Slots,
         lost \in LostType, posts \in PostsType, net \subseteq Request,
         RetryNext(p, sp, list, s)
  PROVE  /\ spool' \in SpoolType /\ lost' \in LostType
         /\ posts' \in PostsType /\ net' \subseteq Request
<1>1. spool' \in SpoolType /\ lost' \in LostType
  BY DropCorruptType DEF RetryNext
<1>2. CASE list \cap Whole(sp) = {}
  <2>1. posts' \in PostsType /\ net' \subseteq Request
    BY <1>2 DEF RetryNext, PostsType
  <2> QED BY <1>1, <2>1
<1>3. CASE list \cap Whole(sp) # {}
  <2>1. posts' \in PostsType /\ net' \subseteq Request
    BY <1>3, RetryType DEF RetryNext, PostsType
  <2> QED BY <1>1, <2>1
<1> QED BY <1>2, <1>3

LEMMA OpenFileType ==
  ASSUME TypeOK, NEW p \in Procs, NEW kind \in {"events", "session"}, NEW path \in Paths,
         NEW evs \in SUBSET Event, NewFile(p, kind, path, evs)
  PROVE  /\ spool' \in SpoolType /\ nextFile' \in 0 .. MaxFiles
         /\ writing' \in [Procs -> Files \cup {0}]
         /\ nextFile + 1 \in Files
<1>1. nextFile + 1 \in Files /\ nextFile' \in 0 .. MaxFiles
  BY BoundsOK DEF NewFile, TypeOK, Files
<1>2. [kind |-> kind, path |-> path, events |-> evs, whole |-> FALSE] \in File
  BY DEF File
<1>3. spool' \in SpoolType
  BY <1>1, <1>2 DEF NewFile, TypeOK, SpoolType
<1>4. writing' \in [Procs -> Files \cup {0}]
  BY <1>1 DEF NewFile, TypeOK
<1> QED BY <1>1, <1>3, <1>4

LEMMA WriteFailsType ==
  ASSUME TypeOK, NEW evs \in SUBSET Event, NEW cost \in Nat, NEW over \in SUBSET Files,
         WriteFails(evs, cost, over)
  PROVE  /\ spool' \in SpoolType /\ lost' \in LostType /\ faults' \in Nat
         /\ nextFile' = nextFile /\ writing' = writing
<1>1. EventsIn(spool, over) \in SUBSET Event
  BY EventsInType DEF TypeOK, SpoolType
<1>2. spool' \in SpoolType
  BY WithoutType DEF WriteFails, TypeOK, SpoolType
<1>3. lost' \in LostType
  BY <1>1 DEF WriteFails, TypeOK, LostType, Causes
<1>4. faults' \in Nat
  BY DEF WriteFails, TypeOK
<1> QED BY <1>2, <1>3, <1>4 DEF WriteFails

LEMMA FlushNowType ==
  ASSUME TypeOK, NEW p \in Procs, NEW evs \in SUBSET Event, FlushNow(p, evs)
  PROVE  /\ queue' \in [Procs -> SUBSET Event]
         /\ posts' \in PostsType /\ net' \subseteq Request
<1>1. PICK s \in FreeSlots :
         /\ queue' = [queue EXCEPT ![p] = {}]
         /\ posts' = [posts EXCEPT ![s] = NewPost(p, "flush", evs, url[p])]
         /\ net' = IF url[p] THEN net \cup {NewRequest(p, "batch", evs, s)} ELSE net
  BY Zenon DEF FlushNow
<1>2. s \in Slots
  BY DEF FreeSlots
<1>3. NewPost(p, "flush", evs, url[p]) \in Post
  BY DEF NewPost, Post, TypeOK
<1>4. NewRequest(p, "batch", evs, s) \in Request
  BY <1>2 DEF NewRequest, Request, Paths
<1>5. queue' \in [Procs -> SUBSET Event]
  BY <1>1 DEF TypeOK
<1>6. posts' \in PostsType
  BY Zenon, <1>1, <1>3 DEF TypeOK, PostsType
<1>7. net' \subseteq Request
  BY <1>1, <1>4 DEF TypeOK
<1> QED BY <1>5, <1>6, <1>7

\* Every request has one of the three paths, so handling it is total.
LEMMA ServeType ==
  ASSUME TypeOK, NEW r \in Request, Serve(r)
  PROVE  sessions' \subseteq Procs /\ ended' \subseteq Procs /\ stored' \subseteq Event
BY DEF Serve, handleSessionStart, handleSessionEnd, handleEventsBatch, TypeOK, Request

LEMMA AnsweredType ==
  ASSUME TypeOK, NEW r \in Request, NEW outcome \in {"ok", "fail"}, Answered(r, outcome),
         r.from # Late => posts[r.from] # NoPost
  PROVE  posts' \in PostsType
BY DEF Answered, TypeOK, Request, Post, PostsType

-----------------------------------------------------------------------------
(***************************************************************************)
(* The inductive invariant.  Accounting alone is not inductive: that a     *)
(* spool file may be deleted when its retry succeeded, or a batch          *)
(* forgotten when its post did, depends on what the answer was an answer   *)
(* to.                                                                     *)
(***************************************************************************)

\* The events whose only copy may be dropped when post s succeeds.
EventsOf(s) ==
  IF posts[s].kind = "flush" THEN posts[s].events
  ELSE IF posts[s].kind = "retry" THEN EventsIn(spool, {posts[s].file} \cap Files)
  ELSE {}

BatchEvents(r) == IF r.path = "batch" THEN r.events ELSE {}

\* A request somebody waits for carries the events of that post, and it is
\* the only one that post waits for.
RequestsOK ==
  /\ \A r \in net : r.from # Late =>
       /\ posts[r.from] # NoPost /\ posts[r.from].status = "waiting"
       /\ EventsOf(r.from) \subseteq BatchEvents(r)
  /\ \A r1, r2 \in net : (r1.from = r2.from /\ r1.from # Late) => r1 = r2

\* A post that was answered with success has its events stored.
AcksOK ==
  \A s \in Slots : (posts[s] # NoPost /\ posts[s].status = "ok") => EventsOf(s) \subseteq stored

\* File numbers are not used twice, and batches are spooled for their endpoint.
FilesOK ==
  /\ \A f \in Files : spool[f] # NoFile =>
       f <= nextFile /\ (spool[f].kind = "events" => spool[f].path = "batch")
  /\ \A s \in Slots : (posts[s] # NoPost /\ posts[s].kind = "retry") => posts[s].file <= nextFile

IInv == TypeOK /\ RequestsOK /\ AcksOK /\ FilesOK /\ Accounting

-----------------------------------------------------------------------------
(* Type correctness, one action or group of similar actions at a time.     *)

\* A server or network step.
LEMMA NetNextType ==
  ASSUME TypeOK, RequestsOK, NEW r \in net, NetNext(r)
  PROVE  TypeOK'
<1>1. r \in Request /\ (r.from # Late => posts[r.from] # NoPost)
  BY DEF TypeOK, RequestsOK
<1>2. net' \subseteq Request
  <2>1. [r EXCEPT !.from = Late] \in Request
    BY <1>1 DEF Request
  <2> QED BY <2>1 DEF NetNext, Handle, Drop, ReplyLost, TimeOut, TypeOK
<1>3. posts' \in PostsType
  BY <1>1, AnsweredType DEF NetNext, Handle, Drop, ReplyLost, TimeOut
<1>4. sessions' \subseteq Procs /\ ended' \subseteq Procs /\ stored' \subseteq Event
  <2>1. CASE Serve(r)
    BY <1>1, <2>1, ServeType
  <2>2. CASE UNCHANGED server
    BY <2>2 DEF server, TypeOK
  <2> QED BY <2>1, <2>2 DEF NetNext, Handle, Drop, ReplyLost, TimeOut
<1>5. faults' \in Nat
  BY DEF NetNext, Handle, Drop, ReplyLost, TimeOut, TypeOK
<1>6. UNCHANGED << client, spool, nextFile, lost >>
  BY DEF NetNext, Handle, Drop, ReplyLost, TimeOut
<1> QED BY <1>2, <1>3, <1>4, <1>5, <1>6 DEF client, TypeOK, PostsType

LEMMA CallbackType ==
  ASSUME TypeOK, NEW s \in Slots, Callback(s)
  PROVE  TypeOK'
<1>0. posts[s] \in Post /\ posts[s].proc \in Procs /\ posts[s].events \in SUBSET Event
      /\ posts[s].rest \in SUBSET Files /\ posts[s].file \in Files \cup {0}
  BY DEF Callback, StartOk, StartFailed, FlushOk, FlushFailed, RetryOk, RetryFailed,
         Done, TypeOK, Post
<1> DEFINE p == posts[s].proc
<1>1. CASE StartOk(s) \/ RetryFailed(s)
  BY <1>1 DEF StartOk, RetryFailed, Free, client, server, TypeOK
<1>2. CASE StartFailed(s) \/ FlushFailed(s)
  <2>1. Free(s) /\ UNCHANGED << pc, paused, url, seq, queue, net, server >>
    BY <1>2 DEF StartFailed, FlushFailed
  <2>2. spool' \in SpoolType /\ lost' \in LostType /\ faults' \in Nat
        /\ nextFile' \in 0 .. MaxFiles /\ writing' \in [Procs -> Files \cup {0}]
    <3>1. CASE OpenFile(p, "session", "start", {}, 0)
      BY <1>0, <3>1, OpenFileType DEF OpenFile, Paths, TypeOK, LostType
    <3>2. CASE OpenFile(p, "events", "batch", posts[s].events, 0)
      BY <1>0, <3>2, OpenFileType DEF OpenFile, Paths, TypeOK, LostType
    <3>3. CASE WriteFails({}, 0, {})
      BY <3>3, WriteFailsType DEF TypeOK
    <3>4. CASE WriteFails(posts[s].events, 0, OverCap(spool))
      <4>1. OverCap(spool) \in SUBSET Files
        BY DEF OverCap
      <4> QED BY <1>0, <3>4, <4>1, WriteFailsType DEF TypeOK
    <3> QED BY <1>2, <3>1, <3>2, <3>3, <3>4 DEF StartFailed, FlushFailed
  <2> QED BY <2>1, <2>2 DEF Free, server, TypeOK, SpoolType, LostType
<1>3. CASE FlushOk(s)
  <2>1. Present \in SUBSET Files
    BY DEF Present
  <2>2. RetryNext(p, spool, Present, s) /\ UNCHANGED << client, nextFile, server, faults >>
    BY <1>3 DEF FlushOk
  <2> QED BY Zenon, <1>0, <2>1, <2>2, RetryNextType
          DEF TypeOK, SpoolType, LostType, PostsType, client, server
<1>4. CASE RetryOk(s)
  <2> DEFINE removed == [spool EXCEPT ![posts[s].file] = NoFile]
  <2>1. removed \in SpoolType
    BY Zenon DEF TypeOK, SpoolType
  <2>2. RetryNext(p, removed, posts[s].rest, s) /\ UNCHANGED << client, nextFile, server, faults >>
    BY <1>4 DEF RetryOk
  <2> HIDE DEF removed
  <2> QED BY Zenon, <1>0, <2>1, <2>2, RetryNextType
          DEF TypeOK, SpoolType, LostType, PostsType, client, server
<1> QED BY <1>1, <1>2, <1>3, <1>4 DEF Callback

LEMMA SetupType ==
  ASSUME TypeOK, NEW p \in Procs, Setup(p)
  PROVE  TypeOK'
<1> DEFINE retrying == url'[p] /\ Whole(spool) # {}
<1>1. PICK s \in FreeSlots, t \in FreeSlots :
       /\ s # t
       /\ posts' = [posts EXCEPT ![s] = NewPost(p, "start", {}, url'[p]),
                                 ![t] = IF retrying THEN RetryPost(p, spool, Present) ELSE NoPost]
       /\ net' = net \cup (IF url'[p] THEN {NewRequest(p, "start", {}, s)} ELSE {})
                     \cup (IF retrying THEN {RetryRequest(p, spool, Present, t)} ELSE {})
  BY Zenon DEF Setup
<1>2. url' \in [Procs -> BOOLEAN]
  BY ChoicesOK DEF Setup, TypeOK
<1>3. Present \in SUBSET Files /\ Present \cap Whole(spool) = Whole(spool)
  BY DEF Present, Whole
<1>4. s \in Slots /\ t \in Slots
  BY DEF FreeSlots
<1>5. retrying => /\ RetryPost(p, spool, Present) \in Post
                  /\ RetryRequest(p, spool, Present, t) \in Request
  BY <1>3, <1>4, RetryType DEF TypeOK, SpoolType
<1>6. NewPost(p, "start", {}, url'[p]) \in Post
  BY DEF NewPost, Post
<1>7. NewRequest(p, "start", {}, s) \in Request
  BY <1>4 DEF NewRequest, Request, Paths
<1>8. posts' \in PostsType
  BY Zenon, <1>1, <1>5, <1>6 DEF TypeOK, PostsType
<1>9. net' \subseteq Request
  BY <1>1, <1>5, <1>7 DEF TypeOK
<1>10. spool' \in SpoolType /\ lost' \in LostType
  <2>1. CASE url'[p]
    BY <1>3, <2>1, DropCorruptType DEF Setup, TypeOK, SpoolType, LostType
  <2>2. CASE ~url'[p]
    BY <2>2 DEF Setup, TypeOK, SpoolType, LostType
  <2> QED BY <2>1, <2>2
<1>11. /\ pc' = [pc EXCEPT ![p] = "running"]
       /\ seq' = [seq EXCEPT ![p] = 1] /\ queue' = [queue EXCEPT ![p] = {<< p, 1 >>}]
       /\ UNCHANGED << paused, writing, nextFile, server, faults >>
  BY DEF Setup
<1> QED BY <1>2, <1>8, <1>9, <1>10, <1>11
        DEF TypeOK, SpoolType, LostType, PostsType, server, Event

LEMMA TimerType ==
  ASSUME TypeOK, NEW p \in Procs, Emit(p) \/ FlushTimer(p) \/ Shutdown(p) \/ RetryTimer(p)
  PROVE  TypeOK'
<1> DEFINE evs == queue[p] \cup {<< p, seq[p] + 1 >>}
<1>0. evs \in SUBSET Event /\ queue[p] \in SUBSET Event
  BY DEF TypeOK, Event
<1>1. CASE Emit(p)
  <2>1. seq' \in [Procs -> Nat]
        /\ UNCHANGED << pc, paused, url, writing, spool, nextFile, server, lost, faults >>
    BY <1>1 DEF Emit, TypeOK
  <2>2. CASE FlushNow(p, evs)
    BY <1>0, <2>1, <2>2, FlushNowType DEF TypeOK, PostsType, server
  <2>3. CASE queue' = [queue EXCEPT ![p] = evs] /\ UNCHANGED << posts, net >>
    BY <1>0, <2>1, <2>3 DEF TypeOK, server
  <2> QED BY <1>1, <2>2, <2>3 DEF Emit
<1>2. CASE FlushTimer(p)
  BY <1>0, <1>2, FlushNowType DEF FlushTimer, TypeOK, PostsType, server
<1>3. CASE Shutdown(p)
  <2>1. pc' \in [Procs -> {"off", "running", "flushed", "closing", "leaving", "exited"}]
        /\ UNCHANGED << paused, url, seq, writing, spool, nextFile, server, lost, faults >>
    BY <1>3 DEF Shutdown, TypeOK
  <2>2. CASE FlushNow(p, queue[p])
    BY <1>0, <2>1, <2>2, FlushNowType DEF TypeOK, PostsType, server
  <2>3. CASE UNCHANGED << queue, posts, net >>
    BY <2>1, <2>3 DEF TypeOK, server
  <2> QED BY <1>3, <2>2, <2>3 DEF Shutdown
<1>4. CASE RetryTimer(p)
  <2>1. Present \in SUBSET Files /\ FreeSlots \subseteq Slots
    BY DEF Present, FreeSlots
  <2>2. PICK s \in FreeSlots : RetryNext(p, spool, Present, s)
    BY <1>4 DEF RetryTimer
  <2> QED BY Zenon, <1>4, <2>1, <2>2, RetryNextType
          DEF RetryTimer, TypeOK, SpoolType, LostType, PostsType, client, server
<1> QED BY <1>1, <1>2, <1>3, <1>4

LEMMA PauseType ==
  ASSUME TypeOK, NEW p \in Procs, Pause(p) \/ Resume(p)
  PROVE  TypeOK'
<1>1. paused' \in [Procs -> BOOLEAN]
  BY Zenon DEF Pause, Resume, TypeOK
<1> QED BY <1>1 DEF Pause, Resume, TypeOK, server

LEMMA CloseFileType ==
  ASSUME TypeOK, NEW p \in Procs, CloseFile(p)
  PROVE  TypeOK'
<1> DEFINE f      == writing[p]
           closed == [spool EXCEPT ![f].whole = TRUE]
           over   == IF pc[p] = "running" /\ spool[f].kind = "events" THEN OverCap(closed) ELSE {}
<1>1. f \in Files /\ writing' \in [Procs -> Files \cup {0}]
  BY DEF CloseFile, TypeOK
<1>2. spool' \in SpoolType /\ lost' \in LostType
  <2>1. CASE spool[f] = NoFile
    BY <2>1 DEF CloseFile, TypeOK, SpoolType, LostType
  <2>2. CASE spool[f] # NoFile
    <3>1. spool[f] \in File
      BY <1>1, <2>2 DEF TypeOK
    <3>2. [spool[f] EXCEPT !.whole = TRUE] \in File
      BY Zenon, <3>1 DEF File
    <3>3. closed \in SpoolType
      BY <1>1, <3>2 DEF TypeOK, SpoolType
    <3>4. over \in SUBSET Files
      BY DEF OverCap
    <3>5. spool' = Without(closed, over)
          /\ lost' = [lost EXCEPT !["cap"] = @ \cup EventsIn(closed, over)]
      BY Zenon, <2>2 DEF CloseFile
    <3> HIDE DEF closed, over
    <3>6. EventsIn(closed, over) \in SUBSET Event
      BY <3>3, <3>4, EventsInType
    <3> QED BY <3>3, <3>5, <3>6, WithoutType DEF TypeOK, LostType, Causes
  <2> QED BY <2>1, <2>2
<1>3. UNCHANGED << pc, paused, url, seq, queue, posts, net, nextFile, server, faults >>
  BY DEF CloseFile
<1> QED BY <1>1, <1>2, <1>3 DEF TypeOK, SpoolType, LostType, server

LEMMA UnansweredType ==
  ASSUME TypeOK, NEW r \in Request, Unanswered(r)
  PROVE  /\ sessions' \subseteq Procs /\ ended' \subseteq Procs /\ stored' \subseteq Event
         /\ net' \subseteq Request
<1>1. CASE Serve(r) /\ UNCHANGED net
  BY <1>1, ServeType DEF TypeOK
<1>2. CASE ~Serve(r)
  BY <1>2 DEF Unanswered, TypeOK, server
<1> QED BY <1>1, <1>2 DEF Unanswered, TypeOK, server

LEMMA SyncBatchType ==
  ASSUME TypeOK, NEW p \in Procs, SyncBatch(p)
  PROVE  TypeOK'
<1> DEFINE env == << p, seq[p] + 1 >>
           r   == [path |-> "batch", sess |-> p, events |-> {env},
                   started_at |-> FALSE, from |-> Late]
<1>1. {env} \in SUBSET Event
  BY DEF TypeOK, Event
<1>2. r \in Request
  BY <1>1 DEF Request, Paths
<1>3. /\ pc' \in [Procs -> {"off", "running", "flushed", "closing", "leaving", "exited"}]
      /\ seq' \in [Procs -> Nat] /\ UNCHANGED << paused, url, queue, posts >>
  BY DEF SyncBatch, TypeOK
<1>4. CASE /\ Serve(r)
           /\ lost' = [lost EXCEPT !["end"] = IF Accepted(r) THEN @ ELSE @ \cup {env}]
           /\ UNCHANGED << net, faults, spool, nextFile, writing >>
  <2>1. lost' \in LostType
    BY <1>1, <1>4 DEF TypeOK, LostType, Causes
  <2>2. sessions' \subseteq Procs /\ ended' \subseteq Procs /\ stored' \subseteq Event
    BY <1>2, <1>4, ServeType
  <2> HIDE DEF r
  <2> QED BY <1>3, <1>4, <2>1, <2>2 DEF TypeOK, LostType
<1>5. CASE Unanswered(r) /\ OpenFile(p, "events", "batch", {env}, 1)
  <2>1. NewFile(p, "events", "batch", {env}) /\ faults' = faults + 1 /\ UNCHANGED lost
    BY <1>5 DEF OpenFile
  <2>2. spool' \in SpoolType /\ nextFile' \in 0 .. MaxFiles
        /\ writing' \in [Procs -> Files \cup {0}]
    BY <1>1, <2>1, OpenFileType DEF Paths
  <2> HIDE DEF r, env
  <2> QED BY <1>2, <1>3, <1>5, <2>1, <2>2, UnansweredType DEF TypeOK, SpoolType
<1>6. CASE Unanswered(r) /\ WriteFails({env}, 1, {})
  <2>1. spool' \in SpoolType /\ lost' \in LostType /\ faults' \in Nat
        /\ nextFile' = nextFile /\ writing' = writing
    BY <1>1, <1>6, WriteFailsType
  <2> HIDE DEF r, env
  <2> QED BY <1>2, <1>3, <1>6, <2>1, UnansweredType DEF TypeOK, SpoolType, LostType
<1> QED BY <1>4, <1>5, <1>6 DEF SyncBatch

LEMMA SyncEndType ==
  ASSUME TypeOK, NEW p \in Procs, SyncEnd(p)
  PROVE  TypeOK'
<1> DEFINE r == [path |-> "end", sess |-> p, events |-> {}, started_at |-> FALSE, from |-> Late]
           env == << p, seq[p] >>
<1>1. {env} \in SUBSET Event
  BY DEF TypeOK, Event
<1>2. r \in Request
  BY DEF Request, Paths
<1>3. /\ pc' \in [Procs -> {"off", "running", "flushed", "closing", "leaving", "exited"}]
      /\ UNCHANGED << paused, url, seq, queue, posts >>
  BY DEF SyncEnd, TypeOK
<1>4. CASE Serve(r) /\ UNCHANGED << net, faults, spool, nextFile, writing, lost >>
  <2>1. sessions' \subseteq Procs /\ ended' \subseteq Procs /\ stored' \subseteq Event
    BY <1>2, <1>4, ServeType
  <2> HIDE DEF r
  <2> QED BY <1>3, <1>4, <2>1 DEF TypeOK
<1>5. CASE Unanswered(r) /\ OpenFile(p, "session", "end", {env}, 1)
  <2>1. NewFile(p, "session", "end", {env}) /\ faults' = faults + 1 /\ UNCHANGED lost
    BY <1>5 DEF OpenFile
  <2>2. spool' \in SpoolType /\ nextFile' \in 0 .. MaxFiles
        /\ writing' \in [Procs -> Files \cup {0}]
    BY <1>1, <2>1, OpenFileType DEF Paths
  <2> HIDE DEF r, env
  <2> QED BY <1>2, <1>3, <1>5, <2>1, <2>2, UnansweredType DEF TypeOK, SpoolType
<1>6. CASE Unanswered(r) /\ WriteFails({}, 1, {})
  <2>1. spool' \in SpoolType /\ lost' \in LostType /\ faults' \in Nat
        /\ nextFile' = nextFile /\ writing' = writing
    BY <1>6, WriteFailsType
  <2> HIDE DEF r
  <2> QED BY <1>2, <1>3, <1>6, <2>1, UnansweredType DEF TypeOK, SpoolType, LostType
<1> QED BY <1>4, <1>5, <1>6 DEF SyncEnd

LEMMA SpoolEndType ==
  ASSUME TypeOK, NEW p \in Procs, SpoolEnd(p)
  PROVE  TypeOK'
<1> DEFINE env == << p, seq[p] + 1 >>
<1>1. {env} \in SUBSET Event
  BY DEF TypeOK, Event
<1>2. /\ pc' = [pc EXCEPT ![p] = "leaving"] /\ seq' = [seq EXCEPT ![p] = @ + 1]
      /\ lost' = [lost EXCEPT !["end"] = @ \cup {env}]
      /\ NewFile(p, "session", "end", {env})
      /\ UNCHANGED << paused, url, queue, posts, net, server, faults >>
  BY DEF SpoolEnd
<1>3. spool' \in SpoolType /\ nextFile' \in 0 .. MaxFiles /\ writing' \in [Procs -> Files \cup {0}]
  BY <1>1, <1>2, OpenFileType DEF Paths
<1>4. lost' \in LostType
  BY <1>1, <1>2 DEF TypeOK, LostType, Causes
<1>5. /\ pc' \in [Procs -> {"off", "running", "flushed", "closing", "leaving", "exited"}]
      /\ seq' \in [Procs -> Nat]
  BY <1>2 DEF TypeOK
<1>6. UNCHANGED << paused, url, queue, posts, net, server, faults >>
  BY <1>2
<1> HIDE DEF env
<1> QED BY <1>3, <1>4, <1>5, <1>6 DEF TypeOK, SpoolType, LostType, server

LEMMA GoneType ==
  ASSUME TypeOK, NEW p \in Procs, Gone(p)
  PROVE  TypeOK'
<1> DEFINE mine == {s \in Slots : posts[s] # NoPost /\ posts[s].proc = p}
           unflushed == UNION {posts[s].events : s \in {t \in mine : posts[t].kind = "flush"}}
<1>1. unflushed \in SUBSET Event
  BY DEF TypeOK, Post
<1>2. EventsIn(spool, {writing[p]} \cap Files) \in SUBSET Event
  BY EventsInType DEF TypeOK, SpoolType
<1>3. queue[p] \in SUBSET Event
  BY DEF TypeOK
<1>4. \A r \in Request : [r EXCEPT !.from = Late] \in Request
  BY DEF Request
<1>5. net' \subseteq Request
  BY <1>4 DEF Gone, TypeOK
<1>6. posts' \in PostsType
  BY DEF Gone, TypeOK, PostsType
<1> HIDE DEF unflushed
<1>7. lost' \in LostType
  <2>1. lost' = [lost EXCEPT !["exit"] = @ \cup queue[p] \cup unflushed
                          \cup EventsIn(spool, {writing[p]} \cap Files)]
    BY DEF Gone, unflushed
  <2> QED BY Zenon, <1>1, <1>2, <1>3, <2>1 DEF TypeOK, LostType, Causes
<1> QED BY Zenon, <1>5, <1>6, <1>7 DEF Gone, TypeOK, PostsType, LostType, server

LEMMA NextType ==
  ASSUME TypeOK, RequestsOK, [Next]_vars
  PROVE  TypeOK'
<1>1. CASE UNCHANGED vars
  BY <1>1 DEF vars, client, server, TypeOK
<1>2. ASSUME NEW p \in Procs, ProcNext(p) PROVE TypeOK'
  BY <1>2, SetupType, TimerType, PauseType, CloseFileType, SyncBatchType, SyncEndType,
     SpoolEndType, GoneType DEF ProcNext, Exit, Crash
<1>3. ASSUME NEW s \in Slots, Callback(s) PROVE TypeOK'
  BY <1>3, CallbackType
<1>4. ASSUME NEW r \in net, NetNext(r) PROVE TypeOK'
  BY <1>4, NetNextType
<1> QED BY <1>1, <1>2, <1>3, <1>4 DEF Next

-----------------------------------------------------------------------------
(* What a step has to guarantee for each part of the invariant.            *)

\* The files of the past: they may disappear, but neither come back nor change.
FilesKept ==
  \A f \in Files : (f <= nextFile /\ spool'[f] # NoFile) =>
    /\ spool[f] # NoFile
    /\ spool'[f].kind = spool[f].kind /\ spool'[f].path = spool[f].path
    /\ spool'[f].events = spool[f].events

\* The events of file f stay deliverable, or are stored or dropped.
FileSafe(f) ==
  (spool[f] # NoFile /\ spool[f].kind = "events" /\ (spool[f].whole \/ f \in BeingWritten)) =>
    \/ /\ spool'[f] # NoFile /\ spool'[f].kind = "events"
       /\ spool'[f].events = spool[f].events
       /\ spool'[f].whole \/ f \in BeingWritten'
    \/ spool[f].events \subseteq stored' \cup UNION {lost'[c] : c \in Causes}

SettledKept == stored \subseteq stored' /\ \A c \in Causes : lost[c] \subseteq lost'[c]

LEMMA EventsOfKept ==
  ASSUME FilesOK, FilesKept, NEW s \in Slots, posts[s] # NoPost,
         posts'[s].kind = posts[s].kind, posts'[s].events = posts[s].events,
         posts'[s].file = posts[s].file
  PROVE  EventsOf(s)' \subseteq EventsOf(s)
<1>1. CASE posts[s].kind = "retry"
  <2>1. posts[s].file <= nextFile
    BY <1>1 DEF FilesOK
  <2>2. EventsIn(spool, {posts[s].file} \cap Files)' \subseteq EventsIn(spool, {posts[s].file} \cap Files)
    BY <2>1 DEF EventsIn, FilesKept, Files
  <2> QED BY <1>1, <2>2 DEF EventsOf
<1>2. CASE posts[s].kind # "retry"
  BY <1>2 DEF EventsOf
<1> QED BY <1>1, <1>2

\* Of the slots, a step changes those of Touched, none of which has a request
\* under way afterwards but the ones of New.
LEMMA PostsStep ==
  ASSUME TypeOK, RequestsOK, AcksOK, FilesOK, FilesKept, stored \subseteq stored',
         NEW Touched \in SUBSET Slots, NEW New,
         \A s \in Slots \ Touched : posts'[s] = posts[s],
         \A s \in Touched : (posts'[s] # NoPost /\ posts'[s].status = "ok")
                              => EventsOf(s)' \subseteq stored',
         \A r \in net' : r.from # Late => r \in New \/ (r \in net /\ r.from \notin Touched),
         \A r \in New : /\ r.from \in Touched
                        /\ posts'[r.from] # NoPost /\ posts'[r.from].status = "waiting"
                        /\ EventsOf(r.from)' \subseteq BatchEvents(r),
         \A r1, r2 \in New : r1.from = r2.from => r1 = r2
  PROVE  RequestsOK' /\ AcksOK'
<1>1. \A s \in Slots \ Touched : posts[s] # NoPost => EventsOf(s)' \subseteq EventsOf(s)
  BY EventsOfKept
<1>2. \A r \in net : r.from # Late => r.from \in Slots
  BY DEF TypeOK, Request
<1>3. ASSUME NEW r \in net', r.from # Late
      PROVE  /\ posts'[r.from] # NoPost /\ posts'[r.from].status = "waiting"
             /\ EventsOf(r.from)' \subseteq BatchEvents(r)
  <2>1. CASE r \in New
    BY <2>1
  <2>2. CASE r \in net /\ r.from \in Slots \ Touched
    BY <1>1, <1>3, <2>2 DEF RequestsOK
  <2> QED BY <1>2, <1>3, <2>1, <2>2
<1>4. ASSUME NEW r1 \in net', NEW r2 \in net', r1.from = r2.from, r1.from # Late
      PROVE  r1 = r2
  BY <1>4 DEF RequestsOK
<1>5. RequestsOK'
  BY <1>3, <1>4 DEF RequestsOK, BatchEvents
<1>6. ASSUME NEW s \in Slots, posts'[s] # NoPost, posts'[s].status = "ok"
      PROVE  EventsOf(s)' \subseteq stored'
  BY <1>1, <1>6 DEF AcksOK
<1> QED BY <1>5, <1>6 DEF AcksOK

\* The same for a step that sends no request.
LEMMA PostsShrink ==
  ASSUME TypeOK, RequestsOK, AcksOK, FilesOK, FilesKept, stored \subseteq stored',
         NEW Touched \in SUBSET Slots,
         \A s \in Slots \ Touched : posts'[s] = posts[s],
         \A s \in Touched : (posts'[s] # NoPost /\ posts'[s].status = "ok")
                              => EventsOf(s)' \subseteq stored',
         \A r \in net' : r.from # Late => r \in net /\ r.from \notin Touched
  PROVE  RequestsOK' /\ AcksOK'
<1> DEFINE New == {}
<1>1. \A r \in New : FALSE
  OBVIOUS
<1> HIDE DEF New
<1>2. \A r \in net' : r.from # Late => r \in New \/ (r \in net /\ r.from \notin Touched)
  OBVIOUS
<1>3. \A r \in New : /\ r.from \in Touched
                     /\ posts'[r.from] # NoPost /\ posts'[r.from].status = "waiting"
                     /\ EventsOf(r.from)' \subseteq BatchEvents(r)
  BY <1>1
<1>4. \A r1, r2 \in New : r1.from = r2.from => r1 = r2
  BY <1>1
<1> QED BY Zenon, <1>2, <1>3, <1>4, PostsStep

LEMMA AccountingStep ==
  ASSUME TypeOK, Accounting, SettledKept,
         \A q \in Procs : \A n \in 1 .. seq'[q] :
           Queued(<< q, n >>) => Held(<< q, n >>)' \/ Settled(<< q, n >>)',
         \A e \in Event : Posted(e) => Held(e)' \/ Settled(e)',
         \A f \in Files : FileSafe(f),
         \A q \in Procs : \A n \in 1 .. seq'[q] :
           n \in 1 .. seq[q] \/ Held(<< q, n >>)' \/ Settled(<< q, n >>)'
  PROVE  Accounting'
<1>1. ASSUME NEW e \in Event, Settled(e) PROVE Settled(e)'
  BY <1>1 DEF Settled, SettledKept
<1>2. ASSUME NEW e \in Event, Spooled(e) PROVE Spooled(e)' \/ Settled(e)'
  <2>1. PICK f \in Files : /\ spool[f] # NoFile /\ spool[f].kind = "events"
                           /\ e \in spool[f].events
                           /\ spool[f].whole \/ f \in BeingWritten
    BY <1>2 DEF Spooled
  <2>2. CASE /\ spool'[f] # NoFile /\ spool'[f].kind = "events"
             /\ spool'[f].events = spool[f].events
             /\ spool'[f].whole \/ f \in BeingWritten'
    BY <2>1, <2>2 DEF Spooled
  <2>3. CASE spool[f].events \subseteq stored' \cup UNION {lost'[c] : c \in Causes}
    BY <2>1, <2>3 DEF Settled
  <2> QED BY <2>1, <2>2, <2>3 DEF FileSafe
<1>3. ASSUME NEW q \in Procs, NEW n \in 1 .. seq'[q]
      PROVE  Held(<< q, n >>)' \/ Settled(<< q, n >>)'
  <2>1. CASE n \in 1 .. seq[q]
    <3>1. << q, n >> \in Event
      BY <2>1 DEF Event
    <3>2. Held(<< q, n >>) \/ Settled(<< q, n >>)
      BY <2>1 DEF Accounting
    <3> QED BY <1>1, <1>2, <3>1, <3>2 DEF Held
  <2> QED BY <2>1
<1> QED BY Zenon, <1>3 DEF Accounting

\* The same for a step that loses no queued event at all.
LEMMA AccountingKept ==
  ASSUME TypeOK, Accounting, SettledKept,
         \A e \in Event : Queued(e) => Held(e)' \/ Settled(e)',
         \A e \in Event : Posted(e) => Held(e)' \/ Settled(e)',
         \A f \in Files : FileSafe(f),
         \A q \in Procs : \A n \in 1 .. seq'[q] :
           n \in 1 .. seq[q] \/ Held(<< q, n >>)' \/ Settled(<< q, n >>)'
  PROVE  Accounting'
<1>1. \A q \in Procs : \A n \in 1 .. seq'[q] :
        Queued(<< q, n >>) => Held(<< q, n >>)' \/ Settled(<< q, n >>)'
  BY DEF Event
<1> QED BY <1>1, AccountingStep

-----------------------------------------------------------------------------
(* The rest of the invariant, one action or group of similar actions at a  *)
(* time.                                                                   *)

Rest == RequestsOK /\ AcksOK /\ FilesOK /\ Accounting

\* The server stores the events of a batch it accepts, and forgets none.
LEMMA ServeStores ==
  ASSUME NEW r, Serve(r)
  PROVE  stored \subseteq stored' /\ (Accepted(r) => BatchEvents(r) \subseteq stored')
BY DEF Serve, handleSessionStart, handleSessionEnd, handleEventsBatch, BatchEvents

\* A step that leaves the spool and the lost events alone.
LEMMA SpoolUnchanged ==
  ASSUME UNCHANGED << spool, nextFile, writing, lost >>, stored \subseteq stored'
  PROVE  FilesKept /\ SettledKept /\ \A f \in Files : FileSafe(f)
BY DEF FilesKept, SettledKept, FileSafe, BeingWritten

LEMMA NetNextRest ==
  ASSUME IInv, NEW r \in net, NetNext(r)
  PROVE  Rest'
<1>1. TypeOK /\ RequestsOK /\ AcksOK /\ FilesOK /\ Accounting
  BY DEF IInv
<1>2. UNCHANGED << pc, paused, url, seq, queue, writing, spool, nextFile, lost >>
  BY DEF NetNext, Handle, Drop, ReplyLost, TimeOut, client
<1>3. stored \subseteq stored'
  BY ServeStores DEF NetNext, Handle, Drop, ReplyLost, TimeOut, server
<1>4. FilesKept /\ SettledKept /\ \A f \in Files : FileSafe(f)
  BY <1>2, <1>3, SpoolUnchanged
<1>5. PICK outcome \in {"ok", "fail"} :
        /\ Answered(r, outcome)
        /\ outcome = "ok" => Serve(r) /\ Accepted(r)
  BY DEF NetNext, Handle, Drop, ReplyLost, TimeOut
<1>6. r.from # Late => r.from \in Slots
  BY <1>1 DEF TypeOK, Request
<1>7. \A s \in Slots : posts[s] # NoPost => posts[s] \in Post
  BY <1>1 DEF TypeOK
<1> DEFINE Touched == {r.from} \cap Slots
<1>8. \A s \in Slots : s \notin Touched => posts'[s] = posts[s]
  BY <1>1, <1>5 DEF Answered, TypeOK
<1>9. \A s \in Touched :
        /\ posts[s] # NoPost /\ posts'[s] # NoPost /\ posts'[s].status = outcome
        /\ posts'[s].kind = posts[s].kind /\ posts'[s].events = posts[s].events
        /\ posts'[s].file = posts[s].file
  <2> TAKE s \in Touched
  <2>1. s = r.from /\ s # Late
    BY SlotsOK
  <2>2. posts[s] # NoPost /\ posts[s] \in Post
    BY <1>1, <1>7, <2>1 DEF RequestsOK
  <2>3. posts'[s] = [posts[s] EXCEPT !.status = outcome]
    BY <1>1, <1>5, <2>1 DEF Answered, TypeOK
  <2>4. posts'[s] \in Post
    BY <2>2, <2>3 DEF Post
  <2> QED BY <2>2, <2>3, <2>4, NoPostOK DEF Post
<1>10. \A s \in Touched : (posts'[s] # NoPost /\ posts'[s].status = "ok") => EventsOf(s)' \subseteq stored'
  <2> SUFFICES ASSUME NEW s \in Touched, outcome = "ok" PROVE EventsOf(s)' \subseteq stored'
    BY <1>9
  <2>1. s = r.from /\ s # Late
    BY SlotsOK
  <2>2. EventsOf(s)' \subseteq EventsOf(s)
    BY <1>1, <1>4, <1>9, EventsOfKept
  <2>3. EventsOf(s) \subseteq BatchEvents(r)
    BY <1>1, <2>1 DEF RequestsOK
  <2>4. BatchEvents(r) \subseteq stored'
    BY <1>5, ServeStores
  <2> QED BY <2>2, <2>3, <2>4
<1>11. \A q \in net' : q.from # Late => q \in net /\ q.from \notin Touched
  <2>1. \A q \in net' : q.from # Late => q \in net \ {r}
    <3>1. r \in Request /\ [r EXCEPT !.from = Late].from = Late
      BY <1>1 DEF TypeOK, Request
    <3> QED BY Zenon, <3>1 DEF NetNext, Handle, Drop, ReplyLost, TimeOut
  <2> QED BY <1>1, <2>1 DEF RequestsOK
<1>12. RequestsOK' /\ AcksOK'
  <2> HIDE DEF Touched
  <2>1. Touched \in SUBSET Slots
    BY DEF Touched
  <2> QED BY <1>1, <1>3, <1>4, <1>8, <1>10, <1>11, <2>1, PostsShrink
<1>13. FilesOK'
  BY <1>1, <1>2, <1>8, <1>9 DEF FilesOK
<1>14. Accounting'
  <2>1. \A e \in Event : Queued(e) => Held(e)'
    BY <1>2 DEF Queued, Held
  <2>2. \A e \in Event : Posted(e) => Held(e)'
    BY <1>8, <1>9 DEF Posted, Held
  <2>3. \A q \in Procs : \A n \in 1 .. seq'[q] : n \in 1 .. seq[q]
    BY <1>2
  <2> QED BY <1>1, <1>4, <2>1, <2>2, <2>3, AccountingKept
<1> QED BY <1>12, <1>13, <1>14 DEF Rest

\* Freeing a slot whose post is not of a batch, or whose batch is stored.
LEMMA QuietRest ==
  ASSUME IInv, NEW s \in Slots, posts[s] # NoPost, posts[s].status # "waiting",
         posts[s].kind # "flush", Free(s),
         UNCHANGED << seq, queue, writing, net, spool, nextFile, server, lost >>
  PROVE  Rest'
<1>1. TypeOK /\ RequestsOK /\ AcksOK /\ FilesOK /\ Accounting
  BY DEF IInv
<1>2. FilesKept /\ SettledKept /\ \A f \in Files : FileSafe(f)
  BY SpoolUnchanged DEF server
<1>3. posts'[s] = NoPost /\ \A t \in Slots \ {s} : posts'[t] = posts[t]
  BY <1>1 DEF Free, TypeOK
<1>4. \A r \in net' : r.from # Late => r \in net /\ r.from \notin {s}
  BY <1>1 DEF RequestsOK
<1>5. RequestsOK' /\ AcksOK'
  <2>1. stored \subseteq stored'
    BY DEF server
  <2> QED BY Zenon, <1>1, <1>2, <1>3, <1>4, <2>1, PostsShrink
<1>6. FilesOK'
  BY <1>1, <1>3 DEF FilesOK
<1>7. Accounting'
  <2>1. \A e \in Event : Queued(e) => Held(e)'
    BY DEF Queued, Held
  <2>2. \A e \in Event : Posted(e) => Held(e)'
    BY <1>3 DEF Posted, Held
  <2>3. \A q \in Procs : \A n \in 1 .. seq'[q] : n \in 1 .. seq[q]
    OBVIOUS
  <2> QED BY <1>1, <1>2, <2>1, <2>2, <2>3, AccountingKept
<1> QED BY <1>5, <1>6, <1>7 DEF Rest

\* A retry that starts from sp: the spool without a file that is stored.
SpoolLess(sp) ==
  /\ sp \in SpoolType
  /\ \A f \in Files :
       \/ sp[f] = spool[f]
       \/ /\ sp[f] = NoFile
          /\ (spool[f] # NoFile /\ spool[f].kind = "events") => spool[f].events \subseteq stored

LEMMA DropCorruptRest ==
  ASSUME TypeOK, NEW sp, SpoolLess(sp), NEW list \in SUBSET Files, DropCorrupt(sp, list),
         UNCHANGED << writing, stored >>
  PROVE  FilesKept /\ SettledKept /\ \A f \in Files : FileSafe(f)
<1> DEFINE torn == EventsIn(sp, Corrupt(sp, list) \cap BeingWritten)
<1>1. \A f \in Files : spool'[f] = IF f \in Corrupt(sp, list) THEN NoFile ELSE sp[f]
  BY DEF DropCorrupt, Without
<1>2. FilesKept
  BY <1>1 DEF FilesKept, SpoolLess
<1>3. lost' = [lost EXCEPT !["torn"] = @ \cup torn]
  BY DEF DropCorrupt
<1> HIDE DEF torn
<1>4. SettledKept
  BY <1>3 DEF SettledKept, TypeOK
<1>5. lost'["torn"] = lost["torn"] \cup torn
  BY <1>3 DEF TypeOK, Causes
<1>6. ASSUME NEW f \in Files, spool[f] # NoFile, spool[f].kind = "events",
             spool[f].whole \/ f \in BeingWritten
      PROVE  \/ /\ spool'[f] # NoFile /\ spool'[f].kind = "events"
                /\ spool'[f].events = spool[f].events
                /\ spool'[f].whole \/ f \in BeingWritten'
             \/ spool[f].events \subseteq stored' \cup UNION {lost'[c] : c \in Causes}
  <2>1. CASE sp[f] # spool[f]
    BY <1>6, <2>1 DEF SpoolLess
  <2>2. CASE sp[f] = spool[f] /\ f \notin Corrupt(sp, list)
    BY <1>1, <1>6, <2>2 DEF BeingWritten
  <2>3. CASE sp[f] = spool[f] /\ f \in Corrupt(sp, list)
    <3>1. f \in Corrupt(sp, list) \cap BeingWritten
      BY <1>6, <2>3 DEF Corrupt
    <3>2. spool[f].events \subseteq torn
      BY <1>6, <2>3, <3>1 DEF EventsIn, torn
    <3> QED BY <1>5, <3>2 DEF Causes
  <2> QED BY <2>1, <2>2, <2>3
<1>7. \A f \in Files : FileSafe(f)
  BY <1>6 DEF FileSafe
<1> QED BY <1>2, <1>4, <1>7

\* The post of a retry waits for the events of its file.
LEMMA RetryPostRest ==
  ASSUME TypeOK, FilesOK, NEW sp, SpoolLess(sp), NEW list \in SUBSET Files,
         list \cap Whole(sp) # {}, DropCorrupt(sp, list), NEW p \in Procs, NEW s \in Slots,
         posts'[s] = RetryPost(p, sp, list)
  PROVE  LET r == RetryRequest(p, sp, list, s) IN
         /\ posts'[s] # NoPost /\ posts'[s].status = "waiting" /\ posts'[s].kind = "retry"
         /\ posts'[s].file <= nextFile
         /\ r.from = s /\ EventsOf(s)' \subseteq BatchEvents(r)
<1> DEFINE f == FirstReadable(sp, list)
<1>1. f \in list \cap Whole(sp)
  BY FirstReadableIn
<1> HIDE DEF f
<1>2. f \in Files /\ sp[f] # NoFile /\ sp[f] = spool[f] /\ sp[f] \in File
  BY <1>1 DEF Whole, SpoolLess, SpoolType
<1>3. spool'[f] = sp[f]
  BY <1>1, <1>2 DEF DropCorrupt, Without, Corrupt, Whole
<1>4. posts'[s] = [proc |-> p, kind |-> "retry", events |-> {}, file |-> f,
                   rest |-> {g \in list : g > f}, status |-> "waiting"]
  BY DEF RetryPost, f
<1>5. RetryRequest(p, sp, list, s) =
        [path |-> sp[f].path, sess |-> p,
         events |-> IF sp[f].path = "batch" THEN sp[f].events ELSE {},
         started_at |-> FALSE, from |-> s]
  BY DEF RetryRequest, f
<1>6. posts'[s] # NoPost
  BY RetryType, NoPostOK DEF SpoolLess
<1>7. f <= nextFile
  BY <1>2 DEF FilesOK
<1>8. EventsOf(s)' \subseteq BatchEvents(RetryRequest(p, sp, list, s))
  <2>1. EventsOf(s)' = IF sp[f].kind = "events" THEN sp[f].events ELSE {}
    <3>1. EventsOf(s)' = EventsIn(spool, {f} \cap Files)'
      BY <1>4 DEF EventsOf
    <3>2. EventsIn(spool, {f} \cap Files)' = IF sp[f].kind = "events" THEN sp[f].events ELSE {}
      BY <1>2, <1>3 DEF EventsIn
    <3> QED BY <3>1, <3>2
  <2>2. sp[f].kind = "events" => sp[f].path = "batch"
    BY <1>2 DEF FilesOK
  <2> QED BY <1>5, <2>1, <2>2 DEF BatchEvents
<1>9. posts'[s].status = "waiting" /\ posts'[s].kind = "retry" /\ posts'[s].file <= nextFile
  BY <1>4, <1>7
<1>10. RetryRequest(p, sp, list, s).from = s
  BY <1>5
<1> QED BY <1>6, <1>8, <1>9, <1>10

LEMMA RetryNextRest ==
  ASSUME IInv, NEW p \in Procs, NEW sp, SpoolLess(sp), NEW list \in SUBSET Files,
         NEW s \in Slots, RetryNext(p, sp, list, s),
         posts[s] # NoPost =>
           /\ posts[s].status # "waiting"
           /\ posts[s].kind = "flush" => posts[s].events \subseteq stored,
         UNCHANGED << client, nextFile, server, faults >>
  PROVE  Rest'
<1>1. TypeOK /\ RequestsOK /\ AcksOK /\ FilesOK /\ Accounting
  BY DEF IInv
<1>2. UNCHANGED << pc, paused, url, seq, queue, writing, nextFile, stored >> /\ DropCorrupt(sp, list)
  BY DEF client, server, RetryNext
<1>3. FilesKept /\ SettledKept /\ \A f \in Files : FileSafe(f)
  BY <1>1, <1>2, DropCorruptRest
<1>4. \A t \in Slots \ {s} : posts'[t] = posts[t]
  BY <1>1 DEF RetryNext, TypeOK
<1>11. ~(posts[s] # NoPost /\ posts[s].status = "waiting")
  OBVIOUS
<1>5. \A r \in net : r.from # s
  BY <1>1, <1>11, SlotsOK DEF RequestsOK
<1>6. RequestsOK' /\ AcksOK' /\ (posts'[s] # NoPost => posts'[s].kind = "retry" /\ posts'[s].file <= nextFile)
  <2>1. CASE list \cap Whole(sp) = {}
    <3>1. posts'[s] = NoPost /\ net' = net
      BY <1>1, <2>1 DEF RetryNext, TypeOK
    <3> DEFINE Touched == {s}
    <3>2. \A r \in net' : r.from # Late => r \in net /\ r.from \notin Touched
      BY <1>5, <3>1
    <3>3. \A t \in Touched : (posts'[t] # NoPost /\ posts'[t].status = "ok")
                               => EventsOf(t)' \subseteq stored'
      BY <3>1
    <3>4. Touched \in SUBSET Slots /\ stored \subseteq stored'
      BY <1>2
    <3>5. \A t \in Slots \ Touched : posts'[t] = posts[t]
      BY <1>4
    <3> HIDE DEF Touched
    <3>6. RequestsOK' /\ AcksOK'
      BY <1>1, <1>3, <3>2, <3>3, <3>4, <3>5, PostsShrink
    <3> QED BY <3>1, <3>6
  <2>2. CASE list \cap Whole(sp) # {}
    <3> DEFINE New == {RetryRequest(p, sp, list, s)}
               Touched == {s}
    <3>1. posts'[s] = RetryPost(p, sp, list) /\ net' = net \cup New
      BY <1>1, <2>2 DEF RetryNext, TypeOK
    <3>2. /\ posts'[s] # NoPost /\ posts'[s].status = "waiting" /\ posts'[s].kind = "retry"
          /\ posts'[s].file <= nextFile
          /\ \A r \in New : r.from = s /\ EventsOf(s)' \subseteq BatchEvents(r)
      BY <1>1, <1>2, <2>2, <3>1, RetryPostRest
    <3>3. \A r1, r2 \in New : r1.from = r2.from => r1 = r2
      OBVIOUS
    <3> HIDE DEF New
    <3>4. \A r \in net' : r.from # Late => r \in New \/ (r \in net /\ r.from \notin Touched)
      BY <1>5, <3>1
    <3>5. \A t \in Slots \ Touched : posts'[t] = posts[t]
      BY <1>4
    <3>6. \A r \in New : /\ r.from \in Touched
                         /\ posts'[r.from] # NoPost /\ posts'[r.from].status = "waiting"
                         /\ EventsOf(r.from)' \subseteq BatchEvents(r)
      BY <3>2
    <3>7. \A t \in Touched : (posts'[t] # NoPost /\ posts'[t].status = "ok")
                               => EventsOf(t)' \subseteq stored'
      BY <3>2
    <3>8. Touched \in SUBSET Slots /\ stored \subseteq stored'
      BY <1>2
    <3> HIDE DEF Touched
    <3>9. RequestsOK' /\ AcksOK'
      BY <1>1, <1>3, <3>3, <3>4, <3>5, <3>6, <3>7, <3>8, PostsStep
    <3> QED BY <3>2, <3>9
  <2> QED BY <2>1, <2>2
<1>7. FilesOK'
  <2>1. \A f \in Files : spool'[f] # NoFile => spool'[f] = spool[f]
    BY <1>2 DEF DropCorrupt, Without, SpoolLess
  <2> QED BY <1>1, <1>2, <1>4, <1>6, <2>1 DEF FilesOK
<1>8. Accounting'
  <2>1. \A e \in Event : Queued(e) => Held(e)'
    BY <1>2 DEF Queued, Held
  <2>2. \A e \in Event : Posted(e) => Held(e)' \/ Settled(e)'
    BY <1>2, <1>4 DEF Posted, Held, Settled
  <2>3. \A q \in Procs : \A n \in 1 .. seq'[q] : n \in 1 .. seq[q]
    BY <1>2
  <2> QED BY <1>1, <1>3, <2>1, <2>2, <2>3, AccountingKept
<1> QED BY <1>6, <1>7, <1>8 DEF Rest

LEMMA RetryRest ==
  ASSUME IInv, NEW s \in Slots,
         \/ FlushOk(s) \/ RetryOk(s)
         \/ \E p \in Procs : /\ RetryTimer(p) /\ s \in FreeSlots
                             /\ RetryNext(p, spool, Present, s)
  PROVE  Rest'
<1>1. TypeOK /\ AcksOK /\ SpoolLess(spool) /\ Present \in SUBSET Files
  BY DEF IInv, TypeOK, SpoolLess, SpoolType, Present
<1>2. CASE FlushOk(s)
  <2>1. posts[s] # NoPost /\ posts[s].kind = "flush" /\ posts[s].status = "ok"
    BY <1>2 DEF FlushOk, Done
  <2>2. posts[s].events \subseteq stored
    BY Zenon, <1>1, <2>1 DEF AcksOK, EventsOf
  <2>3. posts[s].proc \in Procs
    BY <1>1, <2>1 DEF TypeOK, Post
  <2>4. RetryNext(posts[s].proc, spool, Present, s) /\ UNCHANGED << client, nextFile, server, faults >>
    BY <1>2 DEF FlushOk
  <2> QED BY <1>1, <2>1, <2>2, <2>3, <2>4, RetryNextRest
<1>3. CASE RetryOk(s)
  <2> DEFINE removed == [spool EXCEPT ![posts[s].file] = NoFile]
             list    == posts[s].rest
  <2>1. posts[s] # NoPost /\ posts[s].kind = "retry" /\ posts[s].status = "ok"
    BY <1>3 DEF RetryOk, Done
  <2>2. posts[s].proc \in Procs /\ list \in SUBSET Files
    BY <1>1, <2>1 DEF TypeOK, Post
  <2>3. EventsIn(spool, {posts[s].file} \cap Files) \subseteq stored
    BY <1>1, <2>1 DEF AcksOK, EventsOf
  <2>4. SpoolLess(removed)
    <3>1. removed \in SpoolType
      BY Zenon, <1>1 DEF TypeOK, SpoolType
    <3>2. ASSUME NEW f \in Files, removed[f] # spool[f]
          PROVE  /\ removed[f] = NoFile
                 /\ (spool[f] # NoFile /\ spool[f].kind = "events") => spool[f].events \subseteq stored
      <4>1. f = posts[s].file /\ removed[f] = NoFile
        BY <1>1, <3>2 DEF TypeOK
      <4> QED BY <2>3, <4>1 DEF EventsIn
    <3> QED BY <3>1, <3>2 DEF SpoolLess
  <2>5. RetryNext(posts[s].proc, removed, list, s) /\ UNCHANGED << client, nextFile, server, faults >>
    BY <1>3 DEF RetryOk
  <2> HIDE DEF removed, list
  <2> QED BY <2>1, <2>2, <2>4, <2>5, RetryNextRest
<1>4. ASSUME NEW p \in Procs, RetryTimer(p), s \in FreeSlots, RetryNext(p, spool, Present, s)
      PROVE  Rest'
  <2>1. posts[s] = NoPost /\ UNCHANGED << client, nextFile, server, faults >>
    BY <1>4 DEF FreeSlots, RetryTimer
  <2> QED BY <1>1, <1>4, <2>1, RetryNextRest
<1> QED BY <1>2, <1>3, <1>4

LEMMA FlushNowRest ==
  ASSUME IInv, NEW p \in Procs, NEW evs \in SUBSET Event, FlushNow(p, evs),
         UNCHANGED << writing, spool, nextFile, server, lost >>,
         queue[p] \subseteq evs,
         \A q \in Procs : \A n \in 1 .. seq'[q] : n \in 1 .. seq[q] \/ << q, n >> \in evs
  PROVE  Rest'
<1>1. TypeOK /\ RequestsOK /\ AcksOK /\ FilesOK /\ Accounting
  BY DEF IInv
<1>2. FilesKept /\ SettledKept /\ (\A f \in Files : FileSafe(f)) /\ stored' = stored
  BY SpoolUnchanged DEF server
<1>3. PICK s \in FreeSlots :
        /\ queue' = [queue EXCEPT ![p] = {}]
        /\ posts' = [posts EXCEPT ![s] = NewPost(p, "flush", evs, url[p])]
        /\ net' = IF url[p] THEN net \cup {NewRequest(p, "batch", evs, s)} ELSE net
  BY Zenon DEF FlushNow
<1> DEFINE Touched == {s}
           New     == IF url[p] THEN {NewRequest(p, "batch", evs, s)} ELSE {}
<1>4. s \in Slots /\ posts[s] = NoPost
  BY DEF FreeSlots
<1>5. /\ posts'[s] # NoPost /\ posts'[s].kind = "flush" /\ posts'[s].events = evs
      /\ posts'[s].status = IF url[p] THEN "waiting" ELSE "fail"
  <2>1. posts'[s] = NewPost(p, "flush", evs, url[p])
    BY <1>1, <1>3, <1>4 DEF TypeOK
  <2>2. NewPost(p, "flush", evs, url[p]) \in Post
    BY <1>1 DEF NewPost, Post, TypeOK
  <2> QED BY <2>1, <2>2, NoPostOK DEF NewPost
<1>6. \A t \in Slots \ Touched : posts'[t] = posts[t]
  BY <1>1, <1>3 DEF TypeOK
<1>7. \A t \in Touched : (posts'[t] # NoPost /\ posts'[t].status = "ok")
                           => EventsOf(t)' \subseteq stored'
  BY <1>5
<1>8. \A r \in net' : r.from # Late => r \in New \/ (r \in net /\ r.from \notin Touched)
  BY <1>1, <1>3, <1>4 DEF RequestsOK
<1>9. \A r \in New : /\ r.from \in Touched
                     /\ posts'[r.from] # NoPost /\ posts'[r.from].status = "waiting"
                     /\ EventsOf(r.from)' \subseteq BatchEvents(r)
  <2> TAKE r \in New
  <2>1. url[p] /\ r.from = s /\ r.path = "batch" /\ r.events = evs
    BY DEF NewRequest
  <2>2. EventsOf(s)' = evs
    BY <1>5 DEF EventsOf
  <2> QED BY <1>5, <2>1, <2>2 DEF BatchEvents
<1>10. \A r1, r2 \in New : r1.from = r2.from => r1 = r2
  OBVIOUS
<1>11. RequestsOK' /\ AcksOK'
  <2>1. Touched \in SUBSET Slots /\ stored \subseteq stored'
    BY <1>2, <1>4
  <2> HIDE DEF Touched, New
  <2> QED BY Zenon, <1>1, <1>2, <1>6, <1>7, <1>8, <1>9, <1>10, <2>1, PostsStep
<1>12. FilesOK'
  BY <1>1, <1>5, <1>6 DEF FilesOK
<1>13. \A e \in evs : Posted(e)'
  BY <1>4, <1>5 DEF Posted
<1>14. Accounting'
  <2>1. \A e \in Event : Queued(e) => Held(e)'
    BY <1>1, <1>3, <1>13 DEF Queued, Held, TypeOK, Event
  <2>2. \A e \in Event : Posted(e) => Held(e)'
    BY <1>4, <1>6 DEF Posted, Held
  <2>3. \A q \in Procs : \A n \in 1 .. seq'[q] : n \in 1 .. seq[q] \/ Held(<< q, n >>)'
    BY Zenon, <1>13 DEF Held
  <2> QED BY <1>1, <1>2, <2>1, <2>2, <2>3, AccountingKept
<1> QED BY <1>11, <1>12, <1>14 DEF Rest

\* A step that touches neither posts nor requests nor the spool.
LEMMA QueueRest ==
  ASSUME IInv, UNCHANGED << posts, net, writing, spool, nextFile, server, lost >>,
         \A e \in Event : Queued(e) => Queued(e)',
         \A q \in Procs : \A n \in 1 .. seq'[q] : n \in 1 .. seq[q] \/ Queued(<< q, n >>)'
  PROVE  Rest'
<1>1. TypeOK /\ RequestsOK /\ AcksOK /\ FilesOK /\ Accounting
  BY DEF IInv
<1>2. FilesKept /\ SettledKept /\ (\A f \in Files : FileSafe(f)) /\ stored' = stored
  BY SpoolUnchanged DEF server
<1>3. RequestsOK' /\ AcksOK' /\ FilesOK'
  BY <1>1, <1>2 DEF RequestsOK, AcksOK, FilesOK, EventsOf, EventsIn
<1>4. Accounting'
  <2>1. \A e \in Event : Posted(e) => Held(e)'
    BY DEF Posted, Held
  <2>2. \A e \in Event : Queued(e) => Held(e)'
    BY DEF Held
  <2>3. \A q \in Procs : \A n \in 1 .. seq'[q] : n \in 1 .. seq[q] \/ Held(<< q, n >>)'
    BY Zenon DEF Held
  <2> QED BY <1>1, <1>2, <2>1, <2>2, <2>3, AccountingKept
<1> QED BY <1>3, <1>4 DEF Rest

LEMMA TimerRest ==
  ASSUME IInv, NEW p \in Procs, Emit(p) \/ FlushTimer(p) \/ Shutdown(p) \/ RetryTimer(p)
  PROVE  Rest'
<1> DEFINE evs == queue[p] \cup {<< p, seq[p] + 1 >>}
<1>1. TypeOK /\ queue[p] \in SUBSET Event /\ evs \in SUBSET Event
  BY DEF IInv, TypeOK, Event
<1>2. CASE Emit(p)
  <2>1. UNCHANGED << writing, spool, nextFile, server, lost >> /\ seq' = [seq EXCEPT ![p] = @ + 1]
    BY <1>2 DEF Emit
  <2>2. \A q \in Procs : \A n \in 1 .. seq'[q] : n \in 1 .. seq[q] \/ << q, n >> \in evs
    BY <1>1, <2>1 DEF TypeOK
  <2>3. CASE FlushNow(p, evs)
    <3>1. queue[p] \subseteq evs
      OBVIOUS
    <3> HIDE DEF evs
    <3> QED BY <1>1, <2>1, <2>2, <2>3, <3>1, FlushNowRest
  <2>4. CASE queue' = [queue EXCEPT ![p] = evs] /\ UNCHANGED << posts, net >>
    <3>1. \A e \in Event : Queued(e) => Queued(e)'
      BY <1>1, <2>4 DEF Queued, TypeOK, Event
    <3>2. \A q \in Procs : \A n \in 1 .. seq'[q] : n \in 1 .. seq[q] \/ Queued(<< q, n >>)'
      BY <1>1, <2>1, <2>4 DEF Queued, TypeOK
    <3> QED BY <2>1, <2>4, <3>1, <3>2, QueueRest
  <2> QED BY <1>2, <2>3, <2>4 DEF Emit
<1>3. CASE FlushTimer(p)
  BY <1>1, <1>3, FlushNowRest DEF FlushTimer
<1>4. CASE Shutdown(p)
  <2>1. UNCHANGED << seq, writing, spool, nextFile, server, lost >>
    BY <1>4 DEF Shutdown
  <2>2. CASE UNCHANGED << queue, posts, net >>
    BY <2>1, <2>2, QueueRest DEF Queued
  <2>3. CASE FlushNow(p, queue[p])
    BY <1>1, <2>1, <2>3, FlushNowRest
  <2> QED BY <1>4, <2>2, <2>3 DEF Shutdown
<1>5. CASE RetryTimer(p)
  BY <1>5, RetryRest DEF RetryTimer, FreeSlots
<1> QED BY <1>2, <1>3, <1>4, <1>5

\* A process that opens a file is writing no other.
LEMMA NewFileRest ==
  ASSUME TypeOK, FilesOK, NEW p \in Procs, writing[p] = 0,
         NEW kind \in {"events", "session"}, NEW path \in Paths, kind = "events" => path = "batch",
         NEW evs \in SUBSET Event, NewFile(p, kind, path, evs)
  PROVE  /\ FilesKept /\ \A f \in Files : FileSafe(f)
         /\ \A f \in Files : spool'[f] # NoFile =>
              f <= nextFile' /\ (spool'[f].kind = "events" => spool'[f].path = "batch")
         /\ nextFile <= nextFile'
         /\ kind = "events" => \A e \in evs : Spooled(e)'
<1> DEFINE new == nextFile + 1
           file == [kind |-> kind, path |-> path, events |-> evs, whole |-> FALSE]
<1>1. new \in Files /\ nextFile' = new /\ nextFile \in Nat
  BY BoundsOK DEF NewFile, TypeOK, Files
<1>2. file # NoFile
  <2>1. file \in File
    BY DEF File
  <2> QED BY Zenon, <2>1, NoFileOK
<1>3. spool'[new] = file /\ \A f \in Files \ {new} : spool'[f] = spool[f]
  BY <1>1 DEF NewFile, TypeOK
<1>4. spool[new] = NoFile
  BY <1>1 DEF FilesOK
<1>5. writing'[p] = new /\ \A q \in Procs \ {p} : writing'[q] = writing[q]
  BY DEF NewFile, TypeOK
<1>6. new \in BeingWritten' /\ \A f \in BeingWritten : f \in BeingWritten'
  BY <1>1, <1>5 DEF BeingWritten, Files
<1> HIDE DEF file
<1>7. FilesKept
  BY <1>1, <1>3 DEF FilesKept, Files
<1>8. \A f \in Files : FileSafe(f)
  BY <1>3, <1>4, <1>6 DEF FileSafe
<1>9. file.kind = kind /\ file.path = path /\ file.events = evs
  BY DEF file
<1>10. \A f \in Files : spool'[f] # NoFile =>
         f <= nextFile' /\ (spool'[f].kind = "events" => spool'[f].path = "batch")
  BY <1>1, <1>3, <1>9 DEF FilesOK, Files
<1>11. kind = "events" => \A e \in evs : Spooled(e)'
  BY <1>1, <1>2, <1>3, <1>6, <1>9 DEF Spooled
<1> QED BY <1>1, <1>7, <1>8, <1>10, <1>11

\* A failed write drops its events and what the cap deletes.
LEMMA WriteFailsRest ==
  ASSUME TypeOK, FilesOK, NEW evs \in SUBSET Event, NEW cost, NEW over \in SUBSET Files,
         WriteFails(evs, cost, over)
  PROVE  /\ FilesKept /\ (\A f \in Files : FileSafe(f))
         /\ \A c \in Causes : lost[c] \subseteq lost'[c]
         /\ \A f \in Files : spool'[f] # NoFile =>
              f <= nextFile' /\ (spool'[f].kind = "events" => spool'[f].path = "batch")
         /\ nextFile' = nextFile /\ \A e \in evs : Settled(e)'
<1>1. \A f \in Files : spool'[f] = IF f \in over THEN NoFile ELSE spool[f]
  BY DEF WriteFails, Without
<1> DEFINE capped == EventsIn(spool, over)
<1>2. lost' = [lost EXCEPT !["disk"] = @ \cup evs, !["cap"] = @ \cup capped]
      /\ nextFile' = nextFile /\ writing' = writing
  BY DEF WriteFails
<1>3. \A f \in over : (spool[f] # NoFile /\ spool[f].kind = "events") => spool[f].events \subseteq capped
  BY DEF EventsIn
<1> HIDE DEF capped
<1>4. /\ \A c \in Causes : lost[c] \subseteq lost'[c]
      /\ evs \subseteq lost'["disk"] /\ capped \subseteq lost'["cap"]
  BY <1>2 DEF TypeOK, Causes
<1>5. FilesKept
  BY <1>1 DEF FilesKept
<1>6. \A f \in Files : FileSafe(f)
  BY Zenon, <1>1, <1>2, <1>3, <1>4 DEF FileSafe, BeingWritten, Causes
<1>7. \A e \in evs : Settled(e)'
  BY <1>4 DEF Settled, Causes
<1>8. \A f \in Files : spool'[f] # NoFile =>
        f <= nextFile' /\ (spool'[f].kind = "events" => spool'[f].path = "batch")
  BY <1>1, <1>2 DEF FilesOK
<1> QED BY Zenon, <1>2, <1>4, <1>5, <1>6, <1>7, <1>8

\* The callback of a failed post: its events move to the spool, or are dropped.
LEMMA FailedRest ==
  ASSUME IInv, NEW s \in Slots, StartFailed(s) \/ FlushFailed(s)
  PROVE  Rest'
<1> DEFINE p   == posts[s].proc
           evs == posts[s].events
<1>1. TypeOK /\ RequestsOK /\ AcksOK /\ FilesOK /\ Accounting
  BY DEF IInv
<1>2. posts[s] # NoPost /\ posts[s].status = "fail" /\ writing[p] = 0 /\ Free(s)
  BY DEF StartFailed, FlushFailed, Done, Running, Idle
<1>3. p \in Procs /\ evs \in SUBSET Event /\ OverCap(spool) \in SUBSET Files
  BY <1>1, <1>2 DEF TypeOK, Post, OverCap
<1>4. UNCHANGED << pc, paused, url, seq, queue, net, stored >>
  BY DEF StartFailed, FlushFailed, server
<1>5. /\ FilesKept /\ (\A f \in Files : FileSafe(f))
      /\ \A c \in Causes : lost[c] \subseteq lost'[c]
      /\ \A f \in Files : spool'[f] # NoFile =>
              f <= nextFile' /\ (spool'[f].kind = "events" => spool'[f].path = "batch")
      /\ nextFile <= nextFile'
      /\ posts[s].kind = "flush" => \A e \in evs : Spooled(e)' \/ Settled(e)'
  <2>1. CASE NewFile(p, "session", "start", {}) /\ UNCHANGED lost /\ posts[s].kind = "start"
    <3>1. "start" \in Paths /\ {} \in SUBSET Event
      BY DEF Paths
    <3> QED BY <1>1, <1>2, <1>3, <2>1, <3>1, NewFileRest
  <2>2. CASE NewFile(p, "events", "batch", evs) /\ UNCHANGED lost
    <3>1. "batch" \in Paths
      BY DEF Paths
    <3> QED BY <1>1, <1>2, <1>3, <2>2, <3>1, NewFileRest
  <2>3. CASE WriteFails({}, 0, {}) /\ posts[s].kind = "start"
    <3>1. {} \in SUBSET Event /\ {} \in SUBSET Files /\ nextFile \in Nat
      BY <1>1 DEF TypeOK
    <3>2. nextFile' = nextFile
      BY <2>3 DEF WriteFails
    <3>3. nextFile <= nextFile' /\ posts[s].kind # "flush"
      BY <2>3, <3>1, <3>2
    <3> QED BY Zenon, <1>1, <2>3, <3>1, <3>3, WriteFailsRest
  <2>4. CASE WriteFails(evs, 0, OverCap(spool))
    <3>1. nextFile <= nextFile'
      BY <1>1, <2>4 DEF WriteFails, TypeOK
    <3> QED BY Zenon, <1>1, <1>3, <2>4, <3>1, WriteFailsRest
  <2> QED BY <2>1, <2>2, <2>3, <2>4 DEF StartFailed, FlushFailed, Done, OpenFile
<1>6. posts'[s] = NoPost /\ \A t \in Slots \ {s} : posts'[t] = posts[t]
  BY <1>1, <1>2 DEF Free, TypeOK
<1>7. RequestsOK' /\ AcksOK'
  <2> DEFINE Touched == {s}
  <2>1. \A r \in net' : r.from # Late => r \in net /\ r.from \notin Touched
    BY <1>1, <1>2, <1>4 DEF RequestsOK
  <2>2. \A t \in Touched : (posts'[t] # NoPost /\ posts'[t].status = "ok")
                             => EventsOf(t)' \subseteq stored'
    BY <1>6
  <2>3. Touched \in SUBSET Slots /\ stored \subseteq stored' /\ \A t \in Slots \ Touched : posts'[t] = posts[t]
    BY <1>4, <1>6
  <2> HIDE DEF Touched
  <2> QED BY <1>1, <1>5, <2>1, <2>2, <2>3, PostsShrink
<1>8. FilesOK'
  <2>1. \A t \in Slots : posts[t] # NoPost => posts[t].file \in Nat
    BY <1>1 DEF TypeOK, Post, Files
  <2>2. nextFile \in Nat /\ nextFile' \in Nat
    <3>1. nextFile' = nextFile \/ nextFile' = nextFile + 1
      BY DEF StartFailed, FlushFailed, OpenFile, NewFile, WriteFails
    <3> QED BY <1>1, <3>1 DEF TypeOK
  <2>3. \A t \in Slots : (posts'[t] # NoPost /\ posts'[t].kind = "retry") => posts'[t].file <= nextFile'
    BY <1>1, <1>5, <1>6, <2>1, <2>2 DEF FilesOK
  <2> QED BY <1>5, <2>3 DEF FilesOK
<1>9. Accounting'
  <2>1. \A e \in Event : Queued(e) => Held(e)'
    BY <1>4 DEF Queued, Held
  <2>2. \A e \in Event : Posted(e) => Held(e)' \/ Settled(e)'
    BY <1>5, <1>6 DEF Posted, Held
  <2>3. \A q \in Procs : \A n \in 1 .. seq'[q] : n \in 1 .. seq[q]
    BY <1>4
  <2>4. SettledKept
    BY <1>4, <1>5 DEF SettledKept
  <2> QED BY <1>1, <1>5, <2>1, <2>2, <2>3, <2>4, AccountingKept
<1> QED BY <1>7, <1>8, <1>9 DEF Rest

\* The steps of a process that leave queues and posts alone.
LEMMA ClosingRest ==
  ASSUME IInv, UNCHANGED << queue, posts >>, SettledKept,
         FilesKept, \A f \in Files : FileSafe(f),
         \A f \in Files : spool'[f] # NoFile =>
           f <= nextFile' /\ (spool'[f].kind = "events" => spool'[f].path = "batch"),
         nextFile <= nextFile', nextFile' \in Nat,
         \A r \in net' : r.from # Late => r \in net,
         \A q \in Procs : \A n \in 1 .. seq'[q] :
           n \in 1 .. seq[q] \/ Held(<< q, n >>)' \/ Settled(<< q, n >>)'
  PROVE  Rest'
<1>1. TypeOK /\ RequestsOK /\ AcksOK /\ FilesOK /\ Accounting
  BY DEF IInv
<1>2. RequestsOK' /\ AcksOK'
  <2> DEFINE Touched == {}
  <2>1. \A t \in Touched : FALSE
    OBVIOUS
  <2>2. \A r \in net' : r.from # Late => r \in net /\ r.from \notin Touched
    OBVIOUS
  <2>3. stored \subseteq stored' /\ Touched \in SUBSET Slots
    BY DEF SettledKept
  <2> HIDE DEF Touched
  <2>4. \A t \in Touched : (posts'[t] # NoPost /\ posts'[t].status = "ok")
                             => EventsOf(t)' \subseteq stored'
    BY <2>1
  <2> QED BY <1>1, <2>2, <2>3, <2>4, PostsShrink
<1>3. FilesOK'
  <2>1. \A t \in Slots : posts[t] # NoPost => posts[t].file \in Nat
    BY <1>1 DEF TypeOK, Post, Files
  <2>2. nextFile \in Nat
    BY <1>1 DEF TypeOK
  <2>3. \A t \in Slots : (posts'[t] # NoPost /\ posts'[t].kind = "retry") => posts'[t].file <= nextFile'
    BY <1>1, <2>1, <2>2 DEF FilesOK
  <2> QED BY <2>3 DEF FilesOK
<1>4. Accounting'
  <2>1. \A e \in Event : Queued(e) => Held(e)'
    BY DEF Queued, Held
  <2>2. \A e \in Event : Posted(e) => Held(e)'
    BY DEF Posted, Held
  <2> QED BY <1>1, <2>1, <2>2, AccountingKept
<1> QED BY <1>2, <1>3, <1>4 DEF Rest

\* Closing a file makes it readable; the cap may delete it or older ones.
LEMMA CloseFileRest ==
  ASSUME IInv, NEW p \in Procs, CloseFile(p)
  PROVE  Rest'
<1> DEFINE f      == writing[p]
           closed == [spool EXCEPT ![f].whole = TRUE]
           over   == IF pc[p] = "running" /\ spool[f].kind = "events" THEN OverCap(closed) ELSE {}
           capped == EventsIn(closed, over)
<1>1. TypeOK /\ FilesOK
  BY DEF IInv
<1>2. f \in Files /\ writing' = [writing EXCEPT ![p] = 0]
      /\ UNCHANGED << seq, queue, posts, net, nextFile, stored >>
  BY <1>1 DEF CloseFile, TypeOK, server
<1>3. \A g \in Files \ {f} : g \in BeingWritten => g \in BeingWritten'
  BY <1>1, <1>2 DEF BeingWritten, TypeOK, Files
<1>4. /\ SettledKept /\ FilesKept /\ \A g \in Files : FileSafe(g)
      /\ \A g \in Files : spool'[g] # NoFile =>
           g <= nextFile' /\ (spool'[g].kind = "events" => spool'[g].path = "batch")
  <2>1. CASE spool[f] = NoFile
    <3>1. UNCHANGED << spool, lost >>
      BY <2>1 DEF CloseFile
    <3> QED BY <1>1, <1>2, <1>3, <2>1, <3>1 DEF SettledKept, FilesKept, FileSafe, FilesOK
  <2>2. CASE spool[f] # NoFile
    <3>1. spool' = Without(closed, over) /\ lost' = [lost EXCEPT !["cap"] = @ \cup capped]
      BY Zenon, <2>2 DEF CloseFile
    <3>2. spool[f] \in File
      BY <1>1, <1>2, <2>2 DEF TypeOK
    <3>3. closed[f] = [spool[f] EXCEPT !.whole = TRUE] /\ \A g \in Files \ {f} : closed[g] = spool[g]
      BY <1>1, <1>2 DEF TypeOK
    <3>4. [spool[f] EXCEPT !.whole = TRUE] \in File
      BY Zenon, <3>2 DEF File
    <3>5. \A g \in Files : spool[g] # NoFile =>
            /\ closed[g] # NoFile
            /\ closed[g].kind = spool[g].kind /\ closed[g].path = spool[g].path
            /\ closed[g].events = spool[g].events
            /\ (spool[g].whole \/ g = f) => closed[g].whole
      <4>1. /\ closed[f] # NoFile
            /\ closed[f].kind = spool[f].kind /\ closed[f].path = spool[f].path
            /\ closed[f].events = spool[f].events /\ closed[f].whole = TRUE
        BY ZenonT(40), <3>2, <3>3, <3>4, NoFileOK DEF File
      <4> QED BY <3>3, <4>1
    <3>6. \A g \in Files : (g \in over /\ closed[g] # NoFile /\ closed[g].kind = "events")
                             => closed[g].events \subseteq capped
      BY DEF EventsIn
    <3>7. \A g \in Files : closed[g] # NoFile => spool[g] # NoFile
      BY <2>2, <3>3
    <3>8. \A g \in Files : spool'[g] = IF g \in over THEN NoFile ELSE closed[g]
      BY <3>1 DEF Without
    <3> HIDE DEF closed, over, capped
    <3>9. SettledKept /\ lost'["cap"] = lost["cap"] \cup capped
      BY <1>1, <1>2, <3>1 DEF SettledKept, TypeOK, Causes
    <3>10. FilesKept
      BY <3>5, <3>7, <3>8 DEF FilesKept
    <3>11. \A g \in Files : FileSafe(g)
      <4>1. ASSUME NEW g \in Files, spool[g] # NoFile, spool[g].kind = "events",
                   spool[g].whole \/ g \in BeingWritten
            PROVE  \/ /\ spool'[g] # NoFile /\ spool'[g].kind = "events"
                      /\ spool'[g].events = spool[g].events
                      /\ spool'[g].whole \/ g \in BeingWritten'
                   \/ spool[g].events \subseteq stored' \cup UNION {lost'[c] : c \in Causes}
        <5>1. CASE g \in over
          BY <3>5, <3>6, <3>9, <4>1, <5>1 DEF Causes
        <5>2. CASE g \notin over
          BY <1>3, <3>5, <3>8, <4>1, <5>2
        <5> QED BY <5>1, <5>2
      <4> QED BY <4>1 DEF FileSafe
    <3>12. \A g \in Files : spool'[g] # NoFile =>
             g <= nextFile' /\ (spool'[g].kind = "events" => spool'[g].path = "batch")
      BY <1>1, <1>2, <3>5, <3>7, <3>8 DEF FilesOK
    <3> QED BY <3>9, <3>10, <3>11, <3>12
  <2> QED BY <2>1, <2>2
<1>5. nextFile <= nextFile' /\ nextFile' \in Nat
  BY <1>1, <1>2 DEF TypeOK
<1>6. \A q \in Procs : \A n \in 1 .. seq'[q] : n \in 1 .. seq[q]
  BY <1>2
<1>7. \A r \in net' : r.from # Late => r \in net
  BY <1>2
<1> HIDE DEF f
<1> QED BY <1>2, <1>4, <1>5, <1>6, <1>7, ClosingRest

\* A blocking request nobody waits for any more.
LEMMA UnansweredRest ==
  ASSUME NEW r, r.from = Late, Unanswered(r)
  PROVE  stored \subseteq stored' /\ \A q \in net' : q.from # Late => q \in net
BY ServeStores DEF Unanswered, server

LEMMA SyncRest ==
  ASSUME IInv, NEW p \in Procs, SyncBatch(p) \/ SyncEnd(p) \/ SpoolEnd(p)
  PROVE  Rest'
<1>1. TypeOK /\ FilesOK /\ writing[p] = 0 /\ nextFile \in Nat
  BY DEF IInv, TypeOK, SyncBatch, SyncEnd, SpoolEnd, Idle
<1>2. UNCHANGED << queue, posts >>
  BY DEF SyncBatch, SyncEnd, SpoolEnd
<1>3. {"batch", "end"} \subseteq Paths /\ {} \in SUBSET Files /\ {} \in SUBSET Event
  BY DEF Paths
<1> DEFINE FilesOf == /\ FilesKept /\ (\A f \in Files : FileSafe(f))
                      /\ \A f \in Files : spool'[f] # NoFile =>
                           f <= nextFile' /\ (spool'[f].kind = "events" => spool'[f].path = "batch")
                      /\ nextFile <= nextFile' /\ nextFile' \in Nat
<1>4. UNCHANGED << spool, nextFile, writing >> /\ SettledKept => FilesOf
  BY <1>1 DEF FilesKept, FileSafe, FilesOK, BeingWritten
<1>5. ASSUME NEW kind \in {"events", "session"}, NEW path \in Paths,
             kind = "events" => path = "batch",
             NEW evs \in SUBSET Event, NewFile(p, kind, path, evs)
      PROVE  FilesOf /\ (kind = "events" => \A e \in evs : Spooled(e)')
  <2>1. nextFile' \in Nat
    BY <1>1, <1>5 DEF NewFile
  <2> QED BY <1>1, <1>5, <2>1, NewFileRest
<1>6. ASSUME NEW evs \in SUBSET Event, WriteFails(evs, 1, {})
      PROVE  FilesOf /\ (\A c \in Causes : lost[c] \subseteq lost'[c]) /\ \A e \in evs : Settled(e)'
  <2>1. nextFile' = nextFile /\ nextFile <= nextFile'
    BY <1>1, <1>6 DEF WriteFails
  <2> QED BY Zenon, <1>1, <1>3, <1>6, <2>1, WriteFailsRest
<1> HIDE DEF FilesOf
<1>7. CASE SyncBatch(p)
  <2>0. PICK m : m = seq[p] + 1
    OBVIOUS
  <2> DEFINE env == << p, m >>
             r   == [path |-> "batch", sess |-> p, events |-> {env},
                     started_at |-> FALSE, from |-> Late]
  <2>1. {env} \in SUBSET Event /\ env \in Event
    BY <1>1, <2>0 DEF TypeOK, Event
  <2>2. seq' = [seq EXCEPT ![p] = @ + 1]
    BY <1>7 DEF SyncBatch
  <2>3. /\ FilesOf /\ SettledKept /\ (Held(env)' \/ Settled(env)')
        /\ \A q \in net' : q.from # Late => q \in net
    <3>1. CASE /\ Serve(r)
               /\ lost' = [lost EXCEPT !["end"] = IF Accepted(r) THEN @ ELSE @ \cup {env}]
               /\ UNCHANGED << net, faults, spool, nextFile, writing >>
      <4>1. stored \subseteq stored' /\ (Accepted(r) => env \in stored')
        BY <3>1, ServeStores DEF BatchEvents
      <4> HIDE DEF env, r
      <4>2. SettledKept /\ (~Accepted(r) => env \in lost'["end"])
        BY <1>1, <3>1, <4>1 DEF SettledKept, TypeOK, Causes
      <4>3. Settled(env)'
        BY <4>1, <4>2 DEF Settled, Causes
      <4> QED BY <1>4, <3>1, <4>2, <4>3
    <3>2. CASE Unanswered(r) /\ OpenFile(p, "events", "batch", {env}, 1)
      <4>1. NewFile(p, "events", "batch", {env}) /\ UNCHANGED lost
        BY <3>2 DEF OpenFile
      <4>2. FilesOf /\ Spooled(env)'
        BY <1>3, <1>5, <2>1, <4>1
      <4>3. stored \subseteq stored' /\ \A q \in net' : q.from # Late => q \in net
        BY <3>2, UnansweredRest
      <4> HIDE DEF env, r
      <4> QED BY <4>1, <4>2, <4>3 DEF SettledKept, Held
    <3>3. CASE Unanswered(r) /\ WriteFails({env}, 1, {})
      <4>1. FilesOf /\ (\A c \in Causes : lost[c] \subseteq lost'[c]) /\ Settled(env)'
        BY <1>6, <2>1, <3>3
      <4>2. stored \subseteq stored' /\ \A q \in net' : q.from # Late => q \in net
        BY <3>3, UnansweredRest
      <4> HIDE DEF env, r
      <4> QED BY <4>1, <4>2 DEF SettledKept
    <3> QED BY <1>7, <2>0, <3>1, <3>2, <3>3 DEF SyncBatch
  <2>4. \A q \in Procs : \A n \in 1 .. seq'[q] : n \in 1 .. seq[q] \/ << q, n >> = env
    BY <1>1, <2>0, <2>2 DEF TypeOK
  <2> HIDE DEF env, r
  <2>5. \A q \in Procs : \A n \in 1 .. seq'[q] :
          n \in 1 .. seq[q] \/ Held(<< q, n >>)' \/ Settled(<< q, n >>)'
    BY <2>3, <2>4
  <2> QED BY <1>2, <2>3, <2>5, ClosingRest DEF FilesOf
<1>8. CASE SyncEnd(p)
  <2> DEFINE env == << p, seq[p] >>
             r == [path |-> "end", sess |-> p, events |-> {}, started_at |-> FALSE, from |-> Late]
  <2>1. {env} \in SUBSET Event
    BY <1>1 DEF TypeOK, Event
  <2>2. /\ FilesOf /\ SettledKept
        /\ \A q \in net' : q.from # Late => q \in net
    <3>1. CASE Serve(r) /\ UNCHANGED << net, faults, spool, nextFile, writing, lost >>
      <4>1. SettledKept
        BY <3>1, ServeStores DEF SettledKept
      <4> QED BY <1>4, <3>1, <4>1
    <3>2. CASE Unanswered(r) /\ OpenFile(p, "session", "end", {env}, 1)
      <4>1. NewFile(p, "session", "end", {env}) /\ UNCHANGED lost
        BY <3>2 DEF OpenFile
      <4>2. FilesOf
        BY <1>3, <1>5, <2>1, <4>1
      <4> QED BY <3>2, <4>1, <4>2, UnansweredRest DEF SettledKept
    <3>3. CASE Unanswered(r) /\ WriteFails({}, 1, {})
      <4>1. FilesOf /\ (\A c \in Causes : lost[c] \subseteq lost'[c])
        BY <1>3, <1>6, <3>3
      <4> QED BY <3>3, <4>1, UnansweredRest DEF SettledKept
    <3> QED BY <1>8, <3>1, <3>2, <3>3 DEF SyncEnd
  <2>3. \A q \in Procs : \A n \in 1 .. seq'[q] : n \in 1 .. seq[q]
    BY <1>8 DEF SyncEnd
  <2> HIDE DEF env, r
  <2> QED BY <1>2, <2>2, <2>3, ClosingRest DEF FilesOf
<1>9. CASE SpoolEnd(p)
  <2>0. PICK m : m = seq[p] + 1
    OBVIOUS
  <2> DEFINE env == << p, m >>
  <2>1. {env} \in SUBSET Event
    BY <1>1, <2>0 DEF TypeOK, Event
  <2>2. /\ seq' = [seq EXCEPT ![p] = @ + 1] /\ UNCHANGED << net, stored >>
        /\ lost' = [lost EXCEPT !["end"] = @ \cup {env}]
        /\ NewFile(p, "session", "end", {env})
    BY <1>9, <2>0 DEF SpoolEnd, server
  <2>3. FilesOf
    BY <1>3, <1>5, <2>1, <2>2
  <2>4. \A q \in Procs : \A n \in 1 .. seq'[q] : n \in 1 .. seq[q] \/ << q, n >> = env
    BY <1>1, <2>0, <2>2 DEF TypeOK
  <2> HIDE DEF env
  <2>5. SettledKept /\ env \in lost'["end"]
    BY <1>1, <2>2 DEF SettledKept, TypeOK, Causes
  <2>6. Settled(env)'
    BY <2>5 DEF Settled, Causes
  <2>7. \A q \in Procs : \A n \in 1 .. seq'[q] :
          n \in 1 .. seq[q] \/ Held(<< q, n >>)' \/ Settled(<< q, n >>)'
    BY <2>4, <2>6
  <2>8. \A q \in net' : q.from # Late => q \in net
    BY <2>2
  <2> QED BY <1>2, <2>3, <2>5, <2>7, <2>8, ClosingRest DEF FilesOf
<1> QED BY <1>7, <1>8, <1>9

\* A process that is gone: what it alone held is dropped.
LEMMA GoneRest ==
  ASSUME IInv, NEW p \in Procs, Gone(p)
  PROVE  Rest'
<1> DEFINE mine == {s \in Slots : posts[s] # NoPost /\ posts[s].proc = p}
           unflushed == UNION {posts[s].events : s \in {t \in mine : posts[t].kind = "flush"}}
           unwritten == EventsIn(spool, {writing[p]} \cap Files)
<1>1. TypeOK /\ RequestsOK /\ AcksOK /\ FilesOK /\ Accounting
  BY DEF IInv
<1>2. UNCHANGED << seq, spool, nextFile, stored >>
  BY DEF Gone, server
<1>3. queue' = [queue EXCEPT ![p] = {}] /\ writing' = [writing EXCEPT ![p] = 0]
  BY DEF Gone
<1>4. lost' = [lost EXCEPT !["exit"] = @ \cup queue[p] \cup unflushed \cup unwritten]
  BY DEF Gone
<1>5. /\ \A s \in Slots \ mine : posts'[s] = posts[s]
      /\ \A s \in mine : posts'[s] = NoPost
  BY DEF Gone
<1>6. \A r \in net' : r.from # Late => r \in net /\ r.from \notin mine
  <2> TAKE r \in net'
  <2>1. PICK q \in net : r = IF q.from \in mine THEN [q EXCEPT !.from = Late] ELSE q
    BY DEF Gone
  <2>2. q \in Request
    BY <1>1 DEF TypeOK
  <2> QED BY <2>1, <2>2 DEF Request
<1>7. \A s \in mine : posts[s].kind = "flush" => posts[s].events \subseteq unflushed
  OBVIOUS
<1>8. \A f \in Files : (f = writing[p] /\ spool[f] # NoFile /\ spool[f].kind = "events")
                          => spool[f].events \subseteq unwritten
  BY DEF EventsIn
<1>9. mine \in SUBSET Slots /\ \A s \in mine : posts[s] # NoPost
  OBVIOUS
<1>10. \A s \in Slots \ mine : posts[s] # NoPost => posts[s].proc # p
  OBVIOUS
<1> HIDE DEF mine, unflushed, unwritten
<1>11. /\ SettledKept
       /\ queue[p] \cup unflushed \cup unwritten \subseteq lost'["exit"]
  BY <1>1, <1>2, <1>4 DEF SettledKept, TypeOK, Causes
<1>12. FilesKept
  BY <1>2 DEF FilesKept
<1>13. \A f \in Files : FileSafe(f)
  <2>1. \A f \in BeingWritten : f \in BeingWritten' \/ f = writing[p]
    BY <1>1, <1>3 DEF BeingWritten, TypeOK
  <2> QED BY <1>2, <1>8, <1>11, <2>1 DEF FileSafe, Causes
<1>14. RequestsOK' /\ AcksOK'
  <2>1. \A s \in mine : (posts'[s] # NoPost /\ posts'[s].status = "ok") => EventsOf(s)' \subseteq stored'
    BY <1>5
  <2> QED BY <1>1, <1>2, <1>5, <1>6, <1>9, <1>12, <2>1, PostsShrink
<1>15. FilesOK'
  BY <1>1, <1>2, <1>5 DEF FilesOK
<1>16. Accounting'
  <2>1. \A e \in Event : Queued(e) => Held(e)' \/ Settled(e)'
    BY <1>1, <1>3, <1>11 DEF Queued, Held, Settled, TypeOK, Event, Causes
  <2>2. ASSUME NEW e \in Event, Posted(e) PROVE Held(e)' \/ Settled(e)'
    <3>1. PICK s \in Slots : posts[s] # NoPost /\ posts[s].kind = "flush" /\ e \in posts[s].events
      BY <2>2 DEF Posted
    <3>2. CASE s \in mine
      BY <1>7, <1>11, <3>1, <3>2 DEF Settled, Causes
    <3>3. CASE s \notin mine
      BY <1>5, <3>1, <3>3 DEF Posted, Held
    <3> QED BY <3>2, <3>3
  <2>3. \A q \in Procs : \A n \in 1 .. seq'[q] : n \in 1 .. seq[q]
    BY <1>2
  <2> QED BY <1>1, <1>11, <1>13, <2>1, <2>2, <2>3, AccountingKept
<1> QED BY <1>14, <1>15, <1>16 DEF Rest

\* A new process: a start post, one queued event, and perhaps a retry.
LEMMA SetupRest ==
  ASSUME IInv, NEW p \in Procs, Setup(p)
  PROVE  Rest'
<1> DEFINE retrying == url'[p] /\ Whole(spool) # {}
<1>1. TypeOK /\ RequestsOK /\ AcksOK /\ FilesOK /\ Accounting
  BY DEF IInv
<1>2. PICK s \in FreeSlots, t \in FreeSlots :
       /\ s # t
       /\ posts' = [posts EXCEPT ![s] = NewPost(p, "start", {}, url'[p]),
                                 ![t] = IF retrying THEN RetryPost(p, spool, Present) ELSE NoPost]
       /\ net' = net \cup (IF url'[p] THEN {NewRequest(p, "start", {}, s)} ELSE {})
                     \cup (IF retrying THEN {RetryRequest(p, spool, Present, t)} ELSE {})
  BY Zenon DEF Setup
<1>3. /\ seq' = [seq EXCEPT ![p] = 1] /\ queue' = [queue EXCEPT ![p] = {<< p, 1 >>}]
      /\ UNCHANGED << writing, nextFile, stored >>
  BY DEF Setup, server
<1>4. s \in Slots /\ t \in Slots /\ s # t /\ posts[s] = NoPost /\ posts[t] = NoPost
  BY <1>2 DEF FreeSlots
<1>5. /\ SpoolLess(spool) /\ Present \in SUBSET Files
      /\ Present \cap Whole(spool) = Whole(spool)
  BY <1>1 DEF TypeOK, SpoolLess, SpoolType, Present, Whole
<1>6. /\ FilesKept /\ SettledKept /\ \A f \in Files : FileSafe(f)
      /\ \A f \in Files : spool'[f] # NoFile => spool'[f] = spool[f]
  <2>1. CASE url'[p]
    <3>1. DropCorrupt(spool, Present)
      BY <2>1 DEF Setup
    <3> QED BY Zenon, <1>1, <1>3, <1>5, <3>1, DropCorruptRest DEF DropCorrupt, Without
  <2>2. CASE ~url'[p]
    BY <1>3, <2>2, SpoolUnchanged DEF Setup
  <2> QED BY <2>1, <2>2
<1> DEFINE Touched == {s, t}
           New == (IF url'[p] THEN {NewRequest(p, "start", {}, s)} ELSE {})
                    \cup (IF retrying THEN {RetryRequest(p, spool, Present, t)} ELSE {})
<1>7. /\ posts'[s] # NoPost /\ posts'[s].kind = "start"
      /\ posts'[s].status = IF url'[p] THEN "waiting" ELSE "fail"
  <2>1. posts'[s] = NewPost(p, "start", {}, url'[p])
    BY <1>1, <1>2, <1>4 DEF TypeOK
  <2>2. NewPost(p, "start", {}, url'[p]) \in Post
    BY DEF NewPost, Post
  <2> QED BY <2>1, <2>2, NoPostOK DEF NewPost
<1>9. ~retrying => posts'[t] = NoPost
  BY <1>1, <1>2, <1>4 DEF TypeOK
<1>10. retrying =>
        /\ posts'[t] # NoPost /\ posts'[t].status = "waiting" /\ posts'[t].kind = "retry"
        /\ posts'[t].file <= nextFile
        /\ RetryRequest(p, spool, Present, t).from = t
        /\ EventsOf(t)' \subseteq BatchEvents(RetryRequest(p, spool, Present, t))
  <2> SUFFICES ASSUME retrying
               PROVE  /\ posts'[t] # NoPost /\ posts'[t].status = "waiting" /\ posts'[t].kind = "retry"
                      /\ posts'[t].file <= nextFile
                      /\ RetryRequest(p, spool, Present, t).from = t
                      /\ EventsOf(t)' \subseteq BatchEvents(RetryRequest(p, spool, Present, t))
    OBVIOUS
  <2>1. posts'[t] = RetryPost(p, spool, Present)
    BY <1>1, <1>2, <1>4 DEF TypeOK
  <2>2. DropCorrupt(spool, Present)
    BY DEF Setup
  <2>3. Present \cap Whole(spool) # {}
    BY <1>5
  <2> HIDE DEF retrying
  <2> QED BY <1>1, <1>4, <1>5, <2>1, <2>2, <2>3, RetryPostRest
<1>11. \A u \in Slots \ Touched : posts'[u] = posts[u]
  BY <1>1, <1>2 DEF TypeOK
<1>12. \A r \in New : /\ r.from \in Touched
                      /\ posts'[r.from] # NoPost /\ posts'[r.from].status = "waiting"
                      /\ EventsOf(r.from)' \subseteq BatchEvents(r)
  <2> TAKE r \in New
  <2>1. CASE url'[p] /\ r = NewRequest(p, "start", {}, s)
    <3>1. r.from = s
      BY <2>1 DEF NewRequest
    <3>2. EventsOf(s)' = {}
      BY <1>7 DEF EventsOf
    <3> QED BY <1>7, <2>1, <3>1, <3>2
  <2>2. CASE retrying /\ r = RetryRequest(p, spool, Present, t)
    BY <1>10, <2>2
  <2> QED BY <2>1, <2>2
<1>13. \A r1, r2 \in New : r1.from = r2.from => r1 = r2
  <2>1. NewRequest(p, "start", {}, s).from = s
    BY DEF NewRequest
  <2>2. retrying => RetryRequest(p, spool, Present, t).from = t
    BY <1>10
  <2> HIDE DEF retrying
  <2> QED BY <1>4, <2>1, <2>2
<1>14. \A r \in net' : r.from # Late => r \in New \/ (r \in net /\ r.from \notin Touched)
  <2>1. \A r \in net : r.from # Late => r.from \notin Touched
    BY <1>1, <1>4 DEF RequestsOK
  <2>2. net' = net \cup New
    BY <1>2
  <2> HIDE DEF New, Touched
  <2> QED BY <2>1, <2>2
<1>15. \A u \in Touched : (posts'[u] # NoPost /\ posts'[u].status = "ok") => EventsOf(u)' \subseteq stored'
  <2> HIDE DEF retrying
  <2> QED BY <1>7, <1>9, <1>10
<1>16. Touched \in SUBSET Slots /\ stored \subseteq stored'
  BY <1>3, <1>4
<1>17. RequestsOK' /\ AcksOK'
  <2> HIDE DEF New, Touched
  <2> QED BY Zenon, <1>1, <1>6, <1>11, <1>12, <1>13, <1>14, <1>15, <1>16, PostsStep
<1>18. FilesOK'
  <2>1. \A u \in Slots : (posts'[u] # NoPost /\ posts'[u].kind = "retry") => posts'[u].file <= nextFile
    <3> HIDE DEF retrying
    <3> QED BY <1>1, <1>7, <1>9, <1>10, <1>11 DEF FilesOK
  <2> QED BY <1>1, <1>3, <1>6, <2>1 DEF FilesOK
<1>19. Accounting'
  <2>1. \A q \in Procs : \A n \in 1 .. seq'[q] : Queued(<< q, n >>) => Held(<< q, n >>)'
    BY <1>1, <1>3 DEF Queued, Held, TypeOK
  <2>2. \A e \in Event : Posted(e) => Held(e)'
    BY <1>4, <1>11 DEF Posted, Held
  <2>3. \A q \in Procs : \A n \in 1 .. seq'[q] : n \in 1 .. seq[q] \/ Held(<< q, n >>)'
    BY <1>1, <1>3 DEF Queued, Held, TypeOK
  <2> QED BY <1>1, <1>6, <2>1, <2>2, <2>3, AccountingStep
<1> QED BY <1>17, <1>18, <1>19 DEF Rest

-----------------------------------------------------------------------------
(* The theorems.                                                           *)

LEMMA InitIInv == Init => IInv
<1> SUFFICES ASSUME Init PROVE IInv
  OBVIOUS
<1>1. TypeOK
  BY BoundsOK DEF Init, TypeOK, Causes
<1>2. RequestsOK /\ AcksOK /\ FilesOK
  BY DEF Init, RequestsOK, AcksOK, FilesOK
<1>3. Accounting
  BY DEF Init, Accounting
<1> QED BY <1>1, <1>2, <1>3 DEF IInv

LEMMA NextIInv == IInv /\ [Next]_vars => IInv'
<1> SUFFICES ASSUME IInv, [Next]_vars PROVE IInv'
  OBVIOUS
<1>1. TypeOK'
  BY NextType DEF IInv
<1>2. Rest'
  <2>1. CASE UNCHANGED vars
    <3>1. UNCHANGED << seq, queue, posts, net, writing, spool, nextFile, server, lost >>
      BY <2>1 DEF vars, client
    <3> QED BY <3>1, QueueRest DEF Queued
  <2>2. ASSUME NEW p \in Procs, ProcNext(p) PROVE Rest'
    <3>1. CASE Pause(p) \/ Resume(p)
      BY <3>1, QueueRest DEF Pause, Resume, Queued
    <3>2. CASE Exit(p) \/ Crash(p)
      BY <3>2, GoneRest DEF Exit, Crash
    <3> QED BY <2>2, <3>1, <3>2, SetupRest, TimerRest, CloseFileRest, SyncRest DEF ProcNext
  <2>3. ASSUME NEW s \in Slots, Callback(s) PROVE Rest'
    <3>1. CASE StartOk(s) \/ RetryFailed(s)
      BY <3>1, QuietRest DEF StartOk, RetryFailed, Done, client
    <3> QED BY <2>3, <3>1, FailedRest, RetryRest DEF Callback
  <2>4. ASSUME NEW r \in net, NetNext(r) PROVE Rest'
    BY <2>4, NetNextRest
  <2> QED BY <2>1, <2>2, <2>3, <2>4 DEF Next
<1> QED BY <1>1, <1>2 DEF IInv, Rest

\* The inductive invariant of the delivery.
THEOREM Invariant == Spec => []IInv
BY InitIInv, NextIInv, PTL DEF Spec

\* Every variable keeps its type.
THEOREM TypeCorrect == Spec => []TypeOK
<1>1. IInv => TypeOK
  BY DEF IInv
<1> QED BY <1>1, Invariant, PTL

\* No event that M.emit has taken is ever unaccounted for: the client holds it
\* in its queue, in a post under way or in the spool, or the collector has
\* stored it, or it was dropped for one of the known causes.
THEOREM NoEventVanishes == Spec => []Accounting
<1>1. IInv => Accounting
  BY DEF IInv
<1> QED BY <1>1, Invariant, PTL

\* Whoever deletes a whole batch file has the collector's answer, or enforces
\* the cap.
DeletedOK(f) ==
  (spool[f] # NoFile /\ spool[f].kind = "events" /\ spool[f].whole /\ spool'[f] = NoFile)
    => spool[f].events \subseteq stored' \cup lost'["cap"]

LEMMA DropCorruptDeletes ==
  ASSUME NEW sp, SpoolLess(sp), NEW list, DropCorrupt(sp, list), stored' = stored
  PROVE  \A f \in Files : DeletedOK(f)
BY DEF DropCorrupt, Without, Corrupt, SpoolLess, DeletedOK

LEMMA NewFileDeletes ==
  ASSUME TypeOK, NEW p \in Procs, NEW kind \in {"events", "session"}, NEW path \in Paths,
         NEW evs \in SUBSET Event, NewFile(p, kind, path, evs)
  PROVE  \A f \in Files : DeletedOK(f)
<1> DEFINE file == [kind |-> kind, path |-> path, events |-> evs, whole |-> FALSE]
<1>1. file # NoFile
  <2>1. file \in File
    BY DEF File
  <2> QED BY Zenon, <2>1, NoFileOK
<1>2. \A f \in Files : spool'[f] = file \/ spool'[f] = spool[f]
  BY DEF NewFile, TypeOK
<1> HIDE DEF file
<1> QED BY <1>1, <1>2 DEF DeletedOK

LEMMA CapDeletes ==
  ASSUME TypeOK, NEW sp, \A f \in Files : spool[f] # NoFile =>
                           sp[f] # NoFile /\ sp[f].kind = spool[f].kind /\ sp[f].events = spool[f].events,
         NEW over, spool' = Without(sp, over), NEW S,
         lost'["cap"] = S \cup EventsIn(sp, over)
  PROVE  \A f \in Files : DeletedOK(f)
<1>1. ASSUME NEW f \in Files, spool[f] # NoFile, spool[f].kind = "events", spool'[f] = NoFile
      PROVE  spool[f].events \subseteq lost'["cap"]
  <2>1. f \in over
    BY <1>1 DEF Without
  <2>2. spool[f].events \subseteq EventsIn(sp, over)
    BY <1>1, <2>1 DEF EventsIn
  <2> QED BY <2>2
<1> QED BY <1>1 DEF DeletedOK

LEMMA WriteFailsDeletes ==
  ASSUME TypeOK, NEW evs, NEW cost, NEW over, WriteFails(evs, cost, over)
  PROVE  \A f \in Files : DeletedOK(f)
<1>1. spool' = Without(spool, over)
      /\ lost' = [lost EXCEPT !["disk"] = @ \cup evs, !["cap"] = @ \cup EventsIn(spool, over)]
  BY DEF WriteFails
<1>2. lost'["cap"] = lost["cap"] \cup EventsIn(spool, over)
  BY <1>1 DEF TypeOK, Causes
<1> QED BY Zenon, <1>1, <1>2, CapDeletes

LEMMA NextDeletes ==
  ASSUME IInv, Next
  PROVE  \A f \in Files : DeletedOK(f)
<1>1. TypeOK /\ AcksOK /\ SpoolLess(spool)
  BY DEF IInv, TypeOK, SpoolLess, SpoolType
<1>2. CASE spool' = spool
  BY <1>2 DEF DeletedOK
<1>3. ASSUME NEW s \in Slots, Callback(s), spool' # spool PROVE \A f \in Files : DeletedOK(f)
  <2>1. CASE StartFailed(s) \/ FlushFailed(s)
    <3>1. posts[s].proc \in Procs /\ posts[s].events \in SUBSET Event
      BY <1>1, <2>1 DEF StartFailed, FlushFailed, Done, TypeOK, Post
    <3>2. {"start", "batch"} \subseteq Paths /\ {} \in SUBSET Event
      BY DEF Paths
    <3>3. \/ NewFile(posts[s].proc, "session", "start", {})
          \/ NewFile(posts[s].proc, "events", "batch", posts[s].events)
          \/ WriteFails({}, 0, {}) \/ WriteFails(posts[s].events, 0, OverCap(spool))
      BY <2>1 DEF StartFailed, FlushFailed, OpenFile
    <3> QED BY <1>1, <3>1, <3>2, <3>3, NewFileDeletes, WriteFailsDeletes
  <2>2. CASE FlushOk(s)
    <3>1. DropCorrupt(spool, Present) /\ stored' = stored
      BY <2>2 DEF FlushOk, RetryNext, server
    <3> QED BY <1>1, <3>1, DropCorruptDeletes
  <2>3. CASE RetryOk(s)
    <3> DEFINE removed == [spool EXCEPT ![posts[s].file] = NoFile]
    <3>1. DropCorrupt(removed, posts[s].rest) /\ stored' = stored
      BY <2>3 DEF RetryOk, RetryNext, server
    <3>2. SpoolLess(removed)
      <4>1. EventsIn(spool, {posts[s].file} \cap Files) \subseteq stored
        BY <1>1, <2>3 DEF RetryOk, Done, AcksOK, EventsOf
      <4>2. removed \in SpoolType
        BY Zenon, <1>1 DEF TypeOK, SpoolType
      <4>3. ASSUME NEW f \in Files, removed[f] # spool[f]
            PROVE  /\ removed[f] = NoFile
                   /\ (spool[f] # NoFile /\ spool[f].kind = "events") => spool[f].events \subseteq stored
        <5>1. f = posts[s].file /\ removed[f] = NoFile
          BY <1>1, <4>3 DEF TypeOK
        <5> QED BY <4>1, <5>1 DEF EventsIn
      <4> QED BY <4>2, <4>3 DEF SpoolLess
    <3> QED BY <3>1, <3>2, DropCorruptDeletes
  <2>4. CASE StartOk(s) \/ RetryFailed(s)
    BY <1>3, <2>4 DEF StartOk, RetryFailed
  <2> QED BY <1>3, <2>1, <2>2, <2>3, <2>4 DEF Callback
<1>4. ASSUME NEW p \in Procs, ProcNext(p), spool' # spool PROVE \A f \in Files : DeletedOK(f)
  <2>1. CASE Setup(p) \/ RetryTimer(p)
    <3>1. DropCorrupt(spool, Present) /\ stored' = stored
      BY <1>4, <2>1 DEF Setup, RetryTimer, RetryNext, server
    <3> QED BY <1>1, <3>1, DropCorruptDeletes
  <2>2. CASE CloseFile(p)
    <3> DEFINE g      == writing[p]
               closed == [spool EXCEPT ![g].whole = TRUE]
               over   == IF pc[p] = "running" /\ spool[g].kind = "events" THEN OverCap(closed) ELSE {}
    <3>1. g \in Files /\ spool[g] # NoFile /\ spool[g] \in File
      BY <1>1, <1>4, <2>2 DEF CloseFile, TypeOK
    <3>2. spool' = Without(closed, over)
          /\ lost' = [lost EXCEPT !["cap"] = @ \cup EventsIn(closed, over)]
      BY Zenon, <2>2, <3>1 DEF CloseFile
    <3>3. \A f \in Files : spool[f] # NoFile =>
            closed[f] # NoFile /\ closed[f].kind = spool[f].kind /\ closed[f].events = spool[f].events
      <4>1. closed[g] = [spool[g] EXCEPT !.whole = TRUE] /\ \A f \in Files \ {g} : closed[f] = spool[f]
        BY <1>1, <3>1 DEF TypeOK
      <4>2. [spool[g] EXCEPT !.whole = TRUE] \in File
        BY Zenon, <3>1 DEF File
      <4> QED BY Zenon, <3>1, <4>1, <4>2, NoFileOK DEF File
    <3> HIDE DEF closed, over
    <3>4. lost'["cap"] = lost["cap"] \cup EventsIn(closed, over)
      BY <1>1, <3>2 DEF TypeOK, Causes
    <3> QED BY Zenon, <1>1, <3>2, <3>3, <3>4, CapDeletes
  <2>3. CASE SyncBatch(p) \/ SyncEnd(p) \/ SpoolEnd(p)
    <3>1. /\ {<< p, seq[p] + 1 >>} \in SUBSET Event /\ {<< p, seq[p] >>} \in SUBSET Event
          /\ {"batch", "end"} \subseteq Paths
      BY <1>1 DEF TypeOK, Event, Paths
    <3>2. \/ NewFile(p, "events", "batch", {<< p, seq[p] + 1 >>})
          \/ NewFile(p, "session", "end", {<< p, seq[p] >>})
          \/ NewFile(p, "session", "end", {<< p, seq[p] + 1 >>})
          \/ \E evs : WriteFails(evs, 1, {})
      BY <1>4, <2>3 DEF SyncBatch, SyncEnd, SpoolEnd, OpenFile
    <3> QED BY <1>1, <3>1, <3>2, NewFileDeletes, WriteFailsDeletes
  <2> QED BY <1>4, <2>1, <2>2, <2>3
          DEF ProcNext, Emit, FlushTimer, Pause, Resume, Shutdown, Exit, Crash, Gone
<1>5. ASSUME NEW r \in net, NetNext(r) PROVE spool' = spool
  BY <1>5 DEF NetNext, Handle, Drop, ReplyLost, TimeOut
<1> QED BY <1>2, <1>3, <1>4, <1>5 DEF Next

\* spool.lua's promise: no step of any process deletes a whole batch file
\* unless the collector has stored its events or the cap drops it.
THEOREM SpoolKeepsUnacked == Spec => DeletedOnlyOnAck
<1>1. IInv /\ [Next]_vars =>
        [\A f \in Files :
           (spool[f] # NoFile /\ spool[f].kind = "events" /\ spool[f].whole /\ spool'[f] = NoFile)
             => spool[f].events \subseteq stored' \cup lost'["cap"]]_vars
  BY NextDeletes DEF DeletedOK
<1> QED BY <1>1, Invariant, PTL DEF Spec, DeletedOnlyOnAck

-----------------------------------------------------------------------------
(***************************************************************************)
(* The refinement.  Events are known by the number their process gave      *)
(* them, so no event that is anywhere in the system can be captured again. *)
(***************************************************************************)
Given(E, sq) == \A e \in E : e[2] \in 1 .. sq[e[1]]

\* Each copy of an event, wherever it is, has a number handed out before.
QueueGiven(sq)     == \A p \in Procs : \A e \in queue[p] : e[1] = p /\ e[2] \in 1 .. sq[p]
PostsGiven(sq)     == \A s \in Slots : posts[s] # NoPost => Given(posts[s].events, sq)
NetGiven(sq)       == \A r \in net : Given(r.events, sq)
SpoolGiven(sp, sq) == \A f \in Files : sp[f] # NoFile => Given(sp[f].events, sq)
LostGiven(sq)      == \A c \in Causes : Given(lost[c], sq)
AllGiven(sq) ==
  /\ QueueGiven(sq) /\ PostsGiven(sq) /\ NetGiven(sq) /\ SpoolGiven(spool, sq)
  /\ Given(stored, sq) /\ LostGiven(sq)

\* M.seq counts the numbers handed out; it is 0 until setup.
Numbered == AllGiven(seq) /\ \A p \in Procs : pc[p] = "off" <=> seq[p] = 0

\* The inductive invariant of the refinement.
NumInv == IInv /\ Numbered

\* The events of a queue carry numbers of their process.
LEMMA QueueEvents ==
  ASSUME NEW sq, QueueGiven(sq), NEW p \in Procs
  PROVE  Given(queue[p], sq)
BY DEF QueueGiven, Given

\* The spool operators move events and invent none.
LEMMA EventsInGiven ==
  ASSUME NEW sq, NEW sp, SpoolGiven(sp, sq), NEW F \in SUBSET Files
  PROVE  Given(EventsIn(sp, F), sq)
BY DEF SpoolGiven, Given, EventsIn

LEMMA WithoutGiven ==
  ASSUME NEW sq, NEW sp, SpoolGiven(sp, sq), NEW F
  PROVE  SpoolGiven(Without(sp, F), sq)
BY DEF SpoolGiven, Without

LEMMA DropCorruptGiven ==
  ASSUME NEW sq, NEW sp, SpoolGiven(sp, sq), NEW list \in SUBSET Files,
         lost \in LostType, LostGiven(sq), DropCorrupt(sp, list)
  PROVE  SpoolGiven(spool', sq) /\ LostGiven(sq)'
<1>1. SpoolGiven(spool', sq)
  BY WithoutGiven DEF DropCorrupt
<1>2. Corrupt(sp, list) \cap BeingWritten \in SUBSET Files
  BY DEF Corrupt
<1>3. Given(EventsIn(sp, Corrupt(sp, list) \cap BeingWritten), sq)
  BY <1>2, EventsInGiven
<1>4. LostGiven(sq)'
  BY Zenon, <1>3 DEF DropCorrupt, LostGiven, LostType, Given
<1> QED BY <1>1, <1>4

\* A retry posts the events of a file and drops those of files it cannot decode.
LEMMA RetryNextGiven ==
  ASSUME NEW sq, NEW sp, SpoolGiven(sp, sq), NEW list \in SUBSET Files, NEW p, NEW s \in Slots,
         lost \in LostType, posts \in PostsType,
         LostGiven(sq), PostsGiven(sq), NetGiven(sq), RetryNext(p, sp, list, s)
  PROVE  SpoolGiven(spool', sq) /\ LostGiven(sq)' /\ PostsGiven(sq)' /\ NetGiven(sq)'
<1>1. SpoolGiven(spool', sq) /\ LostGiven(sq)'
  BY DropCorruptGiven DEF RetryNext
<1>2. CASE list \cap Whole(sp) = {}
  BY <1>1, <1>2 DEF RetryNext, PostsGiven, NetGiven, PostsType
<1>3. CASE list \cap Whole(sp) # {}
  <2>1. posts' = [posts EXCEPT ![s] = RetryPost(p, sp, list)]
        /\ net' = net \cup {RetryRequest(p, sp, list, s)}
    BY <1>3 DEF RetryNext
  <2>2. RetryPost(p, sp, list).events = {}
    BY DEF RetryPost
  <2>3. PostsGiven(sq)'
    BY <2>1, <2>2 DEF PostsGiven, PostsType, Given
  <2>4. FirstReadable(sp, list) \in Files /\ sp[FirstReadable(sp, list)] # NoFile
    BY <1>3, FirstReadableIn DEF Whole
  <2>5. Given(RetryRequest(p, sp, list, s).events, sq)
    BY <2>4 DEF RetryRequest, SpoolGiven, Given
  <2>6. NetGiven(sq)'
    BY <2>1, <2>5 DEF NetGiven
  <2> QED BY <1>1, <2>3, <2>6
<1> QED BY <1>2, <1>3

\* A flush moves the queue to a post and its request.
LEMMA FlushNowGiven ==
  ASSUME NEW sq, NEW p \in Procs, NEW evs, Given(evs, sq), TypeOK,
         QueueGiven(sq), PostsGiven(sq), NetGiven(sq), FlushNow(p, evs)
  PROVE  QueueGiven(sq)' /\ PostsGiven(sq)' /\ NetGiven(sq)'
<1>1. PICK s \in FreeSlots :
         /\ queue' = [queue EXCEPT ![p] = {}]
         /\ posts' = [posts EXCEPT ![s] = NewPost(p, "flush", evs, url[p])]
         /\ net' = IF url[p] THEN net \cup {NewRequest(p, "batch", evs, s)} ELSE net
  BY Zenon DEF FlushNow
<1>2. QueueGiven(sq)'
  BY <1>1 DEF QueueGiven, TypeOK
<1>3. NewPost(p, "flush", evs, url[p]).events = evs
  BY DEF NewPost
<1>4. NewRequest(p, "batch", evs, s).events = evs
  BY DEF NewRequest
<1>5. PostsGiven(sq)'
  BY <1>1, <1>3 DEF PostsGiven, TypeOK
<1>6. NetGiven(sq)'
  BY <1>1, <1>4 DEF NetGiven
<1> QED BY <1>2, <1>5, <1>6

\* A batch that could not be posted goes to a file, or is lost.
LEMMA NewFileGiven ==
  ASSUME NEW sq, NEW p \in Procs, NEW kind, NEW path, NEW evs, Given(evs, sq), TypeOK,
         SpoolGiven(spool, sq), NewFile(p, kind, path, evs)
  PROVE  SpoolGiven(spool', sq)
BY DEF NewFile, SpoolGiven, TypeOK

LEMMA WriteFailsGiven ==
  ASSUME NEW sq, NEW evs, Given(evs, sq), NEW cost, NEW over \in SUBSET Files, TypeOK,
         SpoolGiven(spool, sq), LostGiven(sq), WriteFails(evs, cost, over)
  PROVE  SpoolGiven(spool', sq) /\ LostGiven(sq)'
<1>1. SpoolGiven(spool', sq)
  BY WithoutGiven DEF WriteFails
<1>2. Given(EventsIn(spool, over), sq)
  BY EventsInGiven
<1>3. LostGiven(sq)'
  BY <1>2 DEF WriteFails, LostGiven, Given, TypeOK
<1> QED BY <1>1, <1>3

\* The server stores what the request carries.
LEMMA ServeGiven ==
  ASSUME NEW sq, NEW r, Given(r.events, sq), Given(stored, sq), Serve(r)
  PROVE  Given(stored', sq)
BY DEF Serve, handleSessionStart, handleSessionEnd, handleEventsBatch, Given

\* An answer changes the status of a post, not its events.
LEMMA AnsweredGiven ==
  ASSUME NEW sq, TypeOK, RequestsOK, NEW r \in net, NEW outcome, PostsGiven(sq), Answered(r, outcome)
  PROVE  PostsGiven(sq)'
<1>1. \A s \in Slots : posts[s] # NoPost => posts[s] \in Post
  BY DEF TypeOK
<1>2. CASE r.from = Late
  BY <1>2 DEF Answered, PostsGiven
<1>3. CASE r.from # Late
  <2>1. r.from \in Slots /\ posts[r.from] # NoPost
    BY <1>3 DEF TypeOK, Request, RequestsOK
  <2>2. posts' = [posts EXCEPT ![r.from] = [posts[r.from] EXCEPT !.status = outcome]]
    BY <1>3 DEF Answered
  <2>3. [posts[r.from] EXCEPT !.status = outcome].events = posts[r.from].events
    BY <1>1, <2>1 DEF Post
  <2> QED BY <2>1, <2>2, <2>3 DEF PostsGiven, TypeOK
<1> QED BY <1>2, <1>3

\* What a step leaves alone keeps its numbers.
LEMMA Unmoved ==
  ASSUME NEW sq
  PROVE  /\ queue' = queue /\ QueueGiven(sq) => QueueGiven(sq)'
         /\ posts' = posts /\ PostsGiven(sq) => PostsGiven(sq)'
         /\ net' \subseteq net /\ NetGiven(sq) => NetGiven(sq)'
         /\ spool' = spool /\ SpoolGiven(spool, sq) => SpoolGiven(spool', sq)
         /\ stored' = stored /\ Given(stored, sq) => Given(stored', sq)
         /\ lost' = lost /\ LostGiven(sq) => LostGiven(sq)'
BY DEF QueueGiven, PostsGiven, NetGiven, SpoolGiven, Given, LostGiven

\* A post that is over takes its events with it.
LEMMA FreedGiven ==
  ASSUME NEW sq, TypeOK, PostsGiven(sq), NEW s \in Slots, Free(s)
  PROVE  PostsGiven(sq)'
BY DEF Free, PostsGiven, TypeOK

\* Copies of an event keep its number: one lemma for each group of actions.
LEMMA NetNumbered ==
  ASSUME IInv, NEW r \in net, NetNext(r), NEW sq, AllGiven(sq)
  PROVE  AllGiven(sq)'
<1>1. TypeOK /\ RequestsOK
  BY DEF IInv
<1>2. UNCHANGED << queue, spool, lost >>
  BY DEF NetNext, Handle, Drop, ReplyLost, TimeOut, client
<1>3. QueueGiven(sq)' /\ SpoolGiven(spool', sq) /\ LostGiven(sq)'
  BY <1>2, Unmoved DEF AllGiven
<1>4. \E outcome : Answered(r, outcome)
  BY DEF NetNext, Handle, Drop, ReplyLost, TimeOut
<1>5. PostsGiven(sq)'
  BY <1>1, <1>4, AnsweredGiven DEF AllGiven
<1>6. Given(r.events, sq)
  BY DEF AllGiven, NetGiven
<1>7. Serve(r) \/ stored' = stored
  BY DEF NetNext, Handle, Drop, ReplyLost, TimeOut, server
<1>8. Given(stored', sq)
  BY <1>6, <1>7, ServeGiven DEF AllGiven
<1>9. [r EXCEPT !.from = Late].events = r.events
  BY <1>1 DEF TypeOK, Request
<1>10. net' \subseteq net \cup {[r EXCEPT !.from = Late]}
  BY DEF NetNext, Handle, Drop, ReplyLost, TimeOut
<1>11. NetGiven(sq)'
  BY Zenon, <1>6, <1>9, <1>10 DEF AllGiven, NetGiven
<1> QED BY <1>3, <1>5, <1>8, <1>11 DEF AllGiven

LEMMA CallbackNumbered ==
  ASSUME IInv, NEW s \in Slots, Callback(s), NEW sq, AllGiven(sq)
  PROVE  AllGiven(sq)'
<1>1. TypeOK /\ posts \in PostsType /\ lost \in LostType
  BY DEF IInv, TypeOK, PostsType, LostType
<1>2. UNCHANGED << queue, stored >>
  BY DEF Callback, StartOk, StartFailed, FlushOk, FlushFailed, RetryOk, RetryFailed, client, server
<1>3. QueueGiven(sq)' /\ Given(stored', sq)
  BY <1>2, Unmoved DEF AllGiven
<1>4. posts[s] # NoPost /\ posts[s] \in Post
  BY <1>1 DEF Callback, StartOk, StartFailed, FlushOk, FlushFailed, RetryOk, RetryFailed, Done, PostsType
<1>5. CASE StartOk(s) \/ RetryFailed(s)
  <2>1. UNCHANGED << net, spool, lost >> /\ Free(s)
    BY <1>5 DEF StartOk, RetryFailed
  <2>2. PostsGiven(sq)'
    BY <1>1, <2>1, FreedGiven DEF AllGiven
  <2>3. NetGiven(sq)' /\ SpoolGiven(spool', sq) /\ LostGiven(sq)'
    BY <2>1, Unmoved DEF AllGiven
  <2> QED BY <1>3, <2>2, <2>3 DEF AllGiven
<1>6. CASE StartFailed(s) \/ FlushFailed(s)
  <2>1. Free(s) /\ net' = net
    BY <1>6 DEF StartFailed, FlushFailed
  <2>2. PostsGiven(sq)' /\ NetGiven(sq)'
    BY <1>1, <2>1, FreedGiven, Unmoved DEF AllGiven
  <2>3. ASSUME NEW evs, evs \subseteq posts[s].events, NEW kind, NEW path,
               NEW over \in SUBSET Files,
               \/ OpenFile(posts[s].proc, kind, path, evs, 0)
               \/ WriteFails(evs, 0, over)
        PROVE  AllGiven(sq)'
    <3>1. Given(evs, sq) /\ posts[s].proc \in Procs
      BY <1>4, <2>3 DEF AllGiven, PostsGiven, Given, Post
    <3>2. CASE OpenFile(posts[s].proc, kind, path, evs, 0)
      <4>1. SpoolGiven(spool', sq) /\ LostGiven(sq)'
        BY <1>1, <3>1, <3>2, NewFileGiven, Unmoved DEF OpenFile, AllGiven
      <4> QED BY <1>3, <2>2, <4>1 DEF AllGiven
    <3>3. CASE WriteFails(evs, 0, over)
      <4>1. SpoolGiven(spool', sq) /\ LostGiven(sq)'
        BY <1>1, <3>1, <3>3, WriteFailsGiven DEF AllGiven
      <4> QED BY <1>3, <2>2, <4>1 DEF AllGiven
    <3> QED BY <2>3, <3>2, <3>3
  <2>4. CASE StartFailed(s)
    <3>1. {} \subseteq posts[s].events /\ {} \in SUBSET Files
      OBVIOUS
    <3> QED BY <2>3, <2>4, <3>1 DEF StartFailed
  <2>5. CASE FlushFailed(s)
    <3>1. posts[s].events \subseteq posts[s].events /\ OverCap(spool) \in SUBSET Files
      BY DEF OverCap
    <3> QED BY <2>3, <2>5, <3>1 DEF FlushFailed
  <2> QED BY <1>6, <2>4, <2>5
<1>7. CASE FlushOk(s) \/ RetryOk(s)
  <2>1. ASSUME NEW sp, SpoolGiven(sp, sq), NEW list \in SUBSET Files,
               RetryNext(posts[s].proc, sp, list, s)
        PROVE  AllGiven(sq)'
    <3>1. /\ SpoolGiven(spool', sq) /\ LostGiven(sq)'
          /\ PostsGiven(sq)' /\ NetGiven(sq)'
      BY <1>1, <2>1, RetryNextGiven DEF AllGiven
    <3> QED BY <1>3, <3>1 DEF AllGiven
  <2>2. CASE FlushOk(s)
    <3>1. Present \in SUBSET Files
      BY DEF Present
    <3> QED BY <2>1, <2>2, <3>1 DEF FlushOk, AllGiven
  <2>3. CASE RetryOk(s)
    <3>1. posts[s].rest \in SUBSET Files
      BY <1>4 DEF Post
    <3>2. SpoolGiven([spool EXCEPT ![posts[s].file] = NoFile], sq)
      BY <1>1 DEF AllGiven, SpoolGiven, TypeOK
    <3> QED BY <2>1, <2>3, <3>1, <3>2 DEF RetryOk
  <2> QED BY <1>7, <2>2, <2>3
<1> QED BY <1>5, <1>6, <1>7 DEF Callback

LEMMA TimersNumbered ==
  ASSUME IInv, NEW p \in Procs, NEW sq, AllGiven(sq),
         \/ Emit(p) /\ seq[p] + 1 \in 1 .. sq[p]
         \/ FlushTimer(p) \/ RetryTimer(p) \/ Shutdown(p) \/ Pause(p) \/ Resume(p)
  PROVE  AllGiven(sq)'
<1>1. TypeOK /\ posts \in PostsType /\ lost \in LostType
  BY DEF IInv, TypeOK, PostsType, LostType
<1>2. stored' = stored
  BY DEF Emit, FlushTimer, RetryTimer, Shutdown, Pause, Resume, server
<1>3. Given(stored', sq)
  BY <1>2, Unmoved DEF AllGiven
<1>4. CASE RetryTimer(p)
  <2>1. PICK s \in FreeSlots : RetryNext(p, spool, Present, s)
    BY <1>4 DEF RetryTimer
  <2>2. s \in Slots /\ Present \in SUBSET Files
    BY DEF FreeSlots, Present
  <2>3. /\ SpoolGiven(spool', sq) /\ LostGiven(sq)'
        /\ PostsGiven(sq)' /\ NetGiven(sq)'
    BY <1>1, <2>1, <2>2, RetryNextGiven DEF AllGiven
  <2>4. QueueGiven(sq)'
    BY <1>4, Unmoved DEF RetryTimer, client, AllGiven
  <2> QED BY <1>3, <2>3, <2>4 DEF AllGiven
<1>5. ASSUME UNCHANGED << spool, lost >>, NEW evs, Given(evs, sq),
             \/ FlushNow(p, evs)
             \/ UNCHANGED << posts, net >> /\ QueueGiven(sq)'
      PROVE  AllGiven(sq)'
  <2>1. SpoolGiven(spool', sq) /\ LostGiven(sq)'
    BY <1>5, Unmoved DEF AllGiven
  <2>2. QueueGiven(sq)' /\ PostsGiven(sq)' /\ NetGiven(sq)'
    <3>1. CASE FlushNow(p, evs)
      BY <1>1, <1>5, <3>1, FlushNowGiven DEF AllGiven
    <3>2. CASE UNCHANGED << posts, net >> /\ QueueGiven(sq)'
      BY <3>2, Unmoved DEF AllGiven
    <3> QED BY <1>5, <3>1, <3>2
  <2> QED BY <1>3, <2>1, <2>2 DEF AllGiven
<1>6. Given(queue[p], sq)
  BY QueueEvents DEF AllGiven
<1>7. CASE FlushTimer(p)
  BY <1>5, <1>6, <1>7 DEF FlushTimer
<1>8. CASE Shutdown(p)
  <2>1. UNCHANGED << queue, posts, net >> \/ FlushNow(p, queue[p])
    BY <1>8 DEF Shutdown
  <2>2. UNCHANGED << spool, lost >>
    BY <1>8 DEF Shutdown
  <2>3. queue' = queue => QueueGiven(sq)'
    BY Unmoved DEF AllGiven
  <2> QED BY <1>5, <1>6, <2>1, <2>2, <2>3
<1>9. CASE Pause(p) \/ Resume(p)
  <2>1. UNCHANGED << queue, posts, net, spool, lost >>
    BY <1>9 DEF Pause, Resume
  <2>2. QueueGiven(sq)'
    BY <2>1, Unmoved DEF AllGiven
  <2> QED BY <1>5, <1>6, <2>1, <2>2
<1>10. CASE Emit(p) /\ seq[p] + 1 \in 1 .. sq[p]
  <2> DEFINE evs == queue[p] \cup {<< p, seq[p] + 1 >>}
  <2>1. \A e \in evs : e[1] = p /\ e[2] \in 1 .. sq[p]
    BY <1>10 DEF AllGiven, QueueGiven
  <2>2. Given(evs, sq)
    BY <2>1 DEF Given
  <2>3. UNCHANGED << spool, lost >>
        /\ (\/ FlushNow(p, evs)
            \/ queue' = [queue EXCEPT ![p] = evs] /\ UNCHANGED << posts, net >>)
    BY <1>10 DEF Emit
  <2> HIDE DEF evs
  <2>4. queue' = [queue EXCEPT ![p] = evs] => QueueGiven(sq)'
    BY <1>1, <2>1 DEF AllGiven, QueueGiven, TypeOK
  <2> QED BY <1>5, <2>2, <2>3, <2>4
<1> QED BY <1>4, <1>7, <1>8, <1>9, <1>10

LEMMA CloseFileNumbered ==
  ASSUME IInv, NEW p \in Procs, CloseFile(p), NEW sq, AllGiven(sq)
  PROVE  AllGiven(sq)'
<1> DEFINE f == writing[p]
           closed == [spool EXCEPT ![f].whole = TRUE]
           over == IF pc[p] = "running" /\ spool[f].kind = "events" THEN OverCap(closed) ELSE {}
<1>1. TypeOK /\ lost \in LostType /\ f \in Files
  BY DEF IInv, TypeOK, LostType, CloseFile
<1>2. UNCHANGED << queue, posts, net, stored >>
  BY DEF CloseFile, server
<1>3. QueueGiven(sq)' /\ PostsGiven(sq)' /\ NetGiven(sq)' /\ Given(stored', sq)
  BY <1>2, Unmoved DEF AllGiven
<1>4. \/ UNCHANGED << spool, lost >>
      \/ /\ spool[f] # NoFile
         /\ spool' = Without(closed, over)
         /\ lost' = [lost EXCEPT !["cap"] = @ \cup EventsIn(closed, over)]
  BY Zenon DEF CloseFile
<1>5. spool[f] # NoFile => SpoolGiven(closed, sq)
  <2>1. spool[f] # NoFile => spool[f] \in File
    BY <1>1 DEF TypeOK
  <2>2. \A g \in Files : closed[g] = IF g = f THEN [spool[f] EXCEPT !.whole = TRUE] ELSE spool[g]
    BY <1>1 DEF TypeOK
  <2>3. spool[f] # NoFile => [spool[f] EXCEPT !.whole = TRUE].events = spool[f].events
    BY <2>1 DEF File
  <2> QED BY <2>2, <2>3 DEF AllGiven, SpoolGiven
<1>6. over \in SUBSET Files
  BY DEF OverCap
<1> HIDE DEF f, closed, over
<1>7. CASE UNCHANGED << spool, lost >>
  <2>1. SpoolGiven(spool', sq) /\ LostGiven(sq)'
    BY <1>7, Unmoved DEF AllGiven
  <2> QED BY <1>3, <2>1 DEF AllGiven
<1>8. CASE /\ spool[f] # NoFile /\ spool' = Without(closed, over)
           /\ lost' = [lost EXCEPT !["cap"] = @ \cup EventsIn(closed, over)]
  <2>1. SpoolGiven(spool', sq)
    BY <1>5, <1>8, WithoutGiven
  <2>2. Given(EventsIn(closed, over), sq)
    BY <1>5, <1>6, <1>8, EventsInGiven
  <2>3. LostGiven(sq)'
    BY <1>1, <1>8, <2>2 DEF AllGiven, LostGiven, LostType, Given
  <2> QED BY <1>3, <2>1, <2>3 DEF AllGiven
<1> QED BY <1>4, <1>7, <1>8

\* A request nobody answered may still arrive.
LEMMA UnansweredGiven ==
  ASSUME NEW sq, NEW r, Given(r.events, sq), AllGiven(sq), Unanswered(r)
  PROVE  NetGiven(sq)' /\ Given(stored', sq)
<1>1. \/ stored' = stored /\ net' \subseteq net \cup {r}
      \/ Serve(r) /\ net' = net
  BY DEF Unanswered, server
<1>2. NetGiven(sq)'
  BY <1>1 DEF AllGiven, NetGiven
<1>3. Given(stored', sq)
  BY <1>1, ServeGiven DEF AllGiven
<1> QED BY <1>2, <1>3

LEMMA SyncBatchNumbered ==
  ASSUME IInv, NEW p \in Procs, SyncBatch(p), NEW sq, AllGiven(sq), seq[p] + 1 \in 1 .. sq[p]
  PROVE  AllGiven(sq)'
<1> DEFINE env == << p, seq[p] + 1 >>
           r   == [path |-> "batch", sess |-> p, events |-> {env},
                   started_at |-> FALSE, from |-> Late]
<1>1. TypeOK /\ lost \in LostType
  BY DEF IInv, TypeOK, LostType
<1>2. Given({env}, sq) /\ Given(r.events, sq)
  BY DEF Given
<1>3. UNCHANGED << queue, posts >>
  BY DEF SyncBatch
<1>4. QueueGiven(sq)' /\ PostsGiven(sq)'
  BY <1>3, Unmoved DEF AllGiven
<1>5. \/ /\ Serve(r)
         /\ lost' = [lost EXCEPT !["end"] = IF Accepted(r) THEN @ ELSE @ \cup {env}]
         /\ UNCHANGED << net, spool >>
      \/ /\ Unanswered(r)
         /\ OpenFile(p, "events", "batch", {env}, 1) \/ WriteFails({env}, 1, {})
  BY DEF SyncBatch
<1> HIDE DEF env, r
<1>6. CASE /\ Serve(r)
           /\ lost' = [lost EXCEPT !["end"] = IF Accepted(r) THEN @ ELSE @ \cup {env}]
           /\ UNCHANGED << net, spool >>
  <2>1. Given(stored', sq)
    BY <1>2, <1>6, ServeGiven DEF AllGiven
  <2>2. LostGiven(sq)'
    BY <1>1, <1>2, <1>6 DEF AllGiven, LostGiven, LostType, Given
  <2>3. NetGiven(sq)' /\ SpoolGiven(spool', sq)
    BY <1>6, Unmoved DEF AllGiven
  <2> QED BY <1>4, <2>1, <2>2, <2>3 DEF AllGiven
<1>7. CASE Unanswered(r) /\ OpenFile(p, "events", "batch", {env}, 1)
  <2>1. NetGiven(sq)' /\ Given(stored', sq)
    BY <1>2, <1>7, UnansweredGiven
  <2>2. SpoolGiven(spool', sq) /\ LostGiven(sq)'
    BY <1>1, <1>2, <1>7, NewFileGiven, Unmoved DEF OpenFile, AllGiven
  <2> QED BY <1>4, <2>1, <2>2 DEF AllGiven
<1>8. CASE Unanswered(r) /\ WriteFails({env}, 1, {})
  <2>1. NetGiven(sq)' /\ Given(stored', sq)
    BY <1>2, <1>8, UnansweredGiven
  <2>2. SpoolGiven(spool', sq) /\ LostGiven(sq)'
    BY <1>1, <1>2, <1>8, WriteFailsGiven DEF AllGiven
  <2> QED BY <1>4, <2>1, <2>2 DEF AllGiven
<1> QED BY <1>5, <1>6, <1>7, <1>8

LEMMA SyncEndNumbered ==
  ASSUME IInv, NEW p \in Procs, SyncEnd(p), NEW sq, AllGiven(sq), seq[p] \in 1 .. sq[p]
  PROVE  AllGiven(sq)'
<1> DEFINE r == [path |-> "end", sess |-> p, events |-> {}, started_at |-> FALSE, from |-> Late]
           env == << p, seq[p] >>
<1>1. TypeOK
  BY DEF IInv
<1>2. Given({env}, sq) /\ Given({}, sq) /\ Given(r.events, sq)
  BY DEF Given
<1>3. UNCHANGED << queue, posts >>
  BY DEF SyncEnd
<1>4. QueueGiven(sq)' /\ PostsGiven(sq)'
  BY <1>3, Unmoved DEF AllGiven
<1>5. \/ Serve(r) /\ UNCHANGED << net, spool, lost >>
      \/ /\ Unanswered(r)
         /\ OpenFile(p, "session", "end", {env}, 1) \/ WriteFails({}, 1, {})
  BY DEF SyncEnd
<1> HIDE DEF env, r
<1>6. CASE Serve(r) /\ UNCHANGED << net, spool, lost >>
  <2>1. Given(stored', sq)
    BY <1>2, <1>6, ServeGiven DEF AllGiven
  <2>2. NetGiven(sq)' /\ SpoolGiven(spool', sq) /\ LostGiven(sq)'
    BY <1>6, Unmoved DEF AllGiven
  <2> QED BY <1>4, <2>1, <2>2 DEF AllGiven
<1>7. CASE Unanswered(r) /\ OpenFile(p, "session", "end", {env}, 1)
  <2>1. NetGiven(sq)' /\ Given(stored', sq)
    BY <1>2, <1>7, UnansweredGiven
  <2>2. SpoolGiven(spool', sq) /\ LostGiven(sq)'
    BY <1>1, <1>2, <1>7, NewFileGiven, Unmoved DEF OpenFile, AllGiven
  <2> QED BY <1>4, <2>1, <2>2 DEF AllGiven
<1>8. CASE Unanswered(r) /\ WriteFails({}, 1, {})
  <2>1. NetGiven(sq)' /\ Given(stored', sq)
    BY <1>2, <1>8, UnansweredGiven
  <2>2. SpoolGiven(spool', sq) /\ LostGiven(sq)'
    BY <1>1, <1>2, <1>8, WriteFailsGiven DEF AllGiven
  <2> QED BY <1>4, <2>1, <2>2 DEF AllGiven
<1> QED BY <1>5, <1>6, <1>7, <1>8

LEMMA SpoolEndNumbered ==
  ASSUME IInv, NEW p \in Procs, SpoolEnd(p), NEW sq, AllGiven(sq), seq[p] + 1 \in 1 .. sq[p]
  PROVE  AllGiven(sq)'
<1> DEFINE env == << p, seq[p] + 1 >>
<1>1. TypeOK /\ lost \in LostType
  BY DEF IInv, TypeOK, LostType
<1>2. Given({env}, sq)
  BY DEF Given
<1>3. UNCHANGED << queue, posts, net, stored >>
  BY DEF SpoolEnd, server
<1>4. QueueGiven(sq)' /\ PostsGiven(sq)' /\ NetGiven(sq)' /\ Given(stored', sq)
  BY <1>3, Unmoved DEF AllGiven
<1>5. NewFile(p, "session", "end", {env}) /\ lost' = [lost EXCEPT !["end"] = @ \cup {env}]
  BY DEF SpoolEnd
<1> HIDE DEF env
<1>6. SpoolGiven(spool', sq)
  BY <1>1, <1>2, <1>5, NewFileGiven DEF AllGiven
<1>7. LostGiven(sq)'
  BY <1>1, <1>2, <1>5 DEF AllGiven, LostGiven, LostType, Given
<1> QED BY <1>4, <1>6, <1>7 DEF AllGiven

LEMMA GoneNumbered ==
  ASSUME IInv, NEW p \in Procs, Gone(p), NEW sq, AllGiven(sq)
  PROVE  AllGiven(sq)'
<1> DEFINE mine == {s \in Slots : posts[s] # NoPost /\ posts[s].proc = p}
           unflushed == UNION {posts[s].events : s \in {t \in mine : posts[t].kind = "flush"}}
           torn == EventsIn(spool, {writing[p]} \cap Files)
<1>1. TypeOK /\ lost \in LostType
  BY DEF IInv, TypeOK, LostType
<1>2. UNCHANGED << spool, stored >>
  BY DEF Gone, server
<1>3. SpoolGiven(spool', sq) /\ Given(stored', sq)
  BY <1>2, Unmoved DEF AllGiven
<1>4. Given(unflushed, sq)
  BY DEF AllGiven, PostsGiven, Given
<1>5. Given(torn, sq)
  <2>1. {writing[p]} \cap Files \in SUBSET Files
    OBVIOUS
  <2> QED BY <2>1, EventsInGiven DEF AllGiven
<1>6. Given(queue[p], sq)
  BY QueueEvents DEF AllGiven
<1>7. /\ queue' = [queue EXCEPT ![p] = {}]
      /\ posts' = [s \in Slots |-> IF s \in mine THEN NoPost ELSE posts[s]]
      /\ net' = {IF r.from \in mine THEN [r EXCEPT !.from = Late] ELSE r : r \in net}
      /\ lost' = [lost EXCEPT !["exit"] = @ \cup queue[p] \cup unflushed \cup torn]
  BY DEF Gone
<1> HIDE DEF mine, unflushed, torn
<1>8. QueueGiven(sq)'
  BY <1>1, <1>7 DEF AllGiven, QueueGiven, TypeOK
<1>9. PostsGiven(sq)'
  BY <1>7 DEF AllGiven, PostsGiven
<1>10. NetGiven(sq)'
  <2>1. \A r \in net : [r EXCEPT !.from = Late].events = r.events
    BY <1>1 DEF TypeOK, Request
  <2> QED BY Zenon, <1>7, <2>1 DEF AllGiven, NetGiven
<1>11. LostGiven(sq)'
  BY <1>1, <1>4, <1>5, <1>6, <1>7 DEF AllGiven, LostGiven, LostType, Given
<1> QED BY <1>3, <1>8, <1>9, <1>10, <1>11 DEF AllGiven

LEMMA SetupNumbered ==
  ASSUME IInv, NEW p \in Procs, Setup(p), NEW sq, AllGiven(sq), 1 \in 1 .. sq[p]
  PROVE  AllGiven(sq)'
<1> DEFINE retrying == url'[p] /\ Whole(spool) # {}
<1>1. TypeOK /\ lost \in LostType /\ posts \in PostsType
  BY DEF IInv, TypeOK, LostType, PostsType
<1>2. Given(stored', sq)
  BY Unmoved DEF AllGiven, Setup, server
<1>3. QueueGiven(sq)'
  <2>1. queue' = [queue EXCEPT ![p] = {<< p, 1 >>}]
    BY DEF Setup
  <2> QED BY <1>1, <2>1 DEF AllGiven, QueueGiven, TypeOK
<1>4. Present \in SUBSET Files
  BY DEF Present
<1>5. SpoolGiven(spool', sq) /\ LostGiven(sq)'
  <2>1. CASE DropCorrupt(spool, Present)
    BY <1>1, <1>4, <2>1, DropCorruptGiven DEF AllGiven
  <2>2. CASE UNCHANGED << spool, lost >>
    BY <2>2, Unmoved DEF AllGiven
  <2> QED BY <2>1, <2>2 DEF Setup
<1>6. PICK s \in FreeSlots, t \in FreeSlots :
        /\ s # t
        /\ posts' = [posts EXCEPT ![s] = NewPost(p, "start", {}, url'[p]),
                                  ![t] = IF retrying THEN RetryPost(p, spool, Present) ELSE NoPost]
        /\ net' = net \cup (IF url'[p] THEN {NewRequest(p, "start", {}, s)} ELSE {})
                      \cup (IF retrying THEN {RetryRequest(p, spool, Present, t)} ELSE {})
  BY Zenon DEF Setup
<1>7. NewPost(p, "start", {}, url'[p]).events = {} /\ RetryPost(p, spool, Present).events = {}
  BY DEF NewPost, RetryPost
<1>8. PostsGiven(sq)'
  BY <1>1, <1>6, <1>7 DEF AllGiven, PostsGiven, PostsType, Given
<1>9. NewRequest(p, "start", {}, s).events = {}
  BY DEF NewRequest
<1>10. retrying => Given(RetryRequest(p, spool, Present, t).events, sq)
  <2> SUFFICES ASSUME retrying PROVE Given(RetryRequest(p, spool, Present, t).events, sq)
    OBVIOUS
  <2>1. Present \cap Whole(spool) # {}
    BY DEF Present, Whole
  <2>2. FirstReadable(spool, Present) \in Files /\ spool[FirstReadable(spool, Present)] # NoFile
    BY <2>1, FirstReadableIn DEF Whole
  <2> QED BY <2>2 DEF RetryRequest, AllGiven, SpoolGiven, Given
<1> HIDE DEF retrying
<1>11. NetGiven(sq)'
  BY <1>6, <1>9, <1>10 DEF AllGiven, NetGiven, Given
<1> QED BY <1>2, <1>3, <1>5, <1>8, <1>11 DEF AllGiven

\* A number that was handed out stays so when more are.
LEMMA NumbersStay ==
  ASSUME TypeOK, AllGiven(seq), NEW sq \in [Procs -> Nat], \A q \in Procs : seq[q] <= sq[q]
  PROVE  AllGiven(sq)
<1>1. ASSUME NEW E \in SUBSET Event, Given(E, seq) PROVE Given(E, sq)
  BY <1>1 DEF Given, Event, TypeOK
<1>2. QueueGiven(sq)
  BY DEF AllGiven, QueueGiven, TypeOK
<1>3. PostsGiven(sq)
  BY <1>1 DEF AllGiven, PostsGiven, TypeOK, Post
<1>4. NetGiven(sq)
  BY <1>1 DEF AllGiven, NetGiven, TypeOK, Request
<1>5. SpoolGiven(spool, sq)
  BY <1>1 DEF AllGiven, SpoolGiven, TypeOK, File
<1>6. Given(stored, sq) /\ LostGiven(sq)
  BY <1>1 DEF AllGiven, LostGiven, TypeOK
<1> QED BY <1>2, <1>3, <1>4, <1>5, <1>6 DEF AllGiven

\* Numbers are handed out one at a time, from setup on.
LEMMA SeqGrows ==
  ASSUME NumInv, [Next]_vars
  PROVE  /\ \A q \in Procs : seq[q] <= seq'[q]
         /\ \A q \in Procs : pc'[q] = "off" <=> seq'[q] = 0
<1>1. /\ seq \in [Procs -> Nat] /\ pc \in [Procs -> {"off", "running", "flushed", "closing", "leaving", "exited"}]
      /\ \A q \in Procs : pc[q] = "off" <=> seq[q] = 0
  BY DEF NumInv, IInv, TypeOK, Numbered
<1>2. CASE UNCHANGED << pc, seq >>
  BY <1>1, <1>2
<1>3. ASSUME NEW p \in Procs, ProcNext(p), ~UNCHANGED << pc, seq >>
      PROVE  \/ /\ pc[p] # "off" /\ seq' = [seq EXCEPT ![p] = @ + 1]
                /\ \/ pc' = pc \/ pc' = [pc EXCEPT ![p] = "closing"] \/ pc' = [pc EXCEPT ![p] = "leaving"]
             \/ /\ pc[p] # "off" /\ seq' = seq
                /\ \/ pc' = [pc EXCEPT ![p] = "flushed"] \/ pc' = [pc EXCEPT ![p] = "leaving"]
                   \/ pc' = [pc EXCEPT ![p] = "exited"]
             \/ pc[p] = "off" /\ seq' = [seq EXCEPT ![p] = 1] /\ pc' = [pc EXCEPT ![p] = "running"]
  <2>1. CASE Setup(p)
    BY <2>1 DEF Setup
  <2>2. CASE Emit(p)
    BY <2>2 DEF Emit, Running
  <2>3. CASE Shutdown(p)
    BY <2>3 DEF Shutdown, Running
  <2>4. CASE SyncBatch(p) \/ SpoolEnd(p) \/ SyncEnd(p)
    BY <2>4 DEF SyncBatch, SpoolEnd, SyncEnd
  <2>5. CASE Exit(p) \/ Crash(p)
    BY <2>5 DEF Exit, Crash, Gone, Idle, Alive
  <2>6. CASE FlushTimer(p) \/ RetryTimer(p) \/ Pause(p) \/ Resume(p) \/ CloseFile(p)
    BY <1>3, <2>6 DEF FlushTimer, RetryTimer, Pause, Resume, CloseFile, client
  <2> QED BY <1>3, <2>1, <2>2, <2>3, <2>4, <2>5, <2>6 DEF ProcNext
<1>4. ASSUME NEW p \in Procs, ProcNext(p), ~UNCHANGED << pc, seq >>
      PROVE  /\ \A q \in Procs : seq[q] <= seq'[q]
             /\ \A q \in Procs : pc'[q] = "off" <=> seq'[q] = 0
  BY <1>1, <1>3, <1>4
<1>5. ASSUME NEW s \in Slots, Callback(s) PROVE UNCHANGED << pc, seq >>
  BY <1>5 DEF Callback, StartOk, StartFailed, FlushOk, FlushFailed, RetryOk, RetryFailed, client
<1>6. ASSUME NEW r \in net, NetNext(r) PROVE UNCHANGED << pc, seq >>
  BY <1>6 DEF NetNext, Handle, Drop, ReplyLost, TimeOut, client
<1>7. CASE UNCHANGED vars
  BY <1>2, <1>7 DEF vars, client
<1> QED BY <1>2, <1>4, <1>5, <1>6, <1>7 DEF Next

\* Every step keeps the numbers.
LEMMA NumberedStep ==
  ASSUME NumInv, [Next]_vars
  PROVE  Numbered'
<1>1. IInv /\ TypeOK /\ AllGiven(seq) /\ seq \in [Procs -> Nat]
  BY DEF NumInv, Numbered, IInv, TypeOK
<1>2. \A q \in Procs : seq[q] <= seq'[q]
  BY SeqGrows
<1>3. \A q \in Procs : pc'[q] = "off" <=> seq'[q] = 0
  BY SeqGrows
<1>4. TypeOK'
  BY <1>1, NextIInv DEF IInv
<1>5. PICK sq \in [Procs -> Nat] : sq = seq'
  BY <1>4 DEF TypeOK
<1>6. AllGiven(sq)
  BY <1>1, <1>2, <1>5, NumbersStay
<1>7. AllGiven(sq)'
  <2>1. ASSUME NEW p \in Procs, ProcNext(p) PROVE AllGiven(sq)'
    <3>1. CASE Setup(p)
      <4>1. 1 \in 1 .. sq[p]
        BY <1>1, <1>5, <3>1 DEF Setup
      <4> QED BY <1>1, <1>6, <3>1, <4>1, SetupNumbered
    <3>2. CASE Emit(p)
      <4>1. seq[p] + 1 \in 1 .. sq[p]
        BY <1>1, <1>5, <3>2 DEF Emit
      <4> QED BY <1>1, <1>6, <3>2, <4>1, TimersNumbered
    <3>3. CASE FlushTimer(p) \/ RetryTimer(p) \/ Shutdown(p) \/ Pause(p) \/ Resume(p)
      BY <1>1, <1>6, <3>3, TimersNumbered
    <3>4. CASE CloseFile(p)
      BY <1>1, <1>6, <3>4, CloseFileNumbered
    <3>5. CASE SyncBatch(p)
      <4>1. seq[p] + 1 \in 1 .. sq[p]
        BY <1>1, <1>5, <3>5 DEF SyncBatch
      <4> QED BY <1>1, <1>6, <3>5, <4>1, SyncBatchNumbered
    <3>6. CASE SyncEnd(p)
      <4>1. seq[p] # 0 /\ seq'[p] = seq[p]
        BY <3>6 DEF SyncEnd, NumInv, Numbered
      <4>2. seq[p] \in 1 .. sq[p]
        BY <1>1, <1>5, <4>1
      <4> QED BY <1>1, <1>6, <3>6, <4>2, SyncEndNumbered
    <3>7. CASE SpoolEnd(p)
      <4>1. seq[p] + 1 \in 1 .. sq[p]
        BY <1>1, <1>5, <3>7 DEF SpoolEnd
      <4> QED BY <1>1, <1>6, <3>7, <4>1, SpoolEndNumbered
    <3>8. CASE Exit(p) \/ Crash(p)
      BY <1>1, <1>6, <3>8, GoneNumbered DEF Exit, Crash
    <3> QED BY <2>1, <3>1, <3>2, <3>3, <3>4, <3>5, <3>6, <3>7, <3>8 DEF ProcNext
  <2>2. ASSUME NEW s \in Slots, Callback(s) PROVE AllGiven(sq)'
    BY <1>1, <1>6, <2>2, CallbackNumbered
  <2>3. ASSUME NEW r \in net, NetNext(r) PROVE AllGiven(sq)'
    BY <1>1, <1>6, <2>3, NetNumbered
  <2>4. CASE UNCHANGED vars
    BY <1>6, <2>4, Unmoved DEF AllGiven, vars, client, server
  <2> QED BY <2>1, <2>2, <2>3, <2>4 DEF Next
<1>8. AllGiven(seq)'
  BY <1>5, <1>7 DEF AllGiven, QueueGiven, PostsGiven, NetGiven, SpoolGiven, LostGiven, Given
<1> QED BY <1>3, <1>8 DEF Numbered

-----------------------------------------------------------------------------
(* What a step holds afterwards and has known before, it held before.      *)

\* When files only disappear, what is spooled was spooled.
LEMMA SpooledBefore ==
  ASSUME NEW e, Spooled(e)',
         \A f \in Files : spool'[f] = spool[f] \/ spool'[f] = NoFile,
         \A p \in Procs : writing'[p] = writing[p] \/ writing'[p] \notin Files
  PROVE  Spooled(e)
<1>1. PICK f \in Files : /\ spool'[f] # NoFile /\ spool'[f].kind = "events"
                         /\ e \in spool'[f].events
                         /\ spool'[f].whole \/ f \in BeingWritten'
  BY DEF Spooled
<1>2. f \in BeingWritten' => f \in BeingWritten
  BY DEF BeingWritten
<1> QED BY <1>1, <1>2 DEF Spooled

\* When no flush is posted, what is posted was posted.
LEMMA PostedBefore ==
  ASSUME NEW e, Posted(e)',
         \A s \in Slots : posts'[s] # NoPost /\ posts'[s].kind = "flush" =>
           posts[s] # NoPost /\ posts[s].kind = "flush" /\ posts'[s].events = posts[s].events
  PROVE  Posted(e)
BY DEF Posted

\* A retry posts no queued events and only removes files.
LEMMA RetryBefore ==
  ASSUME TypeOK, NEW sp \in SpoolType, NEW list \in SUBSET Files, NEW p, NEW s \in Slots,
         \A f \in Files : sp[f] = spool[f] \/ sp[f] = NoFile,
         RetryNext(p, sp, list, s), UNCHANGED << queue, writing >>,
         NEW e, Held(e)'
  PROVE  Held(e)
<1>1. RetryPost(p, sp, list).kind = "retry"
  BY DEF RetryPost
<1>2. \A t \in Slots : posts'[t] # NoPost /\ posts'[t].kind = "flush" => posts'[t] = posts[t]
  BY <1>1 DEF RetryNext, TypeOK
<1>3. Posted(e)' => Posted(e)
  BY <1>2, PostedBefore
<1>4. \A f \in Files : spool'[f] = spool[f] \/ spool'[f] = NoFile
  BY DEF RetryNext, DropCorrupt, Without
<1>5. Spooled(e)' => Spooled(e)
  BY <1>4, SpooledBefore
<1> QED BY <1>3, <1>5 DEF Held, Queued

\* A flush posts what was queued.
LEMMA FlushBefore ==
  ASSUME TypeOK, NEW p \in Procs, NEW evs, FlushNow(p, evs),
         UNCHANGED << spool, writing >>,
         NEW e \in Event, e \in evs => e \in queue[e[1]], Held(e)'
  PROVE  Held(e)
<1>1. PICK s \in FreeSlots :
         /\ queue' = [queue EXCEPT ![p] = {}]
         /\ posts' = [posts EXCEPT ![s] = NewPost(p, "flush", evs, url[p])]
  BY Zenon DEF FlushNow
<1>2. NewPost(p, "flush", evs, url[p]).events = evs
  BY DEF NewPost
<1>3. Posted(e)' => Posted(e) \/ e \in evs
  BY <1>1, <1>2 DEF Posted, TypeOK
<1>4. Spooled(e)' => Spooled(e)
  BY SpooledBefore
<1>5. Queued(e)' => Queued(e)
  BY <1>1 DEF Queued, TypeOK, Event
<1> QED BY <1>3, <1>4, <1>5 DEF Held, Queued

\* A file that is opened holds the given events, if it is a batch.
LEMMA NewFileBefore ==
  ASSUME TypeOK, NEW p \in Procs, NEW kind, NEW path, NEW evs, NewFile(p, kind, path, evs),
         NEW e, kind = "events" => e \notin evs, Spooled(e)'
  PROVE  Spooled(e)
<1> DEFINE new == [kind |-> kind, path |-> path, events |-> evs, whole |-> FALSE]
<1>1. new.kind = kind /\ new.events = evs
  OBVIOUS
<1>2. /\ spool' = [spool EXCEPT ![nextFile + 1] = new]
      /\ writing' = [writing EXCEPT ![p] = nextFile + 1]
  BY DEF NewFile
<1> HIDE DEF new
<1>3. PICK f \in Files : /\ spool'[f] # NoFile /\ spool'[f].kind = "events"
                         /\ e \in spool'[f].events
                         /\ spool'[f].whole \/ f \in BeingWritten'
  BY DEF Spooled
<1>4. f # nextFile + 1
  BY <1>1, <1>2, <1>3 DEF TypeOK
<1>5. spool'[f] = spool[f]
  BY <1>2, <1>4 DEF TypeOK
<1>6. f \in BeingWritten' => f \in BeingWritten
  BY <1>2, <1>4 DEF BeingWritten, TypeOK
<1> QED BY <1>3, <1>5, <1>6 DEF Spooled

\* A write that fails leaves fewer files.
LEMMA WriteFailsBefore ==
  ASSUME NEW evs, NEW cost, NEW over, WriteFails(evs, cost, over), NEW e, Spooled(e)'
  PROVE  Spooled(e)
<1>1. /\ \A f \in Files : spool'[f] = spool[f] \/ spool'[f] = NoFile
      /\ writing' = writing
  BY DEF WriteFails, Without
<1> QED BY <1>1, SpooledBefore

\* A file that is closed was spooled while it was being written.
LEMMA CloseFileBefore ==
  ASSUME TypeOK, NEW p \in Procs, CloseFile(p), NEW e, Held(e)'
  PROVE  Held(e)
<1> DEFINE f == writing[p]
           closed == [spool EXCEPT ![f].whole = TRUE]
<1>1. f \in Files /\ f \in BeingWritten
  BY DEF TypeOK, CloseFile, BeingWritten
<1>2. UNCHANGED << queue, posts >>
  BY DEF CloseFile
<1>3. writing' = [writing EXCEPT ![p] = 0] /\ 0 \notin Files
  BY DEF CloseFile, Files
<1>4. BeingWritten' \subseteq BeingWritten
  BY <1>3 DEF BeingWritten, TypeOK
<1>5. \A g \in Files : closed[g] = IF g = f THEN [spool[f] EXCEPT !.whole = TRUE] ELSE spool[g]
  BY <1>1 DEF TypeOK
<1>6. spool[f] # NoFile =>
        /\ [spool[f] EXCEPT !.whole = TRUE].events = spool[f].events
        /\ [spool[f] EXCEPT !.whole = TRUE].kind = spool[f].kind
  BY <1>1 DEF TypeOK, File
<1>7. spool' = spool \/ (spool[f] # NoFile /\ \E over : spool' = Without(closed, over))
  BY Zenon DEF CloseFile
<1> HIDE DEF f, closed
<1>8. \A g \in Files \ {f} : spool'[g] = spool[g] \/ spool'[g] = NoFile
  BY <1>5, <1>7 DEF Without
<1>9. \/ spool'[f] = spool[f] \/ spool'[f] = NoFile
      \/ /\ spool[f] # NoFile
         /\ spool'[f].events = spool[f].events /\ spool'[f].kind = spool[f].kind
  BY Zenon, <1>1, <1>5, <1>6, <1>7 DEF Without
<1>10. Spooled(e)' => Spooled(e)
  BY <1>1, <1>4, <1>8, <1>9 DEF Spooled
<1> QED BY <1>2, <1>10 DEF Held, Queued, Posted

\* The end of a process leaves less to hold.
LEMMA GoneBefore ==
  ASSUME TypeOK, NEW p \in Procs, Gone(p), NEW e, Held(e)'
  PROVE  Held(e)
<1>1. /\ queue' = [queue EXCEPT ![p] = {}] /\ writing' = [writing EXCEPT ![p] = 0]
      /\ spool' = spool /\ \A s \in Slots : posts'[s] = posts[s] \/ posts'[s] = NoPost
  BY DEF Gone
<1>2. \A q \in Procs : writing'[q] = writing[q] \/ writing'[q] \notin Files
  BY <1>1 DEF TypeOK, Files
<1>3. Spooled(e)' => Spooled(e)
  BY <1>1, <1>2, SpooledBefore
<1>4. Posted(e)' => Posted(e)
  BY <1>1, PostedBefore
<1>5. queue'[e[1]] = queue[e[1]] \/ queue'[e[1]] = {} \/ e[1] \notin Procs
  BY <1>1 DEF TypeOK
<1>6. Queued(e)' => Queued(e)
  BY <1>1, <1>5 DEF Queued, TypeOK
<1> QED BY <1>3, <1>4, <1>6 DEF Held

\* The event session_start is new.
LEMMA SetupBefore ==
  ASSUME NumInv, NEW p \in Procs, Setup(p), NEW e \in Event, e[2] \in 1 .. seq[e[1]], Held(e)'
  PROVE  Held(e)
<1>1. TypeOK /\ seq[p] = 0
  BY DEF NumInv, IInv, Numbered, Setup
<1>2. e[1] # p
  BY <1>1
<1>3. Queued(e)' => Queued(e)
  <2>1. queue' = [queue EXCEPT ![p] = {<< p, 1 >>}]
    BY DEF Setup
  <2> QED BY <1>1, <1>2, <2>1 DEF Queued, TypeOK, Event
<1>4. \A f \in Files : spool'[f] = spool[f] \/ spool'[f] = NoFile
  BY DEF Setup, DropCorrupt, Without
<1>5. Spooled(e)' => Spooled(e)
  BY <1>4, SpooledBefore DEF Setup
<1>6. NewPost(p, "start", {}, url'[p]).kind = "start" /\ RetryPost(p, spool, Present).kind = "retry"
  BY DEF NewPost, RetryPost
<1>7. PICK s \in FreeSlots, t \in FreeSlots, np \in {RetryPost(p, spool, Present), NoPost} :
        posts' = [posts EXCEPT ![s] = NewPost(p, "start", {}, url'[p]), ![t] = np]
  BY Zenon DEF Setup
<1>8. \A u \in Slots : posts'[u] # NoPost /\ posts'[u].kind = "flush" => posts'[u] = posts[u]
  BY <1>1, <1>6, <1>7 DEF TypeOK
<1>9. Posted(e)' => Posted(e)
  BY <1>8, PostedBefore
<1> QED BY <1>3, <1>5, <1>9 DEF Held

\* M.emit adds a new event, and a flush moves old ones.
LEMMA TimersBefore ==
  ASSUME NumInv, NEW p \in Procs, NEW e \in Event, e[2] \in 1 .. seq[e[1]], Held(e)',
         Emit(p) \/ FlushTimer(p) \/ RetryTimer(p) \/ Shutdown(p) \/ Pause(p) \/ Resume(p)
  PROVE  Held(e)
<1>1. TypeOK /\ spool \in SpoolType /\ QueueGiven(seq)
  BY DEF NumInv, IInv, TypeOK, SpoolType, Numbered, AllGiven
<1>2. e \in queue[p] => e \in queue[e[1]]
  BY <1>1 DEF QueueGiven
<1>3. CASE RetryTimer(p)
  <2>1. PICK s \in FreeSlots : RetryNext(p, spool, Present, s)
    BY <1>3 DEF RetryTimer
  <2>2. s \in Slots /\ Present \in SUBSET Files
    BY DEF FreeSlots, Present
  <2>3. UNCHANGED << queue, writing >>
    BY <1>3 DEF RetryTimer, client
  <2> QED BY <1>1, <2>1, <2>2, <2>3, RetryBefore
<1>4. CASE UNCHANGED << queue, posts, spool, writing >>
  BY <1>4 DEF Held, Queued, Posted, Spooled, BeingWritten
<1>5. CASE FlushTimer(p)
  BY <1>1, <1>2, <1>5, FlushBefore DEF FlushTimer
<1>6. CASE Shutdown(p)
  <2>1. CASE UNCHANGED << queue, posts, net >>
    BY <1>4, <1>6, <2>1 DEF Shutdown
  <2>2. CASE FlushNow(p, queue[p])
    BY <1>1, <1>2, <1>6, <2>2, FlushBefore DEF Shutdown
  <2> QED BY <1>6, <2>1, <2>2 DEF Shutdown
<1>7. CASE Pause(p) \/ Resume(p)
  BY <1>4, <1>7 DEF Pause, Resume
<1>8. CASE Emit(p)
  <2> DEFINE env == << p, seq[p] + 1 >>
  <2>1. e # env
    BY <1>1 DEF TypeOK
  <2>2. UNCHANGED << spool, writing >>
        /\ (\/ FlushNow(p, queue[p] \cup {env})
            \/ queue' = [queue EXCEPT ![p] = queue[p] \cup {env}] /\ UNCHANGED << posts, net >>)
    BY <1>8 DEF Emit
  <2> HIDE DEF env
  <2>3. e \in queue[p] \cup {env} => e \in queue[e[1]]
    BY <1>2, <2>1
  <2>4. CASE FlushNow(p, queue[p] \cup {env})
    BY <1>1, <2>2, <2>3, <2>4, FlushBefore
  <2>5. CASE queue' = [queue EXCEPT ![p] = queue[p] \cup {env}] /\ UNCHANGED << posts, net >>
    <3>1. Queued(e)' => Queued(e)
      BY <1>1, <2>1, <2>5 DEF Queued, TypeOK, Event
    <3> QED BY <2>2, <2>5, <3>1 DEF Held, Posted, Spooled, BeingWritten
  <2> QED BY <2>2, <2>4, <2>5
<1> QED BY <1>3, <1>5, <1>6, <1>7, <1>8

\* The event session_end is new.
LEMMA SyncBefore ==
  ASSUME NumInv, NEW p \in Procs, NEW e \in Event, e[2] \in 1 .. seq[e[1]], Held(e)',
         SyncBatch(p) \/ SyncEnd(p) \/ SpoolEnd(p)
  PROVE  Held(e)
<1>1. TypeOK
  BY DEF NumInv, IInv
<1>2. UNCHANGED << queue, posts >>
  BY DEF SyncBatch, SyncEnd, SpoolEnd
<1>3. Queued(e)' => Queued(e)
  BY <1>2 DEF Queued
<1>4. Posted(e)' => Posted(e)
  BY <1>2 DEF Posted
<1>5. e # << p, seq[p] + 1 >>
  BY <1>1 DEF TypeOK
<1>6. CASE UNCHANGED << spool, writing >>
  BY <1>3, <1>4, <1>6 DEF Held, Spooled, BeingWritten
<1>7. ASSUME NEW kind, NEW path, NEW evs, kind = "events" => e \notin evs,
             NewFile(p, kind, path, evs)
      PROVE  Held(e)
  <2>1. Spooled(e)' => Spooled(e)
    BY <1>1, <1>7, NewFileBefore
  <2> QED BY <1>3, <1>4, <2>1 DEF Held
<1>8. ASSUME NEW evs, NEW cost, WriteFails(evs, cost, {})
      PROVE  Held(e)
  <2>1. Spooled(e)' => Spooled(e)
    BY <1>8, WriteFailsBefore
  <2> QED BY <1>3, <1>4, <2>1 DEF Held
<1>9. CASE SyncBatch(p)
  <2>1. \/ UNCHANGED << spool, writing >>
        \/ NewFile(p, "events", "batch", {<< p, seq[p] + 1 >>})
        \/ WriteFails({<< p, seq[p] + 1 >>}, 1, {})
    BY <1>9 DEF SyncBatch, OpenFile
  <2>2. e \notin {<< p, seq[p] + 1 >>}
    BY <1>5
  <2> QED BY <1>6, <1>7, <1>8, <2>1, <2>2
<1>10. CASE SyncEnd(p)
  <2>1. \/ UNCHANGED << spool, writing >>
        \/ NewFile(p, "session", "end", {<< p, seq[p] >>})
        \/ WriteFails({}, 1, {})
    BY <1>10 DEF SyncEnd, OpenFile
  <2> QED BY <1>6, <1>7, <1>8, <2>1
<1>11. CASE SpoolEnd(p)
  <2>1. NewFile(p, "session", "end", {<< p, seq[p] + 1 >>})
    BY <1>11 DEF SpoolEnd
  <2> QED BY <1>7, <2>1
<1> QED BY <1>9, <1>10, <1>11

\* A failed batch goes from its post to the spool.
LEMMA CallbackBefore ==
  ASSUME NumInv, NEW s \in Slots, Callback(s), NEW e, Held(e)'
  PROVE  Held(e)
<1>1. TypeOK /\ spool \in SpoolType
  BY DEF NumInv, IInv, TypeOK, SpoolType
<1>2. posts[s] # NoPost /\ posts[s] \in Post /\ queue' = queue
  BY <1>1 DEF Callback, StartOk, StartFailed, FlushOk, FlushFailed, RetryOk, RetryFailed, Done,
       TypeOK, client
<1>3. Queued(e)' => Queued(e)
  BY <1>2 DEF Queued
<1>4. Free(s) => (Posted(e)' => Posted(e))
  BY <1>1 DEF Free, Posted, TypeOK
<1>5. CASE StartOk(s) \/ RetryFailed(s)
  <2>1. Free(s) /\ UNCHANGED << spool, writing >>
    BY <1>5 DEF StartOk, RetryFailed, client
  <2> QED BY <1>3, <1>4, <2>1 DEF Held, Spooled, BeingWritten
<1>6. CASE StartFailed(s)
  <2>1. /\ Free(s)
        /\ NewFile(posts[s].proc, "session", "start", {}) \/ WriteFails({}, 0, {})
    BY <1>6 DEF StartFailed, OpenFile
  <2>2. Spooled(e)' => Spooled(e)
    BY <1>1, <1>2, <2>1, NewFileBefore, WriteFailsBefore DEF Post
  <2> QED BY <1>3, <1>4, <2>1, <2>2 DEF Held
<1>7. CASE FlushFailed(s)
  <2>1. /\ Free(s) /\ posts[s].kind = "flush"
        /\ \/ NewFile(posts[s].proc, "events", "batch", posts[s].events)
           \/ WriteFails(posts[s].events, 0, OverCap(spool))
    BY <1>7 DEF FlushFailed, OpenFile, Done
  <2>2. CASE e \in posts[s].events
    BY <1>2, <2>1, <2>2 DEF Held, Posted
  <2>3. CASE e \notin posts[s].events
    <3>1. Spooled(e)' => Spooled(e)
      BY <1>1, <1>2, <2>1, <2>3, NewFileBefore, WriteFailsBefore DEF Post
    <3> QED BY <1>3, <1>4, <2>1, <3>1 DEF Held
  <2> QED BY <2>2, <2>3
<1>8. CASE FlushOk(s)
  <2>1. Present \in SUBSET Files
    BY DEF Present
  <2> QED BY <1>1, <1>8, <2>1, RetryBefore DEF FlushOk, client
<1>9. CASE RetryOk(s)
  <2> DEFINE removed == [spool EXCEPT ![posts[s].file] = NoFile]
  <2>1. removed \in SpoolType /\ \A f \in Files : removed[f] = spool[f] \/ removed[f] = NoFile
    BY Zenon, <1>1 DEF SpoolType
  <2>2. RetryNext(posts[s].proc, removed, posts[s].rest, s) /\ UNCHANGED << queue, writing >>
    BY <1>9 DEF RetryOk, client
  <2>3. posts[s].rest \in SUBSET Files
    BY <1>2 DEF Post
  <2> HIDE DEF removed
  <2> QED BY <1>1, <2>1, <2>2, <2>3, RetryBefore
<1> QED BY <1>5, <1>6, <1>7, <1>8, <1>9 DEF Callback

\* The network holds no copies that count.
LEMMA NetBefore ==
  ASSUME NumInv, NEW r \in net, NetNext(r), NEW e, Held(e)'
  PROVE  Held(e)
<1>1. TypeOK /\ RequestsOK
  BY DEF NumInv, IInv
<1>2. UNCHANGED << queue, spool, writing >>
  BY DEF NetNext, Handle, Drop, ReplyLost, TimeOut, client
<1>3. PICK outcome : Answered(r, outcome)
  BY DEF NetNext, Handle, Drop, ReplyLost, TimeOut
<1>4. CASE r.from = Late
  BY <1>2, <1>3, <1>4 DEF Answered, Held, Queued, Posted, Spooled, BeingWritten
<1>5. CASE r.from # Late
  <2>1. r.from \in Slots /\ posts[r.from] # NoPost /\ posts[r.from] \in Post
    BY <1>1, <1>5 DEF TypeOK, Request, RequestsOK
  <2>2. posts' = [posts EXCEPT ![r.from] = [posts[r.from] EXCEPT !.status = outcome]]
    BY <1>3, <1>5 DEF Answered
  <2>3. /\ [posts[r.from] EXCEPT !.status = outcome].events = posts[r.from].events
        /\ [posts[r.from] EXCEPT !.status = outcome].kind = posts[r.from].kind
    BY <2>1 DEF Post
  <2>4. \A s \in Slots : posts'[s] # NoPost /\ posts'[s].kind = "flush" =>
          posts[s] # NoPost /\ posts[s].kind = "flush" /\ posts'[s].events = posts[s].events
    BY <1>1, <2>1, <2>2, <2>3 DEF TypeOK
  <2>5. Posted(e)' => Posted(e)
    BY <2>4, PostedBefore
  <2> QED BY <1>2, <2>5 DEF Held, Queued, Spooled, BeingWritten
<1> QED BY <1>4, <1>5

\* An event that has a number and is held was held before the step.
LEMMA HeldBefore ==
  ASSUME NumInv, [Next]_vars, NEW e \in Event, e[2] \in 1 .. seq[e[1]], Held(e)'
  PROVE  Held(e)
<1>1. TypeOK
  BY DEF NumInv, IInv
<1>2. ASSUME NEW p \in Procs, ProcNext(p) PROVE Held(e)
  <2>1. CASE Exit(p) \/ Crash(p)
    BY <1>1, <2>1, GoneBefore DEF Exit, Crash
  <2> QED BY <1>1, <1>2, <2>1, SetupBefore, TimersBefore, CloseFileBefore, SyncBefore DEF ProcNext
<1>3. CASE UNCHANGED vars
  BY <1>3 DEF vars, client, Held, Queued, Posted, Spooled, BeingWritten
<1> QED BY <1>2, <1>3, CallbackBefore, NetBefore DEF Next

\* What is stored or dropped stays so.
LEMMA SettledStays ==
  ASSUME TypeOK, [Next]_vars
  PROVE  SettledKept
<1>1. stored \subseteq stored'
  <2>1. ASSUME NEW r, Serve(r) PROVE stored \subseteq stored'
    BY <2>1, ServeStores
  <2>2. ASSUME NEW r, Unanswered(r) PROVE stored \subseteq stored'
    BY <2>1, <2>2 DEF Unanswered, server
  <2>3. ASSUME NEW p \in Procs, ProcNext(p) PROVE stored \subseteq stored'
    <3>1. CASE SyncBatch(p)
      BY <2>1, <2>2, <3>1 DEF SyncBatch
    <3>2. CASE SyncEnd(p)
      BY <2>1, <2>2, <3>2 DEF SyncEnd
    <3> QED BY <2>3, <3>1, <3>2 DEF ProcNext, Setup, Emit, FlushTimer, RetryTimer, Pause, Resume,
          CloseFile, Shutdown, SpoolEnd, Exit, Crash, Gone, server
  <2>4. ASSUME NEW s \in Slots, Callback(s) PROVE stored \subseteq stored'
    BY <2>4 DEF Callback, StartOk, StartFailed, FlushOk, FlushFailed, RetryOk, RetryFailed, server
  <2>5. ASSUME NEW r \in net, NetNext(r) PROVE stored \subseteq stored'
    BY <2>1, <2>5 DEF NetNext, Handle, Drop, ReplyLost, TimeOut, server
  <2> QED BY <2>3, <2>4, <2>5 DEF Next, vars, server
<1>2. \A c \in Causes : lost[c] \subseteq lost'[c]
  <2> DEFINE Grows == \A c \in Causes : lost[c] \subseteq lost'[c]
  <2>1. lost' = lost => Grows
    OBVIOUS
  <2>2. ASSUME NEW c \in Causes, NEW E, lost' = [lost EXCEPT ![c] = @ \cup E] PROVE Grows
    BY <2>2 DEF TypeOK
  <2>3. ASSUME NEW sp, NEW list, DropCorrupt(sp, list) PROVE Grows
    BY <2>3 DEF DropCorrupt, TypeOK
  <2>4. ASSUME NEW evs, NEW cost, NEW over, WriteFails(evs, cost, over) PROVE Grows
    BY <2>4 DEF WriteFails, TypeOK
  <2>5. ASSUME NEW p \in Procs, ProcNext(p) PROVE Grows
    <3>1. CASE Setup(p) \/ RetryTimer(p)
      BY <2>1, <2>3, <3>1 DEF Setup, RetryTimer, RetryNext
    <3>2. CASE SyncBatch(p)
      BY <2>1, <2>4, <3>2 DEF SyncBatch, OpenFile, TypeOK
    <3>3. CASE SyncEnd(p)
      BY <2>1, <2>4, <3>3 DEF SyncEnd, OpenFile
    <3>4. CASE SpoolEnd(p)
      BY <3>4 DEF SpoolEnd, TypeOK
    <3>5. CASE CloseFile(p)
      BY <3>5 DEF CloseFile, TypeOK
    <3>6. CASE Exit(p) \/ Crash(p)
      BY <3>6 DEF Exit, Crash, Gone, TypeOK
    <3> QED BY <2>1, <2>5, <3>1, <3>2, <3>3, <3>4, <3>5, <3>6 DEF ProcNext, Emit, FlushTimer,
          Pause, Resume, Shutdown
  <2>6. ASSUME NEW s \in Slots, Callback(s) PROVE Grows
    BY <2>1, <2>3, <2>4, <2>6 DEF Callback, StartOk, StartFailed, FlushOk, FlushFailed, RetryOk,
       RetryFailed, RetryNext, OpenFile
  <2>7. ASSUME NEW r \in net, NetNext(r) PROVE Grows
    BY <2>1, <2>7 DEF NetNext, Handle, Drop, ReplyLost, TimeOut
  <2> QED BY <2>1, <2>5, <2>6, <2>7 DEF Next, vars
<1> QED BY <1>1, <1>2 DEF SettledKept

\* The refinement: initial states, steps, behaviours.
LEMMA InitNumInv == Init => NumInv
<1> SUFFICES ASSUME Init PROVE NumInv
  OBVIOUS
<1>1. Numbered
  BY DEF Init, Numbered, AllGiven, QueueGiven, PostsGiven, NetGiven, SpoolGiven, LostGiven, Given
<1> QED BY <1>1, InitIInv DEF NumInv

LEMMA NextNumInv == NumInv /\ [Next]_vars => NumInv'
  BY NextIInv, NumberedStep DEF NumInv

LEMMA InitStore == Init => Store!Init
BY DEF Init, Store!Init, Pending, Dropped, Held, Queued, Posted, Spooled

LEMMA StepStores == NumInv /\ [Next]_vars => [Store!Next]_<< Pending, stored, Dropped >>
<1> SUFFICES ASSUME NumInv, [Next]_vars PROVE Store!Next
  OBVIOUS
<1>1. TypeOK /\ Numbered /\ IInv
  BY DEF NumInv, IInv
<1>2. SettledKept
  BY <1>1, SettledStays
<1>3. stored \subseteq stored' /\ Dropped \subseteq Dropped'
  BY <1>2 DEF SettledKept, Dropped
<1>4. Pending \subseteq Event /\ stored \subseteq Event /\ Dropped \subseteq Event
  BY <1>1 DEF Pending, Dropped, TypeOK, Event
<1>5. ASSUME NEW e \in Event, Held(e) \/ e \in stored \/ e \in Dropped
      PROVE  e[2] \in 1 .. seq[e[1]]
  <2>1. Queued(e) => e[2] \in 1 .. seq[e[1]]
    BY <1>1 DEF Queued, Numbered, AllGiven, QueueGiven, Event
  <2>2. Posted(e) => e[2] \in 1 .. seq[e[1]]
    BY <1>1 DEF Posted, Numbered, AllGiven, PostsGiven, Given
  <2>3. Spooled(e) => e[2] \in 1 .. seq[e[1]]
    BY <1>1 DEF Spooled, Numbered, AllGiven, SpoolGiven, Given
  <2>4. e \in stored \/ e \in Dropped => e[2] \in 1 .. seq[e[1]]
    BY <1>1 DEF Dropped, Numbered, AllGiven, LostGiven, Given
  <2> QED BY <1>5, <2>1, <2>2, <2>3, <2>4 DEF Held
<1>6. ASSUME NEW e \in Pending PROVE e \in Pending' \/ e \in stored' \/ e \in Dropped'
  <2>1. e \in Event /\ e = << e[1], e[2] >> /\ e[1] \in Procs /\ Held(e) /\ e[2] \in 1 .. MaxSeq + 1
    BY <1>4 DEF Pending
  <2>2. e[2] \in 1 .. seq[e[1]]
    BY <1>5, <2>1
  <2>3. seq[e[1]] <= seq'[e[1]]
    BY <2>1, SeqGrows
  <2>4. Accounting' /\ TypeOK'
    BY <1>1, NextIInv DEF IInv
  <2>5. e[2] \in 1 .. seq'[e[1]]
    BY <1>1, <2>1, <2>2, <2>3, <2>4 DEF TypeOK
  <2>6. Held(e)' \/ Settled(e)'
    BY <2>1, <2>4, <2>5 DEF Accounting
  <2> QED BY <2>1, <2>6 DEF Settled, Pending, Dropped
<1>7. ASSUME NEW e \in Pending', e \in Pending \cup stored \cup Dropped PROVE e \in Pending
  <2>1. e \in Event /\ e \in Procs \X (1 .. MaxSeq + 1) /\ Held(e)'
    BY <1>7 DEF Pending, Event
  <2>2. e[2] \in 1 .. seq[e[1]]
    BY <1>5, <1>7, <2>1 DEF Pending
  <2>3. Held(e)
    BY <2>1, <2>2, HeldBefore
  <2> QED BY <2>1, <2>3 DEF Pending
<1> QED BY <1>3, <1>6, <1>7 DEF Store!Next, Store!Known

\* Delivery keeps what EventStore promises: an event becomes pending once, and
\* only being stored or dropped for a known cause ends that, whatever retries,
\* late requests, crashes and other editors do.
THEOREM DeliveryIsAStore == Spec => ImplementsStore
<1>1. Init => NumInv /\ Store!Init
  BY InitNumInv, InitStore
<1>2. NumInv /\ [Next]_vars => NumInv' /\ [Store!Next]_<< Pending, stored, Dropped >>
  BY NextNumInv, StepStores
<1> QED BY <1>1, <1>2, PTL DEF Spec, ImplementsStore, Store!Spec
=============================================================================

-------------------------- MODULE Training_proofs --------------------------
(***************************************************************************)
(* Proofs about Training, for any number of ranks and sessions, any corpus *)
(* and any milestones: the weights match the counters, milestones have     *)
(* snapshots and the reason to stop is true; and ranks that wait for each  *)
(* other wait in the same collective operation unless the deadline, the    *)
(* disk or a failed save told them apart.                                  *)
(***************************************************************************)
EXTENDS Training, Basics_proofs

Places == Collectives \cup Writing \cup Over \cup Alone

\* What the head of the loop decides; the same for all ranks.
GoesOn == counters.steps < plan.target /\ session_tokens < plan.needed

-----------------------------------------------------------------------------
(***************************************************************************)
(* Weights, milestones and reasons.                                        *)
(***************************************************************************)

\* An update trains on blocks the counters have not passed: exact weights stay so.
LEMMA ExactNext ==
  ASSUME NEW c \in Counters, NEW weights \in [Corpus -> Nat], Exact(weights, c),
         c.tokens + BlocksPerUpdate <= Blocks
  PROVE  Exact([b \in Corpus |-> IF b \in c.tokens .. c.tokens + BlocksPerUpdate - 1
                                 THEN weights[b] + 1 ELSE weights[b]],
               [tokens |-> c.tokens + BlocksPerUpdate, steps |-> c.steps + 1])
<1> DEFINE t == c.tokens
           Now == t .. t + BlocksPerUpdate - 1
           w == [b \in Corpus |-> IF b \in Now THEN weights[b] + 1 ELSE weights[b]]
           old == {b \in Corpus : weights[b] > 0}
           new == {b \in Corpus : w[b] > 0}
<1>1. t \in Nat /\ c.steps \in Nat /\ BlocksPerUpdate \in Nat \ {0} /\ Blocks \in Nat
  BY BlocksOK DEF Counters
<1>2. /\ \A b \in old : weights[b] = 1 /\ b < t
      /\ Cardinality(old) = c.steps * BlocksPerUpdate
  BY DEF Exact
<1>3. Now \subseteq Corpus
  BY <1>1 DEF Corpus
<1>4. old \cap Now = {}
  BY <1>1, <1>2 DEF Corpus
<1>5. new = old \cup Now
  BY <1>3
<1>6. IsFiniteSet(Corpus) /\ IsFiniteSet(Now) /\ Cardinality(Now) = BlocksPerUpdate
  <2>1. IsFiniteSet(Corpus)
    BY <1>1, FS_Interval DEF Corpus
  <2>2. t + BlocksPerUpdate - 1 \in Int /\ t \in Int /\ ~ (t > t + BlocksPerUpdate - 1)
        /\ (t + BlocksPerUpdate - 1) - t + 1 = BlocksPerUpdate
    BY <1>1
  <2>3. IsFiniteSet(Now) /\ Cardinality(Now) = (t + BlocksPerUpdate - 1) - t + 1
    BY <2>2, FS_Interval
  <2> QED BY <2>1, <2>2, <2>3
<1>7. IsFiniteSet(old)
  BY <1>6, FS_Subset
<1> HIDE DEF Now, old, new
<1>8. Cardinality(new) = Cardinality(old) + Cardinality(Now)
  <2>1. Cardinality(new) = Cardinality(old) + Cardinality(Now) - Cardinality(old \cap Now)
    BY <1>5, <1>6, <1>7, FS_Union
  <2>2. Cardinality(old \cap Now) = 0
    BY <1>4, FS_EmptySet
  <2>3. Cardinality(old) \in Nat /\ Cardinality(Now) \in Nat
    BY <1>6, <1>7, FS_CardinalityType
  <2> QED BY <2>1, <2>2, <2>3
<1>9. Cardinality(new) = (c.steps + 1) * BlocksPerUpdate
  BY <1>1, <1>2, <1>6, <1>8
<1>10. \A b \in new : w[b] = 1 /\ b < t + BlocksPerUpdate
  <2> TAKE b \in new
  <2>1. b \in Corpus /\ b \in Int
    BY <1>5, <1>3 DEF old, Corpus
  <2>2. CASE b \in Now
    <3>1. weights[b] = 0
      BY <1>4, <2>1, <2>2 DEF old
    <3> QED BY <1>1, <2>1, <2>2, <3>1 DEF Now
  <2>3. CASE b \notin Now
    BY <1>1, <1>2, <1>5, <2>1, <2>3
  <2> QED BY <2>2, <2>3
<1> QED BY <1>9, <1>10 DEF Exact, new, Now

\* Exact weights stay exact when blocks are passed over.
LEMMA ExactLater ==
  ASSUME NEW c \in Counters, NEW weights \in [Corpus -> Nat], Exact(weights, c),
         NEW n \in Nat
  PROVE  Exact(weights, [c EXCEPT !.tokens = @ + n])
<1>1. c.tokens \in Nat /\ [c EXCEPT !.tokens = @ + n].tokens = c.tokens + n
      /\ [c EXCEPT !.tokens = @ + n].steps = c.steps
  BY DEF Counters
<1> QED BY <1>1 DEF Exact, Corpus

\* Weights nothing was trained on are exact for counters at zero.
LEMMA ExactZero == Exact(Untrained, Zero)
<1>1. {b \in Corpus : Untrained[b] > 0} = {}
  BY DEF Untrained
<1> QED BY <1>1, FS_EmptySet, BlocksOK DEF Exact, Zero

-----------------------------------------------------------------------------
\* The plan and how far the session is: the data set holds n updates, k of
\* them are used up, and an overflow uses one up without a step.
PlanOK ==
  /\ plan.start = plan.initial
  /\ plan.start + plan.needed <= Blocks
  /\ \E n, k \in Nat : /\ plan.needed = n * BlocksPerUpdate
                       /\ session_tokens = k * BlocksPerUpdate
                       /\ counters.steps + n + overflows = plan.target + k
                       /\ k <= n

\* Ranks are in an update only when the loop goes on.
UpdateOK == \A r \in Ranks : at[r] = "update" => GoesOn

\* The resume point: its next block is the one its counters are at, and what it saved
\* is the model of a session or cannot be loaded; this session's once it is saved.
ResumeOK ==
  /\ resume = [state |-> resume.state, meta |-> resume.meta]
  /\ resume.meta # NoResume => resume.meta.next_block = resume.meta.counters.tokens
  /\ resume.state = NoModel \/ resume.state \in [Corpus -> Nat]
  /\ /\ at[Main] \in {"vote", "saved"} /\ saw[Main] = "saved"
     /\ plan.mode = "fsdp" => \A r \in Ranks : saw[r] = "saved"
     => resume.state = model

\* A rank takes a snapshot.  It is inside the loop, or past it, when it does.
Saving == {"snapshot", "writing", "evaluate"}
Inside(r) ==
  \/ at[r] \in {"loop", "update", "decide", "agree"}
  \/ at[r] \in Saving /\ todo # {Final}
Leaving(r) ==
  \/ at[r] \in {"gather", "room", "save", "vote", "saved", "finish", "done"}
  \/ at[r] \in Saving /\ todo = {Final}

\* The milestones in hand are crossed ones, or only the final snapshot.
TodoOK ==
  /\ IsFiniteSet(todo)
  /\ todo = {Final} \/ todo \subseteq Milestones
  /\ \A r \in Ranks : /\ at[r] \in {"loop", "update", "decide", "gather"} => todo = {}
                      /\ at[r] \in Saving \cup {"agree"} => todo # {}
                      /\ at[r] = "agree" => todo # {Final}

\* Milestones up to milestone_checked_tokens have their snapshot or are in hand.
CheckedOK ==
  /\ checked <= counters.tokens
  /\ \A r \in Ranks : Inside(r) /\ at[r] \notin {"loop", "update"} => checked = counters.tokens
  /\ at[Main] \in {"evaluate", "agree"} => snapshots[Min(todo)] = "whole"
  /\ \A m \in milestones_crossed(plan.initial, checked) : m \notin todo => snapshots[m] = "whole"

\* The reason is the first one until the loop ends, and a true one after it.
ReasonOK ==
  \A r \in Ranks :
    /\ Inside(r) => reason[r] = "max_tokens"
    /\ Leaving(r) =>
         /\ reason[r] = "corpus_exhausted" => overflows > 0
         /\ reason[r] = "max_tokens" => overflows = 0 /\ counters.steps = plan.target

\* A session with too many overflows in a row is over.
ConsecutiveOK == (\E r \in Ranks : at[r] \notin Over) => consecutive < MaxConsecutive

\* The inductive invariant.
SessionInv ==
  /\ TypeOK /\ PlanOK /\ UpdateOK /\ ResumeOK /\ TodoOK /\ CheckedOK /\ ReasonOK
  /\ ConsecutiveOK /\ WeightsMatchCounters

-----------------------------------------------------------------------------
\* The planned updates fit into the blocks that are left (bounded_optimizer_steps).
LEMMA Steps ==
  ASSUME NEW limit \in Nat, NEW initial \in Nat, NEW available \in Int,
         bounded_optimizer_steps(remaining_tokens(limit, initial), available) > 0
  PROVE  /\ bounded_optimizer_steps(remaining_tokens(limit, initial), available) \in Nat
         /\ bounded_optimizer_steps(remaining_tokens(limit, initial), available)
              * BlocksPerUpdate <= available
<1> DEFINE left == remaining_tokens(limit, initial)
           requested == (left + BlocksPerUpdate - 1) \div BlocksPerUpdate
           fitting == available \div BlocksPerUpdate
           steps == bounded_optimizer_steps(left, available)
<1>1. BlocksPerUpdate \in Nat \ {0}
  BY BlocksOK
<1>2. left \in Int
  <2>1. {0, limit - initial} \subseteq Int /\ {0, limit - initial} # {}
    OBVIOUS
  <2>2. IsFiniteSet({0, limit - initial})
    BY Zenon, PairFinite
  <2> QED BY <2>1, <2>2, MaxIsLargest DEF remaining_tokens
<1>3. requested \in Int /\ fitting \in Int
  BY <1>1, <1>2
<1>4. steps \in Int /\ steps <= fitting
  <2>1. {requested, fitting} \subseteq Int /\ {requested, fitting} # {}
    BY <1>3
  <2>2. IsFiniteSet({requested, fitting})
    BY Zenon, PairFinite
  <2>3. steps = Min({requested, fitting})
    BY DEF bounded_optimizer_steps
  <2> HIDE DEF requested, fitting, steps
  <2> QED BY <2>1, <2>2, <2>3, MinIsSmallest
<1>5. fitting * BlocksPerUpdate <= available
  BY <1>1
<1>6. steps * BlocksPerUpdate <= fitting * BlocksPerUpdate
  <2> HIDE DEF steps, fitting
  <2> QED BY <1>1, <1>3, <1>4
<1>7. steps > 0 /\ steps * BlocksPerUpdate \in Int /\ fitting * BlocksPerUpdate \in Int
  BY <1>1, <1>3, <1>4
<1> QED BY <1>4, <1>5, <1>6, <1>7

\* The types, spelled out.
LEMMA Types ==
  ASSUME SessionInv
  PROVE  /\ at \in [Ranks -> Places] /\ stop \in [Ranks -> BOOLEAN]
         /\ saw \in [Ranks -> {"nothing", "room", "full", "saved", "failed"}]
         /\ reason \in [Ranks -> {"max_tokens", "corpus_exhausted", "wall_deadline",
                               "broad_validation_deterioration"}]
         /\ counters \in Counters /\ counters.tokens \in Nat /\ counters.steps \in Nat
         /\ plan.limit \in Nat /\ plan.initial \in Nat /\ plan.start \in Nat
         /\ plan.target \in Nat /\ plan.needed \in Nat
         /\ overflows \in Nat /\ consecutive \in Nat /\ checked \in Nat
         /\ session_tokens \in Int /\ BlocksPerUpdate \in Nat \ {0} /\ Blocks \in Nat
         /\ model \in [Corpus -> Nat]
         /\ snapshots \in [Milestones \cup {Final} -> {"none", "partial", "whole"}]
  BY BlocksOK DEF SessionInv, TypeOK, Counters, Places, session_tokens

\* A step of one rank, in which only its place and its reason change.
LEMMA RankKeeps ==
  ASSUME SessionInv, NEW r \in Ranks, NEW x \in {"loop", "update", "gather"},
         at[r] \in {"loop", "decide"},
         NEW why \in {"max_tokens", "corpus_exhausted", "wall_deadline",
                      "broad_validation_deterioration"},
         at' = [at EXCEPT ![r] = x], reason' = [reason EXCEPT ![r] = why],
         UNCHANGED << stop, saw, late, counters, plan, overflows, consecutive, checked, model,
                      todo, snapshots, resume, torn, sessions >>,
         x = "update" => GoesOn,
         x # "gather" => why = reason[r],
         x = "gather" /\ why = "corpus_exhausted" => overflows > 0,
         x = "gather" /\ why = "max_tokens" => overflows = 0 /\ counters.steps = plan.target
  PROVE  SessionInv'
<1>1. /\ \A q \in Ranks \ {r} : at'[q] = at[q] /\ reason'[q] = reason[q]
      /\ at'[r] = x /\ reason'[r] = why
  BY Types
<1>2. TypeOK'
  <2>1. at' \in [Ranks -> Collectives \cup Writing \cup Over \cup Alone]
    BY Types DEF Places, Collectives, Alone
  <2>2. reason' \in [Ranks -> {"max_tokens", "corpus_exhausted", "wall_deadline",
                               "broad_validation_deterioration"}]
    BY DEF SessionInv, TypeOK
  <2> QED BY <2>1, <2>2 DEF SessionInv, TypeOK
<1>3. PlanOK'
  BY DEF SessionInv, PlanOK, session_tokens
<1>4. UpdateOK'
  BY <1>1 DEF SessionInv, UpdateOK, GoesOn, session_tokens
<1>5. ResumeOK'
  BY <1>1 DEF SessionInv, ResumeOK
<1>6. TodoOK'
  BY <1>1 DEF SessionInv, TodoOK, Saving
<1>7. CheckedOK'
  BY <1>1 DEF SessionInv, CheckedOK, Inside, Saving
<1>8. ReasonOK'
  BY <1>1 DEF SessionInv, ReasonOK, Inside, Leaving, Saving
<1>9. ConsecutiveOK'
  BY <1>1 DEF SessionInv, ConsecutiveOK, Over
<1>10. WeightsMatchCounters'
  BY <1>1, RanksOK DEF SessionInv, WeightsMatchCounters
<1> QED BY <1>2, <1>3, <1>4, <1>5, <1>6, <1>7, <1>8, <1>9, <1>10 DEF SessionInv

\* A loop that ends by itself did all planned updates, or lost one to an overflow.
LEMMA Ends ==
  ASSUME SessionInv, ~GoesOn
  PROVE  /\ counters.steps < plan.target => overflows > 0
         /\ counters.steps >= plan.target => overflows = 0 /\ counters.steps = plan.target
<1>1. PICK n \in Nat, k \in Nat : /\ plan.needed = n * BlocksPerUpdate
                                  /\ session_tokens = k * BlocksPerUpdate
                                  /\ counters.steps + n + overflows = plan.target + k
                                  /\ k <= n
  BY DEF SessionInv, PlanOK
<1>2. n * BlocksPerUpdate \in Int /\ k * BlocksPerUpdate \in Int
  BY Types
<1>3. k < n => k * BlocksPerUpdate < n * BlocksPerUpdate
  BY Types
<1>4. counters.steps < plan.target => k = n
  BY <1>1, <1>2, <1>3 DEF GoesOn
<1>5. counters.steps \in Nat /\ plan.target \in Nat /\ overflows \in Nat
  BY Types
<1>6. counters.steps + n + overflows = plan.target + k /\ k <= n
  BY <1>1
<1> QED BY <1>4, <1>5, <1>6

\* The head of the loop goes on only while a whole update is left.
LEMMA LoopKeeps ==
  ASSUME SessionInv, NEW r \in Ranks, Loop(r)
  PROVE  SessionInv'
<1> DEFINE x == IF GoesOn THEN "update" ELSE "gather"
           why == IF ~GoesOn /\ counters.steps < plan.target THEN "corpus_exhausted"
                  ELSE reason[r]
<1>1. /\ at[r] = "loop" /\ at' = [at EXCEPT ![r] = x]
      /\ UNCHANGED << stop, saw, late, counters, plan, overflows, consecutive, checked, model,
                      todo, snapshots, resume, torn, sessions >>
  BY DEF Loop, GoesOn, data, disk
<1>2. reason' = [reason EXCEPT ![r] = why]
  BY Types DEF Loop, GoesOn
<1>3. reason[r] = "max_tokens"
  BY <1>1 DEF SessionInv, ReasonOK, Inside
<1>4. why = "corpus_exhausted" => overflows > 0
  BY <1>3, Ends
<1>5. x = "gather" /\ why = "max_tokens" => overflows = 0 /\ counters.steps = plan.target
  BY Ends, Types
<1>6. why \in {"max_tokens", "corpus_exhausted"} /\ (x = "update" => why = reason[r])
      /\ x \in {"update", "gather"} /\ (x = "update" => GoesOn)
  BY <1>3
<1> HIDE DEF x, why
<1> QED BY Zenon, <1>1, <1>2, <1>4, <1>5, <1>6, RankKeeps

\* A rank that leaves the loop here says why.
LEMMA DecideKeeps ==
  ASSUME SessionInv, NEW r \in Ranks, Decide(r)
  PROVE  SessionInv'
<1> DEFINE ends == stop[r] \/ late
           x == IF ends THEN "gather" ELSE "loop"
           why == IF ends THEN IF stop[r] THEN "broad_validation_deterioration"
                                          ELSE "wall_deadline"
                  ELSE reason[r]
<1>1. /\ at[r] = "decide" /\ at' = [at EXCEPT ![r] = x]
      /\ UNCHANGED << stop, saw, late, counters, plan, overflows, consecutive, checked, model,
                      todo, snapshots, resume, torn, sessions >>
  BY DEF Decide, data, disk
<1>2. reason' = [reason EXCEPT ![r] = why]
  BY Types DEF Decide
<1>3. reason[r] = "max_tokens"
  BY <1>1 DEF SessionInv, ReasonOK, Inside
<1>4. x \in {"loop", "gather"} /\ (x = "loop" => why = reason[r])
      /\ (x = "gather" => why \in {"broad_validation_deterioration", "wall_deadline"})
  OBVIOUS
<1> HIDE DEF x, why
<1>5. why \in {"max_tokens", "corpus_exhausted", "wall_deadline",
               "broad_validation_deterioration"}
  BY <1>3, <1>4
<1> QED BY Zenon, <1>1, <1>2, <1>4, <1>5, RankKeeps

\* Ranks that make an update have a whole update's blocks left in the data set.
LEMMA Room ==
  ASSUME SessionInv, Meet("update")
  PROVE  /\ GoesOn /\ Taken = counters.tokens .. counters.tokens + BlocksPerUpdate - 1
         /\ counters.tokens + BlocksPerUpdate <= Blocks
         /\ \E n, k \in Nat : /\ plan.needed = n * BlocksPerUpdate
                              /\ session_tokens + BlocksPerUpdate = k * BlocksPerUpdate
                              /\ counters.steps + n + overflows + 1 = plan.target + k
                              /\ k <= n
<1>1. GoesOn
  BY RanksOK DEF SessionInv, UpdateOK, Meet
<1>2. PICK n \in Nat, k \in Nat : /\ plan.needed = n * BlocksPerUpdate
                                  /\ session_tokens = k * BlocksPerUpdate
                                  /\ counters.steps + n + overflows = plan.target + k
                                  /\ k <= n
  BY DEF SessionInv, PlanOK
<1>3. k < n
  BY <1>1, <1>2 DEF GoesOn
<1>4. /\ (k + 1) * BlocksPerUpdate = k * BlocksPerUpdate + BlocksPerUpdate
      /\ (k + 1) * BlocksPerUpdate <= n * BlocksPerUpdate
  BY <1>3, BlocksOK
<1>5. counters.steps \in Nat /\ plan.target \in Nat /\ overflows \in Nat
  BY Types
<1>6. counters.steps + n + overflows + 1 = plan.target + (k + 1)
  BY <1>2, <1>5
<1>7. /\ k + 1 \in Nat /\ session_tokens + BlocksPerUpdate = (k + 1) * BlocksPerUpdate
      /\ k + 1 <= n
  BY <1>2, <1>3, <1>4
<1>8. plan.start + session_tokens = counters.tokens
  BY Types DEF SessionInv, PlanOK, session_tokens
<1>9. session_tokens + BlocksPerUpdate <= plan.needed
  BY <1>2, <1>4, <1>7
<1>10. counters.tokens + BlocksPerUpdate <= Blocks
  <2>1. plan.start + plan.needed <= Blocks
    BY DEF SessionInv, PlanOK
  <2>2. /\ plan.start \in Nat /\ session_tokens \in Int /\ plan.needed \in Nat /\ Blocks \in Nat
        /\ BlocksPerUpdate \in Nat /\ counters.tokens \in Nat
    BY Types
  <2> QED BY <1>8, <1>9, <2>1, <2>2
<1> QED BY <1>1, <1>2, <1>6, <1>7, <1>8, <1>10 DEF Taken

\* The ranks leave an update together.
LEMMA LeaveUpdate ==
  ASSUME SessionInv, Meet("update"), NEW x \in {"loop", "decide", "snapshot", "dead"}, GoTo(x)
  PROVE  /\ \A r \in Ranks : at[r] = "update" /\ at'[r] = x
         /\ at[Main] = "update" /\ at'[Main] = x
         /\ at' \in [Ranks -> Collectives \cup Writing \cup Over \cup Alone]
         /\ todo = {} /\ \A r \in Ranks : reason[r] = "max_tokens"
         /\ consecutive < MaxConsecutive
<1>1. \A r \in Ranks : at[r] = "update" /\ at'[r] = x
  BY DEF Meet, GoTo
<1>2. at' \in [Ranks -> Collectives \cup Writing \cup Over \cup Alone]
  BY DEF GoTo, Collectives, Over, Alone
<1>3. todo = {}
  BY <1>1, RanksOK DEF SessionInv, TodoOK
<1>4. \A r \in Ranks : reason[r] = "max_tokens"
  BY <1>1 DEF SessionInv, ReasonOK, Inside
<1>5. consecutive < MaxConsecutive
  BY <1>1, RanksOK DEF SessionInv, ConsecutiveOK, Over
<1> QED BY <1>1, <1>2, <1>3, <1>4, <1>5, RanksOK

\* Milestones are crossed by a finite number at a time, the final snapshot is none.
LEMMA CrossedOK ==
  ASSUME NEW a \in Nat, NEW b \in Nat
  PROVE  /\ milestones_crossed(a, b) \subseteq Milestones /\ Final \notin Milestones
         /\ IsFiniteSet(milestones_crossed(a, b))
<1>1. milestones_crossed(a, b) \subseteq 0 .. b
  <2> SUFFICES ASSUME NEW m \in Milestones, m <= b PROVE m \in 0 .. b
    BY DEF milestones_crossed
  <2>1. m \in Nat
    BY LimitsOK
  <2> QED BY <2>1
<1>2. IsFiniteSet(0 .. b)
  BY FS_Interval
<1> QED BY <1>1, <1>2, FS_Subset, LimitsOK DEF milestones_crossed, Final

\* A skipped update uses up its blocks, trains on none, and leaves its milestones for later.
LEMMA SkippedKeeps ==
  ASSUME SessionInv, Skipped
  PROVE  SessionInv'
<1> DEFINE x == IF persistent(consecutive + 1) THEN "dead" ELSE "loop"
           c == [counters EXCEPT !.tokens = @ + BlocksPerUpdate]
<1>1. /\ Meet("update") /\ GoTo(x) /\ counters' = c
      /\ overflows' = overflows + 1 /\ consecutive' = consecutive + 1
      /\ UNCHANGED << stop, reason, saw, late, plan, checked, todo, model, snapshots, resume,
                      torn, sessions >>
  BY DEF Skipped, disk
<1>2. c \in Counters /\ c.tokens = counters.tokens + BlocksPerUpdate /\ c.steps = counters.steps
  BY Types DEF Counters
<1>3. x \in {"dead", "loop"} /\ (x = "loop" => consecutive + 1 < MaxConsecutive)
  BY Types, LimitsOK DEF persistent
<1> HIDE DEF x
<1>4. /\ \A r \in Ranks : at[r] = "update" /\ at'[r] = x
      /\ at[Main] = "update" /\ at'[Main] = x
      /\ at' \in [Ranks -> Collectives \cup Writing \cup Over \cup Alone]
      /\ todo = {} /\ \A r \in Ranks : reason[r] = "max_tokens"
      /\ consecutive < MaxConsecutive
  BY <1>1, <1>3, LeaveUpdate
<1>5. TypeOK'
  <2>1. consecutive' \in 0 .. MaxConsecutive /\ overflows' \in Nat
    BY <1>1, <1>4, Types, LimitsOK
  <2> HIDE DEF c
  <2> QED BY <1>1, <1>2, <1>4, <2>1 DEF SessionInv, TypeOK
<1>6. session_tokens' = session_tokens + BlocksPerUpdate
  BY <1>1, <1>2, Types DEF session_tokens
<1>7. PlanOK'
  <2>1. PICK n \in Nat, k \in Nat : /\ plan.needed = n * BlocksPerUpdate
                                    /\ session_tokens + BlocksPerUpdate = k * BlocksPerUpdate
                                    /\ counters.steps + n + overflows + 1 = plan.target + k
                                    /\ k <= n
    BY <1>1, Room
  <2>2. counters.steps \in Nat /\ overflows \in Nat /\ plan.target \in Nat
    BY Types
  <2>3. /\ plan'.needed = n * BlocksPerUpdate /\ session_tokens' = k * BlocksPerUpdate
        /\ counters'.steps + n + overflows' = plan'.target + k
    BY <1>1, <1>2, <1>6, <2>1, <2>2
  <2>4. plan'.start = plan'.initial /\ plan'.start + plan'.needed <= Blocks
    BY <1>1 DEF SessionInv, PlanOK
  <2> QED BY <2>1, <2>3, <2>4 DEF PlanOK
<1>8. UpdateOK' /\ ResumeOK' /\ TodoOK'
  BY <1>1, <1>3, <1>4, FS_EmptySet, RanksOK
     DEF SessionInv, UpdateOK, ResumeOK, TodoOK, Saving
<1>9. CheckedOK'
  <2>1. checked' <= counters'.tokens
    BY <1>1, <1>2, Types DEF SessionInv, CheckedOK
  <2> QED BY <1>1, <1>3, <1>4, <2>1 DEF SessionInv, CheckedOK, Inside, Saving
<1>10. ReasonOK' /\ ConsecutiveOK'
  BY <1>1, <1>3, <1>4 DEF SessionInv, ReasonOK, ConsecutiveOK, Inside, Leaving, Saving, Over
<1>11. WeightsMatchCounters'
  <2>1. ~torn => Exact(model, c)
    BY Types, ExactLater DEF SessionInv, WeightsMatchCounters
  <2> HIDE DEF c
  <2> QED BY <1>1, <1>4, <2>1 DEF SessionInv, WeightsMatchCounters
<1> QED BY <1>5, <1>7, <1>8, <1>9, <1>10, <1>11 DEF SessionInv

\* An update trains on its blocks and hands over every milestone passed since the last one.
LEMMA AppliedKeeps ==
  ASSUME SessionInv, Applied
  PROVE  SessionInv'
<1> DEFINE tokens == counters.tokens + BlocksPerUpdate
           c == [tokens |-> tokens, steps |-> counters.steps + 1]
           w == [b \in Corpus |-> IF b \in Taken THEN model[b] + 1 ELSE model[b]]
           crossed == milestones_crossed(checked, tokens)
           x == IF crossed = {} THEN "decide" ELSE "snapshot"
<1>1. /\ Meet("update") /\ GoTo(x) /\ counters' = c /\ model' = w
      /\ consecutive' = 0 /\ todo' = crossed /\ checked' = tokens
      /\ UNCHANGED << stop, reason, saw, late, plan, overflows, snapshots, resume, torn, sessions >>
  BY DEF Applied, disk
<1>2. c \in Counters /\ c.tokens = tokens /\ c.steps = counters.steps + 1 /\ tokens \in Nat
  BY Types DEF Counters
<1>3. x \in {"decide", "snapshot"} /\ (x = "decide" <=> crossed = {})
  OBVIOUS
<1>4. /\ crossed \subseteq Milestones /\ Final \notin Milestones /\ IsFiniteSet(crossed)
  BY <1>2, Types, CrossedOK
<1>5. w \in [Corpus -> Nat]
  BY Types
<1>6. /\ Taken = counters.tokens .. counters.tokens + BlocksPerUpdate - 1 /\ tokens <= Blocks
      /\ \E n, k \in Nat : /\ plan.needed = n * BlocksPerUpdate
                           /\ session_tokens + BlocksPerUpdate = k * BlocksPerUpdate
                           /\ counters.steps + n + overflows + 1 = plan.target + k
                           /\ k <= n
  BY <1>1, Room
<1>7. ~torn => Exact(w, c)
  BY Zenon, <1>6, Types, ExactNext DEF SessionInv, WeightsMatchCounters
<1>8. checked <= tokens /\ milestones_crossed(plan.initial, tokens)
        \subseteq milestones_crossed(plan.initial, checked) \cup crossed
  <2>1. checked <= counters.tokens /\ counters.tokens <= tokens
    BY Types DEF SessionInv, CheckedOK
  <2>2. checked \in Nat /\ counters.tokens \in Nat
    BY Types
  <2>3. \A m \in Milestones : m \in Nat
    BY LimitsOK
  <2>4. \A m \in Milestones : plan.initial < m /\ m <= tokens /\ ~ (m <= checked) => checked < m
    BY <2>2, <2>3
  <2> QED BY <1>2, <2>1, <2>2, <2>4 DEF milestones_crossed
<1> HIDE DEF x, crossed, w, c, tokens
<1>9. /\ \A r \in Ranks : at[r] = "update" /\ at'[r] = x
      /\ at[Main] = "update" /\ at'[Main] = x
      /\ at' \in [Ranks -> Collectives \cup Writing \cup Over \cup Alone]
      /\ todo = {} /\ \A r \in Ranks : reason[r] = "max_tokens"
      /\ consecutive < MaxConsecutive
  BY <1>1, <1>3, LeaveUpdate
<1>10. TypeOK'
  <2>1. consecutive' \in 0 .. MaxConsecutive
    BY <1>1, LimitsOK
  <2> QED BY <1>1, <1>2, <1>4, <1>5, <1>9, <2>1 DEF SessionInv, TypeOK
<1>11. session_tokens' = session_tokens + BlocksPerUpdate
  BY <1>1, <1>2, Types DEF session_tokens, tokens
<1>12. PlanOK'
  <2>1. PICK n \in Nat, k \in Nat : /\ plan.needed = n * BlocksPerUpdate
                                    /\ session_tokens + BlocksPerUpdate = k * BlocksPerUpdate
                                    /\ counters.steps + n + overflows + 1 = plan.target + k
                                    /\ k <= n
    BY <1>6
  <2>2. counters.steps \in Nat /\ overflows \in Nat /\ plan.target \in Nat
    BY Types
  <2>3. /\ plan'.needed = n * BlocksPerUpdate /\ session_tokens' = k * BlocksPerUpdate
        /\ counters'.steps + n + overflows' = plan'.target + k
    BY <1>1, <1>2, <1>11, <2>1, <2>2
  <2>4. plan'.start = plan'.initial /\ plan'.start + plan'.needed <= Blocks
    BY <1>1 DEF SessionInv, PlanOK
  <2> QED BY <2>1, <2>3, <2>4 DEF PlanOK
<1>13. UpdateOK' /\ ResumeOK'
  BY <1>1, <1>3, <1>9 DEF SessionInv, UpdateOK, ResumeOK
<1>14. TodoOK'
  BY <1>1, <1>3, <1>4, <1>9 DEF TodoOK, Saving, Final
<1>15. CheckedOK'
  BY <1>1, <1>2, <1>3, <1>8, <1>9 DEF SessionInv, CheckedOK, Inside, Saving
<1>16. ReasonOK'
  BY <1>1, <1>3, <1>4, <1>9 DEF ReasonOK, Inside, Leaving, Saving, Final
<1>17. ConsecutiveOK'
  BY <1>1, LimitsOK DEF ConsecutiveOK
<1>18. WeightsMatchCounters'
  BY <1>1, <1>7, <1>9 DEF SessionInv, WeightsMatchCounters
<1> QED BY <1>10, <1>12, <1>13, <1>14, <1>15, <1>16, <1>17, <1>18 DEF SessionInv

\* The milestone in hand is one of those to do, and the earliest.
LEMMA NextMilestone ==
  ASSUME SessionInv, todo # {}
  PROVE  /\ Min(todo) \in todo /\ Min(todo) \in Milestones \cup {Final}
         /\ todo # {Final} => todo \subseteq Milestones /\ Min(todo) # Final
<1>1. IsFiniteSet(todo) /\ (todo = {Final} \/ todo \subseteq Milestones)
  BY DEF SessionInv, TodoOK
<1>2. todo \subseteq Int
  <2>1. \A m \in Milestones \cup {Final} : m \in Int
    BY LimitsOK DEF Final
  <2> QED BY <1>1, <2>1
<1>3. Min(todo) \in todo
  BY Zenon, <1>1, <1>2, MinIsSmallest
<1> QED BY <1>1, <1>3, LimitsOK DEF Final

\* A snapshot begins: the main rank will write it, the others wait.
LEMMA SnapshotKeeps ==
  ASSUME SessionInv, Snapshot
  PROVE  SessionInv'
<1> DEFINE first == Min(todo)
<1>1. /\ \A r \in Ranks : at[r] = "snapshot"
      /\ at' = [r \in Ranks |-> IF r = Main THEN "writing" ELSE "evaluate"]
      /\ snapshots' = [snapshots EXCEPT ![first] = "partial"]
      /\ UNCHANGED << stop, reason, saw, late, counters, plan, overflows, consecutive, checked,
                      model, todo, resume, torn, sessions >>
  BY DEF Snapshot, Meet, data
<1>2. \A r \in Ranks : at[r] \in Saving /\ at'[r] \in Saving /\ at'[r] \in {"writing", "evaluate"}
  BY <1>1 DEF Saving
<1>3. at'[Main] = "writing" /\ at[Main] = "snapshot"
  BY <1>1, RanksOK
<1>4. first \in todo
  BY <1>2, RanksOK, NextMilestone DEF SessionInv, TodoOK
<1>5. first \in Milestones \cup {Final}
  BY <1>4 DEF SessionInv, TypeOK
<1> HIDE DEF first
<1>6. TypeOK'
  <2>1. at' \in [Ranks -> Collectives \cup Writing \cup Over \cup Alone]
    BY <1>1 DEF Collectives, Writing
  <2>2. snapshots' \in [Milestones \cup {Final} -> {"none", "partial", "whole"}]
    BY Zenon, <1>1, Types
  <2> QED BY <1>1, <2>1, <2>2 DEF SessionInv, TypeOK
<1>7. PlanOK' /\ UpdateOK' /\ ResumeOK'
  BY <1>1, <1>2, <1>3 DEF SessionInv, PlanOK, UpdateOK, ResumeOK, session_tokens
<1>8. TodoOK'
  BY <1>1, <1>2 DEF SessionInv, TodoOK, Saving
<1>9. CheckedOK'
  <2>1. \A m \in Milestones : m \notin todo => snapshots'[m] = snapshots[m]
    BY <1>1, <1>4, Types
  <2>2. \A m \in milestones_crossed(plan.initial, checked) : m \in Milestones
    BY DEF milestones_crossed
  <2> QED BY <1>1, <1>2, <1>3, <2>1, <2>2 DEF SessionInv, CheckedOK, Inside, Saving
<1>10. ReasonOK'
  BY <1>1, <1>2 DEF SessionInv, ReasonOK, Inside, Leaving, Saving
<1>11. ConsecutiveOK'
  BY <1>1, RanksOK DEF SessionInv, ConsecutiveOK, Over
<1>12. WeightsMatchCounters'
  BY <1>1, <1>3 DEF SessionInv, WeightsMatchCounters
<1> QED BY <1>6, <1>7, <1>8, <1>9, <1>10, <1>11, <1>12 DEF SessionInv

\* The main rank has written the snapshot in hand.
LEMMA WriteSnapshotKeeps ==
  ASSUME SessionInv, WriteSnapshot
  PROVE  SessionInv'
<1> DEFINE first == Min(todo)
<1>1. /\ at[Main] = "writing" /\ at' = [at EXCEPT ![Main] = "evaluate"]
      /\ snapshots' = [snapshots EXCEPT ![first] = "whole"]
      /\ UNCHANGED << stop, reason, saw, late, counters, plan, overflows, consecutive, checked,
                      model, todo, resume, torn, sessions >>
  BY DEF WriteSnapshot, data
<1>2. at'[Main] = "evaluate" /\ \A r \in Ranks \ {Main} : at'[r] = at[r]
  BY <1>1, Types, RanksOK
<1>3. first \in todo
  BY <1>1, RanksOK, NextMilestone DEF SessionInv, TodoOK, Saving
<1>4. first \in Milestones \cup {Final}
  BY <1>3 DEF SessionInv, TypeOK
<1>5. snapshots'[first] = "whole"
  BY <1>1, <1>4, Types
<1>6. first = Min(todo')
  BY <1>1
<1> HIDE DEF first
<1>7. TypeOK'
  <2>1. at' \in [Ranks -> Collectives \cup Writing \cup Over \cup Alone]
    BY Zenon, <1>1 DEF Collectives, SessionInv, TypeOK
  <2>2. snapshots' \in [Milestones \cup {Final} -> {"none", "partial", "whole"}]
    BY Zenon, <1>1, Types
  <2> QED BY <1>1, <2>1, <2>2 DEF SessionInv, TypeOK
<1>8. PlanOK' /\ UpdateOK' /\ ResumeOK'
  BY <1>1, <1>2 DEF SessionInv, PlanOK, UpdateOK, ResumeOK, GoesOn, session_tokens
<1>9. TodoOK'
  BY <1>1, <1>2, RanksOK DEF SessionInv, TodoOK, Saving
<1>10. CheckedOK'
  <2>1. \A m \in Milestones : m \notin todo => snapshots'[m] = snapshots[m]
    BY <1>1, <1>3, Types
  <2>2. \A m \in milestones_crossed(plan.initial, checked) : m \in Milestones
    BY DEF milestones_crossed
  <2>3. \A r \in Ranks : Inside(r)' /\ at'[r] \notin {"loop", "update"}
                           => Inside(r) /\ at[r] \notin {"loop", "update"}
    BY <1>1, <1>2 DEF Inside, Saving
  <2>4. milestones_crossed(plan'.initial, checked') = milestones_crossed(plan.initial, checked)
    BY <1>1
  <2> QED BY <1>1, <1>5, <1>6, <2>1, <2>2, <2>3, <2>4 DEF SessionInv, CheckedOK
<1>11. ReasonOK'
  BY <1>1, <1>2 DEF SessionInv, ReasonOK, Inside, Leaving, Saving
<1>12. ConsecutiveOK'
  BY <1>1, RanksOK DEF SessionInv, ConsecutiveOK, Over
<1>13. WeightsMatchCounters'
  BY <1>1, <1>2 DEF SessionInv, WeightsMatchCounters
<1> QED BY <1>7, <1>8, <1>9, <1>10, <1>11, <1>12, <1>13 DEF SessionInv

\* The evaluation follows a snapshot that is whole.
LEMMA EvaluateKeeps ==
  ASSUME SessionInv, Evaluate
  PROVE  SessionInv'
<1> DEFINE x == IF todo = {Final} THEN "room" ELSE "agree"
<1>1. /\ \A r \in Ranks : at[r] = "evaluate"
      /\ at' = [r \in Ranks |-> x]
      /\ UNCHANGED << reason, saw, late, counters, plan, overflows, consecutive, checked,
                      model, todo, snapshots, resume, torn, sessions >>
  BY DEF Evaluate, Meet, GoTo, data, disk
<1>2. x \in {"room", "agree"} /\ (x = "room" <=> todo = {Final})
  OBVIOUS
<1> HIDE DEF x
<1>3. \A r \in Ranks : at'[r] = x /\ at[r] \in Saving
  BY <1>1 DEF Saving
<1>4. TypeOK'
  <2>1. at' \in [Ranks -> Collectives \cup Writing \cup Over \cup Alone]
    BY <1>1, <1>2 DEF Collectives, Alone
  <2>2. stop' \in [Ranks -> BOOLEAN]
    BY Types DEF Evaluate
  <2> QED BY <1>1, <2>1, <2>2 DEF SessionInv, TypeOK
<1>5. PlanOK' /\ UpdateOK' /\ ResumeOK'
  BY <1>1, <1>2, <1>3, RanksOK DEF SessionInv, PlanOK, UpdateOK, ResumeOK, session_tokens
<1>6. TodoOK'
  BY <1>1, <1>2, <1>3 DEF SessionInv, TodoOK, Saving
<1>7. CheckedOK'
  <2>1. snapshots[Min(todo)] = "whole"
    BY <1>1, RanksOK DEF SessionInv, CheckedOK
  <2> QED BY <1>1, <1>2, <1>3, <2>1 DEF SessionInv, CheckedOK, Inside, Saving
<1>8. ReasonOK'
  BY <1>1, <1>2, <1>3 DEF SessionInv, ReasonOK, Inside, Leaving, Saving
<1>9. ConsecutiveOK'
  BY <1>1, RanksOK DEF SessionInv, ConsecutiveOK, Over
<1>10. WeightsMatchCounters'
  BY <1>1, RanksOK DEF SessionInv, WeightsMatchCounters
<1> QED BY <1>4, <1>5, <1>6, <1>7, <1>8, <1>9, <1>10 DEF SessionInv

\* The next milestone, or back to the loop: the one in hand has its snapshot.
LEMMA AgreeKeeps ==
  ASSUME SessionInv, Agree
  PROVE  SessionInv'
<1> DEFINE first == Min(todo)
           left == todo \ {first}
           x == IF left = {} THEN "decide" ELSE "snapshot"
<1>1. /\ \A r \in Ranks : at[r] = "agree"
      /\ at' = [r \in Ranks |-> x] /\ todo' = left
      /\ stop' = [r \in Ranks |-> \E q \in Ranks : stop[q]]
      /\ UNCHANGED << reason, saw, late, counters, plan, overflows, consecutive, checked,
                      model, snapshots, resume, torn, sessions >>
  BY DEF Agree, Meet, GoTo, data, disk
<1>2. x \in {"decide", "snapshot"} /\ (x = "decide" <=> left = {})
  OBVIOUS
<1>3. todo # {} /\ todo # {Final}
  BY <1>1, RanksOK DEF SessionInv, TodoOK
<1>4. first \in todo /\ todo \subseteq Milestones /\ Final \notin Milestones
  BY <1>3, NextMilestone, LimitsOK DEF Final
<1>5. left \subseteq Milestones /\ IsFiniteSet(left) /\ Final \notin left
  BY <1>4, FS_Subset DEF SessionInv, TodoOK
<1>6. snapshots[first] = "whole"
  BY <1>1, RanksOK DEF SessionInv, CheckedOK
<1> HIDE DEF x
<1>7. \A r \in Ranks : at'[r] = x
  BY <1>1
<1>8. TypeOK'
  <2>1. at' \in [Ranks -> Collectives \cup Writing \cup Over \cup Alone]
    BY <1>1, <1>2 DEF Collectives, Alone
  <2>2. stop' \in [Ranks -> BOOLEAN]
    BY <1>1
  <2> QED BY <1>1, <1>5, <2>1, <2>2 DEF SessionInv, TypeOK
<1>9. PlanOK' /\ UpdateOK' /\ ResumeOK'
  BY <1>1, <1>2, <1>7, RanksOK DEF SessionInv, PlanOK, UpdateOK, ResumeOK, session_tokens
<1>10. TodoOK'
  BY <1>1, <1>2, <1>5, <1>7 DEF TodoOK, Saving
<1>11. CheckedOK'
  <2>1. checked = counters.tokens
    BY <1>1, RanksOK DEF SessionInv, CheckedOK, Inside
  <2>2. \A m \in milestones_crossed(plan.initial, checked) :
          m \notin left => snapshots[m] = "whole"
    BY <1>6 DEF SessionInv, CheckedOK
  <2> HIDE DEF left, first
  <2> QED BY <1>1, <1>2, <1>7, RanksOK, <2>1, <2>2 DEF SessionInv, CheckedOK
<1>12. ReasonOK'
  BY <1>1, <1>2, <1>5, <1>7 DEF SessionInv, ReasonOK, Inside, Leaving, Saving
<1>13. ConsecutiveOK'
  BY <1>1, RanksOK DEF SessionInv, ConsecutiveOK, Over
<1>14. WeightsMatchCounters'
  BY <1>1, RanksOK DEF SessionInv, WeightsMatchCounters
<1> QED BY <1>8, <1>9, <1>10, <1>11, <1>12, <1>13, <1>14 DEF SessionInv

\* The loop is over; the final snapshot is to be taken.
LEMMA GatherKeeps ==
  ASSUME SessionInv, Gather
  PROVE  SessionInv'
<1>1. /\ \A r \in Ranks : at[r] = "gather" /\ at'[r] = "snapshot"
      /\ at' = [r \in Ranks |-> "snapshot"] /\ todo' = {Final}
      /\ UNCHANGED << stop, reason, saw, late, counters, plan, overflows, consecutive, checked,
                      model, snapshots, resume, torn, sessions >>
  BY DEF Gather, Meet, GoTo, data, disk
<1>2. TypeOK'
  <2>1. at' \in [Ranks -> Collectives \cup Writing \cup Over \cup Alone]
    BY <1>1 DEF Collectives
  <2> QED BY <1>1, <2>1 DEF SessionInv, TypeOK
<1>3. PlanOK' /\ UpdateOK' /\ ResumeOK'
  BY <1>1, RanksOK DEF SessionInv, PlanOK, UpdateOK, ResumeOK, session_tokens
<1>4. TodoOK'
  BY Zenon, <1>1, FS_Singleton DEF TodoOK
<1>5. CheckedOK'
  <2>1. todo = {}
    BY <1>1, RanksOK DEF SessionInv, TodoOK
  <2>2. \A m \in milestones_crossed(plan.initial, checked) : snapshots[m] = "whole"
    BY <2>1 DEF SessionInv, CheckedOK
  <2> QED BY <1>1, RanksOK, <2>2 DEF SessionInv, CheckedOK, Inside
<1>6. ReasonOK'
  BY <1>1 DEF SessionInv, ReasonOK, Inside, Leaving, Saving
<1>7. ConsecutiveOK'
  BY <1>1, RanksOK DEF SessionInv, ConsecutiveOK, Over
<1>8. WeightsMatchCounters'
  BY <1>1, RanksOK DEF SessionInv, WeightsMatchCounters
<1> QED BY <1>2, <1>3, <1>4, <1>5, <1>6, <1>7, <1>8 DEF SessionInv

\* What does not change when only places, the resume point and torn do.
LEMMA SaveStep ==
  ASSUME SessionInv,
         UNCHANGED << stop, reason, counters, plan, overflows, consecutive, checked,
                      model, todo, snapshots, sessions >>,
         \A r \in Ranks : \/ at'[r] = at[r]
                          \/ /\ at[r] \in {"room", "save", "vote", "saved", "finish"}
                             /\ at'[r] \in {"save", "vote", "saved", "finish", "done"}
                          \/ at'[r] = "dead" /\ (consecutive < MaxConsecutive \/ at[r] \in Over)
  PROVE  PlanOK' /\ UpdateOK' /\ TodoOK' /\ CheckedOK' /\ ReasonOK' /\ ConsecutiveOK'
<1>1. PlanOK'
  BY DEF SessionInv, PlanOK, session_tokens
<1>2. UpdateOK'
  BY DEF SessionInv, UpdateOK, GoesOn, session_tokens
<1>3. TodoOK'
  BY DEF SessionInv, TodoOK, Saving
<1>4. CheckedOK'
  <2>1. \A r \in Ranks : Inside(r)' /\ at'[r] \notin {"loop", "update"}
                           => Inside(r) /\ at[r] \notin {"loop", "update"}
    BY DEF Inside, Saving
  <2>2. milestones_crossed(plan'.initial, checked') = milestones_crossed(plan.initial, checked)
    OBVIOUS
  <2>3. at'[Main] \in {"evaluate", "agree"} => at[Main] \in {"evaluate", "agree"}
    BY RanksOK
  <2> QED BY <2>1, <2>2, <2>3 DEF SessionInv, CheckedOK
<1>5. ReasonOK'
  BY DEF SessionInv, ReasonOK, Inside, Leaving, Saving
<1>6. ConsecutiveOK'
  BY DEF SessionInv, ConsecutiveOK, Over, Leaving, Saving
<1> QED BY <1>1, <1>2, <1>3, <1>4, <1>5, <1>6

\* A rank looks at the disk and goes on to save, or past it.
LEMMA DiskUsageKeeps ==
  ASSUME SessionInv, NEW r \in Ranks, DiskUsage(r)
  PROVE  SessionInv'
<1>1. PICK free \in BOOLEAN :
        /\ saw' = [saw EXCEPT ![r] = IF free THEN "room" ELSE "full"]
        /\ at' = [at EXCEPT ![r] = IF free THEN "save" ELSE "finish"]
  BY DEF DiskUsage
<1>2. /\ at[r] = "room"
      /\ UNCHANGED << stop, reason, late, counters, plan, overflows, consecutive, checked,
                      model, todo, snapshots, resume, torn, sessions >>
  BY DEF DiskUsage, data, disk
<1>3. at'[r] \in {"save", "finish"} /\ \A q \in Ranks \ {r} : at'[q] = at[q] /\ saw'[q] = saw[q]
  BY <1>1, Types
<1>4. TypeOK'
  <2>1. at' \in [Ranks -> Collectives \cup Writing \cup Over \cup Alone]
    BY <1>1, Types DEF Places, Collectives
  <2>2. saw' \in [Ranks -> {"nothing", "room", "full", "saved", "failed"}]
    BY <1>1, Types
  <2> QED BY <1>2, <2>1, <2>2 DEF SessionInv, TypeOK
<1>5. PlanOK' /\ UpdateOK' /\ TodoOK' /\ CheckedOK' /\ ReasonOK' /\ ConsecutiveOK'
  BY <1>2, <1>3, SaveStep
<1>6. ResumeOK' /\ WeightsMatchCounters'
  <2>1. \A q \in Ranks : saw'[q] = "saved" => saw[q] = "saved"
    BY <1>1, Types
  <2>2. at'[Main] \in {"vote", "saved"} <=> at[Main] \in {"vote", "saved"}
    BY <1>2, <1>3, RanksOK
  <2> QED BY <1>2, <2>1, <2>2, RanksOK DEF SessionInv, ResumeOK, WeightsMatchCounters
<1> QED BY <1>4, <1>5, <1>6 DEF SessionInv

\* A rank's part of the save: the weights in memory, or a state that cannot be loaded.
LEMMA SaveAloneKeeps ==
  ASSUME SessionInv, NEW r \in Ranks, SaveAlone(r)
  PROVE  SessionInv'
<1>1. PICK ok \in BOOLEAN :
        /\ saw' = [saw EXCEPT ![r] = IF ok THEN "saved" ELSE "failed"]
        /\ resume' = IF r = Main THEN [resume EXCEPT !.state = IF ok THEN model ELSE NoModel]
                     ELSE resume
  BY DEF SaveAlone
<1>2. /\ at[r] = "save" /\ at' = [at EXCEPT ![r] = "vote"]
      /\ UNCHANGED << stop, reason, late, counters, plan, overflows, consecutive, checked,
                      model, todo, snapshots, torn, sessions >>
  BY DEF SaveAlone, data
<1>3. at'[r] = "vote" /\ \A q \in Ranks \ {r} : at'[q] = at[q] /\ saw'[q] = saw[q]
  BY <1>1, <1>2, Types
<1>4. PlanOK' /\ UpdateOK' /\ TodoOK' /\ CheckedOK' /\ ReasonOK' /\ ConsecutiveOK'
  BY <1>2, <1>3, SaveStep
<1>5. /\ at' \in [Ranks -> Collectives \cup Writing \cup Over \cup Alone]
      /\ saw' \in [Ranks -> {"nothing", "room", "full", "saved", "failed"}]
  BY <1>1, <1>2, Types DEF Places, Collectives
<1>6. CASE r # Main
  <2>1. at'[Main] = at[Main] /\ saw'[Main] = saw[Main] /\ resume' = resume
    BY <1>1, <1>3, <1>6, RanksOK
  <2>2. plan.mode = "fsdp" => saw'[r] # "saved"
    BY <1>1, Types DEF SaveAlone
  <2>3. ResumeOK'
    BY <1>2, <2>1, <2>2 DEF SessionInv, ResumeOK
  <2> QED BY <1>2, <1>4, <1>5, <2>1, <2>3 DEF SessionInv, TypeOK, WeightsMatchCounters
<1>7. CASE r = Main
  <2> DEFINE state == IF ok THEN model ELSE NoModel
  <2>1. /\ resume'.state = state /\ resume'.meta = resume.meta
        /\ resume' = [state |-> resume'.state, meta |-> resume'.meta]
    BY <1>1, <1>7 DEF SessionInv, ResumeOK
  <2>2. at'[Main] = "vote" /\ (saw'[Main] = "saved" => state = model)
    BY <1>1, <1>3, <1>7, Types
  <2>3. NoModel \in [Corpus -> Nat \cup {-1}] /\ model \in [Corpus -> Nat \cup {-1}]
        /\ model \in [Corpus -> Nat]
    BY Types DEF NoModel
  <2>4. TypeOK'
    BY <1>2, <1>5, <2>1, <2>3 DEF SessionInv, TypeOK
  <2>5. ResumeOK'
    BY <1>2, <2>1, <2>2, <2>3 DEF SessionInv, ResumeOK
  <2>6. WeightsMatchCounters'
    BY <1>2, <2>2 DEF SessionInv, WeightsMatchCounters
  <2> QED BY <1>4, <2>4, <2>5, <2>6 DEF SessionInv
<1> QED BY <1>6, <1>7

\* A save in which the ranks wait for each other is whole when no rank failed.
LEMMA SaveTogetherKeeps ==
  ASSUME SessionInv, SaveTogether
  PROVE  SessionInv'
<1> DEFINE state == IF \A r \in Ranks : saw'[r] = "saved" THEN model ELSE NoModel
<1>1. /\ \A r \in Ranks : at[r] = "save" /\ at'[r] = "vote"
      /\ at' = [r \in Ranks |-> "vote"] /\ saw' \in [Ranks -> {"saved", "failed"}]
      /\ resume' = [resume EXCEPT !.state = state]
      /\ UNCHANGED << stop, reason, late, counters, plan, overflows, consecutive, checked,
                      model, todo, snapshots, torn, sessions >>
  BY DEF SaveTogether, Meet, GoTo, data
<1>2. state \in {model, NoModel}
  OBVIOUS
<1> HIDE DEF state
<1>3. PlanOK' /\ UpdateOK' /\ TodoOK' /\ CheckedOK' /\ ReasonOK' /\ ConsecutiveOK'
  BY <1>1, SaveStep
<1>4. /\ resume'.state = state /\ resume'.meta = resume.meta
      /\ resume' = [state |-> resume'.state, meta |-> resume'.meta]
  BY <1>1 DEF SessionInv, ResumeOK
<1>5. /\ NoModel \in [Corpus -> Nat \cup {-1}] /\ model \in [Corpus -> Nat \cup {-1}]
      /\ model \in [Corpus -> Nat]
  BY Types DEF NoModel
<1>6. TypeOK'
  <2>1. at' \in [Ranks -> Collectives \cup Writing \cup Over \cup Alone]
    BY <1>1 DEF Collectives
  <2>2. saw' \in [Ranks -> {"nothing", "room", "full", "saved", "failed"}]
    BY <1>1
  <2> QED BY <1>1, <1>2, <1>4, <1>5, <2>1, <2>2 DEF SessionInv, TypeOK
<1>7. at'[Main] = "vote" /\ ((\A r \in Ranks : saw'[r] = "saved") => state = model)
      /\ plan.mode = "fsdp"
  BY <1>1, RanksOK DEF state, SaveTogether
<1>8. ResumeOK'
  BY <1>1, <1>2, <1>4, <1>5, <1>7 DEF SessionInv, ResumeOK
<1>9. WeightsMatchCounters'
  BY <1>1, <1>7 DEF SessionInv, WeightsMatchCounters
<1> QED BY <1>3, <1>6, <1>8, <1>9 DEF SessionInv

\* The ranks have told each other how their saves went.
LEMMA VoteKeeps ==
  ASSUME SessionInv, Vote
  PROVE  SessionInv'
<1>1. /\ \A r \in Ranks : at[r] = "vote" /\ at'[r] \in {"saved", "finish"}
      /\ at' = [r \in Ranks |-> IF r = Main THEN "saved" ELSE "finish"]
      /\ UNCHANGED << stop, reason, saw, late, counters, plan, overflows, consecutive, checked,
                      model, todo, snapshots, resume, torn, sessions >>
  BY DEF Vote, Meet, data, disk
<1>2. PlanOK' /\ UpdateOK' /\ TodoOK' /\ CheckedOK' /\ ReasonOK' /\ ConsecutiveOK'
  BY <1>1, SaveStep
<1>3. TypeOK'
  <2>1. at' \in [Ranks -> Collectives \cup Writing \cup Over \cup Alone]
    BY <1>1 DEF Collectives, Writing
  <2> QED BY <1>1, <2>1 DEF SessionInv, TypeOK
<1>4. ResumeOK' /\ WeightsMatchCounters'
  BY <1>1, RanksOK DEF SessionInv, ResumeOK, WeightsMatchCounters
<1> QED BY <1>2, <1>3, <1>4 DEF SessionInv

\* The metadata is written for weights that were saved, with the counters they had.
LEMMA WriteMetadataKeeps ==
  ASSUME SessionInv, WriteMetadata
  PROVE  SessionInv'
<1> DEFINE whole == \A r \in Ranks : saw[r] = "saved"
           m == [counters |-> counters, next_block |-> next_block]
<1>1. /\ at[Main] = "saved" /\ at' = [at EXCEPT ![Main] = "finish"]
      /\ resume' = IF whole THEN [resume EXCEPT !.meta = m]
                   ELSE [state |-> NoModel, meta |-> NoResume]
      /\ UNCHANGED << stop, reason, saw, late, counters, plan, overflows, consecutive, checked,
                      model, todo, snapshots, torn, sessions >>
  BY DEF WriteMetadata, data
<1>2. at'[Main] = "finish" /\ \A r \in Ranks \ {Main} : at'[r] = at[r]
  BY <1>1, Types, RanksOK
<1>3. at' \in [Ranks -> Collectives \cup Writing \cup Over \cup Alone]
  BY Zenon, <1>1 DEF Collectives, SessionInv, TypeOK
<1>4. PlanOK' /\ UpdateOK' /\ TodoOK' /\ CheckedOK' /\ ReasonOK' /\ ConsecutiveOK'
  BY <1>1, <1>2, SaveStep
<1>5. whole => resume.state = model
  BY <1>1, RanksOK DEF SessionInv, ResumeOK
<1>6. next_block = counters.tokens
  BY Types DEF next_block, SessionInv, PlanOK, session_tokens
<1>7. m \in [counters : Counters, next_block : Nat] /\ m.counters = counters
      /\ m.next_block = counters.tokens
  BY <1>6, Types
<1> HIDE DEF m, whole
<1>8. CASE ~whole
  <2>1. resume' = [state |-> NoModel, meta |-> NoResume]
    BY <1>1, <1>8
  <2>2. NoModel \in [Corpus -> Nat \cup {-1}]
    BY DEF NoModel
  <2>3. TypeOK'
    BY <1>1, <1>3, <2>1, <2>2 DEF SessionInv, TypeOK
  <2>4. ResumeOK' /\ WeightsMatchCounters'
    BY <1>1, <1>2, <2>1 DEF SessionInv, ResumeOK, WeightsMatchCounters
  <2> QED BY <1>4, <2>3, <2>4 DEF SessionInv
<1>9. CASE whole
  <2>1. resume' = [state |-> model, meta |-> m] /\ resume'.state = model /\ resume'.meta = m
    BY <1>1, <1>5, <1>9 DEF SessionInv, ResumeOK
  <2>2. model \in [Corpus -> Nat \cup {-1}] /\ model \in [Corpus -> Nat]
    BY Types
  <2>3. TypeOK'
    BY <1>1, <1>3, <1>7, <2>1, <2>2 DEF SessionInv, TypeOK
  <2>4. ResumeOK'
    BY <1>1, <1>2, <1>7, <2>1, <2>2 DEF SessionInv, ResumeOK
  <2>5. WeightsMatchCounters'
    BY <1>1, <1>2, <1>7, <2>1 DEF SessionInv, WeightsMatchCounters
  <2> QED BY <1>4, <2>3, <2>4, <2>5 DEF SessionInv
<1> QED BY <1>8, <1>9

\* The session is over for all ranks.
LEMMA FinishKeeps ==
  ASSUME SessionInv, Finish
  PROVE  SessionInv'
<1>1. /\ \A r \in Ranks : at[r] = "finish" /\ at'[r] = "done"
      /\ at' = [r \in Ranks |-> "done"]
      /\ UNCHANGED << stop, reason, saw, late, counters, plan, overflows, consecutive, checked,
                      model, todo, snapshots, resume, torn, sessions >>
  BY DEF Finish, Meet, GoTo, data, disk
<1>2. PlanOK' /\ UpdateOK' /\ TodoOK' /\ CheckedOK' /\ ReasonOK' /\ ConsecutiveOK'
  BY <1>1, SaveStep
<1>3. TypeOK'
  BY <1>1 DEF SessionInv, TypeOK, Over
<1>4. ResumeOK' /\ WeightsMatchCounters'
  BY <1>1, RanksOK DEF SessionInv, ResumeOK, WeightsMatchCounters
<1> QED BY <1>2, <1>3, <1>4 DEF SessionInv

\* The deadline changes nothing but what ranks decide later.
LEMMA LateKeeps ==
  ASSUME SessionInv, Late
  PROVE  SessionInv'
<1>1. /\ late' \in BOOLEAN
      /\ UNCHANGED << at, stop, reason, saw, counters, plan, overflows, consecutive, checked,
                      model, todo, snapshots, resume, torn, sessions >>
  BY DEF Late, data, disk
<1>2. PlanOK' /\ UpdateOK' /\ TodoOK' /\ CheckedOK' /\ ReasonOK' /\ ConsecutiveOK'
  BY <1>1, SaveStep
<1>3. TypeOK'
  BY <1>1 DEF SessionInv, TypeOK
<1>4. ResumeOK' /\ WeightsMatchCounters'
  BY <1>1 DEF SessionInv, ResumeOK, WeightsMatchCounters
<1> QED BY <1>2, <1>3, <1>4 DEF SessionInv

\* A session killed while its resume point is half-written tears an older one.
LEMMA KillKeeps ==
  ASSUME SessionInv, Kill
  PROVE  SessionInv'
<1> DEFINE storing == \E r \in Ranks : at[r] \in {"save", "vote", "saved"}
<1>1. /\ \A r \in Ranks : at'[r] = "dead"
      /\ at' = [r \in Ranks |-> "dead"] /\ \E r \in Ranks : at[r] \notin Over
      /\ torn' = (torn \/ (resume.meta # NoResume /\ storing))
      /\ UNCHANGED << stop, reason, saw, late, counters, plan, overflows, consecutive, checked,
                      model, todo, snapshots, sessions >>
  BY DEF Kill, GoTo, data
<1>2. PICK lost \in {resume.state, NoModel} :
        resume' = [resume EXCEPT !.state = lost] /\ (~storing => lost = resume.state)
  BY DEF Kill
<1>3. /\ resume'.state = lost /\ resume'.meta = resume.meta
      /\ resume' = [state |-> resume'.state, meta |-> resume'.meta]
  BY <1>2 DEF SessionInv, ResumeOK
<1>4. consecutive < MaxConsecutive
  BY <1>1 DEF SessionInv, ConsecutiveOK
<1>5. PlanOK' /\ UpdateOK' /\ TodoOK' /\ CheckedOK' /\ ReasonOK' /\ ConsecutiveOK'
  BY <1>1, <1>4, SaveStep
<1>6. TypeOK'
  <2>1. torn' \in BOOLEAN
    BY <1>1 DEF SessionInv, TypeOK
  <2>2. at' \in [Ranks -> Collectives \cup Writing \cup Over \cup Alone]
    BY <1>1 DEF Over
  <2>3. lost \in [Corpus -> Nat \cup {-1}]
    BY DEF SessionInv, TypeOK, NoModel
  <2> HIDE DEF storing
  <2> QED BY <1>1, <1>3, <2>1, <2>2, <2>3 DEF SessionInv, TypeOK
<1>7. ResumeOK'
  BY <1>1, <1>3, RanksOK DEF SessionInv, ResumeOK
<1>8. at[Main] \in {"vote", "saved"} => storing
  BY RanksOK
<1> HIDE DEF storing
<1>9. WeightsMatchCounters'
  <2>1. ~torn' => ~torn /\ (resume.meta # NoResume => ~storing)
    BY <1>1
  <2>2. model' = model /\ counters' = counters
    BY <1>1
  <2>3. ~torn' /\ resume'.meta # NoResume => Exact(resume'.state, resume'.meta.counters)
    BY <1>2, <1>3, <1>8, <2>1 DEF SessionInv, WeightsMatchCounters
  <2> QED BY <2>1, <2>2, <2>3 DEF SessionInv, WeightsMatchCounters
<1> QED BY <1>5, <1>6, <1>7, <1>9 DEF SessionInv

\* A session begins, with the counters and the weights of its resume point.
LEMMA SessionKeeps ==
  ASSUME SessionInv, NEW mode \in {"ddp", "fsdp"}, NEW limit \in Nat, NEW from \in Counters,
         NEW weights \in [Corpus -> Nat],
         StartSession(mode, limit, from, from.tokens, weights),
         snapshots' \in [Milestones \cup {Final} -> {"none", "partial", "whole"}],
         torn' \in BOOLEAN, ResumeOK',
         resume'.state \in [Corpus -> Nat \cup {-1}],
         resume'.meta = NoResume \/ resume'.meta \in [counters : Counters, next_block : Nat],
         ~torn' => Exact(weights, from),
         ~torn' => (resume'.meta # NoResume => Exact(resume'.state, resume'.meta.counters))
  PROVE  SessionInv'
<1> DEFINE steps == bounded_optimizer_steps(remaining_tokens(limit, from.tokens),
                                            Blocks - from.tokens)
<1>1. /\ steps > 0 /\ sessions < MaxSessions /\ sessions' = sessions + 1
      /\ plan' = [mode |-> mode, limit |-> limit, initial |-> from.tokens,
                  start |-> from.tokens, target |-> from.steps + steps,
                  needed |-> steps * BlocksPerUpdate]
      /\ saw' = [r \in Ranks |-> "nothing"]
      /\ counters' = from /\ checked' = from.tokens /\ model' = weights
      /\ overflows' = 0 /\ consecutive' = 0 /\ todo' = {} /\ late' = FALSE
      /\ stop' = [r \in Ranks |-> FALSE] /\ reason' = [r \in Ranks |-> "max_tokens"]
      /\ at' = [r \in Ranks |-> "loop"]
  BY DEF StartSession, blocks_needed
<1>2. from.tokens \in Nat /\ from.steps \in Nat /\ Blocks \in Nat /\ BlocksPerUpdate \in Nat \ {0}
  BY BlocksOK DEF Counters
<1>3. steps \in Nat /\ steps * BlocksPerUpdate <= Blocks - from.tokens
  <2>1. Blocks - from.tokens \in Int
    BY <1>2
  <2> QED BY <1>1, <1>2, <2>1, Steps
<1> HIDE DEF steps
<1>4. from.steps + steps \in Nat /\ steps * BlocksPerUpdate \in Nat
  BY <1>2, <1>3
<1>5. plan' \in [mode : {"ddp", "fsdp"}, limit : Nat, initial : Nat, start : Nat,
                 target : Nat, needed : Nat]
  BY <1>1, <1>2, <1>4
<1>6. sessions' \in 0 .. MaxSessions
  BY <1>1, LimitsOK DEF SessionInv, TypeOK
<1>7. TypeOK'
  <2>1. at' \in [Ranks -> Collectives \cup Writing \cup Over \cup Alone]
    BY <1>1 DEF Alone
  <2>2. /\ stop' \in [Ranks -> BOOLEAN] /\ late' \in BOOLEAN
        /\ saw' \in [Ranks -> {"nothing", "room", "full", "saved", "failed"}]
        /\ reason' \in [Ranks -> {"max_tokens", "corpus_exhausted", "wall_deadline",
                                  "broad_validation_deterioration"}]
    BY Zenon, <1>1
  <2>3. overflows' \in Nat /\ consecutive' \in 0 .. MaxConsecutive /\ checked' \in Nat
        /\ todo' \subseteq Milestones \cup {Final} /\ counters' \in Counters
        /\ model' \in [Corpus -> Nat]
    BY <1>1, <1>2, LimitsOK
  <2> QED BY <1>5, <1>6, <2>1, <2>2, <2>3 DEF TypeOK
<1>8. PlanOK'
  <2>1. session_tokens' = 0 * BlocksPerUpdate
    BY <1>1, <1>2 DEF session_tokens
  <2>2. /\ plan'.needed = steps * BlocksPerUpdate /\ plan'.start = plan'.initial
        /\ counters'.steps + steps + overflows' = plan'.target + 0 /\ 0 <= steps
    BY <1>1, <1>2, <1>3
  <2>3. plan'.start + plan'.needed <= Blocks
    BY <1>1, <1>2, <1>3, <1>4
  <2> QED BY <1>3, <2>1, <2>2, <2>3 DEF PlanOK
<1>9. UpdateOK' /\ TodoOK' /\ ReasonOK' /\ ConsecutiveOK'
  BY <1>1, FS_EmptySet, LimitsOK
     DEF UpdateOK, TodoOK, ReasonOK, ConsecutiveOK, Inside, Leaving, Saving
<1>10. CheckedOK'
  <2>1. milestones_crossed(plan'.initial, checked') = {}
    <3>1. plan'.initial = from.tokens /\ checked' = from.tokens
      BY <1>1
    <3>2. \A m \in Milestones : m \in Nat
      BY Zenon, LimitsOK
    <3> QED BY <1>2, <3>1, <3>2 DEF milestones_crossed
  <2>2. \A r \in Ranks : at'[r] = "loop"
    BY <1>1
  <2>3. checked' <= counters'.tokens
    BY <1>1, <1>2
  <2> QED BY <2>1, <2>2, <2>3, RanksOK DEF CheckedOK
<1>11. WeightsMatchCounters'
  BY <1>1, RanksOK DEF WeightsMatchCounters
<1> QED BY <1>7, <1>8, <1>9, <1>10, <1>11 DEF SessionInv

\* A run from the beginning: no weights, no counters, a directory of its own.
LEMMA StartKeeps ==
  ASSUME SessionInv, NEW limit \in TokenLimits, Start(limit)
  PROVE  SessionInv'
<1>1. PICK mode \in {"ddp", "fsdp"} :
      /\ StartSession(mode, limit, Zero, 0, Untrained)
      /\ snapshots' = [m \in Milestones \cup {Final} |-> "none"]
      /\ resume' = [state |-> NoModel, meta |-> NoResume] /\ torn' = FALSE
  BY DEF Start
<1>2. limit \in Nat /\ Zero \in Counters /\ Zero.tokens = 0
      /\ Untrained \in [Corpus -> Nat] /\ NoModel \in [Corpus -> Nat \cup {-1}]
  BY BlocksOK DEF Zero, Counters, Untrained, NoModel
<1>3. at' = [r \in Ranks |-> "loop"]
  BY <1>1 DEF StartSession
<1>4. ResumeOK'
  BY <1>1, <1>3, RanksOK DEF ResumeOK
<1>5. resume'.state = NoModel /\ resume'.meta = NoResume
  BY <1>1
<1>6. snapshots' \in [Milestones \cup {Final} -> {"none", "partial", "whole"}] /\ torn' \in BOOLEAN
  BY Zenon, <1>1
<1> QED BY <1>1, <1>2, <1>4, <1>5, <1>6, ExactZero, SessionKeeps

\* A resumed session begins with weights and counters that fit each other.
LEMMA ResumeKeeps ==
  ASSUME SessionInv, NEW limit \in TokenLimits, Resume(limit)
  PROVE  SessionInv'
<1> DEFINE from == resume.meta.counters
           weights == resume.state
<1>1. /\ resume.meta # NoResume /\ weights # NoModel
      /\ StartSession(plan.mode, limit, from, resume.meta.next_block, weights)
      /\ UNCHANGED << snapshots, resume, torn >>
  BY DEF Resume, disk
<1>2. resume.meta \in [counters : Counters, next_block : Nat]
      /\ resume.meta.next_block = from.tokens
  BY <1>1 DEF SessionInv, TypeOK, ResumeOK
<1>3. limit \in Nat /\ from \in Counters /\ weights \in [Corpus -> Nat]
      /\ plan.mode \in {"ddp", "fsdp"}
  BY <1>1, <1>2, BlocksOK DEF SessionInv, ResumeOK, TypeOK
<1>4. at' = [r \in Ranks |-> "loop"] /\ \A r \in Ranks : at[r] \in Over
  BY <1>1 DEF StartSession
<1>5. at'[Main] = "loop" /\ at[Main] \notin {"vote", "saved"}
  BY <1>4, RanksOK DEF Over
<1>6. ResumeOK'
  BY <1>1, <1>5 DEF SessionInv, ResumeOK
<1>7. ~torn => Exact(weights, from)
  BY <1>1, <1>5 DEF SessionInv, WeightsMatchCounters
<1>8. /\ snapshots' \in [Milestones \cup {Final} -> {"none", "partial", "whole"}]
      /\ torn' \in BOOLEAN /\ resume'.state \in [Corpus -> Nat \cup {-1}]
      /\ resume'.meta \in [counters : Counters, next_block : Nat]
  BY <1>1, <1>2 DEF SessionInv, TypeOK
<1>9. StartSession(plan.mode, limit, from, from.tokens, weights)
  BY <1>1, <1>2
<1>10. ~torn' => Exact(weights, from)
  BY <1>1, <1>7
<1>11. ~torn' => (resume'.meta # NoResume => Exact(resume'.state, resume'.meta.counters))
  BY <1>1, <1>7
<1> HIDE DEF from, weights
<1> QED BY <1>3, <1>6, <1>8, <1>9, <1>10, <1>11, SessionKeeps

\* Before the first session.
LEMMA InitSession == ASSUME Init PROVE SessionInv
<1>1. /\ at = [r \in Ranks |-> "off"] /\ late = FALSE /\ torn = FALSE
      /\ plan = [mode |-> "ddp", limit |-> 0, initial |-> 0, start |-> 0, target |-> 0,
                 needed |-> 0]
      /\ saw = [r \in Ranks |-> "nothing"]
      /\ counters = Zero /\ overflows = 0 /\ consecutive = 0 /\ checked = 0 /\ todo = {}
      /\ model = Untrained /\ resume = [state |-> NoModel, meta |-> NoResume] /\ sessions = 0
      /\ stop = [r \in Ranks |-> FALSE] /\ reason = [r \in Ranks |-> "max_tokens"]
      /\ snapshots = [m \in Milestones \cup {Final} |-> "none"]
  BY DEF Init
<1>2. /\ Zero \in Counters /\ Zero.tokens = 0 /\ Zero.steps = 0
      /\ Untrained \in [Corpus -> Nat] /\ NoModel \in [Corpus -> Nat \cup {-1}]
  BY DEF Zero, Counters, Untrained, NoModel
<1>3. at[Main] = "off"
  BY <1>1, RanksOK
<1>4. TypeOK
  <2>1. at \in [Ranks -> Collectives \cup Writing \cup Over \cup Alone]
    BY <1>1 DEF Over
  <2>2. plan \in [mode : {"ddp", "fsdp"}, limit : Nat, initial : Nat, start : Nat,
                  target : Nat, needed : Nat]
    BY <1>1
  <2>3. late \in BOOLEAN /\ torn \in BOOLEAN
    BY Zenon, <1>1
  <2> QED BY <1>1, <1>2, <2>1, <2>2, <2>3, LimitsOK DEF TypeOK
<1>5. PlanOK
  <2>1. /\ plan.needed = 0 * BlocksPerUpdate /\ session_tokens = 0 * BlocksPerUpdate
        /\ counters.steps + 0 + overflows = plan.target + 0 /\ plan.start + plan.needed <= Blocks
    BY <1>1, <1>2, BlocksOK DEF session_tokens
  <2> QED BY <1>1, <2>1 DEF PlanOK
<1>6. UpdateOK /\ ResumeOK
  BY <1>1, <1>3 DEF UpdateOK, ResumeOK
<1>7. TodoOK /\ ReasonOK /\ ConsecutiveOK
  BY <1>1, FS_EmptySet, LimitsOK
     DEF TodoOK, ReasonOK, ConsecutiveOK, Inside, Leaving, Saving
<1>8. CheckedOK
  <2>1. milestones_crossed(0, 0) = {}
    <3>1. \A m \in Milestones : m \in Nat
      BY LimitsOK
    <3> QED BY <3>1 DEF milestones_crossed
  <2>2. milestones_crossed(plan.initial, checked) = {} /\ checked <= counters.tokens
    BY <1>1, <1>2, <2>1
  <2> QED BY <1>1, <1>3, <2>2 DEF CheckedOK, Inside, Saving
<1>9. WeightsMatchCounters
  BY <1>1, ExactZero DEF WeightsMatchCounters
<1> QED BY <1>4, <1>5, <1>6, <1>7, <1>8, <1>9 DEF SessionInv

\* Every step preserves the inductive invariant.
LEMMA NextSession == ASSUME SessionInv, [Next]_vars PROVE SessionInv'
<1>1. CASE UNCHANGED vars
  <2>1. UNCHANGED << at, stop, reason, saw, late, counters, plan, overflows, consecutive, checked,
                     model, todo, snapshots, resume, torn, sessions >>
    BY <1>1 DEF vars, data, disk
  <2>2. PlanOK' /\ UpdateOK' /\ TodoOK' /\ CheckedOK' /\ ReasonOK' /\ ConsecutiveOK'
    BY <2>1, SaveStep
  <2>3. TypeOK' /\ ResumeOK' /\ WeightsMatchCounters'
    BY <2>1 DEF SessionInv, TypeOK, ResumeOK, WeightsMatchCounters
  <2> QED BY <2>2, <2>3 DEF SessionInv
<1>2. ASSUME NEW limit \in TokenLimits, Start(limit) \/ Resume(limit) PROVE SessionInv'
  BY <1>2, StartKeeps, ResumeKeeps
<1>3. ASSUME NEW r \in Ranks, Loop(r) \/ Decide(r) \/ DiskUsage(r) \/ SaveAlone(r)
      PROVE  SessionInv'
  BY <1>3, LoopKeeps, DecideKeeps, DiskUsageKeeps, SaveAloneKeeps
<1>4. CASE Applied \/ Skipped
  BY <1>4, AppliedKeeps, SkippedKeeps
<1>5. CASE Snapshot \/ WriteSnapshot \/ Evaluate \/ Agree
  BY <1>5, SnapshotKeeps, WriteSnapshotKeeps, EvaluateKeeps, AgreeKeeps
<1>6. CASE Gather \/ SaveTogether \/ Vote \/ WriteMetadata \/ Finish
  BY <1>6, GatherKeeps, SaveTogetherKeeps, VoteKeeps, WriteMetadataKeeps, FinishKeeps
<1>7. CASE Late \/ Kill
  BY <1>7, LateKeeps, KillKeeps
<1> QED BY <1>1, <1>2, <1>3, <1>4, <1>5, <1>6, <1>7 DEF Next

\* The inductive invariant holds of every run of the program.
THEOREM SessionInvariant == Spec => []SessionInv
<1>1. Init => SessionInv
  BY InitSession
<1>2. SessionInv /\ [Next]_vars => SessionInv'
  BY NextSession
<1> QED BY <1>1, <1>2, PTL DEF Spec

\* The variables keep their types.
THEOREM TypeCorrect == Spec => []TypeOK
<1>1. SessionInv => TypeOK
  BY DEF SessionInv
<1> QED BY <1>1, SessionInvariant, PTL

\* Whatever is killed, skipped and resumed, every block went into the weights at most
\* once, none the counters have not passed, and as many as the steps say - in memory and
\* in the resume point, unless a save was killed on top of an older one (Taken,
\* next_block, WriteMetadata).
THEOREM WeightsAreExact == Spec => []WeightsMatchCounters
<1>1. SessionInv => WeightsMatchCounters
  BY DEF SessionInv
<1> QED BY <1>1, SessionInvariant, PTL

\* Every milestone the session passed has a whole snapshot when the loop goes on, those
\* passed by skipped updates included (milestone_checked_tokens).
THEOREM MilestonesHaveSnapshots == Spec => []MilestonesKept
<1>1. SessionInv => MilestonesKept
  <2> SUFFICES ASSUME SessionInv, \A r \in Ranks : at[r] = "decide",
                      NEW m \in milestones_crossed(plan.initial, counters.tokens)
               PROVE  snapshots[m] = "whole"
    BY DEF MilestonesKept, Meet
  <2>1. checked = counters.tokens /\ todo = {}
    BY RanksOK DEF SessionInv, CheckedOK, TodoOK, Inside
  <2> QED BY <2>1 DEF SessionInv, CheckedOK
<1> QED BY <1>1, SessionInvariant, PTL

\* stop_reason tells whether updates were lost: "corpus_exhausted" only after an
\* overflow, "max_tokens" only after every planned update.
THEOREM ReasonIsTrue == Spec => []ReasonTellsOverflow
<1>1. SessionInv => ReasonTellsOverflow
  BY DEF SessionInv, ReasonOK, Leaving, ReasonTellsOverflow
<1> QED BY <1>1, SessionInvariant, PTL

-----------------------------------------------------------------------------
(***************************************************************************)
(* Ranks that wait for each other.                                         *)
(***************************************************************************)

\* Until it looks at the disk a rank has seen nothing of it.
SawOK ==
  \A r \in Ranks : at[r] \notin {"save", "vote", "saved", "finish"} \cup Over => saw[r] = "nothing"

\* The ranks go around the loop, and none has been asked to stop.  One that its
\* clock told to leave is out of it.
Looping ==
  \A r \in Ranks :
    /\ ~stop[r]
    /\ reason[r] = "wall_deadline" => at[r] = "gather"
    /\ reason[r] # "wall_deadline" =>
         at[r] \in {"decide", "loop", IF GoesOn THEN "update" ELSE "gather"}

\* All ranks have been asked to stop.
Stopping == \A r \in Ranks : stop[r] /\ at[r] \in {"decide", "gather"}

\* Places where all ranks are at the same time.
Together == {"snapshot", "evaluate", "agree", "finish"} \cup Over
Gathered == \E c \in Together : Meet(c)

\* The ranks store the state, each by itself.
Storing ==
  \A r \in Ranks :
    \/ at[r] = "room"   /\ saw[r] = "nothing"
    \/ at[r] = "save"   /\ saw[r] = "room"
    \/ at[r] = "finish" /\ saw[r] = "full"
    \/ at[r] = "vote"   /\ saw[r] = "failed"
    \/ at[r] = "vote"   /\ saw[r] = "saved" /\ (plan.mode = "fsdp" => Meet("vote"))

\* The main rank writes files and the others wait in one operation.
MainWrites ==
  \/ at[Main] = "writing" /\ \A r \in Ranks \ {Main} : at[r] = "evaluate"
  \/ at[Main] = "saved"   /\ \A r \in Ranks \ {Main} : at[r] = "finish"

Phases == Looping \/ Stopping \/ Gathered \/ Storing \/ MainWrites

PhaseInv == SessionInv /\ SawOK /\ Phases

\* A rank sees nothing of the disk before it looks.
LEMMA SawStep == ASSUME SessionInv, SawOK, [Next]_vars PROVE SawOK'
<1>1. CASE \E limit \in TokenLimits : Start(limit) \/ Resume(limit)
  BY <1>1 DEF Start, Resume, StartSession, SawOK
<1>2. ASSUME NEW r \in Ranks, Loop(r) \/ Decide(r) PROVE SawOK'
  BY <1>2, Types DEF Loop, Decide, SawOK, Over
<1>3. ASSUME NEW r \in Ranks, DiskUsage(r) PROVE SawOK'
  BY <1>3, Types DEF DiskUsage, SawOK
<1>4. ASSUME NEW r \in Ranks, SaveAlone(r) PROVE SawOK'
  BY <1>4, Types DEF SaveAlone, SawOK
<1>5. CASE Applied \/ Skipped
  BY <1>5 DEF Applied, Skipped, Meet, GoTo, SawOK, Over
<1>6. CASE Snapshot \/ WriteSnapshot \/ Evaluate
  BY <1>6, Types DEF Snapshot, WriteSnapshot, Evaluate, Meet, GoTo, SawOK, Over
<1>7. CASE Agree \/ Gather
  BY <1>7 DEF Agree, Gather, Meet, GoTo, SawOK, Over
<1>8. CASE SaveTogether \/ Vote \/ Finish \/ Kill
  BY <1>8 DEF SaveTogether, Vote, Finish, Kill, GoTo, SawOK, Over
<1>9. CASE WriteMetadata
  BY <1>9, Types DEF WriteMetadata, SawOK
<1>10. CASE Late \/ UNCHANGED vars
  BY <1>10 DEF Late, vars, SawOK
<1> QED BY <1>1, <1>2, <1>3, <1>4, <1>5, <1>6, <1>7, <1>8, <1>9, <1>10 DEF Next

\* Where the ranks are when they meet in an update: only in the loop.
LEMMA MeetUpdate ==
  ASSUME PhaseInv, Meet("update")
  PROVE  Looping
BY RanksOK DEF PhaseInv, Phases, Stopping, Gathered, Together, Storing, MainWrites, Meet, Over

\* Inside the loop nobody's reason is the clock.
LEMMA NoClock ==
  ASSUME SessionInv, NEW r \in Ranks, at[r] \in {"loop", "update", "decide", "agree"}
  PROVE  reason[r] = "max_tokens"
BY DEF SessionInv, ReasonOK, Inside

\* Ranks that all go to the same place are together there.
LEMMA GoTogether ==
  ASSUME NEW c \in Together, GoTo(c)
  PROVE  Phases'
BY DEF GoTo, Phases, Gathered, Meet

\* A session begins with all ranks at the head of the loop.
LEMMA StartPhase ==
  ASSUME NEW mode, NEW limit, NEW from, NEW start, NEW weights,
         StartSession(mode, limit, from, start, weights)
  PROVE  Phases'
BY DEF StartSession, Phases, Looping

\* The head of the loop sends every rank the same way.
LEMMA LoopPhase ==
  ASSUME PhaseInv, NEW r \in Ranks, Loop(r)
  PROVE  Phases'
<1>1. /\ at[r] = "loop" /\ stop' = stop /\ GoesOn' = GoesOn
      /\ at' = [at EXCEPT ![r] = IF GoesOn THEN "update" ELSE "gather"]
  BY DEF Loop, GoesOn, data, session_tokens
<1>2. reason' = [reason EXCEPT ![r] = reason'[r]] /\ reason'[r] # "wall_deadline"
  BY <1>1, NoClock, Types DEF Loop, PhaseInv
<1>3. Looping
  BY <1>1, RanksOK
     DEF PhaseInv, Phases, Stopping, Gathered, Together, Storing, MainWrites, Meet, Over
<1>4. Looping'
  BY <1>1, <1>2, <1>3, Types DEF Looping, PhaseInv
<1> QED BY <1>4 DEF Phases

\* Ranks decide alike but for the deadline: only what all of them know counts.
LEMMA DecidePhase ==
  ASSUME PhaseInv, NEW r \in Ranks, Decide(r)
  PROVE  Phases'
<1>1. at[r] = "decide" /\ stop' = stop /\ GoesOn' = GoesOn
  BY DEF Decide, GoesOn, data, session_tokens
<1>2. at' = [at EXCEPT ![r] = IF stop[r] \/ late THEN "gather" ELSE "loop"]
  BY DEF Decide
<1>3. /\ \A q \in Ranks \ {r} : reason'[q] = reason[q]
      /\ ~stop[r] => (reason'[r] = "wall_deadline" <=> late)
  BY <1>1, NoClock, Types DEF Decide, PhaseInv
<1>4. Looping \/ Stopping
  BY <1>1, RanksOK
     DEF PhaseInv, Phases, Gathered, Together, Storing, MainWrites, Meet, Over
<1>5. CASE Looping
  <2>1. Looping'
    BY <1>1, <1>2, <1>3, <1>5, Types DEF Looping, PhaseInv
  <2> QED BY <2>1 DEF Phases
<1>6. CASE Stopping
  <2>1. Stopping'
    BY <1>1, <1>2, <1>6, Types DEF Stopping, PhaseInv
  <2> QED BY <2>1 DEF Phases
<1> QED BY <1>4, <1>5, <1>6

\* An update leaves the ranks in the loop, together before a snapshot, or ends the run.
LEMMA UpdatePhase ==
  ASSUME PhaseInv, Applied \/ Skipped
  PROVE  Phases'
<1>1. Meet("update") /\ stop' = stop /\ reason' = reason
  BY DEF Applied, Skipped
<1>2. \E c \in {"decide", "loop", "snapshot", "dead"} : GoTo(c)
  BY DEF Applied, Skipped
<1>3. CASE GoTo("decide") \/ GoTo("loop")
  <2>1. \A r \in Ranks : ~stop[r] /\ reason[r] = "max_tokens"
    BY <1>1, MeetUpdate, NoClock DEF Looping, Meet, PhaseInv
  <2>2. Looping'
    BY <1>1, <1>3, <2>1 DEF Looping, GoTo
  <2> QED BY <2>2 DEF Phases
<1>4. CASE GoTo("snapshot") \/ GoTo("dead")
  BY <1>4, GoTogether DEF Together, Over
<1> QED BY <1>2, <1>3, <1>4

\* After the collective maximum all ranks hold the same stop_requested.
LEMMA AgreePhase ==
  ASSUME PhaseInv, Agree
  PROVE  Phases'
<1>1. /\ stop' = [r \in Ranks |-> \E q \in Ranks : stop[q]]
      /\ Meet("agree") /\ reason' = reason
  BY DEF Agree
<1>2. CASE GoTo("snapshot")
  BY <1>2, GoTogether DEF Together
<1>3. CASE GoTo("decide")
  <2>1. \A r \in Ranks : reason[r] = "max_tokens"
    BY <1>1, NoClock DEF Meet, PhaseInv
  <2>2. Looping' \/ Stopping'
    BY <1>1, <1>3, <2>1 DEF Looping, Stopping, GoTo
  <2> QED BY <2>2 DEF Phases
<1> QED BY <1>2, <1>3 DEF Agree

\* The main rank writes a snapshot, or the metadata of the resume point, while the
\* others go on to the next operation.
LEMMA WritingPhase ==
  ASSUME PhaseInv, Snapshot \/ WriteSnapshot \/ Vote \/ WriteMetadata
  PROVE  Phases'
<1>1. CASE Snapshot \/ Vote
  BY <1>1, RanksOK DEF Snapshot, Vote, Phases, MainWrites
<1>2. CASE WriteSnapshot \/ WriteMetadata
  <2>1. PICK c \in {"evaluate", "finish"} :
          /\ at' = [at EXCEPT ![Main] = c]
          /\ at[Main] = IF c = "evaluate" THEN "writing" ELSE "saved"
    BY <1>2 DEF WriteSnapshot, WriteMetadata
  <2>2. MainWrites
    BY <2>1, RanksOK
       DEF PhaseInv, Phases, Looping, Stopping, Gathered, Together, Storing, Meet, Over
  <2>3. Meet(c)'
    BY <2>1, <2>2, Types DEF MainWrites, Meet, PhaseInv
  <2> QED BY <2>3 DEF Phases, Gathered, Together
<1> QED BY <1>1, <1>2

\* A rank that is about to look at the disk, or to save, is storing.
LEMMA Stores ==
  ASSUME PhaseInv, NEW r \in Ranks, at[r] \in {"room", "save"}
  PROVE  Storing
BY DEF PhaseInv, Phases, Looping, Stopping, Gathered, Together, MainWrites, Meet, Over

\* While the ranks store the state each is where what it saw has sent it.
LEMMA StorePhase ==
  ASSUME PhaseInv, NEW r \in Ranks, DiskUsage(r) \/ SaveAlone(r)
  PROVE  Phases'
<1>1. at[r] \in {"room", "save"} /\ plan' = plan /\ Storing
  BY Stores DEF DiskUsage, SaveAlone, data
<1>2. CASE DiskUsage(r)
  <2>1. ~Meet("vote")
    BY <1>2 DEF DiskUsage, Meet
  <2>2. PICK free \in BOOLEAN :
          /\ saw' = [saw EXCEPT ![r] = IF free THEN "room" ELSE "full"]
          /\ at' = [at EXCEPT ![r] = IF free THEN "save" ELSE "finish"]
    BY <1>2 DEF DiskUsage
  <2>3. Storing'
    BY <1>1, <2>1, <2>2, Types DEF Storing, PhaseInv
  <2> QED BY <2>3 DEF Phases
<1>3. CASE SaveAlone(r)
  <2>1. ~Meet("vote")
    BY <1>3 DEF SaveAlone, Meet
  <2>2. PICK ok \in BOOLEAN :
          /\ saw' = [saw EXCEPT ![r] = IF ok THEN "saved" ELSE "failed"]
          /\ ok => plan.mode = "ddp"
    BY <1>3 DEF SaveAlone
  <2>3. at' = [at EXCEPT ![r] = "vote"]
    BY <1>3 DEF SaveAlone
  <2>4. Storing'
    BY <1>1, <2>1, <2>2, <2>3, Types DEF Storing, PhaseInv
  <2> QED BY <2>4 DEF Phases
<1> QED BY <1>2, <1>3

\* Operations that all ranks leave for the same place.
LEMMA TogetherPhase ==
  ASSUME PhaseInv, Evaluate \/ Gather \/ SaveTogether \/ Finish \/ Kill
  PROVE  Phases'
<1>1. CASE Gather \/ Finish \/ Kill
  BY <1>1, GoTogether DEF Gather, Finish, Kill, Together, Over
<1>2. CASE Evaluate
  <2>1. CASE GoTo("agree")
    BY <2>1, GoTogether DEF Together
  <2>2. CASE GoTo("room")
    <3>1. \A r \in Ranks : saw'[r] = "nothing"
      BY <1>2 DEF Evaluate, Meet, PhaseInv, SawOK, Over
    <3> QED BY <2>2, <3>1 DEF GoTo, Phases, Storing
  <2> QED BY <1>2, <2>1, <2>2 DEF Evaluate
<1>3. CASE SaveTogether
  <2>1. Meet("vote")' /\ \A r \in Ranks : saw'[r] \in {"saved", "failed"}
    BY <1>3 DEF SaveTogether, GoTo, Meet
  <2> QED BY <2>1 DEF Phases, Storing, Meet
<1> QED BY <1>1, <1>2, <1>3

\* Every step keeps the ranks in one phase.
LEMMA PhaseStep == ASSUME PhaseInv, [Next]_vars PROVE PhaseInv'
<1> SUFFICES Phases'
  BY NextSession, SawStep DEF PhaseInv
<1>1. ASSUME NEW limit \in TokenLimits, Start(limit) \/ Resume(limit) PROVE Phases'
  BY <1>1, StartPhase DEF Start, Resume
<1>2. ASSUME NEW r \in Ranks, Loop(r) \/ Decide(r) \/ DiskUsage(r) \/ SaveAlone(r) PROVE Phases'
  BY <1>2, LoopPhase, DecidePhase, StorePhase
<1>3. CASE Applied \/ Skipped \/ Agree
  BY <1>3, UpdatePhase, AgreePhase
<1>4. CASE Snapshot \/ WriteSnapshot \/ Vote \/ WriteMetadata
  BY <1>4, WritingPhase
<1>5. CASE Evaluate \/ Gather \/ SaveTogether \/ Finish \/ Kill
  BY <1>5, TogetherPhase
<1>6. CASE Late \/ UNCHANGED vars
  <2>1. UNCHANGED << at, stop, reason, saw, plan, counters >>
    BY <1>6 DEF Late, vars, data
  <2> QED BY <2>1 DEF PhaseInv, Phases, Looping, Stopping, Gathered, Storing, MainWrites,
                      Meet, GoesOn, session_tokens
<1> QED BY <1>1, <1>2, <1>3, <1>4, <1>5, <1>6 DEF Next

\* Ranks that nothing has told apart wait in the same operation.
LEMMA PhaseSafe == ASSUME PhaseInv PROVE SameCollective
<1> SUFFICES ASSUME NEW r \in Ranks, NEW q \in Ranks, Waiting(r), Waiting(q), Alike(r, q)
             PROVE  at[r] = at[q]
  BY DEF SameCollective
<1>1. CASE Looping
  BY <1>1 DEF Looping, Waiting, Alike, Collectives
<1>2. CASE Stopping
  BY <1>2 DEF Stopping, Waiting, Collectives
<1>3. CASE Gathered
  BY <1>3 DEF Gathered, Meet
<1>4. CASE Storing
  BY <1>4 DEF Storing, Waiting, Alike, Collectives, Meet
<1>5. CASE MainWrites
  BY <1>5 DEF MainWrites, Waiting, Collectives
<1> QED BY <1>1, <1>2, <1>3, <1>4, <1>5 DEF PhaseInv, Phases

\* Before the first session all ranks are off.
LEMMA PhaseInit == ASSUME Init PROVE PhaseInv
<1>1. Phases /\ SawOK
  BY DEF Init, Phases, Gathered, Together, Meet, Over, SawOK
<1> QED BY <1>1, InitSession DEF PhaseInv

\* run_training: however the ranks are interleaved, wherever a session is killed
\* and however often it is resumed, and whatever the evaluations say, ranks that
\* wait for each other wait in the same collective operation, unless the deadline,
\* the free space or a save that failed on one of them alone told them apart.
THEOREM RanksWaitTogether == Spec => []SameCollective
<1>1. Init => PhaseInv
  BY PhaseInit
<1>2. PhaseInv /\ [Next]_vars => PhaseInv'
  BY PhaseStep
<1>3. PhaseInv => SameCollective
  BY PhaseSafe
<1> QED BY <1>1, <1>2, <1>3, PTL DEF Spec
=============================================================================

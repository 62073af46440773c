------------------------ MODULE DBWorkerPool_proofs ------------------------
(***************************************************************************)
(* Proofs about the pool of database workers, for every number of          *)
(* accounts, workers, slots, jobs and faults: types, the adjacency of the  *)
(* two heads of a pair, that a stopped worker has nothing left to do, and  *)
(* that what is answered OK is in the database; then what becomes of a     *)
(* job: the counters of the queues are exact, every accepted job is        *)
(* answered exactly once, and a load is answered behind the saves queued   *)
(* before it.                                                              *)
(*                                                                         *)
(* A job is followed in what worker w has before it, Line(w).  A step      *)
(* leaves the line of a worker as it is, adds jobs at its end, or moves    *)
(* the answer at its front to the box; running a job replaces it by its    *)
(* answer at the same place.                                               *)
(***************************************************************************)
EXTENDS DBWorkerPool, DBWorker_proofs, FiniteSetTheorems

-----------------------------------------------------------------------------
(* The client, and the invariant of the whole pool. *)

ClientTypeOK ==
    /\ wait \in [Worker -> {"awake", "checked", "asleep"}]
    /\ issued \in 0 .. MaxJobs
    /\ refused \subseteq 1 .. MaxJobs
    /\ taken \subseteq Answer
    /\ applied \subseteq Nat
    /\ bridge \subseteq Worker
    /\ closed \in BOOLEAN

\* The type invariant in its two halves, the workers' and the client's.
LEMMA TypeSplit == PoolTypeOK <=> WorkerTypeOK /\ ClientTypeOK
  BY DEF PoolTypeOK, ClientTypeOK

\* The adjacency invariant, spelled over the whole pool.
LEMMA PairedSplit == Paired <=> PairAdjacent
  BY DEF Paired, PairAdjacent

\* The invariant holds at the start.
LEMMA InitOK == PoolInit => PoolTypeOK /\ PairAdjacent
  <1> SUFFICES ASSUME PoolInit PROVE PoolTypeOK /\ PairAdjacent
    OBVIOUS
  <1> USE DBWorkerAssumption, PoolAssumption
  <1>1. WorkerTypeOK /\ Paired
    BY WorkerInitOK DEF PoolInit
  <1>2. ClientTypeOK
    <2>1. /\ wait = [w \in Worker |-> "awake"]
          /\ issued = 0 /\ refused = {} /\ taken = {} /\ applied = {}
          /\ bridge = {} /\ closed = FALSE
      BY DEF PoolInit
    <2>2. wait \in [Worker -> {"awake", "checked", "asleep"}]
      BY <2>1
    <2>3. issued \in 0 .. MaxJobs
      BY <2>1
    <2>4. /\ refused \subseteq 1 .. MaxJobs /\ taken \subseteq Answer
          /\ applied \subseteq Nat /\ bridge \subseteq Worker
      BY <2>1
    <2>5. closed \in BOOLEAN
      BY <2>1
    <2>6. QED
      BY <2>2, <2>3, <2>4, <2>5, Zenon DEF ClientTypeOK
  <1>3. QED
    BY <1>1, <1>2, TypeSplit, PairedSplit

\* A step of the client changes nothing of the workers but the queues.
LEMMA EnqueuedOK ==
  ASSUME WorkerTypeOK, Paired, QueuesOK(slot'),
         UNCHANGED <<batch, out, mysql, reconnectFailed, db, results, saveReplies,
                     stop, exited, faults>>
  PROVE  WorkerTypeOK' /\ Paired'
  BY DEF QueuesOK, WorkerTypeOK, Paired

\* Waking workers keeps their phases.
LEMMA NotifiedType ==
  ASSUME ClientTypeOK, NEW w \in Worker
  PROVE  Notified(w) \in [Worker -> {"awake", "checked", "asleep"}]
  BY DEF Notified, ClientTypeOK

\* A save job the client builds is a bundle.
LEMMA SaveJobType ==
  ASSUME NEW a \in Account, NEW n \in Nat \ {0}, NEW slots, NEW w \in Worker
  PROVE  /\ SaveJob(a, n, slots, w) \in Bundle
         /\ SaveJob(a, n, slots, w).pairNext = 0
         /\ SaveJob(a, n, slots, w).account = a
  <1>1. w \in Nat
    BY DBWorkerAssumption DEF Worker
  <1>2. [s \in Slot |-> IF s \in slots THEN n ELSE NotCarried] \in BagRows
    BY DEF BagRows
  <1>3. [pos |-> n, val |-> n] \in Row
    BY DEF Row
  <1>4. QED
    BY <1>1, <1>2, <1>3 DEF SaveJob, Bundle, Session

\* A request for a load keeps the invariant.
LEMMA ClientLoadOK ==
  ASSUME PoolTypeOK, PairAdjacent, NEW a \in Account, ClientLoad(a)
  PROVE  PoolTypeOK' /\ PairAdjacent'
  <1> DEFINE n == issued + 1
  <1>1. WorkerTypeOK /\ ClientTypeOK /\ Paired /\ QueuesOK(slot)
    BY TypeSplit, PairedSplit DEF QueuesOK, WorkerTypeOK, Paired
  <1>2. n \in 1 .. MaxJobs
    BY <1>1, PoolAssumption DEF ClientLoad, ClientTypeOK
  <1>3. [kind |-> "LOAD", account |-> a, session |-> n] \in LoadJob
    BY <1>2, PoolAssumption DEF LoadJob, Session
  <1>4. QueuesOK(slot')
    <2>1. CASE LoadFits(slot, a)
      BY <1>1, <1>3, <2>1, EnqueueLoadOK DEF ClientLoad
    <2>2. CASE ~LoadFits(slot, a)
      BY <1>1, <2>2 DEF ClientLoad
    <2>3. QED
      BY <2>1, <2>2
  <1>5. WorkerTypeOK' /\ Paired'
    BY <1>1, <1>4, EnqueuedOK DEF ClientLoad
  <1>6. ClientTypeOK'
    <2>1. /\ wait' \in {wait, Notified(SlotIndex(a))}
          /\ refused' \in {refused, refused \cup {n}}
          /\ issued' = n
          /\ UNCHANGED <<taken, applied, bridge, closed>>
      BY DEF ClientLoad
    <2>2. wait' \in [Worker -> {"awake", "checked", "asleep"}]
      BY <1>1, <2>1, NotifiedType, SlotIndexType DEF ClientTypeOK
    <2>3. QED
      BY <1>1, <1>2, <2>1, <2>2, PoolAssumption DEF ClientTypeOK
  <1>7. QED
    BY <1>5, <1>6, TypeSplit, PairedSplit DEF PoolTypeOK, ClientTypeOK, Paired, PairAdjacent

\* A request for a save keeps the invariant.
LEMMA ClientSaveOK ==
  ASSUME PoolTypeOK, PairAdjacent, NEW a \in Account, ClientSave(a)
  PROVE  PoolTypeOK' /\ PairAdjacent'
  <1> DEFINE n == issued + 1
             w == SlotIndex(a)
  <1>1. WorkerTypeOK /\ ClientTypeOK /\ Paired /\ QueuesOK(slot)
    BY TypeSplit, PairedSplit DEF QueuesOK, WorkerTypeOK, Paired
  <1>2. n \in 1 .. MaxJobs /\ n \in Nat \ {0} /\ w \in Worker
    BY <1>1, PoolAssumption, SlotIndexType DEF ClientSave, ClientTypeOK
  <1>3. QueuesOK(slot')
    <2>1. CASE SaveFits(slot, w)
      <3>1. PICK slots \in {{}, Slot} :
              slot' = EnqueueSave(slot, SaveJob(a, n, slots, w))
        BY <2>1 DEF ClientSave
      <3>2. /\ SaveJob(a, n, slots, w) \in Bundle
            /\ SaveJob(a, n, slots, w).pairNext = 0
        BY <1>2, SaveJobType
      <3>3. QED
        BY <1>1, <3>1, <3>2, EnqueueSaveOK
    <2>2. CASE ~SaveFits(slot, w)
      BY <1>1, <2>2 DEF ClientSave
    <2>3. QED
      BY <2>1, <2>2
  <1>4. WorkerTypeOK' /\ Paired'
    BY <1>1, <1>3, EnqueuedOK DEF ClientSave
  <1>5. ClientTypeOK'
    <2>1. /\ wait' \in {wait, Notified(w)}
          /\ refused' \in {refused, refused \cup {n}}
          /\ issued' = n
          /\ UNCHANGED <<taken, applied, bridge, closed>>
      BY DEF ClientSave
    <2>2. wait' \in [Worker -> {"awake", "checked", "asleep"}]
      BY <1>1, <1>2, <2>1, NotifiedType DEF ClientTypeOK
    <2>3. QED
      BY <1>1, <1>2, <2>1, <2>2, PoolAssumption DEF ClientTypeOK
  <1>6. QED
    BY <1>4, <1>5, TypeSplit, PairedSplit DEF PoolTypeOK, ClientTypeOK, Paired, PairAdjacent

\* A request for the save of a pair keeps the invariant.
LEMMA ClientSavePairOK ==
  ASSUME PoolTypeOK, PairAdjacent, NEW a \in Account, NEW b \in Account,
         ClientSavePair(a, b)
  PROVE  PoolTypeOK' /\ PairAdjacent'
  <1> DEFINE n == issued + 1
             w == PairSlot(a, b)
  <1>1. WorkerTypeOK /\ ClientTypeOK /\ Paired /\ QueuesOK(slot)
    BY TypeSplit, PairedSplit DEF QueuesOK, WorkerTypeOK, Paired
  <1>2. /\ n \in 1 .. MaxJobs /\ n + 1 \in 1 .. MaxJobs
        /\ n \in Nat \ {0} /\ n + 1 \in Nat \ {0} /\ w \in Worker /\ a # b
    BY <1>1, PoolAssumption, PairSlotType DEF ClientSavePair, ClientTypeOK
  <1>3. QueuesOK(slot')
    <2>1. CASE PairFits(slot, w)
      <3>1. slot' = EnqueueSavePair(slot, SaveJob(a, n, Slot, w),
                                    SaveJob(b, n + 1, Slot, w))
        BY <2>1 DEF ClientSavePair
      <3>2. /\ SaveJob(a, n, Slot, w) \in Bundle
            /\ SaveJob(b, n + 1, Slot, w) \in Bundle
            /\ SaveJob(a, n, Slot, w).account # SaveJob(b, n + 1, Slot, w).account
        BY <1>2, SaveJobType
      <3>3. QED
        BY <1>1, <3>1, <3>2, EnqueueSavePairOK
    <2>2. CASE ~PairFits(slot, w)
      BY <1>1, <2>2 DEF ClientSavePair
    <2>3. QED
      BY <2>1, <2>2
  <1>4. WorkerTypeOK' /\ Paired'
    BY <1>1, <1>3, EnqueuedOK DEF ClientSavePair
  <1>5. ClientTypeOK'
    <2>1. /\ wait' \in {wait, Notified(w)}
          /\ refused' \in {refused, refused \cup {n, n + 1}}
          /\ issued' = n + 1
          /\ UNCHANGED <<taken, applied, bridge, closed>>
      BY DEF ClientSavePair
    <2>2. wait' \in [Worker -> {"awake", "checked", "asleep"}]
      BY <1>1, <1>2, <2>1, NotifiedType DEF ClientTypeOK
    <2>3. QED
      BY <1>1, <1>2, <2>1, <2>2, PoolAssumption DEF ClientTypeOK
  <1>6. QED
    BY <1>4, <1>5, TypeSplit, PairedSplit DEF PoolTypeOK, ClientTypeOK, Paired, PairAdjacent

\* Collecting the results keeps the invariant.
LEMMA SwapOutResultsOK ==
  ASSUME PoolTypeOK, PairAdjacent, SwapOutResults
  PROVE  PoolTypeOK' /\ PairAdjacent'
  <1>1. WorkerTypeOK /\ ClientTypeOK
    BY TypeSplit
  <1>2. Range(saveReplies) \subseteq Answer /\ Range(results) \subseteq Answer
    BY <1>1 DEF WorkerTypeOK, Range, Answer
  <1>3. taken' \subseteq Answer
    BY <1>1, <1>2 DEF SwapOutResults, ClientTypeOK
  <1>4. results' \in Seq(LoadResult) /\ saveReplies' \in Seq(SaveReply)
    BY DEF SwapOutResults
  <1>5. UNCHANGED <<slot, batch, out, mysql, reconnectFailed, db, stop, exited,
                    faults, wait, issued, refused, applied, bridge, closed>>
    BY DEF SwapOutResults
  <1>6. QED
    BY SMTT(60), ZenonT(60), <1>3, <1>4, <1>5 DEF PoolTypeOK, WorkerTypeOK, PairAdjacent

\* The steps of the shutdown keep the invariant.
LEMMA ShutdownOK ==
  ASSUME PoolTypeOK, PairAdjacent,
         \/ SetStop \/ Join
         \/ \E w \in Worker : WakeForStop(w)
  PROVE  PoolTypeOK' /\ PairAdjacent'
  <1>1. CASE SetStop
    BY <1>1 DEF SetStop, PoolTypeOK, WorkerTypeOK, PairAdjacent
  <1>2. CASE Join
    BY <1>2 DEF Join, workerVars, PoolTypeOK, WorkerTypeOK, PairAdjacent
  <1>3. ASSUME NEW w \in Worker, WakeForStop(w)
        PROVE  PoolTypeOK' /\ PairAdjacent'
    <2>1. wait' \in [Worker -> {"awake", "checked", "asleep"}]
      BY <1>3, NotifiedType, TypeSplit DEF WakeForStop
    <2>2. /\ bridge' \subseteq bridge
          /\ UNCHANGED <<workerVars, issued, refused, taken, applied, closed>>
      BY <1>3 DEF WakeForStop
    <2>3. QED
      BY SMTT(60), ZenonT(60), <2>1, <2>2 DEF workerVars, PoolTypeOK, WorkerTypeOK, PairAdjacent
  <1>4. QED
    BY <1>1, <1>2, <1>3

\* Only the bundle a worker runs reaches the tables, and its heads are numbered.
LEMMA AppliedType ==
  ASSUME WorkerTypeOK, Paired, NEW w \in Worker, WorkerStep(w)
  PROVE  AppliedBy(w) \subseteq Nat
  <1>1. CASE db' = db
    BY <1>1 DEF AppliedBy
  <1>2. CASE db' # db
    <2>1. RunBundle(w)
      BY <1>2 DEF WorkerStep, SwapOut, Exit, RunLoad, Push
    <2>2. /\ batch[w] \in Seq(Job) /\ PairAdjacentIn(batch[w]) /\ batch[w] # <<>>
          /\ Head(batch[w]).kind = "SAVE"
      BY <2>1 DEF RunBundle, WorkerTypeOK, Paired
    <2>3. Heads(batch[w]) \in Seq(Bundle)
      BY <2>2, HeadsType
    <2>4. \A x \in Range(Heads(batch[w])) : x \in Bundle
      BY <2>3 DEF Range
    <2>5. \A x \in Bundle : NumberOf(x) \in Nat
      BY DEF Bundle, NumberOf
    <2>6. QED
      BY <1>2, <2>4, <2>5 DEF AppliedBy, Numbers
  <1>3. QED
    BY <1>1, <1>2

\* A worker's step, seen from the pool, keeps the invariant.
LEMMA PoolWorkerOK ==
  ASSUME PoolTypeOK, PairAdjacent, NEW w \in Worker, PoolWorker(w)
  PROVE  PoolTypeOK' /\ PairAdjacent'
  <1>1. WorkerTypeOK /\ ClientTypeOK /\ Paired
    BY TypeSplit, PairedSplit
  <1>2. ASSUME WorkerStep(w), applied' = applied \cup AppliedBy(w),
               UNCHANGED <<wait, issued, refused, taken, bridge, closed>>
        PROVE  PoolTypeOK' /\ PairAdjacent'
    <2>1. WorkerTypeOK' /\ Paired'
      BY <1>1, <1>2, WorkerStepOK
    <2>2. applied' \subseteq Nat
      BY <1>1, <1>2, AppliedType DEF ClientTypeOK
    <2>3. QED
      BY <1>1, <1>2, <2>1, <2>2 DEF PoolTypeOK, ClientTypeOK, Paired, PairAdjacent
  <1>3. CASE CheckPredicate(w)
    <2>1. /\ wait' = [wait EXCEPT ![w] = "checked"]
          /\ UNCHANGED <<workerVars, issued, refused, taken, applied, bridge, closed>>
      BY <1>3 DEF CheckPredicate
    <2>2. QED
      BY SMTT(60), ZenonT(60), <2>1 DEF workerVars, PoolTypeOK, WorkerTypeOK, PairAdjacent
  <1>4. CASE FallAsleep(w)
    <2>1. /\ wait' = [wait EXCEPT ![w] = "asleep"]
          /\ UNCHANGED <<workerVars, issued, refused, taken, applied, bridge, closed>>
      BY <1>4 DEF FallAsleep
    <2>2. QED
      BY <2>1 DEF workerVars, PoolTypeOK, WorkerTypeOK, PairAdjacent
  <1>5. QED
    BY <1>2, <1>3, <1>4 DEF PoolWorker

\* Type correctness and adjacency of pairs together are inductive: the second
\* head a worker reads exists because the pair is whole.
LEMMA PoolInductive ==
  PoolTypeOK /\ PairAdjacent /\ [PoolNext]_poolVars => PoolTypeOK' /\ PairAdjacent'
  <1> SUFFICES ASSUME PoolTypeOK, PairAdjacent, [PoolNext]_poolVars
               PROVE  PoolTypeOK' /\ PairAdjacent'
    OBVIOUS
  <1>1. CASE Client
    BY <1>1, ClientLoadOK, ClientSaveOK, ClientSavePairOK DEF Client
  <1>2. CASE SwapOutResults
    BY <1>2, SwapOutResultsOK
  <1>3. CASE SetStop \/ Join \/ \E w \in Worker : WakeForStop(w)
    BY <1>3, ShutdownOK
  <1>4. ASSUME NEW w \in Worker, PoolWorker(w)
        PROVE  PoolTypeOK' /\ PairAdjacent'
    BY <1>4, PoolWorkerOK
  <1>5. CASE UNCHANGED poolVars
    BY <1>5 DEF poolVars, clientVars, workerVars, PoolTypeOK, WorkerTypeOK, PairAdjacent
  <1>6. QED
    BY <1>1, <1>2, <1>3, <1>4, <1>5 DEF PoolNext, Finished

\* Whatever the client enqueues and whatever the database does, every queue,
\* batch, answer and table keeps its type.
THEOREM PoolTypeCorrect == PoolSpec => []PoolTypeOK
  BY InitOK, PoolInductive, PTL DEF PoolSpec

\* The two heads of a pair stay together from the queue to the transaction.
THEOREM PairsStayAdjacent == PoolSpec => []PairAdjacent
  BY InitOK, PoolInductive, PTL DEF PoolSpec

-----------------------------------------------------------------------------
(* A worker that has ended has nothing left.                               *)

\* Nothing is enqueued after the stop flag, and the flag is up before any
\* worker ends; so what a worker drained stays drained.
ExitInv ==
    /\ exited # {} => stop
    /\ \A w \in exited : /\ slot[w].queue = <<>>
                        /\ batch[w] = <<>>
                        /\ out[w] = <<>>

\* A worker that has left had nothing left to run, and gets nothing more.
LEMMA ExitStep ==
  ASSUME PoolTypeOK, ExitInv, [PoolNext]_poolVars
  PROVE  ExitInv'
  <1>1. CASE Client
    <2>1. exited = {}
      BY <1>1 DEF Client, ClientLoad, ClientSave, ClientSavePair, ExitInv
    <2>2. exited' = exited
      BY <1>1 DEF Client, ClientLoad, ClientSave, ClientSavePair
    <2>3. QED
      BY <2>1, <2>2 DEF ExitInv
  <1>2. CASE SwapOutResults
    BY <1>2 DEF SwapOutResults, ExitInv
  <1>3. CASE SetStop \/ Join \/ \E w \in Worker : WakeForStop(w)
    <2>1. /\ UNCHANGED <<slot, batch, out, exited>>
          /\ stop => stop'
      BY <1>3 DEF SetStop, Join, WakeForStop, workerVars
    <2>2. QED
      BY <2>1 DEF ExitInv
  <1>4. ASSUME NEW w \in Worker, PoolWorker(w)
        PROVE  ExitInv'
    <2>1. CASE WorkerStep(w)
      <3>1. CASE Exit(w)
        BY <3>1 DEF Exit, AtTop, ExitInv
      <3>2. CASE SwapOut(w) \/ RunLoad(w) \/ RunBundle(w) \/ Push(w)
        <4>1. w \notin exited
          BY ZenonT(60), SMTT(60), <3>2 DEF SwapOut, AtTop, RunLoad, RunBundle, Push, ExitInv
        <4>2. /\ UNCHANGED <<stop, exited>>
              /\ \A v \in Worker \ {w} : /\ slot'[v] = slot[v]
                                         /\ batch'[v] = batch[v]
                                         /\ out'[v] = out[v]
          BY ZenonT(60), <3>2 DEF SwapOut, RunLoad, RunBundle, Push, PoolTypeOK, WorkerTypeOK
        <4>3. exited \subseteq Worker \ {w}
          BY <4>1 DEF PoolTypeOK, WorkerTypeOK
        <4>4. QED
          BY ZenonT(60), SMTT(60), <4>2, <4>3 DEF ExitInv
      <3>3. QED
        BY <2>1, <3>1, <3>2 DEF WorkerStep
    <2>2. CASE CheckPredicate(w) \/ FallAsleep(w)
      BY <2>2 DEF CheckPredicate, FallAsleep, workerVars, ExitInv
    <2>3. QED
      BY <1>4, <2>1, <2>2 DEF PoolWorker
  <1>5. CASE UNCHANGED poolVars
    BY <1>5 DEF poolVars, workerVars, ExitInv
  <1>6. QED
    BY <1>1, <1>2, <1>3, <1>4, <1>5 DEF PoolNext, Finished

\* Shutdown loses no job: when a worker's thread has returned, its queue, its
\* batch and the answers it computed are empty.
THEOREM DrainedBeforeExit == PoolSpec => []DrainedOnExit
  <1>1. PoolInit => ExitInv
    BY DEF PoolInit, WorkerInit, WorkersStart, ExitInv
  <1>2. PoolTypeOK /\ ExitInv /\ [PoolNext]_poolVars => ExitInv'
    BY ExitStep
  <1>3. ExitInv => DrainedOnExit
    BY DEF ExitInv, DrainedOnExit, Line
  <1>4. QED
    BY <1>1, <1>2, <1>3, PoolTypeCorrect, PTL DEF PoolSpec

-----------------------------------------------------------------------------
(* What the reply to a save promises: a save reported as done has reached  *)
(* the tables, whichever of the two tries a reconnect allows brought it    *)
(* there.  The invariant says where every row comes from.  A save carries  *)
(* its own number into the row it writes, so the tables hold no row of a   *)
(* job that was not applied; a transaction that changes nothing has then   *)
(* found the row it wanted to write, and that row is its own.              *)

\* Jobs as the client builds them: a save writes its number.
NumberedJob ==
    {x \in Job : x.kind = "SAVE" => x.row.pos = x.no /\ x.no > 0}

\* Answers that promise nothing but what the jobs in s have done.
Truthful(s) == {x \in Answer : x.kind = "SAVE" /\ x.ok => x.no \in s}

JobsNumbered ==
    \A w \in Worker : /\ batch[w] \in Seq(NumberedJob)
                      /\ slot[w].queue \in Seq(NumberedJob)

RowsApplied == \A a \in Account : db[a].row.pos \in applied \cup {0}

RepliesTruthful ==
    /\ \A w \in Worker : out[w] \in Seq(Truthful(applied))
    /\ saveReplies \in Seq(Truthful(applied))
    /\ taken \subseteq Truthful(applied)

Honest == JobsNumbered /\ RowsApplied /\ RepliesTruthful

\* What was true stays true when more jobs are applied.
LEMMA TruthfulGrows ==
  ASSUME NEW s, NEW t, s \subseteq t
  PROVE  /\ Truthful(s) \subseteq Truthful(t)
         /\ \A q \in Seq(Truthful(s)) : q \in Seq(Truthful(t))
  <1>1. Truthful(s) \subseteq Truthful(t)
    BY DEF Truthful
  <1>2. QED
    BY <1>1, SeqMonotonic

\* The answers to loads promise nothing.
LEMMA LoadsTruthful == \A s : LoadResult \subseteq Truthful(s)
  BY DEF Truthful, LoadResult, Answer

-----------------------------------------------------------------------------
(* The client. *)

\* The saves of the client carry their number, whatever slots they carry.
LEMMA SaveJobNumbered ==
  ASSUME NEW a \in Account, NEW n \in Nat \ {0}, NEW slots, NEW w \in Worker, NEW p \in {0, 1}
  PROVE  [SaveJob(a, n, slots, w) EXCEPT !.pairNext = p] \in NumberedJob
         /\ SaveJob(a, n, slots, w) \in NumberedJob
  <1> DEFINE x == SaveJob(a, n, slots, w)
  <1>1. x \in Bundle
    BY SaveJobType
  <1>2. x.kind = "SAVE" /\ x.row.pos = n /\ x.no = n
    BY DEF SaveJob
  <1> HIDE DEF x
  <1>3. [x EXCEPT !.pairNext = p] \in Bundle
    BY <1>1 DEF Bundle
  <1>4. /\ [x EXCEPT !.pairNext = p].kind = "SAVE"
        /\ [x EXCEPT !.pairNext = p].row.pos = n
        /\ [x EXCEPT !.pairNext = p].no = n
    BY <1>1, <1>2 DEF Bundle
  <1> DEFINE y == [x EXCEPT !.pairNext = p]
  <1> HIDE DEF y
  <1>5. x \in NumberedJob /\ y \in NumberedJob
    <2>1. x \in Job /\ y \in Job
      BY <1>1, <1>3 DEF Job, y
    <2>2. y.row.pos = n /\ y.no = n
      BY <1>4 DEF y
    <2>3. n > 0
      OBVIOUS
    <2>4. QED
      BY <1>2, <2>1, <2>2, <2>3 DEF NumberedJob
  <1>6. QED
    BY <1>5 DEF x, y

\* One more numbered bundle in a queue.
LEMMA PushNumbered ==
  ASSUME NEW q \in [Worker -> SlotState], \A v \in Worker : q[v].queue \in Seq(NumberedJob),
         NEW w \in Worker, NEW x \in NumberedJob
  PROVE  \A v \in Worker : PushBundle(q, w, x)[v].queue \in Seq(NumberedJob)
  BY DEF PushBundle

\* What the client enqueues is numbered.
LEMMA HonestClient ==
  ASSUME PoolTypeOK, Honest, Client
  PROVE  Honest'
  <1>1. /\ slot \in [Worker -> SlotState] /\ issued \in Nat
        /\ issued + 1 \in Nat \ {0} /\ issued + 1 + 1 \in Nat \ {0}
    BY TypeSplit, PoolAssumption DEF ClientTypeOK, WorkerTypeOK
  <1>2. \A v \in Worker : slot[v].queue \in Seq(NumberedJob)
    BY DEF Honest, JobsNumbered
  <1>3. UNCHANGED <<batch, out, db, saveReplies, taken, applied>>
    BY DEF Client, ClientLoad, ClientSave, ClientSavePair
  <1>4. ASSUME NEW a \in Account, ClientLoad(a)
        PROVE  \A v \in Worker : slot'[v].queue \in Seq(NumberedJob)
    <2> DEFINE x == [kind |-> "LOAD", account |-> a, session |-> issued + 1]
    <2>1. x \in NumberedJob /\ x.account = a
      BY <1>1 DEF NumberedJob, Job, LoadJob, Session
    <2>2. slot' = slot \/ slot' = EnqueueLoad(slot, x)
      BY <1>4 DEF ClientLoad
    <2> HIDE DEF x
    <2>3. \A v \in Worker : EnqueueLoad(slot, x)[v].queue \in Seq(NumberedJob)
      BY <1>1, <1>2, <2>1, SlotIndexType DEF EnqueueLoad
    <2>4. QED
      BY <1>2, <2>2, <2>3
  <1>5. ASSUME NEW a \in Account, ClientSave(a)
        PROVE  \A v \in Worker : slot'[v].queue \in Seq(NumberedJob)
    <2>1. CASE SaveFits(slot, SlotIndex(a))
      <3>1. PICK slots \in {{}, Slot} :
              slot' = EnqueueSave(slot, SaveJob(a, issued + 1, slots, SlotIndex(a)))
        BY <1>5, <2>1 DEF ClientSave
      <3> DEFINE x == SaveJob(a, issued + 1, slots, SlotIndex(a))
      <3>2. x \in NumberedJob /\ x.account = a
        <4>1. 0 \in {0, 1} /\ SlotIndex(a) \in Worker
          BY SlotIndexType
        <4>2. x \in NumberedJob
          BY <1>1, <4>1, SaveJobNumbered
        <4>3. QED
          BY <4>2 DEF SaveJob
      <3>3. slot' = PushBundle(slot, SlotIndex(a), x)
        BY <3>1, <3>2 DEF EnqueueSave
      <3> HIDE DEF x
      <3>4. QED
        BY <1>1, <1>2, <3>2, <3>3, SlotIndexType, PushNumbered
    <2>2. CASE ~SaveFits(slot, SlotIndex(a))
      BY <1>2, <1>5, <2>2 DEF ClientSave
    <2>3. QED
      BY <2>1, <2>2
  <1>6. ASSUME NEW a \in Account, NEW b \in Account, ClientSavePair(a, b)
        PROVE  \A v \in Worker : slot'[v].queue \in Seq(NumberedJob)
    <2> DEFINE w == PairSlot(a, b)
               x0 == SaveJob(a, issued + 1, Slot, w)
               y0 == SaveJob(b, issued + 1 + 1, Slot, w)
               x == [x0 EXCEPT !.pairNext = 1]
               y == [y0 EXCEPT !.pairNext = 0]
    <2>1. CASE PairFits(slot, w)
      <3>1. slot' = EnqueueSavePair(slot, x0, y0)
        BY <1>6, <2>1 DEF ClientSavePair
      <3>2. w \in Worker
        BY PairSlotType
      <3>3. x0 \in Bundle /\ x0.account = a /\ y0.account = b
        BY <1>1, <3>2, SaveJobType
      <3>4. x \in NumberedJob /\ y \in NumberedJob /\ x \in Bundle
        BY <1>1, <3>2, <3>3, SaveJobNumbered DEF Bundle
      <3>5. slot' = PushBundle(PushBundle(slot, w, x), w, y)
        BY <3>1, <3>3 DEF EnqueueSavePair
      <3> HIDE DEF x, y, w
      <3> DEFINE mid == PushBundle(slot, w, x)
      <3>6. mid \in [Worker -> SlotState]
        BY <1>1, <3>2, <3>4, PushBundleType
      <3>7. \A v \in Worker : mid[v].queue \in Seq(NumberedJob)
        BY <1>1, <1>2, <3>2, <3>4, PushNumbered
      <3> HIDE DEF mid
      <3>8. QED
        BY <3>2, <3>4, <3>5, <3>6, <3>7, PushNumbered DEF mid
    <2>2. CASE ~PairFits(slot, w)
      BY <1>2, <1>6, <2>2 DEF ClientSavePair
    <2>3. QED
      BY <2>1, <2>2
  <1>7. \A v \in Worker : slot'[v].queue \in Seq(NumberedJob)
    BY <1>4, <1>5, <1>6 DEF Client
  <1>8. QED
    BY <1>3, <1>7 DEF Honest, JobsNumbered, RowsApplied, RepliesTruthful, Truthful

-----------------------------------------------------------------------------
(* The workers. *)

\* A job that ends well has reached the tables, at the first or the second try.
LEMMA DoneIsApplied ==
  ASSUME NEW w, NEW txn \in BOOLEAN, NEW reached, Executes(w, txn, "OK", reached)
  PROVE  reached
  <1>1. \A t \in Tries(txn) : t.r = "OK" => t.applied
    BY DEF Tries
  <1>2. \A t \in FirstTry(w, txn) : t.r = "OK" => t.applied
    BY <1>1 DEF FirstTry, NotTried
  <1>3. QED
    BY <1>1, <1>2 DEF Executes

\* A bundle that is written leaves rows of applied jobs only, and answers for
\* no job that is not applied.
LEMMA HonestBundle ==
  ASSUME PoolTypeOK, PairAdjacent, Honest, NEW w \in Worker, RunBundle(w),
         applied' = applied \cup AppliedBy(w), UNCHANGED taken
  PROVE  Honest'
  <1> DEFINE b == batch[w]
             heads == Heads(b)
             n == Len(heads)
  <1>1. /\ b \in Seq(Job) /\ PairAdjacentIn(b) /\ b # <<>> /\ Head(b).kind = "SAVE"
        /\ b \in Seq(NumberedJob) /\ batch \in [Worker -> Seq(Job)]
        /\ out \in [Worker -> Seq(Answer)] /\ db \in [Account -> [row : Row, bag : Bag]]
    BY ZenonT(60), SMTT(60)
       DEF RunBundle, PoolTypeOK, WorkerTypeOK, PairAdjacent, Honest, JobsNumbered
  <1>2. heads \in Seq(Bundle) /\ n \in {1, 2} /\ n <= Len(b)
    BY <1>1, HeadsType
  <1>3. PICK r \in {"OK", "QUERY_ERROR", "LOST"}, reached \in BOOLEAN :
          /\ Executes(w, n > 1 \/ CarriesSlots(heads[1]), r, reached)
          /\ db' = IF reached
                   THEN [a \in Account |->
                           IF \E i \in 1 .. n : heads[i].account = a
                           THEN Written(db[a], heads[CHOOSE i \in 1 .. n :
                                                       heads[i].account = a])
                           ELSE db[a]]
                   ELSE db
          /\ out' = [out EXCEPT ![w] = [i \in 1 .. n |-> ReplyTo(heads[i], r = "OK")]]
    BY ZenonT(60), SMTT(60) DEF RunBundle
  <1>4. /\ batch' = [batch EXCEPT ![w] = SubSeq(b, n + 1, Len(b))]
        /\ UNCHANGED <<slot, results, saveReplies, stop, exited>>
    BY DEF RunBundle
  <1>5. \A i \in 1 .. n : /\ heads[i] = b[i] /\ heads[i] \in Bundle
                          /\ heads[i].row.pos = heads[i].no /\ heads[i].no \in Nat \ {0}
    <2>1. \A i \in 1 .. n : heads[i] = b[i] /\ heads[i] \in Bundle
      BY <1>1, <1>2 DEF Heads
    <2>2. \A i \in 1 .. n : b[i] \in NumberedJob
      BY <1>1, <1>2
    <2>3. QED
      BY <2>1, <2>2 DEF NumberedJob, Bundle
  <1>6. \A i, j \in 1 .. n : heads[i].account = heads[j].account => i = j
    <2>1. CASE n = 1
      BY <2>1
    <2>2. CASE n = 2
      <3>1. Head(b).pairNext = 1
        BY <2>2 DEF Heads
      <3>2. 1 \in 1 .. Len(b) /\ b[1] = Head(b)
        BY <1>1
      <3>3. b[1 + 1].account # b[1].account
        BY <1>1, <3>1, <3>2 DEF PairAdjacentIn
      <3>4. QED
        BY <1>5, <2>2, <3>3
    <2>3. QED
      BY <1>2, <2>1, <2>2
  <1>7. applied \subseteq applied'
    OBVIOUS
  <1> HIDE DEF n, heads, b
  <1>8. JobsNumbered'
    <2>1. n \in Nat /\ n <= Len(b) /\ Len(b) \in Nat
      BY <1>1, <1>2
    <2>2. SubSeq(b, n + 1, Len(b)) \in Seq(NumberedJob)
      <3>1. \A i \in n + 1 .. Len(b) : b[i] \in NumberedJob
        BY <1>1, <2>1
      <3>2. QED
        BY <1>1, <2>1, <3>1, SubSeqProperties
    <2>3. QED
      BY <1>1, <1>4, <2>2 DEF Honest, JobsNumbered
  <1>9. Range(heads) = {heads[i] : i \in 1 .. n}
    BY <1>2 DEF Range, n
  <1>10. db' # db => \A i \in 1 .. n : heads[i].no \in applied'
    <2>1. ASSUME db' # db, NEW i \in 1 .. n PROVE heads[i].no \in applied'
      <3>1. AppliedBy(w) = Numbers(Range(heads))
        BY <2>1 DEF AppliedBy, heads, b
      <3>2. NumberOf(heads[i]) = heads[i].no
        BY <1>5 DEF Bundle, NumberOf
      <3>3. heads[i] \in Range(heads)
        BY <1>9
      <3>4. QED
        BY <3>1, <3>2, <3>3 DEF Numbers
    <2>2. QED
      BY <2>1
  <1>11. reached => \A i \in 1 .. n : db'[heads[i].account].row.pos = heads[i].no
    <2>1. ASSUME reached, NEW i \in 1 .. n
          PROVE  db'[heads[i].account].row.pos = heads[i].no
      <3> DEFINE a == heads[i].account
      <3>1. a \in Account
        BY <1>5 DEF Bundle
      <3>2. (CHOOSE j \in 1 .. n : heads[j].account = a) = i
        BY <1>6
      <3>3. db'[a] = Written(db[a], heads[i])
        BY <1>3, <2>1, <3>1, <3>2
      <3>4. QED
        BY <1>5, <3>3 DEF Written
    <2>2. QED
      BY <2>1
  <1>12. RowsApplied'
    <2>1. CASE db' = db
      BY <1>7, <2>1 DEF Honest, RowsApplied
    <2>2. CASE db' # db
      <3>1. ASSUME NEW a \in Account PROVE db'[a].row.pos \in applied' \cup {0}
        <4>1. CASE \E i \in 1 .. n : heads[i].account = a
          <5>1. PICK i \in 1 .. n : heads[i].account = a
            BY <4>1
          <5>2. reached
            BY <1>3, <2>2
          <5>3. db'[a].row.pos = heads[i].no
            BY <1>11, <5>1, <5>2
          <5>4. heads[i].no \in applied'
            BY <1>10, <2>2
          <5>5. QED
            BY <5>3, <5>4
        <4>2. CASE ~ \E i \in 1 .. n : heads[i].account = a
          <5>1. db'[a] = db[a]
            BY <1>3, <4>2
          <5>2. QED
            BY <1>7, <5>1 DEF Honest, RowsApplied
        <4>3. QED
          BY <4>1, <4>2
      <3>2. QED
        BY <3>1 DEF RowsApplied
    <2>3. QED
      BY <2>1, <2>2
  <1>13. r = "OK" => \A i \in 1 .. n : heads[i].no \in applied'
    <2>1. ASSUME r = "OK", NEW i \in 1 .. n PROVE heads[i].no \in applied'
      <3>1. (n > 1 \/ CarriesSlots(heads[1])) \in BOOLEAN
        BY DEF CarriesSlots
      <3>2. reached
        BY <1>3, <2>1, <3>1, DoneIsApplied
      <3>3. CASE db' # db
        BY <1>10, <3>3
      <3>4. CASE db' = db
        <4>1. heads[i].account \in Account /\ heads[i].no \in Nat \ {0}
          BY <1>5 DEF Bundle
        <4>2. db[heads[i].account].row.pos = heads[i].no
          BY <1>11, <3>2, <3>4
        <4>3. heads[i].no \in applied \cup {0}
          BY <4>1, <4>2 DEF Honest, RowsApplied
        <4>4. QED
          BY <1>7, <4>1, <4>3
      <3>5. QED
        BY <3>3, <3>4
    <2>2. QED
      BY <2>1
  <1>14. RepliesTruthful'
    <2>1. \A i \in 1 .. n : ReplyTo(heads[i], r = "OK") \in Truthful(applied')
      <3>1. ASSUME NEW i \in 1 .. n PROVE ReplyTo(heads[i], r = "OK") \in Truthful(applied')
        <4>1. (r = "OK") \in BOOLEAN /\ heads[i] \in Bundle
          BY <1>5
        <4>2. ReplyTo(heads[i], r = "OK") \in SaveReply
          BY <4>1, ReplyToType
        <4>3. /\ ReplyTo(heads[i], r = "OK").no = heads[i].no
              /\ ReplyTo(heads[i], r = "OK").ok = (r = "OK")
          BY DEF ReplyTo
        <4>4. QED
          BY <1>13, <4>2, <4>3 DEF Truthful, Answer
      <3>2. QED
        BY <3>1
    <2>2. [i \in 1 .. n |-> ReplyTo(heads[i], r = "OK")] \in Seq(Truthful(applied'))
      <3>1. n \in Nat
        BY <1>2
      <3>2. QED
        BY <2>1, <3>1
    <2>3. \A v \in Worker : out'[v] \in Seq(Truthful(applied'))
      <3>1. \A v \in Worker : out[v] \in Seq(Truthful(applied'))
        BY <1>7, TruthfulGrows DEF Honest, RepliesTruthful
      <3>2. QED
        BY <1>1, <1>3, <2>2, <3>1
    <2>4. saveReplies' \in Seq(Truthful(applied')) /\ taken' \subseteq Truthful(applied')
      BY <1>4, <1>7, TruthfulGrows DEF Honest, RepliesTruthful
    <2>5. QED
      BY <2>3, <2>4 DEF RepliesTruthful, Truthful
  <1>15. QED
    BY <1>8, <1>12, <1>14 DEF Honest

\* A worker that takes its queue, runs a load or pushes an answer promises
\* nothing new.
LEMMA HonestWorker ==
  ASSUME PoolTypeOK, Honest, NEW w \in Worker,
         SwapOut(w) \/ Exit(w) \/ RunLoad(w) \/ Push(w),
         UNCHANGED <<taken, applied>>
  PROVE  Honest'
  <1>1. /\ batch \in [Worker -> Seq(Job)] /\ out \in [Worker -> Seq(Answer)]
        /\ slot \in [Worker -> SlotState] /\ results \in Seq(LoadResult)
    BY DEF PoolTypeOK, WorkerTypeOK
  <1>2. /\ \A v \in Worker : /\ batch[v] \in Seq(NumberedJob)
                             /\ slot[v].queue \in Seq(NumberedJob)
                             /\ out[v] \in Seq(Truthful(applied))
        /\ saveReplies \in Seq(Truthful(applied)) /\ taken \subseteq Truthful(applied)
    BY DEF Honest, JobsNumbered, RepliesTruthful
  <1>3. db' = db
    BY DEF SwapOut, Exit, RunLoad, Push
  <1>4. RowsApplied'
    BY <1>3 DEF Honest, RowsApplied
  <1>5. JobsNumbered'
    <2>1. CASE SwapOut(w)
      BY <1>1, <1>2, <2>1 DEF SwapOut, JobsNumbered
    <2>2. CASE RunLoad(w)
      <3>1. Tail(batch[w]) \in Seq(NumberedJob)
        BY <1>2, <2>2 DEF RunLoad
      <3>2. QED
        BY <1>1, <1>2, <2>2, <3>1 DEF RunLoad, JobsNumbered
    <2>3. CASE Exit(w) \/ Push(w)
      BY <1>2, <2>3 DEF Exit, Push, JobsNumbered
    <2>4. QED
      BY <2>1, <2>2, <2>3
  <1>6. \A v \in Worker : out'[v] \in Seq(Truthful(applied))
    <2>1. CASE RunLoad(w)
      <3>1. PICK r : out' = [out EXCEPT ![w] = <<ResultOf(Head(batch[w]), r)>>]
        BY <2>1 DEF RunLoad
      <3>2. Head(batch[w]) \in LoadJob
        BY <1>1, <2>1 DEF RunLoad, Job, Bundle
      <3>3. ResultOf(Head(batch[w]), r) \in Truthful(applied)
        BY <3>2, ResultOfType, LoadsTruthful DEF PoolTypeOK
      <3>4. QED
        BY <1>1, <1>2, <3>1, <3>3
    <2>2. CASE Push(w)
      <3>1. Tail(out[w]) \in Seq(Truthful(applied))
        BY <1>2, <2>2 DEF Push
      <3>2. QED
        BY <1>1, <1>2, <2>2, <3>1 DEF Push
    <2>3. CASE SwapOut(w) \/ Exit(w)
      BY <1>2, <2>3 DEF SwapOut, Exit
    <2>4. QED
      BY <2>1, <2>2, <2>3
  <1>7. saveReplies' \in Seq(Truthful(applied))
    <2>1. CASE Push(w) /\ Head(out[w]).kind # "LOAD"
      <3>1. Head(out[w]) \in Truthful(applied)
        BY <1>2, <2>1 DEF Push
      <3>2. saveReplies' = Append(saveReplies, Head(out[w]))
        BY <2>1 DEF Push
      <3>3. QED
        BY <1>2, <3>1, <3>2
    <2>2. CASE ~(Push(w) /\ Head(out[w]).kind # "LOAD")
      BY <1>2, <2>2 DEF SwapOut, Exit, RunLoad, Push
    <2>3. QED
      BY <2>1, <2>2
  <1>8. RepliesTruthful'
    BY <1>2, <1>6, <1>7 DEF RepliesTruthful, Truthful
  <1>9. QED
    BY <1>4, <1>5, <1>8 DEF Honest

\* The invariant holds of every step of the pool.
LEMMA HonestStep ==
  ASSUME PoolTypeOK, PairAdjacent, Honest, [PoolNext]_poolVars
  PROVE  Honest'
  <1>1. CASE Client
    BY <1>1, HonestClient
  <1>2. CASE SwapOutResults
    <2>1. Range(results) \subseteq Truthful(applied)
      BY LoadsTruthful DEF PoolTypeOK, WorkerTypeOK, Range
    <2>2. Range(saveReplies) \subseteq Truthful(applied)
      BY DEF Honest, RepliesTruthful, Range
    <2>3. /\ taken' \subseteq Truthful(applied) /\ saveReplies' \in Seq(Truthful(applied))
          /\ UNCHANGED <<slot, batch, out, db, applied>>
      BY <1>2, <2>1, <2>2 DEF SwapOutResults, Honest, RepliesTruthful
    <2>4. QED
      BY <2>3 DEF Honest, JobsNumbered, RowsApplied, RepliesTruthful, Truthful
  <1>3. ASSUME NEW w \in Worker, WorkerStep(w), applied' = applied \cup AppliedBy(w),
               UNCHANGED taken
        PROVE  Honest'
    <2>1. CASE RunBundle(w)
      BY <1>3, <2>1, HonestBundle
    <2>2. CASE SwapOut(w) \/ Exit(w) \/ RunLoad(w) \/ Push(w)
      <3>1. db' = db
        BY <2>2 DEF SwapOut, Exit, RunLoad, Push
      <3>2. applied' = applied
        BY <1>3, <3>1 DEF AppliedBy
      <3>3. QED
        BY <1>3, <2>2, <3>2, HonestWorker
    <2>3. QED
      BY <1>3, <2>1, <2>2 DEF WorkerStep
  <1>4. CASE UNCHANGED <<workerVars, taken, applied>>
    BY <1>4 DEF workerVars, Honest, JobsNumbered, RowsApplied, RepliesTruthful, Truthful
  <1>5. CASE SetStop
    BY <1>5 DEF SetStop, Honest, JobsNumbered, RowsApplied, RepliesTruthful, Truthful
  <1>6. QED
    BY <1>1, <1>2, <1>3, <1>4, <1>5
       DEF PoolNext, Join, WakeForStop, PoolWorker, CheckPredicate, FallAsleep, Finished,
           poolVars, clientVars

\* Nothing is written and nothing is promised at the start.
LEMMA HonestInit == PoolInit => Honest
  <1> SUFFICES ASSUME PoolInit PROVE Honest
    OBVIOUS
  <1>1. \A S : <<>> \in Seq(S)
    OBVIOUS
  <1>2. /\ \A w \in Worker : batch[w] = <<>> /\ slot[w].queue = <<>> /\ out[w] = <<>>
        /\ saveReplies = <<>> /\ taken = {}
    BY DEF PoolInit, WorkerInit, WorkersStart
  <1>3. \A a \in Account : db[a].row.pos = 0
    BY DEF PoolInit, WorkerInit, NoRow
  <1>4. QED
    BY <1>1, <1>2, <1>3 DEF Honest, JobsNumbered, RowsApplied, RepliesTruthful

\* The invariant gives the promise.
LEMMA HonestReplies ==
  ASSUME Honest
  PROVE  OkMeansWritten
  <1>1. /\ taken \subseteq Truthful(applied)
        /\ Range(saveReplies) \subseteq Truthful(applied)
        /\ \A w \in Worker : Range(out[w]) \subseteq Truthful(applied)
    BY DEF Honest, RepliesTruthful, Range
  <1>2. QED
    BY <1>1 DEF OkMeansWritten, Truthful

\* A save is reported as done only if its transaction reached the tables, on
\* whichever try (DBWorker::ExecuteSaveBundle and the retry of WorkerThread).
THEOREM OkIsWritten == PoolSpec => []OkMeansWritten
  <1>1. PoolTypeOK /\ PairAdjacent /\ Honest /\ [PoolNext]_poolVars => Honest'
    BY HonestStep
  <1>2. Honest => OkMeansWritten
    BY HonestReplies
  <1>3. QED
    BY <1>1, <1>2, HonestInit, PoolTypeCorrect, PairsStayAdjacent, PTL DEF PoolSpec


-----------------------------------------------------------------------------
(* Counting in sequences. *)

Entry == Job \cup Answer

\* How often number n occurs in a sequence.
Times(seq, n) == Cardinality(Occurrences(seq, n))

\* The places of a number in a sequence are finitely many.
LEMMA OccurrencesFinite ==
  ASSUME NEW s \in Seq(Entry), NEW n
  PROVE  /\ Occurrences(s, n) \subseteq 1 .. Len(s)
         /\ IsFiniteSet(Occurrences(s, n))
         /\ Times(s, n) \in Nat
  <1>1. Occurrences(s, n) \in SUBSET (1 .. Len(s))
    BY DEF Occurrences
  <1>2. IsFiniteSet(1 .. Len(s))
    BY FS_Interval, LenProperties
  <1>3. QED
    BY <1>1, <1>2, FS_Subset, FS_CardinalityType DEF Times

\* A number occurs in two sequences together as often as in both apart.
LEMMA TimesConcat ==
  ASSUME NEW s \in Seq(Entry), NEW t \in Seq(Entry), NEW n
  PROVE  Times(s \o t, n) = Times(s, n) + Times(t, n)
  <1> DEFINE S == Occurrences(s, n)
             T == Occurrences(t, n)
             U == {i \in Len(s) + 1 .. Len(s) + Len(t) : NumberOf(t[i - Len(s)]) = n}
             f == [i \in T |-> i + Len(s)]
  <1>1. /\ Len(s) \in Nat /\ Len(t) \in Nat
        /\ s \o t \in Seq(Entry)
        /\ DOMAIN (s \o t) = 1 .. Len(s) + Len(t)
        /\ DOMAIN s = 1 .. Len(s) /\ DOMAIN t = 1 .. Len(t)
        /\ \A i \in 1 .. Len(s) + Len(t) :
             (s \o t)[i] = IF i <= Len(s) THEN s[i] ELSE t[i - Len(s)]
    BY ConcatProperties, LenProperties
  <1>2. Occurrences(s \o t, n) = S \cup U
    BY <1>1 DEF Occurrences
  <1>3. S \cap U = {}
    BY <1>1 DEF Occurrences
  <1>4. f \in Bijection(T, U)
    <2>1. T = {j \in 1 .. Len(t) : NumberOf(t[j]) = n}
      BY <1>1 DEF Occurrences
    <2>2. f \in [T -> U]
      BY <1>1, <2>1
    <2>3. \A i, j \in T : f[i] = f[j] => i = j
      BY <1>1, <2>1
    <2>4. \A i \in U : i - Len(s) \in T /\ f[i - Len(s)] = i
      BY <1>1, <2>1
    <2>5. QED
      BY <2>2, <2>3, <2>4 DEF Bijection, Injection, Surjection, IsInjective
  <1>5. IsFiniteSet(T) /\ IsFiniteSet(S) /\ Cardinality(S) \in Nat /\ Cardinality(T) \in Nat
    BY OccurrencesFinite DEF Times
  <1>6. IsFiniteSet(U) /\ Cardinality(U) = Cardinality(T)
    BY <1>4, <1>5, FS_Bijection DEF ExistsBijection
  <1> HIDE DEF S, T, U
  <1>7. Cardinality(S \cup U) = Cardinality(S) + Cardinality(U) - Cardinality(S \cap U)
    BY <1>5, <1>6, FS_Union
  <1>8. Cardinality(S \cap U) = 0
    BY <1>3, FS_EmptySet
  <1>9. QED
    BY <1>2, <1>5, <1>6, <1>7, <1>8 DEF Times, S, T

\* A sequence of one, and of none.
LEMMA TimesOne ==
  ASSUME NEW x, NEW n
  PROVE  /\ Times(<<x>>, n) = IF NumberOf(x) = n THEN 1 ELSE 0
         /\ Times(<<>>, n) = 0
  <1>1. Occurrences(<<x>>, n) = IF NumberOf(x) = n THEN {1} ELSE {}
    BY DEF Occurrences
  <1>2. Occurrences(<<>>, n) = {}
    BY DEF Occurrences
  <1>3. QED
    BY <1>1, <1>2, FS_EmptySet, FS_Singleton DEF Times

\* One more at the end.
LEMMA TimesAppend ==
  ASSUME NEW s \in Seq(Entry), NEW x \in Entry, NEW n
  PROVE  Times(Append(s, x), n) = Times(s, n) + IF NumberOf(x) = n THEN 1 ELSE 0
  <1>1. Append(s, x) = s \o <<x>> /\ <<x>> \in Seq(Entry)
    BY AppendIsConcat
  <1>2. Times(s \o <<x>>, n) = Times(s, n) + Times(<<x>>, n)
    BY <1>1, TimesConcat
  <1>3. Times(<<x>>, n) = IF NumberOf(x) = n THEN 1 ELSE 0
    BY TimesOne
  <1>4. QED
    BY <1>1, <1>2, <1>3

\* One less at the front.
LEMMA TimesTail ==
  ASSUME NEW s \in Seq(Entry), s # <<>>, NEW n
  PROVE  Times(s, n) = (IF NumberOf(Head(s)) = n THEN 1 ELSE 0) + Times(Tail(s), n)
  <1>1. s = <<Head(s)>> \o Tail(s) /\ <<Head(s)>> \in Seq(Entry) /\ Tail(s) \in Seq(Entry)
    BY HeadTailProperties, ConcatProperties, SeqEqual
  <1> DEFINE h == <<Head(s)>>
             t == Tail(s)
  <1>2. Times(h, n) = IF NumberOf(Head(s)) = n THEN 1 ELSE 0
    BY TimesOne
  <1> HIDE DEF h, t
  <1>3. Times(h \o t, n) = Times(h, n) + Times(t, n)
    BY ZenonT(60), <1>1, TimesConcat DEF h, t
  <1>4. s = h \o t
    BY <1>1 DEF h, t
  <1>5. QED
    BY <1>2, <1>3, <1>4 DEF t

\* A number that occurs somewhere occurs at a place, and conversely.
LEMMA TimesZero ==
  ASSUME NEW s \in Seq(Entry), NEW n
  PROVE  Times(s, n) = 0 <=> \A i \in 1 .. Len(s) : NumberOf(s[i]) # n
  <1>1. Times(s, n) = 0 <=> Occurrences(s, n) = {}
    BY OccurrencesFinite, FS_EmptySet DEF Times
  <1>2. QED
    BY <1>1, LenProperties DEF Occurrences

-----------------------------------------------------------------------------
(* What a step does to the lines. *)

\* Both stand for the same job, which may have been run in between.
Like(x, y) == /\ x.kind = y.kind
              /\ x.account = y.account
              /\ x.session = y.session
              /\ NumberOf(x) = NumberOf(y)

LikeLine(s, t) == Len(s) = Len(t) /\ \A i \in 1 .. Len(s) : Like(s[i], t[i])

\* What is in three sequences one after the other.
LEMMA ThreeParts ==
  ASSUME NEW s \in Seq(Entry), NEW t \in Seq(Entry), NEW u \in Seq(Entry)
  PROVE  /\ s \o t \o u \in Seq(Entry)
         /\ Len(s \o t \o u) = Len(s) + Len(t) + Len(u)
         /\ \A i \in 1 .. Len(s) + Len(t) + Len(u) :
              (s \o t \o u)[i] = IF i <= Len(s) THEN s[i]
                                 ELSE IF i <= Len(s) + Len(t) THEN t[i - Len(s)]
                                 ELSE u[i - Len(s) - Len(t)]
  <1>1. Len(s) \in Nat /\ Len(t) \in Nat /\ Len(u) \in Nat
    BY LenProperties
  <1>2. /\ s \o t \in Seq(Entry) /\ Len(s \o t) = Len(s) + Len(t)
        /\ \A i \in 1 .. Len(s) + Len(t) :
             (s \o t)[i] = IF i <= Len(s) THEN s[i] ELSE t[i - Len(s)]
    BY ConcatProperties
  <1> DEFINE st == s \o t
  <1> HIDE DEF st
  <1>3. /\ st \o u \in Seq(Entry) /\ Len(st \o u) = Len(st) + Len(u)
        /\ \A i \in 1 .. Len(st) + Len(u) :
             (st \o u)[i] = IF i <= Len(st) THEN st[i] ELSE u[i - Len(st)]
    BY <1>2, ConcatProperties DEF st
  <1>4. QED
    BY <1>1, <1>2, <1>3 DEF st

\* The parts of a line are sequences of jobs and answers.
LEMMA PartsType ==
  ASSUME WorkerTypeOK, NEW w \in Worker
  PROVE  /\ out[w] \in Seq(Answer) /\ batch[w] \in Seq(Job) /\ slot[w].queue \in Seq(Job)
         /\ out[w] \in Seq(Entry) /\ batch[w] \in Seq(Entry) /\ slot[w].queue \in Seq(Entry)
         /\ results \in Seq(Entry) /\ saveReplies \in Seq(Entry)
  <1>1. /\ out[w] \in Seq(Answer) /\ batch[w] \in Seq(Job) /\ slot[w].queue \in Seq(Job)
        /\ results \in Seq(LoadResult) /\ saveReplies \in Seq(SaveReply)
    BY DEF WorkerTypeOK, SlotState
  <1>2. /\ Job \subseteq Entry /\ Answer \subseteq Entry
        /\ LoadResult \subseteq Entry /\ SaveReply \subseteq Entry
    BY DEF Entry, Answer
  <1>3. QED
    BY <1>1, <1>2, SeqMonotonic

\* The line of a worker is a sequence.
LEMMA LineType ==
  ASSUME WorkerTypeOK, NEW w \in Worker
  PROVE  Line(w) \in Seq(Entry)
  BY PartsType, ThreeParts DEF Line

\* A line whose parts do not change does not change.
LEMMA LineFrame ==
  ASSUME WorkerTypeOK, NEW w \in Worker,
         out'[w] = out[w], batch'[w] = batch[w], slot'[w].queue = slot[w].queue
  PROVE  Line(w)' = Line(w)
  BY DEF Line

\* Every sequence is like itself.
LEMMA LikeItself == \A s : LikeLine(s, s)
  BY DEF LikeLine, Like

\* Taking the queue over as the batch leaves the line as it is.
LEMMA SwapOutLine ==
  ASSUME WorkerTypeOK, NEW w \in Worker, SwapOut(w)
  PROVE  Line(w)' = Line(w)
  <1>1. out[w] = <<>> /\ batch[w] = <<>> /\ out' = out
        /\ batch'[w] = slot[w].queue /\ slot'[w].queue = <<>>
    BY DEF SwapOut, AtTop, WorkerTypeOK
  <1>2. slot[w].queue \in Seq(Entry)
    BY PartsType
  <1>3. Line(w)' = <<>> \o slot[w].queue \o <<>>
    BY <1>1 DEF Line
  <1>4. Line(w) = <<>> \o <<>> \o slot[w].queue
    BY <1>1 DEF Line
  <1>5. QED
    BY <1>2, <1>3, <1>4, ConcatEmptySeq, EmptySeq

\* What is left when n jobs are taken off the front.
LEMMA RestOf ==
  ASSUME NEW b \in Seq(Entry), NEW n \in Nat, n <= Len(b)
  PROVE  /\ SubSeq(b, n + 1, Len(b)) \in Seq(Entry)
         /\ Len(SubSeq(b, n + 1, Len(b))) = Len(b) - n
         /\ \A i \in 1 .. Len(b) - n : SubSeq(b, n + 1, Len(b))[i] = b[n + i]
  <1>1. Len(b) \in Nat
    BY LenProperties
  <1>2. \A i \in n + 1 .. Len(b) : b[i] \in Entry
    BY ElementOfSeq
  <1>3. QED
    BY <1>1, <1>2, SubSeqProperties

\* Answers stand where their jobs stood.
LEMMA AnsweredLine ==
  ASSUME NEW o \in Seq(Entry), NEW b \in Seq(Entry), NEW q \in Seq(Entry),
         NEW n \in Nat, n <= Len(b), Len(o) = n,
         \A i \in 1 .. n : Like(o[i], b[i]),
         NEW rest \in Seq(Entry), Len(rest) = Len(b) - n,
         \A i \in 1 .. Len(b) - n : rest[i] = b[n + i]
  PROVE  LikeLine(o \o rest \o q, <<>> \o b \o q)
  <1>1. Len(b) \in Nat /\ Len(q) \in Nat
    BY LenProperties
  <1>4. <<>> \in Seq(Entry) /\ Len(<<>>) = 0
    BY EmptySeq
  <1> DEFINE s == o \o rest \o q
             e == <<>>
             t == e \o b \o q
  <1>5. /\ Len(s) = n + (Len(b) - n) + Len(q)
        /\ \A i \in 1 .. n + (Len(b) - n) + Len(q) :
             s[i] = IF i <= n THEN o[i]
                    ELSE IF i <= n + (Len(b) - n) THEN rest[i - n]
                    ELSE q[i - n - (Len(b) - n)]
    <2> HIDE DEF s
    <2>1. /\ Len(s) = Len(o) + Len(rest) + Len(q)
          /\ \A i \in 1 .. Len(o) + Len(rest) + Len(q) :
               s[i] = IF i <= Len(o) THEN o[i]
                      ELSE IF i <= Len(o) + Len(rest) THEN rest[i - Len(o)]
                      ELSE q[i - Len(o) - Len(rest)]
      BY ZenonT(120), ThreeParts DEF s
    <2>2. QED
      BY <2>1
  <1> HIDE DEF e
  <1>6. /\ Len(t) = Len(b) + Len(q)
        /\ \A i \in 1 .. Len(b) + Len(q) :
             t[i] = IF i <= Len(b) THEN b[i] ELSE q[i - Len(b)]
    <2>1. e \in Seq(Entry) /\ Len(e) = 0
      BY <1>4 DEF e
    <2> HIDE DEF t
    <2>2. /\ Len(t) = 0 + Len(b) + Len(q)
          /\ \A i \in 1 .. 0 + Len(b) + Len(q) :
               t[i] = IF i <= 0 THEN e[i]
                      ELSE IF i <= 0 + Len(b) THEN b[i - 0] ELSE q[i - 0 - Len(b)]
      BY <2>1, ThreeParts DEF t
    <2>3. QED
      BY <1>1, <2>2
  <1> HIDE DEF s, t
  <1>7. Len(s) = Len(t)
    BY <1>1, <1>5, <1>6
  <1>8. ASSUME NEW i \in 1 .. Len(s) PROVE Like(s[i], t[i])
    <2>1. CASE i <= n
      BY <1>1, <1>5, <1>6, <2>1
    <2>2. CASE i > n
      <3>1. CASE i <= Len(b)
        <4>1. i - n \in 1 .. Len(b) - n /\ n + (i - n) = i
          BY SMTT(60), <1>1, <1>5, <2>2, <3>1
        <4>2. rest[i - n] = b[i]
          BY <4>1
        <4>3. QED
          BY <1>1, <1>5, <1>6, <2>2, <3>1, <4>2 DEF Like
      <3>2. CASE i > Len(b)
        <4>1. i - n - (Len(b) - n) = i - Len(b)
          BY <1>1, <1>5
        <4>2. QED
          BY SMTT(120), <1>1, <1>5, <1>6, <2>2, <3>2, <4>1 DEF Like
      <3>3. QED
        BY <1>1, <1>5, <3>1, <3>2
    <2>3. QED
      BY <1>1, <1>5, <2>1, <2>2
  <1>9. QED
    BY <1>7, <1>8 DEF LikeLine, s, t, e

\* So are the answers a worker has after a step.
LEMMA OutType ==
  ASSUME WorkerTypeOK', NEW w \in Worker
  PROVE  out'[w] \in Seq(Entry)
  <1>1. out'[w] \in Seq(Answer) /\ Answer \subseteq Entry
    BY DEF WorkerTypeOK, Entry
  <1>2. QED
    BY <1>1, SeqMonotonic

\* A load is replaced by its result.
LEMMA RunLoadLine ==
  ASSUME WorkerTypeOK, WorkerTypeOK', NEW w \in Worker, RunLoad(w)
  PROVE  LikeLine(Line(w)', Line(w))
  <1>1. PICK r : out' = [out EXCEPT ![w] = <<ResultOf(Head(batch[w]), r)>>]
    BY DEF RunLoad
  <1> DEFINE b == batch[w]
             q == slot[w].queue
             o == out'[w]
  <1>2. /\ out[w] = <<>> /\ b # <<>> /\ Head(b).kind = "LOAD"
        /\ batch'[w] = Tail(b) /\ slot' = slot
        /\ o = <<ResultOf(Head(b), r)>>
    BY <1>1 DEF RunLoad, WorkerTypeOK
  <1>3. /\ b \in Seq(Entry) /\ q \in Seq(Entry)
        /\ o \in Seq(Entry)
    BY PartsType, OutType
  <1>4. Len(b) \in Nat /\ 1 <= Len(b) /\ Len(o) = 1 /\ Head(b) = b[1] /\ o[1] = ResultOf(b[1], r)
    BY <1>2, <1>3
  <1>5. Like(o[1], b[1])
    BY <1>2, <1>4 DEF Like, ResultOf, NumberOf
  <1>6. Tail(b) = SubSeq(b, 1 + 1, Len(b))
    BY <1>2, <1>3, TailIsSubSeq
  <1>7. LikeLine(o \o Tail(b) \o q, <<>> \o b \o q)
    <2> HIDE DEF o, b, q
    <2>1. 1 \in Nat /\ \A i \in 1 .. 1 : Like(o[i], b[i])
      BY <1>5
    <2>2. QED
      BY ZenonT(60), <1>3, <1>4, <1>6, <2>1, AnsweredLine, RestOf
  <1>8. QED
    BY <1>2, <1>7 DEF Line

\* The heads of a bundle are replaced by their replies.
LEMMA RunBundleLine ==
  ASSUME WorkerTypeOK, WorkerTypeOK', Paired, NEW w \in Worker, RunBundle(w)
  PROVE  LikeLine(Line(w)', Line(w))
  <1> DEFINE b == batch[w]
             q == slot[w].queue
             o == out'[w]
             heads == Heads(b)
             n == Len(heads)
  <1>1. PICK r : out' = [out EXCEPT ![w] = [i \in 1 .. n |-> ReplyTo(heads[i], r = "OK")]]
    BY DEF RunBundle
  <1>2. /\ out[w] = <<>> /\ b # <<>> /\ Head(b).kind = "SAVE"
        /\ batch'[w] = SubSeq(b, n + 1, Len(b)) /\ slot' = slot
        /\ o = [i \in 1 .. n |-> ReplyTo(heads[i], r = "OK")]
    BY <1>1 DEF RunBundle, WorkerTypeOK
  <1>3. /\ b \in Seq(Job) /\ b \in Seq(Entry) /\ q \in Seq(Entry)
        /\ o \in Seq(Entry)
    BY PartsType, OutType
  <1>4. heads \in Seq(Bundle) /\ n \in {1, 2} /\ n <= Len(b)
    BY <1>2, <1>3, HeadsType DEF Paired
  <1>5. \A i \in 1 .. n : heads[i] = b[i] /\ heads[i] \in Bundle
    BY <1>3, <1>4 DEF Heads
  <1> HIDE DEF heads, b, q, o
  <1>6. n \in Nat /\ Len(o) = n /\ \A i \in 1 .. n : o[i] = ReplyTo(b[i], r = "OK")
    BY <1>2, <1>4, <1>5
  <1>7. \A i \in 1 .. n : Like(o[i], b[i])
    <2>1. \A x, ok : Like(ReplyTo(x, ok), x) \/ x.kind # "SAVE"
      BY DEF Like, ReplyTo, NumberOf
    <2>2. \A i \in 1 .. n : b[i].kind = "SAVE"
      BY <1>5 DEF Bundle
    <2>3. QED
      BY <1>6, <2>1, <2>2
  <1> HIDE DEF n
  <1>8. LikeLine(o \o SubSeq(b, n + 1, Len(b)) \o q, <<>> \o b \o q)
    BY ZenonT(60), <1>3, <1>4, <1>6, <1>7, AnsweredLine, RestOf
  <1>9. QED
    BY <1>2, <1>8 DEF Line, o, b, q

\* Pushing an answer takes it off the front of the line.
LEMMA PushLine ==
  ASSUME WorkerTypeOK, WorkerTypeOK', NEW w \in Worker, Push(w)
  PROVE  /\ Line(w) # <<>>
         /\ Head(Line(w)) = Head(out[w])
         /\ Line(w)' = Tail(Line(w))
         /\ Head(out[w]) \in Answer
  <1> DEFINE o == out[w]
             b == batch[w]
             q == slot[w].queue
  <1>1. /\ o # <<>> /\ out'[w] = Tail(o) /\ batch' = batch /\ slot' = slot
        /\ o \in Seq(Answer) /\ o \in Seq(Entry) /\ b \in Seq(Entry) /\ q \in Seq(Entry)
    BY PartsType DEF Push, WorkerTypeOK
  <1>2. /\ Line(w) = o \o b \o q
        /\ Line(w)' = Tail(o) \o b \o q
    BY <1>1 DEF Line
  <1> HIDE DEF o, b, q
  <1>3. /\ Tail(o) \in Seq(Entry) /\ Len(Tail(o)) = Len(o) - 1
        /\ \A i \in 1 .. Len(o) - 1 : Tail(o)[i] = o[i + 1]
        /\ Head(o) = o[1] /\ Len(o) \in Nat /\ Len(o) # 0
        /\ Len(b) \in Nat /\ Len(q) \in Nat
    BY <1>1, HeadTailProperties, LenProperties, EmptySeq
  <1> DEFINE s == o \o b \o q
             u == Tail(o)
             t == u \o b \o q
  <1>4. /\ s \in Seq(Entry)
        /\ Len(s) = Len(o) + Len(b) + Len(q)
        /\ \A i \in 1 .. Len(o) + Len(b) + Len(q) :
             s[i] = IF i <= Len(o) THEN o[i]
                    ELSE IF i <= Len(o) + Len(b) THEN b[i - Len(o)]
                    ELSE q[i - Len(o) - Len(b)]
    BY <1>1, ThreeParts
  <1> HIDE DEF u
  <1>5. /\ t \in Seq(Entry)
        /\ Len(t) = Len(u) + Len(b) + Len(q)
        /\ \A i \in 1 .. Len(u) + Len(b) + Len(q) :
             t[i] = IF i <= Len(u) THEN u[i]
                    ELSE IF i <= Len(u) + Len(b) THEN b[i - Len(u)]
                    ELSE q[i - Len(u) - Len(b)]
    BY <1>1, <1>3, ThreeParts DEF u
  <1> HIDE DEF s, t
  <1>6. s # <<>> /\ Head(s) = s[1] /\ s[1] = o[1]
    BY <1>3, <1>4
  <1>7. /\ Tail(s) \in Seq(Entry) /\ Len(Tail(s)) = Len(s) - 1
        /\ \A i \in 1 .. Len(s) - 1 : Tail(s)[i] = s[i + 1]
    BY SMTT(60), ZenonT(60), <1>4, <1>6, HeadTailProperties
  <1>8. t = Tail(s)
    <2>1. Len(t) = Len(Tail(s))
      BY <1>3, <1>4, <1>5, <1>7 DEF u
    <2>2. ASSUME NEW i \in 1 .. Len(t) PROVE t[i] = Tail(s)[i]
      BY SMTT(60), <1>3, <1>4, <1>5, <1>7 DEF u
    <2>3. QED
      BY ZenonT(60), <1>5, <1>7, <2>1, <2>2, SeqEqual
  <1>9. Head(o) \in Answer
    BY <1>1, HeadTailProperties
  <1>10. QED
    BY ZenonT(60), SMTT(60), <1>2, <1>3, <1>6, <1>8, <1>9 DEF s, t, u, o

\* A job that is queued stands at the end of the line.
LEMMA QueuedLine ==
  ASSUME NEW o \in Seq(Entry), NEW b \in Seq(Entry), NEW q \in Seq(Entry), NEW x \in Entry
  PROVE  o \o b \o Append(q, x) = Append(o \o b \o q, x)
  <1>1. Append(q, x) = q \o <<x>> /\ <<x>> \in Seq(Entry)
    BY AppendIsConcat
  <1>2. o \o b \in Seq(Entry) /\ o \o b \o q \in Seq(Entry)
    BY ConcatProperties, ThreeParts
  <1>3. Append(o \o b \o q, x) = (o \o b \o q) \o <<x>>
    BY ZenonT(60), SMTT(60), <1>2, AppendIsConcat
  <1>4. QED
    BY SMTT(60), <1>1, <1>2, <1>3, ConcatAssociative

-----------------------------------------------------------------------------
(* The steps of the pool as steps of the lines. *)

\* Where a job goes: a load to the worker of its account, a save to the worker
\* the client has written into it.
Placed(x, w) == IF x.kind = "LOAD" THEN SlotIndex(x.account) = w ELSE x.session = w

BoxUnchanged == UNCHANGED <<results, saveReplies, taken>>

OthersUnchanged(w) == \A v \in Worker \ {w} : Line(v)' = Line(v)

\* A job with the next number is queued with its worker.
Issues(w, x) ==
    /\ issued' = issued + 1
    /\ NumberOf(x) = issued + 1
    /\ Placed(x, w)
    /\ Line(w)' = Append(Line(w), x)
    /\ OthersUnchanged(w) /\ BoxUnchanged /\ UNCHANGED refused

\* So are two.
IssuesPair(w, x, y) ==
    /\ issued' = issued + 2
    /\ NumberOf(x) = issued + 1 /\ NumberOf(y) = issued + 2
    /\ Placed(x, w) /\ Placed(y, w)
    /\ Line(w)' = Append(Append(Line(w), x), y)
    /\ OthersUnchanged(w) /\ BoxUnchanged /\ UNCHANGED refused

Refuses ==
    /\ issued' \in {issued + 1, issued + 2}
    /\ refused' = refused \cup (issued + 1 .. issued')
    /\ \A w \in Worker : Line(w)' = Line(w)
    /\ BoxUnchanged

Collects ==
    /\ taken' = taken \cup Range(saveReplies) \cup Range(results)
    /\ results' = <<>> /\ saveReplies' = <<>>
    /\ \A w \in Worker : Line(w)' = Line(w)
    /\ UNCHANGED <<issued, refused>>

Pushes(w) ==
    /\ Line(w) # <<>>
    /\ Head(Line(w)) \in Answer
    /\ Line(w)' = Tail(Line(w))
    /\ IF Head(Line(w)).kind = "LOAD"
       THEN results' = Append(results, Head(Line(w))) /\ UNCHANGED saveReplies
       ELSE saveReplies' = Append(saveReplies, Head(Line(w))) /\ UNCHANGED results
    /\ OthersUnchanged(w) /\ UNCHANGED <<taken, issued, refused>>

Runs ==
    /\ \A w \in Worker : LikeLine(Line(w)', Line(w))
    /\ BoxUnchanged /\ UNCHANGED <<issued, refused>>

LineMove ==
    \/ \E w \in Worker : \/ \E x \in Job : Issues(w, x)
                         \/ \E x, y \in Job : IssuesPair(w, x, y)
                         \/ Pushes(w)
    \/ Refuses \/ Collects \/ Runs

\* Nothing of the lines changes.
LEMMA LinesFrame ==
  ASSUME WorkerTypeOK, UNCHANGED <<slot, batch, out>>
  PROVE  \A w \in Worker : Line(w)' = Line(w)
  BY SMTT(60), ZenonT(60) DEF Line

\* A job at the end of one queue.
LEMMA QueueGrows ==
  ASSUME WorkerTypeOK, UNCHANGED <<batch, out>>,
         NEW w \in Worker, NEW x \in Job,
         slot'[w].queue = Append(slot[w].queue, x),
         \A v \in Worker \ {w} : slot'[v].queue = slot[v].queue
  PROVE  Line(w)' = Append(Line(w), x) /\ OthersUnchanged(w)
  <1>1. /\ x \in Entry
        /\ out[w] \in Seq(Entry) /\ batch[w] \in Seq(Entry) /\ slot[w].queue \in Seq(Entry)
    BY PartsType DEF Entry
  <1>2. Line(w)' = out[w] \o batch[w] \o Append(slot[w].queue, x)
    BY DEF Line
  <1>3. Line(w)' = Append(Line(w), x)
    BY ZenonT(60), <1>1, <1>2, QueuedLine DEF Line
  <1>4. QED
    BY ZenonT(60), SMTT(60), <1>3 DEF Line, OthersUnchanged

\* A load the client issues is queued last, or refused.
LEMMA ClientLoadMove ==
  ASSUME PoolTypeOK, NEW a \in Account, ClientLoad(a)
  PROVE  LineMove
  <1> DEFINE w == SlotIndex(a)
             x == [kind |-> "LOAD", account |-> a, session |-> issued + 1]
  <1>1. /\ w \in Worker /\ issued \in Nat /\ WorkerTypeOK
    BY SlotIndexType, TypeSplit, PoolAssumption DEF ClientTypeOK
  <1>2. x \in Job /\ NumberOf(x) = issued + 1 /\ Placed(x, w)
    BY <1>1 DEF Job, LoadJob, Session, NumberOf, Placed
  <1>3. /\ issued' = issued + 1 /\ BoxUnchanged /\ UNCHANGED <<batch, out>>
    BY DEF ClientLoad, BoxUnchanged
  <1>4. CASE LoadFits(slot, a)
    <2>1. slot' = EnqueueLoad(slot, x) /\ UNCHANGED refused
      BY <1>4 DEF ClientLoad
    <2>2. /\ slot'[w].queue = Append(slot[w].queue, x)
          /\ \A v \in Worker \ {w} : slot'[v].queue = slot[v].queue
      BY ZenonT(60), SMTT(60), <1>1, <2>1 DEF EnqueueLoad, WorkerTypeOK, SlotState
    <2>3. Line(w)' = Append(Line(w), x) /\ OthersUnchanged(w)
      BY <1>1, <1>2, <1>3, <2>2, QueueGrows
    <2>4. Issues(w, x)
      BY <1>2, <1>3, <2>1, <2>3 DEF Issues
    <2>5. QED
      BY <1>1, <1>2, <2>4 DEF LineMove
  <1>5. CASE ~LoadFits(slot, a)
    <2>1. refused' = refused \cup {issued + 1} /\ UNCHANGED slot
      BY <1>5 DEF ClientLoad
    <2>2. issued + 1 .. issued' = {issued + 1}
      BY <1>1, <1>3
    <2>3. Refuses
      BY <1>1, <1>3, <2>1, <2>2, LinesFrame DEF Refuses
    <2>4. QED
      BY <2>3 DEF LineMove
  <1>6. QED
    BY <1>4, <1>5

\* So is a save.
LEMMA ClientSaveMove ==
  ASSUME PoolTypeOK, NEW a \in Account, ClientSave(a)
  PROVE  LineMove
  <1> DEFINE w == SlotIndex(a)
             n == issued + 1
  <1>1. /\ w \in Worker /\ issued \in Nat /\ n \in Nat /\ WorkerTypeOK
    BY SlotIndexType, TypeSplit, PoolAssumption DEF ClientTypeOK
  <1>2. /\ issued' = n /\ BoxUnchanged /\ UNCHANGED <<batch, out>>
    BY DEF ClientSave, BoxUnchanged
  <1>3. CASE SaveFits(slot, w)
    <2>1. PICK slots \in {{}, Slot} : slot' = EnqueueSave(slot, SaveJob(a, n, slots, w))
      BY <1>3 DEF ClientSave
    <2> DEFINE x == SaveJob(a, n, slots, w)
    <2>2. UNCHANGED refused
      BY <1>3 DEF ClientSave
    <2>3. x \in Bundle /\ x.account = a
      BY <1>1, SaveJobType
    <2>4. x \in Job /\ NumberOf(x) = n /\ Placed(x, w)
      BY <2>3 DEF Job, SaveJob, NumberOf, Placed
    <2>5. slot' = PushBundle(slot, w, x)
      BY <2>1, <2>3 DEF EnqueueSave
    <2> HIDE DEF x, w
    <2>10. slot \in [Worker -> SlotState]
      BY <1>1 DEF WorkerTypeOK
    <2>6. /\ slot'[w].queue = Append(slot[w].queue, x)
          /\ \A v \in Worker \ {w} : slot'[v].queue = slot[v].queue
      BY <1>1, <2>3, <2>5, <2>10, PushBundleType
    <2>7. Line(w)' = Append(Line(w), x) /\ OthersUnchanged(w)
      BY <1>1, <1>2, <2>4, <2>6, QueueGrows
    <2>8. Issues(w, x)
      BY <1>2, <2>2, <2>4, <2>7 DEF Issues
    <2>9. QED
      BY <1>1, <2>4, <2>8 DEF LineMove
  <1>4. CASE ~SaveFits(slot, w)
    <2>1. refused' = refused \cup {n} /\ UNCHANGED slot
      BY <1>4 DEF ClientSave
    <2>2. issued + 1 .. issued' = {issued + 1}
      BY <1>1, <1>2
    <2>3. Refuses
      BY <1>1, <1>2, <2>1, <2>2, LinesFrame DEF Refuses
    <2>4. QED
      BY <2>3 DEF LineMove
  <1>5. QED
    BY <1>3, <1>4

\* The two heads of a pair are queued one behind the other, or both refused.
LEMMA ClientSavePairMove ==
  ASSUME PoolTypeOK, NEW a \in Account, NEW b \in Account, ClientSavePair(a, b)
  PROVE  LineMove
  <1> DEFINE w == PairSlot(a, b)
             n == issued + 1
             x0 == SaveJob(a, n, Slot, w)
             y0 == SaveJob(b, n + 1, Slot, w)
             x == [x0 EXCEPT !.pairNext = 1]
             y == [y0 EXCEPT !.pairNext = 0]
  <1>1. /\ w \in Worker /\ issued \in Nat /\ n \in Nat /\ n + 1 \in Nat /\ WorkerTypeOK
    BY PairSlotType, TypeSplit, PoolAssumption DEF ClientTypeOK
  <1>2. /\ issued' = n + 1 /\ BoxUnchanged /\ UNCHANGED <<batch, out>>
    BY DEF ClientSavePair, BoxUnchanged
  <1>3. CASE PairFits(slot, w)
    <2>1. slot' = EnqueueSavePair(slot, x0, y0) /\ UNCHANGED refused
      BY <1>3 DEF ClientSavePair
    <2>2. x0 \in Bundle /\ y0 \in Bundle /\ x0.account = a /\ y0.account = b
      BY <1>1, SaveJobType
    <2>3. x \in Bundle /\ y \in Bundle
      BY <2>2 DEF Bundle
    <2>4. /\ x \in Job /\ NumberOf(x) = n /\ Placed(x, w)
          /\ y \in Job /\ NumberOf(y) = n + 1 /\ Placed(y, w)
      BY <2>3 DEF Job, SaveJob, NumberOf, Placed
    <2>5. slot' = PushBundle(PushBundle(slot, w, x), w, y)
      BY <2>1, <2>2 DEF EnqueueSavePair
    <2> HIDE DEF x, y, w
    <2>6. slot \in [Worker -> SlotState]
      BY <1>1 DEF WorkerTypeOK
    <2> DEFINE mid == PushBundle(slot, w, x)
    <2>7. /\ mid \in [Worker -> SlotState]
          /\ mid[w].queue = Append(slot[w].queue, x)
          /\ \A v \in Worker \ {w} : mid[v] = slot[v]
      BY <1>1, <2>3, <2>6, PushBundleType
    <2> HIDE DEF mid
    <2>8. /\ slot'[w].queue = Append(mid[w].queue, y)
          /\ \A v \in Worker \ {w} : slot'[v] = mid[v]
      BY ZenonT(120), <1>1, <2>3, <2>5, <2>7, PushBundleType DEF mid
    <2>9. /\ slot'[w].queue = Append(Append(slot[w].queue, x), y)
          /\ \A v \in Worker \ {w} : slot'[v].queue = slot[v].queue
      BY <2>7, <2>8
    <2>10. Line(w)' = Append(Append(Line(w), x), y)
      <3>1. /\ out[w] \in Seq(Entry) /\ batch[w] \in Seq(Entry) /\ slot[w].queue \in Seq(Entry)
            /\ x \in Entry /\ y \in Entry
        BY <1>1, <2>4, PartsType DEF Entry
      <3>2. Append(slot[w].queue, x) \in Seq(Entry)
        BY <3>1, AppendProperties
      <3>3. Line(w)' = out[w] \o batch[w] \o Append(Append(slot[w].queue, x), y)
        BY <1>2, <2>9 DEF Line
      <3>4. Line(w)' = Append(out[w] \o batch[w] \o Append(slot[w].queue, x), y)
        BY ZenonT(120), <3>1, <3>2, <3>3, QueuedLine
      <3>5. out[w] \o batch[w] \o Append(slot[w].queue, x) = Append(Line(w), x)
        BY ZenonT(60), <3>1, QueuedLine DEF Line
      <3>6. QED
        BY <3>4, <3>5
    <2>11. OthersUnchanged(w)
      BY ZenonT(60), SMTT(60), <1>2, <2>9 DEF OthersUnchanged, Line
    <2>12. IssuesPair(w, x, y)
      BY <1>1, <1>2, <2>1, <2>4, <2>10, <2>11 DEF IssuesPair
    <2>13. QED
      BY <1>1, <2>4, <2>12 DEF LineMove
  <1>4. CASE ~PairFits(slot, w)
    <2>1. refused' = refused \cup {n, n + 1} /\ UNCHANGED slot
      BY <1>4 DEF ClientSavePair
    <2>2. issued + 1 .. issued' = {n, n + 1} /\ issued' = issued + 2
      BY <1>1, <1>2
    <2>3. Refuses
      BY <1>1, <1>2, <2>1, <2>2, LinesFrame DEF Refuses
    <2>4. QED
      BY <2>3 DEF LineMove
  <1>5. QED
    BY <1>3, <1>4

\* A worker runs a job, takes its queue, or moves an answer to the box.
LEMMA WorkerMove ==
  ASSUME PoolTypeOK, PoolTypeOK', PairAdjacent, NEW w \in Worker, WorkerStep(w),
         UNCHANGED <<taken, issued, refused>>
  PROVE  LineMove
  <1>1. WorkerTypeOK /\ WorkerTypeOK' /\ Paired
    BY PairedSplit DEF PoolTypeOK
  <1>2. CASE Push(w)
    <2>1. /\ Line(w) # <<>> /\ Head(Line(w)) = Head(out[w])
          /\ Line(w)' = Tail(Line(w)) /\ Head(out[w]) \in Answer
      BY <1>1, <1>2, PushLine
    <2>2. OthersUnchanged(w)
      BY <1>1, <1>2 DEF Push, OthersUnchanged, Line, WorkerTypeOK
    <2>3. Pushes(w)
      BY <1>2, <2>1, <2>2 DEF Push, Pushes
    <2>4. QED
      BY <2>3 DEF LineMove
  <1>3. CASE SwapOut(w) \/ Exit(w) \/ RunLoad(w) \/ RunBundle(w)
    <2>1. LikeLine(Line(w)', Line(w))
      <3>1. CASE SwapOut(w)
        BY <1>1, <3>1, SwapOutLine, LikeItself
      <3>2. CASE Exit(w)
        <4>1. Line(w)' = Line(w)
          BY <3>2 DEF Exit, Line
        <4>2. QED
          BY <4>1, LikeItself
      <3>3. CASE RunLoad(w)
        BY <1>1, <3>3, RunLoadLine
      <3>4. CASE RunBundle(w)
        BY <1>1, <3>4, RunBundleLine
      <3>5. QED
        BY <1>3, <3>1, <3>2, <3>3, <3>4
    <2>2. ASSUME NEW v \in Worker \ {w} PROVE LikeLine(Line(v)', Line(v))
      <3>1. out'[v] = out[v] /\ batch'[v] = batch[v] /\ slot'[v] = slot[v]
        BY ZenonT(60), SMTT(60), <1>1, <1>3 DEF SwapOut, Exit, RunLoad, RunBundle, WorkerTypeOK
      <3>2. Line(v)' = Line(v)
        BY <3>1 DEF Line
      <3>3. QED
        BY <3>2, LikeItself
    <2>3. UNCHANGED <<results, saveReplies>>
      BY ZenonT(60), SMTT(60), <1>3 DEF SwapOut, Exit, RunLoad, RunBundle
    <2>4. Runs
      BY <2>1, <2>2, <2>3 DEF Runs, BoxUnchanged
    <2>5. QED
      BY <2>4 DEF LineMove
  <1>4. QED
    BY <1>2, <1>3 DEF WorkerStep

\* Every step of the pool is one of these.
LEMMA PoolMoves ==
  ASSUME PoolTypeOK, PoolTypeOK', PairAdjacent, [PoolNext]_poolVars
  PROVE  LineMove
  <1>1. CASE Client
    BY <1>1, ClientLoadMove, ClientSaveMove, ClientSavePairMove DEF Client
  <1>2. CASE SwapOutResults
    <2>1. UNCHANGED <<slot, batch, out, issued, refused>>
      BY <1>2 DEF SwapOutResults
    <2>2. Collects
      BY <1>2, <2>1, LinesFrame DEF SwapOutResults, Collects, PoolTypeOK
    <2>3. QED
      BY <2>2 DEF LineMove
  <1>3. ASSUME NEW w \in Worker, PoolWorker(w), ~UNCHANGED workerVars
        PROVE  LineMove
    <2>1. WorkerStep(w) /\ UNCHANGED <<taken, issued, refused>>
      BY <1>3 DEF PoolWorker, CheckPredicate, FallAsleep
    <2>2. QED
      BY <2>1, WorkerMove
  <1>4. CASE UNCHANGED <<workerVars, taken, issued, refused>>
             \/ (SetStop \/ Join \/ \E w \in Worker : WakeForStop(w))
    <2>1. UNCHANGED <<slot, batch, out, results, saveReplies, taken, issued, refused>>
      BY <1>4 DEF SetStop, Join, WakeForStop, workerVars
    <2>2. Runs
      BY <2>1, LinesFrame, LikeItself DEF Runs, BoxUnchanged, PoolTypeOK
    <2>3. QED
      BY <2>2 DEF LineMove
  <1>5. ASSUME NEW w \in Worker, PoolWorker(w), UNCHANGED workerVars
        PROVE  UNCHANGED <<workerVars, taken, issued, refused>>
    BY <1>5 DEF PoolWorker, CheckPredicate, FallAsleep
  <1>6. CASE UNCHANGED poolVars
    BY <1>4, <1>6 DEF poolVars, clientVars
  <1>7. QED
    BY <1>1, <1>2, <1>3, <1>4, <1>5, <1>6 DEF PoolNext, Finished

-----------------------------------------------------------------------------
(* The counters beside the queues. *)

\* An empty queue counts nothing.
LEMMA CountEmpty == \A kind : Count(<<>>, kind) = 0
  <1>1. \A kind : {i \in DOMAIN <<>> : <<>>[i].kind = kind} = {}
    OBVIOUS
  <1>2. QED
    BY <1>1, FS_EmptySet DEF Count

\* A job at the end of a queue adds one to the count of its kind.
LEMMA CountAppend ==
  ASSUME NEW q \in Seq(Job), NEW x \in Job, NEW kind
  PROVE  /\ Count(Append(q, x), kind) = Count(q, kind) + IF x.kind = kind THEN 1 ELSE 0
         /\ Count(q, kind) \in Nat
  <1> DEFINE S == {i \in DOMAIN q : q[i].kind = kind}
             T == {i \in DOMAIN Append(q, x) : Append(q, x)[i].kind = kind}
  <1>1. /\ Len(q) \in Nat /\ DOMAIN q = 1 .. Len(q)
        /\ DOMAIN Append(q, x) = 1 .. Len(q) + 1
        /\ \A i \in 1 .. Len(q) : Append(q, x)[i] = q[i]
        /\ Append(q, x)[Len(q) + 1] = x
    BY AppendProperties, LenProperties
  <1>2. T = IF x.kind = kind THEN S \cup {Len(q) + 1} ELSE S
    BY <1>1
  <1>3. IsFiniteSet(S) /\ Cardinality(S) \in Nat /\ Len(q) + 1 \notin S
    <2>1. S \in SUBSET (1 .. Len(q)) /\ IsFiniteSet(1 .. Len(q))
      BY <1>1, FS_Interval
    <2>2. QED
      BY <1>1, <2>1, FS_Subset, FS_CardinalityType
  <1>5. Count(q, kind) = Cardinality(S) /\ Count(Append(q, x), kind) = Cardinality(T)
    BY DEF Count
  <1> HIDE DEF S, T
  <1>6. Cardinality(S \cup {Len(q) + 1}) = Cardinality(S) + 1
    BY <1>3, FS_AddElement
  <1>7. QED
    BY <1>2, <1>3, <1>5, <1>6

\* The counters of queue s are exact and within the bound.
Counted(s) ==
    /\ s.loadCount = Count(s.queue, "LOAD")
    /\ s.bundleCount = Count(s.queue, "SAVE")
    /\ s.loadCount <= QueueMax
    /\ s.bundleCount <= QueueMax

\* A load that fits is counted.
LEMMA CountedLoad ==
  ASSUME NEW q \in [Worker -> SlotState], \A w \in Worker : Counted(q[w]),
         NEW x \in LoadJob, LoadFits(q, x.account)
  PROVE  \A w \in Worker : Counted(EnqueueLoad(q, x)[w])
  <1> DEFINE v == SlotIndex(x.account)
             s == EnqueueLoad(q, x)[v]
  <1>1. v \in Worker
    BY SlotIndexType DEF LoadJob
  <1>2. /\ s.queue = Append(q[v].queue, x)
        /\ s.loadCount = q[v].loadCount + 1
        /\ s.bundleCount = q[v].bundleCount
        /\ \A w \in Worker \ {v} : EnqueueLoad(q, x)[w] = q[w]
    BY <1>1 DEF EnqueueLoad
  <1>3. q[v].queue \in Seq(Job) /\ q[v].loadCount \in Nat /\ x \in Job /\ x.kind = "LOAD"
    BY <1>1 DEF SlotState, LoadJob, Job
  <1>4. q[v].loadCount < QueueMax /\ QueueMax \in Nat
    BY DBWorkerAssumption DEF LoadFits
  <1> HIDE DEF s, v
  <1>5. /\ Count(s.queue, "LOAD") = Count(q[v].queue, "LOAD") + 1
        /\ Count(s.queue, "SAVE") = Count(q[v].queue, "SAVE") + 0
        /\ Count(q[v].queue, "SAVE") \in Nat
    BY <1>2, <1>3, CountAppend
  <1>6. Counted(s)
    BY <1>1, <1>2, <1>3, <1>4, <1>5 DEF Counted
  <1>7. QED
    BY <1>2, <1>6 DEF s

\* A bundle that fits is counted.
LEMMA CountedBundle ==
  ASSUME NEW q \in [Worker -> SlotState], NEW v \in Worker, NEW x \in Bundle,
         \A w \in Worker : Counted(q[w]), q[v].bundleCount < QueueMax
  PROVE  /\ \A w \in Worker : Counted(PushBundle(q, v, x)[w])
         /\ PushBundle(q, v, x)[v].bundleCount = q[v].bundleCount + 1
  <1> DEFINE s == PushBundle(q, v, x)[v]
  <1>1. /\ s.queue = Append(q[v].queue, x)
        /\ s.loadCount = q[v].loadCount
        /\ s.bundleCount = q[v].bundleCount + 1
        /\ \A w \in Worker \ {v} : PushBundle(q, v, x)[w] = q[w]
    BY DEF PushBundle
  <1>2. q[v].queue \in Seq(Job) /\ q[v].bundleCount \in Nat /\ x \in Job /\ x.kind = "SAVE"
    BY DEF SlotState, Bundle, Job
  <1>3. QueueMax \in Nat
    BY DBWorkerAssumption
  <1> HIDE DEF s
  <1>4. /\ Count(s.queue, "SAVE") = Count(q[v].queue, "SAVE") + 1
        /\ Count(s.queue, "LOAD") = Count(q[v].queue, "LOAD") + 0
        /\ Count(q[v].queue, "LOAD") \in Nat
    BY <1>1, <1>2, CountAppend
  <1>5. Counted(s)
    BY <1>1, <1>2, <1>3, <1>4 DEF Counted
  <1>6. QED
    BY <1>1, <1>5 DEF s

\* Every enqueue keeps the counters exact.
LEMMA CountersEnqueue ==
  ASSUME PoolTypeOK, CountersExact, Client
  PROVE  CountersExact'
  <1>1. /\ WorkerTypeOK /\ slot \in [Worker -> SlotState] /\ issued \in Nat
        /\ QueueMax \in Nat
    BY TypeSplit, PoolAssumption, DBWorkerAssumption DEF ClientTypeOK, WorkerTypeOK
  <1>2. \A w \in Worker : Counted(slot[w])
    BY DEF CountersExact, Counted
  <1> SUFFICES \A w \in Worker : Counted(slot'[w])
    BY DEF CountersExact, Counted
  <1>3. ASSUME NEW a \in Account, ClientLoad(a)
        PROVE  \A w \in Worker : Counted(slot'[w])
    <2> DEFINE x == [kind |-> "LOAD", account |-> a, session |-> issued + 1]
    <2>1. CASE LoadFits(slot, a)
      <3>1. x \in LoadJob /\ x.account = a
        BY <1>1 DEF LoadJob, Session
      <3>2. slot' = EnqueueLoad(slot, x)
        BY <1>3, <2>1 DEF ClientLoad
      <3> HIDE DEF x
      <3>3. QED
        BY <1>1, <1>2, <2>1, <3>1, <3>2, CountedLoad
    <2>2. CASE ~LoadFits(slot, a)
      BY <1>2, <1>3, <2>2 DEF ClientLoad
    <2>3. QED
      BY <2>1, <2>2
  <1>4. ASSUME NEW a \in Account, ClientSave(a)
        PROVE  \A w \in Worker : Counted(slot'[w])
    <2> DEFINE v == SlotIndex(a)
    <2>1. CASE SaveFits(slot, v)
      <3>1. PICK slots \in {{}, Slot} :
              slot' = EnqueueSave(slot, SaveJob(a, issued + 1, slots, v))
        BY <1>4, <2>1 DEF ClientSave
      <3> DEFINE x == SaveJob(a, issued + 1, slots, v)
      <3>2. v \in Worker /\ x \in Bundle /\ x.account = a
        BY <1>1, SlotIndexType, SaveJobType
      <3>3. slot' = PushBundle(slot, v, x)
        BY <3>1, <3>2 DEF EnqueueSave
      <3> HIDE DEF x, v
      <3>4. QED
        BY <1>1, <1>2, <2>1, <3>2, <3>3, CountedBundle DEF SaveFits
    <2>2. CASE ~SaveFits(slot, v)
      BY <1>2, <1>4, <2>2 DEF ClientSave
    <2>3. QED
      BY <2>1, <2>2
  <1>5. ASSUME NEW a \in Account, NEW b \in Account, ClientSavePair(a, b)
        PROVE  \A w \in Worker : Counted(slot'[w])
    <2> DEFINE v == PairSlot(a, b)
               x0 == SaveJob(a, issued + 1, Slot, v)
               y0 == SaveJob(b, issued + 1 + 1, Slot, v)
               x == [x0 EXCEPT !.pairNext = 1]
               y == [y0 EXCEPT !.pairNext = 0]
    <2>1. CASE PairFits(slot, v)
      <3>1. slot' = EnqueueSavePair(slot, x0, y0)
        BY <1>5, <2>1 DEF ClientSavePair
      <3>2. v \in Worker
        BY PairSlotType
      <3>3. x0 \in Bundle /\ y0 \in Bundle /\ x0.account = a /\ y0.account = b
        BY <1>1, <3>2, SaveJobType
      <3>4. x \in Bundle /\ y \in Bundle
        BY <3>3 DEF Bundle
      <3>5. slot' = PushBundle(PushBundle(slot, v, x), v, y)
        BY <3>1, <3>3 DEF EnqueueSavePair
      <3>6. slot[v].bundleCount + 2 <= QueueMax
        BY <2>1 DEF PairFits
      <3> HIDE DEF x, y, v
      <3>10. slot[v].bundleCount \in Nat
        BY <1>1, <3>2 DEF SlotState
      <3> DEFINE mid == PushBundle(slot, v, x)
      <3>7. /\ mid \in [Worker -> SlotState]
        BY <1>1, <3>2, <3>4, PushBundleType
      <3>8. /\ \A w \in Worker : Counted(mid[w])
            /\ mid[v].bundleCount = slot[v].bundleCount + 1
        BY <1>1, <1>2, <3>2, <3>4, <3>6, <3>10, CountedBundle
      <3> HIDE DEF mid
      <3>9. QED
        BY <1>1, <3>2, <3>4, <3>5, <3>6, <3>7, <3>8, <3>10, CountedBundle DEF mid
    <2>2. CASE ~PairFits(slot, v)
      BY ZenonT(60), SMTT(60), <1>2, <1>5, <2>2 DEF ClientSavePair
    <2>3. QED
      BY <2>1, <2>2
  <1>6. QED
    BY <1>3, <1>4, <1>5 DEF Client

\* Every other step leaves a queue and its counters alone, or empties them.
LEMMA CountersStep ==
  ASSUME PoolTypeOK, CountersExact, [PoolNext]_poolVars
  PROVE  CountersExact'
  <1>1. \A w \in Worker : Counted(slot[w])
    BY DEF CountersExact, Counted
  <1>2. CASE Client
    BY <1>2, CountersEnqueue
  <1>3. ASSUME NEW v \in Worker, SwapOut(v)
        PROVE  CountersExact'
    <2>1. Counted([queue |-> <<>>, loadCount |-> 0, bundleCount |-> 0])
      BY CountEmpty, DBWorkerAssumption DEF Counted
    <2>2. \A w \in Worker : \/ slot'[w] = slot[w]
                            \/ slot'[w] = [queue |-> <<>>, loadCount |-> 0, bundleCount |-> 0]
      BY <1>3 DEF SwapOut, PoolTypeOK, WorkerTypeOK
    <2>3. QED
      BY <1>1, <2>1, <2>2 DEF CountersExact, Counted
  <1>4. CASE UNCHANGED slot
    BY <1>4 DEF CountersExact, Count
  <1>5. QED
    BY ZenonT(60), <1>2, <1>3, <1>4
       DEF PoolNext, SwapOutResults, SetStop, Join, WakeForStop, PoolWorker, WorkerStep,
           CheckPredicate, FallAsleep, Exit, RunLoad, RunBundle, Push, Finished,
           poolVars, workerVars

\* The counters beside a queue count what is in it, and neither kind of job
\* exceeds the bound (DBWorkerPool::EnqueueLoad, EnqueueSave, EnqueueSavePair;
\* WorkerThread resets both when it takes the queue).
THEOREM CountersAreExact == PoolSpec => []CountersExact
  <1>1. PoolInit => CountersExact
    BY CountEmpty, DBWorkerAssumption DEF PoolInit, WorkerInit, WorkersStart, CountersExact
  <1>2. PoolTypeOK /\ CountersExact /\ [PoolNext]_poolVars => CountersExact'
    BY CountersStep
  <1>3. QED
    BY <1>1, <1>2, PoolTypeCorrect, PTL DEF PoolSpec

-----------------------------------------------------------------------------
(* Order: a line is in the order the jobs were issued, and it all comes     *)
(* behind the loads already answered.                                       *)

\* Line s of worker w is in the order of the numbers, which go up to m.
InOrder(s, w, m) ==
    \A i \in 1 .. Len(s) :
        /\ NumberOf(s[i]) \in 1 .. m
        /\ Placed(s[i], w)
        /\ \A j \in 1 .. Len(s) : i < j => NumberOf(s[i]) < NumberOf(s[j])

\* Everything in s was issued after number k.
Behind(k, s) == \A i \in 1 .. Len(s) : k < NumberOf(s[i])

LinesInOrder == \A w \in Worker : InOrder(Line(w), w, issued)

LoadsAhead ==
    \A x \in taken \cup Range(results) :
        x.kind = "LOAD" => /\ x.session \in 1 .. issued
                           /\ Behind(x.session, Line(SlotIndex(x.account)))

RepliesAhead ==
    \A x \in taken : \A j \in 1 .. Len(saveReplies) :
        /\ x.kind = "LOAD"
        /\ saveReplies[j].session = SlotIndex(x.account)
        => x.session < saveReplies[j].no

Ordered == LinesInOrder /\ LoadsAhead /\ RepliesAhead

\* The types the order needs.
LEMMA AnswersType ==
  ASSUME PoolTypeOK
  PROVE  /\ issued \in Nat
         /\ results \in Seq(LoadResult) /\ saveReplies \in Seq(SaveReply)
         /\ Range(results) \subseteq LoadResult /\ Range(saveReplies) \subseteq SaveReply
         /\ \A x \in taken \cup Range(results) \cup Range(saveReplies) :
              x \in Answer /\ x.account \in Account /\ SlotIndex(x.account) \in Worker
         /\ \A w \in Worker : Line(w) \in Seq(Entry)
  <1>1. WorkerTypeOK /\ ClientTypeOK
    BY TypeSplit
  <1>2. results \in Seq(LoadResult) /\ saveReplies \in Seq(SaveReply) /\ issued \in Nat
        /\ taken \subseteq Answer
    BY <1>1, PoolAssumption DEF WorkerTypeOK, ClientTypeOK
  <1>3. Range(results) \subseteq LoadResult /\ Range(saveReplies) \subseteq SaveReply
    BY <1>2 DEF Range
  <1>4. \A x \in Answer : x.account \in Account
    BY DEF Answer, LoadResult, SaveReply
  <1>5. LoadResult \subseteq Answer /\ SaveReply \subseteq Answer
    BY DEF Answer
  <1>6. QED
    BY <1>1, <1>2, <1>3, <1>4, <1>5, SlotIndexType, LineType

\* A job with the next number at the end of a line in order.
LEMMA OneMoreInOrder ==
  ASSUME NEW s \in Seq(Entry), NEW x \in Entry, NEW w, NEW m \in Nat,
         NumberOf(x) = m + 1, Placed(x, w), InOrder(s, w, m)
  PROVE  /\ InOrder(Append(s, x), w, m + 1)
         /\ \A k \in 0 .. m : Behind(k, s) => Behind(k, Append(s, x))
         /\ Append(s, x) \in Seq(Entry)
  <1> DEFINE t == Append(s, x)
  <1>1. /\ Len(t) = Len(s) + 1 /\ Len(s) \in Nat /\ t[Len(s) + 1] = x
        /\ \A i \in 1 .. Len(s) : t[i] = s[i]
        /\ t \in Seq(Entry)
    BY AppendProperties, LenProperties
  <1>2. \A i \in 1 .. Len(s) : NumberOf(s[i]) \in 1 .. m
    BY DEF InOrder
  <1> HIDE DEF t
  <1>3. ASSUME NEW i \in 1 .. Len(t)
        PROVE  /\ NumberOf(t[i]) \in 1 .. m + 1 /\ Placed(t[i], w)
               /\ \A j \in 1 .. Len(t) : i < j => NumberOf(t[i]) < NumberOf(t[j])
    <2>1. CASE i = Len(s) + 1
      BY <1>1, <2>1
    <2>2. CASE i # Len(s) + 1
      <3>1. i \in 1 .. Len(s) /\ NumberOf(t[i]) \in 1 .. m /\ Placed(t[i], w)
        BY <1>1, <2>2 DEF InOrder
      <3>2. ASSUME NEW j \in 1 .. Len(t), i < j PROVE NumberOf(t[i]) < NumberOf(t[j])
        <4>1. CASE j = Len(s) + 1
          BY <1>1, <3>1, <4>1
        <4>2. CASE j # Len(s) + 1
          <5>1. j \in 1 .. Len(s)
            BY <1>1, <4>2
          <5>2. QED
            BY <1>1, <3>1, <3>2, <5>1 DEF InOrder
        <4>3. QED
          BY <4>1, <4>2
      <3>3. QED
        BY <3>1, <3>2
    <2>3. QED
      BY <2>1, <2>2
  <1>4. ASSUME NEW k \in 0 .. m, Behind(k, s), NEW i \in 1 .. Len(t)
        PROVE  k < NumberOf(t[i])
    <2>1. CASE i = Len(s) + 1
      BY <1>1, <2>1
    <2>2. CASE i # Len(s) + 1
      <3>1. i \in 1 .. Len(s)
        BY <1>1, <2>2
      <3>2. QED
        BY <1>1, <1>4, <3>1 DEF Behind
    <2>3. QED
      BY <2>1, <2>2
  <1>5. InOrder(t, w, m + 1)
    BY <1>3 DEF InOrder
  <1>6. \A k \in 0 .. m : Behind(k, s) => Behind(k, t)
    BY <1>4 DEF Behind
  <1>7. QED
    BY <1>1, <1>5, <1>6 DEF t

\* What is left of a line in order once its front has gone.
LEMMA TailInOrder ==
  ASSUME NEW s \in Seq(Entry), s # <<>>, NEW w, NEW m \in Nat, InOrder(s, w, m)
  PROVE  /\ NumberOf(Head(s)) \in 1 .. m /\ Placed(Head(s), w)
         /\ InOrder(Tail(s), w, m)
         /\ Behind(NumberOf(Head(s)), Tail(s))
         /\ \A k : Behind(k, s) => k < NumberOf(Head(s)) /\ Behind(k, Tail(s))
  <1> DEFINE t == Tail(s)
  <1>1. /\ Len(t) = Len(s) - 1 /\ Len(s) \in Nat /\ Len(s) # 0 /\ Head(s) = s[1]
        /\ \A i \in 1 .. Len(s) - 1 : t[i] = s[i + 1]
    BY HeadTailProperties, LenProperties, EmptySeq
  <1> HIDE DEF t
  <1>2. \A i \in 1 .. Len(t) : t[i] = s[i + 1] /\ i + 1 \in 1 .. Len(s) /\ 1 < i + 1
    BY <1>1
  <1>3. 1 \in 1 .. Len(s)
    BY <1>1
  <1>4. NumberOf(Head(s)) \in 1 .. m /\ Placed(Head(s), w)
    BY <1>1, <1>3 DEF InOrder
  <1>5. InOrder(t, w, m)
    <2>1. \A i, j \in 1 .. Len(t) : i < j => i + 1 < j + 1
      OBVIOUS
    <2>2. QED
      BY <1>2, <2>1 DEF InOrder
  <1>6. Behind(NumberOf(Head(s)), t)
    BY <1>1, <1>2, <1>3 DEF InOrder, Behind
  <1>7. \A k : Behind(k, s) => k < NumberOf(Head(s)) /\ Behind(k, t)
    BY <1>1, <1>2, <1>3 DEF Behind
  <1>8. QED
    BY <1>4, <1>5, <1>6, <1>7 DEF t

\* Running a job keeps its place.
LEMMA LikeInOrder ==
  ASSUME NEW s, NEW t, LikeLine(t, s)
  PROVE  /\ \A w, m : InOrder(s, w, m) => InOrder(t, w, m)
         /\ \A k : Behind(k, s) => Behind(k, t)
  BY ZenonT(60), SMTT(60) DEF LikeLine, Like, InOrder, Behind, Placed

\* A step that keeps the lines in order, issues no number twice and leaves the
\* box alone keeps everything in order.
LEMMA OrderedFrame ==
  ASSUME PoolTypeOK, Ordered, BoxUnchanged,
         issued' \in Nat, issued <= issued', LinesInOrder',
         \A w \in Worker : \A k \in 0 .. issued : Behind(k, Line(w)) => Behind(k, Line(w)')
  PROVE  Ordered'
  <1>1. /\ issued \in Nat
        /\ \A x \in taken \cup Range(results) : SlotIndex(x.account) \in Worker
    BY AnswersType
  <1>2. results' = results /\ saveReplies' = saveReplies /\ taken' = taken
    BY DEF BoxUnchanged
  <1>3. ASSUME NEW x \in taken \cup Range(results), x.kind = "LOAD"
        PROVE  x.session \in 1 .. issued' /\ Behind(x.session, Line(SlotIndex(x.account))')
    <2>1. x.session \in 1 .. issued /\ Behind(x.session, Line(SlotIndex(x.account)))
      BY <1>3 DEF Ordered, LoadsAhead
    <2>2. x.session \in 0 .. issued /\ x.session \in 1 .. issued'
      BY <1>1, <2>1
    <2>3. QED
      BY <1>1, <2>1, <2>2
  <1>4. LoadsAhead'
    BY <1>2, <1>3 DEF LoadsAhead
  <1>5. RepliesAhead'
    BY <1>2 DEF Ordered, RepliesAhead
  <1>6. QED
    BY <1>4, <1>5 DEF Ordered

\* Issuing jobs comes behind every answer.
LEMMA OrderedIssue ==
  ASSUME PoolTypeOK, Ordered, NEW w \in Worker, NEW x \in Job, NEW y \in Job,
         Issues(w, x) \/ IssuesPair(w, x, y)
  PROVE  Ordered'
  <1> DEFINE s == Line(w)
             t == Append(s, x)
  <1>1. issued \in Nat /\ x \in Entry /\ y \in Entry /\ s \in Seq(Entry)
    BY AnswersType DEF Entry
  <1>2. \A v \in Worker : InOrder(Line(v), v, issued)
    BY DEF Ordered, LinesInOrder
  <1>3. InOrder(s, w, issued)
    BY <1>2
  <1>4. \A v \in Worker \ {w} : Line(v)' = Line(v)
    BY DEF Issues, IssuesPair, OthersUnchanged
  <1>5. issued' \in Nat /\ issued <= issued' /\ BoxUnchanged
    BY <1>1 DEF Issues, IssuesPair
  <1>6. NumberOf(x) = issued + 1 /\ Placed(x, w)
    BY DEF Issues, IssuesPair
  <1>7. /\ InOrder(t, w, issued + 1) /\ t \in Seq(Entry)
        /\ \A k \in 0 .. issued : Behind(k, s) => Behind(k, t)
    <2> HIDE DEF s
    <2>1. QED
      BY <1>1, <1>3, <1>6, OneMoreInOrder
  <1>8. /\ InOrder(Line(w)', w, issued')
        /\ \A k \in 0 .. issued : Behind(k, s) => Behind(k, Line(w)')
    <2>1. CASE Issues(w, x)
      BY <1>7, <2>1 DEF Issues
    <2>2. CASE IssuesPair(w, x, y)
      <3>1. /\ NumberOf(y) = (issued + 1) + 1 /\ Placed(y, w)
            /\ Line(w)' = Append(t, y) /\ issued' = (issued + 1) + 1
            /\ issued + 1 \in Nat
        BY <1>1, <2>2 DEF IssuesPair
      <3> HIDE DEF t, s
      <3> DEFINE m == issued + 1
      <3>2. m \in Nat /\ NumberOf(y) = m + 1 /\ InOrder(t, w, m)
        BY <1>7, <3>1
      <3> HIDE DEF m
      <3>3. /\ InOrder(Append(t, y), w, m + 1)
            /\ \A k \in 0 .. m : Behind(k, t) => Behind(k, Append(t, y))
        BY <1>1, <1>7, <3>1, <3>2, OneMoreInOrder
      <3>4. \A k \in 0 .. issued : k \in 0 .. m
        BY <1>1 DEF m
      <3>5. QED
        BY <1>7, <3>1, <3>3, <3>4 DEF m
    <2>3. QED
      BY <2>1, <2>2
  <1>9. \A v \in Worker : v # w => InOrder(Line(v)', v, issued')
    <2>1. \A v : InOrder(Line(v), v, issued) => InOrder(Line(v), v, issued')
      BY <1>1, <1>5 DEF InOrder
    <2>2. QED
      BY <1>2, <1>4, <2>1
  <1>10. LinesInOrder'
    BY <1>8, <1>9 DEF LinesInOrder
  <1>11. \A v \in Worker : \A k \in 0 .. issued : Behind(k, Line(v)) => Behind(k, Line(v)')
    BY <1>4, <1>8
  <1>12. QED
    BY <1>5, <1>10, <1>11, OrderedFrame

\* Refusing a job and running one leave everything in order.
LEMMA OrderedStay ==
  ASSUME PoolTypeOK, Ordered, Refuses \/ Runs
  PROVE  Ordered'
  <1>1. issued \in Nat
    BY AnswersType
  <1>2. issued' \in Nat /\ issued <= issued' /\ BoxUnchanged
    BY <1>1 DEF Refuses, Runs
  <1>3. \A w \in Worker : LikeLine(Line(w)', Line(w))
    <2>1. CASE Refuses
      BY <2>1, LikeItself DEF Refuses
    <2>2. QED
      BY <2>1 DEF Runs
  <1>4. ASSUME NEW w \in Worker
        PROVE  /\ InOrder(Line(w)', w, issued')
               /\ \A k : Behind(k, Line(w)) => Behind(k, Line(w)')
    <2>1. InOrder(Line(w), w, issued)
      BY DEF Ordered, LinesInOrder
    <2>2. /\ InOrder(Line(w)', w, issued)
          /\ \A k : Behind(k, Line(w)) => Behind(k, Line(w)')
      BY <1>3, <2>1, LikeInOrder
    <2>3. InOrder(Line(w)', w, issued')
      BY <1>1, <1>2, <2>2 DEF InOrder
    <2>4. QED
      BY <2>2, <2>3
  <1>5. LinesInOrder'
    BY <1>4 DEF LinesInOrder
  <1>6. QED
    BY <1>2, <1>4, <1>5, OrderedFrame

\* Swapping the box out makes its loads old ones.
LEMMA OrderedCollect ==
  ASSUME PoolTypeOK, PoolTypeOK', Ordered, Collects
  PROVE  Ordered'
  <1>1. \A w \in Worker : Line(w)' = Line(w)
    BY DEF Collects
  <1>2. LinesInOrder'
    BY <1>1 DEF Collects, Ordered, LinesInOrder
  <1>3. Range(results)' = {} /\ Len(saveReplies') = 0
    BY DEF Collects, Range
  <1>4. LoadsAhead'
    <2>1. ASSUME NEW x \in taken', x.kind = "LOAD"
          PROVE  x \in taken \cup Range(results)
      <3>1. x \notin Range(saveReplies)
        BY <2>1, AnswersType DEF SaveReply
      <3>2. QED
        BY <2>1, <3>1 DEF Collects
    <2>2. \A x \in taken \cup Range(results) : SlotIndex(x.account) \in Worker
      BY AnswersType
    <2>3. issued' = issued
      BY DEF Collects
    <2>4. QED
      BY <1>1, <1>3, <2>1, <2>2, <2>3 DEF Ordered, LoadsAhead
  <1>5. RepliesAhead'
    BY <1>3 DEF RepliesAhead
  <1>6. QED
    BY <1>2, <1>4, <1>5 DEF Ordered

\* The answer at the front of a line is the oldest of it.
LEMMA OrderedPush ==
  ASSUME PoolTypeOK, Ordered, NEW w \in Worker, Pushes(w)
  PROVE  Ordered'
  <1> DEFINE s == Line(w)
             h == Head(s)
  <1>1. /\ issued \in Nat /\ s \in Seq(Entry) /\ s # <<>>
        /\ Line(w)' = Tail(s) /\ h \in Answer
        /\ \A v \in Worker \ {w} : Line(v)' = Line(v)
        /\ issued' = issued /\ taken' = taken
    BY AnswersType DEF Pushes, OthersUnchanged
  <1>2. InOrder(s, w, issued)
    BY DEF Ordered, LinesInOrder
  <1>3. /\ NumberOf(h) \in 1 .. issued /\ Placed(h, w)
        /\ InOrder(Tail(s), w, issued) /\ Behind(NumberOf(h), Tail(s))
        /\ \A k : Behind(k, s) => k < NumberOf(h) /\ Behind(k, Tail(s))
    <2> HIDE DEF s
    <2>1. QED
      BY <1>1, <1>2, TailInOrder
  <1>4. LinesInOrder'
    BY <1>1, <1>3 DEF Ordered, LinesInOrder
  <1>5. \A v \in Worker : \A k : Behind(k, Line(v)) => Behind(k, Line(v)')
    BY <1>1, <1>3
  <1>6. /\ \A x \in taken \cup Range(results) : SlotIndex(x.account) \in Worker
        /\ results \in Seq(LoadResult) /\ saveReplies \in Seq(SaveReply)
    BY AnswersType
  <1>7. \A x \in taken \cup Range(results) :
          x.kind = "LOAD" => /\ x.session \in 1 .. issued
                             /\ Behind(x.session, Line(SlotIndex(x.account)))
                             /\ Behind(x.session, Line(SlotIndex(x.account))')
    BY <1>5, <1>6 DEF Ordered, LoadsAhead
  <1> HIDE DEF s, h
  <1>8. CASE h.kind = "LOAD"
    <2>1. results' = Append(results, h) /\ saveReplies' = saveReplies
      BY <1>8 DEF Pushes, s, h
    <2>2. h \in LoadResult
      BY <1>1, <1>8 DEF Answer, SaveReply
    <2>3. Range(results)' = Range(results) \cup {h}
      BY SMTT(60), <1>6, <2>1, <2>2 DEF Range
    <2>4. /\ h.session \in 1 .. issued /\ SlotIndex(h.account) = w
          /\ Behind(h.session, Line(w)')
      BY <1>1, <1>3, <1>8 DEF NumberOf, Placed
    <2>5. LoadsAhead'
      BY <1>1, <1>7, <2>3, <2>4 DEF LoadsAhead
    <2>6. RepliesAhead'
      BY <1>1, <2>1 DEF Ordered, RepliesAhead
    <2>7. QED
      BY <1>4, <2>5, <2>6 DEF Ordered
  <1>9. CASE h.kind # "LOAD"
    <2>1. saveReplies' = Append(saveReplies, h) /\ results' = results
      BY <1>9 DEF Pushes, s, h
    <2>2. h \in SaveReply /\ NumberOf(h) = h.no /\ h.session = w
      BY <1>1, <1>3, <1>9 DEF Answer, LoadResult, NumberOf, Placed
    <2>3. LoadsAhead'
      BY <1>1, <1>7, <2>1 DEF LoadsAhead
    <2>4. RepliesAhead'
      <3>1. ASSUME NEW x \in taken, x.kind = "LOAD",
                   NEW j \in 1 .. Len(saveReplies'),
                   saveReplies'[j].session = SlotIndex(x.account)
            PROVE  x.session < saveReplies'[j].no
        <4>1. /\ Len(saveReplies') = Len(saveReplies) + 1 /\ Len(saveReplies) \in Nat
              /\ saveReplies'[Len(saveReplies) + 1] = h
              /\ \A k \in 1 .. Len(saveReplies) : saveReplies'[k] = saveReplies[k]
          BY <1>6, <2>1, <2>2, AppendProperties, LenProperties
        <4>2. CASE j = Len(saveReplies) + 1
          <5>1. Behind(x.session, s)
            BY <1>7, <2>2, <3>1, <4>1, <4>2 DEF s
          <5>2. QED
            BY <1>3, <2>2, <4>1, <4>2, <5>1
        <4>3. CASE j # Len(saveReplies) + 1
          <5>1. j \in 1 .. Len(saveReplies)
            BY <4>1, <4>3
          <5>2. QED
            BY <3>1, <4>1, <5>1 DEF Ordered, RepliesAhead
        <4>4. QED
          BY <4>2, <4>3
      <3>2. QED
        BY <1>1, <3>1 DEF RepliesAhead
    <2>5. QED
      BY <1>4, <2>3, <2>4 DEF Ordered
  <1>10. QED
    BY <1>8, <1>9

\* Order is inductive.
LEMMA OrderedStep ==
  ASSUME PoolTypeOK, PoolTypeOK', PairAdjacent, Ordered, [PoolNext]_poolVars
  PROVE  Ordered'
  BY PoolMoves, OrderedIssue, OrderedStay, OrderedCollect, OrderedPush DEF LineMove

\* Nothing is in line at the start.
LEMMA OrderedInit == PoolInit => Ordered
  <1> SUFFICES ASSUME PoolInit PROVE Ordered
    OBVIOUS
  <1>1. \A w \in Worker : Len(Line(w)) = 0
    <2>1. ASSUME NEW w \in Worker PROVE Line(w) = <<>>
      <3>1. Line(w) = <<>> \o <<>> \o <<>>
        BY DEF PoolInit, WorkerInit, WorkersStart, Line
      <3>2. QED
        BY <3>1
    <2>2. QED
      BY <2>1
  <1>2. taken = {} /\ Range(results) = {}
    BY DEF PoolInit, WorkerInit, WorkersStart, Range
  <1>3. QED
    BY <1>1, <1>2 DEF Ordered, LinesInOrder, InOrder, LoadsAhead, RepliesAhead

\* Order gives the promise: what is still pending was issued behind the load.
LEMMA OrderedAnswers ==
  ASSUME PoolTypeOK, Ordered
  PROVE  SavesAnsweredFirst
  <1> SUFFICES ASSUME NEW load \in taken, load.kind = "LOAD",
                      NEW w \in Worker, w = SlotIndex(load.account),
                      NEW j \in DOMAIN (Line(w) \o saveReplies),
                      (Line(w) \o saveReplies)[j].kind = "SAVE",
                      (Line(w) \o saveReplies)[j].session = w
               PROVE  (Line(w) \o saveReplies)[j].no > load.session
    BY ZenonT(60), SMTT(60), AnswersType DEF SavesAnsweredFirst
  <1> DEFINE s == Line(w)
  <1>1. s \in Seq(Entry) /\ saveReplies \in Seq(Entry)
    BY AnswersType, PartsType DEF PoolTypeOK
  <1>2. Behind(load.session, s)
    BY DEF Ordered, LoadsAhead
  <1> HIDE DEF s
  <1>3. /\ Len(s) \in Nat /\ Len(saveReplies) \in Nat
        /\ DOMAIN (s \o saveReplies) = 1 .. Len(s) + Len(saveReplies)
        /\ \A i \in 1 .. Len(s) + Len(saveReplies) :
             (s \o saveReplies)[i] = IF i <= Len(s) THEN s[i] ELSE saveReplies[i - Len(s)]
    BY <1>1, ConcatProperties, LenProperties
  <1>4. CASE j <= Len(s)
    <2>1. j \in 1 .. Len(s) /\ (s \o saveReplies)[j] = s[j]
      BY <1>3, <1>4 DEF s
    <2>2. load.session < NumberOf(s[j]) /\ NumberOf(s[j]) = s[j].no
      BY <1>2, <2>1 DEF Behind, NumberOf, s
    <2>3. load.session \in Nat /\ s[j].no \in Nat
      <3>1. load.session \in 1 .. issued /\ NumberOf(s[j]) \in 1 .. issued
        BY <2>1 DEF Ordered, LoadsAhead, LinesInOrder, InOrder, s
      <3>2. QED
        BY SMTT(60), <2>2, <3>1, AnswersType
    <2>4. QED
      BY <2>1, <2>2, <2>3 DEF s
  <1>5. CASE ~(j <= Len(s))
    <2>1. j - Len(s) \in 1 .. Len(saveReplies) /\ (s \o saveReplies)[j] = saveReplies[j - Len(s)]
      BY <1>3, <1>5 DEF s
    <2>2. load.session < saveReplies[j - Len(s)].no
      BY <2>1 DEF Ordered, RepliesAhead, s
    <2>3. load.session \in Nat /\ saveReplies[j - Len(s)].no \in Nat
      <3>1. load.session \in 1 .. issued
        BY DEF Ordered, LoadsAhead
      <3>2. saveReplies[j - Len(s)] \in SaveReply
        BY <2>1, AnswersType, ElementOfSeq
      <3>3. QED
        BY SMTT(60), <3>1, <3>2, AnswersType DEF SaveReply
    <2>4. QED
      BY <2>1, <2>2, <2>3 DEF s
  <1>6. QED
    BY <1>4, <1>5

\* When the character store looks at the result of a load, it has already seen
\* the outcome of every save queued with that worker before the load
\* (WorkerThread runs its queue in order, SwapOutResults takes both lists of
\* the box under one lock).
THEOREM SavesAreAnsweredFirst == PoolSpec => []SavesAnsweredFirst
  <1>1. PoolTypeOK /\ PoolTypeOK' /\ PairAdjacent /\ Ordered /\ [PoolNext]_poolVars => Ordered'
    BY OrderedStep
  <1>2. PoolTypeOK /\ Ordered => SavesAnsweredFirst
    BY OrderedAnswers
  <1>3. QED
    BY <1>1, <1>2, OrderedInit, PoolTypeCorrect, PairsStayAdjacent, PTL DEF PoolSpec

-----------------------------------------------------------------------------
(* Each accepted job is in one place, once. *)

OutsideLines(n) == Times(saveReplies, n) + Times(results, n)

Nowhere(n) ==
    /\ \A w \in Worker : Times(Line(w), n) = 0
    /\ OutsideLines(n) = 0
    /\ n \notin Numbers(taken)

InOneLine(n) ==
    /\ \E w \in Worker : /\ Times(Line(w), n) = 1
                         /\ \A v \in Worker \ {w} : Times(Line(v), n) = 0
    /\ OutsideLines(n) = 0
    /\ n \notin Numbers(taken)

InTheBox(n) ==
    /\ \A w \in Worker : Times(Line(w), n) = 0
    /\ OutsideLines(n) = 1
    /\ n \notin Numbers(taken)

IsTaken(n) ==
    /\ \A w \in Worker : Times(Line(w), n) = 0
    /\ OutsideLines(n) = 0
    /\ n \in Numbers(taken)

Settled(n) ==
    IF n \in refused THEN Nowhere(n)
                     ELSE InOneLine(n) \/ InTheBox(n) \/ IsTaken(n)

\* No number is used before it is issued.
NumbersIssued ==
    /\ refused \subseteq 1 .. issued
    /\ \A x \in Range(results) \cup Range(saveReplies) \cup taken : NumberOf(x) \in 1 .. issued

Accounted == NumbersIssued /\ \A n \in 1 .. issued : Settled(n)

\* The box as sequences of entries, and how often a number is in it.
LEMMA BoxType ==
  ASSUME PoolTypeOK, NEW n
  PROVE  /\ results \in Seq(Entry) /\ saveReplies \in Seq(Entry)
         /\ Times(results, n) \in Nat /\ Times(saveReplies, n) \in Nat
         /\ \A w \in Worker : Line(w) \in Seq(Entry) /\ Times(Line(w), n) \in Nat
         /\ Times(results, n) = 0 <=> n \notin Numbers(Range(results))
         /\ Times(saveReplies, n) = 0 <=> n \notin Numbers(Range(saveReplies))
  <1>1. results \in Seq(Entry) /\ saveReplies \in Seq(Entry)
    <2>1. LoadResult \subseteq Entry /\ SaveReply \subseteq Entry
      BY DEF Entry, Answer
    <2>2. QED
      BY <2>1, AnswersType, SeqMonotonic
  <1>2. \A w \in Worker : Line(w) \in Seq(Entry)
    BY AnswersType
  <1>3. \A s \in Seq(Entry) : Times(s, n) \in Nat
    BY OccurrencesFinite
  <1>4. \A s \in Seq(Entry) : Times(s, n) = 0 <=> n \notin Numbers(Range(s))
    BY TimesZero DEF Numbers, Range
  <1>5. QED
    BY <1>1, <1>2, <1>3, <1>4

\* A number not issued yet is nowhere.
LEMMA NotIssuedNowhere ==
  ASSUME PoolTypeOK, LinesInOrder, NumbersIssued, NEW n \in Nat, n > issued
  PROVE  Nowhere(n) /\ n \notin refused
  <1>1. issued \in Nat /\ n \notin 1 .. issued
    BY AnswersType
  <1>2. \A w \in Worker : Times(Line(w), n) = 0
    <2>1. ASSUME NEW w \in Worker, NEW i \in 1 .. Len(Line(w)) PROVE NumberOf(Line(w)[i]) # n
      BY <1>1 DEF LinesInOrder, InOrder
    <2>2. QED
      BY <2>1, AnswersType, TimesZero
  <1>3. /\ n \notin Numbers(Range(results)) /\ n \notin Numbers(Range(saveReplies))
        /\ n \notin Numbers(taken) /\ n \notin refused
    BY <1>1 DEF NumbersIssued, Numbers
  <1>4. Times(results, n) = 0 /\ Times(saveReplies, n) = 0
    BY <1>3, BoxType
  <1>5. QED
    BY <1>2, <1>3, <1>4 DEF Nowhere, OutsideLines

\* A number whose count no line, box or set changes stays where it is.
LEMMA SettledStays ==
  ASSUME NEW n, Settled(n), \A w \in Worker : Times(Line(w)', n) = Times(Line(w), n),
         OutsideLines(n)' = OutsideLines(n),
         n \in Numbers(taken)' <=> n \in Numbers(taken), n \in refused' <=> n \in refused
  PROVE  Settled(n)'
  BY DEF Settled, Nowhere, InOneLine, InTheBox, IsTaken

\* Jobs that are queued are in that line, and nothing else moves.
LEMMA AccountedIssue ==
  ASSUME PoolTypeOK, Ordered, Accounted, NEW w \in Worker, NEW x \in Job, NEW y \in Job,
         Issues(w, x) \/ IssuesPair(w, x, y)
  PROVE  Accounted'
  <1>1. /\ issued \in Nat /\ Line(w) \in Seq(Entry) /\ x \in Entry /\ y \in Entry
        /\ issued' \in {issued + 1, issued + 2}
        /\ \A v \in Worker \ {w} : Line(v)' = Line(v)
        /\ results' = results /\ saveReplies' = saveReplies
        /\ taken' = taken /\ refused' = refused
    BY AnswersType DEF Issues, IssuesPair, OthersUnchanged, BoxUnchanged, Entry
  <1>2. Numbers(taken)' = Numbers(taken) /\ \A n : OutsideLines(n)' = OutsideLines(n)
    BY <1>1 DEF OutsideLines, Numbers
  <1>3. \A n \in Nat : Times(Line(w)', n) =
                         Times(Line(w), n) + IF n \in issued + 1 .. issued' THEN 1 ELSE 0
    <2>1. CASE Issues(w, x)
      <3>1. /\ Line(w)' = Append(Line(w), x) /\ NumberOf(x) = issued + 1
            /\ \A n \in Nat : n \in issued + 1 .. issued' <=> n = issued + 1
        BY <1>1, <2>1 DEF Issues
      <3>2. QED
        BY <1>1, <3>1, TimesAppend
    <2>2. CASE IssuesPair(w, x, y)
      <3> DEFINE t == Append(Line(w), x)
      <3>1. /\ Line(w)' = Append(t, y) /\ t \in Seq(Entry)
            /\ NumberOf(x) = issued + 1 /\ NumberOf(y) = issued + 2
            /\ \A n \in Nat : n \in issued + 1 .. issued' <=> n = issued + 1 \/ n = issued + 2
        BY <1>1, <2>2, AppendProperties DEF IssuesPair
      <3>2. \A n \in Nat : Times(t, n) = Times(Line(w), n) + IF n = issued + 1 THEN 1 ELSE 0
        BY <1>1, <3>1, TimesAppend
      <3> HIDE DEF t
      <3>3. \A n \in Nat : Times(Append(t, y), n) = Times(t, n) + IF n = issued + 2 THEN 1 ELSE 0
        BY <1>1, <3>1, TimesAppend
      <3>4. ASSUME NEW n \in Nat
            PROVE  Times(Line(w)', n) =
                     Times(Line(w), n) + IF n \in issued + 1 .. issued' THEN 1 ELSE 0
        <4>1. Times(Line(w), n) \in Nat
          BY BoxType
        <4>2. /\ Times(t, n) = Times(Line(w), n) + IF n = issued + 1 THEN 1 ELSE 0
              /\ Times(Line(w)', n) = Times(t, n) + IF n = issued + 2 THEN 1 ELSE 0
              /\ n \in issued + 1 .. issued' <=> n = issued + 1 \/ n = issued + 2
          BY <3>1, <3>2, <3>3
        <4>3. issued \in Nat
          BY <1>1
        <4>4. QED
          BY <4>1, <4>2, <4>3
      <3>5. QED
        BY <3>4
    <2>3. QED
      BY <2>1, <2>2
  <1>4. NumbersIssued'
    BY <1>1 DEF Accounted, NumbersIssued, Range
  <1>5. ASSUME NEW n \in 1 .. issued PROVE Settled(n)'
    <2>1. n \in Nat /\ n \notin issued + 1 .. issued'
      BY <1>1
    <2>2. Times(Line(w), n) \in Nat
      BY BoxType
    <2>3. ASSUME NEW v \in Worker PROVE Times(Line(v)', n) = Times(Line(v), n)
      <3>1. CASE v = w
        <4>1. Times(Line(w)', n) = Times(Line(w), n)
          BY <1>3, <2>1, <2>2
        <4>2. QED
          BY <3>1, <4>1
      <3>2. CASE v # w
        BY <1>1, <3>2
      <3>3. QED
        BY <3>1, <3>2
    <2>4. QED
      BY <1>1, <1>2, <2>3, SettledStays DEF Accounted
  <1>6. ASSUME NEW n \in Nat, n \in issued + 1 .. issued' PROVE Settled(n)'
    <2>1. n > issued
      BY <1>1, <1>6
    <2>2. Nowhere(n) /\ n \notin refused
      BY <2>1, NotIssuedNowhere DEF Accounted, Ordered
    <2>3. Times(Line(w)', n) = 1 /\ \A v \in Worker \ {w} : Times(Line(v)', n) = 0
      BY <1>1, <1>3, <1>6, <2>2 DEF Nowhere
    <2>4. OutsideLines(n)' = 0 /\ n \notin Numbers(taken)' /\ n \notin refused'
      BY <1>1, <1>2, <2>2 DEF Nowhere
    <2>5. QED
      BY <2>3, <2>4 DEF Settled, InOneLine
  <1>7. \A n \in 1 .. issued' : n \in Nat /\ (n \in 1 .. issued \/ n \in issued + 1 .. issued')
    BY <1>1
  <1>8. QED
    BY <1>4, <1>5, <1>6, <1>7 DEF Accounted

\* A refused job is nowhere.
LEMMA AccountedRefuse ==
  ASSUME PoolTypeOK, Ordered, Accounted, Refuses
  PROVE  Accounted'
  <1>1. /\ issued \in Nat /\ issued' \in {issued + 1, issued + 2}
        /\ \A v \in Worker : Line(v)' = Line(v)
        /\ results' = results /\ saveReplies' = saveReplies /\ taken' = taken
        /\ refused' = refused \cup (issued + 1 .. issued')
    BY AnswersType DEF Refuses, BoxUnchanged
  <1>2. Numbers(taken)' = Numbers(taken) /\ \A n : OutsideLines(n)' = OutsideLines(n)
    BY <1>1 DEF OutsideLines, Numbers
  <1>3. refused \subseteq 1 .. issued
    BY DEF Accounted, NumbersIssued
  <1>4. NumbersIssued'
    <2>1. refused' \subseteq 1 .. issued'
      BY <1>1, <1>3
    <2>2. \A k \in 1 .. issued : k \in 1 .. issued'
      BY <1>1
    <2>3. QED
      BY <1>1, <2>1, <2>2 DEF Accounted, NumbersIssued, Range
  <1>5. ASSUME NEW n \in 1 .. issued PROVE Settled(n)'
    <2>1. n \notin issued + 1 .. issued'
      BY <1>1
    <2>2. n \in refused' <=> n \in refused
      BY <1>1, <2>1
    <2>3. \A v \in Worker : Times(Line(v)', n) = Times(Line(v), n)
      BY <1>1
    <2>4. QED
      BY <1>2, <2>2, <2>3, SettledStays DEF Accounted
  <1>6. ASSUME NEW n \in Nat, n \in issued + 1 .. issued' PROVE Settled(n)'
    <2>1. n > issued
      BY <1>1, <1>6
    <2>2. Nowhere(n)
      BY <2>1, NotIssuedNowhere DEF Accounted, Ordered
    <2>3. \A v \in Worker : Times(Line(v)', n) = 0
      BY <1>1, <2>2 DEF Nowhere
    <2>4. OutsideLines(n)' = 0 /\ n \notin Numbers(taken)' /\ n \in refused'
      BY <1>1, <1>2, <1>6, <2>2 DEF Nowhere
    <2>5. QED
      BY <2>3, <2>4 DEF Settled, Nowhere
  <1>7. \A n \in 1 .. issued' : n \in Nat /\ (n \in 1 .. issued \/ n \in issued + 1 .. issued')
    BY <1>1
  <1>8. QED
    BY <1>4, <1>5, <1>6, <1>7 DEF Accounted

\* So is the line of a worker after a step.
LEMMA NextLineType ==
  ASSUME PoolTypeOK', NEW w \in Worker
  PROVE  Line(w)' \in Seq(Entry)
  <1>1. /\ out'[w] \in Seq(Answer) /\ batch'[w] \in Seq(Job) /\ slot'[w].queue \in Seq(Job)
    BY DEF PoolTypeOK, WorkerTypeOK, SlotState
  <1>2. Job \subseteq Entry /\ Answer \subseteq Entry
    BY DEF Entry
  <1>3. out'[w] \in Seq(Entry) /\ batch'[w] \in Seq(Entry) /\ slot'[w].queue \in Seq(Entry)
    BY <1>1, <1>2, SeqMonotonic
  <1>4. QED
    BY <1>3, ThreeParts DEF Line

\* A job that is run keeps its number.
LEMMA AccountedRun ==
  ASSUME PoolTypeOK, PoolTypeOK', Accounted, Runs
  PROVE  Accounted'
  <1>1. /\ \A w \in Worker : LikeLine(Line(w)', Line(w)) /\ Line(w) \in Seq(Entry)
        /\ results' = results /\ saveReplies' = saveReplies
        /\ taken' = taken /\ refused' = refused /\ issued' = issued
    BY AnswersType DEF Runs, BoxUnchanged
  <1>2. NumbersIssued'
    BY <1>1 DEF Accounted, NumbersIssued, Range
  <1>3. ASSUME NEW n, NEW w \in Worker
        PROVE  Times(Line(w)', n) = Times(Line(w), n)
    <2> DEFINE s == Line(w)
               t == Line(w)'
    <2>1. /\ s \in Seq(Entry) /\ t \in Seq(Entry) /\ Len(t) = Len(s)
          /\ \A i \in 1 .. Len(s) : NumberOf(t[i]) = NumberOf(s[i])
      BY <1>1, NextLineType DEF LikeLine, Like
    <2> HIDE DEF s, t
    <2>2. DOMAIN s = 1 .. Len(s) /\ DOMAIN t = 1 .. Len(s)
      BY <2>1, LenProperties
    <2>3. Occurrences(t, n) = Occurrences(s, n)
      BY <2>1, <2>2 DEF Occurrences
    <2>4. QED
      BY <2>3 DEF Times, s, t
  <1>4. Numbers(taken)' = Numbers(taken) /\ \A n : OutsideLines(n)' = OutsideLines(n)
    BY <1>1 DEF OutsideLines, Numbers
  <1>5. ASSUME NEW n \in 1 .. issued PROVE Settled(n)'
    <2>1. \A w \in Worker : Times(Line(w)', n) = Times(Line(w), n)
      BY <1>3
    <2>2. Settled(n)
      BY DEF Accounted
    <2>3. QED
      BY <1>1, <1>4, <2>1, <2>2, SettledStays
  <1>6. QED
    BY <1>1, <1>2, <1>5 DEF Accounted

\* The answers of the box go to the swapped-out ones, all of them.
LEMMA AccountedCollect ==
  ASSUME PoolTypeOK, Accounted, Collects
  PROVE  Accounted'
  <1>1. /\ \A w \in Worker : Line(w)' = Line(w)
        /\ taken' = taken \cup Range(saveReplies) \cup Range(results)
        /\ results' = <<>> /\ saveReplies' = <<>>
        /\ issued' = issued /\ refused' = refused
    BY DEF Collects
  <1>2. NumbersIssued'
    BY <1>1 DEF Accounted, NumbersIssued, Range
  <1>3. Numbers(taken)' = Numbers(taken) \cup Numbers(Range(saveReplies))
                                         \cup Numbers(Range(results))
    BY <1>1 DEF Numbers
  <1>4. \A n : OutsideLines(n)' = 0
    <2>1. \A n : Times(<<>>, n) = 0
      BY TimesOne
    <2>2. QED
      BY <1>1, <2>1 DEF OutsideLines
  <1>5. ASSUME NEW n \in 1 .. issued PROVE Settled(n)'
    <2>1. /\ Times(results, n) \in Nat /\ Times(saveReplies, n) \in Nat
          /\ Times(results, n) = 0 <=> n \notin Numbers(Range(results))
          /\ Times(saveReplies, n) = 0 <=> n \notin Numbers(Range(saveReplies))
      BY BoxType
    <2>2. OutsideLines(n) = 0 <=> n \notin Numbers(Range(saveReplies)) \cup Numbers(Range(results))
      BY <2>1 DEF OutsideLines
    <2>3. OutsideLines(n) = 0 => (n \in Numbers(taken)' <=> n \in Numbers(taken))
      BY <1>3, <2>2
    <2>4. OutsideLines(n) = 1 => n \in Numbers(taken)'
      BY <1>3, <2>2
    <2>5. \A w \in Worker : Times(Line(w)', n) = Times(Line(w), n)
      BY <1>1
    <2>6. Settled(n)
      BY DEF Accounted
    <2>7. CASE OutsideLines(n) = 0
      BY <1>1, <1>4, <2>3, <2>5, <2>6, <2>7, SettledStays
    <2>8. CASE OutsideLines(n) # 0
      <3>1. /\ n \notin refused /\ OutsideLines(n) = 1
            /\ \A w \in Worker : Times(Line(w), n) = 0
        BY <2>6, <2>8 DEF Settled, Nowhere, InOneLine, InTheBox, IsTaken
      <3>2. \A w \in Worker : Times(Line(w)', n) = 0
        BY <2>5, <3>1
      <3>3. n \in Numbers(taken)' /\ n \notin refused'
        BY <1>1, <2>4, <3>1
      <3>4. QED
        BY <1>4, <3>2, <3>3 DEF Settled, IsTaken
    <2>9. QED
      BY <2>7, <2>8
  <1>6. QED
    BY <1>1, <1>2, <1>5 DEF Accounted

\* An answer leaves its line for the box.
LEMMA AccountedPush ==
  ASSUME PoolTypeOK, Ordered, Accounted, NEW w \in Worker, Pushes(w)
  PROVE  Accounted'
  <1> DEFINE s == Line(w)
             h == Head(s)
  <1>1. /\ s \in Seq(Entry) /\ s # <<>> /\ h \in Answer
        /\ Line(w)' = Tail(s)
        /\ \A v \in Worker \ {w} : Line(v)' = Line(v)
        /\ taken' = taken /\ issued' = issued /\ refused' = refused
        /\ \/ results' = Append(results, h) /\ saveReplies' = saveReplies
           \/ saveReplies' = Append(saveReplies, h) /\ results' = results
    BY AnswersType DEF Pushes, OthersUnchanged
  <1>2. NumberOf(h) \in 1 .. issued
    <2>1. InOrder(s, w, issued) /\ issued \in Nat
      BY AnswersType DEF Ordered, LinesInOrder
    <2> HIDE DEF s
    <2>2. QED
      BY <1>1, <2>1, TailInOrder
  <1> HIDE DEF h
  <1>3. h \in Entry /\ results \in Seq(Entry) /\ saveReplies \in Seq(Entry)
    BY <1>1, BoxType DEF Entry
  <1>4. /\ Range(Append(results, h)) = Range(results) \cup {h}
        /\ Range(Append(saveReplies, h)) = Range(saveReplies) \cup {h}
    <2>1. ASSUME NEW t \in Seq(Entry) PROVE Range(Append(t, h)) = Range(t) \cup {h}
      <3>1. /\ Len(t) \in Nat /\ DOMAIN t = 1 .. Len(t)
            /\ DOMAIN Append(t, h) = 1 .. Len(t) + 1
            /\ \A i \in 1 .. Len(t) : Append(t, h)[i] = t[i]
            /\ Append(t, h)[Len(t) + 1] = h
        BY <1>3, AppendProperties, LenProperties
      <3>2. QED
        BY <3>1 DEF Range
    <2>2. QED
      BY <1>3, <2>1
  <1>5. NumbersIssued'
    <2>1. \A x \in Range(results)' \cup Range(saveReplies)' \cup taken' :
            x \in Range(results) \cup Range(saveReplies) \cup taken \cup {h}
      BY <1>1, <1>4
    <2>2. QED
      BY <1>1, <1>2, <2>1 DEF Accounted, NumbersIssued
  <1>6. Numbers(taken)' = Numbers(taken)
    BY <1>1 DEF Numbers
  <1>7. \A n : OutsideLines(n)' = OutsideLines(n) + IF NumberOf(h) = n THEN 1 ELSE 0
    <2>1. ASSUME NEW n
          PROVE  OutsideLines(n)' = OutsideLines(n) + IF NumberOf(h) = n THEN 1 ELSE 0
      <3>1. Times(results, n) \in Nat /\ Times(saveReplies, n) \in Nat
        BY BoxType
      <3>2. /\ Times(Append(results, h), n) = Times(results, n) + IF NumberOf(h) = n THEN 1 ELSE 0
            /\ Times(Append(saveReplies, h), n) =
                 Times(saveReplies, n) + IF NumberOf(h) = n THEN 1 ELSE 0
        BY <1>3, TimesAppend
      <3>3. OutsideLines(n)' = Times(saveReplies', n) + Times(results', n)
        BY DEF OutsideLines
      <3>4. CASE results' = Append(results, h) /\ saveReplies' = saveReplies
        BY <3>1, <3>2, <3>3, <3>4 DEF OutsideLines
      <3>5. CASE saveReplies' = Append(saveReplies, h) /\ results' = results
        BY <3>1, <3>2, <3>3, <3>5 DEF OutsideLines
      <3>6. QED
        BY <1>1, <3>4, <3>5
    <2>2. QED
      BY <2>1
  <1>8. \A n : Times(Line(w), n) = (IF NumberOf(h) = n THEN 1 ELSE 0) + Times(Line(w)', n)
    <2> HIDE DEF s
    <2>1. \A n : Times(s, n) = (IF NumberOf(h) = n THEN 1 ELSE 0) + Times(Tail(s), n)
      BY <1>1, TimesTail DEF h
    <2>2. QED
      BY <1>1, <2>1 DEF s
  <1>9. \A n : Times(Line(w)', n) \in Nat
    <2>1. Tail(s) \in Seq(Entry)
      BY <1>1, HeadTailProperties
    <2>2. QED
      BY <1>1, <2>1, OccurrencesFinite
  <1>10. ASSUME NEW n \in 1 .. issued PROVE Settled(n)'
    <2>1. Settled(n) /\ (n \in refused' <=> n \in refused)
      BY <1>1 DEF Accounted
    <2>2. OutsideLines(n) \in Nat
      BY BoxType DEF OutsideLines
    <2>3. CASE NumberOf(h) # n
      <3>1. OutsideLines(n)' = OutsideLines(n)
        BY <1>7, <2>2, <2>3
      <3>2. Times(Line(w)', n) = Times(Line(w), n)
        BY <1>8, <1>9, <2>3
      <3>3. \A v \in Worker : Times(Line(v)', n) = Times(Line(v), n)
        BY <1>1, <3>2
      <3>4. QED
        BY <1>6, <2>1, <3>1, <3>3, SettledStays
    <2>4. CASE NumberOf(h) = n
      <3>1. Times(Line(w), n) = 1 + Times(Line(w)', n) /\ Times(Line(w)', n) \in Nat
        BY <1>8, <1>9, <2>4
      <3>2. Times(Line(w), n) # 0
        BY <3>1
      <3>3. InOneLine(n) /\ n \notin refused
        BY <2>1, <3>2 DEF Settled, Nowhere, InTheBox, IsTaken
      <3>4. /\ Times(Line(w), n) = 1
            /\ \A v \in Worker \ {w} : Times(Line(v), n) = 0
        BY <3>2, <3>3 DEF InOneLine
      <3>5. Times(Line(w)', n) = 0
        BY <3>1, <3>4
      <3>6. \A v \in Worker : Times(Line(v)', n) = 0
        BY <1>1, <3>4, <3>5
      <3>7. OutsideLines(n)' = 1
        BY <1>7, <2>4, <3>3 DEF InOneLine
      <3>8. n \notin Numbers(taken)' /\ n \notin refused'
        BY <1>6, <2>1, <3>3 DEF InOneLine
      <3>9. QED
        BY <3>6, <3>7, <3>8 DEF Settled, InTheBox
    <2>5. QED
      BY <2>3, <2>4
  <1>11. QED
    BY <1>1, <1>5, <1>10 DEF Accounted

\* Every step accounts for every job.
LEMMA AccountedStep ==
  ASSUME PoolTypeOK, PoolTypeOK', PairAdjacent, Ordered, Accounted, [PoolNext]_poolVars
  PROVE  Accounted'
  BY PoolMoves, AccountedIssue, AccountedRefuse, AccountedRun, AccountedCollect, AccountedPush
     DEF LineMove

\* No job is issued at the start.
LEMMA AccountedInit == PoolInit => Accounted
  BY DEF PoolInit, WorkerInit, WorkersStart, Accounted, NumbersIssued, Range

\* How many places a number has in the lines, if it is in no line or in one.
LEMMA PlacesInLines ==
  ASSUME PoolTypeOK, NEW n
  PROVE  LET places == UNION {{<<w, i>> : i \in Occurrences(Line(w), n)} : w \in Worker}
         IN  /\ (\A w \in Worker : Times(Line(w), n) = 0) => Cardinality(places) = 0
             /\ (\E w \in Worker : /\ Times(Line(w), n) = 1
                                   /\ \A v \in Worker \ {w} : Times(Line(v), n) = 0)
                => Cardinality(places) = 1
  <1> DEFINE places == UNION {{<<w, i>> : i \in Occurrences(Line(w), n)} : w \in Worker}
  <1>1. \A w \in Worker : /\ IsFiniteSet(Occurrences(Line(w), n))
                          /\ Times(Line(w), n) = 0 => Occurrences(Line(w), n) = {}
    BY AnswersType, OccurrencesFinite, FS_EmptySet DEF Times
  <1>2. ASSUME \A w \in Worker : Times(Line(w), n) = 0
        PROVE  Cardinality(places) = 0
    <2>1. places = {}
      BY <1>1, <1>2
    <2>2. QED
      BY <2>1, FS_EmptySet
  <1>3. ASSUME NEW w \in Worker, Times(Line(w), n) = 1,
               \A v \in Worker \ {w} : Times(Line(v), n) = 0
        PROVE  Cardinality(places) = 1
    <2>1. PICK i : Occurrences(Line(w), n) = {i}
      BY <1>1, <1>3, FS_Singleton DEF Times
    <2>2. \A v \in Worker \ {w} : Occurrences(Line(v), n) = {}
      BY <1>1, <1>3
    <2>3. places = {<<w, i>>}
      BY <2>1, <2>2
    <2>4. QED
      BY <2>3, FS_Singleton
  <1>4. QED
    BY <1>2, <1>3

\* Accounting for every job is what the property says.
LEMMA AccountedOnce ==
  ASSUME PoolTypeOK, Accounted
  PROVE  EachJobOnce
  <1> SUFFICES ASSUME NEW n \in 1 .. issued
               PROVE  Cardinality(UNION {{<<w, i>> : i \in Occurrences(Line(w), n)} : w \in Worker})
                      + Cardinality(Occurrences(Box, n))
                      + (IF n \in Numbers(taken) THEN 1 ELSE 0)
                      = IF n \in refused THEN 0 ELSE 1
    BY DEF EachJobOnce
  <1> DEFINE places == UNION {{<<w, i>> : i \in Occurrences(Line(w), n)} : w \in Worker}
  <1>1. Cardinality(Occurrences(Box, n)) = OutsideLines(n)
    BY BoxType, TimesConcat DEF Times, Box, OutsideLines
  <1>2. /\ (\A w \in Worker : Times(Line(w), n) = 0) => Cardinality(places) = 0
        /\ (\E w \in Worker : /\ Times(Line(w), n) = 1
                              /\ \A v \in Worker \ {w} : Times(Line(v), n) = 0)
           => Cardinality(places) = 1
    BY PlacesInLines
  <1> HIDE DEF places
  <1>3. Settled(n)
    BY DEF Accounted
  <1>4. Cardinality(places) + OutsideLines(n) + (IF n \in Numbers(taken) THEN 1 ELSE 0)
          = IF n \in refused THEN 0 ELSE 1
    BY <1>2, <1>3 DEF Settled, Nowhere, InOneLine, InTheBox, IsTaken
  <1>5. QED
    BY <1>1, <1>4 DEF places

\* Every job the queues accept is answered exactly once, whatever connections
\* break, and a job they refuse never (DBWorkerPool::EnqueueLoad, EnqueueSave
\* and EnqueueSavePair; WorkerThread; SwapOutResults).
THEOREM EachJobIsOnce == PoolSpec => []EachJobOnce
  <1>1. PoolTypeOK /\ PoolTypeOK' /\ PairAdjacent /\ Ordered /\ [PoolNext]_poolVars => Ordered'
    BY OrderedStep
  <1>2. PoolTypeOK /\ PoolTypeOK' /\ PairAdjacent /\ Ordered /\ Accounted /\ [PoolNext]_poolVars
          => Accounted'
    BY AccountedStep
  <1>3. PoolTypeOK /\ Accounted => EachJobOnce
    BY AccountedOnce
  <1>4. QED
    BY <1>1, <1>2, <1>3, OrderedInit, AccountedInit, PoolTypeCorrect, PairsStayAdjacent, PTL
       DEF PoolSpec

=============================================================================

---------------------------- MODULE DBWorker_proofs ----------------------------
(***************************************************************************)
(* What the workers keep by themselves, whoever drives them: types, and    *)
(* the two heads of a pair next to each other in every queue and batch.    *)
(***************************************************************************)
EXTENDS DBWorker, SequenceTheorems, TLAPS

-----------------------------------------------------------------------------
(* Sequences of jobs. *)

\* A single bundle or load at the end of a well-paired queue.
LEMMA AppendSingle ==
  ASSUME NEW q \in Seq(Job), NEW job \in Job, PairAdjacentIn(q),
         job.kind = "SAVE" => job.pairNext = 0
  PROVE  /\ Append(q, job) \in Seq(Job)
         /\ PairAdjacentIn(Append(q, job))
  BY DEF PairAdjacentIn

\* The two heads of a pair at the end of a well-paired queue.
LEMMA AppendPair ==
  ASSUME NEW q \in Seq(Job), PairAdjacentIn(q),
         NEW a \in Bundle, NEW b \in Bundle,
         a.pairNext = 1, b.pairNext = 0, a.account # b.account
  PROVE  /\ Append(Append(q, a), b) \in Seq(Job)
         /\ PairAdjacentIn(Append(Append(q, a), b))
  <1>1. a \in Job /\ b \in Job /\ a.kind = "SAVE" /\ b.kind = "SAVE"
    BY DEF Job, Bundle
  <1>2. Append(q, a) \in Seq(Job) /\ Append(Append(q, a), b) \in Seq(Job)
    BY <1>1
  <1>3. QED
    BY <1>1, <1>2 DEF PairAdjacentIn

\* What is left of a well-paired sequence when jobs are taken off its front.
LEMMA SuffixPaired ==
  ASSUME NEW q \in Seq(Job), PairAdjacentIn(q), NEW n \in Nat, n <= Len(q)
  PROVE  /\ SubSeq(q, n + 1, Len(q)) \in Seq(Job)
         /\ PairAdjacentIn(SubSeq(q, n + 1, Len(q)))
  <1> DEFINE t == SubSeq(q, n + 1, Len(q))
  <1>1. /\ t \in Seq(Job)
        /\ Len(t) = Len(q) - n
        /\ \A i \in 1 .. Len(q) - n : t[i] = q[n + i]
    <2>1. \A i \in n + 1 .. Len(q) : q[i] \in Job
      OBVIOUS
    <2>2. QED
      BY <2>1, SubSeqProperties
  <1> HIDE DEF t
  <1>2. PairAdjacentIn(t)
    <2>1. SUFFICES ASSUME NEW i \in 1 .. Len(t), t[i].kind = "SAVE", t[i].pairNext = 1
                   PROVE  /\ i < Len(t)
                          /\ t[i + 1].kind = "SAVE"
                          /\ t[i + 1].pairNext = 0
                          /\ t[i + 1].account # t[i].account
      BY DEF PairAdjacentIn
    <2>2. t[i] = q[n + i] /\ n + i \in 1 .. Len(q)
      BY <1>1
    <2>3. /\ n + i < Len(q)
          /\ q[n + i + 1].kind = "SAVE"
          /\ q[n + i + 1].pairNext = 0
          /\ q[n + i + 1].account # q[n + i].account
      BY <2>1, <2>2 DEF PairAdjacentIn
    <2>4. t[i + 1] = q[n + i + 1]
      BY <1>1, <2>3
    <2>5. QED
      BY <1>1, <2>2, <2>3, <2>4
  <1>3. QED
    BY <1>1, <1>2 DEF t

\* What is left of a well-paired sequence without its front job.
LEMMA TailPaired ==
  ASSUME NEW q \in Seq(Job), PairAdjacentIn(q), q # <<>>
  PROVE  /\ Tail(q) \in Seq(Job)
         /\ PairAdjacentIn(Tail(q))
  <1>1. 1 \in Nat /\ 1 <= Len(q) /\ 1 + 1 = 2
    OBVIOUS
  <1>2. Tail(q) = SubSeq(q, 2, Len(q))
    BY TailIsSubSeq
  <1>3. QED
    BY <1>1, <1>2, SuffixPaired

-----------------------------------------------------------------------------
(* Enqueueing. *)

\* A worker is found for every account.
LEMMA SlotIndexType == \A a \in Account : SlotIndex(a) \in Worker
  BY DBWorkerAssumption DEF SlotIndex, Worker

\* The worker a pair is sent to exists.
LEMMA PairSlotType == \A a, b \in Account : PairSlot(a, b) \in Worker
  BY SlotIndexType DEF PairSlot

QueuesOK(q) ==
    /\ q \in [Worker -> SlotState]
    /\ \A w \in Worker : PairAdjacentIn(q[w].queue)

\* A load joins a queue without parting a pair.
LEMMA EnqueueLoadOK ==
  ASSUME NEW q, QueuesOK(q), NEW job \in LoadJob
  PROVE  QueuesOK(EnqueueLoad(q, job))
  <1> DEFINE w == SlotIndex(job.account)
  <1>1. job \in Job /\ job.kind # "SAVE" /\ w \in Worker
    BY SlotIndexType DEF LoadJob, Job
  <1>2. q[w].queue \in Seq(Job) /\ q[w].loadCount \in Nat /\ q[w].bundleCount \in Nat
    BY <1>1 DEF QueuesOK, SlotState
  <1>3. /\ Append(q[w].queue, job) \in Seq(Job)
        /\ PairAdjacentIn(Append(q[w].queue, job))
    BY <1>1, <1>2, AppendSingle DEF QueuesOK
  <1>4. QED
    BY <1>1, <1>2, <1>3 DEF QueuesOK, SlotState, EnqueueLoad

\* Pushing a bundle touches the queue of one worker only.
LEMMA PushBundleType ==
  ASSUME NEW q \in [Worker -> SlotState], NEW w \in Worker, NEW b \in Bundle
  PROVE  /\ PushBundle(q, w, b) \in [Worker -> SlotState]
         /\ PushBundle(q, w, b)[w].queue = Append(q[w].queue, b)
         /\ \A v \in Worker \ {w} : PushBundle(q, w, b)[v] = q[v]
  <1>1. b \in Job /\ q[w] \in SlotState
    BY DEF Job
  <1>2. QED
    BY <1>1 DEF PushBundle, SlotState

\* A bundle of its own joins a queue without parting a pair.
LEMMA EnqueueSaveOK ==
  ASSUME NEW q, QueuesOK(q), NEW b \in Bundle, b.pairNext = 0
  PROVE  QueuesOK(EnqueueSave(q, b))
  <1> DEFINE w == SlotIndex(b.account)
  <1>1. b \in Job /\ w \in Worker
    BY SlotIndexType DEF Bundle, Job
  <1>2. q[w].queue \in Seq(Job)
    BY <1>1 DEF QueuesOK, SlotState
  <1>3. PairAdjacentIn(Append(q[w].queue, b))
    BY <1>1, <1>2, AppendSingle DEF QueuesOK
  <1> HIDE DEF w
  <1>4. /\ PushBundle(q, w, b) \in [Worker -> SlotState]
        /\ PushBundle(q, w, b)[w].queue = Append(q[w].queue, b)
        /\ \A v \in Worker \ {w} : PushBundle(q, w, b)[v] = q[v]
    BY <1>1, PushBundleType DEF QueuesOK
  <1>5. QueuesOK(PushBundle(q, w, b))
    BY <1>3, <1>4 DEF QueuesOK
  <1>6. QED
    BY <1>5 DEF EnqueueSave, w

\* The two heads of a pair join one queue together.
LEMMA EnqueueSavePairOK ==
  ASSUME NEW q, QueuesOK(q), NEW a \in Bundle, NEW b \in Bundle,
         a.account # b.account
  PROVE  QueuesOK(EnqueueSavePair(q, a, b))
  <1> DEFINE w == PairSlot(a.account, b.account)
             a1 == [a EXCEPT !.pairNext = 1]
             b0 == [b EXCEPT !.pairNext = 0]
             q1 == PushBundle(q, w, a1)
             q2 == PushBundle(q1, w, b0)
  <1>1. w \in Worker
    BY PairSlotType DEF Bundle
  <1>2. /\ a1 \in Bundle /\ a1.pairNext = 1
        /\ b0 \in Bundle /\ b0.pairNext = 0
        /\ a1.account # b0.account
    BY DEF Bundle
  <1>3. q[w].queue \in Seq(Job) /\ PairAdjacentIn(q[w].queue)
    BY <1>1 DEF QueuesOK, SlotState
  <1> HIDE DEF a1, b0, w
  <1>4. /\ q1 \in [Worker -> SlotState]
        /\ q1[w].queue = Append(q[w].queue, a1)
        /\ \A v \in Worker \ {w} : q1[v] = q[v]
    BY <1>1, <1>2, PushBundleType DEF QueuesOK
  <1> HIDE DEF q1
  <1>5. /\ q2 \in [Worker -> SlotState]
        /\ q2[w].queue = Append(q1[w].queue, b0)
        /\ \A v \in Worker \ {w} : q2[v] = q1[v]
    BY <1>1, <1>2, <1>4, PushBundleType
  <1> HIDE DEF q2
  <1>6. PairAdjacentIn(q2[w].queue)
    BY <1>2, <1>3, <1>4, <1>5, AppendPair
  <1>7. QueuesOK(q2)
    BY <1>4, <1>5, <1>6 DEF QueuesOK
  <1>8. QED
    BY <1>7 DEF EnqueueSavePair, q2, q1, a1, b0, w

-----------------------------------------------------------------------------
(* The worker's steps. *)

\* Paying for faults stays within their budget.
LEMMA CostsType ==
  ASSUME faults \in 0 .. MaxFaults, NEW n \in Nat, Costs(n)
  PROVE  faults' \in 0 .. MaxFaults
  BY DBWorkerAssumption DEF Costs

\* However a statement or transaction ends, the connection and the budget of
\* faults stay typed.
LEMMA ExecutesType ==
  ASSUME WorkerTypeOK, NEW w \in Worker, NEW txn \in BOOLEAN,
         NEW r, NEW reached, Executes(w, txn, r, reached)
  PROVE  /\ mysql' \in [Worker -> BOOLEAN]
         /\ reconnectFailed' \in [Worker -> BOOLEAN]
         /\ faults' \in 0 .. MaxFaults
  <1>1. PICK first \in FirstTry(w, txn) :
          \/ /\ first.r # "LOST" \/ reconnectFailed[w]
             /\ mysql' = [mysql EXCEPT ![w] = first.connected]
             /\ Costs(IF first.r = "OK" \/ ~mysql[w] THEN 0 ELSE 1)
             /\ UNCHANGED reconnectFailed
          \/ /\ mysql' = [mysql EXCEPT ![w] = FALSE]
             /\ reconnectFailed' = [reconnectFailed EXCEPT ![w] = TRUE]
             /\ Costs(1)
          \/ /\ \E second \in Tries(txn) :
                  /\ mysql' = [mysql EXCEPT ![w] = second.connected]
                  /\ Costs(IF second.r = "OK" /\ ~mysql[w] THEN 0 ELSE 1)
             /\ UNCHANGED reconnectFailed
    BY DEF Executes
  <1>2. \A t \in Tries(txn) \cup FirstTry(w, txn) : t.connected \in BOOLEAN
    <2>1. \A t \in Tries(txn) : t.connected \in BOOLEAN
      <3> DEFINE Try == [r : {"OK", "QUERY_ERROR", "LOST"},
                         applied : BOOLEAN, connected : BOOLEAN]
      <3>1. \A x \in {"OK", "QUERY_ERROR", "LOST"}, y, z \in BOOLEAN :
              [r |-> x, applied |-> y, connected |-> z] \in Try
        BY Zenon
      <3>2. \A t \in Try : t.connected \in BOOLEAN
        OBVIOUS
      <3> HIDE DEF Try
      <3>3. Tries(txn) \subseteq Try
        BY <3>1, Zenon DEF Tries
      <3>4. QED
        BY <3>2, <3>3
    <2>2. NotTried.connected \in BOOLEAN
      BY DEF NotTried
    <2>3. FirstTry(w, txn) \subseteq Tries(txn) \cup {NotTried}
      BY DEF FirstTry
    <2>4. QED
      BY <2>1, <2>2, <2>3
  <1>3. /\ mysql \in [Worker -> BOOLEAN]
        /\ reconnectFailed \in [Worker -> BOOLEAN]
        /\ faults \in 0 .. MaxFaults
    BY DEF WorkerTypeOK
  <1>4. faults' \in 0 .. MaxFaults
    BY <1>1, <1>3, CostsType
  <1>5. QED
    BY <1>1, <1>2, <1>3, <1>4

\* The result of a load is a load result, whatever the tables hold.
LEMMA ResultOfType ==
  ASSUME WorkerTypeOK, NEW job \in LoadJob, NEW r
  PROVE  ResultOf(job, r) \in LoadResult
  <1>1. /\ db[job.account] \in [row : Row, bag : Bag]
        /\ job.account \in Account /\ job.session \in Session \ {0}
    BY DEF WorkerTypeOK, LoadJob
  <1>2. NoRow \in Row /\ [s \in Slot |-> 0] \in Bag
    BY DEF NoRow, Row, Bag
  <1>3. QED
    BY <1>1, <1>2 DEF ResultOf, LoadResult

\* The reply to a bundle is a result.
LEMMA ReplyToType ==
  ASSUME NEW b \in Bundle, NEW ok \in BOOLEAN
  PROVE  ReplyTo(b, ok) \in SaveReply
  BY DEF ReplyTo, Bundle, SaveReply

\* What a committed bundle writes is a numbered record.
LEMMA WrittenType ==
  ASSUME NEW stored \in [row : Row, bag : Bag], NEW b \in Bundle
  PROVE  Written(stored, b) \in [row : Row, bag : Bag]
  BY DEF Written, Bundle, Bag, BagRows, NotCarried

\* The heads of the bundle in front of a well-paired batch are bundles.
LEMMA HeadsType ==
  ASSUME NEW jobs \in Seq(Job), PairAdjacentIn(jobs), jobs # <<>>,
         Head(jobs).kind = "SAVE"
  PROVE  /\ Heads(jobs) \in Seq(Bundle)
         /\ Len(Heads(jobs)) \in {1, 2}
         /\ Len(Heads(jobs)) <= Len(jobs)
  <1>1. \A i \in 1 .. Len(jobs) : jobs[i].kind = "SAVE" => jobs[i] \in Bundle
    BY DEF Job, LoadJob, Bundle
  <1>2. Len(jobs) \in Nat /\ 1 \in 1 .. Len(jobs) /\ jobs[1] = Head(jobs)
    OBVIOUS
  <1>3. CASE Head(jobs).pairNext = 1
    <2>1. 2 \in 1 .. Len(jobs) /\ jobs[2].kind = "SAVE"
      BY <1>2, <1>3 DEF PairAdjacentIn
    <2>2. QED
      BY <1>1, <1>2, <1>3, <2>1 DEF Heads
  <1>4. CASE Head(jobs).pairNext # 1
    BY <1>1, <1>2, <1>4 DEF Heads
  <1>5. QED
    BY <1>3, <1>4

-----------------------------------------------------------------------------
(* Every step of a worker keeps the types and the pairs. *)

Paired == \A w \in Worker : PairAdjacentIn(slot[w].queue) /\ PairAdjacentIn(batch[w])

\* A worker that takes its queue keeps types and pairs.
LEMMA SwapOutOK ==
  ASSUME WorkerTypeOK, Paired, NEW w \in Worker, SwapOut(w)
  PROVE  WorkerTypeOK' /\ Paired'
  <1>1. slot[w].queue \in Seq(Job) /\ PairAdjacentIn(slot[w].queue)
    BY DEF WorkerTypeOK, SlotState, Paired
  <1>2. <<>> \in Seq(Job) /\ PairAdjacentIn(<<>>)
    BY DEF PairAdjacentIn
  <1>3. PICK connected \in BOOLEAN :
          /\ Costs(IF connected THEN 0 ELSE 1)
          /\ mysql' = [mysql EXCEPT ![w] = connected]
          /\ reconnectFailed' = [reconnectFailed EXCEPT ![w] = ~connected]
    BY DEF SwapOut
  <1>4. faults' \in 0 .. MaxFaults
    BY <1>3, CostsType DEF WorkerTypeOK
  <1>5. /\ batch' = [batch EXCEPT ![w] = slot[w].queue]
        /\ slot' = [slot EXCEPT ![w] = [queue |-> <<>>, loadCount |-> 0,
                                        bundleCount |-> 0]]
        /\ UNCHANGED <<out, db, results, saveReplies, stop, exited>>
    BY DEF SwapOut
  <1>6. WorkerTypeOK'
    BY <1>1, <1>2, <1>3, <1>4, <1>5 DEF WorkerTypeOK, SlotState
  <1>7. Paired'
    BY SMTT(60), ZenonT(60), <1>1, <1>2, <1>5 DEF Paired, WorkerTypeOK
  <1>8. QED
    BY <1>6, <1>7

\* A worker that exits keeps types and pairs.
LEMMA ExitOK ==
  ASSUME WorkerTypeOK, Paired, NEW w \in Worker, Exit(w)
  PROVE  WorkerTypeOK' /\ Paired'
  BY DEF Exit, WorkerTypeOK, Paired

\* A worker that runs a load keeps types and pairs.
LEMMA RunLoadOK ==
  ASSUME WorkerTypeOK, Paired, NEW w \in Worker, RunLoad(w)
  PROVE  WorkerTypeOK' /\ Paired'
  <1>1. /\ batch[w] \in Seq(Job) /\ PairAdjacentIn(batch[w]) /\ batch[w] # <<>>
        /\ Head(batch[w]).kind = "LOAD"
    BY DEF RunLoad, WorkerTypeOK, Paired
  <1>2. Head(batch[w]) \in LoadJob
    <2>1. Head(batch[w]) \in Job
      BY <1>1
    <2>2. QED
      BY <1>1, <2>1 DEF Job, Bundle
  <1>3. Tail(batch[w]) \in Seq(Job) /\ PairAdjacentIn(Tail(batch[w]))
    BY <1>1, TailPaired
  <1>4. PICK r, applied1 :
          /\ Executes(w, FALSE, r, applied1)
          /\ out' = [out EXCEPT ![w] = <<ResultOf(Head(batch[w]), r)>>]
    BY DEF RunLoad
  <1>5. /\ mysql' \in [Worker -> BOOLEAN]
        /\ reconnectFailed' \in [Worker -> BOOLEAN]
        /\ faults' \in 0 .. MaxFaults
    BY <1>4, ExecutesType
  <1>6. ResultOf(Head(batch[w]), r) \in Answer
    BY <1>2, ResultOfType DEF Answer
  <1>7. out' \in [Worker -> Seq(Answer)]
    BY <1>4, <1>6 DEF WorkerTypeOK
  <1>8. /\ batch' = [batch EXCEPT ![w] = Tail(batch[w])]
        /\ UNCHANGED <<slot, db, results, saveReplies, stop, exited>>
    BY DEF RunLoad
  <1>9. WorkerTypeOK'
    BY <1>3, <1>5, <1>7, <1>8 DEF WorkerTypeOK
  <1>10. Paired'
    BY SMTT(60), ZenonT(60), <1>3, <1>8 DEF Paired, WorkerTypeOK
  <1>11. QED
    BY <1>9, <1>10

\* A worker that runs a bundle, or a pair, keeps types and pairs.
LEMMA RunBundleOK ==
  ASSUME WorkerTypeOK, Paired, NEW w \in Worker, RunBundle(w)
  PROVE  WorkerTypeOK' /\ Paired'
  <1> DEFINE heads == Heads(batch[w])
             n == Len(heads)
  <1>1. /\ batch[w] \in Seq(Job) /\ PairAdjacentIn(batch[w]) /\ batch[w] # <<>>
        /\ Head(batch[w]).kind = "SAVE"
    BY DEF RunBundle, WorkerTypeOK, Paired
  <1>2. heads \in Seq(Bundle) /\ n \in {1, 2} /\ n <= Len(batch[w])
    BY <1>1, HeadsType
  <1>3. /\ SubSeq(batch[w], n + 1, Len(batch[w])) \in Seq(Job)
        /\ PairAdjacentIn(SubSeq(batch[w], n + 1, Len(batch[w])))
    BY SMTT(60), ZenonT(60), <1>1, <1>2, SuffixPaired
  <1>4. PICK r \in {"OK", "QUERY_ERROR", "LOST"}, applied1 \in BOOLEAN :
          /\ Executes(w, n > 1 \/ CarriesSlots(heads[1]), r, applied1)
          /\ db' = IF applied1
                   THEN [a \in Account |->
                           IF \E i \in 1 .. n : heads[i].account = a
                           THEN Written(db[a], heads[CHOOSE i \in 1 .. n :
                                                       heads[i].account = a])
                           ELSE db[a]]
                   ELSE db
          /\ out' = [out EXCEPT ![w] = [i \in 1 .. n |-> ReplyTo(heads[i], r = "OK")]]
    BY ZenonT(60), SMTT(60) DEF RunBundle
  <1>5. /\ batch' = [batch EXCEPT ![w] = SubSeq(batch[w], n + 1, Len(batch[w]))]
        /\ UNCHANGED <<slot, results, saveReplies, stop, exited>>
    BY DEF RunBundle
  <1> HIDE DEF heads, n
  <1>6. /\ mysql' \in [Worker -> BOOLEAN]
        /\ reconnectFailed' \in [Worker -> BOOLEAN]
        /\ faults' \in 0 .. MaxFaults
    <2>1. (n > 1 \/ CarriesSlots(heads[1])) \in BOOLEAN
      BY DEF CarriesSlots
    <2>2. QED
      BY <1>4, <2>1, ExecutesType
  <1>7. db' \in [Account -> [row : Row, bag : Bag]]
    <2>1. \A a \in Account : db[a] \in [row : Row, bag : Bag]
      BY DEF WorkerTypeOK
    <2>2. \A i \in 1 .. n : heads[i] \in Bundle
      BY <1>2 DEF n
    <2>3. \A a \in Account : (\E i \in 1 .. n : heads[i].account = a) =>
            Written(db[a], heads[CHOOSE i \in 1 .. n : heads[i].account = a])
              \in [row : Row, bag : Bag]
      BY <2>1, <2>2, WrittenType
    <2>4. QED
      BY <1>4, <2>1, <2>3 DEF WorkerTypeOK
  <1>8. out' \in [Worker -> Seq(Answer)]
    <2>1. \A i \in 1 .. n : ReplyTo(heads[i], r = "OK") \in Answer
      <3>1. \A i \in 1 .. n : heads[i] \in Bundle
        BY <1>2 DEF n
      <3>2. (r = "OK") \in BOOLEAN
        OBVIOUS
      <3>3. QED
        BY <3>1, <3>2, ReplyToType DEF Answer
    <2>2. n \in Nat
      BY <1>2
    <2>3. [i \in 1 .. n |-> ReplyTo(heads[i], r = "OK")] \in Seq(Answer)
      BY <2>1, <2>2
    <2>4. QED
      BY <1>4, <2>3 DEF WorkerTypeOK
  <1>9. WorkerTypeOK'
    BY <1>3, <1>5, <1>6, <1>7, <1>8 DEF WorkerTypeOK
  <1>10. Paired'
    BY <1>3, <1>5 DEF Paired, WorkerTypeOK
  <1>11. QED
    BY <1>9, <1>10

\* A worker that posts its results keeps types and pairs.
LEMMA PushOK ==
  ASSUME WorkerTypeOK, Paired, NEW w \in Worker, Push(w)
  PROVE  WorkerTypeOK' /\ Paired'
  <1>1. out[w] \in Seq(Answer) /\ out[w] # <<>>
    BY DEF WorkerTypeOK, Push
  <1>2. Tail(out[w]) \in Seq(Answer) /\ Head(out[w]) \in Answer
    BY <1>1
  <1>3. /\ Head(out[w]).kind = "LOAD" => Head(out[w]) \in LoadResult
        /\ Head(out[w]).kind # "LOAD" => Head(out[w]) \in SaveReply
    BY <1>2 DEF Answer, LoadResult, SaveReply
  <1>4. results' \in Seq(LoadResult) /\ saveReplies' \in Seq(SaveReply)
    <2>1. results \in Seq(LoadResult) /\ saveReplies \in Seq(SaveReply)
      BY DEF WorkerTypeOK
    <2>2. CASE Head(out[w]).kind = "LOAD"
      <3>1. results' = Append(results, Head(out[w])) /\ saveReplies' = saveReplies
        BY <2>2 DEF Push
      <3>2. QED
        BY <1>3, <2>1, <2>2, <3>1
    <2>3. CASE Head(out[w]).kind # "LOAD"
      <3>1. saveReplies' = Append(saveReplies, Head(out[w])) /\ results' = results
        BY <2>3 DEF Push
      <3>2. QED
        BY <1>3, <2>1, <2>3, <3>1
    <2>4. QED
      BY <2>2, <2>3
  <1>5. /\ out' = [out EXCEPT ![w] = Tail(out[w])]
        /\ UNCHANGED <<slot, batch, mysql, reconnectFailed, db, stop, exited, faults>>
    BY DEF Push
  <1>6. WorkerTypeOK'
    BY <1>2, <1>4, <1>5 DEF WorkerTypeOK
  <1>7. QED
    BY <1>5, <1>6 DEF Paired

\* The workers start well typed, with nothing to part.
LEMMA WorkerInitOK ==
  ASSUME WorkerInit
  PROVE  WorkerTypeOK /\ Paired
  <1> USE DBWorkerAssumption
  <1>1. NoRow \in Row /\ [s \in Slot |-> 0] \in Bag
    BY DEF NoRow, Row, Bag
  <1>2. /\ slot \in [Worker -> SlotState]
        /\ batch \in [Worker -> Seq(Job)]
        /\ out \in [Worker -> Seq(Answer)]
    BY DEF WorkerInit, WorkersStart, SlotState
  <1>3. db \in [Account -> [row : Row, bag : Bag]]
    BY <1>1 DEF WorkerInit
  <1>4. /\ mysql = [w \in Worker |-> TRUE]
        /\ reconnectFailed = [w \in Worker |-> FALSE]
        /\ results = <<>> /\ saveReplies = <<>>
        /\ stop = FALSE /\ exited = {} /\ faults = 0
    BY DEF WorkerInit, WorkersStart
  <1>5. mysql \in [Worker -> BOOLEAN] /\ reconnectFailed \in [Worker -> BOOLEAN]
    BY <1>4
  <1>6. /\ results \in Seq(LoadResult) /\ saveReplies \in Seq(SaveReply)
        /\ faults \in 0 .. MaxFaults /\ stop \in BOOLEAN /\ exited \subseteq Worker
    <2>1. results \in Seq(LoadResult) /\ saveReplies \in Seq(SaveReply)
      BY <1>4
    <2>2. faults \in 0 .. MaxFaults
      BY <1>4
    <2>3. stop \in BOOLEAN /\ exited \subseteq Worker
      BY <1>4
    <2>4. QED
      BY <2>1, <2>2, <2>3
  <1>7. WorkerTypeOK
    BY <1>2, <1>3, <1>5, <1>6, Zenon DEF WorkerTypeOK
  <1>8. Paired
    BY DEF WorkerInit, WorkersStart, Paired, PairAdjacentIn
  <1>9. QED
    BY <1>7, <1>8

\* Every step of a worker keeps types and pairs.
LEMMA WorkerStepOK ==
  ASSUME WorkerTypeOK, Paired, NEW w \in Worker, WorkerStep(w)
  PROVE  WorkerTypeOK' /\ Paired'
  BY SwapOutOK, ExitOK, RunLoadOK, RunBundleOK, PushOK DEF WorkerStep

=============================================================================

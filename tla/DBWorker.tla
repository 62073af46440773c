------------------------------ MODULE DBWorker ------------------------------
(***************************************************************************)
(* The database workers of the game server (DB/DBWorker.cpp): WorkerCount  *)
(* threads, each with a queue of its own behind a mutex and a MySQL        *)
(* connection of its own, and one result box they all push to.  The game   *)
(* thread enqueues loads and save bundles and swaps the box out once a     *)
(* tick.                                                                   *)
(*                                                                         *)
(* A character is a row (position columns, value columns) and a function   *)
(* from inventory slots to contents; both are abstracted to version        *)
(* numbers, so that "older" and "newer" can be told apart.  The module     *)
(* defines the state, the queue operations as functions of the queues, and *)
(* the worker's steps.  DBWorkerPool drives it with an arbitrary client,   *)
(* CharacterStore with the real one.                                       *)
(***************************************************************************)
EXTENDS Integers, Sequences, FiniteSets

CONSTANTS Account,      \* account numbers of the characters (positive)
          WorkerCount,  \* number of worker threads
          QueueMax,     \* bound of a queue, for loads and for bundles apart
          Slot,         \* inventory slots of a character
          MaxFaults     \* bound on the database faults of a behaviour

ASSUME DBWorkerAssumption ==
    /\ Account \subseteq Nat \ {0}
    /\ WorkerCount \in Nat \ {0}
    /\ QueueMax \in Nat \ {0}
    /\ MaxFaults \in Nat

Worker == 0 .. (WorkerCount - 1)

VARIABLES
    slot,             \* slot[w]: queue of worker w and the two counters beside it
    batch,            \* batch[w]: what w swapped out and has not run yet
    out,              \* out[w]: answers w computed and has not pushed yet
    mysql,            \* mysql[w]: does w hold a connection
    reconnectFailed,  \* reconnectFailed[w]: a reconnect failed in this batch
    db,               \* the tables: db[a] is the row and the slots of account a
    results,          \* result box, load results
    saveReplies,      \* result box, save replies
    stop,             \* the stop flag
    exited,           \* workers whose thread has returned
    faults            \* database faults so far (a bound, not code)

workerVars == <<slot, batch, out, mysql, reconnectFailed, db, results,
                saveReplies, stop, exited, faults>>

-----------------------------------------------------------------------------
(* Data. *)

Row == [pos : Nat, val : Nat]
NoRow == [pos |-> 0, val |-> 0]        \* the account has no row yet
Bag == [Slot -> Nat]
NotCarried == -1                       \* a bundle has no line for this slot
BagRows == [Slot -> Nat \cup {NotCarried}]
Session == Nat                         \* 0: the owner is a leave record

LoadJob == [kind : {"LOAD"}, account : Account, session : Session \ {0}]
Bundle == [kind : {"SAVE"}, account : Account, session : Session, no : Nat \ {0},
           row : Row, rows : BagRows, pairNext : {0, 1}]
Job == LoadJob \cup Bundle

LoadResult == [kind : {"LOAD"}, account : Account, session : Session \ {0},
               code : {"FOUND", "NOT_FOUND", "FAILED"}, row : Row, bag : Bag]
SaveReply == [kind : {"SAVE"}, account : Account, session : Session,
              no : Nat \ {0}, ok : BOOLEAN]
Answer == LoadResult \cup SaveReply

SlotState == [queue : Seq(Job), loadCount : Nat, bundleCount : Nat]

CarriesSlots(b) == \E s \in Slot : b.rows[s] # NotCarried

\* What a save leaves in the tables: the whole row, and the slots it carries.
Written(stored, b) ==
    [row |-> b.row,
     bag |-> [s \in Slot |-> IF b.rows[s] = NotCarried THEN stored.bag[s]
                                                       ELSE b.rows[s]]]

-----------------------------------------------------------------------------
(* Enqueueing, on the game thread.  Each operator maps the queues to the   *)
(* queues; the Fits operators say when the code refuses.                   *)

SlotIndex(a) == a % WorkerCount

LoadFits(q, a) == q[SlotIndex(a)].loadCount < QueueMax

\* Mutated form: a load overtakes what is queued.
EnqueueLoadFirst(q, job) ==
    [q EXCEPT ![SlotIndex(job.account)] =
        [queue |-> <<job>> \o @.queue,
         loadCount |-> @.loadCount + 1,
         bundleCount |-> @.bundleCount]]

EnqueueLoad(q, job) ==
    [q EXCEPT ![SlotIndex(job.account)] =
        [queue |-> Append(@.queue, job),
         loadCount |-> @.loadCount + 1,
         bundleCount |-> @.bundleCount]]

SaveFits(q, w) == q[w].bundleCount < QueueMax

PushBundle(q, w, b) ==
    [q EXCEPT ![w] =
        [queue |-> Append(@.queue, b),
         loadCount |-> @.loadCount,
         bundleCount |-> @.bundleCount + 1]]

EnqueueSave(q, b) == PushBundle(q, SlotIndex(b.account), b)

\* A pair always goes to the queue of the smaller account number, whole.
PairSlot(a, b) == SlotIndex(IF a < b THEN a ELSE b)

\* Mutated form: room for one bundle is taken for room for a pair.
PairFitsHalf(q, w) == q[w].bundleCount < QueueMax

PairFits(q, w) == q[w].bundleCount + 2 <= QueueMax

\* Mutated form: the mark of the pair is on the wrong head.
EnqueueSavePairLate(q, a, b) ==
    LET w == PairSlot(a.account, b.account)
    IN  PushBundle(PushBundle(q, w, [a EXCEPT !.pairNext = 0]),
                   w, [b EXCEPT !.pairNext = 1])

EnqueueSavePair(q, a, b) ==
    LET w == PairSlot(a.account, b.account)
    IN  PushBundle(PushBundle(q, w, [a EXCEPT !.pairNext = 1]),
                   w, [b EXCEPT !.pairNext = 0])

-----------------------------------------------------------------------------
(* The worker thread. *)

\* The threads have just started.
WorkersStart ==
    /\ slot = [w \in Worker |->
                 [queue |-> <<>>, loadCount |-> 0, bundleCount |-> 0]]
    /\ batch = [w \in Worker |-> <<>>]
    /\ out = [w \in Worker |-> <<>>]
    /\ mysql = [w \in Worker |-> TRUE]     \* Start fails unless all connect
    /\ reconnectFailed = [w \in Worker |-> FALSE]
    /\ results = <<>>
    /\ saveReplies = <<>>
    /\ stop = FALSE
    /\ exited = {}
    /\ faults = 0

WorkerInit ==
    /\ WorkersStart
    /\ db = [a \in Account |-> [row |-> NoRow, bag |-> [s \in Slot |-> 0]]]

\* A step that needs n faults of the database.
Costs(n) == faults + n <= MaxFaults /\ faults' = faults + n

AtTop(w) == w \notin exited /\ batch[w] = <<>> /\ out[w] = <<>>

\* Mutated form: the counters lose the number of jobs taken instead of being reset.
SwapOutSubtracts(w) ==
    /\ AtTop(w)
    /\ slot[w].queue # <<>>
    /\ batch' = [batch EXCEPT ![w] = slot[w].queue]
    /\ slot' = [slot EXCEPT ![w] =
                  [queue |-> <<>>,
                   loadCount |-> @.loadCount - Len(@.queue),
                   bundleCount |-> @.bundleCount - Len(@.queue)]]
    /\ UNCHANGED <<out, mysql, reconnectFailed, db, results, saveReplies, stop,
                   exited, faults>>

\* The top of the loop: take everything queued, and reconnect once if the
\* connection is gone.
SwapOut(w) ==
    /\ AtTop(w)
    /\ slot[w].queue # <<>>
    /\ batch' = [batch EXCEPT ![w] = slot[w].queue]
    /\ slot' = [slot EXCEPT ![w] = [queue |-> <<>>, loadCount |-> 0,
                                    bundleCount |-> 0]]
    /\ \E connected \in BOOLEAN :
         /\ mysql[w] => connected
         /\ Costs(IF connected THEN 0 ELSE 1)
         /\ mysql' = [mysql EXCEPT ![w] = connected]
         /\ reconnectFailed' = [reconnectFailed EXCEPT ![w] = ~connected]
    /\ UNCHANGED <<out, db, results, saveReplies, stop, exited>>

\* Mutated form: the stop flag ends the thread with jobs still queued.
ExitAtOnce(w) ==
    /\ AtTop(w)
    /\ stop
    /\ exited' = exited \cup {w}
    /\ UNCHANGED <<slot, batch, out, mysql, reconnectFailed, db, results,
                   saveReplies, stop, faults>>

\* Nothing queued and the stop flag up: the queue is drained, the thread ends.
Exit(w) ==
    /\ AtTop(w)
    /\ slot[w].queue = <<>>
    /\ stop
    /\ exited' = exited \cup {w}
    /\ UNCHANGED <<slot, batch, out, mysql, reconnectFailed, db, results,
                   saveReplies, stop, faults>>

\* One try at a job on a connection.  When the connection is lost at the end
\* of a write, the write may or may not have reached the tables; after an
\* error of a transaction whose ROLLBACK fails too, the connection is dropped.
Tries(txn) ==
    {[r |-> "OK",          applied |-> TRUE,  connected |-> TRUE],
     [r |-> "QUERY_ERROR", applied |-> FALSE, connected |-> TRUE],
     [r |-> "LOST",        applied |-> FALSE, connected |-> FALSE],
     [r |-> "LOST",        applied |-> TRUE,  connected |-> FALSE]}
    \cup (IF txn THEN {[r |-> "QUERY_ERROR", applied |-> FALSE, connected |-> FALSE]}
                 ELSE {})

NotTried == [r |-> "LOST", applied |-> FALSE, connected |-> FALSE]

FirstTry(w, txn) == IF mysql[w] THEN Tries(txn) ELSE {NotTried}

\* A job from the first try to the answer: no connection, or one that breaks
\* under the job, is reconnected once - unless a reconnect has already failed
\* in this batch - and the job is tried once more.  (A load that starts without
\* a connection may be given a third try; that adds no other outcome.)
Executes(w, txn, r, applied) ==
    \E first \in FirstTry(w, txn) :
      \/ /\ first.r # "LOST" \/ reconnectFailed[w]
         /\ r = first.r
         /\ applied = first.applied
         /\ mysql' = [mysql EXCEPT ![w] = first.connected]
         /\ Costs(IF first.r = "OK" \/ ~mysql[w] THEN 0 ELSE 1)
         /\ UNCHANGED reconnectFailed
      \/ /\ first.r = "LOST"
         /\ ~reconnectFailed[w]
         /\ r = "LOST"
         /\ applied = first.applied
         /\ mysql' = [mysql EXCEPT ![w] = FALSE]
         /\ reconnectFailed' = [reconnectFailed EXCEPT ![w] = TRUE]
         /\ Costs(1)
      \/ /\ first.r = "LOST"
         /\ ~reconnectFailed[w]
         /\ \E second \in Tries(txn) :
              /\ r = second.r
              /\ applied = (first.applied \/ second.applied)
              /\ mysql' = [mysql EXCEPT ![w] = second.connected]
              /\ Costs(IF second.r = "OK" /\ ~mysql[w] THEN 0 ELSE 1)
         /\ UNCHANGED reconnectFailed

ResultOf(job, r) ==
    [kind |-> "LOAD", account |-> job.account, session |-> job.session,
     code |-> IF r # "OK" THEN "FAILED"
              ELSE IF db[job.account].row = NoRow THEN "NOT_FOUND" ELSE "FOUND",
     row |-> IF r = "OK" THEN db[job.account].row ELSE NoRow,
     bag |-> IF r = "OK" THEN db[job.account].bag ELSE [s \in Slot |-> 0]]

\* Mutated form: a load that fails gives no answer.
RunLoadSilent(w) ==
    /\ out[w] = <<>>
    /\ batch[w] # <<>>
    /\ Head(batch[w]).kind = "LOAD"
    /\ \E r \in {"OK", "QUERY_ERROR", "LOST"}, applied \in BOOLEAN :
         /\ Executes(w, FALSE, r, applied)
         /\ out' = [out EXCEPT ![w] =
                      IF r = "OK" THEN <<ResultOf(Head(batch[w]), r)>> ELSE <<>>]
    /\ batch' = [batch EXCEPT ![w] = Tail(@)]
    /\ UNCHANGED <<slot, db, results, saveReplies, stop, exited>>

\* A load always answers, found or failed.
RunLoad(w) ==
    /\ out[w] = <<>>
    /\ batch[w] # <<>>
    /\ Head(batch[w]).kind = "LOAD"
    /\ \E r \in {"OK", "QUERY_ERROR", "LOST"}, applied \in BOOLEAN :
         /\ Executes(w, FALSE, r, applied)
         /\ out' = [out EXCEPT ![w] = <<ResultOf(Head(batch[w]), r)>>]
    /\ batch' = [batch EXCEPT ![w] = Tail(@)]
    /\ UNCHANGED <<slot, db, results, saveReplies, stop, exited>>

\* The heads of the bundle at the front of a batch: two when it is a pair.
Heads(jobs) ==
    IF Head(jobs).pairNext = 1 THEN <<jobs[1], jobs[2]>> ELSE <<jobs[1]>>

\* Mutated form: the reply says done whatever became of the transaction.
ReplyToDone(b, ok) ==
    [kind |-> "SAVE", account |-> b.account, session |-> b.session,
     no |-> b.no, ok |-> TRUE]

ReplyTo(b, ok) ==
    [kind |-> "SAVE", account |-> b.account, session |-> b.session,
     no |-> b.no, ok |-> ok]

\* One bundle, or a pair of them, in one transaction; one reply per head.
RunBundle(w) ==
    /\ out[w] = <<>>
    /\ batch[w] # <<>>
    /\ Head(batch[w]).kind = "SAVE"
    /\ LET heads == Heads(batch[w])
           n == Len(heads)
       IN  /\ \E r \in {"OK", "QUERY_ERROR", "LOST"}, applied \in BOOLEAN :
                /\ Executes(w, n > 1 \/ CarriesSlots(heads[1]), r, applied)
                /\ db' = IF applied
                         THEN [a \in Account |->
                                 IF \E i \in 1 .. n : heads[i].account = a
                                 THEN Written(db[a], heads[CHOOSE i \in 1 .. n :
                                                             heads[i].account = a])
                                 ELSE db[a]]
                         ELSE db
                /\ out' = [out EXCEPT ![w] =
                             [i \in 1 .. n |-> ReplyTo(heads[i], r = "OK")]]
           /\ batch' = [batch EXCEPT ![w] = SubSeq(@, n + 1, Len(@))]
    /\ UNCHANGED <<slot, results, saveReplies, stop, exited>>

\* Answers enter the box one lock at a time, so a swap of the box may fall
\* between the two replies of a pair.
Push(w) ==
    /\ out[w] # <<>>
    /\ out' = [out EXCEPT ![w] = Tail(@)]
    /\ IF Head(out[w]).kind = "LOAD"
       THEN /\ results' = Append(results, Head(out[w]))
            /\ UNCHANGED saveReplies
       ELSE /\ saveReplies' = Append(saveReplies, Head(out[w]))
            /\ UNCHANGED results
    /\ UNCHANGED <<slot, batch, mysql, reconnectFailed, db, stop, exited, faults>>

WorkerStep(w) ==
    SwapOut(w) \/ Exit(w) \/ RunLoad(w) \/ RunBundle(w) \/ Push(w)

\* Every first head of a pair is directly followed by its second.
PairAdjacentIn(jobs) ==
    \A i \in 1 .. Len(jobs) :
        /\ jobs[i].kind = "SAVE"
        /\ jobs[i].pairNext = 1
        => /\ i < Len(jobs)
           /\ jobs[i + 1].kind = "SAVE"
           /\ jobs[i + 1].pairNext = 0
           /\ jobs[i + 1].account # jobs[i].account

WorkerTypeOK ==
    /\ slot \in [Worker -> SlotState]
    /\ batch \in [Worker -> Seq(Job)]
    /\ out \in [Worker -> Seq(Answer)]
    /\ mysql \in [Worker -> BOOLEAN]
    /\ reconnectFailed \in [Worker -> BOOLEAN]
    /\ db \in [Account -> [row : Row, bag : Bag]]
    /\ results \in Seq(LoadResult)
    /\ saveReplies \in Seq(SaveReply)
    /\ stop \in BOOLEAN
    /\ exited \subseteq Worker
    /\ faults \in 0 .. MaxFaults

=============================================================================

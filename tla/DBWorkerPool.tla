---------------------------- MODULE DBWorkerPool ----------------------------
(***************************************************************************)
(* The database workers driven by an arbitrary client: the game thread     *)
(* enqueues any load, save or pair for any account at any time, swaps the  *)
(* result box out, and in the end shuts the pool down.  The condition      *)
(* variable of each queue is modelled step by step: a worker evaluates the *)
(* predicate with the mutex held, and only later is it registered as a     *)
(* waiter; a notification in between would be lost.                        *)
(*                                                                         *)
(* Every job carries a number of its own, issued in order: it is the       *)
(* session of a load and the bundle number of a save, and the version a    *)
(* save writes.                                                            *)
(***************************************************************************)
EXTENDS DBWorker, Functions

CONSTANT MaxJobs    \* bound on the jobs the client issues

ASSUME PoolAssumption == MaxJobs \in Nat

VARIABLES
    wait,       \* wait[w]: "awake", "checked" (holds the mutex), "asleep"
    issued,     \* number of the last job
    refused,    \* jobs the queues refused
    taken,      \* the answers swapped out so far
    applied,    \* jobs whose transaction reached the tables
    bridge,     \* workers Shutdown has still to wake, while it wakes them
    closed      \* Shutdown has joined every thread

clientVars == <<wait, issued, refused, taken, applied, bridge, closed>>
poolVars == <<workerVars, clientVars>>

-----------------------------------------------------------------------------
NumberOf(job) == IF job.kind = "LOAD" THEN job.session ELSE job.no

Numbers(answers) == {NumberOf(x) : x \in answers}

Box == saveReplies \o results

PoolInit ==
    /\ WorkerInit
    /\ wait = [w \in Worker |-> "awake"]
    /\ issued = 0
    /\ refused = {}
    /\ taken = {}
    /\ applied = {}
    /\ bridge = {}
    /\ closed = FALSE

\* The mutex of a queue is free unless its worker is inside the predicate.
Unlocked(w) == wait[w] # "checked"

\* Mutated form: an enqueue that notifies nobody.
NotifiesNobody(w) == wait

Notified(w) == [wait EXCEPT ![w] = IF @ = "asleep" THEN "awake" ELSE @]

\* The session of a save means nothing to the workers; this client writes the
\* queue there.
SaveJob(a, n, slots, w) ==
    [kind |-> "SAVE", account |-> a, session |-> w, no |-> n,
     row |-> [pos |-> n, val |-> n], pairNext |-> 0,
     rows |-> [s \in Slot |-> IF s \in slots THEN n ELSE NotCarried]]

ClientLoad(a) ==
    LET n == issued + 1
    IN  /\ ~stop
        /\ n <= MaxJobs
        /\ Unlocked(SlotIndex(a))
        /\ issued' = n
        /\ IF LoadFits(slot, a)
           THEN /\ slot' = EnqueueLoad(slot, [kind |-> "LOAD", account |-> a,
                                              session |-> n])
                /\ wait' = Notified(SlotIndex(a))
                /\ UNCHANGED refused
           ELSE /\ refused' = refused \cup {n}
                /\ UNCHANGED <<slot, wait>>
        /\ UNCHANGED <<batch, out, mysql, reconnectFailed, db, results, stop,
                       saveReplies, exited, faults, taken, applied, bridge, closed>>

ClientSave(a) ==
    LET n == issued + 1
        w == SlotIndex(a)
    IN  /\ ~stop
        /\ n <= MaxJobs
        /\ Unlocked(w)
        /\ issued' = n
        /\ IF SaveFits(slot, w)
           THEN /\ \E slots \in {{}, Slot} :
                     slot' = EnqueueSave(slot, SaveJob(a, n, slots, w))
                /\ wait' = Notified(w)
                /\ UNCHANGED refused
           ELSE /\ refused' = refused \cup {n}
                /\ UNCHANGED <<slot, wait>>
        /\ UNCHANGED <<batch, out, mysql, reconnectFailed, db, results, stop,
                       saveReplies, exited, faults, taken, applied, bridge, closed>>

ClientSavePair(a, b) ==
    LET n == issued + 1
        w == PairSlot(a, b)
    IN  /\ ~stop
        /\ a # b
        /\ n + 1 <= MaxJobs
        /\ Unlocked(w)
        /\ issued' = n + 1
        /\ IF PairFits(slot, w)
           THEN /\ slot' = EnqueueSavePair(slot, SaveJob(a, n, Slot, w),
                                           SaveJob(b, n + 1, Slot, w))
                /\ wait' = Notified(w)
                /\ UNCHANGED refused
           ELSE /\ refused' = refused \cup {n, n + 1}
                /\ UNCHANGED <<slot, wait>>
        /\ UNCHANGED <<batch, out, mysql, reconnectFailed, db, results, stop,
                       saveReplies, exited, faults, taken, applied, bridge, closed>>

\* The game thread takes both lists of the box under one lock; it looks at
\* the save replies first.
SwapOutResults ==
    /\ Box # <<>>
    /\ taken' = taken \cup Range(saveReplies) \cup Range(results)
    /\ results' = <<>>
    /\ saveReplies' = <<>>
    /\ UNCHANGED <<slot, batch, out, mysql, reconnectFailed, db, stop, exited,
                   faults, wait, issued, refused, applied, bridge, closed>>

-----------------------------------------------------------------------------
(* Shutdown: the flag, then for every worker an empty lock-and-unlock of   *)
(* its mutex and a notification, then the joins.                           *)

SetStop ==
    /\ ~stop
    /\ stop' = TRUE
    /\ bridge' = Worker
    /\ UNCHANGED <<slot, batch, out, mysql, reconnectFailed, db, results, taken,
                   saveReplies, exited, faults, wait, issued, refused, applied, closed>>

\* Mutated form: the notification without the empty lock-and-unlock.
WakeForStopUnlocked(w) ==
    /\ w \in bridge
    /\ bridge' = bridge \ {w}
    /\ wait' = Notified(w)
    /\ UNCHANGED <<workerVars, issued, refused, taken, applied, closed>>

WakeForStop(w) ==
    /\ w \in bridge
    /\ Unlocked(w)
    /\ bridge' = bridge \ {w}
    /\ wait' = Notified(w)
    /\ UNCHANGED <<workerVars, issued, refused, taken, applied, closed>>

Join ==
    /\ stop
    /\ ~closed
    /\ bridge = {}
    /\ exited = Worker
    /\ closed' = TRUE
    /\ UNCHANGED <<workerVars, wait, issued, refused, taken, applied, bridge>>

-----------------------------------------------------------------------------
(* The worker's side of the condition variable. *)

\* The predicate is false under the mutex: the worker is about to wait.
CheckPredicate(w) ==
    /\ wait[w] = "awake"
    /\ AtTop(w)
    /\ slot[w].queue = <<>>
    /\ ~stop
    /\ wait' = [wait EXCEPT ![w] = "checked"]
    /\ UNCHANGED <<workerVars, issued, refused, taken, applied, bridge, closed>>

\* Registered as a waiter, the mutex is released.
FallAsleep(w) ==
    /\ wait[w] = "checked"
    /\ wait' = [wait EXCEPT ![w] = "asleep"]
    /\ UNCHANGED <<workerVars, issued, refused, taken, applied, bridge, closed>>

\* Jobs whose transaction this step of worker w brings to the tables.
AppliedBy(w) ==
    IF db' = db THEN {}
    ELSE Numbers(Range(Heads(batch[w])))

PoolWorker(w) ==
    \/ /\ wait[w] = "awake"
       /\ WorkerStep(w)
       /\ applied' = applied \cup AppliedBy(w)
       /\ UNCHANGED <<wait, issued, refused, taken, bridge, closed>>
    \/ CheckPredicate(w)
    \/ FallAsleep(w)

Client ==
    \/ \E a \in Account : ClientLoad(a) \/ ClientSave(a)
    \/ \E a, b \in Account : ClientSavePair(a, b)

Finished == closed /\ Box = <<>> /\ UNCHANGED poolVars

PoolNext ==
    \/ Client
    \/ SwapOutResults
    \/ SetStop
    \/ Join
    \/ \E w \in Worker : WakeForStop(w) \/ PoolWorker(w)
    \/ Finished

PoolSpec == PoolInit /\ [][PoolNext]_poolVars

\* Threads that can run do run, and the game loop swaps the box out every
\* tick; nothing obliges the client to issue jobs or to shut down.
PoolFairness ==
    /\ WF_poolVars(SwapOutResults)
    /\ WF_poolVars(Join)
    /\ \A w \in Worker : WF_poolVars(PoolWorker(w)) /\ WF_poolVars(WakeForStop(w))

FairPoolSpec == PoolSpec /\ PoolFairness

-----------------------------------------------------------------------------
(* Properties. *)

PoolTypeOK ==
    /\ WorkerTypeOK
    /\ wait \in [Worker -> {"awake", "checked", "asleep"}]
    /\ issued \in 0 .. MaxJobs
    /\ refused \subseteq 1 .. MaxJobs
    /\ taken \subseteq Answer
    /\ applied \subseteq Nat
    /\ bridge \subseteq Worker
    /\ closed \in BOOLEAN

\* The first head of a pair is always directly followed by the second, in
\* the queue and in what is left of a batch: WorkerThread asserts it before
\* it reads two heads, and writing one head of a pair alone would leave half
\* a trade in the tables.
PairAdjacent == \A w \in Worker : /\ PairAdjacentIn(slot[w].queue)
                                  /\ PairAdjacentIn(batch[w])

\* The two counters beside a queue count what is in it, though they are only
\* ever incremented and reset when the queue is swapped out; so neither kind
\* of job ever exceeds the bound of the queue.
Count(jobs, kind) == Cardinality({i \in DOMAIN jobs : jobs[i].kind = kind})

CountersExact ==
    \A w \in Worker :
        /\ slot[w].loadCount = Count(slot[w].queue, "LOAD")
        /\ slot[w].bundleCount = Count(slot[w].queue, "SAVE")
        /\ slot[w].loadCount <= QueueMax
        /\ slot[w].bundleCount <= QueueMax

\* What worker w has before it, front first: answers to push, the rest of
\* its batch, its queue.
Line(w) == out[w] \o batch[w] \o slot[w].queue

Occurrences(seq, n) == {i \in DOMAIN seq : NumberOf(seq[i]) = n}

\* Every job the queues accepted is in exactly one place, once: in the line
\* of one worker, in the box, or swapped out.  No requester waits for an
\* answer nobody will give, and none gets two - whatever connections break.
EachJobOnce ==
    \A n \in 1 .. issued :
        Cardinality(UNION {{<<w, i>> : i \in Occurrences(Line(w), n)} : w \in Worker})
        + Cardinality(Occurrences(Box, n))
        + (IF n \in Numbers(taken) THEN 1 ELSE 0)
        = IF n \in refused THEN 0 ELSE 1

\* The promise the character store builds on: when it looks at the result of
\* a load, it has already seen the outcome of every bundle of that account
\* queued before the load with the same worker.
SavesAnsweredFirst ==
    \A load \in {t \in taken : t.kind = "LOAD"} :
        LET w == SlotIndex(load.account)
            pending == Line(w) \o saveReplies
        IN  \A j \in DOMAIN pending :
                /\ pending[j].kind = "SAVE"
                /\ pending[j].session = w
                /\ pending[j].account = load.account
                => pending[j].no > load.session

\* A save is reported as done only if its transaction reached the tables, on
\* whichever try.
OkMeansWritten ==
    LET replied == taken \cup Range(saveReplies) \cup UNION {Range(out[w]) : w \in Worker}
    IN  \A x \in replied : x.kind = "SAVE" /\ x.ok => x.no \in applied

\* Every accepted job is answered in the end.
EveryJobAnswered == <>[](1 .. issued = refused \cup Numbers(taken))

\* Shutdown returns: no worker sleeps through the stop flag.
ShutdownReturns == stop ~> closed

\* A stopped worker has run everything it was given.
DrainedOnExit == \A w \in exited : Line(w) = <<>>

=============================================================================

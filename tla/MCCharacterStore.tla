-------------------------- MODULE MCCharacterStore --------------------------
(* Instances of the character store: one character that leaves and comes     *)
(* back, and two that trade.  The latter start in the game, saved once, as   *)
(* two logins and a periodic save leave them.                                *)
EXTENDS CharacterStore

InGameInit ==
    /\ WorkersStart
    /\ db = [a \in Account |-> [row |-> FirstRow, bag |-> BareBag]]
    /\ StoreIdle
    /\ player = [a \in Account |-> Fresh(a, FirstRow, BareBag, FALSE)]
    /\ nextSession = Cardinality(Account) + 1

InGameSpec == InGameInit /\ [][Next]_vars

FairInGameSpec == InGameSpec /\ Fairness

\* Three characters in the game.  4 and 1 traded, the save of the trade failed,
\* and 4 left; the pair was sent again, with the record of 4 as its first head,
\* and is in the tables; worker 1 has pushed the reply to the first head only.
HalfAnsweredInit ==
    LET traded == [pos |-> 1, val |-> 2]
        swapped == [s \in Slot |-> 1]
        Reply(a, session, no) == [kind |-> "SAVE", account |-> a, session |-> session,
                                  no |-> no, ok |-> TRUE]
    IN  /\ slot = [w \in Worker |-> [queue |-> <<>>, loadCount |-> 0, bundleCount |-> 0]]
        /\ batch = [w \in Worker |-> <<>>]
        /\ out = [w \in Worker |-> IF w = SlotIndex(1) THEN <<Reply(1, 1, 2)>> ELSE <<>>]
        /\ mysql = [w \in Worker |-> TRUE]
        /\ reconnectFailed = [w \in Worker |-> FALSE]
        /\ results = <<>>
        /\ saveReplies = <<Reply(4, 0, 1)>>
        /\ stop = FALSE
        /\ exited = {}
        /\ faults = 1
        /\ db = [a \in Account |-> IF a = 3 THEN [row |-> FirstRow, bag |-> BareBag]
                                            ELSE [row |-> traded, bag |-> swapped]]
        /\ pc = "events" /\ frame = 0 /\ inbox = <<>> /\ todo = {}
        /\ leave = [a \in {4} |-> [row |-> traded, rows |-> swapped, no |-> 1,
                                   inFlight |-> TRUE, paired |-> TRUE]]
        /\ leaveSeq = 1
        /\ pairs = <<[account |-> <<4, 1>>, session |-> <<0, 1>>, no |-> <<1, 2>>,
                      replied |-> <<FALSE, FALSE>>, ok |-> TRUE, inFlight |-> TRUE]>>
        /\ tickEnd = <<>>
        /\ inflight = 1
        /\ loading = [a \in Account |-> 0]
        /\ player = [a \in Account |->
                       CASE a = 1 -> [Fresh(1, traded, swapped, FALSE) EXCEPT
                                        !.nextNo = 1, !.bundleNo = 2, !.paired = TRUE,
                                        !.savedBefore = 1, !.slots = Slot]
                         [] a = 4 -> Fresh(0, traded, swapped, FALSE)
                         [] a = 3 -> Fresh(3, FirstRow, BareBag, FALSE)]
        /\ nextSession = 4
        /\ swaps = {[a |-> 4, b |-> 1, slotA |-> s, slotB |-> s, bagA |-> 1,
                     bagB |-> 1, valA |-> 2, valB |-> 2] : s \in Slot}
        /\ raised = {} /\ lost = {} /\ rolledBack = {}

HalfAnsweredSpec == HalfAnsweredInit /\ [][Next]_vars

=============================================================================

------------------------------ MODULE MCSlots ------------------------------
(* TransferQueue and the semaphore its tasks wait at, for TLC: what cannot   *)
(* be stated without fairness.  A behaviour is one of either, the part it    *)
(* takes; TransferQueue has the slots as a count of the tasks in them.       *)
EXTENDS TransferQueue, ResizableSemaphore

VARIABLE part

EachInit ==
    /\ part \in {"queue", "semaphore"}
    /\ Init /\ (part # "queue" => serial /\ ~sameName)
    /\ SlotInit /\ (part # "semaphore" => limit = AtLeastOne(CHOOSE n \in Limits : TRUE))
EachNext ==
    /\ \/ part = "queue" /\ Next /\ UNCHANGED slotVars
       \/ part = "semaphore" /\ SlotNext /\ UNCHANGED vars
    /\ UNCHANGED part

FairEachSpec ==
    /\ EachInit /\ [][EachNext]_<<part, vars, slotVars>>
    /\ Fairness /\ SlotFairness
=============================================================================

------------------------------ MODULE Delivery ------------------------------
(***************************************************************************)
(* What the delivery of webhook events comes to, seen from one event: the  *)
(* stages it goes through, and the steps there are between them.  Module   *)
(* Outbox implements it with rows, pollers, jobs and requests.             *)
(***************************************************************************)
CONSTANT Event

VARIABLE stage

Stages == {"none",       \* its transaction has not committed
           "owed",       \* it is committed and has got nowhere yet
           "queued",     \* BullMQ has a job for it
           "shelved",    \* an administrator can see it in WebhookFailure
           "dismissed",  \* an administrator has thrown it away
           "abandoned",  \* its last job has failed for the last time
           "answered"}   \* its merchant has answered, or has no URL

Move(e, from, to) ==
    /\ stage[e] \in from
    /\ \E s \in to : stage' = [stage EXCEPT ![e] = s]

Commit(e) == Move(e, {"none"}, {"owed"})

(* A second poller, or a second administrator, may queue what is done with.*)
Queue(e) == Move(e, {"owed", "shelved", "dismissed", "abandoned"}, {"queued"})

Answer(e) == Move(e, {"queued"}, {"answered"})

GiveUp(e) == Move(e, {"queued"}, {"abandoned", "shelved"})

Shelve(e) == Move(e, {"owed", "dismissed", "abandoned"}, {"shelved"})

Unshelve(e) == Move(e, {"shelved"}, {"dismissed", "abandoned"})

-----------------------------------------------------------------------------
Init == stage = [e \in Event |-> "none"]

Next == \E e \in Event : \/ Commit(e) \/ Queue(e) \/ Answer(e) \/ GiveUp(e)
                         \/ Shelve(e) \/ Unshelve(e)

Spec == Init /\ [][Next]_stage

-----------------------------------------------------------------------------
(* Every event that is committed or queued gets somewhere: its merchant    *)
(* answers, or there is no URL, or BullMQ has given up on it, or it is in  *)
(* WebhookFailure or was dismissed from there.                             *)
EveryEventAnswered ==
    \A e \in Event : stage[e] \in {"owed", "queued"} ~>
                         stage[e] \in {"answered", "abandoned", "shelved", "dismissed"}
=============================================================================

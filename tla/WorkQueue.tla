------------------------------ MODULE WorkQueue ------------------------------
(***************************************************************************)
(* The rate limited work queue that both controllers are built on          *)
(* (vendor/k8s.io/client-go/util/workqueue), together with the workers     *)
(* that take keys from it.                                                 *)
(*                                                                         *)
(* Time is abstracted to order: the delay that AddRateLimited asks for is  *)
(* positive and unknown, so a waiting key may become ready at any later    *)
(* moment.  The failure counter of the limiter only decides the length of  *)
(* the delay, so Forget changes nothing this module keeps.  The heap of    *)
(* the delaying queue holds one entry per key, so the waiting keys are a   *)
(* set.                                                                    *)
(*                                                                         *)
(* The actions constrain the variables of this module only; a controller   *)
(* conjoins them with what it does to its own.                             *)
(***************************************************************************)
EXTENDS Naturals, Sequences, FiniteSets

CONSTANTS
    Keys,       \* what is queued: the namespace/name of a resource
    Workers,    \* the goroutines that Run starts
    NoKey       \* "this worker holds no key"

ASSUME NoKeyAssumption == NoKey \notin Keys

VARIABLES
    queue,          \* the keys to hand out, oldest first
    dirty,          \* the keys that need processing
    processing,     \* the keys handed out and not yet Done
    waiting,        \* the keys whose delay has not expired
    shuttingDown,   \* ShutDown has been called
    holding         \* the key each worker is processing

queueVars == <<queue, dirty, processing, waiting, shuttingDown, holding>>

Queued == {queue[i] : i \in 1 .. Len(queue)}

QInit ==
    /\ queue = << >>
    /\ dirty = {}
    /\ processing = {}
    /\ waiting = {}
    /\ shuttingDown = FALSE
    /\ holding = [w \in Workers |-> NoKey]

-----------------------------------------------------------------------------
(* Mutant of AddReady: the check that the key is being processed is gone. *)
AddReadyIgnoringProcessing(k) ==
    IF shuttingDown \/ k \in dirty
    THEN UNCHANGED <<queue, dirty>>
    ELSE /\ dirty' = dirty \union {k}
         /\ queue' = Append(queue, k)

(* Mutant of AddReady: a key that is being processed is dropped. *)
AddReadyDroppingBusy(k) ==
    IF shuttingDown \/ k \in dirty \/ k \in processing
    THEN UNCHANGED <<queue, dirty>>
    ELSE /\ dirty' = dirty \union {k}
         /\ queue' = Append(queue, k)

(* Type.Add: a key already dirty is not added twice, and a key that is     *)
(* being processed waits for its Done.                                     *)
AddReady(k) ==
    IF shuttingDown \/ k \in dirty
    THEN UNCHANGED <<queue, dirty>>
    ELSE /\ dirty' = dirty \union {k}
         /\ queue' = IF k \in processing THEN queue ELSE Append(queue, k)

(* Mutant of AddRateLimited: the zero value is queued in place of the key. *)
AddRateLimitedZeroKey(k) ==
    /\ k \in Keys
    /\ waiting' = IF shuttingDown THEN waiting ELSE waiting \union {NoKey}
    /\ UNCHANGED <<queue, dirty, processing, shuttingDown, holding>>

(* AddRateLimited, which is AddAfter with a positive delay. *)
AddRateLimited(k) ==
    /\ waiting' = IF shuttingDown THEN waiting ELSE waiting \union {k}
    /\ UNCHANGED <<queue, dirty, processing, shuttingDown, holding>>

(* waitingLoop finds that the delay of k has expired. *)
WaitingReady(k) ==
    /\ ~shuttingDown
    /\ k \in waiting
    /\ waiting' = waiting \ {k}
    /\ AddReady(k)
    /\ UNCHANGED <<processing, shuttingDown, holding>>

(* Worker w's Get returns the oldest key.  With an empty queue Get blocks, *)
(* or, when shutting down, ends the worker's loop.                         *)
Get(w) ==
    /\ holding[w] = NoKey
    /\ queue # << >>
    /\ holding' = [holding EXCEPT ![w] = Head(queue)]
    /\ queue' = Tail(queue)
    /\ processing' = processing \union {Head(queue)}
    /\ dirty' = dirty \ {Head(queue)}
    /\ UNCHANGED <<waiting, shuttingDown>>

(* Mutant of Done: the key is taken for clean. *)
DoneClean(w) ==
    /\ holding[w] # NoKey
    /\ processing' = processing \ {holding[w]}
    /\ dirty' = dirty \ {holding[w]}
    /\ holding' = [holding EXCEPT ![w] = NoKey]
    /\ UNCHANGED <<queue, waiting, shuttingDown>>

(* Worker w's Done: a key that became dirty while it was being processed   *)
(* is queued again.                                                        *)
Done(w) ==
    /\ holding[w] # NoKey
    /\ processing' = processing \ {holding[w]}
    /\ queue' = IF holding[w] \in dirty THEN Append(queue, holding[w]) ELSE queue
    /\ holding' = [holding EXCEPT ![w] = NoKey]
    /\ UNCHANGED <<dirty, waiting, shuttingDown>>

(* ShutDown: nothing is added any more, the keys already queued are still  *)
(* handed out.                                                             *)
ShutDown ==
    /\ ~shuttingDown
    /\ shuttingDown' = TRUE
    /\ UNCHANGED <<queue, dirty, processing, waiting, holding>>

QNext ==
    \/ \E k \in Keys : AddRateLimited(k)
    \/ \E k \in Keys : WaitingReady(k)
    \/ \E w \in Workers : Get(w)
    \/ \E w \in Workers : Done(w)
    \/ ShutDown

QSpec == QInit /\ [][QNext]_queueVars

(* The waiting loop and the workers keep running; nobody has to add keys.  *)
(* cond.Signal wakes one of the blocked workers, any of which may take the *)
(* key, and every syncHandler returns.                                     *)
QFairness ==
    /\ \A k \in Keys : WF_queueVars(WaitingReady(k))
    /\ WF_queueVars(\E w \in Workers : Get(w))
    /\ \A w \in Workers : WF_queueVars(Done(w))

QLiveSpec == QSpec /\ QFairness

-----------------------------------------------------------------------------
QTypeOK ==
    /\ queue \in Seq(Keys)
    /\ dirty \subseteq Keys
    /\ processing \subseteq Keys
    /\ waiting \subseteq Keys
    /\ shuttingDown \in BOOLEAN
    /\ holding \in [Workers -> Keys \union {NoKey}]

(* No two workers process the same key: what the comment on the workqueue  *)
(* field of both controllers promises ("never processing the same item     *)
(* simultaneously in two different workers").                              *)
MutualExclusion ==
    \A v, w \in Workers :
        v # w /\ holding[v] # NoKey => holding[v] # holding[w]

(* The keys the queue takes to be in processing are those workers hold. *)
ProcessingIsHeld ==
    processing = {holding[w] : w \in Workers} \ {NoKey}

(* No duplicates in the queue. *)
QueueDistinct ==
    \A i, j \in 1 .. Len(queue) : queue[i] = queue[j] => i = j

(* "Every element of queue should be in the dirty set and not in the       *)
(* processing set" (queue.go), and no dirty key is forgotten: it is queued *)
(* or its processing will queue it.                                        *)
QueuedAreDirtyAndFree ==
    Queued = dirty \ processing

QueueInv ==
    /\ MutualExclusion
    /\ ProcessingIsHeld
    /\ QueueDistinct
    /\ QueuedAreDirtyAndFree

(* No wake-up is lost: an added key is handed to a worker some time after  *)
(* it was added, also when it was added while it was being processed.      *)
EveryAddIsProcessed ==
    \A k \in Keys :
        /\ (k \in waiting) ~> (shuttingDown \/ k \in dirty)
        /\ (k \in dirty) ~> (\E w \in Workers : holding[w] = k /\ k \notin dirty)

(* The queue implements PendingWork: the keys that wait for their delay    *)
(* and the dirty ones are the pending ones, and the keys that the queue    *)
(* hands out are the pending keys that nobody works on.                    *)
Pending == INSTANCE PendingWork WITH
    pending <- dirty \union waiting, busy <- holding, closed <- shuttingDown

(* No add is lost and no key is handed out twice at a time, step by step:  *)
(* every operation of the queue is one of PendingWork or changes nothing   *)
(* that it keeps.                                                          *)
KeepsPendingWork == Pending!Spec

=============================================================================

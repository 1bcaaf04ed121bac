--------------------------- MODULE WorkQueueProofs ---------------------------
(***************************************************************************)
(* The work queue keeps its invariants for any set of keys and workers.    *)
(*                                                                         *)
(* QueueInv is inductive together with QTypeOK: that no two workers hold   *)
(* the same key needs that a queued key is not in processing               *)
(* (QueuedAreDirtyAndFree), that the held keys are the ones in processing  *)
(* (ProcessingIsHeld) and, so that Get takes the only copy of the key from *)
(* the queue, that the queue has no duplicates.                            *)
(***************************************************************************)
EXTENDS WorkQueue, TLAPS

(* Appending an element adds it, and nothing else, to the elements. *)
LEMMA AppendElements ==
    ASSUME NEW S, NEW s \in Seq(S), NEW e \in S
    PROVE  /\ Append(s, e) \in Seq(S)
           /\ {Append(s, e)[i] : i \in 1 .. Len(Append(s, e))}
                = {s[i] : i \in 1 .. Len(s)} \union {e}
  <1>1. Append(s, e) \in Seq(S)
    OBVIOUS
  <1>2. Len(Append(s, e)) = Len(s) + 1 /\ Len(s) \in Nat
    OBVIOUS
  <1>3. \A i \in 1 .. Len(s) : Append(s, e)[i] = s[i]
    OBVIOUS
  <1>4. Append(s, e)[Len(s) + 1] = e
    OBVIOUS
  <1>5. {Append(s, e)[i] : i \in 1 .. Len(s) + 1}
            = {s[i] : i \in 1 .. Len(s)} \union {e}
    <2>1. ASSUME NEW x \in {Append(s, e)[i] : i \in 1 .. Len(s) + 1}
          PROVE  x \in {s[i] : i \in 1 .. Len(s)} \union {e}
      <3>1. PICK i \in 1 .. Len(s) + 1 : x = Append(s, e)[i]
        BY <2>1
      <3>2. CASE i = Len(s) + 1
        BY <3>1, <3>2, <1>4
      <3>3. CASE i # Len(s) + 1
        <4>1. i \in 1 .. Len(s)
          BY <3>3, <1>2
        <4> QED
          BY <4>1, <3>1, <1>3
      <3> QED
        BY <3>2, <3>3
    <2>2. ASSUME NEW x \in {s[i] : i \in 1 .. Len(s)}
          PROVE  x \in {Append(s, e)[i] : i \in 1 .. Len(s) + 1}
      <3>1. PICK i \in 1 .. Len(s) : x = s[i]
        BY <2>2
      <3>2. i \in 1 .. Len(s) + 1 /\ x = Append(s, e)[i]
        BY <3>1, <1>2, <1>3
      <3> QED
        BY <3>2
    <2>3. e \in {Append(s, e)[i] : i \in 1 .. Len(s) + 1}
      <3>1. Len(s) + 1 \in 1 .. Len(s) + 1
        BY <1>2
      <3> QED
        BY <3>1, <1>4
    <2> QED
      BY <2>1, <2>2, <2>3
  <1> QED
    BY <1>1, <1>2, <1>5


(* Taking the head of a sequence without duplicates removes it, and        *)
(* nothing else, from the elements.                                        *)
LEMMA TailElements ==
    ASSUME NEW S, NEW s \in Seq(S), s # << >>,
           \A i, j \in 1 .. Len(s) : s[i] = s[j] => i = j
    PROVE  /\ Tail(s) \in Seq(S)
           /\ Head(s) \in S
           /\ {Tail(s)[i] : i \in 1 .. Len(Tail(s))}
                = {s[i] : i \in 1 .. Len(s)} \ {Head(s)}
           /\ \A i, j \in 1 .. Len(Tail(s)) : Tail(s)[i] = Tail(s)[j] => i = j
  <1>1. /\ Tail(s) \in Seq(S)
        /\ Head(s) \in S
        /\ Len(s) \in Nat \ {0}
        /\ Len(Tail(s)) = Len(s) - 1
        /\ Head(s) = s[1]
    OBVIOUS
  <1>2. \A i \in 1 .. Len(s) - 1 : Tail(s)[i] = s[i + 1]
    OBVIOUS
  <1>3. {Tail(s)[i] : i \in 1 .. Len(s) - 1} = {s[i] : i \in 1 .. Len(s)} \ {Head(s)}
    <2>1. ASSUME NEW x \in {Tail(s)[i] : i \in 1 .. Len(s) - 1}
          PROVE  x \in {s[i] : i \in 1 .. Len(s)} \ {Head(s)}
      <3>1. PICK i \in 1 .. Len(s) - 1 : x = Tail(s)[i]
        BY <2>1
      <3>2. i + 1 \in 1 .. Len(s) /\ i + 1 # 1 /\ 1 \in 1 .. Len(s)
        BY <1>1
      <3>3. x = s[i + 1] /\ s[i + 1] # s[1]
        BY <3>1, <3>2, <1>2
      <3> QED
        BY <3>2, <3>3, <1>1
    <2>2. ASSUME NEW x \in {s[i] : i \in 1 .. Len(s)}, x # Head(s)
          PROVE  x \in {Tail(s)[i] : i \in 1 .. Len(s) - 1}
      <3>1. PICK i \in 1 .. Len(s) : x = s[i]
        BY <2>2
      <3>2. i - 1 \in 1 .. Len(s) - 1 /\ (i - 1) + 1 = i
        BY <3>1, <2>2, <1>1
      <3>3. x = Tail(s)[i - 1]
        BY <3>1, <3>2, <1>2
      <3> QED
        BY <3>2, <3>3
    <2> QED
      BY <2>1, <2>2
  <1>4. \A i, j \in 1 .. Len(s) - 1 : Tail(s)[i] = Tail(s)[j] => i = j
    <2>1. ASSUME NEW i \in 1 .. Len(s) - 1, NEW j \in 1 .. Len(s) - 1,
                 Tail(s)[i] = Tail(s)[j]
          PROVE  i = j
      <3>1. i + 1 \in 1 .. Len(s) /\ j + 1 \in 1 .. Len(s)
        BY <1>1
      <3>2. s[i + 1] = s[j + 1]
        BY <2>1, <1>2
      <3>3. i + 1 = j + 1
        BY <3>1, <3>2
      <3> QED
        BY <3>3, <1>1
    <2> QED
      BY <2>1
  <1> QED
    BY <1>1, <1>3, <1>4

(* Appending an element that is not there makes no duplicate. *)
LEMMA AppendDistinct ==
    ASSUME NEW S, NEW s \in Seq(S), NEW e \in S,
           e \notin {s[i] : i \in 1 .. Len(s)},
           \A i, j \in 1 .. Len(s) : s[i] = s[j] => i = j
    PROVE  \A i, j \in 1 .. Len(Append(s, e)) :
                Append(s, e)[i] = Append(s, e)[j] => i = j
  <1>1. Len(Append(s, e)) = Len(s) + 1 /\ Len(s) \in Nat
    OBVIOUS
  <1>2. \A i \in 1 .. Len(s) : Append(s, e)[i] = s[i] /\ s[i] # e
    OBVIOUS
  <1>3. Append(s, e)[Len(s) + 1] = e
    OBVIOUS
  <1>4. ASSUME NEW i \in 1 .. Len(s) + 1, NEW j \in 1 .. Len(s) + 1,
               Append(s, e)[i] = Append(s, e)[j]
        PROVE  i = j
    <2>1. CASE i = Len(s) + 1 /\ j # Len(s) + 1
      <3>1. j \in 1 .. Len(s)
        BY <2>1, <1>1
      <3> QED
        BY <3>1, <2>1, <1>2, <1>3, <1>4
    <2>2. CASE i # Len(s) + 1 /\ j = Len(s) + 1
      <3>1. i \in 1 .. Len(s)
        BY <2>2, <1>1
      <3> QED
        BY <3>1, <2>2, <1>2, <1>3, <1>4
    <2>3. CASE i # Len(s) + 1 /\ j # Len(s) + 1
      <3>1. i \in 1 .. Len(s) /\ j \in 1 .. Len(s)
        BY <2>3, <1>1
      <3> QED
        BY <3>1, <1>2, <1>4
    <2> QED
      BY <2>1, <2>2, <2>3
  <1> QED
    BY <1>1, <1>4

-----------------------------------------------------------------------------
QInv == QTypeOK /\ QueueInv

(* The empty queue satisfies the invariant. *)
LEMMA QInitInv == QInit => QInv
  <1> SUFFICES ASSUME QInit PROVE QInv
    OBVIOUS
  <1>1. QTypeOK
    <2>1. queue \in Seq(Keys)
      BY DEF QInit
    <2>2. shuttingDown \in BOOLEAN
      BY DEF QInit
    <2>3. holding \in [Workers -> Keys \union {NoKey}]
      BY DEF QInit
    <2> QED
      BY <2>1, <2>2, <2>3 DEF QInit, QTypeOK
  <1>2. MutualExclusion /\ ProcessingIsHeld
    BY DEF QInit, MutualExclusion, ProcessingIsHeld
  <1>3. QueueDistinct /\ QueuedAreDirtyAndFree
    BY DEF QInit, QueueDistinct, QueuedAreDirtyAndFree, Queued
  <1> QED
    BY <1>1, <1>2, <1>3 DEF QInv, QueueInv

(* Type.Add keeps the queue free of duplicates and consistent with the     *)
(* dirty and processing sets.                                              *)
LEMMA AddReadyInv ==
    ASSUME QInv, NEW k \in Keys, AddReady(k), UNCHANGED processing
    PROVE  /\ queue' \in Seq(Keys) /\ dirty' \subseteq Keys
           /\ QueueDistinct' /\ QueuedAreDirtyAndFree'
  <1> USE DEF QInv, QTypeOK, QueueInv
  <1>1. CASE UNCHANGED <<queue, dirty>>
    BY <1>1 DEF QueueDistinct, QueuedAreDirtyAndFree, Queued
  <1>2. CASE /\ dirty' = dirty \union {k} /\ k \notin dirty
             /\ k \in processing /\ queue' = queue
    BY <1>2 DEF QueueDistinct, QueuedAreDirtyAndFree, Queued
  <1>3. CASE /\ dirty' = dirty \union {k} /\ k \notin dirty
             /\ k \notin processing /\ queue' = Append(queue, k)
    <2>1. k \notin {queue[i] : i \in 1 .. Len(queue)}
      BY <1>3 DEF QueuedAreDirtyAndFree, Queued
    <2>2. Queued' = Queued \union {k} /\ queue' \in Seq(Keys)
      BY <1>3, AppendElements DEF Queued
    <2>3. QueueDistinct'
      BY <2>1, <1>3, AppendDistinct DEF QueueDistinct
    <2>4. QueuedAreDirtyAndFree'
      BY <2>2, <1>3 DEF QueuedAreDirtyAndFree
    <2> QED
      BY <2>2, <2>3, <2>4, <1>3
  <1> QED
    BY <1>1, <1>2, <1>3 DEF AddReady

(* Get keeps the invariant: the key it takes was held by nobody. *)
LEMMA GetInv ==
    ASSUME QInv, NEW w \in Workers, Get(w)
    PROVE  QInv'
  <1> USE DEF QInv, QTypeOK, QueueInv
  <1> DEFINE h == Head(queue)
  <1>1. /\ h \in Keys /\ queue' \in Seq(Keys)
        /\ Queued' = Queued \ {h}
        /\ QueueDistinct'
    BY TailElements DEF Get, QueueDistinct, Queued
  <1>2. h \in Queued
    <2>1. 1 \in 1 .. Len(queue) /\ h = queue[1]
      BY DEF Get
    <2> QED
      BY <2>1 DEF Queued
  <1>3. h \in dirty /\ h \notin processing
    BY <1>2 DEF QueuedAreDirtyAndFree
  <1>4. QTypeOK'
    BY <1>1 DEF Get
  <1>5. MutualExclusion'
    <2>1. \A v \in Workers : holding[v] # h
      BY <1>1, <1>3, NoKeyAssumption DEF ProcessingIsHeld
    <2> QED
      BY <2>1 DEF Get, MutualExclusion
  <1>6. ProcessingIsHeld'
    <2>1. processing' = processing \union {h} /\ holding' = [holding EXCEPT ![w] = h]
          /\ holding[w] = NoKey /\ h # NoKey
      BY <1>1, NoKeyAssumption DEF Get
    <2>2. {holding'[v] : v \in Workers} \ {NoKey}
            = ({holding[v] : v \in Workers} \ {NoKey}) \union {h}
      BY <2>1
    <2> QED
      BY <2>1, <2>2 DEF ProcessingIsHeld
  <1>7. QueuedAreDirtyAndFree'
    BY <1>1, <1>3 DEF Get, QueuedAreDirtyAndFree
  <1> QED
    BY <1>1, <1>4, <1>5, <1>6, <1>7

(* Done keeps the invariant: the key it queues again is not in processing  *)
(* any more and was not in the queue.                                      *)
LEMMA DoneInv ==
    ASSUME QInv, NEW w \in Workers, Done(w)
    PROVE  QInv'
  <1> USE DEF QInv, QTypeOK, QueueInv
  <1> DEFINE h == holding[w]
  <1>1. h \in Keys /\ h \in processing
    BY DEF Done, ProcessingIsHeld
  <1>2. h \notin {queue[i] : i \in 1 .. Len(queue)}
    BY <1>1 DEF QueuedAreDirtyAndFree, Queued
  <1>3. /\ queue' \in Seq(Keys) /\ QueueDistinct' /\ QueuedAreDirtyAndFree'
    <2>1. CASE h \in dirty
      <3>1. queue' = Append(queue, h)
        BY <2>1 DEF Done
      <3>2. Queued' = Queued \union {h} /\ queue' \in Seq(Keys)
        BY <3>1, <1>1, AppendElements DEF Queued
      <3>3. QueueDistinct'
        BY <3>1, <1>1, <1>2, AppendDistinct DEF QueueDistinct
      <3>4. QueuedAreDirtyAndFree'
        BY <3>2, <2>1, <1>1 DEF QueuedAreDirtyAndFree, Done
      <3> QED
        BY <3>2, <3>3, <3>4
    <2>2. CASE h \notin dirty
      <3>1. queue' = queue
        BY <2>2 DEF Done
      <3> QED
        BY <3>1, <2>2 DEF QueueDistinct, QueuedAreDirtyAndFree, Queued, Done
    <2> QED
      BY <2>1, <2>2
  <1>4. QTypeOK'
    BY <1>3 DEF Done
  <1>5. MutualExclusion'
    BY NoKeyAssumption DEF Done, MutualExclusion
  <1>6. ProcessingIsHeld'
    <2>1. processing' = processing \ {h} /\ holding' = [holding EXCEPT ![w] = NoKey]
      BY DEF Done
    <2>2. \A v \in Workers \ {w} : holding[v] # h
      BY <1>1, NoKeyAssumption DEF MutualExclusion
    <2>3. {holding'[v] : v \in Workers} \ {NoKey}
            = ({holding[v] : v \in Workers} \ {NoKey}) \ {h}
      BY <2>1, <2>2
    <2> QED
      BY <2>1, <2>3 DEF ProcessingIsHeld
  <1> QED
    BY <1>3, <1>4, <1>5, <1>6

(* Every step of the queue, and every step that leaves it alone, keeps the *)
(* invariant.                                                              *)
LEMMA QNextInv ==
    ASSUME QInv, QNext \/ UNCHANGED queueVars
    PROVE  QInv'
  <1>1. ASSUME NEW k \in Keys, AddRateLimited(k) PROVE QInv'
    BY <1>1 DEF QInv, QTypeOK, QueueInv, AddRateLimited, MutualExclusion,
                ProcessingIsHeld, QueueDistinct, QueuedAreDirtyAndFree, Queued
  <1>2. ASSUME NEW k \in Keys, WaitingReady(k) PROVE QInv'
    <2>1. AddReady(k) /\ UNCHANGED <<processing, shuttingDown, holding>>
          /\ waiting' = waiting \ {k}
      BY <1>2 DEF WaitingReady
    <2>2. /\ queue' \in Seq(Keys) /\ dirty' \subseteq Keys
          /\ QueueDistinct' /\ QueuedAreDirtyAndFree'
      BY <2>1, AddReadyInv
    <2> QED
      BY <2>1, <2>2 DEF QInv, QTypeOK, QueueInv, MutualExclusion, ProcessingIsHeld
  <1>3. ASSUME NEW w \in Workers, Get(w) PROVE QInv'
    BY <1>3, GetInv
  <1>4. ASSUME NEW w \in Workers, Done(w) PROVE QInv'
    BY <1>4, DoneInv
  <1>5. CASE ShutDown
    BY <1>5 DEF QInv, QTypeOK, QueueInv, ShutDown, MutualExclusion,
                ProcessingIsHeld, QueueDistinct, QueuedAreDirtyAndFree, Queued
  <1>6. CASE UNCHANGED queueVars
    BY <1>6 DEF QInv, QTypeOK, QueueInv, queueVars, MutualExclusion,
                ProcessingIsHeld, QueueDistinct, QueuedAreDirtyAndFree, Queued
  <1> QED
    BY <1>1, <1>2, <1>3, <1>4, <1>5, <1>6 DEF QNext

(* The variables keep their types, for any keys and workers. *)
THEOREM QTypeCorrect == QSpec => []QTypeOK
  <1>1. QInv /\ [QNext]_queueVars => QInv'
    BY QNextInv
  <1> QED
    BY QInitInv, <1>1, PTL DEF QSpec, QInv

(* No two workers ever process the same key, the queue has no duplicates   *)
(* and agrees with the dirty and processing sets, for any keys and workers. *)
THEOREM QueueCorrect == QSpec => []QueueInv
  <1>1. QInv /\ [QNext]_queueVars => QInv'
    BY QNextInv
  <1> QED
    BY QInitInv, <1>1, PTL DEF QSpec, QInv

-----------------------------------------------------------------------------
(* A step of the queue is a step of PendingWork or leaves what it keeps as *)
(* it is: handing out takes a key that nobody holds from the pending ones, *)
(* and the end of a delay only moves a key from waiting to dirty.          *)
LEMMA PendingStep ==
    ASSUME QInv, QNext \/ UNCHANGED queueVars
    PROVE  Pending!Next \/ UNCHANGED Pending!vars
  <1> USE DEF Pending!vars
  <1>1. ASSUME NEW k \in Keys, AddRateLimited(k)
        PROVE  Pending!Next \/ UNCHANGED Pending!vars
    <2>1. CASE shuttingDown
      BY <1>1, <2>1 DEF AddRateLimited
    <2>2. CASE ~shuttingDown
      <3>1. Pending!Ask(k)
        BY <1>1, <2>2 DEF AddRateLimited, Pending!Ask
      <3> QED
        BY <3>1 DEF Pending!Next
    <2> QED
      BY <2>1, <2>2
  <1>2. ASSUME NEW k \in Keys, WaitingReady(k)
        PROVE  UNCHANGED Pending!vars
    <2>1. (dirty \union waiting)' = dirty \union waiting
      BY <1>2 DEF WaitingReady, AddReady
    <2> QED
      BY <1>2, <2>1 DEF WaitingReady
  <1>3. ASSUME NEW w \in Workers, Get(w)
        PROVE  Pending!Next
    <2> DEFINE h == Head(queue)
    <2>1. 1 \in 1 .. Len(queue) /\ h = queue[1] /\ h \in Keys
      BY <1>3 DEF Get, QInv, QTypeOK
    <2>2. h \in dirty /\ h \notin processing
      BY <2>1 DEF QInv, QueueInv, QueuedAreDirtyAndFree, Queued
    <2>3. \A v \in Workers : holding[v] # h
      BY <2>1, <2>2, NoKeyAssumption DEF QInv, QueueInv, ProcessingIsHeld
    <2>4. dirty' = dirty \ {h} /\ waiting' = waiting
      BY <1>3 DEF Get
    <2>5. (dirty \union waiting)' \in {dirty \union waiting, (dirty \union waiting) \ {h}}
      <3>1. CASE h \in waiting
        BY <3>1, <2>2, <2>4
      <3>2. CASE h \notin waiting
        BY <3>2, <2>4
      <3> QED
        BY <3>1, <3>2
    <2>6. Pending!Take(w, h)
      BY <1>3, <2>2, <2>3, <2>5 DEF Get, Pending!Take
    <2> QED
      BY <2>1, <2>6 DEF Pending!Next
  <1>4. ASSUME NEW w \in Workers, Done(w)
        PROVE  Pending!Next
    <2>1. Pending!Finish(w)
      BY <1>4 DEF Done, Pending!Finish
    <2> QED
      BY <2>1 DEF Pending!Next
  <1>5. CASE ShutDown
    BY <1>5 DEF ShutDown, Pending!Close, Pending!Next
  <1>6. CASE UNCHANGED queueVars
    BY <1>6 DEF queueVars
  <1> QED
    BY <1>1, <1>2, <1>3, <1>4, <1>5, <1>6 DEF QNext

(* The queue that client-go builds from four collections does what         *)
(* PendingWork says, for any keys and workers: no add is lost, and no key  *)
(* is in two hands.                                                        *)
THEOREM QueueRefinesPendingWork == QSpec => KeepsPendingWork
  <1>1. QInit => Pending!Init
    BY DEF QInit, Pending!Init
  <1>2. QInv /\ [QNext]_queueVars => QInv'
    BY QNextInv
  <1>3. QInv /\ [QNext]_queueVars => [Pending!Next]_(Pending!vars)
    BY PendingStep
  <1> QED
    BY QInitInv, <1>1, <1>2, <1>3, PTL DEF QSpec, KeepsPendingWork, Pending!Spec

=============================================================================

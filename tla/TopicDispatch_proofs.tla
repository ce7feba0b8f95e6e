------------------------ MODULE TopicDispatch_proofs ------------------------
(***************************************************************************)
(* Proofs about TopicDispatch, for every bound on the messages and every   *)
(* batch size.                                                             *)
(***************************************************************************)
EXTENDS TopicDispatch, SequenceTheorems, TLAPS

(* The initial state satisfies the inductive invariant.                    *)
LEMMA InitIInv == Init => IInv
<1> SUFFICES ASSUME Init PROVE IInv
  OBVIOUS
<1> USE DEF Init, NoBatch
<1>1. TypeOK
  <2>1. registry \in Batch
    BY DEF Batch
  <2>2. dispatches \in Seq(Dispatch) /\ waiters \in Seq(1..Len(dispatches))
    OBVIOUS
  <2>3. holder \in 0..Len(dispatches) /\ discarded \subseteq 1..arrived
    OBVIOUS
  <2>4. QED
    BY <2>1, <2>2, <2>3 DEF TypeOK
<1>2. LockState
  BY DEF LockState, Passed
<1>3. BatchState /\ StopHitsLiveDispatch /\ RegistryIsNewest /\ ArrivalOrder
  BY DEF BatchState, Pending, StopHitsLiveDispatch, RegistryIsNewest, ArrivalOrder
<1>4. NothingLost
  BY DEF NothingLost
<1>5. PendingIsScheduled
  BY DEF PendingIsScheduled, Pending
<1>6. QED
  BY <1>1, <1>2, <1>3, <1>4, <1>5 DEF IInv

(* Records built field by field are of their type.                         *)
LEMMA BatchType ==
  ASSUME NEW i \in Nat, NEW t \in SUBSET (Nat \ {0}), NEW a \in BOOLEAN,
         NEW e \in Nat
  PROVE  [id |-> i, texts |-> t, armed |-> a, event |-> e] \in Batch
BY DEF Batch

(* What joining the batch gives: a batch of arrived messages, newer than   *)
(* every dispatch, that together with the dispatches and the dropped       *)
(* messages accounts for all that arrived.                                 *)
LEMMA JoinedBatch ==
  ASSUME IInv
  PROVE  LET b == Joined(arrived + 1) IN
         /\ b \in Batch /\ b.event = 0 /\ ~b.armed
         /\ b.id \in b.texts /\ b.texts \subseteq 1..(arrived + 1)
         /\ b.texts \cap discarded = {}
         /\ \A d \in DOMAIN dispatches :
              \A m \in dispatches[d].texts, n \in b.texts : m < n
         /\ \A m \in 1..(arrived + 1) :
              m \in b.texts \/ m \in discarded \/ Dispatched(m)
<1> DEFINE b == Joined(arrived + 1)
<1> USE DEF IInv
<1>1. CASE Pending
  <2>1. b = [id |-> registry.id, texts |-> registry.texts \cup {arrived + 1},
             armed |-> FALSE, event |-> 0]
    BY <1>1 DEF Joined, Pending, TypeOK, Batch
  <2>2. /\ b \in Batch /\ b.event = 0 /\ ~b.armed
        /\ b.id \in b.texts /\ b.texts \subseteq 1..(arrived + 1)
    <3>1. /\ registry.id \in Nat /\ registry.texts \in SUBSET (Nat \ {0})
          /\ registry.id \in registry.texts
          /\ registry.texts \subseteq 1..arrived /\ arrived \in Nat
      BY <1>1 DEF Pending, TypeOK, Batch, BatchState
    <3>2. registry.texts \cup {arrived + 1} \in SUBSET (Nat \ {0})
      BY <3>1
    <3>3. b \in Batch
      BY <2>1, <3>1, <3>2, BatchType
    <3>4. QED
      BY <2>1, <3>1, <3>3
  <2>3. b.texts \cap discarded = {}
    <3>1. b.texts = registry.texts \cup {arrived + 1}
      BY <2>1
    <3>2. /\ discarded \subseteq 1..arrived /\ arrived \in Nat
          /\ registry.texts \subseteq 1..arrived
      BY DEF TypeOK, BatchState
    <3>3. \A m \in registry.texts : m \notin discarded
      BY <1>1, <3>2 DEF NothingLost, Batched
    <3>4. QED
      BY <3>1, <3>2, <3>3
  <2>4. \A d \in DOMAIN dispatches :
          \A m \in dispatches[d].texts, n \in b.texts : m < n
    BY <1>1, <2>1 DEF Pending, TypeOK, BatchState, RegistryIsNewest
  <2>5. \A m \in 1..(arrived + 1) :
          m \in b.texts \/ m \in discarded \/ Dispatched(m)
    BY <1>1, <2>1 DEF TypeOK, NothingLost, Batched
  <2>6. QED
    BY <2>2, <2>3, <2>4, <2>5
<1>2. CASE ~Pending
  <2>1. b = [id |-> arrived + 1, texts |-> {arrived + 1},
             armed |-> FALSE, event |-> 0]
    BY <1>2 DEF Joined
  <2>2. /\ b \in Batch /\ b.event = 0 /\ ~b.armed
        /\ b.id \in b.texts /\ b.texts \subseteq 1..(arrived + 1)
    <3>1. arrived \in Nat
      BY DEF TypeOK
    <3>2. arrived + 1 \in Nat /\ {arrived + 1} \in SUBSET (Nat \ {0})
      BY <3>1
    <3>3. b \in Batch
      BY <2>1, <3>2, BatchType
    <3>4. QED
      BY <2>1, <3>1, <3>3
  <2>3. b.texts \cap discarded = {}
    BY <2>1 DEF TypeOK
  <2>4. \A d \in DOMAIN dispatches :
          \A m \in dispatches[d].texts, n \in b.texts : m < n
    BY <2>1 DEF TypeOK, BatchState
  <2>5. \A m \in 1..(arrived + 1) :
          m \in b.texts \/ m \in discarded \/ Dispatched(m)
    <3>1. ASSUME NEW m \in 1..(arrived + 1)
          PROVE  m \in b.texts \/ m \in discarded \/ Dispatched(m)
      <4>1. CASE m = arrived + 1
        BY <2>1, <4>1
      <4>2. CASE m \in 1..arrived
        BY <1>2, <4>2 DEF NothingLost, Batched
      <4>3. QED
        BY <4>1, <4>2 DEF TypeOK
    <3>2. QED
      BY <3>1
  <2>6. QED
    BY <2>2, <2>3, <2>4, <2>5
<1>3. QED
  BY <1>1, <1>2

(* Appending to a sequence, spelled out for the provers.                   *)
LEMMA AppendFacts ==
  ASSUME NEW S, NEW s \in Seq(S), NEW x \in S
  PROVE  /\ Append(s, x) \in Seq(S)
         /\ Len(Append(s, x)) = Len(s) + 1
         /\ DOMAIN Append(s, x) = DOMAIN s \cup {Len(s) + 1}
         /\ \A i \in DOMAIN s : Append(s, x)[i] = s[i] /\ i \in 1..Len(s)
         /\ Append(s, x)[Len(s) + 1] = x
<1>1. /\ Append(s, x) \in Seq(S)
      /\ Len(Append(s, x)) = Len(s) + 1
      /\ Append(s, x)[Len(s) + 1] = x
      /\ \A i \in 1..Len(s) : Append(s, x)[i] = s[i]
  BY AppendProperties
<1>2. /\ Len(s) \in Nat /\ DOMAIN s = 1..Len(s)
      /\ DOMAIN Append(s, x) = 1..Len(Append(s, x))
  BY <1>1
<1>3. 1..(Len(s) + 1) = 1..Len(s) \cup {Len(s) + 1}
  BY <1>2
<1>4. QED
  BY <1>1, <1>2, <1>3

(* A flush of a batch that is newer than every other dispatch preserves    *)
(* the invariant, whether its own task or the message's task runs it.      *)
LEMMA FlushPreserves ==
  ASSUME IInv,
         NEW b \in Batch, Flush(b),
         arrived' \in Nat, arrived <= arrived',
         flushTasks' \in Nat, UNCHANGED discarded,
         b.id \in b.texts, b.texts \subseteq 1..arrived',
         b.texts \cap discarded = {},
         \A d \in DOMAIN dispatches :
            \/ dispatches[d].batch = b.id /\ dispatches[d].texts = b.texts
            \/ \A m \in dispatches[d].texts, n \in b.texts : m < n,
         \A m \in 1..arrived' : m \in b.texts \/ m \in discarded \/ Dispatched(m)
  PROVE  IInv'
<1> DEFINE D == Len(dispatches) + 1
           free == holder = 0 /\ waiters = <<>>
           new == [batch |-> b.id, texts |-> b.texts, stopped |-> FALSE,
                   phase |-> IF free THEN "typing" ELSE "waiting"]
<1> USE DEF IInv
<1>1. /\ dispatches \in Seq(Dispatch)
      /\ waiters \in Seq(1..Len(dispatches))
      /\ holder \in 0..Len(dispatches)
      /\ Len(dispatches) \in Nat /\ D \in Nat
  BY DEF TypeOK
<1>2. new \in Dispatch
  BY DEF Dispatch, Batch
<1>3. /\ dispatches' = Append(dispatches, new)
      /\ registry' = [b EXCEPT !.armed = FALSE, !.event = D]
      /\ holder' = IF free THEN D ELSE holder
      /\ waiters' = IF free THEN waiters ELSE Append(waiters, D)
  BY DEF Flush
<1>4. /\ dispatches' \in Seq(Dispatch)
      /\ Len(dispatches') = D
      /\ DOMAIN dispatches' = DOMAIN dispatches \cup {D}
      /\ \A d \in DOMAIN dispatches : dispatches'[d] = dispatches[d] /\ d \in 1..Len(dispatches)
      /\ dispatches'[D] = new
  BY <1>1, <1>2, <1>3, AppendFacts
<1>5. /\ registry'.id = b.id /\ registry'.texts = b.texts
      /\ registry'.event = D /\ registry'.armed = FALSE
      /\ registry' \in Batch
  BY <1>1, <1>3 DEF Batch
<1>6. TypeOK'
  <2>1. waiters' \in Seq(1..Len(dispatches'))
    <3>1. CASE free
      BY <1>1, <1>3, <1>4, <3>1
    <3>2. CASE ~free
      <4>1. waiters \in Seq(1..D) /\ D \in 1..D
        BY <1>1
      <4>2. QED
        BY <1>3, <1>4, <3>2, <4>1, AppendProperties
    <3>3. QED
      BY <3>1, <3>2
  <2>2. holder' \in 0..Len(dispatches')
    BY <1>1, <1>3, <1>4
  <2>3. discarded' \subseteq 1..arrived'
    BY DEF TypeOK
  <2>4. QED
    BY <1>4, <1>5, <2>1, <2>2, <2>3 DEF TypeOK
<1>7. LockState'
  <2>1. CASE free
    <3>1. /\ holder = 0 /\ waiters = <<>> /\ Len(waiters) = 0
          /\ holder' = D /\ waiters' = <<>> /\ Len(waiters') = 0
          /\ Passed = Len(dispatches) /\ Passed' = D
      BY <1>1, <1>3, <1>4, <2>1 DEF Passed
    <3>2. new.phase = "typing"
      BY <2>1
    <3>3. \A d \in DOMAIN dispatches' :
            /\ dispatches'[d].phase = "waiting" <=> d > Passed'
            /\ dispatches'[d].phase = "done" <=> d <= Passed' /\ d # holder'
      BY <1>1, <1>4, <3>1, <3>2 DEF LockState
    <3>4. QED
      BY <1>1, <3>1, <3>3 DEF LockState
  <2>2. CASE ~free
    <3>1. /\ Len(waiters) \in Nat /\ Passed \in Nat
          /\ holder' = holder /\ waiters' = Append(waiters, D)
          /\ Len(waiters') = Len(waiters) + 1
          /\ \A i \in 1..Len(waiters) : waiters'[i] = waiters[i]
          /\ waiters'[Len(waiters) + 1] = D
      <4>1. Len(waiters) \in Nat /\ Passed \in Nat
        BY <1>1 DEF LockState, Passed
      <4>2. waiters \in Seq(1..D) /\ D \in 1..D
        BY <1>1
      <4>3. QED
        BY <1>3, <2>2, <4>1, <4>2, AppendProperties
    <3>2. Passed' = Passed
      BY <1>1, <1>4, <3>1 DEF Passed
    <3>3. new.phase = "waiting"
      BY <2>2
    <3>4. \A d \in DOMAIN dispatches' :
            /\ dispatches'[d].phase = "waiting" <=> d > Passed'
            /\ dispatches'[d].phase = "done" <=> d <= Passed' /\ d # holder'
      <4>1. D > Passed
        BY <1>1, <3>1 DEF Passed
      <4>2. QED
        BY <1>1, <1>4, <3>1, <3>2, <3>3, <4>1 DEF LockState
    <3>5. \A i \in 1..Len(waiters') : waiters'[i] = Passed' + i
      <4>1. \A i \in 1..Len(waiters) : waiters'[i] = Passed + i
        BY <3>1 DEF LockState
      <4>2. Passed + (Len(waiters) + 1) = D
        BY <1>1, <3>1 DEF Passed
      <4>3. ASSUME NEW i \in 1..(Len(waiters) + 1)
            PROVE  waiters'[i] = Passed + i
        <5>1. CASE i \in 1..Len(waiters)
          BY <4>1, <5>1
        <5>2. CASE i = Len(waiters) + 1
          BY <3>1, <4>2, <5>2
        <5>3. QED
          BY <3>1, <5>1, <5>2
      <4>4. QED
        BY <3>1, <3>2, <4>3
    <3>6. Passed' >= 0 /\ holder' \in {0, Passed'}
      BY <3>1, <3>2 DEF LockState
    <3>7. QED
      BY <3>4, <3>5, <3>6 DEF LockState
  <2>3. QED
    BY <2>1, <2>2
<1>8. BatchState'
  <2>1. \A d \in DOMAIN dispatches' :
          /\ dispatches'[d].batch \in dispatches'[d].texts
          /\ dispatches'[d].texts \subseteq 1..arrived'
    BY <1>1, <1>4 DEF BatchState, TypeOK
  <2>2. QED
    BY <1>1, <1>4, <1>5, <2>1 DEF BatchState
<1>9. StopHitsLiveDispatch'
  BY <1>1, <1>4, <1>5 DEF StopHitsLiveDispatch
<1>10. RegistryIsNewest'
  <2>1. registry'.event # 0 /\ new.batch = registry'.id /\ new.texts = registry'.texts
    BY <1>1, <1>5
  <2>2. QED
    BY <1>4, <1>5, <2>1 DEF RegistryIsNewest
<1>11. ArrivalOrder'
  <2>1. ASSUME NEW c \in DOMAIN dispatches', NEW d \in DOMAIN dispatches', c < d
        PROVE  \/ /\ dispatches'[c].batch = dispatches'[d].batch
                  /\ dispatches'[c].texts = dispatches'[d].texts
               \/ \A m \in dispatches'[c].texts, n \in dispatches'[d].texts : m < n
    <3>1. c \in DOMAIN dispatches
      BY <1>1, <1>4, <2>1
    <3>2. CASE d \in DOMAIN dispatches
      BY <1>4, <2>1, <3>1, <3>2 DEF ArrivalOrder
    <3>3. CASE d = D
      <4>1. dispatches'[c] = dispatches[c] /\ new.batch = b.id /\ new.texts = b.texts
        BY <1>4, <3>1
      <4>2. QED
        BY <1>4, <3>1, <3>3, <4>1
    <3>4. QED
      BY <1>4, <3>2, <3>3
  <2>2. QED
    BY <2>1 DEF ArrivalOrder
<1>12. NothingLost'
  <2>1. \A m : Dispatched(m)' <=> Dispatched(m) \/ m \in b.texts
    BY <1>4 DEF Dispatched
  <2>2. \A m : ~Batched(m)'
    BY <1>1, <1>5 DEF Batched, Pending
  <2>3. \A m : Dispatched(m) => m \notin discarded
    BY <1>4 DEF Dispatched, NothingLost, BatchState
  <2>4. QED
    BY <2>1, <2>2, <2>3 DEF NothingLost
<1>13. PendingIsScheduled'
  BY <1>1, <1>5 DEF PendingIsScheduled, Pending
<1>14. QED
  BY <1>6, <1>7, <1>8, <1>9, <1>10, <1>11, <1>12, <1>13

(* Every message's task and flush task, and the firing of the timer.       *)
LEMMA EnqueuePreserves ==
  ASSUME IInv, EnqueueAndArm \/ EnqueueAtCap \/ EnqueueFile
  PROVE  IInv'
<1> DEFINE b == Joined(arrived + 1)
<1> USE DEF IInv
<1>1. /\ b \in Batch /\ b.event = 0 /\ ~b.armed
      /\ b.id \in b.texts /\ b.texts \subseteq 1..(arrived + 1)
      /\ b.texts \cap discarded = {}
      /\ \A d \in DOMAIN dispatches :
           \A m \in dispatches[d].texts, n \in b.texts : m < n
      /\ \A m \in 1..(arrived + 1) :
           m \in b.texts \/ m \in discarded \/ Dispatched(m)
  BY JoinedBatch
<1>2. arrived \in Nat /\ arrived' = arrived + 1 /\ UNCHANGED discarded
  BY DEF EnqueueAndArm, EnqueueAtCap, EnqueueFile, TypeOK
<1>3. CASE EnqueueAtCap \/ EnqueueFile
  <2>1. Flush(b) /\ UNCHANGED flushTasks /\ flushTasks \in Nat
    BY <1>3 DEF EnqueueAtCap, EnqueueFile, TypeOK
  <2> HIDE DEF b
  <2>2. QED
    BY <1>1, <1>2, <2>1, FlushPreserves
<1>4. CASE EnqueueAndArm
  <2> USE <1>2
  <2>1. /\ registry' = [b EXCEPT !.armed = TRUE]
        /\ UNCHANGED <<flushTasks, dispatches, holder, waiters>>
    BY <1>4 DEF EnqueueAndArm
  <2>2. /\ registry'.id = b.id /\ registry'.texts = b.texts
        /\ registry'.event = 0 /\ registry'.armed = TRUE
        /\ registry' \in Batch
    BY <1>1, <2>1 DEF Batch
  <2>3. b.id # 0 /\ Pending'
    BY <1>1, <2>2 DEF Pending
  <2>4. TypeOK'
    <3>1. discarded' \subseteq 1..arrived'
      BY DEF TypeOK
    <3>2. QED
      BY <2>1, <2>2, <3>1 DEF TypeOK
  <2>5. LockState'
    BY <2>1 DEF LockState, Passed
  <2>6. BatchState' /\ StopHitsLiveDispatch'
    <3>1. \A d \in DOMAIN dispatches :
            /\ dispatches[d].batch \in dispatches[d].texts
            /\ dispatches[d].texts \subseteq 1..(arrived + 1)
      BY DEF BatchState
    <3>2. BatchState'
      BY <1>1, <2>1, <2>2, <2>3, <3>1 DEF BatchState
    <3>3. StopHitsLiveDispatch'
      BY <2>2 DEF StopHitsLiveDispatch
    <3>4. QED
      BY <3>2, <3>3
  <2>7. RegistryIsNewest' /\ ArrivalOrder'
    BY <1>1, <2>1, <2>2 DEF RegistryIsNewest, ArrivalOrder
  <2>8. NothingLost'
    <3>1. \A m : Dispatched(m)' <=> Dispatched(m)
      BY <2>1 DEF Dispatched
    <3>2. \A m : Batched(m)' <=> m \in b.texts
      BY <2>2, <2>3 DEF Batched
    <3>3. \A m : Dispatched(m) => m \notin discarded /\ m \notin b.texts
      BY <1>1 DEF Dispatched, NothingLost, BatchState
    <3>4. QED
      BY <1>1, <3>1, <3>2, <3>3 DEF NothingLost
  <2>9. PendingIsScheduled'
    BY <2>2 DEF PendingIsScheduled
  <2>10. QED
    BY <2>4, <2>5, <2>6, <2>7, <2>8, <2>9
<1>5. QED
  BY <1>3, <1>4

(* TimerFires: the armed timer becomes a flush task.                       *)
LEMMA TimerPreserves ==
  ASSUME IInv, TimerFires
  PROVE  IInv'
<1> USE DEF IInv
<1>1. /\ registry.armed
      /\ registry' = [registry EXCEPT !.armed = FALSE]
      /\ flushTasks' = flushTasks + 1
      /\ UNCHANGED <<arrived, dispatches, holder, waiters, discarded>>
  BY DEF TimerFires
<1>2. /\ registry'.id = registry.id /\ registry'.texts = registry.texts
      /\ registry'.event = registry.event /\ registry'.armed = FALSE
      /\ registry' \in Batch
  BY <1>1 DEF TypeOK, Batch
<1>3. TypeOK' /\ flushTasks' > 0
  BY <1>1, <1>2 DEF TypeOK
<1>4. registry.id # 0
  BY <1>1 DEF BatchState, Pending
<1>5. LockState'
  BY <1>1 DEF LockState, Passed
<1>6. BatchState' /\ StopHitsLiveDispatch' /\ RegistryIsNewest' /\ ArrivalOrder'
  BY <1>1, <1>2, <1>4
     DEF BatchState, StopHitsLiveDispatch, RegistryIsNewest, ArrivalOrder
<1>7. NothingLost'
  BY <1>1, <1>2 DEF NothingLost, Dispatched, Batched, Pending
<1>8. PendingIsScheduled'
  BY <1>3 DEF PendingIsScheduled
<1>9. QED
  BY <1>3, <1>5, <1>6, <1>7, <1>8

(* FlushTaskRuns: a flush of whatever is registered, or nothing.           *)
LEMMA FlushTaskPreserves ==
  ASSUME IInv, FlushTaskRuns
  PROVE  IInv'
<1> USE DEF IInv
<1>1. /\ flushTasks \in Nat /\ flushTasks > 0 /\ flushTasks' = flushTasks - 1
      /\ arrived \in Nat /\ UNCHANGED <<arrived, discarded>>
  BY DEF FlushTaskRuns, TypeOK
<1>2. CASE registry.id # 0 /\ Flush(registry)
  <2>1. /\ registry \in Batch /\ registry.id \in registry.texts
        /\ registry.texts \subseteq 1..arrived
    BY <1>2 DEF TypeOK, BatchState
  <2>2. \A d \in DOMAIN dispatches :
          \/ dispatches[d].batch = registry.id /\ dispatches[d].texts = registry.texts
          \/ \A m \in dispatches[d].texts, n \in registry.texts : m < n
    BY DEF RegistryIsNewest
  <2>3. \A m \in 1..arrived : m \in registry.texts \/ m \in discarded \/ Dispatched(m)
    BY DEF NothingLost, Batched
  <2>4. registry.texts \cap discarded = {}
    <3>1. CASE Pending
      BY <2>1, <3>1 DEF NothingLost, Batched
    <3>2. CASE ~Pending
      <4>1. registry.event # 0
        BY <1>2, <3>2 DEF Pending
      <4>2. /\ registry.event \in DOMAIN dispatches
            /\ dispatches[registry.event].texts = registry.texts
        BY <4>1 DEF BatchState, StopHitsLiveDispatch
      <4>3. \A m \in registry.texts : Dispatched(m)
        BY <4>2 DEF Dispatched
      <4>4. QED
        BY <2>1, <4>3 DEF NothingLost
    <3>3. QED
      BY <3>1, <3>2
  <2>5. QED
    BY <1>1, <1>2, <2>1, <2>2, <2>3, <2>4, FlushPreserves
<1>3. CASE registry.id = 0 /\ UNCHANGED <<registry, dispatches, holder, waiters>>
  <2>1. TypeOK'
    BY <1>1, <1>3 DEF TypeOK
  <2>2. LockState' /\ BatchState' /\ StopHitsLiveDispatch'
    BY <1>1, <1>3 DEF LockState, Passed, BatchState, Pending, StopHitsLiveDispatch
  <2>3. RegistryIsNewest' /\ ArrivalOrder' /\ NothingLost'
    BY <1>1, <1>3 DEF RegistryIsNewest, ArrivalOrder, NothingLost, Dispatched, Batched, Pending
  <2>4. PendingIsScheduled'
    BY <1>3 DEF PendingIsScheduled, Pending
  <2>5. QED
    BY <2>1, <2>2, <2>3, <2>4
<1>4. QED
  BY <1>2, <1>3 DEF FlushTaskRuns

(* A step that only moves dispatch d to another phase.                     *)
LEMMA PhaseFacts ==
  ASSUME TypeOK, NEW d \in DOMAIN dispatches,
         NEW p \in {"waiting", "typing", "turn", "apology", "done"},
         dispatches' = [dispatches EXCEPT ![d].phase = p]
  PROVE  /\ dispatches' \in Seq(Dispatch)
         /\ Len(dispatches') = Len(dispatches)
         /\ DOMAIN dispatches' = DOMAIN dispatches
         /\ \A e \in DOMAIN dispatches :
              /\ dispatches'[e].batch = dispatches[e].batch
              /\ dispatches'[e].texts = dispatches[e].texts
              /\ dispatches'[e].phase = IF e = d THEN p ELSE dispatches[e].phase
<1>1. dispatches \in Seq(Dispatch) /\ dispatches[d] \in Dispatch
  BY DEF TypeOK
<1>2. [dispatches[d] EXCEPT !.phase = p] \in Dispatch
  BY <1>1 DEF Dispatch
<1>3. dispatches' = [dispatches EXCEPT ![d] = [dispatches[d] EXCEPT !.phase = p]]
  OBVIOUS
<1>4. \A e \in DOMAIN dispatches :
        dispatches'[e] = IF e = d THEN [dispatches[d] EXCEPT !.phase = p] ELSE dispatches[e]
  BY <1>3
<1>5. /\ dispatches' \in Seq(Dispatch)
      /\ Len(dispatches') = Len(dispatches)
      /\ DOMAIN dispatches' = DOMAIN dispatches
  BY <1>1, <1>2, <1>3
<1>6. QED
  BY <1>1, <1>4, <1>5 DEF Dispatch

(* What does not depend on the phases, the lock and the status entry.      *)
LEMMA PhasesDoNotMatter ==
  ASSUME IInv, UNCHANGED <<arrived, registry, flushTasks, discarded>>,
         DOMAIN dispatches' = DOMAIN dispatches,
         \A e \in DOMAIN dispatches :
            /\ dispatches'[e].batch = dispatches[e].batch
            /\ dispatches'[e].texts = dispatches[e].texts
  PROVE  BatchState' /\ RegistryIsNewest' /\ ArrivalOrder' /\ NothingLost'
         /\ PendingIsScheduled'
<1> USE DEF IInv
<1>1. BatchState'
  <2>1. registry.event # 0 => registry.event \in DOMAIN dispatches
    BY DEF StopHitsLiveDispatch
  <2>2. QED
    BY <2>1 DEF BatchState, Pending
<1>2. RegistryIsNewest' /\ ArrivalOrder'
  BY DEF RegistryIsNewest, ArrivalOrder
<1>3. NothingLost'
  <2>1. \A m : Dispatched(m)' <=> Dispatched(m)
    BY DEF Dispatched
  <2>2. \A m : Batched(m)' <=> Batched(m)
    BY DEF Batched, Pending
  <2>3. QED
    BY <2>1, <2>2 DEF NothingLost
<1>4. PendingIsScheduled'
  BY DEF PendingIsScheduled, Pending
<1>5. QED
  BY <1>1, <1>2, <1>3, <1>4

(* AcquireLock: the first waiter is the dispatch right after the last one  *)
(* that got past the lock.                                                 *)
LEMMA AcquirePreserves ==
  ASSUME IInv, AcquireLock
  PROVE  IInv'
<1> DEFINE d == Head(waiters)
<1> USE DEF IInv
<1>1. /\ holder = 0 /\ waiters # <<>>
      /\ holder' = d /\ waiters' = Tail(waiters)
      /\ dispatches' = [dispatches EXCEPT ![d].phase = "typing"]
      /\ UNCHANGED <<arrived, registry, flushTasks, discarded>>
  BY DEF AcquireLock
<1>2. /\ waiters \in Seq(1..Len(dispatches)) /\ dispatches \in Seq(Dispatch)
      /\ Len(waiters) \in Nat \ {0} /\ Len(dispatches) \in Nat
      /\ Passed \in Nat
  BY <1>1 DEF TypeOK, LockState, Passed
<1>3. d = Passed + 1 /\ d \in DOMAIN dispatches
  BY <1>2 DEF LockState
<1>4. /\ Tail(waiters) \in Seq(1..Len(dispatches))
      /\ Len(Tail(waiters)) = Len(waiters) - 1
      /\ \A i \in 1..(Len(waiters) - 1) : Tail(waiters)[i] = waiters[i + 1]
  BY <1>2
<1>5. /\ dispatches' \in Seq(Dispatch)
      /\ Len(dispatches') = Len(dispatches)
      /\ DOMAIN dispatches' = DOMAIN dispatches
      /\ \A e \in DOMAIN dispatches :
           /\ dispatches'[e].batch = dispatches[e].batch
           /\ dispatches'[e].texts = dispatches[e].texts
           /\ dispatches'[e].phase = IF e = d THEN "typing" ELSE dispatches[e].phase
  BY <1>1, <1>3, PhaseFacts
<1>6. TypeOK'
  <2>1. holder' \in 0..Len(dispatches') /\ waiters' \in Seq(1..Len(dispatches'))
    BY <1>1, <1>2, <1>3, <1>4, <1>5
  <2>2. QED
    BY <1>1, <1>5, <2>1 DEF TypeOK
<1>7. LockState'
  <2>1. Passed' = Passed + 1
    BY <1>1, <1>2, <1>4, <1>5 DEF Passed
  <2>2. \A i \in 1..Len(waiters') : waiters'[i] = Passed' + i
    BY <1>1, <1>2, <1>4, <2>1 DEF LockState
  <2>3. \A e \in DOMAIN dispatches' :
          /\ dispatches'[e].phase = "waiting" <=> e > Passed'
          /\ dispatches'[e].phase = "done" <=> e <= Passed' /\ e # holder'
    BY <1>1, <1>2, <1>3, <1>5, <2>1 DEF LockState
  <2>4. QED
    BY <1>1, <1>2, <1>3, <2>1, <2>2, <2>3 DEF LockState
<1>8. BatchState' /\ RegistryIsNewest' /\ ArrivalOrder' /\ NothingLost' /\ PendingIsScheduled'
  BY <1>1, <1>5, PhasesDoNotMatter
<1>9. StopHitsLiveDispatch'
  BY <1>1, <1>5 DEF StopHitsLiveDispatch
<1>10. QED
  BY <1>6, <1>7, <1>8, <1>9

(* StartTurn and Apologise only move the holder to another phase.          *)
LEMMA TurnPreserves ==
  ASSUME IInv, StartTurn \/ Apologise
  PROVE  IInv'
<1> USE DEF IInv
<1>1. /\ holder # 0 /\ dispatches[holder].phase \in {"typing", "turn"}
      /\ UNCHANGED <<arrived, registry, flushTasks, holder, waiters,
                     discarded>>
  BY DEF StartTurn, Apologise
<1>2. holder \in DOMAIN dispatches
  BY <1>1 DEF TypeOK
<1>3. PICK p \in {"turn", "apology"} :
        dispatches' = [dispatches EXCEPT ![holder].phase = p]
  BY DEF StartTurn, Apologise
<1>4. /\ dispatches' \in Seq(Dispatch)
      /\ Len(dispatches') = Len(dispatches)
      /\ DOMAIN dispatches' = DOMAIN dispatches
      /\ \A e \in DOMAIN dispatches :
           /\ dispatches'[e].batch = dispatches[e].batch
           /\ dispatches'[e].texts = dispatches[e].texts
           /\ dispatches'[e].phase = IF e = holder THEN p ELSE dispatches[e].phase
  <2>1. p \in {"waiting", "typing", "turn", "apology", "done"}
    OBVIOUS
  <2>2. QED
    BY <1>2, <1>3, <2>1, PhaseFacts
<1>5. TypeOK'
  BY <1>1, <1>4 DEF TypeOK
<1>6. LockState'
  <2>1. Passed' = Passed
    BY <1>1, <1>4 DEF Passed
  <2>2. \A e \in DOMAIN dispatches' :
          /\ dispatches'[e].phase = "waiting" <=> e > Passed'
          /\ dispatches'[e].phase = "done" <=> e <= Passed' /\ e # holder'
    BY <1>1, <1>2, <1>4, <2>1 DEF LockState
  <2>3. QED
    BY <1>1, <2>1, <2>2 DEF LockState
<1>7. BatchState' /\ RegistryIsNewest' /\ ArrivalOrder' /\ NothingLost' /\ PendingIsScheduled'
  BY <1>1, <1>4, PhasesDoNotMatter
<1>8. StopHitsLiveDispatch'
  BY <1>1, <1>4 DEF StopHitsLiveDispatch
<1>9. QED
  BY <1>5, <1>6, <1>7, <1>8

(* EndTurn: the registry entry goes only with its own batch.               *)
LEMMA EndTurnPreserves ==
  ASSUME IInv, EndTurn
  PROVE  IInv'
<1> USE DEF IInv
<1>1. /\ holder # 0
      /\ registry' = IF registry.id = dispatches[holder].batch THEN NoBatch ELSE registry
      /\ dispatches' = [dispatches EXCEPT ![holder].phase = "done"]
      /\ holder' = 0
      /\ UNCHANGED <<arrived, flushTasks, waiters, discarded>>
  BY DEF EndTurn, RegistryAfter
<1>2. holder \in DOMAIN dispatches
  BY <1>1 DEF TypeOK
<1>3. /\ dispatches' \in Seq(Dispatch)
      /\ Len(dispatches') = Len(dispatches)
      /\ DOMAIN dispatches' = DOMAIN dispatches
      /\ \A e \in DOMAIN dispatches :
           /\ dispatches'[e].batch = dispatches[e].batch
           /\ dispatches'[e].texts = dispatches[e].texts
           /\ dispatches'[e].phase = IF e = holder THEN "done" ELSE dispatches[e].phase
  BY <1>1, <1>2, PhaseFacts
<1>4. NoBatch \in Batch
  BY BatchType DEF NoBatch
<1>5. TypeOK'
  <2>1. holder' \in 0..Len(dispatches') /\ registry' \in Batch
    BY <1>1, <1>3, <1>4 DEF TypeOK
  <2>2. QED
    BY <1>1, <1>3, <2>1 DEF TypeOK
<1>6. LockState'
  <2>1. Passed' = Passed
    BY <1>1, <1>3 DEF Passed
  <2>2. \A e \in DOMAIN dispatches' :
          /\ dispatches'[e].phase = "waiting" <=> e > Passed'
          /\ dispatches'[e].phase = "done" <=> e <= Passed' /\ e # holder'
    BY <1>1, <1>2, <1>3, <2>1 DEF LockState, TypeOK
  <2>3. QED
    BY <1>1, <2>1, <2>2 DEF LockState
<1>7. CASE registry.id = dispatches[holder].batch
  <2>1. registry' = NoBatch
    BY <1>1, <1>7
  <2>2. ~Pending
    <3>1. /\ registry.id \in Nat /\ registry.id # 0
          /\ dispatches[holder].batch \in dispatches[holder].texts
      BY <1>2, <1>7 DEF BatchState, TypeOK, Dispatch, Batch
    <3>2. registry.id \in registry.texts
      BY <3>1 DEF BatchState
    <3>3. QED
      BY <1>2, <1>7, <3>1, <3>2 DEF RegistryIsNewest, Pending
  <2>3. registry'.id = 0 /\ registry'.texts = {} /\ registry'.event = 0 /\ ~registry'.armed
    BY <2>1 DEF NoBatch
  <2>4. ~Pending'
    BY <2>3 DEF Pending
  <2>5. BatchState'
    BY <1>1, <1>3, <2>1, <2>3 DEF BatchState, NoBatch
  <2>6. StopHitsLiveDispatch' /\ RegistryIsNewest' /\ PendingIsScheduled'
    BY <2>3, <2>4 DEF StopHitsLiveDispatch, RegistryIsNewest, PendingIsScheduled
  <2>7. ArrivalOrder'
    BY <1>3 DEF ArrivalOrder
  <2>8. NothingLost'
    <3>1. \A m : Dispatched(m)' <=> Dispatched(m)
      BY <1>3 DEF Dispatched
    <3>2. \A m : ~Batched(m) /\ ~Batched(m)'
      BY <2>2, <2>4 DEF Batched
    <3>3. QED
      BY <1>1, <3>1, <3>2 DEF NothingLost
  <2>9. QED
    BY <1>5, <1>6, <2>5, <2>6, <2>7, <2>8
<1>8. CASE registry.id # dispatches[holder].batch
  <2>1. registry' = registry
    BY <1>1, <1>8
  <2>2. BatchState' /\ RegistryIsNewest' /\ ArrivalOrder' /\ NothingLost' /\ PendingIsScheduled'
    BY <1>1, <1>3, <2>1, PhasesDoNotMatter
  <2>3. StopHitsLiveDispatch'
    BY <1>3, <1>8, <2>1 DEF StopHitsLiveDispatch
  <2>4. QED
    BY <1>5, <1>6, <2>2, <2>3
<1>9. QED
  BY <1>7, <1>8

(* StopDispatch and StopPending.                                           *)
LEMMA StopPreserves ==
  ASSUME IInv, StopDispatch \/ StopPending
  PROVE  IInv'
<1> USE DEF IInv
<1>1. CASE StopDispatch
  <2> DEFINE d == registry.event
  <2>1. /\ d \in DOMAIN dispatches
        /\ dispatches' = [dispatches EXCEPT ![d].stopped = TRUE]
        /\ UNCHANGED <<arrived, registry, flushTasks, holder, waiters,
                       discarded>>
    BY <1>1 DEF StopDispatch, StopHitsLiveDispatch
  <2>2. dispatches \in Seq(Dispatch) /\ dispatches[d] \in Dispatch
    BY <2>1 DEF TypeOK
  <2>3. [dispatches[d] EXCEPT !.stopped = TRUE] \in Dispatch
    BY <2>2 DEF Dispatch
  <2>4. dispatches' = [dispatches EXCEPT ![d] = [dispatches[d] EXCEPT !.stopped = TRUE]]
    BY <2>1
  <2>5. /\ dispatches' \in Seq(Dispatch)
        /\ Len(dispatches') = Len(dispatches)
        /\ DOMAIN dispatches' = DOMAIN dispatches
    BY <2>1, <2>2, <2>3, <2>4
  <2>6. \A e \in DOMAIN dispatches :
          /\ dispatches'[e].batch = dispatches[e].batch
          /\ dispatches'[e].texts = dispatches[e].texts
          /\ dispatches'[e].phase = dispatches[e].phase
    <3>1. \A e \in DOMAIN dispatches :
            dispatches'[e] = IF e = d THEN [dispatches[d] EXCEPT !.stopped = TRUE] ELSE dispatches[e]
      BY <2>4
    <3>2. QED
      BY <2>2, <3>1 DEF Dispatch
  <2>7. TypeOK' /\ LockState' /\ StopHitsLiveDispatch'
    <3>1. TypeOK'
      BY <2>1, <2>5 DEF TypeOK
    <3>2. LockState'
      BY <2>1, <2>5, <2>6 DEF LockState, Passed
    <3>3. StopHitsLiveDispatch'
      BY <2>1, <2>5, <2>6 DEF StopHitsLiveDispatch
    <3>4. QED
      BY <3>1, <3>2, <3>3
  <2>8. BatchState' /\ RegistryIsNewest' /\ ArrivalOrder' /\ NothingLost' /\ PendingIsScheduled'
    BY <2>1, <2>5, <2>6, PhasesDoNotMatter
  <2>9. QED
    BY <2>7, <2>8
<1>2. CASE StopPending
  <2>1. /\ Pending /\ registry' = NoBatch
        /\ discarded' = discarded \cup registry.texts
        /\ UNCHANGED <<arrived, flushTasks, dispatches, holder, waiters>>
    BY <1>2 DEF StopPending
  <2>2. registry'.id = 0 /\ registry'.texts = {} /\ registry'.event = 0 /\ ~registry'.armed
    BY <2>1 DEF NoBatch
  <2>3. NoBatch \in Batch
    BY BatchType DEF NoBatch
  <2>4. TypeOK' /\ LockState'
    BY <2>1, <2>3 DEF TypeOK, LockState, Passed, BatchState
  <2>5. ~Pending'
    BY <2>2 DEF Pending
  <2>6. BatchState'
    BY <2>1, <2>2 DEF BatchState, NoBatch
  <2>7. StopHitsLiveDispatch' /\ RegistryIsNewest' /\ ArrivalOrder' /\ PendingIsScheduled'
    BY <2>1, <2>2, <2>5
       DEF StopHitsLiveDispatch, RegistryIsNewest, ArrivalOrder, PendingIsScheduled
  <2>8. NothingLost'
    <3>1. \A m : Dispatched(m)' <=> Dispatched(m)
      BY <2>1 DEF Dispatched
    <3>2. \A m : ~Batched(m)' /\ (Batched(m) <=> m \in registry.texts)
      BY <2>1, <2>5 DEF Batched
    <3>3. QED
      BY <2>1, <3>1, <3>2 DEF NothingLost
  <2>9. QED
    BY <2>4, <2>6, <2>7, <2>8
<1>3. QED
  BY <1>1, <1>2

(* Every step of the dispatcher preserves the inductive invariant.         *)
LEMMA StepIInv == IInv /\ [Next]_vars => IInv'
<1> SUFFICES ASSUME IInv, [Next]_vars PROVE IInv'
  OBVIOUS
<1>1. CASE EnqueueAndArm \/ EnqueueAtCap \/ EnqueueFile
  BY <1>1, EnqueuePreserves
<1>2. CASE TimerFires
  BY <1>2, TimerPreserves
<1>3. CASE FlushTaskRuns
  BY <1>3, FlushTaskPreserves
<1>4. CASE AcquireLock
  BY <1>4, AcquirePreserves
<1>5. CASE StartTurn \/ Apologise
  BY <1>5, TurnPreserves
<1>6. CASE EndTurn
  BY <1>6, EndTurnPreserves
<1>7. CASE StopDispatch \/ StopPending
  BY <1>7, StopPreserves
<1>8. CASE UNCHANGED vars
  BY <1>8 DEF vars, IInv, TypeOK, LockState, Passed, BatchState, Pending,
     StopHitsLiveDispatch, RegistryIsNewest, ArrivalOrder, NothingLost,
     Dispatched, Batched, PendingIsScheduled
<1>9. QED
  BY <1>1, <1>2, <1>3, <1>4, <1>5, <1>6, <1>7, <1>8 DEF Next

(* The inductive invariant holds in every reachable state of _flush_batch, *)
(* _enqueue_for_batch and stop_command.                                    *)
THEOREM Invariance == Spec => []IInv
<1>1. QED
  BY InitIInv, StepIInv, PTL DEF Spec

(* Type correctness of the dispatcher's state.                             *)
THEOREM TypeCorrect == Spec => []TypeOK
<1>1. IInv => TypeOK
  BY DEF IInv
<1>2. QED
  BY <1>1, Invariance, PTL

(* Turns of a topic never overlap and run in the order of their flushes.   *)
THEOREM SerialTurns == Spec => []TurnsInOrder
<1>1. IInv => TurnsInOrder
  <2> SUFFICES ASSUME IInv, NEW c \in DOMAIN dispatches, NEW d \in DOMAIN dispatches,
                      c < d, dispatches[d].phase # "waiting"
               PROVE  dispatches[c].phase = "done"
    BY DEF TurnsInOrder
  <2>1. d <= Passed
    BY DEF IInv, LockState, TypeOK, Passed
  <2>2. c <= Passed /\ c # holder
    BY <2>1 DEF IInv, LockState, TypeOK, Passed
  <2>3. QED
    BY <2>2 DEF IInv, LockState
<1>2. QED
  BY <1>1, Invariance, PTL

(* No message is lost, duplicated in the backlog, or both dropped and run. *)
THEOREM NoMessageLost == Spec => []NothingLost
<1>1. IInv => NothingLost
  BY DEF IInv
<1>2. QED
  BY <1>1, Invariance, PTL

(* A pending batch always has its flush ahead of it.                       *)
THEOREM PendingScheduled == Spec => []PendingIsScheduled
<1>1. IInv => PendingIsScheduled
  BY DEF IInv
<1>2. QED
  BY <1>1, Invariance, PTL

(* Dispatches keep the order of arrival.                                   *)
THEOREM KeepsArrivalOrder == Spec => []ArrivalOrder
<1>1. IInv => ArrivalOrder
  BY DEF IInv
<1>2. QED
  BY <1>1, Invariance, PTL

(* "Stopping current request" is never said about an ended dispatch.       *)
THEOREM StopIsLive == Spec => []StopHitsLiveDispatch
<1>1. IInv => StopHitsLiveDispatch
  BY DEF IInv
<1>2. QED
  BY <1>1, Invariance, PTL

----------------------------------------------------------------------------
(* The refinement: every step is a step of TopicService or a stutter.      *)

Serving ==
    IF holder # 0 /\ dispatches[holder].phase \in {"turn", "apology"}
    THEN dispatches[holder].texts ELSE {}

(* The next-state relation of the service, written with the mapped state.  *)
LEMMA ServiceNext ==
  Service!Next <=>
    \/ /\ arrived' = arrived + 1
       /\ UNCHANGED <<Serving, Served, discarded>>
    \/ \E S \in SUBSET (1..arrived) : Service!Begin(S) \/ Service!Drop(S)
    \/ Service!End
BY DEF Service!Next, Service!Accept, Serving

(* Served depends only on the dispatches that are done.                    *)
LEMMA ServedMember ==
  \A m : m \in Served <=>
    \E d \in DOMAIN dispatches : dispatches[d].phase = "done" /\ m \in dispatches[d].texts
BY DEF Served

(* A turn begins: its messages are the oldest of the backlog, or have been *)
(* served before.                                                          *)
LEMMA BeginStep ==
  ASSUME IInv, holder # 0, dispatches[holder].phase = "typing"
  PROVE  LET S == dispatches[holder].texts IN
         /\ S # {} /\ S \subseteq 1..arrived
         /\ \/ /\ S \subseteq (1..arrived) \ (Served \cup discarded)
               /\ \A m \in ((1..arrived) \ (Served \cup discarded)) \ S, n \in S : n < m
            \/ S \subseteq Served
<1> DEFINE S == dispatches[holder].texts
<1> USE DEF IInv
<1>1. /\ holder \in DOMAIN dispatches /\ holder = Passed
      /\ dispatches \in Seq(Dispatch) /\ Len(dispatches) \in Nat
      /\ DOMAIN dispatches = 1..Len(dispatches)
  BY DEF TypeOK, LockState
<1>2. S # {} /\ S \subseteq 1..arrived
  BY <1>1 DEF BatchState
<1>3. \A d \in DOMAIN dispatches : dispatches[d].phase = "done" <=> d < holder
  BY <1>1 DEF LockState
<1>4. CASE \E c \in DOMAIN dispatches : c < holder /\ dispatches[c].texts = S
  <2>1. PICK c \in DOMAIN dispatches : c < holder /\ dispatches[c].texts = S
    BY <1>4
  <2>2. dispatches[c].phase = "done"
    BY <1>3, <2>1
  <2>3. S \subseteq Served
    BY <2>1, <2>2, ServedMember
  <2>4. QED
    BY <1>2, <2>3
<1>5. CASE \A c \in DOMAIN dispatches : c < holder => dispatches[c].texts # S
  <2>1. \A c \in DOMAIN dispatches : c < holder =>
          \A m \in dispatches[c].texts, n \in S : m < n
    BY <1>1, <1>5 DEF ArrivalOrder
  <2>2. S \cap Served = {}
    <3>1. ASSUME NEW m \in S, m \in Served PROVE FALSE
      <4>1. PICK c \in DOMAIN dispatches : c < holder /\ m \in dispatches[c].texts
        BY <1>3, <3>1, ServedMember
      <4>2. QED
        BY <1>2, <2>1, <4>1
    <3>2. QED
      BY <3>1
  <2>3. S \cap discarded = {}
    BY <1>1, <1>2 DEF NothingLost, Dispatched
  <2>4. ASSUME NEW m \in 1..arrived, m \notin Served, m \notin discarded, m \notin S,
               NEW n \in S
        PROVE  n < m
    <3>1. Batched(m) \/ Dispatched(m)
      BY <2>4 DEF NothingLost
    <3>2. CASE Batched(m)
      BY <1>1, <3>2 DEF Batched, Pending, RegistryIsNewest
    <3>3. CASE Dispatched(m)
      <4>1. PICK d \in DOMAIN dispatches : m \in dispatches[d].texts
        BY <3>3 DEF Dispatched
      <4>2. ~(d < holder)
        BY <1>3, <2>4, <4>1, ServedMember
      <4>3. d # holder
        BY <2>4, <4>1
      <4>4. holder < d
        BY <1>1, <4>2, <4>3
      <4>5. dispatches[d].texts # S
        BY <2>4, <4>1
      <4>6. QED
        BY <1>1, <4>1, <4>4, <4>5 DEF ArrivalOrder
    <3>4. QED
      BY <3>1, <3>2, <3>3
  <2>5. QED
    BY <1>2, <2>2, <2>3, <2>4
<1>6. QED
  BY <1>2, <1>4, <1>5

(* A step that keeps the done dispatches and their texts keeps Served.     *)
LEMMA ServedSame ==
  ASSUME DOMAIN dispatches \subseteq DOMAIN dispatches',
         \A d \in DOMAIN dispatches' :
            /\ d \in DOMAIN dispatches =>
                 /\ dispatches'[d].texts = dispatches[d].texts
                 /\ dispatches'[d].phase = "done" <=> dispatches[d].phase = "done"
            /\ d \notin DOMAIN dispatches => dispatches'[d].phase # "done"
  PROVE  Served' = Served
BY DEF Served

(* A flush leaves the service's view of the topic alone: a dispatch that   *)
(* gets the lock at once is only "typing".                                 *)
LEMMA FlushIsInvisible ==
  ASSUME IInv, NEW b \in Batch, Flush(b)
  PROVE  Serving' = Serving /\ Served' = Served
<1> DEFINE D == Len(dispatches) + 1
           free == holder = 0 /\ waiters = <<>>
           new == [batch |-> b.id, texts |-> b.texts, stopped |-> FALSE,
                   phase |-> IF free THEN "typing" ELSE "waiting"]
<1>1. /\ dispatches \in Seq(Dispatch) /\ Len(dispatches) \in Nat
      /\ holder \in 0..Len(dispatches)
  BY DEF IInv, TypeOK
<1>2. new \in Dispatch
  BY DEF Dispatch, Batch
<1>3. /\ dispatches' = Append(dispatches, new)
      /\ holder' = IF free THEN D ELSE holder
  BY DEF Flush
<1>4. /\ DOMAIN dispatches' = DOMAIN dispatches \cup {D}
      /\ \A d \in DOMAIN dispatches : dispatches'[d] = dispatches[d] /\ d \in 1..Len(dispatches)
      /\ dispatches'[D] = new
  BY <1>1, <1>2, <1>3, AppendFacts
<1>5. Serving' = Serving
  <2>1. CASE free
    BY <1>3, <1>4, <2>1 DEF Serving
  <2>2. CASE ~free /\ holder # 0
    <3>1. holder' = holder /\ holder \in DOMAIN dispatches
      BY <1>1, <1>3, <2>2
    <3>2. QED
      BY <1>4, <2>2, <3>1 DEF Serving
  <2>3. CASE ~free /\ holder = 0
    BY <1>3, <2>3 DEF Serving
  <2>4. QED
    BY <2>1, <2>2, <2>3
<1>6. Served' = Served
  BY <1>1, <1>4, ServedSame
<1>7. QED
  BY <1>5, <1>6

(* Every step is a step of the service or changes nothing of it.           *)
LEMMA StepService == IInv /\ [Next]_vars => [Service!Next]_<<arrived, Serving, Served, discarded>>
<1> SUFFICES ASSUME IInv, [Next]_vars
             PROVE  Service!Next \/ UNCHANGED <<arrived, Serving, Served, discarded>>
  OBVIOUS
<1>1. CASE EnqueueAndArm \/ EnqueueAtCap \/ EnqueueFile
  <2>1. arrived' = arrived + 1 /\ UNCHANGED discarded
    BY <1>1 DEF EnqueueAndArm, EnqueueAtCap, EnqueueFile
  <2>2. Joined(arrived + 1) \in Batch
    BY JoinedBatch
  <2>3. Serving' = Serving /\ Served' = Served
    <3>1. CASE EnqueueAndArm
      BY <3>1 DEF EnqueueAndArm, Serving, Served
    <3>2. CASE EnqueueAtCap \/ EnqueueFile
      BY <2>2, <3>2, FlushIsInvisible DEF EnqueueAtCap, EnqueueFile
    <3>3. QED
      BY <1>1, <3>1, <3>2
  <2>4. QED
    BY <2>1, <2>3, ServiceNext
<1>2. CASE TimerFires
  BY <1>2 DEF TimerFires, Serving, Served
<1>3. CASE FlushTaskRuns
  <2>1. UNCHANGED <<arrived, discarded>>
    BY <1>3 DEF FlushTaskRuns
  <2>2. CASE Flush(registry)
    <3>1. registry \in Batch
      BY DEF IInv, TypeOK
    <3>2. QED
      BY <2>1, <2>2, <3>1, FlushIsInvisible
  <2>3. CASE UNCHANGED <<registry, dispatches, holder, waiters>>
    BY <2>1, <2>3 DEF Serving, Served
  <2>4. QED
    BY <1>3, <2>2, <2>3 DEF FlushTaskRuns
<1>4. CASE AcquireLock
  <2> DEFINE d == Head(waiters)
  <2>1. /\ holder = 0 /\ waiters # <<>> /\ holder' = d
        /\ dispatches' = [dispatches EXCEPT ![d].phase = "typing"]
        /\ UNCHANGED <<arrived, discarded>>
    BY <1>4 DEF AcquireLock
  <2>2. d \in DOMAIN dispatches /\ dispatches[d].phase = "waiting"
    <3>1. /\ waiters \in Seq(1..Len(dispatches)) /\ dispatches \in Seq(Dispatch)
          /\ Len(waiters) \in Nat \ {0} /\ Len(dispatches) \in Nat
          /\ Passed \in Nat
      BY <2>1 DEF IInv, TypeOK, LockState, Passed
    <3>2. d = Passed + 1 /\ d \in DOMAIN dispatches
      BY <3>1 DEF IInv, LockState
    <3>3. QED
      BY <3>1, <3>2 DEF IInv, LockState
  <2>3. /\ DOMAIN dispatches' = DOMAIN dispatches
        /\ \A e \in DOMAIN dispatches :
             /\ dispatches'[e].texts = dispatches[e].texts
             /\ dispatches'[e].phase = IF e = d THEN "typing" ELSE dispatches[e].phase
    BY <2>1, <2>2, PhaseFacts DEF IInv
  <2>4. Served' = Served
    BY <2>2, <2>3, ServedSame
  <2>5. Serving = {} /\ Serving' = {}
    BY <2>1, <2>2, <2>3 DEF Serving
  <2>6. QED
    BY <2>1, <2>4, <2>5
<1>5. CASE StartTurn \/ Apologise
  <2>1. /\ holder # 0 /\ holder' = holder /\ UNCHANGED <<arrived, discarded>>
        /\ dispatches[holder].phase \in {"typing", "turn"}
    BY <1>5 DEF StartTurn, Apologise
  <2>2. PICK p \in {"turn", "apology"} :
          dispatches' = [dispatches EXCEPT ![holder].phase = p]
    BY <1>5 DEF StartTurn, Apologise
  <2>3. holder \in DOMAIN dispatches
    BY <2>1 DEF IInv, TypeOK
  <2>4. /\ DOMAIN dispatches' = DOMAIN dispatches
        /\ \A e \in DOMAIN dispatches :
             /\ dispatches'[e].texts = dispatches[e].texts
             /\ dispatches'[e].phase = IF e = holder THEN p ELSE dispatches[e].phase
    <3>1. p \in {"waiting", "typing", "turn", "apology", "done"}
      OBVIOUS
    <3>2. QED
      BY <2>2, <2>3, <3>1, PhaseFacts DEF IInv
  <2>5. Served' = Served
    BY <2>1, <2>3, <2>4, ServedSame
  <2>6. Serving' = dispatches[holder].texts
    BY <2>1, <2>3, <2>4 DEF Serving
  <2>7. CASE dispatches[holder].phase = "turn"
    <3>1. Serving = dispatches[holder].texts
      BY <2>1, <2>7 DEF Serving
    <3>2. QED
      BY <2>1, <2>5, <2>6, <3>1
  <2>8. CASE dispatches[holder].phase = "typing"
    <3> DEFINE S == dispatches[holder].texts
    <3>1. Serving = {}
      BY <2>8 DEF Serving
    <3>2. /\ S # {} /\ S \subseteq 1..arrived
          /\ \/ /\ S \subseteq (1..arrived) \ (Served \cup discarded)
                /\ \A m \in ((1..arrived) \ (Served \cup discarded)) \ S, n \in S : n < m
             \/ S \subseteq Served
      BY <2>1, <2>8, BeginStep
    <3>3. Service!Begin(S)
      BY <2>1, <2>5, <2>6, <3>1, <3>2 DEF Service!Begin, Service!Backlog, Serving
    <3>4. QED
      BY <3>2, <3>3, ServiceNext
  <2>9. QED
    BY <2>1, <2>7, <2>8
<1>6. CASE EndTurn
  <2>1. /\ holder # 0 /\ holder' = 0 /\ UNCHANGED <<arrived, discarded>>
        /\ dispatches[holder].phase \in {"turn", "apology"}
        /\ dispatches' = [dispatches EXCEPT ![holder].phase = "done"]
    BY <1>6 DEF EndTurn
  <2>2. holder \in DOMAIN dispatches
    BY <2>1 DEF IInv, TypeOK
  <2>3. /\ DOMAIN dispatches' = DOMAIN dispatches
        /\ \A e \in DOMAIN dispatches :
             /\ dispatches'[e].texts = dispatches[e].texts
             /\ dispatches'[e].phase = IF e = holder THEN "done" ELSE dispatches[e].phase
    BY <2>1, <2>2, PhaseFacts DEF IInv
  <2>4. Serving = dispatches[holder].texts /\ Serving' = {}
    BY <2>1 DEF Serving
  <2>5. Serving # {}
    BY <2>2, <2>4 DEF IInv, BatchState
  <2>6. Served' = Served \cup Serving
    <3>1. \A m : m \in Served' <=>
            \E d \in DOMAIN dispatches' : dispatches'[d].phase = "done" /\ m \in dispatches'[d].texts
      BY DEF Served
    <3>2. \A m : m \in Served' <=> m \in Served \/ m \in Serving
      BY <2>2, <2>3, <2>4, <3>1, ServedMember
    <3>3. QED
      BY <3>2
  <2>7. Service!End
    BY <2>1, <2>4, <2>5, <2>6 DEF Service!End, Serving
  <2>8. QED
    BY <2>7, ServiceNext
<1>7. CASE StopDispatch
  <2>1. /\ dispatches' = [dispatches EXCEPT ![registry.event].stopped = TRUE]
        /\ UNCHANGED <<arrived, holder, discarded>>
        /\ registry.event \in DOMAIN dispatches
    BY <1>7 DEF StopDispatch, IInv, StopHitsLiveDispatch
  <2>2. DOMAIN dispatches' = DOMAIN dispatches
    BY <2>1
  <2>3. \A e \in DOMAIN dispatches :
          dispatches'[e].texts = dispatches[e].texts /\ dispatches'[e].phase = dispatches[e].phase
    BY <2>1 DEF IInv, TypeOK, Dispatch
  <2>4. Served' = Served
    BY <2>2, <2>3, ServedSame
  <2>5. holder # 0 => holder \in DOMAIN dispatches
    BY DEF IInv, TypeOK
  <2>6. Serving' = Serving
    BY <2>1, <2>3, <2>5 DEF Serving
  <2>7. QED
    BY <2>1, <2>4, <2>6
<1>8. CASE StopPending
  <2>1. /\ Pending /\ discarded' = discarded \cup registry.texts
        /\ UNCHANGED <<arrived, dispatches, holder>>
    BY <1>8 DEF StopPending
  <2>2. Serving' = Serving /\ Served' = Served
    BY <2>1 DEF Serving, Served
  <2>3. \A m \in registry.texts : m \in 1..arrived /\ m \notin discarded /\ ~Dispatched(m)
    BY <2>1 DEF IInv, BatchState, NothingLost, Batched
  <2>4. holder # 0 => holder \in DOMAIN dispatches
    BY DEF IInv, TypeOK
  <2>5. registry.texts \cap (Serving \cup Served \cup discarded) = {}
    <3>1. \A m \in Served \cup Serving : Dispatched(m)
      BY <2>4, ServedMember DEF Serving, Dispatched
    <3>2. QED
      BY <2>3, <3>1
  <2>6. registry.texts # {}
    BY <2>1 DEF IInv, BatchState, Pending
  <2>7. Service!Drop(registry.texts)
    BY <2>1, <2>2, <2>3, <2>5, <2>6 DEF Service!Drop, Service!Backlog, Serving
  <2>8. QED
    BY <2>3, <2>7, ServiceNext
<1>9. CASE UNCHANGED vars
  BY <1>9 DEF vars, Serving, Served
<1>10. QED
  BY <1>1, <1>2, <1>3, <1>4, <1>5, <1>6, <1>7, <1>8, <1>9 DEF Next

(* The dispatcher implements TopicService: one turn at a time, in order of *)
(* arrival, nothing dropped but by /stop and nothing dropped that runs.    *)
THEOREM Implementation == Spec => ImplementsService
<1>1. Init => Service!Init
  BY DEF Init, Service!Init, Served
<1>2. IInv /\ [Next]_vars => [Service!Next]_(Service!svars)
  BY StepService DEF Service!svars, Serving
<1>3. QED
  BY <1>1, <1>2, Invariance, PTL DEF Spec, ImplementsService, Service!Spec

=============================================================================

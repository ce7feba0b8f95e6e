-------------------------- MODULE Services_proofs --------------------------
(***************************************************************************)
(* Proofs about what runs in the background: the process with its watchdog *)
(* and the cluster probe (BotProcess, ClusterProbe), for any kubeconfigs,  *)
(* any thresholds of the watchdog and any number of messages; and the      *)
(* snapshot of injectable facts that a thread keeps (FactCache), for any   *)
(* topics, texts, similarities and reading threads.  The two are separate  *)
(* specifications.                                                         *)
(*                                                                         *)
(* OrphansHaveACause says nothing of the id the running probe remembers,   *)
(* but a probe that is stopped leaves the message to whoever finds the     *)
(* stored id.  PrevIsStored adds that the two ids are the same message, or *)
(* something failed for the remembered one.                                *)
(*                                                                         *)
(* CachedRunsAreWhole speaks of the cache only.  It is kept because every  *)
(* thread already holds whole runs (ThreadState) while the writer works,   *)
(* because what the writer adds belongs to a run not yet recorded          *)
(* (WriterState), and because a run leaves the store as a whole            *)
(* (JournalState), so that the second query finds all of it or nothing.    *)
(***************************************************************************)
EXTENDS BotProcess, FactCache, WellFoundedInduction, SequenceTheorems, TLAPS

FlagTypes == {built, polling, deaf, alive, executor, signalled} \subseteq BOOLEAN

PlaceTypes ==
    /\ main \in {"init", "starting", "loop", "restarting", "final", "down"}
    /\ stop \in [Caller -> {"uncalled", "application", "services", "probe",
                            "executor", "ended"}]

WatchdogState ==
    /\ idle \in 0 .. ExitAfter
    /\ restarts \in 0 .. idle
    /\ hits \in 0 .. WedgeThreshold - 1
    /\ main \in {"init", "starting", "down"} => restarts = 0
    /\ main \in {"loop", "restarting"} => idle < ExitAfter

DeleteState == task = "delete" => flying # 0 /\ prev # 0

PrevIsStored == task # "none" => prev \in {0, stored} \cup blamed

ProbeInv ==
    /\ ProbeTypeOK
    /\ DeleteState
    /\ PrevIsStored
    /\ OrphansHaveACause

ProcessInv ==
    /\ FlagTypes
    /\ PlaceTypes
    /\ WatchdogState
    /\ ProbeInv

----------------------------------------------------------------------------
(* The probe *)

LEMMA ProbeInitInv == ProbeInit => ProbeInv
BY DEF ProbeInit, ProbeInv, ProbeTypeOK, DeleteState, PrevIsStored,
       OrphansHaveACause, Tracked

LEMMA ProbeUnchanged ==
    ASSUME ProbeInv, UNCHANGED probeVars
    PROVE  ProbeInv'
BY DEF probeVars, ProbeInv, ProbeTypeOK, DeleteState, PrevIsStored,
       OrphansHaveACause, Tracked

LEMMA ProbeStartInv ==
    ASSUME ProbeInv, ProbeStart
    PROVE  ProbeInv'
BY DEF ProbeStart, Ids, ProbeInv, ProbeTypeOK, DeleteState, PrevIsStored,
       OrphansHaveACause, Tracked

(* Whether the task is cancelled or lost with its process.                 *)
LEMMA ProbeEndsInv ==
    ASSUME ProbeInv, Cancel \/ Vanish
    PROVE  ProbeInv'
<1> USE DEF ProbeInv
<1>1. /\ task' = "none" /\ flying' = 0 /\ kubectls' = {}
      /\ prev' \in {0, prev} /\ chat' \subseteq chat
      /\ blamed' = blamed \cup Ids({flying})
      /\ UNCHANGED <<stored, posted>>
  BY DEF Cancel, Vanish
<1>2. ProbeTypeOK' /\ DeleteState' /\ PrevIsStored'
  BY <1>1 DEF ProbeTypeOK, DeleteState, PrevIsStored, Ids
<1>3. task # "none"
        => \A m \in chat : m \in {prev, flying} \cup blamed
  BY DEF OrphansHaveACause, Tracked
<1>4. ASSUME NEW m \in chat', m # stored
      PROVE  m \in blamed'
  <2>1. m \in chat /\ m # 0
    BY <1>1, <1>4 DEF ProbeTypeOK, Message
  <2>2. CASE task = "none"
    BY <1>1, <1>4, <2>1, <2>2 DEF OrphansHaveACause, Tracked
  <2>3. CASE task # "none"
    BY <1>1, <1>3, <1>4, <2>1, <2>3 DEF PrevIsStored, Ids
  <2> QED  BY <2>2, <2>3
<1> QED  BY <1>1, <1>2, <1>4 DEF OrphansHaveACause, Tracked

LEMMA ProbeStepInv ==
    ASSUME ProbeInv, ProbeStep
    PROVE  ProbeInv'
<1> USE DEF ProbeInv, ProbeTypeOK, DeleteState, PrevIsStored,
            OrphansHaveACause, Tracked
<1>1. CASE Tick
  BY <1>1, ProbeAssumption DEF Tick
<1>2. ASSUME NEW c \in Clusters, ProbeOneEnds(c)
      PROVE  ProbeInv'
  BY <1>2 DEF ProbeOneEnds
<1>3. CASE SendHtml
  BY <1>3 DEF SendHtml
<1>4. CASE Deliver
  <2>1. posted + 1 \in Message /\ 0 \notin Message
    BY <1>4, ProbeAssumption DEF Deliver, Message
  <2> QED  BY <1>4, <2>1 DEF Deliver
<1>5. CASE SendRaises
  BY <1>5 DEF SendRaises, Ids
<1>6. CASE SendReturns
  BY <1>6 DEF SendReturns, Remember, Message
<1>7. CASE DeleteEnds
  BY <1>7 DEF DeleteEnds, Remember
<1> QED  BY <1>1, <1>2, <1>3, <1>4, <1>5, <1>6, <1>7 DEF ProbeStep

----------------------------------------------------------------------------
(* The process around it *)

LEMMA InitProcessInv == Init => ProcessInv
<1> SUFFICES ASSUME Init PROVE ProcessInv
  OBVIOUS
<1>1. FlagTypes
  BY Zenon DEF Init, FlagTypes
<1>2. PlaceTypes
  BY Zenon DEF Init, PlaceTypes
<1>3. WatchdogState
  BY ProcessAssumption DEF Init, WatchdogState
<1> QED  BY <1>1, <1>2, <1>3, ProbeInitInv DEF Init, ProcessInv

(* The end of the process, whatever ends it.                               *)
LEMMA DiesInv ==
    ASSUME ProcessInv, Dies
    PROVE  ProcessInv'
<1>1. ProbeInv'
  BY ProbeEndsInv DEF Dies, ProcessInv
<1>2. FlagTypes'
  BY Zenon DEF Dies, ProcessInv, FlagTypes
<1>3. PlaceTypes'
  BY Zenon DEF Dies, ProcessInv, PlaceTypes
<1>4. WatchdogState'
  BY ProcessAssumption DEF Dies, WatchdogState
<1> QED  BY <1>1, <1>2, <1>3, <1>4 DEF ProcessInv

LEMMA StopBeginsInv ==
    ASSUME ProcessInv, NEW c \in Caller, StopBegins(c), UNCHANGED main,
           signalled' \in BOOLEAN
    PROVE  ProcessInv'
<1>1. ProbeInv'
  BY ProbeUnchanged DEF StopBegins, ProcessInv
<1> QED
  BY <1>1 DEF StopBegins, ProcessInv, FlagTypes, PlaceTypes, WatchdogState

LEMMA StopStepInv ==
    ASSUME ProcessInv, NEW c \in Caller, StopStep(c)
    PROVE  ProcessInv'
<1>1. ProbeInv'
  <2>1. CASE StopProbe(c)
    BY <2>1, ProbeUnchanged, ProbeEndsInv DEF StopProbe, ProcessInv
  <2> QED
    BY <2>1, ProbeUnchanged
       DEF StopStep, StopApplication, StopServices, StopExecutor, ProcessInv
<1> QED
  BY <1>1
     DEF StopStep, StopApplication, StopServices, StopProbe, StopExecutor,
         ProcessInv, FlagTypes, PlaceTypes, WatchdogState

LEMMA MainStepInv ==
    ASSUME ProcessInv, MainStep
    PROVE  ProcessInv'
<1> USE DEF ProcessInv
<1>1. CASE Initialize
  <2>1. ProbeInv'
    BY <1>1, ProbeUnchanged DEF Initialize
  <2> QED  BY <1>1, <2>1 DEF Initialize, FlagTypes, PlaceTypes, WatchdogState
<1>2. CASE Start
  <2>1. ProbeInv'
    BY <1>2, ProbeStartInv DEF Start
  <2> QED
    BY <1>2, <2>1, ProcessAssumption DEF Start, FlagTypes, PlaceTypes, WatchdogState
<1>3. CASE StartFails
  <2>1. ProbeInv'
    BY <1>3, ProbeUnchanged DEF StartFails
  <2> QED  BY <1>3, <2>1 DEF StartFails, FlagTypes, PlaceTypes, WatchdogState
<1>4. CASE Check
  <2>1. ProbeInv'
    BY <1>4, ProbeUnchanged DEF Check
  <2>2. FlagTypes'
    <3>1. polling' \in {polling, FALSE}
      BY <1>4 DEF Check
    <3> QED  BY <1>4, <3>1, Zenon DEF Check, FlagTypes
  <2>3. PlaceTypes'
    BY <1>4 DEF Check, PlaceTypes
  <2>4. WatchdogState'
    BY <1>4, ProcessAssumption DEF Check, WatchdogState
  <2> QED  BY <2>1, <2>2, <2>3, <2>4
<1>5. CASE RestartPolling
  <2>1. ProbeInv'
    BY <1>5, ProbeUnchanged DEF RestartPolling
  <2> QED  BY <1>5, <2>1 DEF RestartPolling, FlagTypes, PlaceTypes, WatchdogState
<1>6. CASE Finally
  BY <1>6, StopBeginsInv DEF Finally, FlagTypes, Caller
<1>7. CASE Exit
  BY <1>7, DiesInv DEF Exit
<1> QED  BY <1>1, <1>2, <1>3, <1>4, <1>5, <1>6, <1>7 DEF MainStep

LEMMA PollingInv ==
    ASSUME ProcessInv, Update \/ LateUpdate \/ GoDeaf \/ PoolError
    PROVE  ProcessInv'
<1> USE DEF ProcessInv
<1>1. CASE Update \/ LateUpdate \/ GoDeaf
  <2>1. ProbeInv'
    BY <1>1, ProbeUnchanged DEF Update, LateUpdate, GoDeaf
  <2>2. FlagTypes'
    BY <1>1, Zenon DEF Update, LateUpdate, GoDeaf, FlagTypes
  <2>3. PlaceTypes'
    BY <1>1 DEF Update, LateUpdate, GoDeaf, PlaceTypes
  <2>4. WatchdogState'
    BY <1>1, ProcessAssumption DEF Update, LateUpdate, GoDeaf, WatchdogState
  <2> QED  BY <2>1, <2>2, <2>3, <2>4
<1>2. CASE PoolError
  <2>1. PICK recent \in 0 .. hits :
            IF recent + 1 >= WedgeThreshold
            THEN Dies
            ELSE /\ hits' = recent + 1
                 /\ UNCHANGED <<main, stop, built, polling, deaf, idle,
                                restarts, alive, executor, signalled, probeVars>>
    BY <1>2 DEF PoolError
  <2>2. CASE recent + 1 >= WedgeThreshold
    BY <2>1, <2>2, DiesInv
  <2>3. CASE ~(recent + 1 >= WedgeThreshold)
    <3>1. ProbeInv'
      BY <2>1, <2>3, ProbeUnchanged
    <3>2. hits' \in 0 .. WedgeThreshold - 1
      BY <2>1, <2>3, ProcessAssumption DEF WatchdogState
    <3> QED  BY <2>1, <2>3, <3>1, <3>2 DEF FlagTypes, PlaceTypes, WatchdogState
  <2> QED  BY <2>2, <2>3
<1> QED  BY <1>1, <1>2

LEMMA ProcessNextInv ==
    ASSUME ProcessInv, Next
    PROVE  ProcessInv'
<1> USE DEF ProcessInv
<1>1. CASE MainStep
  BY <1>1, MainStepInv
<1>2. ASSUME NEW c \in Caller, StopStep(c)
      PROVE  ProcessInv'
  BY <1>2, StopStepInv
<1>3. CASE Update \/ LateUpdate \/ GoDeaf \/ PoolError
  BY <1>3, PollingInv
<1>4. CASE CertificateError \/ Crash
  BY <1>4, DiesInv DEF CertificateError, Crash
<1>5. CASE Signal
  BY <1>5, StopBeginsInv DEF Signal, Caller
<1>6. CASE Boot
  <2>1. ProbeInv'
    BY <1>6, ProbeUnchanged DEF Boot
  <2> QED  BY <1>6, <2>1 DEF Boot, FlagTypes, PlaceTypes, WatchdogState
<1>7. CASE ProbeStep /\ main # "down" /\ UNCHANGED processVars
  <2>1. ProbeInv'
    BY <1>7, ProbeStepInv
  <2> QED
    BY <1>7, <2>1 DEF processVars, FlagTypes, PlaceTypes, WatchdogState
<1> QED  BY <1>1, <1>2, <1>3, <1>4, <1>5, <1>6, <1>7 DEF Next

(* The inductive invariant of the process and its probe.                   *)
THEOREM ProcessInvariance == Spec => []ProcessInv
<1>1. Init => ProcessInv
  BY InitProcessInv
<1>2. ProcessInv /\ [Next]_vars => ProcessInv'
  <2>1. ASSUME ProcessInv, UNCHANGED vars
        PROVE  ProcessInv'
    <3>1. ProbeInv'
      BY <2>1, ProbeUnchanged DEF vars, ProcessInv
    <3> QED
      BY <2>1, <3>1
         DEF vars, processVars, ProcessInv, FlagTypes, PlaceTypes, WatchdogState
  <2> QED  BY <2>1, ProcessNextInv
<1> QED  BY <1>1, <1>2, PTL DEF Spec

(* The state of the process and of its probe has its types: the watchdog's *)
(* counters stay within its thresholds (main.py).                          *)
THEOREM ProcessTypeCorrect == Spec => []TypeOK
<1>1. WatchdogState => /\ idle \in 0 .. ExitAfter
                       /\ restarts \in 0 .. ExitAfter
                       /\ hits \in 0 .. WedgeThreshold - 1
  BY ProcessAssumption DEF WatchdogState
<1>2. ProcessInv => TypeOK
  BY <1>1, Zenon DEF ProcessInv, ProbeInv, TypeOK, FlagTypes, PlaceTypes
<1> QED  BY <1>2, ProcessInvariance, PTL

(* Across stops, crashes and restarts, a status message stays for good     *)
(* only if something failed for that very message (_send_and_delete_old,   *)
(* start).                                                                 *)
THEOREM OrphansExplained == Spec => []OrphansHaveACause
<1>1. ProcessInv => OrphansHaveACause
  BY DEF ProcessInv, ProbeInv
<1> QED  BY <1>1, ProcessInvariance, PTL

----------------------------------------------------------------------------
(* The injectable facts *)

(* Of a set S of facts: its runs are recorded, and whole but for           *)
(* duplicates.                                                             *)
WholeRuns(S, log, done) ==
    \A f \in S, g \in DOMAIN log :
        /\ log[f].run \in done
        /\ log[g].run = log[f].run =>
              g \in S \/ \E h \in S :
                  h > g /\ {log[g].text, log[h].text} \in SimilarTexts

(* A run is retired as a whole, and written behind no other run.           *)
JournalState ==
    \A f, g \in Fact : journal[f].run = journal[g].run => (f \in live <=> g \in live)

WriterState ==
    /\ todo # {} => writing
    /\ writing => Len(runs) # 0 /\ Len(runs) \notin recorded
    /\ writing => \A f \in Fact : journal[f].run = Len(runs) => f \in live
    /\ \A k \in Topics : latest[k] # 0 => latest[k] \in recorded

ThreadState ==
    \A p \in Threads : ids[p] \subseteq recorded /\ WholeRuns(snapshot[p], journal, recorded)

CacheInv ==
    /\ CacheTypeOK
    /\ JournalState
    /\ WriterState
    /\ ThreadState
    /\ CachedRunsAreWhole

----------------------------------------------------------------------------
(* Deduplication *)

Smaller == {ss \in Nat \X Nat : ss[1] < ss[2]}

(* Induction, with a set in place of the property: the library's theorem   *)
(* has an operator for it.                                                 *)
LEMMA SetInduction ==
    ASSUME NEW S, 0 \in S, \A n \in Nat : n \in S => n + 1 \in S
    PROVE  Nat \subseteq S
<1> SUFFICES ASSUME Nat \ S # {} PROVE FALSE
  OBVIOUS
<1>1. IsWellFoundedOn(Smaller, Nat)
  <2>1. OpToRel(<, Nat) = Smaller
    BY SMT DEF OpToRel, Smaller
  <2> QED  BY <2>1, NatLessThanWellFounded
<1>2. PICK m \in Nat \ S : \A n \in Nat \ S : <<n, m>> \notin Smaller
  <2> DEFINE T == Nat \ S
  <2>1. T \subseteq Nat /\ T # {}
    OBVIOUS
  <2> HIDE DEF T
  <2>2. \E m \in T : \A n \in T : <<n, m>> \notin Smaller
    BY <1>1, <2>1, WFMin
  <2> QED  BY <2>2 DEF T
<1>3. m # 0 /\ m - 1 \in Nat /\ <<m - 1, m>> \in Smaller
  BY <1>2 DEF Smaller
<1>4. m - 1 \in S
  BY <1>2, <1>3
<1>5. (m - 1) + 1 = m
  BY <1>2
<1> QED  BY <1>2, <1>3, <1>4, <1>5

(* The greedy choice that Dedup names exists: it is made for the facts from *)
(* n on, whatever n is.                                                    *)
Choice(F, V, n) ==
    {kept \in SUBSET F :
        \A f \in F : f >= n =>
            (f \in kept <=> ~NearDuplicate(f, {g \in kept : g > f}, V))}

LEMMA ChoiceExists ==
    ASSUME NEW F \in SUBSET Fact, NEW V, journal \in Seq([text : Texts, run : Int])
    PROVE  Choice(F, V, 1) # {}
<1> DEFINE L == Len(journal)
           Good == {d \in Nat : Choice(F, V, L + 1 - d) # {}}
<1>1. L \in Nat /\ \A f \in F : f \in 1 .. L
  BY DEF Fact
<1>2. Choice(F, V, L + 1) # {}
  <2>1. F \in Choice(F, V, L + 1)
    BY <1>1 DEF Choice
  <2> QED  BY <2>1
<1>3. ASSUME NEW d \in Nat, Choice(F, V, L + 1 - d) # {}
      PROVE  Choice(F, V, L + 1 - (d + 1)) # {}
  <2> DEFINE n == L - d
  <2>1. PICK kept \in SUBSET F :
            \A f \in F : f >= n + 1 =>
                (f \in kept <=> ~NearDuplicate(f, {g \in kept : g > f}, V))
    <3>1. L + 1 - d = n + 1
      BY <1>1
    <3>2. PICK kept \in Choice(F, V, n + 1) : TRUE
      BY <1>3, <3>1
    <3> QED  BY <3>2 DEF Choice
  <2> DEFINE best == IF n \in F /\ ~NearDuplicate(n, {g \in kept : g > n}, V)
                     THEN kept \cup {n} ELSE kept \ {n}
  <2>2. best \in SUBSET F /\ n \in Int
    BY <1>1
  <2>3. \A f \in F : f >= n => {g \in best : g > f} = {g \in kept : g > f}
    BY <1>1, <2>2
  <2>4. ASSUME NEW f \in F, f >= n
        PROVE  f \in best <=> ~NearDuplicate(f, {g \in best : g > f}, V)
    <3>1. {g \in best : g > f} = {g \in kept : g > f}
      BY <2>3, <2>4
    <3>2. CASE f = n
      BY <3>1, <3>2
    <3>3. CASE f # n
      <4>1. f >= n + 1
        BY <1>1, <2>2, <2>4, <3>3
      <4>2. f \in best <=> f \in kept
        BY <3>3
      <4> QED  BY <2>1, <3>1, <4>1, <4>2
    <3> QED  BY <3>2, <3>3
  <2>5. best \in Choice(F, V, n)
    BY <2>2, <2>4 DEF Choice
  <2>6. n = L + 1 - (d + 1)
    BY <1>1
  <2> QED  BY <2>5, <2>6
<1>4. Nat \subseteq Good
  <2>1. 0 \in Good
    <3>1. L + 1 - 0 = L + 1
      BY <1>1
    <3> QED  BY <1>2, <3>1
  <2>2. \A d \in Nat : d \in Good => d + 1 \in Good
    BY <1>3
  <2> HIDE DEF Good
  <2> QED  BY <2>1, <2>2, SetInduction
<1>5. L \in Nat /\ L + 1 - L = 1
  BY <1>1
<1> QED  BY <1>4, <1>5

(* Whatever the facts, the vectors and the similarities (which need not be *)
(* transitive), deduplication leaves a fact out only for a newer similar   *)
(* one that it keeps, and keeps no two similar ones that have vectors      *)
(* (_dedup_facts_by_cosine).                                               *)
THEOREM DedupChosen ==
    ASSUME NEW F \in SUBSET Fact, NEW V, journal \in Seq([text : Texts, run : Int])
    PROVE  /\ Dedup(F, V) \subseteq F
           /\ \A f \in F \ Dedup(F, V) : \E g \in Dedup(F, V) :
                g > f /\ {journal[f].text, journal[g].text} \in SimilarTexts
           /\ \A f, g \in Dedup(F, V) \cap V :
                g > f => {journal[f].text, journal[g].text} \notin SimilarTexts
<1>1. \A f \in F : f >= 1
  BY DEF Fact
<1>2. \E kept \in SUBSET F : \A f \in F :
          f \in kept <=> ~NearDuplicate(f, {g \in kept : g > f}, V)
  <2>1. PICK kept \in Choice(F, V, 1) : TRUE
    BY ChoiceExists
  <2> QED  BY <1>1, <2>1 DEF Choice
<1>3. /\ Dedup(F, V) \in SUBSET F
      /\ \A f \in F :
           f \in Dedup(F, V)
             <=> ~NearDuplicate(f, {g \in Dedup(F, V) : g > f}, V)
  BY <1>2 DEF Dedup
<1> QED  BY <1>3 DEF NearDuplicate

LEMMA OutcomeChosen ==
    ASSUME NEW F \in SUBSET Fact, NEW S \in DedupOutcomes(F),
           journal \in Seq([text : Texts, run : Int])
    PROVE  /\ S \subseteq F
           /\ \A f \in F \ S : \E g \in S :
                g > f /\ {journal[f].text, journal[g].text} \in SimilarTexts
<1>1. S = F \/ \E V \in SUBSET F : S = Dedup(F, V)
  BY DEF DedupOutcomes
<1>2. CASE S = F
  BY <1>2
<1>3. ASSUME NEW V \in SUBSET F, S = Dedup(F, V)
      PROVE  /\ S \subseteq F
             /\ \A f \in F \ S : \E g \in S :
                  g > f /\ {journal[f].text, journal[g].text} \in SimilarTexts
  BY <1>3, DedupChosen
<1> QED  BY <1>1, <1>2, <1>3

LEMMA JournalType ==
    ASSUME CacheTypeOK
    PROVE  /\ journal \in Seq([text : Texts, run : Int])
           /\ Fact = 1 .. Len(journal) /\ Len(journal) \in Nat /\ Len(runs) \in Nat
           /\ \A f \in Fact : /\ journal[f].text \in Texts
                              /\ journal[f].run \in 1 .. Len(runs)
<1>1. /\ journal \in Seq([text : Texts, run : 1 .. Len(runs)])
      /\ Len(runs) \in Nat
  BY DEF CacheTypeOK
<1>2. [text : Texts, run : 1 .. Len(runs)] \subseteq [text : Texts, run : Int]
  BY <1>1
<1>3. journal \in Seq([text : Texts, run : Int])
  <2> DEFINE A == [text : Texts, run : 1 .. Len(runs)]
             B == [text : Texts, run : Int]
  <2>1. journal \in Seq(A) /\ A \subseteq B
    BY <1>1, <1>2
  <2> HIDE DEF A, B
  <2>2. journal \in Seq(B)
    BY <2>1, SeqMonotonic
  <2> QED  BY <2>2 DEF B
<1>4. \A f \in Fact : journal[f] \in [text : Texts, run : 1 .. Len(runs)]
  <2> DEFINE A == [text : Texts, run : 1 .. Len(runs)]
  <2>1. journal \in Seq(A)
    BY <1>1
  <2> HIDE DEF A
  <2>2. \A f \in Fact : journal[f] \in A
    BY <2>1 DEF Fact
  <2> QED  BY <2>2 DEF A
<1> QED  BY <1>1, <1>3, <1>4 DEF Fact

(* What a thread computes from its two queries.                            *)
LEMMA RebuildIsWhole ==
    ASSUME CacheTypeOK, JournalState,
           NEW R \in SUBSET recorded, NEW S,
           S \in DedupOutcomes(Injectable(R)) \/ S \in DedupOutcomes({})
    PROVE  S \subseteq Fact /\ WholeRuns(S, journal, recorded)
<1>1. CASE S \in DedupOutcomes({})
  <2>1. S = {}
    <3> DEFINE E == {}
    <3>1. E \in SUBSET Fact /\ S \in DedupOutcomes(E)
      BY <1>1
    <3> HIDE DEF E
    <3>2. S \subseteq E
      BY <3>1, JournalType, OutcomeChosen
    <3> QED  BY <3>2 DEF E
  <2> QED  BY <2>1 DEF WholeRuns, Fact
<1>2. CASE S \in DedupOutcomes(Injectable(R))
  <2> DEFINE F == Injectable(R)
  <2>1. F \subseteq Fact /\ \A f \in F : f \in live /\ journal[f].run \in recorded
    BY DEF Injectable, CacheTypeOK
  <2>2. /\ S \subseteq F
        /\ \A f \in F \ S : \E g \in S :
             g > f /\ {journal[f].text, journal[g].text} \in SimilarTexts
    BY <1>2, <2>1, JournalType, OutcomeChosen
  <2>3. ASSUME NEW f \in S, NEW g \in Fact, journal[g].run = journal[f].run
        PROVE  g \in F
    BY <2>1, <2>2, <2>3 DEF JournalState, Injectable
  <2> QED  BY <2>1, <2>2, <2>3 DEF WholeRuns, Fact
<1> QED  BY <1>1, <1>2

(* Runs stay whole while others are recorded or written.                   *)
LEMMA WholeRunsStay ==
    ASSUME CacheTypeOK, NEW S \in SUBSET Fact, WholeRuns(S, journal, recorded),
           recorded \subseteq recorded',
           Fact \subseteq Fact', \A f \in Fact : journal'[f] = journal[f],
           \A g \in Fact' \ Fact : journal'[g].run \notin recorded
    PROVE  WholeRuns(S, journal', recorded')
<1> SUFFICES ASSUME NEW f \in S, NEW g \in Fact'
             PROVE  /\ journal'[f].run \in recorded'
                    /\ journal'[g].run = journal'[f].run =>
                          g \in S \/ \E h \in S :
                             h > g /\ {journal'[g].text, journal'[h].text} \in SimilarTexts
  BY DEF WholeRuns, Fact
<1>1. journal'[f] = journal[f] /\ journal[f].run \in recorded
  BY DEF WholeRuns, Fact
<1>2. CASE g \in Fact
  BY <1>1, <1>2 DEF WholeRuns, Fact
<1>3. CASE g \notin Fact
  BY <1>1, <1>3
<1> QED  BY <1>1, <1>2, <1>3

LEMMA CacheInitInv == CacheInit => CacheInv
<1> SUFFICES ASSUME CacheInit PROVE CacheInv
  OBVIOUS
<1>1. Fact = {}
  BY DEF CacheInit, Fact
<1>2. CacheTypeOK
  <2>1. mongo \in BOOLEAN /\ poked \in BOOLEAN /\ writing \in BOOLEAN
    BY Zenon DEF CacheInit
  <2>2. /\ Len(runs) = 0 /\ runs \in Seq(Topics)
        /\ journal \in Seq([text : Texts, run : 1 .. Len(runs)])
        /\ latest \in [Topics -> 0 .. Len(runs)]
    BY DEF CacheInit
  <2>3. /\ at \in [Threads -> {"idle", "facts", "publish"}]
        /\ ids \in [Threads -> SUBSET (1 .. Len(runs))]
        /\ snapshot \in [Threads -> SUBSET Fact]
    BY DEF CacheInit
  <2> QED  BY <2>1, <2>2, <2>3 DEF CacheInit, CacheTypeOK
<1>3. JournalState /\ WriterState /\ CachedRunsAreWhole
  BY <1>1 DEF CacheInit, JournalState, WriterState, CachedRunsAreWhole
<1>4. ThreadState
  BY <1>1 DEF CacheInit, ThreadState, WholeRuns
<1> QED  BY <1>2, <1>3, <1>4 DEF CacheInv

----------------------------------------------------------------------------
(* The steps of the store leave the threads and the cache alone.           *)
LEMMA StoreStep ==
    ASSUME CacheInv, CacheTypeOK',
           UNCHANGED <<cache, ids, snapshot>>,
           recorded \subseteq recorded',
           Fact \subseteq Fact', \A f \in Fact : journal'[f] = journal[f],
           \A g \in Fact' \ Fact : journal'[g].run \notin recorded
    PROVE  ThreadState' /\ CachedRunsAreWhole'
<1>1. cache \subseteq Fact /\ WholeRuns(cache, journal, recorded)
  BY DEF CacheInv, CacheTypeOK, CachedRunsAreWhole, WholeRuns, Fact
<1>2. CachedRunsAreWhole'
  <2>1. WholeRuns(cache, journal', recorded')
    BY <1>1, WholeRunsStay DEF CacheInv, WholeRuns
  <2> QED  BY <2>1 DEF CachedRunsAreWhole, WholeRuns, Fact
<1>3. ASSUME NEW p \in Threads
      PROVE  (ids[p] \subseteq recorded /\ WholeRuns(snapshot[p], journal, recorded))'
  <2>1. snapshot[p] \subseteq Fact /\ WholeRuns(snapshot[p], journal, recorded)
    BY DEF CacheInv, CacheTypeOK, ThreadState
  <2>2. ids[p] \subseteq recorded
    BY DEF CacheInv, ThreadState
  <2> QED  BY <2>1, <2>2, WholeRunsStay DEF CacheInv, WholeRuns
<1> QED  BY <1>2, <1>3 DEF ThreadState

LEMMA RetireInv ==
    ASSUME CacheInv, NEW k \in Topics, NEW S \in SUBSET Texts, Retire(k, S)
    PROVE  CacheInv'
<1> USE DEF CacheInv
<1>1. /\ Len(runs) \in Nat /\ Len(runs') = Len(runs) + 1
      /\ runs' \in Seq(Topics)
      /\ \A n \in 1 .. Len(runs) : runs'[n] = runs[n]
      /\ \A f \in Fact : journal[f].run \in 1 .. Len(runs)
  BY JournalType DEF Retire, CacheTypeOK
<1>2. UNCHANGED <<journal, Fact>> /\ live' \subseteq live
  BY DEF Retire, Fact
<1>3. CacheTypeOK'
  <2>1. journal' \in Seq([text : Texts, run : 1 .. Len(runs')])
    <3> DEFINE A == [text : Texts, run : 1 .. Len(runs)]
               B == [text : Texts, run : 1 .. Len(runs')]
    <3>1. journal \in Seq(A) /\ A \subseteq B
      BY <1>1 DEF CacheTypeOK
    <3> HIDE DEF A, B
    <3>2. journal \in Seq(B)
      BY <3>1, SeqMonotonic
    <3> QED  BY <1>2, <3>2 DEF B
  <2>2. /\ latest' \in [Topics -> 0 .. Len(runs')]
        /\ recorded' \subseteq 1 .. Len(runs')
        /\ ids' \in [Threads -> SUBSET (1 .. Len(runs'))]
    BY <1>1 DEF Retire, CacheTypeOK
  <2>3. {mongo', poked', writing'} \subseteq BOOLEAN
    BY Zenon DEF Retire, CacheTypeOK
  <2> QED  BY <1>1, <1>2, <2>1, <2>2, <2>3 DEF Retire, CacheTypeOK
<1>4. JournalState'
  BY <1>1, <1>2 DEF Retire, JournalState
<1>5. WriterState'
  BY <1>1, <1>2 DEF Retire, WriterState, CacheTypeOK
<1>6. ThreadState' /\ CachedRunsAreWhole'
  BY <1>2, <1>3, StoreStep DEF Retire
<1> QED  BY <1>3, <1>4, <1>5, <1>6

LEMMA AddInv ==
    ASSUME CacheInv, NEW t \in Texts, Add(t)
    PROVE  CacheInv'
<1> USE DEF CacheInv
<1> DEFINE n == Len(journal) + 1
           new == [text |-> t, run |-> Len(runs)]
<1>1. writing /\ Len(runs) \in 1 .. Len(runs) /\ Len(runs) \notin recorded
  BY JournalType DEF Add, WriterState
<1>2. Len(journal) \in Nat /\ Fact = 1 .. Len(journal) /\ n \notin Fact
  BY JournalType
<1>3. {mongo', poked', writing'} \subseteq BOOLEAN
  BY Zenon DEF Add, CacheTypeOK
<1>4. CASE UNCHANGED <<journal, live, embedded>>
  <2>1. CacheTypeOK'
    BY <1>3, <1>4 DEF Add, CacheTypeOK, Fact
  <2>2. JournalState' /\ WriterState'
    BY <1>4 DEF Add, JournalState, WriterState, Fact
  <2>3. UNCHANGED Fact
    BY <1>4 DEF Fact
  <2> QED  BY <1>4, <2>1, <2>2, <2>3, StoreStep DEF Add
<1>5. CASE /\ ~Taken(t)
           /\ journal' = Append(journal, new) /\ live' = live \cup {n}
           /\ embedded' \in {embedded, embedded \cup {n}}
  <2>1. /\ journal' \in Seq([text : Texts, run : 1 .. Len(runs)])
        /\ Len(journal') = n
        /\ \A f \in Fact : journal'[f] = journal[f]
        /\ journal'[n] = new
    <3> DEFINE A == [text : Texts, run : 1 .. Len(runs)]
    <3>1. journal \in Seq(A) /\ new \in A
      BY <1>1 DEF CacheTypeOK
    <3> HIDE DEF A, new
    <3>2. /\ Append(journal, new) \in Seq(A)
          /\ Len(Append(journal, new)) = n
          /\ \A f \in 1 .. Len(journal) : Append(journal, new)[f] = journal[f]
          /\ Append(journal, new)[n] = new
      BY <3>1, AppendProperties
    <3> QED  BY <1>2, <1>5, <3>2 DEF A
  <2>2. Fact' = Fact \cup {n}
    BY <1>2, <2>1 DEF Fact
  <2>3. CacheTypeOK'
    <3>1. \A f, g \in live' : journal'[f].text = journal'[g].text => f = g
      BY <1>2, <1>5, <2>1 DEF CacheTypeOK, Taken
    <3>2. journal' \in Seq([text : Texts, run : 1 .. Len(runs')])
      BY <2>1 DEF Add
    <3> QED
      BY <1>3, <1>5, <2>2, <3>1, <3>2 DEF Add, CacheTypeOK
  <2>4. JournalState'
    BY <1>1, <1>2, <1>5, <2>1, <2>2 DEF JournalState, WriterState, CacheTypeOK
  <2>5. WriterState'
    BY <1>1, <1>2, <1>5, <2>1, <2>2 DEF Add, WriterState
  <2>6. ThreadState' /\ CachedRunsAreWhole'
    BY <1>1, <2>1, <2>2, <2>3, StoreStep DEF Add
  <2> QED  BY <2>3, <2>4, <2>5, <2>6
<1> QED  BY <1>4, <1>5 DEF Add

LEMMA RecordInv ==
    ASSUME CacheInv, RecordRun
    PROVE  CacheInv'
<1> USE DEF CacheInv
<1>1. UNCHANGED Fact /\ Len(runs) \in 1 .. Len(runs) /\ runs[Len(runs)] \in Topics
  BY JournalType, ElementOfSeq DEF RecordRun, WriterState, CacheTypeOK, Fact
<1>2. \/ UNCHANGED <<latest, recorded, poked>>
      \/ Recorded
  BY DEF RecordRun
<1>3. {mongo', poked', writing'} \subseteq BOOLEAN
  BY <1>2, Zenon DEF RecordRun, Recorded, CacheTypeOK
<1>4. /\ latest' \in [Topics -> 0 .. Len(runs)] /\ recorded' \subseteq 1 .. Len(runs)
      /\ recorded \subseteq recorded'
      /\ \A k \in Topics : latest'[k] # 0 => latest'[k] \in recorded'
  <2>1. CASE UNCHANGED <<latest, recorded, poked>>
    BY <2>1 DEF CacheTypeOK, WriterState
  <2>2. CASE Recorded
    <3> DEFINE n == Len(runs)
    <3>1. /\ n \in 1 .. n /\ runs[n] \in Topics
          /\ latest \in [Topics -> 0 .. n] /\ recorded \subseteq 1 .. n
      BY <1>1 DEF CacheTypeOK
    <3>2. /\ latest' = [latest EXCEPT ![runs[n]] = n]
          /\ recorded' = recorded \cup {n}
      BY <2>2 DEF Recorded
    <3>3. \A k \in Topics : latest[k] # 0 => latest[k] \in recorded
      BY DEF WriterState
    <3> HIDE DEF n
    <3>4. latest' \in [Topics -> 0 .. n]
      BY <3>1, <3>2
    <3> QED  BY <3>1, <3>2, <3>3, <3>4 DEF n
  <2> QED  BY <1>2, <2>1, <2>2
<1>5. CacheTypeOK'
  BY <1>1, <1>3, <1>4 DEF RecordRun, CacheTypeOK
<1>6. JournalState' /\ WriterState'
  BY <1>1, <1>4 DEF RecordRun, JournalState, WriterState
<1> QED  BY <1>1, <1>4, <1>5, <1>6, StoreStep DEF RecordRun

LEMMA BackfillInv ==
    ASSUME CacheInv, BackfillEmbeddings \/ MongoTurns
    PROVE  CacheInv'
<1> USE DEF CacheInv
<1>1. UNCHANGED <<journal, Fact, live, latest, recorded, runs, writing, todo,
                  poked, cache, at, ids, snapshot>>
  BY DEF BackfillEmbeddings, MongoTurns, Fact
<1>2. embedded' \subseteq Fact /\ mongo' \in BOOLEAN
  <2>1. CASE BackfillEmbeddings
    BY <2>1 DEF BackfillEmbeddings, CacheTypeOK
  <2>2. CASE MongoTurns
    BY <2>2, Zenon DEF MongoTurns, CacheTypeOK
  <2> QED  BY <2>1, <2>2
<1>3. CacheTypeOK'
  BY <1>1, <1>2 DEF CacheTypeOK
<1>4. JournalState' /\ WriterState'
  BY <1>1 DEF JournalState, WriterState
<1> QED  BY <1>1, <1>3, <1>4, StoreStep

----------------------------------------------------------------------------
(* The threads leave the store alone.                                      *)
LEMMA StoreUnchanged ==
    ASSUME CacheInv, UNCHANGED store
    PROVE  /\ UNCHANGED Fact /\ JournalState' /\ WriterState'
           /\ \A S : WholeRuns(S, journal', recorded') <=> WholeRuns(S, journal, recorded)
BY DEF CacheInv, store, Fact, JournalState, WriterState

(* Threads have whole runs, and hand them to the cache or do not.          *)
LEMMA ThreadStep ==
    ASSUME CacheInv, UNCHANGED store, poked' \in BOOLEAN,
           at' \in [Threads -> {"idle", "facts", "publish"}],
           ids' \in [Threads -> SUBSET recorded],
           snapshot' \in [Threads -> SUBSET Fact],
           \A q \in Threads : WholeRuns(snapshot'[q], journal, recorded),
           cache' \subseteq Fact, WholeRuns(cache', journal, recorded)
    PROVE  CacheInv'
<1> USE DEF CacheInv
<1>1. UNCHANGED <<mongo, journal, live, embedded, latest, recorded, runs,
                  writing, todo>>
  BY DEF store
<1>2. CacheTypeOK'
  <2>1. recorded \subseteq 1 .. Len(runs)
    BY DEF CacheTypeOK
  <2>2. ids' \in [Threads -> SUBSET (1 .. Len(runs'))]
    BY <1>1, <2>1
  <2> QED  BY <1>1, <2>2, StoreUnchanged DEF CacheTypeOK
<1>3. ThreadState'
  BY <1>1, StoreUnchanged DEF ThreadState
<1>4. CachedRunsAreWhole'
  BY <1>1 DEF CachedRunsAreWhole, WholeRuns, Fact
<1> QED  BY <1>2, <1>3, <1>4, StoreUnchanged

(* What the invariant says to a step of thread p.                          *)
LEMMA ThreadFacts ==
    ASSUME CacheInv
    PROVE  /\ poked \in BOOLEAN
           /\ at \in [Threads -> {"idle", "facts", "publish"}]
           /\ ids \in [Threads -> SUBSET recorded]
           /\ snapshot \in [Threads -> SUBSET Fact]
           /\ \A q \in Threads : WholeRuns(snapshot[q], journal, recorded)
           /\ cache \subseteq Fact /\ WholeRuns(cache, journal, recorded)
BY DEF CacheInv, CacheTypeOK, ThreadState, CachedRunsAreWhole, WholeRuns, Fact

LEMMA ReadRunsInv ==
    ASSUME CacheInv, NEW p \in Threads, ReadRuns(p)
    PROVE  CacheInv'
<1>1. (IF mongo THEN LatestRuns ELSE {}) \subseteq recorded
  BY DEF CacheInv, WriterState, LatestRuns
<1>2. /\ ids' \in [Threads -> SUBSET recorded]
      /\ at' \in [Threads -> {"idle", "facts", "publish"}]
  BY <1>1, ThreadFacts DEF ReadRuns, Goto
<1>3. UNCHANGED <<store, poked, cache, snapshot>>
  BY DEF ReadRuns
<1>4. poked' \in BOOLEAN
  BY <1>3, ThreadFacts
<1> QED  BY <1>2, <1>3, <1>4, ThreadFacts, ThreadStep

LEMMA ReadFactsInv ==
    ASSUME CacheInv, NEW p \in Threads, ReadFacts(p)
    PROVE  CacheInv'
<1>1. PICK S \in DedupOutcomes(IF mongo THEN Injectable(ids[p]) ELSE {}) :
          snapshot' = [snapshot EXCEPT ![p] = S]
  BY DEF ReadFacts
<1>2. S \subseteq Fact /\ WholeRuns(S, journal, recorded)
  BY <1>1, RebuildIsWhole DEF CacheInv, ThreadState
<1>3. /\ snapshot' \in [Threads -> SUBSET Fact]
      /\ \A q \in Threads : WholeRuns(snapshot'[q], journal, recorded)
  BY <1>1, <1>2, ThreadFacts
<1>4. /\ ids' \in [Threads -> SUBSET recorded]
      /\ at' \in [Threads -> {"idle", "facts", "publish"}]
  BY ThreadFacts DEF ReadFacts, Goto
<1>5. UNCHANGED <<store, poked, cache>>
  BY DEF ReadFacts
<1>6. poked' \in BOOLEAN
  BY <1>5, ThreadFacts
<1> QED  BY <1>3, <1>4, <1>5, <1>6, ThreadFacts, ThreadStep

(* The end of a thread's rebuild, by Publish or by Seed.                   *)
LEMMA HandOverInv ==
    ASSUME CacheInv, NEW p \in Threads, UNCHANGED <<store, ids>>,
           poked' \in BOOLEAN, Goto(p, "idle"),
           snapshot' = [snapshot EXCEPT ![p] = {}],
           cache' = cache \/ cache' = snapshot[p]
    PROVE  CacheInv'
<1>1. WholeRuns({}, journal, recorded)
  BY DEF WholeRuns
<1>2. /\ snapshot' \in [Threads -> SUBSET Fact]
      /\ \A q \in Threads : WholeRuns(snapshot'[q], journal, recorded)
  BY <1>1, ThreadFacts
<1>3. at' \in [Threads -> {"idle", "facts", "publish"}]
  BY ThreadFacts DEF Goto
<1>4. cache' \subseteq Fact /\ WholeRuns(cache', journal, recorded)
  BY ThreadFacts
<1> QED  BY <1>2, <1>3, <1>4, ThreadFacts, ThreadStep

LEMMA CacheNextInv ==
    ASSUME CacheInv, CacheNext
    PROVE  CacheInv'
<1>1. CASE Writer
  BY <1>1, RetireInv, AddInv, RecordInv DEF Writer, Add, CacheInv, CacheTypeOK
<1>2. CASE BackfillEmbeddings \/ MongoTurns
  BY <1>2, BackfillInv
<1>3. CASE Refresh
  <2>1. CASE ReadFacts(Refresher)
    BY <2>1, ReadFactsInv DEF Threads
  <2>2. CASE Publish
    <3>1. poked' \in BOOLEAN
      BY <2>2, Zenon DEF Publish
    <3> QED  BY <2>2, <3>1, HandOverInv DEF Publish, Threads
  <2> QED  BY <1>3, <2>1, <2>2 DEF Refresh
<1>4. CASE Wake \/ IntervalOver
  BY <1>4, ReadRunsInv DEF Wake, IntervalOver, Threads
<1>5. ASSUME NEW r \in Readers, ColdRead(r) \/ ReadFacts(r) \/ Seed(r)
      PROVE  CacheInv'
  <2>1. CASE ColdRead(r)
    BY <2>1, ReadRunsInv DEF ColdRead, Threads
  <2>2. CASE ReadFacts(r)
    BY <2>2, ReadFactsInv DEF Threads
  <2>3. CASE Seed(r)
    <3>1. poked' \in BOOLEAN
      BY <2>3, ThreadFacts DEF Seed
    <3>2. cache' = cache \/ cache' = snapshot[r]
      BY <2>3 DEF Seed
    <3> QED  BY <2>3, <3>1, <3>2, HandOverInv DEF Seed, Threads
  <2> QED  BY <1>5, <2>1, <2>2, <2>3
<1> QED  BY <1>1, <1>2, <1>3, <1>4, <1>5 DEF CacheNext

(* The inductive invariant of the store, its writer and its threads.       *)
THEOREM CacheInvariance == CacheSpec => []CacheInv
<1>1. CacheInit => CacheInv
  BY CacheInitInv
<1>2. CacheInv /\ [CacheNext]_cacheVars => CacheInv'
  <2>1. ASSUME CacheInv, UNCHANGED cacheVars
        PROVE  CacheInv'
    <3>1. UNCHANGED <<store, poked, cache, at, ids, snapshot>>
      BY <2>1 DEF cacheVars, store
    <3>2. poked' \in BOOLEAN
      BY <2>1, <3>1, ThreadFacts
    <3> QED  BY <2>1, <3>1, <3>2, ThreadFacts, ThreadStep
  <2> QED  BY <2>1, CacheNextInv
<1> QED  BY <1>1, <1>2, PTL DEF CacheSpec

(* The store, its threads and the cache have their types, and no text is   *)
(* stored twice, whatever the interleaving of the writer and the threads   *)
(* (the unique index of collection distilled_facts).                       *)
THEOREM CacheTypeCorrect == CacheSpec => []CacheTypeOK
<1>1. CacheInv => CacheTypeOK
  BY DEF CacheInv
<1> QED  BY <1>1, CacheInvariance, PTL

(* A prompt gets whole, recorded runs of facts, deduplicated at most,      *)
(* however the two queries of a rebuild interleave with a consolidation    *)
(* and whichever calls fail (_fetch_injectable_facts_raw).                 *)
THEOREM RunsInjectedWhole == CacheSpec => []CachedRunsAreWhole
<1>1. CacheInv => CachedRunsAreWhole
  BY DEF CacheInv
<1> QED  BY <1>1, CacheInvariance, PTL

=============================================================================

-------------------------- MODULE ToolCalls_proofs --------------------------
(***************************************************************************)
(* Proofs of the invariants of ToolCalls for any turns, threads, tools,    *)
(* parameters, window, threshold and number of turns started.              *)
(*                                                                         *)
(* MutationsByAdmins says nothing of a call that still waits: Cleared adds *)
(* that an answer "yes" of the lookup, and a mutating command on its way   *)
(* through the guard, come from a moment at which the user was an admin.   *)
(* OvershootIsBounded is inductive with the types.                         *)
(***************************************************************************)
EXTENDS ToolCalls, FiniteSetTheorems, TLAPS

Mutating(w) == call[w] # NoCall /\ call[w][1] = "bash" /\ call[w][2] \in Mutations

Cleared ==
    \A w \in Workers :
        /\ call[w] # NoCall /\ IsAdmin(Owner[w]) => cleared[w]
        /\ pos[w] = "lookup" /\ answer[w] = "yes" => cleared[w]
        /\ pos[w] \in {"guard", "executing"} /\ Mutating(w) => cleared[w]

IInv == TypeOK /\ Cleared /\ OvershootIsBounded

----------------------------------------------------------------------------
(* Types *)

LEMMA LastOfType ==
    ASSUME NEW w \in Seq(Params), Len(w) <= LoopWindow, NEW p \in Params
    PROVE  /\ LastOf(Append(w, p)) \in Seq(Params)
           /\ Len(LastOf(Append(w, p))) <= LoopWindow
<1>1. Append(w, p) \in Seq(Params) /\ Len(Append(w, p)) = Len(w) + 1
  OBVIOUS
<1>2. CASE Len(w) + 1 > LoopWindow
  <2>1. LastOf(Append(w, p)) = Tail(Append(w, p))
    BY <1>1, <1>2 DEF LastOf
  <2>2. Append(w, p) # <<>>
    BY <1>1
  <2>3. Tail(Append(w, p)) \in Seq(Params) /\ Len(Tail(Append(w, p))) = Len(w)
    BY <1>1, <2>2
  <2> QED  BY <2>1, <2>3
<1>3. CASE Len(w) + 1 <= LoopWindow
  BY <1>1, <1>3, ConstantsAssumption DEF LastOf
<1> QED  BY <1>2, <1>3, ConstantsAssumption

LEMMA CallType ==
    ASSUME TypeOK, NEW w \in Workers, pos[w] # "free"
    PROVE  call[w] # NoCall /\ call[w][1] \in Tools /\ call[w][2] \in Params
BY DEF TypeOK, NoCall

LEMMA NoCallIsNoPair ==
    ASSUME NEW x, NEW p
    PROVE  <<x, p>> # NoCall
BY DEF NoCall

LEMMA EndCallTypes ==
    ASSUME TypeOK, NEW w \in Workers, EndCall(w)
    PROVE  /\ pos' \in [Workers -> {"free", "lookup", "guard", "executing"}]
           /\ call' \in [Workers -> (Tools \X Params) \cup {NoCall}]
           /\ cleared' \in [Workers -> BOOLEAN]
           /\ \A v \in Workers : call'[v] = NoCall <=> pos'[v] = "free"
BY DEF TypeOK, EndCall

LEMMA GoOnTypes ==
    ASSUME TypeOK, NEW w \in Workers, pos[w] # "free",
           NEW p \in {"guard", "executing"}, GoOn(w, p)
    PROVE  /\ pos' \in [Workers -> {"free", "lookup", "guard", "executing"}]
           /\ call' \in [Workers -> (Tools \X Params) \cup {NoCall}]
           /\ cleared' \in [Workers -> BOOLEAN]
           /\ \A v \in Workers : call'[v] = NoCall <=> pos'[v] = "free"
BY DEF TypeOK, GoOn

(* The start and the end of a turn.                                        *)
LEMMA TurnTypes ==
    ASSUME TypeOK, NEW t \in Turns, StartTurn(t) \/ StartTimesOut(t) \/ EndTurn(t)
    PROVE  TypeOK'
<1>0. Cardinality({}) = 0 /\ \A x : Cardinality({x}) = 1
  BY FS_EmptySet, FS_Singleton
<1>1. UNCHANGED <<dbAdmins, pos, call, answer, recent, cleared>>
  BY DEF StartTurn, StartTimesOut, EndTurn
<1>2. SUFFICES /\ loopWaits' \subseteq Turns /\ Cardinality(loopWaits') <= 1
               /\ at' \in [Turns -> {"off", "starting", "thinking"}]
               /\ \A u \in Turns : at'[u] = "starting" <=> u \in loopWaits'
               /\ told' \in [Turns -> BOOLEAN]
               /\ started' \in 0 .. MaxTurns
  BY <1>1 DEF TypeOK
<1>3. CASE StartTurn(t) /\ t \in StaticAdmins
  <2>1. /\ at' = [at EXCEPT ![t] = "thinking"] /\ told' = [told EXCEPT ![t] = TRUE]
        /\ loopWaits' = loopWaits /\ at[t] = "off"
    BY <1>3 DEF StartTurn
  <2>2. started' \in 0 .. MaxTurns
    BY <1>3, ConstantsAssumption DEF StartTurn, TypeOK
  <2>3. \A u \in Turns : at'[u] = "starting" <=> u \in loopWaits'
    BY <2>1 DEF TypeOK
  <2> QED  BY <2>1, <2>2, <2>3 DEF TypeOK
<1>4. CASE StartTurn(t) /\ t \notin StaticAdmins
  <2>1. /\ at' = [at EXCEPT ![t] = "starting"]
        /\ loopWaits' = {t} /\ loopWaits = {} /\ at[t] = "off"
        /\ told' = told /\ started' \in 0 .. MaxTurns
    BY <1>4, ConstantsAssumption DEF StartTurn, LoopFree, TypeOK
  <2>2. Cardinality(loopWaits') = 1
    BY <1>0, <2>1, Zenon
  <2>3. \A u \in Turns : at'[u] = "starting" <=> u \in loopWaits'
    BY <2>1 DEF TypeOK
  <2> QED  BY <2>1, <2>2, <2>3 DEF TypeOK
<1>5. CASE StartTimesOut(t)
  <2>1. loopWaits = {t}
    <3>1. IsFiniteSet(loopWaits)
      BY ConstantsAssumption, FS_Subset DEF TypeOK
    <3>2. t \in loopWaits /\ Cardinality(loopWaits) <= 1
      BY <1>5 DEF TypeOK, StartTimesOut
    <3>3. Cardinality(loopWaits) \in Nat /\ Cardinality(loopWaits) # 0
      BY <3>1, <3>2, FS_CardinalityType, FS_EmptySet
    <3>4. Cardinality({t}) = Cardinality(loopWaits) /\ {t} \in SUBSET loopWaits
      BY <1>0, <3>2, <3>3
    <3> QED  BY <3>1, <3>4, FS_Subset
  <2>2. Cardinality(loopWaits') <= 1 /\ loopWaits' = {}
    BY <1>0, <1>5 DEF StartTimesOut
  <2>3. at' = [at EXCEPT ![t] = "thinking"] /\ at[t] = "starting"
    BY <1>5 DEF StartTimesOut
  <2>4. \A u \in Turns : at'[u] = "starting" <=> u \in loopWaits'
    BY <2>1, <2>2, <2>3 DEF TypeOK
  <2> QED  BY <1>5, <2>2, <2>3, <2>4 DEF TypeOK, StartTimesOut
<1>6. CASE EndTurn(t)
  BY <1>6 DEF TypeOK, EndTurn
<1> QED  BY <1>3, <1>4, <1>5, <1>6

LEMMA TypeStep ==
    ASSUME TypeOK, Next
    PROVE  TypeOK'
<1>1. ASSUME NEW t \in Turns, StartTurn(t) \/ StartTimesOut(t) \/ EndTurn(t)
      PROVE  TypeOK'
  BY <1>1, TurnTypes
<1>2. ASSUME NEW t \in Turns, GrantOrRevoke(t)
      PROVE  TypeOK'
  BY <1>2 DEF TypeOK, GrantOrRevoke, turnVars
<1>3. ASSUME NEW w \in Workers, NEW x \in Tools, NEW p \in Params, Invoke(w, x, p)
      PROVE  TypeOK'
  <2>1. /\ call' = [call EXCEPT ![w] = <<x, p>>]
        /\ cleared' = [cleared EXCEPT ![w] = IsAdmin(Owner[w])]
        /\ UNCHANGED <<turnVars, dbAdmins, recent>>
    BY <1>3 DEF Invoke
  <2>2. PICK q \in {"lookup", "guard", "executing"} : pos' = [pos EXCEPT ![w] = q]
    BY <1>3 DEF Invoke, PastGate
  <2>3. answer' \in [Workers -> {"none", "asked", "yes", "no"}]
    BY <1>3 DEF Invoke, TypeOK
  <2>4. call' \in [Workers -> (Tools \X Params) \cup {NoCall}]
    BY <2>1 DEF TypeOK
  <2>5. cleared' \in [Workers -> BOOLEAN]
    BY <2>1 DEF TypeOK, IsAdmin
  <2>6. \A v \in Workers : call'[v] = NoCall <=> pos'[v] = "free"
    BY <2>1, <2>2, NoCallIsNoPair DEF TypeOK
  <2>7. pos' \in [Workers -> {"free", "lookup", "guard", "executing"}]
    BY <2>2 DEF TypeOK
  <2> QED  BY <2>1, <2>3, <2>4, <2>5, <2>6, <2>7 DEF TypeOK, turnVars
<1>4. ASSUME NEW w \in Workers, LoopLooksUp(w)
      PROVE  TypeOK'
  BY <1>4 DEF TypeOK, LoopLooksUp, turnVars
<1>5. ASSUME NEW w \in Workers, GateDecides(w)
      PROVE  TypeOK'
  <2>1. PastGate(call[w][1]) \in {"guard", "executing"}
    BY DEF PastGate
  <2>2. pos[w] = "lookup" /\ (EndCall(w) \/ GoOn(w, PastGate(call[w][1])))
    BY <1>5 DEF GateDecides
  <2> QED  BY <1>5, <2>1, <2>2, EndCallTypes, GoOnTypes DEF TypeOK, GateDecides, turnVars
<1>6. ASSUME NEW w \in Workers, GuardDecides(w)
      PROVE  TypeOK'
  <2>1. pos[w] = "guard" /\ (EndCall(w) \/ GoOn(w, "executing"))
    BY <1>6 DEF GuardDecides
  <2> QED  BY <1>6, <2>1, EndCallTypes, GoOnTypes DEF TypeOK, GuardDecides, turnVars
<1>7. ASSUME NEW w \in Workers, NEW success \in BOOLEAN, ToolReturns(w, success)
      PROVE  TypeOK'
  <2>1. pos[w] = "executing" /\ EndCall(w)
    BY <1>7 DEF ToolReturns
  <2>2. call[w][1] \in Tools /\ call[w][2] \in Params
    BY <2>1, CallType
  <2>3. /\ LastOf(Append(recent[call[w][1]], call[w][2])) \in Seq(Params)
        /\ Len(LastOf(Append(recent[call[w][1]], call[w][2]))) <= LoopWindow
    BY <2>2, LastOfType DEF TypeOK
  <2>4. recent' \in [Tools -> Seq(Params)] /\ \A x \in Tools : Len(recent'[x]) <= LoopWindow
    BY <1>7, <2>2, <2>3 DEF TypeOK, ToolReturns
  <2> QED  BY <1>7, <2>1, <2>4, EndCallTypes DEF TypeOK, ToolReturns, turnVars
<1> QED  BY <1>1, <1>2, <1>3, <1>4, <1>5, <1>6, <1>7 DEF Next, Proceed

----------------------------------------------------------------------------
(* Mutating commands *)

(* A thread that neither starts a call nor goes on with one.               *)
LEMMA ClearedStep ==
    ASSUME TypeOK, Cleared, Next, TypeOK'
    PROVE  Cleared'
<1>1. ASSUME NEW t \in Turns, StartTurn(t) \/ StartTimesOut(t) \/ EndTurn(t)
      PROVE  Cleared'
  <2>1. UNCHANGED <<dbAdmins, pos, call, answer, cleared>>
    BY <1>1 DEF StartTurn, StartTimesOut, EndTurn
  <2> QED  BY <2>1 DEF Cleared, IsAdmin, Mutating
<1>2. ASSUME NEW t \in Turns, GrantOrRevoke(t)
      PROVE  Cleared'
  <2>1. /\ UNCHANGED <<pos, call, answer>>
        /\ \A w \in Workers : cleared'[w] =
              (cleared[w] \/ (Owner[w] = t /\ call[w] # NoCall /\ t \notin dbAdmins))
        /\ \A u \in Turns : u # t => (u \in dbAdmins' <=> u \in dbAdmins)
        /\ t \in dbAdmins' => t \notin dbAdmins
        /\ t \notin StaticAdmins
    BY <1>2 DEF GrantOrRevoke, TypeOK
  <2>2. \A w \in Workers : cleared[w] => cleared'[w]
    BY <2>1
  <2>3. ASSUME NEW w \in Workers, call[w] # NoCall, IsAdmin(Owner[w])'
        PROVE  cleared'[w]
    <3>1. CASE Owner[w] = t
      BY <2>1, <2>3, <3>1 DEF IsAdmin
    <3>2. CASE Owner[w] # t
      <4>1. Owner[w] \in Turns
        BY ConstantsAssumption
      <4>2. IsAdmin(Owner[w])
        BY <2>1, <2>3, <3>2, <4>1 DEF IsAdmin
      <4> QED  BY <2>2, <2>3, <4>2 DEF Cleared
    <3> QED  BY <3>1, <3>2
  <2>4. \A w \in Workers :
          /\ pos'[w] = "lookup" /\ answer'[w] = "yes" => cleared'[w]
          /\ pos'[w] \in {"guard", "executing"} /\ Mutating(w)' => cleared'[w]
    BY <2>1, <2>2 DEF Cleared, Mutating
  <2> QED  BY <2>1, <2>3, <2>4 DEF Cleared
<1>3. ASSUME NEW w \in Workers, NEW x \in Tools, NEW p \in Params, Invoke(w, x, p)
      PROVE  Cleared'
  <2>1. /\ call' = [call EXCEPT ![w] = <<x, p>>]
        /\ cleared' = [cleared EXCEPT ![w] = IsAdmin(Owner[w])]
        /\ dbAdmins' = dbAdmins
        /\ \A v \in Workers : v # w => pos'[v] = pos[v] /\ answer'[v] = answer[v]
    BY <1>3 DEF Invoke, TypeOK
  <2>2. \A v \in Workers : v # w => call'[v] = call[v] /\ cleared'[v] = cleared[v]
    BY <2>1 DEF TypeOK
  <2>3. call'[w] = <<x, p>> /\ cleared'[w] = IsAdmin(Owner[w])
    BY <2>1 DEF TypeOK
  <2>4. pos'[w] = "lookup" => answer'[w] = "asked"
    BY <1>3 DEF Invoke, TypeOK, PastGate
  <2>5. pos'[w] \in {"guard", "executing"} /\ x = "bash" /\ p \in Mutations
            => IsAdmin(Owner[w])
    BY <1>3 DEF Invoke, TypeOK, Gated, IsAdmin
  <2>6. \A v \in Workers : IsAdmin(Owner[v])' <=> IsAdmin(Owner[v])
    BY <2>1 DEF IsAdmin
  <2>7. Mutating(w)' => x = "bash" /\ p \in Mutations
    BY <2>3 DEF Mutating
  <2>8. /\ call'[w] # NoCall /\ IsAdmin(Owner[w])' => cleared'[w]
        /\ pos'[w] = "lookup" /\ answer'[w] = "yes" => cleared'[w]
        /\ pos'[w] \in {"guard", "executing"} /\ Mutating(w)' => cleared'[w]
    BY <2>3, <2>4, <2>5, <2>6, <2>7
  <2>9. \A v \in Workers : v # w => (Mutating(v)' <=> Mutating(v))
    BY <2>2 DEF Mutating
  <2> QED  BY <2>1, <2>2, <2>6, <2>8, <2>9 DEF Cleared
<1>4. ASSUME NEW w \in Workers, LoopLooksUp(w)
      PROVE  Cleared'
  <2>1. /\ UNCHANGED <<pos, call, cleared, dbAdmins>>
        /\ \A v \in Workers : v # w => answer'[v] = answer[v]
        /\ answer'[w] = "yes" => IsAdmin(Owner[w])
    BY <1>4 DEF LoopLooksUp, TypeOK
  <2>2. pos[w] = "lookup" => call[w] # NoCall
    BY DEF TypeOK
  <2> QED  BY <2>1, <2>2 DEF Cleared, IsAdmin, Mutating
<1>5. ASSUME NEW w \in Workers, EndCall(w),
             dbAdmins' = dbAdmins,
             \A v \in Workers : v # w => answer'[v] = answer[v]
      PROVE  Cleared'
  <2>1. /\ pos'[w] = "free" /\ call'[w] = NoCall
        /\ \A v \in Workers : v # w =>
              pos'[v] = pos[v] /\ call'[v] = call[v] /\ cleared'[v] = cleared[v]
    BY <1>5 DEF EndCall, TypeOK
  <2> QED  BY <1>5, <2>1 DEF Cleared, IsAdmin, Mutating
<1>6. ASSUME NEW w \in Workers, NEW p \in {"guard", "executing"}, GoOn(w, p),
             dbAdmins' = dbAdmins,
             \A v \in Workers : v # w => answer'[v] = answer[v],
             Mutating(w) => cleared[w]
      PROVE  Cleared'
  <2>1. /\ pos'[w] = p /\ call' = call /\ cleared' = cleared
        /\ \A v \in Workers : v # w => pos'[v] = pos[v]
    BY <1>6 DEF GoOn, TypeOK
  <2> QED  BY <1>6, <2>1 DEF Cleared, IsAdmin, Mutating
<1>7. ASSUME NEW w \in Workers, GateDecides(w)
      PROVE  Cleared'
  <2>1. /\ pos[w] = "lookup" /\ dbAdmins' = dbAdmins
        /\ \A v \in Workers : v # w => answer'[v] = answer[v]
    BY <1>7 DEF GateDecides, TypeOK
  <2>2. CASE answer[w] = "yes"
    <3>1. GoOn(w, PastGate(call[w][1])) /\ cleared[w]
      BY <1>7, <2>1, <2>2 DEF GateDecides, Cleared
    <3>2. PastGate(call[w][1]) \in {"guard", "executing"}
      BY DEF PastGate
    <3> QED  BY <1>6, <2>1, <3>1, <3>2
  <2>3. CASE answer[w] # "yes"
    BY <1>5, <1>7, <2>1, <2>3 DEF GateDecides
  <2> QED  BY <2>2, <2>3
<1>8. ASSUME NEW w \in Workers, GuardDecides(w)
      PROVE  Cleared'
  <2>1. /\ pos[w] = "guard" /\ dbAdmins' = dbAdmins /\ answer' = answer
        /\ EndCall(w) \/ GoOn(w, "executing")
    BY <1>8 DEF GuardDecides
  <2>2. Mutating(w) => cleared[w]
    BY <2>1 DEF Cleared
  <2> QED  BY <1>5, <1>6, <2>1, <2>2
<1>9. ASSUME NEW w \in Workers, NEW success \in BOOLEAN, ToolReturns(w, success)
      PROVE  Cleared'
  BY <1>5, <1>9 DEF ToolReturns
<1> QED  BY <1>1, <1>2, <1>3, <1>4, <1>7, <1>8, <1>9 DEF Next, Proceed

----------------------------------------------------------------------------
(* The loop guard *)

(* The places of p in a window, and the threads that execute it.           *)
Places(w, p) == {i \in DOMAIN w : w[i] = p}
Executing(x, p) ==
    {w \in Workers : pos[w] = "executing" /\ Guarded(x) /\ call[w] = <<x, p>>}

LEMMA PlacesFinite ==
    ASSUME NEW w \in Seq(Params), NEW p
    PROVE  IsFiniteSet(Places(w, p)) /\ Cardinality(Places(w, p)) \in Nat
<1>1. Places(w, p) \in SUBSET (1 .. Len(w)) /\ IsFiniteSet(1 .. Len(w))
  BY FS_Interval DEF Places
<1> QED  BY <1>1, FS_Subset, FS_CardinalityType

(* Appending adds one place at most ...                                    *)
LEMMA PlacesOfAppend ==
    ASSUME NEW w \in Seq(Params), NEW p, NEW q \in Params
    PROVE  Cardinality(Places(Append(w, q), p)) <=
               Cardinality(Places(w, p)) + (IF q = p THEN 1 ELSE 0)
<1>1. IsFiniteSet(Places(w, p)) /\ Cardinality(Places(w, p)) \in Nat
  BY PlacesFinite
<1>2. CASE q = p
  <2>1. Places(Append(w, q), p) = Places(w, p) \cup {Len(w) + 1}
    BY <1>2 DEF Places
  <2>2. Cardinality(Places(Append(w, q), p)) =
          IF Len(w) + 1 \in Places(w, p) THEN Cardinality(Places(w, p))
                                         ELSE Cardinality(Places(w, p)) + 1
    BY <1>1, <2>1, FS_AddElement
  <2> QED  BY <1>1, <1>2, <2>2
<1>3. CASE q # p
  <2>1. Places(Append(w, q), p) = Places(w, p)
    BY <1>3 DEF Places
  <2> QED  BY <1>1, <1>3, <2>1
<1> QED  BY <1>2, <1>3

(* ... and dropping the oldest adds none.                                  *)
LEMMA PlacesOfTail ==
    ASSUME NEW w \in Seq(Params), w # <<>>, NEW p
    PROVE  Cardinality(Places(Tail(w), p)) <= Cardinality(Places(w, p))
<1> DEFINE f == [i \in Places(Tail(w), p) |-> i + 1]
<1>1. \A i \in Places(Tail(w), p) : i \in Int /\ i + 1 \in Places(w, p)
  BY DEF Places
<1>2. f \in Injection(Places(Tail(w), p), Places(w, p))
  BY <1>1 DEF Injection, IsInjective
<1> QED  BY <1>2, PlacesFinite, FS_Injection

LEMMA PlacesOfLast ==
    ASSUME NEW w \in Seq(Params), NEW p, NEW q \in Params
    PROVE  Cardinality(Places(LastOf(Append(w, q)), p)) <=
               Cardinality(Places(w, p)) + (IF q = p THEN 1 ELSE 0)
<1> DEFINE a == Append(w, q)
<1>1. a \in Seq(Params) /\ a # <<>> /\ Tail(a) \in Seq(Params)
  <2>1. a \in Seq(Params) /\ Len(a) = Len(w) + 1 /\ Len(w) \in Nat
    OBVIOUS
  <2>2. a # <<>>
    BY <2>1
  <2> HIDE DEF a
  <2> QED  BY <2>1, <2>2
<1>2. /\ Cardinality(Places(a, p)) <= Cardinality(Places(w, p)) + (IF q = p THEN 1 ELSE 0)
      /\ Cardinality(Places(Tail(a), p)) <= Cardinality(Places(a, p))
  BY <1>1, PlacesOfAppend, PlacesOfTail
<1>3. /\ Cardinality(Places(w, p)) \in Nat /\ Cardinality(Places(a, p)) \in Nat
      /\ Cardinality(Places(Tail(a), p)) \in Nat
  BY <1>1, PlacesFinite
<1>4. LastOf(a) = a \/ LastOf(a) = Tail(a)
  BY DEF LastOf
<1>5. CASE LastOf(a) = a
  BY <1>2, <1>5
<1>6. CASE LastOf(a) = Tail(a)
  <2> DEFINE one == IF q = p THEN 1 ELSE 0
             w0 == Cardinality(Places(w, p))
             a0 == Cardinality(Places(a, p))
             t0 == Cardinality(Places(Tail(a), p))
  <2>1. /\ w0 \in Nat /\ a0 \in Nat /\ t0 \in Nat /\ one \in Nat
        /\ a0 <= w0 + one /\ t0 <= a0
    BY <1>2, <1>3
  <2> HIDE DEF one, w0, a0, t0
  <2>2. t0 <= w0 + one
    BY <2>1
  <2> QED  BY <1>6, <2>2 DEF t0, w0, one
<1> QED  BY <1>4, <1>5, <1>6

LEMMA ExecutingFinite ==
    ASSUME NEW x, NEW p
    PROVE  /\ IsFiniteSet(Executing(x, p))
           /\ Cardinality(Executing(x, p)) \in Nat
           /\ Cardinality(Workers) \in Nat
           /\ Cardinality(Executing(x, p)) <= Cardinality(Workers)
<1>1. Executing(x, p) \in SUBSET Workers /\ IsFiniteSet(Workers)
  BY ConstantsAssumption DEF Executing
<1> QED  BY <1>1, FS_Subset, FS_CardinalityType

(* The window of x and the threads that run x shrink  , or a call that     *)
(* succeeded moves from the latter into the former.                        *)
LEMMA OvershootStep ==
    ASSUME TypeOK, OvershootIsBounded, Next, TypeOK'
    PROVE  OvershootIsBounded'
<1> DEFINE Bound == LoopThreshold - 2 + Cardinality(Workers)
<1>0. /\ Bound \in Int /\ Cardinality(Workers) \in Nat
      /\ LoopThreshold \in Nat /\ LoopThreshold >= 2
  BY ConstantsAssumption, FS_CardinalityType
<1>1. OvershootIsBounded <=>
        \A x \in Tools, p \in Params :
            Cardinality(Places(recent[x], p)) + Cardinality(Executing(x, p)) <= Bound
  BY DEF OvershootIsBounded, Count, Places, Executing
<1>2. OvershootIsBounded' <=>
        \A x \in Tools, p \in Params :
            Cardinality(Places(recent'[x], p)) + Cardinality(Executing(x, p)') <= Bound
  BY DEF OvershootIsBounded, Count, Places, Executing, Guarded
<1> HIDE DEF Bound
<1>3. ASSUME recent' = recent,
             \A x \in Tools, p \in Params : Executing(x, p)' \subseteq Executing(x, p)
      PROVE  OvershootIsBounded'
  <2> SUFFICES ASSUME NEW x \in Tools, NEW p \in Params
               PROVE  Cardinality(Places(recent[x], p)) + Cardinality(Executing(x, p)') <= Bound
    BY <1>2, <1>3
  <2>1. /\ IsFiniteSet(Executing(x, p)) /\ Cardinality(Executing(x, p)) \in Nat
        /\ Cardinality(Places(recent[x], p)) \in Nat
    BY ExecutingFinite, PlacesFinite DEF TypeOK
  <2>2. Executing(x, p)' \in SUBSET Executing(x, p)
    BY <1>3
  <2>3. /\ Cardinality(Executing(x, p)') <= Cardinality(Executing(x, p))
        /\ Cardinality(Executing(x, p)') \in Nat
    BY <2>1, <2>2, FS_Subset, FS_CardinalityType
  <2> QED  BY <1>0, <1>1, <2>1, <2>3
<1>4. ASSUME NEW w \in Workers, recent' = recent, pos'[w] # "executing",
             \A v \in Workers : v # w => pos'[v] = pos[v] /\ call'[v] = call[v]
      PROVE  OvershootIsBounded'
  BY <1>3, <1>4 DEF Executing, Guarded
<1>5. ASSUME NEW w \in Workers, EndCall(w), recent' = recent
      PROVE  OvershootIsBounded'
  BY <1>4, <1>5 DEF EndCall, TypeOK
<1>6. ASSUME NEW u \in Turns,
             StartTurn(u) \/ StartTimesOut(u) \/ EndTurn(u) \/ GrantOrRevoke(u)
      PROVE  OvershootIsBounded'
  <2>1. UNCHANGED <<pos, call, recent>>
    BY <1>6 DEF StartTurn, StartTimesOut, EndTurn, GrantOrRevoke
  <2> QED  BY <1>3, <2>1 DEF Executing, Guarded
<1>7. ASSUME NEW w \in Workers, LoopLooksUp(w)
      PROVE  OvershootIsBounded'
  BY <1>3, <1>7 DEF LoopLooksUp, Executing, Guarded
<1>8. ASSUME NEW w \in Workers, NEW y, ~Guarded(y), recent' = recent,
             pos'[w] = "executing" => call'[w] # NoCall /\ call'[w][1] = y,
             \A v \in Workers : v # w => pos'[v] = pos[v] /\ call'[v] = call[v]
      PROVE  OvershootIsBounded'
  <2>1. \A x \in Tools, p \in Params : Executing(x, p)' \subseteq Executing(x, p)
    BY <1>8 DEF Executing, Guarded
  <2> QED  BY <1>3, <1>8, <2>1
<1>9. ASSUME NEW w \in Workers, NEW x \in Tools, NEW p \in Params, Invoke(w, x, p)
      PROVE  OvershootIsBounded'
  <2>1. /\ recent' = recent /\ call'[w] = <<x, p>>
        /\ \A v \in Workers : v # w => pos'[v] = pos[v] /\ call'[v] = call[v]
        /\ pos'[w] = "executing" => ~Guarded(x)
    BY <1>9 DEF Invoke, PastGate, TypeOK
  <2>2. CASE Guarded(x)
    BY <1>4, <2>1, <2>2
  <2>3. CASE ~Guarded(x)
    BY <1>8, <2>1, <2>3, NoCallIsNoPair
  <2> QED  BY <2>2, <2>3
<1>10. ASSUME NEW w \in Workers, GateDecides(w)
       PROVE  OvershootIsBounded'
  <2>1. recent' = recent /\ pos[w] = "lookup"
    BY <1>10 DEF GateDecides
  <2>2. CASE GoOn(w, PastGate(call[w][1]))
    <3>1. /\ call' = call /\ \A v \in Workers : v # w => pos'[v] = pos[v]
          /\ pos'[w] = "executing" => ~Guarded(call[w][1])
          /\ call[w] # NoCall
      BY <2>1, <2>2 DEF GoOn, PastGate, TypeOK
    <3>2. CASE Guarded(call[w][1])
      BY <1>4, <2>1, <3>1, <3>2
    <3>3. CASE ~Guarded(call[w][1])
      BY <1>8, <2>1, <3>1, <3>3
    <3> QED  BY <3>2, <3>3
  <2>3. CASE EndCall(w)
    BY <1>5, <2>1, <2>3
  <2> QED  BY <1>10, <2>2, <2>3 DEF GateDecides
<1>11. ASSUME NEW w \in Workers, GuardDecides(w)
       PROVE  OvershootIsBounded'
  <2>1. recent' = recent /\ pos[w] = "guard"
    BY <1>11 DEF GuardDecides
  <2>2. CASE EndCall(w)
    BY <1>5, <2>1, <2>2
  <2>3. CASE ~Blocked(call[w][1], call[w][2]) /\ GoOn(w, "executing")
    <3> SUFFICES ASSUME NEW x \in Tools, NEW p \in Params
                 PROVE  Cardinality(Places(recent[x], p)) + Cardinality(Executing(x, p)') <= Bound
      BY <1>2, <2>1
    <3>1. call' = call /\ \A v \in Workers : v # w => pos'[v] = pos[v]
      BY <2>3 DEF GoOn, TypeOK
    <3>2. CASE call[w] = <<x, p>>
      <4>1. Cardinality(Places(recent[x], p)) + 1 < LoopThreshold
        <5>1. ~(Count(x, p) + 1 >= LoopThreshold)
          BY <2>3, <3>2 DEF Blocked
        <5>2. Count(x, p) = Cardinality(Places(recent[x], p))
          BY DEF Count, Places
        <5>3. Cardinality(Places(recent[x], p)) \in Nat
          BY PlacesFinite DEF TypeOK
        <5> QED  BY <1>0, <5>1, <5>2, <5>3
      <4>2. Cardinality(Places(recent[x], p)) \in Nat
        BY PlacesFinite DEF TypeOK
      <4>3. Cardinality(Executing(x, p)') \in Nat /\ Cardinality(Executing(x, p)') <= Cardinality(Workers)
        <5>1. Executing(x, p)' \in SUBSET Workers /\ IsFiniteSet(Workers)
          BY ConstantsAssumption DEF Executing
        <5> QED  BY <5>1, FS_Subset, FS_CardinalityType
      <4> QED  BY <1>0, <4>1, <4>2, <4>3 DEF Bound
    <3>3. CASE call[w] # <<x, p>>
      <4>1. Executing(x, p)' = Executing(x, p)
        BY <3>1, <3>3 DEF Executing, Guarded
      <4> QED  BY <1>1, <4>1
    <3> QED  BY <3>2, <3>3
  <2> QED  BY <1>11, <2>2, <2>3 DEF GuardDecides
<1>12. ASSUME NEW w \in Workers, NEW success \in BOOLEAN, ToolReturns(w, success)
       PROVE  OvershootIsBounded'
  <2>1. pos[w] = "executing" /\ EndCall(w)
    BY <1>12 DEF ToolReturns
  <2>2. PICK y \in Tools, q \in Params : call[w] = <<y, q>>
    BY <2>1, CallType DEF TypeOK
  <2>3. CASE ~(success /\ Guarded(y))
    <3>1. recent' = recent
      BY <1>12, <2>2, <2>3 DEF ToolReturns
    <3> QED  BY <1>5, <2>1, <3>1
  <2>4. CASE success /\ Guarded(y)
    <3>1. recent' = [recent EXCEPT ![y] = LastOf(Append(recent[y], q))]
      BY <1>12, <2>2, <2>4 DEF ToolReturns
    <3> SUFFICES ASSUME NEW x \in Tools, NEW p \in Params
                 PROVE  Cardinality(Places(recent'[x], p)) + Cardinality(Executing(x, p)') <= Bound
      BY <1>2
    <3>2. /\ pos'[w] = "free"
          /\ \A v \in Workers : v # w => pos'[v] = pos[v] /\ call'[v] = call[v]
      BY <2>1 DEF EndCall, TypeOK
    <3>3. Executing(x, p)' = Executing(x, p) \ {w}
      BY <3>2 DEF Executing, Guarded
    <3>4. /\ IsFiniteSet(Executing(x, p)) /\ Cardinality(Executing(x, p)) \in Nat
          /\ Cardinality(Places(recent[x], p)) \in Nat
      BY ExecutingFinite, PlacesFinite DEF TypeOK
    <3>5. Cardinality(Executing(x, p)') =
            IF w \in Executing(x, p) THEN Cardinality(Executing(x, p)) - 1
                                     ELSE Cardinality(Executing(x, p))
      BY <3>3, <3>4, FS_RemoveElement
    <3>6. w \in Executing(x, p) <=> y = x /\ q = p
      BY <2>1, <2>2, <2>4 DEF Executing
    <3>7. CASE x = y
      <4>1. recent'[x] = LastOf(Append(recent[x], q))
        BY <3>1, <3>7 DEF TypeOK
      <4>2. recent[x] \in Seq(Params) /\ recent'[x] \in Seq(Params)
        BY DEF TypeOK
      <4>3. Cardinality(Places(recent'[x], p)) <=
              Cardinality(Places(recent[x], p)) + (IF q = p THEN 1 ELSE 0)
        BY <4>1, <4>2, PlacesOfLast
      <4>4. Cardinality(Places(recent'[x], p)) \in Nat
        BY <4>2, PlacesFinite
      <4>5. Cardinality(Places(recent[x], p)) + Cardinality(Executing(x, p)) <= Bound
        BY <1>1
      <4>6. CASE q = p
        BY <1>0, <3>4, <3>5, <3>6, <3>7, <4>3, <4>4, <4>5, <4>6
      <4>7. CASE q # p
        BY <1>0, <3>4, <3>5, <3>6, <3>7, <4>3, <4>4, <4>5, <4>7
      <4> QED  BY <4>6, <4>7
    <3>8. CASE x # y
      <4>1. recent'[x] = recent[x] /\ Executing(x, p)' = Executing(x, p)
        BY <3>1, <3>3, <3>6, <3>8 DEF TypeOK
      <4> QED  BY <1>1, <4>1
    <3> QED  BY <3>7, <3>8
  <2> QED  BY <2>3, <2>4
<1> QED  BY <1>6, <1>7, <1>9, <1>10, <1>11, <1>12 DEF Next, Proceed

LEMMA InitIInv == Init => IInv
<1> SUFFICES ASSUME Init PROVE IInv
  OBVIOUS
<1>1. IsFiniteSet({}) /\ Cardinality({}) = 0
  BY FS_EmptySet
<1>2. TypeOK
  <2>1. <<>> \in Seq(Params) /\ Len(<<>>) = 0
    OBVIOUS
  <2>2. recent \in [Tools -> Seq(Params)] /\ \A x \in Tools : Len(recent[x]) <= LoopWindow
    BY <2>1, ConstantsAssumption DEF Init
  <2> QED  BY <1>1, <2>2, ConstantsAssumption DEF Init, TypeOK
<1>3. Cleared
  BY DEF Init, Cleared
<1>4. OvershootIsBounded
  <2> SUFFICES ASSUME NEW x \in Tools, NEW p \in Params
               PROVE  Cardinality(Places(recent[x], p)) + Cardinality(Executing(x, p))
                        <= LoopThreshold - 2 + Cardinality(Workers)
    BY DEF OvershootIsBounded, Count, Places, Executing
  <2>1. Places(recent[x], p) = {} /\ Executing(x, p) = {}
    BY DEF Init, Places, Executing
  <2>2. Cardinality(Workers) \in Nat
    BY ConstantsAssumption, FS_CardinalityType
  <2> QED  BY <1>1, <2>1, <2>2, ConstantsAssumption
<1> QED  BY <1>2, <1>3, <1>4 DEF IInv

----------------------------------------------------------------------------
(* The inductive invariant holds in every behaviour.                       *)
THEOREM Invariance == Spec => []IInv
<1>1. Init => IInv
  BY InitIInv
<1>2. IInv /\ [Next]_vars => IInv'
  <2>1. ASSUME IInv, UNCHANGED vars
        PROVE  IInv'
    <3>1. TypeOK' /\ Cleared'
      BY <2>1 DEF IInv, TypeOK, Cleared, IsAdmin, Mutating, vars
    <3>2. OvershootIsBounded'
      BY <2>1 DEF IInv, OvershootIsBounded, Count, Guarded, vars
    <3> QED  BY <3>1, <3>2 DEF IInv
  <2>2. ASSUME IInv, Next
        PROVE  IInv'
    BY <2>2, TypeStep, ClearedStep, OvershootStep DEF IInv
  <2> QED  BY <2>1, <2>2
<1> QED  BY <1>1, <1>2, PTL DEF Spec

(* Turns, calls, lookups and windows have their types (admin_gate.py,      *)
(* loop_guard.py).                                                         *)
THEOREM TypeCorrect == Spec => []TypeOK
<1>1. IInv => TypeOK
  BY DEF IInv
<1> QED  BY <1>1, Invariance, PTL

(* Neither a late nor a missing answer of the lookup lets a mutating       *)
(* command of somebody through who was no admin during the call            *)
(* (admin_gate._wrap_one).                                                 *)
THEOREM OnlyAdminsMutate == Spec => []MutationsByAdmins
<1>1. IInv => MutationsByAdmins
  <2> SUFFICES ASSUME IInv, NEW w \in Workers, pos[w] = "executing",
                      call[w][1] = "bash", call[w][2] \in Mutations
               PROVE  cleared[w]
    BY DEF MutationsByAdmins
  <2>1. Mutating(w)
    BY DEF IInv, TypeOK, Mutating
  <2> QED  BY <2>1 DEF IInv, Cleared
<1> QED  BY <1>1, Invariance, PTL

(* Calls that pass the guard together, of one round or of several turns,   *)
(* overshoot its threshold by at most one for each other call in parallel  *)
(* (loop_guard._wrap_one).                                                 *)
THEOREM OvershootBounded == Spec => []OvershootIsBounded
<1>1. IInv => OvershootIsBounded
  BY DEF IInv
<1> QED  BY <1>1, Invariance, PTL

=============================================================================

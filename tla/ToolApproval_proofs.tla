------------------------- MODULE ToolApproval_proofs -------------------------
(***************************************************************************)
(* Proofs about ToolApproval, for every set of turns and every bound on    *)
(* the calls of a round and on the approvals.                              *)
(***************************************************************************)
EXTENDS ToolApproval, SequenceTheorems, TLAPS

(* Appending to a sequence, spelled out for the provers.                   *)
LEMMA AppendFacts ==
  ASSUME NEW S, NEW s \in Seq(S), NEW x \in S
  PROVE  /\ Append(s, x) \in Seq(S)
         /\ Len(Append(s, x)) = Len(s) + 1
         /\ DOMAIN s = 1..Len(s)
         /\ DOMAIN Append(s, x) = 1..(Len(s) + 1)
         /\ \A i \in DOMAIN s : Append(s, x)[i] = s[i]
         /\ Append(s, x)[Len(s) + 1] = x
<1>1. /\ Append(s, x) \in Seq(S)
      /\ Len(Append(s, x)) = Len(s) + 1
      /\ Append(s, x)[Len(s) + 1] = x
      /\ \A i \in 1..Len(s) : Append(s, x)[i] = s[i]
  BY AppendProperties
<1>2. /\ Len(s) \in Nat /\ DOMAIN s = 1..Len(s)
      /\ DOMAIN Append(s, x) = 1..Len(Append(s, x))
  BY <1>1
<1>3. QED
  BY <1>1, <1>2

(* A sequence with one more element has one more member.                   *)
LEMMA RangeAppend ==
  ASSUME NEW S, NEW s \in Seq(S), NEW x \in S
  PROVE  Range(Append(s, x)) = Range(s) \cup {x}
<1> DEFINE r == Append(s, x)
<1>1. /\ Len(s) \in Nat /\ DOMAIN s = 1..Len(s)
      /\ DOMAIN r = 1..(Len(s) + 1)
      /\ \A i \in DOMAIN s : r[i] = s[i]
      /\ r[Len(s) + 1] = x
  BY AppendFacts
<1> HIDE DEF r
<1>2. DOMAIN r = DOMAIN s \cup {Len(s) + 1}
  BY <1>1
<1>3. Range(r) = Range(s) \cup {x}
  BY <1>1, <1>2 DEF Range
<1>4. QED
  BY <1>3 DEF r

(* A sequence of approvals stays one when further approvals are asked.     *)
LEMMA SeqGrows ==
  ASSUME NEW m \in Nat, NEW n \in Nat, m <= n, NEW s \in Seq(1..m)
  PROVE  s \in Seq(1..n)
<1>1. s \in [1..Len(s) -> 1..m] /\ Len(s) \in Nat
  OBVIOUS
<1>2. s \in [1..Len(s) -> 1..n]
  BY <1>1
<1>3. QED
  BY <1>1, <1>2

(* The initial state satisfies the inductive invariant.                    *)
LEMMA InitIInv == Init => IInv
<1> SUFFICES ASSUME Init PROVE IInv
  OBVIOUS
<1> USE DEF Init
<1>1. TypeOK
  <2>1. <<>> \in Seq(Ask) /\ <<>> \in Seq(1..Len(asks)) /\ Len(asks) = 0
    OBVIOUS
  <2>2. decisions \in [Turns -> Seq(1..Len(asks))]
    BY <2>1
  <2>3. QED
    BY <2>1, <2>2 DEF TypeOK
<1>2. RoundState /\ AskState /\ HandedState /\ TableIsWhatIsAwaited
  BY DEF RoundState, AskState, HandedState, TableIsWhatIsAwaited
<1>3. QED
  BY <1>1, <1>2 DEF IInv

(* What happens to one request - it is shown, its send ends, somebody taps *)
(* its buttons, they vanish - preserves the invariant, provided an answer  *)
(* stays, an unanswered request stays answerable and an approved one was   *)
(* first tapped so.                                                        *)
LEMMA OneAskChanges ==
  ASSUME IInv, NEW a \in DOMAIN asks, NEW r \in Ask,
         asks' = [asks EXCEPT ![a] = r],
         UNCHANGED <<phase, current, left, decisions, table, handed>>,
         r.turn = asks[a].turn,
         ~Unresolved(a) => r.future = asks[a].future,
         r.future = "pending" =>
            /\ r.told = {} /\ r.first = "none" /\ r.message # "edited"
            /\ r.sending \/ r.message = "buttons",
         r.future = "approved" => r.first = "approved"
  PROVE  IInv'
<1> USE DEF IInv
<1>1. /\ asks' \in Seq(Ask) /\ Len(asks') = Len(asks)
      /\ DOMAIN asks' = DOMAIN asks /\ DOMAIN asks = 1..Len(asks)
      /\ asks'[a] = r
      /\ \A b \in DOMAIN asks : b # a => asks'[b] = asks[b]
  BY DEF TypeOK
<1>2. TypeOK'
  BY <1>1 DEF TypeOK
<1>3. \A b \in DOMAIN asks :
        /\ asks'[b].turn = asks[b].turn
        /\ ~Unresolved(b) => asks'[b].future = asks[b].future
  BY <1>1
<1>4. RoundState'
  <2>1. SUFFICES ASSUME NEW t \in Turns
                 PROVE  /\ phase[t] = "asking" => /\ current[t] # 0
                                                  /\ asks'[current[t]].turn = t
                        /\ \A i \in DOMAIN decisions[t] :
                              asks'[decisions[t][i]].future # "pending"
    BY DEF RoundState, Unresolved
  <2>2. phase[t] = "asking" => current[t] # 0 /\ asks'[current[t]].turn = t
    BY <1>1, <1>3 DEF RoundState, TypeOK
  <2>3. ASSUME NEW i \in DOMAIN decisions[t]
        PROVE  asks'[decisions[t][i]].future # "pending"
    <3>1. decisions[t][i] \in DOMAIN asks
      BY <1>1 DEF TypeOK
    <3>2. QED
      BY <1>3, <3>1 DEF RoundState, Unresolved
  <2>4. QED
    BY <2>2, <2>3
<1>5. AskState'
  BY <1>1 DEF AskState, Unresolved
<1>6. HandedState'
  BY <1>1, <1>3 DEF HandedState, Unresolved, TypeOK
<1>7. TableIsWhatIsAwaited'
  BY DEF TableIsWhatIsAwaited
<1>8. QED
  BY <1>2, <1>4, <1>5, <1>6, <1>7

(* Asking about the next call of a round preserves the invariant: the new  *)
(* approval is nobody else's, and the entry that is removed is the one the *)
(* turn waited for.                                                        *)
LEMMA AskNextPreserves ==
  ASSUME IInv, NEW t \in Turns, NEW c, AskNext(t, c),
         IF phase[t] = "asking" THEN c = {current[t]} ELSE c = {},
         phase[t] = "asking" => ~Unresolved(current[t]),
         phase' = [phase EXCEPT ![t] = "asking"],
         NEW k \in Nat, left' = [left EXCEPT ![t] = k],
         NEW ds \in Seq(1..Len(asks)), decisions' = [decisions EXCEPT ![t] = ds],
         \A i \in DOMAIN ds : ~Unresolved(ds[i]),
         UNCHANGED handed
  PROVE  IInv'
<1> USE DEF IInv
<1> DEFINE n == Len(asks) + 1
<1>1. NewAsk(t) \in Ask
  BY DEF NewAsk, Ask
<1>2. /\ asks' \in Seq(Ask) /\ Len(asks') = n /\ Len(asks) \in Nat
      /\ DOMAIN asks = 1..Len(asks) /\ DOMAIN asks' = 1..n
      /\ \A b \in DOMAIN asks : asks'[b] = asks[b]
      /\ asks'[n] = NewAsk(t)
      /\ current' = [current EXCEPT ![t] = n]
      /\ table' = (table \ c) \cup {n}
  BY <1>1, AppendFacts DEF AskNext, TypeOK
<1>3. TypeOK'
  <2>1. phase' \in [Turns -> {"running", "asking", "ended"}] /\ left' \in [Turns -> Nat]
    BY DEF TypeOK
  <2>2. current' \in [Turns -> 0..Len(asks')]
    BY <1>2 DEF TypeOK
  <2>3. decisions' \in [Turns -> Seq(1..Len(asks'))]
    <3>1. \A u \in Turns : decisions[u] \in Seq(1..n)
      BY <1>2, SeqGrows DEF TypeOK
    <3>2. ds \in Seq(1..n)
      BY <1>2, SeqGrows
    <3>3. QED
      BY <1>2, <3>1, <3>2 DEF TypeOK
  <2>4. table' \subseteq 1..Len(asks') /\ handed' \subseteq 1..Len(asks')
    <3>1. table \subseteq 1..n /\ handed \subseteq 1..n /\ n \in 1..n
      BY <1>2 DEF TypeOK
    <3>2. QED
      BY <1>2, <3>1
  <2>5. QED
    BY <1>2, <2>1, <2>2, <2>3, <2>4 DEF TypeOK
<1>4. RoundState'
  <2>1. SUFFICES ASSUME NEW u \in Turns
                 PROVE  /\ phase'[u] = "asking" => /\ current'[u] # 0
                                                   /\ asks'[current'[u]].turn = u
                        /\ phase'[u] # "asking" =>
                              current'[u] = 0 /\ left'[u] = 0 /\ decisions'[u] = <<>>
                        /\ \A i \in DOMAIN decisions'[u] :
                              asks'[decisions'[u][i]].future # "pending"
    BY DEF RoundState, Unresolved
  <2>2. CASE u = t
    <3>1. phase'[t] = "asking" /\ current'[t] = n /\ decisions'[t] = ds
      BY <1>2 DEF TypeOK
    <3>2. asks'[n].turn = t /\ n # 0
      BY <1>2 DEF NewAsk
    <3>3. \A i \in DOMAIN ds : ds[i] \in DOMAIN asks
      BY <1>2
    <3>4. QED
      BY <1>2, <2>2, <3>1, <3>2, <3>3 DEF Unresolved
  <2>3. CASE u # t
    <3>1. /\ phase'[u] = phase[u] /\ current'[u] = current[u]
          /\ left'[u] = left[u] /\ decisions'[u] = decisions[u]
      BY <1>2, <2>3 DEF TypeOK
    <3>2. \A i \in DOMAIN decisions[u] : decisions[u][i] \in DOMAIN asks
      BY <1>2 DEF TypeOK
    <3>3. phase[u] = "asking" => current[u] # 0 /\ current[u] \in DOMAIN asks
      BY <1>2 DEF RoundState, TypeOK
    <3>4. QED
      BY <1>2, <3>1, <3>2, <3>3 DEF RoundState, Unresolved
  <2>4. QED
    BY <2>2, <2>3
<1>5. AskState'
  <2>1. ASSUME NEW b \in DOMAIN asks, asks[b].future = "pending"
        PROVE  b \in table /\ b \notin c
    BY <2>1 DEF AskState, Unresolved
  <2>2. QED
    BY <1>2, <2>1 DEF AskState, Unresolved, NewAsk
<1>6. HandedState'
  BY <1>2 DEF HandedState, TypeOK
<1>7. TableIsWhatIsAwaited'
  <2>1. ASSUME NEW u \in Turns, u # t, phase[u] = "asking"
        PROVE  current[u] \notin c
    BY <2>1 DEF RoundState
  <2>2. /\ {u \in Turns : phase'[u] = "asking"} =
              {u \in Turns : u # t /\ phase[u] = "asking"} \cup {t}
        /\ current'[t] = n
        /\ \A u \in Turns : u # t => current'[u] = current[u]
    BY <1>2 DEF TypeOK
  <2>3. table \ c = {current[u] : u \in {v \in Turns : v # t /\ phase[v] = "asking"}}
    BY <2>1 DEF TableIsWhatIsAwaited
  <2>4. QED
    BY <1>2, <2>2, <2>3 DEF TableIsWhatIsAwaited
<1>8. QED
  BY <1>3, <1>4, <1>5, <1>6, <1>7

(* The turn is over or back with Holmes: it waits for nothing.  Its entry  *)
(* is gone, and an approval it was waiting for is not left unanswered.     *)
LEMMA LeavesRoundPreserves ==
  ASSUME IInv, NEW t \in Turns, NEW p \in {"running", "ended"},
         phase' = [phase EXCEPT ![t] = p],
         current' = [current EXCEPT ![t] = 0],
         left' = [left EXCEPT ![t] = 0],
         decisions' = [decisions EXCEPT ![t] = <<>>],
         table' = table \ {current[t]},
         asks' \in Seq(Ask), DOMAIN asks' = DOMAIN asks, Len(asks') = Len(asks),
         \A b \in DOMAIN asks :
            \/ b # current[t] /\ asks'[b] = asks[b]
            \/ /\ b = current[t] /\ asks'[b].turn = asks[b].turn
               /\ asks'[b].future # "pending"
               /\ asks'[b].future = "approved" => asks[b].future = "approved"
               /\ asks[b].future = "approved" => asks'[b].future = "approved"
               /\ asks'[b].first = asks[b].first,
         handed' \subseteq 1..Len(asks),
         \A b \in handed' : asks[b].future = "approved"
  PROVE  IInv'
<1> USE DEF IInv
<1>1. DOMAIN asks = 1..Len(asks) /\ Len(asks) \in Nat
  BY DEF TypeOK
<1>2. TypeOK'
  <2>1. <<>> \in Seq(1..Len(asks))
    OBVIOUS
  <2>2. /\ phase' \in [Turns -> {"running", "asking", "ended"}]
        /\ current' \in [Turns -> 0..Len(asks')] /\ left' \in [Turns -> Nat]
        /\ decisions' \in [Turns -> Seq(1..Len(asks'))]
    BY <1>1, <2>1 DEF TypeOK
  <2>3. table' \subseteq 1..Len(asks') /\ handed' \subseteq 1..Len(asks')
    BY DEF TypeOK
  <2>4. QED
    BY <2>2, <2>3 DEF TypeOK
<1>3. \A u \in Turns : u # t =>
        /\ phase'[u] = phase[u] /\ current'[u] = current[u]
        /\ left'[u] = left[u] /\ decisions'[u] = decisions[u]
  BY DEF TypeOK
<1>4. phase'[t] = p /\ current'[t] = 0 /\ left'[t] = 0 /\ decisions'[t] = <<>>
  BY DEF TypeOK
<1>5. RoundState'
  <2>1. SUFFICES ASSUME NEW u \in Turns
                 PROVE  /\ phase'[u] = "asking" => /\ current'[u] # 0
                                                   /\ asks'[current'[u]].turn = u
                        /\ phase'[u] # "asking" =>
                              current'[u] = 0 /\ left'[u] = 0 /\ decisions'[u] = <<>>
                        /\ \A i \in DOMAIN decisions'[u] :
                              asks'[decisions'[u][i]].future # "pending"
    BY DEF RoundState, Unresolved
  <2>2. CASE u = t
    BY <1>4, <2>2
  <2>3. CASE u # t
    <3>1. \A i \in DOMAIN decisions[u] : decisions[u][i] \in DOMAIN asks
      BY <1>1 DEF TypeOK
    <3>2. phase[u] = "asking" => current[u] # 0 /\ current[u] \in DOMAIN asks
      BY <1>1 DEF RoundState, TypeOK
    <3>3. \A b \in DOMAIN asks :
            /\ asks'[b].turn = asks[b].turn
            /\ ~Unresolved(b) => asks'[b].future # "pending"
      BY DEF Unresolved
    <3>4. QED
      BY <1>3, <2>3, <3>1, <3>2, <3>3 DEF RoundState
  <2>4. QED
    BY <2>2, <2>3
<1>6. AskState'
  BY DEF AskState, Unresolved
<1>7. HandedState'
  BY <1>1 DEF HandedState
<1>8. TableIsWhatIsAwaited'
  <2>1. ASSUME NEW u \in Turns, u # t, phase[u] = "asking"
        PROVE  current[u] # current[t]
    <3>1. current[u] # 0 /\ asks[current[u]].turn = u
      BY <2>1 DEF RoundState
    <3>2. CASE phase[t] = "asking"
      BY <2>1, <3>1, <3>2 DEF RoundState
    <3>3. CASE phase[t] # "asking"
      BY <3>1, <3>3 DEF RoundState
    <3>4. QED
      BY <3>2, <3>3
  <2>2. {u \in Turns : phase'[u] = "asking"} =
           {u \in Turns : u # t /\ phase[u] = "asking"}
    BY <1>3, <1>4
  <2>3. 0 \notin table
    BY <1>1 DEF TypeOK
  <2>4. table \ {current[t]} =
           {current[u] : u \in {v \in Turns : v # t /\ phase[v] = "asking"}}
    <3>1. CASE phase[t] = "asking"
      BY <2>1, <3>1 DEF TableIsWhatIsAwaited
    <3>2. CASE phase[t] # "asking"
      BY <2>1, <2>3, <3>2 DEF TableIsWhatIsAwaited, RoundState
    <3>3. QED
      BY <3>1, <3>2
  <2>5. {current'[u] : u \in {v \in Turns : v # t /\ phase[v] = "asking"}} =
           {current[u] : u \in {v \in Turns : v # t /\ phase[v] = "asking"}}
    BY <1>3
  <2>6. table' = {current'[u] : u \in {v \in Turns : phase'[v] = "asking"}}
    BY <2>2, <2>4, <2>5
  <2>7. QED
    BY <2>6 DEF TableIsWhatIsAwaited
<1>9. QED
  BY <1>2, <1>5, <1>6, <1>7, <1>8

(* Every action preserves the invariant.                                   *)
LEMMA NextIInv == IInv /\ [Next]_vars => IInv'
<1> SUFFICES ASSUME IInv, [Next]_vars PROVE IInv'
  OBVIOUS
<1> USE DEF IInv
<1>a. DOMAIN asks = 1..Len(asks) /\ \A a \in DOMAIN asks : asks[a] \in Ask
  BY DEF TypeOK
<1>1. ASSUME NEW t \in Turns, NEW n \in 1..MaxCalls, ApprovalRequired(t, n)
      PROVE  IInv'
  <2>1. /\ phase[t] = "running" /\ phase' = [phase EXCEPT ![t] = "asking"]
        /\ left' = [left EXCEPT ![t] = n - 1] /\ AskNext(t, {})
        /\ decisions' = decisions /\ UNCHANGED handed
    BY <1>1 DEF ApprovalRequired
  <2>2. n - 1 \in Nat
    BY ConstantsAssumption
  <2>3. decisions' = [decisions EXCEPT ![t] = <<>>] /\ <<>> \in Seq(1..Len(asks))
    BY <2>1 DEF RoundState, TypeOK
  <2>4. PICK k \in Nat, ds \in Seq(1..Len(asks)) :
          /\ k = n - 1 /\ ds = <<>>
          /\ \A i \in DOMAIN ds : ~Unresolved(ds[i])
    <3>1. \A i \in DOMAIN <<>> : ~Unresolved(<<>>[i])
      OBVIOUS
    <3>2. QED
      BY <2>2, <2>3, <3>1
  <2>5. /\ phase[t] # "asking"
        /\ left' = [left EXCEPT ![t] = k] /\ decisions' = [decisions EXCEPT ![t] = ds]
    BY <2>1, <2>3, <2>4
  <2>6. QED
    BY <2>1, <2>4, <2>5, AskNextPreserves
<1>2. ASSUME NEW t \in Turns, AskAnotherCall(t)
      PROVE  IInv'
  <2> DEFINE ds == Append(decisions[t], current[t])
  <2>1. /\ phase[t] = "asking" /\ phase' = phase /\ ~Unresolved(current[t])
        /\ left' = [left EXCEPT ![t] = left[t] - 1] /\ left[t] > 0
        /\ decisions' = [decisions EXCEPT ![t] = ds]
        /\ AskNext(t, {current[t]}) /\ UNCHANGED handed
    BY <1>2 DEF AskAnotherCall
  <2>2. left[t] - 1 \in Nat /\ phase' = [phase EXCEPT ![t] = "asking"]
    BY <2>1 DEF TypeOK
  <2>3. current[t] \in 1..Len(asks) /\ decisions[t] \in Seq(1..Len(asks))
    BY <2>1 DEF TypeOK, RoundState
  <2>4. /\ ds \in Seq(1..Len(asks))
        /\ \A i \in DOMAIN ds :
              \/ ds[i] = current[t]
              \/ i \in DOMAIN decisions[t] /\ ds[i] = decisions[t][i]
    <3>1. /\ ds \in Seq(1..Len(asks)) /\ Len(decisions[t]) \in Nat
          /\ DOMAIN decisions[t] = 1..Len(decisions[t])
          /\ DOMAIN ds = 1..(Len(decisions[t]) + 1)
          /\ \A i \in DOMAIN decisions[t] : ds[i] = decisions[t][i]
          /\ ds[Len(decisions[t]) + 1] = current[t]
      BY <2>3, AppendFacts
    <3> HIDE DEF ds
    <3>2. \A i \in DOMAIN ds :
            i \in DOMAIN decisions[t] \/ i = Len(decisions[t]) + 1
      BY <3>1
    <3>3. QED
      BY <3>1, <3>2
  <2>5. \A i \in DOMAIN ds : ~Unresolved(ds[i])
    BY <2>1, <2>4 DEF RoundState
  <2> HIDE DEF ds
  <2>6. QED
    BY <2>1, <2>2, <2>4, <2>5, AskNextPreserves
<1>3. ASSUME NEW t \in Turns, Resume(t)
      PROVE  IInv'
  <2> DEFINE round == Append(decisions[t], current[t])
             ok == {j \in DOMAIN round : asks[round[j]].future = "approved"}
  <2>1. /\ phase[t] = "asking" /\ ~Unresolved(current[t]) /\ left[t] = 0
        /\ phase' = [phase EXCEPT ![t] = "running"]
        /\ decisions' = [decisions EXCEPT ![t] = <<>>]
        /\ handed' = handed \cup {round[i] : i \in ok}
        /\ table' = table \ {current[t]}
        /\ current' = [current EXCEPT ![t] = 0]
        /\ left' = left /\ asks' = asks
    BY <1>3 DEF Resume
  <2>2. current[t] \in 1..Len(asks) /\ decisions[t] \in Seq(1..Len(asks))
    BY <2>1 DEF TypeOK, RoundState
  <2>3. round \in Seq(1..Len(asks))
    BY <2>2, AppendFacts
  <2>4. \A i \in DOMAIN round : round[i] \in 1..Len(asks)
    BY <2>3
  <2> HIDE DEF round
  <2>5. /\ handed' \subseteq 1..Len(asks)
        /\ \A b \in handed' : asks[b].future = "approved"
    BY <2>1, <2>4 DEF TypeOK, HandedState
  <2>6. left' = [left EXCEPT ![t] = 0]
    BY <2>1 DEF TypeOK
  <2>7. asks' \in Seq(Ask) /\ DOMAIN asks' = DOMAIN asks /\ Len(asks') = Len(asks)
    BY <2>1 DEF TypeOK
  <2>8. \A b \in DOMAIN asks :
          \/ b # current[t] /\ asks'[b] = asks[b]
          \/ /\ b = current[t] /\ asks'[b].turn = asks[b].turn
             /\ asks'[b].future # "pending"
             /\ asks'[b].future = "approved" => asks[b].future = "approved"
             /\ asks[b].future = "approved" => asks'[b].future = "approved"
             /\ asks'[b].first = asks[b].first
    BY <2>1 DEF Unresolved
  <2>9. QED
    BY <2>1, <2>5, <2>6, <2>7, <2>8, LeavesRoundPreserves
<1>4. ASSUME NEW t \in Turns, EndTurn(t)
      PROVE  IInv'
  <2>1. /\ phase[t] = "running" /\ phase' = [phase EXCEPT ![t] = "ended"]
        /\ UNCHANGED <<current, left, decisions, asks, table, handed>>
    BY <1>4 DEF EndTurn
  <2>2. current[t] = 0 /\ left[t] = 0 /\ decisions[t] = <<>>
    BY <2>1 DEF RoundState
  <2>3. /\ current' = [current EXCEPT ![t] = 0] /\ left' = [left EXCEPT ![t] = 0]
        /\ decisions' = [decisions EXCEPT ![t] = <<>>]
        /\ table' = table \ {current[t]}
    BY <2>1, <2>2 DEF TypeOK
  <2>4. /\ asks' \in Seq(Ask) /\ DOMAIN asks' = DOMAIN asks /\ Len(asks') = Len(asks)
        /\ \A b \in DOMAIN asks : b # current[t] /\ asks'[b] = asks[b]
        /\ handed' \subseteq 1..Len(asks)
        /\ \A b \in handed' : asks[b].future = "approved"
    BY <1>a, <2>1, <2>2 DEF TypeOK, HandedState
  <2>5. QED
    BY <2>1, <2>3, <2>4, LeavesRoundPreserves
<1>5. ASSUME NEW t \in Turns, Timeout(t)
      PROVE  IInv'
  <2>1. /\ phase' = [phase EXCEPT ![t] = "ended"]
        /\ current' = [current EXCEPT ![t] = 0] /\ left' = [left EXCEPT ![t] = 0]
        /\ decisions' = [decisions EXCEPT ![t] = <<>>]
        /\ asks' = [a \in DOMAIN asks |->
                      IF a = current[t] /\ Unresolved(a)
                      THEN [asks[a] EXCEPT !.future = "cancelled"] ELSE asks[a]]
        /\ table' = table \ {current[t]} /\ handed' = handed
    BY <1>5 DEF Timeout
  <2>2. \A b \in DOMAIN asks :
          asks'[b] \in Ask /\ asks'[b] =
             IF b = current[t] /\ Unresolved(b)
             THEN [asks[b] EXCEPT !.future = "cancelled"] ELSE asks[b]
    BY <1>a, <2>1 DEF Ask
  <2>3. asks' \in Seq(Ask) /\ DOMAIN asks' = DOMAIN asks /\ Len(asks') = Len(asks)
    <3>1. asks' \in [1..Len(asks) -> Ask] /\ Len(asks) \in Nat
      BY <1>a, <2>1, <2>2 DEF TypeOK
    <3>2. asks' \in Seq(Ask) /\ Len(asks') = Len(asks)
      BY <3>1
    <3>3. QED
      BY <2>1, <3>2
  <2>4. \A b \in DOMAIN asks :
          \/ b # current[t] /\ asks'[b] = asks[b]
          \/ /\ b = current[t] /\ asks'[b].turn = asks[b].turn
             /\ asks'[b].future # "pending"
             /\ asks'[b].future = "approved" => asks[b].future = "approved"
             /\ asks[b].future = "approved" => asks'[b].future = "approved"
             /\ asks'[b].first = asks[b].first
    BY <1>a, <2>2 DEF Ask, Unresolved
  <2>5. handed' \subseteq 1..Len(asks) /\ \A b \in handed' : asks[b].future = "approved"
    BY <2>1 DEF TypeOK, HandedState
  <2>6. QED
    BY <2>1, <2>3, <2>4, <2>5, LeavesRoundPreserves
<1>6. ASSUME NEW a \in DOMAIN asks, MessageAppears(a)
      PROVE  IInv'
  <2> DEFINE r == [asks[a] EXCEPT !.message = "buttons"]
  <2>1. /\ asks[a].sending /\ asks[a].message = "absent"
        /\ asks' = [asks EXCEPT ![a] = r]
        /\ UNCHANGED <<phase, current, left, decisions, table, handed>>
    BY <1>6 DEF MessageAppears
  <2>2. /\ r \in Ask /\ r.turn = asks[a].turn /\ r.future = asks[a].future
        /\ r.told = asks[a].told /\ r.first = asks[a].first
        /\ r.message = "buttons"
    BY <1>a DEF Ask
  <2>3. asks[a].future = "approved" => asks[a].first = "approved"
    BY DEF AskState
  <2>4. asks[a].future = "pending" => asks[a].told = {} /\ asks[a].first = "none"
    BY DEF AskState, Unresolved
  <2> HIDE DEF r
  <2>5. QED
    BY <2>1, <2>2, <2>3, <2>4, OneAskChanges
<1>7. ASSUME NEW a \in DOMAIN asks, SendReturns(a)
      PROVE  IInv'
  <2> DEFINE r == [asks[a] EXCEPT !.sending = FALSE]
  <2>1. /\ asks[a].message # "absent"
        /\ asks' = [asks EXCEPT ![a] = r]
        /\ UNCHANGED <<phase, current, left, decisions, table, handed>>
    BY <1>7 DEF SendReturns
  <2>2. /\ r \in Ask /\ r.turn = asks[a].turn /\ r.future = asks[a].future
        /\ r.told = asks[a].told /\ r.first = asks[a].first
        /\ r.message = asks[a].message
        /\ asks[a].message \in {"absent", "buttons", "edited"}
    BY <1>a DEF Ask
  <2>3. asks[a].future = "approved" => asks[a].first = "approved"
    BY DEF AskState
  <2>4. asks[a].future = "pending" =>
          asks[a].told = {} /\ asks[a].first = "none" /\ asks[a].message # "edited"
    BY DEF AskState, Unresolved
  <2> HIDE DEF r
  <2>5. QED
    BY <2>1, <2>2, <2>3, <2>4, OneAskChanges
<1>8. ASSUME NEW a \in DOMAIN asks, SendRaises(a)
      PROVE  IInv'
  <2> DEFINE f == IF a \in table /\ Unresolved(a) THEN "denied" ELSE asks[a].future
             r == [asks[a] EXCEPT !.sending = FALSE, !.future = f]
  <2>1. /\ asks' = [asks EXCEPT ![a] = r]
        /\ UNCHANGED <<phase, current, left, decisions, table, handed>>
    BY <1>8 DEF SendRaises
  <2>2. r \in Ask /\ r.turn = asks[a].turn /\ r.future = f /\ r.first = asks[a].first
    BY <1>a DEF Ask
  <2>3. asks[a].future = "approved" => asks[a].first = "approved"
    BY DEF AskState
  <2>4. asks[a].future = "pending" => a \in table
    BY DEF AskState, Unresolved
  <2>5. /\ f # "pending" /\ (f = "approved" => asks[a].future = "approved")
        /\ ~Unresolved(a) => f = asks[a].future
    BY <2>4 DEF Unresolved
  <2> HIDE DEF r, f
  <2>6. QED
    BY <2>1, <2>2, <2>3, <2>5, OneAskChanges
<1>9. ASSUME NEW a \in DOMAIN asks, NEW v \in Verdict, Tap(a, v)
      PROVE  IInv'
  <2> DEFINE f == IF a \in table /\ Unresolved(a) THEN v ELSE asks[a].future
             g == IF a \in table /\ asks[a].first = "none" THEN v ELSE asks[a].first
             r == [asks[a] EXCEPT !.future = f, !.first = g, !.told = asks[a].told \cup {v}]
  <2>1. /\ asks' = [asks EXCEPT ![a] = r]
        /\ UNCHANGED <<phase, current, left, decisions, table, handed>>
    BY <1>9 DEF Tap
  <2>2. r \in Ask /\ r.turn = asks[a].turn /\ r.future = f /\ r.first = g
    BY <1>a DEF Ask, Verdict
  <2>3. asks[a].future = "approved" => asks[a].first = "approved"
    BY DEF AskState
  <2>4. asks[a].future = "pending" => a \in table /\ asks[a].first = "none"
    BY DEF AskState, Unresolved
  <2>5. /\ f # "pending" /\ (f = "approved" => g = "approved")
        /\ ~Unresolved(a) => f = asks[a].future
    BY <2>3, <2>4 DEF Unresolved, Verdict
  <2> HIDE DEF r, f, g
  <2>6. QED
    BY <2>1, <2>2, <2>5, OneAskChanges
<1>10. ASSUME NEW a \in DOMAIN asks, ButtonsVanish(a)
       PROVE  IInv'
  <2> DEFINE r == [asks[a] EXCEPT !.message = "edited"]
  <2>1. /\ asks[a].told # {} /\ asks' = [asks EXCEPT ![a] = r]
        /\ UNCHANGED <<phase, current, left, decisions, table, handed>>
    BY <1>10 DEF ButtonsVanish
  <2>2. /\ r \in Ask /\ r.turn = asks[a].turn /\ r.future = asks[a].future
        /\ r.first = asks[a].first
    BY <1>a DEF Ask
  <2>3. /\ asks[a].future = "approved" => asks[a].first = "approved"
        /\ asks[a].future # "pending"
    BY <2>1 DEF AskState, Unresolved
  <2> HIDE DEF r
  <2>4. QED
    BY <2>1, <2>2, <2>3, OneAskChanges
<1>11. CASE UNCHANGED vars
  BY <1>11 DEF vars, TypeOK, RoundState, AskState, HandedState,
               TableIsWhatIsAwaited, Unresolved
<1>12. QED
  BY <1>1, <1>2, <1>3, <1>4, <1>5, <1>6, <1>7, <1>8, <1>9, <1>10, <1>11 DEF Next

(* The inductive invariant holds in every reachable state.                 *)
THEOREM Invariance == Spec => []IInv
<1>1. Init => IInv
  BY InitIInv
<1>2. IInv /\ [Next]_vars => IInv'
  BY NextIInv
<1>3. QED
  BY <1>1, <1>2, PTL DEF Spec

(* The types of the state, for every set of turns.                         *)
THEOREM TypeCorrect == Spec => []TypeOK
<1>1. IInv => TypeOK
  BY DEF IInv
<1>2. QED
  BY <1>1, Invariance, PTL

(* Holmes executes a call only if the first tap on its request, while it   *)
(* was pending, was Approve.                                               *)
THEOREM OnlyApprovedExecuted == Spec => []ExecutedWasApproved
<1>1. IInv => ExecutedWasApproved
  BY DEF IInv, TypeOK, HandedState, AskState, ExecutedWasApproved
<1>2. QED
  BY <1>1, Invariance, PTL

(* _pending_approvals holds the approvals the turns wait for, no more and  *)
(* no fewer, however timeouts, taps and sends interleave.                  *)
THEOREM TableExact == Spec => []TableIsWhatIsAwaited
<1>1. IInv => TableIsWhatIsAwaited
  BY DEF IInv
<1>2. QED
  BY <1>1, Invariance, PTL

(* A wait can be answered as long as it lasts: the entry is there, and the *)
(* request is being sent or shows its buttons.                             *)
THEOREM WaitAnswerable == Spec => []WaitIsAnswerable
<1>1. IInv => WaitIsAnswerable
  <2> SUFFICES ASSUME IInv, NEW t \in Turns, phase[t] = "asking",
                      Unresolved(current[t])
               PROVE  /\ current[t] \in table
                      /\ asks[current[t]].sending \/ asks[current[t]].message = "buttons"
    BY DEF WaitIsAnswerable
  <2>1. current[t] \in DOMAIN asks
    BY DEF IInv, TypeOK, RoundState
  <2>2. QED
    BY <2>1 DEF IInv, AskState
<1>2. QED
  BY <1>1, Invariance, PTL

(* An answer - a verdict or the cancellation - never changes: the one that *)
(* comes first wins, and what comes late finds the future done.            *)
THEOREM AnswersFinal == Spec => AnswerIsFinal
<1> DEFINE Final == \A a \in DOMAIN asks :
                       ~Unresolved(a) => asks'[a].future = asks[a].future
<1>1. ASSUME IInv, [Next]_vars PROVE Final
  <2> SUFFICES ASSUME NEW a \in DOMAIN asks, ~Unresolved(a)
               PROVE  asks'[a].future = asks[a].future
    OBVIOUS
  <2>a. DOMAIN asks = 1..Len(asks) /\ asks \in Seq(Ask) /\ asks[a] \in Ask
    BY <1>1 DEF IInv, TypeOK
  <2>1. ASSUME NEW t \in Turns, NEW c, AskNext(t, c)
        PROVE  asks'[a] = asks[a]
    <3>1. NewAsk(t) \in Ask
      BY DEF NewAsk, Ask
    <3>2. QED
      BY <2>a, <2>1, <3>1, AppendFacts DEF AskNext
  <2>2. ASSUME NEW t \in Turns, NEW n \in 1..MaxCalls, ApprovalRequired(t, n)
        PROVE  asks'[a].future = asks[a].future
    BY <2>1, <2>2 DEF ApprovalRequired
  <2>3. ASSUME NEW t \in Turns, AskAnotherCall(t)
        PROVE  asks'[a].future = asks[a].future
    BY <2>1, <2>3 DEF AskAnotherCall
  <2>4. ASSUME NEW t \in Turns, Resume(t) \/ EndTurn(t)
        PROVE  asks'[a].future = asks[a].future
    BY <2>4 DEF Resume, EndTurn
  <2>5. ASSUME NEW t \in Turns, Timeout(t)
        PROVE  asks'[a].future = asks[a].future
    BY <2>5 DEF Timeout
  <2>6. ASSUME NEW b \in DOMAIN asks,
               MessageAppears(b) \/ SendReturns(b) \/ ButtonsVanish(b)
        PROVE  asks'[a].future = asks[a].future
    BY <2>a, <2>6 DEF MessageAppears, SendReturns, ButtonsVanish, Ask
  <2>7. ASSUME NEW b \in DOMAIN asks, SendRaises(b)
        PROVE  asks'[a].future = asks[a].future
    BY <2>a, <2>7 DEF SendRaises, Ask
  <2>8. ASSUME NEW b \in DOMAIN asks, NEW v \in Verdict, Tap(b, v)
        PROVE  asks'[a].future = asks[a].future
    BY <2>a, <2>8 DEF Tap, Ask
  <2>9. CASE UNCHANGED vars
    BY <2>9 DEF vars
  <2>10. QED
    BY <1>1, <2>2, <2>3, <2>4, <2>5, <2>6, <2>7, <2>8, <2>9 DEF Next
<1>2. IInv /\ [Next]_vars => [Final]_vars
  BY <1>1
<1>3. QED
  BY <1>2, Invariance, PTL DEF Spec, AnswerIsFinal

----------------------------------------------------------------------------
(* The refinement: what each step does to the rounds, to the answers and   *)
(* to what was executed.                                                   *)

(* The rounds are made of approvals that exist, and an approval some turn  *)
(* waits for is one of its round.                                          *)
LEMMA RoundMembers ==
  ASSUME IInv, NEW t \in Turns
  PROVE  /\ RoundOf(t) \subseteq DOMAIN asks
         /\ \A a \in RoundOf(t) : Unresolved(a) => a = current[t]
         /\ phase[t] = "asking" => current[t] \in RoundOf(t)
         /\ phase[t] # "asking" => RoundOf(t) = {} /\ current[t] = 0
<1> USE DEF IInv
<1>1. DOMAIN asks = 1..Len(asks) /\ Len(asks) \in Nat
  BY DEF TypeOK
<1>2. /\ decisions[t] \in Seq(1..Len(asks))
      /\ phase[t] = "asking" => current[t] \in 1..Len(asks)
      /\ phase[t] # "asking" => current[t] = 0
      /\ \A i \in DOMAIN decisions[t] : ~Unresolved(decisions[t][i])
  BY DEF TypeOK, RoundState
<1>3. \A i \in DOMAIN decisions[t] : decisions[t][i] \in 1..Len(asks)
  BY <1>2
<1>4. QED
  BY <1>1, <1>2, <1>3 DEF RoundOf, Range

(* Asking about a call puts a new approval, without an answer, into the    *)
(* round of the turn; the other rounds and the answers stay.               *)
LEMMA AskNextMaps ==
  ASSUME IInv, NEW t \in Turns, NEW c, AskNext(t, c),
         phase' = [phase EXCEPT ![t] = "asking"],
         \A u \in Turns : u # t => decisions'[u] = decisions[u],
         Range(decisions'[t]) = RoundOf(t)
  PROVE  /\ Futures' = Append(Futures, "pending")
         /\ Len(Futures) = Len(asks)
         /\ Rounds' = [Rounds EXCEPT ![t] = RoundOf(t) \cup {Len(asks) + 1}]
         /\ asks' = Append(asks, NewAsk(t))
<1> USE DEF IInv
<1> DEFINE n == Len(asks) + 1
           V == {"pending", "approved", "denied", "cancelled"}
<1>1. NewAsk(t) \in Ask /\ NewAsk(t).future = "pending" /\ asks \in Seq(Ask)
  BY DEF NewAsk, Ask, TypeOK
<1>2. /\ asks' \in Seq(Ask) /\ Len(asks) \in Nat
      /\ DOMAIN asks = 1..Len(asks) /\ DOMAIN asks' = 1..n
      /\ \A b \in DOMAIN asks : asks'[b] = asks[b]
      /\ asks'[n] = NewAsk(t)
      /\ current' = [current EXCEPT ![t] = n]
      /\ asks' = Append(asks, NewAsk(t))
  BY <1>1, AppendFacts DEF AskNext
<1>3. \A b \in DOMAIN asks : asks[b].future \in V
  <2>1. \A b \in DOMAIN asks : asks[b] \in Ask
    BY <1>1
  <2>2. \A r \in Ask : r.future \in V
    BY DEF Ask
  <2>3. QED
    BY <2>1, <2>2
<1>4. Futures \in [1..Len(asks) -> V]
  BY <1>2, <1>3 DEF Futures
<1>5. Futures \in Seq(V) /\ Len(Futures) = Len(asks)
  BY <1>2, <1>4
<1>6. /\ Append(Futures, "pending") \in [1..n -> V]
      /\ \A b \in DOMAIN asks : Append(Futures, "pending")[b] = Futures[b]
      /\ Append(Futures, "pending")[n] = "pending"
  <2>1. "pending" \in V /\ DOMAIN Futures = DOMAIN asks
    BY DEF Futures
  <2> DEFINE longer == Append(Futures, "pending")
  <2> HIDE DEF V
  <2>2. /\ longer \in Seq(V) /\ Len(longer) = Len(Futures) + 1
        /\ DOMAIN Futures = 1..Len(Futures)
        /\ DOMAIN longer = 1..(Len(Futures) + 1)
        /\ \A b \in DOMAIN Futures : longer[b] = Futures[b]
        /\ longer[Len(Futures) + 1] = "pending"
    BY <1>5, <2>1, AppendFacts
  <2> HIDE DEF longer
  <2>3. longer \in [1..Len(longer) -> V]
    BY <2>2
  <2>4. QED
    BY <1>5, <2>1, <2>2, <2>3 DEF longer
<1>7. Futures' = Append(Futures, "pending")
  <2>1. Futures' = [b \in 1..n |-> asks'[b].future]
    BY <1>2 DEF Futures
  <2>2. \A b \in 1..n : asks'[b].future = Append(Futures, "pending")[b]
    <3> SUFFICES ASSUME NEW b \in 1..n
                 PROVE  asks'[b].future = Append(Futures, "pending")[b]
      OBVIOUS
    <3>1. b \in DOMAIN asks \/ b = n
      BY <1>2
    <3>2. QED
      BY <1>1, <1>2, <1>6, <3>1 DEF Futures
  <2>3. QED
    BY <1>6, <2>1, <2>2
<1>8. ASSUME NEW u \in Turns
      PROVE  RoundOf(u)' = IF u = t THEN RoundOf(t) \cup {n} ELSE RoundOf(u)
  BY <1>2 DEF RoundOf, TypeOK
<1>9. Rounds' = [Rounds EXCEPT ![t] = RoundOf(t) \cup {n}]
  BY <1>8 DEF Rounds
<1>10. QED
  BY <1>2, <1>5, <1>7, <1>9

(* Both ways to ask are a Request.                                         *)
LEMMA AsksMap ==
  ASSUME IInv, RoundIsFresh, NEW t \in Turns,
         (\E n \in 1..MaxCalls : ApprovalRequired(t, n)) \/ AskAnotherCall(t)
  PROVE  Approval!Request(t) /\ RoundIsFresh'
<1> USE DEF IInv
<1>1. PICK c : AskNext(t, c)
  BY DEF ApprovalRequired, AskAnotherCall
<1>2. /\ phase' = [phase EXCEPT ![t] = "asking"]
      /\ \A u \in Turns : u # t => decisions'[u] = decisions[u]
      /\ handed' = handed
      /\ phase[t] # "ended"
  BY DEF ApprovalRequired, AskAnotherCall, TypeOK
<1>3. Range(decisions'[t]) = RoundOf(t) /\ \A a \in RoundOf(t) : ~Unresolved(a)
  <2>1. CASE \E n \in 1..MaxCalls : ApprovalRequired(t, n)
    <3>1. phase[t] = "running" /\ decisions' = decisions
      BY <2>1 DEF ApprovalRequired
    <3>2. RoundOf(t) = {} /\ decisions'[t] = <<>>
      BY <3>1 DEF RoundOf, RoundState
    <3>3. QED
      BY <3>2 DEF Range
  <2>2. CASE AskAnotherCall(t)
    <3>1. /\ phase[t] = "asking" /\ ~Unresolved(current[t])
          /\ decisions'[t] = Append(decisions[t], current[t])
      BY <2>2 DEF AskAnotherCall, TypeOK
    <3>2. current[t] \in 1..Len(asks) /\ decisions[t] \in Seq(1..Len(asks))
      BY <3>1 DEF TypeOK, RoundState
    <3>3. Range(decisions'[t]) = Range(decisions[t]) \cup {current[t]}
      BY <3>1, <3>2, RangeAppend
    <3>4. QED
      BY <3>1, <3>3, RoundMembers DEF RoundOf
  <2>3. QED
    BY <2>1, <2>2
<1>4. /\ Futures' = Append(Futures, "pending")
      /\ Len(Futures) = Len(asks)
      /\ Rounds' = [Rounds EXCEPT ![t] = RoundOf(t) \cup {Len(asks) + 1}]
      /\ asks' = Append(asks, NewAsk(t))
  BY <1>1, <1>2, <1>3, AskNextMaps
<1>5. Over' = Over /\ t \notin Over
  BY <1>2 DEF Over, TypeOK
<1>6. Rounds[t] = RoundOf(t) /\ \A a \in Rounds[t] : Futures[a] # "pending"
  BY <1>3, RoundMembers DEF Rounds, Futures, Unresolved
<1>7. Approval!Request(t)
  BY <1>2, <1>4, <1>5, <1>6 DEF Approval!Request, Approval!Pending
<1>8. RoundIsFresh'
  <2>1. /\ Len(asks) \in Nat /\ DOMAIN asks = 1..Len(asks)
        /\ DOMAIN asks' = 1..(Len(asks) + 1)
        /\ \A b \in DOMAIN asks : asks'[b] = asks[b]
        /\ asks'[Len(asks) + 1] = NewAsk(t)
    <3>1. NewAsk(t) \in Ask /\ asks \in Seq(Ask)
      BY DEF NewAsk, Ask, TypeOK
    <3>2. QED
      BY <1>4, <3>1, AppendFacts
  <2>2. \A u \in Turns :
          RoundOf(u)' = IF u = t THEN RoundOf(t) \cup {Len(asks) + 1} ELSE RoundOf(u)
    <3>1. \A u \in Turns : Rounds[u] = RoundOf(u) /\ Rounds'[u] = RoundOf(u)'
      BY DEF Rounds
    <3>2. QED
      BY <1>4, <3>1 DEF Rounds
  <2>3. Len(asks) + 1 \notin handed /\ NewAsk(t).turn = t
    BY <2>1 DEF TypeOK, NewAsk
  <2>4. SUFFICES ASSUME NEW u \in Turns, NEW a \in RoundOf(u)'
                 PROVE  a \in DOMAIN asks' /\ asks'[a].turn = u /\ a \notin handed
    BY <1>2 DEF RoundIsFresh
  <2>5. CASE a \in RoundOf(u)
    BY <2>1, <2>5 DEF RoundIsFresh
  <2>6. CASE a \notin RoundOf(u)
    BY <2>1, <2>2, <2>3, <2>6
  <2>7. QED
    BY <2>5, <2>6
<1>9. QED
  BY <1>7, <1>8

(* Leaving a round: the turn's round is empty, the others stay and, when   *)
(* nothing but calls of that round is executed, are still fresh.           *)
LEMMA RoundLeft ==
  ASSUME IInv, RoundIsFresh, NEW t \in Turns,
         NEW p \in {"running", "ended"}, phase' = [phase EXCEPT ![t] = p],
         current' = [current EXCEPT ![t] = 0],
         decisions' = [decisions EXCEPT ![t] = <<>>],
         DOMAIN asks' = DOMAIN asks,
         \A b \in DOMAIN asks : asks'[b].turn = asks[b].turn,
         handed' \subseteq handed \cup RoundOf(t)
  PROVE  Rounds' = [Rounds EXCEPT ![t] = {}] /\ RoundIsFresh'
<1> USE DEF IInv
<1>1. ASSUME NEW u \in Turns
      PROVE  RoundOf(u)' = IF u = t THEN {} ELSE RoundOf(u)
  BY DEF RoundOf, TypeOK
<1>2. Rounds' = [Rounds EXCEPT ![t] = {}]
  BY <1>1 DEF Rounds
<1>3. SUFFICES ASSUME NEW u \in Turns, NEW a \in RoundOf(u)'
               PROVE  a \in DOMAIN asks /\ asks'[a].turn = u /\ a \notin handed'
  BY <1>2 DEF RoundIsFresh
<1>4. u # t /\ a \in RoundOf(u)
  BY <1>1
<1>5. a \in DOMAIN asks /\ asks[a].turn = u /\ a \notin handed /\ a \notin RoundOf(t)
  BY <1>4 DEF RoundIsFresh
<1>6. QED
  BY <1>5

(* Resuming the stream is an Execute.                                      *)
LEMMA ResumeMaps ==
  ASSUME IInv, RoundIsFresh, NEW t \in Turns, Resume(t)
  PROVE  Approval!Execute(t) /\ RoundIsFresh'
<1> USE DEF IInv
<1> DEFINE r == Append(decisions[t], current[t])
           ok == {j \in DOMAIN r : asks[r[j]].future = "approved"}
<1>1. /\ phase[t] = "asking" /\ ~Unresolved(current[t])
      /\ phase' = [phase EXCEPT ![t] = "running"]
      /\ decisions' = [decisions EXCEPT ![t] = <<>>]
      /\ current' = [current EXCEPT ![t] = 0]
      /\ handed' = handed \cup {r[i] : i \in ok}
      /\ asks' = asks
  BY DEF Resume
<1>2. Range(r) = RoundOf(t)
  <2>1. current[t] \in 1..Len(asks) /\ decisions[t] \in Seq(1..Len(asks))
    BY <1>1 DEF TypeOK, RoundState
  <2>2. QED
    BY <1>1, <2>1, RangeAppend DEF RoundOf
<1> HIDE DEF r
<1>3. {r[i] : i \in ok} = {a \in RoundOf(t) : asks[a].future = "approved"}
  BY <1>2 DEF Range
<1>4. /\ RoundOf(t) \subseteq DOMAIN asks /\ RoundOf(t) # {}
      /\ \A a \in RoundOf(t) : ~Unresolved(a)
      /\ RoundOf(t) \cap handed = {}
  BY <1>1, RoundMembers DEF RoundIsFresh
<1>5. /\ Rounds[t] = RoundOf(t) /\ Futures' = Futures
      /\ Over' = Over /\ t \notin Over
      /\ \A a \in RoundOf(t) : Futures[a] = asks[a].future
  BY <1>1, <1>4 DEF Rounds, Futures, Over, TypeOK
<1>6. Rounds' = [Rounds EXCEPT ![t] = {}] /\ RoundIsFresh'
  BY <1>1, <1>3, RoundLeft
<1>7. handed' = handed \cup {a \in Rounds[t] : Futures[a] = "approved"}
  BY <1>1, <1>3, <1>5
<1>8. \A a \in Rounds[t] : Futures[a] # "pending"
  BY <1>4, <1>5 DEF Unresolved
<1>9. QED
  BY <1>4, <1>5, <1>6, <1>7, <1>8 DEF Approval!Execute, Approval!Pending

(* The end of a turn and its timeout are a Close: what is cancelled is the *)
(* one call of its round that has no answer.                               *)
LEMMA EndsMap ==
  ASSUME IInv, RoundIsFresh, NEW t \in Turns, EndTurn(t) \/ Timeout(t)
  PROVE  Approval!Close(t) /\ RoundIsFresh'
<1> USE DEF IInv
<1> DEFINE cut == [a \in DOMAIN asks |->
                     IF a = current[t] /\ Unresolved(a)
                     THEN [asks[a] EXCEPT !.future = "cancelled"] ELSE asks[a]]
<1>1. /\ phase[t] # "ended" /\ phase' = [phase EXCEPT ![t] = "ended"]
      /\ current' = [current EXCEPT ![t] = 0]
      /\ decisions' = [decisions EXCEPT ![t] = <<>>]
      /\ handed' = handed
      /\ asks' = cut
  <2>1. CASE EndTurn(t)
    <3>1. /\ phase[t] = "running" /\ phase' = [phase EXCEPT ![t] = "ended"]
          /\ UNCHANGED <<current, decisions, asks, handed>>
      BY <2>1 DEF EndTurn
    <3>2. current[t] = 0 /\ decisions[t] = <<>>
      BY <3>1 DEF RoundState
    <3>3. /\ current' = [current EXCEPT ![t] = 0]
          /\ decisions' = [decisions EXCEPT ![t] = <<>>]
      BY <3>1, <3>2 DEF TypeOK
    <3>4. asks = cut
      <4>1. 0 \notin DOMAIN asks /\ asks = [a \in DOMAIN asks |-> asks[a]]
        BY DEF TypeOK
      <4>2. QED
        BY <3>2, <4>1
    <3>5. QED
      BY <3>1, <3>3, <3>4
  <2>2. CASE Timeout(t)
    BY <2>2 DEF Timeout
  <2>3. QED
    BY <2>1, <2>2
<1>2. /\ DOMAIN cut = DOMAIN asks
      /\ \A b \in DOMAIN asks : asks[b] \in Ask
  BY DEF TypeOK
<1>3. \A b \in DOMAIN asks :
        /\ cut[b].turn = asks[b].turn
        /\ cut[b].future = IF b = current[t] /\ Unresolved(b) THEN "cancelled"
                                                             ELSE asks[b].future
  BY <1>2 DEF Ask
<1> HIDE DEF cut
<1>4. Rounds' = [Rounds EXCEPT ![t] = {}] /\ RoundIsFresh'
  BY <1>1, <1>2, <1>3, RoundLeft
<1>5. \A b \in DOMAIN asks :
        b = current[t] /\ Unresolved(b) <=> b \in RoundOf(t) /\ Unresolved(b)
  <2>1. CASE phase[t] = "asking"
    BY <2>1, RoundMembers
  <2>2. CASE phase[t] # "asking"
    <3>1. RoundOf(t) = {} /\ current[t] = 0 /\ 0 \notin DOMAIN asks
      BY <2>2, RoundMembers DEF TypeOK
    <3>2. QED
      BY <3>1
  <2>3. QED
    BY <2>1, <2>2
<1>6. Futures' = [a \in DOMAIN Futures |->
                    IF a \in Rounds[t] /\ Futures[a] = "pending"
                    THEN "cancelled" ELSE Futures[a]]
  BY <1>1, <1>2, <1>3, <1>5 DEF Futures, Rounds, Unresolved
<1>7. Over' = Over \cup {t} /\ t \notin Over
  BY <1>1 DEF Over, TypeOK
<1>8. QED
  BY <1>1, <1>4, <1>6, <1>7 DEF Approval!Close, Approval!Pending

(* What happens to one request is an Answer if it had none, and otherwise  *)
(* nothing the abstract state shows.                                       *)
LEMMA OneAskMaps ==
  ASSUME IInv, RoundIsFresh, NEW a \in DOMAIN asks, NEW r,
         asks' = [asks EXCEPT ![a] = r],
         UNCHANGED <<phase, current, decisions, handed>>,
         r.turn = asks[a].turn,
         \/ r.future = asks[a].future
         \/ Unresolved(a) /\ r.future \in Verdict
  PROVE  /\ \/ \E v \in {"approved", "denied"} : Approval!Answer(a, v)
            \/ UNCHANGED <<Futures, Rounds, handed, Over>>
         /\ RoundIsFresh'
<1> USE DEF IInv
<1>1. /\ DOMAIN asks' = DOMAIN asks /\ asks'[a] = r
      /\ \A b \in DOMAIN asks : b # a => asks'[b] = asks[b]
  BY DEF TypeOK
<1>2. Rounds' = Rounds /\ Over' = Over /\ \A t \in Turns : RoundOf(t)' = RoundOf(t)
  BY DEF Rounds, RoundOf, Over
<1>3. Futures' = [Futures EXCEPT ![a] = r.future]
  BY <1>1 DEF Futures
<1>4. RoundIsFresh'
  BY <1>1, <1>2 DEF RoundIsFresh
<1>5. CASE r.future = asks[a].future
  <2>1. Futures' = Futures
    BY <1>3, <1>5 DEF Futures
  <2>2. QED
    BY <1>2, <1>4, <2>1
<1>6. CASE Unresolved(a) /\ r.future \in Verdict
  <2>1. Futures[a] = "pending" /\ r.future \in {"approved", "denied"}
    BY <1>6 DEF Futures, Unresolved, Verdict
  <2>2. Approval!Answer(a, r.future)
    BY <1>2, <1>3, <2>1 DEF Approval!Answer, Approval!Pending
  <2>3. QED
    BY <1>4, <2>1, <2>2
<1>7. QED
  BY <1>5, <1>6

(* Every step is a step of ApprovalService or leaves it alone.             *)
LEMMA StepApproval ==
  IInv /\ RoundIsFresh /\ [Next]_vars =>
     [Approval!Next]_<<Futures, Rounds, handed, Over>> /\ RoundIsFresh'
<1> SUFFICES ASSUME IInv, RoundIsFresh, [Next]_vars
             PROVE  /\ Approval!Next \/ UNCHANGED <<Futures, Rounds, handed, Over>>
                    /\ RoundIsFresh'
  OBVIOUS
<1>0. DOMAIN Futures = DOMAIN asks /\ DOMAIN asks = 1..Len(asks)
      /\ \A a \in DOMAIN asks : asks[a] \in Ask
  BY DEF Futures, IInv, TypeOK
<1>1. ASSUME NEW t \in Turns,
             (\E n \in 1..MaxCalls : ApprovalRequired(t, n)) \/ AskAnotherCall(t)
      PROVE  Approval!Next /\ RoundIsFresh'
  BY <1>1, AsksMap DEF Approval!Next
<1>2. ASSUME NEW t \in Turns, Resume(t)
      PROVE  Approval!Next /\ RoundIsFresh'
  BY <1>2, ResumeMaps DEF Approval!Next
<1>3. ASSUME NEW t \in Turns, EndTurn(t) \/ Timeout(t)
      PROVE  Approval!Next /\ RoundIsFresh'
  BY <1>3, EndsMap DEF Approval!Next
<1>4. ASSUME NEW a \in DOMAIN asks,
             \/ MessageAppears(a) \/ SendReturns(a) \/ SendRaises(a)
             \/ (\E v \in Verdict : Tap(a, v)) \/ ButtonsVanish(a)
      PROVE  /\ Approval!Next \/ UNCHANGED <<Futures, Rounds, handed, Over>>
             /\ RoundIsFresh'
  <2>1. PICK r : /\ asks' = [asks EXCEPT ![a] = r]
                 /\ UNCHANGED <<phase, current, decisions, handed>>
                 /\ r.turn = asks[a].turn
                 /\ \/ r.future = asks[a].future
                    \/ Unresolved(a) /\ r.future \in Verdict
    <3>1. CASE MessageAppears(a)
      <4> DEFINE r == [asks[a] EXCEPT !.message = "buttons"]
      <4>1. r.turn = asks[a].turn /\ r.future = asks[a].future
        BY <1>0 DEF Ask
      <4>2. asks' = [asks EXCEPT ![a] = r]
        BY <3>1 DEF MessageAppears
      <4>3. QED
        BY <3>1, <4>1, <4>2 DEF MessageAppears
    <3>2. CASE SendReturns(a)
      <4> DEFINE r == [asks[a] EXCEPT !.sending = FALSE]
      <4>1. r.turn = asks[a].turn /\ r.future = asks[a].future
        BY <1>0 DEF Ask
      <4>2. asks' = [asks EXCEPT ![a] = r]
        BY <3>2 DEF SendReturns
      <4>3. QED
        BY <3>2, <4>1, <4>2 DEF SendReturns
    <3>3. CASE SendRaises(a)
      <4> DEFINE f == IF a \in table /\ Unresolved(a) THEN "denied" ELSE asks[a].future
                 r == [asks[a] EXCEPT !.sending = FALSE, !.future = f]
      <4>1. r.turn = asks[a].turn /\ r.future = f
        BY <1>0 DEF Ask
      <4>2. asks' = [asks EXCEPT ![a] = r]
        BY <1>0, <3>3 DEF SendRaises
      <4>3. QED
        BY <3>3, <4>1, <4>2 DEF SendRaises, Verdict
    <3>4. ASSUME NEW v \in Verdict, Tap(a, v)
          PROVE  \E r : /\ asks' = [asks EXCEPT ![a] = r]
                        /\ UNCHANGED <<phase, current, decisions, handed>>
                        /\ r.turn = asks[a].turn
                        /\ \/ r.future = asks[a].future
                           \/ Unresolved(a) /\ r.future \in Verdict
      <4> DEFINE f == IF a \in table /\ Unresolved(a) THEN v ELSE asks[a].future
                 g == IF a \in table /\ asks[a].first = "none" THEN v ELSE asks[a].first
                 r == [asks[a] EXCEPT !.future = f, !.first = g,
                                      !.told = asks[a].told \cup {v}]
      <4>1. r.turn = asks[a].turn /\ r.future = f
        BY <1>0 DEF Ask
      <4>2. asks' = [asks EXCEPT ![a] = r]
        BY <1>0, <3>4 DEF Tap
      <4>3. f = asks[a].future \/ (Unresolved(a) /\ f \in Verdict)
        OBVIOUS
      <4>4. UNCHANGED <<phase, current, decisions, handed>>
        BY <3>4 DEF Tap
      <4> HIDE DEF f, r
      <4>5. QED
        BY <4>1, <4>2, <4>3, <4>4
    <3>5. CASE ButtonsVanish(a)
      <4> DEFINE r == [asks[a] EXCEPT !.message = "edited"]
      <4>1. r.turn = asks[a].turn /\ r.future = asks[a].future
        BY <1>0 DEF Ask
      <4>2. asks' = [asks EXCEPT ![a] = r]
        BY <3>5 DEF ButtonsVanish
      <4>3. QED
        BY <3>5, <4>1, <4>2 DEF ButtonsVanish
    <3>6. QED
      BY <1>4, <3>1, <3>2, <3>3, <3>4, <3>5
  <2>2. /\ \/ \E v \in {"approved", "denied"} : Approval!Answer(a, v)
           \/ UNCHANGED <<Futures, Rounds, handed, Over>>
        /\ RoundIsFresh'
    BY <2>1, OneAskMaps
  <2>3. QED
    BY <1>0, <2>2 DEF Approval!Next
<1>5. CASE UNCHANGED vars
  BY <1>5 DEF vars, Futures, Rounds, RoundOf, Over, RoundIsFresh
<1>6. QED
  BY <1>1, <1>2, <1>3, <1>4, <1>5 DEF Next

(* The table, the futures, the buttons and the 240 s limit implement       *)
(* ApprovalService: one answer per call, each round executed once and only *)
(* when it is answered, nothing executed for a turn that is over.          *)
THEOREM ApprovalImplemented == Spec => ImplementsApproval
<1>1. Init => Approval!Init /\ RoundIsFresh
  <2> SUFFICES ASSUME Init PROVE Approval!Init /\ RoundIsFresh
    OBVIOUS
  <2>1. \A t \in Turns : RoundOf(t) = {}
    BY DEF Init, RoundOf
  <2>2. Futures = <<>> /\ Rounds = [t \in Turns |-> {}] /\ Over = {}
    BY <2>1 DEF Init, Futures, Rounds, Over
  <2>3. QED
    BY <2>1, <2>2 DEF Init, Approval!Init, RoundIsFresh
<1>2. IInv /\ RoundIsFresh /\ [Next]_vars =>
         [Approval!Next]_(Approval!avars) /\ RoundIsFresh'
  BY StepApproval DEF Approval!avars
<1>3. QED
  BY <1>1, <1>2, Invariance, PTL DEF Spec, ImplementsApproval, Approval!Spec

=============================================================================

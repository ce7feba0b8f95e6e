---------------------- MODULE ConversationTurns_proofs ----------------------
(***************************************************************************)
(* Proofs of the invariants of ConversationTurns, for any turns of any     *)
(* kind.                                                                   *)
(*                                                                         *)
(* What a save leaves in the document was decided when the turn loaded its *)
(* copy, so the inductive invariant is about the copies: which turns'      *)
(* messages they hold (CopyState), what they may lack (UpToDate), and      *)
(* which of their questions are still without an answer (AnswerState).     *)
(***************************************************************************)
EXTENDS ConversationTurns, TLAPS

(* The messages of s are whole turns.                                      *)
Whole(s) ==
    \A i, j \in DOMAIN s :
        /\ s[i] = s[j] => i = j
        /\ s[i].role = "assistant" => i > 1 /\ s[i - 1] = User(s[i].turn)

(* The questions in s have their answers, but for those of the turns X.    *)
AnsweredIn(s, X) ==
    \A i \in DOMAIN s : s[i].role = "user" /\ s[i].turn \notin X
        => i < Len(s) /\ s[i + 1] = Assistant(s[i].turn)

(* What is stored, or was until a /clear, comes from turns that have ended.*)
DocState ==
    /\ doc.id = 0 => doc.messages = <<>>
    /\ Whole(doc.messages)
    /\ \A m \in ToSet(doc.messages) \cup cleared : phase[m.turn] = "ended"
    /\ ToSet(doc.messages) \cap cleared = {}

(* The copy d of turn t holds whole turns, t's own and ended ones; when t  *)
(* loaded a document that has been deleted since, d cannot be stored any   *)
(* more, and when it loaded none d has nothing but t's messages.           *)
CopyOf(t, d) ==
    /\ Whole(d.messages)
    /\ \A m \in ToSet(d.messages) : m.turn = t \/ phase[m.turn] = "ended"
    /\ d.id = 0 => \A m \in ToSet(d.messages) : m.turn = t
    /\ d.id # 0 /\ d.id = doc.id => ToSet(d.messages) \cap cleared = {}

(* ... and as much of t itself as has happened.                            *)
CopyState ==
    \A t \in Turns : InTurn(t) =>
        /\ CopyOf(t, copy[t])
        /\ phase[t] = "loaded" => \A m \in ToSet(copy[t].messages) : m.turn # t
        /\ phase[t] = "asked" =>
              /\ copy[t].messages # <<>>
              /\ copy[t].messages[Len(copy[t].messages)] = User(t)
              /\ Assistant(t) \notin ToSet(copy[t].messages)

(* Questions without an answer are of broken turns, or asked right now.    *)
AnswerState ==
    /\ AnsweredIn(doc.messages, broken)
    /\ \A t \in Turns :
          InTurn(t) => AnsweredIn(copy[t].messages, broken \cup {t})

(* The topic's lock.                                                       *)
OneBatch ==
    \A t, u \in Turns :
        /\ Kind[t] = "batch" /\ Kind[u] = "batch"
        /\ InTurn(t) /\ InTurn(u)
        => t = u

(* A batch that nobody disturbed has all that is stored.                   *)
UpToDate ==
    \A t \in Turns :
        Kind[t] = "batch" /\ InTurn(t) /\ t \notin disturbed
            => ToSet(doc.messages) \subseteq ToSet(copy[t].messages)

IInv ==
    /\ TypeOK
    /\ DocState
    /\ CopyState
    /\ AnswerState
    /\ OneBatch
    /\ UpToDate
    /\ BatchesDoNotOverwrite

----------------------------------------------------------------------------
(* Appending a message, spelled out for the provers.                       *)
LEMMA AppendFacts ==
    ASSUME NEW s \in Seq(Message), NEW m \in Message
    PROVE  /\ Append(s, m) \in Seq(Message)
           /\ Len(Append(s, m)) = Len(s) + 1
           /\ DOMAIN Append(s, m) = 1 .. Len(s) + 1
           /\ DOMAIN s = 1 .. Len(s) /\ Len(s) \in Nat
           /\ \A i \in DOMAIN s : Append(s, m)[i] = s[i]
           /\ Append(s, m)[Len(s) + 1] = m
           /\ ToSet(Append(s, m)) = ToSet(s) \cup {m}
<1>1. /\ Append(s, m) \in Seq(Message)
      /\ Len(Append(s, m)) = Len(s) + 1
      /\ DOMAIN Append(s, m) = 1 .. Len(s) + 1
      /\ DOMAIN s = 1 .. Len(s) /\ Len(s) \in Nat
      /\ \A i \in DOMAIN s : Append(s, m)[i] = s[i]
      /\ Append(s, m)[Len(s) + 1] = m
  OBVIOUS
<1>2. \A x : x \in ToSet(Append(s, m)) <=> x \in ToSet(s) \cup {m}
  <2> TAKE x
  <2>1. ASSUME x \in ToSet(Append(s, m)) PROVE x \in ToSet(s) \cup {m}
    <3>1. PICK i \in DOMAIN Append(s, m) : x = Append(s, m)[i]
      BY <2>1 DEF ToSet
    <3>2. i = Len(s) + 1 \/ i \in DOMAIN s
      BY <1>1, <3>1
    <3> QED  BY <1>1, <3>1, <3>2 DEF ToSet
  <2>2. ASSUME x \in ToSet(s) \cup {m} PROVE x \in ToSet(Append(s, m))
    <3>1. CASE x \in ToSet(s)
      <4>1. PICK i \in DOMAIN s : x = s[i]
        BY <3>1 DEF ToSet
      <4>2. i \in DOMAIN Append(s, m) /\ x = Append(s, m)[i]
        BY <1>1, <4>1
      <4> QED  BY <4>2 DEF ToSet
    <3>2. CASE x = m
      <4>1. Len(s) + 1 \in DOMAIN Append(s, m) /\ x = Append(s, m)[Len(s) + 1]
        BY <1>1, <3>2
      <4> QED  BY <4>1 DEF ToSet
    <3> QED  BY <2>2, <3>1, <3>2
  <2> QED  BY <2>1, <2>2
<1> QED  BY <1>1, <1>2

LEMMA ToSetFacts ==
    ASSUME NEW s \in Seq(Message)
    PROVE  ToSet(s) \subseteq Message /\ (s = <<>> => ToSet(s) = {})
BY DEF ToSet

(* A question keeps whole turns whole ...                                  *)
LEMMA WholeUser ==
    ASSUME NEW s \in Seq(Message), Whole(s), NEW t \in Turns,
           \A m \in ToSet(s) : m.turn # t
    PROVE  Whole(Append(s, User(t)))
<1> DEFINE a == Append(s, User(t))
           n == Len(s) + 1
<1>1. User(t) \in Message /\ User(t).turn = t /\ User(t).role = "user"
  BY DEF User, Message
<1>2. /\ DOMAIN a = 1 .. n /\ DOMAIN s = 1 .. Len(s) /\ Len(s) \in Nat
      /\ \A i \in DOMAIN s : a[i] = s[i]
      /\ a[n] = User(t)
  BY <1>1, AppendFacts
<1>3. \A i \in DOMAIN s : s[i] # User(t)
  BY <1>1 DEF ToSet
<1> SUFFICES ASSUME NEW i \in DOMAIN a, NEW j \in DOMAIN a
             PROVE  /\ a[i] = a[j] => i = j
                    /\ a[i].role = "assistant" => i > 1 /\ a[i - 1] = User(a[i].turn)
  BY DEF Whole
<1>4. a[i] = a[j] => i = j
  <2>1. (i = n \/ i \in DOMAIN s) /\ (j = n \/ j \in DOMAIN s)
    BY <1>2
  <2> QED  BY <1>2, <1>3, <2>1 DEF Whole
<1>5. a[i].role = "assistant" => i > 1 /\ a[i - 1] = User(a[i].turn)
  <2> HAVE a[i].role = "assistant"
  <2>1. i \in DOMAIN s
    BY <1>1, <1>2
  <2>2. i > 1 /\ s[i - 1] = User(s[i].turn)
    BY <1>2, <2>1 DEF Whole
  <2>3. i - 1 \in DOMAIN s
    BY <1>2, <2>1, <2>2
  <2> QED  BY <1>2, <2>1, <2>2, <2>3
<1> QED  BY <1>4, <1>5

(* ... and so does the answer that follows it.                             *)
LEMMA WholeAssistant ==
    ASSUME NEW s \in Seq(Message), Whole(s), NEW t \in Turns,
           s # <<>>, s[Len(s)] = User(t), Assistant(t) \notin ToSet(s)
    PROVE  Whole(Append(s, Assistant(t)))
<1> DEFINE a == Append(s, Assistant(t))
           n == Len(s) + 1
<1>1. Assistant(t) \in Message /\ Assistant(t).turn = t
  BY DEF Assistant, Message
<1>2. /\ DOMAIN a = 1 .. n /\ DOMAIN s = 1 .. Len(s) /\ Len(s) \in Nat
      /\ \A i \in DOMAIN s : a[i] = s[i]
      /\ a[n] = Assistant(t)
  BY <1>1, AppendFacts
<1>3. \A i \in DOMAIN s : s[i] # Assistant(t)
  BY DEF ToSet
<1> SUFFICES ASSUME NEW i \in DOMAIN a, NEW j \in DOMAIN a
             PROVE  /\ a[i] = a[j] => i = j
                    /\ a[i].role = "assistant" => i > 1 /\ a[i - 1] = User(a[i].turn)
  BY DEF Whole
<1>4. a[i] = a[j] => i = j
  <2>1. (i = n \/ i \in DOMAIN s) /\ (j = n \/ j \in DOMAIN s)
    BY <1>2
  <2> QED  BY <1>2, <1>3, <2>1 DEF Whole
<1>5. a[i].role = "assistant" => i > 1 /\ a[i - 1] = User(a[i].turn)
  <2> HAVE a[i].role = "assistant"
  <2>1. CASE i \in DOMAIN s
    <3>1. i > 1 /\ s[i - 1] = User(s[i].turn)
      BY <1>2, <2>1 DEF Whole
    <3>2. i - 1 \in DOMAIN s
      BY <1>2, <2>1, <3>1
    <3> QED  BY <1>2, <2>1, <3>1, <3>2
  <2>2. CASE i = n
    <3>1. Len(s) \in DOMAIN s /\ Len(s) > 0
      BY <1>2
    <3>2. a[n - 1] = User(t) /\ n > 1
      BY <1>2, <3>1
    <3> QED  BY <1>1, <1>2, <2>2, <3>2
  <2> QED  BY <1>2, <2>1, <2>2
<1> QED  BY <1>4, <1>5

(* A question leaves the other questions' answers where they are ...       *)
LEMMA AnsweredUser ==
    ASSUME NEW s \in Seq(Message), NEW X, NEW t \in Turns, AnsweredIn(s, X)
    PROVE  AnsweredIn(Append(s, User(t)), X \cup {t})
<1> DEFINE a == Append(s, User(t))
<1>1. User(t) \in Message /\ User(t).turn = t
  BY DEF User, Message
<1>2. /\ DOMAIN a = 1 .. Len(s) + 1 /\ DOMAIN s = 1 .. Len(s) /\ Len(s) \in Nat
      /\ \A i \in DOMAIN s : a[i] = s[i]
      /\ a[Len(s) + 1] = User(t) /\ Len(a) = Len(s) + 1
  BY <1>1, AppendFacts
<1> HIDE DEF a
<1> SUFFICES ASSUME NEW i \in DOMAIN a, a[i].role = "user", a[i].turn \notin X \cup {t}
             PROVE  i < Len(a) /\ a[i + 1] = Assistant(a[i].turn)
  BY DEF AnsweredIn, a
<1>3. i \in DOMAIN s /\ a[i] = s[i]
  BY <1>1, <1>2
<1>4. i < Len(s) /\ s[i + 1] = Assistant(s[i].turn)
  BY <1>3 DEF AnsweredIn
<1>5. i + 1 \in DOMAIN s
  BY <1>2, <1>3, <1>4
<1> QED  BY <1>2, <1>3, <1>4, <1>5

(* ... and the answer to the last question leaves it no longer open.       *)
LEMMA AnsweredAssistant ==
    ASSUME NEW s \in Seq(Message), NEW X, NEW t \in Turns, Whole(s),
           AnsweredIn(s, X \cup {t}), s # <<>>, s[Len(s)] = User(t)
    PROVE  AnsweredIn(Append(s, Assistant(t)), X)
<1> DEFINE a == Append(s, Assistant(t))
<1>1. Assistant(t) \in Message /\ Assistant(t).role = "assistant"
  BY DEF Assistant, Message
<1>2. /\ DOMAIN a = 1 .. Len(s) + 1 /\ DOMAIN s = 1 .. Len(s) /\ Len(s) \in Nat
      /\ \A i \in DOMAIN s : a[i] = s[i]
      /\ a[Len(s) + 1] = Assistant(t) /\ Len(a) = Len(s) + 1
  BY <1>1, AppendFacts
<1> HIDE DEF a
<1> SUFFICES ASSUME NEW i \in DOMAIN a, a[i].role = "user", a[i].turn \notin X
             PROVE  i < Len(a) /\ a[i + 1] = Assistant(a[i].turn)
  BY DEF AnsweredIn, a
<1>3. i \in DOMAIN s /\ a[i] = s[i]
  BY <1>1, <1>2
<1>4. CASE s[i].turn = t
  <2>1. s[i] \in Message
    BY <1>3
  <2>2. s[i] = User(t)
    BY <1>3, <1>4, <2>1 DEF Message, User
  <2>3. Len(s) \in DOMAIN s
    BY <1>2
  <2>4. i = Len(s)
    BY <1>3, <2>2, <2>3 DEF Whole
  <2> QED  BY <1>2, <1>3, <1>4, <2>4
<1>5. CASE s[i].turn # t
  <2>1. i < Len(s) /\ s[i + 1] = Assistant(s[i].turn)
    BY <1>3, <1>5 DEF AnsweredIn
  <2>2. i + 1 \in DOMAIN s
    BY <1>2, <1>3, <2>1
  <2> QED  BY <1>2, <1>3, <2>1, <2>2
<1> QED  BY <1>4, <1>5

----------------------------------------------------------------------------
LEMMA InitIInv == Init => IInv
<1> SUFFICES ASSUME Init PROVE IInv
  OBVIOUS
<1>1. NoDoc \in [id : 0 .. 0, messages : Seq(Message)] /\ ToSet(<<>>) = {}
  BY DEF NoDoc, ToSet
<1>2. TypeOK
  BY <1>1, KindAssumption DEF Init, TypeOK, Document
<1>3. DocState
  BY <1>1 DEF Init, DocState, NoDoc, Whole
<1>4. \A t \in Turns : ~InTurn(t)
  BY DEF Init, InTurn
<1>5. AnswerState
  BY <1>4 DEF Init, AnswerState, AnsweredIn, NoDoc
<1> QED
  BY <1>2, <1>3, <1>4, <1>5
  DEF IInv, CopyState, OneBatch, UpToDate, BatchesDoNotOverwrite, Init

(* The steps of a turn before it loads the history, and its end without a  *)
(* save: the copies of the other turns stay as good as they were.          *)
LEMMA OutsideStep ==
    ASSUME IInv, NEW t \in Turns,
           UNCHANGED <<doc, docs, copy, cleared, lost, disturbed, broken>>,
           topic' \in BOOLEAN,
           NEW w \in {"creating", "welcoming", "ended"},
           phase' = [phase EXCEPT ![t] = w],
           phase[t] # "ended"
    PROVE  IInv'
<1> USE DEF IInv
<1>1. /\ phase'[t] = w
      /\ \A u \in Turns \ {t} : phase'[u] = phase[u]
      /\ \A u \in Turns : phase[u] = "ended" => phase'[u] = "ended"
      /\ \A u \in Turns : InTurn(u)' => InTurn(u) /\ u # t
  BY DEF TypeOK, InTurn
<1>2. TypeOK'
  BY DEF TypeOK, Document
<1>3. \A u \in Turns : ToSet(copy[u].messages) \subseteq Message
  BY ToSetFacts DEF TypeOK, Document
<1>4. ToSet(doc.messages) \cup cleared \subseteq Message
  BY ToSetFacts DEF TypeOK, Document
<1>5. DocState'
  BY <1>1, <1>4 DEF DocState, Message
<1>6. CopyState'
  <2> SUFFICES ASSUME NEW u \in Turns, InTurn(u)'
               PROVE  /\ CopyOf(u, copy[u])'
                      /\ phase'[u] = "loaded" => \A m \in ToSet(copy[u].messages) : m.turn # u
                      /\ phase'[u] = "asked" =>
                            /\ copy[u].messages # <<>>
                            /\ copy[u].messages[Len(copy[u].messages)] = User(u)
                            /\ Assistant(u) \notin ToSet(copy[u].messages)
    BY DEF CopyState
  <2>1. CopyOf(u, copy[u])'
    BY <1>1, <1>3 DEF CopyState, CopyOf, Message
  <2> QED  BY <1>1, <2>1 DEF CopyState
<1>7. OneBatch' /\ UpToDate'
  BY <1>1 DEF OneBatch, UpToDate
<1>8. AnswerState'
  BY <1>1 DEF AnswerState
<1> QED  BY <1>2, <1>5, <1>6, <1>7, <1>8 DEF BatchesDoNotOverwrite

LEMMA StartStep ==
    ASSUME IInv, NEW t \in Turns, Start(t)
    PROVE  IInv'
<1> USE DEF IInv
<1>1. /\ UNCHANGED <<topic, doc, docs, cleared, lost, disturbed, broken>>
      /\ phase'[t] = "loaded" /\ copy'[t] = doc /\ ~InTurn(t)
      /\ phase[t] # "ended"
      /\ \A u \in Turns \ {t} : phase'[u] = phase[u] /\ copy'[u] = copy[u]
      /\ \A u \in Turns : phase[u] = "ended" <=> phase'[u] = "ended"
      /\ \A u \in Turns \ {t} : InTurn(u)' <=> InTurn(u)
  BY DEF Start, Ready, TypeOK, InTurn
<1>2. TypeOK'
  BY DEF TypeOK, Document, Start
<1>3. \A u \in Turns : ToSet(copy[u].messages) \subseteq Message
  BY ToSetFacts DEF TypeOK, Document
<1>4. ToSet(doc.messages) \cup cleared \subseteq Message /\ (doc.messages = <<>> => ToSet(doc.messages) = {})
  BY ToSetFacts DEF TypeOK, Document
<1>5. DocState'
  BY <1>1, <1>4 DEF DocState, Message
<1>6. CopyState'
  <2> SUFFICES ASSUME NEW u \in Turns, InTurn(u)'
               PROVE  /\ CopyOf(u, copy[u])'
                      /\ phase'[u] = "loaded" => \A m \in ToSet(copy'[u].messages) : m.turn # u
                      /\ phase'[u] = "asked" =>
                            /\ copy'[u].messages # <<>>
                            /\ copy'[u].messages[Len(copy'[u].messages)] = User(u)
                            /\ Assistant(u) \notin ToSet(copy'[u].messages)
    BY DEF CopyState
  <2>1. CASE u = t
    <3>1. CopyOf(u, copy[u])'
      BY <1>1, <1>4, <2>1 DEF DocState, CopyOf, Message
    <3>2. \A m \in ToSet(copy'[u].messages) : m.turn # u
      BY <1>1, <1>4, <2>1 DEF DocState
    <3> QED  BY <1>1, <2>1, <3>1, <3>2
  <2>2. CASE u # t
    <3>1. CopyOf(u, copy[u])'
      BY <1>1, <1>3, <2>2 DEF CopyState, CopyOf, Message
    <3> QED  BY <1>1, <2>2, <3>1 DEF CopyState
  <2> QED  BY <2>1, <2>2
<1>7. OneBatch'
  <2>1. Kind[t] = "batch" => \A u \in Turns : Kind[u] = "batch" => ~InTurn(u)
    BY DEF Start
  <2> QED  BY <1>1, <2>1 DEF OneBatch
<1>8. UpToDate'
  BY <1>1 DEF UpToDate
<1>9. AnswerState'
  <2>1. AnsweredIn(doc.messages, broken \cup {t})
    BY DEF AnswerState, AnsweredIn
  <2> QED  BY <1>1, <2>1 DEF AnswerState
<1> QED  BY <1>1, <1>2, <1>5, <1>6, <1>7, <1>8, <1>9 DEF BatchesDoNotOverwrite

LEMMA AskStep ==
    ASSUME IInv, NEW t \in Turns, AskHolmes(t)
    PROVE  IInv'
<1> USE DEF IInv
<1> DEFINE s == copy[t].messages
<1>0. s \in Seq(Message) /\ User(t) \in Message /\ Assistant(t) \in Message
      /\ User(t) # Assistant(t) /\ User(t).turn = t /\ Assistant(t).turn = t
  BY DEF TypeOK, Document, User, Assistant, Message
<1>1. /\ UNCHANGED <<topic, doc, docs, cleared, lost, disturbed, broken>>
      /\ phase[t] = "loaded" /\ phase'[t] = "asked" /\ InTurn(t) /\ InTurn(t)'
      /\ copy'[t].id = copy[t].id /\ copy'[t].messages = Append(s, User(t))
      /\ \A u \in Turns \ {t} : phase'[u] = phase[u] /\ copy'[u] = copy[u]
      /\ \A u \in Turns : phase[u] = "ended" <=> phase'[u] = "ended"
      /\ \A u \in Turns \ {t} : InTurn(u)' <=> InTurn(u)
  BY DEF AskHolmes, TypeOK, Document, InTurn
<1>2. TypeOK'
  <2>1. copy[t] \in Document /\ Append(s, User(t)) \in Seq(Message)
    BY <1>0, AppendFacts DEF TypeOK
  <2>2. [copy[t] EXCEPT !.messages = Append(@, User(t))] \in Document
    BY <2>1 DEF Document
  <2>3. copy' \in [Turns -> Document] /\ Document' = Document
    BY <1>1, <2>2 DEF TypeOK, AskHolmes, Document
  <2>4. phase' \in [Turns -> {"idle", "creating", "welcoming", "loaded", "asked", "ended"}]
    BY DEF TypeOK, AskHolmes
  <2> QED  BY <1>1, <2>3, <2>4 DEF TypeOK
<1>3. \A u \in Turns : ToSet(copy[u].messages) \subseteq Message
  BY ToSetFacts DEF TypeOK, Document
<1>4. ToSet(doc.messages) \cup cleared \subseteq Message
  BY ToSetFacts DEF TypeOK, Document
<1>5. DocState'
  BY <1>1, <1>4 DEF DocState, Message
<1>6. CopyState'
  <2> SUFFICES ASSUME NEW u \in Turns, InTurn(u)'
               PROVE  /\ CopyOf(u, copy[u])'
                      /\ phase'[u] = "loaded" => \A m \in ToSet(copy'[u].messages) : m.turn # u
                      /\ phase'[u] = "asked" =>
                            /\ copy'[u].messages # <<>>
                            /\ copy'[u].messages[Len(copy'[u].messages)] = User(u)
                            /\ Assistant(u) \notin ToSet(copy'[u].messages)
    BY DEF CopyState
  <2>1. CASE u = t
    <3>1. /\ CopyOf(t, copy[t]) /\ \A m \in ToSet(s) : m.turn # t
      BY <1>1 DEF CopyState
    <3>2. Whole(Append(s, User(t)))
      BY <1>0, <3>1, WholeUser DEF CopyOf
    <3>3. /\ ToSet(Append(s, User(t))) = ToSet(s) \cup {User(t)}
          /\ Len(Append(s, User(t))) = Len(s) + 1
          /\ Append(s, User(t))[Len(s) + 1] = User(t)
          /\ Append(s, User(t)) # <<>>
      BY <1>0, AppendFacts
    <3>4. User(t) \notin cleared
      BY <1>0, <1>1 DEF DocState
    <3>5. CopyOf(u, copy[u])'
      <4>1. copy'[u].id = copy[t].id /\ ToSet(copy'[u].messages) = ToSet(s) \cup {User(t)}
        BY <1>1, <2>1, <3>3
      <4>2. Whole(copy'[u].messages)
        BY <1>1, <2>1, <3>2
      <4>3. \A m \in ToSet(s) : m.turn \in Turns
        BY <1>3 DEF Message
      <4>4. \A m \in ToSet(copy'[u].messages) : m.turn = u \/ phase'[m.turn] = "ended"
        BY <1>0, <1>1, <2>1, <3>1, <4>1, <4>3 DEF CopyOf
      <4>5. copy'[u].id = 0 => \A m \in ToSet(copy'[u].messages) : m.turn = u
        BY <1>0, <2>1, <3>1, <4>1 DEF CopyOf
      <4>6. copy'[u].id # 0 /\ copy'[u].id = doc.id => ToSet(copy'[u].messages) \cap cleared = {}
        BY <3>1, <3>4, <4>1 DEF CopyOf
      <4> QED  BY <1>1, <4>2, <4>4, <4>5, <4>6 DEF CopyOf
    <3>6. Assistant(t) \notin ToSet(Append(s, User(t)))
      BY <1>0, <3>1, <3>3
    <3> QED  BY <1>1, <2>1, <3>3, <3>5, <3>6
  <2>2. CASE u # t
    <3>1. CopyOf(u, copy[u])'
      BY <1>1, <1>3, <2>2 DEF CopyState, CopyOf, Message
    <3> QED  BY <1>1, <2>2, <3>1 DEF CopyState
  <2> QED  BY <2>1, <2>2
<1>7. OneBatch'
  BY <1>1 DEF OneBatch
<1>8. UpToDate'
  <2>1. ToSet(s) \subseteq ToSet(copy'[t].messages)
    BY <1>0, <1>1, AppendFacts
  <2> QED  BY <1>1, <2>1 DEF UpToDate
<1>9. AnswerState'
  <2>1. AnsweredIn(s, broken \cup {t})
    BY <1>1 DEF AnswerState
  <2>2. AnsweredIn(Append(s, User(t)), (broken \cup {t}) \cup {t})
    BY <1>0, <2>1, AnsweredUser
  <2>3. (broken \cup {t}) \cup {t} = broken \cup {t}
    OBVIOUS
  <2>4. AnsweredIn(copy'[t].messages, broken \cup {t})
    BY <1>1, <2>2, <2>3
  <2> QED  BY <1>1, <2>4 DEF AnswerState
<1> QED  BY <1>1, <1>2, <1>5, <1>6, <1>7, <1>8, <1>9 DEF BatchesDoNotOverwrite

(* A turn that saves c, its copy with or without an answer, and ends.      *)
LEMMA SaveStep ==
    ASSUME IInv, NEW t \in Turns, InTurn(t), NEW c \in Document,
           CopyOf(t, c), c.id = copy[t].id,
           ToSet(copy[t].messages) \subseteq ToSet(c.messages),
           SaveAndEnd(t, c),
           broken \subseteq broken', broken' \subseteq Turns,
           AnsweredIn(c.messages, broken')
    PROVE  IInv'
<1> USE DEF IInv
<1>1. /\ UNCHANGED <<topic, cleared>>
      /\ phase' = [phase EXCEPT ![t] = "ended"] /\ copy' = [copy EXCEPT ![t] = c]
      /\ phase'[t] = "ended" /\ copy'[t] = c
      /\ \A u \in Turns \ {t} : phase'[u] = phase[u] /\ copy'[u] = copy[u]
      /\ \A u \in Turns : phase[u] = "ended" => phase'[u] = "ended"
      /\ \A u \in Turns : InTurn(u)' => InTurn(u) /\ u # t
      /\ phase[t] # "ended"
  BY DEF SaveAndEnd, TypeOK, InTurn
<1>2. /\ doc \in Document /\ copy[t] \in Document /\ docs \in Nat
      /\ doc.id \in 0 .. docs /\ c.id \in 0 .. docs
      /\ doc.messages \in Seq(Message) /\ c.messages \in Seq(Message)
  BY DEF TypeOK, Document
<1>3. \/ doc' = doc
      \/ doc'.id = doc.id /\ doc.id # 0 /\ doc'.messages = c.messages /\ c.id \in {0, doc.id}
      \/ doc'.id = docs + 1 /\ doc.id = 0 /\ doc'.messages = c.messages /\ c.id = 0
  BY <1>2 DEF SaveAndEnd, Saved
<1>4. /\ doc'.id \in 0 .. docs' /\ docs' \in Nat /\ docs <= docs'
      /\ doc'.messages \in Seq(Message)
      /\ doc' \in [id : Nat, messages : Seq(Message)]
  <2>1. doc' \in [id : Nat, messages : Seq(Message)]
    BY <1>2 DEF SaveAndEnd, Saved, Document
  <2>2. docs' = IF doc'.id > docs THEN doc'.id ELSE docs
    BY DEF SaveAndEnd
  <2> QED  BY <1>2, <2>1, <2>2
<1>5. \A m \in ToSet(doc.messages) \cup ToSet(c.messages) \cup cleared : m \in Message
  BY <1>2, ToSetFacts DEF TypeOK
<1>6. lost' = lost \cup {<<m.turn, t>> : m \in ToSet(doc.messages) \ ToSet(doc'.messages)}
      /\ disturbed' = disturbed \cup DisturbedBy(t)
  BY DEF SaveAndEnd
<1>7. TypeOK'
  <2>1. lost' \subseteq Turns \X Turns
    BY <1>5, <1>6 DEF TypeOK, Message
  <2>2. disturbed' \subseteq Turns
    BY <1>6 DEF TypeOK, DisturbedBy
  <2>3. /\ doc' \in Document'
        /\ \A d \in Document : d \in Document'
    BY <1>2, <1>4 DEF Document
  <2>4. copy' \in [Turns -> Document']
    BY <1>1, <2>3 DEF TypeOK
  <2>5. phase' \in [Turns -> {"idle", "creating", "welcoming", "loaded", "asked", "ended"}]
    BY <1>1 DEF TypeOK
  <2> QED  BY <1>1, <1>4, <2>1, <2>2, <2>3, <2>4, <2>5 DEF TypeOK
<1>8. ToSet(c.messages) \cap cleared = {} \/ (c.id # 0 /\ c.id # doc.id)
  <2>1. CASE c.id = 0
    BY <1>1, <1>5, <2>1 DEF CopyOf, DocState
  <2>2. CASE c.id # 0
    BY <2>2 DEF CopyOf
  <2> QED  BY <2>1, <2>2
<1>9. DocState'
  <2>1. doc'.id = 0 => doc'.messages = <<>>
    BY <1>2, <1>3 DEF DocState
  <2>2. Whole(doc'.messages)
    BY <1>3 DEF DocState, CopyOf
  <2>3. \A m \in ToSet(doc'.messages) \cup cleared : phase'[m.turn] = "ended"
    <3>1. \A m \in ToSet(c.messages) : phase'[m.turn] = "ended"
      BY <1>1, <1>5 DEF CopyOf, Message
    <3>2. \A m \in ToSet(doc.messages) \cup cleared : phase'[m.turn] = "ended"
      BY <1>1, <1>5 DEF DocState, Message
    <3> QED  BY <1>3, <3>1, <3>2
  <2>4. ToSet(doc'.messages) \cap cleared = {}
    BY <1>3, <1>8 DEF DocState
  <2> QED  BY <1>1, <2>1, <2>2, <2>3, <2>4 DEF DocState
<1>10. CopyState'
  <2> SUFFICES ASSUME NEW u \in Turns, InTurn(u)'
               PROVE  /\ CopyOf(u, copy[u])'
                      /\ phase'[u] = "loaded" => \A m \in ToSet(copy'[u].messages) : m.turn # u
                      /\ phase'[u] = "asked" =>
                            /\ copy'[u].messages # <<>>
                            /\ copy'[u].messages[Len(copy'[u].messages)] = User(u)
                            /\ Assistant(u) \notin ToSet(copy'[u].messages)
    BY DEF CopyState
  <2>1. InTurn(u) /\ u # t /\ copy'[u] = copy[u] /\ phase'[u] = phase[u]
    BY <1>1
  <2>2. CopyOf(u, copy[u])'
    <3>1. copy[u].id \in 0 .. docs /\ \A m \in ToSet(copy[u].messages) : m \in Message
      BY ToSetFacts DEF TypeOK, Document
    <3>2. copy[u].id # 0 /\ copy[u].id = doc'.id => copy[u].id = doc.id
      BY <1>2, <1>3, <3>1
    <3>3. \A m \in ToSet(copy[u].messages) : m.turn = u \/ phase'[m.turn] = "ended"
      BY <1>1, <2>1, <3>1 DEF CopyState, CopyOf, Message
    <3> QED  BY <1>1, <2>1, <3>2, <3>3 DEF CopyState, CopyOf
  <2> QED  BY <2>1, <2>2 DEF CopyState
<1>11. OneBatch'
  BY <1>1 DEF OneBatch
<1>12. UpToDate'
  <2> SUFFICES ASSUME NEW u \in Turns, Kind[u] = "batch", InTurn(u)', u \notin disturbed'
               PROVE  ToSet(doc'.messages) \subseteq ToSet(copy'[u].messages)
    BY DEF UpToDate
  <2>1. InTurn(u) /\ u # t /\ u \notin disturbed
    BY <1>1, <1>6
  <2>2. Kind[t] # "batch"
    BY <2>1 DEF OneBatch
  <2> QED  BY <1>6, <2>1, <2>2 DEF DisturbedBy
<1>13. BatchesDoNotOverwrite'
  <2> SUFFICES ASSUME NEW p \in lost', \A v \in {p[1], p[2]} : Kind[v] = "batch",
                      p[2] \notin disturbed'
               PROVE  FALSE
    BY DEF BatchesDoNotOverwrite
  <2>1. p \notin lost
    BY <1>6 DEF BatchesDoNotOverwrite
  <2>2. PICK m \in ToSet(doc.messages) \ ToSet(doc'.messages) : p = <<m.turn, t>>
    BY <1>6, <2>1
  <2>3. Kind[t] = "batch" /\ t \notin disturbed
    BY <1>6, <2>2
  <2>4. m \in ToSet(c.messages)
    BY <2>2, <2>3 DEF UpToDate
  <2> QED  BY <1>3, <2>2, <2>4
<1>14. AnswerState'
  <2>1. AnsweredIn(doc.messages, broken')
    BY DEF AnswerState, AnsweredIn
  <2>2. AnsweredIn(doc'.messages, broken')
    BY <1>3, <2>1
  <2>3. ASSUME NEW u \in Turns, InTurn(u)'
        PROVE  AnsweredIn(copy'[u].messages, broken' \cup {u})
    <3>1. AnsweredIn(copy[u].messages, broken \cup {u})
      BY <1>1, <2>3 DEF AnswerState
    <3>2. AnsweredIn(copy[u].messages, broken' \cup {u})
      BY <3>1 DEF AnsweredIn
    <3> QED  BY <1>1, <2>3, <3>2
  <2> QED  BY <2>2, <2>3 DEF AnswerState
<1> QED  BY <1>7, <1>9, <1>10, <1>11, <1>12, <1>13, <1>14

LEMMA AnsweredStep ==
    ASSUME IInv, NEW t \in Turns, Answered(t)
    PROVE  IInv'
<1> USE DEF IInv
<1> DEFINE s == copy[t].messages
           d == [copy[t] EXCEPT !.messages = Append(@, Assistant(t))]
<1>1. /\ InTurn(t) /\ CopyOf(t, copy[t])
      /\ s # <<>> /\ s[Len(s)] = User(t) /\ Assistant(t) \notin ToSet(s)
  BY DEF Answered, InTurn, CopyState
<1>2. /\ copy[t] \in Document /\ s \in Seq(Message)
      /\ Assistant(t) \in Message /\ Assistant(t).turn = t
  BY DEF TypeOK, Document, Assistant, Message
<1>0. AnsweredIn(s, broken \cup {t}) /\ broken \subseteq Turns
  BY <1>1 DEF AnswerState, TypeOK
<1>3. CASE SaveAndEnd(t, copy[t]) /\ broken' = broken \cup {t}
  <2>1. broken \subseteq broken' /\ broken' \subseteq Turns /\ AnsweredIn(s, broken')
    BY <1>0, <1>3
  <2> QED  BY <1>1, <1>2, <1>3, <2>1, SaveStep
<1>4. CASE SaveAndEnd(t, d) /\ UNCHANGED broken
  <2>1. /\ Append(s, Assistant(t)) \in Seq(Message)
        /\ ToSet(Append(s, Assistant(t))) = ToSet(s) \cup {Assistant(t)}
    BY <1>2, AppendFacts
  <2>2. d \in Document /\ d.id = copy[t].id /\ d.messages = Append(s, Assistant(t))
    BY <1>2, <2>1 DEF Document
  <2>3. Whole(Append(s, Assistant(t)))
    BY <1>1, <1>2, WholeAssistant DEF CopyOf
  <2>4. Assistant(t) \notin cleared
    BY <1>1, <1>2 DEF DocState, InTurn
  <2>5. CopyOf(t, d)
    <3>1. \A m \in ToSet(d.messages) : m.turn = t \/ phase[m.turn] = "ended"
      BY <1>1, <1>2, <2>1, <2>2 DEF CopyOf
    <3>2. d.id = 0 => \A m \in ToSet(d.messages) : m.turn = t
      BY <1>1, <1>2, <2>1, <2>2 DEF CopyOf
    <3>3. d.id # 0 /\ d.id = doc.id => ToSet(d.messages) \cap cleared = {}
      BY <1>1, <2>1, <2>2, <2>4 DEF CopyOf
    <3> QED  BY <2>2, <2>3, <3>1, <3>2, <3>3 DEF CopyOf
  <2>6. AnsweredIn(Append(s, Assistant(t)), broken)
    BY <1>0, <1>1, <1>2, AnsweredAssistant DEF CopyOf
  <2>7. AnsweredIn(d.messages, broken')
    BY <1>4, <2>2, <2>6
  <2> QED  BY <1>0, <1>1, <1>4, <2>1, <2>2, <2>5, <2>7, SaveStep
<1> QED  BY <1>3, <1>4 DEF Answered

LEMMA ClearStep ==
    ASSUME IInv, Clear
    PROVE  IInv'
<1> USE DEF IInv
<1>1. /\ doc' = NoDoc /\ doc'.id = 0 /\ doc'.messages = <<>> /\ ToSet(doc'.messages) = {}
      /\ cleared' = cleared \cup ToSet(doc.messages)
      /\ UNCHANGED <<topic, docs, phase, copy, lost, disturbed, broken>>
  BY DEF Clear, NoDoc, ToSet
<1>2. TypeOK'
  <2>1. NoDoc \in Document /\ Document' = Document
    BY <1>1 DEF NoDoc, Document, TypeOK
  <2>2. cleared' \subseteq Message
    BY <1>1, ToSetFacts DEF TypeOK, Document
  <2> QED  BY <1>1, <2>1, <2>2 DEF TypeOK
<1>3. DocState'
  BY <1>1 DEF DocState, Whole
<1>4. CopyState'
  BY <1>1 DEF CopyState, CopyOf, InTurn
<1>5. OneBatch' /\ UpToDate' /\ BatchesDoNotOverwrite'
  BY <1>1 DEF OneBatch, UpToDate, BatchesDoNotOverwrite, InTurn
<1>6. AnswerState'
  BY <1>1 DEF AnswerState, AnsweredIn, InTurn
<1> QED  BY <1>2, <1>3, <1>4, <1>5, <1>6

----------------------------------------------------------------------------
(* The inductive invariant holds in every state, for any turns.            *)
THEOREM Invariance == Spec => []IInv
<1>1. IInv /\ [Next]_vars => IInv'
  <2> SUFFICES ASSUME IInv, [Next]_vars PROVE IInv'
    OBVIOUS
  <2>1. ASSUME NEW t \in Turns, Mention(t) \/ TopicCreated(t) \/ NoTurnInTopic(t)
        PROVE  IInv'
    <3>1. /\ UNCHANGED <<doc, docs, copy, cleared, lost, disturbed, broken>>
          /\ topic' \in BOOLEAN /\ phase[t] # "ended"
          /\ \E w \in {"creating", "welcoming", "ended"} : phase' = [phase EXCEPT ![t] = w]
      BY <2>1 DEF Mention, TopicCreated, NoTurnInTopic, IInv, TypeOK
    <3> QED  BY <3>1, OutsideStep
  <2>2. ASSUME NEW t \in Turns, Start(t) PROVE IInv'
    BY <2>2, StartStep
  <2>3. ASSUME NEW t \in Turns, AskHolmes(t) PROVE IInv'
    BY <2>3, AskStep
  <2>4. ASSUME NEW t \in Turns, Answered(t) PROVE IInv'
    BY <2>4, AnsweredStep
  <2>5. ASSUME NEW t \in Turns, Failed(t) PROVE IInv'
    <3>1. CASE /\ phase' = [phase EXCEPT ![t] = "ended"]
               /\ UNCHANGED <<topic, doc, docs, copy, cleared, lost, disturbed, broken>>
      <4>1. phase[t] # "ended" /\ topic' \in BOOLEAN
        BY <2>5, <3>1 DEF Failed, InTurn, IInv, TypeOK
      <4> QED  BY <3>1, <4>1, OutsideStep
    <3>2. CASE SaveAndEnd(t, copy[t]) /\ broken' = broken \cup {t}
      <4>1. InTurn(t) /\ copy[t] \in Document /\ CopyOf(t, copy[t])
        BY <2>5 DEF Failed, IInv, TypeOK, CopyState
      <4>2. AnsweredIn(copy[t].messages, broken') /\ broken \subseteq Turns
        BY <3>2, <4>1 DEF IInv, TypeOK, AnswerState
      <4> QED  BY <3>2, <4>1, <4>2, SaveStep
    <3> QED  BY <2>5, <3>1, <3>2 DEF Failed
  <2>6. CASE Clear
    BY <2>6, ClearStep
  <2>7. CASE UNCHANGED vars
    BY <2>7 DEF vars, IInv, TypeOK, Document, DocState, CopyState, CopyOf, AnswerState,
                AnsweredIn, InTurn, OneBatch, UpToDate, BatchesDoNotOverwrite
  <2> QED  BY <2>1, <2>2, <2>3, <2>4, <2>5, <2>6, <2>7 DEF Next
<1> QED  BY InitIInv, <1>1, PTL DEF Spec

(* The types of the state.                                                 *)
THEOREM TypeCorrect == Spec => []TypeOK
BY Invariance, PTL DEF IInv

(* Messages that /clear deleted never come back, whatever copies of them   *)
(* turns in progress still save (clear_command, save_conversation).        *)
THEOREM ClearedForGood == Spec => []ClearedStaysCleared
<1>1. IInv => ClearedStaysCleared
  BY DEF IInv, DocState, ClearedStaysCleared
<1> QED  BY Invariance, <1>1, PTL

(* A batch drops what another batch saved only if a turn without the       *)
(* topic's lock saved in between (_flush_batch).                           *)
THEOREM LockProtectsBatches == Spec => []BatchesDoNotOverwrite
BY Invariance, PTL DEF IInv

(* What is stored, and so given to Holmes, are whole turns, each once: an  *)
(* answer directly follows its question, and only turns that raised or     *)
(* were stopped before there was an answer leave a question without one.   *)
THEOREM StoredTurnsAreWhole == Spec => []HistoryIsWholeTurns
<1>1. IInv => HistoryIsWholeTurns
  BY DEF IInv, DocState, Whole, AnswerState, AnsweredIn, HistoryIsWholeTurns
<1> QED  BY Invariance, <1>1, PTL

=============================================================================

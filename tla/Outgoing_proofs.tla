--------------------------- MODULE Outgoing_proofs ---------------------------
(***************************************************************************)
(* Proofs about what the bot hands to the outside, two separate            *)
(* specifications: the files kept for a person and their sending (Outbox), *)
(* for any uploads, names, calls, time to live and number of tries; and    *)
(* the delivery of an answer (Delivery), for answers of any length and any *)
(* limit of at least two characters.                                       *)
(*                                                                         *)
(* KeptApart speaks of the end of an upload, but what it forbids happens   *)
(* at its beginning: two uploads on one path have met (Apart), the path of *)
(* a kept one exists and so is not chosen as free (FileExists), and only a *)
(* meeting upload empties it (StillThere).  VanishesByOthers needs to know *)
(* that a file found is there until another call removes it (Found).       *)
(*                                                                         *)
(* ShownOnce and ShownWhole count what is in the topic; what keeps them is *)
(* what is still to be sent: a position that is ahead has not been shown   *)
(* but for a lie (OnceState), one that is neither shown nor given up is    *)
(* ahead (WholeState), and no position is in two chunks (NoneTwice).  The  *)
(* chunks come from Split, a recursive function, and from FlattenSeq: what *)
(* these compute for every text is shown by induction (SetInduction, as    *)
(* the library's theorem has an operator for its parameter).               *)
(***************************************************************************)
EXTENDS Outbox, Delivery, WellFoundedInduction, SequenceTheorems,
        FiniteSetTheorems, TLAPS

(* Outbox *)

Active(u) == up[u] \in {"chosen", "copying", "kept"}

HasMet(u) == \E v \in Uploads : v # u /\ {u, v} \in met

DestOfName == \A u \in Uploads : Active(u) => dest[u] # NoPath /\ dest[u][1] = NameOf[u]

Apart ==
    \A u, v \in Uploads :
        u # v /\ Active(u) /\ Active(v) /\ dest[u] = dest[v] => {u, v} \in met

FileExists == \A u \in Uploads : up[u] = "kept" => dest[u] \in DOMAIN disk

Contents ==
    \A p \in DOMAIN disk : \A u \in disk[p].by : up[u] = "kept" /\ dest[u] = p

StillThere ==
    \A u \in Uploads : up[u] = "kept" => u \in disk[dest[u]].by \/ HasMet(u)

Found ==
    \A s \in Sends :
        at[s] \in {"resolved", "uploading"} => path[s] \in DOMAIN disk \/ others[s]

DiskInv == DestOfName /\ Apart /\ FileExists /\ Contents /\ StillThere

IInv == TypeOK /\ DiskInv /\ Found /\ VanishesByOthers

----------------------------------------------------------------------------
(* Types *)

LEMMA PathTypes ==
    ASSUME TypeOK, NEW u \in Uploads
    PROVE  PlainOf(u) \in Paths /\ FreeName(u) \in Paths
<1>1. NameOf[u] \in Range(NameOf)
  BY ConstantsAssumption DEF Range
<1>2. now \in 0 .. MaxTime \cup {Plain} /\ Plain \in 0 .. MaxTime \cup {Plain}
  BY DEF TypeOK
<1> QED  BY <1>1, <1>2 DEF PlainOf, FreeName, Paths

(* What one removal changes.                                               *)
Removed(s, gone) ==
    /\ DOMAIN disk' = DOMAIN disk \ gone
    /\ \A p \in DOMAIN disk' : disk'[p] = disk[p]
    /\ up' = [u \in Uploads |-> IF up[u] = "kept" /\ dest[u] \in gone
                                THEN "pruned" ELSE up[u]]
    /\ others' = [x \in Sends |->
         others[x] \/ (x # s /\ at[x] \in {"resolved", "uploading"}
                        /\ path[x] \in gone)]

LEMMA UnlinkRemoves ==
    ASSUME NEW s \in Sends, Unlink(s)
    PROVE  \E gone : Removed(s, gone)
BY DEF Unlink, Restrict, Removed

LEMMA PruneTypes ==
    ASSUME TypeOK, NEW s \in Sends, Prune(s)
    PROVE  TypeOK'
<1>1. CASE LookAtNext(s)
  <2>1. PICK p \in listed[s] :
          /\ listed' = [listed EXCEPT ![s] = @ \ {p}]
          /\ IF p \in DOMAIN disk /\ disk[p].mtime < cutoff[s]
             THEN Reaches(s, "unlinking") /\ doomed' = [doomed EXCEPT ![s] = p]
             ELSE UNCHANGED <<at, doomed>>
    BY <1>1 DEF LookAtNext
  <2>2. /\ at' \in [Sends -> {"none", "ok", "error"} \cup Busy]
        /\ listed' \in [Sends -> SUBSET Paths]
        /\ doomed' \in [Sends -> Paths \cup {NoPath}]
    BY <2>1 DEF TypeOK, Reaches, Busy, Pruning
  <2> QED  BY <1>1, <2>2 DEF LookAtNext, TypeOK, uploadVars
<1>2. CASE Unlink(s)
  <2>1. PICK gone : Removed(s, gone)
    BY <1>2, UnlinkRemoves
  <2>2. /\ at' \in [Sends -> {"none", "ok", "error"} \cup Busy]
        /\ doomed' \in [Sends -> Paths \cup {NoPath}]
        /\ UNCHANGED <<now, received, configured, dest, met, path, cutoff, listed,
                       tries, vanished>>
    BY <1>2 DEF Unlink, TypeOK, Reaches, Busy, Pruning
  <2>3. /\ DOMAIN disk' \subseteq DOMAIN disk
        /\ \A p \in DOMAIN disk' : disk'[p] = disk[p]
        /\ up' \in [Uploads -> {"none", "chosen", "copying", "kept", "pruned", "failed"}]
    BY <2>1 DEF Removed, TypeOK
  <2>4. others' \in [Sends -> BOOLEAN]
    BY <2>1 DEF Removed
  <2> QED  BY <2>2, <2>3, <2>4 DEF TypeOK
<1>3. CASE LookForMore(s)
  <2>1. /\ at' \in [Sends -> {"none", "ok", "error"} \cup Busy]
        /\ cutoff' \in [Sends -> Int]
    BY <1>3 DEF LookForMore, TypeOK, Reaches, Busy, Pruning
  <2> QED  BY <1>3, <2>1 DEF LookForMore, TypeOK, uploadVars
<1>4. CASE RemoveDirectory(s)
  <2>1. /\ at' \in [Sends -> {"none", "ok", "error"} \cup Busy]
        /\ received' \in BOOLEAN /\ (DOMAIN disk # {} => received')
    BY <1>4 DEF RemoveDirectory, TypeOK, Reaches, Busy
  <2> QED  BY <1>4, <2>1 DEF RemoveDirectory, TypeOK, uploadVars, pruneVars
<1> QED  BY <1>1, <1>2, <1>3, <1>4 DEF Prune

LEMMA TypeStep ==
    ASSUME TypeOK, DestOfName, Next
    PROVE  TypeOK'
<1> USE DEF uploadVars, sendVars, pruneVars
<1>1. ASSUME NEW u \in Uploads, StashBegins(u)
      PROVE  TypeOK'
  <2>1. \A v \in Meets(u) : {u, v} \in SUBSET Uploads
    BY DEF Meets
  <2>2. met' \subseteq SUBSET Uploads
    BY <1>1, <2>1 DEF StashBegins, TypeOK
  <2>3. /\ up' = [up EXCEPT ![u] = "chosen"]
        /\ dest' = [dest EXCEPT ![u] = FreeName(u)]
        /\ received' = TRUE
        /\ UNCHANGED <<now, disk, configured, sendVars>>
    BY <1>1 DEF StashBegins
  <2> QED  BY <2>2, <2>3, PathTypes DEF TypeOK
<1>2. ASSUME NEW u \in Uploads, OpenTarget(u)
      PROVE  TypeOK'
  <2>1. up[u] = "chosen" /\ dest[u] \in Paths
    BY <1>2 DEF OpenTarget, DestOfName, Active, TypeOK
  <2>2. CASE /\ received
             /\ up' = [up EXCEPT ![u] = "copying"]
             /\ disk' = [p \in DOMAIN disk \cup {dest[u]} |->
                           IF p = dest[u] THEN [mtime |-> now, by |-> {}]
                                          ELSE disk[p]]
    <3>1. /\ DOMAIN disk' = DOMAIN disk \cup {dest[u]}
          /\ \A p \in DOMAIN disk' : \/ disk'[p] = [mtime |-> now, by |-> {}]
                                     \/ p \in DOMAIN disk /\ disk'[p] = disk[p]
          /\ up' = [up EXCEPT ![u] = "copying"]
          /\ UNCHANGED <<now, received, configured, dest, met, sendVars>>
      BY <1>2, <2>2 DEF OpenTarget
    <3>2. \A p \in DOMAIN disk' :
            disk'[p].mtime \in 0 .. now' /\ disk'[p].by \subseteq Uploads
      BY <3>1 DEF TypeOK
    <3> QED  BY <2>1, <2>2, <3>1, <3>2 DEF TypeOK
  <2>3. CASE up' = [up EXCEPT ![u] = "failed"] /\ UNCHANGED disk
    BY <1>2, <2>3 DEF OpenTarget, TypeOK
  <2> QED  BY <1>2, <2>2, <2>3 DEF OpenTarget
<1>3. ASSUME NEW u \in Uploads, Copied(u)
      PROVE  TypeOK'
  <2>1. CASE dest[u] \in DOMAIN disk
    <3>1. /\ DOMAIN disk' = DOMAIN disk
          /\ \A p \in DOMAIN disk' :
                \/ disk'[p] = [mtime |-> now, by |-> disk[p].by \cup {u}]
                \/ disk'[p] = disk[p]
          /\ up' = [up EXCEPT ![u] = "kept"]
          /\ UNCHANGED <<now, received, configured, dest, met, sendVars>>
      BY <1>3, <2>1 DEF Copied
    <3>2. \A p \in DOMAIN disk' :
            disk'[p].mtime \in 0 .. now' /\ disk'[p].by \subseteq Uploads
      BY <3>1 DEF TypeOK
    <3> QED  BY <3>1, <3>2 DEF TypeOK
  <2>2. CASE dest[u] \notin DOMAIN disk
    BY <1>3, <2>2 DEF Copied, TypeOK
  <2> QED  BY <2>1, <2>2
<1>4. ASSUME NEW s \in Sends, NEW u \in Uploads, Call(s, u)
      PROVE  TypeOK'
  <2>1. /\ up[u] \in {"kept", "pruned"} /\ tries[s] < MaxTries
        /\ tries' = [tries EXCEPT ![s] = @ + 1]
        /\ others' = [others EXCEPT ![s] = FALSE]
        /\ vanished' = [vanished EXCEPT ![s] = FALSE]
        /\ at' = [at EXCEPT ![s] = "pruning"]
        /\ cutoff' = [cutoff EXCEPT ![s] = now - TTL]
        /\ listed' = [listed EXCEPT ![s] = DOMAIN disk]
        /\ path' = [path EXCEPT ![s] = dest[u]]
        /\ UNCHANGED <<now, disk, received, up, dest, met, configured, doomed>>
    BY <1>4 DEF Call, CanCall, Called, StartPruning, Reaches
  <2>2. tries' \in [Sends -> 0 .. MaxTries]
    BY <2>1, ConstantsAssumption DEF TypeOK
  <2>3. at' \in [Sends -> {"none", "ok", "error"} \cup Busy]
    BY <2>1 DEF TypeOK, Busy, Pruning
  <2>4. now - TTL \in Int
    BY ConstantsAssumption DEF TypeOK
  <2>5. cutoff' \in [Sends -> Int] /\ listed' \in [Sends -> SUBSET Paths]
    BY <2>1, <2>4 DEF TypeOK
  <2> QED  BY <2>1, <2>2, <2>3, <2>5 DEF TypeOK
<1>5. ASSUME NEW s \in Sends, Proceed(s)
      PROVE  TypeOK'
  <2>1. CASE Prune(s)
    BY <2>1, PruneTypes
  <2>2. CASE ~Prune(s)
    <3>1. /\ UNCHANGED <<now, disk, received, configured, up, dest, met, pruneVars,
                         tries, others>>
          /\ \/ \E w \in {"resolved", "uploading"} : Goto(s, w)
             \/ \E told \in {"ok", "error"} : End(s, told)
          /\ vanished' \in [Sends -> BOOLEAN]
      BY <1>5, <2>2 DEF Proceed, Resolve, NotConfigured, Upload, Answered, GivesUp,
                        TypeOK
    <3>2. /\ at' \in [Sends -> {"none", "ok", "error"} \cup Busy]
          /\ path' \in [Sends -> Paths \cup {NoPath}]
      BY <3>1 DEF TypeOK, Goto, End, Reaches, Busy
    <3> QED  BY <3>1, <3>2 DEF TypeOK
  <2> QED  BY <2>1, <2>2
<1>6. CASE Stop
  BY <1>6 DEF Stop, TypeOK
<1>7. CASE Tick
  <2>1. now' \in 0 .. MaxTime /\ now <= now'
    BY <1>7, ConstantsAssumption DEF Tick, TypeOK
  <2>2. \A p \in DOMAIN disk : disk[p].mtime \in 0 .. now'
    BY <2>1 DEF TypeOK
  <2> QED  BY <1>7, <2>1, <2>2 DEF Tick, TypeOK
<1>8. ASSUME NEW u \in Uploads, CopyFails(u)
      PROVE  TypeOK'
  <2>1. /\ DOMAIN disk' = DOMAIN disk
        /\ \A p \in DOMAIN disk' : disk'[p] = IF p = dest[u]
                                              THEN [disk[p] EXCEPT !.mtime = now]
                                              ELSE disk[p]
        /\ up' = [up EXCEPT ![u] = "failed"]
        /\ UNCHANGED <<now, received, configured, dest, met, sendVars>>
    BY <1>8 DEF CopyFails
  <2>2. \A p \in DOMAIN disk' :
          disk'[p].mtime \in 0 .. now' /\ disk'[p].by \subseteq Uploads
    BY <1>8 DEF CopyFails, TypeOK
  <2> QED  BY <2>1, <2>2 DEF TypeOK
<1> QED  BY <1>1, <1>2, <1>3, <1>4, <1>5, <1>6, <1>7, <1>8 DEF Next, Stash

----------------------------------------------------------------------------
(* The files of the outbox *)

LEMMA MeetsPath ==
    ASSUME TypeOK, DiskInv, NEW u \in Uploads, NEW v \in Uploads \ {u},
           Active(v), dest[v] = FreeName(u)
    PROVE  v \in Meets(u)
<1>1. NameOf[v] = NameOf[u]
  BY DEF DiskInv, DestOfName, FreeName, PlainOf
<1>2. CASE up[v] \in {"chosen", "copying"}
  BY <1>1, <1>2 DEF Meets
<1>3. CASE up[v] = "kept"
  <2>1. dest[v] \in DOMAIN disk
    BY <1>3 DEF DiskInv, FileExists
  <2>2. dest[v] = <<NameOf[u], now>>
    BY <2>1 DEF FreeName
  <2> QED  BY <1>1, <2>2 DEF Meets
<1> QED  BY <1>2, <1>3 DEF Active

LEMMA MetGrows ==
    ASSUME met \subseteq met'
    PROVE  \A u \in Uploads : HasMet(u) => HasMet(u)'
BY DEF HasMet

LEMMA StashBeginsKeeps ==
    ASSUME TypeOK, DiskInv, NEW u \in Uploads, StashBegins(u)
    PROVE  DiskInv'
<1>1. /\ up[u] = "none"
      /\ up' = [up EXCEPT ![u] = "chosen"]
      /\ dest' = [dest EXCEPT ![u] = FreeName(u)]
      /\ met' = met \cup {{u, v} : v \in Meets(u)}
      /\ disk' = disk
  BY DEF StashBegins
<1>2. /\ up'[u] = "chosen" /\ dest'[u] = FreeName(u)
      /\ \A v \in Uploads \ {u} : up'[v] = up[v] /\ dest'[v] = dest[v]
  BY <1>1 DEF TypeOK
<1>3. \A v \in Uploads \ {u} : Active(v)' <=> Active(v)
  BY <1>2 DEF Active
<1>4. FreeName(u) # NoPath /\ FreeName(u)[1] = NameOf[u]
  BY DEF FreeName, PlainOf, NoPath
<1>5. DestOfName'
  BY <1>2, <1>3, <1>4 DEF DiskInv, DestOfName
<1>6. Apart'
  <2>1. \A v \in Uploads \ {u} :
          Active(v) /\ dest[v] = FreeName(u) => {u, v} \in met'
    BY <1>1, MeetsPath
  <2>2. \A v, w \in Uploads \ {u} :
          v # w /\ Active(v) /\ Active(w) /\ dest[v] = dest[w] => {v, w} \in met'
    BY <1>1 DEF DiskInv, Apart
  <2>3. SUFFICES ASSUME NEW v \in Uploads, NEW w \in Uploads, v # w,
                        Active(v)', Active(w)', dest'[v] = dest'[w]
                 PROVE  {v, w} \in met'
    BY DEF Apart
  <2>4. CASE v = u
    BY <1>2, <1>3, <2>1, <2>3, <2>4
  <2>5. CASE w = u
    <3>1. {u, v} \in met'
      BY <1>2, <1>3, <2>1, <2>3, <2>5
    <3>2. {v, w} = {u, v}
      BY <2>5
    <3> QED  BY <3>1, <3>2
  <2>6. CASE v # u /\ w # u
    BY <1>2, <1>3, <2>2, <2>3, <2>6
  <2> QED  BY <2>4, <2>5, <2>6
<1>7. FileExists' /\ Contents'
  BY <1>1, <1>2 DEF DiskInv, FileExists, Contents, TypeOK
<1>8. StillThere'
  <2>1. \A v \in Uploads : HasMet(v) => HasMet(v)'
    BY <1>1, MetGrows
  <2> QED  BY <1>1, <1>2, <2>1 DEF DiskInv, StillThere
<1> QED  BY <1>5, <1>6, <1>7, <1>8 DEF DiskInv

(* Opening empties the file; a kept upload on this path has met u.         *)
LEMMA OpenTargetKeeps ==
    ASSUME TypeOK, DiskInv, NEW u \in Uploads, OpenTarget(u)
    PROVE  DiskInv'
<1>1. up[u] = "chosen" /\ dest' = dest /\ met' = met
  BY DEF OpenTarget
<1>2. CASE /\ up' = [up EXCEPT ![u] = "copying"]
           /\ disk' = [p \in DOMAIN disk \cup {dest[u]} |->
                         IF p = dest[u] THEN [mtime |-> now, by |-> {}]
                                        ELSE disk[p]]
  <2>2. /\ DOMAIN disk' = DOMAIN disk \cup {dest[u]}
        /\ disk'[dest[u]].by = {}
        /\ \A p \in DOMAIN disk' : p # dest[u] => disk'[p] = disk[p]
    BY <1>2
  <2>3. \A v \in Uploads : Active(v)' <=> Active(v)
    BY <1>1, <1>2 DEF Active, TypeOK
  <2>4. \A v \in Uploads : up'[v] = "kept" <=> up[v] = "kept"
    BY <1>1, <1>2 DEF TypeOK
  <2>5. DestOfName' /\ Apart'
    BY <1>1, <2>3 DEF DiskInv, DestOfName, Apart
  <2>6. FileExists' /\ Contents'
    <3>1. FileExists'
      BY <1>1, <2>2, <2>4 DEF DiskInv, FileExists
    <3>2. Contents'
      <4> SUFFICES ASSUME NEW p \in DOMAIN disk', NEW v \in disk'[p].by
                   PROVE  up'[v] = "kept" /\ dest'[v] = p
        BY DEF Contents
      <4>1. p # dest[u] /\ p \in DOMAIN disk /\ v \in disk[p].by
        BY <2>2
      <4>2. up[v] = "kept" /\ dest[v] = p /\ v \in Uploads
        BY <4>1 DEF DiskInv, Contents, TypeOK
      <4> QED  BY <1>1, <2>4, <4>2
    <3> QED  BY <3>1, <3>2
  <2>7. StillThere'
    <3> SUFFICES ASSUME NEW v \in Uploads, up[v] = "kept"
                 PROVE  v \in disk'[dest[v]].by \/ HasMet(v)
      BY <1>1, <2>4 DEF StillThere, HasMet
    <3>1. CASE dest[v] = dest[u]
      <4>1. {v, u} \in met /\ u # v
        BY <1>1, <3>1 DEF DiskInv, Apart, Active
      <4> QED  BY <4>1 DEF HasMet
    <3>2. CASE dest[v] # dest[u]
      <4>1. dest[v] \in DOMAIN disk'
        BY <2>2 DEF DiskInv, FileExists
      <4> QED  BY <2>2, <3>2, <4>1 DEF DiskInv, StillThere
    <3> QED  BY <3>1, <3>2
  <2> QED  BY <2>5, <2>6, <2>7 DEF DiskInv
<1>3. CASE up' = [up EXCEPT ![u] = "failed"] /\ UNCHANGED disk
  <2>1. \A v \in Uploads : Active(v)' => Active(v)
    BY <1>3 DEF Active, TypeOK, OpenTarget
  <2>2. \A v \in Uploads : up'[v] = "kept" <=> up[v] = "kept"
    BY <1>1, <1>3 DEF TypeOK
  <2>3. DestOfName' /\ Apart'
    BY <1>1, <2>1 DEF DiskInv, DestOfName, Apart
  <2>4. FileExists' /\ StillThere'
    BY <1>1, <1>3, <2>2 DEF DiskInv, FileExists, StillThere, HasMet
  <2>5. Contents'
    <3>1. \A q \in DOMAIN disk : disk[q].by \subseteq Uploads
      BY DEF TypeOK
    <3> QED  BY <1>1, <1>3, <2>2, <3>1 DEF DiskInv, Contents
  <2> QED  BY <2>3, <2>4, <2>5 DEF DiskInv
<1> QED  BY <1>2, <1>3 DEF OpenTarget

LEMMA CopiedKeeps ==
    ASSUME TypeOK, DiskInv, NEW u \in Uploads, Copied(u)
    PROVE  DiskInv'
<1>1. up[u] = "copying" /\ dest' = dest /\ met' = met
  BY DEF Copied
<1>2. CASE dest[u] \in DOMAIN disk
  <2>1. /\ up' = [up EXCEPT ![u] = "kept"]
        /\ DOMAIN disk' = DOMAIN disk
        /\ disk'[dest[u]].by = disk[dest[u]].by \cup {u}
        /\ \A p \in DOMAIN disk : p # dest[u] => disk'[p] = disk[p]
    BY <1>2 DEF Copied
  <2>2. /\ up'[u] = "kept"
        /\ \A v \in Uploads \ {u} : up'[v] = up[v]
    BY <2>1 DEF TypeOK
  <2>3. \A v \in Uploads : Active(v)' <=> Active(v)
    BY <1>1, <2>2 DEF Active
  <2>4. DestOfName' /\ Apart'
    BY <1>1, <2>3 DEF DiskInv, DestOfName, Apart
  <2>5. FileExists'
    BY <1>1, <1>2, <2>1, <2>2 DEF DiskInv, FileExists
  <2>6. Contents'
    <3> SUFFICES ASSUME NEW p \in DOMAIN disk', NEW v \in disk'[p].by
                 PROVE  up'[v] = "kept" /\ dest'[v] = p
      BY DEF Contents
    <3>1. p \in DOMAIN disk /\ (v \in disk[p].by \/ (v = u /\ p = dest[u]))
      <4>1. CASE p = dest[u]
        BY <1>2, <2>1, <4>1
      <4>2. CASE p # dest[u]
        <5>1. p \in DOMAIN disk /\ disk'[p] = disk[p]
          BY <2>1, <4>2
        <5> QED  BY <5>1
      <4> QED  BY <4>1, <4>2
    <3>2. v \in disk[p].by => up[v] = "kept" /\ dest[v] = p /\ v \in Uploads
      BY <3>1 DEF DiskInv, Contents, TypeOK
    <3> QED  BY <1>1, <2>2, <3>1, <3>2
  <2>7. StillThere'
    <3> SUFFICES ASSUME NEW v \in Uploads, up'[v] = "kept"
                 PROVE  v \in disk'[dest[v]].by \/ HasMet(v)
      BY <1>1 DEF StillThere, HasMet
    <3>1. CASE v = u
      BY <2>1, <3>1
    <3>2. CASE v # u
      <4>1. /\ v \in disk[dest[v]].by \/ HasMet(v)
            /\ dest[v] \in DOMAIN disk
        BY <2>2, <3>2 DEF DiskInv, StillThere, FileExists
      <4> QED  BY <2>1, <4>1
    <3> QED  BY <3>1, <3>2
  <2> QED  BY <2>4, <2>5, <2>6, <2>7 DEF DiskInv
<1>3. CASE dest[u] \notin DOMAIN disk
  <2>1. up' = [up EXCEPT ![u] = "pruned"] /\ disk' = disk
    BY <1>3 DEF Copied
  <2>2. \A v \in Uploads : Active(v)' => Active(v)
    BY <2>1 DEF Active, TypeOK
  <2>3. \A v \in Uploads : up'[v] = "kept" <=> up[v] = "kept"
    BY <1>1, <2>1 DEF TypeOK
  <2>4. DestOfName' /\ Apart'
    BY <1>1, <2>2 DEF DiskInv, DestOfName, Apart
  <2>5. FileExists' /\ StillThere'
    BY <1>1, <2>1, <2>3 DEF DiskInv, FileExists, StillThere, HasMet
  <2>6. Contents'
    <3>1. \A q \in DOMAIN disk : disk[q].by \subseteq Uploads
      BY DEF TypeOK
    <3> QED  BY <1>1, <2>1, <2>3, <3>1 DEF DiskInv, Contents
  <2> QED  BY <2>4, <2>5, <2>6 DEF DiskInv
<1> QED  BY <1>2, <1>3

(* A copy that fails leaves its file, with no upload in it.                *)
LEMMA CopyFailsKeeps ==
    ASSUME TypeOK, DiskInv, NEW u \in Uploads, CopyFails(u)
    PROVE  DiskInv'
<1>1. /\ up[u] = "copying" /\ up' = [up EXCEPT ![u] = "failed"]
      /\ dest' = dest /\ met' = met
      /\ DOMAIN disk' = DOMAIN disk
      /\ \A p \in DOMAIN disk : disk'[p].by = disk[p].by
  <2>1. \A p \in DOMAIN disk : disk'[p] = IF p = dest[u]
                                         THEN [disk[p] EXCEPT !.mtime = now]
                                         ELSE disk[p]
    BY DEF CopyFails
  <2>2. \A p \in DOMAIN disk : [disk[p] EXCEPT !.mtime = now].by = disk[p].by
    OBVIOUS
  <2> QED  BY <2>1, <2>2 DEF CopyFails
<1>2. \A v \in Uploads : Active(v)' => Active(v)
  BY <1>1 DEF Active, TypeOK
<1>3. \A v \in Uploads : up'[v] = "kept" <=> up[v] = "kept"
  BY <1>1 DEF TypeOK
<1>4. DestOfName' /\ Apart'
  BY <1>1, <1>2 DEF DiskInv, DestOfName, Apart
<1>5. FileExists'
  BY <1>1, <1>3 DEF DiskInv, FileExists
<1>6. Contents'
  BY <1>1, <1>3 DEF DiskInv, Contents, TypeOK
<1>7. StillThere'
  BY <1>1, <1>3 DEF DiskInv, FileExists, StillThere, HasMet
<1> QED  BY <1>4, <1>5, <1>6, <1>7 DEF DiskInv

LEMMA UnlinkKeeps ==
    ASSUME TypeOK, DiskInv, NEW s \in Sends, Unlink(s)
    PROVE  DiskInv'
<1>1. PICK gone : Removed(s, gone)
  BY UnlinkRemoves
<1> dest' = dest /\ met' = met
  BY DEF Unlink
<1>2. \A v \in Uploads :
        /\ up'[v] = "kept" <=> up[v] = "kept" /\ dest[v] \notin gone
        /\ up'[v] # "pruned" => up'[v] = up[v]
  BY <1>1 DEF Removed
<1>3. \A v \in Uploads : Active(v)' => Active(v)
  BY <1>2 DEF Active
<1>4. DestOfName' /\ Apart'
  BY <1>3 DEF DiskInv, DestOfName, Apart
<1>5. FileExists'
  BY <1>1, <1>2 DEF DiskInv, FileExists, Removed
<1>6. Contents'
  <2> SUFFICES ASSUME NEW p \in DOMAIN disk', NEW v \in disk'[p].by
               PROVE  up'[v] = "kept" /\ dest'[v] = p
    BY DEF Contents
  <2>1. p \in DOMAIN disk /\ p \notin gone /\ v \in disk[p].by
    BY <1>1 DEF Removed
  <2>2. up[v] = "kept" /\ dest[v] = p /\ v \in Uploads
    BY <2>1 DEF DiskInv, Contents, TypeOK
  <2> QED  BY <1>2, <2>1, <2>2
<1>7. StillThere'
  <2> SUFFICES ASSUME NEW v \in Uploads, up'[v] = "kept"
               PROVE  v \in disk'[dest[v]].by \/ HasMet(v)
    BY DEF StillThere, HasMet
  <2>1. up[v] = "kept" /\ dest[v] \in DOMAIN disk'
    BY <1>1, <1>2 DEF DiskInv, FileExists, Removed
  <2> QED  BY <1>1, <2>1 DEF DiskInv, StillThere, Removed
<1> QED  BY <1>4, <1>5, <1>6, <1>7 DEF DiskInv

LEMMA DiskStep ==
    ASSUME TypeOK, DiskInv, Next
    PROVE  DiskInv'
<1>1. ASSUME UNCHANGED <<disk, up, dest, met>>
      PROVE  DiskInv'
  BY <1>1 DEF DiskInv, DestOfName, Apart, FileExists, Contents, StillThere,
              Active, HasMet
<1>2. ASSUME NEW u \in Uploads, Stash(u)
      PROVE  DiskInv'
  BY <1>2, StashBeginsKeeps, OpenTargetKeeps, CopiedKeeps, CopyFailsKeeps DEF Stash
<1>3. ASSUME NEW s \in Sends, NEW u \in Uploads, Call(s, u)
      PROVE  DiskInv'
  BY <1>1, <1>3 DEF Call, uploadVars
<1>4. ASSUME NEW s \in Sends, Proceed(s)
      PROVE  DiskInv'
  <2>1. CASE Unlink(s)
    BY <2>1, UnlinkKeeps
  <2>2. CASE ~Unlink(s)
    BY <1>1, <1>4, <2>2
       DEF Proceed, Prune, LookAtNext, LookForMore, RemoveDirectory, Resolve,
           NotConfigured, Upload, Answered, GivesUp, uploadVars
  <2> QED  BY <2>1, <2>2
<1>5. CASE Stop \/ Tick
  BY <1>1, <1>5 DEF Stop, Tick, uploadVars
<1> QED  BY <1>2, <1>3, <1>4, <1>5 DEF Next

----------------------------------------------------------------------------
(* The calls *)

SendInv == Found /\ VanishesByOthers

LEMMA SendStep ==
    ASSUME TypeOK, SendInv, Next
    PROVE  SendInv'
<1>1. ASSUME NEW u \in Uploads, Stash(u)
      PROVE  SendInv'
  <2>1. DOMAIN disk \subseteq DOMAIN disk' /\ UNCHANGED <<at, path, others, vanished>>
    BY <1>1 DEF Stash, StashBegins, OpenTarget, Copied, CopyFails, sendVars
  <2> QED  BY <2>1 DEF SendInv, Found, VanishesByOthers
<1>2. ASSUME NEW s \in Sends, NEW u \in Uploads, Call(s, u)
      PROVE  SendInv'
  <2>1. /\ at' = [at EXCEPT ![s] = "pruning"]
        /\ path' = [path EXCEPT ![s] = dest[u]]
        /\ vanished' = [vanished EXCEPT ![s] = FALSE]
        /\ others' = [others EXCEPT ![s] = FALSE]
        /\ disk' = disk
    BY <1>2 DEF Call, Called, StartPruning, Reaches
  <2>2. /\ at'[s] = "pruning" /\ ~vanished'[s]
        /\ \A x \in Sends \ {s} :
              /\ at'[x] = at[x] /\ vanished'[x] = vanished[x]
              /\ path'[x] = path[x] /\ others'[x] = others[x]
    BY <2>1 DEF TypeOK
  <2> QED  BY <2>1, <2>2 DEF SendInv, Found, VanishesByOthers
<1>3. ASSUME NEW s \in Sends, Prune(s)
      PROVE  SendInv'
  <2>1. /\ UNCHANGED <<path, vanished>>
        /\ at'[s] \notin {"resolved", "uploading"}
        /\ \A x \in Sends \ {s} : at'[x] = at[x]
    BY <1>3 DEF Prune, LookAtNext, Unlink, LookForMore, RemoveDirectory, Reaches,
                TypeOK
  <2>2. CASE Unlink(s)
    <3>1. PICK gone : Removed(s, gone)
      BY <2>2, UnlinkRemoves
    <3>2. \A x \in Sends :
            others'[x] = (others[x] \/ (x # s /\ at[x] \in {"resolved", "uploading"}
                                         /\ path[x] \in gone))
      BY <3>1 DEF Removed
    <3>3. DOMAIN disk' = DOMAIN disk \ gone
      BY <3>1 DEF Removed
    <3>4. Found'
      BY <2>1, <3>2, <3>3 DEF SendInv, Found
    <3>5. VanishesByOthers'
      BY <2>1, <3>2 DEF SendInv, VanishesByOthers
    <3> QED  BY <3>4, <3>5 DEF SendInv
  <2>3. CASE ~Unlink(s)
    <3>1. UNCHANGED <<disk, others>>
      BY <1>3, <2>3 DEF Prune, LookAtNext, LookForMore, RemoveDirectory
    <3> QED  BY <2>1, <3>1 DEF SendInv, Found, VanishesByOthers
  <2> QED  BY <2>2, <2>3
<1>5. ASSUME NEW s \in Sends, Proceed(s), ~Prune(s)
      PROVE  SendInv'
  <2>1. disk' = disk /\ others' = others
    BY <1>5 DEF Proceed, Resolve, NotConfigured, Upload, Answered, GivesUp
  <2>2. \A x \in Sends \ {s} :
          at'[x] = at[x] /\ path'[x] = path[x] /\ vanished'[x] = vanished[x]
    BY <1>5 DEF Proceed, Resolve, NotConfigured, Upload, Answered, GivesUp, Goto,
                End, Reaches, TypeOK
  <2>3. at'[s] \in {"resolved", "uploading"} =>
            path'[s] \in DOMAIN disk
    BY <1>5 DEF Proceed, Resolve, NotConfigured, Upload, Answered, GivesUp, Goto,
                End, Reaches, TypeOK
  <2>4. vanished'[s] => vanished[s] \/ others[s]
    BY <1>5 DEF Proceed, Resolve, NotConfigured, Upload, Answered, GivesUp,
                TypeOK, SendInv, Found
  <2> QED  BY <2>1, <2>2, <2>3, <2>4 DEF SendInv, Found, VanishesByOthers
<1>4. CASE Stop \/ Tick
  BY <1>4 DEF Stop, Tick, sendVars, SendInv, Found, VanishesByOthers
<1> QED  BY <1>1, <1>2, <1>3, <1>4, <1>5 DEF Next

LEMMA InitIInv == Init => IInv
<1> SUFFICES ASSUME Init PROVE IInv
  OBVIOUS
<1>1. \A u \in Uploads : PlainOf(u) \in Paths
  BY ConstantsAssumption DEF PlainOf, Paths, Range
<1>2. /\ DOMAIN disk = {PlainOf(u) : u \in Earlier}
      /\ \A p \in DOMAIN disk :
            disk[p].mtime = 0 /\ disk[p].by = {u \in Earlier : PlainOf(u) = p}
  <2>1. disk = [p \in {PlainOf(u) : u \in Earlier} |->
                  [mtime |-> 0, by |-> {u \in Earlier : PlainOf(u) = p}]]
    BY DEF Init
  <2>2. DOMAIN disk = {PlainOf(u) : u \in Earlier}
    BY <2>1
  <2>3. ASSUME NEW p \in DOMAIN disk
        PROVE  disk[p].mtime = 0 /\ disk[p].by = {u \in Earlier : PlainOf(u) = p}
    <3>1. disk[p] = [mtime |-> 0, by |-> {u \in Earlier : PlainOf(u) = p}]
      BY <2>1, <2>2, <2>3
    <3> QED  BY <3>1
  <2> QED  BY <2>2, <2>3
<1>3. /\ \A u \in Uploads : up[u] = IF u \in Earlier THEN "kept" ELSE "none"
      /\ \A u \in Uploads : dest[u] = IF u \in Earlier THEN PlainOf(u) ELSE NoPath
  BY DEF Init
<1>4. TypeOK
  <2>1. /\ DOMAIN disk \subseteq Paths
        /\ \A p \in DOMAIN disk : disk[p].mtime \in 0 .. 0 /\ disk[p].by \subseteq Uploads
        /\ DOMAIN disk # {} => received
    <3>1. DOMAIN disk \subseteq Paths
      BY <1>1, <1>2, ConstantsAssumption
    <3>2. \A p \in DOMAIN disk : disk[p].mtime \in 0 .. 0 /\ disk[p].by \subseteq Uploads
      <4> TAKE p \in DOMAIN disk
      <4>1. disk[p].mtime = 0 /\ disk[p].by = {u \in Earlier : PlainOf(u) = p}
        BY <1>2
      <4> QED  BY <4>1, ConstantsAssumption
    <3>3. DOMAIN disk # {} => Earlier # {}
      BY <1>2
    <3> QED  BY <3>1, <3>2, <3>3 DEF Init
  <2>2. dest \in [Uploads -> Paths \cup {NoPath}]
    BY <1>1, ConstantsAssumption DEF Init
  <2>3. /\ cutoff \in [Sends -> Int] /\ listed \in [Sends -> SUBSET Paths]
        /\ doomed \in [Sends -> Paths \cup {NoPath}]
    BY DEF Init
  <2> QED  BY <2>1, <2>2, <2>3, ConstantsAssumption DEF Init, TypeOK
<1>5. DiskInv
  <2>1. \A u \in Uploads : Active(u) <=> u \in Earlier
    BY <1>3 DEF Active
  <2>2. \A u \in Earlier : dest[u] = PlainOf(u) /\ PlainOf(u) # NoPath
                           /\ PlainOf(u)[1] = NameOf[u]
    BY <1>3, ConstantsAssumption DEF PlainOf, NoPath
  <2>3. DestOfName
    BY <2>1, <2>2 DEF DestOfName
  <2>4. Apart
    BY <2>1, <2>2, ConstantsAssumption DEF Apart
  <2>5. FileExists /\ StillThere
    <3> SUFFICES ASSUME NEW u \in Uploads, up[u] = "kept"
                 PROVE  dest[u] \in DOMAIN disk /\ u \in disk[dest[u]].by
      BY DEF FileExists, StillThere
    <3>1. u \in Earlier /\ dest[u] = PlainOf(u)
      BY <1>3
    <3>2. PlainOf(u) \in DOMAIN disk
      BY <1>2, <3>1
    <3>3. disk[PlainOf(u)].by = {v \in Earlier : PlainOf(v) = PlainOf(u)}
      BY <1>2, <3>2
    <3> QED  BY <3>1, <3>2, <3>3
  <2>6. Contents
    <3> SUFFICES ASSUME NEW p \in DOMAIN disk, NEW v \in disk[p].by
                 PROVE  up[v] = "kept" /\ dest[v] = p
      BY DEF Contents
    <3>1. disk[p].by = {u \in Earlier : PlainOf(u) = p}
      BY <1>2
    <3>2. v \in Earlier /\ PlainOf(v) = p
      BY <3>1
    <3> QED  BY <1>3, <3>2, ConstantsAssumption
  <2> QED  BY <2>3, <2>4, <2>5, <2>6 DEF DiskInv
<1>6. Found /\ VanishesByOthers
  BY DEF Init, Found, VanishesByOthers
<1> QED  BY <1>4, <1>5, <1>6 DEF IInv

----------------------------------------------------------------------------
(* The inductive invariant holds in every behaviour.                       *)
THEOREM Invariance == Spec => []IInv
<1>1. Init => IInv
  BY InitIInv
<1>2. IInv /\ [Next]_vars => IInv'
  <2>1. ASSUME IInv, UNCHANGED vars
        PROVE  IInv'
    <3>1. TypeOK'
      BY <2>1 DEF IInv, TypeOK, vars, uploadVars, sendVars, pruneVars
    <3>2. DiskInv'
      BY <2>1 DEF IInv, DiskInv, DestOfName, Apart, FileExists, Contents,
                  StillThere, Active, HasMet, vars, uploadVars
    <3>3. Found' /\ VanishesByOthers'
      BY <2>1 DEF IInv, Found, VanishesByOthers, vars, sendVars
    <3> QED  BY <3>1, <3>2, <3>3 DEF IInv
  <2>2. ASSUME IInv, Next
        PROVE  IInv'
    BY <2>2, TypeStep, DiskStep, SendStep DEF IInv, DiskInv, SendInv
  <2> QED  BY <2>1, <2>2
<1> QED  BY <1>1, <1>2, PTL DEF Spec

(* Uploads, files and calls have their types (file_sender.py).             *)
THEOREM TypeCorrect == Spec => []TypeOK
<1>1. IInv => TypeOK
  BY DEF IInv
<1> QED  BY <1>1, Invariance, PTL

(* An upload shares its file only with uploads of its name that ran at the *)
(* same time or were named in the same second (stash_upload).              *)
THEOREM UploadsKeptApart == Spec => []KeptApart
<1>1. IInv => KeptApart
  <2> SUFFICES ASSUME IInv, NEW u \in Uploads, up[u] = "kept", ~HasMet(u)
               PROVE  dest[u] \in DOMAIN disk /\ disk[dest[u]].by = {u}
    BY DEF KeptApart, HasMet
  <2>1. dest[u] \in DOMAIN disk /\ u \in disk[dest[u]].by
    BY DEF IInv, DiskInv, FileExists, StillThere
  <2>2. \A v \in disk[dest[u]].by : v = u
    <3> SUFFICES ASSUME NEW v \in disk[dest[u]].by, v # u
                 PROVE  FALSE
      OBVIOUS
    <3>1. v \in Uploads /\ up[v] = "kept" /\ dest[v] = dest[u]
      BY <2>1 DEF IInv, DiskInv, Contents, TypeOK
    <3>2. {u, v} \in met
      BY <3>1 DEF IInv, DiskInv, Apart, Active
    <3> QED  BY <3>1, <3>2 DEF HasMet
  <2> QED  BY <2>1, <2>2
<1> QED  BY <1>1, Invariance, PTL

(* A call never prunes the file it has found (SendFileTool._invoke,        *)
(* SendFileCommand.handle).                                                *)
THEOREM OwnFilesStay == Spec => []VanishesByOthers
<1>1. IInv => VanishesByOthers
  BY DEF IInv
<1> QED  BY <1>1, Invariance, PTL

----------------------------------------------------------------------------
(* Delivery *)

(* What is in a chunk.                                                     *)
Held(c) == UNION {Range(c[k]) : k \in DOMAIN c}

Short(c) == \A k \in DOMAIN c : Len(c[k]) <= Limit

(* No position is in two chunks, or twice in one sequence.                 *)
NoneTwice(c) ==
    \A k, l \in DOMAIN c : \A x \in Range(c[k]) \cap Range(c[l]) : x > 0 => k = l

Calls == {"rich", "html", "plain"}

(* A chunk with position i is still to be sent, or sent again.             *)
Ahead(i) == \E k \in DOMAIN todo : (effect => k > 1) /\ i \in Range(todo[k])

Shows(i) == Cardinality(ShowsInChat(i)) + (IF ShowsInPlaceholder(i) THEN 1 ELSE 0)

DeliveryTypes ==
    /\ text \in Texts
    /\ call \in Calls \cup {"edit", "delete"}
    /\ placeholder \in {"none", "partial", "edited", "deleted"}
    /\ todo \in Seq(Seq(Int))
    /\ chat \in Seq([by : Calls, part : Seq(Int)])
    /\ lies \in Nat

CallState ==
    /\ call = "rich" => todo = <<Positions>>
    /\ call \in {"plain", "edit"} => todo # <<>>
    /\ call \in {"edit", "delete"} => chat = <<>> /\ lies = 0
    /\ call = "edit" => todo = EditParts
    /\ call = "edit" => placeholder = (IF effect THEN "edited" ELSE "partial")
    /\ call = "delete" /\ effect => placeholder = "deleted"
    /\ call \in Calls /\ effect =>
          /\ todo # <<>> /\ chat # <<>>
          /\ chat[Len(chat)].part = Head(todo)

TodoState ==
    /\ NoneTwice(todo)
    /\ call # "rich" => Short(todo)

OnceState ==
    call \in Calls =>
        \A i \in DOMAIN text : Shows(i) <= lies + (IF Ahead(i) THEN 0 ELSE 1)

WholeState ==
    call \in Calls =>
        \A i \in DOMAIN text :
            \/ text[i] = "n" \/ i \in given
            \/ ShowsInChat(i) # {} \/ ShowsInPlaceholder(i)
            \/ i \in Held(todo)

DeliveryInv ==
    /\ DeliveryTypes
    /\ CallState
    /\ TodoState
    /\ OnceState
    /\ WholeState

----------------------------------------------------------------------------
(* Induction *)

Smaller == {ss \in Nat \X Nat : ss[1] < ss[2]}

(* A set of numbers has a least one: the library's theorem, with the order *)
(* spelled out.                                                            *)
LEMMA LeastOf ==
    ASSUME NEW S, S \subseteq Nat, S # {}
    PROVE  \E m \in S : \A n \in S : m <= n
<1>1. IsWellFoundedOn(Smaller, Nat)
  <2>1. OpToRel(<, Nat) = Smaller
    BY SMT DEF OpToRel, Smaller
  <2> QED  BY <2>1, NatLessThanWellFounded
<1>2. PICK m \in S : \A n \in S : <<n, m>> \notin Smaller
  BY <1>1, WFMin
<1>3. ASSUME NEW n \in S
      PROVE  m <= n
  <2>1. m \in Nat /\ n \in Nat /\ <<n, m>> \notin Smaller
    BY <1>2
  <2> QED  BY <2>1 DEF Smaller
<1> QED  BY <1>3

(* Induction, with a set in place of the property.                         *)
LEMMA SetInduction ==
    ASSUME NEW S, 0 \in S, \A n \in Nat : n \in S => n + 1 \in S
    PROVE  Nat \subseteq S
<1> SUFFICES ASSUME Nat \ S # {} PROVE FALSE
  OBVIOUS
<1>1. PICK m \in Nat \ S : \A n \in Nat \ S : m <= n
  BY LeastOf
<1>2. m # 0 /\ m - 1 \in Nat
  BY <1>1
<1>3. m - 1 \in S
  BY <1>1, <1>2
<1>4. (m - 1) + 1 = m
  BY <1>1
<1> QED  BY <1>1, <1>2, <1>3, <1>4

----------------------------------------------------------------------------
(* Sequences of sequences, laid end to end. *)

Joined(s, f, n) == f[n] = IF n = 1 THEN s[1] ELSE f[n - 1] \o s[n]

(* What FlattenSeq computes step by step: the first n of s, joined.        *)
LEMMA FlattenSteps ==
    ASSUME NEW A, NEW s \in Seq(Seq(A)), s # <<>>
    PROVE  \E f : FlattenSeq(s) = f[Len(s)] /\ \A n \in 1 .. Len(s) : Joined(s, f, n)
<1> DEFINE Upto(n, f) == f = [i \in 1 .. n |-> IF i = 1 THEN s[i] ELSE f[i - 1] \o s[i]]
           Done == {n \in Nat : \E f : Upto(n, f)}
<1>1. 0 \in Done
  <2>1. Upto(0, <<>>)
    OBVIOUS
  <2> QED  BY <2>1
<1>2. ASSUME NEW n \in Nat, n \in Done
      PROVE  n + 1 \in Done
  <2>1. PICK f : Upto(n, f)
    BY <1>2
  <2> DEFINE g == [i \in 1 .. n + 1 |-> IF i = n + 1
                     THEN IF i = 1 THEN s[i] ELSE f[i - 1] \o s[i] ELSE f[i]]
  <2>2. ASSUME NEW i \in 1 .. n + 1
        PROVE  g[i] = IF i = 1 THEN s[i] ELSE g[i - 1] \o s[i]
    <3>1. CASE i = n + 1
      BY <3>1
    <3>2. CASE i # n + 1
      <4>1. i \in 1 .. n /\ (i # 1 => i - 1 \in 1 .. n)
        BY <3>2
      <4>2. g[i] = f[i] /\ (i # 1 => g[i - 1] = f[i - 1])
        BY <4>1
      <4> QED  BY <2>1, <4>1, <4>2
    <3> QED  BY <3>1, <3>2
  <2>3. Upto(n + 1, g)
    BY <2>2
  <2>4. n + 1 \in Nat /\ \E h : Upto(n + 1, h)
    <3> HIDE DEF Upto
    <3> QED  BY <2>3
  <2> HIDE DEF Upto
  <2> QED  BY <2>4
<1>3. Nat \subseteq Done
  <2> HIDE DEF Done
  <2> QED  BY <1>1, <1>2, SetInduction
<1>4. Len(s) \in Nat /\ Len(s) # 0
  OBVIOUS
<1>5. \E f : Upto(Len(s), f)
  <2> HIDE DEF Upto
  <2> QED  BY <1>3, <1>4
<1> DEFINE f == CHOOSE f : Upto(Len(s), f)
<1>6. Upto(Len(s), f)
  <2> HIDE DEF Upto
  <2> QED  BY <1>5
<1>7. FlattenSeq(s) = f[Len(s)]
  <2> HIDE DEF f
  <2> QED  BY <1>4, Zenon DEF FlattenSeq, f
<1>8. \A n \in 1 .. Len(s) : Joined(s, f, n)
  <2> HIDE DEF f
  <2> QED  BY <1>6 DEF Joined
<1> QED
  <2> HIDE DEF f
  <2> QED  BY <1>7, <1>8

(* f[n] has at place j what s[row[j]] has at col[j], for all of s[1 .. n]  *)
(* and nothing twice.                                                      *)
Cells(s, n, g, row, col) ==
    /\ \A j \in 1 .. Len(g) :
        /\ row[j] \in 1 .. n /\ col[j] \in 1 .. Len(s[row[j]])
        /\ g[j] = s[row[j]][col[j]]
    /\ \A j, l \in 1 .. Len(g) : row[j] = row[l] /\ col[j] = col[l] => j = l
    /\ \A i \in 1 .. n : \A k \in 1 .. Len(s[i]) :
        \E j \in 1 .. Len(g) : row[j] = i /\ col[j] = k

LEMMA FirstCells ==
    ASSUME NEW A, NEW s \in Seq(Seq(A)), s # <<>>
    PROVE  \E row, col : Cells(s, 1, s[1], row, col)
<1>1. s[1] \in Seq(A)
  OBVIOUS
<1> DEFINE row == [j \in 1 .. Len(s[1]) |-> 1]
           col == [j \in 1 .. Len(s[1]) |-> j]
<1>2. Cells(s, 1, s[1], row, col)
  BY <1>1 DEF Cells
<1> QED  BY <1>2

LEMMA NextCells ==
    ASSUME NEW A, NEW s \in Seq(Seq(A)), NEW n \in Nat, n + 1 \in 1 .. Len(s),
           NEW g \in Seq(A), NEW row, NEW col, Cells(s, n, g, row, col)
    PROVE  \E r, c : Cells(s, n + 1, g \o s[n + 1], r, c)
<1> DEFINE h == s[n + 1]
           m == Len(g)
           G == g \o h
           r == [j \in 1 .. m + Len(h) |-> IF j <= m THEN row[j] ELSE n + 1]
           c == [j \in 1 .. m + Len(h) |-> IF j <= m THEN col[j] ELSE j - m]
<1>1. h \in Seq(A) /\ m \in Nat /\ Len(h) \in Nat
  OBVIOUS
<1>2. /\ Len(G) = m + Len(h)
      /\ \A j \in 1 .. m : G[j] = g[j]
      /\ \A j \in m + 1 .. m + Len(h) : G[j] = h[j - m]
  <2> HIDE DEF h
  <2> QED  BY <1>1
<1> HIDE DEF G
<1>3. ASSUME NEW j \in 1 .. Len(G)
      PROVE  /\ r[j] \in 1 .. n + 1 /\ c[j] \in 1 .. Len(s[r[j]])
             /\ G[j] = s[r[j]][c[j]]
  <2>1. CASE j <= m
    <3>1. j \in 1 .. m /\ r[j] = row[j] /\ c[j] = col[j]
      BY <1>1, <1>2, <2>1
    <3>2. row[j] \in 1 .. n /\ col[j] \in 1 .. Len(s[row[j]]) /\ g[j] = s[row[j]][col[j]]
      BY <3>1 DEF Cells
    <3>3. row[j] \in 1 .. n + 1
      BY <3>2
    <3> HIDE DEF r, c, h
    <3> QED  BY <1>2, <3>1, <3>2, <3>3
  <2>2. CASE ~(j <= m)
    <3>1. j \in m + 1 .. m + Len(h) /\ r[j] = n + 1 /\ c[j] = j - m
      BY <1>1, <1>2, <2>2
    <3> HIDE DEF r, c
    <3> QED  BY <1>1, <1>2, <3>1
  <2> QED  BY <2>1, <2>2
<1>4. ASSUME NEW j \in 1 .. Len(G), NEW l \in 1 .. Len(G), r[j] = r[l], c[j] = c[l]
      PROVE  j = l
  <2>1. \A i \in 1 .. m : row[i] \in 1 .. n /\ r[i] = row[i] /\ c[i] = col[i]
    BY <1>1 DEF Cells
  <2>2. \A i \in m + 1 .. m + Len(h) : r[i] = n + 1 /\ c[i] = i - m
    BY <1>1
  <2>3. /\ j \in 1 .. m \/ j \in m + 1 .. m + Len(h)
        /\ l \in 1 .. m \/ l \in m + 1 .. m + Len(h)
    BY <1>1, <1>2
  <2>4. \A a, b \in 1 .. m : row[a] = row[b] /\ col[a] = col[b] => a = b
    BY DEF Cells
  <2> HIDE DEF r, c, h, m
  <2>5. CASE j \in 1 .. m /\ l \in 1 .. m
    BY <1>4, <2>1, <2>4, <2>5
  <2>6. CASE j \notin 1 .. m /\ l \notin 1 .. m
    <3>1. j - m = l - m
      BY <1>4, <2>2, <2>3, <2>6
    <3> QED  BY <1>1, <2>3, <2>6, <3>1
  <2>7. CASE j \in 1 .. m <=> l \notin 1 .. m
    <3>1. \A a \in 1 .. m : r[a] \in 1 .. n
      BY <2>1
    <3>2. \A a \in m + 1 .. m + Len(h) : r[a] \notin 1 .. n
      BY <2>2
    <3> QED  BY <1>4, <2>3, <2>7, <3>1, <3>2
  <2> QED  BY <2>5, <2>6, <2>7
<1>5. ASSUME NEW i \in 1 .. n + 1, NEW k \in 1 .. Len(s[i])
      PROVE  \E j \in 1 .. Len(G) : r[j] = i /\ c[j] = k
  <2>1. CASE i = n + 1
    <3>1. /\ m + k \in 1 .. Len(G) /\ r[m + k] = n + 1 /\ c[m + k] = k
      BY <1>1, <1>2, <2>1
    <3> HIDE DEF r, c
    <3> QED  BY <2>1, <3>1
  <2>2. CASE i # n + 1
    <3>1. i \in 1 .. n
      BY <2>2
    <3>2. PICK j \in 1 .. m : row[j] = i /\ col[j] = k
      BY <3>1 DEF Cells
    <3>3. j \in 1 .. Len(G) /\ r[j] = row[j] /\ c[j] = col[j]
      BY <1>1, <1>2
    <3> HIDE DEF r, c
    <3> QED  BY <3>2, <3>3
  <2> QED  BY <2>1, <2>2
<1>6. Cells(s, n + 1, G, r, c)
  <2> HIDE DEF r, c
  <2> QED  BY <1>3, <1>4, <1>5 DEF Cells
<1> QED
  <2> HIDE DEF r, c
  <2> QED  BY <1>6 DEF G

(* FlattenSeq has every entry of every row, once.                          *)
LEMMA FlattenCells ==
    ASSUME NEW A, NEW s \in Seq(Seq(A))
    PROVE  /\ FlattenSeq(s) \in Seq(A)
           /\ \E row, col : Cells(s, Len(s), FlattenSeq(s), row, col)
<1>1. CASE s = <<>>
  <2>1. FlattenSeq(s) = <<>>
    BY <1>1, Zenon DEF FlattenSeq
  <2>2. Cells(s, Len(s), <<>>, <<>>, <<>>)
    BY <1>1 DEF Cells
  <2> QED  BY <2>1, <2>2
<1>2. CASE s # <<>>
  <2>1. PICK f : FlattenSeq(s) = f[Len(s)] /\ \A n \in 1 .. Len(s) : Joined(s, f, n)
    BY <1>2, FlattenSteps
  <2> DEFINE Laid(n) == f[n] \in Seq(A) /\ \E row, col : Cells(s, n, f[n], row, col)
             Done == {n \in Nat : n \in 1 .. Len(s) => Laid(n)}
  <2>2. Len(s) \in Nat /\ Len(s) # 0
    BY <1>2
  <2>3. Laid(1)
    <3>1. f[1] = s[1] /\ s[1] \in Seq(A)
      BY <2>1, <2>2 DEF Joined
    <3> QED  BY <1>2, <3>1, FirstCells
  <2>4. ASSUME NEW n \in 1 .. Len(s), Laid(n), n + 1 \in 1 .. Len(s)
        PROVE  Laid(n + 1)
    <3>0. n \in Nat /\ n + 1 # 1 /\ (n + 1) - 1 = n /\ Joined(s, f, n + 1)
      BY <2>1, <2>2, <2>4
    <3>1. f[n + 1] = f[n] \o s[n + 1] /\ s[n + 1] \in Seq(A)
      <4>1. f[n + 1] = f[n] \o s[n + 1]
        BY <3>0, Zenon DEF Joined
      <4> QED  BY <2>4, <4>1
    <3>2. f[n + 1] \in Seq(A)
      BY <2>4, <3>1
    <3>3. \E r, c : Cells(s, n + 1, f[n + 1], r, c)
      BY <2>2, <2>4, <3>1, NextCells
    <3> QED  BY <3>2, <3>3
  <2>5. Nat \subseteq Done
    <3>1. 0 \in Done
      OBVIOUS
    <3>2. ASSUME NEW n \in Nat, n \in Done
          PROVE  n + 1 \in Done
      <4> HIDE DEF Laid
      <4>1. CASE n = 0
        BY <2>3, <4>1
      <4>2. CASE n # 0
        BY <2>2, <2>4, <3>2, <4>2
      <4> QED  BY <4>1, <4>2
    <3> HIDE DEF Done
    <3> QED  BY <3>1, <3>2, SetInduction
  <2>6. Laid(Len(s))
    <3> HIDE DEF Laid
    <3> QED  BY <2>2, <2>5
  <2> QED  BY <2>1, <2>6
<1> QED  BY <1>1, <1>2

----------------------------------------------------------------------------
(* Chunks *)

OnceEach(p) == \A i, j \in DOMAIN p : p[i] = p[j] /\ p[i] > 0 => i = j

LEMMA CutBounds ==
    ASSUME NEW p, Len(p) \in Nat
    PROVE  Cut(p) \in 1 .. Limit
<1>1. Limit \in Nat /\ Limit >= 2 /\ Limit \div 2 >= 1
  BY DeliveryAssumption
<1> DEFINE B == {i \in 1 .. Limit - 1 : Newline(p, i) /\ Newline(p, i + 1)}
           N == {i \in 1 .. Limit : Newline(p, i)}
           S == IF LastOf(B) # {} THEN LastOf(B) ELSE LastOf(N)
<1>2. \A i \in S : i \in 2 .. Limit
  BY <1>1 DEF LastOf
<1>3. Cut(p) = IF S = {} THEN Limit ELSE (CHOOSE i \in S : TRUE) - 1
  BY Zenon DEF Cut
<1> HIDE DEF S
<1>4. CASE S = {}
  BY <1>1, <1>3, <1>4
<1>5. CASE S # {}
  <2>1. (CHOOSE i \in S : TRUE) \in S
    BY <1>5
  <2> QED  BY <1>1, <1>2, <1>3, <1>5, <2>1
<1> QED  BY <1>4, <1>5

LEMMA AfterSkips ==
    ASSUME NEW p, Len(p) \in Nat, NEW n \in 0 .. Len(p)
    PROVE  /\ After(p, n) \in n .. Len(p)
           /\ \A i \in n + 1 .. After(p, n) : Newline(p, i)
<1> DEFINE S == {m \in n .. Len(p) : m < Len(p) => ~Newline(p, m + 1)}
<1>1. Len(p) \in S /\ S \subseteq Nat
  OBVIOUS
<1>2. PICK m \in S : \A l \in S : m <= l
  <2> HIDE DEF S
  <2> QED  BY <1>1, LeastOf
<1>3. ASSUME NEW i \in n + 1 .. m
      PROVE  Newline(p, i)
  <2>1. i - 1 \in n .. Len(p) /\ i - 1 < Len(p) /\ (i - 1) + 1 = i /\ ~(m <= i - 1)
    BY <1>2
  <2>2. i - 1 \notin S
    BY <1>2, <2>1
  <2> QED  BY <2>1, <2>2
<1>4. \E l \in n .. Len(p) :
          /\ \A i \in n + 1 .. l : Newline(p, i)
          /\ l < Len(p) => ~Newline(p, l + 1)
  BY <1>2, <1>3
<1> QED  BY <1>4 DEF After

(* One step of Split, with the chunks c of what follows.                   *)
Rest(p, n) == SubSeq(p, n + 1, Len(p))
Resume(p, n) == After(p, n + Cut(Rest(p, n)))

Chunks(p, n, c) ==
    IF Len(Rest(p, n)) <= Limit
    THEN IF Rest(p, n) = <<>> THEN <<>> ELSE <<Rest(p, n)>>
    ELSE <<SubSeq(Rest(p, n), 1, Cut(Rest(p, n)))>> \o c

LEMMA RestIsPart ==
    ASSUME NEW p \in Seq(Int), NEW n \in 0 .. Len(p)
    PROVE  /\ Rest(p, n) \in Seq(Int) /\ Len(Rest(p, n)) = Len(p) - n
           /\ \A i \in 1 .. Len(p) - n : Rest(p, n)[i] = p[n + i]
BY DEF Rest

LEMMA ResumeIsLater ==
    ASSUME NEW p \in Seq(Int), NEW n \in 0 .. Len(p), ~(Len(Rest(p, n)) <= Limit)
    PROVE  /\ Cut(Rest(p, n)) \in 1 .. Limit
           /\ n + Cut(Rest(p, n)) \in 0 .. Len(p)
           /\ Resume(p, n) \in n + Cut(Rest(p, n)) .. Len(p)
           /\ \A i \in n + Cut(Rest(p, n)) + 1 .. Resume(p, n) : Newline(p, i)
<1>1. Len(Rest(p, n)) = Len(p) - n /\ Len(Rest(p, n)) \in Nat
  BY RestIsPart
<1>2. Cut(Rest(p, n)) \in 1 .. Limit
  BY <1>1, CutBounds
<1>3. n + Cut(Rest(p, n)) \in 0 .. Len(p)
  BY <1>1, <1>2, DeliveryAssumption
<1> QED  BY <1>2, <1>3, AfterSkips DEF Resume

LEMMA SplitSteps ==
    ASSUME NEW p \in Seq(Int)
    PROVE  \E f : /\ Split(p) = f[0]
                  /\ \A n \in 0 .. Len(p) : f[n] = Chunks(p, n, f[Resume(p, n)])
<1> DEFINE L == Len(p)
           From(d, f) == f = [n \in L - d .. L |-> Chunks(p, n, f[Resume(p, n)])]
           Done == {d \in Nat : d <= L => \E f : From(d, f)}
<1>1. L \in Nat
  OBVIOUS
<1>2. ASSUME NEW n \in 0 .. L, NEW f, NEW g,
             \A m \in n + 1 .. L : f[m] = g[m]
      PROVE  Chunks(p, n, f[Resume(p, n)]) = Chunks(p, n, g[Resume(p, n)])
  <2>1. CASE Len(Rest(p, n)) <= Limit
    BY <2>1 DEF Chunks
  <2>2. CASE ~(Len(Rest(p, n)) <= Limit)
    <3>1. Resume(p, n) \in n + 1 .. L
      BY <2>2, ResumeIsLater, DeliveryAssumption
    <3> QED  BY <1>2, <3>1
  <2> QED  BY <2>1, <2>2
<1>3. 0 \in Done
  <2> DEFINE f == [n \in L - 0 .. L |-> Chunks(p, n, <<>>)]
  <2>1. f = [n \in L - 0 .. L |-> Chunks(p, n, f[Resume(p, n)])]
    <3>1. \A n \in L - 0 .. L : Len(Rest(p, n)) <= Limit
      BY <1>1, RestIsPart, DeliveryAssumption
    <3>2. \A n \in L - 0 .. L : Chunks(p, n, <<>>) = Chunks(p, n, f[Resume(p, n)])
      BY <3>1, Zenon DEF Chunks
    <3> QED  BY <3>2
  <2>2. From(0, f)
    BY <2>1
  <2> HIDE DEF f, From
  <2> QED  BY <2>2
<1>4. ASSUME NEW d \in Nat, d \in Done
      PROVE  d + 1 \in Done
  <2> SUFFICES ASSUME d + 1 <= L
               PROVE  \E f : From(d + 1, f)
    OBVIOUS
  <2>1. PICK f : From(d, f)
    BY <1>1, <1>4
  <2> DEFINE g == [n \in L - (d + 1) .. L |->
                      IF n = L - (d + 1) THEN Chunks(p, n, f[Resume(p, n)]) ELSE f[n]]
  <2>2. ASSUME NEW n \in L - (d + 1) .. L
        PROVE  /\ g[n] = Chunks(p, n, g[Resume(p, n)])
    <3>1. n \in 0 .. L /\ \A m \in n + 1 .. L : f[m] = g[m]
      BY <1>1
    <3>2. Chunks(p, n, f[Resume(p, n)]) = Chunks(p, n, g[Resume(p, n)])
      <4> HIDE DEF g
      <4> QED  BY <1>2, <3>1
    <3>3. CASE n = L - (d + 1)
      BY <3>2, <3>3
    <3>4. CASE n # L - (d + 1)
      <4>1. n \in L - d .. L
        BY <1>1, <3>4
      <4>2. g[n] = f[n] /\ f[n] = Chunks(p, n, f[Resume(p, n)])
        BY <2>1, <3>4, <4>1
      <4> HIDE DEF g
      <4> QED  BY <3>2, <4>2
    <3> QED  BY <3>3, <3>4
  <2>3. From(d + 1, g)
    BY <2>2
  <2> HIDE DEF From, g
  <2> QED  BY <2>3
<1>5. \E f : From(L, f)
  <2>1. Nat \subseteq Done
    <3> HIDE DEF Done
    <3> QED  BY <1>3, <1>4, SetInduction
  <2> HIDE DEF From
  <2> QED  BY <1>1, <2>1
<1> DEFINE Whole(f) == f = [n \in 0 .. L |-> Chunks(p, n, f[Resume(p, n)])]
           f == CHOOSE f : Whole(f)
<1>6. Whole(f)
  <2>1. \E g : Whole(g)
    <3>1. L - L = 0
      BY <1>1
    <3> QED  BY <1>5, <3>1
  <2> HIDE DEF Whole
  <2> QED  BY <2>1
<1>7. Split(p) = f[0]
  BY Zenon DEF Split, Chunks, Rest, Resume, Whole, f
<1>8. \A n \in 0 .. Len(p) : f[n] = Chunks(p, n, f[Resume(p, n)])
  <2> HIDE DEF f
  <2> QED  BY <1>6
<1> QED
  <2> HIDE DEF f
  <2> QED  BY <1>7, <1>8

AllOnceEach(c) == \A k \in DOMAIN c : OnceEach(c[k])

LEMMA Joins ==
    ASSUME NEW h \in Seq(Int), NEW c \in Seq(Seq(Int)), Len(h) <= Limit,
           Short(c), NoneTwice(c), \A x \in Range(h) \cap Held(c) : x <= 0,
           OnceEach(h), AllOnceEach(c)
    PROVE  LET d == <<h>> \o c
           IN  /\ d \in Seq(Seq(Int)) /\ d # <<>>
               /\ Short(d) /\ NoneTwice(d) /\ Held(d) = Range(h) \cup Held(c)
               /\ AllOnceEach(d)
<1> DEFINE d == <<h>> \o c
<1>1. d \in Seq(Seq(Int)) /\ Len(d) = Len(c) + 1 /\ Len(c) \in Nat /\ d[1] = h
  OBVIOUS
<1>2. \A k \in 2 .. Len(d) : k - 1 \in 1 .. Len(c) /\ d[k] = c[k - 1]
  OBVIOUS
<1>3. \A k \in 1 .. Len(c) : k + 1 \in 2 .. Len(d) /\ c[k] = d[k + 1]
  OBVIOUS
<1> HIDE DEF d
<1>4. DOMAIN d = {1} \cup 2 .. Len(d) /\ DOMAIN c = 1 .. Len(c)
  BY <1>1
<1>5. Short(d)
  BY <1>1, <1>2, <1>4 DEF Short
<1>6. Held(d) = Range(h) \cup Held(c)
  <2>1. \A k \in DOMAIN d : Range(d[k]) \subseteq Range(h) \cup Held(c)
    BY <1>1, <1>2, <1>4 DEF Held
  <2>2. \A k \in DOMAIN c : Range(c[k]) \subseteq Held(d)
    BY <1>3, <1>4 DEF Held
  <2>3. Range(h) \subseteq Held(d)
    BY <1>1, <1>4 DEF Held
  <2> QED  BY <2>1, <2>2, <2>3 DEF Held
<1>7. NoneTwice(d)
  <2> SUFFICES ASSUME NEW k \in DOMAIN d, NEW l \in DOMAIN d,
                      NEW x \in Range(d[k]) \cap Range(d[l]), x > 0
               PROVE  k = l
    BY DEF NoneTwice
  <2>1. \A i \in 2 .. Len(d) : Range(d[i]) \subseteq Held(c)
    BY <1>2, <1>4 DEF Held
  <2>2. x \in Int
    BY <1>1, <1>4 DEF Range
  <2>3. k = 1 \/ l = 1 => k = l
    BY <1>1, <1>4, <2>1, <2>2
  <2>4. k # 1 /\ l # 1 => k - 1 = l - 1
    BY <1>2, <1>4 DEF NoneTwice
  <2> QED  BY <1>1, <1>4, <2>3, <2>4
<1>8. AllOnceEach(d)
  BY <1>1, <1>2, <1>4 DEF AllOnceEach
<1> QED  BY <1>1, <1>5, <1>6, <1>7, <1>8 DEF d

(* The chunks c hold p but for its first n characters and newlines.        *)
Good(p, n, c) ==
    /\ c \in Seq(Seq(Int)) /\ Short(c) /\ NoneTwice(c) /\ AllOnceEach(c)
    /\ Held(c) \subseteq {p[i] : i \in n + 1 .. Len(p)}
    /\ \A i \in n + 1 .. Len(p) : Newline(p, i) \/ p[i] \in Held(c)
    /\ n < Len(p) => c # <<>>

LEMMA GoodChunks ==
    ASSUME NEW p \in Seq(Int), OnceEach(p), NEW n \in 0 .. Len(p), NEW c,
           ~(Len(Rest(p, n)) <= Limit) => Good(p, Resume(p, n), c)
    PROVE  Good(p, n, Chunks(p, n, c))
<1> DEFINE L == Len(p)  R == Rest(p, n)
<1>1. L \in Nat /\ R \in Seq(Int) /\ Len(R) = L - n
  BY RestIsPart
<1>fwd. \A i \in 1 .. L - n : R[i] = p[n + i] /\ n + i \in n + 1 .. L
  BY RestIsPart
<1>bwd. \A i \in n + 1 .. L : i - n \in 1 .. L - n /\ p[i] = R[i - n]
  BY RestIsPart
<1>2. CASE Len(R) <= Limit /\ R = <<>>
  <2>1. Chunks(p, n, c) = <<>>
    BY <1>2 DEF Chunks
  <2>2. n = L
    BY <1>1, <1>2
  <2> QED  BY <1>1, <2>1, <2>2 DEF Good, Short, NoneTwice, Held, AllOnceEach
<1>3. CASE Len(R) <= Limit /\ R # <<>>
  <2>1. Chunks(p, n, c) = <<R>>
    BY <1>3 DEF Chunks
  <2>2. Held(<<R>>) = Range(R) /\ Short(<<R>>) /\ NoneTwice(<<R>>)
    BY <1>3 DEF Held, Short, NoneTwice
  <2>3. Range(R) = {p[i] : i \in n + 1 .. L}
    <3> HIDE DEF L, R
    <3>1. DOMAIN R = 1 .. L - n
      BY <1>1
    <3>2. ASSUME NEW x \in Range(R)
          PROVE  \E i \in n + 1 .. L : x = p[i]
      BY <1>fwd, <3>1 DEF Range
    <3>3. ASSUME NEW i \in n + 1 .. L
          PROVE  p[i] \in Range(R)
      BY <1>bwd, <3>1 DEF Range
    <3> QED  BY <3>2, <3>3
  <2>4. OnceEach(R)
    <3> HIDE DEF R
    <3> SUFFICES ASSUME NEW i \in DOMAIN R, NEW j \in DOMAIN R, R[i] = R[j], R[i] > 0
                 PROVE  i = j
      BY DEF OnceEach
    <3>1. i \in 1 .. L - n /\ j \in 1 .. L - n
      BY <1>1
    <3>in. \A k \in 1 .. L - n : n + k \in DOMAIN p
      BY <1>1
    <3>2. p[n + i] = p[n + j] /\ p[n + i] > 0
      BY <1>fwd, <3>1
    <3>3. n + i = n + j
      BY <3>1, <3>in, <3>2 DEF OnceEach
    <3> QED  BY <3>1, <3>3
  <2>5. AllOnceEach(<<R>>)
    BY <2>4 DEF AllOnceEach
  <2>6. Chunks(p, n, c) \in Seq(Seq(Int)) /\ Chunks(p, n, c) # <<>>
    BY <1>1, <2>1
  <2>7. \A i \in n + 1 .. L : p[i] \in Held(<<R>>)
    BY <2>2, <2>3
  <2> HIDE DEF R
  <2> QED  BY <2>1, <2>2, <2>3, <2>5, <2>6, <2>7 DEF Good
<1>4. CASE ~(Len(R) <= Limit)
  <2> DEFINE cut == Cut(R)  m == Resume(p, n)  h == SubSeq(R, 1, cut)
  <2>1. /\ cut \in 1 .. Limit /\ n + cut \in 0 .. L /\ m \in n + cut .. L
        /\ \A i \in n + cut + 1 .. m : Newline(p, i)
    BY <1>4, ResumeIsLater
  <2>2. Chunks(p, n, c) = <<h>> \o c
    BY <1>4 DEF Chunks
  <2>3. Good(p, m, c)
    BY <1>4
  <2> HIDE DEF cut, m
  <2>4. Limit \in Nat
    BY DeliveryAssumption
  <2>5. /\ h \in Seq(Int) /\ Len(h) = cut
        /\ \A i \in 1 .. cut : h[i] = p[n + i]
    <3> HIDE DEF R, L
    <3>1. cut \in 0 .. Len(R) /\ cut \in Nat
      BY <1>1, <1>4, <2>1, <2>4
    <3>2. h \in Seq(Int) /\ Len(h) = cut /\ \A i \in 1 .. cut : h[i] = R[i]
      BY <1>1, <3>1
    <3> HIDE DEF h
    <3>3. \A i \in 1 .. cut : i \in 1 .. L - n
      BY <1>1, <3>1
    <3> QED  BY <1>fwd, <3>2, <3>3
  <2> HIDE DEF h
  <2>6. Range(h) = {p[i] : i \in n + 1 .. n + cut}
    <3>1. DOMAIN h = 1 .. cut
      BY <2>5
    <3>2. ASSUME NEW i \in n + 1 .. n + cut
          PROVE  p[i] \in Range(h)
      <4>1. i - n \in 1 .. cut /\ n + (i - n) = i
        BY <2>1, <2>4
      <4> QED  BY <2>5, <3>1, <4>1 DEF Range
    <3>3. ASSUME NEW x \in Range(h)
          PROVE  \E i \in n + 1 .. n + cut : x = p[i]
      <4>1. PICK i \in 1 .. cut : x = p[n + i]
        BY <2>5, <3>1 DEF Range
      <4>2. n + i \in n + 1 .. n + cut
        BY <2>1, <2>4
      <4> QED  BY <4>1, <4>2
    <3> QED  BY <3>2, <3>3
  <2>once. OnceEach(h)
    <3> SUFFICES ASSUME NEW i \in DOMAIN h, NEW j \in DOMAIN h, h[i] = h[j], h[i] > 0
                 PROVE  i = j
      BY DEF OnceEach
    <3>1. i \in 1 .. cut /\ j \in 1 .. cut
      BY <2>5
    <3>in. \A k \in 1 .. cut : n + k \in DOMAIN p
      BY <1>1, <2>1, <2>4
    <3>2. p[n + i] = p[n + j] /\ p[n + i] > 0
      BY <2>5, <3>1
    <3>3. n + i = n + j
      BY <3>1, <3>in, <3>2 DEF OnceEach
    <3> QED  BY <2>1, <2>4, <3>1, <3>3
  <2>7. ASSUME NEW x \in Range(h) \cap Held(c)
        PROVE  x <= 0
    <3>1. PICK i \in n + 1 .. n + cut : x = p[i]
      BY <2>6
    <3>2. PICK j \in m + 1 .. L : x = p[j]
      BY <2>3 DEF Good
    <3>3. i \in DOMAIN p /\ j \in DOMAIN p /\ i # j /\ x \in Int
      BY <1>1, <2>1, <2>4, <3>1, <3>2
    <3>4. x > 0 => i = j
      BY <3>1, <3>2, <3>3 DEF OnceEach
    <3> QED  BY <3>3, <3>4
  <2>8. LET d == <<h>> \o c
        IN  /\ d \in Seq(Seq(Int)) /\ d # <<>>
            /\ Short(d) /\ NoneTwice(d) /\ Held(d) = Range(h) \cup Held(c)
            /\ AllOnceEach(d)
    <3>1. Len(h) <= Limit
      BY <2>1, <2>4, <2>5
    <3>2. c \in Seq(Seq(Int)) /\ Short(c) /\ NoneTwice(c) /\ AllOnceEach(c)
      BY <2>3 DEF Good
    <3> QED  BY <2>5, <2>once, <2>7, <3>1, <3>2, Joins
  <2>9. Held(<<h>> \o c) \subseteq {p[i] : i \in n + 1 .. L}
    <3>1. n + 1 .. n + cut \subseteq n + 1 .. L /\ m + 1 .. L \subseteq n + 1 .. L
      BY <1>1, <2>1, <2>4
    <3> QED  BY <2>3, <2>6, <2>8, <3>1 DEF Good
  <2>10. \A i \in n + 1 .. L : Newline(p, i) \/ p[i] \in Held(<<h>> \o c)
    <3>1. \A i \in n + 1 .. L : \/ i \in n + 1 .. n + cut
                                \/ i \in n + cut + 1 .. m
                                \/ i \in m + 1 .. L
      BY <1>1, <2>1, <2>4
    <3> QED  BY <2>1, <2>3, <2>6, <2>8, <3>1 DEF Good
  <2> QED  BY <2>2, <2>8, <2>9, <2>10 DEF Good
<1> QED  BY <1>2, <1>3, <1>4

(* However a text is cut, and however often it is cut: no chunk is longer  *)
(* than the limit, every character but newlines is in a chunk, none is in  *)
(* two or twice in one, and only an empty text gives no chunk              *)
(* (_split_html).                                                          *)
THEOREM SplitGood ==
    ASSUME NEW p \in Seq(Int), OnceEach(p)
    PROVE  Good(p, 0, Split(p))
<1>1. PICK f : /\ Split(p) = f[0]
               /\ \A n \in 0 .. Len(p) : f[n] = Chunks(p, n, f[Resume(p, n)])
  BY SplitSteps
<1> DEFINE L == Len(p)
           Done == {d \in Nat : \A n \in 0 .. L : n >= L - d => Good(p, n, f[n])}
<1>2. L \in Nat
  OBVIOUS
<1>3. ASSUME NEW n \in 0 .. L, \A m \in n + 1 .. L : Good(p, m, f[m])
      PROVE  Good(p, n, f[n])
  <2>1. ~(Len(Rest(p, n)) <= Limit) => Good(p, Resume(p, n), f[Resume(p, n)])
    <3>1. ~(Len(Rest(p, n)) <= Limit) => Resume(p, n) \in n + 1 .. L
      BY ResumeIsLater, DeliveryAssumption
    <3> QED  BY <1>3, <3>1
  <2>2. Good(p, n, Chunks(p, n, f[Resume(p, n)]))
    BY <2>1, GoodChunks
  <2> QED  BY <1>1, <2>2
<1>4. 0 \in Done
  <2> SUFFICES ASSUME NEW n \in 0 .. L, n >= L - 0
               PROVE  Good(p, n, f[n])
    OBVIOUS
  <2>1. \A m \in n + 1 .. L : Good(p, m, f[m])
    BY <1>2
  <2> QED  BY <1>3, <2>1
<1>5. ASSUME NEW d \in Nat, d \in Done
      PROVE  d + 1 \in Done
  <2> SUFFICES ASSUME NEW n \in 0 .. L, n >= L - (d + 1)
               PROVE  Good(p, n, f[n])
    OBVIOUS
  <2>1. \A m \in n + 1 .. L : m \in 0 .. L /\ m >= L - d
    BY <1>2
  <2>2. \A m \in n + 1 .. L : Good(p, m, f[m])
    BY <1>5, <2>1
  <2> QED  BY <1>3, <2>2
<1>6. L \in Done
  <2> HIDE DEF Done
  <2>1. Nat \subseteq Done
    BY <1>4, <1>5, SetInduction
  <2> QED  BY <1>2, <2>1
<1>7. 0 \in 0 .. L /\ 0 >= L - L
  BY <1>2
<1> QED  BY <1>1, <1>6, <1>7

----------------------------------------------------------------------------
(* Chunks that are converted and split again. *)

LEMMA StrippedIsPrefix ==
    ASSUME NEW p \in Seq(Int)
    PROVE  \E n \in 0 .. Len(p) :
              /\ Stripped(p) = SubSeq(p, 1, n)
              /\ \A i \in n + 1 .. Len(p) : Newline(p, i)
<1> DEFINE L == Len(p)
           Cand(n) == /\ \A i \in n + 1 .. L : Newline(p, i)
                      /\ n > 0 => ~Newline(p, n)
           S == {n \in 0 .. L : \A i \in n + 1 .. L : Newline(p, i)}
<1>1. L \in Nat /\ L \in S /\ S \subseteq Nat
  OBVIOUS
<1>2. PICK n \in S : \A l \in S : n <= l
  <2> HIDE DEF S
  <2> QED  BY <1>1, LeastOf
<1>3. n > 0 => ~Newline(p, n)
  <2> SUFFICES ASSUME n > 0, Newline(p, n)
               PROVE  FALSE
    OBVIOUS
  <2>1. n - 1 \in 0 .. L /\ ~(n <= n - 1)
    BY <1>1, <1>2
  <2>2. \A i \in (n - 1) + 1 .. L : i = n \/ i \in n + 1 .. L
    BY <1>1, <1>2
  <2>3. n - 1 \in S
    BY <1>2, <2>1, <2>2
  <2> QED  BY <1>2, <2>1, <2>3
<1>4. \E l \in 0 .. L : Cand(l)
  BY <1>2, <1>3
<1> DEFINE m == CHOOSE l \in 0 .. L : Cand(l)
<1>5. m \in 0 .. L /\ Cand(m)
  <2> HIDE DEF Cand
  <2> QED  BY <1>4
<1>6. Stripped(p) = SubSeq(p, 1, m)
  BY Zenon DEF Stripped, Cand, m
<1> HIDE DEF m
<1> QED  BY <1>5, <1>6

(* No character but newlines is lost, and none is repeated, when a chunk   *)
(* is converted again.                                                     *)
LEMMA ReconvertedHolds ==
    ASSUME NEW p \in Seq(Int), OnceEach(p), \A i \in DOMAIN p : p[i] > 0
    PROVE  /\ Reconverted(p) \in Seq(Int) /\ OnceEach(Reconverted(p))
           /\ \A x \in Range(Reconverted(p)) : x > 0 => x \in Range(p)
           /\ \A i \in DOMAIN p : Newline(p, i) \/ p[i] \in Range(Reconverted(p))
<1>1. PICK n \in 0 .. Len(p) : /\ Stripped(p) = SubSeq(p, 1, n)
                               /\ \A i \in n + 1 .. Len(p) : Newline(p, i)
  BY StrippedIsPrefix
<1> DEFINE st == Stripped(p)
           s == [i \in DOMAIN st |-> Escaped(st[i])]
           q == FlattenSeq(s)
<1>2. /\ st \in Seq(Int) /\ Len(st) = n /\ \A i \in 1 .. n : st[i] = p[i]
      /\ DOMAIN st = 1 .. n /\ 1 .. n \subseteq DOMAIN p
  BY <1>1
<1> HIDE DEF st
<1>3. s \in Seq(Seq(Int)) /\ Len(s) = n
  <2>1. \A i \in 1 .. n : Escaped(st[i]) \in Seq(Int)
    BY <1>2 DEF Escaped
  <2> QED  BY <1>2, <2>1
<1>4. ASSUME NEW i \in 1 .. n
      PROVE  /\ s[i][1] = p[i] /\ Len(s[i]) \in 1 .. 2
             /\ Len(s[i]) = 2 => s[i][2] = -p[i]
  BY <1>2 DEF Escaped
<1> HIDE DEF s
<1>5. PICK row, col : q \in Seq(Int) /\ Cells(s, n, q, row, col)
  <2> HIDE DEF q
  <2>1. FlattenSeq(s) \in Seq(Int) /\ \E row, col : Cells(s, n, FlattenSeq(s), row, col)
    BY <1>3, FlattenCells
  <2> QED  BY <2>1 DEF q
<1>6. Reconverted(p) = q
  BY Zenon DEF Reconverted, q, s, st
<1> HIDE DEF q
<1>7. ASSUME NEW j \in 1 .. Len(q), q[j] > 0
      PROVE  row[j] \in 1 .. n /\ col[j] = 1 /\ q[j] = p[row[j]]
  <2>1. row[j] \in 1 .. n /\ col[j] \in 1 .. Len(s[row[j]]) /\ q[j] = s[row[j]][col[j]]
    BY <1>5 DEF Cells
  <2>2. p[row[j]] > 0 /\ p[row[j]] \in Int
    BY <1>2, <2>1
  <2>3. col[j] # 2
    BY <1>4, <1>7, <2>1, <2>2
  <2>4. col[j] = 1
    <3>1. Len(s[row[j]]) \in 1 .. 2
      BY <1>4, <2>1
    <3> QED  BY <2>1, <2>3, <3>1
  <2> QED  BY <1>4, <2>1, <2>4
<1>8. OnceEach(q)
  <2> SUFFICES ASSUME NEW j \in 1 .. Len(q), NEW l \in 1 .. Len(q),
                      q[j] = q[l], q[j] > 0
               PROVE  j = l
    BY <1>5 DEF OnceEach
  <2>1. /\ row[j] \in DOMAIN p /\ row[l] \in DOMAIN p /\ col[j] = col[l]
        /\ p[row[j]] = p[row[l]] /\ p[row[j]] > 0
    BY <1>2, <1>7
  <2>2. row[j] = row[l]
    BY <2>1 DEF OnceEach
  <2> QED  BY <1>5, <2>1, <2>2 DEF Cells
<1>9. ASSUME NEW x \in Range(q), x > 0
      PROVE  x \in Range(p)
  <2>1. PICK j \in 1 .. Len(q) : x = q[j]
    BY <1>5 DEF Range
  <2> QED  BY <1>2, <1>7, <1>9, <2>1 DEF Range
<1>10. ASSUME NEW i \in DOMAIN p
       PROVE  Newline(p, i) \/ p[i] \in Range(q)
  <2>1. CASE i \in 1 .. n
    <3>1. PICK j \in 1 .. Len(q) : row[j] = i /\ col[j] = 1
      <4>1. 1 \in 1 .. Len(s[i])
        BY <1>4, <2>1
      <4> QED  BY <1>5, <2>1, <4>1 DEF Cells
    <3>2. q[j] = p[i]
      <4>1. q[j] = s[row[j]][col[j]]
        BY <1>5 DEF Cells
      <4> QED  BY <1>4, <2>1, <3>1, <4>1
    <3> QED  BY <1>5, <3>1, <3>2 DEF Range
  <2>2. CASE i \notin 1 .. n
    BY <1>1, <2>2
  <2> QED  BY <2>1, <2>2
<1> QED  BY <1>5, <1>6, <1>8, <1>9, <1>10

Kept(x) == x > 0 /\ text[x] # "n"

(* What send_rich_message makes of the other chunks of an edit.            *)
LEMMA Resplit ==
    ASSUME NEW t \in Seq(Seq(Int)), t # <<>>, NoneTwice(t), AllOnceEach(t),
           \A x \in Held(t) : x > 0
    PROVE  LET e == FlattenSeq([i \in DOMAIN Tail(t) |-> Split(Reconverted(t[i + 1]))])
           IN  /\ e \in Seq(Seq(Int)) /\ Short(e) /\ NoneTwice(e)
               /\ \A x \in Held(e) : x > 0 => x \in Held(Tail(t))
               /\ \A x \in Held(Tail(t)) : Kept(x) => x \in Held(e)
<1> DEFINE u == Tail(t)
           R(i) == Reconverted(t[i + 1])
           s == [i \in DOMAIN u |-> Split(R(i))]
           e == FlattenSeq(s)
           n == Len(u)
<1>1. /\ u \in Seq(Seq(Int)) /\ n \in Nat /\ DOMAIN u = 1 .. n
      /\ \A i \in 1 .. n : i + 1 \in DOMAIN t /\ u[i] = t[i + 1]
  OBVIOUS
<1> HIDE DEF u
<1>2. ASSUME NEW i \in 1 .. n
      PROVE  u[i] \in Seq(Int) /\ OnceEach(u[i]) /\ \A j \in DOMAIN u[i] : u[i][j] > 0
  <2>1. u[i] \in Seq(Int) /\ u[i] = t[i + 1] /\ i + 1 \in DOMAIN t
    BY <1>1
  <2>2. \A j \in DOMAIN u[i] : u[i][j] \in Held(t)
    BY <2>1 DEF Held, Range
  <2> QED  BY <2>1, <2>2 DEF AllOnceEach
<1>3. ASSUME NEW i \in 1 .. n
      PROVE  /\ Split(R(i)) \in Seq(Seq(Int)) /\ Short(Split(R(i))) /\ NoneTwice(Split(R(i)))
             /\ \A x \in Held(Split(R(i))) : x > 0 => x \in Range(u[i])
             /\ \A x \in Range(u[i]) : Kept(x) => x \in Held(Split(R(i)))
  <2>1. R(i) = Reconverted(u[i])
    BY <1>1
  <2>2. /\ R(i) \in Seq(Int) /\ OnceEach(R(i))
        /\ \A x \in Range(R(i)) : x > 0 => x \in Range(u[i])
        /\ \A j \in DOMAIN u[i] : Newline(u[i], j) \/ u[i][j] \in Range(R(i))
    BY <1>2, <2>1, ReconvertedHolds
  <2> HIDE DEF R
  <2>3. Good(R(i), 0, Split(R(i)))
    BY <2>2, SplitGood
  <2>4. /\ Split(R(i)) \in Seq(Seq(Int)) /\ Short(Split(R(i))) /\ NoneTwice(Split(R(i)))
        /\ Held(Split(R(i))) \subseteq {R(i)[j] : j \in 0 + 1 .. Len(R(i))}
        /\ \A j \in 0 + 1 .. Len(R(i)) : Newline(R(i), j) \/ R(i)[j] \in Held(Split(R(i)))
    BY <2>3 DEF Good
  <2>5. DOMAIN R(i) = 0 + 1 .. Len(R(i))
    BY <2>2
  <2>6. Held(Split(R(i))) \subseteq Range(R(i))
    BY <2>4, <2>5 DEF Range
  <2>7. ASSUME NEW x \in Range(u[i]), Kept(x)
        PROVE  x \in Held(Split(R(i)))
    <3>1. x \in Range(R(i))
      BY <2>2, <2>7 DEF Range, Kept, Newline
    <3> QED  BY <2>4, <2>5, <2>7, <3>1 DEF Range, Kept, Newline
  <2> QED  BY <2>2, <2>4, <2>6, <2>7
<1>4. s \in Seq(Seq(Seq(Int))) /\ Len(s) = n /\ \A i \in 1 .. n : s[i] = Split(R(i))
  BY <1>1, <1>3
<1> HIDE DEF s, R
<1>5. PICK row, col : e \in Seq(Seq(Int)) /\ Cells(s, n, e, row, col)
  <2> HIDE DEF e
  <2>1. FlattenSeq(s) \in Seq(Seq(Int))
        /\ \E row, col : Cells(s, n, FlattenSeq(s), row, col)
    <3> DEFINE A == Seq(Int)
    <3>1. s \in Seq(Seq(A))
      BY <1>4
    <3> HIDE DEF A
    <3>2. FlattenSeq(s) \in Seq(A) /\ \E row, col : Cells(s, n, FlattenSeq(s), row, col)
      BY <1>4, <3>1, FlattenCells
    <3> QED  BY <3>2 DEF A
  <2> QED  BY <2>1 DEF e
<1> HIDE DEF e
<1>6. ASSUME NEW j \in DOMAIN e
      PROVE  /\ row[j] \in 1 .. n /\ col[j] \in DOMAIN Split(R(row[j]))
             /\ e[j] = Split(R(row[j]))[col[j]]
  <2>1. j \in 1 .. Len(e)
    BY <1>5
  <2>2. row[j] \in 1 .. n /\ col[j] \in 1 .. Len(s[row[j]]) /\ e[j] = s[row[j]][col[j]]
    BY <1>5, <2>1 DEF Cells
  <2> QED  BY <1>3, <1>4, <2>2
<1>7. Short(e)
  BY <1>3, <1>6 DEF Short
<1>8. ASSUME NEW j \in DOMAIN e, NEW x \in Range(e[j])
      PROVE  x \in Held(Split(R(row[j])))
  BY <1>6, <1>8 DEF Held
<1>9. ASSUME NEW j \in DOMAIN e, NEW x \in Range(e[j]), x > 0
      PROVE  x \in Range(u[row[j]])
  BY <1>3, <1>6, <1>8, <1>9
<1>10. NoneTwice(e)
  <2> SUFFICES ASSUME NEW j \in DOMAIN e, NEW l \in DOMAIN e,
                      NEW x \in Range(e[j]) \cap Range(e[l]), x > 0
               PROVE  j = l
    BY DEF NoneTwice
  <2>1. row[j] + 1 = row[l] + 1
    <3>1. x \in Range(t[row[j] + 1]) /\ x \in Range(t[row[l] + 1])
      BY <1>1, <1>6, <1>9
    <3> QED  BY <1>1, <1>6, <3>1 DEF NoneTwice
  <2>2. row[j] = row[l]
    <3>1. row[j] \in 1 .. n /\ row[l] \in 1 .. n
      BY <1>6
    <3>2. \A a, b \in 1 .. n : a + 1 = b + 1 => a = b
      BY <1>1
    <3> QED  BY <2>1, <3>1, <3>2
  <2>3. col[j] = col[l]
    BY <1>3, <1>6, <2>2 DEF NoneTwice
  <2>4. j \in 1 .. Len(e) /\ l \in 1 .. Len(e)
    BY <1>5
  <2> QED  BY <1>5, <2>2, <2>3, <2>4 DEF Cells
<1>11. ASSUME NEW x \in Held(e), x > 0
       PROVE  x \in Held(u)
  BY <1>1, <1>6, <1>9, <1>11 DEF Held
<1>12. ASSUME NEW x \in Held(u), Kept(x)
       PROVE  x \in Held(e)
  <2>1. PICK i \in 1 .. n : x \in Range(u[i])
    BY <1>1 DEF Held
  <2>2. PICK k \in DOMAIN Split(R(i)) : x \in Range(Split(R(i))[k])
    BY <1>3, <1>12, <2>1 DEF Held
  <2>3. k \in 1 .. Len(s[i]) /\ s[i] = Split(R(i))
    BY <1>3, <1>4, <2>1, <2>2
  <2>4. PICK j \in 1 .. Len(e) : row[j] = i /\ col[j] = k
    BY <1>5, <2>1, <2>3 DEF Cells
  <2>5. j \in DOMAIN e /\ e[j] = Split(R(i))[k]
    <3>1. j \in DOMAIN e
      BY <1>5
    <3> QED  BY <1>6, <2>4, <3>1
  <2> QED  BY <2>2, <2>5 DEF Held
<1>13. e = FlattenSeq([i \in DOMAIN Tail(t) |-> Split(Reconverted(t[i + 1]))])
  BY Zenon DEF e, s, R, u
<1> QED  BY <1>5, <1>7, <1>10, <1>11, <1>12, <1>13 DEF u

----------------------------------------------------------------------------
(* What a step may rely on. *)

(* Every position is in c, once, unless it is a newline.                   *)
Parts(c) ==
    /\ c \in Seq(Seq(Int)) /\ NoneTwice(c) /\ AllOnceEach(c)
    /\ \A x \in Held(c) : x > 0
    /\ \A i \in DOMAIN text : text[i] = "n" \/ i \in Held(c)

LEMMA PositionsParts ==
    ASSUME text \in Texts
    PROVE  /\ Parts(<<Positions>>) /\ Parts(Split(Positions)) /\ Parts(EditParts)
           /\ Short(Split(Positions)) /\ Short(EditParts)
           /\ EditParts # <<>>
<1>1. text \in Seq({"x", "n", "t"})
  BY DeliveryAssumption
<1>2. /\ Len(text) \in Nat /\ DOMAIN text = 1 .. Len(text)
      /\ Positions \in Seq(Int) /\ Len(Positions) = Len(text)
      /\ \A i \in 1 .. Len(text) : Positions[i] = i
  BY <1>1 DEF Positions
<1>3. OnceEach(Positions) /\ Range(Positions) = 1 .. Len(text)
  BY <1>2 DEF OnceEach, Range
<1>4. Parts(<<Positions>>)
  <2>1. Held(<<Positions>>) = Range(Positions)
    BY DEF Held
  <2>2. <<Positions>> \in Seq(Seq(Int))
    BY <1>2
  <2> QED  BY <1>2, <1>3, <2>1, <2>2 DEF Parts, NoneTwice, AllOnceEach
<1>5. Parts(Split(Positions)) /\ Short(Split(Positions))
      /\ (Len(text) > 0 => Split(Positions) # <<>>)
  <2>1. Good(Positions, 0, Split(Positions))
    BY <1>2, <1>3, SplitGood
  <2> DEFINE S == Split(Positions)
  <2> HIDE DEF S
  <2>2. /\ S \in Seq(Seq(Int)) /\ Short(S) /\ NoneTwice(S) /\ AllOnceEach(S)
        /\ 0 < Len(Positions) => S # <<>>
    BY <2>1 DEF Good, S
  <2>3. \A x \in Held(S) : x > 0
    <3>1. \A i \in 0 + 1 .. Len(Positions) : Positions[i] > 0
      BY <1>2
    <3> QED  BY <2>1, <3>1 DEF Good, S
  <2>4. ASSUME NEW i \in DOMAIN text
        PROVE  text[i] = "n" \/ i \in Held(S)
    <3>1. i \in 0 + 1 .. Len(Positions) /\ Positions[i] = i
      BY <1>2
    <3> QED  BY <2>1, <3>1 DEF Good, Newline, S
  <2> QED  BY <1>2, <2>2, <2>3, <2>4 DEF Parts, S
<1>6. Parts(EditParts) /\ Short(EditParts) /\ EditParts # <<>>
  <2>1. CASE Len(text) > Limit
    BY <1>2, <1>5, <2>1, DeliveryAssumption DEF EditParts
  <2>2. CASE ~(Len(text) > Limit)
    <3>1. EditParts = <<Positions>>
      BY <2>2 DEF EditParts
    <3>2. Len(Positions) <= Limit
      BY <1>2, <2>2, DeliveryAssumption
    <3> QED  BY <1>4, <3>1, <3>2 DEF Short
  <2> QED  BY <2>1, <2>2
<1> QED  BY <1>4, <1>5, <1>6

LEMMA TailHolds ==
    ASSUME NEW c \in Seq(Seq(Int)), c # <<>>
    PROVE  /\ Tail(c) \in Seq(Seq(Int)) /\ Head(c) \in Seq(Int) /\ Head(c) = c[1]
           /\ Held(c) = Range(Head(c)) \cup Held(Tail(c))
           /\ Short(c) => Short(Tail(c))
           /\ NoneTwice(c) => /\ NoneTwice(Tail(c))
                          /\ \A x \in Range(Head(c)) : x > 0 => x \notin Held(Tail(c))
           /\ \A x : x \in Held(Tail(c)) <=> \E k \in DOMAIN c : k > 1 /\ x \in Range(c[k])
<1> DEFINE d == Tail(c)
<1>1. /\ d \in Seq(Seq(Int)) /\ Len(c) \in Nat /\ Len(d) = Len(c) - 1 /\ Len(c) >= 1
      /\ Head(c) \in Seq(Int) /\ Head(c) = c[1]
      /\ DOMAIN c = 1 .. Len(c) /\ DOMAIN d = 1 .. Len(c) - 1
  OBVIOUS
<1>2. \A k \in DOMAIN d : k + 1 \in DOMAIN c /\ k + 1 > 1 /\ d[k] = c[k + 1]
  OBVIOUS
<1> HIDE DEF d
<1>3. \A k \in DOMAIN c : k > 1 => k - 1 \in DOMAIN d /\ (k - 1) + 1 = k
  BY <1>1
<1>4. \A k \in DOMAIN c : k > 1 => k - 1 \in DOMAIN d /\ d[k - 1] = c[k]
  BY <1>2, <1>3
<1>5. ASSUME NEW x
      PROVE  x \in Held(d) <=> \E k \in DOMAIN c : k > 1 /\ x \in Range(c[k])
  BY <1>2, <1>4 DEF Held
<1>6. Held(c) = Range(Head(c)) \cup Held(d)
  <2>1. \A k \in DOMAIN c : k = 1 \/ k > 1
    BY <1>1
  <2>2. 1 \in DOMAIN c
    BY <1>1
  <2> QED  BY <1>1, <1>5, <2>1, <2>2 DEF Held
<1>7. Short(c) => Short(d)
  BY <1>2 DEF Short
<1>8. ASSUME NoneTwice(c)
      PROVE  NoneTwice(d) /\ \A x \in Range(Head(c)) : x > 0 => x \notin Held(d)
  <2>1. \A k, l \in DOMAIN d : k + 1 = l + 1 => k = l
    BY <1>1
  <2>2. NoneTwice(d)
    BY <1>2, <1>8, <2>1 DEF NoneTwice
  <2>3. 1 \in DOMAIN c /\ ~(1 > 1)
    BY <1>1
  <2> QED  BY <1>1, <1>5, <1>8, <2>2, <2>3 DEF NoneTwice
<1> QED  BY <1>1, <1>5, <1>6, <1>7, <1>8 DEF d

(* The same in the state: what a message of the chat shows.                *)
LEMMA AheadIs ==
    ASSUME DeliveryTypes, NEW i
    PROVE  /\ ~effect => (Ahead(i) <=> i \in Held(todo))
           /\ effect /\ todo # <<>> => (Ahead(i) <=> i \in Held(Tail(todo)))
BY TailHolds DEF Ahead, Held, DeliveryTypes

LEMMA ShowsNumber ==
    ASSUME DeliveryTypes, NEW i
    PROVE  /\ IsFiniteSet(ShowsInChat(i)) /\ Cardinality(ShowsInChat(i)) \in Nat
           /\ Shows(i) \in Nat
           /\ ShowsInChat(i) \subseteq 1 .. Len(chat)
<1>1. ShowsInChat(i) \subseteq 1 .. Len(chat) /\ Len(chat) \in Nat
  BY DEF DeliveryTypes, ShowsInChat
<1>2. IsFiniteSet(1 .. Len(chat))
  BY <1>1, FS_Interval
<1>3. IsFiniteSet(ShowsInChat(i))
  BY <1>1, <1>2, FS_Subset
<1>4. Cardinality(ShowsInChat(i)) \in Nat
  BY <1>3, FS_CardinalityType
<1> QED  BY <1>1, <1>3, <1>4 DEF Shows

----------------------------------------------------------------------------
(* The steps *)

(* What is to be sent once a call is over.                                 *)
LEMMA NextCall ==
    ASSUME DeliveryInv, UNCHANGED <<text, placeholder, chat>>, ~effect',
           call' \in Calls, todo' \in Seq(Seq(Int)), NoneTwice(todo'), lies' \in Nat,
           call' # "rich" => Short(todo'),
           call' = "rich" => todo' = <<Positions>>,
           call' = "plain" => todo' # <<>>,
           \A i \in DOMAIN text :
               /\ Shows(i) <= lies' + (IF i \in Held(todo') THEN 0 ELSE 1)
               /\ \/ text[i] = "n" \/ i \in given'
                  \/ ShowsInChat(i) # {} \/ ShowsInPlaceholder(i)
                  \/ i \in Held(todo')
    PROVE  DeliveryInv'
<1>1. DeliveryTypes'
  BY DEF DeliveryInv, DeliveryTypes
<1>2. CallState'
  BY DEF CallState, Calls, Positions
<1>3. TodoState'
  BY DEF TodoState
<1>4. UNCHANGED EditParts
  BY DEF EditParts, Split, Newline, Cut, After, LastOf, Positions
<1>5. \A i : /\ ShowsInChat(i)' = ShowsInChat(i)
             /\ ShowsInPlaceholder(i)' = ShowsInPlaceholder(i)
  BY <1>4 DEF ShowsInChat, ShowsInPlaceholder
<1>6. \A i : Shows(i)' = Shows(i) /\ (Ahead(i)' <=> i \in Held(todo'))
  <2>1. \A i : Ahead(i)' <=> i \in Held(todo')
    BY DEF Ahead, Held
  <2> QED  BY <1>5, <2>1 DEF Shows
<1>7. OnceState' /\ WholeState'
  BY <1>5, <1>6 DEF OnceState, WholeState
<1> QED  BY <1>1, <1>2, <1>3, <1>7 DEF DeliveryInv

(* What the invariant says to a call that sends.                           *)
LEMMA SendingFacts ==
    ASSUME DeliveryInv, call \in Calls
    PROVE  /\ todo \in Seq(Seq(Int)) /\ NoneTwice(todo) /\ lies \in Nat
           /\ ~effect => \A i \in DOMAIN text :
                Shows(i) <= lies + (IF i \in Held(todo) THEN 0 ELSE 1)
           /\ effect => /\ todo # <<>>
                        /\ \A i \in DOMAIN text :
                             Shows(i) <= lies + (IF i \in Held(Tail(todo)) THEN 0 ELSE 1)
           /\ effect => \A i \in DOMAIN text :
                i \in Range(Head(todo)) => ShowsInChat(i) # {}
           /\ \A i \in DOMAIN text :
                \/ text[i] = "n" \/ i \in given
                \/ ShowsInChat(i) # {} \/ ShowsInPlaceholder(i)
                \/ i \in Held(todo)
<1>1. /\ DeliveryTypes /\ todo \in Seq(Seq(Int)) /\ NoneTwice(todo) /\ lies \in Nat
      /\ effect => todo # <<>>
      /\ \A i \in DOMAIN text : Shows(i) <= lies + (IF Ahead(i) THEN 0 ELSE 1)
  BY DEF DeliveryInv, DeliveryTypes, CallState, TodoState, OnceState
<1>2. ASSUME NEW i \in DOMAIN text, effect, i \in Range(Head(todo))
      PROVE  ShowsInChat(i) # {}
  <2>1. chat # <<>> /\ chat[Len(chat)].part = Head(todo)
    BY <1>2 DEF DeliveryInv, CallState
  <2>2. Len(chat) \in DOMAIN chat
    BY <1>1, <2>1 DEF DeliveryTypes
  <2> QED  BY <1>2, <2>1, <2>2 DEF ShowsInChat
<1>3. \A i : /\ ~effect => (Ahead(i) <=> i \in Held(todo))
             /\ effect => (Ahead(i) <=> i \in Held(Tail(todo)))
  BY <1>1, AheadIs
<1>4. \A i \in DOMAIN text : \/ text[i] = "n" \/ i \in given
                             \/ ShowsInChat(i) # {} \/ ShowsInPlaceholder(i)
                             \/ i \in Held(todo)
  BY DEF DeliveryInv, WholeState
<1> QED  BY <1>1, <1>2, <1>3, <1>4

LEMMA PositionsNumber ==
    ASSUME DeliveryTypes
    PROVE  \A i \in DOMAIN text : i > 0 /\ i \in Int
<1>1. text \in Seq({"x", "n", "t"})
  BY DeliveryAssumption DEF DeliveryTypes
<1> QED  BY <1>1

(* A message appears: what it holds is shown, and not to be sent again.    *)
LEMMA SendTakesEffect ==
    ASSUME DeliveryInv, TakesEffect, call \in Calls
    PROVE  DeliveryInv'
<1> DEFINE m == [by |-> call, part |-> Head(todo)]
           n == Len(chat) + 1
<1>1. /\ ~effect /\ effect' /\ todo # <<>> /\ chat' = Append(chat, m)
      /\ UNCHANGED <<text, call, todo, lies, given, placeholder>>
  BY DEF TakesEffect, Calls
<1>2. /\ DeliveryTypes /\ todo \in Seq(Seq(Int)) /\ NoneTwice(todo)
      /\ chat \in Seq([by : Calls, part : Seq(Int)])
  BY DEF DeliveryInv, DeliveryTypes, TodoState
<1>3. /\ Head(todo) \in Seq(Int)
      /\ Held(todo) = Range(Head(todo)) \cup Held(Tail(todo))
      /\ \A x \in Range(Head(todo)) : x > 0 => x \notin Held(Tail(todo))
  BY <1>1, <1>2, TailHolds
<1>4. /\ chat' \in Seq([by : Calls, part : Seq(Int)]) /\ Len(chat') = n
      /\ Len(chat) \in Nat
      /\ \A k \in 1 .. Len(chat) : chat'[k] = chat[k]
      /\ chat'[n] = m
  <2> DEFINE M == [by : Calls, part : Seq(Int)]
  <2>1. chat \in Seq(M) /\ m \in M
    BY <1>2, <1>3
  <2> HIDE DEF M, m
  <2>2. /\ Append(chat, m) \in Seq(M) /\ Len(Append(chat, m)) = n
        /\ \A k \in 1 .. Len(chat) : Append(chat, m)[k] = chat[k]
        /\ Append(chat, m)[n] = m
    BY <2>1, AppendProperties
  <2> QED  BY <1>1, <2>1, <2>2 DEF M
<1>5. DOMAIN chat' = 1 .. Len(chat) \cup {n} /\ DOMAIN chat = 1 .. Len(chat)
      /\ n \notin 1 .. Len(chat) /\ chat' # <<>>
  <2> DEFINE M == [by : Calls, part : Seq(Int)]
  <2>1. chat \in Seq(M) /\ chat' \in Seq(M) /\ Len(chat) \in Nat /\ Len(chat') = n
    BY <1>2, <1>4
  <2> HIDE DEF M
  <2> QED  BY <2>1
<1>6. ASSUME NEW i
      PROVE  ShowsInChat(i)' = IF i \in Range(Head(todo)) THEN ShowsInChat(i) \cup {n}
                                                           ELSE ShowsInChat(i)
  <2>1. m.part = Head(todo)
    OBVIOUS
  <2> HIDE DEF m, n
  <2> QED  BY <1>4, <1>5, <2>1 DEF ShowsInChat
<1>7. UNCHANGED EditParts
  BY <1>1 DEF EditParts, Split, Newline, Cut, After, LastOf, Positions
<1>8. ASSUME NEW i
      PROVE  /\ Shows(i)' = Shows(i) + (IF i \in Range(Head(todo)) THEN 1 ELSE 0)
             /\ ShowsInPlaceholder(i)' = ShowsInPlaceholder(i)
  <2>1. ShowsInPlaceholder(i)' = ShowsInPlaceholder(i)
    BY <1>1, <1>7 DEF ShowsInPlaceholder
  <2>2. /\ IsFiniteSet(ShowsInChat(i)) /\ Cardinality(ShowsInChat(i)) \in Nat
        /\ n \notin ShowsInChat(i)
    BY <1>2, <1>5, ShowsNumber
  <2>3. Cardinality(ShowsInChat(i) \cup {n}) = Cardinality(ShowsInChat(i)) + 1
    <3> HIDE DEF n
    <3> QED  BY <2>2, FS_AddElement
  <2>4. Cardinality(ShowsInChat(i)') = Cardinality(ShowsInChat(i))
                                        + (IF i \in Range(Head(todo)) THEN 1 ELSE 0)
    <3> HIDE DEF n, m
    <3>1. CASE i \in Range(Head(todo))
      <4>1. ShowsInChat(i)' = ShowsInChat(i) \cup {n}
        BY <1>6, <3>1
      <4> QED  BY <2>3, <3>1, <4>1
    <3>2. CASE i \notin Range(Head(todo))
      <4>1. ShowsInChat(i)' = ShowsInChat(i)
        BY <1>6, <3>2
      <4> QED  BY <2>2, <3>2, <4>1
    <3> QED  BY <3>1, <3>2
  <2> QED  BY <2>1, <2>2, <2>4 DEF Shows
<1>9. DeliveryTypes'
  BY <1>1, <1>4 DEF DeliveryInv, DeliveryTypes
<1>10. CallState' /\ TodoState'
  <2>1. chat' # <<>> /\ chat'[Len(chat')].part = Head(todo')
    <3>1. m.part = Head(todo)
      OBVIOUS
    <3> HIDE DEF m, n
    <3> QED  BY <1>1, <1>4, <1>5, <3>1
  <2> QED  BY <1>1, <2>1 DEF DeliveryInv, CallState, TodoState, Calls, Positions
<1>11. OnceState'
  <2> SUFFICES ASSUME NEW i \in DOMAIN text
               PROVE  Shows(i)' <= lies + (IF Ahead(i)' THEN 0 ELSE 1)
    BY <1>1 DEF OnceState
  <2>1. Ahead(i)' <=> i \in Held(Tail(todo))
    BY <1>1, <1>9, AheadIs, TailHolds, <1>2 DEF Ahead
  <2>2. /\ Shows(i) <= lies + (IF i \in Held(todo) THEN 0 ELSE 1)
        /\ Shows(i) \in Nat /\ lies \in Nat /\ i > 0
    BY <1>1, <1>2, SendingFacts, ShowsNumber, PositionsNumber
  <2> QED  BY <1>3, <1>8, <2>1, <2>2
<1>12. WholeState'
  BY <1>1, <1>6, <1>8 DEF DeliveryInv, WholeState
<1> QED  BY <1>9, <1>10, <1>11, <1>12 DEF DeliveryInv

LEMMA TakesEffectInv ==
    ASSUME DeliveryInv, TakesEffect
    PROVE  DeliveryInv'
<1>1. CASE call \in Calls
  BY <1>1, SendTakesEffect
<1>2. CASE call \notin Calls
  <2>1. /\ call \in {"edit", "delete"} /\ effect'
        /\ UNCHANGED <<text, call, todo, lies, given, chat>>
        /\ placeholder' = IF call = "edit" THEN "edited" ELSE "deleted"
    BY <1>2 DEF TakesEffect, Calls, DeliveryInv, DeliveryTypes
  <2>2. UNCHANGED EditParts
    BY <2>1 DEF EditParts, Split, Newline, Cut, After, LastOf, Positions
  <2> QED
    BY <1>2, <2>1, <2>2
       DEF DeliveryInv, DeliveryTypes, CallState, TodoState, OnceState, WholeState, Calls
<1> QED  BY <1>1, <1>2

LEMMA RichInv ==
    ASSUME DeliveryInv, RichReturns \/ RichRaises
    PROVE  DeliveryInv'
<1>1. /\ call = "rich" /\ call' = "html" /\ ~effect'
      /\ UNCHANGED <<text, placeholder, chat, given>>
      /\ call \in Calls /\ call' \in Calls /\ call' = "html"
  BY DEF RichReturns, RichRaises, Calls
<1>2. todo = <<Positions>> /\ lies \in Nat /\ DeliveryTypes
  BY <1>1 DEF DeliveryInv, CallState, DeliveryTypes
<1>3. CASE RichReturns
  <2>1. effect /\ todo' = <<>> /\ lies' = lies
    BY <1>3 DEF RichReturns
  <2>2. Head(todo) = Positions /\ Held(todo) = Range(Positions) /\ Held(<<>>) = {}
    BY <1>2 DEF Held
  <2>3. ASSUME NEW i \in DOMAIN text
        PROVE  /\ Shows(i) <= lies' + (IF i \in Held(todo') THEN 0 ELSE 1)
               /\ \/ text[i] = "n" \/ i \in given'
                  \/ ShowsInChat(i) # {} \/ ShowsInPlaceholder(i)
    <3>1. /\ Shows(i) <= lies + (IF i \in Held(Tail(todo)) THEN 0 ELSE 1)
          /\ Shows(i) \in Nat
      BY <1>1, <1>2, <2>1, SendingFacts, ShowsNumber
    <3>2. \/ text[i] = "n" \/ i \in given
          \/ ShowsInChat(i) # {} \/ ShowsInPlaceholder(i)
      BY <1>1, <2>1, <2>2, SendingFacts
    <3> QED  BY <1>1, <1>2, <2>1, <2>2, <3>1, <3>2
  <2>4. todo' \in Seq(Seq(Int)) /\ NoneTwice(todo') /\ Short(todo')
    BY <2>1 DEF NoneTwice, Short
  <2> QED  BY <1>1, <1>2, <2>1, <2>3, <2>4, NextCall
<1>4. CASE RichRaises
  <2>1. todo' = Split(Positions) /\ lies' = IF effect THEN lies + 1 ELSE lies
    BY <1>4 DEF RichRaises, Lied
  <2>2. Parts(Split(Positions)) /\ Short(Split(Positions))
    BY <1>2, PositionsParts DEF DeliveryTypes
  <2>3. Held(todo) = Range(Positions) /\ Range(Positions) = DOMAIN text
    <3>1. DOMAIN text = 1 .. Len(text)
      BY <1>2, DeliveryAssumption DEF DeliveryTypes
    <3> QED  BY <1>2, <3>1 DEF Held, Range, Positions
  <2>4. ASSUME NEW i \in DOMAIN text
        PROVE  Shows(i) <= lies' + (IF i \in Held(todo') THEN 0 ELSE 1)
    <3>1. Shows(i) \in Nat
      BY <1>2, ShowsNumber
    <3>2. Shows(i) <= lies + (IF effect THEN 1 ELSE 0)
      BY <1>1, <1>2, <2>3, <3>1, SendingFacts
    <3> QED  BY <1>2, <2>1, <3>1, <3>2
  <2>5. \A i \in DOMAIN text : text[i] = "n" \/ i \in Held(todo')
    BY <2>1, <2>2 DEF Parts
  <2>6. todo' \in Seq(Seq(Int)) /\ NoneTwice(todo') /\ Short(todo') /\ lies' \in Nat
    BY <1>2, <2>1, <2>2 DEF Parts
  <2> QED  BY <1>1, <2>4, <2>5, <2>6, NextCall
<1> QED  BY <1>3, <1>4

(* The next chunk follows one that was shown or given up.                  *)
LEMMA SendEndsInv ==
    ASSUME DeliveryInv, SendReturns \/ PlainRaises
    PROVE  DeliveryInv'
<1>1. /\ call \in {"html", "plain"} /\ call' = "html" /\ ~effect'
      /\ UNCHANGED <<text, placeholder, chat, lies>>
      /\ call \in Calls /\ call' \in Calls /\ todo' = Tail(todo)
  BY DEF SendReturns, PlainRaises, Calls
<1>2. /\ given' = IF effect THEN given ELSE given \cup Range(Head(todo))
      /\ todo # <<>>
  BY <1>1, SendingFacts DEF SendReturns, PlainRaises, DeliveryInv, CallState
<1>3. todo \in Seq(Seq(Int)) /\ NoneTwice(todo) /\ Short(todo) /\ lies \in Nat /\ DeliveryTypes
  BY <1>1 DEF DeliveryInv, DeliveryTypes, TodoState
<1>4. /\ Tail(todo) \in Seq(Seq(Int)) /\ NoneTwice(Tail(todo)) /\ Short(Tail(todo))
      /\ Held(todo) = Range(Head(todo)) \cup Held(Tail(todo))
  BY <1>2, <1>3, TailHolds
<1>5. ASSUME NEW i \in DOMAIN text
      PROVE  /\ Shows(i) <= lies + (IF i \in Held(Tail(todo)) THEN 0 ELSE 1)
             /\ \/ text[i] = "n" \/ i \in given'
                \/ ShowsInChat(i) # {} \/ ShowsInPlaceholder(i)
                \/ i \in Held(Tail(todo))
  <2>1. CASE effect
    BY <1>1, <1>2, <1>4, <2>1, SendingFacts
  <2>2. CASE ~effect
    <3>1. Shows(i) <= lies + (IF i \in Held(todo) THEN 0 ELSE 1) /\ Shows(i) \in Nat
      BY <1>1, <1>3, <2>2, SendingFacts, ShowsNumber
    <3>2. Shows(i) <= lies + (IF i \in Held(Tail(todo)) THEN 0 ELSE 1)
      BY <1>3, <1>4, <3>1
    <3> QED  BY <1>1, <1>2, <1>4, <2>2, <3>2, SendingFacts
  <2> QED  BY <2>1, <2>2
<1> QED  BY <1>1, <1>3, <1>4, <1>5, NextCall

LEMMA HtmlRaisesInv ==
    ASSUME DeliveryInv, HtmlRaises
    PROVE  DeliveryInv'
<1>1. /\ call = "html" /\ call' = "plain" /\ ~effect' /\ todo # <<>>
      /\ UNCHANGED <<text, todo, placeholder, chat, given>>
      /\ lies' = IF effect THEN lies + 1 ELSE lies
      /\ call \in Calls /\ call' \in Calls
  BY DEF HtmlRaises, Lied, Calls
<1>2. todo \in Seq(Seq(Int)) /\ NoneTwice(todo) /\ Short(todo) /\ lies \in Nat /\ DeliveryTypes
  BY <1>1 DEF DeliveryInv, DeliveryTypes, TodoState
<1>3. ASSUME NEW i \in DOMAIN text
      PROVE  Shows(i) <= lies' + (IF i \in Held(todo) THEN 0 ELSE 1)
  <2>1. Shows(i) \in Nat
    BY <1>2, ShowsNumber
  <2>2. CASE effect
    <3>1. Shows(i) <= lies + (IF i \in Held(Tail(todo)) THEN 0 ELSE 1)
      BY <1>1, <2>2, SendingFacts
    <3> QED  BY <1>1, <1>2, <2>1, <2>2, <3>1
  <2>3. CASE ~effect
    BY <1>1, <2>3, SendingFacts
  <2> QED  BY <2>2, <2>3
<1> QED  BY <1>1, <1>2, <1>3, SendingFacts, NextCall

LEMMA EditReturnsInv ==
    ASSUME DeliveryInv, EditReturns
    PROVE  DeliveryInv'
<1>1. /\ call = "edit" /\ effect /\ ~effect' /\ call' = "html" /\ call' \in Calls
      /\ UNCHANGED <<text, placeholder, chat, lies, given>>
      /\ todo' = FlattenSeq([i \in DOMAIN Tail(todo) |-> Split(Reconverted(todo[i + 1]))])
  BY DEF EditReturns, Calls
<1>2. /\ DeliveryTypes /\ todo = EditParts /\ chat = <<>> /\ lies = 0
      /\ placeholder = "edited"
  BY <1>1 DEF DeliveryInv, CallState
<1>3. Parts(todo) /\ todo # <<>>
  BY <1>2, PositionsParts DEF DeliveryTypes
<1>4. /\ todo' \in Seq(Seq(Int)) /\ Short(todo') /\ NoneTwice(todo')
      /\ \A x \in Held(todo') : x > 0 => x \in Held(Tail(todo))
      /\ \A x \in Held(Tail(todo)) : Kept(x) => x \in Held(todo')
  BY <1>1, <1>3, Resplit DEF Parts
<1>5. /\ Head(todo) = todo[1]
      /\ Held(todo) = Range(Head(todo)) \cup Held(Tail(todo))
      /\ \A x \in Range(Head(todo)) : x > 0 => x \notin Held(Tail(todo))
  BY <1>3, TailHolds DEF Parts
<1>6. ASSUME NEW i \in DOMAIN text
      PROVE  /\ Shows(i) <= lies' + (IF i \in Held(todo') THEN 0 ELSE 1)
             /\ \/ text[i] = "n" \/ ShowsInPlaceholder(i) \/ i \in Held(todo')
  <2>1. i > 0 /\ i \in Int
    BY <1>2, PositionsNumber
  <2>2. ShowsInPlaceholder(i) <=> i \in Range(Head(todo))
    BY <1>2, <1>5 DEF ShowsInPlaceholder
  <2>3. Shows(i) = IF ShowsInPlaceholder(i) THEN 1 ELSE 0
    <3>1. ShowsInChat(i) = {}
      BY <1>2 DEF ShowsInChat
    <3>2. Cardinality({}) = 0
      BY FS_EmptySet
    <3> QED  BY <3>1, <3>2 DEF Shows
  <2>4. i \in Held(todo') => ~ShowsInPlaceholder(i)
    BY <1>4, <1>5, <2>1, <2>2
  <2>5. text[i] = "n" \/ ShowsInPlaceholder(i) \/ i \in Held(todo')
    BY <1>3, <1>4, <1>5, <2>1, <2>2 DEF Parts, Kept
  <2> QED  BY <1>1, <1>2, <2>3, <2>4, <2>5
<1>7. lies' \in Nat
  BY <1>1, <1>2
<1> QED  BY <1>1, <1>4, <1>6, <1>7, NextCall

(* The placeholder is given up, and all of the answer is to be sent.       *)
LEMMA EditRaisesInv ==
    ASSUME DeliveryInv, EditRaises
    PROVE  DeliveryInv'
<1>1. /\ call = "edit" /\ call' = "delete" /\ ~effect' /\ todo' = <<>>
      /\ UNCHANGED <<text, placeholder, chat, lies, given>>
  BY DEF EditRaises
<1>2. NoneTwice(todo') /\ Short(todo') /\ todo' \in Seq(Seq(Int))
  BY <1>1 DEF NoneTwice, Short
<1> QED
  BY <1>1, <1>2
     DEF DeliveryInv, DeliveryTypes, CallState, TodoState, OnceState, WholeState, Calls

LEMMA DeleteEndsInv ==
    ASSUME DeliveryInv, DeleteEnds
    PROVE  DeliveryInv'
<1>1. /\ call = "delete" /\ ~effect' /\ call' = ReplyCall /\ todo' = ReplyParts
      /\ UNCHANGED <<text, table, placeholder, chat, given>>
      /\ lies' = IF effect THEN lies ELSE lies + 1
      /\ call' \in {"rich", "html"} /\ call' \in Calls
  BY DEF DeleteEnds, ReplyCall, Calls
<1>2. /\ DeliveryTypes /\ chat = <<>> /\ lies = 0
      /\ effect => placeholder = "deleted"
  BY <1>1 DEF DeliveryInv, CallState
<1>3. /\ Parts(todo')
      /\ call' # "rich" => Short(todo')
      /\ call' = "rich" => todo' = <<Positions>>
  BY <1>1, <1>2, PositionsParts DEF ReplyParts, ReplyCall, DeliveryTypes
<1>4. \A i \in DOMAIN text : Shows(i) <= lies'
  <2>1. \A i : ShowsInChat(i) = {}
    BY <1>2 DEF ShowsInChat
  <2>2. Cardinality({}) = 0
    BY FS_EmptySet
  <2>3. effect => \A i : ~ShowsInPlaceholder(i)
    BY <1>2 DEF ShowsInPlaceholder
  <2>4. \A i : Shows(i) = IF ShowsInPlaceholder(i) THEN 1 ELSE 0
    BY <2>1, <2>2 DEF Shows
  <2>5. lies' = IF effect THEN 0 ELSE 1
    BY <1>1, <1>2
  <2> QED  BY <2>3, <2>4, <2>5
<1>5. lies' \in Nat
  BY <1>1, <1>2
<1>6. \A i \in DOMAIN text : Shows(i) <= lies' + (IF i \in Held(todo') THEN 0 ELSE 1)
  <2>1. \A i \in DOMAIN text : Shows(i) \in Nat
    BY <1>2, ShowsNumber
  <2> QED  BY <1>4, <1>5, <2>1
<1>7. /\ todo' \in Seq(Seq(Int)) /\ NoneTwice(todo')
      /\ \A i \in DOMAIN text : text[i] = "n" \/ i \in Held(todo')
  BY <1>3 DEF Parts
<1>8. call' # "plain"
  BY <1>1
<1> QED  BY <1>1, <1>3, <1>5, <1>6, <1>7, <1>8, NextCall

LEMMA DeliveryNextInv ==
    ASSUME DeliveryInv, DeliveryNext
    PROVE  DeliveryInv'
BY TakesEffectInv, RichInv, SendEndsInv, HtmlRaisesInv, EditReturnsInv, EditRaisesInv,
   DeleteEndsInv DEF DeliveryNext

LEMMA DeliveryInitInv ==
    ASSUME DeliveryInit
    PROVE  DeliveryInv
<1>1. /\ text \in Texts /\ chat = <<>> /\ lies = 0 /\ given = {} /\ ~effect
      /\ \/ placeholder = "none" /\ call = ReplyCall /\ todo = ReplyParts
         \/ placeholder = "partial" /\ call = "edit" /\ todo = EditParts
  BY DEF DeliveryInit
<1>2. /\ Parts(todo)
      /\ call # "rich" => Short(todo)
      /\ call = "rich" => todo = <<Positions>>
      /\ call = "edit" => todo = EditParts /\ todo # <<>> /\ placeholder = "partial"
      /\ call \in {"rich", "html", "edit"}
      /\ call \in Calls => placeholder = "none"
      /\ placeholder \in {"none", "partial"}
  BY <1>1, PositionsParts DEF ReplyParts, ReplyCall, Calls
<1>parts. /\ todo \in Seq(Seq(Int)) /\ NoneTwice(todo)
      /\ \A i \in DOMAIN text : text[i] = "n" \/ i \in Held(todo)
  BY <1>2 DEF Parts
<1>3. DeliveryTypes
  BY <1>1, <1>2, <1>parts DEF DeliveryTypes, Calls
<1>4. CallState /\ TodoState
  <2>1. call # "plain" /\ call # "delete"
    BY <1>2
  <2> QED  BY <1>1, <1>2, <1>parts, <2>1 DEF CallState, TodoState
<1>5. OnceState
  <2>1. \A i : ShowsInChat(i) = {}
    BY <1>1 DEF ShowsInChat
  <2>2. Cardinality({}) = 0
    BY FS_EmptySet
  <2>3. placeholder = "none" => \A i : Shows(i) = 0
    BY <2>1, <2>2 DEF Shows, ShowsInPlaceholder
  <2> QED  BY <1>1, <1>2, <2>3 DEF OnceState
<1>6. WholeState
  BY <1>parts DEF WholeState
<1> QED  BY <1>3, <1>4, <1>5, <1>6 DEF DeliveryInv

(* The inductive invariant of the delivery of an answer.                   *)
THEOREM DeliveryInvariance == DeliverySpec => []DeliveryInv
<1>1. DeliveryInit => DeliveryInv
  BY DeliveryInitInv
<1>2. DeliveryInv /\ [DeliveryNext]_deliveryVars => DeliveryInv'
  <2>1. ASSUME DeliveryInv, UNCHANGED deliveryVars
        PROVE  DeliveryInv'
    <3>1. UNCHANGED <<text, table, call, todo, effect, placeholder, chat, lies, given>>
      BY <2>1 DEF deliveryVars
    <3>2. UNCHANGED <<Positions, EditParts>>
      BY <3>1 DEF EditParts, Split, Newline, Cut, After, LastOf, Positions
    <3>3. \A i : /\ ShowsInChat(i)' = ShowsInChat(i) /\ Ahead(i)' = Ahead(i)
                 /\ ShowsInPlaceholder(i)' = ShowsInPlaceholder(i)
                 /\ Shows(i)' = Shows(i)
      BY <3>1, <3>2 DEF ShowsInChat, ShowsInPlaceholder, Ahead, Shows
    <3> QED
      BY <2>1, <3>1, <3>2, <3>3
         DEF DeliveryInv, DeliveryTypes, CallState, TodoState, OnceState, WholeState
  <2> QED  BY <2>1, DeliveryNextInv
<1> QED  BY <1>1, <1>2, PTL DEF DeliverySpec

(* For answers of any length, any limit of at least 2 and any failures: no *)
(* part of an answer stands in the topic twice, but for the calls that     *)
(* Telegram carried out and reported as failed (send_rich_message,         *)
(* edit_or_send_rich).                                                     *)
THEOREM AnswerShownOnce == DeliverySpec => []ShownOnce
<1>1. ASSUME DeliveryInv
      PROVE  ShownOnce
  <2> SUFFICES ASSUME NEW i \in DOMAIN text
               PROVE  Shows(i) <= 1 + lies
    BY DEF ShownOnce, Shows
  <2>1. DeliveryTypes /\ lies \in Nat /\ Shows(i) \in Nat
    BY <1>1, ShowsNumber DEF DeliveryInv, DeliveryTypes
  <2>2. CASE call \in Calls
    BY <1>1, <2>1, <2>2 DEF DeliveryInv, OnceState
  <2>3. CASE call \notin Calls
    <3>1. chat = <<>> /\ lies = 0
      BY <1>1, <2>1, <2>3 DEF DeliveryInv, DeliveryTypes, CallState
    <3>2. ShowsInChat(i) = {}
      BY <3>1 DEF ShowsInChat
    <3>3. Cardinality({}) = 0
      BY FS_EmptySet
    <3> QED  BY <3>1, <3>2, <3>3 DEF Shows
  <2> QED  BY <2>2, <2>3
<1> QED  BY <1>1, DeliveryInvariance, PTL

(* In the end nothing but newlines is missing, except chunks refused in    *)
(* both forms, and no chunk is too long for Telegram (_split_html).        *)
THEOREM AnswerShownWhole == DeliverySpec => []ShownWhole
<1>1. ASSUME DeliveryInv
      PROVE  ShownWhole
  <2>1. Delivered => \A i \in DOMAIN text :
            text[i] = "n" \/ i \in given \/ ShowsInChat(i) # {} \/ ShowsInPlaceholder(i)
    <3>1. Delivered => call \in Calls /\ Held(todo) = {}
      BY DEF Delivered, Calls, Held
    <3> QED  BY <1>1, <3>1 DEF DeliveryInv, WholeState
  <2>2. call \in {"html", "plain", "edit"} => \A c \in Range(todo) : Len(c) <= Limit
    BY <1>1 DEF DeliveryInv, TodoState, Short, Range
  <2> QED  BY <2>1, <2>2 DEF ShownWhole
<1> QED  BY <1>1, DeliveryInvariance, PTL

==============================================================================

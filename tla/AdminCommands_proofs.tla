------------------------ MODULE AdminCommands_proofs ------------------------
(***************************************************************************)
(* Proofs about what admins do, two separate specifications: permissions   *)
(* and the requests for them (PermissionWorkflow), for any users, admins,  *)
(* permissions and number of requests; and the commands on kubeconfig      *)
(* files (KubeCommands), for any kubeconfigs, calls and crashes.           *)
(*                                                                         *)
(* None of HeldByConsent, PendingMeansLacking and AdminsComeFromAdmins is  *)
(* about the newest step alone: a grant by an admin who is not in the      *)
(* configuration is traced back to that admin's own request by             *)
(* HeldByConsent.  Their conjunction with PermissionTypeOK is inductive.   *)
(*                                                                         *)
(* TempfilesAreOwned and LockedBetween are inductive with the types.       *)
(* KubeconfigsSurvive is not: a migration that has got as far as shredding *)
(* needs the encrypted file to hold the content it takes away.  FileState  *)
(* says, for each step of an encryption, which of the plaintext, what was  *)
(* read and the encrypted file holds what the operator brought last.       *)
(***************************************************************************)
EXTENDS PermissionWorkflow, KubeCommands, TLAPS

(* Permissions *)

PermissionInv ==
    /\ PermissionTypeOK
    /\ HeldByConsent
    /\ PendingMeansLacking
    /\ AdminsComeFromAdmins

(* A step that changes the status or the late flag of one request.         *)
Changes(i, r) == requests' = [requests EXCEPT ![i] = r]

-----------------------------------------------------------------------------
(* The initial state. *)
LEMMA PermissionInitInv == PermissionInit => PermissionInv
BY PermissionAssumption
   DEF PermissionInit, PermissionInv, PermissionTypeOK, HeldByConsent,
       PendingMeansLacking, AdminsComeFromAdmins

(* /grant appends one pending request; its requester is an admin, whose    *)
(* own rights HeldByConsent traces to a request before it.                 *)
LEMMA GrantStep ==
    ASSUME PermissionInv, NEW a \in Users, NEW u \in Users, NEW p \in Permissions,
           Grant(a, u, p)
    PROVE  PermissionInv'
<1> DEFINE n == Len(requests) + 1
<1> USE DEF PermissionInv
<1>1. /\ requests \in Seq(Request)
      /\ NewRequest(a, u, p) \in Request
      /\ requests' = Append(requests, NewRequest(a, u, p))
      /\ perms' = perms
  BY DEF PermissionTypeOK, Grant, NewRequest, Request
<1>2. /\ DOMAIN requests = 1..Len(requests)
      /\ DOMAIN requests' = 1..n
      /\ \A i \in DOMAIN requests : i \in DOMAIN requests' /\ requests'[i] = requests[i]
      /\ requests'[n] = NewRequest(a, u, p)
      /\ Len(requests) \in Nat
  BY <1>1
<1>3. PermissionTypeOK'
  BY <1>1 DEF PermissionTypeOK
<1>4. HeldByConsent'
  BY <1>1, <1>2 DEF HeldByConsent
<1>5. PendingMeansLacking'
  <2> SUFFICES ASSUME NEW i \in DOMAIN requests', NEW j \in DOMAIN requests'
               PROVE  /\ requests'[i].status = "pending" =>
                            requests'[i].permission \notin perms'[requests'[i].target]
                      /\ /\ requests'[i].status = "pending"
                         /\ requests'[j].status = "pending"
                         /\ requests'[i].target = requests'[j].target
                         /\ requests'[i].permission = requests'[j].permission
                         => i = j
    BY DEF PendingMeansLacking
  <2>1. p \notin perms[u] /\ ~PendingFor(u, p)
    BY DEF Grant
  <2>2. requests'[n].target = u /\ requests'[n].permission = p
    BY <1>2 DEF NewRequest
  <2>3. (i \in DOMAIN requests \/ i = n) /\ (j \in DOMAIN requests \/ j = n)
    BY <1>2
  <2>4. CASE i \in DOMAIN requests /\ j \in DOMAIN requests
    BY <2>4, <1>1, <1>2 DEF PendingMeansLacking
  <2>5. CASE i = n \/ j = n
    BY <2>5, <2>1, <2>2, <2>3, <1>1, <1>2 DEF PendingMeansLacking, PendingFor
  <2> QED BY <2>3, <2>4, <2>5
<1>6. AdminsComeFromAdmins'
  <2> SUFFICES ASSUME NEW i \in DOMAIN requests'
               PROVE  \/ requests'[i].requester \in AdminUserIds
                      \/ \E j \in 1..(i - 1) :
                            /\ requests'[j].target = requests'[i].requester
                            /\ requests'[j].permission = AdminAccess
                            /\ requests'[j].status = "approved"
    BY DEF AdminsComeFromAdmins
  <2>1. CASE i \in DOMAIN requests
    <3>1. \A j \in 1..(i - 1) : j \in DOMAIN requests
      BY <2>1, <1>2
    <3> QED BY <2>1, <3>1, <1>2 DEF AdminsComeFromAdmins
  <2>2. CASE i = n
    <3>1. requests'[i].requester = a
      BY <2>2, <1>2 DEF NewRequest
    <3>2. a \in AdminUserIds \/ AdminAccess \in perms[a]
      BY DEF Grant, IsAdmin
    <3>3. CASE AdminAccess \in perms[a]
      <4>1. PICK j \in DOMAIN requests :
                /\ requests[j].target = a
                /\ requests[j].permission = AdminAccess
                /\ requests[j].status = "approved"
        BY <3>3 DEF HeldByConsent
      <4>2. j \in 1..(i - 1)
        BY <2>2, <1>2
      <4> QED BY <4>1, <4>2, <3>1, <1>2
    <3> QED BY <3>1, <3>2, <3>3
  <2> QED BY <2>1, <2>2, <1>2
<1> QED BY <1>3, <1>4, <1>5, <1>6

(* What the steps on one pending request have in common: the request keeps *)
(* what it asks for, and the others stay as they are.                      *)
LEMMA UpdateStep ==
    ASSUME PermissionInv, NEW i \in DOMAIN requests, NEW r \in Request, Changes(i, r),
           requests[i].status = "pending",
           r.requester = requests[i].requester, r.target = requests[i].target,
           r.permission = requests[i].permission,
           r.status = "approved" => ~r.late,
           perms' \in [Users -> SUBSET Permissions],
           \A u \in Users : u # r.target => perms'[u] = perms[u],
           \/ perms' = perms
           \/ /\ r.status = "approved"
              /\ perms'[r.target] = perms[r.target] \cup {r.permission}
    PROVE  PermissionInv'
<1> USE DEF PermissionInv
<1>1. /\ requests' \in Seq(Request)
      /\ DOMAIN requests' = DOMAIN requests
      /\ DOMAIN requests = 1..Len(requests)
      /\ Len(requests) \in Nat
      /\ requests'[i] = r
      /\ \A j \in DOMAIN requests \ {i} : requests'[j] = requests[j]
  BY DEF PermissionTypeOK, Changes
<1>2. \A j \in DOMAIN requests :
         /\ requests'[j].requester = requests[j].requester
         /\ requests'[j].target = requests[j].target
         /\ requests'[j].permission = requests[j].permission
         /\ requests'[j].status = "pending" => requests[j].status = "pending"
         /\ requests[j].status = "approved" => requests'[j] = requests[j]
         /\ requests[j] \in Request
  BY <1>1 DEF PermissionTypeOK
<1>3. PermissionTypeOK'
  BY <1>1 DEF PermissionTypeOK
<1>4. HeldByConsent'
  <2> SUFFICES ASSUME NEW u \in Users, NEW p \in perms'[u]
               PROVE  \E j \in DOMAIN requests' :
                         /\ requests'[j].target = u
                         /\ requests'[j].permission = p
                         /\ requests'[j].status = "approved"
                         /\ ~requests'[j].late
    BY DEF HeldByConsent
  <2>1. CASE p \in perms[u]
    <3>1. PICK j \in DOMAIN requests :
              /\ requests[j].target = u
              /\ requests[j].permission = p
              /\ requests[j].status = "approved"
              /\ ~requests[j].late
      BY <2>1 DEF HeldByConsent
    <3> QED BY <3>1, <1>1, <1>2
  <2>2. CASE p \notin perms[u]
    <3>1. u = r.target /\ p = r.permission /\ r.status = "approved"
      BY <2>2
    <3> QED BY <3>1, <1>1
  <2> QED BY <2>1, <2>2
<1>5. PendingMeansLacking'
  <2> SUFFICES ASSUME NEW j \in DOMAIN requests, NEW k \in DOMAIN requests,
                      requests'[j].status = "pending"
               PROVE  /\ requests'[j].permission \notin perms'[requests'[j].target]
                      /\ /\ requests'[k].status = "pending"
                         /\ requests'[j].target = requests'[k].target
                         /\ requests'[j].permission = requests'[k].permission
                         => j = k
    BY <1>1 DEF PendingMeansLacking
  <2>1. /\ requests[j].permission \notin perms[requests[j].target]
        /\ /\ requests[i].target = requests[j].target
           /\ requests[i].permission = requests[j].permission
           => i = j
        /\ /\ requests[k].status = "pending"
           /\ requests[j].target = requests[k].target
           /\ requests[j].permission = requests[k].permission
           => j = k
    BY <1>2 DEF PendingMeansLacking
  <2>2. requests[j].target \in Users
    BY <1>2 DEF Request
  <2>3. requests'[j].permission \notin perms'[requests'[j].target]
    <3>1. CASE perms' = perms
      BY <3>1, <2>1, <1>2
    <3>2. CASE /\ r.status = "approved"
               /\ perms'[r.target] = perms[r.target] \cup {r.permission}
      <4>1. j # i
        BY <3>2, <1>1
      <4> QED BY <4>1, <3>2, <2>1, <2>2, <1>2
    <3> QED BY <3>1, <3>2
  <2> QED BY <2>1, <2>3, <1>2
<1>6. AdminsComeFromAdmins'
  <2> SUFFICES ASSUME NEW j \in DOMAIN requests
               PROVE  \/ requests'[j].requester \in AdminUserIds
                      \/ \E k \in 1..(j - 1) :
                            /\ requests'[k].target = requests'[j].requester
                            /\ requests'[k].permission = AdminAccess
                            /\ requests'[k].status = "approved"
    BY <1>1 DEF AdminsComeFromAdmins
  <2>1. \A k \in 1..(j - 1) : k \in DOMAIN requests
    BY <1>1
  <2> QED BY <2>1, <1>2 DEF AdminsComeFromAdmins
<1> QED BY <1>3, <1>4, <1>5, <1>6

(* Every step preserves the invariant. *)
LEMMA PermissionNextInv ==
    PermissionInv /\ [PermissionNext]_permissionVars => PermissionInv'
<1> SUFFICES ASSUME PermissionInv, [PermissionNext]_permissionVars PROVE PermissionInv'
  OBVIOUS
<1>1. ASSUME NEW a \in Users, NEW u \in Users, NEW p \in Permissions,
             Grant(a, u, p)
      PROVE  PermissionInv'
  BY <1>1, GrantStep
<1>2. ASSUME NEW a \in Users, NEW u \in Users, NEW p \in Permissions,
             Revoke(a, u, p)
      PROVE  PermissionInv'
  <2>1. /\ requests' = requests
        /\ perms' \in [Users -> SUBSET Permissions]
        /\ \A w \in Users : perms'[w] \subseteq perms[w]
    BY <1>2 DEF Revoke, PermissionInv, PermissionTypeOK
  <2>2. \A i \in DOMAIN requests : requests[i] \in Request
    BY DEF PermissionInv, PermissionTypeOK
  <2>3. \A i \in DOMAIN requests : requests[i].target \in Users
    BY <2>2 DEF Request
  <2> QED
    BY <2>1, <2>3
       DEF PermissionInv, PermissionTypeOK, HeldByConsent, PendingMeansLacking,
           AdminsComeFromAdmins
<1>3. ASSUME NEW i \in DOMAIN requests,
             \/ Expires(i) \/ Approve(i) \/ ApproveCutShort(i)
             \/ ApproveTooLate(i) \/ Deny(i)
      PROVE  PermissionInv'
  <2> DEFINE q == requests[i]
  <2>1. q \in Request /\ perms \in [Users -> SUBSET Permissions]
    BY DEF PermissionInv, PermissionTypeOK
  <2>2. CASE Expires(i)
    <3> DEFINE r == [q EXCEPT !.late = TRUE]
    <3>1. r \in Request /\ Changes(i, r)
      BY <2>1, <2>2 DEF Expires, Request, Changes
    <3> QED BY <2>1, <2>2, <3>1, UpdateStep DEF Expires, Request
  <2>3. CASE Approve(i)
    <3> DEFINE r == [q EXCEPT !.status = "approved"]
    <3>1. r \in Request /\ Changes(i, r)
      BY <2>1, <2>3 DEF Approve, Request, Changes
    <3>2. /\ q.status = "pending" /\ ~q.late
          /\ r.requester = q.requester /\ r.target = q.target
          /\ r.permission = q.permission /\ r.status = "approved" /\ ~r.late
      BY <2>1, <2>3 DEF Approve, Request
    <3>3. /\ perms' \in [Users -> SUBSET Permissions]
          /\ \A u \in Users : u # r.target => perms'[u] = perms[u]
          /\ perms'[r.target] = perms[r.target] \cup {r.permission}
      BY <2>1, <2>3 DEF Approve, Request
    <3> QED BY <3>1, <3>2, <3>3, UpdateStep
  <2>4. CASE ApproveCutShort(i)
    <3> DEFINE r == [q EXCEPT !.status = "approved"]
    <3>1. r \in Request /\ Changes(i, r)
      BY <2>1, <2>4 DEF ApproveCutShort, Request, Changes
    <3> QED BY <2>1, <2>4, <3>1, UpdateStep DEF ApproveCutShort, Request
  <2>5. CASE ApproveTooLate(i)
    <3> DEFINE r == [q EXCEPT !.status = "expired"]
    <3>1. r \in Request /\ Changes(i, r)
      BY <2>1, <2>5 DEF ApproveTooLate, Request, Changes
    <3> QED BY <2>1, <2>5, <3>1, UpdateStep DEF ApproveTooLate, Request
  <2>6. CASE Deny(i)
    <3> DEFINE r == [q EXCEPT !.status = "denied"]
    <3>1. r \in Request /\ Changes(i, r)
      BY <2>1, <2>6 DEF Deny, Request, Changes
    <3> QED BY <2>1, <2>6, <3>1, UpdateStep DEF Deny, Request
  <2> QED BY <1>3, <2>2, <2>3, <2>4, <2>5, <2>6
<1>4. CASE UNCHANGED permissionVars
  BY <1>4 DEF permissionVars, PermissionInv, PermissionTypeOK, HeldByConsent,
              PendingMeansLacking, AdminsComeFromAdmins
<1> QED BY <1>1, <1>2, <1>3, <1>4 DEF PermissionNext

(* The inductive invariant holds in every reachable state. *)
LEMMA PermissionInvariance == PermissionSpec => []PermissionInv
BY PermissionInitInv, PermissionNextInv, PTL DEF PermissionSpec

(* Types. *)
THEOREM PermissionTypeCorrect == PermissionSpec => []PermissionTypeOK
<1>1. PermissionInv => PermissionTypeOK
  BY DEF PermissionInv
<1> QED BY PermissionInvariance, <1>1, PTL

(* Who has a permission has approved a request for it in time. *)
THEOREM Consent == PermissionSpec => []HeldByConsent
<1>1. PermissionInv => HeldByConsent
  BY DEF PermissionInv
<1> QED BY PermissionInvariance, <1>1, PTL

(* A pending request is the only one, and its target lacks the permission. *)
THEOREM NoStaleRequest == PermissionSpec => []PendingMeansLacking
<1>1. PermissionInv => PendingMeansLacking
  BY DEF PermissionInv
<1> QED BY PermissionInvariance, <1>1, PTL

(* Admin rights can be traced to the configured admins. *)
THEOREM AdminChain == PermissionSpec => []AdminsComeFromAdmins
<1>1. PermissionInv => AdminsComeFromAdmins
  BY DEF PermissionInv
<1> QED BY PermissionInvariance, <1>1, PTL

(* Decisions are final. *)
THEOREM FinalDecisions == PermissionSpec => DecisionIsFinal
<1> DEFINE Final ==
        \A i \in DOMAIN requests :
            /\ i \in DOMAIN requests'
            /\ requests[i].status # "pending" => requests'[i] = requests[i]
<1>1. PermissionInv /\ [PermissionNext]_permissionVars => [Final]_permissionVars
  <2> SUFFICES ASSUME PermissionInv, PermissionNext PROVE Final
    OBVIOUS
  <2>1. requests \in Seq(Request)
    BY DEF PermissionInv, PermissionTypeOK
  <2>2. CASE \E a, u \in Users, p \in Permissions : Grant(a, u, p) \/ Revoke(a, u, p)
    <3>1. PICK a \in Users, u \in Users, p \in Permissions :
              Grant(a, u, p) \/ Revoke(a, u, p)
      BY <2>2
    <3>2. NewRequest(a, u, p) \in Request
      BY DEF NewRequest, Request
    <3>3. \/ requests' = requests
          \/ requests' = Append(requests, NewRequest(a, u, p))
      BY <3>1 DEF Grant, Revoke
    <3> QED BY <2>1, <3>2, <3>3
  <2>3. CASE \E i \in DOMAIN requests :
                 \/ Expires(i) \/ Approve(i) \/ ApproveCutShort(i)
                 \/ ApproveTooLate(i) \/ Deny(i)
    <3>1. PICK i \in DOMAIN requests :
              /\ requests[i].status = "pending"
              /\ DOMAIN requests' = DOMAIN requests
              /\ \A j \in DOMAIN requests \ {i} : requests'[j] = requests[j]
      BY <2>1, <2>3 DEF Expires, Approve, ApproveCutShort, ApproveTooLate, Deny
    <3> QED BY <3>1
  <2> QED BY <2>2, <2>3 DEF PermissionNext
<1> QED BY PermissionInvariance, <1>1, PTL DEF PermissionSpec, DecisionIsFinal

----------------------------------------------------------------------------
(* Kubeconfigs *)

(* Where what was brought last for a kubeconfig is while its encryption    *)
(* goes on: its plaintext holds it until it is overwritten, and by then    *)
(* the encrypted file does.                                                *)
FileState ==
    \A k \in Kubeconfigs : latest[k] # None /\ k \notin spoilt =>
        /\ \/ plain[k] \in {latest[k], None}
           \/ plain[k] = Garbage /\ file = k /\ step = "overwritten"
        /\ plain[k] # latest[k] => enc[k] = latest[k]
        /\ file = k /\ step \in {"read", "aside"} => copied = latest[k]
        /\ file = k /\ step \in {"renamed", "overwritten"} => enc[k] = latest[k]

IInv ==
    /\ TypeOK
    /\ FileState
    /\ TempfilesAreOwned
    /\ LockedBetween

LEMMA FileStateSurvives == FileState => KubeconfigsSurvive
BY DEF FileState, KubeconfigsSurvive

(* The part of TypeOK about the files.                                     *)
FileTypes ==
    /\ plain \in [Names -> Contents] /\ enc \in [Names -> Contents]
    /\ step \in {"no", "next"} \cup Encrypting
    /\ rest \subseteq Names /\ (step \in Encrypting => file \in Names)
    /\ copied \in Contents
    /\ latest \in [Kubeconfigs -> 0 .. MaxStores] /\ spoilt \subseteq Kubeconfigs

LEMMA FileTypesOK == TypeOK => FileTypes
BY DEF TypeOK, FileTypes

LEMMA ContentsOf == None \in Contents /\ Garbage \in Contents /\ None # Garbage
BY DEF Contents, None, Garbage

(* Steps that leave the files alone.                                       *)
LEMMA FilesKept ==
    ASSUME IInv, step \in {"no", "next"}, step' \in {"no", "next"},
           rest' \subseteq Names,
           UNCHANGED <<plain, enc, file, copied, latest, spoilt>>
    PROVE  FileTypes' /\ FileState'
<1>1. FileTypes'
  BY DEF IInv, TypeOK, FileTypes, Encrypting
<1>2. FileState'
  BY DEF IInv, FileState
<1> QED  BY <1>1, <1>2

----------------------------------------------------------------------------
(* One lemma for each step of an encryption. *)

LEMMA ReadNextFiles ==
    ASSUME IInv, ReadNext
    PROVE  FileTypes' /\ FileState'
<1> USE DEF IInv
<1>1. PICK n \in rest :
        /\ rest' = rest \ {n}
        /\ \/ /\ plain[n] # None
              /\ step' = "read" /\ file' = n /\ copied' = plain[n]
           \/ UNCHANGED <<step, file, copied>>
  BY DEF ReadNext
<1>2. step = "next" /\ UNCHANGED <<plain, enc, latest, spoilt>>
  BY DEF ReadNext
<1>3. CASE UNCHANGED <<step, file, copied>>
  BY <1>1, <1>2, <1>3, FilesKept DEF TypeOK
<1>4. CASE /\ plain[n] # None
           /\ step' = "read" /\ file' = n /\ copied' = plain[n]
  <2>1. FileTypes'
    BY <1>1, <1>2, <1>4 DEF TypeOK, FileTypes, Encrypting
  <2>2. FileState'
    BY <1>2, <1>4 DEF FileState
  <2> QED  BY <2>1, <2>2
<1> QED  BY <1>1, <1>3, <1>4

LEMMA WriteAsideFiles ==
    ASSUME IInv, WriteAside
    PROVE  FileTypes' /\ FileState'
<1> USE DEF IInv
<1>1. /\ step = "read" /\ file \in Names
      /\ UNCHANGED <<enc, rest, latest, spoilt>>
      /\ \/ step' = "aside" /\ UNCHANGED <<file, copied>>
         \/ step' = "next" /\ file' = NoFile /\ copied' = None
  BY DEF WriteAside, NextPlease, TypeOK, Encrypting
<1>2. /\ plain' \in [Names -> Contents]
      /\ \A k \in Kubeconfigs : plain'[k] = plain[k]
  <2>1. CASE plain' = plain
    BY <2>1 DEF TypeOK
  <2>2. ASSUME NEW l \in Kubeconfigs, plain' = [plain EXCEPT ![Tmp(l)] = Garbage]
        PROVE  <1>2!1 /\ <1>2!2
    <3>1. Tmp(l) \in Names /\ Tmp(l) \notin Kubeconfigs /\ Kubeconfigs \subseteq Names
      BY ConstantsAssumption DEF Names
    <3> QED  BY <2>2, <3>1, ContentsOf DEF TypeOK
  <2> QED  BY <2>1, <2>2 DEF WriteAside
<1>3. FileTypes'
  BY <1>1, <1>2, ContentsOf DEF TypeOK, FileTypes, Encrypting
<1>4. FileState'
  BY <1>1, <1>2 DEF FileState
<1> QED  BY <1>3, <1>4

LEMMA RenameFiles ==
    ASSUME IInv, Rename
    PROVE  FileTypes' /\ FileState'
<1> USE DEF IInv
<1>1. step = "aside" /\ file \in Names
  BY DEF Rename, TypeOK, Encrypting
<1>2. CASE Renamed
  <2>1. /\ UNCHANGED <<rest, file, copied, latest, spoilt>> /\ step' = "renamed"
        /\ enc' = [enc EXCEPT ![file] = copied]
        /\ plain' = [n \in Names |-> IF n = Tmp(file) THEN None ELSE plain[n]]
    BY <1>2 DEF Renamed
  <2>2. FileTypes'
    BY <1>1, <2>1, ContentsOf DEF TypeOK, FileTypes, Encrypting
  <2>3. \A k \in Kubeconfigs :
          plain'[k] = plain[k] /\ enc'[k] = IF k = file THEN copied ELSE enc[k]
    <3>1. Tmp(file) \notin Kubeconfigs /\ Kubeconfigs \subseteq Names
      BY <1>1, ConstantsAssumption DEF Names
    <3> QED  BY <1>1, <2>1, <3>1 DEF TypeOK
  <2>4. FileState'
    BY <1>1, <2>1, <2>3 DEF FileState
  <2> QED  BY <2>2, <2>4
<1>3. CASE NextPlease /\ UNCHANGED <<plain, enc, latest, spoilt>>
  <2>1. FileTypes'
    BY <1>3, ContentsOf DEF NextPlease, TypeOK, FileTypes, Encrypting
  <2>2. FileState'
    BY <1>1, <1>3 DEF NextPlease, FileState
  <2> QED  BY <2>1, <2>2
<1> QED  BY <1>2, <1>3 DEF Rename

LEMMA OverwriteFiles ==
    ASSUME IInv, Overwrite
    PROVE  FileTypes' /\ FileState'
<1> USE DEF IInv
<1>1. /\ step = "renamed" /\ step' = "overwritten" /\ file \in Names
      /\ plain' \in {plain, [plain EXCEPT ![file] = Garbage]}
      /\ UNCHANGED <<enc, rest, file, copied, latest, spoilt>>
  BY DEF Overwrite, TypeOK, Encrypting
<1>2. FileTypes'
  BY <1>1, ContentsOf DEF TypeOK, FileTypes, Encrypting
<1>3. \A k \in Kubeconfigs :
        /\ k # file => plain'[k] = plain[k]
        /\ k = file => plain'[k] \in {plain[k], Garbage}
  BY <1>1 DEF TypeOK, Names
<1>4. FileState'
  BY <1>1, <1>3 DEF FileState
<1> QED  BY <1>2, <1>4

LEMMA UnlinkFiles ==
    ASSUME IInv, Unlink
    PROVE  FileTypes' /\ FileState'
<1> USE DEF IInv
<1>1. /\ step = "overwritten" /\ step' = "next" /\ file \in Names
      /\ file' = NoFile /\ copied' = None
      /\ UNCHANGED <<enc, rest, latest>>
  BY DEF Unlink, NextPlease, TypeOK, Encrypting
<1>2. CASE plain' = [plain EXCEPT ![file] = None] /\ UNCHANGED spoilt
  <2>1. FileTypes'
    BY <1>1, <1>2, ContentsOf DEF TypeOK, FileTypes, Encrypting
  <2>2. \A k \in Kubeconfigs : plain'[k] = IF k = file THEN None ELSE plain[k]
    BY <1>1, <1>2 DEF TypeOK, Names
  <2>3. FileState'
    BY <1>1, <1>2, <2>2 DEF FileState
  <2> QED  BY <2>1, <2>3
<1>3. CASE /\ UNCHANGED plain
           /\ spoilt' = IF plain[file] = Garbage THEN spoilt \cup (Kubeconfigs \cap {file})
                                                 ELSE spoilt
  <2>1. FileTypes'
    BY <1>1, <1>3, ContentsOf DEF TypeOK, FileTypes, Encrypting
  <2>2. \A k \in Kubeconfigs \ spoilt' :
          k \notin spoilt /\ (k = file => plain[k] # Garbage)
    BY <1>3
  <2>3. FileState'
    BY <1>1, <1>3, <2>2 DEF FileState
  <2> QED  BY <2>1, <2>3
<1> QED  BY <1>2, <1>3 DEF Unlink

(* A step of an encryption.                                                *)
LEMMA EncryptStepKeeps ==
    ASSUME IInv, EncryptStep
    PROVE  IInv'
<1> USE DEF IInv
<1>1. FileTypes' /\ FileState'
  BY ReadNextFiles, WriteAsideFiles, RenameFiles, OverwriteFiles, UnlinkFiles
     DEF EncryptStep
<1>2. UNCHANGED <<by, open, temps, at, stores, crashes, excused>> /\ step # "no"
  BY DEF EncryptStep, ReadNext, WriteAside, Rename, Renamed, Overwrite, Unlink,
         NextPlease
<1>3. TypeOK'
  BY <1>1, <1>2 DEF TypeOK, FileTypes
<1>4. TempfilesAreOwned' /\ LockedBetween'
  BY <1>2 DEF TempfilesAreOwned, LockedBetween
<1> QED  BY <1>1, <1>3, <1>4

----------------------------------------------------------------------------
(* The tasks. *)

LEMMA InitIInv == Init => IInv
<1> SUFFICES ASSUME Init PROVE IInv
  OBVIOUS
<1>1. TypeOK
  <2>1. /\ 0 \in 0 .. MaxStores /\ 0 \in 0 .. MaxCrashes /\ None = 0
    BY ConstantsAssumption DEF None
  <2> QED  BY <2>1, ContentsOf DEF Init, TypeOK, Jobs, Encrypting
<1>2. FileState
  BY DEF Init, FileState
<1>3. TempfilesAreOwned /\ LockedBetween
  BY DEF Init, TempfilesAreOwned, LockedBetween
<1> QED  BY <1>1, <1>2, <1>3 DEF IInv

Where == {"none", "finished", "died", "cancelled", "lost"} \cup Live

(* Call j of /kshell or /reconcile lists the files to encrypt.             *)
LEMMA StartStep ==
    ASSUME IInv, NEW j \in Jobs, step = "no", CallKshell(j) \/ StartGather(j)
    PROVE  IInv'
<1> USE DEF IInv
<1>1. /\ step' = "next" /\ by' = j /\ rest' = Plaintexts
      /\ UNCHANGED <<plain, enc, file, copied, latest, spoilt>>
      /\ UNCHANGED <<open, temps, at, stores, crashes, excused>>
  BY DEF CallKshell, StartGather, StartMigration
<1>2. \/ j \in Kshell /\ at[j] = "none"
      \/ j \in Reconcile /\ at[j] = "open"
  BY DEF CallKshell, StartGather, TypeOK, Jobs
<1>3. FileTypes' /\ FileState'
  BY <1>1, FilesKept DEF Plaintexts
<1>4. TypeOK'
  <2>1. \/ by' \in Kshell /\ at'[by'] = "none"
        \/ by' \in Reconcile /\ at'[by'] = "open"
    BY <1>1, <1>2
  <2>2. /\ rest' \subseteq Names /\ (step' \in Encrypting => file' \in Names)
        /\ plain' \in [Names -> Contents] /\ enc' \in [Names -> Contents]
        /\ step' \in {"no", "next"} \cup Encrypting /\ copied' \in Contents
        /\ latest' \in [Kubeconfigs -> 0 .. MaxStores] /\ spoilt' \subseteq Kubeconfigs
    BY <1>3 DEF FileTypes
  <2>3. UNCHANGED <<open, temps, at, stores, crashes, excused>>
    BY <1>1
  <2> QED  BY <2>1, <2>2, <2>3 DEF TypeOK
<1>5. TempfilesAreOwned' /\ LockedBetween'
  BY <1>1 DEF TempfilesAreOwned, LockedBetween
<1> QED  BY <1>3, <1>4, <1>5

(* The steps of call j that do not touch the directory's mode.             *)
LEMMA CommandStep ==
    ASSUME IInv, NEW j \in Jobs,
           \/ /\ step = "no"
              /\ \/ CallShell(j) \/ CallReconcile(j)
                 \/ Spawn(j) \/ Decrypt(j) \/ TimesOut(j) \/ CommandEnds(j) \/ Reply(j)
           \/ KshellFinds(j)
    PROVE  IInv'
<1> USE DEF IInv
<1> DEFINE w == at'[j]
           Step ==
             /\ at' = [at EXCEPT ![j] = w]
             /\ w \in {"finished", "acked", "died", "running", "replying"}
             /\ at[j] \in {"running", "acked", "none", "replying"}
             /\ w = "running" => j \in Shell \cup Kshell
             /\ at[j] = "running" => j \in Shell \cup Kshell /\ w = "replying"
             /\ step \in {"no", "next"} /\ step' = "no"
             /\ rest' \subseteq Names
             /\ UNCHANGED <<plain, enc, file, copied, latest, spoilt>>
             /\ UNCHANGED <<open, excused, stores, crashes>>
             /\ \/ UNCHANGED temps /\ at[j] # "replying"
                \/ /\ j \in Kshell /\ w \in {"running", "replying"}
                   /\ temps' = temps \cup {<<j, UserOf[j]>>}
                \/ temps' = temps \ ({j} \X Names)
<1>1. Step
  <2>1. at \in [Jobs -> Where] /\ rest \subseteq Names
    BY DEF TypeOK, Where
  <2>2. CASE step = "no" /\ CallShell(j)
    BY <2>1, <2>2 DEF CallShell, Goto, files, migration
  <2>3. CASE KshellFinds(j)
    <3>1. j \in Kshell /\ step = "next" /\ by = j
      BY <2>3 DEF KshellFinds, Migrated
    <3>2. at[j] = "none"
      BY <3>1, ConstantsAssumption DEF TypeOK
    <3> QED  BY <2>1, <2>3, <3>1, <3>2 DEF KshellFinds, EndMigration, Goto
  <2>4. CASE step = "no" /\ CallReconcile(j)
    BY <2>1, <2>4 DEF CallReconcile, Goto, files, migration
  <2>5. CASE step = "no" /\ Spawn(j)
    BY <2>1, <2>5 DEF Spawn, Goto, files, migration
  <2>6. CASE step = "no" /\ Decrypt(j)
    BY <2>1, <2>6 DEF Decrypt, Goto, files, migration
  <2>7. CASE step = "no" /\ TimesOut(j)
    BY <2>1, <2>7 DEF TimesOut, Goto, files, migration
  <2>8. CASE step = "no" /\ CommandEnds(j)
    BY <2>1, <2>8 DEF CommandEnds, Goto, files, migration
  <2>9. CASE step = "no" /\ Reply(j)
    BY <2>1, <2>9 DEF Reply, Goto, files, migration
  <2> QED  BY <2>2, <2>3, <2>4, <2>5, <2>6, <2>7, <2>8, <2>9
<1>2. FileTypes' /\ FileState'
  BY <1>1, FilesKept
<1>3. /\ UNCHANGED <<open, excused, stores, crashes>>
      /\ \/ UNCHANGED temps /\ at[j] # "replying"
         \/ /\ j \in Kshell /\ w \in {"running", "replying"}
            /\ temps' = temps \cup {<<j, UserOf[j]>>}
         \/ temps' = temps \ ({j} \X Names)
  BY <1>1
<1>4. /\ at' \in [Jobs -> Where]
      /\ at'[j] = w
      /\ \A i \in Jobs \ {j} : at'[i] = at[i]
  BY <1>1 DEF TypeOK, Where, Live, Unlocking
<1>5. temps' \subseteq (Kshell \cup Reconcile) \X Names
  BY <1>3, ConstantsAssumption DEF TypeOK, Names
<1>6. TypeOK'
  <2>1. \A i \in Shell \cup Kshell :
          at'[i] \notin {"open", "locking", "notOpened", "relocking"}
    BY <1>1, <1>4 DEF TypeOK, Jobs, Unlocking
  <2> QED  BY <1>1, <1>2, <1>3, <1>4, <1>5, <2>1 DEF TypeOK, FileTypes, Where
<1>7. TempfilesAreOwned'
  <2> SUFFICES ASSUME NEW x \in temps'
               PROVE  at'[x[1]] \in {"running", "replying", "lost"}
    BY DEF TempfilesAreOwned
  <2>1. x[1] \in Jobs /\ x[2] \in Names /\ x = <<x[1], x[2]>>
    BY <1>5 DEF Jobs
  <2>2. CASE x[1] # j
    <3>1. x \in temps
      BY <1>3, <2>2
    <3> QED  BY <1>4, <2>1, <2>2, <3>1 DEF TempfilesAreOwned
  <2>3. CASE x[1] = j /\ x \in temps
    <3>1. at[j] \in {"running", "replying"}
      BY <1>1, <2>3 DEF TempfilesAreOwned
    <3>2. x \notin temps \ ({j} \X Names)
      BY <2>1, <2>3
    <3>3. w \in {"running", "replying"}
      BY <1>1, <1>3, <3>1, <3>2
    <3> QED  BY <1>4, <2>3, <3>3
  <2>4. CASE x[1] = j /\ x \notin temps
    <3>1. w \in {"running", "replying"}
      BY <1>3, <2>4
    <3> QED  BY <1>4, <2>4, <3>1
  <2> QED  BY <2>2, <2>3, <2>4
<1>8. LockedBetween'
  <2> SUFFICES ASSUME open, ~excused
               PROVE  \E r \in Reconcile : at'[r] \in Unlocking
    BY <1>3 DEF LockedBetween
  <2>1. PICK r \in Reconcile : at[r] \in Unlocking
    BY DEF LockedBetween
  <2>2. r \in Jobs \ {j}
    BY <1>1, <2>1, ConstantsAssumption DEF Jobs, Unlocking
  <2> QED  BY <1>4, <2>1, <2>2
<1> QED  BY <1>2, <1>6, <1>7, <1>8

(* The steps of call j of /reconcile that change the directory's mode, or  *)
(* fail to.                                                                *)
LEMMA DirectoryStep ==
    ASSUME IInv, NEW j \in Jobs, step = "no",
           Unlock(j) \/ ReportNotOpened(j) \/ Lock(j)
    PROVE  IInv'
<1> USE DEF IInv
<1> DEFINE w == at'[j]
           Step ==
             /\ at' = [at EXCEPT ![j] = w]
             /\ UNCHANGED <<files, temps, stores, crashes>>
             /\ j \in Reconcile
             /\ at[j] \in {"acked", "notOpened", "locking", "relocking"}
             /\ open' \in BOOLEAN /\ excused' \in BOOLEAN
             /\ \/ w \in {"open", "notOpened", "relocking"} /\ UNCHANGED excused
                \/ w \in {"replying", "finished"} /\ (open' => excused')
<1>1. Step
  <2>1. at \in [Jobs -> Where] /\ open \in BOOLEAN /\ excused \in BOOLEAN
    BY DEF TypeOK, Where
  <2>2. at[j] \in {"notOpened", "locking", "relocking"} => j \in Reconcile
    BY DEF TypeOK, Jobs
  <2>3. CASE Unlock(j)
    BY <2>1, <2>3 DEF Unlock, Goto
  <2>4. CASE ReportNotOpened(j)
    BY <2>1, <2>2, <2>4 DEF ReportNotOpened, Goto
  <2>5. CASE Lock(j)
    BY <2>1, <2>2, <2>5 DEF Lock, Goto
  <2> QED  BY <2>3, <2>4, <2>5
<1>2. /\ at' \in [Jobs -> Where]
      /\ at'[j] = w
      /\ \A i \in Jobs \ {j} : at'[i] = at[i]
  BY <1>1 DEF TypeOK, Where, Live, Unlocking
<1>3. FileTypes' /\ FileState' /\ step' = "no"
  BY <1>1, FilesKept DEF TypeOK, files, migration
<1>4. TypeOK'
  <2>1. \A i \in Shell \cup Kshell :
          at'[i] \notin {"open", "locking", "notOpened", "relocking"}
    BY <1>1, <1>2, ConstantsAssumption DEF TypeOK, Jobs
  <2> QED  BY <1>1, <1>2, <1>3, <2>1 DEF TypeOK, FileTypes, Where
<1>5. TempfilesAreOwned'
  <2> SUFFICES ASSUME NEW x \in temps
               PROVE  at'[x[1]] \in {"running", "replying", "lost"}
    BY <1>1 DEF TempfilesAreOwned
  <2>1. x[1] \in Jobs /\ x[1] # j
    BY <1>1 DEF TypeOK, TempfilesAreOwned, Jobs
  <2> QED  BY <1>2, <2>1 DEF TempfilesAreOwned
<1>6. LockedBetween'
  <2> SUFFICES ASSUME open', ~excused'
               PROVE  \E r \in Reconcile : at'[r] \in Unlocking
    BY DEF LockedBetween
  <2>1. w \in {"open", "notOpened", "relocking"}
    BY <1>1
  <2> QED  BY <1>1, <1>2, <2>1 DEF Unlocking
<1> QED  BY <1>3, <1>4, <1>5, <1>6

(* The decryption of all kubeconfigs by call j of /reconcile, and the end  *)
(* of its work on one of them.                                             *)
LEMMA GatherStep ==
    ASSUME IInv, NEW j \in Jobs,
           Gather(j) \/ (step = "no" /\ \E n \in Names : KubeconfigDone(j, n))
    PROVE  IInv'
<1> USE DEF IInv
<1> DEFINE w == at'[j]
           Step ==
             /\ at' = [at EXCEPT ![j] = w]
             /\ step \in {"no", "next"} /\ step' = "no"
             /\ rest' \subseteq Names
             /\ UNCHANGED <<plain, enc, file, copied, latest, spoilt>>
             /\ UNCHANGED <<open, excused, stores, crashes>>
             /\ j \in Reconcile
             /\ w \in {"running", "locking"}
             /\ temps' \subseteq temps \cup ({j} \X Names)
             /\ w = "locking" => temps' \cap ({j} \X Names) = {}
<1>1. Step
  <2>1. at \in [Jobs -> Where] /\ rest \subseteq Names
    BY DEF TypeOK, Where
  <2>2. CASE Gather(j)
    <3>1. /\ j \in Reconcile /\ at[j] = "open"
          /\ step = "next" /\ step' = "no" /\ rest' = {}
          /\ UNCHANGED <<plain, enc, file, copied, latest, spoilt>>
          /\ UNCHANGED <<open, excused, stores, crashes>>
      BY <2>2, ConstantsAssumption DEF Gather, Migrated, EndMigration, TypeOK
    <3>2. temps \cap ({j} \X Names) = {}
      BY <3>1 DEF TempfilesAreOwned
    <3>3. PICK all \in SUBSET Names, bad \in SUBSET Names :
            /\ bad \subseteq all
            /\ temps' = temps \cup ({j} \X (all \ bad))
            /\ Goto(j, IF all = bad THEN "locking" ELSE "running")
      BY <2>2 DEF Gather
    <3>4. /\ at' = [at EXCEPT ![j] = w] /\ w \in {"running", "locking"}
          /\ w = "locking" => all = bad
      BY <2>1, <3>3 DEF Goto
    <3> QED  BY <3>1, <3>2, <3>3, <3>4
  <2>3. CASE step = "no" /\ \E n \in Names : KubeconfigDone(j, n)
    <3>1. PICK n \in Names : KubeconfigDone(j, n)
      BY <2>3
    <3>2. /\ temps' = temps \ {<<j, n>>} /\ at[j] = "running" /\ j \in Reconcile
          /\ UNCHANGED <<files, open, excused, stores, crashes>>
      BY <3>1 DEF KubeconfigDone
    <3>3. CASE \E l \in Names : <<j, l>> \in temps'
      BY <2>1, <2>3, <3>1, <3>2, <3>3 DEF KubeconfigDone, files, migration
    <3>4. CASE ~ \E l \in Names : <<j, l>> \in temps'
      BY <2>1, <2>3, <3>1, <3>2, <3>4 DEF KubeconfigDone, Goto, files, migration
    <3> QED  BY <3>3, <3>4
  <2> QED  BY <2>2, <2>3
<1>2. /\ at' \in [Jobs -> Where]
      /\ at'[j] = w
      /\ \A i \in Jobs \ {j} : at'[i] = at[i]
  BY <1>1 DEF TypeOK, Where, Live, Unlocking
<1>3. FileTypes' /\ FileState'
  BY <1>1, FilesKept
<1>4. TypeOK'
  <2>1. \A i \in Shell \cup Kshell :
          at'[i] \notin {"open", "locking", "notOpened", "relocking"}
    BY <1>1, <1>2, ConstantsAssumption DEF TypeOK, Jobs
  <2>2. temps' \subseteq (Kshell \cup Reconcile) \X Names
    BY <1>1 DEF TypeOK
  <2> QED  BY <1>1, <1>2, <1>3, <2>1, <2>2 DEF TypeOK, FileTypes, Where
<1>5. TempfilesAreOwned'
  <2> SUFFICES ASSUME NEW x \in temps'
               PROVE  at'[x[1]] \in {"running", "replying", "lost"}
    BY DEF TempfilesAreOwned
  <2>1. x[1] \in Jobs /\ x[2] \in Names /\ x = <<x[1], x[2]>>
    BY <1>4 DEF TypeOK, Jobs
  <2>2. CASE x[1] = j
    BY <1>1, <1>2, <2>1, <2>2
  <2>3. CASE x[1] # j
    <3>1. x \in temps
      BY <1>1, <2>3
    <3> QED  BY <1>2, <2>1, <2>3, <3>1 DEF TempfilesAreOwned
  <2> QED  BY <2>2, <2>3
<1>6. LockedBetween'
  BY <1>1, <1>2 DEF LockedBetween, Unlocking
<1> QED  BY <1>3, <1>4, <1>5, <1>6

----------------------------------------------------------------------------
(* The operator and the end of the process. *)

LEMMA StoreStep ==
    ASSUME IInv, NEW k \in Kubeconfigs, Store(k)
    PROVE  IInv'
<1> USE DEF IInv
<1>1. /\ stores' \in 1 .. MaxStores /\ stores' # None
      /\ plain' = [plain EXCEPT ![k] = stores'] /\ k \in Names
      /\ latest' = [latest EXCEPT ![k] = stores']
      /\ UNCHANGED <<enc, migration, open, temps, at, crashes, excused>>
  BY ConstantsAssumption DEF Store, TypeOK, None, Names
<1>2. spoilt' \subseteq Kubeconfigs
  BY DEF Store, TypeOK
<1>3. TypeOK'
  <2>1. stores' \in 0 .. MaxStores /\ stores' \in Contents
    BY <1>1 DEF Contents
  <2> QED  BY <1>1, <1>2, <2>1 DEF TypeOK, migration
<1>4. FileState'
  <2> SUFFICES ASSUME NEW l \in Kubeconfigs, latest'[l] # None, l \notin spoilt'
               PROVE  /\ \/ plain'[l] \in {latest'[l], None}
                         \/ plain'[l] = Garbage /\ file = l /\ step = "overwritten"
                      /\ plain'[l] # latest'[l] => enc[l] = latest'[l]
                      /\ file = l /\ step \in {"read", "aside"} => copied = latest'[l]
                      /\ file = l /\ step \in {"renamed", "overwritten"}
                            => enc[l] = latest'[l]
    BY <1>1 DEF FileState, migration
  <2>1. CASE l = k
    <3>1. plain'[l] = latest'[l]
      BY <1>1, <2>1 DEF TypeOK
    <3>2. ~ (step \in Encrypting /\ file = l)
      BY <2>1 DEF Store
    <3> QED  BY <3>1, <3>2 DEF Encrypting
  <2>2. CASE l # k
    <3>1. plain'[l] = plain[l] /\ latest'[l] = latest[l] /\ l \notin spoilt
      BY <1>1, <2>2 DEF Store, TypeOK, Names
    <3> QED  BY <3>1 DEF FileState
  <2> QED  BY <2>1, <2>2
<1>5. TempfilesAreOwned' /\ LockedBetween'
  BY <1>1 DEF TempfilesAreOwned, LockedBetween
<1> QED  BY <1>3, <1>4, <1>5

(* What a stop and a crash have in common.                                 *)
LEMMA EndStep ==
    ASSUME IInv, (step = "no" /\ Stop) \/ Crash
    PROVE  IInv'
<1> USE DEF IInv
<1>1. PICK w \in {"cancelled", "lost"} :
        /\ Lost(w)
        /\ w = "cancelled" => temps' = {x \in temps : at[x[1]] \notin Live}
  BY DEF Stop, Crash
<1>2. /\ crashes' \in 0 .. MaxCrashes
      /\ step' = "no" /\ rest' \subseteq Names
      /\ UNCHANGED <<plain, enc, latest, stores>>
      /\ temps' \subseteq temps
  BY ConstantsAssumption DEF Stop, Crash, TypeOK, files, migration
<1>3. /\ at' \in [Jobs -> Where]
      /\ \A i \in Jobs : at'[i] = IF at[i] \in Live THEN w ELSE at[i]
  BY <1>1 DEF Lost, TypeOK, Where
<1>4. FileTypes' /\ FileState'
  <2>1. CASE step = "no" /\ Stop
    BY <2>1, FilesKept DEF Stop, files, migration, TypeOK
  <2>2. CASE Crash
    <3>1. /\ copied' = None
          /\ spoilt' = IF step = "overwritten" THEN spoilt \cup (Kubeconfigs \cap {file})
                                               ELSE spoilt
      BY <2>2 DEF Crash
    <3>2. FileTypes'
      BY <1>2, <3>1, ContentsOf DEF TypeOK, FileTypes, Encrypting
    <3>3. FileState'
      BY <1>2, <3>1 DEF FileState
    <3> QED  BY <3>2, <3>3
  <2> QED  BY <2>1, <2>2
<1>5. TypeOK'
  <2>1. \A i \in Shell \cup Kshell :
          at'[i] \notin {"open", "locking", "notOpened", "relocking"}
    BY <1>3 DEF TypeOK, Jobs
  <2>2. open' \in BOOLEAN /\ excused' \in BOOLEAN
    BY DEF Stop, Crash, TypeOK
  <2> QED  BY <1>2, <1>3, <1>4, <2>1, <2>2 DEF TypeOK, FileTypes, Where
<1>6. TempfilesAreOwned'
  <2> SUFFICES ASSUME NEW x \in temps'
               PROVE  at'[x[1]] \in {"running", "replying", "lost"}
    BY DEF TempfilesAreOwned
  <2>1. x \in temps /\ x[1] \in Jobs
    BY <1>2 DEF TypeOK, Jobs
  <2>2. at[x[1]] \in {"running", "replying", "lost"}
    BY <2>1 DEF TempfilesAreOwned
  <2> QED  BY <1>1, <1>3, <2>1, <2>2 DEF Live
<1>7. LockedBetween'
  <2>1. CASE Stop
    <3>1. CASE /\ open' = (open /\ \A j \in Reconcile : at[j] \notin Unlocking)
               /\ UNCHANGED excused
      <4> SUFFICES ASSUME open' PROVE excused'
        BY DEF LockedBetween
      <4>1. open /\ \A j \in Reconcile : at[j] \notin Unlocking
        BY <3>1
      <4>2. excused
        BY <4>1 DEF LockedBetween
      <4> QED  BY <3>1, <4>2
    <3>2. CASE excused' = TRUE
      BY <3>2 DEF LockedBetween
    <3> QED  BY <2>1, <3>1, <3>2 DEF Stop
  <2>2. CASE Crash
    BY <2>2 DEF LockedBetween, Crash
  <2> QED  BY <2>1, <2>2
<1> QED  BY <1>4, <1>5, <1>6, <1>7

----------------------------------------------------------------------------
(* The inductive invariant holds in every state, for any kubeconfigs,      *)
(* calls and bounds.                                                       *)
THEOREM Invariance == Spec => []IInv
<1>1. IInv /\ [Next]_vars => IInv'
  <2> SUFFICES ASSUME IInv, [Next]_vars PROVE IInv'
    OBVIOUS
  <2>1. ASSUME NEW k \in Kubeconfigs, Store(k) PROVE IInv'
    BY <2>1, StoreStep
  <2>2. ASSUME NEW j \in Jobs,
               \/ /\ step = "no"
                  /\ \/ CallShell(j) \/ CallReconcile(j)
                     \/ Spawn(j) \/ Decrypt(j) \/ TimesOut(j) \/ CommandEnds(j)
                     \/ Reply(j)
               \/ KshellFinds(j)
        PROVE  IInv'
    BY <2>2, CommandStep
  <2>3. ASSUME NEW j \in Jobs, step = "no", Unlock(j) \/ ReportNotOpened(j) \/ Lock(j)
        PROVE  IInv'
    BY <2>3, DirectoryStep
  <2>4. ASSUME NEW j \in Jobs,
               Gather(j) \/ (step = "no" /\ \E n \in Names : KubeconfigDone(j, n))
        PROVE  IInv'
    BY <2>4, GatherStep
  <2>5. ASSUME NEW j \in Jobs, step = "no", CallKshell(j) \/ StartGather(j)
        PROVE  IInv'
    BY <2>5, StartStep
  <2>6. CASE EncryptStep
    BY <2>6, EncryptStepKeeps
  <2>7. CASE (step = "no" /\ Stop) \/ Crash
    BY <2>7, EndStep
  <2>8. CASE UNCHANGED vars
    BY <2>8 DEF vars, files, migration, IInv, TypeOK, FileState, TempfilesAreOwned,
                LockedBetween
  <2> QED  BY <2>1, <2>2, <2>3, <2>4, <2>5, <2>6, <2>7, <2>8
           DEF Next, Proceed, MigrationStep, LoopFree
<1> QED  BY InitIInv, <1>1, PTL DEF Spec

(* The types of the state: no task of /shell or /kshell is ever at a step  *)
(* of /reconcile, and a migration belongs to a /kshell that is not yet     *)
(* acknowledged or to a /reconcile that has opened the directory.          *)
THEOREM TypeCorrect == Spec => []TypeOK
BY Invariance, PTL DEF IInv

(* What the operator brought last survives every migration, by whichever   *)
(* command, with any of its file operations failing and after any crash,   *)
(* unless the end of its shredding failed or was cut off, or it was        *)
(* brought while the older one was being encrypted (encrypt_file).         *)
THEOREM NoneLost == Spec => []KubeconfigsSurvive
BY Invariance, FileStateSurvives, PTL DEF IInv

(* A decrypted tempfile belongs to a command under way or was left by a    *)
(* crash, also after an orderly stop (_run_kshell_and_edit,                *)
(* process_kubeconfig).                                                    *)
THEOREM NoTempfileLeft == Spec => []TempfilesAreOwned
BY Invariance, PTL DEF IInv

(* The directory is locked when no /reconcile is under way, unless a crash *)
(* or a failing chmod left it open (_run_reconcile_and_edit).              *)
THEOREM Locked == Spec => []LockedBetween
BY Invariance, PTL DEF IInv

=============================================================================

------------------------- MODULE PermissionWorkflow -------------------------
(***************************************************************************)
(* Permissions and the requests that grant them:                           *)
(* services/permission_service.py with models/permission_request.py and    *)
(* models/user.py, as the commands and buttons of                          *)
(* handlers/privilege_handler.py use it.                                   *)
(*                                                                         *)
(* An admin asks (/grant), the target user approves or denies, by button   *)
(* or by command.  Everything is in MongoDB and every call is synchronous, *)
(* so an operation is one step of the loop; only approve_request writes    *)
(* two documents, and a failure or a restart can come in between.          *)
(* Requests are numbered in the order of creation.  revoke_request and     *)
(* cleanup_expired_requests have no caller and are not modelled.           *)
(***************************************************************************)
EXTENDS Integers, Sequences

CONSTANTS
    Users,
    AdminUserIds,   \* config.admin_user_ids
    Permissions,    \* UserPermission
    AdminAccess,    \* UserPermission.ADMIN_ACCESS
    MaxRequests     \* bound of the model: requests in all

ASSUME PermissionAssumption ==
    /\ AdminUserIds \subseteq Users
    /\ AdminAccess \in Permissions
    /\ MaxRequests \in Nat

VARIABLES
    perms,          \* perms[u]: the permissions of u's document
    requests        \* the requests, in the order of creation

permissionVars == <<perms, requests>>

(* A request; late says that its expires_at has passed.                    *)
Request == [requester : Users,
            target : Users,
            permission : Permissions,
            status : {"pending", "approved", "denied", "expired"},
            late : BOOLEAN]

PermissionInit ==
    /\ perms = [u \in Users |-> {}]
    /\ requests = <<>>

(* is_admin, and _is_admin of the decorator admin_only.                    *)
IsAdmin(u) == u \in AdminUserIds \/ AdminAccess \in perms[u]

PendingFor(u, p) ==
    \E i \in DOMAIN requests :
        /\ requests[i].target = u
        /\ requests[i].permission = p
        /\ requests[i].status = "pending"

NewRequest(a, u, p) ==
    [requester |-> a, target |-> u, permission |-> p,
     status |-> "pending", late |-> FALSE]

----------------------------------------------------------------------------
(* Operators named Wrong... are deliberately wrong variants of the one     *)
(* that follows, used to show that the properties notice them.             *)

(* /grant without the admin check.                                         *)
WrongGrantByAnyone(a, u, p) ==
    /\ p \notin perms[u]
    /\ ~PendingFor(u, p)
    /\ Len(requests) < MaxRequests
    /\ requests' = Append(requests, NewRequest(a, u, p))
    /\ UNCHANGED perms

(* /grant that looks only for a request the same admin has made.           *)
WrongGrantTwice(a, u, p) ==
    /\ IsAdmin(a)
    /\ p \notin perms[u]
    /\ ~\E i \in DOMAIN requests :
           requests[i] = NewRequest(a, u, p)
    /\ Len(requests) < MaxRequests
    /\ requests' = Append(requests, NewRequest(a, u, p))
    /\ UNCHANGED perms

(* /grant: create_permission_request.  A pending request blocks another    *)
(* one even when it has expired.                                           *)
Grant(a, u, p) ==
    /\ IsAdmin(a)
    /\ p \notin perms[u]
    /\ ~PendingFor(u, p)
    /\ Len(requests) < MaxRequests
    /\ requests' = Append(requests, NewRequest(a, u, p))
    /\ UNCHANGED perms

(* Time passes: permission_request_expiry_minutes are over.                *)
Expires(i) ==
    /\ requests[i].status = "pending"
    /\ ~requests[i].late
    /\ requests' = [requests EXCEPT ![i].late = TRUE]
    /\ UNCHANGED perms

(* Approving without is_expired().                                         *)
WrongApproveLate(i) ==
    /\ requests[i].status = "pending"
    /\ requests' = [requests EXCEPT ![i].status = "approved"]
    /\ perms' = [perms EXCEPT ![requests[i].target] = @ \cup {requests[i].permission}]

(* approve_request by the target: APPROVED is saved, then grant_permission *)
(* saves the user.                                                         *)
Approve(i) ==
    /\ requests[i].status = "pending"
    /\ ~requests[i].late
    /\ requests' = [requests EXCEPT ![i].status = "approved"]
    /\ perms' = [perms EXCEPT ![requests[i].target] = @ \cup {requests[i].permission}]

(* APPROVED is saved, and grant_permission fails or the process stops.     *)
ApproveCutShort(i) ==
    /\ requests[i].status = "pending"
    /\ ~requests[i].late
    /\ requests' = [requests EXCEPT ![i].status = "approved"]
    /\ UNCHANGED perms

(* approve_request by the target after expires_at: EXPIRED is saved.       *)
ApproveTooLate(i) ==
    /\ requests[i].status = "pending"
    /\ requests[i].late
    /\ requests' = [requests EXCEPT ![i].status = "expired"]
    /\ UNCHANGED perms

(* Denying whatever the status is.                                         *)
WrongDenyAnyTime(i) ==
    /\ requests' = [requests EXCEPT ![i].status = "denied"]
    /\ UNCHANGED perms

(* deny_request by the target; it does not look at expires_at.             *)
Deny(i) ==
    /\ requests[i].status = "pending"
    /\ requests' = [requests EXCEPT ![i].status = "denied"]
    /\ UNCHANGED perms

(* /revoke by an admin: revoke_permission, whatever requests there are.    *)
Revoke(a, u, p) ==
    /\ IsAdmin(a)
    /\ p \in perms[u]
    /\ perms' = [perms EXCEPT ![u] = @ \ {p}]
    /\ UNCHANGED requests

PermissionNext ==
    \/ \E a, u \in Users, p \in Permissions : Grant(a, u, p) \/ Revoke(a, u, p)
    \/ \E i \in DOMAIN requests :
          \/ Expires(i)
          \/ Approve(i)
          \/ ApproveCutShort(i)
          \/ ApproveTooLate(i)
          \/ Deny(i)

PermissionSpec == PermissionInit /\ [][PermissionNext]_permissionVars

----------------------------------------------------------------------------
(* The types of the state. *)
PermissionTypeOK ==
    /\ perms \in [Users -> SUBSET Permissions]
    /\ requests \in Seq(Request)

(* "Permission grants are not unilateral even for admins": who has a       *)
(* permission has approved a request for it, before it expired.            *)
HeldByConsent ==
    \A u \in Users : \A p \in perms[u] :
        \E i \in DOMAIN requests :
            /\ requests[i].target = u
            /\ requests[i].permission = p
            /\ requests[i].status = "approved"
            /\ ~requests[i].late

(* Approving can never give a permission that was meanwhile gained and     *)
(* revoked: a request is pending only while its target lacks the           *)
(* permission, and no other is pending for it.  So a permission that was   *)
(* revoked comes back only by a request that was made afterwards.          *)
PendingMeansLacking ==
    \A i, j \in DOMAIN requests :
        /\ requests[i].status = "pending" =>
              requests[i].permission \notin perms[requests[i].target]
        /\ /\ requests[i].status = "pending" /\ requests[j].status = "pending"
           /\ requests[i].target = requests[j].target
           /\ requests[i].permission = requests[j].permission
           => i = j

(* Admin rights come from admins: whoever made a request is an admin by    *)
(* configuration, or had approved an earlier request that made him one.    *)
AdminsComeFromAdmins ==
    \A i \in DOMAIN requests :
        \/ requests[i].requester \in AdminUserIds
        \/ \E j \in 1..(i - 1) :
              /\ requests[j].target = requests[i].requester
              /\ requests[j].permission = AdminAccess
              /\ requests[j].status = "approved"

(* A decision is final, whichever buttons and commands are used later, and *)
(* requests are never lost or reordered.                                   *)
DecisionIsFinal ==
    [][\A i \in DOMAIN requests :
          /\ i \in DOMAIN requests'
          /\ requests[i].status # "pending" => requests'[i] = requests[i]
      ]_permissionVars

=============================================================================

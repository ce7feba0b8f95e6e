------------------------ MODULE MCPermissionWorkflow ------------------------
(* PermissionWorkflow for TLC: an admin by configuration and two users who *)
(* can become admins by approving a request for AdminAccess.               *)
EXTENDS PermissionWorkflow

CONSTANTS a, u, v, admin, tool  \* model values: users and permissions

MCUsers == {a, u, v}
MCAdmins == {a}
MCPermissions == {admin, tool}

=============================================================================

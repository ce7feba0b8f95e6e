SPECIFICATION PermissionSpec
CONSTANTS
    a = a
    u = u
    v = v
    admin = admin
    tool = tool
    Users <- MCUsers
    AdminUserIds <- MCAdmins
    Permissions <- MCPermissions
    AdminAccess = admin
    MaxRequests = 3
INVARIANT HeldByConsent
INVARIANT PendingMeansLacking
INVARIANT AdminsComeFromAdmins
PROPERTY DecisionIsFinal
CHECK_DEADLOCK FALSE

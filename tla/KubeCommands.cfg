SPECIFICATION LiveSpec
CONSTANTS
    k1 = k1
    sh = sh
    ks = ks
    r1 = r1
    r2 = r2
    Kubeconfigs <- OneKubeconfig
    Shell <- OneShell
    Kshell <- OneKshell
    Reconcile <- TwoReconciles
    UserOf <- MCUserOf
    MaxStores = 2
    MaxCrashes = 1
INVARIANT KubeconfigsSurvive
INVARIANT TempfilesAreOwned
INVARIANT LockedBetween
PROPERTY CommandsEnd
CHECK_DEADLOCK FALSE

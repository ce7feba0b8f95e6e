-------------------------- MODULE MCKubeCommands --------------------------
(* KubeCommands for TLC: one call of /shell and of /kshell, two of         *)
(* /reconcile, and a kubeconfig.                                           *)
EXTENDS KubeCommands

CONSTANTS k1, sh, ks, r1, r2    \* model values

OneKubeconfig == {k1}
OneShell == {sh}
OneKshell == {ks}
TwoReconciles == {r1, r2}
MCUserOf == [j \in OneKshell |-> k1]

=============================================================================

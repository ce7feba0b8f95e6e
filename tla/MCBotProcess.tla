---------------------------- MODULE MCBotProcess ----------------------------
(* BotProcess for TLC: an encrypted and a plain kubeconfig.                *)
EXTENDS BotProcess

CONSTANTS plain, secret    \* model values: the two kubeconfigs

MCClusters == {plain, secret}
MCEncrypted == {secret}

=============================================================================

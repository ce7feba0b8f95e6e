------------------------------ MODULE MCOutbox ------------------------------
(* Outbox for TLC: two uploads of one name, a call of the tool and one of  *)
(* /sendfile.  None is kept at the start: one that comes at once is as old.*)
EXTENDS Outbox

CONSTANTS u1, u2, report, tool, command    \* model values

MCUploads == {u1, u2}
MCEarlier == {}
MCNameOf == [u \in Uploads |-> report]
MCSends == {tool, command}
MCTools == {tool}

=============================================================================

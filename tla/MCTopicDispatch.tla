-------------------------- MODULE MCTopicDispatch --------------------------
(* TopicDispatch for TLC.  With BatchMax = 3 and 4 messages a batch can    *)
(* reach its size cap, be flushed early by its age, and have a successor.  *)
EXTENDS TopicDispatch

=============================================================================

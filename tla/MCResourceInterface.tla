------------------------ MODULE MCResourceInterface ------------------------
(* A small data object: the version wraps around after a few writes, so that *)
(* the run covers the overflow of version_t.                                 *)
EXTENDS ResourceInterface

MCValue == 0 .. 2
MCModify == [v \in MCValue |-> (v + 1) % 3]
MCInitial == 0
=============================================================================

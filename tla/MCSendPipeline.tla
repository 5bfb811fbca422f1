--------------------------- MODULE MCSendPipeline ---------------------------
(* Small instances of SendPipeline: rel relates to msg, dir is a third event. *)
EXTENDS SendPipeline

CONSTANTS msg, rel, dir

NoTarget == [x \in {} |-> msg]
RelatesTo == [x \in {rel} |-> msg]
=============================================================================

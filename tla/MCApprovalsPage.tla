--------------------------- MODULE MCApprovalsPage ---------------------------
(* Instances of ApprovalsPage for TLC: the values of its set-valued constants. *)
EXTENDS ApprovalsPage

CONSTANTS c1

OneConversation == {c1}
OneLog == <<4>>

Decided == {"approval"}
=============================================================================

------------------------------- MODULE Pages -------------------------------
(***************************************************************************)
(* The three pages on one server.  They share nothing but the server, and  *)
(* each is to the others one more client of it, whose steps each page's    *)
(* module allows for; so one of them is open at a time.                    *)
(***************************************************************************)
EXTENDS ChatPage, ApprovalsPage, AdminRunsPage

PagesInit == ChatInit /\ PanelInit /\ DeskInit

ChatRests == page.epoch = 0
PanelRests == ~panel.open
DeskRests == ~desk.open

PagesNext ==
    \/ /\ PanelRests /\ DeskRests
       /\ ChatNext
       /\ UNCHANGED <<panel, watch, call, broken, desk, feed, visit, misses>>
    \/ /\ ChatRests /\ DeskRests
       /\ PanelNext
       /\ UNCHANGED <<page, stream, request, failures, desk, feed, visit, misses>>
    \/ /\ ChatRests /\ PanelRests
       /\ DeskNext
       /\ UNCHANGED <<page, stream, request, failures, panel, watch, call, broken>>

PagesSpec == PagesInit /\ [][PagesNext]_<<chatVars, panelVars, deskVars>>

\* The types of the three pages and their server.
PagesTypeOK == TypeOK /\ PanelTypeOK /\ DeskTypeOK
=============================================================================

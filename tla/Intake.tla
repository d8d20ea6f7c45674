------------------------------- MODULE Intake -------------------------------
(* What a page's messages need: the tab they are stored in (TabLifecycle)  *)
(* and the rows they refer to (SenderRegistry).                            *)
EXTENDS TabLifecycle

CONSTANTS Events, NoParent, MaxRedeliveries
VARIABLES row, handling, arrived, stored, redeliveries

Senders == INSTANCE SenderRegistry WITH Handlers <- Clients, request <- handling
senders == <<row, handling, arrived, stored, redeliveries>>

ASSUME SendersAssumption == Senders!EventAssumption
-----------------------------------------------------------------------------
(* Rows refer to what they name, and a customer is divided only by races   *)
(* (SenderRegistry).                                                       *)
SendersKept == Senders!SendersKept
=============================================================================

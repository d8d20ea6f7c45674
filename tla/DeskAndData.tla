---------------------------- MODULE DeskAndData ----------------------------
(* The two ways a message of a customer is handled: by the hooks and agents *)
(* of its tab (HotQueue), and by the callbacks of the dialogue service that *)
(* bring its data (WorkflowData).                                          *)
EXTENDS HotQueue

CONSTANTS Hooks, Flows, Graph, None, MaxCallbacks, MaxSwitches
VARIABLES row, active, deleted, onDesk, received, posted, hook,
          disturbed, written, raced, callbacks, switches

Data == INSTANCE WorkflowData
data == <<row, active, deleted, onDesk, received, posted, hook,
          disturbed, written, raced, callbacks, switches>>

ASSUME DataAssumption == Data!DrawnAssumption /\ Data!BoundAssumption
-----------------------------------------------------------------------------
(* What the callbacks bring is kept and sent on (WorkflowData).            *)
FieldsReachTheServices == Data!FieldsReachTheServices

(* A callback goes on where its message's hook stopped (WorkflowData).     *)
CallbacksFindTheirRow == Data!CallbacksFindTheirRow
=============================================================================

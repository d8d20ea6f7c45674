------------------------- MODULE AccountsAndLinks -------------------------
(* The two ways an account changes: by the requests of its owner, of       *)
(* employees and of administrators (Accounts), and by the links that are   *)
(* mailed to it (AccountLinks).                                            *)
EXTENDS Accounts

CONSTANTS Users, None, Hour, SignatureLife, MaxTokens, MaxTime, MaxChanges
VARIABLES email, active, deleted, tokens, clock, linkPc, linkJob,
          used, moved, changes

Links == INSTANCE AccountLinks WITH pc <- linkPc, job <- linkJob
links == <<email, active, deleted, tokens, clock, linkPc, linkJob,
           used, moved, changes>>

ASSUME LinkAssumption == Links!LifeAssumption /\ Links!NoneAssumption
-----------------------------------------------------------------------------
(* A link dies with its hour, whatever follows it (AccountLinks).          *)
LinksDie == Links!LinksDie

(* The address of an active account that its owner registered was          *)
(* confirmed by a link sent to it, unless the account changed its address  *)
(* (AccountLinks).                                                         *)
ActiveMeansConfirmed == Links!ActiveMeansConfirmed
=============================================================================

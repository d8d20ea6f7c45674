------------------------------ MODULE Reports ------------------------------
(* The people of a tab: what they read of it (Dashboard), and how they come *)
(* to be its members (TabMembership).                                      *)
EXTENDS Dashboard

CONSTANTS Handlers, Users, NoUser, NoTab, MaxRows, MaxPromotions
VARIABLES userInTab, pc, job, promotions, managed, excused

Members == INSTANCE TabMembership
members == <<userInTab, pc, job, promotions, managed, excused>>

ASSUME MembersAssumption == Members!MemberAssumption
-----------------------------------------------------------------------------
(* A user is on a tab twice only if two assigns raced (TabMembership).     *)
DuplicatesOnlyFromRacingAssigns == Members!DuplicatesOnlyFromRacingAssigns

(* A tab has two managers only from hand-overs that raced (TabMembership). *)
TwoManagersOnlyFromRacingHandOvers == Members!TwoManagersOnlyFromRacingHandOvers

(* A tab that had a manager has one, or a named reason (TabMembership).    *)
VacancyExplained == Members!VacancyExplained
=============================================================================

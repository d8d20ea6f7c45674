------------------------------ MODULE Workers ------------------------------
(* The two workers of the process, each with a queue of its own: the mails *)
(* (EmailQueue) and the files of users (ImportUsers), whose variables of   *)
(* the same name as a mail's are called jobState, jobRuns and ends here.   *)
EXTENDS EmailQueue

CONSTANTS Files, Sheets
VARIABLES sheet, jobState, jobRuns, upload, work, accounts, members,
          reports, ends, broken

Import == INSTANCE ImportUsers WITH
              state <- jobState, runs <- jobRuns, crashes <- ends
imports == <<sheet, jobState, jobRuns, upload, work, accounts, members,
             reports, ends, broken>>

ASSUME SheetsAssumption == Import!ImportAssumption
-----------------------------------------------------------------------------
(* What an uploader is told and what is stored agree (ImportUsers).        *)
ImportsExplained == Import!ImportsExplained

(* The import worker keeps the promise of its queue (ImportUsers).         *)
ImportImplementsQueue == Import!ImplementsQueue

(* Every queued mail and every accepted file is settled in the end.        *)
EveryJobSettles == EveryMailSettles /\ Import!EveryImportSettles
=============================================================================

------------------------------ MODULE MCQueues ------------------------------
(* The two workers, one of which is given work; which one is set at the    *)
(* start, for they share nothing but the queue's promise.                  *)
(*   mails    two mails of four attempts each: three ends of the process   *)
(*            interrupt the repeated run of one and still one of the other *)
(*   imports  two files.  The sheets: a valid row before an invalid one,   *)
(*            one valid row of an uploader without a group, a sheet xlsx   *)
(*            cannot read, a mapping that is no JSON, an administrator's   *)
EXTENDS Workers

CONSTANTS m1, m2, f1, f2
VARIABLE scene

MCMails == {m1, m2}
MCFiles == {f1, f2}
MCSheet(n, v, r, m, g, a) ==
    [size |-> n, valid |-> v, readable |-> r, mapped |-> m, grouped |-> g, admin |-> a]
MCSheets == { MCSheet(2, {1}, TRUE, TRUE, TRUE, FALSE),
              MCSheet(1, {1}, TRUE, TRUE, FALSE, FALSE),
              MCSheet(1, {1}, FALSE, TRUE, TRUE, FALSE),
              MCSheet(1, {1}, TRUE, FALSE, TRUE, FALSE),
              MCSheet(1, {}, TRUE, TRUE, TRUE, TRUE) }

SceneInit ==
    /\ Init /\ Import!Init
    /\ \/ scene = "imports"
       \/ scene = "mails" /\ sheet = [f \in MCFiles |-> MCSheet(1, {}, TRUE, TRUE, TRUE, TRUE)]
SceneNext ==
    /\ \/ scene = "mails" /\ Next /\ UNCHANGED imports
       \/ scene = "imports" /\ Import!Next /\ UNCHANGED vars
    /\ UNCHANGED scene
SceneSpec ==
    /\ SceneInit /\ [][SceneNext]_<<vars, imports, scene>>
    /\ WF_vars(WorkerStep) /\ WF_imports(Import!WorkerStep)
=============================================================================

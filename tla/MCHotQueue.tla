----------------------------- MODULE MCHotQueue -----------------------------
(* Instances of HotQueue and WorkflowData for TLC.                         *)
EXTENDS DeskAndData, TLC

(* Slots are interchangeable: no definition names one of them.             *)
SlotSymmetry == Permutations(Handlers)

(* The scene is set at the start:                                          *)
(*   agents  a single message with agents and pauses                       *)
(*   types   somebody who writes a message and then a comment, both of     *)
(*           which wait for an agent                                       *)
(*   data    (WorkflowData) one message, two callbacks and two changes of  *)
(*           the workflows, one of which asks for the sentiment while the  *)
(*           other answers                                                 *)
CONSTANTS f1, f2
VARIABLE scene

MCGraph == f1 :> [receive |-> "sentiment", sentiment |-> {"reply", "agent", "none"}]
           @@ f2 :> [receive |-> "reply", sentiment |-> {}]

Within ==
    CASE scene = "agents" -> Len(message) <= 1
                             /\ \A i \in 1..Len(message) : message[i].key.type = "Message"
                             /\ \A p \in Handlers : job[p].key.type # "Comment"
      [] scene = "types" -> /\ \A t \in Tabs : ~isWorked[t]
                            /\ \A i \in 1..Len(message) :
                                  /\ message[i].incoming
                                  /\ message[i].key.type = <<"Message", "Comment">>[i]
                            /\ \A e \in 1..Len(hotQueue) : hotQueue[e].userId = NoAgent

SceneInit ==
    /\ Init /\ Data!Init
    /\ \/ scene = "data"
       \/ scene \in {"agents", "types"} /\ active = {} /\ ~onDesk
SceneNext ==
    /\ UNCHANGED scene
    /\ \/ scene # "data" /\ Next /\ Within' /\ UNCHANGED data
       \/ scene = "data" /\ Data!Next /\ UNCHANGED vars
SceneSpec == SceneInit /\ [][SceneNext]_<<vars, data, scene>>
=============================================================================

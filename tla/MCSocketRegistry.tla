-------------------------- MODULE MCSocketRegistry --------------------------
(* Two scenes.  The registry: three sockets of one user, and one of        *)
(* another, every overlap of the handlers that the explanations name needs *)
(* at most three.  A conversation: three messages of two customers, which  *)
(* arrive before, between and after the pages that a reader asks for.      *)
EXTENDS Inbox, TLC

CONSTANTS alice, bob, s1, s2, s3, b1,
          ann, joe, p1, p2

VARIABLE scene

MCUsers == {alice, bob}
MCSockets == {s1, s2, s3, b1}
MCOwner == [s \in MCSockets |-> IF s = b1 THEN bob ELSE alice]
MCPeople == {ann, joe}
MCPageRows == {p1, p2}
MCTimes == 1..3
MCSymmetry == UNION {Permutations({s1, s2, s3}), Permutations({ann, joe}),
                     Permutations({p1, p2})}

SceneInit == /\ Init /\ Tab!Init
             /\ scene \in {"registry", "conversation"}
             /\ scene = "registry" => pageRow = {p1, p2}
SceneNext == /\ \/ scene = "registry" /\ Registry!Next /\ UNCHANGED <<conversation, delivery>>
                \/ scene = "conversation" /\ Tab!Next /\ UNCHANGED vars
             /\ UNCHANGED scene
SceneSpec == SceneInit /\ [][SceneNext]_<<vars, conversation, scene>>
=============================================================================

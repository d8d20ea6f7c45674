-------------------------- MODULE MCAccountLinks --------------------------
(* Two accounts that may get each other's address, and one link, followed  *)
(* by two requests at a time, alive for a while and then dead of its age.  *)
(* The requests of Accounts rest.                                          *)
EXTENDS AccountsAndLinks, TLC

CONSTANTS h1, h2, u1, u2, ann, bob

MCHandlers == {h1, h2}
MCUsers == {u1, u2}
MCEmails == {ann, bob}
MCLower == [e \in Emails |-> e]
MCSymmetry == Permutations(Handlers) \union Permutations(Users) \union Permutations(Emails)

LinksInit == Init /\ Links!Init
LinksNext == Links!Next /\ UNCHANGED vars
LinksSpec == LinksInit /\ [][LinksNext]_<<vars, links>>
=============================================================================

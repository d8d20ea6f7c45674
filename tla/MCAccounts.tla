---------------------------- MODULE MCAccounts ----------------------------
(* Two requests in flight over an administrator, an owner and the accounts *)
(* they make; one address has a spelling of its own in lower case.         *)
EXTENDS Accounts, TLC

CONSTANTS h1, h2, ann, bob, Bob

MCHandlers == {h1, h2}
MCEmails == {ann, bob, Bob}
MCLower == [e \in Emails |-> IF e = Bob THEN bob ELSE e]
MCKinds == {"register", "employee", "admin", "import", "edit", "account",
            "remove", "activate", "deactivate", "login"}
MCSymmetry == Permutations(Handlers)

(* The scene is set at the start: every kind of request around one account *)
(* that is made or gets a new address; an import that makes it, of rows    *)
(* with one address, and what happens to such an account meanwhile; or two *)
(* writes of addresses, which race, and only what writes addresses.  What  *)
(* the spelling of an address does is left to the last one.                *)
VARIABLE scene

OneWrite == Len(users) <= 3 /\ writes <= 3

Within ==
    CASE scene = "members" ->
             /\ OneWrite
             /\ \A p \in Handlers :
                    /\ job[p].op # "import"
                    /\ job[p].op \in {"employee", "admin", "edit", "account"}
                           => job[p].email # Bob
      [] scene = "import" ->
             /\ OneWrite
             /\ \A p \in Handlers :
                    /\ job[p].op \notin {"register", "employee", "admin"}
                    /\ job[p].op = "import" => job[p].email \in {NoEmail, ann}
                    /\ job[p].op \in {"edit", "account"} => job[p].email # Bob
      [] scene = "addresses" ->
             /\ \A p \in Handlers :
                    /\ job[p].op \in {"none", "register", "employee", "import",
                                      "edit", "account"}
                    /\ job[p].by # 1
             /\ torn = {}

SceneInit == Init /\ scene \in {"members", "import", "addresses"}
SceneNext == Next /\ UNCHANGED scene /\ Within'
SceneSpec == SceneInit /\ [][SceneNext]_<<vars, scene>>
=============================================================================

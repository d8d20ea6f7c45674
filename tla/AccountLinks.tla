---------------------------- MODULE AccountLinks ----------------------------
(***************************************************************************)
(* The links that are mailed: confirmation of an address and recovery of a *)
(* password.  A link names a Token row, which holds a signed payload: the  *)
(* address to confirm, or the id of the account to recover.  Nothing marks *)
(* a row as used; it dies of age, twice: an hour after its row was made    *)
(* (validateToken) and with the signature (TOKEN_EXPIRATION_TIME).         *)
(*                                                                         *)
(* email, active, deleted   the fields of the User rows                    *)
(* tokens    the Token rows (a row's id is its position)                   *)
(* clock     the time                                                      *)
(* pc, job   the requests in flight (slots of Handlers)                    *)
(*                                                                         *)
(* used (which links took effect on which account, and whether their       *)
(* request came too late), moved (accounts that changed their address) and *)
(* the job field started are history.                                      *)
(***************************************************************************)
EXTENDS Naturals, Sequences

CONSTANTS Handlers, Users, Emails, None,
          Hour, SignatureLife,     \* the two life times of a link
          MaxTokens, MaxTime, MaxChanges   \* bounds

LifeAssumption == Hour \in Nat /\ SignatureLife \in Nat
NoneAssumption == None \notin Users \union Emails

VARIABLES email, active, deleted, tokens, clock, pc, job,
          used, moved, changes

account == <<email, active, deleted>>
history == <<used, moved, changes>>
vars == <<account, tokens, clock, pc, job, history>>

TokenIds == 1..Len(tokens)
Steps == {"idle", "account", "address", "token", "queue",
          "validate", "decode", "lookup", "activate", "reset"}

Locals(kind, user, mail, link) ==
    [kind |-> kind, user |-> user, mail |-> mail, link |-> link,
     started |-> IF link = 0 THEN 0 ELSE clock]
NoJob == [kind |-> "none", user |-> None, mail |-> None, link |-> 0, started |-> 0]

(* Accounts that have registered and wait for their link to be sent.       *)
Init ==
    /\ email \in [Users -> Emails]
    /\ active = [u \in Users |-> FALSE]
    /\ deleted = [u \in Users |-> FALSE]
    /\ tokens = <<>>
    /\ clock = 0
    /\ pc = [p \in Handlers |-> "idle"]
    /\ job = [p \in Handlers |-> NoJob]
    /\ used = {} /\ moved = {} /\ changes = 0

Tick == clock < MaxTime /\ clock' = clock + 1
        /\ UNCHANGED <<account, tokens, pc, job, history>>

Begin(p, step, j) ==
    /\ pc[p] = "idle"
    /\ pc' = [pc EXCEPT ![p] = step]
    /\ job' = [job EXCEPT ![p] = j]
    /\ UNCHANGED <<account, tokens, clock, history>>
Goto(p, step) == pc' = [pc EXCEPT ![p] = step]
Leave(p) ==
    /\ pc' = [pc EXCEPT ![p] = "idle"]
    /\ job' = [job EXCEPT ![p] = NoJob]
-----------------------------------------------------------------------------
(* Sending a link: a registration's, one sent again, one to recover.       *)

Addressees(e) == {u \in Users : email[u] = e /\ ~deleted[u]}

ResendConfirmationLink(p) == \E u \in Users : Begin(p, "account", Locals("confirm", u, None, 0))
ForgotPassword(p) == \E e \in Emails : Begin(p, "address", Locals("recover", None, e, 0))

(* resendConfirmationLink finds the account, and that it waits.            *)
GetUserById(p) ==
    /\ pc[p] = "account" /\ ~active[job[p].user]
    /\ job' = [job EXCEPT ![p].mail = email[job[p].user]]
    /\ Goto(p, "token")
    /\ UNCHANGED <<account, tokens, clock, history>>

(* forgotPassword finds an account of the address.                         *)
FindAddressee(p) ==
    /\ pc[p] = "address"
    /\ \E u \in Addressees(job[p].mail) : job' = [job EXCEPT ![p].user = u]
    /\ Goto(p, "token")
    /\ UNCHANGED <<account, tokens, clock, history>>

(* A link to confirm says the address, one to recover says the account.    *)
CreateToken(p) ==
    /\ pc[p] = "token" /\ Len(tokens) < MaxTokens
    /\ tokens' = Append(tokens,
           [kind |-> job[p].kind, mailed |-> FALSE, born |-> clock,
            subject |-> IF job[p].kind = "confirm" THEN job[p].mail ELSE job[p].user])
    /\ job' = [job EXCEPT ![p].link = Len(tokens) + 1]
    /\ Goto(p, "queue")
    /\ UNCHANGED <<account, clock, history>>

AddEmailToQueue(p) ==
    /\ pc[p] = "queue"
    /\ tokens' = [tokens EXCEPT ![job[p].link].mailed = TRUE]
    /\ Leave(p)
    /\ UNCHANGED <<account, clock, history>>
-----------------------------------------------------------------------------
(* Following a link.  Either endpoint refuses the other's payload when it  *)
(* has decoded it.                                                         *)

Known == {t \in TokenIds : tokens[t].mailed}

ConfirmEmail(p) == \E t \in Known : Begin(p, "validate", Locals("confirm", None, None, t))
ResetPassword(p) == \E t \in Known : Begin(p, "validate", Locals("recover", None, None, t))

(* Mutant: the hour is added to the present instead of the creation.       *)
ValidateTokenShifted(p) ==
    /\ pc[p] = "validate"
    /\ clock + Hour >= tokens[job[p].link].born
    /\ Goto(p, "decode")
    /\ UNCHANGED <<account, tokens, clock, job, history>>

ValidateToken(p) ==
    /\ pc[p] = "validate"
    /\ tokens[job[p].link].born + Hour >= clock
    /\ Goto(p, "decode")
    /\ UNCHANGED <<account, tokens, clock, job, history>>

Signed(t, kind) ==
    clock < tokens[t].born + SignatureLife /\ tokens[t].kind = kind

(* The signature is verified and the address taken.                        *)
DecodeToken(p) ==
    /\ pc[p] = "decode" /\ job[p].kind = "confirm" /\ Signed(job[p].link, job[p].kind)
    /\ job' = [job EXCEPT ![p].mail = tokens[job[p].link].subject]
    /\ Goto(p, "lookup")
    /\ UNCHANGED <<account, tokens, clock, history>>

(* The signature is verified and the account's id taken.                   *)
DecodeResetToken(p) ==
    /\ pc[p] = "decode" /\ job[p].kind = "recover" /\ Signed(job[p].link, job[p].kind)
    /\ job' = [job EXCEPT ![p].user = tokens[job[p].link].subject]
    /\ Goto(p, "reset")
    /\ UNCHANGED <<account, tokens, clock, history>>

(* Mutant: any account that waits for confirmation is taken.               *)
FindConfirmedAny(p) ==
    /\ pc[p] = "lookup"
    /\ \E u \in Users : ~active[u] /\ job' = [job EXCEPT ![p].user = u]
    /\ Goto(p, "activate")
    /\ UNCHANGED <<account, tokens, clock, history>>

(* confirmEmail: some account that has the address now, and is inactive.   *)
FindConfirmed(p) ==
    /\ pc[p] = "lookup"
    /\ \E u \in Addressees(job[p].mail) : ~active[u] /\ job' = [job EXCEPT ![p].user = u]
    /\ Goto(p, "activate")
    /\ UNCHANGED <<account, tokens, clock, history>>

Dead(t, time) == \/ time > tokens[t].born + Hour
                 \/ time >= tokens[t].born + SignatureLife
Took(p) == [link |-> job[p].link, user |-> job[p].user,
            late |-> Dead(job[p].link, job[p].started)]

ActiveAccount(p) ==
    /\ pc[p] = "activate"
    /\ active' = [active EXCEPT ![job[p].user] = TRUE]
    /\ used' = used \union {Took(p)}
    /\ Leave(p)
    /\ UNCHANGED <<email, deleted, tokens, clock, moved, changes>>

WriteReset(p) ==
    /\ pc[p] = "reset"
    /\ used' = used \union {Took(p)}
    /\ Leave(p)
    /\ UNCHANGED <<account, tokens, clock, moved, changes>>
-----------------------------------------------------------------------------
(* What happens to the accounts meanwhile.                                 *)

(* The address changes, the account stays as active as it was.             *)
UpdateAccount(u, e) ==
    /\ e # email[u] /\ changes < MaxChanges
    /\ email' = [email EXCEPT ![u] = e]
    /\ moved' = moved \union {u}
    /\ changes' = changes + 1
    /\ UNCHANGED <<active, deleted, tokens, clock, pc, job, used>>

RemoveAccount(u) ==
    /\ ~deleted[u]
    /\ deleted' = [deleted EXCEPT ![u] = TRUE]
    /\ UNCHANGED <<email, active, tokens, clock, pc, job, history>>

(* A check or a query fails; a row written stays, an unsent link is lost.  *)
Fail(p) ==
    /\ pc[p] # "idle"
    /\ Leave(p)
    /\ UNCHANGED <<account, tokens, clock, history>>

Next ==
    \/ Tick
    \/ \E u \in Users : RemoveAccount(u) \/ \E e \in Emails : UpdateAccount(u, e)
    \/ \E p \in Handlers :
          \/ ResendConfirmationLink(p) \/ ForgotPassword(p)
          \/ GetUserById(p) \/ FindAddressee(p) \/ CreateToken(p) \/ AddEmailToQueue(p)
          \/ ConfirmEmail(p) \/ ResetPassword(p)
          \/ ValidateToken(p) \/ DecodeToken(p) \/ DecodeResetToken(p) \/ FindConfirmed(p)
          \/ ActiveAccount(p) \/ WriteReset(p) \/ Fail(p)

Spec == Init /\ [][Next]_vars
-----------------------------------------------------------------------------
Token == [kind : {"confirm", "recover"}, mailed : BOOLEAN, born : 0..clock,
          subject : Users \union Emails]

JobRow == [kind : {"none", "confirm", "recover"}, user : Users \union {None},
           mail : Emails \union {None}, link : {0} \union TokenIds, started : 0..clock]

TypeOK ==
    /\ email \in [Users -> Emails]
    /\ active \in [Users -> BOOLEAN] /\ deleted \in [Users -> BOOLEAN]
    /\ tokens \in Seq(Token)
    /\ clock \in Nat
    /\ pc \in [Handlers -> Steps]
    /\ job \in [Handlers -> JobRow]
    /\ moved \subseteq Users /\ changes \in Nat

(* A link that was sent has no effect through a request that comes more    *)
(* than an hour after it, or after the end of its signature, however often *)
(* it was used before and however slow the request is.                     *)
ExpiredLinksAreDead == \A r \in used : ~r.late

(* The address of an active account that its owner registered has been     *)
(* confirmed by a link sent to it, unless the account changed its address, *)
(* which asks for no confirmation.  Employees' accounts (createEmployee)   *)
(* and the administrator's are made active and not among Users.            *)
ActiveMeansConfirmed ==
    \A u \in Users : active[u] /\ u \notin moved =>
        \E r \in used : r.user = u /\ tokens[r.link].subject = email[u]

(* A link dies with its hour, whatever follows it.                         *)
LinksDie == TypeOK /\ ExpiredLinksAreDead
-----------------------------------------------------------------------------
(* What the steps rely on (AccountsProofs).                                *)

(* A link to confirm says an address, one to recover an account.           *)
TokensOK ==
    \A t \in TokenIds :
        /\ tokens[t].kind = "confirm" => tokens[t].subject \in Emails
        /\ tokens[t].kind = "recover" => tokens[t].subject \in Users

Followed == {"validate", "decode", "lookup", "activate", "reset"}

(* What a request knows at step s, with the local variables j: whoever has *)
(* passed validateToken began within the link's hour, and whoever has      *)
(* decoded it, within the life of its signature.                           *)
RequestOK(s, j) ==
    /\ s = "account" => j.kind = "confirm" /\ j.user \in Users
    /\ s = "address" => j.kind = "recover" /\ j.mail \in Emails
    /\ s = "token" => \/ j.kind = "confirm" /\ j.mail \in Emails
                      \/ j.kind = "recover" /\ j.user \in Users
    /\ s \in {"queue"} \union Followed => j.link \in TokenIds
    /\ s \in Followed \ {"validate"} => j.started <= tokens[j.link].born + Hour
    /\ s \in {"lookup", "activate", "reset"}
          => j.started < tokens[j.link].born + SignatureLife
    /\ s \in {"lookup", "activate"}
          => tokens[j.link].kind = "confirm" /\ j.mail = tokens[j.link].subject
    /\ s \in {"activate", "reset"} => j.user \in Users
    /\ s = "activate" => j.user \in moved \/ email[j.user] = j.mail

RequestsOK == \A p \in Handlers : RequestOK(pc[p], job[p])

UsedOK == \A r \in used : r.link \in TokenIds /\ r.user \in Users

(* The inductive invariant.                                                *)
IInv == TypeOK /\ TokensOK /\ RequestsOK /\ UsedOK /\ ExpiredLinksAreDead
        /\ ActiveMeansConfirmed
=============================================================================

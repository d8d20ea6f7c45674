--------------------------- MODULE SocketRegistry ---------------------------
(***************************************************************************)
(* Which socket a user's notifications are pushed to.                      *)
(*                                                                         *)
(* A browser opens a socket with a token; handleConnection then creates    *)
(* the user's SocketConnection row, handleDisconnect deletes it.  userId   *)
(* is the row's primary key, so there is at most one row per user, and it  *)
(* names one socket.  Both handlers await several queries and nobody       *)
(* awaits them: socket.io may report a disconnect while the connect is     *)
(* still running.                                                          *)
(*                                                                         *)
(* connection  the SocketConnection rows                                   *)
(* link        the client's end of each socket                             *)
(* joining     where handleConnection is for each socket                   *)
(* leaving     where handleDisconnect is for each socket                   *)
(* ending, evictor are history: how the socket's session ended, and the    *)
(* socket whose handler deleted its row.  No guard reads them.             *)
(***************************************************************************)
CONSTANTS Users,     \* User rows
          Sockets,   \* socket ids; a reconnecting client gets a new one
          Owner,     \* the user whose token a socket carries
          NoSocket   \* no row

OwnerAssumption == Owner \in [Sockets -> Users]
NoSocketAssumption == NoSocket \notin Sockets

VARIABLES connection, link, joining, leaving, ending, evictor

vars == <<connection, link, joining, leaving, ending, evictor>>

Links == {"new", "open", "closed"}
Joins == {"none", "create", "accepted", "refused"}
Leaves == {"none", "find", "delete", "done"}
Endings == {"none", "clean", "early", "expired", "failed", "crash"}

Init ==
    /\ connection = [u \in Users |-> NoSocket]
    /\ link = [s \in Sockets |-> "new"]
    /\ joining = [s \in Sockets |-> "none"]
    /\ leaving = [s \in Sockets |-> "none"]
    /\ ending = [s \in Sockets |-> "none"]
    /\ evictor = [s \in Sockets |-> NoSocket]
-----------------------------------------------------------------------------
(* handleConnection: verify the token, join the rooms of the user's tabs,  *)
(* create the row.                                                         *)

Open(s) ==
    /\ link[s] = "new"
    /\ link' = [link EXCEPT ![s] = "open"]
    /\ joining' = [joining EXCEPT ![s] = "create"]
    /\ UNCHANGED <<connection, leaving, ending, evictor>>

(* 'Invalid credentials': the server closes the socket, and neither        *)
(* handler touches the rows.                                               *)
Reject(s) ==
    /\ link[s] = "new"
    /\ link' = [link EXCEPT ![s] = "closed"]
    /\ UNCHANGED <<connection, joining, leaving, ending, evictor>>

(* Mutant: the connect replaces the row instead of creating one.           *)
RegisterOver(s) ==
    /\ joining[s] = "create"
    /\ connection' = [connection EXCEPT ![Owner[s]] = s]
    /\ joining' = [joining EXCEPT ![s] = "accepted"]
    /\ UNCHANGED <<link, leaving, ending, evictor>>

Register(s) ==
    /\ joining[s] = "create"
    /\ connection[Owner[s]] = NoSocket
    /\ connection' = [connection EXCEPT ![Owner[s]] = s]
    /\ joining' = [joining EXCEPT ![s] = "accepted"]
    /\ UNCHANGED <<link, leaving, ending, evictor>>

(* The user has a row already, or a query was rejected: the handler's      *)
(* promise is rejected and nobody looks.  The socket stays open without    *)
(* a row (or the process ends with it: Crash).                             *)
Refuse(s) ==
    /\ joining[s] = "create"
    /\ joining' = [joining EXCEPT ![s] = "refused"]
    /\ UNCHANGED <<connection, link, leaving, ending, evictor>>
-----------------------------------------------------------------------------
(* handleDisconnect verifies the token again: one that expired during the  *)
(* session makes it return without looking for the row.                    *)

Close(s) ==
    /\ link[s] = "open"
    /\ link' = [link EXCEPT ![s] = "closed"]
    /\ \E expired \in BOOLEAN :
          /\ leaving' = [leaving EXCEPT ![s] = IF expired THEN "done" ELSE "find"]
          /\ ending' = [ending EXCEPT ![s] =
                 IF expired THEN "expired"
                 ELSE IF joining[s] = "create" THEN "early" ELSE "clean"]
    /\ UNCHANGED <<connection, joining, evictor>>

FindConnection(s) ==
    /\ leaving[s] = "find"
    /\ leaving' = [leaving EXCEPT ![s] =
           IF connection[Owner[s]] = NoSocket THEN "done" ELSE "delete"]
    /\ UNCHANGED <<connection, link, joining, ending, evictor>>

(* Mutant: the row is looked up but kept.                                  *)
KeepConnection(s) ==
    /\ leaving[s] = "delete"
    /\ leaving' = [leaving EXCEPT ![s] = "done"]
    /\ UNCHANGED <<connection, link, joining, ending, evictor>>

(* The delete is by user: it takes the row whichever socket it names.      *)
(* Without a row the delete is rejected, with the same outcome.            *)
DeleteConnection(s) ==
    /\ leaving[s] = "delete"
    /\ leaving' = [leaving EXCEPT ![s] = "done"]
    /\ connection' = [connection EXCEPT ![Owner[s]] = NoSocket]
    /\ evictor' = [t \in Sockets |->
           IF connection[Owner[s]] = t THEN s ELSE evictor[t]]
    /\ UNCHANGED <<link, joining, ending>>

(* A query of the handler is rejected: the row stays.                      *)
LeaveFails(s) ==
    /\ leaving[s] \in {"find", "delete"}
    /\ leaving' = [leaving EXCEPT ![s] = "done"]
    /\ ending' = [ending EXCEPT ![s] = "failed"]
    /\ UNCHANGED <<connection, link, joining, evictor>>
-----------------------------------------------------------------------------
(* The process ends: every socket is closed and no handler runs on.  The   *)
(* rows stay, and nothing at startup clears them.                          *)
Crash ==
    /\ link' = [s \in Sockets |-> IF link[s] = "open" THEN "closed" ELSE link[s]]
    /\ joining' = [s \in Sockets |->
           IF joining[s] = "create" THEN "refused" ELSE joining[s]]
    /\ leaving' = [s \in Sockets |->
           IF link[s] = "open" \/ leaving[s] \in {"find", "delete"}
           THEN "done" ELSE leaving[s]]
    /\ ending' = [s \in Sockets |->
           IF link[s] = "open" \/ leaving[s] \in {"find", "delete"}
           THEN "crash" ELSE ending[s]]
    /\ UNCHANGED <<connection, evictor>>

Handle(s) ==
    \/ Register(s) \/ Refuse(s)
    \/ FindConnection(s) \/ DeleteConnection(s) \/ LeaveFails(s)

(* Everything but the loss of the process.                                 *)
Serve == \E s \in Sockets : Open(s) \/ Reject(s) \/ Close(s) \/ Handle(s)

Next == Serve \/ Crash

Spec == Init /\ [][Next]_vars
-----------------------------------------------------------------------------
TypeOK ==
    /\ connection \in [Users -> Sockets \union {NoSocket}]
    /\ link \in [Sockets -> Links]
    /\ joining \in [Sockets -> Joins]
    /\ leaving \in [Sockets -> Leaves]
    /\ ending \in [Sockets -> Endings]
    /\ evictor \in [Sockets -> Sockets \union {NoSocket}]

Leaving(s) == leaving[s] \in {"find", "delete"}
Evicted(s) == evictor[s] \notin {NoSocket, s}

(* A row that names a closed socket whose disconnect is over, and that     *)
(* keeps the user from registering again, is left by one of four things: a *)
(* socket closed while its connect was running, a token that expired       *)
(* during the session, a rejected query, or a crash (handleDisconnect).    *)
DeadRegistrationExplained ==
    \A s \in Sockets :
        /\ connection[Owner[s]] = s
        /\ link[s] = "closed"
        /\ ~Leaving(s)
        => ending[s] \in {"early", "expired", "failed", "crash"}

(* A socket that was registered and is still open is the one its user's    *)
(* notifications go to, unless another socket's disconnect took its row.   *)
ReachableUnlessEvicted ==
    \A s \in Sockets :
        link[s] = "open" /\ joining[s] = "accepted"
            => connection[Owner[s]] = s \/ Evicted(s)

(* A disconnect takes another socket's row only if its own was never       *)
(* created (refused), was still to be created at the close (early), or was *)
(* itself taken by a third disconnect: one device at a time, with the handlers of *)
(* the previous session over, always keeps its registration.               *)
EvictionExplained ==
    \A s, t \in Sockets :
        evictor[s] = t /\ t # s
            => joining[t] = "refused" \/ ending[t] = "early" \/ Evicted(t)
(* A session loses its registration to no one but a sibling whose own went *)
(* wrong.                                                                  *)
RegistrationsKept == ReachableUnlessEvicted /\ EvictionExplained
-----------------------------------------------------------------------------
(* The inductive invariant behind the three.                               *)

(* A row names a socket of its user.                                       *)
RowsNamed ==
    \A u \in Users : connection[u] # NoSocket => Owner[connection[u]] = u

(* How far a socket and its two handlers can have come.                    *)
SessionOK(s) ==
    /\ link[s] = "new" =>
          joining[s] = "none" /\ leaving[s] = "none" /\ ending[s] = "none"
    /\ link[s] = "open" => joining[s] # "none" /\ leaving[s] = "none"
    /\ leaving[s] # "none" => link[s] = "closed" /\ joining[s] # "none"
    /\ Leaving(s) => /\ ending[s] \in {"clean", "early"}
                     /\ joining[s] = "create" => ending[s] = "early"
    /\ ending[s] = "clean" => joining[s] # "create"
    /\ ending[s] = "none" => link[s] # "closed" \/ joining[s] = "none"

(* A row is made by its socket's connect, once; then it is there or has    *)
(* been taken.                                                             *)
RowOK(s) ==
    /\ connection[Owner[s]] = s => joining[s] = "accepted"
    /\ joining[s] = "accepted" =>
          connection[Owner[s]] = s \/ evictor[s] # NoSocket
    /\ evictor[s] # NoSocket =>
          joining[s] = "accepted" /\ connection[Owner[s]] # s
    /\ evictor[s] # NoSocket => leaving[evictor[s]] = "done"

IInv ==
    /\ TypeOK
    /\ RowsNamed
    /\ \A s \in Sockets : SessionOK(s) /\ RowOK(s)
    /\ DeadRegistrationExplained
    /\ EvictionExplained
=============================================================================

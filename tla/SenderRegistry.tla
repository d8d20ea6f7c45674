--------------------------- MODULE SenderRegistry ---------------------------
(***************************************************************************)
(* The rows a message refers to: message/save and socialmessage/save look  *)
(* up a sender, a recipient or a post by its Facebook id and create the    *)
(* row that is missing.  Neither table has a unique index.                 *)
(*                                                                         *)
(* A private message needs its sender and its recipient, a comment its     *)
(* post and its sender; a comment may answer another one.  What follows    *)
(* the row (hook, hot queue, sentiment) is HotQueue's.  An event that is   *)
(* delivered again is handled and stored again: nobody asks whether it is  *)
(* there, and messageId has no unique index either.                        *)
(*                                                                         *)
(* row      the SocialSender and SocialPost rows, each with its key        *)
(* request  what each handler does next                                    *)
(* arrived  events whose handler has begun; redeliveries counts those that *)
(*          came again, for the bound                                      *)
(* stored   the rows of Message and SocialMessage, each with the rows it   *)
(*          refers to                                                      *)
(***************************************************************************)
EXTENDS Naturals, Sequences, FiniteSets

CONSTANTS Handlers,     \* bound: handlers at a time
          Events,       \* what Facebook sends: id, the two keys, and parent
          NoParent,
          MaxRedeliveries  \* bound: deliveries of what has arrived before

(* Assumed of the events: Facebook names each with an id of its own.       *)
EventAssumption ==
    /\ IsFiniteSet(Events) /\ IsFiniteSet(Handlers)
    /\ \A e \in Events : /\ DOMAIN e = {"id", "needs", "parent"} /\ Len(e.needs) = 2
                         /\ e.id # NoParent
    /\ \A e, f \in Events : e.id = f.id => e = f

VARIABLES row, request, arrived, stored, redeliveries

vars == <<row, request, arrived, stored, redeliveries>>

KeysNeeded == UNION {{e.needs[1], e.needs[2]} : e \in Events}
Rows == 1..(Cardinality(KeysNeeded) * Cardinality(Handlers))
Idle == [pc |-> "idle"]

Init ==
    /\ row = <<>>
    /\ request = [h \in Handlers |-> Idle]
    /\ arrived = {} /\ stored = {} /\ redeliveries = 0

Goto(h, r) == request' = [request EXCEPT ![h] = r]
-----------------------------------------------------------------------------
Arrive(h, e) ==
    /\ request[h] = Idle
    /\ IF e \in arrived
       THEN redeliveries < MaxRedeliveries /\ redeliveries' = redeliveries + 1
       ELSE UNCHANGED redeliveries
    /\ arrived' = arrived \union {e}
    /\ Goto(h, [pc |-> "find", event |-> e, refs |-> <<>>])
    /\ UNCHANGED <<row, stored>>

Key(h) == request[h].event.needs[Len(request[h].refs) + 1]

Referring(r, i) ==
    [r EXCEPT !.pc = IF Len(r.refs) = 1 THEN "save" ELSE "find", !.refs = Append(@, i)]

(* Mutant: the lookup finds nothing.                                       *)
FindNothing(h) ==
    /\ request[h].pc = "find"
    /\ Goto(h, [request[h] EXCEPT !.pc = "create"])
    /\ UNCHANGED <<row, arrived, stored, redeliveries>>

(* findSender or findPost: any of the rows with the key.                   *)
Find(h) ==
    /\ request[h].pc = "find"
    /\ LET found == {i \in DOMAIN row : row[i] = Key(h)}
       IN  \/ \E i \in found : Goto(h, Referring(request[h], i))
           \/ found = {} /\ Goto(h, [request[h] EXCEPT !.pc = "create"])
    /\ UNCHANGED <<row, arrived, stored, redeliveries>>

(* createSender or savePost, whoever created it in the meantime.           *)
Create(h) ==
    /\ request[h].pc = "create"
    /\ row' = Append(row, Key(h))
    /\ Goto(h, Referring(request[h], Len(row) + 1))
    /\ UNCHANGED <<arrived, stored, redeliveries>>

(* remakeMessageData: a top-level comment hangs on the row of its post, an *)
(* answer on the Facebook id of the comment it answers.                    *)
Parent(e, refs) == IF e.parent = NoParent THEN refs[1] ELSE e.parent

Save(h) ==
    /\ request[h].pc = "save"
    /\ LET e == request[h].event
       IN  stored' = stored \union
               {[event |-> e, refs |-> request[h].refs, parentId |-> Parent(e, request[h].refs)]}
    /\ Goto(h, Idle)
    /\ UNCHANGED <<row, arrived, redeliveries>>

(* A query is rejected: rows created so far stay.                          *)
Fails(h) ==
    /\ request[h].pc \in {"find", "create", "save"}
    /\ Goto(h, Idle)
    /\ UNCHANGED <<row, arrived, stored, redeliveries>>

(* Facebook may have nothing to send.                                      *)
Rest ==
    /\ \A h \in Handlers : request[h] = Idle
    /\ UNCHANGED vars

Next ==
    \/ \E h \in Handlers :
           \/ \E e \in Events : Arrive(h, e)
           \/ Find(h) \/ Create(h) \/ Save(h) \/ Fails(h)
    \/ Rest

Spec == Init /\ [][Next]_vars
-----------------------------------------------------------------------------
Requests ==
    {Idle} \union [pc : {"find"}, event : Events, refs : {<<>>} \union {<<i>> : i \in Rows}]
           \union [pc : {"create"}, event : Events, refs : {<<>>} \union {<<i>> : i \in Rows}]
           \union [pc : {"save"}, event : Events, refs : Rows \X Rows]

TypeOK ==
    /\ row \in Seq(KeysNeeded)
    /\ request \in [Handlers -> Requests]
    /\ arrived \subseteq Events /\ redeliveries \in Nat
    /\ \A s \in stored :
           /\ s.event \in arrived
           /\ \A n \in 1..2 : row[s.refs[n]] = s.event.needs[n]

(* A key gets more than one row only from handlers that looked it up       *)
(* before any of them had created it: however many messages follow, a      *)
(* sender or a post is never divided further.                              *)
RowsPerKeyBounded ==
    \A k \in KeysNeeded : Cardinality({i \in DOMAIN row : row[i] = k}) <= Cardinality(Handlers)

(* getRootMessage: a row of the comment that this one answers, or itself.  *)
GetRootMessage(s) ==
    LET roots == {r \in stored : r.event.id = s.parentId}
    IN  IF roots = {} THEN {s} ELSE roots

(* An answer leads to a row of the comment it answers as soon as both are  *)
(* stored, in whichever order they arrived and however often they or their *)
(* post have a row; and it never leads to another comment.                 *)
AnswersFindTheirComment ==
    \A s, r \in stored : s.event.parent = r.event.id =>
        r \in GetRootMessage(s) /\ \A q \in GetRootMessage(s) : q.event = r.event

(* Rows refer to what they name, and a customer is divided only by races.  *)
SendersKept == TypeOK /\ RowsPerKeyBounded /\ AnswersFindTheirComment
-----------------------------------------------------------------------------
(* The inductive invariant behind SendersKept.                             *)

(* What a request has looked up and created names what its event needs.    *)
RequestOK(h) ==
    LET r == request[h]
    IN  r # Idle =>
            /\ r.event \in arrived
            /\ \A n \in 1..Len(r.refs) :
                  r.refs[n] \in DOMAIN row /\ row[r.refs[n]] = r.event.needs[n]

StoredOK ==
    \A s \in stored :
        /\ s.refs \in Rows \X Rows /\ s.parentId = Parent(s.event, s.refs)
        /\ \A n \in 1..2 : s.refs[n] \in DOMAIN row

(* Somebody made each row, and nobody makes a second one of the same key:  *)
(* the first is found by then.                                             *)
MadeBy(f) ==
    /\ \A i, j \in DOMAIN row : row[i] = row[j] /\ f[i] = f[j] => i = j
    /\ \A h \in Handlers : request[h].pc = "create" =>
          \A i \in DOMAIN row : row[i] = Key(h) => f[i] # h
RowsMade == \E f \in [DOMAIN row -> Handlers] : MadeBy(f)

IInv == TypeOK /\ (\A h \in Handlers : RequestOK(h)) /\ StoredOK /\ RowsMade
=============================================================================

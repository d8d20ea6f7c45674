--------------------------- MODULE Conversations ---------------------------
(***************************************************************************)
(* Reading a tab's private messages while they arrive: the list of its     *)
(* conversations and the pages of one of them, newest first.               *)
(*                                                                         *)
(* createMessage stores a row and then emits it to the tab's room.  A      *)
(* request for a page is three queries: the page's sender row, the slice   *)
(* and the count.  The reader scrolls: it asks for page after page of one  *)
(* size, and gives as offset how many messages of the conversation it was  *)
(* sent since the first page.                                              *)
(*                                                                         *)
(* message   the Message rows, in the order they were stored: the sender's *)
(*           and the recipient's row and createdAt, which Facebook gives   *)
(* pageRow   the SocialSender rows of the tab's page: two where its first  *)
(*           messages overlapped                                           *)
(* unsent    rows that are not emitted yet                                 *)
(* reader    the conversation being read, the request and what was shown   *)
(*                                                                         *)
(* The reader's fields base (rows there were at the first page) and missed *)
(* (a slice was cut while a newer row was not in the offset) are history.  *)
(***************************************************************************)
EXTENDS SequencesExt, Naturals

CONSTANTS People,       \* SocialSender rows of customers
          PageRows,     \* rows that the page may have
          Times,        \* values of createdAt
          Size,         \* page.size
          MaxMessages,  \* bound
          MaxUnsent     \* bound: rows whose handlers are in progress

ConversationAssumption ==
    /\ Size \in Nat \ {0} /\ MaxMessages \in Nat /\ Times \subseteq Nat
    /\ People \intersect PageRows = {}

VARIABLES message, pageRow, unsent, reader

vars == <<message, pageRow, unsent, reader>>

Rows == [from : People, to : PageRows, sent : Times]
            \union [from : PageRows, to : People, sent : Times]
Closed == [pc |-> "closed"]

Init ==
    /\ message = <<>> /\ unsent = {}
    /\ pageRow \in (SUBSET PageRows) \ {{}}
    /\ reader = Closed

Partner(r) == IF r.from \in People THEN r.from ELSE r.to
-----------------------------------------------------------------------------
(* createMessage: the row, its reference to the message it replies to, and *)
(* the emit.                                                               *)
Create(r) ==
    /\ Len(message) < MaxMessages /\ Cardinality(unsent) < MaxUnsent
    /\ {r.from, r.to} \subseteq People \union pageRow
    /\ message' = Append(message, r)
    /\ unsent' = unsent \union {Len(message')}
    /\ UNCHANGED <<pageRow, reader>>

(* The reader counts what its first page cannot have had: an emit may be   *)
(* of a row that was there before.                                         *)
Counts(i) ==
    reader # Closed /\ reader.page > 1 /\ i > reader.base /\ Partner(message[i]) = reader.with

SendMessage(i) ==
    /\ i \in unsent
    /\ unsent' = unsent \ {i}
    /\ reader' = IF Counts(i) THEN [reader EXCEPT !.offset = @ + 1] ELSE reader
    /\ UNCHANGED <<message, pageRow>>

(* MessageReplied.create fails: the row stays, and nobody is told.         *)
ReplyFails(i) ==
    /\ i \in unsent
    /\ unsent' = unsent \ {i}
    /\ UNCHANGED <<message, pageRow, reader>>
-----------------------------------------------------------------------------
(* orderBy createdAt: rows of one instant come in any order.               *)
Ordered(S) ==
    {s \in SetToSeqs(S) : \A i, j \in DOMAIN s :
        i < j => message[s[i]].sent >= message[s[j]].sent}

(* The where clause of getMessageInConversation.                           *)
InConversation(own, u) ==
    {i \in DOMAIN message : \/ message[i].from = own /\ message[i].to = u
                            \/ message[i].from = u /\ message[i].to = own}

Open(u) ==
    /\ reader = Closed
    /\ reader' = [pc |-> "resting", with |-> u, page |-> 1, offset |-> 0, own |-> u,
                  asked |-> 0, shown |-> <<>>, base |-> 0,
                  missed |-> FALSE, over |-> FALSE]
    /\ UNCHANGED <<message, pageRow, unsent>>

(* findSender takes a first row of the page, whichever that is.            *)
FindSender == pageRow

Ask ==
    /\ reader # Closed /\ reader.pc = "resting" /\ ~reader.over
    /\ \E own \in FindSender :
          reader' = [reader EXCEPT !.pc = "slice", !.asked = reader.offset, !.own = own]
    /\ UNCHANGED <<message, pageRow, unsent>>

(* Mutant: the offset of the reader is not used.                           *)
SkipWithoutOffset == (reader.page - 1) * Size

Skip == (reader.page - 1) * Size + reader.asked

(* Rows of the conversation that came after its first page.                *)
Newer == {i \in InConversation(reader.own, reader.with) : i > reader.base}

(* A page that is not full is the last one.  The count that follows the    *)
(* slice is not looked at.                                                 *)
GetMessageInConversation ==
    /\ reader # Closed /\ reader.pc = "slice"
    /\ \E s \in Ordered(InConversation(reader.own, reader.with)) :
          LET slice == SubSeq(s, Skip + 1, IF Skip + Size < Len(s) THEN Skip + Size
                                                                   ELSE Len(s))
          IN  reader' = [reader EXCEPT
                  !.pc = "resting",
                  !.base = IF reader.page = 1 THEN Len(message) ELSE @,
                  !.page = @ + 1, !.shown = @ \o slice,
                  !.over = Len(slice) < Size,
                  !.missed = @ \/ (reader.page > 1 /\ Cardinality(Newer) > reader.asked)]
    /\ UNCHANGED <<message, pageRow, unsent>>

Close ==
    /\ reader # Closed /\ reader.pc = "resting"
    /\ reader' = Closed
    /\ UNCHANGED <<message, pageRow, unsent>>

-----------------------------------------------------------------------------
(* getAllConversation: the newest row of everybody who is not the page, of *)
(* all the tab's rows in their order.                                      *)

(* Mutant: the partner is always the recipient.                            *)
UserSendRecipient(own, i) == message[i].to

UserSend(own, i) == IF message[i].from # own THEN message[i].from ELSE message[i].to

GetAllConversation(own, s) ==
    {s[k] : k \in {n \in DOMAIN s : \A j \in DOMAIN s :
                       j < n => UserSend(own, s[j]) # UserSend(own, s[n])}}
-----------------------------------------------------------------------------
Next ==
    \/ \E r \in Rows : Create(r)
    \/ \E i \in unsent : SendMessage(i) \/ ReplyFails(i)
    \/ \E u \in People : Open(u)
    \/ Ask \/ GetMessageInConversation \/ Close

Spec == Init /\ [][Next]_vars
-----------------------------------------------------------------------------
TypeOK ==
    /\ message \in Seq(Rows) /\ Len(message) <= MaxMessages
    /\ pageRow \subseteq PageRows /\ pageRow # {}
    /\ unsent \subseteq DOMAIN message
    /\ reader # Closed =>
          /\ reader.pc \in {"resting", "slice"} /\ reader.with \in People
          /\ reader.page \in Nat \ {0}
          /\ reader.asked <= reader.offset /\ reader.offset <= MaxMessages
          /\ ToSet(reader.shown) \subseteq DOMAIN message
          /\ reader.pc = "slice" => reader.own \in pageRow

(* Two rows of one instant, which the database orders as it likes.         *)
Tied == \E i, j \in DOMAIN message : i # j /\ message[i].sent = message[j].sent

(* A row that was stored after the first page and belongs below it.        *)
Late ==
    \E i, j \in DOMAIN message :
        i <= reader.base /\ reader.base < j /\ message[j].sent <= message[i].sent

(* What settles the order of the rows that skip counts.                    *)
Settled == ~Late /\ ~Tied /\ pageRow = {reader.own}

(* Whoever scrolls to the end has seen every message there was at the      *)
(* first page, whatever arrives meanwhile, unless a slice was cut before   *)
(* the reader heard of an arrival (it repeats a row, and the next offset   *)
(* passes over one), a message came later than its createdAt, two have one *)
(* createdAt, or the page has two rows.                                    *)
NothingSkipped ==
    reader # Closed /\ reader.over /\ Settled /\ ~reader.missed =>
        \A i \in 1..reader.base :
            Partner(message[i]) = reader.with => i \in ToSet(reader.shown)

(* A message is shown twice only for one of these causes.                  *)
RepeatsNeedAnUnheardArrival ==
    reader # Closed /\ Settled /\ ~reader.missed => IsInjective(reader.shown)

(* The list of conversations has each customer's newest message, when the  *)
(* page has one row.                                                       *)
NewestOf(u) ==
    {i \in DOMAIN message : /\ Partner(message[i]) = u
                            /\ \A j \in DOMAIN message : Partner(message[j]) = u
                                   => message[j].sent <= message[i].sent}

ListHasTheNewest ==
    \A own \in pageRow : \A s \in Ordered(DOMAIN message) :
        pageRow = {own} /\ ~Tied =>
            GetAllConversation(own, s) = UNION {NewestOf(u) : u \in People}

(* Everybody who wrote is in the list, even where the page has two rows    *)
(* and one of them is listed like a customer.                              *)
WritersAreListed ==
    \A own \in pageRow : \A s \in Ordered(DOMAIN message) : \A i \in DOMAIN message :
        message[i].from \in People =>
            \E k \in GetAllConversation(own, s) : UserSend(own, k) = message[i].from

(* Who scrolls through a conversation sees each of its messages once, but  *)
(* for the causes above.                                                   *)
PagesAreExact == TypeOK /\ NothingSkipped /\ RepeatsNeedAnUnheardArrival

(* The list has every customer who wrote, with the newest message.         *)
ListIsComplete == ListHasTheNewest /\ WritersAreListed
=============================================================================

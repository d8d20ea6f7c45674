----------------------------- MODULE Dashboard -----------------------------
(***************************************************************************)
(* The statistics of a tab: getLineChart counts its comments and messages  *)
(* per hour or per day, getPieChart counts them beside those that reached  *)
(* the hot queue.  Each chart is several queries, and rows arrive between  *)
(* them.                                                                   *)
(*                                                                         *)
(* Time is in hours.  Local is the calendar of the server's time zone;     *)
(* toISOString buckets by the UTC day instead.  A range is given by the    *)
(* local days of its two dates, the only thing the code keeps of them.  A  *)
(* page has one sender row here; SenderRegistry says how it can get two.   *)
(*                                                                         *)
(* comments, messages, hot  the rows of SocialMessage, Message and         *)
(*                          HotQueueMessage                                *)
(* pageKnown  tabs whose page has a sender row: the first private message  *)
(*            writes it                                                    *)
(* chart      the request, its range and its results so far                *)
(* steady     history: no row arrived since the request began.  No guard   *)
(*            reads it.                                                    *)
(***************************************************************************)
EXTENDS Integers, FiniteSetsExt

CONSTANTS Tabs, Times,
          HoursPerDay,  \* 24; fewer in a small instance
          Local,        \* the local day and hour of every time
          Joined,       \* tabs that the user is a member of
          Charts,       \* bound: the charts that are asked for
          MaxComments, MaxMessages, MaxHot  \* bounds on the tables

ASSUME TimeAssumption ==
    /\ Times \subseteq Nat /\ HoursPerDay \in Nat \ {0}
    /\ Local \in [Times -> [day : Int, hour : Nat]]

(* Hours pass one by one and local days in their order, no day without end *)
(* and no two of them within the hours of one.                             *)
ASSUME CalendarAssumption ==
    /\ \A t, u \in Times :
          /\ t..u \subseteq Times
          /\ t <= u => Local[t].day <= Local[u].day
          /\ u < t + HoursPerDay => Local[u].day <= Local[t].day + 1
    /\ \A t \in Times : IsFiniteSet({u \in Times : Local[u].day = Local[t].day})

VARIABLES comments, messages, hot, pageKnown, chart, steady

rows == <<comments, messages, hot, pageKnown>>
vars == <<rows, chart, steady>>

(* Bot: any type the charts leave out, agents' answers among them.  own:   *)
(* written by the page itself.  of: when the message that the hot queue    *)
(* holds was created; id: the row's own, for a message may have several.   *)
Comments == [tab : Tabs, type : {"Comment", "Bot"}, at : Times]
Messages == [tab : Tabs, own : BOOLEAN, at : Times]
HotQueue == [id : 1..MaxHot, tab : Tabs, type : {"Comment", "Message"},
             own : BOOLEAN, of : Times, at : Times]

Days == {Local[t].day : t \in Times}
Idle == [pc |-> "idle"]

Init ==
    /\ comments = {} /\ messages = {} /\ hot = {} /\ pageKnown = {}
    /\ chart = Idle
    /\ steady = TRUE
-----------------------------------------------------------------------------
(* A row is stored, before the chart or between two of its queries.        *)
Arrival == chart.pc # "done" /\ steady' = (chart = Idle)

(* A comment is stored; its page need not have a sender row.               *)
CommentArrives(c) ==
    /\ Arrival /\ Cardinality(comments) < MaxComments
    /\ comments' = comments \union {c}
    /\ UNCHANGED <<messages, hot, pageKnown, chart>>

(* A private message is stored after the rows of its sender and recipient. *)
MessageArrives(m) ==
    /\ Arrival /\ Cardinality(messages) < MaxMessages
    /\ messages' = messages \union {m}
    /\ pageKnown' = pageKnown \union {m.tab}
    /\ UNCHANGED <<comments, hot, chart>>

(* The hot queue takes a stored message at its own dateCreated, or holds   *)
(* an agent's answer, whose sender is the page.  saveHotQueueMessage does  *)
(* not ask whether it has the message: a callback that comes while the     *)
(* intake waits for its hook saves it, and the intake saves it again.      *)
HotQueueMessageArrives(h) ==
    /\ Arrival /\ h.id = Cardinality(hot) + 1
    /\ h.of <= h.at
    /\ IF h.own THEN h.tab \in pageKnown
       ELSE IF h.type = "Comment"
       THEN [tab |-> h.tab, type |-> "Comment", at |-> h.of] \in comments
       ELSE [tab |-> h.tab, own |-> FALSE, at |-> h.of] \in messages
    /\ hot' = hot \union {h}
    /\ UNCHANGED <<comments, messages, pageKnown, chart>>
-----------------------------------------------------------------------------
(* new Date(year, month, date): the day's first hour.                      *)
Midnight == [d \in Days |-> Min({t \in Times : Local[t].day = d})]

(* From startDate to 24 hours after endDate, however long that day is.     *)
DateRange(start, end) ==
    {t \in Times : Midnight[start] <= t /\ t < Midnight[end] + HoursPerDay}

(* The where clauses.                                                      *)
CountedComments(tab, times) ==
    {c \in comments : c.tab = tab /\ c.type = "Comment" /\ c.at \in times}
CountedMessages(tab, times) ==
    {m \in messages : m.tab = tab /\ ~m.own /\ m.at \in times}
CountedHotQueue(tab, type, times) ==
    {h \in hot : h.tab = tab /\ h.type = type /\ ~h.own /\ h.at \in times}

(* countMessagePerHour has no tab in its where clause, and of the senders  *)
(* it leaves out only this tab's page.                                     *)
MessagesOfAllTabs(tab, times) ==
    {m \in messages : ~(m.tab = tab /\ m.own) /\ m.at \in times}

UTCDay(t) == t \div HoursPerDay
Hour(t) == Local[t].hour

CountBy(Bucket(_), counted) ==
    [b \in {Bucket(r.at) : r \in counted} |->
        Cardinality({r \in counted : Bucket(r.at) = b})]

CountCommentPerDay(tab, times) == CountBy(UTCDay, CountedComments(tab, times))
CountMessagePerDay(tab, times) == CountBy(UTCDay, CountedMessages(tab, times))
CountCommentPerHour(tab, times) == CountBy(Hour, CountedComments(tab, times))
CountMessagePerHour(tab, times) == CountBy(Hour, MessagesOfAllTabs(tab, times))

Entry(list, b) == IF b \in DOMAIN list THEN list[b] ELSE 0

(* Mutant: a bucket without comments loses its messages.                   *)
MergeDataComments(listComment, listMessage) ==
    [b \in DOMAIN listComment |->
        [commentCount |-> Entry(listComment, b), messageCount |-> Entry(listMessage, b)]]

MergeData(listComment, listMessage) ==
    [b \in DOMAIN listComment \union DOMAIN listMessage |->
        [commentCount |-> Entry(listComment, b), messageCount |-> Entry(listMessage, b)]]
-----------------------------------------------------------------------------
(* A member of the tab asks.  The page's sender is looked up first; without *)
(* it no message is counted, nor anything in the hot queue.                *)
Begin(kind, tab, start, end) ==
    /\ chart = Idle /\ kind \in Charts /\ tab \in Joined
    /\ chart' = [pc |-> kind, tab |-> tab, start |-> start, end |-> end,
                 sender |-> tab \in pageKnown]
    /\ UNCHANGED <<rows, steady>>

GetStatisticForTab(tab, start, end) == Begin("line", tab, start, end)
GetPieChartForTab(tab, start, end) == Begin("pie", tab, start, end)

With(r, pc) == [x \in DOMAIN chart \union DOMAIN r |->
                   IF x = "pc" THEN pc ELSE IF x \in DOMAIN r THEN r[x] ELSE chart[x]]

Reads(from, to, r) ==
    /\ chart.pc = from
    /\ chart' = With(r, to)
    /\ UNCHANGED <<rows, steady>>

Asked == DateRange(chart.start, chart.end)

LineComments ==
    LET list == IF chart.start = chart.end THEN CountCommentPerHour(chart.tab, Asked)
                                           ELSE CountCommentPerDay(chart.tab, Asked)
    IN  Reads("line", "lineMessages", [listComment |-> list])

LineMessages ==
    LET list == IF chart.start = chart.end THEN CountMessagePerHour(chart.tab, Asked)
                                           ELSE CountMessagePerDay(chart.tab, Asked)
    IN  Reads("lineMessages", "done",
              [result |-> MergeData(chart.listComment, IF chart.sender THEN list ELSE <<>>)])

If(sender, counted) == IF sender THEN Cardinality(counted) ELSE 0

PieComments ==
    Reads("pie", "pieMessages",
          [totalComment |-> Cardinality(CountedComments(chart.tab, Asked))])
PieMessages ==
    Reads("pieMessages", "pieHotComments",
          [totalMessage |-> If(chart.sender, CountedMessages(chart.tab, Asked))])

PieHotComments ==
    Reads("pieHotComments", "pieHotMessages",
          [hotQueueComment |-> If(chart.sender, CountedHotQueue(chart.tab, "Comment", Asked))])

(* Mutant: the answers of agents are counted.                              *)
PieHotMessagesOwn ==
    LET counted == {h \in hot : /\ h.tab = chart.tab /\ h.type = "Message"
                                /\ h.at \in Asked}
    IN  Reads("pieHotMessages", "done", [hotQueueMessage |-> If(chart.sender, counted)])

PieHotMessages ==
    Reads("pieHotMessages", "done",
          [hotQueueMessage |-> If(chart.sender, CountedHotQueue(chart.tab, "Message", Asked))])

Next ==
    \/ \E c \in Comments : CommentArrives(c)
    \/ \E m \in Messages : MessageArrives(m)
    \/ \E h \in HotQueue : HotQueueMessageArrives(h)
    \/ \E tab \in Tabs, start \in Days, end \in Days :
           GetStatisticForTab(tab, start, end) \/ GetPieChartForTab(tab, start, end)
    \/ LineComments \/ LineMessages
    \/ PieComments \/ PieMessages \/ PieHotComments \/ PieHotMessages
    \/ chart.pc = "done" /\ UNCHANGED vars

Spec == Init /\ [][Next]_vars
-----------------------------------------------------------------------------
Done == chart.pc = "done"
IsLine == "result" \in DOMAIN chart
IsPie == "totalComment" \in DOMAIN chart

(* What a line chart shows: as many units in a bucket as it counts.        *)
ShownComments ==
    UNION {{b} \X (1..chart.result[b].commentCount) : b \in DOMAIN chart.result}
ShownMessages ==
    UNION {{b} \X (1..chart.result[b].messageCount) : b \in DOMAIN chart.result}

TypeOK ==
    /\ comments \subseteq Comments /\ messages \subseteq Messages /\ hot \subseteq HotQueue
    /\ pageKnown \subseteq Tabs
    /\ chart # Idle => chart.tab \in Tabs /\ {chart.start, chart.end} \subseteq Days
    /\ Done /\ IsLine => \A b \in DOMAIN chart.result :
           chart.result[b].commentCount + chart.result[b].messageCount > 0

(* A chart of several days loses and invents no row: its buckets add up to *)
(* what the pie chart of the same range would count, when nothing arrives  *)
(* meanwhile.                                                              *)
DaysAddUp ==
    Done /\ IsLine /\ chart.start # chart.end /\ steady =>
        /\ Cardinality(ShownComments) = Cardinality(CountedComments(chart.tab, Asked))
        /\ Cardinality(ShownMessages) = If(chart.sender, CountedMessages(chart.tab, Asked))

(* A chart of one day has at least the tab's own messages, and what it has *)
(* beyond them is the other tabs' (no tabId in countMessagePerHour).       *)
HoursExceedByOtherTabs ==
    Done /\ IsLine /\ chart.start = chart.end /\ chart.sender /\ steady =>
        Cardinality(ShownMessages)
            = Cardinality(CountedMessages(chart.tab, Asked))
              + Cardinality({m \in messages : m.tab # chart.tab /\ m.at \in Asked})

(* A range covers its local days, but for the last one where the clock is  *)
(* changed: 24 hours are an hour more or less than that day.               *)
LengthOf(d) == Cardinality({t \in Times : Local[t].day = d})

RangeCoversItsDays ==
    chart # Idle /\ chart.start <= chart.end =>
        LET asked == {t \in Times : chart.start <= Local[t].day /\ Local[t].day <= chart.end}
        IN  /\ LengthOf(chart.end) = HoursPerDay => Asked = asked
            /\ \A t \in (Asked \ asked) \union (asked \ Asked) :
                   Local[t].day \in {chart.end, chart.end + 1}

(* The hot queue's share exceeds the whole by no more than two kinds of    *)
(* rows, unless something arrived between the queries: rows queued in the  *)
(* range of a message from before it, and rows that save a message again   *)
(* (the callback and the waiting intake both do).                          *)
Extra(type) ==
    LET counted == CountedHotQueue(chart.tab, type, Asked)
    IN  {h \in counted : h.of \notin Asked \/ \E g \in counted : g.of = h.of /\ g.id < h.id}

ShareIsAPart ==
    Done /\ IsPie /\ steady =>
        /\ chart.hotQueueComment <= chart.totalComment + Cardinality(Extra("Comment"))
        /\ chart.hotQueueMessage <= chart.totalMessage + Cardinality(Extra("Message"))

(* The charts count every row of their range, and nothing but the rows     *)
(* named.                                                                  *)
ChartsCountTheirRange ==
    TypeOK /\ DaysAddUp /\ HoursExceedByOtherTabs /\ RangeCoversItsDays
=============================================================================

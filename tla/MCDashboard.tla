---------------------------- MODULE MCDashboard ----------------------------
(* Days of two hours in a zone one hour ahead of UTC.  The clock is put    *)
(* forward on the third local day, which has one hour.  Nobody joins or    *)
(* leaves.                                                                 *)
EXTENDS Reports
CONSTANTS t1, t2
MCTabs == {t1, t2}
MCJoined == {t1}
MCTimes == 0..4
MCLocal == << [day |-> 1, hour |-> 1],
              [day |-> 2, hour |-> 0], [day |-> 2, hour |-> 1],
              [day |-> 3, hour |-> 1],
              [day |-> 4, hour |-> 0] >>
MCCalendar == [t \in MCTimes |-> MCLocal[t + 1]]
MCCharts == {"line", "pie"}

(* The chart is set at the start: lines over two tabs with at most one     *)
(* comment that does not count, or shares of one tab with its hot queue,   *)
(* which may hold one message twice, with little of the other kind beside  *)
(* it; in both a row that comes during the chart is the first or second.   *)
VARIABLE scene

Within ==
    /\ steady \/ Cardinality(comments) + Cardinality(messages) + Cardinality(hot) <= 2
    /\ CASE scene = "line" -> /\ hot = {} /\ chart.pc # "pie"
                              /\ Cardinality({c \in comments : c.tab # t1 \/ c.type = "Bot"}) <= 1
         [] scene = "pie" ->
                /\ chart.pc # "line" /\ \A r \in comments \union messages : r.tab = t1
                /\ comments \subseteq {c \in Comments : c.type = "Comment"}
                /\ Cardinality(comments) <= 1
                /\ chart # Idle => chart.start <= chart.end
                /\ \A g, h \in hot : g.id < h.id =>
                       /\ <<g.type, g.own, g.of>> = <<h.type, h.own, h.of>> /\ g.at <= h.at
                       /\ IF g.type = "Comment" THEN \A m \in messages : m.at = 0
                          ELSE comments = {}

SceneInit == Init /\ Members!Init /\ scene \in MCCharts
SceneNext == Next /\ UNCHANGED <<members, scene>> /\ Within'
SceneSpec == SceneInit /\ [][SceneNext]_<<vars, members, scene>>
=============================================================================

----------------------------- MODULE MCReadCalls -----------------------------
(* Four memories and room for a fifth, nine edges, a query per way of recall. *)
EXTENDS ReadCalls

MCMaxChanges == [c \in Calls |-> CASE c = "list" -> 2 [] c \in {"retrieve", "write"} -> 1 [] OTHER -> 0]

Keys(topics, goal, event, causal) ==
    [TopicCluster |-> topics, Goal |-> goal, Event |-> event, Causal |-> causal]

MCContent ==
    <<[entities |-> {"A"}, keys |-> Keys({"t1"}, {}, {}, {}), hour |-> 130, type |-> "Decision",
       words |-> {"k1"}, explains |-> 120, defines |-> "none", signal |-> TRUE],
      [entities |-> {"A", "B"}, keys |-> Keys({"t1", "t2"}, {"g"}, {}, {}), hour |-> 150,
       type |-> "ProjectKnowledge", words |-> {"k1", "s"}, explains |-> 0, defines |-> "s", signal |-> TRUE],
      [entities |-> {"B"}, keys |-> Keys({"t2"}, {}, {"e"}, {}), hour |-> 151,
       type |-> "TaskState", words |-> {}, explains |-> 300, defines |-> "none", signal |-> TRUE],
      [entities |-> {}, keys |-> Keys({}, {}, {}, {"c"}), hour |-> 178, type |-> "Preference",
       words |-> {"k1", "k2", "k3"}, explains |-> 0, defines |-> "none", signal |-> TRUE],
      [entities |-> {"A"}, keys |-> Keys({"t2"}, {}, {}, {}), hour |-> 179, type |-> "Decision",
       words |-> {}, explains |-> 0, defines |-> "none", signal |-> TRUE]>>

MCImportance == <<500, 0, 1000, 250, 500>>

MCContextLinks ==
    [A |-> {}, t2 |-> {[id |-> 3, strength |-> 800, reviews |-> 1, days |-> 2],
                       [id |-> 4, strength |-> 1000, reviews |-> 9, days |-> 70]}]

NoHits == [Bm25 |-> <<>>, SemanticDense |-> <<>>, SemanticBinary |-> <<>>]
NoKeys == Keys(<<>>, <<>>, <<>>, <<>>)
Plain ==
    [entities |-> {}, keys |-> NoKeys, days |-> {}, recent |-> <<>>, found |-> NoHits,
     signals |-> {}, subject |-> "none", keywords |-> {}, features |-> {}, hops |-> 2]

MCQueries ==
    {\* one entity, why
     [Plain EXCEPT !.entities = {"A"}, !.features = {"A"}, !.signals = {"Why", "What"}],
     \* two entities, context, keywords
     [Plain EXCEPT !.entities = {"A", "B"}, !.features = {"A", "t2"}, !.keywords = {"k1", "k2", "k3"},
                   !.keys.TopicCluster = <<"t2">>],
     \* no hit at all: fallback
     [Plain EXCEPT !.hops = 1, !.signals = {"Preference"}],
     \* recent memories, what is s
     [Plain EXCEPT !.recent = <<1, 1, 2>>, !.signals = {"What"}, !.subject = "s", !.hops = 3],
     \* searches and a date, no spreading; a memory whose vector is listed before
     \* its unit is stored
     [Plain EXCEPT !.found = [NoHits EXCEPT !.Bm25 = <<3, 1>>, !.SemanticDense = <<5, 2>>],
                   !.days = {6, 7}, !.signals = {"How"}, !.hops = 0],
     \* keys, with a memory listed twice
     [Plain EXCEPT !.keys = Keys(<<"t1", "t2">>, <<"g">>, <<"e">>, <<"c">>),
                   !.features = {"t2"}, !.signals = {"Correction"}],
     \* one search hit, spread twice
     [Plain EXCEPT !.found = [NoHits EXCEPT !.SemanticBinary = <<1, 3>>]]}

L(to, type, w) == [to |-> to, type |-> type, w |-> w]
MCRows ==
    LET one == <<L(2, "Causal", 900)>>
        three == <<L(3, "TemporalAdjacent", 500), L(2, "CoActivation", 800), L(4, "Causal", 950)>>
        second == <<L(3, "EntityOverlap", 1000), L(4, "Causal", 800), L(1, "SameEvent", 800)>>
        third == <<L(2, "SameGoal", 900), L(4, "SameGoal", 900)>>
        rows(first, r2, r3) == <<first, r2, r3, <<L(1, "Supersedes", 1000)>>, <<>>>>
    IN  {rows(one, second, third), rows(one, second, <<>>), rows(one, <<>>, <<>>),
         rows(three, second, third), rows(three, <<>>, third)}

\* A chain and a short cut, so that one memory is at two distances.
MCTraverseRows ==
    {<<<<L(2, "Causal", 900), L(3, "SameGoal", 900)>>, <<L(4, "Causal", 900)>>, r3, r4,
       <<L(5, "Causal", 700), L(1, "TopicRelated", 700)>>>> :
        r3 \in {<<>>, <<L(5, "Causal", 900), L(3, "Causal", 900)>>},
        r4 \in {<<>>, <<L(5, "SameGoal", 900)>>, <<L(5, "SameEvent", 900), L(1, "Causal", 900)>>}}

\* What other threads may store.
MCEdges ==
    <<{<<L(2, "Causal", 900)>>}, {<<L(4, "Causal", 800), L(1, "SameEvent", 800)>>},
      {<<>>, <<L(2, "SameGoal", 900)>>}, {<<>>}, {<<L(3, "Causal", 900)>>}>>

\* Of a memory without a unit others may hold the active one.
Store(k, r, ids) ==
    [kind |-> k, row |-> r, issued |-> ids, indexed |-> ids,
     copies |-> [x \in Ids |-> IF x \notin ids THEN {}
                               ELSE {"active"} \cup ({k[x]} \ {"none"})],
     deleting |-> {x \in ids : k[x] = "none"}]

\* A memory without a unit is one whose deletion has only removed the unit;
\* where it has edges, another thread has put them back since.  A fifth one, or
\* the second of a listing, is not written yet.
MCStores ==
    [retrieve |->
        {Store(k, r, 1..4) : r \in MCRows, k \in
            {<<"active", "active", "active", "active", "none">>,
             <<"active", "compressed", "active", "active", "none">>,
             <<"active", "summary", "active", "active", "none">>,
             <<"active", "active", "none", "active", "none">>,
             <<"compressed", "active", "active", "summary", "none">>}},
     list |-> {Store(k, <<<<>>, <<>>, <<>>, <<>>, <<>>>>, {1, 3, 4, 5}) : k \in
                 {<<a, "none", "active", b, c>> :
                    a \in {"active", "compressed"}, b, c \in {"active", "compressed", "none"}}},
     traverse |-> {Store(k, r, Ids) : r \in MCTraverseRows, k \in
                     {<<"active", "active", "active", "active", "active">>,
                      <<"active", "compressed", "none", "active", "summary">>}},
     time |-> {Store(<<"none", "none", "none", "none", "none">>,
                     <<<<>>, <<>>, <<>>, <<>>, <<>>>>, {})},
     write |-> {Store(k, <<<<L(1, "EntityOverlap", 900)>>, <<>>, <<L(1, "Causal", 900)>>, <<>>, <<>>>>,
                      1..4) :
                  k \in {<<"active", "active", "active", "active", "none">>,
                         <<"compressed", "active", "none", "summary", "none">>}}]

MCListCalls == [limit : {0, 1, 2}, type : {"any", "Decision"}]
MCTraverseCalls ==
    [start : {1, 3, 5}, depth : {0, 2, 3, 9}, direction : {"Outgoing", "Incoming", "Both"},
     types : {LinkTypes, {"Causal", "SameGoal"}}]

Context(conversation, project) ==
    [conversation |-> conversation, session |-> "none", project |-> project, task |-> "none"]
MCContexts == [x \in Ids |-> IF x % 2 = 1 THEN Context("c1", "p") ELSE Context("none", "none")]

\* Alike in different ways: not at all, just below and just above the mark of the
\* semantic dimension, and the same text.
MCFresh ==
    {[entities |-> e, topics |-> t, causal |-> c, hour |-> h, context |-> Context("c1", p),
      signal |-> TRUE, lexical |-> [x \in Ids |-> l[x]], binary |-> [x \in Ids |-> b]] :
        e \in {{}, {"A"}, {"A", "B", "C"}}, t \in {{}, {"t1", "t2"}}, c \in {{}, {"c"}},
        h \in {152, 178}, p \in {"p", "q"}, b \in {500, 1000},
        l \in {<<700, 700, 700, 700, 700>>, <<701, 300, 1000, 701, 0>>}}
      \cup {[entities |-> {"A"}, topics |-> {}, causal |-> {}, hour |-> 2000,
             context |-> Context("none", "none"), signal |-> FALSE,
             lexical |-> [x \in Ids |-> 1000], binary |-> [x \in Ids |-> 0]]}

W(day, y, m, d, wd) == [day |-> day, y |-> y, m |-> m, d |-> d, wd |-> wd]
\* Up to the beginning of a March, in a year before a leap year, before 2000 and
\* before 2100, which is no leap year; and the first days of the count.
MCWindows == {W(0, 1970, 1, 1, 3), W(10940, 1999, 12, 15, 2), W(19706, 2023, 12, 15, 4),
              W(47465, 2099, 12, 15, 1)}

S(y, m, d) == [y |-> y, m |-> m, d |-> d]
Sides == {S(0, 1, 0), S(0, 3, 0), S(0, 11, 0), S(0, 3, 5), S(0, 12, 31), S(0, 1, 1),
          S(0, 4, 4), S(2024, 2, 0), S(2023, 12, 24)}
MCTexts ==
    [form : {"zhRange"}, left : Sides, right : Sides]
        \cup [form : {"enRange"}, left : {S(0, 1, 0), S(0, 3, 0)}, right : {S(0, 2, 0), S(0, 4, 0)}]
        \cup [form : {"zhDate"}, left : Sides \cup {S(0, 2, 29), S(0, 4, 31), S(1969, 1, 1)}]
        \cup [form : {"isoDate"}, left : {S(2024, 2, 29), S(2101, 1, 1)}]
        \cup [form : {"enDate"}, left : {S(0, 3, 5), S(2023, 12, 25), S(0, 3, 0)}]
        \cup [form : {"term"}, term : {"Today", "Yesterday", "DayBeforeYesterday", "ThisWeek",
                                       "LastWeek", "ThisMonth", "LastMonth", "ThisYear"}]
=============================================================================

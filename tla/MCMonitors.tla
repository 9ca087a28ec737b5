----------------------------- MODULE MCMonitors -----------------------------
\* A main server with two users, a remote with one, two sessions.
EXTENDS Monitors

MCRemotes == {"remote"}
MCFiles  == [box \in {"main", "remote"} |-> IF box = "main" THEN {"alice", "bob"} ELSE {"carol"}]
MCPlace == [s \in {"alice", "bob", "carol"} |-> IF s = "bob" THEN 2 ELSE 1]
MCWindows == {"session", "weekly"}
MCLength == [w \in MCWindows |-> IF w = "session" THEN 3 ELSE 5]
MCJitters == {0, -1}

Ask1(n)  == [id |-> n, name |-> "AskUserQuestion"]
Bash1(n) == [id |-> n, name |-> "Bash"]
MCSids == {"s1", "s2"}
MCQuestions ==
  [sid \in MCSids |-> IF sid = "s1" THEN {{Ask1(1), Ask1(2)}, {Bash1(3)}} ELSE {{Ask1(4), Bash1(5)}}]

MCFamilies   == {"relentless", "grinder", "owl", "marathon", "sesspush", "bottleneck"}
MCThresholds ==
  [f \in MCFamilies |-> CASE f = "relentless" -> <<2, 3>> [] f = "grinder" -> <<5, 9>>
                          [] f = "owl" -> <<2, 4>> [] f = "marathon" -> <<3, 4>> [] f = "sesspush" -> <<1, 2>>
                          [] f = "bottleneck" -> <<1, 3>>]
MCRecords == {"streak", "dayActive", "endurance"}
MCOverlapping ==
  [k \in MCRecords |-> CASE k = "streak" -> "relentless" [] k = "endurance" -> "marathon" [] k = "dayActive" -> None]

\* Days of 12 minutes, gaps of 6 and 2: parallel sessions, a break, an event
\* on both sides of midnight, and a day that joins two streaks.
MCRowPool == {{0, 2, 7}, {1, 4}, {11, 13}, {25}, {38, 46, 47}}

Nothing == [tick |-> 0, use |-> 0, hide |-> 0, refusal |-> 0, talk |-> 0, fault |-> 0,
            collect |-> 0, late |-> 0, line |-> 0, byte |-> 0, quit |-> 0, pass |-> 0,
            grow |-> 0, sync |-> 0, cut |-> 0, hop |-> 0, post |-> 0, deploy |-> 0]
Seeded == [tiers |-> [f \in MCFamilies |-> IF f = "owl" THEN None ELSE 0],
           records |-> [k \in MCRecords |-> 0]]

MCChats == {"w1"}
MCChatUser == [w \in MCChats |-> "alice"]
MCTools == {"AskUserQuestion", "Bash"}
MCDirectoryOf == [f \in {"a", "b", "c"} |-> IF f = "c" THEN "q" ELSE "p"]

MCPeerOrder == <<"rival", "north", "south">>
MCSlug == [p \in {"rival", "north", "south"} |-> IF p = "rival" THEN "rival" ELSE "peer"]

MCScenes ==
  { [runs |-> {"main"}, known |-> None, budget |-> [Nothing EXCEPT !.tick = 5, !.use = 1, !.hide = 1, !.refusal = 3]],
    [runs |-> {"main"}, known |-> None, budget |-> [Nothing EXCEPT !.tick = 4, !.use = 2, !.refusal = 1, !.fault = 1]],
    [runs |-> {"main", "remote"}, known |-> None, budget |-> [Nothing EXCEPT !.tick = 4, !.use = 1, !.refusal = 1]],
    [runs |-> {"bottleneck"}, known |-> None, budget |-> [Nothing EXCEPT !.tick = 4, !.talk = 4, !.fault = 1]],
    [runs |-> {"bottleneck"}, known |-> None, budget |-> [Nothing EXCEPT !.tick = 5, !.talk = 2, !.fault = 1, !.late = 1]],
    [runs |-> {"competitor"}, known |-> Seeded, budget |-> [Nothing EXCEPT !.tick = 3, !.fault = 1, !.collect = 3]],
    [runs |-> {"main", "competitor"}, known |-> None, budget |-> [Nothing EXCEPT !.tick = 3, !.use = 2, !.refusal = 1]],
    [runs |-> {"bottleneck", "competitor"}, known |-> None, budget |-> [Nothing EXCEPT !.tick = 5, !.talk = 2, !.fault = 1]],
    [runs |-> {}, known |-> None, budget |-> [Nothing EXCEPT !.line = 4, !.pass = 2]],
    [runs |-> {}, known |-> None, budget |-> [Nothing EXCEPT !.line = 1, !.byte = 2, !.quit = 1, !.pass = 2]],
    [runs |-> {}, known |-> None, budget |-> [Nothing EXCEPT !.grow = 3, !.sync = 2, !.cut = 1]],
    [runs |-> {}, known |-> None, budget |-> [Nothing EXCEPT !.tick = 3, !.hop = 2, !.post = 3, !.fault = 1]],
    [runs |-> {"peers"}, known |-> None, budget |-> [Nothing EXCEPT !.tick = 3, !.grow = 2, !.cut = 2]],
    [runs |-> {}, known |-> None, budget |-> [Nothing EXCEPT !.deploy = 3, !.fault = 2]] }
=============================================================================

------------------------------ MODULE MCBadge ------------------------------
\* A badge with three categories of screens, two presets of everything and a
\* DISPLAY list of the rows that reach furthest.
EXTENDS Badge

MCRegistry == << [id |-> "avatar", category |-> "LIVE"],
                 [id |-> "usage", category |-> "LIVE"],
                 [id |-> "projects", category |-> "TOKENS"],
                 [id |-> "trophies", category |-> "TOKENS"],
                 [id |-> "options_display", category |-> "OPTIONS"],
                 [id |-> "options_screens", category |-> "OPTIONS"],
                 [id |-> "options_palettes", category |-> "OPTIONS"],
                 [id |-> "options_avatar", category |-> "OPTIONS"] >>
MCCategoryOrder == <<"LIVE", "TOKENS", "OPTIONS", "DEV">>
MCRows == <<"brightness", "dim", "saver", "reset", "demo", "speed", "font">>

MCEntry   == <<342, 350>>
MCVolts   == {320, 346, 410}
MCSignals == {None, -60}

S == [Defaults EXCEPT !.boot = "usage"]
OnUsb     == [usb |-> TRUE, volts |-> 410, rssi |-> -60, online |-> TRUE]
OnBattery == [OnUsb EXCEPT !.usb = FALSE, !.volts = 346]
Budget(press, celebrate, feed, power) ==
  [press |-> press, celebrate |-> celebrate, feed |-> feed, power |-> power]

MCScenes ==
  { \* the editors, with a celebration on the way
    [saved |-> S, world |-> OnUsb, budget |-> Budget(5, 1, 0, 0)],
    [saved |-> [S EXCEPT !.hidden = {"avatar"}], world |-> OnUsb, budget |-> Budget(4, 1, 0, 0)],
    [saved |-> S, world |-> OnBattery, budget |-> Budget(4, 0, 0, 1)],
    [saved |-> [S EXCEPT !.saverOff = TRUE], world |-> OnBattery, budget |-> Budget(5, 1, 0, 0)],
    \* the live status, the warnings
    [saved |-> Defaults, world |-> OnUsb, budget |-> Budget(0, 0, 3, 1)],
    [saved |-> Defaults, world |-> OnUsb, budget |-> Budget(1, 1, 2, 0)],
    \* celebrations one after the other
    [saved |-> [S EXCEPT !.cycle = 2], world |-> OnUsb, budget |-> Budget(1, 4, 0, 0)],
    \* the battery
    [saved |-> [S EXCEPT !.saverOff = TRUE], world |-> OnBattery, budget |-> Budget(0, 0, 2, 2)],
    [saved |-> S, world |-> OnBattery, budget |-> Budget(1, 0, 0, 4)] }

MCPresses == {{"UP"}, {"DOWN"}, {"A"}, {"B"}, {"C"}, {"A", "B"}}
MCStatuses == {"working", "no_processes", "waiting", "unknown"}
MCDirectives == {[id |-> "t1", life |-> None], [id |-> "t2", life |-> 9],
                 [id |-> "t3", life |-> 0]}
MCStreakOff == [late \in BOOLEAN |-> IF late THEN 1 ELSE 2]
MCIntervals == <<2, 3>>
=============================================================================

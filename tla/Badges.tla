------------------------------- MODULE Badges -------------------------------
(***************************************************************************)
(* A badge of either kind in front of the server.  Both use the same       *)
(* HTTPS client; they share nothing else, so that one behaviour follows    *)
(* one of them.                                                            *)
(***************************************************************************)
EXTENDS BadgeFeeds

CONSTANTS
  LimitsFeed,
  Screens

ASSUME BadgesAssumption == LimitsFeed \in Feeds /\ Screens \in Nat \ {0}

VARIABLES
  kind,   \* "lcd" or "eink"
  flash   \* the saved State of the e-ink badge

Simple == INSTANCE SimpleBadge WITH StatsFeed <- Stats

vars == <<feedVars, kind, flash>>

Init ==
  /\ FeedsInit
  /\ Simple!SimpleInit
  /\ kind \in {"lcd", "eink"}
  /\ kind = "eink" => /\ broken = None /\ ap = OnAir /\ clockSet
                      /\ assoc = None /\ server[Stats].ver = 1

Lcd(step) == kind = "lcd" /\ step /\ UNCHANGED <<kind, flash>>

Eink ==
  /\ kind = "eink"
  /\ \/ Simple!Wake /\ UNCHANGED <<server, broken, route, ap, events>>
     \/ (RouteChange \/ Publish) /\ UNCHANGED flash
  /\ UNCHANGED <<kind, boot, wifi, sock, sched, power, input, hist>>

\* The LCD badge's program runs; nothing is asked of its surroundings.
Spec == Init /\ [][Lcd(Badge) \/ Lcd(Outside) \/ Eink]_vars /\ WF_vars(Lcd(Badge))

-----------------------------------------------------------------------------
BadgesTypeOK == TypeOK /\ Simple!SimpleTypeOK

\* Numbers on the e-ink badge outlive any failed refresh: they are never lost
\* or replaced by older ones; a wake that leaves an error has changed none it
\* already had, and new ones are not flagged as those of a failed refresh.
FlashKeeps ==
  [][flash.summary > 0 =>
       /\ flash'.summary >= flash.summary
       /\ flash'.error => /\ flash'.summary = flash.summary
                          /\ flash'.accounts = flash.accounts]_flash

\* A badge that boots into a dead network, with a stale association or an
\* unset clock, comes up once a configured network leads to the server; and
\* then, as long as it keeps its way there, neither the feed that is broken nor
\* a past outage keeps another one old: all it serves is shown, but for a body
\* the badge cannot use and a feed its power source rules out.  Only a line
\* that is garbled or of one word, stats that are no object, or at boot no JSON,
\* end the program.
Recovers ==
  <>[](kind = "lcd" /\ route /\ ap = OnAir /\ server[Stats].quality = "good")
    => <>[](\/ phase = "dead"
            \/ phase = "run" /\ (Reach => AllCurrent))

=============================================================================

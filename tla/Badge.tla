------------------------------- MODULE Badge -------------------------------
(***************************************************************************)
(* The input loop of the LCD badge (navigation.start): one pass polls the  *)
(* buttons, samples the gauges, runs the screens, takes what the feeds     *)
(* brought, moves the avatar and repaints what changed.  The feeds are     *)
(* BadgeFeeds; here their answers and the scheduler's idea of being        *)
(* offline come from the environment.                                      *)
(*                                                                         *)
(* A pass takes 10 ms and a tick is the cadence of the gauges, so there    *)
(* are passes between any two passes that see a tick go by.                *)
(***************************************************************************)
EXTENDS BadgeScreens

CONSTANTS
  Volts, Signals,  \* the battery voltages and the RSSI values (or None)
  Presses,         \* the sets of buttons one poll may report
  Statuses,        \* the values of the feed's live status
  Directives,      \* the celebrate directives the server may send
  NoticeTime,      \* POWER_OFF_NOTICE_SECONDS, in ticks
  Scenes           \* [saved, world, budget]: the settings file and the world the
                   \* badge boots with, and bounds on what happens to it then

\* What the gauges can read, and whether the feeds are answered.
Worlds == [usb: BOOLEAN, volts: Volts, rssi: Signals, online: BOOLEAN]

ASSUME BadgeAssumption ==
  /\ \A s \in Scenes : s.saved \in Settings /\ s.world \in Worlds /\ s.world.online
  /\ Presses \subseteq SUBSET {"UP", "DOWN", "A", "B", "C"}
  /\ NoticeTime \in Nat \ {0} /\ None \notin Statuses \cup Nat
  /\ \A d \in Directives : d # None /\ d.life \in Nat \cup {None}

VARIABLES
  b,       \* the program's state
  env,     \* usb, volts, rssi; online: the scheduler is not offline
  phase,   \* "boot" (up to the first fetch that is answered), "run",
           \* "notice" (the low battery's countdown) or "off"
  notice,  \* the ticks left of it, and the buttons its pass had polled
  left,    \* what is left of the budget
  spell,   \* history: ticks the status has been seen working
  fired    \* history: fired[id]: the other ids read since id was celebrated

badgeVars == <<b, env, phase, notice, left, spell, fired>>

CelebrationIds == {d.id : d \in Directives}
NoNotice == [left |-> 0, held |-> {}]
Quiet == [live |-> "unknown", celebrate |-> None, limits |-> FALSE, danger |-> FALSE, late |-> FALSE]

-----------------------------------------------------------------------------
\* Painting.  shown, chrome and footer are what the panel shows; noted is what
\* the footer's change tracking believes it shows.  beat: the 1 Hz phase of the battery icon has
\* moved since it was last drawn; swept: history, the animation has drawn it
\* since the footer was noted.

\* The charger never says that it is done.
Charging(c, e) == e.usb /\ ~ChargedFull(c.gauge)

Footer(c, e) ==
  [wifi |-> IF c.saved.wifi THEN Bars(c.gauge) ELSE None,
   cells |-> Cells(c.gauge), charging |-> Charging(c, e)]

\* The frame of every screen as only a full redraw paints it: the connection
\* light and the word over B where it depends on the state.
ContextLabel(c) ==
  IF c.flow = None /\ CurrentScreen(c) = "avatar" /\ c.onBattery
  THEN IF c.liveOn THEN "LIVE:ON" ELSE "LIVE:OFF" ELSE None

Chrome(c, e) == [light |-> e.online, label |-> ContextLabel(c)]

\* What everything is drawn with, and what it shows of the stats.
Look(c) == [theme |-> c.theme, scale |-> c.scale,
            danger |-> c.payload.danger, late |-> c.payload.late]

\* What the OPTIONS screens and the editors show of the settings: while the
\* avatars are cycled none of them is the pick.
Selected(s) ==
  [brightness |-> s.brightness, dim |-> s.dim, boot |-> s.boot, hidden |-> s.hidden,
   saverOff |-> s.saverOff, wifi |-> s.wifi, cycle |-> s.cycle,
   sprite |-> IF s.cycle = 0 THEN s.sprite ELSE None]

Picture(c) ==
  CASE c.flow # None ->
         [flow |-> c.flow.kind, at |-> c.flow.at, alt |-> c.flow.alt, look |-> Look(c),
          choices |-> Selected(c.saved)]
    [] c.flow = None /\ CurrentScreen(c) = "avatar" ->
         [screen |-> "avatar", label |-> ChromeLabel(c.avatar), sprite |-> c.avatar.sprite,
          sleeping |-> c.avatar.battery, limits |-> c.payload.limits, look |-> Look(c)]
    [] OTHER ->
         [screen |-> CurrentScreen(c), page |-> c.page, look |-> Look(c),
          limits |-> CurrentScreen(c) = "usage" /\ c.payload.limits,
          choices |-> IF CurrentScreen(c) \in Options THEN Selected(c.saved) ELSE None]

Draw(c, e) ==
  [c EXCEPT !.shown = Picture(c), !.chrome = Chrome(c, e), !.footer = Footer(c, e),
            !.beat = FALSE]

\* draw; display.update; note_footer_painted.
Redraw(c, e) == [Draw(c, e) EXCEPT !.noted = Footer(c, e), !.swept = FALSE]

\* The tail of a pass.  A demo step redraws without noting the footer; the
\* stage is animated in every pass that draws nothing else (in the code once
\* its frame is over, several frames to a tick).
Paint(c, e, dt) ==
  CASE c.dirty -> Redraw(c, e)
    [] ~c.dirty /\ c.flow # None ->
         IF c.flow.kind = "demo" /\ dt = 1 THEN Draw(Moved(c, 1, DemoSteps), e) ELSE c
    [] OTHER -> IF CurrentScreen(c) = "avatar"
                THEN [c EXCEPT !.avatar = StageFrame(@, c.payload), !.framed = TRUE] ELSE c

\* animate_battery_if_due (1 Hz, the battery alone, which is not noted) else
\* refresh_footer_if_changed.
PaintFooter(c, e) ==
  LET f == Footer(c, e)
      blinks == (f.charging \/ c.gauge.latched) /\ c.beat
  IN CASE c.flow # None -> c
       [] c.flow = None /\ blinks ->
            [c EXCEPT !.footer.cells = f.cells, !.footer.charging = f.charging,
                      !.beat = FALSE, !.blinked = TRUE, !.swept = TRUE]
       [] OTHER -> IF f = c.noted THEN c
                   ELSE [c EXCEPT !.footer = f, !.noted = f, !.swept = FALSE]

-----------------------------------------------------------------------------
\* The steps of a pass, in order.

\* The time that went by.
Elapsed(c, dt) ==
  LET fresh == [c EXCEPT !.dirty = FALSE, !.framed = FALSE, !.blinked = FALSE,
                         !.ticked = dt = 1]
  IN IF dt = 0 THEN fresh
     ELSE [fresh EXCEPT !.avatar = Elapse(@), !.beat = TRUE,
                        !.cycled = IF c.saved.cycle = 0 THEN 0 ELSE MinOf(@ + 1, c.saved.cycle)]

Gauges(c, e, dt) ==
  [c EXCEPT !.gauge = NotePower(IF dt = 1 THEN Sample(@, e.volts, e.rssi) ELSE @, e.usb)]

\* Mutant: the backlight is set once and stays when the power changes.
UpdateBacklightOnce(c, e) ==
  LET dimmed == c.saved.dim /\ ~e.usb
  IN IF c.dimmed # None THEN c ELSE [c EXCEPT !.dimmed = dimmed, !.panel = Panel(c, dimmed)]

UpdateBacklight(c, e) ==
  LET dimmed == c.saved.dim /\ ~e.usb
  IN IF c.dimmed = dimmed THEN c ELSE [c EXCEPT !.dimmed = dimmed, !.panel = Panel(c, dimmed)]

\* refresh_feeds_if_due: feed is None or [kind, payload].
RefreshFeeds(c, e, feed) ==
  LET d == [c EXCEPT !.onBattery = ~e.usb /\ ~c.saved.saverOff]
  IN IF feed = None THEN d
     ELSE [d EXCEPT !.payload = feed.payload,
                    !.dirty = \/ @ \/ feed.kind = "stats"
                              \/ feed.kind = "limits" /\ CurrentScreen(d) \in {"avatar", "usage"}]

\* tick_if_due: the screens with a periodic repaint.
Tick(c, dt) == [c EXCEPT !.dirty = @ \/ (dt = 1 /\ CurrentScreen(c) \in {"usage", "words"})]

\* Mutant: a change while another screen is up is kept for no one.
UpdateAvatarSilently(c, e) ==
  LET a == UpdateState([c.avatar EXCEPT !.battery = c.onBattery /\ ~c.liveOn, !.online = e.online],
                       c.payload)
      settled == [c EXCEPT !.avatar = [a EXCEPT !.jump = FALSE, !.redraw = FALSE]]
  IN IF a.jump THEN ShowScreen(settled, "avatar")
     ELSE [settled EXCEPT !.dirty = @ \/ (a.redraw /\ CurrentScreen(c) = "avatar")]

\* update_avatar: runs in every pass, whatever is on the panel.
UpdateAvatar(c, e) ==
  LET a == UpdateState([c.avatar EXCEPT !.battery = c.onBattery /\ ~c.liveOn, !.online = e.online],
                       c.payload)
      settled == [c EXCEPT !.avatar = [a EXCEPT !.jump = FALSE, !.redraw = FALSE]]
  IN IF a.jump
     THEN [ShowScreen(settled, "avatar") EXCEPT
             !.dirty = TRUE,
             !.dropped = IF c.flow = None THEN @ ELSE @ \cup {c.flow.kind}]
     ELSE [settled EXCEPT !.dirty = @ \/ (a.redraw /\ CurrentScreen(c) = "avatar")]

AutoCycle(c) ==
  IF c.saved.cycle = 0 \/ c.cycled < c.saved.cycle THEN c
  ELSE LET sprite == Off(c.avatar.sprite, 1, Sprites)
       IN [c EXCEPT !.cycled = 0, !.avatar.sprite = sprite, !.saved.sprite = sprite,
                    !.dirty = @ \/ (CurrentScreen(c) = "avatar" /\ c.flow = None)]

\* From the backlight to the last repaint.
RestOfPass(c, e, P, feed, dt) ==
  LET d == AutoCycle(UpdateAvatar(Tick(RefreshFeeds(
             HandleButtons(UpdateBacklight(c, e), P), e, feed), dt), e))
  IN PaintFooter(Paint(d, e, dt), e)

-----------------------------------------------------------------------------
\* Starting.

\* run_firmware and Navigation.__init__ on the saved settings, with the
\* payload the boot fetched; the gauges are primed and everything is drawn.
Boot(saved, payload, e) ==
  LET hidden == Categories(saved.hidden)
      dimmed == saved.dim /\ ~e.usb
      c == [saved |-> saved, categories |-> hidden, category |-> 0, screen |-> 0, page |-> 0,
            flow |-> None, theme |-> saved.palette, scale |-> saved.font,
            panel |-> IF dimmed THEN 0 ELSE saved.brightness, dimmed |-> None,
            cycled |-> 0, avatar |-> NewAnimator(saved.sprite),
            gauge |-> Sample(Unprimed, e.volts, e.rssi),
            onBattery |-> FALSE, liveOn |-> FALSE, payload |-> payload,
            dirty |-> FALSE, framed |-> FALSE, blinked |-> FALSE,
            ticked |-> FALSE, dropped |-> {}, beat |-> FALSE, swept |-> FALSE,
            shown |-> None, chrome |-> None, footer |-> None, noted |-> None]
  IN Redraw(ShowScreen(c, saved.boot), e)

BadgeInit ==
  /\ \E s \in Scenes : /\ env = s.world /\ left = s.budget
                       /\ b = Boot(s.saved, Quiet, s.world)
  /\ phase = "run" /\ notice = NoNotice
  /\ spell = 0 /\ fired = [id \in CelebrationIds |-> None]

\* A celebration begins between b and c.
Begins(c) ==
  LET was == b.avatar.celebration  now == c.avatar.celebration
  IN now # None /\ (was = None \/ (was # None /\ (was.id # now.id \/ was.left < now.left)))

\* What the badge is told when it is told anything.
SeenWorking(c) == c.payload.live = "working" /\ c.avatar.online /\ ~c.avatar.battery

\* The histories after a pass from b to c of dt ticks.
Remember(c, dt) ==
  /\ spell' = IF SeenWorking(b) /\ SeenWorking(c) THEN MinOf(spell + dt, MinWork) ELSE 0
  /\ LET read == ToSet(c.avatar.celebrated) \ ToSet(b.avatar.celebrated)
     IN fired' = [id \in CelebrationIds |->
                    IF Begins(c) /\ c.avatar.celebration.id = id THEN {}
                    ELSE IF fired[id] = None THEN None ELSE fired[id] \cup (read \ {id})]

\* While the notice is up nothing is asked; time goes by all the same.
Waits(dt) ==
  /\ spell' = IF SeenWorking(b) THEN MinOf(spell + dt, MinWork) ELSE 0
  /\ UNCHANGED fired

\* One pass with the world as e: the buttons P, an answer, dt ticks.
Pass(e, P, feed, dt) ==
  LET c == Gauges(Elapsed(b, dt), e, dt)
  IN /\ phase = "run"
     /\ env' = e
     /\ IF ShouldPowerOff(c.gauge, ~e.usb)
        THEN /\ phase' = "notice" /\ notice' = [left |-> NoticeTime, held |-> P]
             /\ b' = [c EXCEPT !.shown = [screen |-> "notice"]]
             /\ Waits(dt)
        ELSE /\ UNCHANGED <<phase, notice>>
             /\ b' = RestOfPass(c, e, P, feed, dt)
             /\ Remember(b', dt)

-----------------------------------------------------------------------------
\* What can happen.

Spend(kind) == left[kind] > 0 /\ left' = [left EXCEPT ![kind] = @ - 1]

Idle == Pass(env, {}, None, IF b.ticked THEN 0 ELSE 1) /\ UNCHANGED left

Press == Spend("press") /\ \E P \in Presses : Pass(env, P, None, 0)

Plug  == Spend("power") /\ Pass([env EXCEPT !.usb = ~@], {}, None, 0)
Drain == /\ ~b.ticked /\ Spend("power")
         /\ \E v \in Volts \ {env.volts} : Pass([env EXCEPT !.volts = v], {}, None, 1)
Fade  == /\ ~b.ticked /\ Spend("power")
         /\ \E r \in Signals \ {env.rssi} : Pass([env EXCEPT !.rssi = r], {}, None, 1)

\* The feeds fail for the first time, or one is answered again.
Outage == Spend("feed") /\ env.online /\ Pass([env EXCEPT !.online = FALSE], {}, None, 0)

Answer(kind, payload) ==
  Pass([env EXCEPT !.online = TRUE], {}, [kind |-> kind, payload |-> payload], 0)

\* The live status has no battery cadence unless LIVE is on.
LivePolled == ~b.onBattery \/ b.liveOn

StatusAnswer ==
  /\ LivePolled /\ Spend("feed")
  /\ \E s \in Statuses \ {b.payload.live} : Answer("live_status", [b.payload EXCEPT !.live = s])

CelebrateAnswer ==
  /\ LivePolled /\ Spend("celebrate")
  /\ \E d \in (Directives \cup {None}) \ {b.payload.celebrate} :
       Answer("live_status", [b.payload EXCEPT !.celebrate = d])

LimitsAnswer == Spend("feed") /\ Answer("limits", [b.payload EXCEPT !.limits = ~@])

StatsAnswer ==
  /\ Spend("feed")
  /\ \E l \in BOOLEAN : Answer("stats", [b.payload EXCEPT !.danger = l \/ ~@, !.late = l])

\* power_off_low_battery: a look at the plug, then a second, and so on; no
\* look follows the last second.
Abort ==
  /\ phase = "notice" /\ notice.left > 0 /\ env.usb
  /\ phase' = "run" /\ notice' = NoNotice
  /\ b' = [RestOfPass(b, env, notice.held, None, 0) EXCEPT !.dropped = @ \cup {"notice"}]
  /\ Remember(b', 0)
  /\ UNCHANGED <<env, left>>

Countdown ==
  /\ phase = "notice" /\ notice.left > 0 /\ ~env.usb
  /\ notice' = [notice EXCEPT !.left = @ - 1]
  /\ b' = Elapsed(b, 1) /\ Waits(1)
  /\ UNCHANGED <<env, phase, left>>

PowerOff ==
  /\ phase = "notice" /\ notice.left = 0
  /\ phase' = "off" /\ notice' = NoNotice
  /\ UNCHANGED <<b, env, left, spell, fired>>

PlugHalted ==
  /\ phase # "run" /\ Spend("power")
  /\ env' = [env EXCEPT !.usb = ~@]
  /\ UNCHANGED <<b, phase, notice, spell, fired>>

\* A button wakes the badge; the reset button or a pulled battery restarts it
\* at any time.  Only the settings file survives.  The boot joins and fetches,
\* over and over until it is answered, and looks at nothing else.
Answered(e) == [e EXCEPT !.online = TRUE]

Forget == spell' = 0 /\ fired' = [id \in CelebrationIds |-> None]

Start ==
  /\ phase' = "boot" /\ notice' = NoNotice
  /\ env' = Answered(env)
  /\ b' = [Boot(b.saved, b.payload, Answered(env)) EXCEPT !.shown = [screen |-> "boot"]]
  /\ Forget

Wake    == phase = "off" /\ Spend("press") /\ Start
Restart == phase # "off" /\ Spend("power") /\ Start

\* The brightness was applied when the boot began.
Loaded ==
  /\ phase = "boot" /\ phase' = "run"
  /\ env' = Answered(env)
  /\ b' = [Boot(b.saved, b.payload, Answered(env)) EXCEPT !.panel = b.panel]
  /\ Forget /\ UNCHANGED <<notice, left>>

Loop  == Idle \/ Abort \/ Countdown \/ PowerOff
World == \/ Press \/ Plug \/ Drain \/ Fade \/ Outage
         \/ StatusAnswer \/ CelebrateAnswer \/ LimitsAnswer \/ StatsAnswer
         \/ PlugHalted \/ Wake \/ Restart \/ Loaded

BadgeNext == Loop \/ World

\* The loop never stops while it runs: WF_badgeVars(Loop), with its ENABLED
\* (phase is "run" or "notice", as every one of its steps changes something)
\* and the eventuality written out.  Nothing says that a boot ends.
LoopRuns == []<>(phase \in {"off", "boot"}) \/ []<><<Loop>>_badgeVars

BadgeSpec == BadgeInit /\ [][BadgeNext]_badgeVars /\ LoopRuns

-----------------------------------------------------------------------------
\* Properties.

\* Every index the loop uses is inside the tables it was made for, whichever
\* screens were hidden or brought back, by whichever flow (IndexError in
\* navigation.py:83 or :87 would stop the badge); a flourish has an end.
BadgeTypeOK ==
  /\ env \in Worlds
  /\ b.saved \in Settings
  /\ b.category \in 0 .. Len(b.categories) - 1
  /\ b.screen \in 0 .. Len(CurrentScreens(b)) - 1
  /\ b.page \in 0 .. ProjectPages - 1
  /\ (b.flow # None /\ b.flow.kind = "display") => b.flow.at \in 0 .. Len(Rows) - 1
  /\ b.panel \in 0 .. BrightnessTop
  /\ b.avatar.visual \in {"working", "idle", "waiting", "done", "standby"}
  /\ b.avatar.visual = "done" => b.avatar.done # None
  /\ b.gauge.cells \in 0 .. Full

\* "celebrate ONCE" (avatar_animation.py:317): an id is celebrated again only
\* when so many others came in between that it was forgotten; and a
\* celebration takes the panel from whatever was on it, be it another screen
\* or an open editor, unless the avatar's screen is hidden.
CelebrationTakesTheStage ==
  [][ Begins(b') =>
        LET id == b'.avatar.celebration.id
        IN /\ fired[id] = None \/ (fired[id] # None /\ Cardinality(fired[id]) >= Remembered)
           /\ b'.flow = None
           /\ Navigable(b', "avatar") => b'.shown = Picture(b') /\ CurrentScreen(b') = "avatar"
    ]_badgeVars

\* DONE! is only said of a task the badge saw being worked on, without a gap
\* (an outage, the battery), for MinWork: "genuine completion".  The notice of
\* a power-off that was called off is no gap to it, though it asked nothing.
DoneIsEarned ==
  [][ b'.avatar.visual = "done" /\ b.avatar.visual # "done" => spell >= MinWork ]_badgeVars

\* Outside its own preview nothing is drawn with a palette, font or sprite
\* that is not the saved one, however the preview was left: by B, by a
\* celebration, by a restart.  The screens one can reach are the saved ones
\* too, unless a celebration closed the SCREENS editor before its on_finish.
LiveIsSaved ==
  /\ b.theme = b.saved.palette /\ b.scale = b.saved.font /\ b.avatar.sprite = b.saved.sprite
  /\ ((b.flow = None \/ b.flow.kind # "screens") /\ "screens" \notin b.dropped)
       => b.categories = Categories(b.saved.hidden)

\* On battery with DIM ON BATTERY the panel is at its dimmest, else at the
\* brightness the user set: once the loop went round after an editor, and
\* except when a celebration closed the DISPLAY editor or what was opened from
\* it (its brightness preview and its reset stay on the panel).
FromDisplay == {"display", "font", "speed", "demo", "about"}

PanelIsDimmed ==
  b.flow = None /\ b.dimmed # None /\ phase = "run" /\ b.dropped \cap FromDisplay = {}
    => b.panel = Panel(b, b.saved.dim /\ ~env.usb)

\* The loop repaints "only when navigation or data changed": what is on the
\* panel after a pass is what the state calls for, also when the change came
\* while something else was on it.  A power-off that was called off leaves its
\* notice on the panel until something else changes.
\*
\* The footer is at most one pass behind, in a pass that animates the battery.
\* Only where the state is back at what was noted before that animation, a
\* charger plugged for a pass, what it drew stays ("the moment their cached
\* values change", navigation.py:341, is then missed).
\*
\* The light ("palette status pen while fetches succeed, black while they are
\* failing", screen_shared.py:83-85) and the word over B are right on the
\* avatar's screen, but for the word while LIVE is on, which stays when the
\* power changes; a screen with a periodic repaint has the light right with
\* each.  On any other screen both are those of its last full redraw.
LightIsRight == b.chrome.light = env.online

FooterIsCurrent ==
  LET f == Footer(b, env)
  IN \/ b.footer = f
     \/ b.blinked /\ [b.footer EXCEPT !.wifi = f.wifi] = f
     \/ b.swept /\ b.noted = f

PanelIsCurrent ==
  phase = "run" /\ "notice" \notin b.dropped =>
    /\ b.shown = Picture(b)
    /\ b.flow = None => FooterIsCurrent
    /\ b.flow = None /\ CurrentScreen(b) = "avatar" =>
         /\ LightIsRight
         /\ b.chrome.label = ContextLabel(b) \/ (b.liveOn /\ b.chrome.label \in {"LIVE:ON", None})
    /\ b.flow = None /\ CurrentScreen(b) \in {"usage", "words"} /\ b.ticked => LightIsRight

\* The bubble beside a moving avatar speaks of what is the case: a warning
\* ends with its cause, and one that ranks higher is never kept waiting.
Justified(a, payload) ==
  CASE a.bubble = "celebration" -> a.celebration # None
    [] a.bubble = "quip"   -> a.visual = "waiting"
    [] a.bubble = "limit"  -> a.visual # "waiting" /\ payload.limits
    [] a.bubble = "streak" -> a.visual = "idle" /\ payload.danger /\ ~a.director.limit.on
    [] a.bubble = "quote"  -> a.visual = "idle" /\ ~a.director.streak.on
    [] a.bubble = None     -> a.visual # "waiting"

BubbleIsDue ==
  b.framed /\ ~b.avatar.battery =>
    /\ Justified(b.avatar, b.payload)
    /\ (b.avatar.celebration # None) = (b.avatar.bubble = "celebration")

\* A cell that stays low on battery is switched off in the end (and not just
\* warned about): the median reaches the cutoff, the notice runs out.  Not so
\* in a boot that is never answered (main.py:259, :308 retry for ever), where
\* nothing looks at the cell "so the Li-ion cell is never drained toward its
\* damage zone" (navigation.py:383).
EmptyCellTurnsOff ==
  <>[](~env.usb /\ env.volts <= CutoffVolts) /\ []<>(phase # "boot") => <>[](phase = "off")
=============================================================================

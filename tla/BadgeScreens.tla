---------------------------- MODULE BadgeScreens ----------------------------
(***************************************************************************)
(* What the buttons of the LCD badge reach: the screen registry            *)
(* (screen_registry.py), the settings written through to flash             *)
(* (settings.py), the flows that B opens (screens_options.py and the       *)
(* trophies' EXPLAIN) and the two-axis navigation (navigation.py).  The    *)
(* badge is a record b and every method a function of it; b.saved is the   *)
(* settings file, b.dirty asks for a full redraw at the end of the pass.   *)
(***************************************************************************)
EXTENDS BadgeAvatar, FiniteSets, SequencesExt

CONSTANTS
  Registry,      \* PORTED_SCREENS: [id, category], in order
  CategoryOrder, \* CATEGORY_ORDER, the order of the categories
  Rows,          \* the kinds of the rows of the DISPLAY list, in order
  Palettes, Fonts, Sprites,  \* the presets, from 0; their default is 0
  BrightnessTop, \* the brightness goes from 0 to this, the default
  Intervals,     \* CYCLE_INTERVAL_MINUTES in ticks, shortest first
  DemoSteps,     \* the length of DEMO_SEQUENCE, a tick each
  Trophies,      \* TROPHY_FAMILIES
  ProjectPages   \* the positions of the 4-up window over the projects

\* The k-th of a set of places, and what a list has at a set of its places.
Nth(S, k) == CHOOSE i \in S : Cardinality({j \in S : j <= i}) = k
Picked(list, S) == [k \in 1 .. Cardinality(S) |-> list[Nth(S, k)]]

Places   == 1 .. Len(Registry)
IdsAt(S) == Picked([i \in Places |-> Registry[i].id], S)
Ids      == {e.id : e \in ToSet(Registry)}
Options  == {e.id : e \in {f \in ToSet(Registry) : f.category = "OPTIONS"}}
DataList == IdsAt({i \in Places : Registry[i].category # "OPTIONS"})

FlowKinds == {"display", "font", "speed", "demo", "about",
              "screens", "palettes", "avatar", "explain"}
Flows == [kind: FlowKinds, at: Int, alt: Int, finished: BOOLEAN]

ASSUME ScreensAssumption ==
  /\ Registry \in Seq(ToSet(Registry)) /\ BrightnessTop \in Nat
  /\ \A i, j \in 1 .. Len(Registry) : i # j => Registry[i].id # Registry[j].id
  /\ CategoryOrder \in Seq(ToSet(CategoryOrder)) /\ Contains(CategoryOrder, "OPTIONS")
  /\ \A i, j \in 1 .. Len(CategoryOrder) : i # j => CategoryOrder[i] # CategoryOrder[j]
  /\ "avatar" \in Ids /\ DataList # <<>>
  /\ {"options_display", "options_screens"} \subseteq Options
  /\ \A i \in Places : Registry[i].id = "options_display" =>
       \A j \in 1 .. i - 1 : Registry[j].category # "OPTIONS"
  /\ Rows \in Seq({"boot", "font", "speed", "brightness", "dim", "saver", "wifi", "demo",
                   "reset", "about", "other"})
  /\ None \notin Flows
  /\ \A n \in {Len(Rows), Palettes, Fonts, Sprites, Len(Intervals), DemoSteps, Trophies,
               ProjectPages} : n \in Nat \ {0}

Defaults ==
  [palette |-> 0, font |-> 0, sprite |-> 0, brightness |-> BrightnessTop, dim |-> TRUE,
   boot |-> "avatar", hidden |-> {}, saverOff |-> FALSE, wifi |-> TRUE, cycle |-> 0]

Settings ==
  [palette: 0 .. Palettes - 1, font: 0 .. Fonts - 1, sprite: 0 .. Sprites - 1,
   brightness: 0 .. BrightnessTop, dim: BOOLEAN, boot: Ids, hidden: SUBSET (Ids \ Options),
   saverOff: BOOLEAN, wifi: BOOLEAN, cycle: {0} \cup {Intervals[i] : i \in 1 .. Len(Intervals)}]

Off(i, by, n) == (i + by) % n
At(list, x) == CHOOSE i \in 1 .. Len(list) : list[i] = x

-----------------------------------------------------------------------------
\* Where the badge is.

ShownAt(category, hidden) ==
  {i \in Places : Registry[i].category = category /\ Registry[i].id \notin hidden}
Shown(category, hidden) == IdsAt(ShownAt(category, hidden))

\* categories_with_screens: a list that hides everything is ignored.
Categories(hidden) ==
  LET kept  == IF Ids \subseteq hidden THEN {} ELSE hidden
      lists == [i \in 1 .. Len(CategoryOrder) |-> Shown(CategoryOrder[i], kept)]
  IN Picked(lists, {i \in 1 .. Len(CategoryOrder) : lists[i] # <<>>})

CurrentScreens(b) == b.categories[b.category + 1]
CurrentScreen(b)  == CurrentScreens(b)[b.screen + 1]
Navigable(b, id)  == \E c \in 1 .. Len(b.categories) : Contains(b.categories[c], id)

\* Mutant: the jump leaves the open flow in charge of the panel.
JumpUnderFlow(b, id) ==
  IF ~Navigable(b, id) THEN [b EXCEPT !.page = 0]
  ELSE LET c == CHOOSE c \in 1 .. Len(b.categories) : Contains(b.categories[c], id)
       IN [b EXCEPT !.page = 0, !.category = c - 1, !.screen = At(b.categories[c], id) - 1]

\* _show_screen: drops the flow, even when the screen is nowhere to be found.
ShowScreen(b, id) ==
  LET there == {c \in 1 .. Len(b.categories) : Contains(b.categories[c], id)}
      left  == [b EXCEPT !.flow = None, !.page = 0]
  IN IF there = {} THEN left
     ELSE LET c == CHOOSE c \in there : TRUE
          IN [left EXCEPT !.category = c - 1, !.screen = At(b.categories[c], id) - 1]

-----------------------------------------------------------------------------
\* The flows: [kind, at, alt, finished]; at is the row, pick or step.

Flow(kind, at, alt) == [kind |-> kind, at |-> at, alt |-> alt, finished |-> FALSE]

\* The avatar preview opens on the cycle entry (the last) while it is active.
\* An interval that is not in the list would open on the second.
AvatarFlow(b) ==
  Flow("avatar",
       IF b.saved.cycle # 0 THEN Sprites ELSE b.avatar.sprite,
       IF b.saved.cycle # 0 THEN At(Intervals, b.saved.cycle) ELSE MinOf(2, Len(Intervals)))

\* B_FLOWS.
Opened(b) ==
  CASE CurrentScreen(b) = "options_display"  -> Flow("display", 0, 0)
    [] CurrentScreen(b) = "options_screens"  -> Flow("screens", 0, 0)
    [] CurrentScreen(b) = "options_palettes" -> Flow("palettes", b.saved.palette, 0)
    [] CurrentScreen(b) = "options_avatar"   -> AvatarFlow(b)
    [] CurrentScreen(b) = "trophies"         -> Flow("explain", 0, 0)
    [] OTHER -> None

\* apply_brightness: dimmed is the floor that brightness 0 maps to as well.
Panel(b, dimmed) == IF dimmed THEN 0 ELSE b.saved.brightness

\* _reset_defaults: the indices into the rebuilt categories stay.
ResetDefaults(b) ==
  [b EXCEPT !.saved = Defaults, !.panel = Defaults.brightness,
            !.theme = Defaults.palette, !.scale = Defaults.font,
            !.avatar.sprite = Defaults.sprite, !.categories = Categories(Defaults.hidden)]

NextBoot(b, by) ==
  LET i == IF Contains(DataList, b.saved.boot) THEN At(DataList, b.saved.boot) - 1 ELSE 0
  IN DataList[Off(i, by, Len(DataList)) + 1]

\* Mutant: the level is not clamped.
BrighterStill(level, by) == level + by

Brighter(level, by) == MaxOf(0, MinOf(BrightnessTop, level + by))

\* The step functions of _display_rows.  "other" rows write a setting that
\* nothing here reads (tokens, info lines, auto boot).
StepRow(b, row, by) ==
  CASE row = "boot"  -> [b EXCEPT !.saved.boot = NextBoot(b, by)]
    [] row = "font"  -> [b EXCEPT !.flow = Flow("font", b.saved.font, 0)]
    [] row = "speed" -> [b EXCEPT !.flow = Flow("speed", 0, 0)]
    [] row = "brightness" ->
         LET level == Brighter(b.saved.brightness, by)
         IN [b EXCEPT !.saved.brightness = level, !.panel = level]
    [] row = "dim"   -> [b EXCEPT !.saved.dim = ~@]
    [] row = "saver" -> [b EXCEPT !.saved.saverOff = ~@]
    [] row = "wifi"  -> [b EXCEPT !.saved.wifi = ~@]
    [] row = "demo"  -> [b EXCEPT !.flow = Flow("demo", 0, 1)]
    [] row = "reset" -> ResetDefaults(b)
    [] row = "about" -> [b EXCEPT !.flow = Flow("about", 0, 0)]
    [] row = "other" -> b

Toggle(b, id) ==
  [b EXCEPT !.saved.hidden = IF id \in @ THEN @ \ {id} ELSE @ \cup {id}]

\* How far a press moves the selection of a flow of n entries.
Across(P) == (IF "C" \in P THEN 1 ELSE 0) - (IF "A" \in P THEN 1 ELSE 0)
Along(P)  == (IF "DOWN" \in P THEN 1 ELSE 0) - (IF "UP" \in P THEN 1 ELSE 0)
Confirmed(b, P) == [b EXCEPT !.flow.finished = "B" \in P]
Moved(b, by, n) == [b EXCEPT !.flow.at = Off(@, by, n)]

\* The rows are stepped with A then C and may replace the flow itself; only
\* the flow that was open then hears the B.
DisplayButtons(b, P) ==
  LET moved == Moved(b, Along(P), Len(Rows))
      row   == Rows[moved.flow.at + 1]
      left  == IF "A" \in P THEN StepRow(moved, row, -1) ELSE moved
      right == IF "C" \in P THEN StepRow(left, row, 1) ELSE left
  IN IF right.flow.kind = "display" THEN Confirmed(right, P) ELSE right

ScreensButtons(b, P) ==
  LET moved == Moved(b, Along(P), Len(DataList))
  IN Confirmed(IF {"A", "C"} \cap P = {} THEN moved
               ELSE Toggle(moved, DataList[moved.flow.at + 1]), P)

\* A and UP, C and DOWN are the same press of a preview.
Cycled(P) == (IF {"C", "DOWN"} \cap P # {} THEN 1 ELSE 0) - (IF {"A", "UP"} \cap P # {} THEN 1 ELSE 0)

\* Mutant: the preview draws its candidate with the shared theme.
PaletteOnTheme(b, P) ==
  LET c == Moved(b, Cycled(P), Palettes) IN Confirmed([c EXCEPT !.theme = c.flow.at], P)

PaletteButtons(b, P) == Confirmed(Moved(b, Cycled(P), Palettes), P)
FontButtons(b, P)    == Confirmed(Moved(b, Cycled(P), Fonts), P)

\* On the cycle entry UP and DOWN choose the interval, elsewhere a pose.
AvatarButtons(b, P) ==
  LET c == Moved(b, Across(P), Sprites + 1)
  IN Confirmed(IF c.flow.at # Sprites THEN c
               ELSE [c EXCEPT !.flow.alt = Off(@ - 1, Along(P), Len(Intervals)) + 1], P)

FlowButtons(b, P) ==
  CASE b.flow.kind = "display"  -> DisplayButtons(b, P)
    [] b.flow.kind = "screens"  -> ScreensButtons(b, P)
    [] b.flow.kind = "palettes" -> PaletteButtons(b, P)
    [] b.flow.kind = "font"     -> FontButtons(b, P)
    [] b.flow.kind = "avatar"   -> AvatarButtons(b, P)
    [] b.flow.kind = "speed"    -> Confirmed(b, P)
    [] b.flow.kind = "explain"  -> Confirmed(Moved(b, Across(P) + 5 * Along(P), Trophies), P)
    [] b.flow.kind \in {"demo", "about"} -> [b EXCEPT !.flow.finished = P # {}]


OnFinish(b) ==
  LET at == b.flow.at
  IN CASE b.flow.kind = "screens" ->
            ShowScreen([b EXCEPT !.categories = Categories(b.saved.hidden)], "options_screens")
       [] b.flow.kind = "palettes" -> [b EXCEPT !.saved.palette = at, !.theme = at]
       [] b.flow.kind = "font" -> [b EXCEPT !.saved.font = at, !.scale = at]
       [] b.flow.kind = "avatar" /\ at = Sprites ->
            [b EXCEPT !.saved.cycle = Intervals[b.flow.alt], !.cycled = 0]
       [] b.flow.kind = "avatar" /\ at # Sprites ->
            [b EXCEPT !.saved.sprite = at, !.avatar.sprite = at, !.saved.cycle = 0]
       [] b.flow.kind \in {"display", "speed", "demo", "about", "explain"} -> b

-----------------------------------------------------------------------------
\* handle_buttons.

Turn(b, by) ==
  [b EXCEPT !.category = Off(@, by, Len(b.categories)), !.screen = 0, !.page = 0]
Step(b, by) ==
  [b EXCEPT !.screen = Off(@, by, Len(CurrentScreens(b))), !.page = 0]

PressB(b) ==
  CASE CurrentScreen(b) = "avatar" /\ b.onBattery -> [b EXCEPT !.liveOn = ~@, !.dirty = TRUE]
    [] CurrentScreen(b) = "projects" /\ ProjectPages > 1 ->
         [b EXCEPT !.page = Off(@, 1, ProjectPages), !.dirty = TRUE]
    [] OTHER -> IF Opened(b) = None THEN b ELSE [b EXCEPT !.flow = Opened(b), !.dirty = TRUE]

NavigationButtons(b, P) ==
  LET u == IF "UP" \in P THEN Turn(b, -1) ELSE b
      d == IF "DOWN" \in P THEN Turn(u, 1) ELSE u
      l == IF "A" \in P THEN Step(d, -1) ELSE d
      r == IF "C" \in P THEN Step(l, 1) ELSE l
      m == [r EXCEPT !.dirty = @ \/ {"UP", "DOWN", "A", "C"} \cap P # {}]
  IN IF "B" \in P THEN PressB(m) ELSE m

\* The speed preview does not hear UP and DOWN.
Heard(b, P) == P \ (IF b.flow.kind = "speed" THEN {"UP", "DOWN"} ELSE {}) # {}

\* A flow owns every button until it is finished.
HandleButtons(b, P) ==
  IF b.flow = None THEN NavigationButtons(b, P)
  ELSE LET pressed == FlowButtons(b, P)
       IN IF ~pressed.flow.finished THEN [pressed EXCEPT !.dirty = @ \/ Heard(b, P)]
          ELSE [OnFinish(pressed) EXCEPT !.flow = None, !.dimmed = None, !.dirty = TRUE]
=============================================================================

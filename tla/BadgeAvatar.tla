---------------------------- MODULE BadgeAvatar ----------------------------
(***************************************************************************)
(* The avatar of the LCD badge: the state machine of avatar_animation.py   *)
(* (live status to visual state, the done flourish, the celebrations the   *)
(* server asks for) and the arbiter of avatar_bubbles.py.  The animator is *)
(* a record and every method a function of it; a deadline is the number of *)
(* ticks left to it, so time passes by Elapse.  What is random or drawn    *)
(* (which line, which word, the frames) is left out.                       *)
(***************************************************************************)
EXTENDS BadgePower

CONSTANTS
  MinWork,              \* MIN_WORK_MILLISECONDS, like the rest in ticks
  DoneTime,             \* DONE_MILLISECONDS
  CelebrationFallback,  \* CELEBRATION_FALLBACK_MILLISECONDS
  CelebrationMaximum,   \* CELEBRATION_MAXIMUM_MILLISECONDS
  Remembered,           \* CELEBRATED_IDS_REMEMBERED
  QuipRotate,           \* BOTTLENECK_ROTATE_MILLISECONDS
  Tier1, Tier2,         \* BOTTLENECK_TIER_n_MILLISECONDS
  LimitOn, LimitOff,    \* LIMIT_ON_, LIMIT_OFF_MILLISECONDS
  StreakOn, StreakOff,  \* STREAK_ON_MILLISECONDS; StreakOff[late]
  QuoteTime,            \* QUOTE_SHOW_MILLISECONDS
  QuoteInterval         \* one value of _quote_interval

ASSUME AvatarAssumption ==
  /\ \A n \in {MinWork, DoneTime, CelebrationFallback, CelebrationMaximum, Remembered,
               QuipRotate, Tier1, LimitOn, LimitOff, StreakOn, QuoteTime, QuoteInterval} :
       n \in Nat \ {0}
  /\ Tier2 \in Nat /\ Tier1 < Tier2
  /\ StreakOff \in [BOOLEAN -> Nat \ {0}]
  /\ None \notin {"working", "idle", "waiting", "celebration", "quip", "limit", "streak", "quote"}

MinOf(a, b) == IF a <= b THEN a ELSE b
MaxOf(a, b) == IF a >= b THEN a ELSE b

Resting == [active |-> FALSE, on |-> FALSE, left |-> 0]

NewDirector ==
  [quip |-> None, entered |-> 0, rotate |-> 0, waiting |-> FALSE,
   limit |-> Resting, streak |-> Resting,
   due |-> QuoteInterval, pending |-> FALSE, quote |-> 0]

NewAnimator(sprite) ==
  [battery |-> FALSE, wasBattery |-> FALSE, online |-> TRUE, wasOnline |-> TRUE,
   sprite |-> sprite, visual |-> "standby", previous |-> None,
   worked |-> 0, done |-> None, redraw |-> FALSE,
   celebration |-> None, celebrated |-> <<>>, jump |-> FALSE,
   bubble |-> None, director |-> NewDirector]

-----------------------------------------------------------------------------
\* One tick on every deadline.

Down(n) == MaxOf(n - 1, 0)

Sooner(c) == [c EXCEPT !.left = Down(@)]

ElapseDirector(d) ==
  [d EXCEPT !.entered = IF d.waiting THEN MinOf(@ + 1, Tier2) ELSE 0,
            !.rotate = Down(@), !.limit = Sooner(@), !.streak = Sooner(@),
            !.due = Down(@), !.quote = Down(@)]

Elapse(a) ==
  [a EXCEPT
    !.worked = IF a.previous = "working" THEN MinOf(@ + 1, MinWork) ELSE 0,
    !.done = IF @ = None THEN None ELSE Down(@),
    !.celebration = IF @ = None THEN None ELSE Sooner(@),
    !.director = ElapseDirector(@)]

-----------------------------------------------------------------------------
\* Celebrations.  A directive is [id, life]: the ticks to its expires_at when
\* the badge first reads it, 0 when that has passed, None when it has none.

\* Mutant: an id is only told apart from the celebration on the stage.
OnStage(a, id) == a.celebration # None /\ a.celebration.id = id

Celebrated(a, id) == \E i \in 1 .. Len(a.celebrated) : a.celebrated[i] = id

Window(d) == IF d.life = None THEN CelebrationFallback
             ELSE MinOf(d.life, CelebrationMaximum)

UpdateCelebration(a, payload) ==
  LET over == a.celebration # None /\ a.celebration.left = 0
      a1 == IF over THEN [a EXCEPT !.celebration = None, !.redraw = TRUE] ELSE a
      d  == payload.celebrate
      kept == Append(a1.celebrated, d.id)
      a2 == [a1 EXCEPT !.celebrated = IF Len(kept) > Remembered THEN Tail(kept) ELSE kept]
  IN CASE d = None -> a1
       [] d # None /\ Celebrated(a1, d.id) -> a1
       [] d # None /\ ~Celebrated(a1, d.id) /\ d.life = 0 -> a2
       [] OTHER -> [a2 EXCEPT !.celebration = [id |-> d.id, left |-> Window(d)],
                              !.jump = TRUE, !.redraw = TRUE]

-----------------------------------------------------------------------------
\* The state machine.

SetVisual(a, state) ==
  IF state = a.visual THEN a ELSE [a EXCEPT !.visual = state, !.redraw = TRUE]

\* no_processes reads as idle, anything else unknown as no status; stale data
\* (on battery with the live channel off, or offline) as no status.
Status(a, payload) ==
  IF a.battery \/ ~a.online \/ payload.live \notin {"working", "idle", "waiting", "no_processes"}
  THEN None
  ELSE IF payload.live = "no_processes" THEN "idle" ELSE payload.live

OnlineEdge(a) ==
  IF a.online = a.wasOnline THEN a
  ELSE [a EXCEPT !.wasOnline = a.online, !.redraw = TRUE]

BatteryEdge(a) ==
  IF a.battery = a.wasBattery THEN a
  ELSE LET b == [a EXCEPT !.wasBattery = a.battery, !.redraw = TRUE]
       IN IF ~a.battery THEN b
          ELSE [b EXCEPT !.visual = "standby", !.previous = None, !.done = None,
                         !.celebration = None]

Rest(status) == IF status = None THEN "standby" ELSE status

DoneEnds(a, status) ==
  IF a.done # 0 THEN a
  ELSE LET b == [a EXCEPT !.done = None]
       IN IF a.visual = "done" THEN SetVisual(b, Rest(status)) ELSE b

Spell(a, status) == IF status = "working" THEN 0 ELSE a.worked

\* Mutant: while nothing is known the last known status stands.
FollowKnown(a, status) ==
  IF status \in {a.previous, None} THEN a
  ELSE LET b == [a EXCEPT !.previous = status, !.done = None, !.worked = Spell(a, status)]
       IN IF a.previous = "working" /\ status = "idle" /\ b.worked >= MinWork
          THEN [SetVisual(b, "done") EXCEPT !.done = DoneTime]
          ELSE SetVisual(b, Rest(status))

Follow(a, status) ==
  IF status = a.previous THEN a
  ELSE LET b == [a EXCEPT !.previous = status, !.done = None, !.worked = Spell(a, status)]
       IN IF a.previous = "working" /\ status = "idle" /\ b.worked >= MinWork
          THEN [SetVisual(b, "done") EXCEPT !.done = DoneTime]
          ELSE SetVisual(b, Rest(status))

UpdateState(a, payload) ==
  LET status == Status(a, payload)
  IN Follow(DoneEnds(BatteryEdge(OnlineEdge(UpdateCelebration(a, payload))), status), status)

ChromeLabel(a) == IF a.online THEN a.visual ELSE "offline"

-----------------------------------------------------------------------------
\* The bubbles.

Quip(d, waiting) ==
  LET entered == IF waiting /\ ~d.waiting
                 THEN [d EXCEPT !.entered = 0, !.rotate = 0] ELSE d
      b == [entered EXCEPT !.waiting = waiting]
      tier == CASE b.entered < Tier1 -> 0
                [] b.entered >= Tier1 /\ b.entered < Tier2 -> 1
                [] OTHER -> 2
  IN CASE ~waiting -> [b EXCEPT !.quip = None]
       [] waiting /\ b.rotate > 0 -> b
       [] OTHER -> [b EXCEPT !.quip = tier, !.rotate = QuipRotate]

\* Mutant: the alert's end is only noticed when its phase is over.
LateEnd(c, active, on, off) ==
  LET b == IF active /\ ~c.active THEN [c EXCEPT !.on = FALSE, !.left = 0] ELSE c
  IN IF b.left > 0 THEN b
     ELSE IF ~b.on /\ active THEN [active |-> TRUE, on |-> TRUE, left |-> on]
          ELSE [active |-> active, on |-> FALSE, left |-> off]

\* _advance_limit and _advance_streak: promptly on, then off, while it lasts.
Advance(c, active, on, off) ==
  LET left == IF active /\ ~c.active THEN 0 ELSE c.left
      wasOn == c.on /\ c.active
  IN CASE ~active -> Resting
       [] active /\ left > 0 -> [active |-> TRUE, on |-> wasOn, left |-> left]
       [] active /\ left = 0 /\ ~wasOn -> [active |-> TRUE, on |-> TRUE, left |-> on]
       [] OTHER -> [active |-> TRUE, on |-> FALSE, left |-> off]

Quote(d, visual) ==
  LET pending == d.pending \/ d.due = 0
  IN IF pending /\ visual = "idle"
     THEN [d EXCEPT !.pending = FALSE, !.due = QuoteInterval, !.quote = QuoteTime]
     ELSE [d EXCEPT !.pending = pending]

\* payload.limits: a window of mine is near its limit.  payload.danger: the
\* streak is alive, nothing was done today and the hour is late; payload.late.
Pick(d, visual, payload) ==
  LET b == [Quip(d, visual = "waiting") EXCEPT
              !.limit  = Advance(@, payload.limits, LimitOn, LimitOff),
              !.streak = Advance(@, payload.danger, StreakOn, StreakOff[payload.late])]
      q == Quote(b, visual)
  IN CASE visual = "waiting" -> [director |-> b, bubble |-> "quip"]
       [] visual # "waiting" /\ b.limit.on -> [director |-> b, bubble |-> "limit"]
       [] visual = "idle" /\ ~b.limit.on /\ b.streak.on -> [director |-> b, bubble |-> "streak"]
       [] OTHER -> [director |-> q,
                    bubble |-> IF q.quote > 0 /\ visual = "idle" THEN "quote" ELSE None]

\* One stage frame of update: nothing moves on battery, and a celebration
\* owns the bubble while the director stands still.
StageFrame(a, payload) ==
  CASE a.battery -> a
    [] ~a.battery /\ a.celebration # None -> [a EXCEPT !.bubble = "celebration"]
    [] OTHER -> LET p == Pick(a.director, a.visual, payload)
                IN [a EXCEPT !.director = p.director, !.bubble = p.bubble]
=============================================================================

---------------------------- MODULE SimpleBadge ----------------------------
(***************************************************************************)
(* The e-ink badge, firmware-badger/: it sleeps between button presses,    *)
(* and every wake starts the program anew from what it keeps in flash.     *)
(* Only a wake without numbers and button B go to the server.              *)
(***************************************************************************)
EXTENDS HttpsConnection

CONSTANTS
  StatsFeed, LimitsFeed,
  Screens,     \* the number of screens
  MaxFaults    \* bound on faulty answers

VARIABLES
  server,  \* server[k]: the version and quality of feed k
  route,   \* the badge can join a network that leads to the server
  flash,   \* the saved State: versions of the numbers, 0 for none
  faults

simpleVars == <<server, route, flash, faults>>

SimpleTypeOK ==
  /\ flash \in [summary: Nat, accounts: Nat, error: BOOLEAN, screen: 0 .. Screens - 1]
  /\ faults \in Nat

SimpleInit ==
  flash = [summary |-> 0, accounts |-> 0, error |-> FALSE, screen |-> 0]

-----------------------------------------------------------------------------
\* A try has a saved state and the faults it met.
Try(st, n) == [st |-> st, faults |-> n]

KindsOf == IF route THEN Whole \cup Faulty ELSE {"lost"}

\* The body of feed k came and can be parsed; the schema is not looked at.
Usable(k, r) ==
  r.how = "answer" /\ server[k].ver > 0 /\ server[k].quality \in {"good", "schema"}

\* Mutant: an error stays when a later refresh succeeds.
GotSticky(st, accounts) ==
  [st EXCEPT !.summary = server[StatsFeed].ver, !.accounts = accounts]

\* _refresh after fetch_all.
Got(st, accounts) ==
  [st EXCEPT !.summary = server[StatsFeed].ver, !.accounts = accounts, !.error = FALSE]

\* fetch_all: the stats or nothing; the limits, or no accounts, unless the
\* error of asking for them is one that nobody expects.
WithLimits(st, r) ==
  {Try(IF q.how = "IndexError" THEN [st EXCEPT !.error = TRUE]
       ELSE Got(st, IF Usable(LimitsFeed, q) THEN server[LimitsFeed].ver ELSE 0),
       r.faults + q.faults) :
     q \in Get(r.sock, LimitsFeed, route, KindsOf)}

\* _try_refresh: any exception is saved as the error, beside the old numbers.
Refreshes(st) ==
  UNION {IF Usable(StatsFeed, r) THEN WithLimits(st, r)
         ELSE {Try([st EXCEPT !.error = TRUE], r.faults)} :
           r \in Get(Closed, StatsFeed, route, KindsOf)}

\* init, on every wake.
Started == IF flash.summary = 0 THEN Refreshes(flash) ELSE {Try(flash, 0)}

\* update, for the button that woke the badge.
Pressed(t, button) ==
  CASE button = "B"  -> {Try(u.st, t.faults + u.faults) : u \in Refreshes(t.st)}
    [] button = "up" -> {Try([t.st EXCEPT !.screen = (@ - 1) % Screens], t.faults)}
    [] button = "down" -> {Try([t.st EXCEPT !.screen = (@ + 1) % Screens], t.faults)}
    [] button = "none" -> {t}

Wake ==
  /\ \E button \in {"B", "up", "down", "none"} :
     \E t \in UNION {Pressed(s, button) : s \in Started} :
       /\ faults + t.faults <= MaxFaults
       /\ flash' = t.st
       /\ faults' = faults + t.faults
  /\ UNCHANGED <<server, route>>

=============================================================================

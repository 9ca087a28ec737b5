----------------------------- MODULE BadgeFeeds -----------------------------
(***************************************************************************)
(* How the LCD badge gets its data: the boot of firmware/main.py (join a   *)
(* network, set the clock, fetch everything, until it works) and then the  *)
(* feed scheduler of firmware/feeds.py, polled from the input loop.        *)
(*                                                                         *)
(* Time is counted in ticks of the shortest cadence; an age stops at the   *)
(* longest cadence, beyond which nothing depends on it.                    *)
(***************************************************************************)
EXTENDS HttpsConnection, FiniteSets, Sequences, SequencesExt

CONSTANTS
  FeedTable,       \* the feeds in the order of FEED_TABLE, the stats first
  UsbCadence,      \* per feed, in ticks
  BatteryCadence,  \* per feed; Off for the live status
  Off,
  BackoffStart,    \* ERROR_BACKOFF_START_MILLISECONDS
  BackoffMax,      \* ERROR_BACKOFF_MAXIMUM_MILLISECONDS
  WifiSources,     \* the configured networks of each place, in the order asked
  OnAir,           \* the networks that can be on the air
  Hidden,          \* those of them a scan does not see
  MayBreak,        \* the feeds that can be broken for good
  MaxVersion,      \* bound on what the server publishes per feed
  MaxFaults,       \* bound on faulty answers and lost clock answers
  MaxEvents,       \* bound on what the user, the networks and the server do
  MaxOutage        \* bound on the history of an outage

ASSUME FeedsAssumption ==
  /\ Len(FeedTable) \in Nat \ {0, 1}
  /\ Feeds = {FeedTable[i] : i \in 1 .. Len(FeedTable)}
  /\ UsbCadence \in [Feeds -> Nat \ {0}]
  /\ BatteryCadence \in [Feeds -> (Nat \ {0}) \cup {Off}]
  /\ BackoffStart \in Nat \ {0} /\ BackoffMax \in Nat \ {0}
  /\ \E n \in 1 .. BackoffMax :  \* so it is: 2 ^ (n - 1) >= n
       BackoffStart * 2 ^ (n - 1) >= BackoffMax
  /\ MayBreak \subseteq Feeds \ {FeedTable[1]}
  /\ None \notin Feeds \cup OnAir /\ None \notin 0 .. BackoffMax
  /\ MaxVersion \in Nat \ {0}
  /\ MaxFaults \in Nat /\ MaxEvents \in Nat /\ MaxOutage \in Nat

VARIABLES
  server,     \* server[k]: the version and quality of feed k it serves
  broken,     \* the feed whose answers a proxy never frames, or None
  route,      \* the network leads to the server
  ap,         \* the networks on the air
  phase,      \* "join", "clock", "fetch", "run", or "dead"
  attempt,    \* parity of the failed boot fetches
  nextFeed,   \* the place in FeedTable of the next boot request
  assoc,      \* the network isconnected() reports, or None
  real,       \* the access point knows of that association
  clockSet,   \* the RTC is roughly right: certificates can be judged
  sock,       \* the connection's socket
  payload,    \* payload[k]: the body shown for feed k
  lastBody,   \* _last_body
  age,        \* age[k]: since _last_attempt_ticks[k]
  errors,     \* _consecutive_errors, to the point where the backoff is full
  backoff,    \* since _backoff_started_ticks, or None
  onBattery,  \* on battery and not told to ignore it
  liveOn,     \* live_status_on_battery
  input,      \* "now", "recent" or "quiet": when a button was last pressed
  faults, events,
  dials,      \* history: handshakes since the last answer
  outage      \* history: ticks since the first failure after it

world == <<server, broken, route, ap>>
wifi  == <<assoc, real, clockSet>>
sched == <<payload, lastBody, age, errors, backoff>>
boot  == <<phase, attempt, nextFeed>>
power == <<onBattery, liveOn>>
hist  == <<dials, outage>>
feedVars == <<world, boot, wifi, sock, sched, power, input, faults, events, hist>>

Stats    == FeedTable[1]
Optional == Feeds \ {Stats}
Absent   == [of |-> None, ver |-> 0]
Shown    == [of: Feeds, ver: 1 .. MaxVersion] \cup {Absent}

\* schema: another schema_version; garbage: not JSON, or without meta;
\* misshapen: JSON, but no object.
Quality == {"good", "schema", "garbage", "misshapen"}

MaxErrors  == CHOOSE n \in 1 .. BackoffMax : \* 2 ^ (n - 1) * start passes max
                /\ BackoffStart * 2 ^ (n - 1) >= BackoffMax
                /\ \A m \in 1 .. n - 1 : BackoffStart * 2 ^ (m - 1) < BackoffMax
Cadences   == {UsbCadence[k] : k \in Feeds} \cup ({BatteryCadence[k] : k \in Feeds} \ {Off})
MaxCadence == CHOOSE c \in Cadences : \A d \in Cadences : d <= c

TypeOK ==
  /\ server \in [Feeds -> [ver: 0 .. MaxVersion, quality: Quality]]
  /\ broken \in Feeds \cup {None} /\ route \in BOOLEAN /\ ap \subseteq OnAir
  /\ phase \in {"join", "clock", "fetch", "run", "dead"}
  /\ attempt \in 0 .. 1 /\ nextFeed \in 1 .. Len(FeedTable)
  /\ assoc \in OnAir \cup {None} /\ real \in BOOLEAN /\ clockSet \in BOOLEAN
  /\ sock \in Socket
  /\ payload \in [Feeds -> Shown] /\ lastBody \in [Feeds -> Shown]
  /\ age \in [Feeds -> 0 .. MaxCadence]
  /\ errors \in 0 .. MaxErrors /\ backoff \in (0 .. BackoffMax) \cup {None}
  /\ (errors = 0) = (backoff = None)
  /\ onBattery \in BOOLEAN /\ liveOn \in BOOLEAN
  /\ input \in {"now", "recent", "quiet"}
  /\ faults \in 0 .. MaxFaults /\ events \in 0 .. MaxEvents
  /\ dials \in Nat /\ outage \in 0 .. MaxOutage

-----------------------------------------------------------------------------
\* Joining a network.

\* _wifi_candidates: the first place that names any network.
Candidates ==
  LET named == {i \in 1 .. Len(WifiSources) : WifiSources[i] # <<>>}
  IN IF named = {} THEN <<>>
     ELSE WifiSources[CHOOSE i \in named : \A j \in named : i <= j]

\* _order_by_visibility: those in sight first, both parts by priority.
ByVisibility(seen) ==
  SelectSeq(Candidates, LAMBDA n : n \in seen) \o
  SelectSeq(Candidates, LAMBDA n : n \notin seen)

\* The orders in which they can be tried; a failed scan gives their own.
Orders == IF Len(Candidates) > 1 THEN {Candidates, ByVisibility(ap \ Hidden)}
          ELSE {Candidates}

\* _join_one for each in turn: the first that is on the air.
Joined(order) ==
  LET heard == {i \in 1 .. Len(order) : order[i] \in ap}
  IN IF heard = {} THEN None
     ELSE order[CHOOSE i \in heard : \A j \in heard : i <= j]

Reach == route /\ real /\ assoc \in ap

\* join_wifi.  isconnected() is believed, although it may be stale.
Join ==
  /\ phase = "join"
  /\ IF assoc # None
     THEN phase' = "clock" /\ UNCHANGED wifi
     ELSE IF Candidates = <<>>
     THEN phase' = "dead" /\ UNCHANGED wifi
     ELSE \E order \in Orders :
            /\ Joined(order) # None
            /\ assoc' = Joined(order)
            /\ real' = TRUE
            /\ phase' = "clock"
            /\ UNCHANGED clockSet
  /\ UNCHANGED <<world, attempt, nextFeed, sock, sched, power, input, faults, events, hist>>

\* sync_clock: a failure is reported and passed over.
SyncClock ==
  /\ phase = "clock"
  /\ phase' = "fetch"
  /\ nextFeed' = 1
  /\ \/ Reach /\ clockSet' = TRUE /\ UNCHANGED faults
     \/ ~Reach /\ UNCHANGED <<clockSet, faults>>
     \/ Reach /\ faults < MaxFaults /\ faults' = faults + 1 /\ UNCHANGED clockSet
  /\ UNCHANGED <<world, attempt, assoc, real, sock, sched, power, input, events, hist>>

-----------------------------------------------------------------------------
\* The boot fetch.

\* What the server and the way to it can do to a request for feed k.
KindsOf(k) ==
  IF ~Reach THEN {"lost"} ELSE IF k = broken THEN {"unframed"} ELSE Whole \cup Faulty

Fetches(k) == {r \in Get(sock, k, Reach /\ clockSet, KindsOf(k)) :
                 k = broken \/ faults + r.faults <= MaxFaults}
Spent(k, r) == IF k = broken THEN faults ELSE faults + r.faults

Body(r)   == [of |-> r.of, ver |-> server[r.of].ver]
Found(r)  == server[r.of].ver > 0         \* a 404 otherwise
Parsed(r) == server[r.of].quality # "garbage"
Schema(r) == server[r.of].quality = "good"
Shaped(r) == server[r.of].quality # "misshapen"

\* The exceptions of a request that no one catches.
Uncaught == {"ValueError", "IndexError"}

\* Mutant: the retry keeps the association it has.
BootRetryInPlace ==
  /\ attempt' = 1 - attempt
  /\ phase' = IF attempt = 1 THEN "join" ELSE phase
  /\ UNCHANGED <<assoc, real>>

\* fetch_stats_with_boot_report: every second failure forces a rejoin and a
\* new clock.
BootRetry ==
  /\ attempt' = 1 - attempt
  /\ IF attempt = 1
     THEN phase' = "join" /\ assoc' = None /\ real' = FALSE
     ELSE UNCHANGED <<phase, assoc, real>>

\* fetch_primary_stats.  A body that is no JSON, or no object, is not caught.
BootStats ==
  /\ phase = "fetch" /\ nextFeed = 1
  /\ \E r \in Fetches(Stats) :
       LET works  == r.how = "answer" /\ Found(r) /\ Schema(r)
           raises == \/ r.how \in Uncaught
                     \/ r.how = "answer" /\ Found(r) /\ ~(Parsed(r) /\ Shaped(r))
       IN /\ sock' = r.sock
          /\ faults' = Spent(Stats, r)
          /\ \/ /\ works
                /\ payload' = [k \in Feeds |-> IF k = Stats THEN Body(r) ELSE Absent]
                /\ nextFeed' = 2
                /\ UNCHANGED <<phase, attempt, assoc, real>>
             \/ raises /\ phase' = "dead" /\ UNCHANGED <<attempt, nextFeed, assoc, real, payload>>
             \/ ~works /\ ~raises /\ BootRetry /\ UNCHANGED <<nextFeed, payload>>
  /\ UNCHANGED <<world, clockSet, lastBody, age, errors, backoff, power, input, events, hist>>

\* fetch_optional_feed, which passes over all but an IndexError, and after the
\* last one Navigation with the cadences counted from now.
BootOptional ==
  /\ phase = "fetch" /\ nextFeed > 1
  /\ LET k == FeedTable[nextFeed] IN
     \E r \in Fetches(k) :
       /\ sock' = r.sock
       /\ faults' = Spent(k, r)
       /\ payload' = IF r.how = "answer" /\ Found(r) /\ Parsed(r)
                     THEN [payload EXCEPT ![k] = Body(r)] ELSE payload
       /\ \/ r.how = "IndexError" /\ phase' = "dead" /\ UNCHANGED nextFeed
          \/ r.how # "IndexError" /\ nextFeed < Len(FeedTable)
               /\ nextFeed' = nextFeed + 1 /\ UNCHANGED phase
          \/ r.how # "IndexError" /\ nextFeed = Len(FeedTable)
               /\ nextFeed' = 1 /\ phase' = "run"
  /\ age' = [k \in Feeds |-> 0]
  /\ UNCHANGED <<world, attempt, wifi, lastBody, errors, backoff, power, input, events, hist>>

-----------------------------------------------------------------------------
\* The feed scheduler.

\* _cadence_milliseconds
Cadence(k) ==
  CASE ~onBattery              -> UsbCadence[k]
    [] BatteryCadence[k] # Off -> BatteryCadence[k]
    [] liveOn                  -> UsbCadence[k]
    [] OTHER                   -> Off

Lesser(a, b) == IF a < b THEN a ELSE b

\* Mutant: the backoff does not double.
InBackoffFlat == backoff # None /\ backoff < BackoffStart

\* _in_error_backoff
InBackoff ==
  /\ backoff # None
  /\ backoff < Lesser(BackoffStart * 2 ^ (errors - 1), BackoffMax)

\* due_feed: the first of the table whose cadence has passed.
IsDue(k) == Cadence(k) # Off /\ age[k] >= Cadence(k)
Due ==
  LET due == {i \in 1 .. Len(FeedTable) : IsDue(FeedTable[i])}
  IN IF InBackoff \/ due = {} THEN None
     ELSE FeedTable[CHOOSE i \in due : \A j \in due : i <= j]

\* An attempt counts, whatever came of it.
Attempted(k, r) == [age EXCEPT ![k] = 0]

\* Mutant: a refreshed stats payload comes alone.
WithStatsOnly(new) == [k \in Feeds |-> IF k = Stats THEN new ELSE Absent]

\* A refreshed stats payload takes the optional feeds of the old one over.
WithStats(new) == [k \in Feeds |-> IF k = Stats THEN new ELSE payload[k]]

\* _guard_schema on stats that are no object: a TypeError no one catches.
Chokes(k, r) == k = Stats /\ Found(r) /\ lastBody[k] # Body(r) /\ ~Shaped(r)

\* The part of fetch_due after an answer.
Accept(k, r) ==
  LET new == Body(r) IN
  IF /\ Found(r)
     /\ lastBody[k] # new
     /\ Parsed(r)
     /\ k = Stats => Schema(r)
  THEN /\ lastBody' = [lastBody EXCEPT ![k] = new]
       /\ payload' = IF k = Stats THEN WithStats(new) ELSE [payload EXCEPT ![k] = new]
  ELSE UNCHANGED <<lastBody, payload>>

\* Mutant: the answer clears the errors but not the start of the backoff.
OnlineWaiting == errors' = 0 /\ dials' = 0 /\ outage' = 0 /\ UNCHANGED backoff

\* Any answer ends the outage, a 404 too.
Online == errors' = 0 /\ backoff' = None /\ dials' = 0 /\ outage' = 0

\* refresh_feeds_if_due and fetch_due.  A handshake waits for a long quiet
\* window, a request on a warm socket for a short one.
Poll ==
  /\ phase = "run"
  /\ Due # None
  /\ input = "quiet" \/ (input = "recent" /\ sock.open)
  /\ \E r \in Fetches(Due) :
       /\ sock' = r.sock
       /\ faults' = Spent(Due, r)
       /\ age' = Attempted(Due, r)
       /\ CASE r.how = "answer" ->
                 /\ Online
                 /\ Accept(Due, r)
                 /\ phase' = IF Chokes(Due, r) THEN "dead" ELSE phase
            [] r.how \in {"OSError", "HttpError"} ->
                 /\ errors' = Lesser(errors + 1, MaxErrors) /\ backoff' = 0
                 /\ dials' = IF outage < MaxOutage THEN dials + r.dials ELSE dials
                 /\ UNCHANGED <<phase, payload, lastBody, outage>>
            [] r.how \in Uncaught ->
                 phase' = "dead" /\ UNCHANGED <<payload, lastBody, errors, backoff, hist>>
  /\ UNCHANGED <<world, attempt, nextFeed, wifi, power, input, events>>

-----------------------------------------------------------------------------
\* The surroundings.

Tick ==
  /\ phase = "run"
  /\ Due = None \/ input # "quiet"    \* the loop polls many times per tick
  /\ age' = [k \in Feeds |-> Lesser(age[k] + 1, MaxCadence)]
  /\ backoff' = IF backoff = None THEN None ELSE Lesser(backoff + 1, BackoffMax)
  /\ outage' = IF errors = 0 THEN 0 ELSE Lesser(outage + 1, MaxOutage)
  /\ input' = "quiet"
  /\ UNCHANGED <<world, boot, wifi, sock, payload, lastBody, errors, power, faults, events, dials>>

Settle ==
  /\ input = "now" /\ input' = "recent"
  /\ UNCHANGED <<world, boot, wifi, sock, sched, power, faults, events, hist>>

Event == events < MaxEvents /\ events' = events + 1

\* The user presses a button; on the avatar screen B toggles the live feed.
Press ==
  /\ Event /\ phase = "run"
  /\ input' = "now"
  /\ liveOn' \in IF onBattery THEN {liveOn, ~liveOn} ELSE {liveOn}
  /\ UNCHANGED <<world, boot, wifi, sock, sched, onBattery, faults, hist>>

Plug ==
  /\ Event /\ phase = "run"
  /\ onBattery' = ~onBattery
  /\ UNCHANGED <<world, boot, wifi, sock, sched, liveOn, input, faults, hist>>

\* The access point restarts: it forgets the badge, which does not notice.  A
\* badge that runs never rejoins; to it this is a route that is gone.
ApRestart ==
  /\ Event /\ phase # "run" /\ real
  /\ real' = FALSE
  /\ UNCHANGED <<world, boot, assoc, clockSet, sock, sched, power, input, faults, hist>>

AirChange ==
  /\ Event /\ phase # "run"
  /\ \E n \in OnAir : ap' \in {ap \cup {n}, ap \ {n}} \ {ap}
  /\ UNCHANGED <<server, broken, route, boot, wifi, sock, sched, power, input, faults, hist>>

RouteChange ==
  /\ Event
  /\ route' = ~route
  /\ UNCHANGED <<server, broken, ap, boot, wifi, sock, sched, power, input, faults, hist>>

\* The server closes a connection that idles or has had its share of requests.
IdleClose ==
  /\ Event
  /\ sock.open /\ ~sock.eof
  /\ sock' = [sock EXCEPT !.eof = TRUE]
  /\ UNCHANGED <<world, boot, wifi, sched, power, input, faults, hist>>

Publish ==
  /\ Event
  /\ \E k \in Feeds :
       /\ server[k].ver < MaxVersion
       /\ \E q \in IF k = Stats THEN Quality ELSE {"good", "garbage"} :
            server' = [server EXCEPT ![k] = [ver |-> @.ver + 1, quality |-> q]]
  /\ UNCHANGED <<broken, route, ap, boot, wifi, sock, sched, power, input, faults, hist>>

-----------------------------------------------------------------------------
FeedsInit ==
  /\ server = [k \in Feeds |-> [ver |-> 1, quality |-> "good"]]
  /\ broken \in MayBreak \cup {None}
  /\ route \in BOOLEAN
  /\ ap \in {{}, OnAir}
  /\ phase = "join" /\ attempt = 0 /\ nextFeed = 1
  /\ \/ assoc = None /\ real = FALSE
     \/ assoc \in ap /\ real \in BOOLEAN  \* what a reset of the board kept
  /\ clockSet \in BOOLEAN
  /\ sock = Closed
  /\ payload = [k \in Feeds |-> Absent] /\ lastBody = [k \in Feeds |-> Absent]
  /\ age = [k \in Feeds |-> 0] /\ errors = 0 /\ backoff = None
  /\ onBattery = FALSE /\ liveOn = FALSE
  /\ input = "quiet"
  /\ faults = 0 /\ events = 0 /\ dials = 0 /\ outage = 0

Badge   == Join \/ SyncClock \/ BootStats \/ BootOptional \/ Poll \/ Tick \/ Settle
Outside == Press \/ Plug \/ ApRestart \/ AirChange \/ RouteChange \/ IdleClose \/ Publish

-----------------------------------------------------------------------------
\* What the badge shows for a feed is a body the server published under that
\* feed's name: an answer left in a socket by a request that failed is never
\* taken for the answer to another request (PersistentConnection.get).
AnswersMatch == \A k \in Feeds : payload[k].of \in {k, None}

\* Once the badge runs, no feed goes back to an older body and none is lost:
\* a stats refresh keeps the optional feeds, a failed one what is shown.
NeverOlder == [][phase = "run" => \A k \in Feeds : payload'[k].ver >= payload[k].ver]_payload

\* During an outage the handshakes thin out: one per doubling of the backoff,
\* and then one per longest backoff (_in_error_backoff).
OutageIsGentle == dials <= MaxErrors + outage \div BackoffMax

\* All the server serves is shown, but for the feed that is broken, a body the
\* badge cannot use and a feed its power source rules out.
Current(k) == payload[k] = [of |-> k, ver |-> server[k].ver]
AllCurrent ==
  \A k \in Feeds \ {broken} :
    server[k].quality = "good" /\ Cadence(k) # Off => Current(k)

=============================================================================

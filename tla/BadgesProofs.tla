---------------------------- MODULE BadgesProofs ----------------------------
(***************************************************************************)
(* What both badges show is what the server published, and never older     *)
(* than before: for any feeds, cadences, networks, faults and outages.     *)
(***************************************************************************)
EXTENDS Badges, WellFoundedInduction, TLAPS

-----------------------------------------------------------------------------
(***************************************************************************)
(* The connection: a call leaves nothing behind in the socket it leaves.   *)
(***************************************************************************)

Calls == [how : {"answer"} \cup Errors, of : Feeds \cup {None}, sock : Socket,
          dials : {0, 1}, faults : Nat]

Clean(s) == s \in Socket /\ s.unread = None

\* What a call for feed k may come to before its errors are dealt with.
Proper(r, k) == r \in Calls /\ (r.how = "answer" => r.of = k /\ Clean(r.sock))

LEMMA AnsweredProperly ==
  ASSUME NEW k \in Feeds, NEW s, Clean(s), NEW way \in Kinds
  PROVE  Proper(Answered(s, k, way), k)
<1>1. /\ Closed \in Socket /\ Closed.unread = None /\ s \in Socket /\ s.unread = None
      /\ [s EXCEPT !.unread = k] \in Socket /\ [s EXCEPT !.eof = TRUE] \in Socket
  BY DEF Clean, Closed, Socket
<1>2. CASE way = "whole"
  BY <1>1, <1>2 DEF Answered, Outcome, Proper, Calls, Clean, Errors
<1>3. CASE way = "closing"
  BY <1>1, <1>3 DEF Answered, Outcome, Proper, Calls, Clean, Errors
<1>4. CASE way = "lost"
  BY <1>1, <1>4 DEF Answered, Outcome, Proper, Calls, Clean, Errors
<1>5. CASE way = "late"
  BY <1>1, <1>5 DEF Answered, Outcome, Proper, Calls, Clean, Errors
<1>6. CASE way = "cut"
  BY <1>1, <1>6 DEF Answered, Outcome, Proper, Calls, Clean, Errors
<1>7. CASE way = "unframed"
  BY <1>1, <1>7 DEF Answered, Outcome, Proper, Calls, Clean, Errors
<1>8. CASE way = "garbled"
  BY <1>1, <1>8 DEF Answered, Outcome, Proper, Calls, Clean, Errors
<1>9. CASE way = "wordless"
  BY <1>1, <1>9 DEF Answered, Outcome, Proper, Calls, Clean, Errors
<1>. QED
  BY <1>2, <1>3, <1>4, <1>5, <1>6, <1>7, <1>8, <1>9 DEF Kinds, Whole, Faulty

LEMMA RequestedProperly ==
  ASSUME NEW k \in Feeds, NEW s, Clean(s), NEW kinds \in SUBSET Kinds,
         NEW r \in Request(s, k, kinds)
  PROVE  Proper(r, k)
<1>1. CASE s.eof
  BY <1>1 DEF Request, Outcome, Proper, Calls, Clean, Errors
<1>2. CASE ~s.eof
  <2>1. PICK way \in kinds : r = Answered(s, k, way)
    BY <1>2 DEF Request, Clean
  <2>. QED
    BY <2>1, AnsweredProperly
<1>. QED
  BY <1>1, <1>2

LEMMA AttemptedProperly ==
  ASSUME NEW k \in Feeds, NEW s, Clean(s), NEW reach, NEW kinds \in SUBSET Kinds,
         NEW r \in Attempt(s, k, reach, kinds)
  PROVE  Proper(r, k)
<1>1. CASE s.open
  BY <1>1, RequestedProperly DEF Attempt
<1>2. CASE ~s.open
  <2>1. PICK q \in IF reach THEN Request(Fresh, k, kinds)
                   ELSE {Outcome("OSError", None, Closed, 0)} :
               r = [q EXCEPT !.dials = 1]
    BY <1>2 DEF Attempt
  <2>2. Proper(q, k)
    <3>1. Clean(Fresh) /\ Closed \in Socket
      BY DEF Clean, Fresh, Closed, Socket
    <3>2. CASE reach
      BY <2>1, <3>1, <3>2, RequestedProperly
    <3>3. CASE ~reach
      BY <2>1, <3>1, <3>3 DEF Outcome, Proper, Calls, Errors
    <3>. QED
      BY <3>2, <3>3
  <2>. QED
    BY <2>1, <2>2 DEF Proper, Calls
<1>. QED
  BY <1>1, <1>2

\* get: whatever happens, the socket it leaves is clean, and an answer is the
\* one to this request.
LEMMA GetIsClean ==
  ASSUME NEW k \in Feeds, NEW s, Clean(s), NEW reach, NEW kinds \in SUBSET Kinds,
         NEW r \in Get(s, k, reach, kinds)
  PROVE  r \in Calls /\ Clean(r.sock) /\ (r.how = "answer" => r.of = k)
<1>1. Clean(Closed)
  BY DEF Clean, Closed, Socket
<1>2. ASSUME NEW q, Proper(q, k)
      PROVE  /\ Settled(q) \in Calls /\ Clean(Settled(q).sock)
             /\ Settled(q).how = "answer" => Settled(q).of = k
  <2>1. CASE q.how \in Errors
    BY <1>1, <1>2, <2>1 DEF Settled, Proper, Calls, Clean, Errors
  <2>2. CASE q.how \notin Errors
    BY <1>2, <2>2 DEF Settled, Proper, Calls
  <2>. QED
    BY <2>1, <2>2
<1>3. PICK p \in Attempt(s, k, reach, kinds) :
        r \in IF s.open /\ p.how = "OSError"
              THEN {[Settled(q) EXCEPT !.faults = @ + p.faults] :
                      q \in Attempt(Closed, k, reach, kinds)}
              ELSE {Settled(p)}
  BY DEF Get
<1>4. CASE s.open /\ p.how = "OSError"
  <2>1. PICK q \in Attempt(Closed, k, reach, kinds) :
          r = [Settled(q) EXCEPT !.faults = @ + p.faults]
    BY <1>3, <1>4
  <2>2. Proper(q, k)
    BY <1>1, AttemptedProperly
  <2>3. Settled(q) \in Calls /\ Clean(Settled(q).sock)
        /\ (Settled(q).how = "answer" => Settled(q).of = k)
    BY <1>2, <2>2
  <2>4. r.how = Settled(q).how /\ r.of = Settled(q).of /\ r.sock = Settled(q).sock
    BY <2>1, <2>3 DEF Calls
  <2>5. p.faults \in Nat
    BY <1>3, AttemptedProperly DEF Proper, Calls
  <2>6. r \in Calls
    BY <2>1, <2>3, <2>5 DEF Calls
  <2>. QED
    BY <2>3, <2>4, <2>6
<1>5. CASE ~(s.open /\ p.how = "OSError")
  <2>1. r = Settled(p) /\ Proper(p, k)
    BY <1>3, <1>5, AttemptedProperly
  <2>. QED
    BY <1>2, <2>1 DEF Calls
<1>. QED
  BY <1>4, <1>5

-----------------------------------------------------------------------------
(***************************************************************************)
(* The LCD badge.                                                          *)
(***************************************************************************)

LEMMA LeastIndex ==
  ASSUME NEW S \in SUBSET Nat, S # {}
  PROVE  \E m \in S : \A k \in S : m <= k
<1>1. PICK m \in S : \A k \in S : <<k, m>> \notin OpToRel(<, Nat)
  BY WFMin, NatLessThanWellFounded
<1>2. \A k \in S : ~(k < m)
  BY <1>1, Zenon DEF OpToRel
<1>. QED
  BY <1>2

\* The feed that is asked for next is one of the table.
LEMMA DueIsFeed == Due # None => Due \in Feeds
<1>. DEFINE due == {i \in 1 .. Len(FeedTable) : IsDue(FeedTable[i])}
<1>. SUFFICES ASSUME Due # None PROVE Due \in Feeds
  OBVIOUS
<1>1. due # {} /\ due \in SUBSET Nat
  BY FeedsAssumption DEF Due
<1>2. \E i \in due : \A j \in due : i <= j
  BY <1>1, LeastIndex
<1>3. Due = FeedTable[CHOOSE i \in due : \A j \in due : i <= j]
  BY DEF Due
<1>4. (CHOOSE i \in due : \A j \in due : i <= j) \in due
  BY <1>2
<1>. HIDE DEF due
<1>. QED
  BY <1>3, <1>4, FeedsAssumption DEF due

\* Between two calls no answer is left in the socket.  What is shown for a feed
\* was published for it, and is not newer than what the server has now.
Publications == \A k \in Feeds : server[k].ver \in Nat
FromServer ==
  \A k \in Feeds :
    payload[k].of \in {k, None} /\ payload[k].ver \in Nat /\ payload[k].ver <= server[k].ver
Saved == [summary : Nat, accounts : Nat, error : BOOLEAN, screen : 0 .. Screens - 1]
FlashFromServer == flash \in Saved /\ flash.summary <= server[Stats].ver

BadgesInv ==
  /\ nextFeed \in 1 .. Len(FeedTable)
  /\ DOMAIN server = Feeds /\ DOMAIN payload = Feeds
  /\ Clean(sock)
  /\ Publications
  /\ FromServer
  /\ FlashFromServer

LEMMA StatsIsFeed == Stats \in Feeds
  BY FeedsAssumption DEF Stats

LEMMA InitFromServer == Init => BadgesInv
<1>. SUFFICES ASSUME Init PROVE BadgesInv
  OBVIOUS
<1>1. nextFeed = 1 /\ sock = Closed
      /\ flash = [summary |-> 0, accounts |-> 0, error |-> FALSE, screen |-> 0]
      /\ server = [k \in Feeds |-> [ver |-> 1, quality |-> "good"]]
      /\ payload = [k \in Feeds |-> Absent]
  BY DEF Init, FeedsInit, Simple!SimpleInit
<1>2. Clean(sock)
  BY <1>1 DEF Clean, Closed, Socket
<1>3. Publications /\ FromServer /\ FlashFromServer
  BY <1>1, StatsIsFeed, BadgesAssumption DEF Publications, FromServer, FlashFromServer, Saved, Absent
<1>. QED
  BY <1>1, <1>2, <1>3, FeedsAssumption DEF BadgesInv

\* A fetch of a feed, and the body it brings.
LEMMA FetchIsClean ==
  ASSUME BadgesInv, NEW k \in Feeds, NEW r \in Fetches(k)
  PROVE  /\ r \in Calls
         /\ Clean(r.sock)
         /\ r.how = "answer" => Body(r) = [of |-> k, ver |-> server[k].ver]
<1>1. KindsOf(k) \in SUBSET Kinds
  BY DEF KindsOf, Kinds, Whole, Faulty
<1>2. r \in Get(sock, k, Reach /\ clockSet, KindsOf(k))
  BY DEF Fetches
<1>. QED
  BY <1>1, <1>2, GetIsClean DEF BadgesInv, Body

\* A step of the LCD badge that shows, for each feed, what it showed, nothing,
\* or what the server has.
LEMMA ShowingServer ==
  ASSUME BadgesInv, UNCHANGED <<server, flash>>, Clean(sock'),
         nextFeed' \in 1 .. Len(FeedTable), DOMAIN payload' = Feeds,
         \A k \in Feeds : \/ payload'[k] = payload[k]
                          \/ payload'[k] = Absent
                          \/ payload'[k] = [of |-> k, ver |-> server[k].ver]
  PROVE  BadgesInv'
<1>1. FromServer'
  <2>. SUFFICES ASSUME NEW k \in Feeds
                PROVE  /\ payload'[k].of \in {k, None}
                       /\ payload'[k].ver \in Nat /\ payload'[k].ver <= server[k].ver
    BY DEF FromServer
  <2>1. server[k].ver \in Nat
    BY DEF BadgesInv, Publications
  <2>2. CASE payload'[k] = payload[k]
    BY <2>2 DEF BadgesInv, FromServer
  <2>3. CASE payload'[k] = Absent
    BY <2>1, <2>3 DEF Absent
  <2>4. CASE payload'[k] = [of |-> k, ver |-> server[k].ver]
    BY <2>1, <2>4
  <2>. QED
    BY <2>2, <2>3, <2>4
<1>. QED
  BY <1>1 DEF BadgesInv, Publications, FlashFromServer

\* Everything the outside does to the server is to publish.
LEMMA PublishingMore ==
  ASSUME BadgesInv, Publish \/ UNCHANGED server, UNCHANGED <<payload, flash, nextFeed>>,
         Clean(sock')
  PROVE  BadgesInv'
<1>1. DOMAIN server' = Feeds /\ \A k \in Feeds :
        server'[k].ver \in Nat /\ server'[k].ver >= server[k].ver
  <2>1. CASE UNCHANGED server
    BY <2>1 DEF BadgesInv, Publications
  <2>2. CASE Publish
    <3>1. PICK j \in Feeds, q \in Quality :
            server' = [server EXCEPT ![j] = [ver |-> @.ver + 1, quality |-> q]]
      BY <2>2 DEF Publish, Quality
    <3>. QED
      BY <3>1 DEF BadgesInv, Publications
  <2>. QED
    BY <2>1, <2>2
<1>2. FromServer'
  BY <1>1 DEF BadgesInv, FromServer, Publications
<1>3. FlashFromServer'
  <2>1. flash.summary \in Nat /\ server[Stats].ver \in Nat
    BY StatsIsFeed DEF BadgesInv, FlashFromServer, Saved, Publications
  <2>. QED
    BY <1>1, <2>1, StatsIsFeed DEF BadgesInv, FlashFromServer
<1>. QED
  BY <1>1, <1>2, <1>3 DEF BadgesInv, Publications

\* One poll asks for the feed that is due, outside the backoff: it ends in an
\* answer to that request, in an error that is counted, or the program.
LEMMA PollOutcome ==
  ASSUME BadgesInv, Poll
  PROVE  /\ Due \in Feeds /\ ~InBackoff
         /\ \E r \in Calls :
              /\ sock' = r.sock /\ Clean(r.sock)
              /\ faults' = Spent(Due, r) /\ (Due = broken \/ faults + r.faults <= MaxFaults)
              /\ age' = [age EXCEPT ![Due] = 0]
              /\ \/ /\ Online /\ Accept(Due, r) /\ phase' \in {phase, "dead"}
                    /\ Body(r) = [of |-> Due, ver |-> server[Due].ver]
                 \/ /\ errors' = Lesser(errors + 1, MaxErrors) /\ backoff' = 0
                    /\ dials' = IF outage < MaxOutage THEN dials + r.dials ELSE dials
                    /\ UNCHANGED <<phase, payload, lastBody, outage>>
                 \/ phase' = "dead" /\ UNCHANGED <<payload, lastBody, errors, backoff, hist>>
<1>. DEFINE d == Due
<1>1. d \in Feeds /\ ~InBackoff
  BY DueIsFeed DEF Poll, Due
<1>2. PICK r \in Fetches(Due) :
        /\ sock' = r.sock
        /\ faults' = Spent(Due, r)
        /\ age' = Attempted(Due, r)
        /\ CASE r.how = "answer" ->
                  /\ Online
                  /\ Accept(Due, r)
                  /\ phase' = IF Chokes(Due, r) THEN "dead" ELSE phase
             [] r.how \in {"OSError", "HttpError"} ->
                  /\ errors' = Lesser(errors + 1, MaxErrors) /\ backoff' = 0
                  /\ dials' = IF outage < MaxOutage THEN dials + r.dials ELSE dials
                  /\ UNCHANGED <<phase, payload, lastBody, outage>>
             [] r.how \in Uncaught ->
                  phase' = "dead" /\ UNCHANGED <<payload, lastBody, errors, backoff, hist>>
  BY DEF Poll
<1>3. /\ r \in Calls /\ Clean(r.sock)
      /\ r.how = "answer" => Body(r) = [of |-> d, ver |-> server[d].ver]
  BY <1>1, <1>2, FetchIsClean
<1>4. d = broken \/ faults + r.faults <= MaxFaults
  BY <1>2 DEF Fetches
<1>5. CASE r.how = "answer"
  BY <1>1, <1>2, <1>3, <1>4, <1>5 DEF Attempted
<1>6. CASE r.how \in {"OSError", "HttpError"}
  BY <1>1, <1>2, <1>3, <1>4, <1>6 DEF Attempted
<1>7. CASE r.how \in Uncaught
  BY <1>1, <1>2, <1>3, <1>4, <1>7 DEF Attempted, Uncaught
<1>. QED
  BY <1>3, <1>5, <1>6, <1>7 DEF Calls, Errors, Uncaught

\* Only an answer changes what is shown, and a refreshed stats payload takes the
\* others over.
LEMMA PollShows ==
  ASSUME BadgesInv, Poll
  PROVE  /\ Clean(sock') /\ DOMAIN payload' = Feeds
         /\ \A k \in Feeds : \/ payload'[k] = payload[k]
                             \/ payload'[k] = [of |-> k, ver |-> server[k].ver]
<1>. DEFINE d == Due
<1>1. PICK r \in Calls :
        /\ sock' = r.sock /\ Clean(r.sock)
        /\ \/ Accept(d, r) /\ Body(r) = [of |-> d, ver |-> server[d].ver]
           \/ UNCHANGED payload
  BY PollOutcome
<1>2. d \in Feeds
  BY PollOutcome
<1>. HIDE DEF d
<1>3. \/ payload' = WithStats(Body(r)) /\ d = Stats /\ Accept(d, r)
      \/ payload' = [payload EXCEPT ![d] = Body(r)] /\ Accept(d, r)
      \/ payload' = payload
  BY <1>1 DEF Accept
<1>4. CASE payload' = payload
  BY <1>1, <1>4 DEF BadgesInv
<1>5. CASE payload' # payload
  BY <1>1, <1>2, <1>3, <1>5 DEF BadgesInv, WithStats
<1>. QED
  BY <1>4, <1>5

LEMMA BootShows ==
  ASSUME BadgesInv, BootStats \/ BootOptional
  PROVE  /\ Clean(sock') /\ DOMAIN payload' = Feeds /\ nextFeed' \in 1 .. Len(FeedTable)
         /\ \A k \in Feeds : \/ payload'[k] = payload[k]
                             \/ payload'[k] = Absent
                             \/ payload'[k] = [of |-> k, ver |-> server[k].ver]
<1>1. CASE BootStats
  <2>1. PICK r \in Fetches(Stats) :
          /\ sock' = r.sock
          /\ \/ /\ r.how = "answer"
                /\ payload' = [k \in Feeds |-> IF k = Stats THEN Body(r) ELSE Absent]
                /\ nextFeed' = 2
             \/ UNCHANGED <<nextFeed, payload>>
    BY <1>1 DEF BootStats
  <2>2. Clean(r.sock) /\ (r.how = "answer" => Body(r) = [of |-> Stats, ver |-> server[Stats].ver])
    BY StatsIsFeed, FetchIsClean
  <2>3. nextFeed' \in 1 .. Len(FeedTable) /\ DOMAIN payload' = Feeds
    <3>1. CASE UNCHANGED <<nextFeed, payload>>
      BY <3>1 DEF BadgesInv
    <3>2. CASE nextFeed' = 2 /\ payload' = [k \in Feeds |-> IF k = Stats THEN Body(r) ELSE Absent]
      <4>1. 2 \in 1 .. Len(FeedTable)
        <5>1. Len(FeedTable) \in Nat /\ Len(FeedTable) # 0 /\ Len(FeedTable) # 1
          BY FeedsAssumption
        <5>. QED
          BY <5>1
      <4>. QED
        BY <3>2, <4>1
    <3>. QED
      BY <2>1, <3>1, <3>2
  <2>4. CASE UNCHANGED payload
    BY <2>1, <2>2, <2>3, <2>4
  <2>5. CASE ~UNCHANGED payload
    <3>1. payload' = [k \in Feeds |-> IF k = Stats THEN Body(r) ELSE Absent]
          /\ Body(r) = [of |-> Stats, ver |-> server[Stats].ver]
      BY <2>1, <2>2, <2>5
    <3>2. ASSUME NEW k \in Feeds
          PROVE  payload'[k] = Absent \/ payload'[k] = [of |-> k, ver |-> server[k].ver]
      BY <3>1, <3>2
    <3>. QED
      BY <2>1, <2>2, <2>3, <3>2
  <2>. QED
    BY <2>4, <2>5
<1>2. CASE BootOptional
  <2>. DEFINE j == FeedTable[nextFeed]
  <2>1. j \in Feeds
    BY FeedsAssumption DEF BadgesInv
  <2>2. PICK r \in Fetches(j) :
          /\ sock' = r.sock
          /\ payload' = IF r.how = "answer" /\ Found(r) /\ Parsed(r)
                        THEN [payload EXCEPT ![j] = Body(r)] ELSE payload
          /\ \/ nextFeed' = nextFeed \/ nextFeed' = 1
             \/ nextFeed < Len(FeedTable) /\ nextFeed' = nextFeed + 1
    BY <1>2 DEF BootOptional
  <2>. HIDE DEF j
  <2>3. Clean(r.sock) /\ (r.how = "answer" => Body(r) = [of |-> j, ver |-> server[j].ver])
    BY <2>1, FetchIsClean
  <2>4. nextFeed' \in 1 .. Len(FeedTable)
    BY <2>2, FeedsAssumption DEF BadgesInv
  <2>. QED
    BY <2>1, <2>2, <2>3, <2>4 DEF BadgesInv
<1>. QED
  BY <1>1, <1>2

LEMMA LcdStep ==
  ASSUME BadgesInv, Lcd(Badge) \/ Lcd(Outside)
  PROVE  BadgesInv'
<1>1. CASE Lcd(Badge)
  <2>1. UNCHANGED <<server, flash>>
    BY <1>1 DEF Lcd, Badge, world, Join, SyncClock, BootStats, BootOptional, Poll, Tick, Settle
  <2>2. CASE BootStats \/ BootOptional
    BY <2>1, <2>2, BootShows, ShowingServer
  <2>3. CASE Poll
    <3>1. nextFeed' = nextFeed
      BY <2>3 DEF Poll
    <3>. QED
      BY <2>1, <2>3, <3>1, PollShows, ShowingServer DEF BadgesInv
  <2>4. CASE Join \/ SyncClock \/ Tick \/ Settle
    <3>1. UNCHANGED <<sock, payload>> /\ nextFeed' \in 1 .. Len(FeedTable)
      BY <2>4, FeedsAssumption DEF BadgesInv, Join, SyncClock, Tick, Settle, sched, boot
    <3>. QED
      BY <2>1, <3>1, ShowingServer DEF BadgesInv
  <2>. QED
    BY <1>1, <2>2, <2>3, <2>4 DEF Lcd, Badge
<1>2. CASE Lcd(Outside)
  <2>1. UNCHANGED <<payload, flash, nextFeed>> /\ (Publish \/ UNCHANGED server)
    BY <1>2 DEF Lcd, Outside, world, sched, boot, Press, Plug, ApRestart, AirChange,
                RouteChange, IdleClose, Publish
  <2>2. Clean(sock')
    <3>1. CASE IdleClose
      BY <3>1 DEF IdleClose, BadgesInv, Clean, Socket
    <3>2. CASE UNCHANGED sock
      BY <3>2 DEF BadgesInv
    <3>. QED
      BY <1>2, <3>1, <3>2 DEF Lcd, Outside, Press, Plug, ApRestart, AirChange, RouteChange,
                              Publish
  <2>. QED
    BY <2>1, <2>2, PublishingMore
<1>. QED
  BY <1>1, <1>2

-----------------------------------------------------------------------------
(***************************************************************************)
(* The e-ink badge.                                                        *)
(***************************************************************************)

\* What a try may make of saved numbers: they are replaced by what the server
\* has, without an error, or not at all.
FlashStep(old, new) ==
  /\ new \in Saved
  /\ \/ new.summary = old.summary /\ new.accounts = old.accounts
     \/ new.summary = server[Stats].ver /\ ~new.error

LEMMA RefreshesKeep ==
  ASSUME BadgesInv, NEW st \in Saved, NEW t \in Simple!Refreshes(st)
  PROVE  FlashStep(st, t.st)
<1>1. PICK r \in Simple!Get(Simple!Closed, Stats, route, Simple!KindsOf) :
        t \in IF Simple!Usable(Stats, r) THEN Simple!WithLimits(st, r)
              ELSE {Simple!Try([st EXCEPT !.error = TRUE], r.faults)}
  BY DEF Simple!Refreshes
<1>2. CASE Simple!Usable(Stats, r)
  <2>1. PICK q \in Simple!Get(r.sock, LimitsFeed, route, Simple!KindsOf) :
          t = Simple!Try(IF q.how = "IndexError" THEN [st EXCEPT !.error = TRUE]
                         ELSE Simple!Got(st, IF Simple!Usable(LimitsFeed, q)
                                             THEN server[LimitsFeed].ver ELSE 0),
                         r.faults + q.faults)
    BY <1>1, <1>2 DEF Simple!WithLimits
  <2>4. CASE q.how = "IndexError"
    <3>1. t.st = [st EXCEPT !.error = TRUE]
      BY <2>1, <2>4 DEF Simple!Try
    <3>. QED
      BY <3>1 DEF FlashStep, Saved
  <2>2. ASSUME q.how # "IndexError" PROVE \E a \in Nat : t.st = Simple!Got(st, a)
    BY <2>1, <2>2, BadgesAssumption DEF Simple!Try, BadgesInv, Publications
  <2>3. server[Stats].ver \in Nat
    BY StatsIsFeed DEF BadgesInv, Publications
  <2>5. CASE q.how # "IndexError"
    BY <2>2, <2>3, <2>5 DEF Simple!Got, FlashStep, Saved
  <2>. QED
    BY <2>4, <2>5
<1>3. CASE ~Simple!Usable(Stats, r)
  <2>1. t.st = [st EXCEPT !.error = TRUE]
    BY <1>1, <1>3 DEF Simple!Try
  <2>. QED
    BY <2>1 DEF FlashStep, Saved
<1>. QED
  BY <1>2, <1>3

\* A wake with numbers in flash goes to the server for button B only.
LEMMA WakeKeeps ==
  ASSUME BadgesInv, Simple!Wake
  PROVE  /\ flash' \in Saved
         /\ flash'.summary \in {flash.summary, server[Stats].ver}
         /\ flash.summary > 0 => FlashStep(flash, flash')
<1>1. PICK button \in {"B", "up", "down", "none"}, s \in Simple!Started :
        \E t \in Simple!Pressed(s, button) : flash' = t.st
  BY DEF Simple!Wake
<1>2. PICK t \in Simple!Pressed(s, button) : flash' = t.st
  BY <1>1
<1>3. flash \in Saved
  BY DEF BadgesInv, FlashFromServer
<1>4. FlashStep(flash, s.st)
  <2>1. CASE flash.summary = 0
    BY <1>3, <2>1, RefreshesKeep DEF Simple!Started
  <2>2. CASE flash.summary # 0
    BY <1>3, <2>2 DEF Simple!Started, Simple!Try, FlashStep
  <2>. QED
    BY <2>1, <2>2
<1>5. flash.summary > 0 => s.st = flash
  BY <1>3 DEF Simple!Started, Simple!Try
<1>6. CASE button = "B"
  <2>1. FlashStep(s.st, t.st)
    <3>1. PICK u \in Simple!Refreshes(s.st) : t.st = u.st
      BY <1>2, <1>6 DEF Simple!Pressed, Simple!Try
    <3>. QED
      BY <1>4, <3>1, RefreshesKeep DEF FlashStep
  <2>. QED
    BY <1>2, <1>4, <1>5, <2>1 DEF FlashStep
<1>7. CASE button # "B"
  <2>1. t.st.summary = s.st.summary /\ t.st.accounts = s.st.accounts
        /\ t.st.error = s.st.error /\ t.st \in Saved
    <3>1. s.st \in Saved
      BY <1>4 DEF FlashStep
    <3>2. CASE button = "none"
      BY <1>2, <3>1, <3>2 DEF Simple!Pressed
    <3>3. CASE button = "up"
      BY <1>2, <3>1, <3>3, BadgesAssumption DEF Simple!Pressed, Simple!Try, Saved
    <3>4. CASE button = "down"
      BY <1>2, <3>1, <3>4, BadgesAssumption DEF Simple!Pressed, Simple!Try, Saved
    <3>. QED
      BY <1>7, <3>2, <3>3, <3>4
  <2>. QED
    BY <1>2, <1>4, <1>5, <2>1 DEF FlashStep
<1>. QED
  BY <1>6, <1>7

LEMMA EinkStep ==
  ASSUME BadgesInv, Eink
  PROVE  BadgesInv'
<1>1. UNCHANGED <<nextFeed, sock, payload>>
  BY DEF Eink, boot, sched
<1>2. CASE Simple!Wake /\ UNCHANGED server
  <2>1. flash' \in Saved /\ flash'.summary \in {flash.summary, server[Stats].ver}
    BY <1>2, WakeKeeps
  <2>2. flash.summary <= server[Stats].ver /\ server[Stats].ver \in Nat
    BY StatsIsFeed DEF BadgesInv, FlashFromServer, Publications
  <2>3. FlashFromServer'
    BY <1>2, <2>1, <2>2 DEF FlashFromServer
  <2>. QED
    BY <1>1, <1>2, <2>3 DEF BadgesInv, Publications, FromServer
<1>3. CASE (RouteChange \/ Publish) /\ UNCHANGED flash
  <2>1. Publish \/ UNCHANGED server
    BY <1>3 DEF RouteChange
  <2>2. Clean(sock')
    BY <1>1 DEF BadgesInv
  <2>. QED
    BY <1>1, <1>3, <2>1, <2>2, PublishingMore
<1>. QED
  BY <1>2, <1>3 DEF Eink

-----------------------------------------------------------------------------

LEMMA BadgesInvariant == Spec => []BadgesInv
<1>1. BadgesInv /\ [Lcd(Badge) \/ Lcd(Outside) \/ Eink]_vars => BadgesInv'
  <2>1. BadgesInv /\ UNCHANGED vars => BadgesInv'
    BY DEF vars, feedVars, world, boot, sched, BadgesInv, Publications, FromServer,
           FlashFromServer
  <2>. QED
    BY <2>1, LcdStep, EinkStep
<1>. QED
  BY <1>1, InitFromServer, PTL DEF Spec

\* What the LCD badge shows for a feed was published under that feed's name
\* (http_client.py): however answers are late, cut off or unframed, whatever is
\* left in a socket is never read as the answer to another request.
THEOREM AnswersAlwaysMatch == Spec => []AnswersMatch
<1>1. BadgesInv => AnswersMatch
  BY DEF BadgesInv, FromServer, AnswersMatch
<1>. QED
  BY <1>1, BadgesInvariant, PTL

\* A badge that runs never goes back to an older body and loses none
\* (feeds.py), for any cadences, backoffs, networks and faults.
THEOREM NothingGetsOlder == Spec => NeverOlder
<1>1. ASSUME BadgesInv, Lcd(Badge) \/ Lcd(Outside) \/ Eink, phase = "run", NEW k \in Feeds
      PROVE  payload'[k].ver >= payload[k].ver
  <2>1. payload[k].ver \in Nat /\ server[k].ver \in Nat /\ payload[k].ver <= server[k].ver
    BY <1>1 DEF BadgesInv, FromServer, Publications
  <2>2. CASE Poll
    <3>1. payload'[k] = payload[k] \/ payload'[k] = [of |-> k, ver |-> server[k].ver]
      BY <1>1, <2>2, PollShows
    <3>. QED
      BY <2>1, <3>1
  <2>3. CASE ~Poll
    <3>1. UNCHANGED payload
      BY <1>1, <2>3
      DEF Lcd, Badge, Outside, Eink, Join, SyncClock, BootStats, BootOptional, Tick, Settle,
          Press, Plug, ApRestart, AirChange, RouteChange, IdleClose, Publish, sched
    <3>. QED
      BY <2>1, <3>1
  <2>. QED
    BY <2>2, <2>3
<1>2. BadgesInv /\ [Lcd(Badge) \/ Lcd(Outside) \/ Eink]_vars =>
        [phase = "run" => \A k \in Feeds : payload'[k].ver >= payload[k].ver]_payload
  BY <1>1 DEF vars, feedVars, sched
<1>. QED
  BY <1>2, BadgesInvariant, PTL DEF Spec, NeverOlder

\* Numbers in the e-ink badge's flash outlive every failed refresh, and an error
\* is never saved with new ones (firmware-badger), for any faults.
THEOREM FlashNeverLoses == Spec => FlashKeeps
<1>1. ASSUME BadgesInv, Eink, flash.summary > 0
      PROVE  /\ flash'.summary >= flash.summary
             /\ flash'.error => flash'.summary = flash.summary /\ flash'.accounts = flash.accounts
  <2>1. flash.summary \in Nat /\ server[Stats].ver \in Nat /\ flash.summary <= server[Stats].ver
    BY <1>1, StatsIsFeed DEF BadgesInv, FlashFromServer, Saved, Publications
  <2>2. CASE Simple!Wake
    BY <1>1, <2>1, <2>2, WakeKeeps DEF FlashStep
  <2>3. CASE UNCHANGED flash
    BY <2>1, <2>3
  <2>. QED
    BY <1>1, <2>2, <2>3 DEF Eink
<1>2. BadgesInv /\ [Lcd(Badge) \/ Lcd(Outside) \/ Eink]_vars =>
        [flash.summary > 0 =>
           /\ flash'.summary >= flash.summary
           /\ flash'.error => /\ flash'.summary = flash.summary
                              /\ flash'.accounts = flash.accounts]_flash
  BY <1>1 DEF vars, Lcd
<1>. QED
  BY <1>2, BadgesInvariant, PTL DEF Spec, FlashKeeps

-----------------------------------------------------------------------------
(***************************************************************************)
(* The backoff.                                                            *)
(***************************************************************************)

\* There is a first doubling that reaches the longest backoff.
LEMMA MaxErrorsReachesIt ==
  /\ MaxErrors \in 1 .. BackoffMax
  /\ BackoffStart * 2 ^ (MaxErrors - 1) >= BackoffMax
<1>. DEFINE reach == {n \in 1 .. BackoffMax : BackoffStart * 2 ^ (n - 1) >= BackoffMax}
<1>1. reach # {} /\ reach \in SUBSET Nat
  <2>1. \E n \in 1 .. BackoffMax : BackoffStart * 2 ^ (n - 1) >= BackoffMax
    BY FeedsAssumption
  <2>. QED
    BY <2>1
<1>2. PICK n \in reach : \A m \in reach : n <= m
  BY <1>1, LeastIndex
<1>3. \A m \in 1 .. n - 1 : BackoffStart * 2 ^ (m - 1) < BackoffMax
  <2>. SUFFICES ASSUME NEW m \in 1 .. n - 1 PROVE BackoffStart * 2 ^ (m - 1) < BackoffMax
    OBVIOUS
  <2>1. m \notin reach /\ m \in 1 .. BackoffMax
    BY <1>1, <1>2, FeedsAssumption
  <2>2. ~(BackoffStart * 2 ^ (m - 1) >= BackoffMax)
    BY <2>1
  <2>3. 2 ^ (m - 1) \in Int /\ BackoffStart \in Int /\ BackoffMax \in Int
    BY FeedsAssumption
  <2>4. BackoffStart * 2 ^ (m - 1) \in Int
    BY <2>3
  <2>. QED
    BY <2>2, <2>3, <2>4
<1>. QED
  BY <1>2, <1>3 DEF MaxErrors

\* The ticks that handshakes past the first MaxErrors have to take.
Waits(n) == (n - MaxErrors) * BackoffMax

\* One handshake more takes one longest backoff more.
LEMMA WaitsAdd ==
  /\ Waits(MaxErrors) = 0
  /\ \A n \in Nat : Waits(n) \in Int /\ Waits(n + 1) = Waits(n) + BackoffMax
BY MaxErrorsReachesIt, FeedsAssumption DEF Waits

\* One handshake for each failure until the backoff is longest, and then one
\* for each longest backoff, the current one not yet over.  The history of an
\* outage ends at MaxOutage, and with it the count.
BackoffInv ==
  /\ errors \in 0 .. MaxErrors /\ dials \in Nat /\ outage \in 0 .. MaxOutage
  /\ backoff \in (0 .. BackoffMax) \cup {None}
  /\ (errors = 0) = (backoff = None)
  /\ errors < MaxErrors => dials <= errors
  /\ errors = MaxErrors /\ dials >= MaxErrors =>
       Waits(dials) + (IF outage < MaxOutage THEN backoff ELSE 0) <= outage

\* When the backoff is longest, a poll has waited for all of it.
LEMMA LongestWait ==
  ASSUME BackoffInv, ~InBackoff, errors = MaxErrors
  PROVE  backoff = BackoffMax
<1>1. MaxErrors \in Nat \ {0} /\ BackoffMax \in Nat /\ backoff # None
  BY MaxErrorsReachesIt, FeedsAssumption DEF BackoffInv
<1>2. ~(backoff < Lesser(BackoffStart * 2 ^ (MaxErrors - 1), BackoffMax))
  BY <1>1 DEF InBackoff
<1>3. 2 ^ (MaxErrors - 1) \in Int /\ BackoffStart \in Int
  BY <1>1, FeedsAssumption
<1>4. BackoffStart * 2 ^ (MaxErrors - 1) \in Int
  BY <1>3
<1>5. Lesser(BackoffStart * 2 ^ (MaxErrors - 1), BackoffMax) = BackoffMax
  BY <1>1, <1>4, MaxErrorsReachesIt DEF Lesser
<1>. QED
  BY <1>1, <1>2, <1>5 DEF BackoffInv

\* A poll that fails adds at most one handshake, and starts the backoff anew.
LEMMA PollBacksOff ==
  ASSUME BadgesInv, BackoffInv, Poll
  PROVE  BackoffInv'
<1>1. /\ errors \in 0 .. MaxErrors /\ dials \in Nat /\ outage \in 0 .. MaxOutage
      /\ MaxErrors \in Nat \ {0} /\ BackoffMax \in Nat \ {0} /\ MaxOutage \in Nat
      /\ None \notin 0 .. BackoffMax
  BY MaxErrorsReachesIt, FeedsAssumption DEF BackoffInv
<1>2. CASE Online
  BY <1>1, <1>2 DEF Online, BackoffInv
<1>3. CASE UNCHANGED <<errors, backoff, dials, outage>>
  BY <1>3 DEF BackoffInv
<1>4. CASE /\ errors' = Lesser(errors + 1, MaxErrors) /\ backoff' = 0 /\ outage' = outage
           /\ dials' = dials \/ (outage < MaxOutage /\ dials' = dials + 1)
  <2>1. errors' \in 1 .. MaxErrors /\ dials' \in Nat /\ backoff' \in 0 .. BackoffMax
    BY <1>1, <1>4 DEF Lesser
  <2>2. CASE errors + 1 < MaxErrors
    BY <1>1, <1>4, <2>1, <2>2 DEF Lesser, BackoffInv
  <2>3. CASE errors + 1 = MaxErrors
    <3>1. errors' = MaxErrors /\ dials' <= MaxErrors
      BY <1>1, <1>4, <2>3 DEF Lesser, BackoffInv
    <3>2. dials' >= MaxErrors => Waits(dials') = 0
      BY <1>1, <2>1, <3>1, WaitsAdd
    <3>. QED
      BY <1>1, <1>4, <2>1, <3>1, <3>2 DEF BackoffInv
  <2>4. CASE errors = MaxErrors /\ dials < MaxErrors
    <3>1. errors' = MaxErrors /\ dials' <= MaxErrors
      BY <1>1, <1>4, <2>4 DEF Lesser
    <3>2. dials' >= MaxErrors => Waits(dials') = 0
      BY <1>1, <2>1, <3>1, WaitsAdd
    <3>. QED
      BY <1>1, <1>4, <2>1, <3>1, <3>2 DEF BackoffInv
  <2>5. CASE errors = MaxErrors /\ dials >= MaxErrors
    <3>1. errors' = MaxErrors /\ backoff = BackoffMax
      BY <1>1, <1>4, <2>5, LongestWait, PollOutcome DEF Lesser
    <3>2. Waits(dials) + (IF outage < MaxOutage THEN BackoffMax ELSE 0) <= outage
      BY <2>5, <3>1 DEF BackoffInv
    <3>3. Waits(dials') <= outage /\ Waits(dials') \in Int
      BY <1>1, <1>4, <3>2, WaitsAdd
    <3>. QED
      BY <1>1, <1>4, <2>1, <3>1, <3>3 DEF BackoffInv
  <2>. QED
    BY <1>1, <2>2, <2>3, <2>4, <2>5
<1>. QED
  <2>1. PICK r \in Calls :
          \/ Online
          \/ /\ errors' = Lesser(errors + 1, MaxErrors) /\ backoff' = 0
             /\ dials' = IF outage < MaxOutage THEN dials + r.dials ELSE dials
             /\ outage' = outage
          \/ UNCHANGED <<errors, backoff, dials, outage>>
    BY PollOutcome DEF hist
  <2>2. r.dials = 0 \/ r.dials = 1
    BY DEF Calls
  <2>. QED
    BY <1>1, <1>2, <1>3, <1>4, <2>1, <2>2

\* A tick of the clock brings the end of the backoff and that of the outage
\* equally near.
LEMMA TickBacksOff ==
  ASSUME BackoffInv, Tick
  PROVE  BackoffInv'
<1>1. /\ errors \in 0 .. MaxErrors /\ dials \in Nat /\ outage \in 0 .. MaxOutage
      /\ MaxErrors \in Nat \ {0} /\ BackoffMax \in Nat \ {0} /\ MaxOutage \in Nat
      /\ None \notin 0 .. BackoffMax
  BY MaxErrorsReachesIt, FeedsAssumption DEF BackoffInv
<1>2. /\ backoff' = IF backoff = None THEN None ELSE Lesser(backoff + 1, BackoffMax)
      /\ outage' = IF errors = 0 THEN 0 ELSE Lesser(outage + 1, MaxOutage)
      /\ UNCHANGED <<errors, dials>>
  BY DEF Tick
<1>3. CASE errors < MaxErrors
  BY <1>1, <1>2, <1>3 DEF BackoffInv, Lesser
<1>4. CASE errors = MaxErrors
  <2>1. /\ backoff \in 0 .. BackoffMax /\ backoff' = Lesser(backoff + 1, BackoffMax)
        /\ outage' = Lesser(outage + 1, MaxOutage)
    BY <1>1, <1>2, <1>4 DEF BackoffInv
  <2>2. /\ backoff' \in 0 .. BackoffMax /\ backoff' <= backoff + 1
        /\ outage' \in 0 .. MaxOutage /\ outage <= outage'
        /\ outage' < MaxOutage => outage < MaxOutage /\ outage' = outage + 1
    BY <1>1, <2>1 DEF Lesser
  <2>3. Waits(dials) \in Int
    BY <1>1, WaitsAdd
  <2>4. dials >= MaxErrors =>
          Waits(dials) + (IF outage < MaxOutage THEN backoff ELSE 0) <= outage
    BY <1>4 DEF BackoffInv
  <2>5. dials >= MaxErrors =>
          Waits(dials) + (IF outage' < MaxOutage THEN backoff' ELSE 0) <= outage'
    BY <1>1, <2>1, <2>2, <2>3, <2>4
  <2>. QED
    BY <1>1, <1>2, <1>4, <2>1, <2>2, <2>5 DEF BackoffInv
<1>. QED
  BY <1>1, <1>3, <1>4

\* No other step touches the backoff.
LEMMA BackoffInvariant == Spec => []BackoffInv
<1>1. Init => BackoffInv
  <2>. SUFFICES ASSUME Init PROVE BackoffInv
    OBVIOUS
  <2>1. errors = 0 /\ backoff = None /\ dials = 0 /\ outage = 0
    BY DEF Init, FeedsInit
  <2>. QED
    BY <2>1, MaxErrorsReachesIt, FeedsAssumption DEF BackoffInv
<1>2. BadgesInv /\ BackoffInv /\ [Lcd(Badge) \/ Lcd(Outside) \/ Eink]_vars => BackoffInv'
  <2>. SUFFICES ASSUME BadgesInv, BackoffInv, [Lcd(Badge) \/ Lcd(Outside) \/ Eink]_vars
                PROVE  BackoffInv'
    OBVIOUS
  <2>1. CASE Poll
    BY <2>1, PollBacksOff
  <2>2. CASE Tick
    BY <2>2, TickBacksOff
  <2>3. CASE ~Poll /\ ~Tick
    <3>1. UNCHANGED <<errors, backoff, dials, outage>>
      BY <2>3 DEF Lcd, Badge, Outside, Eink, Join, SyncClock, BootStats, BootOptional, Settle,
                  Press, Plug, ApRestart, AirChange, RouteChange, IdleClose, Publish,
                  sched, hist, vars, feedVars
    <3>. QED
      BY <3>1 DEF BackoffInv
  <2>. QED
    BY <2>1, <2>2, <2>3
<1>. QED
  BY <1>1, <1>2, BadgesInvariant, PTL DEF Spec

\* During an outage the handshakes thin out (feeds.py, _in_error_backoff), for
\* any first and longest backoff: one per doubling, then one per longest backoff.
THEOREM OutagesAreGentle == Spec => []OutageIsGentle
<1>1. BackoffInv => OutageIsGentle
  <2>. SUFFICES ASSUME BackoffInv PROVE dials <= MaxErrors + outage \div BackoffMax
    BY DEF OutageIsGentle
  <2>1. /\ errors \in 0 .. MaxErrors /\ dials \in Nat /\ outage \in Nat
        /\ MaxErrors \in Nat \ {0} /\ BackoffMax \in Nat \ {0}
        /\ None \notin 0 .. BackoffMax
    BY MaxErrorsReachesIt, FeedsAssumption DEF BackoffInv
  <2>2. outage \div BackoffMax \in Nat
    BY <2>1
  <2>3. CASE dials <= MaxErrors
    BY <2>1, <2>2, <2>3
  <2>4. CASE dials > MaxErrors
    <3>1. errors = MaxErrors /\ backoff \in 0 .. BackoffMax
      BY <2>1, <2>4 DEF BackoffInv
    <3>. DEFINE n == dials - MaxErrors
    <3>2. n \in Nat /\ n * BackoffMax \in Int
      BY <2>1, <2>4
    <3>3. n * BackoffMax + (IF outage < MaxOutage THEN backoff ELSE 0) <= outage
      BY <2>1, <2>4, <3>1 DEF BackoffInv, Waits
    <3>4. n * BackoffMax <= outage
      BY <2>1, <3>1, <3>2, <3>3
    <3>5. n <= outage \div BackoffMax
      <4>. HIDE DEF n
      <4>. QED
        BY <2>1, <3>2, <3>4
    <3>. QED
      BY <2>1, <2>2, <3>5
  <2>. QED
    BY <2>1, <2>3, <2>4
<1>. QED
  BY <1>1, BackoffInvariant, PTL

-----------------------------------------------------------------------------
(***************************************************************************)
(* The types.  What BadgesInv and BackoffInv say of them is not repeated.  *)
(***************************************************************************)

\* b bounds the cadences of feed i, and of the first n feeds.
Bounds(b, i) ==
  /\ UsbCadence[FeedTable[i]] <= b
  /\ BatteryCadence[FeedTable[i]] # Off => BatteryCadence[FeedTable[i]] <= b
Bounded(n) == \E b \in Nat : \A i \in 1 .. n : Bounds(b, i)

\* The cadences are numbers.
LEMMA FeedsHaveCadences ==
  /\ Len(FeedTable) \in Nat
  /\ \A i \in 1 .. Len(FeedTable) :
       /\ UsbCadence[FeedTable[i]] \in Nat
       /\ BatteryCadence[FeedTable[i]] # Off => BatteryCadence[FeedTable[i]] \in Nat
BY FeedsAssumption

\* Each feed has a bound,
LEMMA FeedIsBounded ==
  ASSUME NEW i \in 1 .. Len(FeedTable)
  PROVE  \E c \in Nat : Bounds(c, i)
<1>1. PICK u \in Nat : u = UsbCadence[FeedTable[i]]
  BY FeedsHaveCadences
<1>2. CASE BatteryCadence[FeedTable[i]] = Off
  BY <1>1, <1>2 DEF Bounds
<1>3. CASE BatteryCadence[FeedTable[i]] # Off
  <2>1. PICK v \in Nat : v = BatteryCadence[FeedTable[i]]
    BY <1>3, FeedsHaveCadences
  <2>2. u + v \in Nat /\ u <= u + v /\ v <= u + v
    OBVIOUS
  <2>3. Bounds(u + v, i)
    BY <1>1, <2>1, <2>2 DEF Bounds
  <2>. QED
    BY <2>2, <2>3
<1>. QED
  BY <1>2, <1>3

\* and the sum of two bounds bounds what either does.
LEMMA LargerBounds ==
  ASSUME NEW b \in Nat, NEW c \in Nat, NEW i \in 1 .. Len(FeedTable),
         Bounds(b, i) \/ Bounds(c, i)
  PROVE  Bounds(b + c, i)
<1>1. \A x \in Nat : (x <= b => x <= b + c) /\ (x <= c => x <= b + c)
  OBVIOUS
<1>. QED
  BY <1>1, FeedsHaveCadences DEF Bounds

\* There are finitely many cadences: they have a bound, and so a longest one.
\* (By the first n feeds of the table without a bound, if there were any.)
LEMMA CadencesBounded == \E b \in Nat : \A c \in Cadences : c <= b
<1>. DEFINE bad == {n \in 0 .. Len(FeedTable) : ~Bounded(n)}
<1>1. bad = {}
  <2>. SUFFICES ASSUME bad # {} PROVE FALSE
    OBVIOUS
  <2>1. PICK n \in bad : \A m \in bad : n <= m
    <3>1. bad \in SUBSET Nat
      BY FeedsHaveCadences
    <3>. HIDE DEF bad
    <3>. QED
      BY <3>1, LeastIndex
  <2>2. n \in 0 .. Len(FeedTable) /\ ~Bounded(n)
    OBVIOUS
  <2>3. n # 0
    <3>1. \A i \in 1 .. 0 : Bounds(0, i)
      OBVIOUS
    <3>. QED
      BY <2>2, <3>1 DEF Bounded
  <2>4. n \in 1 .. Len(FeedTable) /\ n - 1 \in 0 .. Len(FeedTable) /\ ~(n <= n - 1)
    BY <2>2, <2>3, FeedsHaveCadences
  <2>5. Bounded(n - 1)
    BY <2>1, <2>4
  <2>6. PICK b \in Nat : \A i \in 1 .. n - 1 : Bounds(b, i)
    BY <2>5 DEF Bounded
  <2>7. PICK c \in Nat : Bounds(c, n)
    BY <2>4, FeedIsBounded
  <2>8. ASSUME NEW i \in 1 .. n PROVE Bounds(b + c, i)
    <3>1. i \in 1 .. Len(FeedTable) /\ (i \in 1 .. n - 1 \/ i = n)
      BY <2>4, FeedsHaveCadences
    <3>. QED
      BY <2>6, <2>7, <3>1, LargerBounds
  <2>9. b + c \in Nat
    OBVIOUS
  <2>. QED
    BY <2>2, <2>8, <2>9 DEF Bounded
<1>2. Bounded(Len(FeedTable))
  BY <1>1, FeedsHaveCadences
<1>3. PICK b \in Nat : \A i \in 1 .. Len(FeedTable) : Bounds(b, i)
  BY <1>2 DEF Bounded
<1>4. \A k \in Feeds : \E i \in 1 .. Len(FeedTable) : k = FeedTable[i]
  BY FeedsAssumption
<1>. QED
  BY <1>3, <1>4 DEF Cadences, Bounds

\* MaxCadence is the longest cadence, whatever the cadences.
LEMMA MaxCadenceIsOne == MaxCadence \in Nat
<1>. DEFINE bounds == {b \in Nat : \A c \in Cadences : c <= b}
<1>1. Cadences \in SUBSET (Nat \ {0}) /\ UsbCadence[Stats] \in Cadences
  BY FeedsAssumption, StatsIsFeed DEF Cadences
<1>2. PICK m \in bounds : \A b \in bounds : m <= b
  <2>1. bounds \in SUBSET Nat /\ bounds # {}
    BY CadencesBounded
  <2>. HIDE DEF bounds
  <2>. QED
    BY <2>1, LeastIndex
<1>3. m \in Cadences
  <2>. SUFFICES ASSUME m \notin Cadences PROVE FALSE
    OBVIOUS
  <2>1. m \in Nat /\ \A c \in Cadences : c <= m
    BY <1>2
  <2>2. ASSUME NEW c \in Cadences PROVE c <= m - 1
    <3>1. c \in Nat /\ c <= m /\ c # m
      BY <1>1, <2>1
    <3>. QED
      BY <2>1, <3>1
  <2>3. m - 1 \in Nat
    <3>1. UsbCadence[Stats] \in Nat \ {0} /\ UsbCadence[Stats] <= m
      BY <1>1, <2>1
    <3>. QED
      BY <2>1, <3>1
  <2>. QED
    BY <1>2, <2>1, <2>2, <2>3
<1>4. MaxCadence \in Cadences
  BY <1>2, <1>3 DEF MaxCadence
<1>. QED
  BY <1>1, <1>4

\* join_wifi joins a network that is on the air.
LEMMA JoinedOnAir ==
  ASSUME NEW order, Joined(order) # None
  PROVE  Joined(order) \in ap
<1>. DEFINE heard == {i \in 1 .. Len(order) : order[i] \in ap}
<1>1. heard # {} /\ heard \in SUBSET Nat
  BY DEF Joined
<1>2. \E i \in heard : \A j \in heard : i <= j
  <2>. HIDE DEF heard
  <2>. QED
    BY <1>1, LeastIndex
<1>3. Joined(order) = order[CHOOSE i \in heard : \A j \in heard : i <= j]
  BY <1>1 DEF Joined
<1>4. (CHOOSE i \in heard : \A j \in heard : i <= j) \in heard
  BY <1>2
<1>. QED
  BY <1>3, <1>4

\* What the feeds of the LCD badge show and last brought.
PayloadTyped == payload \in [Feeds -> Shown] /\ lastBody \in [Feeds -> Shown]

\* The rest, by who changes it.
ServerTyped == server \in [Feeds -> [ver : 0 .. MaxVersion, quality : Quality]]
WorldTyped == broken \in Feeds \cup {None} /\ route \in BOOLEAN /\ ap \subseteq OnAir
BootTyped == /\ phase \in {"join", "clock", "fetch", "run", "dead"}
             /\ attempt \in 0 .. 1
             /\ assoc \in OnAir \cup {None} /\ real \in BOOLEAN /\ clockSet \in BOOLEAN
AgeTyped == age \in [Feeds -> 0 .. MaxCadence]
UserTyped == /\ onBattery \in BOOLEAN /\ liveOn \in BOOLEAN
             /\ input \in {"now", "recent", "quiet"}
             /\ faults \in 0 .. MaxFaults /\ events \in 0 .. MaxEvents
Typed == ServerTyped /\ WorldTyped /\ BootTyped /\ PayloadTyped /\ AgeTyped /\ UserTyped

\* A body that was found at the server can be shown.
LEMMA FoundIsShown ==
  ASSUME ServerTyped, NEW k \in Feeds, NEW r,
         Body(r) = [of |-> k, ver |-> server[k].ver], Found(r)
  PROVE  Body(r) \in Shown
<1>1. server[k].ver \in 0 .. MaxVersion /\ r.of = k
  BY DEF ServerTyped, Body
<1>. QED
  BY <1>1, FeedsAssumption DEF Found, Shown

\* Faults are counted up to their bound.
LEMMA SpentInRange ==
  ASSUME UserTyped, NEW k \in Feeds, NEW r \in Calls, k = broken \/ faults + r.faults <= MaxFaults
  PROVE  Spent(k, r) \in 0 .. MaxFaults
BY FeedsAssumption DEF UserTyped, Spent, Calls

\* The program's steps, one by one.
LEMMA PollTyped ==
  ASSUME BadgesInv, Typed, Poll
  PROVE  Typed'
<1>. DEFINE d == Due
<1>1. d \in Feeds
  BY PollOutcome
<1>2. PICK r \in Calls :
        /\ faults' = Spent(d, r) /\ (d = broken \/ faults + r.faults <= MaxFaults)
        /\ age' = [age EXCEPT ![d] = 0]
        /\ \/ Accept(d, r) /\ phase' \in {phase, "dead"} /\ Body(r) = [of |-> d, ver |-> server[d].ver]
           \/ UNCHANGED <<phase, payload, lastBody>>
           \/ phase' = "dead" /\ UNCHANGED <<payload, lastBody>>
  BY PollOutcome
<1>. HIDE DEF d
<1>3. UNCHANGED <<world, attempt, wifi, power, input, events>>
  BY DEF Poll
<1>4. faults' \in 0 .. MaxFaults
  BY <1>1, <1>2, SpentInRange DEF Typed
<1>5. AgeTyped'
  BY <1>1, <1>2, MaxCadenceIsOne DEF Typed, AgeTyped
<1>6. PayloadTyped'
  <2>1. CASE UNCHANGED <<payload, lastBody>>
    BY <2>1 DEF Typed, PayloadTyped
  <2>2. CASE Accept(d, r) /\ Body(r) = [of |-> d, ver |-> server[d].ver] /\ Found(r)
    <3>1. Body(r) \in Shown
      BY <1>1, <2>2, FoundIsShown DEF Typed
    <3>. QED
      BY <1>1, <2>2, <3>1 DEF Accept, WithStats, Typed, PayloadTyped
  <2>3. CASE Accept(d, r) /\ ~Found(r)
    BY <2>3 DEF Accept, Typed, PayloadTyped
  <2>. QED
    BY <1>2, <2>1, <2>2, <2>3
<1>7. BootTyped'
  BY <1>2, <1>3 DEF Typed, BootTyped, wifi
<1>. QED
  BY <1>3, <1>4, <1>5, <1>6, <1>7
  DEF Typed, ServerTyped, WorldTyped, UserTyped, world, power

\* The first request of the boot: its body, nothing, or a retry.
LEMMA BootStatsTyped ==
  ASSUME BadgesInv, Typed, BootStats
  PROVE  Typed'
<1>1. PICK r \in Fetches(Stats) :
        /\ faults' = Spent(Stats, r)
        /\ \/ /\ r.how = "answer" /\ Found(r)
              /\ payload' = [k \in Feeds |-> IF k = Stats THEN Body(r) ELSE Absent]
              /\ UNCHANGED <<phase, attempt, assoc, real>>
           \/ phase' = "dead" /\ UNCHANGED <<attempt, assoc, real, payload>>
           \/ BootRetry /\ UNCHANGED payload
  BY DEF BootStats
<1>2. /\ r \in Calls /\ (Stats = broken \/ faults + r.faults <= MaxFaults)
      /\ r.how = "answer" => Body(r) = [of |-> Stats, ver |-> server[Stats].ver]
  BY <1>1, StatsIsFeed, FetchIsClean DEF Fetches
<1>3. UNCHANGED <<world, clockSet, lastBody, age, power, input, events>>
  BY DEF BootStats
<1>4. faults' \in 0 .. MaxFaults
  BY <1>1, <1>2, StatsIsFeed, SpentInRange DEF Typed
<1>5. PayloadTyped'
  <2>1. CASE UNCHANGED payload
    BY <1>3, <2>1 DEF Typed, PayloadTyped
  <2>2. CASE /\ r.how = "answer" /\ Found(r)
             /\ payload' = [k \in Feeds |-> IF k = Stats THEN Body(r) ELSE Absent]
    <3>1. Body(r) \in Shown
      BY <1>2, <2>2, StatsIsFeed, FoundIsShown DEF Typed
    <3>2. Absent \in Shown
      BY DEF Shown
    <3>. QED
      BY <1>3, <2>2, <3>1, <3>2 DEF Typed, PayloadTyped
  <2>. QED
    BY <1>1, <2>1, <2>2
<1>6. BootTyped'
  <2>1. CASE BootRetry
    <3>1. attempt' \in 0 .. 1
      BY <2>1 DEF BootRetry, Typed, BootTyped
    <3>2. phase' \in {phase, "join"} /\ assoc' \in {assoc, None} /\ real' \in {real, FALSE}
      BY <2>1 DEF BootRetry
    <3>. QED
      BY <1>3, <3>1, <3>2 DEF Typed, BootTyped
  <2>2. CASE UNCHANGED <<attempt, assoc, real>> /\ phase' \in {phase, "dead"}
    BY <1>3, <2>2 DEF Typed, BootTyped
  <2>. QED
    BY <1>1, <2>1, <2>2
<1>. QED
  BY <1>3, <1>4, <1>5, <1>6
  DEF Typed, ServerTyped, WorldTyped, AgeTyped, UserTyped, world, power

\* Each further request of the boot.
LEMMA BootOptionalTyped ==
  ASSUME BadgesInv, Typed, BootOptional
  PROVE  Typed'
<1>. DEFINE j == FeedTable[nextFeed]
<1>1. j \in Feeds
  BY FeedsAssumption DEF BadgesInv
<1>2. PICK r \in Fetches(j) :
        /\ faults' = Spent(j, r)
        /\ payload' = IF r.how = "answer" /\ Found(r) /\ Parsed(r)
                      THEN [payload EXCEPT ![j] = Body(r)] ELSE payload
        /\ phase' \in {phase, "run", "dead"}
  BY DEF BootOptional
<1>. HIDE DEF j
<1>3. /\ r \in Calls /\ (j = broken \/ faults + r.faults <= MaxFaults)
      /\ r.how = "answer" => Body(r) = [of |-> j, ver |-> server[j].ver]
  BY <1>1, <1>2, FetchIsClean DEF Fetches
<1>4. /\ age' = [k \in Feeds |-> 0]
      /\ UNCHANGED <<world, attempt, wifi, lastBody, power, input, events>>
  BY DEF BootOptional
<1>5. faults' \in 0 .. MaxFaults
  BY <1>1, <1>2, <1>3, SpentInRange DEF Typed
<1>6. PayloadTyped'
  <2>1. CASE UNCHANGED payload
    BY <1>4, <2>1 DEF Typed, PayloadTyped
  <2>2. CASE r.how = "answer" /\ Found(r) /\ payload' = [payload EXCEPT ![j] = Body(r)]
    <3>1. Body(r) \in Shown
      BY <1>1, <1>3, <2>2, FoundIsShown DEF Typed
    <3>. QED
      BY <1>1, <1>4, <2>2, <3>1 DEF Typed, PayloadTyped
  <2>. QED
    BY <1>2, <2>1, <2>2
<1>7. AgeTyped'
  BY <1>4, MaxCadenceIsOne DEF AgeTyped
<1>8. BootTyped'
  BY <1>2, <1>4 DEF Typed, BootTyped, wifi
<1>. QED
  BY <1>4, <1>5, <1>6, <1>7, <1>8
  DEF Typed, ServerTyped, WorldTyped, UserTyped, world, power

\* The rest of the LCD badge's program.
LEMMA ProgramTyped ==
  ASSUME Typed, Join \/ SyncClock \/ Tick \/ Settle
  PROVE  Typed'
<1>1. CASE Join
  <2>1. BootTyped'
    <3>1. CASE phase' \in {"clock", "dead"} /\ UNCHANGED <<attempt, wifi>>
      BY <3>1 DEF Typed, BootTyped, wifi
    <3>2. CASE \E order \in Orders :
                 /\ Joined(order) # None
                 /\ assoc' = Joined(order) /\ real' = TRUE /\ phase' = "clock"
                 /\ UNCHANGED <<attempt, clockSet>>
      BY <3>2, JoinedOnAir DEF Typed, WorldTyped, BootTyped
    <3>. QED
      BY <1>1, <3>1, <3>2 DEF Join
  <2>. QED
    BY <1>1, <2>1
    DEF Join, Typed, ServerTyped, WorldTyped, PayloadTyped, AgeTyped, UserTyped, world, sched, power
<1>2. CASE SyncClock
  <2>1. /\ phase' = "fetch" /\ clockSet' \in {clockSet, TRUE}
        /\ faults' = faults \/ (faults < MaxFaults /\ faults' = faults + 1)
        /\ UNCHANGED <<world, attempt, assoc, real, sched, power, input, events>>
    BY <1>2 DEF SyncClock
  <2>2. faults' \in 0 .. MaxFaults
    BY <2>1, FeedsAssumption DEF Typed, UserTyped
  <2>3. BootTyped'
    BY <2>1 DEF Typed, BootTyped
  <2>. QED
    BY <2>1, <2>2, <2>3
    DEF Typed, ServerTyped, WorldTyped, PayloadTyped, AgeTyped, UserTyped, world, sched, power
<1>3. CASE Tick
  <2>1. AgeTyped'
    <3>1. age' = [k \in Feeds |-> Lesser(age[k] + 1, MaxCadence)]
      BY <1>3 DEF Tick
    <3>. QED
      BY <3>1, MaxCadenceIsOne DEF Typed, AgeTyped, Lesser
  <2>. QED
    BY <1>3, <2>1
    DEF Tick, Typed, ServerTyped, WorldTyped, BootTyped, PayloadTyped, UserTyped,
        world, boot, wifi, power
<1>4. CASE Settle
  BY <1>4
  DEF Settle, Typed, ServerTyped, WorldTyped, BootTyped, PayloadTyped, AgeTyped, UserTyped,
      world, boot, wifi, sched, power
<1>. QED
  BY <1>1, <1>2, <1>3, <1>4

\* What the user, the networks and the server do, in front of either badge.
LEMMA OutsideTyped ==
  ASSUME Typed, Outside
  PROVE  Typed'
<1>1. events' \in 0 .. MaxEvents
  <2>1. Event
    BY DEF Outside, Press, Plug, ApRestart, AirChange, RouteChange, IdleClose, Publish
  <2>. QED
    BY <2>1, FeedsAssumption DEF Event, Typed, UserTyped
<1>2. CASE Press \/ Plug \/ IdleClose
  <2>1. /\ UNCHANGED <<world, boot, wifi, sched, faults>>
        /\ onBattery' \in {onBattery, ~onBattery} /\ liveOn' \in {liveOn, ~liveOn}
        /\ input' \in {input, "now"}
    BY <1>2 DEF Press, Plug, IdleClose, power
  <2>2. onBattery' \in BOOLEAN /\ liveOn' \in BOOLEAN
    BY <2>1 DEF Typed, UserTyped
  <2>3. UserTyped'
    BY <1>1, <2>1, <2>2 DEF Typed, UserTyped
  <2>. QED
    BY <2>1, <2>3
    DEF Typed, ServerTyped, WorldTyped, BootTyped, PayloadTyped, AgeTyped, world, boot, wifi, sched
<1>3. CASE ApRestart \/ AirChange \/ RouteChange
  <2>1. /\ UNCHANGED <<server, broken, boot, assoc, clockSet, sched, power, input, faults>>
        /\ real' \in {real, FALSE} /\ route' \in {route, ~route}
        /\ ap' = ap \/ \E n \in OnAir : ap' \in {ap \cup {n}, ap \ {n}}
    BY <1>3 DEF ApRestart, AirChange, RouteChange, world, wifi
  <2>2. route' \in BOOLEAN /\ real' \in BOOLEAN
    BY <2>1 DEF Typed, WorldTyped, BootTyped
  <2>3. WorldTyped'
    BY <2>1, <2>2 DEF Typed, WorldTyped
  <2>4. BootTyped'
    BY <2>1, <2>2 DEF Typed, BootTyped, boot
  <2>. QED
    BY <1>1, <2>1, <2>3, <2>4
    DEF Typed, ServerTyped, PayloadTyped, AgeTyped, UserTyped, sched, power
<1>4. CASE Publish
  <2>1. ServerTyped'
    <3>1. PICK k \in Feeds, q \in Quality :
            /\ server[k].ver < MaxVersion
            /\ server' = [server EXCEPT ![k] = [ver |-> @.ver + 1, quality |-> q]]
      BY <1>4 DEF Publish, Quality
    <3>2. server[k].ver + 1 \in 0 .. MaxVersion
      BY <3>1, FeedsAssumption DEF Typed, ServerTyped
    <3>. QED
      BY <3>1, <3>2 DEF Typed, ServerTyped
  <2>. QED
    BY <1>1, <1>4, <2>1
    DEF Publish, Typed, WorldTyped, BootTyped, PayloadTyped, AgeTyped, UserTyped,
        boot, wifi, sched, power
<1>. QED
  BY <1>2, <1>3, <1>4 DEF Outside

\* The e-ink badge's client is the same.
LEMMA SameClient ==
  ASSUME NEW s, NEW k, NEW reach, NEW kinds
  PROVE  Simple!Get(s, k, reach, kinds) = Get(s, k, reach, kinds)
BY DEF Simple!Get, Get, Simple!Attempt, Attempt, Simple!Request, Request, Simple!Answered,
       Answered, Simple!Outcome, Outcome, Simple!Settled, Settled, Simple!Closed, Closed,
       Simple!Fresh, Fresh, Simple!Errors, Errors

\* What a try adds to the faults is a number.
LEMMA RefreshesCount ==
  ASSUME NEW st, NEW t \in Simple!Refreshes(st)
  PROVE  t.faults \in Nat
<1>1. Clean(Closed) /\ Simple!Closed = Closed
  BY DEF Clean, Closed, Socket, Simple!Closed
<1>2. Simple!KindsOf \in SUBSET Kinds
  BY DEF Simple!KindsOf, Simple!Whole, Simple!Faulty, Kinds, Whole, Faulty
<1>3. PICK r \in Get(Closed, Stats, route, Simple!KindsOf) :
        t \in IF Simple!Usable(Stats, r) THEN Simple!WithLimits(st, r)
              ELSE {Simple!Try([st EXCEPT !.error = TRUE], r.faults)}
  BY <1>1, SameClient DEF Simple!Refreshes
<1>4. r \in Calls /\ Clean(r.sock)
  BY <1>1, <1>2, <1>3, StatsIsFeed, GetIsClean
<1>5. CASE Simple!Usable(Stats, r)
  <2>1. PICK q \in Get(r.sock, LimitsFeed, route, Simple!KindsOf) :
          t.faults = r.faults + q.faults
    BY <1>3, <1>5, SameClient DEF Simple!WithLimits, Simple!Try
  <2>2. q \in Calls
    BY <1>2, <1>4, <2>1, BadgesAssumption, GetIsClean
  <2>. QED
    BY <1>4, <2>1, <2>2 DEF Calls
<1>6. CASE ~Simple!Usable(Stats, r)
  BY <1>3, <1>4, <1>6 DEF Simple!Try, Calls
<1>. QED
  BY <1>5, <1>6

\* A wake adds the faults of its tries, up to their bound.
LEMMA WakeCounts ==
  ASSUME UserTyped, Simple!Wake
  PROVE  faults' \in 0 .. MaxFaults
<1>1. PICK button \in {"B", "up", "down", "none"}, s \in Simple!Started :
        \E t \in Simple!Pressed(s, button) :
          faults + t.faults <= MaxFaults /\ faults' = faults + t.faults
  BY DEF Simple!Wake
<1>2. PICK t \in Simple!Pressed(s, button) :
        faults + t.faults <= MaxFaults /\ faults' = faults + t.faults
  BY <1>1
<1>3. s.faults \in Nat
  BY RefreshesCount DEF Simple!Started, Simple!Try
<1>4. t.faults \in Nat
  <2>1. CASE button = "B"
    <3>1. PICK u \in Simple!Refreshes(s.st) : t.faults = s.faults + u.faults
      BY <1>2, <2>1 DEF Simple!Pressed, Simple!Try
    <3>. QED
      BY <1>3, <3>1, RefreshesCount
  <2>2. CASE button # "B"
    BY <1>2, <1>3, <2>2 DEF Simple!Pressed, Simple!Try
  <2>. QED
    BY <2>1, <2>2
<1>. QED
  BY <1>2, <1>4, FeedsAssumption DEF UserTyped

\* The e-ink badge's steps change its flash, the surroundings and the faults.
LEMMA EinkTyped ==
  ASSUME Typed, Eink
  PROVE  Typed'
<1>1. CASE RouteChange \/ Publish
  BY <1>1, OutsideTyped DEF Outside
<1>2. CASE Simple!Wake /\ UNCHANGED <<server, broken, route, ap, events>>
  <2>1. faults' \in 0 .. MaxFaults
    BY <1>2, WakeCounts DEF Typed
  <2>. QED
    BY <1>2, <2>1
    DEF Eink, Typed, ServerTyped, WorldTyped, BootTyped, PayloadTyped, AgeTyped, UserTyped,
        boot, wifi, sched, power
<1>. QED
  BY <1>1, <1>2 DEF Eink

\* What a badge starts with.
LEMMA InitTyped == Init => Typed
<1>. SUFFICES ASSUME Init PROVE Typed
  OBVIOUS
<1>1. Absent \in Shown /\ 0 \in 0 .. MaxCadence /\ 1 \in 0 .. MaxVersion
  BY MaxCadenceIsOne, FeedsAssumption DEF Shown
<1>2. ServerTyped
  BY <1>1 DEF Init, FeedsInit, ServerTyped, Quality
<1>3. PayloadTyped /\ AgeTyped
  BY <1>1 DEF Init, FeedsInit, PayloadTyped, AgeTyped
<1>4. WorldTyped
  BY FeedsAssumption DEF Init, FeedsInit, WorldTyped
<1>5. BootTyped
  <2>1. phase = "join" /\ attempt = 0 /\ real \in BOOLEAN /\ clockSet \in BOOLEAN
    BY DEF Init, FeedsInit
  <2>2. assoc \in ap \cup {None} /\ ap \subseteq OnAir
    BY DEF Init, FeedsInit
  <2>. QED
    BY <2>1, <2>2 DEF BootTyped
<1>6. UserTyped
  <2>1. onBattery = FALSE /\ liveOn = FALSE /\ input = "quiet" /\ faults = 0 /\ events = 0
    BY DEF Init, FeedsInit
  <2>2. faults \in 0 .. MaxFaults /\ events \in 0 .. MaxEvents
    BY <2>1, FeedsAssumption
  <2>. QED
    BY <2>1, <2>2 DEF UserTyped
<1>. QED
  BY <1>2, <1>3, <1>4, <1>5, <1>6 DEF Typed

\* The types of both badges (BadgeFeeds and SimpleBadge), for any feeds, cadences
\* and networks; that errors are counted exactly while a backoff runs is a part.
THEOREM BadgesAreTyped == Spec => []BadgesTypeOK
<1>1. BadgesInv /\ Typed /\ [Lcd(Badge) \/ Lcd(Outside) \/ Eink]_vars => Typed'
  <2>1. Typed /\ UNCHANGED vars => Typed'
    BY DEF vars, feedVars, world, boot, wifi, sched, power, Typed, ServerTyped, WorldTyped,
           BootTyped, PayloadTyped, AgeTyped, UserTyped
  <2>. QED
    BY <2>1, PollTyped, BootStatsTyped, BootOptionalTyped, ProgramTyped, OutsideTyped, EinkTyped
    DEF Lcd, Badge
<1>2. BadgesInv /\ BackoffInv /\ Typed => BadgesTypeOK
  <2>1. Typed => faults \in Nat
    BY DEF Typed, UserTyped
  <2>2. BadgesInv /\ BackoffInv /\ Typed => TypeOK
    BY DEF BadgesInv, Clean, BackoffInv, Typed, ServerTyped, WorldTyped, BootTyped,
           PayloadTyped, AgeTyped, UserTyped, TypeOK
  <2>. QED
    BY <2>1, <2>2
    DEF BadgesTypeOK, BadgesInv, FlashFromServer, Saved, Simple!SimpleTypeOK
<1>3. Spec => []Typed
  BY <1>1, InitTyped, BadgesInvariant, PTL DEF Spec
<1>. QED
  BY <1>2, <1>3, BadgesInvariant, BackoffInvariant, PTL

=============================================================================

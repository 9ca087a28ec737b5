--------------------------- MODULE MonitorsProofs ---------------------------
(***************************************************************************)
(* What watches Claude Code over time, proved together.  First the parts   *)
(* of a self-hosted server on their own: no transcript misses the sync,    *)
(* and its limits feed is honest.  Then the whole: every step of Monitors  *)
(* is a step of one part and leaves the others alone, so that what is      *)
(* proved of a part (here, and in PartsProofs) holds whatever runs beside  *)
(* it; the limits a main server serves, with its remotes' readings merged  *)
(* in, are honest; questions that wait for the human are banked as they    *)
(* should be; and every celebration was earned.                            *)
(***************************************************************************)
EXTENDS Monitors, PartsProofs, MetricsProofs, FiniteSetTheorems, WellFoundedInduction, TLAPS

-----------------------------------------------------------------------------
(***************************************************************************)
(* The upload of transcripts.                                              *)
(***************************************************************************)

SyncTypeOK ==
  /\ mtime \in Nat /\ stamp \in Nat /\ locked \in BOOLEAN
  /\ files \in [Transcripts -> Nat] /\ server \in [Transcripts -> Nat]
  /\ sync \in [on : BOOLEAN, newstamp : Nat, todo : SUBSET Directories,
               batch : SUBSET Transcripts, fail : BOOLEAN]

\* No file, and neither stamp, is newer than the clock.
ClockLeads ==
  /\ stamp <= mtime /\ sync.newstamp <= mtime
  /\ \A f \in Transcripts : files[f] <= mtime

\* While nothing has failed, what the run is through with, and was there when
\* its stamp was made, has arrived.
SentSoFar ==
  sync.on /\ ~sync.fail =>
    \A f \in Transcripts :
      (/\ DirectoryOf[f] \notin sync.todo /\ f \notin sync.batch
       /\ files[f] # 0 /\ files[f] <= sync.newstamp)
      => server[f] = files[f]

\* Only what is newer than the stamp is ever sent again.
BatchIsNewer == \A f \in sync.batch : files[f] = 0 \/ files[f] > stamp

BatchNeedsRun == ~sync.on => sync.batch = {}

SyncInv ==
  /\ SyncTypeOK /\ ClockLeads /\ SentSoFar /\ BatchIsNewer /\ BatchNeedsRun /\ StampIsSafe

\* The invariant holds at first.
LEMMA InitSynced == SyncInit => SyncInv
<1> SUFFICES ASSUME SyncInit PROVE SyncInv
  OBVIOUS
<1>1. /\ sync.on = FALSE /\ sync.newstamp = 0 /\ sync.batch = {}
      /\ \A f \in Transcripts : files[f] = 0
  BY DEF SyncInit, Off
<1>2. SyncTypeOK
  BY DEF SyncInit, SyncTypeOK, Off
<1>3. ClockLeads /\ SentSoFar /\ BatchIsNewer /\ BatchNeedsRun /\ StampIsSafe
  BY <1>1 DEF SyncInit, ClockLeads, SentSoFar, BatchIsNewer, BatchNeedsRun, StampIsSafe
<1> QED
  BY <1>2, <1>3 DEF SyncInv

\* Every step of an upload keeps it.
LEMMA StepSynced == SyncInv /\ [SyncNext]_syncVars => SyncInv'
<1> SUFFICES ASSUME SyncInv, [SyncNext]_syncVars PROVE SyncInv'
  OBVIOUS
<1> USE SyncAssumption DEF SyncInv
<1>1. ASSUME NEW f \in Transcripts, Grow(f) PROVE SyncInv'
  <2>1. /\ sync'.on = sync.on /\ sync'.newstamp = sync.newstamp /\ sync'.fail = sync.fail
        /\ sync'.todo = sync.todo /\ sync'.batch = sync.batch
    BY <1>1 DEF SyncTypeOK, Grow
  <2>2. SyncTypeOK'
    BY <1>1 DEF SyncTypeOK, Grow
  <2>3. ClockLeads'
    BY <1>1, <2>1 DEF ClockLeads, SyncTypeOK, Grow
  <2>4. SentSoFar'
    BY <1>1, <2>1 DEF SentSoFar, SyncTypeOK, ClockLeads, Grow
  <2>5. BatchIsNewer'
    BY <1>1, <2>1 DEF BatchIsNewer, SyncTypeOK, ClockLeads, Grow
  <2>6. BatchNeedsRun'
    BY <1>1, <2>1 DEF BatchNeedsRun, SyncTypeOK, Grow
  <2>7. StampIsSafe'
    BY <1>1, <2>1 DEF StampIsSafe, SyncTypeOK, ClockLeads, Grow
  <2> QED
    BY <2>2, <2>3, <2>4, <2>5, <2>6, <2>7
<1>2. ASSUME NEW f \in Transcripts, Delete(f) PROVE SyncInv'
  <2>1. /\ sync'.on = sync.on /\ sync'.newstamp = sync.newstamp /\ sync'.fail = sync.fail
        /\ sync'.todo = sync.todo /\ sync'.batch = sync.batch
    BY <1>2 DEF SyncTypeOK, Delete
  <2>2. SyncTypeOK'
    BY <1>2 DEF SyncTypeOK, Delete
  <2>3. ClockLeads'
    BY <1>2, <2>1 DEF ClockLeads, SyncTypeOK, Delete
  <2>4. SentSoFar'
    BY <1>2, <2>1 DEF SentSoFar, SyncTypeOK, Delete
  <2>5. BatchIsNewer'
    BY <1>2, <2>1 DEF BatchIsNewer, SyncTypeOK, Delete
  <2>6. BatchNeedsRun'
    BY <1>2, <2>1 DEF BatchNeedsRun, SyncTypeOK, Delete
  <2>7. StampIsSafe'
    BY <1>2, <2>1 DEF StampIsSafe, SyncTypeOK, Delete
  <2> QED
    BY <2>2, <2>3, <2>4, <2>5, <2>6, <2>7
<1>3. CASE BeginSync
  <2>1. /\ sync'.on = TRUE /\ sync'.newstamp = mtime' /\ sync'.fail = FALSE
        /\ sync'.todo = Directories /\ sync'.batch = {}
    BY <1>3 DEF SyncTypeOK, BeginSync
  <2>2. SyncTypeOK'
    BY <1>3 DEF SyncTypeOK, BeginSync
  <2>3. ClockLeads'
    BY <1>3, <2>1 DEF ClockLeads, SyncTypeOK, BeginSync
  <2>4. SentSoFar'
    <3>1. \A f \in Transcripts : DirectoryOf[f] \in Directories
      BY DEF SyncAssumption
    <3>2. \A f \in Transcripts : DirectoryOf[f] \in sync'.todo
      BY <2>1, <3>1
    <3> QED
      BY <3>2 DEF SentSoFar
  <2>5. BatchIsNewer'
    BY <1>3, <2>1 DEF BatchIsNewer, SyncTypeOK, BatchNeedsRun, BeginSync
  <2>6. BatchNeedsRun'
    BY <1>3, <2>1 DEF BatchNeedsRun, SyncTypeOK, BeginSync
  <2>7. StampIsSafe'
    BY <1>3, <2>1 DEF StampIsSafe, SyncTypeOK, BeginSync
  <2> QED
    BY <2>2, <2>3, <2>4, <2>5, <2>6, <2>7
<1>4. CASE EndSync
  <2>1. /\ sync'.on = FALSE /\ sync'.newstamp = 0 /\ sync'.fail = FALSE
        /\ sync'.todo = {} /\ sync'.batch = {}
    BY <1>4 DEF SyncTypeOK, EndSync, StampAfter, Off
  <2>2. SyncTypeOK'
    BY <1>4 DEF SyncTypeOK, EndSync, StampAfter, Off
  <2>3. ClockLeads'
    BY <1>4, <2>1 DEF ClockLeads, SyncTypeOK, EndSync, StampAfter, Off
  <2>4. SentSoFar'
    BY <1>4, <2>1 DEF SentSoFar, SyncTypeOK, EndSync, StampAfter, Off
  <2>5. BatchIsNewer'
    BY <1>4, <2>1 DEF BatchIsNewer, SyncTypeOK, EndSync, StampAfter, Off
  <2>6. BatchNeedsRun'
    BY <1>4, <2>1 DEF BatchNeedsRun, SyncTypeOK, EndSync, StampAfter, Off
  <2>7. StampIsSafe'
    BY <1>4, <2>1 DEF StampIsSafe, SyncTypeOK, SentSoFar, EndSync, StampAfter, Off
  <2> QED
    BY <2>2, <2>3, <2>4, <2>5, <2>6, <2>7
<1>5. CASE SendBatch
  <2>1. /\ sync'.on = sync.on /\ sync'.newstamp = sync.newstamp /\ sync'.fail = sync.fail
        /\ sync'.todo = sync.todo /\ sync'.batch = {}
    BY <1>5 DEF SyncTypeOK, SendBatch
  <2>2. SyncTypeOK'
    BY <1>5 DEF SyncTypeOK, SendBatch
  <2>3. ClockLeads'
    BY <1>5, <2>1 DEF ClockLeads, SyncTypeOK, SendBatch
  <2>4. SentSoFar'
    BY <1>5, <2>1 DEF SentSoFar, SyncTypeOK, SendBatch
  <2>5. BatchIsNewer'
    BY <1>5, <2>1 DEF BatchIsNewer, SyncTypeOK, SendBatch
  <2>6. BatchNeedsRun'
    BY <1>5, <2>1 DEF BatchNeedsRun, SyncTypeOK, SendBatch
  <2>7. StampIsSafe'
    BY <1>5, <2>1 DEF StampIsSafe, SyncTypeOK, SendBatch
  <2> QED
    BY <2>2, <2>3, <2>4, <2>5, <2>6, <2>7
<1>6. CASE Unlock
  <2>1. /\ sync'.on = sync.on /\ sync'.newstamp = sync.newstamp /\ sync'.fail = sync.fail
        /\ sync'.todo = sync.todo /\ sync'.batch = sync.batch
    BY <1>6 DEF SyncTypeOK, Unlock
  <2>2. SyncTypeOK'
    BY <1>6 DEF SyncTypeOK, Unlock
  <2>3. ClockLeads'
    BY <1>6, <2>1 DEF ClockLeads, SyncTypeOK, Unlock
  <2>4. SentSoFar'
    BY <1>6, <2>1 DEF SentSoFar, SyncTypeOK, Unlock
  <2>5. BatchIsNewer'
    BY <1>6, <2>1 DEF BatchIsNewer, SyncTypeOK, Unlock
  <2>6. BatchNeedsRun'
    BY <1>6, <2>1 DEF BatchNeedsRun, SyncTypeOK, Unlock
  <2>7. StampIsSafe'
    BY <1>6, <2>1 DEF StampIsSafe, SyncTypeOK, Unlock
  <2> QED
    BY <2>2, <2>3, <2>4, <2>5, <2>6, <2>7
<1>7. ASSUME NEW d \in Directories, FindNewer(d) PROVE SyncInv'
  <2>1. /\ sync'.on = TRUE /\ sync'.newstamp = sync.newstamp /\ sync'.fail = sync.fail
        /\ sync'.todo = sync.todo \ {d}
        /\ sync'.batch = {f \in Transcripts : DirectoryOf[f] = d /\ files[f] > stamp}
    BY <1>7 DEF SyncTypeOK, FindNewer
  <2>2. SyncTypeOK'
    BY <1>7 DEF SyncTypeOK, FindNewer
  <2>3. ClockLeads'
    BY <1>7, <2>1 DEF ClockLeads, SyncTypeOK, FindNewer
  <2>4. SentSoFar'
    BY <1>7, <2>1 DEF SentSoFar, SyncTypeOK, StampIsSafe, FindNewer
  <2>5. BatchIsNewer'
    BY <1>7, <2>1 DEF BatchIsNewer, SyncTypeOK, FindNewer
  <2>6. BatchNeedsRun'
    BY <1>7, <2>1 DEF BatchNeedsRun, SyncTypeOK, FindNewer
  <2>7. StampIsSafe'
    BY <1>7, <2>1 DEF StampIsSafe, SyncTypeOK, FindNewer
  <2> QED
    BY <2>2, <2>3, <2>4, <2>5, <2>6, <2>7
<1>8. ASSUME NEW arrived \in SUBSET Transcripts, NEW cut \in SUBSET Transcripts,
             SendBroken(arrived, cut)
      PROVE SyncInv'
  <2>1. /\ sync'.on = sync.on /\ sync'.newstamp = sync.newstamp /\ sync'.fail = TRUE
        /\ sync'.todo = sync.todo /\ sync'.batch = {}
    BY <1>8 DEF SyncTypeOK, SendBroken
  <2>2. SyncTypeOK'
    BY <1>8 DEF SyncTypeOK, SendBroken
  <2>3. ClockLeads'
    BY <1>8, <2>1 DEF ClockLeads, SyncTypeOK, SendBroken
  <2>4. SentSoFar'
    BY <1>8, <2>1 DEF SentSoFar, SyncTypeOK, SendBroken
  <2>5. BatchIsNewer'
    BY <1>8, <2>1 DEF BatchIsNewer, SyncTypeOK, SendBroken
  <2>6. BatchNeedsRun'
    BY <1>8, <2>1 DEF BatchNeedsRun, SyncTypeOK, SendBroken
  <2>7. StampIsSafe'
    BY <1>8, <2>1 DEF StampIsSafe, SyncTypeOK, BatchIsNewer, SendBroken
  <2> QED
    BY <2>2, <2>3, <2>4, <2>5, <2>6, <2>7
<1>9. ASSUME NEW trapped \in BOOLEAN, SyncKilled(trapped) PROVE SyncInv'
  <2>1. /\ sync'.on = FALSE /\ sync'.newstamp = 0 /\ sync'.fail = FALSE
        /\ sync'.todo = {} /\ sync'.batch = {}
    BY <1>9 DEF SyncTypeOK, SyncKilled, Off
  <2>2. SyncTypeOK'
    BY <1>9 DEF SyncTypeOK, SyncKilled, Off
  <2>3. ClockLeads'
    BY <1>9, <2>1 DEF ClockLeads, SyncTypeOK, SyncKilled, Off
  <2>4. SentSoFar'
    BY <1>9, <2>1 DEF SentSoFar, SyncTypeOK, SyncKilled, Off
  <2>5. BatchIsNewer'
    BY <1>9, <2>1 DEF BatchIsNewer, SyncTypeOK, SyncKilled, Off
  <2>6. BatchNeedsRun'
    BY <1>9, <2>1 DEF BatchNeedsRun, SyncTypeOK, SyncKilled, Off
  <2>7. StampIsSafe'
    BY <1>9, <2>1 DEF StampIsSafe, SyncTypeOK, SyncKilled, Off
  <2> QED
    BY <2>2, <2>3, <2>4, <2>5, <2>6, <2>7
<1>10. CASE UNCHANGED syncVars
  BY <1>10 DEF syncVars, SyncTypeOK, ClockLeads, SentSoFar, BatchIsNewer, BatchNeedsRun,
               StampIsSafe
<1> QED
  BY <1>1, <1>2, <1>3, <1>4, <1>5, <1>6, <1>7, <1>8, <1>9, <1>10 DEF SyncNext

\* A transcript that no later run would look at again is on the server as it is
\* on the client (ccstats-sync.sh:60-88): however many transcripts and
\* directories there are, whatever is written while runs go on, and wherever
\* they break off.
THEOREM NothingMissesTheSync == SyncSpec => []StampIsSafe
<1>1. SyncInv => StampIsSafe
  BY DEF SyncInv
<1> QED
  BY InitSynced, StepSynced, <1>1, PTL DEF SyncSpec

-----------------------------------------------------------------------------
(***************************************************************************)
(* The limits.                                                             *)
(***************************************************************************)

\* r is a reading of account a, from before t.
IsReading(r, a, t) == r.account = a /\ r.taken \in Nat /\ r.taken <= t /\ r.machine \in Clients

LimitsTypeOK ==
  /\ now \in Nat
  /\ active \in [Clients -> Accounts \cup {None}]
  /\ DOMAIN posting = Clients
  /\ \A m \in Clients : posting[m] # None =>
       posting[m].account \in Accounts /\ IsReading(posting[m], posting[m].account, now)
  /\ DOMAIN readings = Accounts
  /\ \A a \in Accounts : readings[a] # None => IsReading(readings[a], a, now)
  /\ reported \in [Accounts -> Nat]
  /\ \A a \in Accounts : reported[a] <= now

\* The clock does not leave a POST behind by more than PostAge.
PostsAreYoung == \A m \in Clients : posting[m] # None => now - posting[m].taken <= PostAge

\* An overtaken reading is older than the latest by no more than that.
LittleOvertaken ==
  \A a \in Accounts : readings[a] # None => reported[a] - readings[a].taken <= PostAge

\* What the feed shows of an account is its reading, but after a POST that did
\* not rebuild it.
FeedShowsReadings ==
  feed # None =>
    \A a \in Accounts \ behind :
      /\ readings[a] # None /\ feed.rows[a] = None => feed.at - readings[a].taken > DropAfter
      /\ feed.rows[a] # None => readings[a] # None /\ feed.rows[a].taken = readings[a].taken

\* Its rows agree with each other and with its own time.
FeedIsConsistent ==
  feed # None =>
    \A a \in Accounts : feed.rows[a] # None =>
      /\ feed.rows[a].stale <=> feed.at - feed.rows[a].taken > StaleAfter
      /\ ~feed.rows[a].stale => ~feed.rows[feed.top].stale

LimitsInv ==
  LimitsTypeOK /\ PostsAreYoung /\ LittleOvertaken /\ FeedShowsReadings /\ FeedIsConsistent

-----------------------------------------------------------------------------
\* Of two numbers SetMax is one, and neither is larger.
LEMMA SetMaxOfTwo ==
  ASSUME NEW x \in Nat, NEW y \in Nat
  PROVE  SetMax({x, y}) \in {x, y} /\ SetMax({x, y}) >= x /\ SetMax({x, y}) >= y
<1>1. \E z \in {x, y} : \A w \in {x, y} : z >= w
  <2>1. CASE x >= y
    BY <2>1
  <2>2. CASE y >= x
    BY <2>2
  <2>. QED
    BY <2>1, <2>2
<1>. QED
  BY <1>1 DEF SetMax

\* A feed that was just rebuilt from the readings kept.
LEMMA RebuiltIsConsistent ==
  ASSUME now \in Nat, NEW kept, NEW f \in Rebuilt(kept),
         \A a \in Accounts : kept[a] # None => kept[a].taken \in Nat /\ kept[a].machine \in Clients
  PROVE  /\ f.at = now
         /\ \A a \in Accounts :
              /\ kept[a] # None /\ f.rows[a] = None => now - kept[a].taken > DropAfter
              /\ f.rows[a] # None =>
                   /\ kept[a] # None /\ f.rows[a].taken = kept[a].taken
                   /\ f.rows[a].stale <=> now - f.rows[a].taken > StaleAfter
                   /\ ~f.rows[a].stale => ~f.rows[f.top].stale
<1>. DEFINE entries == Rows(kept)
            shown == {a \in Accounts : entries[a] # None}
            timely == {a \in shown : ~entries[a].stale}
<1>1. f.at = now /\ f.rows = entries /\ f.top \in Tops(entries)
  BY DEF Rebuilt
<1>2. ASSUME NEW a \in Accounts, kept[a] # None
      PROVE  /\ Row(kept[a]) # None
             /\ Row(kept[a]).taken = kept[a].taken
             /\ Row(kept[a]).stale <=> now - kept[a].taken > StaleAfter
  <2>1. kept[a].taken \in Nat /\ kept[a].machine \in Clients
    BY <1>2
  <2>2. (now - kept[a].taken > StaleAfter) \in BOOLEAN
    OBVIOUS
  <2>3. Row(kept[a]) \in [taken : Nat, machine : Clients, stale : BOOLEAN]
    BY <2>1, <2>2 DEF Row
  <2>. QED
    BY <2>3, LimitsAssumption DEF Row
<1>3. ASSUME NEW a \in Accounts
      PROVE  /\ kept[a] = None \/ now - kept[a].taken > DropAfter => entries[a] = None
             /\ kept[a] # None /\ ~(now - kept[a].taken > DropAfter) => entries[a] = Row(kept[a])
  BY <1>3 DEF Rows
<1>. HIDE DEF entries
<1>4. ASSUME NEW a \in Accounts, entries[a] # None, ~entries[a].stale
      PROVE  ~entries[f.top].stale
  <2>1. a \in timely /\ a \in shown
    BY <1>4
  <2>2. f.top \in timely
    BY <1>1, <2>1 DEF Tops
  <2>. QED
    BY <2>2
<1>. SUFFICES ASSUME NEW a \in Accounts
              PROVE  /\ kept[a] # None /\ entries[a] = None => now - kept[a].taken > DropAfter
                     /\ entries[a] # None =>
                          /\ kept[a] # None /\ entries[a].taken = kept[a].taken
                          /\ entries[a].stale <=> now - entries[a].taken > StaleAfter
  BY <1>1, <1>4
<1>5. CASE kept[a] = None \/ now - kept[a].taken > DropAfter
  BY <1>3, <1>5
<1>6. CASE kept[a] # None /\ ~(now - kept[a].taken > DropAfter)
  BY <1>2, <1>3, <1>6
<1>. QED
  BY <1>5, <1>6

\* The invariant holds at first.
LEMMA InitHonest == now = 0 /\ LimitsInit => LimitsInv
  BY DEF LimitsInit, LimitsInv, LimitsTypeOK, PostsAreYoung, LittleOvertaken,
         FeedShowsReadings, FeedIsConsistent

\* What taking a POST in does to the readings.
LEMMA TakeInKeeps ==
  ASSUME LimitsInv, NEW m \in Clients, TakeIn(m), now' = now
  PROVE  /\ LimitsTypeOK' /\ PostsAreYoung' /\ LittleOvertaken'
         /\ \A a \in Accounts : a # posting[m].account => readings'[a] = readings[a]
<1>. USE LimitsAssumption DEF LimitsInv
<1>. DEFINE b == posting[m].account
            t == posting[m].taken
<1>1. posting[m] # None /\ b \in Accounts /\ IsReading(posting[m], b, now) /\ t \in Nat
      /\ t <= now /\ now - t <= PostAge
  BY DEF TakeIn, LimitsTypeOK, PostsAreYoung, IsReading
<1>2. readings' = [readings EXCEPT ![b] = posting[m]] /\ active' = active
      /\ reported' = [reported EXCEPT ![b] = SetMax({reported[b], t})]
      /\ posting' = [posting EXCEPT ![m] = None]
  BY DEF TakeIn
<1>3. reported[b] \in Nat /\ reported[b] <= now
  BY <1>1 DEF LimitsTypeOK
<1>4. SetMax({reported[b], t}) \in Nat /\ SetMax({reported[b], t}) <= now
  BY <1>1, <1>3, SetMaxOfTwo
<1>5. \A a \in Accounts : /\ a # b => readings'[a] = readings[a] /\ reported'[a] = reported[a]
                          /\ a = b => readings'[a] = posting[m]
                                      /\ reported'[a] = SetMax({reported[b], t})
  BY <1>1, <1>2 DEF LimitsTypeOK
<1>6. \A n \in Clients : posting'[n] # None => posting'[n] = posting[n]
  BY <1>2 DEF LimitsTypeOK
<1>. HIDE DEF b, t
<1>7. PostsAreYoung'
  BY <1>6 DEF PostsAreYoung
<1>8. LittleOvertaken'
  <2>. SUFFICES ASSUME NEW a \in Accounts, readings'[a] # None
                PROVE  reported'[a] - readings'[a].taken <= PostAge
    BY DEF LittleOvertaken
  <2>1. CASE a = b
    <3>1. reported'[a] = SetMax({reported[b], t}) /\ readings'[a].taken = t
      BY <1>5, <2>1 DEF b, t
    <3>. QED
      BY <1>1, <1>4, <3>1 DEF LimitsTypeOK
  <2>2. CASE a # b
    BY <1>5, <2>2 DEF LittleOvertaken
  <2>. QED
    BY <2>1, <2>2
<1>9. LimitsTypeOK'
  <2>1. reported' \in [Accounts -> Nat] /\ \A a \in Accounts : reported'[a] <= now
    BY <1>2, <1>4, <1>5 DEF LimitsTypeOK
  <2>2. \A a \in Accounts : readings'[a] # None => IsReading(readings'[a], a, now')
    <3>. SUFFICES ASSUME NEW a \in Accounts, readings'[a] # None
                  PROVE  IsReading(readings'[a], a, now')
      OBVIOUS
    <3>1. CASE a = b
      BY <1>1, <1>5, <3>1 DEF IsReading
    <3>2. CASE a # b
      BY <1>5, <3>2 DEF IsReading, LimitsTypeOK
    <3>. QED
      BY <3>1, <3>2
  <2>3. DOMAIN readings' = Accounts /\ DOMAIN posting' = Clients
        /\ active' \in [Clients -> Accounts \cup {None}]
    BY <1>2 DEF LimitsTypeOK
  <2>4. \A n \in Clients : posting'[n] # None =>
          posting'[n].account \in Accounts /\ IsReading(posting'[n], posting'[n].account, now')
    BY <1>6 DEF LimitsTypeOK, IsReading
  <2>. QED
    BY <2>1, <2>2, <2>3, <2>4 DEF LimitsTypeOK
<1>. QED
  BY <1>5, <1>7, <1>8, <1>9 DEF b

\* Every step of the machines and of the receiver keeps it.
LEMMA StepHonest == LimitsInv /\ [LimitsNext]_<<now, limitVars>> => LimitsInv'
<1>. SUFFICES ASSUME LimitsInv, [LimitsNext]_<<now, limitVars>> PROVE LimitsInv'
  OBVIOUS
<1>. USE LimitsAssumption DEF LimitsInv
<1>1. ASSUME UNCHANGED <<now, readings, feed, reported, behind, posting>>, LimitsTypeOK'
      PROVE  LimitsInv'
  BY <1>1 DEF LimitsTypeOK, IsReading, PostsAreYoung, LittleOvertaken, FeedShowsReadings,
              FeedIsConsistent
<1>2. ASSUME NEW m \in Clients, UNCHANGED <<now, active, readings, feed, reported, behind>>,
             NEW p, posting' = [posting EXCEPT ![m] = p],
             p # None => p.account \in Accounts /\ IsReading(p, p.account, now) /\ p.taken = now
      PROVE  LimitsInv'
  <2>1. \A n \in Clients : posting'[n] = IF n = m THEN p ELSE posting[n]
    BY <1>2 DEF LimitsTypeOK
  <2>2. PostsAreYoung'
    BY <1>2, <2>1 DEF PostsAreYoung, LimitsTypeOK
  <2>3. LimitsTypeOK'
    BY <1>2, <2>1 DEF LimitsTypeOK, IsReading
  <2>. QED
    BY <1>2, <2>2, <2>3 DEF LittleOvertaken, FeedShowsReadings, FeedIsConsistent
<1>3. ASSUME NEW m \in Clients, Hop(m), UNCHANGED now PROVE LimitsInv'
  BY <1>1, <1>3 DEF Hop, LimitsTypeOK
<1>4. ASSUME NEW m \in Clients, Report(m), UNCHANGED now PROVE LimitsInv'
  <2>. DEFINE p == [account |-> active[m], taken |-> now, machine |-> m]
  <2>1. active[m] \in Accounts
    BY <1>4 DEF Report, LimitsTypeOK
  <2>2. p.account \in Accounts /\ IsReading(p, p.account, now) /\ p.taken = now
    BY <2>1 DEF IsReading, LimitsTypeOK
  <2>3. UNCHANGED <<now, active, readings, feed, reported, behind>>
        /\ posting' = [posting EXCEPT ![m] = p]
    BY <1>4 DEF Report
  <2>. HIDE DEF p
  <2>. QED
    BY <1>2, <2>2, <2>3
<1>5. ASSUME NEW m \in Clients, PostLost(m), UNCHANGED now PROVE LimitsInv'
  <2>1. UNCHANGED <<now, active, readings, feed, reported, behind>>
        /\ posting' = [posting EXCEPT ![m] = None]
    BY <1>5 DEF PostLost
  <2>. QED
    BY <1>2, <2>1
<1>6. ASSUME NEW m \in Clients, Receive(m), UNCHANGED now PROVE LimitsInv'
  <2>1. LimitsTypeOK' /\ PostsAreYoung' /\ LittleOvertaken'
    BY <1>6, TakeInKeeps DEF Receive
  <2>2. \A a \in Accounts : readings'[a] # None =>
          readings'[a].taken \in Nat /\ readings'[a].machine \in Clients
    BY <2>1 DEF LimitsTypeOK, IsReading
  <2>3. feed' \in Rebuilt(readings') /\ now \in Nat /\ now' = now
    BY <1>6 DEF Receive, LimitsTypeOK
  <2>4. /\ feed'.at = now
        /\ \A a \in Accounts :
             /\ readings'[a] # None /\ feed'.rows[a] = None => now - readings'[a].taken > DropAfter
             /\ feed'.rows[a] # None =>
                  /\ readings'[a] # None /\ feed'.rows[a].taken = readings'[a].taken
                  /\ feed'.rows[a].stale <=> now - feed'.rows[a].taken > StaleAfter
                  /\ ~feed'.rows[a].stale => ~feed'.rows[feed'.top].stale
    BY <2>2, <2>3, RebuiltIsConsistent
  <2>5. FeedShowsReadings' /\ FeedIsConsistent'
    BY <2>4 DEF FeedShowsReadings, FeedIsConsistent
  <2>. QED
    BY <2>1, <2>5
<1>7. ASSUME NEW m \in Clients, ReceiveKilled(m), UNCHANGED now PROVE LimitsInv'
  <2>1. LimitsTypeOK' /\ PostsAreYoung' /\ LittleOvertaken'
        /\ \A a \in Accounts : a # posting[m].account => readings'[a] = readings[a]
    BY <1>7, TakeInKeeps DEF ReceiveKilled
  <2>2. feed' = feed \/ feed' = None
    BY <1>7 DEF ReceiveKilled
  <2>3. behind' = behind \cup {posting[m].account}
    BY <1>7 DEF ReceiveKilled
  <2>4. FeedShowsReadings'
    BY <2>1, <2>2, <2>3 DEF FeedShowsReadings
  <2>5. FeedIsConsistent'
    BY <2>2 DEF FeedIsConsistent
  <2>. QED
    BY <2>1, <2>4, <2>5
<1>8. ASSUME now' = now + 1, PostsInTime, UNCHANGED limitVars PROVE LimitsInv'
  <2>1. UNCHANGED <<active, posting, readings, feed, reported, behind>>
    BY <1>8 DEF limitVars
  <2>2. PostsAreYoung'
    <3>1. \A m \in Clients : posting[m] # None =>
            posting[m].taken \in Nat /\ now - posting[m].taken < PostAge
      BY <1>8 DEF PostsInTime, LimitsTypeOK, IsReading
    <3>. QED
      BY <1>8, <2>1, <3>1 DEF PostsAreYoung, LimitsTypeOK
  <2>3. LimitsTypeOK'
    BY <1>8, <2>1 DEF LimitsTypeOK, IsReading
  <2>. QED
    BY <2>1, <2>2, <2>3 DEF LittleOvertaken, FeedShowsReadings, FeedIsConsistent
<1>9. CASE UNCHANGED <<now, limitVars>>
  BY <1>1, <1>9 DEF limitVars, LimitsTypeOK
<1>. QED
  BY <1>3, <1>4, <1>5, <1>6, <1>7, <1>8, <1>9 DEF LimitsNext

\* So the feed that is served is honest.
LEMMA FeedIsRight == LimitsInv => FeedIsHonest
<1>. SUFFICES ASSUME LimitsInv, feed # None, NEW a \in Accounts
              PROVE  LET row == feed.rows[a]
                     IN /\ a \notin behind /\ readings[a] # None /\ row = None =>
                             feed.at - readings[a].taken > DropAfter
                        /\ row # None =>
                             /\ a \notin behind => reported[a] - row.taken <= PostAge
                             /\ row.stale <=> feed.at - row.taken > StaleAfter
                             /\ ~row.stale => ~feed.rows[feed.top].stale
  BY DEF FeedIsHonest
<1>. QED
  BY DEF LimitsInv, LittleOvertaken, FeedShowsReadings, FeedIsConsistent

\* What the feed says of every account is its last reading, or one overtaken by
\* as much as a POST can be late (ingest-receiver.py:98-185): for any machines
\* that hop between any accounts, POSTs lost, late or cut off, and whatever
\* the two ages are.
THEOREM FeedStaysHonest == LimitsSpec => []FeedIsHonest
  BY InitHonest, StepHonest, FeedIsRight, PTL DEF LimitsSpec

-----------------------------------------------------------------------------
(***************************************************************************)
(* A step of the whole is a step of each part, or leaves it alone.         *)
(***************************************************************************)

\* The live monitor.
LEMMA ShareOfSessions ==
  ASSUME [MonitorsNext]_monitorVars
  PROVE  [SessionsNext]_sessionVars
<1>1. CASE Converses \/ CompletesLine \/ Streams \/ Quits \/ Measures \/ Stats \/ Parses
  BY <1>1 DEF Converses, CompletesLine, Streams, Quits, Measures, Stats, Parses, SessionsNext
<1>2. CASE ~(Converses \/ CompletesLine \/ Streams \/ Quits \/ Measures \/ Stats \/ Parses)
  <2>1. \/ OnlyUsage \/ OnlyBottleneck \/ OnlyCelebration \/ OnlyPeers \/ OnlySync \/ OnlyLimits
        \/ OnlyMigration \/ UNCHANGED monitorVars
    BY <1>2
    DEF MonitorsNext, Tick, Works, HidesFile, PollsMain, PollsMainForgetting, PollsRemote, DiesPolling,
        Talks, Leaves, Samples, SamplesDuringTurn, Dies, Boots,
        Competes, Queues, DiesQueueing, Collects, PeersPublish, PollsPeers,
        Grows, SyncBegins, Syncs, SyncBreaks, Unlocks, Hops, Reports, Receives, PostBreaks,
        Deploys, Migrates, MigrationBreaks
  <2>. QED
    BY <2>1 DEF OnlyUsage, OnlyBottleneck, OnlyCelebration, OnlyPeers, OnlySync, OnlyLimits,
         OnlyMigration, Elsewhere, monitorVars
<1>. QED
  BY <1>1, <1>2

\* The upload of transcripts.
LEMMA ShareOfSync ==
  ASSUME [MonitorsNext]_monitorVars
  PROVE  [SyncNext]_syncVars
<1>1. CASE Grows \/ SyncBegins \/ Syncs \/ SyncBreaks \/ Unlocks
  BY <1>1 DEF Grows, SyncBegins, Syncs, SyncBreaks, Unlocks, SyncNext
<1>2. CASE ~(Grows \/ SyncBegins \/ Syncs \/ SyncBreaks \/ Unlocks)
  <2>1. \/ OnlyUsage \/ OnlyBottleneck \/ OnlyCelebration \/ OnlyPeers \/ OnlySessions \/ OnlyLimits
        \/ OnlyMigration \/ UNCHANGED monitorVars
    BY <1>2
    DEF MonitorsNext, Tick, Works, HidesFile, PollsMain, PollsMainForgetting, PollsRemote, DiesPolling,
        Talks, Leaves, Samples, SamplesDuringTurn, Dies, Boots,
        Competes, Queues, DiesQueueing, Collects, PeersPublish, PollsPeers,
        Converses, CompletesLine, Streams, Quits, Measures, Stats, Parses,
        Hops, Reports, Receives, PostBreaks, Deploys, Migrates, MigrationBreaks
  <2>. QED
    BY <2>1 DEF OnlyUsage, OnlyBottleneck, OnlyCelebration, OnlyPeers, OnlySessions, OnlyLimits,
         OnlyMigration, Elsewhere, monitorVars, nomadVars
<1>. QED
  BY <1>1, <1>2

\* The limits feed, which shares the clock.
LEMMA ShareOfLimits ==
  ASSUME [MonitorsNext]_monitorVars
  PROVE  [LimitsNext]_<<now, limitVars>>
<1>1. CASE Hops \/ Reports \/ Receives \/ PostBreaks
  BY <1>1 DEF Hops, Reports, Receives, PostBreaks, LimitsNext, Between
<1>2. CASE Tick
  BY <1>2 DEF Tick, LimitsNext, OnlyUsage, Elsewhere, nomadVars
<1>3. CASE ~(Hops \/ Reports \/ Receives \/ PostBreaks \/ Tick)
  <2>1. \/ UNCHANGED monitorVars
        \/ /\ UNCHANGED now
           /\ \/ OnlyUsage \/ OnlyBottleneck \/ OnlyCelebration \/ OnlyPeers \/ OnlySessions \/ OnlySync
              \/ OnlyMigration
    BY <1>3
    DEF MonitorsNext, Works, HidesFile, PollsMain, PollsMainForgetting, PollsRemote, DiesPolling,
        Talks, Leaves, Samples, SamplesDuringTurn, Dies, Boots,
        Competes, Queues, DiesQueueing, Collects, PeersPublish, PollsPeers,
        Converses, CompletesLine, Streams, Quits, Measures, Stats, Parses,
        Grows, SyncBegins, Syncs, SyncBreaks, Unlocks, Deploys, Migrates, MigrationBreaks,
        Between, Fires
  <2>. QED
    BY <2>1 DEF OnlyUsage, OnlyBottleneck, OnlyCelebration, OnlyPeers, OnlySessions, OnlySync,
         OnlyMigration, Elsewhere, monitorVars, nomadVars
<1>. QED
  BY <1>1, <1>2, <1>3

\* The migration.
LEMMA ShareOfMigration ==
  ASSUME [MonitorsNext]_monitorVars
  PROVE  [MigrationNext]_migrationVars
<1>1. CASE Deploys \/ Migrates \/ MigrationBreaks
  BY <1>1 DEF Deploys, Migrates, MigrationBreaks, MigrationNext
<1>2. CASE ~(Deploys \/ Migrates \/ MigrationBreaks)
  <2>1. \/ OnlyUsage \/ OnlyBottleneck \/ OnlyCelebration \/ OnlyPeers \/ OnlySessions \/ OnlySync
        \/ OnlyLimits \/ UNCHANGED monitorVars
    BY <1>2
    DEF MonitorsNext, Tick, Works, HidesFile, PollsMain, PollsMainForgetting, PollsRemote, DiesPolling,
        Talks, Leaves, Samples, SamplesDuringTurn, Dies, Boots,
        Competes, Queues, DiesQueueing, Collects, PeersPublish, PollsPeers,
        Converses, CompletesLine, Streams, Quits, Measures, Stats, Parses,
        Grows, SyncBegins, Syncs, SyncBreaks, Unlocks, Hops, Reports, Receives, PostBreaks
  <2>. QED
    BY <2>1 DEF OnlyUsage, OnlyBottleneck, OnlyCelebration, OnlyPeers, OnlySessions, OnlySync,
         OnlyLimits, Elsewhere, monitorVars
<1>. QED
  BY <1>1, <1>2

\* They all begin as they do alone.
LEMMA PartsBegin ==
  ASSUME MonitorsInit
  PROVE  SessionsInit /\ SyncInit /\ now = 0 /\ LimitsInit /\ MigrationInv
<1>1. MigrationInit(left.deploy > 0) /\ (left.deploy > 0) \in BOOLEAN
  BY DEF MonitorsInit
<1>. QED
  BY <1>1, InitMigration DEF MonitorsInit

-----------------------------------------------------------------------------
(***************************************************************************)
(* The limits that are served.                                             *)
(***************************************************************************)

\* A window as it is at time t: empty, once its reset time has come.
AtTime(b, t) ==
  IF b.resets # None /\ b.resets <= t THEN [util |-> 0, resets |-> None]
  ELSE [util |-> b.util, resets |-> b.resets]

\* What a reading says of a window was so when it was taken, and at time t,
\* after n uses, is what the account has, unless somebody used it in between.
SaysTruly(r, w, t, n, acc) ==
  LET b == r.windows[w]
  IN b # None =>
       /\ r.asOf \in Nat /\ r.asOf <= n
       /\ b.resets \in Nat \cup {None} /\ (b.resets # None => b.resets > r.taken)
       /\ r.asOf = n => AtTime(b, t) = AtTime(acc[w], t)

IsLimits(r, t, n, acc) ==
  /\ DOMAIN r = {"stale", "taken", "server", "asOf", "windows", "hits"}
  /\ r.stale \in BOOLEAN /\ r.taken \in Nat /\ r.taken <= t
  /\ \A w \in Windows : SaysTruly(r, w, t, n, acc)

AccountTypeOK ==
  /\ now \in Nat /\ uses \in Nat
  /\ account \in [Windows -> [util : Nat, resets : Nat \cup {None}]]
  /\ DOMAIN out = Boxes /\ DOMAIN zone = Remotes

UsageInv ==
  /\ AccountTypeOK
  /\ \A x \in Boxes : out[x] # None => IsLimits(out[x], now, uses, account)
  /\ \A r \in Remotes : zone[r] # None => IsLimits(zone[r], now, uses, account)

\* What is true of a window has not reset yet.
LEMMA TruthIsNow ==
  ASSUME AccountTypeOK, NEW w \in Windows
  PROVE  /\ Truth(w) = AtTime(account[w], now)
         /\ Truth(w).resets \in Nat \cup {None}
         /\ Truth(w).resets # None => Truth(w).resets > now
         /\ Truth(w) = [util |-> Truth(w).util, resets |-> Truth(w).resets]
<1>1. account[w] \in [util : Nat, resets : Nat \cup {None}] /\ now \in Nat
  BY DEF AccountTypeOK
<1>2. account[w] = [util |-> account[w].util, resets |-> account[w].resets]
  BY <1>1
<1>3. CASE account[w].resets # None /\ account[w].resets <= now
  BY <1>3 DEF Truth, AtTime
<1>4. CASE ~(account[w].resets # None /\ account[w].resets <= now)
  BY <1>1, <1>2, <1>4 DEF Truth, AtTime
<1>. QED
  BY <1>3, <1>4

\* A poll that the API answers.
LEMMA BuiltIsTrue ==
  ASSUME AccountTypeOK, NEW box, NEW jitter
  PROVE  LET p == BuildPayload(box, jitter)
         IN IsLimits(p, now, uses, account) /\ ~p.stale /\ p.taken = now
<1>. DEFINE p == BuildPayload(box, jitter)
<1>1. /\ DOMAIN p = {"stale", "taken", "server", "asOf", "windows", "hits"}
      /\ p.stale = FALSE /\ p.taken = now /\ p.asOf = uses
      /\ \A w \in Windows : p.windows[w].util = Truth(w).util /\ p.windows[w].resets = Truth(w).resets
  BY DEF BuildPayload
<1>2. ASSUME NEW w \in Windows
      PROVE  /\ Truth(w).resets \in Nat \cup {None}
             /\ Truth(w).resets # None => Truth(w).resets > now
             /\ Truth(w) = [util |-> Truth(w).util, resets |-> Truth(w).resets]
             /\ Truth(w) = AtTime(account[w], now)
  BY <1>2, TruthIsNow
<1>. HIDE DEF p
<1>3. ASSUME NEW w \in Windows PROVE SaysTruly(p, w, now, uses, account)
  <2>1. now \in Nat /\ uses \in Nat
    BY DEF AccountTypeOK
  <2>2. AtTime(p.windows[w], now) = AtTime(account[w], now)
    <3>. DEFINE b == p.windows[w]
                t == Truth(w)
    <3>1. b.util = t.util /\ b.resets = t.resets
      BY <1>1
    <3>2. /\ t.resets \in Nat \cup {None} /\ (t.resets # None => t.resets > now)
          /\ t = [util |-> t.util, resets |-> t.resets]
      BY <1>2
    <3>. HIDE DEF b, t
    <3>3. AtTime(b, now) = [util |-> b.util, resets |-> b.resets]
      BY <2>1, <3>1, <3>2 DEF AtTime
    <3>4. AtTime(b, now) = t
      BY <3>1, <3>2, <3>3
    <3>. QED
      BY <1>2, <3>4 DEF b, t
  <2>. QED
    BY <1>1, <1>2, <2>1, <2>2 DEF SaysTruly
<1>4. p.stale \in BOOLEAN /\ p.taken \in Nat /\ p.taken <= now
  <2>1. now \in Nat
    BY DEF AccountTypeOK
  <2>2. p.taken = now /\ p.stale \in BOOLEAN
    BY <1>1
  <2>. QED
    BY <2>1, <2>2
<1>5. IsLimits(p, now, uses, account)
  BY <1>1, <1>3, <1>4 DEF IsLimits
<1>. QED
  BY <1>1, <1>5 DEF p

\* One that it does not: what is held has not reset.
LEMMA HeldIsTrue ==
  ASSUME AccountTypeOK, NEW box, NEW prev, prev # None => IsLimits(prev, now, uses, account)
  PROVE  LET p == StalePayload(prev, box)
         IN IsLimits(p, now, uses, account) /\ p.stale /\ p.taken = now
<1>. DEFINE p == StalePayload(prev, box)
<1>1. /\ DOMAIN p = {"stale", "taken", "server", "asOf", "windows", "hits"}
      /\ p.stale = TRUE /\ p.taken = now
      /\ p.asOf = IF prev = None THEN None ELSE prev.asOf
      /\ \A w \in Windows : p.windows[w] = IF prev = None THEN None ELSE Held(prev.windows[w])
  BY DEF StalePayload
<1>. HIDE DEF p
<1>2. ASSUME NEW w \in Windows PROVE SaysTruly(p, w, now, uses, account)
  <2>. SUFFICES ASSUME p.windows[w] # None PROVE SaysTruly(p, w, now, uses, account)
    BY DEF SaysTruly
  <2>1. prev # None /\ p.asOf = prev.asOf /\ p.windows[w] = Held(prev.windows[w])
    BY <1>1
  <2>. DEFINE b == prev.windows[w]
  <2>2. b # None
    BY <2>1 DEF Held
  <2>3. /\ p.asOf \in Nat /\ p.asOf <= uses /\ b.resets \in Nat \cup {None}
        /\ p.asOf = uses => AtTime(b, now) = AtTime(account[w], now)
    BY <2>1, <2>2 DEF IsLimits, SaysTruly
  <2>4. now \in Nat
    BY DEF AccountTypeOK
  <2>5. CASE b.resets # None /\ b.resets <= now
    <3>1. p.windows[w] = Zeroed
      BY <2>1, <2>2, <2>5 DEF Held
    <3>2. p.windows[w].resets = None /\ p.windows[w].util = 0
      BY <3>1 DEF Zeroed
    <3>3. AtTime(p.windows[w], now) = AtTime(b, now)
      BY <2>5, <3>2 DEF AtTime
    <3>. QED
      BY <2>3, <3>2, <3>3 DEF SaysTruly
  <2>6. CASE ~(b.resets # None /\ b.resets <= now)
    <3>1. p.windows[w] = b
      BY <2>1, <2>6 DEF Held
    <3>2. b.resets # None => b.resets > now
      BY <2>3, <2>4, <2>6
    <3>. QED
      BY <1>1, <2>3, <3>1, <3>2 DEF SaysTruly
  <2>. QED
    BY <2>5, <2>6
<1>3. p.stale \in BOOLEAN /\ p.taken \in Nat /\ p.taken <= now
  <2>1. now \in Nat
    BY DEF AccountTypeOK
  <2>2. p.taken = now /\ p.stale \in BOOLEAN
    BY <1>1
  <2>. QED
    BY <2>1, <2>2
<1>4. IsLimits(p, now, uses, account)
  BY <1>1, <1>2, <1>3 DEF IsLimits
<1>. QED
  BY <1>1, <1>4 DEF p

\* Of readings some are the freshest.
LEMMA SomeAreFreshest ==
  ASSUME now \in Nat, NEW S, S # {}, \A p \in S : p.taken \in Nat /\ p.taken <= now
  PROVE  \E p \in S : \A q \in S : p.taken >= q.taken
<1>. DEFINE ages == {now - p.taken : p \in S}
<1>1. ages \subseteq Nat /\ ages # {}
  OBVIOUS
<1>2. PICK a \in ages : \A b \in ages : ~(<<b, a>> \in OpToRel(<, Nat))
  <2>. HIDE DEF ages
  <2>. QED
    BY <1>1, WFMin, NatLessThanWellFounded
<1>3. PICK p \in S : a = now - p.taken
  BY <1>2
<1>4. ASSUME NEW q \in S PROVE p.taken >= q.taken
  <2>1. now - q.taken \in ages /\ now - q.taken \in Nat /\ a \in Nat
    BY <1>1, <1>2
  <2>2. ~(now - q.taken < a)
    BY <1>2, <2>1, Zenon DEF OpToRel
  <2>3. p.taken \in Nat /\ q.taken \in Nat
    OBVIOUS
  <2>. QED
    BY <1>3, <2>2, <2>3
<1>. QED
  BY <1>4

\* A merge replaces the main server's own live reading only by one that is live
\* and young enough (merge_remote_limits, usage-monitor.py).
LEMMA MergedIsFresh ==
  ASSUME UsageInv, NEW local, IsLimits(local, now, uses, account), local.taken = now
  PROVE  LET p == MergeRemote(local)
         IN /\ IsLimits(p, now, uses, account) /\ (p.stale => p = local)
            /\ ~p.stale => now - p.taken <= MergeMaxAge
            /\ p = local \/ \E r \in Remotes : zone[r] # None /\ p = zone[r]
<1>. DEFINE p == MergeRemote(local)
            timely(q) == q # None /\ ~q.stale /\ now - q.taken <= MergeMaxAge
            candidates == {zone[r] : r \in {q \in Remotes : timely(zone[q])}}
                            \cup (IF local.stale THEN {} ELSE {local})
            freshest == {q \in candidates : \A o \in candidates : q.taken >= o.taken}
<1>1. now \in Nat /\ MergeMaxAge \in Nat
  BY UsageAssumption DEF UsageInv, AccountTypeOK
<1>2. \A q \in candidates : IsLimits(q, now, uses, account) /\ ~q.stale /\ now - q.taken <= MergeMaxAge
  BY <1>1 DEF UsageInv
<1>3. p = CASE candidates = {} -> local
            [] ~local.stale /\ local \in freshest -> local
            [] OTHER -> CHOOSE q \in freshest : TRUE
  BY DEF MergeRemote
<1>4. local.stale \/ local \in candidates
  OBVIOUS
<1>. HIDE DEF p, candidates
<1>5. candidates # {} => freshest # {}
  <2>. SUFFICES ASSUME candidates # {} PROVE freshest # {}
    OBVIOUS
  <2>1. \A q \in candidates : q.taken \in Nat /\ q.taken <= now
    BY <1>2 DEF IsLimits
  <2>2. \E q \in candidates : \A o \in candidates : q.taken >= o.taken
    BY <1>1, <2>1, SomeAreFreshest
  <2>. QED
    BY <2>2
<1>6. p = local \/ p \in candidates
  BY <1>3, <1>5
<1>7. p = local /\ ~local.stale => now - p.taken <= MergeMaxAge
  BY <1>1
<1>8. IsLimits(p, now, uses, account) /\ (p.stale => p = local) /\ (~p.stale => now - p.taken <= MergeMaxAge)
  BY <1>2, <1>6, <1>7
<1>9. p = local \/ \E r \in Remotes : zone[r] # None /\ p = zone[r]
  BY <1>6 DEF candidates
<1>. QED
  BY <1>8, <1>9 DEF p

\* A reading stays true as time goes by; after another use it says nothing.
LEMMA LimitsStand ==
  ASSUME NEW r, NEW t \in Nat, NEW u \in {t, t + 1}, NEW n, NEW acc,
         \A w \in Windows : acc[w].resets \in Nat \cup {None},
         IsLimits(r, t, n, acc)
  PROVE  IsLimits(r, u, n, acc)
<1>1. ASSUME NEW w \in Windows PROVE SaysTruly(r, w, u, n, acc)
  <2>. DEFINE b == r.windows[w]
              a == acc[w]
  <2>. SUFFICES ASSUME b # None PROVE SaysTruly(r, w, u, n, acc)
    BY DEF SaysTruly
  <2>1. /\ r.asOf \in Nat /\ r.asOf <= n /\ b.resets \in Nat \cup {None}
        /\ (b.resets # None => b.resets > r.taken)
        /\ r.asOf = n => AtTime(b, t) = AtTime(a, t)
    BY DEF IsLimits, SaysTruly
  <2>2. a.resets \in Nat \cup {None}
    OBVIOUS
  <2>. HIDE DEF a, b
  <2>3. ASSUME AtTime(b, t) = AtTime(a, t) PROVE AtTime(b, u) = AtTime(a, u)
    <3>1. CASE b.resets # None /\ b.resets <= t
      <4>1. AtTime(b, u) = [util |-> 0, resets |-> None] /\ AtTime(b, t) = [util |-> 0, resets |-> None]
        BY <2>1, <3>1 DEF AtTime
      <4>2. CASE a.resets # None /\ a.resets <= t
        <5>1. a.resets <= u
          BY <2>2, <4>2
        <5>. QED
          BY <4>1, <4>2, <5>1 DEF AtTime
      <4>3. CASE ~(a.resets # None /\ a.resets <= t)
        <5>1. [util |-> a.util, resets |-> a.resets] = [util |-> 0, resets |-> None]
          BY <2>3, <4>1, <4>3 DEF AtTime
        <5>. QED
          BY <4>1, <5>1 DEF AtTime
      <4>. QED
        BY <4>2, <4>3
    <3>2. CASE ~(b.resets # None /\ b.resets <= t)
      <4>1. AtTime(b, t) = [util |-> b.util, resets |-> b.resets]
        BY <3>2 DEF AtTime
      <4>2. CASE a.resets # None /\ a.resets <= t
        <5>1. [util |-> b.util, resets |-> b.resets] = [util |-> 0, resets |-> None]
          BY <2>3, <4>1, <4>2 DEF AtTime
        <5>2. a.resets <= u
          BY <2>2, <4>2
        <5>. QED
          BY <4>2, <5>1, <5>2 DEF AtTime
      <4>3. CASE ~(a.resets # None /\ a.resets <= t)
        <5>1. [util |-> b.util, resets |-> b.resets] = [util |-> a.util, resets |-> a.resets]
          BY <2>3, <4>1, <4>3 DEF AtTime
        <5>2. b.util = a.util /\ b.resets = a.resets
          BY <5>1
        <5>. QED
          BY <5>2 DEF AtTime
      <4>. QED
        BY <4>2, <4>3
    <3>. QED
      BY <3>1, <3>2
  <2>. QED
    BY <2>1, <2>3 DEF SaysTruly, a, b
<1>2. r.taken \in Nat /\ r.taken <= t
  BY DEF IsLimits
<1>3. r.taken <= u
  BY <1>2
<1>. QED
  BY <1>1, <1>3 DEF IsLimits

\* What was true of the past stays so.
LEMMA LimitsArePast ==
  ASSUME NEW r, NEW t, NEW n \in Nat, NEW acc, NEW new, IsLimits(r, t, n, acc)
  PROVE  IsLimits(r, t, n + 1, new)
<1>1. ASSUME NEW w \in Windows PROVE SaysTruly(r, w, t, n + 1, new)
  <2>. SUFFICES ASSUME r.windows[w] # None PROVE SaysTruly(r, w, t, n + 1, new)
    BY DEF SaysTruly
  <2>1. r.asOf \in Nat /\ r.asOf <= n
    BY DEF IsLimits, SaysTruly
  <2>2. r.asOf <= n + 1 /\ r.asOf # n + 1
    BY <2>1
  <2>. QED
    BY <2>2 DEF IsLimits, SaysTruly
<1>. QED
  BY <1>1 DEF IsLimits

\* The hits that are written beside a reading do not change it.
LEMMA HitsBeside ==
  ASSUME NEW r, NEW t, NEW n, NEW acc, NEW h, IsLimits(r, t, n, acc)
  PROVE  LET p == [r EXCEPT !.hits = h]
         IN /\ IsLimits(p, t, n, acc)
            /\ p.stale = r.stale /\ p.taken = r.taken /\ p.asOf = r.asOf /\ p.windows = r.windows
<1>. DEFINE p == [r EXCEPT !.hits = h]
<1>1. DOMAIN r = {"stale", "taken", "server", "asOf", "windows", "hits"}
  BY DEF IsLimits
<1>2. /\ DOMAIN p = {"stale", "taken", "server", "asOf", "windows", "hits"}
      /\ p.stale = r.stale /\ p.taken = r.taken /\ p.asOf = r.asOf /\ p.windows = r.windows
  BY <1>1
<1>. HIDE DEF p
<1>3. IsLimits(p, t, n, acc)
  BY <1>2 DEF IsLimits, SaysTruly
<1>. QED
  BY <1>2, <1>3 DEF p

\* The invariant holds at first.
LEMMA InitUsage == ASSUME now = 0, UsageInit PROVE UsageInv
<1>1. AccountTypeOK
  BY DEF UsageInit, AccountTypeOK
<1>. QED
  BY <1>1 DEF UsageInit, UsageInv

\* What a run of the poller serves.
LEMMA LocalIsTrue ==
  ASSUME UsageInv, NEW box \in Boxes, NEW verdict, NEW jitter
  PROVE  IsLimits(Local(box, verdict, jitter), now, uses, account)
         /\ Local(box, verdict, jitter).taken = now
<1>1. AccountTypeOK /\ (out[box] # None => IsLimits(out[box], now, uses, account))
  BY DEF UsageInv
<1>. QED
  BY <1>1, BuiltIsTrue, HeldIsTrue DEF Local

\* A run of the main server serves what is honest.
LEMMA MainServes ==
  ASSUME UsageInv, NEW verdict, NEW jitter, NEW stored, PollMain(verdict, jitter, stored), now' = now
  PROVE  /\ UsageInv'
         /\ LET p == out'[Main]
            IN /\ IsLimits(p, now, uses, account)
               /\ ~p.stale => now - p.taken <= MergeMaxAge
               /\ p.stale => p.taken = now
<1>. DEFINE local == Local(Main, verdict, jitter)
            p == MergeRemote(local)
<1>1. IsLimits(local, now, uses, account) /\ local.taken = now
  BY LocalIsTrue DEF Boxes
<1>2. /\ IsLimits(p, now, uses, account) /\ (p.stale => p = local)
      /\ ~p.stale => now - p.taken <= MergeMaxAge
  <2>. HIDE DEF local
  <2>. QED
    BY <1>1, MergedIsFresh
<1>. HIDE DEF local
<1>3. PICK h : out' = [out EXCEPT ![Main] = [p EXCEPT !.hits = h]]
  <2>1. PollMain(verdict, jitter, stored) =>
          \/ out' = [out EXCEPT ![Main] = CarriedOver(p, out[Main])]
          \/ out' = [out EXCEPT ![Main] = Counted(p, stored)]
    BY DEF PollMain, local
  <2>. HIDE DEF p
  <2>2. CASE out' = [out EXCEPT ![Main] = CarriedOver(p, out[Main])]
    BY <2>2 DEF CarriedOver
  <2>3. CASE out' = [out EXCEPT ![Main] = Counted(p, stored)]
    BY <2>3 DEF Counted
  <2>. QED
    BY <2>1, <2>2, <2>3
<1>. HIDE DEF p
<1>4. PICK q : q = [p EXCEPT !.hits = h]
  OBVIOUS
<1>5. /\ IsLimits(q, now, uses, account)
      /\ q.stale = p.stale /\ q.taken = p.taken
  BY <1>2, <1>4, HitsBeside
<1>6. UNCHANGED <<now, account, uses, zone>>
  BY DEF PollMain
<1>7. out' = [out EXCEPT ![Main] = q] /\ DOMAIN out = Boxes
  BY <1>3, <1>4 DEF UsageInv, AccountTypeOK
<1>8. out'[Main] = q /\ \A x \in Boxes \ {Main} : out'[x] = out[x]
  BY <1>7 DEF Boxes
<1>9. AccountTypeOK'
  BY <1>6, <1>7 DEF UsageInv, AccountTypeOK
<1>10. UsageInv'
  BY <1>5, <1>6, <1>8, <1>9 DEF UsageInv
<1>11. p.stale => p.taken = now
  BY <1>1, <1>2
<1>. QED
  BY <1>2, <1>5, <1>8, <1>10, <1>11

\* A remote's run ships what is honest, or its upload is lost or cut off.
LEMMA RemoteShips ==
  ASSUME UsageInv, NEW r \in Remotes, NEW verdict, NEW upload \in {"ok", "lost", "cut"},
         PollRemote(r, verdict, 0, upload), now' = now
  PROVE  UsageInv'
<1>1. UNCHANGED <<now, account, uses>>
  BY DEF PollRemote
<1>2. PICK p : p = Local(r, verdict, 0)
  OBVIOUS
<1>3. IsLimits(p, now, uses, account)
  BY <1>2, LocalIsTrue DEF Boxes
<1>4. out' = [out EXCEPT ![r] = p] /\ DOMAIN out = Boxes /\ DOMAIN zone = Remotes
  BY <1>2 DEF PollRemote, UsageInv, AccountTypeOK
<1>5. out'[r] = p /\ \A x \in Boxes \ {r} : out'[x] = out[x]
  BY <1>4 DEF Boxes
<1>6. zone' \in {zone, [zone EXCEPT ![r] = p], [zone EXCEPT ![r] = None]}
  BY <1>5 DEF PollRemote
<1>7. \A x \in Remotes : zone'[x] \in {zone[x], p, None}
  BY <1>4, <1>6
<1>8. AccountTypeOK'
  BY <1>1, <1>4, <1>6 DEF UsageInv, AccountTypeOK
<1>. QED
  BY <1>1, <1>3, <1>5, <1>7, <1>8 DEF UsageInv

\* The account is used.
LEMMA UsePasses ==
  ASSUME UsageInv, NEW s, Use(s), now' = now
  PROVE  UsageInv'
<1>1. uses' = uses + 1 /\ uses \in Nat /\ UNCHANGED <<out, zone>> /\ now \in Nat
  BY DEF Use, UsageInv, AccountTypeOK
<1>2. account' \in [Windows -> [util : Nat, resets : Nat \cup {None}]]
  <2>1. ASSUME NEW w \in Windows
        PROVE  LET t == Truth(w)
               IN [util |-> IF t.util < Hot THEN t.util + 1 ELSE Hot,
                   resets |-> IF t.resets = None THEN now + Length[w] ELSE t.resets]
                    \in [util : Nat, resets : Nat \cup {None}]
    <3>1. account[w] \in [util : Nat, resets : Nat \cup {None}]
      BY DEF UsageInv, AccountTypeOK
    <3>2. Truth(w).util \in Nat /\ Truth(w).resets \in Nat \cup {None}
      BY <3>1 DEF Truth
    <3>3. now + Length[w] \in Nat
      BY <1>1, UsageAssumption
    <3>. QED
      BY <3>2, <3>3 DEF Hot
  <2>. QED
    BY <2>1 DEF Use
<1>3. AccountTypeOK'
  BY <1>1, <1>2 DEF UsageInv, AccountTypeOK
<1>. QED
  BY <1>1, <1>3, LimitsArePast DEF UsageInv

\* Nothing was written and nothing used; the clock may have moved.
LEMMA NothingUsed ==
  ASSUME UsageInv, UNCHANGED <<account, uses, out, zone>>, now' \in {now, now + 1}
  PROVE  UsageInv'
<1>1. now \in Nat /\ \A w \in Windows : account[w].resets \in Nat \cup {None}
  BY DEF UsageInv, AccountTypeOK
<1>2. AccountTypeOK'
  BY DEF UsageInv, AccountTypeOK
<1>. QED
  BY <1>1, <1>2, LimitsStand DEF UsageInv

\* The limits pollers.
LEMMA ShareOfUsage ==
  ASSUME [MonitorsNext]_monitorVars
  PROVE  \/ UNCHANGED <<account, uses, out, zone>> /\ now' \in {now, now + 1}
         \/ \E s \in Users : Use(s) /\ UNCHANGED now
         \/ /\ PollsMain \/ PollsMainForgetting
            /\ \E verdict, jitter, stored : PollMain(verdict, jitter, stored) /\ UNCHANGED now
         \/ \E r \in Remotes, upload \in {"ok", "lost", "cut"} :
              \E verdict : PollRemote(r, verdict, 0, upload) /\ UNCHANGED now
<1>1. CASE Works
  BY <1>1 DEF Works, Between
<1>2. CASE PollsMain
  BY <1>2 DEF PollsMain, Fires
<1>3. CASE PollsMainForgetting
  BY <1>3 DEF PollsMainForgetting, Fires
<1>4. CASE PollsRemote
  <2>1. PICK r \in Remotes, upload \in {"ok", "lost", "cut"} :
          \E v \in Verdicts(r) : Fires(r) /\ PollRemote(r, v, 0, upload)
    BY <1>4 DEF PollsRemote
  <2>. QED
    BY <2>1 DEF Fires
<1>5. CASE HidesFile \/ DiesPolling \/ Tick
  BY <1>5 DEF HidesFile, Hide, DiesPolling, PollKilled, Tick, UsageRests, Fires, Between
<1>6. CASE ~(Works \/ PollsMain \/ PollsMainForgetting \/ PollsRemote \/ HidesFile \/ DiesPolling \/ Tick)
  <2>1. \/ UNCHANGED monitorVars
        \/ UNCHANGED now /\ (OnlyBottleneck \/ OnlyCelebration \/ TheFirstThree)
    BY <1>6
    DEF MonitorsNext, Talks, Leaves, Samples, SamplesDuringTurn, Dies, Boots,
        Competes, Queues, DiesQueueing, Collects, PeersPublish, PollsPeers,
        Converses, CompletesLine, Streams, Quits, Measures, Stats, Parses,
        Grows, SyncBegins, Syncs, SyncBreaks, Unlocks, Hops, Reports, Receives, PostBreaks,
        Deploys, Migrates, MigrationBreaks, Between, Fires,
        OnlyPeers, OnlySessions, OnlySync, OnlyLimits, OnlyMigration
  <2>. QED
    BY <2>1 DEF OnlyBottleneck, OnlyCelebration, TheFirstThree, monitorVars, usageVars
<1>. QED
  BY <1>1, <1>2, <1>3, <1>4, <1>5, <1>6

\* Every step keeps the invariant.
LEMMA StepUsage == UsageInv /\ [MonitorsNext]_monitorVars => UsageInv'
  BY ShareOfUsage, NothingUsed, UsePasses, MainServes, RemoteShips

\* Only a run of the main server takes its timer off the list and writes.
LEMMA MainRan ==
  ASSUME [MonitorsNext]_monitorVars, Ran(Main), wrote'
  PROVE  \E verdict, jitter, stored : PollMain(verdict, jitter, stored) /\ UNCHANGED now
<1>1. CASE PollsMain
  BY <1>1 DEF PollsMain, Fires
<1>2. CASE PollsMainForgetting
  BY <1>2 DEF PollsMainForgetting, Fires
<1>3. CASE ~(PollsMain \/ PollsMainForgetting)
  <2>1. ~Tick
    BY DEF Tick, UsageRests
  <2>2. ~DiesPolling
    BY DEF DiesPolling, PollKilled
  <2>3. due' = due \/ \E timer \in Remotes \cup {"bottleneck", "competitor", "peers"} :
                         due' = due \ {timer}
    BY <1>3, <2>1, <2>2
    DEF MonitorsNext, Works, HidesFile, PollsRemote,
        Talks, Leaves, Samples, SamplesDuringTurn, Dies, Boots,
        Competes, Queues, DiesQueueing, Collects, PeersPublish, PollsPeers,
        Converses, CompletesLine, Streams, Quits, Measures, Stats, Parses,
        Grows, SyncBegins, Syncs, SyncBreaks, Unlocks, Hops, Reports, Receives, PostBreaks,
        Deploys, Migrates, MigrationBreaks, Between, Fires, monitorVars
  <2>. QED
    BY <2>3, UsageAssumption, MonitorsAssumption DEF Ran, Boxes
<1>. QED
  BY <1>1, <1>2, <1>3

\* The step in which the main server serves.
LEMMA ServedIsHonest ==
  ASSUME UsageInv, [MonitorsNext]_monitorVars, Ran(Main), wrote'
  PROVE  LET p == out'[Main] IN
        /\ ~p.stale => now - p.taken <= MergeMaxAge
        /\ \A w \in Windows :
             LET b == p.windows[w] IN
             /\ p.stale /\ b # None /\ b.resets # None => b.resets > now
             /\ b # None /\ p.asOf = uses /\ (p.stale \/ p.taken = now) =>
                  [util |-> b.util, resets |-> b.resets] = Truth(w)
<1>1. PICK verdict, jitter, stored : PollMain(verdict, jitter, stored) /\ UNCHANGED now
  BY MainRan
<1>2. PICK p : p = out'[Main]
  OBVIOUS
<1>3. /\ IsLimits(p, now, uses, account)
      /\ ~p.stale => now - p.taken <= MergeMaxAge
      /\ p.stale => p.taken = now
  BY <1>1, <1>2, MainServes
<1>4. now \in Nat /\ AccountTypeOK
  BY DEF UsageInv, AccountTypeOK
<1>5. ASSUME NEW w \in Windows, p.windows[w] # None, p.taken = now
      PROVE  /\ p.windows[w].resets # None => p.windows[w].resets > now
             /\ p.asOf = uses => [util |-> p.windows[w].util, resets |-> p.windows[w].resets] = Truth(w)
  <2>. DEFINE b == p.windows[w]
  <2>1. /\ b.resets \in Nat \cup {None} /\ (b.resets # None => b.resets > now)
        /\ p.asOf = uses => AtTime(b, now) = AtTime(account[w], now)
    BY <1>3, <1>5 DEF IsLimits, SaysTruly
  <2>2. AtTime(b, now) = [util |-> b.util, resets |-> b.resets]
    BY <1>4, <2>1 DEF AtTime
  <2>. QED
    BY <1>4, <2>1, <2>2, TruthIsNow
<1>6. ASSUME NEW w \in Windows
      PROVE  LET b == p.windows[w] IN
             /\ p.stale /\ b # None /\ b.resets # None => b.resets > now
             /\ b # None /\ p.asOf = uses /\ (p.stale \/ p.taken = now) =>
                  [util |-> b.util, resets |-> b.resets] = Truth(w)
  BY <1>3, <1>5
<1>. QED
  BY <1>2, <1>3, <1>6

\* Each part keeps its invariant beside the others.
LEMMA EachPartHolds ==
  MonitorsSpec => [](TrafficInv /\ TurnInv /\ SyncInv /\ LimitsInv /\ MigrationInv /\ UsageInv)
<1>. DEFINE Parts == TrafficInv /\ TurnInv /\ SyncInv /\ LimitsInv /\ MigrationInv /\ UsageInv
<1>1. MonitorsInit => Parts
  <2>1. MonitorsInit => UsageInit
    BY DEF MonitorsInit
  <2>. QED
    BY <2>1, PartsBegin, InitTraffic, InitTurn, InitSynced, InitHonest, InitUsage
<1>2. Parts /\ [MonitorsNext]_monitorVars => Parts'
  BY ShareOfSessions, ShareOfSync, ShareOfLimits, ShareOfMigration,
     StepTraffic, StepTurn, StepSynced, StepHonest, StepMigration, StepUsage
<1>. QED
  BY <1>1, <1>2, PTL DEF MonitorsSpec

\* The limits the main server serves are honest: a live reading is as young as
\* a merge allows, a held one shows no window that has reset and is the truth
\* while nothing was used since (usage-monitor.py): for any servers,
\* users, windows and verdicts of the API, uploads lost or cut off, snapshots
\* that could not be read, and runs that were killed.
THEOREM LimitsStayHonest == MonitorsSpec => LimitsAreHonest
<1>1. UsageInv /\ [MonitorsNext]_monitorVars =>
        [Ran(Main) /\ wrote' =>
           LET p == out'[Main] IN
           /\ ~p.stale => now - p.taken <= MergeMaxAge
           /\ \A w \in Windows :
                LET b == p.windows[w] IN
                /\ p.stale /\ b # None /\ b.resets # None => b.resets > now
                /\ b # None /\ p.asOf = uses /\ (p.stale \/ p.taken = now) =>
                     [util |-> b.util, resets |-> b.resets] = Truth(w)]_monitorVars
  BY ServedIsHonest
<1>. QED
  BY <1>1, EachPartHolds, PTL DEF MonitorsSpec, LimitsAreHonest

\* What is proved of each part alone holds beside the others, in whatever order
\* their timers fire: the live monitor's turns and traffic (live-monitor.py),
\* the upload of transcripts and the limits feed of a self-hosted server
\* (ccstats-sync.sh, ingest-receiver.py), and the migration that starts them.
THEOREM PartsStayRight ==
  MonitorsSpec => [](TurnIsSeen /\ TrafficIsReal /\ StampIsSafe /\ FeedIsHonest /\ KeepsCollecting)
<1>1. TrafficInv => TrafficIsReal
  BY DEF TrafficInv, TrafficIsReal
<1>2. SyncInv => StampIsSafe
  BY DEF SyncInv
<1>. QED
  BY <1>1, <1>2, FeedIsRight, EachPartHolds, TurnIsRight, CollectingIsKept, PTL

-----------------------------------------------------------------------------
(***************************************************************************)
(* The bank of the bottleneck: a sum (see MetricsProofs).                  *)
(***************************************************************************)

\* The bank is summed with the library's fold.
LEMMA BankIsSum == BankTotal = Total(bank) /\ BankTotal' = Total(bank')
<1>1. BankTotal = Total(bank)
  BY DEF BankTotal, FoldFunction, FoldFunctionOnSet, MapThenFoldSet, Total, Sums, SumStep, AnyOf
<1>2. BankTotal' = Total(bank')
  BY DEF BankTotal, FoldFunction, FoldFunctionOnSet, MapThenFoldSet, Total, Sums, SumStep, AnyOf
<1>. QED
  BY <1>1, <1>2

\* f2 is f with e added to one of its values.
OneCellMore(f, f2, i, e, S) == \A j \in S : f2[j] = f[j] + (IF j = i THEN e ELSE 0)

\* So the one is the other and e.
LEMMA SumGrows ==
  ASSUME NEW S, IsFiniteSet(S), NEW f \in [S -> Nat], NEW i, NEW e \in Nat,
         NEW f2, OneCellMore(f, f2, i, e, S),
         NEW g, NEW h, Sums(g, f, S), Sums(h, f2, S)
  PROVE  g[S] \in Nat /\ h[S] = g[S] + (IF i \in S THEN e ELSE 0)
<1>. DEFINE Right(t) == g[t] \in Nat /\ h[t] = g[t] + (IF i \in t THEN e ELSE 0)
            Bad == {n \in Nat : \E t \in SUBSET S : Cardinality(t) = n /\ ~Right(t)}
<1>1. ASSUME NEW t \in SUBSET S
      PROVE  /\ IsFiniteSet(t) /\ Cardinality(t) \in Nat
             /\ t # {} => AnyOf(t) \in t /\ Cardinality(t \ {AnyOf(t)}) = Cardinality(t) - 1
  <2>1. IsFiniteSet(t)
    BY FS_Subset
  <2>2. t # {} => AnyOf(t) \in t
    BY DEF AnyOf
  <2>. QED
    BY <2>1, <2>2, FS_CardinalityType, FS_EmptySet, FS_RemoveElement
<1>2. ASSUME NEW t \in SUBSET S
      PROVE  g[t] = SumStep(g, f, t) /\ h[t] = SumStep(h, f2, t)
  BY Zenon DEF Sums
<1>3. ASSUME NEW m \in Bad, \A k \in Bad : m <= k
      PROVE  FALSE
  <2>1. PICK t \in SUBSET S : Cardinality(t) = m /\ ~Right(t)
    BY <1>3
  <2>2. CASE t = {}
    <3>1. g[t] = 0 /\ h[t] = 0
      BY <1>2, <2>2 DEF SumStep
    <3>. QED
      BY <2>1, <2>2, <3>1
  <2>3. CASE t # {}
    <3>. DEFINE x == AnyOf(t)
                r == t \ {x}
    <3>1. x \in t /\ r \in SUBSET S /\ Cardinality(r) = m - 1 /\ Cardinality(r) \in Nat
      BY <1>1, <2>1, <2>3
    <3>2. Right(r)
      BY <1>3, <3>1
    <3>3. g[t] = f[x] + g[r] /\ h[t] = f2[x] + h[r]
      BY <1>2, <2>3 DEF SumStep
    <3>4. f[x] \in Nat /\ f2[x] = f[x] + (IF x = i THEN e ELSE 0)
      BY <3>1 DEF OneCellMore
    <3>. QED
      BY <2>1, <3>1, <3>2, <3>3, <3>4
  <2>. QED
    BY <2>2, <2>3
<1>4. Bad = {}
  <2>1. Bad \in SUBSET Nat
    OBVIOUS
  <2>. HIDE DEF Bad
  <2>. QED
    BY <1>3, <2>1, LeastNumber
<1>5. Right(S)
  <2>1. S \in SUBSET S /\ Cardinality(S) \in Nat
    BY FS_CardinalityType
  <2>. QED
    BY <1>4, <2>1
<1>. QED
  BY <1>5

\* Zeros sum up to zero.
LEMMA SumOfNothing ==
  ASSUME NEW S, IsFiniteSet(S)
  PROVE  Total([i \in S |-> 0]) = 0
<1>. DEFINE f == [i \in S |-> 0]
            g == CHOOSE s : Sums(s, f, S)
<1>1. Sums(g, f, S) /\ DOMAIN f = S
  BY SumsExist
<1>2. Total(f) = g[S]
  BY <1>1 DEF Total
<1>3. PICK k : k = g
  OBVIOUS
<1>. HIDE DEF g
<1>. DEFINE Bad == {n \in Nat : \E t \in SUBSET S : Cardinality(t) = n /\ k[t] # 0}
<1>4. ASSUME NEW t \in SUBSET S
      PROVE  /\ Cardinality(t) \in Nat
             /\ t # {} => AnyOf(t) \in t /\ Cardinality(t \ {AnyOf(t)}) = Cardinality(t) - 1
  <2>1. IsFiniteSet(t)
    BY FS_Subset
  <2>2. t # {} => AnyOf(t) \in t
    BY DEF AnyOf
  <2>. QED
    BY <2>1, <2>2, FS_CardinalityType, FS_EmptySet, FS_RemoveElement
<1>5. ASSUME NEW t \in SUBSET S PROVE k[t] = SumStep(k, f, t)
  BY <1>1, <1>3, Zenon DEF Sums
<1>6. ASSUME NEW m \in Bad, \A n \in Bad : m <= n PROVE FALSE
  <2>1. PICK t \in SUBSET S : Cardinality(t) = m /\ k[t] # 0
    BY <1>6
  <2>2. t # {} /\ AnyOf(t) \in S /\ k[t] = f[AnyOf(t)] + k[t \ {AnyOf(t)}]
    BY <1>4, <1>5, <2>1 DEF SumStep
  <2>3. t \ {AnyOf(t)} \in SUBSET S /\ Cardinality(t \ {AnyOf(t)}) = m - 1 /\ m - 1 \in Nat
    BY <1>4, <2>1, <2>2
  <2>4. k[t \ {AnyOf(t)}] = 0
    BY <1>6, <2>3
  <2>. QED
    BY <2>1, <2>2, <2>4
<1>7. Bad = {}
  <2>1. Bad \in SUBSET Nat
    OBVIOUS
  <2>. HIDE DEF Bad
  <2>. QED
    BY <1>6, <2>1, LeastNumber
<1>8. k[S] = 0
  BY <1>4, <1>7
<1>. QED
  BY <1>2, <1>3, <1>8

\* What is added to one number is added to the sum.
LEMMA SumIsRaised ==
  ASSUME NEW S, IsFiniteSet(S), NEW f \in [S -> Nat], NEW f2 \in [S -> Nat], NEW i, NEW e \in Nat,
         OneCellMore(f, f2, i, e, S)
  PROVE  Total(f) \in Nat /\ Total(f2) = Total(f) + (IF i \in S THEN e ELSE 0)
<1>. DEFINE g == CHOOSE s : Sums(s, f, S)
            h == CHOOSE s : Sums(s, f2, S)
<1>1. Sums(g, f, S) /\ Sums(h, f2, S)
  BY SumsExist
<1>2. Total(f) = g[S] /\ Total(f2) = h[S]
  BY DEF Total
<1>3. PICK k, l : k = g /\ l = h
  OBVIOUS
<1>. HIDE DEF g, h
<1>4. Sums(k, f, S) /\ Sums(l, f2, S)
  BY <1>1, <1>3
<1>5. k[S] \in Nat /\ l[S] = k[S] + (IF i \in S THEN e ELSE 0)
  BY <1>4, SumGrows
<1>. QED
  BY <1>2, <1>3, <1>5

-----------------------------------------------------------------------------
(***************************************************************************)
(* The bottleneck.                                                         *)
(***************************************************************************)

\* What one wait may bank: the cap, and the interval of its first sample.
Budget == AbandonCap + MaxElapsed

BankTypeOK ==
  /\ now \in Nat /\ due \subseteq runs
  /\ credited \in [Asked -> Nat] /\ budgets \in [Asked -> Nat]
  /\ DOMAIN wait = Sids
  /\ bank \in [0 .. Horizon \div Hour -> Nat]

\* The loop knows when it last looked, and does not look seldom.
LooksOften ==
  last # None =>
    /\ last \in Nat /\ last <= now
    /\ "bottleneck" \in runs => now - last <= MaxElapsed

\* A wait began at a sample.
WaitsBegan ==
  \A sid \in Sids : wait[sid] # None => last # None /\ wait[sid].start \in Nat /\ wait[sid].start <= last

\* What is banked of a question fits the budgets of its waits; one that goes on
\* has what is left of its cap to come.
BudgetsHold ==
  \A id \in Asked :
    /\ credited[id] <= budgets[id] * Budget
    /\ \A sid \in Sids :
         wait[sid] # None /\ id \in wait[sid].sig =>
           credited[id] + AbandonCap <= budgets[id] * Budget + (last - wait[sid].start)

BankIsTrue == BankTotal \in Nat /\ BankTotal <= (IF last = None THEN now ELSE last)

BottleneckInv == BankTypeOK /\ LooksOften /\ WaitsBegan /\ BudgetsHold /\ BankIsTrue

\* The invariant holds at first.
LEMMA InitBottleneck ==
  ASSUME MonitorsInit
  PROVE  BottleneckInv
<1>. USE BottleneckAssumption
<1>1. BottleneckInit(0 .. Horizon \div Hour) /\ now = 0 /\ due = runs
  BY DEF MonitorsInit
<1>2. /\ bank = [h \in 0 .. Horizon \div Hour |-> 0]
      /\ credited = [id \in Asked |-> 0] /\ budgets = credited
      /\ \A sid \in Sids : wait[sid] = None
      /\ DOMAIN wait = Sids /\ last = 0
  BY <1>1 DEF BottleneckInit
<1>3. BankTypeOK /\ LooksOften /\ WaitsBegan
  BY <1>1, <1>2 DEF BankTypeOK, LooksOften, WaitsBegan
<1>4. BudgetsHold
  <2>1. 0 * Budget = 0
    BY DEF Budget
  <2>. QED
    BY <1>2, <2>1 DEF BudgetsHold
<1>5. BankTotal = 0
  <2>. DEFINE S == 0 .. Horizon \div Hour
  <2>1. IsFiniteSet(S)
    <3>1. Horizon \div Hour \in Int
      BY MonitorsAssumption
    <3>. QED
      BY <3>1, FS_Interval
  <2>2. bank = [h \in S |-> 0]
    BY <1>2
  <2>. HIDE DEF S
  <2>3. Total([h \in S |-> 0]) = 0
    BY <2>1, SumOfNothing
  <2>. QED
    BY <2>2, <2>3, BankIsSum
<1>. QED
  BY <1>1, <1>2, <1>3, <1>4, <1>5 DEF BottleneckInv, BankIsTrue

\* A sample, by what it saw asked: sigs[sid] for each session, and banks, the
\* sessions that are still banked.
Saw(sigs, banks) ==
  /\ last # None /\ last' = now
  /\ wait' = [sid \in Sids |-> IF sigs[sid] # {} THEN Waiting(sid, sigs[sid]) ELSE None]
  /\ banks = {sid \in {s \in Sids : sigs[s] # {}} : now - wait'[sid].start <= AbandonCap}
  /\ bank' = IF banks = {} THEN bank ELSE [bank EXCEPT ![now \div Hour] = @ + (now - last)]
  /\ credited' = [id \in Asked |->
                    credited[id] + IF \E sid \in banks : id \in sigs[sid] THEN now - last ELSE 0]
  /\ budgets' = [id \in Asked |->
                   budgets[id] + IF \E sid \in Sids : /\ id \in sigs[sid]
                                                      /\ wait[sid] = None \/ wait[sid].sig # sigs[sid]
                                 THEN 1 ELSE 0]

\* Every sample is one.
LEMMA SampleSees ==
  ASSUME NEW unread, NEW turns, Sample(unread, turns)
  PROVE  \E sigs, banks : Saw(sigs, banks)
<1>. DEFINE seen   == live \ unread
            parsed == [sid \in Sids |-> IF sid \in seen THEN Parsed(sid, turns[sid]) ELSE cache[sid]]
            sigs   == [sid \in Sids |-> IF sid \in seen THEN Signature(parsed[sid].pending) ELSE {}]
            w      == AnyoneWaiting(sigs)
            waitedFor == UNION {sigs[sid] : sid \in w.active}
            begun(id) == \E sid \in Sids : id \in sigs[sid]
                                     /\ (wait[sid] = None \/ (wait[sid] # None /\ wait[sid].sig # sigs[sid]))
<1>1. /\ last # None /\ last' = now /\ wait' = w.wait
      /\ bank' = IF w.active = {} THEN bank ELSE [bank EXCEPT ![now \div Hour] = @ + (now - last)]
      /\ credited' = [id \in Asked |-> credited[id] + IF id \in waitedFor THEN now - last ELSE 0]
      /\ budgets' = [id \in Asked |-> budgets[id] + IF begun(id) THEN 1 ELSE 0]
  BY DEF Sample
<1>2. PICK s, a : s = sigs /\ a = w.active
  OBVIOUS
<1>. HIDE DEF sigs
<1>3. /\ w.wait = [sid \in Sids |-> IF sigs[sid] # {} THEN Waiting(sid, sigs[sid]) ELSE None]
      /\ w.active = {sid \in {z \in Sids : sigs[z] # {}} : now - w.wait[sid].start <= AbandonCap}
  BY DEF AnyoneWaiting
<1>. HIDE DEF w
<1>4. \A id : id \in waitedFor <=> \E sid \in a : id \in s[sid]
  BY <1>2
<1>5. \A id : begun(id) <=> \E sid \in Sids : id \in s[sid] /\ (wait[sid] = None \/ wait[sid].sig # s[sid])
  BY <1>2
<1>. HIDE DEF waitedFor, begun
<1>6. /\ credited' = [id \in Asked |->
                        credited[id] + IF \E sid \in a : id \in s[sid] THEN now - last ELSE 0]
      /\ budgets' = [id \in Asked |->
                       budgets[id] + IF \E sid \in Sids : /\ id \in s[sid]
                                                          /\ wait[sid] = None \/ wait[sid].sig # s[sid]
                                     THEN 1 ELSE 0]
  BY <1>1, <1>4, <1>5
<1>7. Saw(s, a)
  BY <1>1, <1>2, <1>3, <1>6 DEF Saw
<1>. QED
  BY <1>7

\* What a sample adds to the bank is the time since the last one, or nothing.
LEMMA SampleBanks ==
  ASSUME BottleneckInv, NEW sigs, NEW banks, Saw(sigs, banks), now' = now, "bottleneck" \in runs
  PROVE  /\ bank' \in [0 .. Horizon \div Hour -> Nat]
         /\ BankTotal \in Nat /\ BankTotal' \in Nat
         /\ BankTotal <= BankTotal' /\ BankTotal' <= now
<1>. USE BottleneckAssumption
<1>0. now \in Nat /\ last \in Nat /\ last <= now
  BY DEF BottleneckInv, BankTypeOK, LooksOften, Saw
<1>. DEFINE S == 0 .. Horizon \div Hour
            e == now - last
            h == now \div Hour
            raised == [bank EXCEPT ![h] = @ + e]
<1>1. BankTotal = Total(bank) /\ BankTotal' = Total(bank')
  BY BankIsSum
<1>2. bank \in [S -> Nat] /\ BankTotal \in Nat /\ BankTotal <= last /\ e \in Nat
  BY <1>0 DEF BottleneckInv, BankTypeOK, BankIsTrue, Saw
<1>3. bank' = bank \/ bank' = raised
  BY DEF Saw
<1>4. IsFiniteSet(S)
  <2>1. Horizon \div Hour \in Int
    BY MonitorsAssumption
  <2>. QED
    BY <2>1, FS_Interval
<1>. HIDE DEF S, e, h
<1>5. raised \in [S -> Nat] /\ Total(raised) = Total(bank) + (IF h \in S THEN e ELSE 0)
  <2>1. \A j \in S : bank[j] \in Nat /\ bank[j] + e \in Nat /\ bank[j] + 0 = bank[j]
    BY <1>2
  <2>2. DOMAIN raised = S /\ \A j \in S : raised[j] = IF j = h THEN bank[j] + e ELSE bank[j]
    BY <1>2
  <2>3. raised = [j \in S |-> raised[j]]
    BY <1>2
  <2>. HIDE DEF raised
  <2>4. raised \in [S -> Nat] /\ OneCellMore(bank, raised, h, e, S)
    BY <2>1, <2>2, <2>3 DEF OneCellMore
  <2>. QED
    BY <1>2, <1>4, <2>4, SumIsRaised
<1>6. bank' \in [S -> Nat] /\ (BankTotal' = BankTotal \/ BankTotal' = BankTotal + e)
  <2>1. CASE bank' = bank
    BY <1>1, <1>2, <2>1
  <2>2. CASE bank' = raised
    <3>. HIDE DEF raised
    <3>. QED
      BY <1>1, <1>2, <1>5, <2>2
  <2>. QED
    BY <1>3, <2>1, <2>2
<1>. QED
  BY <1>0, <1>2, <1>6 DEF S, e

\* A sample banks no more than it may.
LEMMA SawBanksRightly ==
  ASSUME BottleneckInv, NEW sigs, NEW banks, Saw(sigs, banks),
         now' = now, due' \subseteq runs', runs' = runs, "bottleneck" \in runs
  PROVE  BottleneckInv'
<1>. USE BottleneckAssumption
<1>1. /\ now \in Nat /\ last \in Nat /\ last <= now /\ now - last <= MaxElapsed /\ last' = now
      /\ AbandonCap \in Nat /\ MaxElapsed \in Nat /\ Budget = AbandonCap + MaxElapsed
  BY DEF BottleneckInv, BankTypeOK, LooksOften, Saw, Budget
<1>2. DOMAIN wait' = Sids
  BY DEF Saw
<1>3. ASSUME NEW sid \in Sids, wait'[sid] # None
      PROVE  /\ sigs[sid] # {}
             /\ \/ /\ wait[sid] = None \/ wait[sid].sig # sigs[sid]
                   /\ wait'[sid].sig = sigs[sid] /\ wait'[sid].start = now
                \/ wait'[sid] = wait[sid] /\ wait[sid] # None /\ wait[sid].sig = sigs[sid]
  BY <1>3 DEF Saw, Waiting
<1>4. ASSUME NEW sid \in Sids, sigs[sid] # {}, wait[sid] # None, wait[sid].sig = sigs[sid]
      PROVE  wait'[sid] = wait[sid]
  BY <1>4 DEF Saw, Waiting
<1>5. WaitsBegan'
  <2>. SUFFICES ASSUME NEW sid \in Sids, wait'[sid] # None
                PROVE  last' # None /\ wait'[sid].start \in Nat /\ wait'[sid].start <= last'
    BY DEF WaitsBegan
  <2>1. last' # None
    BY <1>1, MigrationAssumption
  <2>2. wait'[sid].start = now \/ (wait'[sid] = wait[sid] /\ wait[sid] # None)
    BY <1>3
  <2>3. wait[sid] # None => wait[sid].start \in Nat /\ wait[sid].start <= last
    BY DEF BottleneckInv, WaitsBegan
  <2>. QED
    BY <1>1, <2>1, <2>2, <2>3
<1>6. LooksOften'
  BY <1>1 DEF LooksOften
<1>7. ASSUME NEW id \in Asked
      PROVE  /\ credited'[id] \in Nat /\ budgets'[id] \in Nat
             /\ credited'[id] <= budgets'[id] * Budget
             /\ \A sid \in Sids :
                  wait'[sid] # None /\ id \in wait'[sid].sig =>
                    credited'[id] + AbandonCap <= budgets'[id] * Budget + (last' - wait'[sid].start)
  <2>. DEFINE c == credited[id]
              n == budgets[id]
              begun == \E sid \in Sids : id \in sigs[sid] /\ (wait[sid] = None \/ wait[sid].sig # sigs[sid])
              banked == \E sid \in banks : id \in sigs[sid]
  <2>1. /\ c \in Nat /\ n \in Nat /\ n * Budget \in Nat /\ (n + 1) * Budget = n * Budget + Budget
        /\ c <= n * Budget
    BY <1>1 DEF BottleneckInv, BankTypeOK, BudgetsHold
  <2>2. /\ credited'[id] = c + IF banked THEN now - last ELSE 0
        /\ budgets'[id] = n + IF begun THEN 1 ELSE 0
    BY DEF Saw
  <2>3. ASSUME NEW sid \in Sids, wait[sid] # None, id \in wait[sid].sig
        PROVE  wait[sid].start \in Nat /\ c + AbandonCap <= n * Budget + (last - wait[sid].start)
    BY <2>3 DEF BottleneckInv, BudgetsHold, WaitsBegan
  <2>4. ASSUME banked, ~begun
        PROVE  c + (now - last) <= n * Budget
    <3>1. PICK sid \in banks : id \in sigs[sid]
      BY <2>4
    <3>2. sid \in Sids /\ now - wait'[sid].start <= AbandonCap
      BY <3>1 DEF Saw
    <3>3. wait[sid] # None /\ wait[sid].sig = sigs[sid]
      BY <2>4, <3>1, <3>2
    <3>4. wait'[sid] = wait[sid]
      BY <1>4, <3>1, <3>2, <3>3
    <3>. QED
      BY <1>1, <2>1, <2>3, <3>1, <3>2, <3>3, <3>4
  <2>5. ASSUME NEW sid \in Sids, wait'[sid] # None, id \in wait'[sid].sig
        PROVE  wait'[sid].start \in Nat /\ (begun \/ (wait'[sid] = wait[sid] /\ wait[sid] # None))
    <3>1. wait'[sid].start \in Nat
      BY <1>5, <2>5 DEF WaitsBegan
    <3>. QED
      BY <1>3, <2>5, <3>1
  <2>. HIDE DEF c, n, begun, banked
  <2>6. CASE begun
    <3>1. budgets'[id] = n + 1 /\ credited'[id] \in Nat /\ credited'[id] <= c + MaxElapsed
      BY <1>1, <2>1, <2>2, <2>6
    <3>2. credited'[id] + AbandonCap <= budgets'[id] * Budget
      BY <1>1, <2>1, <3>1
    <3>3. ASSUME NEW sid \in Sids, wait'[sid] # None, id \in wait'[sid].sig
          PROVE  wait'[sid].start \in Nat /\ wait'[sid].start <= last'
      BY <3>3, <1>5 DEF WaitsBegan
    <3>4. budgets'[id] * Budget \in Nat
      BY <1>1, <2>1, <3>1
    <3>. QED
      BY <1>1, <2>1, <3>1, <3>2, <3>3, <3>4
  <2>7. CASE ~begun
    <3>1. budgets'[id] = n
      BY <2>1, <2>2, <2>7
    <3>2. credited'[id] \in Nat /\ credited'[id] <= n * Budget /\ credited'[id] <= c + (now - last)
      BY <1>1, <2>1, <2>2, <2>4, <2>7
    <3>3. ASSUME NEW sid \in Sids, wait'[sid] # None, id \in wait'[sid].sig
          PROVE  credited'[id] + AbandonCap <= n * Budget + (now - wait'[sid].start)
      <4>1. wait'[sid] = wait[sid] /\ wait[sid] # None /\ id \in wait[sid].sig
        BY <2>5, <2>7, <3>3
      <4>. QED
        BY <1>1, <2>1, <2>3, <3>2, <4>1
    <3>. QED
      BY <1>1, <2>1, <3>1, <3>2, <3>3
  <2>. QED
    BY <2>6, <2>7
<1>8. BudgetsHold'
  BY <1>7 DEF BudgetsHold
<1>9. bank' \in [0 .. Horizon \div Hour -> Nat] /\ BankTotal' \in Nat /\ BankTotal' <= now
  BY SampleBanks
<1>10. BankTypeOK'
  <2>1. \A id \in Asked : credited'[id] \in Nat /\ budgets'[id] \in Nat
    BY <1>7
  <2>2. credited' \in [Asked -> Nat] /\ budgets' \in [Asked -> Nat]
    BY <2>1 DEF Saw
  <2>. QED
    BY <1>1, <1>2, <1>9, <2>2 DEF BankTypeOK
<1>11. BankIsTrue'
  BY <1>1, <1>9 DEF BankIsTrue
<1>. QED
  BY <1>5, <1>6, <1>8, <1>10, <1>11 DEF BottleneckInv

\* Nothing was sampled; the clock may have moved.
LEMMA NothingSampled ==
  ASSUME BottleneckInv, UNCHANGED <<wait, last, bank, credited, budgets>>,
         now' \in {now, now + 1}, runs' = runs, due' \subseteq runs',
         now' # now => ("bottleneck" \in runs => SamplesInTime)
  PROVE  BottleneckInv'
<1>. USE BottleneckAssumption DEF BottleneckInv
<1>1. BankTotal' = BankTotal
  BY BankIsSum
<1>2. now \in Nat /\ now' \in Nat /\ now <= now' /\ (last # None => last \in Nat /\ last <= now)
  BY DEF BankTypeOK, LooksOften
<1>3. LooksOften'
  BY <1>2 DEF LooksOften, SamplesInTime
<1>4. BankTypeOK' /\ WaitsBegan' /\ BudgetsHold'
  BY <1>2 DEF BankTypeOK, WaitsBegan, BudgetsHold
<1>5. BankIsTrue'
  BY <1>1, <1>2 DEF BankIsTrue
<1>. QED
  BY <1>3, <1>4, <1>5

\* A restart forgets the waits, not what was banked.
LEMMA RestartKeepsBank ==
  ASSUME BottleneckInv, Crash \/ Boot, now' = now, runs' = runs, due' \subseteq runs'
  PROVE  BottleneckInv'
<1>. USE BottleneckAssumption DEF BottleneckInv
<1>1. BankTotal' = BankTotal
  BY BankIsSum DEF Crash, Boot
<1>2. /\ now \in Nat /\ last' \in {None, now} /\ (last # None => last \in Nat /\ last <= now)
      /\ UNCHANGED <<bank, credited, budgets>>
  BY DEF BankTypeOK, LooksOften, Crash, Boot
<1>3. DOMAIN wait' = Sids /\ \A sid \in Sids : wait'[sid] = None
  <2>1. CASE Crash
    BY <2>1 DEF Crash
  <2>2. CASE Boot
    BY <2>2 DEF Boot, BankTypeOK, WaitsBegan
  <2>. QED
    BY <2>1, <2>2
<1>4. LooksOften' /\ WaitsBegan' /\ BudgetsHold'
  BY <1>2, <1>3 DEF LooksOften, WaitsBegan, BudgetsHold
<1>5. BankTypeOK' /\ BankIsTrue'
  BY <1>1, <1>2, <1>3 DEF BankTypeOK, BankIsTrue
<1>. QED
  BY <1>4, <1>5

\* The timers of a scene stay what they are, and only they fire.
LEMMA TimersStay ==
  ASSUME due \subseteq runs, [MonitorsNext]_monitorVars
  PROVE  runs' = runs /\ due' \subseteq runs' /\ (Tick \/ now' = now)
<1>1. CASE Tick
  BY <1>1 DEF Tick
<1>2. CASE Between \/ \E timer : Fires(timer)
  BY <1>2 DEF Between, Fires
<1>3. CASE UNCHANGED monitorVars
  BY <1>3 DEF monitorVars
<1>4. ~Tick /\ MonitorsNext => Between \/ \E timer : Fires(timer)
  BY DEF MonitorsNext, Works, HidesFile, PollsMain, PollsMainForgetting, PollsRemote, DiesPolling,
         Talks, Leaves, Samples, SamplesDuringTurn, Dies, Boots,
         Competes, Queues, DiesQueueing, Collects, PeersPublish, PollsPeers,
         Converses, CompletesLine, Streams, Quits, Measures, Stats, Parses,
         Grows, SyncBegins, Syncs, SyncBreaks, Unlocks, Hops, Reports, Receives, PostBreaks,
         Deploys, Migrates, MigrationBreaks
<1>. QED
  BY <1>1, <1>2, <1>3, <1>4

\* The accumulator.
LEMMA ShareOfBottleneck ==
  ASSUME [MonitorsNext]_monitorVars
  PROVE  \/ UNCHANGED <<wait, last, bank, credited, budgets>>
         \/ (Samples \/ SamplesDuringTurn)
         \/ Crash \/ Boot
<1>1. CASE Talks \/ Leaves
  BY <1>1 DEF Talks, Leaves, Turn, Answer, Flip, Session
<1>2. CASE Samples \/ SamplesDuringTurn
  BY <1>2
<1>3. CASE Dies \/ Boots
  BY <1>3 DEF Dies, Boots
<1>4. CASE ~(Talks \/ Leaves \/ Samples \/ SamplesDuringTurn \/ Dies \/ Boots)
  <2>1. \/ OnlyUsage \/ OnlyCelebration \/ OnlyPeers \/ OnlySessions \/ OnlySync \/ OnlyLimits
        \/ OnlyMigration \/ UNCHANGED monitorVars
    BY <1>4
    DEF MonitorsNext, Tick, Works, HidesFile, PollsMain, PollsMainForgetting, PollsRemote, DiesPolling,
        Competes, Queues, DiesQueueing, Collects, PeersPublish, PollsPeers,
        Converses, CompletesLine, Streams, Quits, Measures, Stats, Parses,
        Grows, SyncBegins, Syncs, SyncBreaks, Unlocks, Hops, Reports, Receives, PostBreaks,
        Deploys, Migrates, MigrationBreaks
  <2>2. UNCHANGED bottleneckVars
    BY <2>1 DEF OnlyUsage, OnlyCelebration, OnlyPeers, OnlySessions, OnlySync, OnlyLimits,
         OnlyMigration, TheFirstThree, monitorVars
  <2>. QED
    BY <2>2 DEF bottleneckVars
<1>. QED
  BY <1>1, <1>2, <1>3, <1>4

\* Every step keeps the invariant.
LEMMA StepBottleneck == BottleneckInv /\ [MonitorsNext]_monitorVars => BottleneckInv'
<1>. SUFFICES ASSUME BottleneckInv, [MonitorsNext]_monitorVars PROVE BottleneckInv'
  OBVIOUS
<1>1. runs' = runs /\ due' \subseteq runs' /\ (Tick \/ now' = now) /\ due \subseteq runs
  BY TimersStay DEF BottleneckInv, BankTypeOK
<1>2. CASE UNCHANGED <<wait, last, bank, credited, budgets>>
  BY <1>1, <1>2, NothingSampled DEF Tick
<1>3. CASE Samples \/ SamplesDuringTurn
  <2>1. "bottleneck" \in runs /\ now' = now
    BY <1>1, <1>3 DEF Samples, SamplesDuringTurn, Fires
  <2>2. PICK unread, turns : Sample(unread, turns)
    BY <1>3 DEF Samples, SamplesDuringTurn, SampleQuietly, SampleDuringTurn
  <2>3. PICK sigs, banks : Saw(sigs, banks)
    BY <2>2, SampleSees
  <2>. QED
    BY <1>1, <2>1, <2>3, SawBanksRightly
<1>4. CASE Crash \/ Boot
  <2>1. CASE Tick
    <3>1. UNCHANGED bottleneckVars
      BY <2>1 DEF Tick, OnlyUsage
    <3>. QED
      BY <1>2, <3>1 DEF bottleneckVars
  <2>2. CASE ~Tick
    BY <1>1, <1>4, <2>2, RestartKeepsBank
  <2>. QED
    BY <2>1, <2>2
<1>. QED
  BY <1>2, <1>3, <1>4, ShareOfBottleneck

\* The bank only grows.
LEMMA BankGrows ==
  ASSUME BottleneckInv, [MonitorsNext]_monitorVars
  PROVE  BankTotal \in Nat /\ BankTotal' \in Nat /\ BankTotal <= BankTotal'
<1>0. BankTotal \in Nat
  BY DEF BottleneckInv, BankIsTrue
<1>1. runs' = runs /\ due' \subseteq runs' /\ (Tick \/ now' = now) /\ due \subseteq runs
  BY TimersStay DEF BottleneckInv, BankTypeOK
<1>2. CASE UNCHANGED bank
  BY <1>0, <1>2, BankIsSum
<1>3. CASE Samples \/ SamplesDuringTurn
  <2>1. "bottleneck" \in runs /\ now' = now
    BY <1>1, <1>3 DEF Samples, SamplesDuringTurn, Fires
  <2>2. PICK unread, turns : Sample(unread, turns)
    BY <1>3 DEF Samples, SamplesDuringTurn, SampleQuietly, SampleDuringTurn
  <2>3. PICK sigs, banks : Saw(sigs, banks)
    BY <2>2, SampleSees
  <2>. QED
    BY <2>1, <2>3, SampleBanks
<1>. QED
  BY <1>2, <1>3, ShareOfBottleneck DEF Crash, Boot

\* A question left alone is banked for at most its cap, the interval of the
\* first sample included, for each time the wait on it began afresh; and the
\* bank never holds more than the time that went by, however many sessions
\* wait together (bottleneck-monitor.py:225-235): for any sessions, questions,
\* cap and interval, whatever is unreadable, restarted or asked meanwhile.
THEOREM QuestionsStayCapped == MonitorsSpec => []QuestionIsCapped
<1>1. MonitorsInit => BottleneckInv
  BY InitBottleneck
<1>2. BottleneckInv /\ [MonitorsNext]_monitorVars => BottleneckInv'
  BY StepBottleneck
<1>3. BottleneckInv => QuestionIsCapped
  <2>. SUFFICES ASSUME BottleneckInv PROVE QuestionIsCapped
    OBVIOUS
  <2>1. BankTotal <= now
    BY DEF BottleneckInv, BankTypeOK, LooksOften, BankIsTrue
  <2>2. \A id \in Asked : credited[id] <= budgets[id] * (AbandonCap + MaxElapsed)
    BY DEF BottleneckInv, BudgetsHold, Budget
  <2>. QED
    BY <2>1, <2>2 DEF QuestionIsCapped
<1>. QED
  BY <1>1, <1>2, <1>3, PTL DEF MonitorsSpec
-----------------------------------------------------------------------------
(***************************************************************************)
(* The peers of the competition (fetch_peers).                             *)
(***************************************************************************)

\* The names of copies, what a peer can serve, and a run under way.
Slugs == {Slug[p] : p \in Rivals}
Publication == [by : Rivals, n : Nat, fit : BOOLEAN]
PeerRow == [data : Publication \cup {None}, ok : BOOLEAN]
Fetches == [copies : [Slugs -> Publication \cup {None}], rows : [Rivals -> PeerRow], dead : BOOLEAN]

\* No other peer has its slug.
Alone(p) == \A q \in Rivals \ {p} : Slug[q] # Slug[p]

\* Every copy is the last that was kept of some peer with its slug, and a slug
\* of its own means the last of that peer; the feed is of an earlier tick
\* while the run of this one is due.
PeersInv ==
  /\ served \in [Rivals -> Publication]
  /\ obtained \in [Rivals -> Publication \cup {None}]
  /\ copies \in [Slugs -> Publication \cup {None}]
  /\ competition \in [at : Int, rows : [Rivals -> PeerRow]]
  /\ now \in Nat /\ competition.at <= now /\ due \subseteq runs
  /\ competition.at = now => "peers" \notin due
  /\ \A s \in Slugs : copies[s] = None \/ \E q \in Rivals : Slug[q] = s /\ copies[s] = obtained[q]
  /\ \A p \in Rivals : Alone(p) => copies[Slug[p]] = obtained[p]

\* A run of fetch_peers, and one peer of it.
FetchStart == [copies |-> copies, rows |-> competition.rows, dead |-> FALSE]
FetchRun(answers) == FoldLeft(LAMBDA r, p : FetchPeer(r, p, answers[p]), FetchStart, PeerOrder)
AsksPeer(answers, i, r) == FetchPeer(r, PeerOrder[i], answers[PeerOrder[i]])

\* The function that the fold of the run is: c[s] after the peers s of the order.
Unrolls(c, answers) ==
  c = [s \in SUBSET DOMAIN PeerOrder |->
         IF s = {} THEN FetchStart ELSE AsksPeer(answers, Max(s), c[s \ {Max(s)}])]

\* It is the library's fold over the sequence of peers.
LEMMA FetchIsFold ==
  ASSUME NEW answers
  PROVE  FetchRun(answers) = (CHOOSE c : Unrolls(c, answers))[DOMAIN PeerOrder]
BY DEF FetchRun, FoldLeft, MapThenFoldSet, Unrolls, AsksPeer

\* What the order of config.json and the slugs are.
LEMMA PeersKnown ==
  /\ \A i \in 1 .. Len(PeerOrder) : PeerOrder[i] \in Rivals
  /\ DOMAIN PeerOrder = 1 .. Len(PeerOrder) /\ Len(PeerOrder) \in Nat
  /\ \A p \in Rivals : \E i \in 1 .. Len(PeerOrder) : PeerOrder[i] = p
  /\ \A p \in Rivals : Slug[p] \in Slugs
  /\ None \notin Publication
<1>1. PeerOrder \in Seq(Rivals) /\ Rivals = {PeerOrder[i] : i \in DOMAIN PeerOrder}
  BY PeersAssumption DEF Rivals, ToSet
<1>2. DOMAIN PeerOrder = 1 .. Len(PeerOrder) /\ Len(PeerOrder) \in Nat
  BY <1>1
<1>3. None \notin Publication
  BY PeersAssumption DEF Publication
<1>. QED
  BY <1>1, <1>2, <1>3 DEF Slugs

\* What one peer makes of the run r.
FetchesOne(f, r, p, answer) ==
  IF r.dead THEN f = r
  ELSE /\ \A s \in Slugs : s # Slug[p] => f.copies[s] = r.copies[s]
       /\ f.copies[Slug[p]] = IF answer = "served" THEN served[p] ELSE r.copies[Slug[p]]
       /\ f.dead => f.copies[Slug[p]] # None /\ ~f.copies[Slug[p]].fit
       /\ ~f.dead => /\ f.rows[p] = [data |-> f.copies[Slug[p]], ok |-> answer = "served"]
                     /\ \A q \in Rivals \ {p} : f.rows[q] = r.rows[q]

\* That is what FetchPeer does, and it keeps the type of a run.
LEMMA FetchPeerIsOne ==
  ASSUME PeersInv, NEW r \in Fetches, NEW p \in Rivals, NEW answer \in {"served", "down"}
  PROVE  FetchPeer(r, p, answer) \in Fetches /\ FetchesOne(FetchPeer(r, p, answer), r, p, answer)
<1>. DEFINE kept == Kept(r.copies, p, answer)
            data == kept[Slug[p]]
<1>0. Slug[p] \in Slugs /\ served[p] \in Publication
  BY PeersKnown DEF PeersInv
<1>1. r.copies \in [Slugs -> Publication \cup {None}]
  BY DEF Fetches
<1>2. /\ kept \in [Slugs -> Publication \cup {None}]
      /\ \A s \in Slugs : s # Slug[p] => kept[s] = r.copies[s]
      /\ kept[Slug[p]] = IF answer = "served" THEN served[p] ELSE r.copies[Slug[p]]
  BY <1>0, <1>1 DEF Kept
<1>. HIDE DEF kept
<1>3. CASE r.dead
  BY <1>3 DEF FetchPeer, FetchesOne
<1>4. CASE ~r.dead /\ data # None /\ ~data.fit
  <2>1. FetchPeer(r, p, answer) = [r EXCEPT !.copies = kept, !.dead = TRUE]
    BY <1>4 DEF FetchPeer, kept
  <2>. QED
    BY <1>2, <1>4, <2>1 DEF Fetches, FetchesOne
<1>5. CASE ~r.dead /\ ~(data # None /\ ~data.fit)
  <2>1. FetchPeer(r, p, answer) =
          [r EXCEPT !.copies = kept, !.rows[p] = [data |-> data, ok |-> answer = "served"]]
    BY <1>5 DEF FetchPeer, kept
  <2>2. data \in Publication \cup {None} /\ (answer = "served") \in BOOLEAN
    BY <1>0, <1>2
  <2>. HIDE DEF data
  <2>3. [data |-> data, ok |-> answer = "served"] \in PeerRow
    BY <2>2 DEF PeerRow
  <2>. DEFINE row == [data |-> data, ok |-> answer = "served"]
  <2>. HIDE DEF row
  <2>4. FetchPeer(r, p, answer) = [r EXCEPT !.copies = kept, !.rows[p] = row]
    BY <2>1 DEF row
  <2>5. row \in PeerRow
    BY <2>3 DEF row
  <2>6. FetchPeer(r, p, answer) = [copies |-> kept, rows |-> [r.rows EXCEPT ![p] = row], dead |-> FALSE]
    BY <2>4, <1>5 DEF Fetches
  <2>7. r.rows \in [Rivals -> PeerRow]
    BY DEF Fetches
  <2>8. FetchPeer(r, p, answer) \in Fetches
    BY <1>2, <2>5, <2>6, <2>7 DEF Fetches
  <2>9. /\ FetchPeer(r, p, answer).rows[p] = row
        /\ \A q \in Rivals \ {p} : FetchPeer(r, p, answer).rows[q] = r.rows[q]
    BY <2>6, <2>7
  <2>. QED
    BY <1>2, <1>5, <2>6, <2>8, <2>9 DEF row, data, FetchesOne
<1>. QED
  BY <1>3, <1>4, <1>5

\* The run, peer by peer.
LEMMA FetchChain ==
  ASSUME PeersInv, NEW answers \in [Rivals -> {"served", "down"}]
  PROVE  \E a : /\ a[0] = FetchStart /\ a[Len(PeerOrder)] = FetchRun(answers)
                /\ \A i \in 0 .. Len(PeerOrder) : a[i] \in Fetches
                /\ \A i \in 1 .. Len(PeerOrder) : a[i] = AsksPeer(answers, i, a[i - 1])
<1>. DEFINE n == Len(PeerOrder)
            F == [x \in (1 .. n) \X Fetches |-> AsksPeer(answers, x[1], x[2])]
<1>0. n \in Nat /\ DOMAIN PeerOrder = 1 .. n
  BY PeersKnown
<1>1. ASSUME NEW i \in 1 .. n, NEW r \in Fetches
      PROVE  F[<<i, r>>] = AsksPeer(answers, i, r) /\ AsksPeer(answers, i, r) \in Fetches
  <2>1. PeerOrder[i] \in Rivals
    BY PeersKnown
  <2>2. answers[PeerOrder[i]] \in {"served", "down"}
    BY <2>1
  <2>3. AsksPeer(answers, i, r) \in Fetches
    BY <2>1, <2>2, FetchPeerIsOne DEF AsksPeer
  <2>. QED
    BY <2>3
<1>2. FetchStart \in Fetches
  BY DEF FetchStart, Fetches, PeersInv
<1>. HIDE DEF F, n
<1>3. PICK g : FoldsTo(g, F, FetchStart, n) /\ \A s \in SUBSET (1 .. n) : g[s] \in Fetches
  BY <1>0, <1>1, <1>2, FoldsExist
<1>4. ASSUME NEW s \in SUBSET (1 .. n), s # {}
      PROVE  Max(s) \in 1 .. n /\ s \ {Max(s)} \in SUBSET (1 .. n)
  BY <1>0, <1>4, MaxOfSome
<1>5. Unrolls(g, answers)
  <2>1. ASSUME NEW s \in SUBSET (1 .. n)
        PROVE  FoldStep(g, F, FetchStart, s) =
                 IF s = {} THEN FetchStart ELSE AsksPeer(answers, Max(s), g[s \ {Max(s)}])
    <3>1. CASE s = {}
      BY <3>1 DEF FoldStep
    <3>2. CASE s # {}
      <4>1. F[<<Max(s), g[s \ {Max(s)}]>>] = AsksPeer(answers, Max(s), g[s \ {Max(s)}])
        BY <1>1, <1>3, <1>4, <3>2
      <4>. QED
        BY <3>2, <4>1 DEF FoldStep
    <3>. QED
      BY <3>1, <3>2
  <2>. QED
    BY <1>0, <1>3, <2>1 DEF FoldsTo, Unrolls
<1>. DEFINE c == CHOOSE d : Unrolls(d, answers)
<1>6. Unrolls(c, answers)
  BY <1>5
<1>. HIDE DEF c
<1>. DEFINE a == [i \in 0 .. n |-> c[1 .. i]]
<1>7. \A i \in 0 .. n : a[i] = c[1 .. i] /\ (1 .. i) \in SUBSET (1 .. n)
  BY <1>0
<1>8. a[0] = FetchStart
  <2>1. 1 .. 0 = {} /\ 0 \in 0 .. n
    BY <1>0
  <2>. QED
    BY <1>0, <1>6, <1>7, <2>1 DEF Unrolls
<1>9. a[n] = FetchRun(answers)
  <2>1. n \in 0 .. n
    BY <1>0
  <2>. QED
    BY <1>0, <1>7, <2>1, FetchIsFold DEF c
<1>10. ASSUME NEW i \in 1 .. n PROVE a[i] = AsksPeer(answers, i, a[i - 1])
  <2>1. i \in Nat /\ i \in 0 .. n /\ i - 1 \in 0 .. n /\ i \in 1 .. i
    BY <1>0
  <2>2. Max(1 .. i) = i
    <3>1. \A y \in 1 .. i : i >= y
      BY <2>1
    <3>2. \A x \in 1 .. i : (\A y \in 1 .. i : x >= y) => x = i
      BY <2>1
    <3>. QED
      BY <2>1, <3>1, <3>2 DEF Max
  <2>3. (1 .. i) \ {i} = 1 .. (i - 1)
    BY <2>1
  <2>4. (1 .. i) # {}
    BY <2>1
  <2>5. c[1 .. i] = AsksPeer(answers, i, c[1 .. (i - 1)])
    <3>. PICK s \in SUBSET (1 .. n) : s = 1 .. i
      BY <1>7, <2>1
    <3>1. s # {} => c[s] = AsksPeer(answers, Max(s), c[s \ {Max(s)}])
      BY <1>0, <1>6 DEF Unrolls
    <3>. QED
      BY <2>2, <2>3, <2>4, <3>1
  <2>. QED
    BY <1>7, <2>1, <2>5
<1>11. \A i \in 0 .. n : a[i] \in Fetches
  <2>. DEFINE Bad == {i \in 0 .. n : a[i] \notin Fetches}
  <2>. SUFFICES ASSUME Bad # {} PROVE FALSE
    OBVIOUS
  <2>. HIDE DEF a
  <2>1. PICK m \in Bad : \A k \in Bad : m <= k
    <3>1. Bad \in SUBSET Nat
      BY <1>0
    <3>. HIDE DEF Bad
    <3>. QED
      BY <3>1, LeastNumber
  <2>2. m \in 0 .. n /\ a[m] \notin Fetches
    BY <2>1
  <2>3. m # 0
    BY <1>2, <1>8, <2>2
  <2>4. m \in 1 .. n /\ m - 1 \in 0 .. n /\ ~(m <= m - 1)
    BY <1>0, <2>2, <2>3
  <2>5. a[m - 1] \in Fetches
    BY <2>1, <2>4
  <2>. QED
    BY <1>1, <1>10, <2>2, <2>4, <2>5
<1>. HIDE DEF a
<1>. QED
  BY <1>8, <1>9, <1>10, <1>11 DEF n

\* A copy is as it was, or what a peer that answered serves.
CopyIsKnown(r, answers, s) ==
  r.copies[s] = copies[s] \/ \E q \in Rivals : Slug[q] = s /\ answers[q] = "served" /\ r.copies[s] = served[q]

\* A peer's row shows its copy, which is new if it answered.
Shown(r, answers, p) ==
  /\ r.rows[p] = [data |-> r.copies[Slug[p]], ok |-> answers[p] = "served"]
  /\ answers[p] = "served" => r.copies[Slug[p]] = served[p]

\* The run r, after it asked those: unless it died of a copy without shape,
\* each of them that has its slug for itself is shown.
Fetched(r, answers, asked) ==
  /\ \A s \in Slugs : CopyIsKnown(r, answers, s)
  /\ r.dead => \E p \in Rivals : r.copies[Slug[p]] # None /\ ~r.copies[Slug[p]].fit
  /\ ~r.dead => \A p \in asked : Alone(p) => Shown(r, answers, p)

\* One more peer.
LEMMA FetchedGrows ==
  ASSUME PeersInv, NEW r \in Fetches, NEW p \in Rivals, NEW answers \in [Rivals -> {"served", "down"}],
         NEW asked \in SUBSET Rivals, Fetched(r, answers, asked)
  PROVE  Fetched(FetchPeer(r, p, answers[p]), answers, asked \cup {p})
<1>. PICK f : f = FetchPeer(r, p, answers[p])
  OBVIOUS
<1>0. FetchesOne(f, r, p, answers[p]) /\ Slug[p] \in Slugs
  <2>1. answers[p] \in {"served", "down"}
    OBVIOUS
  <2>. QED
    BY <2>1, PeersKnown, FetchPeerIsOne
<1>1. CASE r.dead
  <2>1. f = r
    BY <1>0, <1>1 DEF FetchesOne
  <2>. QED
    BY <1>1, <2>1 DEF Fetched
<1>2. CASE ~r.dead
  <2>1. /\ \A s \in Slugs : s # Slug[p] => f.copies[s] = r.copies[s]
        /\ f.copies[Slug[p]] = IF answers[p] = "served" THEN served[p] ELSE r.copies[Slug[p]]
        /\ f.dead => f.copies[Slug[p]] # None /\ ~f.copies[Slug[p]].fit
        /\ ~f.dead => /\ f.rows[p] = [data |-> f.copies[Slug[p]], ok |-> answers[p] = "served"]
                      /\ \A q \in Rivals \ {p} : f.rows[q] = r.rows[q]
    BY <1>0, <1>2 DEF FetchesOne
  <2>2. ASSUME NEW s \in Slugs PROVE CopyIsKnown(f, answers, s)
    <3>1. CopyIsKnown(r, answers, s)
      BY DEF Fetched
    <3>2. f.copies[s] = r.copies[s] \/ (s = Slug[p] /\ answers[p] = "served" /\ f.copies[s] = served[p])
      BY <2>1
    <3>. QED
      BY <3>1, <3>2 DEF CopyIsKnown
  <2>3. ASSUME ~f.dead, NEW q \in asked \cup {p}, Alone(q) PROVE Shown(f, answers, q)
    <3>1. CASE q = p
      BY <2>1, <2>3, <3>1 DEF Shown
    <3>2. CASE q # p
      <4>1. q \in asked /\ q \in Rivals /\ Slug[p] # Slug[q] /\ Slug[q] \in Slugs
        BY <2>3, <3>2, PeersKnown DEF Alone
      <4>2. f.copies[Slug[q]] = r.copies[Slug[q]] /\ f.rows[q] = r.rows[q]
        BY <2>1, <2>3, <3>2, <4>1
      <4>3. Shown(r, answers, q)
        BY <1>2, <2>3, <4>1 DEF Fetched
      <4>. QED
        BY <4>2, <4>3 DEF Shown
    <3>. QED
      BY <3>1, <3>2
  <2>. QED
    BY <2>1, <2>2, <2>3 DEF Fetched
<1>. QED
  BY <1>1, <1>2

\* So it is for the whole run, by its least peer for which it is not.
LEMMA FetchIsRight ==
  ASSUME PeersInv, NEW answers \in [Rivals -> {"served", "down"}]
  PROVE  FetchRun(answers) \in Fetches /\ Fetched(FetchRun(answers), answers, Rivals)
<1>. DEFINE n == Len(PeerOrder)
            AskedBy(i) == {PeerOrder[j] : j \in 1 .. i}
<1>0. n \in Nat
  BY PeersKnown
<1>1. PICK a : /\ a[0] = FetchStart /\ a[n] = FetchRun(answers)
               /\ \A i \in 0 .. n : a[i] \in Fetches
               /\ \A i \in 1 .. n : a[i] = AsksPeer(answers, i, a[i - 1])
  BY FetchChain
<1>2. Fetched(FetchStart, answers, {})
  BY DEF FetchStart, Fetched, CopyIsKnown
<1>. DEFINE Bad == {i \in 0 .. n : ~Fetched(a[i], answers, AskedBy(i))}
<1>3. Bad = {}
  <2>. SUFFICES ASSUME Bad # {} PROVE FALSE
    OBVIOUS
  <2>1. PICK m \in Bad : \A k \in Bad : m <= k
    <3>1. Bad \in SUBSET Nat
      BY <1>0
    <3>. HIDE DEF Bad
    <3>. QED
      BY <3>1, LeastNumber
  <2>2. m # 0
    <3>1. AskedBy(0) = {}
      BY DEF AskedBy
    <3>. HIDE DEF AskedBy
    <3>. QED
      BY <1>1, <1>2, <2>1, <3>1
  <2>3. m \in 1 .. n /\ m - 1 \in 0 .. n /\ ~(m <= m - 1) /\ m \in Nat
    BY <1>0, <2>1, <2>2
  <2>4. PeerOrder[m] \in Rivals /\ AskedBy(m - 1) \in SUBSET Rivals
    <3>1. \A j \in 1 .. (m - 1) : j \in 1 .. n
      BY <1>0, <2>3
    <3>. QED
      BY <2>3, <3>1, PeersKnown
  <2>5. AskedBy(m) = AskedBy(m - 1) \cup {PeerOrder[m]}
    <3>1. 1 .. m = (1 .. (m - 1)) \cup {m}
      BY <2>3
    <3>. QED
      BY <3>1
  <2>. HIDE DEF AskedBy
  <2>6. Fetched(a[m - 1], answers, AskedBy(m - 1))
    BY <2>1, <2>3
  <2>7. Fetched(FetchPeer(a[m - 1], PeerOrder[m], answers[PeerOrder[m]]), answers,
                AskedBy(m - 1) \cup {PeerOrder[m]})
    BY <1>1, <2>3, <2>4, <2>6, FetchedGrows
  <2>8. a[m] = FetchPeer(a[m - 1], PeerOrder[m], answers[PeerOrder[m]])
    BY <1>1, <2>3 DEF AsksPeer
  <2>. QED
    BY <2>1, <2>5, <2>7, <2>8
<1>4. n \in 0 .. n
  BY <1>0
<1>5. AskedBy(n) = Rivals
  BY PeersKnown
<1>. HIDE DEF AskedBy
<1>6. Fetched(a[n], answers, AskedBy(n))
  BY <1>3, <1>4
<1>. QED
  BY <1>1, <1>4, <1>5, <1>6

\* FetchPeers, with the fold named.
PeersRun(answers) ==
  /\ copies' = FetchRun(answers).copies
  /\ competition' = IF FetchRun(answers).dead THEN competition
                    ELSE [at |-> now, rows |-> FetchRun(answers).rows]
  /\ obtained' = [p \in Rivals |->
       IF /\ FetchRun(answers).copies[Slug[p]] # None /\ FetchRun(answers).copies[Slug[p]] = served[p]
          /\ answers[p] = "served"
       THEN served[p] ELSE obtained[p]]
  /\ UNCHANGED served

\* FetchPeers is such a run.
LEMMA FetchPeersIsRun ==
  ASSUME NEW answers, FetchPeers(answers)
  PROVE  PeersRun(answers)
BY DEF FetchPeers, PeersRun, FetchRun, FetchStart

\* What a step of the whole means for the peers and their timer.
LEMMA ShareOfPeers ==
  ASSUME [MonitorsNext]_monitorVars
  PROVE  \/ /\ UNCHANGED <<peerVars, runs>>
            /\ \/ now' = now /\ due' \in SUBSET due /\ ("peers" \in due => "peers" \in due')
               \/ now' = now + 1 /\ due' = runs
         \/ (\E p \in Rivals : Publishes(p)) /\ UNCHANGED <<now, due, runs>>
         \/ /\ UNCHANGED <<now, runs>> /\ due' = due \ {"peers"} /\ "peers" \in due /\ "peers" \notin due'
            /\ \E answers \in [Rivals -> {"served", "down"}] : FetchPeers(answers)
<1>1. CASE PeersPublish
  BY <1>1 DEF PeersPublish, Between
<1>2. CASE PollsPeers
  BY <1>2 DEF PollsPeers, Fires
<1>3. CASE Tick
  BY <1>3 DEF Tick, OnlyUsage, Elsewhere
<1>4. CASE PollsMain \/ PollsMainForgetting \/ PollsRemote \/ DiesPolling
  <2>1. OnlyUsage /\ \E x \in Boxes : Fires(x)
    BY <1>4 DEF PollsMain, PollsMainForgetting, PollsRemote, DiesPolling, Boxes
  <2>2. \A x \in Boxes : x # "peers"
    BY MonitorsAssumption
  <2>. QED
    BY <2>1, <2>2 DEF Fires, OnlyUsage, Elsewhere
<1>5. CASE ~(PeersPublish \/ PollsPeers \/ Tick \/ PollsMain \/ PollsMainForgetting \/ PollsRemote
             \/ DiesPolling)
  <2>1. \/ UNCHANGED monitorVars
        \/ /\ UNCHANGED <<now, runs>> /\ due' \in SUBSET due /\ ("peers" \in due => "peers" \in due')
           /\ \/ OnlyUsage \/ OnlyBottleneck \/ OnlyCelebration \/ OnlySessions \/ OnlySync \/ OnlyLimits
              \/ OnlyMigration
    BY <1>5
    DEF MonitorsNext, Works, HidesFile,
        Talks, Leaves, Samples, SamplesDuringTurn, Dies, Boots,
        Competes, Queues, DiesQueueing, Collects,
        Converses, CompletesLine, Streams, Quits, Measures, Stats, Parses,
        Grows, SyncBegins, Syncs, SyncBreaks, Unlocks, Hops, Reports, Receives, PostBreaks,
        Deploys, Migrates, MigrationBreaks, Between, Fires
  <2>. QED
    BY <2>1 DEF OnlyUsage, OnlyBottleneck, OnlyCelebration, OnlySessions, OnlySync, OnlyLimits,
         OnlyMigration, Elsewhere, monitorVars
<1>. QED
  BY <1>1, <1>2, <1>3, <1>4, <1>5

\* The invariant holds at first.
LEMMA InitPeers == MonitorsInit => PeersInv
<1>. SUFFICES ASSUME MonitorsInit PROVE PeersInv
  OBVIOUS
<1>1. PeersInit /\ now = 0 /\ due = runs
  BY DEF MonitorsInit
<1>2. ASSUME NEW p \in Rivals PROVE [by |-> p, n |-> 0, fit |-> TRUE] \in Publication
  BY DEF Publication
<1>3. served \in [Rivals -> Publication]
  BY <1>1, <1>2 DEF PeersInit
<1>4. [data |-> None, ok |-> FALSE] \in PeerRow
  BY DEF PeerRow
<1>5. competition = [at |-> -1, rows |-> [p \in Rivals |-> [data |-> None, ok |-> FALSE]]]
  BY <1>1 DEF PeersInit
<1>6. competition \in [at : Int, rows : [Rivals -> PeerRow]] /\ competition.at = -1
  BY <1>4, <1>5
<1>7. copies = [s \in Slugs |-> None] /\ obtained = [p \in Rivals |-> None]
  BY <1>1 DEF PeersInit, Slugs
<1>. QED
  BY <1>1, <1>3, <1>6, <1>7, PeersKnown DEF PeersInv

\* What a run leaves.
\* A run keeps the invariant, and its feed is right.
LEMMA RunIsRight ==
  ASSUME PeersInv, NEW answers \in [Rivals -> {"served", "down"}], FetchPeers(answers),
         UNCHANGED <<now, runs>>, due' = due \ {"peers"}, "peers" \in due
  PROVE  /\ PeersInv'
         /\ IF competition'.at # now THEN \E p \in Rivals : obtained'[p] # None /\ ~obtained'[p].fit
            ELSE \A p \in Rivals :
                   (\A q \in Rivals \ {p} : Slug[q] # Slug[p]) =>
                     LET row == competition'.rows[p]
                     IN row.data = IF row.ok THEN served[p] ELSE obtained[p]
<1>. PICK run : run = FetchRun(answers)
  OBVIOUS
<1>1. run \in Fetches /\ Fetched(run, answers, Rivals)
  BY FetchIsRight
<1>2. /\ copies' = run.copies
      /\ competition' = IF run.dead THEN competition ELSE [at |-> now, rows |-> run.rows]
      /\ \A p \in Rivals :
           obtained'[p] = IF run.copies[Slug[p]] # None /\ run.copies[Slug[p]] = served[p] /\ answers[p] = "served"
                          THEN served[p] ELSE obtained[p]
      /\ served' = served
  BY FetchPeersIsRun DEF PeersRun
<1>3. obtained' \in [Rivals -> Publication \cup {None}]
  <2>1. served \in [Rivals -> Publication] /\ obtained \in [Rivals -> Publication \cup {None}]
    BY DEF PeersInv
  <2>. QED
    BY <2>1, FetchPeersIsRun DEF PeersRun
<1>4. run.copies \in [Slugs -> Publication \cup {None}] /\ run.rows \in [Rivals -> PeerRow]
  BY <1>1 DEF Fetches
<1>5. \A p \in Rivals : Slug[p] \in Slugs /\ served[p] \in Publication /\ served[p] # None
  BY PeersKnown DEF PeersInv
<1>6. ASSUME NEW s \in Slugs, run.copies[s] # None
      PROVE  \E q \in Rivals : Slug[q] = s /\ run.copies[s] = obtained'[q]
  <2>1. CASE run.copies[s] = copies[s]
    <3>1. PICK q \in Rivals : Slug[q] = s /\ copies[s] = obtained[q]
      BY <1>6, <2>1 DEF PeersInv
    <3>2. obtained'[q] = run.copies[s]
      BY <1>2, <2>1, <3>1
    <3>. QED
      BY <3>1, <3>2
  <2>2. CASE run.copies[s] # copies[s]
    <3>1. PICK q \in Rivals : Slug[q] = s /\ answers[q] = "served" /\ run.copies[s] = served[q]
      BY <1>1, <2>2 DEF Fetched, CopyIsKnown
    <3>2. obtained'[q] = run.copies[s]
      BY <1>2, <1>6, <3>1
    <3>. QED
      BY <3>1, <3>2
  <2>. QED
    BY <2>1, <2>2
<1>7. ASSUME NEW p \in Rivals, Alone(p)
      PROVE  /\ run.copies[Slug[p]] = obtained'[p]
             /\ answers[p] # "served" => run.copies[Slug[p]] = obtained[p]
  <2>1. copies[Slug[p]] = obtained[p]
    BY <1>7 DEF PeersInv
  <2>2. \/ run.copies[Slug[p]] = copies[Slug[p]]
        \/ answers[p] = "served" /\ run.copies[Slug[p]] = served[p]
    BY <1>1, <1>5, <1>7 DEF Fetched, CopyIsKnown, Alone
  <2>. QED
    BY <1>2, <1>5, <2>1, <2>2
<1>8. ~run.dead => competition' = [at |-> now, rows |-> run.rows]
  BY <1>2
<1>9. run.dead => competition' = competition /\ competition.at # now
  BY <1>2 DEF PeersInv
<1>10. run.dead \in BOOLEAN
  BY <1>1 DEF Fetches
<1>11. PeersInv'
  <2>1. /\ competition' \in [at : Int, rows : [Rivals -> PeerRow]]
        /\ now' \in Nat /\ competition'.at <= now'
    <3>1. CASE run.dead
      BY <1>9, <3>1 DEF PeersInv
    <3>2. CASE ~run.dead
      BY <1>4, <1>8, <3>2 DEF PeersInv
    <3>. QED
      BY <1>10, <3>1, <3>2
  <2>2. served' \in [Rivals -> Publication] /\ copies' \in [Slugs -> Publication \cup {None}]
    BY <1>2, <1>4 DEF PeersInv
  <2>3. \A s \in Slugs : copies'[s] = None \/ \E q \in Rivals : Slug[q] = s /\ copies'[s] = obtained'[q]
    BY <1>2, <1>6
  <2>4. \A p \in Rivals : Alone(p) => copies'[Slug[p]] = obtained'[p]
    BY <1>2, <1>7
  <2>. QED
    BY <1>3, <2>1, <2>2, <2>3, <2>4 DEF PeersInv, Alone
<1>12. ASSUME run.dead PROVE \E p \in Rivals : obtained'[p] # None /\ ~obtained'[p].fit
  <2>1. PICK p \in Rivals : run.copies[Slug[p]] # None /\ ~run.copies[Slug[p]].fit
    BY <1>1, <1>12 DEF Fetched
  <2>2. PICK q \in Rivals : run.copies[Slug[p]] = obtained'[q]
    BY <1>5, <1>6, <2>1
  <2>. QED
    BY <2>1, <2>2
<1>13. ASSUME ~run.dead, NEW p \in Rivals, \A q \in Rivals \ {p} : Slug[q] # Slug[p]
       PROVE  LET row == competition'.rows[p] IN row.data = IF row.ok THEN served[p] ELSE obtained[p]
  <2>1. Alone(p)
    BY <1>13 DEF Alone
  <2>2. Shown(run, answers, p)
    BY <1>1, <1>13, <2>1 DEF Fetched
  <2>3. competition'.rows[p] = [data |-> run.copies[Slug[p]], ok |-> answers[p] = "served"]
    BY <1>8, <1>13, <2>2 DEF Shown
  <2>4. PICK row : row = competition'.rows[p]
    OBVIOUS
  <2>5. row.data = run.copies[Slug[p]] /\ row.ok = (answers[p] = "served")
    BY <2>3, <2>4
  <2>6. row.data = IF row.ok THEN served[p] ELSE obtained[p]
    <3>1. CASE answers[p] = "served"
      BY <2>2, <2>5, <3>1 DEF Shown
    <3>2. CASE answers[p] # "served"
      BY <1>7, <2>1, <2>5, <3>2
    <3>. QED
      BY <3>1, <3>2
  <2>. QED
    BY <2>4, <2>6
<1>14. CASE run.dead
  BY <1>9, <1>11, <1>12, <1>14
<1>15. CASE ~run.dead
  <2>1. competition'.at = now
    BY <1>8, <1>15
  <2>. QED
    BY <1>11, <1>13, <1>15, <2>1
<1>. QED
  BY <1>14, <1>15

\* The next publication of a peer is one.
LEMMA NextPublication ==
  ASSUME NEW r \in Publication, NEW m \in Nat, NEW fit \in BOOLEAN
  PROVE  [r EXCEPT !.n = m, !.fit = fit] \in Publication
BY DEF Publication

\* Every step keeps the invariant.
LEMMA StepPeers == PeersInv /\ [MonitorsNext]_monitorVars => PeersInv'
<1>. SUFFICES ASSUME PeersInv, [MonitorsNext]_monitorVars PROVE PeersInv'
  OBVIOUS
<1>1. CASE UNCHANGED <<peerVars, runs>> /\ now' = now /\ due' \in SUBSET due
  BY <1>1 DEF PeersInv, peerVars, Alone
<1>2. CASE UNCHANGED <<peerVars, runs>> /\ now' = now + 1 /\ due' = runs
  <2>1. now + 1 \in Nat /\ competition.at <= now + 1 /\ competition.at # now + 1
    BY DEF PeersInv
  <2>. QED
    BY <1>2, <2>1 DEF PeersInv, peerVars, Alone
<1>3. CASE (\E p \in Rivals : Publishes(p)) /\ UNCHANGED <<now, due, runs>>
  <2>1. PICK p \in Rivals, fit \in BOOLEAN : served' = [served EXCEPT ![p].n = @ + 1, ![p].fit = fit]
    BY <1>3 DEF Publishes
  <2>2. UNCHANGED <<copies, competition, obtained>>
    BY <1>3 DEF Publishes
  <2>3. served' \in [Rivals -> Publication]
    <3>1. served[p] \in Publication
      BY DEF PeersInv
    <3>2. [served[p] EXCEPT !.n = served[p].n + 1, !.fit = fit] \in Publication
      <4>1. served[p].n + 1 \in Nat
        BY <3>1 DEF Publication
      <4>. QED
        BY <3>1, <4>1, NextPublication
    <3>3. \A q \in Rivals :
            served'[q] = IF q = p THEN [served[p] EXCEPT !.n = served[p].n + 1, !.fit = fit] ELSE served[q]
      BY <2>1 DEF PeersInv
    <3>4. DOMAIN served' = Rivals /\ served' = [q \in Rivals |-> served'[q]]
      BY <2>1 DEF PeersInv
    <3>. QED
      BY <3>2, <3>3, <3>4 DEF PeersInv
  <2>. QED
    BY <1>3, <2>2, <2>3 DEF PeersInv, Alone
<1>4. CASE /\ UNCHANGED <<now, runs>> /\ due' = due \ {"peers"} /\ "peers" \in due
           /\ \E answers \in [Rivals -> {"served", "down"}] : FetchPeers(answers)
  BY <1>4, RunIsRight
<1>. QED
  BY <1>1, <1>2, <1>3, <1>4, ShareOfPeers

\* No other step is a run of the timer.
LEMMA PeersPassIsRight ==
  ASSUME PeersInv, [MonitorsNext]_monitorVars, Ran("peers")
  PROVE  IF competition'.at # now THEN \E p \in Rivals : obtained'[p] # None /\ ~obtained'[p].fit
         ELSE \A p \in Rivals :
                (\A q \in Rivals \ {p} : Slug[q] # Slug[p]) =>
                  LET row == competition'.rows[p]
                  IN row.data = IF row.ok THEN served[p] ELSE obtained[p]
<1>1. "peers" \in due /\ "peers" \notin due'
  BY DEF Ran
<1>2. CASE /\ UNCHANGED <<now, runs>> /\ due' = due \ {"peers"}
           /\ \E answers \in [Rivals -> {"served", "down"}] : FetchPeers(answers)
  BY <1>1, <1>2, RunIsRight
<1>. QED
  BY <1>1, <1>2, ShareOfPeers DEF PeersInv

\* A peer with a copy of its own keeps its numbers through any outage, and the
\* feed stands still only while something without shape was kept
\* (fetch_peers): for any order of any peers, with any slugs, and any answers.
THEOREM PeersStayNumbered == MonitorsSpec => PeersKeepNumbers
<1>1. PeersInv /\ [MonitorsNext]_monitorVars =>
        [Ran("peers") =>
           IF competition'.at # now THEN \E p \in Rivals : obtained'[p] # None /\ ~obtained'[p].fit
           ELSE \A p \in Rivals :
                  (\A q \in Rivals \ {p} : Slug[q] # Slug[p]) =>
                    LET row == competition'.rows[p]
                    IN row.data = IF row.ok THEN served[p] ELSE obtained[p]]_monitorVars
  BY PeersPassIsRight
<1>2. MonitorsSpec => []PeersInv
  BY InitPeers, StepPeers, PTL DEF MonitorsSpec
<1>. QED
  BY <1>1, <1>2, PTL DEF MonitorsSpec, PeersKeepNumbers

-----------------------------------------------------------------------------
(***************************************************************************)
(* The tokens that rest.                                                   *)
(***************************************************************************)

Refusal == [exp : Nat, at : Nat, times : Nat \ {0}]

\* The poll state of a source has its latest token and how often in a row that
\* was refused, as the history does: none after a success.
PollKnows(s) ==
  IF refused[s] = None
  THEN poll[s] # None =>
         poll[s].fails = 0 /\ poll[s].next = 0 /\ poll[s].exp \in Nat /\ poll[s].exp <= cred[s].exp
  ELSE /\ refused[s] \in Refusal /\ refused[s].exp <= cred[s].exp
       /\ poll[s] # None
       /\ poll[s] = [exp |-> refused[s].exp, fails |-> refused[s].times,
                     next |-> refused[s].at + Backoff(refused[s].times)]

RestInv ==
  /\ now \in Nat /\ due \subseteq runs
  /\ cred \in [Sources -> [exp : Nat, readable : BOOLEAN]]
  /\ \A s \in Sources : cred[s].exp <= now + TokenLife /\ PollKnows(s)

\* The wait doubles, and is never longer than the cap.
LEMMA BackoffIsCapped ==
  ASSUME NEW n \in Nat \ {0}
  PROVE  Backoff(n) \in Int /\ Backoff(n) <= BackoffCap
<1>1. 2 ^ (n - 1) \in Int /\ BackoffBase \in Int /\ BackoffCap \in Int
  BY UsageAssumption
<1>2. BackoffBase * 2 ^ (n - 1) \in Int
  BY <1>1
<1>. QED
  BY <1>1, <1>2 DEF Backoff

\* One of the tokens that would be accepted is asked: there is a first.
LEMMA SomeIsAsked ==
  ASSUME RestInv, NEW box \in Boxes, NEW verdict, Accepted(box, verdict) # {}
  PROVE  \E r \in Accepted(box, verdict) : r \in FetchUsageAny(box, verdict)
<1>. DEFINE A == Accepted(box, verdict)
<1>1. /\ A \in SUBSET Sources /\ A \in SUBSET Files[box] /\ A \in SUBSET Eligible(box)
      /\ now \in Nat /\ TokenLife \in Nat /\ A # {}
      /\ \A s \in A : cred[s].exp \in Nat /\ cred[s].exp <= now + TokenLife
  BY UsageAssumption DEF RestInv, Accepted, Eligible, Sources
<1>2. \A s \in A : Place[s] \in Nat
  BY <1>1, UsageAssumption
<1>. HIDE DEF A
<1>3. PICK p \in A : \A q \in A : cred[q].exp <= cred[p].exp
  <2>. DEFINE ages == {now + TokenLife - cred[s].exp : s \in A}
  <2>1. ages \in SUBSET Nat /\ ages # {}
    <3>1. ASSUME NEW s \in A PROVE now + TokenLife - cred[s].exp \in Nat
      <4>1. cred[s].exp \in Nat /\ cred[s].exp <= now + TokenLife /\ now \in Nat /\ TokenLife \in Nat
        BY <1>1
      <4>. QED
        BY <4>1
    <3>. QED
      BY <1>1, <3>1
  <2>2. PICK m \in ages : \A n \in ages : m <= n
    <3>. HIDE DEF ages
    <3>. QED
      BY <2>1, LeastNumber
  <2>3. PICK p \in A : m = now + TokenLife - cred[p].exp
    BY <2>2
  <2>4. ASSUME NEW q \in A PROVE cred[q].exp <= cred[p].exp
    <3>1. now + TokenLife - cred[p].exp <= now + TokenLife - cred[q].exp
      BY <2>2, <2>3
    <3>. QED
      <4>1. cred[p].exp \in Nat /\ cred[q].exp \in Nat /\ now \in Nat /\ TokenLife \in Nat
        BY <1>1
      <4>. QED
        BY <3>1, <4>1
  <2>. QED
    BY <2>4
<1>4. PICK r \in A : cred[r].exp = cred[p].exp /\ \A q \in A : cred[q].exp = cred[p].exp => Place[r] <= Place[q]
  <2>. DEFINE places == {Place[s] : s \in {q \in A : cred[q].exp = cred[p].exp}}
  <2>1. places \in SUBSET Nat /\ places # {}
    BY <1>2
  <2>2. PICK m \in places : \A n \in places : m <= n
    <3>. HIDE DEF places
    <3>. QED
      BY <2>1, LeastNumber
  <2>. QED
    BY <2>2
<1>5. ASSUME NEW q \in A PROVE ~Before(q, r)
  <2>1. cred[q].exp <= cred[r].exp /\ cred[q].exp \in Nat /\ cred[r].exp \in Nat
    BY <1>1, <1>3, <1>4
  <2>2. cred[q].exp = cred[r].exp => Place[r] <= Place[q] /\ Place[r] \in Nat /\ Place[q] \in Nat
    BY <1>2, <1>4
  <2>. QED
    BY <2>1, <2>2 DEF Before
<1>. QED
  BY <1>1, <1>5 DEF FetchUsageAny, A

\* A run notes every refusal in the poll state.
LEMMA AskKeeps ==
  ASSUME RestInv, NEW box \in Boxes, NEW v \in [Files[box] -> {"ok", "auth", "other"}],
         Ask(box, v), UNCHANGED <<now, cred>>, NEW s \in Sources
  PROVE  PollKnows(s)'
<1>1. PollKnows(s) /\ cred[s].exp \in Nat /\ now \in Nat
  BY DEF RestInv
<1>2. CASE s \in Files[box] /\ ~cred[s].readable
  <2>1. s \notin FetchUsageAny(box, v)
    BY <1>2 DEF FetchUsageAny, Eligible
  <2>2. poll'[s] = None
    BY <1>2, <2>1 DEF Ask, SavePollState
  <2>3. refused'[s] = None
    BY <1>2, <2>1 DEF Ask, Backlog
  <2>. QED
    BY <2>2, <2>3 DEF PollKnows
<1>3. CASE ~(s \in Files[box] /\ ~cred[s].readable) /\ s \notin FetchUsageAny(box, v)
  BY <1>1, <1>3 DEF Ask, SavePollState, Backlog, PollKnows
<1>4. CASE ~(s \in Files[box] /\ ~cred[s].readable) /\ s \in FetchUsageAny(box, v)
  <2>1. poll'[s] = Noted(s, v[s]) /\ v[s] \in {"ok", "auth", "other"}
    BY <1>4 DEF Ask, SavePollState, FetchUsageAny, Eligible
  <2>2. CASE v[s] = "ok"
    <3>1. refused'[s] = None /\ poll'[s] = [exp |-> cred[s].exp, fails |-> 0, next |-> 0]
      BY <1>4, <2>1, <2>2 DEF Ask, Backlog, Noted
    <3>. QED
      BY <1>1, <3>1 DEF PollKnows
  <2>3. CASE v[s] = "other"
    <3>1. refused'[s] = refused[s] /\ poll'[s] = poll[s]
      BY <1>4, <2>1, <2>3 DEF Ask, Backlog, Noted
    <3>. QED
      BY <1>1, <3>1 DEF PollKnows
  <2>4. CASE v[s] = "auth"
    <3>. DEFINE times == IF refused[s] # None /\ refused[s].exp = cred[s].exp
                         THEN refused[s].times + 1 ELSE 1
                fails == IF poll[s] # None /\ cred[s].exp <= poll[s].exp THEN poll[s].fails + 1 ELSE 1
    <3>1. refused'[s] = [exp |-> cred[s].exp, at |-> now, times |-> times]
      BY <1>4, <2>4 DEF Ask, Backlog
    <3>2. poll'[s] = [exp |-> cred[s].exp, fails |-> fails, next |-> now + Backoff(fails)]
      BY <2>1, <2>4 DEF Noted
    <3>3. times = fails /\ times \in Nat \ {0}
      <4>1. CASE refused[s] = None
        BY <1>1, <4>1 DEF PollKnows
      <4>2. CASE refused[s] # None
        BY <1>1, <4>2 DEF PollKnows, Refusal
      <4>. QED
        BY <4>1, <4>2
    <3>. HIDE DEF times, fails
    <3>4. refused'[s] \in Refusal /\ refused'[s] # None
      BY <1>1, <3>1, <3>3, UsageAssumption DEF Refusal
    <3>5. now + Backoff(fails) \in Int
      BY <1>1, <3>3, BackoffIsCapped
    <3>6. poll'[s] # None
      BY <1>1, <3>2, <3>3, <3>5, UsageAssumption
    <3>. QED
      BY <1>1, <3>1, <3>2, <3>3, <3>4, <3>6 DEF PollKnows
  <2>. QED
    BY <2>1, <2>2, <2>3, <2>4
<1>. QED
  BY <1>2, <1>3, <1>4

\* What the parts of a step do to tokens and to the poll state.
LEMMA ShareOfTokens ==
  ASSUME [MonitorsNext]_monitorVars
  PROVE  \/ /\ UNCHANGED <<cred, poll, refused>>
            /\ \/ now' = now + 1 /\ due' = runs /\ UNCHANGED runs
               \/ UNCHANGED <<now, runs>> /\ due' \in SUBSET due /\ Boxes \cap due = Boxes \cap due'
         \/ /\ UNCHANGED <<now, due, runs, poll, refused>>
            /\ \E s \in Sources : Use(s) \/ Hide(s)
         \/ \E box \in Boxes : \E v \in Verdicts(box) :
              Fires(box) /\ Ask(box, v) /\ UNCHANGED cred
<1>1. CASE Works \/ HidesFile
  <2>1. Users \subseteq Sources
    BY DEF Users, Sources
  <2>. QED
    BY <1>1, <2>1 DEF Works, HidesFile, Between, Use, Hide
<1>2. CASE PollsMain \/ PollsMainForgetting \/ DiesPolling
  BY <1>2 DEF PollsMain, PollsMainForgetting, DiesPolling, PollMain, PollKilled, Boxes
<1>3. CASE PollsRemote
  BY <1>3 DEF PollsRemote, PollRemote, Boxes
<1>4. CASE Tick
  BY <1>4 DEF Tick, UsageRests
<1>5. CASE Samples \/ SamplesDuringTurn \/ Competes \/ PollsPeers
  <2>1. /\ OnlyBottleneck \/ OnlyCelebration \/ OnlyPeers
        /\ \E timer \in {"bottleneck", "competitor", "peers"} : Fires(timer)
    BY <1>5 DEF Samples, SamplesDuringTurn, Competes, PollsPeers
  <2>2. \A x \in Boxes : x \notin {"bottleneck", "competitor", "peers"}
    BY MonitorsAssumption
  <2>. QED
    BY <2>1, <2>2 DEF Fires, OnlyBottleneck, OnlyCelebration, OnlyPeers, TheFirstThree, usageVars
<1>6. CASE ~(\/ Works \/ HidesFile \/ PollsMain \/ PollsMainForgetting \/ DiesPolling \/ PollsRemote
             \/ Tick \/ Samples \/ SamplesDuringTurn \/ Competes \/ PollsPeers)
  <2>1. \/ UNCHANGED monitorVars
        \/ UNCHANGED <<now, due, runs>> /\ (OnlyBottleneck \/ OnlyCelebration \/ TheFirstThree)
    BY <1>6
    DEF MonitorsNext, Talks, Leaves, Dies, Boots, Queues, DiesQueueing, Collects, PeersPublish,
        Converses, CompletesLine, Streams, Quits, Measures, Stats, Parses,
        Grows, SyncBegins, Syncs, SyncBreaks, Unlocks, Hops, Reports, Receives, PostBreaks,
        Deploys, Migrates, MigrationBreaks, Between,
        OnlyPeers, OnlySessions, OnlySync, OnlyLimits, OnlyMigration
  <2>. QED
    BY <2>1 DEF OnlyBottleneck, OnlyCelebration, TheFirstThree, monitorVars, usageVars
<1>. QED
  BY <1>1, <1>2, <1>3, <1>4, <1>5, <1>6

\* The invariant holds at first.
LEMMA InitRests == MonitorsInit => RestInv
<1>. SUFFICES ASSUME MonitorsInit PROVE RestInv
  OBVIOUS
<1>1. /\ now = 0 /\ due = runs
      /\ cred = [s \in Sources |-> [exp |-> now + TokenLife, readable |-> TRUE]]
      /\ poll = [s \in Sources |-> None] /\ refused = poll
  BY DEF MonitorsInit, UsageInit
<1>2. TokenLife \in Nat /\ 0 + TokenLife = TokenLife
  BY UsageAssumption
<1>. QED
  BY <1>1, <1>2 DEF RestInv, PollKnows

\* Tokens are refreshed to last longer, and every run notes what it was told.
LEMMA StepRests == RestInv /\ [MonitorsNext]_monitorVars => RestInv'
<1>. SUFFICES ASSUME RestInv, [MonitorsNext]_monitorVars PROVE RestInv'
  OBVIOUS
<1>1. now \in Nat /\ TokenLife \in Nat
  BY UsageAssumption DEF RestInv
<1>2. CASE /\ UNCHANGED <<cred, poll, refused>> /\ now' \in {now, now + 1}
           /\ UNCHANGED runs /\ due' \subseteq runs
  <2>1. ASSUME NEW s \in Sources PROVE cred'[s].exp <= now' + TokenLife /\ PollKnows(s)'
    <3>1. cred[s].exp \in Nat /\ cred[s].exp <= now + TokenLife /\ PollKnows(s)
      BY DEF RestInv
    <3>. QED
      BY <1>1, <1>2, <3>1 DEF PollKnows
  <2>. QED
    BY <1>1, <1>2, <2>1 DEF RestInv
<1>3. CASE /\ UNCHANGED <<now, due, runs, poll, refused>>
           /\ \E s \in Sources : Use(s) \/ Hide(s)
  <2>1. PICK s \in Sources : \/ cred' = [cred EXCEPT ![s].exp = now + TokenLife]
                             \/ cred' = [cred EXCEPT ![s].readable = ~@]
    BY <1>3 DEF Use, Hide
  <2>2. cred \in [Sources -> [exp : Nat, readable : BOOLEAN]] /\ cred[s].exp <= now + TokenLife
    BY DEF RestInv
  <2>3. cred' \in [Sources -> [exp : Nat, readable : BOOLEAN]]
    <3>1. now + TokenLife \in Nat /\ (~cred[s].readable) \in BOOLEAN
      BY <1>1
    <3>. QED
      BY <2>1, <2>2, <3>1
  <2>4. ASSUME NEW t \in Sources
        PROVE  cred[t].exp <= cred'[t].exp /\ cred'[t].exp <= now + TokenLife
    <3>1. cred[t].exp \in Nat /\ cred[t].exp <= now + TokenLife
      BY DEF RestInv
    <3>2. cred'[t].exp \in {cred[t].exp, now + TokenLife}
      BY <2>1, <2>2
    <3>. QED
      BY <1>1, <3>1, <3>2
  <2>5. ASSUME NEW t \in Sources PROVE PollKnows(t)'
    <3>1. PollKnows(t) /\ cred[t].exp \in Nat /\ cred'[t].exp \in Nat /\ cred[t].exp <= cred'[t].exp
      BY <2>3, <2>4 DEF RestInv
    <3>. QED
      BY <1>3, <3>1 DEF PollKnows, Refusal
  <2>. QED
    BY <1>1, <1>3, <2>3, <2>4, <2>5 DEF RestInv
<1>4. CASE \E box \in Boxes : \E v \in Verdicts(box) : Fires(box) /\ Ask(box, v) /\ UNCHANGED cred
  <2>0. PICK box \in Boxes : \E v \in Verdicts(box) : Fires(box) /\ Ask(box, v) /\ UNCHANGED cred
    BY <1>4
  <2>1. PICK v \in Verdicts(box) : Fires(box) /\ Ask(box, v) /\ UNCHANGED cred
    BY <2>0
  <2>2. v \in [Files[box] -> {"ok", "auth", "other"}] /\ UNCHANGED <<now, runs>> /\ due' \subseteq due
    BY <2>1 DEF Verdicts, Fires
  <2>3. \A s \in Sources : PollKnows(s)'
    BY <2>1, <2>2, AskKeeps
  <2>. QED
    BY <2>1, <2>2, <2>3 DEF RestInv
<1>. QED
  BY <1>1, <1>2, <1>3, <1>4, ShareOfTokens DEF RestInv

\* A run of a box leaves alone what the API refused, and nothing else.
LEMMA RunLeavesAlone ==
  ASSUME RestInv, NEW box \in Boxes, NEW v \in Verdicts(box), Ask(box, v), UNCHANGED <<now, cred>>,
         NEW s \in Files[box]
  PROVE  /\ s \in called'.asked /\ refused[s] # None /\ refused[s].exp = cred[s].exp =>
              now - refused[s].at >= Backoff(refused[s].times)
         /\ s \notin called'.asked /\ cred[s].readable /\ cred[s].exp >= now =>
              \/ refused[s] # None /\ refused[s].exp = cred[s].exp
                   /\ now - refused[s].at < BackoffCap
              \/ \E r \in called'.answered : Before(r, s)
<1>1. /\ s \in Sources /\ now \in Nat /\ cred[s].exp \in Nat /\ PollKnows(s)
      /\ called'.asked = FetchUsageAny(box, v)
      /\ called'.answered = FetchUsageAny(box, v) \cap Accepted(box, v)
  BY UsageAssumption DEF RestInv, Sources, Ask
<1>2. ASSUME refused[s] # None
      PROVE  /\ poll[s] # None /\ poll[s].exp = refused[s].exp /\ refused[s].exp \in Nat
             /\ refused[s].exp <= cred[s].exp /\ refused[s].at \in Nat
             /\ poll[s].next = refused[s].at + Backoff(refused[s].times)
             /\ Backoff(refused[s].times) \in Int /\ Backoff(refused[s].times) <= BackoffCap
  <2>1. refused[s] \in Refusal /\ refused[s].times \in Nat \ {0}
    BY <1>1, <1>2 DEF PollKnows, Refusal
  <2>. QED
    BY <1>1, <1>2, <2>1, BackoffIsCapped DEF PollKnows, Refusal
<1>3. ASSUME s \in called'.asked, refused[s] # None, refused[s].exp = cred[s].exp
      PROVE  now - refused[s].at >= Backoff(refused[s].times)
  <2>1. ~BackedOff(poll[s], cred[s].exp)
    BY <1>1, <1>3 DEF FetchUsageAny, Eligible
  <2>. QED
    BY <1>1, <1>2, <1>3, <2>1 DEF BackedOff
<1>4. ASSUME s \notin called'.asked, cred[s].readable, cred[s].exp >= now
      PROVE  \/ refused[s] # None /\ refused[s].exp = cred[s].exp
                  /\ now - refused[s].at < BackoffCap
             \/ \E r \in called'.answered : Before(r, s)
  <2>1. CASE s \in Eligible(box)
    <3>1. PICK q \in Accepted(box, v) : Before(q, s)
      BY <1>1, <1>4, <2>1 DEF FetchUsageAny
    <3>2. PICK r \in Accepted(box, v) : r \in FetchUsageAny(box, v)
      BY <3>1, SomeIsAsked
    <3>3. ~Before(q, r)
      BY <3>1, <3>2 DEF FetchUsageAny
    <3>4. /\ q \in Files[box] /\ r \in Files[box] /\ {q, r, s} \subseteq Sources
          /\ q # r => Place[q] # Place[r]
      <4>1. q \in Files[box] /\ r \in Files[box]
        BY <3>1, <3>2 DEF Accepted, Eligible
      <4>2. \A x, y \in Files[box] : x # y => Place[x] # Place[y]
        BY UsageAssumption
      <4>3. q \in Sources /\ r \in Sources
        BY <4>1 DEF Sources
      <4>. QED
        BY <1>1, <4>1, <4>2, <4>3
    <3>5. \A x \in {q, r, s} : cred[x].exp \in Nat /\ Place[x] \in Nat
      BY <3>4, UsageAssumption DEF RestInv
    <3>6. Before(r, s)
      BY <3>1, <3>3, <3>4, <3>5 DEF Before
    <3>. QED
      BY <1>1, <3>2, <3>6
  <2>2. CASE s \notin Eligible(box)
    <3>1. ~Expired(cred[s].exp)
      <4>1. Skew \in Nat
        BY UsageAssumption
      <4>. QED
        BY <1>1, <1>4, <4>1 DEF Expired
    <3>2. BackedOff(poll[s], cred[s].exp)
      BY <1>4, <2>2, <3>1 DEF Eligible
    <3>3. refused[s] # None
      BY <1>1, <3>2 DEF BackedOff, PollKnows
    <3>4. now < refused[s].at + Backoff(refused[s].times) /\ cred[s].exp <= refused[s].exp
      BY <1>2, <3>2, <3>3 DEF BackedOff
    <3>5. BackoffCap \in Nat
      BY UsageAssumption
    <3>. QED
      BY <1>1, <1>2, <3>3, <3>4, <3>5
  <2>. QED
    BY <2>1, <2>2
<1>. QED
  BY <1>3, <1>4

\* A token the API refused rests, longer every time and never longer than the
\* cap, and one that Claude Code refreshed is tried in the next run that needs
\* one (usage-monitor.py, fetch_usage_any): for any boxes, files, backoffs and
\* verdicts, files that could not be read and runs that were killed.
THEOREM TokensRest == MonitorsSpec => DeadTokenRests
<1>1. ASSUME RestInv, [MonitorsNext]_monitorVars, NEW box \in Boxes, Ran(box)
      PROVE  \E v \in Verdicts(box) : Ask(box, v) /\ UNCHANGED <<now, cred>>
  <2>1. box \in due /\ box \notin due' /\ due \subseteq runs
    BY <1>1 DEF Ran, RestInv
  <2>2. PICK x \in Boxes : \E v \in Verdicts(x) : Fires(x) /\ Ask(x, v) /\ UNCHANGED cred
    BY <1>1, <2>1, ShareOfTokens
  <2>3. x = box /\ UNCHANGED now
    BY <2>1, <2>2 DEF Fires
  <2>. QED
    BY <2>2, <2>3
<1>2. RestInv /\ [MonitorsNext]_monitorVars =>
        [\A box \in Boxes : Ran(box) =>
           \A s \in Files[box] :
             /\ s \in called'.asked /\ refused[s] # None /\ refused[s].exp = cred[s].exp =>
                  now - refused[s].at >= Backoff(refused[s].times)
             /\ s \notin called'.asked /\ cred[s].readable /\ cred[s].exp >= now =>
                  \/ refused[s] # None /\ refused[s].exp = cred[s].exp
                       /\ now - refused[s].at < BackoffCap
                  \/ \E r \in called'.answered : Before(r, s)]_monitorVars
  BY <1>1, RunLeavesAlone
<1>3. MonitorsSpec => []RestInv
  BY InitRests, StepRests, PTL DEF MonitorsSpec
<1>. QED
  BY <1>2, <1>3, PTL DEF MonitorsSpec, DeadTokenRests

-----------------------------------------------------------------------------
(***************************************************************************)
(* The celebrations.  First the windows that got hot: what the usage       *)
(* monitor counts of them.                                                 *)
(***************************************************************************)

\* The key of a window that resets at n, and the keys of some windows.
KeyOf(n) == (TickSeconds * n + 150) \div 300
KeysOf(S) == {KeyOf(n) : n \in S}

\* A window that a reading shows as hot was pushed there, give or take the
\* jitter of the answer.
IsPushed(b, w) ==
  b # None /\ b.util >= Hot /\ b.resets # None => b.resets \in pushed[w] /\ b.jitter \in Jitters

AllPushed(r) == \A w \in Windows : IsPushed(r.windows[w], w)

\* What was written down of hot windows, wherever, is of windows that got hot.
PushedInv ==
  /\ \A w \in Windows : pushed[w] \in SUBSET Nat /\ IsFiniteSet(pushed[w])
  /\ \A w \in Windows : hits[w] \subseteq KeysOf(pushed[w])
  /\ \A w \in Windows :
       account[w].resets # None /\ account[w].util >= Hot => account[w].resets \in pushed[w]
  /\ \A x \in Boxes : out[x] # None => AllPushed(out[x])
  /\ \A r \in Remotes : zone[r] # None => AllPushed(zone[r])
  /\ out[Main] # None =>
       /\ out[Main].hits["session"] \in Nat
       /\ out[Main].hits["session"] <= Cardinality(pushed["session"])

\* The rounding of _window_key collapses the jitter, whenever the window resets:
\* every three hundred ticks the roundings are the same.
LEMMA JitterCollapses ==
  ASSUME NEW n \in Nat, NEW jitter \in Jitters
  PROVE  (TickSeconds * n + jitter + 150) \div 300 = KeyOf(n)
<1>. PICK q, m : q = n \div 300 /\ m = n % 300
  OBVIOUS
<1>1. q \in Nat /\ m \in 0 .. 299 /\ n = 300 * q + m
  OBVIOUS
<1>2. TickSeconds \in Nat /\ jitter \in Int
  BY UsageAssumption
<1>. PICK k, a : k = TickSeconds * q /\ a = TickSeconds * m
  OBVIOUS
<1>3. k \in Int /\ a \in Int /\ TickSeconds * n = 300 * k + a
  <2>1. TickSeconds * (300 * q + m) = 300 * (TickSeconds * q) + TickSeconds * m
    BY <1>1, <1>2
  <2>2. TickSeconds * q \in Int /\ TickSeconds * m \in Int
    BY <1>1, <1>2
  <2>. QED
    BY <1>1, <2>1, <2>2
<1>4. (a + jitter + 150) \div 300 = (a + 150) \div 300
  <2>1. \A x \in 0 .. 299, j \in Jitters :
          (TickSeconds * x + j + 150) \div 300 = (TickSeconds * x + 150) \div 300
    BY UsageAssumption
  <2>. QED
    BY <1>1, <2>1
<1>5. /\ (300 * k + a + jitter + 150) \div 300 = k + (a + jitter + 150) \div 300
      /\ (300 * k + a + 150) \div 300 = k + (a + 150) \div 300
  BY <1>2, <1>3
<1>. QED
  BY <1>3, <1>4, <1>5 DEF KeyOf

\* There are no more keys than windows, and more windows have no fewer.
LEMMA KeysAreFew ==
  ASSUME NEW S, IsFiniteSet(S), NEW H, H \subseteq KeysOf(S)
  PROVE  IsFiniteSet(H) /\ Cardinality(H) \in Nat /\ Cardinality(H) <= Cardinality(S)
<1>. DEFINE f == [n \in S |-> KeyOf(n)]
<1>1. KeysOf(S) = {f[n] : n \in S}
  BY DEF KeysOf
<1>. HIDE DEF f
<1>2. IsFiniteSet(KeysOf(S)) /\ Cardinality(KeysOf(S)) <= Cardinality(S)
  BY <1>1, FiniteImage
<1>3. /\ IsFiniteSet(H) /\ Cardinality(H) <= Cardinality(KeysOf(S))
      /\ Cardinality(H) \in Nat /\ Cardinality(KeysOf(S)) \in Nat /\ Cardinality(S) \in Nat
  BY <1>2, FS_Subset, FS_CardinalityType
<1>. QED
  BY <1>2, <1>3

\* What is built of the account is of windows that got hot.
LEMMA BuiltIsPushed ==
  ASSUME UsageInv, PushedInv, NEW box, NEW jitter \in Jitters
  PROVE  AllPushed(BuildPayload(box, jitter))
<1>. SUFFICES ASSUME NEW w \in Windows PROVE IsPushed(BuildPayload(box, jitter).windows[w], w)
  BY DEF AllPushed
<1>. PICK b : b = BuildPayload(box, jitter).windows[w]
  OBVIOUS
<1>1. /\ b.util = Truth(w).util /\ b.resets = Truth(w).resets
      /\ b.resets # None => b.jitter = jitter
  BY DEF BuildPayload
<1>2. Truth(w) \in {[util |-> 0, resets |-> None], account[w]}
  BY DEF Truth
<1>3. account[w].resets # None /\ account[w].util >= Hot => account[w].resets \in pushed[w]
  BY DEF PushedInv
<1>. QED
  BY <1>1, <1>2, <1>3 DEF IsPushed

\* What is held was.
LEMMA HeldIsPushed ==
  ASSUME NEW prev, prev # None => AllPushed(prev), NEW box
  PROVE  AllPushed(StalePayload(prev, box))
<1>. SUFFICES ASSUME NEW w \in Windows PROVE IsPushed(StalePayload(prev, box).windows[w], w)
  BY DEF AllPushed
<1>. PICK b : b = StalePayload(prev, box).windows[w]
  OBVIOUS
<1>1. b \in {None, Zeroed} \/ (prev # None /\ b = prev.windows[w])
  BY DEF StalePayload, Held
<1>. QED
  BY <1>1 DEF IsPushed, AllPushed, Zeroed

\* What a run reads, on its own or from a remote, is.
LEMMA LocalIsPushed ==
  ASSUME UsageInv, PushedInv, NEW box \in Boxes, NEW verdict, NEW jitter \in Jitters
  PROVE  AllPushed(Local(box, verdict, jitter))
<1>1. out[box] # None => AllPushed(out[box])
  BY DEF PushedInv
<1>. QED
  BY <1>1, BuiltIsPushed, HeldIsPushed DEF Local

\* A run of the main server counts windows that got hot, each once.
LEMMA MainPushes ==
  ASSUME UsageInv, PushedInv, NEW verdict, NEW jitter \in Jitters,
         NEW stored \in {hits, [w \in Windows |-> {}]}, PollMain(verdict, jitter, stored)
  PROVE  PushedInv'
<1>. DEFINE local == Local(Main, verdict, jitter)
            p == MergeRemote(local)
            new == UpdateHits(p, stored)
<1>1. AllPushed(local)
  BY LocalIsPushed DEF Boxes
<1>2. AllPushed(p) /\ DOMAIN p = {"stale", "taken", "server", "asOf", "windows", "hits"}
  <2>1. IsLimits(local, now, uses, account) /\ local.taken = now
    BY LocalIsTrue DEF Boxes
  <2>. HIDE DEF local
  <2>2. IsLimits(p, now, uses, account) /\ (p = local \/ \E r \in Remotes : zone[r] # None /\ p = zone[r])
    BY <2>1, MergedIsFresh
  <2>. QED
    BY <1>1, <2>2 DEF PushedInv, IsLimits
<1>3. \/ out' = [out EXCEPT ![Main] = CarriedOver(p, out[Main])] /\ hits' = hits
      \/ out' = [out EXCEPT ![Main] = Counted(p, stored)] /\ hits' = new
  BY DEF PollMain
<1>4. UNCHANGED <<account, zone, pushed>> /\ DOMAIN out = Boxes /\ Main \in Boxes
  BY DEF PollMain, UsageInv, AccountTypeOK, Boxes
<1>. HIDE DEF p
<1>5. \A w \in Windows : new[w] \subseteq KeysOf(pushed[w])
  <2>. SUFFICES ASSUME NEW w \in Windows PROVE new[w] \subseteq KeysOf(pushed[w])
    OBVIOUS
  <2>. PICK b : b = p.windows[w]
    OBVIOUS
  <2>1. new[w] = stored[w] \cup
          (IF b # None /\ b.util >= Hot /\ b.resets # None THEN {WindowKey(b)} ELSE {})
    BY DEF UpdateHits
  <2>2. stored[w] \subseteq KeysOf(pushed[w])
    BY DEF PushedInv
  <2>3. ASSUME b # None, b.util >= Hot, b.resets # None
        PROVE  WindowKey(b) \in KeysOf(pushed[w])
    <3>1. b.resets \in pushed[w] /\ b.jitter \in Jitters
      BY <1>2, <2>3 DEF AllPushed, IsPushed
    <3>2. b.resets \in Nat
      BY <3>1 DEF PushedInv
    <3>. QED
      BY <3>1, <3>2, JitterCollapses DEF WindowKey, KeysOf
  <2>. QED
    BY <2>1, <2>2, <2>3
<1>. PICK n : n = IF hits' = new THEN Cardinality(new["session"]) ELSE IF out[Main] = None THEN 0 ELSE out[Main].hits["session"]
  OBVIOUS
<1>6. PICK q, h : q = [p EXCEPT !.hits = h] /\ out' = [out EXCEPT ![Main] = q]
                  /\ h["session"] \in Nat /\ h["session"] <= Cardinality(pushed["session"])
  <2>1. CASE out' = [out EXCEPT ![Main] = CarriedOver(p, out[Main])]
    <3>. PICK h : h = IF out[Main] = None THEN [w \in Windows |-> 0] ELSE out[Main].hits
      OBVIOUS
    <3>1. CarriedOver(p, out[Main]) = [p EXCEPT !.hits = h]
      BY DEF CarriedOver
    <3>2. Cardinality(pushed["session"]) \in Nat /\ "session" \in Windows
      BY MonitorsAssumption, FS_CardinalityType DEF PushedInv
    <3>3. h["session"] \in Nat /\ h["session"] <= Cardinality(pushed["session"])
      BY <3>2 DEF PushedInv
    <3>. QED
      BY <2>1, <3>1, <3>3
  <2>2. CASE out' = [out EXCEPT ![Main] = Counted(p, stored)]
    <3>. PICK h : h = [w \in Windows |-> Cardinality(new[w])]
      OBVIOUS
    <3>1. Counted(p, stored) = [p EXCEPT !.hits = h]
      BY DEF Counted
    <3>2. "session" \in Windows /\ IsFiniteSet(pushed["session"])
      BY MonitorsAssumption DEF PushedInv
    <3>3. h["session"] = Cardinality(new["session"]) /\ new["session"] \subseteq KeysOf(pushed["session"])
      BY <1>5, <3>2
    <3>4. h["session"] \in Nat /\ h["session"] <= Cardinality(pushed["session"])
      BY <3>2, <3>3, KeysAreFew
    <3>. QED
      BY <2>2, <3>1, <3>4
  <2>. QED
    BY <1>3, <2>1, <2>2
<1>7. AllPushed(q) /\ q.hits = h
  <2>1. q.windows = p.windows /\ q.hits = h
    BY <1>2, <1>6
  <2>. QED
    BY <1>2, <2>1 DEF AllPushed
<1>8. out'[Main] = q /\ \A x \in Boxes \ {Main} : out'[x] = out[x]
  BY <1>4, <1>6
<1>9. hits' = hits \/ hits' = new
  BY <1>3
<1>10. \A w \in Windows : hits'[w] \subseteq KeysOf(pushed[w])
  BY <1>5, <1>9 DEF PushedInv
<1>. QED
  BY <1>4, <1>6, <1>7, <1>8, <1>10 DEF PushedInv, AllPushed, IsPushed

\* A remote's run changes no count.
LEMMA RemotePushes ==
  ASSUME UsageInv, PushedInv, NEW r \in Remotes, NEW verdict, NEW upload \in {"ok", "lost", "cut"},
         PollRemote(r, verdict, 0, upload)
  PROVE  PushedInv'
<1>1. UNCHANGED <<account, hits, pushed>>
  BY DEF PollRemote
<1>2. PICK p : p = Local(r, verdict, 0)
  OBVIOUS
<1>3. AllPushed(p)
  BY <1>2, LocalIsPushed, UsageAssumption DEF Boxes
<1>4. out' = [out EXCEPT ![r] = p] /\ DOMAIN out = Boxes /\ DOMAIN zone = Remotes
  BY <1>2 DEF PollRemote, UsageInv, AccountTypeOK
<1>5. out'[r] = p /\ \A x \in Boxes \ {r} : out'[x] = out[x]
  BY <1>4 DEF Boxes
<1>6. zone' \in {zone, [zone EXCEPT ![r] = p], [zone EXCEPT ![r] = None]}
  BY <1>5 DEF PollRemote
<1>7. \A x \in Remotes : zone'[x] \in {zone[x], p, None}
  BY <1>4, <1>6
<1>8. out'[Main] = out[Main]
  BY <1>5, UsageAssumption DEF Boxes
<1>. QED
  BY <1>1, <1>3, <1>5, <1>7, <1>8 DEF PushedInv, AllPushed, IsPushed

\* Only use pushes windows, and what was pushed stays so.
LEMMA UsePushes ==
  ASSUME UsageInv, PushedInv, NEW s, Use(s)
  PROVE  PushedInv' /\ \A w \in Windows : pushed[w] \subseteq pushed'[w]
<1>1. UNCHANGED <<out, zone, hits>>
  BY DEF Use
<1>2. ASSUME NEW w \in Windows
      PROVE  /\ pushed'[w] \in SUBSET Nat /\ IsFiniteSet(pushed'[w]) /\ pushed[w] \subseteq pushed'[w]
             /\ account'[w].resets # None /\ account'[w].util >= Hot => account'[w].resets \in pushed'[w]
  <2>. PICK a, r, u : a = account'[w] /\ r = a.resets /\ u = a.util
    OBVIOUS
  <2>1. /\ u = IF Truth(w).util < Hot THEN Truth(w).util + 1 ELSE Hot
        /\ r = IF Truth(w).resets = None THEN now + Length[w] ELSE Truth(w).resets
        /\ pushed'[w] = pushed[w] \cup {x \in {r} : u = Hot}
    BY DEF Use
  <2>2. Truth(w).resets \in Nat \cup {None} /\ Truth(w).util \in Nat
    <3>1. account[w] \in [util : Nat, resets : Nat \cup {None}]
      BY DEF UsageInv, AccountTypeOK
    <3>. QED
      BY <3>1 DEF Truth
  <2>3. r \in Nat
    <3>1. now + Length[w] \in Nat
      BY UsageAssumption DEF UsageInv, AccountTypeOK
    <3>. QED
      BY <2>1, <2>2, <3>1
  <2>4. u >= Hot => u = Hot
    BY <2>1, <2>2 DEF Hot
  <2>5. pushed'[w] \in {pushed[w], pushed[w] \cup {r}} /\ (u = Hot => r \in pushed'[w])
    BY <2>1
  <2>6. IsFiniteSet(pushed[w]) /\ pushed[w] \in SUBSET Nat
    BY DEF PushedInv
  <2>7. IsFiniteSet(pushed[w] \cup {r})
    BY <2>6, FS_AddElement
  <2>. QED
    BY <2>3, <2>4, <2>5, <2>6, <2>7
<1>3. \A w \in Windows : KeysOf(pushed[w]) \subseteq KeysOf(pushed'[w])
  BY <1>2 DEF KeysOf
<1>6. Cardinality(pushed["session"]) <= Cardinality(pushed'["session"])
      /\ Cardinality(pushed["session"]) \in Nat /\ Cardinality(pushed'["session"]) \in Nat
  <2>1. "session" \in Windows
    BY MonitorsAssumption
  <2>2. IsFiniteSet(pushed'["session"]) /\ pushed["session"] \subseteq pushed'["session"]
    BY <1>2, <2>1
  <2>. QED
    BY <2>2, FS_Subset, FS_CardinalityType
<1>7. \A w \in Windows : hits'[w] \subseteq KeysOf(pushed'[w])
  BY <1>1, <1>3 DEF PushedInv
<1>8. /\ \A x \in Boxes : (out[x] # None => AllPushed(out[x]))'
      /\ \A x \in Remotes : (zone[x] # None => AllPushed(zone[x]))'
  BY <1>1, <1>2 DEF PushedInv, AllPushed, IsPushed
<1>9. out'[Main] # None => out'[Main].hits["session"] \in Nat
                           /\ out'[Main].hits["session"] <= Cardinality(pushed'["session"])
  BY <1>1, <1>6 DEF PushedInv
<1>. QED
  BY <1>2, <1>7, <1>8, <1>9 DEF PushedInv

\* What the parts of a step do to what is counted of hot windows.
LEMMA ShareOfHits ==
  ASSUME [MonitorsNext]_monitorVars
  PROVE  \/ UNCHANGED <<account, out, zone, hits, pushed>>
         \/ \E s \in Users : Use(s)
         \/ \E verdict, jitter : \E stored \in {hits, [w \in Windows |-> {}]} :
              jitter \in Jitters /\ PollMain(verdict, jitter, stored)
         \/ \E r \in Remotes, upload \in {"ok", "lost", "cut"} :
              \E verdict : PollRemote(r, verdict, 0, upload)
<1>1. CASE Works
  BY <1>1 DEF Works
<1>2. CASE PollsMain
  BY <1>2 DEF PollsMain
<1>3. CASE PollsMainForgetting
  BY <1>3, UsageAssumption DEF PollsMainForgetting
<1>4. CASE PollsRemote
  <2>1. PICK r \in Remotes, upload \in {"ok", "lost", "cut"} :
          \E v \in Verdicts(r) : Fires(r) /\ PollRemote(r, v, 0, upload)
    BY <1>4 DEF PollsRemote
  <2>. QED
    BY <2>1
<1>5. CASE HidesFile \/ DiesPolling \/ Tick
  BY <1>5 DEF HidesFile, Hide, DiesPolling, PollKilled, Tick, UsageRests
<1>6. CASE ~(Works \/ PollsMain \/ PollsMainForgetting \/ PollsRemote \/ HidesFile \/ DiesPolling \/ Tick)
  <2>1. UNCHANGED monitorVars \/ OnlyBottleneck \/ OnlyCelebration \/ TheFirstThree
    BY <1>6
    DEF MonitorsNext, Talks, Leaves, Samples, SamplesDuringTurn, Dies, Boots,
        Competes, Queues, DiesQueueing, Collects, PeersPublish, PollsPeers,
        Converses, CompletesLine, Streams, Quits, Measures, Stats, Parses,
        Grows, SyncBegins, Syncs, SyncBreaks, Unlocks, Hops, Reports, Receives, PostBreaks,
        Deploys, Migrates, MigrationBreaks,
        OnlyPeers, OnlySessions, OnlySync, OnlyLimits, OnlyMigration
  <2>. QED
    BY <2>1 DEF OnlyBottleneck, OnlyCelebration, TheFirstThree, monitorVars, usageVars
<1>. QED
  BY <1>1, <1>2, <1>3, <1>4, <1>5, <1>6

\* Nothing is pushed at first.
LEMMA InitPushed == UsageInit => PushedInv
<1>. SUFFICES ASSUME UsageInit PROVE PushedInv
  OBVIOUS
<1>1. \A w \in Windows : pushed[w] = {} /\ hits[w] = {} /\ account[w].resets = None
  BY DEF UsageInit
<1>2. out[Main] = None /\ (\A x \in Boxes : out[x] = None) /\ \A r \in Remotes : zone[r] = None
  BY DEF UsageInit, Boxes
<1>. QED
  BY <1>1, <1>2, FS_EmptySet DEF PushedInv

\* Every step keeps what is counted of windows that got hot, and no window is
\* ever less.
LEMMA StepPushed ==
  ASSUME UsageInv, PushedInv, [MonitorsNext]_monitorVars
  PROVE  PushedInv' /\ \A w \in Windows : pushed[w] \subseteq pushed'[w]
<1>1. CASE UNCHANGED <<account, out, zone, hits, pushed>>
  BY <1>1 DEF PushedInv, AllPushed, IsPushed
<1>2. CASE \E s \in Users : Use(s)
  BY <1>2, UsePushes
<1>3. CASE \E verdict, jitter : \E stored \in {hits, [w \in Windows |-> {}]} :
             jitter \in Jitters /\ PollMain(verdict, jitter, stored)
  <2>1. PushedInv'
    BY <1>3, MainPushes
  <2>2. UNCHANGED pushed
    BY <1>3 DEF PollMain
  <2>. QED
    BY <2>1, <2>2
<1>4. CASE \E r \in Remotes, upload \in {"ok", "lost", "cut"} :
             \E verdict : PollRemote(r, verdict, 0, upload)
  <2>1. PushedInv'
    BY <1>4, RemotePushes
  <2>2. UNCHANGED pushed
    BY <1>4 DEF PollRemote
  <2>. QED
    BY <2>1, <2>2
<1>. QED
  BY <1>1, <1>2, <1>3, <1>4, ShareOfHits

\* What a family or a record is worth, of the rows, and of so many windows
\* that got hot and so much time in the bank.
Worth(key, rs, pushes, banked) ==
  CASE key \in {"relentless", "streak"} -> StreakOf(ActiveDays(rs))
    [] key = "grinder"    -> Cardinality(AllMinutes(rs))
    [] key \in {"marathon", "endurance"} -> Most({EnduranceOf(r) : r \in rs})
    [] key = "owl"        -> Cardinality({t \in AllMinutes(rs) : t % DayMinutes < NightMinutes})
    [] key = "sesspush"   -> pushes
    [] key = "bottleneck" -> banked
    [] key = "dayActive"  -> Busiest(AllMinutes(rs))

Pushes == Cardinality(pushed["session"])

\* It is what the property calls the true value.
LEMMA TrueValueIs ==
  \A key : TrueValue(key) = Worth(key, rows, Pushes, BankTotal)
  BY DEF TrueValue, Worth, Pushes, Most, Busiest, OnDay

\* What a celebration can be for.
Feats == {"relentless", "grinder", "owl", "sesspush", "bottleneck", "marathon",
          "streak", "dayActive", "endurance"}

\* How long the sessions lasted, by their timelines and by the definition.
LEMMA EnduranceIsFinite ==
  ASSUME NEW rs, AreRows(rs)
  PROVE  /\ {EnduranceOf(r) : r \in rs} \in SUBSET Nat /\ IsFiniteSet({EnduranceOf(r) : r \in rs})
         /\ {Timeline(r).longest : r \in rs} \in SUBSET Nat
         /\ IsFiniteSet({Timeline(r).longest : r \in rs})
         /\ \A r \in rs : Timeline(r).longest <= EnduranceOf(r)
<1>. DEFINE f == [r \in rs |-> EnduranceOf(r)]
            g == [r \in rs |-> Timeline(r).longest]
<1>1. IsFiniteSet(rs) /\ \A r \in rs : IsRow(r)
  BY DEF AreRows
<1>2. {EnduranceOf(r) : r \in rs} = {f[r] : r \in rs} /\ {Timeline(r).longest : r \in rs} = {g[r] : r \in rs}
  OBVIOUS
<1>. HIDE DEF f, g
<1>3. IsFiniteSet({f[r] : r \in rs})
  BY <1>1, FiniteImage
<1>4. IsFiniteSet({g[r] : r \in rs})
  BY <1>1, FiniteImage
<1>5. ASSUME NEW r \in rs
      PROVE  EnduranceOf(r) \in Nat /\ Timeline(r).longest \in Nat /\ Timeline(r).longest <= EnduranceOf(r)
  <2>1. IsRow(r)
    BY <1>1
  <2>2. EnduranceOf(r) \in Nat
    BY <2>1, EnduranceIsMost
  <2>3. PICK T : T = Timeline(r)
    OBVIOUS
  <2>4. T.longest = EnduranceOf(r)
    BY <2>1, <2>3, TimelineIsRight
  <2>. QED
    BY <2>2, <2>3, <2>4
<1>. QED
  BY <1>2, <1>3, <1>4, <1>5

\* More rows, more windows and more time are not worth less.
LEMMA WorthGrows ==
  ASSUME NEW key \in Feats, NEW rs, NEW rs2, AreRows(rs), AreRows(rs2), rs \subseteq rs2,
         NEW p \in Nat, NEW p2 \in Nat, p <= p2, NEW b \in Nat, NEW b2 \in Nat, b <= b2
  PROVE  Worth(key, rs, p, b) \in Nat /\ Worth(key, rs, p, b) <= Worth(key, rs2, p2, b2)
<1>. PICK M, N : M = AllMinutes(rs) /\ N = AllMinutes(rs2)
  OBVIOUS
<1>1. IsFiniteSet(N) /\ M \in SUBSET N
  BY RowsAreFinite DEF AllMinutes
<1>2. Cardinality(M) \in Nat /\ Cardinality(M) <= Cardinality(N)
  BY <1>1, MoreMinutes
<1>3. Busiest(M) \in Nat /\ Busiest(M) <= Busiest(N)
  BY <1>1, BusiestGrows
<1>4. StreakOf(ActiveDays(rs)) \in Nat /\ StreakOf(ActiveDays(rs)) <= StreakOf(ActiveDays(rs2))
  <2>1. ActiveDays(rs) \in SUBSET ActiveDays(rs2)
    BY DEF ActiveDays
  <2>. QED
    BY <2>1, RowsAreFinite, StreakOfGrows
<1>5. /\ Cardinality({t \in M : t % DayMinutes < NightMinutes}) \in Nat
      /\ Cardinality({t \in M : t % DayMinutes < NightMinutes})
           <= Cardinality({t \in N : t % DayMinutes < NightMinutes})
  <2>. PICK A, B : /\ A = {t \in M : t % DayMinutes < NightMinutes}
                   /\ B = {t \in N : t % DayMinutes < NightMinutes}
    OBVIOUS
  <2>1. A \in SUBSET B /\ B \in SUBSET N
    BY <1>1
  <2>2. IsFiniteSet(B)
    BY <1>1, <2>1, FS_Subset
  <2>. QED
    BY <2>1, <2>2, MoreMinutes
<1>6. /\ Most({EnduranceOf(r) : r \in rs}) \in Nat
      /\ Most({EnduranceOf(r) : r \in rs}) <= Most({EnduranceOf(r) : r \in rs2})
  <2>. PICK A, B : A = {EnduranceOf(r) : r \in rs} /\ B = {EnduranceOf(r) : r \in rs2}
    OBVIOUS
  <2>1. A \in SUBSET Nat /\ B \in SUBSET Nat /\ IsFiniteSet(A) /\ IsFiniteSet(B)
    BY EnduranceIsFinite
  <2>2. \A a \in A : \E c \in B : a <= c
    <3>1. \A a \in A : a \in B /\ a \in Nat
      BY <2>1
    <3>. QED
      BY <3>1
  <2>. QED
    BY <2>1, <2>2, MostGrows
<1>. QED
  BY <1>2, <1>3, <1>4, <1>5, <1>6 DEF Worth, Feats

\* What a run measures is never more than what is so.
LEMMA MeasuredIsRight ==
  ASSUME AreRows(rows), Pushes \in Nat, BankTotal \in Nat,
         NEW h \in Nat, h <= Pushes, NEW b \in Nat, b <= BankTotal, NEW m, m = Measured(h, b)
  PROVE  /\ \A f \in Families : TrophyValue(f, m) \in Nat /\ TrophyValue(f, m) <= TrueValue(f)
         /\ \A k \in Records : RecordValue(k, m) \in Nat /\ RecordValue(k, m) <= TrueValue(k)
<1>. PICK M, U : M = AllMinutes(rows) /\ U = Combined(rows)
  OBVIOUS
<1>1. M \in SUBSET Nat /\ IsFiniteSet(M) /\ ActiveDays(rows) \in SUBSET Nat /\ IsFiniteSet(ActiveDays(rows))
  BY RowsAreFinite
<1>2. CountsOnce(U, M)
  BY CombinedIsRight
<1>3. /\ m.streak = LongestStreak(ActiveDays(rows)) /\ m.active = U.total /\ m.night = U.night
      /\ m.pushed = h /\ m.waited = b
      /\ m.busiest = SetMax({0} \cup {U.daily[d] : d \in DOMAIN U.daily})
      /\ m.endurance = Most({Timeline(r).longest : r \in rows})
  BY DEF Measured, Most
<1>4. m.streak \in Nat /\ m.streak = StreakOf(ActiveDays(rows))
  BY <1>1, <1>3, StreakIsRight
<1>5. m.active = Cardinality(M) /\ m.active \in Nat
  BY <1>1, <1>2, <1>3, FS_CardinalityType DEF CountsOnce
<1>6. m.night = Cardinality({t \in M : t % DayMinutes < NightMinutes}) /\ m.night \in Nat
  <2>. PICK A : A = {t \in M : t % DayMinutes < NightMinutes}
    OBVIOUS
  <2>1. m.night = Cardinality(A) /\ A \in SUBSET M
    BY <1>2, <1>3 DEF CountsOnce
  <2>. QED
    BY <1>1, <2>1, MoreMinutes
<1>7. m.busiest = Busiest(M) /\ m.busiest \in Nat
  <2>0. /\ DOMAIN U.daily = {DayOf(t) : t \in M}
        /\ \A d \in DOMAIN U.daily : U.daily[d] = Cardinality(OnDay(M, d))
    BY <1>2 DEF CountsOnce, OnDay
  <2>1. {U.daily[d] : d \in DOMAIN U.daily} = {Cardinality(OnDay(M, d)) : d \in {DayOf(t) : t \in M}}
    BY <2>0
  <2>2. m.busiest = Busiest(M)
    BY <1>3, <2>1 DEF Busiest, Most
  <2>3. Busiest(M) \in Nat
    BY <1>1, BusiestGrows
  <2>. QED
    BY <2>2, <2>3
<1>8. m.endurance \in Nat /\ m.endurance <= Most({EnduranceOf(r) : r \in rows})
  <2>. PICK A, B : A = {Timeline(r).longest : r \in rows} /\ B = {EnduranceOf(r) : r \in rows}
    OBVIOUS
  <2>1. A \in SUBSET Nat /\ B \in SUBSET Nat /\ IsFiniteSet(A) /\ IsFiniteSet(B)
        /\ \A r \in rows : Timeline(r).longest <= EnduranceOf(r)
    BY EnduranceIsFinite
  <2>2. \A a \in A : \E c \in B : a <= c
    BY <2>1
  <2>3. Most(A) \in Nat /\ Most(A) <= Most(B)
    BY <2>1, <2>2, MostGrows
  <2>. QED
    BY <1>3, <2>3
<1>9. Worth("relentless", rows, Pushes, BankTotal) = StreakOf(ActiveDays(rows))
      /\ Worth("streak", rows, Pushes, BankTotal) = StreakOf(ActiveDays(rows))
      /\ Worth("grinder", rows, Pushes, BankTotal) = Cardinality(M)
      /\ Worth("marathon", rows, Pushes, BankTotal) = Most({EnduranceOf(r) : r \in rows})
      /\ Worth("endurance", rows, Pushes, BankTotal) = Most({EnduranceOf(r) : r \in rows})
      /\ Worth("owl", rows, Pushes, BankTotal) = Cardinality({t \in M : t % DayMinutes < NightMinutes})
      /\ Worth("sesspush", rows, Pushes, BankTotal) = Pushes
      /\ Worth("bottleneck", rows, Pushes, BankTotal) = BankTotal
      /\ Worth("dayActive", rows, Pushes, BankTotal) = Busiest(M)
  BY DEF Worth
<1>10. ASSUME NEW f \in Families PROVE TrophyValue(f, m) \in Nat /\ TrophyValue(f, m) <= TrueValue(f)
  <2>1. f \in {"relentless", "grinder", "owl", "sesspush", "bottleneck", "marathon"}
    BY CelebrationsAssumption
  <2>2. TrueValue(f) = Worth(f, rows, Pushes, BankTotal)
    BY TrueValueIs
  <2>. QED
    BY <1>3, <1>4, <1>5, <1>6, <1>8, <1>9, <2>1, <2>2 DEF TrophyValue
<1>11. ASSUME NEW k \in Records PROVE RecordValue(k, m) \in Nat /\ RecordValue(k, m) <= TrueValue(k)
  <2>1. k \in {"streak", "dayActive", "endurance"}
    BY CelebrationsAssumption
  <2>2. TrueValue(k) = Worth(k, rows, Pushes, BankTotal)
    BY TrueValueIs
  <2>. QED
    BY <1>4, <1>7, <1>8, <1>9, <2>1, <2>2 DEF RecordValue
<1>. QED
  BY <1>10, <1>11

\* A higher value has no lower tier.
LEMMA TierGrows ==
  ASSUME NEW f \in Families, NEW a \in Nat, NEW b \in Nat, a <= b
  PROVE  TierOf(f, a) \in Nat /\ TierOf(f, a) <= TierOf(f, b)
<1>. DEFINE Met(v) == {i \in 1 .. Len(Thresholds[f]) : v >= Thresholds[f][i]}
<1>1. Thresholds[f] \in Seq(Nat)
  BY CelebrationsAssumption
<1>2. Len(Thresholds[f]) \in Nat /\ \A i \in 1 .. Len(Thresholds[f]) : Thresholds[f][i] \in Nat
  BY <1>1
<1>3. Met(a) \in SUBSET Met(b) /\ Met(b) \subseteq 1 .. Len(Thresholds[f])
  BY <1>2
<1>4. IsFiniteSet(1 .. Len(Thresholds[f]))
  <2>1. 1 \in Int /\ Len(Thresholds[f]) \in Int
    BY <1>2
  <2>. QED
    BY <2>1, FS_Interval
<1>. HIDE DEF Met
<1>5. IsFiniteSet(Met(b))
  BY <1>3, <1>4, FS_Subset
<1>6. Cardinality(Met(a)) \in Nat /\ Cardinality(Met(a)) <= Cardinality(Met(b))
  BY <1>3, <1>5, MoreMinutes
<1>. QED
  BY <1>6 DEF TierOf, Met

-----------------------------------------------------------------------------
\* Everything that was celebrated, or is about to be queued.
Celebrated == announced \cup fresh

\* What the snapshot has, and what was reached, of what an event is for.
Best(e) == IF e.kind = "trophy" THEN milestones.tiers[e.key] ELSE milestones.records[e.key]
Reached(e) == IF e.kind = "trophy" THEN TierOf(e.key, TrueValue(e.key)) ELSE TrueValue(e.key)

IsEvent(e) ==
  /\ (e.kind = "trophy" /\ e.key \in Families) \/ (e.kind = "record" /\ e.key \in Records)
  /\ e.value \in Nat /\ e.stamp \in Nat

\* A run celebrates a key once, and for more than any earlier run did.
Rising(E) ==
  \A d, e \in E : d.key = e.key =>
    /\ d.kind = e.kind /\ d.stamp < e.stamp => d.value < e.value
    /\ d.stamp = e.stamp => d = e

Announces(E, f, n) == \E e \in E : e.kind = "trophy" /\ e.key = f /\ e.value = n

\* The snapshot has at least what was celebrated, so that the next event is for
\* more; it knows a family once that is seeded; and it has risen above the seed
\* only with an event, which may have been lost.
CelebrationsInv ==
  /\ rows \subseteq RowPool /\ IsFiniteSet(rows)
  /\ milestones \in Snapshots \cup {None} /\ baseline \in [Families -> Nat \cup {None}]
  /\ milestones = None => Celebrated = {} /\ \A f \in Families : baseline[f] = None
  /\ milestones # None => \A f \in Families : baseline[f] = None <=> milestones.tiers[f] = None
  /\ \A e \in Celebrated :
       /\ IsEvent(e) /\ e.stamp <= now /\ ("competitor" \in due => e.stamp < now)
       /\ Best(e) \in Nat /\ e.value <= Best(e) /\ e.value <= Reached(e)
  /\ Rising(Celebrated)
  /\ milestones # None =>
       \A f \in Families \ lost :
         baseline[f] # None /\ milestones.tiers[f] > baseline[f] =>
           Announces(Celebrated, f, milestones.tiers[f])

\* The rows that may come into the ledger are rows.
LEMMA PoolIsRows ==
  ASSUME NEW rs, rs \subseteq RowPool, IsFiniteSet(rs)
  PROVE  AreRows(rs)
  BY CelebrationsAssumption DEF AreRows, IsRow

\* What is true of a family or a record is a number, and grows with the rows.
LEMMA ValuesGrow ==
  ASSUME BottleneckInv, UsageInv, PushedInv, [MonitorsNext]_monitorVars,
         AreRows(rows), AreRows(rows'), rows \subseteq rows'
  PROVE  \A key \in Feats : /\ TrueValue(key) \in Nat /\ TrueValue(key)' \in Nat
                            /\ TrueValue(key) <= TrueValue(key)'
<1>1. BankTotal \in Nat /\ BankTotal' \in Nat /\ BankTotal <= BankTotal'
  BY BankGrows
<1>2. Pushes \in Nat /\ Pushes' \in Nat /\ Pushes <= Pushes'
  <2>1. "session" \in Windows
    BY MonitorsAssumption
  <2>2. PushedInv' /\ pushed["session"] \subseteq pushed'["session"]
    BY <2>1, StepPushed
  <2>3. IsFiniteSet(pushed'["session"])
    BY <2>1, <2>2 DEF PushedInv
  <2>4. IsFiniteSet(pushed["session"])
    BY <2>1 DEF PushedInv
  <2>. QED
    BY <2>2, <2>3, <2>4, FS_Subset, FS_CardinalityType DEF Pushes
<1>3. ASSUME NEW key \in Feats
      PROVE  /\ TrueValue(key) \in Nat /\ TrueValue(key)' \in Nat
             /\ TrueValue(key) <= TrueValue(key)'
  <2>1. TrueValue(key) = Worth(key, rows, Pushes, BankTotal)
    BY TrueValueIs
  <2>2. TrueValue(key)' = Worth(key, rows', Pushes', BankTotal')
    BY DEF TrueValue, Worth, Pushes, Most, Busiest, OnDay
  <2>. PICK a, b, p, q, r, s : a = rows /\ b = rows' /\ p = Pushes /\ q = Pushes' /\ r = BankTotal /\ s = BankTotal'
    OBVIOUS
  <2>3. Worth(key, a, p, r) \in Nat /\ Worth(key, a, p, r) <= Worth(key, b, q, s)
    BY <1>1, <1>2, WorthGrows
  <2>4. Worth(key, b, q, s) \in Nat
    BY <1>1, <1>2, WorthGrows
  <2>. QED
    BY <2>1, <2>2, <2>3, <2>4
<1>. QED
  BY <1>3

\* So does what is reached of what an event is for.
LEMMA ReachedGrows ==
  ASSUME BottleneckInv, UsageInv, PushedInv, [MonitorsNext]_monitorVars,
         AreRows(rows), AreRows(rows'), rows \subseteq rows', NEW e, IsEvent(e)
  PROVE  Reached(e) \in Nat /\ Reached(e)' \in Nat /\ Reached(e) <= Reached(e)'
<1>1. e.key \in Feats
  BY CelebrationsAssumption DEF IsEvent, Feats
<1>. PICK a, b : a = TrueValue(e.key) /\ b = TrueValue(e.key)'
  OBVIOUS
<1>2. a \in Nat /\ b \in Nat /\ a <= b
  BY <1>1, ValuesGrow
<1>3. CASE e.kind = "trophy"
  <2>1. e.key \in Families
    BY <1>3 DEF IsEvent
  <2>2. TierOf(e.key, a) \in Nat /\ TierOf(e.key, a) <= TierOf(e.key, b)
    BY <1>2, <2>1, TierGrows
  <2>3. b <= b
    BY <1>2
  <2>4. TierOf(e.key, b) \in Nat
    BY <1>2, <2>1, <2>3, TierGrows
  <2>5. Reached(e) = TierOf(e.key, a)
    BY <1>3 DEF Reached
  <2>6. Reached(e)' = TierOf(e.key, b)
    BY <1>3 DEF Reached, TierOf
  <2>. QED
    BY <2>2, <2>4, <2>5, <2>6
<1>4. CASE e.kind # "trophy"
  BY <1>2, <1>4 DEF Reached
<1>. QED
  BY <1>3, <1>4

\* The invariant stands while nothing is detected: rows may come, the queue may
\* be written, and what is not queued is known to be lost.
LEMMA NothingDetected ==
  ASSUME CelebrationsInv, UNCHANGED <<milestones, baseline>>, Celebrated' \subseteq Celebrated,
         rows' \subseteq RowPool, IsFiniteSet(rows'), lost \subseteq lost',
         \A e \in Celebrated : e \in Celebrated' \/ e.key \in lost',
         now \in Nat, (now' = now /\ due' \subseteq due) \/ now' = now + 1,
         \A e \in Celebrated : /\ Reached(e) \in Nat /\ Reached(e)' \in Nat
                               /\ Reached(e) <= Reached(e)'
  PROVE  CelebrationsInv'
<1>1. ASSUME NEW e \in Celebrated'
      PROVE  /\ IsEvent(e) /\ e.stamp <= now' /\ ("competitor" \in due' => e.stamp < now')
             /\ Best(e)' \in Nat /\ e.value <= Best(e)' /\ e.value <= Reached(e)'
  <2>1. /\ IsEvent(e) /\ e.stamp <= now /\ ("competitor" \in due => e.stamp < now)
        /\ Best(e) \in Nat /\ e.value <= Best(e) /\ e.value <= Reached(e)
        /\ Reached(e) \in Nat /\ Reached(e)' \in Nat /\ Reached(e) <= Reached(e)'
    BY DEF CelebrationsInv
  <2>2. e.stamp \in Nat /\ e.value \in Nat
    BY <2>1 DEF IsEvent
  <2>3. Best(e)' = Best(e)
    BY DEF Best
  <2>4. e.value <= Reached(e)'
    BY <2>1, <2>2
  <2>5. e.stamp <= now' /\ ("competitor" \in due' => e.stamp < now')
    BY <2>1, <2>2
  <2>. QED
    BY <2>1, <2>3, <2>4, <2>5
<1>2. Rising(Celebrated')
  BY DEF CelebrationsInv, Rising
<1>3. ASSUME milestones' # None, NEW f \in Families \ lost',
             baseline'[f] # None, milestones'.tiers[f] > baseline'[f]
      PROVE  Announces(Celebrated', f, milestones'.tiers[f])
  <2>1. Announces(Celebrated, f, milestones.tiers[f])
    BY <1>3 DEF CelebrationsInv
  <2>2. PICK e \in Celebrated : e.kind = "trophy" /\ e.key = f /\ e.value = milestones.tiers[f]
    BY <2>1 DEF Announces
  <2>3. e \in Celebrated'
    BY <1>3, <2>2
  <2>. QED
    BY <2>2, <2>3 DEF Announces
<1>4. /\ milestones' \in Snapshots \cup {None} /\ baseline' \in [Families -> Nat \cup {None}]
      /\ milestones' = None => Celebrated' = {} /\ \A f \in Families : baseline'[f] = None
      /\ milestones' # None => \A f \in Families : baseline'[f] = None <=> milestones'.tiers[f] = None
  BY DEF CelebrationsInv
<1>. QED
  BY <1>1, <1>2, <1>3, <1>4 DEF CelebrationsInv, Rising, Announces, IsEvent

\* What a high-water mark does.
LEMMA MarksRise ==
  ASSUME NEW old \in Nat \cup {None}, NEW new \in Nat
  PROVE  /\ Raised(old, new) \in Nat /\ new <= Raised(old, new)
         /\ old # None => /\ old <= Raised(old, new)
                          /\ new > old => Raised(old, new) = new
                          /\ ~(new > old) => Raised(old, new) = old
<1>1. CASE old = None
  BY <1>1 DEF Raised
<1>2. CASE old # None
  <2>1. old \in Nat
    BY <1>2
  <2>2. SetMax({old, new}) \in {old, new} /\ SetMax({old, new}) >= old /\ SetMax({old, new}) >= new
    BY <2>1, SetMaxOfTwo
  <2>3. Raised(old, new) = SetMax({old, new})
    BY <1>2 DEF Raised
  <2>. QED
    BY <1>2, <2>1, <2>2, <2>3
<1>. QED
  BY <1>1, <1>2

\* A family is no record.
LEMMA FamiliesAreNoRecords == Families \cap Records = {}
  BY CelebrationsAssumption

\* What a run detects: events of this tick, one for a key, each for more than
\* the snapshot had of it and for what is reached.
IsNew(e) ==
  /\ IsEvent(e) /\ e.stamp = now
  /\ Best(e) \in Nat /\ e.value > Best(e) /\ e.value <= Reached(e)

Makes(tiers, records, e) ==
  e = [kind |-> e.kind, key |-> e.key,
       value |-> IF e.kind = "trophy" THEN tiers[e.key] ELSE records[e.key],
       stamp |-> now, expires |-> now + Lasting]

\* Whatever is detected is new in that sense.
LEMMA DetectedIsNew ==
  ASSUME milestones \in Snapshots, now \in Nat, NEW tiers, NEW records,
         \A f \in Families : tiers[f] \in Nat /\ tiers[f] <= TierOf(f, TrueValue(f)),
         \A k \in Records : records[k] \in Nat /\ records[k] <= TrueValue(k),
         NEW e \in Detected(tiers, records)
  PROVE  IsNew(e) /\ Makes(tiers, records, e)
<1>1. /\ \A f \in Families : milestones.tiers[f] \in Nat \cup {None}
      /\ \A k \in Records : milestones.records[k] \in Nat \cup {None}
  BY DEF Snapshots
<1>. DEFINE event(kind, key, value) ==
              [kind |-> kind, key |-> key, value |-> value, stamp |-> now, expires |-> now + Lasting]
<1>2. CASE \E f \in TieredUp(tiers) : e = event("trophy", f, tiers[f])
  <2>1. PICK f \in TieredUp(tiers) : e = event("trophy", f, tiers[f])
    BY <1>2
  <2>2. /\ e.kind = "trophy" /\ e.key = f /\ e.value = tiers[f] /\ e.stamp = now
        /\ e.expires = now + Lasting
    BY <2>1
  <2>3. f \in Families /\ milestones.tiers[f] # None /\ tiers[f] > milestones.tiers[f]
    BY DEF TieredUp
  <2>4. Makes(tiers, records, e)
    BY <2>1, <2>2 DEF Makes
  <2>. QED
    BY <1>1, <2>2, <2>3, <2>4 DEF IsNew, IsEvent, Best, Reached
<1>3. CASE \E k \in Records : /\ milestones.records[k] # None /\ records[k] > milestones.records[k]
                              /\ e = event("record", k, records[k])
  <2>1. PICK k \in Records : /\ milestones.records[k] # None /\ records[k] > milestones.records[k]
                             /\ e = event("record", k, records[k])
    BY <1>3
  <2>2. /\ e.kind = "record" /\ e.key = k /\ e.value = records[k] /\ e.stamp = now
        /\ e.expires = now + Lasting
    BY <2>1
  <2>4. Makes(tiers, records, e)
    BY <2>1, <2>2 DEF Makes
  <2>. QED
    BY <1>1, <2>1, <2>2, <2>4 DEF IsNew, IsEvent, Best, Reached
<1>4. \/ \E f \in TieredUp(tiers) : e = event("trophy", f, tiers[f])
      \/ \E k \in Records : /\ milestones.records[k] # None /\ records[k] > milestones.records[k]
                            /\ e = event("record", k, records[k])
  BY DEF Detected
<1>. QED
  BY <1>2, <1>3, <1>4

\* A run that finds a snapshot keeps the invariant.
LEMMA DetectsOnce ==
  ASSUME CelebrationsInv, milestones # None, now \in Nat, now' = now,
         "competitor" \in due, "competitor" \notin due',
         NEW tiers, NEW records, fresh = {},
         \A f \in Families : tiers[f] \in Nat /\ tiers[f] <= TierOf(f, TrueValue(f)),
         \A k \in Records : records[k] \in Nat /\ records[k] <= TrueValue(k),
         milestones' = Snapshot(tiers, records), fresh' = Detected(tiers, records),
         baseline' = [f \in Families |-> IF baseline[f] = None THEN tiers[f] ELSE baseline[f]],
         UNCHANGED <<rows, announced, lost>>,
         \A e \in Celebrated : Reached(e)' = Reached(e),
         \A e \in fresh' : Reached(e)' = Reached(e)
  PROVE  CelebrationsInv'
<1>. PICK new : new = fresh'
  OBVIOUS
<1>0. milestones \in Snapshots /\ (\A f \in Families : milestones.tiers[f] \in Nat \cup {None})
      /\ \A k \in Records : milestones.records[k] \in Nat \cup {None}
  BY DEF CelebrationsInv, Snapshots
<1>1. Celebrated' = Celebrated \cup new
  BY DEF Celebrated
<1>2. \A e \in new : IsNew(e) /\ Makes(tiers, records, e)
  BY <1>0, DetectedIsNew
<1>3. /\ milestones' = [tiers   |-> [f \in Families |-> Raised(milestones.tiers[f], tiers[f])],
                        records |-> [k \in Records |-> Raised(milestones.records[k], records[k])]]
  BY DEF Snapshot
<1>4. /\ \A f \in Families : milestones'.tiers[f] = Raised(milestones.tiers[f], tiers[f])
      /\ \A k \in Records : milestones'.records[k] = Raised(milestones.records[k], records[k])
  BY <1>3
<1>5. ASSUME NEW f \in Families
      PROVE  /\ milestones'.tiers[f] \in Nat /\ tiers[f] <= milestones'.tiers[f]
             /\ milestones.tiers[f] # None =>
                  /\ milestones.tiers[f] <= milestones'.tiers[f]
                  /\ tiers[f] > milestones.tiers[f] => milestones'.tiers[f] = tiers[f]
                  /\ ~(tiers[f] > milestones.tiers[f]) => milestones'.tiers[f] = milestones.tiers[f]
  <2>. PICK o, n : o = milestones.tiers[f] /\ n = tiers[f]
    OBVIOUS
  <2>1. o \in Nat \cup {None} /\ n \in Nat /\ milestones'.tiers[f] = Raised(o, n)
    BY <1>0, <1>4
  <2>2. Raised(o, n) \in Nat /\ n <= Raised(o, n)
    BY <2>1, MarksRise
  <2>3. o # None => o <= Raised(o, n)
    BY <2>1, MarksRise
  <2>4. o # None => (n > o => Raised(o, n) = n)
    BY <2>1, MarksRise
  <2>5. o # None => (~(n > o) => Raised(o, n) = o)
    BY <2>1, MarksRise
  <2>. QED
    BY <2>1, <2>2, <2>3, <2>4, <2>5
<1>6. ASSUME NEW k \in Records
      PROVE  /\ milestones'.records[k] \in Nat /\ records[k] <= milestones'.records[k]
             /\ milestones.records[k] # None => milestones.records[k] <= milestones'.records[k]
  <2>. PICK o, n : o = milestones.records[k] /\ n = records[k]
    OBVIOUS
  <2>1. o \in Nat \cup {None} /\ n \in Nat /\ milestones'.records[k] = Raised(o, n)
    BY <1>0, <1>4
  <2>2. Raised(o, n) \in Nat /\ n <= Raised(o, n)
    BY <2>1, MarksRise
  <2>3. o # None => o <= Raised(o, n)
    BY <2>1, MarksRise
  <2>. QED
    BY <2>1, <2>2, <2>3
<1>7. milestones' \in Snapshots /\ milestones' # None
  <2>1. \A f \in Families : Raised(milestones.tiers[f], tiers[f]) \in Nat
    BY <1>4, <1>5
  <2>2. \A k \in Records : Raised(milestones.records[k], records[k]) \in Nat
    BY <1>4, <1>6
  <2>3. milestones' \in Snapshots
    BY <1>3, <2>1, <2>2 DEF Snapshots
  <2>. QED
    BY <2>3, CelebrationsAssumption
<1>8. /\ baseline' \in [Families -> Nat \cup {None}]
      /\ \A f \in Families : baseline'[f] # None /\ baseline'[f] = IF baseline[f] = None THEN tiers[f] ELSE baseline[f]
  BY CelebrationsAssumption DEF CelebrationsInv
<1>9. \A f \in Families : milestones'.tiers[f] # None
  BY <1>5, CelebrationsAssumption
<1>10. ASSUME NEW e \in Celebrated
       PROVE  /\ IsEvent(e) /\ e.stamp < now' /\ Best(e)' \in Nat /\ e.value <= Best(e)'
              /\ e.value <= Reached(e)' /\ e.value <= Best(e) /\ Best(e) \in Nat
  <2>1. /\ IsEvent(e) /\ e.stamp < now /\ e.value <= Reached(e) /\ e.value <= Best(e) /\ Best(e) \in Nat
    BY DEF CelebrationsInv
  <2>2. Best(e)' \in Nat /\ Best(e) <= Best(e)'
    BY <1>5, <1>6, <2>1, CelebrationsAssumption DEF Best, IsEvent
  <2>. QED
    BY <2>1, <2>2 DEF IsEvent
<1>11. ASSUME NEW e \in new
       PROVE  /\ IsEvent(e) /\ e.stamp = now' /\ Best(e)' \in Nat /\ e.value <= Best(e)'
              /\ e.value <= Reached(e)' /\ Best(e) \in Nat /\ e.value > Best(e)
  <2>1. IsEvent(e) /\ e.stamp = now /\ Best(e) \in Nat /\ e.value > Best(e) /\ e.value <= Reached(e)
    BY <1>2 DEF IsNew
  <2>2. e.value = IF e.kind = "trophy" THEN tiers[e.key] ELSE records[e.key]
    BY <1>2 DEF Makes
  <2>3. Best(e)' \in Nat /\ e.value <= Best(e)'
    BY <1>5, <1>6, <2>1, <2>2 DEF Best, IsEvent
  <2>. QED
    BY <2>1, <2>3
<1>12. \A e \in Celebrated' :
         /\ IsEvent(e) /\ e.stamp <= now' /\ ("competitor" \in due' => e.stamp < now')
         /\ Best(e)' \in Nat /\ e.value <= Best(e)' /\ e.value <= Reached(e)'
  <2>1. ASSUME NEW e \in Celebrated PROVE e.stamp <= now'
    BY <1>10 DEF IsEvent
  <2>2. ASSUME NEW e \in new PROVE e.stamp <= now'
    BY <1>11
  <2>. QED
    BY <1>1, <1>10, <1>11, <2>1, <2>2
<1>13. Rising(Celebrated')
  <2>. SUFFICES ASSUME NEW d \in Celebrated', NEW e \in Celebrated', d.key = e.key
                PROVE  /\ d.kind = e.kind /\ d.stamp < e.stamp => d.value < e.value
                       /\ d.stamp = e.stamp => d = e
    BY DEF Rising
  <2>1. CASE d \in Celebrated /\ e \in Celebrated
    BY <2>1 DEF CelebrationsInv, Rising
  <2>2. CASE d \in Celebrated /\ e \in new
    <3>1. d.kind = e.kind => Best(d) = Best(e)
      BY DEF Best
    <3>2. d.stamp \in Nat /\ d.stamp < now /\ e.stamp = now /\ d.value \in Nat /\ e.value \in Nat
      BY <1>10, <1>11, <2>2 DEF IsEvent
    <3>3. d.value <= Best(d) /\ Best(d) \in Nat /\ Best(e) \in Nat /\ e.value > Best(e)
      BY <1>10, <1>11, <2>2
    <3>. QED
      BY <3>1, <3>2, <3>3
  <2>3. CASE d \in new /\ e \in Celebrated
    <3>1. e.stamp \in Nat /\ e.stamp < now /\ d.stamp = now
      BY <1>10, <1>11, <2>3 DEF IsEvent
    <3>. QED
      BY <3>1
  <2>4. CASE d \in new /\ e \in new
    <3>1. d.stamp = now /\ e.stamp = now
      BY <1>11, <2>4
    <3>2. d.kind = e.kind
      BY <1>11, <2>4, FamiliesAreNoRecords DEF IsEvent
    <3>3. d = e
      BY <1>2, <2>4, <3>2, Zenon DEF Makes
    <3>. QED
      BY <3>1, <3>3
  <2>. QED
    BY <1>1, <2>1, <2>2, <2>3, <2>4
<1>14. ASSUME NEW f \in Families \ lost', baseline'[f] # None, milestones'.tiers[f] > baseline'[f]
       PROVE  Announces(Celebrated', f, milestones'.tiers[f])
  <2>1. baseline[f] = None <=> milestones.tiers[f] = None
    BY DEF CelebrationsInv
  <2>2. CASE baseline[f] = None
    <3>1. milestones'.tiers[f] = tiers[f] /\ baseline'[f] = tiers[f] /\ tiers[f] \in Nat
      BY <1>4, <1>8, <2>1, <2>2 DEF Raised
    <3>. QED
      BY <1>14, <3>1
  <2>3. CASE baseline[f] # None /\ tiers[f] > milestones.tiers[f]
    <3>1. f \in TieredUp(tiers) /\ milestones'.tiers[f] = tiers[f]
      BY <1>5, <2>1, <2>3 DEF TieredUp
    <3>. PICK e : e = [kind |-> "trophy", key |-> f, value |-> tiers[f], stamp |-> now, expires |-> now + Lasting]
      OBVIOUS
    <3>2. e \in Detected(tiers, records)
      BY <3>1 DEF Detected
    <3>3. e.kind = "trophy" /\ e.key = f /\ e.value = tiers[f]
      OBVIOUS
    <3>. QED
      BY <1>1, <3>1, <3>2, <3>3 DEF Announces
  <2>4. CASE baseline[f] # None /\ ~(tiers[f] > milestones.tiers[f])
    <3>1. milestones'.tiers[f] = milestones.tiers[f] /\ baseline'[f] = baseline[f]
      BY <1>5, <1>8, <2>1, <2>4
    <3>2. Announces(Celebrated, f, milestones.tiers[f])
      BY <1>14, <2>4, <3>1 DEF CelebrationsInv
    <3>. QED
      BY <1>1, <3>1, <3>2 DEF Announces
  <2>. QED
    BY <2>2, <2>3, <2>4
<1>15. rows' \subseteq RowPool /\ IsFiniteSet(rows')
  BY DEF CelebrationsInv
<1>. QED
  BY <1>7, <1>8, <1>9, <1>12, <1>13, <1>14, <1>15 DEF CelebrationsInv, Rising, Announces, IsEvent

\* A run that finds no snapshot seeds one in silence.
LEMMA SeedsInSilence ==
  ASSUME CelebrationsInv, milestones = None, NEW tiers, NEW records, fresh = {},
         \A f \in Families : tiers[f] \in Nat, \A k \in Records : records[k] \in Nat,
         tiers = [f \in Families |-> tiers[f]], records = [k \in Records |-> records[k]],
         milestones' = [tiers |-> tiers, records |-> records], fresh' = {},
         baseline' = [f \in Families |-> IF baseline[f] = None THEN tiers[f] ELSE baseline[f]],
         UNCHANGED <<rows, announced, lost>>
  PROVE  CelebrationsInv'
<1>1. Celebrated' = {}
  BY DEF CelebrationsInv, Celebrated
<1>2. milestones' \in Snapshots /\ milestones' # None
  <2>1. tiers \in [Families -> Nat \cup {None}]
    OBVIOUS
  <2>2. records \in [Records -> Nat \cup {None}]
    OBVIOUS
  <2>3. milestones' \in Snapshots
    BY <2>1, <2>2 DEF Snapshots
  <2>. QED
    BY <2>3, CelebrationsAssumption
<1>3. \A f \in Families : baseline'[f] = tiers[f] /\ milestones'.tiers[f] = tiers[f] /\ tiers[f] # None
  BY CelebrationsAssumption DEF CelebrationsInv
<1>4. baseline' \in [Families -> Nat \cup {None}]
  BY DEF CelebrationsInv
<1>. QED
  BY <1>1, <1>2, <1>3, <1>4 DEF CelebrationsInv, Rising

\* What the parts of a step do to the ledger's rows and to what is celebrated.
LEMMA ShareOfCelebrations ==
  ASSUME [MonitorsNext]_monitorVars
  PROVE  \/ UNCHANGED celebrationVars
         \/ Competes
         \/ \E readable : WriteQueue(readable)
         \/ RunKilled \/ Collect
<1>1. CASE Competes
  BY <1>1
<1>2. CASE Queues
  BY <1>2 DEF Queues
<1>3. CASE DiesQueueing \/ Collects
  BY <1>3 DEF DiesQueueing, Collects
<1>4. CASE ~(Competes \/ Queues \/ DiesQueueing \/ Collects)
  <2>1. UNCHANGED monitorVars \/ OnlyUsage \/ OnlyBottleneck \/ TheFirstThree
    BY <1>4
    DEF MonitorsNext, Tick, Works, HidesFile, PollsMain, PollsMainForgetting, PollsRemote, DiesPolling,
        Talks, Leaves, Samples, SamplesDuringTurn, Dies, Boots, PeersPublish, PollsPeers,
        Converses, CompletesLine, Streams, Quits, Measures, Stats, Parses,
        Grows, SyncBegins, Syncs, SyncBreaks, Unlocks, Hops, Reports, Receives, PostBreaks,
        Deploys, Migrates, MigrationBreaks,
        OnlyPeers, OnlySessions, OnlySync, OnlyLimits, OnlyMigration
  <2>. QED
    BY <2>1 DEF OnlyUsage, OnlyBottleneck, TheFirstThree, monitorVars
<1>. QED
  BY <1>1, <1>2, <1>3, <1>4

\* Within a tick timers only fire.
LEMMA TimersFire ==
  ASSUME [MonitorsNext]_monitorVars
  PROVE  now' = now + 1 \/ (now' = now /\ due' \subseteq due)
<1>1. CASE Tick
  BY <1>1 DEF Tick
<1>2. CASE Between \/ \E timer : Fires(timer)
  BY <1>2 DEF Between, Fires
<1>3. CASE UNCHANGED monitorVars
  BY <1>3 DEF monitorVars
<1>4. ~Tick /\ MonitorsNext => Between \/ \E timer : Fires(timer)
  BY DEF MonitorsNext, Works, HidesFile, PollsMain, PollsMainForgetting, PollsRemote, DiesPolling,
         Talks, Leaves, Samples, SamplesDuringTurn, Dies, Boots,
         Competes, Queues, DiesQueueing, Collects, PeersPublish, PollsPeers,
         Converses, CompletesLine, Streams, Quits, Measures, Stats, Parses,
         Grows, SyncBegins, Syncs, SyncBreaks, Unlocks, Hops, Reports, Receives, PostBreaks,
         Deploys, Migrates, MigrationBreaks
<1>. QED
  BY <1>1, <1>2, <1>3, <1>4

\* The competition run measures no more than is true, and keeps the invariant.
LEMMA CompetesRightly ==
  ASSUME BottleneckInv, UsageInv, PushedInv, CelebrationsInv, Competes
  PROVE  CelebrationsInv'
<1>1. /\ "competitor" \in due /\ "competitor" \notin due' /\ now' = now
      /\ UNCHANGED <<usageVars, bottleneckVars>>
  BY DEF Competes, Fires, OnlyCelebration
<1>2. now \in Nat /\ BankTotal \in Nat
  BY DEF BottleneckInv, BankTypeOK, BankIsTrue
<1>3. Pushes \in Nat /\ Hits \in Nat /\ Hits <= Pushes
  <2>1. "session" \in Windows
    BY MonitorsAssumption
  <2>2. Pushes \in Nat
    BY <2>1, FS_CardinalityType DEF Pushes, PushedInv
  <2>. QED
    BY <2>2 DEF PushedInv, Hits, Pushes
<1>4. PICK h, b : Detect(h, b) /\ h \in {0, Hits} /\ b \in {0, BankTotal}
  BY DEF Competes
<1>5. h \in Nat /\ h <= Pushes /\ b \in Nat /\ b <= BankTotal
  BY <1>2, <1>3, <1>4
<1>6. AreRows(rows)
  BY PoolIsRows DEF CelebrationsInv
<1>. PICK m : m = Measured(h, b)
  OBVIOUS
<1>7. \A f \in Families : TrophyValue(f, m) \in Nat /\ TrophyValue(f, m) <= TrueValue(f)
  BY <1>2, <1>3, <1>5, <1>6, MeasuredIsRight
<1>8. \A k \in Records : RecordValue(k, m) \in Nat /\ RecordValue(k, m) <= TrueValue(k)
  BY <1>2, <1>3, <1>5, <1>6, MeasuredIsRight
<1>. PICK tiers, records : /\ tiers = [f \in Families |-> TierOf(f, TrophyValue(f, m))]
                           /\ records = [k \in Records |-> RecordValue(k, m)]
  OBVIOUS
<1>9. ASSUME NEW f \in Families PROVE TrueValue(f) \in Nat
  <2>1. f \in Feats
    BY CelebrationsAssumption DEF Feats
  <2>2. TrueValue(f) = Worth(f, rows, Pushes, BankTotal)
    BY TrueValueIs
  <2>. PICK r, p, t : r = rows /\ p = Pushes /\ t = BankTotal
    OBVIOUS
  <2>3. p \in Nat /\ t \in Nat /\ p <= p /\ t <= t /\ AreRows(r) /\ r \subseteq r
    BY <1>2, <1>3, <1>6
  <2>4. Worth(f, r, p, t) \in Nat
    BY <2>1, <2>3, WorthGrows
  <2>. QED
    BY <2>2, <2>4
<1>10. ASSUME NEW f \in Families PROVE tiers[f] \in Nat /\ tiers[f] <= TierOf(f, TrueValue(f))
  <2>1. TrophyValue(f, m) \in Nat /\ TrueValue(f) \in Nat /\ TrophyValue(f, m) <= TrueValue(f)
    BY <1>7, <1>9
  <2>. PICK x, y : x = TrophyValue(f, m) /\ y = TrueValue(f)
    OBVIOUS
  <2>2. TierOf(f, x) \in Nat /\ TierOf(f, x) <= TierOf(f, y)
    BY <2>1, TierGrows
  <2>. QED
    BY <2>2
<1>11. \A k \in Records : records[k] \in Nat /\ records[k] <= TrueValue(k)
  BY <1>8
<1>12. /\ fresh = {} /\ milestones' = Snapshot(tiers, records)
       /\ fresh' = IF milestones = None THEN {} ELSE Detected(tiers, records)
       /\ baseline' = [f \in Families |-> IF baseline[f] = None THEN tiers[f] ELSE baseline[f]]
       /\ UNCHANGED <<rows, queue, announced, lost>>
  BY <1>4 DEF Detect
<1>13. \A key : TrueValue(key)' = TrueValue(key)
  <2>1. rows' = rows /\ pushed' = pushed /\ bank' = bank
    BY <1>1, <1>12 DEF usageVars, bottleneckVars
  <2>2. BankTotal' = BankTotal
    BY <2>1, BankIsSum
  <2>3. \A key : TrueValue(key)' = Worth(key, rows', Pushes', BankTotal')
    BY DEF TrueValue, Worth, Pushes, Most, Busiest, OnDay
  <2>4. Pushes' = Pushes
    BY <2>1 DEF Pushes
  <2>. QED
    BY <2>1, <2>2, <2>3, <2>4, TrueValueIs
<1>14. \A e : Reached(e)' = Reached(e)
  BY <1>13 DEF Reached, TierOf
<1>15. CASE milestones = None
  <2>1. milestones' = [tiers |-> tiers, records |-> records] /\ fresh' = {}
    BY <1>12, <1>15 DEF Snapshot
  <2>2. tiers = [f \in Families |-> tiers[f]] /\ records = [k \in Records |-> records[k]]
    OBVIOUS
  <2>. QED
    BY <1>10, <1>11, <1>12, <1>15, <2>1, <2>2, SeedsInSilence
<1>16. CASE milestones # None
  <2>1. fresh' = Detected(tiers, records)
    BY <1>12, <1>16
  <2>. QED
    BY <1>1, <1>2, <1>10, <1>11, <1>12, <1>14, <1>16, <2>1, DetectsOnce
<1>. QED
  BY <1>15, <1>16

\* The invariant holds at first, with any snapshot.
LEMMA InitCelebrations == MonitorsInit => CelebrationsInv
<1>. SUFFICES ASSUME MonitorsInit PROVE CelebrationsInv
  OBVIOUS
<1>1. PICK s \in Scenes : CelebrationsInit(s.known)
  BY DEF MonitorsInit
<1>2. s.known \in Snapshots \cup {None}
  BY MonitorsAssumption
<1>. PICK known : known = s.known
  OBVIOUS
<1>3. /\ rows = {} /\ Celebrated = {} /\ milestones = known /\ known \in Snapshots \cup {None}
      /\ baseline = [f \in Families |-> IF known = None THEN None ELSE known.tiers[f]]
  BY <1>1, <1>2 DEF CelebrationsInit, Celebrated
<1>4. known # None => known.tiers \in [Families -> Nat \cup {None}]
  BY <1>3 DEF Snapshots
<1>5. baseline \in [Families -> Nat \cup {None}]
      /\ \A f \in Families : baseline[f] = IF known = None THEN None ELSE known.tiers[f]
  BY <1>3, <1>4
<1>6. \A f \in Families : known # None /\ baseline[f] # None =>
        known.tiers[f] \in Nat /\ ~(known.tiers[f] > baseline[f])
  BY <1>4, <1>5
<1>. QED
  BY <1>3, <1>5, <1>6, FS_EmptySet DEF CelebrationsInv, Rising

\* Every step keeps the invariant.
LEMMA StepCelebrations ==
  ASSUME BottleneckInv, UsageInv, PushedInv, CelebrationsInv, [MonitorsNext]_monitorVars
  PROVE  CelebrationsInv'
<1>1. CASE Competes
  BY <1>1, CompetesRightly
<1>2. ASSUME UNCHANGED <<milestones, baseline>>, rows \subseteq rows', rows' \subseteq RowPool,
             IsFiniteSet(rows'), Celebrated' \subseteq Celebrated, lost \subseteq lost',
             \A e \in Celebrated : e \in Celebrated' \/ e.key \in lost'
      PROVE  CelebrationsInv'
  <2>1. AreRows(rows) /\ AreRows(rows')
    BY <1>2, PoolIsRows DEF CelebrationsInv
  <2>2. \A e \in Celebrated : IsEvent(e)
    BY DEF CelebrationsInv
  <2>3. \A e \in Celebrated : Reached(e) \in Nat /\ Reached(e)' \in Nat /\ Reached(e) <= Reached(e)'
    BY <1>2, <2>1, <2>2, ReachedGrows
  <2>4. now \in Nat /\ ((now' = now /\ due' \subseteq due) \/ now' = now + 1)
    BY TimersFire DEF BottleneckInv, BankTypeOK
  <2>. QED
    BY <1>2, <2>3, <2>4, NothingDetected
<1>3. rows \subseteq RowPool /\ IsFiniteSet(rows)
  BY DEF CelebrationsInv
<1>4. CASE UNCHANGED celebrationVars
  BY <1>2, <1>3, <1>4 DEF celebrationVars, Celebrated
<1>5. CASE \E readable : WriteQueue(readable)
  BY <1>2, <1>3, <1>5 DEF WriteQueue, Celebrated
<1>6. CASE RunKilled
  BY <1>2, <1>3, <1>6 DEF RunKilled, Celebrated
<1>7. CASE Collect
  <2>1. PICK r \in RowPool \ rows : rows' = rows \cup {r}
    BY <1>7 DEF Collect
  <2>2. IsFiniteSet(rows')
    BY <1>3, <2>1, FS_AddElement
  <2>. QED
    BY <1>2, <1>3, <1>7, <2>1, <2>2 DEF Collect, Celebrated
<1>. QED
  BY <1>1, <1>4, <1>5, <1>6, <1>7, ShareOfCelebrations

\* Every celebration was earned, by the definitions of what it is for, is for
\* more than any earlier one, and nothing reached after the seed goes without
\* one, but for a run that was killed before the queue was written
\* (extract.py, detect_celebrations): for any sessions, thresholds, windows,
\* jitters that the rounding collapses, and snapshots, whatever could not be
\* read and in whatever order rows, samples and polls come.
THEOREM TrophiesStayEarned == MonitorsSpec => []TrophiesAreEarned
<1>1. MonitorsInit => BottleneckInv /\ UsageInv /\ PushedInv /\ CelebrationsInv
  BY InitBottleneck, InitUsage, InitPushed, InitCelebrations DEF MonitorsInit
<1>2. BottleneckInv /\ UsageInv /\ PushedInv /\ CelebrationsInv /\ [MonitorsNext]_monitorVars =>
        BottleneckInv' /\ UsageInv' /\ PushedInv' /\ CelebrationsInv'
  BY StepBottleneck, StepUsage, StepPushed, StepCelebrations
<1>3. CelebrationsInv => TrophiesAreEarned
  BY DEF CelebrationsInv, TrophiesAreEarned, Celebrated, Reached, Rising, Announces
<1>. QED
  BY <1>1, <1>2, <1>3, PTL DEF MonitorsSpec
=============================================================================

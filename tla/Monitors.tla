------------------------------ MODULE Monitors ------------------------------
(***************************************************************************)
(* What watches Claude Code over time, together: the limits poller of the  *)
(* main server with a remote's, the bottleneck accumulator, and the        *)
(* competition run that turns what both wrote, and the ledger, into        *)
(* trophies; the live monitor's signals; and what a self-hosted server has *)
(* instead of the first (nomad/server/install-limits.sh retires it) and of *)
(* the remotes' fragments.  Every timer fires once a tick, in any order; a *)
(* run may be missed, a service restarted, a file unreadable.              *)
(***************************************************************************)
EXTENDS UsageMonitor, BottleneckMonitor, Celebrations, Peers, Sessions,
        NomadSync, NomadLimits, Migration

CONSTANTS
  Horizon,  \* bound on the ticks of a scene
  Scenes    \* [runs, known, budget]: the timers that fire, the snapshot that
            \* is there, and bounds on everything that happens by itself

ASSUME MonitorsAssumption ==
  /\ Horizon \in Nat /\ Boxes \cap {"bottleneck", "competitor", "peers"} = {}
  /\ "session" \in Windows
  /\ \A s \in Scenes : s.known \in Snapshots \cup {None}

VARIABLES
  due,   \* the timers that have not fired in this tick
  runs,  \* the timers of the scene
  left   \* what is left of the budget

nomadVars   == <<syncVars, limitVars>>
monitorVars == <<now, due, runs, left, usageVars, bottleneckVars, celebrationVars,
                 peerVars, sessionVars, nomadVars, migrationVars>>

MonitorsInit ==
  /\ now = 0
  /\ \E s \in Scenes : runs = s.runs /\ left = s.budget /\ CelebrationsInit(s.known)
  /\ due = runs
  /\ UsageInit
  /\ BottleneckInit(0 .. Horizon \div Hour)
  /\ PeersInit /\ SessionsInit /\ SyncInit /\ LimitsInit
  /\ MigrationInit(left.deploy > 0)

Spend(kind) == left[kind] > 0 /\ left' = [left EXCEPT ![kind] = @ - 1]

SpendIf(costs, kind) == IF costs THEN Spend(kind) ELSE UNCHANGED left

Fires(timer) == timer \in due /\ due' = due \ {timer} /\ UNCHANGED <<now, runs>>

Between == UNCHANGED <<now, due, runs>>

Elsewhere       == UNCHANGED <<peerVars, sessionVars, nomadVars, migrationVars>>
OnlyUsage       == UNCHANGED <<bottleneckVars, celebrationVars>> /\ Elsewhere
OnlyBottleneck  == UNCHANGED <<usageVars, celebrationVars>> /\ Elsewhere
OnlyCelebration == UNCHANGED <<usageVars, bottleneckVars>> /\ Elsewhere
TheFirstThree   == UNCHANGED <<usageVars, bottleneckVars, celebrationVars>>
OnlyPeers       == TheFirstThree /\ UNCHANGED <<sessionVars, nomadVars, migrationVars>>
OnlySessions    == TheFirstThree /\ UNCHANGED <<peerVars, nomadVars, migrationVars>>
OnlySync        == TheFirstThree /\ UNCHANGED <<peerVars, sessionVars, limitVars, migrationVars>>
OnlyLimits      == TheFirstThree /\ UNCHANGED <<peerVars, sessionVars, syncVars, migrationVars>>
OnlyMigration   == TheFirstThree /\ UNCHANGED <<peerVars, sessionVars, nomadVars>>

\* A timer that did not fire is late, or its run was missed.
Tick ==
  /\ now' = now + 1 /\ due' = runs /\ UNCHANGED runs
  /\ left.tick > 0 /\ (due # {} => left.late > 0) /\ PostsInTime
  /\ "bottleneck" \in runs => SamplesInTime
  /\ left' = [left EXCEPT !.tick = @ - 1, !.late = IF due = {} THEN @ ELSE @ - 1]
  /\ OnlyUsage /\ UsageRests

-----------------------------------------------------------------------------
\* The limits.

\* The timer of a box bears its name.
Users == UNION {Files[box] : box \in Boxes \cap runs}

Works == Spend("use") /\ (\E s \in Users : Use(s)) /\ Between /\ OnlyUsage

HidesFile == Spend("hide") /\ (\E s \in Users : Hide(s)) /\ Between /\ OnlyUsage

\* A token that has expired is never accepted; one that has not may be.
Verdicts(box) ==
  {v \in [Files[box] -> {"ok", "auth", "other"}] :
     \A s \in Files[box] : cred[s].exp <= now => v[s] # "ok"}

Refuses(v) == \E s \in DOMAIN v : cred[s].exp > now /\ v[s] # "ok"

PollsMain ==
  /\ Fires(Main)
  /\ \E v \in Verdicts(Main), jitter \in Jitters :
       SpendIf(Refuses(v) \/ jitter # 0, "refusal") /\ PollMain(v, jitter, hits)
  /\ OnlyUsage

PollsMainForgetting ==
  /\ Fires(Main) /\ Spend("fault")
  /\ \E v \in Verdicts(Main) :
       ~Refuses(v) /\ PollMain(v, 0, [w \in Windows |-> {}])
  /\ OnlyUsage

PollsRemote ==
  /\ \E r \in Remotes, upload \in {"ok", "lost", "cut"} : \E v \in Verdicts(r) :
       /\ Fires(r)
       /\ SpendIf(Refuses(v) \/ upload # "ok", "refusal")
       /\ PollRemote(r, v, 0, upload)
  /\ OnlyUsage

DiesPolling ==
  /\ Fires(Main) /\ Spend("fault")
  /\ \E v \in Verdicts(Main) : PollKilled(Main, v)
  /\ OnlyUsage

-----------------------------------------------------------------------------
\* The bottleneck.

Talks == Spend("talk") /\ (\E sid \in Sids : Turn(sid) \/ Answer(sid)) /\ Between /\ OnlyBottleneck

Leaves == Spend("fault") /\ (\E sid \in Sids : Flip(sid)) /\ Between /\ OnlyBottleneck

Samples ==
  /\ Fires("bottleneck")
  /\ \E unread \in SUBSET Sids : SpendIf(unread # {}, "fault") /\ SampleQuietly(unread)
  /\ OnlyBottleneck

SamplesDuringTurn ==
  /\ Fires("bottleneck") /\ Spend("talk")
  /\ \E sid \in live : SampleDuringTurn(sid)
  /\ OnlyBottleneck

Dies  == Spend("fault") /\ Crash /\ Between /\ OnlyBottleneck
Boots == Boot /\ Between /\ OnlyBottleneck /\ UNCHANGED left

-----------------------------------------------------------------------------
\* The competition.

Hits == IF out[Main] = None THEN 0 ELSE out[Main].hits["session"]

Competes ==
  /\ Fires("competitor")
  /\ \E hitsRead, waitedRead \in BOOLEAN :
       /\ SpendIf(~hitsRead \/ ~waitedRead, "fault")
       /\ Detect(IF hitsRead THEN Hits ELSE 0, IF waitedRead THEN BankTotal ELSE 0)
  /\ OnlyCelebration

Queues ==
  /\ \E readable \in BOOLEAN : SpendIf(~readable, "fault") /\ WriteQueue(readable)
  /\ Between /\ OnlyCelebration

DiesQueueing == Spend("fault") /\ RunKilled /\ Between /\ OnlyCelebration

Collects == Spend("collect") /\ Collect /\ Between /\ OnlyCelebration

PeersPublish == Spend("grow") /\ (\E p \in Rivals : Publishes(p)) /\ Between /\ OnlyPeers

\* The second half of the competition run.
PollsPeers ==
  /\ Fires("peers")
  /\ \E answers \in [Rivals -> {"served", "down"}] :
       SpendIf(\E p \in Rivals : answers[p] = "down", "cut") /\ FetchPeers(answers)
  /\ OnlyPeers

-----------------------------------------------------------------------------
\* The live monitor's signals.

Converses ==
  /\ Spend("line") /\ \E w \in Chats : Prompts(w) \/ Says(w) \/ CallsTools(w) \/ Returns(w) \/ Mutters(w)
  /\ Between /\ OnlySessions

CompletesLine == (\E w \in Chats : Completes(w)) /\ UNCHANGED left /\ Between /\ OnlySessions

Streams == Spend("byte") /\ (\E p \in Pids : Carries(p) \/ Reconnects(p)) /\ Between /\ OnlySessions

Quits == Spend("quit") /\ (\E w \in Chats : Exits(w)) /\ Between /\ OnlySessions

Measures ==
  /\ Spend("pass") /\ \E fails \in BOOLEAN : (fails => left.quit > 0) /\ Measure(fails)
  /\ Between /\ OnlySessions

Stats ==
  /\ \E w \in Chats, readable \in BOOLEAN : SpendIf(~readable, "quit") /\ Stat(w, readable)
  /\ Between /\ OnlySessions

Parses == Parse /\ UNCHANGED left /\ Between /\ OnlySessions

-----------------------------------------------------------------------------
\* A self-hosted server: the upload of transcripts, and of limits.

Grows == Spend("grow") /\ (\E f \in Transcripts : Grow(f) \/ Delete(f)) /\ Between /\ OnlySync

SyncBegins == Spend("sync") /\ BeginSync /\ Between /\ OnlySync

Syncs ==
  /\ EndSync \/ SendBatch \/ \E d \in Directories : FindNewer(d)
  /\ UNCHANGED left /\ Between /\ OnlySync

SyncBreaks ==
  /\ Spend("cut")
  /\ \/ \E arrived, cut \in SUBSET Transcripts : SendBroken(arrived, cut)
     \/ \E trapped \in BOOLEAN : SyncKilled(trapped)
  /\ Between /\ OnlySync

Unlocks == Unlock /\ UNCHANGED left /\ Between /\ OnlySync

Hops == Spend("hop") /\ (\E m \in Clients : Hop(m)) /\ Between /\ OnlyLimits

Reports == Spend("post") /\ (\E m \in Clients : Report(m)) /\ Between /\ OnlyLimits

Receives == (\E m \in Clients : Receive(m)) /\ UNCHANGED left /\ Between /\ OnlyLimits

PostBreaks ==
  /\ Spend("fault") /\ \E m \in Clients : PostLost(m) \/ ReceiveKilled(m)
  /\ Between /\ OnlyLimits

-----------------------------------------------------------------------------
\* What starts all of this: the crons of root, or the timers of the collector.

Deploys == Spend("deploy") /\ ScriptBegins /\ Between /\ OnlyMigration

Migrates ==
  /\ StepSucceeds \/ ScriptReports \/ (StepFails /\ ~Doable(CurrentStep))
  /\ UNCHANGED left /\ Between /\ OnlyMigration

MigrationBreaks ==
  /\ Spend("fault") /\ (ScriptKilled \/ (StepFails /\ Doable(CurrentStep)))
  /\ Between /\ OnlyMigration

MonitorsNext ==
  \/ Tick \/ Works \/ HidesFile \/ PollsMain \/ PollsMainForgetting \/ PollsRemote \/ DiesPolling
  \/ Talks \/ Leaves \/ Samples \/ SamplesDuringTurn \/ Dies \/ Boots
  \/ Competes \/ Queues \/ DiesQueueing \/ Collects \/ PeersPublish \/ PollsPeers
  \/ Converses \/ CompletesLine \/ Streams \/ Quits \/ Measures \/ Stats \/ Parses
  \/ Grows \/ SyncBegins \/ Syncs \/ SyncBreaks \/ Unlocks
  \/ Hops \/ Reports \/ Receives \/ PostBreaks
  \/ Deploys \/ Migrates \/ MigrationBreaks

MonitorsSpec == MonitorsInit /\ [][MonitorsNext]_monitorVars

-----------------------------------------------------------------------------
\* Properties.

Ran(timer) == timer \in due /\ timer \notin due'

\* What the main server serves after its run: a live reading was taken within
\* MERGE_MAX_AGE_S, wherever it was; a held one never shows a window that has
\* reset, and is the truth as long as the account was not used after it was
\* taken (usage-monitor.py:41-42 "a stale read never hides real change" says so
\* of any use, because a use means a token that works).
LimitsAreHonest ==
  [][ Ran(Main) /\ wrote' =>
        LET p == out'[Main] IN
        /\ ~p.stale => now - p.taken <= MergeMaxAge
        /\ \A w \in Windows :
             LET b == p.windows[w] IN
             /\ p.stale /\ b # None /\ b.resets # None => b.resets > now
             /\ b # None /\ p.asOf = uses /\ (p.stale \/ p.taken = now) =>
                  [util |-> b.util, resets |-> b.resets] = Truth(w)
    ]_monitorVars

\* A token the API refused is left alone, for longer every time and never
\* longer than the cap; but a token that Claude Code has refreshed is tried in
\* the next run that needs one, that is unless one before it, fresher or of
\* equal age and listed first, was answered.  A run that could not read the credential
\* file forgets that the token was refused.
DeadTokenRests ==
  [][ \A box \in Boxes : Ran(box) =>
        \A s \in Files[box] :
          /\ s \in called'.asked /\ refused[s] # None /\ refused[s].exp = cred[s].exp =>
               now - refused[s].at >= Backoff(refused[s].times)
          /\ s \notin called'.asked /\ cred[s].readable /\ cred[s].exp >= now =>
               \/ refused[s] # None /\ refused[s].exp = cred[s].exp
                    /\ now - refused[s].at < BackoffCap
               \/ \E r \in called'.answered : Before(r, s)
    ]_monitorVars

\* A question left alone is banked for at most the cap and the interval of its
\* first sample (bottleneck-monitor.py:30 "at most ABANDON_CAP_SEC"), for each
\* time the wait on it began afresh (an answer to another question of the same
\* turn, a file that could not be read, a restart); and sessions that wait
\* together are banked once: never more than went by.
QuestionIsCapped ==
  /\ \A id \in Asked : credited[id] <= budgets[id] * (AbandonCap + MaxElapsed)
  /\ BankTotal <= now

\* What a family or a record is really worth.
TrueValue(key) ==
  LET days == {DayOf(t) : t \in AllMinutes(rows)}
  IN CASE key \in {"relentless", "streak"} -> StreakOf(ActiveDays(rows))
       [] key = "grinder"    -> Cardinality(AllMinutes(rows))
       [] key \in {"marathon", "endurance"} -> SetMax({0} \cup {EnduranceOf(r) : r \in rows})
       [] key = "owl"        -> Cardinality({t \in AllMinutes(rows) : t % DayMinutes < NightMinutes})
       [] key = "sesspush"   -> Cardinality(pushed["session"])
       [] key = "bottleneck" -> BankTotal
       [] key = "dayActive"  ->
            SetMax({0} \cup {Cardinality({t \in AllMinutes(rows) : DayOf(t) = d}) : d \in days})

\* Every celebration is for something that was reached, by the definitions and
\* not by the code's arithmetic, and it is for more than any earlier one of
\* the same key: a source that cannot be read for a run, a jitter in a reset
\* time, a row that arrives late celebrate nothing twice.  And nothing that
\* was reached after the seed goes without, unless its run was killed between
\* the snapshot and the queue.
TrophiesAreEarned ==
  /\ \A e \in announced :
       /\ e.value <= IF e.kind = "trophy" THEN TierOf(e.key, TrueValue(e.key)) ELSE TrueValue(e.key)
       /\ \A d \in announced :
            d.key = e.key /\ d.kind = e.kind /\ d.stamp < e.stamp => d.value < e.value
       /\ \A d \in announced : d.key = e.key /\ d.stamp = e.stamp => d = e
  /\ milestones # None =>
       \A f \in Families \ lost :
         baseline[f] # None /\ milestones.tiers[f] > baseline[f] =>
           \E e \in announced \cup fresh :
             e.kind = "trophy" /\ e.key = f /\ e.value = milestones.tiers[f]

\* A peer whose copy is its own (no other has its slug) shows what it served in
\* the run that says so, and its last numbers otherwise (docs/schema.md:159):
\* an outage loses none.  The feed stands still
\* only while what some peer last served has no shape.
PeersKeepNumbers ==
  [][ Ran("peers") =>
        IF competition'.at # now THEN \E p \in Rivals : obtained'[p] # None /\ ~obtained'[p].fit
        ELSE \A p \in Rivals :
               (\A q \in Rivals \ {p} : Slug[q] # Slug[p]) =>
                 LET row == competition'.rows[p]
                 IN row.data = IF row.ok THEN served[p] ELSE obtained[p]
    ]_monitorVars
=============================================================================

# A verification of ccstats

TLA+ modules, TLC configurations and TLAPS proofs about ccstats: the pipeline
that reads Claude Code transcripts, banks them in an all-time ledger and
publishes aggregates, the daemons beside it, the self-hosted variant, and the
badges that show the numbers. Line numbers refer to this commit of the
repository; `X:n` stands for `src/server/pipeline/extract.py:n`.

Contents: 1 inventory, 2 plan, 3 the ledger, 4 the restore points and the live
status, 5 what watches over time, 6 the badges, 7 the runs, 8 the proofs, 9 where
the code and its documentation differ, 10 what is not modelled.

## 1. Inventory

Claude Code writes a JSONL transcript per session (and files for its subagents)
into each user's home, and deletes old ones. Everything else derives from that.

| Part | State it keeps | Operations | Talks to |
|---|---|---|---|
| Ledger (`extract.py --mode full`, every 5 min) | `ledger.db`: tables `sessions` and `record_owner`; `claude-stats.json` | list, parse, assign owners, upsert, ingest fragments, mark absent, aggregate, publish | transcripts, `fragments/`, restore points |
| Fragments (`--mode fragment` + `ship-fragment.sh`, every minute on a remote) | none; a file on the main server | the same collection without owners, upload | the ledger |
| Restore points (inside full runs, and `--mode backup` from `deploy.sh`) | `backups/<timestamp>/` | gate, copy, prune | ledger, bottleneck db, config |
| Seed (`--mode seed`) | archive rows in the ledger | one-off upsert | ledger |
| Competitor and celebrations (`--mode competitor`, every 2 min) | `milestones.json`, `celebrations.json`, peer cache | diff records and tiers, queue events, fetch peers | ledger (read), bottleneck db, limits |
| Live monitor (daemon, 2 s) | debounce state per user, caches; `live-status.json` | sample, decide, merge remotes, attach a celebration; a shipper thread uploads | `/proc`, sockets, transcripts, remotes |
| Bottleneck monitor (daemon, 10 s) | wait budget per session; `bottleneck.db` | detect unanswered questions, bank seconds | transcripts |
| Usage monitor (every 2 min) | `usage-poll-state.json`, `limit-hits.json`, `claude-limits.json` | choose a token, back off, hold a stale reading, merge remotes, count limit hits | Anthropic API, remotes |
| Nomad client and receiver | stamp file, lock directory; readings per account | incremental upload, extract, rebuild the feed | the receiver's home directories |
| Badge: feeds | last body and attempt per feed, backoff, one TLS socket | fetch the next due feed | nginx |
| Simple badge (e-ink) | last numbers, error flag, screen | wake, refresh, sleep | nginx |
| Badge: navigation, avatar, power | category and screen, edit flow, avatar state, celebrated ids, battery latch | buttons, ticks, state edges, celebrations, power-off | feeds |
| Scripts (`deploy.sh`, `migrate-peer.sh`, `provision-remote.sh`, installers) | what is installed: crons, units, timers, a node's data key | install, migrate with rollback, hand a key over | all services |

Where it is hard:

* **Interleaving.** Claude Code writes, resumes and deletes transcripts while a
  run lists and reads them; a forced snapshot overlaps a full run; a remote
  uploads while the main server ingests.
* **Failure.** Runs are killed; opens and copies fail one by one and only warn;
  uploads break off on the final file name.
* **Repetition.** Everything is re-parsed and re-ingested for ever, so every
  operation has to be idempotent, and what has disappeared must be remembered.
* **Time.** Debounces, caps, backoffs, staleness and retention are decided by
  clocks read at different moments.

What makes each part correct, in one line: the ledger counts each record once,
never invents or silently loses an amount, and publishes what stays; a fragment
replaces its predecessor; retention never drops the last good restore point of
a day; a celebration is shown once; the live status neither sticks nor flickers;
an unanswered question is banked up to its cap; a dead token is not hammered and
a held reading is honest; no transcript misses the sync; the badge recovers from
any network error and never starves a feed. `PROJECT.json` lists the hazards
line by line and the properties that watch them.

## 2. Plan

In order of importance; all but 7 is done.

| | Modules | Composed in | Proofs |
|---|---|---|---|
| 1 | `RecordBank` (abstract), `Ledger` (with remotes) | `Ledger` refines `RecordBank` | `LedgerProofs` |
| 2 | `Backups` | | `BackupsProofs` |
| 3 | `LiveStatus`: debounce, merge, shipper | | `LiveProofs` |
| 4 | `Sessions`, `UsageMonitor`, `BottleneckMonitor`, `Metrics`, `Celebrations`, `Peers` over the clock `Ticks`; `Migration` | `Monitors` | `PartsProofs`, `MetricsProofs`, `MonitorsProofs` |
| 5 | `NomadSync`, `NomadLimits` | `Monitors` | `MonitorsProofs` |
| 6 | `HttpsConnection`, `BadgeFeeds`, `SimpleBadge`; `BadgePower`, `BadgeAvatar`, `BadgeScreens` | `Badges`; `Badge` | `BadgesProofs`, `BadgeProofs` |
| 7 | left: `Sessions` feeding `LiveStatus` in one run, instead of any signals; the live channel's rotation of celebrations between `Celebrations` and `BadgeAvatar` | | |

Modules that are proved about use no `RECURSIVE` operator; parameters are
constants with named assumptions; each module's system is a conjunction of named
actions, one per operation.

## 3. The ledger: `Ledger.tla`

**State.** `disk` and `content` are Claude Code's files, `ignored` the homes whose
`projectname.txt` says so. `owner` is the table
`record_owner`; `rows`, `banked` and `alive` are the table `sessions`: its
metrics, its keys and its `alive` column. `fragments` holds one file per remote
on the main server, `published` the records that `claude-stats.json` counts.
`pc` and `work` are the program counter and the local variables of each run.

**Data.** A record is an assistant turn (by `requestId`) or a typed prompt (by
`uuid`). Its weight is one number, the output tokens of its last streamed copy.
A row stores what each record contributes where the code stores sums. Tokens,
costs, words, tools and their tables come from a session's owned records alone, so
this is what those sums are made of. Active time, work sessions and the first and last
date come from all events of a session's files, copied ones included (X:538-544): they
are no sums over records, overlap on purpose, and are `Metrics`'s matter. A file's size
is what its records weigh; `SizeLimit` stands for `MAX_TRANSCRIPT_BYTES`. Session keys are numbers because the code
picks the smallest key.

**Actions and code.**

| Action | Code |
|---|---|
| `Write`, `Resume`, `Prune` | Claude Code, as `discover_projects` and `parse_session_records` meet it (external) |
| `Ignore` | a user's `projectname.txt` (external) |
| `List` | `discover_projects`, `group_files` (X:177, X:217): the homes that are not ignored |
| `Read`, `Skip` | one file of `parse_session_records` (X:243); one that is too large, in every run, or cannot be opened only warns |
| `AssignOwners` | `load_record_owner`, `build_session_metrics` (X:521) |
| `Ship`, `ShipBroken` | `build_fragment`, `ship-fragment.sh` |
| `Commit` | the transaction of `run_full` (X:1538-1570): owners, upserts, fragments, `mark_absent` |
| `Publish` | `load_ledger_rows`, `aggregate`, atomic write |
| `Crash` | SIGKILL, power, an exception: SQLite rolls back |

The commit is one step because SQLite makes it so. Listing a server is one step
because the code lists one user's tree in one glob and sessions of different
users share nothing; files are read in any order and one at a time, so every
interleaving of a deletion with the reads is there.

**Properties.** `CountedOnce`, `NothingInvented`, `RemoteDoubleNeedsPrune`
(state), `LossNeedsUnreadFile` (step), `BankSpec` (refinement of `RecordBank`),
`EventuallyPublished` (liveness). `RecordBank` says what the ledger promises
about copied records: a holder per record, for ever, and credit for the holder
only.

**Fairness.** `WF(RunStep(x))` for each run: the systemd timers
(`ccstats-extract.timer`, `ccstats-fragment.timer`) start a service again after
it ended, whatever its outcome, and a started process goes on. Nothing is assumed
of Claude Code, of broken uploads or of crashes; their number is bounded by
`MaxFaults` (a run that always crashes publishes nothing). `EventuallyPublished`
promises nothing of a transcript over the size limit or in an ignored home.

## 4. The restore points and the live status

### `Backups.tla`

Two writers, the full run and `--mode backup`, each a program counter through
directory, ledger copy, config copy and deletions. The clock ticks between any
two steps. A copy that does not happen is `Miss`: the file is absent, the
directory has been deleted under the writer, or a counted fault. `Kept` is the
keep set of `_prune_backups`; deletions are one directory per step, oldest first,
from a list made once. `good` and `flawed` are history variables. The gate looks
only at the newest name, as the code does.

`Unsettled` names the directories whose writer is still copying or was killed before
it copied anything; what `DailyLedger` expects of a day waits for them, so that its
counterexample is a copy that failed, and not two writers that overlap.
`RestorePoints` says that a day of the father tier that ever had a ledger has one
at least as late, or a named reason why not; `RecentKept` that the son tier is
untouchable. No liveness is claimed, so no fairness is stated; the runs set
`CHECK_DEADLOCK FALSE` because the clock and the faults run out.

### `LiveStatus.tla`

**State.** `st[u]` is the entry of `users` in `main` of `live-monitor.py`, `known`
its set of that name, `feed[m]` the file `--output`, `remote[r]` the uploaded file
in `--merge-dir`, `ship[r]` the shipper thread. Monotonic clocks and
`updated_at` are one clock `now`: machines are assumed to keep time (the code
compares one machine's `updated_at` with another's clock).

**Actions.** `Sample` is one pass of the loop: debounce, turn cap, waiting
override, merge, top status, atomic write. Its inputs are what the code computes
from `/proc`, `ss` and the transcripts, in any combination; only traffic needs a
process. (How it computes them is `Sessions`, section 5.) `Start` and `Crash` are
the service (`Restart=always`); a crash loses the debounce state. `ShipCheck`,
`ShipPut` and `ShipRename` are the thread, which reads the file a second time when
it uploads it; `ShipFail` is a failed push.

**Properties.** `WorkingIsRecent` bounds how long after activity `working` can
be served, over a crash and over a remote that falls silent; `HungTurnDecays`
bounds it by the last traffic; `ActiveIsShown` is the other direction.
`NoFlicker` says what a monitor that keeps running may not do. The history
variables `heldAt`, `netAt` and `runFrom` record when a user was active; no
action reads them.

**Scheduling.** No liveness is claimed: these are bounds in ticks. They rest on
`MaxGap`, the ticks between two samples of a running monitor (the code sleeps
`SAMPLE_INTERVAL`), which `Tick` enforces. A monitor that is down leaves its file
as it is; `feed[m].at` tells how old it is, as `updated_at` does.

## 5. What watches over time: `Monitors.tla`

One clock, one timer per service and box, and the services as modules of their own. In a
tick every timer of a scene fires once, in any order; one that does not is late.
`Monitors` frames each module's actions with what they leave alone, and lets them
meet where the code does: the competition run reads what the limits poller and
the bottleneck monitor wrote.

| Module | Code | State | Actions |
|---|---|---|---|
| `UsageMonitor` | `usage-monitor.py`, the merge with `ship-fragment.sh`'s upload | credentials, backoff per source, held reading, windows that were hit, the served file; `account` is the API's truth | `PollMain`, `PollRemote`, `PollKilled`; `Use`, `Hide` by Claude Code |
| `BottleneckMonitor` | `bottleneck-monitor.py` | transcripts, parse cache, wait budgets, hourly bank | `Sample`, `SampleDuringTurn`, `Crash`, `Boot`; `Turn`, `Answer`, `Flip` |
| `Metrics` | `metrics_from_records`, `combine`, `union_active`, the streak | none: operators, each beside the definition it has to agree with | |
| `Celebrations` | `detect_celebrations`, the measured values | rows, `milestones.json`, `celebrations.json` | `Detect`, `WriteQueue`, `RunKilled`, `Collect` |
| `Peers` | `fetch_peers` | copies, `competition.json` | `FetchPeers`, `Publishes` |
| `Sessions` | `discover`, `sample_net`, `tail_state` with its cache, `scan_sessions` | processes, registry, transcripts with torn lines, sockets, `_state_cache`, `prev_net` | `Measure`, `Stat`, `Parse`; what Claude Code and the network do |
| `NomadSync` | `ccstats-sync.sh`, `handle_ingest` | files and their times, stamp, lock, a run's batch | `BeginSync`, `FindNewer`, `SendBatch`, `SendBroken`, `EndSync`, `SyncKilled`, `Unlock` |
| `NomadLimits` | `ccstats-limits.py`, `handle_limits`, `rebuild_feed` | POSTs under way, readings per account, the feed | `Report`, `Receive`, `PostLost`, `ReceiveKilled`, `Hop` |
| `Migration` | `derootify` of `deploy.sh`, `migrate-peer.sh`, `provision-remote.sh` | crons, units, timer and keys of a box; the running script with its quarantine | `ScriptBegins`, `StepSucceeds`, `StepFails`, `ScriptReports`, `ScriptKilled` |

**Interleaving inside a run.** A pass of `Sessions` measures, then stats and
parses one transcript at a time, and the transcript may grow between the two; a
detection replaces the snapshot in one step and the queue in another; a sync
lists and sends directory by directory while files grow and disappear; the
bottleneck's sample may be overtaken by a turn. A script is a sequence of steps, each
of which may fail, and it may be killed between any two and run again.

**Properties.**

* `LimitsAreHonest`: a live reading is not older than the merge allows; a held one
  shows no window that has reset, and is the truth while nothing was used.
* `DeadTokenRests`: a refused token rests for its backoff and no longer than the
  cap; a refreshed one is tried in the next run, unless one before it was answered.
* `QuestionIsCapped`: the time banked for a question, per time its wait began
  afresh, stays under the cap plus one interval; parallel waits count once.
* `TrophiesAreEarned`: every celebration is for a value that was reached, computed
  by the reference definitions, higher than any before, and none is missed but by
  a kill between snapshot and queue. It crosses `Metrics`, `UsageMonitor`,
  `BottleneckMonitor` and `Celebrations`.
* `TurnIsSeen`, `TrafficIsReal`: after a pass the signals say what the transcripts
  and sockets did, unless they changed while it ran.
* `PeersKeepNumbers`, `StampIsSafe`, `FeedIsHonest`: an outage loses no numbers; no
  transcript misses the sync; the self-hosted feed lists the latest reading of
  every account that may be live.
* `KeepsCollecting`: whatever step of a migration fails, is killed or is run again, a
  box that collected goes on to. Its disjuncts after the first two name what the
  scripts do not undo (section 9).

**Bounds of the model.** Reset times are multiples of a tick (two minutes) and
jitter by minus one second, and the clock is never set: `UsageAssumption` says that the rounding of a window's
key absorbs the jitter, which is what `usage-monitor.py:349-352` counts on. Around the
five-minute boundary it does not hold, and the code counts a window twice. Transcripts'
and the stamp's modification times are distinct; a file system with coarse times
could hide a write in the stamp's tick. A turn of `Sessions` has one record per
tool call; interrupted turns and `MAX_TRANSCRIPT_BYTES` are left out. `ss` and
`discover` are one step each. Posts that a client gave up on stay in order on the
single-threaded receiver. A script's step is done or not done: half-copied files and
units edited by hand are left out, and the daemons count as one with the timers.

## 6. The badges

### Feeds: `Badges.tla`

`HttpsConnection` is `http_client.py` as a relation: a call's outcomes, one for
each way the server and the network can behave, with the socket they leave: an
answer that comes after the timeout stays in it, a closed end is found on the next
request, a warm socket is retried once. A status line that is no number or one word
raises what nobody catches. `BadgeFeeds` is the boot of `main.py`
(join, set the clock, fetch, until it works) and the scheduler of `feeds.py`:
cadence and attempt per feed, backoff, poll and answer, networks that come and go. The
served stats may be JSON that is no object: `_guard_schema`'s subscript ends the program
(`Chokes`), until someone starts the badge again.
`SimpleBadge` is the e-ink badge, which starts anew at every wake from what flash
keeps. `Badges` puts either in front of the same server.

`AnswersMatch`: the body accepted for a feed is that feed's. `OutageIsGentle`:
handshakes during an outage are bounded. `NeverOlder`, `FlashKeeps`: neither badge
goes back to older numbers, nor loses them. `Recovers` (liveness): after any past
faults, boots and outages, a badge with a way to the server shows all it serves.

**Fairness.** `WF_vars(Lcd(Badge))`: the badge's own program keeps running, as its
loop has no other way to stop. Nothing is assumed of the network, the user and the
server: `Recovers` has what it needs of them as its hypothesis.

### The input loop: `Badge.tla`

One pass of `navigation.start` after the other: buttons, gauges (`BadgePower`:
median, hysteresis, latch, cutoff), screens and edit flows (`BadgeScreens`:
registry, settings, the flows of `screens_options.py`), feed answers, avatar
(`BadgeAvatar`: visual states, done flourish, celebrations, the bubble director),
repaint. The program is one record `b`, its methods functions of it. Before the loop comes
the phase `boot`, which sets the brightness once, joins and fetches until it is answered
(`Loaded`), and looks at nothing else.

What is on the panel is four fields: `shown`, the picture (screen or editor, what it
shows of settings and stats, theme and font scale); `chrome`, the connection light and
the word over B, which only a full redraw paints; `footer`, the icons that are repainted
by themselves; `noted`, what the change tracking believes of these. Whether a picture is
the right one is decided by comparing it with the one `draw` would paint now.

`LiveIsSaved`, `PanelIsDimmed` and `PanelIsCurrent` relate panel, settings and
state over every way a flow can end, `PanelIsDimmed` with the setting and the cable
themselves, not with what the loop remembers of them; `CelebrationTakesTheStage`, `DoneIsEarned`
and `BubbleIsDue` are about the avatar; `EmptyCellTurnsOff` (liveness) about the
power-off, of a badge that does not stay in its boot for ever. `b.dropped` names flows that a celebration closed without their
`on_finish`, and notices of a power-off that was called off: the properties say
what these cases, and only these, leave behind (section 9). While such a notice is
up nothing is asked, but time goes by, so it is no gap in the work that `DoneIsEarned`
counts. `beat`, `noted` and `swept` are `_last_charge_frame`'s parity, the footer the
loop noted, and a battery drawn since by its charging animation, which does not note
it: `PanelIsCurrent` has that footer as its third disjunct (section 9).

**Fairness.** `LoopRuns` is weak fairness of the loop's steps: every one of them
changes something, so `ENABLED <<Loop>>` is that the phase is neither `off` nor
`boot`; no fairness says that a boot is answered. The formula is written with that instead of `ENABLED`, which costs TLC a factor of its run time.

## 7. The runs

| Run | Question | Result |
|---|---|---|
| `ledger` | One server; a session with a subagent file, resumed into a session of smaller key; homes ignored for a while; one fault | all six properties hold |
| `ledger_prune` | Does pruning ever lose what is banked, as the docs deny? No fault | violated |
| `ledger_remote` | A remote with a resumed session; two faults, amounts up to 2, of which 1 is still small enough to be read | both properties hold |
| `ledger_recount` | Is a remote's record counted once? No fault | violated |
| `backups` | Two overlapping writers, midnight, a day that leaves the month; one fault | holds |
| `backups_daily` | Does every day keep a ledger? One failed copy | violated |
| `live` | A remote user, his monitor, its shipper and the merge; one crash or failed upload | all five properties hold |
| `live_done` | Is the merged step from working to idle a finished turn? No fault | violated |
| `live_sticks` | Can an old upload alone decide the merged status? No fault | violated |
| `feeds` | Either badge; three feeds, one broken for good; networks, outages, every kind of answer | all six properties hold |
| `badge` | Boot and input loop in nine scenes: editors, celebrations, live status, battery | all eight properties hold |
| `monitors` | Section 5's services in fourteen scenes | all ten properties hold |

**Bounds.** Ledger: a resumed copy needs two sessions; a session that is half
read needs two files; ownership that is chosen wrongly needs the copy to have the
smaller key; streaming needs an amount that grows (`MaxOut = 2`, with the remote).
A crash followed by a full recovery needs one fault, a broken upload and a
failed open two. A transcript that outgrows the limit needs a second amount
(`SizeLimit = 1`, `MaxOut = 2`, with the remote); where pruning is asked about, the limit
is out of reach, so that nothing else can take an amount away. More sessions only repeat these pairs, because rows are updated
independently and owners per record. Backups: a day of two ticks, a month of two
days and five ticks contain midnight, both sides of the son window, and a day
that leaves the father tier; three snapshots per day cannot be told apart by the
keep set, which looks at the newest only. Live status: users are debounced
independently and merged by a maximum, so one remote user, with the main server
merging, meets every code path but the main server's own users, whose debounce is
the remote's; five ticks hold the debounce, the cap, the decay, a stale file and
one restart. The thresholds are one or two ticks, the least that tell a timer
that runs from one that is missing. Section 8's theorems remove these bounds for
most of it.

Feeds: one feed that is slow and may be broken, one that is fast and switched off
on battery, and the stats; three versions, one fault and two events of the world;
backoffs of one and two ticks. A second fault meets a state that the first has
left, or one that recovered from it. Badge: two presets of everything, three
categories with eight screens and one (`DEV`) without any, as in the code, a list of
those rows of DISPLAY that have an effect outside it; up to five presses, four celebrations of three ids where two are
remembered, four changes of power. Monitors: a scene is the set of timers that
fire and a budget for each kind of event (uses, refusals, faults, lines, bytes,
posts, ...); the scenes are the combinations in which two events of different
kinds meet, since the services share only files that are read whole. Two boxes,
two tokens on the main one, two windows, two sessions with three questions, five
rows of events on both sides of midnight, three peers of which two share a slug,
three transcripts in two directories, two accounts on two machines, three runs of the
scripts of which two steps fail or are killed. Scenes of
several services run as one: the limits with the competition, the bottleneck with
the competition, both boxes.

`CHECK_DEADLOCK FALSE` where the clock or the events run out, or the badge is
switched off. Symmetry is not used: sessions are ordered by their keys, and
liveness is checked.

## 8. The proofs

### `LedgerProofs.tla`

For any sessions, files, records, remotes, runs and fault bound that satisfy
`HostAssumption` and `HomeAssumption` (only types: ids live on known servers, the main
server is not a remote, a home is on one server):

| Theorem | Says |
|---|---|
| `TypeCorrect` | `Spec => []TypeOK` |
| `NeverInvents` | `Spec => []NothingInvented` |
| `ImplementsBank` | `OneFullRun => (Spec => BankSpec)` |
| `LocalCountedOnce` | `OneFullRun => (Spec => []CountedOnce)` |
| `LossExplained` | `OneFullRun => (Spec => LossNeedsUnreadFile)` |
| `RemoteDoubleExplained` | `OneRunPerServer => (Spec => []RemoteDoubleNeedsPrune)` |

The hypotheses are on the environment. `OneFullRun`: at most one full run
exists on the main server. systemd guarantees it for the timer's oneshot service;
`deploy.sh:387` breaks it on legacy root installs, where the regeneration may
overlap the cron's run. Without it two runs may choose different owners for one
new record from the same empty table. `OneRunPerServer` says the same of every
server: the fragment service of a migrated node is a oneshot, too, whereas the
every-minute cron of an older one may start a run beside a slow one.

**The invariant.** Neither `CountedOnce` nor the refinement is inductive: what a
run will write at `Commit` was decided two steps earlier. `LedgerInv` adds

* `UnbornEmpty`: a file not yet written has no content;
* `AllSourced`: every amount in a row, in a run's parsed records or in a fragment
  is bounded by a file of that session;
* `OwnedRows`: a local row credits only records it owns;
* `OwnersKnown`: between assignment and commit the owners a full run holds
  extend the table, so `INSERT OR IGNORE` changes none of them (here
  `OneFullRun` is used);
* `BankedCovered`: what a row holds is at most what the session's files hold
  now, so a run that reads them all cannot lower it.

Each action has one step per conjunct it can disturb; `BankSpec` follows from
`OwnedRows` and `OwnersKnown`, `LossNeedsUnreadFile` from `BankedCovered`.

`RemoteDoubleNeedsPrune` needs an invariant of its own, `RemoteInv`, which follows a
record from the files over the run and its fragment to the rows. A fragment carries
a record once (`CarriedOnce`); what a session has that the run did not list
(`RunsListAll`), or that is no longer in its server's fragment (`UnshippedGone`), comes
from a deleted file, unless the run ignored its whole home (`Passed`), in which all other
copies of the record are, too (`Homed`); so does one of two rows with the same record
(`DoubleIsGone`). With
two runs on a remote the second could ship a session that the first has not listed.

### `BackupsProofs.tla`

For any lengths of day, month, interval and window, from `ClockAssumption` (types):

| Theorem | Says |
|---|---|
| `BackupsTyped` | `Spec => []TypeOK` |
| `RecentIsKept` | `Spec => []RecentKept` |
| `DaysAreKept` | `Spec => []RestorePoints` |

`RecentKept` needs two facts more: a list of directories to delete stays out of
the son window as time goes on (`DoomedIsOld`), and who goes on without a ledger
copy has a flawed directory (`SkippedIsFlawed`), so that `Drop` takes nothing.
`RestorePoints` is not inductive because a directory's later sibling may itself be
on another writer's list. `DoomedHasLater` gives every doomed directory of a day
in the window a later safe one; a step costs at most one directory its safety
(`OneLost`), and the one it costs has its own later one, so a day always ends
with a safe directory (`LaterStaysSafe`). The only arithmetic is that the cutoff
day does not go back.

### `LiveProofs.tla`

For any machines, users, thresholds and faults, from `LiveAssumption` (types, the
main server is no remote):

| Theorem | Says |
|---|---|
| `LiveTyped` | `Spec => []TypeOK` |
| `NeverSticks` | `Spec => []WorkingIsRecent` |
| `TurnsDecay` | `Spec => []HungTurnDecays` |
| `WorkIsShown` | `Spec => []ActiveIsShown` |
| `NeverFlickers` | `Spec => NoFlicker` |

Lemmas on `Debounced` say what one sample does with and without a signal. The
invariant of a user joins them over samples: who works was active when last looked
at or has an idle timer started at the next look (`Held`), traffic within the cap
preceded it (`Capped`), and an active run is shown or waits for its timer
(`Running`). `Attended` bounds the gap between two looks. What holds of a user's
own feed holds of every copy of it that the shipper carries (`ServedStays`), and
the merge adds the staleness (`MergedByMain`).

### `PartsProofs.tla`

Two parts of `Monitors` that no other part reads, for any sessions, users, tools,
transcripts, boxes, keys and histories, from `SessionsAssumption` (types):

| Theorem | Says |
|---|---|
| `PassSeesTheTurn` | `SessionsSpec => []TurnIsSeen` |
| `PassSeesTheTraffic` | `SessionsSpec => []TrafficIsReal` |
| `MovesKeepCollecting` | `MigrationSpec => []KeepsCollecting` |

`tail_state` walks a transcript once and keeps what it saw; the lemmas before
`TurnInv` show that every record Claude Code or the human appends, whole or torn,
leaves a walk that says whose turn it is (`Shows`). The walk is a fold over the
lines, so they compare the fold before and after a record: a last line that tells, the
tool calls still open. `TurnInv` then has the two things that make a pass hard: a
cached parse is right while the transcript is as long as when it was parsed
(`CacheIsRight`), and between its stat and its parse a session may move on
(`StatIsRight`, `SoFar`), in which case the pass owes nothing for it. `TrafficInv`
keeps what `ss` saw behind what the sockets carried, by port, so that a socket with a
reused number is never taken for the old one.

In the migration a script is a sequence of steps; `HostAfter` says what each makes of
the host, and the invariant `MigrationInv` says of every place in every script what
holds there or which failed step explains that it does not: before the point of no return the crons or the old
unit still collect, after it the new timer does, and a rollback has put back what it
passed. `KeysAgree` follows a node's data key through hand-over, move and rollback. It
is this invariant, not the property, that needed the failures named one by one.

### `MetricsProofs.tla`

The pure algorithms of section 5's `Metrics`, for every input, from
`MetricsAssumption` (lengths are positive, a night is no longer than a day, and a gap
that counts in full does not end a session):

| Theorem | Says |
|---|---|
| `TimelineIsRight` | a session's spans cover its active minutes and nothing else; total and longest are what they are defined to be |
| `MergeIsRight` | merged spans do not overlap or touch, and cover what the given ones cover |
| `UnionIsRight` | a union of spans counts each minute once, in total, on its day, and at night |
| `CombinedIsRight` | so `combine` counts the active minutes of all sessions once, however many run at a time |
| `StreakIsRight` | the longest streak is the longest run of consecutive days |

Each of them is a fold of the community modules over a sorted sequence: a recursive
function behind a `CHOOSE`, over a sequence behind another. `FoldsExist` shows that the
recursion has a solution, so that the chosen one obeys it; `TimelineChain`,
`MergeChain`, `StreakChain` turn it into a chain of accumulators, one per element.
That every accumulator fits what was seen so far (`TimelineFits` and `CountsAll`,
`Apart`, `StreakFits`) is then a claim about places in a finite chain: if it
failed at some, it would fail at a first (`LeastNumber`, from well-founded induction),
and the step lemmas (`TimelineStep`, `CountsOn`, `MergeStepFits`, `StreakGoesOn`)
rule that out. Sums over sets are treated likewise, by size (`SumsExist`,
`PartsAddUp`). The definitions they are compared with say nothing of order or of
accumulators: sets of minutes, of days, and of stretches.

### `MonitorsProofs.tla`

First the two parts of a self-hosted server by themselves (`SyncSpec`, `LimitsSpec`),
then all of `Monitors`: every step of `MonitorsNext` is a step of one part and leaves
the others' variables alone (the lemmas `ShareOf...`), so what is proved of a part
holds whatever runs beside it.

| Theorem | Says |
|---|---|
| `NothingMissesTheSync` | `SyncSpec => []StampIsSafe` |
| `FeedStaysHonest` | `LimitsSpec => []FeedIsHonest` |
| `PartsStayRight` | `MonitorsSpec => [](TurnIsSeen /\ TrafficIsReal /\ StampIsSafe /\ FeedIsHonest /\ KeepsCollecting)` |
| `LimitsStayHonest` | `MonitorsSpec => LimitsAreHonest` |
| `QuestionsStayCapped` | `MonitorsSpec => []QuestionIsCapped` |
| `PeersStayNumbered` | `MonitorsSpec => PeersKeepNumbers` |
| `TokensRest` | `MonitorsSpec => DeadTokenRests` |
| `TrophiesStayEarned` | `MonitorsSpec => []TrophiesAreEarned` |

* *The sync* (`SyncInv`). `SentSoFar`: while nothing has failed, what a run is through
  with and what was there when its stamp was made has arrived. `BatchIsNewer`: only
  what is newer than the stamp is ever sent, so that a broken transfer cannot damage
  what the stamp promises. `ClockLeads` orders clock, stamps and files.
* *The self-hosted feed* (`LimitsInv`). No POST is older than a client's timeout
  (`PostsAreYoung`), so a reading that was overtaken lags by no more
  (`LittleOvertaken`); what the feed shows of an account is its reading, but after a
  POST that did not rebuild it (`FeedShowsReadings`); its rows agree with its own time
  (`FeedIsConsistent`).
* *The served limits* (`UsageInv`). Every reading, main or remote, uploaded or held, was
  true when it was taken and still is if nothing was used since (`SaysTruly`). A poll
  makes one (`BuiltIsTrue`), holding, merging and uploading keep it one, and time only
  empties windows on both sides.
* *The bottleneck* (`BottleneckInv`). What is banked of a question fits one cap and one
  interval for every wait that began; a wait that goes on has the rest of its cap to
  come (`BudgetsHold`). The bank's total is at most the time that passed, because each
  sample banks the interval once, however many wait (`BankIsTrue`). The loop looks at
  least every `MaxElapsed` (`SamplesInTime`, the guard of `Tick`), which `Dies` and
  `Boots` begin afresh.
* *The peers* (`PeersInv`). A copy is the last that was kept of a peer with its slug, so
  of a slug of its own it is the last of that peer.
* *The tokens* (`RestInv`). The poll state of a source and the history of its refusals
  say the same: the same token, as often in a row, resting since the last
  (`PollKnows`). No token is newer than one Claude Code would write now, so the
  eligible tokens that would be accepted have a first, and it is asked (`SomeIsAsked`).
  Every box runs its own systemd, so every box has a timer of its own: with one timer
  for all remotes, a remote whose turn another took would have left a refreshed
  token untried, and the theorem would not hold.
* *The celebrations* (`PushedInv`, `CelebrationsInv`). What a run measures is never more
  than what is true (`MeasuredIsRight`): the metrics by the theorems above, the session
  pushes because every key in `hits` is the rounded reset time of a window that got hot
  (`PushedInv`: wherever a hot reading is, its window was pushed; `JitterCollapses`: its
  key does not hang on the jitter; so there are no more keys than windows). What is true
  only grows (`ValuesGrow`), the bank included (`BankGrows`), so an event stays earned.
  `CelebrationsInv` ties the snapshot to the events: it has at least what any event was
  for, so the next one is for more (`Rising`); and it rises above the seed only with an
  event, queued or fresh, unless a killed run lost it. Both invariants were checked by
  TLC on the scenes of the run `monitors` first.

The assumptions are those of the parts and `MonitorsAssumption`: types, rows that are
finite and not empty, a snapshot of the right shape or none, a first window called
"session", a rounding that absorbs the jitter. The bank's total and a run over the peers
are folds, treated as in `MetricsProofs`: what the total becomes when one question's
minutes are raised, and what the run has done after k peers.

### `BadgesProofs.tla`

For any feeds (at least two: the boot asks for an optional one), cadences, backoffs,
networks and faults, from `FeedsAssumption` and `BadgesAssumption` (types, and that
doubling `BackoffStart` reaches `BackoffMax`, which it always does: the provers
know nothing of powers, and induction over them is out of their reach):

| Theorem | Says |
|---|---|
| `AnswersAlwaysMatch` | `Spec => []AnswersMatch` |
| `NothingGetsOlder` | `Spec => NeverOlder` |
| `FlashNeverLoses` | `Spec => FlashKeeps` |
| `OutagesAreGentle` | `Spec => []OutageIsGentle` |
| `BadgesAreTyped` | `Spec => []BadgesTypeOK` |

The core is `GetIsClean`: whatever a call meets, the socket it leaves holds no unread
answer, because every exception closes it; so the next answer is to its own
request. What a feed shows is then a version the server had (`FromServer`,
`FlashFromServer`), and versions only grow.

`OutageIsGentle` compares a count with a quotient, and is not inductive. `BackoffInv`
tells where the time went: until the backoff is longest there is at most one
handshake per failure; after that, one longest backoff for each further handshake
(`Waits`) and what has passed of the present one fit in the outage. A poll during a
backoff makes no handshake (`PollBacksOff`), and one after the longest has waited for
all of it (`LongestWait`).

`BadgesTypeOK` needs what it does not say: cadences are at most `MaxCadence`
(`CadencesBounded`), a call's result is one a call can give (`PollOutcome`), and a
join finds a network that is on the air (`JoinedOnAir`).

### `BadgeProofs.tla`

For any registry, categories, palettes, fonts, sprites, rows, intervals, times, answers
and buttons, from `PowerAssumption`, `AvatarAssumption`, `ScreensAssumption` and
`BadgeAssumption` (types; screens and categories have one place each, some screen is no option, the
options are among the screens and `options_display` is the first of them, a celebration
has an id, times are positive where the code's constants are):

| Theorem | Says |
|---|---|
| `BadgeIsTyped` | `BadgeSpec => []BadgeTypeOK` |
| `SafeLive` | `BadgeSpec => []LiveIsSaved` |
| `SafePanel` | `BadgeSpec => []PanelIsDimmed` |
| `SafePicture` | `BadgeSpec => []PanelIsCurrent` |
| `SafeBubble` | `BadgeSpec => []BubbleIsDue` |
| `DoneOnlyWhenEarned` | `BadgeSpec => DoneIsEarned` |
| `CelebratedOnce` | `BadgeSpec => CelebrationTakesTheStage` |

A pass composes a dozen steps on one record, and so does its proof. A lemma for every
step says which fields it leaves alone (`Keeps`), that the badge stays `Sound` (settings
and what is seen of them alike, every flow inside its list, the panel as bright as
chosen, the animator's edges behind it), and that a full redraw is asked for unless the
panel has the same to show (`Carries`). `PassKeeps` composes them. `BadgeInv`, inductive
over the actions, adds what the repaint leaves: the picture, the footer as noted
(`Noted`), the light and the word over B (`Chromed`: the animator was told of the last
edge, `Informed`, and asked for a redraw on the avatar's screen), the backlight
(`Dimmed`: after every pass the loop's memory of it is the setting and the cable), the
bubble (`Spoken`). A boot (`Boots`) has the brightness it was started with until the
first pass sets it.

`BadgeTypeOK`, that the indices of the loop are inside the lists they are for, is not
inductive: a reset in the display menu brings hidden screens back, rebuilds the lists
and leaves `category` and `screen` as they are, and the next pass indexes with them.
`TypedInv` has what saves it. Every list the settings can leave has a screen, there is
always a category with the options, `options_display` is nowhere but at the start of
its category (`Menu`), and the display menu is only open there, on screen 0 of a
category whose number no restored category moves outside the list (`Placed`). The lists
are filtered copies of the registry; `Nth` picks the k-th of a set of places by its rank,
and the lemmas `Ranks`, `NthIs` and `PickedIs` say, by the least number of a rank, that a
filtered list has what passes the filter, in order and nothing else. The rest of
`TypedInv` is the animator's face (`Faced`) and the gauge (`Metered`).

The histories have invariants of their own on top of it. `DoneInv`: the work the animator
counts is no more than the work that was seen. `StageInv`: for every id that was
celebrated, the ids read since are either remembered after it, in which case it is not
fresh, or so many that it may have been forgotten (`Remembers`, `ReadsOn`,
`RemembersOn`). Both need of a pass that it asks the animator exactly once, with
the answers it has by then (`Asked`, `Heeds`).

### Only model-checked

Liveness (`EventuallyPublished`, `Recovers`, `EmptyCellTurnsOff`) is out of the prover's
reach. Every other property that a passing run checks is a theorem of section 8.

## 9. Where the code and its documentation differ

1. *A transcript deleted while a run is collecting* (`ledger_prune`). The session
   was listed, so it keeps its key, and its row is replaced by the metrics of the
   files that could be opened. `docs/architecture.md:70-71`: "pruning never loses
   stats". `LossNeedsUnreadFile` says this is the only way, and the theorem that
   it is. A file that outgrows `MAX_TRANSCRIPT_BYTES` (X:258) is lost the same way, for
   good.
2. *A remote's resumed session outlives the original* (`ledger_recount`). A
   fragment run starts from no owners, so the survivor becomes the owner, and the
   main server keeps both rows. `docs/architecture.md:72-74`: "counted once and
   never re-counted by a surviving copy even after the owning session is deleted".
3. *A failed ledger copy* (`backups_daily`). The snapshot directory is kept for
   its config, becomes the newest of its day, and the good one of that day is
   pruned a day later. (A day is judged when nobody writes to it any more.) `docs/architecture.md:85-86, 95-97`: a consistent set, daily
   restore points.
4. *A late upload in the middle of a turn* (`live_done`). A stale file forces its
   users from working to idle without any debounce, so the merged status takes the
   step that the page and the badge show as done. `docs/architecture.md:146-148`:
   "idle is already debounced upstream, so this isn't a mid-stream gap".
5. *A remote that stops shipping while waiting* (`live_sticks`). Only working is
   forced to idle. `docs/remote-fragment.md:130-132`: "so the global state never
   sticks".

Met while modelling, and stated in the properties as their exceptions or beside
the definitions, but without a run of their own:

6. *A celebration closes an open editor* without its `on_finish`
   (`navigation.py:254-267`): brightness keeps its preview, and a changed screen
   list is saved but not navigated by. `screens_options.py:129-130` says otherwise.
7. *A power-off that is called off* leaves its notice on the panel until something
   else changes; the comment at `navigation.py:419` says it is redrawn. USB plugged in
   after the last check still powers off. And a boot without a network
   never looks at the cell (`main.py:259, 308`), so a badge woken with an empty one is not
   switched off; `navigation.py:383`: "so the Li-ion cell is never drained toward its
   damage zone".
8. *`fetch_due` "never raises"*, but a status line or a length that is no number is
   a `ValueError`, one of a single word an `IndexError`, stats that are no object a
   `TypeError`, and each ends the program; so does a body that is no JSON at boot,
   where the badge is to retry for ever, and an `IndexError` of an optional feed there. On the e-ink badge a failure of the limits
   empties the accounts without an error.
9. *Waiting "is inferred exactly like the live monitor"* (`bottleneck-monitor.py:27`):
   the bottleneck monitor counts meta and sidechain lines that `tail_state` skips. The
   cap is exceeded by up to one interval, and a file that cannot be read, or a
   restart, forgets the budget.
10. *"A stale read never hides real change"* (`usage-monitor.py:41-42`): it does when the
    token of a session that is working is refused. A merged reading's
    `resets_in_sec` is not recomputed.
11. *The self-hosted feed is rebuilt by a POST only*: the last account to fall silent
    stays live for ever, though `nomad/README.md` calls it stale after 180 s. A late POST
    replaces a newer reading of its account.
12. *A peer that serves JSON of another shape* is copied before `dict()` raises
    (X:1123): the whole competition feed stands still, from the copy even while the
    peer is down. `docs/schema.md:159` promises its last good payload. Peers whose slugs
    collide share a copy.
13. *The sync's lock directory* survives a kill without a trap and blocks every later
    run; extraction is in place, so a full run may read half a transcript.
14. *A failed `ss`* silences two passes: the next one has nothing to compare with.
15. *A failed step of a migration is passed over*, because bash ignores `set -e` inside
    `if ( ... ); then` (`migrate-peer.sh:28-31`, `deploy.sh:240`); `CHANGELOG.md:63-65`
    promises a rollback "if any step fails". A timer that could not be enabled leaves a
    node with neither cron nor timer, and a failed extraction or publication check
    (`deploy.sh:341`) does not stop the main server's.
16. *The main server's rollback disables the timers* (`deploy.sh:365`) also where there
    are no crons to go back to: a box that was migrated before, or whose crons an
    earlier, killed run left in quarantine, stops collecting. A node whose key is
    replaced after its migration keeps the collector's old one (`migrate-peer.sh:117`), so
    its next migration fails and rolls back every time; `docs/migrate-derootify.md:6`
    calls it safe to re-run.
17. *The charging animation does not note what it draws* (`animate_battery_if_due`), so a
    charger that is pulled again right after leaves its icon, as what was noted and what
    is so agree; `navigation.py:341` promises a repaint the moment a value changes.
18. *The connection light* is "palette status pen while fetches succeed, black while
    they are failing" (`screen_shared.py:83-85`), but only a full redraw paints it, and
    only on the avatar's screen does an outage ask for one. Any other screen keeps the
    light of its last redraw, until its next tick, answer or button. The word over B
    on the avatar's screen likewise: with LIVE on, plugging and unplugging leave it.

## 10. What is not modelled

* Rendering, fonts, sprites, formatters and layout, the web pages: pure output.
* Token sums, projects, models and hourly tables of `aggregate` and the other fields
  of the competitor payload: sums over what `Ledger` guards and `Metrics` measures.
* The live channel's rotation of celebration directives (a pure function of time);
  I/O and modification-time diagnostics of the live monitor, which decide nothing.
* Installers, the copying of files, prompts and the live channel's unit in `deploy.sh`
  and `provision-remote.sh`; service templates, except for what they guarantee about
  scheduling.
* An unreadable `milestones.json`, which is seeded anew without a word.
* A transcript or registry line that is JSON but no object: `r.get` after `json.loads`
  (X:278; `bottleneck-monitor.py:101, 158`) raises what neither `extract.py` nor the
  bottleneck monitor catches, so every run fails, and the daemon is restarted in vain, while
  the line is there. Claude Code writes none; `Ledger`'s `Crash` and
  `BottleneckMonitor`'s are what it would look like once, not for ever.
* What a reader sees while the receiver rewrites the self-hosted feed in place: a killed
  rewrite is `None` in `NomadLimits`, and `FeedIsHonest` says only that the next POST
  repairs it. Likewise `RestorePoints`, `KeepsCollecting` and `LiveIsSaved` name the cases in
  which the code fails them, instead of failing.
* A queue of celebrations that is lost because it cannot be read (X:1277): that events
  are carried over is modelled, that they are shown is not a property.
* Clocks that are set back or forth.
* Request validation and authentication of the receiver; development tools.

`PROJECT.json` gives every component's status, and for each hazard that no property
covers the reason.

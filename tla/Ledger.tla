------------------------------- MODULE Ledger -------------------------------
(***************************************************************************)
(* The all-time ledger of server/pipeline/extract.py.                      *)
(*                                                                         *)
(* Claude Code writes one transcript per session (plus files for its       *)
(* subagents) and deletes old ones.  On the main server a full run lists   *)
(* the transcripts, parses every session, gives each record id an owner    *)
(* and replaces each session's row in a SQLite ledger, in one transaction; *)
(* it then folds in the fragments that the remote servers have uploaded    *)
(* and publishes the aggregate.  A remote's fragment run is the same       *)
(* collection with no memory of owners.                                    *)
(*                                                                         *)
(* Data abstraction: a record (an assistant turn or a typed prompt) is a   *)
(* model value, and its weight is one number, the cumulative output tokens *)
(* of its last streamed copy (0: not in the file).  A row keeps what each  *)
(* record contributes to it, where the code keeps only the sums.           *)
(***************************************************************************)
EXTENDS Integers, FiniteSets, FiniteSetsExt

CONSTANTS
  Main,       \* the server that keeps the ledger
  Remotes,    \* servers that upload fragments
  Sessions,   \* ledger keys "server:sessionId"; numbers, since min() picks one
  HomeOf,     \* HomeOf[s]: the home directory session s belongs to
  HostOf,     \* HostOf[s]: the server session s runs on
  Files,      \* transcript files
  SessionOf,  \* SessionOf[f]: the session the path of f names
  Records,    \* requestIds and prompt uuids
  Origin,     \* Origin[r]: the file Claude Code first writes r to
  MaxOut,     \* bound on a record's output tokens
  SizeLimit,  \* the size beyond which a transcript is not read
  Runs,       \* processes that run extract.py
  RunHost,    \* RunHost[x]: the server process x runs on
  NoOwner,    \* not a session: the record id has no row in record_owner
  MaxFaults   \* bound on crashes, failed opens and broken uploads

Servers == {Main} \cup Remotes

ASSUME HostAssumption ==
  /\ Main \notin Remotes
  /\ Sessions \subseteq Nat
  /\ NoOwner \notin Sessions
  /\ HostOf \in [Sessions -> Servers]
  /\ SessionOf \in [Files -> Sessions]
  /\ Origin \in [Records -> Files]
  /\ RunHost \in [Runs -> Servers]
  /\ MaxOut \in Nat
  /\ MaxFaults \in Nat

\* A home directory is on one server, its size limit a number of bytes.
ASSUME HomeAssumption ==
  /\ \A s, t \in Sessions : HomeOf[s] = HomeOf[t] => HostOf[s] = HostOf[t]
  /\ SizeLimit \in Nat

VARIABLES
  disk,       \* disk[f]: not written yet, present, or deleted
  content,    \* content[f][r]: output tokens of r in f, as last written
  ignored,    \* the homes whose projectname.txt says "ignore"
  owner,      \* table record_owner of ledger.db
  rows,       \* rows[s][r]: what r contributes to s's row in table sessions
  banked,     \* the sessions that have a row
  alive,      \* the rows with alive=1
  fragments,  \* fragments[h]: the file of remote h in fragments/
  published,  \* the records counted in claude-stats.json
  pc,         \* pc[x]: where run x is
  work,       \* work[x]: the local variables of run x
  faults      \* crashes, failed opens and broken uploads so far

transcripts == <<disk, content, ignored>>
ledger == <<owner, rows, banked, alive>>
vars == <<disk, content, ignored, owner, rows, banked, alive, fragments,
          published, pc, work, faults>>

-----------------------------------------------------------------------------

Local == {s \in Sessions : HostOf[s] = Main}
FilesOf(s) == {f \in Files : SessionOf[f] = s}
Homes == {HomeOf[s] : s \in Sessions}

\* discover_projects: the transcripts of host h, but for the ignored homes'.
LiveOn(h) == {f \in Files : /\ disk[f] = "live" /\ HostOf[SessionOf[f]] = h
                            /\ HomeOf[SessionOf[f]] \notin ignored}

\* A transcript over MAX_TRANSCRIPT_BYTES; its size is what its records weigh.
Oversized(f) == MapThenSumSet(LAMBDA r : content[f][r], Records) > SizeLimit
Readable(f) == disk[f] = "live" /\ ~Oversized(f)

Amounts == [Records -> 0 .. MaxOut]
Nothing == [r \in Records |-> 0]
NoRows == [s \in Sessions |-> Nothing]
Owners == [Records -> Sessions \cup {NoOwner}]
NoOwners == [r \in Records |-> NoOwner]

\* min(keys): the smallest of a non-empty set of session keys.
Smallest(S) == CHOOSE k \in S : \A j \in S : k <= j

Larger(m, n) == IF m > n THEN m ELSE n

\* What a run holds: the files it listed, those it has yet to read and those it
\* could open, the parsed records of each session, and their owners.
RunData == [listed : SUBSET Files, todo : SUBSET Files, opened : SUBSET Files,
            recs : [Sessions -> Amounts], owner : Owners]

\* A run between two timer ticks.
Fresh == [listed |-> {}, todo |-> {}, opened |-> {}, recs |-> NoRows,
          owner |-> NoOwners]

\* A fragment file that is missing or not valid JSON.
Unreadable == [ok |-> FALSE, keys |-> {}, rows |-> NoRows]

TypeOK ==
  /\ disk \in [Files -> {"unborn", "live", "gone"}]
  /\ content \in [Files -> Amounts]
  /\ ignored \subseteq Homes
  /\ owner \in Owners
  /\ rows \in [Sessions -> Amounts]
  /\ banked \subseteq Sessions
  /\ alive \subseteq banked
  /\ fragments \in [Remotes -> [ok : BOOLEAN, keys : SUBSET Sessions,
                                rows : [Sessions -> Amounts]]]
  /\ published \subseteq Records
  /\ pc \in [Runs -> {"idle", "parse", "assigned", "committed"}]
  /\ work \in [Runs -> RunData]
  /\ faults \in 0 .. MaxFaults

Init ==
  /\ disk = [f \in Files |-> "unborn"]
  /\ content = [f \in Files |-> Nothing]
  /\ ignored = {}
  /\ owner = NoOwners
  /\ rows = NoRows
  /\ banked = {}
  /\ alive = {}
  /\ fragments = [h \in Remotes |-> Unreadable]
  /\ published = {}
  /\ pc = [x \in Runs |-> "idle"]
  /\ work = [x \in Runs |-> Fresh]
  /\ faults = 0

-----------------------------------------------------------------------------
(***************************************************************************)
(* Claude Code, as the extractor sees it.                                  *)
(***************************************************************************)

\* A record is written, or streamed further: its output tokens only grow.
Write(r) ==
  LET f == Origin[r] IN
  /\ disk[f] # "gone"
  /\ content[f][r] < MaxOut
  /\ content' = [content EXCEPT ![f][r] = @ + 1]
  /\ disk' = [disk EXCEPT ![f] = "live"]
  /\ UNCHANGED <<ignored, ledger, fragments, published, pc, work, faults>>

\* A resumed session starts as a copy of an older session's transcript.
Resume(f, g) ==
  /\ SessionOf[f] # SessionOf[g]
  /\ HomeOf[SessionOf[f]] = HomeOf[SessionOf[g]]
  /\ disk[f] = "live"
  /\ disk[g] = "unborn"
  /\ content' = [content EXCEPT ![g] = content[f]]
  /\ disk' = [disk EXCEPT ![g] = "live"]
  /\ UNCHANGED <<ignored, ledger, fragments, published, pc, work, faults>>

\* Cleanup deletes an old file; a session goes one file at a time.
Prune(f) ==
  /\ disk[f] = "live"
  /\ disk' = [disk EXCEPT ![f] = "gone"]
  /\ UNCHANGED <<content, ignored, ledger, fragments, published, pc, work, faults>>

\* A user writes "ignore" into projectname.txt, or takes it out again.
Ignore(h) ==
  /\ ignored' = IF h \in ignored THEN ignored \ {h} ELSE ignored \cup {h}
  /\ UNCHANGED <<disk, content, ledger, fragments, published, pc, work, faults>>

-----------------------------------------------------------------------------
(***************************************************************************)
(* Collection: the same on the main server and on a remote.                *)
(***************************************************************************)

\* discover_projects and group_files: list the transcripts, group by session.
List(x) ==
  /\ pc[x] = "idle"
  /\ LET listed == LiveOn(RunHost[x]) IN
       work' = [work EXCEPT ![x] = [Fresh EXCEPT
                  !.listed = listed,
                  !.todo = listed]]
  /\ pc' = [pc EXCEPT ![x] = "parse"]
  /\ UNCHANGED <<transcripts, ledger, fragments, published, faults>>

\* Within a session each record is kept once, its largest streamed copy.
ParseFile(parsed, f) ==
  [r \in Records |-> Larger(parsed[r], content[f][r])]

\* The data d of a run after it has read file f.
HavingRead(d, f) ==
  [d EXCEPT !.todo = @ \ {f},
            !.opened = @ \cup {f},
            !.recs[SessionOf[f]] = ParseFile(@, f)]

\* parse_session_records reads the listed files one after the other.
Read(x, f) ==
  /\ pc[x] = "parse"
  /\ f \in work[x].todo
  /\ Readable(f)
  /\ work' = [work EXCEPT ![x] = HavingRead(@, f)]
  /\ UNCHANGED <<transcripts, ledger, fragments, published, pc, faults>>

\* A listed file that is too large, or cannot be opened because it was deleted
\* since or because of a fault, is skipped with a warning: its session keeps its
\* key and gets metrics from the files that are left, if any.
Skip(x, f) ==
  /\ pc[x] = "parse"
  /\ f \in work[x].todo
  /\ Readable(f) => faults < MaxFaults
  /\ faults' = IF Readable(f) THEN faults + 1 ELSE faults
  /\ work' = [work EXCEPT ![x].todo = @ \ {f}]
  /\ UNCHANGED <<transcripts, ledger, fragments, published, pc>>

\* The sessions this run has a row for, whatever it could read of them.
Keys(x) == {SessionOf[f] : f \in work[x].listed}

\* The sessions whose parsed records hold r.
Holders(x, r) == {s \in Keys(x) : work[x].recs[s][r] > 0}

\* Mutant: owners worked out from this run's transcripts alone.
OwnersAfresh(x, known) ==
  [r \in Records |-> IF Holders(x, r) = {} THEN NoOwner
                                         ELSE Smallest(Holders(x, r))]

\* build_session_metrics, first half: an owner already known wins, a new record
\* id goes to the smallest session key that holds it.
OwnersFrom(x, known) ==
  [r \in Records |->
     IF known[r] # NoOwner THEN known[r]
     ELSE IF Holders(x, r) = {} THEN NoOwner
     ELSE Smallest(Holders(x, r))]

\* A full run starts from the record_owner table, a fragment run from {}.
KnownOwners(x) == IF RunHost[x] = Main THEN owner ELSE NoOwners

AssignOwners(x) ==
  /\ pc[x] = "parse"
  /\ work[x].todo = {}
  /\ work' = [work EXCEPT ![x].owner = OwnersFrom(x, KnownOwners(x))]
  /\ pc' = [pc EXCEPT ![x] = "assigned"]
  /\ UNCHANGED <<transcripts, ledger, fragments, published, faults>>

\* Mutant: a session counts every record it holds.
MetricsOfAll(x, s) == work[x].recs[s]

\* build_session_metrics, second half: a session counts the records it owns.
MetricsOf(x, s) ==
  [r \in Records |-> IF work[x].owner[r] = s THEN work[x].recs[s][r] ELSE 0]

-----------------------------------------------------------------------------
(***************************************************************************)
(* A remote: ship-fragment.sh.                                             *)
(***************************************************************************)

Finish(x) ==
  /\ pc' = [pc EXCEPT ![x] = "idle"]
  /\ work' = [work EXCEPT ![x] = Fresh]

\* The upload replaces the remote's file on the main server.
Ship(x) ==
  /\ pc[x] = "assigned"
  /\ RunHost[x] \in Remotes
  /\ fragments' = [fragments EXCEPT ![RunHost[x]] =
                     [ok |-> TRUE, keys |-> Keys(x),
                      rows |-> [s \in Sessions |->
                                  IF s \in Keys(x) THEN MetricsOf(x, s)
                                                   ELSE Nothing]]]
  /\ Finish(x)
  /\ UNCHANGED <<transcripts, ledger, published, faults>>

\* The upload writes onto the final name: broken off, it leaves half a file.
ShipBroken(x) ==
  /\ pc[x] = "assigned"
  /\ RunHost[x] \in Remotes
  /\ faults < MaxFaults
  /\ faults' = faults + 1
  /\ fragments' = [fragments EXCEPT ![RunHost[x]] = Unreadable]
  /\ Finish(x)
  /\ UNCHANGED <<transcripts, ledger, published>>

-----------------------------------------------------------------------------
(***************************************************************************)
(* The main server: the transaction of run_full.                           *)
(***************************************************************************)

\* INSERT OR IGNORE INTO record_owner: an id that is there keeps its owner.
PersistOwners(x) ==
  [r \in Records |-> IF owner[r] = NoOwner THEN work[x].owner[r] ELSE owner[r]]

\* The sessions of every fragment that can be read.
FragmentKeys == UNION {fragments[h].keys : h \in Remotes}

\* The sessions run x upserts: its own, then those of the fragments.
Seen(x) == Keys(x) \cup FragmentKeys

\* Mutants: the new metrics are added to the row; an existing row is kept as it
\* is; the table is rebuilt from the sessions of this run.
UpsertRowsAdding(x) ==
  [s \in Sessions |->
     IF s \in Keys(x)
     THEN [r \in Records |-> rows[s][r] + MetricsOf(x, s)[r]]
     ELSE IF s \in FragmentKeys
     THEN [r \in Records |-> rows[s][r] + fragments[HostOf[s]].rows[s][r]]
     ELSE rows[s]]
UpsertRowsOnce(x) ==
  [s \in Sessions |->
     IF s \in banked THEN rows[s]
     ELSE IF s \in Keys(x) THEN MetricsOf(x, s)
     ELSE IF s \in FragmentKeys THEN fragments[HostOf[s]].rows[s]
     ELSE rows[s]]
UpsertRowsRebuilt(x) ==
  [s \in Sessions |->
     IF s \in Keys(x) THEN MetricsOf(x, s)
     ELSE IF s \in FragmentKeys THEN fragments[HostOf[s]].rows[s]
     ELSE Nothing]

\* upsert_row replaces the metrics of a row; the other rows are retained.
UpsertRows(x) ==
  [s \in Sessions |->
     IF s \in Keys(x) THEN MetricsOf(x, s)
     ELSE IF s \in FragmentKeys THEN fragments[HostOf[s]].rows[s]
     ELSE rows[s]]

\* mark_absent: alive=0 for the unseen rows of the servers that were seen.
MarkAbsent(x) ==
  LET processed == {HostOf[s] : s \in Seen(x)} IN
  (alive \cup Seen(x)) \ {s \in Sessions : HostOf[s] \in processed
                                             /\ s \notin Seen(x)}

Commit(x) ==
  /\ pc[x] = "assigned"
  /\ RunHost[x] = Main
  /\ owner' = PersistOwners(x)
  /\ rows' = UpsertRows(x)
  /\ banked' = banked \cup Seen(x)
  /\ alive' = MarkAbsent(x)
  /\ pc' = [pc EXCEPT ![x] = "committed"]
  /\ UNCHANGED <<transcripts, fragments, published, work, faults>>

\* load_ledger_rows, aggregate, and the atomic replacement of the JSON file.
Publish(x) ==
  /\ pc[x] = "committed"
  /\ published' = {r \in Records : \E s \in banked : rows[s][r] > 0}
  /\ Finish(x)
  /\ UNCHANGED <<transcripts, ledger, fragments, faults>>

\* A run dies: its transaction, if not yet committed, is rolled back.
Crash(x) ==
  /\ pc[x] # "idle"
  /\ faults < MaxFaults
  /\ faults' = faults + 1
  /\ Finish(x)
  /\ UNCHANGED <<transcripts, ledger, fragments, published>>

-----------------------------------------------------------------------------

RunStep(x) ==
  \/ List(x)
  \/ \E f \in Files : Read(x, f) \/ Skip(x, f)
  \/ AssignOwners(x)
  \/ Ship(x)
  \/ Commit(x)
  \/ Publish(x)

Next ==
  \/ \E r \in Records : Write(r)
  \/ \E f, g \in Files : Resume(f, g)
  \/ \E f \in Files : Prune(f)
  \/ \E h \in Homes : Ignore(h)
  \/ \E x \in Runs : List(x)
  \/ \E x \in Runs, f \in Files : Read(x, f)
  \/ \E x \in Runs, f \in Files : Skip(x, f)
  \/ \E x \in Runs : AssignOwners(x)
  \/ \E x \in Runs : Ship(x)
  \/ \E x \in Runs : ShipBroken(x)
  \/ \E x \in Runs : Commit(x)
  \/ \E x \in Runs : Publish(x)
  \/ \E x \in Runs : Crash(x)

\* A systemd oneshot service never runs beside itself.  (The legacy install of
\* deploy.sh:387 starts full runs that systemd does not know of.)
OneFullRun ==
  \A x, y \in Runs : RunHost[x] = Main /\ RunHost[y] = Main => x = y

\* Neither does a remote's.  (The cron of a node that has not been migrated may
\* start a run beside a slow one.)
OneRunPerServer == \A x, y \in Runs : RunHost[x] = RunHost[y] => x = y

\* The systemd timers start every service again and again, and a run does not
\* stop by itself; nothing makes Claude Code write, resume or delete, or a user
\* ignore a home.
Spec == Init /\ [][Next]_vars /\ \A x \in Runs : WF_vars(RunStep(x))

-----------------------------------------------------------------------------

(***************************************************************************)
(* Properties.                                                             *)
(***************************************************************************)

\* A record copied into several transcripts of the main server is counted in
\* one row at most, whichever of them are still there (extract.py:28-31).
CountedOnce ==
  \A r \in Records, s, t \in Local :
    rows[s][r] > 0 /\ rows[t][r] > 0 => s = t

\* Running again never adds: a row holds no more of a record than Claude Code
\* wrote to one of the session's own files (extract.py:26-27, "idempotent").
NothingInvented ==
  \A s \in Sessions, r \in Records :
    rows[s][r] > 0 => \E f \in FilesOf(s) : content[f][r] >= rows[s][r]

\* The ledger of local sessions implements the abstract bank: an owner is never
\* replaced, and no run credits a record to a session that does not own it.
Bank == INSTANCE RecordBank WITH Accounts <- Local, holder <- owner,
                                 credit <- [s \in Local |-> rows[s]]
BankSpec == Bank!Spec

\* A banked amount of a local session falls only in a run that listed the
\* session and could not read one of the files it has ever had: a session the
\* run did not list is retained, and one it read whole has only grown.
LossNeedsUnreadFile ==
  [][\A s \in Local, r \in Records :
       rows'[s][r] < rows[s][r] =>
         \E x \in Runs :
           /\ pc[x] = "assigned" /\ pc'[x] = "committed"
           /\ s \in Keys(x)
           /\ \E f \in FilesOf(s) : disk[f] # "unborn" /\ f \notin work[x].opened]_vars

\* What the documentation says instead: pruning, or a failed read, never loses
\* what is banked (docs/architecture.md:70-71).
PruningNeverLoses ==
  [][\A r \in Records : \A s \in Local :
       rows[s][r] > 0 => \E t \in Local : rows'[t][r] >= rows[s][r]]_vars

\* In the rows of a remote a record is counted twice only once a transcript
\* that held it has been deleted there: one fragment alone never repeats it.
RemoteDoubleNeedsPrune ==
  \A r \in Records, s, t \in Sessions :
    s # t /\ HostOf[s] = HostOf[t] /\ rows[s][r] > 0 /\ rows[t][r] > 0 =>
      \E f \in FilesOf(s) \cup FilesOf(t) : disk[f] = "gone" /\ content[f][r] > 0

\* What the documentation says instead, of every session the main server banks
\* (docs/architecture.md:72-74; extract.py:1553, "cross-dedup done on the remote").
RemoteCountedOnce ==
  \A r \in Records, s, t \in Sessions :
    HostOf[s] = HostOf[t] /\ rows[s][r] > 0 /\ rows[t][r] > 0 => s = t

\* A record in a transcript that stays, small enough and of no ignored home, is
\* in the published totals eventually, from whichever server; but not if its
\* owner lost a file, and with it the record, while the copy remains: deleted, or
\* grown too large to be read.
OnDisk(r) == \E f \in Files : /\ Readable(f) /\ content[f][r] > 0
                              /\ HomeOf[SessionOf[f]] \notin ignored
OwnerLost(r) ==
  owner[r] # NoOwner /\ \E f \in FilesOf(owner[r]) : disk[f] = "gone" \/ Oversized(f)
EventuallyPublished ==
  \A r \in Records :
    OnDisk(r) ~> (r \in published \/ OwnerLost(r) \/ ~OnDisk(r))

=============================================================================

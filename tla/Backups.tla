------------------------------ MODULE Backups ------------------------------
(***************************************************************************)
(* The restore points of server/pipeline/extract.py: timestamped           *)
(* directories under backups/, written by the full run when the newest is  *)
(* old enough and by a forced --mode backup (the service that deploy.sh    *)
(* starts), and pruned by both to every snapshot of the last day plus the  *)
(* newest of each calendar day of the last month.                          *)
(*                                                                         *)
(* Time is counted in ticks of the local clock.  A snapshot has two parts: *)
(* the ledger (bottleneck.db is copied just like it) and the config (the   *)
(* token files are copied just like it).                                   *)
(***************************************************************************)
EXTENDS Integers, FiniteSets

CONSTANTS
  Full,         \* the run of extract.py --mode full
  Forced,       \* the run of extract.py --mode backup
  DayLen,       \* ticks in a calendar day
  SonInterval,  \* BACKUP_SON_INTERVAL
  SonWindow,    \* BACKUP_SON_WINDOW
  DailyDays,    \* BACKUP_DAILY_DAYS
  MaxNow,       \* bound on the clock
  MaxFaults     \* bound on failed copies and crashes

Writers == {Full, Forced}
Times == 0 .. MaxNow
Parts == {"ledger", "config"}

ASSUME ClockAssumption ==
  /\ Full # Forced
  /\ DayLen \in Nat \ {0}
  /\ SonInterval \in Nat \ {0}
  /\ SonWindow \in Nat \ {0}
  /\ DailyDays \in Nat
  /\ MaxNow \in Nat
  /\ MaxFaults \in Nat

VARIABLES
  now,     \* the clock
  live,    \* the parts that exist and could be copied
  dirs,    \* the snapshot directories, by timestamp
  has,     \* has[t]: the parts in directory t
  pc,      \* pc[w]: where writer w is
  dest,    \* dest[w]: the directory w writes
  backed,  \* backed[w]: the parts w has copied
  doomed,  \* doomed[w]: the directories w is deleting
  faults,  \* failed copies and crashes so far
  good,    \* history: the snapshots that once held the ledger
  flawed   \* history: those whose ledger copy was skipped, failed or broken
           \* off, or that two runs named in the same tick

history == <<good, flawed>>
vars == <<now, live, dirs, has, pc, dest, backed, doomed, faults, history>>

-----------------------------------------------------------------------------

Day(t) == t \div DayLen

\* Days after this one are in the father tier.
CutoffDay(n) == Day(n - DailyDays * DayLen)

Latest(D) == CHOOSE t \in D : \A u \in D : u <= t

\* Mutants of the keep set: a day is represented by its oldest snapshot; the
\* father tier alone.
KeptOldest(D, n) ==
  {t \in D : n - t < SonWindow}
    \cup {t \in D : Day(t) > CutoffDay(n) /\ \A u \in D : Day(u) = Day(t) => t <= u}
KeptDaily(D, n) ==
  {t \in D : Day(t) > CutoffDay(n) /\ \A u \in D : Day(u) = Day(t) => u <= t}

\* _prune_backups, the keep set: the son tier and the newest of each day.
Kept(D, n) ==
  {t \in D : n - t < SonWindow}
    \cup {t \in D : Day(t) > CutoffDay(n) /\ \A u \in D : Day(u) = Day(t) => u <= t}

TypeOK ==
  /\ now \in Times
  /\ live \subseteq Parts
  /\ dirs \subseteq Times
  /\ has \in [Times -> SUBSET Parts]
  /\ \A t \in Times \ dirs : has[t] = {}
  /\ pc \in [Writers -> {"idle", "dest", "ledger", "config", "copied", "delete"}]
  /\ dest \in [Writers -> Times]
  /\ backed \in [Writers -> SUBSET Parts]
  /\ doomed \in [Writers -> SUBSET Times]
  /\ faults \in 0 .. MaxFaults
  /\ good \subseteq Times /\ flawed \subseteq Times

Init ==
  /\ now = 0
  /\ live = {}
  /\ dirs = {}
  /\ has = [t \in Times |-> {}]
  /\ pc = [w \in Writers |-> "idle"]
  /\ dest = [w \in Writers |-> 0]
  /\ backed = [w \in Writers |-> {}]
  /\ doomed = [w \in Writers |-> {}]
  /\ faults = 0
  /\ good = {} /\ flawed = {}

-----------------------------------------------------------------------------

Tick ==
  /\ now < MaxNow
  /\ now' = now + 1
  /\ UNCHANGED <<live, dirs, has, pc, dest, backed, doomed, faults, history>>

\* The installer writes the config, the first full run the ledger.
Create(p) ==
  /\ p \notin live
  /\ live' = live \cup {p}
  /\ UNCHANGED <<now, dirs, has, pc, dest, backed, doomed, faults, history>>

\* maybe_snapshot: a full run that finds a ledger goes on to take a snapshot
\* unless the newest directory is young, whatever that directory holds.
Gate ==
  /\ pc[Full] = "idle"
  /\ "ledger" \in live
  /\ dirs # {} => now - Latest(dirs) >= SonInterval
  /\ pc' = [pc EXCEPT ![Full] = "dest"]
  /\ UNCHANGED <<now, live, dirs, has, dest, backed, doomed, faults, history>>

ForcedStart ==
  /\ pc[Forced] = "idle"
  /\ pc' = [pc EXCEPT ![Forced] = "dest"]
  /\ UNCHANGED <<now, live, dirs, has, dest, backed, doomed, faults, history>>

\* snapshot_backup names its directory after the clock; makedirs does not mind
\* that the directory is there.
MakeDir(w) ==
  /\ pc[w] = "dest"
  /\ dirs' = dirs \cup {now}
  /\ dest' = [dest EXCEPT ![w] = now]
  /\ backed' = [backed EXCEPT ![w] = {}]
  /\ pc' = [pc EXCEPT ![w] = "ledger"]
  /\ flawed' = IF now \in dirs THEN flawed \cup {now} ELSE flawed
  /\ UNCHANGED <<now, live, has, doomed, faults, good>>

After == [ledger |-> "config", config |-> "copied"]

\* Mutant: a copy recreates a directory that is gone.
CopyAnyway(w, p) ==
  /\ pc[w] = p
  /\ p \in live
  /\ has' = [has EXCEPT ![dest[w]] = @ \cup {p}]
  /\ backed' = [backed EXCEPT ![w] = @ \cup {p}]
  /\ good' = IF p = "ledger" THEN good \cup {dest[w]} ELSE good
  /\ pc' = [pc EXCEPT ![w] = After[p]]
  /\ UNCHANGED <<now, live, dirs, dest, doomed, faults, flawed>>

\* A part that exists is copied into the directory, if that is still there.
Copy(w, p) ==
  /\ pc[w] = p
  /\ p \in live
  /\ dest[w] \in dirs
  /\ has' = [has EXCEPT ![dest[w]] = @ \cup {p}]
  /\ backed' = [backed EXCEPT ![w] = @ \cup {p}]
  /\ good' = IF p = "ledger" THEN good \cup {dest[w]} ELSE good
  /\ pc' = [pc EXCEPT ![w] = After[p]]
  /\ UNCHANGED <<now, live, dirs, dest, doomed, faults, flawed>>

\* The part does not exist, or its copy fails with a warning (a fault unless
\* the directory is gone); the next part is tried all the same.
Miss(w, p) ==
  /\ pc[w] = p
  /\ p \in live /\ dest[w] \in dirs => faults < MaxFaults
  /\ faults' = IF p \in live /\ dest[w] \in dirs THEN faults + 1 ELSE faults
  /\ flawed' = IF p = "ledger" THEN flawed \cup {dest[w]} ELSE flawed
  /\ pc' = [pc EXCEPT ![w] = After[p]]
  /\ UNCHANGED <<now, live, dirs, has, dest, backed, doomed, good>>

\* The process ends, and its local variables with it.
Exit(w) ==
  /\ pc' = [pc EXCEPT ![w] = "idle"]
  /\ dest' = [dest EXCEPT ![w] = 0]
  /\ backed' = [backed EXCEPT ![w] = {}]
  /\ doomed' = [doomed EXCEPT ![w] = {}]

Remove(t) ==
  /\ dirs' = dirs \ {t}
  /\ has' = [has EXCEPT ![t] = {}]

\* Nothing was copied: the directory is dropped and nothing is pruned.
Drop(w) ==
  /\ pc[w] = "copied"
  /\ backed[w] = {}
  /\ Remove(dest[w])
  /\ Exit(w)
  /\ UNCHANGED <<now, live, faults, history>>

\* _prune_backups lists the directories once, then deletes the oldest first.
ListDirs(w) ==
  /\ pc[w] = "copied"
  /\ backed[w] # {}
  /\ doomed' = [doomed EXCEPT ![w] = dirs \ Kept(dirs, now)]
  /\ pc' = [pc EXCEPT ![w] = "delete"]
  /\ UNCHANGED <<now, live, dirs, has, dest, backed, faults, history>>

Delete(w) ==
  /\ pc[w] = "delete"
  /\ \E t \in doomed[w] :
       /\ \A u \in doomed[w] : t <= u
       /\ Remove(t)
       /\ doomed' = [doomed EXCEPT ![w] = @ \ {t}]
  /\ UNCHANGED <<now, live, pc, dest, backed, faults, history>>

Finish(w) ==
  /\ pc[w] = "delete"
  /\ doomed[w] = {}
  /\ Exit(w)
  /\ UNCHANGED <<now, live, dirs, has, faults, history>>

\* The process dies, or is killed with the machine.
Crash(w) ==
  /\ pc[w] # "idle"
  /\ faults < MaxFaults
  /\ faults' = faults + 1
  /\ flawed' = IF pc[w] = "ledger" THEN flawed \cup {dest[w]} ELSE flawed
  /\ Exit(w)
  /\ UNCHANGED <<now, live, dirs, has, good>>

Next ==
  \/ Tick
  \/ \E p \in Parts : Create(p)
  \/ Gate
  \/ ForcedStart
  \/ \E w \in Writers : MakeDir(w)
  \/ \E w \in Writers, p \in Parts : Copy(w, p)
  \/ \E w \in Writers, p \in Parts : Miss(w, p)
  \/ \E w \in Writers : Drop(w)
  \/ \E w \in Writers : ListDirs(w)
  \/ \E w \in Writers : Delete(w)
  \/ \E w \in Writers : Finish(w)
  \/ \E w \in Writers : Crash(w)

Spec == Init /\ [][Next]_vars

-----------------------------------------------------------------------------

(***************************************************************************)
(* Properties.                                                             *)
(***************************************************************************)

\* Writer w has yet to copy the ledger into directory t.
Writing(w, t) == pc[w] = "ledger" /\ dest[w] = t

\* A day of the father tier that ever had the ledger in a snapshot has one still
\* as late as that, unless a later snapshot of the day is being written, went
\* wrong on the ledger, or was written by two runs in one second: nothing else
\* (overlapping prunes, crashes between two deletions, midnight) loses a day.
RestorePoints ==
  \A t \in good :
    Day(t) > CutoffDay(now) =>
      \E u \in Times :
        /\ Day(u) = Day(t) /\ t <= u
        /\ \/ "ledger" \in has[u]
           \/ u \in flawed
           \/ \E w \in Writers : Writing(w, u)

\* The son tier: nothing that another writer prunes or drops costs a snapshot
\* of the last day its ledger.
RecentKept ==
  \A t \in good \ flawed : now - t < SonWindow => "ledger" \in has[t]

\* What a run has done with directory u is not the last word on it: a writer is
\* still copying, or was killed before it copied anything.
Unsettled(u) ==
  \/ has[u] = {}
  \/ \E w \in Writers : pc[w] \in {"ledger", "config", "copied"} /\ dest[w] = u

\* What the documentation says instead: a daily restore point of the ledger for
\* each day of the month (docs/architecture.md:85-86, 95-97); days that a run is
\* still writing to, or was killed in, set aside.
DailyLedger ==
  \A t \in good \ flawed :
    Day(t) > CutoffDay(now) =>
      \E u \in dirs : Day(u) = Day(t) /\ ("ledger" \in has[u] \/ Unsettled(u))

=============================================================================

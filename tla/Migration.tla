------------------------------ MODULE Migration ------------------------------
(***************************************************************************)
(* The move from root's crons to timers of the unprivileged collector:     *)
(* derootify in server/deploy.sh on the main server, migrate-peer.sh on a  *)
(* fragment node, and provision-remote.sh, which gives a node its data key *)
(* and ends in the latter.                                                 *)
(*                                                                         *)
(* A script is a sequence of steps.  Both migrations run theirs as         *)
(* "if ( set -e ... ); then": bash ignores errexit in a condition, so a    *)
(* step that fails is passed over, and what counts is the status of the    *)
(* last one, or an exit.                                                   *)
(***************************************************************************)
EXTENDS Ticks

VARIABLES
  host,    \* [kind, cron, units, timer, daemon, rootKey, key, staged, authorized]:
           \* what is installed, and on a node its keys: root's, the collector's,
           \* the one being handed over, and the one the main server accepts
  fits,    \* the units work on this host
  job,     \* None or [script, at, back, failed, crons, rootKey]: the script, its
           \* next step, and what lies in its quarantine directory
  mishaps  \* history: the steps that failed since a migration last succeeded

migrationVars == <<host, fits, job, mishaps>>

Deploy    == <<"crons", "stop", "units", "enable", "extract", "check">>
Migrate   == <<"copy", "units", "enable", "ship", "crons", "rootKey", "pub">>
Provision == <<"authorize", "install", "smoke">>

\* The main server has no key to put back.  Units that were replaced are put
\* back too: the same, as far as they matter here.
Rollback == <<"cronsBack", "keyBack", "disable">>

Steps == UNION {ToSet(script) : script \in {Deploy, Migrate, Provision, Rollback}}

Jobs ==
  [script : {Deploy, Migrate, Provision \o Migrate, Rollback}, at : Nat, back : BOOLEAN,
   failed : SUBSET (Steps \cup {"stranded"}), crons : BOOLEAN, rootKey : Nat \cup {None}]

ASSUME MigrationAssumption == None \notin Nat /\ None \notin Jobs   \* neither a key nor a job

\* The collector's unit does its work when it is started.
UnitWorks == fits /\ host.units /\ (host.kind = "peer" => host.key = host.authorized)

Collecting ==
  \/ host.cron /\ (host.kind = "peer" => host.rootKey = host.authorized)
  \/ host.timer /\ UnitWorks

MigrationInit(any) ==
  /\ fits \in IF any THEN BOOLEAN ELSE {TRUE}
  /\ \E kind \in IF any THEN {"main", "peer"} ELSE {"main"} :
       host = [kind |-> kind, cron |-> TRUE, units |-> FALSE, timer |-> FALSE, daemon |-> TRUE,
              rootKey |-> 0, key |-> None, staged |-> None, authorized |-> 0]
  /\ job = None
  /\ mishaps = {}

Script(steps, back, r) ==
  [script |-> steps, at |-> 1, back |-> back,
   failed |-> r.failed, crons |-> r.crons, rootKey |-> r.rootKey]

Untouched == [failed |-> {}, crons |-> FALSE, rootKey |-> None]

\* deploy.sh on the main server, --update of a node, or adding it again.
ScriptBegins ==
  /\ job = None
  /\ \/ host.kind = "main" /\ job' = Script(Deploy, FALSE, Untouched)
     \/ host.kind = "peer" /\ job' = Script(Migrate, FALSE, Untouched)
     \/ host.kind = "peer" /\ job' = Script(Provision \o Migrate, FALSE, Untouched)
  /\ UNCHANGED <<host, fits, mishaps>>

InScript == job # None /\ job.at <= Len(job.script)
CurrentStep == job.script[job.at]

\* Whether a step can succeed.
Doable(step) ==
  CASE step = "copy" -> host.key # None \/ host.rootKey # None
    [] step = "enable" -> host.units
    [] step \in {"ship", "extract"} -> UnitWorks
    [] step = "check" -> host.daemon
    [] OTHER -> TRUE

\* Whether it does anything that could fail by itself.
Acts(step) ==
  CASE step = "copy" -> host.key = None
    [] step = "crons" -> host.cron
    [] step = "rootKey" -> host.rootKey # None
    [] step = "pub" -> job.rootKey # None
    [] step = "cronsBack" -> job.crons
    [] step = "keyBack" -> job.rootKey # None
    [] OTHER -> TRUE

\* Mutant: every rollback leaves the timer off, as the main server's does.
NeverKeeps(r) == FALSE

\* A node keeps the timer unless this run put a cron back: a node that had none
\* works by the timer.
KeepsTimer(r) == host.kind = "peer" /\ (~r.crons \/ "cronsBack" \in r.failed)

AfterStep(step) ==
  CASE step = "crons" -> [host EXCEPT !.cron = FALSE]
    [] step = "stop"  -> [host EXCEPT !.daemon = FALSE]
    [] step = "units" -> [host EXCEPT !.units = TRUE]
    [] step = "enable" -> [host EXCEPT !.timer = TRUE, !.daemon = TRUE]
    [] step = "copy" -> [host EXCEPT !.key = IF @ = None THEN host.rootKey ELSE @]
    [] step = "rootKey" -> [host EXCEPT !.rootKey = None]
    [] step = "authorize" ->
         LET k == IF host.staged = None THEN host.authorized + 1 ELSE host.staged
         IN [host EXCEPT !.staged = k, !.authorized = k]
    [] step = "install" -> [host EXCEPT !.rootKey = host.staged, !.cron = TRUE]
    [] step = "smoke" -> [host EXCEPT !.staged = None]
    [] step = "cronsBack" -> [host EXCEPT !.cron = @ \/ job.crons]
    [] step = "keyBack" -> [host EXCEPT !.rootKey = IF job.rootKey = None THEN @ ELSE job.rootKey]
    [] step = "disable" -> [host EXCEPT !.timer = @ /\ KeepsTimer(job)]
    [] OTHER -> host

\* What the quarantine directory holds after a step.
Quarantined(step) ==
  CASE step = "crons" -> [job EXCEPT !.crons = host.cron]
    [] step = "rootKey" -> [job EXCEPT !.rootKey = host.rootKey]
    [] OTHER -> job

StepSucceeds ==
  /\ InScript /\ Doable(CurrentStep)
  /\ host' = AfterStep(CurrentStep)
  /\ LET strands == CurrentStep = "disable" /\ host.kind = "main" /\ ~host.cron
     IN job' = [Quarantined(CurrentStep) EXCEPT
                  !.at = @ + 1, !.failed = @ \cup IF strands THEN {"stranded"} ELSE {}]
  /\ UNCHANGED <<fits, mishaps>>

\* Where a failure ends the script: not in a condition, an exit, the last step.
\* In a rollback every step is followed by "|| true".
Ends(step) ==
  \/ step \in {"authorize", "install", "smoke", "ship"}
  \/ step = "copy" /\ ~Doable(step)
  \/ ~job.back /\ job.at = Len(job.script)

StepFails ==
  /\ InScript /\ (Acts(CurrentStep) \/ ~Doable(CurrentStep))
  /\ LET r == [job EXCEPT !.failed = @ \cup {CurrentStep}]
     IN job' = IF ~Ends(CurrentStep) THEN [r EXCEPT !.at = @ + 1]
               ELSE IF CurrentStep \in ToSet(Provision) THEN [r EXCEPT !.at = Len(job.script) + 1, !.back = TRUE]
               ELSE Script(Rollback, TRUE, r)
  /\ UNCHANGED <<host, fits, mishaps>>

ScriptReports ==
  /\ job # None /\ ~InScript
  /\ job' = None
  /\ mishaps' = job.failed \cup IF job.back THEN mishaps ELSE {}
  /\ UNCHANGED <<host, fits>>

\* The terminal goes, or the power: nothing is rolled back.
ScriptKilled ==
  /\ job # None
  /\ job' = None
  /\ mishaps' = mishaps \cup job.failed \cup IF job.crons THEN {"killed"} ELSE {}
  /\ UNCHANGED <<host, fits>>

MigrationNext ==
  ScriptBegins \/ StepSucceeds \/ StepFails \/ ScriptReports \/ ScriptKilled

MigrationSpec == MigrationInit(TRUE) /\ [][MigrationNext]_migrationVars

-----------------------------------------------------------------------------
\* Whatever fails, is killed or is run again, a box that collects goes on to
\* (migrate-peer.sh:28-31, CHANGELOG.md:63-65), a node at every moment, the main
\* server when deploy.sh is done.  What both miss is a timer that could not be
\* enabled.  The main server also misses that the verification failed, is
\* without crons when it is killed, and rolls a box back that has no crons to
\* go back to; a node is cut off while it is given a new key, and when its
\* old one cannot be put back.
KeepsCollecting ==
  LET failed == mishaps \cup IF job = None THEN {} ELSE job.failed
  IN \/ Collecting
     \/ host.kind = "main" /\ job # None
     \/ host.kind = "main" /\ failed \cap {"enable", "extract", "killed", "stranded"} # {}
     \/ host.kind = "peer" /\ host.staged # None
     \/ host.kind = "peer" /\ failed \cap {"enable", "keyBack"} # {}
=============================================================================

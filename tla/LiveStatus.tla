----------------------------- MODULE LiveStatus -----------------------------
(***************************************************************************)
(* The live status of server/monitor/live-monitor.py.                      *)
(*                                                                         *)
(* On every machine a monitor samples each user's network traffic and      *)
(* transcripts every two seconds, debounces them into working or idle, and *)
(* replaces a status file.  A remote's shipper thread uploads that file;   *)
(* the main server's monitor merges the uploaded files into its own, from  *)
(* which the badge and the web page take their avatar.                     *)
(*                                                                         *)
(* Time is counted in ticks, the same on every machine.  A sample is what  *)
(* the code has computed from /proc, ss and the transcripts: the users     *)
(* with a process, with traffic over the threshold, with a turn in which   *)
(* the model owes a response, with an unanswered question, and those only  *)
(* a transcript just written to tells of.                                  *)
(***************************************************************************)
EXTENDS Integers, FiniteSets

CONSTANTS
  Main,            \* the machine that serves the merged status
  Remotes,         \* the machines that ship theirs
  Users,
  HostOf,          \* HostOf[u]: the machine user u works on
  ActiveDebounce,  \* active_debounce_s
  IdleDebounce,    \* idle_debounce_s
  TurnCap,         \* turn_cap_s
  StaleSeconds,    \* --stale-seconds
  ShipGrace,       \* --ship-grace
  MaxGap,          \* bound on the ticks between two samples of a monitor
  MaxNow,          \* bound on the clock
  MaxFaults        \* bound on crashes and failed uploads

Machines == {Main} \cup Remotes

ASSUME LiveAssumption ==
  /\ Main \notin Remotes
  /\ HostOf \in [Users -> Machines]
  /\ ActiveDebounce \in Nat
  /\ IdleDebounce \in Nat
  /\ TurnCap \in Nat
  /\ StaleSeconds \in Nat
  /\ ShipGrace \in Nat
  /\ MaxGap \in Nat \ {0}
  /\ MaxNow \in Nat
  /\ MaxFaults \in Nat

VARIABLES
  now,      \* the clock
  up,       \* up[m]: the monitor of m runs
  sampled,  \* sampled[m]: when the running monitor of m last sampled, or started
  known,    \* known[m]: the users it has seen since it started
  st,       \* st[u]: its debounce state for u
  feed,     \* feed[m]: its status file
  remote,   \* remote[r]: the file of r in live-remote/ on the main server
  ship,     \* ship[r]: the shipper thread of r
  faults,   \* crashes and failed uploads so far
  heldAt,   \* history: the last sample in which u was active
  netAt,    \* history: the last sample with traffic, or u's first since a start
  runFrom   \* history: the first of the samples in which u has been active since

monitor == <<up, sampled, known, st, feed>>
history == <<heldAt, netAt, runFrom>>
vars == <<now, monitor, remote, ship, faults, history>>

-----------------------------------------------------------------------------

\* None, before any time.
Never == -1

UsersOf(m) == {u \in Users : HostOf[u] = m}

\* A user the monitor has no state for yet.
NewUser == [act |-> "idle", idleSince |-> Never, activeSince |-> Never,
            lastNet |-> Never]

\* A status file that is missing.
NoFeed == [at |-> Never, top |-> "no_processes",
           shown |-> [u \in Users |-> "absent"], stale |-> {}]

\* A shipper thread that has not pushed anything.
Waiting == [pc |-> "wait", lastPresent |-> 0, tmp |-> NoFeed]

Past == Never .. now
States == [act : {"idle", "working"}, idleSince : Past, activeSince : Past,
           lastNet : Past]
Feeds == [at : Past, top : {"no_processes", "idle", "working", "waiting"},
          shown : [Users -> {"absent", "idle", "working", "waiting"}],
          stale : SUBSET Users]

TypeOK ==
  /\ now \in 0 .. MaxNow
  /\ up \in [Machines -> BOOLEAN]
  /\ sampled \in [Machines -> Past]
  /\ known \in [Machines -> SUBSET Users]
  /\ st \in [Users -> States]
  \* At most one of the two timers runs.
  /\ \A u \in Users : st[u].activeSince = Never \/ st[u].idleSince = Never
  /\ feed \in [Machines -> Feeds]
  /\ remote \in [Remotes -> Feeds]
  /\ ship \in [Remotes -> [pc : {"wait", "put", "rename"}, lastPresent : 0 .. now,
                           tmp : Feeds]]
  /\ faults \in 0 .. MaxFaults
  /\ heldAt \in [Users -> Past] /\ netAt \in [Users -> Past]
  /\ runFrom \in [Users -> Past]

Init ==
  /\ now = 0
  /\ up = [m \in Machines |-> FALSE]
  /\ sampled = [m \in Machines |-> Never]
  /\ known = [m \in Machines |-> {}]
  /\ st = [u \in Users |-> NewUser]
  /\ feed = [m \in Machines |-> NoFeed]
  /\ remote = [r \in Remotes |-> NoFeed]
  /\ ship = [r \in Remotes |-> Waiting]
  /\ faults = 0
  /\ heldAt = [u \in Users |-> Never]
  /\ netAt = [u \in Users |-> Never]
  /\ runFrom = [u \in Users |-> Never]

-----------------------------------------------------------------------------
(***************************************************************************)
(* One sample.                                                             *)
(***************************************************************************)

\* last_net_mono starts with the user's state and follows the traffic.
LastNet(s, net) == IF net \/ s.lastNet = Never THEN now ELSE s.lastNet

\* Mutant: a turn that hangs counts as active for ever.
ActiveUncapped(s, net, owes) == net \/ owes

\* Traffic, or a turn in progress whose last traffic is not too long ago.
Active(s, net, owes) == net \/ (owes /\ now - LastNet(s, net) <= TurnCap)

\* Mutants: activity does not clear idle_since; every active sample restarts
\* active_since.
DebouncedSticky(s, net, owes) ==
  LET active == Active(s, net, owes)
      activeSince == IF ~active THEN Never
                     ELSE IF s.activeSince = Never THEN now ELSE s.activeSince
      idleSince == IF s.idleSince = Never /\ ~active THEN now ELSE s.idleSince IN
  [act |-> IF active /\ now - activeSince >= ActiveDebounce THEN "working"
           ELSE IF ~active /\ now - idleSince >= IdleDebounce THEN "idle"
           ELSE s.act,
   idleSince |-> idleSince, activeSince |-> activeSince,
   lastNet |-> LastNet(s, net)]
DebouncedRestarting(s, net, owes) ==
  LET active == Active(s, net, owes)
      activeSince == IF active THEN now ELSE Never
      idleSince == IF active THEN Never
                   ELSE IF s.idleSince = Never THEN now ELSE s.idleSince IN
  [act |-> IF active /\ now - activeSince >= ActiveDebounce THEN "working"
           ELSE IF ~active /\ now - idleSince >= IdleDebounce THEN "idle"
           ELSE s.act,
   idleSince |-> idleSince, activeSince |-> activeSince,
   lastNet |-> LastNet(s, net)]

\* The debounce: a signal must hold for ActiveDebounce, its absence for
\* IdleDebounce.  A timer starts at the first sample of a run and only while
\* the status has still to change.
Debounced(s, net, owes) ==
  LET active == Active(s, net, owes)
      activeSince ==
        IF ~active THEN Never
        ELSE IF s.act = "idle" /\ s.activeSince = Never THEN now
        ELSE s.activeSince
      idleSince ==
        IF active THEN Never
        ELSE IF s.lastNet = Never \/ (s.act = "working" /\ s.idleSince = Never)
        THEN now
        ELSE s.idleSince IN
  [act |-> IF active /\ s.act = "idle" /\ now - activeSince >= ActiveDebounce
           THEN "working"
           ELSE IF ~active /\ s.act = "working" /\ now - idleSince >= IdleDebounce
           THEN "idle"
           ELSE s.act,
   idleSince |-> idleSince,
   activeSince |-> activeSince,
   lastNet |-> LastNet(s, net)]

Stale(f) == now - f.at > StaleSeconds

\* Mutant: the age of an uploaded file is not looked at.
RemoteShownAnyAge(u) == remote[HostOf[u]].shown[u]

\* load_remote_live: a file that is too old cannot claim working.
RemoteShown(u) ==
  LET f == remote[HostOf[u]] IN
  IF Stale(f) /\ f.shown[u] = "working" THEN "idle" ELSE f.shown[u]

\* The users of the status file of m: its own, on the main server the merged.
Shown(m, seen, state, wait) ==
  [u \in Users |->
     IF HostOf[u] = m
     THEN IF u \in wait THEN "waiting"
          ELSE IF u \in seen THEN state[u].act
          ELSE "absent"
     ELSE IF m = Main THEN RemoteShown(u)
     ELSE "absent"]

StaleUsers(m) ==
  IF m # Main THEN {}
  ELSE {u \in Users : /\ HostOf[u] \in Remotes
                      /\ remote[HostOf[u]].shown[u] # "absent"
                      /\ Stale(remote[HostOf[u]])}

Top(run, shown) ==
  IF \E u \in Users : shown[u] = "waiting" THEN "waiting"
  ELSE IF \E u \in Users : shown[u] = "working" THEN "working"
  ELSE IF run # {} \/ \E u \in Users : shown[u] = "idle" THEN "idle"
  ELSE "no_processes"

\* One pass of the main loop; write_json replaces the file atomically.  A user
\* once seen stays known, with or without a process.
Sample(m, run, net, owes, wait, wrote) ==
  /\ up[m]
  /\ sampled[m] < now
  /\ net \subseteq run
  /\ LET seen == known[m] \cup run \cup owes \cup wait \cup wrote
         state == [u \in Users |->
                     IF u \in seen THEN Debounced(st[u], u \in net, u \in owes)
                                   ELSE st[u]]
         active == {u \in seen : Active(st[u], u \in net, u \in owes)}
         shown == Shown(m, seen, state, wait) IN
     /\ known' = [known EXCEPT ![m] = seen]
     /\ st' = state
     /\ feed' = [feed EXCEPT ![m] = [at |-> now, top |-> Top(run, shown),
                                     shown |-> shown, stale |-> StaleUsers(m)]]
     /\ heldAt' = [u \in Users |-> IF u \in active THEN now ELSE heldAt[u]]
     /\ netAt' = [u \in Users |->
                    IF u \in net \/ (u \in seen /\ st[u].lastNet = Never)
                    THEN now ELSE netAt[u]]
     /\ runFrom' = [u \in Users |->
                      IF HostOf[u] # m THEN runFrom[u]
                      ELSE IF u \notin active THEN Never
                      ELSE IF runFrom[u] = Never THEN now
                      ELSE runFrom[u]]
  /\ sampled' = [sampled EXCEPT ![m] = now]
  /\ UNCHANGED <<now, up, remote, ship, faults>>

\* Restart=always: the monitor takes its first look around, then sleeps.
Start(m, base) ==
  /\ ~up[m]
  /\ up' = [up EXCEPT ![m] = TRUE]
  /\ sampled' = [sampled EXCEPT ![m] = now]
  /\ known' = [known EXCEPT ![m] = base]
  /\ UNCHANGED <<now, st, feed, remote, ship, faults, history>>

\* The process ends, and its memory and shipper thread with it.
Crash(m) ==
  /\ up[m]
  /\ faults < MaxFaults
  /\ faults' = faults + 1
  /\ up' = [up EXCEPT ![m] = FALSE]
  /\ sampled' = [sampled EXCEPT ![m] = Never]
  /\ known' = [known EXCEPT ![m] = {}]
  /\ st' = [u \in Users |-> IF HostOf[u] = m THEN NewUser ELSE st[u]]
  /\ ship' = [r \in Remotes |-> IF r = m THEN Waiting ELSE ship[r]]
  /\ runFrom' = [u \in Users |-> IF HostOf[u] = m THEN Never ELSE runFrom[u]]
  /\ UNCHANGED <<now, feed, remote, heldAt, netAt>>

-----------------------------------------------------------------------------
(***************************************************************************)
(* The shipper thread of a remote.                                         *)
(***************************************************************************)

\* It reads the status file, and pushes it unless nobody has been there for
\* longer than the grace period.
ShipCheck(r) ==
  /\ up[r]
  /\ ship[r].pc = "wait"
  /\ LET present == feed[r].at # Never /\ feed[r].top # "no_processes"
         last == IF present THEN now ELSE ship[r].lastPresent IN
     ship' = [ship EXCEPT ![r].lastPresent = last,
                          ![r].pc = IF now - last <= ShipGrace THEN "put" ELSE "wait"]
  /\ UNCHANGED <<now, monitor, remote, faults, history>>

\* sftp put: by now the monitor may have replaced the file.
ShipPut(r) ==
  /\ ship[r].pc = "put"
  /\ feed[r].at # Never
  /\ ship' = [ship EXCEPT ![r].tmp = feed[r], ![r].pc = "rename"]
  /\ UNCHANGED <<now, monitor, remote, faults, history>>

ShipRename(r) ==
  /\ ship[r].pc = "rename"
  /\ remote' = [remote EXCEPT ![r] = ship[r].tmp]
  /\ ship' = [ship EXCEPT ![r].tmp = NoFeed, ![r].pc = "wait"]
  /\ UNCHANGED <<now, monitor, faults, history>>

\* The push fails or times out, or there is no file: try again later.
ShipFail(r) ==
  /\ ship[r].pc \in {"put", "rename"}
  /\ feed[r].at # Never => faults < MaxFaults
  /\ faults' = IF feed[r].at # Never THEN faults + 1 ELSE faults
  /\ ship' = [ship EXCEPT ![r].tmp = NoFeed, ![r].pc = "wait"]
  /\ UNCHANGED <<now, monitor, remote, history>>

-----------------------------------------------------------------------------

\* A running monitor samples at least every MaxGap ticks.
Tick ==
  /\ now < MaxNow
  /\ \A m \in Machines : up[m] => now - sampled[m] < MaxGap
  /\ now' = now + 1
  /\ UNCHANGED <<monitor, remote, ship, faults, history>>

Next ==
  \/ Tick
  \/ \E m \in Machines : \E run \in SUBSET UsersOf(m), net \in SUBSET UsersOf(m) :
       \E owes \in SUBSET UsersOf(m), wait \in SUBSET UsersOf(m) :
         \E wrote \in SUBSET (UsersOf(m) \ (known[m] \cup run \cup owes \cup wait)) :
           Sample(m, run, net, owes, wait, wrote)
  \/ \E m \in Machines : \E base \in SUBSET UsersOf(m) : Start(m, base)
  \/ \E m \in Machines : Crash(m)
  \/ \E r \in Remotes : ShipCheck(r)
  \/ \E r \in Remotes : ShipPut(r)
  \/ \E r \in Remotes : ShipRename(r)
  \/ \E r \in Remotes : ShipFail(r)

Spec == Init /\ [][Next]_vars

-----------------------------------------------------------------------------

(***************************************************************************)
(* Properties.                                                             *)
(***************************************************************************)

\* How long after its cause a working status can still be served: by the
\* machine itself, and by the main server for a remote user.
Delay(m, u) == IdleDebounce + MaxGap + IF HostOf[u] = m THEN 0 ELSE StaleSeconds

\* The global state does not stick on working (live-monitor.py:427-430): a user
\* who is served as working was active shortly before, whatever crashed, was
\* uploaded late or stopped being uploaded.
WorkingIsRecent ==
  \A m \in Machines, u \in Users :
    feed[m].shown[u] = "working" =>
      heldAt[u] # Never /\ feed[m].at - heldAt[u] < Delay(m, u)

\* A turn that hangs decays (live-monitor.py:83-84): without traffic no status
\* stays working past the turn cap, counted afresh after a restart.
HungTurnDecays ==
  \A m \in Machines, u \in Users :
    feed[m].shown[u] = "working" => feed[m].at - netAt[u] < TurnCap + Delay(m, u)

\* A monitor that keeps running does not flicker (docs/architecture.md:129-132):
\* it gives up working only when the user was quiet for IdleDebounce.
NoFlicker ==
  [][\A u \in Users :
       st[u].act = "working" /\ st'[u].act = "idle" =>
         \/ up[HostOf[u]] /\ ~up'[HostOf[u]]
         \/ now - heldAt[u] > IdleDebounce]_vars

\* Nor does it miss work: a user who was active in every sample for
\* ActiveDebounce is served as working, or as waiting for an answer.
ActiveIsShown ==
  \A u \in Users :
    LET m == HostOf[u] IN
    runFrom[u] # Never /\ sampled[m] - runFrom[u] >= ActiveDebounce =>
      feed[m].shown[u] \in {"working", "waiting"}

\* What the documentation says of the merged status (docs/architecture.md:146-148,
\* "idle is already debounced upstream, so this isn't a mid-stream gap"): when it
\* goes from working to idle, nobody has been active for IdleDebounce.
DoneIsDebounced ==
  [][feed[Main].top = "working" /\ feed'[Main].top = "idle" =>
       \A u \in Users : heldAt[u] = Never \/ now - heldAt[u] >= IdleDebounce]_vars

\* What the documentation says of a remote that stopped shipping
\* (docs/remote-fragment.md:130-132, live-monitor.py:428-429): its users are
\* forced to idle, so the global state is never due to a stale file alone.
GlobalNeverSticks ==
  feed[Main].top \in {"working", "waiting"} =>
    \E u \in Users : /\ feed[Main].shown[u] = feed[Main].top
                     /\ u \notin feed[Main].stale

=============================================================================

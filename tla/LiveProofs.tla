------------------------------ MODULE LiveProofs ------------------------------
(***************************************************************************)
(* The live status neither sticks nor flickers, for any machines, users,   *)
(* thresholds, crashes and uploads.                                        *)
(***************************************************************************)
EXTENDS LiveStatus, TLAPS

OneTimer(s) == s.activeSince = Never \/ s.idleSince = Never

-----------------------------------------------------------------------------
(***************************************************************************)
(* The debounce of one user.                                               *)
(***************************************************************************)

LEMMA DebouncedTyped ==
  ASSUME now \in Nat, NEW s \in States, NEW u, NEW net, NEW owes, OneTimer(s)
  PROVE  Debounced(s, u \in net, u \in owes) \in States /\ OneTimer(Debounced(s, u \in net, u \in owes))
<1> USE LiveAssumption DEF States, Past, Never
<1>1. LastNet(s, u \in net) \in Past
  BY DEF LastNet
<1>2. CASE Active(s, u \in net, u \in owes)
  BY <1>1, <1>2 DEF Debounced, OneTimer
<1>3. CASE ~Active(s, u \in net, u \in owes)
  BY <1>1, <1>3 DEF Debounced, OneTimer
<1> QED
  BY <1>2, <1>3

\* A signal clears the idle timer, and what is still idle under it has been
\* active since its timer was started.
LEMMA UnderSignal ==
  ASSUME now \in Nat, NEW s \in States, NEW u, NEW net, NEW owes,
         Active(s, u \in net, u \in owes),
         NEW d, d = Debounced(s, u \in net, u \in owes)
  PROVE  /\ d.idleSince = Never /\ (s.act = "working" => d.act = "working")
         /\ d.act = "idle" =>
              /\ s.act = "idle"
              /\ d.activeSince = IF s.activeSince = Never THEN now ELSE s.activeSince
              /\ now - d.activeSince < ActiveDebounce
<1> USE LiveAssumption DEF States, Past, Never
<1>1. s.act \in {"idle", "working"}
  OBVIOUS
<1> QED
  BY <1>1 DEF Debounced

\* Without one, what works has not been quiet for IdleDebounce, and what stops
\* working has.
LEMMA WithoutSignal ==
  ASSUME now \in Nat, NEW s \in States, NEW u, NEW net, NEW owes,
         ~Active(s, u \in net, u \in owes), s.act = "working", s.lastNet # Never,
         NEW d, d = Debounced(s, u \in net, u \in owes)
  PROVE  /\ d.idleSince = IF s.idleSince = Never THEN now ELSE s.idleSince
         /\ d.act = "working" => now - d.idleSince < IdleDebounce
         /\ d.act = "idle" => now - d.idleSince >= IdleDebounce
<1> USE LiveAssumption DEF States, Past, Never
<1> QED
  BY DEF Debounced

LEMMA IdleStays ==
  ASSUME now \in Nat, NEW s \in States, NEW u, NEW net, NEW owes,
         ~Active(s, u \in net, u \in owes), s.act = "idle"
  PROVE  Debounced(s, u \in net, u \in owes).act = "idle"
BY DEF Debounced

LEMMA QuietStopsTimer ==
  ASSUME NEW s, NEW u, NEW net, NEW owes, ~Active(s, u \in net, u \in owes)
  PROVE  Debounced(s, u \in net, u \in owes).activeSince = Never
BY DEF Debounced

LEMMA NetIsKept ==
  ASSUME NEW s, NEW u, NEW net, NEW owes
  PROVE  Debounced(s, u \in net, u \in owes).lastNet = LastNet(s, u \in net)
BY DEF Debounced

-----------------------------------------------------------------------------
(***************************************************************************)
(* Types.                                                                  *)
(***************************************************************************)

LEMMA InitLiveTyped == Init => TypeOK
<1> SUFFICES ASSUME Init PROVE TypeOK
  OBVIOUS
<1> USE LiveAssumption DEF Init, States, Feeds, Past, Never
<1>1. NewUser \in States /\ NewUser.idleSince = Never
  BY DEF NewUser
<1>2. NoFeed \in Feeds
  BY DEF NoFeed
<1>3. Waiting \in [pc : {"wait", "put", "rename"}, lastPresent : 0 .. now, tmp : Feeds]
  BY <1>2 DEF Waiting
<1> HIDE DEF States, Feeds
<1> QED
  BY <1>1, <1>2, <1>3 DEF TypeOK

LEMMA TopTyped ==
  ASSUME NEW run, NEW shown
  PROVE  Top(run, shown) \in {"no_processes", "idle", "working", "waiting"}
BY DEF Top

\* What one pass computes.
Seen(m, run, owes, wait, wrote) == known[m] \cup run \cup owes \cup wait \cup wrote
NewState(seen, net, owes) ==
  [u \in Users |-> IF u \in seen THEN Debounced(st[u], u \in net, u \in owes) ELSE st[u]]

LEMMA NewStateTyped ==
  ASSUME TypeOK, NEW seen, NEW net, NEW owes
  PROVE  /\ NewState(seen, net, owes) \in [Users -> States]
         /\ \A u \in Users : OneTimer(NewState(seen, net, owes)[u])
<1>1. now \in Nat
  BY LiveAssumption DEF TypeOK
<1>2. \A u \in Users : st[u] \in States /\ OneTimer(st[u])
  BY DEF TypeOK, OneTimer
<1>3. ASSUME NEW u \in Users
      PROVE  /\ Debounced(st[u], u \in net, u \in owes) \in States
             /\ OneTimer(Debounced(st[u], u \in net, u \in owes))
  BY <1>1, <1>2, DebouncedTyped
<1> QED
  BY <1>2, <1>3 DEF NewState

LEMMA ShownTyped ==
  ASSUME TypeOK, NEW m \in Machines, NEW seen, NEW state \in [Users -> States], NEW wait
  PROVE  Shown(m, seen, state, wait) \in [Users -> {"absent", "idle", "working", "waiting"}]
<1>1. \A u \in Users : state[u].act \in {"idle", "working"}
  BY DEF States
<1>2. ASSUME NEW u \in Users, HostOf[u] # m, m = Main
      PROVE  RemoteShown(u) \in {"absent", "idle", "working", "waiting"}
  <2>1. HostOf[u] \in Remotes
    BY <1>2, LiveAssumption DEF Machines
  <2>2. remote[HostOf[u]].shown[u] \in {"absent", "idle", "working", "waiting"}
    BY <2>1 DEF TypeOK, Feeds
  <2> QED
    BY <2>2 DEF RemoteShown
<1> QED
  BY <1>1, <1>2 DEF Shown

LEMMA StepLiveTyped == TypeOK /\ [Next]_vars => TypeOK'
<1> SUFFICES ASSUME TypeOK, [Next]_vars PROVE TypeOK'
  OBVIOUS
<1> USE LiveAssumption
<1> DEFINE Ships == [pc : {"wait", "put", "rename"}, lastPresent : 0 .. now, tmp : Feeds]
<1>0. now \in Nat
  BY DEF TypeOK
<1>1. NewUser \in States /\ OneTimer(NewUser) /\ NoFeed \in Feeds /\ Never \in Past /\ now \in Past
  BY <1>0 DEF NewUser, NoFeed, States, Feeds, Past, Never, OneTimer
<1>2. Waiting \in Ships
  BY <1>0, <1>1 DEF Waiting
<1>3. ASSUME now' = now PROVE /\ States' = States /\ Feeds' = Feeds /\ Past' = Past
  BY <1>3 DEF States, Feeds, Past
<1>4. CASE Tick
  <2>1. now' \in 0 .. MaxNow /\ now <= now' /\ now' \in Nat
    BY <1>0, <1>4 DEF Tick, TypeOK
  <2>2. Past \subseteq Past' /\ 0 .. now \subseteq 0 .. now'
    BY <1>0, <2>1 DEF Past, Never
  <2>3. States \subseteq States' /\ Feeds \subseteq Feeds'
    BY <2>2 DEF States, Feeds
  <2>4. Ships \subseteq [pc : {"wait", "put", "rename"}, lastPresent : 0 .. now', tmp : Feeds']
    BY <2>2, <2>3
  <2>5. /\ sampled' \in [Machines -> Past'] /\ st' \in [Users -> States']
        /\ heldAt' \in [Users -> Past'] /\ netAt' \in [Users -> Past']
        /\ runFrom' \in [Users -> Past']
    BY <1>4, <2>2, <2>3 DEF Tick, TypeOK, monitor, history
  <2>6. /\ feed' \in [Machines -> Feeds'] /\ remote' \in [Remotes -> Feeds']
    BY <1>4, <2>3 DEF Tick, TypeOK, monitor, history
  <2>7. ship' \in [Remotes -> [pc : {"wait", "put", "rename"}, lastPresent : 0 .. now', tmp : Feeds']]
    BY <1>4, <2>4 DEF Tick, TypeOK
  <2> QED
    BY <1>4, <2>1, <2>5, <2>6, <2>7 DEF Tick, TypeOK, monitor, history
<1>5. ASSUME NEW m \in Machines, NEW run \in SUBSET UsersOf(m), NEW net \in SUBSET UsersOf(m),
             NEW owes \in SUBSET UsersOf(m), NEW wait \in SUBSET UsersOf(m),
             NEW wrote \in SUBSET UsersOf(m),
             Sample(m, run, net, owes, wait, wrote)
      PROVE  TypeOK'
  <2> DEFINE seen == Seen(m, run, owes, wait, wrote)
             state == NewState(seen, net, owes)
             shown == Shown(m, seen, state, wait)
             active == {u \in seen : Active(st[u], u \in net, u \in owes)}
  <2>1. now' = now /\ States' = States /\ Feeds' = Feeds /\ Past' = Past
    BY <1>3, <1>5 DEF Sample
  <2>2. st' = state /\ known' = [known EXCEPT ![m] = seen]
    BY <1>5 DEF Sample, Seen, NewState
  <2>3. feed' = [feed EXCEPT ![m] = [at |-> now, top |-> Top(run, shown), shown |-> shown,
                                      stale |-> StaleUsers(m)]]
    BY <1>5 DEF Sample, Seen, NewState
  <2>4. st' \in [Users -> States] /\ \A u \in Users : OneTimer(st'[u])
    BY <2>2, NewStateTyped
  <2>5. shown \in [Users -> {"absent", "idle", "working", "waiting"}]
    BY <2>2, <2>4, ShownTyped
  <2>6. StaleUsers(m) \in SUBSET Users
    BY DEF StaleUsers
  <2>7. [at |-> now, top |-> Top(run, shown), shown |-> shown, stale |-> StaleUsers(m)] \in Feeds
    <3> HIDE DEF shown
    <3> QED
      BY <1>1, <2>5, <2>6, TopTyped DEF Feeds
  <2>8. feed' \in [Machines -> Feeds']
    <3> HIDE DEF shown
    <3> QED
      BY <2>1, <2>3, <2>7 DEF TypeOK
  <2>9. known' \in [Machines -> SUBSET Users]
    BY <2>2 DEF TypeOK, Seen, UsersOf
  <2>10. heldAt' = [u \in Users |-> IF u \in active THEN now ELSE heldAt[u]]
    BY <1>5 DEF Sample, Seen
  <2>11. heldAt' \in [Users -> Past']
    <3> HIDE DEF active
    <3> QED
      BY <1>1, <2>1, <2>10 DEF TypeOK
  <2>12. netAt' \in [Users -> Past']
    BY <1>1, <1>5, <2>1 DEF TypeOK, Sample
  <2>13. runFrom' \in [Users -> Past']
    <3>1. runFrom' = [u \in Users |->
                      IF HostOf[u] # m THEN runFrom[u]
                      ELSE IF u \notin active THEN Never
                      ELSE IF runFrom[u] = Never THEN now
                      ELSE runFrom[u]]
      BY <1>5 DEF Sample, Seen
    <3> HIDE DEF active
    <3> QED
      BY <1>1, <2>1, <3>1 DEF TypeOK
  <2>14. /\ sampled' \in [Machines -> Past'] /\ up' = up /\ remote' = remote
         /\ ship' = ship /\ faults' = faults
    BY <1>1, <1>5, <2>1 DEF TypeOK, Sample
  <2> HIDE DEF seen, state, shown, active
  <2> QED
    BY <2>1, <2>4, <2>8, <2>9, <2>11, <2>12, <2>13, <2>14 DEF TypeOK, OneTimer
<1>6. ASSUME NEW m \in Machines, NEW base \in SUBSET UsersOf(m), Start(m, base) PROVE TypeOK'
  <2>1. now' = now /\ States' = States /\ Feeds' = Feeds /\ Past' = Past
    BY <1>3, <1>6 DEF Start
  <2>2. base \in SUBSET Users
    BY DEF UsersOf
  <2> QED
    BY <1>1, <1>6, <2>1, <2>2 DEF Start, TypeOK, history
<1>7. ASSUME NEW m \in Machines, Crash(m) PROVE TypeOK'
  <2>1. now' = now /\ States' = States /\ Feeds' = Feeds /\ Past' = Past
    BY <1>3, <1>7 DEF Crash
  <2>2. faults' \in 0 .. MaxFaults
    <3>1. faults \in Nat /\ MaxFaults \in Nat /\ faults < MaxFaults /\ faults' = faults + 1
      BY <1>7 DEF Crash, TypeOK
    <3> QED
      BY <3>1
  <2>3. st' \in [Users -> States] /\ \A u \in Users : OneTimer(st'[u])
    BY <1>1, <1>7 DEF Crash, TypeOK, OneTimer
  <2>4. ship' \in [Remotes -> Ships]
    BY <1>2, <1>7 DEF Crash, TypeOK
  <2>5. runFrom' \in [Users -> Past] /\ sampled' \in [Machines -> Past]
    BY <1>1, <1>7 DEF Crash, TypeOK
  <2>6. up' \in [Machines -> BOOLEAN] /\ known' \in [Machines -> SUBSET Users]
    BY <1>7 DEF Crash, TypeOK
  <2> QED
    BY <1>7, <2>1, <2>2, <2>3, <2>4, <2>5, <2>6 DEF Crash, TypeOK, OneTimer
<1>8. ASSUME NEW r \in Remotes, ShipCheck(r) PROVE TypeOK'
  <2>1. now' = now /\ States' = States /\ Feeds' = Feeds /\ Past' = Past
    BY <1>3, <1>8 DEF ShipCheck
  <2>2. r \in Machines /\ ship[r] \in Ships
    BY DEF Machines, TypeOK
  <2> DEFINE present == feed[r].at # Never /\ feed[r].top # "no_processes"
             last == IF present THEN now ELSE ship[r].lastPresent
             c == IF now - last <= ShipGrace THEN "put" ELSE "wait"
  <2>3. ship' = [ship EXCEPT ![r].lastPresent = last, ![r].pc = c]
    BY <1>8 DEF ShipCheck
  <2>4. last \in 0 .. now /\ c \in {"put", "wait"}
    BY <1>0, <2>2
  <2> HIDE DEF last, c
  <2>5. ship' \in [Remotes -> Ships]
    BY <1>0, <2>2, <2>3, <2>4 DEF TypeOK
  <2> QED
    BY <1>8, <2>1, <2>5 DEF ShipCheck, TypeOK, monitor, history
<1>9. ASSUME NEW r \in Remotes, ShipPut(r) PROVE TypeOK'
  <2>1. now' = now /\ States' = States /\ Feeds' = Feeds /\ Past' = Past
    BY <1>3, <1>9 DEF ShipPut
  <2>2. r \in Machines /\ ship[r] \in Ships
    BY DEF Machines, TypeOK
  <2>3. ship' \in [Remotes -> Ships]
    BY <1>0, <1>1, <1>9, <2>2 DEF ShipPut, TypeOK
  <2> QED
    BY <1>9, <2>1, <2>3 DEF ShipPut, TypeOK, monitor, history
<1>10. ASSUME NEW r \in Remotes, ShipRename(r) PROVE TypeOK'
  <2>1. now' = now /\ States' = States /\ Feeds' = Feeds /\ Past' = Past
    BY <1>3, <1>10 DEF ShipRename
  <2>2. r \in Machines /\ ship[r] \in Ships
    BY DEF Machines, TypeOK
  <2>3. remote' \in [Remotes -> Feeds] /\ ship' \in [Remotes -> Ships]
    BY <1>1, <1>10, <2>2 DEF ShipRename, TypeOK
  <2> QED
    BY <1>10, <2>1, <2>3 DEF ShipRename, TypeOK, monitor, history
<1>11. ASSUME NEW r \in Remotes, ShipFail(r) PROVE TypeOK'
  <2>1. now' = now /\ States' = States /\ Feeds' = Feeds /\ Past' = Past
    BY <1>3, <1>11 DEF ShipFail
  <2>2. r \in Machines /\ ship[r] \in Ships
    BY DEF Machines, TypeOK
  <2>3. ship' \in [Remotes -> Ships]
    BY <1>1, <1>11, <2>2 DEF ShipFail, TypeOK
  <2>4. faults' \in 0 .. MaxFaults
    <3>1. faults \in Nat /\ MaxFaults \in Nat /\ faults <= MaxFaults
      BY DEF TypeOK
    <3>2. faults' = faults \/ (faults < MaxFaults /\ faults' = faults + 1)
      BY <1>11 DEF ShipFail
    <3> QED
      BY <3>1, <3>2
  <2> QED
    BY <1>11, <2>1, <2>3, <2>4 DEF ShipFail, TypeOK, monitor, history
<1>12. CASE UNCHANGED vars
  <2>1. now' = now /\ States' = States /\ Feeds' = Feeds /\ Past' = Past
    BY <1>3, <1>12 DEF vars
  <2> QED
    BY <1>12, <2>1 DEF vars, TypeOK, monitor, history
<1> QED
  BY <1>4, <1>5, <1>6, <1>7, <1>8, <1>9, <1>10, <1>11, <1>12 DEF Next

\* Type correctness (live-monitor.py:519-667): no timer of a user runs against
\* the other, and nothing bears a time to come.
THEOREM LiveTyped == Spec => []TypeOK
<1> QED
  BY InitLiveTyped, StepLiveTyped, PTL DEF Spec

-----------------------------------------------------------------------------
(***************************************************************************)
(* What holds of one user.                                                 *)
(***************************************************************************)

\* A monitor that runs has looked, or started, not long ago; it knows its own
\* users only, and forgets them when it ends.
Attended ==
  \A m \in Machines :
    /\ known[m] \subseteq UsersOf(m)
    /\ ~up[m] => known[m] = {}
    /\ up[m] => sampled[m] # Never /\ now - sampled[m] <= MaxGap

\* Who works was active when last looked at, or has an idle timer that was
\* started at the next look.
Held(u) ==
  st[u].act = "working" =>
    /\ st[u].lastNet # Never /\ heldAt[u] # Never
    /\ IF st[u].idleSince = Never THEN heldAt[u] = sampled[HostOf[u]]
       ELSE heldAt[u] < st[u].idleSince /\ st[u].idleSince - heldAt[u] <= MaxGap

\* A user is only held active by traffic within the cap.
Capped(u) ==
  /\ st[u].lastNet # Never => netAt[u] = st[u].lastNet
  /\ heldAt[u] # Never => netAt[u] # Never /\ heldAt[u] - netAt[u] <= TurnCap

\* Who has been active is shown, or waits for his active timer.
Running(u) ==
  /\ runFrom[u] = Never => st[u].activeSince = Never
  /\ runFrom[u] # Never =>
       IF st[u].act = "working"
       THEN feed[HostOf[u]].shown[u] \in {"working", "waiting"}
       ELSE /\ st[u].activeSince = runFrom[u]
            /\ sampled[HostOf[u]] - runFrom[u] < ActiveDebounce

Unknown(u) == u \notin known[HostOf[u]] => st[u] = NewUser /\ runFrom[u] = Never

Served(f, u) ==
  f.shown[u] = "working" => heldAt[u] # Never /\ f.at - heldAt[u] < IdleDebounce + MaxGap

UserInv(u) ==
  Held(u) /\ Capped(u) /\ Running(u) /\ Unknown(u) /\ Served(feed[HostOf[u]], u)

LEMMA SampleUser ==
  ASSUME TypeOK, Attended,
         NEW m \in Machines, NEW run \in SUBSET UsersOf(m), NEW net \in SUBSET UsersOf(m),
         NEW owes \in SUBSET UsersOf(m), NEW wait \in SUBSET UsersOf(m),
         NEW wrote \in SUBSET UsersOf(m),
         Sample(m, run, net, owes, wait, wrote),
         NEW u \in Users, HostOf[u] = m, UserInv(u)
  PROVE  /\ UserInv(u)'
         /\ st[u].act = "working" /\ st'[u].act = "idle" => now - heldAt[u] > IdleDebounce
<1> USE LiveAssumption
<1> DEFINE seen == Seen(m, run, owes, wait, wrote)
           a == Active(st[u], u \in net, u \in owes)
           s == st[u]
           d == st'[u]
<1>1. /\ now \in Nat /\ sampled[m] \in Int /\ heldAt[u] \in Int /\ netAt[u] \in Int
      /\ runFrom[u] \in Int /\ heldAt[u] <= now /\ runFrom[u] <= now
      /\ s \in States /\ OneTimer(s)
  BY DEF TypeOK, Past, Never, OneTimer
<1>2. /\ now' = now /\ sampled'[m] = now /\ sampled[m] < now /\ known'[m] = seen
      /\ sampled[m] # Never /\ now - sampled[m] <= MaxGap
  BY DEF Sample, Attended, TypeOK, Seen
<1>3. d = IF u \in seen THEN Debounced(s, u \in net, u \in owes) ELSE s
  BY DEF Sample, Seen
<1>4. heldAt'[u] = IF u \in seen /\ a THEN now ELSE heldAt[u]
  BY DEF Sample, Seen
<1>5. netAt'[u] = IF u \in net \/ (u \in seen /\ s.lastNet = Never) THEN now ELSE netAt[u]
  BY DEF Sample, Seen
<1>6. runFrom'[u] = IF ~(u \in seen /\ a) THEN Never
                    ELSE IF runFrom[u] = Never THEN now ELSE runFrom[u]
  BY DEF Sample, Seen
<1>7. feed'[m].at = now /\ feed'[m].shown[u] = IF u \in wait THEN "waiting"
                                               ELSE IF u \in seen THEN d.act ELSE "absent"
  BY <1>3 DEF Sample, Seen, Shown, TypeOK
<1>8. (u \in net => u \in seen) /\ (u \in wait => u \in seen)
  BY DEF Sample, Seen
<1>9. CASE u \notin seen
  <2>1. s = NewUser /\ d = NewUser /\ runFrom[u] = Never
    BY <1>3, <1>9 DEF UserInv, Unknown, Seen
  <2>2. d.act = "idle" /\ d.lastNet = Never /\ d.activeSince = Never
    BY <2>1 DEF NewUser
  <2>3. heldAt'[u] = heldAt[u] /\ netAt'[u] = netAt[u] /\ runFrom'[u] = Never
    BY <1>4, <1>5, <1>6, <1>8, <1>9, <2>1
  <2>4. feed'[m].shown[u] = "absent"
    BY <1>7, <1>8, <1>9
  <2> QED
    BY <1>2, <2>1, <2>2, <2>3, <2>4 DEF UserInv, Held, Capped, Running, Unknown, Served
<1>10. CASE u \in seen
  <2>1. /\ d = Debounced(s, u \in net, u \in owes) /\ d \in States /\ OneTimer(d)
    BY <1>1, <1>3, <1>10, DebouncedTyped
  <2>2. d.lastNet = LastNet(s, u \in net) /\ d.lastNet # Never /\ d.lastNet \in Int
    BY <1>1, <2>1, NetIsKept DEF LastNet, Never, States, Past
  <2>3. Capped(u)'
    <3>1. netAt'[u] = d.lastNet
      BY <1>5, <1>10, <2>2 DEF LastNet, UserInv, Capped
    <3>2. CASE a
      <4>1. now - d.lastNet <= TurnCap
        BY <1>1, <2>2, <3>2 DEF Active, LastNet
      <4> QED
        BY <1>4, <1>10, <2>2, <3>1, <3>2, <4>1 DEF Capped
    <3>3. CASE ~a
      <4>1. heldAt'[u] = heldAt[u] /\ netAt[u] <= netAt'[u] /\ netAt'[u] \in Int
        BY <1>1, <1>4, <1>5, <2>2, <3>1, <3>3 DEF TypeOK, Past, Never
      <4> QED
        BY <1>1, <2>2, <3>1, <4>1 DEF Capped, UserInv
    <3> QED
      BY <3>2, <3>3
  <2>4. Unknown(u)'
    BY <1>2, <1>10 DEF Unknown
  <2>5. s.act \in {"idle", "working"} /\ d.act \in {"idle", "working"} /\ s.idleSince \in Int
    BY <1>1, <2>1 DEF States, Past, Never
  <2>6. CASE a
    <3>1. heldAt'[u] = now /\ runFrom'[u] = IF runFrom[u] = Never THEN now ELSE runFrom[u]
      BY <1>4, <1>6, <1>10, <2>6
    <3>2. /\ d.idleSince = Never /\ (s.act = "working" => d.act = "working")
          /\ d.act = "idle" =>
               /\ s.act = "idle"
               /\ d.activeSince = IF s.activeSince = Never THEN now ELSE s.activeSince
               /\ now - d.activeSince < ActiveDebounce
      BY <1>1, <2>1, <2>6, UnderSignal
    <3>3. now # Never /\ now - now < IdleDebounce + MaxGap
      BY <1>1 DEF Never
    <3>4. Held(u)'
      BY <1>2, <2>2, <3>1, <3>2, <3>3 DEF Held
    <3>5. Served(feed[HostOf[u]], u)'
      BY <1>7, <3>1, <3>3 DEF Served
    <3>6. runFrom'[u] # Never
      BY <3>1, <3>3
    <3>7. d.act = "idle" => d.activeSince = runFrom'[u]
      BY <3>1, <3>2 DEF UserInv, Running, Never
    <3>8. Running(u)'
      BY <1>2, <1>7, <1>10, <2>5, <3>2, <3>6, <3>7 DEF Running
    <3> QED
      BY <2>3, <2>4, <3>2, <3>4, <3>5, <3>8 DEF UserInv
  <2>7. CASE ~a
    <3>1. heldAt'[u] = heldAt[u] /\ runFrom'[u] = Never
      BY <1>4, <1>6, <2>7
    <3>2. d.activeSince = Never
      BY <2>1, <2>7, QuietStopsTimer
    <3>3. Running(u)'
      BY <3>1, <3>2 DEF Running
    <3>4. CASE s.act = "idle"
      <4>1. d.act = "idle"
        BY <1>1, <2>1, <2>7, <3>4, IdleStays
      <4> QED
        BY <1>7, <2>3, <2>4, <3>3, <3>4, <4>1 DEF UserInv, Held, Served
    <3>5. CASE s.act = "working"
      <4>1. /\ s.lastNet # Never /\ heldAt[u] # Never
            /\ IF s.idleSince = Never THEN heldAt[u] = sampled[m]
               ELSE heldAt[u] < s.idleSince /\ s.idleSince - heldAt[u] <= MaxGap
        BY <3>5 DEF UserInv, Held
      <4>2. /\ d.idleSince = IF s.idleSince = Never THEN now ELSE s.idleSince
            /\ d.act = "working" => now - d.idleSince < IdleDebounce
            /\ d.act = "idle" => now - d.idleSince >= IdleDebounce
        BY <1>1, <2>1, <2>7, <3>5, <4>1, WithoutSignal
      <4>3. /\ d.idleSince # Never /\ d.idleSince \in Int
            /\ heldAt[u] < d.idleSince /\ d.idleSince - heldAt[u] <= MaxGap
        BY <1>1, <1>2, <2>5, <4>1, <4>2 DEF Never
      <4>4. Held(u)'
        BY <2>2, <3>1, <4>1, <4>3 DEF Held
      <4>5. d.act = "working" => now - heldAt[u] < IdleDebounce + MaxGap
        BY <1>1, <4>2, <4>3
      <4>6. Served(feed[HostOf[u]], u)'
        BY <1>7, <3>1, <4>1, <4>5 DEF Served
      <4>7. d.act = "idle" => now - heldAt[u] > IdleDebounce
        BY <1>1, <4>2, <4>3
      <4> QED
        BY <2>3, <2>4, <3>3, <4>4, <4>6, <4>7 DEF UserInv
    <3> QED
      BY <2>5, <3>4, <3>5
  <2> QED
    BY <2>6, <2>7
<1> QED
  BY <1>9, <1>10

-----------------------------------------------------------------------------
(***************************************************************************)
(* What holds of all machines.                                             *)
(***************************************************************************)

\* What a remote has uploaded, or is uploading, was true of its users.
RemoteServed ==
  \A r \in Remotes, u \in Users :
    HostOf[u] = r => Served(ship[r].tmp, u) /\ Served(remote[r], u)

\* A remote does not speak for the users of others.
Foreign ==
  \A r \in Remotes, u \in Users : HostOf[u] # r => feed[r].shown[u] # "working"

MergedRecent ==
  \A u \in Users :
    HostOf[u] # Main /\ feed[Main].shown[u] = "working" =>
      heldAt[u] # Never /\ feed[Main].at - heldAt[u] < Delay(Main, u)

AllUsers == \A u \in Users : UserInv(u)

LiveInv ==
  TypeOK /\ Attended /\ AllUsers /\ RemoteServed /\ Foreign /\ MergedRecent

\* To be served as working does not become less true.
LEMMA ServedStays ==
  ASSUME TypeOK, NEW f \in Feeds, NEW u \in Users, Served(f, u),
         heldAt'[u] \in {heldAt[u], now}
  PROVE  f.shown[u] = "working" => heldAt'[u] # Never /\ f.at - heldAt'[u] < IdleDebounce + MaxGap
<1>1. now \in Nat /\ heldAt[u] \in Int /\ heldAt[u] <= now /\ f.at \in Int
  BY LiveAssumption DEF TypeOK, Past, Feeds, Never
<1> QED
  BY <1>1, LiveAssumption DEF Served, Never

\* A status is as old as its upload may be, and no older.
LEMMA MergedByMain ==
  ASSUME TypeOK, RemoteServed, NEW u \in Users, HostOf[u] # Main,
         RemoteShown(u) = "working", heldAt'[u] \in {heldAt[u], now}
  PROVE  heldAt'[u] # Never /\ now - heldAt'[u] < Delay(Main, u)
<1> DEFINE f == remote[HostOf[u]]
<1>1. HostOf[u] \in Remotes /\ f \in Feeds
  BY LiveAssumption DEF Machines, TypeOK
<1>2. f.shown[u] = "working" /\ now - f.at <= StaleSeconds
  BY LiveAssumption, <1>1 DEF RemoteShown, Stale, TypeOK, Feeds, Past, Never
<1>3. heldAt'[u] # Never /\ f.at - heldAt'[u] < IdleDebounce + MaxGap
  BY <1>1, <1>2, ServedStays DEF RemoteServed
<1>4. now \in Nat /\ heldAt'[u] \in Int /\ f.at \in Int
  BY <1>1, LiveAssumption DEF TypeOK, Past, Feeds, Never
<1> HIDE DEF f
<1>5. now - heldAt'[u] < IdleDebounce + MaxGap + StaleSeconds
  BY <1>2, <1>3, <1>4, LiveAssumption
<1> QED
  BY <1>3, <1>5 DEF Delay

LEMMA InitLive == Init => LiveInv
<1> SUFFICES ASSUME Init PROVE LiveInv
  OBVIOUS
<1> USE LiveAssumption DEF Init
<1>1. TypeOK
  BY InitLiveTyped
<1>2. Attended /\ Foreign /\ MergedRecent
  BY DEF Attended, Foreign, MergedRecent, NoFeed, Machines
<1>3. AllUsers
  BY DEF AllUsers, UserInv, Held, Capped, Running, Unknown, Served, NewUser, NoFeed
<1>4. RemoteServed
  BY DEF RemoteServed, Served, Waiting, NoFeed
<1> QED
  BY <1>1, <1>2, <1>3, <1>4 DEF LiveInv

\* A sample of machine m.
LEMMA SampleLive ==
  ASSUME LiveInv,
         NEW m \in Machines, NEW run \in SUBSET UsersOf(m), NEW net \in SUBSET UsersOf(m),
         NEW owes \in SUBSET UsersOf(m), NEW wait \in SUBSET UsersOf(m),
         NEW wrote \in SUBSET UsersOf(m),
         Sample(m, run, net, owes, wait, wrote)
  PROVE  Attended' /\ AllUsers' /\ RemoteServed' /\ Foreign' /\ MergedRecent'
<1> USE LiveAssumption DEF LiveInv
<1> DEFINE seen == Seen(m, run, owes, wait, wrote)
<1>1. seen \subseteq UsersOf(m)
  BY DEF Attended, Seen
<1>2. /\ now' = now /\ up' = up /\ up[m] /\ remote' = remote /\ ship' = ship
      /\ sampled' = [sampled EXCEPT ![m] = now] /\ known' = [known EXCEPT ![m] = seen]
  BY DEF Sample, Seen
<1>3. Attended'
  BY <1>1, <1>2 DEF Attended, TypeOK, Never
<1>4. \A u \in Users : heldAt'[u] \in {heldAt[u], now}
  BY DEF Sample
<1>5. \A k \in Machines \ {m} : feed'[k] = feed[k]
  BY DEF Sample, TypeOK
<1>6. \A u \in Users :
        feed'[m].shown[u] = IF HostOf[u] = m
                            THEN IF u \in wait THEN "waiting"
                                 ELSE IF u \in seen THEN st'[u].act ELSE "absent"
                            ELSE IF m = Main THEN RemoteShown(u) ELSE "absent"
  BY DEF Sample, Seen, Shown, TypeOK
<1>7. feed'[m].at = now
  BY DEF Sample, TypeOK
<1>8. AllUsers'
  <2> SUFFICES ASSUME NEW u \in Users PROVE UserInv(u)'
    BY DEF AllUsers
  <2>1. CASE HostOf[u] = m
    BY <2>1, SampleUser DEF AllUsers
  <2>2. CASE HostOf[u] # m
    <3>1. u \notin seen /\ u \notin net /\ HostOf[u] \in Machines
      BY <1>1, <2>2 DEF UsersOf
    <3>2. st'[u] = st[u]
      BY <3>1 DEF Sample, Seen
    <3>3. heldAt'[u] = heldAt[u] /\ netAt'[u] = netAt[u]
      BY <3>1 DEF Sample, Seen
    <3>4. runFrom'[u] = runFrom[u]
      BY <2>2 DEF Sample
    <3>5. /\ known'[HostOf[u]] = known[HostOf[u]] /\ sampled'[HostOf[u]] = sampled[HostOf[u]]
          /\ feed'[HostOf[u]] = feed[HostOf[u]]
      BY <1>2, <1>5, <2>2, <3>1 DEF TypeOK
    <3> QED
      BY <3>2, <3>3, <3>4, <3>5 DEF AllUsers, UserInv, Held, Capped, Running, Unknown, Served
  <2> QED
    BY <2>1, <2>2
<1>9. RemoteServed'
  <2> SUFFICES ASSUME NEW r \in Remotes, NEW u \in Users, HostOf[u] = r
               PROVE  Served(ship[r].tmp, u)' /\ Served(remote[r], u)'
    BY DEF RemoteServed
  <2>1. ship[r].tmp \in Feeds /\ remote[r] \in Feeds
    BY DEF TypeOK
  <2> QED
    BY <1>2, <1>4, <2>1, ServedStays DEF RemoteServed, Served
<1>10. Foreign'
  <2> SUFFICES ASSUME NEW r \in Remotes, NEW u \in Users, HostOf[u] # r
               PROVE  feed'[r].shown[u] # "working"
    BY DEF Foreign
  <2>1. r \in Machines /\ r # Main
    BY DEF Machines
  <2> QED
    BY <1>5, <1>6, <2>1 DEF Foreign
<1>11. MergedRecent'
  <2> SUFFICES ASSUME NEW u \in Users, HostOf[u] # Main, feed'[Main].shown[u] = "working"
               PROVE  heldAt'[u] # Never /\ feed'[Main].at - heldAt'[u] < Delay(Main, u)
    BY DEF MergedRecent, Delay
  <2>1. CASE m = Main
    <3>1. RemoteShown(u) = "working"
      BY <1>6, <2>1
    <3> QED
      BY <1>4, <1>7, <2>1, <3>1, MergedByMain
  <2>2. CASE m # Main
    <3>1. feed'[Main] = feed[Main] /\ feed[Main].at \in Int
      BY <1>5, <2>2 DEF Machines, TypeOK, Feeds, Past, Never
    <3>2. heldAt[u] # Never /\ feed[Main].at - heldAt[u] < Delay(Main, u)
      BY <3>1 DEF MergedRecent
    <3>3. now \in Nat /\ heldAt[u] \in Int /\ heldAt[u] <= now /\ Delay(Main, u) \in Int
      BY DEF TypeOK, Past, Delay, Never
    <3> QED
      BY <1>4, <3>1, <3>2, <3>3 DEF Never
  <2> QED
    BY <2>1, <2>2
<1> QED
  BY <1>3, <1>8, <1>9, <1>10, <1>11

LEMMA StepLive == LiveInv /\ [Next]_vars => LiveInv'
<1> SUFFICES ASSUME LiveInv, [Next]_vars PROVE LiveInv'
  OBVIOUS
<1> USE LiveAssumption DEF LiveInv
<1>1. TypeOK'
  BY StepLiveTyped
<1> DEFINE Rest == Attended' /\ AllUsers' /\ RemoteServed' /\ Foreign' /\ MergedRecent'
<1>2. CASE Tick
  <2>1. Attended'
    BY <1>2 DEF Tick, Attended, TypeOK, Past, Never, monitor
  <2>2. AllUsers'
    BY <1>2 DEF Tick, AllUsers, UserInv, Held, Capped, Running, Unknown, Served, monitor, history
  <2>3. RemoteServed' /\ Foreign' /\ MergedRecent'
    BY <1>2 DEF Tick, RemoteServed, Served, Foreign, MergedRecent, monitor, history
  <2> QED
    BY <1>1, <2>1, <2>2, <2>3
<1>3. ASSUME NEW m \in Machines, NEW run \in SUBSET UsersOf(m), NEW net \in SUBSET UsersOf(m),
             NEW owes \in SUBSET UsersOf(m), NEW wait \in SUBSET UsersOf(m),
             NEW wrote \in SUBSET UsersOf(m),
             Sample(m, run, net, owes, wait, wrote)
      PROVE  Rest
  BY <1>3, SampleLive
<1>4. ASSUME NEW m \in Machines, NEW base \in SUBSET UsersOf(m), Start(m, base) PROVE Rest
  <2>1. Attended'
    BY <1>4 DEF Start, Attended, TypeOK, Never
  <2>2. AllUsers'
    <3> SUFFICES ASSUME NEW u \in Users PROVE UserInv(u)'
      BY DEF AllUsers
    <3>1. HostOf[u] \in Machines
      OBVIOUS
    <3>2. CASE HostOf[u] # m
      BY <1>4, <3>1, <3>2 DEF Start, TypeOK, AllUsers, UserInv, Held, Capped, Running, Unknown,
                             Served, history
    <3>3. CASE HostOf[u] = m
      <4>1. st[u] = NewUser /\ runFrom[u] = Never
        BY <1>4, <3>3 DEF Start, Attended, AllUsers, UserInv, Unknown
      <4> QED
        BY <1>4, <3>1, <4>1 DEF Start, AllUsers, UserInv, Held, Capped, Running, Unknown, Served,
                                history, NewUser
    <3> QED
      BY <3>2, <3>3
  <2>3. RemoteServed' /\ Foreign' /\ MergedRecent'
    BY <1>4 DEF Start, RemoteServed, Served, Foreign, MergedRecent, history
  <2> QED
    BY <2>1, <2>2, <2>3
<1>5. ASSUME NEW m \in Machines, Crash(m) PROVE Rest
  <2>1. Attended'
    BY <1>5 DEF Crash, Attended, TypeOK, Never
  <2>2. AllUsers'
    <3> SUFFICES ASSUME NEW u \in Users PROVE UserInv(u)'
      BY DEF AllUsers
    <3>1. HostOf[u] \in Machines
      OBVIOUS
    <3>2. CASE HostOf[u] # m
      <4>1. st'[u] = st[u] /\ runFrom'[u] = runFrom[u] /\ heldAt' = heldAt /\ netAt' = netAt
        BY <1>5, <3>2 DEF Crash
      <4>2. /\ known'[HostOf[u]] = known[HostOf[u]] /\ sampled'[HostOf[u]] = sampled[HostOf[u]]
            /\ feed' = feed
        BY <1>5, <3>1, <3>2 DEF Crash, TypeOK
      <4> QED
        BY <4>1, <4>2 DEF AllUsers, UserInv, Held, Capped, Running, Unknown, Served
    <3>3. CASE HostOf[u] = m
      <4>1. /\ st'[u] = NewUser /\ runFrom'[u] = Never
            /\ heldAt' = heldAt /\ netAt' = netAt /\ feed' = feed
        BY <1>5, <3>3 DEF Crash
      <4> QED
        BY <4>1 DEF AllUsers, UserInv, Held, Capped, Running, Unknown, Served, NewUser
    <3> QED
      BY <3>2, <3>3
  <2>3. RemoteServed'
    BY <1>5 DEF Crash, RemoteServed, Served, TypeOK, Waiting, NoFeed
  <2>4. Foreign' /\ MergedRecent'
    BY <1>5 DEF Crash, Foreign, MergedRecent
  <2> QED
    BY <2>1, <2>2, <2>3, <2>4
<1>6. ASSUME NEW r \in Remotes, ShipCheck(r) \/ ShipPut(r) \/ ShipRename(r) \/ ShipFail(r) PROVE Rest
  <2>1. monitor' = monitor /\ now' = now /\ history' = history
    BY <1>6 DEF ShipCheck, ShipPut, ShipRename, ShipFail, monitor, history
  <2>2. /\ up' = up /\ sampled' = sampled /\ known' = known /\ st' = st /\ feed' = feed
        /\ heldAt' = heldAt /\ netAt' = netAt /\ runFrom' = runFrom
    BY <2>1 DEF monitor, history
  <2>3. Attended'
    BY <2>1, <2>2 DEF Attended
  <2>4. AllUsers'
    BY <2>2 DEF AllUsers, UserInv, Held, Capped, Running, Unknown, Served
  <2>5. Foreign' /\ MergedRecent'
    BY <2>2 DEF Foreign, MergedRecent
  <2>6. RemoteServed'
    <3> SUFFICES ASSUME NEW q \in Remotes, NEW u \in Users, HostOf[u] = q
                 PROVE  Served(ship[q].tmp, u)' /\ Served(remote[q], u)'
      BY DEF RemoteServed
    <3>1. Served(ship[q].tmp, u) /\ Served(remote[q], u) /\ Served(feed[q], u) /\ Served(NoFeed, u)
      BY DEF RemoteServed, AllUsers, UserInv, Served, NoFeed
    <3>2. ship'[q].tmp \in {ship[q].tmp, feed[q], NoFeed} /\ remote'[q] \in {remote[q], ship[q].tmp}
      BY <1>6 DEF ShipCheck, ShipPut, ShipRename, ShipFail, TypeOK
    <3> QED
      BY <2>2, <3>1, <3>2 DEF Served
  <2> QED
    BY <2>3, <2>4, <2>5, <2>6
<1>7. CASE UNCHANGED vars
  <2>1. /\ up' = up /\ sampled' = sampled /\ known' = known /\ st' = st /\ feed' = feed /\ now' = now
        /\ heldAt' = heldAt /\ netAt' = netAt /\ runFrom' = runFrom /\ ship' = ship /\ remote' = remote
    BY <1>7 DEF vars, monitor, history
  <2> QED
    <3>1. AllUsers'
      BY <2>1 DEF AllUsers, UserInv, Held, Capped, Running, Unknown, Served
    <3>2. Attended' /\ RemoteServed' /\ Foreign' /\ MergedRecent'
      BY <2>1 DEF Attended, RemoteServed, Served, Foreign, MergedRecent
    <3> QED
      BY <1>1, <3>1, <3>2
<1> QED
  BY <1>1, <1>2, <1>3, <1>4, <1>5, <1>6, <1>7 DEF Next

-----------------------------------------------------------------------------

LEMMA WorkingRecently == LiveInv => WorkingIsRecent
<1> SUFFICES ASSUME LiveInv, NEW m \in Machines, NEW u \in Users, feed[m].shown[u] = "working"
             PROVE  heldAt[u] # Never /\ feed[m].at - heldAt[u] < Delay(m, u)
  BY DEF WorkingIsRecent
<1>1. CASE HostOf[u] = m
  BY <1>1, LiveAssumption DEF LiveInv, AllUsers, UserInv, Served, Delay
<1>2. CASE HostOf[u] # m
  <2>1. m = Main
    BY <1>2 DEF LiveInv, Foreign, Machines
  <2> QED
    BY <1>2, <2>1 DEF LiveInv, MergedRecent
<1> QED
  BY <1>1, <1>2

LEMMA HungDecays == LiveInv => HungTurnDecays
<1> SUFFICES ASSUME LiveInv, NEW m \in Machines, NEW u \in Users, feed[m].shown[u] = "working"
             PROVE  feed[m].at - netAt[u] < TurnCap + Delay(m, u)
  BY DEF HungTurnDecays
<1>1. heldAt[u] # Never /\ feed[m].at - heldAt[u] < Delay(m, u)
  BY WorkingRecently DEF WorkingIsRecent
<1>2. heldAt[u] - netAt[u] <= TurnCap
  BY <1>1 DEF LiveInv, AllUsers, UserInv, Capped
<1>3. /\ heldAt[u] \in Int /\ netAt[u] \in Int /\ feed[m].at \in Int
      /\ Delay(m, u) \in Int /\ TurnCap \in Int
  BY LiveAssumption DEF LiveInv, TypeOK, Past, Feeds, Delay, Never
<1> QED
  BY <1>1, <1>2, <1>3

LEMMA ActiveShown == LiveInv => ActiveIsShown
<1> SUFFICES ASSUME LiveInv, NEW u \in Users, runFrom[u] # Never,
                    sampled[HostOf[u]] - runFrom[u] >= ActiveDebounce
             PROVE  feed[HostOf[u]].shown[u] \in {"working", "waiting"}
  BY DEF ActiveIsShown
<1>1. sampled[HostOf[u]] \in Int /\ runFrom[u] \in Int
  BY LiveAssumption DEF LiveInv, TypeOK, Past, Never
<1> QED
  BY <1>1, LiveAssumption DEF LiveInv, AllUsers, UserInv, Running

Flickers(u) ==
  /\ st[u].act = "working" /\ st'[u].act = "idle"
  /\ ~(up[HostOf[u]] /\ ~up'[HostOf[u]])
  /\ ~(now - heldAt[u] > IdleDebounce)

LEMMA StepSteady == LiveInv /\ [Next]_vars => \A u \in Users : ~Flickers(u)
<1> SUFFICES ASSUME LiveInv, [Next]_vars, NEW u \in Users PROVE ~Flickers(u)
  OBVIOUS
<1> USE LiveAssumption DEF LiveInv
<1>1. ASSUME NEW m \in Machines, NEW run \in SUBSET UsersOf(m), NEW net \in SUBSET UsersOf(m),
             NEW owes \in SUBSET UsersOf(m), NEW wait \in SUBSET UsersOf(m),
             NEW wrote \in SUBSET UsersOf(m),
             Sample(m, run, net, owes, wait, wrote)
      PROVE  ~Flickers(u)
  <2>1. CASE HostOf[u] = m
    BY <1>1, <2>1, SampleUser DEF AllUsers, Flickers
  <2>2. CASE HostOf[u] # m
    <3>1. u \notin Seen(m, run, owes, wait, wrote)
      BY <2>2 DEF Attended, Seen, UsersOf
    <3>2. st'[u] = st[u]
      BY <1>1, <3>1 DEF Sample, Seen
    <3> QED
      BY <3>2 DEF Flickers
  <2> QED
    BY <2>1, <2>2
<1>2. ASSUME NEW m \in Machines, Crash(m) PROVE ~Flickers(u)
  BY <1>2 DEF Crash, Flickers, TypeOK
<1>3. CASE st' = st
  BY <1>3 DEF Flickers
<1> QED
  BY <1>1, <1>2, <1>3 DEF Next, Tick, Start, ShipCheck, ShipPut, ShipRename, ShipFail, vars, monitor

\* A served working is recent (live-monitor.py:427-430), on the user's machine
\* and on the main server: for any machines, users and thresholds, whatever
\* crashes, and however late, or never again, an upload comes.
THEOREM NeverSticks == Spec => []WorkingIsRecent
<1> QED
  BY InitLive, StepLive, WorkingRecently, PTL DEF Spec

\* So a turn without traffic decays (live-monitor.py:83-84).
THEOREM TurnsDecay == Spec => []HungTurnDecays
<1> QED
  BY InitLive, StepLive, HungDecays, PTL DEF Spec

\* And who was active in every sample for ActiveDebounce is shown
\* (live-monitor.py:629-656).
THEOREM WorkIsShown == Spec => []ActiveIsShown
<1> QED
  BY InitLive, StepLive, ActiveShown, PTL DEF Spec

\* A monitor that keeps running gives up working only after IdleDebounce
\* without activity (live-monitor.py:638-656).
THEOREM NeverFlickers == Spec => NoFlicker
<1>1. (\A u \in Users : ~Flickers(u)) =>
      \A u \in Users :
        st[u].act = "working" /\ st'[u].act = "idle" =>
          \/ up[HostOf[u]] /\ ~up'[HostOf[u]]
          \/ now - heldAt[u] > IdleDebounce
  BY DEF Flickers
<1> QED
  BY InitLive, StepLive, StepSteady, <1>1, PTL DEF Spec, NoFlicker

=============================================================================

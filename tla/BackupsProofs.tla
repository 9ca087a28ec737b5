---------------------------- MODULE BackupsProofs ----------------------------
(***************************************************************************)
(* Restore points are kept, for any windows, copies that fail and crashes. *)
(***************************************************************************)
EXTENDS Backups, TLAPS

\* What a day is left with is as good as a restore point: it has the ledger,
\* or there is a reason why not.
Safe(u) ==
  \/ "ledger" \in has[u]
  \/ u \in flawed
  \/ \E w \in Writers : Writing(w, u)

SkippedIsFlawed ==
  \A w \in Writers :
    pc[w] \in {"config", "copied"} /\ "ledger" \notin backed[w] => dest[w] \in flawed

\* A list of directories to delete stays true while the clock goes on.
DoomedIsOld == \A w \in Writers : \A t \in doomed[w] : now - t >= SonWindow

DoomedHasLater ==
  \A w \in Writers : \A t \in doomed[w] :
    Day(t) > CutoffDay(now) => \E u \in Times : Day(u) = Day(t) /\ t < u /\ Safe(u)

DirsSafe == \A t \in dirs : Safe(t)

-----------------------------------------------------------------------------
(***************************************************************************)
(* Types.                                                                  *)
(***************************************************************************)

LEMMA InitTyped == Init => TypeOK
BY ClockAssumption DEF Init, TypeOK, Times, Parts

LEMMA StepTyped == TypeOK /\ [Next]_vars => TypeOK'
<1> SUFFICES ASSUME TypeOK, [Next]_vars PROVE TypeOK'
  OBVIOUS
<1> USE ClockAssumption DEF TypeOK, Times, Parts
<1>1. CASE Tick
  BY <1>1 DEF Tick, history
<1>2. ASSUME NEW p \in Parts, Create(p) PROVE TypeOK'
  BY <1>2 DEF Create, history
<1>3. CASE Gate
  BY <1>3 DEF Gate, history
<1>4. CASE ForcedStart
  <2>1. pc' \in [Writers -> {"idle", "dest", "ledger", "config", "copied", "delete"}]
    BY <1>4 DEF ForcedStart, Writers
  <2> QED
    BY <1>4, <2>1 DEF ForcedStart, history
<1>5. ASSUME NEW w \in Writers, MakeDir(w) PROVE TypeOK'
  <2>1. now \in Times /\ dirs' \subseteq Times /\ dest' \in [Writers -> Times]
    BY <1>5 DEF MakeDir
  <2>2. flawed' \subseteq Times
    BY <1>5 DEF MakeDir
  <2>3. pc' \in [Writers -> {"idle", "dest", "ledger", "config", "copied", "delete"}]
    BY <1>5 DEF MakeDir
  <2>4. backed' \in [Writers -> SUBSET Parts]
    BY <1>5 DEF MakeDir
  <2> QED
    BY <1>5, <2>1, <2>2, <2>3, <2>4 DEF MakeDir
<1>6. ASSUME NEW w \in Writers, NEW p \in Parts, Copy(w, p) PROVE TypeOK'
  <2>1. pc' \in [Writers -> {"idle", "dest", "ledger", "config", "copied", "delete"}]
    BY <1>6 DEF Copy, After
  <2>2. has' \in [Times -> SUBSET Parts] /\ \A t \in Times \ dirs : has'[t] = {}
    BY <1>6 DEF Copy
  <2>3. backed' \in [Writers -> SUBSET Parts] /\ good' \subseteq Times
    BY <1>6 DEF Copy
  <2> QED
    BY <1>6, <2>1, <2>2, <2>3 DEF Copy
<1>7. ASSUME NEW w \in Writers, NEW p \in Parts, Miss(w, p) PROVE TypeOK'
  <2>1. pc' \in [Writers -> {"idle", "dest", "ledger", "config", "copied", "delete"}]
    BY <1>7 DEF Miss, After
  <2>2. flawed' \subseteq Times
    BY <1>7 DEF Miss
  <2>3. faults' \in 0 .. MaxFaults
    <3>1. faults \in Nat /\ MaxFaults \in Nat /\ faults <= MaxFaults
      OBVIOUS
    <3>2. faults' = faults \/ (faults < MaxFaults /\ faults' = faults + 1)
      BY <1>7 DEF Miss
    <3> QED
      BY <3>1, <3>2
  <2> QED
    BY <1>7, <2>1, <2>2, <2>3 DEF Miss
<1>8. ASSUME NEW w \in Writers, Drop(w) PROVE TypeOK'
  <2>1. dirs' \subseteq Times /\ has' \in [Times -> SUBSET Parts]
    BY <1>8 DEF Drop, Remove
  <2>2. \A t \in Times \ dirs' : has'[t] = {}
    BY <1>8 DEF Drop, Remove
  <2>3. /\ pc' \in [Writers -> {"idle", "dest", "ledger", "config", "copied", "delete"}]
        /\ dest' \in [Writers -> Times] /\ backed' \in [Writers -> SUBSET Parts]
        /\ doomed' \in [Writers -> SUBSET Times]
    BY <1>8 DEF Drop, Exit
  <2> QED
    BY <1>8, <2>1, <2>2, <2>3 DEF Drop, history
<1>9. ASSUME NEW w \in Writers, ListDirs(w) PROVE TypeOK'
  BY <1>9 DEF ListDirs, history
<1>10. ASSUME NEW w \in Writers, Delete(w) PROVE TypeOK'
  BY <1>10 DEF Delete, Remove, history
<1>11. ASSUME NEW w \in Writers, Finish(w) PROVE TypeOK'
  BY <1>11 DEF Finish, Exit, history
<1>12. ASSUME NEW w \in Writers, Crash(w) PROVE TypeOK'
  <2>1. /\ pc' \in [Writers -> {"idle", "dest", "ledger", "config", "copied", "delete"}]
        /\ dest' \in [Writers -> Times] /\ backed' \in [Writers -> SUBSET Parts]
        /\ doomed' \in [Writers -> SUBSET Times]
    BY <1>12 DEF Crash, Exit
  <2>2. flawed' \subseteq Times
    BY <1>12 DEF Crash
  <2>3. faults' \in 0 .. MaxFaults
    <3>1. faults \in Nat /\ MaxFaults \in Nat /\ faults <= MaxFaults
      OBVIOUS
    <3>2. faults' = faults \/ (faults < MaxFaults /\ faults' = faults + 1)
      BY <1>12 DEF Crash
    <3> QED
      BY <3>1, <3>2
  <2> QED
    BY <1>12, <2>1, <2>2, <2>3 DEF Crash
<1>13. CASE UNCHANGED vars
  BY <1>13 DEF vars, history
<1> QED
  BY <1>1, <1>2, <1>3, <1>4, <1>5, <1>6, <1>7, <1>8, <1>9, <1>10, <1>11, <1>12, <1>13 DEF Next

\* Type correctness of the restore points (X:945-1035), a directory that is gone
\* holding nothing included.
THEOREM BackupsTyped == Spec => []TypeOK
<1> QED
  BY InitTyped, StepTyped, PTL DEF Spec

-----------------------------------------------------------------------------
(***************************************************************************)
(* The son tier.                                                           *)
(***************************************************************************)

SonInv == TypeOK /\ SkippedIsFlawed /\ DoomedIsOld /\ RecentKept

LEMMA InitSon == Init => SonInv
<1> SUFFICES ASSUME Init PROVE SonInv
  OBVIOUS
<1>1. TypeOK
  BY InitTyped
<1>2. SkippedIsFlawed /\ DoomedIsOld /\ RecentKept
  BY DEF Init, SkippedIsFlawed, DoomedIsOld, RecentKept
<1> QED
  BY <1>1, <1>2 DEF SonInv

\* Only Drop and Delete take the ledger from a directory.
LEMMA StepSon == SonInv /\ [Next]_vars => SonInv'
<1> SUFFICES ASSUME SonInv, [Next]_vars PROVE SonInv'
  OBVIOUS
<1> USE ClockAssumption DEF SonInv
<1>1. TypeOK'
  BY StepTyped
<1>2. SkippedIsFlawed'
  <2>1. CASE Tick
    BY <2>1 DEF Tick, SkippedIsFlawed, TypeOK, Parts, history
  <2>2. ASSUME NEW p \in Parts, Create(p) PROVE SkippedIsFlawed'
    BY <2>2 DEF Create, SkippedIsFlawed, TypeOK, Parts, history
  <2>3. CASE Gate
    BY <2>3 DEF Gate, SkippedIsFlawed, TypeOK, Parts, history
  <2>4. CASE ForcedStart
    BY <2>4 DEF ForcedStart, SkippedIsFlawed, TypeOK, Parts, history
  <2>5. ASSUME NEW w \in Writers, MakeDir(w) PROVE SkippedIsFlawed'
    BY <2>5 DEF MakeDir, SkippedIsFlawed, TypeOK, Parts
  <2>6. ASSUME NEW w \in Writers, NEW p \in Parts, Copy(w, p) PROVE SkippedIsFlawed'
    BY <2>6 DEF Copy, SkippedIsFlawed, TypeOK, Parts, After
  <2>7. ASSUME NEW w \in Writers, NEW p \in Parts, Miss(w, p) PROVE SkippedIsFlawed'
    BY <2>7 DEF Miss, SkippedIsFlawed, TypeOK, Parts, After
  <2>8. ASSUME NEW w \in Writers, Drop(w) PROVE SkippedIsFlawed'
    BY <2>8 DEF Drop, SkippedIsFlawed, TypeOK, Parts, Exit, Remove, history
  <2>9. ASSUME NEW w \in Writers, ListDirs(w) PROVE SkippedIsFlawed'
    BY <2>9 DEF ListDirs, SkippedIsFlawed, TypeOK, Parts, history
  <2>10. ASSUME NEW w \in Writers, Delete(w) PROVE SkippedIsFlawed'
    BY <2>10 DEF Delete, SkippedIsFlawed, TypeOK, Parts, Remove, history
  <2>11. ASSUME NEW w \in Writers, Finish(w) PROVE SkippedIsFlawed'
    BY <2>11 DEF Finish, SkippedIsFlawed, TypeOK, Parts, Exit, history
  <2>12. ASSUME NEW w \in Writers, Crash(w) PROVE SkippedIsFlawed'
    BY <2>12 DEF Crash, SkippedIsFlawed, TypeOK, Parts, Exit
  <2>13. CASE UNCHANGED vars
    BY <2>13 DEF vars, SkippedIsFlawed, TypeOK, Parts, history
  <2> QED
    BY <2>1, <2>2, <2>3, <2>4, <2>5, <2>6, <2>7,
       <2>8, <2>9, <2>10, <2>11, <2>12, <2>13 DEF Next
<1>3. DoomedIsOld'
  <2>1. CASE Tick
    BY <2>1 DEF Tick, DoomedIsOld, TypeOK, Times, history
  <2>2. ASSUME NEW p \in Parts, Create(p) PROVE DoomedIsOld'
    BY <2>2 DEF Create, DoomedIsOld, TypeOK, Times, history
  <2>3. CASE Gate
    BY <2>3 DEF Gate, DoomedIsOld, TypeOK, Times, history
  <2>4. CASE ForcedStart
    BY <2>4 DEF ForcedStart, DoomedIsOld, TypeOK, Times, history
  <2>5. ASSUME NEW w \in Writers, MakeDir(w) PROVE DoomedIsOld'
    BY <2>5 DEF MakeDir, DoomedIsOld, TypeOK, Times
  <2>6. ASSUME NEW w \in Writers, NEW p \in Parts, Copy(w, p) PROVE DoomedIsOld'
    BY <2>6 DEF Copy, DoomedIsOld, TypeOK, Times, After
  <2>7. ASSUME NEW w \in Writers, NEW p \in Parts, Miss(w, p) PROVE DoomedIsOld'
    BY <2>7 DEF Miss, DoomedIsOld, TypeOK, Times, After
  <2>8. ASSUME NEW w \in Writers, Drop(w) PROVE DoomedIsOld'
    BY <2>8 DEF Drop, DoomedIsOld, TypeOK, Times, Exit, Remove, history
  <2>9. ASSUME NEW w \in Writers, ListDirs(w) PROVE DoomedIsOld'
    BY <2>9 DEF ListDirs, DoomedIsOld, TypeOK, Times, history, Kept
  <2>10. ASSUME NEW w \in Writers, Delete(w) PROVE DoomedIsOld'
    BY <2>10 DEF Delete, DoomedIsOld, TypeOK, Times, Remove, history
  <2>11. ASSUME NEW w \in Writers, Finish(w) PROVE DoomedIsOld'
    BY <2>11 DEF Finish, DoomedIsOld, TypeOK, Times, Exit, history
  <2>12. ASSUME NEW w \in Writers, Crash(w) PROVE DoomedIsOld'
    BY <2>12 DEF Crash, DoomedIsOld, TypeOK, Times, Exit
  <2>13. CASE UNCHANGED vars
    BY <2>13 DEF vars, DoomedIsOld, TypeOK, Times, history
  <2> QED
    BY <2>1, <2>2, <2>3, <2>4, <2>5, <2>6, <2>7,
       <2>8, <2>9, <2>10, <2>11, <2>12, <2>13 DEF Next
<1>4. RecentKept'
  <2>1. CASE Tick
    BY <2>1 DEF Tick, RecentKept, TypeOK, Times, history
  <2>2. ASSUME NEW p \in Parts, Create(p) PROVE RecentKept'
    BY <2>2 DEF Create, RecentKept, TypeOK, Times, history
  <2>3. CASE Gate
    BY <2>3 DEF Gate, RecentKept, TypeOK, Times, history
  <2>4. CASE ForcedStart
    BY <2>4 DEF ForcedStart, RecentKept, TypeOK, Times, history
  <2>5. ASSUME NEW w \in Writers, MakeDir(w) PROVE RecentKept'
    BY <2>5 DEF MakeDir, RecentKept, TypeOK, Times
  <2>6. ASSUME NEW w \in Writers, NEW p \in Parts, Copy(w, p) PROVE RecentKept'
    BY <2>6 DEF Copy, RecentKept, TypeOK, Times, After
  <2>7. ASSUME NEW w \in Writers, NEW p \in Parts, Miss(w, p) PROVE RecentKept'
    BY <2>7 DEF Miss, RecentKept, TypeOK, Times, After
  <2>8. ASSUME NEW w \in Writers, Drop(w) PROVE RecentKept'
    BY <2>8 DEF Drop, RecentKept, TypeOK, Times, Exit, Remove, history, SkippedIsFlawed
  <2>9. ASSUME NEW w \in Writers, ListDirs(w) PROVE RecentKept'
    BY <2>9 DEF ListDirs, RecentKept, TypeOK, Times, history
  <2>10. ASSUME NEW w \in Writers, Delete(w) PROVE RecentKept'
    <3>1. PICK x \in doomed[w] : has' = [has EXCEPT ![x] = {}]
      BY <2>10 DEF Delete, Remove
    <3>2. now - x >= SonWindow /\ x \in Times
      BY DEF DoomedIsOld, TypeOK
    <3>3. \A t \in good \ flawed : now - t < SonWindow => t # x
      BY <3>2 DEF TypeOK, Times
    <3> QED
      BY <2>10, <3>1, <3>3 DEF Delete, history, RecentKept, TypeOK
  <2>11. ASSUME NEW w \in Writers, Finish(w) PROVE RecentKept'
    BY <2>11 DEF Finish, RecentKept, TypeOK, Times, Exit, history
  <2>12. ASSUME NEW w \in Writers, Crash(w) PROVE RecentKept'
    BY <2>12 DEF Crash, RecentKept, TypeOK, Times, Exit
  <2>13. CASE UNCHANGED vars
    BY <2>13 DEF vars, RecentKept, TypeOK, Times, history
  <2> QED
    BY <2>1, <2>2, <2>3, <2>4, <2>5, <2>6, <2>7,
       <2>8, <2>9, <2>10, <2>11, <2>12, <2>13 DEF Next
<1> QED
  BY <1>1, <1>2, <1>3, <1>4

\* No snapshot of the last day loses its ledger (X:989-1035), whatever the
\* other writer prunes or drops meanwhile, wherever either breaks off, for any
\* windows.
THEOREM RecentIsKept == Spec => []RecentKept
<1>1. SonInv => RecentKept
  BY DEF SonInv
<1> QED
  BY InitSon, StepSon, <1>1, PTL DEF Spec

-----------------------------------------------------------------------------
(***************************************************************************)
(* The father tier.                                                        *)
(***************************************************************************)

\* Time does not bring a day back into the window.
LEMMA CutoffGrows == ASSUME TypeOK, TypeOK', now <= now'
                     PROVE CutoffDay(now) <= CutoffDay(now') /\ CutoffDay(now') \in Int
<1>1. /\ now - DailyDays * DayLen \in Int /\ now' - DailyDays * DayLen \in Int
      /\ now - DailyDays * DayLen <= now' - DailyDays * DayLen
  <2>1. now \in Int /\ now' \in Int /\ DailyDays * DayLen \in Int
    BY ClockAssumption DEF TypeOK, Times
  <2>2. \A a, b, k \in Int : a <= b => a - k \in Int /\ b - k \in Int /\ a - k <= b - k
    OBVIOUS
  <2> QED
    BY <2>1, <2>2
<1>2. \A a, b \in Int : a <= b => a \div DayLen <= b \div DayLen /\ b \div DayLen \in Int
  BY ClockAssumption, SMTT(30)
<1> QED
  BY <1>1, <1>2 DEF CutoffDay, Day

LEMMA DayIsInt == ASSUME NEW t \in Times PROVE Day(t) \in Int
BY ClockAssumption DEF Times, Day

LEMMA CutoffIsInt == TypeOK => CutoffDay(now) \in Int
<1> SUFFICES ASSUME TypeOK PROVE CutoffDay(now) \in Int
  OBVIOUS
<1>1. now - DailyDays * DayLen \in Int
  BY ClockAssumption DEF TypeOK, Times
<1> QED
  BY <1>1, ClockAssumption DEF CutoffDay, Day

FatherInv == SonInv /\ DirsSafe /\ DoomedHasLater /\ RestorePoints

\* A step that costs directory x what made it safe costs no other, and x is
\* gone.
Costs(x) == x \notin dirs' /\ \A u \in Times \ {x} : Safe(u) => Safe(u)'

Keeps == \A u \in Times : Safe(u) => Safe(u)'

LEMMA OneLost ==
  ASSUME FatherInv, [Next]_vars
  PROVE  Keeps \/ \E w \in Writers : \E x \in doomed[w] : Costs(x)
<1> USE DEF FatherInv, SonInv
<1>1. CASE Tick
  BY <1>1 DEF Tick, Keeps, Safe, Writing, TypeOK, Parts, history
<1>2. ASSUME NEW p \in Parts, Create(p) PROVE Keeps
  BY <1>2 DEF Create, Keeps, Safe, Writing, TypeOK, Parts, history
<1>3. CASE Gate
  BY <1>3 DEF Gate, Keeps, Safe, Writing, TypeOK, Parts, history
<1>4. CASE ForcedStart
  BY <1>4 DEF ForcedStart, Keeps, Safe, Writing, TypeOK, Parts, history
<1>5. ASSUME NEW w \in Writers, MakeDir(w) PROVE Keeps
  BY <1>5 DEF MakeDir, Keeps, Safe, Writing, TypeOK, Parts
<1>6. ASSUME NEW w \in Writers, NEW p \in Parts, Copy(w, p) PROVE Keeps
  BY <1>6 DEF Copy, Keeps, Safe, Writing, TypeOK, Parts, After
<1>7. ASSUME NEW w \in Writers, NEW p \in Parts, Miss(w, p) PROVE Keeps
  BY <1>7 DEF Miss, Keeps, Safe, Writing, TypeOK, Parts, After
<1>8. ASSUME NEW w \in Writers, Drop(w) PROVE Keeps
  BY <1>8 DEF Drop, Keeps, Safe, Writing, TypeOK, Parts, Exit, Remove, history, SkippedIsFlawed
<1>9. ASSUME NEW w \in Writers, ListDirs(w) PROVE Keeps
  BY <1>9 DEF ListDirs, Keeps, Safe, Writing, TypeOK, Parts, history
<1>10. ASSUME NEW w \in Writers, Delete(w) PROVE \E x \in doomed[w] : Costs(x)
  <2>1. PICK x \in doomed[w] : dirs' = dirs \ {x} /\ has' = [has EXCEPT ![x] = {}]
    BY <1>10 DEF Delete, Remove
  <2>2. \A u \in Times \ {x} : has'[u] = has[u]
    BY <2>1 DEF TypeOK
  <2>3. Costs(x)
    BY <1>10, <2>1, <2>2 DEF Delete, Costs, Safe, Writing, history
  <2> QED
    BY <2>3
<1>11. ASSUME NEW w \in Writers, Finish(w) PROVE Keeps
  BY <1>11 DEF Finish, Keeps, Safe, Writing, TypeOK, Parts, Exit, history
<1>12. ASSUME NEW w \in Writers, Crash(w) PROVE Keeps
  BY <1>12 DEF Crash, Keeps, Safe, Writing, TypeOK, Parts, Exit
<1>13. CASE UNCHANGED vars
  BY <1>13 DEF vars, Keeps, Safe, Writing, TypeOK, Parts, history
<1> QED
  BY <1>1, <1>2, <1>3, <1>4, <1>5, <1>6, <1>7, <1>8, <1>9, <1>10, <1>11, <1>12, <1>13 DEF Next

\* So a day of the father tier with a safe directory still has one as late.
LEMMA LaterStaysSafe ==
  ASSUME FatherInv, [Next]_vars, NEW u \in Times, Safe(u), Day(u) > CutoffDay(now)
  PROVE  \E v \in Times : Day(v) = Day(u) /\ u <= v /\ Safe(v)'
<1>1. CASE Keeps
  BY <1>1 DEF Keeps, Times
<1>2. ASSUME NEW w \in Writers, NEW x \in doomed[w], Costs(x)
      PROVE  \E v \in Times : Day(v) = Day(u) /\ u <= v /\ Safe(v)'
  <2>1. CASE u # x
    BY <1>2, <2>1 DEF Costs, Times
  <2>2. CASE u = x
    <3>1. PICK v \in Times : Day(v) = Day(x) /\ x < v /\ Safe(v)
      BY <2>2 DEF FatherInv, DoomedHasLater
    <3>2. v # x /\ u <= v
      BY <2>2, <3>1 DEF Times
    <3> QED
      BY <1>2, <2>2, <3>1, <3>2 DEF Costs
  <2> QED
    BY <2>1, <2>2
<1> QED
  BY <1>1, <1>2, OneLost

LEMMA StepFather == FatherInv /\ [Next]_vars => FatherInv'
<1> SUFFICES ASSUME FatherInv, [Next]_vars PROVE FatherInv'
  OBVIOUS
<1> USE ClockAssumption DEF FatherInv
<1>1. SonInv'
  BY StepSon
<1>2. TypeOK /\ TypeOK'
  BY <1>1 DEF SonInv
<1>3. now <= now'
  <2>1. now' = now \/ now' = now + 1
    BY DEF Next, Tick, Create, Gate, ForcedStart, MakeDir, Copy, Miss, Drop, ListDirs, Delete,
           Finish, Crash, vars
  <2> QED
    BY <1>2, <2>1 DEF TypeOK, Times
<1>4. \A t \in Times : Day(t) > CutoffDay(now') => Day(t) > CutoffDay(now)
  BY <1>2, <1>3, CutoffGrows, CutoffIsInt, DayIsInt
<1>5. DirsSafe'
  <2> SUFFICES ASSUME NEW d \in dirs' PROVE Safe(d)'
    BY DEF DirsSafe
  <2>1. d \in Times
    BY <1>2 DEF TypeOK
  <2>2. CASE d \in dirs
    BY <2>1, <2>2, OneLost DEF DirsSafe, Costs, Keeps
  <2>3. CASE d \notin dirs
    <3>1. PICK w \in Writers : MakeDir(w)
      BY <2>3 DEF Next, Tick, Create, Gate, ForcedStart, Copy, Miss, Drop, ListDirs, Delete,
                  Finish, Crash, Remove, vars
    <3>2. d = now
      BY <2>3, <3>1 DEF MakeDir
    <3> QED
      BY <1>2, <3>1, <3>2 DEF MakeDir, Safe, Writing, TypeOK
  <2> QED
    BY <2>2, <2>3
<1>6. DoomedHasLater'
  <2> SUFFICES ASSUME NEW w \in Writers, NEW t \in doomed'[w], Day(t) > CutoffDay(now')
               PROVE  \E u \in Times : Day(u) = Day(t) /\ t < u /\ Safe(u)'
    BY DEF DoomedHasLater
  <2>1. t \in Times /\ Day(t) > CutoffDay(now)
    BY <1>2, <1>4 DEF TypeOK
  <2>2. \E u \in Times : Day(u) = Day(t) /\ t < u /\ Safe(u)
    <3>1. CASE t \in doomed[w]
      BY <2>1, <3>1 DEF DoomedHasLater
    <3>2. CASE t \notin doomed[w]
      <4>1. t \in dirs \ Kept(dirs, now)
        BY <1>2, <3>2 DEF Next, Tick, Create, Gate, ForcedStart, MakeDir, Copy, Miss, Drop,
             ListDirs, Delete, Finish, Crash, Exit, vars, TypeOK
      <4>2. PICK u \in dirs : Day(u) = Day(t) /\ ~(u <= t)
        BY <2>1, <4>1 DEF Kept
      <4>3. u \in Times /\ t < u
        BY <1>2, <2>1, <4>2 DEF TypeOK, Times
      <4> QED
        BY <4>2, <4>3 DEF DirsSafe
    <3> QED
      BY <3>1, <3>2
  <2>3. PICK u \in Times : Day(u) = Day(t) /\ t < u /\ Safe(u)
    BY <2>2
  <2>4. PICK v \in Times : Day(v) = Day(u) /\ u <= v /\ Safe(v)'
    BY <2>1, <2>3, LaterStaysSafe
  <2>5. t < v
    BY <2>1, <2>3, <2>4 DEF Times
  <2> QED
    BY <2>3, <2>4, <2>5
<1>7. RestorePoints'
  <2> SUFFICES ASSUME NEW t \in good', Day(t) > CutoffDay(now')
               PROVE  \E u \in Times : Day(u) = Day(t) /\ t <= u /\ Safe(u)'
    BY DEF RestorePoints, Safe
  <2>1. t \in Times /\ Day(t) > CutoffDay(now)
    BY <1>2, <1>4 DEF TypeOK
  <2>2. CASE t \in good
    <3>1. PICK u \in Times : Day(u) = Day(t) /\ t <= u /\ Safe(u)
      BY <2>1, <2>2 DEF RestorePoints, Safe
    <3>2. PICK v \in Times : Day(v) = Day(u) /\ u <= v /\ Safe(v)'
      BY <2>1, <3>1, LaterStaysSafe
    <3>3. t <= v
      BY <2>1, <3>1, <3>2 DEF Times
    <3> QED
      BY <3>1, <3>2, <3>3
  <2>3. CASE t \notin good
    <3>1. PICK w \in Writers : Copy(w, "ledger") /\ t = dest[w]
      BY <2>3 DEF Next, Tick, Create, Gate, ForcedStart, MakeDir, Copy, Miss, Drop, ListDirs,
                  Delete, Finish, Crash, history, vars
    <3>2. "ledger" \in has'[t]
      BY <1>2, <2>1, <3>1 DEF Copy, TypeOK
    <3> QED
      BY <2>1, <3>2 DEF Safe, Times
  <2> QED
    BY <2>2, <2>3
<1> QED
  BY <1>1, <1>5, <1>6, <1>7

LEMMA InitFather == Init => FatherInv
<1> SUFFICES ASSUME Init PROVE FatherInv
  OBVIOUS
<1>1. DirsSafe /\ DoomedHasLater /\ RestorePoints
  BY DEF Init, DirsSafe, DoomedHasLater, RestorePoints
<1> QED
  BY <1>1, InitSon DEF FatherInv

\* A day of the father tier that once had the ledger in a snapshot keeps one as
\* late, unless that one went wrong or is being written (X:963-1035): for any
\* lengths of day, month and windows, however the two writers overlap.
THEOREM DaysAreKept == Spec => []RestorePoints
<1>1. FatherInv => RestorePoints
  BY DEF FatherInv
<1> QED
  BY InitFather, StepFather, <1>1, PTL DEF Spec

=============================================================================

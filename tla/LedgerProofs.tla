---------------------------- MODULE LedgerProofs ----------------------------
(***************************************************************************)
(* Theorems about module Ledger, for every set of servers, sessions,       *)
(* files, records and runs.                                                *)
(***************************************************************************)
EXTENDS Ledger, WellFoundedInduction, TLAPS

-----------------------------------------------------------------------------
(***************************************************************************)
(* The owner that min(keys) picks.                                         *)
(***************************************************************************)

\* A non-empty set of naturals has a least element, and Smallest is it: the
\* owner that min(keys) picks is one of the keys.
LEMMA SmallestIsMember ==
  ASSUME NEW S \in SUBSET Nat, S # {}
  PROVE  Smallest(S) \in S /\ \A j \in S : Smallest(S) <= j
<1>1. PICK m \in S : \A k \in S : <<k, m>> \notin OpToRel(<, Nat)
  BY WFMin, NatLessThanWellFounded
<1>2. \A k \in S : ~(k < m)
  BY <1>1, Zenon DEF OpToRel
<1>3. \A k \in S : m <= k
  BY <1>2
<1>. QED
  BY <1>1, <1>3 DEF Smallest

\* Owners are assigned within the sessions of the ledger.
LEMMA OwnersAreSessions ==
  ASSUME TypeOK, NEW x \in Runs
  PROVE  OwnersFrom(x, KnownOwners(x)) \in Owners
<1>1. KnownOwners(x) \in Owners
  BY DEF TypeOK, KnownOwners, NoOwners, Owners
<1>2. ASSUME NEW r \in Records, Holders(x, r) # {}
      PROVE  Smallest(Holders(x, r)) \in Sessions
  <2>1. work[x].listed \subseteq Files
    BY DEF TypeOK, RunData
  <2>2. Holders(x, r) \subseteq Sessions
    BY <2>1, HostAssumption DEF Holders, Keys
  <2>. QED
    BY <1>2, <2>2, SmallestIsMember, HostAssumption
<1>. QED
  BY <1>1, <1>2 DEF OwnersFrom, Owners

\* A session's metrics are amounts, since its parsed records are.
LEMMA MetricsAreAmounts ==
  ASSUME TypeOK, NEW x \in Runs, NEW s \in Sessions
  PROVE  MetricsOf(x, s) \in Amounts
  BY HostAssumption DEF TypeOK, RunData, MetricsOf, Amounts

\* The session keys of a run, and of the fragments, are sessions.
LEMMA KeysAreSessions ==
  ASSUME TypeOK
  PROVE  /\ \A x \in Runs : Keys(x) \subseteq Sessions
         /\ FragmentKeys \subseteq Sessions
         /\ \A h \in Remotes : fragments[h].rows \in [Sessions -> Amounts]
  BY HostAssumption DEF TypeOK, RunData, Keys, FragmentKeys

-----------------------------------------------------------------------------
(***************************************************************************)
(* Type correctness, one step per action.  The types alone are not         *)
(* inductive: a row comes out of the fragment of its session's server, so  *)
(* the sessions of a fragment must be known to be of that server.          *)
(***************************************************************************)

\* A run collects, and a fragment carries, the sessions of its own server only.
OwnHost ==
  /\ \A x \in Runs : \A f \in work[x].listed : HostOf[SessionOf[f]] = RunHost[x]
  /\ \A h \in Remotes : \A s \in fragments[h].keys : HostOf[s] = h

Typed == TypeOK /\ OwnHost

LEMMA FreshIsRunData == Fresh \in RunData
  BY HostAssumption
  DEF Fresh, RunData, NoRows, Nothing, NoOwners, Owners, Amounts

LEMMA TypeInit == Init => Typed
  BY HostAssumption, FreshIsRunData
  DEF Init, Typed, TypeOK, OwnHost, Amounts, Owners, Nothing, NoRows, NoOwners,
      Fresh, Unreadable

\* A step that gives one run well-typed data gives all of them such data.
LEMMA UpdateRun ==
  ASSUME work \in [Runs -> RunData], NEW x \in Runs, NEW data \in RunData,
         work' = [work EXCEPT ![x] = data]
  PROVE  /\ work' \in [Runs -> RunData]
         /\ work'[x] = data
         /\ \A y \in Runs : y # x => work'[y] = work[y]
  OBVIOUS

\* A run that ends forgets what it listed.
LEMMA FinishTyped ==
  ASSUME Typed, NEW x \in Runs, Finish(x)
  PROVE  /\ pc' \in [Runs -> {"idle", "parse", "assigned", "committed"}]
         /\ work' \in [Runs -> RunData]
         /\ \A y \in Runs : \A f \in work'[y].listed :
              HostOf[SessionOf[f]] = RunHost[y]
<1>1. work' = [work EXCEPT ![x] = Fresh]
  BY DEF Finish
<1>2. work' \in [Runs -> RunData] /\ work'[x] = Fresh
      /\ \A y \in Runs : y # x => work'[y] = work[y]
  BY <1>1, UpdateRun, FreshIsRunData DEF Typed, TypeOK
<1>3. Fresh.listed = {}
  BY DEF Fresh
<1>. QED
  BY <1>2, <1>3 DEF Typed, TypeOK, OwnHost, Finish

LEMMA TypeStep == Typed /\ [Next]_vars => Typed'
<1>. SUFFICES ASSUME Typed, [Next]_vars PROVE Typed'
  OBVIOUS
<1>. USE HostAssumption DEF Typed
<1>1. ASSUME NEW r \in Records, Write(r) PROVE Typed'
  BY <1>1 DEF Write, TypeOK, OwnHost, Amounts, ledger
<1>2. ASSUME NEW f \in Files, NEW g \in Files, Resume(f, g) PROVE Typed'
  BY <1>2 DEF Resume, TypeOK, OwnHost, ledger
<1>3. ASSUME NEW f \in Files, Prune(f) PROVE Typed'
  BY <1>3 DEF Prune, TypeOK, OwnHost, ledger
<1>14. ASSUME NEW h \in Homes, Ignore(h) PROVE Typed'
  BY <1>14 DEF Ignore, TypeOK, OwnHost, ledger
<1>4. ASSUME NEW x \in Runs, List(x) PROVE Typed'
  <2>. DEFINE data == [Fresh EXCEPT !.listed = LiveOn(RunHost[x]),
                                    !.todo = LiveOn(RunHost[x])]
  <2>1. data \in RunData /\ data.listed = LiveOn(RunHost[x])
    BY FreshIsRunData DEF LiveOn, RunData
  <2>2. work' = [work EXCEPT ![x] = data]
    BY <1>4 DEF List
  <2>3. work' \in [Runs -> RunData] /\ work'[x] = data
        /\ \A y \in Runs : y # x => work'[y] = work[y]
    BY <2>1, <2>2, UpdateRun DEF TypeOK
  <2>. HIDE DEF data
  <2>4. \A y \in Runs : \A f \in work'[y].listed :
          HostOf[SessionOf[f]] = RunHost[y]
    <3>. SUFFICES ASSUME NEW y \in Runs, NEW f \in work'[y].listed
                  PROVE  HostOf[SessionOf[f]] = RunHost[y]
      OBVIOUS
    <3>1. CASE y = x
      BY <2>1, <2>3, <3>1 DEF LiveOn
    <3>2. CASE y # x
      BY <2>3, <3>2 DEF OwnHost
    <3>. QED  BY <3>1, <3>2
  <2>. QED
    BY <1>4, <2>3, <2>4 DEF List, TypeOK, OwnHost, ledger, transcripts
<1>5. ASSUME NEW x \in Runs, NEW f \in Files, Read(x, f) PROVE Typed'
  <2>. DEFINE data == HavingRead(work[x], f)
  <2>1. work[x] \in RunData /\ SessionOf[f] \in Sessions
    BY DEF TypeOK
  <2>2. ParseFile(work[x].recs[SessionOf[f]], f) \in Amounts
    <3>1. work[x].recs[SessionOf[f]] \in Amounts /\ content[f] \in Amounts
      BY <2>1 DEF TypeOK, RunData
    <3>2. \A m, n \in 0 .. MaxOut : Larger(m, n) \in 0 .. MaxOut
      BY DEF Larger
    <3>. QED
      BY <3>1, <3>2 DEF ParseFile, Amounts
  <2>3. data \in RunData /\ data.listed = work[x].listed
    BY <2>1, <2>2 DEF RunData, HavingRead
  <2>4. work' = [work EXCEPT ![x] = data]
    BY <1>5 DEF Read
  <2>. HIDE DEF data
  <2>5. work' \in [Runs -> RunData] /\ work'[x] = data
        /\ \A y \in Runs : y # x => work'[y] = work[y]
    BY <2>3, <2>4, UpdateRun DEF TypeOK
  <2>6. \A y \in Runs : work'[y].listed = work[y].listed
    BY <2>3, <2>5
  <2>. QED
    BY <1>5, <2>5, <2>6 DEF Read, TypeOK, OwnHost, ledger, transcripts
<1>6. ASSUME NEW x \in Runs, NEW f \in Files, Skip(x, f) PROVE Typed'
  <2>. DEFINE data == [work[x] EXCEPT !.todo = @ \ {f}]
  <2>3. data \in RunData /\ data.listed = work[x].listed
    BY DEF TypeOK, RunData
  <2>4. work' = [work EXCEPT ![x] = data]
    BY <1>6 DEF Skip, TypeOK
  <2>. HIDE DEF data
  <2>1. work' \in [Runs -> RunData]
        /\ \A y \in Runs : work'[y].listed = work[y].listed
    BY <2>3, <2>4, UpdateRun DEF TypeOK
  <2>2. faults' \in 0 .. MaxFaults
    <3>1. CASE Readable(f)
      BY <1>6, <3>1 DEF Skip, TypeOK
    <3>2. CASE ~Readable(f)
      BY <1>6, <3>2 DEF Skip, TypeOK
    <3>. QED  BY <3>1, <3>2
  <2>. QED
    BY <1>6, <2>1, <2>2 DEF Skip, TypeOK, OwnHost, ledger, transcripts
<1>7. ASSUME NEW x \in Runs, AssignOwners(x) PROVE Typed'
  <2>. DEFINE data == [work[x] EXCEPT !.owner = OwnersFrom(x, KnownOwners(x))]
  <2>3. data \in RunData /\ data.listed = work[x].listed
    BY OwnersAreSessions DEF TypeOK, RunData
  <2>4. work' = [work EXCEPT ![x] = data]
    BY <1>7 DEF AssignOwners, TypeOK
  <2>. HIDE DEF data
  <2>1. work' \in [Runs -> RunData]
        /\ \A y \in Runs : work'[y].listed = work[y].listed
    BY <2>3, <2>4, UpdateRun DEF TypeOK
  <2>. QED
    BY <1>7, <2>1 DEF AssignOwners, TypeOK, OwnHost, ledger, transcripts
<1>8. ASSUME NEW x \in Runs, Ship(x) PROVE Typed'
  <2>1. fragments' \in [Remotes -> [ok : BOOLEAN, keys : SUBSET Sessions,
                                    rows : [Sessions -> Amounts]]]
    BY <1>8, MetricsAreAmounts, KeysAreSessions
    DEF Ship, TypeOK, Nothing, Amounts
  <2>2. \A s \in Keys(x) : HostOf[s] = RunHost[x]
    BY DEF OwnHost, Keys
  <2>3. \A h \in Remotes : \A s \in fragments'[h].keys : HostOf[s] = h
    BY <1>8, <2>2 DEF Ship, OwnHost, TypeOK
  <2>. QED
    BY <1>8, <2>1, <2>3, FinishTyped
    DEF Ship, TypeOK, OwnHost, ledger, transcripts
<1>9. ASSUME NEW x \in Runs, ShipBroken(x) PROVE Typed'
  <2>1. fragments' \in [Remotes -> [ok : BOOLEAN, keys : SUBSET Sessions,
                                    rows : [Sessions -> Amounts]]]
        /\ \A h \in Remotes : \A s \in fragments'[h].keys : HostOf[s] = h
    BY <1>9 DEF ShipBroken, TypeOK, OwnHost, Unreadable, NoRows, Nothing, Amounts
  <2>. QED
    BY <1>9, <2>1, FinishTyped
    DEF ShipBroken, TypeOK, OwnHost, ledger, transcripts
<1>10. ASSUME NEW x \in Runs, Commit(x) PROVE Typed'
  <2>1. owner' \in Owners
    BY <1>10 DEF Commit, PersistOwners, TypeOK, RunData, Owners
  <2>2. rows' \in [Sessions -> Amounts]
    <3>1. ASSUME NEW s \in Sessions, s \in FragmentKeys
          PROVE  fragments[HostOf[s]].rows[s] \in Amounts
      <4>1. PICK h \in Remotes : s \in fragments[h].keys
        BY <3>1 DEF FragmentKeys
      <4>2. HostOf[s] = h
        BY <4>1 DEF OwnHost
      <4>3. fragments[h].rows \in [Sessions -> Amounts]
        BY KeysAreSessions
      <4>. QED
        BY <4>2, <4>3
    <3>. QED
      BY <1>10, <3>1, MetricsAreAmounts DEF Commit, UpsertRows, TypeOK
  <2>3. banked' \subseteq Sessions /\ alive' \subseteq banked'
    BY <1>10, KeysAreSessions DEF Commit, MarkAbsent, Seen, TypeOK
  <2>. QED
    BY <1>10, <2>1, <2>2, <2>3 DEF Commit, TypeOK, OwnHost, transcripts
<1>11. ASSUME NEW x \in Runs, Publish(x) PROVE Typed'
  BY <1>11, FinishTyped DEF Publish, TypeOK, OwnHost, ledger, transcripts
<1>12. ASSUME NEW x \in Runs, Crash(x) PROVE Typed'
  BY <1>12, FinishTyped DEF Crash, TypeOK, OwnHost, ledger, transcripts
<1>13. CASE UNCHANGED vars
  BY <1>13 DEF vars, TypeOK, OwnHost
<1>. QED
  BY <1>1, <1>2, <1>3, <1>4, <1>5, <1>6, <1>7, <1>8, <1>9, <1>10, <1>11,
     <1>12, <1>13, <1>14 DEF Next

-----------------------------------------------------------------------------
(***************************************************************************)
(* The inductive invariant.                                                *)
(***************************************************************************)

\* A file that is not written yet holds nothing.
UnbornEmpty ==
  \A f \in Files : disk[f] = "unborn" => content[f] = Nothing

\* Every amount of table t is in some file of its session, with contents c.
Sourced(t, c) ==
  \A s \in Sessions, r \in Records :
    t[s][r] > 0 => \E f \in FilesOf(s) : c[f][r] >= t[s][r]

\* Wherever amounts travel: parsed records, uploaded fragments, ledger rows.
AllSourced ==
  /\ \A x \in Runs : Sourced(work[x].recs, content)
  /\ \A h \in Remotes : Sourced(fragments[h].rows, content)
  /\ Sourced(rows, content)

\* A local row counts what its session owns.
OwnedRows ==
  \A s \in Local, r \in Records : rows[s][r] > 0 => owner[r] = s

\* The owners a full run is about to commit agree with the table.
OwnersKnown ==
  \A x \in Runs : RunHost[x] = Main /\ pc[x] = "assigned" =>
    \A r \in Records : owner[r] # NoOwner => work[x].owner[r] = owner[r]

\* While a full run collects, what is banked of a local session either has been
\* read by it already or is in a file it has not opened.
Covered(x) ==
  \A s \in Local, r \in Records : rows[s][r] > 0 =>
    \/ work[x].recs[s][r] >= rows[s][r]
    \/ \E f \in FilesOf(s) \ work[x].opened : content[f][r] >= rows[s][r]
BankedCovered ==
  \A x \in Runs :
    RunHost[x] = Main /\ pc[x] \in {"parse", "assigned"} => Covered(x)

LedgerInv ==
  /\ Typed
  /\ UnbornEmpty
  /\ AllSourced
  /\ OwnedRows
  /\ OwnersKnown
  /\ BankedCovered

-----------------------------------------------------------------------------
(***************************************************************************)
(* Transcripts only grow, and so does what may be counted.                 *)
(***************************************************************************)

Grows(c, d) == \A f \in Files, r \in Records : d[f][r] >= c[f][r]

\* Claude Code alone changes the files; every other step leaves them.
LEMMA FilesStep ==
  ASSUME Typed, UnbornEmpty, [Next]_vars
  PROVE  Grows(content, content') /\ UnbornEmpty'
<1>. USE HostAssumption DEF Typed
<1>1. ASSUME NEW r \in Records, Write(r)
      PROVE  Grows(content, content') /\ UnbornEmpty'
  BY <1>1 DEF Write, TypeOK, UnbornEmpty, Grows, Amounts
<1>2. ASSUME NEW f \in Files, NEW g \in Files, Resume(f, g)
      PROVE  Grows(content, content') /\ UnbornEmpty'
  <2>1. content[g] = Nothing /\ content[f] \in Amounts
    BY <1>2 DEF Resume, UnbornEmpty, TypeOK
  <2>. QED
    BY <1>2, <2>1 DEF Resume, TypeOK, UnbornEmpty, Grows, Amounts, Nothing
<1>3. ASSUME NEW f \in Files, Prune(f)
      PROVE  Grows(content, content') /\ UnbornEmpty'
  BY <1>3 DEF Prune, TypeOK, UnbornEmpty, Grows, Amounts
<1>4. ASSUME UNCHANGED transcripts
      PROVE  Grows(content, content') /\ UnbornEmpty'
  BY <1>4 DEF transcripts, TypeOK, UnbornEmpty, Grows, Amounts
<1>5. (\E x \in Runs : List(x) \/ AssignOwners(x) \/ Ship(x) \/ ShipBroken(x)
                         \/ Commit(x) \/ Publish(x) \/ Crash(x)
                         \/ \E f \in Files : Read(x, f) \/ Skip(x, f))
        \/ UNCHANGED vars
      => UNCHANGED transcripts
  BY DEF List, AssignOwners, Ship, ShipBroken, Commit, Publish, Crash, Read,
         Skip, vars, transcripts
<1>6. ASSUME NEW h \in Homes, Ignore(h)
      PROVE  Grows(content, content') /\ UnbornEmpty'
  BY <1>6 DEF Ignore, TypeOK, UnbornEmpty, Grows, Amounts
<1>. QED
  BY <1>1, <1>2, <1>3, <1>4, <1>5, <1>6 DEF Next

\* A table stays sourced when files grow, and so does one with smaller amounts.
LEMMA SourcedBelow ==
  ASSUME NEW t \in [Sessions -> Amounts], NEW u \in [Sessions -> Amounts],
         NEW c \in [Files -> Amounts], NEW d \in [Files -> Amounts],
         Sourced(t, c), Grows(c, d),
         \A s \in Sessions, r \in Records : u[s][r] <= t[s][r]
  PROVE  Sourced(u, d)
<1>. SUFFICES ASSUME NEW s \in Sessions, NEW r \in Records, u[s][r] > 0
              PROVE  \E f \in FilesOf(s) : d[f][r] >= u[s][r]
  BY DEF Sourced
<1>1. u[s][r] \in Nat /\ t[s][r] \in Nat
  BY HostAssumption DEF Amounts
<1>2. PICK f \in FilesOf(s) : c[f][r] >= t[s][r]
  BY <1>1 DEF Sourced
<1>3. f \in Files /\ c[f][r] \in Nat /\ d[f][r] \in Nat
  BY HostAssumption DEF FilesOf, Amounts
<1>4. d[f][r] >= u[s][r]
  BY <1>1, <1>2, <1>3 DEF Grows
<1>. QED
  BY <1>2, <1>4

LEMMA NoRowsSourced ==
  ASSUME NEW c PROVE Sourced(NoRows, c)
  BY DEF Sourced, NoRows, Nothing

\* The metrics of a session are part of its parsed records.
LEMMA MetricsBelow ==
  ASSUME TypeOK, NEW x \in Runs, NEW s \in Sessions, NEW r \in Records
  PROVE  MetricsOf(x, s)[r] <= work[x].recs[s][r]
<1>1. work[x].recs[s][r] \in Nat
  BY HostAssumption DEF TypeOK, RunData, Amounts
<1>. QED
  BY <1>1 DEF MetricsOf

\* Reading a file keeps a run's parsed records sourced.
LEMMA ReadSourced ==
  ASSUME TypeOK, NEW x \in Runs, NEW f \in Files, Sourced(work[x].recs, content)
  PROVE  Sourced(HavingRead(work[x], f).recs, content)
<1>. DEFINE old == work[x].recs
            new == HavingRead(work[x], f).recs
<1>1. old \in [Sessions -> Amounts] /\ content[f] \in Amounts
      /\ SessionOf[f] \in Sessions
  BY HostAssumption DEF TypeOK, RunData
<1>2. new = [old EXCEPT ![SessionOf[f]] = ParseFile(@, f)]
  BY <1>1 DEF HavingRead, TypeOK, RunData
<1>. SUFFICES ASSUME NEW s \in Sessions, NEW r \in Records, new[s][r] > 0
              PROVE  \E g \in FilesOf(s) : content[g][r] >= new[s][r]
  BY DEF Sourced
<1>. HIDE DEF old, new
<1>3. CASE new[s][r] = old[s][r]
  BY <1>3 DEF Sourced, old
<1>4. CASE new[s][r] # old[s][r]
  <2>1. s = SessionOf[f] /\ new[s][r] = Larger(old[s][r], content[f][r])
    BY <1>1, <1>2, <1>4 DEF ParseFile
  <2>2. new[s][r] = content[f][r] /\ content[f][r] \in Nat
    BY <2>1, <1>1, <1>4, HostAssumption DEF Larger, Amounts
  <2>. QED
    BY <2>1, <2>2 DEF FilesOf
<1>. QED
  BY <1>3, <1>4

-----------------------------------------------------------------------------
(***************************************************************************)
(* Nothing is counted that was not written.                                *)
(***************************************************************************)

LEMMA SourcedStep ==
  ASSUME Typed, Typed', UnbornEmpty, AllSourced, [Next]_vars
  PROVE  AllSourced'
<1>. USE HostAssumption DEF Typed
<1>1. Grows(content, content')
  BY FilesStep
<1>2. content \in [Files -> Amounts] /\ content' \in [Files -> Amounts]
  BY DEF TypeOK
<1>3. ASSUME NEW t \in [Sessions -> Amounts], Sourced(t, content)
      PROVE  Sourced(t, content')
  <2>1. \A s \in Sessions, r \in Records : t[s][r] <= t[s][r]
    BY DEF Amounts
  <2>. QED
    BY <1>1, <1>2, <1>3, <2>1, SourcedBelow
<1>4. ASSUME NEW x \in Runs PROVE Sourced(work'[x].recs, content')
  <2>1. work[x].recs \in [Sessions -> Amounts] /\ Sourced(work[x].recs, content')
    BY <1>3 DEF TypeOK, RunData, AllSourced
  <2>2. CASE work'[x].recs = work[x].recs
    BY <2>1, <2>2
  <2>3. CASE work'[x].recs = NoRows
    BY <2>3, NoRowsSourced
  <2>4. CASE \E f \in Files : Read(x, f)
    <3>1. PICK f \in Files : Read(x, f)
      BY <2>4
    <3>2. work'[x].recs = HavingRead(work[x], f).recs /\ content' = content
      BY <3>1 DEF Read, TypeOK, transcripts
    <3>. QED
      BY <3>2, ReadSourced DEF AllSourced
  <2>. DEFINE Outcome == \/ work'[x].recs = work[x].recs
                         \/ work'[x].recs = NoRows
                         \/ \E f \in Files : Read(x, f)
  <2>5. Outcome
    <3>1. ASSUME NEW y \in Runs, Finish(y) PROVE Outcome
      BY <3>1 DEF Finish, TypeOK, Fresh
    <3>2. ASSUME NEW y \in Runs, List(y) PROVE Outcome
      BY <3>2 DEF List, TypeOK, Fresh
    <3>3. ASSUME NEW y \in Runs, NEW f \in Files, Read(y, f) PROVE Outcome
      BY <3>3 DEF Read, TypeOK
    <3>4. ASSUME NEW y \in Runs, NEW f \in Files, Skip(y, f) PROVE Outcome
      BY <3>4 DEF Skip, TypeOK, RunData
    <3>5. ASSUME NEW y \in Runs, AssignOwners(y) PROVE Outcome
      BY <3>5 DEF AssignOwners, TypeOK, RunData
    <3>6. ASSUME work' = work PROVE Outcome
      BY <3>6
    <3>. QED
      BY <3>1, <3>2, <3>3, <3>4, <3>5, <3>6
      DEF Next, vars, Write, Resume, Prune, Ignore, Ship, ShipBroken, Commit, Publish,
          Crash
  <2>. QED
    BY <2>2, <2>3, <2>4, <2>5
<1>5. ASSUME NEW h \in Remotes PROVE Sourced(fragments'[h].rows, content')
  <2>1. fragments[h].rows \in [Sessions -> Amounts]
        /\ fragments'[h].rows \in [Sessions -> Amounts]
        /\ Sourced(fragments[h].rows, content')
    BY <1>3 DEF TypeOK, AllSourced
  <2>2. CASE fragments'[h] = fragments[h]
    BY <2>1, <2>2
  <2>3. CASE fragments'[h] = Unreadable
    BY <2>3, NoRowsSourced DEF Unreadable
  <2>4. CASE \E x \in Runs : Ship(x) /\ RunHost[x] = h
    <3>1. PICK x \in Runs : Ship(x) /\ RunHost[x] = h
      BY <2>4
    <3>2. work[x].recs \in [Sessions -> Amounts] /\ Sourced(work[x].recs, content)
      BY DEF TypeOK, RunData, AllSourced
    <3>3. ASSUME NEW s \in Sessions, NEW r \in Records
          PROVE  fragments'[h].rows[s][r] <= work[x].recs[s][r]
      <4>1. fragments'[h].rows[s] = IF s \in Keys(x) THEN MetricsOf(x, s)
                                                     ELSE Nothing
        BY <3>1 DEF Ship, TypeOK
      <4>2. work[x].recs[s][r] \in Nat
        BY DEF TypeOK, RunData, Amounts
      <4>. QED
        BY <4>1, <4>2, MetricsBelow DEF Nothing
    <3>. QED
      BY <1>1, <1>2, <2>1, <3>2, <3>3, SourcedBelow
  <2>. DEFINE Outcome == \/ fragments'[h] = fragments[h]
                         \/ fragments'[h] = Unreadable
                         \/ \E x \in Runs : Ship(x) /\ RunHost[x] = h
  <2>5. Outcome
    <3>1. ASSUME NEW y \in Runs, Ship(y) PROVE Outcome
      BY <3>1 DEF Ship, TypeOK
    <3>2. ASSUME NEW y \in Runs, ShipBroken(y) PROVE Outcome
      BY <3>2 DEF ShipBroken, TypeOK
    <3>3. ASSUME fragments' = fragments PROVE Outcome
      BY <3>3
    <3>. QED
      BY <3>1, <3>2, <3>3
      DEF Next, vars, Write, Resume, Prune, Ignore, List, Read, Skip, AssignOwners,
          Commit, Publish, Crash
  <2>. QED
    BY <2>2, <2>3, <2>4, <2>5
<1>6. Sourced(rows', content')
  <2>1. CASE rows' = rows
    BY <1>3, <2>1 DEF TypeOK, AllSourced
  <2>2. ASSUME NEW x \in Runs, Commit(x) PROVE Sourced(rows', content')
    <3>. SUFFICES ASSUME NEW s \in Sessions, NEW r \in Records, rows'[s][r] > 0
                  PROVE  \E f \in FilesOf(s) : content'[f][r] >= rows'[s][r]
      BY DEF Sourced
    <3>1. rows'[s] = UpsertRows(x)[s] /\ content' = content
      BY <2>2 DEF Commit, transcripts
    <3>2. CASE s \in Keys(x)
      <4>1. rows'[s][r] <= work[x].recs[s][r]
        BY <3>1, <3>2, MetricsBelow DEF UpsertRows
      <4>2. rows'[s][r] \in Nat /\ work[x].recs[s][r] \in Nat
        BY DEF TypeOK, RunData, Amounts
      <4>3. PICK f \in FilesOf(s) : content[f][r] >= work[x].recs[s][r]
        BY <4>1, <4>2 DEF AllSourced, Sourced
      <4>4. content[f][r] \in Nat
        BY DEF TypeOK, FilesOf, Amounts
      <4>. QED
        BY <3>1, <4>1, <4>2, <4>3, <4>4
    <3>3. CASE s \notin Keys(x) /\ s \in FragmentKeys
      <4>1. HostOf[s] \in Remotes
        BY <3>3 DEF FragmentKeys, OwnHost
      <4>. QED
        BY <3>1, <3>3, <4>1 DEF UpsertRows, AllSourced, Sourced
    <3>4. CASE s \notin Keys(x) /\ s \notin FragmentKeys
      BY <3>1, <3>4 DEF UpsertRows, AllSourced, Sourced
    <3>. QED
      BY <3>2, <3>3, <3>4
  <2>. QED
    BY <2>1, <2>2
    DEF Next, vars, ledger, Write, Resume, Prune, Ignore, List, Read, Skip,
        AssignOwners, Ship, ShipBroken, Publish, Crash
<1>. QED
  BY <1>4, <1>5, <1>6 DEF AllSourced

-----------------------------------------------------------------------------
(***************************************************************************)
(* An owner stays the owner, as long as one full run goes at a time.       *)
(***************************************************************************)

\* A step that neither assigns nor commits owners: the runs that hold assigned
\* owners are among those that held them, with the same ones.
LEMMA OwnersUntouched ==
  ASSUME OwnedRows, OwnersKnown, UNCHANGED <<owner, rows>>,
         \A y \in Runs : pc'[y] = "assigned" =>
           pc[y] = "assigned" /\ work'[y].owner = work[y].owner
  PROVE  OwnedRows' /\ OwnersKnown'
  BY DEF OwnedRows, OwnersKnown

LEMMA OwnedStep ==
  ASSUME OneFullRun, Typed, OwnedRows, OwnersKnown, [Next]_vars
  PROVE  OwnedRows' /\ OwnersKnown'
<1>. USE HostAssumption DEF Typed
<1>1. ASSUME NEW x \in Runs, AssignOwners(x) PROVE OwnedRows' /\ OwnersKnown'
  <2>1. OwnedRows'
    BY <1>1 DEF AssignOwners, OwnedRows, ledger
  <2>2. work'[x].owner = OwnersFrom(x, KnownOwners(x))
        /\ \A y \in Runs : y # x => work'[y] = work[y] /\ pc'[y] = pc[y]
    BY <1>1 DEF AssignOwners, TypeOK, RunData
  <2>3. ASSUME RunHost[x] = Main, NEW r \in Records, owner[r] # NoOwner
        PROVE  work'[x].owner[r] = owner[r]
    BY <2>2, <2>3 DEF OwnersFrom, KnownOwners
  <2>4. owner' = owner
    BY <1>1 DEF AssignOwners, ledger
  <2>5. OwnersKnown'
    BY <2>2, <2>3, <2>4 DEF OwnersKnown
  <2>. QED
    BY <2>1, <2>5
<1>2. ASSUME NEW x \in Runs, Commit(x) PROVE OwnedRows' /\ OwnersKnown'
  <2>1. RunHost[x] = Main /\ pc[x] = "assigned" /\ pc'[x] = "committed"
        /\ owner' = PersistOwners(x) /\ rows' = UpsertRows(x)
    BY <1>2 DEF Commit, TypeOK
  <2>2. OwnersKnown'
    BY <2>1 DEF OwnersKnown, OneFullRun
  <2>3. ASSUME NEW s \in Local, NEW r \in Records, rows'[s][r] > 0
        PROVE  owner'[r] = s
    <3>1. s \in Sessions /\ HostOf[s] = Main /\ s # NoOwner
      BY DEF Local
    <3>2. s \notin FragmentKeys
      BY <3>1 DEF FragmentKeys, OwnHost
    <3>3. CASE s \in Keys(x)
      <4>1. work[x].owner[r] = s
        BY <2>1, <2>3, <3>1, <3>3 DEF UpsertRows, MetricsOf
      <4>. QED
        BY <2>1, <4>1 DEF PersistOwners, OwnersKnown
    <3>4. CASE s \notin Keys(x)
      <4>1. owner[r] = s
        BY <2>1, <2>3, <3>1, <3>2, <3>4 DEF UpsertRows, OwnedRows
      <4>. QED
        BY <2>1, <3>1, <4>1 DEF PersistOwners
    <3>. QED
      BY <3>3, <3>4
  <2>. QED
    BY <2>2, <2>3 DEF OwnedRows
<1>3. ASSUME NEW x \in Runs, Finish(x), UNCHANGED ledger
      PROVE  OwnedRows' /\ OwnersKnown'
  <2>1. \A y \in Runs : pc'[y] = "assigned" =>
          pc[y] = "assigned" /\ work'[y].owner = work[y].owner
    BY <1>3 DEF Finish, TypeOK
  <2>. QED
    BY <1>3, <2>1, OwnersUntouched DEF ledger
<1>4. ASSUME NEW x \in Runs,
             List(x) \/ \E f \in Files : Read(x, f) \/ Skip(x, f)
      PROVE  OwnedRows' /\ OwnersKnown'
  <2>1. pc'[x] = "parse" /\ \A y \in Runs : y # x =>
          work'[y] = work[y] /\ pc'[y] = pc[y]
    BY <1>4 DEF List, Read, Skip, TypeOK
  <2>. QED
    BY <1>4, <2>1, OwnersUntouched DEF List, Read, Skip, ledger
<1>5. ASSUME UNCHANGED <<ledger, pc, work>> PROVE OwnedRows' /\ OwnersKnown'
  BY <1>5, OwnersUntouched DEF ledger
<1>. QED
  BY <1>1, <1>2, <1>3, <1>4, <1>5
  DEF Next, vars, ledger, Write, Resume, Prune, Ignore, Ship, ShipBroken, Publish, Crash

-----------------------------------------------------------------------------
(***************************************************************************)
(* What is banked is still to be read, or has been read, by the next run.  *)
(***************************************************************************)

\* Reading a file keeps what is banked covered.
LEMMA ReadCovers ==
  ASSUME TypeOK, NEW x \in Runs, NEW f \in Files, Covered(x), Read(x, f)
  PROVE  Covered(x)'
<1>. USE HostAssumption
<1>1. work'[x] = HavingRead(work[x], f) /\ rows' = rows /\ content' = content
  BY DEF Read, TypeOK, ledger, transcripts
<1>. SUFFICES ASSUME NEW s \in Local, NEW r \in Records, rows[s][r] > 0
              PROVE  \/ work'[x].recs[s][r] >= rows[s][r]
                     \/ \E g \in FilesOf(s) \ work'[x].opened :
                          content[g][r] >= rows[s][r]
  BY <1>1 DEF Covered
<1>2. s \in Sessions /\ rows[s][r] \in Nat /\ work[x].recs[s][r] \in Nat
      /\ \A g \in Files : content[g][r] \in Nat
  BY DEF Local, TypeOK, RunData, Amounts
<1>3. work'[x].opened = work[x].opened \cup {f}
      /\ work'[x].recs[s][r] = IF s = SessionOf[f]
                               THEN Larger(work[x].recs[s][r], content[f][r])
                               ELSE work[x].recs[s][r]
  BY <1>1, <1>2 DEF HavingRead, ParseFile, TypeOK, RunData
<1>4. CASE work[x].recs[s][r] >= rows[s][r]
  BY <1>2, <1>3, <1>4 DEF Larger
<1>5. CASE \E g \in FilesOf(s) \ work[x].opened : content[g][r] >= rows[s][r]
  <2>1. PICK g \in FilesOf(s) \ work[x].opened : content[g][r] >= rows[s][r]
    BY <1>5
  <2>2. CASE g = f
    <3>1. s = SessionOf[f]
      BY <2>2 DEF FilesOf
    <3>. QED
      BY <1>2, <1>3, <2>1, <2>2, <3>1 DEF Larger
  <2>3. CASE g # f
    BY <1>3, <2>1, <2>3
  <2>. QED
    BY <2>2, <2>3
<1>. QED
  BY <1>4, <1>5 DEF Covered

LEMMA CoveredStep ==
  ASSUME OneFullRun, Typed, UnbornEmpty, AllSourced, BankedCovered, [Next]_vars
  PROVE  BankedCovered'
<1>. USE HostAssumption DEF Typed
<1>. SUFFICES ASSUME NEW x \in Runs, RunHost[x] = Main,
                     pc'[x] \in {"parse", "assigned"}
              PROVE  Covered(x)'
  BY DEF BankedCovered
<1>1. CASE List(x)
  <2>1. work'[x].opened = {} /\ rows' = rows /\ content' = content
    BY <1>1 DEF List, TypeOK, Fresh, ledger, transcripts
  <2>. QED
    BY <2>1 DEF Covered, AllSourced, Sourced, Local
<1>2. CASE \E f \in Files : Read(x, f)
  <2>1. Covered(x)
    BY <1>2 DEF BankedCovered, Read
  <2>. QED
    BY <1>2, <2>1, ReadCovers
<1>. DEFINE Kept == /\ rows' = rows
                    /\ pc[x] \in {"parse", "assigned"}
                    /\ work'[x].recs = work[x].recs
                    /\ work'[x].opened = work[x].opened
<1>3. CASE Kept
  <2>1. Covered(x) /\ Grows(content, content')
    BY <1>3, FilesStep DEF BankedCovered
  <2>2. \A f \in Files, r \in Records : content[f][r] \in Nat /\ content'[f][r] \in Nat
    <3>1. content \in [Files -> Amounts] /\ content' \in [Files -> Amounts]
      BY TypeStep DEF TypeOK
    <3>. QED
      BY <3>1 DEF Amounts
  <2>3. \A s \in Local, r \in Records : rows[s][r] \in Nat
    BY DEF TypeOK, Local, Amounts
  <2>. QED
    BY <1>3, <2>1, <2>2, <2>3 DEF Covered, Grows, FilesOf
<1>4. ASSUME NEW y \in Runs, List(y) \/ Finish(y), UNCHANGED ledger
      PROVE  List(x) \/ Kept
  <2>1. CASE y = x
    BY <1>4, <2>1 DEF Finish, TypeOK
  <2>2. CASE y # x
    BY <1>4, <2>2 DEF List, Finish, TypeOK, ledger
  <2>. QED
    BY <2>1, <2>2
<1>5. ASSUME NEW y \in Runs, NEW f \in Files, Read(y, f)
      PROVE  (\E g \in Files : Read(x, g)) \/ Kept
  <2>1. CASE y = x
    BY <1>5, <2>1
  <2>2. CASE y # x
    BY <1>5, <2>2 DEF Read, TypeOK, ledger
  <2>. QED
    BY <2>1, <2>2
<1>6. ASSUME NEW y \in Runs, NEW f \in Files, Skip(y, f) PROVE Kept
  BY <1>6 DEF Skip, TypeOK, RunData, ledger
<1>7. ASSUME NEW y \in Runs, AssignOwners(y) PROVE Kept
  BY <1>7 DEF AssignOwners, TypeOK, RunData, ledger
<1>8. ASSUME NEW y \in Runs, Commit(y) PROVE FALSE
  <2>1. y = x
    BY <1>8 DEF Commit, OneFullRun
  <2>. QED
    BY <1>8, <2>1 DEF Commit, TypeOK
<1>9. ASSUME UNCHANGED <<ledger, pc, work>> PROVE Kept
  BY <1>9 DEF ledger
<1>10. ASSUME \E y \in Runs : Ship(y) \/ ShipBroken(y) \/ Publish(y) \/ Crash(y)
       PROVE  List(x) \/ Kept
  BY <1>4, <1>10 DEF Ship, ShipBroken, Publish, Crash
<1>11. (\E r \in Records : Write(r)) \/ (\E f, g \in Files : Resume(f, g))
         \/ (\E f \in Files : Prune(f)) \/ (\E h \in Homes : Ignore(h)) \/ UNCHANGED vars
       => UNCHANGED <<ledger, pc, work>>
  BY DEF Write, Resume, Prune, Ignore, vars, ledger
<1>12. ASSUME NEW y \in Runs, List(y) PROVE List(x) \/ Kept
  BY <1>4, <1>12 DEF List
<1>13. List(x) \/ (\E f \in Files : Read(x, f)) \/ Kept
  <2>. HIDE DEF Kept
  <2>. QED
    BY <1>5, <1>6, <1>7, <1>8, <1>9, <1>10, <1>11, <1>12 DEF Next
<1>. QED
  BY <1>1, <1>2, <1>3, <1>13

-----------------------------------------------------------------------------
(***************************************************************************)
(* The rows of a remote: what one fragment replaces.                       *)
(***************************************************************************)

\* A deleted transcript of s held r.
GoneIn(s, r) == \E f \in FilesOf(s) : disk[f] = "gone" /\ content[f][r] > 0

\* A fragment carries a record in one session only.
CarriedOnce ==
  \A h \in Remotes :
    /\ ~fragments[h].ok => fragments[h].keys = {}
    /\ \A r \in Records, s, t \in Sessions :
         fragments[h].rows[s][r] > 0 /\ fragments[h].rows[t][r] > 0 => s = t

\* A record stays in the home it was written in.
Homed ==
  \A f \in Files, r \in Records :
    content[f][r] > 0 => HomeOf[SessionOf[f]] = HomeOf[SessionOf[Origin[r]]]

\* None of the sessions S is of the home of s: that home was ignored.
Passed(s, S) == \A t \in S : HomeOf[t] # HomeOf[s]

\* What a session that run x of a remote did not list has in the ledger, or may
\* still bring there, comes from a deleted file, unless its whole home was
\* passed over.
UnlistedGone(x) ==
  \A s \in Sessions, r \in Records :
    /\ HostOf[s] = RunHost[x]
    /\ s \notin Keys(x)
    /\ rows[s][r] > 0 \/ fragments[RunHost[x]].rows[s][r] > 0
    => GoneIn(s, r) \/ Passed(s, Keys(x))
RunsListAll ==
  \A x \in Runs :
    RunHost[x] \in Remotes /\ pc[x] \in {"parse", "assigned"} => UnlistedGone(x)

\* So does what a session has that is no longer in its server's fragment.
UnshippedGone ==
  \A s \in Sessions, r \in Records :
    /\ HostOf[s] \in Remotes
    /\ fragments[HostOf[s]].ok
    /\ s \notin fragments[HostOf[s]].keys
    /\ rows[s][r] > 0
    => GoneIn(s, r) \/ Passed(s, fragments[HostOf[s]].keys)

\* Two rows of a remote with the same record: one is from a deleted file.
DoubleIsGone ==
  \A r \in Records, s, t \in Sessions :
    /\ s # t
    /\ HostOf[s] = HostOf[t] /\ HostOf[s] \in Remotes
    /\ rows[s][r] > 0 /\ rows[t][r] > 0
    => GoneIn(s, r) \/ GoneIn(t, r)

RemoteInv == Homed /\ CarriedOnce /\ RunsListAll /\ UnshippedGone /\ DoubleIsGone

\* A deleted file is not written again.
LEMMA GoneStays ==
  ASSUME Typed, UnbornEmpty, [Next]_vars,
         NEW s \in Sessions, NEW r \in Records, GoneIn(s, r)
  PROVE  GoneIn(s, r)'
<1>. USE HostAssumption DEF Typed
<1>1. PICK f \in FilesOf(s) : disk[f] = "gone" /\ content[f][r] > 0
  BY DEF GoneIn
<1>2. f \in Files
  BY DEF FilesOf
<1>3. disk'[f] = "gone"
  BY <1>1, <1>2
  DEF Next, vars, transcripts, TypeOK, Write, Resume, Prune, Ignore, List, Read, Skip,
      AssignOwners, Ship, ShipBroken, Commit, Publish, Crash
<1>4. content[f][r] \in Nat /\ content'[f][r] \in Nat
  <2>1. content \in [Files -> Amounts] /\ content' \in [Files -> Amounts]
    BY TypeStep DEF TypeOK
  <2>. QED
    BY <1>2, <2>1 DEF Amounts
<1>5. content'[f][r] >= content[f][r]
  BY <1>2, FilesStep DEF Grows
<1>. QED
  BY <1>1, <1>3, <1>4, <1>5 DEF GoneIn, FilesOf

\* What is in the ledger or a fragment of a session without a live file comes
\* from a deleted one.
LEMMA UnlistedIsGone ==
  ASSUME Typed, UnbornEmpty, NEW t \in [Sessions -> Amounts],
         Sourced(t, content), NEW s \in Sessions, NEW r \in Records,
         t[s][r] > 0, \A f \in FilesOf(s) : disk[f] # "live"
  PROVE  GoneIn(s, r)
<1>. USE HostAssumption DEF Typed
<1>1. PICK f \in FilesOf(s) : content[f][r] >= t[s][r]
  BY DEF Sourced
<1>2. f \in Files /\ content[f][r] \in Nat /\ t[s][r] \in Nat
  BY DEF FilesOf, TypeOK, Amounts
<1>3. content[f][r] > 0
  BY <1>1, <1>2
<1>4. disk[f] # "unborn"
  BY <1>2, <1>3 DEF UnbornEmpty, Nothing
<1>5. disk[f] = "gone"
  BY <1>1, <1>2, <1>4 DEF TypeOK
<1>. QED
  BY <1>1, <1>3, <1>5 DEF GoneIn

\* A resumed session is of the home of the one it copies.
LEMMA HomedStep ==
  ASSUME Typed, UnbornEmpty, Homed, [Next]_vars
  PROVE  Homed'
<1>. USE HostAssumption DEF Typed
<1>1. ASSUME NEW r \in Records, Write(r) PROVE Homed'
  <2>. SUFFICES ASSUME NEW g \in Files, NEW q \in Records, content'[g][q] > 0
                PROVE  HomeOf[SessionOf[g]] = HomeOf[SessionOf[Origin[q]]]
    BY DEF Homed
  <2>1. CASE g = Origin[r] /\ q = r
    BY <2>1
  <2>2. CASE ~(g = Origin[r] /\ q = r)
    <3>1. content'[g][q] = content[g][q]
      BY <1>1, <2>2 DEF Write, TypeOK, Amounts
    <3>. QED
      BY <3>1 DEF Homed
  <2>. QED
    BY <2>1, <2>2
<1>2. ASSUME NEW f \in Files, NEW g \in Files, Resume(f, g) PROVE Homed'
  BY <1>2 DEF Resume, Homed, TypeOK
<1>3. ASSUME UNCHANGED content PROVE Homed'
  BY <1>3 DEF Homed
<1>. QED
  BY <1>1, <1>2, <1>3 DEF Next, vars, transcripts, Prune, Ignore, List, Read, Skip,
     AssignOwners, Ship, ShipBroken, Commit, Publish, Crash

\* A step that changes neither rows nor fragments keeps all but RunsListAll.
LEMMA RowsUntouched ==
  ASSUME Typed, UnbornEmpty, [Next]_vars, RemoteInv, UNCHANGED <<rows, fragments>>
  PROVE  Homed' /\ CarriedOnce' /\ UnshippedGone' /\ DoubleIsGone'
<1>0. Homed'
  BY HomedStep DEF RemoteInv
<1>1. CarriedOnce'
  BY DEF RemoteInv, CarriedOnce
<1>2. UnshippedGone'
  BY GoneStays DEF RemoteInv, UnshippedGone, Passed
<1>3. DoubleIsGone'
  BY GoneStays DEF RemoteInv, DoubleIsGone
<1>. QED
  BY <1>0, <1>1, <1>2, <1>3

\* A run that goes on with the files it has listed.
LEMMA StillUnlisted ==
  ASSUME Typed, UnbornEmpty, [Next]_vars, RemoteInv, NEW x \in Runs,
         RunHost[x] \in Remotes, pc[x] \in {"parse", "assigned"},
         work'[x].listed = work[x].listed,
         \A s \in Sessions, r \in Records :
           /\ HostOf[s] = RunHost[x]
           /\ rows'[s][r] > 0 \/ fragments'[RunHost[x]].rows[s][r] > 0
           => rows[s][r] > 0 \/ fragments[RunHost[x]].rows[s][r] > 0
  PROVE  UnlistedGone(x)'
<1>1. Keys(x)' = Keys(x)
  BY DEF Keys
<1>. SUFFICES ASSUME NEW s \in Sessions, NEW r \in Records,
                     HostOf[s] = RunHost[x], s \notin Keys(x),
                     rows'[s][r] > 0 \/ fragments'[RunHost[x]].rows[s][r] > 0
              PROVE  GoneIn(s, r)' \/ Passed(s, Keys(x))
  BY <1>1 DEF UnlistedGone, Passed
<1>2. GoneIn(s, r) \/ Passed(s, Keys(x))
  BY DEF RemoteInv, RunsListAll, UnlistedGone
<1>. QED
  BY <1>2, GoneStays

\* One step per action; a commit moves fragments into rows, an upload rows out
\* of the fragment's reach.
LEMMA RemoteStep ==
  ASSUME OneRunPerServer, Typed, UnbornEmpty, AllSourced, RemoteInv, [Next]_vars
  PROVE  RemoteInv'
<1>. USE HostAssumption DEF Typed
<1>. DEFINE GoesOn(x) == /\ pc[x] \in {"parse", "assigned"}
                         /\ work'[x].listed = work[x].listed
            Collects(x) == pc'[x] \in {"parse", "assigned"}
<1>1. ASSUME NEW x \in Runs, List(x) PROVE RemoteInv'
  <2>1. work'[x].listed = LiveOn(RunHost[x])
        /\ UNCHANGED <<rows, fragments, disk, content, ignored>>
        /\ \A y \in Runs : y # x => work'[y] = work[y] /\ pc'[y] = pc[y]
    BY <1>1 DEF List, TypeOK, ledger, transcripts
  <2>2. ASSUME RunHost[x] \in Remotes PROVE UnlistedGone(x)'
    <3>. SUFFICES ASSUME NEW s \in Sessions, NEW r \in Records,
                         HostOf[s] = RunHost[x], s \notin Keys(x)',
                         rows[s][r] > 0 \/ fragments[RunHost[x]].rows[s][r] > 0
                  PROVE  GoneIn(s, r) \/ Passed(s, Keys(x)')
      BY <2>1 DEF UnlistedGone, GoneIn, Passed
    <3>1. rows \in [Sessions -> Amounts] /\ Sourced(rows, content)
          /\ fragments[RunHost[x]].rows \in [Sessions -> Amounts]
          /\ Sourced(fragments[RunHost[x]].rows, content)
      BY <2>2 DEF TypeOK, AllSourced
    <3>2. CASE HomeOf[s] \in ignored
      BY <2>1, <3>2 DEF Passed, Keys, LiveOn
    <3>3. CASE HomeOf[s] \notin ignored
      <4>1. \A f \in FilesOf(s) : disk[f] # "live"
        BY <2>1, <3>3 DEF Keys, LiveOn, FilesOf
      <4>. QED
        BY <3>1, <4>1, UnlistedIsGone
    <3>. QED
      BY <3>2, <3>3
  <2>3. ASSUME NEW y \in Runs, RunHost[y] \in Remotes, Collects(y)
        PROVE  UnlistedGone(y)'
    <3>1. CASE y = x
      BY <2>2, <2>3, <3>1
    <3>2. CASE y # x
      BY <2>1, <2>3, <3>2, StillUnlisted
    <3>. QED
      BY <3>1, <3>2
  <2>4. RunsListAll'
    BY <2>3 DEF RunsListAll
  <2>. QED
    BY <2>1, <2>4, RowsUntouched DEF RemoteInv
<1>2. ASSUME UNCHANGED <<rows, fragments>>,
             \A x \in Runs : Collects(x) => GoesOn(x)
      PROVE  RemoteInv'
  <2>1. \A x \in Runs : RunHost[x] \in Remotes /\ Collects(x) => UnlistedGone(x)'
    BY <1>2, StillUnlisted
  <2>2. RunsListAll'
    BY <2>1 DEF RunsListAll
  <2>. QED
    BY <1>2, <2>2, RowsUntouched DEF RemoteInv
<1>3. ASSUME NEW x \in Runs, Finish(x)
      PROVE  \A y \in Runs : Collects(y) => y # x /\ GoesOn(y)
  BY <1>3 DEF Finish, TypeOK
<1>4. ASSUME NEW x \in Runs, Ship(x) \/ ShipBroken(x) PROVE RemoteInv'
  <2>. DEFINE h == RunHost[x]
  <2>1. h \in Remotes /\ pc[x] = "assigned" /\ Finish(x)
        /\ UNCHANGED <<rows, disk, content>>
        /\ \A g \in Remotes : g # h => fragments'[g] = fragments[g]
    BY <1>4 DEF Ship, ShipBroken, TypeOK, ledger, transcripts
  <2>7. Homed'
    BY HomedStep DEF RemoteInv
  <2>2. ASSUME ShipBroken(x) PROVE CarriedOnce' /\ UnshippedGone'
    <3>1. fragments'[h] = Unreadable
      BY <2>2, <2>1 DEF ShipBroken, TypeOK
    <3>2. ~fragments'[h].ok /\ fragments'[h].keys = {}
          /\ \A s \in Sessions, r \in Records : fragments'[h].rows[s][r] = 0
      BY <3>1 DEF Unreadable, NoRows, Nothing
    <3>3. CarriedOnce'
      <4>. SUFFICES ASSUME NEW g \in Remotes
                    PROVE  /\ ~fragments'[g].ok => fragments'[g].keys = {}
                           /\ \A r \in Records, s, t \in Sessions :
                                fragments'[g].rows[s][r] > 0 /\ fragments'[g].rows[t][r] > 0
                                  => s = t
        BY DEF CarriedOnce
      <4>1. CASE g = h
        BY <3>2, <4>1
      <4>2. CASE g # h
        BY <2>1, <4>2 DEF RemoteInv, CarriedOnce
      <4>. QED
        BY <4>1, <4>2
    <3>4. UnshippedGone'
      BY <2>1, <3>2, GoneStays DEF RemoteInv, UnshippedGone, Passed
    <3>. QED
      BY <3>3, <3>4
  <2>3. ASSUME Ship(x) PROVE CarriedOnce' /\ UnshippedGone'
    <3>1. fragments'[h].keys = Keys(x)
          /\ \A s \in Sessions : fragments'[h].rows[s] =
               IF s \in Keys(x) THEN MetricsOf(x, s) ELSE Nothing
      BY <2>1, <2>3 DEF Ship, TypeOK
    <3>2. ASSUME NEW s \in Sessions, NEW r \in Records, fragments'[h].rows[s][r] > 0
          PROVE  work[x].owner[r] = s
      <4>1. CASE s \in Keys(x)
        <5>1. MetricsOf(x, s)[r] > 0
          BY <3>1, <3>2, <4>1
        <5>. QED
          BY <5>1 DEF MetricsOf
      <4>2. CASE s \notin Keys(x)
        <5>1. Nothing[r] > 0
          BY <3>1, <3>2, <4>2
        <5>. QED
          BY <5>1 DEF Nothing
      <4>. QED
        BY <4>1, <4>2
    <3>3. fragments'[h].ok
      BY <2>1, <2>3 DEF Ship, TypeOK
    <3>4. CarriedOnce'
      BY <2>1, <3>2, <3>3 DEF RemoteInv, CarriedOnce
    <3>5. UnlistedGone(x)
      BY <2>1 DEF RemoteInv, RunsListAll
    <3>6. UnshippedGone'
      <4>. SUFFICES ASSUME NEW s \in Sessions, NEW r \in Records,
                           HostOf[s] \in Remotes, fragments'[HostOf[s]].ok,
                           s \notin fragments'[HostOf[s]].keys, rows[s][r] > 0
                    PROVE  GoneIn(s, r)' \/ Passed(s, fragments'[HostOf[s]].keys)
        BY <2>1 DEF UnshippedGone, Passed
      <4>1. CASE HostOf[s] = h
        <5>1. GoneIn(s, r) \/ Passed(s, Keys(x))
          BY <3>1, <3>5, <4>1 DEF UnlistedGone
        <5>2. GoneIn(s, r) => GoneIn(s, r)'
          BY GoneStays
        <5>. QED
          BY <3>1, <4>1, <5>1, <5>2
      <4>2. CASE HostOf[s] # h
        BY <2>1, <4>2, GoneStays DEF RemoteInv, UnshippedGone, Passed
      <4>. QED
        BY <4>1, <4>2
    <3>. QED
      BY <3>4, <3>6
  <2>4. ASSUME NEW y \in Runs, RunHost[y] \in Remotes, Collects(y)
        PROVE  UnlistedGone(y)'
    <3>1. y # x /\ GoesOn(y)
      BY <1>3, <2>1, <2>4
    <3>2. RunHost[y] # h
      BY <3>1 DEF OneRunPerServer
    <3>3. rows' = rows /\ fragments'[RunHost[y]] = fragments[RunHost[y]]
      BY <2>1, <2>4, <3>2
    <3>. QED
      BY <2>4, <3>1, <3>3, StillUnlisted
  <2>5. RunsListAll'
    BY <2>4 DEF RunsListAll
  <2>6. DoubleIsGone'
    BY <2>1, GoneStays DEF RemoteInv, DoubleIsGone
  <2>. QED
    BY <1>4, <2>2, <2>3, <2>5, <2>6, <2>7 DEF RemoteInv
<1>5. ASSUME NEW x \in Runs, Commit(x) PROVE RemoteInv'
  <2>1. RunHost[x] = Main /\ rows' = UpsertRows(x) /\ fragments' = fragments
    BY <1>5 DEF Commit
  <2>2. ASSUME NEW s \in Sessions, HostOf[s] \in Remotes
        PROVE  /\ s \in fragments[HostOf[s]].keys =>
                    rows'[s] = fragments[HostOf[s]].rows[s]
               /\ s \notin fragments[HostOf[s]].keys => rows'[s] = rows[s]
    <3>1. s \notin Keys(x)
      BY <2>1, <2>2 DEF OwnHost, Keys
    <3>2. s \in FragmentKeys <=> s \in fragments[HostOf[s]].keys
      BY <2>2 DEF FragmentKeys, OwnHost
    <3>. QED
      BY <2>1, <3>1, <3>2 DEF UpsertRows
  <2>3. CarriedOnce'
    BY <2>1 DEF RemoteInv, CarriedOnce
  <2>4. UnshippedGone'
    BY <2>1, <2>2, GoneStays DEF RemoteInv, UnshippedGone, Passed
  <2>5. DoubleIsGone'
    <3>. SUFFICES ASSUME NEW r \in Records, NEW s \in Sessions, NEW t \in Sessions,
                         s # t, HostOf[s] = HostOf[t], HostOf[s] \in Remotes,
                         rows'[s][r] > 0, rows'[t][r] > 0
                  PROVE  GoneIn(s, r)' \/ GoneIn(t, r)'
      BY DEF DoubleIsGone
    <3>. DEFINE g == fragments[HostOf[s]]
    <3>1. CASE s \in g.keys /\ t \in g.keys
      <4>1. g.rows[s][r] > 0 /\ g.rows[t][r] > 0
        BY <2>2, <3>1
      <4>. QED
        BY <4>1 DEF RemoteInv, CarriedOnce
    <3>2. ASSUME g.keys # {} PROVE g.ok
      BY <3>2 DEF RemoteInv, CarriedOnce
    <3>6. HomeOf[s] = HomeOf[t]
      <4>1. ASSUME NEW u \in Sessions, rows'[u][r] > 0
            PROVE  HomeOf[u] = HomeOf[SessionOf[Origin[r]]]
        <5>1. rows' \in [Sessions -> Amounts] /\ content' \in [Files -> Amounts]
          BY TypeStep DEF TypeOK
        <5>2. PICK f \in FilesOf(u) : content'[f][r] >= rows'[u][r]
          BY <4>1, TypeStep, SourcedStep DEF AllSourced, Sourced
        <5>3. f \in Files /\ SessionOf[f] = u /\ content'[f][r] > 0
          BY <4>1, <5>1, <5>2 DEF FilesOf, Amounts
        <5>. QED
          BY <5>3, HomedStep DEF RemoteInv, Homed
      <4>. QED
        BY <4>1
    <3>3. CASE s \in g.keys /\ t \notin g.keys
      <4>1. GoneIn(t, r)
        BY <2>2, <3>2, <3>3, <3>6 DEF RemoteInv, UnshippedGone, Passed
      <4>. QED
        BY <4>1, GoneStays
    <3>4. CASE s \notin g.keys /\ t \in g.keys
      <4>1. GoneIn(s, r)
        BY <2>2, <3>2, <3>4, <3>6 DEF RemoteInv, UnshippedGone, Passed
      <4>. QED
        BY <4>1, GoneStays
    <3>5. CASE s \notin g.keys /\ t \notin g.keys
      <4>1. GoneIn(s, r) \/ GoneIn(t, r)
        BY <2>2, <3>5 DEF RemoteInv, DoubleIsGone
      <4>. QED
        BY <4>1, GoneStays
    <3>. QED
      BY <3>1, <3>3, <3>4, <3>5
  <2>6. ASSUME NEW y \in Runs, RunHost[y] \in Remotes, Collects(y)
        PROVE  UnlistedGone(y)'
    <3>1. GoesOn(y)
      BY <1>5, <2>1, <2>6 DEF Commit, TypeOK
    <3>. QED
      BY <2>1, <2>2, <2>6, <3>1, StillUnlisted
  <2>7. RunsListAll'
    BY <2>6 DEF RunsListAll
  <2>8. Homed'
    BY HomedStep DEF RemoteInv
  <2>. QED
    BY <2>3, <2>4, <2>5, <2>7, <2>8 DEF RemoteInv
<1>6. ASSUME NEW x \in Runs, Publish(x) \/ Crash(x) PROVE RemoteInv'
  <2>1. Finish(x) /\ UNCHANGED <<rows, fragments>>
    BY <1>6 DEF Publish, Crash, ledger
  <2>2. \A y \in Runs : Collects(y) => GoesOn(y)
    BY <1>3, <2>1
  <2>. HIDE DEF GoesOn, Collects
  <2>. QED
    BY <1>2, <2>1, <2>2
<1>7. ASSUME NEW x \in Runs, NEW f \in Files, Read(x, f) \/ Skip(x, f)
      PROVE  RemoteInv'
  <2>1. UNCHANGED <<rows, fragments, pc>>
    BY <1>7 DEF Read, Skip, ledger
  <2>2. CASE Read(x, f)
    <3>1. HavingRead(work[x], f).listed = work[x].listed
      BY DEF HavingRead, TypeOK, RunData
    <3>2. work' = [work EXCEPT ![x] = HavingRead(work[x], f)]
      BY <2>2 DEF Read
    <3>3. \A y \in Runs : work'[y].listed = work[y].listed
      BY <3>1, <3>2 DEF TypeOK
    <3>. QED
      BY <1>2, <2>1, <3>3
  <2>3. CASE Skip(x, f)
    <3>1. \A y \in Runs : work'[y].listed = work[y].listed
      BY <2>3 DEF Skip, TypeOK, RunData
    <3>. QED
      BY <1>2, <2>1, <3>1
  <2>. QED
    BY <1>7, <2>2, <2>3
<1>8. ASSUME NEW x \in Runs, AssignOwners(x) PROVE RemoteInv'
  <2>1. UNCHANGED <<rows, fragments>> /\ \A y \in Runs : Collects(y) => GoesOn(y)
    BY <1>8 DEF AssignOwners, TypeOK, RunData, ledger
  <2>. QED
    BY <1>2, <2>1
<1>9. ASSUME UNCHANGED <<rows, fragments, pc, work>> PROVE RemoteInv'
  BY <1>2, <1>9
<1>10. (\E r \in Records : Write(r)) \/ (\E f, g \in Files : Resume(f, g))
         \/ (\E f \in Files : Prune(f)) \/ (\E h \in Homes : Ignore(h)) \/ UNCHANGED vars
       => UNCHANGED <<rows, fragments, pc, work>>
  BY DEF Write, Resume, Prune, Ignore, vars, ledger
<1>. QED
  BY <1>1, <1>4, <1>5, <1>6, <1>7, <1>8, <1>9, <1>10 DEF Next

-----------------------------------------------------------------------------
(***************************************************************************)
(* The theorems.                                                           *)
(***************************************************************************)

\* The part of the invariant that needs no assumption on the runs.
SourceInv == Typed /\ UnbornEmpty /\ AllSourced

LEMMA SourceInvariant == Spec => []SourceInv
<1>1. Init => SourceInv
  <2>1. Init => UnbornEmpty /\ AllSourced
    BY NoRowsSourced
    DEF Init, UnbornEmpty, AllSourced, Unreadable, Fresh
  <2>. QED
    BY <2>1, TypeInit DEF SourceInv
<1>2. SourceInv /\ [Next]_vars => SourceInv'
  BY TypeStep, FilesStep, SourcedStep DEF SourceInv
<1>. QED
  BY <1>1, <1>2, PTL DEF Spec

\* Type correctness: in particular every owner is a session of the ledger and
\* the live rows are rows.
THEOREM TypeCorrect == Spec => []TypeOK
<1>1. SourceInv => TypeOK
  BY DEF SourceInv, Typed
<1>. QED
  BY <1>1, SourceInvariant, PTL

\* However many runs overlap, crash or fail to read, no row of the ledger
\* holds more of a record than is in a transcript of its session.
THEOREM NeverInvents == Spec => []NothingInvented
<1>1. SourceInv => NothingInvented
  BY DEF SourceInv, AllSourced, Sourced, NothingInvented
<1>. QED
  BY <1>1, SourceInvariant, PTL

LEMMA LedgerInvariant == OneFullRun => (Spec => []LedgerInv)
<1>. SUFFICES ASSUME OneFullRun PROVE Spec => []LedgerInv
  OBVIOUS
<1>1. Init => LedgerInv
  <2>1. Init => OwnedRows /\ OwnersKnown /\ BankedCovered
    BY DEF Init, OwnedRows, OwnersKnown, BankedCovered, NoRows, Nothing, Local
  <2>2. Init => UnbornEmpty /\ AllSourced
    BY NoRowsSourced
    DEF Init, UnbornEmpty, AllSourced, Unreadable, Fresh
  <2>. QED
    BY <2>1, <2>2, TypeInit DEF LedgerInv
<1>2. LedgerInv /\ [Next]_vars => LedgerInv'
  BY TypeStep, FilesStep, SourcedStep, OwnedStep, CoveredStep DEF LedgerInv
<1>. QED
  BY <1>1, <1>2, PTL DEF Spec

\* With one full run at a time the ledger of the main server implements the
\* abstract bank: owners are for ever, and a run credits only owners.
THEOREM ImplementsBank == OneFullRun => (Spec => BankSpec)
<1>. SUFFICES ASSUME OneFullRun PROVE Spec => BankSpec
  OBVIOUS
<1>1. Init => Bank!Init
  BY DEF Init, Bank!Init, NoOwners, NoRows, Nothing, Local
<1>2. LedgerInv /\ LedgerInv' /\ [Next]_vars => [Bank!Bank]_(Bank!bankVars)
  <2>. SUFFICES ASSUME LedgerInv, LedgerInv', [Next]_vars PROVE Bank!Bank
    OBVIOUS
  <2>1. ASSUME NEW r \in Records, owner[r] # NoOwner PROVE owner'[r] = owner[r]
    BY <2>1 DEF Next, vars, ledger, Write, Resume, Prune, Ignore, List, Read, Skip,
                AssignOwners, Ship, ShipBroken, Commit, PersistOwners, Publish,
                Crash
  <2>2. (Bank!HeldOnly)'
    BY DEF LedgerInv, OwnedRows, Bank!HeldOnly
  <2>. QED
    BY <2>1, <2>2 DEF Bank!Bank
<1>. QED
  BY <1>1, <1>2, LedgerInvariant, PTL DEF Spec, BankSpec, Bank!Spec

\* With one full run at a time no record is in two rows of the main server,
\* whatever is copied, deleted or unreadable.
THEOREM LocalCountedOnce == OneFullRun => (Spec => []CountedOnce)
<1>. SUFFICES ASSUME OneFullRun PROVE Spec => []CountedOnce
  OBVIOUS
<1>1. LedgerInv => CountedOnce
  BY DEF LedgerInv, OwnedRows, CountedOnce
<1>. QED
  BY <1>1, LedgerInvariant, PTL

\* With one full run at a time a banked amount falls only when the session was
\* listed and a file it has had was not opened by that run.
THEOREM LossExplained == OneFullRun => (Spec => LossNeedsUnreadFile)
<1>. SUFFICES ASSUME OneFullRun PROVE Spec => LossNeedsUnreadFile
  OBVIOUS
<1>1. ASSUME LedgerInv, LedgerInv', [Next]_vars,
             NEW s \in Local, NEW r \in Records, rows'[s][r] < rows[s][r]
      PROVE  \E x \in Runs :
               /\ pc[x] = "assigned" /\ pc'[x] = "committed"
               /\ s \in Keys(x)
               /\ \E f \in FilesOf(s) : disk[f] # "unborn" /\ f \notin work[x].opened
  <2>. USE HostAssumption DEF LedgerInv, Typed
  <2>1. s \in Sessions /\ HostOf[s] = Main /\ rows[s][r] \in Nat
        /\ rows'[s][r] \in Nat
    BY <1>1 DEF Local, TypeOK, Amounts
  <2>2. rows[s][r] > 0 /\ owner[r] = s /\ rows'[s] # rows[s]
    <3>1. rows[s][r] > 0 /\ rows'[s] # rows[s]
      BY <1>1, <2>1
    <3>. QED
      BY <1>1, <3>1 DEF OwnedRows
  <2>3. PICK x \in Runs : Commit(x)
    BY <1>1, <2>2
    DEF Next, vars, ledger, Write, Resume, Prune, Ignore, List, Read, Skip,
        AssignOwners, Ship, ShipBroken, Publish, Crash
  <2>4. RunHost[x] = Main /\ pc[x] = "assigned" /\ pc'[x] = "committed"
        /\ rows' = UpsertRows(x)
    BY <2>3, <1>1 DEF Commit, TypeOK
  <2>5. s \in Keys(x)
    <3>1. s \notin FragmentKeys
      BY <1>1, <2>1 DEF FragmentKeys, OwnHost
    <3>. QED
      BY <2>1, <2>2, <2>4, <3>1 DEF UpsertRows
  <2>6. rows'[s][r] = work[x].recs[s][r]
    <3>1. work[x].owner[r] = s
      BY <1>1, <2>1, <2>2, <2>4 DEF OwnersKnown
    <3>. QED
      BY <2>1, <2>4, <2>5, <3>1 DEF UpsertRows, MetricsOf
  <2>7. PICK f \in FilesOf(s) \ work[x].opened : content[f][r] >= rows[s][r]
    BY <1>1, <2>1, <2>2, <2>4, <2>6 DEF BankedCovered, Covered
  <2>8. disk[f] # "unborn"
    BY <1>1, <2>1, <2>2, <2>7 DEF UnbornEmpty, Nothing, FilesOf
  <2>. QED
    BY <2>4, <2>5, <2>7, <2>8
<1>2. LedgerInv /\ LedgerInv' /\ [Next]_vars =>
        [\A s \in Local, r \in Records :
           rows'[s][r] < rows[s][r] =>
             \E x \in Runs :
               /\ pc[x] = "assigned" /\ pc'[x] = "committed"
               /\ s \in Keys(x)
               /\ \E f \in FilesOf(s) :
                    disk[f] # "unborn" /\ f \notin work[x].opened]_vars
  BY <1>1
<1>. QED
  BY <1>2, LedgerInvariant, PTL DEF Spec, LossNeedsUnreadFile

\* With one run per server at a time a record is in two rows of a remote only
\* after a transcript that held it was deleted there, whatever the uploads do.
THEOREM RemoteDoubleExplained ==
  OneRunPerServer => (Spec => []RemoteDoubleNeedsPrune)
<1>. SUFFICES ASSUME OneRunPerServer PROVE Spec => []RemoteDoubleNeedsPrune
  OBVIOUS
<1>1. OneFullRun
  BY DEF OneRunPerServer, OneFullRun
<1>2. Init => RemoteInv
  <2>1. Init => \A s \in Sessions, r \in Records :
          rows[s][r] = 0 /\ \A h \in Remotes : fragments[h].rows[s][r] = 0
    BY DEF Init, Unreadable, NoRows, Nothing
  <2>2. Init => \A h \in Remotes : fragments[h].keys = {}
    BY DEF Init, Unreadable
  <2>3. Init => \A x \in Runs : pc[x] = "idle"
    BY DEF Init
  <2>4. Init => Homed
    BY DEF Init, Homed, Nothing
  <2>. QED
    BY <2>1, <2>2, <2>3, <2>4
    DEF RemoteInv, CarriedOnce, RunsListAll, UnshippedGone, DoubleIsGone
<1>3. LedgerInv /\ RemoteInv /\ [Next]_vars => RemoteInv'
  BY RemoteStep DEF LedgerInv
<1>4. LedgerInv /\ RemoteInv => RemoteDoubleNeedsPrune
  <2>. SUFFICES ASSUME LedgerInv, RemoteInv, NEW r \in Records,
                       NEW s \in Sessions, NEW t \in Sessions,
                       s # t, HostOf[s] = HostOf[t], rows[s][r] > 0, rows[t][r] > 0
                PROVE  \E f \in FilesOf(s) \cup FilesOf(t) :
                         disk[f] = "gone" /\ content[f][r] > 0
    BY DEF RemoteDoubleNeedsPrune
  <2>1. CASE HostOf[s] = Main
    BY <2>1 DEF LedgerInv, OwnedRows, Local
  <2>2. CASE HostOf[s] \in Remotes
    BY <2>2 DEF RemoteInv, DoubleIsGone, GoneIn
  <2>. QED
    BY <2>1, <2>2, HostAssumption DEF Servers
<1>. QED
  BY <1>1, <1>2, <1>3, <1>4, LedgerInvariant, PTL DEF Spec

=============================================================================

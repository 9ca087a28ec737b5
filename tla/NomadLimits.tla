----------------------------- MODULE NomadLimits -----------------------------
(***************************************************************************)
(* The limits of several accounts on a self-hosted server:                 *)
(* nomad/clients/ccstats-limits.py reads, on every machine, the limits of  *)
(* the account that is active there, and POSTs the reading; the /limits/   *)
(* route of nomad/server/ingest-receiver.py keeps a file per account and   *)
(* rebuilds the feed from all of them.                                     *)
(*                                                                         *)
(* A reading is when it was taken, and the machine that labels it.         *)
(***************************************************************************)
EXTENDS Ticks

CONSTANTS
  Accounts,
  Clients,    \* the machines
  StaleAfter, \* STALE_S
  DropAfter,  \* DROP_S
  PostAge     \* how old a reading can be when its POST arrives: the timeouts of
              \* the two API calls and of the POST

ASSUME LimitsAssumption ==
  /\ {StaleAfter, DropAfter, PostAge} \subseteq Nat
  /\ None \notin [taken : Nat, machine : Clients, stale : BOOLEAN]

VARIABLES
  active,   \* active[m]: the account whose token machine m has, or None
  posting,  \* posting[m]: None or the reading under way to the server
  readings, \* readings[a]: None or the reading in limits-in/
  feed,     \* claude-limits.json: [at, rows, top]; None without one, or when a
            \* crash cut it off
  reported, \* history: reported[a]: the latest of the readings taken in
  behind    \* history: the accounts taken in by a POST that did not rebuild

limitVars == <<active, posting, readings, feed, reported, behind>>

Hop(m) ==
  /\ \E a \in Accounts \cup {None} : a # active[m] /\ active' = [active EXCEPT ![m] = a]
  /\ UNCHANGED <<posting, readings, feed, reported, behind>>

\* One run of the poller up to the POST; an expired token reports nothing.
Report(m) ==
  /\ active[m] # None /\ posting[m] = None
  /\ posting' = [posting EXCEPT ![m] = [account |-> active[m], taken |-> now, machine |-> m]]
  /\ UNCHANGED <<active, readings, feed, reported, behind>>

PostLost(m) ==
  /\ posting[m] # None /\ posting' = [posting EXCEPT ![m] = None]
  /\ UNCHANGED <<active, readings, feed, reported, behind>>

-----------------------------------------------------------------------------

\* Mutant: a row says what it said when its reading came in.
RowWhenNew(r) ==
  [taken |-> r.taken, machine |-> r.machine,
   stale |-> feed # None /\ feed.rows[r.account] # None /\ feed.rows[r.account].stale]

\* A reading in the feed: held when it is old.
Row(r) == [taken |-> r.taken, machine |-> r.machine, stale |-> now - r.taken > StaleAfter]

\* The accounts that were seen lately.
Rows(kept) ==
  [a \in Accounts |-> IF kept[a] = None \/ (kept[a] # None /\ now - kept[a].taken > DropAfter)
                      THEN None ELSE Row(kept[a])]

\* The account for consumers that know only one: the freshest that is live.
Tops(rows) ==
  LET shown == {a \in Accounts : rows[a] # None}
      live  == {a \in shown : ~rows[a].stale}
      from  == IF live = {} THEN shown ELSE live
  IN IF shown = {} THEN {None} ELSE {a \in from : \A b \in from : rows[b].taken <= rows[a].taken}

\* rebuild_feed.
Rebuilt(kept) ==
  LET rows == Rows(kept) IN {[at |-> now, rows |-> rows, top |-> a] : a \in Tops(rows)}

\* handle_limits: the reading replaces the file of its account, whichever was
\* taken later; then the feed is rebuilt and written in place.
TakeIn(m) ==
  /\ posting[m] # None
  /\ readings' = [readings EXCEPT ![posting[m].account] = posting[m]]
  /\ reported' = [reported EXCEPT ![posting[m].account] = SetMax({@, posting[m].taken})]
  /\ posting' = [posting EXCEPT ![m] = None]
  /\ UNCHANGED active

Receive(m) == TakeIn(m) /\ feed' \in Rebuilt(readings') /\ behind' = {}

\* The receiver is killed before the feed, or while it is written.
ReceiveKilled(m) ==
  /\ TakeIn(m) /\ feed' \in {feed, None}
  /\ behind' = behind \cup {posting[m].account}

LimitsInit ==
  /\ active = [m \in Clients |-> None] /\ posting = [m \in Clients |-> None]
  /\ readings = [a \in Accounts |-> None] /\ feed = None
  /\ reported = [a \in Accounts |-> 0] /\ behind = {}

\* A POST that has not arrived in time is lost.
PostsInTime == \A m \in Clients : posting[m] # None => now - posting[m].taken < PostAge

LimitsNext ==
  \/ \E m \in Clients : /\ Hop(m) \/ Report(m) \/ PostLost(m) \/ Receive(m) \/ ReceiveKilled(m)
                        /\ UNCHANGED now
  \/ now' = now + 1 /\ PostsInTime /\ UNCHANGED limitVars

LimitsSpec == now = 0 /\ LimitsInit /\ [][LimitsNext]_<<now, limitVars>>

-----------------------------------------------------------------------------
\* What the feed says of every account, until the next POST: its last reading
\* that was taken in, or one that was overtaken by as much as a POST can be
\* late, and only until it is too old to count as live; the single account of
\* older consumers is a live one if any is.  A POST that was cut off before
\* the feed was rebuilt, or while it was written, shows in the next.
FeedIsHonest ==
  feed # None =>
    \A a \in Accounts :
      LET row == feed.rows[a]
      IN /\ a \notin behind /\ readings[a] # None /\ row = None =>
              feed.at - readings[a].taken > DropAfter
         /\ row # None =>
              /\ a \notin behind => reported[a] - row.taken <= PostAge
              /\ row.stale <=> feed.at - row.taken > StaleAfter
              /\ ~row.stale => ~feed.rows[feed.top].stale
=============================================================================

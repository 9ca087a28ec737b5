-------------------------------- MODULE Peers --------------------------------
(***************************************************************************)
(* The peers of the competition, fetch_peers in server/pipeline/extract.py:*)
(* every run pulls each configured peer's numbers, keeps a copy of what it *)
(* got and falls back on the copy.                                         *)
(*                                                                         *)
(* What a peer serves is [by, n, fit]: its n-th publication, fit unless it *)
(* is JSON of another shape than an object.                                *)
(***************************************************************************)
EXTENDS Ticks

CONSTANTS
  PeerOrder,  \* the peers of config.json, in its order
  Slug        \* Slug[p]: the name of p's copy; names and long URLs may collide

Rivals == ToSet(PeerOrder)

ASSUME PeersAssumption ==
  /\ PeerOrder \in Seq(Rivals) /\ DOMAIN Slug = Rivals
  /\ None \notin [by : Rivals, n : Nat, fit : BOOLEAN]

VARIABLES
  served,      \* served[p]: what p serves
  copies,      \* copies[slug]: None or the copy in the peers directory
  competition, \* competition.json: [at, rows], rows[p] being [data, ok]
  obtained     \* history: obtained[p]: the last of p that was kept, or None

peerVars == <<served, copies, competition, obtained>>

PeersInit ==
  /\ served = [p \in Rivals |-> [by |-> p, n |-> 0, fit |-> TRUE]]
  /\ copies = [s \in {Slug[p] : p \in Rivals} |-> None]
  /\ competition = [at |-> -1, rows |-> [p \in Rivals |-> [data |-> None, ok |-> FALSE]]]
  /\ obtained = [p \in Rivals |-> None]

Publishes(p) ==
  /\ \E fit \in BOOLEAN : served' = [served EXCEPT ![p].n = @ + 1, ![p].fit = fit]
  /\ UNCHANGED <<copies, competition, obtained>>

\* Mutant: a peer that is down leaves an empty copy.
KeptOrCleared(kept, p, answer) ==
  [kept EXCEPT ![Slug[p]] = IF answer = "served" THEN served[p] ELSE None]

\* What was fetched is copied, before anything looks at its shape.
Kept(kept, p, answer) == IF answer = "served" THEN [kept EXCEPT ![Slug[p]] = served[p]] ELSE kept

\* One peer: served, down, or fetched but not to be copied, which counts as
\* down; its name alone stands for numbers there are none of.  JSON that is no
\* object ends the run, from a copy as well.
FetchPeer(run, p, answer) ==
  LET kept == Kept(run.copies, p, answer)
      data == kept[Slug[p]]
  IN IF run.dead THEN run
     ELSE IF data # None /\ ~data.fit THEN [run EXCEPT !.copies = kept, !.dead = TRUE]
     ELSE [run EXCEPT !.copies = kept, !.rows[p] = [data |-> data, ok |-> answer = "served"]]

\* fetch_peers, and the competition feed of run_competitor.
FetchPeers(answers) ==
  LET start == [copies |-> copies, rows |-> competition.rows, dead |-> FALSE]
      run == FoldLeft(LAMBDA r, p : FetchPeer(r, p, answers[p]), start, PeerOrder)
      reached == {p \in Rivals : run.copies[Slug[p]] # None /\ run.copies[Slug[p]] = served[p]}
  IN /\ copies' = run.copies
     /\ competition' = IF run.dead THEN competition ELSE [at |-> now, rows |-> run.rows]
     /\ obtained' = [p \in Rivals |-> IF p \in reached /\ answers[p] = "served" THEN served[p] ELSE obtained[p]]
     /\ UNCHANGED served
=============================================================================

------------------------- MODULE BottleneckMonitor -------------------------
(***************************************************************************)
(* The HUMAN BOTTLENECK accumulator, server/monitor/bottleneck-monitor.py: *)
(* every sample it looks for live sessions that wait for the human on a    *)
(* question and banks the time since the last sample, once, however many   *)
(* wait; a question that is left alone stops counting.                     *)
(*                                                                         *)
(* A transcript is a sequence of turns, [type, tools] of the assistant or  *)
(* [type, results] of the user; a tool call is [id, name] and a result the *)
(* id it answers.                                                          *)
(***************************************************************************)
EXTENDS Ticks

CONSTANTS
  Sids,         \* the sessions
  Questions,    \* Questions[sid]: what can be asked there, sets of tool calls
  AbandonCap,   \* ABANDON_CAP_SEC
  MaxElapsed,   \* bound on the time between two samples
  Hour          \* the length of a clock hour

WaitTool == "AskUserQuestion"
Calls == UNION {UNION Questions[sid] : sid \in Sids}
Asked == {c.id : c \in {d \in Calls : d.name = WaitTool}}

ASSUME BottleneckAssumption ==
  /\ {AbandonCap, MaxElapsed} \subseteq Nat /\ Hour \in Nat \ {0}
  /\ \A c, d \in Calls : c.id = d.id => c = d

VARIABLES
  transcript, \* transcript[sid]
  live,       \* the sessions whose process runs
  cache,      \* cache[sid]: None or [key, pending], the parsed transcripts
  wait,       \* wait[sid]: None or [sig, start], _wait_state
  last,       \* prev_mono; None while the monitor is down
  bank,       \* bank[hour]: the table of bottleneck.db
  credited,   \* history: credited[id]: the time banked while id was waiting
  budgets     \* history: budgets[id]: how often a wait on id began afresh

bottleneckVars == <<transcript, live, cache, wait, last, bank, credited, budgets>>

-----------------------------------------------------------------------------
\* Sessions.

Append2(sid, turn) == transcript' = [transcript EXCEPT ![sid] = Append(@, turn)]

\* The pending calls of the last turn that has any.
PendingTools(turns) ==
  LET calling  == {i \in 1 .. Len(turns) : turns[i].type = "assistant" /\ turns[i].tools # {}}
      answered == UNION {turns[i].results : i \in {j \in 1 .. Len(turns) : turns[j].type = "user"}}
  IN IF calling = {} THEN {}
     ELSE {c \in turns[SetMax(calling)].tools : c.id \notin answered}

Session == UNCHANGED <<cache, wait, last, bank, credited, budgets>>

\* The assistant's turn, or its text after the last answer (no tools).
Turn(sid) ==
  /\ sid \in live /\ PendingTools(transcript[sid]) = {}
  /\ \E tools \in Questions[sid] \cup {{}} :
       /\ \A i \in 1 .. Len(transcript[sid]) :
            transcript[sid][i].type = "assistant" => transcript[sid][i].tools \cap tools = {}
       /\ tools = {} => Len(transcript[sid]) > 0 /\ transcript[sid][Len(transcript[sid])].type = "user"
       /\ Append2(sid, [type |-> "assistant", tools |-> tools])
  /\ UNCHANGED live /\ Session

\* The human answers, or a tool of the same turn returns.
Answer(sid) ==
  /\ sid \in live
  /\ \E c \in PendingTools(transcript[sid]) :
       Append2(sid, [type |-> "user", results |-> {c.id}])
  /\ UNCHANGED live /\ Session

\* The session's process ends, or it is resumed.
Flip(sid) ==
  /\ live' = IF sid \in live THEN live \ {sid} ELSE live \cup {sid}
  /\ UNCHANGED transcript /\ Session

-----------------------------------------------------------------------------
\* A sample.  unread: the sessions whose registry entry or transcript cannot
\* be read this time.  grown: None, or a session whose transcript gets the
\* next turn between the stat and the parse.

\* transcript_pending: parsed anew when the size the stat saw is another.
Parsed(sid, turns) ==
  LET key == Len(transcript[sid])
  IN IF cache[sid] # None /\ cache[sid].key = key THEN cache[sid]
     ELSE [key |-> key, pending |-> PendingTools(turns)]

Signature(pending) == {c.id : c \in {d \in pending : d.name = WaitTool}}

\* Mutant: the budget starts again with every sample.
FreshEveryTime(sid, sig) == [sig |-> sig, start |-> now]

\* A new or changed question has a budget of its own.
Waiting(sid, sig) ==
  IF wait[sid] = None \/ (wait[sid] # None /\ wait[sid].sig # sig)
  THEN [sig |-> sig, start |-> now] ELSE wait[sid]

\* anyone_waiting, with what the sessions' transcripts say.
AnyoneWaiting(sigs) ==
  LET blocked == {sid \in Sids : sigs[sid] # {}}
      after == [sid \in Sids |-> IF sid \in blocked THEN Waiting(sid, sigs[sid]) ELSE None]
  IN [wait |-> after, active |-> {sid \in blocked : now - after[sid].start <= AbandonCap}]

\* The loop's body.
Sample(unread, turns) ==
  LET seen   == live \ unread
      parsed == [sid \in Sids |-> IF sid \in seen THEN Parsed(sid, turns[sid]) ELSE cache[sid]]
      sigs   == [sid \in Sids |-> IF sid \in seen THEN Signature(parsed[sid].pending) ELSE {}]
      w      == AnyoneWaiting(sigs)
      waitedFor == UNION {sigs[sid] : sid \in w.active}
      begun(id) == \E sid \in Sids : id \in sigs[sid]
                                     /\ (wait[sid] = None \/ (wait[sid] # None /\ wait[sid].sig # sigs[sid]))
  IN /\ last # None
     /\ last' = now /\ cache' = parsed /\ wait' = w.wait
     /\ bank' = IF w.active = {} THEN bank
                ELSE [bank EXCEPT ![now \div Hour] = @ + (now - last)]
     /\ credited' = [id \in Asked |-> credited[id] + IF id \in waitedFor THEN now - last ELSE 0]
     /\ budgets' = [id \in Asked |-> budgets[id] + IF begun(id) THEN 1 ELSE 0]
     /\ transcript' = turns /\ UNCHANGED live

SampleQuietly(unread) == Sample(unread, transcript)

SampleDuringTurn(sid) ==
  \E c \in PendingTools(transcript[sid]) :
    Sample({}, [transcript EXCEPT ![sid] = Append(@, [type |-> "user", results |-> {c.id}])])

\* The loop sleeps for a fixed time and samples again.
SamplesInTime == last # None => now - last < MaxElapsed

\* The service is restarted: only the database survives.
Crash ==
  /\ last # None /\ last' = None
  /\ cache' = [sid \in Sids |-> None] /\ wait' = cache'
  /\ UNCHANGED <<transcript, live, bank, credited, budgets>>

Boot ==
  /\ last = None /\ last' = now
  /\ UNCHANGED <<transcript, live, cache, wait, bank, credited, budgets>>

BottleneckInit(hours) ==
  /\ transcript = [sid \in Sids |-> <<>>] /\ live = Sids
  /\ cache = [sid \in Sids |-> None] /\ wait = cache /\ last = now
  /\ bank = [h \in hours |-> 0]
  /\ credited = [id \in Asked |-> 0] /\ budgets = credited

BankTotal == FoldFunction(LAMBDA x, y : x + y, 0, bank)
=============================================================================

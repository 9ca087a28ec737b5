------------------------------ MODULE Sessions ------------------------------
(***************************************************************************)
(* Where the live monitor's signals come from, server/monitor/            *)
(* live-monitor.py: a pass lists the Claude Code processes, adds up what   *)
(* their sockets carried since the last pass, and reads from the           *)
(* transcripts of the registered sessions whether a question waits for the *)
(* human and whether the model owes a response.  LiveStatus starts from    *)
(* these signals.                                                          *)
(*                                                                         *)
(* Any traffic counts as more than the threshold.  A line of a transcript  *)
(* is [kind, calls, answers, aside]; aside lines (isMeta, isSidechain) are *)
(* a subagent's or the system's.                                           *)
(***************************************************************************)
EXTENDS Ticks

CONSTANTS
  Chats,    \* the sessions
  ChatUser, \* ChatUser[w]: whose session w is
  Tools     \* the names of the tools the model calls

Asks == "AskUserQuestion"

ASSUME SessionsAssumption ==
  /\ Asks \in Tools
  /\ None \notin Chats
  /\ None \notin [work : Chats \cup {None}, start : Nat]
  /\ None \notin [pid : Chats, start : Nat]
  /\ None \notin [port : Nat, bytes : Nat, listed : BOOLEAN]
  /\ None \notin [work : Chats, key : Nat]

VARIABLES
  process,  \* process[p]: None or [work, start]; work None: not Claude Code's
  registry, \* registry[w]: None or [pid, start], the session's file
  log,      \* log[w]: [lines, torn]: torn while the last line is half written
  owing,    \* owing[w]: [who, open]: whose turn it is, the calls under way
  socket,   \* socket[p]: None or [port, bytes], its connection to the API
  pass,     \* the pass under way, or the last; truth is the history carried at
            \* its ss
  netSeen,  \* prev_net
  states,   \* states[w]: None or [key, pending, kind], _state_cache
  mtimes,   \* mtimes[w]: None or the last seen one, _transcript_mtime
  touched,  \* history: the sessions that changed since the pass began
  carried   \* history: [any, listed]: the users whose sockets carried bytes
            \* since the last ss, and those ss had seen

claudeVars  == <<process, registry, log, owing, socket>>
passVars    == <<pass, netSeen, states, mtimes>>
sessionVars == <<claudeVars, passVars, touched, carried>>

Pids == Chats   \* every session starts with the pid of its name

-----------------------------------------------------------------------------
\* Claude Code.

Running(w) == process[w] # None /\ process[w].work = w

Line(kind, calls, answers, aside) ==
  [kind |-> kind, calls |-> calls, answers |-> answers, aside |-> aside]

\* The line may be caught half written.
Writes(w, line, next) ==
  /\ Running(w) /\ ~log[w].torn
  /\ \E torn \in BOOLEAN :
       log' = [log EXCEPT ![w] = [lines |-> Append(@.lines, line), torn |-> torn]]
  /\ owing' = [owing EXCEPT ![w] = next]
  /\ touched' = touched \cup {w}
  /\ UNCHANGED <<process, registry, socket, passVars, carried>>

Completes(w) ==
  /\ Running(w) /\ log[w].torn
  /\ log' = [log EXCEPT ![w].torn = FALSE]
  /\ touched' = touched \cup {w}
  /\ UNCHANGED <<process, registry, owing, socket, passVars, carried>>

ToolCalls(w, names) == {[name |-> n, at |-> Len(log[w].lines)] : n \in names}

Prompts(w) ==
  owing[w].who = "human" /\ Writes(w, Line("prompt", {}, {}, FALSE), [who |-> "model", open |-> {}])

Says(w) ==
  owing[w].who = "model" /\ Writes(w, Line("text", {}, {}, FALSE), [who |-> "human", open |-> {}])

CallsTools(w) ==
  /\ owing[w].who = "model"
  /\ \E names \in (SUBSET Tools) \ {{}} :
       Writes(w, Line("tools", ToolCalls(w, names), {}, FALSE), [who |-> "tools", open |-> ToolCalls(w, names)])

Returns(w) ==
  \E c \in owing[w].open :
    LET open == owing[w].open \ {c}
    IN Writes(w, Line("result", {}, {c}, FALSE),
              [who |-> IF open = {} THEN "model" ELSE "tools", open |-> open])

\* A subagent's lines, and the main turn's without a meaning for it: thinking,
\* the output of a command.
Mutters(w) ==
  \E line \in {Line("text", {}, {}, TRUE), Line("tools", ToolCalls(w, {Asks}), {}, TRUE),
               Line("noise", {}, {}, FALSE)} :
    Writes(w, line, owing[w])

Carries(p) ==
  /\ Running(p) /\ socket[p] # None
  /\ socket' = [socket EXCEPT ![p].bytes = @ + 1]
  /\ carried' = [any |-> carried.any \cup {ChatUser[p]},
                 listed |-> carried.listed \cup {u \in {ChatUser[p]} : socket[p].listed}]
  /\ UNCHANGED <<process, registry, log, owing, passVars, touched>>

\* The connection is closed, or another takes its place.
Reconnects(p) ==
  /\ Running(p)
  /\ socket' = [socket EXCEPT ![p] =
                  IF @ = None THEN [port |-> 2, bytes |-> 1, listed |-> FALSE] ELSE None]
  /\ carried' = IF socket[p] = None THEN [carried EXCEPT !.any = @ \cup {ChatUser[p]}]
                ELSE [carried EXCEPT !.listed = @ \ {ChatUser[p]}]
  /\ UNCHANGED <<process, registry, log, owing, passVars, touched>>

\* The process ends, in order or with its registry file left behind; another
\* program may get its pid.
Exits(w) ==
  /\ Running(w)
  /\ \E left \in BOOLEAN, heir \in {None, [work |-> None, start |-> process[w].start + 1]} :
       /\ registry' = IF left THEN registry ELSE [registry EXCEPT ![w] = None]
       /\ process' = [process EXCEPT ![w] = heir]
  /\ socket' = [socket EXCEPT ![w] = None]
  /\ carried' = [carried EXCEPT !.listed = @ \ {ChatUser[w]}]
  /\ touched' = touched \cup {w}
  /\ UNCHANGED <<log, owing, passVars>>

-----------------------------------------------------------------------------
\* Processes and sockets.

IsClaude(p) == process[p].work # None
ProcUser(p) == ChatUser[process[p].work]

\* discover: the Claude Code processes and their users.
Discover == [p \in {q \in Pids : process[q] # None /\ IsClaude(q)} |-> ProcUser(p)]

\* sample_net, {} when ss fails.
SampleNet(found, fails) ==
  [p \in {q \in DOMAIN found : ~fails /\ socket[q] # None} |->
     [port |-> socket[p].port, bytes |-> socket[p].bytes]]

\* Mutant: a socket that was not there before counts from zero.
DeltaFromZero(p, net) ==
  net[p].bytes - IF p \in DOMAIN netSeen /\ netSeen[p].port = net[p].port THEN netSeen[p].bytes ELSE 0

\* What a socket carried since it was last seen; a new one nothing.
Delta(p, net) ==
  IF p \in DOMAIN netSeen /\ netSeen[p].port = net[p].port
  THEN net[p].bytes - netSeen[p].bytes ELSE 0

\* A pass begins: discover, then ss, then the session files.
Measure(fails) ==
  /\ pass.todo = {} /\ pass.stat = None
  /\ LET found == Discover
         net   == SampleNet(found, fails)
     IN /\ pass' = [net |-> {found[p] : p \in {q \in DOMAIN net : Delta(q, net) > 0}},
                    truth |-> [carried EXCEPT !.listed = IF fails THEN {} ELSE @],
                    todo |-> Chats, stat |-> None,
                    waiting |-> {}, active |-> {}, owes |-> {}, unread |-> {}]
        /\ netSeen' = net
        /\ socket' = [p \in Pids |-> IF socket[p] = None THEN None
                                     ELSE [socket[p] EXCEPT !.listed = ~fails]]
  /\ touched' = {} /\ carried' = [any |-> {}, listed |-> {}]
  /\ UNCHANGED <<process, registry, log, owing, states, mtimes>>

-----------------------------------------------------------------------------
\* Transcripts.

\* The lines that parse and are the main turn's.
MainLines(w) ==
  LET lines == log[w].lines
  IN {i \in 1 .. Len(lines) : ~lines[i].aside /\ (log[w].torn => i # Len(lines))}

\* tail_state: the unanswered calls of the last turn that has any, and the
\* kind of the last line that has one.
TailState(w) ==
  LET lines    == log[w].lines
      calling  == {i \in MainLines(w) : lines[i].kind = "tools"}
      telling  == {i \in MainLines(w) : lines[i].kind # "noise"}
      answered == UNION {lines[i].answers : i \in MainLines(w)}
  IN [pending |-> IF calling = {} THEN {} ELSE lines[SetMax(calling)].calls \ answered,
      kind    |-> IF telling = {} THEN "complete" ELSE lines[SetMax(telling)].kind]

\* The size and the modification time of a transcript.
Key(w) == 2 * Len(log[w].lines) - (IF log[w].torn THEN 1 ELSE 0)

\* transcript_state, with the key its stat saw.
TranscriptState(w) ==
  IF states[w] # None /\ states[w].key = pass.stat.key THEN states[w]
  ELSE [key |-> pass.stat.key, pending |-> TailState(w).pending, kind |-> TailState(w).kind]

\* Mutant: any process with the registered pid will do.
PidRuns(w) == registry[w] # None /\ process[registry[w].pid] # None

\* The registered process still runs, and is not another with its pid.
IsAlive(w) ==
  /\ registry[w] # None /\ process[registry[w].pid] # None
  /\ process[registry[w].pid].start = registry[w].start

\* One session of scan_sessions up to the stat: its registry file is read, its
\* process looked for, its modification time compared.
Stat(w, readable) ==
  /\ w \in pass.todo /\ pass.stat = None
  /\ IF readable /\ IsAlive(w)
     THEN /\ pass' = [pass EXCEPT !.todo = @ \ {w}, !.stat = [work |-> w, key |-> Key(w)],
                        !.active = @ \cup {u \in {ChatUser[w]} : mtimes[w] # None /\ mtimes[w] # Key(w)}]
          /\ mtimes' = [mtimes EXCEPT ![w] = Key(w)]
     ELSE /\ pass' = [pass EXCEPT !.todo = @ \ {w}, !.unread = @ \cup {x \in {w} : ~readable}]
          /\ mtimes' = [mtimes EXCEPT ![w] = None]
  /\ UNCHANGED <<claudeVars, netSeen, states, touched, carried>>

\* The rest: the transcript is parsed, unless the cache knows its state.
Parse ==
  /\ pass.stat # None
  /\ LET w == pass.stat.work
         s == TranscriptState(w)
         waits == \E c \in s.pending : c.name = Asks
         owes == \/ s.kind \in {"prompt", "result"}
                 \/ s.kind = "tools" /\ \E c \in s.pending : c.name # Asks
     IN /\ states' = [states EXCEPT ![w] = s]
        /\ pass' = [pass EXCEPT !.stat = None, !.waiting = @ \cup {x \in {w} : waits},
                                !.owes = @ \cup {x \in {w} : owes}]
  /\ UNCHANGED <<claudeVars, netSeen, mtimes, touched, carried>>

SessionsInit ==
  /\ process = [p \in Pids |-> [work |-> p, start |-> 0]]
  /\ registry = [w \in Chats |-> [pid |-> w, start |-> 0]]
  /\ log = [w \in Chats |-> [lines |-> <<>>, torn |-> FALSE]]
  /\ owing = [w \in Chats |-> [who |-> "human", open |-> {}]]
  /\ socket = [p \in Pids |-> [port |-> 1, bytes |-> 1, listed |-> TRUE]]
  /\ netSeen = [p \in Pids |-> [port |-> 1, bytes |-> 1]]
  /\ pass = [net |-> {}, truth |-> [any |-> {}, listed |-> {}], todo |-> {}, stat |-> None,
             waiting |-> {}, active |-> {}, owes |-> {}, unread |-> {}]
  /\ states = [w \in Chats |-> None] /\ mtimes = states
  /\ touched = Chats /\ carried = [any |-> {}, listed |-> {}]

SessionsNext ==
  \/ \E w \in Chats : \/ Prompts(w) \/ Says(w) \/ CallsTools(w) \/ Returns(w) \/ Mutters(w)
                      \/ Completes(w) \/ Exits(w)
  \/ \E p \in Pids : Carries(p) \/ Reconnects(p)
  \/ \E fails \in BOOLEAN : Measure(fails)
  \/ \E w \in Chats, readable \in BOOLEAN : Stat(w, readable)
  \/ Parse

SessionsSpec == SessionsInit /\ [][SessionsNext]_sessionVars

-----------------------------------------------------------------------------
\* What a pass says of a session it could read, and that did not change while
\* the pass went on, is so, whatever earlier passes cached: it waits when a
\* question is open, and otherwise owes a response unless it is the human's
\* turn.  A session whose process is gone says nothing.
TurnIsSeen ==
  pass.todo = {} /\ pass.stat = None =>
    \A w \in Chats \ (touched \cup pass.unread) :
      LET asked == Running(w) /\ \E c \in owing[w].open : c.name = Asks
      IN ~log[w].torn =>
           /\ w \in pass.waiting <=> asked
           /\ ~asked => (w \in pass.owes <=> Running(w) /\ owing[w].who # "human")

\* Traffic is seen on a user only if a socket of theirs carried bytes since the
\* last pass, also after one whose ss failed; and it is seen if ss had listed
\* that socket then and lists it now.
TrafficIsReal ==
  pass.net \subseteq pass.truth.any /\ pass.truth.listed \subseteq pass.net
=============================================================================

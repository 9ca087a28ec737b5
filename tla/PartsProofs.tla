----------------------------- MODULE PartsProofs -----------------------------
(***************************************************************************)
(* Two parts of Monitors that no other part reads, on their own, for any   *)
(* sessions, users, tools, boxes and histories: what a pass of the live    *)
(* monitor says of the sessions and of their traffic is so; and however a  *)
(* migration goes, with steps that fail unnoticed, rollbacks and scripts   *)
(* that are killed and run again, a box that stops collecting had a        *)
(* failure that KeepsCollecting names.                                     *)
(***************************************************************************)
EXTENDS Sessions, Migration, TLAPS

-----------------------------------------------------------------------------
(***************************************************************************)
(* The sessions and their traffic.                                         *)
(***************************************************************************)

AllUsers == {ChatUser[w] : w \in Chats}
ToolCall == [name : Tools, at : Nat]
Lines    == [kind : {"prompt", "text", "tools", "result", "noise"},
             calls : SUBSET ToolCall, answers : SUBSET ToolCall, aside : BOOLEAN]
Owings   == [who : {"human", "model", "tools"}, open : SUBSET ToolCall]
Traffic  == [any : SUBSET AllUsers, listed : SUBSET AllUsers]
Sockets  == [port : Nat, bytes : Nat, listed : BOOLEAN]

\* A process is its session's or that of a program that got its pid; no session
\* starts anew, and a running one is registered.
ProcessTypeOK ==
  /\ DOMAIN process = Chats /\ DOMAIN registry = Chats
  /\ \A w \in Chats :
       /\ process[w] \in {None, [work |-> w, start |-> 0], [work |-> None, start |-> 1]}
       /\ registry[w] \in {None, [pid |-> w, start |-> 0]}
       /\ Running(w) => registry[w] # None

LogTypeOK ==
  /\ log \in [Chats -> [lines : Seq(Lines), torn : BOOLEAN]]
  /\ \A w \in Chats : log[w].torn => Len(log[w].lines) > 0
  /\ owing \in [Chats -> Owings]

SocketTypeOK ==
  /\ socket \in [Chats -> Sockets \cup {None}]
  /\ carried \in Traffic
  /\ DOMAIN netSeen \subseteq Chats
  /\ \A p \in DOMAIN netSeen : netSeen[p] \in [port : Nat, bytes : Nat]

PassTypeOK ==
  /\ pass \in [net : SUBSET AllUsers, truth : Traffic,
               todo : SUBSET Chats, stat : [work : Chats, key : Nat] \cup {None},
               waiting : SUBSET Chats, active : SUBSET AllUsers, owes : SUBSET Chats,
               unread : SUBSET Chats]
  /\ DOMAIN states = Chats /\ DOMAIN mtimes = Chats
  /\ touched \subseteq Chats

SessionsTypeOK == ProcessTypeOK /\ LogTypeOK /\ SocketTypeOK /\ PassTypeOK

\* The steps that write a line of a transcript.
Turns(w) == Prompts(w) \/ Says(w) \/ CallsTools(w) \/ Returns(w) \/ Mutters(w)

-----------------------------------------------------------------------------
\* Types.

\* Every step of a turn appends one line of the right form.
LEMMA TurnWrites ==
  ASSUME SessionsTypeOK, NEW w \in Chats, Turns(w)
  PROVE  \E line \in Lines, next \in Owings : Writes(w, line, next)
<1>. USE SessionsAssumption
<1>1. Len(log[w].lines) \in Nat /\ owing[w] \in Owings
  BY DEF SessionsTypeOK, LogTypeOK
<1>2. \A names \in SUBSET Tools : ToolCalls(w, names) \in SUBSET ToolCall
  BY <1>1 DEF ToolCalls, ToolCall
<1>3. CASE Prompts(w)
  BY <1>3 DEF Prompts, Line, Lines, Owings
<1>4. CASE Says(w)
  BY <1>4 DEF Says, Line, Lines, Owings
<1>5. CASE CallsTools(w)
  BY <1>5, <1>2 DEF CallsTools, Line, Lines, Owings
<1>6. CASE Returns(w)
  <2>1. PICK c \in owing[w].open :
          Writes(w, Line("result", {}, {c}, FALSE),
                 [who |-> IF owing[w].open \ {c} = {} THEN "model" ELSE "tools",
                  open |-> owing[w].open \ {c}])
    BY <1>6 DEF Returns
  <2>2. Line("result", {}, {c}, FALSE) \in Lines
    BY <1>1, <2>1 DEF Line, Lines, Owings
  <2>3. [who |-> IF owing[w].open \ {c} = {} THEN "model" ELSE "tools",
         open |-> owing[w].open \ {c}] \in Owings
    BY <1>1 DEF Owings
  <2>. QED
    BY <2>1, <2>2, <2>3
<1>7. CASE Mutters(w)
  <2>1. ToolCalls(w, {Asks}) \in SUBSET ToolCall
    BY <1>2
  <2>2. {Line("text", {}, {}, TRUE), Line("tools", ToolCalls(w, {Asks}), {}, TRUE),
         Line("noise", {}, {}, FALSE)} \subseteq Lines
    BY <2>1 DEF Line, Lines
  <2>. QED
    BY <1>7, <1>1, <2>2 DEF Mutters
<1>. QED
  BY <1>3, <1>4, <1>5, <1>6, <1>7 DEF Turns

\* The types.
LEMMA InitSessions == SessionsInit => SessionsTypeOK
<1>. SUFFICES ASSUME SessionsInit PROVE SessionsTypeOK
  OBVIOUS
<1>. USE SessionsAssumption DEF SessionsInit, Pids
<1>1. ProcessTypeOK
  BY DEF ProcessTypeOK, Running
<1>2. LogTypeOK
  BY DEF LogTypeOK, Owings
<1>3. SocketTypeOK
  BY DEF SocketTypeOK, Sockets, Traffic
<1>4. PassTypeOK
  BY DEF PassTypeOK, Traffic
<1>. QED
  BY <1>1, <1>2, <1>3, <1>4 DEF SessionsTypeOK

\* Every step keeps them.
LEMMA StepTypes == SessionsTypeOK /\ [SessionsNext]_sessionVars => SessionsTypeOK'
<1>. SUFFICES ASSUME SessionsTypeOK, [SessionsNext]_sessionVars PROVE SessionsTypeOK'
  OBVIOUS
<1>. USE SessionsAssumption
<1>1. ASSUME NEW w \in Chats, Turns(w) PROVE SessionsTypeOK'
  <2>1. PICK line \in Lines, next \in Owings : Writes(w, line, next)
    BY <1>1, TurnWrites
  <2>2. ProcessTypeOK' /\ SocketTypeOK'
    BY <2>1 DEF Writes, passVars, SessionsTypeOK, ProcessTypeOK, SocketTypeOK, Running
  <2>3. LogTypeOK'
    <3>1. Len(Append(log[w].lines, line)) > 0
      BY DEF SessionsTypeOK, LogTypeOK
    <3>. QED
      BY <2>1, <3>1 DEF Writes, SessionsTypeOK, LogTypeOK
  <2>4. PassTypeOK'
    BY <2>1 DEF Writes, passVars, SessionsTypeOK, PassTypeOK
  <2>. QED
    BY <2>2, <2>3, <2>4 DEF SessionsTypeOK
<1>2. ASSUME NEW w \in Chats, Completes(w) PROVE SessionsTypeOK'
  <2>1. ProcessTypeOK' /\ SocketTypeOK'
    BY <1>2 DEF Completes, passVars, SessionsTypeOK, ProcessTypeOK, SocketTypeOK, Running
  <2>2. LogTypeOK'
    BY <1>2 DEF Completes, SessionsTypeOK, LogTypeOK
  <2>3. PassTypeOK'
    BY <1>2 DEF Completes, passVars, SessionsTypeOK, PassTypeOK
  <2>. QED
    BY <2>1, <2>2, <2>3 DEF SessionsTypeOK
<1>3. ASSUME NEW w \in Chats, Exits(w) PROVE SessionsTypeOK'
  <2>1. ProcessTypeOK'
    BY <1>3 DEF Exits, SessionsTypeOK, ProcessTypeOK, Running
  <2>2. LogTypeOK'
    BY <1>3 DEF Exits, SessionsTypeOK, LogTypeOK
  <2>3. SocketTypeOK'
    BY <1>3 DEF Exits, passVars, SessionsTypeOK, SocketTypeOK, Traffic
  <2>4. PassTypeOK'
    BY <1>3 DEF Exits, passVars, SessionsTypeOK, PassTypeOK
  <2>. QED
    BY <2>1, <2>2, <2>3, <2>4 DEF SessionsTypeOK
<1>4. ASSUME NEW p \in Chats, Carries(p) PROVE SessionsTypeOK'
  <2>1. ProcessTypeOK' /\ LogTypeOK' /\ PassTypeOK'
    BY <1>4 DEF Carries, passVars, SessionsTypeOK, ProcessTypeOK, LogTypeOK, PassTypeOK, Running
  <2>2. ChatUser[p] \in AllUsers
    BY DEF AllUsers
  <2>3. SocketTypeOK'
    BY <1>4, <2>2 DEF Carries, passVars, SessionsTypeOK, SocketTypeOK, Traffic, Sockets
  <2>. QED
    BY <2>1, <2>3 DEF SessionsTypeOK
<1>5. ASSUME NEW p \in Chats, Reconnects(p) PROVE SessionsTypeOK'
  <2>1. ProcessTypeOK' /\ LogTypeOK' /\ PassTypeOK'
    BY <1>5 DEF Reconnects, passVars, SessionsTypeOK, ProcessTypeOK, LogTypeOK, PassTypeOK, Running
  <2>2. ChatUser[p] \in AllUsers
    BY DEF AllUsers
  <2>3. SocketTypeOK'
    BY <1>5, <2>2 DEF Reconnects, passVars, SessionsTypeOK, SocketTypeOK, Traffic, Sockets
  <2>. QED
    BY <2>1, <2>3 DEF SessionsTypeOK
<1>6. ASSUME NEW fails \in BOOLEAN, Measure(fails) PROVE SessionsTypeOK'
  <2>1. ProcessTypeOK' /\ LogTypeOK'
    BY <1>6 DEF Measure, SessionsTypeOK, ProcessTypeOK, LogTypeOK, Running
  <2>. DEFINE found == Discover
              net   == SampleNet(found, fails)
  <2>2. /\ DOMAIN found \subseteq Chats
        /\ \A p \in DOMAIN found : found[p] \in AllUsers
    BY DEF Discover, Pids, IsClaude, ProcUser, SessionsTypeOK, ProcessTypeOK, AllUsers
  <2>3. /\ DOMAIN net \subseteq DOMAIN found
        /\ \A p \in DOMAIN net : net[p] \in [port : Nat, bytes : Nat]
    BY <2>2 DEF SampleNet, SessionsTypeOK, SocketTypeOK, Sockets
  <2>4. netSeen' = net
    BY <1>6 DEF Measure
  <2>5. {found[p] : p \in {q \in DOMAIN net : Delta(q, net) > 0}} \subseteq AllUsers
    BY <2>2, <2>3
  <2>. HIDE DEF found, net
  <2>6. SocketTypeOK'
    BY <1>6, <2>2, <2>3, <2>4 DEF Measure, SessionsTypeOK, SocketTypeOK, Sockets, Traffic, Pids
  <2>7. PassTypeOK'
    BY <1>6, <2>5 DEF Measure, SessionsTypeOK, PassTypeOK, SocketTypeOK, Traffic, found, net
  <2>. QED
    BY <2>1, <2>6, <2>7 DEF SessionsTypeOK
<1>7. ASSUME NEW w \in Chats, NEW readable \in BOOLEAN, Stat(w, readable) PROVE SessionsTypeOK'
  <2>1. ProcessTypeOK' /\ LogTypeOK' /\ SocketTypeOK'
    BY <1>7 DEF Stat, claudeVars, SessionsTypeOK, ProcessTypeOK, LogTypeOK, SocketTypeOK, Running
  <2>2. Key(w) \in Nat
    <3>1. Len(log[w].lines) \in Nat /\ (log[w].torn => Len(log[w].lines) > 0)
      BY DEF LogTypeOK, SessionsTypeOK
    <3>. QED
      BY <3>1 DEF Key
  <2>. DEFINE moved == {u \in {ChatUser[w]} : mtimes[w] # None /\ mtimes[w] # Key(w)}
              skipped == {x \in {w} : ~readable}
              at == [work |-> w, key |-> Key(w)]
  <2>3. moved \subseteq AllUsers /\ skipped \subseteq Chats /\ at \in [work : Chats, key : Nat]
    BY <2>2 DEF AllUsers
  <2>5. \/ /\ pass' = [pass EXCEPT !.todo = @ \ {w}, !.stat = at, !.active = @ \cup moved]
           /\ mtimes' = [mtimes EXCEPT ![w] = Key(w)]
        \/ /\ pass' = [pass EXCEPT !.todo = @ \ {w}, !.unread = @ \cup skipped]
           /\ mtimes' = [mtimes EXCEPT ![w] = None]
    BY <1>7 DEF Stat
  <2>6. UNCHANGED <<states, touched>>
    BY <1>7 DEF Stat
  <2>. HIDE DEF moved, skipped, at
  <2>4. PassTypeOK'
    <3>. USE DEF SessionsTypeOK, PassTypeOK
    <3>1. DOMAIN states' = Chats /\ DOMAIN mtimes' = Chats /\ touched' \subseteq Chats
      BY <2>5, <2>6
    <3>2. CASE pass' = [pass EXCEPT !.todo = @ \ {w}, !.stat = at, !.active = @ \cup moved]
      BY <2>3, <3>1, <3>2
    <3>3. CASE pass' = [pass EXCEPT !.todo = @ \ {w}, !.unread = @ \cup skipped]
      BY <2>3, <3>1, <3>3
    <3>. QED
      BY <2>5, <3>2, <3>3
  <2>. QED
    BY <2>1, <2>4 DEF SessionsTypeOK
<1>8. CASE Parse
  <2>1. ProcessTypeOK' /\ LogTypeOK' /\ SocketTypeOK'
    BY <1>8 DEF Parse, claudeVars, SessionsTypeOK, ProcessTypeOK, LogTypeOK, SocketTypeOK, Running
  <2>2. PassTypeOK'
    BY <1>8 DEF Parse, SessionsTypeOK, PassTypeOK
  <2>. QED
    BY <2>1, <2>2 DEF SessionsTypeOK
<1>9. CASE UNCHANGED sessionVars
  BY <1>9 DEF sessionVars, claudeVars, passVars, SessionsTypeOK, ProcessTypeOK, LogTypeOK,
              SocketTypeOK, PassTypeOK, Running
<1>. QED
  BY <1>1, <1>2, <1>3, <1>4, <1>5, <1>6, <1>7, <1>8, <1>9 DEF SessionsNext, Turns, Pids

-----------------------------------------------------------------------------
\* Traffic.

\* What ss saw of a socket that is still there is not ahead of it.
SeenBefore(p) ==
  /\ p \in DOMAIN netSeen /\ netSeen[p].port = socket[p].port
  /\ netSeen[p].bytes <= socket[p].bytes

\* The socket carried bytes since ss saw it.
Ahead(p) ==
  /\ socket[p] # None /\ p \in DOMAIN netSeen /\ netSeen[p].port = socket[p].port
  /\ netSeen[p].bytes < socket[p].bytes

\* The history of the traffic agrees with what ss saw and what the sockets have
\* carried.
TrafficIsTold ==
  /\ \A p \in Chats : socket[p] # None => Running(p)
  /\ \A p \in Chats : socket[p] # None /\ socket[p].listed => SeenBefore(p)
  /\ \A p \in Chats : Ahead(p) => ChatUser[p] \in carried.any
  /\ \A u \in carried.listed :
       \E p \in Chats : ChatUser[p] = u /\ Ahead(p) /\ socket[p].listed

TrafficInv == SessionsTypeOK /\ TrafficIsTold /\ TrafficIsReal

\* What a pass says of the traffic: the induction.
LEMMA InitTraffic == SessionsInit => TrafficInv
<1>. SUFFICES ASSUME SessionsInit PROVE TrafficIsTold /\ TrafficIsReal
  BY InitSessions DEF TrafficInv
<1>1. /\ carried = [any |-> {}, listed |-> {}]
      /\ pass.net = {} /\ pass.truth = [any |-> {}, listed |-> {}]
  BY DEF SessionsInit
<1>2. ASSUME NEW p \in Chats PROVE Running(p) /\ SeenBefore(p) /\ ~Ahead(p)
  <2>. DEFINE alive == [work |-> p, start |-> 0]
  <2>1. alive \in [work : Chats \cup {None}, start : Nat] /\ alive.work = p
    OBVIOUS
  <2>2. process[p] = alive
    BY DEF SessionsInit, Pids
  <2>. HIDE DEF alive
  <2>3. Running(p)
    BY <2>1, <2>2, SessionsAssumption DEF Running
  <2>4. socket[p].port = 1 /\ socket[p].bytes = 1
    BY DEF SessionsInit, Pids
  <2>5. p \in DOMAIN netSeen /\ netSeen[p].port = 1 /\ netSeen[p].bytes = 1
    BY DEF SessionsInit, Pids
  <2>. QED
    BY <2>3, <2>4, <2>5 DEF SeenBefore, Ahead
<1>. QED
  BY <1>1, <1>2 DEF TrafficIsTold, TrafficIsReal

\* Steps that touch no socket and no sample.
LEMMA NoTraffic ==
  ASSUME TrafficIsTold, TrafficIsReal, UNCHANGED <<process, socket, netSeen, carried>>,
         pass'.net = pass.net, pass'.truth = pass.truth
  PROVE  TrafficIsTold' /\ TrafficIsReal'
  BY DEF TrafficIsTold, TrafficIsReal, SeenBefore, Ahead, Running

\* The sum of a pass over the sockets that are there.
LEMMA MeasureIsReal ==
  ASSUME TrafficInv, NEW fails \in BOOLEAN, Measure(fails)
  PROVE  TrafficIsTold' /\ TrafficIsReal'
<1>. USE SessionsAssumption DEF TrafficInv, SessionsTypeOK, Pids
<1>. DEFINE found == Discover
            net   == SampleNet(found, fails)
            seen  == {found[p] : p \in {q \in DOMAIN net : Delta(q, net) > 0}}
<1>1. \A p \in Chats : Running(p) => p \in DOMAIN found /\ found[p] = ChatUser[p]
  BY DEF ProcessTypeOK, Discover, IsClaude, ProcUser, Running
<1>2. \A p \in DOMAIN found : p \in Chats /\ Running(p)
  BY DEF ProcessTypeOK, Discover, IsClaude, Running
<1>3. DOMAIN net = {p \in DOMAIN found : ~fails /\ socket[p] # None}
  BY DEF SampleNet
<1>4. \A p \in DOMAIN net : net[p].port = socket[p].port /\ net[p].bytes = socket[p].bytes
  BY DEF SampleNet
<1>. HIDE DEF found, net
<1>5. \A p \in DOMAIN net : Delta(p, net) > 0 <=> Ahead(p)
  <2>. SUFFICES ASSUME NEW p \in DOMAIN net PROVE Delta(p, net) > 0 <=> Ahead(p)
    OBVIOUS
  <2>1. p \in Chats /\ socket[p] # None
    BY <1>2, <1>3
  <2>2. socket[p].bytes \in Nat /\ (p \in DOMAIN netSeen => netSeen[p].bytes \in Nat)
    BY <2>1 DEF SocketTypeOK, Sockets
  <2>. QED
    BY <1>4, <2>1, <2>2 DEF Delta, Ahead
<1>6. /\ pass'.net = seen
      /\ pass'.truth = [carried EXCEPT !.listed = IF fails THEN {} ELSE @]
      /\ netSeen' = net
      /\ socket' = [p \in Chats |-> IF socket[p] = None THEN None
                                    ELSE [socket[p] EXCEPT !.listed = ~fails]]
      /\ carried' = [any |-> {}, listed |-> {}] /\ UNCHANGED process
  BY DEF Measure, found, net
<1>7. pass'.truth.any = carried.any
      /\ pass'.truth.listed = IF fails THEN {} ELSE carried.listed
  BY <1>6 DEF SocketTypeOK, Traffic
<1>8. seen \subseteq carried.any
  BY <1>1, <1>2, <1>3, <1>5 DEF TrafficIsTold
<1>9. pass'.truth.listed \subseteq seen
  <2>. SUFFICES ASSUME NEW u \in carried.listed, ~fails PROVE u \in seen
    BY <1>7
  <2>1. PICK p \in Chats : ChatUser[p] = u /\ Ahead(p)
    BY DEF TrafficIsTold
  <2>2. p \in DOMAIN net /\ found[p] = u
    BY <2>1, <1>1, <1>3 DEF TrafficIsTold, Ahead
  <2>. QED
    BY <2>1, <2>2, <1>5
<1>10. TrafficIsReal'
  BY <1>6, <1>7, <1>8, <1>9 DEF TrafficIsReal
<1>. HIDE DEF seen
<1>11. \A p \in Chats : socket'[p] # None =>
         /\ socket[p] # None /\ socket'[p].bytes = socket[p].bytes
         /\ socket'[p].port = socket[p].port /\ socket'[p].listed = ~fails
         /\ socket[p].bytes \in Nat
  BY <1>6 DEF SocketTypeOK, Sockets
<1>12. \A p \in Chats : socket'[p] # None => Running(p)'
  BY <1>6, <1>11 DEF TrafficIsTold, Running
<1>13. \A p \in Chats : socket'[p] # None /\ socket'[p].listed => SeenBefore(p)'
  <2>. SUFFICES ASSUME NEW p \in Chats, socket'[p] # None, ~fails PROVE SeenBefore(p)'
    BY <1>11
  <2>1. socket[p] # None /\ Running(p)
    BY <1>11 DEF TrafficIsTold
  <2>2. p \in DOMAIN net
    BY <2>1, <1>1, <1>3
  <2>. QED
    BY <2>2, <1>4, <1>6, <1>11 DEF SeenBefore
<1>14. \A p \in Chats : ~Ahead(p)'
  BY <1>3, <1>4, <1>6, <1>11 DEF Ahead
<1>. QED
  BY <1>6, <1>10, <1>12, <1>13, <1>14 DEF TrafficIsTold

\* Every step keeps it.
LEMMA StepTraffic == TrafficInv /\ [SessionsNext]_sessionVars => TrafficInv'
<1>. SUFFICES ASSUME TrafficInv, [SessionsNext]_sessionVars PROVE TrafficIsTold' /\ TrafficIsReal'
  BY StepTypes DEF TrafficInv
<1>. USE SessionsAssumption DEF TrafficInv
<1>1. ASSUME NEW w \in Chats, Turns(w) PROVE TrafficIsTold' /\ TrafficIsReal'
  <2>1. PICK line \in Lines, next \in Owings : Writes(w, line, next)
    BY <1>1, TurnWrites
  <2>. QED
    BY <2>1, NoTraffic DEF Writes, passVars
<1>2. ASSUME NEW w \in Chats, Completes(w) PROVE TrafficIsTold' /\ TrafficIsReal'
  BY <1>2, NoTraffic DEF Completes, passVars
<1>3. ASSUME NEW w \in Chats, Exits(w) PROVE TrafficIsTold' /\ TrafficIsReal'
  <2>1. /\ socket' = [socket EXCEPT ![w] = None]
        /\ \A p \in Chats \ {w} : process'[p] = process[p]
        /\ carried' = [carried EXCEPT !.listed = @ \ {ChatUser[w]}]
        /\ UNCHANGED <<netSeen, pass>>
    BY <1>3 DEF Exits, passVars
  <2>2. carried'.any = carried.any /\ carried'.listed = carried.listed \ {ChatUser[w]}
    BY <2>1 DEF SessionsTypeOK, SocketTypeOK, Traffic
  <2>3. \A p \in Chats : socket'[p] # None => p # w /\ socket'[p] = socket[p]
    BY <2>1 DEF SessionsTypeOK, SocketTypeOK
  <2>4. \A p \in Chats \ {w} : socket'[p] = socket[p]
    BY <2>1 DEF SessionsTypeOK, SocketTypeOK
  <2>5. \A p \in Chats : socket'[p] # None => Running(p)'
    BY <2>1, <2>3 DEF TrafficIsTold, Running
  <2>6. \A p \in Chats : socket'[p] # None /\ socket'[p].listed => SeenBefore(p)'
    BY <2>1, <2>3 DEF TrafficIsTold, SeenBefore
  <2>7. \A p \in Chats : Ahead(p)' => ChatUser[p] \in carried'.any
    BY <2>1, <2>2, <2>3 DEF TrafficIsTold, Ahead
  <2>8. \A u \in carried'.listed :
          \E p \in Chats : ChatUser[p] = u /\ Ahead(p)' /\ socket'[p].listed
    BY <2>1, <2>2, <2>4 DEF TrafficIsTold, Ahead
  <2>. QED
    BY <2>1, <2>5, <2>6, <2>7, <2>8 DEF TrafficIsTold, TrafficIsReal
<1>4. ASSUME NEW p \in Chats, Carries(p) PROVE TrafficIsTold' /\ TrafficIsReal'
  <2>1. /\ Running(p) /\ socket[p] # None /\ socket' = [socket EXCEPT ![p].bytes = @ + 1]
        /\ UNCHANGED <<process, netSeen, pass>>
    BY <1>4 DEF Carries, passVars
  <2>2. /\ carried'.any = carried.any \cup {ChatUser[p]}
        /\ carried'.listed = carried.listed \cup {u \in {ChatUser[p]} : socket[p].listed}
    BY <1>4 DEF Carries
  <2>3. /\ socket'[p] # None /\ socket'[p].port = socket[p].port
        /\ socket'[p].bytes = socket[p].bytes + 1 /\ socket'[p].listed = socket[p].listed
        /\ socket[p].bytes \in Nat
    BY <2>1 DEF SessionsTypeOK, SocketTypeOK, Sockets
  <2>4. \A q \in Chats \ {p} : socket'[q] = socket[q]
    BY <2>1 DEF SessionsTypeOK, SocketTypeOK
  <2>5. p \in DOMAIN netSeen => netSeen[p].bytes \in Nat
    BY DEF SessionsTypeOK, SocketTypeOK
  <2>6. \A q \in Chats : socket'[q] # None => Running(q)'
    BY <2>1, <2>3, <2>4 DEF TrafficIsTold, Running
  <2>7. \A q \in Chats : socket'[q] # None /\ socket'[q].listed => SeenBefore(q)'
    BY <2>1, <2>3, <2>4, <2>5 DEF TrafficIsTold, SeenBefore
  <2>8. \A q \in Chats : Ahead(q)' => ChatUser[q] \in carried'.any
    BY <2>1, <2>2, <2>3, <2>4 DEF TrafficIsTold, Ahead
  <2>9. \A u \in carried'.listed :
          \E q \in Chats : ChatUser[q] = u /\ Ahead(q)' /\ socket'[q].listed
    <3>1. socket[p].listed => Ahead(p)'
      BY <2>1, <2>3, <2>5 DEF TrafficIsTold, Ahead, SeenBefore
    <3>2. Ahead(p) => Ahead(p)'
      BY <2>1, <2>3, <2>5 DEF Ahead
    <3>3. \A q \in Chats \ {p} : Ahead(q) => Ahead(q)'
      BY <2>1, <2>4 DEF Ahead
    <3>. QED
      BY <2>2, <2>3, <2>4, <3>1, <3>2, <3>3 DEF TrafficIsTold
  <2>. QED
    BY <2>1, <2>6, <2>7, <2>8, <2>9 DEF TrafficIsTold, TrafficIsReal
<1>5. ASSUME NEW p \in Chats, Reconnects(p) PROVE TrafficIsTold' /\ TrafficIsReal'
  <2>1. Running(p) /\ UNCHANGED <<process, netSeen, pass>>
    BY <1>5 DEF Reconnects, passVars
  <2>2. \A q \in Chats \ {p} : socket'[q] = socket[q]
    BY <1>5 DEF Reconnects, SessionsTypeOK, SocketTypeOK
  <2>3. socket'[p] # None => socket[p] = None /\ ~socket'[p].listed
    BY <1>5 DEF Reconnects, SessionsTypeOK, SocketTypeOK, Sockets
  <2>4. /\ carried.any \subseteq carried'.any
        /\ socket[p] = None => ChatUser[p] \in carried'.any /\ carried'.listed = carried.listed
        /\ socket[p] # None => carried'.listed = carried.listed \ {ChatUser[p]}
    BY <1>5 DEF Reconnects, SessionsTypeOK, SocketTypeOK, Traffic
  <2>5. \A q \in Chats : socket'[q] # None => Running(q)'
    BY <2>1, <2>2 DEF TrafficIsTold, Running
  <2>6. \A q \in Chats : socket'[q] # None /\ socket'[q].listed => SeenBefore(q)'
    BY <2>1, <2>2, <2>3 DEF TrafficIsTold, SeenBefore
  <2>7. \A q \in Chats : Ahead(q)' => ChatUser[q] \in carried'.any
    BY <2>1, <2>2, <2>3, <2>4 DEF TrafficIsTold, Ahead
  <2>8. \A u \in carried'.listed :
          \E q \in Chats : ChatUser[q] = u /\ Ahead(q)' /\ socket'[q].listed
    <3>. SUFFICES ASSUME NEW u \in carried'.listed
                  PROVE \E q \in Chats : ChatUser[q] = u /\ Ahead(q)' /\ socket'[q].listed
      OBVIOUS
    <3>1. PICK q \in Chats : ChatUser[q] = u /\ Ahead(q) /\ socket[q].listed
      BY <2>4 DEF TrafficIsTold
    <3>2. q # p
      BY <2>4, <3>1 DEF Ahead
    <3>. QED
      BY <2>1, <2>2, <3>1, <3>2 DEF Ahead
  <2>. QED
    BY <2>1, <2>5, <2>6, <2>7, <2>8 DEF TrafficIsTold, TrafficIsReal
<1>6. ASSUME NEW fails \in BOOLEAN, Measure(fails) PROVE TrafficIsTold' /\ TrafficIsReal'
  BY <1>6, MeasureIsReal
<1>7. ASSUME NEW w \in Chats, NEW readable \in BOOLEAN, Stat(w, readable)
      PROVE  TrafficIsTold' /\ TrafficIsReal'
  <2>1. pass'.net = pass.net /\ pass'.truth = pass.truth
    BY <1>7 DEF Stat, SessionsTypeOK, PassTypeOK
  <2>. QED
    BY <1>7, <2>1, NoTraffic DEF Stat, claudeVars
<1>8. CASE Parse
  <2>1. pass'.net = pass.net /\ pass'.truth = pass.truth
    BY <1>8 DEF Parse, SessionsTypeOK, PassTypeOK
  <2>. QED
    BY <1>8, <2>1, NoTraffic DEF Parse, claudeVars
<1>9. CASE UNCHANGED sessionVars
  BY <1>9, NoTraffic DEF sessionVars, claudeVars, passVars
<1>. QED
  BY <1>1, <1>2, <1>3, <1>4, <1>5, <1>6, <1>7, <1>8, <1>9 DEF SessionsNext, Turns, Pids

-----------------------------------------------------------------------------
\* Transcripts.

OwnLines(lines) == {i \in 1 .. Len(lines) : ~lines[i].aside}
Answered(lines) == UNION {lines[i].answers : i \in OwnLines(lines)}
Asking(lines)   == {i \in OwnLines(lines) : lines[i].kind = "tools"}
Telling(lines)  == {i \in OwnLines(lines) : lines[i].kind # "noise"}

\* i is the last of S, or 0 without one.
IsLast(i, S) == i \in S \cup {0} /\ \A j \in S : j <= i

\* What the last line may be while it is who's turn.
KindFits(kind, who) ==
  \/ who = "human" /\ kind \in {"complete", "text"}
  \/ who = "model" /\ kind \in {"prompt", "result"}
  \/ who = "tools" /\ kind \in {"tools", "result"}

\* A call bears the number of lines before its own, and is answered later.
CallsAreNumbered(lines) ==
  \A i \in 1 .. Len(lines) :
    /\ \A c \in lines[i].calls : c.at = i - 1
    /\ \A c \in lines[i].answers : c.at < i - 1

\* The calls under way are those of the last turn that has any, unanswered.
ShowsOpen(lines, open) ==
  \E i \in 0 .. Len(lines) :
    /\ IsLast(i, Asking(lines))
    /\ open = IF i = 0 THEN {} ELSE lines[i].calls \ Answered(lines)

\* The last line with a meaning says whose turn it is.
ShowsWho(lines, who) ==
  \E i \in 0 .. Len(lines) :
    /\ IsLast(i, Telling(lines))
    /\ KindFits(IF i = 0 THEN "complete" ELSE lines[i].kind, who)

\* A transcript, once its last line is complete, says what is owed.
Shows(lines, owed) ==
  /\ CallsAreNumbered(lines)
  /\ \A c \in owed.open : c.at < Len(lines)
  /\ owed.open # {} <=> owed.who = "tools"
  /\ ShowsOpen(lines, owed.open)
  /\ ShowsWho(lines, owed.who)

\* The last index is the greatest.
LEMMA LastIsMax ==
  ASSUME NEW S \in SUBSET Nat, NEW i \in S, IsLast(i, S)
  PROVE  SetMax(S) = i
<1>1. \A y \in S : i >= y
  BY DEF IsLast
<1>2. \A x \in S : (\A y \in S : x >= y) => x = i
  BY <1>1
<1>. QED
  BY <1>1, <1>2 DEF SetMax

\* What one more line changes.
LEMMA OneMoreLine ==
  ASSUME NEW lines \in Seq(Lines), NEW line \in Lines
  PROVE  LET more == Append(lines, line)
             n    == Len(lines) + 1
         IN /\ more \in Seq(Lines) /\ Len(more) = n /\ more[n] = line
            /\ \A i \in 1 .. Len(lines) : more[i] = lines[i]
            /\ OwnLines(more) = OwnLines(lines) \cup {i \in {n} : ~line.aside}
            /\ Asking(more) = Asking(lines) \cup {i \in {n} : ~line.aside /\ line.kind = "tools"}
            /\ Telling(more) = Telling(lines) \cup {i \in {n} : ~line.aside /\ line.kind # "noise"}
            /\ Answered(more) = Answered(lines) \cup {c \in line.answers : ~line.aside}
<1>. DEFINE more == Append(lines, line)
            n    == Len(lines) + 1
<1>1. /\ more \in Seq(Lines) /\ Len(more) = n /\ more[n] = line /\ Len(lines) \in Nat
      /\ \A i \in 1 .. Len(lines) : more[i] = lines[i]
  OBVIOUS
<1>. HIDE DEF more
<1>2. OwnLines(more) = OwnLines(lines) \cup {i \in {n} : ~line.aside}
  BY <1>1 DEF OwnLines
<1>3. /\ OwnLines(lines) \subseteq 1 .. Len(lines) /\ n \notin OwnLines(lines)
      /\ \A i \in OwnLines(lines) : more[i] = lines[i]
  BY <1>1 DEF OwnLines
<1>4. Asking(more) = Asking(lines) \cup {i \in {n} : ~line.aside /\ line.kind = "tools"}
  BY <1>1, <1>2, <1>3 DEF Asking
<1>5. Telling(more) = Telling(lines) \cup {i \in {n} : ~line.aside /\ line.kind # "noise"}
  BY <1>1, <1>2, <1>3 DEF Telling
<1>6. Answered(more) = Answered(lines) \cup {c \in line.answers : ~line.aside}
  <2>1. \A c : c \in Answered(more) <=> \E i \in OwnLines(more) : c \in more[i].answers
    BY DEF Answered
  <2>2. \A c : c \in Answered(lines) <=> \E i \in OwnLines(lines) : c \in lines[i].answers
    BY DEF Answered
  <2>. QED
    BY <2>1, <2>2, <1>1, <1>2, <1>3
<1>. QED
  BY <1>1, <1>2, <1>4, <1>5, <1>6 DEF more

\* The calls under way after one more line.
LEMMA OpenGoesOn ==
  ASSUME NEW lines \in Seq(Lines), NEW line \in Lines, NEW open, CallsAreNumbered(lines),
         ShowsOpen(lines, open)
  PROVE  /\ line.aside => ShowsOpen(Append(lines, line), open)
         /\ ~line.aside /\ line.kind # "tools" =>
              ShowsOpen(Append(lines, line), open \ line.answers)
         /\ ~line.aside /\ line.kind = "tools" /\ line.answers = {}
              /\ (\A c \in line.calls : c.at = Len(lines)) =>
              ShowsOpen(Append(lines, line), line.calls)
<1>. DEFINE more == Append(lines, line)
            n    == Len(lines) + 1
<1>1. PICK i \in 0 .. Len(lines) :
        /\ IsLast(i, Asking(lines))
        /\ open = IF i = 0 THEN {} ELSE lines[i].calls \ Answered(lines)
  BY DEF ShowsOpen
<1>2. /\ Len(more) = n /\ more[n] = line /\ \A j \in 1 .. Len(lines) : more[j] = lines[j]
      /\ Asking(more) = Asking(lines) \cup {j \in {n} : ~line.aside /\ line.kind = "tools"}
      /\ Answered(more) = Answered(lines) \cup {c \in line.answers : ~line.aside}
  BY OneMoreLine
<1>3. n \in Nat /\ n >= 1 /\ n \in 0 .. n /\ 0 .. Len(lines) \subseteq 0 .. n
  OBVIOUS
<1>. HIDE DEF more, n
<1>4. ASSUME line.aside \/ line.kind # "tools"
      PROVE  ShowsOpen(more, IF line.aside THEN open ELSE open \ line.answers)
  <2>1. IsLast(i, Asking(more)) /\ i \in 0 .. Len(more)
    BY <1>1, <1>2, <1>3, <1>4 DEF IsLast
  <2>2. (IF line.aside THEN open ELSE open \ line.answers)
          = IF i = 0 THEN {} ELSE more[i].calls \ Answered(more)
    <3>1. CASE i = 0
      BY <1>1, <3>1
    <3>2. CASE i # 0
      <4>1. more[i] = lines[i]
        BY <1>1, <1>2, <3>2
      <4>. QED
        BY <1>1, <1>2, <3>2, <4>1
    <3>. QED
      BY <3>1, <3>2
  <2>. QED
    BY <2>1, <2>2 DEF ShowsOpen
<1>5. ASSUME ~line.aside, line.kind = "tools", line.answers = {},
             \A c \in line.calls : c.at = Len(lines)
      PROVE  ShowsOpen(more, line.calls)
  <2>1. \A c \in Answered(lines) : c.at < Len(lines)
    <3>. SUFFICES ASSUME NEW j \in OwnLines(lines), NEW c \in lines[j].answers PROVE c.at < Len(lines)
      BY DEF Answered
    <3>1. j \in 1 .. Len(lines) /\ lines[j] \in Lines
      BY DEF OwnLines
    <3>2. c.at < j - 1 /\ c.at \in Nat
      BY <3>1 DEF CallsAreNumbered, Lines, ToolCall
    <3>. QED
      BY <3>1, <3>2
  <2>2. Answered(more) = Answered(lines)
    BY <1>2, <1>5
  <2>3. line.calls \cap Answered(more) = {}
    BY <2>1, <2>2, <1>5
  <2>4. IsLast(n, Asking(more))
    <3>1. Asking(lines) \subseteq 1 .. Len(lines)
      BY DEF Asking, OwnLines
    <3>. QED
      BY <3>1, <1>2, <1>5 DEF IsLast, n
  <2>. QED
    <3>1. n \in 0 .. Len(more) /\ n # 0 /\ more[n].calls = line.calls
      BY <1>2, <1>3
    <3>2. line.calls = IF n = 0 THEN {} ELSE more[n].calls \ Answered(more)
      BY <2>3, <3>1
    <3>. QED
      BY <2>4, <3>1, <3>2 DEF ShowsOpen
<1>. QED
  BY <1>4, <1>5 DEF more

\* Whose turn it is after one more line.
LEMMA WhoGoesOn ==
  ASSUME NEW lines \in Seq(Lines), NEW line \in Lines, NEW who, NEW next, ShowsWho(lines, who)
  PROVE  /\ line.aside \/ line.kind = "noise" => ShowsWho(Append(lines, line), who)
         /\ ~line.aside /\ line.kind # "noise" /\ KindFits(line.kind, next) =>
              ShowsWho(Append(lines, line), next)
<1>. DEFINE more == Append(lines, line)
            n    == Len(lines) + 1
<1>1. PICK i \in 0 .. Len(lines) :
        /\ IsLast(i, Telling(lines))
        /\ KindFits(IF i = 0 THEN "complete" ELSE lines[i].kind, who)
  BY DEF ShowsWho
<1>2. /\ Len(more) = n /\ more[n] = line /\ \A j \in 1 .. Len(lines) : more[j] = lines[j]
      /\ Telling(more) = Telling(lines) \cup {j \in {n} : ~line.aside /\ line.kind # "noise"}
  BY OneMoreLine
<1>3. n \in Nat /\ n >= 1 /\ n \in 0 .. n /\ 0 .. Len(lines) \subseteq 0 .. n
  OBVIOUS
<1>. HIDE DEF more, n
<1>4. ASSUME line.aside \/ line.kind = "noise" PROVE ShowsWho(more, who)
  <2>1. IsLast(i, Telling(more)) /\ i \in 0 .. Len(more)
    BY <1>1, <1>2, <1>3, <1>4 DEF IsLast
  <2>2. (IF i = 0 THEN "complete" ELSE more[i].kind) = IF i = 0 THEN "complete" ELSE lines[i].kind
    BY <1>1, <1>2
  <2>. QED
    BY <1>1, <2>1, <2>2 DEF ShowsWho
<1>5. ASSUME ~line.aside, line.kind # "noise", KindFits(line.kind, next)
      PROVE  ShowsWho(more, next)
  <2>1. IsLast(n, Telling(more))
    <3>1. Telling(lines) \subseteq 1 .. Len(lines)
      BY DEF Telling, OwnLines
    <3>. QED
      BY <3>1, <1>2, <1>5 DEF IsLast, n
  <2>. QED
    <3>1. n \in 0 .. Len(more) /\ n # 0 /\ more[n].kind = line.kind
      BY <1>2, <1>3
    <3>2. KindFits(IF n = 0 THEN "complete" ELSE more[n].kind, next)
      BY <1>5, <3>1
    <3>. QED
      BY <2>1, <3>1, <3>2 DEF ShowsWho
<1>. QED
  BY <1>4, <1>5 DEF more

\* Numbers stay right: a call is given the number of lines there are.
LEMMA NumbersGoOn ==
  ASSUME NEW lines \in Seq(Lines), NEW line \in Lines, CallsAreNumbered(lines),
         \A c \in line.calls : c.at = Len(lines), \A c \in line.answers : c.at < Len(lines)
  PROVE  CallsAreNumbered(Append(lines, line))
<1>1. /\ Len(lines) \in Nat /\ Len(Append(lines, line)) = Len(lines) + 1
      /\ Append(lines, line)[Len(lines) + 1] = line
      /\ \A j \in 1 .. Len(lines) : Append(lines, line)[j] = lines[j]
  BY OneMoreLine
<1>2. Len(lines) + 1 - 1 = Len(lines)
  BY <1>1
<1>. SUFFICES ASSUME NEW i \in 1 .. Len(lines) + 1
              PROVE  /\ \A c \in Append(lines, line)[i].calls : c.at = i - 1
                     /\ \A c \in Append(lines, line)[i].answers : c.at < i - 1
  BY <1>1 DEF CallsAreNumbered
<1>3. CASE i = Len(lines) + 1
  BY <1>1, <1>2, <1>3
<1>4. CASE i \in 1 .. Len(lines)
  BY <1>1, <1>4 DEF CallsAreNumbered
<1>. QED
  BY <1>1, <1>3, <1>4

\* Every turn leaves a transcript that says what is owed after it.
LEMMA TurnShows ==
  ASSUME SessionsTypeOK, NEW w \in Chats, Shows(log[w].lines, owing[w]), Turns(w)
  PROVE  Shows(log'[w].lines, owing'[w])
<1>. DEFINE lines == log[w].lines
            owed  == owing[w]
<1>1. /\ lines \in Seq(Lines) /\ Len(lines) \in Nat /\ owed \in Owings
      /\ w \in DOMAIN log /\ w \in DOMAIN owing
  BY DEF SessionsTypeOK, LogTypeOK
<1>2. ASSUME NEW line, NEW next, Writes(w, line, next)
      PROVE  log'[w].lines = Append(lines, line) /\ owing'[w] = next
  BY <1>1, <1>2 DEF Writes
<1>3. /\ CallsAreNumbered(lines) /\ \A c \in owed.open : c.at < Len(lines)
      /\ owed.open # {} <=> owed.who = "tools"
      /\ ShowsOpen(lines, owed.open) /\ ShowsWho(lines, owed.who)
  BY DEF Shows
<1>4. ASSUME NEW names \in SUBSET Tools
      PROVE  /\ ToolCalls(w, names) \in SUBSET ToolCall
             /\ \A c \in ToolCalls(w, names) : c.at = Len(lines)
             /\ names # {} => ToolCalls(w, names) # {}
  <2>1. ToolCalls(w, names) = {[name |-> n, at |-> Len(lines)] : n \in names}
    BY DEF ToolCalls
  <2>2. \A n \in names : [name |-> n, at |-> Len(lines)] \in ToolCall
    BY <1>1 DEF ToolCall
  <2>3. \A n \in names : [name |-> n, at |-> Len(lines)] \in ToolCalls(w, names)
    BY <2>1
  <2>4. \A c \in ToolCalls(w, names) : \E n \in names : c = [name |-> n, at |-> Len(lines)]
    BY <2>1
  <2>5. \A c \in ToolCalls(w, names) : c \in ToolCall /\ c.at = Len(lines)
    BY <2>2, <2>4
  <2>6. names # {} => ToolCalls(w, names) # {}
    BY <2>3
  <2>. QED
    BY <2>5, <2>6
<1>. HIDE DEF lines, owed
<1>5. ASSUME NEW line \in Lines, NEW next \in Owings,
             \A c \in line.calls : c.at = Len(lines), line.answers \subseteq owed.open,
             next.open # {} <=> next.who = "tools",
             \A c \in next.open : c.at <= Len(lines),
             ShowsOpen(Append(lines, line), next.open), ShowsWho(Append(lines, line), next.who)
      PROVE  Shows(Append(lines, line), next)
  <2>1. CallsAreNumbered(Append(lines, line))
    BY <1>1, <1>3, <1>5, NumbersGoOn
  <2>2. \A c \in next.open : c.at < Len(Append(lines, line))
    <3>1. Len(Append(lines, line)) = Len(lines) + 1
      BY <1>1
    <3>2. \A c \in next.open : c.at \in Nat
      BY DEF Owings, ToolCall
    <3>. QED
      BY <1>1, <1>5, <3>1, <3>2
  <2>. QED
    BY <2>1, <2>2, <1>5 DEF Shows
<1>6. CASE Prompts(w)
  <2>. DEFINE line == [kind |-> "prompt", calls |-> {}, answers |-> {}, aside |-> FALSE]
              next == [who |-> "model", open |-> {}]
  <2>1. owed.who = "human" /\ Writes(w, line, next)
    BY <1>6 DEF Prompts, Line, owed
  <2>2. line \in Lines /\ next \in Owings
    BY DEF Lines, Owings
  <2>3. owed.open = {} /\ owed.open \ {} = {}
    BY <1>3, <2>1
  <2>4. ShowsOpen(Append(lines, line), {})
    BY <1>1, <1>3, <2>2, <2>3, OpenGoesOn
  <2>5. ShowsWho(Append(lines, line), "model")
    BY <1>1, <1>3, <2>2, WhoGoesOn DEF KindFits
  <2>6. Shows(Append(lines, line), next)
    BY <1>5, <2>2, <2>4, <2>5
  <2>. QED
    BY <1>2, <2>1, <2>6 DEF lines, owed
<1>7. CASE Says(w)
  <2>. DEFINE line == [kind |-> "text", calls |-> {}, answers |-> {}, aside |-> FALSE]
              next == [who |-> "human", open |-> {}]
  <2>1. owed.who = "model" /\ Writes(w, line, next)
    BY <1>7 DEF Says, Line, owed
  <2>2. line \in Lines /\ next \in Owings
    BY DEF Lines, Owings
  <2>3. owed.open = {} /\ owed.open \ {} = {}
    BY <1>3, <2>1
  <2>4. ShowsOpen(Append(lines, line), {})
    BY <1>1, <1>3, <2>2, <2>3, OpenGoesOn
  <2>5. ShowsWho(Append(lines, line), "human")
    BY <1>1, <1>3, <2>2, WhoGoesOn DEF KindFits
  <2>6. Shows(Append(lines, line), next)
    BY <1>5, <2>2, <2>4, <2>5
  <2>. QED
    BY <1>2, <2>1, <2>6 DEF lines, owed
<1>8. CASE CallsTools(w)
  <2>1. PICK names \in SUBSET Tools :
          names # {} /\
          Writes(w, Line("tools", ToolCalls(w, names), {}, FALSE),
                 [who |-> "tools", open |-> ToolCalls(w, names)])
    <3>1. \A names \in (SUBSET Tools) \ {{}} : names \in SUBSET Tools /\ names # {}
      OBVIOUS
    <3>2. \E names \in (SUBSET Tools) \ {{}} :
            Writes(w, Line("tools", ToolCalls(w, names), {}, FALSE),
                   [who |-> "tools", open |-> ToolCalls(w, names)])
      BY <1>8 DEF CallsTools
    <3>. QED
      BY <3>1, <3>2, Zenon
  <2>. DEFINE calls == ToolCalls(w, names)
              line  == [kind |-> "tools", calls |-> calls, answers |-> {}, aside |-> FALSE]
              next  == [who |-> "tools", open |-> calls]
  <2>2. calls \in SUBSET ToolCall /\ calls # {} /\ \A c \in calls : c.at = Len(lines)
    <3>1. names \in SUBSET Tools /\ names # {}
      BY <2>1
    <3>. QED
      BY <1>4, <3>1
  <2>3. Writes(w, line, next)
    BY <2>1 DEF Line
  <2>. HIDE DEF calls
  <2>4. line \in Lines /\ next \in Owings
    BY <2>2 DEF Lines, Owings
  <2>5. ShowsOpen(Append(lines, line), calls)
    BY <1>1, <1>3, <2>2, <2>4, OpenGoesOn
  <2>6. ShowsWho(Append(lines, line), "tools")
    BY <1>1, <1>3, <2>4, WhoGoesOn DEF KindFits
  <2>7. \A c \in calls : c.at <= Len(lines)
    BY <1>1, <2>2
  <2>8. Shows(Append(lines, line), next)
    BY <1>5, <2>2, <2>4, <2>5, <2>6, <2>7
  <2>. QED
    BY <1>2, <2>3, <2>8 DEF lines, owed
<1>9. CASE Returns(w)
  <2>1. PICK c \in owed.open :
          Writes(w, Line("result", {}, {c}, FALSE),
                 [who |-> IF owed.open \ {c} = {} THEN "model" ELSE "tools", open |-> owed.open \ {c}])
    BY <1>9 DEF Returns, owed
  <2>. DEFINE line == [kind |-> "result", calls |-> {}, answers |-> {c}, aside |-> FALSE]
              who  == IF owed.open \ {c} = {} THEN "model" ELSE "tools"
              next == [who |-> who, open |-> owed.open \ {c}]
  <2>2. Writes(w, line, next)
    BY <2>1 DEF Line
  <2>3. line \in Lines /\ next \in Owings
    BY <1>1, <2>1 DEF Lines, Owings
  <2>4. ShowsOpen(Append(lines, line), owed.open \ {c})
    BY <1>1, <1>3, <2>3, OpenGoesOn
  <2>5. KindFits("result", who) /\ (owed.open \ {c} # {} <=> who = "tools")
    BY DEF KindFits
  <2>. HIDE DEF who
  <2>6. ShowsWho(Append(lines, line), who)
    BY <1>1, <1>3, <2>3, <2>5, WhoGoesOn
  <2>7. \A d \in owed.open \ {c} : d.at <= Len(lines)
    <3>1. \A d \in owed.open : d.at \in Nat
      BY <1>1 DEF Owings, ToolCall
    <3>. QED
      BY <1>1, <1>3, <3>1
  <2>8. Shows(Append(lines, line), next)
    BY <1>5, <2>1, <2>3, <2>4, <2>5, <2>6, <2>7
  <2>. QED
    BY <1>2, <2>2, <2>8 DEF lines, owed
<1>10. CASE Mutters(w)
  <2>1. PICK line \in {Line("text", {}, {}, TRUE), Line("tools", ToolCalls(w, {Asks}), {}, TRUE),
                       Line("noise", {}, {}, FALSE)} : Writes(w, line, owed)
    BY <1>10 DEF Mutters, owed
  <2>2. ToolCalls(w, {Asks}) \in SUBSET ToolCall /\ \A c \in ToolCalls(w, {Asks}) : c.at = Len(lines)
    <3>1. {Asks} \in SUBSET Tools
      BY SessionsAssumption
    <3>. QED
      BY <1>4, <3>1
  <2>3. /\ line \in Lines /\ line.answers = {} /\ \A c \in line.calls : c.at = Len(lines)
        /\ line.aside \/ line.kind = "noise"
    <3>. DEFINE calls == ToolCalls(w, {Asks})
    <3>. HIDE DEF calls
    <3>1. \/ line = [kind |-> "text", calls |-> {}, answers |-> {}, aside |-> TRUE]
          \/ line = [kind |-> "tools", calls |-> calls, answers |-> {}, aside |-> TRUE]
          \/ line = [kind |-> "noise", calls |-> {}, answers |-> {}, aside |-> FALSE]
      BY <2>1 DEF Line, calls
    <3>2. calls \in SUBSET ToolCall /\ \A c \in calls : c.at = Len(lines)
      BY <2>2 DEF calls
    <3>3. CASE line = [kind |-> "text", calls |-> {}, answers |-> {}, aside |-> TRUE]
      BY <3>3 DEF Lines
    <3>4. CASE line = [kind |-> "tools", calls |-> calls, answers |-> {}, aside |-> TRUE]
      BY <3>2, <3>4 DEF Lines
    <3>5. CASE line = [kind |-> "noise", calls |-> {}, answers |-> {}, aside |-> FALSE]
      BY <3>5 DEF Lines
    <3>. QED
      BY <3>1, <3>3, <3>4, <3>5
  <2>4. ShowsOpen(Append(lines, line), owed.open)
    <3>1. owed.open \ line.answers = owed.open
      BY <2>3
    <3>2. line.aside \/ (~line.aside /\ line.kind # "tools")
      BY <2>3
    <3>. QED
      BY <1>1, <1>3, <2>3, <3>1, <3>2, OpenGoesOn
  <2>5. ShowsWho(Append(lines, line), owed.who)
    BY <1>1, <1>3, <2>3, WhoGoesOn
  <2>6. \A c \in owed.open : c.at <= Len(lines)
    <3>1. \A d \in owed.open : d.at \in Nat
      BY <1>1 DEF Owings, ToolCall
    <3>. QED
      BY <1>1, <1>3, <3>1
  <2>7. Shows(Append(lines, line), owed)
    BY <1>1, <1>3, <1>5, <2>3, <2>4, <2>5, <2>6
  <2>. QED
    BY <1>2, <2>1, <2>7 DEF lines, owed
<1>. QED
  BY <1>6, <1>7, <1>8, <1>9, <1>10 DEF Turns

\* tail_state reads it there.
LEMMA TailIsShown ==
  ASSUME SessionsTypeOK, NEW w \in Chats, Shows(log[w].lines, owing[w]), ~log[w].torn
  PROVE  /\ TailState(w).pending = owing[w].open
         /\ KindFits(TailState(w).kind, owing[w].who)
<1>. DEFINE lines == log[w].lines
<1>1. lines \in Seq(Lines) /\ Len(lines) \in Nat
  BY DEF SessionsTypeOK, LogTypeOK
<1>2. MainLines(w) = OwnLines(lines)
  BY DEF MainLines, OwnLines
<1>3. /\ TailState(w).pending = IF Asking(lines) = {} THEN {}
                               ELSE lines[SetMax(Asking(lines))].calls \ Answered(lines)
      /\ TailState(w).kind = IF Telling(lines) = {} THEN "complete"
                            ELSE lines[SetMax(Telling(lines))].kind
  BY <1>2 DEF TailState, Asking, Telling, Answered
<1>. HIDE DEF lines
<1>4. Asking(lines) \in SUBSET Nat /\ Telling(lines) \in SUBSET Nat
      /\ 0 \notin Asking(lines) /\ 0 \notin Telling(lines)
  BY <1>1 DEF Asking, Telling, OwnLines
<1>5. TailState(w).pending = owing[w].open
  <2>1. PICK i \in 0 .. Len(lines) :
          /\ IsLast(i, Asking(lines))
          /\ owing[w].open = IF i = 0 THEN {} ELSE lines[i].calls \ Answered(lines)
    BY DEF Shows, ShowsOpen, lines
  <2>2. CASE i = 0
    <3>1. Asking(lines) = {}
      BY <1>4, <2>1, <2>2 DEF IsLast
    <3>. QED
      BY <1>3, <2>1, <2>2, <3>1
  <2>3. CASE i # 0
    <3>1. i \in Asking(lines)
      BY <2>1, <2>3 DEF IsLast
    <3>2. SetMax(Asking(lines)) = i
      BY <1>4, <2>1, <3>1, LastIsMax
    <3>. QED
      BY <1>3, <2>1, <2>3, <3>1, <3>2
  <2>. QED
    BY <2>2, <2>3
<1>6. KindFits(TailState(w).kind, owing[w].who)
  <2>1. PICK i \in 0 .. Len(lines) :
          /\ IsLast(i, Telling(lines))
          /\ KindFits(IF i = 0 THEN "complete" ELSE lines[i].kind, owing[w].who)
    BY DEF Shows, ShowsWho, lines
  <2>2. CASE i = 0
    <3>1. Telling(lines) = {}
      BY <1>4, <2>1, <2>2 DEF IsLast
    <3>. QED
      BY <1>3, <2>1, <2>2, <3>1
  <2>3. CASE i # 0
    <3>1. i \in Telling(lines)
      BY <2>1, <2>3 DEF IsLast
    <3>2. SetMax(Telling(lines)) = i
      BY <1>4, <2>1, <3>1, LastIsMax
    <3>. QED
      BY <1>3, <2>1, <2>3, <3>1, <3>2
  <2>. QED
    BY <2>2, <2>3
<1>. QED
  BY <1>5, <1>6

-----------------------------------------------------------------------------
\* What a pass finds.

Waits(s) == \E c \in s.pending : c.name = Asks
Owes(s)  == \/ s.kind \in {"prompt", "result"}
            \/ s.kind = "tools" /\ \E c \in s.pending : c.name # Asks

\* A parsed state in the cache is not of a later transcript, and it is right as
\* long as the transcript is the same.
CacheIsRight(w) ==
  states[w] # None =>
    /\ states[w].key <= Key(w) /\ states[w].key \in Nat
    /\ states[w].key = Key(w) =>
         states[w].pending = TailState(w).pending /\ states[w].kind = TailState(w).kind

\* The pass has not come to w, or not yet parsed its transcript.
ToCome(w) == w \in pass.todo \/ (pass.stat # None /\ pass.stat.work = w)

\* The stat that the parse will go by.
StatIsRight ==
  pass.stat # None =>
    /\ pass.stat.work \notin pass.todo
    /\ pass.stat.key <= Key(pass.stat.work)
    /\ pass.stat.work \notin touched =>
         pass.stat.key = Key(pass.stat.work) /\ Running(pass.stat.work)

\* What the pass has found of a session that did not change since it began.
SoFar(w) ==
  /\ ToCome(w) => w \notin pass.waiting /\ w \notin pass.owes
  /\ ~ToCome(w) /\ w \notin touched /\ w \notin pass.unread =>
       /\ w \in pass.waiting <=> Running(w) /\ Waits(TailState(w))
       /\ w \in pass.owes <=> Running(w) /\ Owes(TailState(w))

PassIsRight == StatIsRight /\ \A w \in Chats : CacheIsRight(w) /\ SoFar(w)

TurnInv ==
  /\ SessionsTypeOK /\ PassIsRight
  /\ \A w \in Chats : Shows(log[w].lines, owing[w])

\* A stat is a number.
LEMMA KeyIsNat ==
  ASSUME SessionsTypeOK, NEW w \in Chats
  PROVE  Key(w) \in Nat
<1>1. Len(log[w].lines) \in Nat /\ (log[w].torn => Len(log[w].lines) > 0)
  BY DEF LogTypeOK, SessionsTypeOK
<1>. QED
  BY <1>1 DEF Key

\* Where the transcript is the same, so is what a parse would say.
LEMMA SameLog ==
  ASSUME NEW w, log'[w] = log[w]
  PROVE  Key(w)' = Key(w) /\ TailState(w)' = TailState(w)
  BY DEF Key, TailState, MainLines

\* Whatever session v does, it makes its transcript longer or leaves it as it
\* is; either way the pass is right about the others, and may be wrong about v.
LEMMA SessionGoesOn ==
  ASSUME SessionsTypeOK, SessionsTypeOK', PassIsRight, NEW v \in Chats,
         \A w \in Chats \ {v} : log'[w] = log[w] /\ process'[w] = process[w],
         Key(v)' > Key(v) \/ log'[v] = log[v],
         touched' = touched \cup {v}, UNCHANGED <<pass, states>>
  PROVE  PassIsRight'
<1>1. \A w \in Chats : Key(w) \in Nat /\ Key(w)' \in Nat
  <2>1. \A w \in Chats : /\ Len(log'[w].lines) \in Nat
                         /\ log'[w].torn => Len(log'[w].lines) > 0
    BY DEF LogTypeOK, SessionsTypeOK
  <2>2. \A w \in Chats : Key(w)' \in Nat
    BY <2>1 DEF Key
  <2>. QED
    BY <2>2, KeyIsNat
<1>2. \A w \in Chats \ {v} : Key(w)' = Key(w) /\ TailState(w)' = TailState(w)
  BY SameLog
<1>3. \A w \in Chats \ {v} : Running(w)' = Running(w)
  BY DEF Running
<1>4. \/ Key(v)' > Key(v)
      \/ Key(v)' = Key(v) /\ TailState(v)' = TailState(v)
  BY SameLog
<1>5. StatIsRight'
  <2>1. pass.stat # None => pass.stat.work \in Chats /\ pass.stat.key \in Nat
    BY DEF SessionsTypeOK, PassTypeOK
  <2>. QED
    BY <1>1, <1>2, <1>3, <1>4, <2>1 DEF PassIsRight, StatIsRight
<1>6. \A w \in Chats : CacheIsRight(w)'
  <2>. SUFFICES ASSUME NEW w \in Chats PROVE CacheIsRight(w)'
    OBVIOUS
  <2>1. CacheIsRight(w) /\ states' = states
    BY DEF PassIsRight
  <2>2. \/ Key(w)' > Key(w)
        \/ Key(w)' = Key(w) /\ TailState(w)' = TailState(w)
    BY <1>2, <1>4
  <2>. QED
    BY <1>1, <2>1, <2>2 DEF CacheIsRight
<1>7. \A w \in Chats : SoFar(w)'
  <2>. SUFFICES ASSUME NEW w \in Chats PROVE SoFar(w)'
    OBVIOUS
  <2>1. SoFar(w) /\ ToCome(w)' = ToCome(w)
    BY DEF PassIsRight, ToCome
  <2>2. CASE w = v
    BY <2>1, <2>2 DEF SoFar
  <2>3. CASE w # v
    <3>1. TailState(w)' = TailState(w) /\ Running(w)' = Running(w)
      BY <1>2, <1>3, <2>3
    <3>. QED
      BY <2>1, <2>3, <3>1 DEF SoFar, Waits, Owes
  <2>. QED
    BY <2>2, <2>3
<1>. QED
  BY <1>5, <1>6, <1>7 DEF PassIsRight

\* Steps that touch no transcript, no process and not the pass.
LEMMA NoTurn ==
  ASSUME PassIsRight, UNCHANGED <<log, process, states, touched>>,
         pass' = pass
  PROVE  PassIsRight'
<1>1. \A w \in Chats : Key(w)' = Key(w) /\ TailState(w)' = TailState(w)
  BY SameLog
<1>2. \A w : Running(w)' = Running(w) /\ ToCome(w)' = ToCome(w) /\ Key(w)' = Key(w)
  BY DEF Running, ToCome, Key
<1>. QED
  BY <1>1, <1>2 DEF PassIsRight, StatIsRight, CacheIsRight, SoFar, Waits, Owes

\* The registered process of a session runs exactly while the session does.
LEMMA AliveIsRunning ==
  ASSUME SessionsTypeOK, NEW w \in Chats
  PROVE  IsAlive(w) <=> Running(w)
<1>. USE SessionsAssumption
<1>1. /\ process[w] \in {None, [work |-> w, start |-> 0], [work |-> None, start |-> 1]}
      /\ registry[w] \in {None, [pid |-> w, start |-> 0]}
      /\ Running(w) => registry[w] # None
  BY DEF SessionsTypeOK, ProcessTypeOK
<1>2. CASE registry[w] = None
  BY <1>1, <1>2 DEF IsAlive
<1>3. CASE registry[w] # None
  <2>1. registry[w].pid = w /\ registry[w].start = 0
    BY <1>1, <1>3
  <2>2. CASE process[w] = None
    BY <2>1, <2>2 DEF IsAlive, Running
  <2>3. CASE process[w] = [work |-> w, start |-> 0]
    <3>1. process[w].work = w /\ process[w].start = 0
      BY <2>3
    <3>. HIDE <2>3
    <3>2. process[w] # None
      <4>1. [work |-> w, start |-> 0] \in [work : Chats \cup {None}, start : Nat]
        OBVIOUS
      <4>. QED
        BY <2>3, <4>1
    <3>. QED
      BY <1>3, <2>1, <3>1, <3>2 DEF IsAlive, Running
  <2>4. CASE process[w] = [work |-> None, start |-> 1]
    <3>1. process[w].work = None /\ process[w].start = 1
      BY <2>4
    <3>. QED
      BY <2>1, <3>1 DEF IsAlive, Running
  <2>. QED
    BY <1>1, <2>2, <2>3, <2>4
<1>. QED
  BY <1>2, <1>3

\* A pass begins.
LEMMA MeasureIsRight ==
  ASSUME SessionsTypeOK, PassIsRight, NEW fails \in BOOLEAN, Measure(fails)
  PROVE  PassIsRight'
<1>1. /\ pass'.todo = Chats /\ pass'.stat = None /\ pass'.waiting = {} /\ pass'.owes = {}
      /\ touched' = {} /\ UNCHANGED <<log, states>>
  BY DEF Measure
<1>2. \A w \in Chats : ToCome(w)'
  BY <1>1 DEF ToCome
<1>3. \A w \in Chats : SoFar(w)'
  BY <1>1, <1>2 DEF SoFar
<1>4. \A w \in Chats : CacheIsRight(w)'
  BY <1>1, SameLog DEF PassIsRight, CacheIsRight
<1>. QED
  BY <1>1, <1>3, <1>4 DEF PassIsRight, StatIsRight

\* A pass looks at a transcript.
LEMMA StatStaysRight ==
  ASSUME SessionsTypeOK, PassIsRight, NEW w \in Chats, NEW readable \in BOOLEAN, Stat(w, readable)
  PROVE  PassIsRight'
<1>. USE SessionsAssumption
<1>1. UNCHANGED <<log, states, process, touched>> /\ w \in pass.todo /\ pass.stat = None
  BY DEF Stat, claudeVars
<1>2. \A v \in Chats : Key(v)' = Key(v) /\ TailState(v)' = TailState(v)
  BY <1>1, SameLog
<1>3. \A v \in Chats : CacheIsRight(v)'
  BY <1>1, <1>2 DEF PassIsRight, CacheIsRight
<1>4. \A v : Running(v)' = Running(v)
  BY <1>1 DEF Running
<1>5. /\ pass'.todo = pass.todo \ {w}
      /\ pass'.waiting = pass.waiting /\ pass'.owes = pass.owes /\ pass.unread \subseteq pass'.unread
      /\ \/ /\ pass'.stat = [work |-> w, key |-> Key(w)] /\ pass'.stat # None /\ Running(w)
         \/ pass'.stat = None /\ (w \in pass'.unread \/ ~Running(w))
  <2>. DEFINE at == [work |-> w, key |-> Key(w)]
              moved == {u \in {ChatUser[w]} : mtimes[w] # None /\ mtimes[w] # Key(w)}
              skipped == {x \in {w} : ~readable}
  <2>1. at # None
    <3>1. Key(w) \in Nat
      BY KeyIsNat
    <3>2. at \in [work : Chats, key : Nat]
      BY <3>1
    <3>. QED
      BY <3>2
  <2>2. \/ /\ pass' = [pass EXCEPT !.todo = @ \ {w}, !.stat = at, !.active = @ \cup moved]
           /\ Running(w)
        \/ /\ pass' = [pass EXCEPT !.todo = @ \ {w}, !.unread = @ \cup skipped]
           /\ w \in skipped \/ ~Running(w)
    BY AliveIsRunning DEF Stat
  <2>. HIDE DEF at, moved, skipped
  <2>3. \/ /\ pass'.todo = pass.todo \ {w} /\ pass'.waiting = pass.waiting /\ pass'.owes = pass.owes
           /\ pass'.unread = pass.unread /\ pass'.stat = at /\ Running(w)
        \/ /\ pass'.todo = pass.todo \ {w} /\ pass'.waiting = pass.waiting /\ pass'.owes = pass.owes
           /\ pass'.unread = pass.unread \cup skipped /\ pass'.stat = pass.stat
           /\ w \in skipped \/ ~Running(w)
    BY <2>2 DEF SessionsTypeOK, PassTypeOK
  <2>. QED
    BY <2>1, <2>3, <1>1 DEF at
<1>6. /\ ToCome(w)' <=> pass'.stat # None
      /\ \A v \in Chats \ {w} : ToCome(v)' = ToCome(v)
  <2>1. [work |-> w, key |-> Key(w)].work = w
    OBVIOUS
  <2>2. \A v \in Chats \ {w} : ToCome(v)' <=> v \in pass.todo
    BY <1>5, <2>1 DEF ToCome
  <2>3. \A v \in Chats \ {w} : ToCome(v) <=> v \in pass.todo
    BY <1>1 DEF ToCome
  <2>4. ToCome(w)' <=> pass'.stat # None
    BY <1>5, <2>1 DEF ToCome
  <2>. QED
    BY <2>2, <2>3, <2>4 DEF ToCome
<1>7. \A v \in Chats \ {w} : SoFar(v)'
  BY <1>1, <1>2, <1>4, <1>5, <1>6 DEF PassIsRight, SoFar, Waits, Owes
<1>8. SoFar(w)'
  <2>1. w \notin pass.waiting /\ w \notin pass.owes
    BY <1>1 DEF PassIsRight, SoFar, ToCome
  <2>. QED
    BY <2>1, <1>4, <1>5, <1>6 DEF SoFar
<1>9. StatIsRight'
  <2>1. Key(w) \in Nat
    BY KeyIsNat
  <2>. QED
    BY <1>2, <1>4, <1>5, <2>1 DEF StatIsRight
<1>. QED
  BY <1>3, <1>7, <1>8, <1>9 DEF PassIsRight

\* A pass parses the transcript it looked at.
LEMMA ParseIsRight ==
  ASSUME SessionsTypeOK, PassIsRight, Parse
  PROVE  PassIsRight'
<1>. PICK w \in Chats : w = pass.stat.work
  BY DEF Parse, SessionsTypeOK, PassTypeOK
<1>. DEFINE s == TranscriptState(w)
<1>1. /\ w = pass.stat.work /\ pass.stat.key \in Nat /\ w \notin pass.todo
      /\ pass.stat.key <= Key(w)
      /\ w \notin touched => pass.stat.key = Key(w) /\ Running(w)
  BY DEF Parse, SessionsTypeOK, PassTypeOK, PassIsRight, StatIsRight
<1>2. UNCHANGED <<log, process, touched>>
  BY DEF Parse, claudeVars
<1>3. \A v \in Chats : Key(v)' = Key(v) /\ TailState(v)' = TailState(v) /\ Key(v) \in Nat
  BY <1>2, SameLog, KeyIsNat
<1>4. \A v : Running(v)' = Running(v)
  BY <1>2 DEF Running
<1>5. /\ s.key = pass.stat.key
      /\ s.key = Key(w) => s.pending = TailState(w).pending /\ s.kind = TailState(w).kind
  <2>1. CacheIsRight(w)
    BY <1>1 DEF PassIsRight
  <2>2. CASE states[w] # None /\ states[w].key = pass.stat.key
    <3>1. s = states[w]
      BY <2>2 DEF TranscriptState
    <3>. QED
      BY <2>1, <2>2, <3>1 DEF CacheIsRight
  <2>3. CASE ~(states[w] # None /\ states[w].key = pass.stat.key)
    <3>1. s = [key |-> pass.stat.key, pending |-> TailState(w).pending, kind |-> TailState(w).kind]
      BY <2>3 DEF TranscriptState
    <3>. QED
      BY <3>1
  <2>. QED
    BY <2>2, <2>3
<1>6. /\ states' = [states EXCEPT ![w] = s] /\ pass.stat # None
      /\ pass'.stat = None /\ pass'.todo = pass.todo /\ pass'.unread = pass.unread
      /\ pass'.waiting = pass.waiting \cup {x \in {w} : Waits(s)}
      /\ pass'.owes = pass.owes \cup {x \in {w} : Owes(s)}
  BY DEF Parse, SessionsTypeOK, PassTypeOK, Waits, Owes
<1>. HIDE DEF s
<1>7. /\ states'[w] = s
      /\ \A v \in Chats \ {w} : states'[v] = states[v]
  BY <1>1, <1>6 DEF SessionsTypeOK, PassTypeOK
<1>8. \A v \in Chats : CacheIsRight(v)'
  <2>1. CacheIsRight(w)'
    BY <1>1, <1>3, <1>5, <1>7 DEF CacheIsRight
  <2>2. \A v \in Chats \ {w} : CacheIsRight(v)'
    BY <1>3, <1>7 DEF PassIsRight, CacheIsRight
  <2>. QED
    BY <2>1, <2>2
<1>9. /\ ToCome(w) /\ ~ToCome(w)'
      /\ \A v \in Chats \ {w} : ToCome(v)' = ToCome(v)
  BY <1>1, <1>6 DEF ToCome
<1>10. SoFar(w)'
  <2>1. w \notin pass.waiting /\ w \notin pass.owes
    BY <1>1, <1>9 DEF PassIsRight, SoFar
  <2>2. w \notin touched => (Waits(s) <=> Waits(TailState(w))) /\ (Owes(s) <=> Owes(TailState(w)))
    BY <1>1, <1>5 DEF Waits, Owes
  <2>3. (Waits(TailState(w)) <=> Waits(TailState(w))') /\ (Owes(TailState(w)) <=> Owes(TailState(w))')
    BY <1>1, <1>3 DEF Waits, Owes
  <2>. QED
    BY <1>1, <1>2, <1>4, <1>6, <1>9, <2>1, <2>2, <2>3 DEF SoFar
<1>11. \A v \in Chats \ {w} : SoFar(v)'
  BY <1>2, <1>3, <1>4, <1>6, <1>9 DEF PassIsRight, SoFar, Waits, Owes
<1>. QED
  BY <1>6, <1>8, <1>10, <1>11 DEF PassIsRight, StatIsRight

\* What a pass says of whose turn it is: the induction.
LEMMA InitTurn == SessionsInit => TurnInv
<1>. SUFFICES ASSUME SessionsInit PROVE PassIsRight /\ \A w \in Chats : Shows(log[w].lines, owing[w])
  BY InitSessions DEF TurnInv
<1>1. PassIsRight
  BY DEF SessionsInit, PassIsRight, StatIsRight, CacheIsRight, SoFar, ToCome
<1>. SUFFICES ASSUME NEW w \in Chats PROVE Shows(log[w].lines, owing[w])
  BY <1>1
<1>2. log[w].lines = <<>> /\ owing[w].who = "human" /\ owing[w].open = {}
  BY DEF SessionsInit
<1>3. OwnLines(<<>>) = {} /\ 0 \in 0 .. Len(<<>>)
  BY DEF OwnLines
<1>4. ShowsOpen(<<>>, {}) /\ ShowsWho(<<>>, "human")
  BY <1>3 DEF ShowsOpen, ShowsWho, Asking, Telling, IsLast, KindFits
<1>. QED
  BY <1>2, <1>4 DEF Shows, CallsAreNumbered

\* Every step keeps it.
LEMMA StepTurn == TurnInv /\ [SessionsNext]_sessionVars => TurnInv'
<1>. SUFFICES ASSUME TurnInv, [SessionsNext]_sessionVars PROVE TurnInv'
  OBVIOUS
<1>0. SessionsTypeOK /\ SessionsTypeOK' /\ PassIsRight /\ \A w \in Chats : Shows(log[w].lines, owing[w])
  BY StepTypes DEF TurnInv
<1>. SUFFICES PassIsRight' /\ \A w \in Chats : Shows(log'[w].lines, owing'[w])
  BY <1>0 DEF TurnInv
<1>. HIDE DEF TurnInv
<1>1. ASSUME NEW v \in Chats, Turns(v)
      PROVE  PassIsRight' /\ \A w \in Chats : Shows(log'[w].lines, owing'[w])
  <2>1. PICK line \in Lines, next \in Owings : Writes(v, line, next)
    BY <1>0, <1>1, TurnWrites
  <2>2. /\ \A w \in Chats \ {v} : log'[w] = log[w] /\ process'[w] = process[w] /\ owing'[w] = owing[w]
        /\ log'[v].lines = Append(log[v].lines, line) /\ ~log[v].torn
        /\ touched' = touched \cup {v} /\ UNCHANGED <<pass, states>>
    BY <1>0, <2>1 DEF Writes, passVars, SessionsTypeOK, LogTypeOK
  <2>3. Key(v)' > Key(v)
    <3>1. log[v].lines \in Seq(Lines)
      BY <1>0 DEF SessionsTypeOK, LogTypeOK
    <3>2. Len(log'[v].lines) = Len(log[v].lines) + 1 /\ Len(log[v].lines) \in Nat
      BY <3>1, <2>2
    <3>. DEFINE n == Len(log[v].lines)
                m == Len(log'[v].lines)
    <3>3. Key(v) = 2 * n - 0 /\ Key(v)' \in {2 * m - 1, 2 * m - 0}
      BY <2>2 DEF Key
    <3>. HIDE DEF n, m
    <3>4. n \in Nat /\ m = n + 1
      BY <3>2 DEF n, m
    <3>. QED
      BY <3>3, <3>4
  <2>4. PassIsRight'
    BY <1>0, <2>2, <2>3, SessionGoesOn
  <2>5. Shows(log'[v].lines, owing'[v])
    BY <1>0, <1>1, TurnShows
  <2>. QED
    BY <1>0, <2>2, <2>4, <2>5
<1>2. ASSUME NEW v \in Chats, Completes(v)
      PROVE  PassIsRight' /\ \A w \in Chats : Shows(log'[w].lines, owing'[w])
  <2>1. /\ \A w \in Chats \ {v} : log'[w] = log[w] /\ process'[w] = process[w]
        /\ \A w \in Chats : log'[w].lines = log[w].lines
        /\ owing' = owing /\ log[v].torn /\ ~log'[v].torn
        /\ touched' = touched \cup {v} /\ UNCHANGED <<pass, states>>
    BY <1>0, <1>2 DEF Completes, passVars, SessionsTypeOK, LogTypeOK
  <2>2. Key(v)' > Key(v)
    <3>1. log'[v].lines = log[v].lines /\ Len(log[v].lines) \in Nat
      BY <1>0, <2>1 DEF SessionsTypeOK, LogTypeOK
    <3>. QED
      BY <2>1, <3>1 DEF Key
  <2>3. PassIsRight'
    BY <1>0, <2>1, <2>2, SessionGoesOn
  <2>. QED
    BY <1>0, <2>1, <2>3
<1>3. ASSUME NEW v \in Chats, Exits(v)
      PROVE  PassIsRight' /\ \A w \in Chats : Shows(log'[w].lines, owing'[w])
  <2>1. /\ \A w \in Chats \ {v} : process'[w] = process[w]
        /\ UNCHANGED <<log, owing>>
        /\ touched' = touched \cup {v} /\ UNCHANGED <<pass, states>>
    BY <1>3 DEF Exits, passVars
  <2>2. PassIsRight'
    BY <1>0, <2>1, SessionGoesOn
  <2>. QED
    BY <1>0, <2>1, <2>2
<1>4. ASSUME NEW p \in Chats, Carries(p) \/ Reconnects(p)
      PROVE  PassIsRight' /\ \A w \in Chats : Shows(log'[w].lines, owing'[w])
  BY <1>0, <1>4, NoTurn DEF Carries, Reconnects, passVars
<1>5. ASSUME NEW fails \in BOOLEAN, Measure(fails)
      PROVE  PassIsRight' /\ \A w \in Chats : Shows(log'[w].lines, owing'[w])
  <2>1. UNCHANGED <<log, owing>>
    BY <1>5 DEF Measure
  <2>. QED
    BY <1>0, <1>5, <2>1, MeasureIsRight
<1>6. ASSUME NEW w \in Chats, NEW readable \in BOOLEAN, Stat(w, readable)
      PROVE  PassIsRight' /\ \A v \in Chats : Shows(log'[v].lines, owing'[v])
  <2>1. UNCHANGED <<log, owing>>
    BY <1>6 DEF Stat, claudeVars
  <2>. QED
    BY <1>0, <1>6, <2>1, StatStaysRight
<1>7. CASE Parse
  <2>1. UNCHANGED <<log, owing>>
    BY <1>7 DEF Parse, claudeVars
  <2>. QED
    BY <1>0, <1>7, <2>1, ParseIsRight
<1>8. CASE UNCHANGED sessionVars
  BY <1>0, <1>8, NoTurn DEF sessionVars, claudeVars, passVars
<1>. QED
  BY <1>1, <1>2, <1>3, <1>4, <1>5, <1>6, <1>7, <1>8 DEF SessionsNext, Turns, Pids

\* Which is what the run checks.
LEMMA TurnIsRight == TurnInv => TurnIsSeen
<1>. SUFFICES ASSUME TurnInv, pass.todo = {}, pass.stat = None,
                     NEW w \in Chats, w \notin touched, w \notin pass.unread, ~log[w].torn
              PROVE  LET asked == Running(w) /\ \E c \in owing[w].open : c.name = Asks
                     IN /\ w \in pass.waiting <=> asked
                        /\ ~asked => (w \in pass.owes <=> Running(w) /\ owing[w].who # "human")
  BY DEF TurnIsSeen
<1>1. SoFar(w) /\ ~ToCome(w) /\ Shows(log[w].lines, owing[w]) /\ SessionsTypeOK
  BY DEF TurnInv, PassIsRight, ToCome
<1>2. TailState(w).pending = owing[w].open /\ KindFits(TailState(w).kind, owing[w].who)
  BY <1>1, TailIsShown
<1>3. /\ owing[w].open # {} <=> owing[w].who = "tools"
      /\ owing[w].who \in {"human", "model", "tools"}
  BY <1>1 DEF Shows, SessionsTypeOK, LogTypeOK, Owings
<1>4. /\ w \in pass.waiting <=> Running(w) /\ Waits(TailState(w))
      /\ w \in pass.owes <=> Running(w) /\ Owes(TailState(w))
  BY <1>1 DEF SoFar
<1>5. Waits(TailState(w)) <=> \E c \in owing[w].open : c.name = Asks
  BY <1>2 DEF Waits
<1>6. ~Waits(TailState(w)) => (Owes(TailState(w)) <=> owing[w].who # "human")
  BY <1>2, <1>3, <1>5 DEF Owes, KindFits
<1>. QED
  BY <1>4, <1>5, <1>6

-----------------------------------------------------------------------------
\* What a pass of the live monitor says of a session that it could read, and
\* that did not change meanwhile, is so (live-monitor.py:275-366 tail_state,
\* transcript_state): whatever was written, caught half written or cached
\* before, and however many sessions there are.
THEOREM PassSeesTheTurn == SessionsSpec => []TurnIsSeen
  BY InitTurn, StepTurn, TurnIsRight, PTL DEF SessionsSpec

\* Traffic is seen on a user only if a socket of theirs carried bytes, and then
\* it is seen if ss lists that socket twice (live-monitor.py:211-236).
THEOREM PassSeesTheTraffic == SessionsSpec => []TrafficIsReal
<1>1. TrafficInv => TrafficIsReal
  BY DEF TrafficInv
<1>. QED
  BY InitTraffic, StepTraffic, <1>1, PTL DEF SessionsSpec

-----------------------------------------------------------------------------
(***************************************************************************)
(* The migration.                                                          *)
(***************************************************************************)

Keys == Nat \cup {None}
Hosts ==
  [kind : {"main", "peer"}, cron : BOOLEAN, units : BOOLEAN, timer : BOOLEAN, daemon : BOOLEAN,
   rootKey : Keys, key : Keys, staged : Keys, authorized : Nat]

MigrationTypeOK ==
  /\ host \in Hosts /\ fits \in BOOLEAN /\ job \in Jobs \cup {None}

\* The failures that are known, of the job under way and since a migration last
\* succeeded.
FailedAny(steps) == job.failed \cap steps # {}
Known == mishaps \cup IF job = None THEN {} ELSE job.failed
MainMiss == {"enable", "extract", "killed", "stranded"}
PeerMiss == {"enable", "keyBack"}

\* The keys of a node: the one being handed over is accepted already, and
\* root's, between hand-overs, is the one that is.
KeysAgree ==
  /\ host.staged # None => host.staged = host.authorized
  /\ host.staged = None /\ host.rootKey # None => host.rootKey = host.authorized

\* The main server: a job takes the crons away or leaves a box that collects.
MainStands ==
  /\ Collecting \/ Known \cap MainMiss # {} \/ (job # None /\ job.crons)
  /\ job # None => job.rootKey = None

MainForward ==
  /\ job.script = Deploy /\ ~job.back /\ job.at \in 1 .. 7
  /\ job.at = 1 => ~job.crons
  /\ job.at > 4 => host.timer \/ FailedAny({"enable"})
  /\ job.at > 5 => UnitWorks \/ FailedAny({"extract"})

MainBack ==
  /\ job.script = Rollback /\ job.back /\ job.at \in 1 .. 4
  /\ (host.timer /\ UnitWorks) \/ host.cron \/ FailedAny(MainMiss)

\* A node: what is left of the migration is safe to do, wherever it began.
PeerStands == Collecting \/ host.staged # None \/ Known \cap PeerMiss # {}

PeerForward(before) ==
  /\ job.at \in before + 1 .. before + 8 /\ ~job.back
  /\ job.at <= before + 5 => ~job.crons
  /\ job.at <= before + 6 => job.rootKey = None
  /\ job.at > before + 3 => host.timer \/ FailedAny({"enable"})
  /\ job.at > before + 4 => UnitWorks
  /\ host.staged = None /\ job.rootKey # None => job.rootKey = host.authorized

PeerHandsOver ==
  /\ job.script = Provision \o Migrate /\ ~job.back /\ job.at \in 1 .. 3
  /\ ~job.crons /\ job.rootKey = None
  /\ job.at > 1 => host.staged # None
  /\ job.at > 2 => host.cron /\ host.rootKey = host.staged

PeerGivesUp == job.script = Provision \o Migrate /\ job.back /\ job.at = 11

PeerBack ==
  /\ job.script = Rollback /\ job.back /\ job.at \in 1 .. 4
  /\ job.crons => job.rootKey # None
  /\ host.staged = None /\ job.rootKey # None => job.rootKey = host.authorized
  /\ job.at > 1 /\ job.crons => host.cron \/ FailedAny({"cronsBack"})
  /\ job.at > 2 /\ job.rootKey # None => host.rootKey = job.rootKey \/ FailedAny({"keyBack"})

PeerJob ==
  \/ PeerHandsOver \/ PeerGivesUp \/ PeerBack
  \/ job.script = Migrate /\ PeerForward(0)
  \/ job.script = Provision \o Migrate /\ PeerForward(3)

MigrationInv ==
  /\ MigrationTypeOK /\ KeysAgree
  /\ host.kind = "main" => MainStands /\ (job # None => MainForward \/ MainBack)
  /\ host.kind = "peer" => PeerStands /\ (job # None => PeerJob)

-----------------------------------------------------------------------------
Names == {"crons", "stop", "units", "enable", "extract", "check", "copy", "ship", "rootKey", "pub",
          "authorize", "install", "smoke", "cronsBack", "keyBack", "disable"}

\* The names of the steps.
LEMMA StepNames == Steps = Names
<1>1. /\ ToSet(Deploy) = {"crons", "stop", "units", "enable", "extract", "check"}
      /\ ToSet(Migrate) = {"copy", "units", "enable", "ship", "crons", "rootKey", "pub"}
      /\ ToSet(Provision) = {"authorize", "install", "smoke"}
      /\ ToSet(Rollback) = {"cronsBack", "keyBack", "disable"}
  BY DEF ToSet, Deploy, Migrate, Provision, Rollback
<1>2. Steps = ToSet(Deploy) \cup ToSet(Migrate) \cup ToSet(Provision) \cup ToSet(Rollback)
  BY DEF Steps
<1>. QED
  BY <1>1, <1>2 DEF Names

\* The scripts, step by step: the proofs below walk along them.
LEMMA Scripts ==
  /\ Len(Deploy) = 6 /\ Len(Migrate) = 7 /\ Len(Rollback) = 3 /\ Len(Provision \o Migrate) = 10
  /\ Deploy[1] = "crons" /\ Deploy[2] = "stop" /\ Deploy[3] = "units" /\ Deploy[4] = "enable"
  /\ Deploy[5] = "extract" /\ Deploy[6] = "check"
  /\ Migrate[1] = "copy" /\ Migrate[2] = "units" /\ Migrate[3] = "enable" /\ Migrate[4] = "ship"
  /\ Migrate[5] = "crons" /\ Migrate[6] = "rootKey" /\ Migrate[7] = "pub"
  /\ Rollback[1] = "cronsBack" /\ Rollback[2] = "keyBack" /\ Rollback[3] = "disable"
  /\ \A i \in 1 .. 7 : (Provision \o Migrate)[i + 3] = Migrate[i]
  /\ (Provision \o Migrate)[1] = "authorize" /\ (Provision \o Migrate)[2] = "install"
  /\ (Provision \o Migrate)[3] = "smoke"
  BY DEF Deploy, Migrate, Rollback, Provision

\* What a step that succeeds makes of the host, field by field.
LEMMA HostAfter ==
  ASSUME MigrationTypeOK, job # None, NEW step \in Names
  PROVE  LET h == AfterStep(step)
         IN /\ h \in Hosts /\ h.kind = host.kind
            /\ h.cron = IF step = "crons" THEN FALSE ELSE IF step = "install" THEN TRUE
                        ELSE IF step = "cronsBack" THEN host.cron \/ job.crons ELSE host.cron
            /\ h.units = (host.units \/ step = "units")
            /\ h.timer = IF step = "enable" THEN TRUE
                         ELSE IF step = "disable" THEN host.timer /\ KeepsTimer(job) ELSE host.timer
            /\ h.key = IF step = "copy" /\ host.key = None THEN host.rootKey ELSE host.key
            /\ h.rootKey = IF step = "rootKey" THEN None ELSE IF step = "install" THEN host.staged
                           ELSE IF step = "keyBack" /\ job.rootKey # None THEN job.rootKey
                           ELSE host.rootKey
            /\ step = "authorize" => h.staged # None /\ h.staged = h.authorized
            /\ step # "authorize" =>
                 /\ h.authorized = host.authorized
                 /\ h.staged = IF step = "smoke" THEN None ELSE host.staged
<1>. USE MigrationAssumption DEF MigrationTypeOK, Hosts, Keys, Jobs
<1>. DEFINE h == AfterStep(step)
<1>1. CASE step = "crons"
  <2>1. h = [host EXCEPT !.cron = FALSE]
    BY <1>1 DEF AfterStep
  <2>. QED
    BY <1>1, <2>1
<1>2. CASE step = "stop"
  <2>1. h = [host EXCEPT !.daemon = FALSE]
    BY <1>2 DEF AfterStep
  <2>. QED
    BY <1>2, <2>1
<1>3. CASE step = "units"
  <2>1. h = [host EXCEPT !.units = TRUE]
    BY <1>3 DEF AfterStep
  <2>. QED
    BY <1>3, <2>1
<1>4. CASE step = "enable"
  <2>1. h = [host EXCEPT !.timer = TRUE, !.daemon = TRUE]
    BY <1>4 DEF AfterStep
  <2>. QED
    BY <1>4, <2>1
<1>5. CASE step \in {"extract", "check", "ship", "pub"}
  <2>1. h = host
    BY <1>5 DEF AfterStep
  <2>. QED
    BY <1>5, <2>1
<1>6. CASE step = "copy"
  <2>1. h = [host EXCEPT !.key = IF host.key = None THEN host.rootKey ELSE host.key]
    BY <1>6 DEF AfterStep
  <2>. QED
    BY <1>6, <2>1
<1>7. CASE step = "rootKey"
  <2>1. h = [host EXCEPT !.rootKey = None]
    BY <1>7 DEF AfterStep
  <2>. QED
    BY <1>7, <2>1
<1>8. CASE step = "authorize"
  <2>. DEFINE k == IF host.staged = None THEN host.authorized + 1 ELSE host.staged
  <2>1. h = [host EXCEPT !.staged = k, !.authorized = k]
    BY <1>8 DEF AfterStep
  <2>2. k \in Nat /\ k # None
    <3>1. host.staged \in Nat \cup {None} /\ host.authorized \in Nat
      OBVIOUS
    <3>. QED
      BY <3>1
  <2>. HIDE DEF k
  <2>3. /\ h.staged = k /\ h.authorized = k /\ h \in Hosts
        /\ h.kind = host.kind /\ h.cron = host.cron /\ h.units = host.units /\ h.timer = host.timer
        /\ h.key = host.key /\ h.rootKey = host.rootKey
    <3>. HIDE DEF Jobs
    <3>1. host \in Hosts /\ k \in Keys /\ k \in Nat
      BY <2>2
    <3>2. h \in Hosts
      BY <2>1, <3>1
    <3>. QED
      BY <2>1, <3>1, <3>2
  <2>. QED
    BY <1>8, <2>2, <2>3
<1>9. CASE step = "install"
  <2>1. h = [host EXCEPT !.rootKey = host.staged, !.cron = TRUE]
    BY <1>9 DEF AfterStep
  <2>. QED
    BY <1>9, <2>1
<1>10. CASE step = "smoke"
  <2>1. h = [host EXCEPT !.staged = None]
    BY <1>10 DEF AfterStep
  <2>. QED
    BY <1>10, <2>1
<1>11. CASE step = "cronsBack"
  <2>1. h = [host EXCEPT !.cron = host.cron \/ job.crons]
    BY <1>11 DEF AfterStep
  <2>. QED
    BY <1>11, <2>1
<1>12. CASE step = "keyBack"
  <2>1. h = [host EXCEPT !.rootKey = IF job.rootKey = None THEN host.rootKey ELSE job.rootKey]
    BY <1>12 DEF AfterStep
  <2>. QED
    BY <1>12, <2>1
<1>13. CASE step = "disable"
  <2>1. h = [host EXCEPT !.timer = host.timer /\ KeepsTimer(job)]
    BY <1>13 DEF AfterStep
  <2>2. (host.timer /\ KeepsTimer(job)) \in BOOLEAN
    BY DEF KeepsTimer
  <2>. QED
    BY <1>13, <2>1, <2>2
<1>. QED
  BY <1>1, <1>2, <1>3, <1>4, <1>5, <1>6, <1>7, <1>8, <1>9, <1>10, <1>11, <1>12, <1>13 DEF Names

\* What a step that succeeds makes of the job.
LEMMA JobAfter ==
  ASSUME MigrationTypeOK, StepSucceeds
  PROVE  /\ job # None /\ job' \in Jobs /\ job' # None /\ mishaps' = mishaps /\ fits' = fits
         /\ job'.script = job.script /\ job'.at = job.at + 1 /\ job'.back = job.back
         /\ job.failed \subseteq job'.failed
         /\ CurrentStep = "disable" /\ host.kind = "main" /\ ~host.cron => "stranded" \in job'.failed
         /\ job'.crons = IF CurrentStep = "crons" THEN host.cron ELSE job.crons
         /\ job'.rootKey = IF CurrentStep = "rootKey" THEN host.rootKey ELSE job.rootKey
<1>. USE MigrationAssumption DEF MigrationTypeOK, Hosts, Keys, Jobs
<1>. DEFINE lost == IF CurrentStep = "disable" /\ host.kind = "main" /\ ~host.cron THEN {"stranded"} ELSE {}
            r == Quarantined(CurrentStep)
<1>1. job # None /\ job \in Jobs
  BY DEF StepSucceeds, InScript
<1>2. r \in Jobs /\ r.script = job.script /\ r.at = job.at /\ r.back = job.back /\ r.failed = job.failed
      /\ r.crons = (IF CurrentStep = "crons" THEN host.cron ELSE job.crons)
      /\ r.rootKey = (IF CurrentStep = "rootKey" THEN host.rootKey ELSE job.rootKey)
  <2>1. CASE CurrentStep = "crons"
    <3>1. r = [job EXCEPT !.crons = host.cron]
      BY <2>1 DEF Quarantined
    <3>. QED
      BY <1>1, <2>1, <3>1
  <2>2. CASE CurrentStep = "rootKey"
    <3>1. r = [job EXCEPT !.rootKey = host.rootKey]
      BY <2>2 DEF Quarantined
    <3>. QED
      BY <1>1, <2>2, <3>1
  <2>3. CASE CurrentStep # "crons" /\ CurrentStep # "rootKey"
    <3>1. r = job
      BY <2>3 DEF Quarantined
    <3>. QED
      BY <1>1, <2>3, <3>1
  <2>. QED
    BY <2>1, <2>2, <2>3
<1>3. lost \in SUBSET (Steps \cup {"stranded"})
  OBVIOUS
<1>4. job' = [r EXCEPT !.at = r.at + 1, !.failed = r.failed \cup lost] /\ UNCHANGED <<fits, mishaps>>
  BY DEF StepSucceeds
<1>. HIDE DEF r
<1>5. job' \in Jobs /\ job'.script = r.script /\ job'.at = r.at + 1 /\ job'.back = r.back
      /\ job'.failed = r.failed \cup lost /\ job'.crons = r.crons /\ job'.rootKey = r.rootKey
  <2>. HIDE DEF lost
  <2>1. r.failed \cup lost \in SUBSET (Steps \cup {"stranded"}) /\ r.at + 1 \in Nat
    BY <1>2, <1>3
  <2>. DEFINE failed == r.failed \cup lost
              at == r.at + 1
  <2>2. job' = [r EXCEPT !.at = at, !.failed = failed]
    BY <1>4
  <2>. HIDE DEF failed, at
  <2>3. job' \in Jobs /\ job'.script = r.script /\ job'.at = at /\ job'.back = r.back
      /\ job'.failed = failed /\ job'.crons = r.crons /\ job'.rootKey = r.rootKey
    BY <1>2, <2>1, <2>2 DEF failed, at
  <2>. QED
    BY <2>3 DEF failed, at
<1>6. job' # None
  <2>. HIDE DEF Jobs
  <2>. QED
    BY <1>5
<1>. QED
  BY <1>1, <1>2, <1>4, <1>5, <1>6

\* A unit that works goes on to, but for a node that is given a new key.
LEMMA UnitGoesOn ==
  ASSUME MigrationTypeOK, StepSucceeds, CurrentStep \in Names, UnitWorks, CurrentStep # "authorize"
  PROVE  UnitWorks'
<1>1. /\ host'.kind = host.kind /\ host'.units = (host.units \/ CurrentStep = "units")
      /\ host'.key = IF CurrentStep = "copy" /\ host.key = None THEN host.rootKey ELSE host.key
      /\ host'.authorized = host.authorized
  BY JobAfter, HostAfter DEF StepSucceeds
<1>2. host.authorized \in Nat /\ fits' = fits
  BY JobAfter DEF MigrationTypeOK, Hosts
<1>3. host.kind = "peer" => host.key # None
  BY <1>2, MigrationAssumption DEF UnitWorks
<1>. QED
  BY <1>1, <1>2, <1>3 DEF UnitWorks

\* Where a job is, its next step is known.
At(i, step) == job.at = i /\ CurrentStep = step
InDeploy ==
  At(1, "crons") \/ At(2, "stop") \/ At(3, "units") \/ At(4, "enable") \/ At(5, "extract") \/ At(6, "check")
InRollback == At(1, "cronsBack") \/ At(2, "keyBack") \/ At(3, "disable")
InHandOver == At(1, "authorize") \/ At(2, "install") \/ At(3, "smoke")
InMigrate(before) ==
  \/ At(before + 1, "copy") \/ At(before + 2, "units") \/ At(before + 3, "enable")
  \/ At(before + 4, "ship") \/ At(before + 5, "crons") \/ At(before + 6, "rootKey")
  \/ At(before + 7, "pub")

\* Where a job is, by what its box is.
LEMMA StepIsKnown ==
  ASSUME MigrationInv, InScript
  PROVE  /\ CurrentStep \in Names /\ job # None
         /\ host.kind = "main" =>
              (MainForward /\ InDeploy) \/ (MainBack /\ InRollback)
         /\ host.kind = "peer" =>
              \/ PeerHandsOver /\ InHandOver
              \/ PeerBack /\ InRollback
              \/ job.script = Migrate /\ PeerForward(0) /\ InMigrate(0)
              \/ job.script = Provision \o Migrate /\ PeerForward(3) /\ InMigrate(3)
<1>1. job # None /\ job.at <= Len(job.script) /\ job.at \in Nat /\ CurrentStep = job.script[job.at]
      /\ host.kind \in {"main", "peer"}
  BY DEF InScript, CurrentStep, MigrationInv, MigrationTypeOK, Jobs, Hosts
<1>2. ASSUME MainForward PROVE InDeploy
  <2>1. job.script = Deploy /\ job.at \in 1 .. 6
    BY <1>1, <1>2, Scripts DEF MainForward
  <2>. QED
    BY <1>1, <2>1, Scripts DEF InDeploy, At
<1>3. ASSUME MainBack \/ PeerBack PROVE InRollback
  <2>1. job.script = Rollback /\ job.at \in 1 .. 3
    BY <1>1, <1>3, Scripts DEF MainBack, PeerBack
  <2>. QED
    BY <1>1, <2>1, Scripts DEF InRollback, At
<1>4. ASSUME PeerHandsOver PROVE InHandOver
  <2>1. job.script = Provision \o Migrate /\ job.at \in 1 .. 3
    BY <1>4 DEF PeerHandsOver
  <2>. QED
    BY <1>1, <2>1, Scripts DEF InHandOver, At
<1>5. ASSUME job.script = Migrate, PeerForward(0) PROVE InMigrate(0)
  <2>1. job.at \in 1 .. 7
    BY <1>1, <1>5, Scripts DEF PeerForward
  <2>. QED
    BY <1>1, <1>5, <2>1, Scripts DEF InMigrate, At
<1>6. ASSUME job.script = Provision \o Migrate, PeerForward(3) PROVE InMigrate(3)
  <2>1. job.at \in 4 .. 10
    BY <1>1, <1>6, Scripts DEF PeerForward
  <2>2. job.at - 3 \in 1 .. 7 /\ (job.at - 3) + 3 = job.at
    BY <2>1
  <2>3. CurrentStep = Migrate[job.at - 3]
    BY <1>1, <1>6, <2>2, Scripts
  <2>. QED
    BY <2>1, <2>3, Scripts DEF InMigrate, At
<1>7. ~PeerGivesUp
  BY <1>1, Scripts DEF PeerGivesUp
<1>8. InDeploy \/ InRollback \/ InHandOver \/ InMigrate(0) \/ InMigrate(3) => CurrentStep \in Names
  BY DEF InDeploy, InRollback, InHandOver, InMigrate, At, Names
<1>. QED
  BY <1>1, <1>2, <1>3, <1>4, <1>5, <1>6, <1>7, <1>8 DEF MigrationInv, PeerJob

\* Of what is installed, what a step that succeeds changes.
LEMMA StepSucceeded ==
  ASSUME MigrationInv, StepSucceeds
  PROVE  LET step == CurrentStep
         IN /\ MigrationTypeOK' /\ step \in Names /\ host'.kind = host.kind
            /\ host'.cron = IF step = "crons" THEN FALSE ELSE IF step = "install" THEN TRUE
                           ELSE IF step = "cronsBack" THEN host.cron \/ job.crons ELSE host.cron
            /\ host'.timer = IF step = "enable" THEN TRUE
                            ELSE IF step = "disable" THEN host.timer /\ KeepsTimer(job) ELSE host.timer
            /\ host'.rootKey = IF step = "rootKey" THEN None ELSE IF step = "install" THEN host.staged
                              ELSE IF step = "keyBack" /\ job.rootKey # None THEN job.rootKey
                              ELSE host.rootKey
            /\ step = "authorize" => host'.staged # None /\ host'.staged = host'.authorized
            /\ step # "authorize" =>
                 /\ host'.authorized = host.authorized
                 /\ host'.staged = IF step = "smoke" THEN None ELSE host.staged
                 /\ UnitWorks => UnitWorks'
            /\ step \in {"ship", "extract"} => UnitWorks'
<1>1. CurrentStep \in Names /\ MigrationTypeOK /\ job # None
  BY StepIsKnown DEF StepSucceeds, MigrationInv, InScript
<1>2. host' = AfterStep(CurrentStep)
  BY DEF StepSucceeds
<1>3. MigrationTypeOK'
  BY <1>1, <1>2, HostAfter, JobAfter DEF MigrationTypeOK
<1>4. CurrentStep \in {"ship", "extract"} => UnitWorks'
  <2>1. CurrentStep \in {"ship", "extract"} => UnitWorks
    BY DEF StepSucceeds, Doable
  <2>. QED
    BY <1>1, <2>1, UnitGoesOn
<1>5. CurrentStep # "authorize" /\ UnitWorks => UnitWorks'
  BY <1>1, UnitGoesOn
<1>. QED
  BY <1>1, <1>2, <1>3, <1>4, <1>5, HostAfter

\* A step that succeeds leaves the keys in agreement.
LEMMA KeysStillAgree ==
  ASSUME MigrationInv, StepSucceeds
  PROVE  KeysAgree'
<1>. DEFINE step == CurrentStep
<1>1. KeysAgree /\ host.kind \in {"main", "peer"} /\ host.authorized \in Nat
  BY DEF MigrationInv, MigrationTypeOK, Hosts
<1>2. step = "authorize" => KeysAgree'
  BY StepSucceeded DEF KeysAgree
<1>. USE DEF InDeploy, InRollback, InHandOver, InMigrate, At, StepSucceeds
<1>3. step = "install" => host.staged # None
  BY <1>1, StepIsKnown DEF PeerHandsOver
<1>4. step = "smoke" => host.staged # None /\ host.rootKey = host.staged
  BY <1>1, StepIsKnown DEF PeerHandsOver
<1>5. step = "keyBack" /\ job.rootKey # None /\ host.staged = None => job.rootKey = host.authorized
  <2>1. host.kind = "main" => job.rootKey = None
    BY StepIsKnown DEF MigrationInv, MainStands
  <2>2. host.kind = "peer" /\ step = "keyBack" => PeerBack
    BY <1>1, StepIsKnown
  <2>. QED
    BY <1>1, <2>1, <2>2 DEF PeerBack
<1>. QED
  BY <1>1, <1>2, <1>3, <1>4, <1>5, StepSucceeded DEF KeysAgree

\* What is known to have failed is not forgotten while a job runs.
LEMMA KnownGrows ==
  ASSUME job # None, job' # None, job.failed \subseteq job'.failed, mishaps' = mishaps
  PROVE  /\ Known \subseteq Known'
         /\ FailedAny({"enable"}) => FailedAny({"enable"})'
         /\ FailedAny({"extract"}) => FailedAny({"extract"})'
         /\ FailedAny({"cronsBack"}) => FailedAny({"cronsBack"})'
         /\ FailedAny({"keyBack"}) => FailedAny({"keyBack"})'
         /\ FailedAny(MainMiss) => FailedAny(MainMiss)'
  BY DEF Known, FailedAny

\* A step that succeeds on the main server.
LEMMA MainSucceeds ==
  ASSUME MigrationInv, StepSucceeds, host.kind = "main"
  PROVE  MainStands' /\ (MainForward \/ MainBack)'
<1>1. /\ host'.kind = "main" /\ MainStands
      /\ Collecting <=> host.cron \/ (host.timer /\ UnitWorks)
      /\ Collecting' <=> host'.cron \/ (host'.timer /\ UnitWorks')
  BY StepSucceeded DEF MigrationInv, Collecting
<1>2. Known \subseteq Known' /\ job' # None
  BY JobAfter, KnownGrows DEF MigrationInv
<1>3. /\ FailedAny({"enable"}) => FailedAny({"enable"})'
      /\ FailedAny({"extract"}) => FailedAny({"extract"})'
      /\ FailedAny(MainMiss) => FailedAny(MainMiss)'
  BY JobAfter, KnownGrows DEF MigrationInv
<1>4. job.at \in Nat /\ job.rootKey = None
  BY <1>1, JobAfter DEF MigrationInv, MigrationTypeOK, Jobs, MainStands
<1>5. CASE MainForward /\ InDeploy
  <2>1. /\ CurrentStep \in {"crons", "stop", "units", "enable", "extract", "check"}
        /\ job.at > 3 => CurrentStep \in {"enable", "extract", "check"}
        /\ job.at = 4 => CurrentStep = "enable"
        /\ job.at = 5 => CurrentStep = "extract"
        /\ CurrentStep = "crons" => job.at = 1
        /\ job.at \in 1 .. 6
    BY <1>5 DEF InDeploy, At
  <2>2. /\ host.timer \/ CurrentStep = "enable" => host'.timer
        /\ UnitWorks => UnitWorks'
        /\ CurrentStep = "extract" => UnitWorks'
        /\ CurrentStep # "crons" => host'.cron = host.cron
    BY <2>1, StepSucceeded DEF MigrationInv, MigrationTypeOK, Hosts
  <2>3. /\ job'.script = job.script /\ job'.at = job.at + 1 /\ job'.back = job.back
        /\ job'.rootKey = job.rootKey
        /\ job'.crons = IF CurrentStep = "crons" THEN host.cron ELSE job.crons
    BY <2>1, JobAfter DEF MigrationInv
  <2>4. MainForward'
    <3>1. job'.at > 4 => host'.timer \/ FailedAny({"enable"})'
      <4>1. CASE job.at = 4
        BY <2>1, <2>2, <4>1
      <4>2. CASE job.at > 4
        <5>1. host.timer \/ FailedAny({"enable"})
          BY <1>5, <4>2 DEF MainForward
        <5>. QED
          BY <1>3, <2>2, <5>1
      <4>. QED
        BY <1>4, <2>3, <4>1, <4>2
    <3>2. job'.at > 5 => UnitWorks' \/ FailedAny({"extract"})'
      <4>1. CASE job.at = 5
        BY <2>1, <2>2, <4>1
      <4>2. CASE job.at > 5
        <5>1. UnitWorks \/ FailedAny({"extract"})
          BY <1>5, <4>2 DEF MainForward
        <5>. QED
          BY <1>3, <2>2, <5>1
      <4>. QED
        BY <1>4, <2>3, <4>1, <4>2
    <3>. QED
      BY <1>5, <2>1, <2>3, <3>1, <3>2 DEF MainForward
  <2>5. MainStands'
    <3>1. ~job.crons \/ CurrentStep # "crons"
      BY <1>5, <2>1 DEF MainForward
    <3>. QED
      BY <1>1, <1>2, <1>4, <2>2, <2>3, <3>1 DEF MainStands
  <2>. QED
    BY <2>4, <2>5
<1>6. CASE MainBack /\ InRollback
  <2>1. /\ CurrentStep \in {"cronsBack", "keyBack", "disable"} /\ job.at \in 1 .. 3
    BY <1>6 DEF InRollback, At
  <2>2. /\ host.cron => host'.cron
        /\ CurrentStep # "disable" => host'.timer = host.timer
        /\ UnitWorks => UnitWorks'
    BY <2>1, StepSucceeded
  <2>3. /\ job'.script = job.script /\ job'.at = job.at + 1 /\ job'.back = job.back
        /\ job'.rootKey = job.rootKey
        /\ CurrentStep = "disable" /\ ~host.cron => "stranded" \in job'.failed
    BY <2>1, JobAfter DEF MigrationInv
  <2>4. (host'.timer /\ UnitWorks') \/ host'.cron \/ FailedAny(MainMiss)'
    BY <1>3, <1>6, <2>2, <2>3 DEF MainBack, FailedAny, MainMiss
  <2>5. MainBack'
    BY <1>4, <1>6, <2>1, <2>3, <2>4 DEF MainBack
  <2>6. FailedAny(MainMiss)' => Known' \cap MainMiss # {}
    <3>1. job'.failed \subseteq Known'
      BY <1>2 DEF Known
    <3>. QED
      BY <3>1 DEF FailedAny
  <2>7. MainStands'
    BY <1>1, <1>4, <2>3, <2>4, <2>6 DEF MainStands
  <2>. QED
    BY <2>5, <2>7
<1>. QED
  BY <1>5, <1>6, StepIsKnown DEF StepSucceeds

\* The steps that hand a node its key (provision-remote.sh).
LEMMA HandOverSucceeds ==
  ASSUME MigrationInv, StepSucceeds, host.kind = "peer", PeerHandsOver, InHandOver
  PROVE  PeerStands' /\ PeerJob'
<1>1. /\ job'.script = job.script /\ job'.at = job.at + 1 /\ job'.back = job.back /\ job' # None
      /\ host'.kind = "peer" /\ MigrationTypeOK'
  BY JobAfter, StepSucceeded DEF MigrationInv
<1>2. CurrentStep \notin {"crons", "rootKey", "enable", "disable", "keyBack", "cronsBack"}
  BY DEF InHandOver, At
<1>3. job'.crons = job.crons /\ job'.rootKey = job.rootKey
  BY <1>2, JobAfter DEF MigrationInv
<1>4. CASE At(1, "authorize")
  <2>1. host'.staged # None
    BY <1>4, StepSucceeded DEF At
  <2>. QED
    BY <1>1, <1>3, <1>4, <2>1 DEF At, PeerHandsOver, PeerJob, PeerStands
<1>5. CASE At(2, "install")
  <2>1. CurrentStep = "install" /\ job.at = 2
    BY <1>5 DEF At
  <2>2. host'.staged = host.staged /\ host'.cron = TRUE /\ host'.rootKey = host.staged
    BY <2>1, StepSucceeded
  <2>3. host.staged # None
    BY <2>1 DEF PeerHandsOver
  <2>. QED
    BY <1>1, <1>3, <2>1, <2>2, <2>3 DEF PeerHandsOver, PeerJob, PeerStands
<1>6. CASE At(3, "smoke")
  <2>1. /\ host'.staged = None /\ host'.cron = host.cron /\ host'.rootKey = host.rootKey
        /\ host'.authorized = host.authorized /\ host.staged # None
        /\ host.cron /\ host.rootKey = host.staged
    BY <1>6, StepSucceeded DEF At, PeerHandsOver
  <2>2. Collecting'
    BY <1>1, <2>1 DEF Collecting, MigrationInv, KeysAgree
  <2>3. job'.script = Provision \o Migrate /\ job'.at = 4 /\ ~job'.back /\ ~job'.crons /\ job'.rootKey = None
    BY <1>1, <1>3, <1>6 DEF At, PeerHandsOver
  <2>4. PeerForward(3)'
    BY <2>3 DEF PeerForward
  <2>. QED
    BY <2>2, <2>3, <2>4 DEF PeerJob, PeerStands
<1>. QED
  BY <1>4, <1>5, <1>6 DEF InHandOver

\* A migration's step on a node (migrate-peer.sh), which follows the hand-over or
\* runs alone.
LEMMA MigrateSucceeds ==
  ASSUME MigrationInv, StepSucceeds, host.kind = "peer",
         NEW before \in {0, 3}, PeerForward(before), InMigrate(before)
  PROVE  PeerStands' /\ PeerForward(before)'
<1>1. /\ CurrentStep \in {"copy", "units", "enable", "ship", "crons", "rootKey", "pub"}
      /\ job.at \in before + 1 .. before + 7
      /\ CurrentStep = "crons" => job.at = before + 5
      /\ CurrentStep = "rootKey" => job.at = before + 6
      /\ job.at = before + 3 => CurrentStep = "enable"
      /\ job.at = before + 4 => CurrentStep = "ship"
  BY DEF InMigrate, At
<1>2. /\ job'.script = job.script /\ job'.at = job.at + 1 /\ job'.back = job.back /\ job' # None
      /\ job'.crons = IF CurrentStep = "crons" THEN host.cron ELSE job.crons
      /\ job'.rootKey = IF CurrentStep = "rootKey" THEN host.rootKey ELSE job.rootKey
      /\ host'.kind = "peer" /\ MigrationTypeOK'
  BY <1>1, JobAfter, StepSucceeded DEF MigrationInv
<1>3. /\ host.timer \/ CurrentStep = "enable" => host'.timer
      /\ UnitWorks => UnitWorks'
      /\ CurrentStep = "ship" => UnitWorks'
      /\ CurrentStep # "crons" => host'.cron = host.cron
      /\ CurrentStep # "rootKey" => host'.rootKey = host.rootKey
      /\ host'.staged = host.staged /\ host'.authorized = host.authorized
  BY <1>1, StepSucceeded DEF MigrationInv, MigrationTypeOK, Hosts
<1>4. Known \subseteq Known'
  BY JobAfter, KnownGrows DEF MigrationInv
<1>5. FailedAny({"enable"}) => FailedAny({"enable"})'
  BY JobAfter, KnownGrows DEF MigrationInv
<1>6. job.at > before + 4 => Known \cap PeerMiss # {} \/ (host.timer /\ UnitWorks)
  <2>1. job.failed \subseteq Known
    BY JobAfter DEF Known, MigrationInv
  <2>2. FailedAny({"enable"}) => Known \cap PeerMiss # {}
    BY <2>1 DEF FailedAny, PeerMiss
  <2>. QED
    BY <1>1, <2>2 DEF PeerForward
<1>7. PeerStands'
  <2>1. CASE job.at > before + 4
    BY <1>2, <1>3, <1>4, <1>6, <2>1 DEF PeerStands, Collecting
  <2>2. CASE job.at \in before + 1 .. before + 4
    <3>1. CurrentStep # "crons" /\ CurrentStep # "rootKey"
      BY <1>1, <2>2
    <3>. QED
      BY <1>2, <1>3, <1>4, <3>1 DEF PeerStands, Collecting, MigrationInv
  <2>. QED
    BY <1>1, <2>1, <2>2
<1>8. host'.staged = None /\ job'.rootKey # None => job'.rootKey = host'.authorized
  BY <1>2, <1>3 DEF PeerForward, MigrationInv, KeysAgree
<1>9. /\ job'.at > before + 3 => host'.timer \/ FailedAny({"enable"})'
      /\ job'.at > before + 4 => UnitWorks'
  <2>1. CASE job.at <= before + 2
    BY <1>1, <1>2, <2>1
  <2>2. CASE job.at \in {before + 3, before + 4}
    <3>1. job.at = before + 4 => host.timer \/ FailedAny({"enable"})
      BY DEF PeerForward
    <3>. QED
      BY <1>1, <1>2, <1>3, <1>5, <2>2, <3>1
  <2>3. CASE job.at > before + 4
    <3>1. (host.timer \/ FailedAny({"enable"})) /\ UnitWorks
      BY <1>1, <2>3 DEF PeerForward
    <3>. QED
      BY <1>3, <1>5, <3>1
  <2>. QED
    BY <1>1, <2>1, <2>2, <2>3
<1>10. /\ job'.at \in before + 1 .. before + 8 /\ ~job'.back
       /\ job'.at <= before + 5 => ~job'.crons
       /\ job'.at <= before + 6 => job'.rootKey = None
  BY <1>1, <1>2 DEF PeerForward
<1>. QED
  BY <1>7, <1>8, <1>9, <1>10 DEF PeerForward

\* A step of the rollback on a node.
LEMMA BackSucceeds ==
  ASSUME MigrationInv, StepSucceeds, host.kind = "peer", PeerBack, InRollback
  PROVE  PeerStands' /\ PeerBack'
<1>1. /\ CurrentStep \in {"cronsBack", "keyBack", "disable"} /\ job.at \in 1 .. 3
      /\ job.at = 1 <=> CurrentStep = "cronsBack"
      /\ job.at = 2 <=> CurrentStep = "keyBack"
      /\ job.at = 3 <=> CurrentStep = "disable"
  BY DEF InRollback, At
<1>2. /\ job'.script = job.script /\ job'.at = job.at + 1 /\ job'.back = job.back /\ job' # None
      /\ job'.crons = job.crons /\ job'.rootKey = job.rootKey
      /\ host'.kind = "peer" /\ MigrationTypeOK'
  BY <1>1, JobAfter, StepSucceeded DEF MigrationInv
<1>3. /\ host.cron \/ (CurrentStep = "cronsBack" /\ job.crons) => host'.cron
      /\ CurrentStep # "disable" => host'.timer = host.timer
      /\ CurrentStep = "disable" => host'.timer = (host.timer /\ KeepsTimer(job))
      /\ UnitWorks => UnitWorks'
      /\ host'.rootKey = IF CurrentStep = "keyBack" /\ job.rootKey # None THEN job.rootKey ELSE host.rootKey
      /\ host'.staged = host.staged /\ host'.authorized = host.authorized
  BY <1>1, StepSucceeded DEF MigrationInv, MigrationTypeOK, Hosts
<1>4. Known \subseteq Known'
  BY JobAfter, KnownGrows DEF MigrationInv
<1>5. /\ FailedAny({"cronsBack"}) => FailedAny({"cronsBack"})'
      /\ FailedAny({"keyBack"}) => FailedAny({"keyBack"})'
  BY JobAfter, KnownGrows DEF MigrationInv
<1>6. host.staged = None /\ job.rootKey # None => job.rootKey = host.authorized
  BY DEF PeerBack
<1>7. PeerBack'
  <2>1. host'.staged = None /\ job'.rootKey # None => job'.rootKey = host'.authorized
    BY <1>2, <1>3, <1>6
  <2>2. job'.at > 1 /\ job'.crons => host'.cron \/ FailedAny({"cronsBack"})'
    <3>1. job.at > 1 /\ job.crons => host.cron \/ FailedAny({"cronsBack"})
      BY DEF PeerBack
    <3>. QED
      BY <1>1, <1>2, <1>3, <1>5, <3>1
  <2>3. job'.at > 2 /\ job'.rootKey # None => host'.rootKey = job'.rootKey \/ FailedAny({"keyBack"})'
    BY <1>1, <1>2, <1>3, <1>5 DEF PeerBack
  <2>. QED
    BY <1>1, <1>2, <2>1, <2>2, <2>3 DEF PeerBack
<1>8. PeerStands'
  <2>1. CASE host.staged # None \/ Known \cap PeerMiss # {}
    BY <1>3, <1>4, <2>1 DEF PeerStands
  <2>2. CASE host.staged = None /\ Known \cap PeerMiss = {}
    <3>1. Collecting
      BY <2>2 DEF MigrationInv, PeerStands
    <3>2. CASE CurrentStep # "disable"
      BY <1>2, <1>3, <1>6, <2>2, <3>1, <3>2 DEF PeerStands, Collecting
    <3>3. CASE CurrentStep = "disable" /\ host.cron /\ host.rootKey = host.authorized
      BY <1>1, <1>2, <1>3, <3>3 DEF PeerStands, Collecting
    <3>4. CASE CurrentStep = "disable" /\ host.timer /\ UnitWorks
      <4>1. CASE KeepsTimer(job)
        BY <1>2, <1>3, <3>4, <4>1 DEF PeerStands, Collecting
      <4>2. CASE ~KeepsTimer(job)
        <5>1. job.crons /\ ~FailedAny({"cronsBack"})
          BY <4>2 DEF KeepsTimer, FailedAny
        <5>2. ~FailedAny({"keyBack"})
          <6>1. job.failed \subseteq Known
            BY JobAfter DEF Known, MigrationInv
          <6>. QED
            BY <2>2, <6>1 DEF FailedAny, PeerMiss
        <5>3. host.cron /\ job.rootKey # None /\ host.rootKey = job.rootKey
          BY <1>1, <3>4, <5>1, <5>2 DEF PeerBack
        <5>. QED
          BY <1>2, <1>3, <1>6, <2>2, <3>4, <5>3 DEF PeerStands, Collecting
      <4>. QED
        BY <4>1, <4>2
    <3>. QED
      BY <3>1, <3>2, <3>3, <3>4 DEF Collecting
  <2>. QED
    BY <2>1, <2>2
<1>. QED
  BY <1>7, <1>8

\* What a step that fails makes of the job: it is passed over, ends the giving of
\* a key, or starts the rollback.
LEMMA JobAfterFailure ==
  ASSUME MigrationInv, StepFails
  PROVE  /\ job # None /\ job' \in Jobs /\ job' # None /\ CurrentStep \in Names
         /\ job'.failed = job.failed \cup {CurrentStep}
         /\ job'.crons = job.crons /\ job'.rootKey = job.rootKey
         /\ \/ /\ ~Ends(CurrentStep)
               /\ job'.script = job.script /\ job'.at = job.at + 1 /\ job'.back = job.back
            \/ /\ CurrentStep \in {"authorize", "install", "smoke"}
               /\ job'.script = job.script /\ job'.at = Len(job.script) + 1 /\ job'.back
            \/ /\ Ends(CurrentStep) /\ CurrentStep \notin {"authorize", "install", "smoke"}
               /\ job'.script = Rollback /\ job'.at = 1 /\ job'.back
<1>1. job # None /\ job \in Jobs /\ CurrentStep \in Names
  BY StepIsKnown DEF StepFails, InScript, MigrationInv, MigrationTypeOK
<1>2. PICK failed \in SUBSET (Steps \cup {"stranded"}) : failed = job.failed \cup {CurrentStep}
  BY <1>1, StepNames DEF Jobs
<1>3. PICK r \in Jobs : r = [job EXCEPT !.failed = job.failed \cup {CurrentStep}]
  <2>1. [job EXCEPT !.failed = failed] \in Jobs
    BY <1>1, <1>2 DEF Jobs
  <2>. QED
    BY <1>2, <2>1
<1>4. /\ r.script = job.script /\ r.at = job.at /\ r.back = job.back /\ r.failed = failed
      /\ r.crons = job.crons /\ r.rootKey = job.rootKey
  <2>1. r = [job EXCEPT !.failed = failed]
    BY <1>2, <1>3
  <2>. QED
    BY <1>1, <2>1 DEF Jobs
<1>5. ToSet(Provision) = {"authorize", "install", "smoke"}
  BY DEF ToSet, Provision
<1>6. job' = IF ~Ends(CurrentStep) THEN [r EXCEPT !.at = r.at + 1]
             ELSE IF CurrentStep \in ToSet(Provision) THEN [r EXCEPT !.at = Len(job.script) + 1, !.back = TRUE]
             ELSE Script(Rollback, TRUE, r)
  BY <1>3 DEF StepFails
<1>7. Len(job.script) \in Nat /\ job.at \in Nat
  BY <1>1, Scripts DEF Jobs
<1>8. \A j \in Jobs : j # None
  BY MigrationAssumption
<1>9. CASE ~Ends(CurrentStep)
  <2>1. job' = [r EXCEPT !.at = r.at + 1] /\ r.at + 1 \in Nat
    BY <1>4, <1>6, <1>7, <1>9
  <2>2. /\ job' \in Jobs /\ job'.script = r.script /\ job'.at = r.at + 1 /\ job'.back = r.back
        /\ job'.failed = r.failed /\ job'.crons = r.crons /\ job'.rootKey = r.rootKey
    BY <2>1 DEF Jobs
  <2>. QED
    BY <1>1, <1>2, <1>4, <1>8, <1>9, <2>2
<1>10. CASE Ends(CurrentStep) /\ CurrentStep \in ToSet(Provision)
  <2>1. PICK at \in Nat : at = Len(job.script) + 1
    BY <1>7
  <2>2. job' = [r EXCEPT !.at = at, !.back = TRUE]
    BY <1>6, <1>10, <2>1
  <2>3. /\ job' \in Jobs /\ job'.script = r.script /\ job'.at = at /\ job'.back = TRUE
        /\ job'.failed = r.failed /\ job'.crons = r.crons /\ job'.rootKey = r.rootKey
    BY <2>2 DEF Jobs
  <2>. QED
    BY <1>1, <1>2, <1>4, <1>5, <1>8, <1>10, <2>1, <2>3
<1>11. CASE Ends(CurrentStep) /\ CurrentStep \notin ToSet(Provision)
  <2>1. job' = [script |-> Rollback, at |-> 1, back |-> TRUE,
                failed |-> r.failed, crons |-> r.crons, rootKey |-> r.rootKey]
    BY <1>6, <1>11 DEF Script
  <2>2. /\ job' \in Jobs /\ job'.script = Rollback /\ job'.at = 1 /\ job'.back = TRUE
        /\ job'.failed = r.failed /\ job'.crons = r.crons /\ job'.rootKey = r.rootKey
    BY <2>1 DEF Jobs
  <2>. QED
    BY <1>1, <1>2, <1>4, <1>5, <1>8, <1>11, <2>2
<1>. QED
  BY <1>9, <1>10, <1>11

\* A step that fails.
LEMMA StepFailed ==
  ASSUME MigrationInv, StepFails
  PROVE  MigrationInv'
<1>1. UNCHANGED <<host, fits, mishaps>> /\ job # None /\ job' # None /\ MigrationTypeOK'
  BY JobAfterFailure DEF StepFails, MigrationInv, MigrationTypeOK
<1>2. KeysAgree' /\ (UnitWorks' <=> UnitWorks) /\ (Collecting' <=> Collecting)
  BY <1>1 DEF MigrationInv, KeysAgree, UnitWorks, Collecting
<1>3. Known \subseteq Known'
  BY <1>1, JobAfterFailure, KnownGrows
<1>4. /\ FailedAny({"enable"}) => FailedAny({"enable"})'
      /\ FailedAny({"extract"}) => FailedAny({"extract"})'
      /\ FailedAny({"cronsBack"}) => FailedAny({"cronsBack"})'
      /\ FailedAny({"keyBack"}) => FailedAny({"keyBack"})'
      /\ FailedAny(MainMiss) => FailedAny(MainMiss)'
  BY <1>1, JobAfterFailure, KnownGrows
<1>5. /\ CurrentStep = "enable" => FailedAny({"enable"})'
      /\ CurrentStep = "extract" => FailedAny({"extract"})'
      /\ CurrentStep = "cronsBack" => FailedAny({"cronsBack"})'
      /\ CurrentStep = "keyBack" => FailedAny({"keyBack"})'
  BY JobAfterFailure DEF FailedAny
<1>6. job'.crons = job.crons /\ job'.rootKey = job.rootKey
  BY JobAfterFailure
<1>7. InScript /\ host.kind \in {"main", "peer"}
  BY DEF StepFails, MigrationInv, MigrationTypeOK, Hosts
<1>8. ASSUME host.kind = "main" PROVE MainStands' /\ (MainForward \/ MainBack)'
  <2>1. MainStands'
    BY <1>1, <1>2, <1>3, <1>6, <1>8 DEF MigrationInv, MainStands
  <2>2. ASSUME MainForward, InDeploy PROVE (MainForward \/ MainBack)'
    <3>1. /\ CurrentStep \in {"crons", "stop", "units", "enable", "extract", "check"}
          /\ job.at \in 1 .. 6 /\ Len(job.script) = 6 /\ ~job.back
          /\ job.at = 4 <=> CurrentStep = "enable"
          /\ job.at = 5 <=> CurrentStep = "extract"
      BY <2>2, Scripts DEF InDeploy, At, MainForward
    <3>2. Ends(CurrentStep) <=> job.at = 6
      BY <3>1 DEF Ends
    <3>3. CASE job.at # 6
      <4>1. job'.script = job.script /\ job'.at = job.at + 1 /\ job'.back = job.back
        BY <3>1, <3>2, <3>3, JobAfterFailure
      <4>2. job'.at > 4 => host.timer \/ FailedAny({"enable"})'
        <5>1. job.at > 4 => host.timer \/ FailedAny({"enable"})
          BY <2>2 DEF MainForward
        <5>. QED
          BY <1>4, <1>5, <3>1, <4>1, <5>1
      <4>3. job'.at > 5 => UnitWorks \/ FailedAny({"extract"})'
        <5>1. job.at > 5 => UnitWorks \/ FailedAny({"extract"})
          BY <2>2 DEF MainForward
        <5>. QED
          BY <1>4, <1>5, <3>1, <4>1, <5>1
      <4>. QED
        BY <1>1, <1>2, <2>2, <3>1, <3>3, <4>1, <4>2, <4>3 DEF MainForward
    <3>4. CASE job.at = 6
      <4>1. job'.script = Rollback /\ job'.at = 1 /\ job'.back
        BY <3>1, <3>2, <3>4, JobAfterFailure
      <4>2. (host.timer /\ UnitWorks) \/ FailedAny({"enable"}) \/ FailedAny({"extract"})
        BY <2>2, <3>4 DEF MainForward
      <4>3. FailedAny({"enable"}) \/ FailedAny({"extract"}) => FailedAny(MainMiss)
        BY DEF FailedAny, MainMiss
      <4>. QED
        BY <1>1, <1>2, <1>4, <4>1, <4>2, <4>3 DEF MainBack
    <3>. QED
      BY <3>3, <3>4
  <2>3. ASSUME MainBack, InRollback PROVE MainBack'
    <3>1. /\ CurrentStep \in {"cronsBack", "keyBack", "disable"} /\ job.at \in 1 .. 3 /\ job.back
      BY <2>3 DEF InRollback, At, MainBack
    <3>2. job'.script = job.script /\ job'.at = job.at + 1 /\ job'.back = job.back
      BY <3>1, JobAfterFailure DEF Ends
    <3>3. (host.timer /\ UnitWorks) \/ host.cron \/ FailedAny(MainMiss)'
      BY <1>4, <2>3 DEF MainBack
    <3>. QED
      BY <1>1, <1>2, <2>3, <3>1, <3>2, <3>3 DEF MainBack
  <2>. QED
    BY <1>7, <1>8, <2>1, <2>2, <2>3, StepIsKnown
<1>9. ASSUME host.kind = "peer" PROVE PeerStands' /\ PeerJob'
  <2>1. PeerStands'
    BY <1>1, <1>2, <1>3, <1>9 DEF MigrationInv, PeerStands
  <2>2. ASSUME PeerHandsOver, InHandOver PROVE PeerGivesUp'
    <3>1. CurrentStep \in {"authorize", "install", "smoke"} /\ Ends(CurrentStep)
      BY <2>2 DEF InHandOver, At, Ends
    <3>2. job.script = Provision \o Migrate
      BY <2>2 DEF PeerHandsOver
    <3>3. job'.script = job.script /\ job'.at = Len(job.script) + 1 /\ job'.back
      BY <3>1, JobAfterFailure
    <3>4. Len(job.script) = 10
      BY <3>2, Scripts
    <3>. QED
      BY <3>2, <3>3, <3>4 DEF PeerGivesUp
  <2>3. ASSUME PeerBack, InRollback PROVE PeerBack'
    <3>1. /\ CurrentStep \in {"cronsBack", "keyBack", "disable"} /\ job.at \in 1 .. 3 /\ job.back
          /\ job.at = 1 <=> CurrentStep = "cronsBack"
          /\ job.at = 2 <=> CurrentStep = "keyBack"
      BY <2>3 DEF InRollback, At, PeerBack
    <3>2. job'.script = job.script /\ job'.at = job.at + 1 /\ job'.back = job.back
      BY <3>1, JobAfterFailure DEF Ends
    <3>3. job'.at > 1 /\ job.crons => host.cron \/ FailedAny({"cronsBack"})'
      <4>1. job.at > 1 /\ job.crons => host.cron \/ FailedAny({"cronsBack"})
        BY <2>3 DEF PeerBack
      <4>. QED
        BY <1>4, <1>5, <3>1, <3>2, <4>1
    <3>4. job'.at > 2 /\ job.rootKey # None => host.rootKey = job.rootKey \/ FailedAny({"keyBack"})'
      <4>1. job.at > 2 /\ job.rootKey # None => host.rootKey = job.rootKey \/ FailedAny({"keyBack"})
        BY <2>3 DEF PeerBack
      <4>. QED
        BY <1>4, <1>5, <3>1, <3>2, <4>1
    <3>. QED
      BY <1>1, <1>6, <2>3, <3>1, <3>2, <3>3, <3>4 DEF PeerBack
  <2>4. ASSUME NEW before \in {0, 3}, Len(job.script) = before + 7, PeerForward(before), InMigrate(before)
        PROVE  PeerBack' \/ (job'.script = job.script /\ PeerForward(before)')
    <3>1. /\ CurrentStep \in {"copy", "units", "enable", "ship", "crons", "rootKey", "pub"}
          /\ job.at \in before + 1 .. before + 7 /\ ~job.back
          /\ job.at = before + 1 <=> CurrentStep = "copy"
          /\ job.at = before + 3 <=> CurrentStep = "enable"
          /\ job.at = before + 4 <=> CurrentStep = "ship"
          /\ job.at = before + 7 <=> CurrentStep = "pub"
      BY <2>4 DEF InMigrate, At, PeerForward
    <3>2. CASE ~Ends(CurrentStep)
      <4>1. job'.script = job.script /\ job'.at = job.at + 1 /\ job'.back = job.back
        BY <3>1, <3>2, JobAfterFailure
      <4>2. job.at # before + 4 /\ job.at # before + 7
        BY <2>4, <3>1, <3>2 DEF Ends
      <4>3. job'.at > before + 3 => host.timer \/ FailedAny({"enable"})'
        <5>1. job.at > before + 3 => host.timer \/ FailedAny({"enable"})
          BY <2>4 DEF PeerForward
        <5>. QED
          BY <1>4, <1>5, <3>1, <4>1, <5>1
      <4>4. job'.at > before + 4 => UnitWorks
        BY <2>4, <3>1, <4>1, <4>2 DEF PeerForward
      <4>5. /\ job'.at \in before + 1 .. before + 8 /\ ~job'.back
            /\ job'.at <= before + 5 => ~job'.crons
            /\ job'.at <= before + 6 => job'.rootKey = None
            /\ host.staged = None /\ job'.rootKey # None => job'.rootKey = host.authorized
        BY <1>6, <2>4, <3>1, <4>1 DEF PeerForward
      <4>6. PeerForward(before)'
        <5>1. job'.at > before + 4 => UnitWorks'
          BY <1>2, <4>4
        <5>2. job'.at > before + 3 => host'.timer \/ FailedAny({"enable"})'
          BY <1>1, <4>3
        <5>3. host'.staged = None /\ job'.rootKey # None => job'.rootKey = host'.authorized
          BY <1>1, <4>5
        <5>. QED
          BY <4>5, <5>1, <5>2, <5>3 DEF PeerForward
      <4>. QED
        BY <4>1, <4>6
    <3>3. CASE Ends(CurrentStep)
      <4>1. job'.script = Rollback /\ job'.at = 1 /\ job'.back
        BY <3>1, <3>3, JobAfterFailure
      <4>2. job.crons => job.rootKey # None
        <5>1. CASE CurrentStep = "pub"
          <6>1. Doable("pub")
            BY DEF Doable
          <6>. QED
            BY <5>1, <6>1 DEF StepFails, Acts
        <5>2. CASE CurrentStep # "pub"
          <6>1. job.at <= before + 5
            BY <2>4, <3>1, <3>3, <5>2 DEF Ends
          <6>. QED
            BY <2>4, <6>1 DEF PeerForward
        <5>. QED
          BY <5>1, <5>2
      <4>3. host.staged = None /\ job.rootKey # None => job.rootKey = host.authorized
        BY <2>4 DEF PeerForward
      <4>. QED
        BY <1>1, <1>6, <4>1, <4>2, <4>3 DEF PeerBack
    <3>. QED
      BY <3>2, <3>3
  <2>5. CASE PeerHandsOver /\ InHandOver
    BY <2>1, <2>2, <2>5 DEF PeerJob
  <2>6. CASE PeerBack /\ InRollback
    BY <2>1, <2>3, <2>6 DEF PeerJob
  <2>7. CASE job.script = Migrate /\ PeerForward(0) /\ InMigrate(0)
    BY <2>1, <2>4, <2>7, Scripts DEF PeerJob
  <2>8. CASE job.script = Provision \o Migrate /\ PeerForward(3) /\ InMigrate(3)
    BY <2>1, <2>4, <2>8, Scripts DEF PeerJob
  <2>. QED
    BY <1>7, <1>9, <2>5, <2>6, <2>7, <2>8, StepIsKnown
<1>. QED
  BY <1>1, <1>2, <1>7, <1>8, <1>9 DEF MigrationInv

\* At first every box collects by its crons.
LEMMA InitMigration == ASSUME NEW any \in BOOLEAN, MigrationInit(any) PROVE MigrationInv
<1>1. PICK kind \in {"main", "peer"} :
        host = [kind |-> kind, cron |-> TRUE, units |-> FALSE, timer |-> FALSE, daemon |-> TRUE,
                rootKey |-> 0, key |-> None, staged |-> None, authorized |-> 0]
  BY DEF MigrationInit
<1>2. host \in Hosts /\ host.kind = kind /\ host.cron /\ host.rootKey = host.authorized /\ host.staged = None
  BY <1>1 DEF Hosts, Keys
<1>3. job = None /\ fits \in BOOLEAN /\ Collecting
  BY <1>2 DEF MigrationInit, Collecting
<1>. QED
  BY <1>2, <1>3 DEF MigrationInv, MigrationTypeOK, KeysAgree, MainStands, PeerStands

\* A script is started.
LEMMA ScriptBegan == ASSUME MigrationInv, ScriptBegins PROVE MigrationInv'
<1>1. UNCHANGED <<host, fits, mishaps>> /\ job = None
  BY DEF ScriptBegins
<1>2. KeysAgree' /\ (UnitWorks' <=> UnitWorks) /\ (Collecting' <=> Collecting)
  BY <1>1 DEF MigrationInv, KeysAgree, UnitWorks, Collecting
<1>3. PICK steps \in {Deploy, Migrate, Provision \o Migrate} :
        /\ job' = Script(steps, FALSE, Untouched)
        /\ host.kind = "main" => steps = Deploy
        /\ host.kind = "peer" => steps \in {Migrate, Provision \o Migrate}
  BY DEF ScriptBegins
<1>4. /\ job' \in Jobs /\ job'.script = steps /\ job'.at = 1 /\ job'.back = FALSE
      /\ job'.failed = {} /\ job'.crons = FALSE /\ job'.rootKey = None
  <2>1. job' = [script |-> steps, at |-> 1, back |-> FALSE, failed |-> {}, crons |-> FALSE, rootKey |-> None]
    BY <1>3 DEF Script, Untouched
  <2>2. {} \in SUBSET (Steps \cup {"stranded"})
    OBVIOUS
  <2>. QED
    BY <2>1, <2>2 DEF Jobs
<1>5. MigrationTypeOK' /\ job' # None /\ Known \subseteq Known'
  BY <1>1, <1>4, MigrationAssumption DEF MigrationInv, MigrationTypeOK, Known
<1>6. ASSUME host.kind = "main" PROVE MainStands' /\ MainForward'
  <2>1. MainStands'
    BY <1>1, <1>2, <1>4, <1>5, <1>6 DEF MigrationInv, MainStands
  <2>2. steps = Deploy
    BY <1>3, <1>6
  <2>. QED
    BY <1>4, <2>1, <2>2 DEF MainForward
<1>7. host.kind = "peer" => PeerStands'
  BY <1>1, <1>2, <1>5 DEF MigrationInv, PeerStands
<1>8. ASSUME host.kind = "peer" PROVE PeerJob'
  <2>1. CASE steps = Migrate
    <3>1. PeerForward(0)'
      BY <1>4 DEF PeerForward
    <3>. QED
      BY <1>4, <2>1, <3>1 DEF PeerJob
  <2>2. CASE steps = Provision \o Migrate
    <3>1. PeerHandsOver'
      BY <1>4, <2>2 DEF PeerHandsOver
    <3>. QED
      BY <3>1 DEF PeerJob
  <2>. QED
    BY <1>3, <1>8, <2>1, <2>2
<1>. QED
  BY <1>1, <1>2, <1>5, <1>6, <1>7, <1>8 DEF MigrationInv

\* A script ends and says how.
LEMMA ScriptReported == ASSUME MigrationInv, ScriptReports PROVE MigrationInv'
<1>1. UNCHANGED <<host, fits>> /\ job # None /\ job' = None /\ job.at > Len(job.script)
  <2>1. job # None /\ ~(job.at <= Len(job.script)) /\ job \in Jobs
    BY DEF ScriptReports, InScript, MigrationInv, MigrationTypeOK
  <2>2. job.at \in Nat /\ Len(job.script) \in Nat
    BY <2>1, Scripts DEF Jobs
  <2>. QED
    BY <2>1, <2>2 DEF ScriptReports
<1>2. KeysAgree' /\ (UnitWorks' <=> UnitWorks) /\ (Collecting' <=> Collecting) /\ MigrationTypeOK'
  BY <1>1 DEF MigrationInv, MigrationTypeOK, KeysAgree, UnitWorks, Collecting
<1>3. Known' = mishaps' /\ job.failed \subseteq mishaps' /\ (job.back => Known \subseteq Known')
  BY <1>1 DEF ScriptReports, Known
<1>4. ASSUME host.kind = "main" PROVE MainStands'
  <2>1. CASE MainForward
    <3>1. job.at > 5
      BY <1>1, <2>1, Scripts DEF MainForward
    <3>2. (host.timer /\ UnitWorks) \/ FailedAny({"enable"}) \/ FailedAny({"extract"})
      BY <2>1, <3>1 DEF MainForward
    <3>. QED
      BY <1>1, <1>2, <1>3, <3>2 DEF MainStands, Collecting, FailedAny, MainMiss
  <2>2. CASE MainBack
    <3>1. Collecting \/ FailedAny(MainMiss)
      BY <1>4, <2>2 DEF MainBack, Collecting
    <3>. QED
      BY <1>1, <1>2, <1>3, <3>1 DEF MainStands, FailedAny
  <2>. QED
    BY <1>1, <1>4, <2>1, <2>2 DEF MigrationInv
<1>5. ASSUME host.kind = "peer" PROVE PeerStands'
  <2>1. CASE job.back
    BY <1>1, <1>2, <1>3, <1>5, <2>1 DEF MigrationInv, PeerStands
  <2>2. ASSUME NEW before \in {0, 3}, Len(job.script) = before + 7, PeerForward(before) PROVE PeerStands'
    <3>1. job.at > before + 4
      BY <1>1, <2>2 DEF PeerForward
    <3>2. (host.timer /\ UnitWorks) \/ FailedAny({"enable"})
      BY <2>2, <3>1 DEF PeerForward
    <3>. QED
      BY <1>1, <1>2, <1>3, <3>2 DEF PeerStands, Collecting, FailedAny, PeerMiss
  <2>3. ~PeerHandsOver
    BY <1>1, Scripts DEF PeerHandsOver
  <2>4. PeerJob
    BY <1>1, <1>5 DEF MigrationInv
  <2>5. CASE job.script = Migrate /\ PeerForward(0)
    BY <2>2, <2>5, Scripts
  <2>6. CASE job.script = Provision \o Migrate /\ PeerForward(3)
    BY <2>2, <2>6, Scripts
  <2>. QED
    BY <2>1, <2>3, <2>4, <2>5, <2>6 DEF PeerJob, PeerBack, PeerGivesUp
<1>6. host.kind \in {"main", "peer"}
  BY DEF MigrationInv, MigrationTypeOK, Hosts
<1>. QED
  BY <1>1, <1>2, <1>4, <1>5, <1>6 DEF MigrationInv

\* A script is killed.
LEMMA ScriptWasKilled == ASSUME MigrationInv, ScriptKilled PROVE MigrationInv'
<1>1. UNCHANGED <<host, fits>> /\ job # None /\ job' = None
  BY DEF ScriptKilled
<1>2. KeysAgree' /\ (Collecting' <=> Collecting) /\ MigrationTypeOK'
  BY <1>1 DEF MigrationInv, MigrationTypeOK, KeysAgree, Collecting, UnitWorks
<1>3. Known \subseteq Known' /\ (job.crons => "killed" \in Known')
  BY <1>1 DEF ScriptKilled, Known
<1>. QED
  BY <1>1, <1>2, <1>3 DEF MigrationInv, MainStands, PeerStands, MainMiss

\* Every step keeps the invariant.
LEMMA StepMigration ==
  ASSUME MigrationInv, [MigrationNext]_migrationVars
  PROVE  MigrationInv'
<1>1. CASE StepSucceeds
  <2>1. MigrationTypeOK' /\ KeysAgree' /\ host'.kind = host.kind /\ job' # None
    BY <1>1, StepSucceeded, KeysStillAgree, JobAfter DEF MigrationInv
  <2>2. host.kind = "main" => MainStands' /\ (MainForward \/ MainBack)'
    BY <1>1, MainSucceeds
  <2>3. ASSUME host.kind = "peer" PROVE PeerStands' /\ PeerJob'
    <3>1. job'.script = job.script
      BY <1>1, JobAfter DEF MigrationInv
    <3>2. CASE PeerHandsOver /\ InHandOver
      BY <1>1, <2>3, <3>2, HandOverSucceeds
    <3>3. CASE PeerBack /\ InRollback
      BY <1>1, <2>3, <3>3, BackSucceeds DEF PeerJob
    <3>4. CASE job.script = Migrate /\ PeerForward(0) /\ InMigrate(0)
      BY <1>1, <2>3, <3>1, <3>4, MigrateSucceeds DEF PeerJob
    <3>5. CASE job.script = Provision \o Migrate /\ PeerForward(3) /\ InMigrate(3)
      BY <1>1, <2>3, <3>1, <3>5, MigrateSucceeds DEF PeerJob
    <3>. QED
      BY <1>1, <2>3, <3>2, <3>3, <3>4, <3>5, StepIsKnown DEF StepSucceeds
  <2>. QED
    BY <2>1, <2>2, <2>3 DEF MigrationInv
<1>2. CASE UNCHANGED migrationVars
  BY <1>2 DEF migrationVars, MigrationInv, MigrationTypeOK, KeysAgree, MainStands, MainForward, MainBack,
       PeerStands, PeerJob, PeerForward, PeerHandsOver, PeerGivesUp, PeerBack, FailedAny, Known,
       Collecting, UnitWorks
<1>. QED
  BY <1>1, <1>2, StepFailed, ScriptBegan, ScriptReported, ScriptWasKilled DEF MigrationNext

\* Which is what the run checks.
LEMMA CollectingIsKept == MigrationInv => KeepsCollecting
<1>. SUFFICES ASSUME MigrationInv PROVE KeepsCollecting
  OBVIOUS
<1>. DEFINE failed == mishaps \cup IF job = None THEN {} ELSE job.failed
<1>1. failed = Known
  BY DEF Known
<1>2. host.kind \in {"main", "peer"}
  BY DEF MigrationInv, MigrationTypeOK, Hosts
<1>3. CASE host.kind = "main"
  BY <1>1, <1>3 DEF MigrationInv, MainStands, MainMiss, KeepsCollecting
<1>4. CASE host.kind = "peer"
  BY <1>1, <1>4 DEF MigrationInv, PeerStands, PeerMiss, KeepsCollecting
<1>. QED
  BY <1>2, <1>3, <1>4

\* Whatever fails, is killed or is run again, on any box and with any number of
\* runs, a box that collects goes on to, but for the failures named.
\* Whatever fails, is killed or is run again, a box that collects goes on to,
\* with the exceptions KeepsCollecting names (deploy.sh:339-370 derootify,
\* migrate-peer.sh:97-280): for any number of keys, scripts run and failures.
THEOREM MovesKeepCollecting == MigrationSpec => []KeepsCollecting
<1>1. MigrationInit(TRUE) => MigrationInv
  BY InitMigration
<1>2. MigrationInv /\ [MigrationNext]_migrationVars => MigrationInv'
  BY StepMigration
<1>. QED
  BY <1>1, <1>2, CollectingIsKept, PTL DEF MigrationSpec
=============================================================================

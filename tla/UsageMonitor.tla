---------------------------- MODULE UsageMonitor ----------------------------
(***************************************************************************)
(* The poller of the account's rate limits, server/monitor/usage-monitor.py.*)
(* One run per timer tick and box reads the tokens Claude Code left on the *)
(* disk, asks the API with the freshest that is worth a call, and writes a *)
(* reading.  A remote ships its reading to the main server                 *)
(* (ship-fragment.sh), whose own run serves the freshest live one.         *)
(*                                                                         *)
(* The account is the truth behind the API: per window the utilization     *)
(* (0 .. 2, 2 being at least 67%) and when it resets.  A reading carries   *)
(* asOf, the number of uses before the call, which the code does not have. *)
(***************************************************************************)
EXTENDS Ticks

CONSTANTS
  Main, Remotes,   \* the boxes
  Files,           \* Files[box]: its credential files (CRED_GLOB)
  Place,           \* Place[s]: where file s comes in what the glob finds
  Windows,         \* the limit windows: "session", "weekly"
  Length,          \* Length[w]: how long a window lasts
  TokenLife,       \* how long Claude Code's tokens last
  Skew,            \* EXPIRY_SKEW_MS
  BackoffBase,     \* BACKOFF_BASE_MS
  BackoffCap,      \* BACKOFF_CAP_MS
  MergeMaxAge,     \* MERGE_MAX_AGE_S
  TickSeconds,     \* the length of a tick
  Jitters          \* the API's jitter in a reset time, in seconds, 0 being one

Boxes   == {Main} \cup Remotes
Sources == UNION {Files[x] : x \in Boxes}
Hot     == 2

ASSUME UsageAssumption ==
  /\ Main \notin Remotes /\ Files \in [Boxes -> SUBSET Sources]
  /\ Length \in [Windows -> Nat \ {0}]
  /\ \A x \in Boxes : \A r, s \in Files[x] : r # s => Place[r] # Place[s]
  /\ Place \in [Sources -> Nat]
  /\ {Skew, BackoffBase, BackoffCap, MergeMaxAge} \subseteq Nat
  /\ TokenLife \in Nat \ {0}
  /\ None \notin [exp : Nat, fails : Nat, next : Int]
  /\ None \notin [exp : Nat, at : Nat, times : Nat]
  /\ TickSeconds \in Nat \ {0} /\ 0 \in Jitters /\ Jitters \subseteq Int
  /\ \A n \in 0 .. 299, jitter \in Jitters :
       (TickSeconds * n + jitter + 150) \div 300 = (TickSeconds * n + 150) \div 300

VARIABLES
  account,  \* account[w]: [util, resets], resets None while no window is open
  uses,     \* how often the account was used
  cred,     \* cred[s]: [exp, readable]: the token in credential file s
  poll,     \* poll[s]: None or [exp, fails, next], usage-poll-state.json
  out,      \* out[box]: the reading in its --output file, or None
  zone,     \* zone[r]: the reading r shipped, or None
  hits,     \* hits[w]: the keys in limit-hits.json
  called,   \* history: [asked, answered]: the sources the latest run called
  wrote,    \* history: whether that run got as far as its reading
  pushed,   \* history: pushed[w]: the windows (their reset times) that got hot
  refused   \* history: refused[s]: None or [exp, at, times]: refusals in a row
            \* of one token, as far as the poller could know of them

usageVars == <<account, uses, cred, poll, out, zone, hits, called, wrote, pushed, refused>>

\* Between two ticks, what the runs of the last one asked does not matter.
UsageRests ==
  /\ called' = [asked |-> {}, answered |-> {}] /\ wrote' = FALSE
  /\ UNCHANGED <<account, uses, cred, poll, out, zone, hits, pushed, refused>>

-----------------------------------------------------------------------------
\* The account.

Truth(w) ==
  IF account[w].resets # None /\ account[w].resets <= now
  THEN [util |-> 0, resets |-> None] ELSE account[w]

\* A prompt opens the windows that are not open.  Claude Code keeps the
\* token of the user who runs it fresh.
Use(s) ==
  /\ account' = [w \in Windows |->
                   LET t == Truth(w) IN
                     [util |-> IF t.util < Hot THEN t.util + 1 ELSE Hot,
                      resets |-> IF t.resets = None THEN now + Length[w] ELSE t.resets]]
  /\ uses' = uses + 1
  /\ pushed' = [w \in Windows |-> pushed[w] \cup
                  {r \in {account'[w].resets} : account'[w].util = Hot}]
  /\ cred' = [cred EXCEPT ![s].exp = now + TokenLife]
  /\ UNCHANGED <<poll, out, zone, hits, called, wrote, refused>>

\* A credential file cannot be read for a while.
Hide(s) ==
  /\ cred' = [cred EXCEPT ![s].readable = ~@]
  /\ UNCHANGED <<account, uses, poll, out, zone, hits, called, wrote, pushed, refused>>

-----------------------------------------------------------------------------
\* Asking.  A verdict is what the API answers to a source: "ok", "auth" (401,
\* 403, 429), or "other" (any other failure).

\* gather_tokens: which is tried first, of equal expiry in the order of the glob.
Before(r, s) ==
  \/ cred[r].exp > cred[s].exp
  \/ cred[r].exp = cred[s].exp /\ Place[r] < Place[s]

Expired(exp) == exp < now - Skew

\* Mutant: a refreshed token waits for the backoff of the old one.
BackedOffAnyway(b, exp) == b # None /\ now < b.next

BackedOff(b, exp) == b # None /\ now < b.next /\ exp <= b.exp

Backoff(fails) ==
  IF BackoffBase * 2^(fails - 1) > BackoffCap THEN BackoffCap ELSE BackoffBase * 2^(fails - 1)

Eligible(box) ==
  {s \in Files[box] : /\ cred[s].readable
                     /\ ~Expired(cred[s].exp) /\ ~BackedOff(poll[s], cred[s].exp)}

Accepted(box, verdict) == {s \in Eligible(box) : verdict[s] = "ok"}

\* The sources fetch_usage_any asks: up to the first that is accepted.
FetchUsageAny(box, verdict) ==
  {s \in Eligible(box) : \A r \in Accepted(box, verdict) : ~Before(r, s)}

\* What a call leaves in the poll state.
Noted(s, verdict) ==
  LET exp == cred[s].exp
      b   == poll[s]
      fails == IF b # None /\ exp <= b.exp THEN b.fails + 1 ELSE 1
  IN CASE verdict = "ok"    -> [exp |-> exp, fails |-> 0, next |-> 0]
       [] verdict = "auth"  -> [exp |-> exp, fails |-> fails, next |-> now + Backoff(fails)]
       [] verdict = "other" -> b

\* save_poll_state forgets the sources of the box it did not see.
SavePollState(box, verdict) ==
  [s \in Sources |->
     CASE s \in Files[box] /\ ~cred[s].readable -> None
       [] s \in FetchUsageAny(box, verdict)      -> Noted(s, verdict[s])
       [] OTHER                                  -> poll[s]]

-----------------------------------------------------------------------------
\* Readings.

\* build_payload.  resets_at carries the jitter of this answer.
BuildPayload(box, jitter) ==
  [stale |-> FALSE, taken |-> now, server |-> box, asOf |-> uses,
   windows |-> [w \in Windows |->
                  [util |-> Truth(w).util, resets |-> Truth(w).resets,
                   jitter |-> IF Truth(w).resets = None THEN 0 ELSE jitter]],
   hits |-> [w \in Windows |-> 0]]

Zeroed == [util |-> 0, resets |-> None, jitter |-> 0]

\* Mutant: what was read last is held as it was.
HoldForever(b) == b

\* A held window is exact until it resets, and then empty.
Held(b) ==
  IF b # None /\ b.resets # None /\ b.resets <= now THEN Zeroed ELSE b

StalePayload(prev, box) ==
  [stale |-> TRUE, taken |-> now, server |-> box,
   asOf |-> IF prev = None THEN None ELSE prev.asOf,
   windows |-> [w \in Windows |-> IF prev = None THEN None ELSE Held(prev.windows[w])],
   hits |-> [w \in Windows |-> 0]]

\* merge_remote_limits: of the same age the local one, then the first label.
MergeRemote(local) ==
  LET fresh(p) == p # None /\ ~p.stale /\ now - p.taken <= MergeMaxAge
      candidates == {zone[r] : r \in {q \in Remotes : fresh(zone[q])}}
                      \cup (IF local.stale THEN {} ELSE {local})
      freshest == {p \in candidates : \A q \in candidates : p.taken >= q.taken}
  IN CASE candidates = {} -> local
       [] ~local.stale /\ local \in freshest -> local
       [] OTHER -> CHOOSE p \in freshest : TRUE

\* Mutant: the reset time as it is reported.
RawKey(b) == TickSeconds * b.resets + b.jitter

\* _window_key: the reset time rounded to five minutes.
WindowKey(b) == (TickSeconds * b.resets + b.jitter + 150) \div 300

\* update_limit_hits, on what is left of the state file.
UpdateHits(p, stored) ==
  [w \in Windows |->
     LET b == p.windows[w] IN
       stored[w] \cup
         (IF b # None /\ b.util >= Hot /\ b.resets # None THEN {WindowKey(b)} ELSE {})]

Counted(p, stored) ==
  [p EXCEPT !.hits = [w \in Windows |-> Cardinality(UpdateHits(p, stored)[w])]]

CarriedOver(p, prev) ==
  [p EXCEPT !.hits = IF prev = None THEN [w \in Windows |-> 0] ELSE prev.hits]

-----------------------------------------------------------------------------
\* Runs.

Backlog(box, verdict) ==
  LET asked == FetchUsageAny(box, verdict)
  IN [s \in Sources |->
        CASE s \in Files[box] /\ ~cred[s].readable -> None
          [] s \in asked /\ verdict[s] = "ok" -> None
          [] s \in asked /\ verdict[s] = "auth" ->
               [exp |-> cred[s].exp, at |-> now,
                times |-> IF refused[s] # None /\ refused[s].exp = cred[s].exp
                          THEN refused[s].times + 1 ELSE 1]
          [] OTHER -> refused[s]]

\* The part of main that every box shares.
Ask(box, verdict) ==
  /\ poll' = SavePollState(box, verdict)
  /\ called' = [asked    |-> FetchUsageAny(box, verdict),
                answered |-> FetchUsageAny(box, verdict) \cap Accepted(box, verdict)]
  /\ refused' = Backlog(box, verdict)

Local(box, verdict, jitter) ==
  IF Accepted(box, verdict) # {} THEN BuildPayload(box, jitter) ELSE StalePayload(out[box], box)

\* The run of the main server; stored is what it can read of limit-hits.json.
PollMain(verdict, jitter, stored) ==
  LET p == MergeRemote(Local(Main, verdict, jitter))
  IN /\ Ask(Main, verdict)
     /\ IF p.stale
        THEN out' = [out EXCEPT ![Main] = CarriedOver(p, @)] /\ UNCHANGED hits
        ELSE out' = [out EXCEPT ![Main] = Counted(p, stored)] /\ hits' = UpdateHits(p, stored)
     /\ wrote' = TRUE /\ UNCHANGED <<account, uses, cred, zone, pushed>>

\* The run of a remote and the upload of its reading, which may fail or be
\* cut short.
PollRemote(r, verdict, jitter, upload) ==
  /\ Ask(r, verdict)
  /\ out' = [out EXCEPT ![r] = Local(r, verdict, jitter)]
  /\ zone' = CASE upload = "ok"   -> [zone EXCEPT ![r] = out'[r]]
               [] upload = "lost" -> zone
               [] upload = "cut"  -> [zone EXCEPT ![r] = None]
  /\ wrote' = TRUE /\ UNCHANGED <<account, uses, cred, hits, pushed>>

\* A run that is killed after it saved the poll state.
PollKilled(box, verdict) ==
  /\ Ask(box, verdict)
  /\ wrote' = FALSE /\ UNCHANGED <<account, uses, cred, out, zone, hits, pushed>>

UsageInit ==
  /\ account = [w \in Windows |-> [util |-> 0, resets |-> None]] /\ uses = 0
  /\ cred = [s \in Sources |-> [exp |-> now + TokenLife, readable |-> TRUE]]
  /\ poll = [s \in Sources |-> None] /\ refused = poll
  /\ out = [x \in Boxes |-> None] /\ zone = [r \in Remotes |-> None]
  /\ hits = [w \in Windows |-> {}] /\ pushed = hits
  /\ called = [asked |-> {}, answered |-> {}] /\ wrote = FALSE
=============================================================================

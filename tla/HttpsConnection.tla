-------------------------- MODULE HttpsConnection --------------------------
(***************************************************************************)
(* The keep-alive HTTPS client of the badges, firmware/http_client.py.     *)
(*                                                                         *)
(* A socket is what the client holds plus what the network holds for it:   *)
(* whether the server has closed its end, and an answer that is still to   *)
(* be read.  A call is a relation: the operators below give the set of its *)
(* outcomes, one for each way the server and the network can behave.       *)
(***************************************************************************)
EXTENDS Integers

CONSTANTS
  Feeds,  \* the feed files of the server
  None

Socket == [open: BOOLEAN, eof: BOOLEAN, unread: Feeds \cup {None}]

Closed == [open |-> FALSE, eof |-> FALSE, unread |-> None]
Fresh  == [open |-> TRUE, eof |-> FALSE, unread |-> None]

\* The ways an answer can reach the client; all but the first two are faults.
\* lost: no route; late: it arrives after the read timed out; cut: the server
\* hangs up within it; unframed: neither a length nor chunks, or a bad chunk
\* size; garbled: no number where the status or the length should be; wordless:
\* a status line of one word.
Whole  == {"whole", "closing"}
Faulty == {"late", "cut", "unframed", "garbled", "wordless"}
Kinds  == Whole \cup Faulty \cup {"lost"}

Errors == {"OSError", "HttpError", "ValueError", "IndexError"}

\* A call's outcome: "answer" or the exception it raises, the feed whose body
\* it returns, the socket it leaves, the handshakes and faults on the way.
Outcome(how, of, sock, faults) ==
  [how |-> how, of |-> of, sock |-> sock, dials |-> 0, faults |-> faults]

\* The server's answer to a request for feed k on an open socket s.
Answered(s, k, kind) ==
  CASE kind = "whole"    -> Outcome("answer", k, s, 0)
    [] kind = "closing"  -> Outcome("answer", k, Closed, 0)
    [] kind = "lost"     -> Outcome("OSError", None, s, 0)
    [] kind = "late"     -> Outcome("OSError", None, [s EXCEPT !.unread = k], 1)
    [] kind = "cut"      -> Outcome("OSError", None, [s EXCEPT !.eof = TRUE], 1)
    [] kind = "unframed" -> Outcome("HttpError", None, [s EXCEPT !.unread = k], 1)
    [] kind = "garbled"  -> Outcome("ValueError", None, [s EXCEPT !.unread = k], 1)
    [] kind = "wordless" -> Outcome("IndexError", None, [s EXCEPT !.unread = k], 1)

\* _request: bytes that are still in the socket are read as the answer.
Request(s, k, kinds) ==
  CASE s.eof -> {Outcome("OSError", None, s, 0)}
    [] s.unread # None ->
         {Outcome("answer", s.unread, [s EXCEPT !.unread = k], 0)}
    [] OTHER -> {Answered(s, k, kind) : kind \in kinds}

\* connect, then _request.  Without a route to a server that proves itself
\* there is no socket; a dial is a TLS handshake or the attempt at one.
Attempt(s, k, reach, kinds) ==
  IF s.open THEN Request(s, k, kinds)
  ELSE {[r EXCEPT !.dials = 1] :
          r \in IF reach THEN Request(Fresh, k, kinds)
                ELSE {Outcome("OSError", None, Closed, 0)}}

\* Mutant: only a failed read closes the socket.
SettledKept(r) == IF r.how = "OSError" THEN [r EXCEPT !.sock = Closed] ELSE r

\* Every exception closes the socket: what it still holds is nobody's answer.
Settled(r) == IF r.how \in Errors THEN [r EXCEPT !.sock = Closed] ELSE r

\* An OSError on a socket that was kept alive is retried once on a new one.
Get(s, k, reach, kinds) ==
  UNION {IF s.open /\ r.how = "OSError"
         THEN {[Settled(q) EXCEPT !.faults = @ + r.faults] :
                 q \in Attempt(Closed, k, reach, kinds)}
         ELSE {Settled(r)} :
           r \in Attempt(s, k, reach, kinds)}

=============================================================================

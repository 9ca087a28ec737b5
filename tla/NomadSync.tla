------------------------------ MODULE NomadSync ------------------------------
(***************************************************************************)
(* The upload of a machine's transcripts to a self-hosted server,          *)
(* nomad/clients/ccstats-sync.sh and the /ingest/ route of                 *)
(* nomad/server/ingest-receiver.py.  Every run sends, directory by         *)
(* directory, what is newer than the stamp of the last run in which        *)
(* nothing failed.                                                         *)
(*                                                                         *)
(* A version of a transcript is its modification time; 0 is a file that is *)
(* not there, or of which an interrupted extraction left a part.  The      *)
(* stamp file and the transcripts are on one file system, whose times are  *)
(* taken to be distinct.                                                   *)
(***************************************************************************)
EXTENDS Integers

CONSTANTS
  Transcripts,
  Directories,
  DirectoryOf   \* DirectoryOf[f]: the project directory of transcript f

ASSUME SyncAssumption == DirectoryOf \in [Transcripts -> Directories]

VARIABLES
  mtime,    \* the latest modification time on the client
  files,    \* files[f]: the version on the client
  server,   \* server[f]: the version in the home directory on the server
  stamp,    \* the time of the stamp file; 0 without one
  locked,   \* the lock directory exists
  sync      \* the run: [on, newstamp, todo, batch, fail]; off between runs

syncVars == <<mtime, files, server, stamp, locked, sync>>

Off == [on |-> FALSE, newstamp |-> 0, todo |-> {}, batch |-> {}, fail |-> FALSE]

SyncInit ==
  /\ mtime = 0 /\ files = [f \in Transcripts |-> 0] /\ server = files
  /\ stamp = 0 /\ locked = FALSE /\ sync = Off

\* Claude Code appends to a transcript, or starts it.
Grow(f) ==
  /\ mtime' = mtime + 1
  /\ files' = [files EXCEPT ![f] = mtime']
  /\ UNCHANGED <<server, stamp, locked, sync>>

\* Claude Code's clean-up.
Delete(f) ==
  /\ files[f] # 0 /\ files' = [files EXCEPT ![f] = 0]
  /\ UNCHANGED <<mtime, server, stamp, locked, sync>>

-----------------------------------------------------------------------------

\* The lock is taken, the server answers, the new stamp is made.  A run that
\* finds the lock, or no server, leaves everything as it is.
BeginSync ==
  /\ ~locked /\ locked' = TRUE
  /\ mtime' = mtime + 1
  /\ sync' = [on |-> TRUE, newstamp |-> mtime', todo |-> Directories, batch |-> {}, fail |-> FALSE]
  /\ UNCHANGED <<files, server, stamp>>

\* find in the next directory; without a stamp, all its files.
FindNewer(d) ==
  /\ sync.on /\ sync.batch = {} /\ d \in sync.todo
  /\ sync' = [sync EXCEPT !.todo = @ \ {d},
                !.batch = {f \in Transcripts : DirectoryOf[f] = d /\ files[f] > stamp}]
  /\ UNCHANGED <<mtime, files, server, stamp, locked>>

\* tar reads what the files are now, the server extracts it in place, and the
\* client knows.  tar fails if one is gone.
SendBatch ==
  /\ sync.batch # {} /\ \A f \in sync.batch : files[f] # 0
  /\ server' = [f \in Transcripts |-> IF f \in sync.batch THEN files[f] ELSE server[f]]
  /\ sync' = [sync EXCEPT !.batch = {}]
  /\ UNCHANGED <<mtime, files, stamp, locked>>

\* The connection or tar fails, or the answer is lost: some of the files have
\* arrived, one of them perhaps not to its end.
SendBroken(arrived, cut) ==
  /\ sync.batch # {} /\ arrived \subseteq sync.batch /\ cut \subseteq sync.batch
  /\ \A f \in arrived : files[f] # 0
  /\ server' = [f \in Transcripts |-> IF f \in cut THEN 0 ELSE IF f \in arrived THEN files[f] ELSE server[f]]
  /\ sync' = [sync EXCEPT !.batch = {}, !.fail = TRUE]
  /\ UNCHANGED <<mtime, files, stamp, locked>>

\* Mutant: the stamp is made when the run is over.
StampAtEnd == IF sync.fail THEN stamp ELSE mtime + 1

\* The new stamp counts if nothing failed.
StampAfter == IF sync.fail THEN stamp ELSE sync.newstamp

EndSync ==
  /\ sync.on /\ sync.todo = {} /\ sync.batch = {}
  /\ stamp' = StampAfter
  /\ sync' = Off /\ locked' = FALSE
  /\ UNCHANGED <<mtime, files, server>>

\* A signal runs the EXIT trap; a power failure, or SIGKILL, does not, and
\* every later run skips until somebody removes the lock directory.
SyncKilled(trapped) ==
  /\ sync.on /\ sync' = Off
  /\ locked' = ~trapped
  /\ UNCHANGED <<mtime, files, server, stamp>>

Unlock ==
  /\ locked /\ ~sync.on /\ locked' = FALSE
  /\ UNCHANGED <<mtime, files, server, stamp, sync>>

SyncNext ==
  \/ \E f \in Transcripts : Grow(f) \/ Delete(f)
  \/ BeginSync \/ EndSync \/ SendBatch \/ Unlock
  \/ \E d \in Directories : FindNewer(d)
  \/ \E arrived, cut \in SUBSET Transcripts : SendBroken(arrived, cut)
  \/ \E trapped \in BOOLEAN : SyncKilled(trapped)

SyncSpec == SyncInit /\ [][SyncNext]_syncVars

-----------------------------------------------------------------------------
\* No transcript misses the sync: one that is not newer than the stamp, which
\* no later run looks at again, is on the server as it is on the client,
\* whatever was written, cut off, lost or killed while the runs went on.
StampIsSafe ==
  \A f \in Transcripts : files[f] # 0 /\ files[f] <= stamp => server[f] = files[f]
=============================================================================

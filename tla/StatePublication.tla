-------------------------- MODULE StatePublication --------------------------
(***************************************************************************)
(* How the session supervisor publishes state.json, call by call: the      *)
(* supervisor and its heartbeat subshell both run write_shared_state, and  *)
(* as $$ is the same in both they use one temporary file.  The supervisor  *)
(* kills the heartbeat when the client has ended, but not the `mv` that    *)
(* the heartbeat may just have started.                                    *)
(*                                                                         *)
(* A file is an inode: a rename gives the other name to an inode that      *)
(* someone may still be writing to.                                        *)
(***************************************************************************)
EXTENDS Naturals

CONSTANTS
  Inode,    \* the inodes of the file system that holds state.json
  None      \* no inode: the name does not exist, the file is not open

ASSUME InodeAssumption == None \notin Inode

VARIABLES
  main,      \* where the supervisor is
  last,      \* the state of its latest publication
  published, \* whether that publication has succeeded
  hb,        \* where the heartbeat subshell is
  orphan,    \* whether a killed heartbeat has left its `mv` running
  client,    \* the client process
  tmp, shared,      \* the inodes of the two names
  content,          \* what each inode holds, a state or nothing
  mainFd, hbFd,     \* the inodes the two processes have open for writing
  skipped,   \* history: a publication of the supervisor's has failed
  seen       \* history: the latest state a reader has seen in state.json
             \* before that

files == <<tmp, shared, content>>
mainVars == <<main, last, published, mainFd>>
hbVars == <<hb, hbFd>>
publicationVars == <<mainVars, hbVars, orphan, client, files, skipped, seen>>

Contents == {"empty", "starting", "running", "failed", "degraded", "stopped"}

\* What a reader of state.json finds.
View == IF shared = None THEN "none" ELSE content[shared]

PublicationInit ==
  /\ main = "settled"
  /\ last = "none"
  /\ published = TRUE
  /\ hb = "none"
  /\ orphan = FALSE
  /\ client = "none"
  /\ tmp = None
  /\ shared = None
  /\ content = [i \in Inode |-> "empty"]
  /\ mainFd = None
  /\ hbFd = None
  /\ skipped = FALSE
  /\ seen = "none"

(***************************************************************************)
(* The system calls.                                                       *)
(***************************************************************************)
\* `> "$tmp"`: an existing file is truncated, another one is created.
OpenTmp(i) ==
  /\ IF tmp = None THEN i \in Inode \ {shared, mainFd, hbFd} ELSE i = tmp
  /\ tmp' = i
  /\ content' = [content EXCEPT ![i] = "empty"]
  /\ UNCHANGED shared

WriteTo(i, state) ==
  /\ content' = [content EXCEPT ![i] = state]
  /\ UNCHANGED <<tmp, shared>>

RenameTmp ==
  /\ tmp # None
  /\ shared' = tmp
  /\ tmp' = None
  /\ UNCHANGED content

(***************************************************************************)
(* The supervisor's loop: it begins the next publication when it has come  *)
(* to it, and between two publications it starts the client, waits for it, *)
(* and takes the heartbeat down.                                           *)
(***************************************************************************)
Begin(state) ==
  /\ main' = "open"
  /\ last' = state
  /\ published' = FALSE
  /\ UNCHANGED <<mainFd, hbVars, orphan, files>>

NoGraphics ==
  /\ main = "settled" /\ last = "none"
  /\ Begin("degraded")
  /\ UNCHANGED client

BeginSession ==
  /\ main = "settled" /\ last \in {"none", "failed"}
  /\ Begin("starting")
  /\ client' = "none"

ForkClient ==
  /\ main = "settled" /\ last = "starting" /\ client = "none"
  /\ client' = "alive"
  /\ UNCHANGED <<mainVars, hbVars, orphan, files>>

SessionRunning ==
  /\ main = "settled" /\ last = "starting" /\ client # "none"
  /\ Begin("running")
  /\ UNCHANGED client

StartHeartbeat ==
  /\ main = "settled" /\ last = "running"
  /\ main' = "waiting"
  /\ hb' = "sleep"
  /\ UNCHANGED <<last, published, mainFd, hbFd, orphan, client, files>>

\* Mutant: the heartbeat is waited for before the client.
ReapClientAfterHeartbeat ==
  /\ main = "waiting" /\ client = "dead" /\ hb = "none"
  /\ main' = "killing"
  /\ client' = "reaped"
  /\ UNCHANGED <<last, published, mainFd, hbVars, orphan, files>>

ReapClient ==
  /\ main = "waiting" /\ client = "dead"
  /\ main' = "killing"
  /\ client' = "reaped"
  /\ UNCHANGED <<last, published, mainFd, hbVars, orphan, files>>

\* Mutant: the heartbeat is left to find out for itself.
KillNothing ==
  /\ main = "killing"
  /\ main' = "ended"
  /\ UNCHANGED <<last, published, mainFd, hbVars, orphan, client, files>>

\* kill and wait: the subshell is gone, the command it was running is not.
KillHeartbeat ==
  /\ main = "killing"
  /\ main' = "ended"
  /\ hb' = "none"
  /\ hbFd' = None
  /\ orphan' = (orphan \/ hb = "rename")
  /\ UNCHANGED <<last, published, mainFd, client, files>>

SessionEnds ==
  /\ main = "ended"
  /\ \E state \in {"failed", "stopped"} : Begin(state)
  /\ UNCHANGED client

Degrade ==
  /\ main = "settled" /\ last = "failed"
  /\ Begin("degraded")
  /\ UNCHANGED client

(***************************************************************************)
(* write_shared_state in the supervisor.                                   *)
(***************************************************************************)
OpenState ==
  /\ main = "open"
  /\ \E i \in Inode : OpenTmp(i) /\ mainFd' = i
  /\ main' = "write"
  /\ UNCHANGED <<last, published, hbVars, orphan, client>>

WriteState ==
  /\ main = "write"
  /\ WriteTo(mainFd, last)
  /\ mainFd' = None
  /\ main' = "rename"
  /\ UNCHANGED <<last, published, hbVars, orphan, client>>

\* `|| return 0`: the file could not be created, or not be written.
PublicationFails ==
  /\ main \in {"open", "write"}
  /\ mainFd' = None
  /\ main' = "settled"
  /\ skipped' = TRUE
  /\ UNCHANGED <<last, published, hbVars, orphan, client, files>>

RenameState ==
  /\ main = "rename"
  /\ RenameTmp
  /\ main' = "settled"
  /\ published' = TRUE
  /\ UNCHANGED <<last, mainFd, hbVars, orphan, client>>

\* The temporary file is gone, for the heartbeat's `mv` has renamed it:
\* `rm -f` has nothing to remove.
StateRenamedByOrphan ==
  /\ main = "rename"
  /\ tmp = None
  /\ main' = "settled"
  /\ published' = TRUE
  /\ UNCHANGED <<last, mainFd, hbVars, orphan, client, files>>

(***************************************************************************)
(* heartbeat_loop.  A client that has died is still there for `kill -0`    *)
(* until the supervisor has waited for it.  A heartbeat sleeps first, so   *)
(* long that the `mv` of an earlier one is over.                           *)
(***************************************************************************)
Beat(from, to) ==
  /\ hb = from
  /\ hb' = to
  /\ UNCHANGED <<mainVars, orphan, client>>

HeartbeatWakes ==
  /\ ~orphan
  /\ client # "reaped"
  /\ Beat("sleep", "open")
  /\ UNCHANGED <<hbFd, files>>

HeartbeatEnds ==
  /\ client = "reaped"
  /\ Beat("sleep", "none")
  /\ UNCHANGED <<hbFd, files>>

HeartbeatOpens ==
  /\ Beat("open", "write")
  /\ \E i \in Inode : OpenTmp(i) /\ hbFd' = i

HeartbeatWrites ==
  /\ Beat("write", "rename")
  /\ WriteTo(hbFd, "running")
  /\ hbFd' = None

HeartbeatWriteFails ==
  /\ Beat("open", "sleep") \/ Beat("write", "sleep")
  /\ hbFd' = None
  /\ UNCHANGED files

HeartbeatRenames ==
  /\ Beat("rename", "sleep")
  /\ RenameTmp
  /\ UNCHANGED hbFd

\* Mutant: the heartbeat has a temporary file of its own.
OrphanRenamesOwnFile ==
  /\ orphan
  /\ orphan' = FALSE
  /\ \E i \in Inode \ {tmp, shared, mainFd} :
       content' = [content EXCEPT ![i] = "running"] /\ shared' = i
  /\ UNCHANGED <<mainVars, hbVars, client, tmp>>

\* The `mv` of a heartbeat that was killed while it ran.
OrphanRenames ==
  /\ orphan
  /\ orphan' = FALSE
  /\ RenameTmp \/ (tmp = None /\ UNCHANGED files)
  /\ UNCHANGED <<mainVars, hbVars, client>>

ClientDies ==
  /\ client = "alive"
  /\ client' = "dead"
  /\ UNCHANGED <<mainVars, hbVars, orphan, files>>

-----------------------------------------------------------------------------
Supervisor ==
  \/ NoGraphics \/ BeginSession \/ ForkClient \/ SessionRunning
  \/ StartHeartbeat \/ ReapClient \/ KillHeartbeat \/ SessionEnds \/ Degrade
  \/ OpenState \/ WriteState \/ RenameState \/ StateRenamedByOrphan

Heartbeat ==
  \/ HeartbeatWakes \/ HeartbeatEnds \/ HeartbeatOpens \/ HeartbeatWrites
  \/ HeartbeatWriteFails \/ HeartbeatRenames

\* What a reader sees, who skips a file that cannot be parsed.
Observe == seen' = IF skipped' \/ View' \in {"none", "empty"} THEN seen ELSE View'

SupervisorStep == ((Supervisor /\ UNCHANGED skipped) \/ PublicationFails) /\ Observe

PublicationNext ==
  \/ SupervisorStep
  \/ (Heartbeat \/ OrphanRenames \/ ClientDies) /\ UNCHANGED skipped /\ Observe

PublicationSpec == PublicationInit /\ [][PublicationNext]_publicationVars

\* The supervisor runs on: no step of its own waits for another process but
\* the one that waits for the client.
FairSpec == PublicationSpec /\ WF_publicationVars(SupervisorStep)

-----------------------------------------------------------------------------
\* The types of the variables: only states that readers know are published.
PublicationTypeOK ==
  /\ main \in {"settled", "open", "write", "rename", "waiting", "killing", "ended"}
  /\ last \in {"none", "starting", "running", "failed", "degraded", "stopped"}
  /\ published \in BOOLEAN
  /\ hb \in {"none", "sleep", "open", "write", "rename"}
  /\ orphan \in BOOLEAN
  /\ client \in {"none", "alive", "dead", "reaped"}
  /\ tmp \in Inode \cup {None}
  /\ shared \in Inode \cup {None}
  /\ content \in [Inode -> Contents]
  /\ mainFd \in Inode \cup {None}
  /\ hbFd \in Inode \cup {None}
  /\ skipped \in BOOLEAN
  /\ seen \in {"none", "starting", "running", "failed", "degraded", "stopped"}

\* The supervisor is between two publications.
Settled == main \in {"settled", "waiting", "killing", "ended"}

(***************************************************************************)
(* Whatever the heartbeat was doing when it was killed, a publication that *)
(* has succeeded is what readers find until the next one begins: no late   *)
(* `running` takes the place of a failure.                                 *)
(***************************************************************************)
LastPublicationStays == Settled /\ published => View = last

Promised == INSTANCE SessionStates WITH shown <- seen

(***************************************************************************)
(* Readers that skip a file they cannot parse see the states of a session  *)
(* in their order, through every interleaving of the two processes and     *)
(* until the supervisor cannot write one.                                  *)
(***************************************************************************)
ReadersFollowSession == Promised!Spec

(***************************************************************************)
(* A client that has died is not shown as running for ever, if the         *)
(* supervisor can write its publications.                                  *)
(***************************************************************************)
DeathIsPublished == client = "dead" ~> View \in {"failed", "stopped"} \/ skipped

=============================================================================

------------------------------ MODULE StartLock ------------------------------
(****************************************************************************)
(* The lock file that serialises `knaif daemon start` (StartLock in         *)
(* apps/cli/src/daemon.rs): daemon.lock, created exclusively, taken over by *)
(* moving it aside once it is older than LOCK_STALE, removed by its holder  *)
(* if it still carries the holder's id.                                     *)
(*                                                                          *)
(* A starter is one process running one `start`.  The file a starter        *)
(* creates is named by the starter, so a file keeps its identity when it is *)
(* renamed or linked back, and the id written in it is its name too.        *)
(* Age is not counted: a file is stale once more than LOCK_STALE seconds    *)
(* have passed since it was written.                                        *)
(****************************************************************************)
EXTENDS Naturals, FiniteSets

CONSTANTS
  Starters,      \* the processes that run `start`
  NoFile,        \* no file under a name
  Crashers,      \* the starters that may die at any point
  SlowHolders    \* whether a live holder may outlast LOCK_STALE

ASSUME StartersAssumption ==
  /\ IsFiniteSet(Starters)
  /\ NoFile \notin Starters
  /\ Crashers \subseteq Starters
  /\ SlowHolders \in BOOLEAN

VARIABLES
  lpc,      \* where each starter is in acquire / drop
  path,     \* the file under the name daemon.lock
  tomb,     \* the file under daemon.lock.<pid>.stale of each starter
  written,  \* whether a starter's file carries its id
  stale,    \* whether a starter's file is older than LOCK_STALE
  met       \* the lock each starter found when it began to wait

lockVars == <<lpc, path, tomb, written, stale, met>>

Waiting(p) == lpc[p] \in {"try", "move", "moved"}

\* The starter is between create_new and the end of drop.
Holding(p) == lpc[p] \in {"created", "held", "drop"}

\* The starter has returned, or its process is gone.
Over(p) == lpc[p] \in {"released", "gaveup", "dead"}

\* Starter f's file exists under one of the names.
Exists(f) == path = f \/ \E q \in Starters : tomb[q] = f

LockInit ==
  /\ lpc = [p \in Starters |-> "idle"]
  /\ path = NoFile
  /\ tomb = [p \in Starters |-> NoFile]
  /\ written = [p \in Starters |-> FALSE]
  /\ stale = [p \in Starters |-> FALSE]
  /\ met = [p \in Starters |-> NoFile]

----------------------------------------------------------------------------
(* acquire *)

BeginWait(p) ==
  /\ lpc[p] = "idle"
  /\ lpc' = [lpc EXCEPT ![p] = "try"]
  /\ met' = [met EXCEPT ![p] = path]
  /\ UNCHANGED <<path, tomb, written, stale>>

CreateOver(p) ==
  /\ lpc[p] = "try"
  /\ path' = p
  /\ lpc' = [lpc EXCEPT ![p] = "created"]
  /\ UNCHANGED <<tomb, written, stale, met>>

\* create_new succeeds: exactly one of several starters gets here for a free name.
CreateLock(p) ==
  /\ lpc[p] = "try"
  /\ path = NoFile
  /\ path' = p
  /\ lpc' = [lpc EXCEPT ![p] = "created"]
  /\ UNCHANGED <<tomb, written, stale, met>>

\* The id is written after the file exists; a failed write is ignored.
WriteId(p) ==
  /\ lpc[p] = "created"
  /\ \E ok \in BOOLEAN : written' = [written EXCEPT ![p] = ok]
  /\ lpc' = [lpc EXCEPT ![p] = "held"]
  /\ UNCHANGED <<path, tomb, stale, met>>

LookOnly(p) == FALSE

\* create_new reports AlreadyExists and the file's age is past LOCK_STALE.
LookStale(p) ==
  /\ lpc[p] = "try"
  /\ path # NoFile
  /\ stale[path]
  /\ lpc' = [lpc EXCEPT ![p] = "move"]
  /\ UNCHANGED <<path, tomb, written, stale, met>>

MoveUnchecked(p) ==
  /\ lpc[p] = "move"
  /\ tomb' = [tomb EXCEPT ![p] = path]
  /\ path' = NoFile
  /\ lpc' = [lpc EXCEPT ![p] = "moved"]
  /\ UNCHANGED <<written, stale, met>>

\* The rename to the starter's own tomb; it moves whatever has the name by now.
MoveAside(p) ==
  /\ lpc[p] = "move"
  /\ IF path = NoFile
       THEN /\ lpc' = [lpc EXCEPT ![p] = "try"]
            /\ UNCHANGED <<path, tomb>>
       ELSE /\ tomb' = [tomb EXCEPT ![p] = path]
            /\ path' = NoFile
            /\ lpc' = [lpc EXCEPT ![p] = "moved"]
  /\ UNCHANGED <<written, stale, met>>

BuryAny(p) ==
  /\ lpc[p] = "moved"
  /\ tomb' = [tomb EXCEPT ![p] = NoFile]
  /\ lpc' = [lpc EXCEPT ![p] = "try"]
  /\ UNCHANGED <<path, written, stale, met>>

\* A fresh file is linked back (the link fails if the name is taken again); then
\* the tomb is unlinked.  One step: nobody but p looks at p's tomb.
Bury(p) ==
  /\ lpc[p] = "moved"
  /\ path' = IF ~stale[tomb[p]] /\ path = NoFile THEN tomb[p] ELSE path
  /\ tomb' = [tomb EXCEPT ![p] = NoFile]
  /\ lpc' = [lpc EXCEPT ![p] = "try"]
  /\ UNCHANGED <<written, stale, met>>

\* The starter's own 150 seconds are over and the lock in place is not stale.  It
\* is then younger than the starter's wait, so not the one found at the start.
GiveUp(p) ==
  /\ lpc[p] = "try"
  /\ path \notin {NoFile, met[p]}
  /\ ~stale[path]
  /\ lpc' = [lpc EXCEPT ![p] = "gaveup"]
  /\ UNCHANGED <<path, tomb, written, stale, met>>

----------------------------------------------------------------------------
(* Drop *)

\* read_to_string(path) == id, or the file stays.
DropCheck(p) ==
  /\ lpc[p] = "held"
  /\ lpc' = [lpc EXCEPT ![p] = IF path = p /\ written[p] THEN "drop" ELSE "released"]
  /\ UNCHANGED <<path, tomb, written, stale, met>>

\* remove_file(path): whatever has the name by now.
DropUnlink(p) ==
  /\ lpc[p] = "drop"
  /\ path' = NoFile
  /\ lpc' = [lpc EXCEPT ![p] = "released"]
  /\ UNCHANGED <<tomb, written, stale, met>>

----------------------------------------------------------------------------
(* The environment *)

\* More than LOCK_STALE seconds pass over a file.  A live holder's file gets that
\* old only if a start can outlast LOCK_STALE.
Age(f) ==
  /\ Exists(f)
  /\ ~stale[f]
  /\ Over(f) \/ SlowHolders
  /\ stale' = [stale EXCEPT ![f] = TRUE]
  /\ UNCHANGED <<lpc, path, tomb, written, met>>

Crash(p) ==
  /\ p \in Crashers
  /\ ~Over(p)
  /\ lpc' = [lpc EXCEPT ![p] = "dead"]
  /\ UNCHANGED <<path, tomb, written, stale, met>>

Acquire(p) ==
  \/ CreateLock(p) \/ WriteId(p)
  \/ LookStale(p) \/ MoveAside(p) \/ Bury(p) \/ GiveUp(p)

Release(p) == DropCheck(p) \/ DropUnlink(p)

LockNext ==
  \E p \in Starters :
    BeginWait(p) \/ Acquire(p) \/ Release(p) \/ Age(p) \/ Crash(p)

\* A starter's own loop runs, a critical section ends and time passes; nobody has
\* to start, and nobody has to crash.
LockFairness ==
  \A p \in Starters :
    /\ WF_lockVars(Acquire(p))
    /\ WF_lockVars(Release(p))
    /\ WF_lockVars(Age(p))

LockSpec == LockInit /\ [][LockNext]_lockVars

LiveLockSpec == LockSpec /\ LockFairness

----------------------------------------------------------------------------
(* Properties *)

LockPhases == {"idle", "try", "move", "moved", "created", "held", "drop",
               "released", "gaveup", "dead"}

\* Every name holds a file some starter made, or nothing, and a starter that has
\* moved a lock aside has one to look at.
LockTypeOK ==
  /\ lpc \in [Starters -> LockPhases]
  /\ path \in Starters \cup {NoFile}
  /\ tomb \in [Starters -> Starters \cup {NoFile}]
  /\ written \in [Starters -> BOOLEAN]
  /\ stale \in [Starters -> BOOLEAN]
  /\ met \in [Starters -> Starters \cup {NoFile}]
  /\ \A p \in Starters : lpc[p] = "moved" => tomb[p] # NoFile

\* "Exclusive right to start a daemon": two starts never both believe they hold
\* daemon.lock, whatever the takeovers of dead starters' locks do in between.
MutualExclusion ==
  \A p, q \in Starters : Holding(p) /\ Holding(q) => p = q

\* A live holder's lock is never deleted by somebody else: it has its name, or a
\* contender that moved it aside is about to put it back.
LiveLockKept == \A p \in Starters : Holding(p) => Exists(p)

\* A start that waits for the lock ends its wait, even when the holder died: a dead
\* starter's lock is taken over, and no takeover loops for ever.
EachWaitEnds == \A p \in Starters : Waiting(p) ~> ~Waiting(p)

=============================================================================

--------------------------- MODULE DaemonLifecycle ---------------------------
(****************************************************************************)
(* The life of the model daemon across the processes that share the state   *)
(* folder: the record daemon.json, the start lock, the daemon processes     *)
(* that load a model, publish a record, serve and retire, and the commands  *)
(* that probe, start, stop and use them (apps/cli/src/daemon.rs, and        *)
(* ensure_daemon, serve_daemon and PlanSession in apps/cli/src/main.rs).    *)
(*                                                                          *)
(* A daemon is named by the order in which it was spawned; its token, which *)
(* is unique per instance, is its name.  An authenticated call is one step  *)
(* of the daemon that answers it: it serves one connection at a time.  A    *)
(* deadline may pass whenever the code is waiting on something that has not *)
(* happened yet.                                                            *)
(****************************************************************************)
EXTENDS StartLock

CONSTANTS
  Stoppers,      \* processes running `knaif daemon stop`
  Runners,       \* processes running a plan against a resident model
  MaxDaemons,    \* bound: daemon processes ever spawned
  Settings,      \* values of (build, model, settings fingerprint)
  Wants,         \* the settings each starter and runner computes for itself
  Mortal,        \* the clients and daemons that may die at any point
  Faltering      \* the clients whose call may break although the daemon lives

Daemons == 1 .. MaxDaemons
NoDaemon == 0
Clients == Starters \cup Stoppers \cup Runners

ASSUME LifecycleAssumption ==
  /\ MaxDaemons \in Nat \ {0}
  /\ Settings # {}
  /\ Wants \in [Starters \cup Runners -> Settings]
  /\ Clients \cap Daemons = {}
  /\ Stoppers \cap (Starters \cup Runners) = {}
  /\ Starters \cap Runners = {}
  /\ Mortal \subseteq Clients \cup Daemons
  /\ Faltering \subseteq Clients

\* The time limits of the code, in seconds, and the longest one call can take.
ConnectTimeout == 2
ControlTimeout == 10
StopWait == 15
StartDeadline == 120
LockStaleAge == 150
CallMax == ConnectTimeout + ControlTimeout

VARIABLES
  record,     \* the daemon named by daemon.json, or NoDaemon
  aside,      \* the record each process has moved to daemon.json.<pid>.gone
  phase,      \* where each daemon process is
  cfg,        \* the settings each daemon was loaded with
  op,         \* the function each client is in
  at,         \* where it is there, or how its command ended
  tgt,        \* the daemon of the record it read last
  child,      \* the daemon each starter spawned
  spent       \* the most seconds a start can have held the lock, its poll apart

recordVars == <<record, aside>>
daemonVars == <<phase, cfg>>
clientVars == <<op, at, tgt, child, spent>>
vars == <<lockVars, recordVars, daemonVars, clientVars>>

\* The daemon accepts connections.
Listening(d) == phase[d] \in {"serving", "busy"}

\* The process exists and holds (or is loading) its model.
Resident(d) == phase[d] \in {"loading", "serving", "busy", "closed"}

Finished(c) == at[c] \in {"ok", "absent", "failed", "local", "dead"}

Init ==
  /\ LockInit
  /\ \E running \in BOOLEAN, s \in Settings :
       /\ record = IF running THEN 1 ELSE NoDaemon
       /\ phase = [d \in Daemons |-> IF running /\ d = 1 THEN "serving" ELSE "unborn"]
       /\ cfg = [d \in Daemons |-> s]
  /\ aside = [p \in Clients \cup Daemons |-> NoDaemon]
  /\ op = [c \in Clients |-> IF c \in Stoppers THEN "stop" ELSE "connect"]
  /\ at = [c \in Clients |-> "read"]
  /\ tgt = [c \in Clients |-> NoDaemon]
  /\ child = [c \in Starters |-> NoDaemon]
  /\ spent = [c \in Starters |-> 0]

----------------------------------------------------------------------------
(* remove_info_if: move the record aside, look at it, put it back or not *)

TakeRecord(p) ==
  /\ record # NoDaemon
  /\ aside' = [aside EXCEPT ![p] = record]
  /\ record' = NoDaemon

\* hard_link fails if a newer record has appeared; the aside name goes either way.
PutBack(p, d) ==
  /\ record' = IF aside[p] # d /\ record = NoDaemon THEN aside[p] ELSE record
  /\ aside' = [aside EXCEPT ![p] = NoDaemon]

----------------------------------------------------------------------------
(* The daemon process: serve_daemon, bind, serve, retire *)

\* backend_for has loaded the model; bind writes the record over whatever is there.
Publish(d) ==
  /\ phase[d] = "loading"
  /\ phase' = [phase EXCEPT ![d] = "serving"]
  /\ record' = d
  /\ UNCHANGED <<lockVars, clientVars, aside, cfg>>

LoadFails(d) ==
  /\ phase[d] = "loading"
  /\ phase' = [phase EXCEPT ![d] = "exited"]
  /\ UNCHANGED <<lockVars, clientVars, recordVars, cfg>>

LeaveIfRecorded(d) ==
  /\ phase[d] = "serving"
  /\ record = d
  /\ phase' = [phase EXCEPT ![d] = "closed"]
  /\ UNCHANGED <<lockVars, clientVars, recordVars, cfg>>

\* The idle time is over, or accept failed: serve returns and its listener closes.
Leave(d) ==
  /\ phase[d] = "serving"
  /\ phase' = [phase EXCEPT ![d] = "closed"]
  /\ UNCHANGED <<lockVars, clientVars, recordVars, cfg>>

\* drop(backend)
Free(d) ==
  /\ phase[d] = "closed"
  /\ phase' = [phase EXCEPT ![d] = "freed"]
  /\ UNCHANGED <<lockVars, clientVars, recordVars, cfg>>

\* retire, first half; with no record to move it returns and the process exits.
RetireTake(d) ==
  /\ phase[d] = "freed"
  /\ IF record = NoDaemon
       THEN /\ phase' = [phase EXCEPT ![d] = "exited"]
            /\ UNCHANGED recordVars
       ELSE /\ TakeRecord(d)
            /\ phase' = [phase EXCEPT ![d] = "retiring"]
  /\ UNCHANGED <<lockVars, clientVars, cfg>>

RetirePut(d) ==
  /\ phase[d] = "retiring"
  /\ PutBack(d, d)
  /\ phase' = [phase EXCEPT ![d] = "exited"]
  /\ UNCHANGED <<lockVars, clientVars, cfg>>

DaemonDies(d) ==
  /\ d \in Mortal
  /\ phase[d] \notin {"unborn", "exited"}
  /\ phase' = [phase EXCEPT ![d] = "exited"]
  /\ UNCHANGED <<lockVars, clientVars, recordVars, cfg>>

----------------------------------------------------------------------------
(* call: what a client learns from the daemon named by the record it read *)

\* Where a client goes when no daemon answers: query gives None, probe Absent,
\* stop Ok(false).
IfAbsent(c) ==
  CASE op[c] = "connect" -> IF c \in Starters THEN "lock" ELSE "local"
    [] op[c] = "stop"    -> IF c \in Starters THEN "spawn" ELSE "absent"
    [] op[c] = "probe"   -> "spawn"
    [] op[c] = "poll"    -> "check"

\* Where it goes when the call timed out: query gives None, stop and start fail.
IfBusy(c) == IF op[c] \in {"stop", "probe"} THEN "failed" ELSE IfAbsent(c)

Goto(c, place) == at' = [at EXCEPT ![c] = place]

\* A start that holds the lock has waited up to n seconds more.
Spend(c, n) ==
  spent' = IF c \in Starters /\ op[c] \in {"probe", "stop"}
             THEN [spent EXCEPT ![c] = @ + n] ELSE spent

\* The same build, model and settings fingerprint.
Matches(d, c) == cfg[d] = Wants[c]

\* read_info
ReadRecord(c) ==
  /\ at[c] = "read"
  /\ tgt' = [tgt EXCEPT ![c] = record]
  /\ Goto(c, IF record = NoDaemon THEN IfAbsent(c) ELSE "call")
  /\ UNCHANGED <<lockVars, recordVars, daemonVars, op, child, spent>>

Calls(c, d, f) == at[c] = "call" /\ tgt[c] = d /\ op[c] = f

\* query answered: connect borrows a daemon that matches.
ConnectAnswered(c, d) ==
  /\ Calls(c, d, "connect")
  /\ phase[d] = "serving"
  /\ Goto(c, CASE ~Matches(d, c)    -> IfAbsent(c)
               [] c \in Starters    -> "ok"
               [] OTHER             -> "generate")
  /\ UNCHANGED <<lockVars, recordVars, daemonVars, op, tgt, child, spent>>

\* start, under the lock: a matching daemon is left alone, another is stopped first.
ProbeAnswered(c, d) ==
  /\ Calls(c, d, "probe")
  /\ phase[d] = "serving"
  /\ IF Matches(d, c)
       THEN Goto(c, "ok") /\ UNCHANGED op
       ELSE /\ Goto(c, "read")
            /\ op' = [op EXCEPT ![c] = "stop"]
  /\ Spend(c, CallMax)
  /\ UNCHANGED <<lockVars, recordVars, daemonVars, tgt, child>>

\* start waits for the daemon it spawned, not for any other.
PollAnswered(c, d) ==
  /\ Calls(c, d, "poll")
  /\ phase[d] = "serving"
  /\ Goto(c, IF d = child[c] THEN "ok" ELSE "check")
  /\ UNCHANGED <<lockVars, recordVars, daemonVars, op, tgt, child, spent>>

\* The daemon leaves its loop.  The client may have stopped listening for the
\* reply: it then reports the daemon as busy.
StopAnswered(c, d) ==
  /\ Calls(c, d, "stop")
  /\ phase[d] = "serving"
  /\ phase' = [phase EXCEPT ![d] = "closed"]
  /\ \E late \in BOOLEAN : Goto(c, IF late THEN IfBusy(c) ELSE "await")
  /\ Spend(c, CallMax)
  /\ UNCHANGED <<lockVars, recordVars, cfg, op, tgt, child>>

TimeoutIsDead(c) ==
  /\ at[c] = "call"
  /\ Listening(tgt[c])
  /\ Goto(c, "discard")
  /\ Spend(c, CallMax)
  /\ UNCHANGED <<lockVars, recordVars, daemonVars, op, tgt, child>>

\* TimedOut: the daemon is generating, or held by connections ahead of this one.
CallTimesOut(c) ==
  /\ at[c] = "call"
  /\ Listening(tgt[c])
  /\ Goto(c, IfBusy(c))
  /\ Spend(c, CallMax)
  /\ UNCHANGED <<lockVars, recordVars, daemonVars, op, tgt, child>>

RetryCall(c) ==
  /\ at[c] = "call"
  /\ ~Listening(tgt[c]) \/ c \in Faltering
  /\ Goto(c, "read")
  /\ Spend(c, CallMax)
  /\ UNCHANGED <<lockVars, recordVars, daemonVars, op, tgt, child>>

\* Refused, reset, or a stranger on the port: any error that is not TimedOut.  It
\* happens on a live daemon when the client pauses longer than HANDSHAKE_DEADLINE in
\* the handshake and is hung up on, or when connect_timeout meets a full backlog.
CallFails(c) ==
  /\ at[c] = "call"
  /\ ~Listening(tgt[c]) \/ c \in Faltering
  /\ Goto(c, "discard")
  /\ Spend(c, CallMax)
  /\ UNCHANGED <<lockVars, recordVars, daemonVars, op, tgt, child>>

\* remove_info_if(dir, info.token)
DiscardTake(c) ==
  /\ at[c] = "discard"
  /\ IF record = NoDaemon
       THEN Goto(c, IfAbsent(c)) /\ UNCHANGED recordVars
       ELSE TakeRecord(c) /\ Goto(c, "discarding")
  /\ UNCHANGED <<lockVars, daemonVars, op, tgt, child, spent>>

DiscardPut(c) ==
  /\ at[c] = "discarding"
  /\ PutBack(c, tgt[c])
  /\ Goto(c, IfAbsent(c))
  /\ UNCHANGED <<lockVars, daemonVars, op, tgt, child, spent>>

----------------------------------------------------------------------------
(* stop: the record must go, then the process *)

AwaitGone(c) ==
  /\ at[c] = "await"
  /\ record # tgt[c]
  /\ Goto(c, "reap")
  /\ UNCHANGED <<lockVars, recordVars, daemonVars, op, tgt, child, spent>>

ReapUnwaited(c) ==
  /\ at[c] = "reap"
  /\ Goto(c, IF c \in Starters THEN "spawn" ELSE "ok")
  /\ Spend(c, StopWait)
  /\ UNCHANGED <<lockVars, recordVars, daemonVars, op, tgt, child>>

\* wait_for_exit
Reap(c) ==
  /\ at[c] = "reap"
  /\ phase[tgt[c]] = "exited"
  /\ Goto(c, IF c \in Starters THEN "spawn" ELSE "ok")
  /\ Spend(c, StopWait)
  /\ UNCHANGED <<lockVars, recordVars, daemonVars, op, tgt, child>>

\* The 15 seconds for both waits are over.
StopTimesOut(c) ==
  /\ \/ at[c] = "await" /\ record = tgt[c]
     \/ at[c] = "reap" /\ phase[tgt[c]] # "exited"
  /\ Goto(c, "failed")
  /\ UNCHANGED <<lockVars, recordVars, daemonVars, op, tgt, child, spent>>

----------------------------------------------------------------------------
(* start: the lock, the child, the wait for it *)

StartWaits(c) ==
  /\ at[c] = "lock"
  /\ BeginWait(c)
  /\ UNCHANGED <<recordVars, daemonVars, clientVars>>

LockStep(c) ==
  /\ Acquire(c)
  /\ UNCHANGED <<recordVars, daemonVars, clientVars>>

EnterUnlocked(c) ==
  /\ at[c] = "lock"
  /\ lpc[c] # "idle"
  /\ op' = [op EXCEPT ![c] = "probe"]
  /\ Goto(c, "read")
  /\ UNCHANGED <<lockVars, recordVars, daemonVars, tgt, child, spent>>

\* acquire has returned the lock; start probes again under it.
EnterStart(c) ==
  /\ at[c] = "lock"
  /\ lpc[c] = "held"
  /\ op' = [op EXCEPT ![c] = "probe"]
  /\ Goto(c, "read")
  /\ UNCHANGED <<lockVars, recordVars, daemonVars, tgt, child, spent>>

\* "another knaif is starting the daemon"
LockRefused(c) ==
  /\ at[c] = "lock"
  /\ lpc[c] = "gaveup"
  /\ Goto(c, "failed")
  /\ UNCHANGED <<lockVars, recordVars, daemonVars, op, tgt, child, spent>>

Spawn(c) ==
  /\ at[c] = "spawn"
  /\ \E d \in Daemons :
       /\ phase[d] = "unborn"
       /\ \A e \in Daemons : e < d => phase[e] # "unborn"
       /\ phase' = [phase EXCEPT ![d] = "loading"]
       /\ cfg' = [cfg EXCEPT ![d] = Wants[c]]
       /\ child' = [child EXCEPT ![c] = d]
  /\ op' = [op EXCEPT ![c] = "poll"]
  /\ Goto(c, "read")
  /\ UNCHANGED <<lockVars, recordVars, tgt, spent>>

\* The log cannot be opened or the process cannot be created.
SpawnFails(c) ==
  /\ at[c] = "spawn"
  /\ Goto(c, "failed")
  /\ UNCHANGED <<lockVars, recordVars, daemonVars, op, tgt, child, spent>>

\* try_wait: the child has exited during start-up.
ChildExited(c) ==
  /\ at[c] = "check"
  /\ phase[child[c]] = "exited"
  /\ Goto(c, "failed")
  /\ UNCHANGED <<lockVars, recordVars, daemonVars, op, tgt, child, spent>>

PollAgain(c) ==
  /\ at[c] = "check"
  /\ phase[child[c]] # "exited"
  /\ Goto(c, "read")
  /\ UNCHANGED <<lockVars, recordVars, daemonVars, op, tgt, child, spent>>

AbandonChild(c) ==
  /\ at[c] = "check"
  /\ phase[child[c]] # "exited"
  /\ Goto(c, "failed")
  /\ UNCHANGED <<lockVars, recordVars, daemonVars, op, tgt, child, spent>>

\* The 120 seconds are over: the child is killed and waited for.
KillChild(c) ==
  /\ at[c] = "check"
  /\ phase[child[c]] # "exited"
  /\ phase' = [phase EXCEPT ![child[c]] = "exited"]
  /\ Goto(c, "failed")
  /\ UNCHANGED <<lockVars, recordVars, cfg, op, tgt, child, spent>>

\* The lock is dropped on every way out of start.
DropLock(c) ==
  /\ Finished(c)
  /\ Release(c)
  /\ UNCHANGED <<recordVars, daemonVars, clientVars>>

\* The start that made this lock may still be polling for its child when the lock
\* is LOCK_STALE old: what it spent before, the poll and its last query add up.
Outlasts(c) ==
  /\ op[c] = "poll"
  /\ spent[c] + StartDeadline + CallMax > LockStaleAge

TimePasses(f) ==
  /\ Over(f) \/ Outlasts(f)
  /\ Age(f)
  /\ UNCHANGED <<recordVars, daemonVars, clientVars>>

----------------------------------------------------------------------------
(* Resident::generate_plan *)

\* The daemon takes the request; it answers nobody else until it is done.
GenerateBegins(c, d) ==
  /\ at[c] = "generate"
  /\ tgt[c] = d
  /\ phase[d] = "serving"
  /\ phase' = [phase EXCEPT ![d] = "busy"]
  /\ Goto(c, "generating")
  /\ UNCHANGED <<lockVars, recordVars, cfg, op, tgt, child, spent>>

\* A plan, or the daemon's own "the model failed": either way an answer.  With no
\* live client left the answer is lost and the daemon serves on.
GenerateEnds(d) ==
  /\ phase[d] = "busy"
  /\ phase' = [phase EXCEPT ![d] = "serving"]
  /\ at' = [c \in Clients |->
              IF at[c] = "generating" /\ tgt[c] = d THEN "ok" ELSE at[c]]
  /\ UNCHANGED <<lockVars, recordVars, cfg, op, tgt, child, spent>>

\* A transport failure: nobody listens, the handshake deadline passes behind
\* another connection, or the daemon dies.  The model is loaded in this process.
GenerateFallsBack(c) ==
  /\ \/ at[c] = "generate"
     \/ at[c] = "generating" /\ phase[tgt[c]] # "busy"
  /\ Goto(c, "local")
  /\ UNCHANGED <<lockVars, recordVars, daemonVars, op, tgt, child, spent>>

\* The process dies; what it had moved aside stays aside.
ClientDies(c) ==
  /\ c \in Mortal
  /\ ~Finished(c)
  /\ Goto(c, "dead")
  /\ lpc' = IF c \in Starters THEN [lpc EXCEPT ![c] = "dead"] ELSE lpc
  /\ UNCHANGED <<path, tomb, written, stale, met, recordVars, daemonVars,
                 op, tgt, child, spent>>

----------------------------------------------------------------------------

Daemon(d) ==
  Publish(d) \/ LoadFails(d) \/ Leave(d) \/ Free(d) \/ RetireTake(d) \/ RetirePut(d)
    \/ GenerateEnds(d)

Call(c) ==
  \/ ReadRecord(c) \/ CallTimesOut(c) \/ CallFails(c)
  \/ DiscardTake(c) \/ DiscardPut(c)
  \/ \E d \in Daemons :
       ConnectAnswered(c, d) \/ ProbeAnswered(c, d) \/ PollAnswered(c, d)
         \/ StopAnswered(c, d)

Stop(c) == AwaitGone(c) \/ Reap(c) \/ StopTimesOut(c)

Start(c) ==
  \/ StartWaits(c) \/ LockStep(c) \/ EnterStart(c) \/ LockRefused(c)
  \/ Spawn(c) \/ SpawnFails(c)
  \/ ChildExited(c) \/ PollAgain(c) \/ KillChild(c) \/ DropLock(c)

Generate(c) ==
  \/ GenerateFallsBack(c)
  \/ \E d \in Daemons : GenerateBegins(c, d)

Next ==
  \/ \E c \in Clients : Call(c) \/ Stop(c) \/ ClientDies(c)
  \/ \E c \in Starters : Start(c) \/ TimePasses(c)
  \/ \E c \in Runners : Generate(c)
  \/ \E d \in Daemons : Daemon(d) \/ DaemonDies(d)

\* Every process that lives runs; generations end, deadlines and idle times pass.
\* A poll loop ends by its deadline, which a loop that keeps polling reaches.
Fairness ==
  /\ \A c \in Clients : WF_vars(Call(c)) /\ WF_vars(Stop(c))
  /\ \A c \in Starters :
       WF_vars(Start(c)) /\ SF_vars(KillChild(c)) /\ WF_vars(TimePasses(c))
  /\ \A c \in Runners : WF_vars(Generate(c))
  /\ \A d \in Daemons :
       /\ WF_vars(Publish(d) \/ LoadFails(d))
       /\ WF_vars(Leave(d))
       /\ WF_vars(Free(d) \/ RetireTake(d) \/ RetirePut(d))
       /\ WF_vars(GenerateEnds(d))

Spec == Init /\ [][Next]_vars

LiveSpec == Spec /\ Fairness

----------------------------------------------------------------------------
(* Properties *)

Phases == {"unborn", "loading", "serving", "busy", "closed", "freed", "retiring", "exited"}

Ops == {"connect", "probe", "stop", "poll"}

Places == {"read", "call", "discard", "discarding", "await", "reap", "lock", "spawn",
           "check", "generate", "generating", "ok", "absent", "failed", "local", "dead"}

\* Every variable keeps its type, a client that is inside a call or a wait has a
\* daemon to talk to, and one that polls has a child.
TypeOK ==
  /\ LockTypeOK
  /\ record \in Daemons \cup {NoDaemon}
  /\ aside \in [Clients \cup Daemons -> Daemons \cup {NoDaemon}]
  /\ phase \in [Daemons -> Phases]
  /\ cfg \in [Daemons -> Settings]
  /\ op \in [Clients -> Ops]
  /\ at \in [Clients -> Places]
  /\ tgt \in [Clients -> Daemons \cup {NoDaemon}]
  /\ child \in [Starters -> Daemons \cup {NoDaemon}]
  /\ spent \in [Starters -> Nat]
  /\ \A c \in Clients :
       at[c] \in {"call", "discard", "discarding", "await", "reap", "generate", "generating"}
         => tgt[c] \in Daemons
  /\ \A c \in Clients : at[c] = "check" => c \in Starters /\ child[c] \in Daemons
  /\ \A c \in Starters : op[c] = "poll" => child[c] \in Daemons

\* `daemon stop` says it stopped the daemon only when that process has exited, so
\* the files it had loaded are unlocked (the installer relies on it).
StoppedMeansExited ==
  \A c \in Stoppers : at[c] = "ok" => phase[tgt[c]] = "exited"

\* "Do not leave a half-started daemon to publish its record later": a start that
\* returned an error has no child left.
FailedStartLeavesNothing ==
  \A c \in Starters :
    at[c] = "failed" /\ child[c] # NoDaemon => phase[child[c]] = "exited"

\* The record of d can still be found: in its place, or about to be put back.
Findable(d) ==
  record = d \/ \E p \in Clients \cup Daemons : aside[p] = d

\* A daemon that serves loses its record for good only to a newer record, or with
\* the process that had moved it aside: not to a probe that timed out on it, nor
\* to a caller that failed on an older daemon, nor to an older daemon's retirement.
RecordLostOnlyToNewer ==
  [][\A d \in Daemons :
       Listening(d) /\ Findable(d) /\ Listening(d)' /\ ~Findable(d)'
         => record' \notin {NoDaemon, d}]_vars

\* "Starts are serialised": no two daemon processes load a model at the same time
\* while the starts that spawned them are alive.
OneLoading ==
  \A c, e \in Starters :
    /\ at[c] # "dead" /\ op[c] = "poll" /\ phase[child[c]] = "loading"
    /\ at[e] # "dead" /\ op[e] = "poll" /\ phase[child[e]] = "loading"
    => c = e

\* Every command returns: no command waits for ever on a lock, a record, a process
\* or an answer that is not coming.
CommandsEnd == \A c \in Clients : <>Finished(c)

\* Every daemon gives its memory back in the end, also one no client can find any
\* more because its record was lost or overwritten.
DaemonsEnd == \A d \in Daemons : Resident(d) ~> ~Resident(d)

\* Nobody is left waiting, and no memory is left taken.
EveryoneEnds == CommandsEnd /\ DaemonsEnd

(* What the documentation says and the code does not keep; see README *)

=============================================================================

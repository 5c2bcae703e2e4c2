---------------------------- MODULE BackendInstall ----------------------------
(****************************************************************************)
(* The folder of GPU backend payloads, ~/.knaif/backends, and its receipt   *)
(* (native/crates/knaif-models/src/backend_store.rs): install, remove, the  *)
(* loader's decision, application upgrades and files placed by hand.        *)
(*                                                                          *)
(* The bytes of a file are named by the release whose manifest they hash    *)
(* to.  Loops over a payload's files take them in any order.  An operation  *)
(* that returns an error and one whose process dies leave the same files    *)
(* behind, so both are Interrupt.                                           *)
(****************************************************************************)
EXTENDS FiniteSets

CONSTANTS
  Procs,       \* processes running `backend install` or `backend remove`
  Names,       \* payload names in the manifest
  Files,       \* file names in the folder
  Releases,    \* knaif releases
  Payload,     \* the files each release's manifest lists for each payload
  Versioned,   \* the releases whose manifest names its release
  Missing,     \* no file under a name
  Bad,         \* bytes that hash to nothing published
  ByHand,      \* bytes the user placed
  Interrupts   \* the operations that may stop half-way

ASSUME PayloadAssumption ==
  /\ Payload \in [Releases -> [Names -> SUBSET Files]]
  /\ \A r, q \in Releases, n, m \in Names :
       n # m => Payload[r][n] \cap Payload[q][m] = {}

ASSUME BytesAssumption ==
  /\ Missing \notin Releases \cup {Bad, ByHand}
  /\ Bad \notin Releases \cup {ByHand}
  /\ ByHand \notin Releases
  /\ Versioned \subseteq Releases
  /\ Interrupts \subseteq {"install", "remove"}

Bytes == Releases \cup {Missing, Bad, ByHand}

\* A receipt entry; "none" stands for no entry.
NoEntry == [state |-> "none", ver |-> Missing, files |-> {}]

VARIABLES
  rel,      \* the release of the knaif binary on this machine
  dir,      \* the bytes of each file in the folder
  stage,    \* the bytes of each file in .stage-<name>
  part,     \* the bytes of each <file>.part in .stage-<name>
  receipt,  \* .knaif-backends.yaml
  pc,       \* where each process is
  job,      \* the payload it works on
  ver,      \* the release of its binary
  man,      \* the release of the manifest it found
  todo,     \* the files its current loop has left
  cur,      \* the file it is staging
  rcpt      \* the receipt it has in memory

store == <<dir, stage, part, receipt>>
storeVars == <<rel, store, pc, job, ver, man, todo, cur, rcpt>>

Empty == [f \in Files |-> Missing]

StoreInit ==
  /\ rel \in Releases
  /\ dir = Empty
  /\ stage = [n \in Names |-> Empty]
  /\ part = [n \in Names |-> Empty]
  /\ receipt = [n \in Names |-> NoEntry]
  /\ pc = [p \in Procs |-> "idle"]
  /\ job \in [Procs -> Names]
  /\ ver = [p \in Procs |-> rel]
  /\ man = [p \in Procs |-> rel]
  /\ todo = [p \in Procs |-> {}]
  /\ cur \in [Procs -> Files]
  /\ rcpt = [p \in Procs |-> receipt]

\* The files and hashes the process works from are its manifest's.
New(p) == Payload[man[p]][job[p]]

StepTo(p, place) == pc' = [pc EXCEPT ![p] = place]

\* remove_dir_all(stage)
WipeStage(n) ==
  /\ stage' = [stage EXCEPT ![n] = Empty]
  /\ part' = [part EXCEPT ![n] = Empty]

----------------------------------------------------------------------------
(* install_with_progress: stage all, verify all *)

InstallUnpinned(p, n, m) ==
  /\ pc[p] = "idle"
  /\ Payload[m][n] # {}
  /\ WipeStage(n)
  /\ job' = [job EXCEPT ![p] = n]
  /\ ver' = [ver EXCEPT ![p] = rel]
  /\ man' = [man EXCEPT ![p] = m]
  /\ todo' = [todo EXCEPT ![p] = Payload[m][n]]
  /\ StepTo(p, "fetch")
  /\ UNCHANGED <<rel, dir, receipt, cur, rcpt>>

\* The manifest found is release m's.  One that names another release than the
\* binary's is refused, as is a payload with no files.
InstallBegins(p, n, m) ==
  /\ pc[p] = "idle"
  /\ m \in Versioned => m = rel
  /\ Payload[m][n] # {}
  /\ WipeStage(n)
  /\ job' = [job EXCEPT ![p] = n]
  /\ ver' = [ver EXCEPT ![p] = rel]
  /\ man' = [man EXCEPT ![p] = m]
  /\ todo' = [todo EXCEPT ![p] = Payload[m][n]]
  /\ StepTo(p, "fetch")
  /\ UNCHANGED <<rel, dir, receipt, cur, rcpt>>

\* fetch_to_file: the file arrives as published or not.
Fetch(p, f) ==
  /\ pc[p] = "fetch"
  /\ f \in todo[p]
  /\ \E got \in {man[p], Bad} : part' = [part EXCEPT ![job[p]][f] = got]
  /\ cur' = [cur EXCEPT ![p] = f]
  /\ StepTo(p, "check")
  /\ UNCHANGED <<rel, dir, stage, receipt, job, ver, man, todo, rcpt>>

CheckNothing(p) ==
  /\ pc[p] = "check"
  /\ part[job[p]][cur[p]] # Missing
  /\ StepTo(p, "stage")
  /\ UNCHANGED <<rel, dir, receipt, stage, part, job, ver, man, todo, cur, rcpt>>

\* sha256_file(part): a mismatch wipes the stage and fails; a part another process
\* has wiped is an error of its own.
Check(p) ==
  /\ pc[p] = "check"
  /\ LET got == part[job[p]][cur[p]] IN
       /\ StepTo(p, IF got = man[p] THEN "stage" ELSE "idle")
       /\ IF got \in {man[p], Missing} THEN UNCHANGED <<stage, part>> ELSE WipeStage(job[p])
  /\ UNCHANGED <<rel, dir, receipt, job, ver, man, todo, cur, rcpt>>

\* rename(part, staged)
StageFile(p) ==
  /\ pc[p] = "stage"
  /\ LET n == job[p]
         f == cur[p]
     IN IF part[n][f] = Missing
          THEN StepTo(p, "idle") /\ UNCHANGED <<stage, part, todo>>
          ELSE /\ stage' = [stage EXCEPT ![n][f] = part[n][f]]
               /\ part' = [part EXCEPT ![n][f] = Missing]
               /\ todo' = [todo EXCEPT ![p] = @ \ {f}]
               /\ StepTo(p, IF todo[p] = {f} THEN "staged" ELSE "fetch")
  /\ UNCHANGED <<rel, dir, receipt, job, ver, man, cur, rcpt>>

----------------------------------------------------------------------------
(* ... then swap *)

LoadMerged(p) ==
  /\ pc[p] = "staged"
  /\ todo' = [todo EXCEPT ![p] = receipt[job[p]].files \ New(p)]
  /\ rcpt' = [rcpt EXCEPT ![p] =
       [receipt EXCEPT ![job[p]] =
          [state |-> "installing", ver |-> ver[p], files |-> New(p) \cup receipt[job[p]].files]]]
  /\ StepTo(p, "mark")
  /\ UNCHANGED <<rel, store, job, ver, man, cur>>

\* Receipt::load, and the entry that replaces this payload's: the files the old one
\* listed and the new one does not are to be dropped.
LoadReceipt(p) ==
  /\ pc[p] = "staged"
  /\ todo' = [todo EXCEPT ![p] = receipt[job[p]].files \ New(p)]
  /\ rcpt' = [rcpt EXCEPT ![p] =
       [receipt EXCEPT ![job[p]] =
          [state |-> "installing", ver |-> ver[p], files |-> New(p)]]]
  /\ StepTo(p, "mark")
  /\ UNCHANGED <<rel, store, job, ver, man, cur>>

\* receipt.save before any file moves.
MarkInstalling(p) ==
  /\ pc[p] = "mark"
  /\ receipt' = rcpt[p]
  /\ StepTo(p, "drop")
  /\ UNCHANGED <<rel, dir, stage, part, job, ver, man, todo, cur, rcpt>>

\* The result of remove_file is ignored; it fails while the file is in use.
DropOld(p, f) ==
  /\ pc[p] = "drop"
  /\ f \in todo[p]
  /\ \E inUse \in {FALSE, "install" \in Interrupts} :
       dir' = IF inUse THEN dir ELSE [dir EXCEPT ![f] = Missing]
  /\ todo' = [todo EXCEPT ![p] = @ \ {f}]
  /\ UNCHANGED <<rel, stage, part, receipt, pc, job, ver, man, cur, rcpt>>

DropDoneKeepingOld(p) ==
  /\ pc[p] = "drop"
  /\ todo' = [todo EXCEPT ![p] = New(p)]
  /\ StepTo(p, "swap")
  /\ UNCHANGED <<rel, store, job, ver, man, cur, rcpt>>

DropDone(p) ==
  /\ pc[p] = "drop"
  /\ todo[p] = {}
  /\ todo' = [todo EXCEPT ![p] = New(p)]
  /\ StepTo(p, "swap")
  /\ UNCHANGED <<rel, store, job, ver, man, cur, rcpt>>

\* rename(stage/file, dir/file); with nothing staged it is an error.
SwapFile(p, f) ==
  /\ pc[p] = "swap"
  /\ f \in todo[p]
  /\ IF stage[job[p]][f] = Missing
       THEN StepTo(p, "idle") /\ UNCHANGED <<dir, stage, todo>>
       ELSE /\ dir' = [dir EXCEPT ![f] = stage[job[p]][f]]
            /\ stage' = [stage EXCEPT ![job[p]][f] = Missing]
            /\ todo' = [todo EXCEPT ![p] = @ \ {f}]
            /\ UNCHANGED pc
  /\ UNCHANGED <<rel, part, receipt, job, ver, man, cur, rcpt>>

CompleteEarly(p) ==
  /\ pc[p] = "swap"
  /\ receipt' = [rcpt[p] EXCEPT ![job[p]].state = "complete"]
  /\ WipeStage(job[p])
  /\ StepTo(p, "idle")
  /\ UNCHANGED <<rel, dir, job, ver, man, todo, cur, rcpt>>

\* The receipt in memory is marked complete and saved again; the stage goes.
MarkComplete(p) ==
  /\ pc[p] = "swap"
  /\ todo[p] = {}
  /\ receipt' = [rcpt[p] EXCEPT ![job[p]].state = "complete"]
  /\ WipeStage(job[p])
  /\ StepTo(p, "idle")
  /\ UNCHANGED <<rel, dir, job, ver, man, todo, cur, rcpt>>

----------------------------------------------------------------------------
(* remove *)

\* The entry is taken out in memory; without one the manifest lists the files.
RemoveBegins(p, n, m) ==
  /\ pc[p] = "idle"
  /\ job' = [job EXCEPT ![p] = n]
  /\ ver' = [ver EXCEPT ![p] = rel]
  /\ man' = [man EXCEPT ![p] = m]
  /\ todo' = [todo EXCEPT ![p] =
       IF receipt[n] = NoEntry THEN Payload[m][n] ELSE receipt[n].files]
  /\ rcpt' = [rcpt EXCEPT ![p] = [receipt EXCEPT ![n] = NoEntry]]
  /\ StepTo(p, "unlink")
  /\ UNCHANGED <<rel, store, cur>>

Unlink(p, f) ==
  /\ pc[p] = "unlink"
  /\ f \in todo[p]
  /\ dir' = [dir EXCEPT ![f] = Missing]
  /\ todo' = [todo EXCEPT ![p] = @ \ {f}]
  /\ UNCHANGED <<rel, stage, part, receipt, pc, job, ver, man, cur, rcpt>>

\* The stage goes, then the receipt is saved, or deleted when it is empty.
RemoveEnds(p) ==
  /\ pc[p] = "unlink"
  /\ todo[p] = {}
  /\ WipeStage(job[p])
  /\ receipt' = rcpt[p]
  /\ StepTo(p, "idle")
  /\ UNCHANGED <<rel, dir, job, ver, man, todo, cur, rcpt>>

----------------------------------------------------------------------------
(* The rest of the machine *)

\* Any error return, or the death of the process.
Interrupt(p) ==
  /\ \/ pc[p] \in {"fetch", "check", "stage", "staged", "mark", "drop", "swap"}
        /\ "install" \in Interrupts
     \/ pc[p] = "unlink" /\ "remove" \in Interrupts
  /\ StepTo(p, "idle")
  /\ UNCHANGED <<rel, store, job, ver, man, todo, cur, rcpt>>

\* The application is upgraded or downgraded; the folder survives it.
Upgrade ==
  /\ rel' \in Releases \ {rel}
  /\ UNCHANGED <<store, pc, job, ver, man, todo, cur, rcpt>>

\* The documented manual route, into a folder without a receipt.
PlaceByHand(f) ==
  /\ \A n \in Names : receipt[n] = NoEntry
  /\ dir[f] = Missing
  /\ dir' = [dir EXCEPT ![f] = ByHand]
  /\ UNCHANGED <<rel, stage, part, receipt, pc, job, ver, man, todo, cur, rcpt>>

Install(p) ==
  \/ \E n \in Names, m \in Releases : InstallBegins(p, n, m)
  \/ \E f \in Files : Fetch(p, f) \/ DropOld(p, f) \/ SwapFile(p, f)
  \/ Check(p) \/ StageFile(p) \/ LoadReceipt(p) \/ MarkInstalling(p)
  \/ DropDone(p) \/ MarkComplete(p)

Remove(p) ==
  \/ \E n \in Names, m \in Releases : RemoveBegins(p, n, m)
  \/ \E f \in Files : Unlink(p, f)
  \/ RemoveEnds(p)

StoreNext ==
  \/ \E p \in Procs : Install(p) \/ Remove(p) \/ Interrupt(p)
  \/ Upgrade
  \/ \E f \in Files : PlaceByHand(f)

StoreSpec == StoreInit /\ [][StoreNext]_storeVars

----------------------------------------------------------------------------
(* backend_dir_state *)

Unmanaged == \A n \in Names : receipt[n] = NoEntry

Current(r) ==
  /\ ~Unmanaged
  /\ \A n \in Names :
       receipt[n] # NoEntry => receipt[n].state = "complete" /\ receipt[n].ver = r

----------------------------------------------------------------------------
(* Properties *)

StorePlaces == {"idle", "fetch", "check", "stage", "staged", "mark", "drop", "swap", "unlink"}

Entries ==
  {NoEntry} \cup [state: {"installing", "complete"}, ver: Releases, files: SUBSET Files]

\* Types; and a receipt entry lists a payload some release published under its name.
StoreTypeOK ==
  /\ rel \in Releases
  /\ dir \in [Files -> Bytes]
  /\ stage \in [Names -> [Files -> Bytes]]
  /\ part \in [Names -> [Files -> Bytes]]
  /\ receipt \in [Names -> Entries]
  /\ pc \in [Procs -> StorePlaces]
  /\ job \in [Procs -> Names]
  /\ ver \in [Procs -> Releases]
  /\ man \in [Procs -> Releases]
  /\ todo \in [Procs -> SUBSET Files]
  /\ cur \in [Procs -> Files]
  /\ rcpt \in [Procs -> [Names -> Entries]]
  /\ \A n \in Names :
       receipt[n] # NoEntry => \E r \in Releases : receipt[n].files = Payload[r][n]

\* "A directory the loader refuses rather than one it silently loads a mixed payload
\* from": whatever was interrupted and upgraded, a receipt that lists a payload as
\* complete never covers a file with other bytes than the verified ones of the
\* release it names.
NoForeignBytes ==
  \A n \in Names :
    receipt[n].state = "complete" =>
      \A f \in receipt[n].files : dir[f] \in {receipt[n].ver, Missing}

\* A payload the loader accepts is whole: an install is never seen half-done.  (Only
\* a running `remove` takes files away under a complete receipt.)
CompleteMeansWhole ==
  \A n \in Names :
    /\ receipt[n].state = "complete"
    /\ \A p \in Procs : ~(pc[p] = "unlink" /\ job[p] = n)
    => \A f \in receipt[n].files : dir[f] # Missing

\* "Drop files the previous payload had and this one does not": in a folder that is
\* loaded, every file knaif put there belongs to a payload of the receipt.
OnlyReceiptLoaded ==
  Unmanaged \/ Current(rel) =>
    \A f \in Files :
      dir[f] \in Releases => \E n \in Names : f \in receipt[n].files /\ dir[f] = receipt[n].ver

=============================================================================

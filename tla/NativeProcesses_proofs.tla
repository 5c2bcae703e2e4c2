----------------------- MODULE NativeProcesses_proofs -----------------------
(****************************************************************************)
(* Proofs about the native processes that share a machine and no lock.      *)
(* First the backend folder (BackendHalts): its type invariant for any      *)
(* number of processes, and for one process at a time NoForeignBytes and    *)
(* what is true until an operation stops half-way.  Then the life of the    *)
(* daemon (DaemonLifecycle), for any number of commands and daemon          *)
(* processes, any of which may die at any point.                            *)
(****************************************************************************)
EXTENDS BackendHalts, DaemonLifecycle, TLAPS

----------------------------------------------------------------------------
(* The backend folder *)

\* A receipt in memory lists payloads as the one on disk does.
RcptLists ==
  \A p \in Procs, n \in Names :
    rcpt[p][n] # NoEntry => \E r \in Releases : rcpt[p][n].files = Payload[r][n]

\* Once the new entry is in memory it stays what the process will save.
Entered ==
  \A p \in Procs :
    pc[p] \in {"mark", "drop", "swap"} =>
      rcpt[p][job[p]] = [state |-> "installing", ver |-> ver[p], files |-> New(p)]

TypeInv == StoreTypeOK /\ RcptLists /\ Entered

LEMMA NewIsPayload ==
  ASSUME StoreTypeOK, NEW p \in Procs
  PROVE  New(p) = Payload[man[p]][job[p]] /\ New(p) \in SUBSET Files
BY PayloadAssumption DEF StoreTypeOK, New

LEMMA EmptyType == Empty \in [Files -> Bytes]
BY DEF Empty, Bytes

LEMMA WipeType ==
  ASSUME StoreTypeOK, NEW n \in Names, WipeStage(n)
  PROVE  stage' \in [Names -> [Files -> Bytes]] /\ part' \in [Names -> [Files -> Bytes]]
BY EmptyType DEF StoreTypeOK, WipeStage

LEMMA InitTypeInv == StoreInit => TypeInv
<1>1. SUFFICES ASSUME StoreInit PROVE TypeInv
  OBVIOUS
<1>2. receipt \in [Names -> Entries] /\ rcpt \in [Procs -> [Names -> Entries]]
  BY <1>1 DEF StoreInit, Entries
<1>3. dir \in [Files -> Bytes] /\ stage \in [Names -> [Files -> Bytes]]
        /\ part \in [Names -> [Files -> Bytes]]
  BY <1>1, EmptyType DEF StoreInit
<1>4. \A n \in Names : receipt[n] = NoEntry
  BY <1>1 DEF StoreInit
<1>5. RcptLists
  BY <1>1, <1>4 DEF StoreInit, RcptLists
<1>6. Entered
  BY <1>1 DEF StoreInit, Entered
<1> QED
  BY <1>1, <1>2, <1>3, <1>4, <1>5, <1>6 DEF StoreInit, TypeInv, StoreTypeOK, StorePlaces

LEMMA NestedUpdate ==
  ASSUME NEW A, NEW B, NEW S, NEW g \in [A -> [B -> S]],
         NEW a \in A, NEW b \in B, NEW v \in S
  PROVE  [g EXCEPT ![a][b] = v] \in [A -> [B -> S]]
OBVIOUS

\* A step of p that leaves the receipts and the process's identity alone.
LEMMA LocalStep ==
  ASSUME TypeInv, NEW p \in Procs, NEW place \in StorePlaces,
         place \in {"mark", "drop", "swap"} => pc[p] \in {"mark", "drop", "swap"},
         pc' = [pc EXCEPT ![p] = place],
         UNCHANGED <<rel, receipt, job, ver, man, rcpt>>,
         dir' \in [Files -> Bytes],
         stage' \in [Names -> [Files -> Bytes]],
         part' \in [Names -> [Files -> Bytes]],
         todo' \in [Procs -> SUBSET Files],
         cur' \in [Procs -> Files]
  PROVE  TypeInv'
<1>1. StoreTypeOK' /\ RcptLists'
  BY DEF TypeInv, StoreTypeOK, RcptLists
<1>2. Entered'
  BY DEF TypeInv, StoreTypeOK, Entered, New
<1> QED
  BY <1>1, <1>2 DEF TypeInv

\* One lemma per action.

LEMMA InstallBeginsTypeInv ==
  ASSUME TypeInv, NEW p \in Procs, NEW n \in Names, NEW m \in Releases,
         InstallBegins(p, n, m)
  PROVE  TypeInv'
<1>1. stage' \in [Names -> [Files -> Bytes]] /\ part' \in [Names -> [Files -> Bytes]]
  BY WipeType DEF TypeInv, InstallBegins
<1>2. todo' \in [Procs -> SUBSET Files]
  BY PayloadAssumption DEF TypeInv, StoreTypeOK, InstallBegins
<1>3. /\ pc' = [pc EXCEPT ![p] = "fetch"]
      /\ job' = [job EXCEPT ![p] = n]
      /\ ver' = [ver EXCEPT ![p] = rel]
      /\ man' = [man EXCEPT ![p] = m]
      /\ UNCHANGED <<rel, dir, receipt, cur, rcpt>>
  BY DEF InstallBegins, StepTo
<1>4. StoreTypeOK' /\ RcptLists'
  BY <1>1, <1>2, <1>3 DEF TypeInv, StoreTypeOK, RcptLists, StorePlaces
<1>5. Entered'
  BY <1>3 DEF TypeInv, StoreTypeOK, Entered, New
<1> QED
  BY <1>4, <1>5 DEF TypeInv

LEMMA FetchTypeInv ==
  ASSUME TypeInv, NEW p \in Procs, NEW f \in Files, Fetch(p, f)
  PROVE  TypeInv'
<1>1. PICK got \in {man[p], Bad} : part' = [part EXCEPT ![job[p]][f] = got]
  BY DEF Fetch
<1>2. got \in Bytes /\ job[p] \in Names /\ part \in [Names -> [Files -> Bytes]]
  BY DEF TypeInv, StoreTypeOK, Bytes
<1>3. part' \in [Names -> [Files -> Bytes]]
  BY <1>1, <1>2, NestedUpdate
<1>4. /\ pc' = [pc EXCEPT ![p] = "check"]
      /\ cur' \in [Procs -> Files]
      /\ UNCHANGED <<rel, dir, stage, receipt, job, ver, man, todo, rcpt>>
  BY DEF TypeInv, StoreTypeOK, Fetch, StepTo
<1> QED
  BY <1>3, <1>4, LocalStep DEF TypeInv, StoreTypeOK, StorePlaces

LEMMA CheckTypeInv ==
  ASSUME TypeInv, NEW p \in Procs, Check(p)
  PROVE  TypeInv'
<1>1. stage' \in [Names -> [Files -> Bytes]] /\ part' \in [Names -> [Files -> Bytes]]
  <2>1. WipeStage(job[p]) \/ UNCHANGED <<stage, part>>
    BY DEF Check
  <2> QED
    BY <2>1, WipeType DEF TypeInv, StoreTypeOK
<1>2. PICK place \in {"stage", "idle"} : pc' = [pc EXCEPT ![p] = place]
  BY DEF Check, StepTo
<1>3. UNCHANGED <<rel, dir, receipt, job, ver, man, todo, cur, rcpt>>
  BY DEF Check
<1> QED
  BY <1>1, <1>2, <1>3, LocalStep DEF TypeInv, StoreTypeOK, StorePlaces

LEMMA StageFileTypeInv ==
  ASSUME TypeInv, NEW p \in Procs, StageFile(p)
  PROVE  TypeInv'
<1>1. /\ Missing \in Bytes /\ job[p] \in Names /\ cur[p] \in Files
      /\ stage \in [Names -> [Files -> Bytes]]
      /\ part \in [Names -> [Files -> Bytes]]
      /\ part[job[p]][cur[p]] \in Bytes
  BY DEF TypeInv, StoreTypeOK, Bytes
<1>2. UNCHANGED <<rel, dir, receipt, job, ver, man, cur, rcpt>>
  BY DEF StageFile
<1>3. CASE part[job[p]][cur[p]] = Missing
  <2>1. pc' = [pc EXCEPT ![p] = "idle"] /\ UNCHANGED <<stage, part, todo>>
    BY <1>3 DEF StageFile, StepTo
  <2> QED
    BY <1>2, <2>1, LocalStep DEF TypeInv, StoreTypeOK, StorePlaces
<1>4. CASE part[job[p]][cur[p]] # Missing
  <2>1. /\ stage' = [stage EXCEPT ![job[p]][cur[p]] = part[job[p]][cur[p]]]
        /\ part' = [part EXCEPT ![job[p]][cur[p]] = Missing]
        /\ todo' = [todo EXCEPT ![p] = @ \ {cur[p]}]
        /\ pc' = [pc EXCEPT ![p] = IF todo[p] = {cur[p]} THEN "staged" ELSE "fetch"]
    BY <1>4 DEF StageFile, StepTo
  <2>2. stage' \in [Names -> [Files -> Bytes]]
    BY <1>1, <2>1, NestedUpdate
  <2>3. part' \in [Names -> [Files -> Bytes]]
    BY <1>1, <2>1, NestedUpdate
  <2>4. PICK place \in {"staged", "fetch"} : pc' = [pc EXCEPT ![p] = place]
    BY <2>1
  <2>5. todo' \in [Procs -> SUBSET Files]
    BY <2>1 DEF TypeInv, StoreTypeOK
  <2> QED
    BY <1>2, <2>2, <2>3, <2>4, <2>5, LocalStep DEF TypeInv, StoreTypeOK, StorePlaces
<1> QED
  BY <1>3, <1>4

LEMMA LoadReceiptTypeInv ==
  ASSUME TypeInv, NEW p \in Procs, LoadReceipt(p)
  PROVE  TypeInv'
<1> DEFINE entry == [state |-> "installing", ver |-> ver[p], files |-> New(p)]
<1>1. job[p] \in Names /\ man[p] \in Releases /\ receipt \in [Names -> Entries]
  BY DEF TypeInv, StoreTypeOK
<1>2. entry \in Entries
  BY NewIsPayload DEF TypeInv, StoreTypeOK, Entries
<1>3. rcpt' = [rcpt EXCEPT ![p] = [receipt EXCEPT ![job[p]] = entry]]
  BY DEF LoadReceipt
<1>4. rcpt' \in [Procs -> [Names -> Entries]]
  BY <1>1, <1>2, <1>3 DEF TypeInv, StoreTypeOK
<1>5. RcptLists'
  <2> SUFFICES ASSUME NEW q \in Procs, NEW n \in Names, rcpt'[q][n] # NoEntry
               PROVE  \E r \in Releases : rcpt'[q][n].files = Payload[r][n]
    BY DEF RcptLists
  <2>1. CASE q # p
    BY <1>3, <2>1 DEF TypeInv, StoreTypeOK, RcptLists
  <2>2. CASE q = p /\ n # job[p]
    BY <1>1, <1>3, <2>2 DEF TypeInv, StoreTypeOK
  <2>3. CASE q = p /\ n = job[p]
    <3>1. rcpt'[q][n].files = New(p)
      BY <1>1, <1>3, <2>3 DEF TypeInv, StoreTypeOK
    <3> QED
      BY <1>1, <2>3, <3>1, NewIsPayload DEF TypeInv
  <2> QED
    BY <2>1, <2>2, <2>3
<1>6. todo' \in [Procs -> SUBSET Files]
  <2>1. receipt[job[p]].files \in SUBSET Files
    BY <1>1 DEF Entries, NoEntry
  <2> QED
    BY <2>1 DEF TypeInv, StoreTypeOK, LoadReceipt
<1>7. /\ pc' = [pc EXCEPT ![p] = "mark"]
      /\ UNCHANGED <<rel, dir, stage, part, receipt, job, ver, man, cur>>
  BY DEF LoadReceipt, StepTo, store
<1>8. StoreTypeOK'
  BY <1>4, <1>6, <1>7 DEF TypeInv, StoreTypeOK, StorePlaces
<1>9. Entered'
  <2> SUFFICES ASSUME NEW q \in Procs, pc'[q] \in {"mark", "drop", "swap"}
               PROVE  rcpt'[q][job'[q]] =
                        [state |-> "installing", ver |-> ver'[q], files |-> New(q)']
    BY DEF Entered
  <2>1. New(q)' = New(q)
    BY <1>7 DEF New
  <2>2. CASE q = p
    BY <1>1, <1>3, <1>7, <2>1, <2>2 DEF TypeInv, StoreTypeOK
  <2>3. CASE q # p
    BY <1>3, <1>7, <2>1, <2>3 DEF TypeInv, StoreTypeOK, Entered
  <2> QED
    BY <2>2, <2>3
<1> QED
  BY <1>5, <1>8, <1>9 DEF TypeInv

LEMMA MarkInstallingTypeInv ==
  ASSUME TypeInv, NEW p \in Procs, MarkInstalling(p)
  PROVE  TypeInv'
<1>1. /\ pc[p] = "mark"
      /\ pc' = [pc EXCEPT ![p] = "drop"]
      /\ receipt' = rcpt[p]
      /\ UNCHANGED <<rel, dir, stage, part, job, ver, man, todo, cur, rcpt>>
  BY DEF MarkInstalling, StepTo
<1>2. StoreTypeOK' /\ RcptLists'
  BY <1>1 DEF TypeInv, StoreTypeOK, RcptLists, StorePlaces
<1>3. Entered'
  BY <1>1 DEF TypeInv, StoreTypeOK, Entered, New
<1> QED
  BY <1>2, <1>3 DEF TypeInv

LEMMA DropOldTypeInv ==
  ASSUME TypeInv, NEW p \in Procs, NEW f \in Files, DropOld(p, f)
  PROVE  TypeInv'
<1>1. dir' = dir \/ dir' = [dir EXCEPT ![f] = Missing]
  BY DEF DropOld
<1>2. dir' \in [Files -> Bytes]
  BY <1>1 DEF TypeInv, StoreTypeOK, Bytes
<1>3. /\ todo' \in [Procs -> SUBSET Files]
      /\ pc' = [pc EXCEPT ![p] = pc[p]]
      /\ UNCHANGED <<rel, stage, part, receipt, job, ver, man, cur, rcpt>>
  BY DEF TypeInv, StoreTypeOK, DropOld
<1> QED
  BY <1>2, <1>3, LocalStep DEF TypeInv, StoreTypeOK

LEMMA DropDoneTypeInv ==
  ASSUME TypeInv, NEW p \in Procs, DropDone(p)
  PROVE  TypeInv'
<1>1. todo' \in [Procs -> SUBSET Files]
  BY NewIsPayload DEF TypeInv, StoreTypeOK, DropDone
<1>2. /\ pc[p] = "drop"
      /\ pc' = [pc EXCEPT ![p] = "swap"]
      /\ UNCHANGED <<rel, dir, stage, part, receipt, job, ver, man, cur, rcpt>>
  BY DEF DropDone, StepTo, store
<1> QED
  BY <1>1, <1>2, LocalStep DEF TypeInv, StoreTypeOK, StorePlaces

LEMMA SwapFileTypeInv ==
  ASSUME TypeInv, NEW p \in Procs, NEW f \in Files, SwapFile(p, f)
  PROVE  TypeInv'
<1>1. /\ Missing \in Bytes /\ job[p] \in Names
      /\ dir \in [Files -> Bytes]
      /\ stage \in [Names -> [Files -> Bytes]]
      /\ stage[job[p]][f] \in Bytes
  BY DEF TypeInv, StoreTypeOK, Bytes
<1>2. UNCHANGED <<rel, part, receipt, job, ver, man, cur, rcpt>>
  BY DEF SwapFile
<1>3. CASE stage[job[p]][f] = Missing
  <2>1. pc' = [pc EXCEPT ![p] = "idle"] /\ UNCHANGED <<dir, stage, todo>>
    BY <1>3 DEF SwapFile, StepTo
  <2> QED
    BY <1>2, <2>1, LocalStep DEF TypeInv, StoreTypeOK, StorePlaces
<1>4. CASE stage[job[p]][f] # Missing
  <2>1. /\ dir' = [dir EXCEPT ![f] = stage[job[p]][f]]
        /\ stage' = [stage EXCEPT ![job[p]][f] = Missing]
        /\ todo' = [todo EXCEPT ![p] = @ \ {f}]
        /\ pc' = pc
    BY <1>4 DEF SwapFile
  <2>2. stage' \in [Names -> [Files -> Bytes]]
    BY <1>1, <2>1, NestedUpdate
  <2>3. dir' \in [Files -> Bytes]
    BY <1>1, <2>1
  <2>4. todo' \in [Procs -> SUBSET Files] /\ pc' = [pc EXCEPT ![p] = pc[p]]
    BY <2>1 DEF TypeInv, StoreTypeOK
  <2> QED
    BY <1>2, <2>2, <2>3, <2>4, LocalStep DEF TypeInv, StoreTypeOK
<1> QED
  BY <1>3, <1>4

LEMMA MarkCompleteTypeInv ==
  ASSUME TypeInv, NEW p \in Procs, MarkComplete(p)
  PROVE  TypeInv'
<1> DEFINE n == job[p]
<1>1. /\ receipt' = [rcpt[p] EXCEPT ![n].state = "complete"]
      /\ pc[p] = "swap"
      /\ pc' = [pc EXCEPT ![p] = "idle"]
      /\ WipeStage(n)
      /\ UNCHANGED <<rel, dir, job, ver, man, todo, cur, rcpt>>
  BY DEF MarkComplete, StepTo
<1>2. n \in Names /\ rcpt[p] \in [Names -> Entries]
  BY DEF TypeInv, StoreTypeOK
<1>3. rcpt[p][n] = [state |-> "installing", ver |-> ver[p], files |-> New(p)]
  BY <1>1 DEF TypeInv, Entered
<1>4. receipt' = [rcpt[p] EXCEPT ![n] =
                    [state |-> "complete", ver |-> ver[p], files |-> New(p)]]
  BY <1>1, <1>2, <1>3
<1>5. receipt' \in [Names -> Entries]
  BY <1>2, <1>4, NewIsPayload DEF TypeInv, StoreTypeOK, Entries
<1>6. \A k \in Names :
        receipt'[k] # NoEntry => \E r \in Releases : receipt'[k].files = Payload[r][k]
  <2> SUFFICES ASSUME NEW k \in Names, receipt'[k] # NoEntry
               PROVE  \E r \in Releases : receipt'[k].files = Payload[r][k]
    OBVIOUS
  <2>1. CASE k = n
    BY <1>2, <1>4, <2>1, NewIsPayload DEF TypeInv, StoreTypeOK
  <2>2. CASE k # n
    BY <1>2, <1>4, <2>2 DEF TypeInv, RcptLists
  <2> QED
    BY <2>1, <2>2
<1>7. stage' \in [Names -> [Files -> Bytes]] /\ part' \in [Names -> [Files -> Bytes]]
  BY <1>1, <1>2, WipeType DEF TypeInv
<1>8. StoreTypeOK'
  <2>1. pc' \in [Procs -> StorePlaces]
    BY <1>1 DEF TypeInv, StoreTypeOK, StorePlaces
  <2> QED
    BY <1>1, <1>5, <1>6, <1>7, <2>1 DEF TypeInv, StoreTypeOK
<1>9. RcptLists'
  BY <1>1 DEF TypeInv, RcptLists
<1>10. Entered'
  BY <1>1 DEF TypeInv, StoreTypeOK, Entered, New
<1> QED
  BY <1>8, <1>9, <1>10 DEF TypeInv

LEMMA RemoveBeginsTypeInv ==
  ASSUME TypeInv, NEW p \in Procs, NEW n \in Names, NEW m \in Releases,
         RemoveBegins(p, n, m)
  PROVE  TypeInv'
<1>1. /\ pc' = [pc EXCEPT ![p] = "unlink"]
      /\ job' = [job EXCEPT ![p] = n]
      /\ ver' = [ver EXCEPT ![p] = rel]
      /\ man' = [man EXCEPT ![p] = m]
      /\ rcpt' = [rcpt EXCEPT ![p] = [receipt EXCEPT ![n] = NoEntry]]
      /\ UNCHANGED <<rel, dir, stage, part, receipt, cur>>
  BY DEF RemoveBegins, StepTo, store
<1>2. todo' \in [Procs -> SUBSET Files]
  <2>1. Payload[m][n] \in SUBSET Files
    BY PayloadAssumption
  <2>2. receipt[n] \in Entries
    BY DEF TypeInv, StoreTypeOK
  <2>3. receipt[n].files \in SUBSET Files
    BY <2>2 DEF Entries, NoEntry
  <2> QED
    BY <2>1, <2>3 DEF TypeInv, StoreTypeOK, RemoveBegins
<1>3. [receipt EXCEPT ![n] = NoEntry] \in [Names -> Entries]
  BY DEF TypeInv, StoreTypeOK, Entries
<1>4. StoreTypeOK'
  BY <1>1, <1>2, <1>3 DEF TypeInv, StoreTypeOK, StorePlaces
<1>5. RcptLists'
  <2> SUFFICES ASSUME NEW q \in Procs, NEW k \in Names, rcpt'[q][k] # NoEntry
               PROVE  \E r \in Releases : rcpt'[q][k].files = Payload[r][k]
    BY DEF RcptLists
  <2>1. CASE q = p
    BY <1>1, <2>1 DEF TypeInv, StoreTypeOK
  <2>2. CASE q # p
    BY <1>1, <2>2 DEF TypeInv, StoreTypeOK, RcptLists
  <2> QED
    BY <2>1, <2>2
<1>6. Entered'
  BY <1>1 DEF TypeInv, StoreTypeOK, Entered, New
<1> QED
  BY <1>4, <1>5, <1>6 DEF TypeInv

LEMMA UnlinkTypeInv ==
  ASSUME TypeInv, NEW p \in Procs, NEW f \in Files, Unlink(p, f)
  PROVE  TypeInv'
<1>1. /\ dir' \in [Files -> Bytes]
      /\ todo' \in [Procs -> SUBSET Files]
      /\ pc' = [pc EXCEPT ![p] = pc[p]]
      /\ UNCHANGED <<rel, stage, part, receipt, job, ver, man, cur, rcpt>>
  BY DEF TypeInv, StoreTypeOK, Unlink, Bytes
<1> QED
  BY <1>1, LocalStep DEF TypeInv, StoreTypeOK

LEMMA RemoveEndsTypeInv ==
  ASSUME TypeInv, NEW p \in Procs, RemoveEnds(p)
  PROVE  TypeInv'
<1>1. /\ receipt' = rcpt[p]
      /\ pc' = [pc EXCEPT ![p] = "idle"]
      /\ UNCHANGED <<rel, dir, job, ver, man, todo, cur, rcpt>>
  BY DEF RemoveEnds, StepTo
<1>2. stage' \in [Names -> [Files -> Bytes]] /\ part' \in [Names -> [Files -> Bytes]]
  <2>1. job[p] \in Names /\ WipeStage(job[p])
    BY DEF TypeInv, StoreTypeOK, RemoveEnds
  <2> QED
    BY <2>1, WipeType DEF TypeInv
<1>3. StoreTypeOK' /\ RcptLists'
  BY <1>1, <1>2 DEF TypeInv, StoreTypeOK, RcptLists, StorePlaces
<1>4. Entered'
  BY <1>1 DEF TypeInv, StoreTypeOK, Entered, New
<1> QED
  BY <1>3, <1>4 DEF TypeInv

LEMMA InterruptTypeInv ==
  ASSUME TypeInv, NEW p \in Procs, Interrupt(p)
  PROVE  TypeInv'
<1>1. /\ pc' = [pc EXCEPT ![p] = "idle"]
      /\ UNCHANGED <<rel, dir, stage, part, receipt, job, ver, man, todo, cur, rcpt>>
  BY DEF Interrupt, StepTo, store
<1> QED
  BY <1>1, LocalStep DEF TypeInv, StoreTypeOK, StorePlaces

LEMMA UpgradeTypeInv == TypeInv /\ Upgrade => TypeInv'
BY DEF TypeInv, StoreTypeOK, RcptLists, Entered, New, Upgrade, store

LEMMA PlaceByHandTypeInv ==
  ASSUME TypeInv, NEW f \in Files, PlaceByHand(f)
  PROVE  TypeInv'
BY DEF TypeInv, StoreTypeOK, RcptLists, Entered, New, PlaceByHand, Bytes

LEMMA NextTypeInv == TypeInv /\ [StoreNext]_storeVars => TypeInv'
<1> SUFFICES ASSUME TypeInv, [StoreNext]_storeVars PROVE TypeInv'
  OBVIOUS
<1>1. ASSUME NEW p \in Procs, Install(p) PROVE TypeInv'
  BY <1>1, InstallBeginsTypeInv, FetchTypeInv, CheckTypeInv, StageFileTypeInv,
     LoadReceiptTypeInv, MarkInstallingTypeInv, DropOldTypeInv, DropDoneTypeInv,
     SwapFileTypeInv, MarkCompleteTypeInv DEF Install
<1>2. ASSUME NEW p \in Procs, Remove(p) PROVE TypeInv'
  BY <1>2, RemoveBeginsTypeInv, UnlinkTypeInv, RemoveEndsTypeInv DEF Remove
<1>3. CASE UNCHANGED storeVars
  BY <1>3 DEF TypeInv, StoreTypeOK, RcptLists, Entered, New, storeVars, store
<1> QED
  BY <1>1, <1>2, <1>3, InterruptTypeInv, UpgradeTypeInv, PlaceByHandTypeInv DEF StoreNext

\* Whatever the payloads, the number of processes and the interruptions, every
\* variable keeps its type and a receipt entry lists a published payload.
THEOREM TypeCorrect == StoreSpec => []StoreTypeOK
<1>1. TypeInv => StoreTypeOK
  BY DEF TypeInv
<1> QED
  BY <1>1, InitTypeInv, NextTypeInv, PTL DEF StoreSpec

----------------------------------------------------------------------------
(* One process at a time, and manifests that name their release: a payload the *)
(* receipt calls complete has no foreign bytes.                                *)

Sole == Versioned = Releases /\ \A p, q \in Procs : p = q

Entry(p) == [state |-> "installing", ver |-> ver[p], files |-> New(p)]

Installing == {"fetch", "check", "stage", "staged", "mark", "drop", "swap"}

\* The manifest the process works from is its own release's.
Pinned(p) == pc[p] \in Installing => man[p] = ver[p]

\* Every file the staging loop has behind it is staged as published.
StagedSoFar(p) ==
  pc[p] \in {"fetch", "check", "stage"} =>
    /\ todo[p] \subseteq New(p)
    /\ \A f \in New(p) \ todo[p] : stage[job[p]][f] = man[p]

\* The file in hand is one the loop has left; once checked it is as published.
InHand(p) ==
  /\ pc[p] \in {"check", "stage"} => cur[p] \in todo[p]
  /\ pc[p] = "stage" => part[job[p]][cur[p]] = man[p]

AllStaged(p) ==
  pc[p] \in {"staged", "mark", "drop"} => \A f \in New(p) : stage[job[p]][f] = man[p]

\* Every file the swap has behind it is in the folder, the others still staged.
SwappedSoFar(p) ==
  pc[p] = "swap" =>
    /\ todo[p] \subseteq New(p)
    /\ \A f \in todo[p] : stage[job[p]][f] = man[p]
    /\ \A f \in New(p) \ todo[p] : dir[f] = man[p]

\* The receipt in memory is the one on disk but for the payload's own entry.
InStep(p) ==
  /\ pc[p] = "mark" => rcpt[p] = [receipt EXCEPT ![job[p]] = Entry(p)]
  /\ pc[p] \in {"drop", "swap"} => receipt = rcpt[p]
  /\ pc[p] = "unlink" => rcpt[p] = [receipt EXCEPT ![job[p]] = NoEntry]

Work(p) ==
  Pinned(p) /\ StagedSoFar(p) /\ InHand(p) /\ AllStaged(p) /\ SwappedSoFar(p) /\ InStep(p)

Sound == TypeInv /\ NoForeignBytes /\ \A p \in Procs : Work(p)

LEMMA Facts ==
  ASSUME Sound, NEW p \in Procs
  PROVE  /\ job[p] \in Names /\ man[p] \in Releases /\ ver[p] \in Releases
         /\ man[p] # Missing /\ man[p] # Bad
         /\ New(p) \subseteq Files /\ New(p) = Payload[man[p]][job[p]]
         /\ receipt \in [Names -> Entries] /\ rcpt[p] \in [Names -> Entries]
         /\ pc \in [Procs -> StorePlaces] /\ todo \in [Procs -> SUBSET Files]
         /\ dir \in [Files -> Bytes] /\ cur \in [Procs -> Files]
         /\ stage \in [Names -> [Files -> Bytes]]
         /\ part \in [Names -> [Files -> Bytes]]
BY NewIsPayload, BytesAssumption DEF Sound, TypeInv, StoreTypeOK

\* A step that moves no file of the folder and leaves the receipt alone.
LEMMA FolderKept ==
  ASSUME NoForeignBytes, UNCHANGED <<dir, receipt>>
  PROVE  NoForeignBytes'
BY DEF NoForeignBytes

\* Files may go, as long as the receipt stays.
LEMMA OnlyRemoved ==
  ASSUME NoForeignBytes, UNCHANGED receipt, NEW f \in Files,
         dir \in [Files -> Bytes], receipt \in [Names -> Entries],
         dir' = dir \/ dir' = [dir EXCEPT ![f] = Missing]
  PROVE  NoForeignBytes'
<1> SUFFICES ASSUME NEW n \in Names, receipt[n].state = "complete",
                    NEW g \in receipt[n].files
             PROVE  dir'[g] \in {receipt[n].ver, Missing}
  BY DEF NoForeignBytes
<1>1. g \in Files
  BY DEF Entries, NoEntry
<1>2. dir[g] \in {receipt[n].ver, Missing}
  BY DEF NoForeignBytes
<1> QED
  BY <1>1, <1>2

\* The receipt changes in one entry only, and that one is not complete.
LEMMA EntryWithdrawn ==
  ASSUME NoForeignBytes, UNCHANGED dir, NEW n \in Names,
         receipt'[n].state # "complete",
         \A k \in Names : k # n => receipt'[k] = receipt[k]
  PROVE  NoForeignBytes'
BY DEF NoForeignBytes

LEMMA InitSound == StoreInit => Sound
<1> SUFFICES ASSUME StoreInit PROVE Sound
  OBVIOUS
<1>1. TypeInv
  BY InitTypeInv
<1>2. NoForeignBytes
  BY DEF StoreInit, NoForeignBytes, NoEntry
<1>3. ASSUME NEW p \in Procs PROVE Work(p)
  BY DEF StoreInit, Work, Pinned, StagedSoFar, InHand, AllStaged, SwappedSoFar, InStep, Installing
<1> QED
  BY <1>1, <1>2, <1>3 DEF Sound

LEMMA InstallBeginsWork ==
  ASSUME Sole, Sound, NEW p \in Procs, NEW n \in Names, NEW m \in Releases,
         InstallBegins(p, n, m)
  PROVE  Work(p)' /\ NoForeignBytes'
<1>1. pc'[p] = "fetch" /\ job'[p] = n /\ man'[p] = m /\ todo'[p] = Payload[m][n]
  BY DEF InstallBegins, StepTo, Sound, TypeInv, StoreTypeOK
<1>2. man'[p] = ver'[p]
  BY <1>1 DEF InstallBegins, Sole, Sound, TypeInv, StoreTypeOK
<1>3. New(p)' = todo'[p]
  BY <1>1 DEF New
<1>4. Work(p)'
  BY <1>1, <1>2, <1>3
     DEF Work, Pinned, StagedSoFar, InHand, AllStaged, SwappedSoFar, InStep
<1>5. NoForeignBytes'
  BY FolderKept DEF InstallBegins, Sound
<1> QED
  BY <1>4, <1>5

LEMMA FetchWork ==
  ASSUME Sound, NEW p \in Procs, NEW f \in Files, Fetch(p, f)
  PROVE  Work(p)' /\ NoForeignBytes'
<1>1. /\ pc[p] = "fetch" /\ pc'[p] = "check" /\ f \in todo[p] /\ cur'[p] = f
      /\ UNCHANGED <<dir, stage, receipt, job, ver, man, todo, rcpt>>
  BY Facts DEF Fetch, StepTo
<1>2. New(p)' = New(p)
  BY <1>1 DEF New
<1>3. Work(p)'
  BY <1>1, <1>2
     DEF Sound, Work, Pinned, StagedSoFar, InHand, AllStaged, SwappedSoFar, InStep, Installing
<1> QED
  BY <1>1, <1>3, FolderKept DEF Sound

LEMMA IdleWork ==
  ASSUME Sound, NEW p \in Procs, pc'[p] = "idle"
  PROVE  Work(p)'
BY DEF Work, Pinned, StagedSoFar, InHand, AllStaged, SwappedSoFar, InStep, Installing

LEMMA CheckWork ==
  ASSUME Sound, NEW p \in Procs, Check(p)
  PROVE  Work(p)' /\ NoForeignBytes'
<1>1. /\ pc[p] = "check"
      /\ UNCHANGED <<dir, receipt, job, ver, man, todo, cur, rcpt>>
  BY DEF Check
<1>2. NoForeignBytes'
  BY <1>1, FolderKept DEF Sound
<1>3. CASE part[job[p]][cur[p]] = man[p]
  <2>1. pc'[p] = "stage" /\ UNCHANGED <<stage, part>>
    BY <1>3, Facts DEF Check, StepTo
  <2>2. New(p)' = New(p)
    BY <1>1 DEF New
  <2> QED
    BY <1>1, <1>2, <1>3, <2>1, <2>2
       DEF Sound, Work, Pinned, StagedSoFar, InHand, AllStaged, SwappedSoFar, InStep, Installing
<1>4. CASE part[job[p]][cur[p]] # man[p]
  <2>1. pc'[p] = "idle"
    BY <1>4, Facts DEF Check, StepTo
  <2> QED
    BY <1>2, <2>1, IdleWork
<1> QED
  BY <1>3, <1>4

LEMMA StageFileWork ==
  ASSUME Sound, NEW p \in Procs, StageFile(p)
  PROVE  Work(p)' /\ NoForeignBytes'
<1>1. /\ pc[p] = "stage"
      /\ UNCHANGED <<rel, dir, receipt, job, ver, man, cur, rcpt>>
  BY DEF StageFile
<1>2. NoForeignBytes'
  BY <1>1, FolderKept DEF Sound
<1>3. /\ part[job[p]][cur[p]] = man[p] /\ cur[p] \in todo[p] /\ cur[p] \in Files
      /\ man[p] = ver[p]
  BY <1>1, Facts DEF Sound, Work, InHand, Pinned, Installing
<1>4. /\ stage' = [stage EXCEPT ![job[p]][cur[p]] = man[p]]
      /\ todo' = [todo EXCEPT ![p] = @ \ {cur[p]}]
      /\ pc' = [pc EXCEPT ![p] = IF todo[p] = {cur[p]} THEN "staged" ELSE "fetch"]
  BY <1>3, Facts DEF StageFile, StepTo
<1>5. New(p)' = New(p)
  BY <1>1 DEF New
<1>6. \A f \in New(p) \ todo'[p] : stage'[job[p]][f] = man[p]
  <2>1. \A f \in New(p) \ todo[p] : stage[job[p]][f] = man[p]
    BY <1>1 DEF Sound, Work, StagedSoFar
  <2>2. \A f \in Files : stage'[job[p]][f] = IF f = cur[p] THEN man[p] ELSE stage[job[p]][f]
    BY <1>4, Facts
  <2>3. todo'[p] = todo[p] \ {cur[p]}
    BY <1>4, Facts
  <2> QED
    BY <2>1, <2>2, <2>3, Facts
<1>7. todo'[p] \subseteq New(p)
  BY <1>1, <1>4, Facts DEF Sound, Work, StagedSoFar
<1>8. CASE todo[p] = {cur[p]}
  <2>1. pc'[p] = "staged" /\ todo'[p] = {}
    BY <1>4, <1>8, Facts
  <2> QED
    BY <1>1, <1>2, <1>3, <1>5, <1>6, <2>1
       DEF Work, Pinned, StagedSoFar, InHand, AllStaged, SwappedSoFar, InStep
<1>9. CASE todo[p] # {cur[p]}
  <2>1. pc'[p] = "fetch"
    BY <1>4, <1>9, Facts
  <2> QED
    BY <1>1, <1>2, <1>3, <1>5, <1>6, <1>7, <2>1
       DEF Work, Pinned, StagedSoFar, InHand, AllStaged, SwappedSoFar, InStep
<1> QED
  BY <1>8, <1>9

LEMMA LoadReceiptWork ==
  ASSUME Sound, NEW p \in Procs, LoadReceipt(p)
  PROVE  Work(p)' /\ NoForeignBytes'
<1>1. /\ pc[p] = "staged" /\ pc'[p] = "mark"
      /\ UNCHANGED <<dir, stage, receipt, job, ver, man>>
  BY Facts DEF LoadReceipt, StepTo, store
<1>2. rcpt'[p] = [receipt EXCEPT ![job[p]] = Entry(p)]
  BY DEF LoadReceipt, Entry, Sound, TypeInv, StoreTypeOK
<1>3. New(p)' = New(p) /\ Entry(p)' = Entry(p)
  BY <1>1 DEF New, Entry
<1>4. InStep(p)'
  BY <1>1, <1>2, <1>3 DEF InStep
<1>5. AllStaged(p)'
  BY <1>1, <1>3 DEF Sound, Work, AllStaged
<1>6. Work(p)'
  BY <1>1, <1>4, <1>5 DEF Sound, Work, Pinned, StagedSoFar, InHand, SwappedSoFar, Installing
<1> QED
  BY <1>1, <1>6, FolderKept DEF Sound

LEMMA MarkInstallingWork ==
  ASSUME Sound, NEW p \in Procs, MarkInstalling(p)
  PROVE  Work(p)' /\ NoForeignBytes'
<1>1. /\ pc[p] = "mark" /\ pc'[p] = "drop" /\ receipt' = rcpt[p]
      /\ UNCHANGED <<dir, stage, job, ver, man, rcpt>>
  BY Facts DEF MarkInstalling, StepTo
<1>2. New(p)' = New(p)
  BY <1>1 DEF New
<1>3. AllStaged(p)'
  BY <1>1, <1>2 DEF Sound, Work, AllStaged
<1>4. Work(p)'
  BY <1>1, <1>3
     DEF Sound, Work, Pinned, StagedSoFar, InHand, SwappedSoFar, InStep, Installing
<1>5. receipt' = [receipt EXCEPT ![job[p]] = Entry(p)]
  BY <1>1 DEF Sound, Work, InStep
<1>6. receipt'[job[p]] = Entry(p) /\ job[p] \in Names
  BY <1>5, Facts
<1>7. \A k \in Names : k # job[p] => receipt'[k] = receipt[k]
  BY <1>5, Facts
<1>8. receipt'[job[p]].state # "complete"
  BY <1>6 DEF Entry
<1>9. NoForeignBytes'
  BY <1>1, <1>6, <1>7, <1>8, EntryWithdrawn DEF Sound
<1> QED
  BY <1>4, <1>9

LEMMA DropOldWork ==
  ASSUME Sound, NEW p \in Procs, NEW f \in Files, DropOld(p, f)
  PROVE  Work(p)' /\ NoForeignBytes'
<1>1. /\ pc[p] = "drop" /\ pc' = pc
      /\ dir' = dir \/ dir' = [dir EXCEPT ![f] = Missing]
      /\ UNCHANGED <<stage, receipt, job, ver, man, rcpt>>
  BY DEF DropOld
<1>2. New(p)' = New(p)
  BY <1>1 DEF New
<1>3. AllStaged(p)'
  BY <1>1, <1>2 DEF Sound, Work, AllStaged
<1>4. Work(p)'
  BY <1>1, <1>3
     DEF Sound, Work, Pinned, StagedSoFar, InHand, SwappedSoFar, InStep, Installing
<1> QED
  BY <1>1, <1>4, OnlyRemoved, Facts DEF Sound

LEMMA DropDoneWork ==
  ASSUME Sound, NEW p \in Procs, DropDone(p)
  PROVE  Work(p)' /\ NoForeignBytes'
<1>1. /\ pc[p] = "drop" /\ pc'[p] = "swap" /\ todo'[p] = New(p)
      /\ UNCHANGED <<dir, stage, receipt, job, ver, man, rcpt>>
  BY Facts DEF DropDone, StepTo, store
<1>2. New(p)' = New(p)
  BY <1>1 DEF New
<1>3. SwappedSoFar(p)'
  BY <1>1, <1>2 DEF Sound, Work, AllStaged, SwappedSoFar
<1>4. Work(p)'
  BY <1>1, <1>3 DEF Sound, Work, Pinned, StagedSoFar, InHand, AllStaged, InStep, Installing
<1> QED
  BY <1>1, <1>4, FolderKept DEF Sound

LEMMA SwapFileWork ==
  ASSUME Sound, NEW p \in Procs, NEW f \in Files, SwapFile(p, f)
  PROVE  Work(p)' /\ NoForeignBytes'
<1>1. /\ pc[p] = "swap" /\ f \in todo[p]
      /\ UNCHANGED <<rel, part, receipt, job, ver, man, cur, rcpt>>
  BY DEF SwapFile
<1>2. /\ todo[p] \subseteq New(p) /\ \A g \in todo[p] : stage[job[p]][g] = man[p]
      /\ \A g \in New(p) \ todo[p] : dir[g] = man[p]
      /\ receipt = rcpt[p] /\ man[p] = ver[p]
  BY <1>1 DEF Sound, Work, SwappedSoFar, InStep, Pinned, Installing
<1>3. /\ dir' = [dir EXCEPT ![f] = man[p]]
      /\ stage' = [stage EXCEPT ![job[p]][f] = Missing]
      /\ todo' = [todo EXCEPT ![p] = @ \ {f}]
      /\ pc' = pc
  BY <1>1, <1>2, Facts DEF SwapFile
<1>4. New(p)' = New(p)
  BY <1>1 DEF New
<1>5. SwappedSoFar(p)'
  <2>1. todo'[p] = todo[p] \ {f}
    BY <1>3, Facts
  <2>2. \A g \in Files : dir'[g] = IF g = f THEN man[p] ELSE dir[g]
    BY <1>3, Facts
  <2>3. \A g \in Files : g # f => stage'[job[p]][g] = stage[job[p]][g]
    BY <1>3, Facts
  <2> QED
    BY <1>1, <1>2, <1>4, <2>1, <2>2, <2>3, Facts DEF SwappedSoFar
<1>6. Work(p)'
  BY <1>1, <1>2, <1>3, <1>4, <1>5 DEF Work, Pinned, StagedSoFar, InHand, AllStaged, InStep
<1>7. NoForeignBytes'
  <2> SUFFICES ASSUME NEW n \in Names, receipt[n].state = "complete",
                      NEW g \in receipt[n].files
               PROVE  dir'[g] \in {receipt[n].ver, Missing}
    BY <1>1 DEF NoForeignBytes
  <2>1. n # job[p]
    <3>1. receipt[job[p]] = [state |-> "installing", ver |-> ver[p], files |-> New(p)]
      BY <1>1, <1>2 DEF Sound, TypeInv, Entered
    <3>2. receipt[job[p]].state = "installing"
      BY <3>1
    <3> QED
      BY <3>2
  <2>2. PICK r \in Releases : receipt[n].files = Payload[r][n]
    <3>1. receipt[n] # NoEntry
      BY DEF NoEntry
    <3> QED
      BY <3>1 DEF Sound, TypeInv, StoreTypeOK
  <2>3. g \notin New(p)
    <3>1. New(p) = Payload[man[p]][job[p]] /\ man[p] \in Releases /\ job[p] \in Names
      BY Facts
    <3>2. Payload[r][n] \cap Payload[man[p]][job[p]] = {}
      BY <2>1, <3>1, PayloadAssumption
    <3> QED
      BY <2>2, <3>1, <3>2
  <2>4. g \in Files /\ g # f
    BY <1>1, <1>2, <2>2, <2>3, PayloadAssumption
  <2>5. dir'[g] = dir[g]
    BY <1>3, <2>4, Facts
  <2> QED
    BY <2>5 DEF Sound, NoForeignBytes
<1> QED
  BY <1>6, <1>7

LEMMA MarkCompleteWork ==
  ASSUME Sound, NEW p \in Procs, MarkComplete(p)
  PROVE  Work(p)' /\ NoForeignBytes'
<1> DEFINE done == [state |-> "complete", ver |-> ver[p], files |-> New(p)]
<1>1. /\ pc[p] = "swap" /\ todo[p] = {} /\ pc'[p] = "idle" /\ UNCHANGED dir
      /\ receipt' = [rcpt[p] EXCEPT ![job[p]].state = "complete"]
  BY Facts DEF MarkComplete, StepTo
<1>2. /\ rcpt[p][job[p]] = Entry(p) /\ receipt = rcpt[p] /\ man[p] = ver[p]
      /\ \A f \in New(p) : dir[f] = man[p]
  BY <1>1 DEF Sound, TypeInv, Entered, Entry, Work, SwappedSoFar, InStep, Pinned, Installing
<1>3. receipt' = [rcpt[p] EXCEPT ![job[p]] = done]
  <2>1. rcpt[p][job[p]] = [state |-> "installing", ver |-> ver[p], files |-> New(p)]
    BY <1>2 DEF Entry
  <2>2. job[p] \in Names /\ rcpt[p] \in [Names -> Entries]
    BY Facts
  <2> QED
    BY <1>1, <2>1, <2>2
<1>4. NoForeignBytes'
  <2> SUFFICES ASSUME NEW n \in Names, receipt'[n].state = "complete",
                      NEW f \in receipt'[n].files
               PROVE  dir[f] \in {receipt'[n].ver, Missing}
    BY <1>1 DEF NoForeignBytes
  <2>1. CASE n = job[p]
    BY <1>2, <1>3, <2>1, Facts
  <2>2. CASE n # job[p]
    <3>1. receipt'[n] = receipt[n]
      BY <1>2, <1>3, <2>2, Facts
    <3> QED
      BY <3>1 DEF Sound, NoForeignBytes
  <2> QED
    BY <2>1, <2>2
<1> QED
  BY <1>1, <1>4, IdleWork

LEMMA RemoveBeginsWork ==
  ASSUME Sound, NEW p \in Procs, NEW n \in Names, NEW m \in Releases,
         RemoveBegins(p, n, m)
  PROVE  Work(p)' /\ NoForeignBytes'
<1>1. /\ pc'[p] = "unlink" /\ job'[p] = n /\ UNCHANGED <<dir, receipt>>
      /\ rcpt'[p] = [receipt EXCEPT ![n] = NoEntry]
  BY DEF RemoveBegins, StepTo, store, Sound, TypeInv, StoreTypeOK
<1>2. Work(p)'
  BY <1>1
     DEF Work, Pinned, StagedSoFar, InHand, AllStaged, SwappedSoFar, InStep, Installing
<1> QED
  BY <1>1, <1>2, FolderKept DEF Sound

LEMMA UnlinkWork ==
  ASSUME Sound, NEW p \in Procs, NEW f \in Files, Unlink(p, f)
  PROVE  Work(p)' /\ NoForeignBytes'
<1>1. /\ pc[p] = "unlink" /\ pc' = pc /\ dir' = [dir EXCEPT ![f] = Missing]
      /\ UNCHANGED <<receipt, job, rcpt>>
  BY DEF Unlink
<1>2. Work(p)'
  BY <1>1
     DEF Sound, Work, Pinned, StagedSoFar, InHand, AllStaged, SwappedSoFar, InStep, Installing
<1> QED
  BY <1>1, <1>2, OnlyRemoved, Facts DEF Sound

LEMMA RemoveEndsWork ==
  ASSUME Sound, NEW p \in Procs, RemoveEnds(p)
  PROVE  Work(p)' /\ NoForeignBytes'
<1>1. /\ pc[p] = "unlink" /\ pc'[p] = "idle" /\ receipt' = rcpt[p] /\ UNCHANGED dir
  BY Facts DEF RemoveEnds, StepTo
<1>2. receipt' = [receipt EXCEPT ![job[p]] = NoEntry]
  BY <1>1 DEF Sound, Work, InStep
<1>3. receipt'[job[p]] = NoEntry /\ job[p] \in Names
  BY <1>2, Facts
<1>4. \A k \in Names : k # job[p] => receipt'[k] = receipt[k]
  BY <1>2, Facts
<1>5. receipt'[job[p]].state # "complete"
  BY <1>3 DEF NoEntry
<1>6. NoForeignBytes'
  BY <1>1, <1>3, <1>4, <1>5, EntryWithdrawn DEF Sound
<1> QED
  BY <1>1, <1>6, IdleWork

LEMMA InterruptWork ==
  ASSUME Sound, NEW p \in Procs, Interrupt(p)
  PROVE  Work(p)' /\ NoForeignBytes'
<1>1. pc'[p] = "idle" /\ UNCHANGED <<dir, receipt>>
  BY Facts DEF Interrupt, StepTo, store
<1> QED
  BY <1>1, IdleWork, FolderKept DEF Sound

\* An upgrade does not reach into a process that runs.
LEMMA UpgradeSound ==
  ASSUME Sound, Upgrade
  PROVE  NoForeignBytes' /\ \A p \in Procs : Work(p)'
<1>1. UNCHANGED <<dir, stage, part, receipt, pc, job, ver, man, todo, cur, rcpt>>
  BY DEF Upgrade, store
<1>2. ASSUME NEW p \in Procs PROVE Work(p)'
  BY <1>1 DEF Sound, Work, Pinned, StagedSoFar, InHand, AllStaged, SwappedSoFar, InStep,
              Installing, Entry, New
<1> QED
  BY <1>1, <1>2, FolderKept DEF Sound

\* A file is placed by hand where there is no receipt, and none under its name.
LEMMA PlaceByHandSound ==
  ASSUME Sound, NEW f \in Files, PlaceByHand(f)
  PROVE  NoForeignBytes' /\ \A p \in Procs : Work(p)'
<1>1. /\ \A n \in Names : receipt[n] = NoEntry
      /\ dir[f] = Missing /\ dir' = [dir EXCEPT ![f] = ByHand]
      /\ UNCHANGED <<rel, stage, part, receipt, pc, job, ver, man, todo, cur, rcpt>>
  BY DEF PlaceByHand
<1>2. NoForeignBytes'
  BY <1>1 DEF NoForeignBytes, NoEntry
<1>3. ASSUME NEW p \in Procs PROVE Work(p)'
  <2>1. SwappedSoFar(p)'
    <3> SUFFICES ASSUME pc[p] = "swap" PROVE FALSE
      BY <1>1 DEF SwappedSoFar
    <3>1. receipt[job[p]] = Entry(p)
      BY DEF Sound, TypeInv, Entered, Work, InStep, Entry
    <3> QED
      BY <1>1, <3>1, Facts DEF Entry, NoEntry
  <2> QED
    BY <1>1, <2>1 DEF Sound, Work, Pinned, StagedSoFar, InHand, AllStaged, InStep,
                      Installing, Entry, New
<1> QED
  BY <1>2, <1>3

LEMMA NextSound == Sole /\ Sound /\ [StoreNext]_storeVars => Sound'
<1> SUFFICES ASSUME Sole, Sound, [StoreNext]_storeVars PROVE Sound'
  OBVIOUS
<1>1. TypeInv'
  BY NextTypeInv DEF Sound
<1>2. ASSUME NEW p \in Procs, Install(p) PROVE Work(p)' /\ NoForeignBytes'
  BY <1>2, InstallBeginsWork, FetchWork, CheckWork, StageFileWork, LoadReceiptWork,
     MarkInstallingWork, DropOldWork, DropDoneWork, SwapFileWork, MarkCompleteWork
     DEF Install
<1>3. ASSUME NEW p \in Procs, Remove(p) PROVE Work(p)' /\ NoForeignBytes'
  BY <1>3, RemoveBeginsWork, UnlinkWork, RemoveEndsWork DEF Remove
<1>4. CASE \E p \in Procs : Install(p) \/ Remove(p) \/ Interrupt(p)
  <2>1. PICK p \in Procs : Work(p)' /\ NoForeignBytes'
    BY <1>2, <1>3, <1>4, InterruptWork
  <2>2. \A q \in Procs : Work(q)'
    BY <2>1 DEF Sole
  <2> QED
    BY <1>1, <2>1, <2>2 DEF Sound
<1>5. CASE Upgrade
  BY <1>1, <1>5, UpgradeSound DEF Sound
<1>6. CASE \E f \in Files : PlaceByHand(f)
  BY <1>1, <1>6, PlaceByHandSound DEF Sound
<1>7. CASE UNCHANGED storeVars
  <2>1. NoForeignBytes'
    BY <1>7, FolderKept DEF Sound, storeVars, store
  <2>2. ASSUME NEW p \in Procs PROVE Work(p)'
    BY <1>7 DEF Sound, Work, Pinned, StagedSoFar, InHand, AllStaged, SwappedSoFar, InStep,
                Installing, Entry, New, storeVars, store
  <2> QED
    BY <1>1, <2>1, <2>2 DEF Sound
<1> QED
  BY <1>4, <1>5, <1>6, <1>7 DEF StoreNext

\* For one process at a time and manifests that name their release, whatever the
\* payloads, the interruptions and the upgrades: a payload the receipt calls
\* complete never has a file with bytes other than the verified ones.
THEOREM NoForeignBytesAlone ==
  ASSUME Sole
  PROVE  StoreSpec => []NoForeignBytes
<1>1. Sound => NoForeignBytes
  BY DEF Sound
<1>2. Sound /\ [StoreNext]_storeVars => Sound'
  BY NextSound
<1> QED
  BY <1>1, <1>2, InitSound, PTL DEF StoreSpec

----------------------------------------------------------------------------
(* Until an operation stops half-way (BackendHalts).                          *)

\* What a process is about to take away was listed under its payload's name, and
\* what it has unlinked is gone.
Taking(p) ==
  /\ pc[p] = "mark" => todo[p] = receipt[job[p]].files \ New(p)
  /\ pc[p] \in {"mark", "drop", "unlink"} => \E r \in Releases : todo[p] \subseteq Payload[r][job[p]]
  /\ pc[p] = "unlink" => \A f \in receipt[job[p]].files \ todo[p] : dir[f] = Missing

Whole == "remove" \notin halted => CompleteMeansWhole

Listed(f) == \E n \in Names : f \in receipt[n].files /\ dir[f] = receipt[n].ver

\* An install that drops and swaps is about to drop or replace the file.
InTurn(p, f) ==
  pc[p] \in {"drop", "swap"} /\ (f \in New(p) \/ (pc[p] = "drop" /\ f \in todo[p]))

\* Every file of knaif's is listed, or an install is at it.
Accounted ==
  "install" \notin halted =>
    \A f \in Files : dir[f] \in Releases => Listed(f) \/ \E p \in Procs : InTurn(p, f)

HaltInv == Sound /\ (\A p \in Procs : Taking(p)) /\ Whole /\ Accounted

LEMMA InitHalt == HaltInit => HaltInv
<1> SUFFICES ASSUME HaltInit PROVE HaltInv
  OBVIOUS
<1>1. Sound
  BY InitSound DEF HaltInit
<1>2. \A n \in Names : receipt[n].state # "complete"
  BY DEF HaltInit, StoreInit, NoEntry
<1>3. \A f \in Files : dir[f] \notin Releases
  BY BytesAssumption DEF HaltInit, StoreInit, Empty
<1>4. \A p \in Procs : Taking(p)
  BY DEF HaltInit, StoreInit, Taking
<1> QED
  BY <1>1, <1>2, <1>3, <1>4 DEF HaltInv, Whole, CompleteMeansWhole, Accounted

\* While an install drops and swaps, its entry is on disk, marked installing.
LEMMA OnDisk ==
  ASSUME Sound, NEW p \in Procs, pc[p] \in {"drop", "swap"}
  PROVE  receipt = rcpt[p] /\ receipt[job[p]] = Entry(p) /\ man[p] = ver[p]
BY DEF Sound, TypeInv, Entered, Entry, Work, InStep, Pinned, Installing

\* A file of one payload is in no entry of another name.
LEMMA Elsewhere ==
  ASSUME Sound, NEW n \in Names, NEW k \in Names, n # k, NEW r \in Releases,
         NEW f \in Payload[r][k]
  PROVE  f \notin receipt[n].files
<1>1. CASE receipt[n] = NoEntry
  BY <1>1 DEF NoEntry
<1>2. CASE receipt[n] # NoEntry
  <2>1. PICK q \in Releases : receipt[n].files = Payload[q][n]
    BY <1>2 DEF Sound, TypeInv, StoreTypeOK
  <2>2. Payload[q][n] \cap Payload[r][k] = {}
    BY PayloadAssumption
  <2> QED
    BY <2>1, <2>2
<1> QED
  BY <1>1, <1>2

\* A step of a process that removes nothing and is not in a remove, and moves
\* neither the folder nor the receipt.
LEMMA WholeKept ==
  ASSUME Sole, Whole, NEW p \in Procs, pc[p] # "unlink", UNCHANGED <<dir, receipt>>,
         halted \subseteq halted'
  PROVE  Whole'
<1>1. \A q \in Procs : pc[q] # "unlink"
  BY DEF Sole
<1> QED
  BY <1>1 DEF Whole, CompleteMeansWhole

LEMMA AccountedKept ==
  ASSUME Sole, Accounted, NEW p \in Procs, pc[p] \notin {"drop", "swap"}, UNCHANGED <<dir, receipt>>,
         halted \subseteq halted'
  PROVE  Accounted'
<1>1. \A q \in Procs, f \in Files : ~InTurn(q, f)
  BY DEF Sole, InTurn
<1> QED
  BY <1>1 DEF Accounted, Listed

LEMMA NotTaking ==
  ASSUME NEW p \in Procs, pc'[p] \notin {"mark", "drop", "unlink"}
  PROVE  Taking(p)'
BY DEF Taking

LEMMA StagingHalt ==
  ASSUME Sole, HaltInv, halted \subseteq halted', NEW p \in Procs,
         \/ \E n \in Names, m \in Releases : InstallBegins(p, n, m)
         \/ \E f \in Files : Fetch(p, f)
         \/ Check(p) \/ StageFile(p)
  PROVE  Taking(p)' /\ Whole' /\ Accounted'
<1>1. /\ pc[p] \in {"idle", "fetch", "check", "stage"} /\ UNCHANGED <<dir, receipt>>
      /\ pc'[p] \in {"idle", "fetch", "check", "stage", "staged"}
  BY Facts DEF HaltInv, InstallBegins, Fetch, Check, StageFile, StepTo
<1> QED
  BY <1>1, NotTaking, WholeKept, AccountedKept DEF HaltInv

LEMMA LoadReceiptHalt ==
  ASSUME Sole, HaltInv, halted \subseteq halted', NEW p \in Procs, LoadReceipt(p)
  PROVE  Taking(p)' /\ Whole' /\ Accounted'
<1>1. /\ pc[p] = "staged" /\ pc'[p] = "mark" /\ UNCHANGED <<dir, receipt, job, man>>
      /\ todo'[p] = receipt[job[p]].files \ New(p)
  BY Facts DEF HaltInv, LoadReceipt, StepTo, store
<1>2. New(p)' = New(p)
  BY <1>1 DEF New
<1>3. \E r \in Releases : receipt[job[p]].files \subseteq Payload[r][job[p]]
  <2>1. job[p] \in Names /\ rel \in Releases
    BY Facts DEF HaltInv, Sound, TypeInv, StoreTypeOK
  <2>2. CASE receipt[job[p]] = NoEntry
    BY <2>1, <2>2 DEF NoEntry
  <2>3. CASE receipt[job[p]] # NoEntry
    BY <2>1, <2>3 DEF HaltInv, Sound, TypeInv, StoreTypeOK
  <2> QED
    BY <2>2, <2>3
<1>4. Taking(p)'
  BY <1>1, <1>2, <1>3 DEF Taking
<1> QED
  BY <1>1, <1>4, WholeKept, AccountedKept DEF HaltInv

LEMMA MarkInstallingHalt ==
  ASSUME Sole, HaltInv, halted \subseteq halted', NEW p \in Procs, MarkInstalling(p)
  PROVE  Taking(p)' /\ Whole' /\ Accounted'
<1> USE DEF HaltInv
<1>1. /\ pc[p] = "mark" /\ pc'[p] = "drop" /\ receipt' = rcpt[p]
      /\ UNCHANGED <<dir, job, man, todo>>
  BY Facts DEF MarkInstalling, StepTo
<1>2. New(p)' = New(p)
  BY <1>1 DEF New
<1>3. rcpt[p] = [receipt EXCEPT ![job[p]] = Entry(p)]
  BY <1>1 DEF Sound, Work, InStep
<1>4. /\ receipt'[job[p]] = Entry(p) /\ job[p] \in Names
      /\ \A k \in Names : k # job[p] => receipt'[k] = receipt[k]
  BY <1>1, <1>3, Facts
<1>5. Taking(p)'
  BY <1>1 DEF Taking
<1>6. Whole'
  <2>1. receipt'[job[p]].state # "complete"
    BY <1>4 DEF Entry
  <2>2. \A q \in Procs : pc[q] # "unlink"
    BY <1>1 DEF Sole
  <2> QED
    BY <1>1, <1>4, <2>1, <2>2 DEF Whole, CompleteMeansWhole
<1>7. Accounted'
  <2> SUFFICES ASSUME "install" \notin halted, NEW f \in Files, dir[f] \in Releases
               PROVE  Listed(f)' \/ InTurn(p, f)'
    BY <1>1 DEF Accounted
  <2>1. PICK n \in Names : f \in receipt[n].files /\ dir[f] = receipt[n].ver
    BY <1>1 DEF Accounted, Listed, InTurn, Sole
  <2>2. CASE n = job[p]
    BY <1>1, <1>2, <2>1, <2>2 DEF Taking, InTurn
  <2>3. CASE n # job[p]
    BY <1>1, <1>4, <2>1, <2>3 DEF Listed
  <2> QED
    BY <2>2, <2>3
<1> QED
  BY <1>5, <1>6, <1>7

\* A file that is taken away was under this payload's name alone.
LEMMA DropOldHalt ==
  ASSUME Sole, HaltInv, NEW p \in Procs, NEW f \in Files, DropOld(p, f),
         halted' = halted \cup UNION {Halts(q) \cup Leaves(q) : q \in Procs}
  PROVE  Taking(p)' /\ Whole' /\ Accounted'
<1> USE DEF HaltInv
<1>1. /\ pc[p] = "drop" /\ f \in todo[p] /\ pc' = pc
      /\ dir' = dir \/ dir' = [dir EXCEPT ![f] = Missing]
      /\ todo'[p] = todo[p] \ {f}
      /\ UNCHANGED <<receipt, job, man>>
  BY Facts DEF DropOld
<1>2. New(p)' = New(p)
  BY <1>1 DEF New
<1>3. PICK r \in Releases : todo[p] \subseteq Payload[r][job[p]]
  BY <1>1 DEF Taking
<1>4. Taking(p)'
  BY <1>1, <1>3 DEF Taking
<1>5. \A g \in Files : dir'[g] = dir[g] \/ (g = f /\ dir'[g] = Missing)
  BY <1>1, Facts
<1>6. receipt[job[p]].state # "complete" /\ job[p] \in Names
  <2>1. receipt[job[p]] = Entry(p) /\ job[p] \in Names
    BY <1>1, OnDisk, Facts
  <2> QED
    BY <2>1 DEF Entry
<1>7. \A q \in Procs : pc[q] # "unlink"
  BY <1>1 DEF Sole
<1>8. Whole'
  <2> SUFFICES ASSUME "remove" \notin halted, NEW n \in Names, receipt[n].state = "complete",
                      NEW g \in receipt[n].files
               PROVE  dir'[g] # Missing
    BY <1>1 DEF Whole, CompleteMeansWhole
  <2>1. g # f
    BY <1>1, <1>3, <1>6, Elsewhere
  <2>2. g \in Files
    BY Facts DEF Entries, NoEntry
  <2>3. dir[g] # Missing
    BY <1>7 DEF Whole, CompleteMeansWhole
  <2> QED
    BY <1>5, <2>1, <2>2, <2>3
<1>9. Accounted'
  <2> SUFFICES ASSUME "install" \notin halted', NEW g \in Files, dir'[g] \in Releases
               PROVE  Listed(g)' \/ InTurn(p, g)'
    BY DEF Accounted
  <2>1. dir'[g] = dir[g]
    BY <1>5, BytesAssumption
  <2>2. Listed(g) \/ InTurn(p, g)
    BY <2>1 DEF Accounted, Sole
  <2>3. CASE Listed(g)
    BY <1>1, <2>1, <2>3 DEF Listed
  <2>4. CASE InTurn(p, g) /\ g # f
    BY <1>1, <1>2, <2>4 DEF InTurn
  <2>5. CASE g = f
    <3>1. dir' = dir /\ dir[f] # Missing
      BY <1>1, <2>1, <2>5, BytesAssumption, Facts
    <3>2. f \in todo[p] \ todo'[p] /\ pc[p] = "drop" /\ pc'[p] = "drop"
      BY <1>1
    <3>3. "install" \in Leaves(p)
      BY <3>1, <3>2 DEF Leaves
    <3>4. "install" \in halted'
      BY <3>3
    <3> QED
      BY <3>4
  <2> QED
    BY <2>2, <2>3, <2>4, <2>5
<1> QED
  BY <1>4, <1>8, <1>9

LEMMA DropDoneHalt ==
  ASSUME Sole, HaltInv, halted \subseteq halted', NEW p \in Procs, DropDone(p)
  PROVE  Taking(p)' /\ Whole' /\ Accounted'
<1> USE DEF HaltInv
<1>1. /\ pc[p] = "drop" /\ pc'[p] = "swap" /\ todo[p] = {} /\ UNCHANGED <<dir, receipt, job, man>>
  BY Facts DEF DropDone, StepTo, store
<1>2. New(p)' = New(p)
  BY <1>1 DEF New
<1>3. Accounted'
  <2> SUFFICES ASSUME "install" \notin halted, NEW g \in Files, dir[g] \in Releases
               PROVE  Listed(g)' \/ InTurn(p, g)'
    BY <1>1 DEF Accounted
  <2>1. Listed(g) \/ InTurn(p, g)
    BY DEF Accounted, Sole
  <2> QED
    BY <1>1, <1>2, <2>1 DEF Listed, InTurn
<1> QED
  BY <1>1, <1>3, NotTaking, WholeKept

LEMMA SwapFileHalt ==
  ASSUME Sole, HaltInv, halted \subseteq halted', NEW p \in Procs, NEW f \in Files, SwapFile(p, f)
  PROVE  Taking(p)' /\ Whole' /\ Accounted'
<1> USE DEF HaltInv
<1>1. pc[p] = "swap" /\ f \in todo[p] /\ UNCHANGED <<receipt, job, man>>
  BY DEF SwapFile
<1>2. f \in New(p) /\ stage[job[p]][f] = man[p]
  BY <1>1 DEF Sound, Work, SwappedSoFar
<1>3. dir' = [dir EXCEPT ![f] = man[p]] /\ pc' = pc
  BY <1>1, <1>2, Facts DEF SwapFile
<1>4. New(p)' = New(p)
  BY <1>1 DEF New
<1>5. \A g \in Files : dir'[g] = dir[g] \/ (g = f /\ dir'[g] = man[p])
  BY <1>3, Facts
<1>6. \A q \in Procs : pc[q] # "unlink"
  BY <1>1 DEF Sole
<1>7. Whole'
  <2> SUFFICES ASSUME "remove" \notin halted, NEW n \in Names, receipt[n].state = "complete",
                      NEW g \in receipt[n].files
               PROVE  dir'[g] # Missing
    BY <1>1 DEF Whole, CompleteMeansWhole
  <2>1. g \in Files
    BY Facts DEF Entries, NoEntry
  <2>2. dir[g] # Missing
    BY <1>6 DEF Whole, CompleteMeansWhole
  <2> QED
    BY <1>5, <2>1, <2>2, Facts
<1>8. Accounted'
  <2> SUFFICES ASSUME "install" \notin halted, NEW g \in Files, dir'[g] \in Releases
               PROVE  Listed(g)' \/ InTurn(p, g)'
    BY DEF Accounted
  <2>1. CASE g = f
    BY <1>1, <1>2, <1>3, <1>4, <2>1 DEF InTurn
  <2>2. CASE g # f
    <3>1. dir'[g] = dir[g]
      BY <1>5, <2>2
    <3>2. Listed(g) \/ InTurn(p, g)
      BY <3>1 DEF Accounted, Sole
    <3> QED
      BY <1>1, <1>3, <1>4, <3>1, <3>2 DEF Listed, InTurn
  <2> QED
    BY <2>1, <2>2
<1> QED
  BY <1>1, <1>3, <1>7, <1>8, NotTaking

LEMMA MarkCompleteHalt ==
  ASSUME Sole, HaltInv, halted \subseteq halted', NEW p \in Procs, MarkComplete(p)
  PROVE  Taking(p)' /\ Whole' /\ Accounted'
<1> USE DEF HaltInv
<1> DEFINE done == [state |-> "complete", ver |-> ver[p], files |-> New(p)]
<1>1. /\ pc[p] = "swap" /\ todo[p] = {} /\ pc'[p] = "idle" /\ UNCHANGED dir
      /\ receipt' = [rcpt[p] EXCEPT ![job[p]].state = "complete"]
  BY Facts DEF MarkComplete, StepTo
<1>2. receipt = rcpt[p] /\ receipt[job[p]] = Entry(p) /\ man[p] = ver[p]
  BY <1>1, OnDisk
<1>3. \A f \in New(p) : dir[f] = man[p]
  BY <1>1 DEF Sound, Work, SwappedSoFar
<1>4. receipt[job[p]].ver = ver[p] /\ receipt[job[p]].files = New(p)
  BY <1>2 DEF Entry
<1>5. /\ job[p] \in Names /\ receipt'[job[p]].ver = ver[p] /\ receipt'[job[p]].files = New(p)
      /\ \A n \in Names : n # job[p] => receipt'[n] = receipt[n]
  BY <1>1, <1>2, <1>4, Facts
<1>6. \A q \in Procs : pc[q] # "unlink"
  BY <1>1 DEF Sole
<1>7. Whole'
  <2> SUFFICES ASSUME "remove" \notin halted, NEW n \in Names, receipt'[n].state = "complete",
                      NEW g \in receipt'[n].files
               PROVE  dir[g] # Missing
    BY <1>1 DEF Whole, CompleteMeansWhole
  <2>1. CASE n = job[p]
    BY <1>3, <1>5, <2>1, Facts
  <2>2. CASE n # job[p]
    BY <1>5, <1>6, <2>2 DEF Whole, CompleteMeansWhole
  <2> QED
    BY <2>1, <2>2
<1>8. Accounted'
  <2> SUFFICES ASSUME "install" \notin halted, NEW g \in Files, dir[g] \in Releases
               PROVE  Listed(g)'
    BY <1>1 DEF Accounted
  <2>1. CASE g \in New(p)
    BY <1>1, <1>2, <1>3, <1>5, <2>1 DEF Listed
  <2>2. CASE g \notin New(p)
    <3>1. ~InTurn(p, g)
      BY <1>1, <2>2 DEF InTurn
    <3>2. PICK n \in Names : g \in receipt[n].files /\ dir[g] = receipt[n].ver
      BY <3>1 DEF Accounted, Sole, Listed
    <3>3. n # job[p]
      BY <1>4, <2>2, <3>2
    <3> QED
      BY <1>1, <1>5, <3>2, <3>3 DEF Listed
  <2> QED
    BY <2>1, <2>2
<1> QED
  BY <1>1, <1>7, <1>8, NotTaking

LEMMA RemoveBeginsHalt ==
  ASSUME Sole, HaltInv, halted \subseteq halted', NEW p \in Procs, NEW n \in Names, NEW m \in Releases,
         RemoveBegins(p, n, m)
  PROVE  Taking(p)' /\ Whole' /\ Accounted'
<1> USE DEF HaltInv
<1>1. /\ pc[p] = "idle" /\ pc'[p] = "unlink" /\ job'[p] = n /\ UNCHANGED <<dir, receipt>>
      /\ todo'[p] = IF receipt[n] = NoEntry THEN Payload[m][n] ELSE receipt[n].files
  BY Facts DEF RemoveBegins, StepTo, store, Sound, TypeInv, StoreTypeOK
<1>2. CASE receipt[n] = NoEntry
  <2>1. receipt[n].files = {}
    BY <1>2 DEF NoEntry
  <2>2. Taking(p)'
    BY <1>1, <1>2, <2>1 DEF Taking
  <2> QED
    BY <1>1, <2>2, WholeKept, AccountedKept
<1>3. CASE receipt[n] # NoEntry
  <2>1. \E r \in Releases : receipt[n].files = Payload[r][n]
    BY <1>3 DEF Sound, TypeInv, StoreTypeOK
  <2>2. Taking(p)'
    BY <1>1, <1>3, <2>1 DEF Taking
  <2> QED
    BY <1>1, <2>2, WholeKept, AccountedKept
<1> QED
  BY <1>2, <1>3

LEMMA UnlinkHalt ==
  ASSUME Sole, HaltInv, halted \subseteq halted', NEW p \in Procs, NEW f \in Files, Unlink(p, f)
  PROVE  Taking(p)' /\ Whole' /\ Accounted'
<1> USE DEF HaltInv
<1>1. /\ pc[p] = "unlink" /\ pc' = pc /\ f \in todo[p] /\ todo'[p] = todo[p] \ {f}
      /\ dir' = [dir EXCEPT ![f] = Missing] /\ UNCHANGED <<receipt, job, man>>
  BY Facts DEF Unlink
<1>2. \A g \in Files : dir'[g] = IF g = f THEN Missing ELSE dir[g]
  BY <1>1, Facts
<1>3. PICK r \in Releases : todo[p] \subseteq Payload[r][job[p]]
  BY <1>1 DEF Taking
<1>4. \A n \in Names : receipt[n].files \subseteq Files
  BY Facts DEF Entries, NoEntry
<1>5. job[p] \in Names
  BY Facts
<1>6. Taking(p)'
  BY <1>1, <1>2, <1>3, <1>4, <1>5 DEF Taking
<1>7. Whole'
  <2> SUFFICES ASSUME "remove" \notin halted, NEW n \in Names, receipt[n].state = "complete",
                      \A q \in Procs : ~(pc[q] = "unlink" /\ job[q] = n),
                      NEW g \in receipt[n].files
               PROVE  dir'[g] # Missing
    BY <1>1 DEF Whole, CompleteMeansWhole
  <2>1. n # job[p]
    BY <1>1
  <2>2. g # f
    BY <1>1, <1>3, <1>5, <2>1, Elsewhere
  <2>3. dir[g] # Missing
    BY DEF Whole, CompleteMeansWhole
  <2> QED
    BY <1>2, <1>4, <2>2, <2>3
<1>8. Accounted'
  <2> SUFFICES ASSUME "install" \notin halted, NEW g \in Files, dir'[g] \in Releases
               PROVE  Listed(g)'
    BY DEF Accounted
  <2>1. dir'[g] = dir[g]
    BY <1>2, BytesAssumption
  <2>2. ~InTurn(p, g)
    BY <1>1 DEF InTurn
  <2> QED
    BY <1>1, <2>1, <2>2 DEF Accounted, Sole, Listed
<1> QED
  BY <1>6, <1>7, <1>8

LEMMA RemoveEndsHalt ==
  ASSUME Sole, HaltInv, halted \subseteq halted', NEW p \in Procs, RemoveEnds(p)
  PROVE  Taking(p)' /\ Whole' /\ Accounted'
<1> USE DEF HaltInv
<1>1. /\ pc[p] = "unlink" /\ todo[p] = {} /\ pc'[p] = "idle" /\ receipt' = rcpt[p] /\ UNCHANGED dir
  BY Facts DEF RemoveEnds, StepTo
<1>2. rcpt[p] = [receipt EXCEPT ![job[p]] = NoEntry]
  BY <1>1 DEF Sound, Work, InStep
<1>3. /\ receipt'[job[p]] = NoEntry /\ job[p] \in Names
      /\ \A n \in Names : n # job[p] => receipt'[n] = receipt[n]
  BY <1>1, <1>2, Facts
<1>4. Whole'
  <2> SUFFICES ASSUME "remove" \notin halted, NEW n \in Names, receipt'[n].state = "complete",
                      NEW g \in receipt'[n].files
               PROVE  dir[g] # Missing
    BY <1>1 DEF Whole, CompleteMeansWhole
  <2>1. n # job[p]
    BY <1>3 DEF NoEntry
  <2>2. \A q \in Procs : ~(pc[q] = "unlink" /\ job[q] = n)
    BY <2>1 DEF Sole
  <2> QED
    BY <1>3, <2>1, <2>2 DEF Whole, CompleteMeansWhole
<1>5. Accounted'
  <2> SUFFICES ASSUME "install" \notin halted, NEW g \in Files, dir[g] \in Releases
               PROVE  Listed(g)'
    BY <1>1 DEF Accounted
  <2>1. ~InTurn(p, g)
    BY <1>1 DEF InTurn
  <2>2. PICK n \in Names : g \in receipt[n].files /\ dir[g] = receipt[n].ver
    BY <2>1 DEF Accounted, Sole, Listed
  <2>3. n # job[p]
    BY <1>1, <2>2, BytesAssumption DEF Taking
  <2> QED
    BY <1>1, <1>3, <2>2, <2>3 DEF Listed
<1> QED
  BY <1>1, <1>4, <1>5, NotTaking

\* What stops half-way is remembered; what stops before or after is harmless.
LEMMA InterruptHalt ==
  ASSUME Sole, HaltInv, NEW p \in Procs, Interrupt(p),
         halted' = halted \cup UNION {Halts(q) \cup Leaves(q) : q \in Procs}
  PROVE  Taking(p)' /\ Whole' /\ Accounted'
<1> USE DEF HaltInv
<1>1. pc'[p] = "idle" /\ UNCHANGED <<dir, receipt, job, rcpt>> /\ halted \subseteq halted'
  BY Facts DEF Interrupt, StepTo, store
<1>2. Halts(p) \subseteq halted' /\ job[p] \in Names
  BY Facts
<1>3. CASE pc[p] \in {"drop", "swap"}
  <2>1. receipt[job[p]] = Entry(p)
    BY <1>3, OnDisk
  <2>2. receipt'[job[p]].state # "complete"
    BY <1>1, <2>1 DEF Entry
  <2>3. "install" \in halted'
    BY <1>1, <1>2, <1>3, <2>2 DEF Halts
  <2> QED
    BY <1>1, <1>3, <2>3, WholeKept, NotTaking DEF Accounted
<1>4. CASE pc[p] = "unlink"
  <2>1. CASE receipt # rcpt[p]
    <3>1. "remove" \in halted'
      BY <1>1, <1>2, <1>4, <2>1 DEF Halts
    <3> QED
      BY <1>1, <1>4, <3>1, AccountedKept, NotTaking DEF Whole
  <2>2. CASE receipt = rcpt[p]
    <3>1. receipt[job[p]] = NoEntry
      <4>1. rcpt[p] = [receipt EXCEPT ![job[p]] = NoEntry]
        BY <1>4 DEF Sound, Work, InStep
      <4>2. rcpt[p][job[p]] = NoEntry
        BY <1>2, <4>1, Facts
      <4> QED
        BY <2>2, <4>2
    <3>2. Whole'
      <4> SUFFICES ASSUME "remove" \notin halted, NEW n \in Names, receipt[n].state = "complete",
                          NEW g \in receipt[n].files
                   PROVE  dir[g] # Missing
        BY <1>1 DEF Whole, CompleteMeansWhole
      <4>1. n # job[p]
        BY <3>1 DEF NoEntry
      <4>2. \A q \in Procs : ~(pc[q] = "unlink" /\ job[q] = n)
        BY <4>1 DEF Sole
      <4> QED
        BY <4>2 DEF Whole, CompleteMeansWhole
    <3> QED
      BY <1>1, <1>4, <3>2, AccountedKept, NotTaking
  <2> QED
    BY <2>1, <2>2
<1>5. CASE pc[p] \notin {"drop", "swap", "unlink"}
  BY <1>1, <1>5, WholeKept, AccountedKept, NotTaking
<1> QED
  BY <1>3, <1>4, <1>5

LEMMA PlaceByHandHalt ==
  ASSUME HaltInv, halted \subseteq halted', NEW f \in Files, PlaceByHand(f)
  PROVE  (\A p \in Procs : Taking(p)') /\ Whole' /\ Accounted'
<1> USE DEF HaltInv
<1>1. /\ \A n \in Names : receipt[n] = NoEntry
      /\ dir' = [dir EXCEPT ![f] = ByHand]
      /\ UNCHANGED <<receipt, pc, job, man, todo>>
  BY DEF PlaceByHand
<1>2. \A n \in Names : receipt[n].files = {} /\ receipt[n].state # "complete"
  BY <1>1 DEF NoEntry
<1>3. ASSUME NEW p \in Procs PROVE Taking(p)'
  <2>1. job[p] \in Names
    BY Facts
  <2> QED
    BY <1>1, <1>2, <2>1 DEF Taking, New
<1>4. Whole'
  BY <1>1, <1>2 DEF Whole, CompleteMeansWhole
<1>5. Accounted'
  <2> SUFFICES ASSUME "install" \notin halted, NEW g \in Files, dir'[g] \in Releases
               PROVE  \E p \in Procs : InTurn(p, g)'
    BY DEF Accounted
  <2>1. dir'[g] = dir[g]
    BY <1>1, BytesAssumption DEF Sound, TypeInv, StoreTypeOK
  <2>2. PICK p \in Procs : InTurn(p, g)
    BY <1>2, <2>1 DEF Accounted, Listed
  <2> QED
    BY <1>1, <2>2 DEF InTurn, New
<1> QED
  BY <1>3, <1>4, <1>5

\* Upgrades and steps of nothing.
LEMMA NobodyMovesHalt ==
  ASSUME HaltInv, halted \subseteq halted', UNCHANGED <<dir, receipt, pc, job, man, todo>>
  PROVE  (\A p \in Procs : Taking(p)') /\ Whole' /\ Accounted'
<1> USE DEF HaltInv
<1>1. \A p \in Procs : Taking(p)'
  BY DEF Taking, New
<1>2. Whole'
  BY DEF Whole, CompleteMeansWhole
<1>3. Accounted'
  BY DEF Accounted, Listed, InTurn, New
<1> QED
  BY <1>1, <1>2, <1>3

LEMMA NextHalt == Sole /\ HaltInv /\ [HaltNext]_haltVars => HaltInv'
<1> SUFFICES ASSUME Sole, HaltInv, [HaltNext]_haltVars PROVE HaltInv'
  OBVIOUS
<1> DEFINE more == halted' = halted \cup UNION {Halts(q) \cup Leaves(q) : q \in Procs}
<1>1. Sound'
  BY NextSound DEF HaltInv, HaltNext, haltVars
<1>2. halted \subseteq halted'
  BY DEF HaltNext, haltVars
<1>3. ASSUME NEW p \in Procs, Install(p), more PROVE Taking(p)' /\ Whole' /\ Accounted'
  BY <1>2, <1>3, StagingHalt, LoadReceiptHalt, MarkInstallingHalt, DropOldHalt, DropDoneHalt,
     SwapFileHalt, MarkCompleteHalt
     DEF Install
<1>4. ASSUME NEW p \in Procs, Remove(p) PROVE Taking(p)' /\ Whole' /\ Accounted'
  BY <1>2, <1>4, RemoveBeginsHalt, UnlinkHalt, RemoveEndsHalt DEF Remove
<1>5. CASE (\E p \in Procs : Install(p) \/ Remove(p) \/ Interrupt(p)) /\ more
  <2>1. PICK p \in Procs : Taking(p)' /\ Whole' /\ Accounted'
    BY <1>3, <1>4, <1>5, InterruptHalt
  <2>2. \A q \in Procs : Taking(q)'
    BY <2>1 DEF Sole
  <2> QED
    BY <1>1, <2>1, <2>2 DEF HaltInv
<1>6. CASE \E f \in Files : PlaceByHand(f)
  BY <1>1, <1>2, <1>6, PlaceByHandHalt DEF HaltInv
<1>7. CASE Upgrade \/ UNCHANGED haltVars
  <2>1. UNCHANGED <<dir, receipt, pc, job, man, todo>>
    BY <1>7 DEF Upgrade, haltVars, storeVars, store
  <2> QED
    BY <1>1, <1>2, <2>1, NobodyMovesHalt DEF HaltInv
<1> QED
  BY <1>5, <1>6, <1>7 DEF HaltNext, StoreNext

\* For one process at a time: until a remove stops half-way, a payload the loader
\* accepts has every file its receipt lists; and until an install does, or leaves a
\* file it could not delete, a folder that is loaded holds no file of knaif's that
\* the receipt does not list (backend_store.rs:138-161, 433-460).
THEOREM SoundUntilStopped ==
  ASSUME Sole
  PROVE  HaltSpec => []SoundUntilHalted
<1>1. HaltInv => SoundUntilHalted
  <2> SUFFICES ASSUME HaltInv PROVE SoundUntilHalted
    OBVIOUS
  <2>1. "remove" \notin halted => CompleteMeansWhole
    BY DEF HaltInv, Whole
  <2>2. ASSUME "install" \notin halted, Unmanaged \/ Current(rel), NEW f \in Files, dir[f] \in Releases
        PROVE  \E n \in Names : f \in receipt[n].files /\ dir[f] = receipt[n].ver
    <3>1. ASSUME NEW p \in Procs, pc[p] \in {"drop", "swap"} PROVE FALSE
      <4>1. receipt[job[p]] = Entry(p) /\ job[p] \in Names
        BY <3>1, OnDisk, Facts DEF HaltInv
      <4>2. receipt[job[p]].state = "installing" /\ receipt[job[p]] # NoEntry
        BY <4>1 DEF Entry, NoEntry
      <4> QED
        BY <2>2, <4>1, <4>2 DEF Unmanaged, Current
    <3>2. \A p \in Procs : ~InTurn(p, f)
      BY <3>1 DEF InTurn
    <3> QED
      BY <2>2, <3>2 DEF HaltInv, Accounted, Listed
  <2> QED
    BY <2>1, <2>2 DEF SoundUntilHalted, OnlyReceiptLoaded
<1>2. HaltInv /\ [HaltNext]_haltVars => HaltInv'
  BY NextHalt
<1> QED
  BY <1>1, <1>2, InitHalt, PTL DEF HaltSpec

----------------------------------------------------------------------------
(* The daemon *)

\* The daemon has published its record.
Born(d) == phase[d] \notin {"unborn", "loading"}

\* The daemon accepts no connection any more.
Gone(d) == phase[d] \in {"closed", "freed", "retiring", "exited"}

Talking == {"call", "discard", "discarding", "await", "reap", "generate", "generating"}

\* A client that polls has spawned a child, and nothing else has one.
PollsItsChild(c) ==
  /\ op[c] = "poll" => /\ c \in Starters /\ child[c] \in Daemons
                       /\ at[c] \in {"read", "call", "discard", "discarding", "check", "ok", "failed", "dead"}
  /\ at[c] = "check" => op[c] = "poll"
  /\ c \in Starters /\ child[c] # NoDaemon => op[c] = "poll"
  /\ c \in Starters /\ at[c] = "failed" /\ child[c] # NoDaemon => phase[child[c]] = "exited"

\* `daemon stop` does nothing but stop.
OnlyStops(c) ==
  c \in Stoppers =>
    /\ op[c] = "stop" /\ at[c] \notin {"generate", "generating"}
    /\ at[c] = "ok" => tgt[c] \in Daemons /\ phase[tgt[c]] = "exited"

\* A client talks to a daemon that has published; it discards the record of one
\* that is gone, unless a call of its own may break.
TalksToBorn(c) ==
  /\ at[c] \in Talking => tgt[c] \in Daemons /\ Born(tgt[c])
  /\ at[c] \in {"discard", "discarding"} /\ c \notin Faltering => Gone(tgt[c])

ClientInv(c) ==
  /\ PollsItsChild(c) /\ OnlyStops(c) /\ TalksToBorn(c)
  /\ at[c] \notin {"discarding", "dead"} => aside[c] = NoDaemon

DaemonInv(d) == phase[d] \notin {"retiring", "exited"} => aside[d] = NoDaemon

\* Only a daemon that has published is named by a record, in place or aside.
RecordInv ==
  /\ record # NoDaemon => Born(record)
  /\ \A p \in Clients \cup Daemons : aside[p] # NoDaemon => Born(aside[p])

\* The types of the variables that are not the lock's.
TypesHold ==
  /\ record \in Daemons \cup {NoDaemon}
  /\ aside \in [Clients \cup Daemons -> Daemons \cup {NoDaemon}]
  /\ phase \in [Daemons -> Phases]
  /\ cfg \in [Daemons -> Settings]
  /\ op \in [Clients -> Ops]
  /\ at \in [Clients -> Places]
  /\ tgt \in [Clients -> Daemons \cup {NoDaemon}]
  /\ child \in [Starters -> Daemons \cup {NoDaemon}]
  /\ spent \in [Starters -> Nat]

\* The inductive invariant.
LifeInv ==
  /\ LockTypeOK
  /\ TypesHold
  /\ RecordInv
  /\ \A c \in Clients : ClientInv(c)
  /\ \A d \in Daemons : DaemonInv(d)

LEMMA DaemonsAreNumbers ==
  /\ NoDaemon \notin Daemons /\ 1 \in Daemons
  /\ Clients \cap Daemons = {} /\ Stoppers \cap (Starters \cup Runners) = {}
  /\ Starters \cap Runners = {} /\ Starters \subseteq Clients
BY LifecycleAssumption DEF NoDaemon, Daemons, Clients

LEMMA InvIsTypeOK == LifeInv => TypeOK
BY DEF LifeInv, TypeOK, TypesHold, ClientInv, PollsItsChild, TalksToBorn, Talking, Clients

----------------------------------------------------------------------------
\* The lock.

LEMMA LockStepTypes ==
  ASSUME LockTypeOK,
         \/ \E p \in Starters : BeginWait(p) \/ Acquire(p) \/ Release(p) \/ Age(p)
         \/ UNCHANGED lockVars
  PROVE  LockTypeOK'
<1>1. CASE UNCHANGED lockVars
  BY <1>1 DEF lockVars, LockTypeOK
<1>2. ASSUME NEW p \in Starters, BeginWait(p) \/ Acquire(p) \/ Release(p) \/ Age(p)
      PROVE  LockTypeOK'
  <2>1. CASE BeginWait(p) \/ CreateLock(p) \/ LookStale(p) \/ GiveUp(p) \/ Release(p)
    BY <2>1 DEF LockTypeOK, LockPhases, BeginWait, CreateLock, LookStale, GiveUp, Release, DropCheck, DropUnlink
  <2>2. CASE WriteId(p) \/ Age(p)
    BY <2>2 DEF LockTypeOK, LockPhases, WriteId, Age
  <2>3. CASE MoveAside(p) \/ Bury(p)
    BY <2>3 DEF LockTypeOK, LockPhases, MoveAside, Bury
  <2> QED
    BY <1>2, <2>1, <2>2, <2>3 DEF Acquire
<1> QED
  BY <1>1, <1>2

----------------------------------------------------------------------------
\* What every step of Next is, seen from the parts of the invariant.

\* A phase only moves on: unborn, loading, serving and busy, and then the end.
MovesOn ==
  \A d \in Daemons :
    /\ Born(d) => Born(d)'
    /\ Gone(d) => Gone(d)'
    /\ phase[d] = "exited" => phase'[d] = "exited"

\* A step that leaves client c where it is keeps what is known of it.
LEMMA ClientRests ==
  ASSUME TypesHold, MovesOn, NEW c \in Clients, ClientInv(c),
         at'[c] = at[c], op'[c] = op[c], tgt'[c] = tgt[c], aside'[c] = aside[c],
         c \in Starters => child'[c] = child[c]
  PROVE  ClientInv(c)'
<1>1. PollsItsChild(c)'
  <2>1. c \in Starters => child[c] \in Daemons \cup {NoDaemon}
    BY DEF TypesHold
  <2> QED
    BY <2>1 DEF ClientInv, PollsItsChild, MovesOn
<1>2. OnlyStops(c)' /\ TalksToBorn(c)'
  BY DEF ClientInv, OnlyStops, TalksToBorn, MovesOn, Talking
<1> QED
  BY <1>1, <1>2 DEF ClientInv

\* Client c takes a step, and the others stay where they are.
OthersRest(c) ==
  \A e \in Clients : e # c =>
    /\ at'[e] = at[e] /\ op'[e] = op[e] /\ tgt'[e] = tgt[e] /\ aside'[e] = aside[e]
    /\ e \in Starters => child'[e] = child[e]

LEMMA ClientSteps ==
  ASSUME LifeInv, NEW c \in Clients, OthersRest(c), MovesOn,
         LockTypeOK', TypesHold', RecordInv', \A d \in Daemons : DaemonInv(d)', ClientInv(c)'
  PROVE  LifeInv'
<1>1. ASSUME NEW e \in Clients PROVE ClientInv(e)'
  <2>1. CASE e = c
    BY <2>1
  <2>2. CASE e # c
    BY <2>2, ClientRests DEF LifeInv, OthersRest
  <2> QED
    BY <2>1, <2>2
<1> QED
  BY <1>1 DEF LifeInv

\* A step of client c that touches neither a record nor a daemon.
LEMMA ClientStepsAlone ==
  ASSUME LifeInv, NEW c \in Clients, OthersRest(c), UNCHANGED <<record, aside, phase, cfg>>,
         LockTypeOK', TypesHold', ClientInv(c)'
  PROVE  LifeInv'
<1>1. MovesOn /\ RecordInv' /\ \A d \in Daemons : DaemonInv(d)'
  BY DEF MovesOn, LifeInv, RecordInv, DaemonInv, Born, Gone
<1> QED
  BY <1>1, ClientSteps

\* A step of the daemons that no client takes part in.
LEMMA DaemonSteps ==
  ASSUME LifeInv, UNCHANGED <<lockVars, clientVars>>, MovesOn,
         TypesHold', RecordInv', \A d \in Daemons : DaemonInv(d)',
         \A c \in Clients : aside'[c] = aside[c]
  PROVE  LifeInv'
<1>1. LockTypeOK'
  BY LockStepTypes DEF LifeInv
<1>2. ASSUME NEW c \in Clients PROVE ClientInv(c)'
  BY ClientRests DEF LifeInv, clientVars
<1> QED
  BY <1>1, <1>2 DEF LifeInv

----------------------------------------------------------------------------
\* The daemon's own steps.

LEMMA PhaseSteps ==
  ASSUME LifeInv, NEW d \in Daemons, NEW x \in Phases,
         UNCHANGED <<lockVars, clientVars, recordVars, cfg>>,
         phase' = [phase EXCEPT ![d] = x],
         Born(d) \/ x = "exited" => x \notin {"unborn", "loading"},
         Gone(d) => x \in {"closed", "freed", "retiring", "exited"},
         phase[d] = "exited" => x = "exited",
         x \notin {"retiring", "exited"} => aside[d] = NoDaemon
  PROVE  LifeInv'
<1>1. TypesHold'
  BY DEF LifeInv, TypesHold, clientVars, recordVars
<1>2. MovesOn
  BY DEF LifeInv, TypesHold, MovesOn, Born, Gone
<1>3. RecordInv'
  BY <1>2 DEF LifeInv, TypesHold, RecordInv, MovesOn, recordVars
<1>4. \A e \in Daemons : DaemonInv(e)'
  BY DEF LifeInv, TypesHold, DaemonInv, recordVars
<1> QED
  BY <1>1, <1>2, <1>3, <1>4, DaemonSteps DEF recordVars

LEMMA PhaseStepsKeep ==
  ASSUME LifeInv, NEW d \in Daemons, LoadFails(d) \/ Leave(d) \/ Free(d) \/ DaemonDies(d)
  PROVE  LifeInv'
<1>1. PICK x \in {"closed", "freed", "exited"} :
          /\ phase' = [phase EXCEPT ![d] = x] /\ UNCHANGED <<lockVars, clientVars, recordVars, cfg>>
          /\ x = "closed" => phase[d] = "serving"
          /\ x = "freed" => phase[d] = "closed"
          /\ phase[d] # "exited"
  BY DEF LoadFails, Leave, Free, DaemonDies
<1>2. DaemonInv(d)
  BY DEF LifeInv
<1> QED
  BY <1>1, <1>2, PhaseSteps DEF Phases, Born, Gone, DaemonInv

LEMMA PublishKeeps ==
  ASSUME LifeInv, NEW d \in Daemons, Publish(d)
  PROVE  LifeInv'
<1>1. /\ phase[d] = "loading" /\ phase' = [phase EXCEPT ![d] = "serving"]
      /\ record' = d /\ UNCHANGED <<lockVars, clientVars, aside, cfg>>
  BY DEF Publish
<1>2. TypesHold'
  BY <1>1 DEF LifeInv, TypesHold, clientVars, Phases
<1>3. MovesOn
  BY <1>1 DEF LifeInv, TypesHold, MovesOn, Born, Gone
<1>4. RecordInv'
  BY <1>1, <1>3 DEF LifeInv, TypesHold, RecordInv, MovesOn, Born
<1>5. \A e \in Daemons : DaemonInv(e)'
  BY <1>1 DEF LifeInv, TypesHold, DaemonInv
<1> QED
  BY <1>1, <1>2, <1>3, <1>4, <1>5, DaemonSteps

\* Taking a record and putting it back move records that are known.
LEMMA TakeRecordInv ==
  ASSUME TypesHold, RecordInv, NEW p \in Clients \cup Daemons, TakeRecord(p), MovesOn, phase' \in [Daemons -> Phases]
  PROVE  /\ RecordInv' /\ record' \in Daemons \cup {NoDaemon}
         /\ aside' \in [Clients \cup Daemons -> Daemons \cup {NoDaemon}]
BY DEF TypesHold, RecordInv, TakeRecord, MovesOn

LEMMA PutBackInv ==
  ASSUME TypesHold, RecordInv, NEW p \in Clients \cup Daemons, NEW d, PutBack(p, d), MovesOn
  PROVE  /\ RecordInv' /\ record' \in Daemons \cup {NoDaemon}
         /\ aside' \in [Clients \cup Daemons -> Daemons \cup {NoDaemon}]
BY DEF TypesHold, RecordInv, PutBack, MovesOn

LEMMA RetireTakeKeeps ==
  ASSUME LifeInv, NEW d \in Daemons, RetireTake(d)
  PROVE  LifeInv'
<1>1. CASE record = NoDaemon
  <2>1. phase' = [phase EXCEPT ![d] = "exited"] /\ UNCHANGED <<lockVars, clientVars, recordVars, cfg>>
    BY <1>1 DEF RetireTake
  <2> QED
    BY <2>1, PhaseSteps DEF Phases
<1>2. CASE record # NoDaemon
  <2>1. /\ phase[d] = "freed" /\ TakeRecord(d) /\ phase' = [phase EXCEPT ![d] = "retiring"]
        /\ UNCHANGED <<lockVars, clientVars, cfg>>
    BY <1>2 DEF RetireTake
  <2>2. MovesOn /\ phase' \in [Daemons -> Phases]
    BY <2>1 DEF LifeInv, TypesHold, MovesOn, Born, Gone, Phases
  <2>3. TypesHold' /\ RecordInv'
    BY <2>1, <2>2, TakeRecordInv DEF LifeInv, TypesHold, clientVars
  <2>4. /\ \A e \in Daemons : DaemonInv(e)'
        /\ \A c \in Clients : aside'[c] = aside[c]
    BY <2>1, DaemonsAreNumbers DEF LifeInv, TypesHold, DaemonInv, TakeRecord
  <2> QED
    BY <2>1, <2>2, <2>3, <2>4, DaemonSteps
<1> QED
  BY <1>1, <1>2

LEMMA RetirePutKeeps ==
  ASSUME LifeInv, NEW d \in Daemons, RetirePut(d)
  PROVE  LifeInv'
<1>1. /\ phase[d] = "retiring" /\ PutBack(d, d) /\ phase' = [phase EXCEPT ![d] = "exited"]
      /\ UNCHANGED <<lockVars, clientVars, cfg>>
  BY DEF RetirePut
<1>2. MovesOn /\ phase' \in [Daemons -> Phases]
  BY <1>1 DEF LifeInv, TypesHold, MovesOn, Born, Gone, Phases
<1>3. TypesHold' /\ RecordInv'
  BY <1>1, <1>2, PutBackInv DEF LifeInv, TypesHold, clientVars
<1>4. /\ \A e \in Daemons : DaemonInv(e)'
      /\ \A c \in Clients : aside'[c] = aside[c]
  BY <1>1, DaemonsAreNumbers DEF LifeInv, TypesHold, DaemonInv, PutBack
<1> QED
  BY <1>1, <1>2, <1>3, <1>4, DaemonSteps

----------------------------------------------------------------------------
\* The clients' steps that touch neither a record nor a daemon.

\* Where a client goes when nobody answers, or too late.
LEMMA WhereTo ==
  ASSUME LifeInv, NEW c \in Clients
  PROVE  /\ IfAbsent(c) \in {"lock", "local", "spawn", "absent", "check"}
         /\ IfBusy(c) \in {"lock", "local", "failed", "check"}
         /\ IfAbsent(c) = "check" <=> op[c] = "poll"
         /\ IfBusy(c) = "check" <=> op[c] = "poll"
         /\ c \in Stoppers => IfAbsent(c) \in {"spawn", "absent"} /\ IfBusy(c) = "failed"
<1>1. op[c] \in Ops
  BY DEF LifeInv, TypesHold
<1>2. c \in Stoppers => op[c] = "stop"
  BY DEF LifeInv, ClientInv, OnlyStops
<1> QED
  BY <1>1, <1>2 DEF IfAbsent, IfBusy, Ops

LEMMA SpendType ==
  ASSUME TypesHold, NEW c \in Clients, NEW n \in Nat, Spend(c, n)
  PROVE  spent' \in [Starters -> Nat]
BY DEF TypesHold, Spend

LEMMA TimesAreNumbers ==
  CallMax \in Nat /\ StopWait \in Nat
BY DEF CallMax, ConnectTimeout, ControlTimeout, StopWait

\* What going to a place asks of a client that keeps its function and its daemon.
MayGo(c, place) ==
  /\ op[c] = "poll" => place \in {"read", "call", "discard", "discarding", "check", "ok", "failed", "dead"}
  /\ place = "check" => op[c] = "poll"
  /\ c \in Starters /\ place = "failed" /\ child[c] # NoDaemon => phase[child[c]] = "exited"
  /\ c \in Stoppers => /\ place \notin {"generate", "generating"}
                       /\ place = "ok" => tgt[c] \in Daemons /\ phase[tgt[c]] = "exited"
  /\ place \in Talking => tgt[c] \in Daemons /\ Born(tgt[c])
  /\ place \in {"discard", "discarding"} /\ c \notin Faltering => Gone(tgt[c])
  /\ place \notin {"discarding", "dead"} => aside[c] = NoDaemon

LEMMA GoesTo ==
  ASSUME LifeInv, NEW c \in Clients, NEW place \in Places, Goto(c, place), MayGo(c, place),
         UNCHANGED <<recordVars, daemonVars, op, tgt, child>>,
         spent' \in [Starters -> Nat], LockTypeOK'
  PROVE  LifeInv'
<1>1. TypesHold' /\ OthersRest(c)
  BY DEF LifeInv, TypesHold, OthersRest, Goto, recordVars, daemonVars
<1>2. at'[c] = place
  BY DEF LifeInv, TypesHold, Goto
<1>3. ClientInv(c)
  BY DEF LifeInv
<1>4. PollsItsChild(c)'
  BY <1>2, <1>3 DEF MayGo, ClientInv, PollsItsChild, daemonVars
<1>5. OnlyStops(c)' /\ TalksToBorn(c)'
  BY <1>2, <1>3 DEF MayGo, ClientInv, OnlyStops, TalksToBorn, daemonVars, Born, Gone
<1>6. ClientInv(c)'
  BY <1>2, <1>4, <1>5 DEF MayGo, ClientInv, recordVars
<1> QED
  BY <1>1, <1>6, ClientStepsAlone DEF recordVars, daemonVars

LEMMA AnsweredKeeps ==
  ASSUME LifeInv, NEW c \in Clients, NEW d \in Daemons, ConnectAnswered(c, d) \/ PollAnswered(c, d)
  PROVE  LifeInv'
<1>1. /\ at[c] = "call" /\ tgt[c] = d /\ phase[d] = "serving" /\ ClientInv(c)
      /\ UNCHANGED <<lockVars, recordVars, daemonVars, op, tgt, child, spent>>
  BY DEF LifeInv, ConnectAnswered, PollAnswered, Calls
<1>2. PICK place \in Places :
          /\ Goto(c, place)
          /\ \/ op[c] = "connect" /\ place \in {IfAbsent(c), "ok", "generate"}
             \/ op[c] = "poll" /\ place \in {"ok", "check"}
  <2>1. IfAbsent(c) \in Places
    BY WhereTo DEF Places
  <2> QED
    BY <2>1 DEF ConnectAnswered, PollAnswered, Calls, Places
<1>3. MayGo(c, place)
  <2>1. c \notin Stoppers
    BY <1>1, <1>2 DEF ClientInv, OnlyStops
  <2>2. op[c] = "connect" => IfAbsent(c) \in {"lock", "local", "spawn", "absent"}
    BY WhereTo
  <2> QED
    BY <1>1, <1>2, <2>1, <2>2 DEF MayGo, ClientInv, Born, PollsItsChild, Talking
<1>4. LockTypeOK' /\ spent' \in [Starters -> Nat]
  BY <1>1, LockStepTypes DEF LifeInv, TypesHold
<1> QED
  BY <1>1, <1>2, <1>3, <1>4, GoesTo

LEMMA UnansweredKeeps ==
  ASSUME LifeInv, NEW c \in Clients, CallTimesOut(c) \/ CallFails(c)
  PROVE  LifeInv'
<1>1. /\ at[c] = "call" /\ ClientInv(c) /\ Spend(c, CallMax)
      /\ UNCHANGED <<lockVars, recordVars, daemonVars, op, tgt, child>>
  BY DEF LifeInv, CallTimesOut, CallFails
<1>2. LockTypeOK' /\ spent' \in [Starters -> Nat]
  BY <1>1, LockStepTypes, SpendType, TimesAreNumbers DEF LifeInv
<1>3. CASE CallTimesOut(c)
  <2>1. MayGo(c, IfBusy(c)) /\ IfBusy(c) \in Places
    BY <1>1, WhereTo DEF MayGo, ClientInv, PollsItsChild, Talking, Places
  <2> QED
    BY <1>1, <1>2, <1>3, <2>1, GoesTo DEF CallTimesOut
<1>4. CASE CallFails(c)
  <2>1. c \notin Faltering => Gone(tgt[c])
    <3>1. tgt[c] \in Daemons /\ Born(tgt[c]) /\ phase[tgt[c]] \in Phases
      BY <1>1 DEF LifeInv, TypesHold, ClientInv, TalksToBorn, Talking
    <3>2. c \notin Faltering => ~Listening(tgt[c])
      BY <1>4 DEF CallFails
    <3> QED
      BY <3>1, <3>2 DEF Born, Gone, Listening, Phases
  <2>2. MayGo(c, "discard") /\ "discard" \in Places
    BY <1>1, <2>1 DEF MayGo, ClientInv, PollsItsChild, TalksToBorn, Talking, Places
  <2> QED
    BY <1>1, <1>2, <1>4, <2>2, GoesTo DEF CallFails
<1> QED
  BY <1>3, <1>4

LEMMA StopKeeps ==
  ASSUME LifeInv, NEW c \in Clients, Stop(c)
  PROVE  LifeInv'
<1>1. /\ at[c] \in {"await", "reap"} /\ ClientInv(c)
      /\ UNCHANGED <<lockVars, recordVars, daemonVars, op, tgt, child>>
  BY DEF LifeInv, Stop, AwaitGone, Reap, StopTimesOut
<1>2. LockTypeOK' /\ spent' \in [Starters -> Nat]
  BY <1>1, LockStepTypes, SpendType, TimesAreNumbers DEF LifeInv, TypesHold, Stop, AwaitGone, Reap, StopTimesOut
<1>3. PICK place \in {"reap", "spawn", "ok", "failed"} :
          /\ Goto(c, place)
          /\ place = "ok" => phase[tgt[c]] = "exited"
  BY DEF Stop, AwaitGone, Reap, StopTimesOut
<1>4. MayGo(c, place) /\ place \in Places
  BY <1>1, <1>3 DEF MayGo, ClientInv, PollsItsChild, TalksToBorn, Talking, Places
<1> QED
  BY <1>1, <1>2, <1>3, <1>4, GoesTo

LEMMA StartMovesKeep ==
  ASSUME LifeInv, NEW c \in Starters, LockRefused(c) \/ SpawnFails(c) \/ ChildExited(c) \/ PollAgain(c)
  PROVE  LifeInv'
<1>1. /\ at[c] \in {"lock", "spawn", "check"} /\ c \in Clients /\ ClientInv(c)
      /\ UNCHANGED <<lockVars, recordVars, daemonVars, op, tgt, child, spent>>
  BY DaemonsAreNumbers DEF LifeInv, LockRefused, SpawnFails, ChildExited, PollAgain
<1>2. LockTypeOK' /\ spent' \in [Starters -> Nat]
  BY <1>1, LockStepTypes DEF LifeInv, TypesHold
<1>3. PICK place \in {"failed", "read"} :
          /\ Goto(c, place)
          /\ place = "read" => at[c] = "check"
          /\ place = "failed" /\ at[c] = "check" => phase[child[c]] = "exited"
  BY DEF LockRefused, SpawnFails, ChildExited, PollAgain
<1>4. c \notin Stoppers
  BY DaemonsAreNumbers
<1>5. MayGo(c, place) /\ place \in Places
  BY <1>1, <1>3, <1>4 DEF MayGo, ClientInv, PollsItsChild, Talking, Places
<1> QED
  BY <1>1, <1>2, <1>3, <1>5, GoesTo

LEMMA FallsBackKeeps ==
  ASSUME LifeInv, NEW c \in Clients, GenerateFallsBack(c)
  PROVE  LifeInv'
<1>1. /\ at[c] \in {"generate", "generating"} /\ ClientInv(c) /\ Goto(c, "local")
      /\ UNCHANGED <<lockVars, recordVars, daemonVars, op, tgt, child, spent>>
  BY DEF LifeInv, GenerateFallsBack
<1>2. LockTypeOK' /\ spent' \in [Starters -> Nat]
  BY <1>1, LockStepTypes DEF LifeInv, TypesHold
<1>3. MayGo(c, "local") /\ "local" \in Places
  BY <1>1 DEF MayGo, ClientInv, PollsItsChild, Talking, Places
<1> QED
  BY <1>1, <1>2, <1>3, GoesTo

\* A client that dies keeps what it had moved aside.
LEMMA ClientDiesKeeps ==
  ASSUME LifeInv, NEW c \in Clients, ClientDies(c)
  PROVE  LifeInv'
<1>1. /\ ClientInv(c) /\ Goto(c, "dead")
      /\ UNCHANGED <<recordVars, daemonVars, op, tgt, child, spent, path, tomb, written, stale, met>>
      /\ lpc' = IF c \in Starters THEN [lpc EXCEPT ![c] = "dead"] ELSE lpc
  BY DEF LifeInv, ClientDies
<1>2. LockTypeOK' /\ spent' \in [Starters -> Nat]
  BY <1>1 DEF LifeInv, TypesHold, LockTypeOK, LockPhases
<1>3. MayGo(c, "dead") /\ "dead" \in Places
  BY <1>1 DEF MayGo, ClientInv, PollsItsChild, Talking, Places
<1> QED
  BY <1>1, <1>2, <1>3, GoesTo

\* The lock moves and the command stands still.
LEMMA LockMovesKeep ==
  ASSUME LifeInv, NEW c \in Starters, StartWaits(c) \/ LockStep(c) \/ DropLock(c) \/ TimePasses(c)
  PROVE  LifeInv'
<1>1. /\ BeginWait(c) \/ Acquire(c) \/ Release(c) \/ Age(c)
      /\ UNCHANGED <<recordVars, daemonVars, clientVars>>
  BY DEF StartWaits, LockStep, DropLock, TimePasses
<1>2. LockTypeOK'
  BY <1>1, LockStepTypes DEF LifeInv
<1>3. TypesHold' /\ OthersRest(c) /\ c \in Clients
  BY <1>1, DaemonsAreNumbers DEF LifeInv, TypesHold, OthersRest, recordVars, daemonVars, clientVars
<1>4. ClientInv(c)'
  <2>1. ClientInv(c) /\ MovesOn
    BY <1>1, <1>3 DEF LifeInv, MovesOn, Born, Gone, daemonVars
  <2> QED
    BY <1>1, <1>3, <2>1, ClientRests DEF LifeInv, clientVars, recordVars
<1> QED
  BY <1>1, <1>2, <1>3, <1>4, ClientStepsAlone DEF recordVars, daemonVars

----------------------------------------------------------------------------
\* The clients' steps that change their function, their daemon, a record or a
\* daemon.

LEMMA ReadRecordKeeps ==
  ASSUME LifeInv, NEW c \in Clients, ReadRecord(c)
  PROVE  LifeInv'
<1>1. /\ at[c] = "read" /\ tgt' = [tgt EXCEPT ![c] = record] /\ ClientInv(c)
      /\ Goto(c, IF record = NoDaemon THEN IfAbsent(c) ELSE "call")
      /\ UNCHANGED <<lockVars, recordVars, daemonVars, op, child, spent>>
  BY DEF LifeInv, ReadRecord
<1> DEFINE place == IF record = NoDaemon THEN IfAbsent(c) ELSE "call"
<1>2. place \in {"lock", "local", "spawn", "absent", "check", "call"}
      /\ (place = "check" => op[c] = "poll") /\ (op[c] = "poll" => place \in {"check", "call"})
      /\ (c \in Stoppers => place \in {"spawn", "absent", "call"})
      /\ (place = "call" => record # NoDaemon)
  BY WhereTo
<1> HIDE DEF place
<1>3. at' = [at EXCEPT ![c] = place] /\ at'[c] = place /\ tgt'[c] = record
  BY <1>1 DEF LifeInv, TypesHold, Goto, place
<1>4. TypesHold' /\ OthersRest(c)
  BY <1>1, <1>2, <1>3 DEF LifeInv, TypesHold, OthersRest, recordVars, daemonVars, Places
<1>5. LockTypeOK'
  BY <1>1, LockStepTypes DEF LifeInv
<1>6. record # NoDaemon => record \in Daemons /\ Born(record)
  BY DEF LifeInv, TypesHold, RecordInv
<1>7. ClientInv(c)'
  BY <1>1, <1>2, <1>3, <1>6
  DEF ClientInv, PollsItsChild, OnlyStops, TalksToBorn, Talking, Born, recordVars, daemonVars
<1> QED
  BY <1>1, <1>4, <1>5, <1>7, ClientStepsAlone DEF recordVars, daemonVars

LEMMA ProbeAnsweredKeeps ==
  ASSUME LifeInv, NEW c \in Clients, NEW d \in Daemons, ProbeAnswered(c, d)
  PROVE  LifeInv'
<1>1. /\ at[c] = "call" /\ op[c] = "probe" /\ ClientInv(c) /\ Spend(c, CallMax)
      /\ UNCHANGED <<lockVars, recordVars, daemonVars, tgt, child>>
  BY DEF LifeInv, ProbeAnswered, Calls
<1>2. \/ Goto(c, "ok") /\ UNCHANGED op
      \/ Goto(c, "read") /\ op' = [op EXCEPT ![c] = "stop"]
  BY DEF ProbeAnswered
<1>3. LockTypeOK' /\ spent' \in [Starters -> Nat]
  BY <1>1, LockStepTypes, SpendType, TimesAreNumbers DEF LifeInv
<1>4. TypesHold' /\ OthersRest(c)
  BY <1>1, <1>2, <1>3 DEF LifeInv, TypesHold, OthersRest, Goto, recordVars, daemonVars, Places, Ops
<1>5. \/ at'[c] = "ok" /\ op'[c] = "probe"
      \/ at'[c] = "read" /\ op'[c] = "stop"
  BY <1>1, <1>2 DEF LifeInv, TypesHold, Goto
<1>6. ClientInv(c)'
  BY <1>1, <1>5 DEF ClientInv, PollsItsChild, OnlyStops, TalksToBorn, Talking, recordVars, daemonVars
<1> QED
  BY <1>1, <1>3, <1>4, <1>6, ClientStepsAlone DEF recordVars, daemonVars

\* A step of client c in which daemon d's phase becomes x.
LEMMA ClientAndDaemon ==
  ASSUME LifeInv, NEW c \in Clients, NEW d \in Daemons, NEW x \in {"loading", "closed", "busy", "exited"},
         phase' = [phase EXCEPT ![d] = x],
         x = "loading" => phase[d] = "unborn",
         x \in {"closed", "busy"} => phase[d] = "serving",
         x = "exited" => phase[d] # "exited",
         UNCHANGED recordVars
  PROVE  /\ phase' \in [Daemons -> Phases] /\ MovesOn /\ RecordInv' /\ \A e \in Daemons : DaemonInv(e)'
         /\ phase'[d] = x
<1>1. phase' \in [Daemons -> Phases] /\ MovesOn /\ phase'[d] = x
  BY DEF LifeInv, TypesHold, MovesOn, Born, Gone, Phases
<1>2. RecordInv'
  BY <1>1 DEF LifeInv, TypesHold, RecordInv, MovesOn, recordVars
<1>3. \A e \in Daemons : DaemonInv(e)'
  BY DEF LifeInv, TypesHold, DaemonInv, recordVars
<1> QED
  BY <1>1, <1>2, <1>3

LEMMA StopAnsweredKeeps ==
  ASSUME LifeInv, NEW c \in Clients, NEW d \in Daemons, StopAnswered(c, d)
  PROVE  LifeInv'
<1>1. /\ at[c] = "call" /\ op[c] = "stop" /\ tgt[c] = d /\ phase[d] = "serving" /\ ClientInv(c)
      /\ Spend(c, CallMax) /\ phase' = [phase EXCEPT ![d] = "closed"]
      /\ UNCHANGED <<lockVars, recordVars, cfg, op, tgt, child>>
  BY DEF LifeInv, StopAnswered, Calls
<1>2. PICK place \in {"failed", "await"} : Goto(c, place)
  BY <1>1 DEF StopAnswered, IfBusy
<1>3. LockTypeOK' /\ spent' \in [Starters -> Nat]
  BY <1>1, LockStepTypes, SpendType, TimesAreNumbers DEF LifeInv
<1>4. phase' \in [Daemons -> Phases] /\ MovesOn /\ RecordInv' /\ (\A e \in Daemons : DaemonInv(e)')
      /\ phase'[d] = "closed"
  BY <1>1, ClientAndDaemon
<1>5. TypesHold' /\ OthersRest(c) /\ at'[c] = place
  BY <1>1, <1>2, <1>3, <1>4 DEF LifeInv, TypesHold, OthersRest, Goto, recordVars, Places
<1>6. ClientInv(c)'
  BY <1>1, <1>4, <1>5 DEF ClientInv, PollsItsChild, OnlyStops, TalksToBorn, Talking, Born, recordVars
<1> QED
  BY <1>3, <1>4, <1>5, <1>6, ClientSteps

LEMMA GenerateBeginsKeeps ==
  ASSUME LifeInv, NEW c \in Clients, NEW d \in Daemons, GenerateBegins(c, d)
  PROVE  LifeInv'
<1>1. /\ at[c] = "generate" /\ tgt[c] = d /\ phase[d] = "serving" /\ ClientInv(c)
      /\ phase' = [phase EXCEPT ![d] = "busy"] /\ Goto(c, "generating")
      /\ UNCHANGED <<lockVars, recordVars, cfg, op, tgt, child, spent>>
  BY DEF LifeInv, GenerateBegins
<1>2. LockTypeOK'
  BY <1>1, LockStepTypes DEF LifeInv
<1>3. phase' \in [Daemons -> Phases] /\ MovesOn /\ RecordInv' /\ (\A e \in Daemons : DaemonInv(e)')
      /\ phase'[d] = "busy"
  BY <1>1, ClientAndDaemon
<1>4. TypesHold' /\ OthersRest(c) /\ at'[c] = "generating"
  BY <1>1, <1>3 DEF LifeInv, TypesHold, OthersRest, Goto, recordVars, Places
<1>5. ClientInv(c)'
  BY <1>1, <1>3, <1>4 DEF ClientInv, PollsItsChild, OnlyStops, TalksToBorn, Talking, Born, recordVars
<1> QED
  BY <1>2, <1>3, <1>4, <1>5, ClientSteps

\* The answer reaches every client that waits for it.
LEMMA GenerateEndsKeeps ==
  ASSUME LifeInv, NEW d \in Daemons, GenerateEnds(d)
  PROVE  LifeInv'
<1>1. /\ phase[d] = "busy" /\ phase' = [phase EXCEPT ![d] = "serving"]
      /\ at' = [c \in Clients |-> IF at[c] = "generating" /\ tgt[c] = d THEN "ok" ELSE at[c]]
      /\ UNCHANGED <<lockVars, recordVars, cfg, op, tgt, child, spent>>
  BY DEF GenerateEnds
<1>2. TypesHold' /\ MovesOn
  BY <1>1 DEF LifeInv, TypesHold, MovesOn, Born, Gone, recordVars, Places, Phases
<1>3. RecordInv' /\ \A e \in Daemons : DaemonInv(e)'
  BY <1>1, <1>2 DEF LifeInv, TypesHold, RecordInv, DaemonInv, MovesOn, recordVars
<1>4. LockTypeOK'
  BY <1>1, LockStepTypes DEF LifeInv
<1>5. ASSUME NEW c \in Clients PROVE ClientInv(c)'
  <2>1. CASE at'[c] = at[c]
    BY <1>1, <1>2, <2>1, ClientRests DEF LifeInv, recordVars
  <2>2. CASE at'[c] # at[c]
    <3>1. at[c] = "generating" /\ at'[c] = "ok" /\ ClientInv(c)
      BY <1>1, <2>2 DEF LifeInv
    <3> QED
      BY <1>1, <3>1 DEF ClientInv, PollsItsChild, OnlyStops, TalksToBorn, Talking, recordVars
  <2> QED
    BY <2>1, <2>2
<1> QED
  BY <1>2, <1>3, <1>4, <1>5 DEF LifeInv

LEMMA EnterStartKeeps ==
  ASSUME LifeInv, NEW c \in Starters, EnterStart(c)
  PROVE  LifeInv'
<1>1. /\ at[c] = "lock" /\ c \in Clients /\ c \notin Stoppers /\ ClientInv(c)
      /\ op' = [op EXCEPT ![c] = "probe"] /\ Goto(c, "read")
      /\ UNCHANGED <<lockVars, recordVars, daemonVars, tgt, child, spent>>
  BY DaemonsAreNumbers DEF LifeInv, EnterStart
<1>2. LockTypeOK'
  BY <1>1, LockStepTypes DEF LifeInv
<1>3. TypesHold' /\ OthersRest(c) /\ at'[c] = "read" /\ op'[c] = "probe"
  BY <1>1 DEF LifeInv, TypesHold, OthersRest, Goto, recordVars, daemonVars, Places, Ops
<1>4. ClientInv(c)'
  BY <1>1, <1>3 DEF ClientInv, PollsItsChild, OnlyStops, TalksToBorn, Talking, recordVars, daemonVars
<1> QED
  BY <1>1, <1>2, <1>3, <1>4, ClientStepsAlone DEF recordVars, daemonVars

LEMMA SpawnKeeps ==
  ASSUME LifeInv, NEW c \in Starters, Spawn(c)
  PROVE  LifeInv'
<1>1. PICK d \in Daemons :
          /\ phase[d] = "unborn" /\ phase' = [phase EXCEPT ![d] = "loading"]
          /\ cfg' = [cfg EXCEPT ![d] = Wants[c]] /\ child' = [child EXCEPT ![c] = d]
  BY DEF Spawn
<1>2. /\ at[c] = "spawn" /\ c \in Clients /\ c \notin Stoppers /\ ClientInv(c) /\ Wants[c] \in Settings
      /\ op' = [op EXCEPT ![c] = "poll"] /\ Goto(c, "read")
      /\ UNCHANGED <<lockVars, recordVars, tgt, spent>>
  BY DaemonsAreNumbers, LifecycleAssumption DEF LifeInv, Spawn
<1>3. LockTypeOK'
  BY <1>2, LockStepTypes DEF LifeInv
<1>4. phase' \in [Daemons -> Phases] /\ MovesOn /\ RecordInv' /\ (\A e \in Daemons : DaemonInv(e)')
  BY <1>1, <1>2, ClientAndDaemon
<1>5. TypesHold' /\ OthersRest(c) /\ at'[c] = "read" /\ op'[c] = "poll" /\ child'[c] = d
  BY <1>1, <1>2, <1>4 DEF LifeInv, TypesHold, OthersRest, Goto, recordVars, Places, Ops
<1>6. ClientInv(c)'
  BY <1>1, <1>2, <1>5 DEF ClientInv, PollsItsChild, OnlyStops, TalksToBorn, Talking, recordVars
<1> QED
  BY <1>2, <1>3, <1>4, <1>5, <1>6, ClientSteps

LEMMA KillChildKeeps ==
  ASSUME LifeInv, NEW c \in Starters, KillChild(c)
  PROVE  LifeInv'
<1>1. /\ at[c] = "check" /\ c \in Clients /\ c \notin Stoppers /\ ClientInv(c) /\ child[c] \in Daemons
      /\ phase[child[c]] # "exited" /\ phase' = [phase EXCEPT ![child[c]] = "exited"] /\ Goto(c, "failed")
      /\ UNCHANGED <<lockVars, recordVars, cfg, op, tgt, child, spent>>
  BY DaemonsAreNumbers DEF LifeInv, KillChild, ClientInv, PollsItsChild
<1>2. LockTypeOK'
  BY <1>1, LockStepTypes DEF LifeInv
<1>3. phase' \in [Daemons -> Phases] /\ MovesOn /\ RecordInv' /\ (\A e \in Daemons : DaemonInv(e)')
      /\ phase'[child[c]] = "exited"
  BY <1>1, ClientAndDaemon
<1>4. TypesHold' /\ OthersRest(c) /\ at'[c] = "failed"
  BY <1>1, <1>3 DEF LifeInv, TypesHold, OthersRest, Goto, recordVars, Places
<1>5. ClientInv(c)'
  BY <1>1, <1>3, <1>4 DEF ClientInv, PollsItsChild, OnlyStops, TalksToBorn, Talking, recordVars
<1> QED
  BY <1>1, <1>2, <1>3, <1>4, <1>5, ClientSteps

LEMMA DiscardKeeps ==
  ASSUME LifeInv, NEW c \in Clients, DiscardTake(c) \/ DiscardPut(c)
  PROVE  LifeInv'
<1>1. /\ at[c] \in {"discard", "discarding"} /\ ClientInv(c)
      /\ UNCHANGED <<lockVars, daemonVars, op, tgt, child, spent>>
  BY DEF LifeInv, DiscardTake, DiscardPut
<1>2. LockTypeOK' /\ MovesOn /\ phase' \in [Daemons -> Phases]
  BY <1>1, LockStepTypes DEF LifeInv, TypesHold, MovesOn, Born, Gone, daemonVars
<1>3. CASE DiscardTake(c) /\ record = NoDaemon
  <2>1. MayGo(c, IfAbsent(c)) /\ IfAbsent(c) \in Places
    BY <1>1, <1>3, WhereTo DEF MayGo, ClientInv, PollsItsChild, DiscardTake, Talking, Places
  <2>2. spent' \in [Starters -> Nat]
    BY <1>1 DEF LifeInv, TypesHold
  <2> QED
    BY <1>1, <1>2, <1>3, <2>1, <2>2, GoesTo DEF DiscardTake
<1>4. CASE DiscardTake(c) /\ record # NoDaemon
  <2>1. TakeRecord(c) /\ Goto(c, "discarding") /\ at[c] = "discard"
    BY <1>4 DEF DiscardTake
  <2>2. /\ RecordInv' /\ record' \in Daemons \cup {NoDaemon}
        /\ aside' \in [Clients \cup Daemons -> Daemons \cup {NoDaemon}]
    BY <1>2, <2>1, TakeRecordInv DEF LifeInv
  <2>3. \A p \in Clients \cup Daemons : p # c => aside'[p] = aside[p]
    BY <2>1 DEF LifeInv, TypesHold, TakeRecord
  <2>4. TypesHold' /\ OthersRest(c) /\ at'[c] = "discarding"
    BY <1>1, <2>1, <2>2, <2>3 DEF LifeInv, TypesHold, OthersRest, Goto, daemonVars, Places
  <2>5. \A d \in Daemons : DaemonInv(d)'
    BY <1>1, <2>3, DaemonsAreNumbers DEF LifeInv, DaemonInv, daemonVars
  <2>6. ClientInv(c)'
    BY <1>1, <2>1, <2>4 DEF ClientInv, PollsItsChild, OnlyStops, TalksToBorn, Talking, Born, Gone, daemonVars
  <2> QED
    BY <1>2, <2>2, <2>4, <2>5, <2>6, ClientSteps
<1>5. CASE DiscardPut(c)
  <2>1. PutBack(c, tgt[c]) /\ Goto(c, IfAbsent(c))
    BY <1>5 DEF DiscardPut
  <2>2. /\ RecordInv' /\ record' \in Daemons \cup {NoDaemon}
        /\ aside' \in [Clients \cup Daemons -> Daemons \cup {NoDaemon}]
    BY <1>2, <2>1, PutBackInv DEF LifeInv
  <2>3. /\ \A p \in Clients \cup Daemons : p # c => aside'[p] = aside[p]
        /\ aside'[c] = NoDaemon
    BY <2>1 DEF LifeInv, TypesHold, PutBack
  <2> DEFINE place == IfAbsent(c)
  <2>4. place \in {"lock", "local", "spawn", "absent", "check"}
        /\ (place = "check" <=> op[c] = "poll") /\ (c \in Stoppers => place \in {"spawn", "absent"})
    BY WhereTo
  <2> HIDE DEF place
  <2>5. TypesHold' /\ OthersRest(c) /\ at'[c] = place
    BY <1>1, <2>1, <2>2, <2>3, <2>4 DEF LifeInv, TypesHold, OthersRest, Goto, daemonVars, Places, place
  <2>6. \A d \in Daemons : DaemonInv(d)'
    BY <1>1, <2>3, DaemonsAreNumbers DEF LifeInv, DaemonInv, daemonVars
  <2>7. ClientInv(c)'
    BY <1>1, <2>3, <2>4, <2>5 DEF ClientInv, PollsItsChild, OnlyStops, TalksToBorn, Talking, daemonVars
  <2> QED
    BY <1>2, <2>2, <2>5, <2>6, <2>7, ClientSteps
<1> QED
  BY <1>1, <1>3, <1>4, <1>5

----------------------------------------------------------------------------

LEMMA LifeInit ==
  ASSUME Init
  PROVE  LifeInv
<1>1. LockTypeOK
  BY DEF Init, LockInit, LockTypeOK, LockPhases
<1>2. TypesHold
  BY DaemonsAreNumbers, LifecycleAssumption DEF Init, TypesHold, Phases, Ops, Places
<1>3. RecordInv
  BY DaemonsAreNumbers DEF Init, RecordInv, Born
<1>4. ASSUME NEW c \in Clients PROVE ClientInv(c)
  BY DaemonsAreNumbers DEF Init, ClientInv, PollsItsChild, OnlyStops, TalksToBorn, Talking
<1>5. ASSUME NEW d \in Daemons PROVE DaemonInv(d)
  BY DEF Init, DaemonInv
<1> QED
  BY <1>1, <1>2, <1>3, <1>4, <1>5 DEF LifeInv

LEMMA CallKeeps ==
  ASSUME LifeInv, NEW c \in Clients, Call(c)
  PROVE  LifeInv'
BY ReadRecordKeeps, UnansweredKeeps, DiscardKeeps, AnsweredKeeps, ProbeAnsweredKeeps, StopAnsweredKeeps DEF Call

LEMMA StartKeeps ==
  ASSUME LifeInv, NEW c \in Starters, Start(c)
  PROVE  LifeInv'
BY LockMovesKeep, EnterStartKeeps, StartMovesKeep, SpawnKeeps, KillChildKeeps DEF Start

LEMMA DaemonKeeps ==
  ASSUME LifeInv, NEW d \in Daemons, Daemon(d) \/ DaemonDies(d)
  PROVE  LifeInv'
BY PublishKeeps, PhaseStepsKeep, RetireTakeKeeps, RetirePutKeeps, GenerateEndsKeeps DEF Daemon

LEMMA NothingMoves ==
  ASSUME LifeInv, UNCHANGED vars
  PROVE  LifeInv'
<1>1. UNCHANGED <<lockVars, recordVars, daemonVars, clientVars>>
  BY DEF vars
<1>2. TypesHold' /\ MovesOn /\ RecordInv' /\ \A d \in Daemons : DaemonInv(d)'
  BY <1>1 DEF LifeInv, TypesHold, MovesOn, RecordInv, DaemonInv, Born, Gone, recordVars, daemonVars, clientVars
<1> QED
  BY <1>1, <1>2, DaemonSteps DEF recordVars

LEMMA LifeNext ==
  ASSUME LifeInv, [Next]_vars
  PROVE  LifeInv'
<1>1. CASE \E c \in Clients : Call(c) \/ Stop(c) \/ ClientDies(c)
  BY <1>1, CallKeeps, StopKeeps, ClientDiesKeeps
<1>2. CASE \E c \in Starters : Start(c) \/ TimePasses(c)
  BY <1>2, StartKeeps, LockMovesKeep
<1>3. CASE \E c \in Runners : Generate(c)
  <2>1. Runners \subseteq Clients
    BY DEF Clients
  <2> QED
    BY <1>3, <2>1, FallsBackKeeps, GenerateBeginsKeeps DEF Generate
<1>4. CASE \E d \in Daemons : Daemon(d) \/ DaemonDies(d)
  BY <1>4, DaemonKeeps
<1>5. CASE UNCHANGED vars
  BY <1>5, NothingMoves
<1> QED
  BY <1>1, <1>2, <1>3, <1>4, <1>5 DEF Next

\* The inductive invariant: what each command of daemon.rs remembers, of its
\* child, of the daemon it stops and of the record it moved aside, stays true
\* while everybody else moves on.
THEOREM LifeInvariant == Spec => []LifeInv
<1>1. Init => LifeInv
  BY LifeInit
<1>2. LifeInv /\ [Next]_vars => LifeInv'
  BY LifeNext
<1> QED
  BY <1>1, <1>2, PTL DEF Spec

----------------------------------------------------------------------------
\* A command that is inside a call or a wait has a daemon to talk to, one that
\* polls has a child, and every variable keeps its type (daemon.rs, start, stop,
\* query).
THEOREM LifecycleTypes == Spec => []TypeOK
BY LifeInvariant, InvIsTypeOK, PTL

\* When `daemon stop` says that it stopped the daemon, the process has exited,
\* whoever else starts, uses or loses daemons meanwhile (daemon.rs, stop and
\* wait_for_exit).
THEOREM StopIsTrue == Spec => []StoppedMeansExited
<1>1. LifeInv => StoppedMeansExited
  BY DEF LifeInv, ClientInv, OnlyStops, StoppedMeansExited, Clients
<1> QED
  BY <1>1, LifeInvariant, PTL

\* A start that returned an error has left no child that could publish its
\* record later (daemon.rs, start: the kill at the deadline).
THEOREM FailedStartIsClean == Spec => []FailedStartLeavesNothing
<1>1. LifeInv => FailedStartLeavesNothing
  BY DEF LifeInv, ClientInv, PollsItsChild, FailedStartLeavesNothing, Clients
<1> QED
  BY <1>1, LifeInvariant, PTL

----------------------------------------------------------------------------
\* The record of a daemon that serves.

\* Moving a record aside does not lose it: nothing was there.
LEMMA TakenIsFound ==
  ASSUME TypesHold, NEW p \in Clients \cup Daemons, TakeRecord(p), aside[p] = NoDaemon,
         NEW d \in Daemons, Findable(d)
  PROVE  Findable(d)'
<1>1. NoDaemon \notin Daemons
  BY DaemonsAreNumbers
<1>2. CASE record = d
  BY <1>2 DEF TypesHold, TakeRecord, Findable
<1>3. CASE record # d
  <2>1. PICK q \in Clients \cup Daemons : aside[q] = d
    BY <1>3 DEF Findable
  <2>2. q # p /\ aside'[q] = d
    BY <1>1, <2>1 DEF TypesHold, TakeRecord
  <2> QED
    BY <2>2 DEF Findable
<1> QED
  BY <1>2, <1>3

\* Putting one back loses only that of the daemon e that is discarded, or one
\* in whose place a newer has appeared.
LEMMA PutBackIsFound ==
  ASSUME TypesHold, NEW p \in Clients \cup Daemons, NEW e, PutBack(p, e),
         NEW d \in Daemons, d # e, Findable(d), ~Findable(d)'
  PROVE  record' \notin {NoDaemon, d}
<1>1. NoDaemon \notin Daemons
  BY DaemonsAreNumbers
<1>2. record' # d
  BY DEF Findable
<1>3. CASE record = d
  BY <1>1, <1>2, <1>3 DEF PutBack
<1>4. CASE record # d
  <2>1. PICK q \in Clients \cup Daemons : aside[q] = d
    BY <1>4 DEF Findable
  <2>2. q = p
    BY <2>1 DEF TypesHold, PutBack, Findable
  <2>3. record # NoDaemon /\ record' = record
    BY <1>2, <2>1, <2>2 DEF PutBack
  <2> QED
    BY <1>2, <2>3
<1> QED
  BY <1>3, <1>4

LEMMA RecordStepSafe ==
  ASSUME LifeInv, Faltering = {}, [Next]_vars,
         NEW d \in Daemons, Listening(d), Findable(d), ~Findable(d)'
  PROVE  record' \notin {NoDaemon, d}
<1>1. CASE UNCHANGED recordVars
  BY <1>1 DEF recordVars, Findable
<1>2. CASE \E e \in Daemons : Publish(e)
  <2>1. PICK e \in Daemons : record' = e
    BY <1>2 DEF Publish
  <2> QED
    BY <2>1, DaemonsAreNumbers DEF Findable
<1>3. CASE \E e \in Daemons : RetireTake(e)
  <2>1. PICK e \in Daemons : RetireTake(e)
    BY <1>3
  <2>2. CASE record = NoDaemon
    BY <2>1, <2>2, <1>1 DEF RetireTake
  <2>3. CASE record # NoDaemon
    BY <2>1, <2>3, TakenIsFound DEF RetireTake, LifeInv, DaemonInv
  <2> QED
    BY <2>2, <2>3
<1>4. CASE \E e \in Daemons : RetirePut(e)
  <2>1. PICK e \in Daemons : RetirePut(e)
    BY <1>4
  <2>2. d # e
    BY <2>1 DEF RetirePut, Listening
  <2> QED
    BY <2>1, <2>2, PutBackIsFound DEF RetirePut, LifeInv
<1>5. CASE \E c \in Clients : DiscardTake(c)
  <2>1. PICK c \in Clients : DiscardTake(c)
    BY <1>5
  <2>2. CASE record = NoDaemon
    BY <2>1, <2>2, <1>1 DEF DiscardTake
  <2>3. CASE record # NoDaemon
    BY <2>1, <2>3, TakenIsFound DEF DiscardTake, LifeInv, ClientInv
  <2> QED
    BY <2>2, <2>3
<1>6. CASE \E c \in Clients : DiscardPut(c)
  <2>1. PICK c \in Clients : DiscardPut(c)
    BY <1>6
  <2>2. d # tgt[c]
    BY <2>1 DEF DiscardPut, LifeInv, ClientInv, TalksToBorn, Gone, Listening
  <2> QED
    BY <2>1, <2>2, PutBackIsFound DEF DiscardPut, LifeInv
<1>7. Next => \/ UNCHANGED recordVars
              \/ \E e \in Daemons : Publish(e) \/ RetireTake(e) \/ RetirePut(e)
              \/ \E c \in Clients : DiscardTake(c) \/ DiscardPut(c)
  <2>1. ASSUME NEW c \in Clients, Call(c) \/ Stop(c) \/ ClientDies(c), ~DiscardTake(c), ~DiscardPut(c)
        PROVE  UNCHANGED recordVars
    BY <2>1 DEF Call, Stop, ClientDies, ReadRecord, CallTimesOut, CallFails, ConnectAnswered, ProbeAnswered,
                PollAnswered, StopAnswered, AwaitGone, Reap, StopTimesOut
  <2>2. ASSUME NEW c \in Starters, Start(c) \/ TimePasses(c)
        PROVE  UNCHANGED recordVars
    BY <2>2 DEF Start, TimePasses, StartWaits, LockStep, EnterStart, LockRefused, Spawn, SpawnFails, ChildExited,
                PollAgain, KillChild, DropLock
  <2>3. ASSUME NEW c \in Runners, Generate(c)
        PROVE  UNCHANGED recordVars
    BY <2>3 DEF Generate, GenerateFallsBack, GenerateBegins
  <2>4. ASSUME NEW e \in Daemons, Daemon(e) \/ DaemonDies(e), ~Publish(e), ~RetireTake(e), ~RetirePut(e)
        PROVE  UNCHANGED recordVars
    BY <2>4 DEF Daemon, DaemonDies, LoadFails, Leave, Free, GenerateEnds
  <2> QED
    BY <2>1, <2>2, <2>3, <2>4 DEF Next
<1> QED
  BY <1>1, <1>2, <1>3, <1>4, <1>5, <1>6, <1>7 DEF vars

\* While no call breaks on a daemon that lives, a daemon that serves loses its
\* record only to a newer one: every probe, stop and retirement that moves a
\* record aside puts back the one it did not mean (daemon.rs, remove_info_if).
THEOREM RecordIsKept ==
  ASSUME Faltering = {}
  PROVE  Spec => RecordLostOnlyToNewer
<1>1. LifeInv /\ [Next]_vars =>
        [\A d \in Daemons :
           Listening(d) /\ Findable(d) /\ Listening(d)' /\ ~Findable(d)'
             => record' \notin {NoDaemon, d}]_vars
  BY RecordStepSafe
<1> QED
  BY <1>1, LifeInvariant, PTL DEF Spec, RecordLostOnlyToNewer
----------------------------------------------------------------------------
\* The start lock.  A contender takes over a lock that it has seen to be stale
\* and moves whatever has the name by then, so that of two that take one lock
\* over at once the second may move the lock of a third (see the README).  As
\* long as takeovers do not meet, nobody ever moves a lock that is in use.

TakingOver(p) == lpc[p] \in {"move", "moved"}

TakeoversApart == \A p, q \in Starters : TakingOver(p) /\ TakingOver(q) => p = q

\* The inductive invariant: a holder's file has the name, only the file of a
\* starter that is over grows stale, and only such a file is moved aside.
LockInv ==
  /\ \A p \in Starters : Holding(p) => path = p
  /\ \A p \in Starters : stale[p] => Over(p)
  /\ \A p \in Starters : lpc[p] = "move" => path # NoFile /\ stale[path]
  /\ \A p \in Starters : tomb[p] # NoFile => stale[tomb[p]]

Dies(p) ==
  /\ lpc' = [lpc EXCEPT ![p] = "dead"]
  /\ UNCHANGED <<path, tomb, written, stale, met>>

\* What may happen to the lock while no live start outlasts LOCK_STALE.
LockMove(p) ==
  \/ BeginWait(p) \/ Acquire(p) \/ Release(p) \/ Dies(p)
  \/ Age(p) /\ Over(p)

LEMMA NobodyIsNoFile == NoFile \notin Starters
BY StartersAssumption

\* While a lock is about to be moved nobody holds one: it is stale.
LEMMA StaleIsNotHeld ==
  ASSUME LockTypeOK, LockInv, NEW p \in Starters, lpc[p] = "move", NEW q \in Starters
  PROVE  ~Holding(q)
<1>1. stale[path] /\ path # NoFile /\ path \in Starters
  BY DEF LockInv, LockTypeOK
<1>2. Over(path)
  BY <1>1 DEF LockInv
<1>3. Holding(q) => path = q
  BY DEF LockInv
<1> QED
  BY <1>2, <1>3 DEF Over, Holding

LEMMA LockMoveKeeps ==
  ASSUME LockTypeOK, LockInv, TakeoversApart, NEW p \in Starters, LockMove(p)
  PROVE  LockInv'
<1>1. CASE BeginWait(p) \/ GiveUp(p) \/ DropCheck(p) \/ Dies(p) \/ WriteId(p) \/ LookStale(p)
  <2>1. /\ UNCHANGED <<path, tomb, stale>>
        /\ \E s \in LockPhases : lpc' = [lpc EXCEPT ![p] = s] /\ (s = "move" => path # NoFile /\ stale[path])
                                 /\ (s \in {"created", "held", "drop"} => Holding(p))
                                 /\ (Over(p) => s \in {"released", "gaveup", "dead"})
    BY <1>1 DEF BeginWait, GiveUp, DropCheck, Dies, WriteId, LookStale, Over, Holding, LockPhases
  <2> QED
    BY <2>1 DEF LockInv, LockTypeOK, Holding, Over
<1>2. CASE CreateLock(p)
  <2>1. \A q \in Starters : ~Holding(q) /\ lpc[q] # "move"
    BY <1>2, NobodyIsNoFile DEF CreateLock, LockInv
  <2> QED
    BY <1>2, <2>1 DEF CreateLock, LockInv, LockTypeOK, Holding, Over
<1>3. CASE MoveAside(p)
  <2>1. path # NoFile /\ path \in Starters /\ stale[path] /\ lpc[p] = "move"
    BY <1>3 DEF MoveAside, LockInv, LockTypeOK
  <2>2. /\ lpc' = [lpc EXCEPT ![p] = "moved"] /\ tomb' = [tomb EXCEPT ![p] = path]
        /\ path' = NoFile /\ stale' = stale
    BY <1>3, <2>1 DEF MoveAside
  <2>3. \A q \in Starters : ~Holding(q)
    BY <2>1, StaleIsNotHeld
  <2>4. \A q \in Starters : lpc'[q] # "move"
    BY <2>1, <2>2 DEF TakeoversApart, TakingOver, LockTypeOK
  <2> QED
    BY <2>1, <2>2, <2>3, <2>4 DEF LockInv, LockTypeOK, Holding, Over
<1>4. CASE Bury(p)
  <2>1. stale[tomb[p]]
    BY <1>4 DEF Bury, LockInv, LockTypeOK
  <2> QED
    BY <1>4, <2>1 DEF Bury, LockInv, LockTypeOK, Holding, Over
<1>5. CASE DropUnlink(p)
  <2>1. Holding(p)
    BY <1>5 DEF DropUnlink, Holding
  <2>2. path = p /\ \A q \in Starters : lpc[q] # "move"
    BY <2>1, StaleIsNotHeld DEF LockInv
  <2>3. \A q \in Starters : Holding(q) => q = p
    BY <2>2 DEF LockInv
  <2> QED
    BY <1>5, <2>2, <2>3 DEF DropUnlink, LockInv, LockTypeOK, Holding, Over
<1>6. CASE Age(p) /\ Over(p)
  BY <1>6 DEF Age, LockInv, LockTypeOK, Holding, Over
<1> QED
  BY <1>1, <1>2, <1>3, <1>4, <1>5, <1>6 DEF LockMove, Acquire, Release

LEMMA LockRests ==
  ASSUME LockInv, UNCHANGED lockVars
  PROVE  LockInv'
BY DEF lockVars, LockInv, Holding, Over

LEMMA LockInvMeans ==
  LockInv => MutualExclusion /\ LiveLockKept
<1> SUFFICES ASSUME LockInv PROVE MutualExclusion /\ LiveLockKept
  OBVIOUS
<1>1. \A p \in Starters : Holding(p) => path = p
  BY DEF LockInv
<1> QED
  BY <1>1 DEF MutualExclusion, LiveLockKept, Exists

LEMMA LockStarts == LockInit => LockTypeOK /\ LockInv
BY NobodyIsNoFile DEF LockInit, LockTypeOK, LockPhases, LockInv, Holding, Over

LEMMA LockNextTypes ==
  ASSUME LockTypeOK, [LockNext]_lockVars
  PROVE  LockTypeOK'
<1>1. CASE \E p \in Starters : Crash(p)
  BY <1>1 DEF Crash, LockTypeOK, LockPhases
<1> QED
  BY <1>1, LockStepTypes DEF LockNext

LEMMA LockInvariant ==
  ASSUME SlowHolders = FALSE
  PROVE  LockSpec /\ []TakeoversApart => []LockInv
<1>1. LockTypeOK /\ LockInv /\ TakeoversApart /\ [LockNext]_lockVars => (LockTypeOK /\ LockInv)'
  <2> SUFFICES ASSUME LockTypeOK, LockInv, TakeoversApart, [LockNext]_lockVars
               PROVE  LockTypeOK' /\ LockInv'
    OBVIOUS
  <2>1. LockNext => \E p \in Starters : LockMove(p)
    BY DEF LockNext, LockMove, Age, Crash, Dies
  <2> QED
    BY <2>1, LockNextTypes, LockMoveKeeps, LockRests
<1> QED
  BY <1>1, LockStarts, PTL DEF LockSpec

\* However many starts contend, and whichever of them die at whatever point: as
\* long as no live start outlasts LOCK_STALE and no two takeovers of a dead one's
\* lock meet, two starts never both hold daemon.lock (daemon.rs:836-911).
THEOREM LockIsExclusive ==
  ASSUME SlowHolders = FALSE
  PROVE  LockSpec /\ []TakeoversApart => []MutualExclusion
BY LockInvariant, LockInvMeans, PTL

\* On the same terms, the lock of a start that lives is never deleted by another:
\* neither by a takeover nor by a drop (daemon.rs:836-911).
THEOREM LiveLockIsKept ==
  ASSUME SlowHolders = FALSE
  PROVE  LockSpec /\ []TakeoversApart => []LiveLockKept
BY LockInvariant, LockInvMeans, PTL

----------------------------------------------------------------------------
\* Starts are serialised.  A start is inside the lock from its second probe to
\* the moment it returns.

StartInv(c) ==
  /\ op[c] # "connect" /\ ~Finished(c) => lpc[c] = "held"
  /\ op[c] = "poll" /\ at[c] = "ok" => Born(child[c])
  /\ at[c] \notin {"generate", "generating"}
  /\ at[c] \in {"await", "reap"} => op[c] = "stop"
  /\ at[c] = "spawn" => op[c] # "connect"
  /\ at[c] = "lock" => op[c] = "connect"

StartsInv == \A c \in Starters : StartInv(c)

\* A step that leaves start c where it is.
Stays(c) ==
  /\ at'[c] = at[c] /\ op'[c] = op[c] /\ child'[c] = child[c] /\ spent'[c] = spent[c]
  /\ lpc'[c] = lpc[c] \/ lpc[c] # "held" \/ Finished(c)

LEMMA StartStays ==
  ASSUME LifeInv, MovesOn, NEW c \in Starters, StartInv(c), Stays(c)
  PROVE  StartInv(c)'
<1>1. op[c] = "poll" => child[c] \in Daemons
  BY DaemonsAreNumbers DEF LifeInv, ClientInv, PollsItsChild
<1> QED
  BY <1>1 DEF StartInv, Stays, MovesOn, Finished

LEMMA EverythingMovesOn ==
  ASSUME LifeInv, [Next]_vars
  PROVE  MovesOn
<1>1. \A d \in Daemons : phase[d] \in Phases
  BY DEF LifeInv, TypesHold
<1>2. CASE UNCHANGED phase
  BY <1>2 DEF MovesOn, Born, Gone
<1>3. ASSUME NEW d \in Daemons, Daemon(d) \/ DaemonDies(d)
      PROVE  MovesOn
  BY <1>1, <1>2, <1>3 DEF LifeInv, TypesHold, MovesOn, Born, Gone, Daemon, DaemonDies, Publish, LoadFails, Leave,
                          Free, RetireTake, RetirePut, GenerateEnds
<1>4. ASSUME NEW c \in Clients, NEW d \in Daemons, StopAnswered(c, d) \/ GenerateBegins(c, d)
      PROVE  MovesOn
  BY <1>4 DEF LifeInv, TypesHold, MovesOn, Born, Gone, StopAnswered, GenerateBegins
<1>5. ASSUME NEW c \in Starters, Spawn(c)
      PROVE  MovesOn
  BY <1>5 DEF LifeInv, TypesHold, MovesOn, Born, Gone, Spawn
<1>6. ASSUME NEW c \in Starters, KillChild(c)
      PROVE  MovesOn
  BY <1>6 DEF LifeInv, TypesHold, MovesOn, Born, Gone, KillChild
<1>7. ASSUME NEW c \in Clients, Call(c) \/ Stop(c) \/ ClientDies(c)
      PROVE  MovesOn
  <2>1. UNCHANGED phase \/ \E d \in Daemons : StopAnswered(c, d)
    BY <1>7 DEF Call, Stop, ClientDies, ReadRecord, CallTimesOut, CallFails, DiscardTake, DiscardPut, ConnectAnswered,
                ProbeAnswered, PollAnswered, AwaitGone, Reap, StopTimesOut, daemonVars
  <2> QED
    BY <1>2, <1>4, <2>1
<1>8. ASSUME NEW c \in Starters, Start(c) \/ TimePasses(c)
      PROVE  MovesOn
  <2>1. UNCHANGED phase \/ Spawn(c) \/ KillChild(c)
    BY <1>8 DEF Start, TimePasses, StartWaits, LockStep, EnterStart, LockRefused, SpawnFails, ChildExited, PollAgain,
                DropLock, daemonVars
  <2> QED
    BY <1>2, <1>5, <1>6, <2>1
<1>9. ASSUME NEW c \in Runners, Generate(c)
      PROVE  MovesOn
  BY <1>2, <1>4, <1>9 DEF Generate, GenerateFallsBack, daemonVars, Clients
<1> QED
  BY <1>2, <1>3, <1>7, <1>8, <1>9 DEF Next, vars, daemonVars

----------------------------------------------------------------------------
\* What each step is to a start: its own, or somebody else's.

LEMMA CallStays ==
  ASSUME LifeInv, NEW e \in Clients, Call(e) \/ Stop(e) \/ ClientDies(e), NEW c \in Starters, c # e
  PROVE  Stays(c)
BY DEF LifeInv, TypesHold, LockTypeOK, Stays, Call, Stop, ClientDies, ReadRecord, CallTimesOut, CallFails, DiscardTake,
       DiscardPut, ConnectAnswered, ProbeAnswered, PollAnswered, StopAnswered, AwaitGone, Reap, StopTimesOut, Goto,
       Spend, lockVars, Clients

LEMMA LockStepStays ==
  ASSUME LockTypeOK, NEW e \in Starters, BeginWait(e) \/ Acquire(e) \/ Release(e) \/ Age(e), NEW c \in Starters,
         c # e \/ lpc[c] # "held" \/ Age(e)
  PROVE  lpc'[c] = lpc[c] \/ lpc[c] # "held"
BY DEF LockTypeOK, BeginWait, Acquire, Release, Age, CreateLock, WriteId, LookStale, MoveAside, Bury, GiveUp,
       DropCheck, DropUnlink

LEMMA StartStepStays ==
  ASSUME LifeInv, NEW e \in Starters, Start(e) \/ TimePasses(e), NEW c \in Starters, c # e
  PROVE  Stays(c)
<1>1. CASE StartWaits(e) \/ LockStep(e) \/ DropLock(e) \/ TimePasses(e)
  BY <1>1, LockStepStays DEF LifeInv, StartWaits, LockStep, DropLock, TimePasses, Stays, clientVars
<1>2. CASE \/ EnterStart(e) \/ LockRefused(e) \/ Spawn(e) \/ SpawnFails(e)
           \/ ChildExited(e) \/ PollAgain(e) \/ KillChild(e)
  BY <1>2 DEF LifeInv, TypesHold, EnterStart, LockRefused, Spawn, SpawnFails, ChildExited, PollAgain, KillChild, Goto,
              Stays, lockVars, Clients
<1> QED
  BY <1>1, <1>2 DEF Start

\* A start in a call.
LEMMA StartCalls ==
  ASSUME LifeInv, MovesOn, NEW c \in Starters, StartInv(c), Call(c)
  PROVE  StartInv(c)'
<1>1. /\ c \in Clients /\ lpc' = lpc /\ child' = child /\ at[c] \in Places /\ op[c] \in Ops
      /\ op[c] = "poll" => child[c] \in Daemons
      /\ IfAbsent(c) \in {"lock", "local", "spawn", "absent", "check"}
      /\ IfBusy(c) \in {"lock", "local", "failed", "check"}
      /\ ~Finished(c) /\ at[c] \in {"read", "call", "discard", "discarding"}
  BY DaemonsAreNumbers, WhereTo DEF LifeInv, TypesHold, ClientInv, PollsItsChild, Call, ReadRecord, CallTimesOut,
     CallFails, DiscardTake, DiscardPut, ConnectAnswered, ProbeAnswered, PollAnswered, StopAnswered, Calls, lockVars,
     Clients, Finished
<1>2. /\ op[c] = "connect" => IfAbsent(c) = "lock" /\ IfBusy(c) = "lock"
      /\ op[c] \in {"probe", "stop"} => IfAbsent(c) = "spawn" /\ IfBusy(c) = "failed"
      /\ op[c] = "poll" => IfAbsent(c) = "check" /\ IfBusy(c) = "check"
  BY DEF IfAbsent, IfBusy
<1>3. op[c] # "connect" => lpc[c] = "held"
  BY <1>1 DEF StartInv
<1>4. CASE ReadRecord(c) \/ CallTimesOut(c) \/ CallFails(c) \/ DiscardTake(c) \/ DiscardPut(c)
  <2>1. op' = op /\ at'[c] \in {"call", "discard", "discarding", IfAbsent(c), IfBusy(c)}
    BY <1>1, <1>4 DEF ReadRecord, CallTimesOut, CallFails, DiscardTake, DiscardPut, Goto, LifeInv, TypesHold
  <2> QED
    BY <1>1, <1>2, <1>3, <2>1 DEF StartInv, Finished, Ops
<1>5. ASSUME NEW d \in Daemons, ConnectAnswered(c, d)
      PROVE  StartInv(c)'
  <2>1. op' = op /\ op[c] = "connect" /\ at'[c] \in {"ok", IfAbsent(c)}
    BY <1>1, <1>5 DEF ConnectAnswered, Calls, Goto, LifeInv, TypesHold
  <2> QED
    BY <1>1, <1>2, <2>1 DEF StartInv, Finished
<1>6. ASSUME NEW d \in Daemons, ProbeAnswered(c, d)
      PROVE  StartInv(c)'
  <2>1. op[c] = "probe" /\ op'[c] \in {"probe", "stop"} /\ at'[c] \in {"ok", "read"}
    BY <1>1, <1>6 DEF ProbeAnswered, Calls, Goto, LifeInv, TypesHold
  <2> QED
    BY <1>1, <1>3, <2>1 DEF StartInv, Finished
<1>7. ASSUME NEW d \in Daemons, PollAnswered(c, d)
      PROVE  StartInv(c)'
  <2>1. op' = op /\ op[c] = "poll" /\ at'[c] \in {"ok", "check"} /\ (at'[c] = "ok" => d = child[c])
    BY <1>1, <1>7 DEF PollAnswered, Calls, Goto, LifeInv, TypesHold
  <2>2. Born(d)'
    BY <1>7 DEF PollAnswered, daemonVars, Born
  <2> QED
    BY <1>1, <1>3, <2>1, <2>2 DEF StartInv, Finished
<1>8. ASSUME NEW d \in Daemons, StopAnswered(c, d)
      PROVE  StartInv(c)'
  <2>1. op' = op /\ op[c] = "stop" /\ at'[c] \in {"await", IfBusy(c)}
    BY <1>1, <1>8 DEF StopAnswered, Calls, Goto, LifeInv, TypesHold
  <2> QED
    BY <1>1, <1>2, <1>3, <2>1 DEF StartInv, Finished
<1> QED
  BY <1>4, <1>5, <1>6, <1>7, <1>8 DEF Call

\* A start on its way through the lock, the child and the wait for it.
LEMMA StartMoves ==
  ASSUME LifeInv, MovesOn, NEW c \in Starters, StartInv(c), Start(c) \/ TimePasses(c) \/ Stop(c) \/ ClientDies(c)
  PROVE  StartInv(c)'
<1>1. c \in Clients /\ op[c] \in Ops /\ (op[c] = "poll" => child[c] \in Daemons)
  BY DaemonsAreNumbers DEF LifeInv, TypesHold, ClientInv, PollsItsChild
<1>2. CASE StartWaits(c) \/ LockStep(c) \/ TimePasses(c)
  <2>1. lpc'[c] = lpc[c] \/ lpc[c] # "held"
    BY <1>2 DEF StartWaits, LockStep, TimePasses, BeginWait, Acquire, Age, CreateLock, WriteId, LookStale, MoveAside,
                Bury, GiveUp
  <2> QED
    BY <1>2, <2>1, StartStays DEF StartWaits, LockStep, TimePasses, Stays, clientVars
<1>3. CASE DropLock(c)
  BY <1>3, StartStays DEF DropLock, Stays, clientVars
<1>4. CASE EnterStart(c)
  <2>1. at'[c] = "read" /\ op'[c] = "probe" /\ lpc'[c] = "held" /\ at[c] = "lock"
    BY <1>1, <1>4 DEF EnterStart, Goto, LifeInv, TypesHold, lockVars
  <2> QED
    BY <2>1 DEF StartInv, Finished
<1>5. CASE LockRefused(c) \/ SpawnFails(c) \/ ChildExited(c) \/ KillChild(c)
  <2>1. at'[c] = "failed" /\ op' = op
    BY <1>1, <1>5 DEF LockRefused, SpawnFails, ChildExited, KillChild, Goto, LifeInv, TypesHold
  <2> QED
    BY <2>1 DEF StartInv, Finished
<1>6. CASE Spawn(c)
  <2>1. at'[c] = "read" /\ op'[c] = "poll" /\ lpc' = lpc /\ at[c] = "spawn"
    BY <1>1, <1>6 DEF Spawn, Goto, LifeInv, TypesHold, lockVars
  <2> QED
    BY <2>1 DEF StartInv, Finished
<1>7. CASE PollAgain(c)
  <2>1. at'[c] = "read" /\ op' = op /\ lpc' = lpc /\ at[c] = "check" /\ op[c] = "poll"
    BY <1>1, <1>7 DEF PollAgain, Goto, LifeInv, TypesHold, ClientInv, PollsItsChild, lockVars
  <2> QED
    BY <2>1 DEF StartInv, Finished
<1>8. CASE Stop(c)
  <2>1. /\ op' = op /\ lpc' = lpc /\ at[c] \in {"await", "reap"}
        /\ at'[c] \in {"reap", "failed", "spawn"}
    BY <1>1, <1>8 DEF Stop, AwaitGone, Reap, StopTimesOut, Goto, LifeInv, TypesHold, lockVars
  <2> QED
    BY <2>1 DEF StartInv, Finished
<1>9. CASE ClientDies(c)
  <2>1. at'[c] = "dead" /\ op' = op
    BY <1>1, <1>9 DEF ClientDies, Goto, LifeInv, TypesHold
  <2> QED
    BY <2>1 DEF StartInv, Finished
<1> QED
  BY <1>2, <1>3, <1>4, <1>5, <1>6, <1>7, <1>8, <1>9 DEF Start

LEMMA GenerateStays ==
  ASSUME LifeInv, NEW c \in Starters, StartInv(c),
         \/ \E e \in Runners : Generate(e)
         \/ \E d \in Daemons : Daemon(d) \/ DaemonDies(d)
  PROVE  Stays(c)
<1>1. c \in Clients /\ c \notin Runners /\ at[c] # "generating"
  BY DaemonsAreNumbers DEF StartInv
<1>2. ASSUME NEW e \in Runners, Generate(e)
      PROVE  Stays(c)
  BY <1>1, <1>2 DEF LifeInv, TypesHold, Generate, GenerateFallsBack, GenerateBegins, Goto, Stays, lockVars, Clients
<1>3. ASSUME NEW d \in Daemons, GenerateEnds(d)
      PROVE  Stays(c)
  BY <1>1, <1>3 DEF GenerateEnds, Stays, lockVars
<1>4. ASSUME NEW d \in Daemons, Daemon(d) \/ DaemonDies(d), ~GenerateEnds(d)
      PROVE  Stays(c)
  BY <1>4 DEF Daemon, DaemonDies, Publish, LoadFails, Leave, Free, RetireTake, RetirePut, Stays, lockVars, clientVars
<1> QED
  BY <1>2, <1>3, <1>4

LEMMA StartsNext ==
  ASSUME LifeInv, StartsInv, [Next]_vars
  PROVE  StartsInv'
<1> SUFFICES ASSUME NEW c \in Starters
             PROVE  StartInv(c)'
  BY DEF StartsInv
<1>1. MovesOn /\ StartInv(c) /\ c \in Clients
  BY EverythingMovesOn, DaemonsAreNumbers DEF StartsInv
<1>2. ASSUME NEW e \in Clients, Call(e) \/ Stop(e) \/ ClientDies(e)
      PROVE  StartInv(c)'
  <2>1. CASE e = c
    BY <1>1, <1>2, <2>1, StartCalls, StartMoves
  <2>2. CASE e # c
    BY <1>1, <1>2, <2>2, CallStays, StartStays
  <2> QED
    BY <2>1, <2>2
<1>3. ASSUME NEW e \in Starters, Start(e) \/ TimePasses(e)
      PROVE  StartInv(c)'
  <2>1. CASE e = c
    BY <1>1, <1>3, <2>1, StartMoves
  <2>2. CASE e # c
    BY <1>1, <1>3, <2>2, StartStepStays, StartStays
  <2> QED
    BY <2>1, <2>2
<1>4. CASE \/ \E e \in Runners : Generate(e)
           \/ \E d \in Daemons : Daemon(d) \/ DaemonDies(d)
  BY <1>1, <1>4, GenerateStays, StartStays
<1>5. CASE UNCHANGED vars
  <2>1. Stays(c)
    BY <1>5 DEF vars, lockVars, clientVars, Stays
  <2> QED
    BY <1>1, <2>1, StartStays
<1> QED
  BY <1>2, <1>3, <1>4, <1>5 DEF Next

NoneOutlasts == \A c \in Starters : ~Outlasts(c)

\* What the commands do to the lock.
LEMMA LockMovesOn ==
  ASSUME NoneOutlasts, [Next]_vars
  PROVE  UNCHANGED lockVars \/ \E p \in Starters : LockMove(p)
<1>1. ASSUME NEW c \in Clients, Call(c) \/ Stop(c)
      PROVE  UNCHANGED lockVars
  BY <1>1 DEF Call, Stop, ReadRecord, CallTimesOut, CallFails, DiscardTake, DiscardPut, ConnectAnswered, ProbeAnswered,
              PollAnswered, StopAnswered, AwaitGone, Reap, StopTimesOut
<1>2. ASSUME NEW c \in Clients, ClientDies(c)
      PROVE  UNCHANGED lockVars \/ \E p \in Starters : LockMove(p)
  BY <1>2 DEF ClientDies, LockMove, Dies, lockVars
<1>3. ASSUME NEW c \in Starters, Start(c)
      PROVE  UNCHANGED lockVars \/ LockMove(c)
  BY <1>3 DEF Start, StartWaits, LockStep, EnterStart, LockRefused, Spawn, SpawnFails, ChildExited, PollAgain,
              KillChild, DropLock, LockMove
<1>4. ASSUME NEW c \in Starters, TimePasses(c)
      PROVE  LockMove(c)
  BY <1>4 DEF TimePasses, LockMove, NoneOutlasts
<1>5. ASSUME NEW c \in Runners, Generate(c)
      PROVE  UNCHANGED lockVars
  BY <1>5 DEF Generate, GenerateFallsBack, GenerateBegins
<1>6. ASSUME NEW d \in Daemons, Daemon(d) \/ DaemonDies(d)
      PROVE  UNCHANGED lockVars
  BY <1>6 DEF Daemon, DaemonDies, Publish, LoadFails, Leave, Free, RetireTake, RetirePut, GenerateEnds
<1>7. CASE UNCHANGED vars
  BY <1>7 DEF vars
<1> QED
  BY <1>1, <1>2, <1>3, <1>4, <1>5, <1>6, <1>7 DEF Next

LEMMA StartsBegin == Init => StartsInv /\ LockInv
<1> SUFFICES ASSUME Init PROVE StartsInv /\ LockInv
  OBVIOUS
<1>1. LockInv
  BY LockStarts DEF Init
<1>2. ASSUME NEW c \in Starters PROVE StartInv(c)
  BY <1>2, DaemonsAreNumbers DEF Init, StartInv, Finished
<1> QED
  BY <1>1, <1>2 DEF StartsInv

\* A start whose child is loading has not returned: it holds the lock.
LEMMA LoadingIsLocked ==
  ASSUME LifeInv, StartsInv, NEW c \in Starters, at[c] # "dead", op[c] = "poll", phase[child[c]] = "loading"
  PROVE  Holding(c)
<1>1. /\ PollsItsChild(c) /\ StartInv(c) /\ NoDaemon \notin Daemons
  BY DaemonsAreNumbers DEF LifeInv, ClientInv, StartsInv
<1>2. ~Finished(c)
  BY <1>1 DEF PollsItsChild, StartInv, Born, Finished
<1> QED
  BY <1>1, <1>2 DEF StartInv, Holding

LEMMA AllStartsMean == LifeInv /\ StartsInv /\ LockInv => OneLoading
<1> SUFFICES ASSUME LifeInv, StartsInv, LockInv, NEW c \in Starters, NEW e \in Starters,
                    at[c] # "dead", op[c] = "poll", phase[child[c]] = "loading",
                    at[e] # "dead", op[e] = "poll", phase[child[e]] = "loading"
             PROVE  c = e
  BY DEF OneLoading
<1> QED
  BY LoadingIsLocked, LockInvMeans DEF MutualExclusion

\* Whatever any number of commands want, and whichever of them and of the daemons
\* die: as long as no start outlasts LOCK_STALE and no two takeovers of a dead
\* start's lock meet, no two daemons load a model at the same time while the
\* starts that spawned them are alive (daemon.rs, start and StartLock).
THEOREM StartsAreSerialised ==
  Spec /\ []TakeoversApart /\ []NoneOutlasts => []OneLoading
<1> DEFINE Inv == LifeInv /\ StartsInv /\ LockInv
<1>1. Inv /\ TakeoversApart /\ NoneOutlasts /\ [Next]_vars => Inv'
  <2> SUFFICES ASSUME Inv, TakeoversApart, NoneOutlasts, [Next]_vars
               PROVE  LifeInv' /\ StartsInv' /\ LockInv'
    OBVIOUS
  <2>1. LockTypeOK
    BY DEF LifeInv
  <2>2. UNCHANGED lockVars \/ \E p \in Starters : LockMove(p)
    BY LockMovesOn
  <2> QED
    BY <2>1, <2>2, LifeNext, StartsNext, LockMoveKeeps, LockRests
<1>2. Init => Inv
  BY LifeInit, StartsBegin
<1>3. Inv => OneLoading
  BY AllStartsMean
<1> QED
  BY <1>1, <1>2, <1>3, PTL DEF Spec

----------------------------------------------------------------------------
\* Where all want the same daemon a start never has to stop one, and what it
\* spends before the poll is one call: none outlasts LOCK_STALE.

StartsAgree == \A s, t \in Settings : s = t

SpentInv(c) ==
  /\ op[c] # "stop"
  /\ op[c] = "connect" \/ (op[c] = "probe" /\ at[c] \in {"read", "call"}) => spent[c] = 0
  /\ spent[c] \in {0, CallMax}

LEMMA SpentIsShort ==
  ASSUME NEW c \in Starters, SpentInv(c)
  PROVE  ~Outlasts(c)
<1>1. spent[c] \in {0, CallMax}
  BY DEF SpentInv
<1> QED
  BY <1>1 DEF Outlasts, CallMax, ConnectTimeout, ControlTimeout, StartDeadline, LockStaleAge

LEMMA SpentCalls ==
  ASSUME StartsAgree, LifeInv, NEW c \in Starters, SpentInv(c), Call(c)
  PROVE  SpentInv(c)'
<1>1. c \in Clients /\ op[c] \in {"connect", "probe", "poll"}
  BY DaemonsAreNumbers DEF LifeInv, TypesHold, Ops, SpentInv
<1>2. /\ op[c] = "connect" \/ (op[c] = "probe" /\ at[c] \in {"read", "call"}) => spent[c] = 0
      /\ spent[c] \in {0, CallMax}
  BY DEF SpentInv
<1>3. CallMax \in Nat /\ 0 + CallMax = CallMax
  BY TimesAreNumbers
<1> HIDE DEF CallMax
<1>4. op[c] = "probe" => IfAbsent(c) = "spawn" /\ IfBusy(c) = "failed"
  BY DEF IfAbsent, IfBusy
<1>5. CASE ReadRecord(c) \/ DiscardTake(c) \/ DiscardPut(c) \/ \E d \in Daemons : ConnectAnswered(c, d) \/ PollAnswered(c, d)
  <2>1. /\ op' = op /\ spent' = spent
        /\ op[c] = "probe" => at'[c] \in {"discarding", "spawn"} \/ at[c] = "read"
    BY <1>1, <1>4, <1>5 DEF ReadRecord, DiscardTake, DiscardPut, ConnectAnswered, PollAnswered, Calls, Goto, LifeInv, TypesHold
  <2> QED
    BY <1>1, <1>2, <2>1 DEF SpentInv
<1>6. CASE CallTimesOut(c) \/ CallFails(c)
  <2>1. /\ op' = op /\ at[c] = "call" /\ (op[c] = "probe" => at'[c] \in {"discard", "failed"})
        /\ spent'[c] = IF op[c] = "probe" THEN spent[c] + CallMax ELSE spent[c]
    BY <1>1, <1>4, <1>6 DEF CallTimesOut, CallFails, Goto, Spend, LifeInv, TypesHold
  <2>2. op[c] = "probe" => spent'[c] = CallMax
    BY <1>2, <1>3, <2>1
  <2> QED
    BY <1>1, <1>2, <2>1, <2>2 DEF SpentInv
<1>7. ASSUME NEW d \in Daemons, ProbeAnswered(c, d)
      PROVE  SpentInv(c)'
  <2>1. Matches(d, c)
    BY LifecycleAssumption DEF StartsAgree, Matches, LifeInv, TypesHold
  <2>2. /\ op' = op /\ op[c] = "probe" /\ at[c] = "call" /\ at'[c] = "ok"
        /\ spent'[c] = spent[c] + CallMax
    BY <1>1, <1>7, <2>1 DEF ProbeAnswered, Calls, Goto, Spend, LifeInv, TypesHold
  <2>3. spent'[c] = CallMax
    BY <1>2, <1>3, <2>2
  <2> QED
    BY <2>2, <2>3 DEF SpentInv
<1>8. \A d \in Daemons : ~StopAnswered(c, d)
  BY <1>1 DEF StopAnswered, Calls
<1> QED
  BY <1>5, <1>6, <1>7, <1>8 DEF Call

LEMMA SpentMoves ==
  ASSUME LifeInv, NEW c \in Starters, StartInv(c), SpentInv(c),
         Start(c) \/ TimePasses(c) \/ Stop(c) \/ ClientDies(c)
  PROVE  SpentInv(c)'
<1>1. c \in Clients /\ op[c] \in Ops
  BY DaemonsAreNumbers DEF LifeInv, TypesHold
<1>2. CASE StartWaits(c) \/ LockStep(c) \/ TimePasses(c) \/ DropLock(c)
  BY <1>2 DEF StartWaits, LockStep, TimePasses, DropLock, clientVars, SpentInv
<1>3. CASE EnterStart(c)
  <2>1. op'[c] = "probe" /\ op[c] = "connect" /\ spent' = spent
    BY <1>1, <1>3 DEF EnterStart, LifeInv, TypesHold, StartInv
  <2> QED
    BY <2>1 DEF SpentInv
<1>4. CASE Spawn(c)
  <2>1. op'[c] = "poll" /\ spent' = spent
    BY <1>1, <1>4 DEF Spawn, LifeInv, TypesHold
  <2> QED
    BY <2>1 DEF SpentInv
<1>5. CASE LockRefused(c) \/ SpawnFails(c) \/ ChildExited(c) \/ KillChild(c) \/ PollAgain(c) \/ ClientDies(c)
  <2>1. /\ op' = op /\ spent' = spent
        /\ at'[c] \in {"failed", "dead"} \/ op[c] = "poll"
    BY <1>1, <1>5 DEF LockRefused, SpawnFails, ChildExited, KillChild, PollAgain, ClientDies, Goto, LifeInv, TypesHold,
                      ClientInv, PollsItsChild
  <2> QED
    BY <2>1 DEF SpentInv
<1>6. ~Stop(c)
  BY DEF StartInv, SpentInv, Stop, AwaitGone, Reap, StopTimesOut
<1> QED
  BY <1>2, <1>3, <1>4, <1>5, <1>6 DEF Start

LEMMA SpentNext ==
  ASSUME StartsAgree, LifeInv, NEW c \in Starters, StartInv(c), SpentInv(c), [Next]_vars
  PROVE  SpentInv(c)'
<1>1. Stays(c) => SpentInv(c)'
  BY DEF Stays, SpentInv
<1>2. ASSUME NEW e \in Clients, Call(e) \/ Stop(e) \/ ClientDies(e)
      PROVE  SpentInv(c)'
  BY <1>1, <1>2, SpentCalls, SpentMoves, CallStays
<1>3. ASSUME NEW e \in Starters, Start(e) \/ TimePasses(e)
      PROVE  SpentInv(c)'
  BY <1>1, <1>3, SpentMoves, StartStepStays
<1>4. CASE \/ \E e \in Runners : Generate(e)
           \/ \E d \in Daemons : Daemon(d) \/ DaemonDies(d)
  BY <1>1, <1>4, GenerateStays
<1>5. CASE UNCHANGED vars
  BY <1>5 DEF vars, clientVars, SpentInv
<1> QED
  BY <1>2, <1>3, <1>4, <1>5 DEF Next

AllSpent == LifeInv /\ StartsInv /\ \A c \in Starters : SpentInv(c)

\* Where all commands want the same daemon, no start outlasts LOCK_STALE: the
\* limits of a call, of the wait for the child and of the age of a lock add up
\* (daemon.rs, LOCK_STALE, CONTROL_TIMEOUT and start).
THEOREM AgreedStartsAreShort ==
  ASSUME StartsAgree
  PROVE  Spec => []NoneOutlasts
<1>1. AllSpent /\ [Next]_vars => AllSpent'
  BY LifeNext, StartsNext, SpentNext DEF AllSpent, StartsInv
<1>2. Init => AllSpent
  <2>1. ASSUME Init, NEW c \in Starters PROVE SpentInv(c)
    BY <2>1, DaemonsAreNumbers DEF Init, SpentInv
  <2> QED
    BY <2>1, LifeInit, StartsBegin DEF AllSpent
<1>3. AllSpent => NoneOutlasts
  BY SpentIsShort DEF AllSpent, NoneOutlasts
<1> QED
  BY <1>1, <1>2, <1>3, PTL DEF Spec
=============================================================================

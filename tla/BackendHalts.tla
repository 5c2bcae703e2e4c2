----------------------------- MODULE BackendHalts -----------------------------
(* BackendInstall, with a ghost that remembers which operations have stopped *)
(* half-way: what the folder promises until then, and not after.             *)
EXTENDS BackendInstall

VARIABLE halted   \* the operations that have stopped between their first write and their last

\* p stops with a receipt that is not the one it was to save.
Halts(p) ==
  IF pc[p] \in {"drop", "swap"} /\ pc'[p] = "idle" /\ receipt'[job[p]].state # "complete"
  THEN {"install"}
  ELSE IF pc[p] = "unlink" /\ pc'[p] = "idle" /\ receipt' # rcpt[p]
  THEN {"remove"}
  ELSE {}

\* remove_file failed, and its failure was ignored.
Leaves(p) ==
  IF \E f \in todo[p] \ todo'[p] : pc[p] = "drop" /\ pc'[p] = "drop" /\ dir[f] # Missing /\ dir' = dir
  THEN {"install"} ELSE {}

HaltInit == StoreInit /\ halted = {}

HaltNext == StoreNext /\ halted' = halted \cup UNION {Halts(p) \cup Leaves(p) : p \in Procs}

haltVars == <<storeVars, halted>>

HaltSpec == HaltInit /\ [][HaltNext]_haltVars

\* What the loader trusts is sound until a stop made it unsound: a payload it
\* accepts has every file its receipt lists as long as no remove has stopped
\* half-way, and a folder that is loaded holds no file of knaif's that the
\* receipt does not list as long as no install has (backend_store.rs:138-161,
\* 433-460, 476-491).
SoundUntilHalted ==
  /\ "remove" \notin halted => CompleteMeansWhole
  /\ "install" \notin halted => OnlyReceiptLoaded
=============================================================================

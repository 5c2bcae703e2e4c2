----------------------------- MODULE KeptFolder -----------------------------
(* What the console promises about the files of a folder, with no plan and   *)
(* no skill in it: nothing is deleted, and a file that was there is replaced *)
(* only if the user agreed to that file or this run made it.  ConsoleRun     *)
(* carries a plan out under this promise.                                    *)

VARIABLES
    files,    \* path -> what the file there holds
    made,     \* the paths this run created
    agreed    \* the paths the user agreed to have replaced

keptVars == <<files, made, agreed>>

NothingMade == made = {} /\ agreed = {}

Agree ==
    /\ agreed \subseteq agreed' /\ agreed' \subseteq DOMAIN files
    /\ UNCHANGED <<files, made>>

NoneDeleted == DOMAIN files \subseteq DOMAIN files'

OthersKept == \A p \in DOMAIN files \ (made \cup agreed) : files'[p] = files[p]

\* The run works, or somebody else adds a file.
Work ==
    /\ NoneDeleted /\ OthersKept
    /\ made \subseteq made' /\ made' \subseteq made \cup (DOMAIN files' \ DOMAIN files)
    /\ UNCHANGED agreed

KeptSpec == NothingMade /\ [][Agree \/ Work]_keptVars
=============================================================================

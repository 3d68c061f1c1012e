----------------------------- MODULE AtomicFile -----------------------------
(***************************************************************************)
(* What the assembly output of minic-cc promises: the file is at any time  *)
(* what it was or the whole text of one of the writers, a writer replaces  *)
(* it at most once and in one step, and a writer that fails or is killed   *)
(* leaves it alone.                                                        *)
(***************************************************************************)
CONSTANTS
  Writers,
  Old,   \* the file that is there before
  None   \* there is no file

VARIABLES
  current,  \* whose text the file holds
  fate      \* of each writer: "pending", "published" or "gone"

fileVars == <<current, fate>>

FileInit == current \in {Old, None} /\ fate = [w \in Writers |-> "pending"]

Publish(w) ==
  /\ fate[w] = "pending"
  /\ current' = w
  /\ fate' = [fate EXCEPT ![w] = "published"]

GiveUp(w) ==
  /\ fate[w] = "pending"
  /\ fate' = [fate EXCEPT ![w] = "gone"]
  /\ UNCHANGED current

FileNext == \E w \in Writers : Publish(w) \/ GiveUp(w)

FileSafe == FileInit /\ [][FileNext]_fileVars
=============================================================================

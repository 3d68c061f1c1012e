------------------------------ MODULE EmitFile ------------------------------
(***************************************************************************)
(* minic_program_emit_write (src/target/common/program_emit.h): the .s of  *)
(* all five targets is written to a temporary beside the output, finalised *)
(* there, and renamed.  Several compilers may write the same output, any   *)
(* step of any of them may fail, and any of them may be killed.            *)
(*                                                                         *)
(* A directory maps names to files.  mkstemp makes a new file, so a file   *)
(* is known by the writer that made it.  The text of a file is the set of  *)
(* the pieces that are in it.                                              *)
(***************************************************************************)
EXTENDS Integers, Sequences

CONSTANTS
  Writers,  \* runs of minic-cc with the same output
  Path,     \* the name of the output
  Temps,    \* the names that mkstemp may choose
  Old,      \* the file that has the name Path before
  None,     \* no file, no name
  Jobs      \* what a run may have to write, and how

FunctionRecord == [defined : BOOLEAN, internal : BOOLEAN, referenced : BOOLEAN]

(* A job: the members of MinicProgramEmitConfig, and the program's globals *)
(* (how many) and functions.  "check" is the finaliser that reads the      *)
(* file, "rewrite" the one that replaces its text.                         *)
JobRecord ==
  [prefix : BOOLEAN, between : BOOLEAN, trailer : BOOLEAN,
   finalize : {"none", "check", "rewrite"}, census : BOOLEAN,
   selection : {"all", "live"}, globals : Nat, functions : Seq(FunctionRecord)]

ASSUME WritersAssumption == None \notin Writers /\ Old \notin Writers /\ Old # None
ASSUME NamesAssumption == Path \notin Temps /\ None \notin Temps /\ Path # None
ASSUME JobsAssumption == Jobs \subseteq JobRecord

VARIABLES
  job,   \* the job of each writer
  pc,    \* the statement each writer is at
  ok,    \* its variable ok
  i,     \* the counter of its loops: how many are done
  temp,  \* its temporary
  copy,  \* what its finaliser has read
  dir,   \* the directory
  text   \* the text of each file

vars == <<job, pc, ok, i, temp, copy, dir, text>>

Files == Writers \cup {Old}
Names == Temps \cup {Path}

Kinds ==
  {"prefix", "global", "between", "function", "trailer", "old", "torn", "legal"}
Pieces == Kinds \X Nat
Piece(kind, n) == <<kind, n>>
Torn == Piece("torn", 0)    \* a write that failed half way
Legal == Piece("legal", 0)  \* instructions are in range, after a rewrite
OldText == {Piece("old", 0)}

(* minic_program_function_selected.                                        *)
Selected(f, s) ==
  ~(s = "live" /\ ~f.defined) /\ ~(f.defined /\ f.internal /\ ~f.referenced)

(* The text that a job stands for.                                         *)
PrefixText(j) == IF j.prefix THEN {Piece("prefix", 0)} ELSE {}
GlobalText(n) == {Piece("global", k) : k \in 1 .. n}
BetweenText(j) == IF j.between THEN {Piece("between", 0)} ELSE {}
FunctionText(j, n) ==
  {Piece("function", k) : k \in {m \in 1 .. n : Selected(j.functions[m], j.selection)}}
TrailerText(j) == IF j.trailer THEN {Piece("trailer", 0)} ELSE {}
FinalText(j) == IF j.finalize = "rewrite" THEN {Legal} ELSE {}

WrittenText(j) ==
  PrefixText(j) \cup GlobalText(j.globals) \cup BetweenText(j)
    \cup FunctionText(j, Len(j.functions)) \cup TrailerText(j)

WholeText(f) ==
  IF f = Old THEN OldText ELSE WrittenText(job[f]) \cup FinalText(job[f])

Init ==
  /\ job \in [Writers -> Jobs]
  /\ pc = [w \in Writers |-> "create"]
  /\ ok = [w \in Writers |-> TRUE]
  /\ i = [w \in Writers |-> 0]
  /\ temp = [w \in Writers |-> None]
  /\ copy = [w \in Writers |-> {}]
  /\ \E before \in {Old, None} :
       dir = [n \in Names |-> IF n = Path THEN before ELSE None]
  /\ text = [f \in Files |-> IF f = Old THEN OldText ELSE {}]

-----------------------------------------------------------------------------

At(w, here) == pc[w] = here
Goto(w, there) == pc' = [pc EXCEPT ![w] = there]
Fail(w) == ok' = [ok EXCEPT ![w] = FALSE]

(* mkstemp: a new file under a name that is free.                          *)
CreateTemp(w) ==
  /\ At(w, "create") /\ Goto(w, "fdopen")
  /\ \E n \in Temps :
       /\ dir[n] = None
       /\ dir' = [dir EXCEPT ![n] = w]
       /\ temp' = [temp EXCEPT ![w] = n]
  /\ UNCHANGED <<job, ok, i, text, copy>>

(* The arguments are refused, or there is no memory or no temporary.       *)
CreateFails(w) ==
  /\ At(w, "create") /\ Goto(w, "done") /\ Fail(w)
  /\ UNCHANGED <<job, i, temp, dir, text, copy>>

FdOpen(w) ==
  /\ At(w, "fdopen")
  /\ \/ Goto(w, "prefix") /\ UNCHANGED ok
     \/ Goto(w, "remove") /\ Fail(w)
  /\ UNCHANGED <<job, i, temp, dir, text, copy>>

(* A callback writes its piece and goes on, or fails after a part of it.   *)
Writes(w, p, next) ==
  /\ text' = [text EXCEPT ![w] = @ \cup {p}]
  /\ Goto(w, next) /\ UNCHANGED ok

WriteFails(w, next) ==
  /\ text' = [text EXCEPT ![w] = @ \cup {Torn}]
  /\ Goto(w, next) /\ Fail(w)

(* Mutant: what follows a failure is skipped in a census too.              *)
AfterFailureClose(w) == "close"

(* Where a failure before the functions leads: a census visits them still. *)
AfterFailure(w) == IF job[w].census THEN "functions" ELSE "close"

EmitPrefix(w) ==
  /\ At(w, "prefix")
  /\ IF job[w].prefix
     THEN \/ Writes(w, Piece("prefix", 0), "globals")
          \/ WriteFails(w, AfterFailure(w))
     ELSE Goto(w, "globals") /\ UNCHANGED <<ok, text>>
  /\ UNCHANGED <<job, i, temp, dir, copy>>

(* minic_program_visit_globals.                                            *)
EmitGlobal(w) ==
  /\ At(w, "globals") /\ i[w] < job[w].globals
  /\ \/ /\ Writes(w, Piece("global", i[w] + 1), "globals")
        /\ i' = [i EXCEPT ![w] = @ + 1]
     \/ WriteFails(w, AfterFailure(w)) /\ i' = [i EXCEPT ![w] = 0]
  /\ UNCHANGED <<job, temp, dir, copy>>

GlobalsEnd(w) ==
  /\ At(w, "globals") /\ i[w] = job[w].globals
  /\ Goto(w, "between") /\ i' = [i EXCEPT ![w] = 0]
  /\ UNCHANGED <<job, ok, temp, dir, text, copy>>

EmitBetween(w) ==
  /\ At(w, "between")
  /\ IF job[w].between
     THEN \/ Writes(w, Piece("between", 0), "functions")
          \/ WriteFails(w, AfterFailure(w))
     ELSE Goto(w, "functions") /\ UNCHANGED <<ok, text>>
  /\ UNCHANGED <<job, i, temp, dir, copy>>

CurrentFunction(w) == job[w].functions[i[w] + 1]

FunctionFails(w) ==
  /\ Fail(w) /\ Goto(w, IF job[w].census THEN "functions" ELSE "close")

(* Mutant: the loop does not pass over a function that is not selected.    *)
EmitFunctionStays(w) ==
  /\ At(w, "functions") /\ i[w] < Len(job[w].functions)
  /\ IF ~Selected(CurrentFunction(w), job[w].selection)
     THEN UNCHANGED <<pc, ok, i, text>>
     ELSE /\ i' = [i EXCEPT ![w] = @ + 1]
          /\ \/ Writes(w, Piece("function", i[w] + 1), "functions")
             \/ FunctionFails(w) /\ UNCHANGED text
  /\ UNCHANGED <<job, temp, dir, copy>>

(* minic_program_visit_prepared_functions: a function that is not selected *)
(* is passed over; the plan of a definition may fail before anything is    *)
(* written, the visitor after a part.                                      *)
EmitFunction(w) ==
  /\ At(w, "functions") /\ i[w] < Len(job[w].functions)
  /\ i' = [i EXCEPT ![w] = @ + 1]
  /\ IF ~Selected(CurrentFunction(w), job[w].selection)
     THEN UNCHANGED <<pc, ok, text>>
     ELSE \/ Writes(w, Piece("function", i[w] + 1), "functions")
          \/ /\ \/ CurrentFunction(w).defined /\ UNCHANGED text
                \/ text' = [text EXCEPT ![w] = @ \cup {Torn}]
             /\ FunctionFails(w)
  /\ UNCHANGED <<job, temp, dir, copy>>

FunctionsEnd(w) ==
  /\ At(w, "functions") /\ i[w] = Len(job[w].functions)
  /\ Goto(w, IF ok[w] THEN "trailer" ELSE "close")
  /\ UNCHANGED <<job, ok, i, temp, dir, text, copy>>

EmitTrailer(w) ==
  /\ At(w, "trailer")
  /\ IF job[w].trailer
     THEN \/ Writes(w, Piece("trailer", 0), "close")
          \/ WriteFails(w, "close")
     ELSE Goto(w, "close") /\ UNCHANGED <<ok, text>>
  /\ UNCHANGED <<job, i, temp, dir, copy>>

-----------------------------------------------------------------------------

(* Mutant: the output is linked to the temporary before it is finalised.   *)
CloseAndLink(w) ==
  /\ At(w, "close")
  /\ \/ /\ Goto(w, IF ok[w] THEN "finalize" ELSE "remove")
        /\ dir' = IF ok[w] THEN [dir EXCEPT ![Path] = dir[temp[w]]] ELSE dir
        /\ UNCHANGED <<ok, text>>
     \/ WriteFails(w, "remove") /\ UNCHANGED dir
  /\ UNCHANGED <<job, i, temp, copy>>

(* fclose writes what stdio still holds.                                   *)
Close(w) ==
  /\ At(w, "close")
  /\ \/ /\ Goto(w, IF ok[w] THEN "finalize" ELSE "remove")
        /\ UNCHANGED <<ok, text>>
     \/ WriteFails(w, "remove")
  /\ UNCHANGED <<job, i, temp, dir, copy>>

(* config->finalize on the temporary, by name: none; an audit that reads   *)
(* it (rv64_finalize); a rewrite, which first reads it into a file of its  *)
(* own and then truncates it (minic_aarch64_legalize_large_sp_memory).     *)
Finalize(w) ==
  /\ At(w, "finalize")
  /\ \/ job[w].finalize # "rewrite" /\ Goto(w, "rename") /\ UNCHANGED <<ok, text, copy>>
     \/ job[w].finalize # "none" /\ Goto(w, "remove") /\ Fail(w)
        /\ UNCHANGED <<text, copy>>
     \/ /\ job[w].finalize = "rewrite"
        /\ copy' = [copy EXCEPT ![w] = text[dir[temp[w]]]]
        /\ text' = [text EXCEPT ![dir[temp[w]]] = {}]
        /\ Goto(w, "rewrite") /\ UNCHANGED ok
  /\ UNCHANGED <<job, i, temp, dir>>

(* What was read, legal now, is written back.                              *)
Rewrite(w) ==
  /\ At(w, "rewrite")
  /\ \/ /\ text' = [text EXCEPT ![dir[temp[w]]] = copy[w] \cup {Legal}]
        /\ Goto(w, "rename") /\ UNCHANGED ok
     \/ /\ text' = [text EXCEPT ![dir[temp[w]]] = {Torn}]
        /\ Goto(w, "remove") /\ Fail(w)
  /\ UNCHANGED <<job, i, temp, dir, copy>>

(* Mutant: the output is removed before the temporary takes its name.      *)
UnlinkFirst(w) ==
  /\ At(w, "rename")
  /\ \/ dir[Path] # None /\ dir' = [dir EXCEPT ![Path] = None] /\ UNCHANGED <<pc, ok>>
     \/ /\ dir[Path] = None
        /\ dir' = [dir EXCEPT ![Path] = dir[temp[w]], ![temp[w]] = None]
        /\ Goto(w, "done") /\ UNCHANGED ok
  /\ UNCHANGED <<job, i, temp, text, copy>>

Rename(w) ==
  /\ At(w, "rename")
  /\ \/ /\ dir' = [dir EXCEPT ![Path] = dir[temp[w]], ![temp[w]] = None]
        /\ Goto(w, "done") /\ UNCHANGED ok
     \/ Goto(w, "remove") /\ Fail(w) /\ UNCHANGED dir
  /\ UNCHANGED <<job, i, temp, text, copy>>

(* Mutant: the temporary stays.                                            *)
RemoveNothing(w) ==
  /\ At(w, "remove") /\ Goto(w, "done")
  /\ UNCHANGED <<job, ok, i, temp, dir, text, copy>>

Remove(w) ==
  /\ At(w, "remove") /\ Goto(w, "done")
  /\ dir' = [dir EXCEPT ![temp[w]] = None]
  /\ UNCHANGED <<job, ok, i, temp, text, copy>>

(* The process is killed.                                                  *)
Crash(w) ==
  /\ pc[w] \notin {"done", "dead"} /\ Goto(w, "dead")
  /\ UNCHANGED <<job, ok, i, temp, dir, text, copy>>

Step(w) ==
  \/ CreateTemp(w) \/ CreateFails(w) \/ FdOpen(w) \/ EmitPrefix(w)
  \/ EmitGlobal(w) \/ GlobalsEnd(w) \/ EmitBetween(w) \/ EmitFunction(w)
  \/ FunctionsEnd(w) \/ EmitTrailer(w) \/ Close(w) \/ Finalize(w)
  \/ Rewrite(w) \/ Rename(w) \/ Remove(w)

Terminated == \A w \in Writers : pc[w] \in {"done", "dead"}

Next ==
  \/ \E w \in Writers : Step(w) \/ Crash(w)
  \/ Terminated /\ UNCHANGED vars

(* A compiler keeps running unless it is killed.                           *)
Spec == Init /\ [][Next]_vars /\ \A w \in Writers : WF_vars(Step(w))

-----------------------------------------------------------------------------

Stages ==
  {"create", "fdopen", "prefix", "globals", "between", "functions", "trailer",
   "close", "finalize", "rewrite", "rename", "remove", "done", "dead"}

TypeOK ==
  /\ job \in [Writers -> Jobs]
  /\ pc \in [Writers -> Stages]
  /\ ok \in [Writers -> BOOLEAN]
  /\ i \in [Writers -> Nat]
  /\ temp \in [Writers -> Temps \cup {None}]
  /\ copy \in [Writers -> SUBSET Pieces]
  /\ dir \in [Names -> Files \cup {None}]
  /\ text \in [Files -> SUBSET Pieces]
  /\ \A w \in Writers :
       /\ pc[w] \in {"create", "fdopen", "prefix", "between"} => i[w] = 0
       /\ pc[w] = "globals" => i[w] <= job[w].globals
       /\ pc[w] \in {"functions", "close"} => i[w] <= Len(job[w].functions)
       /\ pc[w] = "trailer" => i[w] = Len(job[w].functions)

(* Whose whole text the output holds.                                      *)
Holder ==
  IF dir[Path] = None THEN None
  ELSE IF text[dir[Path]] = WholeText(dir[Path]) THEN dir[Path] ELSE "garbage"

Fate(w) ==
  IF pc[w] = "done" THEN (IF ok[w] THEN "published" ELSE "gone")
  ELSE IF pc[w] = "dead" THEN "gone" ELSE "pending"

Output ==
  INSTANCE AtomicFile WITH current <- Holder, fate <- [w \in Writers |-> Fate(w)]

(* Under its name the output is always what it was or the whole text of    *)
(* one writer; it changes in one step, when the writer that returns TRUE   *)
(* renames; a failure of any stage, or a kill, leaves it untouched         *)
(* (program_emit.h: "Only a successful close/finalization may atomically   *)
(* replace the public path").                                              *)
AtomicReplacement == Output!FileSafe

(* A writer returns unless it is killed: every failure in every stage      *)
(* leads out, and both loops of program_visit.h end.                       *)
WritersEnd == \A w \in Writers : <>(pc[w] \in {"done", "dead"})

(* A file is not written any more while it is the output, so that who      *)
(* opened it reads one text to the end: descriptors are closed and the     *)
(* finaliser is done before the rename.                                    *)
PublishedIsFrozen == [][dir[Path] # None => text'[dir[Path]] = text[dir[Path]]]_vars

(* A temporary in the directory is that of the one writer that made it,    *)
(* which is at work or was killed: every return has removed or renamed its *)
(* own, and none has touched another's.                                    *)
TempsHaveOwners ==
  \A n \in Temps :
    dir[n] # None =>
      dir[n] \in Writers /\ temp[dir[n]] = n /\ pc[dir[n]] \notin {"create", "done"}

(* A census that could open its temporary visits every function, whatever  *)
(* failed before (direct_program_emit.c counts the rejected ones).         *)
CensusScansAll ==
  \A w \in Writers :
    job[w].census /\ pc[w] \in {"trailer", "close"} => i[w] = Len(job[w].functions)
=============================================================================

------------------------------- MODULE Driver -------------------------------
(***************************************************************************)
(* The staged compiler driver `minic` (tools/minic/main.c) after its       *)
(* options have been accepted: several driver processes run side by side,  *)
(* as under `make -j`, and share the temporary directory.  A driver makes  *)
(* temporary files, forks minic-cpp, minic-cc, minic-as and minic-ld one   *)
(* after the other, unlinks what it made and exits with a status.          *)
(*                                                                         *)
(* A file is what a later stage can read from it: its kind, the source it  *)
(* was translated from and, for a temporary, the driver that created it.   *)
(***************************************************************************)
EXTENDS Naturals, Sequences

CONSTANTS
  Proc,       \* driver processes
  TempName,   \* names mkstemp may choose in /tmp
  NoTemp,     \* not a temporary: NULL, or a path the user named
  NoProc,     \* the creator of a name that is not in use
  MaxInputs,  \* bound on the number of inputs (MINIC_DRIVER_MAX_INPUTS is 128)
  Jobs        \* the command lines the drivers may be started with

ASSUME DriverConstants ==
  /\ NoTemp \notin TempName
  /\ NoProc \notin Proc
  /\ MaxInputs \in Nat \ {0}

VARIABLES
  job,      \* the accepted command line and environment of each driver
  pc,       \* the statement a driver executes next
  idx,      \* input_index of the link loop
  status,   \* main's status: 0, or 1 for any failure code
  ti, ts,   \* temp_i and temp_s of the unit being compiled
  objs,     \* temporary_objects
  linkIn,   \* link_inputs: a temporary object, or NoTemp for a user's file
  tmp,      \* the files of /tmp
  out,      \* the file at the -o path of each driver
  failed    \* history: a tool this driver ran has failed

vars == <<job, pc, idx, status, ti, ts, objs, linkIn, tmp, out, failed>>

-----------------------------------------------------------------------------
(* Files, jobs and program points.                                         *)

NoSrc == <<NoProc, 0>>

Src == Proc \X (1 .. MaxInputs)

Absent == [by |-> NoProc, kind |-> "absent", src |-> NoSrc]

File(p, kind, src) == [by |-> p, kind |-> kind, src |-> src]

TempFile ==
  [by : Proc \cup {NoProc},
   kind : {"absent", "empty", "partial", "i", "s", "o"},
   src : Src \cup {NoSrc}]

Exists(n) == tmp[n] # Absent

OutFile ==
  [kind : {"absent", "prior", "partial", "s", "o", "exe"},
   srcs : Seq(Src \cup {NoSrc})]

Output(kind, srcs) == [kind |-> kind, srcs |-> srcs]

InputKind == {"c", "o"}

(* -S and -c take exactly one input; a link takes one or more.  keep is    *)
(* the environment variable MINIC_KEEP_FAILED_TEMPS.                       *)
Job ==
  [mode : {"S", "c"}, inputs : [1 .. 1 -> InputKind], keep : BOOLEAN]
    \cup
  [mode : {"link"},
   inputs : UNION {[1 .. k -> InputKind] : k \in 1 .. MaxInputs},
   keep : BOOLEAN]

ASSUME JobsAreAccepted == Jobs \subseteq Job

Label ==
  {"main", "loop", "mk_s", "mk_i", "cpp", "cc", "drop_i", "as", "drop_s",
   "ret", "ld", "chmod", "done", "exit", "killed"}

Init ==
  /\ job \in [Proc -> Jobs]
  /\ pc = [p \in Proc |-> "main"]
  /\ idx = [p \in Proc |-> 1]
  /\ status = [p \in Proc |-> 1]
  /\ ti = [p \in Proc |-> NoTemp]
  /\ ts = [p \in Proc |-> NoTemp]
  /\ objs = [p \in Proc |-> << >>]
  /\ linkIn = [p \in Proc |-> << >>]
  /\ tmp = [n \in TempName |-> Absent]
  /\ out \in [Proc -> {Output("absent", << >>), Output("prior", << >>)}]
  /\ failed = [p \in Proc |-> FALSE]

Goto(p, from, to) ==
  /\ pc[p] = from
  /\ pc' = [pc EXCEPT ![p] = to]

(* Mutant: a name that is merely likely to be free (tmpnam, no O_EXCL).     *)
MakeTempUnchecked(p, n) == tmp' = [tmp EXCEPT ![n] = File(p, "empty", NoSrc)]

(* make_temp_path: mkstemp creates an empty file under a name that is not  *)
(* in use; when it, or the close after it, fails there is no file.         *)
MakeTemp(p, n) ==
  /\ ~Exists(n)
  /\ tmp' = [tmp EXCEPT ![n] = File(p, "empty", NoSrc)]

Unlink(n) == tmp' = [tmp EXCEPT ![n] = Absent]

(* The file that minic-as writes: the -o path, or the unit's temporary.    *)
ObjectPath(p) == objs[p][Len(objs[p])]

-----------------------------------------------------------------------------
(* main: the mode decides which pipeline runs.                             *)

Main(p) ==
  /\ Goto(p, "main",
          IF job[p].mode = "S" THEN "cc" ELSE IF job[p].mode = "c" THEN "mk_s" ELSE "loop")
  /\ UNCHANGED <<job, idx, status, ti, ts, objs, linkIn, tmp, out, failed>>

(* No memory for the tool, library or startup paths: nothing ran yet.      *)
MainFails(p) ==
  /\ Goto(p, "main", "done")
  /\ UNCHANGED <<job, idx, status, ti, ts, objs, linkIn, tmp, out, failed>>

(* The link loop: an input that is not C goes to the linker as it is.      *)
LoopObject(p) ==
  /\ idx[p] <= Len(job[p].inputs)
  /\ job[p].inputs[idx[p]] = "o"
  /\ Goto(p, "loop", "loop")
  /\ linkIn' = [linkIn EXCEPT ![p] = Append(@, NoTemp)]
  /\ idx' = [idx EXCEPT ![p] = @ + 1]
  /\ UNCHANGED <<job, status, ti, ts, objs, tmp, out, failed>>

LoopSource(p) ==
  /\ idx[p] <= Len(job[p].inputs)
  /\ job[p].inputs[idx[p]] = "c"
  /\ Goto(p, "loop", "mk_s")
  /\ \E n \in TempName :
       /\ MakeTemp(p, n)
       /\ objs' = [objs EXCEPT ![p] = Append(@, n)]
  /\ UNCHANGED <<job, idx, status, ti, ts, linkIn, out, failed>>

(* The object's temporary cannot be made: `goto done`, status as it was.   *)
LoopSourceFails(p) ==
  /\ idx[p] <= Len(job[p].inputs)
  /\ job[p].inputs[idx[p]] = "c"
  /\ Goto(p, "loop", "done")
  /\ UNCHANGED <<job, idx, status, ti, ts, objs, linkIn, tmp, out, failed>>

LoopEnd(p) ==
  /\ idx[p] > Len(job[p].inputs)
  /\ Goto(p, "loop", "ld")
  /\ UNCHANGED <<job, idx, status, ti, ts, objs, linkIn, tmp, out, failed>>

-----------------------------------------------------------------------------
(* compile_c_to_object and, inside it, compile_c_to_assembly.              *)

MakeTempS(p) ==
  \/ /\ Goto(p, "mk_s", "mk_i")
     /\ \E n \in TempName : MakeTemp(p, n) /\ ts' = [ts EXCEPT ![p] = n]
     /\ UNCHANGED <<job, idx, status, ti, objs, linkIn, out, failed>>
  \/ /\ Goto(p, "mk_s", "ret")
     /\ status' = [status EXCEPT ![p] = 1]
     /\ UNCHANGED <<job, idx, ti, ts, objs, linkIn, tmp, out, failed>>

MakeTempI(p) ==
  \/ /\ Goto(p, "mk_i", "cpp")
     /\ \E n \in TempName : MakeTemp(p, n) /\ ti' = [ti EXCEPT ![p] = n]
     /\ UNCHANGED <<job, idx, status, ts, objs, linkIn, out, failed>>
  \/ /\ Goto(p, "mk_i", "drop_s")
     /\ status' = [status EXCEPT ![p] = 1]
     /\ UNCHANGED <<job, idx, ti, ts, objs, linkIn, tmp, out, failed>>

(* Mutant: the failure code is not stored in `status`.                     *)
ToolFailsUnseen(p) ==
  /\ UNCHANGED status
  /\ failed' = [failed EXCEPT ![p] = TRUE]

(* run_tool returned 0 or a failure code; a tool that fails has left its   *)
(* output as it was or, when it was interrupted while writing, truncated.  *)
ToolFails(p) ==
  /\ status' = [status EXCEPT ![p] = 1]
  /\ failed' = [failed EXCEPT ![p] = TRUE]

(* minic-cpp writes its output in place.                                   *)
RunCpp(p) ==
  \/ /\ Goto(p, "cpp", "cc")
     /\ tmp' = [tmp EXCEPT ![ti[p]] = File(@.by, "i", <<p, idx[p]>>)]
     /\ status' = [status EXCEPT ![p] = 0]
     /\ UNCHANGED <<job, idx, ti, ts, objs, linkIn, out, failed>>
  \/ /\ Goto(p, "cpp", "drop_i")
     /\ ToolFails(p)
     /\ \/ UNCHANGED tmp
        \/ tmp' = [tmp EXCEPT ![ti[p]] = File(@.by, "partial", NoSrc)]
     /\ UNCHANGED <<job, idx, ti, ts, objs, linkIn, out>>

(* minic-cc renames a finished file over its output: a failure leaves the  *)
(* output alone.  In -S mode it reads the user's .i and writes the -o path.*)
RunCc(p) ==
  \/ /\ job[p].mode # "S"
     /\ Goto(p, "cc", "drop_i")
     /\ tmp' = [tmp EXCEPT ![ts[p]] = File(@.by, "s", tmp[ti[p]].src)]
     /\ status' = [status EXCEPT ![p] = 0]
     /\ UNCHANGED <<job, idx, ti, ts, objs, linkIn, out, failed>>
  \/ /\ job[p].mode # "S"
     /\ Goto(p, "cc", "drop_i")
     /\ ToolFails(p)
     /\ UNCHANGED <<job, idx, ti, ts, objs, linkIn, tmp, out>>
  \/ /\ job[p].mode = "S"
     /\ Goto(p, "cc", "done")
     /\ out' = [out EXCEPT ![p] = Output("s", << <<p, 1>> >>)]
     /\ status' = [status EXCEPT ![p] = 0]
     /\ UNCHANGED <<job, idx, ti, ts, objs, linkIn, tmp, failed>>
  \/ /\ job[p].mode = "S"
     /\ Goto(p, "cc", "done")
     /\ ToolFails(p)
     /\ UNCHANGED <<job, idx, ti, ts, objs, linkIn, tmp, out>>

(* Mutant: temp_i is unlinked on the success path only.                    *)
DropTempILeaks(p) ==
  /\ Goto(p, "drop_i", IF status[p] = 0 THEN "as" ELSE "drop_s")
  /\ IF status[p] # 0 THEN UNCHANGED tmp ELSE Unlink(ti[p])
  /\ ti' = [ti EXCEPT ![p] = NoTemp]
  /\ UNCHANGED <<job, idx, status, ts, objs, linkIn, out, failed>>

(* Mutant: the assembler runs whatever compile_c_to_assembly returned.     *)
DropTempIGoesOn(p) ==
  /\ Goto(p, "drop_i", "as")
  /\ IF status[p] # 0 /\ job[p].keep THEN UNCHANGED tmp ELSE Unlink(ti[p])
  /\ ti' = [ti EXCEPT ![p] = NoTemp]
  /\ UNCHANGED <<job, idx, status, ts, objs, linkIn, out, failed>>

(* The end of compile_c_to_assembly: temp_i is kept only after a failure   *)
(* and only on request.                                                    *)
DropTempI(p) ==
  /\ Goto(p, "drop_i", IF status[p] = 0 THEN "as" ELSE "drop_s")
  /\ IF status[p] # 0 /\ job[p].keep THEN UNCHANGED tmp ELSE Unlink(ti[p])
  /\ ti' = [ti EXCEPT ![p] = NoTemp]
  /\ UNCHANGED <<job, idx, status, ts, objs, linkIn, out, failed>>

(* minic-as writes its output in place and removes nothing on failure. The *)
(* return before it, for an option that does not fit its buffer, is left   *)
(* out: main has validated -march and -mabi.                               *)
RunAs(p) ==
  \/ /\ job[p].mode = "link"
     /\ Goto(p, "as", "drop_s")
     /\ tmp' = [tmp EXCEPT ![ObjectPath(p)] = File(@.by, "o", tmp[ts[p]].src)]
     /\ status' = [status EXCEPT ![p] = 0]
     /\ UNCHANGED <<job, idx, ti, ts, objs, linkIn, out, failed>>
  \/ /\ job[p].mode = "link"
     /\ Goto(p, "as", "drop_s")
     /\ ToolFails(p)
     /\ \/ UNCHANGED tmp
        \/ tmp' = [tmp EXCEPT ![ObjectPath(p)] = File(@.by, "partial", NoSrc)]
     /\ UNCHANGED <<job, idx, ti, ts, objs, linkIn, out>>
  \/ /\ job[p].mode = "c"
     /\ Goto(p, "as", "drop_s")
     /\ out' = [out EXCEPT ![p] = Output("o", <<tmp[ts[p]].src>>)]
     /\ status' = [status EXCEPT ![p] = 0]
     /\ UNCHANGED <<job, idx, ti, ts, objs, linkIn, tmp, failed>>
  \/ /\ job[p].mode = "c"
     /\ Goto(p, "as", "drop_s")
     /\ ToolFails(p)
     /\ \/ UNCHANGED out
        \/ out' = [out EXCEPT ![p] = Output("partial", << >>)]
     /\ UNCHANGED <<job, idx, ti, ts, objs, linkIn, tmp>>

DropTempS(p) ==
  /\ Goto(p, "drop_s", "ret")
  /\ IF status[p] # 0 /\ job[p].keep THEN UNCHANGED tmp ELSE Unlink(ts[p])
  /\ ts' = [ts EXCEPT ![p] = NoTemp]
  /\ UNCHANGED <<job, idx, status, ti, objs, linkIn, out, failed>>

(* Mutant: the link loop goes on after a unit that failed.                 *)
ReturnIgnoresFailure(p) ==
  LET next == job[p].mode = "link" IN
  /\ Goto(p, "ret", IF next THEN "loop" ELSE "done")
  /\ IF next
     THEN /\ linkIn' = [linkIn EXCEPT ![p] = Append(@, ObjectPath(p))]
          /\ idx' = [idx EXCEPT ![p] = @ + 1]
     ELSE UNCHANGED <<linkIn, idx>>
  /\ UNCHANGED <<job, status, ti, ts, objs, tmp, out, failed>>

(* Mutant: every unit is compiled to the first unit's link input.          *)
ReturnFirstObject(p) ==
  LET next == job[p].mode = "link" /\ status[p] = 0 IN
  /\ Goto(p, "ret", IF next THEN "loop" ELSE "done")
  /\ IF next
     THEN /\ linkIn' = [linkIn EXCEPT ![p] = Append(@, objs[p][1])]
          /\ idx' = [idx EXCEPT ![p] = @ + 1]
     ELSE UNCHANGED <<linkIn, idx>>
  /\ UNCHANGED <<job, status, ti, ts, objs, tmp, out, failed>>

(* Back in main: -c is finished; the link loop stops at the first failure. *)
Return(p) ==
  LET next == job[p].mode = "link" /\ status[p] = 0 IN
  /\ Goto(p, "ret", IF next THEN "loop" ELSE "done")
  /\ IF next
     THEN /\ linkIn' = [linkIn EXCEPT ![p] = Append(@, ObjectPath(p))]
          /\ idx' = [idx EXCEPT ![p] = @ + 1]
     ELSE UNCHANGED <<linkIn, idx>>
  /\ UNCHANGED <<job, status, ti, ts, objs, tmp, out, failed>>

-----------------------------------------------------------------------------
(* The link, the chmod of its output and the cleanup at `done`.            *)

(* The linker opens the paths now: what it links is what is there now.     *)
LinkedSrcs(p) ==
  [k \in DOMAIN linkIn[p] |->
     IF linkIn[p][k] = NoTemp THEN <<p, k>> ELSE tmp[linkIn[p][k]].src]

(* minic-ld writes its output in place and removes it when it fails after  *)
(* that; an earlier failure leaves the output alone.                       *)
RunLd(p) ==
  \/ /\ Goto(p, "ld", "chmod")
     /\ out' = [out EXCEPT ![p] = Output("exe", LinkedSrcs(p))]
     /\ status' = [status EXCEPT ![p] = 0]
     /\ UNCHANGED <<job, idx, ti, ts, objs, linkIn, tmp, failed>>
  \/ /\ Goto(p, "ld", "done")
     /\ ToolFails(p)
     /\ \/ UNCHANGED out
        \/ \E kind \in {"absent", "partial"} :
             out' = [out EXCEPT ![p] = Output(kind, << >>)]
     /\ UNCHANGED <<job, idx, ti, ts, objs, linkIn, tmp>>

Chmod(p) ==
  /\ Goto(p, "chmod", "done")
  /\ \E s \in {0, 1} : status' = [status EXCEPT ![p] = s]
  /\ UNCHANGED <<job, idx, ti, ts, objs, linkIn, tmp, out, failed>>

(* Mutant: the count is not decremented.                                   *)
CleanObjectForever(p) ==
  /\ objs[p] # << >>
  /\ Goto(p, "done", "done")
  /\ Unlink(ObjectPath(p))
  /\ UNCHANGED <<job, idx, status, ti, ts, objs, linkIn, out, failed>>

(* One turn of the `while (temporary_object_count != 0U)` loop.            *)
CleanObject(p) ==
  /\ objs[p] # << >>
  /\ Goto(p, "done", "done")
  /\ Unlink(ObjectPath(p))
  /\ objs' = [objs EXCEPT ![p] = SubSeq(@, 1, Len(@) - 1)]
  /\ UNCHANGED <<job, idx, status, ti, ts, linkIn, out, failed>>

Exit(p) ==
  /\ objs[p] = << >>
  /\ Goto(p, "done", "exit")
  /\ UNCHANGED <<job, idx, status, ti, ts, objs, linkIn, tmp, out, failed>>

(* The driver installs no signal handler: SIGINT or SIGKILL ends it at any *)
(* point and leaves its temporaries behind.                                *)
Kill(p) ==
  /\ pc[p] \notin {"exit", "killed"}
  /\ pc' = [pc EXCEPT ![p] = "killed"]
  /\ UNCHANGED <<job, idx, status, ti, ts, objs, linkIn, tmp, out, failed>>

-----------------------------------------------------------------------------

Step(p) ==
  \/ Main(p) \/ MainFails(p)
  \/ LoopObject(p) \/ LoopSource(p) \/ LoopSourceFails(p) \/ LoopEnd(p)
  \/ MakeTempS(p) \/ MakeTempI(p)
  \/ RunCpp(p) \/ RunCc(p) \/ DropTempI(p) \/ RunAs(p) \/ DropTempS(p)
  \/ Return(p) \/ RunLd(p) \/ Chmod(p) \/ CleanObject(p) \/ Exit(p)

Terminated == \A p \in Proc : pc[p] \in {"exit", "killed"}

Next ==
  \/ \E p \in Proc : Step(p) \/ Kill(p)
  \/ Terminated /\ UNCHANGED vars

(* A driver keeps running: the operating system schedules it and each tool *)
(* it waits for ends.                                                      *)
Fairness == \A p \in Proc : WF_vars(Step(p))

Spec == Init /\ [][Next]_vars /\ Fairness

-----------------------------------------------------------------------------
(* Properties.                                                             *)

TypeOK ==
  /\ job \in [Proc -> Jobs]
  /\ pc \in [Proc -> Label]
  /\ idx \in [Proc -> 1 .. MaxInputs + 1]
  /\ status \in [Proc -> {0, 1}]
  /\ ti \in [Proc -> TempName \cup {NoTemp}]
  /\ ts \in [Proc -> TempName \cup {NoTemp}]
  /\ objs \in [Proc -> Seq(TempName)]
  /\ linkIn \in [Proc -> Seq(TempName \cup {NoTemp})]
  /\ tmp \in [TempName -> TempFile]
  /\ out \in [Proc -> OutFile]
  /\ failed \in [Proc -> BOOLEAN]

(* A stage never reads a temporary that the stage before it did not        *)
(* finish, nor one made from another unit or by another driver: this is    *)
(* what `compile_c_to_object` and the link loop of main rely on when they  *)
(* pass paths from one forked tool to the next.                            *)
StageInputs ==
  \A p \in Proc :
    /\ pc[p] = "cc" /\ job[p].mode # "S" => tmp[ti[p]] = File(p, "i", <<p, idx[p]>>)
    /\ pc[p] = "as" => tmp[ts[p]] = File(p, "s", <<p, idx[p]>>)
    /\ pc[p] = "ld" =>
         /\ Len(linkIn[p]) = Len(job[p].inputs)
         /\ \A k \in DOMAIN linkIn[p] :
              IF job[p].inputs[k] = "o"
              THEN linkIn[p][k] = NoTemp
              ELSE /\ linkIn[p][k] \in TempName
                   /\ tmp[linkIn[p][k]] = File(p, "o", <<p, k>>)

(* The source sequence a finished output stands for.                       *)
AllSrcs(p) == [k \in DOMAIN job[p].inputs |-> <<p, k>>]

(* An object or executable at the -o path was built from this driver's     *)
(* inputs, all of them, in the order of the command line.                  *)
OutputIsWhole ==
  \A p \in Proc : out[p].kind \in {"s", "o", "exe"} => out[p].srcs = AllSrcs(p)

Owned(p) == {n \in TempName : tmp[n].by = p}

(* A driver that exits has unlinked every temporary it made; after a       *)
(* failure under MINIC_KEEP_FAILED_TEMPS it keeps at most two, the .i and  *)
(* the .s of the unit that failed.                                         *)
NoLeak ==
  \A p \in Proc :
    pc[p] = "exit" =>
      IF job[p].keep /\ status[p] # 0
      THEN /\ \A a, b, c \in Owned(p) : a = b \/ b = c \/ a = c
           /\ \A n \in Owned(p) : tmp[n].kind # "o"
      ELSE Owned(p) = {}

(* A tool that failed is never forgotten: no later assignment to `status`  *)
(* turns the driver's exit code back to 0.                                 *)
ToolFailureReported ==
  \A p \in Proc : pc[p] = "exit" /\ failed[p] => status[p] # 0

Wanted(p) == CASE job[p].mode = "S" -> "s" [] job[p].mode = "c" -> "o" [] OTHER -> "exe"

(* Exit code 0 means that the output the user asked for is there.          *)
SuccessMeansOutput ==
  \A p \in Proc :
    pc[p] = "exit" /\ status[p] = 0 => out[p] = Output(Wanted(p), AllSrcs(p))

(* The same for a driver with at most one C source to compile.             *)
OneUnitSuccessMeansOutput ==
  \A p \in Proc :
    /\ pc[p] = "exit" /\ status[p] = 0
    /\ \A k, l \in DOMAIN job[p].inputs :
         job[p].inputs[k] = "c" /\ job[p].inputs[l] = "c" => k = l
    => out[p] = Output(Wanted(p), AllSrcs(p))

(* A temporary is written or unlinked only by a step of the driver that    *)
(* created it: `unlink` by name never hits a file another driver made      *)
(* under the same name meanwhile.                                          *)
OnlyCreatorTouches ==
  [][\A n \in TempName :
       Exists(n) /\ tmp'[n] # tmp[n] =>
         LET q == tmp[n].by IN pc'[q] # pc[q] \/ objs'[q] # objs[q]]_vars

(* Every driver that is not killed gets to its exit, whatever fails.       *)
DriverTerminates == \A p \in Proc : <>(pc[p] \in {"exit", "killed"})
=============================================================================

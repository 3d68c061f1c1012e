------------------------------ MODULE PatchRun ------------------------------
(***************************************************************************)
(* The runs of a source patch script (tools/ci/apply-*.py, tools/dev/      *)
(* patch-*.py, pr7*.py, materialize-*.py): Python programs that read       *)
(* source files with Path.read_text, test how often some text occurs in    *)
(* them, replace an anchor by new text and put the file back with          *)
(* Path.write_text.  A run ends well, refuses the tree (SystemExit with a  *)
(* message), or is killed; the script may be run again on what is left.    *)
(*                                                                         *)
(* A file is known by its index in the script.  Of its text the script     *)
(* sees how often the pieces of text it looks for occur, the literals 1,   *)
(* 2, ... of that file.                                                    *)
(***************************************************************************)
EXTENDS PatchSteps

CONSTANTS
  Script,   \* the scripts, each [base, steps]: the tree it is for, and its code
  Once,     \* the scripts of which no edit may be made twice,
  Whole,    \* whose success means that the work is done,
  Resumed,  \* and which a killed run does not keep from being run again
  MaxRuns   \* bound on the number of runs

-----------------------------------------------------------------------------

Code(s) == s.steps
Files(s) == DOMAIN s.base

(* Where a jump goes.                                                      *)
Target(s, p) == p + Code(s)[p].over + 1

Steps ==
  [op : {"load", "save", "put", "create", "refuse", "jump", "stop"},
   file : Nat, lit : Nat, when : SUBSET (0 .. 2), over : Nat,
   edit : [anchor : Nat, gone : SUBSET Nat, come : SUBSET Nat, all : BOOLEAN]]

(* A step is about a file and literals of the script, and jumps inside it. *)
StepFits(s, i) ==
  LET t == Code(s)[i] IN
  /\ t.op \in {"load", "save", "put", "create"} => t.file \in Files(s)
  /\ t.lit # 0 => t.file \in Files(s) /\ t.lit \in DOMAIN s.base[t.file]
  /\ t.edit.anchor # 0 => t.edit.anchor \in DOMAIN s.base[t.file]
  /\ Target(s, i) <= Len(Code(s)) + 1

ASSUME RunsAssumption == MaxRuns \in Nat \ {0}

ASSUME PromiseAssumption == Once \cup Whole \cup Resumed \subseteq Script

ASSUME ScriptAssumption ==
  \A s \in Script :
    /\ Code(s) \in Seq(Steps)
    /\ 0 \notin Files(s)
    /\ \A f \in Files(s) : s.base[f] \in [DOMAIN s.base[f] -> Nat]
    /\ \A i \in DOMAIN Code(s) : StepFits(s, i)

VARIABLES
  script,  \* the script that is run
  drift,   \* what the tree differs in from the one the script is for
  disk,    \* the files: occurrences of each literal, the edits made, and
           \* those made again
  mem,     \* the texts the run holds
  pc,
  open,    \* the file write_text has truncated and not yet written, or 0
  status,  \* "run", "ok", "refused" or "killed"
  torn,    \* a run was killed between the two
  runs     \* the runs started so far

vars == <<script, drift, disk, mem, pc, open, status, torn, runs>>

Text(n, made, again) == [n |-> n, made |-> made, again |-> again]
Empty(t) == Text([l \in DOMAIN t.n |-> 0], {}, {})

(* The tree a script finds: the one it was written for, or one in which a  *)
(* literal has been lost or has got a second occurrence.                   *)
NoDrift == [file |-> 0, lit |-> 0, n |-> 0]

Drifts(s) ==
  {NoDrift} \cup
    UNION {{[file |-> f, lit |-> l, n |-> k] : l \in DOMAIN s.base[f], k \in {0, 2}} :
             f \in Files(s)}

Found(s, d) ==
  [f \in Files(s) |->
     Text([l \in DOMAIN s.base[f] |->
             IF d.file = f /\ d.lit = l THEN d.n ELSE s.base[f][l]], {}, {})]

Init ==
  /\ script \in Script
  /\ drift \in Drifts(script)
  /\ disk = Found(script, drift)
  /\ mem = disk
  /\ pc = 1 /\ open = 0 /\ status = "run" /\ torn = FALSE /\ runs = 1

-----------------------------------------------------------------------------

Here == Code(script)[pc]
At(op) == status = "run" /\ pc <= Len(Code(script)) /\ Here.op = op

(* The scripts ask for none, one or more; the few that ask for exactly two *)
(* take more for two here.                                                 *)
Cut(n) == IF n > 2 THEN 2 ELSE n
Seen == IF Here.lit = 0 THEN 0 ELSE Cut(mem[Here.file].n[Here.lit])

To(next) == pc' = next /\ status' = status
End(st) == pc' = pc /\ status' = st

(* text = path.read_text()                                                 *)
Read ==
  /\ At("load")
  /\ mem' = [mem EXCEPT ![Here.file] = disk[Here.file]]
  /\ To(pc + 1)
  /\ UNCHANGED <<script, drift, disk, open, torn, runs>>

(* if text.count(literal) != 1: raise SystemExit(...), and its variants    *)
Check ==
  /\ At("refuse")
  /\ IF Seen \in Here.when THEN End("refused") ELSE To(pc + 1)
  /\ UNCHANGED <<script, drift, disk, mem, open, torn, runs>>

(* if literal in text: the rest of a function or of a block is left out    *)
Branch ==
  /\ At("jump")
  /\ To(IF Seen \in Here.when THEN pc + Here.over + 1 ELSE pc + 1)
  /\ UNCHANGED <<script, drift, disk, mem, open, torn, runs>>

(* if literal in text: raise SystemExit(0)                                 *)
Leave ==
  /\ At("stop")
  /\ IF Seen \in Here.when THEN End("ok") ELSE To(pc + 1)
  /\ UNCHANGED <<script, drift, disk, mem, open, torn, runs>>

Times(n, e) ==
  CASE e.anchor = 0 -> 1
    [] e.anchor # 0 /\ n[e.anchor] # 0 /\ ~e.all -> 1
    [] OTHER -> n[e.anchor]

Less(x, y) == IF x < y THEN 0 ELSE x - y

(* text.replace(old, new, 1): nothing happens when old does not occur      *)
Replaced(t, e, i) ==
  LET k == Times(t.n, e) IN
  IF k = 0 THEN t
  ELSE Text([l \in DOMAIN t.n |->
               CASE l \in e.come -> t.n[l] + k
                 [] l \in e.gone \ e.come -> Less(t.n[l], k)
                 [] OTHER -> t.n[l]],
            t.made \cup {i}, t.again \cup ({i} \cap t.made))

Replace ==
  /\ At("put")
  /\ mem' = [mem EXCEPT ![Here.file] = Replaced(@, Here.edit, pc)]
  /\ To(pc + 1)
  /\ UNCHANGED <<script, drift, disk, open, torn, runs>>

(* A text that does not come from the file.                                *)
Compose ==
  /\ At("create")
  /\ mem' = [mem EXCEPT ![Here.file] = Text(@.n, {pc}, {})]
  /\ To(pc + 1)
  /\ UNCHANGED <<script, drift, disk, open, torn, runs>>

(* path.write_text(text) truncates the file and then writes it.            *)
Truncate ==
  /\ At("save") /\ open = 0
  /\ disk' = [disk EXCEPT ![Here.file] = Empty(@)]
  /\ open' = Here.file
  /\ UNCHANGED <<script, drift, mem, pc, status, torn, runs>>

Write ==
  /\ At("save") /\ open # 0
  /\ disk' = [disk EXCEPT ![Here.file] = mem[Here.file]]
  /\ open' = 0
  /\ To(pc + 1)
  /\ UNCHANGED <<script, drift, mem, torn, runs>>

Finish ==
  /\ status = "run" /\ pc > Len(Code(script))
  /\ End("ok")
  /\ UNCHANGED <<script, drift, disk, mem, open, torn, runs>>

(* The process dies, between two steps or inside write_text.               *)
Kill ==
  /\ status = "run" /\ runs < MaxRuns
  /\ End("killed")
  /\ torn' = (torn \/ open # 0)
  /\ open' = 0
  /\ UNCHANGED <<script, drift, disk, mem, runs>>

Rerun ==
  /\ status # "run" /\ runs < MaxRuns
  /\ mem' = disk
  /\ pc' = 1 /\ status' = "run" /\ runs' = runs + 1
  /\ UNCHANGED <<script, drift, disk, open, torn>>

AllDone == status # "run" /\ runs = MaxRuns /\ UNCHANGED vars

Run ==
  \/ Read \/ Check \/ Branch \/ Leave \/ Replace \/ Compose
  \/ Truncate \/ Write \/ Finish

Next == Run \/ Kill \/ Rerun \/ AllDone

Spec == Init /\ [][Next]_vars /\ WF_vars(Run)

-----------------------------------------------------------------------------
(* Type correctness; a file is open only inside write_text.                *)
TypeOK ==
  /\ script \in Script /\ drift \in Drifts(script)
  /\ DOMAIN disk = Files(script) /\ DOMAIN mem = Files(script)
  /\ \A f \in Files(script) : \A t \in {disk[f], mem[f]} :
       /\ t.n \in [DOMAIN script.base[f] -> Nat]
       /\ t.made \subseteq DOMAIN Code(script) /\ t.again \subseteq t.made
  /\ pc \in 1 .. Len(Code(script)) + 1
  /\ status \in {"run", "ok", "refused", "killed"}
  /\ open # 0 => At("save") /\ Here.file = open
  /\ torn \in BOOLEAN /\ runs \in 1 .. MaxRuns

-----------------------------------------------------------------------------

Ops(s, ops) == {i \in DOMAIN Code(s) : Code(s)[i].op \in ops}

(* The steps that put text into a file, and those that look for a mark.    *)
Work(s) == Ops(s, {"put", "create"})
Tests(s) == Ops(s, {"stop", "jump"})

Complete == \A i \in Work(script) : i \in disk[Code(script)[i].file].made

(* The tree that was found has a mark of the script in it.                 *)
ForeignMark ==
  /\ drift.n = 2
  /\ \E p \in Tests(script) : Code(script)[p].file = drift.file /\ Code(script)[p].lit = drift.lit

(* No edit has been put into a file that had it already.                   *)
MadeOnce == \A f \in DOMAIN disk : disk[f].again = {}

(* The scripts of Once never put an edit into a file that has it already,  *)
(* whatever was done to the tree before and wherever earlier runs were     *)
(* killed: "must reject partial rather than double patch"                  *)
(* (apply-perf-parser-hash-fallback-v1.py).                                *)
NeverTwice == ~MadeOnce => script \notin Once

(* When a script of Whole reports success, all its edits are in the files, *)
(* also when an earlier run was killed half-way or a replaced anchor was   *)
(* not there: "a partial promotion must never be accepted"                 *)
(* (apply-inline-specialization-capacity-v0.py).                           *)
AcceptedIsComplete ==
  status = "ok" /\ ~Complete /\ ~ForeignMark => script \notin Whole

(* A script of Resumed run on the tree it was written for never refuses    *)
(* what its own earlier runs left behind, unless one of them was killed    *)
(* inside write_text.                                                      *)
OwnWorkIsNotRefused ==
  status = "refused" /\ drift = NoDrift /\ ~torn => script \notin Resumed

(* However often a script of Resumed is killed between two steps and run   *)
(* again, a last run that is not killed comes to its end, and then all the *)
(* work is in the tree and stays there.                                    *)
ResumesToCompletion ==
  (drift = NoDrift /\ script \in Resumed) =>
    <>[](torn \/ status = "killed" \/ (status = "ok" /\ Complete))

(* What the header of a script says of it: a run that succeeds leaves no   *)
(* partial migration behind.                                               *)
FailsClosed == status = "ok" => Complete
=============================================================================

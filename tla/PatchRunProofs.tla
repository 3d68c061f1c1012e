--------------------------- MODULE PatchRunProofs ---------------------------
(***************************************************************************)
(* Type correctness of the runs of a patch script, what a step does to one *)
(* file, the three guards that keep an edit from being made twice, and the *)
(* two theorems: a disciplined script never makes an edit twice, however   *)
(* often it is killed and run again and whatever tree it finds; a careful  *)
(* one that reports success has made all its edits.                        *)
(***************************************************************************)
EXTENDS PatchRun, TLAPS

-----------------------------------------------------------------------------
(* What can be read off a script's code: how it guards each of its edits   *)
(* against being made twice, and what it makes sure of before it succeeds. *)

Edits(s) == Ops(s, {"put"})

(* Count n of the literal at test j keeps a run from going on to step i.   *)
Bars(s, j, i, n) ==
  /\ Code(s)[j].op \in {"refuse", "stop", "jump"} /\ n \in Code(s)[j].when
  /\ Code(s)[j].op = "jump" => Target(s, j) > i

(* A run that comes to one of the steps j + 1 .. i has come through j.     *)
Through(s, j, i) ==
  \A p \in 1 .. j - 1 : Code(s)[p].op = "jump" => Target(s, p) \notin j + 1 .. i

(* No edit of file f removes literal l, or brings it.                      *)
Keeps(s, f, l) ==
  \A p \in Edits(s) : Code(s)[p].file = f => l \notin Code(s)[p].edit.gone
Never(s, f, l) ==
  \A p \in Edits(s) : Code(s)[p].file = f => l \notin Code(s)[p].edit.come

(* Step j lets a run go on to i only without a mark, which edit i brings.  *)
Marked(s, j, i) ==
  /\ j < i /\ Code(s)[j].file = Code(s)[i].file
  /\ Code(s)[j].lit \in Code(s)[i].edit.come /\ Code(s)[j].lit # 0
  /\ Bars(s, j, i, 1) /\ Bars(s, j, i, 2) /\ Through(s, j, i)
  /\ Keeps(s, Code(s)[i].file, Code(s)[j].lit)

(* Step j lets a run go on to k only with a literal, which edit c between  *)
(* them uses up: it takes away all its occurrences.                        *)
UsesUp(s, j, c, k) ==
  /\ j < c /\ c < k /\ Code(s)[j].file = Code(s)[c].file
  /\ Code(s)[j].lit = Code(s)[c].edit.anchor /\ Code(s)[j].lit # 0
  /\ Code(s)[j].lit \in Code(s)[c].edit.gone
  /\ Bars(s, j, k, 0) /\ (Code(s)[c].edit.all \/ Bars(s, j, k, 2))
  /\ Through(s, j, k) /\ Through(s, c, k)
  /\ Never(s, Code(s)[c].file, Code(s)[j].lit)

(* Step j lets a run go on to k only without a mark, which edit c between  *)
(* them brings; step c - 1 makes sure that the anchor of c is there.       *)
Brings(s, j, c, k) ==
  /\ j < c - 1 /\ c < k /\ Code(s)[j].file = Code(s)[c].file
  /\ Code(s)[j].lit \in Code(s)[c].edit.come /\ Code(s)[j].lit # 0
  /\ Bars(s, j, k, 1) /\ Bars(s, j, k, 2)
  /\ Code(s)[c - 1].op = "refuse" /\ 0 \in Code(s)[c - 1].when
  /\ Code(s)[c - 1].file = Code(s)[c].file
  /\ Code(s)[c - 1].lit = Code(s)[c].edit.anchor /\ Code(s)[c - 1].lit # 0
  /\ Through(s, j, k) /\ Through(s, c - 1, k) /\ Through(s, c, k)
  /\ Keeps(s, Code(s)[c].file, Code(s)[j].lit)

(* The text of file f that step b reads is the one step k puts back.       *)
Segment(s, f, b, k) ==
  /\ b < k /\ Code(s)[b] = Load(f) /\ Code(s)[k] = Save(f)
  /\ \A p \in b + 1 .. k - 1 :
       Code(s)[p].file = f => Code(s)[p].op \notin {"load", "create", "save"}
  /\ Through(s, b, k)

(* Edit i is saved by a step behind such a pair j, c.                      *)
Sealed(s, i, b, j, c, k) ==
  LET f == Code(s)[i].file IN
  /\ Segment(s, f, b, k) /\ b < i /\ i < k /\ b < j
  /\ Code(s)[c].file = f
  /\ UsesUp(s, j, c, k) \/ Brings(s, j, c, k)

(* Every text of file f that is put back has been read, or written anew.   *)
OwnText(s, f) ==
  \A k \in Ops(s, {"save"}) :
    Code(s)[k].file = f =>
      \/ \E b \in 1 .. k - 1 : Segment(s, f, b, k)
      \/ /\ k - 1 \in DOMAIN Code(s) /\ Code(s)[k - 1] = Create(f)
         /\ Code(s)[k] = Save(f) /\ Through(s, k - 1, k)

(* Edit i comes after the save of a text that has used up a literal.       *)
Gated(s, i, j, c, k) ==
  /\ c < k /\ k < i /\ UsesUp(s, j, c, i) /\ Through(s, k, i)
  /\ Code(s)[k] = Save(Code(s)[c].file)
  /\ \A p \in j + 1 .. k :
       Code(s)[p].file = Code(s)[c].file => Code(s)[p].op \notin {"load", "create"}

(* Every edit of the script is guarded in one of these three ways.         *)
Disciplined(s) ==
  \A i \in Edits(s) :
    \/ \E j \in 1 .. i : Marked(s, j, i)
    \/ /\ OwnText(s, Code(s)[i].file)
       /\ \E b \in 1 .. i, k \in i .. Len(Code(s)) :
            /\ Code(s)[b].op = "load" /\ Code(s)[k].op = "save"
            /\ \E c \in Edits(s) \cap b .. k, j \in b .. k : Sealed(s, i, b, j, c, k)
    \/ \E k \in Ops(s, {"save"}) \cap 1 .. i, c \in Edits(s) \cap 1 .. i, j \in 1 .. i :
         Gated(s, i, j, c, k)

DisciplinedScripts == {s \in Script : Disciplined(s)}

(* The work a test can leave out.                                          *)
LeftOut(s, p) ==
  Work(s) \cap p + 1 .. (IF Code(s)[p].op = "stop" THEN Len(Code(s)) ELSE Target(s, p) - 1)

(* The mark that test p looks for comes with the work it leaves out, which *)
(* is put into one file at once.                                           *)
Vouched(s, p) ==
  LET t == Code(s)[p]
      out == LeftOut(s, p)
  IN out # {} =>
       /\ t.lit # 0 /\ t.when = {1, 2} /\ s.base[t.file][t.lit] = 0
       /\ \A i \in out : Code(s)[i].op = "put" /\ Code(s)[i].file = t.file
       /\ \E i \in out : t.lit \in Code(s)[i].edit.come
       /\ \A i \in Edits(s) \ out : Code(s)[i].file = t.file => t.lit \notin Code(s)[i].edit.come
       /\ Keeps(s, t.file, t.lit)
       /\ \A k \in Ops(s, {"load", "save"}) :
            Code(s)[k].file = t.file => ~\E i, j \in out : i < k /\ k < j

(* The anchor of edit i has been looked for, and nothing has taken it away *)
(* since: replace does not miss it silently.                               *)
SoughtBy(s, i, j) ==
  LET e == Code(s)[i] IN
  /\ j < i /\ Code(s)[j].file = e.file /\ Code(s)[j].lit = e.edit.anchor
  /\ Bars(s, j, i, 0) /\ Through(s, j, i)
  /\ \A p \in j + 1 .. i - 1 :
       Code(s)[p].file = e.file =>
         Code(s)[p].op # "load" /\ e.edit.anchor \notin Code(s)[p].edit.gone

Sought(s, i) == Code(s)[i].edit.anchor = 0 \/ \E j \in 1 .. i : SoughtBy(s, i, j)

(* Step k puts the work of step i into its file: nothing between them      *)
(* drops the text or leaves step k out.                                    *)
SavedBy(s, i, k) ==
  LET f == Code(s)[i].file IN
  /\ i < k /\ Code(s)[k] = Save(f)
  /\ \A p \in i + 1 .. k - 1 :
       /\ Code(s)[p].op # "stop" /\ (Code(s)[p].op = "jump" => Target(s, p) <= k)
       /\ Code(s)[p].file = f => Code(s)[p].op \notin {"load", "create"}

(* A file that is written as a whole is not edited.                        *)
Alone(s, c) == \A i \in Work(s) : Code(s)[i].file = Code(s)[c].file => i = c

Careful(s) ==
  /\ \A p \in Tests(s) : Vouched(s, p)
  /\ \A i \in Edits(s) : Sought(s, i)
  /\ \A i \in Work(s) : \E k \in DOMAIN Code(s) : SavedBy(s, i, k)
  /\ \A c \in Ops(s, {"create"}) : Alone(s, c)

CarefulScripts == {s \in Script : Careful(s)}

(* A disciplined script never puts an edit into a file that has it already.*)
GuardedIsOnce == script \in DisciplinedScripts => MadeOnce

(* When a careful script reports success, all its edits are in the files.  *)
CarefulIsComplete ==
  script \in CarefulScripts /\ status = "ok" /\ ~ForeignMark => Complete

-----------------------------------------------------------------------------
(* Types.                                                                  *)

(* The step a run is at is one of the script's, with its parts as typed.   *)
LEMMA HereFacts ==
  ASSUME script \in Script, pc \in 1 .. Len(Code(script))
  PROVE  /\ pc \in DOMAIN Code(script) /\ Here \in Steps /\ StepFits(script, pc)
         /\ Len(Code(script)) \in Nat /\ pc \in Nat
<1>1. Code(script) \in Seq(Steps) /\ \A i \in DOMAIN Code(script) : StepFits(script, i)
  BY ScriptAssumption, Zenon
<1>2. Len(Code(script)) \in Nat /\ DOMAIN Code(script) = 1 .. Len(Code(script))
  BY <1>1
<1>3. Code(script)[pc] \in Steps
  BY <1>1, <1>2
<1>4. QED
  BY <1>1, <1>2, <1>3 DEF Here

LEMMA LenFacts ==
  ASSUME script \in Script
  PROVE  Len(Code(script)) \in Nat /\ DOMAIN Code(script) = 1 .. Len(Code(script))
<1>1. Code(script) \in Seq(Steps)
  BY ScriptAssumption, Zenon
<1>2. QED
  BY <1>1

(* What a text of file f looks like.                                       *)
TextOK(s, f, t) ==
  /\ t.n \in [DOMAIN s.base[f] -> Nat]
  /\ t.made \subseteq DOMAIN Code(s) /\ t.again \subseteq t.made

LEMMA EmptyText ==
  ASSUME NEW s, NEW f, NEW t, TextOK(s, f, t)
  PROVE  TextOK(s, f, Empty(t))
BY Zenon DEF TextOK, Empty, Text

LEMMA ReplacedText ==
  ASSUME NEW s \in Script, NEW i \in DOMAIN Code(s), NEW f \in Files(s), NEW t,
         f = Code(s)[i].file, TextOK(s, f, t)
  PROVE  TextOK(s, f, Replaced(t, Code(s)[i].edit, i))
<1> DEFINE e == Code(s)[i].edit
<1>1. e.anchor \in Nat /\ (e.anchor # 0 => e.anchor \in DOMAIN s.base[f])
  <2>1. Code(s) \in Seq(Steps) /\ StepFits(s, i)
    BY ScriptAssumption, Zenon
  <2>2. Code(s)[i] \in Steps
    BY <2>1
  <2>3. QED
    BY <2>1, <2>2, Zenon DEF Steps, StepFits
<1>2. Times(t.n, e) \in Nat
  BY <1>1, Zenon DEF Times, TextOK
<1>3. CASE Times(t.n, e) = 0
  BY <1>3, Zenon DEF Replaced
<1>4. CASE Times(t.n, e) # 0
  <2> DEFINE k == Times(t.n, e)
  <2> DEFINE m == [l \in DOMAIN t.n |->
               CASE l \in e.come -> t.n[l] + k
                 [] l \in e.gone \ e.come -> Less(t.n[l], k)
                 [] OTHER -> t.n[l]]
  <2>1. Replaced(t, e, i) = Text(m, t.made \cup {i}, t.again \cup ({i} \cap t.made))
    BY <1>4, Zenon DEF Replaced
  <2>2. k \in Nat
    BY <1>2, Zenon
  <2>3. m \in [DOMAIN s.base[f] -> Nat]
    <3> HIDE DEF k, e
    <3>1. \A l \in DOMAIN t.n : t.n[l] \in Nat /\ t.n[l] + k \in Nat /\ Less(t.n[l], k) \in Nat
      BY <2>2 DEF Less, TextOK
    <3>2. \A l \in DOMAIN t.n : m[l] \in Nat
      BY <3>1, Zenon
    <3>3. QED
      BY <3>2, Zenon DEF TextOK
  <2> HIDE DEF m
  <2>4. QED
    BY <2>1, <2>3 DEF Text, TextOK
<1>5. QED
  BY <1>3, <1>4, Zenon

LEMMA TypeText ==
  ASSUME TypeOK, NEW f \in Files(script)
  PROVE  TextOK(script, f, disk[f]) /\ TextOK(script, f, mem[f])
BY Zenon DEF TypeOK, TextOK

(* The part of TypeOK a step must re-establish for the texts.              *)
TextsOK(s, d, m) ==
  /\ DOMAIN d = Files(s) /\ DOMAIN m = Files(s)
  /\ \A f \in Files(s) : TextOK(s, f, d[f]) /\ TextOK(s, f, m[f])

LEMMA TypeSplit ==
  TypeOK <=>
    /\ script \in Script /\ drift \in Drifts(script)
    /\ TextsOK(script, disk, mem)
    /\ pc \in 1 .. Len(Code(script)) + 1
    /\ status \in {"run", "ok", "refused", "killed"}
    /\ open # 0 => At("save") /\ Here.file = open
    /\ torn \in BOOLEAN /\ runs \in 1 .. MaxRuns
BY Zenon DEF TypeOK, TextsOK, TextOK

(* A file of the script at every step that reads or writes one.            *)
LEMMA HereFile ==
  ASSUME TypeOK, NEW op \in {"load", "save", "put", "create"}, At(op)
  PROVE  /\ Here.file \in Files(script) /\ Here.file # 0
         /\ pc \in 1 .. Len(Code(script)) /\ pc \in DOMAIN Code(script)
<1>1. script \in Script /\ pc \in 1 .. Len(Code(script))
  BY LenFacts DEF TypeOK, At
<1>2. StepFits(script, pc) /\ pc \in DOMAIN Code(script)
  BY <1>1, HereFacts, Zenon
<1>3. Here.file \in Files(script)
  BY <1>2, Zenon DEF StepFits, At, Here
<1>4. 0 \notin Files(script)
  BY <1>1, ScriptAssumption, Zenon
<1>5. QED
  BY <1>1, <1>2, <1>3, <1>4, Zenon

LEMMA TextsStep ==
  ASSUME TypeOK, Next
  PROVE  TextsOK(script', disk', mem') /\ script' = script /\ drift' = drift
<1>0. TextsOK(script, disk, mem) /\ script \in Script
  BY TypeSplit, Zenon
<1>1. CASE Read
  <2>1. Here.file \in Files(script)
    BY <1>1, HereFile, Zenon DEF Read
  <2>2. mem' = [mem EXCEPT ![Here.file] = disk[Here.file]] /\ disk' = disk /\ script' = script
        /\ drift' = drift
    BY <1>1, Zenon DEF Read
  <2>3. QED
    BY <1>0, <2>1, <2>2, Zenon DEF TextsOK
<1>2. CASE Replace
  <2>1. Here.file \in Files(script) /\ pc \in DOMAIN Code(script)
    BY <1>2, HereFile, Zenon DEF Replace
  <2>2. mem' = [mem EXCEPT ![Here.file] = Replaced(mem[Here.file], Here.edit, pc)]
        /\ disk' = disk /\ script' = script /\ drift' = drift
    BY <1>2, Zenon DEF Replace
  <2>3. TextOK(script, Here.file, Replaced(mem[Here.file], Here.edit, pc))
    <3>1. TextOK(script, Here.file, mem[Here.file])
      BY <2>1, TypeText, Zenon
    <3>2. QED
      BY <1>0, <2>1, <3>1, ReplacedText, Zenon DEF Here
  <2>4. QED
    BY <1>0, <2>1, <2>2, <2>3, Zenon DEF TextsOK
<1>3. CASE Compose
  <2>1. Here.file \in Files(script) /\ pc \in DOMAIN Code(script)
    BY <1>3, HereFile, Zenon DEF Compose
  <2>2. mem' = [mem EXCEPT ![Here.file] = Text(mem[Here.file].n, {pc}, {})]
        /\ disk' = disk /\ script' = script /\ drift' = drift
    BY <1>3, Zenon DEF Compose
  <2>3. TextOK(script, Here.file, Text(mem[Here.file].n, {pc}, {}))
    BY <1>0, <2>1, Zenon DEF TextsOK, TextOK, Text
  <2>4. QED
    BY <1>0, <2>1, <2>2, <2>3, Zenon DEF TextsOK
<1>4. CASE Truncate
  <2>1. Here.file \in Files(script)
    BY <1>4, HereFile, Zenon DEF Truncate
  <2>2. disk' = [disk EXCEPT ![Here.file] = Empty(disk[Here.file])] /\ mem' = mem
        /\ script' = script /\ drift' = drift
    BY <1>4, Zenon DEF Truncate
  <2>3. TextOK(script, Here.file, Empty(disk[Here.file]))
    BY <2>1, TypeText, EmptyText, Zenon
  <2>4. QED
    BY <1>0, <2>1, <2>2, <2>3, Zenon DEF TextsOK
<1>5. CASE Write
  <2>1. Here.file \in Files(script)
    BY <1>5, HereFile, Zenon DEF Write
  <2>2. disk' = [disk EXCEPT ![Here.file] = mem[Here.file]] /\ mem' = mem
        /\ script' = script /\ drift' = drift
    BY <1>5, Zenon DEF Write
  <2>3. QED
    BY <1>0, <2>1, <2>2, Zenon DEF TextsOK
<1>6. CASE Rerun
  BY <1>0, <1>6, Zenon DEF Rerun, TextsOK
<1>7. CASE Check \/ Branch \/ Leave \/ Finish \/ Kill \/ AllDone
  <2>1. disk' = disk /\ mem' = mem /\ script' = script /\ drift' = drift
    BY <1>7, Zenon DEF Check, Branch, Leave, Finish, Kill, AllDone, vars
  <2>2. QED
    BY <1>0, <2>1, Zenon
<1>8. QED
  BY <1>1, <1>2, <1>3, <1>4, <1>5, <1>6, <1>7, Zenon DEF Next, Run

(* A step at a place of the code goes on to the next place, or to the      *)
(* target of a jump.                                                       *)
LEMMA AtPlace ==
  ASSUME TypeOK, NEW op, At(op)
  PROVE  /\ pc \in 1 .. Len(Code(script)) /\ pc \in Nat /\ Len(Code(script)) \in Nat
         /\ pc + 1 \in 1 .. Len(Code(script)) + 1
         /\ Target(script, pc) \in 1 .. Len(Code(script)) + 1
         /\ Target(script, pc) > pc
         /\ Here \in Steps /\ StepFits(script, pc) /\ status = "run"
<1>1. script \in Script /\ pc \in 1 .. Len(Code(script)) /\ Len(Code(script)) \in Nat
  BY LenFacts DEF TypeOK, At
<1>2. Here \in Steps /\ StepFits(script, pc)
  BY <1>1, HereFacts, Zenon
<1>3. Here.over \in Nat
  BY <1>2, Zenon DEF Steps
<1>4. Target(script, pc) = pc + Here.over + 1 /\ Target(script, pc) <= Len(Code(script)) + 1
  BY <1>2, Zenon DEF Target, StepFits, Here
<1>5. QED
  BY <1>1, <1>2, <1>3, <1>4 DEF At

(* Where a step leaves pc, status and open.                                *)
LEMMA ControlStep ==
  ASSUME TypeOK, Next
  PROVE  /\ pc' \in 1 .. Len(Code(script)) + 1
         /\ status' \in {"run", "ok", "refused", "killed"}
         /\ open' # 0 => (At("save") /\ Here.file = open)'
         /\ torn' \in BOOLEAN /\ runs' \in 1 .. MaxRuns
<1>0. /\ pc \in 1 .. Len(Code(script)) + 1
      /\ status \in {"run", "ok", "refused", "killed"}
      /\ open # 0 => At("save") /\ Here.file = open
      /\ torn \in BOOLEAN /\ runs \in 1 .. MaxRuns /\ script' = script
      /\ Len(Code(script)) \in Nat
  BY TypeSplit, TextsStep, LenFacts, Zenon
<1>1. ASSUME NEW op \in {"load", "put", "create", "refuse", "jump", "stop"}, At(op)
      PROVE  open = 0
  BY <1>0, <1>1, Zenon DEF At
<1>2. CASE Read \/ Replace \/ Compose
  <2>1. \E op \in {"load", "put", "create"} : At(op)
    BY <1>2, Zenon DEF Read, Replace, Compose
  <2>2. pc' = pc + 1 /\ status' = status /\ open' = open /\ torn' = torn /\ runs' = runs
    BY <1>2, Zenon DEF Read, Replace, Compose, To
  <2>3. pc + 1 \in 1 .. Len(Code(script)) + 1 /\ open = 0
    BY <2>1, <1>1, AtPlace, Zenon
  <2>4. QED
    BY <1>0, <2>2, <2>3, Zenon
<1>3. CASE Check \/ Branch \/ Leave
  <2>1. \E op \in {"refuse", "jump", "stop"} : At(op)
    BY <1>3, Zenon DEF Check, Branch, Leave
  <2>2. open' = open /\ torn' = torn /\ runs' = runs
    BY <1>3, Zenon DEF Check, Branch, Leave
  <2>3. pc' \in {pc, pc + 1, Target(script, pc)} /\ status' \in {status, "ok", "refused"}
    <3>1. CASE Check
      BY <3>1, Zenon DEF Check, To, End
    <3>2. CASE Leave
      BY <3>2, Zenon DEF Leave, To, End
    <3>3. CASE Branch
      <4>1. pc' \in {pc + 1, pc + Here.over + 1} /\ status' = status
        BY <3>3, Zenon DEF Branch, To
      <4>2. QED
        BY <4>1, Zenon DEF Target, Here
    <3>4. QED
      BY <1>3, <3>1, <3>2, <3>3, Zenon
  <2>4. /\ pc + 1 \in 1 .. Len(Code(script)) + 1 /\ open = 0
        /\ Target(script, pc) \in 1 .. Len(Code(script)) + 1
    BY <2>1, <1>1, AtPlace, Zenon
  <2>5. QED
    BY <1>0, <2>2, <2>3, <2>4, Zenon
<1>4. CASE Truncate
  <2>1. At("save") /\ open' = Here.file /\ pc' = pc /\ status' = status /\ torn' = torn
        /\ runs' = runs
    BY <1>4, Zenon DEF Truncate
  <2>2. (At("save") /\ Here.file = open)'
    BY <1>0, <2>1, Zenon DEF At, Here
  <2>3. QED
    BY <1>0, <2>1, <2>2, Zenon
<1>5. CASE Write
  <2>1. At("save") /\ open' = 0 /\ pc' = pc + 1 /\ status' = status /\ torn' = torn
        /\ runs' = runs
    BY <1>5, Zenon DEF Write, To
  <2>2. pc + 1 \in 1 .. Len(Code(script)) + 1
    BY <2>1, AtPlace, Zenon
  <2>3. QED
    BY <1>0, <2>1, <2>2, Zenon
<1>6. CASE Finish
  <2>1. status = "run" /\ pc > Len(Code(script)) /\ pc' = pc /\ status' = "ok" /\ open' = open
        /\ torn' = torn /\ runs' = runs
    BY <1>6, Zenon DEF Finish, End
  <2>2. open = 0
    BY <1>0, <2>1 DEF At
  <2>3. QED
    BY <1>0, <2>1, <2>2, Zenon
<1>7. CASE Kill
  <2>1. pc' = pc /\ status' = "killed" /\ open' = 0 /\ torn' = (torn \/ open # 0) /\ runs' = runs
    BY <1>7, Zenon DEF Kill, End
  <2>2. torn' \in BOOLEAN
    BY <2>1, Zenon
  <2>3. QED
    BY <1>0, <2>1, <2>2, Zenon
<1>8. CASE Rerun
  <2>1. /\ status # "run" /\ runs < MaxRuns /\ pc' = 1 /\ status' = "run" /\ runs' = runs + 1
        /\ open' = open /\ torn' = torn
    BY <1>8, Zenon DEF Rerun
  <2>2. open = 0
    BY <1>0, <2>1, Zenon DEF At
  <2>3. QED
    BY <1>0, <2>1, <2>2, RunsAssumption
<1>9. CASE AllDone
  <2>1. pc' = pc /\ status' = status /\ open' = open /\ torn' = torn /\ runs' = runs
        /\ status # "run"
    BY <1>9, Zenon DEF AllDone, vars
  <2>2. open = 0
    BY <1>0, <2>1, Zenon DEF At
  <2>3. QED
    BY <1>0, <2>1, <2>2, Zenon
<1>10. QED
  BY <1>2, <1>3, <1>4, <1>5, <1>6, <1>7, <1>8, <1>9, Zenon DEF Next, Run

LEMMA TypeStep ==
  ASSUME TypeOK, [Next]_vars
  PROVE  TypeOK'
<1>1. CASE Next
  <2>1. script \in Script /\ drift \in Drifts(script)
    BY TypeSplit, Zenon
  <2>2. script' \in Script /\ drift' \in Drifts(script') /\ script' = script
        /\ TextsOK(script', disk', mem')
    BY <2>1, <1>1, TextsStep, Zenon
  <2>3. pc' \in 1 .. Len(Code(script')) + 1
    BY <1>1, <2>2, ControlStep, Zenon
  <2>4. QED
    BY <1>1, <2>2, <2>3, ControlStep, Zenon DEF TypeOK, TextsOK, TextOK
<1>2. CASE UNCHANGED vars
  BY <1>2, Zenon DEF vars, TypeOK, At, Here
<1>3. QED
  BY <1>1, <1>2, Zenon

LEMMA TypeInit == Init => TypeOK
<1>1. SUFFICES ASSUME Init PROVE TypeOK
  BY Zenon
<1>2. script \in Script /\ drift \in Drifts(script) /\ disk = Found(script, drift)
      /\ mem = disk /\ pc = 1 /\ open = 0 /\ status = "run" /\ torn = FALSE /\ runs = 1
  BY <1>1, Zenon DEF Init
<1>3. drift.n \in Nat
  BY <1>2 DEF Drifts, NoDrift
<1>4. \A f \in Files(script) : TextOK(script, f, disk[f])
  <2>1. TAKE f \in Files(script)
  <2>2. script.base[f] \in [DOMAIN script.base[f] -> Nat]
    BY <1>2, <2>1, ScriptAssumption, Zenon
  <2> DEFINE m == [l \in DOMAIN script.base[f] |->
             IF drift.file = f /\ drift.lit = l THEN drift.n ELSE script.base[f][l]]
  <2>3. disk[f] = Text(m, {}, {})
    BY <1>2, <2>1, Zenon DEF Found
  <2>4. m \in [DOMAIN script.base[f] -> Nat]
    BY <1>3, <2>2, Zenon
  <2> HIDE DEF m
  <2>5. QED
    BY <2>3, <2>4 DEF TextOK, Text
<1>5. DOMAIN disk = Files(script)
  BY <1>2, Zenon DEF Found
<1>6. Len(Code(script)) \in Nat
  BY <1>2, LenFacts, Zenon
<1>7. TextsOK(script, disk, mem)
  BY <1>2, <1>4, <1>5, Zenon DEF TextsOK
<1>8. pc \in 1 .. Len(Code(script)) + 1 /\ runs \in 1 .. MaxRuns
  BY <1>2, <1>6, RunsAssumption
<1>9. status \in {"run", "ok", "refused", "killed"} /\ torn \in BOOLEAN
  BY <1>2, Zenon
<1>10. QED
  BY <1>2, <1>7, <1>8, <1>9, TypeSplit, Zenon

(* Every state is well-typed, and a file is open only inside write_text.   *)
THEOREM TypeCorrect == Spec => []TypeOK
<1>1. QED
  BY TypeInit, TypeStep, PTL DEF Spec

-----------------------------------------------------------------------------
(* What a step does to file f: its text on disk and in memory.             *)

Restarts(f) ==
  /\ status # "run" /\ status' = "run" /\ pc' = 1
  /\ mem'[f] = disk[f] /\ disk'[f] = disk[f]

Halts(f) == status' # "run" /\ mem'[f] = mem[f] /\ disk'[f] = disk[f]

Goes(ops) ==
  /\ status = "run" /\ status' = "run"
  /\ pc \in 1 .. Len(Code(script)) /\ Here.op \in ops

Passes(f) ==
  /\ Goes({"refuse", "stop", "jump"}) /\ mem'[f] = mem[f] /\ disk'[f] = disk[f]
  /\ \/ pc' = pc + 1 /\ Seen \notin Here.when
     \/ Here.op = "jump" /\ pc' = Target(script, pc) /\ Seen \in Here.when

Loads(f) ==
  Goes({"load"}) /\ Here.file = f /\ pc' = pc + 1 /\ mem'[f] = disk[f] /\ disk'[f] = disk[f]

Puts(f) ==
  /\ Goes({"put"}) /\ Here.file = f /\ pc' = pc + 1 /\ disk'[f] = disk[f]
  /\ mem'[f] = Replaced(mem[f], Here.edit, pc)

Composes(f) ==
  /\ Goes({"create"}) /\ Here.file = f /\ pc' = pc + 1 /\ disk'[f] = disk[f]
  /\ mem'[f] = Text(mem[f].n, {pc}, {})

Truncates(f) ==
  /\ Goes({"save"}) /\ Here.file = f /\ pc' = pc
  /\ disk'[f] = Empty(disk[f]) /\ mem'[f] = mem[f]

Writes(f) ==
  Goes({"save"}) /\ Here.file = f /\ pc' = pc + 1 /\ disk'[f] = mem[f] /\ mem'[f] = mem[f]

Elsewhere(f) ==
  /\ Goes({"load", "put", "create", "save"}) /\ Here.file # f
  /\ pc' = pc + 1 \/ (pc' = pc /\ Here.op = "save")
  /\ mem'[f] = mem[f] /\ disk'[f] = disk[f]

LEMMA Effects ==
  ASSUME TypeOK, Next, NEW f \in Files(script)
  PROVE  \/ Restarts(f) \/ Halts(f) \/ Passes(f) \/ Loads(f) \/ Puts(f) \/ Composes(f)
         \/ Truncates(f) \/ Writes(f) \/ Elsewhere(f)
<1>0. DOMAIN disk = Files(script) /\ DOMAIN mem = Files(script)
  BY Zenon DEF TypeOK
<1>1. CASE Read
  <2>1. At("load") /\ mem' = [mem EXCEPT ![Here.file] = disk[Here.file]] /\ disk' = disk
        /\ pc' = pc + 1 /\ status' = status
    BY <1>1, Zenon DEF Read, To
  <2>2. Goes({"load"}) /\ Goes({"load", "put", "create", "save"})
    BY <2>1, AtPlace, Zenon DEF Goes, At
  <2>3. QED
    BY <1>0, <2>1, <2>2, Zenon DEF Loads, Elsewhere
<1>2. CASE Replace
  <2>1. /\ At("put") /\ mem' = [mem EXCEPT ![Here.file] = Replaced(mem[Here.file], Here.edit, pc)]
        /\ disk' = disk /\ pc' = pc + 1 /\ status' = status
    BY <1>2, Zenon DEF Replace, To
  <2>2. Goes({"put"}) /\ Goes({"load", "put", "create", "save"})
    BY <2>1, AtPlace, Zenon DEF Goes, At
  <2>3. QED
    BY <1>0, <2>1, <2>2, Zenon DEF Puts, Elsewhere
<1>3. CASE Compose
  <2>1. /\ At("create") /\ mem' = [mem EXCEPT ![Here.file] = Text(mem[Here.file].n, {pc}, {})]
        /\ disk' = disk /\ pc' = pc + 1 /\ status' = status
    BY <1>3, Zenon DEF Compose, To
  <2>2. Goes({"create"}) /\ Goes({"load", "put", "create", "save"})
    BY <2>1, AtPlace, Zenon DEF Goes, At
  <2>3. QED
    BY <1>0, <2>1, <2>2, Zenon DEF Composes, Elsewhere
<1>4. CASE Truncate
  <2>1. /\ At("save") /\ disk' = [disk EXCEPT ![Here.file] = Empty(disk[Here.file])]
        /\ mem' = mem /\ pc' = pc /\ status' = status
    BY <1>4, Zenon DEF Truncate
  <2>2. Goes({"save"}) /\ Goes({"load", "put", "create", "save"}) /\ Here.op = "save"
    BY <2>1, AtPlace, Zenon DEF Goes, At
  <2>3. QED
    BY <1>0, <2>1, <2>2, Zenon DEF Truncates, Elsewhere
<1>5. CASE Write
  <2>1. /\ At("save") /\ disk' = [disk EXCEPT ![Here.file] = mem[Here.file]]
        /\ mem' = mem /\ pc' = pc + 1 /\ status' = status
    BY <1>5, Zenon DEF Write, To
  <2>2. Goes({"save"}) /\ Goes({"load", "put", "create", "save"})
    BY <2>1, AtPlace, Zenon DEF Goes, At
  <2>3. QED
    BY <1>0, <2>1, <2>2, Zenon DEF Writes, Elsewhere
<1>6. CASE Rerun
  BY <1>6, Zenon DEF Rerun, Restarts
<1>7. CASE Check \/ Leave
  <2>1. disk' = disk /\ mem' = mem /\ \E op \in {"refuse", "stop"} : At(op)
    BY <1>7, Zenon DEF Check, Leave
  <2>2. \/ status' # "run"
        \/ pc' = pc + 1 /\ status' = status /\ Seen \notin Here.when
    BY <1>7, Zenon DEF Check, Leave, To, End
  <2>3. status = "run" /\ pc \in 1 .. Len(Code(script)) /\ Here.op \in {"refuse", "stop", "jump"}
    BY <2>1, AtPlace, Zenon DEF At
  <2>4. QED
    BY <2>1, <2>2, <2>3, Zenon DEF Halts, Passes, Goes
<1>8. CASE Branch
  <2>1. disk' = disk /\ mem' = mem /\ At("jump") /\ status' = status
    BY <1>8, Zenon DEF Branch, To
  <2>2. \/ pc' = pc + 1 /\ Seen \notin Here.when
        \/ pc' = pc + Here.over + 1 /\ Seen \in Here.when
    BY <1>8, Zenon DEF Branch, To
  <2>3. status = "run" /\ pc \in 1 .. Len(Code(script)) /\ Here.op = "jump"
    BY <2>1, AtPlace, Zenon DEF At
  <2>4. QED
    BY <2>1, <2>2, <2>3, Zenon DEF Passes, Goes, Target, Here
<1>9. CASE Finish \/ Kill \/ AllDone
  <2>1. status' # "run" /\ disk' = disk /\ mem' = mem
    BY <1>9, Zenon DEF Finish, Kill, AllDone, End, vars
  <2>2. QED
    BY <2>1, Zenon DEF Halts
<1>10. QED
  BY <1>1, <1>2, <1>3, <1>4, <1>5, <1>6, <1>7, <1>8, <1>9, Zenon DEF Next, Run

(* What a replacement does to a literal.                                   *)
LEMMA PutText ==
  ASSUME TypeOK, NEW f \in Files(script), Puts(f),
         NEW l \in DOMAIN script.base[f]
  PROVE  /\ mem[f].n[l] \in Nat /\ mem'[f].n[l] \in Nat
         /\ l \notin Here.edit.gone => mem'[f].n[l] >= mem[f].n[l]
         /\ l \notin Here.edit.come => mem'[f].n[l] <= mem[f].n[l]
         /\ \/ mem'[f] = mem[f] /\ Here.edit.anchor # 0 /\ mem[f].n[Here.edit.anchor] = 0
            \/ /\ mem'[f].made = mem[f].made \cup {pc}
               /\ mem'[f].again = mem[f].again \cup ({pc} \cap mem[f].made)
               /\ l \in Here.edit.come => mem'[f].n[l] > 0
         /\ l = Here.edit.anchor /\ l # 0 /\ l \in Here.edit.gone /\ l \notin Here.edit.come
              /\ (Here.edit.all \/ mem[f].n[l] <= 1) => mem'[f].n[l] = 0
<1> DEFINE e == Here.edit
           k == Times(mem[f].n, e)
<1>1. At("put") /\ Here.file = f /\ mem'[f] = Replaced(mem[f], e, pc)
  BY DEF Puts, Goes, At
<1>2. e.anchor \in Nat /\ (e.anchor # 0 => e.anchor \in DOMAIN script.base[f])
  BY <1>1, AtPlace, Zenon DEF Steps, StepFits, Here
<1>3. mem[f].n \in [DOMAIN script.base[f] -> Nat]
  BY TypeText, Zenon DEF TextOK
<1>4. k \in Nat /\ (k = 0 => e.anchor # 0 /\ mem[f].n[e.anchor] = 0)
      /\ (e.anchor # 0 /\ (e.all \/ mem[f].n[e.anchor] <= 1) => k = mem[f].n[e.anchor])
  <2> HIDE DEF e
  <2>1. QED
    BY <1>2, <1>3 DEF Times
<1> HIDE DEF k, e
<1>5. CASE k = 0
  <2>1. mem'[f] = mem[f]
    BY <1>1, <1>5, Zenon DEF Replaced, k
  <2>2. QED
    BY <1>3, <1>4, <1>5, <2>1 DEF e
<1>6. CASE k # 0
  <2> DEFINE m == [x \in DOMAIN mem[f].n |->
               CASE x \in e.come -> mem[f].n[x] + k
                 [] x \in e.gone \ e.come -> Less(mem[f].n[x], k)
                 [] OTHER -> mem[f].n[x]]
  <2>1. mem'[f] = Text(m, mem[f].made \cup {pc}, mem[f].again \cup ({pc} \cap mem[f].made))
    BY <1>1, <1>6, Zenon DEF Replaced, k
  <2>2. mem[f].n[l] \in Nat
    BY <1>3, Zenon
  <2>3. m[l] = CASE l \in e.come -> mem[f].n[l] + k
                 [] l \in e.gone \ e.come -> Less(mem[f].n[l], k)
                 [] OTHER -> mem[f].n[l]
    BY <1>3, Zenon
  <2> HIDE DEF m
  <2>4. /\ mem'[f].n = m /\ mem'[f].made = mem[f].made \cup {pc}
        /\ mem'[f].again = mem[f].again \cup ({pc} \cap mem[f].made)
    BY <2>1 DEF Text
  <2>5. /\ m[l] \in Nat /\ (l \notin e.gone => m[l] >= mem[f].n[l])
        /\ (l \notin e.come => m[l] <= mem[f].n[l]) /\ (l \in e.come => m[l] > 0)
        /\ (l \notin e.come /\ l \in e.gone => m[l] = Less(mem[f].n[l], k))
    BY <1>4, <1>6, <2>2, <2>3 DEF Less
  <2>6. l = e.anchor /\ l # 0 /\ l \in e.gone /\ l \notin e.come
              /\ (e.all \/ mem[f].n[l] <= 1) => m[l] = 0
    BY <1>4, <2>2, <2>5 DEF Less
  <2>7. QED
    BY <2>2, <2>4, <2>5, <2>6, Zenon DEF e
<1>7. QED
  BY <1>5, <1>6, Zenon

-----------------------------------------------------------------------------
(* Coming to the steps j + 1 .. i.                                         *)

Inside(j, i) == status = "run" /\ j < pc /\ pc <= i

LEMMA Enter ==
  ASSUME TypeOK, NEW f \in Files(script), NEW j \in Nat, NEW i \in Nat,
         j \in DOMAIN Code(script), Through(script, j, i), Inside(j, i)',
         \/ Restarts(f) \/ Halts(f) \/ Passes(f) \/ Loads(f) \/ Puts(f) \/ Composes(f)
         \/ Truncates(f) \/ Writes(f) \/ Elsewhere(f)
  PROVE  /\ status = "run" /\ j <= pc /\ pc <= i /\ pc \in Nat
         /\ pc <= pc' /\ pc' \in Nat
<1>1. j >= 1 /\ pc \in Nat /\ status' = "run" /\ j < pc' /\ pc' <= i
  BY LenFacts DEF TypeOK, Inside
<1>2. status = "run" /\ pc \in 1 .. Len(Code(script))
  BY <1>1 DEF Restarts, Halts, Passes, Loads, Puts, Composes, Truncates, Writes, Elsewhere, Goes
<1>3. Target(script, pc) \in Nat /\ Target(script, pc) > pc
  BY <1>2, AtPlace DEF At
<1>4. \/ pc' = pc + 1
      \/ pc' = pc /\ Here.op = "save"
      \/ Here.op = "jump" /\ pc' = Target(script, pc) /\ Seen \in Here.when
  <2>1. CASE Passes(f)
    BY <2>1, Zenon DEF Passes
  <2>2. CASE Truncates(f)
    BY <2>2, Zenon DEF Truncates, Goes
  <2>3. CASE Elsewhere(f)
    BY <2>3, Zenon DEF Elsewhere
  <2>4. CASE Loads(f) \/ Puts(f) \/ Composes(f) \/ Writes(f)
    BY <2>4, Zenon DEF Loads, Puts, Composes, Writes
  <2>5. QED
    BY <1>1, <1>2, <2>1, <2>2, <2>3, <2>4, Zenon DEF Restarts, Halts
<1>5. j <= pc
  <2>1. SUFFICES ASSUME pc < j PROVE FALSE
    BY <1>1
  <2>2. pc \in 1 .. j - 1
    BY <1>1, <1>2, <2>1
  <2>3. Here.op = "jump" => Target(script, pc) \notin j + 1 .. i
    BY <2>2, Zenon DEF Through, Here
  <2>4. QED
    BY <1>1, <1>3, <1>4, <2>1, <2>3
<1>6. QED
  BY <1>1, <1>2, <1>3, <1>4, <1>5

(* A test that bars a count is passed only with another one.               *)
LEMMA Barred ==
  ASSUME TypeOK, NEW f \in Files(script), NEW j \in Nat, NEW i \in Nat,
         j \in DOMAIN Code(script), Through(script, j, i), Inside(j, i)', pc = j,
         NEW n, Bars(script, j, i, n),
         \/ Restarts(f) \/ Halts(f) \/ Passes(f) \/ Loads(f) \/ Puts(f) \/ Composes(f)
         \/ Truncates(f) \/ Writes(f) \/ Elsewhere(f)
  PROVE  Passes(f) /\ Seen # n
<1>1. Here.op \in {"refuse", "stop", "jump"} /\ n \in Here.when
      /\ (Here.op = "jump" => Target(script, pc) > i)
  BY Zenon DEF Bars, Here
<1>2. status = "run" /\ status' = "run"
  BY Enter, Zenon DEF Inside
<1>3. Passes(f)
  BY <1>1, <1>2, Zenon DEF Restarts, Halts, Loads, Puts, Composes, Truncates, Writes, Elsewhere, Goes
<1>4. pc' <= i /\ pc' \in Nat /\ Target(script, pc) \in Nat
  BY <1>1, <1>2, <1>3, Enter, AtPlace DEF Inside, Passes, Goes, At
<1>5. Seen \notin Here.when
  BY <1>1, <1>3, <1>4 DEF Passes
<1>6. QED
  BY <1>1, <1>3, <1>5, Zenon

(* What a test sees.                                                       *)
LEMMA SeenCount ==
  ASSUME TypeOK, NEW f \in Files(script), Here.file = f, Here.lit # 0, status = "run",
         pc \in 1 .. Len(Code(script))
  PROVE  /\ Here.lit \in DOMAIN script.base[f] /\ mem[f].n[Here.lit] \in Nat
         /\ mem[f].n[Here.lit] = 0 => Seen = 0
         /\ mem[f].n[Here.lit] = 1 => Seen = 1
         /\ mem[f].n[Here.lit] >= 2 => Seen = 2
<1>1. Here.lit \in DOMAIN script.base[f]
  BY AtPlace DEF At, StepFits, Here
<1>2. mem[f].n[Here.lit] \in Nat
  BY <1>1, TypeText, Zenon DEF TextOK
<1>3. QED
  BY <1>1, <1>2 DEF Seen, Cut

-----------------------------------------------------------------------------
(* Edits with a mark.                                                      *)

(* What a step names.                                                      *)
FileOf(s, i) == Code(s)[i].file

LitOf(s, i) == Code(s)[i].lit

AllOf(s, i) == Code(s)[i].edit.all

AnchorOf(s, i) == Code(s)[i].edit.anchor

MarkedInv(f, m, j, i) ==
  /\ i \in disk[f].made => disk[f].n[m] > 0
  /\ i \in mem[f].made => mem[f].n[m] > 0
  /\ disk[f].n[m] > 0 => mem[f].n[m] > 0
  /\ i \notin disk[f].again /\ i \notin mem[f].again
  /\ Inside(j, i) => i \notin mem[f].made /\ i \notin disk[f].made

LEMMA MarkedStep ==
  ASSUME TypeOK, Next, NEW i \in Edits(script), NEW j \in 1 .. i, Marked(script, j, i),
         NEW f, f = FileOf(script, i), NEW m, m = LitOf(script, j),
         MarkedInv(f, m, j, i)
  PROVE  MarkedInv(f, m, j, i)'
<1>1. i \in 1 .. Len(Code(script)) /\ i \in Nat /\ j \in Nat /\ j \in DOMAIN Code(script)
      /\ script \in Script
  BY LenFacts DEF Edits, Ops, TypeOK
<1>2. f \in Files(script) /\ m \in DOMAIN script.base[f]
  <2>1. StepFits(script, i) /\ StepFits(script, j)
    BY <1>1, ScriptAssumption, Zenon DEF Edits, Ops
  <2>2. QED
    BY <2>1, Zenon DEF StepFits, Marked, Edits, Ops, FileOf, LitOf
<1>3. \/ Restarts(f) \/ Halts(f) \/ Passes(f) \/ Loads(f) \/ Puts(f) \/ Composes(f)
      \/ Truncates(f) \/ Writes(f) \/ Elsewhere(f)
  BY <1>2, Effects, Zenon
<1>4. disk[f].n[m] \in Nat /\ mem[f].n[m] \in Nat
  BY <1>2, TypeText, Zenon DEF TextOK
<1>5. ASSUME Inside(j, i)', ~Inside(j, i)
      PROVE  Passes(f) /\ mem[f].n[m] = 0
  <2>1. pc = j /\ status = "run" /\ pc \in 1 .. Len(Code(script))
    BY <1>1, <1>2, <1>3, <1>5, Enter DEF Inside, Marked, FileOf, LitOf
  <2>2. Passes(f) /\ Seen # 1 /\ Seen # 2
    BY <1>1, <1>2, <1>3, <1>5, <2>1, Barred, Zenon DEF Marked, FileOf, LitOf
  <2>3. Here.file = f /\ Here.lit = m /\ m # 0
    BY <2>1, Zenon DEF Here, Marked, FileOf, LitOf
  <2>4. QED
    BY <1>2, <1>4, <2>1, <2>2, <2>3, SeenCount, SMTT(30), SMTT(60)
<1>6. CASE Restarts(f)
  <2>1. ~Inside(j, i)'
    BY <1>1, <1>6 DEF Restarts, Inside
  <2>2. QED
    BY <1>6, <2>1, Zenon DEF Restarts, MarkedInv
<1>7. CASE Halts(f)
  BY <1>7, Zenon DEF Halts, MarkedInv, Inside
<1>8. CASE Passes(f)
  <2>1. mem'[f] = mem[f] /\ disk'[f] = disk[f]
    BY <1>8, Zenon DEF Passes
  <2>2. Inside(j, i)' => i \notin mem[f].made /\ i \notin disk[f].made
    BY <1>4, <1>5 DEF MarkedInv
  <2>3. QED
    BY <2>1, <2>2, Zenon DEF MarkedInv
<1>9. CASE Loads(f) \/ Writes(f) \/ Elsewhere(f)
  <2>1. Inside(j, i)' => Inside(j, i)
    BY <1>5, <1>9, Zenon DEF Passes, Loads, Writes, Elsewhere, Goes
  <2>2. QED
    BY <1>9, <2>1, Zenon DEF Loads, Writes, Elsewhere, MarkedInv
<1>10. CASE Truncates(f)
  <2>1. disk'[f] = Empty(disk[f]) /\ mem'[f] = mem[f]
    BY <1>10, Zenon DEF Truncates
  <2>2. disk'[f].made = {} /\ disk'[f].again = {} /\ disk'[f].n[m] = 0
    BY <1>2, <2>1, TypeText DEF Empty, Text, TextOK
  <2>3. Inside(j, i)' => Inside(j, i)
    BY <1>5, <1>10, Zenon DEF Passes, Truncates, Goes
  <2>4. QED
    BY <2>1, <2>2, <2>3 DEF MarkedInv
<1>11. CASE Composes(f)
  <2>1. disk'[f] = disk[f] /\ mem'[f].n = mem[f].n /\ mem'[f].made = {pc} /\ mem'[f].again = {}
        /\ Here.op = "create"
    BY <1>11 DEF Composes, Text, Goes
  <2>2. pc # i
    BY <2>1, Zenon DEF Edits, Ops, Here, FileOf
  <2>3. Inside(j, i)' => Inside(j, i)
    BY <1>5, <1>11, Zenon DEF Passes, Composes, Goes
  <2>4. QED
    BY <2>1, <2>2, <2>3, Zenon DEF MarkedInv
<1>12. CASE Puts(f)
  <2>1. disk'[f] = disk[f] /\ Here.op = "put" /\ Here.file = f /\ pc \in 1 .. Len(Code(script))
        /\ status = "run" /\ pc' = pc + 1
    BY <1>12, Zenon DEF Puts, Goes
  <2>2. pc \in Edits(script)
    BY <1>1, <2>1, LenFacts, Zenon DEF Edits, Ops, Here, FileOf
  <2>3. m \notin Here.edit.gone
    BY <2>1, <2>2, Zenon DEF Marked, Keeps, Here, FileOf, LitOf
  <2>4. mem'[f].n[m] \in Nat /\ mem'[f].n[m] >= mem[f].n[m]
    BY <1>2, <1>12, <2>3, PutText, Zenon
  <2>5. Inside(j, i)' => Inside(j, i)
    BY <1>5, <2>1, Zenon DEF Passes, Goes
  <2>6. CASE pc = i
    <3>1. Inside(j, i) /\ m \in Here.edit.come
      BY <1>1, <2>1, <2>6 DEF Inside, Marked, Here, FileOf, LitOf
    <3>2. ~Inside(j, i)'
      BY <1>1, <2>1, <2>6 DEF Inside
    <3>3. \/ mem'[f] = mem[f]
          \/ /\ mem'[f].made = mem[f].made \cup {pc}
             /\ mem'[f].again = mem[f].again \cup ({pc} \cap mem[f].made)
             /\ mem'[f].n[m] > 0
      BY <1>2, <1>12, <3>1, PutText, Zenon
    <3>4. i \notin mem'[f].again
      BY <2>6, <3>1, <3>3, Zenon DEF MarkedInv
    <3>5. i \in mem'[f].made => mem'[f].n[m] > 0
      BY <3>1, <3>3, Zenon DEF MarkedInv
    <3>6. disk'[f].n[m] > 0 => mem'[f].n[m] > 0
      BY <1>4, <2>1, <2>4 DEF MarkedInv
    <3>7. QED
      BY <2>1, <3>2, <3>4, <3>5, <3>6, Zenon DEF MarkedInv
  <2>7. CASE pc # i
    <3>1. \/ mem'[f] = mem[f]
          \/ /\ mem'[f].made = mem[f].made \cup {pc}
             /\ mem'[f].again = mem[f].again \cup ({pc} \cap mem[f].made)
      BY <1>2, <1>12, PutText, Zenon
    <3>2. (i \in mem'[f].made <=> i \in mem[f].made) /\ (i \in mem'[f].again <=> i \in mem[f].again)
      BY <2>7, <3>1, Zenon
    <3>3. /\ disk'[f].n[m] > 0 => mem'[f].n[m] > 0
          /\ i \in mem[f].made => mem'[f].n[m] > 0
      BY <1>4, <2>1, <2>4 DEF MarkedInv
    <3>4. QED
      BY <2>1, <2>5, <3>2, <3>3, Zenon DEF MarkedInv
  <2>8. QED
    BY <2>6, <2>7, Zenon
<1>13. QED
  BY <1>3, <1>6, <1>7, <1>8, <1>9, <1>10, <1>11, <1>12, Zenon

-----------------------------------------------------------------------------
(* The edits a step adds to a text.                                        *)
Effect(f) ==
  \/ Restarts(f) \/ Halts(f) \/ Passes(f) \/ Loads(f) \/ Puts(f) \/ Composes(f)
  \/ Truncates(f) \/ Writes(f) \/ Elsewhere(f)

LEMMA MadeStep ==
  ASSUME TypeOK, NEW g \in Files(script), Effect(g), NEW i \in Edits(script)
  PROVE  /\ (i \in disk'[g].made \/ i \in mem'[g].made) =>
              i \in disk[g].made \/ i \in mem[g].made \/ (status = "run" /\ pc = i)
         /\ (i \in disk'[g].again \/ i \in mem'[g].again) =>
              \/ i \in disk[g].again \/ i \in mem[g].again
              \/ status = "run" /\ pc = i /\ i \in mem[g].made
<1>1. CASE Restarts(g) \/ Halts(g) \/ Passes(g) \/ Loads(g) \/ Writes(g) \/ Elsewhere(g)
  BY <1>1, Zenon DEF Restarts, Halts, Passes, Loads, Writes, Elsewhere
<1>2. CASE Truncates(g)
  <2>1. disk'[g] = Empty(disk[g]) /\ mem'[g] = mem[g]
    BY <1>2, Zenon DEF Truncates
  <2>2. disk'[g].made = {} /\ disk'[g].again = {}
    BY <2>1 DEF Empty, Text
  <2>3. QED
    BY <2>1, <2>2, Zenon
<1>3. CASE Composes(g)
  <2>1. disk'[g] = disk[g] /\ mem'[g].made = {pc} /\ mem'[g].again = {} /\ Here.op = "create"
    BY <1>3 DEF Composes, Text, Goes
  <2>2. pc # i
    BY <2>1, Zenon DEF Edits, Ops, Here
  <2>3. QED
    BY <2>1, <2>2, Zenon
<1>4. CASE Puts(g)
  <2>1. disk'[g] = disk[g] /\ status = "run" /\ mem'[g] = Replaced(mem[g], Here.edit, pc)
    BY <1>4, Zenon DEF Puts, Goes
  <2>2. \/ mem'[g] = mem[g]
        \/ /\ mem'[g].made = mem[g].made \cup {pc}
           /\ mem'[g].again = mem[g].again \cup ({pc} \cap mem[g].made)
    BY <2>1 DEF Replaced, Text
  <2>3. QED
    BY <2>1, <2>2, Zenon
<1>5. QED
  BY <1>1, <1>2, <1>3, <1>4, Zenon DEF Effect

LEMMA MemStep ==
  ASSUME TypeOK, NEW g \in Files(script), Effect(g), NEW i \in Edits(script),
         ~Loads(g), ~Restarts(g)
  PROVE  /\ i \in mem'[g].made => i \in mem[g].made \/ (status = "run" /\ pc = i)
         /\ i \in mem'[g].again =>
              i \in mem[g].again \/ (status = "run" /\ pc = i /\ i \in mem[g].made)
<1>1. CASE Halts(g) \/ Passes(g) \/ Writes(g) \/ Truncates(g) \/ Elsewhere(g)
  BY <1>1, Zenon DEF Halts, Passes, Writes, Truncates, Elsewhere
<1>2. CASE Composes(g)
  <2>1. mem'[g].made = {pc} /\ mem'[g].again = {} /\ Here.op = "create"
    BY <1>2 DEF Composes, Text, Goes
  <2>2. pc # i
    BY <2>1, Zenon DEF Edits, Ops, Here
  <2>3. QED
    BY <2>1, <2>2, Zenon
<1>3. CASE Puts(g)
  <2>1. status = "run" /\ mem'[g] = Replaced(mem[g], Here.edit, pc)
    BY <1>3, Zenon DEF Puts, Goes
  <2>2. \/ mem'[g] = mem[g]
        \/ /\ mem'[g].made = mem[g].made \cup {pc}
           /\ mem'[g].again = mem[g].again \cup ({pc} \cap mem[g].made)
    BY <2>1 DEF Replaced, Text
  <2>3. QED
    BY <2>1, <2>2, Zenon
<1>4. QED
  BY <1>1, <1>2, <1>3, Zenon DEF Effect

(* The run came to j + 1 .. i from j, or was there.                        *)
LEMMA Came ==
  ASSUME TypeOK, NEW f \in Files(script), Effect(f), NEW j \in Nat, NEW i \in Nat,
         j \in DOMAIN Code(script), Through(script, j, i), Inside(j, i)'
  PROVE  (pc = j \/ Inside(j, i)) /\ status = "run" /\ pc \in Nat /\ pc' \in Nat
BY Enter DEF Inside, Effect

(* An edit does not leave the run where it is.                             *)
LEMMA NotHere ==
  ASSUME TypeOK, NEW f \in Files(script), Effect(f), NEW j \in Nat, NEW i \in Edits(script),
         Inside(j, i)', i \in Nat
  PROVE  pc # i \/ status # "run"
<1>1. SUFFICES ASSUME pc = i, status = "run" PROVE FALSE
  BY Zenon
<1>2. Here.op = "put"
  BY <1>1, Zenon DEF Edits, Ops, Here
<1>3. status' = "run" /\ pc' <= i /\ pc' = i + 1
  <2>1. CASE Puts(f)
    BY <1>1, <2>1, Zenon DEF Puts, Inside
  <2>2. CASE Elsewhere(f)
    BY <1>1, <1>2, <2>2, Zenon DEF Elsewhere, Inside
  <2>3. QED
    BY <1>1, <1>2, <2>1, <2>2, Zenon DEF Effect, Restarts, Halts, Passes, Loads, Composes, Truncates,
        Writes, Goes, Inside
<1>4. QED
  BY <1>3

(* The number of occurrences of a literal no edit brings.                  *)
LEMMA Falls ==
  ASSUME TypeOK, NEW f \in Files(script), Effect(f),
         NEW a \in DOMAIN script.base[f], Never(script, f, a)
  PROVE  /\ disk[f].n[a] \in Nat /\ mem[f].n[a] \in Nat
         /\ disk[f].n[a] = 0 /\ mem[f].n[a] = 0 => disk'[f].n[a] = 0 /\ mem'[f].n[a] = 0
         /\ ~Loads(f) /\ ~Restarts(f) => mem'[f].n[a] \in Nat /\ mem'[f].n[a] <= mem[f].n[a]
<1>1. disk[f].n[a] \in Nat /\ mem[f].n[a] \in Nat
  BY TypeText, Zenon DEF TextOK
<1>2. CASE Restarts(f) \/ Loads(f)
  BY <1>1, <1>2, Zenon DEF Restarts, Loads
<1>3. CASE Halts(f) \/ Passes(f) \/ Writes(f) \/ Elsewhere(f)
  <2>1. mem'[f] = mem[f] /\ (disk'[f] = disk[f] \/ disk'[f] = mem[f])
    BY <1>3, Zenon DEF Halts, Passes, Writes, Elsewhere
  <2>2. QED
    BY <1>1, <2>1
<1>4. CASE Truncates(f)
  <2>1. disk'[f] = Empty(disk[f]) /\ mem'[f] = mem[f]
    BY <1>4, Zenon DEF Truncates
  <2>2. disk'[f].n[a] = 0
    BY <2>1, TypeText DEF Empty, Text, TextOK
  <2>3. QED
    BY <1>1, <2>1, <2>2
<1>5. CASE Composes(f)
  <2>1. disk'[f] = disk[f] /\ mem'[f].n = mem[f].n
    BY <1>5 DEF Composes, Text
  <2>2. QED
    BY <1>1, <2>1
<1>6. CASE Puts(f)
  <2>1. disk'[f] = disk[f] /\ Here.file = f /\ Here.op = "put" /\ pc \in 1 .. Len(Code(script))
    BY <1>6, Zenon DEF Puts, Goes
  <2>2. pc \in Edits(script)
    BY <2>1, LenFacts, Zenon DEF Edits, Ops, Here, TypeOK
  <2>3. a \notin Here.edit.come
    BY <2>1, <2>2, Zenon DEF Never, Here
  <2>4. mem'[f].n[a] \in Nat /\ mem'[f].n[a] <= mem[f].n[a]
    BY <1>6, <2>3, PutText, Zenon
  <2>5. QED
    BY <1>1, <2>1, <2>4
<1>7. QED
  BY <1>2, <1>3, <1>4, <1>5, <1>6, Zenon DEF Effect

(* The order of three places of a script, for the steps below.             *)
LEMMA PlaceOrder ==
  \A u \in Nat, v \in Nat, w \in Nat :
     /\ u < v /\ v < w => u < w /\ u <= w
     /\ u < v /\ v <= w => u < w /\ u <= w
     /\ u <= v /\ v < w => u < w /\ u <= w
     /\ u <= v /\ u # v => u < v
     /\ u < v => u # v /\ ~(v <= u)
     /\ u <= u
OBVIOUS

(* Places between two others, as ranges and by their neighbours.           *)
LEMMA PlaceRange ==
  \A u \in Nat, v \in Nat, w \in Nat :
     /\ u < v /\ v < w => v \in u + 1 .. w - 1
     /\ u < v /\ v <= w => v \in u + 1 .. w
     /\ u < v \/ u = v \/ v < u
     /\ u > v <=> v < u
     /\ ~(u <= v) <=> v < u
     /\ u + 1 <= v <=> u < v
     /\ v < u + 1 <=> v <= u
OBVIOUS

(* A place before another place of the script.                             *)
LEMMA EarlierPlace ==
  ASSUME NEW m \in Nat, NEW n \in 1 .. m
  PROVE  /\ \A p \in 1 .. n - 1 : p \in Nat /\ p \in 1 .. m /\ p < n
         /\ n - 1 \in 1 .. m => n - 1 \in Nat /\ n - 1 < n
OBVIOUS

(* What the operations that read and write a file look at.                 *)
LEMMA FileSteps ==
  \A f : /\ Load(f).op = "load" /\ Load(f).file = f
         /\ Create(f).op = "create" /\ Create(f).file = f
         /\ Save(f).op = "save" /\ Save(f).file = f
BY DEF Load, Create, Save, Step

LEMMA ThroughLess ==
  ASSUME NEW s, NEW j \in Nat, NEW i \in Nat, NEW k \in Nat, k <= i, Through(s, j, i)
  PROVE  Through(s, j, k)
<1>1. \A x : x \in j + 1 .. k => x \in j + 1 .. i
  OBVIOUS
<1>2. QED
  BY <1>1, Zenon DEF Through

-----------------------------------------------------------------------------
(* Edits after the save of a text that has used up a literal.              *)

GatedInv(f, g, a, all, j, c, k, i) ==
  /\ i \in disk[g].made \/ i \in mem[g].made => disk[f].n[a] = 0 /\ mem[f].n[a] = 0
  /\ i \notin disk[g].again /\ i \notin mem[g].again
  /\ Inside(j, i) => i \notin disk[g].made /\ i \notin mem[g].made
  /\ Inside(j, c) => all \/ mem[f].n[a] <= 1
  /\ Inside(c, k) => mem[f].n[a] = 0
  /\ Inside(k, i) => disk[f].n[a] = 0 /\ mem[f].n[a] = 0

LEMMA GatedStep ==
  ASSUME TypeOK, Next, NEW i \in Edits(script), NEW k \in 1 .. i, NEW c \in Edits(script),
         NEW j \in 1 .. i, Gated(script, i, j, c, k),
         NEW f, f = FileOf(script, c), NEW g, g = FileOf(script, i),
         NEW a, a = LitOf(script, j), NEW all, all = AllOf(script, c),
         GatedInv(f, g, a, all, j, c, k, i)
  PROVE  GatedInv(f, g, a, all, j, c, k, i)'
<1>1. /\ script \in Script /\ DOMAIN Code(script) = 1 .. Len(Code(script))
      /\ Len(Code(script)) \in Nat /\ i \in Nat /\ c \in Nat /\ j \in Nat /\ k \in Nat
      /\ {i, c, j, k} \subseteq DOMAIN Code(script)
      /\ 1 <= j /\ j < c /\ c < k /\ k < i
  BY LenFacts DEF Edits, Ops, TypeOK, Gated, UsesUp, FileOf, LitOf, AllOf
<1>2. f \in Files(script) /\ g \in Files(script) /\ a \in DOMAIN script.base[f]
      /\ Never(script, f, a) /\ a # 0
  <2>1. StepFits(script, i) /\ StepFits(script, j) /\ StepFits(script, c)
    BY <1>1, ScriptAssumption, Zenon
  <2>2. QED
    BY <2>1, Zenon DEF StepFits, Gated, UsesUp, Edits, Ops, FileOf, LitOf, AllOf
<1>3. Effect(f) /\ Effect(g)
  BY <1>2, Effects, Zenon DEF Effect
<1>4. /\ Through(script, j, i) /\ Through(script, c, i) /\ Through(script, k, i)
      /\ Through(script, j, c) /\ Through(script, c, k)
  <2>1. Through(script, j, i) /\ Through(script, c, i) /\ Through(script, k, i)
    BY Zenon DEF Gated, UsesUp, FileOf, LitOf, AllOf
  <2>2. QED
    BY <1>1, <2>1, ThroughLess
<1>5. /\ disk[f].n[a] \in Nat /\ mem[f].n[a] \in Nat
      /\ disk[f].n[a] = 0 /\ mem[f].n[a] = 0 => disk'[f].n[a] = 0 /\ mem'[f].n[a] = 0
      /\ ~Loads(f) /\ ~Restarts(f) => mem'[f].n[a] \in Nat /\ mem'[f].n[a] <= mem[f].n[a]
  BY <1>2, <1>3, Falls, Zenon
<1>6. status = "run" /\ pc = j /\ Inside(j, i)' =>
        mem[f].n[a] # 0 /\ (all \/ mem[f].n[a] <= 1) /\ Passes(f)
  <2>1. SUFFICES ASSUME status = "run", pc = j, Inside(j, i)'
        PROVE  mem[f].n[a] # 0 /\ (all \/ mem[f].n[a] <= 1) /\ Passes(f)
    BY Zenon
  <2>2. Passes(f) /\ Seen # 0
    BY <1>1, <1>2, <1>3, <1>4, <2>1, Barred, Zenon DEF Effect, Gated, UsesUp, FileOf, LitOf, AllOf
  <2>3. all \/ Seen # 2
    BY <1>1, <1>2, <1>3, <1>4, <2>1, Barred, Zenon DEF Effect, Gated, UsesUp, FileOf, LitOf, AllOf
  <2>4. Here.file = f /\ Here.lit = a
    BY <2>1, Zenon DEF Here, Gated, UsesUp, FileOf, LitOf, AllOf
  <2>5. pc \in 1 .. Len(Code(script))
    BY <1>1, <2>1, Zenon
  <2>6. /\ mem[f].n[a] = 0 => Seen = 0
        /\ mem[f].n[a] >= 2 => Seen = 2
    BY <1>2, <2>1, <2>4, <2>5, SeenCount, Zenon
  <2>7. mem[f].n[a] # 0 /\ (Seen # 2 => mem[f].n[a] <= 1)
    <3>1. mem[f].n[a] \in Nat
      BY <1>5, Zenon
    <3>2. Seen # 0
      BY <2>2, Zenon
    <3>3. QED
      BY <2>6, <3>1, <3>2
  <2>8. QED
    BY <2>2, <2>3, <2>7, Zenon
<1>7. Inside(j, i)' => i \notin disk'[g].made /\ i \notin mem'[g].made
  <2>1. SUFFICES ASSUME Inside(j, i)' PROVE i \notin disk'[g].made /\ i \notin mem'[g].made
    BY Zenon
  <2>2. (pc = j \/ Inside(j, i)) /\ status = "run"
    BY <1>1, <1>2, <1>3, <1>4, <2>1, Came, Zenon
  <2>3. pc # i
    BY <1>1, <1>2, <1>3, <2>1, <2>2, NotHere, Zenon
  <2>4. i \notin disk[g].made /\ i \notin mem[g].made
    BY <1>6, <2>1, <2>2, Zenon DEF GatedInv
  <2>5. QED
    BY <1>2, <1>3, <2>3, <2>4, MadeStep, Zenon
<1>8. status = "run" /\ pc = i => Inside(j, i) /\ Inside(k, i)
  BY <1>1, SMTT(30), SMTT(60) DEF Inside
<1>9. i \notin disk'[g].again /\ i \notin mem'[g].again
  BY <1>2, <1>3, <1>8, MadeStep, Zenon DEF GatedInv
<1>10. i \in disk'[g].made \/ i \in mem'[g].made => disk'[f].n[a] = 0 /\ mem'[f].n[a] = 0
  <2>1. i \in disk'[g].made \/ i \in mem'[g].made => disk[f].n[a] = 0 /\ mem[f].n[a] = 0
    BY <1>2, <1>3, <1>8, MadeStep, Zenon DEF GatedInv
  <2>2. QED
    BY <1>5, <2>1, Zenon
<1>11. status = "run" /\ j < pc /\ pc <= k => ~Loads(f) /\ ~Restarts(f)
  <2>1. SUFFICES ASSUME status = "run", j < pc, pc <= k PROVE ~Loads(f) /\ ~Restarts(f)
    BY Zenon
  <2>2. pc \in j + 1 .. k
    BY <1>1, <2>1 DEF TypeOK
  <2>3. Here.file = f => Here.op # "load"
    BY <2>2, Zenon DEF Gated, Here, FileOf, LitOf, AllOf
  <2>4. QED
    BY <2>1, <2>3, Zenon DEF Loads, Restarts, Goes
<1>12. Inside(j, c)' => all \/ mem'[f].n[a] <= 1
  <2>1. SUFFICES ASSUME Inside(j, c)' PROVE all \/ mem'[f].n[a] <= 1
    BY Zenon
  <2>2. (pc = j \/ Inside(j, c)) /\ status = "run" /\ pc \in Nat /\ pc' \in Nat
    BY <1>1, <1>2, <1>3, <1>4, <2>1, Came, Zenon
  <2>3. CASE pc = j
    <3>1. Inside(j, i)'
      BY <1>1, <2>1, <2>2, PlaceOrder, Zenon DEF Inside
    <3>2. (all \/ mem[f].n[a] <= 1) /\ mem'[f] = mem[f]
      BY <1>6, <2>2, <2>3, <3>1, Zenon DEF Passes
    <3>3. QED
      BY <3>2, Zenon
  <2>4. CASE Inside(j, c)
    <3>1. ~Loads(f) /\ ~Restarts(f)
      BY <1>1, <1>11, <2>2, <2>4, PlaceOrder, Zenon DEF Inside
    <3>2. all \/ mem[f].n[a] <= 1
      BY <2>4, Zenon DEF GatedInv
    <3>3. mem[f].n[a] <= 1 => mem'[f].n[a] <= 1
      BY <1>5, <3>1
    <3>4. QED
      BY <3>2, <3>3, Zenon
  <2>5. QED
    BY <2>2, <2>3, <2>4, Zenon
<1>13. Inside(c, k)' => mem'[f].n[a] = 0
  <2>1. SUFFICES ASSUME Inside(c, k)' PROVE mem'[f].n[a] = 0
    BY Zenon
  <2>2. (pc = c \/ Inside(c, k)) /\ status = "run" /\ pc \in Nat
    BY <1>1, <1>2, <1>3, <1>4, <2>1, Came, Zenon
  <2>3. CASE pc = c
    <3>1. Inside(j, c) /\ Here.op = "put" /\ Here.file = f /\ Here.edit = Code(script)[c].edit
      BY <1>1, <2>2, <2>3, PlaceOrder, Zenon DEF Inside, Here, Edits, Ops, FileOf, AllOf
    <3>2. Puts(f)
      BY <1>3, <2>1, <3>1, Zenon DEF Effect, Inside, Restarts, Halts, Passes, Loads, Composes, Truncates,
          Writes, Elsewhere, Goes
    <3>3. a = Here.edit.anchor /\ a \in Here.edit.gone /\ a \notin Here.edit.come
      BY <3>1, Zenon DEF Gated, UsesUp, Never, FileOf, LitOf, AllOf
    <3>4. Here.edit.all \/ mem[f].n[a] <= 1
      BY <3>1, Zenon DEF GatedInv, AllOf
    <3>5. QED
      BY <1>2, <3>2, <3>3, <3>4, PutText, Zenon
  <2>4. CASE Inside(c, k)
    <3>1. ~Loads(f) /\ ~Restarts(f)
      BY <1>1, <1>11, <2>2, <2>4, PlaceOrder, Zenon DEF Inside
    <3>2. mem[f].n[a] = 0
      BY <2>4, Zenon DEF GatedInv
    <3>3. QED
      BY <1>5, <3>1, <3>2
  <2>5. QED
    BY <2>2, <2>3, <2>4, Zenon
<1>14. Inside(k, i)' => disk'[f].n[a] = 0 /\ mem'[f].n[a] = 0
  <2>1. SUFFICES ASSUME Inside(k, i)' PROVE disk'[f].n[a] = 0 /\ mem'[f].n[a] = 0
    BY Zenon
  <2>2. (pc = k \/ Inside(k, i)) /\ status = "run" /\ pc \in Nat
    BY <1>1, <1>2, <1>3, <1>4, <2>1, Came, Zenon
  <2>3. CASE pc = k
    <3>1. Inside(c, k) /\ Here.op = "save" /\ Here.file = f
      BY <1>1, <2>2, <2>3, SMTT(30), SMTT(60) DEF Inside, Here, Gated, Save, Step, FileOf, LitOf, AllOf
    <3>2. pc' # pc
      BY <1>1, <2>1, <2>3, PlaceOrder, Zenon DEF Inside
    <3>3. Writes(f)
      BY <1>3, <2>1, <3>1, <3>2, Zenon DEF Effect, Inside, Restarts, Halts, Passes, Loads, Puts, Composes,
          Truncates, Elsewhere, Goes
    <3>4. QED
      BY <3>1, <3>3, Zenon DEF Writes, GatedInv
  <2>4. CASE Inside(k, i)
    BY <1>5, <2>4, Zenon DEF GatedInv
  <2>5. QED
    BY <2>2, <2>3, <2>4, Zenon
<1>15. QED
  BY <1>7, <1>9, <1>10, <1>12, <1>13, <1>14, Zenon DEF GatedInv

-----------------------------------------------------------------------------
(* Edits whose save is behind a pair of a test and an edit.                *)

(* The lock is shut: the literal used up, or the mark there.               *)
Shut(mark, l, t) == IF mark THEN t.n[l] > 0 ELSE t.n[l] = 0

Locks(s, mark, f, l) == IF mark THEN Keeps(s, f, l) ELSE Never(s, f, l)

LEMMA ShutStep ==
  ASSUME TypeOK, NEW f \in Files(script), Effect(f), NEW mark \in BOOLEAN,
         NEW l \in DOMAIN script.base[f], Locks(script, mark, f, l),
         ~Loads(f), ~Restarts(f), Shut(mark, l, mem[f])
  PROVE  Shut(mark, l, mem'[f])
<1>1. CASE mark = FALSE
  <2>1. Never(script, f, l) /\ mem[f].n[l] = 0
    BY <1>1, Zenon DEF Locks, Shut
  <2>2. mem'[f].n[l] \in Nat /\ mem'[f].n[l] <= mem[f].n[l]
    BY <2>1, Falls, Zenon
  <2>3. mem'[f].n[l] = 0
    BY <2>1, <2>2
  <2>4. QED
    BY <1>1, <2>3, Zenon DEF Shut
<1>2. CASE mark = TRUE
  <2>1. Keeps(script, f, l) /\ mem[f].n[l] > 0
    BY <1>2, Zenon DEF Locks, Shut
  <2>2. mem'[f].n[l] > 0
    <3>1. CASE Puts(f)
      <4>1. Here.file = f /\ Here.op = "put" /\ pc \in 1 .. Len(Code(script))
        BY <3>1, Zenon DEF Puts, Goes
      <4>2. pc \in Edits(script)
        BY <4>1, LenFacts, Zenon DEF Edits, Ops, Here, TypeOK
      <4>3. l \notin Here.edit.gone
        BY <2>1, <4>1, <4>2, Zenon DEF Keeps, Here
      <4>4. mem'[f].n[l] \in Nat /\ mem'[f].n[l] >= mem[f].n[l] /\ mem[f].n[l] \in Nat
        BY <3>1, <4>3, PutText, Zenon
      <4>5. QED
        BY <2>1, <4>4
    <3>2. CASE Composes(f)
      <4>1. mem'[f].n = mem[f].n
        BY <3>2 DEF Composes, Text
      <4>2. QED
        BY <2>1, <4>1, Zenon
    <3>3. CASE ~Puts(f) /\ ~Composes(f)
      <4>1. mem'[f] = mem[f]
        BY <3>3, Zenon DEF Effect, Halts, Passes, Truncates, Writes, Elsewhere
      <4>2. QED
        BY <2>1, <4>1, Zenon
    <3>4. QED
      BY <3>1, <3>2, <3>3, Zenon
  <2>3. QED
    BY <1>2, <2>2, Zenon DEF Shut
<1>3. QED
  BY <1>1, <1>2, Zenon

LEMMA EmptyParts ==
  ASSUME NEW t
  PROVE  Empty(t).made = {} /\ Empty(t).again = {}
BY Zenon DEF Empty, Text

(* Steps p .. k own the text of f that step k saves.                       *)
Owns(s, f, p, k) ==
  \/ Segment(s, f, p, k)
  \/ p = k - 1 /\ Code(s)[p] = Create(f) /\ Code(s)[k] = Save(f) /\ Through(s, p, k)

Clean(mark, l, t, i) == (i \in t.made => Shut(mark, l, t)) /\ i \notin t.again

SealedInv(f, l, mark, all, x, b, j, c, k, i) ==
  /\ Clean(mark, l, disk[f], i)
  /\ Inside(b, i) /\ i \in mem[f].made => Shut(mark, l, mem[f])
  /\ Inside(b, j) /\ i \in mem[f].again => Shut(mark, l, mem[f])
  /\ Inside(j, k) => i \notin mem[f].again
  /\ Inside(j, i) => i \notin mem[f].made
  /\ Inside(c, k) => Shut(mark, l, mem[f])
  /\ Inside(j, c) /\ ~mark => all \/ mem[f].n[l] <= 1
  /\ Inside(c - 1, c) /\ mark => mem[f].n[x] > 0
  /\ \A p, q \in Nat :
       Owns(script, f, p, q) /\ p \in DOMAIN Code(script) /\ q # k /\ Inside(p, q) =>
         Clean(mark, l, mem[f], i)

(* A segment that saves elsewhere does not contain edit i.                 *)
LEMMA Apart ==
  ASSUME NEW s, NEW f, NEW b \in Nat, NEW k \in Nat, NEW p \in Nat, NEW q \in Nat, NEW i \in Nat,
         Segment(s, f, b, k), b < i, i < k, Owns(s, f, p, q), q # k, p < i, i <= q,
         Code(s)[i].op = "put"
  PROVE  FALSE
<1>1. Code(s)[b] = Load(f) /\ Code(s)[k] = Save(f)
  BY Zenon DEF Segment
<1>2. Code(s)[k].op = "save" /\ Code(s)[k].file = f
  BY <1>1, FileSteps, Zenon
<1>3. Code(s)[q] = Save(f) /\ (Code(s)[p] = Load(f) \/ Code(s)[p] = Create(f))
  BY Zenon DEF Owns, Segment
<1>4. Code(s)[q].op = "save" /\ Code(s)[q].file = f
      /\ Code(s)[p].op \in {"load", "create"} /\ Code(s)[p].file = f
  BY <1>3, FileSteps, Zenon
<1>5. i < q
  BY <1>4
<1>6. Segment(s, f, p, q)
  BY <1>5 DEF Owns
<1>7. p \notin b + 1 .. k - 1 /\ q \notin b + 1 .. k - 1
  BY <1>4, Zenon DEF Segment
<1>8. p <= b /\ k < q
  BY <1>5, <1>7
<1>9. k \in p + 1 .. q - 1
  BY <1>8
<1>10. QED
  BY <1>2, <1>6, <1>9, Zenon DEF Segment

LEMMA SealedStep ==
  ASSUME TypeOK, Next, NEW i \in Edits(script), NEW c \in Edits(script),
         NEW b \in DOMAIN Code(script), NEW j \in DOMAIN Code(script),
         NEW k \in DOMAIN Code(script),
         NEW f, f = FileOf(script, i), OwnText(script, f),
         NEW mark \in BOOLEAN, Sealed(script, i, b, j, c, k),
         IF mark THEN Brings(script, j, c, k) ELSE UsesUp(script, j, c, k),
         NEW l, l = LitOf(script, j), NEW all, all = AllOf(script, c),
         NEW x, x = AnchorOf(script, c),
         SealedInv(f, l, mark, all, x, b, j, c, k, i)
  PROVE  SealedInv(f, l, mark, all, x, b, j, c, k, i)'
<1>1. /\ script \in Script /\ DOMAIN Code(script) = 1 .. Len(Code(script))
      /\ Len(Code(script)) \in Nat
      /\ b \in Nat /\ i \in Nat /\ c \in Nat /\ j \in Nat /\ k \in Nat /\ c - 1 \in Nat
      /\ {i, c, c - 1} \subseteq DOMAIN Code(script)
      /\ 1 <= b /\ b < j /\ j < c /\ c < k /\ b < i /\ i < k
  <2>1. script \in Script
    BY Zenon DEF TypeOK
  <2>2. DOMAIN Code(script) = 1 .. Len(Code(script)) /\ Len(Code(script)) \in Nat
    BY <2>1, LenFacts, Zenon
  <2>3. i \in DOMAIN Code(script) /\ c \in DOMAIN Code(script)
    BY Zenon DEF Edits, Ops
  <2>4. /\ b \in Nat /\ i \in Nat /\ c \in Nat /\ j \in Nat /\ k \in Nat
        /\ 1 <= b /\ 1 <= i /\ 1 <= c /\ 1 <= j /\ c <= Len(Code(script))
    BY <2>2, <2>3
  <2>5. b < j /\ b < i /\ i < k /\ c < k
    BY Zenon DEF Sealed, UsesUp, Brings
  <2>6. j < c \/ j < c - 1
    BY Zenon DEF Sealed, UsesUp, Brings
  <2>7. j < c
    BY <2>4, <2>6
  <2>8. c - 1 \in Nat /\ c - 1 \in 1 .. Len(Code(script))
    BY <2>2, <2>4, <2>7
  <2>9. QED
    BY <2>1, <2>2, <2>3, <2>4, <2>5, <2>7, <2>8, Zenon
<1>2. Segment(script, f, b, k) /\ Code(script)[c].file = f /\ Code(script)[j].file = f
  BY Zenon DEF Sealed, UsesUp, Brings, FileOf, LitOf, AllOf, AnchorOf
<1>3. f \in Files(script) /\ l \in DOMAIN script.base[f] /\ l # 0
  <2>1. StepFits(script, i) /\ StepFits(script, j)
    BY <1>1, ScriptAssumption, Zenon
  <2>2. QED
    BY <1>2, <2>1, Zenon DEF StepFits, UsesUp, Brings, Edits, Ops, FileOf, LitOf, AllOf, AnchorOf
<1>4. Effect(f) /\ script' = script
  BY <1>3, Effects, TextsStep, Zenon DEF Effect
<1>5. Locks(script, mark, f, l)
  BY <1>2, Zenon DEF Locks, UsesUp, Brings, FileOf, LitOf, AllOf, AnchorOf
<1>6. /\ Through(script, b, k) /\ Through(script, j, k) /\ Through(script, c, k)
      /\ Through(script, b, i) /\ Through(script, b, j)
      /\ Through(script, j, c) /\ (mark => Through(script, c - 1, c))
  <2>1. /\ Through(script, b, k) /\ Through(script, j, k) /\ Through(script, c, k)
        /\ (mark => Through(script, c - 1, k))
    BY <1>2, Zenon DEF Segment, UsesUp, Brings, FileOf, LitOf, AllOf, AnchorOf
  <2>2. QED
    BY <1>1, <2>1, ThroughLess
(* Inside the segment the text is neither read nor put back.               *)
<1>7. status = "run" /\ b < pc /\ pc <= k => ~Loads(f) /\ ~Restarts(f)
        /\ (pc < k => ~Writes(f) /\ ~Truncates(f) /\ ~Composes(f))
  <2>1. SUFFICES ASSUME status = "run", b < pc, pc <= k
        PROVE  ~Loads(f) /\ ~Restarts(f)
                 /\ (pc < k => ~Writes(f) /\ ~Truncates(f) /\ ~Composes(f))
    BY Zenon
  <2>2. pc < k => pc \in b + 1 .. k - 1
    BY <1>1, <2>1 DEF TypeOK
  <2>3. pc < k => (Here.file = f => Here.op \notin {"load", "create", "save"})
    BY <1>2, <2>2, Zenon DEF Segment, Here
  <2>4. Code(script)[k].op = "save"
    BY <1>2, FileSteps, Zenon DEF Segment
  <2>5. pc \in Nat /\ (pc = k => Here.op = "save")
    <3>1. pc \in 1 .. Len(Code(script)) + 1
      BY Zenon DEF TypeOK
    <3>2. pc \in Nat
      BY <1>1, <3>1
    <3>3. QED
      BY <2>4, <3>2, Zenon DEF Here
  <2>6. pc < k \/ pc = k
    BY <1>1, <2>1, <2>5
  <2>7. Here.file = f => Here.op # "load"
    BY <2>3, <2>5, <2>6, Zenon
  <2>8. ~Loads(f) /\ ~Restarts(f)
    BY <2>1, <2>7, Zenon DEF Loads, Restarts, Goes
  <2>9. pc < k => ~Writes(f) /\ ~Truncates(f) /\ ~Composes(f)
    BY <2>3, Zenon DEF Writes, Truncates, Composes, Goes
  <2>10. QED
    BY <2>8, <2>9, Zenon
(* Passing the test means that the lock is open.                           *)
<1>8. status = "run" /\ pc = j /\ Inside(j, k)' =>
        /\ ~Shut(mark, l, mem[f]) /\ mem'[f] = mem[f] /\ disk'[f] = disk[f]
        /\ (~mark => all \/ mem[f].n[l] <= 1)
  <2>1. SUFFICES ASSUME status = "run", pc = j, Inside(j, k)'
        PROVE  /\ ~Shut(mark, l, mem[f]) /\ mem'[f] = mem[f] /\ disk'[f] = disk[f]
               /\ (~mark => all \/ mem[f].n[l] <= 1)
    BY Zenon
  <2>2. Here.file = f /\ Here.lit = l /\ pc \in 1 .. Len(Code(script))
    BY <1>1, <1>2, <2>1, Zenon DEF Here, LitOf
  <2>3. /\ mem[f].n[l] \in Nat
        /\ mem[f].n[l] = 0 => Seen = 0
        /\ mem[f].n[l] = 1 => Seen = 1
        /\ mem[f].n[l] >= 2 => Seen = 2
    BY <1>3, <2>1, <2>2, SeenCount, Zenon
  <2>4. ASSUME NEW n, Bars(script, j, k, n) PROVE Passes(f) /\ Seen # n
    BY <1>1, <1>3, <1>4, <1>6, <2>1, <2>4, Barred, Zenon DEF Effect
  <2>5. CASE mark = TRUE
    <3>1. Passes(f) /\ Seen # 1 /\ Seen # 2
      BY <2>4, <2>5, Zenon DEF Brings, FileOf, LitOf, AllOf, AnchorOf
    <3>2. mem[f].n[l] = 0
      BY <2>3, <3>1
    <3>3. mem'[f] = mem[f] /\ disk'[f] = disk[f]
      BY <3>1, Zenon DEF Passes
    <3>4. ~Shut(mark, l, mem[f])
      BY <2>5, <3>2 DEF Shut
    <3>5. QED
      BY <2>5, <3>3, <3>4, Zenon
  <2>6. CASE mark = FALSE
    <3>1. Passes(f) /\ Seen # 0
      BY <2>4, <2>6, Zenon DEF UsesUp, FileOf, LitOf, AllOf, AnchorOf
    <3>2. all \/ Seen # 2
      BY <2>4, <2>6, Zenon DEF UsesUp, FileOf, LitOf, AllOf, AnchorOf
    <3>3. mem[f].n[l] # 0 /\ (Seen # 2 => mem[f].n[l] <= 1)
      BY <2>3, <3>1
    <3>4. mem'[f] = mem[f] /\ disk'[f] = disk[f]
      BY <3>1, Zenon DEF Passes
    <3>5. ~Shut(mark, l, mem[f])
      BY <2>6, <3>3, Zenon DEF Shut
    <3>6. QED
      BY <3>2, <3>3, <3>4, <3>5, Zenon
  <2>7. QED
    BY <2>5, <2>6, Zenon
(* Reading the text.                                                       *)
<1>9. status = "run" /\ pc = b /\ Inside(b, k)' => mem'[f] = disk[f] /\ disk'[f] = disk[f]
  <2>1. SUFFICES ASSUME status = "run", pc = b, Inside(b, k)'
        PROVE  mem'[f] = disk[f] /\ disk'[f] = disk[f]
    BY Zenon
  <2>2. Here.op = "load" /\ Here.file = f
    BY <1>2, <2>1, FileSteps, Zenon DEF Segment, Here
  <2>3. Loads(f)
    BY <1>4, <2>1, <2>2, Zenon DEF Effect, Restarts, Halts, Passes, Puts, Composes, Truncates, Writes,
        Elsewhere, Goes, Inside
  <2>4. QED
    BY <2>3, Zenon DEF Loads
<1>10. Inside(b, i)' /\ i \in mem'[f].made => Shut(mark, l, mem'[f])
  <2>1. SUFFICES ASSUME Inside(b, i)', i \in mem'[f].made PROVE Shut(mark, l, mem'[f])
    BY Zenon
  <2>2. (pc = b \/ Inside(b, i)) /\ status = "run" /\ pc \in Nat /\ pc' \in Nat
    BY <1>1, <1>3, <1>4, <1>6, <2>1, Came, Zenon
  <2>3. CASE pc = b
    <3>1. Inside(b, k)'
      BY <1>1, <2>1, <2>2, PlaceOrder, ZenonT(30), ZenonT(60) DEF Inside
    <3>2. mem'[f] = disk[f]
      BY <1>9, <2>2, <2>3, <3>1, Zenon
    <3>3. QED
      BY <2>1, <3>2, Zenon DEF SealedInv, Clean
  <2>4. CASE Inside(b, i)
    <3>1. pc # i
      BY <1>1, <1>3, <1>4, <2>1, <2>2, NotHere, Zenon
    <3>2. ~Loads(f) /\ ~Restarts(f)
      BY <1>1, <1>7, <2>2, <2>4, PlaceOrder, Zenon DEF Inside
    <3>3. i \in mem[f].made
      BY <1>3, <1>4, <2>1, <3>1, <3>2, MemStep, Zenon
    <3>4. Shut(mark, l, mem[f])
      BY <2>4, <3>3, Zenon DEF SealedInv
    <3>5. QED
      BY <1>3, <1>4, <1>5, <3>2, <3>4, ShutStep, Zenon
  <2>5. QED
    BY <2>2, <2>3, <2>4, Zenon
<1>11. status = "run" /\ pc = i => Inside(b, i) /\ (j < i => Inside(j, i))
  BY <1>1, PlaceOrder, Zenon DEF Inside
<1>12. Inside(b, j)' /\ i \in mem'[f].again => Shut(mark, l, mem'[f])
  <2>1. SUFFICES ASSUME Inside(b, j)', i \in mem'[f].again PROVE Shut(mark, l, mem'[f])
    BY Zenon
  <2>2. (pc = b \/ Inside(b, j)) /\ status = "run" /\ pc \in Nat /\ pc' \in Nat
    BY <1>1, <1>3, <1>4, <1>6, <2>1, Came, Zenon
  <2>3. CASE pc = b
    <3>1. Inside(b, k)'
      BY <1>1, <2>1, <2>2, PlaceOrder, Zenon DEF Inside
    <3>2. mem'[f] = disk[f]
      BY <1>9, <2>2, <2>3, <3>1, Zenon
    <3>3. QED
      BY <2>1, <3>2, Zenon DEF SealedInv, Clean
  <2>4. CASE Inside(b, j)
    <3>1. ~Loads(f) /\ ~Restarts(f)
      BY <1>1, <1>7, <2>2, <2>4, PlaceOrder, Zenon DEF Inside
    <3>2. i \in mem[f].again \/ (pc = i /\ i \in mem[f].made)
      BY <1>3, <1>4, <2>1, <3>1, MemStep, Zenon
    <3>3. Shut(mark, l, mem[f])
      BY <1>11, <2>2, <2>4, <3>2, Zenon DEF SealedInv
    <3>4. QED
      BY <1>3, <1>4, <1>5, <3>1, <3>3, ShutStep, Zenon
  <2>5. QED
    BY <2>2, <2>3, <2>4, Zenon
<1>13. Inside(j, k)' => i \notin mem'[f].again
  <2>1. SUFFICES ASSUME Inside(j, k)' PROVE i \notin mem'[f].again
    BY Zenon
  <2>2. (pc = j \/ Inside(j, k)) /\ status = "run" /\ pc \in Nat
    BY <1>1, <1>3, <1>4, <1>6, <2>1, Came, Zenon
  <2>3. CASE pc = j
    <3>1. ~Shut(mark, l, mem[f]) /\ mem'[f] = mem[f]
      BY <1>8, <2>1, <2>2, <2>3, Zenon
    <3>2. Inside(b, j)
      BY <1>1, <2>2, <2>3, PlaceOrder, Zenon DEF Inside
    <3>3. QED
      BY <3>1, <3>2, Zenon DEF SealedInv
  <2>4. CASE Inside(j, k)
    <3>1. ~Loads(f) /\ ~Restarts(f)
      BY <1>1, <1>7, <2>2, <2>4, PlaceOrder, Zenon DEF Inside
    <3>2. i \notin mem[f].again
      BY <2>4, Zenon DEF SealedInv
    <3>3. pc = i => i \notin mem[f].made
      <4>1. pc = i => Inside(j, i)
        BY <1>1, <2>2, <2>4, PlaceOrder, Zenon DEF Inside
      <4>2. QED
        BY <4>1, Zenon DEF SealedInv
    <3>4. QED
      BY <1>3, <1>4, <3>1, <3>2, <3>3, MemStep, Zenon
  <2>5. QED
    BY <2>2, <2>3, <2>4, Zenon
<1>14. Inside(j, i)' => i \notin mem'[f].made
  <2>1. SUFFICES ASSUME Inside(j, i)' PROVE i \notin mem'[f].made
    BY Zenon
  <2>2. Through(script, j, i)
    BY <1>1, <1>6, ThroughLess
  <2>3. (pc = j \/ Inside(j, i)) /\ status = "run" /\ pc \in Nat /\ pc' \in Nat
    BY <1>1, <1>3, <1>4, <2>1, <2>2, Came, Zenon
  <2>4. pc # i
    BY <1>1, <1>3, <1>4, <2>1, <2>3, NotHere, Zenon
  <2>5. CASE pc = j
    <3>1. Inside(j, k)' /\ Inside(b, i)
      BY <1>1, <2>1, <2>3, <2>5, PlaceOrder, Zenon DEF Inside
    <3>2. ~Shut(mark, l, mem[f]) /\ mem'[f] = mem[f]
      BY <1>8, <2>3, <2>5, <3>1, Zenon
    <3>3. QED
      BY <3>1, <3>2, Zenon DEF SealedInv
  <2>6. CASE Inside(j, i)
    <3>1. ~Loads(f) /\ ~Restarts(f)
      BY <1>1, <1>7, <2>3, <2>6, PlaceOrder, Zenon DEF Inside
    <3>2. i \notin mem[f].made
      BY <2>6, Zenon DEF SealedInv
    <3>3. QED
      BY <1>3, <1>4, <2>4, <3>1, <3>2, MemStep, Zenon
  <2>7. QED
    BY <2>3, <2>5, <2>6, Zenon
<1>15. Inside(j, c)' /\ ~mark => all \/ mem'[f].n[l] <= 1
  <2>1. SUFFICES ASSUME Inside(j, c)', ~mark PROVE all \/ mem'[f].n[l] <= 1
    BY Zenon
  <2>2. (pc = j \/ Inside(j, c)) /\ status = "run" /\ pc \in Nat /\ pc' \in Nat
    BY <1>1, <1>3, <1>4, <1>6, <2>1, Came, Zenon
  <2>3. CASE pc = j
    <3>1. Inside(j, k)'
      BY <1>1, <2>1, <2>2, PlaceOrder, Zenon DEF Inside
    <3>2. (all \/ mem[f].n[l] <= 1) /\ mem'[f] = mem[f]
      BY <1>8, <2>1, <2>2, <2>3, <3>1, Zenon
    <3>3. QED
      BY <3>2, Zenon
  <2>4. CASE Inside(j, c)
    <3>1. ~Loads(f) /\ ~Restarts(f)
      BY <1>1, <1>7, <2>2, <2>4, PlaceOrder, Zenon DEF Inside
    <3>2. all \/ mem[f].n[l] <= 1
      BY <2>1, <2>4, Zenon DEF SealedInv
    <3>3. Never(script, f, l)
      BY <1>5, <2>1, Zenon DEF Locks
    <3>4. mem'[f].n[l] \in Nat /\ mem[f].n[l] \in Nat /\ mem'[f].n[l] <= mem[f].n[l]
      BY <1>3, <1>4, <3>1, <3>3, Falls, Zenon
    <3>5. mem[f].n[l] <= 1 => mem'[f].n[l] <= 1
      BY <3>4
    <3>6. QED
      BY <3>2, <3>5, Zenon
  <2>5. QED
    BY <2>2, <2>3, <2>4, Zenon
<1>16. Inside(c - 1, c)' /\ mark => mem'[f].n[x] > 0
  <2>1. SUFFICES ASSUME Inside(c - 1, c)', mark PROVE mem'[f].n[x] > 0
    BY Zenon
  <2>2. Through(script, c - 1, c)
    BY <1>6, <2>1, Zenon
  <2>3. (pc = c - 1 \/ Inside(c - 1, c)) /\ status = "run" /\ pc \in Nat
    BY <1>1, <1>3, <1>4, <2>1, <2>2, Came, Zenon
  <2>4. pc # c
    BY <1>1, <1>3, <1>4, <2>1, <2>3, NotHere, Zenon
  <2>5. pc = c - 1
    BY <1>1, <2>3, <2>4, SMTT(30), SMTT(60) DEF Inside
  <2>6. Code(script)[c - 1].op = "refuse" /\ 0 \in Code(script)[c - 1].when
        /\ Code(script)[c - 1].file = f /\ Code(script)[c - 1].lit = x /\ x # 0
    BY <1>2, <2>1, Zenon DEF Brings, FileOf, LitOf, AllOf, AnchorOf
  <2>7. Bars(script, c - 1, c, 0)
    BY <2>6, Zenon DEF Bars
  <2>8. Passes(f) /\ Seen # 0
    BY <1>1, <1>3, <1>4, <2>1, <2>2, <2>5, <2>7, Barred, Zenon DEF Effect
  <2>9. Here.file = f /\ Here.lit = x /\ pc \in 1 .. Len(Code(script))
    BY <1>1, <2>5, <2>6, Zenon DEF Here
  <2>10. mem[f].n[x] \in Nat /\ (mem[f].n[x] = 0 => Seen = 0)
    BY <1>3, <2>3, <2>6, <2>9, SeenCount, Zenon
  <2>11. mem[f].n[x] > 0 /\ mem'[f] = mem[f]
    BY <2>8, <2>10 DEF Passes
  <2>12. QED
    BY <2>11, Zenon
<1>17. Inside(c, k)' => Shut(mark, l, mem'[f])
  <2>1. SUFFICES ASSUME Inside(c, k)' PROVE Shut(mark, l, mem'[f])
    BY Zenon
  <2>2. (pc = c \/ Inside(c, k)) /\ status = "run" /\ pc \in Nat
    BY <1>1, <1>3, <1>4, <1>6, <2>1, Came, Zenon
  <2>3. CASE Inside(c, k)
    <3>1. ~Loads(f) /\ ~Restarts(f)
      BY <1>1, <1>7, <2>2, <2>3, PlaceOrder, Zenon DEF Inside
    <3>2. Shut(mark, l, mem[f])
      BY <2>3, Zenon DEF SealedInv
    <3>3. QED
      BY <1>3, <1>4, <1>5, <3>1, <3>2, ShutStep
  <2>4. CASE pc = c
    <3>1. Here.op = "put" /\ Here.file = f /\ Here.edit = Code(script)[c].edit
      BY <1>2, <2>4, Zenon DEF Here, Edits, Ops, FileOf
    <3>2. Puts(f)
      BY <1>4, <2>1, <2>2, <3>1, Zenon DEF Effect, Inside, Restarts, Halts, Passes, Loads, Composes,
          Truncates, Writes, Elsewhere, Goes
    <3>3. Inside(j, c) /\ Inside(c - 1, c)
      BY <1>1, <2>2, <2>4, SMTT(30), SMTT(60) DEF Inside
    <3>4. CASE mark = FALSE
      <4>1. Here.edit.all \/ mem[f].n[l] <= 1
        BY <3>1, <3>3, <3>4, Zenon DEF SealedInv, AllOf
      <4>2. l = Here.edit.anchor /\ l \in Here.edit.gone /\ l \notin Here.edit.come
        BY <1>2, <3>1, <3>4, Zenon DEF UsesUp, Never, FileOf, LitOf, AllOf, AnchorOf
      <4>3. mem'[f].n[l] = 0
        BY <1>3, <3>2, <4>1, <4>2, PutText, Zenon
      <4>4. QED
        BY <3>4, <4>3, Zenon DEF Shut
    <3>5. CASE mark = TRUE
      <4>1. mem[f].n[Here.edit.anchor] > 0
        BY <3>1, <3>3, <3>5, Zenon DEF SealedInv, AnchorOf
      <4>2. mem[f].n[Here.edit.anchor] # 0
        BY <4>1
      <4>3. l \in Here.edit.come
        BY <3>1, <3>5, Zenon DEF Brings, FileOf, LitOf, AllOf, AnchorOf
      <4>4. mem'[f].n[l] > 0
        BY <1>3, <3>2, <4>2, <4>3, PutText, Zenon
      <4>5. QED
        BY <3>5, <4>4, Zenon DEF Shut
    <3>6. QED
      BY <3>4, <3>5, Zenon
  <2>5. QED
    BY <2>2, <2>3, <2>4, Zenon
(* The other texts of the file.                                            *)
<1>18. ASSUME NEW p \in Nat, NEW q \in Nat, Owns(script, f, p, q), p \in DOMAIN Code(script),
              q # k, Inside(p, q)'
       PROVE  Clean(mark, l, mem'[f], i)
  <2>1. Through(script, p, q)
    BY <1>18, Zenon DEF Owns, Segment
  <2>2. (pc = p \/ Inside(p, q)) /\ status = "run" /\ pc \in Nat
    BY <1>1, <1>3, <1>4, <1>18, <2>1, Came, Zenon
  <2>3. CASE pc = p
    <3>1. (Here.op = "load" \/ Here.op = "create") /\ Here.file = f
      BY <1>18, <2>3, FileSteps, Zenon DEF Owns, Segment, Here
    <3>2. Loads(f) \/ Composes(f)
      BY <1>4, <1>18, <2>2, <3>1, Zenon DEF Effect, Inside, Restarts, Halts, Passes, Puts, Truncates,
          Writes, Elsewhere, Goes
    <3>3. CASE Loads(f)
      BY <3>3, Zenon DEF Loads, SealedInv, Clean
    <3>4. CASE Composes(f)
      <4>1. mem'[f].made = {pc} /\ mem'[f].again = {} /\ Here.op = "create"
        BY <3>4, SMTT(30), SMTT(60) DEF Composes, Text, Goes
      <4>2. pc # i
        BY <4>1, Zenon DEF Edits, Ops, Here, FileOf
      <4>3. QED
        BY <4>1, <4>2, Zenon DEF Clean
    <3>5. QED
      BY <3>2, <3>3, <3>4, Zenon
  <2>4. CASE Inside(p, q)
    <3>1. Clean(mark, l, mem[f], i)
      BY <1>18, <2>4, Zenon DEF SealedInv
    <3>2. pc # i
      <4>1. SUFFICES ASSUME pc = i PROVE FALSE
        BY Zenon
      <4>2. p < i /\ i <= q
        BY <2>4, <4>1, Zenon DEF Inside
      <4>3. Code(script)[i].op = "put"
        BY Zenon DEF Edits, Ops
      <4>4. QED
        BY <1>1, <1>2, <1>18, <4>2, <4>3, Apart, Zenon
    <3>3. ~Loads(f) /\ ~Restarts(f)
      <4>1. CASE Segment(script, f, p, q)
        <5>1. pc < q => pc \in p + 1 .. q - 1
          BY <1>18, <2>2, <2>4, PlaceRange, Zenon DEF Inside
        <5>2. pc < q => (Here.file = f => Here.op # "load")
          BY <4>1, <5>1, Zenon DEF Segment, Here
        <5>3. pc = q => Here.op = "save"
          <6>1. Code(script)[q] = Save(f)
            BY <4>1, Zenon DEF Segment
          <6>2. Save(f).op = "save"
            BY FileSteps, Zenon
          <6>3. QED
            BY <6>1, <6>2, Zenon DEF Here
        <5>4. Here.file = f => Here.op # "load"
          BY <1>18, <2>2, <2>4, <5>2, <5>3, PlaceOrder, Zenon DEF Inside
        <5>5. QED
          BY <2>2, <5>4, Zenon DEF Loads, Restarts, Goes
      <4>2. CASE p = q - 1 /\ Code(script)[q] = Save(f)
        <5>1. pc = q
          BY <1>18, <2>2, <2>4, <4>2, SMTT(30), SMTT(60) DEF Inside
        <5>2. Here.op = "save"
          BY <4>2, <5>1, FileSteps, Zenon DEF Here
        <5>3. QED
          BY <2>2, <5>2, Zenon DEF Loads, Restarts, Goes
      <4>3. QED
        BY <1>18, <4>1, <4>2, Zenon DEF Owns
    <3>4. i \notin mem'[f].again /\ (i \in mem'[f].made => i \in mem[f].made)
      BY <1>3, <1>4, <3>1, <3>2, <3>3, MemStep, Zenon DEF Clean
    <3>5. i \in mem'[f].made => Shut(mark, l, mem'[f])
      BY <1>3, <1>4, <1>5, <3>1, <3>3, <3>4, ShutStep, Zenon DEF Clean
    <3>6. QED
      BY <3>4, <3>5, Zenon DEF Clean
  <2>5. QED
    BY <2>2, <2>3, <2>4, Zenon
(* What is put back.                                                       *)
<1>19. Clean(mark, l, disk'[f], i)
  <2>1. CASE Writes(f)
    <3>1. disk'[f] = mem[f] /\ status = "run" /\ Here.op = "save" /\ Here.file = f
          /\ pc \in DOMAIN Code(script) /\ pc \in Nat
      BY <1>1, <2>1 DEF Writes, Goes
    <3>2. CASE pc = k
      <4>1. Inside(j, k) /\ Inside(c, k)
        BY <1>1, <3>1, <3>2, PlaceOrder, Zenon DEF Inside
      <4>2. QED
        BY <3>1, <4>1, Zenon DEF SealedInv, Clean
    <3>3. CASE pc # k
      <4>1. pc \in Ops(script, {"save"}) /\ Code(script)[pc].file = f
        BY <3>1, Zenon DEF Ops, Here
      <4>2. \/ \E p \in 1 .. pc - 1 : Segment(script, f, p, pc)
            \/ Code(script)[pc - 1] = Create(f) /\ Code(script)[pc] = Save(f)
                 /\ Through(script, pc - 1, pc) /\ pc - 1 \in DOMAIN Code(script)
        BY <4>1, Zenon DEF OwnText
      <4>3. PICK p \in Nat : Owns(script, f, p, pc) /\ p \in DOMAIN Code(script) /\ p < pc
        <5>1. CASE \E p \in 1 .. pc - 1 : Segment(script, f, p, pc)
          <6>1. PICK p \in 1 .. pc - 1 : Segment(script, f, p, pc)
            BY <5>1, Zenon
          <6>2. p \in Nat /\ p \in DOMAIN Code(script) /\ p < pc
            BY <1>1, <3>1, EarlierPlace, Zenon
          <6>3. QED
            BY <6>1, <6>2, Zenon DEF Owns
        <5>2. CASE Code(script)[pc - 1] = Create(f) /\ Code(script)[pc] = Save(f)
                     /\ Through(script, pc - 1, pc) /\ pc - 1 \in DOMAIN Code(script)
          <6>1. pc - 1 \in Nat /\ pc - 1 < pc
            BY <1>1, <3>1, <5>2, EarlierPlace, Zenon
          <6>2. QED
            BY <5>2, <6>1, Zenon DEF Owns
        <5>3. QED
          BY <4>2, <5>1, <5>2, Zenon
      <4>4. Inside(p, pc)
        BY <3>1, <4>3, PlaceOrder, Zenon DEF Inside
      <4>5. Clean(mark, l, mem[f], i)
        BY <3>1, <3>3, <4>3, <4>4, Zenon DEF SealedInv
      <4>6. QED
        BY <3>1, <4>5, Zenon
    <3>4. QED
      BY <3>2, <3>3, Zenon
  <2>2. CASE Truncates(f)
    <3>1. disk'[f].made = {} /\ disk'[f].again = {}
      BY <2>2, EmptyParts, Zenon DEF Truncates
    <3>2. QED
      BY <3>1, Zenon DEF Clean
  <2>3. CASE ~Writes(f) /\ ~Truncates(f)
    <3>1. disk'[f] = disk[f]
      BY <1>4, <2>3, Zenon DEF Effect, Restarts, Halts, Passes, Loads, Puts, Composes, Elsewhere
    <3>2. QED
      BY <3>1, Zenon DEF SealedInv
  <2>4. QED
    BY <2>1, <2>2, <2>3, Zenon
<1>20. QED
  <2>1. \A p, q \in Nat :
          Owns(script', f, p, q) /\ p \in DOMAIN Code(script') /\ q # k /\ Inside(p, q)' =>
            Clean(mark, l, mem'[f], i)
    BY <1>4, <1>18, Zenon
  <2>2. QED
    BY <1>10, <1>12, <1>13, <1>14, <1>15, <1>16, <1>17, <1>19, <2>1, Zenon DEF SealedInv

-----------------------------------------------------------------------------
(* All edits of the script together.                                       *)

(* Only an edit of a file is made twice in it.                             *)
Again(f) ==
  \A i \in disk[f].again \cup mem[f].again : i \in Edits(script) /\ Code(script)[i].file = f

AllMarked ==
  \A i \in Edits(script) : \A j \in 1 .. i :
    Marked(script, j, i) => MarkedInv(FileOf(script, i), LitOf(script, j), j, i)

AllGated ==
  \A i, c \in Edits(script) : \A j, k \in 1 .. i :
    Gated(script, i, j, c, k) =>
      GatedInv(FileOf(script, c), FileOf(script, i), LitOf(script, j),
               AllOf(script, c), j, c, k, i)

IsSealed(mark, i, b, j, c, k) ==
  /\ OwnText(script, FileOf(script, i)) /\ Sealed(script, i, b, j, c, k)
  /\ IF mark THEN Brings(script, j, c, k) ELSE UsesUp(script, j, c, k)

AllSealed ==
  \A mark \in BOOLEAN : \A i, c \in Edits(script) : \A b, j, k \in DOMAIN Code(script) :
    IsSealed(mark, i, b, j, c, k) =>
      SealedInv(FileOf(script, i), LitOf(script, j), mark, AllOf(script, c),
                AnchorOf(script, c), b, j, c, k, i)

OnceInv ==
  /\ \A f \in Files(script) : Again(f)
  /\ AllMarked /\ AllGated /\ AllSealed

LEMMA AgainStep ==
  ASSUME TypeOK, Next, NEW f \in Files(script), Again(f)
  PROVE  Again(f)'
<1>1. Effect(f) /\ script' = script
  BY Effects, TextsStep, Zenon DEF Effect
<1>2. CASE Restarts(f) \/ Halts(f) \/ Passes(f) \/ Loads(f) \/ Writes(f) \/ Elsewhere(f)
  <2>1. disk'[f] \in {disk[f], mem[f]} /\ mem'[f] \in {disk[f], mem[f]}
    BY <1>2, Zenon DEF Restarts, Halts, Passes, Loads, Writes, Elsewhere
  <2>2. QED
    BY <1>1, <2>1, Zenon DEF Again
<1>3. CASE Truncates(f)
  <2>1. disk'[f].again = {} /\ mem'[f] = mem[f]
    BY <1>3 DEF Truncates, Empty, Text
  <2>2. QED
    BY <1>1, <2>1, Zenon DEF Again
<1>4. CASE Composes(f)
  <2>1. mem'[f].again = {} /\ disk'[f] = disk[f]
    BY <1>4 DEF Composes, Text
  <2>2. QED
    BY <1>1, <2>1, Zenon DEF Again
<1>5. CASE Puts(f)
  <2>1. disk'[f] = disk[f] /\ mem'[f] = Replaced(mem[f], Here.edit, pc) /\ Here.op = "put"
        /\ Here.file = f /\ pc \in 1 .. Len(Code(script))
    BY <1>5, Zenon DEF Puts, Goes
  <2>2. mem'[f].again \subseteq mem[f].again \cup {pc}
    BY <2>1 DEF Replaced, Text
  <2>3. pc \in Edits(script) /\ Code(script)[pc].file = f
    BY <2>1, LenFacts, Zenon DEF Edits, Ops, Here, TypeOK
  <2>4. QED
    BY <1>1, <2>1, <2>2, <2>3, Zenon DEF Again
<1>6. QED
  BY <1>1, <1>2, <1>3, <1>4, <1>5, Zenon DEF Effect

LEMMA OnceStep ==
  ASSUME TypeOK, OnceInv, [Next]_vars
  PROVE  OnceInv'
<1>1. CASE Next
  <2>1. script' = script
    BY <1>1, TextsStep, Zenon
  <2>2. (\A f \in Files(script) : Again(f))'
    BY <1>1, <2>1, AgainStep, Zenon DEF OnceInv
  <2>3. AllMarked'
    BY <1>1, <2>1, MarkedStep, Zenon DEF OnceInv, AllMarked
  <2>4. AllGated'
    BY <1>1, <2>1, GatedStep, Zenon DEF OnceInv, AllGated
  <2>5. AllSealed'
    <3>1. ASSUME NEW mark \in BOOLEAN, NEW i \in Edits(script), NEW c \in Edits(script),
                 NEW b \in DOMAIN Code(script), NEW j \in DOMAIN Code(script),
                 NEW k \in DOMAIN Code(script), IsSealed(mark, i, b, j, c, k)
          PROVE  SealedInv(FileOf(script, i), LitOf(script, j), mark,
                   AllOf(script, c), AnchorOf(script, c), b, j, c, k, i)'
      <4>1. SealedInv(FileOf(script, i), LitOf(script, j), mark,
                   AllOf(script, c), AnchorOf(script, c), b, j, c, k, i)
        BY <3>1, Zenon DEF OnceInv, AllSealed
      <4>2. /\ OwnText(script, FileOf(script, i)) /\ Sealed(script, i, b, j, c, k)
            /\ IF mark THEN Brings(script, j, c, k) ELSE UsesUp(script, j, c, k)
        BY <3>1, Zenon DEF IsSealed
      <4>3. QED
        BY <1>1, <2>1, <4>1, <4>2, SealedStep, Zenon
    <3>2. ASSUME NEW mark, NEW i, NEW c, NEW b, NEW j, NEW k
          PROVE  IsSealed(mark, i, b, j, c, k)' <=> IsSealed(mark, i, b, j, c, k)
      BY <2>1, SMT DEF IsSealed
    <3>3. QED
      BY <2>1, <3>2, <3>1, ZenonT(60) DEF AllSealed
  <2>6. QED
    BY <2>2, <2>3, <2>4, <2>5, Zenon DEF OnceInv
<1>2. CASE UNCHANGED vars
  <2>1. script' = script /\ disk' = disk /\ mem' = mem /\ pc' = pc /\ status' = status
    BY <1>2, Zenon DEF vars
  <2>2. (\A f \in Files(script) : Again(f))'
    BY <2>1, Zenon DEF OnceInv, Again
  <2>3. AllMarked'
    BY <2>1, Zenon DEF OnceInv, AllMarked, MarkedInv, Inside
  <2>4. AllGated'
    <3>1. ASSUME NEW f, NEW g, NEW a, NEW all, NEW j, NEW c, NEW k, NEW i,
                 GatedInv(f, g, a, all, j, c, k, i)
          PROVE  GatedInv(f, g, a, all, j, c, k, i)'
      BY <2>1, <3>1, Zenon DEF GatedInv, Inside
    <3>2. QED
      BY <2>1, <3>1, Zenon DEF OnceInv, AllGated
  <2>5. AllSealed'
    <3>1. ASSUME NEW f, NEW l, NEW mark, NEW all, NEW x, NEW b, NEW j, NEW c, NEW k, NEW i,
                 SealedInv(f, l, mark, all, x, b, j, c, k, i)
          PROVE  SealedInv(f, l, mark, all, x, b, j, c, k, i)'
      BY <2>1, <3>1, Zenon DEF SealedInv, Inside, Clean, Shut
    <3>2. ASSUME NEW mark, NEW i, NEW c, NEW b, NEW j, NEW k
          PROVE  IsSealed(mark, i, b, j, c, k)' <=> IsSealed(mark, i, b, j, c, k)
      BY <2>1, SMT DEF IsSealed
    <3>3. ASSUME NEW mark \in BOOLEAN, NEW i \in Edits(script), NEW c \in Edits(script),
                 NEW b \in DOMAIN Code(script), NEW j \in DOMAIN Code(script),
                 NEW k \in DOMAIN Code(script), IsSealed(mark, i, b, j, c, k)
          PROVE  SealedInv(FileOf(script, i), LitOf(script, j), mark,
                   AllOf(script, c), AnchorOf(script, c), b, j, c, k, i)'
      BY <2>1, <3>1, <3>3, Zenon DEF OnceInv, AllSealed
    <3>4. QED
      BY <2>1, <3>2, <3>3, ZenonT(60) DEF AllSealed
  <2>6. QED
    BY <2>2, <2>3, <2>4, <2>5, Zenon DEF OnceInv
<1>3. QED
  BY <1>1, <1>2, Zenon

LEMMA OnceInit == Init => OnceInv
<1>1. SUFFICES ASSUME Init PROVE OnceInv
  OBVIOUS
<1>2. TypeOK /\ script \in Script /\ mem = disk /\ pc = 1
  BY <1>1, TypeInit, Zenon DEF Init
<1>3. \A f \in Files(script) : disk[f].made = {} /\ disk[f].again = {}
  BY <1>1, Zenon DEF Init, Found, Text
<1>4. ASSUME NEW j \in Nat, NEW i, j >= 1 PROVE ~Inside(j, i)
  BY <1>2, <1>4 DEF Inside
<1>5. ASSUME NEW i \in Edits(script) PROVE i \in DOMAIN Code(script) /\ i \in Nat /\ i >= 1
        /\ FileOf(script, i) \in Files(script)
  <2>1. i \in DOMAIN Code(script) /\ Code(script)[i].op = "put"
    BY <1>5, Zenon DEF Edits, Ops
  <2>2. StepFits(script, i)
    BY <1>2, <2>1, ScriptAssumption, Zenon
  <2>3. QED
    BY <1>2, <2>1, <2>2, LenFacts DEF StepFits, FileOf
<1>6. \A f \in Files(script) : Again(f)
  BY <1>2, <1>3, Zenon DEF Again
<1>7. AllMarked
  <2>1. SUFFICES ASSUME NEW i \in Edits(script), NEW j \in 1 .. i
                 PROVE  MarkedInv(FileOf(script, i), LitOf(script, j), j, i)
    BY Zenon DEF AllMarked
  <2>2. ~Inside(j, i)
    BY <1>4, <1>5
  <2>3. QED
    BY <1>2, <1>3, <1>5, <2>2, Zenon DEF MarkedInv
<1>8. AllGated
  <2>1. SUFFICES ASSUME NEW i \in Edits(script), NEW c \in Edits(script), NEW j \in 1 .. i,
                        NEW k \in 1 .. i
                 PROVE  GatedInv(FileOf(script, c), FileOf(script, i), LitOf(script, j),
                                 AllOf(script, c), j, c, k, i)
    BY Zenon DEF AllGated
  <2>2. ~Inside(j, i) /\ ~Inside(j, c) /\ ~Inside(c, k) /\ ~Inside(k, i)
    BY <1>4, <1>5
  <2>3. QED
    BY <1>2, <1>3, <1>5, <2>2, Zenon DEF GatedInv
<1>9. AllSealed
  <2>1. SUFFICES ASSUME NEW mark \in BOOLEAN, NEW i \in Edits(script), NEW c \in Edits(script),
                        NEW b \in DOMAIN Code(script), NEW j \in DOMAIN Code(script),
                        NEW k \in DOMAIN Code(script), IsSealed(mark, i, b, j, c, k)
                 PROVE  SealedInv(FileOf(script, i), LitOf(script, j), mark,
                          AllOf(script, c), AnchorOf(script, c), b, j, c, k, i)
    BY Zenon DEF AllSealed
  <2>2. b \in Nat /\ j \in Nat /\ b >= 1 /\ j >= 1
    BY <1>2, LenFacts
  <2>3. ~Inside(b, i) /\ ~Inside(b, j) /\ ~Inside(j, k) /\ ~Inside(j, i) /\ ~Inside(c, k)
        /\ ~Inside(j, c)
    BY <1>4, <1>5, <2>2, Zenon
  <2>4. mark => ~Inside(c - 1, c)
    <3>1. SUFFICES ASSUME mark = TRUE PROVE ~Inside(c - 1, c)
      BY Zenon
    <3>2. j < c - 1
      BY <2>1, <3>1, Zenon DEF IsSealed, Brings
    <3>3. c - 1 \in Nat /\ c - 1 >= 1
      BY <1>5, <2>2, <3>2
    <3>4. QED
      BY <1>4, <3>3, Zenon
  <2>5. ASSUME NEW p \in Nat, NEW q \in Nat, p \in DOMAIN Code(script) PROVE ~Inside(p, q)
    <3>1. p >= 1
      BY <1>2, <2>5, LenFacts
    <3>2. QED
      BY <1>4, <3>1, Zenon
  <2>6. Clean(mark, LitOf(script, j), disk[FileOf(script, i)], i)
    BY <1>3, <1>5, Zenon DEF Clean
  <2>7. QED
    BY <2>3, <2>4, <2>5, <2>6, Zenon DEF SealedInv
<1>10. QED
  BY <1>6, <1>7, <1>8, <1>9, Zenon DEF OnceInv

LEMMA OnceImplies == TypeOK /\ OnceInv => GuardedIsOnce
<1>1. SUFFICES ASSUME TypeOK, OnceInv, script \in DisciplinedScripts, NEW f \in DOMAIN disk,
                      NEW i \in disk[f].again
               PROVE  FALSE
  BY Zenon DEF GuardedIsOnce, MadeOnce
<1>2. f \in Files(script) /\ i \in Edits(script) /\ FileOf(script, i) = f
  BY <1>1, Zenon DEF TypeOK, OnceInv, Again, FileOf
<1>3. \/ \E j \in 1 .. i : Marked(script, j, i)
      \/ /\ OwnText(script, f)
         /\ \E b, j, k \in DOMAIN Code(script), c \in Edits(script) : Sealed(script, i, b, j, c, k)
      \/ \E j, k \in 1 .. i, c \in Edits(script) : Gated(script, i, j, c, k)
  <2>1. Disciplined(script)
    BY <1>1, Zenon DEF DisciplinedScripts
  <2>2. DOMAIN Code(script) = 1 .. Len(Code(script)) /\ Len(Code(script)) \in Nat
        /\ i \in 1 .. Len(Code(script))
    BY <1>2, LenFacts DEF TypeOK, Edits, Ops
  <2>3. 1 .. i \subseteq DOMAIN Code(script) /\ i .. Len(Code(script)) \subseteq DOMAIN Code(script)
        /\ \A b \in 1 .. i, k \in i .. Len(Code(script)) : b .. k \subseteq DOMAIN Code(script)
    BY <2>2
  <2>4. CASE \E j \in 1 .. i : Marked(script, j, i)
    BY <2>4, Zenon
  <2>5. CASE /\ OwnText(script, f)
             /\ \E b \in 1 .. i, k \in i .. Len(Code(script)) :
                  \E c \in Edits(script) \cap b .. k, j \in b .. k : Sealed(script, i, b, j, c, k)
    <3>1. PICK b \in 1 .. i, k \in i .. Len(Code(script)) :
                 \E c \in Edits(script) \cap b .. k, j \in b .. k : Sealed(script, i, b, j, c, k)
      BY <2>5, Zenon
    <3>2. PICK c \in Edits(script) \cap b .. k, j \in b .. k : Sealed(script, i, b, j, c, k)
      BY <3>1, Zenon
    <3>3. b \in DOMAIN Code(script) /\ k \in DOMAIN Code(script) /\ j \in DOMAIN Code(script)
          /\ c \in Edits(script)
      BY <2>3, <3>1, <3>2, Zenon
    <3>4. QED
      BY <2>5, <3>2, <3>3, Zenon
  <2>6. CASE \E k \in Ops(script, {"save"}) \cap 1 .. i, c \in Edits(script) \cap 1 .. i, j \in 1 .. i :
               Gated(script, i, j, c, k)
    BY <2>6, Zenon
  <2>7. QED
    BY <1>2, <2>1, <2>4, <2>5, <2>6, Zenon DEF Disciplined, FileOf
<1>4. CASE \E j \in 1 .. i : Marked(script, j, i)
  BY <1>1, <1>2, <1>4, Zenon DEF OnceInv, AllMarked, MarkedInv
<1>5. CASE /\ OwnText(script, f)
           /\ \E b, j, k \in DOMAIN Code(script), c \in Edits(script) :
                Sealed(script, i, b, j, c, k)
  <2>1. PICK b, j, k \in DOMAIN Code(script), c \in Edits(script) : Sealed(script, i, b, j, c, k)
    BY <1>5, Zenon
  <2>2. IsSealed(TRUE, i, b, j, c, k) \/ IsSealed(FALSE, i, b, j, c, k)
    BY <1>2, <1>5, <2>1, Zenon DEF IsSealed, Sealed
  <2>3. QED
    BY <1>1, <1>2, <2>2, Zenon DEF OnceInv, AllSealed, SealedInv, Clean
<1>6. CASE \E j, k \in 1 .. i, c \in Edits(script) : Gated(script, i, j, c, k)
  BY <1>1, <1>2, <1>6, Zenon DEF OnceInv, AllGated, GatedInv
<1>7. QED
  BY <1>3, <1>4, <1>5, <1>6, Zenon

(* A disciplined script never puts an edit into a file that has it         *)
(* already: over any sequence of runs, kills (inside write_text too) and   *)
(* reruns, and whatever tree it finds.                                     *)
THEOREM DisciplineWorks == Spec => []GuardedIsOnce
<1>1. TypeOK /\ OnceInv /\ [Next]_vars => (TypeOK /\ OnceInv)'
  BY TypeStep, OnceStep, Zenon
<1>2. Init => TypeOK /\ OnceInv
  BY TypeInit, OnceInit, Zenon
<1>3. QED
  BY <1>1, <1>2, OnceImplies, PTL DEF Spec


-----------------------------------------------------------------------------
(* A careful script that reports success has done all its work.            *)

(* The run is at a save of file f, which may be truncated.                 *)
Writing(f) ==
  status = "run" /\ pc \in 1 .. Len(Code(script)) /\ Here.op = "save" /\ Here.file = f

(* Work i that is behind the run is in the text, and on disk after its     *)
(* save k; work before it that the text has is on disk.                    *)
WorkInv(f, i, k) ==
  status = "run" =>
    /\ pc > i => i \in mem[f].made /\ (pc <= k \/ i \in disk[f].made \/ Writing(f))
    /\ pc <= i /\ i \in mem[f].made => i \in disk[f].made \/ Writing(f)

(* A mark comes with all the work it stands for, once the run is not       *)
(* inside it.                                                              *)
VouchInv(f, l, out) ==
  /\ disk[f].n[l] > 0 => out \subseteq disk[f].made
  /\ status = "run" /\ (\A i \in out : pc <= i) /\ mem[f].n[l] > 0 => out \subseteq mem[f].made

(* An anchor looked for is there until it is replaced.                     *)
SoughtInv(f, a, j, i) == Inside(j, i) => mem[f].n[a] > 0

AllWork ==
  \A i \in Work(script), k \in DOMAIN Code(script) :
    SavedBy(script, i, k) => WorkInv(FileOf(script, i), i, k)

AllVouched ==
  \A p \in Tests(script) :
    LeftOut(script, p) # {} => VouchInv(FileOf(script, p), LitOf(script, p), LeftOut(script, p))

AllSought ==
  \A i \in Edits(script), j \in DOMAIN Code(script) :
    SoughtBy(script, i, j) /\ AnchorOf(script, i) # 0 =>
      SoughtInv(FileOf(script, i), AnchorOf(script, i), j, i)

WholeInv ==
  /\ AllWork /\ AllVouched /\ AllSought
  /\ status = "ok" => Complete

LEMMA WorkFacts ==
  ASSUME script \in Script, NEW i \in Work(script)
  PROVE  /\ i \in DOMAIN Code(script) /\ i \in Nat /\ i >= 1
         /\ Code(script)[i].op \in {"put", "create"} /\ FileOf(script, i) \in Files(script)
<1>1. i \in DOMAIN Code(script) /\ Code(script)[i].op \in {"put", "create"}
  BY Zenon DEF Work, Ops
<1>2. StepFits(script, i)
  BY <1>1, ScriptAssumption, Zenon
<1>3. FileOf(script, i) \in Files(script)
  BY <1>1, <1>2, Zenon DEF StepFits, FileOf
<1>4. i \in Nat /\ i >= 1
  BY <1>1, LenFacts
<1>5. QED
  BY <1>1, <1>3, <1>4, Zenon

LEMMA SoughtStep ==
  ASSUME TypeOK, Next, NEW i \in Edits(script), NEW j \in DOMAIN Code(script),
         SoughtBy(script, i, j), NEW f, f = FileOf(script, i), NEW a, a = AnchorOf(script, i), a # 0,
         SoughtInv(f, a, j, i)
  PROVE  SoughtInv(f, a, j, i)'
<1>1. /\ script \in Script /\ i \in DOMAIN Code(script) /\ Code(script)[i].op = "put"
      /\ i \in Nat /\ j \in Nat /\ DOMAIN Code(script) = 1 .. Len(Code(script))
  BY LenFacts DEF Edits, Ops, TypeOK
<1>2. /\ j < i /\ FileOf(script, j) = f /\ LitOf(script, j) = a
      /\ Bars(script, j, i, 0) /\ Through(script, j, i)
      /\ \A p \in j + 1 .. i - 1 :
           Code(script)[p].file = f => Code(script)[p].op # "load" /\ a \notin Code(script)[p].edit.gone
  BY Zenon DEF SoughtBy, FileOf, LitOf, AnchorOf
<1>3. f \in Files(script) /\ a \in DOMAIN script.base[f]
  <2>1. StepFits(script, i)
    BY <1>1, ScriptAssumption, Zenon
  <2>2. QED
    BY <1>1, <2>1, Zenon DEF StepFits, FileOf, AnchorOf
<1>4. Effect(f)
  BY <1>3, Effects, Zenon DEF Effect
<1>5. SUFFICES ASSUME Inside(j, i)' PROVE mem'[f].n[a] > 0
  BY Zenon DEF SoughtInv
<1>6. (pc = j \/ Inside(j, i)) /\ status = "run" /\ pc \in Nat /\ pc' \in Nat
  BY <1>1, <1>2, <1>3, <1>4, <1>5, Came, Zenon
<1>7. CASE pc = j
  <2>1. Passes(f) /\ Seen # 0
    BY <1>1, <1>2, <1>3, <1>4, <1>5, <1>7, Barred, Zenon DEF Effect
  <2>2. Here.file = f /\ Here.lit = a /\ pc \in 1 .. Len(Code(script))
    BY <1>1, <1>2, <1>7, Zenon DEF Here, FileOf, LitOf
  <2>3. mem[f].n[a] \in Nat /\ (mem[f].n[a] = 0 => Seen = 0)
    BY <1>3, <1>6, <2>2, SeenCount, Zenon
  <2>4. mem'[f] = mem[f]
    BY <2>1, Zenon DEF Passes
  <2>5. QED
    BY <2>1, <2>3, <2>4
<1>8. CASE Inside(j, i) /\ pc # j
  <2>1. mem[f].n[a] > 0
    BY <1>8, Zenon DEF SoughtInv
  <2>2. pc # i
    BY <1>1, <1>3, <1>4, <1>5, <1>6, NotHere, Zenon
  <2>3. pc \in j + 1 .. i - 1
    BY <1>1, <1>6, <1>8, <2>2 DEF Inside
  <2>4. Here.file = f => Here.op # "load" /\ a \notin Here.edit.gone
    BY <1>2, <2>3, Zenon DEF Here
  <2>5. CASE Puts(f)
    <3>1. a \notin Here.edit.gone
      BY <2>4, <2>5, Zenon DEF Puts
    <3>2. mem'[f].n[a] \in Nat /\ mem'[f].n[a] >= mem[f].n[a] /\ mem[f].n[a] \in Nat
      BY <1>3, <2>5, <3>1, PutText, Zenon
    <3>3. QED
      BY <2>1, <3>2
  <2>6. CASE Composes(f)
    <3>1. mem'[f].n = mem[f].n
      BY <2>6 DEF Composes, Text
    <3>2. QED
      BY <2>1, <3>1, Zenon
  <2>7. CASE ~Puts(f) /\ ~Composes(f)
    <3>1. ~Restarts(f) /\ ~Loads(f)
      BY <1>6, <2>4, Zenon DEF Restarts, Loads, Goes
    <3>2. mem'[f] = mem[f]
      BY <1>4, <2>7, <3>1, Zenon DEF Effect, Halts, Passes, Truncates, Writes, Elsewhere
    <3>3. QED
      BY <2>1, <3>2, Zenon
  <2>8. QED
    BY <2>5, <2>6, <2>7, Zenon
<1>9. QED
  BY <1>6, <1>7, <1>8, Zenon

(* An edit of a careful script is made when the run comes to it.           *)
LEMMA PutIsMade ==
  ASSUME TypeOK, Careful(script), AllSought, NEW f \in Files(script), Puts(f)
  PROVE  mem'[f].made = mem[f].made \cup {pc}
<1>1. /\ Here.op = "put" /\ Here.file = f /\ mem'[f] = Replaced(mem[f], Here.edit, pc)
      /\ pc \in 1 .. Len(Code(script)) /\ status = "run"
  BY Zenon DEF Puts, Goes
<1>2. script \in Script /\ pc \in DOMAIN Code(script) /\ pc \in Edits(script) /\ pc \in Nat
  BY <1>1, LenFacts DEF Edits, Ops, Here, TypeOK
<1>3. CASE AnchorOf(script, pc) = 0
  <2>1. Here.edit.anchor = 0
    BY <1>3, Zenon DEF AnchorOf, Here
  <2>2. Times(mem[f].n, Here.edit) = 1
    BY <2>1, Zenon DEF Times
  <2>3. QED
    BY <1>1, <2>2 DEF Replaced, Text
<1>4. CASE AnchorOf(script, pc) # 0
  <2>1. PICK j \in 1 .. pc : SoughtBy(script, pc, j)
    BY <1>2, <1>4, Zenon DEF Careful, Sought, AnchorOf
  <2>2. j < pc /\ j \in DOMAIN Code(script)
    <3>1. j < pc
      BY <2>1, Zenon DEF SoughtBy
    <3>2. QED
      BY <1>1, <1>2, <2>1, <3>1, LenFacts
  <2>3. SoughtInv(FileOf(script, pc), AnchorOf(script, pc), j, pc)
    BY <1>2, <1>4, <2>1, <2>2, Zenon DEF AllSought
  <2>4. Inside(j, pc)
    BY <1>1, <1>2, <2>2 DEF Inside
  <2>5. Here.edit.anchor = AnchorOf(script, pc) /\ FileOf(script, pc) = f
    BY <1>1, Zenon DEF AnchorOf, FileOf, Here
  <2>6. mem[f].n[Here.edit.anchor] > 0
    BY <2>3, <2>4, <2>5, Zenon DEF SoughtInv
  <2>7. Here.edit.anchor \in DOMAIN script.base[f]
    <3>1. StepFits(script, pc)
      BY <1>2, ScriptAssumption, Zenon
    <3>2. QED
      BY <1>1, <1>4, <2>5, <3>1, Zenon DEF StepFits, Here
  <2>8. mem[f].n[Here.edit.anchor] # 0
    <3>1. mem[f].n[Here.edit.anchor] \in Nat
      BY <2>7, TypeText, Zenon DEF TextOK
    <3>2. QED
      BY <2>6, <3>1
  <2>9. QED
    BY <2>7, <2>8, PutText, Zenon
<1>5. QED
  BY <1>3, <1>4, Zenon

(* What a test leaves out when it sees its mark is in the text and on disk. *)
LEMMA LeftOutIsThere ==
  ASSUME TypeOK, Careful(script), AllWork, AllVouched, status = "run", pc \in Tests(script),
         Seen \in Here.when, NEW i \in LeftOut(script, pc)
  PROVE  i \in mem[FileOf(script, i)].made /\ i \in disk[FileOf(script, i)].made
<1> DEFINE f == Here.file
           l == Here.lit
<1>1. /\ script \in Script /\ pc \in DOMAIN Code(script) /\ Here.op \in {"stop", "jump"}
      /\ pc \in 1 .. Len(Code(script)) /\ pc \in Nat
  BY LenFacts DEF Tests, Ops, Here, TypeOK
<1>2. /\ l # 0 /\ Here.when = {1, 2}
      /\ \A x \in LeftOut(script, pc) : Code(script)[x].op = "put" /\ Code(script)[x].file = f
  BY Zenon DEF Careful, Vouched, Here
<1>3. f \in Files(script)
  <2>1. StepFits(script, pc)
    BY <1>1, ScriptAssumption, Zenon
  <2>2. QED
    BY <1>2, <2>1, Zenon DEF StepFits, Here
<1>4. mem[f].n[l] \in Nat /\ (mem[f].n[l] = 0 => Seen = 0)
  BY <1>1, <1>2, <1>3, SeenCount, Zenon
<1>5. mem[f].n[l] > 0
  BY <1>2, <1>4, SMTT(30), SMTT(60)
<1>6. \A x \in LeftOut(script, pc) : x \in Work(script) /\ pc <= x
  <2>1. \A x \in LeftOut(script, pc) : x \in Work(script) /\ x >= pc + 1
    BY DEF LeftOut
  <2>2. QED
    BY <1>1, <2>1, WorkFacts, SMTT(30), SMTT(60)
<1>7. VouchInv(f, l, LeftOut(script, pc))
  BY Zenon DEF AllVouched, FileOf, LitOf, Here
<1>8. i \in mem[f].made
  BY <1>5, <1>6, <1>7, Zenon DEF VouchInv
<1>9. FileOf(script, i) = f
  BY <1>2, Zenon DEF FileOf
<1>10. PICK k \in DOMAIN Code(script) : SavedBy(script, i, k)
  BY <1>6, Zenon DEF Careful
<1>11. WorkInv(f, i, k)
  BY <1>6, <1>9, <1>10, Zenon DEF AllWork
<1>12. ~Writing(f)
  BY <1>1, Zenon DEF Writing
<1>13. i \in disk[f].made
  BY <1>6, <1>8, <1>11, <1>12, Zenon DEF WorkInv
<1>14. QED
  BY <1>8, <1>9, <1>13, Zenon

(* Where a step that goes on comes to.                                     *)
LEMMA GoesOn ==
  ASSUME TypeOK, NEW f \in Files(script), Effect(f), status' = "run", ~Restarts(f)
  PROVE  /\ status = "run" /\ pc \in 1 .. Len(Code(script)) /\ pc \in Nat /\ pc' \in Nat /\ pc <= pc'
         /\ \/ pc' = pc + 1
            \/ pc' = pc /\ Here.op = "save"
            \/ Here.op = "jump" /\ pc' = Target(script, pc) /\ Seen \in Here.when
<1>1. status = "run" /\ pc \in 1 .. Len(Code(script))
  BY Zenon DEF Effect, Halts, Passes, Loads, Puts, Composes, Truncates, Writes, Elsewhere, Goes
<1>2. Target(script, pc) \in Nat /\ Target(script, pc) > pc /\ pc \in Nat
  BY <1>1, AtPlace DEF At
<1>3. \/ pc' = pc + 1
      \/ pc' = pc /\ Here.op = "save"
      \/ Here.op = "jump" /\ pc' = Target(script, pc) /\ Seen \in Here.when
  <2>1. CASE Passes(f)
    BY <2>1, Zenon DEF Passes
  <2>2. CASE Truncates(f)
    BY <2>2, Zenon DEF Truncates, Goes
  <2>3. CASE Elsewhere(f)
    BY <2>3, Zenon DEF Elsewhere
  <2>4. CASE Loads(f) \/ Puts(f) \/ Composes(f) \/ Writes(f)
    BY <2>4, Zenon DEF Loads, Puts, Composes, Writes
  <2>5. QED
    BY <2>1, <2>2, <2>3, <2>4, Zenon DEF Effect, Halts
<1>4. QED
  BY <1>1, <1>2, <1>3, SMTT(30), SMTT(60)

LEMMA WorkStep ==
  ASSUME TypeOK, Next, Careful(script), AllWork, AllVouched, AllSought,
         NEW i \in Work(script), NEW k \in DOMAIN Code(script), SavedBy(script, i, k),
         NEW f, f = FileOf(script, i)
  PROVE  WorkInv(f, i, k)'
<1>1. /\ script \in Script /\ DOMAIN Code(script) = 1 .. Len(Code(script)) /\ script' = script
      /\ i \in Nat /\ k \in Nat /\ i \in DOMAIN Code(script) /\ f \in Files(script)
      /\ Code(script)[i].op \in {"put", "create"}
  <2>1. script \in Script /\ script' = script
    BY TextsStep, Zenon DEF TypeOK
  <2>2. QED
    BY <2>1, LenFacts, WorkFacts
<1>2. /\ i < k /\ Code(script)[k].op = "save" /\ Code(script)[k].file = f
      /\ \A p \in i + 1 .. k - 1 :
           /\ Code(script)[p].op # "stop"
           /\ Code(script)[p].op = "jump" => Target(script, p) <= k
           /\ Code(script)[p].file = f => Code(script)[p].op \notin {"load", "create"}
  <2>1. i < k /\ Code(script)[k] = Save(f)
    BY Zenon DEF SavedBy, FileOf
  <2>2. Code(script)[k].op = "save" /\ Code(script)[k].file = f
    BY <2>1, FileSteps, Zenon
  <2>3. QED
    BY <2>1, <2>2, Zenon DEF SavedBy, FileOf
<1>3. Effect(f)
  BY <1>1, Effects, Zenon DEF Effect
<1>4. SUFFICES ASSUME status' = "run"
               PROVE  /\ pc' > i => i \in mem'[f].made
                                    /\ (pc' <= k \/ i \in disk'[f].made \/ Writing(f)')
                      /\ pc' <= i /\ i \in mem'[f].made => i \in disk'[f].made \/ Writing(f)'
  BY Zenon DEF WorkInv
<1>5. CASE Restarts(f)
  <2>1. pc' = 1 /\ mem'[f] = disk'[f]
    BY <1>5, Zenon DEF Restarts
  <2>2. ~(pc' > i)
    BY <1>1, <2>1
  <2>3. QED
    BY <2>1, <2>2, Zenon
<1>6. CASE ~Restarts(f)
  <2>1. /\ status = "run" /\ pc \in 1 .. Len(Code(script)) /\ pc \in Nat /\ pc' \in Nat /\ pc <= pc'
        /\ \/ pc' = pc + 1
           \/ pc' = pc /\ Here.op = "save"
           \/ Here.op = "jump" /\ pc' = Target(script, pc) /\ Seen \in Here.when
    BY <1>1, <1>3, <1>4, <1>6, GoesOn, Zenon
  <2>2. /\ pc > i => i \in mem[f].made /\ (pc <= k \/ i \in disk[f].made \/ Writing(f))
        /\ pc <= i /\ i \in mem[f].made => i \in disk[f].made \/ Writing(f)
    BY <2>1, Zenon DEF AllWork, WorkInv
  <2>3. Writing(f) <=> Here.op = "save" /\ Here.file = f
    BY <2>1, Zenon DEF Writing
  <2>4. /\ pc = i => Here.op \in {"put", "create"} /\ Here.file = f
        /\ pc = k => Here.op = "save" /\ Here.file = f
    BY <1>1, <1>2, Zenon DEF Here, FileOf
  <2>5. pc > i /\ pc < k =>
          /\ Here.op # "stop" /\ (Here.op = "jump" => Target(script, pc) <= k)
          /\ Here.file = f => Here.op \notin {"load", "create"}
    <3>1. pc > i /\ pc < k => pc \in i + 1 .. k - 1
      BY <1>1, <2>1, PlaceRange, Zenon
    <3>2. QED
      BY <1>2, <3>1, Zenon DEF Here
  <2>6. CASE Passes(f)
    <3>1. mem'[f] = mem[f] /\ disk'[f] = disk[f] /\ Here.op \in {"refuse", "stop", "jump"}
      BY <2>6, Zenon DEF Passes, Goes
    <3>2. ~Writing(f) /\ pc # i /\ pc # k
      BY <2>3, <2>4, <3>1, Zenon
    <3>3. CASE pc > i
      <4>1. pc' > i /\ ~(pc' <= i)
        BY <1>1, <2>1, <3>3, SMTT(30), SMTT(60)
      <4>2. i \in mem[f].made /\ (pc < k \/ i \in disk[f].made)
        BY <1>1, <2>1, <2>2, <3>2, <3>3, PlaceRange, Zenon
      <4>3. pc < k => pc' <= k
        BY <1>1, <2>1, <2>5, <3>1, <3>3, SMTT(30), SMTT(60)
      <4>4. QED
        BY <3>1, <4>1, <4>2, <4>3, Zenon
    <3>4. CASE pc < i /\ pc' <= i
      <4>1. ~(pc' > i) /\ pc <= i
        BY <1>1, <2>1, <3>4
      <4>2. QED
        BY <2>2, <3>1, <3>2, <4>1, Zenon
    <3>5. CASE pc < i /\ pc' > i
      <4>1. Here.op = "jump" /\ pc' = Target(script, pc) /\ Seen \in Here.when
        BY <1>1, <2>1, <3>1, <3>5, SMTT(30), SMTT(60)
      <4>2. pc \in Tests(script)
        BY <1>1, <2>1, <4>1, Zenon DEF Tests, Ops, Here
      <4>3. i \in pc + 1 .. Target(script, pc) - 1
        BY <1>1, <2>1, <3>5, <4>1, SMTT(30), SMTT(60)
      <4>4. i \in LeftOut(script, pc)
        BY <4>1, <4>3, Zenon DEF LeftOut, Here
      <4>5. i \in mem[f].made /\ i \in disk[f].made
        BY <2>1, <4>1, <4>2, <4>4, LeftOutIsThere, Zenon
      <4>6. QED
        BY <3>1, <4>5, Zenon
    <3>6. QED
      BY <1>1, <2>1, <3>2, <3>3, <3>4, <3>5, PlaceRange, Zenon
  <2>7. CASE Loads(f)
    <3>1. mem'[f] = disk[f] /\ disk'[f] = disk[f] /\ Here.op = "load" /\ Here.file = f /\ pc' = pc + 1
      BY <2>7, Zenon DEF Loads, Goes
    <3>2. ~Writing(f) /\ pc # i /\ pc # k
      BY <2>3, <2>4, <3>1, Zenon
    <3>3. CASE pc > i
      <4>1. ~(pc <= k)
        BY <1>1, <2>1, <2>5, <3>1, <3>2, <3>3, PlaceRange, Zenon
      <4>2. i \in disk[f].made
        BY <2>2, <3>2, <3>3, <4>1, Zenon
      <4>3. QED
        BY <3>1, <4>2, Zenon
    <3>4. CASE ~(pc > i)
      <4>1. ~(pc' > i)
        BY <1>1, <2>1, <3>1, <3>2, <3>4, PlaceRange, Zenon
      <4>2. QED
        BY <3>1, <4>1, Zenon
    <3>5. QED
      BY <3>3, <3>4, Zenon
  <2>8. CASE Puts(f)
    <3>1. disk'[f] = disk[f] /\ Here.op = "put" /\ Here.file = f /\ pc' = pc + 1
      BY <2>8, Zenon DEF Puts, Goes
    <3>2. mem'[f].made = mem[f].made \cup {pc}
      BY <1>1, <2>8, PutIsMade, Zenon
    <3>3. ~Writing(f) /\ pc # k
      BY <2>3, <2>4, <3>1, Zenon
    <3>4. CASE pc = i
      <4>1. pc' <= k /\ ~(pc' <= i)
        BY <1>1, <1>2, <2>1, <3>1, <3>4, PlaceRange, Zenon
      <4>2. QED
        BY <3>2, <3>4, <4>1, Zenon
    <3>5. CASE pc > i
      <4>1. ~(pc' <= i) /\ (pc <= k => pc' <= k)
        BY <1>1, <2>1, <3>1, <3>3, <3>5, SMTT(30), SMTT(60)
      <4>2. QED
        BY <2>2, <3>1, <3>2, <3>3, <3>5, <4>1, Zenon
    <3>6. CASE pc < i
      <4>1. ~(pc' > i) /\ pc <= i /\ pc # i
        BY <1>1, <2>1, <3>1, <3>6, SMTT(30), SMTT(60)
      <4>2. QED
        BY <2>2, <3>1, <3>2, <3>3, <4>1, Zenon
    <3>7. QED
      BY <1>1, <2>1, <3>4, <3>5, <3>6
  <2>9. CASE Composes(f)
    <3>1. Here.op = "create" /\ Here.file = f /\ pc' = pc + 1 /\ mem'[f].made = {pc}
      BY <2>9 DEF Composes, Goes, Text
    <3>2. pc \in Ops(script, {"create"})
      BY <1>1, <2>1, <3>1, Zenon DEF Ops, Here
    <3>3. pc = i
      BY <3>1, <3>2, Zenon DEF Careful, Alone, FileOf, Here
    <3>4. pc' <= k /\ ~(pc' <= i)
      BY <1>1, <1>2, <2>1, <3>1, <3>3
    <3>5. QED
      BY <3>1, <3>3, <3>4, Zenon
  <2>10. CASE Truncates(f)
    <3>1. pc' = pc /\ Here.op = "save" /\ Here.file = f /\ mem'[f] = mem[f]
      BY <2>10, Zenon DEF Truncates, Goes
    <3>2. Writing(f)'
      <4>1. Here' = Here
        BY <1>1, <3>1, Zenon DEF Here
      <4>2. QED
        BY <1>1, <1>4, <2>1, <3>1, <4>1, Zenon DEF Writing
    <3>3. QED
      BY <2>2, <3>1, <3>2, Zenon
  <2>11. CASE Writes(f)
    <3>1. disk'[f] = mem[f] /\ mem'[f] = mem[f] /\ pc' = pc + 1 /\ Here.op = "save"
      BY <2>11, Zenon DEF Writes, Goes
    <3>2. pc # i
      BY <2>4, <3>1, Zenon
    <3>3. pc' > i => pc > i
      BY <1>1, <2>1, <3>1, <3>2
    <3>4. QED
      BY <2>2, <3>1, <3>3, Zenon
  <2>12. CASE Elsewhere(f)
    <3>1. mem'[f] = mem[f] /\ disk'[f] = disk[f] /\ Here.file # f /\ (pc' = pc + 1 \/ pc' = pc)
      BY <2>12, Zenon DEF Elsewhere
    <3>2. ~Writing(f) /\ pc # i /\ pc # k
      BY <2>3, <2>4, <3>1, Zenon
    <3>3. (pc' > i => pc > i) /\ (pc' <= i => pc <= i) /\ (pc <= k => pc' <= k)
      BY <1>1, <2>1, <3>1, <3>2
    <3>4. QED
      BY <2>2, <3>1, <3>2, <3>3, Zenon
  <2>13. QED
    BY <1>3, <1>4, <1>6, <2>6, <2>7, <2>8, <2>9, <2>10, <2>11, <2>12, ZenonT(30), ZenonT(60) DEF Effect, Halts
<1>7. QED
  BY <1>5, <1>6, Zenon

LEMMA VouchStep ==
  ASSUME TypeOK, Next, Careful(script), AllWork, AllVouched, AllSought,
         NEW p \in Tests(script), NEW out, out = LeftOut(script, p), out # {},
         NEW f, f = FileOf(script, p), NEW l, l = LitOf(script, p)
  PROVE  VouchInv(f, l, out)'
<1>1. /\ script \in Script /\ DOMAIN Code(script) = 1 .. Len(Code(script))
      /\ p \in DOMAIN Code(script) /\ Vouched(script, p)
  BY LenFacts, Zenon DEF Tests, Ops, TypeOK, Careful
<1>2. /\ l # 0 /\ \A x \in out : Code(script)[x].op = "put" /\ Code(script)[x].file = f
      /\ \A x \in Edits(script) \ out : Code(script)[x].file = f => l \notin Code(script)[x].edit.come
      /\ \A k \in Ops(script, {"load", "save"}) :
           Code(script)[k].file = f => ~\E x, y \in out : x < k /\ k < y
  BY <1>1, Zenon DEF Vouched, FileOf, LitOf
<1>3. f \in Files(script) /\ l \in DOMAIN script.base[f]
  <2>1. StepFits(script, p)
    BY <1>1, ScriptAssumption, Zenon
  <2>2. QED
    BY <1>2, <2>1, Zenon DEF StepFits, FileOf, LitOf
<1>4. \A x \in out : x \in Work(script) /\ FileOf(script, x) = f /\ x \in Nat
  <2>1. \A x \in out : x \in Work(script)
    BY Zenon DEF LeftOut
  <2>2. QED
    BY <1>1, <1>2, <2>1, WorkFacts, Zenon DEF FileOf
<1>5. Effect(f)
  BY <1>3, Effects, Zenon DEF Effect
<1>6. VouchInv(f, l, out)
  BY Zenon DEF AllVouched
<1>7. CASE Restarts(f) \/ Loads(f)
  <2>1. mem'[f] = disk[f] /\ disk'[f] = disk[f]
    BY <1>7, Zenon DEF Restarts, Loads
  <2>2. QED
    BY <1>6, <2>1, Zenon DEF VouchInv
<1>8. CASE Halts(f)
  BY <1>6, <1>8, Zenon DEF VouchInv, Halts
<1>9. CASE /\ ~Restarts(f) /\ ~Loads(f) /\ ~Halts(f) /\ status' = "run"
  <2>1. /\ status = "run" /\ pc \in 1 .. Len(Code(script)) /\ pc \in Nat /\ pc' \in Nat /\ pc <= pc'
    BY <1>3, <1>5, <1>9, GoesOn, Zenon
  <2>2. (\A x \in out : pc' <= x) => \A x \in out : pc <= x
    BY <1>4, <2>1
  <2>3. CASE Passes(f) \/ Elsewhere(f)
    <3>1. mem'[f] = mem[f] /\ disk'[f] = disk[f]
      BY <2>3, Zenon DEF Passes, Elsewhere
    <3>2. QED
      BY <1>6, <2>1, <2>2, <3>1, Zenon DEF VouchInv
  <2>4. CASE Puts(f)
    <3>1. disk'[f] = disk[f] /\ Here.op = "put" /\ Here.file = f /\ pc' = pc + 1
      BY <2>4, Zenon DEF Puts, Goes
    <3>2. mem'[f].made = mem[f].made \cup {pc}
      BY <1>3, <2>4, PutIsMade, Zenon
    <3>3. ASSUME \A x \in out : pc' <= x, mem'[f].n[l] > 0
          PROVE  out \subseteq mem'[f].made
      <4>1. pc \notin out
        BY <1>4, <2>1, <3>1, <3>3, PlaceRange, Zenon
      <4>2. pc \in Edits(script)
        BY <1>1, <2>1, <3>1, Zenon DEF Edits, Ops, Here
      <4>3. l \notin Here.edit.come
        BY <1>2, <3>1, <4>1, <4>2, Zenon DEF Here
      <4>4. mem'[f].n[l] <= mem[f].n[l] /\ mem[f].n[l] \in Nat /\ mem'[f].n[l] \in Nat
        BY <1>3, <2>4, <4>3, PutText, Zenon
      <4>5. mem[f].n[l] > 0
        BY <3>3, <4>4
      <4>6. out \subseteq mem[f].made
        BY <1>6, <2>1, <2>2, <3>3, <4>5, Zenon DEF VouchInv
      <4>7. QED
        BY <3>2, <4>6, Zenon
    <3>4. QED
      BY <1>6, <3>1, <3>3, Zenon DEF VouchInv
  <2>5. CASE Composes(f)
    <3>1. Here.op = "create" /\ Here.file = f
      BY <2>5, Zenon DEF Composes, Goes
    <3>2. pc \in Ops(script, {"create"})
      BY <1>1, <2>1, <3>1, Zenon DEF Ops, Here
    <3>3. PICK x \in out : TRUE
      BY Zenon
    <3>4. x = pc
      BY <1>4, <3>1, <3>2, <3>3, Zenon DEF Careful, Alone, FileOf, Here
    <3>5. QED
      BY <1>2, <3>1, <3>3, <3>4, Zenon DEF Here
  <2>6. CASE Truncates(f)
    <3>1. pc' = pc /\ mem'[f] = mem[f] /\ disk'[f] = Empty(disk[f])
      BY <2>6, Zenon DEF Truncates
    <3>2. disk'[f].n[l] = 0
      BY <1>3, <3>1, TypeText, SMTT(30), SMTT(60) DEF Empty, Text, TextOK
    <3>3. ~(disk'[f].n[l] > 0)
      BY <3>2
    <3>4. QED
      BY <1>6, <2>1, <3>1, <3>3, Zenon DEF VouchInv
  <2>7. CASE Writes(f)
    <3>1. disk'[f] = mem[f] /\ mem'[f] = mem[f] /\ Here.op = "save" /\ Here.file = f
      BY <2>7, Zenon DEF Writes, Goes
    <3>2. pc \in Ops(script, {"load", "save"}) /\ pc \notin out
      BY <1>1, <1>2, <2>1, <3>1, Zenon DEF Ops, Here
    <3>3. (\A x \in out : pc <= x) \/ (\A x \in out : pc > x)
      <4>1. ~\E x, y \in out : x < pc /\ pc < y
        BY <1>2, <3>1, <3>2, Zenon DEF Here
      <4>2. QED
        BY <1>4, <2>1, <3>2, <4>1
    <3>4. ASSUME \A x \in out : pc > x, NEW x \in out PROVE x \in mem[f].made
      <4>1. PICK k \in DOMAIN Code(script) : SavedBy(script, x, k)
        BY <1>4, Zenon DEF Careful
      <4>2. WorkInv(f, x, k)
        BY <1>4, <4>1, Zenon DEF AllWork
      <4>3. QED
        BY <2>1, <3>4, <4>2, Zenon DEF WorkInv
    <3>5. mem[f].n[l] > 0 => out \subseteq mem[f].made
      BY <1>6, <2>1, <3>3, <3>4, Zenon DEF VouchInv
    <3>6. QED
      BY <3>1, <3>5, Zenon DEF VouchInv
  <2>8. QED
    BY <1>5, <1>9, <2>3, <2>4, <2>5, <2>6, <2>7, Zenon DEF Effect
<1>10. status' = "run" \/ Halts(f)
  BY <1>5, Zenon DEF Effect, Restarts, Passes, Loads, Puts, Composes, Truncates, Writes, Elsewhere, Goes
<1>11. QED
  BY <1>7, <1>8, <1>9, <1>10, ZenonT(30), ZenonT(60)

(* A run of a careful script ends well, by stop or at its end, only with   *)
(* all the work on disk.                                                   *)
LEMMA OkStep ==
  ASSUME TypeOK, Next, Careful(script), WholeInv, status' = "ok"
  PROVE  Complete'
<1>1. script \in Script /\ DOMAIN Code(script) = 1 .. Len(Code(script)) /\ Len(Code(script)) \in Nat
  BY LenFacts, Zenon DEF TypeOK
<1>2. \/ status = "ok" /\ UNCHANGED <<script, disk>>
      \/ status = "run" /\ pc > Len(Code(script)) /\ UNCHANGED <<script, disk>>
      \/ At("stop") /\ Seen \in Here.when /\ UNCHANGED <<script, disk>>
  BY Zenon DEF Next, Run, Read, Check, Branch, Leave, Replace, Compose, Truncate, Write, Finish, Kill,
               Rerun, AllDone, vars, To, End, At
<1>3. CASE status = "ok" /\ UNCHANGED <<script, disk>>
  BY <1>3, Zenon DEF WholeInv, Complete
<1>4. SUFFICES ASSUME status = "run", UNCHANGED <<script, disk>>, NEW i \in Work(script),
                      pc > Len(Code(script)) \/ (At("stop") /\ Seen \in Here.when)
               PROVE  i \in disk[FileOf(script, i)].made
  BY <1>2, <1>3, Zenon DEF Complete, FileOf, At
<1>5. /\ i \in DOMAIN Code(script) /\ i \in Nat /\ Code(script)[i].op \in {"put", "create"}
      /\ pc \in Nat
  BY <1>1, WorkFacts DEF TypeOK
<1>6. PICK k \in DOMAIN Code(script) : SavedBy(script, i, k)
  BY Zenon DEF Careful
<1>7. WorkInv(FileOf(script, i), i, k) /\ k \in Nat /\ k <= Len(Code(script))
  BY <1>1, <1>6, SMTT(30), SMTT(60) DEF WholeInv, AllWork
<1>8. ~Writing(FileOf(script, i))
  BY <1>1, <1>4, <1>5 DEF Writing, At
<1>9. CASE pc > i
  <2>1. ~(pc <= k)
    <3>1. SUFFICES ASSUME pc <= k PROVE FALSE
      BY Zenon
    <3>2. At("stop")
      BY <1>1, <1>4, <1>5, <1>7, <3>1
    <3>3. Code(script)[pc].op = "stop"
      BY <3>2, Zenon DEF At, Here
    <3>4. Code(script)[k].op = "save"
      BY <1>6, FileSteps, Zenon DEF SavedBy
    <3>5. pc \in i + 1 .. k - 1
      BY <1>5, <1>7, <1>9, <3>1, <3>3, <3>4, SMTT(30), SMTT(60)
    <3>6. QED
      BY <1>6, <3>3, <3>5, Zenon DEF SavedBy
  <2>2. QED
    BY <1>4, <1>7, <1>8, <1>9, <2>1, Zenon DEF WorkInv
<1>10. CASE ~(pc > i)
  <2>1. At("stop") /\ Seen \in Here.when
    BY <1>1, <1>4, <1>5, <1>10, SMTT(30), SMTT(60)
  <2>2. Here.op = "stop" /\ pc \in DOMAIN Code(script)
    BY <1>1, <1>5, <1>10, <2>1, SMTT(30), SMTT(60) DEF At, TypeOK
  <2>3. pc \in Tests(script) /\ pc # i
    BY <1>5, <2>2, Zenon DEF Tests, Ops, Here
  <2>4. i \in pc + 1 .. Len(Code(script))
    BY <1>1, <1>5, <1>10, <2>3
  <2>5. i \in LeftOut(script, pc)
    BY <2>2, <2>4, Zenon DEF LeftOut, Here
  <2>6. QED
    BY <1>4, <2>1, <2>3, <2>5, LeftOutIsThere, Zenon DEF WholeInv
<1>11. QED
  BY <1>9, <1>10, Zenon

(* The script and the tree it found stay.                                  *)
Applies == script \in CarefulScripts /\ ~ForeignMark

LEMMA WholeStep ==
  ASSUME TypeOK, Applies => WholeInv, [Next]_vars
  PROVE  (Applies => WholeInv)'
<1>1. CASE Next
  <2>1. script' = script /\ drift' = drift
    BY <1>1, TextsStep, Zenon
  <2>2. Applies' <=> Applies
    BY <2>1, Zenon DEF Applies, ForeignMark
  <2>3. SUFFICES ASSUME Applies, WholeInv PROVE WholeInv'
    BY <2>2, Zenon
  <2>4. Careful(script)
    BY <2>3, Zenon DEF Applies, CarefulScripts
  <2>5. AllWork'
    BY <1>1, <2>1, <2>3, <2>4, WorkStep, Zenon DEF AllWork, WholeInv
  <2>6. AllVouched'
    BY <1>1, <2>1, <2>3, <2>4, VouchStep, Zenon DEF AllVouched, WholeInv
  <2>7. AllSought'
    BY <1>1, <2>1, <2>3, SoughtStep, Zenon DEF AllSought, WholeInv
  <2>8. (status = "ok" => Complete)'
    BY <1>1, <2>3, <2>4, OkStep, Zenon
  <2>9. QED
    BY <2>5, <2>6, <2>7, <2>8, Zenon DEF WholeInv
<1>2. CASE UNCHANGED vars
  <2>1. script' = script /\ drift' = drift /\ disk' = disk /\ mem' = mem /\ pc' = pc /\ status' = status
    BY <1>2, Zenon DEF vars
  <2>2. Here' = Here
    BY <2>1, Zenon DEF Here
  <2>3. \A f, i, k : WorkInv(f, i, k) => WorkInv(f, i, k)'
    BY <2>1, <2>2, ZenonT(30), ZenonT(60) DEF WorkInv, Writing
  <2>4. \A f, l, out : VouchInv(f, l, out) => VouchInv(f, l, out)'
    BY <2>1, Zenon DEF VouchInv
  <2>5. \A f, a, j, i : SoughtInv(f, a, j, i) => SoughtInv(f, a, j, i)'
    BY <2>1, Zenon DEF SoughtInv, Inside
  <2>6. AllWork => AllWork'
    BY <2>1, <2>3, Zenon DEF AllWork
  <2>7. AllVouched => AllVouched'
    BY <2>1, <2>4, Zenon DEF AllVouched
  <2>8. AllSought => AllSought'
    BY <2>1, <2>5, Zenon DEF AllSought
  <2>9. (status = "ok" => Complete) => (status = "ok" => Complete)'
    BY <2>1, Zenon DEF Complete
  <2>10. QED
    BY <2>1, <2>6, <2>7, <2>8, <2>9, Zenon DEF Applies, ForeignMark, WholeInv
<1>3. QED
  BY <1>1, <1>2, Zenon

LEMMA WholeInit == Init => (Applies => WholeInv)
<1>1. SUFFICES ASSUME Init, Applies PROVE WholeInv
  BY Zenon
<1>2. /\ script \in Script /\ mem = disk /\ pc = 1 /\ status = "run" /\ Careful(script)
      /\ drift \in Drifts(script) /\ disk = Found(script, drift)
  BY <1>1, Zenon DEF Init, Applies, CarefulScripts
<1>3. \A f \in Files(script) : disk[f].made = {} /\ DOMAIN script.base[f] = DOMAIN disk[f].n
  BY <1>2, Zenon DEF Found, Text
<1>4. AllWork
  <2>1. SUFFICES ASSUME NEW i \in Work(script), NEW k PROVE WorkInv(FileOf(script, i), i, k)
    BY Zenon DEF AllWork
  <2>2. FileOf(script, i) \in Files(script) /\ i \in Nat /\ i >= 1
    BY <1>2, WorkFacts, Zenon
  <2>3. ~(pc > i)
    BY <1>2, <2>2
  <2>4. i \notin mem[FileOf(script, i)].made
    BY <1>2, <1>3, <2>2, Zenon
  <2>5. QED
    BY <2>3, <2>4, Zenon DEF WorkInv
<1>5. AllVouched
  <2>1. SUFFICES ASSUME NEW p \in Tests(script), LeftOut(script, p) # {}
                 PROVE  VouchInv(FileOf(script, p), LitOf(script, p), LeftOut(script, p))
    BY Zenon DEF AllVouched
  <2> DEFINE f == FileOf(script, p)
             l == LitOf(script, p)
  <2>2. l # 0 /\ script.base[f][l] = 0
    BY <1>2, <2>1, Zenon DEF Careful, Vouched, FileOf, LitOf
  <2>3. f \in Files(script) /\ l \in DOMAIN script.base[f] /\ f # 0
    <3>1. StepFits(script, p)
      BY <1>2, ScriptAssumption, Zenon DEF Tests, Ops
    <3>2. 0 \notin Files(script)
      BY <1>2, ScriptAssumption, Zenon
    <3>3. QED
      BY <2>2, <3>1, <3>2, Zenon DEF StepFits, FileOf, LitOf
  <2>4. drift.file = f /\ drift.lit = l => drift.n = 0
    <3>1. SUFFICES ASSUME drift.file = f, drift.lit = l PROVE drift.n = 0
      BY Zenon
    <3>2. drift # NoDrift
      BY <2>3, <3>1, SMTT(30), SMTT(60) DEF NoDrift
    <3>3. drift.n \in {0, 2}
      BY <1>2, <3>2 DEF Drifts
    <3>4. drift.n # 2
      BY <1>1, <3>1, Zenon DEF Applies, ForeignMark, FileOf, LitOf
    <3>5. QED
      BY <3>3, <3>4, Zenon
  <2>5. disk[f].n[l] = 0
    BY <1>2, <2>2, <2>3, <2>4, Zenon DEF Found, Text
  <2>6. ~(disk[f].n[l] > 0) /\ ~(mem[f].n[l] > 0)
    BY <1>2, <2>5
  <2>7. QED
    BY <2>6, Zenon DEF VouchInv
<1>6. AllSought
  <2>1. SUFFICES ASSUME NEW i \in Edits(script), NEW j \in DOMAIN Code(script) PROVE ~Inside(j, i)
    BY Zenon DEF AllSought, SoughtInv
  <2>2. j \in Nat /\ j >= 1
    BY <1>2, LenFacts
  <2>3. QED
    BY <1>2, <2>2 DEF Inside
<1>7. QED
  BY <1>2, <1>4, <1>5, <1>6, Zenon DEF WholeInv

(* When a careful script reports success, all its edits are in the files:  *)
(* over any sequence of runs, kills (inside write_text too) and reruns,    *)
(* for every script, and for every tree that has no mark of it.            *)
THEOREM CarefulScriptsFinish == Spec => []CarefulIsComplete
<1>1. TypeOK /\ (Applies => WholeInv) /\ [Next]_vars => (TypeOK /\ (Applies => WholeInv))'
  BY TypeStep, WholeStep, Zenon
<1>2. Init => TypeOK /\ (Applies => WholeInv)
  BY TypeInit, WholeInit, Zenon
<1>3. TypeOK /\ (Applies => WholeInv) => CarefulIsComplete
  BY Zenon DEF Applies, WholeInv, CarefulIsComplete
<1>4. QED
  BY <1>1, <1>2, <1>3, PTL DEF Spec

=============================================================================

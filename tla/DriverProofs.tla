---------------------------- MODULE DriverProofs ----------------------------
(***************************************************************************)
(* Drivers that share /tmp do not disturb one another, for any number of   *)
(* drivers, temporary names and inputs.  The invariants of Driver are not  *)
(* inductive: that the assembler reads what the compiler wrote for this    *)
(* unit depends on no other driver, and no other variable of this one,     *)
(* naming the same file.  PInv(p) says which temporaries driver p holds at *)
(* each statement, that it created them, and what is in them.  The second  *)
(* half of the module is about how a driver ends: with the status its      *)
(* tools earned, the output it was asked for and nothing left in /tmp.     *)
(***************************************************************************)
EXTENDS Driver, TLAPS

(* The statements of compile_c_to_object, and those among them at which    *)
(* temp_s and temp_i are live.                                             *)
Unit == {"mk_s", "mk_i", "cpp", "cc", "drop_i", "as", "drop_s", "ret"}

HoldsS(p) == job[p].mode # "S" /\ pc[p] \in {"mk_i", "cpp", "cc", "drop_i", "as", "drop_s"}

HoldsI(p) == job[p].mode # "S" /\ pc[p] \in {"cpp", "cc", "drop_i"}

Control(p) ==
  /\ pc[p] = "main" => idx[p] = 1 /\ linkIn[p] = << >>
  /\ job[p].mode = "S" => pc[p] \in {"main", "cc", "done", "exit", "killed"}
  /\ job[p].mode = "c" => pc[p] \notin {"loop", "ld", "chmod"}
  /\ job[p].mode = "c" /\ pc[p] \in Unit => idx[p] = 1
  /\ job[p].mode = "link" /\ pc[p] \in Unit =>
       /\ idx[p] <= Len(job[p].inputs)
       /\ job[p].inputs[idx[p]] = "c"
       /\ objs[p] # << >>

Holds(p) ==
  /\ \A i \in 1 .. Len(objs[p]) : tmp[objs[p][i]].by = p
  /\ \A i, j \in 1 .. Len(objs[p]) : i # j => objs[p][i] # objs[p][j]
  /\ HoldsS(p) =>
       /\ ts[p] \in TempName
       /\ tmp[ts[p]].by = p
       /\ \A i \in 1 .. Len(objs[p]) : objs[p][i] # ts[p]
  /\ HoldsI(p) =>
       /\ ti[p] \in TempName
       /\ tmp[ti[p]].by = p
       /\ ti[p] # ts[p]
       /\ \A i \in 1 .. Len(objs[p]) : objs[p][i] # ti[p]

Contents(p) ==
  /\ pc[p] = "cc" /\ job[p].mode # "S" => tmp[ti[p]] = File(p, "i", <<p, idx[p]>>)
  /\ pc[p] = "drop_i" /\ status[p] = 0 => tmp[ts[p]] = File(p, "s", <<p, idx[p]>>)
  /\ pc[p] = "as" => tmp[ts[p]] = File(p, "s", <<p, idx[p]>>)
  /\ pc[p] \in {"drop_s", "ret"} /\ status[p] = 0 /\ job[p].mode = "link" =>
       tmp[ObjectPath(p)] = File(p, "o", <<p, idx[p]>>)

LinkInput(p, k) ==
  IF job[p].inputs[k] = "o"
  THEN linkIn[p][k] = NoTemp
  ELSE /\ \E i \in 1 .. Len(objs[p]) :
            linkIn[p][k] = objs[p][i] /\ (pc[p] \in Unit => i < Len(objs[p]))
       /\ tmp[linkIn[p][k]] = File(p, "o", <<p, k>>)

Links(p) ==
  job[p].mode = "link" /\ pc[p] \in {"loop", "ld"} \cup Unit =>
    /\ Len(linkIn[p]) = idx[p] - 1
    /\ idx[p] <= Len(job[p].inputs) + 1
    /\ pc[p] = "ld" => idx[p] = Len(job[p].inputs) + 1
    /\ \A k \in 1 .. Len(linkIn[p]) : LinkInput(p, k)

Whole(p) == out[p].kind \in {"s", "o", "exe"} => out[p].srcs = AllSrcs(p)

PInv(p) == Control(p) /\ Holds(p) /\ Contents(p) /\ Links(p) /\ Whole(p)

DriverInv == TypeOK /\ \A p \in Proc : PInv(p)

-----------------------------------------------------------------------------

(* What acceptance by the option parser guarantees of a command line.      *)
LEMMA JobFacts ==
  ASSUME NEW j \in Jobs
  PROVE  /\ j.mode \in {"S", "c", "link"}
         /\ j.inputs \in Seq(InputKind)
         /\ Len(j.inputs) \in 1 .. MaxInputs
         /\ j.mode # "link" => Len(j.inputs) = 1
         /\ j.keep \in BOOLEAN
<1>1. j \in Job
  BY JobsAreAccepted, Zenon
<1>2. CASE j \in [mode : {"S", "c"}, inputs : [1 .. 1 -> InputKind], keep : BOOLEAN]
  BY <1>2, DriverConstants, SMTT(30), SMTT(60) DEF InputKind
<1>3. CASE j \in [mode : {"link"},
                  inputs : UNION {[1 .. k -> InputKind] : k \in 1 .. MaxInputs},
                  keep : BOOLEAN]
  <2>1. PICK k \in 1 .. MaxInputs : j.inputs \in [1 .. k -> InputKind]
    BY <1>3, Zenon
  <2>2. k \in Nat
    BY DriverConstants
  <2> QED
    BY <1>3, <2>1, <2>2, DriverConstants DEF InputKind
<1> QED
  BY <1>1, <1>2, <1>3, Zenon DEF Job

(* A step that leaves the variables of driver q and the files q created as *)
(* they are preserves q's part of the invariant.                           *)
LEMMA Frame ==
  ASSUME TypeOK, NEW q \in Proc, PInv(q),
         job' = job, pc'[q] = pc[q], idx'[q] = idx[q], status'[q] = status[q],
         ti'[q] = ti[q], ts'[q] = ts[q], objs'[q] = objs[q],
         linkIn'[q] = linkIn[q], out'[q] = out[q],
         \A n \in TempName : tmp[n].by = q => tmp'[n] = tmp[n]
  PROVE  PInv(q)'
<1>1. Control(q)' /\ Whole(q)'
  BY Zenon DEF PInv, Control, Whole, AllSrcs, Unit
<1>0. \A i \in 1 .. Len(objs[q]) : objs[q][i] \in TempName
  <2>1. objs[q] \in Seq(TempName)
    BY Zenon DEF TypeOK
  <2> QED
    BY <2>1
<1>2. Holds(q)'
  <2>1. \A i \in 1 .. Len(objs'[q]) : tmp'[objs'[q][i]].by = q
    BY <1>0 DEF PInv, Holds
  <2>2. HoldsS(q)' <=> HoldsS(q)
    BY Zenon DEF HoldsS
  <2>3. HoldsI(q)' <=> HoldsI(q)
    BY Zenon DEF HoldsI
  <2> QED
    BY <2>1, <2>2, <2>3 DEF PInv, Holds
<1>3. Contents(q)'
  BY DEF PInv, Holds, HoldsS, HoldsI, Control, Contents, TypeOK, ObjectPath, File, Unit
<1>4. Links(q)'
  BY DEF PInv, Links, LinkInput, TypeOK, File, Unit
<1> QED
  BY <1>1, <1>2, <1>3, <1>4, Zenon DEF PInv

(* What a step of driver p leaves alone: the variables of the other        *)
(* drivers and the files they created.                                     *)
Apart(p) ==
  /\ job' = job
  /\ \A q \in Proc \ {p} :
       /\ pc'[q] = pc[q] /\ idx'[q] = idx[q] /\ status'[q] = status[q]
       /\ ti'[q] = ti[q] /\ ts'[q] = ts[q] /\ objs'[q] = objs[q]
       /\ linkIn'[q] = linkIn[q] /\ out'[q] = out[q]
       /\ \A n \in TempName : tmp[n].by = q => tmp'[n] = tmp[n]

LEMMA Compose ==
  ASSUME DriverInv, NEW p \in Proc, TypeOK', Apart(p), PInv(p)'
  PROVE  DriverInv'
<1> SUFFICES ASSUME NEW q \in Proc, q # p
             PROVE  PInv(q)'
  BY Zenon DEF DriverInv
<1> QED
  BY Frame, Zenon DEF DriverInv, Apart

(* Going to `done` or ending: no temporary but the objects is held then.   *)
LEMMA Leave ==
  ASSUME DriverInv, NEW p \in Proc, TypeOK', Apart(p),
         pc'[p] \in {"done", "exit", "killed"},
         objs'[p] = objs[p], tmp' = tmp, Whole(p)'
  PROVE  DriverInv'
<1>1. PInv(p) /\ job' = job
  BY Zenon DEF DriverInv, Apart
<1>2. Control(p)' /\ Contents(p)' /\ Links(p)'
  BY <1>1, Zenon DEF PInv, Control, Contents, Links, Unit
<1>3. Holds(p)'
  BY <1>1, Zenon DEF PInv, Holds, HoldsS, HoldsI
<1> QED
  BY <1>1, <1>2, <1>3, Compose, Zenon DEF PInv

LEMMA LeaveSteps ==
  ASSUME DriverInv, NEW p \in Proc,
         MainFails(p) \/ LoopSourceFails(p) \/ Chmod(p) \/ Exit(p) \/ Kill(p)
  PROVE  DriverInv'
<1>1. TypeOK' /\ Apart(p)
  <2>1. CASE Chmod(p)
    BY <2>1, Zenon DEF DriverInv, TypeOK, Apart, Chmod, Goto, Label
  <2>2. CASE MainFails(p) \/ LoopSourceFails(p) \/ Exit(p) \/ Kill(p)
    BY <2>2, Zenon DEF DriverInv, TypeOK, Apart, MainFails, LoopSourceFails, Exit, Kill, Goto, Label
  <2> QED
    BY <2>1, <2>2, Zenon
<1>2. /\ pc'[p] \in {"done", "exit", "killed"}
      /\ UNCHANGED <<job, objs, tmp, out>>
  BY Zenon DEF DriverInv, TypeOK, MainFails, LoopSourceFails, Chmod, Exit, Kill, Goto
<1>3. Whole(p)'
  BY <1>2, Zenon DEF DriverInv, PInv, Whole, AllSrcs
<1> QED
  BY <1>1, <1>2, <1>3, Leave, Zenon

LEMMA MainStep ==
  ASSUME DriverInv, NEW p \in Proc, Main(p)
  PROVE  DriverInv'
<1>1. TypeOK' /\ Apart(p)
  BY Zenon DEF DriverInv, TypeOK, Apart, Main, Goto, Label
<1>2. /\ pc[p] = "main"
      /\ pc'[p] = IF job[p].mode = "S" THEN "cc" ELSE IF job[p].mode = "c" THEN "mk_s" ELSE "loop"
      /\ UNCHANGED <<job, idx, status, ti, ts, objs, linkIn, tmp, out>>
      /\ PInv(p) /\ job[p] \in Jobs
  BY Zenon DEF DriverInv, TypeOK, Main, Goto
<1>3. Control(p)'
  BY <1>2, JobFacts, Zenon DEF PInv, Control, Unit
<1>4. Holds(p)'
  BY <1>2, ZenonT(30), ZenonT(60) DEF PInv, Control, Holds, HoldsS, HoldsI
<1>5. Contents(p)' /\ Whole(p)'
  BY <1>2, Zenon DEF PInv, Contents, Whole, AllSrcs
<1>6. Links(p)'
  BY <1>2, JobFacts DEF PInv, Control, Links, Unit
<1> QED
  BY <1>1, <1>3, <1>4, <1>5, <1>6, Compose, Zenon DEF PInv

LEMMA LoopObjectStep ==
  ASSUME DriverInv, NEW p \in Proc, LoopObject(p)
  PROVE  DriverInv'
<1>1. /\ pc[p] = "loop" /\ pc'[p] = "loop"
      /\ idx[p] <= Len(job[p].inputs) /\ job[p].inputs[idx[p]] = "o"
      /\ linkIn'[p] = Append(linkIn[p], NoTemp)
      /\ idx'[p] = idx[p] + 1
      /\ UNCHANGED <<job, status, ti, ts, objs, tmp, out>>
      /\ PInv(p) /\ job[p] \in Jobs
      /\ idx[p] \in Nat /\ linkIn[p] \in Seq(TempName \cup {NoTemp})
  BY DEF DriverInv, TypeOK, LoopObject, Goto
<1>3. job[p].mode = "link" /\ Len(job[p].inputs) \in 1 .. MaxInputs
  BY <1>1, JobFacts, Zenon DEF PInv, Control
<1>2. TypeOK' /\ Apart(p)
  <2>1. idx[p] + 1 \in 1 .. MaxInputs + 1
    BY <1>1, <1>3, DriverConstants
  <2> QED
    BY <1>1, <2>1 DEF DriverInv, TypeOK, Apart, LoopObject, Goto, Label
<1>4. Control(p)' /\ Holds(p)' /\ Contents(p)' /\ Whole(p)'
  BY <1>1, <1>3, Zenon DEF PInv, Control, Holds, HoldsS, HoldsI, Contents, Whole, AllSrcs, Unit
<1>5. Links(p)'
  <2>1. Len(linkIn[p]) = idx[p] - 1
    BY <1>1, <1>3, Zenon DEF PInv, Links
  <2>2. Len(linkIn'[p]) = idx[p]
    BY <1>1, <2>1, SMTT(30), SMTT(60)
  <2>3. ASSUME NEW k \in 1 .. Len(linkIn'[p])
        PROVE  LinkInput(p, k)'
    <3>1. CASE k = idx[p]
      BY <1>1, <2>1, <3>1 DEF LinkInput
    <3>2. CASE k # idx[p]
      <4>1. k \in 1 .. Len(linkIn[p]) /\ linkIn'[p][k] = linkIn[p][k]
        BY <1>1, <2>1, <2>2, <3>2, SMTT(30), SMTT(60)
      <4>2. LinkInput(p, k)
        BY <1>1, <1>3, <4>1, Zenon DEF PInv, Links
      <4> QED
        BY <1>1, <4>1, <4>2, Zenon DEF LinkInput, File
    <3> QED
      BY <3>1, <3>2, Zenon
  <2> QED
    BY <1>1, <1>3, <2>2, <2>3 DEF Links
<1> QED
  BY <1>2, <1>4, <1>5, Compose, Zenon DEF PInv

LEMMA LoopEndStep ==
  ASSUME DriverInv, NEW p \in Proc, LoopEnd(p)
  PROVE  DriverInv'
<1>1. TypeOK' /\ Apart(p)
  BY Zenon DEF DriverInv, TypeOK, Apart, LoopEnd, Goto, Label
<1>2. /\ pc[p] = "loop" /\ pc'[p] = "ld"
      /\ idx[p] > Len(job[p].inputs)
      /\ UNCHANGED <<job, idx, status, ti, ts, objs, linkIn, tmp, out>>
      /\ PInv(p) /\ job[p] \in Jobs /\ idx[p] \in Nat
  BY DEF DriverInv, TypeOK, LoopEnd, Goto
<1>3. Control(p)' /\ Holds(p)' /\ Contents(p)' /\ Whole(p)'
  BY <1>2, Zenon DEF PInv, Control, Holds, HoldsS, HoldsI, Contents, Whole, AllSrcs, Unit
<1>4. Links(p)'
  BY <1>2, JobFacts DEF PInv, Control, Links, LinkInput, Unit
<1> QED
  BY <1>1, <1>3, <1>4, Compose, Zenon DEF PInv

(* mkstemp's new name is held by nobody, so the invariant of every driver  *)
(* survives; p holds it from now on.                                       *)
LEMMA Fresh ==
  ASSUME TypeOK, NEW p \in Proc, NEW n \in TempName, MakeTemp(p, n)
  PROVE  /\ tmp[n].by \notin Proc
         /\ tmp' \in [TempName -> TempFile]
         /\ tmp'[n].by = p
         /\ \A m \in TempName : tmp[m].by \in Proc => m # n /\ tmp'[m] = tmp[m]
BY DriverConstants DEF TypeOK, MakeTemp, Exists, Absent, File, TempFile, NoSrc

LEMMA ObjectNames ==
  ASSUME TypeOK, NEW p \in Proc
  PROVE  /\ objs[p] \in Seq(TempName)
         /\ Len(objs[p]) \in Nat
         /\ \A i \in 1 .. Len(objs[p]) : objs[p][i] \in TempName
<1>1. objs[p] \in Seq(TempName)
  BY Zenon DEF TypeOK
<1> QED
  BY <1>1

LEMMA LoopSourceStep ==
  ASSUME DriverInv, NEW p \in Proc, LoopSource(p)
  PROVE  DriverInv'
<1>1. PICK n \in TempName :
        /\ MakeTemp(p, n)
        /\ objs' = [objs EXCEPT ![p] = Append(@, n)]
  BY Zenon DEF LoopSource
<1>2. TypeOK /\ PInv(p) /\ job[p] \in Jobs
  BY Zenon DEF DriverInv, TypeOK
<1>3. /\ pc[p] = "loop" /\ pc'[p] = "mk_s"
      /\ idx[p] <= Len(job[p].inputs) /\ job[p].inputs[idx[p]] = "c"
      /\ objs'[p] = Append(objs[p], n)
      /\ UNCHANGED <<job, idx, status, ti, ts, linkIn, out>>
  BY <1>1, <1>2, Zenon DEF LoopSource, Goto, TypeOK
<1>4. /\ Len(objs[p]) \in Nat
      /\ Len(objs'[p]) = Len(objs[p]) + 1
      /\ objs'[p][Len(objs[p]) + 1] = n
      /\ \A i \in 1 .. Len(objs[p]) :
           objs'[p][i] = objs[p][i] /\ objs[p][i] # n /\ tmp'[objs[p][i]] = tmp[objs[p][i]]
  <2>1. \A i \in 1 .. Len(objs[p]) : tmp[objs[p][i]].by = p
    BY <1>2, Zenon DEF PInv, Holds
  <2> QED
    BY <1>1, <1>2, <1>3, <2>1, Fresh, ObjectNames, SMTT(30), SMTT(60)
<1>5. TypeOK' /\ Apart(p)
  BY <1>1, <1>2, <1>3, Fresh, SMTT(30), SMTT(60) DEF TypeOK, Apart, LoopSource, Goto, Label
<1>6. job[p].mode = "link"
  BY <1>2, <1>3, JobFacts, Zenon DEF PInv, Control
<1>7. Control(p)' /\ Contents(p)' /\ Whole(p)'
  <2>1. objs'[p] # << >>
    BY <1>4
  <2> QED
    BY <1>2, <1>3, <1>6, <2>1, Zenon DEF PInv, Control, Contents, Whole, AllSrcs, Unit
<1>8. Holds(p)'
  <2>1. tmp'[n].by = p
    BY <1>1, <1>2, Fresh, Zenon
  <2>2. ASSUME NEW i \in 1 .. Len(objs'[p])
        PROVE  tmp'[objs'[p][i]].by = p
    <3>1. i \in 1 .. Len(objs[p]) \/ i = Len(objs[p]) + 1
      BY <1>4
    <3> QED
      BY <1>2, <1>4, <2>1, <3>1, SMTT(30), SMTT(60) DEF PInv, Holds
  <2>3. ASSUME NEW i \in 1 .. Len(objs'[p]), NEW j \in 1 .. Len(objs'[p]), i # j
        PROVE  objs'[p][i] # objs'[p][j]
    <3>1. /\ i \in 1 .. Len(objs[p]) \/ i = Len(objs[p]) + 1
          /\ j \in 1 .. Len(objs[p]) \/ j = Len(objs[p]) + 1
      BY <1>4
    <3> QED
      BY <1>2, <1>4, <2>3, <3>1, SMTT(30), SMTT(60) DEF PInv, Holds
  <2> QED
    BY <1>3, <2>2, <2>3, Zenon DEF Holds, HoldsS, HoldsI
<1>9. Links(p)'
  <2>1. ASSUME NEW k \in 1 .. Len(linkIn[p])
        PROVE  LinkInput(p, k)'
    <3>1. LinkInput(p, k)
      BY <1>2, <1>3, <1>6, Zenon DEF PInv, Links
    <3>2. CASE job[p].inputs[k] = "o"
      BY <1>3, <3>1, <3>2, Zenon DEF LinkInput
    <3>3. CASE job[p].inputs[k] # "o"
      <4>1. PICK i \in 1 .. Len(objs[p]) : linkIn[p][k] = objs[p][i]
        BY <3>1, <3>3, Zenon DEF LinkInput
      <4>2. /\ i \in 1 .. Len(objs'[p]) /\ i < Len(objs'[p])
            /\ linkIn'[p][k] = objs'[p][i]
            /\ tmp'[linkIn'[p][k]] = tmp[linkIn[p][k]]
        BY <1>3, <1>4, <4>1
      <4> QED
        BY <1>3, <3>1, <3>3, <4>2, Zenon DEF LinkInput, File
    <3> QED
      BY <3>2, <3>3, Zenon
  <2> QED
    BY <1>2, <1>3, <1>6, <2>1, Zenon DEF PInv, Links, Unit
<1> QED
  BY <1>5, <1>7, <1>8, <1>9, Compose, Zenon DEF DriverInv, PInv

(* A step inside compile_c_to_object: what remains to show is what the     *)
(* step did to temp_s, temp_i and the file it wrote.                       *)
LEMMA UnitStep ==
  ASSUME DriverInv, NEW p \in Proc, TypeOK', Apart(p),
         job[p].mode # "S", pc[p] \in Unit, pc'[p] \in Unit,
         idx'[p] = idx[p], objs'[p] = objs[p], linkIn'[p] = linkIn[p],
         \A i \in 1 .. Len(objs[p]) :
           /\ tmp'[objs[p][i]].by = p
           /\ i < Len(objs[p]) => tmp'[objs[p][i]] = tmp[objs[p][i]],
         HoldsS(p)' =>
           /\ ts'[p] \in TempName /\ tmp'[ts'[p]].by = p
           /\ \A i \in 1 .. Len(objs[p]) : objs[p][i] # ts'[p],
         HoldsI(p)' =>
           /\ ti'[p] \in TempName /\ tmp'[ti'[p]].by = p /\ ti'[p] # ts'[p]
           /\ \A i \in 1 .. Len(objs[p]) : objs[p][i] # ti'[p],
         Contents(p)', Whole(p)'
  PROVE  DriverInv'
<1>1. PInv(p) /\ job' = job /\ TypeOK
  BY Zenon DEF DriverInv, Apart
<1>2. Control(p)'
  BY <1>1, Zenon DEF PInv, Control, Unit
<1>3. Holds(p)'
  BY <1>1, ZenonT(30), ZenonT(60) DEF PInv, Holds
<1>4. Links(p)'
  <2> SUFFICES ASSUME job[p].mode = "link"
               PROVE  Links(p)'
    BY <1>1, Zenon DEF Links
  <2>1. ASSUME NEW k \in 1 .. Len(linkIn[p])
        PROVE  LinkInput(p, k)'
    <3>1. LinkInput(p, k)
      BY <1>1, Zenon DEF PInv, Links
    <3>2. CASE job[p].inputs[k] = "o"
      BY <1>1, <3>1, <3>2, Zenon DEF LinkInput
    <3>3. CASE job[p].inputs[k] # "o"
      <4>1. PICK i \in 1 .. Len(objs[p]) : linkIn[p][k] = objs[p][i] /\ i < Len(objs[p])
        BY <3>1, <3>3, Zenon DEF LinkInput
      <4>2. tmp'[linkIn'[p][k]] = tmp[linkIn[p][k]]
        BY <4>1, Zenon
      <4> QED
        BY <1>1, <3>1, <3>3, <4>1, <4>2, Zenon DEF LinkInput, File
    <3> QED
      BY <3>2, <3>3, Zenon
  <2> QED
    BY <1>1, <2>1, Zenon DEF PInv, Links, Unit
<1> QED
  BY <1>2, <1>3, <1>4, Compose, Zenon DEF PInv

LEMMA MakeTempSStep ==
  ASSUME DriverInv, NEW p \in Proc, MakeTempS(p)
  PROVE  DriverInv'
<1>1. /\ TypeOK /\ PInv(p) /\ job[p].mode # "S" /\ pc[p] = "mk_s"
      /\ UNCHANGED <<job, idx, objs, linkIn, out>>
  BY Zenon DEF DriverInv, PInv, Control, MakeTempS, Goto
<1>2. Whole(p)'
  BY <1>1, Zenon DEF PInv, Whole, AllSrcs
<1>3. \A i \in 1 .. Len(objs[p]) : objs[p][i] \in TempName /\ tmp[objs[p][i]].by = p
  BY <1>1, ObjectNames, Zenon DEF PInv, Holds
<1>4. ASSUME NEW n \in TempName, MakeTemp(p, n), Goto(p, "mk_s", "mk_i"),
             ts' = [ts EXCEPT ![p] = n], UNCHANGED <<status, ti, failed>>
      PROVE  DriverInv'
  <2>1. TypeOK' /\ Apart(p)
    BY <1>1, <1>4, Fresh, SMTT(30), SMTT(60) DEF TypeOK, Apart, Goto, Label
  <2>2. pc'[p] = "mk_i" /\ ts'[p] = n
    BY <1>1, <1>4, Zenon DEF TypeOK, Goto
  <2>3. /\ tmp'[n].by = p
        /\ \A i \in 1 .. Len(objs[p]) : tmp'[objs[p][i]] = tmp[objs[p][i]] /\ objs[p][i] # n
    BY <1>1, <1>3, <1>4, Fresh
  <2>4. Contents(p)' /\ ~HoldsI(p)'
    BY <2>2, Zenon DEF Contents, HoldsI
  <2> QED
    BY <1>1, <1>2, <1>3, <2>1, <2>2, <2>3, <2>4, UnitStep, SMTT(30), SMTT(60) DEF Unit
<1>5. ASSUME Goto(p, "mk_s", "ret"), status' = [status EXCEPT ![p] = 1],
             UNCHANGED <<ti, ts, tmp, failed>>
      PROVE  DriverInv'
  <2>1. TypeOK' /\ Apart(p)
    BY <1>1, <1>5, Zenon DEF TypeOK, Apart, Goto, Label
  <2>2. pc'[p] = "ret" /\ status'[p] = 1
    BY <1>1, <1>5, Zenon DEF TypeOK, Goto
  <2>3. Contents(p)' /\ ~HoldsI(p)' /\ ~HoldsS(p)'
    BY <2>2 DEF Contents, HoldsI, HoldsS
  <2> QED
    BY <1>1, <1>2, <1>3, <1>5, <2>1, <2>2, <2>3, UnitStep, Zenon DEF Unit
<1> QED
  BY <1>4, <1>5, Zenon DEF MakeTempS

LEMMA MakeTempIStep ==
  ASSUME DriverInv, NEW p \in Proc, MakeTempI(p)
  PROVE  DriverInv'
<1>1. /\ TypeOK /\ PInv(p) /\ job[p].mode # "S" /\ pc[p] = "mk_i"
      /\ UNCHANGED <<job, idx, ts, objs, linkIn, out>>
  BY Zenon DEF DriverInv, PInv, Control, MakeTempI, Goto
<1>2. Whole(p)'
  BY <1>1, Zenon DEF PInv, Whole, AllSrcs
<1>3. \A i \in 1 .. Len(objs[p]) : objs[p][i] \in TempName /\ tmp[objs[p][i]].by = p
  BY <1>1, ObjectNames, Zenon DEF PInv, Holds
<1>4. /\ ts[p] \in TempName /\ tmp[ts[p]].by = p
      /\ \A i \in 1 .. Len(objs[p]) : objs[p][i] # ts[p]
  BY <1>1, Zenon DEF PInv, Holds, HoldsS
<1>5. ASSUME NEW n \in TempName, MakeTemp(p, n), Goto(p, "mk_i", "cpp"),
             ti' = [ti EXCEPT ![p] = n], UNCHANGED <<status, failed>>
      PROVE  DriverInv'
  <2>1. TypeOK' /\ Apart(p)
    BY <1>1, <1>5, Fresh, SMTT(30), SMTT(60) DEF TypeOK, Apart, Goto, Label
  <2>2. pc'[p] = "cpp" /\ ti'[p] = n
    BY <1>1, <1>5, Zenon DEF TypeOK, Goto
  <2>3. /\ tmp'[n].by = p /\ tmp'[ts[p]].by = p /\ n # ts[p]
        /\ \A i \in 1 .. Len(objs[p]) : tmp'[objs[p][i]] = tmp[objs[p][i]] /\ objs[p][i] # n
    BY <1>1, <1>3, <1>4, <1>5, Fresh
  <2>4. Contents(p)'
    BY <2>2, Zenon DEF Contents
  <2> QED
    BY <1>1, <1>2, <1>3, <1>4, <2>1, <2>2, <2>3, <2>4, UnitStep, SMTT(30), SMTT(60) DEF Unit
<1>6. ASSUME Goto(p, "mk_i", "drop_s"), status' = [status EXCEPT ![p] = 1],
             UNCHANGED <<ti, tmp, failed>>
      PROVE  DriverInv'
  <2>1. TypeOK' /\ Apart(p)
    BY <1>1, <1>6, Zenon DEF TypeOK, Apart, Goto, Label
  <2>2. pc'[p] = "drop_s" /\ status'[p] = 1
    BY <1>1, <1>6, Zenon DEF TypeOK, Goto
  <2>3. Contents(p)' /\ ~HoldsI(p)'
    BY <2>2 DEF Contents, HoldsI
  <2> QED
    BY <1>1, <1>2, <1>3, <1>4, <1>6, <2>1, <2>2, <2>3, UnitStep, Zenon DEF Unit
<1> QED
  BY <1>5, <1>6, Zenon DEF MakeTempI

(* Writing or unlinking a file that p created touches no other file.       *)
LEMMA WriteOwn ==
  ASSUME TypeOK, NEW p \in Proc, NEW m \in TempName, tmp[m].by = p,
         NEW f \in TempFile, tmp' = [tmp EXCEPT ![m] = f]
  PROVE  /\ tmp' \in [TempName -> TempFile]
         /\ tmp'[m] = f
         /\ \A n \in TempName : n # m => tmp'[n] = tmp[n]
         /\ \A q \in Proc \ {p}, n \in TempName : tmp[n].by = q => tmp'[n] = tmp[n]
BY Zenon DEF TypeOK

(* The facts about p's own temporaries that the tool steps share.          *)
LEMMA UnitFacts ==
  ASSUME DriverInv, NEW p \in Proc, pc[p] \in Unit, job[p].mode # "S"
  PROVE  /\ TypeOK /\ PInv(p)
         /\ <<p, idx[p]>> \in Src
         /\ \A i \in 1 .. Len(objs[p]) : objs[p][i] \in TempName /\ tmp[objs[p][i]].by = p
         /\ job[p].mode = "link" =>
              /\ Len(objs[p]) \in 1 .. Len(objs[p])
              /\ ObjectPath(p) = objs[p][Len(objs[p])]
              /\ \A i \in 1 .. Len(objs[p]) : i < Len(objs[p]) => objs[p][i] # ObjectPath(p)
<1>1. TypeOK /\ PInv(p) /\ job[p] \in Jobs /\ idx[p] \in 1 .. MaxInputs + 1
  BY Zenon DEF DriverInv, TypeOK
<1>2. <<p, idx[p]>> \in Src
  BY <1>1, JobFacts, DriverConstants DEF PInv, Control, Src
<1>3. \A i \in 1 .. Len(objs[p]) : objs[p][i] \in TempName /\ tmp[objs[p][i]].by = p
  BY <1>1, ObjectNames, Zenon DEF PInv, Holds
<1>4. ASSUME job[p].mode = "link"
      PROVE  Len(objs[p]) \in 1 .. Len(objs[p])
  <2>1. objs[p] # << >> /\ objs[p] \in Seq(TempName)
    BY <1>1, <1>4, ObjectNames, Zenon DEF PInv, Control
  <2> QED
    BY <2>1
<1>5. ASSUME job[p].mode = "link"
      PROVE  \A i \in 1 .. Len(objs[p]) : i < Len(objs[p]) => objs[p][i] # ObjectPath(p)
  BY <1>1, <1>4, <1>5 DEF PInv, Holds, ObjectPath
<1> QED
  BY <1>1, <1>2, <1>3, <1>4, <1>5, Zenon DEF ObjectPath

LEMMA RunCppStep ==
  ASSUME DriverInv, NEW p \in Proc, RunCpp(p)
  PROVE  DriverInv'
<1>1. /\ TypeOK /\ PInv(p) /\ job[p].mode # "S" /\ pc[p] = "cpp" /\ pc[p] \in Unit
      /\ UNCHANGED <<job, idx, ti, ts, objs, linkIn, out>>
  BY Zenon DEF DriverInv, PInv, Control, RunCpp, Goto, Unit
<1>2. Whole(p)'
  BY <1>1, Zenon DEF PInv, Whole, AllSrcs
<1>3. /\ <<p, idx[p]>> \in Src
      /\ \A i \in 1 .. Len(objs[p]) : objs[p][i] \in TempName /\ tmp[objs[p][i]].by = p
  BY <1>1, UnitFacts, Zenon
<1>4. /\ ts[p] \in TempName /\ tmp[ts[p]].by = p
      /\ ti[p] \in TempName /\ tmp[ti[p]].by = p /\ ti[p] # ts[p]
      /\ \A i \in 1 .. Len(objs[p]) : objs[p][i] # ts[p] /\ objs[p][i] # ti[p]
  BY <1>1, Zenon DEF PInv, Holds, HoldsS, HoldsI
<1>5. ASSUME NEW f \in TempFile, f.by = p, tmp' = [tmp EXCEPT ![ti[p]] = f]
      PROVE  /\ tmp' \in [TempName -> TempFile] /\ tmp'[ti[p]] = f /\ tmp'[ts[p]] = tmp[ts[p]]
             /\ \A i \in 1 .. Len(objs[p]) : tmp'[objs[p][i]] = tmp[objs[p][i]]
             /\ \A q \in Proc \ {p}, n \in TempName : tmp[n].by = q => tmp'[n] = tmp[n]
  BY <1>1, <1>3, <1>4, <1>5, WriteOwn, ZenonT(30), ZenonT(60)
<1>6. ASSUME Goto(p, "cpp", "cc"), UNCHANGED failed,
             tmp' = [tmp EXCEPT ![ti[p]] = File(@.by, "i", <<p, idx[p]>>)],
             status' = [status EXCEPT ![p] = 0]
      PROVE  DriverInv'
  <2> DEFINE f == File(p, "i", <<p, idx[p]>>)
  <2>1. f \in TempFile /\ f.by = p /\ tmp' = [tmp EXCEPT ![ti[p]] = f]
    BY <1>3, <1>4, <1>6, Zenon DEF File, TempFile
  <2>2. TypeOK' /\ Apart(p)
    BY <1>1, <1>5, <1>6, <2>1, ZenonT(30), ZenonT(60) DEF TypeOK, Apart, Goto, Label
  <2>3. pc'[p] = "cc"
    BY <1>1, <1>6, Zenon DEF TypeOK, Goto
  <2>4. Contents(p)'
    BY <1>1, <1>5, <2>1, <2>3, Zenon DEF Contents, File
  <2> QED
    BY <1>1, <1>2, <1>3, <1>4, <1>5, <2>1, <2>2, <2>3, <2>4, UnitStep, SMTT(30), SMTT(60) DEF Unit
<1>7. ASSUME Goto(p, "cpp", "drop_i"), ToolFails(p),
             \/ UNCHANGED tmp
             \/ tmp' = [tmp EXCEPT ![ti[p]] = File(@.by, "partial", NoSrc)]
      PROVE  DriverInv'
  <2>1. /\ tmp' \in [TempName -> TempFile] /\ tmp'[ti[p]].by = p /\ tmp'[ts[p]] = tmp[ts[p]]
        /\ \A i \in 1 .. Len(objs[p]) : tmp'[objs[p][i]] = tmp[objs[p][i]]
        /\ \A q \in Proc \ {p}, n \in TempName : tmp[n].by = q => tmp'[n] = tmp[n]
    <3>1. CASE UNCHANGED tmp
      BY <1>1, <1>4, <3>1, Zenon DEF TypeOK
    <3>2. CASE tmp' = [tmp EXCEPT ![ti[p]] = File(@.by, "partial", NoSrc)]
      <4>1. File(p, "partial", NoSrc) \in TempFile /\ File(p, "partial", NoSrc).by = p
        BY Zenon DEF File, TempFile
      <4>2. tmp' = [tmp EXCEPT ![ti[p]] = File(p, "partial", NoSrc)]
        BY <1>4, <3>2, Zenon
      <4> QED
        BY <1>5, <4>1, <4>2, Zenon
    <3> QED
      BY <1>7, <3>1, <3>2, Zenon
  <2>2. TypeOK' /\ Apart(p)
    BY <1>1, <1>7, <2>1, Zenon DEF TypeOK, Apart, Goto, Label, ToolFails
  <2>3. pc'[p] = "drop_i" /\ status'[p] = 1
    BY <1>1, <1>7, Zenon DEF TypeOK, Goto, ToolFails
  <2>4. Contents(p)'
    BY <2>3 DEF Contents
  <2> QED
    BY <1>1, <1>2, <1>3, <1>4, <2>1, <2>2, <2>3, <2>4, UnitStep DEF Unit
<1> QED
  BY <1>6, <1>7, Zenon DEF RunCpp

(* minic-cc in -S mode: no temporary is involved.                          *)
LEMMA RunCcToOutput ==
  ASSUME DriverInv, NEW p \in Proc, RunCc(p), job[p].mode = "S"
  PROVE  DriverInv'
<1>1. TypeOK /\ PInv(p) /\ job[p] \in Jobs
  BY Zenon DEF DriverInv, TypeOK
<1>2. Len(job[p].inputs) = 1 /\ job[p].inputs \in Seq(InputKind) /\ 1 \in 1 .. MaxInputs
  BY <1>1, JobFacts, Zenon
<1>3. Output("s", << <<p, 1>> >>) \in OutFile
  BY <1>2, DriverConstants DEF Output, OutFile, Src
<1>4. AllSrcs(p) = << <<p, 1>> >>
  BY <1>2 DEF AllSrcs
<1>5. TypeOK' /\ Apart(p)
  <2>1. /\ Goto(p, "cc", "done")
        /\ UNCHANGED <<job, idx, ti, ts, objs, linkIn, tmp>>
        /\ status' \in [Proc -> {0, 1}] /\ failed' \in [Proc -> BOOLEAN]
        /\ \A q \in Proc \ {p} : status'[q] = status[q]
    BY <1>1, Zenon DEF RunCc, ToolFails, TypeOK
  <2>2. out' \in [Proc -> OutFile] /\ \A q \in Proc \ {p} : out'[q] = out[q]
    BY <1>1, <1>3, ZenonT(30), ZenonT(60) DEF RunCc, TypeOK
  <2> QED
    BY <1>1, <2>1, <2>2, Zenon DEF TypeOK, Apart, Goto, Label
<1>6. /\ pc'[p] = "done" /\ UNCHANGED <<job, objs, tmp>>
      /\ out'[p] = out[p] \/ out'[p] = Output("s", << <<p, 1>> >>)
  BY <1>1, Zenon DEF TypeOK, RunCc, Goto
<1>7. Whole(p)'
  BY <1>1, <1>4, <1>6 DEF PInv, Whole, Output, AllSrcs
<1> QED
  BY <1>5, <1>6, <1>7, Leave, Zenon

LEMMA RunCcStep ==
  ASSUME DriverInv, NEW p \in Proc, RunCc(p), job[p].mode # "S"
  PROVE  DriverInv'
<1>1. /\ TypeOK /\ PInv(p) /\ pc[p] = "cc" /\ pc[p] \in Unit
      /\ Goto(p, "cc", "drop_i")
      /\ UNCHANGED <<job, idx, ti, ts, objs, linkIn, out>>
  BY Zenon DEF DriverInv, RunCc, Goto, Unit
<1>2. Whole(p)'
  BY <1>1, Zenon DEF PInv, Whole, AllSrcs
<1>3. /\ <<p, idx[p]>> \in Src
      /\ \A i \in 1 .. Len(objs[p]) : objs[p][i] \in TempName /\ tmp[objs[p][i]].by = p
  BY <1>1, UnitFacts, Zenon
<1>4. /\ ts[p] \in TempName /\ tmp[ts[p]].by = p
      /\ ti[p] \in TempName /\ tmp[ti[p]].by = p /\ ti[p] # ts[p]
      /\ \A i \in 1 .. Len(objs[p]) : objs[p][i] # ts[p] /\ objs[p][i] # ti[p]
      /\ tmp[ti[p]].src = <<p, idx[p]>>
  BY <1>1 DEF PInv, Holds, HoldsS, HoldsI, Contents, File
<1>5. pc'[p] = "drop_i"
  BY <1>1, Zenon DEF TypeOK, Goto
<1>6. ASSUME tmp' = [tmp EXCEPT ![ts[p]] = File(@.by, "s", tmp[ti[p]].src)],
             status' = [status EXCEPT ![p] = 0], UNCHANGED failed
      PROVE  DriverInv'
  <2> DEFINE f == File(p, "s", <<p, idx[p]>>)
  <2>1. f \in TempFile /\ f.by = p /\ tmp' = [tmp EXCEPT ![ts[p]] = f]
    BY <1>3, <1>4, <1>6, Zenon DEF File, TempFile
  <2>2. /\ tmp' \in [TempName -> TempFile] /\ tmp'[ts[p]] = f /\ tmp'[ti[p]] = tmp[ti[p]]
        /\ \A i \in 1 .. Len(objs[p]) : tmp'[objs[p][i]] = tmp[objs[p][i]]
        /\ \A q \in Proc \ {p}, n \in TempName : tmp[n].by = q => tmp'[n] = tmp[n]
    <3> HIDE DEF f
    <3>1. /\ tmp' \in [TempName -> TempFile] /\ tmp'[ts[p]] = f
          /\ \A n \in TempName : n # ts[p] => tmp'[n] = tmp[n]
          /\ \A q \in Proc \ {p}, n \in TempName : tmp[n].by = q => tmp'[n] = tmp[n]
      BY <1>1, <1>4, <2>1, WriteOwn, ZenonT(30), ZenonT(60)
    <3> QED
      BY <1>3, <1>4, <3>1, Zenon
  <2>3. TypeOK' /\ Apart(p)
    BY <1>1, <1>6, <2>2, ZenonT(30), ZenonT(60) DEF TypeOK, Apart, Goto, Label
  <2>4. Contents(p)'
    BY <1>1, <1>5, <2>2, Zenon DEF Contents, File
  <2> QED
    BY <1>1, <1>2, <1>3, <1>4, <1>5, <2>1, <2>2, <2>3, <2>4, UnitStep, ZenonT(30), ZenonT(60) DEF Unit
<1>7. ASSUME ToolFails(p), UNCHANGED tmp
      PROVE  DriverInv'
  <2>1. TypeOK' /\ Apart(p)
    BY <1>1, <1>7, Zenon DEF TypeOK, Apart, Goto, Label, ToolFails
  <2>2. Contents(p)'
    BY <1>1, <1>5, <1>7, SMTT(30), SMTT(60) DEF Contents, ToolFails, TypeOK
  <2> QED
    BY <1>1, <1>2, <1>3, <1>4, <1>5, <1>7, <2>1, <2>2, UnitStep, Zenon DEF Unit
<1> QED
  BY <1>6, <1>7, Zenon DEF RunCc

LEMMA DropTempIStep ==
  ASSUME DriverInv, NEW p \in Proc, DropTempI(p)
  PROVE  DriverInv'
<1>1. /\ TypeOK /\ PInv(p) /\ job[p].mode # "S" /\ pc[p] = "drop_i" /\ pc[p] \in Unit
      /\ UNCHANGED <<job, idx, status, ts, objs, linkIn, out>>
  BY Zenon DEF DriverInv, PInv, Control, DropTempI, Goto, Unit
<1>2. Whole(p)'
  BY <1>1, Zenon DEF PInv, Whole, AllSrcs
<1>3. \A i \in 1 .. Len(objs[p]) : objs[p][i] \in TempName /\ tmp[objs[p][i]].by = p
  BY <1>1, UnitFacts, Zenon
<1>4. /\ ts[p] \in TempName /\ tmp[ts[p]].by = p
      /\ ti[p] \in TempName /\ tmp[ti[p]].by = p /\ ti[p] # ts[p]
      /\ \A i \in 1 .. Len(objs[p]) : objs[p][i] # ts[p] /\ objs[p][i] # ti[p]
  BY <1>1, Zenon DEF PInv, Holds, HoldsS, HoldsI
<1>5. /\ tmp' \in [TempName -> TempFile] /\ tmp'[ts[p]] = tmp[ts[p]]
      /\ \A i \in 1 .. Len(objs[p]) : tmp'[objs[p][i]] = tmp[objs[p][i]]
      /\ \A q \in Proc \ {p}, n \in TempName : tmp[n].by = q => tmp'[n] = tmp[n]
  <2>1. CASE UNCHANGED tmp
    BY <1>1, <2>1, Zenon DEF TypeOK
  <2>2. CASE Unlink(ti[p])
    <3>1. Absent \in TempFile
      BY Zenon DEF Absent, TempFile
    <3> QED
      BY <1>1, <1>3, <1>4, <2>2, <3>1, WriteOwn, ZenonT(30), ZenonT(60) DEF Unlink
  <2> QED
    BY <2>1, <2>2, Zenon DEF DropTempI
<1>6. TypeOK' /\ Apart(p)
  BY <1>1, <1>5, Zenon DEF TypeOK, Apart, Goto, Label, DropTempI
<1>7. pc'[p] = IF status[p] = 0 THEN "as" ELSE "drop_s"
  BY <1>1, Zenon DEF TypeOK, Goto, DropTempI
<1>8. Contents(p)' /\ ~HoldsI(p)'
  BY <1>1, <1>5, <1>7, Zenon DEF PInv, Contents, HoldsI, File
<1> QED
  BY <1>1, <1>2, <1>3, <1>4, <1>5, <1>6, <1>7, <1>8, UnitStep DEF Unit

LEMMA DropTempSStep ==
  ASSUME DriverInv, NEW p \in Proc, DropTempS(p)
  PROVE  DriverInv'
<1>1. /\ TypeOK /\ PInv(p) /\ job[p].mode # "S" /\ pc[p] = "drop_s" /\ pc[p] \in Unit
      /\ UNCHANGED <<job, idx, status, ti, objs, linkIn, out>>
  BY Zenon DEF DriverInv, PInv, Control, DropTempS, Goto, Unit
<1>2. Whole(p)'
  BY <1>1, Zenon DEF PInv, Whole, AllSrcs
<1>3. /\ \A i \in 1 .. Len(objs[p]) : objs[p][i] \in TempName /\ tmp[objs[p][i]].by = p
      /\ job[p].mode = "link" => \E i \in 1 .. Len(objs[p]) : ObjectPath(p) = objs[p][i]
  BY <1>1, UnitFacts, Zenon
<1>4. /\ ts[p] \in TempName /\ tmp[ts[p]].by = p
      /\ \A i \in 1 .. Len(objs[p]) : objs[p][i] # ts[p]
  BY <1>1, Zenon DEF PInv, Holds, HoldsS
<1>5. /\ tmp' \in [TempName -> TempFile]
      /\ \A i \in 1 .. Len(objs[p]) : tmp'[objs[p][i]] = tmp[objs[p][i]]
      /\ \A q \in Proc \ {p}, n \in TempName : tmp[n].by = q => tmp'[n] = tmp[n]
  <2>1. CASE UNCHANGED tmp
    BY <1>1, <2>1, Zenon DEF TypeOK
  <2>2. CASE Unlink(ts[p])
    <3>1. Absent \in TempFile
      BY Zenon DEF Absent, TempFile
    <3> QED
      BY <1>1, <1>3, <1>4, <2>2, <3>1, WriteOwn, Zenon DEF Unlink
  <2> QED
    BY <2>1, <2>2, Zenon DEF DropTempS
<1>6. TypeOK' /\ Apart(p)
  BY <1>1, <1>5, ZenonT(30), ZenonT(60) DEF TypeOK, Apart, Goto, Label, DropTempS
<1>7. pc'[p] = "ret"
  BY <1>1, Zenon DEF TypeOK, Goto, DropTempS
<1>8. Contents(p)' /\ ~HoldsI(p)' /\ ~HoldsS(p)'
  <2>1. ObjectPath(p)' = ObjectPath(p)
    BY <1>1, Zenon DEF ObjectPath
  <2> QED
    BY <1>1, <1>3, <1>5, <1>7, <2>1 DEF PInv, Contents, HoldsI, HoldsS, File
<1> QED
  BY <1>1, <1>2, <1>3, <1>5, <1>6, <1>7, <1>8, UnitStep, Zenon DEF Unit

(* minic-as in -c mode writes the -o path.                                 *)
LEMMA RunAsToOutput ==
  ASSUME DriverInv, NEW p \in Proc, RunAs(p), job[p].mode = "c"
  PROVE  DriverInv'
<1>1. /\ TypeOK /\ PInv(p) /\ pc[p] = "as" /\ pc[p] \in Unit /\ job[p] \in Jobs
      /\ Goto(p, "as", "drop_s")
      /\ UNCHANGED <<job, idx, ti, ts, objs, linkIn, tmp>>
  BY Zenon DEF DriverInv, TypeOK, RunAs, Goto, Unit
<1>2. /\ idx[p] = 1 /\ <<p, idx[p]>> \in Src /\ tmp[ts[p]].src = <<p, idx[p]>>
      /\ \A i \in 1 .. Len(objs[p]) : objs[p][i] \in TempName /\ tmp[objs[p][i]].by = p
  <2>1. /\ <<p, idx[p]>> \in Src
        /\ \A i \in 1 .. Len(objs[p]) : objs[p][i] \in TempName /\ tmp[objs[p][i]].by = p
    BY <1>1, UnitFacts, ZenonT(30), ZenonT(60)
  <2>2. idx[p] = 1 /\ tmp[ts[p]].src = <<p, idx[p]>>
    BY <1>1, SMTT(30), SMTT(60) DEF PInv, Control, Contents, File
  <2> QED
    BY <2>1, <2>2, Zenon
<1>3. AllSrcs(p) = <<tmp[ts[p]].src>>
  BY <1>1, <1>2, JobFacts DEF AllSrcs
<1>4. /\ Output("o", <<tmp[ts[p]].src>>) \in OutFile
      /\ Output("partial", << >>) \in OutFile
  BY <1>2 DEF Output, OutFile
<1>5. /\ status' \in [Proc -> {0, 1}] /\ failed' \in [Proc -> BOOLEAN]
      /\ \A q \in Proc \ {p} : status'[q] = status[q]
  BY <1>1, Zenon DEF RunAs, ToolFails, TypeOK
<1>6. /\ out' \in [Proc -> OutFile] /\ \A q \in Proc \ {p} : out'[q] = out[q]
      /\ \/ out'[p] = out[p]
         \/ out'[p] = Output("o", <<tmp[ts[p]].src>>)
         \/ out'[p] = Output("partial", << >>)
  BY <1>1, <1>4, ZenonT(30), ZenonT(60) DEF RunAs, TypeOK
<1>7. TypeOK' /\ Apart(p) /\ pc'[p] = "drop_s"
  BY <1>1, <1>5, <1>6, Zenon DEF TypeOK, Apart, Goto, Label
<1>8. Whole(p)'
  BY <1>1, <1>3, <1>6 DEF PInv, Whole, Output, AllSrcs
<1>9. /\ Contents(p)' /\ ~HoldsI(p)'
      /\ ts[p] \in TempName /\ tmp[ts[p]].by = p
      /\ \A i \in 1 .. Len(objs[p]) : objs[p][i] # ts[p]
  BY <1>1, <1>7, Zenon DEF PInv, Contents, Holds, HoldsI, HoldsS
<1> QED
  BY <1>1, <1>2, <1>7, <1>8, <1>9, UnitStep, Zenon DEF Unit

LEMMA RunAsStep ==
  ASSUME DriverInv, NEW p \in Proc, RunAs(p), job[p].mode = "link"
  PROVE  DriverInv'
<1>1. /\ TypeOK /\ PInv(p) /\ pc[p] = "as" /\ pc[p] \in Unit
      /\ Goto(p, "as", "drop_s")
      /\ UNCHANGED <<job, idx, ti, ts, objs, linkIn, out>>
  BY Zenon DEF DriverInv, RunAs, Goto, Unit
<1>2. Whole(p)'
  BY <1>1, Zenon DEF PInv, Whole, AllSrcs
<1>3. /\ <<p, idx[p]>> \in Src
      /\ \A i \in 1 .. Len(objs[p]) : objs[p][i] \in TempName /\ tmp[objs[p][i]].by = p
      /\ Len(objs[p]) \in 1 .. Len(objs[p]) /\ ObjectPath(p) = objs[p][Len(objs[p])]
      /\ \A i \in 1 .. Len(objs[p]) : i < Len(objs[p]) => objs[p][i] # ObjectPath(p)
  BY <1>1, UnitFacts, Zenon
<1>4. /\ ts[p] \in TempName /\ tmp[ts[p]].by = p
      /\ \A i \in 1 .. Len(objs[p]) : objs[p][i] # ts[p]
      /\ tmp[ts[p]].src = <<p, idx[p]>>
      /\ ObjectPath(p) \in TempName /\ tmp[ObjectPath(p)].by = p /\ ObjectPath(p) # ts[p]
  BY <1>1, <1>3 DEF PInv, Holds, HoldsS, Contents, File
<1>5. pc'[p] = "drop_s" /\ ObjectPath(p)' = ObjectPath(p)
  BY <1>1, Zenon DEF TypeOK, Goto, ObjectPath
<1>6. ASSUME NEW f \in TempFile, f.by = p, tmp' = [tmp EXCEPT ![ObjectPath(p)] = f]
      PROVE  /\ tmp' \in [TempName -> TempFile] /\ tmp'[ObjectPath(p)] = f
             /\ tmp'[ts[p]] = tmp[ts[p]]
             /\ \A i \in 1 .. Len(objs[p]) :
                  /\ tmp'[objs[p][i]].by = p
                  /\ i < Len(objs[p]) => tmp'[objs[p][i]] = tmp[objs[p][i]]
             /\ \A q \in Proc \ {p}, n \in TempName : tmp[n].by = q => tmp'[n] = tmp[n]
  BY <1>1, <1>3, <1>4, <1>6, WriteOwn, ZenonT(30), ZenonT(60)
<1>7. ASSUME tmp' = [tmp EXCEPT ![ObjectPath(p)] = File(@.by, "o", tmp[ts[p]].src)],
             status' = [status EXCEPT ![p] = 0], UNCHANGED failed
      PROVE  DriverInv'
  <2> DEFINE f == File(p, "o", <<p, idx[p]>>)
  <2>1. f \in TempFile /\ f.by = p /\ tmp' = [tmp EXCEPT ![ObjectPath(p)] = f]
    BY <1>3, <1>4, <1>7, Zenon DEF File, TempFile
  <2>2. TypeOK' /\ Apart(p)
    BY <1>1, <1>6, <1>7, <2>1, ZenonT(30), ZenonT(60) DEF TypeOK, Apart, Goto, Label
  <2>3. Contents(p)' /\ ~HoldsI(p)'
    BY <1>1, <1>5, <1>6, <2>1, Zenon DEF Contents, HoldsI, File
  <2> QED
    BY <1>1, <1>2, <1>4, <1>5, <1>6, <2>1, <2>2, <2>3, UnitStep, Zenon DEF Unit
<1>8. ASSUME ToolFails(p),
             \/ UNCHANGED tmp
             \/ tmp' = [tmp EXCEPT ![ObjectPath(p)] = File(@.by, "partial", NoSrc)]
      PROVE  DriverInv'
  <2>1. /\ tmp' \in [TempName -> TempFile] /\ tmp'[ts[p]] = tmp[ts[p]]
        /\ \A i \in 1 .. Len(objs[p]) :
             /\ tmp'[objs[p][i]].by = p
             /\ i < Len(objs[p]) => tmp'[objs[p][i]] = tmp[objs[p][i]]
        /\ \A q \in Proc \ {p}, n \in TempName : tmp[n].by = q => tmp'[n] = tmp[n]
    <3>1. CASE UNCHANGED tmp
      BY <1>1, <1>3, <3>1, Zenon DEF TypeOK
    <3>2. CASE tmp' = [tmp EXCEPT ![ObjectPath(p)] = File(@.by, "partial", NoSrc)]
      <4>1. File(p, "partial", NoSrc) \in TempFile /\ File(p, "partial", NoSrc).by = p
        BY Zenon DEF File, TempFile
      <4>2. tmp' = [tmp EXCEPT ![ObjectPath(p)] = File(p, "partial", NoSrc)]
        BY <1>4, <3>2, Zenon
      <4> QED
        BY <1>6, <4>1, <4>2, Zenon
    <3> QED
      BY <1>8, <3>1, <3>2, Zenon
  <2>2. TypeOK' /\ Apart(p)
    BY <1>1, <1>8, <2>1, ZenonT(30), ZenonT(60) DEF TypeOK, Apart, Goto, Label, ToolFails
  <2>3. Contents(p)' /\ ~HoldsI(p)'
    BY <1>1, <1>5, <1>8 DEF Contents, HoldsI, ToolFails, TypeOK
  <2> QED
    BY <1>1, <1>2, <1>4, <1>5, <2>1, <2>2, <2>3, UnitStep, Zenon DEF Unit
<1> QED
  BY <1>7, <1>8, Zenon DEF RunAs

(* compile_c_to_object returned: the link loop takes the unit's object as  *)
(* a link input, or main leaves.                                           *)
LEMMA ReturnStep ==
  ASSUME DriverInv, NEW p \in Proc, Return(p)
  PROVE  DriverInv'
<1>1. /\ TypeOK /\ PInv(p) /\ job[p] \in Jobs /\ pc[p] = "ret" /\ pc[p] \in Unit
      /\ job[p].mode # "S"
      /\ UNCHANGED <<job, status, ti, ts, objs, tmp, out, failed>>
  BY ZenonT(30), ZenonT(60) DEF DriverInv, TypeOK, PInv, Control, Return, Goto, Unit
<1>2. Whole(p)'
  BY <1>1, Zenon DEF PInv, Whole, AllSrcs
<1>3. CASE ~(job[p].mode = "link" /\ status[p] = 0)
  <2>1. Goto(p, "ret", "done") /\ UNCHANGED <<linkIn, idx>>
    BY <1>3, Zenon DEF Return
  <2>2. TypeOK' /\ Apart(p) /\ pc'[p] = "done"
    BY <1>1, <2>1, Zenon DEF TypeOK, Apart, Goto, Label
  <2> QED
    BY <1>1, <1>2, <2>2, Leave, Zenon
<1>4. CASE job[p].mode = "link" /\ status[p] = 0
  <2>1. /\ Goto(p, "ret", "loop")
        /\ linkIn' = [linkIn EXCEPT ![p] = Append(@, ObjectPath(p))]
        /\ idx' = [idx EXCEPT ![p] = @ + 1]
    BY <1>4, ZenonT(30), ZenonT(60) DEF Return
  <2>2. /\ idx[p] \in Nat /\ idx[p] + 1 \in 1 .. MaxInputs + 1
        /\ idx[p] <= Len(job[p].inputs) /\ Len(job[p].inputs) \in Nat
        /\ job[p].inputs[idx[p]] # "o"
    BY <1>1, <1>4, JobFacts, DriverConstants, SMTT(30), SMTT(60) DEF PInv, Control, TypeOK
  <2>3. /\ ObjectPath(p) \in TempName
        /\ \E i \in 1 .. Len(objs[p]) : ObjectPath(p) = objs[p][i]
        /\ tmp[ObjectPath(p)] = File(p, "o", <<p, idx[p]>>)
    <3>1. tmp[ObjectPath(p)] = File(p, "o", <<p, idx[p]>>)
      BY <1>1, <1>4, Zenon DEF PInv, Contents
    <3> QED
      BY <1>1, <1>4, <3>1, UnitFacts
  <2>4. /\ linkIn[p] \in Seq(TempName \cup {NoTemp})
        /\ Len(linkIn[p]) = idx[p] - 1
        /\ \A k \in 1 .. Len(linkIn[p]) : LinkInput(p, k)
    BY <1>1, <1>4, ZenonT(30), ZenonT(60) DEF PInv, Links, TypeOK
  <2>5. TypeOK' /\ Apart(p)
    BY <1>1, <2>1, <2>2, <2>3, SMTT(30), SMTT(60) DEF TypeOK, Apart, Goto, Label
  <2>6. /\ pc'[p] = "loop" /\ idx'[p] = idx[p] + 1
        /\ linkIn'[p] = Append(linkIn[p], ObjectPath(p))
    BY <1>1, <2>1, Zenon DEF TypeOK, Goto
  <2>7. /\ Len(linkIn'[p]) = idx[p]
        /\ linkIn'[p][idx[p]] = ObjectPath(p)
        /\ \A k \in 1 .. Len(linkIn[p]) : linkIn'[p][k] = linkIn[p][k]
    BY <2>2, <2>3, <2>4, <2>6, SMTT(30), SMTT(60)
  <2>8. ASSUME NEW k \in 1 .. Len(linkIn'[p])
        PROVE  LinkInput(p, k)'
    <3>1. CASE k = idx[p]
      BY <1>1, <2>2, <2>3, <2>6, <2>7, <3>1, Zenon DEF LinkInput, Unit, File
    <3>2. CASE k # idx[p]
      <4>1. k \in 1 .. Len(linkIn[p])
        BY <2>2, <2>4, <2>7, <3>2
      <4>2. LinkInput(p, k) /\ linkIn'[p][k] = linkIn[p][k]
        BY <2>4, <2>7, <4>1, Zenon
      <4> QED
        BY <1>1, <2>6, <4>2, Zenon DEF LinkInput, Unit, File
    <3> QED
      BY <3>1, <3>2, Zenon
  <2>9. Links(p)'
    BY <1>1, <1>4, <2>2, <2>6, <2>7, <2>8, SMTT(30), SMTT(60) DEF Links
  <2>10. Control(p)' /\ Contents(p)'
    BY <1>1, <1>4, <2>6, Zenon DEF PInv, Control, Contents, Unit
  <2>11. Holds(p)'
    BY <1>1, <2>6, Zenon DEF PInv, Holds, HoldsS, HoldsI
  <2> QED
    BY <1>2, <2>5, <2>9, <2>10, <2>11, Compose, Zenon DEF PInv
<1> QED
  BY <1>3, <1>4, Zenon

(* The linker reads, at each place of its argument list, the object that   *)
(* was made from the input of that place.                                  *)
LEMMA LinkedIsAll ==
  ASSUME DriverInv, NEW p \in Proc, pc[p] = "ld"
  PROVE  LinkedSrcs(p) = AllSrcs(p) /\ LinkedSrcs(p) \in Seq(Src \cup {NoSrc})
<1>1. TypeOK /\ PInv(p) /\ job[p] \in Jobs /\ linkIn[p] \in Seq(TempName \cup {NoTemp})
  BY Zenon DEF DriverInv, TypeOK
<1>2. /\ job[p].inputs \in Seq(InputKind) /\ Len(job[p].inputs) \in 1 .. MaxInputs
      /\ job[p].mode = "link"
  BY <1>1, JobFacts, Zenon DEF PInv, Control
<1>3. /\ Len(linkIn[p]) = Len(job[p].inputs)
      /\ \A k \in 1 .. Len(linkIn[p]) : LinkInput(p, k)
  BY <1>1, <1>2, DriverConstants, SMTT(30), SMTT(60) DEF PInv, Links, TypeOK
<1>4. DOMAIN linkIn[p] = 1 .. Len(job[p].inputs) /\ DOMAIN job[p].inputs = 1 .. Len(job[p].inputs)
  BY <1>1, <1>2, <1>3
<1>5. ASSUME NEW k \in 1 .. Len(job[p].inputs)
      PROVE  LinkedSrcs(p)[k] = <<p, k>> /\ <<p, k>> \in Src
  <2>1. <<p, k>> \in Src
    BY <1>2, DriverConstants DEF Src
  <2>2. CASE job[p].inputs[k] = "o"
    BY <1>3, <1>4, <2>1, <2>2, Zenon DEF LinkInput, LinkedSrcs
  <2>3. CASE job[p].inputs[k] # "o"
    <3>1. PICK i \in 1 .. Len(objs[p]) : linkIn[p][k] = objs[p][i]
      BY <1>3, <2>3, Zenon DEF LinkInput
    <3>2. linkIn[p][k] # NoTemp
      BY <1>1, <3>1, ObjectNames, DriverConstants, Zenon
    <3>3. tmp[linkIn[p][k]] = File(p, "o", <<p, k>>)
      BY <1>3, <2>3, Zenon DEF LinkInput
    <3>4. LinkedSrcs(p)[k] = tmp[linkIn[p][k]].src
      BY <1>4, <3>2, Zenon DEF LinkedSrcs
    <3> QED
      BY <2>1, <3>3, <3>4 DEF File
  <2> QED
    BY <2>2, <2>3, Zenon
<1>6. LinkedSrcs(p) = AllSrcs(p)
  BY <1>4, <1>5, Zenon DEF LinkedSrcs, AllSrcs
<1>7. AllSrcs(p) \in Seq(Src \cup {NoSrc})
  BY <1>2, <1>4, <1>5 DEF AllSrcs
<1> QED
  BY <1>6, <1>7, Zenon

LEMMA RunLdStep ==
  ASSUME DriverInv, NEW p \in Proc, RunLd(p)
  PROVE  DriverInv'
<1>1. /\ TypeOK /\ PInv(p) /\ job[p] \in Jobs /\ pc[p] = "ld"
      /\ UNCHANGED <<job, idx, ti, ts, objs, linkIn, tmp>>
  BY Zenon DEF DriverInv, TypeOK, RunLd, Goto
<1>2. CASE /\ Goto(p, "ld", "chmod")
           /\ out' = [out EXCEPT ![p] = Output("exe", LinkedSrcs(p))]
           /\ status' = [status EXCEPT ![p] = 0]
           /\ UNCHANGED failed
  <2>1. Output("exe", LinkedSrcs(p)) \in OutFile
    BY <1>1, LinkedIsAll, Zenon DEF Output, OutFile
  <2>2. TypeOK' /\ Apart(p)
    BY <1>1, <1>2, <2>1, Zenon DEF TypeOK, Apart, Goto, Label
  <2>3. pc'[p] = "chmod" /\ out'[p] = Output("exe", LinkedSrcs(p))
    BY <1>1, <1>2, Zenon DEF TypeOK, Goto
  <2>4. Whole(p)'
    BY <1>1, <2>3, LinkedIsAll DEF Whole, Output, AllSrcs
  <2>5. Control(p)' /\ Contents(p)' /\ Links(p)'
    BY <1>1, <2>3, Zenon DEF PInv, Control, Contents, Links, Unit
  <2>6. Holds(p)'
    BY <1>1, <2>3, Zenon DEF PInv, Holds, HoldsS, HoldsI
  <2> QED
    BY <2>2, <2>4, <2>5, <2>6, Compose, Zenon DEF PInv
<1>3. CASE /\ Goto(p, "ld", "done")
           /\ ToolFails(p)
           /\ \/ UNCHANGED out
              \/ \E kind \in {"absent", "partial"} :
                   out' = [out EXCEPT ![p] = Output(kind, << >>)]
  <2>1. /\ out' \in [Proc -> OutFile] /\ \A q \in Proc \ {p} : out'[q] = out[q]
        /\ out'[p] = out[p] \/ out'[p].kind \in {"absent", "partial"}
    <3>1. CASE UNCHANGED out
      BY <1>1, <3>1, Zenon DEF TypeOK
    <3>2. ASSUME NEW kind \in {"absent", "partial"},
                 out' = [out EXCEPT ![p] = Output(kind, << >>)]
          PROVE  /\ out' \in [Proc -> OutFile] /\ \A q \in Proc \ {p} : out'[q] = out[q]
                 /\ out'[p] = out[p] \/ out'[p].kind \in {"absent", "partial"}
      <4>1. Output(kind, << >>) \in OutFile /\ Output(kind, << >>).kind = kind
        BY DEF Output, OutFile
      <4> QED
        BY <1>1, <3>2, <4>1, Zenon DEF TypeOK
    <3> QED
      BY <1>3, <3>1, <3>2, Zenon
  <2>2. TypeOK' /\ Apart(p) /\ pc'[p] = "done"
    BY <1>1, <1>3, <2>1, Zenon DEF TypeOK, Apart, Goto, Label, ToolFails
  <2>3. Whole(p)'
    BY <1>1, <2>1, Zenon DEF PInv, Whole, AllSrcs
  <2> QED
    BY <1>1, <2>2, <2>3, Leave, Zenon
<1> QED
  BY <1>2, <1>3, Zenon DEF RunLd

LEMMA CleanObjectStep ==
  ASSUME DriverInv, NEW p \in Proc, CleanObject(p)
  PROVE  DriverInv'
<1>1. /\ TypeOK /\ PInv(p) /\ pc[p] = "done" /\ pc'[p] = "done" /\ objs[p] # << >>
      /\ objs' = [objs EXCEPT ![p] = SubSeq(@, 1, Len(@) - 1)]
      /\ objs'[p] = SubSeq(objs[p], 1, Len(objs[p]) - 1)
      /\ UNCHANGED <<job, idx, status, ti, ts, linkIn, out, failed>>
  BY Zenon DEF DriverInv, TypeOK, CleanObject, Goto
<1>2. /\ objs[p] \in Seq(TempName) /\ Len(objs[p]) \in Nat \ {0}
      /\ \A i \in 1 .. Len(objs[p]) : objs[p][i] \in TempName /\ tmp[objs[p][i]].by = p
      /\ \A i, j \in 1 .. Len(objs[p]) : i # j => objs[p][i] # objs[p][j]
  <2>1. objs[p] \in Seq(TempName) /\ Len(objs[p]) \in Nat \ {0}
    BY <1>1, ObjectNames
  <2> QED
    BY <1>1, <2>1, ObjectNames, Zenon DEF PInv, Holds
<1>3. /\ objs'[p] \in Seq(TempName)
      /\ Len(objs'[p]) = Len(objs[p]) - 1
      /\ \A i \in 1 .. Len(objs'[p]) : objs'[p][i] = objs[p][i]
  BY <1>1, <1>2
<1>4. /\ tmp' \in [TempName -> TempFile]
      /\ \A i \in 1 .. Len(objs'[p]) : tmp'[objs'[p][i]] = tmp[objs[p][i]]
      /\ \A q \in Proc \ {p}, n \in TempName : tmp[n].by = q => tmp'[n] = tmp[n]
  <2>1. Absent \in TempFile /\ tmp' = [tmp EXCEPT ![objs[p][Len(objs[p])]] = Absent]
    BY Zenon DEF Absent, TempFile, CleanObject, Unlink, ObjectPath
  <2>2. objs[p][Len(objs[p])] \in TempName /\ tmp[objs[p][Len(objs[p])]].by = p
    BY <1>2
  <2>3. /\ tmp' \in [TempName -> TempFile]
        /\ \A n \in TempName : n # objs[p][Len(objs[p])] => tmp'[n] = tmp[n]
        /\ \A q \in Proc \ {p}, n \in TempName : tmp[n].by = q => tmp'[n] = tmp[n]
    BY <1>1, <2>1, <2>2, WriteOwn, Zenon
  <2>4. ASSUME NEW i \in 1 .. Len(objs'[p])
        PROVE  tmp'[objs'[p][i]] = tmp[objs[p][i]]
    <3>1. /\ i \in 1 .. Len(objs[p]) /\ Len(objs[p]) \in 1 .. Len(objs[p])
          /\ i # Len(objs[p]) /\ objs'[p][i] = objs[p][i]
      BY <1>2, <1>3, SMTT(30), SMTT(60)
    <3>2. objs[p][i] \in TempName /\ objs[p][i] # objs[p][Len(objs[p])]
      BY <1>2, <3>1, Zenon
    <3> QED
      BY <2>3, <3>1, <3>2, Zenon
  <2> QED
    BY <2>3, <2>4, Zenon
<1>5. TypeOK' /\ Apart(p)
  BY <1>1, <1>3, <1>4 DEF TypeOK, Apart, CleanObject, Goto, Label
<1>6. Control(p)' /\ Contents(p)' /\ Links(p)' /\ Whole(p)'
  BY <1>1, ZenonT(30), ZenonT(60) DEF PInv, Control, Contents, Links, Whole, AllSrcs, Unit
<1>7. Holds(p)'
  <2>1. \A i \in 1 .. Len(objs'[p]) : i \in 1 .. Len(objs[p])
    BY <1>2, <1>3
  <2>2. ~HoldsS(p)' /\ ~HoldsI(p)'
    BY <1>1, Zenon DEF HoldsS, HoldsI
  <2> QED
    BY <1>2, <1>3, <1>4, <2>1, <2>2, ZenonT(30), ZenonT(60) DEF Holds
<1> QED
  BY <1>5, <1>6, <1>7, Compose, Zenon DEF PInv

-----------------------------------------------------------------------------

LEMMA DriverInvInit == Init => DriverInv
<1> SUFFICES ASSUME Init
             PROVE  DriverInv
  OBVIOUS
<1>1. TypeOK
  <2>1. Absent \in TempFile /\ 1 \in 1 .. MaxInputs + 1
    BY DriverConstants DEF Absent, TempFile
  <2>2. {Output("absent", << >>), Output("prior", << >>)} \subseteq OutFile
    BY DEF Output, OutFile
  <2> QED
    BY <2>1, <2>2 DEF Init, TypeOK, Label
<1>2. ASSUME NEW p \in Proc
      PROVE  PInv(p)
  <2>1. pc[p] = "main" /\ idx[p] = 1 /\ linkIn[p] = << >> /\ objs[p] = << >>
    BY Zenon DEF Init
  <2>2. out[p].kind \notin {"s", "o", "exe"}
    BY DEF Init, Output
  <2> QED
    BY <2>1, <2>2 DEF PInv, Control, Holds, HoldsS, HoldsI, Contents, Links, Whole, Unit
<1> QED
  BY <1>1, <1>2, Zenon DEF DriverInv

LEMMA DriverInvNext == DriverInv /\ [Next]_vars => DriverInv'
<1> SUFFICES ASSUME DriverInv, [Next]_vars
             PROVE  DriverInv'
  OBVIOUS
<1>1. CASE UNCHANGED vars
  <2>1. TypeOK'
    BY <1>1, Zenon DEF DriverInv, TypeOK, vars
  <2>2. ASSUME NEW q \in Proc
        PROVE  PInv(q)'
    BY <1>1, Frame, Zenon DEF DriverInv, vars
  <2> QED
    BY <2>1, <2>2, Zenon DEF DriverInv
<1>2. ASSUME NEW p \in Proc, Step(p) \/ Kill(p)
      PROVE  DriverInv'
  <2>1. CASE RunCc(p)
    BY <2>1, RunCcStep, RunCcToOutput, Zenon
  <2>2. CASE RunAs(p)
    <3>1. job[p].mode \in {"c", "link"}
      BY <2>2, Zenon DEF RunAs
    <3> QED
      BY <2>2, <3>1, RunAsStep, RunAsToOutput, Zenon
  <2> QED
    BY <1>2, <2>1, <2>2, LeaveSteps, MainStep, LoopObjectStep, LoopSourceStep, LoopEndStep,
       MakeTempSStep, MakeTempIStep, RunCppStep, DropTempIStep, DropTempSStep, ReturnStep,
       RunLdStep, CleanObjectStep, Zenon
    DEF Step
<1> QED
  BY <1>1, <1>2, Zenon DEF Next

(* The inductive invariant holds in every state of the drivers.            *)
THEOREM DriverInvariant == Spec => []DriverInv
<1> QED
  BY DriverInvInit, DriverInvNext, PTL DEF Spec

(* The variables of main and the shared files keep their types, in         *)
(* particular the link loop never indexes past the inputs and no NULL path *)
(* is stored among the temporary objects.                                  *)
THEOREM TypeCorrect == Spec => []TypeOK
<1>1. DriverInv => TypeOK
  BY Zenon DEF DriverInv
<1> QED
  BY <1>1, DriverInvariant, PTL

(* However many drivers share /tmp: each forked tool reads exactly the     *)
(* file the previous stage of the same driver finished for the same unit.  *)
THEOREM StagesReadTheirOwnFiles == Spec => []StageInputs
<1>1. DriverInv => StageInputs
  <2> SUFFICES ASSUME DriverInv, NEW p \in Proc
               PROVE  /\ pc[p] = "cc" /\ job[p].mode # "S" => tmp[ti[p]] = File(p, "i", <<p, idx[p]>>)
                      /\ pc[p] = "as" => tmp[ts[p]] = File(p, "s", <<p, idx[p]>>)
                      /\ pc[p] = "ld" =>
                           /\ Len(linkIn[p]) = Len(job[p].inputs)
                           /\ \A k \in DOMAIN linkIn[p] :
                                IF job[p].inputs[k] = "o"
                                THEN linkIn[p][k] = NoTemp
                                ELSE /\ linkIn[p][k] \in TempName
                                     /\ tmp[linkIn[p][k]] = File(p, "o", <<p, k>>)
    BY Zenon DEF StageInputs
  <2>1. /\ PInv(p) /\ TypeOK /\ job[p] \in Jobs /\ idx[p] \in Nat
        /\ linkIn[p] \in Seq(TempName \cup {NoTemp})
    BY DriverConstants DEF DriverInv, TypeOK
  <2>2. ASSUME pc[p] = "ld"
        PROVE  /\ Len(linkIn[p]) = Len(job[p].inputs)
               /\ \A k \in 1 .. Len(linkIn[p]) : LinkInput(p, k)
    BY <2>1, <2>2, JobFacts DEF PInv, Control, Links
  <2>3. \A k \in 1 .. Len(linkIn[p]) :
          LinkInput(p, k) /\ job[p].inputs[k] # "o" => linkIn[p][k] \in TempName
    BY <2>1, ObjectNames, Zenon DEF LinkInput
  <2>4. DOMAIN linkIn[p] = 1 .. Len(linkIn[p])
    BY <2>1
  <2> QED
    BY <2>1, <2>2, <2>3, <2>4, Zenon DEF PInv, Contents, LinkInput
<1> QED
  BY <1>1, DriverInvariant, PTL

(* An object or executable at the -o path stands for all inputs of the     *)
(* command line, in order, and for nothing else.                           *)
THEOREM OutputsAreWhole == Spec => []OutputIsWhole
<1>1. DriverInv => OutputIsWhole
  BY Zenon DEF DriverInv, PInv, Whole, OutputIsWhole
<1> QED
  BY <1>1, DriverInvariant, PTL

-----------------------------------------------------------------------------
(* How a driver ends.  Three more invariants, each kept by the step of the *)
(* driver it is about, given DriverInv.                                    *)

(* A tool has failed: the driver is on its way out with status 1.          *)
Failing(p) ==
  failed[p] =>
    status[p] = 1 /\ pc[p] \in {"drop_i", "drop_s", "ret", "done", "exit", "killed"}

(* The C sources of the command line.                                      *)
Sources(p) == {k \in DOMAIN job[p].inputs : job[p].inputs[k] = "c"}

(* What a status of 0 stands for.                                          *)
Success(p) ==
  /\ pc[p] = "main" => status[p] = 1
  /\ job[p].mode = "S" /\ pc[p] = "cc" => status[p] = 1
  /\ job[p].mode = "S" /\ pc[p] \in {"done", "exit"} /\ status[p] = 0 =>
       out[p] = Output("s", AllSrcs(p))
  /\ job[p].mode = "c" /\ pc[p] \in {"drop_s", "ret", "done", "exit"} /\ status[p] = 0 =>
       out[p] = Output("o", AllSrcs(p))
  /\ job[p].mode = "link" /\ pc[p] = "loop" /\ status[p] = 0 =>
       \E k \in Sources(p) : k < idx[p]
  /\ pc[p] = "chmod" => out[p] = Output("exe", AllSrcs(p))
  /\ job[p].mode = "link" /\ pc[p] \in {"done", "exit"} /\ status[p] = 0 =>
       out[p] = Output("exe", AllSrcs(p)) \/ \E k, l \in Sources(p) : k # l

(* The files of p, and those that no variable of p names any more.         *)
Named(p, n) ==
  \/ \E i \in 1 .. Len(objs[p]) : objs[p][i] = n
  \/ HoldsS(p) /\ ts[p] = n
  \/ HoldsI(p) /\ ti[p] = n

Loose(p) == {n \in Owned(p) : ~Named(p, n)}

(* temp_s and temp_i never name an object, and no object survives exit.    *)
Kinds(p) ==
  /\ HoldsS(p) => tmp[ts[p]].kind # "o"
  /\ HoldsI(p) => tmp[ti[p]].kind # "o"
  /\ pc[p] = "exit" => objs[p] = << >>

(* Files without a name are there only after a failure, on request, and    *)
(* are at most a .i and a .s.                                              *)
Kept(p) ==
  pc[p] # "killed" /\ Loose(p) # {} =>
    /\ job[p].keep /\ status[p] = 1 /\ pc[p] \in {"drop_s", "ret", "done", "exit"}
    /\ \A n \in Loose(p) : tmp[n].kind # "o"
    /\ pc[p] = "drop_s" => \E a \in TempName : Loose(p) \subseteq {a}
    /\ \E a, b \in TempName : Loose(p) \subseteq {a, b}

-----------------------------------------------------------------------------
(* What a step does to the files of /tmp.                                  *)

(* The file at n has not changed, is new and p's, or was p's and is p's or *)
(* gone.                                                                   *)
OwnChange(p, n) ==
  tmp'[n] # tmp[n] =>
    /\ Exists(n) => tmp[n].by = p /\ (pc'[p] # pc[p] \/ objs'[p] # objs[p])
    /\ tmp'[n].by \in {p, NoProc}

LEMMA NewFile ==
  ASSUME TypeOK, NEW p \in Proc, NEW m \in TempName, MakeTemp(p, m)
  PROVE  \A n \in TempName : OwnChange(p, n)
<1>1. ~Exists(m) /\ tmp'[m] = File(p, "empty", NoSrc) /\ \A n \in TempName : n # m => tmp'[n] = tmp[n]
  BY Zenon DEF TypeOK, MakeTemp
<1>2. tmp'[m].by = p
  BY <1>1 DEF File
<1> QED
  BY <1>1, <1>2, Zenon DEF OwnChange

LEMMA OldFile ==
  ASSUME TypeOK, NEW p \in Proc, NEW m \in TempName, tmp[m].by = p,
         pc'[p] # pc[p] \/ objs'[p] # objs[p],
         NEW f, tmp' = [tmp EXCEPT ![m] = f], f.by \in {p, NoProc}
  PROVE  \A n \in TempName : OwnChange(p, n)
<1>1. tmp'[m] = f /\ \A n \in TempName : n # m => tmp'[n] = tmp[n]
  BY Zenon DEF TypeOK
<1> QED
  BY <1>1, Zenon DEF OwnChange

LEMMA WrittenFile ==
  ASSUME TypeOK, NEW p \in Proc, NEW m \in TempName, tmp[m].by = p,
         pc'[p] # pc[p] \/ objs'[p] # objs[p],
         NEW k, NEW x, tmp' = [tmp EXCEPT ![m] = File(p, k, x)]
  PROVE  \A n \in TempName : OwnChange(p, n)
<1>1. File(p, k, x).by \in {p, NoProc}
  BY DEF File
<1> QED
  BY <1>1, OldFile, Zenon

LEMMA StepFiles ==
  ASSUME DriverInv, NEW p \in Proc, Step(p) \/ Kill(p)
  PROVE  \A n \in TempName : OwnChange(p, n)
<1>1. TypeOK /\ PInv(p) /\ Control(p)
  BY Zenon DEF DriverInv, PInv
<1>2. Absent.by = NoProc
  BY DEF Absent
<1>3. HoldsS(p) => ts[p] \in TempName /\ tmp[ts[p]].by = p
  BY <1>1, Zenon DEF PInv, Holds
<1>4. HoldsI(p) => ti[p] \in TempName /\ tmp[ti[p]].by = p
  BY <1>1, Zenon DEF PInv, Holds
<1>5. objs[p] # << >> => ObjectPath(p) \in TempName /\ tmp[ObjectPath(p)].by = p
  BY <1>1, ObjectNames DEF PInv, Holds, ObjectPath
<1>6. CASE tmp' = tmp
  BY <1>6, Zenon DEF OwnChange
<1>7. CASE \E n \in TempName : MakeTemp(p, n)
  BY <1>1, <1>7, NewFile, Zenon
<1>8. ASSUME NEW from, NEW to, Goto(p, from, to), from # to
      PROVE  pc'[p] # pc[p] /\ pc[p] = from
  BY <1>1, <1>8, Zenon DEF Goto, TypeOK
<1>9. CASE RunCpp(p)
  <2>1. Goto(p, "cpp", "cc") \/ Goto(p, "cpp", "drop_i")
    BY <1>9, Zenon DEF RunCpp
  <2>2. pc'[p] # pc[p] /\ pc[p] = "cpp"
    BY <1>8, <2>1, Zenon
  <2>3. ti[p] \in TempName /\ tmp[ti[p]].by = p
    BY <1>1, <1>4, <2>2, Zenon DEF HoldsI, Control
  <2>4. \/ tmp' = tmp
        \/ tmp' = [tmp EXCEPT ![ti[p]] = File(p, "i", <<p, idx[p]>>)]
        \/ tmp' = [tmp EXCEPT ![ti[p]] = File(p, "partial", NoSrc)]
    BY <1>9, <2>3, Zenon DEF RunCpp
  <2> QED
    BY <1>1, <1>6, <2>2, <2>3, <2>4, WrittenFile, Zenon
<1>10. CASE RunCc(p)
  <2>1. tmp' = tmp \/ (job[p].mode # "S" /\ Goto(p, "cc", "drop_i"))
    BY <1>10, Zenon DEF RunCc
  <2>2. CASE job[p].mode # "S" /\ Goto(p, "cc", "drop_i")
    <3>1. pc'[p] # pc[p] /\ pc[p] = "cc"
      BY <1>8, <2>2, Zenon
    <3>2. ts[p] \in TempName /\ tmp[ts[p]].by = p
      BY <1>3, <2>2, <3>1, Zenon DEF HoldsS
    <3>3. tmp' = tmp \/ tmp' = [tmp EXCEPT ![ts[p]] = File(p, "s", tmp[ti[p]].src)]
      BY <1>10, <3>2, Zenon DEF RunCc
    <3>4. CASE tmp' = [tmp EXCEPT ![ts[p]] = File(p, "s", tmp[ti[p]].src)]
      BY <1>1, <3>1, <3>2, <3>4, WrittenFile, Zenon
    <3> QED
      BY <1>6, <3>3, <3>4, Zenon
  <2> QED
    BY <1>6, <2>1, <2>2, Zenon
<1>11. CASE RunAs(p)
  <2>1. Goto(p, "as", "drop_s") /\ (tmp' = tmp \/ job[p].mode = "link")
    BY <1>11, Zenon DEF RunAs
  <2>2. pc'[p] # pc[p] /\ pc[p] = "as"
    BY <1>8, <2>1, Zenon
  <2>3. CASE job[p].mode = "link"
    <3>1. ObjectPath(p) \in TempName /\ tmp[ObjectPath(p)].by = p
      BY <1>1, <1>5, <2>2, <2>3, Zenon DEF Control, Unit
    <3>2. \/ tmp' = tmp
          \/ tmp' = [tmp EXCEPT ![ObjectPath(p)] = File(p, "o", tmp[ts[p]].src)]
          \/ tmp' = [tmp EXCEPT ![ObjectPath(p)] = File(p, "partial", NoSrc)]
      BY <1>11, <2>3, <3>1, Zenon DEF RunAs
    <3> QED
      BY <1>1, <1>6, <2>2, <3>1, <3>2, WrittenFile, Zenon
  <2> QED
    BY <1>6, <2>1, <2>3, Zenon
<1>12. CASE DropTempI(p)
  <2>1. \E to \in {"as", "drop_s"} : Goto(p, "drop_i", to)
    BY <1>12, Zenon DEF DropTempI
  <2>2. pc'[p] # pc[p] /\ pc[p] = "drop_i"
    BY <1>8, <2>1, Zenon
  <2>3. ti[p] \in TempName /\ tmp[ti[p]].by = p
    BY <1>1, <1>4, <2>2, Zenon DEF HoldsI, Control
  <2>4. tmp' = tmp \/ tmp' = [tmp EXCEPT ![ti[p]] = Absent]
    BY <1>12, Zenon DEF DropTempI, Unlink
  <2> QED
    BY <1>1, <1>2, <1>6, <2>2, <2>3, <2>4, OldFile, Zenon
<1>13. CASE DropTempS(p)
  <2>1. pc'[p] # pc[p] /\ pc[p] = "drop_s"
    BY <1>8, <1>13, Zenon DEF DropTempS
  <2>2. ts[p] \in TempName /\ tmp[ts[p]].by = p
    BY <1>1, <1>3, <2>1, Zenon DEF HoldsS, Control
  <2>3. tmp' = tmp \/ tmp' = [tmp EXCEPT ![ts[p]] = Absent]
    BY <1>13, Zenon DEF DropTempS, Unlink
  <2> QED
    BY <1>1, <1>2, <1>6, <2>1, <2>2, <2>3, OldFile, Zenon
<1>14. CASE CleanObject(p)
  <2>1. /\ objs[p] # << >> /\ tmp' = [tmp EXCEPT ![ObjectPath(p)] = Absent]
        /\ objs'[p] = SubSeq(objs[p], 1, Len(objs[p]) - 1)
    BY <1>1, <1>14, Zenon DEF CleanObject, Unlink, TypeOK
  <2>2. objs'[p] # objs[p]
    <3>1. objs[p] \in Seq(TempName) /\ Len(objs[p]) \in Nat
      BY <1>1, ObjectNames, Zenon
    <3> QED
      BY <2>1, <3>1
  <2> QED
    BY <1>1, <1>2, <1>5, <2>1, <2>2, OldFile, Zenon
<1>15. CASE LoopSource(p) \/ MakeTempS(p) \/ MakeTempI(p)
  BY <1>6, <1>7, <1>15, Zenon DEF LoopSource, MakeTempS, MakeTempI
<1>16. CASE \/ Main(p) \/ MainFails(p) \/ LoopObject(p) \/ LoopSourceFails(p) \/ LoopEnd(p)
            \/ Return(p) \/ RunLd(p) \/ Chmod(p) \/ Exit(p) \/ Kill(p)
  <2>1. tmp' = tmp
    BY <1>16, Zenon DEF Main, MainFails, LoopObject, LoopSourceFails, LoopEnd, Return, RunLd, Chmod,
       Exit, Kill
  <2> QED
    BY <1>6, <2>1, Zenon
<1> QED
  BY <1>9, <1>10, <1>11, <1>12, <1>13, <1>14, <1>15, <1>16, Zenon DEF Step

(* A driver leaves the variables and the files of the others alone.        *)
LEMMA StepApart ==
  ASSUME DriverInv, NEW p \in Proc, Step(p) \/ Kill(p), NEW q \in Proc, q # p
  PROVE  /\ job' = job /\ pc'[q] = pc[q] /\ idx'[q] = idx[q] /\ status'[q] = status[q]
         /\ ti'[q] = ti[q] /\ ts'[q] = ts[q] /\ objs'[q] = objs[q]
         /\ out'[q] = out[q] /\ failed'[q] = failed[q]
         /\ \A n \in TempName : tmp[n].by = q \/ tmp'[n].by = q => tmp'[n] = tmp[n]
<1>1. /\ job' = job /\ pc'[q] = pc[q] /\ idx'[q] = idx[q] /\ status'[q] = status[q]
      /\ ti'[q] = ti[q] /\ ts'[q] = ts[q] /\ objs'[q] = objs[q]
      /\ out'[q] = out[q] /\ failed'[q] = failed[q]
  <2> DEFINE Same == /\ job' = job /\ pc'[q] = pc[q] /\ idx'[q] = idx[q] /\ status'[q] = status[q]
                     /\ ti'[q] = ti[q] /\ ts'[q] = ts[q] /\ objs'[q] = objs[q]
                     /\ out'[q] = out[q] /\ failed'[q] = failed[q]
  <2>0. TypeOK
    BY Zenon DEF DriverInv
  <2>1. CASE Main(p) \/ MainFails(p) \/ LoopObject(p) \/ LoopSourceFails(p) \/ LoopEnd(p) \/ Exit(p)
             \/ Kill(p)
    BY <2>0, <2>1, Zenon DEF Main, MainFails, LoopObject, LoopSourceFails, LoopEnd, Exit, Kill, Goto, TypeOK
  <2>2. CASE LoopSource(p) \/ MakeTempS(p) \/ MakeTempI(p)
    BY <2>0, <2>2, Zenon DEF LoopSource, MakeTempS, MakeTempI, Goto, TypeOK
  <2>3. CASE RunCpp(p) \/ RunCc(p)
    BY <2>0, <2>3, Zenon DEF RunCpp, RunCc, ToolFails, Goto, TypeOK
  <2>4. CASE RunAs(p) \/ RunLd(p)
    BY <2>0, <2>4, Zenon DEF RunAs, RunLd, ToolFails, Goto, TypeOK
  <2>5. CASE DropTempI(p) \/ DropTempS(p) \/ Return(p) \/ Chmod(p) \/ CleanObject(p)
    BY <2>0, <2>5, Zenon DEF DropTempI, DropTempS, Return, Chmod, CleanObject, Goto, TypeOK
  <2> QED
    BY <2>1, <2>2, <2>3, <2>4, <2>5, Zenon DEF Step
<1>2. ASSUME NEW n \in TempName, tmp[n].by = q \/ tmp'[n].by = q
      PROVE  tmp'[n] = tmp[n]
  <2>1. OwnChange(p, n)
    BY StepFiles, Zenon
  <2>2. tmp[n].by = q => Exists(n)
    BY DriverConstants DEF Exists, Absent
  <2> QED
    BY <1>2, <2>1, <2>2, DriverConstants, Zenon DEF OwnChange
<1> QED
  BY <1>1, <1>2, Zenon

(* A temporary is written or unlinked by the driver that created it and by *)
(* no other: unlink by name in DropTempI, DropTempS and the cleanup at     *)
(* `done` never hits a file that another driver made.                      *)
THEOREM OnlyTheCreatorTouches == Spec => OnlyCreatorTouches
<1>1. ASSUME DriverInv, [Next]_vars
      PROVE  [\A n \in TempName :
                Exists(n) /\ tmp'[n] # tmp[n] =>
                  LET q == tmp[n].by IN pc'[q] # pc[q] \/ objs'[q] # objs[q]]_vars
  <2>1. ASSUME NEW p \in Proc, Step(p) \/ Kill(p), NEW n \in TempName, Exists(n), tmp'[n] # tmp[n]
        PROVE  LET q == tmp[n].by IN pc'[q] # pc[q] \/ objs'[q] # objs[q]
    BY <1>1, <2>1, StepFiles, Zenon DEF OwnChange
  <2> QED
    BY <1>1, <2>1, Zenon DEF Next
<1> QED
  BY <1>1, DriverInvariant, PTL DEF Spec, OnlyCreatorTouches

-----------------------------------------------------------------------------
(* A failed tool, and what a status of 0 stands for.                       *)

LEMMA StepFailing ==
  ASSUME DriverInv, NEW p \in Proc, Step(p) \/ Kill(p), Failing(p)
  PROVE  Failing(p)'
<1>1. TypeOK
  BY Zenon DEF DriverInv
<1> USE <1>1
<1>2. CASE Main(p) \/ MainFails(p) \/ LoopObject(p) \/ LoopSourceFails(p) \/ LoopEnd(p) \/ Exit(p)
           \/ Kill(p)
  BY <1>2, Zenon DEF Main, MainFails, LoopObject, LoopSourceFails, LoopEnd, Exit, Kill, Goto, TypeOK, Failing
<1>3. CASE LoopSource(p) \/ MakeTempS(p) \/ MakeTempI(p)
  BY <1>3, Zenon DEF LoopSource, MakeTempS, MakeTempI, Goto, TypeOK, Failing
<1>4. CASE RunCpp(p) \/ RunCc(p)
  BY <1>4, Zenon DEF RunCpp, RunCc, ToolFails, Goto, TypeOK, Failing
<1>5. CASE RunAs(p) \/ RunLd(p)
  BY <1>5, Zenon DEF RunAs, RunLd, ToolFails, Goto, TypeOK, Failing
<1>6. CASE DropTempI(p) \/ DropTempS(p)
  <2>1. 1 # 0
    OBVIOUS
  <2> QED
    BY <1>6, <2>1, Zenon DEF DropTempI, DropTempS, Goto, TypeOK, Failing
<1>7. CASE Return(p)
  <2>1. 1 # 0
    OBVIOUS
  <2> QED
    BY <1>7, <2>1, Zenon DEF Return, Goto, TypeOK, Failing
<1>8. CASE Chmod(p) \/ CleanObject(p)
  BY <1>8, Zenon DEF Chmod, CleanObject, Goto, TypeOK, Failing
<1> QED
  BY <1>2, <1>3, <1>4, <1>5, <1>6, <1>7, <1>8, Zenon DEF Step

(* run_tool's failure code survives every later assignment to `status`:    *)
(* no exit of a driver that ran a failing tool has status 0.               *)
THEOREM ToolFailuresAreReported == Spec => []ToolFailureReported
<1> DEFINE Inv == DriverInv /\ \A p \in Proc : Failing(p)
<1>1. Init => Inv
  <2>1. Init => \A p \in Proc : Failing(p)
    BY Zenon DEF Init, Failing
  <2> QED
    BY <2>1, DriverInvInit, Zenon
<1>2. Inv /\ [Next]_vars => Inv'
  <2> SUFFICES ASSUME Inv, [Next]_vars
               PROVE  \A q \in Proc : Failing(q)'
    BY DriverInvNext, Zenon
  <2>1. CASE UNCHANGED vars
    BY <2>1, Zenon DEF vars, Failing
  <2>2. ASSUME NEW p \in Proc, Step(p) \/ Kill(p), NEW q \in Proc
        PROVE  Failing(q)'
    <3>1. CASE q = p
      BY <2>2, <3>1, StepFailing, Zenon
    <3>2. CASE q # p
      <4>1. pc'[q] = pc[q] /\ status'[q] = status[q] /\ failed'[q] = failed[q]
        BY <2>2, <3>2, StepApart, Zenon
      <4> QED
        BY <4>1, Zenon DEF Failing
    <3> QED
      BY <3>1, <3>2, Zenon
  <2> QED
    BY <2>1, <2>2, Zenon DEF Next
<1>3. Inv => ToolFailureReported
  BY DEF Failing, ToolFailureReported
<1> QED
  BY <1>1, <1>2, <1>3, PTL DEF Spec

(* A finished output that a step writes is whole.                          *)
LEMMA WrittenOutput ==
  ASSUME DriverInv', job' = job, NEW p \in Proc, NEW kind \in {"s", "o", "exe"}, NEW x,
         out'[p] = Output(kind, x)
  PROVE  out'[p] = Output(kind, AllSrcs(p))
<1>1. AllSrcs(p)' = AllSrcs(p)
  BY Zenon DEF AllSrcs
<1>2. out'[p].kind = kind /\ out'[p].srcs = x
  BY DEF Output
<1>3. x = AllSrcs(p)
  BY <1>1, <1>2, Zenon DEF DriverInv, PInv, Whole
<1> QED
  BY <1>3, Zenon

(* Success(q) is about the variables of q.                                 *)
LEMMA SameSuccess ==
  ASSUME NEW q \in Proc, Success(q), job' = job, pc'[q] = pc[q], status'[q] = status[q],
         out'[q] = out[q], idx'[q] = idx[q]
  PROVE  Success(q)'
<1>1. AllSrcs(q)' = AllSrcs(q) /\ Sources(q)' = Sources(q)
  BY Zenon DEF AllSrcs, Sources
<1> QED
  BY <1>1, Zenon DEF Success

LEMMA StepSuccess ==
  ASSUME DriverInv, DriverInv', NEW p \in Proc, Step(p) \/ Kill(p), job' = job, Success(p)
  PROVE  Success(p)'
<1>1. /\ TypeOK /\ Control(p) /\ job[p] \in Jobs
      /\ AllSrcs(p)' = AllSrcs(p) /\ Sources(p)' = Sources(p)
  BY Zenon DEF DriverInv, PInv, TypeOK, AllSrcs, Sources
<1>2. job[p].mode \in {"S", "c", "link"} /\ status[p] \in {0, 1} /\ idx[p] \in Nat /\ 0 # 1
  BY <1>1, JobFacts DEF TypeOK
<1>3. \A i : i \in DOMAIN status => [status EXCEPT ![i] = 0][i] = 0 /\ [status EXCEPT ![i] = 1][i] = 1
  OBVIOUS
<1>4. idx[p] <= Len(job[p].inputs) /\ job[p].inputs[idx[p]] = "c" => idx[p] \in Sources(p)
  BY <1>1, JobFacts DEF TypeOK, Sources
<1>5. CASE \/ MainFails(p) \/ LoopEnd(p) \/ Exit(p) \/ Kill(p) \/ CleanObject(p)
  <2>1. UNCHANGED <<status, out, idx>>
    BY <1>5, Zenon DEF MainFails, LoopEnd, Exit, Kill, CleanObject
  <2>2. \/ pc[p] = "main" /\ pc'[p] = "done"
        \/ pc'[p] \in {"ld", "killed"}
        \/ pc[p] = "done" /\ pc'[p] \in {"done", "exit"}
    BY <1>1, <1>5, Zenon DEF MainFails, LoopEnd, Exit, Kill, CleanObject, Goto, TypeOK
  <2> QED
    BY <1>1, <1>2, <2>1, <2>2, Zenon DEF Success
<1>6. CASE Main(p)
  <2>1. /\ pc[p] = "main" /\ UNCHANGED <<status, out, idx>> /\ pc'[p] \in {"cc", "mk_s", "loop"}
    BY <1>1, <1>6, Zenon DEF Main, Goto, TypeOK
  <2> QED
    BY <1>1, <1>2, <2>1, Zenon DEF Success
<1>7. CASE LoopObject(p)
  <2>1. pc[p] = "loop" /\ pc'[p] = "loop" /\ UNCHANGED <<status, out>> /\ idx'[p] = idx[p] + 1
    BY <1>1, <1>7, Zenon DEF LoopObject, Goto, TypeOK
  <2>2. \A k \in Sources(p) : k \in Nat
    BY <1>1, JobFacts DEF Sources
  <2>3. \A k \in Sources(p) : k < idx[p] => k < idx'[p]
    BY <1>2, <2>1, <2>2
  <2> QED
    BY <1>1, <1>2, <2>1, <2>3, Zenon DEF Success
<1>8. CASE LoopSourceFails(p)
  <2>1. /\ pc[p] = "loop" /\ pc'[p] = "done" /\ UNCHANGED <<status, out, idx>>
        /\ idx[p] \in Sources(p)
    BY <1>1, <1>4, <1>8, Zenon DEF LoopSourceFails, Goto, TypeOK
  <2>2. \A k \in Sources(p) : k < idx[p] => k # idx[p]
    BY <1>2
  <2>3. job[p].mode = "link"
    BY <1>1, <1>2, <2>1, Zenon DEF Control
  <2>4. status[p] = 0 => \E k, l \in Sources(p) : k # l
    BY <2>1, <2>2, <2>3, Zenon DEF Success
  <2> QED
    BY <1>1, <1>2, <2>1, <2>3, <2>4, Zenon DEF Success
<1>9. CASE LoopSource(p)
  <2>1. pc[p] = "loop" /\ pc'[p] = "mk_s"
    BY <1>1, <1>9, Zenon DEF LoopSource, Goto, TypeOK
  <2> QED
    BY <2>1, Zenon DEF Success
<1>10. CASE MakeTempS(p) \/ MakeTempI(p)
  <2>1. \/ pc'[p] \in {"mk_i", "cpp"}
        \/ pc'[p] \in {"ret", "drop_s"} /\ status'[p] = 1
    BY <1>1, <1>10, Zenon DEF MakeTempS, MakeTempI, Goto, TypeOK
  <2> QED
    BY <1>2, <2>1, Zenon DEF Success
<1>11. CASE RunCpp(p)
  <2>1. pc[p] = "cpp" /\ pc'[p] \in {"cc", "drop_i"}
    BY <1>1, <1>11, Zenon DEF RunCpp, Goto, TypeOK
  <2> QED
    BY <1>1, <2>1, Zenon DEF Success, Control
<1>12. CASE RunCc(p)
  <2>1. \/ pc'[p] = "drop_i"
        \/ pc'[p] = "done" /\ status'[p] = 1
        \/ pc'[p] = "done" /\ job[p].mode = "S" /\ \E x : out'[p] = Output("s", x)
    BY <1>1, <1>12, Zenon DEF RunCc, Goto, TypeOK, ToolFails
  <2>2. ASSUME \E x : out'[p] = Output("s", x)
        PROVE  out'[p] = Output("s", AllSrcs(p))
    BY <2>2, WrittenOutput, Zenon
  <2> QED
    BY <1>1, <1>2, <2>1, <2>2, Zenon DEF Success
<1>13. CASE DropTempI(p)
  <2>1. pc'[p] = "as" \/ (pc'[p] = "drop_s" /\ status'[p] # 0)
    BY <1>1, <1>13, Zenon DEF DropTempI, Goto, TypeOK
  <2> QED
    BY <1>1, <1>2, <2>1, Zenon DEF Success
<1>14. CASE RunAs(p)
  <2>1. /\ pc'[p] = "drop_s"
        /\ job[p].mode = "c" => status'[p] = 1 \/ \E x : out'[p] = Output("o", x)
    BY <1>1, <1>14, ZenonT(30), ZenonT(60) DEF RunAs, Goto, TypeOK, ToolFails
  <2>2. ASSUME \E x : out'[p] = Output("o", x)
        PROVE  out'[p] = Output("o", AllSrcs(p))
    BY <2>2, WrittenOutput, Zenon
  <2> QED
    BY <1>1, <1>2, <2>1, <2>2, Zenon DEF Success
<1>15. CASE DropTempS(p)
  <2>1. pc[p] = "drop_s" /\ pc'[p] = "ret" /\ UNCHANGED <<status, out>>
    BY <1>1, <1>15, Zenon DEF DropTempS, Goto, TypeOK
  <2> QED
    BY <1>1, <2>1, Zenon DEF Success
<1>16. CASE Return(p)
  <2>1. pc[p] = "ret" /\ UNCHANGED <<status, out>>
    BY <1>1, <1>16, Zenon DEF Return, Goto, TypeOK
  <2>2. CASE job[p].mode = "link" /\ status[p] = 0
    <3>1. pc'[p] = "loop" /\ idx'[p] = idx[p] + 1
      BY <1>1, <1>16, <2>2, Zenon DEF Return, Goto, TypeOK
    <3>2. idx[p] \in Sources(p)
      BY <1>1, <1>4, <2>1, <2>2, Zenon DEF Control, Unit
    <3>3. idx[p] < idx'[p]
      BY <1>2, <3>1
    <3> QED
      BY <1>1, <2>2, <3>1, <3>2, <3>3, Zenon DEF Success
  <2>3. CASE ~(job[p].mode = "link" /\ status[p] = 0)
    <3>1. pc'[p] = "done"
      BY <1>1, <1>16, <2>3, Zenon DEF Return, Goto, TypeOK
    <3> QED
      BY <1>1, <1>2, <2>1, <2>3, <3>1, Zenon DEF Success, Control
  <2> QED
    BY <2>2, <2>3, Zenon
<1>17. CASE RunLd(p)
  <2>1. /\ pc[p] = "ld"
        /\ \/ pc'[p] = "chmod" /\ \E x : out'[p] = Output("exe", x)
           \/ pc'[p] = "done" /\ status'[p] = 1
    BY <1>1, <1>17, Zenon DEF RunLd, Goto, TypeOK, ToolFails
  <2>2. ASSUME \E x : out'[p] = Output("exe", x)
        PROVE  out'[p] = Output("exe", AllSrcs(p))
    BY <2>2, WrittenOutput, Zenon
  <2> QED
    BY <1>1, <1>2, <2>1, <2>2, Zenon DEF Success
<1>18. CASE Chmod(p)
  <2>1. pc[p] = "chmod" /\ pc'[p] = "done" /\ out' = out
    BY <1>1, <1>18, Zenon DEF Chmod, Goto, TypeOK
  <2>2. job[p].mode = "link"
    BY <1>1, <1>2, <2>1, Zenon DEF Control
  <2> QED
    BY <1>1, <2>1, <2>2, Zenon DEF Success
<1> QED
  BY <1>5, <1>6, <1>7, <1>8, <1>9, <1>10, <1>11, <1>12, <1>13, <1>14, <1>15, <1>16, <1>17, <1>18,
     Zenon DEF Step

(* A driver with at most one C source that exits with status 0 has written *)
(* the output that the user asked for, from all the inputs.  With two the  *)
(* code does not guarantee it: run driver_lost shows the failure.          *)
THEOREM OneUnitSuccess == Spec => []OneUnitSuccessMeansOutput
<1> DEFINE Inv == DriverInv /\ \A p \in Proc : Success(p)
<1>1. Init => Inv
  <2>1. Init => \A p \in Proc : Success(p)
    BY Zenon DEF Init, Success
  <2> QED
    BY <2>1, DriverInvInit, Zenon
<1>2. Inv /\ [Next]_vars => Inv'
  <2> SUFFICES ASSUME Inv, [Next]_vars
               PROVE  DriverInv' /\ \A q \in Proc : Success(q)'
    BY Zenon
  <2>0. DriverInv'
    BY DriverInvNext, Zenon
  <2>1. CASE UNCHANGED vars
    BY <2>0, <2>1, SameSuccess, Zenon DEF vars
  <2>2. ASSUME NEW p \in Proc, Step(p) \/ Kill(p), NEW q \in Proc
        PROVE  Success(q)'
    <3>0. job' = job
      BY <2>2, Zenon DEF Step, Kill, Main, MainFails, LoopObject, LoopSource, LoopSourceFails,
         LoopEnd, MakeTempS, MakeTempI, RunCpp, RunCc, DropTempI, RunAs, DropTempS, Return, RunLd,
         Chmod, CleanObject, Exit
    <3>1. CASE q = p
      BY <2>0, <2>2, <3>0, <3>1, StepSuccess, Zenon
    <3>2. CASE q # p
      <4>1. pc'[q] = pc[q] /\ status'[q] = status[q] /\ out'[q] = out[q] /\ idx'[q] = idx[q]
        BY <2>2, <3>2, StepApart, Zenon
      <4> QED
        BY <3>0, <4>1, SameSuccess, Zenon
    <3> QED
      BY <3>1, <3>2, Zenon
  <2> QED
    BY <2>0, <2>1, <2>2, Zenon DEF Next
<1>3. Inv => OneUnitSuccessMeansOutput
  <2> SUFFICES ASSUME Inv, NEW p \in Proc, pc[p] = "exit", status[p] = 0,
                      \A k, l \in Sources(p) : k = l
               PROVE  out[p] = Output(Wanted(p), AllSrcs(p))
    BY Zenon DEF OneUnitSuccessMeansOutput, Sources
  <2>1. job[p] \in Jobs
    BY Zenon DEF DriverInv, TypeOK
  <2>2. job[p].mode \in {"S", "c", "link"}
    BY <2>1, JobFacts, Zenon
  <2> QED
    BY <2>2, Zenon DEF Success, Wanted
<1> QED
  BY <1>1, <1>2, <1>3, PTL DEF Spec

-----------------------------------------------------------------------------
(* Temporaries that are left.                                              *)

(* A step of p that leaves /tmp alone and p the names it had.              *)
LEMMA SameKept ==
  ASSUME NEW p \in Proc, Kinds(p), Kept(p), job' = job,
         \A n \in TempName : tmp[n].by = p \/ tmp'[n].by = p => tmp'[n] = tmp[n],
         objs'[p] = objs[p], ts'[p] = ts[p], ti'[p] = ti[p],
         HoldsS(p)' <=> HoldsS(p), HoldsI(p)' <=> HoldsI(p),
         HoldsS(p) => ts[p] \in TempName /\ tmp[ts[p]].by = p,
         HoldsI(p) => ti[p] \in TempName /\ tmp[ti[p]].by = p,
         pc'[p] = "exit" => objs[p] = << >>,
         Loose(p) # {} =>
           \/ pc'[p] = pc[p] /\ status'[p] = status[p]
           \/ status'[p] = 1 /\ pc'[p] \in {"ret", "done", "exit"} /\ pc[p] # "killed"
  PROVE  Kinds(p)' /\ Kept(p)'
<1>1. Kinds(p)'
  BY Zenon DEF Kinds
<1>2. \A n : Named(p, n)' <=> Named(p, n)
  BY Zenon DEF Named
<1>3. Owned(p)' = Owned(p) /\ \A n \in Owned(p) : tmp'[n] = tmp[n]
  BY Zenon DEF Owned
<1>4. Loose(p)' = Loose(p) /\ \A n \in Loose(p) : tmp'[n] = tmp[n]
  BY <1>2, <1>3, Zenon DEF Loose
<1>5. Kept(p)'
  <2>1. ASSUME pc'[p] # "killed", Loose(p) # {}
        PROVE  /\ job[p].keep /\ status'[p] = 1 /\ pc'[p] \in {"drop_s", "ret", "done", "exit"}
               /\ \A n \in Loose(p) : tmp'[n].kind # "o"
               /\ pc'[p] = "drop_s" => \E a \in TempName : Loose(p) \subseteq {a}
               /\ \E a, b \in TempName : Loose(p) \subseteq {a, b}
    <3>1. pc[p] # "killed" /\ (pc'[p] = "drop_s" => pc[p] = "drop_s")
      BY <2>1
    <3> QED
      BY <1>4, <2>1, <3>1, Zenon DEF Kept
  <2> QED
    BY <1>4, <2>1 DEF Kept
<1> QED
  BY <1>1, <1>5, Zenon

(* A step after which every file of p has a name.                          *)
LEMMA NothingLoose ==
  ASSUME NEW p \in Proc, \A n \in TempName : tmp'[n].by = p => Named(p, n)'
  PROVE  Kept(p)'
<1>1. Loose(p)' = {}
  BY Zenon DEF Loose, Owned
<1> QED
  BY <1>1, Zenon DEF Kept

(* Outside the end of a unit that failed every file of p has a name.       *)
LEMMA AllNamed ==
  ASSUME NEW p \in Proc, Kept(p), pc[p] # "killed",
         ~(status[p] = 1 /\ job[p].keep /\ pc[p] \in {"drop_s", "ret", "done", "exit"})
  PROVE  \A n \in TempName : tmp[n].by = p => Named(p, n)
BY Zenon DEF Kept, Loose, Owned

LEMMA StepKept ==
  ASSUME DriverInv, NEW p \in Proc, Step(p) \/ Kill(p), job' = job, Kinds(p), Kept(p)
  PROVE  Kinds(p)' /\ Kept(p)'
<1>1. /\ TypeOK /\ Control(p) /\ Holds(p) /\ job[p] \in Jobs
  BY Zenon DEF DriverInv, PInv, TypeOK
<1>2. /\ job[p].mode \in {"S", "c", "link"} /\ status[p] \in {0, 1} /\ 0 # 1
      /\ Len(objs[p]) \in Nat /\ objs[p] \in Seq(TempName)
  BY <1>1, JobFacts, ObjectNames DEF TypeOK
<1>3. /\ HoldsS(p) => ts[p] \in TempName /\ tmp[ts[p]].by = p
      /\ HoldsI(p) => ti[p] \in TempName /\ tmp[ti[p]].by = p /\ ti[p] # ts[p]
  BY <1>1, Zenon DEF Holds
<1>4. CASE Kill(p)
  <2>1. pc'[p] = "killed"
    BY <1>1, <1>4, Zenon DEF Kill, TypeOK
  <2> QED
    BY <2>1 DEF Kinds, Kept, HoldsS, HoldsI
<1>5. CASE \/ Main(p) \/ MainFails(p) \/ LoopObject(p) \/ LoopSourceFails(p) \/ LoopEnd(p)
           \/ RunLd(p) \/ Chmod(p) \/ (RunCc(p) /\ job[p].mode = "S")
  <2>1. UNCHANGED <<tmp, objs, ts, ti>>
    BY <1>5, Zenon DEF Main, MainFails, LoopObject, LoopSourceFails, LoopEnd, RunLd, Chmod, RunCc
  <2>2. /\ pc[p] \in {"main", "loop", "ld", "chmod"} \/ (pc[p] = "cc" /\ job[p].mode = "S")
        /\ pc'[p] \in {"mk_s", "loop", "ld", "chmod", "done"} \/ (pc'[p] = "cc" /\ job[p].mode = "S")
    <3>1. CASE Main(p)
      BY <1>1, <3>1, Zenon DEF Main, Goto, TypeOK
    <3>2. CASE MainFails(p) \/ LoopObject(p) \/ LoopSourceFails(p) \/ LoopEnd(p) \/ RunLd(p) \/ Chmod(p)
      BY <1>1, <3>2, Zenon DEF MainFails, LoopObject, LoopSourceFails, LoopEnd, RunLd, Chmod, Goto, TypeOK
    <3>3. CASE RunCc(p) /\ job[p].mode = "S"
      BY <1>1, <3>3, Zenon DEF RunCc, Goto, TypeOK
    <3> QED
      BY <1>5, <3>1, <3>2, <3>3, Zenon
  <2>3. ~HoldsS(p) /\ ~HoldsI(p) /\ ~HoldsS(p)' /\ ~HoldsI(p)' /\ pc'[p] # "exit" /\ pc[p] # "killed"
    BY <2>2 DEF HoldsS, HoldsI
  <2>4. Loose(p) = {}
    BY <2>2, Zenon DEF Kept
  <2> QED
    BY <2>1, <2>3, <2>4, SameKept, Zenon
<1>6. CASE Return(p)
  <2>1. /\ UNCHANGED <<tmp, objs, ts, ti, status>> /\ pc[p] = "ret"
        /\ pc'[p] = "done" \/ (pc'[p] = "loop" /\ status[p] = 0)
    BY <1>1, <1>6, Zenon DEF Return, Goto, TypeOK
  <2>2. ~HoldsS(p) /\ ~HoldsI(p) /\ ~HoldsS(p)' /\ ~HoldsI(p)' /\ pc'[p] # "exit" /\ pc[p] # "killed"
    BY <2>1 DEF HoldsS, HoldsI
  <2>3. Loose(p) # {} => status'[p] = 1 /\ pc'[p] \in {"ret", "done", "exit"}
    BY <1>2, <2>1, Zenon DEF Kept
  <2> QED
    BY <2>1, <2>2, <2>3, SameKept, Zenon
<1>7. CASE Exit(p)
  <2>1. /\ UNCHANGED <<tmp, objs, ts, ti, status>> /\ pc[p] = "done" /\ pc'[p] = "exit"
        /\ objs[p] = << >>
    BY <1>1, <1>7, Zenon DEF Exit, Goto, TypeOK
  <2>2. ~HoldsS(p) /\ ~HoldsI(p) /\ ~HoldsS(p)' /\ ~HoldsI(p)' /\ pc[p] # "killed"
    BY <2>1 DEF HoldsS, HoldsI
  <2>3. Loose(p) # {} => status'[p] = 1 /\ pc'[p] \in {"ret", "done", "exit"}
    BY <2>1, <2>2, Zenon DEF Kept
  <2> QED
    BY <2>1, <2>2, <2>3, SameKept, Zenon
<1>8. CASE LoopSource(p)
  <2>1. PICK m \in TempName : MakeTemp(p, m) /\ objs' = [objs EXCEPT ![p] = Append(@, m)]
    BY <1>8, Zenon DEF LoopSource
  <2>2. /\ pc[p] = "loop" /\ pc'[p] = "mk_s" /\ objs'[p] = Append(objs[p], m)
        /\ \A n \in TempName : n # m => tmp'[n] = tmp[n]
    BY <1>1, <1>8, <2>1, Zenon DEF LoopSource, Goto, MakeTemp, TypeOK
  <2>3. ~HoldsS(p) /\ ~HoldsI(p) /\ ~HoldsS(p)' /\ ~HoldsI(p)' /\ pc'[p] # "exit" /\ pc[p] # "killed"
    BY <2>2 DEF HoldsS, HoldsI
  <2>4. \A n \in TempName : tmp[n].by = p => \E i \in 1 .. Len(objs[p]) : objs[p][i] = n
    BY <2>2, <2>3, AllNamed, Zenon DEF Named
  <2>5. /\ \A i \in 1 .. Len(objs[p]) : i \in 1 .. Len(objs'[p]) /\ objs'[p][i] = objs[p][i]
        /\ Len(objs'[p]) \in 1 .. Len(objs'[p]) /\ objs'[p][Len(objs'[p])] = m
    BY <1>2, <2>2
  <2>6. \A n \in TempName : tmp'[n].by = p => Named(p, n)'
    <3>1. \E i \in 1 .. Len(objs'[p]) : objs'[p][i] = m
      BY <2>5, Zenon
    <3>2. ASSUME NEW n \in TempName, n # m, tmp'[n].by = p
          PROVE  \E i \in 1 .. Len(objs'[p]) : objs'[p][i] = n
      <4>1. PICK i \in 1 .. Len(objs[p]) : objs[p][i] = n
        BY <2>2, <2>4, <3>2, Zenon
      <4>2. i \in 1 .. Len(objs'[p]) /\ objs'[p][i] = n
        BY <2>5, <4>1, Zenon
      <4> QED
        BY <4>2, Zenon
    <3> QED
      BY <3>1, <3>2, Zenon DEF Named
  <2> QED
    BY <2>3, <2>6, NothingLoose, Zenon DEF Kinds
<1>9. CASE MakeTempS(p)
  <2>1. /\ pc[p] = "mk_s" /\ pc'[p] \in {"mk_i", "ret"} /\ objs' = objs /\ ti' = ti
        /\ job[p].mode # "S"
    BY <1>1, <1>9, Zenon DEF MakeTempS, Goto, TypeOK, Control
  <2>2. /\ ~HoldsS(p) /\ ~HoldsI(p) /\ ~HoldsI(p)' /\ pc'[p] # "exit" /\ pc[p] # "killed"
        /\ HoldsS(p)' <=> pc'[p] = "mk_i"
    BY <2>1 DEF HoldsS, HoldsI
  <2>3. \A n \in TempName : tmp[n].by = p => \E i \in 1 .. Len(objs[p]) : objs[p][i] = n
    BY <2>1, <2>2, AllNamed, Zenon DEF Named
  <2>4. CASE pc'[p] = "ret"
    <3>1. tmp' = tmp
      BY <1>1, <1>9, <2>4, Zenon DEF MakeTempS, Goto, TypeOK
    <3>2. \A n \in TempName : tmp'[n].by = p => Named(p, n)'
      BY <2>1, <2>3, <3>1, Zenon DEF Named
    <3> QED
      BY <2>2, <2>4, <3>2, NothingLoose, Zenon DEF Kinds
  <2>5. CASE pc'[p] = "mk_i"
    <3>1. PICK m \in TempName : MakeTemp(p, m) /\ ts'[p] = m
      BY <1>1, <1>9, <2>5, Zenon DEF MakeTempS, Goto, TypeOK
    <3>2. tmp'[m] = File(p, "empty", NoSrc) /\ \A n \in TempName : n # m => tmp'[n] = tmp[n]
      BY <1>1, <3>1, Zenon DEF MakeTemp, TypeOK
    <3>3. tmp'[ts'[p]].kind # "o"
      BY <3>1, <3>2 DEF File
    <3>4. \A n \in TempName : tmp'[n].by = p => Named(p, n)'
      BY <2>1, <2>2, <2>3, <2>5, <3>1, <3>2, Zenon DEF Named
    <3> QED
      BY <2>2, <3>3, <3>4, NothingLoose, Zenon DEF Kinds
  <2> QED
    BY <2>1, <2>4, <2>5, Zenon
<1>10. CASE MakeTempI(p)
  <2>1. /\ pc[p] = "mk_i" /\ pc'[p] \in {"cpp", "drop_s"} /\ objs' = objs /\ ts' = ts
        /\ job[p].mode # "S"
    BY <1>1, <1>10, Zenon DEF MakeTempI, Goto, TypeOK, Control
  <2>2. /\ HoldsS(p) /\ ~HoldsI(p) /\ HoldsS(p)' /\ pc'[p] # "exit" /\ pc[p] # "killed"
        /\ HoldsI(p)' <=> pc'[p] = "cpp"
    BY <2>1 DEF HoldsS, HoldsI
  <2>3. \A n \in TempName :
          tmp[n].by = p => (\E i \in 1 .. Len(objs[p]) : objs[p][i] = n) \/ n = ts[p]
    BY <2>1, <2>2, AllNamed, Zenon DEF Named
  <2>4. CASE pc'[p] = "drop_s"
    <3>1. tmp' = tmp
      BY <1>1, <1>10, <2>4, Zenon DEF MakeTempI, Goto, TypeOK
    <3>2. \A n \in TempName : tmp'[n].by = p => Named(p, n)'
      BY <2>1, <2>2, <2>3, <3>1, Zenon DEF Named
    <3> QED
      BY <2>1, <2>2, <2>4, <3>1, <3>2, NothingLoose, Zenon DEF Kinds
  <2>5. CASE pc'[p] = "cpp"
    <3>1. PICK m \in TempName : MakeTemp(p, m) /\ ti'[p] = m
      BY <1>1, <1>10, <2>5, Zenon DEF MakeTempI, Goto, TypeOK
    <3>2. tmp'[m] = File(p, "empty", NoSrc) /\ \A n \in TempName : n # m => tmp'[n] = tmp[n]
      BY <1>1, <3>1, Zenon DEF MakeTemp, TypeOK
    <3>3. tmp'[m].kind # "o"
      BY <3>2 DEF File
    <3>4. tmp'[ts[p]].kind # "o"
      BY <1>3, <2>2, <3>2, <3>3, Zenon DEF Kinds
    <3>5. \A n \in TempName : tmp'[n].by = p => Named(p, n)'
      BY <2>1, <2>2, <2>3, <2>5, <3>1, <3>2, Zenon DEF Named
    <3> QED
      BY <2>1, <2>2, <3>1, <3>3, <3>4, <3>5, NothingLoose, Zenon DEF Kinds
  <2> QED
    BY <2>1, <2>4, <2>5, Zenon
<1>11. CASE RunCpp(p)
  <2>1. /\ pc[p] = "cpp" /\ pc'[p] \in {"cc", "drop_i"} /\ UNCHANGED <<objs, ts, ti>>
        /\ job[p].mode # "S"
    BY <1>1, <1>11, Zenon DEF RunCpp, Goto, TypeOK, Control
  <2>2. /\ HoldsS(p) /\ HoldsI(p) /\ HoldsS(p)' /\ HoldsI(p)' /\ pc'[p] # "exit" /\ pc[p] # "killed"
    BY <2>1 DEF HoldsS, HoldsI
  <2>3. \/ tmp' = tmp
        \/ tmp' = [tmp EXCEPT ![ti[p]] = File(p, "i", <<p, idx[p]>>)]
        \/ tmp' = [tmp EXCEPT ![ti[p]] = File(p, "partial", NoSrc)]
    BY <1>3, <1>11, <2>2, Zenon DEF RunCpp
  <2>4. /\ \A x : File(p, "i", x).kind # "o" /\ File(p, "i", x).by = p
        /\ File(p, "partial", NoSrc).kind # "o" /\ File(p, "partial", NoSrc).by = p
    BY DEF File
  <2>5. /\ \A n \in TempName : n # ti[p] => tmp'[n] = tmp[n]
        /\ tmp'[ti[p]].kind # "o"
    BY <1>1, <1>3, <2>2, <2>3, <2>4, ZenonT(30), ZenonT(60) DEF TypeOK, Kinds
  <2>6. \A n \in TempName : tmp[n].by = p => Named(p, n)
    BY <2>1, <2>2, AllNamed, Zenon
  <2>7. \A n \in TempName : tmp'[n].by = p => Named(p, n)'
    BY <1>3, <2>1, <2>2, <2>5, <2>6, Zenon DEF Named
  <2> QED
    BY <1>3, <2>1, <2>2, <2>5, <2>7, NothingLoose, Zenon DEF Kinds
<1>12. CASE RunCc(p) /\ job[p].mode # "S"
  <2>1. pc[p] = "cc" /\ pc'[p] = "drop_i" /\ UNCHANGED <<objs, ts, ti>>
    BY <1>1, <1>12, Zenon DEF RunCc, Goto, TypeOK
  <2>2. /\ HoldsS(p) /\ HoldsI(p) /\ HoldsS(p)' /\ HoldsI(p)' /\ pc'[p] # "exit" /\ pc[p] # "killed"
    BY <1>12, <2>1 DEF HoldsS, HoldsI
  <2>3. tmp' = tmp \/ \E x : tmp' = [tmp EXCEPT ![ts[p]] = File(p, "s", x)]
    BY <1>3, <1>12, <2>2, Zenon DEF RunCc
  <2>4. \A x : File(p, "s", x).kind # "o"
    BY DEF File
  <2>5. /\ \A n \in TempName : n # ts[p] => tmp'[n] = tmp[n]
        /\ tmp'[ts[p]].kind # "o"
    BY <1>1, <1>3, <2>2, <2>3, <2>4, ZenonT(30), ZenonT(60) DEF TypeOK, Kinds
  <2>6. \A n \in TempName : tmp[n].by = p => Named(p, n)
    BY <2>1, <2>2, AllNamed, Zenon
  <2>7. \A n \in TempName : tmp'[n].by = p => Named(p, n)'
    BY <1>3, <2>1, <2>2, <2>5, <2>6, Zenon DEF Named
  <2> QED
    BY <1>3, <2>1, <2>2, <2>5, <2>7, NothingLoose, Zenon DEF Kinds
<1>13. CASE RunAs(p)
  <2>1. /\ pc[p] = "as" /\ pc'[p] = "drop_s" /\ UNCHANGED <<objs, ts, ti>>
        /\ job[p].mode # "S"
    BY <1>1, <1>13, Zenon DEF RunAs, Goto, TypeOK, Control
  <2>2. /\ HoldsS(p) /\ ~HoldsI(p) /\ HoldsS(p)' /\ ~HoldsI(p)' /\ pc'[p] # "exit" /\ pc[p] # "killed"
    BY <2>1 DEF HoldsS, HoldsI
  <2>3. tmp' = tmp \/ (job[p].mode = "link" /\ \A n \in TempName : n # ObjectPath(p) => tmp'[n] = tmp[n])
    BY <1>1, <1>13, Zenon DEF RunAs, TypeOK
  <2>4. job[p].mode = "link" => \E i \in 1 .. Len(objs[p]) : objs[p][i] = ObjectPath(p)
    <3>1. job[p].mode = "link" => objs[p] # << >>
      BY <1>1, <2>1, Zenon DEF Control, Unit
    <3> QED
      BY <1>2, <3>1 DEF ObjectPath
  <2>5. tmp'[ts[p]] = tmp[ts[p]]
    BY <1>1, <1>3, <2>2, <2>3, <2>4, Zenon DEF Holds
  <2>6. \A n \in TempName : tmp[n].by = p => Named(p, n)
    BY <2>1, <2>2, AllNamed, Zenon
  <2>7. \A n \in TempName : tmp'[n].by = p => Named(p, n)'
    BY <1>3, <2>1, <2>2, <2>3, <2>4, <2>6, Zenon DEF Named
  <2> QED
    BY <1>3, <2>1, <2>2, <2>5, <2>7, NothingLoose, Zenon DEF Kinds
<1>14. CASE DropTempI(p)
  <2>1. /\ pc[p] = "drop_i" /\ UNCHANGED <<objs, ts, status>> /\ job[p].mode # "S"
        /\ pc'[p] \in {"as", "drop_s"} /\ (status[p] # 0 => pc'[p] = "drop_s")
    BY <1>1, <1>14, Zenon DEF DropTempI, Goto, TypeOK, Control
  <2>2. /\ HoldsS(p) /\ HoldsI(p) /\ HoldsS(p)' /\ ~HoldsI(p)' /\ pc'[p] # "exit" /\ pc[p] # "killed"
    BY <2>1 DEF HoldsS, HoldsI
  <2>3. \A n \in TempName : n # ti[p] => tmp'[n] = tmp[n]
    BY <1>1, <1>14, Zenon DEF DropTempI, Unlink, TypeOK
  <2>4. Kinds(p)'
    BY <1>3, <2>1, <2>2, <2>3, Zenon DEF Kinds
  <2>5. \A n \in TempName : tmp[n].by = p => Named(p, n)
    BY <2>1, <2>2, AllNamed, Zenon
  <2>6. \A n \in TempName : tmp'[n].by = p => Named(p, n)' \/ n = ti[p]
    BY <2>1, <2>2, <2>3, <2>5, Zenon DEF Named
  <2>7. CASE status[p] # 0 /\ job[p].keep
    <3>1. Loose(p)' \subseteq {ti[p]} /\ ti[p] \in TempName /\ {ti[p]} = {ti[p], ti[p]}
      BY <1>3, <2>2, <2>6, Zenon DEF Loose, Owned
    <3>2. tmp' = tmp /\ tmp[ti[p]].kind # "o" /\ status'[p] = 1 /\ pc'[p] = "drop_s"
      BY <1>2, <1>14, <2>1, <2>2, <2>7, Zenon DEF DropTempI, Kinds
    <3>3. /\ \A n \in Loose(p)' : tmp'[n].kind # "o"
          /\ \E a \in TempName : Loose(p)' \subseteq {a}
          /\ \E a, b \in TempName : Loose(p)' \subseteq {a, b}
      BY <3>1, <3>2, Zenon
    <3> QED
      BY <2>4, <2>7, <3>2, <3>3 DEF Kept
  <2>8. CASE ~(status[p] # 0 /\ job[p].keep)
    <3>1. tmp'[ti[p]] = Absent
      BY <1>1, <1>3, <1>14, <2>2, <2>8, Zenon DEF DropTempI, Unlink, TypeOK
    <3>2. tmp'[ti[p]].by # p
      BY <3>1, DriverConstants DEF Absent
    <3> QED
      BY <2>4, <2>6, <3>2, NothingLoose, Zenon
  <2> QED
    BY <2>7, <2>8, Zenon
<1>15. CASE DropTempS(p)
  <2>1. /\ pc[p] = "drop_s" /\ pc'[p] = "ret" /\ UNCHANGED <<objs, status>> /\ job[p].mode # "S"
    BY <1>1, <1>15, Zenon DEF DropTempS, Goto, TypeOK, Control
  <2>2. /\ HoldsS(p) /\ ~HoldsI(p) /\ ~HoldsS(p)' /\ ~HoldsI(p)' /\ pc'[p] # "exit" /\ pc[p] # "killed"
    BY <2>1 DEF HoldsS, HoldsI
  <2>3. \A n \in TempName : n # ts[p] => tmp'[n] = tmp[n]
    BY <1>1, <1>15, Zenon DEF DropTempS, Unlink, TypeOK
  <2>4. Kinds(p)'
    BY <2>2, Zenon DEF Kinds
  <2>5. CASE status[p] # 0 /\ job[p].keep
    <3>1. tmp' = tmp /\ tmp[ts[p]].kind # "o" /\ status'[p] = 1
      BY <1>2, <1>15, <2>1, <2>2, <2>5, Zenon DEF DropTempS, Kinds
    <3>2. \A n \in Loose(p)' : n \in Loose(p) \/ n = ts[p]
      BY <2>1, <2>2, <3>1, Zenon DEF Loose, Owned, Named
    <3>3. \A n \in Loose(p)' : tmp'[n].kind # "o"
      BY <2>2, <3>1, <3>2, Zenon DEF Kept
    <3>4. \E a \in TempName : Loose(p) \subseteq {a}
      BY <1>3, <2>1, <2>2, Zenon DEF Kept
    <3>5. \E a, b \in TempName : Loose(p)' \subseteq {a, b}
      <4>1. PICK a \in TempName : Loose(p) \subseteq {a}
        BY <3>4, Zenon
      <4>2. Loose(p)' \subseteq {a, ts[p]}
        BY <3>2, <4>1, Zenon
      <4> QED
        BY <1>3, <2>2, <4>2, Zenon
    <3> QED
      BY <2>1, <2>4, <2>5, <3>1, <3>3, <3>5 DEF Kept
  <2>6. CASE ~(status[p] # 0 /\ job[p].keep)
    <3>1. \A n \in TempName : tmp[n].by = p => Named(p, n)
      BY <1>2, <2>2, <2>6, AllNamed, Zenon
    <3>2. tmp'[ts[p]] = Absent
      BY <1>1, <1>3, <1>15, <2>2, <2>6, Zenon DEF DropTempS, Unlink, TypeOK
    <3>3. tmp'[ts[p]].by # p
      BY <3>2, DriverConstants DEF Absent
    <3>4. \A n \in TempName : tmp'[n].by = p => Named(p, n)'
      BY <2>1, <2>2, <2>3, <3>1, <3>3, Zenon DEF Named
    <3> QED
      BY <2>4, <3>4, NothingLoose, Zenon
  <2> QED
    BY <2>5, <2>6, Zenon
<1>16. CASE CleanObject(p)
  <2>1. /\ pc[p] = "done" /\ pc'[p] = "done" /\ UNCHANGED status /\ objs[p] # << >>
        /\ objs'[p] = SubSeq(objs[p], 1, Len(objs[p]) - 1)
        /\ tmp' = [tmp EXCEPT ![ObjectPath(p)] = Absent]
    BY <1>1, <1>16, Zenon DEF CleanObject, Unlink, Goto, TypeOK
  <2>2. ~HoldsS(p) /\ ~HoldsI(p) /\ ~HoldsS(p)' /\ ~HoldsI(p)' /\ pc'[p] # "exit" /\ pc[p] # "killed"
    BY <2>1 DEF HoldsS, HoldsI
  <2>3. /\ ObjectPath(p) = objs[p][Len(objs[p])]
        /\ \A i \in 1 .. Len(objs[p]) : i = Len(objs[p]) \/ (i \in 1 .. Len(objs'[p]) /\ objs'[p][i] = objs[p][i])
    BY <1>2, <2>1 DEF ObjectPath
  <2>4. Absent.by # p
    BY DriverConstants DEF Absent
  <2>5. ObjectPath(p) \in TempName
    BY <1>2, <2>1 DEF ObjectPath
  <2>6. /\ \A n \in TempName : n # ObjectPath(p) => tmp'[n] = tmp[n]
        /\ tmp'[ObjectPath(p)].by # p
    BY <1>1, <2>1, <2>4, <2>5, Zenon DEF TypeOK
  <2>7. \A n \in Loose(p)' : n \in Loose(p) /\ tmp'[n] = tmp[n]
    <3> SUFFICES ASSUME NEW n \in TempName, tmp'[n].by = p, ~Named(p, n)'
                 PROVE  n \in Loose(p) /\ tmp'[n] = tmp[n]
      BY Zenon DEF Loose, Owned
    <3>1. tmp'[n] = tmp[n] /\ n # ObjectPath(p)
      BY <2>6, Zenon
    <3>2. \A i \in 1 .. Len(objs[p]) : objs[p][i] # n
      BY <2>3, <3>1, Zenon DEF Named
    <3>3. ~Named(p, n)
      BY <2>2, <3>2, Zenon DEF Named
    <3> QED
      BY <3>1, <3>3, Zenon DEF Loose, Owned
  <2>8. Kept(p)'
    <3> SUFFICES ASSUME Loose(p)' # {}
                 PROVE  /\ job[p].keep /\ status'[p] = 1
                        /\ \A n \in Loose(p)' : tmp'[n].kind # "o"
                        /\ \E a, b \in TempName : Loose(p)' \subseteq {a, b}
      BY <2>1 DEF Kept
    <3>1. Loose(p) # {} /\ Loose(p)' \subseteq Loose(p)
      BY <2>7, Zenon
    <3>2. /\ job[p].keep /\ status'[p] = 1
          /\ \A n \in Loose(p) : tmp[n].kind # "o"
          /\ \E a, b \in TempName : Loose(p) \subseteq {a, b}
      BY <2>1, <2>2, <3>1, Zenon DEF Kept
    <3>3. \A n \in Loose(p)' : tmp'[n].kind # "o"
      BY <2>7, <3>2, Zenon
    <3>4. \E a, b \in TempName : Loose(p)' \subseteq {a, b}
      <4>1. PICK a \in TempName, b \in TempName : Loose(p) \subseteq {a, b}
        BY <3>2, Zenon
      <4>2. Loose(p)' \subseteq {a, b}
        BY <3>1, <4>1, Zenon
      <4> QED
        BY <4>2, Zenon
    <3> QED
      BY <3>2, <3>3, <3>4, Zenon
  <2> QED
    BY <2>2, <2>8, Zenon DEF Kinds
<1> QED
  BY <1>4, <1>5, <1>6, <1>7, <1>8, <1>9, <1>10, <1>11, <1>12, <1>13, <1>14, <1>15, <1>16,
     Zenon DEF Step

(* Every way out of main and compile_c_to_object unlinks what the driver   *)
(* made, whatever failed; MINIC_KEEP_FAILED_TEMPS keeps, after a failure,  *)
(* at most one .i and one .s, and never an object.                         *)
THEOREM NoTemporaryIsLeft == Spec => []NoLeak
<1> DEFINE Inv == DriverInv /\ \A p \in Proc : Kinds(p) /\ Kept(p)
<1>1. Init => Inv
  <2>1. ASSUME Init, NEW p \in Proc
        PROVE  Kinds(p) /\ Kept(p)
    <3>1. pc[p] = "main" /\ Owned(p) = {}
      BY <2>1, DriverConstants DEF Init, Owned, Absent
    <3> QED
      BY <3>1 DEF Kinds, Kept, Loose, HoldsS, HoldsI
  <2> QED
    BY <2>1, DriverInvInit, Zenon
<1>2. Inv /\ [Next]_vars => Inv'
  <2> SUFFICES ASSUME Inv, [Next]_vars
               PROVE  DriverInv' /\ \A q \in Proc : Kinds(q)' /\ Kept(q)'
    BY Zenon
  <2>0. DriverInv'
    BY DriverInvNext, Zenon
  <2>1. ASSUME NEW q \in Proc, job' = job, pc'[q] = pc[q], status'[q] = status[q],
               objs'[q] = objs[q], ts'[q] = ts[q], ti'[q] = ti[q],
               \A n \in TempName : tmp[n].by = q \/ tmp'[n].by = q => tmp'[n] = tmp[n]
        PROVE  Kinds(q)' /\ Kept(q)'
    <3>1. (HoldsS(q)' <=> HoldsS(q)) /\ (HoldsI(q)' <=> HoldsI(q))
      BY <2>1, Zenon DEF HoldsS, HoldsI
    <3>2. /\ HoldsS(q) => ts[q] \in TempName /\ tmp[ts[q]].by = q
          /\ HoldsI(q) => ti[q] \in TempName /\ tmp[ti[q]].by = q
      BY Zenon DEF DriverInv, PInv, Holds
    <3>3. Kinds(q) /\ Kept(q) /\ (pc'[q] = "exit" => objs[q] = << >>)
      BY <2>1, Zenon DEF Kinds
    <3>4. \/ pc'[q] = pc[q] /\ status'[q] = status[q]
          \/ status'[q] = 1 /\ pc'[q] \in {"ret", "done", "exit"} /\ pc[q] # "killed"
      BY <2>1, Zenon
    <3> QED
      BY <2>1, <3>1, <3>2, <3>3, <3>4, SameKept, SMTT(30), SMTT(60)
  <2>2. CASE UNCHANGED vars
    <3>1. UNCHANGED <<job, pc, status, objs, ts, ti, tmp>>
      BY <2>2, Zenon DEF vars
    <3> QED
      BY <2>0, <2>1, <3>1, Zenon
  <2>3. ASSUME NEW p \in Proc, Step(p) \/ Kill(p), NEW q \in Proc
        PROVE  Kinds(q)' /\ Kept(q)'
    <3>0. job' = job
      BY <2>3, Zenon DEF Step, Kill, Main, MainFails, LoopObject, LoopSource, LoopSourceFails,
         LoopEnd, MakeTempS, MakeTempI, RunCpp, RunCc, DropTempI, RunAs, DropTempS, Return, RunLd,
         Chmod, CleanObject, Exit
    <3>1. CASE q = p
      BY <2>3, <3>0, <3>1, StepKept, Zenon
    <3>2. CASE q # p
      <4>1. /\ pc'[q] = pc[q] /\ status'[q] = status[q]
            /\ objs'[q] = objs[q] /\ ts'[q] = ts[q] /\ ti'[q] = ti[q]
            /\ \A n \in TempName : tmp[n].by = q \/ tmp'[n].by = q => tmp'[n] = tmp[n]
        BY <2>3, <3>2, StepApart, Zenon
      <4> QED
        BY <2>1, <3>0, <4>1, Zenon
    <3> QED
      BY <3>1, <3>2, Zenon
  <2> QED
    BY <2>0, <2>2, <2>3, Zenon DEF Next
<1>3. Inv => NoLeak
  <2> SUFFICES ASSUME Inv, NEW p \in Proc, pc[p] = "exit"
               PROVE  IF job[p].keep /\ status[p] # 0
                      THEN /\ \A a, b, c \in Owned(p) : a = b \/ b = c \/ a = c
                           /\ \A n \in Owned(p) : tmp[n].kind # "o"
                      ELSE Owned(p) = {}
    BY Zenon DEF NoLeak
  <2>1. objs[p] = << >> /\ ~HoldsS(p) /\ ~HoldsI(p) /\ 1 # 0
    BY DEF Kinds, HoldsS, HoldsI
  <2>2. Len(objs[p]) = 0
    BY <2>1
  <2>3. \A n : ~Named(p, n)
    BY <2>1, <2>2 DEF Named
  <2>4. Loose(p) = Owned(p)
    BY <2>3, Zenon DEF Loose
  <2>5. CASE Owned(p) = {}
    BY <2>5, Zenon
  <2>6. CASE Owned(p) # {}
    <3>1. /\ job[p].keep /\ status[p] = 1 /\ \A n \in Owned(p) : tmp[n].kind # "o"
          /\ \E a, b \in TempName : Owned(p) \subseteq {a, b}
      BY <2>4, <2>6 DEF Kept
    <3>2. \A a, b, c \in Owned(p) : a = b \/ b = c \/ a = c
      BY <3>1, Zenon
    <3> QED
      BY <2>1, <3>1, <3>2, Zenon
  <2> QED
    BY <2>5, <2>6, Zenon
<1> QED
  BY <1>1, <1>2, <1>3, PTL DEF Spec

=============================================================================

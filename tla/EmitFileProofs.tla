--------------------------- MODULE EmitFileProofs ---------------------------
(***************************************************************************)
(* The output of minic-cc is replaced atomically, for any number of        *)
(* writers, temporaries and jobs.                                          *)
(***************************************************************************)
EXTENDS EmitFile, TLAPS

Working ==
  {"fdopen", "prefix", "globals", "between", "functions", "trailer", "close",
   "finalize", "rewrite", "rename", "remove"}

(* A writer at work has its temporary, and the file of that name is its    *)
(* own.                                                                    *)
OwnsTemp(w) == pc[w] \in Working => temp[w] \in Temps /\ dir[temp[w]] = w

(* The output is the old file or that of a writer that has returned TRUE,  *)
(* and its text is whole.                                                  *)
OutputIsWhole ==
  /\ dir[Path] \in Writers => pc[dir[Path]] = "done"
  /\ dir[Path] # None => text[dir[Path]] = WholeText(dir[Path])
  /\ text[Old] = OldText

(* What is in the temporary before function n + 1.                         *)
TextBefore(w, n) ==
  PrefixText(job[w]) \cup GlobalText(job[w].globals) \cup BetweenText(job[w])
    \cup FunctionText(job[w], n)

(* ok and the text that has been written, stage by stage.                  *)
Progress(w) ==
  /\ pc[w] \in {"create", "fdopen", "prefix"} => ok[w] /\ text[w] = {}
  /\ pc[w] = "globals" => ok[w] /\ text[w] = PrefixText(job[w]) \cup GlobalText(i[w])
  /\ pc[w] = "between" =>
       ok[w] /\ text[w] = PrefixText(job[w]) \cup GlobalText(job[w].globals)
  /\ pc[w] = "functions" /\ ok[w] => text[w] = TextBefore(w, i[w])
  /\ pc[w] = "trailer" => ok[w] /\ text[w] = TextBefore(w, Len(job[w].functions))
  /\ pc[w] = "close" /\ ok[w] => text[w] = WrittenText(job[w])
  /\ pc[w] = "finalize" => ok[w] /\ text[w] = WrittenText(job[w])
  /\ pc[w] = "rewrite" =>
       ok[w] /\ job[w].finalize = "rewrite" /\ copy[w] = WrittenText(job[w])
  /\ pc[w] = "rename" => ok[w] /\ text[w] = WholeText(w)
  /\ pc[w] = "remove" => ~ok[w]

(* The inductive invariant.                                                *)
EmitInv ==
  /\ TypeOK /\ TempsHaveOwners /\ OutputIsWhole
  /\ \A w \in Writers : OwnsTemp(w) /\ Progress(w)

-----------------------------------------------------------------------------

LEMMA JobTypes ==
  ASSUME TypeOK, NEW w \in Writers
  PROVE  /\ job[w].prefix \in BOOLEAN /\ job[w].between \in BOOLEAN
         /\ job[w].trailer \in BOOLEAN /\ job[w].census \in BOOLEAN
         /\ job[w].finalize \in {"none", "check", "rewrite"}
         /\ job[w].globals \in Nat /\ job[w].functions \in Seq(FunctionRecord)
         /\ Len(job[w].functions) \in Nat
<1>1. job[w] \in JobRecord
  BY JobsAssumption, Zenon DEF TypeOK
<1> QED
  BY <1>1 DEF JobRecord

LEMMA PiecesTyped ==
  \A n \in Nat :
    /\ {Torn} \subseteq Pieces /\ {Legal} \subseteq Pieces /\ OldText \subseteq Pieces
    /\ {Piece("prefix", 0)} \subseteq Pieces /\ {Piece("between", 0)} \subseteq Pieces
    /\ {Piece("trailer", 0)} \subseteq Pieces
    /\ {Piece("global", n)} \subseteq Pieces /\ {Piece("function", n)} \subseteq Pieces
  BY DEF Torn, Legal, OldText, Piece, Pieces, Kinds

(* The text of one more global, of one more function.                      *)
LEMMA GlobalTextGrows ==
  /\ GlobalText(0) = {}
  /\ \A n \in Nat : GlobalText(n + 1) = GlobalText(n) \cup {Piece("global", n + 1)}
<1>1. GlobalText(0) = {}
  BY DEF GlobalText
<1>2. ASSUME NEW n \in Nat
      PROVE  GlobalText(n + 1) = GlobalText(n) \cup {Piece("global", n + 1)}
  <2>1. 1 .. n + 1 = (1 .. n) \cup {n + 1}
    OBVIOUS
  <2> QED
    BY <2>1, Zenon DEF GlobalText
<1> QED
  BY <1>1, <1>2

LEMMA FunctionTextGrows ==
  ASSUME NEW j
  PROVE  /\ FunctionText(j, 0) = {}
         /\ \A n \in Nat :
              FunctionText(j, n + 1) =
                FunctionText(j, n) \cup
                  (IF Selected(j.functions[n + 1], j.selection)
                   THEN {Piece("function", n + 1)} ELSE {})
<1>1. FunctionText(j, 0) = {}
  BY DEF FunctionText
<1>2. ASSUME NEW n \in Nat
      PROVE  FunctionText(j, n + 1) =
               FunctionText(j, n) \cup
                 (IF Selected(j.functions[n + 1], j.selection)
                  THEN {Piece("function", n + 1)} ELSE {})
  <2>1. 1 .. n + 1 = (1 .. n) \cup {n + 1}
    OBVIOUS
  <2>2. CASE Selected(j.functions[n + 1], j.selection)
    BY <2>1, <2>2, Zenon DEF FunctionText
  <2>3. CASE ~Selected(j.functions[n + 1], j.selection)
    BY <2>1, <2>3, Zenon DEF FunctionText
  <2> QED
    BY <2>2, <2>3, Zenon
<1> QED
  BY <1>1, <1>2, Zenon

-----------------------------------------------------------------------------

LEMMA InitInv == Init => EmitInv
<1> SUFFICES ASSUME Init PROVE EmitInv
  OBVIOUS
<1>1. TypeOK
  <2>1. /\ pc \in [Writers -> Stages] /\ ok \in [Writers -> BOOLEAN]
        /\ i \in [Writers -> Nat] /\ temp \in [Writers -> Temps \cup {None}]
        /\ copy \in [Writers -> SUBSET Pieces] /\ job \in [Writers -> Jobs]
    BY Zenon DEF Init, Stages
  <2>2. dir \in [Names -> Files \cup {None}]
    BY Zenon DEF Init, Files
  <2>3. text \in [Files -> SUBSET Pieces]
    BY PiecesTyped, Zenon DEF Init
  <2>4. \A w \in Writers : pc[w] = "create" /\ i[w] = 0
    BY Zenon DEF Init
  <2> QED
    BY <2>1, <2>2, <2>3, <2>4, Zenon DEF TypeOK
<1>2. \A n \in Temps : dir[n] = None
  BY NamesAssumption, Zenon DEF Init, Names
<1>3. TempsHaveOwners
  BY <1>2, Zenon DEF TempsHaveOwners
<1>4. OutputIsWhole
  <2>1. dir[Path] \in {Old, None}
    BY Zenon DEF Init, Names
  <2>2. text[Old] = OldText
    BY Zenon DEF Init, Files
  <2> QED
    BY <2>1, <2>2, WritersAssumption, Zenon DEF OutputIsWhole, WholeText
<1>5. \A w \in Writers : OwnsTemp(w) /\ Progress(w)
  <2> TAKE w \in Writers
  <2>1. pc[w] = "create" /\ ok[w] /\ text[w] = {}
    BY WritersAssumption, Zenon DEF Init, Files
  <2> QED
    BY <2>1, Zenon DEF OwnsTemp, Working, Progress
<1> QED
  BY <1>1, <1>3, <1>4, <1>5, Zenon DEF EmitInv

-----------------------------------------------------------------------------

(* A step of w writes to its own file only.                                *)
LEMMA StepText ==
  ASSUME EmitInv, NEW w \in Writers, Step(w) \/ Crash(w)
  PROVE  text' = text \/ \E P \in SUBSET Pieces : text' = [text EXCEPT ![w] = P]
<1>t. text[w] \in SUBSET Pieces /\ i[w] + 1 \in Nat /\ copy[w] \in SUBSET Pieces
  BY DEF EmitInv, TypeOK, Files
<1>a. ASSUME NEW p \in Pieces, text' = [text EXCEPT ![w] = @ \cup {p}]
      PROVE  \E P \in SUBSET Pieces : text' = [text EXCEPT ![w] = P]
  <2>1. text[w] \cup {p} \in SUBSET Pieces
    BY <1>t, Zenon
  <2>2. text' = [text EXCEPT ![w] = text[w] \cup {p}]
    BY <1>a, Zenon
  <2> QED
    BY <2>1, <2>2, Zenon
<1>p. /\ Torn \in Pieces /\ Legal \in Pieces /\ Piece("prefix", 0) \in Pieces
      /\ Piece("between", 0) \in Pieces /\ Piece("trailer", 0) \in Pieces
      /\ Piece("global", i[w] + 1) \in Pieces /\ Piece("function", i[w] + 1) \in Pieces
  BY <1>t, PiecesTyped, Zenon
<1>1. CASE CreateTemp(w) \/ CreateFails(w) \/ FdOpen(w) \/ GlobalsEnd(w)
             \/ FunctionsEnd(w) \/ Rename(w) \/ Remove(w) \/ Crash(w)
  BY <1>1, Zenon DEF CreateTemp, CreateFails, FdOpen, GlobalsEnd, FunctionsEnd,
     Rename, Remove, Crash
<1>2. CASE EmitPrefix(w)
  BY <1>2, <1>a, <1>p, Zenon DEF EmitPrefix, Writes, WriteFails
<1>3. CASE EmitGlobal(w)
  BY <1>3, <1>a, <1>p, Zenon DEF EmitGlobal, Writes, WriteFails
<1>4. CASE EmitBetween(w)
  BY <1>4, <1>a, <1>p, Zenon DEF EmitBetween, Writes, WriteFails
<1>5. CASE EmitFunction(w)
  BY <1>5, <1>a, <1>p, Zenon DEF EmitFunction, Writes
<1>6. CASE EmitTrailer(w)
  BY <1>6, <1>a, <1>p, Zenon DEF EmitTrailer, Writes, WriteFails
<1>7. CASE Close(w)
  BY <1>7, <1>a, <1>p, Zenon DEF Close, WriteFails
<1>8. CASE Finalize(w)
  <2>1. At(w, "finalize") => dir[temp[w]] = w
    BY Zenon DEF EmitInv, OwnsTemp, Working, At
  <2> QED
    BY <1>8, <2>1, Zenon DEF Finalize
<1>9. CASE Rewrite(w)
  <2>1. At(w, "rewrite") => dir[temp[w]] = w
    BY Zenon DEF EmitInv, OwnsTemp, Working, At
  <2>2. copy[w] \cup {Legal} \in SUBSET Pieces /\ {Torn} \in SUBSET Pieces
    BY <1>t, <1>p, Zenon
  <2> QED
    BY <1>9, <2>1, <2>2, Zenon DEF Rewrite
<1> QED
  BY <1>1, <1>2, <1>3, <1>4, <1>5, <1>6, <1>7, <1>8, <1>9, Zenon DEF Step

LEMMA TextFrame ==
  ASSUME EmitInv, NEW w \in Writers, Step(w) \/ Crash(w)
  PROVE  /\ text' \in [Files -> SUBSET Pieces]
         /\ \A f \in Files : f # w => text'[f] = text[f]
<1>1. text \in [Files -> SUBSET Pieces] /\ w \in Files
  BY Zenon DEF EmitInv, TypeOK, Files
<1>2. CASE text' = text
  BY <1>1, <1>2
<1>3. CASE \E P \in SUBSET Pieces : text' = [text EXCEPT ![w] = P]
  BY <1>1, <1>3, Zenon
<1> QED
  BY <1>2, <1>3, StepText, Zenon

(* The rest of the state: the variables of w, and its names.               *)
LocalType ==
  /\ pc' \in [Writers -> Stages] /\ ok' \in [Writers -> BOOLEAN]
  /\ i' \in [Writers -> Nat] /\ temp' \in [Writers -> Temps \cup {None}]

LocalFrame(w) ==
  /\ job' = job
  /\ \A v \in Writers : v # w =>
       pc'[v] = pc[v] /\ ok'[v] = ok[v] /\ i'[v] = i[v] /\ temp'[v] = temp[v]

LEMMA StepLocal ==
  ASSUME EmitInv, NEW w \in Writers, Step(w) \/ Crash(w)
  PROVE  LocalType /\ LocalFrame(w)
<1> USE DEF At, Goto, Fail, LocalType, LocalFrame, Stages
<1>t. /\ pc \in [Writers -> Stages] /\ ok \in [Writers -> BOOLEAN]
      /\ i \in [Writers -> Nat] /\ temp \in [Writers -> Temps \cup {None}]
  BY Zenon DEF EmitInv, TypeOK
<1>1. CASE CreateTemp(w)
  BY <1>1, <1>t DEF CreateTemp
<1>2. CASE CreateFails(w)
  BY <1>2, <1>t, Zenon DEF CreateFails
<1>3. CASE FdOpen(w)
  BY <1>3, <1>t, Zenon DEF FdOpen
<1>4. CASE EmitPrefix(w)
  BY <1>4, <1>t, Zenon DEF EmitPrefix, Writes, WriteFails, AfterFailure
<1>5. CASE EmitGlobal(w)
  <2>1. \/ i' = [i EXCEPT ![w] = i[w] + 1]
        \/ i' = [i EXCEPT ![w] = 0]
    BY <1>5, Zenon DEF EmitGlobal
  <2>2. i' \in [Writers -> Nat] /\ \A v \in Writers : v # w => i'[v] = i[v]
    BY <1>t, <2>1
  <2>3. \E x \in {"globals", "functions", "close"} : pc' = [pc EXCEPT ![w] = x] \/ pc' = pc
    BY <1>5, Zenon DEF EmitGlobal, Writes, WriteFails, AfterFailure
  <2>4. ok' = ok \/ ok' = [ok EXCEPT ![w] = FALSE]
    BY <1>5, Zenon DEF EmitGlobal, Writes, WriteFails, AfterFailure
  <2>5. temp' = temp /\ job' = job
    BY <1>5, Zenon DEF EmitGlobal
  <2> QED
    BY <1>t, <2>2, <2>3, <2>4, <2>5, Zenon
<1>6. CASE GlobalsEnd(w)
  BY <1>6, <1>t, Zenon DEF GlobalsEnd
<1>7. CASE EmitBetween(w)
  BY <1>7, <1>t, Zenon DEF EmitBetween, Writes, WriteFails, AfterFailure
<1>8. CASE EmitFunction(w)
  <2>1. \/ i' = [i EXCEPT ![w] = i[w] + 1]
        \/ i' = [i EXCEPT ![w] = 0]
    BY <1>8, Zenon DEF EmitFunction
  <2>2. i' \in [Writers -> Nat] /\ \A v \in Writers : v # w => i'[v] = i[v]
    BY <1>t, <2>1
  <2>3. \E x \in {"globals", "functions", "close"} : pc' = [pc EXCEPT ![w] = x] \/ pc' = pc
    BY <1>8, Zenon DEF EmitFunction, Writes, FunctionFails
  <2>4. ok' = ok \/ ok' = [ok EXCEPT ![w] = FALSE]
    BY <1>8, Zenon DEF EmitFunction, Writes, FunctionFails
  <2>5. temp' = temp /\ job' = job
    BY <1>8, Zenon DEF EmitFunction
  <2> QED
    BY <1>t, <2>2, <2>3, <2>4, <2>5, Zenon
<1>9. CASE FunctionsEnd(w)
  BY <1>9, <1>t, Zenon DEF FunctionsEnd
<1>10. CASE EmitTrailer(w)
  BY <1>10, <1>t, Zenon DEF EmitTrailer, Writes, WriteFails
<1>11. CASE Close(w)
  BY <1>11, <1>t, Zenon DEF Close, WriteFails
<1>12. CASE Finalize(w)
  BY <1>12, <1>t, Zenon DEF Finalize
<1>13. CASE Rewrite(w)
  BY <1>13, <1>t, Zenon DEF Rewrite
<1>14. CASE Rename(w)
  BY <1>14, <1>t, Zenon DEF Rename
<1>15. CASE Remove(w)
  BY <1>15, <1>t, Zenon DEF Remove
<1>16. CASE Crash(w)
  BY <1>16, <1>t, Zenon DEF Crash
<1> QED
  BY <1>1, <1>2, <1>3, <1>4, <1>5, <1>6, <1>7, <1>8, <1>9, <1>10, <1>11, <1>12, <1>13, <1>14, <1>15, <1>16, Zenon DEF Step

-----------------------------------------------------------------------------

(* The counter stays in its loop.                                          *)
Counter(w) ==
  /\ pc[w] \in {"create", "fdopen", "prefix", "between"} => i[w] = 0
  /\ pc[w] = "globals" => i[w] <= job[w].globals
  /\ pc[w] \in {"functions", "close"} => i[w] <= Len(job[w].functions)
  /\ pc[w] = "trailer" => i[w] = Len(job[w].functions)

(* The stages that start with nothing to show.                             *)
LEMMA Idle ==
  ASSUME NEW w, \/ pc'[w] \in {"done", "dead"}
                \/ pc'[w] = "remove" /\ ~ok'[w]
                \/ pc'[w] = "close" /\ ~ok'[w] /\ i'[w] <= Len(job'[w].functions)
                \/ pc'[w] = "functions" /\ ~ok'[w] /\ i'[w] <= Len(job'[w].functions)
  PROVE  Counter(w)' /\ Progress(w)'
  BY Zenon DEF Counter, Progress

LEMMA StepProgress ==
  ASSUME EmitInv, NEW w \in Writers, Step(w) \/ Crash(w)
  PROVE  Counter(w)' /\ Progress(w)'
<1> USE DEF At, Goto, Fail
<1>t. /\ pc \in [Writers -> Stages] /\ ok \in [Writers -> BOOLEAN]
      /\ i \in [Writers -> Nat] /\ text \in [Files -> SUBSET Pieces]
      /\ w \in Files /\ w # Old /\ copy \in [Writers -> SUBSET Pieces]
  BY WritersAssumption, Zenon DEF EmitInv, TypeOK, Files
<1>j. /\ job' = job /\ job[w].globals \in Nat /\ Len(job[w].functions) \in Nat
      /\ 0 <= Len(job[w].functions) /\ 0 <= job[w].globals
  BY StepLocal, JobTypes DEF EmitInv, LocalFrame
<1>c. Counter(w) /\ Progress(w)
  BY Zenon DEF EmitInv, TypeOK, Counter
<1>g. GlobalText(0) = {} /\ FunctionText(job[w], 0) = {}
  BY GlobalTextGrows, FunctionTextGrows, Zenon
<1>f. ASSUME WriteFails(w, AfterFailure(w)), i'[w] = 0
      PROVE  Counter(w)' /\ Progress(w)'
  <2>1. ~ok'[w] /\ pc'[w] \in {"functions", "close"}
    BY <1>f, <1>t, Zenon DEF WriteFails, AfterFailure
  <2> QED
    BY <2>1, <1>f, <1>j, Idle, Zenon
<1>1. CASE CreateTemp(w)
  <2>1. pc'[w] = "fdopen" /\ ok'[w] = ok[w] /\ i'[w] = i[w] /\ text'[w] = text[w]
    BY <1>1, <1>t, Zenon DEF CreateTemp
  <2>2. pc[w] = "create"
    BY <1>1, Zenon DEF CreateTemp
  <2> QED
    BY <2>1, <2>2, <1>c, Zenon DEF Counter, Progress
<1>2. CASE CreateFails(w)
  <2>1. pc'[w] = "done"
    BY <1>2, <1>t, Zenon DEF CreateFails
  <2> QED
    BY <2>1, Idle, Zenon
<1>3. CASE FdOpen(w)
  <2>1. pc[w] = "fdopen" /\ i'[w] = i[w] /\ text'[w] = text[w]
    BY <1>3, Zenon DEF FdOpen
  <2>2. \/ pc'[w] = "prefix" /\ ok'[w] = ok[w]
        \/ pc'[w] = "remove" /\ ~ok'[w]
    BY <1>3, <1>t, Zenon DEF FdOpen
  <2>3. CASE pc'[w] = "prefix" /\ ok'[w] = ok[w]
    BY <2>1, <2>3, <1>c, Zenon DEF Counter, Progress
  <2> QED
    BY <2>2, <2>3, Idle, Zenon
<1>4. CASE EmitPrefix(w)
  <2>1. pc[w] = "prefix" /\ i' = i /\ i[w] = 0 /\ ok[w] /\ text[w] = {}
    BY <1>4, <1>c, Zenon DEF EmitPrefix, Counter, Progress
  <2>2. CASE WriteFails(w, AfterFailure(w))
    BY <2>1, <2>2, <1>f, Zenon
  <2>3. CASE job[w].prefix /\ Writes(w, Piece("prefix", 0), "globals")
    <3>1. pc'[w] = "globals" /\ ok'[w] /\ text'[w] = PrefixText(job[w]) \cup {}
      BY <2>1, <2>3, <1>t, Zenon DEF Writes, PrefixText
    <3> QED
      BY <3>1, <2>1, <1>j, <1>g, Zenon DEF Counter, Progress
  <2>4. CASE ~job[w].prefix /\ Goto(w, "globals") /\ UNCHANGED <<ok, text>>
    <3>1. pc'[w] = "globals" /\ ok'[w] /\ text'[w] = PrefixText(job[w]) \cup {}
      BY <2>1, <2>4, <1>t, Zenon DEF PrefixText
    <3> QED
      BY <3>1, <2>1, <1>j, <1>g DEF Counter, Progress
  <2> QED
    BY <1>4, <2>2, <2>3, <2>4, Zenon DEF EmitPrefix
<1>5. CASE EmitGlobal(w)
  <2>1. /\ pc[w] = "globals" /\ i[w] < job[w].globals /\ ok[w]
        /\ text[w] = PrefixText(job[w]) \cup GlobalText(i[w])
    BY <1>5, <1>c, Zenon DEF EmitGlobal, Progress
  <2>2. CASE WriteFails(w, AfterFailure(w)) /\ i' = [i EXCEPT ![w] = 0]
    BY <2>2, <1>f, <1>t, Zenon
  <2>3. CASE Writes(w, Piece("global", i[w] + 1), "globals") /\ i' = [i EXCEPT ![w] = @ + 1]
    <3>1. /\ pc'[w] = "globals" /\ ok'[w] = ok[w]
          /\ text'[w] = text[w] \cup {Piece("global", i[w] + 1)}
      BY <2>3, <1>t, Zenon DEF Writes
    <3>2. i'[w] = i[w] + 1 /\ i'[w] <= job[w].globals
      BY <2>3, <2>1, <1>t, <1>j
    <3>3. GlobalText(i[w] + 1) = GlobalText(i[w]) \cup {Piece("global", i[w] + 1)}
      BY <1>t, GlobalTextGrows, Zenon
    <3>4. text'[w] = PrefixText(job[w]) \cup GlobalText(i'[w])
      BY <2>1, <3>1, <3>2, <3>3, Zenon
    <3> QED
      BY <3>1, <3>2, <3>4, <2>1, <1>j, Zenon DEF Counter, Progress
  <2> QED
    BY <1>5, <2>2, <2>3, Zenon DEF EmitGlobal
<1>6. CASE GlobalsEnd(w)
  <2>1. /\ ok[w] /\ text[w] = PrefixText(job[w]) \cup GlobalText(job[w].globals)
        /\ pc'[w] = "between" /\ i'[w] = 0 /\ ok' = ok /\ text' = text
    BY <1>6, <1>c, <1>t, Zenon DEF GlobalsEnd, Progress
  <2> QED
    BY <2>1, <1>j, Zenon DEF Counter, Progress
<1>7. CASE EmitBetween(w)
  <2>1. /\ pc[w] = "between" /\ i' = i /\ i[w] = 0 /\ ok[w]
        /\ text[w] = PrefixText(job[w]) \cup GlobalText(job[w].globals)
    BY <1>7, <1>c, Zenon DEF EmitBetween, Counter, Progress
  <2>2. CASE WriteFails(w, AfterFailure(w))
    BY <2>1, <2>2, <1>f, Zenon
  <2>3. ASSUME pc'[w] = "functions", ok'[w] = ok[w], text'[w] = text[w] \cup BetweenText(job[w])
        PROVE  Counter(w)' /\ Progress(w)'
    <3>1. text'[w] = TextBefore(w, 0)
      BY <2>1, <2>3, <1>g, Zenon DEF TextBefore
    <3>2. text'[w] = TextBefore(w, i[w])'
      BY <3>1, <2>1, <1>j, Zenon DEF TextBefore
    <3> QED
      BY <2>1, <2>3, <3>2, <1>j, Zenon DEF Counter, Progress
  <2>4. CASE job[w].between /\ Writes(w, Piece("between", 0), "functions")
    BY <2>3, <2>4, <1>t, Zenon DEF Writes, BetweenText
  <2>5. CASE ~job[w].between /\ Goto(w, "functions") /\ UNCHANGED <<ok, text>>
    BY <2>3, <2>5, <1>t, Zenon DEF BetweenText
  <2> QED
    BY <1>7, <2>2, <2>4, <2>5, Zenon DEF EmitBetween
<1>8. CASE EmitFunction(w)
  <2> DEFINE chosen == Selected(CurrentFunction(w), job[w].selection)
             p == Piece("function", i[w] + 1)
  <2>1. /\ pc[w] = "functions" /\ i[w] < Len(job[w].functions)
        /\ i' = [i EXCEPT ![w] = i[w] + 1]
        /\ ok[w] => text[w] = TextBefore(w, i[w])
    BY <1>8, <1>c DEF EmitFunction, Progress
  <2>2. i'[w] = i[w] + 1 /\ i'[w] <= Len(job[w].functions)
    BY <2>1, <1>t, <1>j
  <2>3. FunctionText(job[w], i[w] + 1) =
          FunctionText(job[w], i[w]) \cup (IF chosen THEN {p} ELSE {})
    BY <1>t, FunctionTextGrows, Zenon DEF CurrentFunction
  <2>4. ASSUME pc'[w] = "functions", ok'[w] = ok[w],
               text'[w] = text[w] \cup (IF chosen THEN {p} ELSE {})
        PROVE  Counter(w)' /\ Progress(w)'
    <3>1. ok[w] => text'[w] = TextBefore(w, i[w] + 1)
      BY <2>1, <2>3, <2>4, Zenon DEF TextBefore
    <3>2. ok[w] => text'[w] = TextBefore(w, i[w])'
      BY <3>1, <2>2, <1>j, Zenon DEF TextBefore
    <3> QED
      BY <2>2, <2>4, <3>2, <1>j, Zenon DEF Counter, Progress
  <2>5. CASE ~chosen /\ UNCHANGED <<pc, ok, text>>
    BY <2>1, <2>4, <2>5
  <2>6. CASE chosen /\ Writes(w, p, "functions")
    <3>1. pc'[w] = "functions" /\ ok'[w] = ok[w] /\ text'[w] = text[w] \cup {p}
      BY <2>6, <1>t, Zenon DEF Writes
    <3> QED
      BY <2>4, <2>6, <3>1, Zenon
  <2>7. CASE FunctionFails(w)
    <3>1. ~ok'[w] /\ pc'[w] \in {"functions", "close"}
      BY <2>7, <1>t DEF FunctionFails
    <3> QED
      BY <3>1, <2>2, <1>j, Idle
  <2> QED
    BY <1>8, <2>5, <2>6, <2>7, Zenon DEF EmitFunction
<1>9. CASE FunctionsEnd(w)
  <2>1. /\ pc[w] = "functions" /\ i' = i /\ ok' = ok /\ text' = text
        /\ i[w] = Len(job[w].functions)
        /\ ok[w] => text[w] = TextBefore(w, i[w])
        /\ pc'[w] = IF ok[w] THEN "trailer" ELSE "close"
    BY <1>9, <1>c, <1>t, Zenon DEF FunctionsEnd, Progress
  <2>2. CASE ok[w]
    <3>1. text'[w] = TextBefore(w, Len(job[w].functions))'
      BY <2>1, <2>2, <1>j, Zenon DEF TextBefore
    <3> QED
      BY <2>1, <2>2, <3>1, <1>j DEF Counter, Progress
  <2>3. CASE ~ok[w]
    BY <2>1, <2>3, <1>j, Idle
  <2> QED
    BY <2>2, <2>3
<1>10. CASE EmitTrailer(w)
  <2>1. /\ pc[w] = "trailer" /\ i' = i /\ ok[w] /\ i[w] = Len(job[w].functions)
        /\ text[w] = TextBefore(w, Len(job[w].functions))
    BY <1>10, <1>c, Zenon DEF EmitTrailer, Counter, Progress
  <2>2. CASE WriteFails(w, "close")
    <3>1. ~ok'[w] /\ pc'[w] = "close"
      BY <2>2, <1>t, Zenon DEF WriteFails
    <3> QED
      BY <3>1, <2>1, <1>j, Idle
  <2>3. ASSUME pc'[w] = "close", text'[w] = text[w] \cup TrailerText(job[w])
        PROVE  Counter(w)' /\ Progress(w)'
    <3>1. text'[w] = WrittenText(job[w])
      BY <2>1, <2>3, Zenon DEF TextBefore, WrittenText
    <3> QED
      BY <2>1, <2>3, <3>1, <1>j DEF Counter, Progress
  <2>4. CASE job[w].trailer /\ Writes(w, Piece("trailer", 0), "close")
    BY <2>3, <2>4, <1>t, Zenon DEF Writes, TrailerText
  <2>5. CASE ~job[w].trailer /\ Goto(w, "close") /\ UNCHANGED <<ok, text>>
    BY <2>3, <2>5, <1>t, Zenon DEF TrailerText
  <2> QED
    BY <1>10, <2>2, <2>4, <2>5, Zenon DEF EmitTrailer
<1>11. CASE Close(w)
  <2>1. pc[w] = "close" /\ (ok[w] => text[w] = WrittenText(job[w]))
    BY <1>11, <1>c, Zenon DEF Close, Progress
  <2>2. CASE WriteFails(w, "remove")
    <3>1. ~ok'[w] /\ pc'[w] = "remove"
      BY <2>2, <1>t, Zenon DEF WriteFails
    <3> QED
      BY <3>1, Idle
  <2>3. CASE ok[w] /\ Goto(w, "finalize") /\ UNCHANGED <<ok, text>>
    <3>1. pc'[w] = "finalize"
      BY <2>3, <1>t, Zenon
    <3> QED
      BY <2>1, <2>3, <3>1, <1>j, Zenon DEF Counter, Progress
  <2>4. CASE ~ok[w] /\ Goto(w, "remove") /\ UNCHANGED <<ok, text>>
    BY <2>4, <1>t, Idle, Zenon
  <2> QED
    BY <1>11, <2>2, <2>3, <2>4, Zenon DEF Close
<1>12. CASE Finalize(w)
  <2>1. pc[w] = "finalize" /\ ok[w] /\ text[w] = WrittenText(job[w]) /\ dir[temp[w]] = w
    BY <1>12, <1>c, Zenon DEF Finalize, Progress, EmitInv, OwnsTemp, Working
  <2>2. CASE job[w].finalize # "rewrite" /\ Goto(w, "rename") /\ UNCHANGED <<ok, text>>
    <3>1. pc'[w] = "rename"
      BY <2>2, <1>t, Zenon
    <3>2. text'[w] = WholeText(w)'
      BY <2>1, <2>2, <1>j, <1>t, Zenon DEF WholeText, FinalText
    <3> QED
      BY <2>1, <2>2, <3>1, <3>2, Zenon DEF Counter, Progress
  <2>3. CASE Goto(w, "remove") /\ Fail(w)
    <3>1. ~ok'[w] /\ pc'[w] = "remove"
      BY <2>3, <1>t, Zenon
    <3> QED
      BY <3>1, Idle
  <2>4. CASE /\ job[w].finalize = "rewrite" /\ Goto(w, "rewrite") /\ UNCHANGED ok
             /\ copy' = [copy EXCEPT ![w] = text[dir[temp[w]]]]
    <3>1. pc'[w] = "rewrite" /\ copy'[w] = WrittenText(job[w])
      BY <2>1, <2>4, <1>t, Zenon
    <3> QED
      BY <2>1, <2>4, <3>1, <1>j, Zenon DEF Counter, Progress
  <2> QED
    BY <1>12, <2>2, <2>3, <2>4, Zenon DEF Finalize
<1>13. CASE Rewrite(w)
  <2>1. /\ pc[w] = "rewrite" /\ ok[w] /\ job[w].finalize = "rewrite"
        /\ copy[w] = WrittenText(job[w]) /\ dir[temp[w]] = w
    BY <1>13, <1>c, Zenon DEF Rewrite, Progress, EmitInv, OwnsTemp, Working
  <2>2. CASE /\ text' = [text EXCEPT ![dir[temp[w]]] = copy[w] \cup {Legal}]
             /\ Goto(w, "rename") /\ UNCHANGED ok
    <3>1. pc'[w] = "rename" /\ text'[w] = WrittenText(job[w]) \cup {Legal}
      BY <2>1, <2>2, <1>t, Zenon
    <3>2. text'[w] = WholeText(w)'
      BY <2>1, <3>1, <1>j, <1>t, Zenon DEF WholeText, FinalText
    <3> QED
      BY <2>1, <2>2, <3>1, <3>2, Zenon DEF Counter, Progress
  <2>3. CASE Goto(w, "remove") /\ Fail(w)
    <3>1. ~ok'[w] /\ pc'[w] = "remove"
      BY <2>3, <1>t
    <3> QED
      BY <3>1, Idle
  <2> QED
    BY <1>13, <2>2, <2>3, Zenon DEF Rewrite
<1>14. CASE Rename(w)
  <2>1. pc'[w] = "done" \/ (pc'[w] = "remove" /\ ~ok'[w])
    BY <1>14, <1>t, Zenon DEF Rename
  <2> QED
    BY <2>1, Idle, Zenon
<1>15. CASE Remove(w) \/ Crash(w)
  <2>1. pc'[w] \in {"done", "dead"}
    BY <1>15, <1>t, Zenon DEF Remove, Crash
  <2> QED
    BY <2>1, Idle, Zenon
<1> QED
  BY Zenon, <1>1, <1>2, <1>3, <1>4, <1>5, <1>6, <1>7, <1>8, <1>9, <1>10, <1>11, <1>12,
     <1>13, <1>14, <1>15, Zenon DEF Step

-----------------------------------------------------------------------------

(* The four ways in which a step of w treats the directory.                *)
Keeps(w) ==
  /\ dir' = dir /\ temp' = temp
  /\ \/ pc[w] \in Working /\ pc'[w] \in Working
     \/ pc[w] = "create" /\ pc'[w] = "done" /\ ~ok'[w]
     \/ pc[w] \in Working \cup {"create"} /\ pc'[w] = "dead"

Makes(w) ==
  /\ pc[w] = "create" /\ pc'[w] = "fdopen"
  /\ \E n \in Temps :
       /\ dir[n] = None /\ dir' = [dir EXCEPT ![n] = w]
       /\ temp' = [temp EXCEPT ![w] = n]

Renames(w) ==
  /\ pc[w] = "rename" /\ pc'[w] = "done" /\ ok' = ok /\ temp' = temp /\ text' = text
  /\ dir' = [dir EXCEPT ![Path] = dir[temp[w]], ![temp[w]] = None]

Removes(w) ==
  /\ pc[w] = "remove" /\ pc'[w] = "done" /\ ok' = ok /\ temp' = temp /\ text' = text
  /\ dir' = [dir EXCEPT ![temp[w]] = None]

LEMMA StepDir ==
  ASSUME EmitInv, NEW w \in Writers, Step(w) \/ Crash(w)
  PROVE  Keeps(w) \/ Makes(w) \/ Renames(w) \/ Removes(w)
<1> USE DEF At, Goto, Fail, Working
<1>t. pc \in [Writers -> Stages] /\ ok \in [Writers -> BOOLEAN]
  BY Zenon DEF EmitInv, TypeOK
<1>1. CASE CreateTemp(w)
  BY <1>1, <1>t, Zenon DEF CreateTemp, Makes
<1>2. CASE CreateFails(w) \/ Crash(w)
  BY <1>2, <1>t, Zenon DEF CreateFails, Crash, Keeps, Stages
<1>3. CASE FdOpen(w) \/ GlobalsEnd(w) \/ FunctionsEnd(w)
  BY <1>3, <1>t, Zenon DEF FdOpen, GlobalsEnd, FunctionsEnd, Keeps
<1>4. CASE EmitPrefix(w) \/ EmitBetween(w)
  BY <1>4, <1>t, Zenon DEF EmitPrefix, EmitBetween, Writes, WriteFails, AfterFailure, Keeps
<1>5. CASE EmitGlobal(w)
  <2>1. dir' = dir /\ temp' = temp /\ pc[w] = "globals"
    BY <1>5 DEF EmitGlobal
  <2>2. pc' = [pc EXCEPT ![w] = "globals"] \/ pc' = [pc EXCEPT ![w] = AfterFailure(w)]
    BY <1>5, Zenon DEF EmitGlobal, Writes, WriteFails
  <2> QED
    BY <2>1, <2>2, <1>t, Zenon DEF AfterFailure, Keeps
<1>6. CASE EmitFunction(w)
  <2>1. dir' = dir /\ temp' = temp /\ pc[w] = "functions"
    BY <1>6, Zenon DEF EmitFunction
  <2>2. \/ pc' = pc \/ pc' = [pc EXCEPT ![w] = "functions"]
        \/ pc' = [pc EXCEPT ![w] = IF job[w].census THEN "functions" ELSE "close"]
    BY <1>6, Zenon DEF EmitFunction, Writes, FunctionFails
  <2> QED
    BY <2>1, <2>2, <1>t, Zenon DEF Keeps
<1>7. CASE EmitTrailer(w) \/ Close(w)
  BY <1>7, <1>t, Zenon DEF EmitTrailer, Close, Writes, WriteFails, Keeps
<1>8. CASE Finalize(w) \/ Rewrite(w)
  <2>1. dir' = dir /\ temp' = temp /\ pc[w] \in {"finalize", "rewrite"}
    BY <1>8, Zenon DEF Finalize, Rewrite
  <2>2. \E x \in {"rename", "rewrite", "remove"} : pc' = [pc EXCEPT ![w] = x]
    BY <1>8, Zenon DEF Finalize, Rewrite
  <2> QED
    BY <2>1, <2>2, <1>t, Zenon DEF Keeps
<1>9. CASE Rename(w)
  BY <1>9, <1>t, Zenon DEF Rename, Keeps, Renames
<1>10. CASE Remove(w)
  BY <1>10, <1>t, Zenon DEF Remove, Removes
<1> QED
  BY <1>1, <1>2, <1>3, <1>4, <1>5, <1>6, <1>7, <1>8, <1>9, <1>10, Zenon DEF Step

LEMMA StepCopy ==
  ASSUME EmitInv, NEW w \in Writers, Step(w) \/ Crash(w)
  PROVE  /\ copy' \in [Writers -> SUBSET Pieces]
         /\ \A v \in Writers : v # w => copy'[v] = copy[v]
<1>1. copy \in [Writers -> SUBSET Pieces]
  BY Zenon DEF EmitInv, TypeOK
<1>2. CASE copy' = copy
  BY <1>1, <1>2, Zenon
<1>3. CASE Finalize(w) /\ copy' = [copy EXCEPT ![w] = text[dir[temp[w]]]]
  <2>1. dir[temp[w]] = w
    BY <1>3, Zenon DEF Finalize, At, EmitInv, OwnsTemp, Working
  <2>2. text[w] \in SUBSET Pieces
    BY Zenon DEF EmitInv, TypeOK, Files
  <2> QED
    BY <1>1, <1>3, <2>1, <2>2, Zenon
<1> QED
  BY <1>2, <1>3, Zenon DEF Step, Crash, CreateTemp, CreateFails, FdOpen, EmitPrefix,
     EmitGlobal, GlobalsEnd, EmitBetween, EmitFunction, FunctionsEnd, EmitTrailer,
     Close, Finalize, Rewrite, Rename, Remove

(* Names and files stay paired.                                            *)
LEMMA StepNames ==
  ASSUME EmitInv, NEW w \in Writers, Step(w) \/ Crash(w)
  PROVE  /\ dir' \in [Names -> Files \cup {None}]
         /\ TempsHaveOwners'
         /\ \A v \in Writers : OwnsTemp(v)'
<1>t. /\ dir \in [Names -> Files \cup {None}] /\ Path \in Names /\ Temps \subseteq Names
      /\ Path \notin Temps /\ w \in Files /\ None \notin Writers
      /\ temp \in [Writers -> Temps \cup {None}]
  BY NamesAssumption, WritersAssumption, Zenon DEF EmitInv, TypeOK, Names, Files
<1>o. /\ \A v \in Writers : pc[v] \in Working => temp[v] \in Temps /\ dir[temp[v]] = v
      /\ \A n \in Temps : dir[n] # None =>
           dir[n] \in Writers /\ temp[dir[n]] = n /\ pc[dir[n]] \notin {"create", "done"}
  BY Zenon DEF EmitInv, OwnsTemp, TempsHaveOwners
<1>l. \A v \in Writers : v # w => pc'[v] = pc[v] /\ temp'[v] = temp[v]
  BY StepLocal, Zenon DEF LocalFrame
<1> USE DEF Working
<1>1. CASE Keeps(w)
  BY <1>1, <1>t, <1>o, <1>l, Zenon DEF Keeps, TempsHaveOwners, OwnsTemp
<1>2. CASE Makes(w)
  <2>1. PICK n \in Temps : /\ dir[n] = None /\ dir' = [dir EXCEPT ![n] = w]
                           /\ temp' = [temp EXCEPT ![w] = n]
    BY <1>2, Zenon DEF Makes
  <2>2. dir' \in [Names -> Files \cup {None}] /\ temp'[w] = n /\ dir'[n] = w
    BY <2>1, <1>t, Zenon
  <2>3. \A m \in Temps : m # n => dir'[m] = dir[m]
    BY <2>1, <1>t, Zenon
  <2>4. pc[w] = "create" /\ pc'[w] = "fdopen"
    BY <1>2, Zenon DEF Makes
  <2>5. TempsHaveOwners'
    BY <2>2, <2>3, <2>4, <1>o, <1>l DEF TempsHaveOwners
  <2>6. \A v \in Writers : OwnsTemp(v)'
    BY <2>1, <2>2, <2>3, <2>4, <1>o, <1>l, <1>t DEF OwnsTemp
  <2> QED
    BY <2>2, <2>5, <2>6, Zenon
<1>3. CASE Renames(w) \/ Removes(w)
  <2>1. /\ pc[w] \in Working /\ pc'[w] = "done" /\ temp' = temp
        /\ temp[w] \in Temps /\ dir[temp[w]] = w
    BY <1>3, <1>o, Zenon DEF Renames, Removes
  <2>2. /\ dir' \in [Names -> Files \cup {None}] /\ dir'[temp[w]] = None
        /\ \A m \in Temps : m # temp[w] => dir'[m] = dir[m]
    <3>1. CASE Renames(w)
      BY <3>1, <2>1, <1>t, Zenon DEF Renames
    <3>2. CASE Removes(w)
      BY <3>2, <2>1, <1>t, Zenon DEF Removes
    <3> QED
      BY <1>3, <3>1, <3>2, Zenon
  <2>3. TempsHaveOwners'
    BY <2>1, <2>2, <1>o, <1>l DEF TempsHaveOwners
  <2>4. \A v \in Writers : OwnsTemp(v)'
    BY <2>1, <2>2, <1>o, <1>l, <1>t DEF OwnsTemp
  <2> QED
    BY <2>2, <2>3, <2>4, Zenon
<1> QED
  BY <1>1, <1>2, <1>3, StepDir, Zenon

(* What a step of w does to the name of the output and to the file behind  *)
(* it: w renames its whole text, or nothing changes.                       *)
LEMMA StepOutput ==
  ASSUME EmitInv, NEW w \in Writers, Step(w) \/ Crash(w)
  PROVE  /\ \/ /\ Renames(w) /\ dir'[Path] = w /\ text'[w] = WholeText(w)
            \/ /\ ~Renames(w) /\ dir'[Path] = dir[Path]
         /\ dir[Path] # None => dir[Path] # w /\ text'[dir[Path]] = text[dir[Path]]
<1>t. /\ dir \in [Names -> Files \cup {None}] /\ Path \in Names /\ Temps \subseteq Names
      /\ Path \notin Temps
  BY NamesAssumption, Zenon DEF EmitInv, TypeOK, Names
<1>o. pc[w] \in Working => temp[w] \in Temps /\ dir[temp[w]] = w
  BY Zenon DEF EmitInv, OwnsTemp
<1>1. pc[w] # "done"
  BY StepDir, Zenon DEF Keeps, Makes, Renames, Removes, Working
<1>2. dir[Path] # None => dir[Path] # w /\ text'[dir[Path]] = text[dir[Path]]
  <2>1. dir[Path] # None => dir[Path] \in Files /\ dir[Path] # w
    BY <1>1, <1>t, Zenon DEF EmitInv, OutputIsWhole
  <2> QED
    BY <2>1, TextFrame, Zenon
<1>3. CASE Renames(w)
  <2>1. temp[w] \in Temps /\ dir[temp[w]] = w
    BY <1>3, <1>o, Zenon DEF Renames, Working
  <2>2. dir'[Path] = w
    BY <1>3, <2>1, <1>t, Zenon DEF Renames
  <2>3. text[w] = WholeText(w)
    BY <1>3, Zenon DEF Renames, EmitInv, Progress
  <2> QED
    BY <1>2, <1>3, <2>2, <2>3, Zenon DEF Renames
<1>4. CASE ~Renames(w)
  <2>1. CASE Keeps(w)
    BY <2>1, <1>2, <1>4, Zenon DEF Keeps
  <2>2. CASE Makes(w)
    BY <2>2, <1>2, <1>4, <1>t, Zenon DEF Makes
  <2>3. CASE Removes(w)
    BY <2>3, <1>2, <1>4, <1>t, <1>o, Zenon DEF Removes, Working
  <2> QED
    BY <1>4, <2>1, <2>2, <2>3, StepDir, Zenon
<1> QED
  BY <1>3, <1>4, Zenon

LEMMA StepInv ==
  ASSUME EmitInv, NEW w \in Writers, Step(w) \/ Crash(w)
  PROVE  EmitInv'
<1>l. LocalType /\ LocalFrame(w)
  BY StepLocal, Zenon
<1>t. text' \in [Files -> SUBSET Pieces] /\ \A f \in Files : f # w => text'[f] = text[f]
  BY TextFrame, Zenon
<1>c. copy' \in [Writers -> SUBSET Pieces] /\ \A v \in Writers : v # w => copy'[v] = copy[v]
  BY StepCopy, Zenon
<1>n. /\ dir' \in [Names -> Files \cup {None}] /\ TempsHaveOwners'
      /\ \A v \in Writers : OwnsTemp(v)'
  BY StepNames, Zenon
<1>p. Counter(w)' /\ Progress(w)'
  BY StepProgress, Zenon
<1>1. ASSUME NEW v \in Writers, v # w PROVE Counter(v)' /\ Progress(v)'
  <2>1. /\ pc'[v] = pc[v] /\ ok'[v] = ok[v] /\ i'[v] = i[v] /\ job' = job
        /\ copy'[v] = copy[v] /\ text'[v] = text[v]
    BY <1>1, <1>l, <1>t, <1>c, Zenon DEF LocalFrame, Files
  <2>2. Counter(v) /\ Progress(v)
    BY Zenon DEF EmitInv, TypeOK, Counter
  <2>3. WholeText(v)' = WholeText(v) /\ TextBefore(v, i[v])' = TextBefore(v, i[v])
        /\ TextBefore(v, Len(job[v].functions))' = TextBefore(v, Len(job[v].functions))
    BY <2>1, Zenon DEF WholeText, TextBefore
  <2>4. Counter(v)'
    BY <2>1, <2>2, Zenon DEF Counter
  <2>5. Progress(v)'
    BY <2>1, <2>2, <2>3, Zenon DEF Progress
  <2> QED
    BY <2>4, <2>5, Zenon
<1>2. \A v \in Writers : Counter(v)' /\ Progress(v)'
  BY <1>1, <1>p
<1>3. TypeOK'
  <2>1. job' \in [Writers -> Jobs]
    BY <1>l, Zenon DEF LocalFrame, EmitInv, TypeOK
  <2> QED
    BY <2>1, <1>l, <1>t, <1>c, <1>n, <1>2, Zenon DEF LocalType, TypeOK, Counter
<1>4. OutputIsWhole'
  <2>1. OutputIsWhole /\ job' = job
    BY <1>l DEF EmitInv, LocalFrame
  <2>2. text'[Old] = OldText
    BY <2>1, <1>t, WritersAssumption DEF OutputIsWhole, Files
  <2>3. \A f : WholeText(f)' = WholeText(f)
    BY <2>1, Zenon DEF WholeText
  <2>4. CASE Renames(w) /\ dir'[Path] = w /\ text'[w] = WholeText(w)
    BY <2>2, <2>3, <2>4, Zenon DEF OutputIsWhole, Renames
  <2>5. CASE dir'[Path] = dir[Path]
    <3>1. dir[Path] # None => dir[Path] # w /\ text'[dir[Path]] = text[dir[Path]]
      BY StepOutput, Zenon
    <3>2. dir[Path] \in Writers => pc'[dir[Path]] = pc[dir[Path]]
      BY <3>1, <1>l, WritersAssumption, Zenon DEF LocalFrame
    <3> QED
      BY <2>1, <2>2, <2>3, <2>5, <3>1, <3>2, Zenon DEF OutputIsWhole
  <2> QED
    BY <2>4, <2>5, StepOutput, Zenon
<1> QED
  BY <1>2, <1>3, <1>4, <1>n, Zenon DEF EmitInv

-----------------------------------------------------------------------------

(* The invariant holds in every state of every behaviour.                  *)
THEOREM EmitInvariant == Spec => []EmitInv
<1>1. EmitInv /\ [Next]_vars => EmitInv'
  <2> SUFFICES ASSUME EmitInv, [Next]_vars PROVE EmitInv'
    BY Zenon
  <2>1. CASE \E w \in Writers : Step(w) \/ Crash(w)
    BY <2>1, StepInv, Zenon
  <2>2. CASE UNCHANGED vars
    <3>1. /\ job' = job /\ pc' = pc /\ ok' = ok /\ i' = i /\ temp' = temp
          /\ copy' = copy /\ dir' = dir /\ text' = text
      BY <2>2, Zenon DEF vars
    <3>2. TypeOK' /\ TempsHaveOwners' /\ OutputIsWhole'
      BY <3>1, Zenon DEF EmitInv, TypeOK, TempsHaveOwners, OutputIsWhole, WholeText
    <3>3. \A w \in Writers : OwnsTemp(w)'
      BY <3>1, Zenon DEF EmitInv, OwnsTemp
    <3>4. \A w \in Writers : Progress(w)'
      BY <3>1, ZenonT(60) DEF EmitInv, Progress, WholeText, TextBefore
    <3> QED
      BY <3>2, <3>3, <3>4, Zenon DEF EmitInv
  <2> QED
    BY <2>1, <2>2, Zenon DEF Next
<1> QED
  BY InitInv, <1>1, PTL DEF Spec

(* The variables of every writer have their types, and no counter leaves   *)
(* its loop.                                                               *)
THEOREM EmitTypeCorrect == Spec => []TypeOK
<1>1. EmitInv => TypeOK
  BY DEF EmitInv
<1> QED
  BY <1>1, EmitInvariant, PTL

(* However many compilers write one output, whichever step fails and       *)
(* whoever is killed: a temporary has one owner, which is at work or was   *)
(* killed.                                                                 *)
THEOREM TemporariesHaveOwners == Spec => []TempsHaveOwners
<1>1. EmitInv => TempsHaveOwners
  BY DEF EmitInv
<1> QED
  BY <1>1, EmitInvariant, PTL

(* A census leaves the loop over the functions by its end only.            *)
Scanned(w) ==
  job[w].census /\ pc[w] \in {"trailer", "close"} => i[w] = Len(job[w].functions)

LEMMA StepScanned ==
  ASSUME EmitInv, NEW w \in Writers, Step(w) \/ Crash(w), Scanned(w)
  PROVE  Scanned(w)'
<1> USE DEF At, Goto
<1>t. /\ pc \in [Writers -> Stages] /\ job' = job
      /\ pc[w] = "trailer" => i[w] = Len(job[w].functions)
  BY StepLocal, Zenon DEF EmitInv, TypeOK, LocalFrame
<1>1. CASE CreateTemp(w) \/ CreateFails(w) \/ FdOpen(w)
  <2>1. pc'[w] \in {"fdopen", "prefix", "remove", "done"}
    BY <1>1, <1>t, Zenon DEF CreateTemp, CreateFails, FdOpen
  <2> QED
    BY <2>1 DEF Scanned
<1>2. CASE EmitPrefix(w) \/ EmitGlobal(w) \/ GlobalsEnd(w) \/ EmitBetween(w)
  <2>1. pc'[w] \in {"globals", "between", "functions", AfterFailure(w)}
    BY <1>2, <1>t, Zenon DEF EmitPrefix, EmitGlobal, GlobalsEnd, EmitBetween, Writes, WriteFails
  <2>2. job[w].census => AfterFailure(w) = "functions"
    BY DEF AfterFailure
  <2> QED
    BY <1>t, <2>1, <2>2 DEF Scanned
<1>3. CASE EmitFunction(w)
  <2>1. pc'[w] = "functions" \/ (~job[w].census /\ pc'[w] = "close")
    BY <1>3, <1>t, Zenon DEF EmitFunction, Writes, FunctionFails
  <2> QED
    BY <1>t, <2>1 DEF Scanned
<1>4. CASE FunctionsEnd(w)
  BY <1>4, <1>t, Zenon DEF FunctionsEnd, Scanned
<1>5. CASE EmitTrailer(w)
  BY <1>5, <1>t, Zenon DEF EmitTrailer, Scanned
<1>6. CASE Close(w) \/ Finalize(w) \/ Rewrite(w) \/ Rename(w) \/ Remove(w) \/ Crash(w)
  <2>1. pc'[w] \in {"finalize", "rewrite", "rename", "remove", "done", "dead"}
    BY <1>6, <1>t, Zenon DEF Close, Finalize, Rewrite, Rename, Remove, Crash, WriteFails
  <2> QED
    BY <2>1 DEF Scanned
<1> QED
  BY <1>1, <1>2, <1>3, <1>4, <1>5, <1>6, Zenon DEF Step

(* A census that has its temporary has visited every function when it      *)
(* comes to the end of the file, whatever failed before it or in it.       *)
THEOREM CensusIsComplete == Spec => []CensusScansAll
<1>1. Init => \A w \in Writers : Scanned(w)
  BY DEF Init, Scanned
<1>2. EmitInv /\ EmitInv' /\ (\A w \in Writers : Scanned(w)) /\ [Next]_vars
        => (\A w \in Writers : Scanned(w))'
  <2> SUFFICES ASSUME EmitInv, \A w \in Writers : Scanned(w), [Next]_vars, NEW v \in Writers
               PROVE  Scanned(v)'
    BY Zenon
  <2>1. CASE UNCHANGED vars
    BY <2>1, Zenon DEF vars, Scanned
  <2>2. ASSUME NEW w \in Writers, Step(w) \/ Crash(w)
        PROVE  Scanned(v)'
    <3>1. CASE v = w
      BY <2>2, <3>1, StepScanned, Zenon
    <3>2. CASE v # w
      <4>1. job' = job /\ pc'[v] = pc[v] /\ i'[v] = i[v]
        BY <2>2, <3>2, StepLocal, Zenon DEF LocalFrame
      <4> QED
        BY <4>1, Zenon DEF Scanned
    <3> QED
      BY <3>1, <3>2, Zenon
  <2> QED
    BY <2>1, <2>2, Zenon DEF Next
<1>3. (\A w \in Writers : Scanned(w)) => CensusScansAll
  BY Zenon DEF Scanned, CensusScansAll
<1> QED
  BY <1>1, <1>2, <1>3, EmitInvariant, PTL DEF Spec

(* The output is never written under its name.                             *)
THEOREM OutputIsFrozen == Spec => PublishedIsFrozen
<1>1. EmitInv /\ [Next]_vars => [dir[Path] # None => text'[dir[Path]] = text[dir[Path]]]_vars
  <2> SUFFICES ASSUME EmitInv, Next, dir[Path] # None
               PROVE  text'[dir[Path]] = text[dir[Path]]
    BY Zenon
  <2>1. CASE \E w \in Writers : Step(w) \/ Crash(w)
    BY <2>1, StepOutput, Zenon
  <2>2. CASE UNCHANGED vars
    BY <2>2, Zenon DEF vars
  <2> QED
    BY <2>1, <2>2 DEF Next
<1> QED
  BY <1>1, EmitInvariant, PTL DEF Spec, PublishedIsFrozen

-----------------------------------------------------------------------------

LEMMA FateOfOthers ==
  ASSUME EmitInv, NEW w \in Writers, Step(w) \/ Crash(w)
  PROVE  \A v \in Writers : v # w => Fate(v)' = Fate(v)
  BY StepLocal, Zenon DEF LocalFrame, Fate

(* A step of one writer is a step of AtomicFile, or changes nothing there. *)
LEMMA StepRefines ==
  ASSUME EmitInv, EmitInv', NEW w \in Writers, Step(w) \/ Crash(w)
  PROVE  [Output!FileNext]_(Output!fileVars)
<1> DEFINE fates == [v \in Writers |-> Fate(v)]
<1>f. \A v \in Writers : v # w => Fate(v)' = Fate(v)
  BY FateOfOthers, Zenon
<1>j. \A f : WholeText(f)' = WholeText(f)
  BY StepLocal, Zenon DEF LocalFrame, WholeText
<1>h. dir'[Path] = dir[Path] => Holder' = Holder
  BY <1>j, StepOutput, Zenon DEF Holder
<1>1. CASE Renames(w)
  <2>1. ok[w] /\ ok'[w]
    BY <1>1, Zenon DEF Renames, EmitInv, Progress
  <2>2. Fate(w) = "pending" /\ Fate(w)' = "published"
    BY <1>1, <2>1, Zenon DEF Renames, Fate
  <2>3. Holder' = w
    BY <1>1, <1>j, StepOutput, WritersAssumption, Zenon DEF Holder
  <2>4. fates' = [fates EXCEPT ![w] = "published"]
    BY <1>f, <2>2, Zenon
  <2>5. Output!Publish(w)
    BY <2>2, <2>3, <2>4 DEF Output!Publish
  <2> QED
    BY <2>5, Zenon DEF Output!FileNext
<1>2. CASE ~Renames(w)
  <2>1. Holder' = Holder
    BY <1>2, <1>h, StepOutput, Zenon
  <2>2. CASE Fate(w)' = Fate(w)
    <3>1. fates' = fates
      BY <1>f, <2>2, Zenon
    <3> QED
      BY <2>1, <3>1 DEF Output!fileVars
  <2>3. CASE Fate(w) = "pending" /\ Fate(w)' = "gone"
    <3>1. fates' = [fates EXCEPT ![w] = "gone"]
      BY <1>f, <2>3, Zenon
    <3>2. Output!GiveUp(w)
      BY <2>1, <2>3, <3>1, Zenon DEF Output!GiveUp
    <3> QED
      BY <3>2, Zenon DEF Output!FileNext
  <2>4. \/ Fate(w)' = Fate(w)
        \/ Fate(w) = "pending" /\ Fate(w)' = "gone"
    <3>1. CASE Keeps(w)
      BY <3>1, Zenon DEF Keeps, Working, Fate
    <3>2. CASE Makes(w)
      BY <3>2, Zenon DEF Makes, Fate
    <3>3. CASE Removes(w)
      <4>1. ~ok[w]
        BY <3>3, Zenon DEF Removes, EmitInv, Progress
      <4> QED
        BY <3>3, <4>1, Zenon DEF Removes, Fate
    <3> QED
      BY <1>2, <3>1, <3>2, <3>3, StepDir, Zenon
  <2> QED
    BY <2>2, <2>3, <2>4
<1> QED
  BY <1>1, <1>2

(* The staged write implements AtomicFile: in one step, or not at all, the *)
(* output becomes the whole text of the writer that returns TRUE.          *)
THEOREM WriteIsAtomic == Spec => AtomicReplacement
<1>1. Init => Output!FileInit
  <2> SUFFICES ASSUME Init PROVE Output!FileInit
    OBVIOUS
  <2>1. dir[Path] \in {Old, None}
    BY DEF Init, Names
  <2>2. text[Old] = OldText
    BY DEF Init, Files
  <2>3. Holder \in {Old, None}
    BY <2>1, <2>2, Zenon DEF Holder, WholeText
  <2>4. \A w \in Writers : Fate(w) = "pending"
    BY Zenon DEF Init, Fate
  <2> QED
    BY <2>3, <2>4, Zenon DEF Output!FileInit
<1>2. EmitInv /\ EmitInv' /\ [Next]_vars => [Output!FileNext]_(Output!fileVars)
  <2> SUFFICES ASSUME EmitInv, EmitInv', [Next]_vars
               PROVE  [Output!FileNext]_(Output!fileVars)
    BY Zenon
  <2>1. CASE \E w \in Writers : Step(w) \/ Crash(w)
    BY <2>1, StepRefines, Zenon
  <2>2. CASE UNCHANGED vars
    BY <2>2, Zenon DEF vars, Output!fileVars, Holder, Fate, WholeText
  <2> QED
    BY <2>1, <2>2, Zenon DEF Next
<1> QED
  BY <1>1, <1>2, EmitInvariant, PTL DEF Spec, AtomicReplacement, Output!FileSafe

=============================================================================

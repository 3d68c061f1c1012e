---------------------------- MODULE CohortProofs ----------------------------
(***************************************************************************)
(* What is booted in a trial of CohortBisect is what the trial selects and *)
(* fits together, what the script reports is backed by the trials it has   *)
(* run, and its search goes where the planner would send it: for every     *)
(* number of objects, every set of headers and every dependency between    *)
(* them.                                                                   *)
(***************************************************************************)
EXTENDS CohortBisect, TLAPS

-----------------------------------------------------------------------------
(* Types.                                                                  *)

LEMMA GoldenType == Golden \in Headers
  BY GuardAssumption DEF Golden, Headers

LEMMA CompiledType ==
  ASSUME NEW o \in Object, NEW by \in {"gcc", "minic"}, NEW h \in Headers
  PROVE  Compiled(by, o, h) \in Content
<1>1. Deps[o] \in SUBSET Header
  BY GuardAssumption
<1>2. [x \in Deps[o] |-> h[x]] \in [Deps[o] -> 0 .. MaxGen]
  BY <1>1 DEF Headers
<1>3. [x \in Deps[o] |-> h[x]] \in UNION {[D -> 0 .. MaxGen] : D \in SUBSET Header}
  BY <1>1, <1>2
<1>4. QED
  BY <1>3 DEF Compiled, Content

LEMMA PoolType ==
  ASSUME NEW o \in Object
  PROVE  GccPool(o) \in Content /\ MinicPool(o) \in Content
  BY GoldenType, CompiledType DEF GccPool, MinicPool

LEMMA MakeType ==
  ASSUME TypeOK, NEW h \in Headers, NEW again \in SUBSET Object, Make(h, again)
  PROVE  hdr' \in Headers /\ tree' \in [Object -> Content]
<1>1. \A o \in Object : Compiled("gcc", o, h) \in Content
  BY CompiledType
<1>2. tree \in [Object -> Content]
  BY DEF TypeOK
<1>3. QED
  BY <1>1, <1>2 DEF Make

LEMMA OverlayType ==
  ASSUME NEW s PROVE Overlay(s) \in [Object -> Content]
  BY PoolType DEF Overlay

LEMMA GoldenImageType == GoldenImage \in [objs : [Object -> Content], hdr : Headers]
  BY PoolType, GoldenType DEF GoldenImage, GccTree

LEMMA InitType == Init => TypeOK
<1>1. GccTree \in [Object -> Content]
  BY PoolType DEF GccTree
<1>2. N \in Nat /\ 0 \in 0 .. N /\ N \in 0 .. N
  BY GuardAssumption
<1>3. QED
  BY <1>1, <1>2, GoldenType, GoldenImageType
     DEF Init, TypeOK, Selection, NoSelection, Modes, Verdicts

LEMMA NumberFacts ==
  ASSUME TypeOK
  PROVE  /\ lo \in Nat /\ hi \in Nat /\ N \in Nat /\ lo <= N /\ hi <= N
         /\ sel.count \in 0 .. N /\ sel.mode \in Modes
         /\ hi - lo > 1 => Mid \in 0 .. N /\ lo < Mid /\ Mid < hi
<1>1. lo \in Nat /\ hi \in Nat /\ N \in Nat /\ lo <= N /\ hi <= N
  BY GuardAssumption DEF TypeOK
<1>2. sel.count \in 0 .. N /\ sel.mode \in Modes
  BY DEF TypeOK
<1>3. QED
  BY <1>1, <1>2 DEF Mid

LEMMA CallType ==
  ASSUME NEW st \in {"full", "verify", "focused", "prefix", "single", "except"},
         NEW mode \in Modes, NEW count \in 0 .. N, NEW prof \in {"fast", "full"},
         Call(st, Selection(mode, count), prof)
  PROVE  /\ stage' \in {"full", "verify", "focused", "prefix", "single", "except"}
         /\ sel' \in [mode : Modes, count : 0 .. N] /\ profile' \in {"fast", "full"}
         /\ pc' \in {"identity", "restore"}
  BY DEF Call, Selection

LEMMA ExitType ==
  ASSUME TypeOK, NEW r, Exit(r) PROVE TypeOK'
  BY DEF Exit, TypeOK, callVars, treeVars, replayVars, searchVars

LEMMA MakeSucceedsType ==
  ASSUME TypeOK, NEW h \in Headers, NEW again \in SUBSET Object, MakeSucceeds(h, again)
  PROVE  /\ hdr' \in Headers /\ tree' \in [Object -> Content]
         /\ image' \in [objs : [Object -> Content], hdr : Headers]
  BY MakeType DEF MakeSucceeds

LEMMA TrialType == TypeOK /\ Trial => TypeOK'
<1> SUFFICES ASSUME TypeOK, Trial PROVE TypeOK'
  OBVIOUS
<1> USE DEF callVars, treeVars, replayVars, searchVars
<1>1. CASE Restore
  BY <1>1, OverlayType, GoldenType, GoldenImageType DEF Restore, TypeOK
<1>2. CASE FirstLink
  <2>1. PICK h \in Headers, again \in SUBSET Object :
          MakeSucceeds(h, again) /\ cc' \in SUBSET again
    BY <1>2 DEF FirstLink
  <2>2. QED
    BY <1>2, <2>1, MakeSucceedsType DEF FirstLink, TypeOK
<1>3. CASE LinkFails
  <2>1. PICK h \in Headers, again \in SUBSET Object : Make(h, again)
    BY <1>3 DEF LinkFails, MakeFails
  <2>2. QED
    BY <1>3, <2>1, MakeType DEF LinkFails, MakeFails, TypeOK, Verdicts
<1>4. CASE Impact
  <2>1. affected' \subseteq Object
    BY <1>4 DEF Impact, Impacted, Dependents
  <2>2. snap' \in Headers /\ todo' \subseteq Object /\ trace' \subseteq Object \X Content
        /\ pc' \in {"repair", "replay"}
    BY <1>4, <2>1 DEF Impact, TypeOK
  <2>3. QED
    BY <1>4, <2>1, <2>2 DEF Impact, TypeOK
<1>5. CASE ReplayObject
  <2>1. PICK o \in todo, by \in {"minic", "gcc"} :
          /\ tree' = [tree EXCEPT ![o] = Compiled(by, o, hdr)]
          /\ trace' = IF by = "minic" THEN trace \cup {<<o, Compiled(by, o, hdr)>>} ELSE trace
          /\ todo' = todo \ {o}
    BY <1>5, Zenon DEF ReplayObject
  <2>2. o \in Object /\ Compiled(by, o, hdr) \in Content
    BY <2>1, CompiledType, Zenon DEF TypeOK
  <2>3. tree' \in [Object -> Content] /\ trace' \subseteq Object \X Content
        /\ todo' \subseteq Object
    BY <2>1, <2>2 DEF TypeOK
  <2>4. QED
    BY <1>5, <2>3 DEF ReplayObject, TypeOK
<1>6. CASE Reconcile
  BY <1>6 DEF Reconcile, TypeOK
<1>7. CASE Relink
  <2>1. PICK h \in Headers, again \in SUBSET Object : MakeSucceeds(h, again)
    BY <1>7 DEF Relink
  <2>2. pc' \in {"identity", "done"}
    BY <1>7 DEF Relink
  <2>3. QED
    BY <1>7, <2>1, <2>2, MakeSucceedsType DEF Relink, TypeOK
<1>8. CASE Repair
  <2>1. tree' \in [Object -> Content] /\ pc' \in {"identity", "guarded"}
    BY <1>8, PoolType DEF Repair, Repaired, TypeOK
  <2>2. QED
    BY <1>8, <2>1 DEF Repair, TypeOK
<1>9. CASE GuardedRelink
  <2>1. PICK h \in Headers, again \in SUBSET Object : MakeSucceeds(h, again)
    BY <1>9 DEF GuardedRelink
  <2>2. QED
    BY <1>9, <2>1, MakeSucceedsType DEF GuardedRelink, TypeOK
<1>10. CASE Identity
  BY <1>10 DEF Identity, TypeOK
<1>11. CASE Boot \/ BootP1
  <2>1. verdict' \in Verdicts \cup {"none"} /\ pc' \in {"p1", "return"}
    BY <1>11 DEF Boot, BootP1, Report, Outcomes, TypeOK, Verdicts
  <2>2. QED
    BY <1>11, <2>1, Zenon DEF Boot, BootP1, TypeOK
<1>12. CASE ImpactRefused \/ ReplayFails \/ ReconcileRefused \/ RepairRefused \/ IdentityFails
  BY <1>12, ExitType
     DEF ImpactRefused, ReplayFails, ReconcileRefused, RepairRefused, IdentityFails
<1>13. QED
  BY <1>1, <1>2, <1>3, <1>4, <1>5, <1>6, <1>7, <1>8, <1>9, <1>10, <1>11, <1>12, Zenon DEF Trial

LEMMA SequenceType == TypeOK /\ Sequence => TypeOK'
<1> SUFFICES ASSUME TypeOK, Sequence PROVE TypeOK'
  OBVIOUS
<1> USE DEF callVars, treeVars, replayVars, searchVars
<1>0. N \in Nat /\ N \in 0 .. N /\ 0 \in 0 .. N /\ Object \subseteq 0 .. N
  BY GuardAssumption DEF Object
<1>m. {"prefix", "single", "all_except"} \subseteq Modes
  BY DEF Modes
<1>1. CASE FullPasses
  <2>1. Call("verify", Selection("prefix", N), "full")
    BY <1>1 DEF FullPasses
  <2>2. QED
    BY <1>0, <1>1, <1>m, <2>1, CallType DEF FullPasses, TypeOK
<1>2. CASE FullFails
  BY <1>0, <1>2 DEF FullFails, TypeOK
<1>3. CASE FocusedSwap
  <2>1. PICK o \in Object : Call("focused", Selection("all_except", o), "fast")
    BY <1>3 DEF FocusedSwap
  <2>2. QED
    BY <1>0, <1>3, <1>m, <2>1, CallType DEF FocusedSwap, TypeOK
<1>4. CASE SearchOn
  <2>1. Call("prefix", Selection("prefix", Mid), "fast") /\ Mid \in 0 .. N
    BY <1>4, NumberFacts DEF SearchOn
  <2>2. QED
    BY <1>4, <1>m, <2>1, CallType DEF SearchOn, TypeOK
<1>5. CASE PrefixPasses \/ PrefixFails
  BY <1>5, NumberFacts DEF PrefixPasses, PrefixFails, TypeOK
<1>6. CASE TrySingle
  <2>1. Call("single", Selection("single", hi), "fast") /\ hi \in 0 .. N
    BY <1>6 DEF TrySingle, TypeOK
  <2>2. QED
    BY <1>6, <1>m, <2>1, CallType DEF TrySingle, TypeOK
<1>7. CASE TryExcept
  <2>1. Call("except", Selection("all_except", hi), "fast") /\ hi \in 0 .. N
    BY <1>7 DEF TryExcept, TypeOK
  <2>2. QED
    BY <1>7, <1>m, <2>1, CallType DEF TryExcept, TypeOK
<1>8. CASE FullInconclusive \/ FocusedEnds \/ VerifyEnds \/ PrefixUnclear \/ Conclude
  BY <1>8, ExitType DEF FullInconclusive, FocusedEnds, VerifyEnds, PrefixUnclear, Conclude
<1>9. QED
  BY <1>1, <1>2, <1>3, <1>4, <1>5, <1>6, <1>7, <1>8, Zenon DEF Sequence

LEMMA TypeStep == TypeOK /\ [Next]_vars => TypeOK'
<1>1. TypeOK /\ UNCHANGED vars => TypeOK'
  BY DEF TypeOK, vars, callVars, treeVars, replayVars, searchVars
<1>2. QED
  BY <1>1, TrialType, SequenceType, Zenon DEF Next, Step

(* The variables of the script keep their types.                           *)
THEOREM TypeCorrect == Spec => []TypeOK
  BY InitType, TypeStep, PTL DEF Spec

-----------------------------------------------------------------------------
(* Which selection a trial can find in last_selection.                     *)

(* A trial finds its own selection there only when it follows the trial    *)
(* that linked it: the prefixes tested so far end outside lo .. hi.        *)
LastInv ==
  /\ stage \in {"full", "verify", "prefix"} => lastSel.mode \in {"none", "prefix"}
  /\ stage = "single" => lastSel.mode # "all_except" /\ sel = Selection("single", hi)
  /\ stage = "except" => sel = Selection("all_except", hi)
  /\ stage \in {"single", "except"} => hi = lo + 1
  /\ sel.mode = "single" => sel.count \in Object
  /\ stage = "full" => sel = Selection("prefix", N)
                       /\ (lastSel.mode = "prefix" => lastSel.count = N)
  /\ stage = "verify" => sel.mode = "prefix"
  /\ pc = "search" => stage \in {"full", "prefix"} /\ lo < hi
                      /\ (lastSel.mode = "prefix" => lastSel.count <= lo \/ hi <= lastSel.count)
  /\ stage = "prefix" /\ pc # "search" =>
       /\ sel.mode = "prefix" /\ lo < sel.count /\ sel.count < hi
       /\ lastSel.mode = "prefix" =>
            lastSel.count = sel.count \/ lastSel.count <= lo \/ hi <= lastSel.count

LEMMA LastInit == Init => LastInv
  BY DEF Init, LastInv, NoSelection, Selection

LEMMA TrialKeepsCall ==
  ASSUME Trial
  PROVE  UNCHANGED <<callVars, searchVars>> /\ pc # "search" /\ pc' # "search"
         /\ (lastSel' = lastSel \/ lastSel' = sel)
<1> USE DEF callVars, searchVars
<1>1. CASE Restore \/ FirstLink \/ LinkFails \/ Impact \/ ImpactRefused
  BY <1>1 DEF Restore, FirstLink, LinkFails, MakeFails, Impact, ImpactRefused, Exit
<1>2. CASE ReplayObject \/ ReplayFails \/ Reconcile \/ ReconcileRefused \/ Relink
  BY <1>2, Zenon DEF ReplayObject, ReplayFails, Reconcile, ReconcileRefused, Relink, Exit
<1>3. CASE Repair \/ RepairRefused \/ GuardedRelink \/ Identity \/ IdentityFails
  BY <1>3, Zenon DEF Repair, RepairRefused, GuardedRelink, Identity, IdentityFails, Exit
<1>4. CASE Boot \/ BootP1
  BY <1>4, Zenon DEF Boot, BootP1, Report
<1>5. QED
  BY <1>1, <1>2, <1>3, <1>4, Zenon DEF Trial

LEMMA ExitKeeps ==
  ASSUME NEW r, Exit(r)
  PROVE  UNCHANGED <<callVars, lastSel, treeVars, replayVars, verdict, searchVars, ran>>
         /\ pc' = "done" /\ result' = r
  BY Zenon DEF Exit

LEMMA LastStep == TypeOK /\ LastInv /\ [Next]_vars => LastInv'
<1> SUFFICES ASSUME TypeOK, LastInv, [Next]_vars PROVE LastInv'
  BY Zenon
<1> USE DEF callVars, searchVars
<1>1. CASE Trial
  BY <1>1, TrialKeepsCall DEF LastInv, Selection
<1>2. CASE FullPasses
  BY <1>2, Zenon DEF FullPasses, Call, Returned, LastInv, Selection
<1>3. CASE FullFails
  BY <1>3, GuardAssumption DEF FullFails, Returned, LastInv, Selection
<1>4. CASE FocusedSwap
  BY <1>4 DEF FocusedSwap, Call, LastInv, Selection
<1>5. CASE SearchOn
  BY <1>5, NumberFacts DEF SearchOn, Call, LastInv, Selection
<1>6. CASE PrefixPasses
  BY <1>6, NumberFacts DEF PrefixPasses, Returned, LastInv, TypeOK
<1>7. CASE PrefixFails
  BY <1>7, NumberFacts DEF PrefixFails, Returned, LastInv, TypeOK
<1>8. CASE TrySingle
  BY <1>8, NumberFacts DEF TrySingle, Call, LastInv, Selection, Object
<1>9. CASE TryExcept
  BY <1>9 DEF TryExcept, Call, Returned, LastInv, Selection
<1>10. CASE FullInconclusive \/ FocusedEnds \/ VerifyEnds \/ PrefixUnclear \/ Conclude
  <2>1. pc = "return"
    BY <1>10 DEF FullInconclusive, FocusedEnds, VerifyEnds, PrefixUnclear, Conclude, Returned
  <2>2. UNCHANGED <<callVars, lastSel, searchVars>> /\ pc' = "done"
    BY <1>10, ExitKeeps
       DEF FullInconclusive, FocusedEnds, VerifyEnds, PrefixUnclear, Conclude
  <2>3. QED
    BY <2>1, <2>2 DEF LastInv, Selection
<1>11. CASE UNCHANGED vars
  BY <1>11, Zenon DEF LastInv, vars, Selection
<1>12. QED
  BY <1>1, <1>2, <1>3, <1>4, <1>5, <1>6, <1>7, <1>8, <1>9, <1>10, <1>11, Zenon
     DEF Next, Step, Sequence

(* A trial reuses the tree only right after the trial that made it.        *)
LEMMA Reuse ==
  ASSUME TypeOK, LastInv, Sequence, pc' = "identity"
  PROVE  FullPasses /\ sel' = sel
<1>1. ~(FullFails \/ PrefixPasses \/ PrefixFails)
  BY DEF FullFails, PrefixPasses, PrefixFails
<1>2. ~(FullInconclusive \/ FocusedEnds \/ VerifyEnds \/ PrefixUnclear \/ Conclude)
  BY ExitKeeps DEF FullInconclusive, FocusedEnds, VerifyEnds, PrefixUnclear, Conclude
<1>3. ~FocusedSwap
  BY DEF FocusedSwap, Call, Returned, LastInv, Selection
<1>4. ~SearchOn
  BY NumberFacts DEF SearchOn, Call, LastInv, Selection, TypeOK
<1>5. ~TrySingle
  BY DEF TrySingle, Call, LastInv, Selection
<1>6. ~TryExcept
  BY DEF TryExcept, Call, Returned, LastInv, Selection
<1>7. FullPasses
  BY <1>1, <1>2, <1>3, <1>4, <1>5, <1>6, Zenon DEF Sequence
<1>8. QED
  BY <1>7 DEF FullPasses, Call, Returned, LastInv

-----------------------------------------------------------------------------
(* What is in the tree and in the Image.                                   *)

Fits(t, h) == \A o \in Object : t[o].read = [x \in Deps[o] |-> h[x]]

Linked == image.objs = tree /\ image.hdr = hdr

Tested == pc = "return" /\ verdict # "LINK_FAIL"

Building == pc \in {"link", "impact", "replay", "relink", "repair", "guarded"}

TreeInv ==
  /\ Building \/ pc \in {"identity", "boot", "p1"} \/ Tested => Fits(tree, hdr)
  /\ pc \in {"impact", "repair", "identity", "boot", "p1"} \/ Tested => Linked
  /\ pc \in {"link", "impact", "repair"} => snap = Golden
  /\ Building => MinicIn(tree) \subseteq Selected(sel)
  /\ pc = "replay" => todo \subseteq affected /\ affected \subseteq Selected(sel)
  /\ \A t \in trace : t[2].by = "minic"
  /\ \A o \in DOMAIN delta : delta[o].by = "minic"
  /\ Booting => Identical

LEMMA TreeInit == Init => TreeInv
<1>1. \A o \in DOMAIN << >> : FALSE
  OBVIOUS
<1>2. QED
  BY <1>1 DEF Init, TreeInv, Building, Tested, Booting

LEMMA MakeTree ==
  ASSUME TypeOK, Fits(tree, hdr), NEW h \in Headers, NEW again \in SUBSET Object,
         MakeSucceeds(h, again)
  PROVE  Fits(tree', hdr') /\ Linked' /\ MinicIn(tree') \subseteq MinicIn(tree)
<1>1. tree' = [o \in Object |-> IF o \in again THEN Compiled("gcc", o, h) ELSE tree[o]]
      /\ hdr' = h /\ image' = [objs |-> tree', hdr |-> h]
  BY DEF MakeSucceeds, Make
<1>2. ASSUME NEW o \in Object
      PROVE  tree'[o].read = [x \in Deps[o] |-> hdr'[x]]
  <2>1. CASE o \in again
    BY <1>1, <2>1, SMTT(30), SMTT(60) DEF Compiled
  <2>2. CASE o \notin again
    <3>1. \A x \in Deps[o] : h[x] = hdr[x]
      BY <2>2 DEF MakeSucceeds
    <3>2. tree'[o].read = [x \in Deps[o] |-> hdr[x]]
      BY <1>1, <2>2 DEF Fits
    <3>3. QED
      BY <1>1, <3>1, <3>2
  <2>3. QED
    BY <2>1, <2>2
<1>3. MinicIn(tree') \subseteq MinicIn(tree)
  BY <1>1 DEF MinicIn, Compiled
<1>4. Linked'
  BY <1>1 DEF Linked
<1>5. QED
  BY <1>2, <1>3, <1>4 DEF Fits

LEMMA RestoreTree ==
  ASSUME Restore PROVE Fits(tree', hdr') /\ MinicIn(tree') \subseteq Selected(sel)
<1>1. tree' = Overlay(sel) /\ hdr' = Golden
  BY DEF Restore
<1>2. Fits(tree', hdr')
  BY <1>1 DEF Fits, Overlay, MinicPool, GccPool, Compiled
<1>3. MinicIn(tree') \subseteq Selected(sel)
  BY <1>1 DEF MinicIn, Overlay, GccPool, Compiled
<1>4. QED
  BY <1>2, <1>3

LEMMA ReplayTree ==
  ASSUME TypeOK, Fits(tree, hdr), MinicIn(tree) \subseteq Selected(sel),
         todo \subseteq Selected(sel), \A t \in trace : t[2].by = "minic", ReplayObject
  PROVE  /\ Fits(tree', hdr') /\ MinicIn(tree') \subseteq Selected(sel)
         /\ \A t \in trace' : t[2].by = "minic"
<1>1. PICK o \in todo, by \in {"minic", "gcc"} :
        /\ tree' = [tree EXCEPT ![o] = Compiled(by, o, hdr)]
        /\ trace' = IF by = "minic" THEN trace \cup {<<o, Compiled(by, o, hdr)>>} ELSE trace
  BY Zenon DEF ReplayObject
<1>2. hdr' = hdr /\ o \in Object /\ DOMAIN tree = Object /\ o \in Selected(sel)
  BY DEF ReplayObject, TypeOK
<1>3. Fits(tree', hdr')
  BY <1>1, <1>2, Zenon DEF Fits, Compiled
<1>4. MinicIn(tree') \subseteq Selected(sel)
  BY <1>1, <1>2 DEF MinicIn
<1>5. \A t \in trace' : t[2].by = "minic"
  BY <1>1 DEF Compiled
<1>6. QED
  BY <1>3, <1>4, <1>5

(* repair puts objects of the pool back only if what they read is still    *)
(* what it was.                                                            *)
LEMMA RepairTree ==
  ASSUME TypeOK, Fits(tree, hdr), MinicIn(tree) \subseteq Selected(sel), snap = Golden, Repair
  PROVE  /\ Fits(tree', hdr') /\ MinicIn(tree') \subseteq Selected(sel)
         /\ pc' = "identity" => tree' = tree
<1>1. /\ tree' = [o \in Object |-> IF o \in Bad(tree, Selected(sel)) THEN MinicPool(o)
                                   ELSE tree[o]]
      /\ hdr' = hdr
      /\ pc' = IF Bad(tree, Selected(sel)) = {} THEN "identity" ELSE "guarded"
      /\ Dependents(Selected(sel), Changed(Golden, hdr)) = {}
  BY DEF Repair, Repaired, RepairAccepted
<1>2. Bad(tree, Selected(sel)) \subseteq Selected(sel)
  BY SMTT(30), SMTT(60) DEF Bad
<1>3. ASSUME NEW o \in Object
      PROVE  tree'[o].read = [x \in Deps[o] |-> hdr[x]]
  <2>1. CASE o \in Bad(tree, Selected(sel))
    <3>1. Deps[o] \cap Changed(Golden, hdr) = {} /\ Deps[o] \subseteq Header
      BY <1>1, <1>2, <2>1, GuardAssumption, SMTT(30), SMTT(60) DEF Dependents
    <3>2. \A x \in Deps[o] : hdr[x] = Golden[x]
      BY <3>1, SMTT(30), SMTT(60) DEF Changed
    <3>3. tree'[o].read = [x \in Deps[o] |-> Golden[x]]
      BY <1>1, <2>1, SMTT(30), SMTT(60) DEF MinicPool, Compiled
    <3>4. QED
      BY <3>2, <3>3
  <2>2. CASE o \notin Bad(tree, Selected(sel))
    BY <1>1, <2>2 DEF Fits
  <2>3. QED
    BY <2>1, <2>2, SMTT(30), SMTT(60)
<1>4. MinicIn(tree') \subseteq Selected(sel)
  BY <1>1, <1>2 DEF MinicIn
<1>5. pc' = "identity" => tree' = tree
  BY <1>1, SMTT(30), SMTT(60) DEF TypeOK
<1>6. QED
  BY <1>1, <1>3, <1>4, <1>5 DEF Fits

LEMMA ExitTree ==
  ASSUME TreeInv, NEW r, Exit(r) PROVE TreeInv'
<1>1. trace' = trace /\ delta' = delta /\ pc' = "done"
  BY ExitKeeps, Zenon DEF replayVars
<1>2. QED
  BY <1>1 DEF TreeInv, Building, Tested, Booting

LEMMA TreeTrial == TypeOK /\ TreeInv /\ Trial => TreeInv'
<1> SUFFICES ASSUME TypeOK, TreeInv, Trial PROVE TreeInv'
  BY Zenon
<1> USE DEF callVars, treeVars, replayVars
<1>1. CASE Restore
  <2>1. pc' = "link" /\ snap' = Golden /\ trace' = {} /\ delta' = delta /\ sel' = sel
    BY <1>1, Zenon DEF Restore
  <2>2. QED
    BY <1>1, <2>1, RestoreTree, Zenon DEF TreeInv, Building, Tested, Booting
<1>2. CASE FirstLink
  <2>1. PICK h \in Headers, again \in SUBSET Object : MakeSucceeds(h, again)
    BY <1>2, Zenon DEF FirstLink
  <2>2. /\ pc = "link" /\ pc' = "impact" /\ snap' = snap /\ trace' = trace /\ delta' = delta
        /\ sel' = sel
    BY <1>2, Zenon DEF FirstLink
  <2>3. Fits(tree, hdr) /\ MinicIn(tree) \subseteq Selected(sel) /\ snap = Golden
    BY <2>2, Zenon DEF TreeInv, Building
  <2>4. Fits(tree', hdr') /\ Linked' /\ MinicIn(tree') \subseteq Selected(sel)
    BY <2>1, <2>3, MakeTree, Zenon
  <2>5. QED
    BY <2>2, <2>3, <2>4, Zenon DEF TreeInv, Building, Tested, Booting
<1>3. CASE LinkFails
  <2>1. pc' = "return" /\ verdict' = "LINK_FAIL" /\ trace' = trace /\ delta' = delta
    BY <1>3, Zenon DEF LinkFails, MakeFails
  <2>2. QED
    BY <2>1, Zenon DEF TreeInv, Building, Tested, Booting
<1>4. CASE Impact
  <2>1. /\ pc = "impact" /\ tree' = tree /\ hdr' = hdr /\ image' = image /\ sel' = sel
        /\ delta' = << >> /\ affected' \subseteq Selected(sel)
        /\ \/ pc' = "repair" /\ snap' = snap /\ trace' = trace
           \/ pc' = "replay" /\ todo' = affected' /\ trace' = {}
    BY <1>4, Zenon DEF Impact
  <2>2. \A o \in DOMAIN << >> : FALSE
    OBVIOUS
  <2>3. QED
    BY <2>1, <2>2, Zenon DEF TreeInv, Building, Tested, Booting, Linked
<1>5. CASE ReplayObject
  <2>1. /\ pc = "replay" /\ pc' = "replay" /\ delta' = delta /\ sel' = sel
        /\ affected' = affected /\ todo' \subseteq todo
    BY <1>5, Zenon DEF ReplayObject
  <2>2. /\ Fits(tree, hdr) /\ MinicIn(tree) \subseteq Selected(sel)
        /\ todo \subseteq affected /\ affected \subseteq Selected(sel)
        /\ \A t \in trace : t[2].by = "minic"
    BY <2>1, Zenon DEF TreeInv, Building
  <2>3. /\ Fits(tree', hdr') /\ MinicIn(tree') \subseteq Selected(sel)
        /\ \A t \in trace' : t[2].by = "minic"
    BY <1>5, <2>2, ReplayTree, Zenon
  <2>4. QED
    BY <2>1, <2>2, <2>3, Zenon DEF TreeInv, Building, Tested, Booting
<1>6. CASE Reconcile
  <2>1. /\ pc = "replay" /\ pc' = "relink" /\ tree' = tree /\ hdr' = hdr /\ trace' = trace
        /\ sel' = sel
        /\ delta' = [o \in affected |-> tree[o]] /\ \A o \in affected : <<o, tree[o]>> \in trace
    BY <1>6, Zenon DEF Reconcile, Audited
  <2>2. \A o \in affected : <<o, tree[o]>>[2].by = "minic"
    BY <2>1, Zenon DEF TreeInv
  <2>3. \A o \in DOMAIN delta' : delta'[o].by = "minic"
    BY <2>1, <2>2, Zenon
  <2>4. QED
    BY <2>1, <2>3, Zenon DEF TreeInv, Building, Tested, Booting
<1>7. CASE Relink \/ GuardedRelink
  <2>1. PICK h \in Headers, again \in SUBSET Object : MakeSucceeds(h, again)
    BY <1>7, Zenon DEF Relink, GuardedRelink
  <2>2. /\ pc \in {"relink", "guarded"} /\ pc' \in {"identity", "done"}
        /\ trace' = trace /\ delta' = delta
    BY <1>7, Zenon DEF Relink, GuardedRelink
  <2>3. Fits(tree', hdr') /\ Linked'
    BY <2>1, <2>2, MakeTree, Zenon DEF TreeInv, Building
  <2>4. QED
    BY <2>2, <2>3, Zenon DEF TreeInv, Building, Tested, Booting
<1>8. CASE Repair
  <2>1. /\ pc = "repair" /\ pc' \in {"identity", "guarded"} /\ hdr' = hdr /\ image' = image
        /\ sel' = sel /\ trace' = trace /\ delta' = delta
    BY <1>8, Zenon DEF Repair
  <2>2. Fits(tree, hdr) /\ MinicIn(tree) \subseteq Selected(sel) /\ snap = Golden /\ Linked
    BY <2>1, Zenon DEF TreeInv, Building
  <2>3. /\ Fits(tree', hdr') /\ MinicIn(tree') \subseteq Selected(sel)
        /\ pc' = "identity" => tree' = tree
    BY <1>8, <2>2, RepairTree, Zenon
  <2>4. QED
    BY <2>1, <2>2, <2>3, Zenon DEF TreeInv, Building, Tested, Booting, Linked
<1>9. CASE Identity
  <2>1. /\ pc = "identity" /\ pc' = "boot" /\ tree' = tree /\ hdr' = hdr /\ image' = image
        /\ sel' = sel /\ trace' = trace /\ delta' = delta /\ Identical
    BY <1>9, Zenon DEF Identity
  <2>2. Identical'
    BY <2>1, Zenon DEF Identical, Gold
  <2>3. QED
    BY <2>1, <2>2, Zenon DEF TreeInv, Building, Tested, Booting, Linked
<1>10. CASE Boot \/ BootP1
  <2>1. /\ pc \in {"boot", "p1"} /\ pc' \in {"p1", "return"} /\ tree' = tree /\ hdr' = hdr
        /\ image' = image /\ sel' = sel /\ trace' = trace /\ delta' = delta
    BY <1>10, Zenon DEF Boot, BootP1, Report
  <2>2. Identical'
    BY <2>1, Zenon DEF Identical, Gold, TreeInv, Booting
  <2>3. QED
    BY <2>1, <2>2, Zenon DEF TreeInv, Building, Tested, Booting, Linked
<1>11. CASE ImpactRefused \/ ReplayFails \/ ReconcileRefused \/ RepairRefused \/ IdentityFails
  BY <1>11, ExitTree, Zenon
     DEF ImpactRefused, ReplayFails, ReconcileRefused, RepairRefused, IdentityFails
<1>12. QED
  BY <1>1, <1>2, <1>3, <1>4, <1>5, <1>6, <1>7, <1>8, <1>9, <1>10, <1>11, Zenon DEF Trial

LEMMA TreeSequence == TypeOK /\ LastInv /\ TreeInv /\ Sequence => TreeInv'
<1> SUFFICES ASSUME TypeOK, LastInv, TreeInv, Sequence PROVE TreeInv'
  BY Zenon
<1>1. UNCHANGED <<tree, hdr, image, trace, delta>>
  BY ExitKeeps, Zenon DEF Sequence, FullPasses, FullFails, FullInconclusive, FocusedSwap, FocusedEnds,
     VerifyEnds, SearchOn, PrefixPasses, PrefixFails, PrefixUnclear, TrySingle, TryExcept,
     Conclude, treeVars, replayVars
<1>2. pc' \in {"identity", "restore", "search", "done"}
  BY ExitKeeps, Zenon DEF Sequence, FullPasses, FullFails, FullInconclusive, FocusedSwap, FocusedEnds,
     VerifyEnds, SearchOn, PrefixPasses, PrefixFails, PrefixUnclear, TrySingle, TryExcept,
     Conclude, Call
<1>3. CASE pc' = "identity"
  <2>1. Tested
    BY <1>3, Reuse, Zenon DEF FullPasses, Returned, Tested
  <2>2. QED
    BY <1>1, <1>3, <2>1, Zenon DEF TreeInv, Building, Tested, Booting, Linked
<1>4. CASE pc' # "identity"
  BY <1>1, <1>2, <1>4, Zenon DEF TreeInv, Building, Tested, Booting
<1>5. QED
  BY <1>3, <1>4, Zenon

LEMMA TreeStep == TypeOK /\ LastInv /\ TreeInv /\ [Next]_vars => TreeInv'
<1>1. TreeInv /\ UNCHANGED vars => TreeInv'
  <2> SUFFICES ASSUME TreeInv, UNCHANGED vars PROVE TreeInv'
    BY Zenon
  <2>1. UNCHANGED <<pc, tree, hdr, image, trace, delta, sel, verdict, snap, todo, affected>>
    BY Zenon DEF vars, callVars, treeVars, replayVars
  <2>2. Identical' <=> Identical
    BY <2>1, Zenon DEF Identical, Gold
  <2>3. QED
    BY <2>1, <2>2, Zenon DEF TreeInv, Building, Tested, Booting, Linked
<1>2. QED
  BY <1>1, TreeTrial, TreeSequence, Zenon DEF Next, Step

(* An Image that agrees with what the trial says is that of the selection. *)
LEMMA TestedFacts == TypeOK /\ LastInv /\ TreeInv => TestedIsSelected /\ TestedIsCoherent
<1> SUFFICES ASSUME TypeOK, LastInv, TreeInv PROVE TestedIsSelected /\ TestedIsCoherent
  BY Zenon
<1>1. ASSUME Booting PROVE MinicIn(image.objs) = Selected(sel) \cap Object
  <2>1. image.objs = tree /\ Identical /\ \A o \in DOMAIN delta : delta[o].by = "minic"
    BY <1>1, Zenon DEF TreeInv, Booting, Linked
  <2>2. ASSUME NEW o \in Object PROVE tree[o].by = "minic" <=> o \in Selected(sel)
    <3>1. MinicPool(o).by = "minic" /\ GccPool(o).by = "gcc"
      BY Zenon DEF MinicPool, GccPool, Compiled
    <3>2. tree[o] = Gold(o)
      BY <2>1, Zenon DEF Identical
    <3>3. QED
      BY <2>1, <3>1, <3>2, Zenon DEF Gold
  <2>3. QED
    BY <2>1, <2>2, Zenon DEF MinicIn
<1>2. Selected(sel) \subseteq Object
  BY NumberFacts DEF Selected, LastInv, Object, Modes
<1>3. TestedIsSelected
  BY <1>1, <1>2 DEF TestedIsSelected
<1>4. TestedIsCoherent
  BY DEF TestedIsCoherent, TreeInv, Booting, Linked, Fits
<1>5. QED
  BY <1>3, <1>4, Zenon

(* Every Image that is booted has MiniC's objects exactly where the trial  *)
(* selects them, however many trials went before, however their links      *)
(* failed, and whatever Kbuild compiled again.                             *)
THEOREM SelectedIsTested == Spec => []TestedIsSelected
<1>1. Init => TypeOK /\ LastInv /\ TreeInv
  BY InitType, LastInit, TreeInit
<1>2. TypeOK /\ LastInv /\ TreeInv /\ [Next]_vars => (TypeOK /\ LastInv /\ TreeInv)'
  BY TypeStep, LastStep, TreeStep
<1>3. QED
  BY <1>1, <1>2, TestedFacts, PTL DEF Spec

(* No object in an Image that is booted was compiled with other generated  *)
(* headers than the Image was linked with.                                 *)
THEOREM CoherentIsTested == Spec => []TestedIsCoherent
<1>1. Init => TypeOK /\ LastInv /\ TreeInv
  BY InitType, LastInit, TreeInit
<1>2. TypeOK /\ LastInv /\ TreeInv /\ [Next]_vars => (TypeOK /\ LastInv /\ TreeInv)'
  BY TypeStep, LastStep, TreeStep
<1>3. QED
  BY <1>1, <1>2, TestedFacts, PTL DEF Spec

-----------------------------------------------------------------------------
(* The evidence for what the script reports.                               *)

Evidence ==
  /\ verdict \in {"PASS", "FAIL"} => Ran(Selected(sel), profile, verdict)
  /\ verdict = "LINK_FAIL" =>
       \E r \in ran : r.verdict = "LINK_FAIL" /\ r.minic \subseteq Selected(sel)

Searching == pc = "search" \/ stage \in {"prefix", "single", "except"}

EvidenceInv ==
  /\ pc = "return" => Evidence
  /\ pc # "done" => result = "none"
  /\ stage = "verify" =>
       profile = "full" /\ sel = Selection("prefix", N) /\ Ran(Object, "fast", "PASS")
  /\ stage # "verify" => profile = "fast"
  /\ Searching => /\ failKind \in {"FAIL", "LINK_FAIL"} /\ Failed(1 .. hi)
                  /\ lo > 0 => Ran(1 .. lo, "fast", "PASS")
  /\ stage = "except" /\ single = failKind => Failed({hi})

LEMMA EvidenceInit == Init => EvidenceInv
  BY Zenon DEF Init, EvidenceInv, Searching

(* Evidence is not lost.                                                   *)
LEMMA RanGrows ==
  ASSUME ran \subseteq ran', NEW objs, NEW prof, NEW v
  PROVE  /\ Ran(objs, prof, v) => Ran(objs, prof, v)'
         /\ failKind' = failKind => (Failed(objs) => Failed(objs)')
  BY Zenon DEF Ran, Failed

(* What trial() returns is evidence about its selection.                   *)
LEMMA TrialEvidence ==
  ASSUME TypeOK, LastInv, TreeInv, Trial
  PROVE  ran \subseteq ran' /\ (pc' = "return" => Evidence')
<1> USE DEF callVars, searchVars
<1>1. CASE Restore \/ FirstLink \/ Impact \/ ImpactRefused \/ ReplayObject \/ ReplayFails
           \/ Reconcile \/ ReconcileRefused
  BY <1>1, Zenon DEF Restore, FirstLink, Impact, ImpactRefused, ReplayObject, ReplayFails, Reconcile,
     ReconcileRefused, Exit
<1>2. CASE Relink \/ Repair \/ RepairRefused \/ GuardedRelink \/ Identity \/ IdentityFails
  BY <1>2, Zenon DEF Relink, Repair, RepairRefused, GuardedRelink, Identity, IdentityFails, Exit
<1>3. CASE LinkFails
  <2>1. /\ ran' = ran \cup {[minic |-> MinicIn(tree), profile |-> profile,
                             verdict |-> "LINK_FAIL"]}
        /\ verdict' = "LINK_FAIL" /\ sel' = sel /\ pc \in {"link", "relink", "guarded"}
    BY <1>3, Zenon DEF LinkFails, MakeFails
  <2>2. MinicIn(tree) \subseteq Selected(sel)
    BY <2>1, Zenon DEF TreeInv, Building
  <2> DEFINE r == [minic |-> MinicIn(tree), profile |-> profile, verdict |-> "LINK_FAIL"]
  <2>3. r \in ran' /\ r.verdict = "LINK_FAIL" /\ r.minic \subseteq Selected(sel')
    BY <2>1, <2>2, Zenon
  <2>4. Evidence'
    BY <2>1, <2>3, Zenon DEF Evidence
  <2>5. QED
    BY <2>1, <2>4, Zenon
<1>4. CASE Boot \/ BootP1
  <2>1. MinicIn(image.objs) = Selected(sel) /\ sel' = sel /\ profile' = profile
    BY <1>4, TestedFacts, Zenon DEF TestedIsSelected, Booting, Boot, BootP1
  <2>2. \/ pc' = "p1" /\ ran' = ran
        \/ \E v \in {"PASS", "FAIL", "INCONCLUSIVE"} : Report(v)
    BY <1>4, Zenon DEF Boot, BootP1, Outcomes
  <2>3. ASSUME NEW v \in {"PASS", "FAIL", "INCONCLUSIVE"}, Report(v)
        PROVE  ran \subseteq ran' /\ Evidence'
    <3>1. /\ verdict' = v
          /\ ran' = ran \cup {[minic |-> Selected(sel), profile |-> profile, verdict |-> v]}
      BY <2>1, <2>3, Zenon DEF Report
    <3>2. QED
      BY <2>1, <3>1, Zenon DEF Evidence, Ran
  <2>4. QED
    BY <2>2, <2>3, Zenon
<1>5. QED
  BY <1>1, <1>2, <1>3, <1>4, Zenon DEF Trial

LEMMA TrialResult ==
  ASSUME Trial
  PROVE  /\ pc # "done"
         /\ \/ result' = result
            \/ pc' = "done" /\ result' \in {"INCONCLUSIVE", "IDENTITY", "ABI"}
<1>1. CASE Restore \/ FirstLink \/ LinkFails \/ Impact \/ ImpactRefused
  BY <1>1, Zenon DEF Restore, FirstLink, LinkFails, MakeFails, Impact, ImpactRefused, Exit
<1>2. CASE ReplayObject \/ ReplayFails \/ Reconcile \/ ReconcileRefused \/ Relink
  BY <1>2, Zenon DEF ReplayObject, ReplayFails, Reconcile, ReconcileRefused, Relink, Exit
<1>3. CASE Repair \/ RepairRefused \/ GuardedRelink \/ Identity \/ IdentityFails
  BY <1>3, Zenon DEF Repair, RepairRefused, GuardedRelink, Identity, IdentityFails, Exit
<1>4. CASE Boot \/ BootP1
  BY <1>4, Zenon DEF Boot, BootP1, Report
<1>5. QED
  BY <1>1, <1>2, <1>3, <1>4, Zenon DEF Trial

(* A failure of the kind that is searched for.                             *)
LEMMA FailedNow ==
  ASSUME Evidence, verdict = failKind, failKind \in {"FAIL", "LINK_FAIL"}
  PROVE  Failed(Selected(sel))
  BY Zenon DEF Evidence, Failed, Ran

LEMMA SelectedFacts ==
  /\ \A k : Selected(Selection("prefix", k)) = 1 .. k
  /\ \A k : Selected(Selection("single", k)) = {k}
  /\ \A k : Selected(Selection("all_except", k)) = Object \ {k}
  BY Zenon DEF Selected, Selection

LEMMA SequenceKeeps ==
  ASSUME Sequence
  PROVE  /\ ran' = ran /\ pc' # "return" /\ pc \in {"return", "search"}
         /\ pc' # "done" => result' = result
  BY Zenon DEF Sequence, FullPasses, FullFails, FullInconclusive, FocusedSwap, FocusedEnds,
     VerifyEnds, SearchOn, PrefixPasses, PrefixFails, PrefixUnclear, TrySingle, TryExcept,
     Conclude, Call, Returned, Exit

(* What a step of the sequence adds to the invariant.                      *)
LEMMA EvidenceSequence ==
  ASSUME TypeOK, LastInv, EvidenceInv, Sequence
  PROVE  EvidenceInv'
<1> USE DEF callVars, searchVars
<1>1. /\ ran \subseteq ran' /\ pc' # "return" /\ (pc' # "done" => result' = "none")
  BY SequenceKeeps, Zenon DEF EvidenceInv
<1>2. CASE FullPasses
  <2>1. /\ stage' = "verify" /\ sel' = Selection("prefix", N) /\ profile' = "full"
        /\ pc' # "search" /\ pc' # "done" /\ verdict = "PASS" /\ pc = "return" /\ stage = "full"
    BY <1>2, Zenon DEF FullPasses, Call, Returned
  <2>2. Ran(Object, "fast", "PASS")
    BY <2>1, SelectedFacts, Zenon DEF EvidenceInv, Evidence, LastInv, Object
  <2>3. QED
    BY <1>1, <2>1, <2>2, RanGrows, Zenon DEF EvidenceInv, Searching
<1>3. CASE FullFails
  <2>1. /\ stage' = stage /\ profile' = profile /\ stage = "full" /\ pc = "return"
        /\ failKind' = verdict /\ verdict \in {"FAIL", "LINK_FAIL"} /\ lo' = 0 /\ hi' = N
        /\ ran' = ran /\ pc' = "search"
    BY <1>3, Zenon DEF FullFails, Returned
  <2>2. sel = Selection("prefix", N) /\ Evidence /\ profile = "fast"
    BY <2>1, Zenon DEF EvidenceInv, LastInv
  <2>3. Selected(sel) = 1 .. N
    BY <2>2, SelectedFacts, Zenon
  <2>4. Failed(1 .. hi)'
    BY <2>1, <2>2, <2>3, Zenon DEF Evidence, Failed, Ran
  <2>5. QED
    BY <1>1, <2>1, <2>2, <2>4 DEF EvidenceInv, Searching
<1>4. CASE FocusedSwap
  <2>1. stage' = "focused" /\ profile' = "fast" /\ pc' # "search"
    BY <1>4, Zenon DEF FocusedSwap, Call
  <2>2. QED
    BY <1>1, <2>1, Zenon DEF EvidenceInv, Searching
<1>5. CASE SearchOn
  <2>1. /\ stage' = "prefix" /\ profile' = "fast" /\ UNCHANGED searchVars /\ pc = "search"
    BY <1>5, Zenon DEF SearchOn, Call
  <2>2. QED
    BY <1>1, <2>1, RanGrows, Zenon DEF EvidenceInv, Searching
<1>6. CASE PrefixPasses \/ PrefixFails
  <2>1. /\ stage' = stage /\ profile' = profile /\ stage = "prefix" /\ pc = "return"
        /\ failKind' = failKind
        /\ \/ verdict = "PASS" /\ lo' = sel.count /\ hi' = hi
           \/ verdict = failKind /\ hi' = sel.count /\ lo' = lo
    BY <1>6, Zenon DEF PrefixPasses, PrefixFails, Returned
  <2>2. Evidence /\ profile = "fast" /\ failKind \in {"FAIL", "LINK_FAIL"} /\ Failed(1 .. hi)
        /\ (lo > 0 => Ran(1 .. lo, "fast", "PASS"))
    BY <2>1, Zenon DEF EvidenceInv, Searching
  <2>3. Selected(sel) = 1 .. sel.count
    BY <2>1, Zenon DEF LastInv, Selected
  <2>4. Failed(1 .. hi)'
    <3>1. CASE hi' = hi
      BY <1>1, <2>1, <2>2, <3>1, RanGrows, Zenon
    <3>2. CASE verdict = failKind /\ hi' = sel.count
      <4>1. Failed(1 .. sel.count)
        BY <2>2, <2>3, <3>2, FailedNow, Zenon
      <4>2. QED
        BY <1>1, <2>1, <3>2, <4>1, RanGrows, Zenon
    <3>3. QED
      BY <2>1, <3>1, <3>2, Zenon
  <2>5. lo' > 0 => Ran(1 .. lo, "fast", "PASS")'
    <3>1. CASE lo' = lo
      BY <1>1, <2>2, <3>1, RanGrows, Zenon
    <3>2. CASE verdict = "PASS" /\ lo' = sel.count
      <4>1. Ran(1 .. sel.count, "fast", "PASS")
        BY <2>2, <2>3, <3>2, Zenon DEF Evidence
      <4>2. QED
        BY <1>1, <3>2, <4>1, RanGrows, Zenon
    <3>3. QED
      BY <2>1, <3>1, <3>2, Zenon
  <2>6. QED
    BY <1>1, <2>1, <2>2, <2>4, <2>5, Zenon DEF EvidenceInv, Searching
<1>7. CASE TrySingle
  <2>1. stage' = "single" /\ profile' = "fast" /\ UNCHANGED searchVars /\ pc = "search"
    BY <1>7, Zenon DEF TrySingle, Call
  <2>2. QED
    BY <1>1, <2>1, RanGrows, Zenon DEF EvidenceInv, Searching
<1>8. CASE TryExcept
  <2>1. /\ stage' = "except" /\ profile' = "fast" /\ stage = "single" /\ pc = "return"
        /\ lo' = lo /\ hi' = hi /\ failKind' = failKind /\ single' = verdict
    BY <1>8, Zenon DEF TryExcept, Call, Returned
  <2>2. Evidence /\ failKind \in {"FAIL", "LINK_FAIL"} /\ Selected(sel) = {hi}
    BY <2>1, SelectedFacts, Zenon DEF EvidenceInv, Searching, LastInv
  <2>3. verdict = failKind => Failed({hi})
    BY <2>2, FailedNow, Zenon
  <2>4. single' = failKind' => Failed({hi})'
    BY <1>1, <2>1, <2>3, RanGrows, Zenon
  <2>5. QED
    BY <1>1, <2>1, <2>4, RanGrows, Zenon DEF EvidenceInv, Searching
<1>9. CASE FullInconclusive \/ FocusedEnds \/ VerifyEnds \/ PrefixUnclear \/ Conclude
  <2>1. UNCHANGED <<callVars, searchVars>> /\ pc' = "done"
    BY <1>9, ExitKeeps, Zenon DEF FullInconclusive, FocusedEnds, VerifyEnds, PrefixUnclear, Conclude
  <2>2. QED
    BY <1>1, <2>1, RanGrows, Zenon DEF EvidenceInv, Searching
<1>10. QED
  BY <1>2, <1>3, <1>4, <1>5, <1>6, <1>7, <1>8, <1>9, Zenon DEF Sequence

LEMMA EvidenceStep == TypeOK /\ LastInv /\ TreeInv /\ EvidenceInv /\ [Next]_vars => EvidenceInv'
<1> SUFFICES ASSUME TypeOK, LastInv, TreeInv, EvidenceInv, [Next]_vars PROVE EvidenceInv'
  BY Zenon
<1> USE DEF callVars, searchVars
<1>1. CASE Trial
  <2>1. ran \subseteq ran' /\ (pc' = "return" => Evidence') /\ UNCHANGED <<callVars, searchVars>>
        /\ pc # "search" /\ pc' # "search"
    BY <1>1, TrialEvidence, TrialKeepsCall, Zenon
  <2>2. pc' # "done" => result' = "none"
    BY <1>1, TrialResult, Zenon DEF EvidenceInv
  <2>3. QED
    BY <2>1, <2>2, RanGrows, Zenon DEF EvidenceInv, Searching
<1>2. CASE UNCHANGED vars
  <2>1. UNCHANGED <<callVars, searchVars, pc, ran, result, verdict>>
    BY <1>2, Zenon DEF vars
  <2>2. Evidence' <=> Evidence
    BY <2>1, Zenon DEF Evidence, Ran
  <2>3. QED
    BY <2>1, <2>2, RanGrows, Zenon DEF EvidenceInv, Searching
<1>3. QED
  BY <1>1, <1>2, EvidenceSequence, Zenon DEF Next, Step

LEMMA ClaimsStep ==
  TypeOK /\ LastInv /\ EvidenceInv /\ ClaimsAreEarned /\ [Next]_vars => ClaimsAreEarned'
<1> SUFFICES ASSUME TypeOK, LastInv, EvidenceInv, ClaimsAreEarned, [Next]_vars
             PROVE  ClaimsAreEarned'
  BY Zenon
<1> USE DEF callVars, searchVars
<1>1. CASE Trial
  <2>1. result' \notin {"PASS", "SINGLE_OBJECT_SUSPECT"}
    BY <1>1, TrialResult, Zenon DEF EvidenceInv
  <2>2. QED
    BY <2>1, Zenon DEF ClaimsAreEarned
<1>2. CASE Sequence /\ result' \notin {"PASS", "SINGLE_OBJECT_SUSPECT"}
  BY <1>2, Zenon DEF ClaimsAreEarned
<1>3. CASE Sequence /\ result' \in {"PASS", "SINGLE_OBJECT_SUSPECT"}
  <2>1. pc' = "done"
    BY <1>3, SequenceKeeps, Zenon DEF EvidenceInv
  <2>2. VerifyEnds \/ Conclude
    <3>1. ~FullPasses /\ ~FullFails /\ ~FocusedSwap /\ ~SearchOn
      BY <2>1, Zenon DEF FullPasses, FullFails, FocusedSwap, SearchOn, Call
    <3>2. ~PrefixPasses /\ ~PrefixFails /\ ~TrySingle /\ ~TryExcept
      BY <2>1, Zenon DEF PrefixPasses, PrefixFails, TrySingle, TryExcept, Call
    <3>3. ~FullInconclusive /\ ~FocusedEnds /\ ~PrefixUnclear
      BY <1>3, ExitKeeps DEF FullInconclusive, FocusedEnds, PrefixUnclear
    <3>4. QED
      BY <1>3, <3>1, <3>2, <3>3, Zenon DEF Sequence
  <2>3. UNCHANGED <<searchVars, ran>>
    BY <2>2, ExitKeeps, Zenon DEF VerifyEnds, Conclude
  <2>4. CASE VerifyEnds
    <3>1. result' = "PASS" /\ verdict = "PASS" /\ pc = "return" /\ stage = "verify"
      BY <1>3, <2>4, ExitKeeps DEF VerifyEnds, Returned
    <3>2. Evidence /\ profile = "full" /\ Selected(sel) = Object /\ Ran(Object, "fast", "PASS")
      BY <3>1, SelectedFacts, Zenon DEF EvidenceInv, Object
    <3>3. Ran(Object, "full", "PASS")
      BY <3>1, <3>2, Zenon DEF Evidence
    <3>4. QED
      BY <2>3, <3>1, <3>2, <3>3, Zenon DEF ClaimsAreEarned, Ran
  <2>5. CASE Conclude
    <3>1. /\ result' = "SINGLE_OBJECT_SUSPECT" /\ verdict = "PASS" /\ single = failKind
          /\ pc = "return" /\ stage = "except"
      BY <1>3, <2>5, ExitKeeps DEF Conclude, Returned, IsSuspect
    <3>2. /\ Evidence /\ profile = "fast" /\ Selected(sel) = Object \ {hi} /\ Failed({hi})
          /\ Failed(1 .. hi) /\ (lo > 0 => Ran(1 .. lo, "fast", "PASS"))
      BY <3>1, SelectedFacts, Zenon DEF EvidenceInv, LastInv, Searching
    <3>3. hi > 1 => Ran(1 .. hi - 1, "fast", "PASS")
      <4>1. hi = lo + 1 /\ lo \in Nat
        BY <3>1, NumberFacts, Zenon DEF LastInv
      <4>2. hi - 1 = lo /\ (hi > 1 => lo > 0)
        BY <4>1
      <4>3. QED
        BY <3>2, <4>2, Zenon
    <3>4. Ran(Object \ {hi}, "fast", "PASS")
      BY <3>1, <3>2, Zenon DEF Evidence
    <3>5. QED
      BY <2>3, <3>1, <3>2, <3>3, <3>4, Zenon DEF ClaimsAreEarned, Ran, Failed
  <2>6. QED
    BY <2>2, <2>4, <2>5, Zenon
<1>4. CASE UNCHANGED vars
  BY <1>4, Zenon DEF vars, ClaimsAreEarned, Ran, Failed
<1>5. QED
  BY <1>1, <1>2, <1>3, <1>4, Zenon DEF Next, Step

(* PASS and SINGLE_OBJECT_SUSPECT are reported only on the evidence of the *)
(* trials they stand for, for every number of objects.                     *)
THEOREM ClaimsHaveEvidence == Spec => []ClaimsAreEarned
<1> DEFINE I == TypeOK /\ LastInv /\ TreeInv /\ EvidenceInv /\ ClaimsAreEarned
<1>1. Init => I
  BY InitType, LastInit, TreeInit, EvidenceInit, Zenon DEF Init, ClaimsAreEarned
<1>2. I /\ [Next]_vars => I'
  BY TypeStep, LastStep, TreeStep, EvidenceStep, ClaimsStep, Zenon
<1>3. QED
  BY <1>1, <1>2, PTL DEF Spec

-----------------------------------------------------------------------------
(* The search and the planner.                                             *)

PlanInv ==
  /\ Searching =>
       /\ lo \in Passes(seen) /\ hi \in Fails(seen)
       /\ \A p \in DOMAIN seen :
            /\ p \in Nat
            /\ (seen[p] = "PASS" /\ p <= lo) \/ (seen[p] = "FAIL" /\ hi <= p)
  /\ stage = "prefix" /\ pc # "search" => sel.count = Mid

LEMMA PlanInit == Init => PlanInv
  BY Zenon DEF Init, PlanInv, Searching

LEMMA PlanStep == TypeOK /\ LastInv /\ PlanInv /\ [Next]_vars => PlanInv'
<1> SUFFICES ASSUME TypeOK, LastInv, PlanInv, [Next]_vars PROVE PlanInv'
  BY Zenon
<1> USE DEF callVars, searchVars
<1>1. CASE Trial
  <2>1. UNCHANGED <<callVars, searchVars>> /\ pc # "search" /\ pc' # "search"
    BY <1>1, TrialKeepsCall, Zenon
  <2>2. QED
    BY <2>1, Zenon DEF PlanInv, Searching, Passes, Fails, Mid
<1>2. CASE FullPasses \/ FocusedSwap
  BY <1>2, Zenon DEF FullPasses, FocusedSwap, Call, PlanInv, Searching
<1>3. CASE FullFails
  <2>1. /\ lo' = 0 /\ hi' = N /\ pc' = "search"
        /\ seen' = [p \in {0, N} |-> IF p = 0 THEN "PASS" ELSE "FAIL"]
    BY <1>3, Zenon DEF FullFails
  <2>2. N \in Nat /\ N # 0
    BY GuardAssumption, Zenon
  <2>3. QED
    BY <2>1, <2>2 DEF PlanInv, Passes, Fails
<1>4. CASE SearchOn
  <2>1. sel'.count = Mid /\ Mid' = Mid /\ UNCHANGED searchVars /\ pc = "search"
    BY <1>4, Zenon DEF SearchOn, Call, Selection, Mid
  <2>2. QED
    BY <2>1, Zenon DEF PlanInv, Searching, Passes, Fails
<1>5. CASE PrefixPasses \/ PrefixFails
  <2>1. /\ lo < sel.count /\ sel.count < hi /\ sel.count \in Nat /\ lo \in Nat /\ hi \in Nat
        /\ pc' = "search" /\ stage = "prefix"
    BY <1>5, NumberFacts DEF PrefixPasses, PrefixFails, Returned, LastInv
  <2>2. /\ lo \in Passes(seen) /\ hi \in Fails(seen)
        /\ \A p \in DOMAIN seen :
             p \in Nat /\ ((seen[p] = "PASS" /\ p <= lo) \/ (seen[p] = "FAIL" /\ hi <= p))
    BY <2>1, Zenon DEF PlanInv, Searching
  <2>3. CASE PrefixPasses
    <3>1. /\ lo' = sel.count /\ hi' = hi
          /\ seen' = [p \in DOMAIN seen \cup {sel.count} |->
                        IF p = sel.count THEN "PASS" ELSE seen[p]]
      BY <2>3 DEF PrefixPasses, Observe
    <3>2. QED
      BY <2>1, <2>2, <3>1 DEF PlanInv, Passes, Fails
  <2>4. CASE PrefixFails
    <3>1. /\ hi' = sel.count /\ lo' = lo
          /\ seen' = [p \in DOMAIN seen \cup {sel.count} |->
                        IF p = sel.count THEN "FAIL" ELSE seen[p]]
      BY <2>4 DEF PrefixFails, Observe
    <3>2. QED
      BY <2>1, <2>2, <3>1, SMTT(30), SMTT(60) DEF PlanInv, Passes, Fails
  <2>5. QED
    BY <1>5, <2>3, <2>4, Zenon
<1>6. CASE TrySingle \/ TryExcept
  <2>1. /\ stage' # "prefix" /\ UNCHANGED <<lo, hi, seen>> /\ Searching
    BY <1>6, Zenon DEF TrySingle, TryExcept, Call, Returned, Searching
  <2>2. QED
    BY <2>1, Zenon DEF PlanInv, Passes, Fails
<1>7. CASE FullInconclusive \/ FocusedEnds \/ VerifyEnds \/ PrefixUnclear \/ Conclude
  <2>1. UNCHANGED <<callVars, searchVars>> /\ pc' = "done" /\ pc = "return"
    BY <1>7, ExitKeeps, Zenon
       DEF FullInconclusive, FocusedEnds, VerifyEnds, PrefixUnclear, Conclude, Returned
  <2>2. QED
    BY <2>1, Zenon DEF PlanInv, Searching, Passes, Fails, Mid
<1>8. CASE UNCHANGED vars
  BY <1>8, Zenon DEF vars, PlanInv, Searching, Passes, Fails, Mid
<1>9. QED
  BY <1>1, <1>2, <1>3, <1>4, <1>5, <1>6, <1>7, <1>8, Zenon DEF Next, Step, Sequence

(* The planner sees lo and hi.                                             *)
LEMMA PlanSees ==
  ASSUME TypeOK, PlanInv, Searching, lo < hi
  PROVE  /\ MaxPass(seen) = lo /\ MinFail(seen) = hi /\ ~NonMonotonic(seen)
         /\ Passes(seen) # {} /\ Fails(seen) # {}
         /\ \A p \in Nat : lo < p /\ p < hi => p \notin DOMAIN seen
<1>1. lo \in Nat /\ hi \in Nat
  BY NumberFacts, Zenon
<1>2. /\ lo \in Passes(seen) /\ hi \in Fails(seen)
      /\ \A p \in DOMAIN seen :
           p \in Nat /\ ((seen[p] = "PASS" /\ p <= lo) \/ (seen[p] = "FAIL" /\ hi <= p))
  BY Zenon DEF PlanInv
<1>3. \A q \in Passes(seen) : q \in Nat /\ q <= lo
  BY <1>2, Zenon DEF Passes
<1>4. \A q \in Fails(seen) : q \in Nat /\ hi <= q
  BY <1>2, Zenon DEF Fails
<1>5. MaxPass(seen) \in Passes(seen) /\ \A q \in Passes(seen) : q <= MaxPass(seen)
  BY <1>2, <1>3, Zenon DEF MaxPass
<1>6. MinFail(seen) \in Fails(seen) /\ \A q \in Fails(seen) : MinFail(seen) <= q
  BY <1>2, <1>4, Zenon DEF MinFail
<1>7. MaxPass(seen) = lo
  <2>1. MaxPass(seen) \in Nat /\ MaxPass(seen) <= lo /\ lo <= MaxPass(seen)
    BY <1>2, <1>3, <1>5, Zenon
  <2>2. QED
    BY <1>1, <2>1
<1>8. MinFail(seen) = hi
  <2>1. MinFail(seen) \in Nat /\ MinFail(seen) <= hi /\ hi <= MinFail(seen)
    BY <1>2, <1>4, <1>6, Zenon
  <2>2. QED
    BY <1>1, <2>1
<1>9. ~NonMonotonic(seen)
  BY <1>1, <1>7, <1>8 DEF NonMonotonic
<1>10. \A p \in Nat : lo < p /\ p < hi => p \notin DOMAIN seen
  BY <1>1, <1>2
<1>11. QED
  BY <1>2, <1>7, <1>8, <1>9, <1>10, Zenon

LEMMA PlanFacts == TypeOK /\ LastInv /\ PlanInv => SearchAgreesWithPlanner
<1> SUFFICES ASSUME TypeOK, LastInv, PlanInv PROVE SearchAgreesWithPlanner
  BY Zenon
<1>1. lo \in Nat /\ hi \in Nat
  BY NumberFacts, Zenon
<1>2. ASSUME pc = "search", hi - lo <= 1
      PROVE  Plan(N, seen) = [status |-> "ISOLATED", prefix |-> hi]
  <2>1. lo < hi /\ Searching
    BY <1>2, Zenon DEF LastInv, Searching
  <2>2. hi = lo + 1
    BY <1>1, <1>2, <2>1
  <2>3. QED
    BY <2>1, <2>2, PlanSees, Zenon DEF Plan
<1>3. ASSUME stage = "prefix", pc # "search"
      PROVE  Plan(N, seen) = [status |-> "NEXT", prefix |-> sel.count]
  <2>1. lo < sel.count /\ sel.count < hi /\ Searching /\ sel.count = Mid /\ sel.count \in Nat
    BY <1>3, NumberFacts DEF LastInv, Searching, PlanInv
  <2>2. lo < hi /\ hi # lo + 1
    BY <1>1, <2>1
  <2>3. sel.count \notin DOMAIN seen
    BY <2>1, <2>2, PlanSees
  <2>4. Plan(N, seen) = Ask(seen, Mid)
    BY <2>1, <2>2, PlanSees DEF Plan, Mid
  <2>5. QED
    BY <2>1, <2>3, <2>4, Zenon DEF Ask
<1>4. QED
  BY <1>2, <1>3, Zenon DEF SearchAgreesWithPlanner

(* The search of the shell script and the planner in Python agree on which *)
(* prefix comes next and on when one is isolated, for every number of      *)
(* objects and every sequence of verdicts.                                 *)
THEOREM SearchFollowsPlanner == Spec => []SearchAgreesWithPlanner
<1> DEFINE I == TypeOK /\ LastInv /\ PlanInv
<1>1. Init => I
  BY InitType, LastInit, PlanInit
<1>2. I /\ [Next]_vars => I'
  BY TypeStep, LastStep, PlanStep, Zenon
<1>3. QED
  BY <1>1, <1>2, PlanFacts, PTL DEF Spec
=============================================================================

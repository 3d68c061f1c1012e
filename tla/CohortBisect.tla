---------------------------- MODULE CohortBisect ----------------------------
(***************************************************************************)
(* tools/ci/linux-runtime-gcc-cohort-bisect-v1.sh: Linux Images with some  *)
(* objects compiled by MiniC and the others by GCC are linked and booted,  *)
(* to find the object that makes the kernel fail.  Modelled are trial()    *)
(* and the sequence of trials at the end of the script, with the guard and *)
(* the audit that trial() calls.  The options that add experiments of      *)
(* their own (COHORT_...) are off.                                         *)
(***************************************************************************)
EXTENDS RegenGuard, PrefixPlan

VARIABLES
  pc,        \* the command being executed
  stage,     \* the call of trial() that is active
  sel,       \* its selection "mode:count", and
  profile,   \* its profile
  lastSel,   \* last_selection
  tree,      \* $out: the objects
  hdr,       \* $out: the generated headers
  snap,      \* the snapshot of the headers that the guard compares with
  cc,        \* objects with a CC line in link.log
  image,     \* $out/arch/riscv/boot/Image: what it was linked from
  affected, todo, trace,
  delta,     \* last_candidate_delta
  verdict,   \* TRIAL_VERDICT
  lo, hi, failKind, single,
  seen,      \* the verdicts of prefixes, as evidence for the search
  ran,       \* history: the Images that were tested, with their verdicts
  result     \* what the script reports at its end

treeVars == <<tree, hdr, snap, cc, image>>
replayVars == <<affected, todo, trace, delta>>
searchVars == <<lo, hi, failKind, single, seen>>
callVars == <<stage, sel, profile>>
vars == <<pc, callVars, lastSel, treeVars, replayVars, verdict, searchVars, ran, result>>

NoSelection == [mode |-> "none", count |-> 0]
Selection(mode, count) == [mode |-> mode, count |-> count]

(* The script counts objects from 0; count is one more for the modes that  *)
(* name an object.                                                         *)
Selected(s) ==
  CASE s.mode = "prefix" -> 1 .. s.count
    [] s.mode = "single" -> {s.count}
    [] s.mode = "all_except" -> Object \ {s.count}
    [] s.mode = "none" -> {}

Overlay(s) == [o \in Object |-> IF o \in Selected(s) THEN MinicPool(o) ELSE GccPool(o)]

GccTree == [o \in Object |-> GccPool(o)]

GoldenImage == [objs |-> GccTree, hdr |-> Golden]

(* The objects of an Image or a tree that are MiniC's.                     *)
MinicIn(objs) == {o \in Object : objs[o].by = "minic"}

Init ==
  /\ pc = "restore" /\ stage = "full" /\ sel = Selection("prefix", N) /\ profile = "fast"
  /\ lastSel = NoSelection
  /\ tree = GccTree /\ hdr = Golden /\ snap = Golden /\ cc = {}
  /\ image = GoldenImage
  /\ affected = {} /\ todo = {} /\ trace = {} /\ delta = << >>
  /\ verdict = "none"
  /\ lo = 0 /\ hi = N /\ failKind = "none" /\ single = "none" /\ seen = << >>
  /\ ran = {} /\ result = "none"

Exit(r) ==
  /\ pc' = "done" /\ result' = r
  /\ UNCHANGED <<callVars, lastSel, treeVars, replayVars, verdict, searchVars, ran>>

-----------------------------------------------------------------------------
(* trial()                                                                 *)

(* The whole golden tree is put back and the selected objects over it; the *)
(* files of the trial itself are in a directory of its own.                *)
Restore ==
  /\ pc = "restore" /\ pc' = "link"
  /\ tree' = Overlay(sel) /\ hdr' = Golden /\ snap' = Golden /\ cc' = {}
  /\ image' = GoldenImage
  /\ affected' = {} /\ todo' = {} /\ trace' = {}
  /\ UNCHANGED <<callVars, lastSel, delta, verdict, searchVars, ran, result>>

(* make Image: headers h are generated, the objects again are compiled.    *)
Make(h, again) ==
  /\ hdr' = h
  /\ tree' = [o \in Object |-> IF o \in again THEN Compiled("gcc", o, h) ELSE tree[o]]

(* make compiles what reads a header that has changed, and may find a      *)
(* reason to compile other objects.                                        *)
MakeSucceeds(h, again) ==
  /\ {o \in Object : \E x \in Deps[o] : h[x] # hdr[x]} \subseteq again
  /\ Make(h, again)
  /\ image' = [objs |-> tree', hdr |-> h]

(* make fails anywhere, or is stopped because it compiles too much.        *)
MakeFails ==
  /\ \E h \in Headers, again \in SUBSET Object : Make(h, again)
  /\ pc' = "return" /\ verdict' = "LINK_FAIL"
  /\ ran' = ran \cup {[minic |-> MinicIn(tree), profile |-> profile, verdict |-> "LINK_FAIL"]}
  /\ UNCHANGED <<callVars, lastSel, snap, cc, image, replayVars, searchVars, result>>

FirstLink ==
  /\ pc = "link" /\ pc' = "impact"
  /\ \E h \in Headers, again \in SUBSET Object :
       MakeSucceeds(h, again) /\ cc' \in SUBSET again
  /\ UNCHANGED <<callVars, lastSel, snap, replayVars, verdict, searchVars, ran, result>>

LinkFails == pc \in {"link", "relink", "guarded"} /\ MakeFails

(* The guard's impact, over the whole list of objects.                     *)
Impact ==
  /\ pc = "impact" /\ ImpactAccepted(snap, hdr)
  /\ affected' = Impacted(snap, hdr) /\ delta' = << >>
  /\ affected' \subseteq Selected(sel)
  /\ IF affected' = {}
     THEN pc' = "repair" /\ UNCHANGED <<snap, todo, trace>>
     ELSE pc' = "replay" /\ snap' = hdr /\ todo' = affected' /\ trace' = {}
  /\ UNCHANGED <<callVars, lastSel, tree, hdr, cc, image, verdict, searchVars, ran, result>>

(* Another header, too many objects, or one that is to stay GCC's.         *)
ImpactRefused ==
  /\ pc = "impact"
  /\ ~ImpactAccepted(snap, hdr) \/ ~(Impacted(snap, hdr) \subseteq Selected(sel))
  /\ Exit("INCONCLUSIVE")

(* replay_affected, one object: the wrapper compiles with MiniC and says   *)
(* so, or calls GCC and says nothing.                                      *)
ReplayObject ==
  \E o \in todo :
    /\ pc = "replay" /\ pc' = pc
    /\ \A q \in todo : o <= q
    /\ \E by \in {"minic", "gcc"} :
         /\ tree' = [tree EXCEPT ![o] = Compiled(by, o, hdr)]
         /\ trace' = IF by = "minic" THEN trace \cup {<<o, Compiled(by, o, hdr)>>} ELSE trace
    /\ todo' = todo \ {o}
    /\ UNCHANGED <<callVars, lastSel, hdr, snap, cc, image, affected, delta, verdict,
                   searchVars, ran, result>>

ReplayFails == pc = "replay" /\ todo # {} /\ Exit("INCONCLUSIVE")

(* The audit; what it accepts is what the trial stands for from now on.    *)
Reconcile ==
  /\ pc = "replay" /\ todo = {} /\ pc' = "relink"
  /\ Audited(tree, affected, trace) /\ hdr = snap
  /\ delta' = [o \in affected |-> tree[o]]
  /\ UNCHANGED <<callVars, lastSel, treeVars, affected, todo, trace, verdict, searchVars, ran,
                 result>>

(* Or an accepted object has not the ABI of GCC's, which an assertion      *)
(* finds: the script ends and reports nothing.                             *)
ReconcileRefused ==
  /\ pc = "replay" /\ todo = {}
  /\ \/ ~(Audited(tree, affected, trace) /\ hdr = snap) /\ Exit("INCONCLUSIVE")
     \/ Audited(tree, affected, trace) /\ hdr = snap /\ Exit("ABI")

(* The second link must leave the headers alone.                           *)
Relink ==
  /\ pc = "relink"
  /\ \E h \in Headers, again \in SUBSET Object : MakeSucceeds(h, again)
  /\ IF hdr' = snap
     THEN pc' = "identity" /\ UNCHANGED result
     ELSE pc' = "done" /\ result' = "INCONCLUSIVE"
  /\ UNCHANGED <<callVars, lastSel, snap, cc, replayVars, verdict, searchVars, ran>>

(* Mutant: the objects are put back and the Image is not linked again.     *)
RepairWithoutLink ==
  /\ pc = "repair" /\ RepairAccepted(tree, Selected(sel), cc, snap, hdr)
  /\ pc' = "identity"
  /\ tree' = Repaired(tree, Selected(sel))
  /\ UNCHANGED <<callVars, lastSel, hdr, snap, cc, image, replayVars, verdict, searchVars, ran,
                 result>>

Repair ==
  /\ pc = "repair" /\ RepairAccepted(tree, Selected(sel), cc, snap, hdr)
  /\ pc' = IF Bad(tree, Selected(sel)) = {} THEN "identity" ELSE "guarded"
  /\ tree' = Repaired(tree, Selected(sel))
  /\ UNCHANGED <<callVars, lastSel, hdr, snap, cc, image, replayVars, verdict, searchVars, ran,
                 result>>

RepairRefused ==
  /\ pc = "repair" /\ ~RepairAccepted(tree, Selected(sel), cc, snap, hdr)
  /\ Exit("INCONCLUSIVE")

GuardedRelink ==
  /\ pc = "guarded" /\ pc' = "identity"
  /\ \E h \in Headers, again \in SUBSET Object : MakeSucceeds(h, again)
  /\ UNCHANGED <<callVars, lastSel, snap, cc, replayVars, verdict, searchVars, ran, result>>

(* What the trial says an object is: a pool's, or the reconciled one.      *)
Gold(o) ==
  IF o \in Selected(sel)
  THEN IF o \in DOMAIN delta THEN delta[o] ELSE MinicPool(o)
  ELSE GccPool(o)

Identical == \A o \in Object : tree[o] = Gold(o)

Identity ==
  /\ pc = "identity" /\ pc' = "boot" /\ Identical
  /\ lastSel' = sel
  /\ UNCHANGED <<callVars, treeVars, replayVars, verdict, searchVars, ran, result>>

IdentityFails == pc = "identity" /\ ~Identical /\ Exit("IDENTITY")

(* runtime_boot.sh under QEMU.  The golden Image is not booted again.      *)
Outcomes ==
  IF image.objs = GccTree THEN {"INCONCLUSIVE"} ELSE {"PASS", "FAIL", "INCONCLUSIVE"}

Report(v) ==
  /\ verdict' = v
  /\ ran' = ran \cup {[minic |-> MinicIn(image.objs), profile |-> profile, verdict |-> v]}
  /\ pc' = "return"

Boot ==
  /\ pc = "boot"
  /\ \E v \in Outcomes :
       IF profile = "full" /\ v = "PASS"
       THEN pc' = "p1" /\ UNCHANGED <<verdict, ran>>
       ELSE Report(v)
  /\ UNCHANGED <<callVars, lastSel, treeVars, replayVars, searchVars, result>>

(* After the full profile the same Image has to pass P1.                   *)
BootP1 ==
  /\ pc = "p1"
  /\ \E v \in {"PASS", "FAIL", "INCONCLUSIVE"} : Report(v)
  /\ UNCHANGED <<callVars, lastSel, treeVars, replayVars, searchVars, result>>

Trial ==
  \/ Restore \/ FirstLink \/ LinkFails \/ Impact \/ ImpactRefused
  \/ ReplayObject \/ ReplayFails \/ Reconcile \/ ReconcileRefused \/ Relink
  \/ Repair \/ RepairRefused \/ GuardedRelink \/ Identity \/ IdentityFails
  \/ Boot \/ BootP1

-----------------------------------------------------------------------------
(* The sequence of trials.                                                 *)

(* A trial of the selection of the last one takes its tree as it is.       *)
Call(st, s, prof) ==
  /\ stage' = st /\ sel' = s /\ profile' = prof
  /\ pc' = IF s = lastSel THEN "identity" ELSE "restore"

Returned(st) == pc = "return" /\ stage = st

FullPasses ==
  /\ Returned("full") /\ verdict = "PASS"
  /\ Call("verify", Selection("prefix", N), "full")
  /\ UNCHANGED <<lastSel, treeVars, replayVars, verdict, searchVars, ran, result>>

(* The golden Image, prefix 0, has passed before.                          *)
FullFails ==
  /\ Returned("full") /\ verdict \in {"FAIL", "LINK_FAIL"}
  /\ failKind' = verdict /\ lo' = 0 /\ hi' = N
  /\ seen' = [p \in {0, N} |-> IF p = 0 THEN "PASS" ELSE "FAIL"]
  /\ pc' = "search"
  /\ UNCHANGED <<callVars, lastSel, treeVars, replayVars, verdict, single, ran, result>>

FullInconclusive == Returned("full") /\ verdict = "INCONCLUSIVE" /\ Exit("INCONCLUSIVE")

(* The Image and the initrd overlap: one object is tried with GCC.         *)
FocusedSwap ==
  /\ Returned("full") /\ verdict = "INCONCLUSIVE"
  /\ \E o \in Object : Call("focused", Selection("all_except", o), "fast")
  /\ UNCHANGED <<lastSel, treeVars, replayVars, verdict, searchVars, ran, result>>

FocusedEnds == Returned("focused") /\ Exit("INCONCLUSIVE")

VerifyEnds ==
  /\ Returned("verify")
  /\ Exit(IF verdict = "PASS" THEN "PASS"
          ELSE IF verdict = "INCONCLUSIVE" THEN "INCONCLUSIVE" ELSE "FAIL")

(* Mutant: the middle is rounded up.                                       *)
MidUp == (lo + hi + 1) \div 2

Mid == (lo + hi) \div 2

SearchOn ==
  /\ pc = "search" /\ hi - lo > 1
  /\ Call("prefix", Selection("prefix", Mid), "fast")
  /\ UNCHANGED <<lastSel, treeVars, replayVars, verdict, searchVars, ran, result>>

(* Mutant: a prefix that passes does not move the lower end.               *)
PrefixPassesStays ==
  /\ Returned("prefix") /\ verdict = "PASS"
  /\ pc' = "search"
  /\ UNCHANGED <<callVars, lastSel, treeVars, replayVars, verdict, searchVars, ran, result>>

(* Only PASS and FAIL are evidence: a prefix without a verdict ends the    *)
(* script (PrefixUnclear), so nothing is asked again.                      *)
Observe(v) == seen' = [p \in DOMAIN seen \cup {sel.count} |-> IF p = sel.count THEN v ELSE seen[p]]

PrefixPasses ==
  /\ Returned("prefix") /\ verdict = "PASS"
  /\ lo' = sel.count /\ Observe("PASS") /\ pc' = "search"
  /\ UNCHANGED <<callVars, lastSel, treeVars, replayVars, verdict, hi, failKind, single, ran,
                 result>>

PrefixFails ==
  /\ Returned("prefix") /\ verdict = failKind
  /\ hi' = sel.count /\ Observe("FAIL") /\ pc' = "search"
  /\ UNCHANGED <<callVars, lastSel, treeVars, replayVars, verdict, lo, failKind, single, ran,
                 result>>

(* No verdict, or another kind of failure than that of all objects.        *)
PrefixUnclear ==
  /\ Returned("prefix") /\ verdict \notin {"PASS", failKind}
  /\ Exit(IF verdict = "INCONCLUSIVE" THEN "INCONCLUSIVE" ELSE "MIXED_CLASSES")

(* A failing prefix is a clue: its last object alone, then all but it.     *)
TrySingle ==
  /\ pc = "search" /\ hi - lo <= 1
  /\ Call("single", Selection("single", hi), "fast")
  /\ UNCHANGED <<lastSel, treeVars, replayVars, verdict, searchVars, ran, result>>

TryExcept ==
  /\ Returned("single")
  /\ single' = verdict
  /\ Call("except", Selection("all_except", hi), "fast")
  /\ UNCHANGED <<lastSel, treeVars, replayVars, verdict, lo, hi, failKind, seen, ran, result>>

(* Mutant: the trial without the object is not looked at.                  *)
IsSuspectAlone == single = failKind

IsSuspect == single = failKind /\ verdict = "PASS"

Conclude ==
  /\ Returned("except")
  /\ Exit(IF IsSuspect THEN "SINGLE_OBJECT_SUSPECT" ELSE "INTERACTION_OR_NONMONOTONE")

Sequence ==
  \/ FullPasses \/ FullFails \/ FullInconclusive \/ FocusedSwap \/ FocusedEnds \/ VerifyEnds
  \/ SearchOn \/ PrefixPasses \/ PrefixFails \/ PrefixUnclear
  \/ TrySingle \/ TryExcept \/ Conclude

Step == Trial \/ Sequence

Next == Step \/ (pc = "done" /\ UNCHANGED vars)

(* Every command of the script ends: QEMU and the links run under timeouts *)
(* of the harness and of the job.                                          *)
Spec == Init /\ [][Next]_vars /\ WF_vars(Step)

-----------------------------------------------------------------------------
Modes == {"none", "prefix", "single", "all_except"}
Verdicts == {"PASS", "FAIL", "INCONCLUSIVE", "LINK_FAIL"}
Content == [by : {"gcc", "minic"}, read : UNION {[D -> 0 .. MaxGen] : D \in SUBSET Header}]

(* Type correctness: the commands of the script, the trees and headers it  *)
(* works on, and the ends of the search.                                   *)
TypeOK ==
  /\ pc \in {"restore", "link", "impact", "replay", "relink", "repair", "guarded", "identity",
             "boot", "p1", "return", "search", "done"}
  /\ stage \in {"full", "verify", "focused", "prefix", "single", "except"}
  /\ sel \in [mode : Modes, count : 0 .. N] /\ lastSel \in [mode : Modes, count : 0 .. N]
  /\ profile \in {"fast", "full"}
  /\ tree \in [Object -> Content] /\ hdr \in Headers /\ snap \in Headers
  /\ cc \subseteq Object /\ image \in [objs : [Object -> Content], hdr : Headers]
  /\ affected \subseteq Object /\ todo \subseteq Object /\ trace \subseteq Object \X Content
  /\ verdict \in Verdicts \cup {"none"}
  /\ lo \in 0 .. N /\ hi \in 0 .. N

Booting == pc \in {"boot", "p1"}

(* When trial() boots an Image, MiniC's objects in it are exactly those of *)
(* the selection: nothing is left of an earlier trial, nothing that Kbuild *)
(* compiled with GCC again, nothing that the wrapper handed to GCC.        *)
TestedIsSelected == Booting => MinicIn(image.objs) = Selected(sel)

(* When trial() boots an Image, each object in it was compiled with the    *)
(* generated headers that the Image was linked with: an object of the pool *)
(* that was made with other vDSO offsets is never tested.                  *)
TestedIsCoherent ==
  Booting => \A o \in Object : image.objs[o].read = [x \in Deps[o] |-> image.hdr[x]]

Ran(objs, prof, v) == [minic |-> objs, profile |-> prof, verdict |-> v] \in ran

(* A link may fail when Kbuild has replaced some of the selected objects.  *)
Failed(objs) ==
  \E r \in ran : r.verdict = failKind /\ r.minic \subseteq objs
                 /\ (failKind = "FAIL" => r.minic = objs)

(* What the script reports at its end was observed: PASS that the Image of *)
(* all objects passed both profiles, SINGLE_OBJECT_SUSPECT that the object *)
(* fails alone as all do, that all but it pass, that the prefix up to it   *)
(* fails and the prefix before it passes.                                  *)
ClaimsAreEarned ==
  /\ result = "PASS" => Ran(Object, "fast", "PASS") /\ Ran(Object, "full", "PASS")
  /\ result = "SINGLE_OBJECT_SUSPECT" =>
       /\ Failed({hi}) /\ Ran(Object \ {hi}, "fast", "PASS")
       /\ Failed(1 .. hi) /\ (hi > 1 => Ran(1 .. hi - 1, "fast", "PASS"))

(* The search in the shell script does what the planner of                 *)
(* linux-runtime-prefix-bisect-v1.py says on the same evidence: it tests   *)
(* the planner's next prefix, and stops when the planner has isolated one. *)
(* The planner's RETRY, for a prefix without a verdict, has no counterpart *)
(* here: the shell script ends at such a prefix.                           *)
SearchAgreesWithPlanner ==
  /\ pc = "search" /\ hi - lo <= 1 => Plan(N, seen) = [status |-> "ISOLATED", prefix |-> hi]
  /\ stage = "prefix" /\ pc # "search" =>
       Plan(N, seen) = [status |-> "NEXT", prefix |-> sel.count]

(* The script comes to its end, however the trials go.                     *)
CohortEnds == <>(pc = "done")
=============================================================================

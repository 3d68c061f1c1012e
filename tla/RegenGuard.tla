----------------------------- MODULE RegenGuard -----------------------------
(***************************************************************************)
(* tools/ci/linux-runtime-kbuild-regeneration-guard-v1.py and              *)
(* tools/ci/linux-runtime-minic-route-audit-v1.py.  While Kbuild links an  *)
(* Image it may write generated headers anew and compile objects again     *)
(* with GCC; the guard finds out which objects that concerns.              *)
(*                                                                         *)
(* An object is known by its place in the list of objects.  What matters   *)
(* of its bytes is the compiler and the version of each generated header   *)
(* that was read; the version of a header in the golden tree is 0.         *)
(***************************************************************************)
EXTENDS Naturals, FiniteSets

CONSTANTS
  N,          \* the number of objects
  Header,     \* generated headers
  Allowed,    \* those that a link may change: vdso-offsets.h, compile.h
  Deps,       \* the headers in the dependencies of the frozen .cmd files
  MaxGen,     \* bound: versions of a header
  MaxReplay   \* how many objects may depend on changed headers: 16

Object == 1 .. N

ASSUME GuardAssumption ==
  /\ N \in Nat \ {0}
  /\ Allowed \subseteq Header
  /\ Deps \in [Object -> SUBSET Header]
  /\ MaxGen \in Nat /\ MaxReplay \in Nat

(* Header leaves out utsversion.h (EXCLUDE_HEADERS): the guard does not    *)
(* look at it, and only init/version-timestamp.o reads it, which is not in *)
(* the list of objects.                                                    *)
Headers == [Header -> 0 .. MaxGen]

Compiled(by, o, h) == [by |-> by, read |-> [x \in Deps[o] |-> h[x]]]

Golden == [x \in Header |-> 0]

(* $ev/gcc and $ev/minic: both pools were made from the golden headers.    *)
GccPool(o) == Compiled("gcc", o, Golden)

MinicPool(o) == Compiled("minic", o, Golden)

(* header_impact                                                           *)
Changed(before, now) == {x \in Header : now[x] # before[x]}

(* Mutant: the .cmd files are not looked at.                               *)
DependentsNone(names, changed) == {}

(* selected_generated_header_dependents                                    *)
Dependents(names, changed) == {o \in names : Deps[o] \cap changed # {}}

Impacted(before, now) == Dependents(Object, Changed(before, now))

ImpactAccepted(before, now) ==
  /\ Changed(before, now) \subseteq Allowed
  /\ Cardinality(Impacted(before, now)) <= MaxReplay

(* repair: the selected objects that are no longer those of the pool are   *)
(* copied again, if no header they read has changed and the log of the     *)
(* link has a CC line for each of them.                                    *)
Bad(tree, selected) == {o \in selected : tree[o] # MinicPool(o)}

RepairAccepted(tree, selected, cc, before, now) ==
  /\ Dependents(selected, Changed(before, now)) = {}
  /\ Bad(tree, selected) \subseteq cc

Repaired(tree, selected) ==
  [o \in Object |-> IF o \in Bad(tree, selected) THEN MinicPool(o) ELSE tree[o]]

(* check_final_object_hashes: the object in the tree is one that the       *)
(* wrapper attested after MiniC and the assembler had succeeded.           *)
Audited(tree, names, trace) == \A o \in names : <<o, tree[o]>> \in trace
=============================================================================

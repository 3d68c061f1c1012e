---------------------------- MODULE LinkResolve ----------------------------
(***************************************************************************)
(* The input phase of minic-ld (linker/src/linker_core.inc): the inputs    *)
(* are consumed in the order of the command line, archives are searched    *)
(* for members that define a symbol still needed, --start-group runs are   *)
(* searched again until nothing changes, and every global symbol is merged *)
(* into one table.  Then the linker defines the names it provides itself,  *)
(* and the mode of the link decides which symbols may stay undefined.      *)
(* Links with a linker script, which can define further names, are left    *)
(* out.                                                                    *)
(*                                                                         *)
(* An object is reduced to its global symbol table: what it says about     *)
(* each name.  A COMMON symbol is a definition for this code, as the test  *)
(* symbol_is_defined is `section != UNDEF`.                                *)
(***************************************************************************)
EXTENDS Naturals, Sequences, FiniteSets

CONSTANTS
  Path,      \* input files
  Name,      \* global symbol names
  NoObject,  \* the definer of a symbol that is not defined
  Linker,    \* the definer of a symbol that the linker makes
  Boundary,  \* __bss_start, _edata, _end, __global_pointer$, ...
  Arrays,    \* pairs of names: __init_array_start, __init_array_end, ...
  Dynamic,   \* _DYNAMIC
  EhdrStart, \* __ehdr_start
  Jobs       \* the link commands considered

Entry == {"none", "wundef", "undef", "weak", "strong"}

Undefined == {"wundef", "undef"}
Defined == {"weak", "strong"}

Table == [Name -> Entry]

(* An ET_REL object, a shared object, or an archive with its members.      *)
File ==
  [type : {"object", "dso"}, members : [1 .. 1 -> Table]]
    \cup [type : {"archive"}, members : Seq(Table)]

InputKind == {"object", "whole", "archive", "group"}

Job ==
  [mode : {"static", "shared", "pie", "relocatable"},
   inputs : Seq([kind : InputKind, path : Path]),
   file : [Path -> File]]

ASSUME LinkConstants ==
  /\ {NoObject, Linker} \cap (Path \X Nat) = {} /\ NoObject # Linker
  /\ Boundary \subseteq Name /\ Arrays \subseteq Name \X Name
  /\ {Dynamic, EhdrStart} \subseteq Name
  /\ Jobs \subseteq Job
  /\ \A j \in Jobs : j.inputs # << >>

(* An object is known by its file and its place in it.                     *)
Object == Path \X (Nat \ {0})

VARIABLES
  job,
  pc,       \* the loop being executed
  idx,      \* i of process_input_sequence
  gend,     \* end of the group being processed
  gpos,     \* i of process_group_sequence
  first,    \* first_pass
  before,   \* processed_object_count at the start of the group's pass
  ret,      \* the loop that an archive scan returns to
  cur,      \* the archive being scanned
  mi,       \* i of the loop over its members
  selected, \* selected[]
  changed,  \* the scan has selected a member in this pass
  merged,   \* the objects processed so far, in order
  dso,      \* names that the shared inputs define
  needed,   \* a shared input was seen (dso_needed_count != 0)
  syms,     \* the global symbols
  why       \* why the link failed

vars ==
  <<job, pc, idx, gend, gpos, first, before, ret, cur, mi, selected, changed,
    merged, dso, needed, syms, why>>

control == <<idx, gend, gpos, first, before, ret, cur, mi, selected, changed>>
table == <<merged, dso, needed, syms>>

Inputs == job.inputs
FileAt(p) == job.file[p]
TableOf(o) == FileAt(o[1]).members[o[2]]

Init ==
  /\ job \in Jobs
  /\ pc = "inputs"
  /\ idx = 1 /\ gend = 1 /\ gpos = 1 /\ first = TRUE /\ before = 0
  /\ ret = "inputs" /\ cur = Inputs[1].path /\ mi = 1 /\ selected = {} /\ changed = FALSE
  /\ merged = << >> /\ dso = {} /\ needed = FALSE
  /\ syms = [n \in Name |-> [entry |-> "none", by |-> NoObject]]
  /\ why = "none"

-----------------------------------------------------------------------------
(* The symbol table.                                                       *)

(* Mutant: a weak definition does not settle a reference.                  *)
MergeSymbolWeakLeavesUndefined(old, new, o) ==
  CASE new = "none" -> old
    [] old.entry = "none" /\ new # "none" ->
         [entry |-> new, by |-> IF new \in Defined THEN o ELSE NoObject]
    [] old.entry \in Undefined /\ new = "strong" -> [entry |-> new, by |-> o]
    [] old.entry = "weak" /\ new = "strong" -> [entry |-> new, by |-> o]
    [] old.entry = "wundef" /\ new = "undef" -> [entry |-> new, by |-> NoObject]
    [] OTHER -> old

(* Mutant: a strong reference does not replace a weak one.                 *)
MergeSymbolKeepsWeakReference(old, new, o) ==
  CASE new = "none" -> old
    [] old.entry = "none" /\ new # "none" ->
         [entry |-> new, by |-> IF new \in Defined THEN o ELSE NoObject]
    [] old.entry \in Undefined /\ new \in Defined -> [entry |-> new, by |-> o]
    [] old.entry = "weak" /\ new = "strong" -> [entry |-> new, by |-> o]
    [] OTHER -> old

(* add_or_merge_global_symbol, when it does not report a clash.            *)
MergeSymbol(old, new, o) ==
  CASE new = "none" -> old
    [] old.entry = "none" /\ new # "none" ->
         [entry |-> new, by |-> IF new \in Defined THEN o ELSE NoObject]
    [] old.entry \in Undefined /\ new \in Defined -> [entry |-> new, by |-> o]
    [] old.entry = "weak" /\ new = "strong" -> [entry |-> new, by |-> o]
    [] old.entry = "wundef" /\ new = "undef" -> [entry |-> new, by |-> NoObject]
    [] OTHER -> old

MultipleDefinition(o) == \E n \in Name : syms[n].entry = "strong" /\ TableOf(o)[n] = "strong"

(* process_input_data: the object's symbols join the table ...             *)
MergeObject(o) ==
  /\ ~MultipleDefinition(o)
  /\ syms' = [n \in Name |-> MergeSymbol(syms[n], TableOf(o)[n], o)]
  /\ merged' = Append(merged, o)
  /\ UNCHANGED <<dso, needed, why>>

Fail(reason) ==
  /\ pc' = "failed" /\ why' = reason
  /\ UNCHANGED <<control, table>>

(* ... or the link fails.                                                  *)
ClashObject(o) == MultipleDefinition(o) /\ Fail("multiple-definition")

AllowDso == job.mode \in {"shared", "pie"}

(* process_dso_input_data                                                  *)
MergeDso(p) ==
  /\ AllowDso
  /\ dso' = dso \cup {n \in Name : FileAt(p).members[1][n] \in Defined}
  /\ needed' = TRUE
  /\ UNCHANGED <<merged, syms, why>>

(* process_input, for a file that is not an archive.                       *)
IsDso(p) == FileAt(p).type = "dso"

ProcessInput(p) ==
  \/ IsDso(p) /\ MergeDso(p)
  \/ ~IsDso(p) /\ MergeObject(<<p, 1>>)

ProcessInputFails(p) ==
  \/ IsDso(p) /\ ~AllowDso /\ Fail("shared-input")
  \/ ~IsDso(p) /\ ClashObject(<<p, 1>>)

(* object_data_defines_needed_symbol                                       *)
UnresolvedNonweak(n) == syms[n].entry = "undef"
Needed(t) == \E n \in Name : t[n] \in Defined /\ UnresolvedNonweak(n)

IsArchive(p) == FileAt(p).type = "archive"
Members(p) == FileAt(p).members

-----------------------------------------------------------------------------
(* process_input_sequence                                                  *)

AtInput(kinds) == pc = "inputs" /\ idx <= Len(Inputs) /\ Inputs[idx].kind \in kinds

InputPath == Inputs[idx].path

OpenArchive(p, from) ==
  /\ pc' = "scan" /\ ret' = from /\ cur' = p
  /\ mi' = 1 /\ selected' = {} /\ changed' = FALSE
  /\ UNCHANGED <<job, idx, gend, gpos, first, before, table, why>>

InputArchive ==
  /\ AtInput({"object", "archive"}) /\ IsArchive(InputPath)
  /\ OpenArchive(InputPath, "inputs")

InputObject ==
  /\ AtInput({"object"}) /\ ~IsArchive(InputPath)
  /\ \/ /\ ProcessInput(InputPath)
        /\ idx' = idx + 1
        /\ UNCHANGED <<pc, gend, gpos, first, before, ret, cur, mi, selected, changed>>
     \/ ProcessInputFails(InputPath)
  /\ UNCHANGED job

InputNotArchive ==
  /\ AtInput({"archive", "whole"}) /\ ~IsArchive(InputPath)
  /\ Fail("expected-archive")
  /\ UNCHANGED job

InputWhole ==
  /\ AtInput({"whole"}) /\ IsArchive(InputPath)
  /\ pc' = "whole" /\ cur' = InputPath /\ mi' = 1
  /\ UNCHANGED <<job, idx, gend, gpos, first, before, ret, selected, changed, table, why>>

(* The group reaches to the first input that is not in it.                 *)
GroupEndsAt(e) ==
  /\ \A k \in idx .. e - 1 : Inputs[k].kind = "group"
  /\ e <= Len(Inputs) => Inputs[e].kind # "group"

(* Mutant: the end of the group is one too far.                            *)
InputGroupTooFar ==
  /\ AtInput({"group"})
  /\ pc' = "group"
  /\ \E e \in idx + 1 .. Len(Inputs) + 1 : GroupEndsAt(e) /\ gend' = e + 1
  /\ gpos' = idx /\ first' = TRUE /\ before' = Len(merged)
  /\ UNCHANGED <<job, idx, ret, cur, mi, selected, changed, table, why>>

InputGroup ==
  /\ AtInput({"group"})
  /\ pc' = "group"
  /\ \E e \in idx + 1 .. Len(Inputs) + 1 : GroupEndsAt(e) /\ gend' = e
  /\ gpos' = idx /\ first' = TRUE /\ before' = Len(merged)
  /\ UNCHANGED <<job, idx, ret, cur, mi, selected, changed, table, why>>

InputsEnd ==
  /\ pc = "inputs" /\ idx > Len(Inputs)
  /\ pc' = "resolve"
  /\ UNCHANGED <<job, control, table, why>>

(* process_whole_archive: every member, in order. The members of a thin    *)
(* archive go through process_input; they are taken to be objects.         *)
WholeMember ==
  /\ pc = "whole" /\ mi <= Len(Members(cur))
  /\ \/ /\ MergeObject(<<cur, mi>>)
        /\ mi' = mi + 1
        /\ UNCHANGED <<pc, idx, gend, gpos, first, before, ret, cur, selected, changed>>
     \/ ClashObject(<<cur, mi>>)
  /\ UNCHANGED job

WholeEnd ==
  /\ pc = "whole" /\ mi > Len(Members(cur))
  /\ pc' = "inputs" /\ idx' = idx + 1
  /\ UNCHANGED <<job, gend, gpos, first, before, ret, cur, mi, selected, changed, table, why>>

-----------------------------------------------------------------------------
(* process_group_archive: the scan of one archive, until a pass over its   *)
(* members selects nothing.                                                *)

Wanted == mi \notin selected /\ Needed(Members(cur)[mi])

ScanSkip ==
  /\ pc = "scan" /\ mi <= Len(Members(cur)) /\ ~Wanted
  /\ mi' = mi + 1
  /\ UNCHANGED <<job, pc, idx, gend, gpos, first, before, ret, cur, selected, changed>>
  /\ UNCHANGED <<table, why>>

ScanSelect ==
  /\ pc = "scan" /\ mi <= Len(Members(cur)) /\ Wanted
  /\ \/ /\ MergeObject(<<cur, mi>>)
        /\ mi' = mi + 1 /\ selected' = selected \cup {mi} /\ changed' = TRUE
        /\ UNCHANGED <<pc, idx, gend, gpos, first, before, ret, cur>>
     \/ ClashObject(<<cur, mi>>)
  /\ UNCHANGED job

(* Mutant: `changed = false` is outside the loop.                          *)
ScanAgainForever ==
  /\ pc = "scan" /\ mi > Len(Members(cur)) /\ changed
  /\ mi' = 1
  /\ UNCHANGED <<job, pc, idx, gend, gpos, first, before, ret, cur, selected, changed, table, why>>

ScanAgain ==
  /\ pc = "scan" /\ mi > Len(Members(cur)) /\ changed
  /\ mi' = 1 /\ changed' = FALSE
  /\ UNCHANGED <<job, pc, idx, gend, gpos, first, before, ret, cur, selected, table, why>>

ScanEnd ==
  /\ pc = "scan" /\ mi > Len(Members(cur)) /\ ~changed
  /\ pc' = ret
  /\ \/ ret = "inputs" /\ idx' = idx + 1 /\ UNCHANGED gpos
     \/ ret = "group" /\ gpos' = gpos + 1 /\ UNCHANGED idx
  /\ UNCHANGED <<job, gend, first, before, ret, cur, mi, selected, changed, table, why>>

-----------------------------------------------------------------------------
(* process_group_sequence: objects once, archives in every pass, until a   *)
(* pass processes nothing.                                                 *)

GroupPath == Inputs[gpos].path

GroupArchive ==
  /\ pc = "group" /\ gpos < gend /\ IsArchive(GroupPath)
  /\ OpenArchive(GroupPath, "group")

GroupObject ==
  /\ pc = "group" /\ gpos < gend /\ ~IsArchive(GroupPath)
  /\ \/ /\ \/ first /\ ProcessInput(GroupPath)
           \/ ~first /\ UNCHANGED <<table, why>>
        /\ gpos' = gpos + 1
        /\ UNCHANGED <<pc, idx, gend, first, before, ret, cur, mi, selected, changed>>
     \/ first /\ ProcessInputFails(GroupPath)
  /\ UNCHANGED job

GroupAgain ==
  /\ pc = "group" /\ gpos = gend /\ Len(merged) # before
  /\ gpos' = idx /\ before' = Len(merged) /\ first' = FALSE
  /\ UNCHANGED <<job, pc, idx, gend, ret, cur, mi, selected, changed, table, why>>

(* Mutant: one pass over the group is taken to be enough.                  *)
GroupEndOnePass ==
  /\ pc = "group" /\ gpos = gend
  /\ pc' = "inputs" /\ idx' = gend
  /\ UNCHANGED <<job, gend, gpos, first, before, ret, cur, mi, selected, changed, table, why>>

GroupEnd ==
  /\ pc = "group" /\ gpos = gend /\ Len(merged) = before
  /\ pc' = "inputs" /\ idx' = gend
  /\ UNCHANGED <<job, gend, gpos, first, before, ret, cur, mi, selected, changed, table, why>>

-----------------------------------------------------------------------------
(* The names the linker defines itself, once the inputs have been read.    *)

InTable(n) == syms[n].entry # "none"

Own == [entry |-> "strong", by |-> Linker]

(* Mutant: a weak definition of an object is taken for none.               *)
DefineIfUndefinedOverWeak(names) ==
  syms' = [n \in Name |-> IF n \in names /\ syms[n].entry # "strong" THEN Own ELSE syms[n]]

(* static_define_absolute_if_undefined, for each of the names.             *)
DefineIfUndefined(names) ==
  syms' = [n \in Name |-> IF n \in names /\ syms[n].entry \notin Defined THEN Own ELSE syms[n]]

(* static_need_array_bound_pair: one of the two names is in the table, or  *)
(* the array has a section, which is left open.                            *)
NeedArrayBoundPair(pair, sections) ==
  InTable(pair[1]) \/ InTable(pair[2]) \/ pair \in sections

(* static_synthesize_runtime_boundaries                                    *)
SynthesizeBoundaries ==
  \E sections \in SUBSET Arrays :
    LET pairs == {p \in Arrays : NeedArrayBoundPair(p, sections)} IN
    DefineIfUndefined(Boundary \cup {p[1] : p \in pairs} \cup {p[2] : p \in pairs})

(* shared_define_linker_symbols_pre_layout.  A __ehdr_start that an object *)
(* defines is replaced when it is absolute, and otherwise a conflict.      *)
DynamicNames == {n \in {Dynamic, EhdrStart} : InTable(n)}

DefineDynamicNames ==
  /\ syms[Dynamic].entry \notin Defined
  /\ syms' = [n \in Name |-> IF n \in DynamicNames THEN Own ELSE syms[n]]

ConflictingLinkerSymbol == \E n \in DynamicNames : syms[n].entry \in Defined

LinkerSymbols ==
  /\ pc = "resolve" /\ merged # << >>
  /\ \/ job.mode = "static" /\ SynthesizeBoundaries
     \/ AllowDso /\ DefineDynamicNames
     \/ job.mode = "relocatable" /\ UNCHANGED syms
  /\ pc' = "relocate"
  /\ UNCHANGED <<job, control, merged, dso, needed, why>>

(* A link without an object fails.                                         *)
LinkerSymbolsFail ==
  /\ pc = "resolve"
  /\ \/ merged = << >> /\ Fail("no-input")
     \/ merged # << >> /\ AllowDso /\ ConflictingLinkerSymbol /\ Fail("linker-symbol")
  /\ UNCHANGED job

-----------------------------------------------------------------------------
(* A static link reports an undefined symbol when it applies a relocation  *)
(* to it, a PIE when no shared input defines it.  Each undefined entry of  *)
(* an object is taken to have a relocation.                                *)

Unresolved ==
  \/ job.mode = "static" /\ \E n \in Name : UnresolvedNonweak(n)
  \/ job.mode = "pie" /\ needed /\ \E n \in Name \ dso : UnresolvedNonweak(n)

Resolve ==
  /\ pc = "relocate"
  /\ \/ Unresolved /\ pc' = "failed" /\ why' = "undefined"
     \/ ~Unresolved /\ pc' = "linked" /\ UNCHANGED why
  /\ UNCHANGED <<job, control, table>>

(* A file that cannot be read or is malformed, an address that overflows,  *)
(* or no memory.                                                           *)
ReadFails ==
  /\ pc \notin {"failed", "linked"}
  /\ Fail("unreadable")
  /\ UNCHANGED job

Step ==
  \/ InputArchive \/ InputObject \/ InputNotArchive \/ InputWhole
  \/ InputGroup \/ InputsEnd \/ WholeMember \/ WholeEnd
  \/ ScanSkip \/ ScanSelect \/ ScanAgain \/ ScanEnd
  \/ GroupArchive \/ GroupObject \/ GroupAgain \/ GroupEnd
  \/ LinkerSymbols \/ LinkerSymbolsFail \/ Resolve

Next ==
  \/ Step
  \/ ReadFails
  \/ pc \in {"failed", "linked"} /\ UNCHANGED vars

(* The linker is one thread that never waits.                              *)
Spec == Init /\ [][Next]_vars /\ WF_vars(Step)

-----------------------------------------------------------------------------
(* Properties.                                                             *)

SymbolState == [entry : Entry, by : Object \cup {NoObject, Linker}]

TypeOK ==
  /\ job \in Job
  /\ pc \in {"inputs", "whole", "scan", "group", "resolve", "relocate", "linked",
            "failed"}
  /\ idx \in 1 .. Len(Inputs) + 1
  /\ gend \in 1 .. Len(Inputs) + 1 /\ gpos \in 1 .. Len(Inputs) + 1
  /\ first \in BOOLEAN /\ changed \in BOOLEAN /\ needed \in BOOLEAN
  /\ before \in 0 .. Len(merged)
  /\ ret \in {"inputs", "group"} /\ cur \in Path
  /\ mi \in 1 .. Len(Members(cur)) + 1 /\ selected \subseteq Nat
  /\ pc = "scan" => selected \subseteq 1 .. Len(Members(cur))
  /\ merged \in Seq(Object) /\ dso \subseteq Name
  /\ syms \in [Name -> SymbolState]
  /\ why \in {"none", "multiple-definition", "shared-input", "expected-archive",
              "no-input", "linker-symbol", "undefined", "unreadable"}

(* The places of `merged` whose object says e about n.                     *)
Says(n, e) == {i \in DOMAIN merged : TableOf(merged[i])[n] = e}

Definitions(n) == Says(n, "strong") \cup Says(n, "weak")

(* The names the linker may define in this link.                           *)
Provided ==
  CASE job.mode = "static" -> Boundary \cup {p[1] : p \in Arrays} \cup {p[2] : p \in Arrays}
    [] AllowDso -> {Dynamic, EhdrStart}
    [] OTHER -> {}

(* The linker has made n itself: it provides n, after the inputs, and no   *)
(* object defines it (of __ehdr_start in a shared object or PIE, an        *)
(* absolute definition is replaced).                                       *)
MadeByLinker(n) ==
  /\ syms[n] = Own /\ n \in Provided
  /\ pc \in {"relocate", "linked", "failed"}
  /\ Definitions(n) = {} \/ (AllowDso /\ n = EhdrStart)

(* What the objects say of n is in the table: the only strong definition   *)
(* if there is one, else the first weak definition, else the strongest     *)
(* reference.                                                              *)
FromObjects(n) ==
  LET strong == Says(n, "strong") weak == Says(n, "weak") IN
  /\ \A i \in strong : syms[n] = [entry |-> "strong", by |-> merged[i]]
  /\ strong = {} =>
       /\ \A i \in weak :
            (\A j \in weak : i <= j) => syms[n] = [entry |-> "weak", by |-> merged[i]]
       /\ weak = {} =>
            syms[n] = [entry |-> IF Says(n, "undef") # {} THEN "undef"
                                 ELSE IF Says(n, "wundef") # {} THEN "wundef" ELSE "none",
                       by |-> NoObject]

(* The merge in add_or_merge_global_symbol keeps the strongest of what the *)
(* objects say of a name, whatever the order of the inputs, and what the   *)
(* linker defines itself never takes the place of a definition, not even   *)
(* of a weak one.                                                          *)
StrongestWins ==
  \A n \in Name :
    /\ \A i, j \in Says(n, "strong") : i = j
    /\ FromObjects(n) \/ MadeByLinker(n)

(* A search never takes a member that is already part of the link, though  *)
(* selected[] is forgotten between two searches of the same archive: a     *)
(* second copy would define its symbols twice.                             *)
SearchTakesNewMembers ==
  [][pc = "scan" /\ merged' # merged =>
       \A i \in DOMAIN merged : merged[i] # <<cur, mi>>]_vars

Exhausted(p) == IsArchive(p) => \A k \in DOMAIN Members(p) : ~Needed(Members(p)[k])

(* When process_group_archive or process_group_sequence returns, no member *)
(* of the archives it searched could still resolve a symbol.               *)
SearchesAreExhaustive ==
  [][/\ pc = "scan" /\ pc' \in {"inputs", "group"} => Exhausted(cur)
     /\ pc = "group" /\ pc' = "inputs" =>
          \A g \in idx .. gend - 1 : Exhausted(Inputs[g].path)]_vars

(* In a static executable every strong reference of every object that was  *)
(* linked is to a symbol that one of the linked objects defines, or, when  *)
(* none does, to one of the boundary names the linker defines.             *)
NoDanglingReference ==
  pc = "linked" /\ job.mode = "static" =>
    \A i \in DOMAIN merged, n \in Name :
      TableOf(merged[i])[n] = "undef" =>
        IF Definitions(n) # {}
        THEN \E j \in Definitions(n) : syms[n].by = merged[j]
        ELSE n \in Provided /\ syms[n] = Own

(* Every search ends, and with it the link.                                *)
LinkEnds == <>(pc \in {"linked", "failed"})
=============================================================================

------------------------------- MODULE LinkGc -------------------------------
(***************************************************************************)
(* minic-ld --gc-sections (linker/src/linker.c).  The linker core merges   *)
(* the input sections of one name as it reads them; the garbage collecting *)
(* link cuts them apart again at their STT_SECTION symbols, restores the   *)
(* order of the inputs, prunes (GcMark) and arranges what is left.         *)
(*                                                                         *)
(* Symbols 1 .. N are the section symbols of the N input sections (section *)
(* 0 for one that has none); the named symbols follow.                     *)
(***************************************************************************)
EXTENDS GcMark, Integers

CONSTANTS
  Attr,  \* the flags, alignment and kind of root of each name
  Jobs   \* the inputs and entries that Init chooses from

Attribute ==
  [alloc : BOOLEAN, write : BOOLEAN, exec : BOOLEAN, align : Nat \ {0},
   root : {"no", "exact", "family"}]

InputSection == [name : Name, size : Nat, mark : BOOLEAN]

IsJob(j) ==
  LET N == Len(j.isecs)
  IN  /\ j.isecs \in Seq(InputSection)
      /\ j.syms \in Seq([isec : 0 .. N, off : Nat])
      /\ j.rels \in Seq([isec : 1 .. N, off : Nat, sym : 1 .. N + Len(j.syms)])
      /\ j.entry \in 0 .. N + Len(j.syms)
      /\ \A k \in DOMAIN j.syms :
           j.syms[k].isec # 0 => j.syms[k].off <= j.isecs[j.syms[k].isec].size
      /\ \A r \in DOMAIN j.rels : j.rels[r].off < j.isecs[j.rels[r].isec].size

ASSUME GcConstants == Attr \in [Name -> Attribute]

VARIABLES
  job,   \* the inputs, as selected by process_input_sequence
  base   \* where each input section read so far starts in the merged one

vars == <<job, base, gcVars>>

Init ==
  /\ job \in Jobs /\ IsJob(job)
  /\ base = << >> /\ secs = << >> /\ sym = << >> /\ rel = << >> /\ kept = {}
  /\ entry = job.entry
  /\ MarkStart
  /\ pc = "merge" /\ status = "ok"

N == Len(job.isecs)

(* minild_gc_root_section compares names: a section called .init is a root *)
(* (exact), one called .init_array or .init_array.* is (family), and the   *)
(* name of a fragment has a suffix.                                        *)
ByName == {"exact", "family"}
BySuffix == {"family"}

MakeSection(n, lo, hi, roots) ==
  [name |-> n, lo |-> lo, hi |-> hi, size |-> hi - lo, alloc |-> Attr[n].alloc,
   root |-> Attr[n].alloc /\ Attr[n].root \in roots]

(* The elements of S in the order R, a set of pairs, strict and total on S. *)
Sorted(S, R) ==
  [i \in 1 .. Cardinality(S) |->
     CHOOSE x \in S : Cardinality({y \in S : <<y, x>> \in R}) = i - 1]

AlignUp(x, a) == ((x + a - 1) \div a) * a

Merged(n) == {s \in DOMAIN secs : secs[s].name = n}

MergedIndex(n) == CHOOSE s \in Merged(n) : TRUE

(* One input section of process_input_data. Sections of one name have one  *)
(* alignment here, and .riscv.attributes, whose records are strung         *)
(* together without a base, is left out.                                   *)
MergeSection ==
  LET i == Len(base) + 1
      n == job.isecs[i].name
      at == IF Merged(n) = {} THEN 0 ELSE AlignUp(secs[MergedIndex(n)].hi, Attr[n].align)
      new == MakeSection(n, 0, at + job.isecs[i].size, ByName)
  IN  /\ i <= N
      /\ Goto("merge", "merge")
      /\ base' = Append(base, at)
      /\ secs' = IF Merged(n) = {} THEN Append(secs, new)
                 ELSE [secs EXCEPT ![MergedIndex(n)] = new]
      /\ UNCHANGED <<job, sym, rel, kept, entry, markVars, status>>

NameOf(i) == job.isecs[i].name
SizeOf(i) == job.isecs[i].size

(* The input section and the offset of a symbol.                           *)
SymbolInput(k) == IF k <= N THEN k ELSE job.syms[k - N].isec
SymbolOffset(k) == IF k <= N THEN 0 ELSE job.syms[k - N].off

Defined(k) == SymbolInput(k) # 0 /\ (k <= N => job.isecs[k].mark)

(* The symbols and relocations of process_input_data.                      *)
MergeEnd ==
  /\ Len(base) = N
  /\ Goto("merge", "split")
  /\ sym' = [k \in 1 .. N + Len(job.syms) |->
               IF Defined(k)
               THEN [sec |-> MergedIndex(NameOf(SymbolInput(k))),
                     value |-> base[SymbolInput(k)] + SymbolOffset(k)]
               ELSE [sec |-> 0, value |-> 0]]
  /\ rel' = [r \in DOMAIN job.rels |->
               [sec |-> MergedIndex(NameOf(job.rels[r].isec)),
                off |-> base[job.rels[r].isec] + job.rels[r].off, sym |-> job.rels[r].sym]]
  /\ kept' = DOMAIN rel'
  /\ UNCHANGED <<job, base, secs, entry, markVars, status>>

-----------------------------------------------------------------------------

(* minild_gc_restore_input_sections: the offsets at which a section is cut. *)
Markers(s) ==
  IF ~secs[s].alloc \/ secs[s].size = 0 THEN {}
  ELSE {0} \cup {sym[i].value : i \in {x \in 1 .. N : sym[x].sec = s /\ sym[x].value < secs[s].size}}

(* Mutant: two markers do not split a section.                             *)
IsSplitOffByOne(s) == Cardinality(Markers(s)) > 2

IsSplit(s) == \E m, x \in Markers(s) : m # x

(* The markers of the sections that are split, in the order of qsort.      *)
CutMarkers == UNION {{s} \X Markers(s) : s \in {x \in DOMAIN secs : IsSplit(x)}}

CutOrder ==
  {p \in CutMarkers \X CutMarkers :
     p[1][1] < p[2][1] \/ (p[1][1] = p[2][1] /\ p[1][2] < p[2][2])}

Cuts == Sorted(CutMarkers, CutOrder)

(* A fragment ends where the next one starts.                              *)
FragmentEnd(s, m) ==
  LET ends == {x \in Markers(s) \cup {secs[s].size} : x > m}
  IN  CHOOSE x \in ends : \A y \in ends : x <= y

Fragment(c) == MakeSection(secs[c[1]].name, c[2], FragmentEnd(c[1], c[2]), BySuffix)

(* Mutant: the search ends at the first fragment.                          *)
FragmentForFirst(s, x) == CHOOSE j \in DOMAIN Cuts : Cuts[j] = <<s, 0>>

LastMarker(s, x) == CHOOSE m \in Markers(s) : m <= x /\ \A y \in Markers(s) : y <= x => y <= m

(* minild_gc_fragment_for: the last fragment that starts at or before x.   *)
FragmentFor(s, x) == CHOOSE j \in DOMAIN Cuts : Cuts[j] = <<s, LastMarker(s, x)>>

(* The section that holds byte x of section s, and where it starts.        *)
PieceOf(s, x) == IF s # 0 /\ IsSplit(s) THEN Len(secs) + FragmentFor(s, x) ELSE s
PieceStart(s, x) == IF s # 0 /\ IsSplit(s) THEN Cuts[FragmentFor(s, x)][2] ELSE 0

RestoreInputSections ==
  /\ Goto("split", "order")
  /\ secs' = [s \in DOMAIN secs |->
                IF IsSplit(s) THEN [secs[s] EXCEPT !.size = 0, !.hi = 0] ELSE secs[s]]
             \o [j \in DOMAIN Cuts |-> Fragment(Cuts[j])]
  /\ sym' = [k \in DOMAIN sym |->
               [sec |-> PieceOf(sym[k].sec, sym[k].value),
                value |-> sym[k].value - PieceStart(sym[k].sec, sym[k].value)]]
  /\ rel' = [r \in DOMAIN rel |->
               [rel[r] EXCEPT !.sec = PieceOf(@, rel[r].off), !.off = @ - PieceStart(rel[r].sec, @)]]
  /\ UNCHANGED <<job, base, kept, entry, markVars, status>>

(* Sections are sorted by a key, those of one key keep their order, and    *)
(* the section of every symbol and relocation is renumbered.               *)
Pairs == (DOMAIN secs) \X (DOMAIN secs)

Stable(before) ==
  {p \in Pairs : p \in before \/ (<<p[2], p[1]>> \notin before /\ p[1] < p[2])}

Perm(before) == Sorted(DOMAIN secs, Stable(before))

Remap(before, s) == IF s = 0 THEN 0 ELSE CHOOSE i \in DOMAIN secs : Perm(before)[i] = s

Reorder(before) ==
  /\ secs' = [i \in DOMAIN secs |-> secs[Perm(before)[i]]]
  /\ sym' = [k \in DOMAIN sym |-> [sym[k] EXCEPT !.sec = Remap(before, @)]]
  /\ rel' = [r \in DOMAIN rel |-> [rel[r] EXCEPT !.sec = Remap(before, @)]]
  /\ UNCHANGED <<job, base, kept, entry, markVars, status>>

(* Mutant: the last section symbol gives the place.                        *)
InputOrderLast(s) ==
  LET marks == {i \in 1 .. N : sym[i].sec = s}
  IN  IF marks = {} THEN Len(sym) + s ELSE CHOOSE i \in marks : \A x \in marks : i >= x

(* The first section symbol of a section gives its place; the others come  *)
(* last.                                                                   *)
InputOrder(s) ==
  LET marks == {i \in 1 .. N : sym[i].sec = s}
  IN  IF marks = {} THEN Len(sym) + s ELSE CHOOSE i \in marks : \A x \in marks : i <= x

RestoreInputOrder ==
  /\ Goto("order", "entry")
  /\ Reorder({p \in Pairs : InputOrder(p[1]) < InputOrder(p[2])})

PruneStatic == Prune /\ UNCHANGED <<job, base>>

(* minild_gc_default_output_class                                          *)
OutputClass(s) ==
  LET a == Attr[secs[s].name]
  IN  IF ~a.alloc \/ a.write THEN 2 ELSE IF a.exec THEN 0 ELSE 1

ClassOrder == {p \in Pairs : OutputClass(p[1]) < OutputClass(p[2])}

GroupOutputClasses ==
  /\ Goto("swept", "align")
  /\ Reorder(ClassOrder)

(* Outside the writable class the larger alignment comes first.            *)
AlignmentOrder ==
  {p \in Pairs :
     /\ OutputClass(p[1]) = OutputClass(p[2]) /\ OutputClass(p[1]) < 2
     /\ Attr[secs[p[1]].name].align > Attr[secs[p[2]].name].align}

SortOutputAlignment ==
  /\ Goto("align", "laid")
  /\ Reorder(ClassOrder \cup AlignmentOrder)

Step ==
  \/ MergeSection \/ MergeEnd \/ RestoreInputSections \/ RestoreInputOrder
  \/ PruneStatic \/ GroupOutputClasses \/ SortOutputAlignment

Next ==
  \/ Step
  \/ pc \in {"failed", "laid"} /\ UNCHANGED vars

Spec == Init /\ [][Next]_vars /\ WF_vars(PruneStatic)

-----------------------------------------------------------------------------
(* Properties.                                                             *)

(* Section s holds the bytes of input section i.                           *)
Holds(s, i) ==
  /\ secs[s].name = NameOf(i) /\ SizeOf(i) > 0
  /\ secs[s].lo <= base[i] /\ base[i] + SizeOf(i) <= secs[s].hi

Home(i) == CHOOSE s \in DOMAIN secs : Holds(s, i)

Kept(i) == secs[Home(i)].size > 0

InImage(i) == i # 0 /\ Attr[NameOf(i)].alloc

Pruned == pc \in {"swept", "align", "laid"}

(* Symbol k is at byte x of input section i, or has gone with its section. *)
IsAt(k, i, x) ==
  \/ sym[k].sec = Home(i) /\ secs[Home(i)].lo + sym[k].value = base[i] + x
  \/ Pruned /\ sym[k] = [sec |-> 0, value |-> 0] /\ (InImage(i) => ~Kept(i))

Cut == pc \in {"order", "entry", "roots", "mark", "swept", "align", "laid"}

(* A symbol inside an input section, not a label at its end.               *)
AtByte(k) == Defined(k) /\ SymbolOffset(k) < SizeOf(SymbolInput(k))

(* Through the cuts and the three renumberings every input section stays   *)
(* in one piece, and a symbol inside an input section stays at its byte.   *)
SymbolsFollowTheirBytes ==
  Cut =>
    /\ \A i \in 1 .. N : SizeOf(i) > 0 =>
         \E s \in DOMAIN secs : Holds(s, i) /\ \A t \in DOMAIN secs : Holds(t, i) => t = s
    /\ \A k \in 1 .. N + Len(job.syms) :
         AtByte(k) => IsAt(k, SymbolInput(k), SymbolOffset(k))

(* The same for every symbol, the one at the end of its input section      *)
(* included: the pieces are those of the inputs.                           *)
EndLabelsFollowTheirBytes ==
  pc = "order" =>
    \A k \in N + 1 .. N + Len(job.syms) :
      Defined(k) /\ SizeOf(SymbolInput(k)) > 0 => IsAt(k, SymbolInput(k), SymbolOffset(k))

(* The relocations that reach the layout are those of the input sections   *)
(* that do, each at its byte and with its symbol.                          *)
RelocationsFollowTheirBytes ==
  pc = "laid" =>
    \A r \in DOMAIN job.rels :
      LET i == job.rels[r].isec
      IN  /\ (r \in kept) <=> (InImage(i) /\ Kept(i))
          /\ rel[r].sec = Home(i) /\ rel[r].sym = job.rels[r].sym
          /\ secs[Home(i)].lo + rel[r].off = base[i] + job.rels[r].off

(* What reachability means for the input sections themselves.              *)
AllMarked == \A i \in 1 .. N : job.isecs[i].mark

Referred == {job.entry} \cup {job.rels[r].sym : r \in DOMAIN job.rels}

Interior == \A k \in Referred : SymbolInput(k) # 0 => AtByte(k)

ImageInputs == {i \in 1 .. N : InImage(i)}

InputsClosed(C) ==
  /\ \A i \in ImageInputs :
       i = SymbolInput(job.entry) \/ Attr[NameOf(i)].root # "no" => i \in C
  /\ \A r \in DOMAIN job.rels :
       job.rels[r].isec \in C /\ SymbolInput(job.rels[r].sym) \in ImageInputs
         => SymbolInput(job.rels[r].sym) \in C

NeededInputs == {i \in ImageInputs : \A C \in SUBSET ImageInputs : InputsClosed(C) => i \in C}

(* An input section reaches the layout exactly when the entry or a root    *)
(* needs it, when the inputs have their section symbols, the symbols that  *)
(* are referred to lie at a byte of their input section (not at the end of *)
(* one, nor in an empty one) and no name is a root only by itself.         *)
CollectsByInputSection ==
  pc = "laid" /\ AllMarked /\ Interior
     /\ (\A n \in Name : Attr[n].root # "exact") =>
    \A i \in 1 .. N : SizeOf(i) > 0 /\ InImage(i) => (Kept(i) <=> i \in NeededInputs)

(* Every nonempty input section of a name that is a root stays.            *)
RootsStay ==
  pc = "laid" =>
    \A i \in 1 .. N :
      SizeOf(i) > 0 /\ InImage(i) /\ Attr[NameOf(i)].root # "no" => Kept(i)

(* The place an input section has among the inputs: an empty one before it *)
(* at the same byte lends it its own.                                      *)
IsPlace(p, i) ==
  /\ NameOf(p) = NameOf(i) /\ base[p] = base[i]
  /\ \A q \in 1 .. p - 1 : NameOf(q) = NameOf(i) => base[q] # base[i]

Place(i) == CHOOSE p \in 1 .. i : IsPlace(p, i)

(* Sections of one class and, outside the writable class, one alignment    *)
(* are laid out in the order of the inputs.                                *)
InputOrderIsKept ==
  pc = "laid" /\ AllMarked =>
    \A i, j \in 1 .. N :
      /\ SizeOf(i) > 0 /\ SizeOf(j) > 0 /\ Place(i) < Place(j)
      /\ InImage(i) /\ InImage(j) /\ OutputClass(Home(i)) = OutputClass(Home(j))
      /\ (OutputClass(Home(i)) < 2 => Attr[NameOf(i)].align = Attr[NameOf(j)].align)
      => Home(i) < Home(j)
=============================================================================

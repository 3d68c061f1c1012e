---------------------------- MODULE LinkGcLemmas ----------------------------
(***************************************************************************)
(* The inductive invariant of the garbage collecting link, and the steps   *)
(* that keep it: reading the inputs, marking and sweeping, the three       *)
(* renumberings; and the pieces that minild_gc_restore_input_sections      *)
(* makes. LinkGcProofs shows that these keep it too, and has the theorems. *)
(*                                                                         *)
(* Lemmas that count (the queue, a sort) suppose Counting, so that the     *)
(* theorems on finite sets are only used in LinkGcProofs, where Counting   *)
(* is proved.                                                              *)
(***************************************************************************)
EXTENDS LinkGc, TLAPS

-----------------------------------------------------------------------------
(* The invariant of minild_gc_prune_static.                                *)

(* minild_gc_prune_static is marking.                                      *)
Marking == pc \in {"entry", "roots", "mark"}

(* live[] is what the queue holds, each section once.                      *)
QueueIsLive ==
  /\ live = {queue[i] : i \in 1 .. Len(queue)}
  /\ \A i, j \in 1 .. Len(queue) : queue[i] = queue[j] => i = j

(* Nothing is marked that is not reachable.                                *)
Sound == Marking => \A C \in SUBSET Image : Closed(C) => live \subseteq C

(* The roots passed so far are marked.                                     *)
RootsMarked ==
  /\ pc \in {"roots", "mark"} /\ EntrySection \in Image => EntrySection \in live
  /\ pc = "roots" => \A s \in Image : s < ri /\ secs[s].root => s \in live
  /\ pc = "mark" => \A s \in Image : secs[s].root => s \in live

(* A relocation of a section taken from the queue has its target marked or *)
(* is still to be seen.                                                    *)
Scanned ==
  Marking =>
    \A i \in 1 .. head - 1 : \A r \in DOMAIN rel :
      rel[r].sec = queue[i] => r \in todo \/ (Target(r) \in Image => Target(r) \in live)

(* How far the loops are, and whose relocations are looked at.             *)
Started ==
  /\ pc = "entry" => ri = 1
  /\ pc \in {"entry", "roots"} => head = 1 /\ todo = {}
  /\ pc = "mark" => \A r \in todo : rel[r].sec \in live

(* The inductive invariant.                                                *)
PruneInv ==
  /\ PruneTypeOK /\ QueueIsLive /\ Sound /\ RootsMarked /\ Scanned /\ Started
  /\ QueueSuffices

-----------------------------------------------------------------------------
(* The invariant of the link.                                              *)

(* The input sections, by number.                                          *)
Inputs == 1 .. N

(* What is read, and where the inputs read so far lie.                     *)
InputsOK ==
  /\ IsJob(job) /\ entry = job.entry
  /\ base \in Seq(Nat) /\ Len(base) <= N /\ secs \in Seq(Section)
  /\ pc \in {"merge", "split", "order", "entry", "roots", "mark", "swept", "align", "laid", "failed"}
  /\ pc # "merge" => Len(base) = N
  /\ \A i, j \in 1 .. Len(base) :
       i < j /\ NameOf(i) = NameOf(j) => base[i] + SizeOf(i) <= base[j]

(* Until they are cut, sections are the merged ones.                       *)
MergedOK ==
  pc \in {"merge", "split"} =>
    /\ \A s, t \in DOMAIN secs : secs[s].name = secs[t].name => s = t
    /\ \A s \in DOMAIN secs : secs[s] = MakeSection(secs[s].name, 0, secs[s].hi, ByName)
    /\ \A i \in 1 .. Len(base) : \E s \in DOMAIN secs :
         secs[s].name = NameOf(i) /\ base[i] + SizeOf(i) <= secs[s].hi

(* Symbols as process_input_data leaves them.                              *)
MergedSymbols ==
  pc = "split" =>
    \A k \in 1 .. N + Len(job.syms) :
      Defined(k) =>
        /\ sym[k].sec \in DOMAIN secs /\ secs[sym[k].sec].name = NameOf(SymbolInput(k))
        /\ sym[k].value = base[SymbolInput(k)] + SymbolOffset(k)

(* The sections, symbols and relocations are well formed, and every        *)
(* relocation keeps the symbol it was read with.                           *)
GraphOK ==
  pc # "merge" =>
    /\ IsGraph(secs, sym, rel, entry)
    /\ Len(sym) = N + Len(job.syms) /\ Len(rel) = Len(job.rels)
    /\ \A r \in DOMAIN rel : rel[r].sym = job.rels[r].sym

(* Nothing is marked before the marking, and the queue never overflows.    *)
MarkOK ==
  /\ pc \in {"merge", "split", "order"} => MarkStart /\ status = "ok"
  /\ QueueSuffices

(* While minild_gc_prune_static runs, its own invariant holds.             *)
PruneOK == pc \in {"entry", "roots", "mark", "swept", "failed"} => PruneInv

(* Every input section that is not empty is in exactly one section.        *)
Pieces ==
  pc # "merge" =>
    /\ \A i \in Inputs : SizeOf(i) > 0 => \E s \in DOMAIN secs : Holds(s, i)
    /\ \A i \in Inputs : \A s, t \in DOMAIN secs : Holds(s, i) /\ Holds(t, i) => s = t

(* A section has the flags of its name and, until the sweep, the size of   *)
(* its bytes.                                                              *)
SectionOK(s) ==
  /\ secs[s].alloc <=> Attr[secs[s].name].alloc
  /\ Attr[secs[s].name].root # "exact" =>
       (secs[s].root <=> Attr[secs[s].name].alloc /\ Attr[secs[s].name].root = "family")
  /\ ~Pruned => secs[s].hi = secs[s].lo + secs[s].size

(* All sections are well formed.                                           *)
SectionsOK == pc # "merge" => \A s \in DOMAIN secs : SectionOK(s)

(* Symbol k is at the byte it was defined at.                              *)
Located(k) ==
  /\ sym[k].sec \in DOMAIN secs /\ Holds(sym[k].sec, SymbolInput(k))
  /\ secs[sym[k].sec].lo + sym[k].value = base[SymbolInput(k)] + SymbolOffset(k)

(* Symbol k has gone with its input section.                               *)
Gone(k) ==
  /\ Pruned /\ sym[k] = [sec |-> 0, value |-> 0]
  /\ \A s \in DOMAIN secs :
       Holds(s, SymbolInput(k)) /\ secs[s].alloc => secs[s].size = 0

(* A symbol inside an input section is at its byte or has gone; one that   *)
(* is not defined has no section.                                          *)
SymbolsOK ==
  pc # "merge" =>
    \A k \in 1 .. N + Len(job.syms) :
      /\ ~Defined(k) => sym[k].sec = 0
      /\ AtByte(k) => Located(k) \/ Gone(k)

(* Every relocation patches the byte of the input section that it was read *)
(* for.                                                                    *)
RelocsOK ==
  pc # "merge" =>
    \A r \in DOMAIN rel :
      /\ Holds(rel[r].sec, job.rels[r].isec)
      /\ secs[rel[r].sec].lo + rel[r].off = base[job.rels[r].isec] + job.rels[r].off

(* The sweep drops the relocations of the sections that it empties, and no *)
(* other.                                                                  *)
KeptOK ==
  /\ pc # "merge" /\ ~Pruned => kept = DOMAIN rel
  /\ Pruned =>
       \A r \in DOMAIN rel :
         (r \in kept) <=> (secs[rel[r].sec].alloc /\ secs[rel[r].sec].size > 0)

(* With a section symbol for every input section, no section of the image  *)
(* holds two of them.                                                      *)
Apart ==
  Cut /\ AllMarked =>
    \A s \in DOMAIN secs : \A i, j \in Inputs :
      Holds(s, i) /\ Holds(s, j) /\ secs[s].alloc => i = j

(* The section symbol that gives a section its place is that of the input  *)
(* section it holds, or of an empty one before it at the same byte.        *)
FirstMarks ==
  pc = "order" /\ AllMarked =>
    \A s \in DOMAIN secs : \A i, p \in Inputs :
      Holds(s, i) /\ secs[s].alloc /\ IsPlace(p, i) =>
        sym[p].sec = s /\ \A q \in 1 .. p - 1 : sym[q].sec # s

(* The sections that the arranging so far has not told apart.              *)
Alike(s, t) ==
  /\ pc \in {"align", "laid"} => OutputClass(s) = OutputClass(t)
  /\ pc = "laid" /\ OutputClass(s) < 2 => Attr[secs[s].name].align = Attr[secs[t].name].align

(* Such sections are in the order of the inputs.                           *)
InOrder ==
  Cut /\ pc # "order" /\ AllMarked =>
    \A s, t \in DOMAIN secs : \A i, j, p, q \in Inputs :
      /\ Holds(s, i) /\ secs[s].alloc /\ IsPlace(p, i)
      /\ Holds(t, j) /\ secs[t].alloc /\ IsPlace(q, j)
      /\ p < q /\ Alike(s, t)
      => s < t

(* No name is a root only by itself.                                       *)
NoExact == \A n \in Name : Attr[n].root # "exact"

(* The sweep has kept the input sections that the entry and the roots      *)
(* need, and no other.                                                     *)
Collected ==
  Pruned /\ AllMarked /\ Interior /\ NoExact =>
    \A s \in DOMAIN secs : \A i \in Inputs :
      Holds(s, i) /\ secs[s].alloc => (secs[s].size > 0 <=> i \in NeededInputs)

(* The inductive invariant of the link.                                    *)
LinkInv ==
  /\ InputsOK /\ MergedOK /\ MergedSymbols /\ GraphOK /\ MarkOK /\ Pieces /\ SectionsOK
  /\ SymbolsOK /\ RelocsOK /\ KeptOK /\ Apart /\ FirstMarks /\ InOrder /\ Collected
  /\ PruneOK

-----------------------------------------------------------------------------
(* Finite sets.                                                            *)

(* A nonempty set of naturals has a least element.                         *)
LeastExists == \A T \in SUBSET Nat : T # {} => \E x \in T : \A y \in T : x <= y

(* There are n numbers from 1 to n.                                        *)
IntervalsAreFinite == \A n \in Nat : IsFiniteSet(1 .. n) /\ Cardinality(1 .. n) = n

(* The cuts of a link, a section and an offset each, are finitely many.    *)
TablesAreFinite ==
  \A m, n \in Nat : \A f, X : X \subseteq (1 .. m) \X {f[i] : i \in 0 .. n} => IsFiniteSet(X)

(* R is a strict total order on S.                                         *)
IsStrictTotal(S, R) ==
  /\ \A x \in S : <<x, x>> \notin R
  /\ \A x, y \in S : x # y => <<x, y>> \in R \/ <<y, x>> \in R
  /\ \A x, y, z \in S : <<x, y>> \in R /\ <<y, z>> \in R => <<x, z>> \in R

(* Sorting by counting predecessors gives every element once, in order.    *)
IsSorted(S, R) ==
  /\ Cardinality(S) \in Nat
  /\ Sorted(S, R) \in [1 .. Cardinality(S) -> S]
  /\ \A x \in S : \E i \in 1 .. Cardinality(S) : Sorted(S, R)[i] = x
  /\ \A i, j \in 1 .. Cardinality(S) :
       i < j <=> <<Sorted(S, R)[i], Sorted(S, R)[j]>> \in R

(* Sorted sorts every finite set by every strict total order on it.        *)
SortsByCounting == \A S, R : IsFiniteSet(S) /\ IsStrictTotal(S, R) => IsSorted(S, R)

(* A queue of distinct sections that misses one has room for it.           *)
HasRoom ==
  \A n \in Nat : \A q \in Seq(1 .. n) : \A s \in 1 .. n :
    /\ \A i, j \in 1 .. Len(q) : q[i] = q[j] => i = j
    /\ \A i \in 1 .. Len(q) : q[i] # s
    => Len(q) < n

(* What the lemmas below suppose of finite sets.  LinkGcProofs shows that  *)
(* it holds (CountingHolds) from the theorems of the library.              *)
Counting == HasRoom /\ LeastExists /\ IntervalsAreFinite /\ TablesAreFinite /\ SortsByCounting

-----------------------------------------------------------------------------
(* Marking and sweeping: the invariant of minild_gc_prune_static.          *)

(* A queue of distinct sections that misses one has room for it.           *)
LEMMA Room ==
  ASSUME Counting, NEW n \in Nat, NEW q \in Seq(1 .. n), NEW s \in 1 .. n,
         \A i, j \in 1 .. Len(q) : q[i] = q[j] => i = j,
         \A i \in 1 .. Len(q) : q[i] # s
  PROVE  Len(q) < n
BY Zenon DEF Counting, HasRoom

(* minild_gc_mark_section never finds the queue full.                      *)
LEMMA NeverFull ==
  ASSUME Counting, PruneTypeOK, QueueIsLive, NEW s
  PROVE  ~Full(s)
<1> SUFFICES ASSUME Marks(s) PROVE Len(queue) < Len(secs)
  BY DEF Full, PruneTypeOK, IsGraph
<1>1. Len(secs) \in Nat /\ queue \in Seq(1 .. Len(secs)) /\ s \in 1 .. Len(secs)
  BY DEF PruneTypeOK, IsGraph, Marks
<1>2. \A i \in 1 .. Len(queue) : queue[i] # s
  BY Zenon DEF QueueIsLive, Marks
<1>3. \A i, j \in 1 .. Len(queue) : queue[i] = queue[j] => i = j
  BY Zenon DEF QueueIsLive
<1> QED
  BY <1>1, <1>2, <1>3, Room, Zenon

(* What a call of minild_gc_mark_section does.                             *)
LEMMA MarkStep ==
  ASSUME Counting, PruneTypeOK, QueueIsLive, NEW s, NEW to, NEW reason,
         MarkSection(s, to, reason), UNCHANGED <<secs, sym, rel, entry>>
  PROVE  /\ pc' = to /\ status' = status
         /\ live' = IF Marks(s) THEN live \cup {s} ELSE live
         /\ s \in Image => s \in live'
         /\ live' \subseteq Image
         /\ queue' \in Seq(1 .. Len(secs)) /\ Len(queue') >= Len(queue)
         /\ \A i \in 1 .. Len(queue) : queue'[i] = queue[i]
         /\ QueueIsLive'
<1>1. ~Full(s)
  BY NeverFull, Zenon
<1>2. pc' = to /\ status' = status
  BY <1>1, Zenon DEF MarkSection
<1>3. CASE ~Marks(s)
  <2>1. live' = live /\ queue' = queue
    BY <1>3, Zenon DEF MarkSection
  <2>2. queue \in Seq(1 .. Len(secs)) /\ live \subseteq Image
    BY Zenon DEF PruneTypeOK, Image
  <2>3. QueueIsLive'
    BY <2>1, Zenon DEF QueueIsLive
  <2>4. s \in Image => s \in live'
    BY <1>3, <2>1, Zenon DEF Marks, Image
  <2> QED
    BY <1>2, <1>3, <2>1, <2>2, <2>3, <2>4, SMTT(30), SMTT(60)
<1>4. CASE Marks(s)
  <2>1. live' = live \cup {s} /\ queue' = Append(queue, s)
    BY <1>1, <1>4, Zenon DEF MarkSection
  <2>2. queue \in Seq(1 .. Len(secs)) /\ live \subseteq Image
    BY DEF PruneTypeOK, Image
  <2>3. s \in 1 .. Len(secs) /\ s \in Image /\ s \notin live
    BY <1>4, Zenon DEF Marks, Image
  <2>4. /\ queue' \in Seq(1 .. Len(secs)) /\ Len(queue') = Len(queue) + 1
        /\ \A i \in 1 .. Len(queue) : queue'[i] = queue[i]
        /\ queue'[Len(queue) + 1] = s
        /\ Len(queue) \in Nat
    BY <2>1, <2>2, <2>3
  <2>5. QueueIsLive'
    <3>1. live' = {queue'[i] : i \in 1 .. Len(queue')}
      <4>1. 1 .. Len(queue') = (1 .. Len(queue)) \cup {Len(queue) + 1}
        BY <2>4
      <4>2. live = {queue[i] : i \in 1 .. Len(queue)}
        BY Zenon DEF QueueIsLive
      <4> QED
        BY <2>1, <2>4, <4>1, <4>2, SMTT(30), SMTT(60)
    <3>2. ASSUME NEW i \in 1 .. Len(queue'), NEW j \in 1 .. Len(queue'), queue'[i] = queue'[j]
          PROVE  i = j
      <4>1. \A x \in 1 .. Len(queue) : queue[x] # s
        BY <2>3, Zenon DEF QueueIsLive
      <4> QED
        BY <2>4, <3>2, <4>1, SMTT(30), SMTT(60) DEF QueueIsLive
    <3> QED
      BY <3>1, <3>2, Zenon DEF QueueIsLive
  <2> QED
    BY <1>2, <1>4, <2>1, <2>2, <2>3, <2>4, <2>5, SMTT(30), SMTT(60)
<1> QED
  BY <1>3, <1>4, Zenon

(* Reachability only reads the graph, which the marking leaves alone.      *)
LEMMA SameGraph ==
  ASSUME UNCHANGED <<secs, sym, rel, entry>>
  PROVE  /\ Image' = Image /\ EntrySection' = EntrySection /\ Reachable' = Reachable
         /\ \A r : Target(r)' = Target(r)
         /\ \A C : Closed(C)' <=> Closed(C)
<1>1. Image' = Image /\ EntrySection' = EntrySection
  BY Zenon DEF Image, EntrySection
<1>2. \A r : Target(r)' = Target(r)
  BY Zenon DEF Target
<1>3. \A C : Closed(C)' <=> Closed(C)
  BY <1>1, <1>2, Zenon DEF Closed, IsRoot
<1>4. Reachable' = Reachable
  BY <1>1, <1>3, Zenon DEF Reachable
<1> QED
  BY <1>1, <1>2, <1>3, <1>4, Zenon

(* The marking starts with nothing marked.                                 *)
LEMMA PruneStarts ==
  ASSUME IsGraph(secs, sym, rel, entry)', kept' = DOMAIN rel', MarkStart', pc' = "entry", status' = "ok"
  PROVE  PruneInv'
<1>1. PruneTypeOK'
  BY DEF MarkStart, PruneTypeOK, IsGraph
<1>2. QueueIsLive' /\ Sound' /\ RootsMarked' /\ Started' /\ QueueSuffices'
  BY DEF MarkStart, QueueIsLive, Sound, RootsMarked, Started, QueueSuffices
<1>3. Scanned'
  BY DEF MarkStart, Scanned
<1> QED
  BY <1>1, <1>2, <1>3, Zenon DEF PruneInv

(* The three kinds of step that mark: what they share.                     *)
LEMMA MarkingStep ==
  ASSUME Counting, PruneInv, NEW s, NEW to \in {"roots", "mark"}, NEW reason, Marking,
         MarkSection(s, to, reason), UNCHANGED <<secs, sym, rel, kept, entry, head>>,
         \A C \in SUBSET Image : Closed(C) /\ s \in Image => s \in C,
         ri' \in 1 .. Len(secs) + 1, todo' \subseteq DOMAIN rel
  PROVE  PruneTypeOK' /\ QueueIsLive' /\ Sound' /\ QueueSuffices'
<1>1. PruneTypeOK /\ QueueIsLive /\ Sound /\ QueueSuffices
  BY Zenon DEF PruneInv
<1>2. /\ pc' = to /\ status' = status
      /\ live' = IF Marks(s) THEN live \cup {s} ELSE live
      /\ live' \subseteq Image
      /\ queue' \in Seq(1 .. Len(secs)) /\ Len(queue') >= Len(queue)
      /\ QueueIsLive'
  BY <1>1, MarkStep, Zenon
<1>3. PruneTypeOK'
  <2>1. head' \in 1 .. Len(queue') + 1
    <3>1. head \in 1 .. Len(queue) + 1 /\ Len(queue) \in Nat /\ head' = head
      BY <1>1 DEF PruneTypeOK, IsGraph
    <3>2. Len(queue') \in Nat
      BY <1>2
    <3> QED
      BY <1>2, <3>1, <3>2, SMTT(30), SMTT(60)
  <2>2. IsGraph(secs, sym, rel, entry)' /\ kept' \subseteq DOMAIN rel'
    BY <1>1, Zenon DEF PruneTypeOK, IsGraph
  <2>3. live' \subseteq {x \in 1 .. Len(secs') : secs'[x].alloc}
    BY <1>2, Zenon DEF Image
  <2> QED
    BY <1>1, <1>2, <2>1, <2>2, <2>3, Zenon DEF PruneTypeOK
<1>4. Sound'
  <2> SUFFICES ASSUME NEW C \in SUBSET Image, Closed(C) PROVE live' \subseteq C
    BY SameGraph, Zenon DEF Sound
  <2>1. live \subseteq C
    BY <1>1, Zenon DEF Sound
  <2>2. Marks(s) => s \in C
    BY Zenon DEF Marks, Image
  <2> QED
    BY <1>2, <2>1, <2>2, Zenon
<1> QED
  BY <1>1, <1>2, <1>3, <1>4, Zenon DEF QueueSuffices

(* Marking the section of the entry symbol.                                *)
LEMMA MarkEntryStep ==
  ASSUME Counting
  PROVE  PruneInv /\ MarkEntry => PruneInv'
<1> SUFFICES ASSUME PruneInv, MarkEntry PROVE PruneInv'
  BY Zenon
<1>1. PruneTypeOK /\ QueueIsLive /\ Scanned
  BY Zenon DEF PruneInv
<1>2. /\ pc = "entry" /\ MarkSection(EntrySection, "roots", "gc-root-overflow")
      /\ UNCHANGED <<secs, sym, rel, kept, entry, ri, head, todo>>
  BY Zenon DEF MarkEntry
<1>3. \A C \in SUBSET Image : Closed(C) /\ EntrySection \in Image => EntrySection \in C
  BY Zenon DEF Closed, IsRoot
<1>4. PruneTypeOK' /\ QueueIsLive' /\ Sound' /\ QueueSuffices'
  <2>1. ri' \in 1 .. Len(secs) + 1 /\ todo' \subseteq DOMAIN rel /\ Marking
    BY <1>1, <1>2, Zenon DEF PruneTypeOK, Marking
  <2> QED
    BY <1>2, <1>3, <2>1, MarkingStep, Zenon
<1>5. /\ pc' = "roots" /\ (EntrySection \in Image => EntrySection \in live')
      /\ live' = (IF Marks(EntrySection) THEN live \cup {EntrySection} ELSE live)
      /\ \A i \in 1 .. Len(queue) : queue'[i] = queue[i]
  BY <1>1, <1>2, MarkStep, Zenon
<1>6. ri = 1 /\ head = 1 /\ todo = {}
  BY <1>2, Zenon DEF PruneInv, Started
<1>7. RootsMarked'
  <2>1. EntrySection' \in Image' => EntrySection' \in live'
    BY <1>2, <1>5, SameGraph
  <2>2. \A s \in Image' : ~(s < ri')
    BY <1>2, <1>6 DEF Image
  <2> QED
    BY <1>5, <2>1, <2>2, Zenon DEF RootsMarked
<1>8. Scanned'
  BY <1>2, <1>6 DEF Scanned
<1>9. Started'
  BY <1>2, <1>5, <1>6, Zenon DEF Started
<1> QED
  BY <1>4, <1>7, <1>8, <1>9, Zenon DEF PruneInv

(* Marking a root section, or passing over a section that is not one.      *)
LEMMA MarkRootStep ==
  ASSUME Counting
  PROVE  PruneInv /\ MarkRoot => PruneInv'
<1> SUFFICES ASSUME PruneInv, MarkRoot PROVE PruneInv'
  OBVIOUS
<1>1. PruneTypeOK /\ QueueIsLive /\ Scanned /\ RootsMarked /\ Started
  BY Zenon DEF PruneInv
<1>2. /\ pc = "roots" /\ ri <= Len(secs) /\ secs[ri].root
      /\ MarkSection(ri, "roots", "gc-root-overflow") /\ ri' = ri + 1
      /\ UNCHANGED <<secs, sym, rel, kept, entry, head, todo>>
  BY Zenon DEF MarkRoot
<1>3. \A C \in SUBSET Image : Closed(C) /\ ri \in Image => ri \in C
  BY <1>2, Zenon DEF Closed, IsRoot
<1>4. PruneTypeOK' /\ QueueIsLive' /\ Sound' /\ QueueSuffices'
  <2>1. ri' \in 1 .. Len(secs) + 1 /\ todo' \subseteq DOMAIN rel /\ Marking
    BY <1>1, <1>2 DEF PruneTypeOK, IsGraph, Marking
  <2> QED
    BY <1>2, <1>3, <2>1, MarkingStep, Zenon
<1>5. /\ pc' = "roots" /\ (ri \in Image => ri \in live')
      /\ live' = (IF Marks(ri) THEN live \cup {ri} ELSE live)
  BY <1>1, <1>2, MarkStep, Zenon
<1>6. live \subseteq live'
  BY <1>5, Zenon
<1>7. RootsMarked'
  <2>1. EntrySection' \in Image' => EntrySection' \in live'
    BY <1>1, <1>2, <1>6, SameGraph DEF RootsMarked
  <2>2. ASSUME NEW s \in Image, s < ri', secs[s].root
        PROVE  s \in live'
    <3>1. s < ri \/ s = ri
      BY <1>1, <1>2, <2>2 DEF Image, PruneTypeOK, IsGraph
    <3> QED
      BY <1>1, <1>2, <1>5, <1>6, <2>2, <3>1, Zenon DEF RootsMarked
  <2> QED
    BY <1>2, <1>5, <2>1, <2>2, SameGraph, Zenon DEF RootsMarked
<1>8. Scanned' /\ Started'
  BY <1>1, <1>2, <1>5 DEF Scanned, Started
<1> QED
  BY <1>4, <1>7, <1>8, Zenon DEF PruneInv

(* Marking the section of the symbol that a relocation refers to.          *)
LEMMA MarkTargetStep ==
  ASSUME Counting
  PROVE  PruneInv /\ MarkTarget => PruneInv'
<1> SUFFICES ASSUME PruneInv, NEW r \in DOMAIN rel,
                    pc = "mark", NextReloc(r), MarkSection(Target(r), "mark", "gc-queue-overflow"),
                    todo' = todo \ {r}, UNCHANGED <<secs, sym, rel, kept, entry, ri, head>>
             PROVE  PruneInv'
  BY Zenon DEF MarkTarget
<1>1. PruneTypeOK /\ QueueIsLive /\ Scanned /\ RootsMarked /\ Started /\ Sound
  BY Zenon DEF PruneInv
<1>2. r \in todo /\ rel[r].sec \in live
  BY <1>1, Zenon DEF NextReloc, Started
<1>3. \A C \in SUBSET Image : Closed(C) /\ Target(r) \in Image => Target(r) \in C
  <2> SUFFICES ASSUME NEW C \in SUBSET Image, Closed(C), Target(r) \in Image PROVE Target(r) \in C
    BY Zenon
  <2>1. rel[r].sec \in C
    BY <1>1, <1>2, Zenon DEF Sound, Marking
  <2> QED
    BY <2>1, Zenon DEF Closed
<1>4. PruneTypeOK' /\ QueueIsLive' /\ Sound' /\ QueueSuffices'
  <2>1. ri' \in 1 .. Len(secs) + 1 /\ todo' \subseteq DOMAIN rel /\ Marking
    BY <1>1, Zenon DEF PruneTypeOK, Marking
  <2> QED
    BY <1>3, <2>1, MarkingStep, Zenon
<1>5. /\ pc' = "mark" /\ (Target(r) \in Image => Target(r) \in live')
      /\ live' = (IF Marks(Target(r)) THEN live \cup {Target(r)} ELSE live)
      /\ \A i \in 1 .. Len(queue) : queue'[i] = queue[i]
  BY <1>1, MarkStep, Zenon
<1>6. live \subseteq live'
  BY <1>5, Zenon
<1>7. RootsMarked'
  BY <1>1, <1>5, <1>6, SameGraph, Zenon DEF RootsMarked
<1>8. Scanned'
  <2> SUFFICES ASSUME NEW i \in 1 .. head - 1, NEW x \in DOMAIN rel, rel[x].sec = queue'[i],
                      x \notin todo', Target(x) \in Image
               PROVE  Target(x) \in live'
    BY SameGraph, Zenon DEF Scanned
  <2>1. i \in 1 .. Len(queue)
    BY <1>1 DEF PruneTypeOK, IsGraph
  <2>2. rel[x].sec = queue[i]
    BY <1>5, <2>1, Zenon
  <2>3. CASE x = r
    BY <1>5, <2>3, Zenon
  <2>4. CASE x # r
    BY <1>1, <1>6, <2>2, <2>4, Zenon DEF Scanned, Marking
  <2> QED
    BY <2>3, <2>4, Zenon
<1>9. Started'
  BY <1>1, <1>5, <1>6, Zenon DEF Started
<1> QED
  BY <1>4, <1>7, <1>8, <1>9, Zenon DEF PruneInv

(* Taking a section from the queue, its relocations all still to be seen.  *)
LEMMA PopStep == PruneInv /\ Pop => PruneInv'
<1> SUFFICES ASSUME PruneInv, Pop PROVE PruneInv'
  BY Zenon
<1>1. PruneTypeOK /\ QueueIsLive /\ Scanned /\ RootsMarked /\ Sound /\ QueueSuffices
  BY Zenon DEF PruneInv
<1>2. /\ todo = {} /\ head <= Len(queue) /\ pc = "mark" /\ pc' = "mark"
      /\ todo' = {r \in DOMAIN rel : rel[r].sec = queue[head]} /\ head' = head + 1
      /\ UNCHANGED <<secs, sym, rel, kept, entry, ri, live, queue, status>>
  BY Zenon DEF Pop, Goto
<1>3. head \in 1 .. Len(queue) /\ Len(queue) \in Nat /\ queue[head] \in live
  <2>1. head \in 1 .. Len(queue) /\ Len(queue) \in Nat
    BY <1>1, <1>2, SMTT(30), SMTT(60) DEF PruneTypeOK, IsGraph
  <2> QED
    BY <1>1, <2>1, Zenon DEF QueueIsLive
<1>4. PruneTypeOK'
  BY <1>1, <1>2, <1>3, SMTT(30), SMTT(60) DEF PruneTypeOK, IsGraph
<1>5. QueueIsLive' /\ QueueSuffices'
  BY <1>1, <1>2, Zenon DEF QueueIsLive, QueueSuffices
<1>6. Sound'
  BY <1>1, <1>2, SameGraph, Zenon DEF Sound, Marking
<1>7. RootsMarked'
  BY <1>1, <1>2, SameGraph, Zenon DEF RootsMarked
<1>8. Scanned'
  <2> SUFFICES ASSUME NEW i \in 1 .. head, NEW r \in DOMAIN rel, rel[r].sec = queue[i],
                      r \notin todo', Target(r) \in Image
               PROVE  Target(r) \in live
    BY <1>2, <1>3, SameGraph, SMTT(30), SMTT(60) DEF Scanned
  <2>1. i \in 1 .. head - 1
    BY <1>2, <1>3
  <2> QED
    BY <1>1, <1>2, <2>1, Zenon DEF Scanned, Marking
<1>9. Started'
  BY <1>2, <1>3, Zenon DEF Started
<1> QED
  BY <1>4, <1>5, <1>6, <1>7, <1>8, <1>9, Zenon DEF PruneInv

(* The steps that mark nothing and leave the graph alone.                  *)
LEMMA QuietStep ==
  ASSUME PruneInv,
         \/ UndefinedEntry \/ SkipSection \/ RootsEnd \/ UNCHANGED gcVars
  PROVE  PruneInv'
<1>1. PruneTypeOK /\ QueueIsLive /\ Scanned /\ RootsMarked /\ Sound /\ QueueSuffices /\ Started
  BY Zenon DEF PruneInv
<1>2. UNCHANGED <<secs, sym, rel, kept, entry, live, queue, head, todo>>
  BY Zenon DEF UndefinedEntry, SkipSection, RootsEnd, gcVars, markVars
<1>3. PruneTypeOK'
  <2>1. /\ pc' = pc \/ pc' \in {"roots", "mark", "failed"}
        /\ status' = status \/ status' = "undefined-entry"
    BY Zenon DEF UndefinedEntry, SkipSection, RootsEnd, gcVars, Goto
  <2>2. ri' \in 1 .. Len(secs) + 1
    BY <1>1, <1>2, SMTT(30), SMTT(60) DEF UndefinedEntry, SkipSection, RootsEnd, gcVars, markVars, PruneTypeOK, IsGraph
  <2> QED
    BY <1>1, <1>2, <2>1, <2>2, Zenon DEF PruneTypeOK, IsGraph
<1>4. QueueIsLive' /\ QueueSuffices'
  BY <1>1, <1>2, Zenon DEF QueueIsLive, QueueSuffices, UndefinedEntry, SkipSection, RootsEnd, gcVars, Goto
<1>5. Marking' => Marking
  BY Zenon DEF UndefinedEntry, SkipSection, RootsEnd, gcVars, Goto, Marking
<1>6. Sound' /\ Scanned'
  BY <1>1, <1>2, <1>5, SameGraph DEF Sound, Scanned
<1>7. Started'
  BY <1>1, <1>2, Zenon DEF UndefinedEntry, SkipSection, RootsEnd, gcVars, markVars, Goto, Started
<1>8. RootsMarked'
  <2>1. CASE UndefinedEntry
    BY <2>1, Zenon DEF UndefinedEntry, Goto, RootsMarked
  <2>2. CASE SkipSection
    <3>1. /\ pc = "roots" /\ pc' = "roots" /\ ~secs[ri].root /\ ri' = ri + 1
          /\ ri \in Nat
      BY <1>1, <2>2 DEF SkipSection, PruneTypeOK, IsGraph
    <3>2. \A s \in Image : s < ri' => s < ri \/ s = ri
      BY <3>1 DEF Image
    <3> QED
      BY <1>1, <1>2, <3>1, <3>2, SameGraph, Zenon DEF RootsMarked
  <2>3. CASE RootsEnd
    <3>1. pc = "roots" /\ pc' = "mark" /\ ri > Len(secs)
      BY <2>3, Zenon DEF RootsEnd, Goto
    <3>2. \A s \in Image : s < ri
      BY <1>1, <3>1 DEF Image, PruneTypeOK, IsGraph
    <3> QED
      BY <1>1, <1>2, <3>1, <3>2, SameGraph, Zenon DEF RootsMarked
  <2>4. CASE UNCHANGED gcVars
    BY <1>1, <1>2, <2>4, SameGraph, Zenon DEF RootsMarked, gcVars, markVars
  <2> QED
    BY <2>1, <2>2, <2>3, <2>4, Zenon
<1> QED
  BY <1>3, <1>4, <1>6, <1>7, <1>8, Zenon DEF PruneInv

(* A section that is emptied keeps everything but its size.                *)
LEMMA EmptiedSection ==
  ASSUME NEW x \in Section
  PROVE  LET y == [x EXCEPT !.size = 0]
         IN  /\ y \in Section /\ y.size = 0 /\ y.name = x.name /\ y.lo = x.lo /\ y.hi = x.hi
             /\ y.alloc = x.alloc /\ y.root = x.root
BY Zenon DEF Section

(* The sweep leaves what was marked, and what is reachable, alone.         *)
LEMMA SweepStep == PruneInv /\ Sweep => PruneInv'
<1> SUFFICES ASSUME PruneInv, Sweep PROVE PruneInv'
  OBVIOUS
<1>1. PruneTypeOK /\ QueueIsLive /\ QueueSuffices
  BY Zenon DEF PruneInv
<1>2. /\ pc' = "swept" /\ kept' \subseteq kept
      /\ UNCHANGED <<rel, entry, ri, live, queue, head, todo, status>>
  BY Zenon DEF Sweep, Goto, markVars
<1>3. /\ secs' \in Seq(Section) /\ Len(secs') = Len(secs)
      /\ \A s \in 1 .. Len(secs) : secs'[s].alloc = secs[s].alloc
  <2>1. secs \in Seq(Section)
    BY <1>1, Zenon DEF PruneTypeOK, IsGraph
  <2>2. secs' = [s \in DOMAIN secs |->
                   IF secs[s].alloc /\ s \notin live THEN [secs[s] EXCEPT !.size = 0] ELSE secs[s]]
    BY Zenon DEF Sweep
  <2>3. \A s \in DOMAIN secs : secs'[s] \in Section /\ secs'[s].alloc = secs[s].alloc
    BY <2>1, <2>2, EmptiedSection, SMTT(30), SMTT(60)
  <2> QED
    BY <2>1, <2>2, <2>3
<1>4. /\ sym' \in Seq(SymbolRecord) /\ Len(sym') = Len(sym)
      /\ \A k \in DOMAIN sym' : sym'[k].sec \in 0 .. Len(secs)
  <2>1. sym \in Seq(SymbolRecord) /\ Len(secs) \in Nat /\ \A k \in DOMAIN sym : sym[k].sec \in 0 .. Len(secs)
    BY <1>1 DEF PruneTypeOK, IsGraph
  <2>2. sym' = [k \in DOMAIN sym |->
                  IF sym[k].sec # 0 /\ sym[k].sec \notin live
                  THEN [sec |-> 0, value |-> 0] ELSE sym[k]]
    BY Zenon DEF Sweep
  <2>3. ASSUME NEW k \in DOMAIN sym
        PROVE  sym'[k] \in SymbolRecord /\ sym'[k].sec \in 0 .. Len(secs)
    <3>1. CASE sym'[k] = sym[k]
      BY <2>1, <3>1, SMTT(30), SMTT(60)
    <3>2. CASE sym'[k] = [sec |-> 0, value |-> 0]
      <4>1. sym'[k].sec = 0 /\ sym'[k] \in SymbolRecord
        BY <3>2 DEF SymbolRecord
      <4> QED
        BY <2>1, <4>1, SMTT(30), SMTT(60)
    <3> QED
      BY <2>2, <3>1, <3>2, Zenon
  <2> QED
    BY <2>1, <2>2, <2>3, SMTT(30), SMTT(60)
<1>5. PruneTypeOK'
  <2>1. IsGraph(secs, sym, rel, entry)'
    BY <1>1, <1>2, <1>3, <1>4, Zenon DEF PruneTypeOK, IsGraph
  <2>2. live' \subseteq {s \in 1 .. Len(secs') : secs'[s].alloc}
    BY <1>1, <1>2, <1>3, Zenon DEF PruneTypeOK
  <2> QED
    BY <1>1, <1>2, <1>3, <2>1, <2>2, Zenon DEF PruneTypeOK
<1> QED
  BY <1>1, <1>2, <1>5 DEF PruneInv, QueueIsLive, Sound, Marking, RootsMarked, Scanned, Started,
                          QueueSuffices

(* With the queue empty, the live sections are closed.                     *)
LEMMA LiveIsClosed ==
  ASSUME PruneInv, pc = "mark", todo = {}, head > Len(queue)
  PROVE  Closed(live)
<1>1. \A s \in Image : IsRoot(s) => s \in live
  BY Zenon DEF PruneInv, RootsMarked, IsRoot
<1>2. ASSUME NEW r \in DOMAIN rel, rel[r].sec \in live, Target(r) \in Image
      PROVE  Target(r) \in live
  <2>1. PICK i \in 1 .. Len(queue) : queue[i] = rel[r].sec
    BY <1>2, Zenon DEF PruneInv, QueueIsLive
  <2>2. i \in 1 .. head - 1
    BY DEF PruneInv, PruneTypeOK, IsGraph
  <2> QED
    BY <1>2, <2>1, <2>2, Zenon DEF PruneInv, Scanned, Marking
<1> QED
  BY <1>1, <1>2, Zenon DEF Closed

-----------------------------------------------------------------------------
(* What the job says of inputs, symbols and relocations.                   *)

(* What a job is made of.                                                  *)
LEMMA JobIs ==
  ASSUME IsJob(job)
  PROVE  /\ N \in Nat /\ Len(job.syms) \in Nat /\ Len(job.rels) \in Nat
         /\ DOMAIN job.rels = 1 .. Len(job.rels)
         /\ job.entry \in 0 .. N + Len(job.syms)
         /\ \A i \in 1 .. N : NameOf(i) \in Name /\ SizeOf(i) \in Nat
         /\ \A r \in DOMAIN job.rels :
              /\ job.rels[r].isec \in 1 .. N /\ job.rels[r].off \in Nat
              /\ job.rels[r].sym \in 1 .. N + Len(job.syms)
              /\ job.rels[r].off < SizeOf(job.rels[r].isec)
<1>1. job.isecs \in Seq(InputSection) /\ job.syms \in Seq([isec : 0 .. N, off : Nat])
  BY Zenon DEF IsJob, N
<1>2. /\ job.rels \in Seq([isec : 1 .. N, off : Nat, sym : 1 .. N + Len(job.syms)])
      /\ job.entry \in 0 .. N + Len(job.syms)
      /\ \A r \in DOMAIN job.rels : job.rels[r].off < job.isecs[job.rels[r].isec].size
  BY Zenon DEF IsJob, N
<1>3. N \in Nat /\ \A i \in 1 .. N : job.isecs[i] \in InputSection
  BY <1>1 DEF N
<1>4. \A i \in 1 .. N : NameOf(i) \in Name /\ SizeOf(i) \in Nat
  BY <1>3, Zenon DEF NameOf, SizeOf, InputSection
<1>5. \A r \in DOMAIN job.rels :
        /\ job.rels[r].isec \in 1 .. N /\ job.rels[r].off \in Nat
        /\ job.rels[r].sym \in 1 .. N + Len(job.syms)
  <2> DEFINE T == [isec : 1 .. N, off : Nat, sym : 1 .. N + Len(job.syms)]
  <2>1. \A x \in T : x.isec \in 1 .. N /\ x.off \in Nat /\ x.sym \in 1 .. N + Len(job.syms)
    BY Zenon
  <2>2. job.rels \in Seq(T)
    BY <1>2, Zenon
  <2> HIDE DEF T
  <2>3. \A r \in DOMAIN job.rels : job.rels[r] \in T
    BY <2>2, SMTT(30), SMTT(60)
  <2> QED
    BY <2>1, <2>3, Zenon
<1>6. DOMAIN job.rels = 1 .. Len(job.rels) /\ Len(job.rels) \in Nat /\ Len(job.syms) \in Nat
  BY <1>1, <1>2
<1> QED
  BY <1>2, <1>3, <1>4, <1>5, <1>6, Zenon DEF SizeOf

(* Where the symbols of a job are.                                         *)
LEMMA SymbolIs ==
  ASSUME IsJob(job)
  PROVE  /\ \A k \in 0 .. N + Len(job.syms) : SymbolInput(k) \in 0 .. N
         /\ \A k \in 1 .. N + Len(job.syms) : SymbolOffset(k) \in Nat
<1>1. N \in Nat /\ Len(job.syms) \in Nat
  BY JobIs, Zenon
<1>2. job.syms \in Seq([isec : 0 .. N, off : Nat])
  BY Zenon DEF IsJob, N
<1>3. \A k \in 1 .. Len(job.syms) : job.syms[k].isec \in 0 .. N /\ job.syms[k].off \in Nat
  <2> DEFINE T == [isec : 0 .. N, off : Nat]
  <2>1. \A x \in T : x.isec \in 0 .. N /\ x.off \in Nat
    BY Zenon
  <2>2. job.syms \in Seq(T)
    BY <1>2, Zenon
  <2> HIDE DEF T
  <2>3. \A k \in 1 .. Len(job.syms) : job.syms[k] \in T
    BY <2>2
  <2> QED
    BY <2>1, <2>3, Zenon
<1>4. ASSUME NEW k \in 0 .. N + Len(job.syms)
      PROVE  SymbolInput(k) \in 0 .. N /\ (k # 0 => SymbolOffset(k) \in Nat)
  <2>1. CASE k <= N
    BY <1>1, <2>1 DEF SymbolInput, SymbolOffset
  <2>2. CASE ~(k <= N)
    <3>1. k - N \in 1 .. Len(job.syms)
      BY <1>1, <2>2
    <3>2. SymbolInput(k) = job.syms[k - N].isec /\ SymbolOffset(k) = job.syms[k - N].off
      BY <2>2, Zenon DEF SymbolInput, SymbolOffset
    <3> QED
      BY <1>3, <3>1, <3>2, Zenon
  <2> QED
    BY <2>1, <2>2, Zenon
<1> QED
  BY <1>1, <1>4, SMTT(30), SMTT(60)

(* A name has its flags.                                                   *)
LEMMA AttrIs ==
  ASSUME NEW n \in Name
  PROVE  /\ Attr[n].alloc \in BOOLEAN /\ Attr[n].align \in Nat /\ Attr[n].align > 0
         /\ Attr[n].root \in {"no", "exact", "family"}
BY GcConstants DEF Attribute

(* Names and positions of inputs and symbols come from the job alone.      *)
LEMMA SameJob ==
  ASSUME job' = job
  PROVE  /\ N' = N
         /\ \A i : NameOf(i)' = NameOf(i) /\ SizeOf(i)' = SizeOf(i)
         /\ \A k : SymbolInput(k)' = SymbolInput(k) /\ SymbolOffset(k)' = SymbolOffset(k)
         /\ \A k : Defined(k)' <=> Defined(k)
         /\ \A k : AtByte(k)' <=> AtByte(k)
<1>1. N' = N
  BY Zenon DEF N
<1>2. \A i : NameOf(i)' = NameOf(i) /\ SizeOf(i)' = SizeOf(i)
  BY Zenon DEF NameOf, SizeOf
<1>3. \A k : SymbolInput(k)' = SymbolInput(k) /\ SymbolOffset(k)' = SymbolOffset(k)
  BY <1>1, Zenon DEF SymbolInput, SymbolOffset
<1>4. \A k : Defined(k)' <=> Defined(k)
  BY <1>1, <1>3, Zenon DEF Defined
<1>5. \A k : AtByte(k)' <=> AtByte(k)
  BY <1>2, <1>3, <1>4, Zenon DEF AtByte
<1> QED
  BY <1>1, <1>2, <1>3, <1>4, <1>5, Zenon

(* So does what the inputs need of each other.                             *)
LEMMA SameNeeds ==
  ASSUME job' = job
  PROVE  /\ (AllMarked' <=> AllMarked) /\ (Interior' <=> Interior)
         /\ NeededInputs' = NeededInputs
<1>1. AllMarked' <=> AllMarked
  BY SameJob, Zenon DEF AllMarked
<1>2. Interior' <=> Interior
  BY SameJob, Zenon DEF Interior, Referred
<1>3. ImageInputs' = ImageInputs
  <2>1. \A i : InImage(i)' <=> InImage(i)
    BY SameJob, Zenon DEF InImage
  <2> QED
    BY <2>1, SameJob, Zenon DEF ImageInputs
<1>4. \A C : InputsClosed(C)' <=> InputsClosed(C)
  BY <1>3, SameJob, Zenon DEF InputsClosed
<1>5. NeededInputs' = NeededInputs
  BY <1>3, <1>4, Zenon DEF NeededInputs
<1> QED
  BY <1>1, <1>2, <1>5, Zenon

(* What a section holds depends on its name and bounds.                    *)
LEMMA SameHolds ==
  ASSUME job' = job, base' = base, NEW s, NEW t, NEW i,
         secs'[s].name = secs[t].name, secs'[s].lo = secs[t].lo, secs'[s].hi = secs[t].hi
  PROVE  Holds(s, i)' <=> Holds(t, i)
BY SameJob, Zenon DEF Holds

(* So does the place of an input section among the inputs.                 *)
LEMMA SamePlace ==
  ASSUME job' = job, base' = base
  PROVE  \A p, i : IsPlace(p, i)' <=> IsPlace(p, i)
<1> SUFFICES ASSUME NEW p, NEW i PROVE IsPlace(p, i)' <=> IsPlace(p, i)
  BY Zenon
<1>1. \A x : NameOf(x)' = NameOf(x)
  BY SameJob, ZenonT(30), ZenonT(60)
<1> QED
  BY <1>1, Zenon DEF IsPlace

-----------------------------------------------------------------------------
(* Marking and sweeping: the invariant of the link.                        *)

(* A step of the marking leaves the sections alone.                        *)
LEMMA MarkingKeeps ==
  ASSUME LinkInv, UNCHANGED <<job, base, secs, sym, rel, kept, entry>>, PruneInv',
         pc \in {"entry", "roots", "mark"}, pc' \in {"roots", "mark", "failed"}
  PROVE  LinkInv'
<1>1. /\ InputsOK /\ GraphOK /\ Pieces /\ SectionsOK
      /\ SymbolsOK /\ RelocsOK /\ KeptOK /\ Apart /\ InOrder
  BY Zenon DEF LinkInv
<1>2. /\ ~Pruned /\ ~Pruned' /\ pc # "merge" /\ pc' \notin {"merge", "split", "order"} /\ Cut
  BY Zenon DEF Pruned, Cut
<1>3. \A t, i : Holds(t, i)' <=> Holds(t, i)
  BY SameHolds, Zenon
<1>4. InputsOK' /\ GraphOK' /\ MarkOK'
  <2>1. IsJob(job)' /\ N' = N
    BY <1>1, SameJob, Zenon DEF InputsOK, IsJob
  <2>2. InputsOK'
    BY <1>1, <1>2, <2>1, SameJob, SMTT(30), SMTT(60) DEF InputsOK
  <2>3. GraphOK'
    BY <1>1, <1>2, SameJob, Zenon DEF GraphOK, IsGraph
  <2>4. MarkOK'
    BY <1>2, Zenon DEF MarkOK, PruneInv
  <2> QED
    BY <2>2, <2>3, <2>4, Zenon
<1>5. Pieces' /\ SectionsOK' /\ RelocsOK' /\ KeptOK'
  <2>1. Pieces'
    BY <1>1, <1>2, <1>3, SameJob, Zenon DEF Pieces, Inputs
  <2>2. SectionsOK'
    BY <1>1, <1>2, Zenon DEF SectionsOK, SectionOK
  <2>3. RelocsOK'
    <3>1. \A r \in DOMAIN rel : Holds(rel[r].sec, job.rels[r].isec)'
      BY <1>1, <1>2, SameJob, Zenon DEF Holds, RelocsOK
    <3> QED
      BY <1>1, <1>2, <3>1, Zenon DEF RelocsOK
  <2>4. KeptOK'
    BY <1>1, <1>2, Zenon DEF KeptOK
  <2> QED
    BY <2>1, <2>2, <2>3, <2>4, Zenon
<1>6. SymbolsOK'
  <2>1. ASSUME NEW k \in 1 .. N + Len(job.syms), AtByte(k)
        PROVE  Located(k)'
    <3>1. Located(k)
      BY <1>1, <1>2, <2>1, Zenon DEF SymbolsOK, Gone
    <3>2. Holds(sym[k].sec, SymbolInput(k))'
      BY <3>1, SameJob, Zenon DEF Located, Holds
    <3> QED
      BY <3>1, <3>2, SameJob, Zenon DEF Located
  <2> QED
    BY <1>1, <1>2, <2>1, SameJob, Zenon DEF SymbolsOK
<1>7. Apart' /\ InOrder'
  <2>1. Apart'
    BY <1>1, <1>2, <1>3, SameJob, SameNeeds, Zenon DEF Apart, Inputs
  <2>2. \A s, t : Alike(s, t)
    BY Zenon DEF Alike
  <2>3. pc # "order"
    BY Zenon
  <2>4. ASSUME AllMarked, NEW s \in DOMAIN secs, NEW t \in DOMAIN secs,
               NEW i \in 1 .. N, NEW j \in 1 .. N, NEW p \in 1 .. N, NEW q \in 1 .. N,
               Holds(s, i), secs[s].alloc, IsPlace(p, i), Holds(t, j), secs[t].alloc, IsPlace(q, j), p < q
        PROVE  s < t
    BY <1>1, <1>2, <2>2, <2>3, <2>4, Zenon DEF InOrder, Inputs
  <2>5. ASSUME AllMarked, NEW s \in DOMAIN secs', NEW t \in DOMAIN secs',
               NEW i \in 1 .. N, NEW j \in 1 .. N, NEW p \in 1 .. N, NEW q \in 1 .. N,
               Holds(s, i)', secs'[s].alloc, IsPlace(p, i), Holds(t, j)', secs'[t].alloc, IsPlace(q, j), p < q
        PROVE  s < t
    <3>1. s \in DOMAIN secs /\ t \in DOMAIN secs /\ Holds(s, i) /\ Holds(t, j) /\ secs[s].alloc /\ secs[t].alloc
      BY <1>3, <2>5, Zenon
    <3> QED
      BY <2>4, <2>5, <3>1, Zenon
  <2>6. InOrder'
    <3>1. N' = N /\ (AllMarked' <=> AllMarked) /\ \A p, i : IsPlace(p, i)' <=> IsPlace(p, i)
      BY SameJob, SameNeeds, SamePlace, ZenonT(30), ZenonT(60)
    <3> QED
      BY <2>5, <3>1, SMTT(30), SMTT(60), ZenonT(60) DEF InOrder, Inputs
  <2> QED
    BY <2>1, <2>6, Zenon
<1>8. MergedOK' /\ MergedSymbols' /\ FirstMarks' /\ Collected' /\ PruneOK'
  BY <1>2, Zenon DEF MergedOK, MergedSymbols, FirstMarks, Collected, PruneOK
<1> QED
  BY <1>4, <1>5, <1>6, <1>7, <1>8, Zenon DEF LinkInv

(* A symbol that is referred to is in the section of its input section.    *)
LEMMA ReferredSymbol ==
  ASSUME LinkInv, pc = "mark", Interior, NEW k \in Referred, k \in 1 .. N + Len(job.syms)
  PROVE  /\ sym[k].sec # 0 => SymbolInput(k) # 0
         /\ SymbolInput(k) # 0 =>
              /\ sym[k].sec \in DOMAIN secs /\ Holds(sym[k].sec, SymbolInput(k))
              /\ SymbolInput(k) \in 1 .. N
<1>1. SymbolsOK /\ pc # "merge" /\ ~Pruned
  BY Zenon DEF LinkInv, Pruned
<1>2. sym[k].sec # 0 => SymbolInput(k) # 0
  BY <1>1, Zenon DEF SymbolsOK, Defined
<1>3. ASSUME SymbolInput(k) # 0
      PROVE  /\ sym[k].sec \in DOMAIN secs /\ Holds(sym[k].sec, SymbolInput(k))
             /\ SymbolInput(k) \in 1 .. N
  <2>1. AtByte(k)
    BY <1>3, Zenon DEF Interior
  <2>2. Located(k)
    BY <1>1, <2>1, Zenon DEF SymbolsOK, Gone
  <2>3. IsJob(job) /\ N \in Nat /\ Len(job.syms) \in Nat
    BY JobIs, Zenon DEF LinkInv, InputsOK
  <2>4. k \in 0 .. N + Len(job.syms)
    BY <2>3
  <2>5. SymbolInput(k) \in 0 .. N
    BY <2>3, <2>4, SymbolIs, Zenon
  <2>6. SymbolInput(k) \in 1 .. N
    BY <1>3, <2>3, <2>5
  <2> QED
    BY <2>2, <2>6, Zenon DEF Located
<1> QED
  BY <1>2, <1>3, Zenon

(* What is reachable is what the inputs need.                              *)
LEMMA ReachableIsNeeded ==
  ASSUME LinkInv, pc = "mark", AllMarked, Interior, NoExact,
         NEW s \in DOMAIN secs, NEW i \in 1 .. N, Holds(s, i), secs[s].alloc
  PROVE  s \in Reachable <=> i \in NeededInputs
<1>1. /\ InputsOK /\ GraphOK /\ Pieces /\ SectionsOK /\ RelocsOK /\ Apart
      /\ pc # "merge" /\ Cut
  BY Zenon DEF LinkInv, Cut
<1>2. IsGraph(secs, sym, rel, entry) /\ Len(rel) = Len(job.rels) /\ Len(sym) = N + Len(job.syms)
      /\ \A r \in DOMAIN rel : rel[r].sym = job.rels[r].sym
  BY <1>1, Zenon DEF GraphOK
<1>3. /\ DOMAIN secs = 1 .. Len(secs) /\ Len(secs) \in Nat /\ DOMAIN rel = DOMAIN job.rels
      /\ \A r \in DOMAIN rel : rel[r].sec \in DOMAIN secs
  <2>1. secs \in Seq(Section) /\ rel \in Seq(RelocRecord) /\ \A r \in DOMAIN rel : rel[r].sec \in 1 .. Len(secs)
    BY <1>2, Zenon DEF IsGraph
  <2>2. DOMAIN job.rels = 1 .. Len(job.rels)
    BY <1>1, JobIs, Zenon DEF InputsOK
  <2> QED
    BY <1>2, <2>1, <2>2
<1>4. /\ N \in Nat /\ Len(job.syms) \in Nat /\ entry = job.entry /\ job.entry \in 0 .. N + Len(job.syms)
      /\ \A r \in DOMAIN rel :
           /\ job.rels[r].isec \in 1 .. N /\ job.rels[r].sym \in 1 .. N + Len(job.syms)
           /\ job.rels[r].sym \in Referred /\ job.rels[r].sym # 0
  <2>1. IsJob(job) /\ entry = job.entry
    BY <1>1, Zenon DEF InputsOK
  <2>2. /\ N \in Nat /\ Len(job.syms) \in Nat /\ job.entry \in 0 .. N + Len(job.syms)
        /\ \A r \in DOMAIN job.rels :
             job.rels[r].isec \in 1 .. N /\ job.rels[r].sym \in 1 .. N + Len(job.syms)
    BY <2>1, JobIs, Zenon
  <2>3. \A r \in DOMAIN job.rels : job.rels[r].sym \in Referred
    BY Zenon DEF Referred
  <2>4. \A k \in 1 .. N + Len(job.syms) : k # 0
    BY <2>2
  <2> QED
    BY <1>3, <2>1, <2>2, <2>3, <2>4, Zenon
<1>5. \A u : u \in Image <=> u \in DOMAIN secs /\ secs[u].alloc
  BY <1>3, Zenon DEF Image
<1>6. ASSUME NEW u \in DOMAIN secs, NEW j \in 1 .. N, Holds(u, j)
      PROVE  /\ (secs[u].alloc <=> j \in ImageInputs)
             /\ secs[u].alloc => (secs[u].root <=> Attr[NameOf(j)].root # "no")
  <2>1. secs[u].name = NameOf(j) /\ SectionOK(u)
    BY <1>1, <1>6, Zenon DEF Holds, SectionsOK
  <2>2. j # 0
    BY <1>4
  <2>3. NameOf(j) \in Name
    BY <1>1, JobIs, Zenon DEF InputsOK
  <2>4. Attr[NameOf(j)].root \in {"no", "exact", "family"} /\ Attr[NameOf(j)].root # "exact"
    BY <2>3, AttrIs, Zenon DEF NoExact
  <2>5. secs[u].alloc <=> j \in ImageInputs
    BY <2>1, <2>2, Zenon DEF SectionOK, ImageInputs, InImage
  <2>6. /\ Attr[NameOf(j)].root # "no" <=> Attr[NameOf(j)].root = "family"
    BY <2>4, Zenon
  <2>7. secs[u].alloc => (secs[u].root <=> Attr[NameOf(j)].root # "no")
    BY <2>1, <2>4, <2>6, Zenon DEF SectionOK
  <2> QED
    BY <2>5, <2>7, Zenon
<1>7. \A u \in DOMAIN secs : \A j, h \in 1 .. N :
        Holds(u, j) /\ Holds(u, h) /\ secs[u].alloc => j = h
  BY <1>1, Zenon DEF Apart, Inputs
<1>8. \A j \in 1 .. N : \A u, v \in DOMAIN secs : Holds(u, j) /\ Holds(v, j) => u = v
  BY <1>1, Zenon DEF Pieces, Inputs
<1>9. \A r \in DOMAIN rel : Holds(rel[r].sec, job.rels[r].isec) /\ Target(r) = sym[job.rels[r].sym].sec
  BY <1>1, <1>2, <1>4, Zenon DEF RelocsOK, Target
<1>10. 0 \notin Image /\ 0 \notin 1 .. N
  BY <1>3, <1>4, <1>5
<1>11. s \in Image /\ i \in ImageInputs
  BY <1>5, <1>6, Zenon
<1>12. job.entry # 0 => job.entry \in Referred /\ job.entry \in 1 .. N + Len(job.syms)
  <2>1. job.entry \in Referred
    BY Zenon DEF Referred
  <2> QED
    BY <1>4, <2>1
<1>13. ASSUME s \in Reachable, NEW C \in SUBSET ImageInputs, InputsClosed(C)
       PROVE  i \in C
  <2> DEFINE D == {u \in Image : \A j \in 1 .. N : Holds(u, j) => j \in C}
  <2>1. ASSUME NEW u \in Image, IsRoot(u), NEW j \in 1 .. N, Holds(u, j)
        PROVE  j \in C
    <3>1. u \in DOMAIN secs /\ secs[u].alloc /\ j \in ImageInputs
      BY <1>5, <1>6, <2>1, Zenon
    <3>2. CASE secs[u].root
      BY <1>6, <1>13, <2>1, <3>1, <3>2, Zenon DEF InputsClosed
    <3>3. CASE u = EntrySection
      <4>1. entry # 0 /\ u = sym[job.entry].sec /\ u # 0
        BY <1>4, <1>10, <2>1, <3>3, Zenon DEF EntrySection
      <4>2. Holds(u, SymbolInput(job.entry)) /\ SymbolInput(job.entry) \in 1 .. N
        BY <1>4, <1>12, <4>1, ReferredSymbol, Zenon
      <4>3. j = SymbolInput(job.entry)
        BY <1>7, <2>1, <3>1, <4>2, Zenon
      <4> QED
        BY <1>13, <3>1, <4>3, Zenon DEF InputsClosed
    <3> QED
      BY <2>1, <3>2, <3>3, Zenon DEF IsRoot
  <2>2. ASSUME NEW r \in DOMAIN rel, rel[r].sec \in D, Target(r) \in Image,
               NEW j \in 1 .. N, Holds(Target(r), j)
        PROVE  j \in C
    <3> DEFINE k == job.rels[r].sym
    <3>1. Target(r) \in DOMAIN secs /\ secs[Target(r)].alloc /\ j \in ImageInputs
      BY <1>5, <1>6, <2>2, Zenon
    <3>2. Holds(rel[r].sec, job.rels[r].isec) /\ job.rels[r].isec \in 1 .. N /\ Target(r) = sym[k].sec
      BY <1>4, <1>9, Zenon
    <3>3. job.rels[r].isec \in C
      BY <2>2, <3>2, Zenon
    <3>4. k \in Referred /\ k \in 1 .. N + Len(job.syms) /\ sym[k].sec # 0
      BY <1>4, <1>10, <2>2, <3>2, Zenon
    <3> HIDE DEF k
    <3>5. Holds(Target(r), SymbolInput(k)) /\ SymbolInput(k) \in 1 .. N
      BY <3>2, <3>4, ReferredSymbol, Zenon
    <3>6. j = SymbolInput(k)
      BY <1>7, <2>2, <3>1, <3>5, Zenon
    <3> QED
      BY <1>3, <1>13, <3>1, <3>3, <3>6, Zenon DEF InputsClosed, k
  <2>3. Closed(D)
    <3>1. \A u \in Image : IsRoot(u) => u \in D
      BY <2>1, Zenon
    <3>2. \A r \in DOMAIN rel : rel[r].sec \in D /\ Target(r) \in Image => Target(r) \in D
      BY <2>2, Zenon
    <3> HIDE DEF D
    <3> QED
      BY <3>1, <3>2, Zenon DEF Closed
  <2>4. D \in SUBSET Image
    BY Zenon
  <2>5. s \in D
    <3> HIDE DEF D
    <3> QED
      BY <1>13, <2>3, <2>4, Zenon DEF Reachable
  <2> QED
    BY <2>5, Zenon
<1>14. ASSUME i \in NeededInputs, NEW D \in SUBSET Image, Closed(D)
       PROVE  s \in D
  <2> DEFINE C == {j \in ImageInputs : \A u \in DOMAIN secs : Holds(u, j) => u \in D}
  <2>1. \A j \in ImageInputs : j \in 1 .. N
    BY Zenon DEF ImageInputs
  <2>2. ASSUME NEW j \in ImageInputs, j = SymbolInput(job.entry) \/ Attr[NameOf(j)].root # "no",
               NEW u \in DOMAIN secs, Holds(u, j)
        PROVE  u \in D
    <3>1. j \in 1 .. N /\ secs[u].alloc /\ u \in Image
      BY <1>5, <1>6, <2>1, <2>2, Zenon
    <3>2. CASE Attr[NameOf(j)].root # "no"
      BY <1>6, <1>14, <2>2, <3>1, <3>2, Zenon DEF Closed, IsRoot
    <3>3. CASE j = SymbolInput(job.entry)
      <4>1. job.entry # 0
        <5>1. SymbolInput(0) = 0
          BY <1>4 DEF SymbolInput
        <5> QED
          BY <1>10, <3>1, <3>3, <5>1, Zenon
      <4>2. sym[job.entry].sec \in DOMAIN secs /\ Holds(sym[job.entry].sec, j)
        BY <1>10, <1>12, <3>1, <3>3, <4>1, ReferredSymbol, Zenon
      <4>3. u = EntrySection
        BY <1>4, <1>8, <2>2, <3>1, <4>1, <4>2, Zenon DEF EntrySection
      <4> QED
        BY <1>14, <3>1, <4>3, Zenon DEF Closed, IsRoot
    <3> QED
      BY <2>2, <3>2, <3>3, Zenon
  <2>3. ASSUME NEW r \in DOMAIN job.rels, job.rels[r].isec \in C,
               NEW j \in ImageInputs, j = SymbolInput(job.rels[r].sym),
               NEW u \in DOMAIN secs, Holds(u, j)
        PROVE  u \in D
    <3> DEFINE k == job.rels[r].sym
    <3>1. r \in DOMAIN rel /\ j \in 1 .. N /\ u \in Image
      BY <1>3, <1>5, <1>6, <2>1, <2>3, Zenon
    <3>2. /\ Holds(rel[r].sec, job.rels[r].isec) /\ rel[r].sec \in DOMAIN secs /\ Target(r) = sym[k].sec
          /\ k \in Referred /\ k \in 1 .. N + Len(job.syms)
      BY <1>3, <1>4, <1>9, <3>1, Zenon
    <3>3. rel[r].sec \in D
      BY <2>3, <3>2, Zenon
    <3>4. sym[k].sec \in DOMAIN secs /\ Holds(sym[k].sec, j)
      BY <1>10, <2>3, <3>1, <3>2, ReferredSymbol, Zenon
    <3>5. u = Target(r)
      BY <1>8, <2>3, <3>1, <3>2, <3>4, Zenon
    <3> QED
      BY <1>14, <3>1, <3>3, <3>5, Zenon DEF Closed
  <2>4. InputsClosed(C)
    <3>1. \A j \in ImageInputs : j = SymbolInput(job.entry) \/ Attr[NameOf(j)].root # "no" => j \in C
      BY <2>2, Zenon
    <3>2. \A r \in DOMAIN job.rels :
            job.rels[r].isec \in C /\ SymbolInput(job.rels[r].sym) \in ImageInputs
              => SymbolInput(job.rels[r].sym) \in C
      BY <2>3, Zenon
    <3> HIDE DEF C
    <3> QED
      BY <3>1, <3>2, Zenon DEF InputsClosed
  <2>5. C \in SUBSET ImageInputs
    BY Zenon
  <2>6. i \in C
    <3> HIDE DEF C
    <3> QED
      BY <1>14, <2>4, <2>5, Zenon DEF NeededInputs
  <2> QED
    BY <2>6, Zenon
<1> QED
  BY <1>11, <1>13, <1>14, Zenon DEF Reachable, NeededInputs

(* With the queue empty, what is marked is what is reachable.              *)
LEMMA LiveIs ==
  ASSUME PruneInv, pc = "mark", todo = {}, head > Len(queue)
  PROVE  live = Reachable
<1>1. live \in SUBSET Image
  BY Zenon DEF PruneInv, PruneTypeOK, Image
<1>2. Closed(live)
  BY LiveIsClosed, Zenon
<1>3. \A C \in SUBSET Image : Closed(C) => live \subseteq C
  BY Zenon DEF PruneInv, Sound, Marking
<1> QED
  BY <1>1, <1>2, <1>3, Zenon DEF Reachable

(* The sweep empties what is not reachable.                                *)
LEMMA SweepKeeps ==
  ASSUME LinkInv, Sweep, UNCHANGED <<job, base>>
  PROVE  LinkInv'
<1>1. /\ pc = "mark" /\ pc' = "swept" /\ todo = {} /\ head > Len(queue)
      /\ kept' = {r \in kept : rel[r].sec \in live}
      /\ UNCHANGED <<rel, entry>>
  BY Zenon DEF Sweep, Goto
<1>2. /\ secs' = [s \in DOMAIN secs |->
                    IF secs[s].alloc /\ s \notin live THEN [secs[s] EXCEPT !.size = 0] ELSE secs[s]]
      /\ sym' = [k \in DOMAIN sym |->
                   IF sym[k].sec # 0 /\ sym[k].sec \notin live
                   THEN [sec |-> 0, value |-> 0] ELSE sym[k]]
  BY Zenon DEF Sweep
<1>3. /\ InputsOK /\ GraphOK /\ Pieces /\ SectionsOK
      /\ SymbolsOK /\ RelocsOK /\ KeptOK /\ Apart /\ InOrder /\ PruneInv
  BY <1>1, Zenon DEF LinkInv, PruneOK
<1>4. PruneInv'
  BY <1>3, SweepStep, Zenon
<1>5. /\ ~Pruned /\ Pruned' /\ Cut /\ pc # "merge" /\ pc # "order"
      /\ pc' \notin {"merge", "split", "order", "align", "laid"}
  BY <1>1, Zenon DEF Pruned, Cut
<1>6. IsGraph(secs, sym, rel, entry) /\ Len(sym) = N + Len(job.syms) /\ Len(rel) = Len(job.rels)
  BY <1>3, <1>5, Zenon DEF GraphOK
<1>7. /\ secs \in Seq(Section) /\ DOMAIN secs = 1 .. Len(secs) /\ Len(secs) \in Nat
      /\ DOMAIN sym = 1 .. N + Len(job.syms)
      /\ \A s \in DOMAIN secs : secs[s] \in Section
      /\ \A r \in DOMAIN rel : rel[r].sec \in DOMAIN secs
  <2>1. /\ secs \in Seq(Section) /\ sym \in Seq(SymbolRecord)
        /\ \A r \in DOMAIN rel : rel[r].sec \in 1 .. Len(secs)
    BY <1>6, Zenon DEF IsGraph
  <2> QED
    BY <1>6, <2>1
<1>8. live = Reachable /\ live \subseteq Image
  <2>1. live = Reachable
    BY <1>1, <1>3, LiveIs, Zenon
  <2> QED
    BY <2>1, Zenon DEF Reachable
<1>9. DOMAIN secs' = DOMAIN secs /\ DOMAIN sym' = DOMAIN sym
  BY <1>2, Zenon
<1>10. ASSUME NEW s \in DOMAIN secs
       PROVE  /\ secs'[s].name = secs[s].name /\ secs'[s].lo = secs[s].lo /\ secs'[s].hi = secs[s].hi
              /\ secs'[s].alloc = secs[s].alloc /\ secs'[s].root = secs[s].root
              /\ s \in live => secs'[s].size = secs[s].size
              /\ secs[s].alloc /\ s \notin live => secs'[s].size = 0
  <2>1. CASE secs[s].alloc /\ s \notin live
    <3>1. secs'[s] = [secs[s] EXCEPT !.size = 0]
      BY <1>2, <2>1, Zenon
    <3> QED
      <4>1. secs[s] \in Section
        BY <1>7, Zenon
      <4> QED
        BY <2>1, <3>1, <4>1, EmptiedSection, Zenon
  <2>2. CASE ~(secs[s].alloc /\ s \notin live)
    <3>1. secs'[s] = secs[s]
      BY <1>2, <2>2, Zenon
    <3> QED
      BY <2>2, <3>1, Zenon
  <2> QED
    BY <2>1, <2>2, Zenon
<1>11. \A s \in DOMAIN secs : \A i : Holds(s, i)' <=> Holds(s, i)
  BY <1>10, SameHolds, Zenon
<1>12. ASSUME NEW s \in DOMAIN secs, NEW i \in 1 .. N, Holds(s, i)
       PROVE  secs[s].size > 0
  <2>1. secs[s].hi = secs[s].lo + secs[s].size
    BY <1>3, <1>5, Zenon DEF SectionsOK, SectionOK
  <2>2. secs[s].lo \in Nat /\ secs[s].size \in Nat
    BY <1>7, SMTT(30), SMTT(60) DEF Section
  <2>3. base[i] \in Nat /\ SizeOf(i) \in Nat
    <3>1. IsJob(job) /\ base \in Seq(Nat) /\ Len(base) = N
      BY <1>3, <1>5, Zenon DEF InputsOK
    <3>2. base[i] \in Nat
      BY <3>1
    <3> QED
      BY <3>1, <3>2, JobIs, Zenon
  <2>4. SizeOf(i) > 0 /\ secs[s].lo <= base[i] /\ base[i] + SizeOf(i) <= secs[s].hi
    BY <1>12, Zenon DEF Holds
  <2> QED
    BY <2>1, <2>2, <2>3, <2>4, SMTT(30), SMTT(60)
<1>13. ASSUME NEW s \in DOMAIN secs, NEW i \in 1 .. N, Holds(s, i), secs[s].alloc
       PROVE  secs'[s].size > 0 <=> s \in live
  <2>1. CASE s \in live
    BY <1>10, <1>12, <1>13, <2>1, Zenon
  <2>2. CASE s \notin live
    <3>1. secs'[s].size = 0
      BY <1>10, <1>13, <2>2, Zenon
    <3> QED
      BY <2>2, <3>1
  <2> QED
    BY <2>1, <2>2, Zenon
<1>14. InputsOK' /\ GraphOK' /\ MarkOK' /\ PruneOK'
  <2>1. IsGraph(secs, sym, rel, entry)' /\ QueueSuffices'
    BY <1>4, Zenon DEF PruneInv, PruneTypeOK
  <2>2. IsJob(job)' /\ N' = N /\ secs' \in Seq(Section)
    BY <1>3, <2>1, SameJob, ZenonT(30), ZenonT(60) DEF InputsOK, IsJob, IsGraph
  <2>3. InputsOK'
    BY <1>1, <1>3, <1>5, <2>2, SameJob, SMTT(30), SMTT(60) DEF InputsOK
  <2>4. Len(sym') = Len(sym)
    <3>1. sym \in Seq(SymbolRecord) /\ sym' \in Seq(SymbolRecord)
      BY <1>6, <2>1, Zenon DEF IsGraph
    <3> QED
      BY <1>9, <3>1
  <2>5. GraphOK'
    BY <1>1, <1>3, <1>5, <1>6, <2>1, <2>4, SameJob, Zenon DEF GraphOK
  <2>6. MarkOK'
    BY <1>5, <2>1, Zenon DEF MarkOK
  <2> QED
    BY <1>4, <2>3, <2>5, <2>6, Zenon DEF PruneOK
<1>15. Pieces' /\ SectionsOK'
  <2>1. Pieces'
    <3>1. \A i \in 1 .. N : SizeOf(i) > 0 => \E s \in DOMAIN secs : Holds(s, i)
      BY <1>3, <1>5, Zenon DEF Pieces, Inputs
    <3>2. \A i \in 1 .. N : \A s, t \in DOMAIN secs : Holds(s, i) /\ Holds(t, i) => s = t
      BY <1>3, <1>5, Zenon DEF Pieces, Inputs
    <3>3. N' = N /\ \A i : SizeOf(i)' = SizeOf(i)
      BY SameJob, Zenon
    <3>4. \A i \in 1 .. N : SizeOf(i) > 0 => \E s \in DOMAIN secs' : Holds(s, i)'
      BY <1>9, <1>11, <3>1, Zenon
    <3>5. \A i \in 1 .. N : \A s, t \in DOMAIN secs' : Holds(s, i)' /\ Holds(t, i)' => s = t
      BY <1>9, <1>11, <3>2, Zenon
    <3> QED
      BY <3>3, <3>4, <3>5, Zenon DEF Pieces, Inputs
  <2>2. ASSUME NEW s \in DOMAIN secs
        PROVE  SectionOK(s)'
    <3>1. SectionOK(s)
      BY <1>3, <1>5, Zenon DEF SectionsOK
    <3> QED
      BY <1>5, <1>10, <3>1, Zenon DEF SectionOK
  <2>3. SectionsOK'
    BY <1>9, <2>2, Zenon DEF SectionsOK
  <2> QED
    BY <2>1, <2>3, Zenon
<1>16. SymbolsOK'
  <2>1. ASSUME NEW k \in 1 .. N + Len(job.syms), ~Defined(k)
        PROVE  sym'[k].sec = 0
    <3>1. sym[k].sec = 0 /\ k \in DOMAIN sym
      BY <1>3, <1>5, <1>7, <2>1, Zenon DEF SymbolsOK
    <3> QED
      BY <1>2, <3>1, Zenon
  <2>2. ASSUME NEW k \in 1 .. N + Len(job.syms), AtByte(k)
        PROVE  Located(k)' \/ Gone(k)'
    <3>1. Located(k)
      BY <1>3, <1>5, <2>2, Zenon DEF SymbolsOK, Gone
    <3>2. /\ sym[k].sec \in DOMAIN secs /\ Holds(sym[k].sec, SymbolInput(k))
          /\ secs[sym[k].sec].lo + sym[k].value = base[SymbolInput(k)] + SymbolOffset(k)
      BY <3>1, Zenon DEF Located
    <3>3. CASE sym[k].sec \in live
      <4>1. sym'[k] = sym[k]
        BY <1>2, <1>7, <3>3, Zenon
      <4>2. Holds(sym[k].sec, SymbolInput(k))'
        BY <1>10, <3>2, <4>1, SameJob, ZenonT(30), ZenonT(60) DEF Holds
      <4>3. Located(k)'
        BY <1>9, <1>10, <3>2, <4>1, <4>2, SameJob, Zenon DEF Located
      <4> QED
        BY <4>3, Zenon
    <3>4. CASE sym[k].sec \notin live
      <4>1. sym[k].sec # 0
        BY <1>7, <3>2
      <4>2. sym'[k] = [sec |-> 0, value |-> 0]
        BY <1>2, <1>7, <3>4, <4>1, Zenon
      <4>3. SymbolInput(k) \in 1 .. N
        <5>1. IsJob(job) /\ N \in Nat /\ Len(job.syms) \in Nat
          BY <1>3, JobIs, Zenon DEF InputsOK
        <5>2. k \in 0 .. N + Len(job.syms)
          BY <5>1
        <5>3. SymbolInput(k) \in 0 .. N
          BY <5>1, <5>2, SymbolIs, Zenon
        <5>4. SymbolInput(k) # 0
          BY <2>2, Zenon DEF AtByte, Defined
        <5> QED
          BY <5>1, <5>3, <5>4, SMTT(30), SMTT(60)
      <4>4. \A s \in DOMAIN secs : Holds(s, SymbolInput(k)) => s = sym[k].sec
        BY <1>3, <1>5, <3>2, <4>3, Zenon DEF Pieces, Inputs
      <4>5. ASSUME NEW s \in DOMAIN secs', Holds(s, SymbolInput(k))', secs'[s].alloc
            PROVE  secs'[s].size = 0
        <5>1. s \in DOMAIN secs /\ secs[s].alloc
          BY <1>9, <1>10, <4>5, Zenon
        <5>2. Holds(s, SymbolInput(k))
          BY <1>10, <4>5, <5>1, SameJob, Zenon DEF Holds
        <5> QED
          BY <1>10, <3>4, <4>4, <5>1, <5>2, Zenon
      <4>6. Gone(k)'
        BY <1>5, <4>2, <4>5, Zenon DEF Gone
      <4> QED
        BY <4>6, Zenon
    <3> QED
      BY <3>3, <3>4, Zenon
  <2> QED
    BY <2>1, <2>2, SameJob, Zenon DEF SymbolsOK
<1>17. \A r \in DOMAIN rel :
         /\ Holds(rel[r].sec, job.rels[r].isec) /\ job.rels[r].isec \in 1 .. N
         /\ secs[rel[r].sec].lo + rel[r].off = base[job.rels[r].isec] + job.rels[r].off
  <2>1. DOMAIN rel = DOMAIN job.rels
    <3>1. rel \in Seq(RelocRecord)
      BY <1>6, Zenon DEF IsGraph
    <3>2. DOMAIN job.rels = 1 .. Len(job.rels)
      BY <1>3, JobIs, Zenon DEF InputsOK
    <3> QED
      BY <1>6, <3>1, <3>2, SMTT(30), SMTT(60)
  <2>2. \A r \in DOMAIN job.rels : job.rels[r].isec \in 1 .. N
    BY <1>3, JobIs, Zenon DEF InputsOK
  <2> QED
    BY <1>3, <1>5, <2>1, <2>2, Zenon DEF RelocsOK
<1>18. RelocsOK'
  <2>1. ASSUME NEW r \in DOMAIN rel
        PROVE  /\ Holds(rel[r].sec, job.rels[r].isec)'
               /\ secs'[rel[r].sec].lo + rel[r].off = base[job.rels[r].isec] + job.rels[r].off
    <3>1. rel[r].sec \in DOMAIN secs
      BY <1>7, Zenon
    <3>2. Holds(rel[r].sec, job.rels[r].isec)'
      BY <1>1, <1>10, <1>17, <3>1, SameJob, Zenon DEF Holds
    <3> QED
      BY <1>10, <1>17, <3>1, <3>2, Zenon
  <2> QED
    BY <1>1, <2>1, Zenon DEF RelocsOK
<1>19. KeptOK'
  <2>1. kept = DOMAIN rel
    BY <1>3, <1>5, Zenon DEF KeptOK
  <2>2. ASSUME NEW r \in DOMAIN rel
        PROVE  (r \in kept') <=> (secs'[rel[r].sec].alloc /\ secs'[rel[r].sec].size > 0)
    <3>1. rel[r].sec \in DOMAIN secs /\ (r \in kept' <=> rel[r].sec \in live)
      BY <1>1, <1>7, <2>1, Zenon
    <3>2. rel[r].sec \in live => secs[rel[r].sec].alloc
      BY <1>8, Zenon DEF Image
    <3>3. secs[rel[r].sec].alloc => (secs'[rel[r].sec].size > 0 <=> rel[r].sec \in live)
      BY <1>13, <1>17, <3>1, Zenon
    <3>4. secs'[rel[r].sec].alloc = secs[rel[r].sec].alloc
      BY <1>10, <3>1, Zenon
    <3> QED
      BY <3>1, <3>2, <3>3, <3>4, Zenon
  <2> QED
    BY <1>1, <1>5, <2>2, Zenon DEF KeptOK
<1>20. Apart' /\ InOrder'
  <2>1. Apart'
    <3>1. AllMarked => \A s \in DOMAIN secs : \A i, j \in 1 .. N :
            Holds(s, i) /\ Holds(s, j) /\ secs[s].alloc => i = j
      BY <1>3, <1>5, Zenon DEF Apart, Inputs
    <3>2. \A s \in DOMAIN secs : secs'[s].alloc = secs[s].alloc
      BY <1>10, Zenon
    <3> QED
      BY <1>9, <1>11, <3>1, <3>2, SameJob, SameNeeds, Zenon DEF Apart, Inputs
  <2>2. ASSUME AllMarked, NEW s \in DOMAIN secs', NEW t \in DOMAIN secs',
               NEW i \in 1 .. N, NEW j \in 1 .. N, NEW p \in 1 .. N, NEW q \in 1 .. N,
               Holds(s, i)', secs'[s].alloc, IsPlace(p, i), Holds(t, j)', secs'[t].alloc, IsPlace(q, j), p < q
        PROVE  s < t
    <3>1. /\ s \in DOMAIN secs /\ t \in DOMAIN secs /\ Holds(s, i) /\ Holds(t, j)
          /\ secs[s].alloc /\ secs[t].alloc
      BY <1>9, <1>10, <1>11, <2>2, Zenon
    <3>2. Alike(s, t)
      BY <1>1, Zenon DEF Alike
    <3> QED
      BY <1>3, <1>5, <2>2, <3>1, <3>2, Zenon DEF InOrder, Inputs
  <2>3. InOrder'
    <3>1. N' = N /\ (AllMarked' <=> AllMarked) /\ \A p, i : IsPlace(p, i)' <=> IsPlace(p, i)
      BY SameJob, SameNeeds, SamePlace, Zenon
    <3> QED
      BY <2>2, <3>1, SMTT(30), SMTT(60) DEF InOrder, Inputs
  <2> QED
    BY <2>1, <2>3, Zenon
<1>21. Collected'
  <2>1. ASSUME AllMarked, Interior, NoExact, NEW s \in DOMAIN secs', NEW i \in 1 .. N,
               Holds(s, i)', secs'[s].alloc
        PROVE  secs'[s].size > 0 <=> i \in NeededInputs
    <3>1. s \in DOMAIN secs /\ Holds(s, i) /\ secs[s].alloc
      BY <1>9, <1>10, <1>11, <2>1, Zenon
    <3>2. s \in Reachable <=> i \in NeededInputs
      BY <1>1, <2>1, <3>1, ReachableIsNeeded, ZenonT(30), ZenonT(60)
    <3> QED
      BY <1>8, <1>13, <3>1, <3>2, Zenon
  <2> QED
    BY <2>1, SameJob, SameNeeds, Zenon DEF Collected, Inputs, NoExact
<1>22. MergedOK' /\ MergedSymbols' /\ FirstMarks'
  BY <1>5, Zenon DEF MergedOK, MergedSymbols, FirstMarks
<1> QED
  BY <1>14, <1>15, <1>16, <1>18, <1>19, <1>20, <1>21, <1>22, Zenon DEF LinkInv

(* A step of minild_gc_prune_static.                                       *)
LEMMA PruneStaticStep ==
  ASSUME Counting
  PROVE  LinkInv /\ PruneStatic => LinkInv'
<1> SUFFICES ASSUME LinkInv, PruneStatic PROVE LinkInv'
  BY Zenon
<1>1. Prune /\ UNCHANGED <<job, base>>
  BY Zenon DEF PruneStatic
<1>2. CASE Sweep
  BY <1>1, <1>2, SweepKeeps, Zenon
<1>3. CASE ~Sweep
  <2>1. \/ MarkEntry \/ UndefinedEntry \/ MarkRoot \/ SkipSection \/ RootsEnd \/ Pop \/ MarkTarget
    BY <1>1, <1>3, Zenon DEF Prune
  <2>2. UNCHANGED <<secs, sym, rel, kept, entry>>
    BY <2>1, Zenon DEF MarkEntry, UndefinedEntry, MarkRoot, SkipSection, RootsEnd, Pop, MarkTarget
  <2>3. /\ pc \in {"entry", "roots", "mark"} /\ pc' \in {"roots", "mark", "failed"}
    BY <2>1, Zenon DEF MarkEntry, UndefinedEntry, MarkRoot, SkipSection, RootsEnd, Pop, MarkTarget,
                       MarkSection, Goto
  <2>4. PruneInv
    BY <2>3, Zenon DEF LinkInv, PruneOK
  <2>5. PruneInv'
    BY <2>1, <2>4, MarkEntryStep, MarkRootStep, MarkTargetStep, PopStep, QuietStep, Zenon
  <2> QED
    BY <1>1, <2>2, <2>3, <2>5, MarkingKeeps, Zenon
<1> QED
  BY <1>2, <1>3, Zenon

(* A step that changes nothing.                                            *)
LEMMA StutterKeeps ==
  ASSUME LinkInv, UNCHANGED vars
  PROVE  LinkInv'
<1>1. /\ InputsOK /\ MergedOK /\ MergedSymbols /\ GraphOK /\ MarkOK /\ Pieces /\ SectionsOK
      /\ SymbolsOK /\ RelocsOK /\ KeptOK /\ Apart /\ FirstMarks /\ InOrder /\ Collected /\ PruneOK
  BY Zenon DEF LinkInv
<1>2. /\ UNCHANGED gcVars /\ job' = job /\ base' = base
      /\ UNCHANGED <<pc, secs, sym, rel, kept, entry, ri, live, queue, head, todo, status>>
  BY Zenon DEF vars, gcVars, markVars
<1>3. \A t, i : Holds(t, i)' <=> Holds(t, i)
  BY <1>2, SameHolds, Zenon
<1>4. (Pruned' <=> Pruned) /\ (Cut' <=> Cut) /\ (NoExact' <=> NoExact)
  BY <1>2, Zenon DEF Pruned, Cut, NoExact
<1>5. InputsOK' /\ MergedOK' /\ MergedSymbols' /\ GraphOK' /\ MarkOK'
  <2>1. InputsOK'
    BY <1>1, <1>2, SameJob, Zenon DEF InputsOK, IsJob
  <2>2. MergedOK'
    BY <1>1, <1>2, SameJob, Zenon DEF MergedOK, MakeSection
  <2>3. MergedSymbols'
    BY <1>1, <1>2, SameJob, Zenon DEF MergedSymbols
  <2>4. GraphOK'
    BY <1>1, <1>2, SameJob, Zenon DEF GraphOK, IsGraph
  <2>5. MarkOK'
    BY <1>1, <1>2, Zenon DEF MarkOK, MarkStart, QueueSuffices
  <2> QED
    BY <2>1, <2>2, <2>3, <2>4, <2>5, Zenon
<1>6. Pieces' /\ SectionsOK' /\ RelocsOK' /\ KeptOK'
  <2>1. Pieces'
    BY <1>1, <1>2, <1>3, SameJob, Zenon DEF Pieces, Inputs
  <2>2. SectionsOK'
    BY <1>1, <1>2, <1>4, Zenon DEF SectionsOK, SectionOK
  <2>3. RelocsOK'
    BY <1>1, <1>2, SameJob, Zenon DEF RelocsOK, Holds
  <2>4. KeptOK'
    BY <1>1, <1>2, <1>4, Zenon DEF KeptOK
  <2> QED
    BY <2>1, <2>2, <2>3, <2>4, Zenon
<1>7. SymbolsOK'
  <2>1. \A k : Located(k) => Located(k)'
    BY <1>2, SameJob, Zenon DEF Located, Holds
  <2>2. \A k : Gone(k) => Gone(k)'
    BY <1>2, <1>4, SameJob, Zenon DEF Gone, Holds
  <2> QED
    BY <1>1, <1>2, <2>1, <2>2, SameJob, Zenon DEF SymbolsOK
<1>8. Apart' /\ FirstMarks' /\ Collected' /\ PruneOK'
  <2>1. Apart'
    BY <1>1, <1>2, <1>3, <1>4, SameJob, SameNeeds, Zenon DEF Apart, Inputs
  <2>2. FirstMarks'
    BY <1>1, <1>2, <1>3, SameJob, SameNeeds, SamePlace, ZenonT(30), ZenonT(60) DEF FirstMarks, Inputs
  <2>3. Collected'
    BY <1>1, <1>2, <1>3, <1>4, SameJob, SameNeeds, Zenon DEF Collected, Inputs
  <2>4. PruneOK'
    BY <1>1, <1>2, QuietStep, ZenonT(30), ZenonT(60) DEF PruneOK
  <2> QED
    BY <2>1, <2>2, <2>3, <2>4, Zenon
<1>9. InOrder'
  <2>1. N' = N /\ (AllMarked' <=> AllMarked) /\ \A p, i : IsPlace(p, i)' <=> IsPlace(p, i)
    BY <1>2, SameJob, SameNeeds, SamePlace, Zenon
  <2>2. \A s, t : Alike(s, t)' <=> Alike(s, t)
    BY <1>2, ZenonT(30), ZenonT(60) DEF Alike, OutputClass
  <2> QED
    BY <1>1, <1>2, <1>3, <1>4, <2>1, <2>2, SMTT(30), SMTT(60) DEF InOrder, Inputs
<1> QED
  BY <1>5, <1>6, <1>7, <1>8, <1>9, Zenon DEF LinkInv

-----------------------------------------------------------------------------
(* What the invariant says at the end of the link.                         *)

(* The section that holds an input section, once the inputs are merged.    *)
LEMMA HomeIs ==
  ASSUME LinkInv, pc # "merge", NEW i \in Inputs, SizeOf(i) > 0
  PROVE  /\ Home(i) \in DOMAIN secs /\ Holds(Home(i), i)
         /\ \A t \in DOMAIN secs : Holds(t, i) => t = Home(i)
         /\ secs[Home(i)].alloc <=> Attr[NameOf(i)].alloc
<1>1. Pieces /\ SectionsOK
  BY Zenon DEF LinkInv
<1>2. \E s \in DOMAIN secs : Holds(s, i)
  BY <1>1, Zenon DEF Pieces
<1>3. Home(i) \in DOMAIN secs /\ Holds(Home(i), i)
  BY <1>2, Zenon DEF Home
<1>4. \A t \in DOMAIN secs : Holds(t, i) => t = Home(i)
  BY <1>1, <1>3, Zenon DEF Pieces
<1>5. secs[Home(i)].name = NameOf(i)
  BY <1>3, Zenon DEF Holds
<1>6. SectionOK(Home(i))
  BY <1>1, <1>3, Zenon DEF SectionsOK
<1>7. secs[Home(i)].alloc <=> Attr[NameOf(i)].alloc
  BY <1>5, <1>6, Zenon DEF SectionOK
<1> QED
  BY <1>3, <1>4, <1>7, Zenon

(* Every input section stays in one piece, and every symbol inside one     *)
(* stays at its byte or goes with it.                                      *)
LEMMA SymbolsStay == LinkInv => SymbolsFollowTheirBytes
<1> SUFFICES ASSUME LinkInv, Cut PROVE SymbolsFollowTheirBytes
  BY Zenon DEF SymbolsFollowTheirBytes
<1>1. pc # "merge" /\ IsJob(job) /\ SymbolsOK
  BY Zenon DEF LinkInv, InputsOK, Cut
<1>2. \A i \in 1 .. N : SizeOf(i) > 0 =>
        \E s \in DOMAIN secs : Holds(s, i) /\ \A t \in DOMAIN secs : Holds(t, i) => t = s
  BY <1>1, HomeIs, Zenon DEF Inputs
<1>3. ASSUME NEW k \in 1 .. N + Len(job.syms), AtByte(k)
      PROVE  IsAt(k, SymbolInput(k), SymbolOffset(k))
  <2>1. SymbolInput(k) \in Inputs /\ SizeOf(SymbolInput(k)) > 0
    <3>1. SymbolInput(k) \in 0 .. N /\ SymbolOffset(k) \in Nat /\ N \in Nat /\ Len(job.syms) \in Nat
      BY <1>1, SymbolIs, JobIs, SMTT(30), SMTT(60)
    <3>2. SymbolInput(k) # 0 /\ SymbolOffset(k) < SizeOf(SymbolInput(k))
      BY <1>3, Zenon DEF AtByte, Defined
    <3>3. SymbolInput(k) \in Inputs
      BY <3>1, <3>2 DEF Inputs
    <3>4. SizeOf(SymbolInput(k)) \in Nat
      BY <1>1, <3>3, JobIs, Zenon DEF Inputs
    <3> QED
      BY <3>1, <3>2, <3>3, <3>4, SMTT(30), SMTT(60)
  <2>2. /\ Home(SymbolInput(k)) \in DOMAIN secs /\ Holds(Home(SymbolInput(k)), SymbolInput(k))
        /\ \A t \in DOMAIN secs : Holds(t, SymbolInput(k)) => t = Home(SymbolInput(k))
        /\ secs[Home(SymbolInput(k))].alloc <=> Attr[NameOf(SymbolInput(k))].alloc
    BY <1>1, <2>1, HomeIs, Zenon
  <2>3. CASE Located(k)
    BY <2>2, <2>3, Zenon DEF Located, IsAt
  <2>4. CASE Gone(k)
    <3>1. InImage(SymbolInput(k)) => secs[Home(SymbolInput(k))].size = 0
      BY <2>2, <2>4, Zenon DEF Gone, InImage
    <3>2. InImage(SymbolInput(k)) => ~Kept(SymbolInput(k))
      BY <3>1 DEF Kept
    <3> QED
      BY <2>4, <3>2, Zenon DEF Gone, IsAt
  <2> QED
    BY <1>1, <1>3, <2>3, <2>4, Zenon DEF SymbolsOK
<1> QED
  BY <1>2, <1>3, Zenon DEF SymbolsFollowTheirBytes

(* The relocations that reach the layout are those of the input sections   *)
(* that do, at their bytes.                                                *)
LEMMA RelocationsStay == LinkInv => RelocationsFollowTheirBytes
<1> SUFFICES ASSUME LinkInv, pc = "laid", NEW r \in DOMAIN job.rels
             PROVE  LET i == job.rels[r].isec
                    IN  /\ (r \in kept) <=> (InImage(i) /\ Kept(i))
                        /\ rel[r].sec = Home(i) /\ rel[r].sym = job.rels[r].sym
                        /\ secs[Home(i)].lo + rel[r].off = base[i] + job.rels[r].off
  BY Zenon DEF RelocationsFollowTheirBytes
<1> DEFINE i == job.rels[r].isec
<1>1. pc # "merge" /\ Pruned /\ IsJob(job) /\ RelocsOK /\ KeptOK /\ GraphOK
  BY Zenon DEF LinkInv, InputsOK, Pruned
<1>2. i \in Inputs /\ i # 0 /\ SizeOf(i) > 0
  <2>1. i \in 1 .. N /\ job.rels[r].off \in Nat /\ job.rels[r].off < SizeOf(i) /\ N \in Nat
    BY <1>1, JobIs, Zenon
  <2>2. SizeOf(i) \in Nat
    BY <1>1, <2>1, JobIs, Zenon
  <2> QED
    BY <2>1, <2>2 DEF Inputs
<1>3. r \in DOMAIN rel /\ rel[r].sym = job.rels[r].sym /\ rel[r].sec \in DOMAIN secs
  <2>1. IsGraph(secs, sym, rel, entry) /\ Len(rel) = Len(job.rels)
    BY <1>1, ZenonT(30), ZenonT(60) DEF GraphOK
  <2>2. DOMAIN rel = 1 .. Len(rel) /\ DOMAIN job.rels = 1 .. Len(job.rels) /\ DOMAIN secs = 1 .. Len(secs)
    BY <1>1, <2>1, JobIs DEF IsGraph
  <2>3. r \in DOMAIN rel
    BY <2>1, <2>2, Zenon
  <2>4. Holds(rel[r].sec, job.rels[r].isec)
    BY <1>1, <2>3, Zenon DEF RelocsOK
  <2> QED
    BY <1>1, <2>1, <2>2, <2>3, <2>4, Zenon DEF GraphOK, IsGraph, Holds
<1>4. /\ Holds(rel[r].sec, i)
      /\ secs[rel[r].sec].lo + rel[r].off = base[i] + job.rels[r].off
      /\ (r \in kept) <=> (secs[rel[r].sec].alloc /\ secs[rel[r].sec].size > 0)
  BY <1>1, <1>3, Zenon DEF RelocsOK, KeptOK
<1> HIDE DEF i
<1>5. rel[r].sec = Home(i) /\ (secs[Home(i)].alloc <=> Attr[NameOf(i)].alloc)
  BY <1>1, <1>2, <1>3, <1>4, HomeIs, Zenon
<1>6. (r \in kept) <=> (InImage(i) /\ Kept(i))
  BY <1>2, <1>4, <1>5, Zenon DEF InImage, Kept
<1> USE DEF i
<1> QED
  BY <1>3, <1>4, <1>5, <1>6, Zenon

(* What is collected is decided input section by input section.            *)
LEMMA NeededInputsStay == LinkInv => CollectsByInputSection
<1> SUFFICES ASSUME LinkInv, pc = "laid", AllMarked, Interior,
                    \A n \in Name : Attr[n].root # "exact",
                    NEW i \in 1 .. N, SizeOf(i) > 0, InImage(i)
             PROVE  Kept(i) <=> i \in NeededInputs
  BY Zenon DEF CollectsByInputSection
<1>1. pc # "merge" /\ Pruned /\ Collected
  BY Zenon DEF LinkInv, Pruned
<1>2. /\ Home(i) \in DOMAIN secs /\ Holds(Home(i), i)
      /\ secs[Home(i)].alloc <=> Attr[NameOf(i)].alloc
  BY <1>1, HomeIs, Zenon DEF Inputs
<1>3. Attr[NameOf(i)].alloc
  BY Zenon DEF InImage
<1> QED
  BY <1>1, <1>2, <1>3, Zenon DEF Collected, NoExact, Kept, Inputs

-----------------------------------------------------------------------------
(* Reading the inputs.                                                     *)

(* Before the first input section there is nothing to be wrong.            *)
LEMMA LinkStarts == Init => LinkInv
<1> SUFFICES ASSUME Init PROVE LinkInv
  BY Zenon
<1>1. /\ IsJob(job) /\ base = << >> /\ secs = << >> /\ entry = job.entry /\ MarkStart
      /\ pc = "merge" /\ status = "ok"
  BY Zenon DEF Init
<1>2. InputsOK
  <2>1. N \in Nat
    BY <1>1, JobIs, Zenon
  <2> QED
    BY <1>1, <2>1, SMTT(30), SMTT(60) DEF InputsOK
<1>3. MergedOK
  BY <1>1 DEF MergedOK
<1>4. MarkOK
  BY <1>1, Zenon DEF MarkOK, QueueSuffices
<1> QED
  BY <1>1, <1>2, <1>3, <1>4, SMTT(30), SMTT(60) DEF LinkInv, MergedSymbols, GraphOK, Pieces, SectionsOK, SymbolsOK, RelocsOK,
     KeptOK, Apart, FirstMarks, InOrder, Collected, Pruned, Cut, PruneOK

(* The section that MakeSection makes.                                     *)
LEMMA MakeSectionIs ==
  ASSUME NEW n \in Name, NEW lo \in Nat, NEW hi \in Nat, lo <= hi, NEW roots \in {ByName, BySuffix}
  PROVE  /\ MakeSection(n, lo, hi, roots) \in Section
         /\ MakeSection(n, lo, hi, roots).name = n
         /\ MakeSection(n, lo, hi, roots).lo = lo
         /\ MakeSection(n, lo, hi, roots).hi = hi
         /\ MakeSection(n, lo, hi, roots).size = hi - lo
         /\ MakeSection(n, lo, hi, roots).alloc <=> Attr[n].alloc
         /\ Attr[n].root # "exact" =>
              (MakeSection(n, lo, hi, roots).root <=> Attr[n].alloc /\ Attr[n].root = "family")
<1> DEFINE root == Attr[n].alloc /\ Attr[n].root \in roots
           x == MakeSection(n, lo, hi, roots)
<1>1. x = [name |-> n, lo |-> lo, hi |-> hi, size |-> hi - lo, alloc |-> Attr[n].alloc, root |-> root]
  BY Zenon DEF MakeSection
<1>2. root \in BOOLEAN /\ (Attr[n].root # "exact" => (root <=> Attr[n].alloc /\ Attr[n].root = "family"))
  BY AttrIs, Zenon DEF ByName, BySuffix
<1>3. Attr[n].alloc \in BOOLEAN /\ hi - lo \in Nat
  BY AttrIs, SMTT(30), SMTT(60)
<1> HIDE DEF root, x
<1>4. x \in Section
  BY <1>1, <1>2, <1>3, Zenon DEF Section
<1>5. x.name = n /\ x.lo = lo /\ x.hi = hi /\ x.size = hi - lo /\ x.alloc = Attr[n].alloc /\ x.root = root
  BY <1>1, Zenon
<1> QED
  BY <1>2, <1>4, <1>5, Zenon DEF x

(* align_up_size never goes back.                                          *)
LEMMA AlignUpIs ==
  ASSUME NEW x \in Nat, NEW a \in Nat, a > 0
  PROVE  AlignUp(x, a) \in Nat /\ AlignUp(x, a) >= x
<1> DEFINE q == (x + a - 1) \div a
<1>1. q \in Nat /\ x + a - 1 < (q + 1) * a
  OBVIOUS
<1>2. q * a \in Nat /\ (q + 1) * a = q * a + a
  BY <1>1
<1> QED
  BY <1>1, <1>2 DEF AlignUp

(* The sections while the inputs are read.                                 *)
LEMMA MergedSectionIs ==
  ASSUME InputsOK, MergedOK, pc \in {"merge", "split"}, NEW s \in DOMAIN secs
  PROVE  /\ secs[s].name \in Name /\ secs[s].lo = 0 /\ secs[s].hi \in Nat
         /\ secs[s].size = secs[s].hi /\ SectionOK(s)
<1>1. secs[s] \in Section
  BY SMTT(30), SMTT(60) DEF InputsOK
<1>2. secs[s].name \in Name /\ secs[s].hi \in Nat
  BY <1>1, Zenon DEF Section
<1>3. secs[s] = MakeSection(secs[s].name, 0, secs[s].hi, ByName)
  BY Zenon DEF MergedOK
<1> DEFINE n == secs[s].name
           h == secs[s].hi
           x == MakeSection(n, 0, h, ByName)
<1>4. n \in Name /\ h \in Nat /\ 0 \in Nat /\ 0 <= h
  BY <1>2
<1>5. /\ x.lo = 0 /\ x.size = h - 0
      /\ x.alloc <=> Attr[n].alloc
      /\ Attr[n].root # "exact" => (x.root <=> Attr[n].alloc /\ Attr[n].root = "family")
  <2> HIDE DEF n, h
  <2>1. x.lo = 0 /\ x.size = h - 0
    BY <1>4, MakeSectionIs
  <2> QED
    BY <1>4, <2>1, MakeSectionIs, Zenon
<1>6. /\ secs[s].lo = 0 /\ secs[s].size = h - 0
      /\ secs[s].alloc <=> Attr[n].alloc
      /\ Attr[n].root # "exact" => (secs[s].root <=> Attr[n].alloc /\ Attr[n].root = "family")
  BY <1>3, <1>5, Zenon
<1>7. secs[s].size = h /\ secs[s].hi = secs[s].lo + secs[s].size
  BY <1>2, <1>6
<1> QED
  BY <1>2, <1>6, <1>7, Zenon DEF SectionOK

(* Where the next input section goes.                                      *)
MergeAt ==
  IF Merged(NameOf(Len(base) + 1)) = {} THEN 0
  ELSE AlignUp(secs[MergedIndex(NameOf(Len(base) + 1))].hi, Attr[NameOf(Len(base) + 1)].align)

(* The next input section starts after all that its section holds so far.  *)
LEMMA MergeAtIs ==
  ASSUME InputsOK, MergedOK, pc = "merge", Len(base) + 1 <= N
  PROVE  /\ MergeAt \in Nat
         /\ \A s \in DOMAIN secs : secs[s].name = NameOf(Len(base) + 1) => secs[s].hi <= MergeAt
         /\ Merged(NameOf(Len(base) + 1)) # {} =>
              /\ MergedIndex(NameOf(Len(base) + 1)) \in DOMAIN secs
              /\ secs[MergedIndex(NameOf(Len(base) + 1))].name = NameOf(Len(base) + 1)
<1> DEFINE n == NameOf(Len(base) + 1)
           m == MergedIndex(n)
<1>1. n \in Name
  <2>1. Len(base) + 1 \in 1 .. N
    BY JobIs, SMTT(30), SMTT(60) DEF InputsOK
  <2> QED
    BY <2>1, JobIs, Zenon DEF InputsOK
<1>2. CASE Merged(n) = {}
  <2>1. \A s \in DOMAIN secs : secs[s].name # n
    BY <1>2, Zenon DEF Merged
  <2>2. MergeAt = 0
    BY <1>2, Zenon DEF MergeAt
  <2> QED
    BY <1>2, <2>1, <2>2, Zenon
<1>3. CASE Merged(n) # {}
  <2>1. m \in Merged(n)
    BY <1>3, Zenon DEF MergedIndex
  <2>2. m \in DOMAIN secs /\ secs[m].name = n
    BY <2>1, Zenon DEF Merged
  <2>3. secs[m].hi \in Nat /\ Attr[n].align \in Nat /\ Attr[n].align > 0
    BY <1>1, <2>2, MergedSectionIs, AttrIs, Zenon
  <2>4. MergeAt = AlignUp(secs[m].hi, Attr[n].align)
    BY <1>3, Zenon DEF MergeAt
  <2>5. MergeAt \in Nat /\ MergeAt >= secs[m].hi
    BY <2>3, <2>4, AlignUpIs, Zenon
  <2>6. \A s \in DOMAIN secs : secs[s].name = n => s = m
    BY <2>2, Zenon DEF MergedOK
  <2> HIDE DEF m
  <2>7. \A s \in DOMAIN secs : secs[s].name = n => secs[s].hi <= MergeAt
    BY <2>3, <2>5, <2>6, SMTT(30), SMTT(60)
  <2> QED
    BY <2>2, <2>5, <2>7, Zenon DEF m
<1> QED
  BY <1>2, <1>3, Zenon

(* A section of the output before the split starts at byte 0.              *)
LEMMA NewSectionIs ==
  ASSUME NEW n \in Name, NEW hi \in Nat
  PROVE  /\ MakeSection(n, 0, hi, ByName) \in Section
         /\ MakeSection(n, 0, hi, ByName).name = n /\ MakeSection(n, 0, hi, ByName).hi = hi
<1>1. 0 <= hi /\ 0 \in Nat
  OBVIOUS
<1>2. ByName \in {ByName, BySuffix}
  BY Zenon
<1> QED
  BY <1>1, <1>2, MakeSectionIs, SMTT(30), SMTT(60)

(* One input section of process_input_data: the sections of a name stay    *)
(* one, and those before it stay where they are.                           *)
LEMMA MergeSectionStep == LinkInv /\ MergeSection => LinkInv'
<1> SUFFICES ASSUME LinkInv, MergeSection PROVE LinkInv'
  BY Zenon
<1> DEFINE i == Len(base) + 1
           n == NameOf(i)
           new == MakeSection(n, 0, MergeAt + SizeOf(i), ByName)
<1>1. InputsOK /\ MergedOK /\ MarkOK
  BY Zenon DEF LinkInv
<1>2. /\ pc = "merge" /\ pc' = "merge" /\ i <= N
      /\ base' = Append(base, MergeAt)
      /\ secs' = (IF Merged(n) = {} THEN Append(secs, new) ELSE [secs EXCEPT ![MergedIndex(n)] = new])
      /\ UNCHANGED <<job, sym, rel, kept, entry, ri, live, queue, head, todo, status>>
  BY Zenon DEF MergeSection, Goto, markVars, MergeAt, NameOf, SizeOf
<1>3. N' = N /\ (\A j : NameOf(j)' = NameOf(j) /\ SizeOf(j)' = SizeOf(j))
  BY <1>2, Zenon DEF N, NameOf, SizeOf
<1>4. /\ N \in Nat /\ Len(base) \in Nat /\ base \in Seq(Nat) /\ secs \in Seq(Section)
      /\ \A j \in 1 .. N : NameOf(j) \in Name /\ SizeOf(j) \in Nat
  BY <1>1, JobIs DEF InputsOK
<1>0. \A j \in 1 .. Len(base) : base[j] \in Nat /\ SizeOf(j) \in Nat
  <2> SUFFICES ASSUME NEW j \in 1 .. Len(base) PROVE base[j] \in Nat /\ SizeOf(j) \in Nat
    BY Zenon
  <2>1. base[j] \in Nat
    BY <1>4
  <2>2. Len(base) + 1 <= N
    BY <1>2, Zenon
  <2>3. j \in 1 .. N
    BY <1>4, <2>2
  <2> QED
    BY <1>4, <2>1, <2>3, Zenon
<1>5. i \in 1 .. N /\ n \in Name /\ SizeOf(i) \in Nat
  <2>1. i \in 1 .. N
    BY <1>2, <1>4
  <2> QED
    BY <1>4, <2>1, Zenon
<1>6. /\ MergeAt \in Nat
      /\ \A s \in DOMAIN secs : secs[s].name = n => secs[s].hi <= MergeAt
      /\ Merged(n) # {} => MergedIndex(n) \in DOMAIN secs /\ secs[MergedIndex(n)].name = n
  BY <1>1, <1>2, MergeAtIs, Zenon
<1>7. /\ new \in Section /\ new.name = n /\ new.hi = MergeAt + SizeOf(i)
      /\ new = MakeSection(new.name, 0, new.hi, ByName)
  <2>1. MergeAt + SizeOf(i) \in Nat /\ 0 <= MergeAt + SizeOf(i) /\ 0 \in Nat
    BY <1>5, <1>6, SMTT(30), SMTT(60)
  <2>2. new \in Section /\ new.name = n /\ new.hi = MergeAt + SizeOf(i)
    <3>2. n \in Name
      BY <1>5, Zenon
    <3> DEFINE hi == MergeAt + SizeOf(i)
    <3>3. hi \in Nat
      BY <2>1, Zenon
    <3> HIDE DEF n, i, hi
    <3>4. /\ MakeSection(n, 0, hi, ByName) \in Section
          /\ MakeSection(n, 0, hi, ByName).name = n /\ MakeSection(n, 0, hi, ByName).hi = hi
      BY <3>2, <3>3, NewSectionIs, Zenon
    <3> QED
      BY <3>4, Zenon DEF hi
  <2> QED
    BY <2>2, Zenon
<1> HIDE DEF new, n
<1>8. /\ secs' \in Seq(Section)
      /\ \E s \in DOMAIN secs' : secs'[s] = new
      /\ \A s \in DOMAIN secs' :
           secs'[s] = new \/ (s \in DOMAIN secs /\ secs'[s] = secs[s] /\ secs[s].name # n)
      /\ \A s, t \in DOMAIN secs' : secs'[s] = new /\ secs'[t] = new => s = t
      /\ \A s \in DOMAIN secs : secs[s].name # n => s \in DOMAIN secs' /\ secs'[s] = secs[s]
  <2>1. CASE Merged(n) = {}
    <3>1. secs' = Append(secs, new) /\ \A s \in DOMAIN secs : secs[s].name # n
      BY <1>2, <2>1, Zenon DEF Merged
    <3>2. /\ secs' \in Seq(Section) /\ DOMAIN secs' = DOMAIN secs \cup {Len(secs) + 1}
          /\ secs'[Len(secs) + 1] = new /\ \A s \in DOMAIN secs : secs'[s] = secs[s]
      BY <1>4, <1>7, <3>1, SMTT(30), SMTT(60)
    <3> QED
      BY <1>7, <3>1, <3>2, Zenon
  <2>2. CASE Merged(n) # {}
    <3>1. secs' = [secs EXCEPT ![MergedIndex(n)] = new]
      BY <1>2, <2>2, Zenon
    <3>2. MergedIndex(n) \in DOMAIN secs /\ secs[MergedIndex(n)].name = n
      BY <1>6, <2>2, Zenon
    <3>3. \A s \in DOMAIN secs : secs[s].name = n => s = MergedIndex(n)
      BY <1>1, <1>2, <3>2, Zenon DEF MergedOK
    <3>4. /\ secs' \in Seq(Section) /\ DOMAIN secs' = DOMAIN secs
          /\ secs'[MergedIndex(n)] = new /\ \A s \in DOMAIN secs : s # MergedIndex(n) => secs'[s] = secs[s]
      BY <1>4, <1>7, <3>1, <3>2, SMTT(30), SMTT(60)
    <3> QED
      BY <1>7, <3>2, <3>3, <3>4, Zenon
  <2> QED
    BY <2>1, <2>2, Zenon
<1>9. \A j \in 1 .. Len(base) : NameOf(j) = n => base[j] + SizeOf(j) <= MergeAt
  <2> SUFFICES ASSUME NEW j \in 1 .. Len(base), NameOf(j) = n PROVE base[j] + SizeOf(j) <= MergeAt
    BY Zenon
  <2>1. PICK s \in DOMAIN secs : secs[s].name = n /\ base[j] + SizeOf(j) <= secs[s].hi
    BY <1>1, <1>2, Zenon DEF MergedOK
  <2>2. secs[s].hi <= MergeAt /\ secs[s].hi \in Nat
    BY <1>1, <1>2, <1>6, <2>1, MergedSectionIs, Zenon
  <2>3. base[j] \in Nat /\ SizeOf(j) \in Nat
    BY <1>0, Zenon
  <2> QED
    BY <1>6, <2>1, <2>2, <2>3, SMTT(30), SMTT(60)
<1>10. /\ base' \in Seq(Nat) /\ Len(base') = i /\ base'[i] = MergeAt
       /\ \A j \in 1 .. Len(base) : base'[j] = base[j]
       /\ \A j \in 1 .. i : j = i \/ j \in 1 .. Len(base)
  <2>1. base' = Append(base, MergeAt) /\ base \in Seq(Nat) /\ MergeAt \in Nat
    BY <1>2, <1>4, <1>6, Zenon
  <2> QED
    BY <2>1
<1>11. InputsOK'
  <2>1. ASSUME NEW j \in 1 .. i, NEW k \in 1 .. i, j < k, NameOf(j) = NameOf(k)
        PROVE  base'[j] + SizeOf(j) <= base'[k]
    <3>1. j \in 1 .. Len(base) /\ base'[j] = base[j]
      BY <1>4, <1>10, <2>1, SMTT(30), SMTT(60)
    <3>2. CASE k = i
      BY <1>9, <1>10, <2>1, <3>1, <3>2, Zenon DEF n
    <3>3. CASE k \in 1 .. Len(base)
      BY <1>1, <1>10, <2>1, <3>1, <3>3, Zenon DEF InputsOK
    <3> QED
      BY <1>10, <3>2, <3>3, Zenon
  <2>2. IsJob(job)' /\ entry' = job'.entry
    BY <1>1, <1>2, Zenon DEF InputsOK, IsJob
  <2>3. Len(base') <= N'
    BY <1>2, <1>3, <1>10, Zenon
  <2> QED
    BY <1>2, <1>3, <1>8, <1>10, <2>1, <2>2, <2>3, Zenon DEF InputsOK
<1>12. MergedOK'
  <2>1. ASSUME NEW s \in DOMAIN secs', NEW t \in DOMAIN secs', secs'[s].name = secs'[t].name
        PROVE  s = t
    <3>1. CASE secs'[s] = new \/ secs'[t] = new
      BY <1>7, <1>8, <2>1, <3>1, Zenon
    <3>2. CASE secs'[s] # new /\ secs'[t] # new
      BY <1>1, <1>2, <1>8, <2>1, <3>2, ZenonT(30), ZenonT(60) DEF MergedOK
    <3> QED
      BY <3>1, <3>2, Zenon
  <2>2. ASSUME NEW s \in DOMAIN secs'
        PROVE  secs'[s] = MakeSection(secs'[s].name, 0, secs'[s].hi, ByName)
    BY <1>1, <1>2, <1>7, <1>8, Zenon DEF MergedOK
  <2>3. ASSUME NEW j \in 1 .. i
        PROVE  \E s \in DOMAIN secs' : secs'[s].name = NameOf(j) /\ base'[j] + SizeOf(j) <= secs'[s].hi
    <3>1. PICK s \in DOMAIN secs' : secs'[s] = new
      BY <1>8, Zenon
    <3>2. CASE j = i
      <4>1. secs'[s].name = NameOf(j) /\ base'[j] + SizeOf(j) = secs'[s].hi
        BY <1>7, <1>10, <3>1, <3>2, Zenon DEF n
      <4>2. secs'[s].hi \in Nat
        BY <1>5, <1>6, <1>7, <3>1, SMTT(30), SMTT(60)
      <4>3. base'[j] + SizeOf(j) <= secs'[s].hi
        BY <4>1, <4>2
      <4> QED
        BY <4>1, <4>3, Zenon
    <3>3. CASE j \in 1 .. Len(base) /\ NameOf(j) = n
      <4>1. base[j] + SizeOf(j) <= MergeAt /\ base'[j] = base[j]
        BY <1>9, <1>10, <3>3, Zenon
      <4>2. base[j] \in Nat /\ SizeOf(j) \in Nat
        BY <1>0, <3>3, Zenon
      <4>3. secs'[s].name = NameOf(j) /\ secs'[s].hi = MergeAt + SizeOf(i)
        BY <1>7, <3>1, <3>3, Zenon
      <4>4. base'[j] + SizeOf(j) <= secs'[s].hi
        <5> HIDE DEF i
        <5> QED
          BY <1>5, <1>6, <4>1, <4>2, <4>3, SMTT(30), SMTT(60)
      <4> QED
        BY <4>3, <4>4, Zenon
    <3>4. CASE j \in 1 .. Len(base) /\ NameOf(j) # n
      <4>1. PICK t \in DOMAIN secs : secs[t].name = NameOf(j) /\ base[j] + SizeOf(j) <= secs[t].hi
        BY <1>1, <1>2, <3>4, Zenon DEF MergedOK
      <4> QED
        BY <1>8, <1>10, <3>4, <4>1, Zenon
    <3> QED
      BY <1>10, <3>2, <3>3, <3>4, Zenon
  <2> QED
    BY <1>3, <1>10, <2>1, <2>2, <2>3, Zenon DEF MergedOK, MakeSection
<1>13. MarkOK'
  BY <1>1, <1>2, Zenon DEF MarkOK, MarkStart, QueueSuffices
<1> QED
  BY <1>2, <1>11, <1>12, <1>13, Zenon DEF LinkInv, MergedSymbols, GraphOK, Pieces, SectionsOK, SymbolsOK, RelocsOK,
     KeptOK, Apart, FirstMarks, InOrder, Collected, Pruned, Cut, PruneOK

(* A function on 1 .. n is a sequence.                                     *)
LEMMA SequenceIs ==
  ASSUME NEW T, NEW n \in Nat, NEW f \in [1 .. n -> T]
  PROVE  f \in Seq(T) /\ Len(f) = n /\ DOMAIN f = 1 .. n
OBVIOUS

(* The section that an input was merged into.                              *)
LEMMA MergedHome ==
  ASSUME InputsOK, MergedOK, pc \in {"merge", "split"}, NEW i \in 1 .. Len(base)
  PROVE  /\ MergedIndex(NameOf(i)) \in DOMAIN secs
         /\ secs[MergedIndex(NameOf(i))].name = NameOf(i)
         /\ base[i] + SizeOf(i) <= secs[MergedIndex(NameOf(i))].hi
         /\ \A t \in DOMAIN secs : secs[t].name = NameOf(i) => t = MergedIndex(NameOf(i))
<1>1. PICK s \in DOMAIN secs : secs[s].name = NameOf(i) /\ base[i] + SizeOf(i) <= secs[s].hi
  BY Zenon DEF MergedOK
<1>2. MergedIndex(NameOf(i)) \in Merged(NameOf(i))
  BY <1>1, Zenon DEF Merged, MergedIndex
<1>3. MergedIndex(NameOf(i)) \in DOMAIN secs /\ secs[MergedIndex(NameOf(i))].name = NameOf(i)
  BY <1>2, Zenon DEF Merged
<1>4. \A t \in DOMAIN secs : secs[t].name = NameOf(i) => t = MergedIndex(NameOf(i))
  BY <1>3, Zenon DEF MergedOK
<1> QED
  BY <1>1, <1>3, <1>4, Zenon

(* Before the cuts an input section is in the section of its name only.    *)
LEMMA MergedHolds ==
  ASSUME InputsOK, MergedOK, pc \in {"merge", "split"}, NEW i \in 1 .. Len(base), SizeOf(i) > 0,
         NEW s \in DOMAIN secs
  PROVE  Holds(s, i) <=> secs[s].name = NameOf(i)
<1>1. secs[s].lo = 0
  BY MergedSectionIs, Zenon
<1>2. base[i] \in Nat /\ 0 <= base[i]
  BY SMTT(30), SMTT(60) DEF InputsOK
<1>3. secs[s].name = NameOf(i) => base[i] + SizeOf(i) <= secs[s].hi
  BY MergedHome, Zenon
<1> QED
  BY <1>1, <1>2, <1>3, Zenon DEF Holds

(* A relocation record.                                                    *)
LEMMA RelocRecordIs ==
  ASSUME NEW a \in Nat \ {0}, NEW b \in Nat, NEW c \in Nat
  PROVE  /\ [sec |-> a, off |-> b, sym |-> c] \in RelocRecord
         /\ [sec |-> a, off |-> b, sym |-> c].sec = a
         /\ [sec |-> a, off |-> b, sym |-> c].off = b
         /\ [sec |-> a, off |-> b, sym |-> c].sym = c
BY SMTT(30), SMTT(60) DEF RelocRecord

(* The symbols and relocations of process_input_data name the section and  *)
(* the offset at which their input section was put.                        *)
LEMMA MergeEndStep == LinkInv /\ MergeEnd => LinkInv'
<1> SUFFICES ASSUME LinkInv, MergeEnd PROVE LinkInv'
  BY Zenon
<1> DEFINE M == N + Len(job.syms)
           Home0(i) == MergedIndex(NameOf(i))
<1>1. InputsOK /\ MergedOK /\ MarkOK
  BY Zenon DEF LinkInv
<1>2. /\ pc = "merge" /\ pc' = "split" /\ Len(base) = N
      /\ kept' = DOMAIN rel'
      /\ UNCHANGED <<job, base, secs, entry, ri, live, queue, head, todo, status>>
  BY Zenon DEF MergeEnd, Goto, markVars
<1>3. sym' = [k \in 1 .. M |->
                IF Defined(k)
                THEN [sec |-> Home0(SymbolInput(k)), value |-> base[SymbolInput(k)] + SymbolOffset(k)]
                ELSE [sec |-> 0, value |-> 0]]
  BY Zenon DEF MergeEnd
<1>4. rel' = [r \in DOMAIN job.rels |->
                [sec |-> Home0(job.rels[r].isec),
                 off |-> base[job.rels[r].isec] + job.rels[r].off, sym |-> job.rels[r].sym]]
  BY Zenon DEF MergeEnd
<1>5. /\ IsJob(job) /\ N \in Nat /\ M \in Nat /\ secs \in Seq(Section) /\ base \in Seq(Nat)
      /\ Len(job.rels) \in Nat /\ DOMAIN job.rels = 1 .. Len(job.rels)
      /\ \A i \in 1 .. N : NameOf(i) \in Name /\ SizeOf(i) \in Nat /\ base[i] \in Nat
  <2>1. IsJob(job) /\ base \in Seq(Nat) /\ secs \in Seq(Section)
    BY <1>1, Zenon DEF InputsOK
  <2>2. \A i \in 1 .. N : base[i] \in Nat
    BY <1>2, <2>1, SMTT(30), SMTT(60)
  <2>3. /\ N \in Nat /\ Len(job.syms) \in Nat /\ Len(job.rels) \in Nat
        /\ DOMAIN job.rels = 1 .. Len(job.rels)
        /\ \A i \in 1 .. N : NameOf(i) \in Name /\ SizeOf(i) \in Nat
    BY <2>1, JobIs, Zenon
  <2>4. M \in Nat
    BY <2>3
  <2> QED
    BY <2>1, <2>2, <2>3, <2>4, Zenon
<1>6. \A i \in 1 .. N :
        /\ Home0(i) \in DOMAIN secs /\ secs[Home0(i)].name = NameOf(i)
        /\ SizeOf(i) > 0 => \A s \in DOMAIN secs : Holds(s, i) <=> s = Home0(i)
  <2> SUFFICES ASSUME NEW i \in 1 .. N
               PROVE  /\ Home0(i) \in DOMAIN secs /\ secs[Home0(i)].name = NameOf(i)
                      /\ SizeOf(i) > 0 => \A s \in DOMAIN secs : Holds(s, i) <=> s = Home0(i)
    BY Zenon
  <2>1. i \in 1 .. Len(base) /\ pc \in {"merge", "split"}
    BY <1>2, Zenon
  <2>2. /\ Home0(i) \in DOMAIN secs /\ secs[Home0(i)].name = NameOf(i)
        /\ \A t \in DOMAIN secs : secs[t].name = NameOf(i) => t = Home0(i)
    BY <1>1, <2>1, MergedHome, Zenon
  <2>3. SizeOf(i) > 0 => \A s \in DOMAIN secs : Holds(s, i) <=> secs[s].name = NameOf(i)
    BY <1>1, <2>1, MergedHolds, Zenon
  <2> QED
    BY <2>2, <2>3, Zenon
<1>7. DOMAIN secs = 1 .. Len(secs) /\ Len(secs) \in Nat
  BY <1>5
<1>8. \A s \in DOMAIN secs : secs[s].lo = 0 /\ SectionOK(s)
  BY <1>1, <1>2, MergedSectionIs, Zenon
<1>9. \A s, i : Holds(s, i)' <=> Holds(s, i)
  BY <1>2, SameHolds, Zenon
<1>10. \A k \in 1 .. M :
         /\ SymbolInput(k) \in 0 .. N /\ SymbolOffset(k) \in Nat
         /\ Defined(k) => SymbolInput(k) \in 1 .. N
  <2>1. \A k \in 1 .. M : SymbolInput(k) \in 0 .. N /\ SymbolOffset(k) \in Nat
    BY <1>5, SymbolIs
  <2> QED
    BY <1>5, <2>1, SMTT(30), SMTT(60) DEF Defined
<1> HIDE DEF M, Home0
<1>11. \A k \in 1 .. M :
         /\ Defined(k) =>
              /\ sym'[k].sec = Home0(SymbolInput(k))
              /\ sym'[k].value = base[SymbolInput(k)] + SymbolOffset(k)
              /\ sym'[k].sec \in DOMAIN secs /\ sym'[k] \in SymbolRecord
         /\ ~Defined(k) => sym'[k].sec = 0 /\ sym'[k] \in SymbolRecord
  <2> SUFFICES ASSUME NEW k \in 1 .. M
               PROVE  /\ Defined(k) =>
                           /\ sym'[k].sec = Home0(SymbolInput(k))
                           /\ sym'[k].value = base[SymbolInput(k)] + SymbolOffset(k)
                           /\ sym'[k].sec \in DOMAIN secs /\ sym'[k] \in SymbolRecord
                      /\ ~Defined(k) => sym'[k].sec = 0 /\ sym'[k] \in SymbolRecord
    BY Zenon
  <2>1. CASE Defined(k)
    <3>1. sym'[k] = [sec |-> Home0(SymbolInput(k)), value |-> base[SymbolInput(k)] + SymbolOffset(k)]
      BY <1>3, <2>1, Zenon
    <3>2. SymbolInput(k) \in 1 .. N /\ SymbolOffset(k) \in Nat
      BY <1>10, <2>1, Zenon
    <3>3. Home0(SymbolInput(k)) \in DOMAIN secs /\ base[SymbolInput(k)] \in Nat
      BY <1>5, <1>6, <3>2, Zenon
    <3> QED
      BY <1>7, <2>1, <3>1, <3>2, <3>3, SMTT(30), SMTT(60) DEF SymbolRecord
  <2>2. CASE ~Defined(k)
    <3>1. sym'[k] = [sec |-> 0, value |-> 0]
      BY <1>3, <2>2, Zenon
    <3> QED
      BY <2>2, <3>1 DEF SymbolRecord
  <2> QED
    BY <2>1, <2>2, Zenon
<1>12. \A r \in DOMAIN job.rels :
         /\ rel'[r].sec = Home0(job.rels[r].isec) /\ rel'[r].sym = job.rels[r].sym
         /\ rel'[r].off = base[job.rels[r].isec] + job.rels[r].off
         /\ rel'[r].sec \in DOMAIN secs /\ rel'[r] \in RelocRecord
         /\ rel'[r].sym \in 1 .. M /\ job.rels[r].isec \in 1 .. N /\ SizeOf(job.rels[r].isec) > 0
  <2> SUFFICES ASSUME NEW r \in DOMAIN job.rels
               PROVE  /\ rel'[r].sec = Home0(job.rels[r].isec) /\ rel'[r].sym = job.rels[r].sym
                      /\ rel'[r].off = base[job.rels[r].isec] + job.rels[r].off
                      /\ rel'[r].sec \in DOMAIN secs /\ rel'[r] \in RelocRecord
                      /\ rel'[r].sym \in 1 .. M /\ job.rels[r].isec \in 1 .. N
                      /\ SizeOf(job.rels[r].isec) > 0
    BY Zenon
  <2>1. /\ job.rels[r].isec \in 1 .. N /\ job.rels[r].off \in Nat /\ job.rels[r].sym \in 1 .. M
        /\ job.rels[r].off < SizeOf(job.rels[r].isec)
    BY <1>5, JobIs, Zenon DEF M
  <2>2. rel'[r] = [sec |-> Home0(job.rels[r].isec),
                   off |-> base[job.rels[r].isec] + job.rels[r].off, sym |-> job.rels[r].sym]
    BY <1>4, Zenon
  <2>3. Home0(job.rels[r].isec) \in DOMAIN secs /\ base[job.rels[r].isec] \in Nat /\ SizeOf(job.rels[r].isec) \in Nat
    BY <1>5, <1>6, <2>1, Zenon
  <2>4. Home0(job.rels[r].isec) \in Nat \ {0}
    BY <1>7, <2>3, SMTT(30), SMTT(60)
  <2>5. base[job.rels[r].isec] + job.rels[r].off \in Nat /\ SizeOf(job.rels[r].isec) > 0
    BY <2>1, <2>3, SMTT(30), SMTT(60)
  <2>6. job.rels[r].sym \in Nat
    BY <2>1
  <2>7. /\ rel'[r] \in RelocRecord /\ rel'[r].sec = Home0(job.rels[r].isec)
        /\ rel'[r].off = base[job.rels[r].isec] + job.rels[r].off /\ rel'[r].sym = job.rels[r].sym
    <3> DEFINE a == Home0(job.rels[r].isec)
               b == base[job.rels[r].isec] + job.rels[r].off
               c == job.rels[r].sym
    <3>1. a \in Nat \ {0} /\ b \in Nat /\ c \in Nat /\ rel'[r] = [sec |-> a, off |-> b, sym |-> c]
      BY <2>2, <2>4, <2>5, <2>6, Zenon
    <3> HIDE DEF a, b, c
    <3>2. rel'[r] \in RelocRecord /\ rel'[r].sec = a /\ rel'[r].off = b /\ rel'[r].sym = c
      BY <3>1, RelocRecordIs, SMTT(30), SMTT(60)
    <3> QED
      BY <3>2, Zenon DEF a, b, c
  <2> QED
    BY <2>1, <2>3, <2>5, <2>7, Zenon
<1>13. IsGraph(secs, sym, rel, entry)' /\ Len(sym') = M /\ Len(rel') = Len(job.rels)
  <2>1. sym' \in Seq(SymbolRecord) /\ Len(sym') = M /\ DOMAIN sym' = 1 .. M
    <3>1. sym' \in [1 .. M -> SymbolRecord]
      BY <1>3, <1>11, SMTT(30), SMTT(60)
    <3> QED
      BY <1>5, <3>1, SequenceIs, Zenon DEF M
  <2>2. rel' \in Seq(RelocRecord) /\ Len(rel') = Len(job.rels) /\ DOMAIN rel' = DOMAIN job.rels
    <3>1. rel' \in [1 .. Len(job.rels) -> RelocRecord]
      BY <1>4, <1>5, <1>12, ZenonT(30), ZenonT(60)
    <3> QED
      BY <1>5, <3>1, SequenceIs, Zenon
  <2>3. \A k \in DOMAIN sym' : sym'[k].sec \in 0 .. Len(secs)
    BY <1>7, <1>11, <2>1, SMTT(30), SMTT(60)
  <2>4. \A r \in DOMAIN rel' : rel'[r].sec \in 1 .. Len(secs) /\ rel'[r].sym \in 0 .. Len(sym')
    BY <1>5, <1>7, <1>12, <2>1, <2>2, SMTT(30), SMTT(60) DEF M
  <2>5. entry \in 0 .. Len(sym')
    BY <1>1, <1>5, <2>1, JobIs, SMTT(30), SMTT(60) DEF M, InputsOK
  <2> QED
    BY <1>2, <1>5, <2>1, <2>2, <2>3, <2>4, <2>5, Zenon DEF IsGraph
<1>14. InputsOK' /\ MergedOK' /\ MarkOK'
  <2>1. InputsOK'
    BY <1>1, <1>2, SameJob, Zenon DEF InputsOK, IsJob
  <2>2. MergedOK'
    BY <1>1, <1>2, SameJob, Zenon DEF MergedOK, MakeSection
  <2>3. MarkOK'
    BY <1>1, <1>2, Zenon DEF MarkOK, MarkStart, QueueSuffices
  <2> QED
    BY <2>1, <2>2, <2>3, Zenon
<1>15. DOMAIN rel' = DOMAIN job.rels
  BY <1>4, Zenon
<1>16. GraphOK' /\ MergedSymbols'
  <2>1. GraphOK'
    BY <1>2, <1>12, <1>13, <1>15, SameJob, Zenon DEF GraphOK, M
  <2>2. \A k \in 1 .. M : Defined(k) =>
          /\ sym'[k].sec \in DOMAIN secs /\ secs[sym'[k].sec].name = NameOf(SymbolInput(k))
          /\ sym'[k].value = base[SymbolInput(k)] + SymbolOffset(k)
    BY <1>6, <1>10, <1>11, Zenon
  <2> QED
    BY <1>2, <2>1, <2>2, SameJob, Zenon DEF MergedSymbols, M
<1>17. Pieces' /\ SectionsOK'
  <2>1. \A i \in 1 .. N : SizeOf(i) > 0 => \E s \in DOMAIN secs : Holds(s, i)
    BY <1>6, Zenon
  <2>2. \A i \in 1 .. N : \A s, t \in DOMAIN secs : Holds(s, i) /\ Holds(t, i) => s = t
    <3>1. \A i, s : Holds(s, i) => SizeOf(i) > 0
      BY Zenon DEF Holds
    <3> QED
      BY <1>6, <3>1, Zenon
  <2>3. Pieces'
    BY <1>2, <1>9, <2>1, <2>2, SameJob, Zenon DEF Pieces, Inputs
  <2>4. SectionsOK'
    BY <1>2, <1>8, Zenon DEF SectionsOK, SectionOK, Pruned
  <2> QED
    BY <2>3, <2>4, Zenon
<1>18. SymbolsOK'
  <2>1. ASSUME NEW k \in 1 .. M, AtByte(k)
        PROVE  Located(k)'
    <3>1. Defined(k) /\ SymbolOffset(k) < SizeOf(SymbolInput(k))
      BY <2>1, Zenon DEF AtByte
    <3>2. SymbolInput(k) \in 1 .. N /\ SymbolOffset(k) \in Nat
      BY <1>10, <3>1, Zenon
    <3>3. SizeOf(SymbolInput(k)) \in Nat /\ base[SymbolInput(k)] \in Nat
      BY <1>5, <3>2, Zenon
    <3>4. SizeOf(SymbolInput(k)) > 0
      BY <3>1, <3>2, <3>3, SMTT(30), SMTT(60)
    <3>5. /\ sym'[k].sec = Home0(SymbolInput(k)) /\ sym'[k].sec \in DOMAIN secs
          /\ sym'[k].value = base[SymbolInput(k)] + SymbolOffset(k)
      BY <1>11, <3>1, Zenon
    <3>6. Holds(sym'[k].sec, SymbolInput(k)) /\ secs[sym'[k].sec].lo = 0
      BY <1>6, <1>8, <3>2, <3>4, <3>5, Zenon
    <3>7. secs[sym'[k].sec].lo + sym'[k].value = base[SymbolInput(k)] + SymbolOffset(k)
      BY <3>2, <3>3, <3>5, <3>6, SMTT(30), SMTT(60)
    <3>8. Holds(sym[k].sec, SymbolInput(k))'
      BY <1>2, <3>6, SameJob, Zenon DEF Holds
    <3> QED
      BY <1>2, <3>5, <3>7, <3>8, SameJob, Zenon DEF Located
  <2> QED
    BY <1>11, <2>1, SameJob, <1>2, Zenon DEF SymbolsOK, M
<1>19. RelocsOK' /\ KeptOK'
  <2>1. ASSUME NEW r \in DOMAIN job.rels
        PROVE  /\ Holds(rel'[r].sec, job.rels[r].isec)
               /\ secs[rel'[r].sec].lo + rel'[r].off = base[job.rels[r].isec] + job.rels[r].off
    <3>1. Holds(rel'[r].sec, job.rels[r].isec) /\ secs[rel'[r].sec].lo = 0
      BY <1>6, <1>8, <1>12, Zenon
    <3>2. base[job.rels[r].isec] \in Nat /\ job.rels[r].off \in Nat
      BY <1>5, <1>12, JobIs, Zenon
    <3> QED
      BY <1>12, <3>1, <3>2, SMTT(30), SMTT(60)
  <2>2. \A r \in DOMAIN job.rels : Holds(rel[r].sec, job.rels[r].isec)'
    BY <1>2, <2>1, SameJob, Zenon DEF Holds
  <2> QED
    BY <1>2, <1>15, <2>1, <2>2, Zenon DEF RelocsOK, KeptOK, Pruned
<1> QED
  BY <1>2, <1>14, <1>16, <1>17, <1>18, <1>19, Zenon DEF LinkInv, Apart, FirstMarks, InOrder, Collected, Pruned, Cut, PruneOK

-----------------------------------------------------------------------------
(* Renumbering the sections.                                               *)

(* A nonempty set of naturals has a least element.                         *)
LEMMA LeastNat ==
  ASSUME Counting, NEW T \in SUBSET Nat, T # {}
  PROVE  \E x \in T : \A y \in T : x <= y
BY Zenon DEF Counting, LeastExists

(* What sorting by counting predecessors gives: every element once, in the *)
(* order R.                                                                *)
LEMMA SortedIs ==
  ASSUME Counting, NEW S, IsFiniteSet(S), NEW R,
         \A x \in S : <<x, x>> \notin R,
         \A x, y \in S : x # y => <<x, y>> \in R \/ <<y, x>> \in R,
         \A x, y, z \in S : <<x, y>> \in R /\ <<y, z>> \in R => <<x, z>> \in R
  PROVE  /\ Cardinality(S) \in Nat
         /\ Sorted(S, R) \in [1 .. Cardinality(S) -> S]
         /\ \A x \in S : \E i \in 1 .. Cardinality(S) : Sorted(S, R)[i] = x
         /\ \A i, j \in 1 .. Cardinality(S) :
              i < j <=> <<Sorted(S, R)[i], Sorted(S, R)[j]>> \in R
<1>1. SortsByCounting
  BY Zenon DEF Counting
<1>2. IsStrictTotal(S, R)
  BY Zenon DEF IsStrictTotal
<1>3. IsSorted(S, R)
  BY <1>1, <1>2, Zenon DEF SortsByCounting
<1> QED
  BY <1>3, Zenon DEF IsSorted

(* Section t of the next state holds input i.                              *)
HoldsNext(t, i) ==
  /\ secs'[t].name = NameOf(i) /\ SizeOf(i) > 0
  /\ secs'[t].lo <= base[i] /\ base[i] + SizeOf(i) <= secs'[t].hi

(* HoldsNext is Holds in the next state, for inputs that stay.             *)
LEMMA NextHolds ==
  ASSUME job' = job, base' = base
  PROVE  \A t, i : Holds(t, i)' <=> HoldsNext(t, i)
BY SameJob, ZenonT(30), ZenonT(60) DEF Holds, HoldsNext

(* The keys of a sort order the sections weakly.                           *)
IsWeakOrder(before) ==
  /\ \A s, t \in DOMAIN secs : <<s, t>> \in before => <<t, s>> \notin before
  /\ \A s, t, u \in DOMAIN secs : <<s, u>> \in before => <<s, t>> \in before \/ <<t, u>> \in before

(* Breaking the ties of a weak order by position gives a total one.        *)
LEMMA StableIs ==
  ASSUME NEW before, NEW s \in DOMAIN secs, NEW t \in DOMAIN secs
  PROVE  <<s, t>> \in Stable(before) <=> <<s, t>> \in before \/ (<<t, s>> \notin before /\ s < t)
<1>1. <<s, t>> \in Pairs /\ <<s, t>>[1] = s /\ <<s, t>>[2] = t
  BY Zenon DEF Pairs
<1> QED
  BY <1>1, Zenon DEF Stable

(* A stable sort is a permutation that keeps the order of equal keys.      *)
LEMMA ReorderIs ==
  ASSUME Counting, secs \in Seq(Section), NEW before, IsWeakOrder(before)
  PROVE  /\ \A i \in DOMAIN secs : /\ Perm(before)[i] \in DOMAIN secs
                                   /\ Remap(before, Perm(before)[i]) = i
         /\ \A s \in DOMAIN secs : /\ Remap(before, s) \in DOMAIN secs
                                   /\ Perm(before)[Remap(before, s)] = s
         /\ \A i, j \in DOMAIN secs :
              i < j <=> <<Perm(before)[i], Perm(before)[j]>> \in Stable(before)
<1> DEFINE S == DOMAIN secs
           R == Stable(before)
           f == Perm(before)
<1>1. S = 1 .. Len(secs) /\ Len(secs) \in Nat
  OBVIOUS
<1>2. IsFiniteSet(S) /\ Cardinality(S) = Len(secs)
  BY <1>1, Zenon DEF Counting, IntervalsAreFinite
<1>3. \A s, t \in S : <<s, t>> \in R <=> <<s, t>> \in before \/ (<<t, s>> \notin before /\ s < t)
  BY StableIs, Zenon
<1>4. /\ \A s, t \in S : <<s, t>> \in before => <<t, s>> \notin before
      /\ \A s, t, u \in S : <<s, u>> \in before => <<s, t>> \in before \/ <<t, u>> \in before
  BY Zenon DEF IsWeakOrder
<1>5. \A x \in S : ~(x < x)
  BY <1>1
<1>6. \A x, y \in S : x # y => x < y \/ y < x
  BY <1>1
<1>7. \A x, y, z \in S : x < y /\ y < z => x < z
  BY <1>1
<1> HIDE DEF S, R
<1>8. \A x \in S : <<x, x>> \notin R
  BY <1>3, <1>4, <1>5, Zenon
<1>9. \A x, y \in S : x # y => <<x, y>> \in R \/ <<y, x>> \in R
  BY <1>3, <1>6, Zenon
<1>10. ASSUME NEW x \in S, NEW y \in S, NEW z \in S, <<x, y>> \in R, <<y, z>> \in R
       PROVE  <<x, z>> \in R
  <2>1. CASE <<x, y>> \in before
    <3>1. <<x, z>> \in before \/ <<z, y>> \in before
      BY <1>4, <2>1, Zenon
    <3>2. <<z, y>> \notin before
      BY <1>3, <1>4, <1>10, Zenon
    <3> QED
      BY <1>3, <3>1, <3>2, Zenon
  <2>2. CASE <<x, y>> \notin before /\ <<y, z>> \in before
    <3>1. <<y, x>> \in before \/ <<x, z>> \in before
      BY <1>4, <2>2, Zenon
    <3>2. <<y, x>> \notin before
      BY <1>3, <1>10, <2>2, Zenon
    <3> QED
      BY <1>3, <3>1, <3>2, Zenon
  <2>3. CASE <<x, y>> \notin before /\ <<y, z>> \notin before
    <3>1. <<y, x>> \notin before /\ <<z, y>> \notin before /\ x < y /\ y < z
      BY <1>3, <1>10, <2>3, Zenon
    <3>2. <<z, x>> \notin before
      BY <1>4, <3>1, Zenon
    <3> QED
      BY <1>3, <1>7, <3>1, <3>2, Zenon
  <2> QED
    BY <2>1, <2>2, <2>3, Zenon
<1>11. /\ Sorted(S, R) \in [1 .. Cardinality(S) -> S]
       /\ \A x \in S : \E i \in 1 .. Cardinality(S) : Sorted(S, R)[i] = x
       /\ \A i, j \in 1 .. Cardinality(S) : i < j <=> <<Sorted(S, R)[i], Sorted(S, R)[j]>> \in R
  BY <1>2, <1>8, <1>9, <1>10, SortedIs, Zenon
<1>12. 1 .. Cardinality(S) = S
  BY <1>1, <1>2, Zenon
<1>13. f = Sorted(S, R)
  BY Zenon DEF Perm, S, R
<1> HIDE DEF f
<1>14. /\ \A i \in S : f[i] \in S
       /\ \A x \in S : \E i \in S : f[i] = x
       /\ \A i, j \in S : i < j <=> <<f[i], f[j]>> \in R
  BY <1>11, <1>12, <1>13, Zenon
<1>15. ASSUME NEW i \in S, NEW j \in S, f[i] = f[j]
       PROVE  i = j
  <2>1. ~(i < j) /\ ~(j < i)
    BY <1>8, <1>14, <1>15, Zenon
  <2> QED
    BY <1>6, <2>1, Zenon
<1>16. ASSUME NEW s \in S
       PROVE  Remap(before, s) \in S /\ f[Remap(before, s)] = s
  <2>1. s # 0
    BY <1>1
  <2>2. Remap(before, s) = CHOOSE i \in S : f[i] = s
    BY <2>1, Zenon DEF Remap, f, S
  <2>3. \E i \in S : f[i] = s
    BY <1>14, Zenon
  <2> QED
    BY <2>2, <2>3, Zenon
<1>17. \A i \in S : Remap(before, f[i]) = i
  BY <1>14, <1>15, <1>16, Zenon
<1> QED
  BY <1>14, <1>16, <1>17, Zenon DEF S, R, f

(* Symbols and relocations follow their section.                           *)
LEMMA ReorderGraph ==
  ASSUME Counting, IsGraph(secs, sym, rel, entry), NEW before, IsWeakOrder(before), Reorder(before)
  PROVE  /\ IsGraph(secs, sym, rel, entry)'
         /\ Len(secs') = Len(secs) /\ Len(sym') = Len(sym) /\ Len(rel') = Len(rel)
         /\ DOMAIN secs' = DOMAIN secs /\ DOMAIN sym' = DOMAIN sym /\ DOMAIN rel' = DOMAIN rel
         /\ \A t \in DOMAIN secs : secs'[t] = secs[Perm(before)[t]]
         /\ \A s \in DOMAIN secs : secs'[Remap(before, s)] = secs[s]
         /\ \A k \in DOMAIN sym :
              /\ sym'[k].sec = Remap(before, sym[k].sec) /\ sym'[k].value = sym[k].value
              /\ sym[k] = [sec |-> 0, value |-> 0] => sym'[k] = [sec |-> 0, value |-> 0]
         /\ \A r \in DOMAIN rel :
              /\ rel'[r].sec = Remap(before, rel[r].sec) /\ rel'[r].sec \in DOMAIN secs
              /\ rel'[r].off = rel[r].off /\ rel'[r].sym = rel[r].sym
<1>1. /\ secs' = [i \in DOMAIN secs |-> secs[Perm(before)[i]]]
      /\ sym' = [k \in DOMAIN sym |-> [sym[k] EXCEPT !.sec = Remap(before, @)]]
      /\ rel' = [r \in DOMAIN rel |-> [rel[r] EXCEPT !.sec = Remap(before, @)]]
      /\ entry' = entry
  BY Zenon DEF Reorder
<1>2. /\ secs \in Seq(Section) /\ sym \in Seq(SymbolRecord) /\ rel \in Seq(RelocRecord)
      /\ \A k \in DOMAIN sym : sym[k].sec \in 0 .. Len(secs)
      /\ \A r \in DOMAIN rel : rel[r].sec \in 1 .. Len(secs) /\ rel[r].sym \in 0 .. Len(sym)
      /\ entry \in 0 .. Len(sym)
  BY Zenon DEF IsGraph
<1>3. /\ DOMAIN secs = 1 .. Len(secs) /\ Len(secs) \in Nat
      /\ DOMAIN sym = 1 .. Len(sym) /\ Len(sym) \in Nat
      /\ DOMAIN rel = 1 .. Len(rel) /\ Len(rel) \in Nat
      /\ \A s \in DOMAIN secs : secs[s] \in Section
      /\ \A k \in DOMAIN sym : sym[k] \in SymbolRecord
      /\ \A r \in DOMAIN rel : rel[r] \in RelocRecord
  BY <1>2, SMTT(30), SMTT(60)
<1>4. /\ \A i \in DOMAIN secs : Perm(before)[i] \in DOMAIN secs
      /\ \A s \in DOMAIN secs : Remap(before, s) \in DOMAIN secs /\ Perm(before)[Remap(before, s)] = s
  BY <1>2, ReorderIs, Zenon
<1>5. Remap(before, 0) = 0
  BY Zenon DEF Remap
<1>6. \A s \in 0 .. Len(secs) : Remap(before, s) \in 0 .. Len(secs)
  BY <1>3, <1>4, <1>5, SMTT(30), SMTT(60)
<1>7. secs' \in Seq(Section) /\ Len(secs') = Len(secs) /\ DOMAIN secs' = DOMAIN secs
  <2>1. secs' \in [1 .. Len(secs) -> Section]
    BY <1>1, <1>3, <1>4, Zenon
  <2> QED
    BY <1>3, <2>1, SequenceIs, Zenon
<1>8. ASSUME NEW k \in DOMAIN sym
      PROVE  /\ sym'[k].sec = Remap(before, sym[k].sec) /\ sym'[k].value = sym[k].value
             /\ sym'[k] \in SymbolRecord /\ sym'[k].sec \in 0 .. Len(secs)
             /\ sym[k] = [sec |-> 0, value |-> 0] => sym'[k] = [sec |-> 0, value |-> 0]
  <2> DEFINE x == sym[k]
             c == Remap(before, x.sec)
  <2>1. sym'[k] = [x EXCEPT !.sec = c]
    BY <1>1, Zenon
  <2>2. x \in SymbolRecord /\ c \in 0 .. Len(secs)
    BY <1>2, <1>3, <1>6, Zenon
  <2>3. x = [sec |-> 0, value |-> 0] => c = 0
    <3>1. x = [sec |-> 0, value |-> 0] => x.sec = 0
      OBVIOUS
    <3> QED
      BY <1>5, <3>1, Zenon
  <2> HIDE DEF x, c
  <2>4. c \in Nat
    BY <1>3, <2>2, SMTT(30), SMTT(60)
  <2>5. sym'[k].sec = c /\ sym'[k].value = x.value /\ sym'[k] \in SymbolRecord
    BY <2>1, <2>2, <2>4, SMTT(30), SMTT(60) DEF SymbolRecord
  <2>6. x = [sec |-> 0, value |-> 0] => sym'[k] = [sec |-> 0, value |-> 0]
    BY <2>1, <2>3, SMTT(30), SMTT(60)
  <2> QED
    BY <2>2, <2>5, <2>6, Zenon DEF x, c
<1>9. ASSUME NEW r \in DOMAIN rel
      PROVE  /\ rel'[r].sec = Remap(before, rel[r].sec) /\ rel'[r].sec \in DOMAIN secs
             /\ rel'[r].off = rel[r].off /\ rel'[r].sym = rel[r].sym /\ rel'[r] \in RelocRecord
  <2> DEFINE x == rel[r]
             c == Remap(before, x.sec)
  <2>1. rel'[r] = [x EXCEPT !.sec = c]
    BY <1>1, Zenon
  <2>2. x \in RelocRecord /\ c \in DOMAIN secs
    BY <1>2, <1>3, <1>4, Zenon
  <2> HIDE DEF x, c
  <2>3. c \in Nat \ {0}
    BY <1>3, <2>2, SMTT(30), SMTT(60)
  <2>4. rel'[r].sec = c /\ rel'[r].off = x.off /\ rel'[r].sym = x.sym
    BY <2>1, <2>2, Zenon DEF RelocRecord
  <2>5. rel'[r] \in RelocRecord
    BY <2>1, <2>2, <2>3, Zenon DEF RelocRecord
  <2> QED
    BY <2>2, <2>4, <2>5, Zenon DEF x, c
<1>10. sym' \in Seq(SymbolRecord) /\ Len(sym') = Len(sym) /\ DOMAIN sym' = DOMAIN sym
  <2>1. sym' \in [1 .. Len(sym) -> SymbolRecord]
    <3>1. sym' = [k \in DOMAIN sym |-> sym'[k]]
      BY <1>1, Zenon
    <3> QED
      BY <1>3, <1>8, <3>1, Zenon
  <2> QED
    BY <1>3, <2>1, SequenceIs, Zenon
<1>11. rel' \in Seq(RelocRecord) /\ Len(rel') = Len(rel) /\ DOMAIN rel' = DOMAIN rel
  <2>1. rel' \in [1 .. Len(rel) -> RelocRecord]
    <3>1. rel' = [r \in DOMAIN rel |-> rel'[r]]
      BY <1>1, Zenon
    <3> QED
      BY <1>3, <1>9, <3>1, Zenon
  <2> QED
    BY <1>3, <2>1, SequenceIs, Zenon
<1>12. IsGraph(secs, sym, rel, entry)'
  BY <1>1, <1>2, <1>3, <1>7, <1>8, <1>9, <1>10, <1>11, Zenon DEF IsGraph
<1>13. /\ \A t \in DOMAIN secs : secs'[t] = secs[Perm(before)[t]]
       /\ \A s \in DOMAIN secs : secs'[Remap(before, s)] = secs[s]
  BY <1>1, <1>4, Zenon
<1> QED
  BY <1>7, <1>8, <1>9, <1>10, <1>11, <1>12, <1>13, Zenon

(* What a renumbering keeps, whatever its key.                             *)
LEMMA ReorderKeeps ==
  ASSUME Counting, LinkInv, NEW before, IsWeakOrder(before), Reorder(before),
         pc \notin {"merge", "split"}, pc' \in {"entry", "align", "laid"}, Cut, Cut', Pruned' <=> Pruned
  PROVE  /\ InputsOK' /\ MergedOK' /\ MergedSymbols' /\ GraphOK' /\ MarkOK' /\ Pieces' /\ SectionsOK'
         /\ SymbolsOK' /\ RelocsOK' /\ KeptOK' /\ Apart' /\ FirstMarks' /\ Collected'
         /\ \A t \in DOMAIN secs' :
              /\ t \in DOMAIN secs /\ Perm(before)[t] \in DOMAIN secs
              /\ secs'[t] = secs[Perm(before)[t]]
         /\ \A t, i : t \in DOMAIN secs' /\ Holds(t, i)' => Holds(Perm(before)[t], i)
<1>1. /\ UNCHANGED <<job, base, kept, entry, ri, live, queue, head, todo, status>>
      /\ pc # "merge" /\ pc' \notin {"merge", "split", "order"}
  BY DEF Reorder, markVars
<1>2. /\ InputsOK /\ GraphOK /\ MarkOK /\ Pieces /\ SectionsOK
      /\ SymbolsOK /\ RelocsOK /\ KeptOK /\ Apart /\ Collected
  BY Zenon DEF LinkInv
<1>3. IsGraph(secs, sym, rel, entry) /\ Len(sym) = N + Len(job.syms) /\ Len(rel) = Len(job.rels)
  BY <1>1, <1>2, Zenon DEF GraphOK
<1>4. /\ IsGraph(secs, sym, rel, entry)'
      /\ Len(secs') = Len(secs) /\ Len(sym') = Len(sym) /\ Len(rel') = Len(rel)
      /\ DOMAIN secs' = DOMAIN secs /\ DOMAIN sym' = DOMAIN sym /\ DOMAIN rel' = DOMAIN rel
      /\ \A t \in DOMAIN secs : secs'[t] = secs[Perm(before)[t]]
      /\ \A s \in DOMAIN secs : secs'[Remap(before, s)] = secs[s]
      /\ \A k \in DOMAIN sym :
           /\ sym'[k].sec = Remap(before, sym[k].sec) /\ sym'[k].value = sym[k].value
           /\ sym[k] = [sec |-> 0, value |-> 0] => sym'[k] = [sec |-> 0, value |-> 0]
      /\ \A r \in DOMAIN rel :
           /\ rel'[r].sec = Remap(before, rel[r].sec) /\ rel'[r].sec \in DOMAIN secs
           /\ rel'[r].off = rel[r].off /\ rel'[r].sym = rel[r].sym
  BY <1>3, ReorderGraph, Zenon
<1>5. /\ \A t \in DOMAIN secs : /\ Perm(before)[t] \in DOMAIN secs
                                /\ Remap(before, Perm(before)[t]) = t
      /\ \A s \in DOMAIN secs : Remap(before, s) \in DOMAIN secs /\ Perm(before)[Remap(before, s)] = s
  <2>1. secs \in Seq(Section)
    BY <1>3, Zenon DEF IsGraph
  <2> QED
    BY <2>1, ReorderIs, Zenon
<1>6. DOMAIN sym = 1 .. N + Len(job.syms)
  <2>1. sym \in Seq(SymbolRecord)
    BY <1>3, Zenon DEF IsGraph
  <2> QED
    BY <1>3, <2>1, SMTT(30), SMTT(60)
<1>7. \A t, i : Holds(t, i)' <=> HoldsNext(t, i)
  BY <1>1, NextHolds, Zenon
<1>8. /\ \A t \in DOMAIN secs : \A i : HoldsNext(t, i) <=> Holds(Perm(before)[t], i)
      /\ \A s \in DOMAIN secs : \A i : HoldsNext(Remap(before, s), i) <=> Holds(s, i)
  BY <1>4, <1>5, Zenon DEF Holds, HoldsNext
<1>20. \A t \in DOMAIN secs' :
         /\ t \in DOMAIN secs /\ Perm(before)[t] \in DOMAIN secs
         /\ secs'[t] = secs[Perm(before)[t]]
         /\ \A i : HoldsNext(t, i) => Holds(Perm(before)[t], i)
  BY <1>4, <1>5, <1>8, Zenon
<1>9. InputsOK' /\ GraphOK' /\ MarkOK'
  <2>1. secs' \in Seq(Section)
    BY <1>4, Zenon DEF IsGraph
  <2>2. IsJob(job)' /\ N' = N
    BY <1>1, <1>2, SameJob, Zenon DEF InputsOK, IsJob
  <2>3. InputsOK'
    BY <1>1, <1>2, <2>1, <2>2, SameJob, SMTT(30), SMTT(60) DEF InputsOK
  <2>4. GraphOK'
    BY <1>1, <1>2, <1>4, SameJob, Zenon DEF GraphOK
  <2>5. MarkOK'
    BY <1>1, <1>2, SMTT(30), SMTT(60) DEF MarkOK, QueueSuffices
  <2> QED
    BY <2>3, <2>4, <2>5, Zenon
<1>10. Pieces'
  <2>1. ASSUME NEW i \in 1 .. N, SizeOf(i) > 0
        PROVE  \E t \in DOMAIN secs' : HoldsNext(t, i)
    <3>1. PICK s \in DOMAIN secs : Holds(s, i)
      BY <1>1, <1>2, <2>1, Zenon DEF Pieces, Inputs
    <3> QED
      BY <1>4, <1>5, <1>8, <3>1, Zenon
  <2>2. ASSUME NEW i \in 1 .. N, NEW s \in DOMAIN secs', NEW t \in DOMAIN secs',
               HoldsNext(s, i), HoldsNext(t, i)
        PROVE  s = t
    <3>1. Perm(before)[s] = Perm(before)[t]
      BY <1>1, <1>2, <1>4, <1>5, <1>8, <2>2, Zenon DEF Pieces, Inputs
    <3>2. Remap(before, Perm(before)[s]) = s /\ Remap(before, Perm(before)[t]) = t
      BY <1>5, <1>20, <2>2, Zenon
    <3> QED
      BY <3>1, <3>2, Zenon
  <2> QED
    BY <1>1, <1>7, <2>1, <2>2, SameJob, Zenon DEF Pieces, Inputs
<1>11. SectionsOK'
  <2>1. ASSUME NEW t \in DOMAIN secs'
        PROVE  SectionOK(t)'
    <3> DEFINE s == Perm(before)[t]
    <3>1. s \in DOMAIN secs /\ secs'[t] = secs[s]
      BY <1>20, Zenon
    <3>2. SectionOK(s)
      BY <1>1, <1>2, <3>1, Zenon DEF SectionsOK
    <3> HIDE DEF s
    <3> QED
      BY <3>1, <3>2, Zenon DEF SectionOK
  <2> QED
    BY <2>1, Zenon DEF SectionsOK
<1>12. SymbolsOK'
  <2>1. ASSUME NEW k \in 1 .. N + Len(job.syms), ~Defined(k)
        PROVE  sym'[k].sec = 0
    <3>1. sym[k].sec = 0 /\ sym'[k].sec = Remap(before, sym[k].sec)
      BY <1>1, <1>2, <1>4, <1>6, <2>1, Zenon DEF SymbolsOK
    <3> QED
      BY <3>1, Zenon DEF Remap
  <2>2. ASSUME NEW k \in 1 .. N + Len(job.syms), Located(k)
        PROVE  Located(k)'
    <3>1. /\ sym[k].sec \in DOMAIN secs /\ Holds(sym[k].sec, SymbolInput(k))
          /\ secs[sym[k].sec].lo + sym[k].value = base[SymbolInput(k)] + SymbolOffset(k)
      BY <2>2, Zenon DEF Located
    <3>2. /\ sym'[k].sec = Remap(before, sym[k].sec) /\ sym'[k].value = sym[k].value
      BY <1>4, <1>6, <2>2, Zenon
    <3>3. /\ sym'[k].sec \in DOMAIN secs' /\ HoldsNext(sym'[k].sec, SymbolInput(k))
          /\ secs'[sym'[k].sec].lo + sym'[k].value = base[SymbolInput(k)] + SymbolOffset(k)
      <4>1. /\ Remap(before, sym[k].sec) \in DOMAIN secs'
            /\ secs'[Remap(before, sym[k].sec)] = secs[sym[k].sec]
        BY <1>4, <1>5, <3>1, Zenon
      <4>2. HoldsNext(Remap(before, sym[k].sec), SymbolInput(k))
        BY <1>8, <3>1, Zenon
      <4> QED
        BY <3>1, <3>2, <4>1, <4>2, Zenon
    <3>4. Holds(sym[k].sec, SymbolInput(k))'
      BY <1>1, <3>3, SameJob, Zenon DEF Holds, HoldsNext
    <3> QED
      BY <1>1, <3>3, <3>4, SameJob, Zenon DEF Located
  <2>3. ASSUME NEW k \in 1 .. N + Len(job.syms), Gone(k)
        PROVE  Gone(k)'
    <3>1. /\ Pruned /\ sym[k] = [sec |-> 0, value |-> 0]
          /\ \A s \in DOMAIN secs :
               Holds(s, SymbolInput(k)) /\ secs[s].alloc => secs[s].size = 0
      BY <2>3, Zenon DEF Gone
    <3>2. Pruned' /\ sym'[k] = [sec |-> 0, value |-> 0]
      BY <1>4, <1>6, <3>1, Zenon
    <3>3. \A s \in DOMAIN secs' :
            HoldsNext(s, SymbolInput(k)) /\ secs'[s].alloc => secs'[s].size = 0
      <4> SUFFICES ASSUME NEW s \in DOMAIN secs', HoldsNext(s, SymbolInput(k)), secs'[s].alloc
                   PROVE  secs'[s].size = 0
        BY Zenon
      <4>1. /\ Perm(before)[s] \in DOMAIN secs /\ secs'[s] = secs[Perm(before)[s]]
            /\ Holds(Perm(before)[s], SymbolInput(k))
        BY <1>20, Zenon
      <4> QED
        BY <3>1, <4>1, Zenon
    <3>4. SymbolInput(k)' = SymbolInput(k)
      BY <1>1, SameJob, Zenon
    <3>5. \A s \in DOMAIN secs' :
            Holds(s, SymbolInput(k))' /\ secs'[s].alloc => secs'[s].size = 0
      BY <1>1, <3>3, <3>4, SameJob, Zenon DEF Holds, HoldsNext
    <3> QED
      BY <3>2, <3>5, Zenon DEF Gone
  <2>4. ASSUME NEW k \in 1 .. N + Len(job.syms), AtByte(k)
        PROVE  Located(k)' \/ Gone(k)'
    BY <1>1, <1>2, <2>2, <2>3, <2>4, Zenon DEF SymbolsOK
  <2> QED
    BY <1>1, <2>1, <2>4, SameJob, Zenon DEF SymbolsOK
<1>13. \A r \in DOMAIN rel : rel[r].sec \in DOMAIN secs
  <2>1. secs \in Seq(Section) /\ \A r \in DOMAIN rel : rel[r].sec \in 1 .. Len(secs)
    BY <1>3, Zenon DEF IsGraph
  <2> QED
    BY <2>1
<1>14. RelocsOK'
  <2>1. ASSUME NEW r \in DOMAIN rel
        PROVE  /\ HoldsNext(rel'[r].sec, job.rels[r].isec)
               /\ secs'[rel'[r].sec].lo + rel'[r].off = base[job.rels[r].isec] + job.rels[r].off
    <3>1. /\ Holds(rel[r].sec, job.rels[r].isec)
          /\ secs[rel[r].sec].lo + rel[r].off = base[job.rels[r].isec] + job.rels[r].off
      BY <1>1, <1>2, Zenon DEF RelocsOK
    <3> QED
      <4>1. /\ rel[r].sec \in DOMAIN secs /\ rel'[r].sec = Remap(before, rel[r].sec)
            /\ rel'[r].off = rel[r].off
        BY <1>4, <1>13, Zenon
      <4>2. secs'[rel'[r].sec] = secs[rel[r].sec] /\ HoldsNext(rel'[r].sec, job.rels[r].isec)
        <5>1. secs'[Remap(before, rel[r].sec)] = secs[rel[r].sec]
          BY <1>4, <4>1, Zenon
        <5>2. HoldsNext(Remap(before, rel[r].sec), job.rels[r].isec)
          BY <1>8, <3>1, <4>1, Zenon
        <5> QED
          BY <4>1, <5>1, <5>2, Zenon
      <4> QED
        BY <3>1, <4>1, <4>2, Zenon
  <2>2. ASSUME NEW r \in DOMAIN rel
        PROVE  Holds(rel[r].sec, job.rels[r].isec)'
    BY <1>1, <2>1, SameJob, Zenon DEF Holds, HoldsNext
  <2> QED
    BY <1>1, <1>4, <2>1, <2>2, Zenon DEF RelocsOK
<1>15. KeptOK'
  <2>1. \A r \in DOMAIN rel : secs'[rel'[r].sec] = secs[rel[r].sec]
    BY <1>4, <1>13, Zenon
  <2> QED
    BY <1>1, <1>2, <1>4, <2>1, Zenon DEF KeptOK
<1>16. Apart' /\ Collected'
  <2>1. (AllMarked' <=> AllMarked) /\ (Interior' <=> Interior) /\ NeededInputs' = NeededInputs
        /\ N' = N /\ (NoExact' <=> NoExact)
    BY <1>1, SameJob, SameNeeds, Zenon DEF NoExact
  <2>2. AllMarked => \A s \in DOMAIN secs' : \A i, j \in 1 .. N :
          HoldsNext(s, i) /\ HoldsNext(s, j) /\ secs'[s].alloc => i = j
    <3> SUFFICES ASSUME AllMarked, NEW s \in DOMAIN secs', NEW i \in 1 .. N, NEW j \in 1 .. N,
                        HoldsNext(s, i), HoldsNext(s, j), secs'[s].alloc
                 PROVE  i = j
      BY Zenon
    <3>1. /\ Perm(before)[s] \in DOMAIN secs /\ secs[Perm(before)[s]].alloc
          /\ Holds(Perm(before)[s], i) /\ Holds(Perm(before)[s], j)
      BY <1>20, Zenon
    <3> QED
      BY <1>2, <3>1, Zenon DEF Apart, Inputs
  <2>3. Apart'
    BY <1>7, <2>1, <2>2, Zenon DEF Apart, Inputs
  <2>4. Pruned /\ AllMarked /\ Interior /\ NoExact =>
          \A s \in DOMAIN secs' : \A i \in 1 .. N :
            HoldsNext(s, i) /\ secs'[s].alloc => (secs'[s].size > 0 <=> i \in NeededInputs)
    <3> SUFFICES ASSUME Pruned, AllMarked, Interior, NoExact, NEW s \in DOMAIN secs', NEW i \in 1 .. N,
                        HoldsNext(s, i), secs'[s].alloc
                 PROVE  secs'[s].size > 0 <=> i \in NeededInputs
      BY Zenon
    <3>1. /\ Perm(before)[s] \in DOMAIN secs /\ secs[Perm(before)[s]].alloc
          /\ Holds(Perm(before)[s], i) /\ secs'[s] = secs[Perm(before)[s]]
      BY <1>20, Zenon
    <3> QED
      BY <1>2, <3>1, Zenon DEF Collected, Inputs
  <2>5. Collected'
    BY <1>7, <2>1, <2>4, ZenonT(30), ZenonT(60) DEF Collected, Inputs
  <2> QED
    BY <2>3, <2>5, Zenon
<1>17. MergedOK' /\ MergedSymbols' /\ FirstMarks'
  BY <1>1, Zenon DEF MergedOK, MergedSymbols, FirstMarks
<1>18. \A t, i : t \in DOMAIN secs' /\ Holds(t, i)' => Holds(Perm(before)[t], i)
  BY <1>7, <1>20, Zenon
<1>19. \A t \in DOMAIN secs' :
         /\ t \in DOMAIN secs /\ Perm(before)[t] \in DOMAIN secs
         /\ secs'[t] = secs[Perm(before)[t]]
  BY <1>20, Zenon
<1> QED
  BY <1>9, <1>10, <1>11, <1>12, <1>14, <1>15, <1>16, <1>17, <1>18, <1>19, Zenon

(* The first section symbol of a section is its place.                     *)
LEMMA InputOrderIs ==
  ASSUME Counting, N \in Nat, Len(sym) \in Nat, NEW s \in Nat
  PROVE  /\ InputOrder(s) \in Nat
         /\ \A p \in 1 .. N : sym[p].sec = s /\ (\A q \in 1 .. p - 1 : sym[q].sec # s) => InputOrder(s) = p
<1> DEFINE marks == {i \in 1 .. N : sym[i].sec = s}
<1>1. CASE marks = {}
  <2>1. InputOrder(s) = Len(sym) + s
    BY <1>1, Zenon DEF InputOrder
  <2>2. \A p \in 1 .. N : sym[p].sec # s
    BY <1>1, Zenon
  <2> QED
    BY <2>1, <2>2, SMTT(30), SMTT(60)
<1>2. CASE marks # {}
  <2>1. InputOrder(s) = CHOOSE i \in marks : \A x \in marks : i <= x
    BY <1>2, Zenon DEF InputOrder
  <2>2. marks \in SUBSET Nat
    OBVIOUS
  <2>3. \E i \in marks : \A x \in marks : i <= x
    BY <1>2, <2>2, LeastNat, Zenon
  <2>4. InputOrder(s) \in marks /\ \A x \in marks : InputOrder(s) <= x
    BY <2>1, <2>3, Zenon
  <2>5. ASSUME NEW p \in 1 .. N, sym[p].sec = s, \A q \in 1 .. p - 1 : sym[q].sec # s
        PROVE  InputOrder(s) = p
    <3>1. p \in marks
      BY <2>5, Zenon
    <3>2. InputOrder(s) <= p /\ InputOrder(s) \in 1 .. N /\ sym[InputOrder(s)].sec = s
      BY <2>4, <3>1, Zenon
    <3>3. ~(InputOrder(s) < p)
      <4> SUFFICES ASSUME InputOrder(s) < p PROVE FALSE
        BY Zenon
      <4>1. InputOrder(s) \in 1 .. p - 1
        BY <3>2
      <4> QED
        BY <2>5, <3>2, <4>1, Zenon
    <3> QED
      BY <3>2, <3>3, SMTT(30), SMTT(60)
  <2>6. InputOrder(s) \in Nat
    BY <2>2, <2>4, Zenon
  <2> QED
    BY <2>5, <2>6, Zenon
<1> QED
  BY <1>1, <1>2, Zenon

(* Renumbering by the first section symbol puts the pieces in the order of *)
(* the inputs.                                                             *)
LEMMA RestoreInputOrderStep ==
  ASSUME Counting
  PROVE  LinkInv /\ RestoreInputOrder => LinkInv'
<1> SUFFICES ASSUME LinkInv, RestoreInputOrder PROVE LinkInv'
  BY Zenon
<1> DEFINE before == {p \in Pairs : InputOrder(p[1]) < InputOrder(p[2])}
<1>1. pc = "order" /\ pc' = "entry" /\ Reorder(before)
  BY Zenon DEF RestoreInputOrder, Goto
<1>2. /\ Cut /\ Cut' /\ (Pruned' <=> Pruned) /\ ~Pruned
      /\ pc \notin {"merge", "split"} /\ pc' \in {"entry", "align", "laid"} /\ pc # "merge"
  BY <1>1, SMTT(30), SMTT(60) DEF Cut, Pruned
<1>3. /\ IsGraph(secs, sym, rel, entry) /\ InputsOK /\ MarkStart /\ status = "ok"
      /\ kept = DOMAIN rel /\ FirstMarks
  BY <1>1, <1>2, SMTT(30), SMTT(60) DEF LinkInv, GraphOK, MarkOK, KeptOK
<1>4. /\ secs \in Seq(Section) /\ DOMAIN secs = 1 .. Len(secs) /\ Len(secs) \in Nat /\ Len(sym) \in Nat
  BY <1>3 DEF IsGraph
<1>5. IsJob(job) /\ N \in Nat
  BY <1>3, JobIs, Zenon DEF InputsOK
<1>6. \A s \in DOMAIN secs : InputOrder(s) \in Nat
  <2>1. \A s \in DOMAIN secs : s \in Nat
    BY <1>4, SMTT(30), SMTT(60)
  <2> QED
    BY <1>4, <1>5, <2>1, InputOrderIs, Zenon
<1>7. \A s, t \in DOMAIN secs : <<s, t>> \in before <=> InputOrder(s) < InputOrder(t)
  BY Zenon DEF Pairs
<1> HIDE DEF before
<1>8. IsWeakOrder(before)
  BY <1>6, <1>7 DEF IsWeakOrder
<1>9. /\ InputsOK' /\ MergedOK' /\ MergedSymbols' /\ GraphOK' /\ MarkOK' /\ Pieces' /\ SectionsOK'
      /\ SymbolsOK' /\ RelocsOK' /\ KeptOK' /\ Apart' /\ FirstMarks' /\ Collected'
      /\ \A t \in DOMAIN secs' :
           /\ t \in DOMAIN secs /\ Perm(before)[t] \in DOMAIN secs
           /\ secs'[t] = secs[Perm(before)[t]]
      /\ \A t, i : t \in DOMAIN secs' /\ Holds(t, i)' => Holds(Perm(before)[t], i)
  BY <1>1, <1>2, <1>8, ReorderKeeps, Zenon
<1>10. PruneOK'
  <2>1. MarkStart' /\ status' = "ok" /\ kept' = kept /\ DOMAIN rel' = DOMAIN rel
    BY <1>1, <1>3, Zenon DEF Reorder, MarkStart, markVars
  <2>2. IsGraph(secs, sym, rel, entry)'
    BY <1>3, <1>1, <1>8, ReorderGraph, Zenon
  <2>3. PruneInv'
    BY <1>1, <1>3, <2>1, <2>2, PruneStarts, Zenon
  <2> QED
    BY <2>3, Zenon DEF PruneOK
<1>11. InOrder'
  <2>1. job' = job /\ base' = base
    BY <1>1, Zenon DEF Reorder
  <2>2. ASSUME AllMarked, NEW s \in DOMAIN secs', NEW i \in 1 .. N, NEW p \in 1 .. N,
               Holds(s, i)', secs'[s].alloc, IsPlace(p, i)
        PROVE  s \in DOMAIN secs /\ Perm(before)[s] \in DOMAIN secs /\ InputOrder(Perm(before)[s]) = p
    <3> DEFINE S == Perm(before)[s]
    <3>1. S \in DOMAIN secs /\ secs[S].alloc /\ Holds(S, i) /\ s \in DOMAIN secs
      BY <1>9, <2>2, Zenon
    <3> HIDE DEF S
    <3>2. sym[p].sec = S /\ \A q \in 1 .. p - 1 : sym[q].sec # S
      BY <1>1, <1>3, <2>2, <3>1, Zenon DEF FirstMarks, Inputs
    <3>3. S \in Nat
      BY <1>4, <3>1
    <3>4. InputOrder(S) = p
      BY <1>4, <1>5, <3>2, <3>3, InputOrderIs, Zenon
    <3> QED
      BY <3>1, <3>4, Zenon DEF S
  <2>3. ASSUME AllMarked, NEW s \in DOMAIN secs', NEW t \in DOMAIN secs',
               NEW i \in 1 .. N, NEW j \in 1 .. N, NEW p \in 1 .. N, NEW q \in 1 .. N,
               Holds(s, i)', secs'[s].alloc, IsPlace(p, i), Holds(t, j)', secs'[t].alloc, IsPlace(q, j), p < q
        PROVE  s < t
    <3>1. s \in DOMAIN secs /\ Perm(before)[s] \in DOMAIN secs /\ InputOrder(Perm(before)[s]) = p
      BY <2>2, <2>3, Zenon
    <3>2. t \in DOMAIN secs /\ Perm(before)[t] \in DOMAIN secs /\ InputOrder(Perm(before)[t]) = q
      BY <2>2, <2>3, Zenon
    <3>3. <<Perm(before)[s], Perm(before)[t]>> \in before
      BY <1>7, <2>3, <3>1, <3>2, Zenon
    <3>4. <<Perm(before)[s], Perm(before)[t]>> \in Stable(before)
      BY <3>1, <3>2, <3>3, StableIs, Zenon
    <3> QED
      BY <1>4, <1>8, <3>1, <3>2, <3>4, ReorderIs, Zenon
  <2> QED
    BY <2>1, <2>3, SameJob, SameNeeds, SamePlace, ZenonT(30), ZenonT(60) DEF InOrder, Inputs
<1> QED
  BY <1>9, <1>10, <1>11, Zenon DEF LinkInv

(* The class of a section depends on its name.                             *)
LEMMA SameClass ==
  ASSUME NEW s, NEW t, secs'[t].name = secs[s].name
  PROVE  OutputClass(t)' = OutputClass(s)
BY Zenon DEF OutputClass

(* The class of a section is a number.                                     *)
LEMMA ClassIs ==
  ASSUME NEW s
  PROVE  OutputClass(s) \in Nat
BY Zenon DEF OutputClass

(* Sorting each class by alignment keeps the order of the inputs among     *)
(* sections of one alignment.                                              *)
LEMMA SortOutputAlignmentStep ==
  ASSUME Counting
  PROVE  LinkInv /\ SortOutputAlignment => LinkInv'
<1> SUFFICES ASSUME LinkInv, SortOutputAlignment PROVE LinkInv'
  BY Zenon
<1> DEFINE before == ClassOrder \cup AlignmentOrder
           C(s) == OutputClass(s)
           A(s) == Attr[secs[s].name].align
<1>1. pc = "align" /\ pc' = "laid" /\ Reorder(before)
  BY Zenon DEF SortOutputAlignment, Goto
<1>2. /\ Cut /\ Cut' /\ (Pruned' <=> Pruned)
      /\ pc \notin {"merge", "split"} /\ pc' \in {"entry", "align", "laid"} /\ pc # "merge"
  BY <1>1 DEF Cut, Pruned
<1>3. InputsOK /\ InOrder
  BY Zenon DEF LinkInv
<1>4. secs \in Seq(Section)
  BY <1>3, Zenon DEF InputsOK
<1>5. \A s \in DOMAIN secs : C(s) \in Nat /\ A(s) \in Nat
  <2>1. \A s \in DOMAIN secs : secs[s].name \in Name
    <3>1. \A x \in Section : x.name \in Name
      BY Zenon DEF Section
    <3>2. \A s \in DOMAIN secs : secs[s] \in Section
      BY <1>4
    <3> QED
      BY <3>1, <3>2, Zenon
  <2> QED
    BY <2>1, ClassIs, AttrIs, Zenon
<1>6. \A s, t \in DOMAIN secs :
        <<s, t>> \in before <=> C(s) < C(t) \/ (C(s) = C(t) /\ C(s) < 2 /\ A(s) > A(t))
  <2>1. \A s, t \in DOMAIN secs : <<s, t>> \in ClassOrder <=> C(s) < C(t)
    BY Zenon DEF ClassOrder, Pairs
  <2>2. \A s, t \in DOMAIN secs : <<s, t>> \in AlignmentOrder <=> C(s) = C(t) /\ C(s) < 2 /\ A(s) > A(t)
    BY Zenon DEF AlignmentOrder, Pairs
  <2> QED
    BY <2>1, <2>2, Zenon
<1> HIDE DEF before, C, A
<1>7. IsWeakOrder(before)
  BY <1>5, <1>6, SMTT(30), SMTT(60) DEF IsWeakOrder
<1>8. /\ InputsOK' /\ MergedOK' /\ MergedSymbols' /\ GraphOK' /\ MarkOK' /\ Pieces' /\ SectionsOK'
      /\ SymbolsOK' /\ RelocsOK' /\ KeptOK' /\ Apart' /\ FirstMarks' /\ Collected'
      /\ \A t \in DOMAIN secs' :
           /\ t \in DOMAIN secs /\ Perm(before)[t] \in DOMAIN secs
           /\ secs'[t] = secs[Perm(before)[t]]
      /\ \A t, i : t \in DOMAIN secs' /\ Holds(t, i)' => Holds(Perm(before)[t], i)
  BY <1>1, <1>2, <1>7, ReorderKeeps, Zenon
<1>9. PruneOK'
  BY <1>1 DEF PruneOK
<1>10. InOrder'
  <2>1. job' = job /\ base' = base
    BY <1>1, Zenon DEF Reorder
  <2>2. ASSUME AllMarked, NEW s \in DOMAIN secs', NEW t \in DOMAIN secs',
               NEW i \in 1 .. N, NEW j \in 1 .. N, NEW p \in 1 .. N, NEW q \in 1 .. N,
               Holds(s, i)', secs'[s].alloc, IsPlace(p, i), Holds(t, j)', secs'[t].alloc, IsPlace(q, j), p < q,
               Alike(s, t)'
        PROVE  s < t
    <3> DEFINE S == Perm(before)[s]
               T == Perm(before)[t]
    <3>1. /\ S \in DOMAIN secs /\ secs[S].alloc /\ Holds(S, i) /\ s \in DOMAIN secs
          /\ T \in DOMAIN secs /\ secs[T].alloc /\ Holds(T, j) /\ t \in DOMAIN secs
          /\ secs'[s] = secs[S] /\ secs'[t] = secs[T]
      BY <1>8, <2>2, Zenon
    <3> HIDE DEF S, T
    <3>2. OutputClass(s)' = OutputClass(S) /\ OutputClass(t)' = OutputClass(T)
      BY <3>1, SameClass, Zenon
    <3>3. /\ OutputClass(S) = OutputClass(T)
          /\ OutputClass(S) < 2 => Attr[secs[S].name].align = Attr[secs[T].name].align
      BY <1>1, <2>2, <3>1, <3>2, Zenon DEF Alike
    <3>4. Alike(S, T)
      BY <1>1, <3>3, SMTT(30), SMTT(60) DEF Alike
    <3>5. S < T
      BY <1>1, <1>2, <1>3, <2>2, <3>1, <3>4, SMTT(30), SMTT(60) DEF InOrder, Inputs
    <3>6. <<S, T>> \in Stable(before)
      <4>1. C(S) = C(T) /\ (C(S) < 2 => A(S) = A(T))
        BY <3>3, Zenon DEF C, A
      <4>2. <<T, S>> \notin before
        BY <1>5, <1>6, <3>1, <4>1, SMTT(30), SMTT(60)
      <4> QED
        BY <3>1, <3>5, <4>2, StableIs, Zenon
    <3> QED
      BY <1>4, <1>7, <3>1, <3>6, ReorderIs, Zenon DEF S, T
  <2> QED
    BY <2>1, <2>2, SameJob, SameNeeds, SamePlace, ZenonT(30), ZenonT(60) DEF InOrder, Inputs
<1> QED
  BY <1>8, <1>9, <1>10, Zenon DEF LinkInv

(* minild_gc_default_output_class orders the sections weakly.              *)
LEMMA ClassIsWeakOrder == IsWeakOrder(ClassOrder)
<1>1. \A s, t \in DOMAIN secs : <<s, t>> \in ClassOrder <=> OutputClass(s) < OutputClass(t)
  BY Zenon DEF ClassOrder, Pairs
<1>2. \A s : OutputClass(s) \in Nat
  BY ClassIs, Zenon
<1> QED
  BY <1>1, <1>2, SMTT(30), SMTT(60) DEF IsWeakOrder

(* Grouping by class keeps the order of the inputs in each class.          *)
LEMMA GroupOutputClassesStep ==
  ASSUME Counting
  PROVE  LinkInv /\ GroupOutputClasses => LinkInv'
<1> SUFFICES ASSUME LinkInv, GroupOutputClasses PROVE LinkInv'
  BY Zenon
<1> DEFINE before == ClassOrder
<1>1. pc = "swept" /\ pc' = "align" /\ Reorder(before)
  BY Zenon DEF GroupOutputClasses, Goto
<1>2. /\ Cut /\ Cut' /\ (Pruned' <=> Pruned)
      /\ pc \notin {"merge", "split"} /\ pc' \in {"entry", "align", "laid"} /\ pc # "merge"
  BY <1>1, SMTT(30), SMTT(60) DEF Cut, Pruned
<1>3. InputsOK /\ InOrder
  BY DEF LinkInv
<1>4. secs \in Seq(Section)
  BY <1>3 DEF InputsOK
<1>5. IsWeakOrder(before)
  BY ClassIsWeakOrder, Zenon
<1>6. \A s, t \in DOMAIN secs : <<s, t>> \in before <=> OutputClass(s) < OutputClass(t)
  BY Zenon DEF ClassOrder, Pairs
<1> HIDE DEF before
<1>7. /\ InputsOK' /\ MergedOK' /\ MergedSymbols' /\ GraphOK' /\ MarkOK' /\ Pieces' /\ SectionsOK'
      /\ SymbolsOK' /\ RelocsOK' /\ KeptOK' /\ Apart' /\ FirstMarks' /\ Collected'
      /\ \A t \in DOMAIN secs' :
           /\ t \in DOMAIN secs /\ Perm(before)[t] \in DOMAIN secs
           /\ secs'[t] = secs[Perm(before)[t]]
      /\ \A t, i : t \in DOMAIN secs' /\ Holds(t, i)' => Holds(Perm(before)[t], i)
  BY <1>1, <1>2, <1>5, ReorderKeeps, Zenon
<1>8. PruneOK'
  BY <1>1, SMTT(30), SMTT(60) DEF PruneOK
<1>9. InOrder'
  <2>1. job' = job /\ base' = base
    BY <1>1, Zenon DEF Reorder
  <2>2. ASSUME AllMarked, NEW s \in DOMAIN secs', NEW t \in DOMAIN secs',
               NEW i \in 1 .. N, NEW j \in 1 .. N, NEW p \in 1 .. N, NEW q \in 1 .. N,
               Holds(s, i)', secs'[s].alloc, IsPlace(p, i), Holds(t, j)', secs'[t].alloc, IsPlace(q, j), p < q,
               Alike(s, t)'
        PROVE  s < t
    <3> DEFINE S == Perm(before)[s]
               T == Perm(before)[t]
    <3>1. /\ S \in DOMAIN secs /\ secs[S].alloc /\ Holds(S, i) /\ s \in DOMAIN secs
          /\ T \in DOMAIN secs /\ secs[T].alloc /\ Holds(T, j) /\ t \in DOMAIN secs
          /\ secs'[s] = secs[S] /\ secs'[t] = secs[T]
      BY <1>7, <2>2, Zenon
    <3> HIDE DEF S, T
    <3>2. OutputClass(s)' = OutputClass(S) /\ OutputClass(t)' = OutputClass(T)
      BY <3>1, SameClass, Zenon
    <3>3. OutputClass(S) = OutputClass(T)
      BY <1>1, <2>2, <3>2, SMTT(30), SMTT(60) DEF Alike
    <3>4. Alike(S, T)
      BY <1>1, SMTT(30), SMTT(60) DEF Alike
    <3>5. S < T
      BY <1>1, <1>2, <1>3, <2>2, <3>1, <3>4, SMTT(30), SMTT(60) DEF InOrder, Inputs
    <3>6. <<S, T>> \in Stable(before)
      <4>1. <<T, S>> \notin before
        BY <1>6, <3>1, <3>3, ClassIs, SMTT(30), SMTT(60)
      <4> QED
        BY <3>1, <3>5, <4>1, StableIs, Zenon
    <3> QED
      BY <1>4, <1>5, <3>1, <3>6, ReorderIs, Zenon DEF S, T
  <2> QED
    BY <2>1, <2>2, SameJob, SameNeeds, SamePlace, ZenonT(30), ZenonT(60) DEF InOrder, Inputs
<1> QED
  BY <1>7, <1>8, <1>9, Zenon DEF LinkInv

(* The place of an input section.                                          *)
LEMMA PlaceIs ==
  ASSUME Counting, LinkInv, pc # "merge", NEW i \in Inputs
  PROVE  Place(i) \in Inputs /\ IsPlace(Place(i), i)
<1> DEFINE T == {p \in 1 .. i : NameOf(p) = NameOf(i) /\ base[p] = base[i]}
<1>1. i \in Nat /\ N \in Nat /\ i >= 1 /\ i <= N
  <2>1. N \in Nat
    BY JobIs, Zenon DEF LinkInv, InputsOK
  <2>2. i \in 1 .. N
    BY Zenon DEF Inputs
  <2>3. QED
    BY <2>1, <2>2, SMTT(30), SMTT(60)
<1>2. T \in SUBSET Nat /\ i \in T
  BY <1>1
<1>3. PICK p \in T : \A q \in T : p <= q
  BY <1>2, LeastNat, Zenon
<1>4. p \in 1 .. i
  BY <1>3, SMTT(30), SMTT(60)
<1>5. IsPlace(p, i)
  BY <1>1, <1>3, SMTT(30), SMTT(60) DEF IsPlace
<1>6. Place(i) \in 1 .. i /\ IsPlace(Place(i), i)
  BY <1>4, <1>5, Zenon DEF Place
<1> QED
  BY <1>1, <1>6, SMTT(30), SMTT(60) DEF Inputs

(* What is laid out alike is laid out in the order of the inputs.          *)
LEMMA OrderStays ==
  ASSUME Counting
  PROVE  LinkInv => InputOrderIsKept
<1> SUFFICES ASSUME LinkInv, pc = "laid", AllMarked, NEW i \in 1 .. N, NEW j \in 1 .. N,
                    SizeOf(i) > 0, SizeOf(j) > 0, Place(i) < Place(j),
                    InImage(i), InImage(j), OutputClass(Home(i)) = OutputClass(Home(j)),
                    OutputClass(Home(i)) < 2 => Attr[NameOf(i)].align = Attr[NameOf(j)].align
             PROVE  Home(i) < Home(j)
  BY Zenon DEF InputOrderIsKept
<1>1. pc # "merge" /\ Cut /\ pc # "order" /\ InOrder
  BY Zenon DEF LinkInv, Cut
<1>2. /\ Home(i) \in DOMAIN secs /\ Holds(Home(i), i)
      /\ secs[Home(i)].alloc <=> Attr[NameOf(i)].alloc
  BY <1>1, HomeIs, Zenon DEF Inputs
<1>3. /\ Home(j) \in DOMAIN secs /\ Holds(Home(j), j)
      /\ secs[Home(j)].alloc <=> Attr[NameOf(j)].alloc
  BY <1>1, HomeIs, Zenon DEF Inputs
<1>4. secs[Home(i)].alloc /\ secs[Home(j)].alloc
  BY <1>2, <1>3, Zenon DEF InImage
<1>5. /\ Place(i) \in Inputs /\ IsPlace(Place(i), i)
      /\ Place(j) \in Inputs /\ IsPlace(Place(j), j)
  BY <1>1, PlaceIs, Zenon DEF Inputs
<1>6. Alike(Home(i), Home(j))
  <2>1. secs[Home(i)].name = NameOf(i) /\ secs[Home(j)].name = NameOf(j)
    BY <1>2, <1>3, Zenon DEF Holds
  <2> QED
    BY <2>1, Zenon DEF Alike
<1> QED
  BY <1>1, <1>2, <1>3, <1>4, <1>5, <1>6, Zenon DEF InOrder, Inputs

-----------------------------------------------------------------------------
(* The pieces that the merged sections are cut into.                       *)

(* A nonempty bounded set of naturals has a greatest element.              *)
LEMMA GreatestNat ==
  ASSUME Counting, NEW T \in SUBSET Nat, T # {}, NEW b \in Nat, \A y \in T : y <= b
  PROVE  \E x \in T : \A y \in T : y <= x
<1> DEFINE D == {b - y : y \in T}
<1>1. D \in SUBSET Nat /\ D # {}
  <2>1. \A y \in T : b - y \in Nat
    OBVIOUS
  <2> QED
    BY <2>1, Zenon
<1>2. PICK d \in D : \A e \in D : d <= e
  BY <1>1, LeastNat, Zenon
<1>3. PICK x \in T : d = b - x
  BY Zenon
<1> SUFFICES ASSUME NEW y \in T PROVE y <= x
  BY Zenon
<1>4. b - x <= b - y
  BY <1>2, <1>3, Zenon
<1>5. x \in Nat /\ y \in Nat
  BY Zenon
<1> HIDE DEF D
<1> QED
  BY <1>4, <1>5, SMTT(30), SMTT(60)

(* The state that minild_gc_restore_input_sections finds.                  *)
LEMMA SplitState ==
  ASSUME LinkInv, pc = "split"
  PROVE  /\ InputsOK /\ MergedOK /\ MergedSymbols /\ IsGraph(secs, sym, rel, entry)
         /\ IsJob(job) /\ N \in Nat /\ Len(job.syms) \in Nat /\ Len(sym) = N + Len(job.syms)
         /\ DOMAIN sym = 1 .. N + Len(job.syms) /\ DOMAIN secs = 1 .. Len(secs) /\ Len(secs) \in Nat
         /\ Len(base) = N
         /\ \A i \in 1 .. N : NameOf(i) \in Name /\ SizeOf(i) \in Nat /\ base[i] \in Nat
         /\ \A k \in DOMAIN sym : sym[k].value \in Nat /\ sym[k].sec \in 0 .. Len(secs)
<1>1. /\ InputsOK /\ MergedOK /\ MergedSymbols /\ IsGraph(secs, sym, rel, entry)
      /\ Len(sym) = N + Len(job.syms)
  BY Zenon DEF LinkInv, GraphOK
<1>2. IsJob(job) /\ base \in Seq(Nat) /\ secs \in Seq(Section) /\ Len(base) = N
  BY <1>1, Zenon DEF InputsOK
<1>3. /\ N \in Nat /\ Len(job.syms) \in Nat
      /\ \A i \in 1 .. N : NameOf(i) \in Name /\ SizeOf(i) \in Nat
  BY <1>2, JobIs, Zenon
<1>4. sym \in Seq(SymbolRecord) /\ \A k \in DOMAIN sym : sym[k].sec \in 0 .. Len(secs)
  BY <1>1, Zenon DEF IsGraph
<1>5. \A k \in DOMAIN sym : sym[k].value \in Nat
  <2>1. \A x \in SymbolRecord : x.value \in Nat
    BY Zenon DEF SymbolRecord
  <2>2. \A k \in DOMAIN sym : sym[k] \in SymbolRecord
    BY <1>4, SMTT(30), SMTT(60)
  <2> QED
    BY <2>1, <2>2, Zenon
<1>6. DOMAIN sym = 1 .. N + Len(job.syms) /\ DOMAIN secs = 1 .. Len(secs) /\ Len(secs) \in Nat
  BY <1>1, <1>2, <1>4, SMTT(30), SMTT(60)
<1>7. \A i \in 1 .. N : base[i] \in Nat
  BY <1>2
<1> QED
  BY <1>1, <1>2, <1>3, <1>4, <1>5, <1>6, <1>7, Zenon

(* The section symbols of the merged sections.                             *)
LEMMA SectionSymbols ==
  ASSUME LinkInv, pc = "split", NEW j \in 1 .. N
  PROVE  /\ j \in DOMAIN sym
         /\ Defined(j) => /\ sym[j].value = base[j] /\ sym[j].sec = MergedIndex(NameOf(j))
                          /\ sym[j].sec \in DOMAIN secs /\ secs[sym[j].sec].name = NameOf(j)
         /\ ~Defined(j) => sym[j].sec = 0
<1>1. j \in 1 .. N + Len(job.syms) /\ SymbolInput(j) = j /\ SymbolOffset(j) = 0 /\ base[j] \in Nat
  BY SplitState DEF SymbolInput, SymbolOffset
<1>2. j \in DOMAIN sym
  BY <1>1, SplitState, Zenon
<1>3. ~Defined(j) => sym[j].sec = 0
  BY <1>1, Zenon DEF LinkInv, SymbolsOK
<1>4. ASSUME Defined(j)
      PROVE  /\ sym[j].value = base[j] /\ sym[j].sec = MergedIndex(NameOf(j))
             /\ sym[j].sec \in DOMAIN secs /\ secs[sym[j].sec].name = NameOf(j)
  <2>1. /\ sym[j].sec \in DOMAIN secs /\ secs[sym[j].sec].name = NameOf(j)
        /\ sym[j].value = base[j] + 0
    BY <1>1, <1>4, SplitState, Zenon DEF MergedSymbols
  <2>2. sym[j].value = base[j]
    BY <1>1, <2>1, SMTT(30), SMTT(60)
  <2>3. sym[j].sec = MergedIndex(NameOf(j))
    <3>1. j \in 1 .. Len(base)
      BY SplitState, Zenon
    <3> QED
      BY <2>1, <3>1, SplitState, MergedHome, Zenon
  <2> QED
    BY <2>1, <2>2, <2>3, Zenon
<1> QED
  BY <1>2, <1>3, <1>4, Zenon

(* The offsets at which a section is cut.                                  *)
LEMMA MarkersAre ==
  ASSUME LinkInv, pc = "split", NEW s \in DOMAIN secs
  PROVE  /\ Markers(s) \in SUBSET Nat /\ secs[s].size \in Nat
         /\ Markers(s) # {} => 0 \in Markers(s) /\ secs[s].alloc
         /\ \A m \in Markers(s) : m < secs[s].size
         /\ \A m \in Markers(s) :
              m = 0 \/ \E j \in 1 .. N : sym[j].sec = s /\ sym[j].value = m
         /\ \A m \in Markers(s) :
              m = 0 \/ \E j \in 1 .. N : NameOf(j) = secs[s].name /\ base[j] = m
         /\ \A j \in 1 .. N :
              /\ secs[s].alloc /\ Defined(j) /\ NameOf(j) = secs[s].name
              /\ base[j] < secs[s].size
              => base[j] \in Markers(s)
<1>1. secs[s].size \in Nat /\ secs[s].size = secs[s].hi
  BY SplitState, MergedSectionIs, Zenon
<1> DEFINE Here == {x \in 1 .. N : sym[x].sec = s /\ sym[x].value < secs[s].size}
<1>2. CASE ~secs[s].alloc \/ secs[s].size = 0
  <2>1. Markers(s) = {}
    BY <1>2, Zenon DEF Markers
  <2>2. \A j \in 1 .. N : secs[s].alloc => ~(base[j] < secs[s].size)
    BY <1>2, SplitState, SMTT(30), SMTT(60)
  <2> QED
    BY <1>1, <2>1, <2>2, Zenon
<1>3. CASE ~(~secs[s].alloc \/ secs[s].size = 0)
  <2>1. Markers(s) = {0} \cup {sym[i].value : i \in Here}
    BY <1>3, Zenon DEF Markers
  <2>2. \A i \in Here : sym[i].value \in Nat
    BY SectionSymbols, SplitState, Zenon
  <2>3. Markers(s) \in SUBSET Nat /\ 0 \in Markers(s)
    BY <2>1, <2>2, SMTT(30), SMTT(60)
  <2>4. \A m \in Markers(s) : m = 0 \/ \E j \in Here : sym[j].value = m
    BY <2>1, Zenon
  <2>5. \A m \in Markers(s) : m < secs[s].size
    <3>1. 0 < secs[s].size
      BY <1>1, <1>3, SMTT(30), SMTT(60)
    <3> QED
      BY <2>4, <3>1, Zenon
  <2>6. \A m \in Markers(s) : m = 0 \/ \E j \in 1 .. N : NameOf(j) = secs[s].name /\ base[j] = m
    <3>1. s # 0
      BY SplitState
    <3>2. \A j \in Here : NameOf(j) = secs[s].name /\ base[j] = sym[j].value
      BY <3>1, SectionSymbols, Zenon
    <3> QED
      BY <2>4, <3>2, ZenonT(30), ZenonT(60)
  <2>7. ASSUME NEW j \in 1 .. N, Defined(j), NameOf(j) = secs[s].name, base[j] < secs[s].size
        PROVE  base[j] \in Markers(s)
    <3>1. /\ sym[j].value = base[j] /\ sym[j].sec \in DOMAIN secs /\ secs[sym[j].sec].name = NameOf(j)
      BY <2>7, SectionSymbols, Zenon
    <3>2. sym[j].sec = s
      BY <2>7, <3>1, SplitState, Zenon DEF MergedOK
    <3>3. j \in Here
      BY <2>7, <3>1, <3>2, Zenon
    <3> QED
      BY <2>1, <3>1, <3>3, Zenon
  <2> QED
    BY <1>1, <1>3, <2>3, <2>4, <2>5, <2>6, <2>7, Zenon
<1> QED
  BY <1>2, <1>3, Zenon

(* The last marker at or before an offset.                                 *)
LEMMA LastMarkerIs ==
  ASSUME Counting, LinkInv, pc = "split", NEW s \in DOMAIN secs, IsSplit(s), NEW x \in Nat
  PROVE  /\ LastMarker(s, x) \in Markers(s) /\ LastMarker(s, x) \in Nat /\ LastMarker(s, x) <= x
         /\ \A y \in Markers(s) : y <= x => y <= LastMarker(s, x)
<1> DEFINE T == {m \in Markers(s) : m <= x}
<1>1. Markers(s) \in SUBSET Nat /\ 0 \in Markers(s)
  BY MarkersAre, Zenon DEF IsSplit
<1>2. T \in SUBSET Nat /\ T # {} /\ \A y \in T : y <= x
  BY <1>1, SMTT(30), SMTT(60)
<1>3. PICK m \in T : \A y \in T : y <= m
  BY <1>2, GreatestNat, Zenon
<1>4. m \in Markers(s) /\ m <= x /\ \A y \in Markers(s) : y <= x => y <= m
  BY <1>3, Zenon
<1>5. /\ LastMarker(s, x) \in Markers(s) /\ LastMarker(s, x) <= x
      /\ \A y \in Markers(s) : y <= x => y <= LastMarker(s, x)
  BY <1>4, Zenon DEF LastMarker
<1> QED
  BY <1>1, <1>5, Zenon

(* Where a fragment ends.                                                  *)
LEMMA FragmentEndIs ==
  ASSUME Counting, LinkInv, pc = "split", NEW s \in DOMAIN secs, NEW m \in Markers(s)
  PROVE  /\ FragmentEnd(s, m) \in Markers(s) \cup {secs[s].size}
         /\ FragmentEnd(s, m) \in Nat /\ m \in Nat /\ m < FragmentEnd(s, m)
         /\ \A y \in Markers(s) : m < y => FragmentEnd(s, m) <= y
<1> DEFINE ends == {x \in Markers(s) \cup {secs[s].size} : x > m}
<1>1. Markers(s) \in SUBSET Nat /\ secs[s].size \in Nat /\ m < secs[s].size
  BY MarkersAre, Zenon
<1>2. ends \in SUBSET Nat /\ ends # {}
  BY <1>1, SMTT(30), SMTT(60)
<1>3. PICK x \in ends : \A y \in ends : x <= y
  BY <1>2, LeastNat, Zenon
<1>4. FragmentEnd(s, m) \in ends /\ \A y \in ends : FragmentEnd(s, m) <= y
  BY <1>3, Zenon DEF FragmentEnd
<1>5. \A y \in Markers(s) : m < y => y \in ends
  BY <1>1, SMTT(30), SMTT(60)
<1> QED
  BY <1>1, <1>2, <1>4, <1>5, SMTT(30), SMTT(60)

(* The bytes of an input section lie in one fragment.                      *)
LEMMA OneFragment ==
  ASSUME Counting, LinkInv, pc = "split", NEW i \in 1 .. N, SizeOf(i) > 0, NEW s \in DOMAIN secs,
         secs[s].name = NameOf(i), IsSplit(s)
  PROVE  /\ base[i] + SizeOf(i) <= FragmentEnd(s, LastMarker(s, base[i]))
         /\ \A x \in Nat : x < SizeOf(i) => LastMarker(s, base[i] + x) = LastMarker(s, base[i])
         /\ \A m \in Markers(s) :
              m <= base[i] /\ base[i] + SizeOf(i) <= FragmentEnd(s, m) => m = LastMarker(s, base[i])
<1> DEFINE m0 == LastMarker(s, base[i])
           e0 == FragmentEnd(s, m0)
<1>1. base[i] \in Nat /\ SizeOf(i) \in Nat /\ Markers(s) \in SUBSET Nat /\ N \in Nat
  BY SplitState, MarkersAre, Zenon
<1>2. m0 \in Markers(s) /\ m0 <= base[i] /\ \A y \in Markers(s) : y <= base[i] => y <= m0
  BY <1>1, LastMarkerIs, Zenon
<1>3. /\ e0 \in Markers(s) \cup {secs[s].size} /\ e0 \in Nat /\ m0 < e0
      /\ \A y \in Markers(s) : m0 < y => e0 <= y
  BY <1>2, FragmentEndIs, Zenon
<1>4. base[i] + SizeOf(i) <= e0
  <2>1. CASE e0 = secs[s].size
    <3>1. i \in 1 .. Len(base)
      BY SplitState, Zenon
    <3>2. base[i] + SizeOf(i) <= secs[s].hi
      BY <3>1, SplitState, MergedHome, Zenon
    <3>3. secs[s].size = secs[s].hi
      BY SplitState, MergedSectionIs, Zenon
    <3> QED
      BY <2>1, <3>2, <3>3, Zenon
  <2>2. CASE e0 \in Markers(s)
    <3>1. e0 # 0
      BY <1>1, <1>2, <1>3, SMTT(30), SMTT(60)
    <3>2. PICK j \in 1 .. N : NameOf(j) = secs[s].name /\ base[j] = e0
      BY <2>2, <3>1, MarkersAre, Zenon
    <3>3. ~(e0 <= base[i])
      BY <1>1, <1>2, <1>3, <2>2, SMTT(30), SMTT(60)
    <3>4. base[j] \in Nat /\ SizeOf(j) \in Nat /\ j \in 1 .. Len(base) /\ i \in 1 .. Len(base)
      BY SplitState, Zenon
    <3>5. j < i => base[j] + SizeOf(j) <= base[i]
      BY <3>2, <3>4, SplitState, Zenon DEF InputsOK
    <3>6. i < j => base[i] + SizeOf(i) <= base[j]
      BY <3>2, <3>4, SplitState, Zenon DEF InputsOK
    <3> QED
      BY <1>1, <3>2, <3>3, <3>4, <3>5, <3>6, SMTT(30), SMTT(60)
  <2> QED
    BY <1>3, <2>1, <2>2, Zenon
<1>5. ASSUME NEW x \in Nat, x < SizeOf(i)
      PROVE  LastMarker(s, base[i] + x) = m0
  <2>1. base[i] + x \in Nat
    BY <1>1, SMTT(30), SMTT(60)
  <2>2. /\ LastMarker(s, base[i] + x) \in Markers(s) /\ LastMarker(s, base[i] + x) <= base[i] + x
        /\ \A y \in Markers(s) : y <= base[i] + x => y <= LastMarker(s, base[i] + x)
    BY <2>1, LastMarkerIs, Zenon
  <2> HIDE DEF m0, e0
  <2> QED
    BY <1>1, <1>2, <1>3, <1>4, <1>5, <2>2, SMTT(30), SMTT(60)
<1>6. ASSUME NEW m \in Markers(s), m <= base[i], base[i] + SizeOf(i) <= FragmentEnd(s, m)
      PROVE  m = m0
  <2>1. FragmentEnd(s, m) \in Nat /\ \A y \in Markers(s) : m < y => FragmentEnd(s, m) <= y
    BY FragmentEndIs, Zenon
  <2> HIDE DEF m0, e0
  <2> QED
    BY <1>1, <1>2, <1>6, <2>1, SMTT(30), SMTT(60)
<1> QED
  BY <1>4, <1>5, <1>6, Zenon

(* A cut is a section that is split and one of its markers.                *)
LEMMA CutMarkersAre ==
  /\ \A c \in CutMarkers :
       /\ c = <<c[1], c[2]>> /\ c[1] \in DOMAIN secs /\ IsSplit(c[1]) /\ c[2] \in Markers(c[1])
  /\ \A s \in DOMAIN secs : \A m \in Markers(s) : IsSplit(s) => <<s, m>> \in CutMarkers
<1>1. ASSUME NEW c \in CutMarkers
      PROVE  c = <<c[1], c[2]>> /\ c[1] \in DOMAIN secs /\ IsSplit(c[1]) /\ c[2] \in Markers(c[1])
  <2>1. PICK s \in {x \in DOMAIN secs : IsSplit(x)} : c \in {s} \X Markers(s)
    BY Zenon DEF CutMarkers
  <2>2. c = <<c[1], c[2]>> /\ c[1] = s /\ c[2] \in Markers(s)
    BY <2>1, SMTT(30), SMTT(60)
  <2> QED
    BY <2>1, <2>2, Zenon
<1>2. ASSUME NEW s \in DOMAIN secs, NEW m \in Markers(s), IsSplit(s)
      PROVE  <<s, m>> \in CutMarkers
  <2>1. <<s, m>> \in {s} \X Markers(s)
    BY Zenon
  <2> QED
    BY <1>2, <2>1, Zenon DEF CutMarkers
<1> QED
  BY <1>1, <1>2, Zenon

(* There are finitely many markers.                                        *)
LEMMA FiniteCuts ==
  ASSUME Counting, LinkInv, pc = "split"
  PROVE  IsFiniteSet(CutMarkers)
<1> DEFINE f == [i \in 0 .. N |-> IF i = 0 THEN 0 ELSE sym[i].value]
           V == {f[i] : i \in 0 .. N}
<1>1. N \in Nat /\ Len(secs) \in Nat /\ DOMAIN secs = 1 .. Len(secs)
  BY SplitState, Zenon
<1>2. TablesAreFinite
  BY Zenon DEF Counting
<1>3. CutMarkers \subseteq (1 .. Len(secs)) \X V
  <2> SUFFICES ASSUME NEW c \in CutMarkers PROVE c \in (1 .. Len(secs)) \X V
    BY Zenon
  <2>1. c = <<c[1], c[2]>> /\ c[1] \in DOMAIN secs /\ c[2] \in Markers(c[1])
    BY CutMarkersAre, Zenon
  <2>2. c[2] = 0 \/ \E j \in 1 .. N : sym[j].value = c[2]
    <3>1. \A m \in Markers(c[1]) : m = 0 \/ \E j \in 1 .. N : sym[j].sec = c[1] /\ sym[j].value = m
      BY <2>1, MarkersAre, Zenon
    <3> QED
      BY <2>1, <3>1, Zenon
  <2>3. 0 \in V
    <3>1. 0 \in 0 .. N /\ f[0] = 0
      BY <1>1, SMTT(30), SMTT(60)
    <3> QED
      BY <3>1, Zenon
  <2>4. \A j \in 1 .. N : sym[j].value \in V
    <3> SUFFICES ASSUME NEW j \in 1 .. N PROVE sym[j].value \in V
      BY Zenon
    <3>1. j \in 0 .. N /\ j # 0
      BY <1>1, SMTT(30), SMTT(60)
    <3>2. f[j] = sym[j].value
      BY <3>1, Zenon
    <3> QED
      BY <3>1, <3>2, Zenon
  <2>5. c[2] \in V
    BY <2>2, <2>3, <2>4, Zenon
  <2> HIDE DEF V
  <2>6. <<c[1], c[2]>> \in (1 .. Len(secs)) \X V
    BY <1>1, <2>1, <2>5, SMTT(30), SMTT(60)
  <2> QED
    BY <2>1, <2>6, Zenon
<1> QED
  <2> HIDE DEF f
  <2>1. \A X : X \subseteq (1 .. Len(secs)) \X {f[i] : i \in 0 .. N} => IsFiniteSet(X)
    <3>1. \A n \in Nat : \A g, X : X \subseteq (1 .. Len(secs)) \X {g[i] : i \in 0 .. n} => IsFiniteSet(X)
      BY <1>1, <1>2, Zenon DEF TablesAreFinite
    <3>2. \A g, X : X \subseteq (1 .. Len(secs)) \X {g[i] : i \in 0 .. N} => IsFiniteSet(X)
      BY <1>1, <3>1, Zenon
    <3> QED
      BY <3>2, Zenon
  <2> QED
    BY <1>3, <2>1, Zenon

(* The markers in their order, each once.                                  *)
LEMMA CutsAre ==
  ASSUME Counting, LinkInv, pc = "split"
  PROVE  \E K \in Nat :
           /\ Cuts \in [1 .. K -> CutMarkers]
           /\ \A c \in CutMarkers : \E j \in 1 .. K : Cuts[j] = c
           /\ \A i, j \in 1 .. K : Cuts[i] = Cuts[j] => i = j
<1> DEFINE S == CutMarkers
           R == CutOrder
<1>1. \A c \in S : c = <<c[1], c[2]>> /\ c[1] \in Nat /\ c[2] \in Nat
  <2> SUFFICES ASSUME NEW c \in S PROVE c = <<c[1], c[2]>> /\ c[1] \in Nat /\ c[2] \in Nat
    BY Zenon
  <2>1. c = <<c[1], c[2]>> /\ c[1] \in DOMAIN secs /\ c[2] \in Markers(c[1])
    BY CutMarkersAre, Zenon
  <2>2. Markers(c[1]) \in SUBSET Nat /\ DOMAIN secs = 1 .. Len(secs) /\ Len(secs) \in Nat
    BY <2>1, MarkersAre, SplitState, Zenon
  <2> QED
    BY <2>1, <2>2, SMTT(30), SMTT(60)
<1>2. \A x, y \in S : <<x, y>> \in R <=> x[1] < y[1] \/ (x[1] = y[1] /\ x[2] < y[2])
  BY Zenon DEF CutOrder
<1> HIDE DEF S, R
<1>3. \A x \in S : <<x, x>> \notin R
  BY <1>1, <1>2, SMTT(30), SMTT(60)
<1>4. \A x, y \in S : x # y => <<x, y>> \in R \/ <<y, x>> \in R
  <2> SUFFICES ASSUME NEW x \in S, NEW y \in S, x # y PROVE <<x, y>> \in R \/ <<y, x>> \in R
    BY Zenon
  <2>1. x[1] # y[1] \/ x[2] # y[2]
    BY <1>1, Zenon
  <2>2. x[1] \in Nat /\ x[2] \in Nat /\ y[1] \in Nat /\ y[2] \in Nat
    BY <1>1, Zenon
  <2>3. \/ x[1] < y[1] \/ (x[1] = y[1] /\ x[2] < y[2])
        \/ y[1] < x[1] \/ (y[1] = x[1] /\ y[2] < x[2])
    BY <2>1, <2>2, SMTT(30), SMTT(60)
  <2> QED
    BY <1>2, <2>3, Zenon
<1>5. \A x, y, z \in S : <<x, y>> \in R /\ <<y, z>> \in R => <<x, z>> \in R
  BY <1>1, <1>2, SMTT(30), SMTT(60)
<1>6. IsFiniteSet(S)
  BY FiniteCuts, Zenon DEF S
<1>7. /\ Cardinality(S) \in Nat
      /\ Sorted(S, R) \in [1 .. Cardinality(S) -> S]
      /\ \A x \in S : \E i \in 1 .. Cardinality(S) : Sorted(S, R)[i] = x
      /\ \A i, j \in 1 .. Cardinality(S) : i < j <=> <<Sorted(S, R)[i], Sorted(S, R)[j]>> \in R
  BY <1>3, <1>4, <1>5, <1>6, SortedIs, Zenon
<1>8. ASSUME NEW i \in 1 .. Cardinality(S), NEW j \in 1 .. Cardinality(S), Sorted(S, R)[i] = Sorted(S, R)[j]
      PROVE  i = j
  <2>1. Sorted(S, R)[i] \in S /\ Sorted(S, R)[j] \in S
    BY <1>7, Zenon
  <2>2. ~(i < j) /\ ~(j < i)
    BY <1>3, <1>7, <1>8, <2>1, Zenon
  <2> QED
    BY <1>7, <2>2, SMTT(30), SMTT(60)
<1>9. Cuts = Sorted(S, R)
  BY Zenon DEF Cuts, S, R
<1> QED
  BY <1>7, <1>8, <1>9, Zenon DEF S

(* minild_gc_fragment_for finds the fragment of the last marker.           *)
LEMMA FragmentForIs ==
  ASSUME Counting, LinkInv, pc = "split", NEW s \in DOMAIN secs, IsSplit(s), NEW x \in Nat
  PROVE  /\ FragmentFor(s, x) \in DOMAIN Cuts
         /\ Cuts[FragmentFor(s, x)] = <<s, LastMarker(s, x)>>
<1>1. PICK K \in Nat : /\ Cuts \in [1 .. K -> CutMarkers]
                       /\ \A c \in CutMarkers : \E j \in 1 .. K : Cuts[j] = c
  BY CutsAre, Zenon
<1>2. <<s, LastMarker(s, x)>> \in CutMarkers
  BY LastMarkerIs, CutMarkersAre, Zenon
<1>3. DOMAIN Cuts = 1 .. K
  BY <1>1, Zenon
<1>4. \E j \in DOMAIN Cuts : Cuts[j] = <<s, LastMarker(s, x)>>
  BY <1>1, <1>2, <1>3, Zenon
<1> QED
  BY <1>4, Zenon DEF FragmentFor

(* The fragments, in the order of their numbers.                           *)
LEMMA CutsSeq ==
  ASSUME Counting, LinkInv, pc = "split"
  PROVE  /\ Cuts \in Seq(CutMarkers) /\ Len(Cuts) \in Nat /\ DOMAIN Cuts = 1 .. Len(Cuts)
         /\ \A j \in DOMAIN Cuts :
              /\ Cuts[j] = <<Cuts[j][1], Cuts[j][2]>> /\ Cuts[j][1] \in DOMAIN secs
              /\ IsSplit(Cuts[j][1]) /\ Cuts[j][2] \in Markers(Cuts[j][1])
         /\ \A i, j \in DOMAIN Cuts : Cuts[i] = Cuts[j] => i = j
<1>1. PICK K \in Nat : /\ Cuts \in [1 .. K -> CutMarkers]
                       /\ \A i, j \in 1 .. K : Cuts[i] = Cuts[j] => i = j
  BY CutsAre, Zenon
<1>2. Cuts \in Seq(CutMarkers) /\ Len(Cuts) = K /\ DOMAIN Cuts = 1 .. K
  BY <1>1, SequenceIs, Zenon
<1>3. \A j \in DOMAIN Cuts : Cuts[j] \in CutMarkers
  BY <1>1, <1>2, Zenon
<1> QED
  BY <1>1, <1>2, <1>3, CutMarkersAre, Zenon

(* Where a byte of a section goes.                                         *)
LEMMA PieceIs ==
  ASSUME Counting, LinkInv, pc = "split", NEW s \in 0 .. Len(secs), NEW x \in Nat
  PROVE  /\ PieceStart(s, x) \in Nat /\ PieceStart(s, x) <= x
         /\ PieceOf(s, x) \in 0 .. Len(secs) + Len(Cuts)
         /\ s = 0 <=> PieceOf(s, x) = 0
         /\ s # 0 /\ IsSplit(s) =>
              /\ FragmentFor(s, x) \in DOMAIN Cuts
              /\ Cuts[FragmentFor(s, x)] = <<s, LastMarker(s, x)>>
              /\ PieceOf(s, x) = Len(secs) + FragmentFor(s, x) /\ PieceStart(s, x) = LastMarker(s, x)
         /\ s # 0 /\ ~IsSplit(s) => PieceOf(s, x) = s /\ PieceStart(s, x) = 0
<1>1. Len(secs) \in Nat /\ Len(Cuts) \in Nat /\ DOMAIN Cuts = 1 .. Len(Cuts) /\ DOMAIN secs = 1 .. Len(secs)
  BY SplitState, CutsSeq, Zenon
<1>2. CASE s = 0 \/ ~IsSplit(s)
  <2>1. PieceOf(s, x) = s /\ PieceStart(s, x) = 0
    BY <1>2, Zenon DEF PieceOf, PieceStart
  <2> QED
    BY <1>1, <1>2, <2>1, SMTT(30), SMTT(60)
<1>3. CASE s # 0 /\ IsSplit(s)
  <2>1. s \in DOMAIN secs
    BY <1>1, <1>3, SMTT(30), SMTT(60)
  <2>2. FragmentFor(s, x) \in DOMAIN Cuts /\ Cuts[FragmentFor(s, x)] = <<s, LastMarker(s, x)>>
    BY <1>3, <2>1, FragmentForIs, Zenon
  <2>3. LastMarker(s, x) \in Nat /\ LastMarker(s, x) <= x
    BY <1>3, <2>1, LastMarkerIs, Zenon
  <2>4. PieceOf(s, x) = Len(secs) + FragmentFor(s, x) /\ PieceStart(s, x) = Cuts[FragmentFor(s, x)][2]
    BY <1>3, Zenon DEF PieceOf, PieceStart
  <2>5. PieceStart(s, x) = LastMarker(s, x)
    BY <2>2, <2>4, SMTT(30), SMTT(60)
  <2> QED
    BY <1>1, <1>3, <2>2, <2>3, <2>4, <2>5, SMTT(30), SMTT(60)
<1> QED
  BY <1>2, <1>3, Zenon

(* The sections that minild_gc_restore_input_sections leaves: those that   *)
(* are not split, the emptied ones, the fragments.                         *)
LEMMA CutSections ==
  ASSUME Counting, LinkInv, RestoreInputSections
  PROVE  /\ Len(secs') = Len(secs) + Len(Cuts) /\ DOMAIN secs' = 1 .. Len(secs) + Len(Cuts)
         /\ \A s \in DOMAIN secs :
              secs'[s] = IF IsSplit(s) THEN [secs[s] EXCEPT !.size = 0, !.hi = 0] ELSE secs[s]
         /\ \A j \in DOMAIN Cuts : secs'[Len(secs) + j] = Fragment(Cuts[j])
<1> DEFINE A == [s \in DOMAIN secs |->
                   IF IsSplit(s) THEN [secs[s] EXCEPT !.size = 0, !.hi = 0] ELSE secs[s]]
           B == [j \in DOMAIN Cuts |-> Fragment(Cuts[j])]
           T == {A[s] : s \in DOMAIN secs} \cup {B[j] : j \in DOMAIN Cuts}
<1>1. secs' = A \o B
  BY Zenon DEF RestoreInputSections
<1>2. pc = "split"
  BY Zenon DEF RestoreInputSections, Goto
<1>3. Len(secs) \in Nat /\ Len(Cuts) \in Nat /\ DOMAIN Cuts = 1 .. Len(Cuts) /\ DOMAIN secs = 1 .. Len(secs)
  BY <1>2, SplitState, CutsSeq, Zenon
<1>4. A \in [1 .. Len(secs) -> T] /\ B \in [1 .. Len(Cuts) -> T]
  <2>1. \A s \in DOMAIN secs : A[s] \in T
    BY Zenon
  <2>2. \A j \in DOMAIN Cuts : B[j] \in T
    BY Zenon
  <2>3. A = [s \in DOMAIN secs |-> A[s]] /\ B = [j \in DOMAIN Cuts |-> B[j]]
    BY Zenon
  <2> HIDE DEF A, B, T
  <2> QED
    BY <1>3, <2>1, <2>2, <2>3, Zenon
<1>5. /\ \A s \in DOMAIN secs :
           A[s] = IF IsSplit(s) THEN [secs[s] EXCEPT !.size = 0, !.hi = 0] ELSE secs[s]
      /\ \A j \in DOMAIN Cuts : B[j] = Fragment(Cuts[j])
  BY Zenon
<1> HIDE DEF A, B, T
<1>6. A \in Seq(T) /\ Len(A) = Len(secs) /\ B \in Seq(T) /\ Len(B) = Len(Cuts)
  BY <1>3, <1>4, SequenceIs, Zenon
<1>7. /\ Len(secs') = Len(secs) + Len(Cuts) /\ DOMAIN secs' = 1 .. Len(secs) + Len(Cuts)
      /\ \A s \in DOMAIN secs : secs'[s] = A[s]
      /\ \A j \in DOMAIN Cuts : secs'[Len(secs) + j] = B[j]
  <2>1. Len(A \o B) = Len(secs) + Len(Cuts) /\ DOMAIN (A \o B) = 1 .. Len(secs) + Len(Cuts)
    BY <1>3, <1>6, SMTT(30), SMTT(60)
  <2>2. ASSUME NEW s \in 1 .. Len(secs) PROVE (A \o B)[s] = A[s]
    BY <1>3, <1>6, SMTT(30), SMTT(60)
  <2>3. ASSUME NEW j \in 1 .. Len(Cuts) PROVE (A \o B)[Len(secs) + j] = B[j]
    <3>1. Len(secs) + j \in 1 .. Len(A) + Len(B) /\ Len(secs) + j > Len(A) /\ (Len(secs) + j) - Len(A) = j
      BY <1>3, <1>6, SMTT(30), SMTT(60)
    <3> QED
      BY <1>3, <1>6, <3>1, SMTT(30), SMTT(60)
  <2> QED
    BY <1>1, <1>3, <2>1, <2>2, <2>3, Zenon
<1> QED
  BY <1>5, <1>7, Zenon

(* What each of these sections covers.                                     *)
LEMMA CutSectionsAre ==
  ASSUME Counting, LinkInv, RestoreInputSections
  PROVE  /\ \A s \in DOMAIN secs : IsSplit(s) =>
              secs'[s].name = secs[s].name /\ secs'[s].hi = 0 /\ secs'[s] \in Section /\ SectionOK(s)'
         /\ \A s \in DOMAIN secs : ~IsSplit(s) =>
              secs'[s] = secs[s] /\ secs'[s] \in Section /\ SectionOK(s)' /\ secs'[s].lo = 0
         /\ \A j \in DOMAIN Cuts : \A t : t = Len(secs) + j =>
                  /\ secs'[t].name = secs[Cuts[j][1]].name /\ secs'[t].lo = Cuts[j][2]
                  /\ secs'[t].hi = FragmentEnd(Cuts[j][1], Cuts[j][2])
                  /\ secs'[t] \in Section /\ SectionOK(t)'
<1>1. pc = "split" /\ pc' = "order"
  BY Zenon DEF RestoreInputSections, Goto
<1>2. ~Pruned /\ ~Pruned'
  BY <1>1, SMTT(30), SMTT(60) DEF Pruned
<1>3. InputsOK /\ MergedOK /\ \A s \in DOMAIN secs : secs[s] \in Section
  <2>1. InputsOK /\ MergedOK /\ secs \in Seq(Section)
    BY Zenon DEF LinkInv, InputsOK
  <2> QED
    BY <2>1, SMTT(30), SMTT(60)
<1>4. \A s \in DOMAIN secs : SectionOK(s) /\ secs[s].lo = 0
  BY <1>1, <1>3, MergedSectionIs, Zenon
<1>5. ASSUME NEW s \in DOMAIN secs, IsSplit(s)
      PROVE  secs'[s].name = secs[s].name /\ secs'[s].hi = 0 /\ secs'[s] \in Section /\ SectionOK(s)'
  <2>1. secs'[s] = [secs[s] EXCEPT !.size = 0, !.hi = 0]
    BY <1>5, CutSections, Zenon
  <2>2. /\ secs'[s] \in Section /\ secs'[s].name = secs[s].name /\ secs'[s].lo = secs[s].lo
        /\ secs'[s].hi = 0 /\ secs'[s].size = 0
        /\ secs'[s].alloc = secs[s].alloc /\ secs'[s].root = secs[s].root
    <3> DEFINE x == secs[s]
               y == secs'[s]
    <3>1. x \in Section /\ y = [x EXCEPT !.size = 0, !.hi = 0]
      BY <1>3, <2>1, Zenon
    <3> HIDE DEF x, y
    <3>2. y.name = x.name /\ y.lo = x.lo /\ y.hi = 0 /\ y.size = 0 /\ y.alloc = x.alloc /\ y.root = x.root
      BY <3>1, SMTT(30), SMTT(60) DEF Section
    <3>3. y \in Section
      BY <3>1, Zenon DEF Section
    <3> QED
      BY <3>2, <3>3, SMTT(30), SMTT(60) DEF x, y
  <2>3. secs'[s].hi = secs'[s].lo + secs'[s].size
    BY <1>4, <2>2, SMTT(30), SMTT(60)
  <2> QED
    BY <1>4, <2>2, <2>3, Zenon DEF SectionOK
<1>6. ASSUME NEW s \in DOMAIN secs, ~IsSplit(s)
      PROVE  secs'[s] = secs[s] /\ secs'[s] \in Section /\ SectionOK(s)' /\ secs'[s].lo = 0
  <2>1. secs'[s] = secs[s]
    BY <1>6, CutSections, Zenon
  <2> QED
    BY <1>2, <1>3, <1>4, <2>1, Zenon DEF SectionOK
<1>7. ASSUME NEW j \in DOMAIN Cuts, NEW t, t = Len(secs) + j
      PROVE  /\ secs'[t].name = secs[Cuts[j][1]].name /\ secs'[t].lo = Cuts[j][2]
             /\ secs'[t].hi = FragmentEnd(Cuts[j][1], Cuts[j][2])
             /\ secs'[t] \in Section /\ SectionOK(t)'
  <2> DEFINE s == Cuts[j][1]
             lo == Cuts[j][2]
             hi == FragmentEnd(s, lo)
             n == secs[s].name
  <2>1. s \in DOMAIN secs /\ lo \in Markers(s)
    BY <1>1, CutsSeq, Zenon
  <2>2. lo \in Nat /\ hi \in Nat /\ lo < hi
    BY <1>1, <2>1, FragmentEndIs, Zenon
  <2>3. n \in Name
    BY <1>3, <2>1, SMTT(30), SMTT(60) DEF Section
  <2>4. secs'[t] = MakeSection(n, lo, hi, BySuffix)
    BY <1>7, CutSections, Zenon DEF Fragment
  <2> HIDE DEF s, lo, hi, n
  <2>5. lo <= hi /\ BySuffix \in {ByName, BySuffix}
    BY <2>2, SMTT(30), SMTT(60)
  <2>6. /\ secs'[t] \in Section
        /\ secs'[t].name = n /\ secs'[t].lo = lo /\ secs'[t].hi = hi /\ secs'[t].size = hi - lo
        /\ secs'[t].alloc <=> Attr[n].alloc
        /\ Attr[n].root # "exact" =>
             (secs'[t].root <=> Attr[n].alloc /\ Attr[n].root = "family")
    <3> DEFINE y == MakeSection(n, lo, hi, BySuffix)
    <3>1. /\ y \in Section
          /\ y.name = n /\ y.lo = lo /\ y.hi = hi /\ y.size = hi - lo
          /\ y.alloc <=> Attr[n].alloc
          /\ Attr[n].root # "exact" =>
               (y.root <=> Attr[n].alloc /\ Attr[n].root = "family")
      BY <2>2, <2>3, <2>5, MakeSectionIs, SMTT(30), SMTT(60)
    <3> HIDE DEF y
    <3> QED
      BY <2>4, <3>1, Zenon DEF y
  <2>7. secs'[t].hi = secs'[t].lo + secs'[t].size
    BY <2>2, <2>6, SMTT(30), SMTT(60)
  <2> QED
    BY <2>6, <2>7, Zenon DEF SectionOK, s, lo, hi, n
<1> QED
  BY <1>5, <1>6, <1>7, Zenon

=============================================================================

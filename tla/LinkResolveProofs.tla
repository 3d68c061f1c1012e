------------------------- MODULE LinkResolveProofs -------------------------
(***************************************************************************)
(* What the input phase of minic-ld guarantees for every command line and  *)
(* every set of files: the entry of a name is the strongest that an object *)
(* has given it, or the linker's own, a search takes no member twice and   *)
(* leaves none that is needed, and a static link has no dangling           *)
(* reference.                                                              *)
(***************************************************************************)
EXTENDS LinkResolve, SequenceTheorems, TLAPS

(* What the object at place i of `merged` says about n.                    *)
Said(i, n) == TableOf(merged[i])[n]

(* An object that is in one of the files.                                  *)
IsObject(o) == o \in Object /\ o[2] \in DOMAIN Members(o[1])

ObjectsExist == \A i \in DOMAIN merged : IsObject(merged[i])

(* The entry of a name is the strongest thing an object has said about it, *)
(* and, of weak definitions, the first.                                    *)
ResolvedAt(n) ==
  /\ syms[n].entry = "strong" =>
       \E i \in DOMAIN merged :
         /\ Said(i, n) = "strong" /\ syms[n].by = merged[i]
         /\ \A j \in DOMAIN merged : Said(j, n) = "strong" => j = i
  /\ syms[n].entry = "weak" =>
       \E i \in DOMAIN merged :
         /\ Said(i, n) = "weak" /\ syms[n].by = merged[i]
         /\ \A j \in DOMAIN merged :
              Said(j, n) # "strong" /\ (Said(j, n) = "weak" => i <= j)
  /\ syms[n].entry \notin Defined =>
       syms[n].by = NoObject /\ \A j \in DOMAIN merged : Said(j, n) \notin Defined
  /\ syms[n].entry = "undef" => \E i \in DOMAIN merged : Said(i, n) = "undef"
  /\ syms[n].entry = "wundef" =>
       /\ \E i \in DOMAIN merged : Said(i, n) = "wundef"
       /\ \A j \in DOMAIN merged : Said(j, n) # "undef"
  /\ syms[n].entry = "none" => \A j \in DOMAIN merged : Said(j, n) = "none"

AllResolved == \A n \in Name : ResolvedAt(n)

OneStrong(n) ==
  \A i, j \in DOMAIN merged : Said(i, n) = "strong" /\ Said(j, n) = "strong" => i = j

(* The linker defines names only when no object is merged any more.        *)
Late == {"relocate", "linked", "failed"}

Resolved == \A n \in Name : ResolvedAt(n) \/ (MadeByLinker(n) /\ OneStrong(n))

(* Where the loops are in the list of inputs.                              *)
InGroup == pc = "group" \/ (pc = "scan" /\ ret = "group")

Places ==
  /\ pc \in {"scan", "whole"} => IsArchive(cur)
  /\ pc = "whole" \/ (pc = "scan" /\ ret = "inputs") => idx <= Len(Inputs)
  /\ InGroup => idx <= gpos /\ gpos <= gend
  /\ pc = "scan" /\ ret = "group" => gpos < gend /\ cur = GroupPath

(* A search: what it has selected is part of the link, and what a pass     *)
(* that has selected nothing has gone by is not needed.                    *)
Searching ==
  pc = "scan" =>
    /\ \A k \in selected : \E i \in DOMAIN merged : merged[i] = <<cur, k>>
    /\ ~changed => \A k \in 1 .. mi - 1 : ~Needed(Members(cur)[k])

(* A pass over a group that has added nothing has gone by archives that    *)
(* have nothing to offer.                                                  *)
GroupSearched ==
  InGroup /\ Len(merged) = before => \A g \in idx .. gpos - 1 : Exhausted(Inputs[g].path)

Linked ==
  pc = "linked" /\ job.mode = "static" => \A n \in Name : ~UnresolvedNonweak(n)

LinkInv ==
  /\ TypeOK /\ Places /\ ObjectsExist /\ Resolved
  /\ Searching /\ GroupSearched /\ Linked

-----------------------------------------------------------------------------
(* Files.                                                                  *)

(* The members of a file are symbol tables; only an archive has more or    *)
(* fewer than one.                                                         *)
LEMMA FileFacts ==
  ASSUME job \in Job
  PROVE  /\ Inputs \in Seq([kind : InputKind, path : Path])
         /\ \A p \in Path : Members(p) \in Seq(Table)
         /\ \A p \in Path : ~IsArchive(p) => 1 \in DOMAIN Members(p)
<1>1. Inputs \in Seq([kind : InputKind, path : Path]) /\ job.file \in [Path -> File]
  BY DEF Job, Inputs
<1>2. ASSUME NEW p \in Path
      PROVE  Members(p) \in Seq(Table) /\ (~IsArchive(p) => 1 \in DOMAIN Members(p))
  <2>1. job.file[p] \in File
    BY <1>1
  <2>2. CASE job.file[p] \in [type : {"archive"}, members : Seq(Table)]
    BY <2>2 DEF Members, IsArchive, FileAt
  <2>3. CASE job.file[p] \in [type : {"object", "dso"}, members : [1 .. 1 -> Table]]
    <3>1. job.file[p].members \in [1 .. 1 -> Table]
      BY <2>3
    <3>2. job.file[p].members \in Seq(Table) /\ DOMAIN job.file[p].members = 1 .. 1
      BY <3>1, SeqDef, 1 \in Nat, Zenon
    <3> QED
      BY <3>2 DEF Members, FileAt
  <2> QED
    BY <2>1, <2>2, <2>3 DEF File
<1> QED
  BY <1>1, <1>2

(* A place in the list of inputs names a file.                             *)
LEMMA InputFacts ==
  ASSUME job \in Job, NEW k \in 1 .. Len(Inputs)
  PROVE  Inputs[k].path \in Path
<1>1. Inputs \in Seq([kind : InputKind, path : Path])
  BY FileFacts, Zenon
<1>2. Inputs[k] \in [kind : InputKind, path : Path]
  BY <1>1, ElementOfSeq, Zenon
<1> QED
  BY <1>2

(* What a linked object says about a name is an entry.                     *)
LEMMA SaysEntry ==
  ASSUME job \in Job, NEW o, IsObject(o), NEW n \in Name
  PROVE  TableOf(o)[n] \in Entry
<1>1. o[1] \in Path /\ o[2] \in DOMAIN Members(o[1])
  BY DEF IsObject, Object
<1>2. Members(o[1])[o[2]] \in Table
  BY <1>1, FileFacts
<1> QED
  BY <1>2, Zenon DEF Table, TableOf, Members, FileAt

-----------------------------------------------------------------------------
(* The symbol table.                                                       *)

(* The table has taken in object o.                                        *)
Merges(o) ==
  /\ ~MultipleDefinition(o)
  /\ syms' = [n \in Name |-> MergeSymbol(syms[n], TableOf(o)[n], o)]
  /\ merged' = Append(merged, o)

(* One more object at the end of `merged`.                                 *)
LEMMA AppendFacts ==
  ASSUME merged \in Seq(Object), NEW o \in Object, merged' = Append(merged, o)
  PROVE  /\ Len(merged) \in Nat /\ Len(merged') = Len(merged) + 1
         /\ merged' \in Seq(Object)
         /\ DOMAIN merged = 1 .. Len(merged)
         /\ DOMAIN merged' = DOMAIN merged \cup {Len(merged) + 1}
         /\ Len(merged) + 1 \notin DOMAIN merged
         /\ \A i \in DOMAIN merged : merged'[i] = merged[i] /\ i <= Len(merged) + 1
         /\ merged'[Len(merged) + 1] = o
OBVIOUS

(* A name's entry stays right when an object is merged.                    *)
LEMMA MergeResolves ==
  ASSUME TypeOK, ObjectsExist, AllResolved, job' = job,
         NEW o, IsObject(o), Merges(o)
  PROVE  ObjectsExist' /\ AllResolved'
<1> DEFINE L == Len(merged) + 1
<1>1. merged \in Seq(Object) /\ job \in Job /\ syms \in [Name -> SymbolState] /\ o \in Object
  BY DEF TypeOK, IsObject
<1>2. merged' = Append(merged, o)
  BY DEF Merges
<1>3. /\ DOMAIN merged' = DOMAIN merged \cup {L}
      /\ L \notin DOMAIN merged
      /\ \A i \in DOMAIN merged : merged'[i] = merged[i] /\ i <= L
      /\ merged'[L] = o
      /\ \A i \in DOMAIN merged : i \in Nat
      /\ L \in Nat
  BY <1>1, <1>2, AppendFacts
<1> HIDE DEF L
<1>4. \A x : IsObject(x)' <=> IsObject(x)
  BY DEF IsObject, Members, FileAt
<1>5. ObjectsExist'
  BY <1>3, <1>4 DEF ObjectsExist
<1>6. ASSUME NEW n \in Name
      PROVE  ResolvedAt(n)'
  <2> DEFINE new == TableOf(o)[n]
  <2>1. /\ \A i \in DOMAIN merged :
             i \in DOMAIN merged' /\ merged'[i] = merged[i] /\ Said(i, n)' = Said(i, n) /\ i <= L
        /\ \A j \in DOMAIN merged' :
             j \in DOMAIN merged \/ (j = L /\ merged'[j] = o /\ Said(j, n)' = new)
        /\ L \in DOMAIN merged'
    BY <1>3, Zenon DEF Said, TableOf, FileAt
  <2>2. new \in Entry
    BY <1>1, SaysEntry
  <2>3. syms'[n] = MergeSymbol(syms[n], new, o)
    BY Zenon DEF Merges
  <2>4. ~(syms[n].entry = "strong" /\ new = "strong")
    BY Zenon DEF Merges, MultipleDefinition
  <2>5. ResolvedAt(n)
    BY Zenon DEF AllResolved
  <2>6. syms[n].entry \in Entry
    BY <1>1 DEF SymbolState
  <2> HIDE DEF new
  <2>7. CASE /\ syms[n].entry \in Defined => new # "strong"
             /\ syms[n].entry \notin Defined => new \notin Defined
             /\ syms[n].entry = "wundef" => new # "undef"
             /\ syms[n].entry = "none" => new = "none"
    <3>1. syms'[n] = syms[n]
      BY <2>3, <2>6, <2>7, Zenon DEF MergeSymbol, Entry, Defined, Undefined
    <3>2. syms[n].entry = "strong" =>
            \E i \in DOMAIN merged' :
              /\ Said(i, n)' = "strong" /\ syms[n].by = merged'[i]
              /\ \A j \in DOMAIN merged' : Said(j, n)' = "strong" => j = i
      <4> SUFFICES ASSUME syms[n].entry = "strong"
                   PROVE  \E i \in DOMAIN merged' :
                            /\ Said(i, n)' = "strong" /\ syms[n].by = merged'[i]
                            /\ \A j \in DOMAIN merged' : Said(j, n)' = "strong" => j = i
        OBVIOUS
      <4>1. PICK i \in DOMAIN merged :
              /\ Said(i, n) = "strong" /\ syms[n].by = merged[i]
              /\ \A j \in DOMAIN merged : Said(j, n) = "strong" => j = i
        BY <2>5, Zenon DEF ResolvedAt
      <4>2. new # "strong"
        BY <2>7, Zenon DEF Defined
      <4>3. \A j \in DOMAIN merged' : Said(j, n)' = "strong" => j = i
        BY <2>1, <4>1, <4>2, Zenon
      <4> QED
        BY <2>1, <4>1, <4>3, Zenon
    <3>3. syms[n].entry = "weak" =>
            \E i \in DOMAIN merged' :
              /\ Said(i, n)' = "weak" /\ syms[n].by = merged'[i]
              /\ \A j \in DOMAIN merged' :
                   Said(j, n)' # "strong" /\ (Said(j, n)' = "weak" => i <= j)
      <4> SUFFICES ASSUME syms[n].entry = "weak"
                   PROVE  \E i \in DOMAIN merged' :
                            /\ Said(i, n)' = "weak" /\ syms[n].by = merged'[i]
                            /\ \A j \in DOMAIN merged' :
                                 Said(j, n)' # "strong" /\ (Said(j, n)' = "weak" => i <= j)
        OBVIOUS
      <4>1. PICK i \in DOMAIN merged :
              /\ Said(i, n) = "weak" /\ syms[n].by = merged[i]
              /\ \A j \in DOMAIN merged :
                   Said(j, n) # "strong" /\ (Said(j, n) = "weak" => i <= j)
        BY <2>5, Zenon DEF ResolvedAt
      <4>2. new # "strong"
        BY <2>7, Zenon DEF Defined
      <4>3. \A j \in DOMAIN merged' :
              Said(j, n)' # "strong" /\ (Said(j, n)' = "weak" => i <= j)
        BY <2>1, <4>1, <4>2, Zenon
      <4> QED
        BY <2>1, <4>1, <4>3, Zenon
    <3>4. /\ syms[n].entry \notin Defined => syms[n].by = NoObject
          /\ syms[n].entry \notin Defined => \A j \in DOMAIN merged' : Said(j, n)' \notin Defined
      BY <2>1, <2>5, <2>7, Zenon DEF ResolvedAt
    <3>5. /\ syms[n].entry = "undef" => \E i \in DOMAIN merged' : Said(i, n)' = "undef"
          /\ syms[n].entry = "wundef" =>
               /\ \E i \in DOMAIN merged' : Said(i, n)' = "wundef"
               /\ \A j \in DOMAIN merged' : Said(j, n)' # "undef"
          /\ syms[n].entry = "none" => \A j \in DOMAIN merged' : Said(j, n)' = "none"
      BY <2>1, <2>5, <2>7, Zenon DEF ResolvedAt
    <3> QED
      BY <3>1, <3>2, <3>3, <3>4, <3>5, Zenon DEF ResolvedAt
  <2>8. CASE new = "strong" \/ (new = "weak" /\ syms[n].entry \notin Defined)
    <3>1. syms'[n] = [entry |-> new, by |-> o]
      BY <2>3, <2>4, <2>6, <2>8, Zenon DEF MergeSymbol, Entry, Defined, Undefined
    <3>2. \A j \in DOMAIN merged :
            Said(j, n) # "strong" /\ (new = "weak" => Said(j, n) # "weak")
      BY <2>4, <2>5, <2>6, <2>8, Zenon DEF ResolvedAt, Entry, Defined
    <3>3. syms'[n].entry = new /\ syms'[n].by = o
      BY <3>1
    <3>4. PICK i \in DOMAIN merged' :
            /\ Said(i, n)' = new /\ merged'[i] = o
            /\ \A j \in DOMAIN merged' : j = i \/ (j \in DOMAIN merged /\ Said(j, n)' = Said(j, n))
      BY <1>3, <2>1, Zenon
    <3>5. \A j \in DOMAIN merged' :
            /\ Said(j, n)' = "strong" => j = i
            /\ new = "weak" => Said(j, n)' # "strong" /\ (Said(j, n)' = "weak" => j = i)
      BY <2>1, <3>2, <3>4, Zenon
    <3>6. i \in Nat /\ i <= i
      BY <1>3
    <3> QED
      BY <2>8, <3>3, <3>4, <3>5, <3>6, Zenon DEF ResolvedAt, Defined
  <2>9. CASE \/ syms[n].entry = "none" /\ new \in Undefined
             \/ syms[n].entry = "wundef" /\ new = "undef"
    <3>1. syms'[n] = [entry |-> new, by |-> NoObject]
      BY <2>3, <2>9, Zenon DEF MergeSymbol, Defined, Undefined
    <3>2. \A j \in DOMAIN merged :
            Said(j, n) \notin Defined /\ (new = "wundef" => Said(j, n) # "undef")
      BY <2>5, <2>9, Zenon DEF ResolvedAt, Defined, Undefined
    <3>3. syms'[n].entry = new /\ syms'[n].by = NoObject
      BY <3>1
    <3>4. \E i \in DOMAIN merged' : Said(i, n)' = new
      BY <1>3, <2>1, Zenon
    <3>5. new \in Undefined
      BY <2>9, Zenon DEF Undefined
    <3>6. \A j \in DOMAIN merged' :
            Said(j, n)' \notin Defined /\ (new = "wundef" => Said(j, n)' # "undef")
      BY <2>1, <3>2, <3>5, Zenon DEF Defined, Undefined
    <3> QED
      BY <3>3, <3>4, <3>5, <3>6, Zenon DEF ResolvedAt, Defined, Undefined
  <2> QED
    BY <2>2, <2>4, <2>6, <2>7, <2>8, <2>9 DEF Entry, Defined, Undefined
<1> QED
  BY <1>5, <1>6 DEF AllResolved

(* The entry of a name keeps its type.                                     *)
LEMMA MergeSymbolType ==
  ASSUME NEW old \in SymbolState, NEW new \in Entry, NEW o \in Object
  PROVE  MergeSymbol(old, new, o) \in SymbolState
<1>1. \/ MergeSymbol(old, new, o) = old
      \/ MergeSymbol(old, new, o) = [entry |-> new, by |-> o]
      \/ MergeSymbol(old, new, o) = [entry |-> new, by |-> NoObject]
  <2>1. CASE new = "none" \/ old.entry = "strong" \/ (old.entry = "weak" /\ new # "strong")
    BY <2>1, Zenon DEF MergeSymbol, Defined, Undefined
  <2>2. CASE old.entry = "weak" /\ new = "strong"
    BY <2>2, Zenon DEF MergeSymbol, Defined, Undefined
  <2>3. CASE old.entry \in Undefined /\ new \in Defined
    BY <2>3, Zenon DEF MergeSymbol, Defined, Undefined
  <2>4. CASE old.entry \in Undefined /\ new \in Undefined
    BY <2>4, Zenon DEF MergeSymbol, Defined, Undefined
  <2>5. CASE old.entry = "none" /\ new # "none"
    BY <2>5, Zenon DEF MergeSymbol, Defined, Undefined
  <2> QED
    BY <2>1, <2>2, <2>3, <2>4, <2>5 DEF SymbolState, Entry, Defined, Undefined
<1> QED
  BY <1>1 DEF SymbolState

(* A search wants nothing of what is linked: an entry that is still        *)
(* undefined is one that no linked object defines.                         *)
LEMMA LinkedNotNeeded ==
  ASSUME Resolved, NEW i \in DOMAIN merged
  PROVE  ~Needed(TableOf(merged[i]))
<1> SUFFICES ASSUME NEW n \in Name, TableOf(merged[i])[n] \in Defined, syms[n].entry = "undef"
             PROVE  FALSE
  BY Zenon DEF Needed, UnresolvedNonweak
<1>1. ResolvedAt(n)
  <2>1. ~MadeByLinker(n)
    BY DEF MadeByLinker, Own
  <2> QED
    BY <2>1, Zenon DEF Resolved
<1>2. "undef" \notin Defined
  BY DEF Defined
<1> QED
  BY <1>1, <1>2, Zenon DEF ResolvedAt, Said

-----------------------------------------------------------------------------
(* What a step does to the table.                                          *)

TableOK ==
  merged \in Seq(Object) /\ dso \subseteq Name /\ needed \in BOOLEAN /\ syms \in [Name -> SymbolState]

(* The table stays, one object joins it, or the linker's own names do.     *)
TableStep ==
  UNCHANGED <<merged, syms>> \/ LinkerSymbols \/ \E o : IsObject(o) /\ Merges(o)

LEMMA MergeObjectStep ==
  ASSUME job \in Job, TableOK, NEW o, IsObject(o), MergeObject(o)
  PROVE  TableOK' /\ TableStep /\ why' = why /\ Len(merged') = Len(merged) + 1
<1>1. Merges(o) /\ dso' = dso /\ needed' = needed /\ why' = why
  BY Zenon DEF MergeObject, Merges
<1>2. merged' \in Seq(Object) /\ Len(merged') = Len(merged) + 1
  BY <1>1, AppendFacts DEF Merges, TableOK, IsObject
<1>3. syms' \in [Name -> SymbolState]
  <2>1. \A n \in Name : MergeSymbol(syms[n], TableOf(o)[n], o) \in SymbolState
    BY SaysEntry, MergeSymbolType DEF TableOK, IsObject
  <2> QED
    BY <1>1, <2>1, Zenon DEF Merges
<1> QED
  BY <1>1, <1>2, <1>3, Zenon DEF TableOK, TableStep

LEMMA FailStep ==
  ASSUME TableOK, NEW r, Fail(r)
  PROVE  TableOK' /\ TableStep /\ UNCHANGED control /\ merged' = merged /\ pc' = "failed" /\ why' = r
BY Zenon DEF Fail, TableOK, TableStep, table

(* A file that is not an archive.                                          *)
LEMMA ProcessInputStep ==
  ASSUME job \in Job, TableOK, NEW p \in Path, ~IsArchive(p), ProcessInput(p)
  PROVE  TableOK' /\ TableStep /\ why' = why /\ merged' \in {merged, Append(merged, <<p, 1>>)}
<1>1. CASE IsDso(p) /\ MergeDso(p)
  <2>1. dso' \subseteq Name
    BY <1>1 DEF MergeDso, TableOK
  <2> QED
    BY <1>1, <2>1, Zenon DEF MergeDso, TableOK, TableStep
<1>2. CASE MergeObject(<<p, 1>>)
  <2>1. IsObject(<<p, 1>>)
    BY FileFacts DEF IsObject, Object
  <2> QED
    BY <1>2, <2>1, MergeObjectStep, Zenon DEF MergeObject
<1> QED
  BY <1>1, <1>2, Zenon DEF ProcessInput

LEMMA ProcessInputFailsStep ==
  ASSUME TableOK, NEW p, ProcessInputFails(p)
  PROVE  /\ TableOK' /\ TableStep /\ UNCHANGED control /\ merged' = merged /\ pc' = "failed"
         /\ why' \in {"shared-input", "multiple-definition"}
BY FailStep, Zenon DEF ProcessInputFails, ClashObject

-----------------------------------------------------------------------------
(* Type correctness.                                                       *)

Reasons ==
  {"none", "multiple-definition", "shared-input", "expected-archive", "no-input",
   "linker-symbol", "undefined", "unreadable"}

(* The rest of TypeOK: flags, and where the loops are.                     *)
Flags ==
  /\ first \in BOOLEAN /\ changed \in BOOLEAN /\ ret \in {"inputs", "group"} /\ why \in Reasons
  /\ pc \in {"inputs", "whole", "scan", "group", "resolve", "relocate", "linked", "failed"}

Counters ==
  /\ idx \in 1 .. Len(Inputs) + 1
  /\ gend \in 1 .. Len(Inputs) + 1 /\ gpos \in 1 .. Len(Inputs) + 1
  /\ before \in 0 .. Len(merged)
  /\ cur \in Path /\ mi \in 1 .. Len(Members(cur)) + 1 /\ selected \subseteq Nat
  /\ pc = "scan" => selected \subseteq 1 .. Len(Members(cur))

LEMMA TypeSplit == TypeOK <=> job \in Job /\ TableOK /\ Flags /\ Counters
BY Zenon DEF TypeOK, TableOK, Flags, Counters, Reasons

(* The lengths the loops compare with.                                     *)
LEMMA Lengths ==
  ASSUME job \in Job, TableOK
  PROVE  /\ Len(Inputs) \in Nat /\ Len(merged) \in Nat
         /\ \A p \in Path : Len(Members(p)) \in Nat
         /\ \A k \in 1 .. Len(Inputs) : Inputs[k].path \in Path
         /\ \A p \in Path : DOMAIN Members(p) = 1 .. Len(Members(p))
<1>1. Inputs \in Seq([kind : InputKind, path : Path]) /\ merged \in Seq(Object)
  BY FileFacts, Zenon DEF TableOK
<1>2. \A p \in Path : Members(p) \in Seq(Table)
  BY FileFacts, Zenon
<1>3. \A p \in Path : Len(Members(p)) \in Nat /\ DOMAIN Members(p) = 1 .. Len(Members(p))
  BY <1>2
<1> QED
  BY <1>1, <1>3, InputFacts

(* The job is fixed, and with it the files.                                *)
LEMMA SameFiles ==
  ASSUME job' = job
  PROVE  /\ Inputs' = Inputs
         /\ \A p : Members(p)' = Members(p) /\ (IsArchive(p)' <=> IsArchive(p))
         /\ \A o : TableOf(o)' = TableOf(o)
BY Zenon DEF Inputs, Members, IsArchive, TableOf, FileAt

(* A step behind the loops leaves them where they are.                     *)
LEMMA EndStep ==
  ASSUME Flags, Counters, Places, job' = job, UNCHANGED control, merged' = merged,
         pc' \in Late, why' \in Reasons
  PROVE  Flags' /\ Counters' /\ Places'
<1>1. /\ Inputs' = Inputs
      /\ \A p : Members(p)' = Members(p) /\ (IsArchive(p)' <=> IsArchive(p))
  BY SameFiles, Zenon
<1>2. pc' # "scan" /\ pc' # "group" /\ pc' # "whole"
  BY DEF Late
<1>3. Flags'
  BY Zenon DEF Flags, Late, control
<1> QED
  BY <1>1, <1>2, <1>3, Zenon DEF Counters, Places, InGroup, control

(* What a step has to keep.                                                *)
GoodStep == TableOK' /\ Flags' /\ Counters' /\ Places' /\ TableStep

(* One step of a loop over inputs, members or a group.                     *)
LEMMA LoopStep ==
  ASSUME TypeOK, Places, job' = job,
         \/ InputArchive \/ InputWhole \/ InputGroup \/ InputsEnd \/ WholeEnd \/ ScanSkip
         \/ ScanAgain \/ ScanEnd \/ GroupArchive \/ GroupAgain \/ GroupEnd
  PROVE  GoodStep
<1>1. job \in Job /\ TableOK /\ Flags /\ Counters
  BY TypeSplit, Zenon
<1>2. /\ Len(Inputs) \in Nat /\ Len(merged) \in Nat
      /\ \A p \in Path : Len(Members(p)) \in Nat
      /\ \A k \in 1 .. Len(Inputs) : Inputs[k].path \in Path
  BY <1>1, Lengths, Zenon
<1>3. UNCHANGED <<table, why>>
  BY Zenon DEF InputArchive, InputWhole, InputGroup, InputsEnd, WholeEnd, ScanSkip, ScanAgain,
     ScanEnd, GroupArchive, GroupAgain, GroupEnd, OpenArchive
<1>4. /\ Inputs' = Inputs /\ merged' = merged
      /\ \A p : Members(p)' = Members(p) /\ (IsArchive(p)' <=> IsArchive(p))
  BY <1>3, SameFiles, Zenon DEF table
<1>5. TableOK' /\ TableStep
  BY <1>1, <1>3, Zenon DEF table, TableOK, TableStep
<1>6. Flags'
  BY <1>1, <1>3, Zenon DEF Flags, InputArchive, InputWhole, InputGroup, InputsEnd, WholeEnd,
     ScanSkip, ScanAgain, ScanEnd, GroupArchive, GroupAgain, GroupEnd, OpenArchive, control
<1> SUFFICES Counters' /\ Places'
  BY <1>5, <1>6, Zenon DEF GoodStep
<1>7. CASE InputArchive
  <2>1. Counters'
    BY <1>7, <1>1, <1>2, <1>4 DEF InputArchive, AtInput, OpenArchive, InputPath, Counters, Places, InGroup
  <2>2. Places'
    BY <1>7, <1>1, <1>2, <1>4 DEF InputArchive, AtInput, OpenArchive, InputPath, Counters, Flags, Places, InGroup, GroupPath
  <2> QED
    BY <2>1, <2>2, Zenon
<1>8. CASE InputWhole
  <2>1. Counters'
    BY <1>8, <1>1, <1>2, <1>4 DEF InputWhole, AtInput, InputPath, Counters, Places, InGroup
  <2>2. Places'
    BY <1>8, <1>1, <1>2, <1>4 DEF InputWhole, AtInput, InputPath, Counters, Flags, Places, InGroup, GroupPath
  <2> QED
    BY <2>1, <2>2, Zenon
<1>9. CASE InputGroup
  <2>1. Counters'
    BY <1>9, <1>1, <1>2, <1>4 DEF InputGroup, AtInput, Counters, Places, InGroup
  <2>2. Places'
    BY <1>9, <1>1, <1>2, <1>4, SMTT(30), SMTT(60) DEF InputGroup, AtInput, Counters, Flags, Places, InGroup, GroupPath
  <2> QED
    BY <2>1, <2>2, Zenon
<1>10. CASE InputsEnd
  <2>1. Counters'
    BY <1>10, <1>1, <1>2, <1>4 DEF InputsEnd, control, Counters, Places, InGroup
  <2>2. Places'
    BY <1>10, <1>1, <1>2, <1>4 DEF InputsEnd, control, Counters, Flags, Places, InGroup, GroupPath
  <2> QED
    BY <2>1, <2>2, Zenon
<1>11. CASE WholeEnd
  <2>1. Counters'
    BY <1>11, <1>1, <1>2, <1>4 DEF WholeEnd, Counters, Places, InGroup
  <2>2. Places'
    BY <1>11, <1>1, <1>2, <1>4 DEF WholeEnd, Counters, Flags, Places, InGroup, GroupPath
  <2> QED
    BY <2>1, <2>2, Zenon
<1>12. CASE ScanSkip
  <2>1. Counters'
    BY <1>12, <1>1, <1>2, <1>4 DEF ScanSkip, Counters, Places, InGroup
  <2>2. Places'
    BY <1>12, <1>1, <1>2, <1>4 DEF ScanSkip, Counters, Flags, Places, InGroup, GroupPath
  <2> QED
    BY <2>1, <2>2, Zenon
<1>13. CASE ScanAgain
  <2>1. Counters'
    BY <1>13, <1>1, <1>2, <1>4 DEF ScanAgain, Counters, Places, InGroup
  <2>2. Places'
    BY <1>13, <1>1, <1>2, <1>4 DEF ScanAgain, Counters, Flags, Places, InGroup, GroupPath
  <2> QED
    BY <2>1, <2>2, Zenon
<1>14. CASE ScanEnd
  <2>1. Counters'
    <3>1. pc' # "scan"
      BY <1>1, <1>14, Zenon DEF ScanEnd, Flags
    <3> QED
      BY <1>14, <1>1, <1>2, <1>4, <3>1, SMTT(30), SMTT(60) DEF ScanEnd, Counters, Places, InGroup
  <2>2. Places'
    BY <1>14, <1>1, <1>2, <1>4 DEF ScanEnd, Counters, Flags, Places, InGroup, GroupPath
  <2> QED
    BY <2>1, <2>2, Zenon
<1>15. CASE GroupArchive
  <2>1. Counters'
    BY <1>15, <1>1, <1>2, <1>4 DEF GroupArchive, OpenArchive, GroupPath, Counters, Places, InGroup
  <2>2. Places'
    BY <1>15, <1>1, <1>2, <1>4 DEF GroupArchive, OpenArchive, GroupPath, Counters, Flags, Places, InGroup
  <2> QED
    BY <2>1, <2>2, Zenon
<1>16. CASE GroupAgain
  <2>1. Counters'
    BY <1>16, <1>1, <1>2, <1>4 DEF GroupAgain, Counters, Places, InGroup
  <2>2. Places'
    BY <1>16, <1>1, <1>2, <1>4 DEF GroupAgain, Counters, Flags, Places, InGroup, GroupPath
  <2> QED
    BY <2>1, <2>2, Zenon
<1>17. CASE GroupEnd
  <2>1. Counters'
    BY <1>17, <1>1, <1>2, <1>4 DEF GroupEnd, Counters, Places, InGroup
  <2>2. Places'
    BY <1>17, <1>1, <1>2, <1>4 DEF GroupEnd, Counters, Flags, Places, InGroup, GroupPath
  <2> QED
    BY <2>1, <2>2, Zenon
<1> QED
  BY <1>7, <1>8, <1>9, <1>10, <1>11, <1>12, <1>13, <1>14, <1>15, <1>16, <1>17, Zenon

(* A step that processes an object, or ends the link.                      *)
LEMMA ObjectStep ==
  ASSUME TypeOK, Places, job' = job,
         \/ InputObject \/ InputNotArchive \/ WholeMember \/ ScanSelect
         \/ GroupObject \/ LinkerSymbols \/ LinkerSymbolsFail \/ Resolve \/ ReadFails
  PROVE  GoodStep
<1>1. job \in Job /\ TableOK /\ Flags /\ Counters
  BY TypeSplit, Zenon
<1>2. /\ Len(Inputs) \in Nat /\ Len(merged) \in Nat
      /\ \A p \in Path : Len(Members(p)) \in Nat
      /\ \A k \in 1 .. Len(Inputs) : Inputs[k].path \in Path
      /\ \A p \in Path : DOMAIN Members(p) = 1 .. Len(Members(p))
  BY <1>1, Lengths, Zenon
<1>3. /\ Inputs' = Inputs
      /\ \A p : Members(p)' = Members(p) /\ (IsArchive(p)' <=> IsArchive(p))
  BY SameFiles, Zenon
<1>4. ASSUME TableOK', TableStep, UNCHANGED control, merged' = merged,
             pc' \in Late, why' \in Reasons
      PROVE  GoodStep
  BY <1>1, <1>4, EndStep, Zenon DEF GoodStep
<1>5. ASSUME NEW r \in Reasons, Fail(r)
      PROVE  GoodStep
  BY <1>1, <1>4, <1>5, FailStep, Zenon DEF Late
<1>6. ASSUME NEW p, ProcessInputFails(p)
      PROVE  GoodStep
  <2>1. why' \in Reasons
    BY <1>1, <1>6, ProcessInputFailsStep DEF Reasons
  <2> QED
    BY <1>1, <1>4, <1>6, <2>1, ProcessInputFailsStep, Zenon DEF Late
<1>7. {"expected-archive", "unreadable", "multiple-definition", "undefined", "no-input",
       "linker-symbol"} \subseteq Reasons
  BY DEF Reasons
<1>8. ASSUME NEW o, ClashObject(o)
      PROVE  GoodStep
  BY <1>5, <1>7, <1>8, Zenon DEF ClashObject
<1>9. ASSUME NEW p \in Path, ~IsArchive(p), ProcessInput(p)
      PROVE  TableOK' /\ TableStep /\ why' = why /\ Len(merged') \in Nat /\ Len(merged) <= Len(merged')
  <2>1. TableOK' /\ TableStep /\ why' = why /\ merged' \in {merged, Append(merged, <<p, 1>>)}
    BY <1>1, <1>9, ProcessInputStep, Zenon
  <2>2. <<p, 1>> \in Object /\ merged \in Seq(Object)
    BY <1>1 DEF Object, TableOK
  <2> QED
    BY <1>2, <2>1, <2>2
<1>10. CASE InputNotArchive \/ ReadFails \/ LinkerSymbolsFail
  BY <1>5, <1>7, <1>10, Zenon DEF InputNotArchive, ReadFails, LinkerSymbolsFail
<1>16. CASE LinkerSymbols
  <2>1. UNCHANGED <<control, merged, dso, needed, why>> /\ pc' = "relocate"
    BY <1>16, Zenon DEF LinkerSymbols
  <2>2. syms' \in [Name -> SymbolState]
    <3>1. Own \in SymbolState /\ syms \in [Name -> SymbolState]
      BY <1>1 DEF Own, SymbolState, Entry, TableOK
    <3> QED
      BY <1>16, <3>1, Zenon DEF LinkerSymbols, SynthesizeBoundaries, DefineIfUndefined, DefineDynamicNames
  <2>3. TableOK' /\ TableStep /\ pc' \in Late /\ why' \in Reasons
    BY <1>1, <1>16, <2>1, <2>2, Zenon DEF TableOK, TableStep, Late, Flags
  <2> QED
    BY <1>4, <2>1, <2>3, Zenon
<1>11. CASE Resolve
  <2>1. UNCHANGED <<control, table>> /\ pc' \in Late /\ why' \in {why, "undefined"}
    BY <1>11, Zenon DEF Resolve, Late
  <2>2. TableOK' /\ TableStep /\ merged' = merged /\ why' \in Reasons
    BY <1>1, <1>7, <2>1, Zenon DEF table, TableOK, TableStep, Flags
  <2> QED
    BY <1>4, <2>1, <2>2, Zenon
<1>12. CASE InputObject
  <2>1. pc = "inputs" /\ idx <= Len(Inputs) /\ ~IsArchive(InputPath)
    BY <1>12, Zenon DEF InputObject, AtInput
  <2>2. InputPath \in Path
    BY <1>1, <1>2, <2>1 DEF InputPath, Counters
  <2>3. ASSUME ProcessInput(InputPath), idx' = idx + 1,
               UNCHANGED <<pc, gend, gpos, first, before, ret, cur, mi, selected, changed>>
        PROVE  GoodStep
    <3>1. TableOK' /\ TableStep /\ why' = why /\ Len(merged') \in Nat /\ Len(merged) <= Len(merged')
      BY <1>9, <2>1, <2>2, <2>3, Zenon
    <3>2. Flags'
      BY <1>1, <2>3, <3>1, Zenon DEF Flags
    <3>3. Counters' /\ Places'
      BY <1>1, <1>2, <1>3, <2>1, <2>3, <3>1, SMTT(30), SMTT(60) DEF Counters, Places, InGroup
    <3> QED
      BY <3>1, <3>2, <3>3, Zenon DEF GoodStep
  <2> QED
    BY <1>6, <1>12, <2>3, Zenon DEF InputObject
<1>13. CASE WholeMember
  <2>1. pc = "whole" /\ mi <= Len(Members(cur)) /\ IsObject(<<cur, mi>>)
    BY <1>1, <1>2, <1>13, SMTT(30), SMTT(60) DEF WholeMember, Counters, IsObject, Object
  <2>2. ASSUME MergeObject(<<cur, mi>>), mi' = mi + 1,
               UNCHANGED <<pc, idx, gend, gpos, first, before, ret, cur, selected, changed>>
        PROVE  GoodStep
    <3>1. TableOK' /\ TableStep /\ why' = why /\ Len(merged') = Len(merged) + 1
      BY <1>1, <2>1, <2>2, MergeObjectStep, Zenon
    <3>2. Flags'
      BY <1>1, <2>2, <3>1, Zenon DEF Flags
    <3>3. Counters' /\ Places'
      BY <1>1, <1>2, <1>3, <2>1, <2>2, <3>1, SMTT(30), SMTT(60) DEF Counters, Places, InGroup
    <3> QED
      BY <3>1, <3>2, <3>3, Zenon DEF GoodStep
  <2> QED
    BY <1>8, <1>13, <2>2, Zenon DEF WholeMember
<1>14. CASE ScanSelect
  <2>1. pc = "scan" /\ mi <= Len(Members(cur)) /\ IsObject(<<cur, mi>>)
    BY <1>1, <1>2, <1>14 DEF ScanSelect, Counters, IsObject, Object
  <2>2. ASSUME MergeObject(<<cur, mi>>), mi' = mi + 1, selected' = selected \cup {mi}, changed' = TRUE,
               UNCHANGED <<pc, idx, gend, gpos, first, before, ret, cur>>
        PROVE  GoodStep
    <3>1. TableOK' /\ TableStep /\ why' = why /\ Len(merged') = Len(merged) + 1
      BY <1>1, <2>1, <2>2, MergeObjectStep, Zenon
    <3>2. Flags'
      BY <1>1, <2>2, <3>1, Zenon DEF Flags
    <3>3. Counters'
      BY <1>1, <1>2, <1>3, <2>1, <2>2, <3>1, SMTT(30), SMTT(60) DEF Counters
    <3>4. Places'
      BY <1>1, <1>2, <1>3, <2>1, <2>2, Zenon DEF Places, InGroup, GroupPath
    <3> QED
      BY <3>1, <3>2, <3>3, <3>4, Zenon DEF GoodStep
  <2> QED
    BY <1>8, <1>14, <2>2, Zenon DEF ScanSelect
<1>15. CASE GroupObject
  <2>1. pc = "group" /\ gpos < gend /\ ~IsArchive(GroupPath)
    BY <1>15, Zenon DEF GroupObject
  <2>2. GroupPath \in Path
    BY <1>1, <1>2, <2>1 DEF GroupPath, Counters
  <2>3. ASSUME ProcessInput(GroupPath) \/ UNCHANGED <<table, why>>, gpos' = gpos + 1,
               UNCHANGED <<pc, idx, gend, first, before, ret, cur, mi, selected, changed>>
        PROVE  GoodStep
    <3>1. TableOK' /\ TableStep /\ why' = why /\ Len(merged') \in Nat /\ Len(merged) <= Len(merged')
      <4>1. CASE ProcessInput(GroupPath)
        BY <1>9, <2>1, <2>2, <4>1, Zenon
      <4>2. CASE UNCHANGED <<table, why>>
        <5>1. TableOK' /\ TableStep /\ why' = why /\ merged' = merged
          BY <1>1, <4>2, Zenon DEF table, TableOK, TableStep
        <5> QED
          BY <1>2, <5>1
      <4> QED
        BY <2>3, <4>1, <4>2, Zenon
    <3>2. Flags'
      BY <1>1, <2>3, <3>1, Zenon DEF Flags
    <3>3. Counters' /\ Places'
      BY <1>1, <1>2, <1>3, <2>1, <2>3, <3>1 DEF Counters, Places, InGroup
    <3> QED
      BY <3>1, <3>2, <3>3, Zenon DEF GoodStep
  <2> QED
    BY <1>6, <1>15, <2>3, Zenon DEF GroupObject
<1> QED
  BY <1>10, <1>11, <1>12, <1>13, <1>14, <1>15, <1>16, Zenon

(* Every step keeps the types and the files.                               *)
LEMMA StepTypes ==
  ASSUME TypeOK, Places, Step \/ ReadFails
  PROVE  job' = job /\ TypeOK' /\ Places' /\ TableStep
<1>1. job' = job
  BY Zenon DEF Step, ReadFails, InputArchive, InputObject, InputNotArchive, InputWhole,
     InputGroup, InputsEnd, WholeMember, WholeEnd, ScanSkip, ScanSelect, ScanAgain, ScanEnd,
     GroupArchive, GroupObject, GroupAgain, GroupEnd, LinkerSymbols, LinkerSymbolsFail, Resolve, OpenArchive
<1>2. GoodStep
  BY <1>1, LoopStep, ObjectStep, Zenon DEF Step
<1>3. (job \in Job)' /\ (TypeOK' <=> (job \in Job)' /\ TableOK' /\ Flags' /\ Counters')
  <2>1. job \in Job
    BY Zenon DEF TypeOK
  <2> QED
    BY <1>1, <2>1, Zenon DEF TypeOK, TableOK, Flags, Counters, Reasons
<1> QED
  BY <1>1, <1>2, <1>3, Zenon DEF GoodStep

-----------------------------------------------------------------------------
(* Searches.                                                               *)

(* What is needed depends on the table and the files alone.                *)
LEMMA SameNeeds ==
  ASSUME job' = job, syms' = syms
  PROVE  /\ \A t : Needed(t)' <=> Needed(t)
         /\ \A p : Exhausted(p)' <=> Exhausted(p)
<1>1. \A t : Needed(t)' <=> Needed(t)
  BY Zenon DEF Needed, UnresolvedNonweak
<1>2. \A p : Members(p)' = Members(p) /\ (IsArchive(p)' <=> IsArchive(p))
  BY SameFiles, Zenon
<1>3. \A p : Exhausted(p)' <=> Exhausted(p)
  BY <1>2, Zenon DEF Exhausted, Needed, UnresolvedNonweak
<1> QED
  BY <1>1, <1>3, Zenon

(* Behind the loops nothing is merged.                                     *)
LEMMA LateStep ==
  ASSUME Step \/ ReadFails, pc \in Late
  PROVE  pc' \in Late /\ UNCHANGED <<merged, syms>>
<1>1. /\ pc # "inputs" /\ pc # "whole" /\ pc # "scan" /\ pc # "group" /\ pc # "resolve"
      /\ "linked" \in Late /\ "failed" \in Late
  BY DEF Late
<1>2. Resolve \/ ReadFails
  BY <1>1, Zenon DEF Step, AtInput, InputArchive, InputObject, InputNotArchive, InputWhole, InputGroup,
     InputsEnd, WholeMember, WholeEnd, ScanSkip, ScanSelect, ScanAgain, ScanEnd, GroupArchive,
     GroupObject, GroupAgain, GroupEnd, LinkerSymbols, LinkerSymbolsFail
<1> QED
  BY <1>1, <1>2, Zenon DEF Resolve, ReadFails, Fail, table

(* Before that the table holds only what the objects say.                  *)
LEMMA EarlyResolved ==
  ASSUME Resolved, pc \notin Late
  PROVE  AllResolved
BY Zenon DEF Resolved, AllResolved, MadeByLinker, Late

(* The names the linker defines are names it provides, and no object       *)
(* defines them, up to an absolute __ehdr_start.                           *)
LEMMA LinkerSymbolsStep ==
  ASSUME LinkerSymbols, job \in Job, ObjectsExist, AllResolved, syms \in [Name -> SymbolState]
  PROVE  ObjectsExist' /\ Resolved'
<1>1. job' = job /\ merged' = merged /\ pc' = "relocate"
  BY Zenon DEF LinkerSymbols
<1>2. ObjectsExist'
  BY <1>1, Zenon DEF ObjectsExist, IsObject, Members, FileAt
<1>3. \A i, n : Said(i, n)' = Said(i, n)
  BY <1>1, Zenon DEF Said, TableOf, FileAt
<1>4. \A n : Definitions(n)' = Definitions(n)
  BY <1>1, Zenon DEF Definitions, Says, TableOf, FileAt
<1>5. Provided' = Provided /\ (AllowDso' <=> AllowDso)
  BY <1>1, Zenon DEF Provided, AllowDso
<1>6. ASSUME NEW n \in Name
      PROVE  ResolvedAt(n)' \/ (MadeByLinker(n)' /\ OneStrong(n)')
  <2>1. ResolvedAt(n)
    BY Zenon DEF AllResolved
  <2>2. CASE syms'[n] = syms[n]
    BY <1>1, <1>3, <2>1, <2>2 DEF ResolvedAt
  <2>3. OneStrong(n)'
    <3>1. OneStrong(n)
      <4>1. syms[n].entry \in Entry
        BY DEF SymbolState
      <4> QED
        BY <2>1, <4>1, Zenon DEF ResolvedAt, OneStrong, Entry, Defined
    <3> QED
      BY <1>1, <1>3, <3>1, Zenon DEF OneStrong
  <2>4. ASSUME syms[n].entry \notin Defined
        PROVE  Definitions(n) = {}
    BY <2>1, <2>4, Zenon DEF ResolvedAt, Definitions, Says, Said, Defined
  <2>5. CASE syms'[n] # syms[n]
    <3>1. \/ /\ job.mode = "static" /\ syms'[n] = Own /\ syms[n].entry \notin Defined
             /\ n \in Boundary \cup {p[1] : p \in Arrays} \cup {p[2] : p \in Arrays}
          \/ /\ AllowDso /\ syms'[n] = Own /\ n \in {Dynamic, EhdrStart}
             /\ n = EhdrStart \/ syms[n].entry \notin Defined
      <4>1. CASE job.mode = "static" /\ SynthesizeBoundaries
        <5>1. PICK S \in SUBSET Arrays :
                DefineIfUndefined(LET pairs == {p \in Arrays : NeedArrayBoundPair(p, S)} IN
                                  Boundary \cup {p[1] : p \in pairs} \cup {p[2] : p \in pairs})
          BY <4>1, Zenon DEF SynthesizeBoundaries
        <5>2. /\ n \in Boundary \cup {p[1] : p \in Arrays} \cup {p[2] : p \in Arrays}
              /\ syms'[n] = Own /\ syms[n].entry \notin Defined
          BY <2>5, <5>1, Zenon DEF DefineIfUndefined
        <5> QED
          BY <4>1, <5>2, Zenon
      <4>2. CASE AllowDso /\ DefineDynamicNames
        BY <2>5, <4>2, Zenon DEF DefineDynamicNames, DynamicNames
      <4> QED
        BY <2>5, <4>1, <4>2, Zenon DEF LinkerSymbols
    <3>2. n \in Provided
      <4>1. CASE job.mode = "static"
        BY <3>1, <4>1 DEF Provided, AllowDso
      <4>2. CASE job.mode # "static"
        BY <3>1, <4>2, Zenon DEF Provided
      <4> QED
        BY <4>1, <4>2, Zenon
    <3>3. MadeByLinker(n)'
      <4>1. Own' = Own
        BY DEF Own
      <4> QED
        BY <1>1, <1>4, <1>5, <2>4, <3>1, <3>2, <4>1, Zenon DEF MadeByLinker
    <3> QED
      BY <2>3, <3>3, Zenon
  <2> QED
    BY <2>2, <2>5, Zenon
<1> QED
  BY <1>2, <1>6, Zenon DEF Resolved

(* Every step keeps the table right.                                       *)
LEMMA StepResolves ==
  ASSUME TypeOK, ObjectsExist, Resolved, job' = job, TableStep,
         pc \in Late => pc' \in Late /\ UNCHANGED <<merged, syms>>
  PROVE  ObjectsExist' /\ Resolved'
<1>1. CASE UNCHANGED <<merged, syms>>
  <2>1. ObjectsExist'
    BY <1>1, Zenon DEF ObjectsExist, IsObject, Members, FileAt
  <2>2. \A i, n : Said(i, n)' = Said(i, n)
    BY <1>1, Zenon DEF Said, TableOf, FileAt
  <2>3. ASSUME NEW n \in Name
        PROVE  ResolvedAt(n)' \/ (MadeByLinker(n)' /\ OneStrong(n)')
    <3>1. CASE ResolvedAt(n)
      BY <1>1, <2>2, <3>1 DEF ResolvedAt
    <3>2. CASE MadeByLinker(n) /\ OneStrong(n)
      <4>1. pc' \in Late
        BY <3>2, Zenon DEF MadeByLinker, Late
      <4>2. Definitions(n)' = Definitions(n) /\ Provided' = Provided /\ (AllowDso' <=> AllowDso)
        BY <1>1, Zenon DEF Definitions, Says, TableOf, FileAt, Provided, AllowDso
      <4>3. MadeByLinker(n)'
        BY <1>1, <3>2, <4>1, <4>2, Zenon DEF MadeByLinker, Late, Own
      <4>4. OneStrong(n)'
        BY <1>1, <2>2, <3>2, Zenon DEF OneStrong
      <4> QED
        BY <4>3, <4>4, Zenon
    <3> QED
      BY <3>1, <3>2, Zenon DEF Resolved
  <2> QED
    BY <2>1, <2>3, Zenon DEF Resolved
<1>2. CASE pc \notin Late
  <2>1. AllResolved
    BY <1>2, EarlyResolved, Zenon
  <2>2. ASSUME NEW o, IsObject(o), Merges(o)
        PROVE  ObjectsExist' /\ Resolved'
    <3>1. ObjectsExist' /\ AllResolved'
      BY <2>1, <2>2, MergeResolves, Zenon
    <3> QED
      BY <3>1, Zenon DEF AllResolved, Resolved
  <2>3. CASE LinkerSymbols
    BY <2>1, <2>3, LinkerSymbolsStep, Zenon DEF TypeOK
  <2> QED
    BY <1>1, <2>2, <2>3, Zenon DEF TableStep
<1> QED
  BY <1>1, <1>2, Zenon

(* The end of a pass that selected nothing is the end of the search.       *)
LEMMA PassIsExhaustive ==
  ASSUME TypeOK, Searching, pc = "scan", mi > Len(Members(cur)), ~changed
  PROVE  Exhausted(cur)
<1>1. job \in Job /\ TableOK /\ Counters
  BY TypeSplit, Zenon
<1>2. Len(Members(cur)) \in Nat /\ DOMAIN Members(cur) = 1 .. Len(Members(cur)) /\ mi \in Nat
  BY <1>1, Lengths DEF Counters
<1>3. \A k \in 1 .. mi - 1 : ~Needed(Members(cur)[k])
  BY Zenon DEF Searching
<1>4. \A k \in DOMAIN Members(cur) : k \in 1 .. mi - 1
  BY <1>2
<1> QED
  BY <1>3, <1>4, Zenon DEF Exhausted

LEMMA StepSearching ==
  ASSUME TypeOK, Places, Resolved, Searching, Step \/ ReadFails, job' = job
  PROVE  Searching'
<1>1. job \in Job /\ TableOK /\ Counters /\ Flags
  BY TypeSplit, Zenon
<1>2. Len(Members(cur)) \in Nat /\ mi \in Nat /\ mi >= 1
  BY <1>1, Lengths DEF Counters
<1>3. \A p : Members(p)' = Members(p)
  BY SameFiles, Zenon
<1>4. CASE InputArchive \/ GroupArchive
  <2>1. selected' = {} /\ mi' = 1
    BY <1>4, Zenon DEF InputArchive, GroupArchive, OpenArchive
  <2>2. \A k \in 1 .. mi' - 1 : FALSE
    BY <2>1
  <2> QED
    BY <2>1, <2>2, Zenon DEF Searching
<1>5. CASE ScanSkip
  <2>1. pc = "scan" /\ mi' = mi + 1 /\ UNCHANGED <<merged, syms, cur, selected, changed>> /\ ~Wanted
    BY <1>5, Zenon DEF ScanSkip, table
  <2>2. ~Needed(Members(cur)[mi])
    <3>1. CASE mi \in selected
      <4>1. PICK i \in DOMAIN merged : merged[i] = <<cur, mi>>
        BY <2>1, <3>1, Zenon DEF Searching
      <4>2. TableOf(merged[i]) = Members(cur)[mi]
        BY <4>1 DEF TableOf, Members
      <4> QED
        BY <4>2, LinkedNotNeeded, Zenon
    <3> QED
      BY <2>1, <3>1, Zenon DEF Wanted
  <2>3. \A k \in 1 .. mi' - 1 : k \in 1 .. mi - 1 \/ k = mi
    BY <1>2, <2>1
  <2>4. \A t : Needed(t)' <=> Needed(t)
    BY <2>1, SameNeeds, Zenon
  <2>5. ASSUME ~changed, NEW k \in 1 .. mi' - 1
        PROVE  ~Needed(Members(cur)[k])
    BY <2>1, <2>2, <2>3, <2>5, Zenon DEF Searching
  <2> QED
    BY <1>3, <2>1, <2>4, <2>5, Zenon DEF Searching, Needed, UnresolvedNonweak
<1>6. CASE ScanSelect
  <2>1. CASE ClashObject(<<cur, mi>>)
    <3>1. pc' = "failed"
      BY <2>1, Zenon DEF ClashObject, Fail
    <3> QED
      BY <3>1 DEF Searching
  <2>2. ASSUME MergeObject(<<cur, mi>>), selected' = selected \cup {mi}, changed' = TRUE, cur' = cur
        PROVE  Searching'
    <3>1. <<cur, mi>> \in Object /\ merged \in Seq(Object) /\ merged' = Append(merged, <<cur, mi>>)
      BY <1>1, <1>2, <2>2 DEF MergeObject, Counters, TableOK, Object
    <3>2. /\ \A i \in DOMAIN merged : i \in DOMAIN merged' /\ merged'[i] = merged[i]
          /\ \E i \in DOMAIN merged' : merged'[i] = <<cur, mi>>
      BY <3>1, AppendFacts, Zenon
    <3>3. \A k \in selected : \E i \in DOMAIN merged : merged[i] = <<cur, k>>
      BY <1>6, Zenon DEF ScanSelect, Searching
    <3>4. \A k \in selected' : \E i \in DOMAIN merged' : merged'[i] = <<cur', k>>
      BY <2>2, <3>2, <3>3, Zenon
    <3> QED
      BY <2>2, <3>4, Zenon DEF Searching
  <2> QED
    BY <1>6, <2>1, <2>2, Zenon DEF ScanSelect
<1>7. CASE ScanAgain
  <2>1. pc = "scan" /\ mi' = 1 /\ UNCHANGED <<merged, cur, selected>>
    BY <1>7, Zenon DEF ScanAgain, table
  <2>2. \A k \in 1 .. mi' - 1 : FALSE
    BY <2>1
  <2> QED
    BY <2>1, <2>2, Zenon DEF Searching
<1>8. CASE ~(InputArchive \/ GroupArchive \/ ScanSkip \/ ScanSelect \/ ScanAgain)
  <2>1. pc' # "scan"
    <3>1. CASE InputWhole \/ InputGroup \/ InputsEnd \/ WholeEnd \/ GroupAgain \/ GroupEnd
      BY <3>1, SMTT(30), SMTT(60) DEF InputWhole, InputGroup, InputsEnd, WholeEnd, GroupAgain, GroupEnd
    <3>4. CASE LinkerSymbols \/ LinkerSymbolsFail \/ Resolve
      BY <3>4, SMTT(30), SMTT(60) DEF LinkerSymbols, LinkerSymbolsFail, Resolve, Fail
    <3>2. CASE InputObject \/ InputNotArchive \/ WholeMember \/ GroupObject \/ ReadFails
      BY <3>2 DEF InputObject, InputNotArchive, WholeMember, GroupObject, ReadFails, AtInput,
         ProcessInputFails, ClashObject, Fail
    <3>3. CASE ScanEnd
      BY <1>1, <3>3 DEF ScanEnd, Flags
    <3> QED
      BY <1>8, <3>1, <3>2, <3>3, <3>4, Zenon DEF Step
  <2> QED
    BY <2>1, Zenon DEF Searching
<1> QED
  BY <1>4, <1>5, <1>6, <1>7, <1>8, Zenon

LEMMA StepGroupSearched ==
  ASSUME TypeOK, TypeOK', Places, Searching, GroupSearched, Step \/ ReadFails, job' = job
  PROVE  GroupSearched'
<1>1. job \in Job /\ TableOK /\ Counters /\ Flags
  BY TypeSplit, Zenon
<1>2. /\ Len(merged) \in Nat /\ Len(Inputs) \in Nat
      /\ idx \in Nat /\ gpos \in Nat /\ gend \in Nat /\ before \in Nat /\ before <= Len(merged)
  BY <1>1, Lengths DEF Counters
<1>3. Inputs' = Inputs
  BY SameFiles, Zenon
<1>4. ASSUME syms' = syms, merged' = merged, before' = before, idx' = idx, InGroup,
             gpos' = gpos \/ (gpos' = gpos + 1 /\ Exhausted(GroupPath))
      PROVE  GroupSearched'
  <2>1. \A p : Exhausted(p)' <=> Exhausted(p)
    BY <1>4, SameNeeds, Zenon
  <2>2. \A g \in idx .. gpos' - 1 : g \in idx .. gpos - 1 \/ (g = gpos /\ Exhausted(GroupPath))
    BY <1>2, <1>4
  <2>3. ASSUME Len(merged) = before, NEW g \in idx .. gpos' - 1
        PROVE  Exhausted(Inputs[g].path)
    BY <1>4, <2>2, <2>3, Zenon DEF GroupSearched, GroupPath
  <2>4. ASSUME Len(merged) = before, NEW g \in idx' .. gpos' - 1
        PROVE  Exhausted(Inputs[g].path)'
    BY <1>3, <1>4, <2>1, <2>3, <2>4, Zenon
  <2> QED
    BY <1>4, <2>4, Zenon DEF GroupSearched
<1>5. CASE InputGroup \/ GroupAgain
  <2>1. gpos' = idx /\ idx' = idx
    BY <1>5, Zenon DEF InputGroup, GroupAgain
  <2>2. \A g \in idx' .. gpos' - 1 : FALSE
    BY <1>2, <2>1
  <2> QED
    BY <2>2, Zenon DEF GroupSearched
<1>6. CASE GroupArchive \/ ScanSkip \/ ScanAgain
  <2>1. UNCHANGED <<syms, merged, before, idx, gpos>>
    BY <1>6, Zenon DEF GroupArchive, OpenArchive, ScanSkip, ScanAgain, table
  <2>2. InGroup' => InGroup
    BY <1>6, Zenon DEF GroupArchive, ScanSkip, ScanAgain, InGroup
  <2> QED
    BY <1>4, <2>1, <2>2, Zenon DEF GroupSearched
<1>7. CASE ScanSelect
  <2>1. CASE ClashObject(<<cur, mi>>)
    <3>1. pc' = "failed"
      BY <2>1, Zenon DEF ClashObject, Fail
    <3> QED
      BY <3>1 DEF GroupSearched, InGroup
  <2>2. ASSUME MergeObject(<<cur, mi>>), before' = before
        PROVE  GroupSearched'
    <3>1. <<cur, mi>> \in Object /\ merged \in Seq(Object) /\ merged' = Append(merged, <<cur, mi>>)
      BY <1>1, <1>7, <2>2, Lengths DEF MergeObject, Counters, TableOK, Object
    <3>2. Len(merged') # before'
      BY <1>2, <2>2, <3>1
    <3> QED
      BY <3>2, Zenon DEF GroupSearched
  <2> QED
    BY <1>7, <2>1, <2>2, Zenon DEF ScanSelect
<1>8. CASE ScanEnd
  <2>1. /\ pc = "scan" /\ mi > Len(Members(cur)) /\ ~changed /\ pc' = ret
        /\ UNCHANGED <<syms, merged, before, ret>>
    BY <1>8, Zenon DEF ScanEnd, table
  <2>2. CASE ret = "inputs"
    BY <2>1, <2>2 DEF GroupSearched, InGroup
  <2>3. CASE ret = "group"
    <3>1. gpos' = gpos + 1 /\ idx' = idx
      BY <1>8, <2>3 DEF ScanEnd
    <3>2. Exhausted(GroupPath)
      BY <2>1, <2>3, PassIsExhaustive, Zenon DEF Places
    <3> QED
      BY <1>4, <2>1, <2>3, <3>1, <3>2, Zenon DEF InGroup
  <2> QED
    BY <1>1, <2>2, <2>3, Zenon DEF Flags
<1>9. CASE GroupObject
  <2>1. pc = "group" /\ ~IsArchive(GroupPath) /\ gpos < gend
    BY <1>9, Zenon DEF GroupObject
  <2>2. CASE ProcessInputFails(GroupPath)
    <3>1. pc' = "failed"
      BY <1>1, <2>2, ProcessInputFailsStep, Zenon
    <3> QED
      BY <3>1 DEF GroupSearched, InGroup
  <2>3. ASSUME ProcessInput(GroupPath) \/ UNCHANGED <<table, why>>, gpos' = gpos + 1,
               UNCHANGED <<idx, before>>
        PROVE  GroupSearched'
    <3>1. CASE syms' = syms /\ merged' = merged
      BY <1>4, <2>1, <2>3, <3>1, Zenon DEF InGroup, Exhausted
    <3>2. CASE MergeObject(<<GroupPath, 1>>)
      <4>1. GroupPath \in Path
        BY <1>1, <2>1, Lengths DEF GroupPath, Counters
      <4>2. <<GroupPath, 1>> \in Object /\ merged \in Seq(Object) /\ merged' = Append(merged, <<GroupPath, 1>>)
        BY <1>1, <3>2, <4>1 DEF MergeObject, TableOK, Object
      <4>3. Len(merged') # before'
        BY <1>2, <2>3, <4>2
      <4> QED
        BY <4>3, Zenon DEF GroupSearched
    <3> QED
      BY <2>3, <3>1, <3>2, Zenon DEF ProcessInput, MergeDso, table
  <2> QED
    BY <1>9, <2>2, <2>3, Zenon DEF GroupObject
<1>10. CASE ~(\/ InputGroup \/ GroupAgain \/ GroupArchive \/ ScanSkip \/ ScanAgain \/ ScanSelect
              \/ ScanEnd \/ GroupObject)
  <2>1. ~InGroup'
    <3>1. CASE InputArchive \/ InputWhole \/ InputsEnd \/ WholeEnd \/ GroupEnd
      BY <3>1, SMTT(30), SMTT(60) DEF InputArchive, OpenArchive, InputWhole, InputsEnd, WholeEnd, GroupEnd, InGroup
    <3>3. CASE LinkerSymbols \/ LinkerSymbolsFail \/ Resolve
      BY <3>3, SMTT(30), SMTT(60) DEF LinkerSymbols, LinkerSymbolsFail, Resolve, Fail, InGroup
    <3>2. CASE InputObject \/ InputNotArchive \/ WholeMember \/ ReadFails
      BY <3>2 DEF InputObject, InputNotArchive, WholeMember, ReadFails, AtInput,
         ProcessInputFails, ClashObject, Fail, InGroup
    <3> QED
      BY <1>10, <3>1, <3>2, <3>3, Zenon DEF Step
  <2> QED
    BY <2>1, Zenon DEF GroupSearched
<1> QED
  BY <1>5, <1>6, <1>7, <1>8, <1>9, <1>10, Zenon

(* Only the resolution of the undefined symbols ends a link that succeeds. *)
LEMMA StepLinked ==
  ASSUME Step \/ ReadFails, TypeOK, job' = job
  PROVE  Linked'
<1>1. CASE Resolve
  <2>1. CASE Unresolved
    BY <1>1, <2>1 DEF Resolve, Linked
  <2>2. CASE ~Unresolved
    BY <1>1, <2>2, Zenon DEF Resolve, Unresolved, Linked, UnresolvedNonweak, table
  <2> QED
    BY <2>1, <2>2
<1>2. CASE ~Resolve
  <2>1. pc' # "linked"
    <3>1. CASE InputArchive \/ InputWhole \/ InputGroup \/ InputsEnd \/ WholeEnd \/ GroupAgain \/ GroupEnd
      BY <3>1, SMTT(30), SMTT(60) DEF InputArchive, OpenArchive, InputWhole, InputGroup, InputsEnd, WholeEnd, GroupAgain,
         GroupEnd
    <3>2. CASE InputObject \/ InputNotArchive \/ WholeMember \/ GroupObject \/ ReadFails \/ ScanSelect
      BY <3>2 DEF InputObject, InputNotArchive, WholeMember, GroupObject, ReadFails, ScanSelect, AtInput,
         ProcessInputFails, ClashObject, Fail
    <3>3. CASE ScanSkip \/ ScanAgain \/ ScanEnd \/ GroupArchive
      BY <3>3 DEF ScanSkip, ScanAgain, ScanEnd, GroupArchive, OpenArchive, TypeOK
    <3>4. CASE LinkerSymbols \/ LinkerSymbolsFail
      BY <3>4, SMTT(30), SMTT(60) DEF LinkerSymbols, LinkerSymbolsFail, Fail
    <3> QED
      BY <1>2, <3>1, <3>2, <3>3, <3>4, Zenon DEF Step
  <2> QED
    BY <2>1, Zenon DEF Linked
<1> QED
  BY <1>1, <1>2

-----------------------------------------------------------------------------
(* The invariant.                                                          *)

LEMMA InitLinkInv == Init => LinkInv
<1> SUFFICES ASSUME Init
             PROVE  LinkInv
  OBVIOUS
<1>1. job \in Job /\ Inputs # << >>
  BY LinkConstants, Zenon DEF Init, Inputs
<1>2. Inputs \in Seq([kind : InputKind, path : Path])
  BY <1>1, FileFacts, Zenon
<1>3. Len(Inputs) \in Nat /\ 1 \in 1 .. Len(Inputs) /\ 1 \in 1 .. Len(Inputs) + 1
  BY <1>1, <1>2
<1>4. cur \in Path
  BY <1>1, <1>3, InputFacts, Zenon DEF Init
<1>5. TableOK
  <2>1. [entry |-> "none", by |-> NoObject] \in SymbolState
    BY DEF SymbolState, Entry
  <2>2. syms \in [Name -> SymbolState]
    BY <2>1, Zenon DEF Init
  <2>3. merged \in Seq(Object) /\ dso \subseteq Name
    BY DEF Init
  <2> QED
    BY <2>2, <2>3, Zenon DEF Init, TableOK
<1>6. Flags
  BY Zenon DEF Init, Flags, Reasons
<1>7. Counters
  <2>1. Len(Members(cur)) \in Nat /\ Len(merged) \in Nat
    BY <1>1, <1>4, <1>5, Lengths, Zenon
  <2> QED
    BY <1>3, <1>4, <2>1 DEF Init, Counters
<1>8. TypeOK
  BY <1>1, <1>5, <1>6, <1>7, TypeSplit, Zenon
<1>9. Places /\ Searching /\ GroupSearched /\ Linked
  BY DEF Init, Places, Searching, GroupSearched, Linked, InGroup
<1>10. ObjectsExist /\ Resolved
  <2>1. DOMAIN merged = {}
    BY DEF Init
  <2>2. \A n \in Name : syms[n].entry = "none" /\ syms[n].by = NoObject
    BY DEF Init
  <2> QED
    BY <2>1, <2>2 DEF ObjectsExist, Resolved, ResolvedAt, Defined
<1> QED
  BY <1>8, <1>9, <1>10, Zenon DEF LinkInv

LEMMA NextLinkInv == LinkInv /\ [Next]_vars => LinkInv'
<1> SUFFICES ASSUME LinkInv, [Next]_vars
             PROVE  LinkInv'
  OBVIOUS
<1>1. CASE Step \/ ReadFails
  <2>1. job' = job /\ TypeOK' /\ Places' /\ TableStep
    BY <1>1, StepTypes, Zenon DEF LinkInv
  <2>2. ObjectsExist' /\ Resolved'
    BY <1>1, <2>1, LateStep, StepResolves, Zenon DEF LinkInv
  <2>3. Searching'
    BY <1>1, <2>1, StepSearching, Zenon DEF LinkInv
  <2>4. GroupSearched'
    BY <1>1, <2>1, StepGroupSearched, Zenon DEF LinkInv
  <2>5. Linked'
    BY <1>1, <2>1, StepLinked, Zenon DEF LinkInv
  <2> QED
    BY <2>1, <2>2, <2>3, <2>4, <2>5, Zenon DEF LinkInv
<1>2. CASE UNCHANGED vars
  <2>1. job' = job /\ UNCHANGED <<merged, syms>> /\ UNCHANGED table /\ UNCHANGED control /\ UNCHANGED <<pc, why>>
    BY <1>2, Zenon DEF vars, table, control
  <2>2. ObjectsExist' /\ Resolved'
    BY <2>1, StepResolves, Zenon DEF LinkInv, TableStep
  <2>3. /\ Inputs' = Inputs
        /\ \A p : Members(p)' = Members(p) /\ (IsArchive(p)' <=> IsArchive(p))
    BY <2>1, SameFiles, Zenon
  <2>4. /\ \A t : Needed(t)' <=> Needed(t)
        /\ \A p : Exhausted(p)' <=> Exhausted(p)
    BY <2>1, SameNeeds, Zenon
  <2>5. TypeOK'
    BY <2>1, <2>3, ZenonT(30), ZenonT(60) DEF LinkInv, TypeOK, table, control
  <2>6. Places'
    BY <2>1, <2>3, Zenon DEF LinkInv, Places, InGroup, GroupPath, control
  <2>7. Searching'
    BY <2>1, <2>3, <2>4, Zenon DEF LinkInv, Searching, control
  <2>8. GroupSearched'
    BY <2>1, <2>3, <2>4, Zenon DEF LinkInv, GroupSearched, InGroup, control
  <2>9. Linked'
    BY <2>1, Zenon DEF LinkInv, Linked, UnresolvedNonweak
  <2> QED
    BY <2>2, <2>5, <2>6, <2>7, <2>8, <2>9, Zenon DEF LinkInv
<1> QED
  BY <1>1, <1>2, Zenon DEF Next

(* The invariant holds in every state of every link.                       *)
THEOREM LinkInvariant == Spec => []LinkInv
BY InitLinkInv, NextLinkInv, PTL DEF Spec

(* The positions of process_input_sequence, process_group_sequence and     *)
(* process_group_archive stay inside the list of inputs and the archive    *)
(* they are in, and the symbol table holds entries of objects.             *)
THEOREM TypeCorrect == Spec => []TypeOK
<1>1. LinkInv => TypeOK
  BY Zenon DEF LinkInv
<1> QED
  BY <1>1, LinkInvariant, PTL

(* add_or_merge_global_symbol: whatever the order of the inputs, the entry *)
(* of a name is the only strong definition if there is one, else the first *)
(* weak one, else the strongest reference, or, for a name that the linker  *)
(* provides and no object defines, the linker's own.                       *)
THEOREM EntryIsStrongest == Spec => []StrongestWins
<1>1. ASSUME LinkInv, NEW n \in Name, ResolvedAt(n)
      PROVE  FromObjects(n) /\ \A i, j \in Says(n, "strong") : i = j
  <2> SUFFICES LET strong == Says(n, "strong") weak == Says(n, "weak") IN
               /\ \A i, j \in strong : i = j
               /\ \A i \in strong : syms[n] = [entry |-> "strong", by |-> merged[i]]
               /\ strong = {} =>
                    /\ \A i \in weak :
                         (\A j \in weak : i <= j) => syms[n] = [entry |-> "weak", by |-> merged[i]]
                    /\ weak = {} =>
                         syms[n] = [entry |-> IF Says(n, "undef") # {} THEN "undef"
                                              ELSE IF Says(n, "wundef") # {} THEN "wundef" ELSE "none",
                                    by |-> NoObject]
    BY Zenon DEF FromObjects
  <2>1. ResolvedAt(n) /\ merged \in Seq(Object) /\ syms \in [Name -> SymbolState]
    BY <1>1, Zenon DEF LinkInv, TypeOK
  <2>2. \A i \in DOMAIN merged : i \in Nat
    BY <2>1
  <2>3. syms[n] = [entry |-> syms[n].entry, by |-> syms[n].by] /\ syms[n].entry \in Entry
    BY <2>1 DEF SymbolState
  <2>4. \A e : \A i : i \in Says(n, e) <=> i \in DOMAIN merged /\ Said(i, n) = e
    BY Zenon DEF Says, Said
  <2>5. \A i \in DOMAIN merged : Said(i, n) \in Entry
    BY <1>1, SaysEntry, Zenon DEF LinkInv, ObjectsExist, Said, TypeOK
  <2>6. CASE syms[n].entry = "strong"
    BY <2>1, <2>3, <2>4, <2>6, Zenon DEF ResolvedAt
  <2>7. CASE syms[n].entry = "weak"
    <3>1. PICK w \in DOMAIN merged :
            /\ Said(w, n) = "weak" /\ syms[n].by = merged[w]
            /\ \A j \in DOMAIN merged : Said(j, n) # "strong" /\ (Said(j, n) = "weak" => w <= j)
      BY <2>1, <2>7, Zenon DEF ResolvedAt
    <3>2. w \in Says(n, "weak") /\ \A i : i \notin Says(n, "strong")
      BY <2>4, <3>1, Zenon
    <3>3. ASSUME NEW i \in Says(n, "weak"), \A j \in Says(n, "weak") : i <= j
          PROVE  i = w
      <4>1. i \in Nat /\ w \in Nat /\ i <= w /\ w <= i
        BY <2>2, <2>4, <3>1, <3>2, <3>3, Zenon
      <4> QED
        BY <4>1
    <3> QED
      BY <2>3, <2>7, <3>1, <3>2, <3>3, Zenon
  <2>8. CASE syms[n].entry \notin Defined
    BY <2>1, <2>3, <2>4, <2>8, Zenon DEF ResolvedAt, Defined, Entry
  <2> QED
    BY <2>6, <2>7, <2>8 DEF Defined
<1>2. ASSUME LinkInv
      PROVE  StrongestWins
  <2>1. ASSUME NEW n \in Name, MadeByLinker(n), OneStrong(n)
        PROVE  \A i, j \in Says(n, "strong") : i = j
    BY <2>1, Zenon DEF OneStrong, Says, Said
  <2> QED
    BY <1>1, <1>2, <2>1, Zenon DEF LinkInv, Resolved, StrongestWins
<1> QED
  BY <1>2, LinkInvariant, PTL

(* A static link that succeeds has a definition, in an object that it has  *)
(* linked or, when none of them has one, made by the linker, for every     *)
(* strong reference of every object that it has linked: the check for      *)
(* undefined symbols at the end misses none.                               *)
THEOREM StaticLinkIsClosed == Spec => []NoDanglingReference
<1>1. ASSUME LinkInv
      PROVE  NoDanglingReference
  <2> SUFFICES ASSUME pc = "linked", job.mode = "static", NEW i \in DOMAIN merged, NEW n \in Name,
                      TableOf(merged[i])[n] = "undef"
               PROVE  IF Definitions(n) # {}
                      THEN \E j \in Definitions(n) : syms[n].by = merged[j]
                      ELSE n \in Provided /\ syms[n] = Own
    BY Zenon DEF NoDanglingReference
  <2>1. syms[n].entry # "undef" /\ syms \in [Name -> SymbolState]
    BY <1>1, Zenon DEF LinkInv, Linked, UnresolvedNonweak, TypeOK
  <2>2. syms[n].entry \in Entry
    BY <2>1 DEF SymbolState
  <2>3. CASE ResolvedAt(n)
    <3>1. syms[n].entry \in Defined
      BY <2>1, <2>2, <2>3 DEF ResolvedAt, Said, Entry, Defined
    <3>2. PICK j \in DOMAIN merged : Said(j, n) \in Defined /\ syms[n].by = merged[j]
      BY <2>3, <3>1, Zenon DEF ResolvedAt, Defined
    <3>3. j \in Definitions(n)
      BY <3>2, Zenon DEF Definitions, Says, Said, Defined
    <3> QED
      BY <3>2, <3>3, Zenon
  <2>4. CASE MadeByLinker(n)
    <3>1. ~AllowDso
      BY DEF AllowDso
    <3> QED
      BY <2>4, <3>1, Zenon DEF MadeByLinker
  <2> QED
    BY <1>1, <2>3, <2>4, Zenon DEF LinkInv, Resolved
<1> QED
  BY <1>1, LinkInvariant, PTL

(* process_group_archive never takes a member that is already linked, even *)
(* when it has been taken by an earlier search of the same archive, by a   *)
(* whole archive, or under another place in the command line.              *)
THEOREM MembersAreTakenOnce == Spec => SearchTakesNewMembers
<1>1. ASSUME LinkInv, [Next]_vars
      PROVE  [pc = "scan" /\ merged' # merged =>
                \A i \in DOMAIN merged : merged[i] # <<cur, mi>>]_vars
  <2> SUFFICES ASSUME pc = "scan", merged' # merged, NEW i \in DOMAIN merged, merged[i] = <<cur, mi>>
               PROVE  FALSE
    BY Zenon
  <2>1. ScanSelect
    <3>1. ~(InputArchive \/ InputObject \/ InputNotArchive \/ InputWhole \/ InputGroup \/ InputsEnd
            \/ WholeMember \/ WholeEnd \/ GroupArchive \/ GroupObject \/ GroupAgain \/ GroupEnd
            \/ LinkerSymbols \/ LinkerSymbolsFail \/ Resolve)
      BY DEF InputArchive, InputObject, InputNotArchive, InputWhole, InputGroup, InputsEnd, AtInput,
         WholeMember, WholeEnd, GroupArchive, GroupObject, GroupAgain, GroupEnd,
         LinkerSymbols, LinkerSymbolsFail, Resolve
    <3>2. ~(ScanSkip \/ ScanAgain \/ ScanEnd \/ ReadFails \/ UNCHANGED vars)
      BY Zenon DEF ScanSkip, ScanAgain, ScanEnd, ReadFails, Fail, table, vars
    <3> QED
      BY <1>1, <3>1, <3>2, Zenon DEF Next, Step
  <2>2. Needed(Members(cur)[mi])
    BY <2>1, Zenon DEF ScanSelect, Wanted
  <2>3. TableOf(merged[i]) = Members(cur)[mi]
    BY DEF TableOf, Members
  <2> QED
    BY <1>1, <2>2, <2>3, LinkedNotNeeded, Zenon DEF LinkInv
<1> QED
  BY <1>1, LinkInvariant, PTL DEF Spec, SearchTakesNewMembers

(* When the search of an archive or of a group returns, no member of what  *)
(* it searched defines a symbol that is still undefined.                   *)
THEOREM SearchesFindEverything == Spec => SearchesAreExhaustive
<1>1. ASSUME LinkInv, [Next]_vars
      PROVE  [/\ pc = "scan" /\ pc' \in {"inputs", "group"} => Exhausted(cur)
              /\ pc = "group" /\ pc' = "inputs" =>
                   \A g \in idx .. gend - 1 : Exhausted(Inputs[g].path)]_vars
  <2>1. ASSUME pc = "scan", pc' \in {"inputs", "group"}
        PROVE  Exhausted(cur)
    <3>1. pc' # pc /\ pc' # "failed"
      BY <2>1, SMTT(30), SMTT(60)
    <3>2. ~(InputArchive \/ InputObject \/ InputNotArchive \/ InputWhole \/ InputGroup \/ InputsEnd
            \/ WholeMember \/ WholeEnd \/ GroupArchive \/ GroupObject \/ GroupAgain \/ GroupEnd
            \/ LinkerSymbols \/ LinkerSymbolsFail \/ Resolve)
      BY <2>1 DEF InputArchive, InputObject, InputNotArchive, InputWhole, InputGroup, InputsEnd, AtInput,
         WholeMember, WholeEnd, GroupArchive, GroupObject, GroupAgain, GroupEnd,
         LinkerSymbols, LinkerSymbolsFail, Resolve
    <3>3. ~(ScanSkip \/ ScanSelect \/ ScanAgain \/ ReadFails \/ UNCHANGED vars)
      BY <3>1, Zenon DEF ScanSkip, ScanSelect, ScanAgain, ReadFails, ClashObject, Fail, vars
    <3>4. ScanEnd
      BY <1>1, <3>2, <3>3, Zenon DEF Next, Step
    <3> QED
      BY <1>1, <3>4, PassIsExhaustive, Zenon DEF LinkInv, ScanEnd
  <2>2. ASSUME pc = "group", pc' = "inputs"
        PROVE  \A g \in idx .. gend - 1 : Exhausted(Inputs[g].path)
    <3>1. pc' # pc /\ pc' # "failed" /\ pc' # "scan"
      BY <2>2, SMTT(30), SMTT(60)
    <3>2. ~(InputArchive \/ InputObject \/ InputNotArchive \/ InputWhole \/ InputGroup \/ InputsEnd
            \/ WholeMember \/ WholeEnd \/ ScanSkip \/ ScanSelect \/ ScanAgain \/ ScanEnd
            \/ LinkerSymbols \/ LinkerSymbolsFail \/ Resolve)
      BY <2>2 DEF InputArchive, InputObject, InputNotArchive, InputWhole, InputGroup, InputsEnd, AtInput,
         WholeMember, WholeEnd, ScanSkip, ScanSelect, ScanAgain, ScanEnd, LinkerSymbols, LinkerSymbolsFail, Resolve
    <3>3. ~(GroupArchive \/ GroupObject \/ GroupAgain \/ ReadFails \/ UNCHANGED vars)
      BY <3>1, Zenon DEF GroupArchive, OpenArchive, GroupObject, GroupAgain, ReadFails, ProcessInputFails,
         ClashObject, Fail, vars
    <3>4. GroupEnd
      BY <1>1, <3>2, <3>3, Zenon DEF Next, Step
    <3> QED
      BY <1>1, <3>4, Zenon DEF LinkInv, GroupEnd, GroupSearched, InGroup
  <2> QED
    BY <2>1, <2>2, Zenon
<1> QED
  BY <1>1, LinkInvariant, PTL DEF Spec, SearchesAreExhaustive

=============================================================================

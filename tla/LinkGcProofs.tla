---------------------------- MODULE LinkGcProofs ----------------------------
(***************************************************************************)
(* What minic-ld --gc-sections keeps and where it puts it, for every job   *)
(* and every table of section names: the marking is exact and its queue    *)
(* suffices, no input section is cut, symbols and relocations stay at      *)
(* their bytes, what is collected is decided input section by input        *)
(* section, and what is laid out alike stays in the order of the inputs.   *)
(***************************************************************************)
EXTENDS LinkGcLemmas, FiniteSetTheorems

-----------------------------------------------------------------------------
(* Cutting the merged sections apart.                                      *)

(* A piece is a piece of one section only, from one marker on.             *)
LEMMA PieceOnce ==
  ASSUME Counting, LinkInv, pc = "split", NEW s \in DOMAIN secs, NEW u \in DOMAIN secs, NEW x \in Nat, NEW y \in Nat,
         PieceOf(u, x) = PieceOf(s, y)
  PROVE  u = s /\ (IsSplit(s) => LastMarker(s, x) = LastMarker(s, y))
<1>1. Len(secs) \in Nat /\ DOMAIN secs = 1 .. Len(secs) /\ Len(Cuts) \in Nat /\ DOMAIN Cuts = 1 .. Len(Cuts)
  BY SplitState, CutsSeq, Zenon
<1>2. s \in 0 .. Len(secs) /\ u \in 0 .. Len(secs) /\ s # 0 /\ u # 0
  BY <1>1, SMTT(30), SMTT(60)
<1>3. /\ ~IsSplit(s) => PieceOf(s, y) = s
      /\ IsSplit(s) => /\ FragmentFor(s, y) \in DOMAIN Cuts
                       /\ Cuts[FragmentFor(s, y)] = <<s, LastMarker(s, y)>>
                       /\ PieceOf(s, y) = Len(secs) + FragmentFor(s, y)
  BY <1>2, PieceIs, Zenon
<1>4. /\ ~IsSplit(u) => PieceOf(u, x) = u
      /\ IsSplit(u) => /\ FragmentFor(u, x) \in DOMAIN Cuts
                       /\ Cuts[FragmentFor(u, x)] = <<u, LastMarker(u, x)>>
                       /\ PieceOf(u, x) = Len(secs) + FragmentFor(u, x)
  BY <1>2, PieceIs, Zenon
<1>5. CASE ~IsSplit(s) /\ ~IsSplit(u)
  BY <1>3, <1>4, <1>5, Zenon
<1>6. CASE ~IsSplit(s) /\ IsSplit(u)
  BY <1>1, <1>3, <1>4, <1>6, SMTT(30), SMTT(60)
<1>7. CASE IsSplit(s) /\ ~IsSplit(u)
  BY <1>1, <1>3, <1>4, <1>7, SMTT(30), SMTT(60)
<1>8. CASE IsSplit(s) /\ IsSplit(u)
  <2>1. FragmentFor(s, y) = FragmentFor(u, x)
    BY <1>1, <1>3, <1>4, <1>8, SMTT(30), SMTT(60)
  <2>2. <<u, LastMarker(u, x)>> = <<s, LastMarker(s, y)>>
    BY <1>3, <1>4, <1>8, <2>1, Zenon
  <2>3. u = s /\ LastMarker(u, x) = LastMarker(s, y)
    BY <2>2, SMTT(30), SMTT(60)
  <2> QED
    BY <2>3, Zenon
<1> QED
  BY <1>5, <1>6, <1>7, <1>8, Zenon

(* The bytes before an input section with a section symbol are in another  *)
(* piece.                                                                  *)
LEMMA EarlierPiece ==
  ASSUME Counting, LinkInv, pc = "split", NEW s \in DOMAIN secs, secs[s].alloc,
         NEW j \in 1 .. N, Defined(j), NameOf(j) = secs[s].name, base[j] < secs[s].size,
         NEW x \in Nat, x < base[j]
  PROVE  PieceOf(s, x) # PieceOf(s, base[j])
<1>1. base[j] \in Nat /\ base[j] \in Markers(s) /\ 0 \in Markers(s)
  <2>1. base[j] \in Nat
    BY SplitState, Zenon
  <2>2. base[j] \in Markers(s)
    BY MarkersAre, Zenon
  <2>3. 0 \in Markers(s)
    BY <2>2, MarkersAre, Zenon
  <2> QED
    BY <2>1, <2>2, <2>3, Zenon
<1>2. base[j] # 0
  BY <1>1, SMTT(30), SMTT(60)
<1>3. IsSplit(s)
  BY <1>1, <1>2, Zenon DEF IsSplit
<1>4. LastMarker(s, x) <= x /\ LastMarker(s, x) \in Nat
  BY <1>3, LastMarkerIs, Zenon
<1>5. base[j] <= LastMarker(s, base[j]) /\ LastMarker(s, base[j]) \in Nat
  <2>1. base[j] <= base[j]
    BY <1>1, SMTT(30), SMTT(60)
  <2> QED
    BY <1>1, <1>3, <2>1, LastMarkerIs, Zenon
<1>6. LastMarker(s, x) # LastMarker(s, base[j])
  BY <1>1, <1>4, <1>5, SMTT(30), SMTT(60)
<1> SUFFICES ASSUME PieceOf(s, x) = PieceOf(s, base[j]) PROVE FALSE
  BY Zenon
<1>7. IsSplit(s) => LastMarker(s, x) = LastMarker(s, base[j])
  BY <1>1, PieceOnce, SMTT(30), SMTT(60), ZenonT(30), ZenonT(60)
<1> QED
  BY <1>3, <1>6, <1>7, Zenon

(* After the cuts an input section is in the piece that its first byte     *)
(* goes to, and in no other.                                               *)
LEMMA PieceHolds ==
  ASSUME Counting, LinkInv, RestoreInputSections, NEW i \in 1 .. N, SizeOf(i) > 0,
         NEW s \in DOMAIN secs, secs[s].name = NameOf(i)
  PROVE  /\ PieceOf(s, base[i]) \in DOMAIN secs'
         /\ \A t \in DOMAIN secs' : Holds(t, i)' <=> t = PieceOf(s, base[i])
         /\ secs'[PieceOf(s, base[i])].lo = PieceStart(s, base[i])
         /\ \A x \in Nat : x < SizeOf(i) =>
              /\ PieceOf(s, base[i] + x) = PieceOf(s, base[i])
              /\ PieceStart(s, base[i] + x) = PieceStart(s, base[i])
<1>1. /\ pc = "split" /\ job' = job /\ base' = base
  BY Zenon DEF RestoreInputSections, Goto
<1>2. /\ Len(secs) \in Nat /\ DOMAIN secs = 1 .. Len(secs)
      /\ Len(Cuts) \in Nat /\ DOMAIN Cuts = 1 .. Len(Cuts)
      /\ base[i] \in Nat /\ SizeOf(i) \in Nat /\ InputsOK /\ MergedOK /\ Len(base) = N
  BY <1>1, SplitState, CutsSeq, Zenon
<1>3. /\ s \in 0 .. Len(secs) /\ s # 0
      /\ DOMAIN secs' = 1 .. Len(secs) + Len(Cuts)
  <2>1. s \in 0 .. Len(secs) /\ s # 0
    BY <1>2, SMTT(30), SMTT(60)
  <2> QED
    BY <2>1, CutSections, Zenon
<1>4. \A u \in DOMAIN secs : secs[u].name = NameOf(i) => u = s
  BY <1>1, <1>2, Zenon DEF MergedOK
<1>5. ASSUME NEW t \in DOMAIN secs', t \notin DOMAIN secs
      PROVE  \E j \in DOMAIN Cuts : t = Len(secs) + j
  <2>1. t - Len(secs) \in DOMAIN Cuts /\ t = Len(secs) + (t - Len(secs))
    BY <1>2, <1>3, <1>5, SMTT(30), SMTT(60)
  <2> QED
    BY <2>1, Zenon
<1>6. \A t : Holds(t, i)' <=> /\ secs'[t].name = NameOf(i)
                              /\ secs'[t].lo <= base[i] /\ base[i] + SizeOf(i) <= secs'[t].hi
  BY <1>1, SameJob, Zenon DEF Holds
<1>7. CASE ~IsSplit(s)
  <2>1. \A x \in Nat : PieceOf(s, x) = s /\ PieceStart(s, x) = 0
    BY <1>1, <1>3, <1>7, PieceIs, Zenon
  <2>2. secs'[s] = secs[s] /\ secs'[s].lo = 0
    BY <1>7, CutSectionsAre, Zenon
  <2>3. Holds(s, i)'
    <3>1. Holds(s, i)
      BY <1>1, <1>2, MergedHolds, Zenon
    <3> QED
      BY <1>6, <2>2, <3>1, Zenon DEF Holds
  <2>4. ASSUME NEW t \in DOMAIN secs', Holds(t, i)'
        PROVE  t = s
    <3>1. secs'[t].name = NameOf(i)
      BY <1>6, <2>4, Zenon
    <3>2. CASE t \in DOMAIN secs
      <4>1. secs'[t].name = secs[t].name
        BY <3>2, CutSectionsAre, Zenon
      <4> QED
        BY <1>4, <3>1, <3>2, <4>1, Zenon
    <3>3. CASE t \notin DOMAIN secs
      <4>1. PICK j \in DOMAIN Cuts : t = Len(secs) + j
        BY <1>5, <3>3, Zenon
      <4>2. secs[Cuts[j][1]].name = NameOf(i)
        BY <3>1, <4>1, CutSectionsAre, Zenon
      <4>3. Cuts[j][1] \in DOMAIN secs /\ IsSplit(Cuts[j][1])
        BY <1>1, CutsSeq, Zenon
      <4> QED
        BY <1>4, <1>7, <4>2, <4>3, Zenon
    <3> QED
      BY <3>2, <3>3, Zenon
  <2>5. \A x \in Nat : base[i] + x \in Nat
    BY <1>2, SMTT(30), SMTT(60)
  <2>6. s \in DOMAIN secs'
    BY <1>2, <1>3, SMTT(30), SMTT(60)
  <2> QED
    BY <1>2, <2>1, <2>2, <2>3, <2>4, <2>5, <2>6, Zenon
<1>8. CASE IsSplit(s)
  <2> DEFINE m0 == LastMarker(s, base[i])
             f0 == FragmentFor(s, base[i])
  <2>1. /\ f0 \in DOMAIN Cuts /\ Cuts[f0] = <<s, m0>>
        /\ PieceOf(s, base[i]) = Len(secs) + f0 /\ PieceStart(s, base[i]) = m0
    BY <1>1, <1>2, <1>3, <1>8, PieceIs, ZenonT(30), ZenonT(60)
  <2>2. m0 <= base[i] /\ m0 \in Nat
    BY <1>1, <1>2, <1>8, LastMarkerIs, Zenon
  <2>3. /\ base[i] + SizeOf(i) <= FragmentEnd(s, m0)
        /\ \A x \in Nat : x < SizeOf(i) => LastMarker(s, base[i] + x) = m0
        /\ \A m \in Markers(s) :
             m <= base[i] /\ base[i] + SizeOf(i) <= FragmentEnd(s, m) => m = m0
    BY <1>1, <1>8, OneFragment, Zenon
  <2>4. ASSUME NEW x \in Nat, x < SizeOf(i)
        PROVE  /\ PieceOf(s, base[i] + x) = PieceOf(s, base[i])
               /\ PieceStart(s, base[i] + x) = PieceStart(s, base[i])
    <3>1. base[i] + x \in Nat
      BY <1>2, SMTT(30), SMTT(60)
    <3>2. FragmentFor(s, base[i] + x) = f0
      BY <2>3, <2>4, Zenon DEF FragmentFor
    <3> QED
      BY <1>3, <1>8, <3>2, Zenon DEF PieceOf, PieceStart
  <2> HIDE DEF m0, f0
  <2>5. Cuts[f0][1] = s /\ Cuts[f0][2] = m0
    BY <2>1, SMTT(30), SMTT(60)
  <2>6. ASSUME NEW t, t = Len(secs) + f0
        PROVE  secs'[t].lo = m0 /\ Holds(t, i)'
    <3>1. secs'[t].name = NameOf(i) /\ secs'[t].lo = m0 /\ secs'[t].hi = FragmentEnd(s, m0)
      BY <2>1, <2>5, <2>6, CutSectionsAre, Zenon
    <3> QED
      BY <1>6, <2>2, <2>3, <3>1, Zenon
  <2>7. ASSUME NEW t \in DOMAIN secs', Holds(t, i)'
        PROVE  t = Len(secs) + f0
    <3>1. /\ secs'[t].name = NameOf(i) /\ secs'[t].lo <= base[i]
          /\ base[i] + SizeOf(i) <= secs'[t].hi
      BY <1>6, <2>7, Zenon
    <3>2. CASE t \in DOMAIN secs
      <4>1. t = s
        <5>1. secs'[t].name = secs[t].name
          BY <3>2, CutSectionsAre, Zenon
        <5> QED
          BY <1>4, <3>1, <3>2, <5>1, Zenon
      <4>2. secs'[t].hi = 0
        BY <1>8, <4>1, CutSectionsAre, Zenon
      <4> QED
        BY <1>2, <3>1, <4>2, SMTT(30), SMTT(60)
    <3>3. CASE t \notin DOMAIN secs
      <4>1. PICK j \in DOMAIN Cuts : t = Len(secs) + j
        BY <1>5, <3>3, Zenon
      <4>2. /\ secs[Cuts[j][1]].name = NameOf(i) /\ Cuts[j][2] <= base[i]
            /\ base[i] + SizeOf(i) <= FragmentEnd(Cuts[j][1], Cuts[j][2])
        BY <3>1, <4>1, CutSectionsAre, Zenon
      <4>3. /\ Cuts[j] = <<Cuts[j][1], Cuts[j][2]>> /\ Cuts[j][1] \in DOMAIN secs
            /\ Cuts[j][2] \in Markers(Cuts[j][1])
        BY <1>1, CutsSeq, Zenon
      <4>4. Cuts[j][1] = s
        BY <1>4, <4>2, <4>3, Zenon
      <4>5. Cuts[j][2] = m0
        BY <2>3, <4>2, <4>3, <4>4, Zenon
      <4>6. Cuts[j] = Cuts[f0]
        BY <2>1, <4>3, <4>4, <4>5, Zenon
      <4>7. j = f0
        BY <1>1, <2>1, <4>6, CutsSeq, Zenon
      <4> QED
        BY <4>1, <4>7, Zenon
    <3> QED
      BY <3>2, <3>3, Zenon
  <2>8. Len(secs) + f0 \in DOMAIN secs'
    BY <1>2, <1>3, <2>1, SMTT(30), SMTT(60)
  <2> QED
    BY <2>1, <2>4, <2>6, <2>7, <2>8, Zenon
<1> QED
  BY <1>7, <1>8, Zenon

(* The symbols and relocations that minild_gc_restore_input_sections       *)
(* leaves.                                                                 *)
LEMMA CutGraph ==
  ASSUME Counting, LinkInv, RestoreInputSections
  PROVE  /\ IsGraph(secs, sym, rel, entry)' /\ Len(sym') = Len(sym) /\ Len(rel') = Len(rel)
         /\ DOMAIN sym' = DOMAIN sym /\ DOMAIN rel' = DOMAIN rel
         /\ \A k \in DOMAIN sym :
              /\ sym'[k].sec = PieceOf(sym[k].sec, sym[k].value)
              /\ sym'[k].value = sym[k].value - PieceStart(sym[k].sec, sym[k].value)
         /\ \A r \in DOMAIN rel :
              /\ rel'[r].sec = PieceOf(rel[r].sec, rel[r].off) /\ rel'[r].sym = rel[r].sym
              /\ rel'[r].off = rel[r].off - PieceStart(rel[r].sec, rel[r].off)
<1>1. pc = "split" /\ entry' = entry
  BY Zenon DEF RestoreInputSections, Goto
<1>2. /\ sym' = [k \in DOMAIN sym |->
                   [sec |-> PieceOf(sym[k].sec, sym[k].value),
                    value |-> sym[k].value - PieceStart(sym[k].sec, sym[k].value)]]
      /\ rel' = [r \in DOMAIN rel |->
                   [rel[r] EXCEPT !.sec = PieceOf(@, rel[r].off),
                                  !.off = @ - PieceStart(rel[r].sec, @)]]
  BY Zenon DEF RestoreInputSections
<1>3. /\ secs \in Seq(Section) /\ sym \in Seq(SymbolRecord) /\ rel \in Seq(RelocRecord)
      /\ \A k \in DOMAIN sym : sym[k].sec \in 0 .. Len(secs) /\ sym[k].value \in Nat
      /\ \A r \in DOMAIN rel : rel[r].sec \in 1 .. Len(secs) /\ rel[r].sym \in 0 .. Len(sym)
      /\ entry \in 0 .. Len(sym)
  BY <1>1, SplitState, Zenon DEF IsGraph
<1>4. \A r \in DOMAIN rel : rel[r] \in RelocRecord
  BY <1>3, SMTT(30), SMTT(60)
<1>5. /\ Len(secs) \in Nat /\ DOMAIN secs = 1 .. Len(secs) /\ Len(Cuts) \in Nat
      /\ DOMAIN Cuts = 1 .. Len(Cuts)
  BY <1>1, SplitState, CutsSeq, Zenon
<1>6. ASSUME NEW k \in DOMAIN sym
      PROVE  /\ sym'[k].sec = PieceOf(sym[k].sec, sym[k].value)
             /\ sym'[k].value = sym[k].value - PieceStart(sym[k].sec, sym[k].value)
             /\ sym'[k] \in SymbolRecord /\ sym'[k].sec \in 0 .. Len(secs')
  <2> DEFINE p == PieceOf(sym[k].sec, sym[k].value)
             b == PieceStart(sym[k].sec, sym[k].value)
  <2>1. sym'[k] = [sec |-> p, value |-> sym[k].value - b]
    BY <1>2, Zenon
  <2>2. p \in 0 .. Len(secs) + Len(Cuts) /\ b \in Nat /\ b <= sym[k].value /\ sym[k].value \in Nat
    BY <1>1, <1>3, PieceIs, Zenon
  <2>3. Len(secs') = Len(secs) + Len(Cuts)
    BY CutSections, Zenon
  <2> HIDE DEF p, b
  <2>4. sym'[k] \in SymbolRecord /\ sym'[k].sec = p /\ sym'[k].value = sym[k].value - b
    BY <1>5, <2>1, <2>2, SMTT(30), SMTT(60) DEF SymbolRecord
  <2> QED
    BY <2>2, <2>3, <2>4, Zenon DEF p, b
<1>7. ASSUME NEW r \in DOMAIN rel
      PROVE  /\ rel'[r].sec = PieceOf(rel[r].sec, rel[r].off) /\ rel'[r].sym = rel[r].sym
             /\ rel'[r].off = rel[r].off - PieceStart(rel[r].sec, rel[r].off)
             /\ rel'[r] \in RelocRecord /\ rel'[r].sec \in 1 .. Len(secs')
  <2> DEFINE x == rel[r]
             p == PieceOf(rel[r].sec, rel[r].off)
             b == PieceStart(rel[r].sec, rel[r].off)
  <2>1. rel'[r] = [x EXCEPT !.sec = p, !.off = x.off - b]
    BY <1>2, Zenon
  <2>2. x \in RelocRecord /\ x.off \in Nat
    BY <1>4, SMTT(30), SMTT(60) DEF RelocRecord
  <2>3. rel[r].sec \in 0 .. Len(secs) /\ rel[r].sec # 0
    BY <1>3, <1>5, SMTT(30), SMTT(60)
  <2>4. p \in 0 .. Len(secs) + Len(Cuts) /\ p # 0 /\ b \in Nat /\ b <= x.off
    BY <1>1, <2>2, <2>3, PieceIs, Zenon
  <2>5. Len(secs') = Len(secs) + Len(Cuts)
    BY CutSections, Zenon
  <2> HIDE DEF x, p, b
  <2>6. rel'[r] \in RelocRecord /\ rel'[r].sec = p /\ rel'[r].off = x.off - b /\ rel'[r].sym = x.sym
    <3> DEFINE d == x.off - b
    <3>1. p \in Nat \ {0} /\ d \in Nat
      BY <1>5, <2>2, <2>4, SMTT(30), SMTT(60)
    <3>2. rel'[r] = [x EXCEPT !.sec = p, !.off = d]
      BY <2>1, Zenon
    <3> HIDE DEF d
    <3>3. rel'[r].sec = p /\ rel'[r].off = d /\ rel'[r].sym = x.sym
      BY <2>2, <3>2, SMTT(30), SMTT(60) DEF RelocRecord
    <3>4. rel'[r] \in RelocRecord
      BY <2>2, <3>1, <3>2, Zenon DEF RelocRecord
    <3> QED
      BY <3>3, <3>4, Zenon DEF d
  <2>7. p \in 1 .. Len(secs) + Len(Cuts)
    BY <1>5, <2>4, SMTT(30), SMTT(60)
  <2> QED
    BY <2>5, <2>6, <2>7, ZenonT(30), ZenonT(60) DEF x, p, b
<1>8. sym' \in Seq(SymbolRecord) /\ Len(sym') = Len(sym) /\ DOMAIN sym' = DOMAIN sym
  <2>1. DOMAIN sym = 1 .. Len(sym) /\ Len(sym) \in Nat
    BY <1>3, SMTT(30), SMTT(60)
  <2>2. sym' \in [1 .. Len(sym) -> SymbolRecord]
    <3>1. sym' = [k \in DOMAIN sym |-> sym'[k]]
      BY <1>2, Zenon
    <3> QED
      BY <1>6, <2>1, <3>1, Zenon
  <2> QED
    BY <2>1, <2>2, SequenceIs, Zenon
<1>9. rel' \in Seq(RelocRecord) /\ Len(rel') = Len(rel) /\ DOMAIN rel' = DOMAIN rel
  <2>1. DOMAIN rel = 1 .. Len(rel) /\ Len(rel) \in Nat
    BY <1>3, SMTT(30), SMTT(60)
  <2>2. rel' \in [1 .. Len(rel) -> RelocRecord]
    <3>1. rel' = [r \in DOMAIN rel |-> rel'[r]]
      BY <1>2, Zenon
    <3> QED
      BY <1>7, <2>1, <3>1, Zenon
  <2> QED
    BY <2>1, <2>2, SequenceIs, Zenon
<1>10. secs' \in Seq(Section)
  <2>1. \A t \in DOMAIN secs' : secs'[t] \in Section
    <3> SUFFICES ASSUME NEW t \in DOMAIN secs' PROVE secs'[t] \in Section
      BY Zenon
    <3>1. CASE t \in DOMAIN secs
      BY <3>1, CutSectionsAre, Zenon
    <3>2. CASE t \notin DOMAIN secs
      <4>1. DOMAIN secs' = 1 .. Len(secs) + Len(Cuts)
        BY CutSections, Zenon
      <4>2. t - Len(secs) \in DOMAIN Cuts /\ t = Len(secs) + (t - Len(secs))
        BY <1>5, <3>2, <4>1, SMTT(30), SMTT(60)
      <4> QED
        BY <4>2, CutSectionsAre, Zenon
    <3> QED
      BY <3>1, <3>2, Zenon
  <2> DEFINE n == Len(secs) + Len(Cuts)
             A == [s \in DOMAIN secs |->
                    IF IsSplit(s) THEN [secs[s] EXCEPT !.size = 0, !.hi = 0] ELSE secs[s]]
             B == [j \in DOMAIN Cuts |-> Fragment(Cuts[j])]
  <2>2. secs' = A \o B
    BY Zenon DEF RestoreInputSections
  <2>3. DOMAIN secs' = 1 .. n /\ n \in Nat
    <3>1. n \in Nat
      BY <1>5, SMTT(30), SMTT(60)
    <3> QED
      BY <3>1, CutSections, Zenon
  <2>4. A \in Seq(Section) /\ B \in Seq(Section)
    <3>1. \A s \in DOMAIN secs : A[s] = secs'[s] /\ s \in DOMAIN secs'
      <4>1. \A s \in DOMAIN secs : s \in DOMAIN secs'
        BY <1>5, <2>3, SMTT(30), SMTT(60)
      <4> QED
        BY <4>1, CutSections, Zenon
    <3>2. \A j \in DOMAIN Cuts : B[j] = secs'[Len(secs) + j] /\ Len(secs) + j \in DOMAIN secs'
      <4>1. \A j \in DOMAIN Cuts : Len(secs) + j \in DOMAIN secs'
        BY <1>5, <2>3, SMTT(30), SMTT(60)
      <4> QED
        BY <4>1, CutSections, Zenon
    <3>3. A = [s \in DOMAIN secs |-> A[s]] /\ B = [j \in DOMAIN Cuts |-> B[j]]
      BY Zenon
    <3> HIDE DEF A, B
    <3>4. \A s \in DOMAIN secs : A[s] \in Section
      BY <2>1, <3>1, Zenon
    <3>5. \A j \in DOMAIN Cuts : B[j] \in Section
      BY <2>1, <3>2, Zenon
    <3>6. A \in [1 .. Len(secs) -> Section] /\ B \in [1 .. Len(Cuts) -> Section]
      BY <1>5, <3>3, <3>4, <3>5, Zenon
    <3> QED
      BY <1>5, <3>6, SequenceIs, Zenon
  <2> HIDE DEF A, B
  <2> QED
    BY <2>2, <2>4, SMTT(30), SMTT(60)
<1>11. IsGraph(secs, sym, rel, entry)'
  BY <1>1, <1>3, <1>6, <1>7, <1>8, <1>9, <1>10, Zenon DEF IsGraph
<1> QED
  BY <1>6, <1>7, <1>8, <1>9, <1>11, Zenon

(* minild_gc_restore_input_sections cuts no input section, and takes every *)
(* symbol and relocation along with its byte.                              *)
LEMMA RestoreInputSectionsStep ==
  ASSUME Counting
  PROVE  LinkInv /\ RestoreInputSections => LinkInv'
<1> SUFFICES ASSUME LinkInv, RestoreInputSections PROVE LinkInv'
  BY Zenon
<1>1. /\ pc = "split" /\ pc' = "order"
      /\ UNCHANGED <<job, base, kept, entry, ri, live, queue, head, todo, status>>
  BY Zenon DEF RestoreInputSections, Goto, markVars
<1>2. /\ InputsOK /\ MergedOK /\ MergedSymbols /\ GraphOK /\ MarkOK /\ SymbolsOK /\ RelocsOK /\ KeptOK
  BY Zenon DEF LinkInv
<1>3. /\ IsJob(job) /\ N \in Nat /\ Len(job.syms) \in Nat /\ Len(base) = N
      /\ DOMAIN secs = 1 .. Len(secs) /\ Len(secs) \in Nat
      /\ DOMAIN sym = 1 .. N + Len(job.syms)
      /\ \A i \in 1 .. N : NameOf(i) \in Name /\ SizeOf(i) \in Nat /\ base[i] \in Nat
      /\ \A k \in DOMAIN sym : sym[k].value \in Nat /\ sym[k].sec \in 0 .. Len(secs)
  BY <1>1, SplitState, Zenon
<1>4. \A t, i : Holds(t, i)' <=> HoldsNext(t, i)
  BY <1>1, NextHolds, Zenon
<1>5. /\ IsGraph(secs, sym, rel, entry)' /\ Len(sym') = Len(sym) /\ Len(rel') = Len(rel)
      /\ DOMAIN sym' = DOMAIN sym /\ DOMAIN rel' = DOMAIN rel
      /\ \A k \in DOMAIN sym :
           /\ sym'[k].sec = PieceOf(sym[k].sec, sym[k].value)
           /\ sym'[k].value = sym[k].value - PieceStart(sym[k].sec, sym[k].value)
      /\ \A r \in DOMAIN rel :
           /\ rel'[r].sec = PieceOf(rel[r].sec, rel[r].off) /\ rel'[r].sym = rel[r].sym
           /\ rel'[r].off = rel[r].off - PieceStart(rel[r].sec, rel[r].off)
  BY CutGraph, Zenon
<1>6. \A i \in 1 .. N : \A s \in DOMAIN secs :
        SizeOf(i) > 0 /\ secs[s].name = NameOf(i) =>
          /\ PieceOf(s, base[i]) \in DOMAIN secs'
          /\ \A t \in DOMAIN secs' : HoldsNext(t, i) <=> t = PieceOf(s, base[i])
          /\ secs'[PieceOf(s, base[i])].lo = PieceStart(s, base[i])
          /\ \A x \in Nat : x < SizeOf(i) =>
               /\ PieceOf(s, base[i] + x) = PieceOf(s, base[i])
               /\ PieceStart(s, base[i] + x) = PieceStart(s, base[i])
  BY <1>4, PieceHolds, Zenon
<1>7. \A i \in 1 .. N : /\ MergedIndex(NameOf(i)) \in DOMAIN secs
                        /\ secs[MergedIndex(NameOf(i))].name = NameOf(i)
                        /\ base[i] + SizeOf(i) <= secs[MergedIndex(NameOf(i))].hi
                        /\ \A t \in DOMAIN secs : secs[t].name = NameOf(i) => t = MergedIndex(NameOf(i))
  BY <1>1, <1>2, <1>3, MergedHome, Zenon
<1>8. \A t \in DOMAIN secs' : SectionOK(t)'
  <2> SUFFICES ASSUME NEW t \in DOMAIN secs' PROVE SectionOK(t)'
    BY Zenon
  <2>1. CASE t \in DOMAIN secs
    BY <2>1, CutSectionsAre, Zenon
  <2>2. CASE t \notin DOMAIN secs
    <3>1. DOMAIN secs' = 1 .. Len(secs) + Len(Cuts) /\ DOMAIN Cuts = 1 .. Len(Cuts) /\ Len(Cuts) \in Nat
      BY <1>1, CutSections, CutsSeq, Zenon
    <3>2. t - Len(secs) \in DOMAIN Cuts /\ t = Len(secs) + (t - Len(secs))
      BY <1>3, <2>2, <3>1, SMTT(30), SMTT(60)
    <3> QED
      BY <3>2, CutSectionsAre, Zenon
  <2> QED
    BY <2>1, <2>2, Zenon
<1>9. InputsOK' /\ GraphOK' /\ MarkOK' /\ SectionsOK' /\ KeptOK'
  <2>1. secs' \in Seq(Section)
    BY <1>5, Zenon DEF IsGraph
  <2>2. InputsOK'
    BY <1>1, <1>2, <2>1, SameJob, Zenon DEF InputsOK, IsJob
  <2>3. GraphOK'
    BY <1>1, <1>2, <1>5, SameJob, Zenon DEF GraphOK
  <2>4. MarkOK'
    BY <1>1, <1>2, Zenon DEF MarkOK, MarkStart, QueueSuffices
  <2>5. SectionsOK'
    BY <1>8, Zenon DEF SectionsOK
  <2>6. kept = DOMAIN rel
    BY <1>1, <1>2, SMTT(30), SMTT(60) DEF KeptOK, Pruned
  <2>7. KeptOK'
    BY <1>1, <1>5, <2>6, SMTT(30), SMTT(60) DEF KeptOK, Pruned
  <2> QED
    BY <2>2, <2>3, <2>4, <2>5, <2>7, Zenon
<1>10. Pieces'
  <2>1. ASSUME NEW i \in 1 .. N, SizeOf(i) > 0
        PROVE  \E s \in DOMAIN secs' : HoldsNext(s, i)
    BY <1>6, <1>7, <2>1, Zenon
  <2>2. ASSUME NEW i \in 1 .. N, NEW s \in DOMAIN secs', NEW t \in DOMAIN secs',
               HoldsNext(s, i), HoldsNext(t, i)
        PROVE  s = t
    <3>1. SizeOf(i) > 0
      BY <2>2, Zenon DEF HoldsNext
    <3> QED
      BY <1>6, <1>7, <2>2, <3>1, Zenon
  <2> QED
    BY <1>1, <1>4, <2>1, <2>2, SameJob, Zenon DEF Pieces, Inputs
(* A byte of an input section goes where its input section goes.           *)
<1>11. ASSUME NEW i \in 1 .. N, NEW s \in DOMAIN secs, secs[s].name = NameOf(i),
              NEW x \in Nat, x < SizeOf(i)
       PROVE  /\ PieceOf(s, base[i] + x) \in DOMAIN secs'
              /\ HoldsNext(PieceOf(s, base[i] + x), i)
              /\ secs'[PieceOf(s, base[i] + x)].lo + ((base[i] + x) - PieceStart(s, base[i] + x))
                   = base[i] + x
  <2>1. SizeOf(i) > 0
    BY <1>3, <1>11, SMTT(30), SMTT(60)
  <2>2. /\ PieceOf(s, base[i]) \in DOMAIN secs' /\ HoldsNext(PieceOf(s, base[i]), i)
        /\ secs'[PieceOf(s, base[i])].lo = PieceStart(s, base[i])
        /\ PieceOf(s, base[i] + x) = PieceOf(s, base[i])
        /\ PieceStart(s, base[i] + x) = PieceStart(s, base[i])
    BY <1>6, <1>11, <2>1, Zenon
  <2>3. base[i] \in Nat /\ s \in 0 .. Len(secs)
    BY <1>3, SMTT(30), SMTT(60)
  <2>4. PieceStart(s, base[i]) \in Nat
    BY <1>1, <2>3, PieceIs, Zenon
  <2>5. PieceStart(s, base[i]) + ((base[i] + x) - PieceStart(s, base[i])) = base[i] + x
    BY <2>3, <2>4, SMTT(30), SMTT(60)
  <2> QED
    BY <2>2, <2>5, Zenon
<1>12. SymbolsOK'
  <2>1. ASSUME NEW k \in 1 .. N + Len(job.syms), ~Defined(k)
        PROVE  sym'[k].sec = 0
    <3>1. sym[k].sec = 0 /\ sym[k].sec \in 0 .. Len(secs) /\ sym[k].value \in Nat
      BY <1>1, <1>2, <1>3, <2>1, SMTT(30), SMTT(60) DEF SymbolsOK
    <3> QED
      BY <1>3, <1>5, <3>1, Zenon DEF PieceOf
  <2>2. ASSUME NEW k \in 1 .. N + Len(job.syms), AtByte(k)
        PROVE  Located(k)'
    <3> DEFINE i == SymbolInput(k)
               x == SymbolOffset(k)
    <3>1. Defined(k) /\ x < SizeOf(i)
      BY <2>2, Zenon DEF AtByte
    <3>2. i \in 1 .. N /\ x \in Nat
      <4>1. i \in 0 .. N /\ x \in Nat
        BY <1>3, SymbolIs, SMTT(30), SMTT(60)
      <4>2. i # 0
        BY <3>1, Zenon DEF Defined
      <4> QED
        BY <1>3, <4>1, <4>2, SMTT(30), SMTT(60)
    <3>3. /\ sym[k].sec \in DOMAIN secs /\ secs[sym[k].sec].name = NameOf(i)
          /\ sym[k].value = base[i] + x
      BY <1>1, <1>2, <3>1, ZenonT(30), ZenonT(60) DEF MergedSymbols
    <3>4. /\ sym'[k].sec = PieceOf(sym[k].sec, base[i] + x)
          /\ sym'[k].value = (base[i] + x) - PieceStart(sym[k].sec, base[i] + x)
      BY <1>3, <1>5, <3>3, Zenon
    <3> HIDE DEF i, x
    <3>5. /\ sym'[k].sec \in DOMAIN secs' /\ HoldsNext(sym'[k].sec, i)
          /\ secs'[sym'[k].sec].lo + sym'[k].value = base[i] + x
      BY <1>11, <3>1, <3>2, <3>3, <3>4, ZenonT(30), ZenonT(60)
    <3>6. /\ sym'[k].sec \in DOMAIN secs' /\ HoldsNext(sym'[k].sec, SymbolInput(k))
          /\ secs'[sym'[k].sec].lo + sym'[k].value = base[SymbolInput(k)] + SymbolOffset(k)
      BY <3>5, Zenon DEF i, x
    <3>7. Holds(sym[k].sec, SymbolInput(k))'
      BY <1>1, <3>6, SameJob, Zenon DEF Holds, HoldsNext
    <3> QED
      BY <1>1, <3>6, <3>7, SameJob, Zenon DEF Located
  <2> QED
    BY <1>1, <2>1, <2>2, SameJob, Zenon DEF SymbolsOK
<1>13. RelocsOK'
  <2>1. ASSUME NEW r \in DOMAIN rel
        PROVE  /\ HoldsNext(rel'[r].sec, job.rels[r].isec)
               /\ secs'[rel'[r].sec].lo + rel'[r].off = base[job.rels[r].isec] + job.rels[r].off
    <3> DEFINE i == job.rels[r].isec
               x == job.rels[r].off
    <3>1. Holds(rel[r].sec, i) /\ secs[rel[r].sec].lo + rel[r].off = base[i] + x
      BY <1>1, <1>2, SMTT(30), SMTT(60) DEF RelocsOK
    <3>2. i \in 1 .. N /\ x \in Nat /\ x < SizeOf(i)
      <4>1. r \in DOMAIN job.rels
        <5>1. rel \in Seq(RelocRecord) /\ Len(rel) = Len(job.rels)
          BY <1>1, <1>2, SMTT(30), SMTT(60) DEF GraphOK, IsGraph
        <5>2. DOMAIN rel = 1 .. Len(rel)
          BY <5>1, SMTT(30), SMTT(60)
        <5> QED
          BY <1>3, <5>1, <5>2, JobIs, Zenon
      <4> QED
        BY <1>3, <4>1, JobIs, Zenon
    <3>3. rel[r].sec \in DOMAIN secs /\ rel[r].off \in Nat
      <4>1. rel \in Seq(RelocRecord) /\ rel[r].sec \in 1 .. Len(secs)
        BY <1>1, <1>2, SMTT(30), SMTT(60) DEF GraphOK, IsGraph
      <4>2. rel[r] \in RelocRecord
        BY <4>1, SMTT(30), SMTT(60)
      <4> QED
        BY <1>3, <4>1, <4>2, SMTT(30), SMTT(60) DEF RelocRecord
    <3>4. secs[rel[r].sec].name = NameOf(i)
      BY <3>1, Zenon DEF Holds
    <3>5. rel[r].off = base[i] + x
      <4>1. secs[rel[r].sec].lo = 0
        BY <1>1, <1>2, <3>3, MergedSectionIs, ZenonT(30), ZenonT(60)
      <4> QED
        BY <3>1, <3>3, <4>1, SMTT(30), SMTT(60)
    <3>6. /\ rel'[r].sec = PieceOf(rel[r].sec, base[i] + x)
          /\ rel'[r].off = (base[i] + x) - PieceStart(rel[r].sec, base[i] + x)
      BY <1>5, <3>5, SMTT(30), SMTT(60)
    <3> HIDE DEF i, x
    <3>7. HoldsNext(rel'[r].sec, i) /\ secs'[rel'[r].sec].lo + rel'[r].off = base[i] + x
      BY <1>11, <3>2, <3>3, <3>4, <3>6, ZenonT(30), ZenonT(60)
    <3> QED
      BY <3>7, Zenon DEF i, x
  <2>2. ASSUME NEW r \in DOMAIN rel
        PROVE  Holds(rel[r].sec, job.rels[r].isec)'
    BY <1>1, <2>1, SameJob, Zenon DEF Holds, HoldsNext
  <2> QED
    BY <1>1, <1>5, <2>1, <2>2, Zenon DEF RelocsOK
(* Facts on a section of the image that holds an input section.            *)
<1>14. ASSUME NEW t \in DOMAIN secs', NEW i \in 1 .. N, HoldsNext(t, i), secs'[t].alloc
       PROVE  \E s \in DOMAIN secs :
                /\ s = MergedIndex(NameOf(i)) /\ secs[s].name = NameOf(i) /\ secs[s].alloc
                /\ t = PieceOf(s, base[i]) /\ base[i] + SizeOf(i) <= secs[s].size /\ secs[s].size \in Nat
                /\ SizeOf(i) > 0 /\ NameOf(i) = secs'[t].name
  <2> DEFINE s == MergedIndex(NameOf(i))
  <2>1. /\ s \in DOMAIN secs /\ secs[s].name = NameOf(i) /\ base[i] + SizeOf(i) <= secs[s].hi
    BY <1>7, Zenon
  <2>2. SizeOf(i) > 0 /\ NameOf(i) = secs'[t].name
    BY <1>14, Zenon DEF HoldsNext
  <2>3. t = PieceOf(s, base[i])
    BY <1>6, <1>14, <2>1, <2>2, Zenon
  <2>4. SectionOK(s) /\ secs[s].size \in Nat /\ secs[s].size = secs[s].hi
    BY <1>1, <1>2, <2>1, MergedSectionIs, Zenon
  <2>5. secs[s].alloc
    BY <1>8, <1>14, <2>1, <2>2, <2>4, Zenon DEF SectionOK
  <2> HIDE DEF s
  <2>6. base[i] + SizeOf(i) <= secs[s].size
    BY <2>1, <2>4, SMTT(30), SMTT(60)
  <2> QED
    BY <2>1, <2>2, <2>3, <2>4, <2>5, <2>6, Zenon DEF s
<1>15. AllMarked => \A j \in 1 .. N : Defined(j)
  <2>1. \A j \in 1 .. N : SymbolInput(j) # 0
    BY <1>3, SMTT(30), SMTT(60) DEF SymbolInput
  <2> QED
    BY <2>1, Zenon DEF AllMarked, Defined
<1>16. Apart'
  <2>1. ASSUME AllMarked, NEW t \in DOMAIN secs', NEW i \in 1 .. N, NEW j \in 1 .. N,
               HoldsNext(t, i), HoldsNext(t, j), secs'[t].alloc
        PROVE  ~(i < j)
    <3> SUFFICES ASSUME i < j PROVE FALSE
      BY Zenon
    <3>1. PICK s \in DOMAIN secs :
            /\ s = MergedIndex(NameOf(i)) /\ t = PieceOf(s, base[i]) /\ NameOf(i) = secs'[t].name
            /\ SizeOf(i) > 0
      BY <1>14, <2>1, Zenon
    <3>2. PICK u \in DOMAIN secs :
            /\ u = MergedIndex(NameOf(j)) /\ secs[u].name = NameOf(j) /\ secs[u].alloc
            /\ t = PieceOf(u, base[j]) /\ base[j] + SizeOf(j) <= secs[u].size
            /\ secs[u].size \in Nat /\ SizeOf(j) > 0 /\ NameOf(j) = secs'[t].name
      BY <1>14, <2>1, Zenon
    <3>3. s = u /\ NameOf(i) = NameOf(j)
      BY <3>1, <3>2, Zenon
    <3>4. base[i] + SizeOf(i) <= base[j]
      BY <1>2, <1>3, <3>3, Zenon DEF InputsOK
    <3>5. /\ base[i] \in Nat /\ base[j] \in Nat /\ SizeOf(i) \in Nat /\ SizeOf(j) \in Nat
      BY <1>3, Zenon
    <3>6. base[i] < base[j] /\ base[j] < secs[u].size
      <4>1. SizeOf(i) > 0 /\ SizeOf(j) > 0 /\ base[j] + SizeOf(j) <= secs[u].size /\ secs[u].size \in Nat
        BY <3>1, <3>2, Zenon
      <4> QED
        BY <3>4, <3>5, <4>1, SMTT(30), SMTT(60)
    <3>7. PieceOf(u, base[i]) # PieceOf(u, base[j])
      BY <1>1, <1>15, <2>1, <3>2, <3>5, <3>6, EarlierPiece, Zenon
    <3> QED
      BY <3>1, <3>2, <3>3, <3>7, Zenon
  <2>2. ASSUME AllMarked, NEW t \in DOMAIN secs', NEW i \in 1 .. N, NEW j \in 1 .. N,
               HoldsNext(t, i), HoldsNext(t, j), secs'[t].alloc
        PROVE  i = j
    <3>1. ~(i < j) /\ ~(j < i)
      BY <2>1, <2>2, Zenon
    <3> QED
      BY <1>3, <3>1, SMTT(30), SMTT(60)
  <2> QED
    BY <1>1, <1>4, <2>2, SameJob, SameNeeds, Zenon DEF Apart, Inputs
<1>17. FirstMarks'
  <2>1. ASSUME AllMarked, NEW t \in DOMAIN secs', NEW i \in 1 .. N, NEW p \in 1 .. N,
               HoldsNext(t, i), secs'[t].alloc, IsPlace(p, i)
        PROVE  sym'[p].sec = t /\ \A q \in 1 .. p - 1 : sym'[q].sec # t
    <3>1. PICK s \in DOMAIN secs :
            /\ s = MergedIndex(NameOf(i)) /\ secs[s].name = NameOf(i) /\ secs[s].alloc
            /\ t = PieceOf(s, base[i]) /\ base[i] + SizeOf(i) <= secs[s].size
            /\ secs[s].size \in Nat /\ SizeOf(i) > 0
      BY <1>14, <2>1, Zenon
    <3>2. NameOf(p) = NameOf(i) /\ base[p] = base[i]
      BY <2>1, Zenon DEF IsPlace
    <3>3. \A q \in 1 .. N : /\ q \in DOMAIN sym /\ sym[q].value = base[q] /\ sym[q].sec = MergedIndex(NameOf(q))
                            /\ sym[q].sec \in DOMAIN secs /\ secs[sym[q].sec].name = NameOf(q)
      BY <1>1, <1>15, <2>1, SectionSymbols, Zenon
    <3>4. sym'[p].sec = t
      <4>1. sym[p].sec = s /\ sym[p].value = base[i] /\ p \in DOMAIN sym
        BY <3>1, <3>2, <3>3, Zenon
      <4> QED
        BY <1>5, <3>1, <4>1, Zenon
    <3>5. ASSUME NEW q \in 1 .. p - 1, sym'[q].sec = t
          PROVE  FALSE
      <4>1. q \in 1 .. N /\ q < p
        BY <1>3, SMTT(30), SMTT(60)
      <4>2. PieceOf(sym[q].sec, base[q]) = PieceOf(s, base[i])
        BY <1>5, <3>1, <3>3, <3>5, <4>1, ZenonT(30), ZenonT(60)
      <4>3. base[q] \in Nat /\ base[i] \in Nat /\ base[p] \in Nat /\ SizeOf(q) \in Nat /\ SizeOf(i) \in Nat
        BY <1>3, <4>1, Zenon
      <4>4. sym[q].sec = s
        <5>1. sym[q].sec \in DOMAIN secs
          BY <3>3, <4>1, Zenon
        <5> QED
          BY <1>1, <4>2, <4>3, <5>1, PieceOnce, SMTT(30), SMTT(60)
      <4>5. NameOf(q) = NameOf(i)
        BY <3>1, <3>3, <4>1, <4>4, Zenon
      <4>6. base[q] # base[i]
        BY <2>1, <4>5, Zenon DEF IsPlace
      <4>7. base[q] + SizeOf(q) <= base[p]
        BY <1>2, <1>3, <3>2, <4>1, <4>5, ZenonT(30), ZenonT(60) DEF InputsOK
      <4>8. base[q] < base[p] /\ base[p] < secs[s].size
        BY <3>1, <3>2, <4>3, <4>6, <4>7, SMTT(30), SMTT(60)
      <4>9. PieceOf(s, base[q]) # PieceOf(s, base[p])
        BY <1>1, <1>15, <2>1, <3>1, <3>2, <4>3, <4>8, EarlierPiece, Zenon
      <4> QED
        BY <3>2, <4>2, <4>4, <4>9, Zenon
    <3> QED
      BY <3>4, <3>5, Zenon
  <2> QED
    BY <1>1, <1>4, <2>1, SameJob, SameNeeds, SamePlace, Zenon DEF FirstMarks, Inputs
<1> QED
  BY <1>1, <1>9, <1>10, <1>12, <1>13, <1>16, <1>17, Zenon
     DEF LinkInv, MergedOK, MergedSymbols, InOrder, Collected, Pruned, PruneOK

-----------------------------------------------------------------------------
(* Finite sets.                                                            *)

(* A nonempty set of naturals has a least element.                         *)
LEMMA LeastHolds == LeastExists
<1> SUFFICES ASSUME NEW T \in SUBSET Nat, T # {}
             PROVE  \E x \in T : \A y \in T : x <= y
  BY Zenon DEF LeastExists
<1>1. IsWellFoundedOn(OpToRel(<, Nat), Nat)
  BY NatLessThanWellFounded, Zenon
<1>2. PICK x \in T : \A y \in T : ~(<<y, x>> \in OpToRel(<, Nat))
  BY <1>1, WFMin, Zenon
<1>3. \A y \in T : ~(y < x)
  BY <1>2, Zenon DEF OpToRel
<1> QED
  BY <1>3, SMTT(30), SMTT(60)

(* The cuts of a link, a section and an offset each, are finitely many.    *)
LEMMA TablesHold == TablesAreFinite
<1> SUFFICES ASSUME NEW m \in Nat, NEW n \in Nat, NEW f, NEW X,
                    X \subseteq (1 .. m) \X {f[i] : i \in 0 .. n}
             PROVE  IsFiniteSet(X)
  BY Zenon DEF TablesAreFinite
<1> DEFINE g == [i \in 0 .. n |-> f[i]]
           V == {f[i] : i \in 0 .. n}
<1>1. IsFiniteSet(0 .. n) /\ IsFiniteSet(1 .. m)
  <2>1. 0 \in Int /\ 1 \in Int /\ n \in Int /\ m \in Int
    BY SMTT(30), SMTT(60)
  <2> QED
    BY <2>1, FS_Interval, Zenon
<1>2. g \in Surjection(0 .. n, V)
  BY Zenon DEF Surjection
<1>3. IsFiniteSet(V)
  BY <1>1, <1>2, FS_Surjection, Zenon
<1>4. IsFiniteSet((1 .. m) \X V)
  BY <1>1, <1>3, FS_Product, Zenon
<1> QED
  BY <1>4, FS_Subset, Zenon

(* What sorting by counting predecessors gives: every element once, in the *)
(* order R.                                                                *)
LEMMA SortsHold == SortsByCounting
<1> SUFFICES ASSUME NEW S, IsFiniteSet(S), NEW R,
                    \A x \in S : <<x, x>> \notin R,
                    \A x, y \in S : x # y => <<x, y>> \in R \/ <<y, x>> \in R,
                    \A x, y, z \in S : <<x, y>> \in R /\ <<y, z>> \in R => <<x, z>> \in R
             PROVE  IsSorted(S, R)
  BY Zenon DEF SortsByCounting, IsStrictTotal
<1> SUFFICES /\ Cardinality(S) \in Nat
             /\ Sorted(S, R) \in [1 .. Cardinality(S) -> S]
             /\ \A x \in S : \E i \in 1 .. Cardinality(S) : Sorted(S, R)[i] = x
             /\ \A i, j \in 1 .. Cardinality(S) :
                  i < j <=> <<Sorted(S, R)[i], Sorted(S, R)[j]>> \in R
  BY Zenon DEF IsSorted
<1> DEFINE c == Cardinality(S)
           Below(x) == {y \in S : <<y, x>> \in R}
           rank == [x \in S |-> Cardinality(Below(x))]
<1>1. c \in Nat
  BY FS_CardinalityType, SMTT(30), SMTT(60)
<1>2. ASSUME NEW x \in S
      PROVE  IsFiniteSet(Below(x)) /\ rank[x] \in 0 .. c - 1
  <2>1. Below(x) \in SUBSET S /\ Below(x) # S
    BY Zenon
  <2>2. IsFiniteSet(Below(x)) /\ Cardinality(Below(x)) <= c /\ c # Cardinality(Below(x))
    BY <2>1, FS_Subset, Zenon
  <2>3. Cardinality(Below(x)) \in Nat
    BY <2>2, FS_CardinalityType, Zenon
  <2> QED
    BY <1>1, <2>2, <2>3, SMTT(30), SMTT(60)
<1>3. ASSUME NEW x \in S, NEW y \in S, <<x, y>> \in R
      PROVE  rank[x] < rank[y]
  <2>1. Below(x) \in SUBSET Below(y) /\ Below(x) # Below(y)
    BY <1>3, Zenon
  <2>2. IsFiniteSet(Below(y))
    BY <1>2, Zenon
  <2>3. Cardinality(Below(x)) <= Cardinality(Below(y)) /\ Cardinality(Below(x)) # Cardinality(Below(y))
    BY <2>1, <2>2, FS_Subset, Zenon
  <2>4. rank[x] \in Nat /\ rank[y] \in Nat
    <3>1. rank[x] \in 0 .. c - 1 /\ rank[y] \in 0 .. c - 1
      BY <1>2, Zenon
    <3> HIDE DEF rank, c
    <3> QED
      BY <1>1, <3>1, SMTT(30), SMTT(60)
  <2> QED
    BY <2>3, <2>4, SMTT(30), SMTT(60)
<1>4. \A x, y \in S : rank[x] = rank[y] => x = y
  <2>1. \A x \in S : rank[x] \in 0 .. c - 1
    BY <1>2, Zenon
  <2>2. \A x, y \in S : <<x, y>> \in R => rank[x] < rank[y]
    BY <1>3, Zenon
  <2> SUFFICES ASSUME NEW x \in S, NEW y \in S, rank[x] = rank[y], x # y PROVE FALSE
    BY Zenon
  <2>3. rank[x] < rank[y] \/ rank[y] < rank[x]
    BY <2>2, Zenon
  <2>4. rank[x] \in 0 .. c - 1 /\ rank[y] \in 0 .. c - 1
    BY <2>1, Zenon
  <2> HIDE DEF rank, c
  <2> QED
    BY <1>1, <2>3, <2>4, SMTT(30), SMTT(60)
<1>5. rank \in Injection(S, 0 .. c - 1)
  <2>1. rank \in [S -> 0 .. c - 1]
    BY <1>2, Zenon
  <2> QED
    BY <1>4, <2>1, Zenon DEF Injection, IsInjective
<1>6. rank \in Surjection(S, 0 .. c - 1)
  <2>1. IsFiniteSet(0 .. c - 1) /\ Cardinality(0 .. c - 1) = c
    <3>1. 0 \in Int /\ c - 1 \in Int
      BY <1>1, SMTT(30), SMTT(60)
    <3>2. IsFiniteSet(0 .. c - 1) /\ Cardinality(0 .. c - 1) = IF 0 > c - 1 THEN 0 ELSE c - 1 - 0 + 1
      BY <3>1, FS_Interval, Zenon
    <3> QED
      BY <1>1, <3>2, SMTT(30), SMTT(60)
  <2> QED
    BY <1>5, <2>1, FS_Injection, Zenon
<1>7. \A k \in 0 .. c - 1 : \E x \in S : rank[x] = k
  BY <1>6, Zenon DEF Surjection
<1> DEFINE p == Sorted(S, R)
<1>8. ASSUME NEW i \in 1 .. c
      PROVE  p[i] \in S /\ rank[p[i]] = i - 1
  <2>1. \E x \in S : Cardinality(Below(x)) = i - 1
    <3>1. i - 1 \in 0 .. c - 1
      BY <1>1, SMTT(30), SMTT(60)
    <3>2. PICK x \in S : rank[x] = i - 1
      BY <1>7, <3>1, Zenon
    <3> QED
      BY <3>2, Zenon
  <2>2. p[i] = CHOOSE x \in S : Cardinality(Below(x)) = i - 1
    BY Zenon DEF Sorted
  <2> QED
    BY <2>1, <2>2, Zenon
<1>9. p \in [1 .. c -> S]
  <2>1. p = [i \in 1 .. c |-> CHOOSE x \in S : Cardinality(Below(x)) = i - 1]
    BY Zenon DEF Sorted
  <2>2. p = [i \in 1 .. c |-> p[i]]
    BY <2>1, Zenon
  <2> HIDE DEF p
  <2> QED
    BY <1>8, <2>2, Zenon
<1>10. ASSUME NEW x \in S PROVE \E i \in 1 .. c : p[i] = x
  <2>1. rank[x] \in 0 .. c - 1
    BY <1>2, Zenon
  <2>2. \E i \in 1 .. c : i - 1 = rank[x]
    <3> HIDE DEF rank, c
    <3>1. rank[x] + 1 \in 1 .. c /\ (rank[x] + 1) - 1 = rank[x]
      BY <1>1, <2>1, SMTT(30), SMTT(60)
    <3> QED
      BY <3>1, Zenon
  <2> HIDE DEF p, rank
  <2>3. PICK i \in 1 .. c : i - 1 = rank[x]
    BY <2>2, Zenon
  <2>4. p[i] \in S /\ rank[p[i]] = rank[x]
    BY <1>8, <2>3, Zenon
  <2> QED
    BY <1>4, <2>4, Zenon
<1>11. ASSUME NEW i \in 1 .. c, NEW j \in 1 .. c
       PROVE  i < j <=> <<p[i], p[j]>> \in R
  <2>1. p[i] \in S /\ p[j] \in S /\ rank[p[i]] = i - 1 /\ rank[p[j]] = j - 1
    BY <1>8, Zenon
  <2> HIDE DEF p, rank
  <2>2. CASE <<p[i], p[j]>> \in R
    BY <1>3, <2>1, <2>2, SMTT(30), SMTT(60)
  <2>3. CASE <<p[j], p[i]>> \in R
    <3>1. j < i
      BY <1>3, <2>1, <2>3, SMTT(30), SMTT(60)
    <3>2. <<p[i], p[j]>> \notin R
      BY <2>1, <2>3, Zenon
    <3> QED
      BY <3>1, <3>2, SMTT(30), SMTT(60)
  <2>4. CASE p[i] = p[j]
    BY <2>1, <2>4, SMTT(30), SMTT(60)
  <2> QED
    BY <2>1, <2>2, <2>3, <2>4, Zenon
<1> QED
  BY <1>1, <1>9, <1>10, <1>11, Zenon

(* A queue of distinct sections that misses one has room for it.           *)
LEMMA RoomHolds == HasRoom
<1> SUFFICES ASSUME NEW n \in Nat, NEW q \in Seq(1 .. n), NEW s \in 1 .. n,
                    \A i, j \in 1 .. Len(q) : q[i] = q[j] => i = j,
                    \A i \in 1 .. Len(q) : q[i] # s
             PROVE  Len(q) < n
  BY Zenon DEF HasRoom
<1> DEFINE T == (1 .. n) \ {s}
<1>1. IsFiniteSet(1 .. n) /\ Cardinality(1 .. n) = n
  BY FS_Interval, SMTT(30), SMTT(60)
<1>2. IsFiniteSet(T) /\ Cardinality(T) = n - 1
  BY <1>1, FS_RemoveElement, Zenon
<1>3. q \in Injection(1 .. Len(q), T)
  <2>1. q \in [1 .. Len(q) -> T]
    OBVIOUS
  <2> QED
    BY <2>1, Zenon DEF Injection, IsInjective
<1>4. Cardinality(1 .. Len(q)) <= Cardinality(T)
  BY <1>2, <1>3, FS_Injection, SMTT(30), SMTT(60)
<1>5. Len(q) \in Nat
  OBVIOUS
<1>6. \A m \in Nat : Cardinality(1 .. m) = m
  BY FS_Interval, SMTT(30), SMTT(60)
<1> QED
  BY <1>2, <1>4, <1>5, <1>6, SMTT(30), SMTT(60)

(* What LinkGcLemmas supposes of finite sets.                              *)
LEMMA CountingHolds == Counting
<1>1. IntervalsAreFinite
  BY FS_Interval, SMTT(30), SMTT(60) DEF IntervalsAreFinite
<1> QED
  BY <1>1, RoomHolds, LeastHolds, TablesHold, SortsHold, Zenon DEF Counting

-----------------------------------------------------------------------------
(* The link.                                                               *)

(* The invariant of the garbage collecting link, from the first input      *)
(* section to the layout.                                                  *)
THEOREM LinkInvariant == Spec => []LinkInv
<1>1. LinkInv /\ [Next]_vars => LinkInv'
  BY CountingHolds, MergeSectionStep, MergeEndStep, RestoreInputSectionsStep,
     RestoreInputOrderStep, PruneStaticStep,
     GroupOutputClassesStep, SortOutputAlignmentStep, StutterKeeps, Zenon DEF Next, Step
<1> QED
  BY LinkStarts, <1>1, PTL DEF Spec

(* While sections are marked and swept, the state of                       *)
(* minild_gc_prune_static is well formed, whatever was linked.             *)
THEOREM PruneTypeCorrect ==
  Spec => [](pc \in {"entry", "roots", "mark", "swept", "failed"} => PruneTypeOK)
<1>1. LinkInv => (pc \in {"entry", "roots", "mark", "swept", "failed"} => PruneTypeOK)
  BY Zenon DEF LinkInv, PruneOK, PruneInv
<1> QED
  BY LinkInvariant, <1>1, PTL

(* The queue of section_count places never overflows.                      *)
THEOREM QueueNeverOverflows == Spec => []QueueSuffices
<1>1. LinkInv => QueueSuffices
  BY Zenon DEF LinkInv, MarkOK
<1> QED
  BY LinkInvariant, <1>1, PTL

(* When the marking ends, live[] is exactly what is reachable.             *)
THEOREM MarkingIsExact == Spec => []LiveIsReachable
<1>1. LinkInv => LiveIsReachable
  BY LiveIs, SMTT(30), SMTT(60) DEF LinkInv, PruneOK, LiveIsReachable
<1> QED
  BY LinkInvariant, <1>1, PTL

(* The sweep takes nothing away that a kept relocation refers to.          *)
THEOREM KeptTargetsAreKept == Spec => KeptTargetsStay
<1> DEFINE Stay ==
      pc = "mark" /\ pc' = "swept" =>
        \A r \in kept' :
          Target(r) \in Image =>
            sym'[rel[r].sym] = sym[rel[r].sym] /\ secs'[Target(r)] = secs[Target(r)]
<1>1. LinkInv /\ [Next]_vars => [Stay]_gcVars
  <2> SUFFICES ASSUME LinkInv, [Next]_vars, pc = "mark", pc' = "swept",
                      NEW r \in kept', Target(r) \in Image
               PROVE  sym'[rel[r].sym] = sym[rel[r].sym] /\ secs'[Target(r)] = secs[Target(r)]
    BY Zenon
  <2>0. PruneInv
    BY SMTT(30), SMTT(60) DEF LinkInv, PruneOK
  <2>1. Sweep
    BY Zenon DEF Next, Step, MergeSection, MergeEnd, RestoreInputSections, RestoreInputOrder,
           GroupOutputClasses, SortOutputAlignment, PruneStatic, Prune, MarkEntry, UndefinedEntry,
           MarkRoot, SkipSection, RootsEnd, Pop, MarkTarget, MarkSection, Goto, vars, gcVars, Reorder
  <2>2. r \in DOMAIN rel /\ rel[r].sec \in live
    BY <2>0, <2>1, SMTT(30), SMTT(60) DEF Sweep, PruneInv, PruneTypeOK
  <2>3. Target(r) \in live
    BY <2>0, <2>1, <2>2, LiveIsClosed, Zenon DEF Sweep, Closed
  <2>4. rel[r].sym # 0 /\ sym[rel[r].sym].sec = Target(r) /\ Target(r) \in DOMAIN secs
    <3>1. secs \in Seq(Section)
      BY <2>0, Zenon DEF PruneInv, PruneTypeOK, IsGraph
    <3>2. Target(r) \in 1 .. Len(secs)
      BY Zenon DEF Image
    <3>3. Target(r) # 0 /\ Target(r) \in DOMAIN secs
      BY <3>1, <3>2, SMTT(30), SMTT(60)
    <3> QED
      BY <3>3, Zenon DEF Target
  <2>5. rel[r].sym \in DOMAIN sym
    <3>1. sym \in Seq(SymbolRecord) /\ rel[r].sym \in 0 .. Len(sym)
      BY <2>0, <2>2, Zenon DEF PruneInv, PruneTypeOK, IsGraph
    <3> QED
      BY <2>4, <3>1, SMTT(30), SMTT(60)
  <2> QED
    BY <2>1, <2>3, <2>4, <2>5, Zenon DEF Sweep
<1> QED
  BY LinkInvariant, <1>1, PTL DEF Spec, KeptTargetsStay

(* Every input section stays in one piece, and every symbol inside one     *)
(* stays at its byte or goes with it.                                      *)
THEOREM SymbolsStayWithTheirBytes == Spec => []SymbolsFollowTheirBytes
<1>1. LinkInv => SymbolsFollowTheirBytes
  BY SymbolsStay, Zenon
<1> QED
  BY LinkInvariant, <1>1, PTL

(* The relocations that reach the layout are those of the input sections   *)
(* that do, at their bytes.                                                *)
THEOREM RelocationsStayWithTheirBytes == Spec => []RelocationsFollowTheirBytes
<1>1. LinkInv => RelocationsFollowTheirBytes
  BY RelocationsStay, Zenon
<1> QED
  BY LinkInvariant, <1>1, PTL

(* What is collected is decided input section by input section.            *)
THEOREM CollectsInputSections == Spec => []CollectsByInputSection
<1>1. LinkInv => CollectsByInputSection
  BY NeededInputsStay
<1> QED
  BY LinkInvariant, <1>1, PTL

(* What is laid out alike is laid out in the order of the inputs.          *)
THEOREM InputOrderStays == Spec => []InputOrderIsKept
<1>1. LinkInv => InputOrderIsKept
  BY CountingHolds, OrderStays, SMTT(30), SMTT(60)
<1> QED
  BY LinkInvariant, <1>1, PTL

=============================================================================

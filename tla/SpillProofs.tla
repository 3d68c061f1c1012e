----------------------------- MODULE SpillProofs -----------------------------
(***************************************************************************)
(* The spill layout never shares a unit between two values that are needed *)
(* at one instruction, for every function, and never fails on a function   *)
(* in SSA form.                                                            *)
(***************************************************************************)
EXTENDS SpillLayout, FiniteSetTheorems, TLAPS

InBlock == pc \in {"result", "use"}

(* A slot in use is the one that was handed out.                           *)
ActiveIsOffset == \A v \in Value : active[v] # None => offsets[v] = active[v]

(* Every slot handed out lies in the area reserved so far.                 *)
SlotsInFrame ==
  \A v \in Value : offsets[v] # None =>
    \/ offsets[v] + fn.units[v] <= maximum
    \/ pc \in {"result", "use", "failed"} /\ offsets[v] + fn.units[v] <= peak

(* Instruction i of block b has its result placed.                         *)
Passed(b, i) == b < bi \/ (b = bi /\ InBlock /\ (i < ii \/ (i = ii /\ pc = "use")))

Placed ==
  pc # "failed" =>
    \A b \in DOMAIN fn.blocks : \A i \in DOMAIN Ins(b) :
      Passed(b, i) /\ Ins(b)[i].res # NoValue => offsets[Ins(b)[i].res] # None

(* Use j of instruction i is still to come.                                *)
Pending(i, j) ==
  /\ InBlock /\ i \in DOMAIN Ins(bi) /\ j \in DOMAIN Ins(bi)[i].uses
  /\ i > ii \/ (i = ii /\ (pc = "result" \/ j >= ui))

(* A value that has lost its slot is still to be used: the layout is bound *)
(* to fail there.                                                          *)
Doomed ==
  \E i \in DOMAIN Ins(bi) : \E j \in DOMAIN Ins(bi)[i].uses :
    /\ Pending(i, j)
    /\ offsets[Ins(bi)[i].uses[j]] # None /\ active[Ins(bi)[i].uses[j]] = None

Apart(b, i) ==
  \A v, w \in Value :
    v # w /\ LiveAt(b, i, v) /\ LiveAt(b, i, w) =>
      Units(v, offsets[v]) \cap Units(w, offsets[w]) = {}

LiveApart ==
  pc # "failed" =>
    \A b \in DOMAIN fn.blocks : \A i \in DOMAIN Ins(b) :
      Passed(b, i) => Apart(b, i) \/ (b = bi /\ Doomed)

(* The inductive invariant.                                                *)
SpillInv ==
  /\ TypeOK /\ SlotsAreDisjoint /\ ActiveIsOffset /\ SlotsInFrame /\ Placed /\ LiveApart

-----------------------------------------------------------------------------

(* The instructions of a block are a sequence.                             *)
LEMMA InsIs ==
  ASSUME IsFunction(fn), NEW b \in DOMAIN fn.blocks
  PROVE  /\ Ins(b) \in Seq(Instruction) /\ Len(Ins(b)) \in Nat /\ DOMAIN Ins(b) = 1 .. Len(Ins(b))
         /\ \A i \in DOMAIN Ins(b) :
              Ins(b)[i].res \in Value \cup {NoValue} /\ Ins(b)[i].uses \in Seq(Value)
<1>1. fn.blocks[b] \in Block
  BY DEF IsFunction
<1>2. fn.blocks[b].ins \in Seq(Instruction)
  BY <1>1 DEF Block
<1>3. Ins(b) \in Seq(Instruction)
  BY <1>2, Zenon DEF Ins
<1>4. \A i \in DOMAIN Ins(b) : Ins(b)[i] \in Instruction
  BY <1>3
<1>5. \A x \in Instruction : x.res \in Value \cup {NoValue} /\ x.uses \in Seq(Value)
  BY DEF Instruction
<1> QED
  BY <1>3, <1>4, <1>5

(* The sizes of values are natural numbers.                                *)
LEMMA UnitsAre == TypeOK => \A v \in Value : fn.units[v] \in Nat
<1> SUFFICES ASSUME TypeOK, NEW v \in Value PROVE fn.units[v] \in Nat
  OBVIOUS
<1>1. fn.units \in [Value -> 0 .. 2]
  BY DEF TypeOK, IsFunction
<1>2. fn.units[v] \in 0 .. 2
  BY <1>1, Zenon
<1> QED
  BY <1>2

(* Everything that is counted in a block is finite.                        *)
LEMMA FinitePairs ==
  ASSUME TypeOK, NEW b \in DOMAIN fn.blocks
  PROVE  /\ IsFiniteSet(Results(b) \X {1, 2})
         /\ IsFiniteSet((DOMAIN Ins(b)) \X (1 .. MaxOperands))
<1>1. Len(Ins(b)) \in Nat /\ DOMAIN Ins(b) = 1 .. Len(Ins(b))
  BY InsIs DEF TypeOK
<1>2. \A n \in Nat : IsFiniteSet(1 .. n)
  BY FS_Interval
<1>3. IsFiniteSet(DOMAIN Ins(b)) /\ IsFiniteSet(1 .. MaxOperands) /\ IsFiniteSet(1 .. 2)
  BY <1>1, <1>2, SpillConstants, Zenon
<1>4. {1, 2} = 1 .. 2 /\ Results(b) \subseteq DOMAIN Ins(b)
  BY DEF Results
<1>5. IsFiniteSet(Results(b))
  BY <1>3, <1>4, FS_Subset, Zenon
<1>6. IsFiniteSet({1, 2})
  BY <1>3, <1>4, Zenon
<1> QED
  BY <1>3, <1>5, <1>6, FS_Product, Zenon

(* So are the counts.                                                      *)
LEMMA Counts ==
  ASSUME TypeOK, NEW b \in DOMAIN fn.blocks
  PROVE  TotalUnits(b) \in Nat /\ \A v : UseCount(b, v) \in Nat
<1>1. TotalUnits(b) \in Nat
  <2> DEFINE T == {p \in Results(b) \X {1, 2} : p[2] <= fn.units[Ins(b)[p[1]].res]}
  <2>1. T \subseteq Results(b) \X {1, 2}
    OBVIOUS
  <2>2. IsFiniteSet(T)
    BY <2>1, FinitePairs, FS_Subset, Zenon
  <2>3. Cardinality(T) \in Nat
    BY <2>2, FS_CardinalityType
  <2> QED
    BY <2>3 DEF TotalUnits
<1>2. ASSUME NEW v PROVE UseCount(b, v) \in Nat
  <2> DEFINE T == {p \in (DOMAIN Ins(b)) \X (1 .. MaxOperands) :
                     p[2] <= Len(Ins(b)[p[1]].uses) /\ Ins(b)[p[1]].uses[p[2]] = v}
  <2>1. T \subseteq (DOMAIN Ins(b)) \X (1 .. MaxOperands)
    OBVIOUS
  <2>2. IsFiniteSet(T)
    BY <2>1, FinitePairs, FS_Subset, Zenon
  <2>3. Cardinality(T) \in Nat
    BY <2>2, FS_CardinalityType
  <2> QED
    BY <2>3 DEF UseCount
<1> QED
  BY <1>1, <1>2

(* The current instruction is one.                                         *)
LEMMA CurrentIs ==
  ASSUME TypeOK, InBlock, ii <= Len(Ins(bi))
  PROVE  /\ bi \in DOMAIN fn.blocks /\ ii \in DOMAIN Ins(bi)
         /\ Current \in Instruction
         /\ Current.res \in Value \cup {NoValue} /\ Current.uses \in Seq(Value)
<1>1. bi \in DOMAIN fn.blocks
  BY DEF TypeOK, IsFunction, InBlock
<1>2. Ins(bi) \in Seq(Instruction)
  BY <1>1, InsIs DEF TypeOK
<1>3. ii \in DOMAIN Ins(bi)
  BY <1>2 DEF TypeOK
<1>4. Current \in Instruction
  BY <1>2, <1>3 DEF Current
<1> QED
  BY <1>1, <1>3, <1>4 DEF Instruction

LEMMA SpillStarts == Init => SpillInv
<1> SUFFICES ASSUME Init PROVE SpillInv
  OBVIOUS
<1>1. IsFunction(fn)
  BY SpillConstants DEF Init
<1>2. TypeOK
  BY <1>1 DEF Init, TypeOK, IsFunction, None
<1>3. SlotsAreDisjoint
  BY DEF Init, SlotsAreDisjoint
<1>4. ActiveIsOffset /\ SlotsInFrame
  BY DEF Init, ActiveIsOffset, SlotsInFrame
<1>5. \A b \in DOMAIN fn.blocks : \A i : ~Passed(b, i)
  BY <1>1 DEF Init, Passed, InBlock, IsFunction
<1> QED
  BY <1>2, <1>3, <1>4, <1>5 DEF SpillInv, Placed, LiveApart, Init
-----------------------------------------------------------------------------

(* The instructions read only the function, which no step changes.         *)
LEMMA SameFunction ==
  ASSUME fn' = fn
  PROVE  /\ \A b : Ins(b)' = Ins(b) /\ Results(b)' = Results(b) /\ (Supported(b)' <=> Supported(b))
         /\ \A b, i, v : LiveAt(b, i, v)' <=> LiveAt(b, i, v)
         /\ \A v, s : Units(v, s)' = Units(v, s)
<1>1. \A b : Ins(b)' = Ins(b)
  BY Zenon DEF Ins
<1>2. \A b : Results(b)' = Results(b) /\ (Supported(b)' <=> Supported(b))
  BY <1>1, Zenon DEF Results, Supported
<1>3. \A b, i, v : (Defines(b, i, v)' <=> Defines(b, i, v)) /\ (UsedAt(b, i, v)' <=> UsedAt(b, i, v))
  BY <1>1, Zenon DEF Defines, UsedAt
<1>4. \A b, i, v : LiveAt(b, i, v)' <=> LiveAt(b, i, v)
  BY <1>1, <1>3, Zenon DEF LiveAt
<1>5. \A v, s : Units(v, s)' = Units(v, s)
  BY DEF Units
<1> QED
  BY <1>1, <1>2, <1>4, <1>5

(* The slots in use read only active, occupied and the offsets.            *)
LEMMA SameSlots ==
  ASSUME UNCHANGED <<fn, active, occupied, offsets>>
  PROVE  (SlotsAreDisjoint => SlotsAreDisjoint') /\ (ActiveIsOffset => ActiveIsOffset')
<1>1. ActiveIsOffset => ActiveIsOffset'
  BY DEF ActiveIsOffset
<1>2. \A v : Units(v, active[v])' = Units(v, active[v])
  BY DEF Units
<1>3. SlotsAreDisjoint => SlotsAreDisjoint'
  BY <1>2 DEF SlotsAreDisjoint
<1> QED
  BY <1>1, <1>3

(* A value live at an instruction that is passed has an offset.            *)
LEMMA LiveIsPlaced ==
  ASSUME TypeOK, Placed, pc # "failed", NEW b \in DOMAIN fn.blocks, NEW i \in DOMAIN Ins(b),
         Passed(b, i), NEW v \in Value, LiveAt(b, i, v)
  PROVE  offsets[v] # None
<1>1. PICK d \in 1 .. i : Defines(b, d, v)
  BY Zenon DEF LiveAt
<1>2. d \in DOMAIN Ins(b) /\ Ins(b)[d].res = v
  BY <1>1 DEF Defines
<1>3. Passed(b, d)
  <2>1. i \in Nat /\ ii \in Nat
    BY InsIs DEF TypeOK
  <2> QED
    BY <2>1 DEF Passed
<1>4. v # NoValue
  BY SpillConstants
<1> QED
  BY <1>2, <1>3, <1>4 DEF Placed

(* What is apart stays apart when offsets of placed values do not change.  *)
LEMMA StaysApart ==
  ASSUME TypeOK, Placed, pc # "failed", NEW b \in DOMAIN fn.blocks, NEW i \in DOMAIN Ins(b),
         Passed(b, i), Apart(b, i), fn' = fn,
         \A v \in Value : offsets[v] # None => offsets'[v] = offsets[v]
  PROVE  Apart(b, i)'
<1>0. /\ \A v \in Value : LiveAt(b, i, v)' <=> LiveAt(b, i, v)
      /\ \A v \in Value : Units(v, offsets[v])' = Units(v, offsets'[v])
  BY SameFunction DEF Units
<1> SUFFICES ASSUME NEW v \in Value, NEW w \in Value, v # w, LiveAt(b, i, v), LiveAt(b, i, w)
             PROVE  Units(v, offsets'[v]) \cap Units(w, offsets'[w]) = {}
  BY <1>0, ZenonT(30), ZenonT(60) DEF Apart
<1>1. offsets'[v] = offsets[v] /\ offsets'[w] = offsets[w]
  BY LiveIsPlaced, Zenon
<1> QED
  BY <1>1 DEF Apart

(* Steps that pass no instruction keep everything apart.                   *)
LEMMA KeepsApart ==
  ASSUME SpillInv, pc # "failed", fn' = fn,
         \A v \in Value : offsets[v] # None => offsets'[v] = offsets[v],
         \A b \in DOMAIN fn.blocks : \A i \in DOMAIN Ins(b) : Passed(b, i)' => Passed(b, i),
         Doomed => bi' = bi /\ Doomed'
  PROVE  LiveApart' /\ Placed'
<1>1. TypeOK /\ Placed /\ LiveApart
  BY DEF SpillInv
<1>2. ASSUME NEW b \in DOMAIN fn.blocks, NEW i \in DOMAIN Ins(b), Passed(b, i)'
      PROVE  Apart(b, i)' \/ (b = bi' /\ Doomed')
  <2>1. Passed(b, i)
    BY <1>2
  <2>2. CASE Apart(b, i)
    BY <1>1, <2>1, <2>2, StaysApart
  <2>3. CASE b = bi /\ Doomed
    BY <2>3
  <2> QED
    BY <1>1, <2>1, <2>2, <2>3 DEF LiveApart
<1>3. LiveApart'
  BY <1>2, SameFunction, Zenon DEF LiveApart
<1>4. ASSUME NEW b \in DOMAIN fn.blocks, NEW i \in DOMAIN Ins(b), Passed(b, i)',
             Ins(b)[i].res # NoValue
      PROVE  offsets'[Ins(b)[i].res] # None
  <2>1. Ins(b)[i].res \in Value
    BY <1>1, <1>4, InsIs DEF TypeOK
  <2>2. offsets[Ins(b)[i].res] # None
    BY <1>1, <1>4 DEF Placed
  <2> QED
    BY <2>1, <2>2
<1>5. Placed'
  BY <1>4, SameFunction DEF Placed
<1> QED
  BY <1>3, <1>5

(* When an instruction has its result, the values live there are apart.    *)
LEMMA CurrentApart ==
  ASSUME TypeOK', SlotsAreDisjoint', ActiveIsOffset', Placed',
         UNCHANGED <<fn, bi, ii>>, pc' = "use", ui' = 1, ~Doomed',
         (Current.res # NoValue => active[Current.res] # None)'
  PROVE  Apart(bi, ii)'
<1>1. /\ bi \in DOMAIN fn.blocks /\ ii \in DOMAIN Ins(bi)
      /\ Ins(bi)' = Ins(bi) /\ DOMAIN Ins(bi) = 1 .. Len(Ins(bi)) /\ IsFunction(fn)
  <2>1. IsFunction(fn) /\ bi \in DOMAIN fn.blocks
    BY DEF TypeOK, IsFunction
  <2>2. Ins(bi)' = Ins(bi)
    BY Zenon DEF Ins
  <2> QED
    BY <2>1, <2>2, InsIs DEF TypeOK
<1>2. ASSUME NEW v \in Value, LiveAt(bi, ii, v)
      PROVE  active'[v] # None
  <2>1. PICK d \in 1 .. ii :
          /\ Defines(bi, d, v)
          /\ d = ii \/ \E u \in ii .. Len(Ins(bi)) : UsedAt(bi, u, v)
    BY <1>2, Zenon DEF LiveAt
  <2>2. CASE d = ii
    <3>1. Current' = Ins(bi)[ii] /\ Ins(bi)[ii].res = v
      BY <1>1, <2>1, <2>2 DEF Current, Defines
    <3> QED
      BY <3>1, SpillConstants
  <2>3. CASE d # ii
    <3>1. PICK u \in ii .. Len(Ins(bi)) : UsedAt(bi, u, v)
      BY <2>1, <2>3
    <3>2. PICK j \in DOMAIN Ins(bi)[u].uses : Ins(bi)[u].uses[j] = v
      BY <3>1, Zenon DEF UsedAt
    <3>3. Passed(bi, d)'
      BY <1>1, <2>1, <2>3 DEF Passed, InBlock
    <3>4. d \in DOMAIN Ins(bi) /\ Ins(bi)[d].res = v
      BY <2>1 DEF Defines
    <3>5. offsets'[v] # None
      BY <1>1, <3>3, <3>4, SpillConstants DEF Placed
    <3>6. u \in DOMAIN Ins(bi) /\ Ins(bi)[u].uses \in Seq(Value)
      <4>1. u \in DOMAIN Ins(bi)
        BY <3>1 DEF UsedAt
      <4> QED
        BY <1>1, <4>1, InsIs
    <3>7. Pending(u, j)'
      BY <1>1, <3>1, <3>2, <3>6 DEF Pending, InBlock
    <3> QED
      BY <1>1, <3>2, <3>5, <3>6, <3>7 DEF Doomed
  <2> QED
    BY <2>2, <2>3
<1> SUFFICES ASSUME NEW v \in Value, NEW w \in Value, v # w,
                    LiveAt(bi, ii, v), LiveAt(bi, ii, w)
             PROVE  Units(v, offsets'[v]) \cap Units(w, offsets'[w]) = {}
  BY SameFunction, ZenonT(30), ZenonT(60) DEF Apart
<1>3. active'[v] # None /\ active'[w] # None
  BY <1>2
<1>4. offsets'[v] = active'[v] /\ offsets'[w] = active'[w]
  BY <1>3 DEF ActiveIsOffset
<1> QED
  BY <1>3, <1>4, SameFunction DEF SlotsAreDisjoint

(* A step that passes the current instruction, without disturbing the      *)
(* slots already handed out, keeps everything apart.                       *)
LEMMA PassesApart ==
  ASSUME SpillInv, pc = "result", pc' = "use", ui' = 1, UNCHANGED <<fn, bi, ii>>,
         ii <= Len(Ins(bi)),
         TypeOK', SlotsAreDisjoint', ActiveIsOffset',
         \A v \in Value : offsets[v] # None => offsets'[v] = offsets[v] /\ active'[v] = active[v],
         Current.res # NoValue => active'[Current.res] # None
  PROVE  LiveApart' /\ Placed'
<1>1. TypeOK /\ Placed /\ LiveApart
  BY DEF SpillInv
<1>2. /\ bi \in DOMAIN fn.blocks /\ ii \in DOMAIN Ins(bi) /\ Ins(bi)' = Ins(bi)
      /\ Current.res \in Value \cup {NoValue} /\ Current' = Current
  BY <1>1, CurrentIs, SameFunction DEF InBlock, Current
<1>3. ASSUME NEW b \in DOMAIN fn.blocks, NEW i \in DOMAIN Ins(b), Passed(b, i)'
      PROVE  Passed(b, i) \/ (b = bi /\ i = ii)
  BY <1>3 DEF Passed, InBlock
<1>4. ASSUME NEW b \in DOMAIN fn.blocks, NEW i \in DOMAIN Ins(b), Passed(b, i)',
             Ins(b)[i].res # NoValue
      PROVE  offsets'[Ins(b)[i].res] # None
  <2>1. Ins(b)[i].res \in Value
    BY <1>1, <1>4, InsIs, SMTT(30), SMTT(60) DEF TypeOK
  <2>2. CASE Passed(b, i)
    BY <1>1, <1>4, <2>1, <2>2 DEF Placed
  <2>3. CASE b = bi /\ i = ii
    BY <1>4, <2>1, <2>3 DEF Current, ActiveIsOffset
  <2> QED
    BY <1>3, <1>4, <2>2, <2>3
<1>5. Placed'
  BY <1>4, SameFunction DEF Placed
<1>6. Doomed => Doomed'
  <2> SUFFICES ASSUME NEW i \in DOMAIN Ins(bi), NEW j \in DOMAIN Ins(bi)[i].uses, Pending(i, j),
                      offsets[Ins(bi)[i].uses[j]] # None, active[Ins(bi)[i].uses[j]] = None
               PROVE  Doomed'
    BY Zenon DEF Doomed
  <2>0. Ins(bi)[i].uses \in Seq(Value)
    BY <1>1, <1>2, InsIs, SMTT(30), SMTT(60) DEF TypeOK
  <2>1. Ins(bi)[i].uses[j] \in Value /\ j \in Nat /\ j >= 1
    BY <2>0
  <2>2. Pending(i, j)'
    BY <1>2, <2>1 DEF Pending, InBlock
  <2> QED
    BY <1>2, <2>1, <2>2 DEF Doomed
<1>7. ASSUME NEW b \in DOMAIN fn.blocks, NEW i \in DOMAIN Ins(b), Passed(b, i)'
      PROVE  Apart(b, i)' \/ (b = bi' /\ Doomed')
  <2>1. CASE Passed(b, i)
    <3>1. CASE Apart(b, i)
      BY <1>1, <2>1, <3>1, StaysApart
    <3>2. CASE b = bi /\ Doomed
      BY <1>6, <3>2
    <3> QED
      BY <1>1, <2>1, <3>1, <3>2 DEF LiveApart
  <2>2. CASE b = bi /\ i = ii
    <3> SUFFICES ASSUME ~Doomed' PROVE Apart(b, i)'
      BY <2>2
    <3>1. (Current.res # NoValue => active[Current.res] # None)'
      BY <1>2
    <3>2. Apart(bi, ii)'
      BY <1>5, <3>1, CurrentApart
    <3> QED
      BY <2>2, <3>2
  <2> QED
    BY <1>3, <1>7, <2>1, <2>2
<1>8. LiveApart'
  BY <1>7, SameFunction, Zenon DEF LiveApart
<1> QED
  BY <1>5, <1>8

LEMMA NoResultStep == SpillInv /\ NoResult => SpillInv'
<1> SUFFICES ASSUME SpillInv, NoResult PROVE SpillInv'
  OBVIOUS
<1>1. TypeOK /\ SlotsAreDisjoint /\ ActiveIsOffset /\ SlotsInFrame
  BY DEF SpillInv
<1>2. /\ pc = "result" /\ ii <= Len(Ins(bi)) /\ Current.res = NoValue /\ pc' = "use" /\ ui' = 1
      /\ UNCHANGED <<fn, bi, ii, remaining, active, occupied, total, peak, maximum, offsets>>
  BY DEF NoResult, scratch
<1>3. TypeOK'
  BY <1>1, <1>2, SameFunction DEF TypeOK
<1>4. SlotsAreDisjoint' /\ ActiveIsOffset'
  BY <1>1, <1>2, SameSlots
<1>5. SlotsInFrame'
  BY <1>1, <1>2 DEF SlotsInFrame
<1>6. LiveApart' /\ Placed'
  BY <1>2, <1>3, <1>4, PassesApart
<1> QED
  BY <1>3, <1>4, <1>5, <1>6 DEF SpillInv

LEMMA PlaceStep == SpillInv /\ Place => SpillInv'
<1> SUFFICES ASSUME SpillInv, Place PROVE SpillInv'
  OBVIOUS
<1> DEFINE v == Current.res
<1>1. TypeOK /\ SlotsAreDisjoint /\ ActiveIsOffset /\ SlotsInFrame
  BY DEF SpillInv
<1>2. /\ pc = "result" /\ ii <= Len(Ins(bi)) /\ v # NoValue /\ pc' = "use" /\ ui' = 1
      /\ active[v] = None /\ offsets[v] = None
      /\ UNCHANGED <<fn, bi, ii, remaining, total, maximum>>
  BY DEF Place
<1>3. PICK start \in 0 .. total :
        /\ FreeRun(v, start)
        /\ occupied' = occupied \cup Units(v, start)
        /\ active' = [active EXCEPT ![v] = start]
        /\ offsets' = [offsets EXCEPT ![v] = start]
        /\ peak' = IF start + fn.units[v] > peak THEN start + fn.units[v] ELSE peak
  BY Zenon DEF Place, FirstFit
<1> HIDE DEF v
<1>4. v \in Value /\ start \in Nat /\ fn.units[v] \in Nat /\ start # None
  <2>1. v \in Value
    BY <1>1, <1>2, CurrentIs DEF v, InBlock
  <2>2. fn.units[v] \in Nat
    BY <1>1, <2>1, UnitsAre
  <2>3. start \in Nat /\ start # None
    BY <1>1 DEF TypeOK, None
  <2> QED
    BY <2>1, <2>2, <2>3
<1>5. Units(v, start) \subseteq 0 .. total - 1 /\ Units(v, start) \cap occupied = {}
  BY <1>3 DEF FreeRun
<1>6. /\ active' \in [Value -> Nat \cup {None}] /\ offsets' \in [Value -> Nat \cup {None}]
      /\ active'[v] = start /\ offsets'[v] = start
      /\ \A x \in Value : x # v => active'[x] = active[x] /\ offsets'[x] = offsets[x]
  BY <1>1, <1>3, <1>4 DEF TypeOK
<1>7. peak' \in Nat /\ peak' >= peak /\ start + fn.units[v] <= peak'
  BY <1>1, <1>3, <1>4, SMTT(30), SMTT(60) DEF TypeOK
<1>8. TypeOK'
  <2>1. occupied' \subseteq 0 .. total' - 1
    BY <1>1, <1>2, <1>3, <1>5, Zenon DEF TypeOK
  <2> QED
    BY <1>1, <1>2, <1>6, <1>7, <2>1, SameFunction, SMTT(30), SMTT(60) DEF TypeOK
<1>9. SlotsAreDisjoint'
  <2>1. ASSUME NEW x \in Value, x # v, active[x] # None
        PROVE  Units(x, active[x]) \subseteq occupied
    BY <1>1, <2>1 DEF SlotsAreDisjoint
  <2>2. occupied' = UNION {Units(x, active'[x]) : x \in {y \in Value : active'[y] # None}}
    BY <1>1, <1>2, <1>3, <1>4, <1>6 DEF SlotsAreDisjoint
  <2>3. ASSUME NEW x \in Value, NEW y \in Value, x # y, active'[x] # None, active'[y] # None
        PROVE  Units(x, active'[x]) \cap Units(y, active'[y]) = {}
    <3>1. CASE x = v
      BY <1>5, <1>6, <2>1, <2>3, <3>1
    <3>2. CASE y = v
      BY <1>5, <1>6, <2>1, <2>3, <3>2
    <3>3. CASE x # v /\ y # v
      BY <1>1, <1>6, <2>3, <3>3 DEF SlotsAreDisjoint
    <3> QED
      BY <3>1, <3>2, <3>3
  <2> QED
    BY <1>2, <2>2, <2>3, SameFunction, SMTT(30), SMTT(60) DEF SlotsAreDisjoint
<1>10. ActiveIsOffset'
  BY <1>1, <1>6 DEF ActiveIsOffset
<1>11. SlotsInFrame'
  <2> SUFFICES ASSUME NEW x \in Value, offsets'[x] # None
               PROVE  offsets'[x] + fn.units[x] <= maximum \/ offsets'[x] + fn.units[x] <= peak'
    BY <1>2 DEF SlotsInFrame
  <2>1. CASE x = v
    BY <1>6, <1>7, <2>1
  <2>2. CASE x # v
    <3>0. offsets'[x] = offsets[x] /\ offsets \in [Value -> Nat \cup {None}]
      BY <1>1, <1>6, <2>2 DEF TypeOK
    <3>1. offsets'[x] = offsets[x] /\ offsets[x] \in Nat /\ fn.units[x] \in Nat
      BY <1>1, <3>0 DEF TypeOK, IsFunction
    <3>2. offsets[x] + fn.units[x] <= maximum \/ offsets[x] + fn.units[x] <= peak
      BY <1>1, <3>1 DEF SlotsInFrame
    <3> QED
      BY <1>1, <1>7, <3>1, <3>2 DEF TypeOK
  <2> QED
    BY <2>1, <2>2
<1>12. LiveApart' /\ Placed'
  <2>1. \A x \in Value : offsets[x] # None => offsets'[x] = offsets[x] /\ active'[x] = active[x]
    BY <1>2, <1>6
  <2>2. Current.res # NoValue => active'[Current.res] # None
    BY <1>4, <1>6 DEF v
  <2> QED
    BY <1>2, <1>8, <1>9, <1>10, <2>1, <2>2, PassesApart
<1> QED
  BY <1>8, <1>9, <1>10, <1>11, <1>12, SMTT(30), SMTT(60) DEF SpillInv

(* Giving a slot back leaves the others as they were.                      *)
LEMMA ReleaseStep ==
  ASSUME TypeOK, SlotsAreDisjoint, ActiveIsOffset, NEW v \in Value, active[v] # None,
         occupied' = Released(v), active' = [active EXCEPT ![v] = None],
         UNCHANGED <<fn, offsets>>
  PROVE  /\ SlotsAreDisjoint' /\ ActiveIsOffset'
         /\ active' \in [Value -> Nat \cup {None}] /\ occupied' \subseteq occupied
         /\ \A x \in Value : active[x] = None => active'[x] = None
<1>1. /\ active' \in [Value -> Nat \cup {None}] /\ active'[v] = None
      /\ \A x \in Value : x # v => active'[x] = active[x]
  BY DEF TypeOK
<1>2. ActiveIsOffset'
  BY <1>1 DEF ActiveIsOffset
<1>3. occupied' = occupied \ Units(v, active[v])
  BY DEF Released
<1>4. occupied' = UNION {Units(x, active'[x]) : x \in {y \in Value : active'[y] # None}}
  BY <1>1, <1>3 DEF SlotsAreDisjoint
<1>5. SlotsAreDisjoint'
  BY <1>1, <1>4, SameFunction DEF SlotsAreDisjoint
<1> QED
  BY <1>1, <1>2, <1>3, <1>5

LEMMA ConsumeStep == SpillInv /\ Consume => SpillInv'
<1> SUFFICES ASSUME SpillInv, Consume PROVE SpillInv'
  OBVIOUS
<1>1. TypeOK /\ SlotsAreDisjoint /\ ActiveIsOffset /\ SlotsInFrame
  BY DEF SpillInv
<1>2. /\ pc = "use" /\ ui <= Len(Current.uses) /\ pc' = "use" /\ ui' = ui + 1
      /\ active[Operand] # None /\ remaining' = [remaining EXCEPT ![Operand] = @ - 1]
      /\ remaining[Operand] # 0
      /\ UNCHANGED <<fn, bi, ii, total, peak, maximum, offsets>>
  BY DEF Consume, CanConsume
<1>3. /\ bi \in DOMAIN fn.blocks /\ ii \in DOMAIN Ins(bi) /\ Current.uses \in Seq(Value)
      /\ ui \in DOMAIN Current.uses /\ Operand \in Value
  <2>1. bi \in DOMAIN fn.blocks /\ ii \in DOMAIN Ins(bi) /\ Current.uses \in Seq(Value)
    BY <1>1, <1>2, CurrentIs DEF TypeOK, InBlock
  <2> QED
    BY <1>1, <1>2, <2>1 DEF TypeOK, Operand
<1>4. /\ SlotsAreDisjoint' /\ ActiveIsOffset'
      /\ active' \in [Value -> Nat \cup {None}] /\ occupied' \subseteq occupied
      /\ \A x \in Value : active[x] = None => active'[x] = None
  <2>1. CASE remaining[Operand] = 1
    <3>1. occupied' = Released(Operand) /\ active' = [active EXCEPT ![Operand] = None]
      BY <2>1 DEF Consume
    <3> QED
      BY <1>1, <1>2, <1>3, <3>1, ReleaseStep, Zenon
  <2>2. CASE remaining[Operand] # 1
    <3>1. UNCHANGED <<occupied, active>>
      BY <2>2 DEF Consume
    <3> QED
      BY <1>1, <1>2, <3>1, SameSlots DEF TypeOK
  <2> QED
    BY <2>1, <2>2
<1>5. TypeOK'
  <2>1. remaining' \in [Value -> Nat]
    <3>1. remaining \in [Value -> Nat]
      BY <1>1 DEF TypeOK
    <3>2. remaining[Operand] - 1 \in Nat
      BY <1>2, <1>3, <3>1
    <3> QED
      BY <1>2, <3>1, <3>2, Zenon
  <2>2. occupied' \subseteq 0 .. total' - 1
    BY <1>1, <1>2, <1>4 DEF TypeOK
  <2> QED
    BY <1>1, <1>2, <1>4, <2>1, <2>2, SameFunction, SMTT(30), SMTT(60) DEF TypeOK
<1>6. SlotsInFrame'
  BY <1>1, <1>2 DEF SlotsInFrame
<1>7. LiveApart' /\ Placed'
  <2>1. Doomed => Doomed'
    <3> SUFFICES ASSUME NEW i \in DOMAIN Ins(bi), NEW j \in DOMAIN Ins(bi)[i].uses, Pending(i, j),
                        offsets[Ins(bi)[i].uses[j]] # None, active[Ins(bi)[i].uses[j]] = None
                 PROVE  Doomed'
      BY Zenon DEF Doomed
    <3>1. Ins(bi)[i].uses \in Seq(Value)
      BY <1>1, <1>3, InsIs DEF TypeOK
    <3>2. Ins(bi)[i].uses[j] \in Value /\ j \in Nat
      BY <3>1, SMTT(30), SMTT(60)
    <3>3. ~(i = ii /\ j = ui)
      BY <1>2, SMTT(30), SMTT(60) DEF Operand, Current
    <3>4. Ins(bi)' = Ins(bi)
      BY <1>2, Zenon DEF Ins
    <3>5. Pending(i, j)'
      BY <1>1, <1>2, <3>2, <3>3, <3>4 DEF Pending, InBlock, TypeOK
    <3> QED
      BY <1>2, <1>4, <3>2, <3>4, <3>5 DEF Doomed
  <2>2. \A b, i : Passed(b, i)' => Passed(b, i)
    BY <1>2 DEF Passed, InBlock
  <2> QED
    BY <1>2, <2>1, <2>2, KeepsApart, SMTT(30), SMTT(60)
<1> QED
  BY <1>4, <1>5, <1>6, <1>7 DEF SpillInv

(* The end of an instruction, whether or not its result is given back.     *)
LEMMA RetireStep == SpillInv /\ (RetireUnused \/ NextInstruction) => SpillInv'
<1> SUFFICES ASSUME SpillInv, RetireUnused \/ NextInstruction PROVE SpillInv'
  OBVIOUS
<1>1. TypeOK /\ SlotsAreDisjoint /\ ActiveIsOffset /\ SlotsInFrame
  BY DEF SpillInv
<1>2. /\ pc = "use" /\ ui > Len(Current.uses) /\ pc' = "result" /\ ii' = ii + 1
      /\ UNCHANGED <<fn, bi, ui, remaining, total, peak, maximum, offsets>>
  BY DEF RetireUnused, NextInstruction, scratch
<1>3. /\ bi \in DOMAIN fn.blocks /\ ii \in DOMAIN Ins(bi) /\ Current.uses \in Seq(Value)
      /\ Current.res \in Value \cup {NoValue}
      /\ Len(Ins(bi)) \in Nat /\ DOMAIN Ins(bi) = 1 .. Len(Ins(bi))
  BY <1>1, <1>2, CurrentIs, InsIs DEF TypeOK, InBlock
<1>4. /\ SlotsAreDisjoint' /\ ActiveIsOffset'
      /\ active' \in [Value -> Nat \cup {None}] /\ occupied' \subseteq occupied
      /\ \A x \in Value : active[x] = None => active'[x] = None
  <2>1. CASE RetireUnused
    <3>1. /\ occupied' = Released(Current.res) /\ active' = [active EXCEPT ![Current.res] = None]
          /\ active[Current.res] # None /\ Current.res \in Value
      BY <1>3, <2>1 DEF RetireUnused, Unused, CanRetire
    <3> QED
      BY <1>1, <1>2, <3>1, ReleaseStep, Zenon
  <2>2. CASE NextInstruction
    <3>1. UNCHANGED <<occupied, active>>
      BY <2>2, SMTT(30), SMTT(60) DEF NextInstruction, scratch
    <3> QED
      BY <1>1, <1>2, <3>1, SameSlots DEF TypeOK
  <2> QED
    BY <2>1, <2>2
<1>5. TypeOK'
  <2>1. Ins(bi)' = Ins(bi)
    BY <1>2 DEF Ins
  <2>2. occupied' \subseteq 0 .. total' - 1
    BY <1>1, <1>2, <1>4, SMTT(30), SMTT(60) DEF TypeOK
  <2> QED
    BY <1>1, <1>2, <1>3, <1>4, <2>1, <2>2 DEF TypeOK
<1>6. SlotsInFrame'
  BY <1>1, <1>2 DEF SlotsInFrame
<1>7. LiveApart' /\ Placed'
  <2>1. Doomed => Doomed'
    <3> SUFFICES ASSUME NEW i \in DOMAIN Ins(bi), NEW j \in DOMAIN Ins(bi)[i].uses, Pending(i, j),
                        offsets[Ins(bi)[i].uses[j]] # None, active[Ins(bi)[i].uses[j]] = None
                 PROVE  Doomed'
      BY Zenon DEF Doomed
    <3>1. Ins(bi)[i].uses \in Seq(Value)
      BY <1>1, <1>3, InsIs, SMTT(30), SMTT(60) DEF TypeOK
    <3>2. Ins(bi)[i].uses[j] \in Value /\ j \in 1 .. Len(Ins(bi)[i].uses)
      BY <3>1, SMTT(30), SMTT(60)
    <3>3. i # ii
      BY <1>1, <1>2, <1>3, <3>2, SMTT(30), SMTT(60) DEF Pending, Current, TypeOK
    <3>4. Ins(bi)' = Ins(bi)
      BY <1>2, Zenon DEF Ins
    <3>5. Pending(i, j)'
      BY <1>2, <1>3, <3>3, <3>4, SMTT(30), SMTT(60) DEF Pending, InBlock
    <3> QED
      BY <1>2, <1>4, <3>2, <3>4, <3>5 DEF Doomed
  <2>2. \A b \in DOMAIN fn.blocks : \A i \in DOMAIN Ins(b) : Passed(b, i)' => Passed(b, i)
    <3> SUFFICES ASSUME NEW b \in DOMAIN fn.blocks, NEW i \in DOMAIN Ins(b), Passed(b, i)'
                 PROVE  Passed(b, i)
      OBVIOUS
    <3>1. i \in Nat
      BY <1>1, InsIs DEF TypeOK
    <3> QED
      BY <1>2, <1>3, <3>1 DEF Passed, InBlock
  <2> QED
    BY <1>2, <2>1, <2>2, KeepsApart, SMTT(30), SMTT(60)
<1> QED
  BY <1>4, <1>5, <1>6, <1>7 DEF SpillInv

-----------------------------------------------------------------------------

LEMMA BlockBeginStep == SpillInv /\ BlockBegin => SpillInv'
<1> SUFFICES ASSUME SpillInv, BlockBegin PROVE SpillInv'
  OBVIOUS
<1>1. TypeOK /\ SlotsInFrame
  BY DEF SpillInv
<1>2. /\ pc = "block" /\ pc' = "result" /\ bi <= Len(fn.blocks) /\ ii' = 1 /\ ui' = 1
      /\ remaining' = [v \in Value |-> UseCount(bi, v)]
      /\ active' = [v \in Value |-> None] /\ occupied' = {}
      /\ total' = TotalUnits(bi) /\ peak' = 0
      /\ UNCHANGED <<fn, bi, maximum, offsets>>
  BY DEF BlockBegin, Goto
<1>3. bi \in DOMAIN fn.blocks /\ bi \in Nat
  BY <1>1, <1>2 DEF TypeOK, IsFunction
<1>4. TypeOK'
  <2>1. total' \in Nat /\ remaining' \in [Value -> Nat]
    BY <1>1, <1>2, <1>3, Counts
  <2>2. active' \in [Value -> Nat \cup {None}] /\ occupied' \subseteq 0 .. total' - 1
    BY <1>2
  <2>3. ii' <= Len(Ins(bi)') + 1
    <3>1. Ins(bi)' = Ins(bi) /\ Len(Ins(bi)) \in Nat
      BY <1>1, <1>2, <1>3, InsIs DEF TypeOK, Ins
    <3> QED
      BY <1>2, <3>1, SMTT(30), SMTT(60)
  <2> QED
    BY <1>1, <1>2, <2>1, <2>2, <2>3 DEF TypeOK
<1>5. SlotsAreDisjoint' /\ ActiveIsOffset'
  <2>1. \A v \in Value : active'[v] = None
    BY <1>2
  <2> QED
    BY <1>2, <2>1 DEF SlotsAreDisjoint, ActiveIsOffset
<1>6. SlotsInFrame'
  BY <1>1, <1>2 DEF SlotsInFrame
<1>7. ~Doomed
  BY <1>2 DEF Doomed, Pending, InBlock
<1>8. \A b \in DOMAIN fn.blocks : \A i \in DOMAIN Ins(b) : Passed(b, i)' => Passed(b, i)
  <2> SUFFICES ASSUME NEW b \in DOMAIN fn.blocks, NEW i \in DOMAIN Ins(b), Passed(b, i)'
               PROVE  Passed(b, i)
    OBVIOUS
  <2>1. i \in Nat \ {0}
    BY <1>1, InsIs DEF TypeOK
  <2> QED
    BY <1>2, <2>1 DEF Passed, InBlock
<1>9. LiveApart' /\ Placed'
  BY <1>2, <1>7, <1>8, KeepsApart
<1> QED
  BY <1>4, <1>5, <1>6, <1>9 DEF SpillInv

LEMMA EmptyBlockStep == SpillInv /\ EmptyBlock => SpillInv'
<1> SUFFICES ASSUME SpillInv, EmptyBlock PROVE SpillInv'
  OBVIOUS
<1>1. TypeOK /\ SlotsAreDisjoint /\ ActiveIsOffset /\ SlotsInFrame /\ Placed /\ LiveApart
  BY DEF SpillInv
<1>2. /\ pc = "block" /\ pc' = "block" /\ bi <= Len(fn.blocks) /\ bi' = bi + 1
      /\ Results(bi) = {}
      /\ UNCHANGED <<fn, ii, ui, remaining, active, occupied, total, peak, maximum, offsets>>
  BY DEF EmptyBlock, Goto, scratch
<1>3. bi \in DOMAIN fn.blocks /\ bi \in Nat /\ Len(fn.blocks) \in Nat
  BY <1>1, <1>2 DEF TypeOK, IsFunction
<1>4. TypeOK'
  BY <1>1, <1>2, <1>3 DEF TypeOK
<1>5. SlotsAreDisjoint' /\ ActiveIsOffset'
  BY <1>1, <1>2, SameSlots
<1>6. SlotsInFrame'
  BY <1>1, <1>2 DEF SlotsInFrame
<1>7. \A i \in DOMAIN Ins(bi) : Ins(bi)[i].res = NoValue
  BY <1>2 DEF Results
<1>8. ASSUME NEW b \in DOMAIN fn.blocks, NEW i \in DOMAIN Ins(b), Passed(b, i)'
      PROVE  Passed(b, i) \/ b = bi
  <2>1. b \in Nat
    BY <1>1 DEF TypeOK, IsFunction
  <2> QED
    BY <1>2, <1>3, <1>8, <2>1 DEF Passed, InBlock
<1>9. LiveApart'
  <2> SUFFICES ASSUME NEW b \in DOMAIN fn.blocks, NEW i \in DOMAIN Ins(b), Passed(b, i)'
               PROVE  Apart(b, i)'
    BY <1>2, SameFunction, Zenon DEF LiveApart
  <2>1. CASE Passed(b, i)
    <3>1. Apart(b, i)
      <4>1. ~Doomed
        BY <1>2 DEF Doomed, Pending, InBlock
      <4> QED
        BY <1>1, <1>2, <2>1, <4>1, SMTT(30), SMTT(60) DEF LiveApart
    <3> QED
      BY <1>1, <1>2, <2>1, <3>1, StaysApart
  <2>2. CASE b = bi
    <3>1. \A v \in Value : ~LiveAt(b, i, v)
      <4>1. \A v \in Value : \A d : ~Defines(b, d, v)
        BY <1>7, <2>2, SpillConstants, SMTT(30), SMTT(60) DEF Defines
      <4> QED
        BY <4>1 DEF LiveAt
    <3>2. \A v \in Value : ~LiveAt(b, i, v)'
      BY <1>2, <3>1, SameFunction, SMTT(30), SMTT(60)
    <3> QED
      BY <3>2 DEF Apart
  <2> QED
    BY <1>8, <2>1, <2>2
<1>10. Placed'
  <2> SUFFICES ASSUME NEW b \in DOMAIN fn.blocks, NEW i \in DOMAIN Ins(b), Passed(b, i)',
                      Ins(b)[i].res # NoValue
               PROVE  offsets'[Ins(b)[i].res] # None
    BY <1>2, SameFunction, Zenon DEF Placed
  <2>1. Passed(b, i)
    BY <1>7, <1>8
  <2> QED
    BY <1>1, <1>2, <2>1 DEF Placed
<1> QED
  BY <1>4, <1>5, <1>6, <1>9, <1>10 DEF SpillInv

LEMMA BlockEndStep == SpillInv /\ BlockEnd => SpillInv'
<1> SUFFICES ASSUME SpillInv, BlockEnd PROVE SpillInv'
  OBVIOUS
<1>1. TypeOK /\ SlotsAreDisjoint /\ ActiveIsOffset /\ SlotsInFrame
  BY DEF SpillInv
<1>2. /\ pc = "result" /\ pc' = "block" /\ ii > Len(Ins(bi)) /\ bi' = bi + 1
      /\ maximum' = IF peak > maximum THEN peak ELSE maximum
      /\ UNCHANGED <<fn, ii, ui, remaining, active, occupied, total, peak, offsets>>
  BY DEF BlockEnd, scratch
<1>3. /\ bi \in DOMAIN fn.blocks /\ bi \in Nat /\ Len(fn.blocks) \in Nat
      /\ Len(Ins(bi)) \in Nat /\ DOMAIN Ins(bi) = 1 .. Len(Ins(bi))
  <2>1. bi \in DOMAIN fn.blocks /\ bi \in Nat /\ Len(fn.blocks) \in Nat
    BY <1>1, <1>2, SMTT(30), SMTT(60) DEF TypeOK, IsFunction
  <2> QED
    BY <1>1, <2>1, InsIs DEF TypeOK
<1>4. TypeOK'
  BY <1>1, <1>2, <1>3, SMTT(30), SMTT(60) DEF TypeOK
<1>5. SlotsAreDisjoint' /\ ActiveIsOffset'
  BY <1>1, <1>2, SameSlots
<1>6. SlotsInFrame'
  <2> SUFFICES ASSUME NEW v \in Value, offsets'[v] # None
               PROVE  offsets'[v] + fn.units[v] <= maximum'
    BY <1>2, SMTT(30), SMTT(60) DEF SlotsInFrame
  <2>1. offsets[v] \in Nat /\ fn.units[v] \in Nat /\ peak \in Nat /\ maximum \in Nat
    BY <1>1, <1>2, UnitsAre, SMTT(30), SMTT(60) DEF TypeOK
  <2>2. offsets[v] + fn.units[v] <= maximum \/ offsets[v] + fn.units[v] <= peak
    BY <1>1, <1>2, SMTT(30), SMTT(60) DEF SlotsInFrame
  <2> QED
    BY <1>2, <2>1, <2>2
<1>7. ~Doomed
  BY <1>1, <1>2, <1>3 DEF Doomed, Pending, TypeOK
<1>8. \A b \in DOMAIN fn.blocks : \A i \in DOMAIN Ins(b) : Passed(b, i)' => Passed(b, i)
  <2> SUFFICES ASSUME NEW b \in DOMAIN fn.blocks, NEW i \in DOMAIN Ins(b), Passed(b, i)'
               PROVE  Passed(b, i)
    OBVIOUS
  <2>1. b \in Nat /\ ii \in Nat /\ b < bi + 1
    BY <1>1, <1>2, SMTT(30), SMTT(60) DEF TypeOK, IsFunction, Passed, InBlock
  <2>2. CASE b = bi
    BY <1>2, <1>3, <2>1, <2>2 DEF Passed, InBlock
  <2>3. CASE b # bi
    BY <1>3, <2>1, <2>3 DEF Passed
  <2> QED
    BY <2>2, <2>3, SMTT(30), SMTT(60)
<1>9. LiveApart' /\ Placed'
  BY <1>2, <1>7, <1>8, KeepsApart
<1> QED
  BY <1>4, <1>5, <1>6, <1>9 DEF SpillInv

LEMMA FunctionEndStep == SpillInv /\ FunctionEnd => SpillInv'
<1> SUFFICES ASSUME SpillInv, FunctionEnd PROVE SpillInv'
  OBVIOUS
<1>1. TypeOK /\ SlotsAreDisjoint /\ ActiveIsOffset /\ SlotsInFrame
  BY DEF SpillInv
<1>2. /\ pc = "block" /\ pc' = "done" /\ bi > Len(fn.blocks)
      /\ UNCHANGED <<fn, bi, ii, ui, remaining, active, occupied, total, peak, maximum, offsets>>
  BY DEF FunctionEnd, Goto, scratch
<1>3. TypeOK'
  <2>1. bi = Len(fn.blocks) + 1
    BY <1>1, <1>2 DEF TypeOK, IsFunction
  <2> QED
    BY <1>1, <1>2, <2>1, SMTT(30), SMTT(60) DEF TypeOK
<1>4. SlotsAreDisjoint' /\ ActiveIsOffset'
  BY <1>1, <1>2, SameSlots, SMTT(30), SMTT(60)
<1>5. SlotsInFrame'
  BY <1>1, <1>2 DEF SlotsInFrame
<1>6. ~Doomed
  BY <1>2 DEF Doomed, Pending, InBlock
<1>7. \A b, i : Passed(b, i)' => Passed(b, i)
  BY <1>2 DEF Passed, InBlock
<1>8. LiveApart' /\ Placed'
  BY <1>2, <1>6, <1>7, KeepsApart
<1> QED
  BY <1>3, <1>4, <1>5, <1>8 DEF SpillInv

LEMMA FailStep ==
  SpillInv /\ (UnsupportedBlock \/ OpenBlock \/ PlaceFails \/ ConsumeFails \/ RetireFails) => SpillInv'
<1> SUFFICES ASSUME SpillInv,
                    UnsupportedBlock \/ OpenBlock \/ PlaceFails \/ ConsumeFails \/ RetireFails
             PROVE  SpillInv'
  OBVIOUS
<1>1. TypeOK /\ SlotsAreDisjoint /\ ActiveIsOffset /\ SlotsInFrame
  BY SMTT(30), SMTT(60) DEF SpillInv
<1>2. /\ pc \in {"block", "result", "use"} /\ pc' = "failed"
      /\ UNCHANGED <<fn, bi, ii, ui, remaining, active, occupied, total, peak, maximum, offsets>>
  BY DEF UnsupportedBlock, OpenBlock, PlaceFails, ConsumeFails, RetireFails, Fail, Goto, scratch
<1>3. TypeOK'
  BY <1>1, <1>2 DEF TypeOK
<1>4. SlotsAreDisjoint' /\ ActiveIsOffset'
  BY <1>1, <1>2, SameSlots, SMTT(30), SMTT(60)
<1>5. SlotsInFrame'
  BY <1>1, <1>2 DEF SlotsInFrame
<1>6. LiveApart' /\ Placed'
  BY <1>2 DEF LiveApart, Placed
<1> QED
  BY <1>3, <1>4, <1>5, <1>6 DEF SpillInv

LEMMA SpillStutter == SpillInv /\ UNCHANGED vars => SpillInv'
<1> SUFFICES ASSUME SpillInv, UNCHANGED vars PROVE SpillInv'
  OBVIOUS
<1>1. UNCHANGED <<fn, pc, bi, ii, ui, remaining, active, occupied, total, peak, maximum, offsets>>
  BY DEF vars
<1>2. TypeOK /\ SlotsAreDisjoint /\ ActiveIsOffset /\ SlotsInFrame
  BY DEF SpillInv
<1>3. TypeOK'
  <2>1. IsFunction(fn) /\ IsFunction(fn)' /\ Ins(bi)' = Ins(bi)
    BY <1>1, <1>2, SMTT(30), SMTT(60) DEF TypeOK, IsFunction, Ins
  <2> QED
    BY <1>1, <1>2, <2>1, SMTT(30), SMTT(60) DEF TypeOK
<1>4. SlotsAreDisjoint' /\ ActiveIsOffset' /\ SlotsInFrame'
  BY <1>1, <1>2, SameSlots DEF SlotsInFrame
<1>5. LiveApart' /\ Placed'
  <2>1. CASE pc = "failed"
    BY <1>1, <2>1 DEF LiveApart, Placed
  <2>2. CASE pc # "failed"
    <3>1. \A b, i : Passed(b, i)' => Passed(b, i)
      BY <1>1 DEF Passed, InBlock
    <3>2. Doomed => Doomed'
      BY <1>1, Zenon DEF Doomed, Pending, InBlock, Ins
    <3> QED
      BY <1>1, <2>2, <3>1, <3>2, KeepsApart
  <2> QED
    BY <2>1, <2>2, SMTT(30), SMTT(60)
<1> QED
  BY <1>3, <1>4, <1>5 DEF SpillInv

-----------------------------------------------------------------------------

(* The layout of core_spill_layout.c keeps its invariant for every         *)
(* function, whether or not it is in SSA form.                             *)
THEOREM SpillInvariant == Spec => []SpillInv
<1>1. Init => SpillInv
  BY SpillStarts
<1>2. SpillInv /\ [Next]_vars => SpillInv'
  BY NoResultStep, PlaceStep, ConsumeStep, RetireStep, BlockBeginStep, EmptyBlockStep, BlockEndStep,
     FunctionEndStep, FailStep, SpillStutter DEF Next, Step
<1> QED
  BY <1>1, <1>2, PTL DEF Spec

(* The indices, counts and units of the layout stay in their ranges.       *)
THEOREM SpillTypeCorrect == Spec => []TypeOK
<1>1. SpillInv => TypeOK
  BY DEF SpillInv
<1> QED
  BY <1>1, SpillInvariant, PTL

(* occupied_units[] marks exactly the slots in use, and no unit is in two. *)
THEOREM SlotsAreNeverShared == Spec => []SlotsAreDisjoint
<1>1. SpillInv => SlotsAreDisjoint
  BY DEF SpillInv
<1> QED
  BY <1>1, SpillInvariant, PTL

(* A layout that succeeds gives two values that are needed at one          *)
(* instruction different bytes of the frame, though slots are reused.      *)
THEOREM LiveValuesAreApart == Spec => []LiveValuesDoNotOverlap
<1>1. SpillInv => LiveValuesDoNotOverlap
  <2> SUFFICES ASSUME SpillInv, pc = "done", NEW b \in DOMAIN fn.blocks, NEW i \in DOMAIN Ins(b)
               PROVE  Apart(b, i)
    BY Zenon DEF LiveValuesDoNotOverlap, Apart
  <2>1. TypeOK /\ LiveApart
    BY DEF SpillInv
  <2>2. b \in Nat /\ b < bi /\ b # bi
    BY <2>1 DEF TypeOK, IsFunction
  <2> QED
    BY <2>1, <2>2 DEF LiveApart, Passed
<1> QED
  BY <1>1, SpillInvariant, PTL

(* peak_bytes covers every slot that was handed out in any block.          *)
THEOREM FrameIsLargeEnough == Spec => []FrameHoldsEverySlot
<1>1. SpillInv => FrameHoldsEverySlot
  BY DEF SpillInv, SlotsInFrame, FrameHoldsEverySlot
<1> QED
  BY <1>1, SpillInvariant, PTL

-----------------------------------------------------------------------------
(* A function in SSA form gets a layout.  First fit never goes beyond the  *)
(* units of the results placed so far, so that total_units is room enough; *)
(* remaining_uses[] counts the uses that are still to come, so that a      *)
(* value has its slot until the last of them.                              *)

(* The units of the results of block b before instruction k.               *)
UnitSet(b, k) ==
  {p \in Results(b) \X {1, 2} : p[1] < k /\ p[2] <= fn.units[Ins(b)[p[1]].res]}

UnitsBefore(b, k) == Cardinality(UnitSet(b, k))

(* The uses of v in block b from use j of instruction i on.                *)
UsesFrom(b, i, j, v) ==
  {p \in (DOMAIN Ins(b)) \X (1 .. MaxOperands) :
     /\ p[2] <= Len(Ins(b)[p[1]].uses) /\ Ins(b)[p[1]].uses[p[2]] = v
     /\ p[1] > i \/ (p[1] = i /\ p[2] >= j)}

(* No result that is not placed yet has an offset.                         *)
Unplaced ==
  \A b \in DOMAIN fn.blocks : \A i \in Results(b) :
    ~Passed(b, i) => offsets[Ins(b)[i].res] = None

(* First fit stays within the units of the results placed so far.          *)
Room ==
  /\ total = TotalUnits(bi)
  /\ \A u \in occupied : u < UnitsBefore(bi, IF pc = "use" THEN ii + 1 ELSE ii)

(* remaining_uses[] counts the uses that are still to come.                *)
Owed ==
  \A v \in Value :
    remaining[v] = Cardinality(UsesFrom(bi, ii, IF pc = "use" THEN ui ELSE 1, v))

(* A result placed has its slot while it is needed.                        *)
Alive ==
  \A i \in Results(bi) :
    Passed(bi, i) /\ (remaining[Ins(bi)[i].res] # 0 \/ i = ii) => active[Ins(bi)[i].res] # None

(* What holds while the function has a layout so far.                      *)
Going == pc # "failed" /\ Unplaced /\ (InBlock => Room /\ Owed /\ Alive)

(* The inductive invariant for well-formed functions, beside SpillInv.     *)
WellInv == WellFormed => Going

-----------------------------------------------------------------------------
(* Counting units and uses.                                                *)

(* The counts are numbers, and no part of a block has more units than it.  *)
LEMMA FiniteCounts ==
  ASSUME TypeOK, NEW b \in DOMAIN fn.blocks
  PROVE  /\ \A k : IsFiniteSet(UnitSet(b, k)) /\ UnitsBefore(b, k) \in Nat
         /\ \A k : UnitsBefore(b, k) <= TotalUnits(b)
         /\ \A i, j, v : IsFiniteSet(UsesFrom(b, i, j, v))
<1> DEFINE T == {p \in Results(b) \X {1, 2} : p[2] <= fn.units[Ins(b)[p[1]].res]}
<1>1. IsFiniteSet(T) /\ TotalUnits(b) = Cardinality(T)
  <2>1. T \subseteq Results(b) \X {1, 2}
    BY Zenon
  <2> QED
    BY <2>1, FinitePairs, FS_Subset, Zenon DEF TotalUnits
<1>2. ASSUME NEW k
      PROVE  IsFiniteSet(UnitSet(b, k)) /\ UnitsBefore(b, k) \in Nat /\ UnitsBefore(b, k) <= TotalUnits(b)
  <2>1. UnitSet(b, k) \subseteq T
    BY Zenon DEF UnitSet
  <2> HIDE DEF T
  <2>2. IsFiniteSet(UnitSet(b, k)) /\ Cardinality(UnitSet(b, k)) <= Cardinality(T)
    BY <1>1, <2>1, FS_Subset, Zenon
  <2>3. Cardinality(UnitSet(b, k)) \in Nat
    BY <2>2, FS_CardinalityType, Zenon
  <2> QED
    BY <1>1, <2>2, <2>3, Zenon DEF UnitsBefore
<1>3. ASSUME NEW i, NEW j, NEW v
      PROVE  IsFiniteSet(UsesFrom(b, i, j, v))
  <2>1. UsesFrom(b, i, j, v) \subseteq (DOMAIN Ins(b)) \X (1 .. MaxOperands)
    BY Zenon DEF UsesFrom
  <2> QED
    BY <2>1, FinitePairs, FS_Subset, Zenon
<1> QED
  BY <1>2, <1>3, Zenon

(* An instruction adds the units of its result.                            *)
LEMMA UnitsGrow ==
  ASSUME TypeOK, NEW b \in DOMAIN fn.blocks, NEW k \in DOMAIN Ins(b)
  PROVE  /\ k \notin Results(b) => UnitsBefore(b, k + 1) = UnitsBefore(b, k)
         /\ k \in Results(b) /\ fn.units[Ins(b)[k].res] \in {1, 2} =>
              UnitsBefore(b, k + 1) = UnitsBefore(b, k) + fn.units[Ins(b)[k].res]
<1> DEFINE S == UnitSet(b, k)
           R == UnitSet(b, k + 1)
<1>1. k \in Nat /\ Results(b) \subseteq Nat
  BY InsIs DEF TypeOK, Results
<1>2. /\ IsFiniteSet(S) /\ Cardinality(S) = UnitsBefore(b, k) /\ UnitsBefore(b, k) \in Nat
      /\ Cardinality(R) = UnitsBefore(b, k + 1)
  BY FiniteCounts, Zenon DEF UnitsBefore
<1>3. CASE k \notin Results(b)
  <2>1. R = S
    BY <1>1, <1>3, SMTT(30), SMTT(60) DEF UnitSet
  <2> QED
    BY <1>2, <1>3, <2>1, Zenon
<1>4. CASE k \in Results(b) /\ fn.units[Ins(b)[k].res] = 1
  <2>1. R = S \cup {<<k, 1>>} /\ <<k, 1>> \notin S
    BY <1>1, <1>4 DEF UnitSet
  <2>2. Cardinality(S \cup {<<k, 1>>}) = Cardinality(S) + 1
    BY <1>2, <2>1, FS_AddElement, Zenon
  <2> HIDE DEF S, R
  <2> QED
    BY <1>2, <1>4, <2>1, <2>2, SMTT(30), SMTT(60)
<1>5. CASE k \in Results(b) /\ fn.units[Ins(b)[k].res] = 2
  <2>1. R = (S \cup {<<k, 1>>}) \cup {<<k, 2>>} /\ <<k, 1>> \notin S /\ <<k, 2>> \notin S
    BY <1>1, <1>5 DEF UnitSet
  <2>2. <<k, 2>> \notin S \cup {<<k, 1>>}
    BY <2>1
  <2>3. IsFiniteSet(S \cup {<<k, 1>>}) /\ Cardinality(S \cup {<<k, 1>>}) = Cardinality(S) + 1
    BY <1>2, <2>1, FS_AddElement, Zenon
  <2>4. Cardinality((S \cup {<<k, 1>>}) \cup {<<k, 2>>}) = Cardinality(S \cup {<<k, 1>>}) + 1
    BY <2>2, <2>3, FS_AddElement, Zenon
  <2> HIDE DEF S, R
  <2> QED
    BY <1>2, <1>5, <2>1, <2>3, <2>4, SMTT(30), SMTT(60)
<1> QED
  BY <1>3, <1>4, <1>5

(* A use that is consumed is no longer to come.                            *)
LEMMA UsesShrink ==
  ASSUME TypeOK, NEW b \in DOMAIN fn.blocks, NEW i \in DOMAIN Ins(b), NEW j \in DOMAIN Ins(b)[i].uses,
         NEW v \in Value
  PROVE  Cardinality(UsesFrom(b, i, j, v)) =
           IF v = Ins(b)[i].uses[j]
           THEN Cardinality(UsesFrom(b, i, j + 1, v)) + 1
           ELSE Cardinality(UsesFrom(b, i, j + 1, v))
<1> DEFINE S == UsesFrom(b, i, j + 1, v)
           R == UsesFrom(b, i, j, v)
<1>0. /\ i \in Nat /\ DOMAIN Ins(b) \subseteq Nat /\ Ins(b)[i].uses \in Seq(Value)
      /\ MaxOperands \in Nat
  BY InsIs, SpillConstants, SMTT(30), SMTT(60) DEF TypeOK
<1>1. /\ i \in Nat /\ DOMAIN Ins(b) \subseteq Nat /\ Ins(b)[i].uses \in Seq(Value)
      /\ Len(Ins(b)[i].uses) <= MaxOperands /\ MaxOperands \in Nat
  BY <1>0, Zenon DEF TypeOK, IsFunction, Ins
<1>2. j \in 1 .. Len(Ins(b)[i].uses) /\ j \in 1 .. MaxOperands
  BY <1>1
<1>3. IsFiniteSet(S)
  BY FiniteCounts, Zenon
<1>4. CASE v = Ins(b)[i].uses[j]
  <2>1. R = S \cup {<<i, j>>} /\ <<i, j>> \notin S
    BY <1>1, <1>2, <1>4 DEF UsesFrom
  <2> QED
    BY <1>3, <1>4, <2>1, FS_AddElement, ZenonT(30), ZenonT(60)
<1>5. CASE v # Ins(b)[i].uses[j]
  <2>1. R = S
    BY <1>1, <1>2, <1>5 DEF UsesFrom
  <2> QED
    BY <1>5, <2>1, Zenon
<1> QED
  BY <1>4, <1>5, Zenon

(* After the last use of an instruction come those of the next.            *)
LEMMA UsesMove ==
  ASSUME TypeOK, NEW b \in DOMAIN fn.blocks, NEW i \in DOMAIN Ins(b), NEW j \in Nat,
         j > Len(Ins(b)[i].uses), NEW v
  PROVE  UsesFrom(b, i, j, v) = UsesFrom(b, i + 1, 1, v)
<1>1. /\ i \in Nat /\ DOMAIN Ins(b) \subseteq Nat
      /\ \A k \in DOMAIN Ins(b) : Len(Ins(b)[k].uses) \in Nat
  BY InsIs, SMTT(30), SMTT(60) DEF TypeOK
<1> QED
  BY <1>1 DEF UsesFrom

(* core_spill_count_use counts them all.                                   *)
LEMMA UsesStart ==
  ASSUME TypeOK, NEW b \in DOMAIN fn.blocks, NEW v
  PROVE  UseCount(b, v) = Cardinality(UsesFrom(b, 1, 1, v))
<1> DEFINE T == {p \in (DOMAIN Ins(b)) \X (1 .. MaxOperands) :
                   p[2] <= Len(Ins(b)[p[1]].uses) /\ Ins(b)[p[1]].uses[p[2]] = v}
<1>1. \A k \in DOMAIN Ins(b) : k \in Nat /\ k >= 1
  BY InsIs DEF TypeOK
<1>2. T = UsesFrom(b, 1, 1, v)
  BY <1>1 DEF UsesFrom
<1> QED
  BY <1>2, Zenon DEF UseCount

(* The counts and the form of the function depend on the function alone.   *)
LEMMA SameCounts ==
  ASSUME fn' = fn
  PROVE  /\ \A b : TotalUnits(b)' = TotalUnits(b)
         /\ \A b, k : UnitsBefore(b, k)' = UnitsBefore(b, k)
         /\ \A b, i, j, v : UsesFrom(b, i, j, v)' = UsesFrom(b, i, j, v)
         /\ WellFormed' <=> WellFormed
<1>1. \A b : Ins(b)' = Ins(b) /\ Results(b)' = Results(b) /\ (Supported(b)' <=> Supported(b))
  BY SameFunction, Zenon
<1>2. \A b : TotalUnits(b)' = TotalUnits(b)
  BY <1>1, Zenon DEF TotalUnits
<1>3. \A b, k : UnitSet(b, k)' = UnitSet(b, k)
  BY <1>1, Zenon DEF UnitSet
<1>4. \A b, k : UnitsBefore(b, k)' = UnitsBefore(b, k)
  BY <1>3, Zenon DEF UnitsBefore
<1>5. \A b, i, j, v : UsesFrom(b, i, j, v)' = UsesFrom(b, i, j, v)
  BY <1>1, ZenonT(30), ZenonT(60) DEF UsesFrom
<1>6. \A b, i, v : (Defines(b, i, v)' <=> Defines(b, i, v)) /\ (UsedAt(b, i, v)' <=> UsedAt(b, i, v))
  BY <1>1, Zenon DEF Defines, UsedAt
<1>7. WellFormed' <=> WellFormed
  <2> DEFINE Closed == \A b \in DOMAIN fn.blocks : Supported(b) /\ fn.blocks[b].closed
             Once == \A b, c \in DOMAIN fn.blocks : \A i \in Results(b), j \in Results(c) :
                       Ins(b)[i].res = Ins(c)[j].res => b = c /\ i = j
             Before == \A b \in DOMAIN fn.blocks : \A i \in DOMAIN Ins(b) : \A v \in Value :
                         UsedAt(b, i, v) => \E d \in 1 .. i - 1 : Defines(b, d, v)
  <2>1. Closed' <=> Closed
    BY <1>1, Zenon
  <2>2. Once' <=> Once
    BY <1>1
  <2>3. Before' <=> Before
    BY <1>1, <1>6, Zenon
  <2>4. WellFormed <=> Closed /\ Once /\ Before
    BY Zenon DEF WellFormed
  <2>5. WellFormed' <=> (Closed /\ Once /\ Before)'
    BY Zenon DEF WellFormed
  <2> HIDE DEF Closed, Once, Before
  <2> QED
    BY <2>1, <2>2, <2>3, <2>4, <2>5, Zenon
<1> QED
  BY <1>2, <1>4, <1>5, <1>7, Zenon

(* A step that hands out no slot and forgets no instruction.               *)
LEMMA UnplacedKept ==
  ASSUME Unplaced, UNCHANGED <<fn, offsets>>,
         \A b \in DOMAIN fn.blocks : \A i \in Results(b) : Passed(b, i) => Passed(b, i)'
  PROVE  Unplaced'
<1>1. \A b : Ins(b)' = Ins(b) /\ Results(b)' = Results(b)
  BY SameFunction, Zenon
<1> QED
  BY <1>1, Zenon DEF Unplaced

(* The operand in hand is the result of an instruction before.             *)
LEMMA OperandIsResult ==
  ASSUME TypeOK, WellFormed, pc = "use", ui <= Len(Current.uses)
  PROVE  /\ bi \in DOMAIN fn.blocks /\ ii \in DOMAIN Ins(bi) /\ ui \in DOMAIN Current.uses
         /\ Operand \in Value
         /\ \E d \in Results(bi) : Passed(bi, d) /\ d # ii /\ Ins(bi)[d].res = Operand
<1>1. /\ bi \in DOMAIN fn.blocks /\ ii \in DOMAIN Ins(bi)
      /\ Current.uses \in Seq(Value) /\ ii \in Nat /\ DOMAIN Ins(bi) \subseteq Nat
  <2>1. bi \in DOMAIN fn.blocks /\ ii \in DOMAIN Ins(bi) /\ Current.uses \in Seq(Value)
    BY CurrentIs DEF TypeOK, InBlock
  <2> QED
    BY <2>1, InsIs, SMTT(30), SMTT(60) DEF TypeOK
<1>2. ui \in DOMAIN Current.uses /\ Operand \in Value
  BY <1>1 DEF TypeOK, Operand
<1>3. UsedAt(bi, ii, Operand)
  BY <1>1, <1>2, Zenon DEF UsedAt, Operand, Current
<1>4. PICK d \in 1 .. ii - 1 : Defines(bi, d, Operand)
  BY <1>1, <1>2, <1>3, Zenon DEF WellFormed
<1>5. d \in DOMAIN Ins(bi) /\ Ins(bi)[d].res = Operand
  BY <1>4, Zenon DEF Defines
<1>6. d \in Results(bi)
  BY <1>2, <1>5, SpillConstants, Zenon DEF Results
<1>7. d # ii /\ Passed(bi, d)
  BY <1>1, <1>4 DEF Passed, InBlock
<1> QED
  BY <1>1, <1>2, <1>5, <1>6, <1>7, Zenon

(* Results of a well-formed function have a name each, and one or two      *)
(* units.                                                                  *)
LEMMA ResultsDiffer ==
  ASSUME TypeOK, WellFormed, NEW b \in DOMAIN fn.blocks, NEW i \in Results(b)
  PROVE  /\ Ins(b)[i].res \in Value /\ i \in DOMAIN Ins(b) /\ i \in Nat \ {0}
         /\ fn.units[Ins(b)[i].res] \in {1, 2}
         /\ \A c \in DOMAIN fn.blocks : \A j \in Results(c) :
              Ins(b)[i].res = Ins(c)[j].res => b = c /\ i = j
<1>1. i \in DOMAIN Ins(b) /\ Ins(b)[i].res # NoValue
  BY DEF Results
<1>2. Ins(b)[i].res \in Value /\ i \in Nat \ {0}
  BY <1>1, InsIs DEF TypeOK
<1>3. Supported(b)
  BY Zenon DEF WellFormed
<1>4. fn.units[Ins(b)[i].res] # 0
  BY <1>3, Zenon DEF Supported
<1>5. fn.units \in [Value -> 0 .. 2]
  BY DEF TypeOK, IsFunction
<1>6. fn.units[Ins(b)[i].res] \in 0 .. 2
  BY <1>2, <1>5, Zenon
<1>7. fn.units[Ins(b)[i].res] \in {1, 2}
  BY <1>4, <1>6, SMTT(30), SMTT(60)
<1> QED
  BY <1>1, <1>2, <1>7, Zenon DEF WellFormed

(* The same of all of them.                                                *)
LEMMA AllResultsDiffer ==
  ASSUME TypeOK, WellFormed
  PROVE  \A b \in DOMAIN fn.blocks : \A i \in Results(b) :
           /\ Ins(b)[i].res \in Value /\ fn.units[Ins(b)[i].res] \in {1, 2}
           /\ \A c \in DOMAIN fn.blocks : \A j \in Results(c) :
                Ins(b)[i].res = Ins(c)[j].res => b = c /\ i = j
<1> TAKE b \in DOMAIN fn.blocks
<1> TAKE i \in Results(b)
<1> QED
  BY ResultsDiffer, SMTT(30), SMTT(60)

(* A slot in use is marked.                                                *)
LEMMA ActiveIsMarked ==
  ASSUME SlotsAreDisjoint, NEW v \in Value, active[v] # None
  PROVE  Units(v, active[v]) \subseteq occupied
BY Zenon DEF SlotsAreDisjoint

-----------------------------------------------------------------------------

(* The units handed out so far leave room for the next result.             *)
LEMMA RoomForResult ==
  ASSUME SpillInv, Going, WellFormed, pc = "result", ii <= Len(Ins(bi)), Current.res # NoValue
  PROVE  /\ bi \in DOMAIN fn.blocks /\ ii \in Results(bi) /\ Current.res \in Value
         /\ fn.units[Current.res] \in {1, 2} /\ UnitsBefore(bi, ii) \in 0 .. total
         /\ UnitsBefore(bi, ii + 1) = UnitsBefore(bi, ii) + fn.units[Current.res]
         /\ FreeRun(Current.res, UnitsBefore(bi, ii))
         /\ offsets[Current.res] = None /\ active[Current.res] = None
<1>1. TypeOK /\ ActiveIsOffset /\ InBlock /\ Unplaced /\ Room
  BY DEF SpillInv, Going, InBlock
<1>2. bi \in DOMAIN fn.blocks /\ ii \in DOMAIN Ins(bi) /\ Current = Ins(bi)[ii]
  BY <1>1, CurrentIs DEF Current
<1>3. ii \in Results(bi)
  BY <1>2, SMTT(30), SMTT(60) DEF Results
<1>4. Current.res \in Value /\ fn.units[Current.res] \in {1, 2}
  BY <1>1, <1>2, <1>3, AllResultsDiffer, Zenon
<1>5. UnitsBefore(bi, ii + 1) = UnitsBefore(bi, ii) + fn.units[Current.res]
  BY <1>1, <1>2, <1>3, <1>4, UnitsGrow
<1>6. /\ UnitsBefore(bi, ii) \in Nat /\ UnitsBefore(bi, ii + 1) \in Nat
      /\ UnitsBefore(bi, ii + 1) <= TotalUnits(bi) /\ UnitsBefore(bi, ii) <= TotalUnits(bi)
  BY <1>1, <1>2, FiniteCounts, Zenon
<1>7. total = TotalUnits(bi) /\ total \in Nat /\ \A u \in occupied : u < UnitsBefore(bi, ii)
  BY <1>1 DEF Room, TypeOK
<1>8. FreeRun(Current.res, UnitsBefore(bi, ii)) /\ UnitsBefore(bi, ii) \in 0 .. total
  BY <1>4, <1>5, <1>6, <1>7, SMTT(30), SMTT(60) DEF FreeRun, Units
<1>9. ~Passed(bi, ii)
  BY <1>1 DEF Passed, TypeOK
<1>10. offsets[Current.res] = None
  BY <1>1, <1>2, <1>3, <1>9, Zenon DEF Unplaced
<1>11. active[Current.res] = None
  BY <1>1, <1>4, <1>10, Zenon DEF ActiveIsOffset
<1> QED
  BY <1>2, <1>3, <1>4, <1>5, <1>8, <1>10, <1>11

(* One lemma for each step: on a well-formed function it keeps Going.      *)
LEMMA GoingNoResult == SpillInv /\ Going /\ WellFormed /\ NoResult => Going'
<1> SUFFICES ASSUME SpillInv, Going, WellFormed, NoResult PROVE Going'
  OBVIOUS
<1>1. TypeOK /\ InBlock /\ Unplaced /\ Room /\ Owed /\ Alive
  BY DEF SpillInv, Going, InBlock, NoResult
<1>2. /\ pc = "result" /\ pc' = "use" /\ ui' = 1 /\ Current.res = NoValue /\ ii <= Len(Ins(bi))
      /\ UNCHANGED <<fn, bi, ii, remaining, active, occupied, total, peak, maximum, offsets>>
  BY SMTT(30), SMTT(60) DEF NoResult, scratch
<1>3. /\ bi \in DOMAIN fn.blocks /\ ii \in DOMAIN Ins(bi) /\ ii \notin Results(bi) /\ ii \in Nat
      /\ Results(bi) \subseteq Nat
  <2>1. bi \in DOMAIN fn.blocks /\ ii \in DOMAIN Ins(bi)
    BY <1>1, <1>2, CurrentIs
  <2>2. ii \notin Results(bi)
    BY <1>2 DEF Results, Current
  <2> QED
    BY <1>1, <2>1, <2>2, InsIs, SMTT(30), SMTT(60) DEF TypeOK, Results
<1>4. Unplaced'
  BY <1>1, <1>2, UnplacedKept DEF Passed, InBlock
<1>5. Room'
  <2>1. UnitsBefore(bi, ii + 1) = UnitsBefore(bi, ii)
    BY <1>1, <1>3, UnitsGrow
  <2>2. TotalUnits(bi)' = TotalUnits(bi) /\ UnitsBefore(bi, ii + 1)' = UnitsBefore(bi, ii + 1)
    BY <1>2, SameCounts
  <2> QED
    BY <1>1, <1>2, <2>1, <2>2, SMTT(30), SMTT(60) DEF Room
<1>6. Owed'
  <2>1. \A v : UsesFrom(bi, ii, 1, v)' = UsesFrom(bi, ii, 1, v)
    BY <1>2, SameCounts, SMTT(30), SMTT(60)
  <2> QED
    BY <1>1, <1>2, <2>1 DEF Owed
<1>7. Alive'
  <2>1. Ins(bi)' = Ins(bi) /\ Results(bi)' = Results(bi)
    BY <1>2, SameFunction
  <2>2. \A i \in Results(bi) : Passed(bi, i)' => Passed(bi, i) /\ i # ii
    BY <1>2, <1>3 DEF Passed, InBlock, TypeOK
  <2> QED
    BY <1>1, <1>2, <2>1, <2>2, SMTT(30), SMTT(60) DEF Alive
<1> QED
  BY <1>2, <1>4, <1>5, <1>6, <1>7 DEF Going

LEMMA GoingPlace == SpillInv /\ Going /\ WellFormed /\ Place => Going'
<1> SUFFICES ASSUME SpillInv, Going, WellFormed, Place PROVE Going'
  OBVIOUS
<1> DEFINE v == Current.res
           n == UnitsBefore(bi, ii)
<1>1. TypeOK /\ InBlock /\ Unplaced /\ Room /\ Owed /\ Alive
  BY DEF SpillInv, Going, InBlock, Place
<1>2. /\ pc = "result" /\ pc' = "use" /\ ui' = 1 /\ v # NoValue /\ ii <= Len(Ins(bi))
      /\ UNCHANGED <<fn, bi, ii, remaining, total, maximum>>
  BY DEF Place
<1>3. PICK start \in 0 .. total :
        /\ FirstFit(v, start)
        /\ occupied' = occupied \cup Units(v, start)
        /\ active' = [active EXCEPT ![v] = start]
        /\ offsets' = [offsets EXCEPT ![v] = start]
  BY Zenon DEF Place
<1>4. /\ bi \in DOMAIN fn.blocks /\ ii \in Results(bi) /\ v \in Value /\ fn.units[v] \in {1, 2}
      /\ n \in 0 .. total /\ UnitsBefore(bi, ii + 1) = n + fn.units[v] /\ FreeRun(v, n)
  BY <1>2, RoomForResult, SMTT(30), SMTT(60)
<1>5. ii \in Nat /\ Results(bi) \subseteq Nat /\ v = Ins(bi)[ii].res /\ start # None /\ total \in Nat
  BY <1>1, <1>4, InsIs, SMTT(30), SMTT(60) DEF TypeOK, Results, Current, None
<1> HIDE DEF n, v
<1>6. start <= n
  BY <1>3, <1>4, <1>5, SMTT(30), SMTT(60) DEF FirstFit
<1>7. Unplaced'
  <2>1. \A b : Ins(b)' = Ins(b) /\ Results(b)' = Results(b)
    BY <1>2, SameFunction, Zenon
  <2> SUFFICES ASSUME NEW b \in DOMAIN fn.blocks, NEW i \in Results(b), ~Passed(b, i)'
               PROVE  offsets'[Ins(b)[i].res] = None
    BY <1>2, <2>1, Zenon DEF Unplaced
  <2>2. ~Passed(b, i) /\ ~(b = bi /\ i = ii)
    BY <1>2, <1>4 DEF Passed, InBlock
  <2>3. Ins(b)[i].res # v /\ Ins(b)[i].res \in Value
    <3>1. /\ Ins(b)[i].res \in Value
          /\ \A c \in DOMAIN fn.blocks : \A j \in Results(c) :
               Ins(b)[i].res = Ins(c)[j].res => b = c /\ i = j
      BY <1>1, AllResultsDiffer, Zenon
    <3> QED
      BY <1>4, <1>5, <2>2, <3>1, Zenon
  <2>4. offsets[Ins(b)[i].res] = None
    BY <1>1, <2>2, Zenon DEF Unplaced
  <2> QED
    BY <1>1, <1>3, <2>3, <2>4 DEF TypeOK
<1>8. Room'
  <2>1. total = TotalUnits(bi) /\ \A u \in occupied : u < n /\ u \in Nat
    BY <1>1, <1>2 DEF Room, TypeOK, n
  <2>2. TotalUnits(bi)' = TotalUnits(bi) /\ UnitsBefore(bi, ii + 1)' = UnitsBefore(bi, ii + 1)
    BY <1>2, SameCounts, SMTT(30), SMTT(60)
  <2>3. \A u \in occupied' : u < n + fn.units[v]
    BY <1>3, <1>4, <1>5, <1>6, <2>1, SMTT(30), SMTT(60) DEF Units
  <2> QED
    BY <1>2, <1>4, <2>1, <2>2, <2>3, SMTT(30), SMTT(60) DEF Room
<1>9. Owed'
  <2>1. \A w : UsesFrom(bi, ii, 1, w)' = UsesFrom(bi, ii, 1, w)
    BY <1>2, SameCounts, SMTT(30), SMTT(60)
  <2> QED
    BY <1>1, <1>2, <2>1 DEF Owed
<1>10. Alive'
  <2>1. Ins(bi)' = Ins(bi) /\ Results(bi)' = Results(bi)
    BY <1>2, SameFunction
  <2> SUFFICES ASSUME NEW i \in Results(bi), Passed(bi, i)',
                      remaining[Ins(bi)[i].res] # 0 \/ i = ii
               PROVE  active'[Ins(bi)[i].res] # None
    BY <1>2, <2>1, ZenonT(30), ZenonT(60) DEF Alive
  <2>2. CASE i = ii
    BY <1>1, <1>3, <1>4, <1>5, <2>2, SMTT(30), SMTT(60) DEF TypeOK
  <2>3. CASE i # ii
    <3>1. Passed(bi, i)
      BY <1>2, <1>4, <1>5, <2>3 DEF Passed, InBlock
    <3>2. active[Ins(bi)[i].res] # None /\ Ins(bi)[i].res \in Value
      BY <1>1, <1>4, <2>3, <3>1, ResultsDiffer, Zenon DEF Alive
    <3> QED
      BY <1>1, <1>3, <1>5, <3>2, SMTT(30), SMTT(60) DEF TypeOK
  <2> QED
    BY <2>2, <2>3
<1> QED
  BY <1>2, <1>7, <1>8, <1>9, <1>10, SMTT(30), SMTT(60) DEF Going

(* A result finds room behind the units of the results before it.          *)
LEMMA NeverPlaceFails == SpillInv /\ Going /\ WellFormed => ~PlaceFails
<1> SUFFICES ASSUME SpillInv, Going, WellFormed, PlaceFails PROVE FALSE
  OBVIOUS
<1>1. pc = "result" /\ ii <= Len(Ins(bi)) /\ Current.res # NoValue /\ ~CanPlace
  BY SMTT(30), SMTT(60) DEF PlaceFails
<1>2. /\ UnitsBefore(bi, ii) \in 0 .. total /\ FreeRun(Current.res, UnitsBefore(bi, ii))
      /\ offsets[Current.res] = None /\ active[Current.res] = None
  BY <1>1, RoomForResult
<1> QED
  BY <1>1, <1>2, Zenon DEF CanPlace, Fits

(* The operand in hand is still owed a use and has its slot.               *)
LEMMA OperandIsAlive ==
  ASSUME SpillInv, Going, WellFormed, pc = "use", ui <= Len(Current.uses)
  PROVE  /\ remaining[Operand] # 0 /\ active[Operand] # None
         /\ Units(Operand, active[Operand]) \subseteq occupied
<1>1. TypeOK /\ SlotsAreDisjoint /\ InBlock /\ Owed /\ Alive
  BY DEF SpillInv, Going, InBlock
<1>2. /\ bi \in DOMAIN fn.blocks /\ ii \in DOMAIN Ins(bi) /\ ui \in DOMAIN Current.uses
      /\ Operand \in Value
  BY <1>1, OperandIsResult
<1>3. PICK d \in Results(bi) : Passed(bi, d) /\ d # ii /\ Ins(bi)[d].res = Operand
  BY <1>1, OperandIsResult
<1>4. Cardinality(UsesFrom(bi, ii, ui, Operand)) = Cardinality(UsesFrom(bi, ii, ui + 1, Operand)) + 1
  BY <1>1, <1>2, UsesShrink, Zenon DEF Operand, Current
<1>5. Cardinality(UsesFrom(bi, ii, ui + 1, Operand)) \in Nat
  <2>1. IsFiniteSet(UsesFrom(bi, ii, ui + 1, Operand))
    BY <1>1, <1>2, FiniteCounts, Zenon
  <2> QED
    BY <2>1, FS_CardinalityType, Zenon
<1>6. remaining[Operand] = Cardinality(UsesFrom(bi, ii, ui, Operand))
  BY <1>1, <1>2 DEF Owed
<1>7. remaining[Operand] # 0
  BY <1>4, <1>5, <1>6
<1>8. active[Operand] # None
  BY <1>1, <1>3, <1>7, Zenon DEF Alive
<1> QED
  BY <1>1, <1>2, <1>7, <1>8, ActiveIsMarked, Zenon

(* An operand has its slot.                                                *)
LEMMA NeverConsumeFails == SpillInv /\ Going /\ WellFormed => ~ConsumeFails
BY OperandIsAlive, Zenon DEF ConsumeFails, CanConsume

LEMMA GoingConsume == SpillInv /\ Going /\ WellFormed /\ Consume => Going'
<1> SUFFICES ASSUME SpillInv, Going, WellFormed, Consume PROVE Going'
  OBVIOUS
<1> DEFINE o == Operand
<1>1. TypeOK /\ InBlock /\ Unplaced /\ Room /\ Owed /\ Alive
  BY DEF SpillInv, Going, InBlock, Consume
<1>2. /\ pc = "use" /\ pc' = "use" /\ ui' = ui + 1 /\ ui <= Len(Current.uses)
      /\ remaining' = [remaining EXCEPT ![o] = @ - 1]
      /\ UNCHANGED <<fn, bi, ii, total, peak, maximum, offsets>>
  BY DEF Consume
<1>3. /\ remaining[o] = 1 => occupied' = Released(o) /\ active' = [active EXCEPT ![o] = None]
      /\ remaining[o] # 1 => UNCHANGED <<occupied, active>>
  BY DEF Consume
<1>4. /\ bi \in DOMAIN fn.blocks /\ ii \in DOMAIN Ins(bi) /\ ui \in DOMAIN Current.uses
      /\ o \in Value
  BY <1>1, <1>2, OperandIsResult, SMTT(30), SMTT(60)
<1>5. PICK d \in Results(bi) : Passed(bi, d) /\ d # ii /\ Ins(bi)[d].res = o
  BY <1>1, <1>2, OperandIsResult, SMTT(30), SMTT(60)
<1>6. Ins(bi)' = Ins(bi) /\ Results(bi)' = Results(bi)
  BY <1>2, SameFunction, SMTT(30), SMTT(60)
<1>7. Unplaced'
  BY <1>1, <1>2, UnplacedKept DEF Passed, InBlock
<1>8. Room'
  <2>1. TotalUnits(bi)' = TotalUnits(bi) /\ UnitsBefore(bi, ii + 1)' = UnitsBefore(bi, ii + 1)
    BY <1>2, SameCounts
  <2>2. occupied' \subseteq occupied
    BY <1>3, Zenon DEF Released
  <2> QED
    BY <1>1, <1>2, <2>1, <2>2, SMTT(30), SMTT(60) DEF Room
<1>9. Owed'
  <2>1. ASSUME NEW v \in Value
        PROVE  remaining'[v] = Cardinality(UsesFrom(bi, ii, ui + 1, v))
    <3>1. remaining[v] = Cardinality(UsesFrom(bi, ii, ui, v))
      BY <1>1, <1>2 DEF Owed
    <3>2. IsFiniteSet(UsesFrom(bi, ii, ui + 1, v))
      BY <1>1, <1>4, FiniteCounts, Zenon
    <3>3. Cardinality(UsesFrom(bi, ii, ui + 1, v)) \in Nat
      BY <3>2, FS_CardinalityType, Zenon
    <3>4. Cardinality(UsesFrom(bi, ii, ui, v)) =
            IF v = o THEN Cardinality(UsesFrom(bi, ii, ui + 1, v)) + 1
                     ELSE Cardinality(UsesFrom(bi, ii, ui + 1, v))
      BY <1>1, <1>4, UsesShrink, Zenon DEF Operand, Current
    <3>5. remaining \in [Value -> Nat]
      BY <1>1 DEF TypeOK
    <3> HIDE DEF o
    <3> QED
      BY <1>2, <1>4, <3>1, <3>3, <3>4, <3>5, SMTT(30), SMTT(60)
  <2>2. \A v : UsesFrom(bi, ii, ui, v)' = UsesFrom(bi, ii, ui + 1, v)
    BY <1>2, SameCounts
  <2> QED
    BY <1>2, <2>1, <2>2, SMTT(30), SMTT(60) DEF Owed
<1>10. Alive'
  <2> SUFFICES ASSUME NEW i \in Results(bi), Passed(bi, i),
                      remaining'[Ins(bi)[i].res] # 0 \/ i = ii
               PROVE  active'[Ins(bi)[i].res] # None
    <3>1. \A k : Passed(bi, k)' => Passed(bi, k)
      BY <1>2, Zenon DEF Passed, InBlock
    <3> QED
      BY <1>2, <1>6, <3>1, ZenonT(30), ZenonT(60) DEF Alive
  <2>1. Ins(bi)[i].res \in Value /\ (Ins(bi)[i].res = o => i = d)
    <3>1. /\ Ins(bi)[i].res \in Value
          /\ \A c \in DOMAIN fn.blocks : \A j \in Results(c) :
               Ins(bi)[i].res = Ins(c)[j].res => bi = c /\ i = j
      BY <1>1, <1>4, AllResultsDiffer, ZenonT(30), ZenonT(60)
    <3> QED
      BY <1>4, <1>5, <3>1, Zenon
  <2>2. remaining \in [Value -> Nat] /\ active \in [Value -> Nat \cup {None}]
    BY <1>1 DEF TypeOK
  <2> HIDE DEF o
  <2>3. CASE Ins(bi)[i].res = o
    <3>1. remaining'[o] # 0
      BY <1>5, <2>1, <2>3, Zenon
    <3>2. remaining[o] # 1 /\ remaining[o] # 0
      <4>1. remaining'[o] = remaining[o] - 1 /\ remaining[o] \in Nat
        BY <1>2, <1>4, <2>2, SMTT(30), SMTT(60)
      <4>2. remaining[o] # 0
        BY <1>2, OperandIsAlive DEF o
      <4> QED
        BY <3>1, <4>1, <4>2, SMTT(30), SMTT(60)
    <3>3. active[o] # None
      BY <1>1, <2>3, <3>2, Zenon DEF Alive
    <3> QED
      BY <1>3, <2>3, <3>2, <3>3, Zenon
  <2>4. CASE Ins(bi)[i].res # o
    <3>1. remaining'[Ins(bi)[i].res] = remaining[Ins(bi)[i].res]
      BY <1>2, <2>1, <2>2, <2>4
    <3>2. active[Ins(bi)[i].res] # None
      BY <1>1, <3>1, Zenon DEF Alive
    <3>3. active'[Ins(bi)[i].res] = active[Ins(bi)[i].res]
      BY <1>3, <2>1, <2>2, <2>4
    <3> QED
      BY <3>2, <3>3, Zenon
  <2> QED
    BY <2>3, <2>4, Zenon
<1> QED
  BY <1>2, <1>7, <1>8, <1>9, <1>10, SMTT(30), SMTT(60) DEF Going

(* A result that nothing uses still has the slot it was just given.        *)
LEMMA NeverRetireFails == SpillInv /\ Going /\ WellFormed => ~RetireFails
<1> SUFFICES ASSUME SpillInv, Going, WellFormed, RetireFails PROVE FALSE
  OBVIOUS
<1>1. TypeOK /\ SlotsAreDisjoint /\ InBlock /\ Alive /\ pc = "use"
  BY DEF SpillInv, Going, InBlock, RetireFails
<1>2. Current.res # NoValue /\ ~CanRetire
  BY DEF RetireFails, Unused
<1>3. ii <= Len(Ins(bi))
  BY <1>1 DEF TypeOK
<1>4. bi \in DOMAIN fn.blocks /\ ii \in DOMAIN Ins(bi) /\ Current.res \in Value
  BY <1>1, <1>2, <1>3, CurrentIs
<1>5. ii \in Results(bi) /\ Passed(bi, ii)
  BY <1>1, <1>2, <1>4 DEF Results, Current, Passed
<1>6. active[Current.res] # None
  BY <1>1, <1>5, Zenon DEF Alive, Current
<1> QED
  BY <1>1, <1>2, <1>4, <1>6, ActiveIsMarked, Zenon DEF CanRetire

LEMMA GoingRetire == SpillInv /\ Going /\ WellFormed /\ (RetireUnused \/ NextInstruction) => Going'
<1> SUFFICES ASSUME SpillInv, Going, WellFormed, RetireUnused \/ NextInstruction PROVE Going'
  OBVIOUS
<1>1. TypeOK /\ InBlock /\ Unplaced /\ Room /\ Owed /\ Alive
  BY DEF SpillInv, Going, InBlock, RetireUnused, NextInstruction
<1>2. /\ pc = "use" /\ pc' = "result" /\ ui > Len(Current.uses) /\ ii' = ii + 1
      /\ UNCHANGED <<fn, bi, ui, remaining, total, peak, maximum, offsets>>
  BY DEF RetireUnused, NextInstruction, scratch
<1>3. /\ occupied' \subseteq occupied
      /\ \A v \in Value : remaining[v] # 0 => active'[v] = active[v]
  <2>1. CASE RetireUnused
    <3>1. occupied' = Released(Current.res) /\ active' = [active EXCEPT ![Current.res] = None]
      BY <2>1, SMTT(30), SMTT(60) DEF RetireUnused
    <3>2. remaining[Current.res] = 0 /\ active \in [Value -> Nat \cup {None}]
      BY <1>1, <2>1, SMTT(30), SMTT(60) DEF RetireUnused, Unused, TypeOK
    <3> QED
      BY <3>1, <3>2 DEF Released
  <2>2. CASE NextInstruction
    BY <2>2, SMTT(30), SMTT(60) DEF NextInstruction, scratch
  <2> QED
    BY <2>1, <2>2
<1>4. /\ bi \in DOMAIN fn.blocks /\ ii \in DOMAIN Ins(bi) /\ ii \in Nat /\ Results(bi) \subseteq Nat
      /\ ui \in Nat /\ bi \in Nat
  <2>1. bi \in DOMAIN fn.blocks /\ ii \in DOMAIN Ins(bi)
    BY <1>1, <1>2, CurrentIs, SMTT(30), SMTT(60) DEF TypeOK
  <2> QED
    BY <1>1, <2>1, InsIs, SMTT(30), SMTT(60) DEF TypeOK, Results
<1>6. Unplaced'
  <2>1. \A b \in DOMAIN fn.blocks : \A i \in Results(b) : Passed(b, i) => Passed(b, i)'
    BY <1>2, <1>4, SMTT(30), SMTT(60) DEF Passed, InBlock
  <2> QED
    BY <1>1, <1>2, <2>1, UnplacedKept, SMTT(30), SMTT(60)
<1>7. Room'
  <2>1. TotalUnits(bi)' = TotalUnits(bi) /\ UnitsBefore(bi, ii)' = UnitsBefore(bi, ii + 1)
    BY <1>2, SameCounts
  <2> QED
    BY <1>1, <1>2, <1>3, <2>1, SMTT(30), SMTT(60) DEF Room
<1>8. Owed'
  <2>1. \A v : UsesFrom(bi, ii, 1, v)' = UsesFrom(bi, ii + 1, 1, v)
    BY <1>2, SameCounts
  <2>2. \A v : UsesFrom(bi, ii, ui, v) = UsesFrom(bi, ii + 1, 1, v)
    BY <1>1, <1>2, <1>4, UsesMove, Zenon DEF Current
  <2> QED
    BY <1>1, <1>2, <2>1, <2>2, SMTT(30), SMTT(60) DEF Owed
<1>9. Alive'
  <2>1. Ins(bi)' = Ins(bi) /\ Results(bi)' = Results(bi)
    BY <1>2, SameFunction, SMTT(30), SMTT(60)
  <2>2. \A k \in Results(bi) : Passed(bi, k)' => Passed(bi, k) /\ k # ii + 1
    BY <1>2, <1>4 DEF Passed, InBlock, TypeOK
  <2>3. \A k \in Results(bi) : Ins(bi)[k].res \in Value
    BY <1>1, <1>4, ResultsDiffer, Zenon
  <2> QED
    BY <1>1, <1>2, <1>3, <2>1, <2>2, <2>3, Zenon DEF Alive
<1> QED
  BY <1>2, <1>6, <1>7, <1>8, <1>9 DEF Going

LEMMA GoingBlockBegin == SpillInv /\ Going /\ WellFormed /\ BlockBegin => Going'
<1> SUFFICES ASSUME SpillInv, Going, WellFormed, BlockBegin PROVE Going'
  OBVIOUS
<1>1. TypeOK /\ Unplaced
  BY Zenon DEF SpillInv, Going
<1>2. /\ pc = "block" /\ pc' = "result" /\ ii' = 1 /\ ui' = 1 /\ bi <= Len(fn.blocks)
      /\ remaining' = [v \in Value |-> UseCount(bi, v)]
      /\ occupied' = {} /\ total' = TotalUnits(bi)
      /\ UNCHANGED <<fn, bi, maximum, offsets>>
  BY Zenon, SMTT(30) DEF BlockBegin, Goto
<1>3. bi \in DOMAIN fn.blocks /\ bi \in Nat
  BY <1>1, <1>2, SMTT(30), SMTT(60) DEF TypeOK, IsFunction
<1>4. Results(bi) \subseteq Nat \ {0}
  BY <1>1, <1>3, InsIs, SMTT(30), SMTT(60) DEF TypeOK, Results
<1>5. Unplaced'
  <2>1. \A b \in DOMAIN fn.blocks : \A i \in Results(b) : Passed(b, i) => Passed(b, i)'
    BY <1>2 DEF Passed, InBlock
  <2> QED
    BY <1>1, <1>2, <2>1, UnplacedKept, SMTT(30), SMTT(60)
<1>6. Room'
  <2>1. TotalUnits(bi)' = TotalUnits(bi)
    BY <1>2, SameCounts
  <2> QED
    BY <1>2, <2>1 DEF Room
<1>7. Owed'
  <2>1. \A v : UsesFrom(bi, 1, 1, v)' = UsesFrom(bi, 1, 1, v)
    BY <1>2, SameCounts
  <2>2. \A v : UseCount(bi, v) = Cardinality(UsesFrom(bi, 1, 1, v))
    BY <1>1, <1>3, UsesStart, Zenon
  <2> QED
    BY <1>2, <2>1, <2>2 DEF Owed
<1>8. Alive'
  <2>1. Results(bi)' = Results(bi)
    BY <1>2, SameFunction
  <2>2. \A i \in Results(bi) : ~Passed(bi, i)'
    BY <1>2, <1>3, <1>4 DEF Passed
  <2> QED
    BY <1>2, <2>1, <2>2, Zenon DEF Alive
<1> QED
  BY <1>2, <1>5, <1>6, <1>7, <1>8 DEF Going

LEMMA GoingOutside ==
  SpillInv /\ Going /\ WellFormed /\ (EmptyBlock \/ BlockEnd \/ FunctionEnd) => Going'
<1> SUFFICES ASSUME SpillInv, Going, WellFormed, EmptyBlock \/ BlockEnd \/ FunctionEnd
             PROVE  Going'
  OBVIOUS
<1>1. TypeOK /\ Unplaced
  BY DEF SpillInv, Going
<1>2. pc \in {"block", "result"} /\ pc' \in {"block", "done"} /\ UNCHANGED <<fn, offsets>>
  BY DEF EmptyBlock, BlockEnd, FunctionEnd, Goto
<1>3. bi' = bi + 1 \/ (bi' = bi /\ pc = "block")
  BY SMTT(30), SMTT(60) DEF EmptyBlock, BlockEnd, FunctionEnd, Goto
<1>4. \A b \in DOMAIN fn.blocks : b \in Nat
  BY <1>1 DEF TypeOK, IsFunction
<1>5. \A b \in DOMAIN fn.blocks : \A i \in Results(b) : Passed(b, i) => Passed(b, i)'
  <2>1. bi \in Nat
    BY <1>1 DEF TypeOK
  <2> QED
    BY <1>2, <1>3, <1>4, <2>1 DEF Passed, InBlock
<1>6. Unplaced'
  BY <1>1, <1>2, <1>5, UnplacedKept
<1> QED
  BY <1>2, <1>6 DEF Going, InBlock

(* No block has an unsupported size or lacks its terminator.               *)
LEMMA NeverRefused == SpillInv /\ WellFormed => ~UnsupportedBlock /\ ~OpenBlock
<1> SUFFICES ASSUME SpillInv, WellFormed, bi <= Len(fn.blocks)
             PROVE  Supported(bi) /\ fn.blocks[bi].closed
  BY DEF UnsupportedBlock, OpenBlock
<1>1. bi \in DOMAIN fn.blocks
  BY DEF SpillInv, TypeOK, IsFunction
<1> QED
  BY <1>1, Zenon DEF WellFormed

LEMMA GoingStutter == Going /\ UNCHANGED vars => Going'
<1> SUFFICES ASSUME Going, UNCHANGED vars PROVE Going'
  OBVIOUS
<1>1. UNCHANGED <<fn, pc, bi, ii, ui, remaining, active, occupied, total, offsets>>
  BY DEF vars
<1>2. Ins(bi)' = Ins(bi) /\ Results(bi)' = Results(bi)
  BY <1>1, SameFunction
<1>3. \A b, i : Passed(b, i)' <=> Passed(b, i)
  BY <1>1, Zenon DEF Passed, InBlock
<1>4. Unplaced'
  BY <1>1, <1>3, UnplacedKept DEF Going
<1>5. /\ TotalUnits(bi)' = TotalUnits(bi)
      /\ \A k : UnitsBefore(bi, k)' = UnitsBefore(bi, k)
      /\ \A i, j, v : UsesFrom(bi, i, j, v)' = UsesFrom(bi, i, j, v)
  BY <1>1, SameCounts, Zenon
<1>6. Room => Room'
  BY <1>1, <1>5, Zenon DEF Room
<1>7. Owed => Owed'
  BY <1>1, <1>5, Zenon DEF Owed
<1>8. Alive => Alive'
  BY <1>1, <1>2, <1>3, Zenon DEF Alive
<1> QED
  BY <1>1, <1>4, <1>6, <1>7, <1>8, Zenon DEF Going, InBlock

LEMMA WellStarts == Init => WellInv
<1> SUFFICES ASSUME Init PROVE Going
  BY DEF WellInv
<1>1. \A b \in DOMAIN fn.blocks : \A i \in Results(b) : offsets[Ins(b)[i].res] = None
  <2> SUFFICES ASSUME NEW b \in DOMAIN fn.blocks, NEW i \in Results(b)
               PROVE  offsets[Ins(b)[i].res] = None
    OBVIOUS
  <2>1. IsFunction(fn)
    BY SpillConstants DEF Init
  <2>2. Ins(b)[i].res \in Value
    BY <2>1, InsIs DEF Results
  <2> QED
    BY <2>2, SMTT(30), SMTT(60) DEF Init
<1> QED
  BY <1>1 DEF Init, Going, Unplaced, InBlock

LEMMA WellKept == SpillInv /\ WellInv /\ [Next]_vars => WellInv'
<1>1. SpillInv /\ [Next]_vars => fn' = fn
  BY Zenon DEF Next, Step, vars, UnsupportedBlock, EmptyBlock, OpenBlock, BlockBegin, NoResult, Place,
         PlaceFails, Consume, ConsumeFails, RetireUnused, RetireFails, NextInstruction, BlockEnd,
         FunctionEnd, Fail
<1> SUFFICES ASSUME SpillInv, Going, WellFormed, [Next]_vars PROVE Going'
  BY <1>1, SameCounts, Zenon DEF WellInv
<1> QED
  BY GoingNoResult, GoingPlace, NeverPlaceFails, NeverConsumeFails, GoingConsume, NeverRetireFails,
     GoingRetire, GoingBlockBegin, GoingOutside, NeverRefused, GoingStutter, ZenonT(30), ZenonT(60) DEF Next, Step

(* The layout of core_spill_layout.c cannot fail on a function in SSA form *)
(* with closed blocks and supported sizes: the sum of the sizes in a block *)
(* is room enough for first fit however the slots are fragmented, no use   *)
(* finds its operand without a slot, and no release finds a unit free.     *)
THEOREM WellFormedFunctionsHaveALayout == Spec => []WellFormedNeverFails
<1>1. Init => WellInv
  BY WellStarts
<1>2. SpillInv /\ WellInv /\ [Next]_vars => WellInv'
  BY WellKept
<1>3. WellInv => WellFormedNeverFails
  BY DEF WellInv, Going, WellFormedNeverFails
<1> QED
  BY <1>1, <1>2, <1>3, SpillInvariant, PTL DEF Spec
=============================================================================

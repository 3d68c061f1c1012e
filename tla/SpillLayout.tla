----------------------------- MODULE SpillLayout -----------------------------
(***************************************************************************)
(* minic_core_function_reused_spill_layout                                 *)
(* (src/target/common/core_spill_layout.c): the stack slots of the SSA     *)
(* values of a function.  Slots are taken first fit, a unit at a time, and *)
(* are free again after the last use of their value in the block.          *)
(*                                                                         *)
(* An instruction has a result or NoValue, and the operands that the       *)
(* visitor of its uses reports, in its order.  The terminator is the last  *)
(* instruction of a closed block.  Offsets count units of 4 or 8 bytes     *)
(* from value_base_offset.                                                 *)
(***************************************************************************)
EXTENDS Integers, Sequences, FiniteSets

CONSTANTS
  Value, NoValue,
  MaxOperands,  \* the most operands an instruction has
  Functions     \* the functions that Init chooses from

Instruction == [res : Value \cup {NoValue}, uses : Seq(Value)]

Block == [ins : Seq(Instruction), closed : BOOLEAN]

(* Units of a value: 1, 2, or 0 for a size the layout does not support.    *)
IsFunction(f) ==
  /\ f.units \in [Value -> 0 .. 2]
  /\ f.blocks \in Seq(Block)
  /\ \A b \in DOMAIN f.blocks : \A i \in DOMAIN f.blocks[b].ins :
       Len(f.blocks[b].ins[i].uses) <= MaxOperands

ASSUME SpillConstants ==
  /\ MaxOperands \in Nat
  /\ NoValue \notin Value
  /\ \A f \in Functions : IsFunction(f)

VARIABLES
  fn,         \* the function
  pc,
  bi, ii, ui, \* block_index, instruction_index, and the use being visited
  remaining,  \* remaining_uses[]
  active,     \* active_units[]: the first unit, or -1
  occupied,   \* the units of occupied_units[] that are set
  total, peak, maximum,
  offsets     \* value_offsets[], or -1

vars == <<fn, pc, bi, ii, ui, remaining, active, occupied, total, peak, maximum, offsets>>
scratch == <<remaining, active, occupied, total, peak>>

None == -1

Init ==
  /\ fn \in Functions
  /\ pc = "block" /\ bi = 1 /\ ii = 1 /\ ui = 1
  /\ remaining = [v \in Value |-> 0]
  /\ active = [v \in Value |-> None] /\ occupied = {}
  /\ total = 0 /\ peak = 0 /\ maximum = 0
  /\ offsets = [v \in Value |-> None]

Goto(from, to) == pc = from /\ pc' = to

Fail(from) == Goto(from, "failed") /\ UNCHANGED <<fn, bi, ii, ui, scratch, maximum, offsets>>

-----------------------------------------------------------------------------

Ins(b) == fn.blocks[b].ins

Results(b) == {i \in DOMAIN Ins(b) : Ins(b)[i].res # NoValue}

(* Mutant: a pair counts as one unit.                                      *)
TotalUnitsOfPairs(b) == Cardinality(Results(b))

(* total_units: one for every unit of every result of the block.           *)
TotalUnits(b) == Cardinality({p \in Results(b) \X {1, 2} : p[2] <= fn.units[Ins(b)[p[1]].res]})

(* core_spill_count_use over the block.                                    *)
UseCount(b, v) ==
  Cardinality({p \in (DOMAIN Ins(b)) \X (1 .. MaxOperands) :
                 p[2] <= Len(Ins(b)[p[1]].uses) /\ Ins(b)[p[1]].uses[p[2]] = v})

Supported(b) == \A i \in Results(b) : fn.units[Ins(b)[i].res] # 0

UnsupportedBlock ==
  /\ bi <= Len(fn.blocks) /\ ~Supported(bi)
  /\ Fail("block")

(* A block without results needs no slots and is not looked at further.    *)
EmptyBlock ==
  /\ bi <= Len(fn.blocks) /\ Results(bi) = {}
  /\ Goto("block", "block")
  /\ bi' = bi + 1
  /\ UNCHANGED <<fn, ii, ui, scratch, maximum, offsets>>

OpenBlock ==
  /\ bi <= Len(fn.blocks) /\ Supported(bi) /\ Results(bi) # {} /\ ~fn.blocks[bi].closed
  /\ Fail("block")

BlockBegin ==
  /\ bi <= Len(fn.blocks) /\ Supported(bi) /\ Results(bi) # {} /\ fn.blocks[bi].closed
  /\ Goto("block", "result")
  /\ ii' = 1 /\ ui' = 1
  /\ remaining' = [v \in Value |-> UseCount(bi, v)]
  /\ active' = [v \in Value |-> None] /\ occupied' = {}
  /\ total' = TotalUnits(bi) /\ peak' = 0
  /\ UNCHANGED <<fn, bi, maximum, offsets>>

Current == Ins(bi)[ii]

Units(v, start) == start .. start + fn.units[v] - 1

(* core_spill_find_units: the first run of free units that is long enough. *)
FreeRun(v, start) == Units(v, start) \subseteq (0 .. total - 1) \ occupied

FirstFit(v, start) ==
  /\ FreeRun(v, start)
  /\ \A s \in 0 .. start - 1 : ~FreeRun(v, s)

Fits(v) == \E start \in 0 .. total : FreeRun(v, start)

NoResult ==
  /\ pc = "result" /\ ii <= Len(Ins(bi)) /\ Current.res = NoValue
  /\ pc' = "use" /\ ui' = 1
  /\ UNCHANGED <<fn, bi, ii, scratch, maximum, offsets>>

(* Mutants: the offset is start * slot_size; the peak leaves out the slot  *)
(* itself.                                                                 *)
PlaceScaled ==
  /\ pc = "result" /\ ii <= Len(Ins(bi)) /\ Current.res # NoValue
  /\ pc' = "use" /\ ui' = 1
  /\ LET v == Current.res
     IN  /\ active[v] = None /\ offsets[v] = None
         /\ \E start \in 0 .. total :
              /\ FirstFit(v, start)
              /\ occupied' = occupied \cup Units(v, start)
              /\ active' = [active EXCEPT ![v] = start]
              /\ offsets' = [offsets EXCEPT ![v] = start * fn.units[v]]
              /\ peak' = IF start + fn.units[v] > peak THEN start + fn.units[v] ELSE peak
  /\ UNCHANGED <<fn, bi, ii, remaining, total, maximum>>

PlacePeakAtStart ==
  /\ pc = "result" /\ ii <= Len(Ins(bi)) /\ Current.res # NoValue
  /\ pc' = "use" /\ ui' = 1
  /\ LET v == Current.res
     IN  /\ active[v] = None /\ offsets[v] = None
         /\ \E start \in 0 .. total :
              /\ FirstFit(v, start)
              /\ occupied' = occupied \cup Units(v, start)
              /\ active' = [active EXCEPT ![v] = start]
              /\ offsets' = [offsets EXCEPT ![v] = start]
              /\ peak' = IF start > peak THEN start ELSE peak
  /\ UNCHANGED <<fn, bi, ii, remaining, total, maximum>>

(* The result gets its slot before the operands lose theirs.               *)
Place ==
  /\ pc = "result" /\ ii <= Len(Ins(bi)) /\ Current.res # NoValue
  /\ pc' = "use" /\ ui' = 1
  /\ LET v == Current.res
     IN  /\ active[v] = None /\ offsets[v] = None
         /\ \E start \in 0 .. total :
              /\ FirstFit(v, start)
              /\ occupied' = occupied \cup Units(v, start)
              /\ active' = [active EXCEPT ![v] = start]
              /\ offsets' = [offsets EXCEPT ![v] = start]
              /\ peak' = IF start + fn.units[v] > peak THEN start + fn.units[v] ELSE peak
  /\ UNCHANGED <<fn, bi, ii, remaining, total, maximum>>

CanPlace == active[Current.res] = None /\ offsets[Current.res] = None /\ Fits(Current.res)

PlaceFails ==
  /\ pc = "result" /\ ii <= Len(Ins(bi)) /\ Current.res # NoValue /\ ~CanPlace
  /\ Fail("result")

(* Mutant: one unit is released.                                           *)
ReleasedFirst(v) == occupied \ {active[v]}

Released(v) == occupied \ Units(v, active[v])

Operand == Current.uses[ui]

(* core_spill_consume_use.                                                 *)
CanConsume ==
  /\ remaining[Operand] # 0 /\ active[Operand] # None
  /\ remaining[Operand] = 1 => Units(Operand, active[Operand]) \subseteq occupied

Consume ==
  /\ pc = "use" /\ ui <= Len(Current.uses) /\ CanConsume
  /\ pc' = pc /\ ui' = ui + 1
  /\ remaining' = [remaining EXCEPT ![Operand] = @ - 1]
  /\ IF remaining[Operand] = 1
     THEN occupied' = Released(Operand) /\ active' = [active EXCEPT ![Operand] = None]
     ELSE UNCHANGED <<occupied, active>>
  /\ UNCHANGED <<fn, bi, ii, total, peak, maximum, offsets>>

ConsumeFails ==
  /\ pc = "use" /\ ui <= Len(Current.uses) /\ ~CanConsume
  /\ Fail("use")

Unused == Current.res # NoValue /\ remaining[Current.res] = 0

CanRetire == active[Current.res] # None /\ Units(Current.res, active[Current.res]) \subseteq occupied

(* A result that nothing in the block uses loses its slot at once.         *)
RetireUnused ==
  /\ pc = "use" /\ ui > Len(Current.uses) /\ Unused /\ CanRetire
  /\ pc' = "result" /\ ii' = ii + 1
  /\ occupied' = Released(Current.res)
  /\ active' = [active EXCEPT ![Current.res] = None]
  /\ UNCHANGED <<fn, bi, ui, remaining, total, peak, maximum, offsets>>

RetireFails ==
  /\ pc = "use" /\ ui > Len(Current.uses) /\ Unused /\ ~CanRetire
  /\ Fail("use")

(* Mutant: instruction_index does not move.                                *)
NextInstructionStays ==
  /\ pc = "use" /\ ui > Len(Current.uses) /\ ~Unused
  /\ pc' = "result"
  /\ UNCHANGED <<fn, bi, ii, ui, scratch, maximum, offsets>>

NextInstruction ==
  /\ pc = "use" /\ ui > Len(Current.uses) /\ ~Unused
  /\ pc' = "result" /\ ii' = ii + 1
  /\ UNCHANGED <<fn, bi, ui, scratch, maximum, offsets>>

BlockEnd ==
  /\ pc = "result" /\ ii > Len(Ins(bi))
  /\ pc' = "block" /\ bi' = bi + 1
  /\ maximum' = IF peak > maximum THEN peak ELSE maximum
  /\ UNCHANGED <<fn, ii, ui, scratch, offsets>>

FunctionEnd ==
  /\ bi > Len(fn.blocks)
  /\ Goto("block", "done")
  /\ UNCHANGED <<fn, bi, ii, ui, scratch, maximum, offsets>>

Step ==
  \/ UnsupportedBlock \/ EmptyBlock \/ OpenBlock \/ BlockBegin
  \/ NoResult \/ Place \/ PlaceFails
  \/ Consume \/ ConsumeFails \/ RetireUnused \/ RetireFails \/ NextInstruction
  \/ BlockEnd \/ FunctionEnd

Next ==
  \/ Step
  \/ pc \in {"done", "failed"} /\ UNCHANGED vars

Spec == Init /\ [][Next]_vars /\ WF_vars(Step)

-----------------------------------------------------------------------------
(* Properties.                                                             *)

TypeOK ==
  /\ IsFunction(fn)
  /\ pc \in {"block", "result", "use", "done", "failed"}
  /\ bi \in 1 .. Len(fn.blocks) + 1 /\ ii \in Nat \ {0} /\ ui \in Nat \ {0}
  /\ pc \in {"result", "use"} => bi <= Len(fn.blocks) /\ ii <= Len(Ins(bi)) + 1
  /\ pc = "use" => ii <= Len(Ins(bi))
  /\ pc = "done" => bi = Len(fn.blocks) + 1
  /\ remaining \in [Value -> Nat]
  /\ active \in [Value -> Nat \cup {None}] /\ offsets \in [Value -> Nat \cup {None}]
  /\ total \in Nat /\ peak \in Nat /\ maximum \in Nat
  /\ occupied \subseteq 0 .. total - 1

(* At every moment the values that have a slot have different ones, and    *)
(* they occupy exactly the units that are marked.                          *)
SlotsAreDisjoint ==
  /\ occupied = UNION {Units(v, active[v]) : v \in {x \in Value : active[x] # None}}
  /\ \A v, w \in Value :
       v # w /\ active[v] # None /\ active[w] # None =>
         Units(v, active[v]) \cap Units(w, active[w]) = {}

(* Value v is needed from its instruction d to its last use in block b.    *)
Defines(b, d, v) == d \in DOMAIN Ins(b) /\ Ins(b)[d].res = v

UsedAt(b, i, v) == i \in DOMAIN Ins(b) /\ \E j \in DOMAIN Ins(b)[i].uses : Ins(b)[i].uses[j] = v

LiveAt(b, i, v) ==
  \E d \in 1 .. i : Defines(b, d, v) /\ (d = i \/ \E u \in i .. Len(Ins(b)) : UsedAt(b, u, v))

(* The offsets handed to the backend never put two values that are needed  *)
(* at one instruction on the same bytes: a result is not written over an   *)
(* operand of its own instruction or over a value used later.              *)
LiveValuesDoNotOverlap ==
  pc = "done" =>
    \A b \in DOMAIN fn.blocks : \A i \in DOMAIN Ins(b) : \A v, w \in Value :
      v # w /\ LiveAt(b, i, v) /\ LiveAt(b, i, w) =>
        Units(v, offsets[v]) \cap Units(w, offsets[w]) = {}

(* Every slot lies in the frame area that peak_bytes reserves.             *)
FrameHoldsEverySlot ==
  pc = "done" => \A v \in Value : offsets[v] # None => offsets[v] + fn.units[v] <= maximum

(* A function in SSA form: values are defined once, used after their       *)
(* definition in the same block, and blocks have terminators.              *)
WellFormed ==
  /\ \A b \in DOMAIN fn.blocks : Supported(b) /\ fn.blocks[b].closed
  /\ \A b, c \in DOMAIN fn.blocks : \A i \in Results(b), j \in Results(c) :
       Ins(b)[i].res = Ins(c)[j].res => b = c /\ i = j
  /\ \A b \in DOMAIN fn.blocks : \A i \in DOMAIN Ins(b) : \A v \in Value :
       UsedAt(b, i, v) => \E d \in 1 .. i - 1 : Defines(b, d, v)

(* Such a function always gets a layout: total_units is room enough for    *)
(* first fit in spite of fragmentation, and no release finds a unit free.  *)
WellFormedNeverFails == WellFormed => pc # "failed"

(* Every layout comes to an end.                                           *)
LayoutEnds == <>(pc \in {"done", "failed"})
=============================================================================

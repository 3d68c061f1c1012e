# A TLA+ model of the MiniC toolchain

MiniC is a C toolchain: a driver (`minic`) that runs a preprocessor
(`minic-cpp`), a compiler (`minic-cc`), an assembler (`minic-as`) and a linker
(`minic-ld`), with an archiver and a few object tools beside them.  This
directory models the parts of it whose correctness depends on the order of many
small steps, checks the models with TLC on small instances, and proves the most
important properties with TLAPS for instances of every size.  Around the
toolchain the repository keeps hundreds of Python scripts that rewrite its
sources, and the machinery that finds out which object of a Linux kernel makes
it fail when MiniC compiles it; they are modelled too.

All line numbers are those of the repository; `PROJECT.json` maps every
definition to its lines.

## The system

| Part | State | Operations | What is hard about it |
| --- | --- | --- | --- |
| driver, `tools/minic/main.c` | temporaries in `/tmp`, lists of objects, `status` | compile each unit in three forked stages, link, clean up | any stage or temporary may fail; several drivers share `/tmp`; the exit status is one variable set in many places |
| linker inputs, `linker/src/linker_core.inc` | global symbol table, objects merged, `selected[]` of a search | read an object, a shared object, an archive, a whole archive, a group | nested loops that run until nothing changes; strong, weak and undefined symbols in any order |
| `--gc-sections`, `linker/src/linker.c` | sections, symbols and relocations that refer to each other by index; `live[]`, queue | merge, cut, restore the order, mark, sweep, group, sort | indices that become stale at each step; empty sections and labels at ends of sections |
| linker layout and relaxation, `linker_core.inc` | addresses, GOT, deleted bytes | lay out, relax `R_RISCV_ALIGN`, apply relocations | offsets moved in several passes |
| spill slots, `src/target/common/core_spill_layout.c` | use counts, slots in use, offsets, peak | place a result, consume a use, retire an unused result, per block | a slot reused one step too early corrupts a value; fragmentation |
| slots of objects, `core_object_intervals.c`, `core_object_reuse.c` | intervals, colours | analyse, colour | intervals of one block used across blocks |
| output of `minic-cc`, `program_emit.h`; `minic-ar`, `minic-strip` | the file and its temporary | stage, finalise, rename, remove | a failure or a second run between two steps |
| preprocessor, `preprocessor/src/preprocessor.c` | macros, conditionals, include stack, pending text | directives, expansion, flush | text waits for the next line while directives run |
| assembler, `assembler/src/assembler.c` | sections, subsections, fixups, branches forced long | rounds of layout until no branch grows | does it end; values of one round used in the next |
| patch scripts, `tools/ci/apply-*.py`, `tools/dev/patch-*.py` and others | the source files, the texts a run holds | read, look for a text, refuse, replace, write back | a run can refuse or be killed half-way and is run again; whether an edit has been made is concluded from other texts |
| cohort bisection, `tools/ci/linux-runtime-gcc-cohort-bisect-v1.sh` with its guard, audit and planner | the build tree, the generated headers, the Image, the evidence so far | restore, overlay, link, reconcile, repair, boot, search | `make` compiles objects again behind the script's back; a trial can inherit what the one before left |
| frontend, Core IR, instruction selection | the program | translation | size, not order of steps |

The parts interact through files (driver and tools), through the list of inputs
that `process_input_sequence` leaves to the garbage collecting link (LinkResolve
and LinkGc), and through the state that the collecting link hands to the marking
(LinkGc extends GcMark and takes its steps).  In the bisection the script, the
regeneration guard and the route audit interact through the build tree that
`make` changes too (CohortBisect extends RegenGuard and PrefixPlan).

## Modules

| Module | Models | Instance | Theorems |
| --- | --- | --- | --- |
| `Driver` | `main`, `compile_c_to_object`, `compile_c_to_assembly`, `run_tool`, `make_temp_path` | `MCDriver` | `DriverProofs` |
| `LinkResolve` | `process_input_sequence` and below, `add_or_merge_global_symbol`, the check of undefined symbols | `MCLinkResolve` | `LinkResolveProofs` |
| `GcMark` | `minild_gc_prune_static`, `minild_gc_mark_section` | `MCLinkGc`, as part of `LinkGc` | with `LinkGc` |
| `LinkGc` | `minild_link_static_with_gc_v0` up to the layout; extends `GcMark` | `MCLinkGc` | `LinkGcLemmas`, `LinkGcProofs` |
| `SpillLayout` | `minic_core_function_reused_spill_layout` | `MCSpillLayout` | `SpillProofs` |
| `EmitFile` | `minic_program_emit_write`, the visitors of `program_visit.h`, the finalisers | `MCEmitFile` | `EmitFileProofs` |
| `AtomicFile` | nothing of the code: what `EmitFile` is shown to implement | | |
| `PatchRun` | the runs of a patch script | `MCPatch` | `PatchRunProofs` |
| `PatchSteps` | the idioms of the scripts: `replace_once` and its variants | | |
| `PatchInline`, `PatchMilestone`, `PatchPerf`, `PatchConstants`, `PatchFrontier`, `PatchMaterialize`, `PatchPr75`, `PatchPr77` | 286 scripts, one definition each | | |
| `PatchCatalogue` | all of them together, and which of them promise what | | |
| `RegenGuard` | the decisions of `linux-runtime-kbuild-regeneration-guard-v1.py` and of `linux-runtime-minic-route-audit-v1.py` | | |
| `PrefixPlan` | `plan` of `linux-runtime-prefix-bisect-v1.py` | | |
| `CohortBisect` | `trial` and the sequence of trials; extends the two | `MCCohort` | `CohortProofs` |

In each of them `Init` chooses a job (a command line, a set of inputs, a graph,
a function) from a constant set, so one run covers all jobs of that set; the
theorems hold for every such set.

### Driver

A process is a driver; `pc` says which call it is in.  `tmp` is the content of
`/tmp`: who made a file, at which stage it is (`empty`, `.i`, `.s`, `.o`) and
from which unit.  `out` is the file at the `-o` path.  Each forked tool is one
step that reads its input and writes its output; `ToolFails` is the step in
which it does not, `MakeTemp` may fail to make a file, and a driver can be
killed anywhere.  The steps of different drivers interleave.  `-c`, `-S`, and
links of C sources and objects are modelled, with and without
`MINIC_KEEP_FAILED_TEMPS`.

### LinkResolve

An object is its table: what it says about each name (nothing, weak or strong
reference, weak or strong definition).  The table of the link keeps for each
name the entry and the object that defines it.  Actions are the iterations of
the loops: one input, one member looked at, one pass over an archive or a group.
`merged` is the list of objects in the order in which they were linked; it
records, beside `processed_object_count`, which objects these are.

When all inputs are read the linker defines symbols of its own
(`LinkerSymbols`).  A static link defines the boundaries of its image (`_end` and
its like), and the two bounds of an array (`__init_array_start` and
`__init_array_end`) when one of them is in the table or the array has a section;
in each case only names that no input defines, strongly or weakly.  A PIE or shared
object defines `_DYNAMIC` and `__ehdr_start`, and a definition of an input is a conflict, except
that of an absolute `__ehdr_start`, which is replaced.  Only then are the
references resolved, and a strong one that is left is an error.  Linker scripts
can define symbols too and are not modelled.  A member of a thin archive is a
file beside it and goes through `process_input`; it is taken to be an object.

### GcMark and LinkGc

Sections, symbols and relocations are sequences, and refer to each other by
index, as in `MiniLdState`.  `kept` is the set of relocations that are left
after the sweep, which in the code are moved to the front of the array.
`GcMark` takes one step per root, per section taken from the queue and per
relocation followed.  `LinkGc` builds the graph from input sections: it merges
those of one name, cuts them again at their section symbols, and renumbers.
`lo` and `hi` record which bytes of the merged section a section holds.  `qsort`
with a comparison that breaks ties, and the stable sorts of the renumberings, are
`Sorted`: the element at place i is the one with i - 1 before it.  Names
matter only in so far as `minild_gc_root_section` looks at them: a name is no
root, a root by itself (`.init`), or a root with every name that continues it
after a dot (`.init_array`).

### SpillLayout

A block is its instructions, each with a result or none and the operands in the
order in which the visitor reports them; the terminator is the last.  A value
takes one unit of 4 or 8 bytes, or two, or has a size that the layout refuses.
Each placement, use, and release is a step.

### EmitFile and AtomicFile

A writer is a run of `minic-cc`; all have the same output path.  The directory
`dir` maps names to files, and `text` gives the text of a file, so that a rename
moves a file and an open file stays what it is.  `mkstemp` makes a new file, so
a file is known by the writer that made it.  A text is the set of the pieces
written to it: one per callback (prefix, global, between, function, trailer),
`Torn` for a write that failed, `Legal` for what the AArch64 finaliser adds.
The order of the pieces is that of the stages and is not recorded.  `remove` of
a temporary succeeds.  A job is the `MinicProgramEmitConfig` of a target and a
program; the census is `continue_after_failure`.

`AtomicFile` has two variables: whose text the file holds, and what has become
of each writer.  The refinement mapping reads the first from `dir[Path]`, and
only if the text is the whole of what that writer had to write.

### PatchRun and the catalogue

A script is a record: `base`, the tree it is written for, and `steps`, its code.
Of a file's text a script only ever asks how often some piece of text occurs, so
a file is the number of occurrences of each piece of text (*literal*) that the
script looks for, and an edit is its anchor, the literals it removes and those
it brings.  These were read off the scripts: an edit `replace(old, new)` brings
a literal that is contained in `new` and not in `old`, and so on.  The steps are
`load` (`read_text`), `save` (`write_text`), `put` (`replace`), `create` (a file
written anew), `refuse` (`raise SystemExit` with a message, or an `assert`),
`stop` (an early `return` or `SystemExit(0)`) and `jump` (the `if` around a part
of the script).  `write_text` truncates the file and then writes it: a run that
is killed between the two leaves an empty file.

`disk[f].made` and `disk[f].again` record the edits that are in a file and those
that were made more than once; the script does not see them.  `drift` is what
the tree differs in from the one the script is for: one literal is missing, or
is there once more.

A test counts up to 2, which stands for two and more.  That is what the scripts
tell apart, with few exceptions: a script that refuses when a count is not
exactly 2 accepts three occurrences in the model.  No tree of the runs has more
than two of a text before the script is run.

What a script promises depends on how it is written, and `PatchCatalogue` says
for each script by name what it promises; the constants `Once`, `Whole` and
`Resumed` are these lists, and the properties are about them.  A script that is
changed stays on its list, so a slip in it is a violation.

- `Once`: no edit is made twice.  All scripts but 53 named ones: 45 make an edit
  again when they are run again, or run after a kill, and 8 only in a tree in
  which a text is missing or doubled.
- `Whole`: success means that all of the work is there.  All but 25: 17 accept
  what a killed run left, and 8 do not notice that an anchor is missing.
- `Resumed`: run again after a kill, on the tree it is for, the script does not
  refuse, and finishes.  83 scripts.  157 can refuse what an earlier run of theirs
  has done, which is what their authors want of a script that is to be run once;
  the others are not on the list because they make an edit twice or accept half
  of the work.

`PatchRunProofs` says *why* the scripts keep the promises, in terms of the shape
of their code: `Disciplined` (each edit is guarded by its own mark, by an anchor
that an edit uses up, or saved together with an edit that is; 228 scripts) and
`Careful` (a test that leaves work out looks for a mark that comes with all of it,
no `replace` can miss its anchor silently, every edit is followed by the
`write_text` that saves it with no way round it, and a file that is written anew
is not edited too; 251 scripts).  5 scripts of `Once` and 10 of `Whole` are safe
for reasons that the shapes do not see.  Many scripts differ only in their texts:
the 286 definitions are 182 different records.

### RegenGuard, PrefixPlan and CohortBisect

An object is its place in the list of objects.  Of its bytes what matters is
which compiler made it and which version of each generated header it read:
objects that agree in both are the same, and the hashes that the scripts compare
tell all others apart.  The golden headers are version 0, and both pools of
objects were made with them.  An Image is what it was linked from.

`make Image` is external and does what the scripts guard against: it may write
any header anew, compiles the objects that read a header that has changed, and
may find a reason to compile others; it can fail at any point of this.  The
wrapper that compiles an object again for the guard calls MiniC and records it,
or calls GCC and does not.  A boot ends in any verdict.

`utsversion.h` is not one of the headers: the guard skips it (`EXCLUDE_HEADERS`),
and only `init/version-timestamp.o` reads it, which the list of objects leaves
out (`linux-runtime-gcc-full-c-objects-v1.py:20`).

The actions are the commands of `trial`, each with the outcome in which the
script goes on and the one in which it stops, and the branches of the sequence
of trials.  `ran` records which Images were tried and how that ended; it is
history and the script does not read it.  A link that fails after the headers
were reconciled may fail in a tree in which `make` has already replaced selected
objects, so a `LINK_FAIL` is evidence about a part of the selection
(`Failed`).

## Runs

| Run | States | What it shows |
| --- | --- | --- |
| `driver_one` | 21 500 | One driver, every command line of up to two inputs, four names for temporaries. A driver that exits leaves no temporary behind (after a failure with `MINIC_KEEP_FAILED_TEMPS` at most the two of the unit that failed); with at most one C source, exit 0 means that the output is there; every driver that is not killed exits. |
| `driver_two` | 243 000 | Two drivers linking, four names, so that they compete for names. No stage reads what another driver, another unit or an unfinished stage wrote; an output that looks finished is; a failure of a tool reaches the exit status; only its creator changes or unlinks a temporary. |
| `driver_lost` | violation | Finding 1 below. |
| `link` | 440 000 | A program and a group of two archives, three names, members that define one name and need another: every way of needing each other; eight shapes of command line with four kinds of link; and objects that define, or need, the names that the linker defines itself. The searches end, take no member twice and leave none that would resolve a symbol; which definition wins does not depend on the order, and no strong reference of a static link is left without a definition, by an input or by the linker. |
| `gc_link` | 273 000 | Three input sections and two relocations; four input sections, some of them empty; sizes 0, 1 and 3, missing section symbols, sections outside the image. An input section stays exactly when it is needed, if the symbols that are referred to lie inside their sections; the order of the inputs is kept in each output class; symbols and relocations stay at their bytes. The marking inside it ends, never overflows its queue, and keeps exactly what is reachable. |
| `gc_init`, `gc_end_label` | violation | Findings 2 and 3 below. |
| `spill` | 427 000 | One block in SSA form with four or five results of one or two units, uses of up to two operands: every such function gets a layout, and it is right. Two blocks that need not be in SSA form: values defined twice, used too early or in another block, of an unsupported size, a block without terminator: all error paths, the bookkeeping, termination. |
| `emit_file` | 472 000 | Two compilers, one output, the configurations of the five targets, two names for temporaries. The output is replaced atomically (`AtomicFile` is implemented), is not written while it has its name, and no temporary is left by a compiler that returns; the census visits everything; each compiler returns unless it is killed. |
| `patch_catalogue` | 282 000 | The 286 scripts, each on the tree it is for and on every tree in which one literal is missing or doubled, run twice, killed anywhere (inside `write_text` too). The scripts of `Once` never make an edit twice; those of `Whole` report success only when all of the patch is there; those of `Resumed` never refuse their own work and, run again until they are not killed, finish it. |
| `patch_partial` | violation | Finding 4 below. |
| `cohort` | 640 000 | Three objects, three generated headers of which two may change, two new versions of each. What is booted is what is selected and fits together; what is reported was observed; the search asks for the prefixes that the planner asks for; the script ends. |

Why the bounds are enough: a second input is what separates one unit from the
next, and a third adds only repetitions of the loop in `main`.  The searches of
archives need one archive that adds a reference after another one has been
searched, and a member of the first that satisfies it: two archives, two
members, three names.  Stale indices need a section that is cut next to one that
is not, on either side: three input sections.  Fragmentation needs two free
units that are apart when a pair is placed, and a third result that separates
them: four results.  A compiler that is killed leaves a temporary, and the
next one has to find another name: two writers, two names, and with both names
taken `mkstemp` fails.  A patch script goes wrong when a second run meets what a
first one left: two runs; that no number of runs makes a disciplined script edit
twice is proved.
The bisection needs a prefix between the two ends and a middle that rounding
decides: three objects.  Two of them depend on each header that may change, so
that one changed header concerns as many objects as may be compiled again (2
here, 16 in the code) and two concern more; with two new versions of a header the
second link can move what the first one moved.

Every property has a mutant of the model, listed in `PROJECT.json`, which
changes one definition the way a slip in the code would and which TLC finds to
violate the property.

### Fairness

`Driver` assumes weak fairness of every driver's next step: the operating system
schedules the process, and each tool that it waits for ends (with success or
not).  `LinkResolve`, `LinkGc` and `SpillLayout` are sequential functions; weak
fairness of their only next step says that the processor goes on; in `LinkGc` it
is that of the marking.  `EmitFile` assumes weak fairness of each compiler that
is not killed.  `PatchRun` assumes weak fairness of the steps of a run, and of
nothing else: nobody has to run a script again.  `CohortBisect` assumes weak fairness of the next command: the
links and QEMU run under timeouts of the harness and of the job.
No property assumes that anything succeeds.

## Findings

1. `driver_lost` (`tools/minic/main.c:815`).  When the temporary of a second C
   source cannot be made, `main` jumps to `done` with the `status` 0 that the
   first unit left.  The driver exits 0 and there is no output.
2. `gc_init` (`linker/src/linker.c:812`).  The pieces of a section that is cut
   are renamed (`.init` becomes `.init.__minild_gc_3_0`), and
   `minild_gc_root_section` compares with `.init` and `.fini` exactly.  When two
   objects contribute to `.init`, as crti and crtn do, the parts that nothing
   refers to are discarded.  `.init_array` and its relatives are not affected:
   they are compared by prefix.
3. `gc_end_label` (`linker/src/linker.c:290`).  A symbol at the end of an input
   section has the same offset in the merged section as the start of the next
   one, and is moved there.
4. `patch_partial` (`tools/ci/apply-local-integer-constants-v0.py:20`).  The
   script says "Fail closed if the existing source contains only a partial
   migration."  It recognises its work by a marker and six required texts, and
   the text that its last edit brings is not among them: a run that is killed
   before that edit leaves a tree that the next run calls `ALREADY_CANONICAL`.

`CollectsByInputSection` states what the collection does promise: it excludes
the two cases of findings 2 and 3.  For the second it supposes that every symbol
that the entry or a relocation refers to lies at a byte of its input section; a
label at the end of one, or in an empty one, is moved to whatever comes next, and
keeps that alive instead.

## Proofs

`tlapm` checks eight modules.  None of the theorems bounds anything: they hold
for every set of drivers, temporaries and jobs; every graph; every function;
every script and number of runs; every list of objects and headers; every set of
files, archives and names; every number of input sections, symbols and
relocations.

**DriverProofs.**  `StageInputs` is not inductive.  The invariant adds that the
temporaries a driver holds (its `.i`, its `.s`, its objects) exist, were made by
it and are pairwise different; that the objects of the units before the current
one are finished and in `linkIn` at their places; and that what a stage has
written is recorded where the next one looks.  From it follow `TypeOK`,
`StageInputs` and `OutputIsWhole`.  How a driver ends takes more.  `Failing`: a
driver one of whose tools has failed has status 1 and only clean-up before it,
which gives `ToolFailureReported`.  `Success` says at each statement what a
status of 0 stands for; in a link it is the status of the *last* unit, and so
says nothing once there are two C sources (finding 1), which is why
`OneUnitSuccessMeansOutput` is about one.  `Kinds` and `Kept`: a file of the
driver that none of its variables names any more is there only after a failure,
on request, and is a `.i` or a `.s`; there are at most two.  At exit no variable
names a file, and `NoLeak` follows.  `OwnChange` describes what a step does to
each file of `/tmp` and gives the action property `OnlyCreatorTouches`.  `NoLeak`
and `OneUnitSuccessMeansOutput` say "at most two" and "at most one" without
cardinalities, which the prover would need finiteness for.

**LinkResolveProofs.**  The invariant `LinkInv` has a part for each loop.
`Places` says where the loops stand in the list of inputs.  `Resolved` says what
the entry of each name owes to the objects linked so far: a strong definition is
the only one, a weak definition is the first and there is no strong one, a
reference is there because an object has it, and once the inputs are read (`Late`) an
entry can also be the linker's own (`MadeByLinker`).  `Searching` says that what a search
has selected is linked, and that a pass that has selected nothing so far has gone
by members that are not needed.  `GroupSearched` says the same of the archives of
a group while a pass over it has added nothing.  From it follow `TypeOK`,
`StrongestWins`, `NoDanglingReference` and two action properties: a search takes
only members that are needed and new (`SearchTakesNewMembers`), and leaves none
that is needed when it ends (`SearchesAreExhaustive`).  Nothing in it depends on
what the archives need of each other.

**LinkGcLemmas, LinkGcProofs.**  `LinkInv` describes the state of the linker from
the first input section to the layout.

- Reading (`InputsOK`, `MergedOK`, `MergedSymbols`): the input sections of one
  name lie in the order of the inputs and do not overlap, in the one section of
  that name, and symbols and relocations have the offsets that follow.
- Cutting (`Pieces`): every input section that is not empty is inside exactly one
  section.  A marker is the start of an input section, and input sections do not
  overlap, so no marker is inside one.  Everything below is said in terms of
  `Holds(s, i)`, that section s holds input section i, which survives the three
  renumberings because `lo`, `hi` and the name move with the section.
- `SymbolsOK`, `RelocsOK`, `KeptOK`: a symbol inside an input section is in the
  section that holds it, at its byte, or that section has been emptied; the same
  of relocations, and those left are the ones of the sections that were kept.
  These give `SymbolsFollowTheirBytes` and `RelocationsFollowTheirBytes`.
- `Apart`, `FirstMarks`, `InOrder`: when every input section has its symbol, a
  section of the image holds one input section only; the symbol that gives it
  its place is that of the input section itself or of an empty one before it at
  the same byte; and what the sorts so far do not tell apart is in the order of
  the inputs.  The last gives `InputOrderIsKept`; that it survives the two later
  sorts is the stability of `Reorder`.
- `PruneInv`, the invariant of the worklist: `live` is the set of the elements of
  the queue, and these are pairwise different; all of them are reachable; the
  roots up to `ri` are live; and for every section before the head of the queue
  the targets of its relocations are live, except those still in `todo`.  Since
  the elements of the queue are different sections, its length is strictly less
  than the number of sections when one is marked (`NeverFull`): the overflow
  diagnostics cannot be reached.  At the end `live` is closed, so it contains
  `Reachable`, and it is contained in it.
- `Collected`: what is reachable in the graph of sections is what the input
  sections need of each other (`ReachableIsNeeded`, by taking each closed set of
  one to a closed set of the other).  This gives `CollectsByInputSection`.

That `Sorted` returns every element once and in order follows from the
cardinality theorems of the library (the number of predecessors is an injection
into 0 .. n - 1, and so a bijection) and takes no induction.  The theorems on
finite sets are needed in few places, and their presence slows every proof of a
module down; so the lemmas suppose what they need of finite sets (`Counting`),
and `LinkGcProofs` proves it.

**SpillProofs.**  `LiveValuesDoNotOverlap` speaks of the offsets at the end, when
the slots have been reused.  The invariant says of every instruction that has
been passed that the values live at it are apart, *or* the function is doomed: a
value that has lost its slot is still to be used, and the layout will fail
there.  The second case is needed because functions that are not in SSA form are
covered: their uses and definitions can be in any order, and it is `CanConsume`
that rejects them.  With it come `SlotsAreDisjoint`, that an active slot is the
one in `offsets`, and that every slot lies below `peak` or `maximum`.

That a function in SSA form never fails (`WellFormedNeverFails`) is a second
invariant on top of it, `WellInv`.  `Room`: the units in use lie below the number
of units of the results placed so far, so first fit, which in the worst case puts
a result behind all of them, stays below `total_units` in spite of fragmentation.
`Owed`: `remaining_uses` of a value is the number of its uses still to come.
`Alive`: a result that still has uses has its slot.  `Unplaced`: a result that is
still to come has no offset, so placing it is not refused as a second definition.
Uses and units are counted as cardinalities of sets of pairs, an instruction and
an operand or a unit, so that a step removes or adds one element and no sum has
to be taken apart.

**EmitFileProofs.**  That a rename publishes a whole text needs to know what each
stage has written: `Progress` says it stage by stage, for a writer whose `ok`
is still true.  That the rename moves the writer's own file needs
`TempsHaveOwners` and its converse `OwnsTemp`.  That other writers' steps do not
disturb the output needs `OutputIsWhole`: the file that has the name is that of
a writer that has returned.  Each step is shown to keep the directory, to make a
name, to rename or to remove (`StepDir`), and these are `Publish`, `GiveUp` or
nothing in `AtomicFile`.  `Scanned` says that a census leaves the loop over the
functions by its end only, which gives `CensusScansAll`.

**PatchRunProofs.**  A disciplined script never makes an edit twice
(`GuardedIsOnce`), whatever script it is, not only one of the catalogue; for the
scripts of `Once` that have the shape this is `NeverTwice` for any number of runs.
First each step is described by what it does to one file (`Effects`: nothing, read, replace, compose, truncate, write),
and it is shown that a run is between two steps j and i only if it has come
through j (`Enter`) and was not barred there (`Barred`).  Then each of the three
guards has an invariant.  *Marked*: where the edit has been made, the mark is
there; no edit removes it; and between the test and the edit the edit has not
been made.  *Gated*: once the edit has been made, the literal that an earlier
edit used up and saved is gone from the disk for good.  *Sealed*: the edit is
saved together with an edit that shuts a lock (its mark appears, or its anchor is
used up), so wherever the edit is on disk the lock is shut; this also needs that
every text that is put back was read, or written anew, by the same run
(`OwnText`).

A careful script that reports success has made all its edits
(`CarefulIsComplete`), again for every script of the shape, on a tree that has no
mark of the script to begin with.  `WorkInv`: an edit that the run has gone by is
in the text, and on disk once the run is behind its save; an edit ahead of it
that the text has is on disk.  Either may be missing from the disk while
`write_text` is at work on the file.  `VouchInv`: where the mark of a test is on
disk, all the edits it stands for are, and the same of the text while the run is
not inside them.  `SoughtInv`: an anchor that was looked for is there until it is
replaced, so no `replace` does nothing.  A `stop` is taken only on a mark, and the
mark vouches for the edits that are left out.

**CohortProofs.**  That what is booted is what is selected needs more than the
test before it (`Identity`), which compares the tree with the pools: the Image
must have been linked from that tree, and a trial that takes over the tree of
the one before (`Reuse`) must find it as that one left it.  `LastInv` says what
`last_selection` stands for, and `TreeInv` says, command by command, which
objects of the tree can differ from what was overlaid: only those that `make`
compiled with the headers now there, or that the audit has accepted.

The second half of the module is about the search.  `EvidenceInv` keeps for each end of the search the trial
that put it there.  `PlanInv` says that all passes seen are at or below `lo` and
all failures at or above `hi`, which makes the planner's `max` and `min` the two
ends of the shell script's loop.  Evidence is PASS or FAIL: at a prefix without a
verdict the script ends, so the planner's `RETRY` is not met.

Assumptions are only those of the constants (`ASSUME` in `Driver`,
`LinkResolve`, `LinkGc`, `SpillLayout`, `EmitFile`, `PatchRun`, `RegenGuard`): jobs, scripts and
dependencies are well formed, and the markers for "nothing" are not
names, values or processes.

Only model-checked:

- termination (`DriverTerminates`, `LinkEnds`, `PruneEnds`, `LayoutEnds`,
  `WritersEnd`, `ResumesToCompletion`, `CohortEnds`): liveness under
  fairness is out of reach of the prover;
- `OwnWorkIsNotRefused`: it supposes that the script succeeds on the tree it is
  for, which is a matter of running it and no condition on its shape;
- `NeverTwice` and `AcceptedIsComplete` as statements about the scripts by name:
  the theorems are about the shapes, and that a script has its shape is a matter
  of evaluating it.

## Plan

In this order:

1. `ToolOutput`: the archive write of `minic-ar`, which removes the output when
   it fails, and the in-place write of `minic-strip`, whose temporary has a fixed
   name; how far each implements `AtomicFile`.
2. `AsmLayout`: subsections and the rounds of branch relaxation; termination,
   and that a branch that is short is in range.
3. `Preprocessor`: conditionals, includes and the pending text.
4. `ObjectReuse`: objects that are live together have different slots; proofs
   along the lines of `SpillProofs`.
5. `LinkLayout`: addresses, relaxation of alignments and the moved offsets, and
   its composition with `LinkGc`.
6. `CoreReachability`, sharing the argument of `LinkGcLemmas`.
7. The patch scripts with loops and regular expressions.

## Not modelled

- The frontend, the Core IR passes and instruction selection: translations whose
  inputs are whole programs.
- The ELF library: bounds-checked decoding without state.
- COMMON symbols, linker scripts, version scripts and dynamic linking beyond
  which symbols a shared object supplies.
- Out-of-memory paths of the linker and the compiler: each returns false and the
  link or compilation fails.
- Input sections of one name with different alignments, and `.riscv.attributes`,
  in the collecting link; no property depends on them.
- `minic` returning because `-march=` or `-mabi=` does not fit its buffer
  (`main.c:405`): `main` has validated both.
- 164 of the 450 patch scripts: they jump back, nest, edit a piece of a text
  they have cut out, use regular expressions, or the tree they are for cannot be
  told from the script.
- In the bisection: how the two pools of objects are made and certified, the
  audit of objects that are not C, the experiments behind the options
  `COHORT_...`, and what the texts that the scripts exchange look like.
- The other scripts under `tools/ci`, `tools/dev`, `tools/validation` and
  `tools/maintenance`: lists of commands and comparisons that keep no state.

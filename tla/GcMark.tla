------------------------------- MODULE GcMark -------------------------------
(***************************************************************************)
(* minild_gc_prune_static (linker/src/linker.c): the sections of a static  *)
(* link that the entry symbol and the constructor tables reach stay, the   *)
(* others are emptied, their symbols become undefined and their            *)
(* relocations are dropped.                                                *)
(*                                                                         *)
(* Sections, symbols and relocations are known by their index, from 1.     *)
(* Section 0 stands for MINILD_SECTION_UNDEF and _ABS.                     *)
(***************************************************************************)
EXTENDS Naturals, Sequences, FiniteSets

CONSTANT Name  \* names of sections

(* lo and hi record which bytes of the merged section of its name a section *)
(* holds.                                                                  *)
Section ==
  [name : Name, lo : Nat, hi : Nat, size : Nat, alloc : BOOLEAN, root : BOOLEAN]
SymbolRecord == [sec : Nat, value : Nat]
RelocRecord == [sec : Nat \ {0}, off : Nat, sym : Nat]

(* A relocation of section sec against symbol sym (0: none).  Its section  *)
(* and its symbol exist: process_input_data made them.                     *)
IsGraph(ss, sy, re, en) ==
  /\ ss \in Seq(Section) /\ sy \in Seq(SymbolRecord) /\ re \in Seq(RelocRecord)
  /\ \A k \in DOMAIN sy : sy[k].sec \in 0 .. Len(ss)
  /\ \A r \in DOMAIN re : re[r].sec \in 1 .. Len(ss) /\ re[r].sym \in 0 .. Len(sy)
  /\ en \in 0 .. Len(sy)

VARIABLES
  pc,     \* the loop being executed
  secs, sym, rel,
  kept,   \* the relocations in relocs[0 .. reloc_count)
  entry,  \* the entry symbol, 0 when the table has no such name
  ri,     \* i of the loop over the root sections
  live,   \* live[]
  queue, head,
  todo,   \* relocations of the section being scanned that are not yet seen
  status  \* "ok", or the diagnostic of the failure

markVars == <<ri, live, queue, head, todo>>
gcVars == <<pc, secs, sym, rel, kept, entry, markVars, status>>

MarkStart == ri = 1 /\ live = {} /\ queue = << >> /\ head = 1 /\ todo = {}

Goto(from, to) == pc = from /\ pc' = to

-----------------------------------------------------------------------------

(* Mutant: a section is marked again.                                      *)
MarksAgain(s) == s \in 1 .. Len(secs) /\ secs[s].alloc

(* minild_gc_mark_section marks and queues a section of the image once; it *)
(* fails when the queue, which has a place per section, is full.           *)
Marks(s) == s \in 1 .. Len(secs) /\ s \notin live /\ secs[s].alloc

Full(s) == Marks(s) /\ Len(queue) >= Len(secs)

MarkSection(s, to, reason) ==
  /\ pc' = IF Full(s) THEN "failed" ELSE to
  /\ status' = IF Full(s) THEN reason ELSE status
  /\ live' = IF Marks(s) /\ ~Full(s) THEN live \cup {s} ELSE live
  /\ queue' = IF Marks(s) /\ ~Full(s) THEN Append(queue, s) ELSE queue

EntrySection == IF entry = 0 THEN 0 ELSE sym[entry].sec

MarkEntry ==
  /\ pc = "entry" /\ EntrySection # 0
  /\ MarkSection(EntrySection, "roots", "gc-root-overflow")
  /\ UNCHANGED <<secs, sym, rel, kept, entry, ri, head, todo>>

UndefinedEntry ==
  /\ Goto("entry", "failed")
  /\ EntrySection = 0
  /\ status' = "undefined-entry"
  /\ UNCHANGED <<secs, sym, rel, kept, entry, markVars>>

(* The loop over the sections that are kept for what they are called.      *)
MarkRoot ==
  /\ pc = "roots" /\ ri <= Len(secs) /\ secs[ri].root
  /\ MarkSection(ri, "roots", "gc-root-overflow")
  /\ ri' = ri + 1
  /\ UNCHANGED <<secs, sym, rel, kept, entry, head, todo>>

(* Mutant: the last section is not looked at.                              *)
RootsEndEarly ==
  /\ ri >= Len(secs)
  /\ Goto("roots", "mark")
  /\ UNCHANGED <<secs, sym, rel, kept, entry, markVars, status>>

SkipSection ==
  /\ pc = "roots" /\ ri <= Len(secs) /\ ~secs[ri].root
  /\ pc' = pc
  /\ ri' = ri + 1
  /\ UNCHANGED <<secs, sym, rel, kept, entry, live, queue, head, todo, status>>

RootsEnd ==
  /\ ri > Len(secs)
  /\ Goto("roots", "mark")
  /\ UNCHANGED <<secs, sym, rel, kept, entry, markVars, status>>

(* Mutants: the head of the list is skipped; queue_head does not move.     *)
PopSkipsFirst ==
  /\ todo = {} /\ head <= Len(queue)
  /\ Goto("mark", "mark")
  /\ todo' = {r \in DOMAIN rel : rel[r].sec = queue[head] /\ r # Len(rel)}
  /\ head' = head + 1
  /\ UNCHANGED <<secs, sym, rel, kept, entry, ri, live, queue, status>>

PopStays ==
  /\ todo = {} /\ head <= Len(queue)
  /\ Goto("mark", "mark")
  /\ todo' = {r \in DOMAIN rel : rel[r].sec = queue[head]}
  /\ UNCHANGED <<secs, sym, rel, kept, entry, ri, live, queue, head, status>>

(* source = queue[queue_head++]                                            *)
Pop ==
  /\ todo = {} /\ head <= Len(queue)
  /\ Goto("mark", "mark")
  /\ todo' = {r \in DOMAIN rel : rel[r].sec = queue[head]}
  /\ head' = head + 1
  /\ UNCHANGED <<secs, sym, rel, kept, entry, ri, live, queue, status>>

Target(r) == IF rel[r].sym = 0 THEN 0 ELSE sym[rel[r].sym].sec

(* The list of a section's relocations was built back to front.            *)
NextReloc(r) == r \in todo /\ \A q \in todo : q <= r

MarkTarget ==
  \E r \in DOMAIN rel :
    /\ pc = "mark" /\ NextReloc(r)
    /\ MarkSection(Target(r), "mark", "gc-queue-overflow")
    /\ todo' = todo \ {r}
    /\ UNCHANGED <<secs, sym, rel, kept, entry, ri, head>>

(* Mutant: the relocations are not compacted.                              *)
SweepKeepsRelocations ==
  /\ todo = {} /\ head > Len(queue)
  /\ Goto("mark", "swept")
  /\ secs' = [s \in DOMAIN secs |->
                IF secs[s].alloc /\ s \notin live THEN [secs[s] EXCEPT !.size = 0] ELSE secs[s]]
  /\ sym' = [k \in DOMAIN sym |->
               IF sym[k].sec # 0 /\ sym[k].sec \notin live
               THEN [sec |-> 0, value |-> 0] ELSE sym[k]]
  /\ UNCHANGED <<rel, kept, entry, markVars, status>>

(* The three loops at the end of minild_gc_prune_static.                   *)
Sweep ==
  /\ todo = {} /\ head > Len(queue)
  /\ Goto("mark", "swept")
  /\ secs' = [s \in DOMAIN secs |->
                IF secs[s].alloc /\ s \notin live THEN [secs[s] EXCEPT !.size = 0] ELSE secs[s]]
  /\ sym' = [k \in DOMAIN sym |->
               IF sym[k].sec # 0 /\ sym[k].sec \notin live
               THEN [sec |-> 0, value |-> 0] ELSE sym[k]]
  /\ kept' = {r \in kept : rel[r].sec \in live}
  /\ UNCHANGED <<rel, entry, markVars, status>>

Prune ==
  \/ MarkEntry \/ UndefinedEntry \/ MarkRoot \/ SkipSection \/ RootsEnd
  \/ Pop \/ MarkTarget \/ Sweep

-----------------------------------------------------------------------------
(* Properties.                                                             *)

PruneTypeOK ==
  /\ IsGraph(secs, sym, rel, entry) /\ kept \subseteq DOMAIN rel
  /\ pc \in {"entry", "roots", "mark", "swept", "failed"}
  /\ ri \in 1 .. Len(secs) + 1
  /\ live \subseteq {s \in 1 .. Len(secs) : secs[s].alloc}
  /\ queue \in Seq(1 .. Len(secs)) /\ head \in 1 .. Len(queue) + 1
  /\ todo \subseteq DOMAIN rel
  /\ status \in {"ok", "undefined-entry", "gc-root-overflow", "gc-queue-overflow"}

(* What is reachable: the sections that lie in every set which holds the   *)
(* entry and the roots and is closed under relocations.                    *)
Image == {s \in 1 .. Len(secs) : secs[s].alloc}

IsRoot(s) == s = EntrySection \/ secs[s].root

Closed(C) ==
  /\ \A s \in Image : IsRoot(s) => s \in C
  /\ \A r \in DOMAIN rel : rel[r].sec \in C /\ Target(r) \in Image => Target(r) \in C

Reachable == {s \in Image : \A C \in SUBSET Image : Closed(C) => s \in C}

(* When the queue is empty, live[] is exactly what is reachable: nothing   *)
(* needed is emptied and nothing else is kept.                             *)
LiveIsReachable ==
  pc = "mark" /\ todo = {} /\ head > Len(queue) => live = Reachable

(* The queue has one place per section and that is enough: the diagnostics *)
(* gc-root-overflow and gc-queue-overflow cannot be reached.               *)
QueueSuffices == status \notin {"gc-root-overflow", "gc-queue-overflow"}

(* A relocation that is kept still has its symbol: the sweep undefines no  *)
(* symbol of the image that a kept relocation refers to.                   *)
KeptTargetsStay ==
  [][pc = "mark" /\ pc' = "swept" =>
       \A r \in kept' :
         Target(r) \in Image =>
           sym'[rel[r].sym] = sym[rel[r].sym] /\ secs'[Target(r)] = secs[Target(r)]]_gcVars

(* The marking ends, though the references between sections have cycles.   *)
PruneEnds == pc = "entry" ~> pc \in {"swept", "failed"}
=============================================================================

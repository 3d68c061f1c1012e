------------------------------ MODULE MCLinkGc ------------------------------
(* Instances of LinkGc for TLC.                                            *)
EXTENDS LinkGc

MCAttr ==
  [n \in {"text", "hot", "rodata", "init_array", "init", "debug"} |->
     CASE n \in {"text", "hot"} ->
            [alloc |-> TRUE, write |-> FALSE, exec |-> TRUE, align |-> 2, root |-> "no"]
       [] n = "rodata" ->
            [alloc |-> TRUE, write |-> FALSE, exec |-> FALSE, align |-> 1, root |-> "no"]
       [] n = "init_array" ->
            [alloc |-> TRUE, write |-> TRUE, exec |-> FALSE, align |-> 1, root |-> "family"]
       [] n = "init" ->
            [alloc |-> TRUE, write |-> FALSE, exec |-> TRUE, align |-> 1, root |-> "exact"]
       [] n = "debug" ->
            [alloc |-> FALSE, write |-> FALSE, exec |-> FALSE, align |-> 1, root |-> "no"]]

AttrOf(names) == [n \in names |-> MCAttr[n]]
NeedNames == {"text", "hot", "init_array"}
ShapeNames == {"text", "rodata", "debug"}
GcNames == NeedNames \cup ShapeNames
GcAttr == AttrOf(GcNames)
InitNames == {"text", "init"}
InitAttr == AttrOf(InitNames)

Start(i) == [isec |-> i, off |-> 0]

(* Who needs whom: three input sections with a symbol each, two            *)
(* relocations, one of them possibly against a section symbol; and four    *)
(* input sections, some of them empty, one of them needed by the first.    *)
NeedJobs ==
  [isecs : [1 .. 3 -> [name : NeedNames, size : {1}, mark : {TRUE}]],
   syms : {<<Start(1), Start(2), Start(3)>>},
   rels : [1 .. 2 -> [isec : 1 .. 3, off : {0}, sym : {2, 4, 5, 6}]],
   entry : {4}]
    \cup
  [isecs : [1 .. 4 -> [name : NeedNames, size : {0, 1}, mark : {TRUE}]],
   syms : {<<Start(1)>>},
   rels : {<<[isec |-> 1, off |-> 0, sym |-> k]>> : k \in 2 .. 4},
   entry : {5}]

(* How sections are cut: empty sections, missing section symbols, symbols  *)
(* and relocations inside sections, an entry that is undefined.            *)
ShapeJobs ==
  [isecs : [1 .. 3 -> [name : ShapeNames, size : {0, 1, 3}, mark : BOOLEAN]],
   syms : {<<[isec |-> 2, off |-> x], [isec |-> i, off |-> 0]>> : x \in {0, 2, 3}, i \in {0, 1}},
   rels : {<<[isec |-> 1, off |-> x, sym |-> y], [isec |-> 3, off |-> 2, sym |-> 4]>> :
             x \in {0, 2}, y \in {3, 4}},
   entry : {5}]

GcJobs == NeedJobs \cup ShapeJobs

(* Two parts of .init, which nothing refers to, and a text section.        *)
InitJobs ==
  [isecs : [1 .. 3 -> [name : InitNames, size : {1}, mark : {TRUE}]],
   syms : {<<Start(1), Start(2)>>},
   rels : {<<[isec |-> 1, off |-> 0, sym |-> k]>> : k \in {4, 5}},
   entry : {4}]

(* A label at the end of a section.                                        *)
EndJobs ==
  [isecs : [1 .. 3 -> [name : InitNames, size : {2}, mark : {TRUE}]],
   syms : {<<Start(1), [isec |-> i, off |-> x]>> : i \in 1 .. 3, x \in 0 .. 2},
   rels : {<<[isec |-> 1, off |-> 0, sym |-> 5]>>},
   entry : {4}]
=============================================================================

--------------------------- MODULE MCLinkResolve ---------------------------
(* Instances of LinkResolve for TLC.                                       *)
EXTENDS LinkResolve, TLC

(* c is a boundary name; x and y are the two names of an array, and in a   *)
(* shared object or PIE they are _DYNAMIC and __ehdr_start.                *)
CONSTANTS a, b, c, x, y, main, lib1, lib2

(* Objects that define at most one name and refer to at most one other.    *)
Object1(d, e, r, f) ==
  [n \in Name |-> IF n = d THEN e ELSE IF n = r THEN f ELSE "none"]

SmallTables(kinds) ==
  {Object1(d, e, r, "undef") : d \in {a, b, c}, e \in kinds, r \in {a, b, c}}

(* The program: it refers to a, and defines one of the other names or not. *)
MainTables == {Object1(a, "undef", c, e) : e \in {"none", "weak"}}

In(kind, p) == [kind |-> kind, path |-> p]

Lib(members) == [type |-> "archive", members |-> members]
Rel(t) == [type |-> "object", members |-> <<t>>]
Dso(t) == [type |-> "dso", members |-> <<t>>]

Files(m, l1, l2) == (main :> m) @@ (lib1 :> l1) @@ (lib2 :> l2)

(* main and a group of two archives that may need each other.              *)
GroupJobs ==
  {[mode |-> "static",
    inputs |-> <<In("object", main), In("group", lib1), In("group", lib2)>>,
    file |-> Files(Rel(m), Lib(<<s, t>>), Lib(<<u>>))] :
     m \in MainTables, s \in SmallTables(Defined), t \in SmallTables(Defined),
     u \in SmallTables({"strong"})}

(* The same files in the other shapes of a command line.                   *)
ShapeTables ==
  {Object1(a, e, b, f) : e \in Defined, f \in Undefined}
    \cup {Object1(b, e, a, "undef") : e \in Defined}

LastTables ==
  {Object1(a, "strong", b, "undef"), Object1(a, "weak", b, "wundef"), Object1(b, "strong", a, "undef")}

Shapes ==
  {<<In("object", main), In("archive", lib1), In("object", lib2)>>,
   <<In("whole", lib1), In("object", main), In("archive", lib1)>>,
   <<In("object", main), In("archive", lib1), In("whole", lib2)>>,
   <<In("group", main), In("group", lib1), In("object", lib2), In("group", lib1)>>,
   <<In("group", lib2), In("group", lib1)>>,
   <<In("object", lib2), In("group", lib2)>>,
   <<In("whole", main)>>, <<In("archive", main)>>}

ShapeJobs ==
  {[mode |-> m, inputs |-> i, file |-> Files(Rel(r), Lib(<<s, t>>), l2)] :
     m \in {"static", "pie", "shared", "relocatable"}, i \in Shapes,
     r \in {Object1(a, "undef", b, "wundef"), Object1(a, "wundef", b, "undef")},
     s \in ShapeTables, t \in {Object1(b, "strong", c, "undef"), Object1(a, "weak", b, "undef")},
     l2 \in UNION {{Rel(u), Dso(u), Lib(<<u>>)} : u \in LastTables}}

(* References to and definitions of the names the linker defines itself,   *)
(* in the program and in a member that it needs or not.                    *)
Object2(e, u, v) == (a :> e) @@ (b :> "none") @@ (c :> "none") @@ (x :> u) @@ (y :> v)

OwnTables(d) ==
  {Object2(d, u, v) : u \in Entry \ {"wundef"}, v \in {"none", "weak", "strong"}}

Plain == Rel(Object2("none", "none", "none"))
Shared == Dso(Object2("none", "strong", "none"))

OwnJobs ==
  {[mode |-> m[1],
    inputs |-> <<In("object", main), In("archive", lib1), In("object", lib2)>>,
    file |-> Files(Rel(Object2("undef", u, v)), Lib(<<t>>), m[2])] :
     m \in {<<"static", Plain>>, <<"pie", Shared>>, <<"shared", Shared>>, <<"relocatable", Plain>>},
     u \in Entry, v \in Entry, t \in OwnTables("none") \cup OwnTables("strong")}

LinkJobs == GroupJobs \cup ShapeJobs \cup OwnJobs

ArrayPairs == {<<x, y>>}
=============================================================================

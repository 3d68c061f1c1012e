----------------------------- MODULE PatchSteps -----------------------------
(***************************************************************************)
(* The steps a source patch script consists of.  PatchRun gives them their *)
(* meaning; the Patch<Family> modules write each script down with them.    *)
(***************************************************************************)
EXTENDS Naturals, Sequences

(* An edit replaces an occurrence of literal anchor by a text in which the *)
(* literals gone no longer occur and the literals come do.  all:           *)
(* text.replace(old, new) without a count.                                 *)
Edit(anchor, gone, come) ==
  [anchor |-> anchor, gone |-> gone, come |-> come, all |-> FALSE]

(* The anchor is gone after the edit, or is part of the new text too.      *)
Moved(a) == Edit(a, {a}, {})
Kept(a) == Edit(a, {}, {})
Every(e) == [e EXCEPT !.all = TRUE]

Step(op, f) ==
  [op |-> op, file |-> f, lit |-> 0, when |-> {}, over |-> 0, edit |-> Kept(0)]

Load(f) == Step("load", f)
Save(f) == Step("save", f)
Put(f, e) == [Step("put", f) EXCEPT !.edit = e]

(* Path.write_text of a file the script writes as a whole.                 *)
Create(f) == Step("create", f)

(* Tests: the number of occurrences, 2 for more, and when it is one of     *)
(* when the script refuses, jumps over the next steps, or ends well.       *)
Refuse(f, l, w) == [Step("refuse", f) EXCEPT !.lit = l, !.when = w]
Need(f, l) == Refuse(f, l, {0, 2})
Some(f, l) == Refuse(f, l, {0})
None(f, l) == Refuse(f, l, {1, 2})
Jump(f, l, w, k) == [Step("jump", f) EXCEPT !.lit = l, !.when = w, !.over = k]
Skip(f, l, k) == Jump(f, l, {1, 2}, k)
StopWhen(f, l, w) == [Step("stop", f) EXCEPT !.lit = l, !.when = w]
Stop(f, l) == StopWhen(f, l, {1, 2})

(* The same without a test: literal 0 is one that is never there.          *)
GiveUp == Refuse(0, 0, {0})
Goto(k) == Jump(0, 0, {0}, k)
Quit == StopWhen(0, 0, {0})

(* The two ways most scripts are written.  once(text, old, new) for each   *)
(* edit of a file, then one write; and replace_once(path, old, new), which *)
(* reads and writes the file for each edit, possibly after a look whether  *)
(* the new text is there already.                                          *)
Swaps(f, es) ==
  [i \in 1 .. 2 * Len(es) |->
     IF i % 2 = 1 THEN Need(f, es[(i + 1) \div 2].anchor) ELSE Put(f, es[i \div 2])]

Rewrite(f, es) == <<Load(f)>> \o Swaps(f, es) \o <<Save(f)>>

In(f, e) == [file |-> f, edit |-> e]

Each(es) ==
  [i \in 1 .. 4 * Len(es) |->
     LET r == es[(i + 3) \div 4] IN Rewrite(r.file, <<r.edit>>)[((i - 1) % 4) + 1]]

Unless(f, m, e) == [file |-> f, mark |-> m, edit |-> e]

EachUnless(es) ==
  [i \in 1 .. 5 * Len(es) |->
     LET r == es[(i + 4) \div 5]
     IN (<<Load(r.file), Skip(r.file, r.mark, 3)>> \o Swaps(r.file, <<r.edit>>)
           \o <<Save(r.file)>>)[((i - 1) % 5) + 1]]
=============================================================================

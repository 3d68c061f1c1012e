---------------------------- MODULE MCSpillLayout ----------------------------
(* Instances of SpillLayout for TLC.                                       *)
EXTENDS SpillLayout

CONSTANTS a, b, c, d, e

(* The operand lists of at most n values of S.                             *)
Lists(S, n) == UNION {[1 .. k -> S] : k \in 0 .. n}

Def(v, list) == [res |-> v, uses |-> list]
Term(list) == [res |-> NoValue, uses |-> list]

(* One block in SSA form, four or five results of one or two units: slots  *)
(* are freed in every order, and the free units come in pieces.            *)
FourResults ==
  {[ins |-> <<Def(a, << >>), Def(b, u), Def(c, v), Def(d, w), Term(t)>>, closed |-> TRUE] :
     u \in Lists({a}, 1), v \in Lists({a, b}, 2), w \in Lists({a, b, c}, 1),
     t \in Lists({a, b, c, d}, 1)}

FiveResults ==
  {[ins |-> <<Def(a, << >>), Def(b, << >>), Def(c, u), Def(d, v), Def(e, w), Term(t)>>,
    closed |-> TRUE] :
     u \in Lists({a, b}, 1), v \in Lists({a, b, c}, 1), w \in Lists({a, b, c, d}, 1),
     t \in Lists({a, b, c, d, e}, 2)}

Sizes(S) == {u \in [Value -> 1 .. 2] : \A v \in Value \ S : u[v] = 1}

SsaFunctions ==
  [units : Sizes({a, b, c, d}), blocks : [{1} -> FourResults]]
    \cup
  [units : {u \in Sizes(Value) : u[e] = 2 /\ u[a] # u[b]}, blocks : [{1} -> FiveResults]]

(* Two blocks of two instructions and a terminator that need not be in SSA *)
(* form: a value defined twice, used before or by its definition or in     *)
(* another block, of an unsupported size, a block without a terminator.    *)
AnyBlock ==
  {[ins |-> <<[res |-> r, uses |-> u], [res |-> s, uses |-> v], Term(t)>>, closed |-> k] :
     r \in {a, NoValue}, u \in Lists({a}, 1), s \in {a, b, NoValue}, v \in Lists({a, b}, 2),
     t \in Lists({b}, 1), k \in BOOLEAN}

SecondBlock ==
  {[ins |-> <<Def(c, << >>), Term(<<v>>)>>, closed |-> TRUE] : v \in {b, c}}
    \cup
  {[ins |-> <<Def(b, << >>), Term(<<b, b>>)>>, closed |-> TRUE],
   [ins |-> <<Term(<<a>>)>>, closed |-> TRUE]}

AnyFunctions ==
  {f \in [units : {u \in [Value -> 0 .. 2] : u[d] = 1 /\ u[e] = 1}, blocks : [1 .. 2 -> AnyBlock \cup SecondBlock]] :
     f.blocks[1] \in AnyBlock /\ f.blocks[2] \in SecondBlock /\ f.units[c] = 2}
AllFunctions == SsaFunctions \cup AnyFunctions
=============================================================================

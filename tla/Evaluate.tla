------------------------------ MODULE Evaluate ------------------------------
(***************************************************************************)
(* The evaluator of expressions of the debug adapter (dap/evaluate.py),    *)
(* on the values of a snapshot.  The reader keeps every value that it has  *)
(* once made (objectCache_), so all answers for a file share them.         *)
(*                                                                         *)
(* An expression is a tree [op, name, args]; "call" has its arguments in   *)
(* args, "method" the receiver and then the arguments.  Numbers stand for  *)
(* everything that is neither a container nor an object nor callable.      *)
(***************************************************************************)
EXTENDS Integers, Sequences, FiniteSets, SequencesExt

CONSTANTS
  Expressions,  \* what the client asks for
  Locals,       \* the values of the frame's local variables
  Captured,     \* the containers and objects of the file, with their items
  MaxHeap       \* bound: containers

\* A container or object is an index into the heap.
Value(kind, n, name) == [kind |-> kind, n |-> n, name |-> name]
Number(n) == Value("number", n, "")
Ref(at) == Value("ref", at, "")
Builtin(name) == Value("builtin", 0, name)
Method(at, name) == Value("method", at, name)
Nothing == Value("none", 0, "")

Container(type, items) == [type |-> type, items |-> items]

\* Containers that getattr() is trusted with, and what it finds there.
Methods == [list |-> {"append", "clear", "copy"}, dict |-> {"clear", "copy"}]
SafeBuiltins == {"len", "list", "bool"}

VARIABLES
  heap,   \* the values that the reader has made, and those of answers
  answer  \* the last one

vars == <<heap, answer>>

(***************************************************************************)
(* Outcomes: a value, EvaluateError ("refused"), or another exception      *)
(* ("escaped") that leaves the evaluator.                                  *)
(***************************************************************************)
Ok(h, v) == [heap |-> h, value |-> v, raised |-> "no"]
Refuse(h) == [heap |-> h, value |-> Nothing, raised |-> "refused"]
Escape(h) == [heap |-> h, value |-> Nothing, raised |-> "escaped"]

Fresh(h, type, items) == Ok(Append(h, Container(type, items)), Ref(Len(h) + 1))

IsA(h, v, types) == v.kind = "ref" /\ h[v.n].type \in types
Keyed(key, item) == <<key, item>>
Listed(values) == [i \in DOMAIN values |-> Keyed(Number(i - 1), values[i])]
Hits(h, v, key) == {i \in DOMAIN h[v.n].items : h[v.n].items[i][1] = key}

Truth(h, v) ==
  CASE v.kind = "number" -> v.n # 0
    [] v.kind = "none" -> FALSE
    [] v.kind = "ref" -> h[v.n].type = "object" \/ h[v.n].items # <<>>
    [] OTHER -> TRUE

(***************************************************************************)
(* Attributes, items and calls.                                            *)
(***************************************************************************)
\* The captured __dict__ of an object is looked up; an attribute of a container
\* is what getattr() finds.
GetAttr(h, v, name) ==
  CASE IsA(h, v, {"object"}) ->
         IF Hits(h, v, Builtin(name)) = {} THEN Refuse(h)
         ELSE Ok(h, h[v.n].items[CHOOSE i \in Hits(h, v, Builtin(name)) : TRUE][2])
    [] IsA(h, v, DOMAIN Methods) /\ name \in Methods[h[v.n].type] -> Ok(h, Method(v.n, name))
    [] OTHER -> Refuse(h)

\* A negative index counts from the end of a list.
Index(h, v, key) ==
  IF IsA(h, v, {"list"}) /\ key.kind = "number" /\ key.n < 0
  THEN Number(key.n + Len(h[v.n].items)) ELSE key

\* An index that is no number is refused.  A container is no key: looking for it
\* in a dict raises an exception.
GetItem(h, v, key) ==
  LET hits == Hits(h, v, Index(h, v, key))
  IN  CASE IsA(h, v, {"dict"}) /\ IsA(h, key, {"list", "dict"}) -> Escape(h)
        [] IsA(h, v, {"dict", "list"}) /\ hits # {} ->
             Ok(h, h[v.n].items[CHOOSE i \in hits : TRUE][2])
        [] OTHER -> Refuse(h)

\* What the builtins, with one argument, and the methods of containers do.  Any
\* exception is turned into EvaluateError.
CallBuiltin(h, name, args) ==
  CASE name = "bool" -> Ok(h, Number(IF Truth(h, args[1]) THEN 1 ELSE 0))
    [] ~IsA(h, args[1], {"list", "dict"}) -> Refuse(h)
    [] name = "len" -> Ok(h, Number(Len(h[args[1].n].items)))
    [] name = "list" ->
         LET container == h[args[1].n]
             part == IF container.type = "dict" THEN 1 ELSE 2
         IN  Fresh(h, "list", Listed([i \in DOMAIN container.items |-> container.items[i][part]]))

CallMethod(h, at, name, args) ==
  LET items == h[at].items
  IN  CASE name = "append" /\ Len(args) = 1 ->
             Ok([h EXCEPT ![at].items = Append(items, Keyed(Number(Len(items)), args[1]))], Nothing)
        [] name = "clear" /\ args = <<>> -> Ok([h EXCEPT ![at].items = <<>>], Nothing)
        [] name = "copy" /\ args = <<>> -> Fresh(h, h[at].type, items)
        [] OTHER -> Refuse(h)

Apply(h, f, args) ==
  CASE f.kind = "builtin" -> CallBuiltin(h, f.name, args)
    [] f.kind = "method" -> CallMethod(h, f.n, f.name, args)
    [] OTHER -> Refuse(h)

(***************************************************************************)
(* Expressions.                                                            *)
(***************************************************************************)
RECURSIVE Eval(_, _)

\* Some expressions from left to right, up to the first exception.
EvalAll(h, es) ==
  FoldLeft(LAMBDA acc, e :
             IF acc.raised # "no" THEN acc
             ELSE LET r == Eval(acc.heap, e)
                  IN  [r EXCEPT !.value = Append(acc.value, r.value)],
           [heap |-> h, value |-> <<>>, raised |-> "no"], es)

\* The outcome of some expressions, if there is no exception.
With(r, Then(_, _)) == IF r.raised # "no" THEN [r EXCEPT !.value = Nothing] ELSE Then(r.heap, r.value)

\* A local variable hides a builtin.
EvalName(h, name) ==
  CASE name \in DOMAIN Locals -> Ok(h, Locals[name])
    [] name \notin DOMAIN Locals /\ name \in SafeBuiltins -> Ok(h, Builtin(name))
    [] OTHER -> Refuse(h)

\* The name of a function that is called is always that of a builtin, also if
\* there is a local variable of that name.  *args are refused before anything
\* is evaluated.
EvalCall(h, e) ==
  IF \E i \in DOMAIN e.args : e.args[i].op = "starred" THEN Refuse(h)
  ELSE IF e.op = "call"
    THEN IF e.name \notin SafeBuiltins THEN Refuse(h)
         ELSE With(EvalAll(h, e.args), LAMBDA g, vs : Apply(g, Builtin(e.name), vs))
    ELSE With(EvalAll(h, <<e.args[1]>>), LAMBDA g, self :
           With(GetAttr(g, self[1], e.name), LAMBDA g1, f :
             With(EvalAll(g1, Tail(e.args)), LAMBDA g2, vs : Apply(g2, f, vs))))

\* Short circuit: the first operand that decides, or the last one.
EvalBool(h, es, decisive) ==
  FoldLeft(LAMBDA acc, e :
             IF acc.raised # "no" \/ Truth(acc.heap, acc.value) = decisive
             THEN acc ELSE Eval(acc.heap, e),
           Ok(h, Number(IF decisive THEN 0 ELSE 1)), es)

\* Sums of numbers and of lists; an operator's exception is EvaluateError.
Add(h, a, b) ==
  CASE a.kind = "number" /\ b.kind = "number" -> Ok(h, Number(a.n + b.n))
    [] IsA(h, a, {"list"}) /\ IsA(h, b, {"list"}) ->
         LET all == h[a.n].items \o h[b.n].items
         IN  Fresh(h, "list", Listed([i \in DOMAIN all |-> all[i][2]]))
    [] OTHER -> Refuse(h)

\* Lists compare by the first items that are not the same; values of other types
\* than numbers and lists do not compare.
RECURSIVE Less(_, _, _)
Less(h, a, b) ==
  CASE a.kind = "number" /\ b.kind = "number" -> IF a.n < b.n THEN "yes" ELSE "no"
    [] IsA(h, a, {"list"}) /\ IsA(h, b, {"list"}) ->
         LET x == h[a.n].items
             y == h[b.n].items
             differ == {i \in DOMAIN x \cap DOMAIN y : x[i] # y[i]}
         IN  IF differ # {}
             THEN LET i == CHOOSE i \in differ : \A j \in differ : i <= j
                  IN  Less(h, x[i][2], y[i][2])
             ELSE IF Len(x) < Len(y) THEN "yes" ELSE "no"
    [] OTHER -> "error"

\* a < b < c has every operand once, and the rest only if the first holds.  An
\* exception of a comparison, as that of a unary operator, is not caught.
Chained(h, es) ==
  FoldLeft(LAMBDA acc, e :
             IF acc.raised # "no" \/ ~acc.holds THEN acc
             ELSE LET r == Eval(acc.heap, e) a == acc.value b == r.value
                  IN  IF r.raised # "no" THEN [holds |-> FALSE] @@ r
                      ELSE IF Less(r.heap, a, b) = "error" THEN [holds |-> FALSE] @@ Escape(r.heap)
                      ELSE [holds |-> Less(r.heap, a, b) = "yes"] @@ r,
           [holds |-> TRUE] @@ Eval(h, Head(es)), Tail(es))

EvalCompare(h, es) ==
  LET r == Chained(h, es)
  IN  IF r.raised # "no" THEN [heap |-> r.heap, value |-> Nothing, raised |-> r.raised]
      ELSE Ok(r.heap, Number(IF r.holds THEN 1 ELSE 0))

EvalUnary(h, e) ==
  With(Eval(h, e.args[1]), LAMBDA g, v :
    CASE e.name = "not" -> Ok(g, Number(IF Truth(g, v) THEN 0 ELSE 1))
      [] e.name = "-" /\ v.kind = "number" -> Ok(g, Number(-v.n))
      [] OTHER -> Escape(g))

EvalIf(h, e) ==
  With(Eval(h, e.args[1]), LAMBDA g, v : Eval(g, e.args[IF Truth(g, v) THEN 2 ELSE 3]))

\* Statements and all other expressions are refused.
Eval(h, e) ==
  CASE e.op = "name" -> EvalName(h, e.name)
    [] e.op = "constant" -> Ok(h, Number(e.n))
    [] e.op = "attribute" -> With(Eval(h, e.args[1]), LAMBDA g, v : GetAttr(g, v, e.name))
    [] e.op = "subscript" -> With(EvalAll(h, e.args), LAMBDA g, vs : GetItem(g, vs[1], vs[2]))
    [] e.op \in {"call", "method"} -> EvalCall(h, e)
    [] e.op = "+" -> With(EvalAll(h, e.args), LAMBDA g, vs : Add(g, vs[1], vs[2]))
    [] e.op = "unary" -> EvalUnary(h, e)
    [] e.op \in {"and", "or"} -> EvalBool(h, e.args, e.op = "or")
    [] e.op = "<" -> EvalCompare(h, e.args)
    [] e.op = "display" -> With(EvalAll(h, e.args), LAMBDA g, vs : Fresh(g, "list", Listed(vs)))
    [] e.op = "if" -> EvalIf(h, e)
    [] OTHER -> Refuse(h)

(***************************************************************************)
(* The adapter.                                                            *)
(***************************************************************************)
Init == heap = Captured /\ answer = Nothing

HandleEvaluate(e) ==
  LET r == Eval(heap, e)
  IN  /\ Len(r.heap) <= MaxHeap
      /\ heap' = r.heap
      /\ answer' = r.value

Next == \E e \in Expressions : HandleEvaluate(e)

Spec == Init /\ [][Next]_vars

(***************************************************************************)
(* Properties.                                                             *)
(***************************************************************************)
\* "Snapshots are read-only": whatever the client has evaluated, the values of
\* the file are those that were captured.  They are not: append() and clear()
\* change the value that the reader gives out from then on.
ReadOnly == SubSeq(heap, 1, Len(Captured)) = Captured
=============================================================================

----------------------------- MODULE MCEvaluate -----------------------------
(***************************************************************************)
(* A frame with a list, a dict that has it, an object that has it, and a   *)
(* local variable with the name of a builtin.  The expressions have up to  *)
(* two operators.                                                          *)
(***************************************************************************)
EXTENDS Evaluate

MCCaptured ==
  << Container("list", Listed(<<Number(1), Number(0)>>)),
     Container("dict", <<Keyed(Number(1), Ref(1))>>),
     Container("object", <<Keyed(Builtin("field"), Ref(1))>>) >>
MCLocals == [xs |-> Ref(1), table |-> Ref(2), object |-> Ref(3), len |-> Number(1)]

Node(op, name, args) == [op |-> op, name |-> name, n |-> 0, args |-> args]
Constant(n) == [Node("constant", "", <<>>) EXCEPT !.n = n]

Leaves ==
  {Node("name", x, <<>>) : x \in {"xs", "table", "object", "len", "missing"}}
    \cup {Constant(n) : n \in 0..1} \cup {Node("starred", "", <<>>)}

Over(es, fs) ==
  LET pairs == {<<e, f>> : e \in es, f \in fs}
  IN  {Node("attribute", "field", <<e>>) : e \in es}
        \cup {Node("call", f, <<e>>) : f \in SafeBuiltins \cup {"print"}, e \in es}
        \cup {Node("method", m, <<e>>) : m \in {"clear", "copy"}, e \in es}
        \cup {Node("method", "append", p) : p \in pairs}
        \cup {Node("unary", u, <<e>>) : u \in {"not", "-"}, e \in es}
        \cup {Node(op, "", p) : op \in {"subscript", "+", "and", "or", "<", "display"}, p \in pairs}
        \cup {Node("if", "", p \o <<Constant(1)>>) : p \in pairs}
        \cup {Node("lambda", "", <<>>)}

Seconds == {Node("name", "xs", <<>>), Constant(1)}
MCExpressions ==
  Leaves \cup Over(Leaves, Leaves) \cup Over(Over(Leaves, Seconds), Seconds)
=============================================================================

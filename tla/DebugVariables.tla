--------------------------- MODULE DebugVariables ---------------------------
(***************************************************************************)
(* What the debug adapter shows of values: the registry of                 *)
(* variablesReference numbers and the expansion of containers and objects  *)
(* (dap/variables.py), as functions on a registry.                         *)
(*                                                                         *)
(* A value that has no children is one to which Shape gives "leaf".  An    *)
(* evaluateName is the local variable it starts with and the keys that     *)
(* follow.                                                                 *)
(***************************************************************************)
EXTENDS Integers, Sequences, FiniteSets, SequencesExt, FiniteSetsExt

CONSTANTS
  Objects,     \* the values of the file that the reader gives out
  Shape,       \* of each value: "leaf", "sequence", "mapping", "set", "object", or
               \* "subclass" for a list or dict subclass that has attributes too
  Items,       \* of each value: the <<key, value>> pairs it contains
  Attrs,       \* of each value: the <<key, value>> pairs of its __dict__, sorted
  MaxChildren  \* _MAX_CHILDREN

IsSequence(s) == s \in Seq(ToSet(s))

ASSUME ValuesAssumption ==
  /\ MaxChildren \in Nat
  /\ \A o \in Objects :
       /\ Shape[o] \in {"leaf", "sequence", "mapping", "set", "object", "subclass"}
       /\ IsSequence(Items[o]) /\ IsSequence(Attrs[o])
       /\ \A i \in DOMAIN Items[o] : Items[o][i][2] \in Objects
       /\ \A i \in DOMAIN Attrs[o] : Attrs[o][i][2] \in Objects

\* No evaluateName.
NoName == <<>>

\* An empty list, dict or set is not expandable, nor is an object without
\* attributes; a list or dict subclass always is.
IsExpandable(o) ==
  CASE Shape[o] = "leaf" -> FALSE
    [] Shape[o] = "subclass" -> TRUE
    [] Shape[o] = "object" -> Attrs[o] # <<>>
    [] OTHER -> Items[o] # <<>>

(***************************************************************************)
(* VariableRegistry.                                                       *)
(***************************************************************************)
\* entries: what each reference stands for.  refs: _object_to_ref.
EmptyRegistry == [next |-> 1, entries |-> <<>>, refs |-> <<>>]

\* Faulty: the dedup index survives.
ClearEntries(reg) == [reg EXCEPT !.next = 1, !.entries = <<>>]

Clear(reg) == EmptyRegistry

ScopeEntry(frame) == [kind |-> "scope", frame |-> frame]
ObjectEntry(o, name) == [kind |-> "object", value |-> o, name |-> name]
BundleEntry(o, name) == [kind |-> "attrs", value |-> o, name |-> name]

Resolvable(reg, ref) == ref \in DOMAIN reg.entries

With(f, k, v) == [x \in DOMAIN f \cup {k} |-> IF x = k THEN v ELSE f[x]]

Allot(reg, entry) ==
  [reg EXCEPT !.next = @ + 1, !.entries = With(@, reg.next, entry)]

\* Faulty: a value is never recognised.
RegisterAgain(reg, o, name) ==
  [Allot(reg, ObjectEntry(o, name)) EXCEPT !.refs = With(@, o, reg.next)]

\* A value is recognised by its id() and keeps the name it had at first.
RegisterObject(reg, o, name) ==
  IF o \in DOMAIN reg.refs THEN reg
  ELSE [Allot(reg, ObjectEntry(o, name)) EXCEPT !.refs = With(@, o, reg.next)]

(***************************************************************************)
(* Rows.  Each operator returns the registry after the rows and the rows.  *)
(***************************************************************************)
Child(key, o, name) == [key |-> key, value |-> o, name |-> name]

Row(reg, child) ==
  [kind |-> "value", key |-> child.key, value |-> child.value, name |-> child.name,
   ref |-> IF IsExpandable(child.value) THEN reg.refs[child.value] ELSE 0]
TruncatedRow == [kind |-> "truncated", ref |-> 0]
AttrsRow(ref) == [kind |-> "attrs", ref |-> ref]

\* make_variable, for the next of some rows.
MakeVariable(acc, child) ==
  LET reg == IF IsExpandable(child.value) THEN RegisterObject(acc.reg, child.value, child.name)
             ELSE acc.reg
  IN  [reg |-> reg, rows |-> Append(acc.rows, Row(reg, child))]

MakeVariables(reg, children) ==
  FoldLeft(MakeVariable, [reg |-> reg, rows |-> <<>>], children)

\* The name of a child; the elements of a set have none.
ChildName(parent, key, named) == IF parent = NoName \/ ~named THEN NoName ELSE Append(parent, key)

\* Children up to the limit, then a row which says that there are more.
Children(pairs, parent, named) ==
  [i \in 1..Min({MaxChildren, Len(pairs)}) |->
     Child(pairs[i][1], pairs[i][2], ChildName(parent, pairs[i][1], named))]

ExpandPairs(reg, pairs, parent, named) ==
  LET shown == MakeVariables(reg, Children(pairs, parent, named))
  IN  IF Len(pairs) <= MaxChildren THEN shown
      ELSE [shown EXCEPT !.rows = Append(@, TruncatedRow)]

\* The attributes of a list or dict subclass are one row with a new wrapper,
\* which is not the one of an earlier expansion.
ExpandSubclass(reg, o, parent) ==
  LET items == ExpandPairs(reg, Items[o], parent, TRUE)
  IN  IF Attrs[o] = <<>> THEN items
      ELSE [reg |-> Allot(items.reg, BundleEntry(o, parent)),
            rows |-> Append(items.rows, AttrsRow(items.reg.next))]

Expand(reg, o, parent) ==
  CASE Shape[o] = "subclass" -> ExpandSubclass(reg, o, parent)
    [] Shape[o] = "object" -> ExpandPairs(reg, Attrs[o], parent, TRUE)
    [] OTHER -> ExpandPairs(reg, Items[o], parent, Shape[o] # "set")

ExpandAttrs(reg, o, parent) == ExpandPairs(reg, Attrs[o], parent, TRUE)

(***************************************************************************)
(* Evaluation of a name that was given with a row.                         *)
(***************************************************************************)
ValueAt(pairs, key) ==
  LET hits == {i \in DOMAIN pairs : pairs[i][1] = key}
  IN  IF hits = {} THEN "error" ELSE pairs[Min(hits)][2]

\* The value of a name in a frame with these local variables, or "error".
\* Keys and attributes of one value do not have the same names.
Evaluated(locals, name) ==
  LET value[n \in 1..Len(name)] ==
        IF n = 1 THEN ValueAt(locals, name[1])
        ELSE IF value[n - 1] = "error" THEN "error"
        ELSE ValueAt(Items[value[n - 1]] \o Attrs[value[n - 1]], name[n])
  IN  IF name = NoName THEN "error" ELSE value[Len(name)]
=============================================================================

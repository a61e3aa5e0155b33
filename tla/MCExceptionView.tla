-------------------------- MODULE MCExceptionView --------------------------
(***************************************************************************)
(* The snapshots that take_snapshot_from_exception() can write of up to    *)
(* four exceptions: number n links to number n + 1 by its cause or its     *)
(* context, the last one to none or back, and those without a traceback    *)
(* are left out.                                                           *)
(***************************************************************************)
EXTENDS ExceptionView

ExcFrame(p) == [path |-> p]
\* No frames: the exception is left out.
MCStacks == {<<>>, <<ExcFrame("lib")>>, <<ExcFrame("lib"), ExcFrame("app")>>}

\* How an exception is linked to the next: by one link, by both, or by its
\* cause while its context is the last one.
MCKinds == {"cause", "context", "both", "far"}
MCEnds == {<<None, None>>, <<1, None>>, <<1, 2>>}

MCChain(n, kinds, end, frames) ==
  [i \in {j \in 1..n : frames[j] # <<>>} |->
     [exc |-> TRUE, frames |-> frames[i],
      cause |-> IF i = n THEN end[1] ELSE IF kinds[i] = "context" THEN None ELSE i + 1,
      context |-> IF i = n THEN end[2]
                  ELSE CASE kinds[i] = "cause" -> None
                         [] kinds[i] = "far" -> n
                         [] OTHER -> i + 1]]

MCSnapshots ==
  UNION {{MCChain(n, kinds, end, frames) :
            kinds \in [1..n - 1 -> MCKinds], end \in MCEnds, frames \in [1..n -> MCStacks]} :
           n \in 1..MaxDepth + 2} \ {<<>>}
MCExcluded == {"lib"}
=============================================================================

--------------------------- MODULE MCStacktraces ---------------------------
\* Threads with a few frames, or exceptions in every constellation of causes and
\* contexts.
EXTENDS Stacktraces, TLC

CONSTANTS s1, s2, s3, none

\* No traceback, and one of a frame that is filtered out and one that is not.
MCTracebacks == {<<>>, <<"filtered", "plain">>}
\* All of them.
MCStacks == Stacks

SourceSymmetry == Permutations(Sources \ {Root})

=============================================================================

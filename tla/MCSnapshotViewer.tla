-------------------------- MODULE MCSnapshotViewer --------------------------
(***************************************************************************)
(* A file with a snapshot of a chain of two exceptions, of which the cause *)
(* has no frames.  One of the files of its frames is embedded, as is a     *)
(* file of no frame; the other one is on disk.  In a second file the cause *)
(* has a frame of a file on disk that is no text; a third one is empty.    *)
(***************************************************************************)
EXTENDS SnapshotViewer

MCFrame(path, line, locals) == [path |-> path, line |-> line, locals |-> locals]
MCSnapshots ==
  <<<<[exc |-> TRUE, cause |-> 2, context |-> 0,
       frames |-> <<MCFrame("app", 2, 0), MCFrame("lib", 1, 1)>>],
      [exc |-> TRUE, cause |-> 0, context |-> 0, frames |-> <<>>]>>>>
MCUnreadable ==
  <<<<[exc |-> TRUE, cause |-> 2, context |-> 0, frames |-> <<>>],
      [exc |-> TRUE, cause |-> 0, context |-> 0, frames |-> <<MCFrame("bin", 1, 0)>>]>>>>
MCSources == <<"other", "app">>
MCFiles ==
  {[snapshots |-> MCSnapshots, sources |-> MCSources],
   [snapshots |-> MCUnreadable, sources |-> <<>>], [snapshots |-> <<>>, sources |-> <<>>]}
MCLinesOf == [path \in {"app", "lib", "other"} |-> IF path = "app" THEN 3 ELSE 1]
MCTextLines == [view \in {"metadata", "manifest", "environment", "statistics"} |-> 2]
MCDefault == <<"a", "/">>
====

---------------------------- MODULE DebugSources ----------------------------
(***************************************************************************)
(* Where the debug adapter finds the source text of a frame                *)
(* (SourceRegistry in dap/sources.py), as functions on a registry.  A path *)
(* is a sequence of names; that of a frame is absolute if it is one of     *)
(* AbsolutePaths, and "./" before a relative path is left out.             *)
(***************************************************************************)
EXTENDS Integers, Sequences, FiniteSets, SequencesExt, FiniteSetsExt

CONSTANTS
  OnDisk,  \* absolute paths that are files of the viewer's machine
  Cwd,     \* the working directory of the adapter
  Staging  \* the directory to which the reader extracts files

NoKey == <<>>
Base(path) == <<Last(path)>>

\* embedded: content of each key.  order: the keys as they were recorded.
\* byBase: the key of a basename, or NoKey if there are several.
\* keys: _ref_to_key, one behind the other.  dir: the extracted files.
NoSources == [embedded |-> <<>>, order |-> <<>>, byBase |-> <<>>, keys |-> <<>>, dir |-> {}]

Recorded(f, k, v) == [x \in DOMAIN f \cup {k} |-> IF x = k THEN v ELSE f[x]]

\* _record, of a <<path, content>> pair.  A second file of the same name
\* disables the lookup by that name.
Record(src, file) ==
  LET key == file[1]
  IN  IF key = NoKey THEN src
      ELSE [src EXCEPT !.embedded = Recorded(@, key, file[2]),
                       !.order = IF key \in DOMAIN src.embedded THEN @ ELSE Append(@, key),
                       !.byBase = Recorded(@, Base(key),
                                           IF Base(key) \in DOMAIN @ THEN NoKey ELSE key)]
RecordNew(src, file) == IF file[1] \in DOMAIN src.embedded THEN src ELSE Record(src, file)

\* The files embedded in the .pytb, then those of the staging directory.
LoadFromReader(src, files, extracted) ==
  [FoldLeft(RecordNew, FoldLeft(Record, src, files), extracted)
     EXCEPT !.dir = {extracted[i][1] : i \in DOMAIN extracted}]

MatchBasename(src, path) ==
  IF Base(path) \in DOMAIN src.byBase THEN src.byBase[Base(path)] ELSE NoKey

\* A path without a directory is left to the other lookups.
MatchSuffix(src, path) ==
  LET hits == {i \in DOMAIN src.order : Len(src.order[i]) > Len(path) /\ IsSuffix(path, src.order[i])}
  IN  IF Len(path) < 2 \/ hits = {} THEN NoKey ELSE src.order[Min(hits)]

MatchExtracted(src, path) ==
  IF Staging \o path \in src.dir THEN Staging \o path
  ELSE IF Staging \o Base(path) \in src.dir THEN Staging \o Base(path)
  ELSE NoKey

MatchExact(src, path) == IF path \in DOMAIN src.embedded THEN path ELSE NoKey

FirstKey(keys) ==
  LET found == {i \in DOMAIN keys : keys[i] # NoKey}
  IN  IF found = {} THEN NoKey ELSE keys[Min(found)]

\* Faulty: the names come first.
NameFirst(src, path) ==
  IF path = NoKey THEN NoKey
  ELSE FirstKey(<<MatchBasename(src, path), MatchSuffix(src, path), MatchExtracted(src, path),
                  MatchExact(src, path), MatchExact(src, Cwd \o path)>>)

\* The key of a path: as it is, seen from the working directory, then by its
\* name, by its end, and in the staging directory.
CanonicalKey(src, path) ==
  IF path = NoKey THEN NoKey
  ELSE FirstKey(<<MatchExact(src, path), MatchExact(src, Cwd \o path), MatchBasename(src, path),
                  MatchSuffix(src, path), MatchExtracted(src, path)>>)

(***************************************************************************)
(* Requests.                                                               *)
(***************************************************************************)
IsFile(path) == path \in OnDisk \/ Cwd \o path \in OnDisk

\* Faulty: every description gets a new number.
AlwaysNewReference(src, key) == [src EXCEPT !.keys = Append(@, key)]

Referenced(src, key) ==
  IF key \in ToSet(src.keys) THEN src ELSE [src EXCEPT !.keys = Append(@, key)]

\* describe: what becomes of the registry.  A file on disk is named by its
\* path, a file that is found nowhere too; else it gets a reference.
Describe(src, path) ==
  LET key == CanonicalKey(src, path)
  IN  IF IsFile(path) \/ key = NoKey THEN src ELSE Referenced(src, key)

\* The reference in the answer, 0 if there is none.
ReferenceOf(src, path) ==
  LET key == CanonicalKey(src, path)
      hits == {n \in DOMAIN src.keys : src.keys[n] = key}
  IN  IF IsFile(path) \/ hits = {} THEN 0 ELSE Max(hits)

ContentOf(src, ref) ==
  IF ref \in DOMAIN src.keys THEN src.embedded[src.keys[ref]] ELSE "error"
=============================================================================

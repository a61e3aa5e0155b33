---------------------------- MODULE MCDebugSession ----------------------------
(***************************************************************************)
(* A file with threads, exceptions, a snapshot that cannot be read and     *)
(* one without threads.  Two frames share a list that contains itself.     *)
(***************************************************************************)
EXTENDS DebugSession

MCObjects == {"list", "sub", "object", "leaf"}
MCShape == [o \in MCObjects |-> CASE o = "list" -> "sequence" [] o = "sub" -> "subclass"
                                  [] o = "object" -> "object"
                                  [] OTHER -> "leaf"]
MCItems == [o \in MCObjects |-> CASE o = "list" -> <<<<"0", "list">>, <<"1", "leaf">>>>
                                  [] OTHER -> <<>>]
MCAttrs == [o \in MCObjects |-> CASE o = "sub" -> <<<<"a", "list">>>>
                                  [] o = "object" -> <<<<"b", "object">>>>
                                  [] OTHER -> <<>>]

MCFrame(fn, path, locals) == [fn |-> fn, path |-> path, locals |-> locals]
MCApp == <<"app", "m.py">>
MCLib == <<"lib", "m.py">>
MCStack(name, fs) ==
  [name |-> name, exc |-> FALSE, cause |-> 0, context |-> 0, frames |-> fs]
MCExc(name, cause, fs) ==
  [name |-> name, exc |-> TRUE, cause |-> cause, context |-> 0, frames |-> fs]

MCThreads ==
  <<MCStack("main", <<MCFrame("wait", MCLib, <<<<"x", "list">>>>),
                      MCFrame("main", MCApp, <<<<"y", "list">>>>)>>),
    MCStack("worker", <<MCFrame("poll", MCLib, <<>>)>>)>>
MCOneThread ==
  [t \in {2} |-> MCStack("worker", <<MCFrame("work", MCApp, <<<<"s", "sub">>>>)>>)]
MCChained ==
  <<MCExc("Thread 1", 2, <<MCFrame("g", MCApp, <<>>)>>),
    MCExc("Thread 2", 0, <<MCFrame("f", MCLib, <<<<"z", "object">>>>)>>)>>

MCFiles == {"threads", "mixed"}
MCSnapshotsOf ==
  [f \in MCFiles |-> IF f = "threads" THEN <<MCThreads, MCOneThread>>
                     ELSE <<MCChained, Corrupt, <<>>, MCOneThread>>]
MCEmbedded == [f \in MCFiles |-> <<<<MCApp, "app">>, <<MCLib, "lib">>>>]
MCExtracted == [f \in MCFiles |-> <<<<<<"tmp", "m.py">>, "app">>>>]
MCFilters == {{}, {MCLib}}
MCCwd == <<"cwd">>
MCStaging == <<"tmp">>
=============================================================================

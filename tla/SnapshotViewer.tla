--------------------------- MODULE SnapshotViewer ---------------------------
(***************************************************************************)
(* The terminal viewer (utils/tintype_viewer.py).  One step is a key and   *)
(* the drawing that follows it: drawing clamps the cursor and the scroll   *)
(* offset, and builds the text of a view that has none yet.  The size of   *)
(* the terminal may change at any time.                                    *)
(*                                                                         *)
(* A text is what it shows and its number of lines.                        *)
(***************************************************************************)
EXTENDS LineEditor, SequencesExt

CONSTANTS
  Files,        \* snapshot files: the snapshots, each a function from ids to
                \* stacktraces, and the paths of the embedded source files
  LinesOf,      \* the number of lines of the files, by path
  OnDisk,       \* the paths of files that are on disk and can be read
  NotText,      \* the paths of files that are on disk and cannot be decoded
  TextLines,    \* the number of lines of the views without a choice, by view
  PageStep,     \* how far the page keys go
  Center,       \* at which row a line is shown that is jumped to
  Heights,      \* the heights of the terminal
  DefaultPath,  \* the text with which the prompt starts
  Typed,        \* the characters that are typed
  MaxText       \* bound: length of the text in the prompt

\* What the reader gives out: sequences, and ids that are positive.
IsSequence(s) == s \in Seq(ToSet(s))
IsStacktrace(stack) ==
  /\ IsSequence(stack.frames)
  /\ \A i \in DOMAIN stack.frames : stack.frames[i].line \in Nat /\ stack.frames[i].locals \in Nat
IsSnapshot(snap) ==
  /\ IsFiniteSet(DOMAIN snap) /\ DOMAIN snap \subseteq Nat \ {0}
  /\ \A t \in DOMAIN snap : IsStacktrace(snap[t])

ASSUME ViewerAssumption ==
  /\ PageStep \in Nat /\ Center \in Nat /\ Heights \subseteq Nat /\ MaxText \in Nat
  /\ \A view \in {"metadata", "manifest", "environment", "statistics"} : TextLines[view] \in Nat
  /\ IsSequence(DefaultPath)
  /\ OnDisk \cap NotText = {} /\ \A path \in OnDisk : LinesOf[path] \in Nat
  /\ \A f \in Files :
       /\ IsSequence(f.snapshots) /\ \A i \in DOMAIN f.snapshots : IsSnapshot(f.snapshots[i])
       /\ IsSequence(f.sources) /\ \A n \in DOMAIN f.sources : LinesOf[f.sources[n]] \in Nat

VARIABLES
  file,     \* the file that is viewed
  ui,       \* the attributes of the viewer, as a record
  height,   \* rows of the terminal when it was last drawn
  prompt,   \* the line that is edited, or NoPrompt
  asked,    \* the prompt is for "one" file or for "all"
  written,  \* what the last key has extracted
  ended     \* "no", "quit" or "crashed"

vars == <<file, ui, height, prompt, asked, written, ended>>

Chains == INSTANCE ExceptionChains WITH MaxDepth <- 0

NoText == [shows |-> "nothing", lines |-> 0]
NoPrompt == [buf |-> <<>>, pos |-> -1, offset |-> 0]
NoStack == <<0, 0>>

TextViews == {"metadata", "manifest", "environment", "statistics", "source_content", "traceback"}

(***************************************************************************)
(* The rows of the lists.                                                  *)
(***************************************************************************)
MainRows == <<"snapshots", "metadata", "manifest", "environment", "statistics", "sources">>

SnapshotRows(u) ==
  LET rows(i) ==
        LET stacks == Chains!TreeItems(file.snapshots[i])
        IN  <<[kind |-> "snapshot", snapshot |-> i]>>
            \o (IF i \notin u.openSnapshots THEN <<>>
                ELSE [n \in DOMAIN stacks |->
                        [kind |-> "stacktrace", snapshot |-> i, stack |-> stacks[n]]])
  IN  FlattenSeq([i \in DOMAIN file.snapshots |-> rows(i)])

Stack(u) == file.snapshots[u.stack[1]][u.stack[2]]

\* An open frame without local variables has a row that says so.
FrameRows(u) ==
  LET rows(i) ==
        <<[kind |-> "frame", frame |-> i]>>
        \o (IF i \notin u.openFrames THEN <<>>
            ELSE [n \in 1..Max({1, Stack(u).frames[i].locals}) |-> [kind |-> "local", frame |-> i]])
  IN  FlattenSeq([i \in DOMAIN Stack(u).frames |-> rows(i)])

Rows(u) ==
  CASE u.view = "main" -> MainRows
    [] u.view = "snapshots" -> SnapshotRows(u)
    [] u.view = "frame" -> FrameRows(u)
    [] u.view = "sources" -> file.sources

\* _get_item_count
Count(u) == IF u.view \in TextViews THEN u.text.lines ELSE Len(Rows(u))

(***************************************************************************)
(* Views.                                                                  *)
(***************************************************************************)
\* Faulty: the place in the view that is left is reset before it is saved.
PushReset(u, view) ==
  [u EXCEPT !.views = Append(@, [view |-> u.view, cursor |-> 0, scroll |-> 0, text |-> u.text]),
            !.view = view, !.cursor = 0, !.scroll = 0, !.text = NoText]

Push(u, view) ==
  [u EXCEPT !.views = Append(@, [view |-> u.view, cursor |-> u.cursor, scroll |-> u.scroll,
                                 text |-> u.text]),
            !.view = view, !.cursor = 0, !.scroll = 0, !.text = NoText]

Pop(u) ==
  LET saved == Last(u.views)
  IN  [u EXCEPT !.views = Front(@), !.view = saved.view, !.cursor = saved.cursor,
                !.scroll = saved.scroll, !.text = saved.text]

\* The text of a view: the one of a source file has a head of two lines.
SourceText(path) == [shows |-> path, lines |-> LinesOf[path] + 2]
TextOf(u) ==
  CASE u.view = "source_content" -> SourceText(file.sources[u.source])
    [] u.view = "traceback" -> [shows |-> u.stack, lines |-> Len(Stack(u).frames) + 1]
    [] OTHER -> [shows |-> u.view, lines |-> TextLines[u.view]]

\* Faulty: the cursor is not clamped.
DrawListLoose(u, rows) ==
  [u EXCEPT !.scroll = IF u.cursor >= u.scroll + rows THEN u.cursor - rows + 1
                       ELSE Min({u.cursor, u.scroll})]

\* _clamp_cursor and _ensure_visible.
DrawList(u, rows) ==
  LET cursor == Max({0, Min({u.cursor, Count(u) - 1})})
      up == Min({cursor, u.scroll})
  IN  [u EXCEPT !.cursor = cursor,
                !.scroll = IF cursor >= up + rows THEN cursor - rows + 1 ELSE up]

DrawText(u, rows) ==
  LET text == IF u.text.lines = 0 THEN TextOf(u) ELSE u.text
  IN  [u EXCEPT !.text = text,
                !.scroll = Max({0, IF text.lines <= rows THEN 0 ELSE Min({@, text.lines - rows})})]

\* A list of no snapshots or no files is not drawn, nor is anything on a
\* terminal that is too small.  The list of frames has a line above it.
Draw(u, h) ==
  CASE h < 3 -> u
    [] h >= 3 /\ u.view \in TextViews -> DrawText(u, h - 2)
    [] h >= 3 /\ u.view = "frame" -> DrawList(u, h - 3)
    [] h >= 3 /\ u.view \in {"snapshots", "sources"} /\ Count(u) = 0 -> u
    [] OTHER -> DrawList(u, h - 2)

Init ==
  /\ file \in Files
  /\ ui = [view |-> "main", cursor |-> 0, scroll |-> 0, views |-> <<>>, text |-> NoText,
           stack |-> NoStack, openSnapshots |-> {}, openFrames |-> {}, source |-> 0,
           highlight |-> 0]
  /\ height \in Heights /\ prompt = NoPrompt /\ asked = "one" /\ written = {} /\ ended = "no"

SourcesOf(path) == {n \in DOMAIN file.sources : file.sources[n] = path}

\* A file that is not embedded is read from disk, and only an OSError is caught.
CannotDecode(path) == SourcesOf(path) = {} /\ path \in NotText

\* The files of a traceback, with the causes and contexts of an exception.
TracebackPaths(u) ==
  LET snap == file.snapshots[u.stack[1]]
      shown == IF Stack(u).exc THEN ToSet(Chains!ViewerWalk(snap, u.stack[2])) ELSE {u.stack[2]}
  IN  UNION {{snap[t].frames[i].path : i \in DOMAIN snap[t].frames} : t \in shown}

Undrawable(u) ==
  u.view = "traceback" /\ u.text.lines = 0 /\ \E path \in TracebackPaths(u) : CannotDecode(path)

\* The viewer becomes u, and draws itself, which may end it.
Becomes(u) ==
  /\ height' \in Heights
  /\ IF height' >= 3 /\ Undrawable(u) THEN ui' = u /\ ended' = "crashed"
     ELSE ui' = Draw(u, height') /\ UNCHANGED ended
  /\ written' = {}
  /\ UNCHANGED <<file, prompt, asked>>

Crash == ended' = "crashed" /\ UNCHANGED <<file, ui, height, prompt, asked, written>>

Waiting == ended = "no" /\ prompt = NoPrompt
InView(views) == Waiting /\ ui.view \in views
ListViews == {"main", "snapshots", "frame", "sources"}

(***************************************************************************)
(* Moving: j, k, g, G and the page keys.                                   *)
(***************************************************************************)
InText == ui.view \in TextViews
ScrollTo(n) == Waiting /\ InText /\ Becomes([ui EXCEPT !.scroll = n])
PointTo(n) == Waiting /\ ~InText /\ Becomes([ui EXCEPT !.cursor = n])

Down ==
  \/ ScrollTo(IF ui.scroll < Count(ui) - 1 THEN ui.scroll + 1 ELSE ui.scroll)
  \/ PointTo(IF ui.cursor < Count(ui) - 1 THEN ui.cursor + 1 ELSE ui.cursor)

Up ==
  \/ ScrollTo(IF ui.scroll > 0 THEN ui.scroll - 1 ELSE ui.scroll)
  \/ PointTo(IF ui.cursor > 0 THEN ui.cursor - 1 ELSE ui.cursor)

Home == Waiting /\ Becomes([ui EXCEPT !.cursor = 0, !.scroll = 0])

End == ScrollTo(Max({0, Count(ui) - 1})) \/ PointTo(Max({0, Count(ui) - 1}))

PageUp == ScrollTo(Max({0, ui.scroll - PageStep})) \/ PointTo(Max({0, ui.cursor - PageStep}))

\* Below the last row; in a list without rows that is the row -1.
PageDown ==
  \/ ScrollTo(Min({Max({0, Count(ui) - 1}), ui.scroll + PageStep}))
  \/ PointTo(Min({Count(ui) - 1, ui.cursor + PageStep}))

(***************************************************************************)
(* The row at the cursor.  The code looks only whether the cursor is below *)
(* the last row: a key that needs a row raises an IndexError at row -1.    *)
(***************************************************************************)
OnRow(kind) ==
  /\ ui.cursor \in 0..Count(ui) - 1
  /\ Rows(ui)[ui.cursor + 1].kind = kind
Row == Rows(ui)[ui.cursor + 1]

IndexError ==
  InView({"snapshots", "frame", "sources"}) /\ ui.cursor < 0 /\ Crash

Toggled(set, n) == IF n \in set THEN set \ {n} ELSE set \cup {n}

Selected(u) == [u EXCEPT !.stack = <<Row.snapshot, Row.stack>>]

EnterMain == InView({"main"}) /\ Becomes(Push(ui, MainRows[ui.cursor + 1]))

EnterStack ==
  /\ InView({"snapshots"}) /\ OnRow("stacktrace")
  /\ Becomes(Push([Selected(ui) EXCEPT !.openFrames = {}], "frame"))

ToggleSnapshot ==
  /\ InView({"snapshots"}) /\ OnRow("snapshot")
  /\ Becomes([ui EXCEPT !.openSnapshots = Toggled(@, Row.snapshot)])

ToggleFrame ==
  /\ InView({"frame"}) /\ OnRow("frame")
  /\ Becomes([ui EXCEPT !.openFrames = Toggled(@, Row.frame)])

EnterSource ==
  /\ InView({"sources"}) /\ ui.cursor \in 0..Count(ui) - 1
  /\ Becomes(Push([ui EXCEPT !.source = ui.cursor + 1, !.highlight = 0], "source_content"))

OpenAll ==
  \/ InView({"snapshots"}) /\ Becomes([ui EXCEPT !.openSnapshots = DOMAIN file.snapshots])
  \/ InView({"frame"}) /\ Becomes([ui EXCEPT !.openFrames = DOMAIN Stack(ui).frames])

CloseAll ==
  \/ InView({"snapshots"}) /\ Becomes([ui EXCEPT !.openSnapshots = {}])
  \/ InView({"frame"}) /\ Becomes([ui EXCEPT !.openFrames = {}])

\* The right arrow never closes a row.
Expand ==
  \/ /\ InView({"snapshots"}) /\ OnRow("snapshot")
     /\ Becomes([ui EXCEPT !.openSnapshots = @ \cup {Row.snapshot}])
  \/ /\ InView({"frame"}) /\ OnRow("frame")
     /\ Becomes([ui EXCEPT !.openFrames = @ \cup {Row.frame}])

(***************************************************************************)
(* Back: q and Escape, and the left arrow.                                 *)
(***************************************************************************)
Back ==
  /\ Waiting
  /\ IF ui.views # <<>> THEN Becomes(Pop(ui))
     ELSE ended' = "quit" /\ UNCHANGED <<file, ui, height, prompt, asked, written>>

\* The row above that the row at the cursor belongs to.
Parent(kind) ==
  Max({n \in 0..ui.cursor - 1 : Rows(ui)[n + 1].kind = kind})

\* From an open row the left arrow closes it, from one below it goes up to it.
Left ==
  \/ InView({"sources"} \cup TextViews) /\ Becomes(Pop(ui))
  \/ /\ InView({"snapshots"}) /\ OnRow("snapshot")
     /\ Becomes(IF Row.snapshot \in ui.openSnapshots
                THEN [ui EXCEPT !.openSnapshots = @ \ {Row.snapshot}] ELSE Pop(ui))
  \/ /\ InView({"frame"}) /\ OnRow("frame")
     /\ Becomes(IF Row.frame \in ui.openFrames
                THEN [ui EXCEPT !.openFrames = @ \ {Row.frame}] ELSE Pop(ui))
  \/ /\ InView({"snapshots"}) /\ OnRow("stacktrace")
     /\ Becomes([ui EXCEPT !.cursor = Parent("snapshot")])
  \/ InView({"frame"}) /\ OnRow("local") /\ Becomes([ui EXCEPT !.cursor = Parent("frame")])
  \/ InView({"snapshots", "frame"}) /\ ui.cursor >= Count(ui) /\ Becomes(Pop(ui))

(***************************************************************************)
(* Tracebacks and files.                                                   *)
(***************************************************************************)
Traceback ==
  /\ InView({"snapshots"}) /\ OnRow("stacktrace")
  /\ Becomes(Push(Selected(ui), "traceback"))

\* A registered action is given the stacktrace at the cursor.
RunAction == InView({"snapshots"}) /\ OnRow("stacktrace") /\ Becomes(Selected(ui))

\* Faulty: the head of two lines is not counted.
LineAtTop(u, line) ==
  [u EXCEPT !.scroll = Max({0, Min({line - 1, u.text.lines - 1}) - Center})]

\* The line of a file is two rows further down.
Centred(u, line) ==
  [u EXCEPT !.scroll = Max({0, Min({line + 1, u.text.lines - 1}) - Center})]

\* The file of the frame at the cursor, also from one of its variables: an
\* embedded file, or one on disk.
ViewFile ==
  /\ InView({"frame"}) /\ (OnRow("frame") \/ OnRow("local"))
  /\ LET frame == Stack(ui).frames[Row.frame]
         embedded == SourcesOf(frame.path)
         opened == Push([ui EXCEPT !.highlight = frame.line,
                                   !.source = IF embedded = {} THEN @ ELSE Min(embedded)],
                        "source_content")
     IN  /\ embedded # {} \/ frame.path \in OnDisk
         /\ Becomes(Centred([opened EXCEPT !.text = SourceText(frame.path)], frame.line))

\* A file on disk that cannot be decoded ends the viewer.
ViewFileFails ==
  /\ InView({"frame"}) /\ (OnRow("frame") \/ OnRow("local"))
  /\ CannotDecode(Stack(ui).frames[Row.frame].path) /\ Crash

(***************************************************************************)
(* Extraction, to a path that is asked for.                                *)
(***************************************************************************)
StartPrompt(u, what) ==
  /\ ui' = u /\ asked' = what /\ prompt' = Prompt(DefaultPath)
  /\ UNCHANGED <<file, height, written, ended>>

\* e, for the file at the cursor or for the one that is shown, and a.
Extract ==
  \/ /\ InView({"sources"}) /\ ui.cursor \in 0..Count(ui) - 1
     /\ StartPrompt([ui EXCEPT !.source = ui.cursor + 1], "one")
  \/ InView({"source_content"}) /\ ui.source # 0 /\ StartPrompt(ui, "one")
  \/ InView({"sources"}) /\ Count(ui) > 0 /\ StartPrompt(ui, "all")

Prompting == ended = "no" /\ prompt # NoPrompt

Edit ==
  /\ Prompting
  /\ \E line \in Edits(prompt, IF Len(prompt.buf) < MaxText THEN Typed ELSE {}) :
       prompt' = Redraw(line)
  /\ UNCHANGED <<file, ui, height, asked, written, ended>>

\* The viewer draws itself after the prompt.
EndPrompt ==
  /\ Prompting /\ prompt' = NoPrompt /\ asked' = "one"
  /\ height' \in Heights /\ ui' = Draw(ui, height')
  /\ UNCHANGED <<file, ended>>

\* The pairs of a file that the user meant and the file that is written.
Extracted ==
  IF asked = "all" THEN {<<file.sources[n], file.sources[n]>> : n \in DOMAIN file.sources}
  ELSE {<<IF InText THEN ui.text.shows ELSE Row, file.sources[ui.source]>>}

\* Each file may fail to be written; the first failure ends it.
Accept ==
  /\ EndPrompt
  /\ \/ prompt.buf # <<>> /\ written' \in SUBSET Extracted
     \/ written' = {}

Cancel == EndPrompt /\ written' = {}

Next ==
  \/ Down \/ Up \/ Home \/ End \/ PageUp \/ PageDown
  \/ IndexError \/ EnterMain \/ EnterStack \/ ToggleSnapshot \/ ToggleFrame \/ EnterSource
  \/ OpenAll \/ CloseAll \/ Expand \/ Back \/ Left
  \/ Traceback \/ RunAction \/ ViewFile \/ ViewFileFails
  \/ Extract \/ Edit \/ Accept \/ Cancel

Spec == Init /\ [][Next]_vars

(***************************************************************************)
(* Properties.                                                             *)
(***************************************************************************)
\* Whatever was open or scrolled before and however the terminal was resized:
\* the row at the cursor is on the screen, a text is not scrolled past its end,
\* and the viewer crashes only in a list without rows, or on a file on disk that
\* cannot be decoded, the one of the frame at the cursor or one of a traceback.
OnScreen ==
  /\ height >= 4 /\ prompt = NoPrompt /\ ended = "no" =>
       LET rows == height - (IF ui.view = "frame" THEN 3 ELSE 2)
       IN  IF InText THEN ui.scroll \in 0..Max({0, Count(ui) - rows})
           ELSE Count(ui) > 0 => /\ ui.cursor \in 0..Count(ui) - 1
                                 /\ ui.cursor \in ui.scroll..ui.scroll + rows - 1
  /\ ended = "crashed" =>
       CASE ui.view = "traceback" -> \E path \in TracebackPaths(ui) : CannotDecode(path)
         [] ui.view = "frame" /\ Count(ui) > 0 -> CannotDecode(Stack(ui).frames[Row.frame].path)
         [] OTHER -> ~InText /\ Count(ui) = 0

Saved(n) == IF n = 0 THEN ui ELSE [ui EXCEPT !.view = ui.views[n].view, !.cursor = ui.views[n].cursor]

\* The way back leads to where the view was opened: the rows of the views that
\* have been left are as they were, with the stacktrace and the file that are
\* shown at their cursors.
BackToOrigin ==
  \A n \in DOMAIN ui.views :
    LET left == Saved(n)
        next == IF n = Len(ui.views) THEN ui ELSE Saved(n + 1)
        row == Rows(left)[left.cursor + 1]
    IN  CASE left.view = "main" -> next.view = row
          [] left.view = "snapshots" ->
               row.kind = "stacktrace" /\ ui.stack = <<row.snapshot, row.stack>>
          [] left.view = "frame" ->
               /\ ui.text.shows = Stack(ui).frames[row.frame].path
               /\ ui.highlight = Stack(ui).frames[row.frame].line
          [] left.view = "sources" ->
               ui.text.lines > 0 => ui.text.shows = row /\ ui.source = left.cursor + 1

\* A file is opened at the line of the frame, if the terminal has more rows than
\* there are above that line.
OpensAtLine ==
  [][/\ ui.view = "frame" /\ ui'.view = "source_content"
     /\ height' - 2 > Center /\ ui'.highlight <= LinesOf[ui'.text.shows]
     => ui'.highlight + 1 \in ui'.scroll..ui'.scroll + height' - 3]_vars

\* The cursor of the prompt is in the text and in the window, and what is
\* deleted or typed is next to it.
EditsAtCursor ==
  [][prompt # NoPrompt /\ prompt' # NoPrompt =>
       /\ prompt'.pos \in 0..Len(prompt'.buf)
       /\ prompt'.pos \in prompt'.offset..prompt'.offset + FieldWidth - 1
       /\ \/ prompt'.buf = prompt.buf
          \/ Behind(prompt') = Behind(prompt) /\ IsPrefix(Before(prompt'), Before(prompt))
          \/ Before(prompt') = Before(prompt) /\ IsSuffix(Behind(prompt'), Behind(prompt))
          \/ Behind(prompt') = Behind(prompt) /\ Front(Before(prompt')) = Before(prompt)]_vars

\* The file that is extracted is the one that is shown ("extract current file").
\* It does not hold: a file on disk does not become the selected file.
ExtractsShown == \A w \in written : w[1] = w[2]
=============================================================================

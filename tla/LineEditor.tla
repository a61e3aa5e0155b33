----------------------------- MODULE LineEditor -----------------------------
(***************************************************************************)
(* The path prompt of the terminal viewer (_prompt_path in                 *)
(* utils/tintype_viewer.py): a line of text, the position of the cursor in *)
(* it, and the part of it that the screen shows, as functions on a record. *)
(***************************************************************************)
EXTENDS Integers, Sequences, FiniteSets, FiniteSetsExt

CONSTANTS
  WordChars,  \* letters, digits and the underscore
  FieldWidth  \* columns of the field

ASSUME FieldAssumption == FieldWidth \in Nat \ {0}

Before(line) == SubSeq(line.buf, 1, line.pos)
Behind(line) == SubSeq(line.buf, line.pos + 1, Len(line.buf))

\* Faulty: the window does not follow the cursor to the right.
RedrawLeft(line) == [line EXCEPT !.offset = Max({0, Min({line.offset, line.pos})})]

\* _redraw: the window follows the cursor.
Redraw(line) ==
  LET left == Min({line.offset, line.pos})
  IN  [line EXCEPT !.offset =
         Max({0, IF line.pos >= left + FieldWidth THEN line.pos - FieldWidth + 1 ELSE left})]

Prompt(default) == Redraw([buf |-> default, pos |-> Len(default), offset |-> 0])

\* Backward over other characters, then over a word; forward the other way.
WordBack(line) ==
  LET isWord(p) == line.buf[p] \in WordChars
      end == Max({p \in 0..line.pos : p = 0 \/ isWord(p)})
  IN  Max({p \in 0..end : p = 0 \/ ~isWord(p)})

WordForward(line) ==
  LET isWord(p) == line.buf[p] \in WordChars
      n == Len(line.buf)
      end == Min({p \in line.pos..n : p = n \/ ~isWord(p + 1)})
  IN  Min({p \in end..n : p = n \/ isWord(p + 1)})

MoveTo(line, pos) == [line EXCEPT !.pos = pos]

\* Faulty: the cursor stays where it was.
KillBackOnly(line, pos) == [line EXCEPT !.buf = SubSeq(@, 1, pos) \o Behind(line)]

KillBack(line, pos) ==
  [line EXCEPT !.buf = SubSeq(@, 1, pos) \o Behind(line), !.pos = pos]
KillForward(line, pos) ==
  [line EXCEPT !.buf = Before(line) \o SubSeq(@, pos + 1, Len(@))]
Type(line, c) ==
  [line EXCEPT !.buf = Append(Before(line), c) \o Behind(line), !.pos = @ + 1]

\* What a key makes of the line.
Edits(line, typed) ==
  {MoveTo(line, Max({0, line.pos - 1})), MoveTo(line, Min({Len(line.buf), line.pos + 1})),
   MoveTo(line, 0), MoveTo(line, Len(line.buf)),
   MoveTo(line, WordBack(line)), MoveTo(line, WordForward(line)),
   KillBack(line, Max({0, line.pos - 1})), KillBack(line, 0), KillBack(line, WordBack(line)),
   KillForward(line, Min({Len(line.buf), line.pos + 1})), KillForward(line, Len(line.buf)),
   KillForward(line, WordForward(line))}
  \cup {Type(line, c) : c \in typed}
=============================================================================

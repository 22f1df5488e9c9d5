------------------------------ MODULE Terminal ------------------------------
(* A terminal: the Abstractor, which takes escape sequences out of what is  *)
(* written (src/dev/tty/abstractor.cpp), and the screens, in text mode      *)
(* (txtty.cpp) and on a frame buffer (grtty.cpp), which takes over from the *)
(* former during the boot (src/arch/x86_64/dev/tty.cpp).                    *)
(* A cell of a screen stands for a character, or for the pixels of its      *)
(* glyph. One writer at a time.                                             *)
EXTENDS Integers, Sequences, SequencesExt

CONSTANTS TmTokens,       \* what is written: [chars, means]
          TmSmall, TmLarge,  \* <<width, height>> of the two screens
          TmArgs, TmDigits,  \* arguments of a sequence, digits of an argument
          TmMaxTokens        \* bound

VARIABLES tmTty,          \* the VTTY: kind, size, cursor, colours, and what it shows
          tmParser,       \* the Abstractor
          tmTodo,         \* characters of the present write()
          tmShould,       \* what should be seen
          tmDrawn,        \* a program has drawn on the frame buffer
          tmTokens

tmVars == <<tmTty, tmParser, tmTodo, tmShould, tmDrawn, tmTokens>>

Digits == [d \in {"0", "1", "2", "3", "4", "9"} |->
             CASE d = "0" -> 0 [] d = "1" -> 1 [] d = "2" -> 2 [] d = "3" -> 3 [] d = "4" -> 4 [] d = "9" -> 9]
Stoi(s) == FoldLeft(LAMBDA n, d : 10 * n + Digits[d], 0, s)

Cell(c, fg, bg) == [c |-> c, fg |-> fg, bg |-> bg]
Blank(bg) == Cell(" ", 0, bg)
Cells(size) == (0 .. size[1] - 1) \X (0 .. size[2] - 1)
AllBlank(size, bg) == [p \in Cells(size) |-> Blank(bg)]
NewTty(kind, size) == [kind |-> kind, size |-> size, x |-> 0, y |-> 0, fg |-> 7, bg |-> 0, text |-> TRUE,
                       out |-> AllBlank(size, 0), double |-> AllBlank(size, 0)]
NewParser == [state |-> "OUT", cat |-> "", arg |-> 0, args |-> [i \in 0 .. TmArgs - 1 |-> 0], buffer |-> <<>>]

----------------------------------------------------------------------------
(* TxTTY and GrTTY                                                          *)

\* memcpy of the rows below the first over the first, and a blank last row.
Up(cells, size, bg) ==
    [p \in Cells(size) |-> IF p[2] = size[2] - 1 THEN Blank(bg) ELSE cells[<<p[1], p[2] + 1>>]]

\* scroll(1): GrTTY moves its copy and shows that, in text mode only.
Scroll(t) ==
    CASE t.kind = "tx" -> [t EXCEPT !.out = Up(t.out, t.size, t.bg)]
      [] t.kind = "gr" /\ t.text -> LET up == Up(t.double, t.size, t.bg)
                                    IN  [t EXCEPT !.out = up, !.double = up]
      [] OTHER -> t

\* m_output[], or put() into both buffers.
Put(t, c) ==
    CASE t.kind = "tx" -> [t EXCEPT !.out[<<t.x, t.y>>] = Cell(c, t.fg, t.bg)]
      [] t.kind = "gr" /\ t.text -> [t EXCEPT !.out[<<t.x, t.y>>] = Cell(c, t.fg, t.bg),
                                              !.double[<<t.x, t.y>>] = Cell(c, t.fg, t.bg)]
      [] OTHER -> t

\* To the next column, or the next line.
Advance(t) == IF t.x + 1 >= t.size[1] THEN [t EXCEPT !.x = 0, !.y = @ + 1] ELSE [t EXCEPT !.x = @ + 1]

\* _write()
TtyWrite(t, c) ==
    LET moved == CASE c = "nl" -> [t EXCEPT !.x = 0, !.y = @ + 1]
                   [] c = "cr" -> [t EXCEPT !.x = 0]
                   [] OTHER -> Advance(Put(t, c))
    IN  IF moved.y >= t.size[2] THEN Scroll([moved EXCEPT !.y = @ - 1]) ELSE moved

\* color()
Color(t, code) ==
    CASE code \in 30 .. 37   -> [t EXCEPT !.fg = code - 30]
      [] code \in 40 .. 47   -> [t EXCEPT !.bg = code - 40]
      [] code \in 90 .. 97   -> [t EXCEPT !.fg = code - 90 + 8]
      [] code \in 100 .. 107 -> [t EXCEPT !.bg = code - 100 + 8]
      [] OTHER -> t

----------------------------------------------------------------------------
(* Abstractor                                                               *)

\* flush_ansi()
FlushAnsi(t, p, code) ==
    CASE p.cat = "[" /\ code = "m" -> Color(t, p.args[0])
      [] p.cat = "[" /\ code = "H" -> [t EXCEPT !.x = p.args[0], !.y = p.args[1]]
      [] OTHER -> t

\* Mutant: the arguments of the next sequence go after those of this one.
AfterSequenceKept(p) == [p EXCEPT !.state = "OUT"]
\* Back to plain text, with the argument counter at the first.
AfterSequence(p) == [p EXCEPT !.state = "OUT", !.arg = 0]

\* The end of an argument: its value is kept, the last place for all beyond.
NextArg(p) ==
    [p EXCEPT !.args[p.arg] = Stoi(p.buffer), !.buffer = <<>>,
              !.arg = IF p.arg + 1 = TmArgs THEN p.arg ELSE p.arg + 1]

\* _write()
WriteChar ==
    /\ tmTodo # <<>>
    /\ tmTodo' = Tail(tmTodo)
    /\ LET c == Head(tmTodo)
           p == tmParser
       IN  CASE p.state = "OUT" /\ c = "esc" ->
                    tmParser' = [p EXCEPT !.state = "CAT"] /\ UNCHANGED tmTty
             [] p.state = "OUT" /\ c # "esc" ->
                    tmTty' = TtyWrite(tmTty, c) /\ UNCHANGED tmParser
             [] p.state = "CAT" ->
                    tmParser' = [p EXCEPT !.state = "ARGS", !.cat = c, !.buffer = <<>>] /\ UNCHANGED tmTty
             [] p.state = "ARGS" /\ c \in DOMAIN Digits ->
                    /\ tmParser' = [p EXCEPT !.buffer = Append(IF Len(@) = TmDigits THEN Front(@) ELSE @, c)]
                    /\ UNCHANGED tmTty
             [] p.state = "ARGS" /\ c \in {":", ";"} ->
                    tmParser' = NextArg(p) /\ UNCHANGED tmTty
             [] OTHER ->
                    /\ tmTty' = FlushAnsi(tmTty, NextArg(p), c)
                    /\ tmParser' = AfterSequence(NextArg(p))
    /\ UNCHANGED <<tmShould, tmDrawn, tmTokens>>

----------------------------------------------------------------------------
(* What should be seen: rows without end, of which the screen shows those   *)
(* from "top" on.                                                           *)

NewShould == [size |-> TmSmall, top |-> 0, x |-> 0, y |-> 0, fg |-> 7, bg |-> 0, text |-> TRUE,
              rows |-> [p \in (0 .. TmLarge[1] - 1) \X (0 .. TmMaxTokens + TmLarge[2]) |-> Blank(0)]]

\* The cursor is kept on the screen by moving the screen down.
Follow(s) ==
    IF s.y - s.top < s.size[2] THEN s
    ELSE [s EXCEPT !.top = @ + 1,
                   !.rows = [p \in DOMAIN @ |-> IF p[2] = s.y /\ p[1] < s.size[1] /\ s.text THEN Blank(s.bg) ELSE @[p]]]

Meant(s, m) ==
    CASE m[1] = "put" ->
           LET w == IF s.text THEN [s EXCEPT !.rows[<<s.x, s.y>>] = Cell(m[2], s.fg, s.bg)] ELSE s
           IN  Follow(IF s.x + 1 = s.size[1] THEN [w EXCEPT !.x = 0, !.y = @ + 1] ELSE [w EXCEPT !.x = @ + 1])
      [] m[1] = "nl"   -> Follow([s EXCEPT !.x = 0, !.y = @ + 1])
      [] m[1] = "cr"   -> [s EXCEPT !.x = 0]
      [] m[1] = "fg"   -> [s EXCEPT !.fg = m[2]]
      [] m[1] = "bg"   -> [s EXCEPT !.bg = m[2]]
      [] m[1] = "move" -> [s EXCEPT !.x = m[2], !.y = s.top + m[3]]
      [] OTHER -> s

Window(s) == [p \in Cells(s.size) |-> s.rows[<<p[1], p[2] + s.top>>]]

----------------------------------------------------------------------------
(* Writers, and the calls that change the mode.                             *)

\* TTYChar::write(), printk().
Write ==
    /\ tmTodo = <<>> /\ tmTokens < TmMaxTokens
    /\ \E token \in TmTokens : tmTodo' = token.chars /\ tmShould' = Meant(tmShould, token.means)
    /\ tmTokens' = tmTokens + 1
    /\ UNCHANGED <<tmTty, tmParser, tmDrawn>>

\* init_mem(): a GrTTY takes the characters and the cursor of the TxTTY; it has
\* the first colours, and a new Abstractor.
InitMem ==
    /\ tmTodo = <<>> /\ tmTty.kind = "tx"
    /\ LET shown == [p \in Cells(TmLarge) |-> IF p \in Cells(TmSmall) THEN tmTty.out[p] ELSE Blank(0)]
       IN  tmTty' = [NewTty("gr", TmLarge) EXCEPT !.out = shown, !.double = shown, !.x = tmTty.x, !.y = tmTty.y]
    /\ tmParser' = NewParser
    /\ tmShould' = [tmShould EXCEPT !.size = TmLarge, !.fg = 7, !.bg = 0]
    /\ UNCHANGED <<tmTodo, tmDrawn, tmTokens>>

\* ioctl() VTMODE: TTYChar::ioctl(), GrTTY::graphics() and text(). TxTTY has no
\* graphics.
Graphics ==
    /\ tmTodo = <<>> /\ tmTty.kind = "gr" /\ tmTokens < TmMaxTokens
    /\ tmTty' = [tmTty EXCEPT !.text = FALSE, !.out = AllBlank(tmTty.size, 0), !.double = AllBlank(tmTty.size, 0)]
    /\ tmShould' = [tmShould EXCEPT !.text = FALSE, !.rows = [p \in DOMAIN @ |-> Blank(0)]]
    /\ tmTokens' = tmTokens + 1
    /\ UNCHANGED <<tmParser, tmTodo, tmDrawn>>

Text ==
    /\ tmTodo = <<>> /\ tmTty.kind = "gr" /\ ~tmTty.text
    /\ tmTty' = [tmTty EXCEPT !.text = TRUE]
    /\ tmShould' = [tmShould EXCEPT !.text = TRUE]
    /\ UNCHANGED <<tmParser, tmTodo, tmDrawn, tmTokens>>

\* A program that has the frame buffer mapped draws.
Draw ==
    /\ tmTodo = <<>> /\ tmTty.kind = "gr" /\ ~tmTty.text /\ ~tmDrawn
    /\ tmTty' = [tmTty EXCEPT !.out[<<0, 0>>] = Cell("drawn", 0, 0)]
    /\ tmDrawn' = TRUE
    /\ UNCHANGED <<tmParser, tmTodo, tmShould, tmTokens>>

TmInit ==
    /\ tmTty = NewTty("tx", TmSmall) /\ tmParser = NewParser /\ tmTodo = <<>>
    /\ tmShould = NewShould /\ tmDrawn = FALSE /\ tmTokens = 0

TmNext == WriteChar \/ Write \/ InitMem \/ Graphics \/ Text \/ Draw

----------------------------------------------------------------------------
(* Properties.                                                             *)

\* What is seen is what was written, in its colours, with no part of an escape
\* sequence, over wraps, scrolling, cursor movement and the change to the
\* frame buffer; what a program has drawn is on the frame buffer alone.
ScreenAsWritten ==
    tmTodo = <<>> =>
        /\ tmTty.x = tmShould.x /\ tmTty.y = tmShould.y - tmShould.top
        /\ tmTty.fg = tmShould.fg /\ tmTty.bg = tmShould.bg
        /\ ~tmDrawn => tmTty.out = Window(tmShould)
        /\ tmTty.kind = "gr" => tmTty.double = Window(tmShould)
=============================================================================

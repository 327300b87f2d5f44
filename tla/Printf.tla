------------------------------- MODULE Printf -------------------------------
(***************************************************************************)
(* printf of fb/printf.c, called by several CPUs, and the screen it puts   *)
(* characters on, fb/fb.c.  printf_lock is held by one caller at a time    *)
(* (SpinLock).  The terminal, dev/tty.c, puts characters on the same       *)
(* screen without it, what programs write and what is typed.               *)
(*                                                                         *)
(* A character is put in one step.  Where two CPUs put one at the same     *)
(* time, or a backspace takes the cursor below column 0, what comes on the *)
(* screen is not said, and the behaviour ends (garbled).                   *)
(***************************************************************************)
EXTENDS Format

CONSTANTS
  Callers,
  Calls,        \* what a caller may print: a format and its arguments
  Terminals,    \* CPUs in tty_write or tty_read
  Typed,        \* what they put
  Columns, Rows \* of the screen, in characters; "bs" is the backspace

VARIABLES
  printf_lock,  \* its holder, or "free"
  call,         \* of each caller
  output,       \* history: the characters put
  paper,        \* history: the lines put, and the column of the pen
  rows, curr_x, curr_y,
  garbled

printfVars == <<printf_lock, call, output, paper, rows, curr_x, curr_y, garbled>>
screenVars == <<output, paper, rows, curr_x, curr_y, garbled>>

---------------------------------------------------------------------------
(* One turn of the loop of vprintf.  (What %n stores is left out.)         *)

uint_str(i, d) == Padded(PlusOrSpace(d) \o Digits(i, d.base), d)

Expo(d) == CASE d.specifier = "e" -> <<"e", "+", "0", "0">>
             [] d.specifier = "E" -> <<"E", "+", "0", "0">>
             [] OTHER -> <<>>

Formatted(d) ==
  LET raw == Head(d.args)
      bits == Bits(d.length)
      To(out, rest) == [out |-> out, next |-> d.next, args |-> rest]
  IN  CASE d.specifier \in {"u", "x", "X"} /\ d.length # "L" ->
             To(Prefix(d) \o uint_str(Unsigned(raw, bits), d), Tail(d.args))
        [] d.specifier \in {"d", "i"} /\ d.length # "L" ->
             To(int_str(Signed(raw, bits), d), Tail(d.args))
        [] d.specifier = "c" -> To(<<raw>>, Tail(d.args))
        [] d.specifier = "s" -> To(raw, Tail(d.args))
        [] d.specifier = "n" /\ d.length # "L" -> To(<<>>, Tail(d.args))
        [] OTHER -> To(Prefix(d) \o Expo(d), d.args)

Turn(f, i, args) ==
  IF f[i] = "%" THEN Formatted(Directive(f, i + 1, args))
  ELSE [out |-> <<f[i]>>, next |-> i + 1, args |-> args]

RECURSIVE VprintfFrom(_, _, _)
VprintfFrom(f, i, args) ==
  IF i > Len(f) THEN <<>>
  ELSE LET t == Turn(f, i, args) IN t.out \o VprintfFrom(f, t.next, t.args)

---------------------------------------------------------------------------
(* The screen.                                                             *)

Blank == [x \in 0 .. Columns - 1 |-> " "]
Junk == [x \in 0 .. Columns - 1 |-> "?"]

(* Mutant: the screen moves up by one row only.                            *)
ScrolledOnce(r) == [y \in 0 .. Rows - 1 |-> IF y + 1 < Rows THEN r[y + 1] ELSE Junk]

(* knewline moves the screen up by one row, twice; what lies in memory     *)
(* behind the framebuffer moves in.  The cursor goes up one row.           *)
Scrolled(r) == [y \in 0 .. Rows - 1 |-> IF y + 2 < Rows THEN r[y + 2] ELSE Junk]

Newline(s) ==
  IF s.y + 2 > Rows THEN [rows |-> Scrolled(s.rows), x |-> 0, y |-> s.y - 1]
  ELSE [rows |-> s.rows, x |-> 0, y |-> s.y + 1]

putnc(s, c) == [s.rows EXCEPT ![s.y][s.x] = c]

putc(s, c) ==
  CASE c = "\n" -> Newline(s)
    [] c = "\r" -> [s EXCEPT !.x = 0]
    [] c = "bs" -> LET t == [s EXCEPT !.x = @ - 1] IN [t EXCEPT !.rows = putnc(t, " ")]
    [] OTHER -> LET t == IF s.x + 1 > Columns THEN Newline(s) ELSE s
                IN  [rows |-> putnc(t, c), x |-> t.x + 1, y |-> t.y]

Screen == [rows |-> rows, x |-> curr_x, y |-> curr_y]

(* What putc should do, on paper of any length.                            *)
Write(c) ==
  LET n == Len(paper.lines)
      line == paper.lines[n]
      pen == paper.pen
  IN  CASE c = "\n" -> [lines |-> Append(paper.lines, <<>>), pen |-> 0]
        [] c = "\r" -> [paper EXCEPT !.pen = 0]
        [] c = "bs" -> [lines |-> [paper.lines EXCEPT ![n][pen] = " "], pen |-> pen - 1]
        [] c \notin {"\n", "\r", "bs"} /\ pen = Columns ->
             [lines |-> Append(paper.lines, <<c>>), pen |-> 1]
        [] OTHER -> [lines |-> [paper.lines EXCEPT ![n] =
                                  [x \in 1 .. Max({Len(line), pen + 1}) |-> IF x = pen + 1 THEN c ELSE line[x]]],
                     pen |-> pen + 1]

---------------------------------------------------------------------------
Out == [pc |-> "out"]

Init ==
  /\ printf_lock = "free"
  /\ call = [c \in Callers \cup Terminals |-> Out]
  /\ output = <<>>
  /\ paper = [lines |-> <<<<>>>>, pen |-> 0]
  /\ rows = [y \in 0 .. Rows - 1 |-> Blank]
  /\ curr_x = 0 /\ curr_y = 0 /\ garbled = FALSE

printf(c, what) ==
  /\ call[c] = Out
  /\ call' = [call EXCEPT ![c] =
       [pc |-> "lock", what |-> what, i |-> 1, args |-> what[2], pending |-> <<>>, chars |-> 0]]
  /\ UNCHANGED printf_lock /\ UNCHANGED screenVars

Lock(c) ==
  /\ call[c].pc = "lock" /\ printf_lock = "free"
  /\ printf_lock' = c
  /\ call' = [call EXCEPT ![c].pc = "turn"]
  /\ UNCHANGED screenVars

vprintf(c) ==
  LET k == call[c]
      t == Turn(k.what[1], k.i, k.args)
  IN  /\ k.pc = "turn" /\ k.pending = <<>> /\ k.i <= Len(k.what[1])
      /\ call' = [call EXCEPT ![c].i = t.next, ![c].args = t.args, ![c].pending = t.out]
      /\ UNCHANGED printf_lock /\ UNCHANGED screenVars

putchar(c, char) ==
  LET s == putc(Screen, char)
  IN  \/ char = "bs" /\ curr_x = 0 /\ garbled' = TRUE /\ UNCHANGED <<output, paper, rows, curr_x, curr_y>>
      \/ /\ char = "bs" => curr_x > 0
         /\ output' = Append(output, <<c, char>>)
         /\ paper' = Write(char)
         /\ rows' = s.rows /\ curr_x' = s.x /\ curr_y' = s.y
         /\ UNCHANGED garbled

displayCharacter(c) ==
  /\ call[c].pc = "turn" /\ call[c].pending # <<>>
  /\ putchar(c, Head(call[c].pending))
  /\ call' = [call EXCEPT ![c].pending = Tail(@), ![c].chars = @ + 1]
  /\ UNCHANGED printf_lock

Return(c) ==
  /\ call[c].pc = "turn" /\ call[c].pending = <<>> /\ call[c].i > Len(call[c].what[1])
  /\ call' = [call EXCEPT ![c].pc = "done"]
  /\ printf_lock' = "free"
  /\ UNCHANGED screenVars

(* tty_write and the echo of tty_read                                      *)
tty_write(c, text) ==
  /\ call[c] = Out
  /\ call' = [call EXCEPT ![c] = [pc |-> "tty", pending |-> text]]
  /\ UNCHANGED printf_lock /\ UNCHANGED screenVars

ttyPut(c) ==
  /\ call[c].pc = "tty" /\ call[c].pending # <<>>
  /\ putchar(c, Head(call[c].pending))
  /\ call' = [call EXCEPT ![c].pending = Tail(@)]
  /\ UNCHANGED printf_lock

Putting(c) == call[c].pc \in {"turn", "tty"} /\ call[c].pending # <<>>

(* Two CPUs are in putc at once, on one cursor.                            *)
Overlap(c, d) ==
  /\ c # d /\ Putting(c) /\ Putting(d)
  /\ garbled' = TRUE
  /\ UNCHANGED <<printf_lock, call, output, paper, rows, curr_x, curr_y>>

Step(c) == Lock(c) \/ vprintf(c) \/ displayCharacter(c) \/ Return(c)
Next ==
  /\ ~garbled
  /\ \/ \E c \in Callers : Step(c) \/ \E what \in Calls : printf(c, what)
     \/ \E c \in Terminals : ttyPut(c) \/ \E text \in Typed : tty_write(c, text)
     \/ \E c, d \in Callers \cup Terminals : Overlap(c, d)

---------------------------------------------------------------------------
(* Up to the first two characters put at once: a kernel printf is printed  *)
(* as a whole, its text in one piece but for what the terminal puts in     *)
(* between, and it returns the number of its characters.                   *)
Untorn ==
  LET printed == SelectSeq(output, LAMBDA x : x[1] \in Callers)
  IN  \A c \in Callers : call[c].pc = "done" =>
        LET text == VprintfFrom(call[c].what[1], 1, call[c].what[2])
        IN  /\ call[c].chars = Len(text)
            /\ \E k \in 0 .. Len(printed) - Len(text) :
                 SubSeq(printed, k + 1, k + Len(text)) = [i \in DOMAIN text |-> <<c, text[i]>>]

(* Up to there, the rows down to the cursor show the last lines printed:   *)
(* scrolling loses none that is still on the screen, and no line covers    *)
(* another.                                                                *)
ShowsLastLines ==
  LET n == Len(paper.lines)
  IN  /\ curr_x = paper.pen /\ curr_y \in 0 .. Rows - 1
      /\ \A y \in 0 .. curr_y : y > curr_y - n =>
           LET line == paper.lines[n - (curr_y - y)]
           IN  \A x \in 1 .. Len(line) : rows[y][x - 1] = line[x]

(* A printf puts characters only while it holds printf_lock, and holds it  *)
(* no longer.                                                              *)
HolderPrints == \A c \in Callers : call[c].pc = "turn" <=> printf_lock = c

(* A number is printed as what was passed, except the least intmax_t and   *)
(* where zeros are put behind it.                                          *)
PrintsNumber(f, raw) ==
  LET d == Directive(f, 2, <<raw>>)
      value == IF d.specifier \in {"d", "i"} THEN Signed(raw, Bits(d.length)) ELSE Unsigned(raw, Bits(d.length))
  IN  value # -(2^(MaxBits - 1)) /\ ~ZerosBehind(d) => Shows(VprintfFrom(f, 1, <<raw>>), d, value)
=============================================================================

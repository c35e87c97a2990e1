------------------------------ MODULE Display -------------------------------
(***************************************************************************)
(* The display: kprintf and kclear of common.c on top of x86_64/vga.c,     *)
(* called on several CPUs, and the ends of a CPU that print: PANIC, and    *)
(* the handler of interrupt.c for a fault, which reports it by a series of *)
(* calls of kprintf and halts.  Every call holds the display lock, which   *)
(* also keeps other interrupts away; a fault does not wait for that: one   *)
(* in kprintf itself waits for the lock its own CPU has, for good.         *)
(*                                                                         *)
(* A format is a sequence of items: a character, or a conversion with its  *)
(* argument.  int, long and the bytes of the cursor's registers have the   *)
(* widths IntBits, LongBits and ByteBits, and buf of kprintf BufSize       *)
(* characters; in the code these are 32, 64, 8 and 20.                     *)
(***************************************************************************)
EXTENDS Integers, Sequences, SequencesExt, FiniteSets

CONSTANTS
  Cpu,
  VGA_ROWS, VGA_COLS,
  IntBits, LongBits, ByteBits, BufSize,
  Formats,         \* what kprintf is called with
  Dump,            \* the formats of dump_int_stack_frame
  Vectors,         \* the faults that happen
  MaxCalls         \* bound: calls of kprintf and faults of a CPU that is ending

VARIABLES
  screen,                    \* the characters of the video memory
  display_row, display_col,
  crtc,                      \* the two cursor registers
  lock,                      \* the CPU that holds the display lock, or Free or Lost
  calls,                     \* what a CPU has still to print: formats, or CLEAR
  chars,                     \* what the call in progress has still to put out
  ending,                    \* the CPUs that halt after that
  done,                      \* the number of calls and faults of MaxCalls
  text                       \* history: the characters meant since a clear

vars == <<screen, display_row, display_col, crtc, lock, calls, chars, ending, done,
          text>>

Row == 0 .. VGA_ROWS - 1
Col == 0 .. VGA_COLS - 1
Free == "free"
Lost == "lost"             \* the lock's holder has been interrupted for good
CLEAR == <<[conv |-> "clear"]>>
Blank == ""

IsClear(call) == call[1].conv = "clear"
-----------------------------------------------------------------------------
Digits(upper) ==
  <<"0", "1", "2", "3", "4", "5", "6", "7", "8", "9">> \o
    IF upper THEN <<"A", "B", "C", "D", "E", "F">> ELSE <<"a", "b", "c", "d", "e", "f">>

(* Digits are found from the last to the first and then reversed. *)
ultoa(value, radix, upper) ==
  LET backwards[v \in Nat] ==
        <<Digits(upper)[(v % radix) + 1]>> \o
          IF v \div radix = 0 THEN <<>> ELSE backwards[v \div radix]
  IN  Reverse(backwards[value])

(* An argument is fetched as a long and cut to an int unless %l was given. *)
Unsigned(arg, bits) == arg % 2 ^ bits
Signed(arg, bits) ==
  IF Unsigned(arg, bits) < 2 ^ (bits - 1) THEN Unsigned(arg, bits)
  ELSE Unsigned(arg, bits) - 2 ^ bits

Width(item) == IF item.long THEN LongBits ELSE IntBits

(* The characters that kprintf puts out for an item of its format *)
Converted(item) ==
  CASE item.conv = "none" -> <<item.chr>>
    [] item.conv = "%" -> <<"%">>
    [] item.conv = "s" -> item.str
    [] item.conv = "c" -> <<item.chr>>
    [] item.conv = "d" ->
         LET lint == Signed(item.arg, Width(item))
         IN  IF lint < 0 THEN <<"-">> \o ultoa(-lint, 10, FALSE) ELSE ultoa(lint, 10, FALSE)
    [] item.conv = "x" -> ultoa(Unsigned(item.arg, Width(item)), 16, FALSE)
    [] item.conv = "X" -> ultoa(Unsigned(item.arg, Width(item)), 16, TRUE)

Output(format) == FlattenSeq([n \in DOMAIN format |-> Converted(format[n])])

(* What a format means, for the history: a number is its value in an int   *)
(* or a long, with as many digits as it needs.                             *)
Numeral(v, radix, upper) ==
  LET n == CHOOSE k \in 1 .. BufSize : radix ^ k > v /\ (k = 1 \/ radix ^ (k - 1) <= v)
  IN  [k \in 1 .. n |-> Digits(upper)[((v \div radix ^ (n - k)) % radix) + 1]]

Meaning(item) ==
  CASE item.conv \in {"none", "c"} -> <<item.chr>>
    [] item.conv = "s" -> item.str
    [] item.conv = "%" -> <<"%">>
    [] item.conv = "d" ->
         LET v == CHOOSE n \in -2 ^ (Width(item) - 1) .. 2 ^ (Width(item) - 1) - 1 :
                    (n - item.arg) % 2 ^ Width(item) = 0
         IN  IF v < 0 THEN <<"-">> \o Numeral(0 - v, 10, FALSE) ELSE Numeral(v, 10, FALSE)
    [] item.conv \in {"x", "X"} ->
         Numeral(CHOOSE n \in 0 .. 2 ^ Width(item) - 1 :
                   (n - item.arg) % 2 ^ Width(item) = 0, 16, item.conv = "X")

MeaningOf(format) == FlattenSeq([n \in DOMAIN format |-> Meaning(format[n])])

(* The longest numeral and the 0 after it fit into buf. *)
ASSUME DisplayAssumption ==
  /\ VGA_ROWS \in Nat \ {0} /\ VGA_COLS \in Nat \ {0}
  /\ VGA_ROWS * VGA_COLS < 2 ^ (2 * ByteBits)
  /\ \A f \in Formats : f # <<>>
  /\ Len(ultoa(2 ^ (LongBits - 1), 10, FALSE)) < BufSize
  /\ Len(ultoa(2 ^ LongBits - 1, 16, FALSE)) < BufSize
  /\ Cpu \cap {Free, Lost} = {}
-----------------------------------------------------------------------------
EmptyScreen == [r \in Row |-> [c \in Col |-> Blank]]

set_vga_cursor(row, col) ==
  LET off == row * VGA_COLS + col
  IN  crtc' = [low |-> off % 2 ^ ByteBits, high |-> off \div 2 ^ ByteBits % 2 ^ ByteBits]

Init ==
  /\ screen = EmptyScreen
  /\ display_row = 0 /\ display_col = 0 /\ crtc = [low |-> 0, high |-> 0]
  /\ lock = Free
  /\ calls = [c \in Cpu |-> <<>>] /\ chars = [c \in Cpu |-> <<>>]
  /\ ending = {} /\ done = 0 /\ text = <<>>

(* Faulty variants, each named for what it gets wrong, are kept next to    *)
(* the definition they vary; nothing uses them in the specification.       *)
Shifted_KeepsLast(s) == [r \in Row |-> s[IF r + 1 \in Row THEN r + 1 ELSE r]]

(* __shift_display_rows *)
Shifted(s) == [r \in Row |-> IF r + 1 \in Row THEN s[r + 1] ELSE [c \in Col |-> Blank]]

(* The end of put_char at new_line, with the screen as it is there *)
NewLine(s) ==
  /\ display_col' = 0
  /\ IF display_row + 1 = VGA_ROWS
     THEN screen' = Shifted(s) /\ UNCHANGED display_row
     ELSE screen' = s /\ display_row' = display_row + 1

put_char(chr) ==
  LET written == [screen EXCEPT ![display_row][display_col] = chr]
  IN  CASE chr = "\r" -> display_col' = 0 /\ UNCHANGED <<screen, display_row>>
        [] chr = "\n" -> NewLine(screen)
        [] OTHER -> IF display_col + 1 = VGA_COLS THEN NewLine(written)
                    ELSE /\ screen' = written
                         /\ display_col' = display_col + 1
                         /\ UNCHANGED display_row
-----------------------------------------------------------------------------
(* A CPU calls kclear, as often as it likes, or kprintf or PANIC, which    *)
(* halts after printing.                                                   *)
Call(c) ==
  /\ calls[c] = <<>> /\ c \notin ending
  /\ \/ /\ calls' = [calls EXCEPT ![c] = <<CLEAR>>]
        /\ UNCHANGED <<ending, done>>
     \/ /\ done < MaxCalls /\ done' = done + 1
        /\ \E f \in Formats : calls' = [calls EXCEPT ![c] = <<f>>]
        /\ ending' \in {ending, ending \cup {c}}
  /\ UNCHANGED <<screen, display_row, display_col, crtc, lock, chars, text>>

is_int_error(vector) == vector \in {8, 17} \cup 10 .. 14

Chr(chr) == [conv |-> "none", chr |-> chr]
Str(str) == [conv |-> "s", str |-> str]
Num(conv, arg) == [conv |-> conv, long |-> FALSE, arg |-> arg]

(* The calls of the default handler *)
Report(vector) ==
  <<<<Chr("\n"), Chr("#"), Str(<<"F">>), Num("d", vector)>>>>
    \o (IF is_int_error(vector) THEN <<<<Chr(":"), Num("X", vector)>>>> ELSE <<>>)
    \o <<<<Chr("\n")>>>> \o Dump

(* A fault: what the CPU was about to print is given up, and so is what it *)
(* is printing, with the lock still taken.  The CPU may be ending already, *)
(* but has not halted.                                                     *)
Fault(c) ==
  /\ c \in ending => calls[c] # <<>> /\ done < MaxCalls
  /\ done' = IF c \in ending THEN done + 1 ELSE done
  /\ \E vector \in Vectors : calls' = [calls EXCEPT ![c] = Report(vector)]
  /\ chars' = [chars EXCEPT ![c] = <<>>]
  /\ lock' = IF lock = c THEN Lost ELSE lock
  /\ ending' = ending \cup {c}
  /\ UNCHANGED <<screen, display_row, display_col, crtc, text>>

(* acquire_spinlock of the display lock, in kprintf and in kclear *)
Begin(c) ==
  /\ lock = Free /\ calls[c] # <<>>
  /\ lock' = c
  /\ IF IsClear(Head(calls[c])) THEN UNCHANGED <<chars, text>>
     ELSE /\ chars' = [chars EXCEPT ![c] = Output(Head(calls[c]))]
          /\ text' = text \o MeaningOf(Head(calls[c]))
  /\ UNCHANGED <<screen, display_row, display_col, crtc, calls, ending, done>>

PutChar(c) ==
  /\ lock = c /\ chars[c] # <<>>
  /\ put_char(Head(chars[c]))
  /\ chars' = [chars EXCEPT ![c] = Tail(@)]
  /\ UNCHANGED <<crtc, lock, calls, ending, done, text>>

Finish_Holds(c) ==
  /\ lock = c /\ chars[c] = <<>> /\ calls[c] # <<>> /\ ~IsClear(Head(calls[c]))
  /\ set_vga_cursor(display_row, display_col)
  /\ calls' = [calls EXCEPT ![c] = Tail(@)]
  /\ lock' = IF c \in ending /\ Tail(calls[c]) = <<>> THEN c ELSE Free
  /\ UNCHANGED <<screen, display_row, display_col, chars, ending, done, text>>

(* The end of kprintf *)
Finish(c) ==
  /\ lock = c /\ chars[c] = <<>> /\ calls[c] # <<>> /\ ~IsClear(Head(calls[c]))
  /\ set_vga_cursor(display_row, display_col)
  /\ calls' = [calls EXCEPT ![c] = Tail(@)]
  /\ lock' = Free
  /\ UNCHANGED <<screen, display_row, display_col, chars, ending, done, text>>

(* kclear once it has the lock *)
Clear(c) ==
  /\ lock = c /\ calls[c] # <<>> /\ IsClear(Head(calls[c]))
  /\ screen' = EmptyScreen
  /\ set_vga_cursor(0, 0)
  /\ display_row' = 0 /\ display_col' = 0
  /\ calls' = [calls EXCEPT ![c] = Tail(@)]
  /\ lock' = Free /\ text' = <<>>
  /\ UNCHANGED <<chars, ending, done>>

Step(c) == Begin(c) \/ PutChar(c) \/ Finish(c) \/ Clear(c)

Next == \E c \in Cpu : Step(c) \/ Call(c) \/ Fault(c)

Spec == Init /\ [][Next]_vars /\ \A c \in Cpu : WF_vars(Step(c))
-----------------------------------------------------------------------------
(* The text on lines without end: the line and the column after it, and    *)
(* what is in each place                                                   *)
Layout ==
  LET Put(at, chr) ==
        CASE chr = "\n" -> [at EXCEPT !.line = @ + 1, !.col = 0]
          [] chr = "\r" -> [at EXCEPT !.col = 0]
          [] OTHER -> [line |-> IF at.col = VGA_COLS - 1 THEN at.line + 1 ELSE at.line,
                       col |-> (at.col + 1) % VGA_COLS,
                       places |-> (<<at.line, at.col>> :> chr) @@ at.places]
  IN  FoldLeft(Put, [line |-> 0, col |-> 0, places |-> <<>>], text)

(* Whenever no call is in progress, the screen shows the last lines of     *)
(* what was printed since the last clear, call after call with nothing of  *)
(* one inside another, lost or left over, and the cursor is after it.      *)
ScreenShowsText ==
  lock = Free =>
    LET l == Layout
        first == IF l.line < VGA_ROWS THEN 0 ELSE l.line - VGA_ROWS + 1
    IN  /\ \A r \in Row, c \in Col :
             screen[r][c] = IF <<first + r, c>> \in DOMAIN l.places
                            THEN l.places[<<first + r, c>>] ELSE Blank
        /\ crtc.low + crtc.high * 2 ^ ByteBits = (l.line - first) * VGA_COLS + l.col

(* The lock is not fair: the others may always be first to take it. *)
Overtaken(c) == []<>(lock = Free) /\ []<>(lock \in Cpu \ {c})

(* A CPU that panics or takes a fault gets its whole report printed, and   *)
(* with the lock released for those that come after it, whatever the       *)
(* others print, panic about or fault on meanwhile.  Two things keep it    *)
(* from that: a fault inside kprintf, on any CPU, after which nobody gets  *)
(* the lock, and others that print without end and are always first.       *)
FaultsAreReported ==
  \A c \in Cpu :
    \/ []<>(c \in ending => calls[c] = <<>> /\ lock # c)
    \/ <>[](lock = Lost)
    \/ Overtaken(c)
=============================================================================

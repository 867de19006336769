-------------------------------- MODULE Term --------------------------------
(***************************************************************************)
(* The terminal of the operating system (os.js/os/usr/lib/term.ts): a      *)
(* window of a frame and a centre on a GPU's screen, that scrolls over a   *)
(* buffer of lines.  A scroll by less than the height of the centre copies *)
(* what stays visible and renders the rest; any other renders all of it.   *)
(*                                                                         *)
(* Rows are counted from startY.  The buffer is written by the constructor *)
(* only, and line i of it is told from the others by its number.  All      *)
(* lines are taken to be of one length, shorter than the centre is wide;   *)
(* what is left of a row behind that length is its tail.                   *)
(***************************************************************************)
EXTENDS Integers

CONSTANTS
  Heights,      \* heights of the window
  Scrollbacks,  \* numbers of lines in the buffer
  Scrolls       \* the largest argument of scroll(), up or down, of each
                \* program that uses the terminal: the os scrolls by one

\* A centre of at least one row, and more lines than rows: with fewer,
\* updateScrollbar divides by zero.
ASSUME TermSizes ==
  /\ Heights \subseteq Nat /\ Scrollbacks \subseteq Nat /\ Scrolls \subseteq Nat
  /\ \A h \in Heights, s \in Scrollbacks : h >= 3 /\ s > h - 2

VARIABLES
  maxScroll,  \* the program's
  height, scrollbackMax, currentBottom,
  lastBottom,
  screen,  \* what each row shows between the left and the right frame
  bar      \* row of the scrollbar's mark

vars == <<maxScroll, height, scrollbackMax, currentBottom, lastBottom, screen, bar>>

Rows == 0 .. height - 1
Center == 1 .. height - 2
Lines == 0 .. scrollbackMax - 1

NoLine == -1
Frame == -2
Border == [head |-> Frame, tail |-> "border"]
Blank == [head |-> NoLine, tail |-> "blank"]
Row(line) == [head |-> line, tail |-> "blank"]

\* buffer[i] || ''
Text(i) == IF i \in Lines THEN Row(i) ELSE Blank

TypeOK ==
  /\ maxScroll \in Scrolls
  /\ height \in Heights /\ scrollbackMax \in Scrollbacks
  /\ currentBottom \in Lines /\ lastBottom \in Lines
  /\ screen \in [Rows -> [head : Lines \cup {NoLine, Frame},
                          tail : {"border", "blank"}]]
  /\ bar \in Int

-----------------------------------------------------------------------------
(* The GPU.                                                                *)

\* gpu.set: an empty text changes nothing.
Set(s, y, text) == IF text = Blank THEN s ELSE [s EXCEPT ![y].head = text.head]

\* gpu.fill with spaces behind a text.
FillBehind(s, y, text) ==
  IF text = Blank THEN [s EXCEPT ![y] = Blank] ELSE [s EXCEPT ![y].tail = "blank"]

\* gpu.copy of n whole rows, by dy rows; what falls outside is not drawn.
Copy(s, first, n, dy) ==
  [y \in DOMAIN s |-> IF y - dy \in first .. first + n - 1 THEN s[y - dy] ELSE s[y]]

-----------------------------------------------------------------------------
(* updateScreen.                                                           *)

\* The loop of the full rendering and of scrolling down: the lowest n rows.
RenderLowest(s, bottom, n) ==
  [y \in DOMAIN s |-> IF y \in height - 1 - n .. height - 2
                        THEN Text(bottom - (height - 2 - y)) ELSE s[y]]

\* Mutant: the copy includes the last row.
ScrollUpCopiesAll(s, bottom, diff) ==
  LET text(y) == Text(bottom - (height - 2) + (y - 1))
      set == Set(Copy(s, diff, height - 2, diff), 1, text(diff))
  IN  [y \in DOMAIN s |-> IF y \in 1 .. diff THEN FillBehind(set, y, text(y))[y] ELSE set[y]]

\* Mutant: the copy starts below what it leaves.
ScrollUpCopiesBelow(s, bottom, diff) ==
  LET text(y) == Text(bottom - (height - 2) + (y - 1))
      set == Set(Copy(s, 1 + diff, (height - 2) - diff, diff), 1, text(diff))
  IN  [y \in DOMAIN s |-> IF y \in 1 .. diff THEN FillBehind(set, y, text(y))[y] ELSE set[y]]

\* The copy starts at row diff.  Every text is set in the first row (startY + 1 +
\* row - row), where the last one stays, but filled behind in a row of its own.
ScrollUp(s, bottom, diff) ==
  LET text(y) == Text(bottom - (height - 2) + (y - 1))
      set == Set(Copy(s, diff, (height - 2) - diff, diff), 1, text(diff))
  IN  [y \in DOMAIN s |-> IF y \in 1 .. diff THEN FillBehind(set, y, text(y))[y] ELSE set[y]]

\* Mutant: the copy starts one row too high.
ScrollDownFromTop(s, bottom, diff) ==
  RenderLowest(Copy(s, diff, (height - 2) - diff, -diff), bottom, diff)

ScrollDown(s, bottom, diff) ==
  RenderLowest(Copy(s, 1 + diff, (height - 2) - diff, -diff), bottom, diff)

\* Mutant: a scroll by the height of the centre counts as a partial one.
UpdatedLate(s, last, bottom) ==
  LET diff == last - bottom
  IN  CASE diff = 0                            -> s
        [] diff > 0 /\ diff < height           -> ScrollUp(s, bottom, diff)
        [] diff < 0 /\ -diff < height          -> ScrollDown(s, bottom, -diff)
        [] OTHER                               -> RenderLowest(s, bottom, height - 2)

Updated(s, last, bottom) ==
  LET diff == last - bottom
  IN  CASE diff = 0                            -> s
        [] diff > 0 /\ diff < height - 2       -> ScrollUp(s, bottom, diff)
        [] diff < 0 /\ -diff < height - 2      -> ScrollDown(s, bottom, -diff)
        [] OTHER                               -> RenderLowest(s, bottom, height - 2)

\* updateScrollbar: the ceiling of the exact position.
Bar(bottom) ==
  LET maxTop == scrollbackMax - (height - 2)
      top == bottom - (height - 2)
  IN  height - 2 - ((height - 3) * (maxTop - top)) \div maxTop

-----------------------------------------------------------------------------
\* The constructor: the frame, an empty centre, and the first update.
Init ==
  /\ maxScroll \in Scrolls
  /\ height \in Heights /\ scrollbackMax \in Scrollbacks
  /\ currentBottom = scrollbackMax - 1
  /\ lastBottom = currentBottom
  /\ screen = Updated([y \in Rows |-> IF y \in Center THEN Blank ELSE Border],
                      0, currentBottom)
  /\ bar = Bar(currentBottom)

Clamped(bottom) ==
  IF bottom >= scrollbackMax THEN scrollbackMax - 1
  ELSE IF bottom <= height - 2 THEN height - 2
  ELSE bottom

Scroll(lines) ==
  /\ currentBottom' = Clamped(currentBottom + lines)
  /\ screen' = Updated(screen, lastBottom, currentBottom')
  /\ bar' = IF lastBottom = currentBottom' THEN bar ELSE Bar(currentBottom')
  /\ lastBottom' = currentBottom'
  /\ UNCHANGED <<maxScroll, height, scrollbackMax>>

Next == \E lines \in -maxScroll .. maxScroll : Scroll(lines)

Spec == Init /\ [][Next]_vars

-----------------------------------------------------------------------------
(* Properties.                                                             *)

\* What the full rendering shows in row y.
Expected(y) == currentBottom - (height - 2 - y)

Faithful == \A y \in Center : screen[y] = Text(Expected(y))

\* Scrolling by the arrow keys, however long, never draws over the frame, and
\* no scrolling puts the scrollbar's mark outside of it.
FrameKept ==
  /\ maxScroll = 1 => \A y \in Rows \ Center : screen[y] = Border
  /\ bar \in Center

\* Scrolling by the arrow keys leaves each row with its line or with the one
\* before it, and with nothing else: the error of ScrollUp, which does not quite
\* "render what's left" (term.ts:101), does not add up.
OffByAtMostOne ==
  maxScroll = 1 =>
    \A y \in Center : screen[y] \in {Text(Expected(y)), Text(Expected(y) - 1)}

\* Scrolling down, by any number of lines, keeps a right screen right.
DownIsFaithful ==
  [][Faithful /\ currentBottom' > currentBottom => Faithful']_vars

\* Scrolling by a whole screen or more repairs whatever was wrong in the
\* centre, in both directions.
PageIsFaithful ==
  [][\/ currentBottom' - currentBottom < height - 2
        /\ currentBottom - currentBottom' < height - 2
     \/ Faithful']_vars
=============================================================================

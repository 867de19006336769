----------------------------- MODULE TermProofs -----------------------------
(***************************************************************************)
(* Proofs about Term, for windows, buffers and scrolls of any size.  The   *)
(* invariant is TypeOK with the bounds that Clamped keeps, from which it   *)
(* follows that every text which an update draws is a line of the buffer.  *)
(***************************************************************************)
EXTENDS Term, TLAPS

RowTexts == [head : Lines \cup {NoLine, Frame}, tail : {"border", "blank"}]

Bounds ==
  /\ height \in Nat /\ scrollbackMax \in Nat /\ maxScroll \in Nat
  /\ height >= 3 /\ scrollbackMax > height - 2
  /\ currentBottom \in height - 2 .. scrollbackMax - 1
  /\ lastBottom = currentBottom

IInv == TypeOK /\ Bounds /\ bar \in Center /\ FrameKept /\ OffByAtMostOne

-----------------------------------------------------------------------------
LEMMA TextType ==
  ASSUME NEW i, scrollbackMax \in Nat
  PROVE  Text(i) \in RowTexts
BY DEF Text, Row, Blank, RowTexts

LEMMA LineText ==
  ASSUME NEW i \in Lines
  PROVE  Text(i) = [head |-> i, tail |-> "blank"] /\ Text(i) # Blank
BY DEF Text, Row, Blank, Lines, NoLine

\* Where a scroll ends.
LEMMA ClampedBounds ==
  ASSUME Bounds, NEW bottom \in Int
  PROVE  Clamped(bottom) \in height - 2 .. scrollbackMax - 1
BY DEF Bounds, Clamped

\* What a quotient is.
LEMMA Quotient ==
  ASSUME NEW n \in Nat, NEW d \in Nat \ {0}
  PROVE  /\ n \div d \in Nat
         /\ d * (n \div d) =< n /\ n < d * (n \div d) + d
OBVIOUS

\* The share b of m in a is at most a.
LEMMA Share ==
  ASSUME NEW a \in Nat, NEW m \in Nat \ {0}, NEW b \in 0 .. m
  PROVE  (a * b) \div m \in 0 .. a
<1>1. a * b \in Nat /\ a * b =< a * m
  OBVIOUS
<1> DEFINE q == (a * b) \div m
<1>2. q \in Nat /\ m * q =< a * b
  BY <1>1, Quotient
<1>3. q =< a
  <2> HIDE DEF q
  <2>1. SUFFICES ASSUME q >= a + 1 PROVE FALSE
    BY <1>2
  <2>2. m * q >= m * (a + 1)
    BY <1>2, <2>1
  <2> QED BY <1>1, <1>2, <2>2
<1> QED BY <1>2, <1>3

LEMMA BarInCenter ==
  ASSUME Bounds, NEW bottom \in height - 2 .. scrollbackMax - 1
  PROVE  Bar(bottom) \in Center
<1> DEFINE maxTop == scrollbackMax - (height - 2)
           top == bottom - (height - 2)
<1>1. height - 3 \in Nat /\ maxTop \in Nat \ {0} /\ maxTop - top \in 0 .. maxTop
  BY DEF Bounds
<1>2. ((height - 3) * (maxTop - top)) \div maxTop \in 0 .. height - 3
  BY <1>1, Share
<1> HIDE DEF maxTop, top
<1>3. height - 2 - ((height - 3) * (maxTop - top)) \div maxTop \in 1 .. height - 2
  BY <1>1, <1>2 DEF Bounds
<1> QED BY <1>3 DEF Bar, Center, maxTop, top

-----------------------------------------------------------------------------
(* What each way of updating the screen draws.                             *)

LEMMA RenderRows ==
  ASSUME Bounds, NEW s \in [Rows -> RowTexts], NEW bottom \in Int, NEW n \in Int
  PROVE  /\ RenderLowest(s, bottom, n) \in [Rows -> RowTexts]
         /\ \A y \in Rows : RenderLowest(s, bottom, n)[y] =
              IF y \in height - 1 - n .. height - 2 THEN Text(bottom - (height - 2 - y))
              ELSE s[y]
BY TextType DEF RenderLowest, Bounds

LEMMA CopyRows ==
  ASSUME Bounds, NEW s \in [Rows -> RowTexts], NEW first \in Nat, NEW n \in Int, NEW dy \in Int,
         first + n - 1 =< height - 1
  PROVE  /\ Copy(s, first, n, dy) \in [Rows -> RowTexts]
         /\ \A y \in Rows : Copy(s, first, n, dy)[y] =
              IF y - dy \in first .. first + n - 1 THEN s[y - dy] ELSE s[y]
<1>1. \A y \in Rows : y - dy \in first .. first + n - 1 => y - dy \in Rows
  BY DEF Bounds, Rows
<1> QED BY <1>1 DEF Copy

\* Scrolling down by less than the height of the centre.
LEMMA ScrollDownRows ==
  ASSUME Bounds, NEW s \in [Rows -> RowTexts], NEW bottom \in Int, NEW diff \in 1 .. height - 3
  PROVE  /\ ScrollDown(s, bottom, diff) \in [Rows -> RowTexts]
         /\ \A y \in Rows : ScrollDown(s, bottom, diff)[y] =
              IF y \in height - 1 - diff .. height - 2 THEN Text(bottom - (height - 2 - y))
              ELSE IF y \in Center THEN s[y + diff] ELSE s[y]
<1> DEFINE c == Copy(s, 1 + diff, (height - 2) - diff, -diff)
<1>1. /\ 1 + diff \in Nat /\ (height - 2) - diff \in Int /\ -diff \in Int
      /\ (1 + diff) + ((height - 2) - diff) - 1 = height - 2 /\ height - 2 =< height - 1
  BY DEF Bounds
<1>2. /\ c \in [Rows -> RowTexts]
      /\ \A y \in Rows : c[y] = IF y - (-diff) \in 1 + diff .. height - 2
                                  THEN s[y - (-diff)] ELSE s[y]
  BY <1>1, CopyRows
<1>3. \A y \in Rows : c[y] = IF y + diff \in 1 + diff .. height - 2 THEN s[y + diff] ELSE s[y]
  <2>1. \A y \in Rows : y - (-diff) = y + diff
    BY DEF Bounds, Rows
  <2> QED BY <1>2, <2>1
<1> HIDE DEF c
<1>4. /\ RenderLowest(c, bottom, diff) \in [Rows -> RowTexts]
      /\ \A y \in Rows : RenderLowest(c, bottom, diff)[y] =
           IF y \in height - 1 - diff .. height - 2 THEN Text(bottom - (height - 2 - y))
           ELSE c[y]
  BY <1>2, RenderRows DEF Bounds
<1>5. \A y \in Rows : y \notin height - 1 - diff .. height - 2 =>
        (y + diff \in 1 + diff .. height - 2 <=> y \in Center)
  BY DEF Bounds, Rows, Center
<1> QED BY <1>3, <1>4, <1>5 DEF ScrollDown, c

\* Scrolling up by less than the height of the centre.
LEMMA ScrollUpRows ==
  ASSUME Bounds, NEW s \in [Rows -> RowTexts], NEW bottom \in Int, NEW diff \in 1 .. height - 3,
         bottom >= height - 2, bottom + diff =< scrollbackMax - 1
  PROVE  /\ ScrollUp(s, bottom, diff) \in [Rows -> RowTexts]
         /\ diff = 1 => \A y \in Rows : ScrollUp(s, bottom, diff)[y] =
              IF y = 1 THEN Text(bottom - (height - 2))
              ELSE IF y \in 2 .. height - 2 THEN s[y - 1] ELSE s[y]
<1> DEFINE text(y) == Text(bottom - (height - 2) + (y - 1))
           c == Copy(s, diff, (height - 2) - diff, diff)
           set == Set(c, 1, text(diff))
<1>1. /\ c \in [Rows -> RowTexts]
      /\ \A y \in Rows : c[y] = IF y - diff \in diff .. height - 3 THEN s[y - diff] ELSE s[y]
  <2>1. /\ diff \in Nat /\ (height - 2) - diff \in Int /\ diff \in Int
        /\ diff + ((height - 2) - diff) - 1 = height - 3 /\ height - 3 =< height - 1
    BY DEF Bounds
  <2> QED BY <2>1, CopyRows
<1>2. \A y \in 1 .. diff : /\ bottom - (height - 2) + (y - 1) \in Lines
                           /\ text(y) # Blank /\ text(y).tail = "blank"
                           /\ text(y).head = bottom - (height - 2) + (y - 1)
  <2> SUFFICES ASSUME NEW y \in 1 .. diff
               PROVE  /\ bottom - (height - 2) + (y - 1) \in Lines
                      /\ text(y) # Blank /\ text(y).tail = "blank"
                      /\ text(y).head = bottom - (height - 2) + (y - 1)
    OBVIOUS
  <2>1. bottom - (height - 2) + (y - 1) \in Lines
    BY DEF Bounds, Lines
  <2> QED BY <2>1, LineText
<1>3. 1 \in Rows /\ diff \in 1 .. diff /\ \A y \in 1 .. diff : y \in Rows
  BY DEF Bounds, Rows
<1> HIDE DEF c, text
<1>4. set = [c EXCEPT ![1].head = text(diff).head]
  BY <1>2, <1>3 DEF Set
<1>5. /\ set \in [Rows -> RowTexts]
      /\ \A y \in Rows : y # 1 => set[y] = c[y]
      /\ set[1].head = text(diff).head
  <2>1. c[1] \in RowTexts /\ text(diff).head \in Lines
    BY <1>1, <1>2, <1>3
  <2>2. [c[1] EXCEPT !.head = text(diff).head] \in RowTexts
    BY <2>1 DEF RowTexts
  <2> QED BY <1>1, <1>3, <1>4, <2>1, <2>2 DEF RowTexts
<1> HIDE DEF set
<1>6. ScrollUp(s, bottom, diff) =
        [y \in Rows |-> IF y \in 1 .. diff THEN FillBehind(set, y, text(y))[y] ELSE set[y]]
  BY <1>5 DEF ScrollUp, set, c, text
<1>7. \A y \in 1 .. diff : /\ FillBehind(set, y, text(y))[y] \in RowTexts
                           /\ FillBehind(set, y, text(y))[y].head = set[y].head
                           /\ FillBehind(set, y, text(y))[y].tail = "blank"
  <2> SUFFICES ASSUME NEW y \in 1 .. diff
               PROVE  /\ FillBehind(set, y, text(y))[y] \in RowTexts
                      /\ FillBehind(set, y, text(y))[y].head = set[y].head
                      /\ FillBehind(set, y, text(y))[y].tail = "blank"
    OBVIOUS
  <2>1. y \in Rows /\ set[y] \in RowTexts
    BY <1>3, <1>5
  <2>2. FillBehind(set, y, text(y))[y] = [set[y] EXCEPT !.tail = "blank"]
    BY <1>2, <1>5, <2>1 DEF FillBehind
  <2> QED BY <2>1, <2>2 DEF RowTexts
<1>8. ScrollUp(s, bottom, diff) \in [Rows -> RowTexts]
  BY <1>5, <1>6, <1>7
<1>9. ASSUME diff = 1, NEW y \in Rows
      PROVE  ScrollUp(s, bottom, diff)[y] =
               IF y = 1 THEN Text(bottom - (height - 2))
               ELSE IF y \in 2 .. height - 2 THEN s[y - 1] ELSE s[y]
  <2>1. CASE y = 1
    <3> DEFINE row == ScrollUp(s, bottom, diff)[1]
    <3>1. row = FillBehind(set, 1, text(1))[1]
      BY <1>6, <1>9, <1>3
    <3>2. row \in RowTexts /\ row.head = text(1).head /\ row.tail = "blank"
      BY <1>5, <1>7, <1>9, <3>1
    <3>3. text(1) = Text(bottom - (height - 2)) /\ bottom - (height - 2) \in Lines
      <4>1. bottom - (height - 2) + (1 - 1) = bottom - (height - 2)
        BY DEF Bounds
      <4> QED BY <1>2, <1>9, <4>1 DEF text
    <3>4. Text(bottom - (height - 2)) \in RowTexts
          /\ Text(bottom - (height - 2)).tail = "blank"
      BY <3>3, LineText, TextType DEF Bounds
    <3> QED BY <2>1, <3>2, <3>3, <3>4 DEF RowTexts
  <2>2. CASE y # 1
    <3>1. ScrollUp(s, bottom, diff)[y] = c[y]
      BY <1>5, <1>6, <1>9, <2>2
    <3>2. y - diff \in diff .. height - 3 <=> y \in 2 .. height - 2
      BY <1>9 DEF Bounds, Rows
    <3> QED BY <1>1, <1>9, <2>2, <3>1, <3>2
  <2> QED BY <2>1, <2>2
<1> QED BY <1>8, <1>9

-----------------------------------------------------------------------------
(* A whole update.                                                         *)

LEMMA FullUpdate ==
  ASSUME Bounds, NEW s \in [Rows -> RowTexts], NEW bottom \in Int
  PROVE  /\ RenderLowest(s, bottom, height - 2) \in [Rows -> RowTexts]
         /\ \A y \in Center :
              RenderLowest(s, bottom, height - 2)[y] = Text(bottom - (height - 2 - y))
         /\ \A y \in Rows \ Center : RenderLowest(s, bottom, height - 2)[y] = s[y]
<1>1. height - 2 \in Int /\ height - 1 - (height - 2) = 1 /\ Center \subseteq Rows
  BY DEF Bounds, Center, Rows
<1> QED BY <1>1, RenderRows DEF Center

\* Which of the four an update is.
LEMMA UpdateCases ==
  ASSUME Bounds, NEW s, NEW last \in Int, NEW bottom \in Int
  PROVE  /\ last = bottom => Updated(s, last, bottom) = s
         /\ last - bottom \in 1 .. height - 3 =>
              Updated(s, last, bottom) = ScrollUp(s, bottom, last - bottom)
         /\ bottom - last \in 1 .. height - 3 =>
              Updated(s, last, bottom) = ScrollDown(s, bottom, bottom - last)
         /\ last - bottom >= height - 2 \/ bottom - last >= height - 2 =>
              Updated(s, last, bottom) = RenderLowest(s, bottom, height - 2)
<1>1. -(last - bottom) = bottom - last
  OBVIOUS
<1> QED BY <1>1 DEF Updated, Bounds

LEMMA UpdateType ==
  ASSUME Bounds, NEW s \in [Rows -> RowTexts],
         NEW last \in height - 2 .. scrollbackMax - 1,
         NEW bottom \in height - 2 .. scrollbackMax - 1
  PROVE  Updated(s, last, bottom) \in [Rows -> RowTexts]
<1>1. last \in Int /\ bottom \in Int /\ bottom >= height - 2
      /\ bottom + (last - bottom) =< scrollbackMax - 1
  BY DEF Bounds
<1>2. CASE last = bottom
  BY <1>1, <1>2, UpdateCases
<1>3. CASE last - bottom \in 1 .. height - 3
  BY <1>1, <1>3, UpdateCases, ScrollUpRows
<1>4. CASE bottom - last \in 1 .. height - 3
  BY <1>1, <1>4, UpdateCases, ScrollDownRows
<1>5. CASE last - bottom >= height - 2 \/ bottom - last >= height - 2
  BY <1>1, <1>5, UpdateCases, FullUpdate
<1> QED BY <1>1, <1>2, <1>3, <1>4, <1>5 DEF Bounds

-----------------------------------------------------------------------------
(* The invariant.                                                          *)

LEMMA InitIInv == Init => IInv
<1> SUFFICES ASSUME Init PROVE IInv
  OBVIOUS
<1> DEFINE empty == [y \in Rows |-> IF y \in Center THEN Blank ELSE Border]
<1>1. Bounds
  BY TermSizes DEF Init, Bounds
<1>2. empty \in [Rows -> RowTexts] /\ Center \subseteq Rows
  BY <1>1 DEF RowTexts, Blank, Border, Bounds, Center, Rows
<1>3. currentBottom \in Int /\ 0 \in Int /\ currentBottom - 0 >= height - 2
  BY <1>1 DEF Bounds
<1>4. screen = RenderLowest(empty, currentBottom, height - 2)
  BY <1>1, <1>3, UpdateCases DEF Init
<1>5. \A y \in Rows \ Center : empty[y] = Border
  OBVIOUS
<1> HIDE DEF empty
<1>6. /\ screen \in [Rows -> RowTexts]
      /\ \A y \in Center : screen[y] = Text(Expected(y))
      /\ \A y \in Rows \ Center : screen[y] = Border
  BY <1>1, <1>2, <1>3, <1>4, <1>5, FullUpdate DEF Expected
<1>7. bar \in Center /\ bar \in Int
  BY <1>1, BarInCenter DEF Init, Bounds, Center
<1>8. TypeOK
  BY <1>1, <1>6, <1>7 DEF Init, TypeOK, Bounds, RowTexts, Lines
<1> QED BY <1>1, <1>6, <1>7, <1>8 DEF IInv, FrameKept, OffByAtMostOne

\* What a scroll starts from and ends in.
LEMMA ScrollBounds ==
  ASSUME IInv, NEW lines \in -maxScroll .. maxScroll, Scroll(lines)
  PROVE  /\ Bounds /\ Bounds'
         /\ screen \in [Rows -> RowTexts]
         /\ Rows' = Rows /\ Center' = Center /\ RowTexts' = RowTexts
         /\ \A i : Text(i)' = Text(i)
         /\ screen' = Updated(screen, currentBottom, currentBottom')
         /\ currentBottom \in height - 2 .. scrollbackMax - 1
         /\ currentBottom' \in height - 2 .. scrollbackMax - 1
         /\ currentBottom \in Int /\ currentBottom' \in Int
         /\ currentBottom' - currentBottom \in -maxScroll .. maxScroll
<1>1. Bounds /\ screen \in [Rows -> RowTexts]
  BY DEF IInv, TypeOK, RowTexts
<1>2. currentBottom + lines \in Int
  BY <1>1 DEF Bounds
<1>3. currentBottom' \in height - 2 .. scrollbackMax - 1
  BY <1>1, <1>2, ClampedBounds DEF Scroll
<1>4. Bounds'
  BY <1>1, <1>3 DEF Bounds, Scroll
<1>5. Rows' = Rows /\ Center' = Center /\ RowTexts' = RowTexts /\ \A i : Text(i)' = Text(i)
  BY DEF Scroll, Rows, Center, RowTexts, Lines, Text
<1>6. currentBottom' - currentBottom \in -maxScroll .. maxScroll
  BY <1>1, <1>2, <1>3 DEF Bounds, Scroll, Clamped
<1>7. screen' = Updated(screen, currentBottom, currentBottom')
  BY <1>1 DEF Bounds, Scroll
<1>8. /\ currentBottom \in height - 2 .. scrollbackMax - 1
      /\ currentBottom \in Int /\ currentBottom' \in Int
  BY <1>1, <1>3 DEF Bounds
<1> QED BY <1>1, <1>3, <1>4, <1>5, <1>6, <1>7, <1>8

\* By the arrow keys: one line, or none at the ends of the buffer.
LEMMA ScrollByOne ==
  ASSUME IInv, NEW lines \in -maxScroll .. maxScroll, Scroll(lines), maxScroll = 1
  PROVE  /\ \A y \in Rows \ Center : screen'[y] = Border
         /\ \A y \in Center :
              screen'[y] \in {Text(Expected(y)'), Text(Expected(y)' - 1)}
<1>1. /\ \A y \in Rows \ Center : screen[y] = Border
      /\ \A y \in Center : screen[y] \in {Text(Expected(y)), Text(Expected(y) - 1)}
  BY DEF IInv, FrameKept, OffByAtMostOne
<1> DEFINE b == currentBottom'
<1>2. /\ Bounds
      /\ screen \in [Rows -> RowTexts]
      /\ screen' = Updated(screen, currentBottom, b)
      /\ currentBottom \in height - 2 .. scrollbackMax - 1
      /\ b \in height - 2 .. scrollbackMax - 1
      /\ currentBottom \in Int /\ b \in Int
      /\ b - currentBottom \in {-1, 0, 1}
      /\ \A y : Expected(y)' = b - (height - 2 - y)
      /\ \A y : Expected(y) = currentBottom - (height - 2 - y)
  BY ScrollBounds DEF Expected, Scroll
<1> HIDE DEF b
<1>3. Center \subseteq Rows
  BY <1>2 DEF Bounds, Center, Rows
<1>4. CASE b = currentBottom
  BY <1>1, <1>2, <1>4, UpdateCases
<1>5. CASE b = currentBottom + 1
  <2>1. CASE height = 3
    <3>1. b - currentBottom >= height - 2
      BY <1>2, <1>5, <2>1
    <3> QED BY <1>1, <1>2, <3>1, UpdateCases, FullUpdate
  <2>2. CASE height > 3
    <3>1. b - currentBottom = 1 /\ 1 \in 1 .. height - 3
      BY <1>2, <1>5, <2>2 DEF Bounds
    <3>2. screen' = ScrollDown(screen, b, 1)
      BY <1>2, <3>1, UpdateCases
    <3>3. \A y \in Rows : screen'[y] =
             IF y \in height - 1 - 1 .. height - 2 THEN Text(b - (height - 2 - y))
             ELSE IF y \in Center THEN screen[y + 1] ELSE screen[y]
      BY <1>2, <3>1, <3>2, ScrollDownRows
    <3>4. ASSUME NEW y \in Rows \ Center PROVE screen'[y] = Border
      <4>1. y \notin height - 1 - 1 .. height - 2
        BY <1>2 DEF Bounds, Center, Rows
      <4> QED BY <1>1, <3>3, <4>1
    <3>5. ASSUME NEW y \in Center
          PROVE  screen'[y] \in {Text(Expected(y)'), Text(Expected(y)' - 1)}
      <4>1. CASE y = height - 2
        <5>1. y \in height - 1 - 1 .. height - 2
          BY <1>2, <4>1 DEF Bounds
        <5> QED BY <1>2, <1>3, <3>3, <5>1
      <4>2. CASE y # height - 2
        <5>1. y \notin height - 1 - 1 .. height - 2 /\ y + 1 \in Center
              /\ currentBottom - (height - 2 - (y + 1)) = b - (height - 2 - y)
          BY <1>2, <1>5, <4>2 DEF Bounds, Center
        <5>2. screen'[y] = screen[y + 1]
          BY <1>3, <3>3, <5>1
        <5>3. Expected(y + 1) = b - (height - 2 - y)
          BY <1>2, <5>1
        <5> QED BY <1>1, <1>2, <5>1, <5>2, <5>3
      <4> QED BY <4>1, <4>2
    <3> QED BY <3>4, <3>5
  <2> QED BY <1>2, <2>1, <2>2 DEF Bounds
<1>6. CASE b = currentBottom - 1
  <2>1. CASE height = 3
    <3>1. currentBottom - b >= height - 2
      BY <1>2, <1>6, <2>1
    <3> QED BY <1>1, <1>2, <3>1, UpdateCases, FullUpdate
  <2>2. CASE height > 3
    <3>1. currentBottom - b = 1 /\ 1 \in 1 .. height - 3 /\ b >= height - 2
          /\ b + 1 =< scrollbackMax - 1
      BY <1>2, <1>6, <2>2 DEF Bounds
    <3>2. screen' = ScrollUp(screen, b, 1)
      BY <1>2, <3>1, UpdateCases
    <3>3. \A y \in Rows : screen'[y] =
             IF y = 1 THEN Text(b - (height - 2))
             ELSE IF y \in 2 .. height - 2 THEN screen[y - 1] ELSE screen[y]
      BY <1>2, <3>1, <3>2, ScrollUpRows
    <3>4. ASSUME NEW y \in Rows \ Center PROVE screen'[y] = Border
      <4>1. y # 1 /\ y \notin 2 .. height - 2
        BY <1>2, <2>2 DEF Bounds, Center, Rows
      <4> QED BY <1>1, <3>3, <4>1
    <3>5. ASSUME NEW y \in Center
          PROVE  screen'[y] \in {Text(Expected(y)'), Text(Expected(y)' - 1)}
      <4>1. CASE y = 1
        <5>1. b - (height - 2 - 1) - 1 = b - (height - 2)
          BY <1>2 DEF Bounds
        <5>2. Expected(y)' = b - (height - 2 - 1)
          BY <1>2, <4>1
        <5> QED BY <1>3, <3>3, <4>1, <5>1, <5>2
      <4>2. CASE y # 1
        <5>1. /\ y \in 2 .. height - 2 /\ y - 1 \in Center
              /\ currentBottom - (height - 2 - (y - 1)) = b - (height - 2 - y)
          BY <1>2, <1>6, <4>2 DEF Bounds, Center
        <5>2. screen'[y] = screen[y - 1]
          BY <1>3, <3>3, <4>2, <5>1
        <5>3. Expected(y - 1) = b - (height - 2 - y)
          BY <1>2, <5>1
        <5> QED BY <1>1, <1>2, <5>1, <5>2, <5>3
      <4> QED BY <4>1, <4>2
    <3> QED BY <3>4, <3>5
  <2> QED BY <1>2, <2>1, <2>2 DEF Bounds
<1> QED BY <1>2, <1>4, <1>5, <1>6

LEMMA NextIInv == IInv /\ [Next]_vars => IInv'
<1> SUFFICES ASSUME IInv, [Next]_vars PROVE IInv'
  OBVIOUS
<1>1. ASSUME NEW lines \in -maxScroll .. maxScroll, Scroll(lines)
      PROVE  IInv'
  <2>1. /\ Bounds /\ Bounds' /\ screen \in [Rows -> RowTexts]
        /\ Rows' = Rows /\ Center' = Center /\ RowTexts' = RowTexts
        /\ \A i : Text(i)' = Text(i)
        /\ screen' = Updated(screen, currentBottom, currentBottom')
        /\ currentBottom \in height - 2 .. scrollbackMax - 1
        /\ currentBottom' \in height - 2 .. scrollbackMax - 1
    BY <1>1, ScrollBounds
  <2>2. screen' \in [Rows -> RowTexts]
    BY <2>1, UpdateType
  <2>3. bar' \in Center /\ bar' \in Int
    <3>1. bar \in Center /\ Bar(currentBottom') \in Center
      BY <2>1, BarInCenter DEF IInv
    <3> QED BY <1>1, <2>1, <3>1 DEF Scroll, Center, Bounds
  <2>4. TypeOK'
    <3>1. (screen \in [Rows -> RowTexts])'
      BY <2>1, <2>2
    <3>2. (currentBottom \in Lines /\ lastBottom \in Lines)'
      <4>1. Lines' = Lines /\ lastBottom' = currentBottom'
        BY <1>1 DEF Scroll, Lines
      <4>2. currentBottom' \in Lines
        BY <2>1 DEF Bounds, Lines
      <4> QED BY <4>1, <4>2
    <3>3. (maxScroll \in Scrolls /\ height \in Heights /\ scrollbackMax \in Scrollbacks)'
      BY <1>1 DEF IInv, TypeOK, Scroll
    <3> QED BY <2>3, <3>1, <3>2, <3>3 DEF TypeOK, RowTexts
  <2>5. maxScroll' = maxScroll
    BY <1>1 DEF Scroll
  <2>6. FrameKept'
    BY <1>1, <2>1, <2>3, <2>5, ScrollByOne DEF FrameKept
  <2>7. OffByAtMostOne'
    BY <1>1, <2>1, <2>5, ScrollByOne DEF OffByAtMostOne
  <2> QED BY <2>1, <2>3, <2>4, <2>6, <2>7 DEF IInv
<1>2. CASE UNCHANGED vars
  BY <1>2 DEF vars, IInv, TypeOK, Bounds, FrameKept, OffByAtMostOne, Expected, Text,
              Rows, Center, Lines
<1> QED BY <1>1, <1>2 DEF Next

LEMMA Invariant == Spec => []IInv
<1> QED BY InitIInv, NextIInv, PTL DEF Spec

-----------------------------------------------------------------------------
(* Theorems.                                                               *)

\* Every line that is drawn is a line of the buffer, and currentBottom stays one.
THEOREM TypeCorrect == Spec => []TypeOK
<1>1. IInv => TypeOK
  BY DEF IInv
<1> QED BY <1>1, Invariant, PTL

\* Scrolling by the arrow keys never draws over the frame, and the scrollbar's
\* mark never leaves it, in any window over any buffer.
THEOREM FramesAreKept == Spec => []FrameKept
<1>1. IInv => FrameKept
  BY DEF IInv
<1> QED BY <1>1, Invariant, PTL

\* However long one scrolls by the arrow keys, no row is off by more than a line.
THEOREM ErrorsDoNotAddUp == Spec => []OffByAtMostOne
<1>1. IInv => OffByAtMostOne
  BY DEF IInv
<1> QED BY <1>1, Invariant, PTL

\* Scrolling down by any number of lines keeps a right screen right.
THEOREM DownIsExact == Spec => DownIsFaithful
<1> DEFINE Kept == Faithful /\ currentBottom' > currentBottom => Faithful'
<1>1. IInv /\ [Next]_vars => [Kept]_vars
  <2> SUFFICES ASSUME IInv, NEW lines \in -maxScroll .. maxScroll, Scroll(lines),
                      Faithful, currentBottom' > currentBottom
               PROVE  Faithful'
    BY DEF Next
  <2> DEFINE b == currentBottom'
  <2>1. /\ Bounds /\ screen \in [Rows -> RowTexts]
        /\ Center' = Center /\ \A i : Text(i)' = Text(i)
        /\ screen' = Updated(screen, currentBottom, b)
        /\ currentBottom \in Int /\ b \in Int /\ b > currentBottom
        /\ \A y : Expected(y)' = b - (height - 2 - y)
        /\ \A y : Expected(y) = currentBottom - (height - 2 - y)
    BY ScrollBounds DEF Expected, Scroll
  <2>2. SUFFICES \A y \in Center : screen'[y] = Text(b - (height - 2 - y))
    BY <2>1 DEF Faithful
  <2> HIDE DEF b
  <2>3. CASE b - currentBottom >= height - 2
    BY <2>1, <2>3, UpdateCases, FullUpdate
  <2>4. CASE b - currentBottom \in 1 .. height - 3
    <3> DEFINE diff == b - currentBottom
    <3>1. \A y \in Rows : screen'[y] =
             IF y \in height - 1 - diff .. height - 2 THEN Text(b - (height - 2 - y))
             ELSE IF y \in Center THEN screen[y + diff] ELSE screen[y]
      BY <2>1, <2>4, UpdateCases, ScrollDownRows
    <3>2. SUFFICES ASSUME NEW y \in Center, y \notin height - 1 - diff .. height - 2
                   PROVE  screen'[y] = Text(b - (height - 2 - y))
      BY <2>1, <3>1 DEF Bounds, Center, Rows
    <3>3. /\ y \in Rows /\ y + diff \in Center
          /\ currentBottom - (height - 2 - (y + diff)) = b - (height - 2 - y)
      BY <2>1, <2>4, <3>2 DEF Bounds, Center, Rows
    <3>4. screen'[y] = screen[y + diff]
      BY <3>1, <3>2, <3>3
    <3>5. screen[y + diff] = Text(Expected(y + diff))
      BY <3>3 DEF Faithful
    <3>6. Expected(y + diff) = b - (height - 2 - y)
      BY <2>1, <3>3
    <3> QED BY <3>4, <3>5, <3>6
  <2> QED BY <2>1, <2>3, <2>4 DEF Bounds
<1> QED BY <1>1, Invariant, PTL DEF Spec, DownIsFaithful

\* A scroll by the height of the centre or more, either way, shows every row right.
THEOREM PagesAreExact == Spec => PageIsFaithful
<1> DEFINE Kept == \/ currentBottom' - currentBottom < height - 2
                      /\ currentBottom - currentBottom' < height - 2
                   \/ Faithful'
<1>1. IInv /\ [Next]_vars => [Kept]_vars
  <2> SUFFICES ASSUME IInv, NEW lines \in -maxScroll .. maxScroll, Scroll(lines),
                      ~(/\ currentBottom' - currentBottom < height - 2
                        /\ currentBottom - currentBottom' < height - 2)
               PROVE  Faithful'
    BY DEF Next
  <2> DEFINE b == currentBottom'
  <2>1. /\ Bounds /\ screen \in [Rows -> RowTexts]
        /\ Center' = Center /\ \A i : Text(i)' = Text(i)
        /\ screen' = Updated(screen, currentBottom, b)
        /\ currentBottom \in Int /\ b \in Int
        /\ \A y : Expected(y)' = b - (height - 2 - y)
    BY ScrollBounds DEF Expected, Scroll
  <2>2. currentBottom - b >= height - 2 \/ b - currentBottom >= height - 2
    <3>1. height - 2 \in Int /\ currentBottom - b \in Int /\ b - currentBottom \in Int
      BY <2>1 DEF Bounds
    <3>2. \A i, j \in Int : i < j \/ i >= j
      OBVIOUS
    <3> QED BY <3>1, <3>2
  <2>3. SUFFICES \A y \in Center : screen'[y] = Text(b - (height - 2 - y))
    BY <2>1 DEF Faithful
  <2> HIDE DEF b
  <2> QED BY <2>1, <2>2, UpdateCases, FullUpdate
<1> QED BY <1>1, Invariant, PTL DEF Spec, PageIsFaithful
=============================================================================

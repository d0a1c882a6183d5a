----------------------------- MODULE Scrolling -----------------------------
(* Which lines of a list are on the screen: the selected one, the one at the *)
(* top, and the height of the window.  The menu and the matches of a search  *)
(* (menuconfig.py) scroll in the same way.                                   *)
(*                                                                         *)
(* A window at has the fields sel and scroll, which count from 0, and height. *)
EXTENDS Integers, Sequences

CONSTANT ScrollOffset   \* _SCROLL_OFFSET: lines that are kept before and after the selected one

ASSUME OffsetAssumption == ScrollOffset \in Nat

Least(a, b) == IF a < b THEN a ELSE b
Greatest(a, b) == IF a > b THEN a ELSE b

MaxScroll(list, height) == Greatest(0, Len(list) - height)

\* One line on and one line back.
NextLine(at, list) ==
    IF at.sel >= Len(list) - 1 THEN at
    ELSE [at EXCEPT !.sel = @ + 1,
                    !.scroll = @ + IF /\ at.sel + 1 >= at.scroll + at.height - ScrollOffset
                                      /\ at.scroll < MaxScroll(list, at.height) THEN 1 ELSE 0]

PrevLine(at) ==
    IF at.sel <= 0 THEN at
    ELSE [at EXCEPT !.sel = @ - 1,
                    !.scroll = IF at.sel - 1 < @ + ScrollOffset THEN Greatest(@ - 1, 0) ELSE @]

\* k lines on, or back if k is negative.
Lines(at, list, k) ==
    LET after[j \in 0..Greatest(k, -k)] ==
          IF j = 0 THEN at
          ELSE IF k > 0 THEN NextLine(after[j - 1], list) ELSE PrevLine(after[j - 1])
    IN after[Greatest(k, -k)]

FirstLine(at) == [at EXCEPT !.sel = 0, !.scroll = 0]
LastLine(at, list) == [at EXCEPT !.sel = Len(list) - 1, !.scroll = MaxScroll(list, at.height)]

\* The selected line in the middle, as far as the list allows it.
Centered(at, list) ==
    [at EXCEPT !.scroll = Least(Greatest(at.sel - at.height \div 2, 0), MaxScroll(list, at.height))]

\* The selected line in a row of the window, if there are lines enough above it.
Row(at) == at.sel - at.scroll
InRow(at, row) == [at EXCEPT !.scroll = Greatest(at.sel - row, 0)]

\* The rows that three lines and the help leave, one at least; and those that
\* the search leaves.
MenuHeight(t, help) == Greatest(1, t - (IF help THEN 8 ELSE 4) - 3)
MatchesHeight(t) == Greatest(1, t - 5 - 4)

\* In a window of another height, the selected line stays in it.
Fitted(at, height) ==
    [at EXCEPT !.height = height,
               !.scroll = IF at.sel - at.scroll >= height THEN at.sel - height + 1 ELSE @]

\* The selected line is one of the list, and on the screen.
OnScreen(at, list) ==
    /\ at.sel \in 0..Len(list) - 1
    /\ at.scroll \in Greatest(0, at.sel - at.height + 1)..at.sel
=============================================================================

--------------------------- MODULE MCLogDirectory ---------------------------
EXTENDS LogDirectory

L(d) == [date |-> d, odd |-> FALSE]
Q(d) == [date |-> d, odd |-> TRUE]
File(lines) == [lines |-> lines, torn |-> FALSE]

\* A plain file, torn ends, and messages of several lines: with a date in them, an old or
\* a new one, in the tail of a file that ends inside a record, one that is longer than
\* the probe's cap; and three of which one proves newer than the two that were in the window.
MCContents == {
    File(<<L(1), L(3)>>),
    [lines |-> <<L(6), L(8), Q(9)>>, torn |-> TRUE],
    File(<<Q(7), L(0), L(2), Q(2), Q(8)>>),
    File(<<Q(10), L(0), L(0), Q(7), Q(0)>>),
    File(<<Q(12), L(0), L(0), Q(2), Q(0)>>),
    File(<<Q(2), L(0), L(9), Q(0), Q(4)>>),
    File(<<L(3), Q(5), L(0), L(0), L(0), Q(0)>>),
    [lines |-> <<L(0), L(2), L(2), L(3), L(0)>>, torn |-> TRUE] }
MCShifts == {-1, 0, 1}
=============================================================================

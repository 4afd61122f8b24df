------------------------------- MODULE Screen -------------------------------
(***************************************************************************)
(* Screen output (lib/print.c): the screen is divided into the window of   *)
(* the programs and the window of the log, with a line between them.       *)
(* putchar runs with interrupts disabled; a string is one putchar after    *)
(* the other, so system calls, interrupt handlers and the kernel task mix  *)
(* their characters in any order.  A cell of the screen shows a character, *)
(* Blank, or the dividing line.                                            *)
(***************************************************************************)
EXTENDS Integers, FiniteSets

CONSTANTS
    COLUMNS, ROWS,      \* 80 x 30 characters
    APPSCREEN_WIDTH     \* 50

ASSUME ScreenAssumption ==
    /\ {COLUMNS, ROWS, APPSCREEN_WIDTH} \subseteq Nat \ {0}
    /\ APPSCREEN_WIDTH + 1 < COLUMNS

VARIABLES
    screen,     \* the struct SCREEN of each window
    cells,      \* what is shown at each column and row
    shown       \* log: characters printed in each window since it was cleared

screenvars == <<screen, cells, shown>>

Windows == {"app", "log"}
Cell    == (0 .. COLUMNS - 1) \X (0 .. ROWS - 1)

Blank == "blank"
Line  == "line"

\* The kinds of characters putchar tells apart.
Chars == {"printable", "newline", "return"}

-----------------------------------------------------------------------------
\* initscreen.  (The line of dots is drawn down the column between the windows.)
ScreenInit ==
    /\ screen = [app |-> [startx |-> 0, width |-> APPSCREEN_WIDTH, x |-> 0, y |-> 0],
                 log |-> [startx |-> APPSCREEN_WIDTH + 1,
                          width  |-> COLUMNS - APPSCREEN_WIDTH - 1, x |-> 0, y |-> 0]]
    /\ cells = [c \in Cell |-> IF c[1] = APPSCREEN_WIDTH THEN Line ELSE Blank]
    /\ shown = [w \in Windows |-> 0]

\* The cells clear() goes over.
Area(s) == {c \in Cell : c[1] >= s.startx /\ c[1] < s.startx + s.width}

\* Mutant of fixpos: the end of the line is noticed one character late.
fixposLate(s) ==
    LET t == IF s.x > s.width THEN [s EXCEPT !.x = 0, !.y = @ + 1] ELSE s
    IN  IF t.y >= ROWS THEN [t EXCEPT !.x = 0, !.y = 0] ELSE t

\* The cursor after the line and after the last line of the window.
fixpos(s) ==
    LET t == IF s.x >= s.width THEN [s EXCEPT !.x = 0, !.y = @ + 1] ELSE s
    IN  IF t.y >= ROWS THEN [t EXCEPT !.x = 0, !.y = 0] ELSE t

\* fixpos clears the window when the cursor leaves its last line.
Cleared(s) == s.y + (IF s.x >= s.width THEN 1 ELSE 0) >= ROWS

putchar(w, ch) ==
    /\ ch # "return"
    /\ LET s     == screen[w]
           at    == <<s.startx + s.x, s.y>>
           moved == IF ch = "newline" THEN [s EXCEPT !.x = 0, !.y = @ + 1]
                    ELSE [s EXCEPT !.x = @ + 1]
           drawn == IF ch = "newline" THEN cells ELSE [cells EXCEPT ![at] = w]
       IN  /\ screen' = [screen EXCEPT ![w] = fixpos(moved)]
           /\ cells' = [c \in Cell |-> IF Cleared(moved) /\ c \in Area(s) THEN Blank
                                       ELSE drawn[c]]
           /\ shown' = [shown EXCEPT ![w] = IF Cleared(moved) THEN 0
                                            ELSE IF ch = "newline" THEN @ ELSE @ + 1]

\* printstr of anybody.
ScreenNext == \E w \in Windows, ch \in Chars : putchar(w, ch)

ScreenSpec == ScreenInit /\ [][ScreenNext]_screenvars

-----------------------------------------------------------------------------
\* A character stays where it was printed until its window is cleared, whatever
\* is printed in between: none falls outside its window, on the dividing line
\* or on another character (print.c:93-134).
NothingOverwritten ==
    /\ \A w \in Windows : Cardinality({c \in Cell : cells[c] = w}) = shown[w]
    /\ \A c \in Cell : cells[c] # Blank =>
          cells[c] = IF c[1] < APPSCREEN_WIDTH THEN "app"
                     ELSE IF c[1] = APPSCREEN_WIDTH THEN Line ELSE "log"
    /\ \A r \in 0 .. ROWS - 1 : cells[<<APPSCREEN_WIDTH, r>>] = Line

=============================================================================

----------------------------- MODULE FlashChip -----------------------------
(***************************************************************************)
(* The serial NOR flash behind the SPI driver, as sfud.c relies on it.     *)
(* A command is what arrives between the falling and the rising edge of    *)
(* chip select; it takes effect at the rising edge.  An address and a byte *)
(* of data are one item each.  Programming can only clear bits, erasing    *)
(* sets all bits of a sector; both need the write enable latch, keep the   *)
(* chip busy for a while and reset the latch at their end.  A busy chip    *)
(* answers nothing but the reading of its status.                          *)
(***************************************************************************)
EXTENDS Integers, Sequences

CONSTANTS Capacity,   \* SFUD_FLASH_CAPACITY, in bytes
          Sector,     \* the erase unit, SFUD_FLASH_PAGE_SIZE
          Page        \* the program unit, SFUD_WRITE_MAX_PAGE_SIZE

FlashAssumption ==
  /\ Capacity \in Nat \ {0} /\ Sector \in Nat \ {0} /\ Page \in Nat \ {0}
  /\ Capacity % Sector = 0 /\ Sector % Page = 0

Address == 0..Capacity-1
Bits == 0..3          \* bytes of two bits
Erased == 3
Torn == -1            \* a byte of which only some bits were clocked

\* The commands.
WREN == 6
WRDI == 4
RDSR == 5
PP == 2
READ == 3
SE == 32
ID == 159

\* The bits that are set in both x and y.
And(x, y) ==
  IF x = Erased THEN y
  ELSE IF y = Erased \/ x = y THEN x ELSE 0

\* The first address of the unit of n bytes that holds a.
UnitAt(a, n) == a - (a % n)

BlankChip ==
  [low |-> FALSE, in |-> << >>, wel |-> FALSE, busy |-> FALSE,
   cells |-> [a \in Address |-> Erased], todo |-> [a \in Address |-> Erased]]

ErasedAt(cells, a) ==
  [x \in Address |-> IF UnitAt(x, Sector) = UnitAt(a, Sector) THEN Erased ELSE cells[x]]

\* Bytes beyond the end of the page go to its start.
ProgrammedAt(cells, a, data) ==
  [x \in Address |->
     LET i == ((x - a) % Page) + 1
     IN  IF UnitAt(x, Page) = UnitAt(a, Page) /\ i <= Len(data)
           THEN And(cells[x], data[i] % 4) ELSE cells[x]]

Select(c) == IF c.low THEN c ELSE [c EXCEPT !.low = TRUE, !.in = << >>]

Send(c, items) == [c EXCEPT !.in = @ \o items]

Deselect(c) ==
  LET up   == [c EXCEPT !.low = FALSE]
      op   == IF c.in = << >> \/ c.busy THEN Torn ELSE c.in[1]
      torn == \E i \in DOMAIN c.in : c.in[i] = Torn
  IN  IF torn THEN up ELSE
      CASE op = WREN /\ Len(c.in) = 1 -> [up EXCEPT !.wel = TRUE]
        [] op = WRDI /\ Len(c.in) = 1 -> [up EXCEPT !.wel = FALSE]
        [] op = SE /\ Len(c.in) = 2 /\ c.wel ->
             [up EXCEPT !.busy = TRUE, !.todo = ErasedAt(c.cells, c.in[2])]
        [] op = PP /\ Len(c.in) > 2 /\ c.wel ->
             [up EXCEPT !.busy = TRUE,
                        !.todo = ProgrammedAt(c.cells, c.in[2], Tail(Tail(c.in)))]
        [] OTHER -> up

\* The end of an erasure or a programming.
Finished(c) == [c EXCEPT !.busy = FALSE, !.wel = FALSE, !.cells = c.todo]

\* The statuses that may be read: those of a chip that was sent something
\* else than the command to read its status mean nothing.
Statuses(c) ==
  IF c.in # << >> /\ c.in[1] = RDSR
    THEN {[ok |-> TRUE, busy |-> c.busy, wel |-> c.wel]}
    ELSE [ok: {TRUE}, busy: BOOLEAN, wel: BOOLEAN]

Noise == << -1 >>
Identity == << ID >>

\* What is read by n bytes after the command to read data or the identity.
Answer(c, n) ==
  IF c.busy \/ c.in = << >> THEN Noise ELSE
  CASE c.in[1] = READ /\ Len(c.in) = 2 ->
         [i \in 1..n |-> c.cells[(c.in[2] + i - 1) % Capacity]]
    [] c.in = << ID >> -> Identity
    [] OTHER -> Noise
=============================================================================

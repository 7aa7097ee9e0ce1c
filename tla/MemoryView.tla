----------------------------- MODULE MemoryView -----------------------------
(***************************************************************************)
(* The memory and program windows (gui/windows/memory, gui/windows/        *)
(* program): tables of RowCount rows laid over the address space around    *)
(* the place the user looks at, filled from the data bus when its          *)
(* change_counter has moved.  The machine has no caches and no address     *)
(* translation here.                                                       *)
(***************************************************************************)
EXTENDS MemoryBus

CONSTANTS
    RowCount,         \* rows of a table (750)
    Places,           \* addresses the user goes to, and the program counter takes
    CellCounts        \* cells that fit into a row, by the width of the window

ASSUME ViewAssumption ==
    RowCount \in Nat /\ RowCount >= 8 /\ Places \subseteq Nat /\ CellCounts \subseteq Nat \ {0}

VARIABLE
    views             \* "memory" and "program": a record
                      \*   size, cells  bytes of a cell, cells of a row
                      \*   offset       index0_offset, the address of row 0
                      \*   top, row     the row scrolled to the top, the current row (-1: none)
                      \*   counter      memory_change_counter
                      \*   shown        the cells as they are painted
                      \*   stage        ProgramModel: the address of the stage that is followed
                      \*  and for the properties:
                      \*   top_aim, aim the addresses that top and row stand for
                      \*   told         notified since the last write it can know of
                      \*   replaced     memory was replaced by a restart since update_all

RowBytes(v) == v.size * v.cells
get_row_address(v, row) == v.offset + row * RowBytes(v)

\* The row of an address, as <<found, row>>.  The source also takes a distance above
\* 2^31, whose row may not fit an int, for a row past the end; rows have no width here.
get_row_for_address(v, a) ==
    LET row == (a - v.offset) \div RowBytes(v)
    IN  IF a < v.offset THEN <<FALSE, -1>>
        ELSE IF row > RowCount THEN <<FALSE, RowCount>> ELSE <<TRUE, row>>

\* The table moves so that the address is in its middle, or at its start when
\* the address is low.  The result is the view and the row of the address.
adjustRowAndOffset(v, address) ==
    LET a == address - (address % v.size)
        half == (RowCount \div 2) * RowBytes(v)
        row == a \div RowBytes(v)
        w == [v EXCEPT !.offset = IF half <= a THEN a - half
                                  ELSE IF row = 0 THEN 0 ELSE a - row * RowBytes(v)]
    IN  <<w, get_row_for_address(w, a)[2]>>

\* data(): what the cells hold.
CellsOf(v) == {get_row_address(v, r) + v.size * c : r \in 0 .. RowCount - 1, c \in 0 .. v.cells - 1}
data(v, b) == [a \in CellsOf(v) |-> bus_read(b, a, v.size)]
Painted(v, b) == [v EXCEPT !.shown = data(v, b)]

update_all(v, b) == [Painted(v, b) EXCEPT !.counter = b.changes, !.replaced = FALSE]

check_for_updates(v, b) ==
    [(IF v.counter # b.changes THEN update_all(v, b) ELSE v) EXCEPT !.told = TRUE]

\* The index of a row that the table does not have is no index.
Current(row) == IF row < RowCount THEN row ELSE -1

go_to_address(v, b, a) ==
    LET moved == adjustRowAndOffset(v, a)
    IN  update_all([moved[1] EXCEPT !.top = moved[2], !.row = moved[2], !.top_aim = a, !.aim = a], b)

focus_address(v, b, a) ==
    LET w == IF get_row_for_address(v, a)[1] THEN v ELSE go_to_address(v, b, a)
        found == get_row_for_address(w, a)
    IN  IF found[1] THEN [w EXCEPT !.row = Current(found[2]), !.aim = a] ELSE w

\* Mutant: the address at the top is taken after the cells have their new size.
set_cell_size_Late(v, b, size, cells) ==
    LET w == [v EXCEPT !.size = size, !.cells = cells, !.offset = @ - (@ % size)]
        moved == adjustRowAndOffset(w, get_row_address(w, v.top))
    IN  Painted([moved[1] EXCEPT !.top = moved[2], !.row = -1, !.top_aim = get_row_address(v, v.top)], b)

\* The address at the top stays there; the width decides on the cells of a row.
set_cell_size(v, b, size, cells) ==
    LET address == get_row_address(v, v.top)
        w == [v EXCEPT !.size = size, !.cells = cells, !.offset = @ - (@ % size)]
        moved == adjustRowAndOffset(w, address)
    IN  Painted([moved[1] EXCEPT !.top = moved[2], !.row = -1, !.top_aim = address], b)

resizeEvent(v, b, cells) == go_to_address([v EXCEPT !.cells = cells], b, get_row_address(v, v.top))

\* Near an end of the table, the table moves under the row at the top, and the current
\* row with it.  When the table snaps to address zero the current row keeps its number,
\* so that the mark moves down by as many bytes.
adjust_scroll_pos_process(v, b, row) ==
    LET near == row < RowCount \div 8
        first == near /\ row = 0 /\ v.offset < RowBytes(v) /\ v.offset # 0
        moves == first \/ (near /\ v.offset > RowBytes(v)) \/ row > RowCount - (RowCount \div 8)
        moved == adjustRowAndOffset(v, IF first THEN 0 ELSE get_row_address(v, row))
        address == get_row_address(v, row)
    IN  IF ~moves THEN [v EXCEPT !.top = row, !.top_aim = address]
        ELSE update_all([moved[1] EXCEPT !.top = moved[2], !.top_aim = address,
                            !.aim = IF first THEN @ - v.offset ELSE @,
                            !.row = IF @ = -1 THEN -1
                                    ELSE IF @ + moved[2] - row \in 0 .. RowCount - 1 THEN @ + moved[2] - row
                                    ELSE -1], b)

\* MemoryModel::setup, ProgramModel::setup on a new machine.
NewView(cells, b) ==
    update_all([size |-> 4, cells |-> cells, offset |-> 0, top |-> 0, row |-> 0, counter |-> 0, shown |-> <<>>,
                stage |-> 0, top_aim |-> 0, aim |-> 0, told |-> TRUE, replaced |-> FALSE], b)
ViewInit == views = [memory |-> NewView(1, bus), program |-> NewView(1, bus)]

\* The machine has stepped, or the bus reports a change.
Notified == views' = [n \in DOMAIN views |-> check_for_updates(views[n], bus')]
Untold == [n \in DOMAIN views |-> [views[n] EXCEPT !.told = FALSE]]
ViewChanges(n, v) == views' = [views EXCEPT ![n] = v] /\ UNCHANGED busVars

GoTo == \E a \in Places : ViewChanges("memory", go_to_address(views.memory, bus, a))
Focus == \E a \in Places : ViewChanges("memory", focus_address(views.memory, bus, a))
SetCellSize == \E size \in {1, 2, 4}, cells \in CellCounts :
    ViewChanges("memory", set_cell_size(views.memory, bus, size, cells))
Resize == \E cells \in CellCounts : ViewChanges("memory", resizeEvent(views.memory, bus, cells))
Scroll == \E row \in {0, 1, RowCount - 1} :
    ViewChanges("memory", adjust_scroll_pos_process(views.memory, bus, row))

\* A step: the program window follows the stage's address and is painted when
\* it moved; then post_tick.
update_stage_addr(v, b, pc) ==
    IF v.stage = pc THEN check_for_updates(v, b) ELSE [update_all([v EXCEPT !.stage = pc], b) EXCEPT !.told = TRUE]
Follow == \E pc \in Places :
    /\ UNCHANGED busVars
    /\ views' = [memory |-> check_for_updates(views.memory, bus),
                 program |-> update_stage_addr(focus_address(views.program, bus, pc), bus, pc)]

\* setData: the cell that was edited is painted; nobody is told of the write.
Edit(n, cell, bytes) ==
    /\ Write(cell, bytes)
    /\ views' = [Untold EXCEPT ![n].shown[cell] = bus_read(bus', cell, views[n].size)]

EditCell == \E cell \in {a \in CellsOf(views.memory) : Device(a) # "none" /\ a \in Places} :
    Edit("memory", cell, [k \in 1 .. views.memory.size |-> {6}])

\* Machine::restart: the program is in memory again; nobody is told.
Restart ==
    /\ bus.program # <<>>
    /\ bus' = [bus EXCEPT !.sections = to_memory(bus.program)]
    /\ flat' = FlatImage(bus.program)
    /\ views' = [n \in DOMAIN views |-> [views[n] EXCEPT !.replaced = TRUE]]
    /\ UNCHANGED dials

\* The machine steps, and the user works with knobs and windows.
WindowStep == GoTo \/ Focus \/ SetCellSize \/ Resize \/ Scroll \/ Follow \/ EditCell \/ Restart
KnobStep == TurnKnob /\ IF bus' = bus THEN UNCHANGED views ELSE Notified

(***************************************************************************)
(* Properties                                                              *)
(***************************************************************************)
\* The windows poll change_counter instead of comparing memory: once a window has been
\* told of a step or of a change, every cell it paints holds what the bus reads there,
\* whichever device it lies in and however the table was moved, resized or scrolled in
\* between.  Left out is a window that has not been painted since a restart, which
\* replaces memory and moves no counter.
ViewsCurrent ==
    \A n \in DOMAIN views : views[n].told /\ ~views[n].replaced => views[n].shown = data(views[n], bus)

InRow(v, row, a) == a \in get_row_address(v, row) .. get_row_address(v, row) + RowBytes(v) - 1

\* The table is moved under the window again and again, by the address line, by
\* changes of the cell size and the width, by scrolling and by the stage it follows:
\* the row at the top, and the current row, still hold the addresses they were set
\* for (the current row less the bytes by which the table snapped to address zero).
\* An address exactly one row past the table is taken for a row of it and marks no row.
AddressesFound ==
    \A n \in DOMAIN views :
        LET v == views[n]
        IN  /\ InRow(v, v.top, v.top_aim)
            /\ v.row # -1 => InRow(v, v.row, v.aim)
=============================================================================

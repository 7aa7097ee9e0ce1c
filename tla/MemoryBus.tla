----------------------------- MODULE MemoryBus -----------------------------
(***************************************************************************)
(* The physical address space: the data bus (memory_bus.cpp), the sparse   *)
(* main memory (backend/memory.cpp), the LED panel and the display         *)
(* (backend/peripspiled.cpp, backend/lcddisplay.cpp), and the program      *)
(* loader that fills the memory.  A byte is the set of its bits that are   *)
(* one, an access is a sequence of bytes.                                  *)
(***************************************************************************)
EXTENDS Integers, Sequences, FiniteSets

CONSTANTS
    SectionSize,      \* bytes of a memory section (256 in the code)
    RamLast,          \* last address of main memory (0xefffffff)
    LedStart,         \* the LED panel's registers (0xffffc100 .. 0xffffc1ff)
    LcdStart,         \* the display (0xffe00000 .. 0xffe4afff)
    FbWidth,          \* pixels in a line of the display (480)
    FbHeight,         \* lines of the display (320)
    Images,           \* programs to start with: the segments and symbols of an ELF file
    Stores,           \* the stores of the running program: <<address, bytes>>
    Knobs             \* what the user does to a knob: <<value, mask>>, bits of the register

Byte == SUBSET (0 .. 7)
Segment == [vaddr : Nat, data : Seq(Byte)]

ASSUME BusAssumption ==
    /\ {SectionSize, FbWidth, FbHeight} \subseteq Nat \ {0}
    /\ SectionSize % 4 = 0
    /\ {RamLast, LedStart, LcdStart} \subseteq Nat
    \* The ranges of the devices lie above main memory and apart from each other.
    /\ LedStart > RamLast /\ LcdStart > RamLast
    /\ LcdStart + 2 * FbWidth * FbHeight <= LedStart \/ LedStart + 256 <= LcdStart
    /\ \A image \in Images : image.segments \in Seq(Segment)
    /\ Stores \subseteq Nat \X Seq(Byte)
    /\ Knobs \subseteq (SUBSET (0 .. 31)) \X (SUBSET (0 .. 31))

VARIABLES
    bus,              \* the bus and its devices, a record:
                      \*   sections    Memory: the sections allocated so far, by number
                      \*   leds        PeripSpiLed: its writable registers, four bytes each
                      \*   knobs       PeripSpiLed: spiled_reg_knobs_8bit, the bits that are one
                      \*   fb_data     LcdDisplay: the frame buffer
                      \*   led_view    what led_*_changed last told the LED widgets
                      \*   lcd_view    what pixel_update last told the display widget
                      \*   changes     MemoryDataBus: change_counter
                      \*   program     Machine: mem_program_only, the segments; none without a program
    flat,             \* every byte written to main memory, at its address
    dials             \* the knobs as the user left them: bits that are one

busVars == <<bus, flat, dials>>

Zero == {}
Zeros(n) == [i \in 1 .. n |-> Zero]

(***************************************************************************)
(* Main memory: sections are allocated by the first write into them.  An   *)
(* access goes on section by section until all bytes are done.             *)
(***************************************************************************)
Section(offset) == offset \div SectionSize

\* Mutant: the mask that takes the offset inside a section is one bit short.
get_section_offset_mask_Short(offset) == offset % (SectionSize \div 2)

get_section_offset_mask(offset) == offset % SectionSize

Touched(offset, n) == {Section(offset + i) : i \in 0 .. n - 1}
get_section(mem, s) == IF s \in DOMAIN mem THEN mem[s] ELSE [o \in 0 .. SectionSize - 1 |-> Zero]

memory_write(mem, offset, bytes) ==
    [s \in DOMAIN mem \cup Touched(offset, Len(bytes)) |->
        [o \in 0 .. SectionSize - 1 |->
            LET here == {i \in 1 .. Len(bytes) : /\ Section(offset + i - 1) = s
                                                 /\ get_section_offset_mask(offset + i - 1) = o}
            IN  IF here = {} THEN get_section(mem, s)[o] ELSE bytes[CHOOSE i \in here : TRUE]]]

\* The parts of an access start at its first byte and at every section boundary.
\* A part whose section was never written ends the access with zeros.
PartStarts(offset, n) == {i \in 0 .. n - 1 : i = 0 \/ get_section_offset_mask(offset + i) = 0}
memory_read(mem, offset, n) ==
    LET absent == {i \in PartStarts(offset, n) : Section(offset + i) \notin DOMAIN mem}
    IN  [k \in 1 .. n |-> IF \E i \in absent : i < k THEN Zero
                          ELSE mem[Section(offset + k - 1)][get_section_offset_mask(offset + k - 1)]]

\* An image is a sequence of segments, each with its address and file content.
to_memory(image) ==
    LET after[k \in 0 .. Len(image)] ==
            IF k = 0 THEN <<>> ELSE memory_write(after[k - 1], image[k].vaddr, image[k].data)
    IN  after[Len(image)]

\* What a memory without sections holds: the last byte written at each address.
FlatAfter(mem, a, bytes) ==
    LET written == a .. a + Len(bytes) - 1
    IN  [i \in DOMAIN mem \cup written |-> IF i \in written THEN bytes[i - a + 1] ELSE mem[i]]
FlatImage(image) ==
    LET after[k \in 0 .. Len(image)] ==
            IF k = 0 THEN <<>> ELSE FlatAfter(after[k - 1], image[k].vaddr, image[k].data)
    IN  after[Len(image)]
FlatRead(mem, a, n) == [i \in 1 .. n |-> IF a + i - 1 \in DOMAIN mem THEN mem[a + i - 1] ELSE Zero]

(***************************************************************************)
(* The LED panel, accessed by 32-bit words: an access of a part of a word  *)
(* reads the word first and writes all of it back.                         *)
(***************************************************************************)
LED_LINE == 4
LED_RGB1 == 16
LED_RGB2 == 20
KBDWR_DIRECT == 24
KBDRD_KNOBS == 32
KNOBS_8BIT == 36
LedRegisters == {LED_LINE, LED_RGB1, LED_RGB2}

WordBytes(bits) == [i \in 1 .. 4 |-> {b \in 0 .. 7 : 8 * (i - 1) + b \in bits}]
WordBits(bytes) == UNION {{8 * (i - 1) + b : b \in bytes[i]} : i \in 1 .. 4}

led_read_reg(b, reg) ==
    IF reg \in LedRegisters THEN b.leds[reg]
    ELSE IF reg = KNOBS_8BIT THEN WordBytes(b.knobs) ELSE Zeros(4)

\* Byte k of an access comes from the unit of `width` bytes its address lies in.
Unit(o, width) == o - (o % width)
Units(width, offset, n) == {Unit(offset + k - 1, width) : k \in 1 .. n}
read_by(units, width, offset, n) ==
    [k \in 1 .. n |-> units[Unit(offset + k - 1, width)][1 + ((offset + k - 1) % width)]]
led_read(b, offset, n) == read_by([u \in Units(4, offset, n) |-> led_read_reg(b, u)], 4, offset, n)

\* A register that changed is announced with its new value.
led_changed(b, new) ==
    [reg \in LedRegisters |-> IF new[reg] # b.leds[reg] THEN new[reg] ELSE b.led_view[reg]]

\* The word at `reg` after the bytes of the access that fall into it.
Merged(old, reg, offset, bytes) ==
    [i \in 1 .. 4 |-> LET k == reg + i - offset
                      IN  IF k \in DOMAIN bytes THEN bytes[k] ELSE old[i]]
led_write(b, offset, bytes) ==
    LET new == [reg \in LedRegisters |-> Merged(b.leds[reg], reg, offset, bytes)]
    IN  [b EXCEPT !.leds = new, !.led_view = led_changed(b, new)]

(***************************************************************************)
(* The display, accessed by 16-bit pixels                                  *)
(***************************************************************************)
get_fb_line_size == 2 * FbWidth
get_fb_size_bytes == get_fb_line_size * FbHeight
get_pixel_from_address(a) ==
    LET y == a \div get_fb_line_size IN <<(a - y * get_fb_line_size) \div 2, y>>

read_raw_pixel(b, o) == IF o + 1 >= get_fb_size_bytes THEN Zeros(2) ELSE <<b.fb_data[o], b.fb_data[o + 1]>>
lcd_read(b, offset, n) == read_by([u \in Units(2, offset, n) |-> read_raw_pixel(b, u)], 2, offset, n)

\* A pixel that changed is announced, at the place its address stands for.
pixel_update(b, new) ==
    LET Pixel(fb, o) == <<fb[o], fb[o + 1]>>
        changed == {o \in DOMAIN new : o % 2 = 0 /\ Pixel(new, o) # Pixel(b.fb_data, o)}
        at(p) == {o \in changed : get_pixel_from_address(o) = p}
    IN  [p \in DOMAIN b.lcd_view |->
            IF at(p) = {} THEN b.lcd_view[p] ELSE Pixel(new, CHOOSE o \in at(p) : TRUE)]

\* The bytes of an access that lie in the frame buffer are stored.
lcd_write(b, offset, bytes) ==
    LET new == [o \in DOMAIN b.fb_data |->
                   IF o - offset + 1 \in DOMAIN bytes THEN bytes[o - offset + 1] ELSE b.fb_data[o]]
    IN  [b EXCEPT !.fb_data = new, !.lcd_view = pixel_update(b, new)]

(***************************************************************************)
(* The bus: ranges by last address, as the machine's constructor inserts   *)
(* them.  The serial port, the ACLINT and the second ranges that a 64-bit  *)
(* machine gives every device are not on this bus.                         *)
(***************************************************************************)
BusRange(device, start, last) == [device |-> device, start |-> start, last |-> last]
Overlaps(r, start, last) == start \in r.start .. r.last \/ last \in r.start .. r.last

\* The range with the least last address that is not below the address.
lowerBound(ranges, a) == {r \in ranges : r.last >= a /\ \A q \in ranges : q.last >= a => r.last <= q.last}

insert_device_to_range(ranges, r) ==
    IF \E q \in lowerBound(ranges, r.start) : Overlaps(q, r.start, r.last) THEN ranges ELSE ranges \cup {r}

Ranges ==
    LET mem == insert_device_to_range({}, BusRange("mem", 0, RamLast))
        led == insert_device_to_range(mem, BusRange("perip_spi_led", LedStart, LedStart + 255))
    IN  insert_device_to_range(led, BusRange("perip_lcd_display", LcdStart, LcdStart + get_fb_size_bytes - 1))

find_range(a) == {r \in lowerBound(Ranges, a) : a \in r.start .. r.last}
Device(a) == IF find_range(a) = {} THEN "none" ELSE (CHOOSE r \in find_range(a) : TRUE).device

\* A read that starts at an unused address gives zeros, whatever it reaches.
bus_read(b, a, n) ==
    CASE Device(a) = "mem" -> memory_read(b.sections, a, n)
      [] Device(a) = "perip_spi_led" -> led_read(b, a - LedStart, n)
      [] Device(a) = "perip_lcd_display" -> lcd_read(b, a - LcdStart, n)
      [] OTHER -> Zeros(n)

\* The device's WriteResult::changed.

\* Mutant: the section compares only the first byte of the access.
Changed_FirstByte(b, a, bytes) == Device(a) # "none" /\ bus_read(b, a, 1)[1] # bytes[1]

Changed(b, a, bytes) ==
    CASE Device(a) = "mem" -> \E i \in DOMAIN bytes :
            get_section(b.sections, Section(a + i - 1))[get_section_offset_mask(a + i - 1)] # bytes[i]
      [] Device(a) = "perip_spi_led" -> led_write(b, a - LedStart, bytes).leds # b.leds
      [] Device(a) = "perip_lcd_display" -> lcd_write(b, a - LcdStart, bytes).fb_data # b.fb_data
      [] OTHER -> FALSE

\* write and write_single.  A device takes all bytes of an access that starts in
\* its range; main memory keeps those past the end of its range where no read
\* finds them.  An access that starts at an unused address is ignored.
bus_write(b, a, bytes) ==
    LET counted == [b EXCEPT !.changes = IF Changed(b, a, bytes) THEN @ + 1 ELSE @]
    IN  CASE Device(a) = "mem" -> [counted EXCEPT !.sections = memory_write(@, a, bytes)]
          [] Device(a) = "perip_spi_led" -> led_write(counted, a - LedStart, bytes)
          [] Device(a) = "perip_lcd_display" -> lcd_write(counted, a - LcdStart, bytes)
          [] OTHER -> b
flat_write(mem, a, bytes) == IF Device(a) = "mem" THEN FlatAfter(mem, a, bytes) ELSE mem

(***************************************************************************)
(* The user turns or pushes a knob: the field's bits are replaced, and the *)
(* bus told of it, unless they are the same already.                       *)
(***************************************************************************)
\* Mutant: the bits of the old position are not cleared.
knob_update_notify_KeepBits(b, val, mask) ==
    IF b.knobs \cap mask = val THEN b
    ELSE [b EXCEPT !.knobs = @ \cup val, !.changes = @ + 1]

knob_update_notify(b, val, mask) ==
    IF b.knobs \cap mask = val THEN b
    ELSE [b EXCEPT !.knobs = (@ \ mask) \cup val, !.changes = @ + 1]

BusInit(image) ==
    /\ bus = [sections |-> to_memory(image),
              leds |-> [reg \in LedRegisters |-> Zeros(4)],
              led_view |-> [reg \in LedRegisters |-> Zeros(4)],
              knobs |-> {},
              fb_data |-> [o \in 0 .. get_fb_size_bytes - 1 |-> Zero],
              lcd_view |-> [p \in (0 .. FbWidth - 1) \X (0 .. FbHeight - 1) |-> Zeros(2)],
              changes |-> 0,
              program |-> image]
    /\ flat = FlatImage(image)
    /\ dials = {}

(***************************************************************************)
(* Accesses of the running program and of the user                         *)
(***************************************************************************)
Write(a, bytes) ==
    /\ bus' = bus_write(bus, a, bytes)
    /\ flat' = flat_write(flat, a, bytes)
    /\ UNCHANGED dials

Store == \E s \in Stores : Write(s[1], s[2])

TurnKnob == \E k \in Knobs :
    /\ bus' = knob_update_notify(bus, k[1], k[2])
    /\ dials' = (dials \ k[2]) \cup k[1]
    /\ UNCHANGED flat

(***************************************************************************)
(* Properties                                                              *)
(***************************************************************************)
\* The sections are an implementation detail (backend/memory.cpp: "Lazy allocation
\* of memory is only internal implementation detail"): an aligned word read through
\* the bus holds the bytes last written at its addresses, zero before, wherever the
\* section boundaries are.
WordsAreFlat ==
    \A a \in {Unit(x, 4) : x \in DOMAIN flat} \cup {SectionSize * s : s \in DOMAIN bus.sections} :
        a + 3 <= RamLast => bus_read(bus, a, 4) = FlatRead(flat, a, 4)

\* The widgets are told only of changes, and must still show what the program reads
\* back: every register of the LED panel and every pixel, after any mixture of whole,
\* partial and overlapping accesses; and the program reads the knobs as the user left
\* them.
DevicesShown ==
    /\ bus.led_view = [reg \in LedRegisters |-> bus_read(bus, LedStart + reg, 4)]
    /\ \A x \in 0 .. FbWidth - 1, y \in 0 .. FbHeight - 1 :
          bus.lcd_view[<<x, y>>] = bus_read(bus, LcdStart + (2 * (y * FbWidth + x)), 2)
    /\ WordBits(bus_read(bus, LedStart + KNOBS_8BIT, 4)) = dials
=============================================================================

-------------------------------- MODULE Kernel --------------------------------
(***************************************************************************)
(* The kernels of tutorials/tutorial7 and tutorials/tutorial8: the kernel  *)
(* boots and writes to the screen, and the keyboard interrupt writes to    *)
(* the same screen and moves the same cursor.  The variable version says   *)
(* which of them was started.                                              *)
(*                                                                         *)
(* A step is a store to the screen, one out_port, or a statement that no   *)
(* interrupt can tell from its parts.  The handler is behind an interrupt  *)
(* gate (type_attr 0x8e): while it runs there is no other interrupt, so    *)
(* its steps are never interleaved with those of the boot.  A cell of the  *)
(* screen stands for its character; the colour is the same everywhere.     *)
(***************************************************************************)
EXTENDS Integers, Sequences

CONSTANTS
  COLS,         \* cells in a row (80 in the code)
  ROWS,         \* rows of the screen (25)
  TAB,          \* blanks a tab writes in tutorial 8 (8)
  TAB_STOP,     \* the tab stops of tutorial 7 (4)
  REGISTER,     \* values of a register of the display controller (256)
  GREETING_AT,  \* where the greeting starts (80 * 12 + 33)
  MaxKeys,      \* bound: scan codes the keyboard sends
  MaxBootKeys   \* bound: those of them sent before the boot is over

ASSUME ScreenAssumption ==
  /\ COLS \in Nat \ {0} /\ ROWS \in Nat \ {0}
  /\ TAB \in 1 .. COLS /\ TAB_STOP \in 1 .. COLS
  /\ REGISTER \in Nat /\ REGISTER * REGISTER > ROWS * COLS
  /\ MaxKeys \in Nat /\ MaxBootKeys \in 0 .. MaxKeys

CELLS == ROWS * COLS
Cells == 0 .. CELLS - 1
Memory == 0 .. CELLS + MaxKeys * COLS    \* video memory, the screen first

Blank == " "
Greeting == <<"H", "w">>                 \* "Hello World!"

(* A key after the greeting does not scroll it away.                       *)
ASSUME GreetingAssumption ==
  GREETING_AT \in Nat /\ GREETING_AT + Len(Greeting) + COLS < CELLS

(* What keyboard_map makes of a scan code; "release" is a negative one.    *)
Keys == {"k", "newline", "tab", "release"}

Contexts == {"main", "handler"}

VARIABLES
  version,          \* 7 or 8
  machine,          \* "running", "reset" (a triple fault) or "corrupted"
  pc,               \* the statement of kmain
  frame,            \* per context, the call it is in
  mem,              \* video memory
  cursor_position,  \* the cursor, as the kernel remembers it
  crtc,             \* the registers of the display controller
  gdt,              \* selector 0x08 of the handler's entry is a code segment
  idt,              \* the entry of the keyboard: "absent", "partial", "present"
  enabled,          \* the interrupt flag of the processor
  unmasked,         \* the interrupt controller lets the keyboard through
  keyboard,         \* scan codes not read yet
  pressed,          \* how many there have been
  before,           \* history: screen, cursor and key of the handler's call
  torn,             \* history: a key was echoed inside main's set_cursor
  echoed            \* history: ... or since it began

boot == <<pc, gdt, idt, enabled, unmasked>>
display == <<mem, cursor_position, crtc>>
keys == <<keyboard, pressed>>
history == <<before, torn, echoed>>
kernelVars == <<version, machine, boot, frame, display, keys, history>>

-----------------------------------------------------------------------------
(* Frames: where a context is, the text it still has to write, the local   *)
(* current_address or address, and the counter of its loop.                *)
Frame(label, text, address, count) ==
  [label |-> label, text |-> text, address |-> address, count |-> count]

AtRest == Frame("rest", <<>>, 0, 0)
NoCall == [screen |-> <<>>, cursor |-> 0, key |-> "none"]

Handling == frame["handler"] # AtRest
Booted == frame["main"].label = "idle"

(* The context c executes now.                                             *)
Runs(c) ==
  /\ machine = "running"
  /\ (c = "handler") <=> Handling

Enter(c, f) == frame' = [frame EXCEPT ![c] = f]

Started(text) == Frame("character", text, cursor_position, 0)

(* set_cursor(address), about to do its out_port number count + 1.         *)
SettingCursor(address, count) == Frame("port", <<>>, address, count)

(* After a character: the test of the scrolling loop, then of the outer.   *)
After(text, address) ==
  IF version = 8 /\ address >= CELLS THEN Frame("scroll", text, address, 0)
  ELSE IF text = <<>> THEN SettingCursor(address, 0)
  ELSE Frame("character", text, address, 0)

-----------------------------------------------------------------------------
(* write_char                                                              *)

(* Mutant: the test that tutorial 7 does not have either.                  *)
InScreenAlways(address) == TRUE

InScreen(address) == version = 8 => address <= CELLS

WriteChar(address, c) ==
  mem' = IF InScreen(address) THEN [mem EXCEPT ![address] = c] ELSE mem

(* The loop of write                                                       *)

WriteGlyph(c) ==
  LET f == frame[c] IN
  /\ Runs(c) /\ f.label = "character"
  /\ Head(f.text) \notin {"newline", "tab"}
  /\ WriteChar(f.address, Head(f.text))
  /\ Enter(c, After(Tail(f.text), f.address + 1))
  /\ UNCHANGED <<version, machine, boot, cursor_position, crtc, keys, history>>

(* Tutorial 7 only moves the cursor.                                       *)
MoveOver(c) ==
  LET f == frame[c]
      unit == IF Head(f.text) = "tab" THEN TAB_STOP ELSE COLS
  IN
  /\ version = 7
  /\ Runs(c) /\ f.label = "character"
  /\ Head(f.text) \in {"newline", "tab"}
  /\ Enter(c, After(Tail(f.text), f.address + unit - (f.address % unit)))
  /\ UNCHANGED <<version, machine, boot, display, keys, history>>

(* Tutorial 8 writes blanks: to the end of the row, or TAB of them.        *)
(* Mutant: the loop for a newline tests before it counts.                  *)
BlanksDoneLate(f) ==
  IF Head(f.text) = "tab" THEN f.count + 1 = TAB ELSE f.address % COLS = 0

BlanksDone(f) ==
  IF Head(f.text) = "tab" THEN f.count + 1 = TAB
                          ELSE (f.address + 1) % COLS = 0

WriteBlank(c) ==
  LET f == frame[c] IN
  /\ version = 8
  /\ Runs(c) /\ f.label = "character"
  /\ Head(f.text) \in {"newline", "tab"}
  /\ WriteChar(f.address, Blank)
  /\ Enter(c, IF BlanksDone(f) THEN After(Tail(f.text), f.address + 1)
              ELSE [f EXCEPT !.address = f.address + 1, !.count = f.count + 1])
  /\ UNCHANGED <<version, machine, boot, cursor_position, crtc, keys, history>>

(* One cell of the scrolling loop: a copy from the next row, or a blank of *)
(* the last row; then current_address goes up a row.                       *)
Scrolled(j) == IF j < CELLS - COLS THEN mem[j + COLS] ELSE Blank

ScrollCell(c) ==
  LET f == frame[c] IN
  /\ Runs(c) /\ f.label = "scroll"
  /\ mem' = [mem EXCEPT ![f.count] = Scrolled(f.count)]
  /\ Enter(c, IF f.count = CELLS - 1 THEN After(f.text, f.address - COLS)
                                     ELSE [f EXCEPT !.count = f.count + 1])
  /\ UNCHANGED <<version, machine, boot, cursor_position, crtc, keys, history>>

-----------------------------------------------------------------------------
(* set_cursor                                                              *)

(* The display controller: port 0x3D4 selects register 14 (the high byte)  *)
(* or 15 (the low byte), port 0x3D5 sets the selected one.                 *)
Select(register) == [crtc EXCEPT !.index = register]
Send(byte) == [crtc EXCEPT !.data[crtc.index] = byte]

(* Mutant: the register is left selected from the call before.             *)
PortLowOnly(address, count) ==
  CASE count = 0 -> crtc
    [] count = 1 -> Send((address \div REGISTER) % REGISTER)
    [] count = 2 -> Select(15)
    [] count = 3 -> Send(address % REGISTER)

Port(address, count) ==
  CASE count = 0 -> Select(14)
    [] count = 1 -> Send((address \div REGISTER) % REGISTER)
    [] count = 2 -> Select(15)
    [] count = 3 -> Send(address % REGISTER)

InSetCursor(c) == frame[c].label = "port" /\ frame[c].count > 0

OutPort(c) ==
  LET f == frame[c] IN
  /\ Runs(c) /\ f.label = "port" /\ f.count < 4
  /\ crtc' = Port(f.address, f.count)
  /\ Enter(c, [f EXCEPT !.count = f.count + 1])
  /\ torn' = (torn /\ ~(c = "main" /\ f.count = 0))
  /\ UNCHANGED <<version, machine, boot, mem, cursor_position, keys, before,
                 echoed>>

(* The last statement of set_cursor, and the return to kmain or to the end *)
(* of the handler.                                                         *)
StorePosition(c) ==
  LET f == frame[c] IN
  /\ Runs(c) /\ f.label = "port" /\ f.count = 4
  /\ cursor_position' = f.address
  /\ IF c = "main"
     THEN /\ Enter(c, AtRest) /\ pc' = pc + 1
          /\ UNCHANGED <<torn, echoed>>
     ELSE /\ Enter(c, Frame("return", <<>>, 0, 0)) /\ UNCHANGED pc
          /\ torn' = InSetCursor("main") /\ echoed' = TRUE
  /\ UNCHANGED <<version, machine, gdt, idt, enabled, unmasked, mem, crtc, keys,
                 before>>

-----------------------------------------------------------------------------
(* kmain.  A statement is an operation and its argument.                   *)

Op(name) == [op |-> name]
SetCursor(address) == [op |-> "set_cursor", arg |-> address]
Write(text) == [op |-> "write", arg |-> text]

ClearScreen ==
  <<SetCursor(0)>> \o [i \in 1 .. ROWS |-> Write(<<"newline">>)]
                   \o <<SetCursor(0)>>

Tutorial8 ==
  <<Op("load_gdt"), Op("handler_fields"), Op("handler_high"), Op("idt_init"),
    Op("enable_keyboard")>>
  \o ClearScreen
  \o <<SetCursor(GREETING_AT), Write(Greeting), Op("call_module")>>

Tutorial7 ==
  <<Op("idt_init"), SetCursor(0), Op("blank_cells"), SetCursor(0),
    Op("enable_keyboard"), Op("handler_fields"), Op("handler_high"),
    Op("loop")>>

(* Mutant: the handler is installed after the keyboard is enabled.         *)
BootInstallsLate ==
  IF version = 8
  THEN <<Op("load_gdt"), Op("idt_init"), Op("enable_keyboard"),
         Op("handler_fields"), Op("handler_high")>>
       \o SubSeq(Tutorial8, 6, Len(Tutorial8))
  ELSE Tutorial7

Boot == IF version = 8 THEN Tutorial8 ELSE Tutorial7

At(name) ==
  /\ Runs("main") /\ frame["main"] = AtRest
  /\ Boot[pc].op = name

NextStatement == pc' = pc + 1 /\ UNCHANGED frame

LoadGdt ==
  /\ At("load_gdt")
  /\ gdt' = TRUE
  /\ NextStatement
  /\ UNCHANGED <<version, machine, idt, enabled, unmasked, display, keys,
                 history>>

(* load_keyboard stores five fields: type_attr makes the entry present,    *)
(* and the high half of the address follows it.                            *)
HandlerFields ==
  /\ At("handler_fields")
  /\ idt' = "partial"
  /\ NextStatement
  /\ UNCHANGED <<version, machine, gdt, enabled, unmasked, display, keys,
                 history>>

HandlerHigh ==
  /\ At("handler_high")
  /\ idt' = "present"
  /\ NextStatement
  /\ UNCHANGED <<version, machine, gdt, enabled, unmasked, display, keys,
                 history>>

(* All lines are masked, then load_idt sets the interrupt flag.            *)
IdtInit ==
  /\ At("idt_init")
  /\ unmasked' = FALSE /\ enabled' = TRUE
  /\ NextStatement
  /\ UNCHANGED <<version, machine, gdt, idt, display, keys, history>>

EnableKeyboard ==
  /\ At("enable_keyboard")
  /\ unmasked' = TRUE
  /\ NextStatement
  /\ UNCHANGED <<version, machine, gdt, idt, enabled, display, keys, history>>

(* The loop of clear_screen in tutorial 7: every line is masked.           *)
BlankCells ==
  /\ At("blank_cells")
  /\ mem' = [a \in Memory |-> IF a \in Cells THEN Blank ELSE mem[a]]
  /\ NextStatement
  /\ UNCHANGED <<version, machine, gdt, idt, enabled, unmasked, cursor_position,
                 crtc, keys, history>>

CallSetCursor ==
  /\ At("set_cursor")
  /\ Enter("main", SettingCursor(Boot[pc].arg, 0))
  /\ echoed' = FALSE
  /\ UNCHANGED <<version, machine, boot, display, keys, before, torn>>

CallWrite ==
  /\ At("write")
  /\ Enter("main", Started(Boot[pc].arg))
  /\ UNCHANGED <<version, machine, boot, display, keys, history>>

(* The last statement: the module, which loops (program.asm), or while (1). *)
Idle ==
  /\ At("call_module") \/ At("loop")
  /\ Enter("main", Frame("idle", <<>>, 0, 0))
  /\ UNCHANGED <<version, machine, boot, display, keys, history>>

-----------------------------------------------------------------------------
(* The keyboard                                                            *)

Press ==
  /\ machine = "running"
  /\ pressed < IF Booted THEN MaxKeys ELSE MaxBootKeys
  /\ \E key \in Keys : keyboard' = Append(keyboard, key)
  /\ pressed' = pressed + 1
  /\ UNCHANGED <<version, machine, boot, frame, display, history>>

(* A scan code waits, and the processor takes the interrupt.               *)
Pending ==
  /\ machine = "running" /\ ~Handling
  /\ enabled /\ unmasked /\ keyboard # <<>>

Interrupt ==
  /\ Pending /\ idt = "present" /\ gdt
  /\ Enter("handler", Frame("entered", <<>>, 0, 0))
  /\ UNCHANGED <<version, machine, boot, display, keys, history>>

(* There is no handler for the fault either: the machine resets.           *)
InterruptUnhandled ==
  /\ Pending /\ (idt = "absent" \/ ~gdt)
  /\ machine' = "reset"
  /\ UNCHANGED <<version, boot, frame, display, keys, history>>

(* A jump to the low half of the handler's address.                        *)
InterruptAstray ==
  /\ Pending /\ idt = "partial" /\ gdt
  /\ machine' = "corrupted"
  /\ UNCHANGED <<version, boot, frame, display, keys, history>>

(* Mutant: the byte of a released key is not taken from the controller.    *)
ReadKeyPressedOnly ==
  LET key == Head(keyboard) IN
  /\ Runs("handler") /\ frame["handler"].label = "entered"
  /\ keyboard' = IF key = "release" THEN keyboard ELSE Tail(keyboard)
  /\ Enter("handler", IF key = "release" THEN Frame("return", <<>>, 0, 0)
                                         ELSE Started(<<key>>))
  /\ before' = [screen |-> mem, cursor |-> cursor_position, key |-> key]
  /\ UNCHANGED <<version, machine, boot, display, pressed, torn, echoed>>

(* keyboard_handler_main                                                   *)
ReadKey ==
  LET key == Head(keyboard) IN
  /\ Runs("handler") /\ frame["handler"].label = "entered"
  /\ keyboard' = Tail(keyboard)
  /\ Enter("handler", IF key = "release" THEN Frame("return", <<>>, 0, 0)
                                         ELSE Started(<<key>>))
  /\ before' = [screen |-> mem, cursor |-> cursor_position, key |-> key]
  /\ UNCHANGED <<version, machine, boot, display, pressed, torn, echoed>>

(* iretd.  keyboard_handler saves no register: what it interrupted goes on *)
(* as before, or with the handler's values in eax, ecx and edx; the two    *)
(* loops at the end of the boot need no register.                          *)
Resume ==
  /\ Runs("handler") /\ frame["handler"].label = "return"
  /\ Enter("handler", AtRest)
  /\ before' = NoCall
  /\ UNCHANGED <<version, machine, boot, display, keys, torn, echoed>>

ResumeCorrupted ==
  /\ Runs("handler") /\ frame["handler"].label = "return"
  /\ ~Booted /\ Boot[pc].op # "loop"
  /\ machine' = "corrupted"
  /\ UNCHANGED <<version, boot, frame, display, keys, history>>

-----------------------------------------------------------------------------

KernelInit ==
  /\ version \in {7, 8}
  /\ machine = "running"
  /\ pc = 1
  /\ frame = [c \in Contexts |-> AtRest]
  /\ mem = [a \in Memory |-> "old"]
  /\ cursor_position = 0
  /\ crtc = [index |-> 14, data |-> [r \in {14, 15} |-> 1]]
  /\ gdt = (version = 7)       \* the boot loader's descriptors are used
  /\ idt = "absent"
  /\ enabled = FALSE           \* cli in start
  /\ unmasked = TRUE
  /\ keyboard = <<>>
  /\ pressed = 0
  /\ before = NoCall
  /\ torn = FALSE
  /\ echoed = FALSE

Statement ==
  \/ LoadGdt \/ HandlerFields \/ HandlerHigh \/ IdtInit \/ EnableKeyboard
  \/ BlankCells \/ CallSetCursor \/ CallWrite \/ Idle

CallStep(c) ==
  WriteGlyph(c) \/ MoveOver(c) \/ WriteBlank(c) \/ ScrollCell(c)
  \/ OutPort(c) \/ StorePosition(c)

Take == Interrupt \/ InterruptUnhandled \/ InterruptAstray

Return == Resume \/ ResumeCorrupted

KernelNext ==
  \/ Statement
  \/ \E c \in Contexts : CallStep(c)
  \/ Press
  \/ Take
  \/ ReadKey
  \/ Return

KernelSpec == KernelInit /\ [][KernelNext]_kernelVars

(* The processor goes on executing, and takes an interrupt that waits.     *)
KernelFairSpec ==
  /\ KernelSpec
  /\ WF_kernelVars(Statement) /\ \A c \in Contexts : WF_kernelVars(CallStep(c))
  /\ WF_kernelVars(Take) /\ WF_kernelVars(ReadKey) /\ WF_kernelVars(Return)

-----------------------------------------------------------------------------

KernelTypeOK ==
  /\ version \in {7, 8}
  /\ machine \in {"running", "reset", "corrupted"}
  /\ pc \in 1 .. Len(Boot)
  /\ DOMAIN frame = Contexts
  /\ mem \in [Memory -> {"old", Blank, "k"} \cup {Greeting[i] : i \in 1 .. 2}]
  /\ cursor_position \in Memory
  /\ crtc.index \in {14, 15} /\ crtc.data \in [{14, 15} -> 0 .. REGISTER - 1]
  /\ idt \in {"absent", "partial", "present"}
  /\ pressed \in 0 .. MaxKeys /\ Len(keyboard) <= pressed

(* What a key does to a terminal, in one step: where the cursor goes, what *)
(* is written from the old position on, and the rows that go off the top.  *)
Target(p, key) ==
  CASE key = "k" -> p + 1
    [] key = "newline" -> (p \div COLS + 1) * COLS
    [] key = "tab" /\ version = 8 -> p + TAB
    [] key = "tab" /\ version = 7 -> (p \div TAB_STOP + 1) * TAB_STOP
    [] OTHER -> p

Lost(q) == IF version = 8 /\ q >= CELLS THEN COLS ELSE 0

Written(call, a) ==
  IF call.key = "k" /\ a = call.cursor THEN "k"
  ELSE IF version = 8 /\ a >= call.cursor /\ a < Target(call.cursor, call.key)
       THEN Blank ELSE call.screen[a]

OnScreen(call, a) ==
  LET lost == Lost(Target(call.cursor, call.key)) IN
  IF a + lost \in Cells THEN Written(call, a + lost) ELSE Blank

\* However the key came in between two steps of the boot, when its handler is
\* done the screen and the cursor are what they were with the key typed on a
\* terminal: written at the cursor, the rest in place, scrolled by one row when
\* the end is passed.  The memory behind the screen is left alone, but for the
\* cell that the test of write_char (<= 80 * 25) lets through and, in tutorial 7,
\* which neither scrolls nor tests, the character itself.
EchoIsTerminal ==
  frame["handler"].label = "return" =>
    LET target == Target(before.cursor, before.key) IN
    /\ cursor_position = target - Lost(target)
    /\ \A a \in Memory :
         mem[a] = IF a \in Cells THEN OnScreen(before, a)
                  ELSE IF version = 7 \/ a = CELLS THEN Written(before, a)
                  ELSE before.screen[a]

\* When the boot of tutorial 8 is over and no key has been echoed since main began
\* to set the cursor to the place of the greeting, the greeting stands there with
\* the cursor behind it, whatever keys came before; and if no key has been read at
\* all the rest of the screen is blank, whatever the memory held at the start.
GreetingShown ==
  Booted /\ version = 8 /\ ~echoed =>
    /\ \A i \in 1 .. Len(Greeting) : mem[GREETING_AT + i - 1] = Greeting[i]
    /\ cursor_position = GREETING_AT + Len(Greeting)
    /\ pressed = Len(keyboard) =>
         \A a \in Cells \ (GREETING_AT .. GREETING_AT + Len(Greeting) - 1) :
           mem[a] = Blank

\* The cursor the display shows is the one the kernel remembers whenever no call
\* of set_cursor is going on, unless a key came in the middle of the boot's last
\* one; the next key repairs it.  The cursor of tutorial 7 only goes on: what is
\* shown is what two registers hold of it (of 819 newlines all, of 820 not).
CursorShown ==
  (\A c \in Contexts : ~InSetCursor(c)) /\ ~torn
  /\ (\E i \in 1 .. pc - 1 : Boot[i].op = "set_cursor") =>
    LET shown == crtc.data[14] * REGISTER + crtc.data[15] IN
    /\ shown = cursor_position % (REGISTER * REGISTER)
    /\ version = 8 => shown = cursor_position

\* The kernel of tutorial 8, which installs its handler before it lets interrupts
\* through, is never reset, and what a key can do to its boot it does with the
\* handler installed; that of tutorial 7 can be reset, or jump to half an address,
\* until its handler is whole.
ResetOnlyBeforeHandler ==
  machine # "running" =>
    /\ ~Booted
    /\ version = 8 => machine # "reset" /\ idt = "present"
    /\ version = 7 => idt # "present"

\* The boot ends and every key is answered, unless the machine went astray.
KeysAnswered ==
  <>[](machine # "running" \/ (Booted /\ ~Handling /\ keyboard = <<>>))
=============================================================================

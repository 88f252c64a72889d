---------------------------- MODULE TutorialProofs -----------------------------
(***************************************************************************)
(* The programs of the tutorials.                                          *)
(*                                                                         *)
(* The kernels: for any screen, any number of keys and any moment at which *)
(* they come, tutorial 8 is never reset, every store stays in video        *)
(* memory, the display shows the cursor, a key is echoed as a terminal     *)
(* would, and the greeting stands.  In the order of the proof:             *)
(*   BootInv      where the two contexts are, what is installed by then    *)
(*   RangeInv     what their frames hold, and how far the cursor can be     *)
(*   PortInv      what the display was sent of the cursor                   *)
(*   EchoInv      the screen while the handler writes                       *)
(*   GreetingInv  the screen while kmain writes the greeting                *)
(*   ClearedInv   the blanks of clear_screen                                *)
(*                                                                         *)
(* The threads: the mutex of thread.c keeps every addition, and every      *)
(* program prints the sum of the loop, as far as it reaches the parent,    *)
(* for any number of threads or children and any values.                   *)
(***************************************************************************)
EXTENDS ParallelSum, Kernel, OperatorProofs

-----------------------------------------------------------------------------
(* The kernels.                                                            *)

(* The statements of kmain.                                                *)
LEMMA BootOfTutorial8 ==
  /\ Len(Tutorial8) = ROWS + 10
  /\ Tutorial8[1] = Op("load_gdt") /\ Tutorial8[2] = Op("handler_fields")
  /\ Tutorial8[3] = Op("handler_high") /\ Tutorial8[4] = Op("idt_init")
  /\ Tutorial8[5] = Op("enable_keyboard")
  /\ Tutorial8[6] = SetCursor(0)
  /\ \A i \in 7 .. ROWS + 6 : Tutorial8[i] = Write(<<"newline">>)
  /\ Tutorial8[ROWS + 7] = SetCursor(0)
  /\ Tutorial8[ROWS + 8] = SetCursor(GREETING_AT)
  /\ Tutorial8[ROWS + 9] = Write(Greeting)
  /\ Tutorial8[ROWS + 10] = Op("call_module")
<1> DEFINE head == <<Op("load_gdt"), Op("handler_fields"), Op("handler_high"),
                     Op("idt_init"), Op("enable_keyboard")>>
           newlines == [i \in 1 .. ROWS |-> Write(<<"newline">>)]
           one == <<SetCursor(0)>>
           tail == <<SetCursor(GREETING_AT), Write(Greeting), Op("call_module")>>
<1>7. ROWS \in Nat /\ ROWS >= 1
  BY ScreenAssumption
<1>1. /\ head \in Seq({head[i] : i \in 1 .. 5}) /\ Len(head) = 5
      /\ head[1] = Op("load_gdt") /\ head[2] = Op("handler_fields")
      /\ head[3] = Op("handler_high") /\ head[4] = Op("idt_init")
      /\ head[5] = Op("enable_keyboard")
  OBVIOUS
<1>2. /\ Len(newlines) = ROWS /\ \A i \in 1 .. ROWS : newlines[i] = Write(<<"newline">>)
      /\ newlines \in Seq({Write(<<"newline">>)})
  BY <1>7
<1>3. Len(one) = 1 /\ one[1] = SetCursor(0) /\ one \in Seq({SetCursor(0)})
  OBVIOUS
<1>4. /\ Len(tail) = 3 /\ tail[1] = SetCursor(GREETING_AT) /\ tail[2] = Write(Greeting)
      /\ tail[3] = Op("call_module")
      /\ tail \in Seq({tail[i] : i \in 1 .. 3})
  OBVIOUS
<1>5. Tutorial8 = (head \o ((one \o newlines) \o one)) \o tail
  BY DEF Tutorial8, ClearScreen
<1> DEFINE All == {head[i] : i \in 1 .. 5} \cup {Write(<<"newline">>), SetCursor(0)}
                    \cup {tail[i] : i \in 1 .. 3}
<1>6. head \in Seq(All) /\ newlines \in Seq(All) /\ one \in Seq(All) /\ tail \in Seq(All)
  BY <1>1, <1>2, <1>3, <1>4
<1> HIDE DEF head, newlines, one, tail, All
<1> DEFINE a == one \o newlines
           b == a \o one
           d == head \o b
<1>8. /\ a \in Seq(All) /\ Len(a) = ROWS + 1 /\ a[1] = SetCursor(0)
      /\ \A i \in 2 .. ROWS + 1 : a[i] = Write(<<"newline">>)
  <2>1. /\ a \in Seq(All) /\ Len(a) = 1 + ROWS
        /\ \A i \in 1 .. 1 + ROWS : a[i] = IF i <= 1 THEN one[i] ELSE newlines[i - 1]
    <3>1. /\ one \o newlines \in Seq(All) /\ Len(one \o newlines) = Len(one) + Len(newlines)
        /\ \A i \in 1 .. Len(one) + Len(newlines) :
             (one \o newlines)[i] = IF i <= Len(one) THEN one[i] ELSE newlines[i - Len(one)]
      BY <1>6, ConcatProperties
    <3> QED
      BY <1>2, <1>3, <3>1
  <2> HIDE DEF a
  <2>2. ASSUME NEW i \in 2 .. ROWS + 1 PROVE a[i] = Write(<<"newline">>)
    <3>1. i - 1 \in 1 .. ROWS /\ i \in 1 .. 1 + ROWS /\ ~(i <= 1)
      BY <1>7
    <3> QED
      BY <1>2, <2>1, <3>1
  <2>3. a[1] = SetCursor(0) /\ 1 + ROWS = ROWS + 1
    BY <1>3, <1>7, <2>1
  <2> QED
    BY <2>1, <2>2, <2>3
<1> HIDE DEF a
<1>9. /\ b \in Seq(All) /\ Len(b) = ROWS + 2 /\ b[1] = SetCursor(0)
      /\ \A i \in 2 .. ROWS + 1 : b[i] = Write(<<"newline">>)
      /\ b[ROWS + 2] = SetCursor(0)
  <2>1. /\ b \in Seq(All) /\ Len(b) = ROWS + 1 + 1
        /\ \A i \in 1 .. ROWS + 1 + 1 : b[i] = IF i <= ROWS + 1 THEN a[i] ELSE one[i - (ROWS + 1)]
    <3>1. /\ a \o one \in Seq(All) /\ Len(a \o one) = Len(a) + Len(one)
        /\ \A i \in 1 .. Len(a) + Len(one) :
             (a \o one)[i] = IF i <= Len(a) THEN a[i] ELSE one[i - Len(a)]
      BY <1>6, <1>8, ConcatProperties
    <3> QED
      BY <1>3, <1>8, <3>1
  <2> HIDE DEF b
  <2>2. ASSUME NEW i \in 2 .. ROWS + 1 PROVE b[i] = Write(<<"newline">>)
    BY <1>7, <1>8, <2>1, <2>2
  <2>3. b[1] = SetCursor(0) /\ b[ROWS + 2] = SetCursor(0) /\ ROWS + 1 + 1 = ROWS + 2
    BY <1>3, <1>7, <1>8, <2>1
  <2> QED
    BY <2>1, <2>2, <2>3
<1> HIDE DEF b
<1>10. /\ d \in Seq(All) /\ Len(d) = ROWS + 7
       /\ \A i \in 1 .. ROWS + 7 : d[i] = IF i <= 5 THEN head[i] ELSE b[i - 5]
  <2>1. /\ d \in Seq(All) /\ Len(d) = 5 + (ROWS + 2)
        /\ \A i \in 1 .. 5 + (ROWS + 2) : d[i] = IF i <= 5 THEN head[i] ELSE b[i - 5]
    <3>1. /\ head \o b \in Seq(All) /\ Len(head \o b) = Len(head) + Len(b)
        /\ \A i \in 1 .. Len(head) + Len(b) :
             (head \o b)[i] = IF i <= Len(head) THEN head[i] ELSE b[i - Len(head)]
      BY <1>6, <1>9, ConcatProperties
    <3> QED
      BY <1>1, <1>9, <3>1
  <2> HIDE DEF d
  <2> QED
    BY <1>7, <2>1
<1> HIDE DEF d
<1>11. Tutorial8 = d \o tail
  BY <1>5 DEF a, b, d
<1>12. /\ Len(Tutorial8) = ROWS + 10
       /\ \A i \in 1 .. ROWS + 10 :
            Tutorial8[i] = IF i <= ROWS + 7 THEN d[i] ELSE tail[i - (ROWS + 7)]
  <2>1. /\ Len(Tutorial8) = (ROWS + 7) + 3
        /\ \A i \in 1 .. (ROWS + 7) + 3 :
             Tutorial8[i] = IF i <= ROWS + 7 THEN d[i] ELSE tail[i - (ROWS + 7)]
    <3>1. /\ d \o tail \in Seq(All) /\ Len(d \o tail) = Len(d) + Len(tail)
        /\ \A i \in 1 .. Len(d) + Len(tail) :
             (d \o tail)[i] = IF i <= Len(d) THEN d[i] ELSE tail[i - Len(d)]
      BY <1>6, <1>10, ConcatProperties
    <3> QED
      BY <1>4, <1>10, <1>11, <3>1
  <2> QED
    BY <1>7, <2>1
<1>13. \A i \in 1 .. 5 : Tutorial8[i] = head[i]
  BY <1>7, <1>10, <1>12
<1>14. \A i \in 6 .. ROWS + 7 : Tutorial8[i] = b[i - 5]
  BY <1>7, <1>10, <1>12
<1>15. /\ Tutorial8[6] = SetCursor(0) /\ Tutorial8[ROWS + 7] = SetCursor(0)
       /\ \A i \in 7 .. ROWS + 6 : Tutorial8[i] = Write(<<"newline">>)
  <2>1. Tutorial8[6] = b[1] /\ Tutorial8[ROWS + 7] = b[ROWS + 2]
    BY <1>7, <1>14
  <2>2. ASSUME NEW i \in 7 .. ROWS + 6 PROVE Tutorial8[i] = Write(<<"newline">>)
    <3>1. i - 5 \in 2 .. ROWS + 1 /\ i \in 6 .. ROWS + 7
      BY <1>7
    <3> QED
      BY <1>9, <1>14, <3>1
  <2> QED
    BY <1>9, <2>1, <2>2
<1>16. /\ Tutorial8[ROWS + 8] = tail[1] /\ Tutorial8[ROWS + 9] = tail[2]
       /\ Tutorial8[ROWS + 10] = tail[3]
  BY <1>7, <1>12
<1>17. /\ Tutorial8[1] = head[1] /\ Tutorial8[2] = head[2] /\ Tutorial8[3] = head[3]
       /\ Tutorial8[4] = head[4] /\ Tutorial8[5] = head[5]
  BY <1>13
<1> QED
  BY <1>1, <1>4, <1>12, <1>15, <1>16, <1>17, Zenon

LEMMA OpsOfTutorial8 ==
  ASSUME NEW i \in 1 .. Len(Tutorial8)
  PROVE  /\ i \in 1 .. ROWS + 10
         /\ Tutorial8[i].op = "load_gdt" <=> i = 1
         /\ Tutorial8[i].op = "handler_fields" <=> i = 2
         /\ Tutorial8[i].op = "handler_high" <=> i = 3
         /\ Tutorial8[i].op = "idt_init" <=> i = 4
         /\ Tutorial8[i].op = "enable_keyboard" <=> i = 5
         /\ Tutorial8[i].op = "set_cursor" <=> i \in {6, ROWS + 7, ROWS + 8}
         /\ Tutorial8[i].op = "write" <=> i \in 7 .. ROWS + 6 \/ i = ROWS + 9
         /\ Tutorial8[i].op = "call_module" <=> i = ROWS + 10
         /\ Tutorial8[i].op \notin {"blank_cells", "loop"}
<1> DEFINE op == Tutorial8[i].op
<1>1. ROWS \in Nat /\ ROWS >= 1 /\ i \in 1 .. ROWS + 10
  BY BootOfTutorial8, ScreenAssumption
<1>2. /\ i = 1 => op = "load_gdt"
      /\ i = 2 => op = "handler_fields"
      /\ i = 3 => op = "handler_high"
      /\ i = 4 => op = "idt_init"
      /\ i = 5 => op = "enable_keyboard"
      /\ i = ROWS + 10 => op = "call_module"
  BY BootOfTutorial8 DEF Op
<1>3. i = 6 \/ i = ROWS + 7 \/ i = ROWS + 8 => op = "set_cursor"
  BY BootOfTutorial8 DEF SetCursor
<1>4. i \in 7 .. ROWS + 6 \/ i = ROWS + 9 => op = "write"
  BY BootOfTutorial8 DEF Write
<1> HIDE DEF op
<1>5. /\ op = "load_gdt" <=> i = 1
      /\ op = "handler_fields" <=> i = 2
      /\ op = "handler_high" <=> i = 3
      /\ op = "idt_init" <=> i = 4
      /\ op = "enable_keyboard" <=> i = 5
      /\ op = "set_cursor" <=> i \in {6, ROWS + 7, ROWS + 8}
      /\ op = "write" <=> i \in 7 .. ROWS + 6 \/ i = ROWS + 9
      /\ op = "call_module" <=> i = ROWS + 10
      /\ op \notin {"blank_cells", "loop"}
  BY <1>1, <1>2, <1>3, <1>4
<1> QED
  BY <1>1, <1>5 DEF op

LEMMA OpsOfTutorial7 ==
  /\ Len(Tutorial7) = 8
  /\ \A i \in 1 .. 8 :
       /\ Tutorial7[i].op = "idt_init" <=> i = 1
       /\ Tutorial7[i].op = "set_cursor" <=> i \in {2, 4}
       /\ Tutorial7[i].op = "blank_cells" <=> i = 3
       /\ Tutorial7[i].op = "enable_keyboard" <=> i = 5
       /\ Tutorial7[i].op = "handler_fields" <=> i = 6
       /\ Tutorial7[i].op = "handler_high" <=> i = 7
       /\ Tutorial7[i].op = "loop" <=> i = 8
       /\ Tutorial7[i].op \notin {"load_gdt", "write", "call_module"}
  /\ Tutorial7[2] = SetCursor(0) /\ Tutorial7[4] = SetCursor(0)
<1>1. /\ Len(Tutorial7) = 8
      /\ Tutorial7[1] = Op("idt_init") /\ Tutorial7[2] = SetCursor(0)
      /\ Tutorial7[3] = Op("blank_cells") /\ Tutorial7[4] = SetCursor(0)
      /\ Tutorial7[5] = Op("enable_keyboard") /\ Tutorial7[6] = Op("handler_fields")
      /\ Tutorial7[7] = Op("handler_high") /\ Tutorial7[8] = Op("loop")
  BY DEF Tutorial7
<1> QED
  BY <1>1 DEF Op, SetCursor

LEMMA StatementsOf8 ==
  ASSUME version = 8, pc \in 1 .. Len(Boot)
  PROVE  /\ Len(Boot) = ROWS + 10 /\ pc \in 1 .. ROWS + 10
         /\ Boot[pc].op = "load_gdt" <=> pc = 1
         /\ Boot[pc].op = "handler_fields" <=> pc = 2
         /\ Boot[pc].op = "handler_high" <=> pc = 3
         /\ Boot[pc].op = "idt_init" <=> pc = 4
         /\ Boot[pc].op = "enable_keyboard" <=> pc = 5
         /\ Boot[pc].op = "set_cursor" <=> pc \in {6, ROWS + 7, ROWS + 8}
         /\ Boot[pc].op = "write" <=> pc \in 7 .. ROWS + 6 \/ pc = ROWS + 9
         /\ Boot[pc].op = "call_module" <=> pc = ROWS + 10
         /\ Boot[pc].op \notin {"blank_cells", "loop"}
<1>1. Boot = Tutorial8
  BY DEF Boot
<1> QED
  BY <1>1, BootOfTutorial8, OpsOfTutorial8

LEMMA StatementsOf7 ==
  ASSUME version = 7, pc \in 1 .. Len(Boot)
  PROVE  /\ Len(Boot) = 8 /\ pc \in 1 .. 8
         /\ Boot[pc].op = "idt_init" <=> pc = 1
         /\ Boot[pc].op = "set_cursor" <=> pc \in {2, 4}
         /\ Boot[pc].op = "blank_cells" <=> pc = 3
         /\ Boot[pc].op = "enable_keyboard" <=> pc = 5
         /\ Boot[pc].op = "handler_fields" <=> pc = 6
         /\ Boot[pc].op = "handler_high" <=> pc = 7
         /\ Boot[pc].op = "loop" <=> pc = 8
         /\ Boot[pc].op \notin {"load_gdt", "write", "call_module"}
<1>1. Boot = Tutorial7
  BY DEF Boot
<1> QED
  BY <1>1, OpsOfTutorial7

-----------------------------------------------------------------------------
(* Where the two contexts can be, and what kmain has done by then.         *)

Places(c) ==
  {"rest", "character", "scroll", "port"}
    \cup IF c = "main" THEN {"idle"} ELSE {"entered", "return"}

PlaceInv ==
  /\ version \in {7, 8}
  /\ machine \in {"running", "reset", "corrupted"}
  /\ pc \in 1 .. Len(Boot)
  /\ DOMAIN frame = Contexts
  /\ \A c \in Contexts : /\ frame[c].label \in Places(c)
                         /\ frame[c].label = "rest" => frame[c] = AtRest
  /\ frame["main"].label \in {"character", "scroll", "port"}
       => Boot[pc].op \in {"set_cursor", "write"}
  /\ frame["main"].label = "idle" => Boot[pc].op \in {"call_module", "loop"}

(* Tutorial 8 lets interrupts through when everything is there; tutorial 7 *)
(* lets the keyboard through before.                                       *)
InstalledInv ==
  /\ version = 8 =>
       /\ gdt <=> pc > 1
       /\ enabled <=> pc > 4
       /\ idt = IF pc <= 2 THEN "absent" ELSE IF pc = 3 THEN "partial" ELSE "present"
  /\ version = 7 =>
       /\ gdt
       /\ enabled <=> pc > 1
       /\ pc \in 2 .. 5 => ~unmasked
       /\ idt = IF pc <= 6 THEN "absent" ELSE IF pc = 7 THEN "partial" ELSE "present"
  /\ Handling => idt = "present"

BootInv == PlaceInv /\ InstalledInv /\ ResetOnlyBeforeHandler

LEMMA AfterPlace ==
  ASSUME NEW text, NEW address
  PROVE  After(text, address).label \in {"character", "scroll", "port"}
BY DEF After, Frame, SettingCursor

LEMMA InitBoot == KernelInit => BootInv
<1> SUFFICES ASSUME KernelInit PROVE BootInv
  OBVIOUS
<1>1. pc = 1 /\ version \in {7, 8} /\ machine = "running" /\ frame = [c \in Contexts |-> AtRest]
  BY DEF KernelInit
<1>2. 1 \in 1 .. Len(Boot)
  <2>1. ROWS \in Nat
    BY ScreenAssumption
  <2>2. CASE version = 8
    BY <2>1, <2>2, BootOfTutorial8 DEF Boot
  <2>3. CASE version = 7
    <3>1. Boot = Tutorial7 /\ Len(Tutorial7) = 8
      BY <2>3, OpsOfTutorial7 DEF Boot
    <3> QED
      BY <3>1
  <2> QED
    BY <1>1, <2>2, <2>3
<1>3. AtRest.label = "rest"
  BY DEF AtRest, Frame
<1>4. frame["main"] = AtRest /\ frame["handler"] = AtRest /\ DOMAIN frame = Contexts
  BY <1>1 DEF Contexts
<1>5. PlaceInv
  BY <1>1, <1>2, <1>3, <1>4 DEF PlaceInv, Contexts, Places
<1>6. InstalledInv
  <2>1. (gdt <=> version = 7) /\ ~enabled /\ idt = "absent" /\ ~Handling
    BY <1>4 DEF KernelInit, Handling
  <2> QED
    BY <1>1, <2>1 DEF InstalledInv
<1>7. ResetOnlyBeforeHandler
  BY DEF KernelInit, ResetOnlyBeforeHandler
<1> QED
  BY <1>5, <1>6, <1>7 DEF BootInv

(* The statements of kmain that call nothing.                              *)
LEMMA StatementKeepsBoot ==
  ASSUME BootInv, LoadGdt \/ HandlerFields \/ HandlerHigh \/ IdtInit \/ EnableKeyboard
                    \/ BlankCells
  PROVE  BootInv'
<1>1. /\ pc' = pc + 1 /\ UNCHANGED <<version, machine, frame>>
      /\ machine = "running" /\ ~Handling /\ frame["main"] = AtRest
  BY DEF LoadGdt, HandlerFields, HandlerHigh, IdtInit, EnableKeyboard, BlankCells, At, Runs,
         NextStatement
<1>2. Boot' = Boot
  BY <1>1 DEF Boot
<1>3. version \in {7, 8} /\ pc \in 1 .. Len(Boot)
  BY DEF BootInv, PlaceInv
<1>4. ROWS \in Nat /\ ROWS >= 1
  BY ScreenAssumption
<1>5. AtRest.label = "rest"
  BY DEF AtRest, Frame
<1>6. Boot[pc].op \in {"load_gdt", "handler_fields", "handler_high", "idt_init",
                       "enable_keyboard", "blank_cells"}
  BY DEF LoadGdt, HandlerFields, HandlerHigh, IdtInit, EnableKeyboard, BlankCells, At
<1>7. pc' \in 1 .. Len(Boot)'
  <2>1. CASE version = 8
    <3>1. pc \in 1 .. 5 /\ Len(Boot) = ROWS + 10
      BY <1>3, <1>4, <1>6, <2>1, StatementsOf8
    <3> QED
      BY <1>1, <1>2, <1>4, <3>1
  <2>2. CASE version = 7
    <3>1. pc \in 1 .. 7 /\ Len(Boot) = 8
      BY <1>3, <1>6, <2>2, StatementsOf7
    <3> QED
      BY <1>1, <1>2, <3>1
  <2> QED
    BY <1>3, <2>1, <2>2
<1>8. PlaceInv'
  BY <1>1, <1>2, <1>5, <1>7 DEF BootInv, PlaceInv
<1>9. InstalledInv'
  <2>1. ~Handling'
    BY <1>1 DEF Handling
  <2>2. CASE version = 8
    <3>1. /\ pc = 1 => LoadGdt
          /\ pc = 2 => HandlerFields
          /\ pc = 3 => HandlerHigh
          /\ pc = 4 => IdtInit
          /\ pc = 5 => EnableKeyboard
          /\ pc \in 1 .. 5
      BY <1>3, <1>4, <1>6, <2>2, StatementsOf8
         DEF LoadGdt, HandlerFields, HandlerHigh, IdtInit, EnableKeyboard, BlankCells, At
    <3>2. /\ pc = 1 => gdt' /\ UNCHANGED <<idt, enabled>>
          /\ pc = 2 => idt' = "partial" /\ UNCHANGED <<gdt, enabled>>
          /\ pc = 3 => idt' = "present" /\ UNCHANGED <<gdt, enabled>>
          /\ pc = 4 => enabled' /\ UNCHANGED <<gdt, idt>>
          /\ pc = 5 => UNCHANGED <<gdt, idt, enabled>>
      BY <3>1 DEF LoadGdt, HandlerFields, HandlerHigh, IdtInit, EnableKeyboard
    <3> QED
      BY <1>1, <1>3, <2>1, <2>2, <3>1, <3>2 DEF BootInv, InstalledInv
  <2>3. CASE version = 7
    <3>1. /\ pc = 1 => IdtInit
          /\ pc = 3 => BlankCells
          /\ pc = 5 => EnableKeyboard
          /\ pc = 6 => HandlerFields
          /\ pc = 7 => HandlerHigh
          /\ pc \in {1, 3, 5, 6, 7}
      BY <1>3, <1>6, <2>3, StatementsOf7
         DEF LoadGdt, HandlerFields, HandlerHigh, IdtInit, EnableKeyboard, BlankCells, At
    <3>2. /\ pc = 1 => enabled' /\ ~unmasked' /\ UNCHANGED <<gdt, idt>>
          /\ pc = 3 => UNCHANGED <<gdt, idt, enabled, unmasked>>
          /\ pc = 5 => UNCHANGED <<gdt, idt, enabled>>
          /\ pc = 6 => idt' = "partial" /\ UNCHANGED <<gdt, enabled, unmasked>>
          /\ pc = 7 => idt' = "present" /\ UNCHANGED <<gdt, enabled, unmasked>>
      BY <3>1 DEF HandlerFields, HandlerHigh, IdtInit, EnableKeyboard, BlankCells
    <3>3. /\ gdt /\ (enabled <=> pc > 1) /\ (pc \in 2 .. 5 => ~unmasked)
          /\ idt = IF pc <= 6 THEN "absent" ELSE IF pc = 7 THEN "partial" ELSE "present"
      BY <2>3 DEF BootInv, InstalledInv
    <3>4. /\ gdt' /\ (enabled' <=> pc' > 1) /\ (pc' \in 2 .. 5 => ~unmasked')
          /\ idt' = IF pc' <= 6 THEN "absent" ELSE IF pc' = 7 THEN "partial" ELSE "present"
      <4>1. CASE pc = 1
        BY <1>1, <3>2, <3>3, <4>1
      <4>2. CASE pc = 3
        BY <1>1, <3>2, <3>3, <4>2
      <4>3. CASE pc = 5
        BY <1>1, <3>2, <3>3, <4>3
      <4>4. CASE pc = 6
        BY <1>1, <3>2, <3>3, <4>4
      <4>5. CASE pc = 7
        BY <1>1, <3>2, <3>3, <4>5
      <4> QED
        BY <3>1, <4>1, <4>2, <4>3, <4>4, <4>5
    <3> QED
      BY <1>1, <2>1, <2>3, <3>4 DEF InstalledInv
  <2> QED
    BY <1>3, <2>2, <2>3
<1>10. ResetOnlyBeforeHandler'
  BY <1>1 DEF ResetOnlyBeforeHandler
<1> QED
  BY <1>8, <1>9, <1>10 DEF BootInv

(* A frame that is entered while nothing else of the boot changes.         *)
LEMMA EnterKeepsBoot ==
  ASSUME BootInv, machine = "running", UNCHANGED <<version, machine, boot>>,
         NEW c \in Contexts, NEW f, Enter(c, f),
         f.label \in Places(c), f.label = "rest" => f = AtRest,
         c = "main" /\ f.label \in {"character", "scroll", "port"}
           => Boot[pc].op \in {"set_cursor", "write"},
         c = "main" /\ f.label = "idle" => Boot[pc].op \in {"call_module", "loop"},
         c = "handler" /\ f # AtRest => idt = "present"
  PROVE  BootInv'
<1>1. /\ DOMAIN frame' = Contexts /\ frame'[c] = f
      /\ \A d \in Contexts \ {c} : frame'[d] = frame[d]
  BY DEF BootInv, PlaceInv, Enter
<1>2. UNCHANGED <<Boot, pc, gdt, idt, enabled, unmasked, version, machine>>
  BY DEF boot, Boot
<1>3. PlaceInv'
  BY <1>1, <1>2 DEF BootInv, PlaceInv, Contexts
<1>4. Handling' => idt = "present"
  BY <1>1 DEF Handling, BootInv, InstalledInv, Contexts
<1>5. InstalledInv'
  BY <1>2, <1>4 DEF BootInv, InstalledInv
<1>6. ResetOnlyBeforeHandler'
  BY <1>2 DEF ResetOnlyBeforeHandler
<1> QED
  BY <1>3, <1>5, <1>6 DEF BootInv

LEMMA NextKeepsBoot ==
  ASSUME BootInv, [KernelNext]_kernelVars
  PROVE  BootInv'
<1>1. CASE LoadGdt \/ HandlerFields \/ HandlerHigh \/ IdtInit \/ EnableKeyboard \/ BlankCells
  BY <1>1, StatementKeepsBoot
<1>2. CASE CallSetCursor
  <2> DEFINE f == SettingCursor(Boot[pc].arg, 0)
  <2>1. /\ machine = "running" /\ UNCHANGED <<version, machine, boot>>
        /\ Enter("main", f) /\ Boot[pc].op = "set_cursor"
    BY <1>2 DEF CallSetCursor, At, Runs
  <2>2. f.label = "port" /\ "main" \in Contexts
    BY DEF SettingCursor, Frame, Contexts
  <2> HIDE DEF f
  <2> QED
    BY <2>1, <2>2, EnterKeepsBoot DEF Places
<1>3. CASE CallWrite
  <2> DEFINE f == Started(Boot[pc].arg)
  <2>1. /\ machine = "running" /\ UNCHANGED <<version, machine, boot>>
        /\ Enter("main", f) /\ Boot[pc].op = "write"
    BY <1>3 DEF CallWrite, At, Runs
  <2>2. f.label = "character" /\ "main" \in Contexts
    BY DEF Started, Frame, Contexts
  <2> HIDE DEF f
  <2> QED
    BY <2>1, <2>2, EnterKeepsBoot DEF Places
<1>4. CASE Idle
  <2> DEFINE f == Frame("idle", <<>>, 0, 0)
  <2>1. /\ machine = "running" /\ UNCHANGED <<version, machine, boot>>
        /\ Enter("main", f) /\ Boot[pc].op \in {"call_module", "loop"}
    BY <1>4 DEF Idle, At, Runs
  <2>2. f.label = "idle" /\ "main" \in Contexts
    BY DEF Frame, Contexts
  <2> HIDE DEF f
  <2> QED
    BY <2>1, <2>2, EnterKeepsBoot DEF Places
<1>5. ASSUME NEW c \in Contexts, NEW f, Enter(c, f), Runs(c),
             frame[c].label \in {"character", "scroll", "port"},
             f.label \in {"character", "scroll", "port"},
             UNCHANGED <<version, machine, boot>>
      PROVE  BootInv'
  <2>1. /\ machine = "running"
        /\ c = "main" => Boot[pc].op \in {"set_cursor", "write"}
        /\ c = "handler" => idt = "present"
    BY <1>5 DEF Runs, BootInv, PlaceInv, InstalledInv
  <2> QED
    BY <1>5, <2>1, EnterKeepsBoot DEF Places
<1>6. ASSUME NEW c \in Contexts, WriteGlyph(c) PROVE BootInv'
  <2> DEFINE f == After(Tail(frame[c].text), frame[c].address + 1)
  <2>1. /\ Enter(c, f) /\ Runs(c) /\ frame[c].label = "character"
        /\ UNCHANGED <<version, machine, boot>>
    BY <1>6 DEF WriteGlyph
  <2>2. f.label \in {"character", "scroll", "port"}
    BY AfterPlace
  <2> HIDE DEF f
  <2> QED
    BY <1>5, <2>1, <2>2
<1>7. ASSUME NEW c \in Contexts, MoveOver(c) PROVE BootInv'
  <2>1. PICK a : /\ Enter(c, After(Tail(frame[c].text), a))
                 /\ Runs(c) /\ frame[c].label = "character"
                 /\ UNCHANGED <<version, machine, boot>>
    BY <1>7 DEF MoveOver
  <2> DEFINE f == After(Tail(frame[c].text), a)
  <2>2. f.label \in {"character", "scroll", "port"} /\ Enter(c, f)
    BY <2>1, AfterPlace
  <2> HIDE DEF f
  <2> QED
    BY <1>5, <2>1, <2>2
<1>8. ASSUME NEW c \in Contexts, WriteBlank(c) PROVE BootInv'
  <2> DEFINE old == frame[c]
             new == After(Tail(old.text), old.address + 1)
             more == [old EXCEPT !.address = old.address + 1, !.count = old.count + 1]
             f == IF BlanksDone(old) THEN new ELSE more
  <2>1. /\ Enter(c, f) /\ Runs(c) /\ old.label = "character"
        /\ UNCHANGED <<version, machine, boot>>
    BY <1>8 DEF WriteBlank
  <2>2. new.label \in {"character", "scroll", "port"}
    BY AfterPlace
  <2>4. more.label = old.label
    OBVIOUS
  <2>5. f.label \in {"character", "scroll", "port"}
    BY <2>1, <2>2, <2>4
  <2> HIDE DEF f
  <2> QED
    BY <1>5, <2>1, <2>5
<1>9. ASSUME NEW c \in Contexts, ScrollCell(c) PROVE BootInv'
  <2> DEFINE old == frame[c]
             new == After(old.text, old.address - COLS)
             more == [old EXCEPT !.count = old.count + 1]
             f == IF old.count = CELLS - 1 THEN new ELSE more
  <2>1. /\ Enter(c, f) /\ Runs(c) /\ old.label = "scroll"
        /\ UNCHANGED <<version, machine, boot>>
    BY <1>9 DEF ScrollCell
  <2>2. new.label \in {"character", "scroll", "port"}
    BY AfterPlace
  <2>4. more.label = old.label
    OBVIOUS
  <2>5. f.label \in {"character", "scroll", "port"}
    BY <2>1, <2>2, <2>4
  <2> HIDE DEF f
  <2> QED
    BY <1>5, <2>1, <2>5
<1>10. ASSUME NEW c \in Contexts, OutPort(c) PROVE BootInv'
  <2> DEFINE old == frame[c]
             f == [old EXCEPT !.count = old.count + 1]
  <2>1. /\ Enter(c, f) /\ Runs(c) /\ old.label = "port"
        /\ UNCHANGED <<version, machine, boot>>
    BY <1>10 DEF OutPort
  <2>2. f.label = old.label
    OBVIOUS
  <2> HIDE DEF f
  <2> QED
    BY <1>5, <2>1, <2>2
<1>11. ASSUME StorePosition("handler") PROVE BootInv'
  <2> DEFINE f == Frame("return", <<>>, 0, 0)
  <2>1. /\ Enter("handler", f) /\ Runs("handler")
        /\ UNCHANGED <<version, machine, boot>>
    BY <1>11 DEF StorePosition, boot
  <2>2. f.label = "return"
    BY DEF Frame
  <2>3. /\ machine = "running" /\ idt = "present" /\ "handler" \in Contexts
        /\ "handler" # "main"
    BY <2>1 DEF Runs, BootInv, InstalledInv, Contexts
  <2> HIDE DEF f
  <2> QED
    BY <2>1, <2>2, <2>3, EnterKeepsBoot DEF Places
<1>12. ASSUME StorePosition("main") PROVE BootInv'
  <2>1. /\ frame' = [frame EXCEPT !["main"] = AtRest] /\ pc' = pc + 1
        /\ frame["main"].label = "port" /\ machine = "running" /\ ~Handling
        /\ UNCHANGED <<version, machine, gdt, idt, enabled, unmasked>>
    BY <1>12 DEF StorePosition, Runs, Enter
  <2>2. /\ DOMAIN frame' = Contexts /\ frame'["main"] = AtRest
        /\ frame'["handler"] = frame["handler"]
    BY <2>1 DEF BootInv, PlaceInv, Contexts
  <2>3. Boot' = Boot
    BY <2>1 DEF Boot
  <2>4. Boot[pc].op \in {"set_cursor", "write"} /\ version \in {7, 8} /\ pc \in 1 .. Len(Boot)
    BY <2>1 DEF BootInv, PlaceInv
  <2>5. ROWS \in Nat /\ ROWS >= 1
    BY ScreenAssumption
  <2>6. /\ version = 8 => pc \in 6 .. ROWS + 9 /\ Len(Boot) = ROWS + 10
        /\ version = 7 => pc \in {2, 4} /\ Len(Boot) = 8
    BY <2>4, <2>5, StatementsOf7, StatementsOf8
  <2>7. pc' \in 1 .. Len(Boot)'
    <3>1. CASE version = 8
      BY <2>1, <2>3, <2>5, <2>6, <3>1
    <3>2. CASE version = 7
      <4>1. (pc = 2 \/ pc = 4) /\ Len(Boot) = 8
        BY <2>6, <3>2
      <4> QED
        BY <2>1, <2>3, <4>1
    <3> QED
      BY <2>4, <3>1, <3>2
  <2>8. AtRest.label = "rest"
    BY DEF AtRest, Frame
  <2>9. PlaceInv'
    BY <2>1, <2>2, <2>3, <2>7, <2>8 DEF BootInv, PlaceInv, Contexts, Places
  <2>10. ~Handling'
    BY <2>1, <2>2 DEF Handling
  <2>11. InstalledInv'
    BY <2>1, <2>4, <2>6, <2>10 DEF BootInv, InstalledInv
  <2>12. ResetOnlyBeforeHandler'
    BY <2>1 DEF ResetOnlyBeforeHandler
  <2> QED
    BY <2>9, <2>11, <2>12 DEF BootInv
<1>13. CASE Press
  BY <1>13 DEF Press, boot, BootInv, PlaceInv, InstalledInv, ResetOnlyBeforeHandler, Boot,
               Handling
<1>14. CASE Interrupt
  <2> DEFINE f == Frame("entered", <<>>, 0, 0)
  <2>1. /\ Enter("handler", f) /\ machine = "running" /\ idt = "present"
        /\ UNCHANGED <<version, machine, boot>>
    BY <1>14 DEF Interrupt, Pending
  <2>2. f.label = "entered" /\ "handler" \in Contexts /\ "handler" # "main"
    BY DEF Frame, Contexts
  <2> HIDE DEF f
  <2> QED
    BY <2>1, <2>2, EnterKeepsBoot DEF Places
<1>15. CASE InterruptUnhandled \/ InterruptAstray \/ ResumeCorrupted
  <2>1. UNCHANGED <<version, boot, frame>> /\ machine = "running"
    BY <1>15 DEF InterruptUnhandled, InterruptAstray, ResumeCorrupted, Pending, Runs
  <2>2. UNCHANGED <<Boot, pc, gdt, idt, enabled, unmasked, Handling, Booted>>
    BY <2>1 DEF boot, Boot, Handling, Booted
  <2>3. PlaceInv' /\ InstalledInv'
    BY <1>15, <2>1, <2>2 DEF InterruptUnhandled, InterruptAstray, ResumeCorrupted, BootInv,
                             PlaceInv, InstalledInv
  <2>4. version \in {7, 8} /\ pc \in 1 .. Len(Boot)
    BY DEF BootInv, PlaceInv
  <2>5. Booted => Boot[pc].op \in {"call_module", "loop"}
    BY DEF Booted, BootInv, PlaceInv
  <2>6. ROWS \in Nat /\ ROWS >= 1
    BY ScreenAssumption
  <2>7. CASE version = 8
    <3>1. ResumeCorrupted \/ InterruptAstray => machine' # "reset"
      BY DEF ResumeCorrupted, InterruptAstray
    <3>2. ~InterruptUnhandled /\ ~InterruptAstray
      BY <2>4, <2>7 DEF InterruptUnhandled, InterruptAstray, Pending, BootInv, InstalledInv
    <3>3. ResumeCorrupted => ~Booted /\ idt = "present"
      BY DEF ResumeCorrupted, Runs, BootInv, InstalledInv
    <3> QED
      BY <1>15, <2>1, <2>2, <2>3, <2>7, <3>1, <3>2, <3>3 DEF BootInv, ResetOnlyBeforeHandler
  <2>8. CASE version = 7
    <3>1. ~ResumeCorrupted
      <4>1. SUFFICES ASSUME ResumeCorrupted PROVE FALSE
        OBVIOUS
      <4>2. Handling /\ Boot[pc].op # "loop"
        BY <4>1 DEF ResumeCorrupted, Runs
      <4> QED
        BY <2>4, <2>8, <4>2, StatementsOf7 DEF BootInv, InstalledInv
    <3>2. idt # "present"
      BY <1>15, <2>8, <3>1 DEF InterruptUnhandled, InterruptAstray, Pending, BootInv,
                               InstalledInv
    <3>3. ~Booted
      BY <2>4, <2>5, <2>8, <3>2, StatementsOf7 DEF BootInv, InstalledInv
    <3> QED
      BY <2>1, <2>2, <2>3, <2>8, <3>2, <3>3 DEF BootInv, ResetOnlyBeforeHandler
  <2> QED
    BY <2>4, <2>7, <2>8
<1>16. CASE ReadKey
  <2> DEFINE f == IF Head(keyboard) = "release" THEN Frame("return", <<>>, 0, 0)
                                                ELSE Started(<<Head(keyboard)>>)
  <2>1. /\ Enter("handler", f) /\ Runs("handler")
        /\ UNCHANGED <<version, machine, boot>>
    BY <1>16 DEF ReadKey
  <2>2. f.label \in {"return", "character"}
    BY DEF Frame, Started
  <2>3. /\ machine = "running" /\ idt = "present" /\ "handler" \in Contexts
        /\ "handler" # "main"
    BY <2>1 DEF Runs, BootInv, InstalledInv, Contexts
  <2> HIDE DEF f
  <2> QED
    BY <2>1, <2>2, <2>3, EnterKeepsBoot DEF Places
<1>17. CASE Resume
  <2>1. /\ Enter("handler", AtRest) /\ Runs("handler")
        /\ UNCHANGED <<version, machine, boot>>
    BY <1>17 DEF Resume
  <2>2. AtRest.label = "rest"
    BY DEF AtRest, Frame
  <2>3. machine = "running" /\ "handler" \in Contexts /\ "handler" # "main"
    BY <2>1 DEF Runs, Contexts
  <2> QED
    BY <2>1, <2>2, <2>3, EnterKeepsBoot DEF Places
<1>18. CASE UNCHANGED kernelVars
  BY <1>18 DEF kernelVars, boot, BootInv, PlaceInv, InstalledInv, ResetOnlyBeforeHandler, Boot,
               Handling, Booted
<1>19. ASSUME NEW c \in Contexts, StorePosition(c) PROVE BootInv'
  BY <1>11, <1>12, <1>19 DEF Contexts
<1> QED
  BY <1>1, <1>2, <1>3, <1>4, <1>6, <1>7, <1>8, <1>9, <1>10, <1>13, <1>14, <1>15, <1>16, <1>17,
     <1>18, <1>19 DEF KernelNext, Statement, CallStep, Take, Return

LEMMA BootInvariance == KernelSpec => []BootInv
BY InitBoot, NextKeepsBoot, PTL DEF KernelSpec

(* However a key interrupts the boot: tutorial 8 is never reset, and is    *)
(* harmed only behind its handler; tutorial 7 can be reset, or sent        *)
(* astray, until its handler is whole.                                     *)
THEOREM OnlyResetBeforeHandler == KernelSpec => []ResetOnlyBeforeHandler
<1>1. BootInv => ResetOnlyBeforeHandler
  BY DEF BootInv
<1> QED
  BY <1>1, BootInvariance, PTL

-----------------------------------------------------------------------------
(* What the frames hold, and how far the cursor is.                        *)

LEMMA ScreenFacts ==
  /\ COLS \in Nat \ {0} /\ CELLS \in Nat /\ COLS <= CELLS /\ CELLS % COLS = 0
  /\ ROWS \in Nat \ {0} /\ CELLS = COLS * ROWS
  /\ TAB \in 1 .. COLS /\ TAB_STOP \in 1 .. COLS
  /\ REGISTER \in Nat /\ REGISTER >= 2 /\ CELLS < REGISTER * REGISTER
  /\ MaxKeys \in Nat /\ MaxBootKeys \in 0 .. MaxKeys
<1>1. /\ COLS \in Nat /\ ROWS \in Nat /\ COLS >= 1 /\ ROWS >= 1
      /\ TAB \in 1 .. COLS /\ TAB_STOP \in 1 .. COLS /\ REGISTER \in Nat
      /\ ROWS * COLS < REGISTER * REGISTER
      /\ MaxKeys \in Nat /\ MaxBootKeys \in 0 .. MaxKeys
  BY ScreenAssumption
<1>2. ROWS * COLS \in Nat /\ ROWS * COLS = COLS * ROWS /\ COLS <= ROWS * COLS
  BY <1>1
<1>3. REGISTER >= 2
  <2>1. SUFFICES ASSUME REGISTER = 0 \/ REGISTER = 1 PROVE FALSE
    BY <1>1
  <2>2. REGISTER * REGISTER <= 1
    BY <2>1
  <2> QED
    BY <1>1, <1>2, <2>2
<1>4. (COLS * ROWS) % COLS = 0
  <2>1. COLS * ROWS \in Nat /\ COLS * ROWS = COLS * ROWS + 0 /\ 0 \in 0 .. COLS - 1
    BY <1>1, <1>2
  <2> QED
    BY <1>1, <2>1, DivisionUnique
<1> QED
  BY <1>1, <1>2, <1>3, <1>4 DEF CELLS

Reach(n) == n * COLS

LEMMA ReachGrows ==
  ASSUME NEW n \in Nat
  PROVE  Reach(n) \in Nat /\ Reach(n + 1) = Reach(n) + COLS
BY ScreenFacts DEF Reach

LEMMA ReachBound ==
  ASSUME NEW n \in 0 .. MaxKeys
  PROVE  Reach(n) \in Nat /\ Reach(n) <= MaxKeys * COLS
BY ScreenFacts DEF Reach

Consumed == pressed - Len(keyboard)

(* A row is not left by a step that does not end it.                       *)
LEMMA RowEnd ==
  ASSUME NEW a \in Nat, a < CELLS, (a + 1) % COLS # 0
  PROVE  a + 1 < CELLS
BY ScreenFacts

Glyphs == {"k", "H", "w"}
Chars == Glyphs \cup {"newline", "tab"}

Labels == {"rest", "entered", "character", "scroll", "port", "return", "idle"}

Within(n, a) == IF version = 8 THEN a < CELLS ELSE a <= Reach(n)

Fine(n, f) ==
  /\ f \in [label : Labels, text : Seq(Chars), address : Nat, count : Nat]
  /\ f.label = "character" =>
       /\ f.text # <<>>
       /\ version = 7 => Len(f.text) = 1 /\ f.address + COLS <= Reach(n)
       /\ version = 8 => IF Head(f.text) = "tab"
                         THEN f.count < TAB /\ f.address < CELLS + f.count
                         ELSE f.address < CELLS
  /\ f.label = "scroll" => /\ version = 8
                           /\ f.address \in CELLS .. CELLS + COLS - 1
                           /\ f.count < CELLS
  /\ f.label = "port" => f.count <= 4 /\ Within(n, f.address)

KeysInv ==
  /\ keyboard \in Seq(Keys) /\ pressed \in 0 .. MaxKeys /\ Len(keyboard) <= pressed
  /\ frame["handler"].label = "entered" => keyboard # <<>>

DisplayInv ==
  /\ mem \in [Memory -> {"old", Blank} \cup Glyphs]
  /\ crtc \in [index : {14, 15}, data : [{14, 15} -> 0 .. REGISTER - 1]]
  /\ cursor_position \in Nat /\ Within(Consumed, cursor_position)

FramesInv == \A c \in Contexts : Fine(Consumed, frame[c])

RangeInv == KeysInv /\ DisplayInv /\ FramesInv

LEMMA ConsumedRange ==
  ASSUME KeysInv
  PROVE  Consumed \in 0 .. MaxKeys /\ Len(keyboard) \in Nat
<1>1. Len(keyboard) \in Nat /\ Len(keyboard) <= pressed /\ pressed \in Nat
      /\ pressed <= MaxKeys /\ MaxKeys \in Nat
  BY ScreenFacts DEF KeysInv
<1> QED
  BY <1>1 DEF Consumed

LEMMA AfterIsFine ==
  ASSUME version \in {7, 8}, NEW n \in Nat, NEW text \in Seq(Chars), NEW address \in Nat,
         version = 7 => text = <<>> /\ address <= Reach(n),
         version = 8 => address < CELLS + COLS
  PROVE  Fine(n, After(text, address))
<1> DEFINE scroll == Frame("scroll", text, address, 0)
           port == SettingCursor(address, 0)
           character == Frame("character", text, address, 0)
<1>1. /\ COLS \in Nat \ {0} /\ CELLS \in Nat /\ TAB \in 1 .. COLS /\ COLS <= CELLS
  BY ScreenFacts
<1>2. <<>> \in Seq(Chars)
  OBVIOUS
<1>3. CASE version = 8 /\ address >= CELLS
  <2>1. /\ scroll \in [label : Labels, text : Seq(Chars), address : Nat, count : Nat]
        /\ scroll.label = "scroll" /\ scroll.address = address /\ scroll.count = 0
    BY DEF Frame, Labels
  <2>2. After(text, address) = scroll
    BY <1>3 DEF After
  <2> HIDE DEF scroll
  <2> QED
    BY <1>1, <1>3, <2>1, <2>2 DEF Fine
<1>4. CASE ~(version = 8 /\ address >= CELLS) /\ text = <<>>
  <2>1. /\ port \in [label : Labels, text : Seq(Chars), address : Nat, count : Nat]
        /\ port.label = "port" /\ port.address = address /\ port.count = 0
    BY <1>2 DEF SettingCursor, Frame, Labels
  <2>2. After(text, address) = port
    BY <1>4 DEF After
  <2>3. Within(n, address)
    BY <1>1, <1>4 DEF Within
  <2> HIDE DEF port
  <2> QED
    BY <2>1, <2>2, <2>3 DEF Fine
<1>5. CASE ~(version = 8 /\ address >= CELLS) /\ text # <<>>
  <2>1. /\ character \in [label : Labels, text : Seq(Chars), address : Nat, count : Nat]
        /\ character.label = "character" /\ character.text = text
        /\ character.address = address /\ character.count = 0
    BY DEF Frame, Labels
  <2>2. After(text, address) = character
    BY <1>5 DEF After
  <2>3. version = 8 /\ address < CELLS
    BY <1>1, <1>5
  <2> HIDE DEF character
  <2> QED
    BY <1>1, <1>5, <2>1, <2>2, <2>3 DEF Fine
<1> QED
  BY <1>3, <1>4, <1>5

(* Reading a key, or pressing one, does not take anything away.            *)
LEMMA FineGrows ==
  ASSUME NEW n \in Nat, NEW f, Fine(n, f)
  PROVE  Fine(n + 1, f)
<1>1. /\ Reach(n) \in Nat /\ Reach(n + 1) = Reach(n) + COLS /\ COLS \in Nat
  BY ReachGrows, ScreenFacts
<1>2. f.address \in Nat
  BY DEF Fine
<1>3. f.address <= Reach(n) => f.address <= Reach(n + 1)
  BY <1>1, <1>2
<1>4. f.address + COLS <= Reach(n) => f.address + COLS <= Reach(n + 1)
  BY <1>1, <1>2
<1> QED
  BY <1>3, <1>4 DEF Fine, Within

(* A context goes to a frame that is fine.                                 *)
LEMMA EnterKeepsFrames ==
  ASSUME PlaceInv, RangeInv, NEW c \in Contexts, NEW f, Enter(c, f), Fine(Consumed, f),
         f.label # "entered", UNCHANGED <<version, keys>>
  PROVE  FramesInv' /\ KeysInv'
<1>1. /\ frame'[c] = f /\ \A d \in Contexts \ {c} : frame'[d] = frame[d]
  BY DEF Enter, PlaceInv
<1>2. UNCHANGED <<version, keyboard, pressed, Consumed>>
  BY DEF keys, Consumed
<1>3. \A d \in Contexts : Fine(Consumed, frame'[d])
  BY <1>1 DEF RangeInv, FramesInv
<1>4. ASSUME NEW n, NEW g PROVE Fine(n, g)' <=> Fine(n, g)
  BY <1>2 DEF Fine, Within
<1>5. FramesInv'
  <2> SUFFICES ASSUME NEW d \in Contexts PROVE Fine(Consumed, frame[d])'
    BY DEF FramesInv
  <2>1. Fine(Consumed, frame'[d])
    BY <1>3
  <2> QED
    BY <1>2, <2>1 DEF Fine, Within
<1>6. frame'["handler"].label = "entered" => frame["handler"].label = "entered"
  BY <1>1 DEF Contexts
<1>7. KeysInv'
  BY <1>2, <1>6 DEF RangeInv, KeysInv
<1> QED
  BY <1>5, <1>7

LEMMA TailOfOne ==
  ASSUME NEW S, NEW s \in Seq(S), Len(s) = 1
  PROVE  Tail(s) = <<>>
<1>1. Tail(s) \in Seq(S) /\ Len(Tail(s)) = 0
  BY EmptySeq, HeadTailProperties
<1> QED
  BY <1>1, EmptySeq

LEMMA MemoryWritten ==
  ASSUME DisplayInv, NEW a, NEW x \in {Blank} \cup Glyphs, WriteChar(a, x)
  PROVE  mem' \in [Memory -> {"old", Blank} \cup Glyphs]
BY DEF DisplayInv, WriteChar

LEMMA DisplayKept ==
  ASSUME DisplayInv, UNCHANGED <<version, cursor_position, crtc, keys>>,
         mem' \in [Memory -> {"old", Blank} \cup Glyphs]
  PROVE  DisplayInv'
BY DEF DisplayInv, Within, Consumed, keys

(* The next cell, when the text goes on with a blank.                      *)
LEMMA NextBlankIsFine ==
  ASSUME NEW n \in Nat, NEW f, Fine(n, f), version = 8, f.label = "character",
         ~BlanksDone(f)
  PROVE  Fine(n, [f EXCEPT !.address = f.address + 1, !.count = f.count + 1])
<1> DEFINE g == [f EXCEPT !.address = f.address + 1, !.count = f.count + 1]
<1>1. /\ f \in [label : Labels, text : Seq(Chars), address : Nat, count : Nat]
      /\ f.text # <<>>
      /\ IF Head(f.text) = "tab" THEN f.count < TAB /\ f.address < CELLS + f.count
                                 ELSE f.address < CELLS
  BY DEF Fine
<1>2. /\ g \in [label : Labels, text : Seq(Chars), address : Nat, count : Nat]
      /\ g.label = "character" /\ g.text = f.text
      /\ g.address = f.address + 1 /\ g.count = f.count + 1
  <2> DEFINE h == [f EXCEPT !.address = f.address + 1]
  <2>1. /\ h \in [label : Labels, text : Seq(Chars), address : Nat, count : Nat]
        /\ h.label = f.label /\ h.text = f.text /\ h.address = f.address + 1
    BY <1>1
  <2>2. g = [h EXCEPT !.count = f.count + 1]
    OBVIOUS
  <2> HIDE DEF g, h
  <2> QED
    BY <1>1, <2>1, <2>2
<1>3. f.address \in Nat /\ f.count \in Nat /\ TAB \in Nat /\ CELLS \in Nat
  BY <1>1, ScreenFacts
<1>4. IF Head(g.text) = "tab" THEN g.count < TAB /\ g.address < CELLS + g.count
                              ELSE g.address < CELLS
  <2>1. CASE Head(f.text) = "tab"
    BY <1>1, <1>2, <1>3, <2>1 DEF BlanksDone
  <2>2. CASE Head(f.text) # "tab"
    BY <1>1, <1>2, <1>3, <2>2, RowEnd DEF BlanksDone
  <2> QED
    BY <2>1, <2>2
<1> HIDE DEF g
<1>5. Fine(n, g)
  BY <1>1, <1>2, <1>4 DEF Fine
<1> QED
  BY <1>5 DEF g

LEMMA GlyphKeepsRange ==
  ASSUME PlaceInv, RangeInv, NEW c \in Contexts, WriteGlyph(c)
  PROVE  RangeInv'
<1> DEFINE f == frame[c]
           g == After(Tail(f.text), f.address + 1)
<1>1. /\ f.label = "character" /\ Enter(c, g) /\ WriteChar(f.address, Head(f.text))
      /\ Head(f.text) \notin {"newline", "tab"}
      /\ UNCHANGED <<version, cursor_position, crtc, keys>>
  BY DEF WriteGlyph
<1>2. /\ f.text \in Seq(Chars) /\ f.text # <<>> /\ f.address \in Nat
      /\ version = 7 => Len(f.text) = 1 /\ f.address + COLS <= Reach(Consumed)
      /\ version = 8 => f.address < CELLS
  BY <1>1 DEF RangeInv, FramesInv, Fine
<1>3. Consumed \in Nat /\ Reach(Consumed) \in Nat /\ COLS \in Nat \ {0} /\ CELLS \in Nat
  BY ConsumedRange, ReachGrows, ScreenFacts DEF RangeInv
<1>4. /\ Tail(f.text) \in Seq(Chars) /\ Head(f.text) \in Chars
      /\ Len(f.text) = 1 => Tail(f.text) = <<>>
  BY <1>2, TailOfOne
<1> HIDE DEF f
<1>5. Fine(Consumed, g)
  <2>1. version = 7 => Tail(f.text) = <<>> /\ f.address + 1 <= Reach(Consumed)
    BY <1>2, <1>3, <1>4
  <2>2. version = 8 => f.address + 1 < CELLS + COLS
    BY <1>2, <1>3
  <2>3. version \in {7, 8} /\ f.address + 1 \in Nat
    BY <1>2 DEF PlaceInv
  <2> QED
    BY <1>3, <1>4, <2>1, <2>2, <2>3, AfterIsFine
<1>6. g.label # "entered"
  BY AfterPlace
<1> HIDE DEF g
<1>7. FramesInv' /\ KeysInv'
  BY <1>1, <1>5, <1>6, EnterKeepsFrames
<1>8. Head(f.text) \in {Blank} \cup Glyphs
  BY <1>1, <1>4 DEF Chars
<1>9. DisplayInv'
  BY <1>1, <1>8, MemoryWritten, DisplayKept DEF RangeInv
<1> QED
  BY <1>7, <1>9 DEF RangeInv

LEMMA MoveKeepsRange ==
  ASSUME PlaceInv, RangeInv, NEW c \in Contexts, MoveOver(c)
  PROVE  RangeInv'
<1> DEFINE f == frame[c]
           unit == IF Head(f.text) = "tab" THEN TAB_STOP ELSE COLS
           a == f.address + unit - (f.address % unit)
           g == After(Tail(f.text), a)
<1>1. /\ f.label = "character" /\ Enter(c, g) /\ version = 7
      /\ UNCHANGED <<version, display, keys>>
  BY DEF MoveOver
<1>2. /\ f.text \in Seq(Chars) /\ f.text # <<>> /\ f.address \in Nat
      /\ Len(f.text) = 1 /\ f.address + COLS <= Reach(Consumed)
  BY <1>1 DEF RangeInv, FramesInv, Fine
<1>3. Consumed \in Nat /\ Reach(Consumed) \in Nat /\ COLS \in Nat \ {0}
      /\ unit \in Nat \ {0} /\ unit <= COLS
  BY ConsumedRange, ReachGrows, ScreenFacts DEF RangeInv
<1>4. /\ Tail(f.text) = <<>> /\ <<>> \in Seq(Chars)
  BY <1>2, TailOfOne
<1> HIDE DEF f, unit
<1>5. a \in Nat /\ a <= Reach(Consumed)
  <2>1. f.address % unit \in 0 .. unit - 1
    BY <1>2, <1>3, Division
  <2> QED
    BY <1>2, <1>3, <2>1
<1> HIDE DEF a
<1>6. Fine(Consumed, g)
  <2>1. version = 7
    BY <1>1
  <2>2. version \in {7, 8} /\ version # 8
    BY <2>1
  <2>3. version = 7 => Tail(f.text) = <<>> /\ a <= Reach(Consumed)
    BY <1>4, <1>5
  <2>4. version = 8 => a < CELLS + COLS
    BY <2>2
  <2>5. Tail(f.text) \in Seq(Chars)
    BY <1>4
  <2> QED
    BY <1>3, <1>5, <2>2, <2>3, <2>4, <2>5, AfterIsFine
<1>7. g.label # "entered"
  BY AfterPlace
<1> HIDE DEF g
<1>8. FramesInv' /\ KeysInv'
  BY <1>1, <1>6, <1>7, EnterKeepsFrames
<1>9. DisplayInv'
  BY <1>1 DEF RangeInv, DisplayInv, display, keys, Within, Consumed
<1> QED
  BY <1>8, <1>9 DEF RangeInv

LEMMA BlankKeepsRange ==
  ASSUME PlaceInv, RangeInv, NEW c \in Contexts, WriteBlank(c)
  PROVE  RangeInv'
<1> DEFINE f == frame[c]
           done == After(Tail(f.text), f.address + 1)
           more == [f EXCEPT !.address = f.address + 1, !.count = f.count + 1]
           g == IF BlanksDone(f) THEN done ELSE more
<1>1. /\ f.label = "character" /\ Enter(c, g) /\ WriteChar(f.address, Blank)
      /\ version = 8 /\ UNCHANGED <<version, cursor_position, crtc, keys>>
  BY DEF WriteBlank
<1>2. /\ f.text \in Seq(Chars) /\ f.text # <<>> /\ f.address \in Nat /\ f.count \in Nat
      /\ IF Head(f.text) = "tab" THEN f.count < TAB /\ f.address < CELLS + f.count
                                 ELSE f.address < CELLS
      /\ Fine(Consumed, f)
  BY <1>1 DEF RangeInv, FramesInv, Fine
<1>3. Consumed \in Nat /\ COLS \in Nat \ {0} /\ CELLS \in Nat /\ TAB \in 1 .. COLS
  BY ConsumedRange, ScreenFacts DEF RangeInv
<1>4. Tail(f.text) \in Seq(Chars)
  BY <1>2
<1> HIDE DEF f
<1>5. Fine(Consumed, g) /\ g.label # "entered"
  <2>1. CASE BlanksDone(f)
    <3>1. f.address + 1 < CELLS + COLS /\ f.address + 1 \in Nat
      BY <1>2, <1>3, <2>1 DEF BlanksDone
    <3>2. /\ version \in {7, 8}
          /\ version = 7 => Tail(f.text) = <<>> /\ f.address + 1 <= Reach(Consumed)
          /\ version = 8 => f.address + 1 < CELLS + COLS
      BY <1>1, <3>1
    <3>3. Fine(Consumed, done)
      BY <1>3, <1>4, <3>1, <3>2, AfterIsFine
    <3>4. done.label # "entered"
      BY AfterPlace
    <3> QED
      BY <2>1, <3>3, <3>4
  <2>2. CASE ~BlanksDone(f)
    <3>1. Fine(Consumed, more)
      BY <1>1, <1>2, <1>3, <2>2, NextBlankIsFine
    <3>2. more.label = f.label
      OBVIOUS
    <3> QED
      BY <1>1, <2>2, <3>1, <3>2
  <2> QED
    BY <2>1, <2>2
<1> HIDE DEF g
<1>6. FramesInv' /\ KeysInv'
  BY <1>1, <1>5, EnterKeepsFrames
<1>7. DisplayInv'
  BY <1>1, MemoryWritten, DisplayKept DEF RangeInv
<1> QED
  BY <1>6, <1>7 DEF RangeInv

LEMMA ScrollKeepsRange ==
  ASSUME PlaceInv, RangeInv, NEW c \in Contexts, ScrollCell(c)
  PROVE  RangeInv'
<1> DEFINE f == frame[c]
           done == After(f.text, f.address - COLS)
           more == [f EXCEPT !.count = f.count + 1]
           g == IF f.count = CELLS - 1 THEN done ELSE more
<1>1. /\ f.label = "scroll" /\ Enter(c, g)
      /\ mem' = [mem EXCEPT ![f.count] = Scrolled(f.count)]
      /\ UNCHANGED <<version, cursor_position, crtc, keys>>
  BY DEF ScrollCell
<1>2. /\ f \in [label : Labels, text : Seq(Chars), address : Nat, count : Nat]
      /\ version = 8 /\ f.address \in CELLS .. CELLS + COLS - 1 /\ f.count < CELLS
      /\ f.text \in Seq(Chars) /\ f.count \in Nat
  BY <1>1 DEF RangeInv, FramesInv, Fine
<1>3. Consumed \in Nat /\ COLS \in Nat \ {0} /\ CELLS \in Nat /\ COLS <= CELLS
      /\ MaxKeys \in Nat
  BY ConsumedRange, ScreenFacts DEF RangeInv
<1> HIDE DEF f
<1>4. Fine(Consumed, g) /\ g.label # "entered"
  <2>1. CASE f.count = CELLS - 1
    <3>1. f.address - COLS \in Nat /\ f.address - COLS < CELLS + COLS
      BY <1>2, <1>3
    <3>2. Fine(Consumed, done) /\ done.label # "entered"
      BY <1>2, <1>3, <3>1, AfterIsFine, AfterPlace
    <3> QED
      BY <2>1, <3>2
  <2>2. CASE f.count # CELLS - 1
    <3>1. /\ more \in [label : Labels, text : Seq(Chars), address : Nat, count : Nat]
          /\ more.label = "scroll" /\ more.address = f.address /\ more.count = f.count + 1
      BY <1>1, <1>2
    <3>2. f.count + 1 < CELLS
      BY <1>2, <1>3, <2>2
    <3> HIDE DEF more
    <3>3. Fine(Consumed, more)
      BY <1>2, <3>1, <3>2 DEF Fine
    <3> QED
      BY <2>2, <3>1, <3>3
  <2> QED
    BY <2>1, <2>2
<1> HIDE DEF g
<1>5. FramesInv' /\ KeysInv'
  BY <1>1, <1>4, EnterKeepsFrames
<1>6. Scrolled(f.count) \in {"old", Blank} \cup Glyphs
  <2>1. CASE f.count < CELLS - COLS
    <3>1. f.count + COLS \in Memory
      <4>1. MaxKeys * COLS \in Nat
        BY <1>3
      <4> QED
        BY <1>2, <1>3, <2>1, <4>1 DEF Memory
    <3> QED
      BY <2>1, <3>1 DEF Scrolled, RangeInv, DisplayInv
  <2>2. CASE ~(f.count < CELLS - COLS)
    BY <2>2 DEF Scrolled
  <2> QED
    BY <2>1, <2>2
<1>7. mem' \in [Memory -> {"old", Blank} \cup Glyphs]
  BY <1>1, <1>6 DEF RangeInv, DisplayInv
<1>8. DisplayInv'
  BY <1>1, <1>7, DisplayKept DEF RangeInv
<1> QED
  BY <1>5, <1>8 DEF RangeInv

LEMMA PortKeepsRange ==
  ASSUME PlaceInv, RangeInv, NEW c \in Contexts, OutPort(c)
  PROVE  RangeInv'
<1> DEFINE f == frame[c]
           g == [f EXCEPT !.count = f.count + 1]
<1>1. /\ f.label = "port" /\ f.count < 4 /\ Enter(c, g)
      /\ crtc' = Port(f.address, f.count)
      /\ UNCHANGED <<version, mem, cursor_position, keys>>
  BY DEF OutPort
<1>2. /\ f \in [label : Labels, text : Seq(Chars), address : Nat, count : Nat]
      /\ f.address \in Nat /\ f.count \in Nat /\ Within(Consumed, f.address)
  BY <1>1 DEF RangeInv, FramesInv, Fine
<1>3. /\ g \in [label : Labels, text : Seq(Chars), address : Nat, count : Nat]
      /\ g.label = "port" /\ g.address = f.address /\ g.count = f.count + 1
  BY <1>1, <1>2
<1> HIDE DEF f, g
<1>4. Fine(Consumed, g) /\ g.label # "entered"
  BY <1>1, <1>2, <1>3 DEF Fine
<1>5. FramesInv' /\ KeysInv'
  BY <1>1, <1>4, EnterKeepsFrames
<1>6. crtc' \in [index : {14, 15}, data : [{14, 15} -> 0 .. REGISTER - 1]]
  <2>1. REGISTER \in Nat \ {0}
    BY ScreenFacts
  <2>2. f.address % REGISTER \in 0 .. REGISTER - 1 /\ f.address \div REGISTER \in Nat
    BY <1>2, <2>1, Division
  <2>3. (f.address \div REGISTER) % REGISTER \in 0 .. REGISTER - 1
    BY <2>1, <2>2, Division
  <2>4. crtc \in [index : {14, 15}, data : [{14, 15} -> 0 .. REGISTER - 1]]
    BY DEF RangeInv, DisplayInv
  <2>5. \A r \in {14, 15} :
          Select(r) \in [index : {14, 15}, data : [{14, 15} -> 0 .. REGISTER - 1]]
    BY <2>4 DEF Select
  <2>6. \A x \in 0 .. REGISTER - 1 :
          Send(x) \in [index : {14, 15}, data : [{14, 15} -> 0 .. REGISTER - 1]]
    BY <2>4 DEF Send
  <2>7. f.count = 0 \/ f.count = 1 \/ f.count = 2 \/ f.count = 3
    BY <1>1, <1>2
  <2> QED
    BY <1>1, <2>2, <2>3, <2>5, <2>6, <2>7 DEF Port
<1>7. DisplayInv'
  BY <1>1, <1>6 DEF RangeInv, DisplayInv, Within, Consumed, keys
<1> QED
  BY <1>5, <1>7 DEF RangeInv

LEMMA PlainFrameIsFine ==
  ASSUME NEW n, NEW label \in {"rest", "entered", "return", "idle"}
  PROVE  /\ Fine(n, Frame(label, <<>>, 0, 0))
         /\ Frame(label, <<>>, 0, 0).label = label
<1> DEFINE f == Frame(label, <<>>, 0, 0)
<1>1. <<>> \in Seq(Chars)
  OBVIOUS
<1>2. /\ f \in [label : Labels, text : Seq(Chars), address : Nat, count : Nat]
      /\ f.label = label
  BY <1>1 DEF Frame, Labels
<1> HIDE DEF f
<1>3. Fine(n, f) /\ f.label = label
  BY <1>2 DEF Fine
<1> QED
  BY <1>3 DEF f

LEMMA StoreKeepsRange ==
  ASSUME PlaceInv, RangeInv, NEW c \in Contexts, StorePosition(c)
  PROVE  RangeInv'
<1> DEFINE f == frame[c]
<1>1. /\ f.label = "port" /\ cursor_position' = f.address
      /\ Enter(c, AtRest) \/ Enter(c, Frame("return", <<>>, 0, 0))
      /\ UNCHANGED <<version, mem, crtc, keys>>
  BY DEF StorePosition
<1>2. f.address \in Nat /\ Within(Consumed, f.address)
  BY <1>1 DEF RangeInv, FramesInv, Fine
<1> HIDE DEF f
<1>3. PICK label \in {"rest", "return"} : Enter(c, Frame(label, <<>>, 0, 0))
  BY <1>1 DEF AtRest
<1>4. /\ Fine(Consumed, Frame(label, <<>>, 0, 0))
      /\ Frame(label, <<>>, 0, 0).label # "entered"
  BY PlainFrameIsFine
<1>5. FramesInv' /\ KeysInv'
  BY <1>1, <1>3, <1>4, EnterKeepsFrames
<1>6. DisplayInv'
  BY <1>1, <1>2 DEF RangeInv, DisplayInv, Within, Consumed, keys
<1> QED
  BY <1>5, <1>6 DEF RangeInv

LEMMA BootArguments ==
  ASSUME version \in {7, 8}, pc \in 1 .. Len(Boot)
  PROVE  /\ Boot[pc].op = "set_cursor" =>
              Boot[pc].arg = IF version = 8 /\ pc = ROWS + 8 THEN GREETING_AT ELSE 0
         /\ Boot[pc].op = "write" =>
              version = 8 /\ Boot[pc].arg = IF pc = ROWS + 9 THEN Greeting ELSE <<"newline">>
<1>1. ROWS \in Nat /\ ROWS >= 1
  BY ScreenFacts
<1>2. \A a : SetCursor(a).arg = a /\ Write(a).arg = a
  BY DEF SetCursor, Write
<1>3. CASE version = 8
  <2>1. Boot = Tutorial8
    BY <1>3 DEF Boot
  <2>2. CASE Boot[pc].op = "set_cursor"
    <3>1. pc = 6 \/ pc = ROWS + 7 \/ pc = ROWS + 8
      BY <1>3, <2>2, StatementsOf8
    <3>2. /\ Boot[6] = SetCursor(0) /\ Boot[ROWS + 7] = SetCursor(0)
          /\ Boot[ROWS + 8] = SetCursor(GREETING_AT)
      BY <2>1, BootOfTutorial8
    <3>3. pc = ROWS + 8 => Boot[pc] = SetCursor(GREETING_AT)
      BY <3>2
    <3>4. pc # ROWS + 8 => Boot[pc] = SetCursor(0)
      BY <3>1, <3>2
    <3> QED
      BY <1>2, <1>3, <2>2, <3>3, <3>4
  <2>3. CASE Boot[pc].op = "write"
    <3>1. pc \in 7 .. ROWS + 6 \/ pc = ROWS + 9
      BY <1>3, <2>3, StatementsOf8
    <3>2. /\ \A i \in 7 .. ROWS + 6 : Boot[i] = Write(<<"newline">>)
          /\ Boot[ROWS + 9] = Write(Greeting)
      BY <2>1, BootOfTutorial8
    <3>3. pc = ROWS + 9 => Boot[pc] = Write(Greeting)
      BY <3>2
    <3>4. pc # ROWS + 9 => Boot[pc] = Write(<<"newline">>)
      BY <3>1, <3>2
    <3> QED
      BY <1>2, <1>3, <2>3, <3>3, <3>4
  <2> QED
    BY <2>2, <2>3
<1>4. CASE version = 7
  <2>1. Boot = Tutorial7
    BY <1>4 DEF Boot
  <2>2. CASE Boot[pc].op = "set_cursor"
    <3>1. pc = 2 \/ pc = 4
      BY <1>4, <2>2, StatementsOf7
    <3>2. Boot[2] = SetCursor(0) /\ Boot[4] = SetCursor(0)
      BY <2>1, OpsOfTutorial7
    <3>3. Boot[pc] = SetCursor(0)
      BY <3>1, <3>2
    <3> QED
      BY <1>2, <1>4, <2>2, <3>3
  <2>3. Boot[pc].op # "write"
    BY <1>4, StatementsOf7
  <2> QED
    BY <2>2, <2>3
<1> QED
  BY <1>3, <1>4

LEMMA GreetingFacts ==
  /\ GREETING_AT \in Nat /\ GREETING_AT + 2 + COLS < CELLS
  /\ Greeting \in Seq(Chars) /\ Len(Greeting) = 2 /\ Head(Greeting) = "H"
  /\ Greeting # <<>> /\ Greeting[1] = "H" /\ Greeting[2] = "w" /\ Tail(Greeting) = <<"w">>
<1>1. /\ Greeting \in Seq(Chars) /\ Len(Greeting) = 2 /\ Head(Greeting) = "H"
      /\ Greeting # <<>> /\ Greeting[1] = "H" /\ Greeting[2] = "w" /\ Tail(Greeting) = <<"w">>
  BY DEF Greeting, Chars, Glyphs
<1> QED
  BY <1>1, GreetingAssumption

LEMMA StartedIsFine ==
  ASSUME NEW n \in Nat, NEW text \in Seq(Chars), text # <<>>, cursor_position \in Nat,
         version = 7 => Len(text) = 1 /\ cursor_position + COLS <= Reach(n),
         version = 8 => cursor_position < CELLS
  PROVE  Fine(n, Started(text)) /\ Started(text).label = "character"
<1> DEFINE f == Started(text)
<1>1. /\ f \in [label : Labels, text : Seq(Chars), address : Nat, count : Nat]
      /\ f.label = "character" /\ f.text = text /\ f.address = cursor_position /\ f.count = 0
  BY DEF Started, Frame, Labels
<1>2. TAB \in Nat /\ 0 < TAB /\ CELLS \in Nat
  BY ScreenFacts
<1> HIDE DEF f
<1>3. Fine(n, f) /\ f.label = "character"
  BY <1>1, <1>2 DEF Fine
<1> QED
  BY <1>3 DEF f

LEMMA CallsKeepRange ==
  ASSUME PlaceInv, RangeInv, CallSetCursor \/ CallWrite \/ Idle
  PROVE  RangeInv'
<1>1. "main" \in Contexts
  BY DEF Contexts
<1>2. UNCHANGED <<version, mem, cursor_position, crtc, keys>>
  BY DEF CallSetCursor, CallWrite, Idle, display
<1>3. Consumed \in Nat /\ Reach(Consumed) \in Nat
  BY ConsumedRange, ReachGrows DEF RangeInv
<1>4. PICK f : Enter("main", f) /\ Fine(Consumed, f) /\ f.label # "entered"
  <2>1. CASE CallSetCursor
    <3> DEFINE a == Boot[pc].arg
               f == SettingCursor(a, 0)
    <3>1. Enter("main", f) /\ Boot[pc].op = "set_cursor"
      BY <2>1 DEF CallSetCursor, At
    <3>2. a = IF version = 8 /\ pc = ROWS + 8 THEN GREETING_AT ELSE 0
      BY <3>1, BootArguments DEF PlaceInv
    <3>3. a \in Nat /\ Within(Consumed, a)
      BY <1>3, <3>2, GreetingFacts, ScreenFacts DEF Within
    <3> HIDE DEF a
    <3>4. <<>> \in Seq(Chars)
      OBVIOUS
    <3>5. /\ f \in [label : Labels, text : Seq(Chars), address : Nat, count : Nat]
          /\ f.label = "port" /\ f.address = a /\ f.count = 0
      BY <3>3, <3>4 DEF SettingCursor, Frame, Labels
    <3> HIDE DEF f
    <3>6. Fine(Consumed, f) /\ f.label # "entered"
      BY <3>3, <3>5 DEF Fine
    <3> QED
      BY <3>1, <3>6
  <2>2. CASE CallWrite
    <3> DEFINE text == Boot[pc].arg
    <3>1. Enter("main", Started(text)) /\ Boot[pc].op = "write"
      BY <2>2 DEF CallWrite, At
    <3>2. version = 8 /\ text = IF pc = ROWS + 9 THEN Greeting ELSE <<"newline">>
      BY <3>1, BootArguments DEF PlaceInv
    <3>3. <<"newline">> \in Seq(Chars) /\ <<"newline">> # <<>>
      BY DEF Chars
    <3>4. text \in Seq(Chars) /\ text # <<>>
      BY <3>2, <3>3, GreetingFacts
    <3>5. cursor_position \in Nat /\ cursor_position < CELLS /\ version # 7
      BY <3>2 DEF RangeInv, DisplayInv, Within
    <3> HIDE DEF text
    <3>6. Fine(Consumed, Started(text)) /\ Started(text).label = "character"
      BY <1>3, <3>2, <3>4, <3>5, StartedIsFine
    <3> QED
      BY <3>1, <3>6
  <2>3. CASE Idle
    <3>1. Enter("main", Frame("idle", <<>>, 0, 0))
      BY <2>3 DEF Idle
    <3> QED
      BY <3>1, PlainFrameIsFine
  <2> QED
    BY <2>1, <2>2, <2>3
<1>5. FramesInv' /\ KeysInv'
  BY <1>1, <1>2, <1>4, EnterKeepsFrames
<1>6. DisplayInv'
  BY <1>2 DEF RangeInv, DisplayInv, Within, Consumed, keys
<1> QED
  BY <1>5, <1>6 DEF RangeInv

LEMMA SameFramesKeepRange ==
  ASSUME RangeInv, UNCHANGED <<version, frame, cursor_position, crtc, keys>>,
         mem' \in [Memory -> {"old", Blank} \cup Glyphs]
  PROVE  RangeInv'
<1>1. UNCHANGED <<version, frame, Consumed, keyboard, pressed>>
  BY DEF keys, Consumed
<1>2. FramesInv'
  <2> SUFFICES ASSUME NEW d \in Contexts PROVE Fine(Consumed, frame[d])'
    BY DEF FramesInv
  <2>1. Fine(Consumed, frame[d])
    BY DEF RangeInv, FramesInv
  <2> QED
    BY <1>1, <2>1 DEF Fine, Within
<1>3. KeysInv'
  BY <1>1 DEF RangeInv, KeysInv
<1>4. DisplayInv'
  BY DisplayKept DEF RangeInv
<1> QED
  BY <1>2, <1>3, <1>4 DEF RangeInv

LEMMA PressKeepsRange ==
  ASSUME PlaceInv, RangeInv, Press
  PROVE  RangeInv'
<1>1. PICK key \in Keys : keyboard' = Append(keyboard, key)
  BY DEF Press
<1>2. /\ pressed' = pressed + 1 /\ UNCHANGED <<version, frame, mem, cursor_position, crtc>>
      /\ pressed < IF Booted THEN MaxKeys ELSE MaxBootKeys
  BY DEF Press, display
<1>3. /\ keyboard \in Seq(Keys) /\ pressed \in Nat /\ Len(keyboard) \in Nat
      /\ Len(keyboard) <= pressed
  BY DEF RangeInv, KeysInv
<1>4. keyboard' \in Seq(Keys) /\ Len(keyboard') = Len(keyboard) + 1 /\ keyboard' # <<>>
  BY <1>1, <1>3
<1>5. MaxKeys \in Nat /\ MaxBootKeys \in 0 .. MaxKeys
  BY ScreenFacts
<1>6. pressed' \in 0 .. MaxKeys
  BY <1>2, <1>3, <1>5
<1>7. KeysInv'
  BY <1>2, <1>3, <1>4, <1>6 DEF KeysInv
<1>8. Consumed' = Consumed
  BY <1>2, <1>3, <1>4 DEF Consumed
<1>9. FramesInv'
  <2> SUFFICES ASSUME NEW d \in Contexts PROVE Fine(Consumed, frame[d])'
    BY DEF FramesInv
  <2>1. Fine(Consumed, frame[d])
    BY DEF RangeInv, FramesInv
  <2> QED
    BY <1>2, <1>8, <2>1 DEF Fine, Within
<1>10. DisplayInv'
  BY <1>2, <1>8 DEF RangeInv, DisplayInv, Within
<1> QED
  BY <1>7, <1>9, <1>10 DEF RangeInv

LEMMA InterruptKeepsRange ==
  ASSUME PlaceInv, RangeInv, Interrupt
  PROVE  RangeInv'
<1> DEFINE f == Frame("entered", <<>>, 0, 0)
<1>1. /\ Enter("handler", f) /\ keyboard # <<>>
      /\ UNCHANGED <<version, mem, cursor_position, crtc, keys>>
  BY DEF Interrupt, Pending, display
<1>2. Fine(Consumed, f)
  BY PlainFrameIsFine
<1> HIDE DEF f
<1>3. UNCHANGED <<Consumed, keyboard, pressed>>
  BY <1>1 DEF keys, Consumed
<1>4. FramesInv'
  <2> SUFFICES ASSUME NEW d \in Contexts PROVE Fine(Consumed, frame[d])'
    BY DEF FramesInv
  <2>1. Fine(Consumed, frame'[d])
    BY <1>1, <1>2 DEF RangeInv, FramesInv, Enter, PlaceInv, Contexts
  <2> QED
    BY <1>1, <1>3, <2>1 DEF Fine, Within
<1>5. KeysInv'
  BY <1>1, <1>3 DEF RangeInv, KeysInv
<1>6. DisplayInv'
  BY <1>1, <1>3 DEF RangeInv, DisplayInv, Within
<1> QED
  BY <1>4, <1>5, <1>6 DEF RangeInv

LEMMA ReadKeepsRange ==
  ASSUME PlaceInv, RangeInv, ReadKey
  PROVE  RangeInv'
<1> DEFINE key == Head(keyboard)
           n == Consumed + 1
           f == IF key = "release" THEN Frame("return", <<>>, 0, 0) ELSE Started(<<key>>)
<1>1. /\ keyboard' = Tail(keyboard) /\ Enter("handler", f)
      /\ frame["handler"].label = "entered"
      /\ UNCHANGED <<version, mem, cursor_position, crtc, pressed>>
  BY DEF ReadKey, display
<1>2. keyboard \in Seq(Keys) /\ keyboard # <<>> /\ pressed \in 0 .. MaxKeys
      /\ Len(keyboard) \in Nat /\ Len(keyboard) <= pressed
  BY <1>1 DEF RangeInv, KeysInv
<1>3. key \in Keys /\ keyboard' \in Seq(Keys) /\ Len(keyboard') = Len(keyboard) - 1
  BY <1>1, <1>2, HeadTailProperties
<1>4. Len(keyboard) # 0
  BY <1>2, EmptySeq
<1>5. Consumed' = n /\ Consumed \in Nat /\ n \in Nat
  BY <1>1, <1>2, <1>3, ConsumedRange DEF Consumed, RangeInv
<1>6. /\ Reach(Consumed) \in Nat /\ Reach(n) = Reach(Consumed) + COLS /\ COLS \in Nat
  BY <1>5, ReachGrows, ScreenFacts
<1>7. cursor_position \in Nat /\ Within(Consumed, cursor_position) /\ version \in {7, 8}
  BY DEF RangeInv, DisplayInv, PlaceInv
<1>8. Fine(n, f) /\ f.label # "entered"
  <2>1. CASE key = "release"
    BY <2>1, PlainFrameIsFine
  <2>2. CASE key # "release"
    <3>1. key \in Chars
      BY <1>3, <2>2 DEF Keys, Chars, Glyphs
    <3> HIDE DEF key
    <3>2. /\ <<key>> \in Seq(Chars) /\ <<key>> # <<>> /\ Len(<<key>>) = 1
      BY <3>1
    <3>3. /\ version = 7 => Len(<<key>>) = 1 /\ cursor_position + COLS <= Reach(n)
          /\ version = 8 => cursor_position < CELLS
      BY <1>6, <1>7, <3>2 DEF Within
    <3>4. Fine(n, Started(<<key>>)) /\ Started(<<key>>).label = "character"
      BY <1>5, <1>7, <3>2, <3>3, StartedIsFine
    <3> QED
      BY <2>2, <3>4
  <2> QED
    BY <2>1, <2>2
<1> HIDE DEF f, key, n
<1>9. /\ frame'["handler"] = f /\ frame'["main"] = frame["main"]
  BY <1>1 DEF Enter, PlaceInv, Contexts
<1>10. Fine(n, frame["main"])
  <2>1. Fine(Consumed, frame["main"])
    BY DEF RangeInv, FramesInv, Contexts
  <2> QED
    BY <1>5, <2>1, FineGrows DEF n
<1>11. FramesInv'
  <2> SUFFICES ASSUME NEW d \in Contexts PROVE Fine(Consumed, frame[d])'
    BY DEF FramesInv
  <2>1. Fine(n, frame'[d])
    BY <1>8, <1>9, <1>10 DEF Contexts
  <2> QED
    BY <1>1, <1>5, <2>1 DEF Fine, Within
<1>12. KeysInv'
  BY <1>1, <1>2, <1>3, <1>4, <1>8, <1>9 DEF KeysInv
<1>13. Within(n, cursor_position)
  BY <1>6, <1>7 DEF Within
<1>14. DisplayInv'
  BY <1>1, <1>5, <1>13 DEF RangeInv, DisplayInv, Within
<1> QED
  BY <1>11, <1>12, <1>14 DEF RangeInv

LEMMA ResumeKeepsRange ==
  ASSUME PlaceInv, RangeInv, Resume
  PROVE  RangeInv'
<1>1. Enter("handler", Frame("rest", <<>>, 0, 0)) /\ "handler" \in Contexts
      /\ UNCHANGED <<version, mem, cursor_position, crtc, keys>>
  BY DEF Resume, AtRest, Contexts, display
<1>2. /\ Fine(Consumed, Frame("rest", <<>>, 0, 0))
      /\ Frame("rest", <<>>, 0, 0).label # "entered"
  BY PlainFrameIsFine
<1>3. FramesInv' /\ KeysInv'
  BY <1>1, <1>2, EnterKeepsFrames
<1>4. DisplayInv'
  BY <1>1 DEF RangeInv, DisplayInv, Within, Consumed, keys
<1> QED
  BY <1>3, <1>4 DEF RangeInv

LEMMA InitRange == KernelInit => RangeInv
<1> SUFFICES ASSUME KernelInit PROVE RangeInv
  OBVIOUS
<1>1. /\ frame = [c \in Contexts |-> AtRest] /\ keyboard = <<>> /\ pressed = 0
      /\ mem = [a \in Memory |-> "old"] /\ cursor_position = 0
      /\ crtc = [index |-> 14, data |-> [r \in {14, 15} |-> 1]]
  BY DEF KernelInit
<1>2. Len(keyboard) = 0 /\ keyboard \in Seq(Keys)
  BY <1>1
<1>3. Consumed = 0 /\ Reach(0) \in Nat /\ MaxKeys \in Nat /\ CELLS \in Nat \ {0}
      /\ REGISTER \in Nat /\ 1 \in 0 .. REGISTER - 1
  <2>1. Consumed = 0
    <3>1. pressed = 0 /\ Len(keyboard) = 0
      BY <1>1, <1>2
    <3> HIDE <1>1, <1>2
    <3>2. pressed - Len(keyboard) = 0
      BY <3>1
    <3> QED
      BY <3>2 DEF Consumed
  <2>2. Reach(0) \in Nat
    BY ReachGrows
  <2> QED
    BY <2>1, <2>2, ScreenFacts
<1>4. AtRest.label # "entered" /\ Fine(0, AtRest)
  BY PlainFrameIsFine DEF AtRest
<1>5. KeysInv
  BY <1>1, <1>2, <1>3, <1>4 DEF KeysInv, Contexts
<1>6. DisplayInv
  BY <1>1, <1>3 DEF DisplayInv, Within
<1>7. FramesInv
  BY <1>1, <1>3, <1>4 DEF FramesInv
<1> QED
  BY <1>5, <1>6, <1>7 DEF RangeInv

LEMMA NextKeepsRange ==
  ASSUME PlaceInv, RangeInv, [KernelNext]_kernelVars
  PROVE  RangeInv'
<1>1. mem \in [Memory -> {"old", Blank} \cup Glyphs]
  BY DEF RangeInv, DisplayInv
<1>2. CASE LoadGdt \/ HandlerFields \/ HandlerHigh \/ IdtInit \/ EnableKeyboard
  <2>1. UNCHANGED <<version, frame, mem, cursor_position, crtc, keys>>
    BY <1>2 DEF LoadGdt, HandlerFields, HandlerHigh, IdtInit, EnableKeyboard, NextStatement,
                display
  <2> QED
    BY <1>1, <2>1, SameFramesKeepRange
<1>3. CASE BlankCells
  <2>1. /\ UNCHANGED <<version, frame, cursor_position, crtc, keys>>
        /\ mem' = [a \in Memory |-> IF a \in Cells THEN Blank ELSE mem[a]]
    BY <1>3 DEF BlankCells, NextStatement
  <2>2. mem' \in [Memory -> {"old", Blank} \cup Glyphs]
    BY <1>1, <2>1
  <2> QED
    BY <2>1, <2>2, SameFramesKeepRange
<1>4. CASE InterruptUnhandled \/ InterruptAstray \/ ResumeCorrupted \/ UNCHANGED kernelVars
  <2>1. UNCHANGED <<version, frame, mem, cursor_position, crtc, keys>>
    BY <1>4 DEF InterruptUnhandled, InterruptAstray, ResumeCorrupted, kernelVars, display
  <2> QED
    BY <1>1, <2>1, SameFramesKeepRange
<1>5. ASSUME NEW c \in Contexts, CallStep(c) PROVE RangeInv'
  BY <1>5, GlyphKeepsRange, MoveKeepsRange, BlankKeepsRange, ScrollKeepsRange, PortKeepsRange,
     StoreKeepsRange DEF CallStep
<1> QED
  BY <1>2, <1>3, <1>4, <1>5, CallsKeepRange, PressKeepsRange, InterruptKeepsRange,
     ReadKeepsRange, ResumeKeepsRange DEF KernelNext, Statement, Take, Return

LEMMA RangeInvariance == KernelSpec => [](BootInv /\ RangeInv)
<1>1. KernelInit => BootInv /\ RangeInv
  BY InitBoot, InitRange
<1>2. BootInv /\ RangeInv /\ [KernelNext]_kernelVars => BootInv' /\ RangeInv'
  BY NextKeepsBoot, NextKeepsRange DEF BootInv
<1> QED
  BY <1>1, <1>2, PTL DEF KernelSpec

(* Type correctness: no store leaves video memory, and every byte fits.    *)
THEOREM KernelTypeCorrect == KernelSpec => []KernelTypeOK
<1>1. BootInv /\ RangeInv => KernelTypeOK
  <2> SUFFICES ASSUME BootInv, RangeInv PROVE KernelTypeOK
    OBVIOUS
  <2>1. /\ version \in {7, 8} /\ pc \in 1 .. Len(Boot) /\ DOMAIN frame = Contexts
        /\ machine \in {"running", "reset", "corrupted"}
    BY DEF BootInv, PlaceInv
  <2>7. idt \in {"absent", "partial", "present"}
    BY <2>1 DEF BootInv, InstalledInv
  <2>2. {"old", Blank} \cup Glyphs \subseteq
          {"old", Blank, "k"} \cup {Greeting[i] : i \in 1 .. 2}
    BY GreetingFacts DEF Glyphs
  <2>3. mem \in [Memory -> {"old", Blank, "k"} \cup {Greeting[i] : i \in 1 .. 2}]
    BY <2>2 DEF RangeInv, DisplayInv
  <2>4. cursor_position \in Memory
    <3>1. Consumed \in 0 .. MaxKeys /\ CELLS \in Nat /\ MaxKeys \in Nat
      BY ConsumedRange, ScreenFacts DEF RangeInv
    <3>2. Reach(Consumed) \in Nat /\ Reach(Consumed) <= MaxKeys * COLS /\ MaxKeys * COLS \in Nat
      BY <3>1, ReachBound, ScreenFacts
    <3>3. cursor_position \in Nat /\ Within(Consumed, cursor_position)
      BY DEF RangeInv, DisplayInv
    <3> QED
      BY <3>1, <3>2, <3>3 DEF Memory, Within
  <2>5. crtc.index \in {14, 15} /\ crtc.data \in [{14, 15} -> 0 .. REGISTER - 1]
    BY DEF RangeInv, DisplayInv
  <2>6. pressed \in 0 .. MaxKeys /\ Len(keyboard) <= pressed
    BY DEF RangeInv, KeysInv
  <2> QED
    BY <2>1, <2>3, <2>4, <2>5, <2>6, <2>7 DEF KernelTypeOK
<1> QED
  BY <1>1, RangeInvariance, PTL

-----------------------------------------------------------------------------
(* The registers after the first calls of out_port in set_cursor.          *)
High(a) == (a \div REGISTER) % REGISTER
Low(a) == a % REGISTER

SentTo(registers, address, count) ==
  /\ count = 1 => registers.index = 14
  /\ count >= 2 => registers.data[14] = High(address)
  /\ count = 3 => registers.index = 15
  /\ count = 4 => registers.data[15] = Low(address)

Sent(f) == SentTo(crtc, f.address, f.count)

Shows(a) == crtc.data[14] = High(a) /\ crtc.data[15] = Low(a)

CursorSet == \E i \in 1 .. pc - 1 : Boot[i].op = "set_cursor"

PortInv ==
  /\ torn \in BOOLEAN
  /\ frame["handler"].label = "port" => Sent(frame["handler"])
  /\ frame["main"].label = "port" /\ ~torn /\ ~InSetCursor("handler") => Sent(frame["main"])
  /\ (\A c \in Contexts : ~InSetCursor(c)) /\ ~torn /\ CursorSet => Shows(cursor_position)

(* Two registers hold the low part of a number.                            *)
LEMMA TwoRegisters ==
  ASSUME NEW a \in Nat
  PROVE  High(a) * REGISTER + Low(a) = a % (REGISTER * REGISTER)
<1> DEFINE q == a \div REGISTER
           k == q \div REGISTER
<1>1. REGISTER \in Nat \ {0} /\ REGISTER * REGISTER \in Nat \ {0}
  BY ScreenFacts
<1>2. /\ Low(a) \in 0 .. REGISTER - 1 /\ q \in Nat
      /\ a = REGISTER * q + Low(a)
  BY <1>1, Division DEF Low
<1> HIDE DEF q
<1>3. /\ q % REGISTER \in 0 .. REGISTER - 1 /\ k \in Nat
      /\ q = REGISTER * k + (q % REGISTER)
  BY <1>1, <1>2, Division
<1>4. High(a) = q % REGISTER
  BY DEF High, q
<1> HIDE DEF k
<1>5. a = REGISTER * REGISTER * k + (High(a) * REGISTER + Low(a))
  <2>1. REGISTER * q = REGISTER * (REGISTER * k) + REGISTER * High(a)
    BY <1>1, <1>3, <1>4
  <2>2. REGISTER * (REGISTER * k) = REGISTER * REGISTER * k
    BY <1>1, <1>3
  <2>3. REGISTER * High(a) = High(a) * REGISTER
    BY <1>1, <1>3, <1>4
  <2> QED
    BY <1>1, <1>2, <1>3, <1>4, <2>1, <2>2, <2>3
<1>6. High(a) * REGISTER + Low(a) \in 0 .. REGISTER * REGISTER - 1
  <2>1. High(a) * REGISTER <= (REGISTER - 1) * REGISTER /\ High(a) * REGISTER \in Nat
    BY <1>1, <1>3, <1>4
  <2>2. (REGISTER - 1) * REGISTER = REGISTER * REGISTER - REGISTER
    BY <1>1
  <2> QED
    BY <1>1, <1>2, <2>1, <2>2
<1> QED
  BY <1>1, <1>3, <1>5, <1>6, DivisionUnique

(* In tutorial 8 they hold all of the cursor, which stays on the screen.   *)
LEMMA CursorFits ==
  ASSUME RangeInv, version = 8
  PROVE  cursor_position % (REGISTER * REGISTER) = cursor_position
<1>1. cursor_position \in Nat /\ cursor_position < CELLS
  BY DEF RangeInv, DisplayInv, Within
<1>2. REGISTER * REGISTER \in Nat \ {0} /\ CELLS \in Nat /\ CELLS < REGISTER * REGISTER
  BY ScreenFacts
<1>3. cursor_position \in 0 .. REGISTER * REGISTER - 1
  BY <1>1, <1>2
<1>4. cursor_position = REGISTER * REGISTER * 0 + cursor_position
  BY <1>1, <1>2
<1> QED
  BY <1>1, <1>2, <1>3, <1>4, DivisionUnique

LEMMA AfterPort ==
  ASSUME NEW text, NEW address, After(text, address).label = "port"
  PROVE  After(text, address).count = 0
BY DEF After, Frame, SettingCursor

(* A step that sends nothing and ends no call.                             *)
LEMMA QuietKeepsPort ==
  ASSUME PlaceInv, PortInv, NEW c \in Contexts, NEW f, Enter(c, f),
         ~InSetCursor(c), f.label = "port" => f.count = 0,
         UNCHANGED <<version, pc, crtc, torn, cursor_position>>
  PROVE  PortInv'
<1>1. /\ frame'[c] = f /\ \A d \in Contexts \ {c} : frame'[d] = frame[d]
  BY DEF Enter, PlaceInv
<1>2. ~InSetCursor(c)' /\ \A d \in Contexts : InSetCursor(d)' <=> InSetCursor(d)
  BY <1>1 DEF InSetCursor
<1>3. CursorSet' <=> CursorSet
  BY DEF CursorSet, Boot
<1>4. frame'["handler"].label = "port" => Sent(frame["handler"])'
  <2>1. CASE c = "handler"
    BY <1>1, <2>1 DEF Sent, SentTo
  <2>2. CASE c # "handler"
    <3>1. frame'["handler"] = frame["handler"]
      BY <1>1, <2>2 DEF Contexts
    <3> QED
      BY <3>1 DEF PortInv, Sent
  <2> QED
    BY <2>1, <2>2
<1>5. frame'["main"].label = "port" /\ ~torn' /\ ~InSetCursor("handler")'
        => Sent(frame["main"])'
  <2>1. CASE c = "main"
    BY <1>1, <2>1 DEF Sent, SentTo
  <2>2. CASE c # "main"
    <3>1. frame'["main"] = frame["main"]
      BY <1>1, <2>2 DEF Contexts
    <3>2. InSetCursor("handler")' <=> InSetCursor("handler")
      BY <1>2 DEF Contexts
    <3> QED
      BY <3>1, <3>2 DEF PortInv, Sent
  <2> QED
    BY <2>1, <2>2
<1>6. (\A d \in Contexts : ~InSetCursor(d)') /\ ~torn' /\ CursorSet'
        => Shows(cursor_position)'
  BY <1>2, <1>3 DEF PortInv, Shows
<1>7. torn' \in BOOLEAN
  BY DEF PortInv
<1> QED
  BY <1>4, <1>5, <1>6, <1>7 DEF PortInv

LEMMA SameFramesKeepPort ==
  ASSUME PlaceInv, PortInv, UNCHANGED <<version, frame, crtc, torn, cursor_position>>,
         CursorSet' => CursorSet
  PROVE  PortInv'
<1>1. \A d \in Contexts : InSetCursor(d)' <=> InSetCursor(d)
  BY DEF InSetCursor
<1>2. InSetCursor("handler")' <=> InSetCursor("handler")
  BY <1>1 DEF Contexts
<1>3. frame'["handler"].label = "port" => Sent(frame["handler"])'
  BY DEF PortInv, Sent
<1>4. frame'["main"].label = "port" /\ ~torn' /\ ~InSetCursor("handler")'
        => Sent(frame["main"])'
  BY <1>2 DEF PortInv, Sent
<1>5. (\A d \in Contexts : ~InSetCursor(d)') /\ ~torn' /\ CursorSet'
        => Shows(cursor_position)'
  BY <1>1 DEF PortInv, Shows
<1> QED
  BY <1>3, <1>4, <1>5 DEF PortInv

(* The next call of out_port.                                              *)
LEMMA SentNext ==
  ASSUME RangeInv, NEW address, NEW count \in 0 .. 3,
         count = 0 \/ SentTo(crtc, address, count), crtc' = Port(address, count)
  PROVE  SentTo(crtc', address, count + 1)
<1>1. crtc \in [index : {14, 15}, data : [{14, 15} -> 0 .. REGISTER - 1]]
  BY DEF RangeInv, DisplayInv
<1>2. CASE count = 0
  <2>1. crtc' = [crtc EXCEPT !.index = 14]
    BY <1>2 DEF Port, Select
  <2>2. crtc'.index = 14
    BY <1>1, <2>1
  <2> QED
    BY <1>2, <2>2 DEF SentTo
<1>3. CASE count = 1
  <2>1. crtc' = [crtc EXCEPT !.data[14] = High(address)]
    BY <1>3 DEF Port, Send, SentTo, High
  <2>2. crtc'.data[14] = High(address)
    BY <1>1, <2>1
  <2> QED
    BY <1>3, <2>2 DEF SentTo
<1>4. CASE count = 2
  <2>1. crtc' = [crtc EXCEPT !.index = 15]
    BY <1>4 DEF Port, Select
  <2>2. crtc'.index = 15 /\ crtc'.data = crtc.data
    BY <1>1, <2>1
  <2> QED
    BY <1>4, <2>2 DEF SentTo
<1>5. CASE count = 3
  <2>1. crtc' = [crtc EXCEPT !.data[15] = Low(address)]
    BY <1>5 DEF Port, Send, SentTo, Low
  <2>2. crtc'.data[15] = Low(address) /\ crtc'.data[14] = crtc.data[14]
    BY <1>1, <2>1
  <2> QED
    BY <1>5, <2>2 DEF SentTo
<1> QED
  BY <1>2, <1>3, <1>4, <1>5

LEMMA RunsAlone ==
  ASSUME PlaceInv, Runs("main")
  PROVE  frame["handler"].label = "rest" /\ ~InSetCursor("handler")
BY DEF Runs, Handling, AtRest, Frame, InSetCursor

LEMMA OutPortKeepsPort ==
  ASSUME PlaceInv, RangeInv, PortInv, NEW c \in Contexts, OutPort(c)
  PROVE  PortInv'
<1> DEFINE f == frame[c]
           g == [f EXCEPT !.count = f.count + 1]
<1>1. /\ Runs(c) /\ f.label = "port" /\ f.count < 4 /\ Enter(c, g)
      /\ crtc' = Port(f.address, f.count)
      /\ torn' = (torn /\ ~(c = "main" /\ f.count = 0))
  BY DEF OutPort
<1>2. /\ f \in [label : Labels, text : Seq(Chars), address : Nat, count : Nat]
  BY DEF RangeInv, FramesInv, Fine
<1>3. g.label = "port" /\ g.address = f.address /\ g.count = f.count + 1
      /\ f.count \in 0 .. 3 /\ g.count > 0
  BY <1>1, <1>2
<1>4. /\ frame'[c] = g /\ \A d \in Contexts \ {c} : frame'[d] = frame[d]
  BY <1>1 DEF Enter, PlaceInv
<1>5. InSetCursor(c)'
  BY <1>3, <1>4 DEF InSetCursor
<1>6. torn' \in BOOLEAN
  BY <1>1 DEF PortInv
<1>7. CASE c = "handler"
  <2>1. Sent(f)
    BY <1>1, <1>7 DEF PortInv
  <2>2. SentTo(crtc, f.address, f.count)
    BY <2>1 DEF Sent
  <2> HIDE DEF f, g
  <2>3. SentTo(crtc', f.address, f.count + 1)
    BY <1>1, <1>3, <2>2, SentNext
  <2>4. Sent(frame["handler"])'
    BY <1>3, <1>4, <1>7, <2>3 DEF Sent
  <2> QED
    BY <1>5, <1>6, <1>7, <2>4 DEF PortInv, Contexts
<1>8. CASE c = "main"
  <2>1. frame["handler"].label = "rest" /\ ~InSetCursor("handler")
    BY <1>1, <1>8, RunsAlone
  <2>2. frame'["handler"].label = "rest"
    BY <1>4, <1>8, <2>1 DEF Contexts
  <2>3. ~torn' => f.count = 0 \/ SentTo(crtc, f.address, f.count)
    BY <1>1, <1>8, <2>1 DEF PortInv, Sent
  <2> HIDE DEF f, g
  <2>4. ~torn' => SentTo(crtc', f.address, f.count + 1)
    BY <1>1, <1>3, <2>3, SentNext
  <2>5. ~torn' => Sent(frame["main"])'
    BY <1>3, <1>4, <1>8, <2>4 DEF Sent
  <2> QED
    BY <1>5, <1>6, <1>8, <2>2, <2>5 DEF PortInv
<1> QED
  BY <1>7, <1>8 DEF Contexts

LEMMA StoreKeepsPort ==
  ASSUME PlaceInv, RangeInv, PortInv, NEW c \in Contexts, StorePosition(c)
  PROVE  PortInv'
<1> DEFINE f == frame[c]
<1>1. /\ Runs(c) /\ f.label = "port" /\ f.count = 4
      /\ cursor_position' = f.address /\ UNCHANGED <<version, crtc>>
  BY DEF StorePosition
<1>2. Sent(f) => Shows(f.address)
  BY <1>1 DEF Sent, SentTo, Shows
<1>3. CASE c = "main"
  <2>1. Enter("main", AtRest) /\ torn' = torn
    BY <1>3 DEF StorePosition
  <2>2. /\ frame'["main"] = AtRest /\ frame'["handler"] = frame["handler"]
    BY <2>1 DEF Enter, PlaceInv, Contexts
  <2>3. frame["handler"].label = "rest" /\ ~InSetCursor("handler")
    BY <1>1, <1>3, RunsAlone
  <2>4. ~torn => Shows(f.address)
    BY <1>1, <1>2, <1>3, <2>3 DEF PortInv
  <2>5. ~torn' => Shows(cursor_position)'
    BY <1>1, <2>1, <2>4 DEF Shows
  <2>6. AtRest.label = "rest"
    BY DEF AtRest, Frame
  <2>7. torn' \in BOOLEAN
    BY <2>1 DEF PortInv
  <2> QED
    BY <2>2, <2>3, <2>5, <2>6, <2>7 DEF PortInv
<1>4. CASE c = "handler"
  <2>1. Enter("handler", Frame("return", <<>>, 0, 0)) /\ torn' = InSetCursor("main")
    BY <1>4 DEF StorePosition
  <2>2. /\ frame'["handler"].label = "return" /\ frame'["main"] = frame["main"]
    BY <2>1 DEF Enter, PlaceInv, Contexts, Frame
  <2>3. Shows(f.address)
    BY <1>1, <1>2, <1>4 DEF PortInv
  <2>4. Shows(cursor_position)'
    BY <1>1, <2>3 DEF Shows
  <2>5. frame["main"].count \in Nat
    BY DEF RangeInv, FramesInv, Fine, Contexts
  <2>6. frame'["main"].label = "port" /\ ~torn' => Sent(frame["main"])'
    <3>1. SUFFICES ASSUME frame["main"].label = "port", ~InSetCursor("main")
                   PROVE  Sent(frame["main"])'
      BY <2>1, <2>2
    <3>2. frame["main"].count = 0
      BY <2>5, <3>1 DEF InSetCursor
    <3> QED
      BY <2>2, <3>2 DEF Sent, SentTo
  <2>7. torn' \in BOOLEAN
    BY <2>1 DEF InSetCursor
  <2> QED
    BY <2>2, <2>4, <2>6, <2>7 DEF PortInv
<1> QED
  BY <1>3, <1>4 DEF Contexts

LEMMA CharacterKeepsPort ==
  ASSUME PlaceInv, PortInv, NEW c \in Contexts,
         WriteGlyph(c) \/ MoveOver(c) \/ WriteBlank(c) \/ ScrollCell(c)
  PROVE  PortInv'
<1> DEFINE f == frame[c]
<1>1. f.label \in {"character", "scroll"} /\ UNCHANGED <<version, pc, crtc, torn, cursor_position>>
  BY DEF WriteGlyph, MoveOver, WriteBlank, ScrollCell, boot, display, history
<1>2. ~InSetCursor(c)
  BY <1>1 DEF InSetCursor
<1>3. PICK g : Enter(c, g) /\ (g.label = "port" => g.count = 0)
  <2>1. CASE WriteGlyph(c)
    BY <2>1, AfterPort DEF WriteGlyph
  <2>2. CASE MoveOver(c)
    BY <2>2, AfterPort DEF MoveOver
  <2>3. CASE WriteBlank(c)
    <3> DEFINE done == After(Tail(f.text), f.address + 1)
               more == [f EXCEPT !.address = f.address + 1, !.count = f.count + 1]
    <3>1. Enter(c, IF BlanksDone(f) THEN done ELSE more)
      BY <2>3 DEF WriteBlank
    <3>2. done.label = "port" => done.count = 0
      BY AfterPort
    <3>3. more.label = f.label
      OBVIOUS
    <3> HIDE DEF done, more
    <3> QED
      BY <1>1, <3>1, <3>2, <3>3
  <2>4. CASE ScrollCell(c)
    <3> DEFINE done == After(f.text, f.address - COLS)
               more == [f EXCEPT !.count = f.count + 1]
    <3>1. Enter(c, IF f.count = CELLS - 1 THEN done ELSE more)
      BY <2>4 DEF ScrollCell
    <3>2. done.label = "port" => done.count = 0
      BY AfterPort
    <3>3. more.label = f.label
      OBVIOUS
    <3> HIDE DEF done, more
    <3> QED
      BY <1>1, <3>1, <3>2, <3>3
  <2> QED
    BY <2>1, <2>2, <2>3, <2>4
<1> QED
  BY <1>1, <1>2, <1>3, QuietKeepsPort

(* A frame in which nothing is sent, entered from another.                 *)
LEMMA PlainKeepsPort ==
  ASSUME PlaceInv, PortInv,
         CallSetCursor \/ CallWrite \/ Idle \/ Interrupt \/ ReadKey \/ Resume
  PROVE  PortInv'
<1>1. UNCHANGED <<version, pc, crtc, torn, cursor_position>>
  BY DEF CallSetCursor, CallWrite, Idle, Interrupt, ReadKey, Resume, boot, display, history
<1>2. CASE CallSetCursor \/ CallWrite \/ Idle
  <2>1. frame["main"] = AtRest
    BY <1>2 DEF CallSetCursor, CallWrite, Idle, At
  <2>2. ~InSetCursor("main") /\ "main" \in Contexts
    BY <2>1 DEF InSetCursor, AtRest, Frame, Contexts
  <2>3. PICK f : Enter("main", f) /\ (f.label = "port" => f.count = 0)
    <3>1. CASE CallSetCursor
      BY <3>1 DEF CallSetCursor, SettingCursor, Frame
    <3>2. CASE CallWrite
      BY <3>2 DEF CallWrite, Started, Frame
    <3>3. CASE Idle
      BY <3>3 DEF Idle, Frame
    <3> QED
      BY <1>2, <3>1, <3>2, <3>3
  <2> QED
    BY <1>1, <2>2, <2>3, QuietKeepsPort
<1>3. CASE Interrupt \/ ReadKey \/ Resume
  <2>1. frame["handler"].label \in {"rest", "entered", "return"}
    <3>1. Interrupt => frame["handler"] = AtRest
      BY DEF Interrupt, Pending, Handling
    <3> QED
      BY <1>3, <3>1 DEF ReadKey, Resume, AtRest, Frame
  <2>2. ~InSetCursor("handler") /\ "handler" \in Contexts
    BY <2>1 DEF InSetCursor, Contexts
  <2>3. PICK f : Enter("handler", f) /\ (f.label = "port" => f.count = 0)
    <3>1. CASE Interrupt
      BY <3>1 DEF Interrupt, Frame
    <3>2. CASE ReadKey
      BY <3>2 DEF ReadKey, Started, Frame
    <3>3. CASE Resume
      BY <3>3 DEF Resume, AtRest, Frame
    <3> QED
      BY <1>3, <3>1, <3>2, <3>3
  <2> QED
    BY <1>1, <2>2, <2>3, QuietKeepsPort
<1> QED
  BY <1>2, <1>3

LEMMA StatementKeepsPort ==
  ASSUME PlaceInv, PortInv,
         LoadGdt \/ HandlerFields \/ HandlerHigh \/ IdtInit \/ EnableKeyboard \/ BlankCells
  PROVE  PortInv'
<1>1. /\ pc' = pc + 1 /\ UNCHANGED <<version, frame, crtc, torn, cursor_position>>
      /\ Boot[pc].op # "set_cursor"
  BY DEF LoadGdt, HandlerFields, HandlerHigh, IdtInit, EnableKeyboard, BlankCells, At,
         NextStatement, display, history
<1>2. pc \in Int
  BY DEF PlaceInv
<1>3. Boot' = Boot
  BY <1>1 DEF Boot
<1>4. CursorSet' => CursorSet
  <2>1. SUFFICES ASSUME NEW i \in 1 .. pc' - 1, Boot[i].op = "set_cursor"
                 PROVE  CursorSet
    BY <1>3 DEF CursorSet
  <2>2. i \in 1 .. pc - 1 \/ i = pc
    BY <1>1, <1>2
  <2> QED
    BY <1>1, <2>1, <2>2 DEF CursorSet
<1> QED
  BY <1>1, <1>4, SameFramesKeepPort

LEMMA InitPort == KernelInit => PortInv
<1> SUFFICES ASSUME KernelInit PROVE PortInv
  OBVIOUS
<1>1. frame["main"] = AtRest /\ frame["handler"] = AtRest /\ pc = 1 /\ torn = FALSE
  BY DEF KernelInit, Contexts
<1>2. AtRest.label = "rest"
  BY DEF AtRest, Frame
<1>3. ~CursorSet
  BY <1>1 DEF CursorSet
<1> QED
  BY <1>1, <1>2, <1>3 DEF PortInv

LEMMA NextKeepsPort ==
  ASSUME PlaceInv, RangeInv, PortInv, [KernelNext]_kernelVars
  PROVE  PortInv'
<1>1. CASE Press \/ InterruptUnhandled \/ InterruptAstray \/ ResumeCorrupted
             \/ UNCHANGED kernelVars
  <2>1. UNCHANGED <<version, pc, frame, crtc, torn, cursor_position>>
    BY <1>1 DEF Press, InterruptUnhandled, InterruptAstray, ResumeCorrupted, kernelVars, boot,
                display, history
  <2>2. CursorSet' => CursorSet
    BY <2>1 DEF CursorSet, Boot
  <2> QED
    BY <2>1, <2>2, SameFramesKeepPort
<1>2. ASSUME NEW c \in Contexts, CallStep(c) PROVE PortInv'
  BY <1>2, CharacterKeepsPort, OutPortKeepsPort, StoreKeepsPort DEF CallStep
<1> QED
  BY <1>1, <1>2, PlainKeepsPort, StatementKeepsPort DEF KernelNext, Statement, Take, Return

LEMMA PortInvariance == KernelSpec => [](BootInv /\ RangeInv /\ PortInv)
<1>1. KernelInit => BootInv /\ RangeInv /\ PortInv
  BY InitBoot, InitRange, InitPort
<1>2. BootInv /\ RangeInv /\ PortInv /\ [KernelNext]_kernelVars
        => BootInv' /\ RangeInv' /\ PortInv'
  BY NextKeepsBoot, NextKeepsRange, NextKeepsPort DEF BootInv
<1> QED
  BY <1>1, <1>2, PTL DEF KernelSpec

(* The display shows the cursor that the kernel remembers, as far as two   *)
(* registers hold it, but for a call that goes on or that a key came into. *)
THEOREM DisplayShowsCursor == KernelSpec => []CursorShown
<1>1. BootInv /\ RangeInv /\ PortInv => CursorShown
  <2> SUFFICES ASSUME BootInv, RangeInv, PortInv,
                      \A c \in Contexts : ~InSetCursor(c), ~torn, CursorSet
               PROVE  LET shown == crtc.data[14] * REGISTER + crtc.data[15] IN
                      /\ shown = cursor_position % (REGISTER * REGISTER)
                      /\ version = 8 => shown = cursor_position
    BY DEF CursorShown, CursorSet
  <2>1. crtc.data[14] = High(cursor_position) /\ crtc.data[15] = Low(cursor_position)
    BY DEF PortInv, Shows
  <2>2. cursor_position \in Nat
    BY DEF RangeInv, DisplayInv
  <2> QED
    BY <2>1, <2>2, TwoRegisters, CursorFits
<1> QED
  BY <1>1, PortInvariance, PTL

-----------------------------------------------------------------------------
(* The echo of a key: what is written before the screen scrolls, and what  *)
(* is there in the end.                                                    *)
Typed(a) == IF version = 7 \/ a <= CELLS THEN Written(before, a) ELSE before.screen[a]

Echoed(a) ==
  IF a \in Cells THEN OnScreen(before, a)
  ELSE IF version = 7 \/ a = CELLS THEN Written(before, a)
  ELSE before.screen[a]

KeyTarget == Target(before.cursor, before.key)

Echoing == frame["handler"].label \in {"character", "scroll", "port"}

(* The blanks from the old cursor to the address, and the old screen.      *)
Begun(address, a) ==
  IF a >= before.cursor /\ a < address /\ a <= CELLS THEN Blank ELSE before.screen[a]

CallInv ==
  /\ before.cursor \in Nat /\ before.key \in Keys
  /\ version = 8 => before.cursor < CELLS

CharacterInv(f) ==
  /\ f.text = <<before.key>> /\ before.key # "release"
  /\ f.address \in Nat /\ before.cursor <= f.address
  /\ version = 7 \/ before.key = "k" => f.address = before.cursor
  /\ version = 8 => f.address < KeyTarget
  /\ before.key = "tab" => f.address = before.cursor + f.count
  /\ \A a \in Memory : mem[a] = Begun(f.address, a)

ScrollInv(f) ==
  /\ f.text = <<>> /\ f.address = KeyTarget
  /\ \A a \in Memory : mem[a] = IF a < f.count THEN Echoed(a) ELSE Typed(a)

EndInv(f) ==
  /\ f.address = KeyTarget - Lost(KeyTarget)
  /\ \A a \in Memory : mem[a] = Echoed(a)

EchoInv ==
  /\ Echoing => CallInv /\ cursor_position = before.cursor
  /\ frame["handler"].label = "character" => CharacterInv(frame["handler"])
  /\ frame["handler"].label = "scroll" => ScrollInv(frame["handler"])
  /\ frame["handler"].label = "port" => EndInv(frame["handler"])
  /\ EchoIsTerminal

(* A newline ends where the next row begins.                               *)
LEMMA NewlineEnds ==
  ASSUME NEW p \in Nat, NEW a \in Nat, p <= a, a < (p \div COLS + 1) * COLS
  PROVE  (a + 1) % COLS = 0 <=> a + 1 = (p \div COLS + 1) * COLS
<1> DEFINE q == p \div COLS
<1>1. COLS \in Nat \ {0}
  BY ScreenFacts
<1>2. q \in Nat /\ p % COLS \in 0 .. COLS - 1 /\ p = COLS * q + (p % COLS)
  BY <1>1, Division
<1>3. (q + 1) * COLS = COLS * q + COLS /\ COLS * q \in Nat /\ COLS * (q + 1) = COLS * q + COLS
  BY <1>1, <1>2
<1> HIDE DEF q
<1>4. COLS * q <= a /\ a < COLS * q + COLS
  BY <1>1, <1>2, <1>3 DEF q
<1>5. CASE a + 1 = COLS * q + COLS
  <2>1. a + 1 \in Nat /\ q + 1 \in Nat /\ 0 \in 0 .. COLS - 1 /\ a + 1 = COLS * (q + 1) + 0
    BY <1>1, <1>2, <1>3, <1>5
  <2>2. (a + 1) % COLS = 0
    BY <1>1, <2>1, DivisionUnique
  <2> QED
    BY <1>3, <1>5, <2>2 DEF q
<1>6. CASE a + 1 # COLS * q + COLS
  <2> DEFINE r == a + 1 - COLS * q
  <2>1. a + 1 \in Nat /\ r \in 0 .. COLS - 1 /\ r # 0 /\ a + 1 = COLS * q + r
    BY <1>1, <1>2, <1>3, <1>4, <1>6
  <2> HIDE DEF r
  <2>2. (a + 1) % COLS = r
    BY <1>1, <1>2, <2>1, DivisionUnique
  <2> QED
    BY <1>3, <1>6, <2>1, <2>2 DEF q
<1> QED
  BY <1>5, <1>6

(* Where tutorial 7 goes on.                                               *)
LEMMA MoveEnds ==
  ASSUME NEW p \in Nat, NEW unit \in Nat \ {0}
  PROVE  p + unit - (p % unit) = (p \div unit + 1) * unit
<1> DEFINE q == p \div unit
           r == p % unit
<1>1. q \in Nat /\ r \in 0 .. unit - 1 /\ p = unit * q + r
  BY Division
<1> HIDE DEF q, r
<1>2. (q + 1) * unit = unit * q + unit /\ unit * q \in Nat
  BY <1>1
<1>3. p + unit - r = (q + 1) * unit
  BY <1>1, <1>2
<1> QED
  BY <1>3 DEF q, r

(* How far a key goes; at most one row is lost.                            *)
LEMMA TargetFacts ==
  ASSUME CallInv, version \in {7, 8}
  PROVE  /\ KeyTarget \in Nat
         /\ before.key # "release" => before.cursor < KeyTarget
         /\ before.key = "release" => KeyTarget = before.cursor
         /\ KeyTarget <= before.cursor + COLS
<1> DEFINE p == before.cursor
<1>1. p \in Nat /\ before.key \in {"k", "newline", "tab", "release"}
  BY DEF CallInv, Keys
<1>2. /\ COLS \in Nat \ {0} /\ TAB \in 1 .. COLS /\ TAB_STOP \in 1 .. COLS
  BY ScreenFacts
<1> HIDE DEF p
<1>3. ASSUME NEW unit \in 1 .. COLS
      PROVE  /\ (p \div unit + 1) * unit \in Nat /\ p < (p \div unit + 1) * unit
             /\ (p \div unit + 1) * unit <= p + COLS
  <2>1. unit \in Nat \ {0} /\ unit <= COLS
    BY <1>2
  <2>2. p % unit \in 0 .. unit - 1
    BY <1>1, <2>1, Division
  <2>3. p + unit - (p % unit) = (p \div unit + 1) * unit
    BY <1>1, <2>1, MoveEnds
  <2> DEFINE r == p % unit
             t == (p \div unit + 1) * unit
  <2>4. r \in 0 .. unit - 1 /\ t = p + unit - r
    BY <2>2, <2>3
  <2> HIDE DEF r, t
  <2>5. t \in Nat /\ p < t /\ t <= p + COLS
    BY <1>1, <1>2, <2>1, <2>4
  <2> QED
    BY <2>5 DEF t
<1>4. CASE before.key = "newline"
  <2>1. KeyTarget = (p \div COLS + 1) * COLS
    BY <1>4 DEF KeyTarget, Target, p
  <2>2. COLS \in 1 .. COLS
    BY <1>2
  <2> QED
    BY <1>3, <1>4, <2>1, <2>2 DEF p
<1>5. CASE before.key = "tab" /\ version = 7
  <2>1. KeyTarget = (p \div TAB_STOP + 1) * TAB_STOP
    BY <1>5 DEF KeyTarget, Target, p
  <2> QED
    BY <1>2, <1>3, <1>5, <2>1 DEF p
<1>6. CASE before.key = "tab" /\ version = 8
  <2>1. KeyTarget = p + TAB
    BY <1>6 DEF KeyTarget, Target, p
  <2> QED
    BY <1>1, <1>2, <1>6, <2>1 DEF p
<1>7. CASE before.key = "k"
  <2>1. KeyTarget = p + 1
    BY <1>7 DEF KeyTarget, Target, p
  <2> QED
    BY <1>1, <1>2, <1>7, <2>1 DEF p
<1>8. CASE before.key = "release"
  <2>1. KeyTarget = p
    BY <1>8 DEF KeyTarget, Target, p
  <2> QED
    BY <1>1, <1>2, <1>8, <2>1 DEF p
<1> QED
  BY <1>1, <1>4, <1>5, <1>6, <1>7, <1>8

LEMMA LostRange ==
  ASSUME CallInv, version \in {7, 8}
  PROVE  /\ version = 8 /\ KeyTarget >= CELLS => Lost(KeyTarget) = COLS
         /\ ~(version = 8 /\ KeyTarget >= CELLS) => Lost(KeyTarget) = 0
         /\ version = 8 => KeyTarget < CELLS + COLS
<1>1. KeyTarget \in Nat /\ KeyTarget <= before.cursor + COLS
  BY TargetFacts
<1>2. version = 8 => before.cursor < CELLS
  BY DEF CallInv
<1>3. CELLS \in Nat /\ COLS \in Nat /\ before.cursor \in Nat
  BY ScreenFacts DEF CallInv
<1> QED
  BY <1>1, <1>2, <1>3 DEF Lost

(* Without a scroll, or behind the screen, all is as it was typed.         *)
LEMMA EchoedAsTyped ==
  ASSUME CallInv, version \in {7, 8}, NEW a \in Memory,
         Lost(KeyTarget) = 0 \/ a >= CELLS
  PROVE  Echoed(a) = Typed(a)
<1>1. a \in Nat /\ CELLS \in Nat
  <2>1. MaxKeys * COLS \in Nat /\ CELLS \in Nat
    BY ScreenFacts
  <2> QED
    BY <2>1 DEF Memory
<1>2. a \in Cells <=> a < CELLS
  BY <1>1 DEF Cells
<1>3. CASE a < CELLS
  <2>1. OnScreen(before, a) = Written(before, a)
    <3>1. Lost(Target(before.cursor, before.key)) = 0
      BY <1>1, <1>3 DEF KeyTarget
    <3>2. a + 0 = a
      BY <1>1
    <3> QED
      BY <1>2, <1>3, <3>1, <3>2 DEF OnScreen
  <2> QED
    BY <1>1, <1>2, <1>3, <2>1 DEF Echoed, Typed
<1>4. CASE a >= CELLS
  BY <1>1, <1>2, <1>4 DEF Echoed, Typed
<1> QED
  BY <1>1, <1>3, <1>4

(* The cell that the scrolling loop copies or blanks.                      *)
LEMMA EchoedByScroll ==
  ASSUME CallInv, version = 8, KeyTarget >= CELLS, NEW j \in Cells,
         \A a \in Memory : a >= j => mem[a] = Typed(a)
  PROVE  Scrolled(j) = Echoed(j)
<1>1. /\ COLS \in Nat \ {0} /\ CELLS \in Nat /\ j \in Nat /\ j < CELLS /\ MaxKeys * COLS \in Nat
  BY ScreenFacts DEF Cells
<1>2. Lost(KeyTarget) = COLS
  BY LostRange
<1>3. Echoed(j) = IF j + COLS \in Cells THEN Written(before, j + COLS) ELSE Blank
  BY <1>2 DEF Echoed, OnScreen, KeyTarget
<1>4. CASE j < CELLS - COLS
  <2>1. j + COLS \in Cells /\ j + COLS \in Memory /\ j + COLS >= j /\ j + COLS <= CELLS
    BY <1>1, <1>4 DEF Cells, Memory
  <2>2. mem[j + COLS] = Typed(j + COLS)
    BY <2>1
  <2> QED
    BY <1>3, <1>4, <2>1, <2>2 DEF Scrolled, Typed
<1>5. CASE ~(j < CELLS - COLS)
  <2>1. j + COLS \notin Cells
    BY <1>1, <1>5 DEF Cells
  <2> QED
    BY <1>3, <1>5, <2>1 DEF Scrolled
<1> QED
  BY <1>4, <1>5

LEMMA SameCall ==
  ASSUME UNCHANGED <<version, before>>
  PROVE  /\ KeyTarget' = KeyTarget /\ Lost(KeyTarget)' = Lost(KeyTarget) /\ CallInv' = CallInv
         /\ \A a : Typed(a)' = Typed(a)
         /\ \A a : Echoed(a)' = Echoed(a)
         /\ \A n, a : Begun(n, a)' = Begun(n, a)
<1>1. KeyTarget' = KeyTarget
  BY DEF KeyTarget, Target
<1>2. Lost(KeyTarget)' = Lost(KeyTarget)
  BY <1>1 DEF Lost
<1>3. ASSUME NEW a PROVE Written(before, a)' = Written(before, a)
  BY DEF Written, Target
<1>4. ASSUME NEW a PROVE OnScreen(before, a)' = OnScreen(before, a)
  BY DEF OnScreen, Written, Target, Lost
<1>5. ASSUME NEW a PROVE Typed(a)' = Typed(a)
  BY <1>3 DEF Typed
<1>6. ASSUME NEW a PROVE Echoed(a)' = Echoed(a)
  BY <1>3, <1>4 DEF Echoed
<1>7. CallInv' = CallInv
  BY DEF CallInv
<1>8. \A n, a : Begun(n, a)' = Begun(n, a)
  BY DEF Begun
<1> QED
  BY <1>1, <1>2, <1>5, <1>6, <1>7, <1>8

LEMMA QuietEcho ==
  ASSUME frame'["handler"].label \notin {"character", "scroll", "port", "return"}
  PROVE  EchoInv'
BY DEF EchoInv, Echoing, EchoIsTerminal

LEMMA SameEcho ==
  ASSUME EchoInv, UNCHANGED <<version, before, mem, cursor_position>>,
         frame'["handler"] = frame["handler"]
  PROVE  EchoInv'
<1>1. Echoing' => CallInv' /\ cursor_position' = before'.cursor
  BY SameCall DEF EchoInv, Echoing
<1>2. frame'["handler"].label = "character" => CharacterInv(frame["handler"])'
  BY SameCall DEF EchoInv, CharacterInv
<1>3. frame'["handler"].label = "scroll" => ScrollInv(frame["handler"])'
  BY SameCall DEF EchoInv, ScrollInv
<1>4. frame'["handler"].label = "port" => EndInv(frame["handler"])'
  BY SameCall DEF EchoInv, EndInv
<1>5. EchoIsTerminal'
  BY DEF EchoInv, EchoIsTerminal, Target, Lost, OnScreen, Written
<1> QED
  BY <1>1, <1>2, <1>3, <1>4, <1>5 DEF EchoInv

(* The handler goes on to set_cursor.                                      *)
LEMMA PortEcho ==
  ASSUME CallInv, cursor_position = before.cursor,
         UNCHANGED <<version, before, cursor_position>>,
         frame'["handler"].label = "port",
         frame'["handler"].address = KeyTarget - Lost(KeyTarget),
         \A a \in Memory : mem'[a] = Echoed(a)
  PROVE  EchoInv'
<1>1. CallInv' /\ cursor_position' = before'.cursor
  BY SameCall
<1>2. EndInv(frame["handler"])'
  BY SameCall DEF EndInv
<1>3. EchoIsTerminal'
  BY DEF EchoIsTerminal
<1> QED
  BY <1>1, <1>2, <1>3 DEF EchoInv, Echoing

LEMMA ScrollEcho ==
  ASSUME CallInv, cursor_position = before.cursor,
         UNCHANGED <<version, before, cursor_position>>,
         NEW n, frame'["handler"].label = "scroll", frame'["handler"].text = <<>>,
         frame'["handler"].address = KeyTarget, frame'["handler"].count = n,
         \A a \in Memory : mem'[a] = IF a < n THEN Echoed(a) ELSE Typed(a)
  PROVE  EchoInv'
<1>1. CallInv' /\ cursor_position' = before'.cursor
  BY SameCall
<1>2. ScrollInv(frame["handler"])'
  BY SameCall DEF ScrollInv
<1>3. EchoIsTerminal'
  BY DEF EchoIsTerminal
<1> QED
  BY <1>1, <1>2, <1>3 DEF EchoInv, Echoing

LEMMA CharacterEcho ==
  ASSUME CallInv, cursor_position = before.cursor,
         UNCHANGED <<version, before, cursor_position>>,
         NEW text, NEW address \in Nat, NEW count,
         frame'["handler"].label = "character", frame'["handler"].text = text,
         frame'["handler"].address = address, frame'["handler"].count = count,
         text = <<before.key>>, before.key # "release", before.cursor <= address,
         version = 7 \/ before.key = "k" => address = before.cursor,
         version = 8 => address < KeyTarget,
         before.key = "tab" => address = before.cursor + count,
         \A a \in Memory : mem'[a] = Begun(address, a)
  PROVE  EchoInv'
<1>1. CallInv' /\ cursor_position' = before'.cursor
  BY SameCall
<1>2. KeyTarget' = KeyTarget /\ before' = before /\ version' = version
  BY SameCall
<1>3. ASSUME NEW a \in Memory PROVE mem'[a] = Begun(frame["handler"].address, a)'
  BY DEF Begun
<1>4. CharacterInv(frame["handler"])'
  BY <1>2, <1>3 DEF CharacterInv
<1>5. EchoIsTerminal'
  BY DEF EchoIsTerminal
<1> QED
  BY <1>1, <1>4, <1>5 DEF EchoInv, Echoing

(* The character is typed: the screen scrolls, or the handler is done.     *)
LEMMA TypedEcho ==
  ASSUME CallInv, cursor_position = before.cursor, version \in {7, 8},
         UNCHANGED <<version, before, cursor_position>>,
         frame'["handler"] = After(<<>>, KeyTarget),
         \A a \in Memory : mem'[a] = Typed(a)
  PROVE  EchoInv'
<1>1. KeyTarget \in Nat /\ CELLS \in Nat /\ Memory \subseteq Nat
  <2>1. MaxKeys * COLS \in Nat /\ CELLS \in Nat
    BY ScreenFacts
  <2> QED
    BY <2>1, TargetFacts DEF Memory
<1>2. CASE version = 8 /\ KeyTarget >= CELLS
  <2>1. After(<<>>, KeyTarget) = Frame("scroll", <<>>, KeyTarget, 0)
    BY <1>2 DEF After
  <2>2. /\ frame'["handler"].label = "scroll" /\ frame'["handler"].text = <<>>
        /\ frame'["handler"].address = KeyTarget /\ frame'["handler"].count = 0
    BY <2>1 DEF Frame
  <2>3. \A a \in Memory : mem'[a] = IF a < 0 THEN Echoed(a) ELSE Typed(a)
    BY <1>1
  <2> QED
    BY <2>2, <2>3, ScrollEcho
<1>3. CASE ~(version = 8 /\ KeyTarget >= CELLS)
  <2>1. After(<<>>, KeyTarget) = SettingCursor(KeyTarget, 0)
    BY <1>3 DEF After
  <2>2. Lost(KeyTarget) = 0
    BY <1>3, LostRange
  <2>3. /\ frame'["handler"].label = "port"
        /\ frame'["handler"].address = KeyTarget - Lost(KeyTarget)
    BY <1>1, <2>1, <2>2 DEF SettingCursor, Frame
  <2>4. \A a \in Memory : mem'[a] = Echoed(a)
    BY <2>2, EchoedAsTyped
  <2> QED
    BY <2>3, <2>4, PortEcho
<1> QED
  BY <1>2, <1>3

(* What the handler writes for its key, and where it is then.              *)
LEMMA CharacterFacts ==
  ASSUME PlaceInv, RangeInv, EchoInv, frame["handler"].label = "character"
  PROVE  LET f == frame["handler"] IN
         /\ CallInv /\ cursor_position = before.cursor /\ version \in {7, 8}
         /\ CharacterInv(f) /\ Fine(Consumed, f)
         /\ before.key \in {"k", "newline", "tab"}
         /\ Head(f.text) = before.key /\ Tail(f.text) = <<>>
         /\ mem \in [Memory -> {"old", Blank} \cup Glyphs] /\ Memory \subseteq Nat
         /\ CELLS \in Nat
<1> DEFINE f == frame["handler"]
<1>1. CallInv /\ cursor_position = before.cursor /\ CharacterInv(f)
  BY DEF EchoInv, Echoing
<1>2. before.key \in {"k", "newline", "tab"} /\ f.text = <<before.key>>
  BY <1>1 DEF CallInv, CharacterInv, Keys
<1>3. f.text \in Seq(Keys) /\ Len(f.text) = 1 /\ Head(f.text) = before.key
  BY <1>2 DEF Keys
<1>4. Tail(f.text) = <<>>
  BY <1>3, TailOfOne
<1>5. Fine(Consumed, f)
  BY DEF RangeInv, FramesInv, Contexts
<1>6. MaxKeys * COLS \in Nat /\ CELLS \in Nat
  BY ScreenFacts
<1>7. Memory \subseteq Nat
  BY <1>6 DEF Memory
<1>8. mem \in [Memory -> {"old", Blank} \cup Glyphs] /\ version \in {7, 8}
  BY DEF RangeInv, DisplayInv, PlaceInv
<1> QED
  BY <1>1, <1>2, <1>3, <1>4, <1>5, <1>6, <1>7, <1>8

LEMMA GlyphKeepsEcho ==
  ASSUME PlaceInv, RangeInv, EchoInv, WriteGlyph("handler")
  PROVE  EchoInv'
<1> DEFINE f == frame["handler"]
<1>1. /\ f.label = "character" /\ Head(f.text) \notin {"newline", "tab"}
      /\ WriteChar(f.address, Head(f.text))
      /\ Enter("handler", After(Tail(f.text), f.address + 1))
      /\ UNCHANGED <<version, cursor_position, before>>
  BY DEF WriteGlyph, history
<1>2. /\ CallInv /\ cursor_position = before.cursor /\ version \in {7, 8} /\ CharacterInv(f)
      /\ before.key \in {"k", "newline", "tab"}
      /\ Head(f.text) = before.key /\ Tail(f.text) = <<>>
      /\ mem \in [Memory -> {"old", Blank} \cup Glyphs] /\ Memory \subseteq Nat
      /\ CELLS \in Nat
  BY <1>1, CharacterFacts
<1>3. before.key = "k" /\ f.address = before.cursor /\ before.cursor \in Nat
  BY <1>1, <1>2 DEF CharacterInv, CallInv
<1>4. KeyTarget = f.address + 1
  BY <1>3 DEF KeyTarget, Target
<1>5. frame'["handler"] = After(<<>>, KeyTarget)
  BY <1>1, <1>2, <1>4 DEF Enter, PlaceInv, Contexts
<1>6. ASSUME NEW a \in Memory PROVE mem'[a] = Typed(a)
  <2>1. a \in Nat /\ mem[a] = before.screen[a]
    BY <1>2, <1>3 DEF CharacterInv, Begun
  <2>2. version = 8 => before.cursor <= CELLS
    BY <1>2, <1>3 DEF CallInv
  <2>3. mem'[a] = IF a = before.cursor THEN "k" ELSE mem[a]
    BY <1>1, <1>2, <1>3, <2>2 DEF WriteChar, InScreen
  <2>4. Written(before, a) = IF a = before.cursor THEN "k" ELSE before.screen[a]
    BY <1>3, <1>4, <2>1 DEF Written, KeyTarget
  <2>5. a = before.cursor => version = 7 \/ a <= CELLS
    BY <1>2, <2>2
  <2> QED
    BY <2>1, <2>3, <2>4, <2>5 DEF Typed
<1> QED
  BY <1>1, <1>2, <1>5, <1>6, TypedEcho

LEMMA MoveKeepsEcho ==
  ASSUME PlaceInv, RangeInv, EchoInv, MoveOver("handler")
  PROVE  EchoInv'
<1> DEFINE f == frame["handler"]
           unit == IF Head(f.text) = "tab" THEN TAB_STOP ELSE COLS
<1>1. /\ f.label = "character" /\ Head(f.text) \in {"newline", "tab"} /\ version = 7
      /\ Enter("handler", After(Tail(f.text), f.address + unit - (f.address % unit)))
      /\ UNCHANGED <<version, mem, cursor_position, before>>
  BY DEF MoveOver, history, display
<1>2. /\ CallInv /\ cursor_position = before.cursor /\ version \in {7, 8} /\ CharacterInv(f)
      /\ Head(f.text) = before.key /\ Tail(f.text) = <<>> /\ Memory \subseteq Nat
      /\ CELLS \in Nat
  BY <1>1, CharacterFacts
<1>3. f.address = before.cursor /\ before.cursor \in Nat
  BY <1>1, <1>2 DEF CharacterInv, CallInv
<1>4. KeyTarget = (before.cursor \div unit + 1) * unit
  BY <1>1, <1>2 DEF KeyTarget, Target
<1>5. unit \in Nat \ {0}
  BY ScreenFacts
<1> HIDE DEF unit
<1>6. f.address + unit - (f.address % unit) = KeyTarget
  BY <1>3, <1>4, <1>5, MoveEnds
<1>7. frame'["handler"] = After(<<>>, KeyTarget)
  BY <1>1, <1>2, <1>6 DEF Enter, PlaceInv, Contexts
<1>8. ASSUME NEW a \in Memory PROVE mem'[a] = Typed(a)
  <2>1. a \in Nat /\ mem'[a] = before.screen[a]
    BY <1>1, <1>2, <1>3 DEF CharacterInv, Begun
  <2>2. Written(before, a) = before.screen[a]
    BY <1>1, <1>2 DEF Written
  <2> QED
    BY <2>1, <2>2 DEF Typed
<1> QED
  BY <1>1, <1>2, <1>7, <1>8, TypedEcho

LEMMA BlankKeepsEcho ==
  ASSUME PlaceInv, RangeInv, EchoInv, WriteBlank("handler")
  PROVE  EchoInv'
<1> DEFINE f == frame["handler"]
           done == After(Tail(f.text), f.address + 1)
           more == [f EXCEPT !.address = f.address + 1, !.count = f.count + 1]
<1>1. /\ f.label = "character" /\ Head(f.text) \in {"newline", "tab"} /\ version = 8
      /\ WriteChar(f.address, Blank)
      /\ Enter("handler", IF BlanksDone(f) THEN done ELSE more)
      /\ UNCHANGED <<version, cursor_position, before>>
  BY DEF WriteBlank, history
<1>2. /\ CallInv /\ cursor_position = before.cursor /\ version \in {7, 8} /\ CharacterInv(f)
      /\ Fine(Consumed, f)
      /\ Head(f.text) = before.key /\ Tail(f.text) = <<>>
      /\ mem \in [Memory -> {"old", Blank} \cup Glyphs] /\ Memory \subseteq Nat
      /\ CELLS \in Nat
  BY <1>1, CharacterFacts
<1>3. /\ f \in [label : Labels, text : Seq(Chars), address : Nat, count : Nat]
      /\ before.key = "tab" => f.count < TAB
  BY <1>1, <1>2 DEF Fine
<1>4. /\ f.address \in Nat /\ f.count \in Nat /\ before.cursor \in Nat
      /\ before.cursor <= f.address /\ f.address < KeyTarget /\ KeyTarget \in Nat
  BY <1>1, <1>2, <1>3, TargetFacts DEF CharacterInv, CallInv
<1>5. TAB \in Nat /\ COLS \in Nat \ {0}
  BY ScreenFacts
<1>6. BlanksDone(f) <=> f.address + 1 = KeyTarget
  <2>1. CASE before.key = "tab"
    <3>1. KeyTarget = before.cursor + TAB
      BY <1>1, <2>1 DEF KeyTarget, Target
    <3>2. f.address = before.cursor + f.count
      BY <1>2, <2>1 DEF CharacterInv
    <3> QED
      BY <1>2, <1>4, <1>5, <2>1, <3>1, <3>2 DEF BlanksDone
  <2>2. CASE before.key = "newline"
    <3>1. KeyTarget = (before.cursor \div COLS + 1) * COLS
      BY <2>2 DEF KeyTarget, Target
    <3>2. (f.address + 1) % COLS = 0 <=> f.address + 1 = KeyTarget
      BY <1>4, <3>1, NewlineEnds
    <3> QED
      BY <1>2, <2>2, <3>2 DEF BlanksDone
  <2> QED
    BY <1>1, <1>2, <2>1, <2>2
<1>7. ASSUME NEW a \in Memory PROVE mem'[a] = Begun(f.address + 1, a)
  <2>1. a \in Nat /\ mem[a] = Begun(f.address, a)
    BY <1>2 DEF CharacterInv
  <2>2. mem'[a] = IF f.address <= CELLS /\ a = f.address THEN Blank ELSE mem[a]
    BY <1>1, <1>2 DEF WriteChar, InScreen
  <2> QED
    BY <1>2, <1>4, <2>1, <2>2 DEF Begun
<1>8. CASE BlanksDone(f)
  <2>1. frame'["handler"] = After(<<>>, KeyTarget)
    BY <1>1, <1>2, <1>6, <1>8 DEF Enter, PlaceInv, Contexts
  <2>2. ASSUME NEW a \in Memory PROVE mem'[a] = Typed(a)
    <3>1. a \in Nat /\ mem'[a] = Begun(KeyTarget, a)
      BY <1>2, <1>6, <1>7, <1>8
    <3>2. Written(before, a) = IF a >= before.cursor /\ a < KeyTarget THEN Blank
                               ELSE before.screen[a]
      BY <1>1, <1>2 DEF Written, KeyTarget
    <3> QED
      BY <1>1, <3>1, <3>2 DEF Typed, Begun
  <2> QED
    BY <1>1, <1>2, <2>1, <2>2, TypedEcho
<1>9. CASE ~BlanksDone(f)
  <2>1. frame'["handler"] = more
    BY <1>1, <1>9 DEF Enter, PlaceInv, Contexts
  <2>2. /\ more.label = "character" /\ more.text = f.text
        /\ more.address = f.address + 1 /\ more.count = f.count + 1
    <3> DEFINE h == [f EXCEPT !.address = f.address + 1]
    <3>1. /\ h \in [label : Labels, text : Seq(Chars), address : Nat, count : Nat]
          /\ h.label = f.label /\ h.text = f.text /\ h.address = f.address + 1
      BY <1>3, <1>4
    <3>2. more = [h EXCEPT !.count = f.count + 1]
      OBVIOUS
    <3> HIDE DEF more, h
    <3> QED
      BY <1>1, <1>4, <3>1, <3>2
  <2> HIDE DEF more
  <2> DEFINE text == f.text
             address == f.address + 1
             count == f.count + 1
  <2>3. version = 8 => address < KeyTarget
    BY <1>4, <1>6, <1>9
  <2>4. version = 7 \/ before.key = "k" => address = before.cursor
    BY <1>1, <1>2
  <2>5. before.key = "tab" => address = before.cursor + count
    BY <1>2, <1>4 DEF CharacterInv
  <2>6. /\ before.cursor <= address /\ address \in Nat
        /\ text = <<before.key>> /\ before.key # "release"
    BY <1>2, <1>4 DEF CharacterInv
  <2>7. /\ frame'["handler"].label = "character" /\ frame'["handler"].text = text
        /\ frame'["handler"].address = address /\ frame'["handler"].count = count
    BY <2>1, <2>2
  <2>8. \A a \in Memory : mem'[a] = Begun(address, a)
    BY <1>7
  <2> HIDE DEF text, address, count
  <2> QED
    BY <1>1, <1>2, <2>3, <2>4, <2>5, <2>6, <2>7, <2>8, CharacterEcho
<1> QED
  BY <1>8, <1>9

(* Every key but the release of one goes on.                               *)
LEMMA KeyGoesOn ==
  ASSUME NEW p \in Nat
  PROVE  /\ p < p + 1 /\ p < p + TAB
         /\ p < (p \div COLS + 1) * COLS
         /\ p < (p \div TAB_STOP + 1) * TAB_STOP
<1>1. COLS \in Nat \ {0} /\ TAB \in Nat \ {0} /\ TAB_STOP \in Nat \ {0}
  BY ScreenFacts
<1>2. ASSUME NEW unit \in Nat \ {0} PROVE p < (p \div unit + 1) * unit
  <2> DEFINE r == p % unit
             t == (p \div unit + 1) * unit
  <2>1. r \in 0 .. unit - 1
    BY Division
  <2>2. p + unit - r = t
    BY MoveEnds
  <2> HIDE DEF r, t
  <2>3. p < t
    BY <2>1, <2>2
  <2> QED
    BY <2>3 DEF t
<1> QED
  BY <1>1, <1>2

LEMMA ScrollKeepsEcho ==
  ASSUME PlaceInv, RangeInv, EchoInv, ScrollCell("handler")
  PROVE  EchoInv'
<1> DEFINE f == frame["handler"]
           done == After(f.text, f.address - COLS)
           more == [f EXCEPT !.count = f.count + 1]
<1>1. /\ f.label = "scroll" /\ mem' = [mem EXCEPT ![f.count] = Scrolled(f.count)]
      /\ Enter("handler", IF f.count = CELLS - 1 THEN done ELSE more)
      /\ UNCHANGED <<version, cursor_position, before>>
  BY DEF ScrollCell, history
<1>2. /\ f \in [label : Labels, text : Seq(Chars), address : Nat, count : Nat]
      /\ version = 8 /\ f.address >= CELLS /\ f.count < CELLS
  <2>1. Fine(Consumed, f)
    BY DEF RangeInv, FramesInv, Contexts
  <2> QED
    BY <1>1, <2>1, ScreenFacts DEF Fine
<1>3. /\ CallInv /\ cursor_position = before.cursor /\ version \in {7, 8}
      /\ f.text = <<>> /\ f.address = KeyTarget
      /\ \A a \in Memory : mem[a] = IF a < f.count THEN Echoed(a) ELSE Typed(a)
  BY <1>1, <1>2 DEF EchoInv, Echoing, ScrollInv
<1>4. /\ CELLS \in Nat /\ COLS \in Nat \ {0} /\ Memory \subseteq Nat /\ f.count \in Cells
      /\ Cells \subseteq Memory
  <2>1. MaxKeys * COLS \in Nat /\ CELLS \in Nat /\ COLS \in Nat \ {0}
    BY ScreenFacts
  <2>2. f.count \in Nat /\ f.count < CELLS
    BY <1>2
  <2> QED
    BY <2>1, <2>2 DEF Memory, Cells
<1>5. Scrolled(f.count) = Echoed(f.count)
  <2>1. ASSUME NEW a \in Memory, a >= f.count PROVE mem[a] = Typed(a)
    <3>1. f.count \in Nat /\ a \in Nat
      BY <1>2, <1>4
    <3>2. ~(a < f.count)
      BY <2>1, <3>1
    <3> QED
      BY <1>3, <3>2
  <2>2. KeyTarget >= CELLS
    BY <1>2, <1>3
  <2> HIDE DEF f
  <2> QED
    BY <1>2, <1>3, <1>4, <2>1, <2>2, EchoedByScroll
<1>6. ASSUME NEW a \in Memory
      PROVE  mem'[a] = IF a < f.count + 1 THEN Echoed(a) ELSE Typed(a)
  <2>1. mem'[a] = IF a = f.count THEN Echoed(f.count) ELSE mem[a]
    BY <1>1, <1>5 DEF RangeInv, DisplayInv
  <2>2. a \in Nat /\ f.count \in Nat
    BY <1>2, <1>4
  <2> QED
    BY <1>3, <2>1, <2>2
<1>7. CASE f.count = CELLS - 1
  <2>1. frame'["handler"] = done
    BY <1>1, <1>7 DEF Enter, PlaceInv, Contexts
  <2>2. KeyTarget \in Nat /\ KeyTarget < CELLS + COLS /\ Lost(KeyTarget) = COLS
    BY <1>2, <1>3, <1>4, TargetFacts, LostRange
  <2>3. done = SettingCursor(KeyTarget - COLS, 0)
    BY <1>3, <1>4, <2>2 DEF After
  <2>4. /\ frame'["handler"].label = "port"
        /\ frame'["handler"].address = KeyTarget - Lost(KeyTarget)
    BY <2>1, <2>2, <2>3 DEF SettingCursor, Frame
  <2>5. ASSUME NEW a \in Memory PROVE mem'[a] = Echoed(a)
    <3>1. CASE a < CELLS
      BY <1>4, <1>6, <1>7, <3>1
    <3>2. CASE a >= CELLS
      BY <1>3, <1>4, <1>6, <1>7, <3>2, EchoedAsTyped
    <3> QED
      BY <1>4, <3>1, <3>2
  <2> QED
    BY <1>1, <1>3, <2>4, <2>5, PortEcho
<1>8. CASE f.count # CELLS - 1
  <2>1. frame'["handler"] = more
    BY <1>1, <1>8 DEF Enter, PlaceInv, Contexts
  <2>2. /\ more.label = "scroll" /\ more.text = f.text
        /\ more.address = f.address /\ more.count = f.count + 1
    BY <1>1, <1>2
  <2> HIDE DEF more
  <2> DEFINE n == f.count + 1
  <2>3. /\ frame'["handler"].label = "scroll" /\ frame'["handler"].text = <<>>
        /\ frame'["handler"].address = KeyTarget /\ frame'["handler"].count = n
    BY <1>3, <2>1, <2>2
  <2>4. \A a \in Memory : mem'[a] = IF a < n THEN Echoed(a) ELSE Typed(a)
    BY <1>6
  <2> HIDE DEF n
  <2> QED
    BY <1>1, <1>3, <2>3, <2>4, ScrollEcho
<1> QED
  BY <1>7, <1>8

LEMMA PortKeepsEcho ==
  ASSUME PlaceInv, RangeInv, EchoInv, OutPort("handler")
  PROVE  EchoInv'
<1> DEFINE f == frame["handler"]
           g == [f EXCEPT !.count = f.count + 1]
<1>1. /\ f.label = "port" /\ Enter("handler", g)
      /\ UNCHANGED <<version, mem, cursor_position, before>>
  BY DEF OutPort
<1>2. f \in [label : Labels, text : Seq(Chars), address : Nat, count : Nat]
  BY DEF RangeInv, FramesInv, Fine, Contexts
<1>3. g.label = "port" /\ g.address = f.address
  BY <1>1, <1>2
<1>4. /\ CallInv /\ cursor_position = before.cursor
      /\ f.address = KeyTarget - Lost(KeyTarget)
      /\ \A a \in Memory : mem[a] = Echoed(a)
  BY <1>1 DEF EchoInv, Echoing, EndInv
<1> HIDE DEF g
<1>5. frame'["handler"] = g
  BY <1>1 DEF Enter, PlaceInv, Contexts
<1>6. /\ frame'["handler"].label = "port"
      /\ frame'["handler"].address = KeyTarget - Lost(KeyTarget)
  BY <1>3, <1>4, <1>5
<1>7. \A a \in Memory : mem'[a] = Echoed(a)
  BY <1>1, <1>4
<1> QED
  BY <1>1, <1>4, <1>6, <1>7, PortEcho

(* The terminal shows the key, in the words of the property.               *)
LEMMA ReturnEcho ==
  ASSUME frame'["handler"].label = "return", UNCHANGED version,
         cursor_position' = KeyTarget' - Lost(KeyTarget)',
         \A a \in Memory : mem'[a] = Echoed(a)'
  PROVE  EchoInv'
<1>1. EchoIsTerminal'
  BY DEF EchoIsTerminal, Echoed, KeyTarget
<1> QED
  BY <1>1 DEF EchoInv, Echoing

LEMMA StoreKeepsEcho ==
  ASSUME PlaceInv, EchoInv, StorePosition("handler")
  PROVE  EchoInv'
<1> DEFINE f == frame["handler"]
<1>1. /\ f.label = "port" /\ Enter("handler", Frame("return", <<>>, 0, 0))
      /\ cursor_position' = f.address /\ UNCHANGED <<version, mem, before>>
  BY DEF StorePosition
<1>2. /\ f.address = KeyTarget - Lost(KeyTarget)
      /\ \A a \in Memory : mem[a] = Echoed(a)
  BY <1>1 DEF EchoInv, EndInv
<1>3. frame'["handler"].label = "return"
  BY <1>1 DEF Enter, PlaceInv, Contexts, Frame
<1>4. cursor_position' = KeyTarget' - Lost(KeyTarget)'
  BY <1>1, <1>2, SameCall
<1>5. \A a \in Memory : mem'[a] = Echoed(a)'
  BY <1>1, <1>2, SameCall
<1> QED
  BY <1>1, <1>3, <1>4, <1>5, ReturnEcho

LEMMA ReadKeepsEcho ==
  ASSUME PlaceInv, RangeInv, ReadKey
  PROVE  EchoInv'
<1> DEFINE key == Head(keyboard)
           p == cursor_position
<1>1. /\ frame["handler"].label = "entered" /\ UNCHANGED <<version, mem, cursor_position>>
      /\ before' = [screen |-> mem, cursor |-> p, key |-> key]
      /\ Enter("handler", IF key = "release" THEN Frame("return", <<>>, 0, 0)
                                             ELSE Started(<<key>>))
  BY DEF ReadKey, display
<1>2. key \in Keys
  BY <1>1 DEF RangeInv, KeysInv
<1>3. /\ p \in Nat /\ version \in {7, 8} /\ (version = 8 => p < CELLS)
      /\ mem \in [Memory -> {"old", Blank} \cup Glyphs]
  BY DEF RangeInv, DisplayInv, PlaceInv, Within
<1>4. Memory \subseteq Nat /\ CELLS \in Nat
  <2>1. MaxKeys * COLS \in Nat /\ CELLS \in Nat
    BY ScreenFacts
  <2> QED
    BY <2>1 DEF Memory
<1> HIDE DEF key, p
<1>5. before'.screen = mem /\ before'.cursor = p /\ before'.key = key /\ version' = version
  BY <1>1
<1>6. CallInv' /\ cursor_position' = before'.cursor
  BY <1>1, <1>2, <1>3, <1>5 DEF CallInv, p
<1>7. CASE key = "release"
  <2>1. frame'["handler"].label = "return"
    BY <1>1, <1>7 DEF Enter, PlaceInv, Contexts, Frame
  <2>2. KeyTarget' = p
    BY <1>5, <1>7 DEF KeyTarget, Target
  <2>3. Lost(KeyTarget)' = 0
    BY <1>3, <1>4, <1>5, <2>2 DEF Lost
  <2>4. cursor_position' = KeyTarget' - Lost(KeyTarget)'
    BY <1>1, <1>3, <2>2, <2>3 DEF p
  <2>5. ASSUME NEW a \in Memory PROVE mem'[a] = Echoed(a)'
    <3>1. a \in Nat
      BY <1>4
    <3>2. Written(before, a)' = mem[a]
      BY <1>3, <1>5, <1>7, <2>2, <3>1 DEF Written, KeyTarget
    <3>3. a \in Cells => OnScreen(before, a)' = mem[a]
      <4>1. a + 0 = a
        BY <3>1
      <4>2. Lost(Target(before.cursor, before.key))' = 0
        BY <2>3 DEF KeyTarget
      <4> QED
        BY <3>2, <4>1, <4>2 DEF OnScreen
    <3>4. Echoed(a)' = mem[a]
      BY <1>5, <3>2, <3>3 DEF Echoed
    <3> QED
      BY <1>1, <3>4
  <2> QED
    BY <1>1, <2>1, <2>4, <2>5, ReturnEcho
<1>8. CASE key # "release"
  <2>1. frame'["handler"] = Frame("character", <<key>>, p, 0)
    BY <1>1, <1>8 DEF Enter, PlaceInv, Contexts, Started, p
  <2>2. /\ frame'["handler"].label = "character" /\ frame'["handler"].text = <<key>>
        /\ frame'["handler"].address = p /\ frame'["handler"].count = 0
    BY <2>1 DEF Frame
  <2>3. p < KeyTarget'
    <3>1. /\ p < p + 1 /\ p < p + TAB
          /\ p < (p \div COLS + 1) * COLS
          /\ p < (p \div TAB_STOP + 1) * TAB_STOP
      BY <1>3, KeyGoesOn
    <3>2. key = "k" \/ key = "newline" \/ key = "tab"
      BY <1>2, <1>8 DEF Keys
    <3>3. KeyTarget' = CASE key = "k" -> p + 1
                         [] key = "newline" -> (p \div COLS + 1) * COLS
                         [] key = "tab" /\ version = 8 -> p + TAB
                         [] key = "tab" /\ version = 7 -> (p \div TAB_STOP + 1) * TAB_STOP
                         [] OTHER -> p
      BY <1>5 DEF KeyTarget, Target
    <3> QED
      BY <1>3, <3>1, <3>2, <3>3
  <2>4. ASSUME NEW a \in Memory PROVE mem'[a] = Begun(frame["handler"].address, a)'
    BY <1>1, <1>3, <1>4, <1>5, <2>2 DEF Begun
  <2>5. CharacterInv(frame["handler"])'
    BY <1>3, <1>5, <1>8, <2>2, <2>3, <2>4 DEF CharacterInv
  <2>6. EchoIsTerminal'
    BY <2>2 DEF EchoIsTerminal
  <2> QED
    BY <1>6, <2>2, <2>5, <2>6 DEF EchoInv, Echoing
<1> QED
  BY <1>7, <1>8

LEMMA NextKeepsEcho ==
  ASSUME BootInv, RangeInv, EchoInv, [KernelNext]_kernelVars
  PROVE  EchoInv'
<1>1. PlaceInv /\ AtRest.label = "rest"
  BY DEF BootInv, AtRest, Frame
<1>2. CASE LoadGdt \/ HandlerFields \/ HandlerHigh \/ IdtInit \/ EnableKeyboard \/ BlankCells
  <2>1. frame'["handler"].label = "rest"
    BY <1>1, <1>2 DEF LoadGdt, HandlerFields, HandlerHigh, IdtInit, EnableKeyboard, BlankCells,
                      NextStatement, At, Runs, Handling
  <2> QED
    BY <2>1, QuietEcho
<1>3. CASE CallSetCursor \/ CallWrite \/ Idle
  <2>1. PICK f : Enter("main", f) /\ Runs("main")
    BY <1>3 DEF CallSetCursor, CallWrite, Idle, At
  <2>2. frame'["handler"].label = "rest"
    BY <1>1, <2>1, RunsAlone DEF Enter, PlaceInv, Contexts
  <2> QED
    BY <2>2, QuietEcho
<1>4. CASE CallStep("main")
  <2>1. PICK f : Enter("main", f) /\ Runs("main")
    BY <1>4 DEF CallStep, WriteGlyph, MoveOver, WriteBlank, ScrollCell, OutPort, StorePosition
  <2>2. frame'["handler"].label = "rest"
    BY <1>1, <2>1, RunsAlone DEF Enter, PlaceInv, Contexts
  <2> QED
    BY <2>2, QuietEcho
<1>5. CASE CallStep("handler")
  BY <1>1, <1>5, GlyphKeepsEcho, MoveKeepsEcho, BlankKeepsEcho, ScrollKeepsEcho, PortKeepsEcho,
     StoreKeepsEcho DEF CallStep
<1>6. CASE Press \/ InterruptUnhandled \/ InterruptAstray \/ ResumeCorrupted
           \/ UNCHANGED kernelVars
  <2>1. UNCHANGED <<version, before, mem, cursor_position>> /\ frame' = frame
    BY <1>6 DEF Press, InterruptUnhandled, InterruptAstray, ResumeCorrupted, kernelVars, display,
                history
  <2> QED
    BY <2>1, SameEcho
<1>7. CASE Interrupt
  <2>1. frame'["handler"].label = "entered"
    BY <1>1, <1>7 DEF Interrupt, Enter, PlaceInv, Contexts, Frame
  <2> QED
    BY <2>1, QuietEcho
<1>8. CASE Resume
  <2>1. frame'["handler"].label = "rest"
    BY <1>1, <1>8 DEF Resume, Enter, PlaceInv, Contexts
  <2> QED
    BY <2>1, QuietEcho
<1> QED
  BY <1>1, <1>2, <1>3, <1>4, <1>5, <1>6, <1>7, <1>8, ReadKeepsEcho
     DEF KernelNext, Statement, Take, Return, Contexts

LEMMA EchoInvariance == KernelSpec => [](BootInv /\ RangeInv /\ EchoInv)
<1>1. KernelInit => EchoInv
  <2> SUFFICES ASSUME KernelInit PROVE EchoInv
    OBVIOUS
  <2>1. frame["handler"].label = "rest"
    BY DEF KernelInit, Contexts, AtRest, Frame
  <2> QED
    BY <2>1 DEF EchoInv, Echoing, EchoIsTerminal
<1>2. EchoInv /\ BootInv /\ RangeInv /\ [KernelNext]_kernelVars => EchoInv'
  BY NextKeepsEcho
<1> QED
  BY <1>1, <1>2, RangeInvariance, PTL DEF KernelSpec

(* However a key comes in between two steps of the boot, its echo is what  *)
(* a terminal would show.                                                  *)
THEOREM KeysAreEchoed == KernelSpec => []EchoIsTerminal
<1>1. EchoInv => EchoIsTerminal
  BY DEF EchoInv
<1> QED
  BY <1>1, EchoInvariance, PTL

-----------------------------------------------------------------------------
(* The text that kmain writes to the screen in tutorial 8.                 *)

(* The characters are those of a write, and set_cursor has its argument.   *)
MainInv ==
  LET f == frame["main"] IN
  /\ f.label \in {"character", "scroll"} => Boot[pc].op = "write"
  /\ f.label = "port" /\ Boot[pc].op = "set_cursor" => f.address = Boot[pc].arg

LEMMA SameMain ==
  ASSUME MainInv, UNCHANGED <<version, pc>>, frame'["main"] = frame["main"]
  PROVE  MainInv'
BY DEF MainInv, Boot

LEMMA QuietMain ==
  ASSUME frame'["main"].label \in {"rest", "idle"}
  PROVE  MainInv'
BY DEF MainInv

(* A step of write, or its call: the text is that of the statement.        *)
LEMMA WritingMain ==
  ASSUME UNCHANGED <<version, pc>>, Boot[pc].op = "write"
  PROVE  MainInv'
<1>1. Boot' = Boot /\ pc' = pc
  BY DEF Boot
<1>2. Boot'[pc'].op = "write" /\ Boot'[pc'].op # "set_cursor"
  BY <1>1
<1> QED
  BY <1>2 DEF MainInv

LEMMA CallStepKeepsMain ==
  ASSUME PlaceInv, RangeInv, MainInv, CallStep("main")
  PROVE  MainInv'
<1> DEFINE f == frame["main"]
<1>1. CASE WriteGlyph("main") \/ MoveOver("main") \/ WriteBlank("main") \/ ScrollCell("main")
  <2>1. f.label \in {"character", "scroll"} /\ UNCHANGED <<version, pc>>
    BY <1>1 DEF WriteGlyph, MoveOver, WriteBlank, ScrollCell, boot
  <2>2. Boot[pc].op = "write"
    BY <2>1 DEF MainInv
  <2> QED
    BY <2>1, <2>2, WritingMain
<1>2. CASE OutPort("main")
  <2> DEFINE g == [f EXCEPT !.count = f.count + 1]
  <2>1. f.label = "port" /\ Enter("main", g) /\ UNCHANGED <<version, pc>>
    BY <1>2 DEF OutPort, boot
  <2>2. f \in [label : Labels, text : Seq(Chars), address : Nat, count : Nat]
    BY DEF RangeInv, FramesInv, Fine, Contexts
  <2>3. g.label = "port" /\ g.address = f.address
    BY <2>1, <2>2
  <2> HIDE DEF g
  <2>4. frame'["main"] = g
    BY <2>1 DEF Enter, PlaceInv, Contexts
  <2>5. Boot' = Boot /\ pc' = pc
    BY <2>1 DEF Boot
  <2> QED
    BY <2>1, <2>3, <2>4, <2>5 DEF MainInv
<1>3. CASE StorePosition("main")
  <2>1. frame'["main"].label = "rest"
    BY <1>3 DEF StorePosition, Enter, PlaceInv, Contexts, AtRest, Frame
  <2> QED
    BY <2>1, QuietMain
<1> QED
  BY <1>1, <1>2, <1>3 DEF CallStep

LEMMA NextKeepsMain ==
  ASSUME BootInv, RangeInv, MainInv, [KernelNext]_kernelVars
  PROVE  MainInv'
<1>1. PlaceInv /\ AtRest.label = "rest"
  BY DEF BootInv, AtRest, Frame
<1>2. CASE LoadGdt \/ HandlerFields \/ HandlerHigh \/ IdtInit \/ EnableKeyboard \/ BlankCells
  <2>1. frame'["main"].label = "rest"
    BY <1>1, <1>2 DEF LoadGdt, HandlerFields, HandlerHigh, IdtInit, EnableKeyboard, BlankCells,
                      NextStatement, At
  <2> QED
    BY <2>1, QuietMain
<1>3. CASE CallSetCursor
  <2>1. /\ frame'["main"] = SettingCursor(Boot[pc].arg, 0) /\ UNCHANGED <<version, pc>>
    BY <1>1, <1>3 DEF CallSetCursor, Enter, PlaceInv, Contexts, boot
  <2>2. frame'["main"].label = "port" /\ frame'["main"].address = Boot[pc].arg
    BY <2>1 DEF SettingCursor, Frame
  <2>3. Boot' = Boot /\ pc' = pc
    BY <2>1 DEF Boot
  <2> QED
    BY <2>2, <2>3 DEF MainInv
<1>4. CASE CallWrite
  BY <1>4, WritingMain DEF CallWrite, At, boot
<1>5. CASE Idle
  <2>1. frame'["main"].label = "idle"
    BY <1>1, <1>5 DEF Idle, Enter, PlaceInv, Contexts, Frame
  <2> QED
    BY <2>1, QuietMain
<1>6. CASE CallStep("handler")
  <2>1. PICK f : Enter("handler", f) /\ UNCHANGED <<version, pc>>
    BY <1>6 DEF CallStep, WriteGlyph, MoveOver, WriteBlank, ScrollCell, OutPort, StorePosition,
                boot
  <2>2. frame'["main"] = frame["main"]
    BY <1>1, <2>1 DEF Enter, PlaceInv, Contexts
  <2> QED
    BY <2>1, <2>2, SameMain
<1>7. CASE Interrupt \/ ReadKey \/ Resume
  <2>1. PICK f : Enter("handler", f) /\ UNCHANGED <<version, pc>>
    BY <1>7 DEF Interrupt, ReadKey, Resume, boot
  <2>2. frame'["main"] = frame["main"]
    BY <1>1, <2>1 DEF Enter, PlaceInv, Contexts
  <2> QED
    BY <2>1, <2>2, SameMain
<1>8. CASE Press \/ InterruptUnhandled \/ InterruptAstray \/ ResumeCorrupted
           \/ UNCHANGED kernelVars
  <2>1. UNCHANGED <<version, pc, frame>>
    BY <1>8 DEF Press, InterruptUnhandled, InterruptAstray, ResumeCorrupted, kernelVars, boot
  <2> QED
    BY <2>1, SameMain
<1> QED
  BY <1>1, <1>2, <1>3, <1>4, <1>5, <1>6, <1>7, <1>8, CallStepKeepsMain
     DEF KernelNext, Statement, Take, Return, Contexts

-----------------------------------------------------------------------------
(* The greeting, as far as it is written.                                  *)

GreetingWritten == mem[GREETING_AT] = Greeting[1] /\ mem[GREETING_AT + 1] = Greeting[2]

WritingGreeting(f) ==
  /\ f.label = "rest" => cursor_position = GREETING_AT
  /\ f.label = "character" =>
       \/ f.text = Greeting /\ f.address = GREETING_AT
       \/ /\ f.text = Tail(Greeting) /\ f.address = GREETING_AT + 1
          /\ mem[GREETING_AT] = Greeting[1]
  /\ f.label # "scroll"
  /\ f.label = "port" => f.address = GREETING_AT + 2 /\ GreetingWritten

GreetingInv ==
  version = 8 /\ ~echoed =>
    /\ pc = ROWS + 9 /\ ~Echoing => WritingGreeting(frame["main"])
    /\ pc = ROWS + 10 => cursor_position = GREETING_AT + 2 /\ GreetingWritten

LEMMA SameGreeting ==
  ASSUME GreetingInv, UNCHANGED <<version, pc, mem, cursor_position, echoed>>,
         frame'["main"] = frame["main"], Echoing => Echoing'
  PROVE  GreetingInv'
BY DEF GreetingInv, WritingGreeting, GreetingWritten

LEMMA EarlyGreeting ==
  ASSUME version' = 8 => pc' # ROWS + 9 /\ pc' # ROWS + 10
  PROVE  GreetingInv'
BY DEF GreetingInv

(* Where the letters are.                                                  *)
LEMMA GreetingPlaces ==
  /\ GREETING_AT \in Cells /\ GREETING_AT + 1 \in Cells /\ Cells \subseteq Memory
  /\ GREETING_AT + 2 < CELLS /\ GREETING_AT \in Nat
<1>1. /\ GREETING_AT \in Nat /\ GREETING_AT + 2 + COLS < CELLS /\ COLS \in Nat /\ CELLS \in Nat
      /\ MaxKeys * COLS \in Nat
  BY GreetingFacts, ScreenFacts
<1> QED
  BY <1>1 DEF Cells, Memory

(* A key typed behind the greeting is written behind it.                   *)
LEMMA HandlerLeavesGreeting ==
  ASSUME BootInv, RangeInv, EchoInv, version = 8, cursor_position = GREETING_AT + 2,
         GreetingWritten,
         \/ WriteGlyph("handler") \/ MoveOver("handler") \/ WriteBlank("handler")
         \/ ScrollCell("handler") \/ OutPort("handler")
  PROVE  GreetingWritten'
<1> DEFINE f == frame["handler"]
<1>1. PlaceInv
  BY DEF BootInv
<1>2. CASE MoveOver("handler") \/ OutPort("handler")
  BY <1>2 DEF MoveOver, OutPort, display, GreetingWritten
<1>3. CASE WriteGlyph("handler") \/ WriteBlank("handler")
  <2>1. PICK x : WriteChar(f.address, x)
    BY <1>3 DEF WriteGlyph, WriteBlank
  <2>2. f.label = "character"
    BY <1>3 DEF WriteGlyph, WriteBlank
  <2>3. /\ cursor_position = before.cursor /\ f.address \in Nat /\ before.cursor <= f.address
        /\ mem \in [Memory -> {"old", Blank} \cup Glyphs]
    BY <1>1, <2>2, CharacterFacts DEF CharacterInv
  <2>4. f.address # GREETING_AT /\ f.address # GREETING_AT + 1
    BY <2>3, GreetingPlaces
  <2> QED
    BY <2>1, <2>3, <2>4, GreetingPlaces DEF WriteChar, GreetingWritten
<1>4. CASE ScrollCell("handler")
  <2>1. f.label = "scroll"
    BY <1>4 DEF ScrollCell
  <2>2. CallInv /\ cursor_position = before.cursor /\ f.address = KeyTarget
    BY <2>1 DEF EchoInv, Echoing, ScrollInv
  <2>3. KeyTarget \in Nat /\ KeyTarget <= before.cursor + COLS
    BY <2>2, TargetFacts
  <2>4. Fine(Consumed, f)
    BY DEF RangeInv, FramesInv, Contexts
  <2>5. f.address >= CELLS
    BY <2>1, <2>4, ScreenFacts DEF Fine
  <2> QED
    BY <2>2, <2>3, <2>5, GreetingFacts, ScreenFacts
<1> QED
  BY <1>2, <1>3, <1>4

LEMMA HandlerKeepsGreeting ==
  ASSUME BootInv, RangeInv, EchoInv, GreetingInv, CallStep("handler")
  PROVE  GreetingInv'
<1>1. PlaceInv
  BY DEF BootInv
<1>2. CASE StorePosition("handler")
  <2>1. echoed' = TRUE
    BY <1>2 DEF StorePosition
  <2> QED
    BY <2>1 DEF GreetingInv
<1>3. CASE \/ WriteGlyph("handler") \/ MoveOver("handler") \/ WriteBlank("handler")
           \/ ScrollCell("handler") \/ OutPort("handler")
  <2>1. UNCHANGED <<version, pc, echoed, cursor_position>>
    BY <1>3 DEF WriteGlyph, MoveOver, WriteBlank, ScrollCell, OutPort, boot, history, display
  <2>2. frame'["handler"].label \in {"character", "scroll", "port"}
    <3>1. CASE WriteGlyph("handler")
      BY <1>1, <3>1, AfterPlace DEF WriteGlyph, Enter, PlaceInv, Contexts
    <3>2. CASE MoveOver("handler")
      BY <1>1, <3>2, AfterPlace DEF MoveOver, Enter, PlaceInv, Contexts
    <3>3. CASE WriteBlank("handler")
      <4> DEFINE f == frame["handler"]
                 done == After(Tail(f.text), f.address + 1)
                 more == [f EXCEPT !.address = f.address + 1, !.count = f.count + 1]
      <4>1. Enter("handler", IF BlanksDone(f) THEN done ELSE more) /\ f.label = "character"
        BY <3>3 DEF WriteBlank
      <4>2. done.label \in {"character", "scroll", "port"}
        BY AfterPlace
      <4>3. more.label = f.label
        OBVIOUS
      <4> HIDE DEF done, more
      <4> QED
        BY <1>1, <4>1, <4>2, <4>3 DEF Enter, PlaceInv, Contexts
    <3>4. CASE ScrollCell("handler")
      <4> DEFINE f == frame["handler"]
                 done == After(f.text, f.address - COLS)
                 more == [f EXCEPT !.count = f.count + 1]
      <4>1. Enter("handler", IF f.count = CELLS - 1 THEN done ELSE more) /\ f.label = "scroll"
        BY <3>4 DEF ScrollCell
      <4>2. done.label \in {"character", "scroll", "port"}
        BY AfterPlace
      <4>3. more.label = f.label
        OBVIOUS
      <4> HIDE DEF done, more
      <4> QED
        BY <1>1, <4>1, <4>2, <4>3 DEF Enter, PlaceInv, Contexts
    <3>5. CASE OutPort("handler")
      BY <1>1, <3>5 DEF OutPort, Enter, PlaceInv, Contexts
    <3> QED
      BY <1>3, <3>1, <3>2, <3>3, <3>4, <3>5
  <2>3. Echoing'
    BY <2>2 DEF Echoing
  <2>4. ASSUME version = 8, ~echoed, pc = ROWS + 10
        PROVE  cursor_position = GREETING_AT + 2 /\ GreetingWritten'
    <3>1. cursor_position = GREETING_AT + 2 /\ GreetingWritten
      BY <2>4 DEF GreetingInv
    <3> QED
      BY <1>3, <2>4, <3>1, HandlerLeavesGreeting
  <2> QED
    BY <2>1, <2>3, <2>4 DEF GreetingInv
<1> QED
  BY <1>2, <1>3 DEF CallStep

(* kmain writes a letter.                                                  *)
LEMMA GlyphKeepsGreeting ==
  ASSUME BootInv, RangeInv, GreetingInv, WriteGlyph("main"), version = 8, pc = ROWS + 9
  PROVE  GreetingInv'
<1> DEFINE f == frame["main"]
<1>1. /\ f.label = "character" /\ WriteChar(f.address, Head(f.text)) /\ Runs("main")
      /\ Enter("main", After(Tail(f.text), f.address + 1))
      /\ UNCHANGED <<version, pc, echoed, cursor_position>>
  BY DEF WriteGlyph, boot, history
<1>2. PlaceInv /\ ROWS \in Nat /\ mem \in [Memory -> {"old", Blank} \cup Glyphs]
  BY ScreenFacts DEF BootInv, RangeInv, DisplayInv
<1>3. ~Echoing
  BY <1>1, <1>2, RunsAlone DEF Echoing
<1>4. SUFFICES ASSUME ~echoed
               PROVE  WritingGreeting(frame["main"])'
  <2>1. echoed' = echoed /\ pc' = ROWS + 9 /\ ROWS + 9 # ROWS + 10
    BY <1>1, <1>2
  <2> QED
    BY <2>1 DEF GreetingInv
<1>5. WritingGreeting(f)
  BY <1>3, <1>4 DEF GreetingInv
<1>6. frame'["main"] = After(Tail(f.text), f.address + 1)
  BY <1>1, <1>2 DEF Enter, PlaceInv, Contexts
<1>7. /\ GREETING_AT \in Cells /\ GREETING_AT + 1 \in Cells /\ Cells \subseteq Memory
      /\ GREETING_AT + 2 < CELLS /\ GREETING_AT \in Nat /\ CELLS \in Nat
      /\ GREETING_AT + 1 <= CELLS /\ GREETING_AT <= CELLS
  BY GreetingPlaces, ScreenFacts
<1>8. /\ Head(Greeting) = Greeting[1] /\ Tail(Greeting) = <<"w">> /\ Greeting[2] = "w"
      /\ Head(<<"w">>) = "w" /\ Tail(<<"w">>) = <<>> /\ <<"w">> # <<>>
  <2>1. <<"w">> \in Seq({"w"}) /\ Len(<<"w">>) = 1 /\ Head(<<"w">>) = "w" /\ <<"w">> # <<>>
    OBVIOUS
  <2>2. Tail(<<"w">>) = <<>>
    BY <2>1, TailOfOne
  <2> QED
    BY <2>1, <2>2, GreetingFacts
<1>9. CASE f.text = Greeting /\ f.address = GREETING_AT
  <2>1. mem'[GREETING_AT] = Greeting[1]
    BY <1>1, <1>2, <1>7, <1>8, <1>9 DEF WriteChar, InScreen
  <2>2. After(Tail(f.text), f.address + 1) = Frame("character", Tail(Greeting), GREETING_AT + 1, 0)
    <3>1. /\ Tail(f.text) = Tail(Greeting) /\ f.address + 1 = GREETING_AT + 1
          /\ ~(GREETING_AT + 1 >= CELLS) /\ Tail(Greeting) # <<>>
      BY <1>7, <1>8, <1>9
    <3> QED
      BY <3>1 DEF After
  <2>3. /\ frame'["main"].label = "character" /\ frame'["main"].text = Tail(Greeting)
        /\ frame'["main"].address = GREETING_AT + 1
    BY <1>6, <2>2 DEF Frame
  <2> QED
    BY <2>1, <2>3 DEF WritingGreeting
<1>10. CASE /\ f.text = Tail(Greeting) /\ f.address = GREETING_AT + 1
            /\ mem[GREETING_AT] = Greeting[1]
  <2>1. mem'[GREETING_AT] = Greeting[1] /\ mem'[GREETING_AT + 1] = Greeting[2]
    <3>1. Head(f.text) = Greeting[2]
      BY <1>8, <1>10
    <3>2. mem' = [mem EXCEPT ![GREETING_AT + 1] = Greeting[2]]
      BY <1>1, <1>7, <1>10, <3>1 DEF WriteChar, InScreen
    <3>3. GREETING_AT + 1 \in Memory /\ GREETING_AT \in Memory /\ GREETING_AT # GREETING_AT + 1
      BY <1>7
    <3> QED
      BY <1>2, <1>10, <3>2, <3>3
  <2>2. f.address + 1 = GREETING_AT + 2
    BY <1>7, <1>10
  <2>3. After(Tail(f.text), f.address + 1) = Frame("port", <<>>, GREETING_AT + 2, 0)
    BY <1>7, <1>8, <1>10, <2>2 DEF After, SettingCursor
  <2>4. frame'["main"].label = "port" /\ frame'["main"].address = GREETING_AT + 2
    BY <1>6, <2>3 DEF Frame
  <2> QED
    BY <2>1, <2>4 DEF WritingGreeting, GreetingWritten
<1> QED
  BY <1>1, <1>5, <1>9, <1>10 DEF WritingGreeting

(* The last statements of set_cursor in kmain.                             *)
LEMMA StoreKeepsGreeting ==
  ASSUME BootInv, GreetingInv, MainInv, StorePosition("main"), version = 8
  PROVE  GreetingInv'
<1> DEFINE f == frame["main"]
<1>1. /\ f.label = "port" /\ cursor_position' = f.address /\ pc' = pc + 1 /\ Runs("main")
      /\ frame' = [frame EXCEPT !["main"] = AtRest]
      /\ UNCHANGED <<version, mem, echoed>>
  BY DEF StorePosition, Enter
<1>2. PlaceInv /\ ROWS \in Nat /\ ROWS >= 1 /\ pc \in 1 .. Len(Boot) /\ version \in {7, 8}
  BY ScreenFacts DEF BootInv, PlaceInv
<1>3. Boot[pc].op \in {"set_cursor", "write"}
  BY <1>1, <1>2 DEF PlaceInv
<1>4. pc \in 6 .. ROWS + 9 /\ (pc = ROWS + 8 => Boot[pc].op = "set_cursor")
  BY <1>2, <1>3, StatementsOf8
<1>5. ~Echoing /\ frame'["main"].label = "rest"
  BY <1>1, <1>2, RunsAlone DEF Echoing, PlaceInv, Contexts, AtRest, Frame
<1>6. CASE pc = ROWS + 8
  <2>1. f.address = GREETING_AT
    BY <1>1, <1>2, <1>4, <1>6, BootArguments DEF MainInv
  <2>2. pc' = ROWS + 9 /\ ROWS + 9 # ROWS + 10
    BY <1>1, <1>2, <1>6
  <2> QED
    BY <1>1, <1>5, <2>1, <2>2 DEF GreetingInv, WritingGreeting
<1>7. CASE pc = ROWS + 9
  <2>1. pc' = ROWS + 10 /\ ROWS + 10 # ROWS + 9
    BY <1>1, <1>2, <1>7
  <2>2. ~echoed => f.address = GREETING_AT + 2 /\ GreetingWritten
    BY <1>1, <1>5, <1>7 DEF GreetingInv, WritingGreeting
  <2> QED
    BY <1>1, <2>1, <2>2 DEF GreetingInv, GreetingWritten
<1>8. CASE pc # ROWS + 8 /\ pc # ROWS + 9
  <2>1. pc' # ROWS + 9 /\ pc' # ROWS + 10
    BY <1>1, <1>2, <1>4, <1>8
  <2> QED
    BY <2>1, EarlyGreeting
<1> QED
  BY <1>6, <1>7, <1>8

LEMMA MainKeepsGreeting ==
  ASSUME BootInv, RangeInv, GreetingInv, MainInv, CallStep("main"), version = 8
  PROVE  GreetingInv'
<1> DEFINE f == frame["main"]
<1>1. PlaceInv /\ ROWS \in Nat /\ ROWS >= 1 /\ pc \in 1 .. Len(Boot) /\ version \in {7, 8}
  BY ScreenFacts DEF BootInv, PlaceInv
<1>2. Runs("main") /\ f.label \in {"character", "scroll", "port"}
  BY DEF CallStep, WriteGlyph, MoveOver, WriteBlank, ScrollCell, OutPort, StorePosition
<1>3. ~Echoing /\ Boot[pc].op \in {"set_cursor", "write"}
  BY <1>1, <1>2, RunsAlone DEF Echoing, PlaceInv
<1>4. pc # ROWS + 10
  BY <1>1, <1>3, StatementsOf8
<1>5. CASE StorePosition("main")
  BY <1>5, StoreKeepsGreeting
<1>6. CASE ~StorePosition("main") /\ pc # ROWS + 9
  <2>1. UNCHANGED <<version, pc>>
    BY <1>6 DEF CallStep, WriteGlyph, MoveOver, WriteBlank, ScrollCell, OutPort, boot
  <2> QED
    BY <1>4, <1>6, <2>1, EarlyGreeting
<1>7. CASE pc = ROWS + 9 /\ WriteGlyph("main")
  BY <1>7, GlyphKeepsGreeting
<1>8. CASE /\ pc = ROWS + 9 /\ ~echoed
           /\ MoveOver("main") \/ WriteBlank("main") \/ ScrollCell("main")
  <2>1. WritingGreeting(f)
    BY <1>3, <1>8 DEF GreetingInv
  <2>2. f.label = "character" /\ Head(f.text) \in {"newline", "tab"}
    BY <1>8, <2>1 DEF WritingGreeting, MoveOver, WriteBlank, ScrollCell
  <2>3. Head(Greeting) = "H" /\ Tail(Greeting) = <<"w">> /\ Head(<<"w">>) = "w"
    BY GreetingFacts
  <2> QED
    BY <2>1, <2>2, <2>3 DEF WritingGreeting
<1>9. CASE echoed /\ ~StorePosition("main")
  <2>1. echoed' = echoed
    BY <1>9 DEF CallStep, WriteGlyph, MoveOver, WriteBlank, ScrollCell, OutPort, history
  <2> QED
    BY <1>9, <2>1 DEF GreetingInv
<1>10. CASE pc = ROWS + 9 /\ ~echoed /\ OutPort("main")
  <2> DEFINE g == [f EXCEPT !.count = f.count + 1]
  <2>1. /\ f.label = "port" /\ Enter("main", g)
        /\ UNCHANGED <<version, pc, echoed, mem, cursor_position>>
    BY <1>10 DEF OutPort, boot
  <2>2. f \in [label : Labels, text : Seq(Chars), address : Nat, count : Nat]
    BY DEF RangeInv, FramesInv, Fine, Contexts
  <2>3. g.label = "port" /\ g.address = f.address
    BY <2>1, <2>2
  <2> HIDE DEF g
  <2>4. frame'["main"] = g
    BY <1>1, <2>1 DEF Enter, PlaceInv, Contexts
  <2>5. f.address = GREETING_AT + 2 /\ GreetingWritten
    BY <1>3, <1>10, <2>1 DEF GreetingInv, WritingGreeting
  <2>6. GreetingWritten'
    BY <2>1, <2>5 DEF GreetingWritten
  <2>7. WritingGreeting(frame["main"])'
    BY <2>3, <2>4, <2>5, <2>6 DEF WritingGreeting
  <2>8. pc' # ROWS + 10
    BY <1>4, <2>1
  <2> QED
    BY <2>7, <2>8 DEF GreetingInv
<1> QED
  BY <1>5, <1>6, <1>7, <1>8, <1>9, <1>10 DEF CallStep

LEMMA NextKeepsGreeting ==
  ASSUME BootInv, RangeInv, EchoInv, MainInv, GreetingInv, [KernelNext]_kernelVars
  PROVE  GreetingInv'
<1>1. PlaceInv /\ ROWS \in Nat /\ ROWS >= 1 /\ pc \in 1 .. Len(Boot) /\ version \in {7, 8}
  BY ScreenFacts DEF BootInv, PlaceInv
<1>2. CASE version # 8
  <2>1. version' = version
    BY DEF KernelNext, Statement, CallStep, Take, Return, LoadGdt, HandlerFields, HandlerHigh,
           IdtInit, EnableKeyboard, BlankCells, CallSetCursor, CallWrite, Idle, WriteGlyph,
           MoveOver, WriteBlank, ScrollCell, OutPort, StorePosition, Press, Interrupt,
           InterruptUnhandled, InterruptAstray, ReadKey, Resume, ResumeCorrupted, kernelVars
  <2> QED
    BY <1>2, <2>1 DEF GreetingInv
<1>3. CASE version = 8 /\ (LoadGdt \/ HandlerFields \/ HandlerHigh \/ IdtInit \/ EnableKeyboard
                             \/ BlankCells)
  <2>1. pc' = pc + 1 /\ pc \in 1 .. 5
    BY <1>1, <1>3, StatementsOf8
       DEF LoadGdt, HandlerFields, HandlerHigh, IdtInit, EnableKeyboard, BlankCells, At,
           NextStatement
  <2>2. pc' # ROWS + 9 /\ pc' # ROWS + 10
    BY <1>1, <2>1
  <2> QED
    BY <2>2, EarlyGreeting
<1>4. CASE version = 8 /\ CallSetCursor
  <2>1. pc' = pc /\ Boot[pc].op = "set_cursor"
    BY <1>4 DEF CallSetCursor, At, boot
  <2>2. pc = 6 \/ pc = ROWS + 7 \/ pc = ROWS + 8
    BY <1>1, <1>4, <2>1, StatementsOf8
  <2>3. pc' # ROWS + 9 /\ pc' # ROWS + 10
    BY <1>1, <2>1, <2>2
  <2> QED
    BY <2>3, EarlyGreeting
<1>5. CASE version = 8 /\ CallWrite
  <2>1. /\ Boot[pc].op = "write" /\ frame["main"] = AtRest /\ Runs("main")
        /\ Enter("main", Started(Boot[pc].arg))
        /\ UNCHANGED <<version, pc, echoed, mem, cursor_position>>
    BY <1>5 DEF CallWrite, At, boot, display, history
  <2>2. pc # ROWS + 10
    BY <1>1, <1>5, <2>1, StatementsOf8
  <2>3. CASE pc # ROWS + 9
    BY <2>1, <2>2, <2>3, EarlyGreeting
  <2>4. CASE pc = ROWS + 9
    <3>1. Boot[pc].arg = Greeting
      BY <1>1, <2>1, <2>4, BootArguments
    <3>2. ~Echoing /\ AtRest.label = "rest"
      BY <1>1, <2>1, RunsAlone DEF Echoing, AtRest, Frame
    <3>3. ~echoed => cursor_position = GREETING_AT
      BY <1>5, <2>1, <2>4, <3>2 DEF GreetingInv, WritingGreeting
    <3>4. frame'["main"] = Frame("character", Greeting, cursor_position, 0)
      BY <1>1, <2>1, <3>1 DEF Enter, PlaceInv, Contexts, Started
    <3>5. /\ frame'["main"].label = "character" /\ frame'["main"].text = Greeting
          /\ frame'["main"].address = cursor_position
      BY <3>4 DEF Frame
    <3>6. ~echoed => WritingGreeting(frame["main"])'
      BY <3>3, <3>5 DEF WritingGreeting
    <3> QED
      BY <2>1, <2>2, <3>6 DEF GreetingInv
  <2> QED
    BY <2>3, <2>4
<1>6. CASE version = 8 /\ Idle
  <2>1. /\ Boot[pc].op \in {"call_module", "loop"}
        /\ UNCHANGED <<version, pc, echoed, mem, cursor_position>>
    BY <1>6 DEF Idle, At, boot, display, history
  <2>2. pc = ROWS + 10 /\ ROWS + 10 # ROWS + 9
    BY <1>1, <1>6, <2>1, StatementsOf8
  <2> QED
    BY <2>1, <2>2 DEF GreetingInv, GreetingWritten
<1>7. CASE Interrupt \/ ReadKey \/ Resume
  <2>1. PICK f : /\ Enter("handler", f)
                 /\ UNCHANGED <<version, pc, mem, cursor_position, echoed>>
    BY <1>7 DEF Interrupt, ReadKey, Resume, boot, display, history
  <2>2. frame'["main"] = frame["main"]
    BY <1>1, <2>1 DEF Enter, PlaceInv, Contexts
  <2>3. ~Echoing
    <3>1. Interrupt => frame["handler"] = AtRest
      BY DEF Interrupt, Pending, Handling
    <3> QED
      BY <1>7, <3>1 DEF ReadKey, Resume, Echoing, AtRest, Frame
  <2> QED
    BY <2>1, <2>2, <2>3, SameGreeting
<1>8. CASE Press \/ InterruptUnhandled \/ InterruptAstray \/ ResumeCorrupted
           \/ UNCHANGED kernelVars
  <2>1. UNCHANGED <<version, pc, mem, cursor_position, echoed, frame>>
    BY <1>8 DEF Press, InterruptUnhandled, InterruptAstray, ResumeCorrupted, kernelVars, boot,
                display, history
  <2>2. Echoing => Echoing'
    BY <2>1 DEF Echoing
  <2> QED
    BY <2>1, <2>2, SameGreeting
<1> QED
  BY <1>1, <1>2, <1>3, <1>4, <1>5, <1>6, <1>7, <1>8, HandlerKeepsGreeting, MainKeepsGreeting
     DEF KernelNext, Statement, Take, Return, Contexts

-----------------------------------------------------------------------------
(* The blanks of clear_screen, when no key is read.                        *)

Row(p) == (p - 7) * COLS
Cleared(n) == \A a \in Cells : a < n => mem[a] = Blank
OthersBlank ==
  \A a \in Cells : a # GREETING_AT /\ a # GREETING_AT + 1 => mem[a] = Blank

ClearingRow(f) ==
  /\ f.label = "rest" => cursor_position = Row(pc) /\ Cleared(Row(pc))
  /\ f.label = "character" =>
       /\ f.text = <<"newline">> /\ f.address \in Nat
       /\ Row(pc) <= f.address /\ f.address < Row(pc) + COLS
       /\ Cleared(f.address)
  /\ f.label = "scroll" =>
       f.text = <<>> /\ f.address = CELLS /\ pc = ROWS + 6 /\ Cleared(CELLS)
  /\ f.label = "port" =>
       /\ f.address = IF pc = ROWS + 6 THEN CELLS - COLS ELSE Row(pc) + COLS
       /\ Cleared(Row(pc) + COLS)

ClearedInv ==
  version = 8 /\ Consumed = 0 =>
    /\ frame["handler"].label \in {"rest", "entered"} /\ ~echoed
    /\ pc \in 7 .. ROWS + 6 => ClearingRow(frame["main"])
    /\ pc = ROWS + 7 \/ pc = ROWS + 8 => Cleared(CELLS)
    /\ pc = ROWS + 9 \/ pc = ROWS + 10 => OthersBlank

LEMMA RowFacts ==
  ASSUME NEW p \in 7 .. ROWS + 6
  PROVE  /\ Row(p) \in Nat /\ Row(p) + COLS <= CELLS /\ Row(p + 1) = Row(p) + COLS
         /\ p # ROWS + 6 => Row(p) + COLS < CELLS
         /\ p = ROWS + 6 => Row(p) + COLS = CELLS
<1> DEFINE k == p - 7
           d == ROWS - 1 - k
<1>1. COLS \in Nat \ {0} /\ ROWS \in Nat \ {0} /\ CELLS = COLS * ROWS /\ CELLS \in Nat
  BY ScreenFacts
<1>2. k \in Nat /\ d \in Nat /\ ROWS = k + 1 + d /\ p + 1 - 7 = k + 1 /\ (d = 0 <=> p = ROWS + 6)
  BY <1>1
<1>3. Row(p) = k * COLS /\ Row(p + 1) = (k + 1) * COLS
  BY <1>2 DEF Row
<1> HIDE DEF k, d
<1>4. /\ k * COLS \in Nat /\ (k + 1) * COLS = k * COLS + COLS
      /\ CELLS = k * COLS + COLS + d * COLS /\ d * COLS \in Nat
      /\ (d # 0 => d * COLS >= 1) /\ (d = 0 => d * COLS = 0)
  BY <1>1, <1>2
<1> QED
  BY <1>1, <1>2, <1>3, <1>4

(* The newline of clear_screen ends with its row.                          *)
LEMMA RowEnds ==
  ASSUME NEW p \in 7 .. ROWS + 6, NEW a \in Nat, Row(p) <= a, a < Row(p) + COLS
  PROVE  (a + 1) % COLS = 0 <=> a + 1 = Row(p) + COLS
<1> DEFINE k == p - 7
<1>1. COLS \in Nat \ {0} /\ k \in Nat /\ 0 \in 0 .. COLS - 1 /\ Row(p) \in Nat
  BY ScreenFacts, RowFacts
<1>2. Row(p) = COLS * k + 0 /\ (k + 1) * COLS = Row(p) + COLS
  BY <1>1 DEF Row
<1> HIDE DEF k
<1>3. Row(p) \div COLS = k
  BY <1>1, <1>2, DivisionUnique
<1>4. a < (Row(p) \div COLS + 1) * COLS
  BY <1>2, <1>3
<1>5. (a + 1) % COLS = 0 <=> a + 1 = (Row(p) \div COLS + 1) * COLS
  BY <1>1, <1>4, NewlineEnds
<1> QED
  BY <1>2, <1>3, <1>5

LEMMA SameCleared ==
  ASSUME ClearedInv, UNCHANGED <<version, pc, mem, cursor_position, echoed, Consumed>>,
         frame'["main"] = frame["main"],
         frame["handler"].label \in {"rest", "entered"}
           => frame'["handler"].label \in {"rest", "entered"}
  PROVE  ClearedInv'
<1>1. \A n : Cleared(n)' <=> Cleared(n)
  BY DEF Cleared
<1>2. ClearingRow(frame["main"])' <=> ClearingRow(frame["main"])
  BY <1>1 DEF ClearingRow
<1>3. OthersBlank' <=> OthersBlank
  BY DEF OthersBlank
<1> QED
  BY <1>1, <1>2, <1>3 DEF ClearedInv

LEMMA EarlyCleared ==
  ASSUME version = 8 /\ Consumed' = 0
           => /\ frame'["handler"].label \in {"rest", "entered"} /\ ~echoed'
              /\ pc' <= 6,
         version' = version, pc' \in Nat
  PROVE  ClearedInv'
<1>1. ROWS \in Nat /\ ROWS >= 1
  BY ScreenFacts
<1> QED
  BY <1>1 DEF ClearedInv

(* While no key is read kmain works alone.                                 *)
LEMMA AloneKeepsCleared ==
  ASSUME PlaceInv, ClearedInv, version = 8, Consumed = 0, NEW f, Enter("main", f),
         UNCHANGED <<version, keys>>, ~echoed'
  PROVE  /\ frame'["main"] = f /\ Consumed' = 0
         /\ frame'["handler"].label \in {"rest", "entered"} /\ ~echoed'
<1>1. frame'["main"] = f /\ frame'["handler"] = frame["handler"]
  BY DEF Enter, PlaceInv, Contexts
<1> QED
  BY <1>1 DEF ClearedInv, Consumed, keys

LEMMA BlankKeepsCleared ==
  ASSUME BootInv, RangeInv, ClearedInv, WriteBlank("main"), version = 8, Consumed = 0,
         pc \in 7 .. ROWS + 6
  PROVE  ClearedInv'
<1> DEFINE f == frame["main"]
           done == After(Tail(f.text), f.address + 1)
           more == [f EXCEPT !.address = f.address + 1, !.count = f.count + 1]
           g == IF BlanksDone(f) THEN done ELSE more
           top == Row(pc) + COLS
<1>1. /\ f.label = "character" /\ WriteChar(f.address, Blank) /\ Enter("main", g)
      /\ UNCHANGED <<version, pc, echoed, keys>>
  BY DEF WriteBlank, boot, history
<1>2. PlaceInv /\ mem \in [Memory -> {"old", Blank} \cup Glyphs] /\ ROWS \in Nat /\ ROWS >= 1
  BY ScreenFacts DEF BootInv, RangeInv, DisplayInv
<1>3. /\ f.text = <<"newline">> /\ f.address \in Nat /\ Row(pc) <= f.address
      /\ f.address < top /\ Cleared(f.address) /\ ~echoed
  BY <1>1 DEF ClearedInv, ClearingRow
<1>4. /\ Row(pc) \in Nat /\ top <= CELLS /\ CELLS \in Nat /\ COLS \in Nat
      /\ pc # ROWS + 6 => top < CELLS
      /\ pc = ROWS + 6 => top = CELLS
  BY RowFacts, ScreenFacts
<1>5. f \in [label : Labels, text : Seq(Chars), address : Nat, count : Nat]
  BY DEF RangeInv, FramesInv, Fine, Contexts
<1>6. BlanksDone(f) <=> f.address + 1 = top
  <2>1. Head(f.text) = "newline"
    BY <1>3
  <2>2. (f.address + 1) % COLS = 0 <=> f.address + 1 = top
    BY <1>3, RowEnds
  <2> QED
    BY <2>1, <2>2 DEF BlanksDone
<1>7. Cells \subseteq Memory /\ Cells \subseteq Nat
  BY GreetingPlaces, ScreenFacts DEF Cells
<1>8. ASSUME NEW a \in Cells, a < f.address + 1 PROVE mem'[a] = Blank
  <2>1. f.address <= CELLS
    BY <1>3, <1>4
  <2>2. mem' = [mem EXCEPT ![f.address] = Blank]
    BY <1>1, <2>1 DEF WriteChar, InScreen
  <2>3. a = f.address \/ a < f.address
    BY <1>3, <1>7, <1>8
  <2> QED
    BY <1>2, <1>3, <1>7, <2>2, <2>3 DEF Cleared
<1>9. /\ frame'["main"] = g /\ Consumed' = 0
      /\ frame'["handler"].label \in {"rest", "entered"} /\ ~echoed'
  <2> HIDE DEF g
  <2> QED
    BY <1>1, <1>2, <1>3, AloneKeepsCleared
<1>10. ClearingRow(frame["main"])'
  <2>1. CASE ~BlanksDone(f)
    <3> DEFINE h == [f EXCEPT !.address = f.address + 1]
    <3>1. /\ h \in [label : Labels, text : Seq(Chars), address : Nat, count : Nat]
          /\ h.label = f.label /\ h.text = f.text /\ h.address = f.address + 1
      BY <1>3, <1>5
    <3>2. more = [h EXCEPT !.count = f.count + 1]
      OBVIOUS
    <3>3. g = more
      BY <2>1
    <3> HIDE DEF more, h, g
    <3>4. frame'["main"] = more
      BY <1>9, <3>3
    <3>5. /\ more.label = "character" /\ more.text = <<"newline">>
          /\ more.address = f.address + 1
      BY <1>1, <1>3, <3>1, <3>2
    <3>6. f.address + 1 < top
      BY <1>3, <1>4, <1>6, <2>1
    <3>7. Row(pc) <= f.address + 1 /\ f.address + 1 \in Nat
      BY <1>3, <1>4
    <3>8. Cleared(frame["main"].address)'
      BY <1>8, <3>4, <3>5 DEF Cleared
    <3> QED
      BY <1>1, <3>4, <3>5, <3>6, <3>7, <3>8 DEF ClearingRow, Row
  <2>2. CASE BlanksDone(f) /\ pc = ROWS + 6
    <3>1. Tail(f.text) = <<>>
      BY <1>3, <1>5, TailOfOne
    <3>2. f.address + 1 = CELLS /\ CELLS >= CELLS
      BY <1>4, <1>6, <2>2
    <3>3. g = Frame("scroll", <<>>, CELLS, 0)
      BY <2>2, <3>1, <3>2 DEF After
    <3> HIDE DEF g
    <3>4. /\ frame'["main"].label = "scroll" /\ frame'["main"].text = <<>>
          /\ frame'["main"].address = CELLS
      BY <1>9, <3>3 DEF Frame
    <3>5. Cleared(CELLS)'
      BY <1>8, <3>2 DEF Cleared
    <3> QED
      BY <1>1, <2>2, <3>4, <3>5 DEF ClearingRow
  <2>3. CASE BlanksDone(f) /\ pc # ROWS + 6
    <3>1. Tail(f.text) = <<>>
      BY <1>3, <1>5, TailOfOne
    <3>2. f.address + 1 = top /\ ~(top >= CELLS)
      BY <1>4, <1>6, <2>3
    <3>3. g = Frame("port", <<>>, top, 0)
      BY <2>3, <3>1, <3>2 DEF After, SettingCursor
    <3> HIDE DEF g
    <3>4. frame'["main"].label = "port" /\ frame'["main"].address = top
      BY <1>9, <3>3 DEF Frame
    <3>5. ASSUME NEW a \in Cells, a < top PROVE mem'[a] = Blank
      BY <1>8, <3>2, <3>5
    <3>6. Cleared(Row(pc) + COLS)'
      BY <1>1, <3>5 DEF Cleared, Row
    <3> QED
      BY <1>1, <2>3, <3>4, <3>6 DEF ClearingRow, Row
  <2> QED
    BY <2>1, <2>2, <2>3
<1>11. pc' # ROWS + 7 /\ pc' # ROWS + 8 /\ pc' # ROWS + 9 /\ pc' # ROWS + 10
  BY <1>1, <1>2
<1> QED
  BY <1>9, <1>10, <1>11 DEF ClearedInv

(* The screen scrolls when it is blank.                                    *)
LEMMA ScrollKeepsCleared ==
  ASSUME BootInv, RangeInv, ClearedInv, ScrollCell("main"), version = 8, Consumed = 0,
         pc \in 7 .. ROWS + 6
  PROVE  ClearedInv'
<1> DEFINE f == frame["main"]
           done == After(f.text, f.address - COLS)
           more == [f EXCEPT !.count = f.count + 1]
           g == IF f.count = CELLS - 1 THEN done ELSE more
<1>1. /\ f.label = "scroll" /\ Enter("main", g)
      /\ mem' = [mem EXCEPT ![f.count] = Scrolled(f.count)]
      /\ UNCHANGED <<version, pc, echoed, keys>>
  BY DEF ScrollCell, boot, history
<1>2. PlaceInv /\ mem \in [Memory -> {"old", Blank} \cup Glyphs] /\ ROWS \in Nat /\ ROWS >= 1
  BY ScreenFacts DEF BootInv, RangeInv, DisplayInv
<1>3. /\ f.text = <<>> /\ f.address = CELLS /\ pc = ROWS + 6 /\ Cleared(CELLS) /\ ~echoed
  BY <1>1 DEF ClearedInv, ClearingRow
<1>4. /\ COLS \in Nat \ {0} /\ CELLS \in Nat /\ COLS <= CELLS /\ Row(pc) + COLS = CELLS
  BY <1>3, RowFacts, ScreenFacts
<1>5. f \in [label : Labels, text : Seq(Chars), address : Nat, count : Nat]
  BY DEF RangeInv, FramesInv, Fine, Contexts
<1>6. Cells \subseteq Memory /\ \A a \in Cells : a \in Nat /\ a < CELLS
  BY <1>4, GreetingPlaces DEF Cells
<1>7. Scrolled(f.count) = Blank
  <2>1. f.count \in Nat
    BY <1>5
  <2>2. CASE f.count < CELLS - COLS
    <3>1. f.count + COLS \in Cells /\ f.count + COLS < CELLS
      BY <1>4, <2>1, <2>2 DEF Cells
    <3> QED
      BY <1>3, <2>2, <3>1 DEF Scrolled, Cleared
  <2>3. CASE ~(f.count < CELLS - COLS)
    BY <2>3 DEF Scrolled
  <2> QED
    BY <2>2, <2>3
<1>8. Cleared(CELLS)'
  <2>1. ASSUME NEW a \in Cells PROVE mem'[a] = Blank
    <3>1. mem[a] = Blank
      BY <1>3, <1>6 DEF Cleared
    <3> QED
      BY <1>1, <1>2, <1>6, <1>7, <3>1
  <2> QED
    BY <2>1 DEF Cleared
<1>9. /\ frame'["main"] = g /\ Consumed' = 0
      /\ frame'["handler"].label \in {"rest", "entered"} /\ ~echoed'
  <2> HIDE DEF g
  <2> QED
    BY <1>1, <1>2, <1>3, AloneKeepsCleared
<1>10. ClearingRow(frame["main"])'
  <2>1. CASE f.count = CELLS - 1
    <3>1. g = Frame("port", <<>>, CELLS - COLS, 0)
      BY <1>3, <1>4, <2>1 DEF After, SettingCursor
    <3>2. frame'["main"].label = "port" /\ frame'["main"].address = CELLS - COLS
      BY <1>9, <3>1 DEF Frame
    <3>3. Cleared(Row(pc) + COLS)'
      BY <1>1, <1>4, <1>8 DEF Cleared, Row
    <3> QED
      BY <1>1, <1>3, <3>2, <3>3 DEF ClearingRow
  <2>2. CASE f.count # CELLS - 1
    <3>1. g = more /\ more.label = "scroll" /\ more.text = <<>> /\ more.address = CELLS
      BY <1>1, <1>3, <1>5, <2>2
    <3> HIDE DEF g, more
    <3>2. /\ frame'["main"].label = "scroll" /\ frame'["main"].text = <<>>
          /\ frame'["main"].address = CELLS
      BY <1>9, <3>1
    <3> QED
      BY <1>1, <1>3, <1>8, <3>2 DEF ClearingRow
  <2> QED
    BY <2>1, <2>2
<1>11. pc' # ROWS + 7 /\ pc' # ROWS + 8 /\ pc' # ROWS + 9 /\ pc' # ROWS + 10
  BY <1>1, <1>2, <1>3
<1> QED
  BY <1>9, <1>10, <1>11 DEF ClearedInv

LEMMA StoreKeepsCleared ==
  ASSUME BootInv, MainInv, ClearedInv, StorePosition("main"), version = 8, Consumed = 0
  PROVE  ClearedInv'
<1> DEFINE f == frame["main"]
<1>1. /\ f.label = "port" /\ cursor_position' = f.address /\ pc' = pc + 1
      /\ Enter("main", AtRest) /\ UNCHANGED <<version, mem, echoed, keys>>
  BY DEF StorePosition
<1>2. PlaceInv /\ ROWS \in Nat /\ ROWS >= 1 /\ pc \in 1 .. Len(Boot) /\ version \in {7, 8}
  BY ScreenFacts DEF BootInv, PlaceInv
<1>3. pc \in 6 .. ROWS + 9 /\ (pc = 6 => Boot[pc].op = "set_cursor")
  <2>1. Boot[pc].op \in {"set_cursor", "write"}
    BY <1>1, <1>2 DEF PlaceInv
  <2> QED
    BY <1>2, <2>1, StatementsOf8
<1>4. ~echoed
  BY DEF ClearedInv
<1>5. /\ frame'["main"] = AtRest /\ Consumed' = 0 /\ AtRest.label = "rest"
      /\ frame'["handler"].label \in {"rest", "entered"} /\ ~echoed'
  BY <1>1, <1>2, <1>4, AloneKeepsCleared DEF AtRest, Frame
<1>6. \A a \in Cells : mem'[a] = mem[a] /\ a \in Nat /\ a < CELLS
  BY <1>1, ScreenFacts DEF Cells
<1>7. ASSUME NEW n, Cleared(n) PROVE \A a \in Cells : a < n => mem'[a] = Blank
  BY <1>6, <1>7 DEF Cleared
<1>8. CASE pc = 6
  <2>1. f.address = 0
    BY <1>1, <1>2, <1>3, <1>8, BootArguments DEF MainInv
  <2>2. pc' = 7 /\ Row(7) = 0
    BY <1>1, <1>8, ScreenFacts DEF Row
  <2>3. Cleared(Row(pc))'
    <3>1. Row(pc)' = 0
      BY <2>2 DEF Row
    <3> QED
      BY <1>6, <3>1 DEF Cleared
  <2>4. cursor_position' = Row(pc)'
    BY <1>1, <2>1, <2>2 DEF Row
  <2>5. ClearingRow(frame["main"])'
    BY <1>5, <2>3, <2>4 DEF ClearingRow
  <2> QED
    BY <1>2, <1>5, <2>2, <2>5 DEF ClearedInv
<1>9. CASE pc \in 7 .. ROWS + 6
  <2>1. /\ f.address = IF pc = ROWS + 6 THEN CELLS - COLS ELSE Row(pc) + COLS
        /\ Cleared(Row(pc) + COLS)
    BY <1>1, <1>9 DEF ClearedInv, ClearingRow
  <2>2. \A a \in Cells : a < Row(pc) + COLS => mem'[a] = Blank
    BY <1>7, <2>1
  <2>3. Row(pc + 1) = Row(pc) + COLS /\ (pc = ROWS + 6 => Row(pc) + COLS = CELLS)
    BY <1>9, RowFacts
  <2>4. CASE pc = ROWS + 6
    <3>1. pc' = ROWS + 7
      BY <1>1, <1>2, <2>4
    <3>2. Cleared(CELLS)'
      BY <2>2, <2>3, <2>4 DEF Cleared
    <3> QED
      BY <1>2, <1>5, <3>1, <3>2 DEF ClearedInv
  <2>5. CASE pc # ROWS + 6
    <3>1. pc' \in 7 .. ROWS + 6
      BY <1>1, <1>2, <1>9, <2>5
    <3>2. Row(pc)' = Row(pc) + COLS
      BY <1>1, <2>3 DEF Row
    <3>3. Cleared(Row(pc))'
      BY <2>2, <3>2 DEF Cleared
    <3>4. cursor_position' = Row(pc)'
      BY <1>1, <2>1, <2>5, <3>2
    <3>5. ClearingRow(frame["main"])'
      BY <1>5, <3>3, <3>4 DEF ClearingRow
    <3> QED
      BY <1>2, <1>5, <3>1, <3>5 DEF ClearedInv
  <2> QED
    BY <2>4, <2>5
<1>10. CASE pc = ROWS + 7 \/ pc = ROWS + 8
  <2>1. Cleared(CELLS)
    BY <1>10 DEF ClearedInv
  <2>2. \A a \in Cells : mem'[a] = Blank
    BY <1>6, <2>1 DEF Cleared
  <2>3. Cleared(CELLS)' /\ OthersBlank'
    BY <2>2 DEF Cleared, OthersBlank
  <2>4. pc' \notin 7 .. ROWS + 6
    BY <1>1, <1>2, <1>10
  <2> QED
    BY <1>2, <1>5, <2>3, <2>4 DEF ClearedInv
<1>11. CASE pc = ROWS + 9
  <2>1. OthersBlank
    BY <1>11 DEF ClearedInv
  <2>2. OthersBlank'
    BY <1>6, <2>1 DEF OthersBlank
  <2>3. pc' = ROWS + 10
    BY <1>1, <1>2, <1>11
  <2> QED
    BY <1>2, <1>5, <2>2, <2>3 DEF ClearedInv
<1> QED
  BY <1>2, <1>3, <1>8, <1>9, <1>10, <1>11

LEMMA PortKeepsCleared ==
  ASSUME BootInv, RangeInv, ClearedInv, OutPort("main"), version = 8, Consumed = 0
  PROVE  ClearedInv'
<1> DEFINE f == frame["main"]
           g == [f EXCEPT !.count = f.count + 1]
<1>1. /\ f.label = "port" /\ Enter("main", g)
      /\ UNCHANGED <<version, pc, mem, cursor_position, echoed, keys>>
  BY DEF OutPort, boot
<1>2. PlaceInv /\ ~echoed
  BY DEF BootInv, ClearedInv
<1>3. f \in [label : Labels, text : Seq(Chars), address : Nat, count : Nat]
  BY DEF RangeInv, FramesInv, Fine, Contexts
<1>4. g.label = "port" /\ g.address = f.address
  BY <1>1, <1>3
<1> HIDE DEF g
<1>5. /\ frame'["main"] = g /\ Consumed' = 0
      /\ frame'["handler"].label \in {"rest", "entered"} /\ ~echoed'
  BY <1>1, <1>2, AloneKeepsCleared
<1>6. /\ \A n : Cleared(n)' <=> Cleared(n)
      /\ OthersBlank' <=> OthersBlank
  BY <1>1 DEF Cleared, OthersBlank
<1>7. ASSUME pc \in 7 .. ROWS + 6 PROVE ClearingRow(frame["main"])'
  <2>1. /\ f.address = IF pc = ROWS + 6 THEN CELLS - COLS ELSE Row(pc) + COLS
        /\ Cleared(Row(pc) + COLS)
    BY <1>1, <1>7 DEF ClearedInv, ClearingRow
  <2>2. Row(pc)' = Row(pc) /\ pc' = pc
    BY <1>1 DEF Row
  <2>3. Cleared(Row(pc) + COLS)'
    BY <1>1, <2>1, <2>2 DEF Cleared
  <2> QED
    BY <1>4, <1>5, <2>1, <2>2, <2>3 DEF ClearingRow
<1> QED
  BY <1>1, <1>5, <1>6, <1>7 DEF ClearedInv

(* A letter of the greeting.                                               *)
LEMMA GlyphKeepsCleared ==
  ASSUME BootInv, RangeInv, GreetingInv, MainInv, ClearedInv, WriteGlyph("main"), version = 8,
         Consumed = 0
  PROVE  ClearedInv'
<1> DEFINE f == frame["main"]
           g == After(Tail(f.text), f.address + 1)
<1>1. /\ f.label = "character" /\ Enter("main", g) /\ Runs("main")
      /\ WriteChar(f.address, Head(f.text)) /\ Head(f.text) \notin {"newline", "tab"}
      /\ UNCHANGED <<version, pc, echoed, keys>>
  BY DEF WriteGlyph, boot, history
<1>2. PlaceInv /\ ~echoed /\ ROWS \in Nat /\ pc \in 1 .. Len(Boot)
  BY ScreenFacts DEF BootInv, PlaceInv, ClearedInv
<1>3. pc = ROWS + 9
  <2>1. Boot[pc].op = "write"
    BY <1>1 DEF MainInv
  <2>2. pc \in 7 .. ROWS + 6 \/ pc = ROWS + 9
    BY <1>2, <2>1, StatementsOf8
  <2>3. pc \in 7 .. ROWS + 6 => f.text = <<"newline">>
    BY <1>1 DEF ClearedInv, ClearingRow
  <2> QED
    BY <1>1, <2>2, <2>3
<1>4. f.address = GREETING_AT \/ f.address = GREETING_AT + 1
  <2>1. ~Echoing
    BY <1>1, <1>2, RunsAlone DEF Echoing
  <2> QED
    BY <1>1, <1>2, <1>3, <2>1 DEF GreetingInv, WritingGreeting
<1>5. /\ Consumed' = 0
      /\ frame'["handler"].label \in {"rest", "entered"} /\ ~echoed'
  <2> HIDE DEF g
  <2> QED
    BY <1>1, <1>2, AloneKeepsCleared
<1>6. OthersBlank'
  <2>1. OthersBlank
    BY <1>3 DEF ClearedInv
  <2>2. Cells \subseteq Memory /\ mem \in [Memory -> {"old", Blank} \cup Glyphs]
    BY GreetingPlaces DEF RangeInv, DisplayInv
  <2>3. ASSUME NEW a \in Cells, a # GREETING_AT, a # GREETING_AT + 1 PROVE mem'[a] = Blank
    <3>1. mem'[a] = mem[a]
      BY <1>1, <1>4, <2>2, <2>3 DEF WriteChar
    <3> QED
      BY <2>1, <2>3, <3>1 DEF OthersBlank
  <2> QED
    BY <2>3 DEF OthersBlank
<1>7. pc' = ROWS + 9 /\ pc' \notin 7 .. ROWS + 6 /\ pc' # ROWS + 7 /\ pc' # ROWS + 8
  BY <1>1, <1>2, <1>3
<1> QED
  BY <1>5, <1>6, <1>7 DEF ClearedInv

(* Keys are only read, never taken back.                                   *)
LEMMA NoKeyRead ==
  ASSUME RangeInv, [KernelNext]_kernelVars, Consumed' = 0
  PROVE  Consumed = 0 /\ ~ReadKey
<1>1. /\ keyboard \in Seq(Keys) /\ Len(keyboard) \in Nat /\ pressed \in Nat
      /\ Len(keyboard) <= pressed
  BY ScreenFacts DEF RangeInv, KeysInv
<1>2. ASSUME ReadKey PROVE FALSE
  <2>1. keyboard' = Tail(keyboard) /\ pressed' = pressed /\ keyboard # <<>>
    BY <1>2 DEF ReadKey, RangeInv, KeysInv
  <2>2. Len(keyboard') = Len(keyboard) - 1
    BY <1>1, <2>1, HeadTailProperties
  <2> QED
    BY <1>1, <2>1, <2>2 DEF Consumed
<1>3. CASE Press
  <2>1. pressed' = pressed + 1 /\ Len(keyboard') = Len(keyboard) + 1
    BY <1>1, <1>3 DEF Press
  <2> QED
    BY <1>1, <1>2, <2>1 DEF Consumed
<1>4. CASE UNCHANGED keys
  BY <1>2, <1>4 DEF keys, Consumed
<1> QED
  BY <1>2, <1>3, <1>4
     DEF KernelNext, Statement, CallStep, Take, Return, LoadGdt, HandlerFields, HandlerHigh,
         IdtInit, EnableKeyboard, BlankCells, CallSetCursor, CallWrite, Idle, WriteGlyph,
         MoveOver, WriteBlank, ScrollCell, OutPort, StorePosition, Interrupt,
         InterruptUnhandled, InterruptAstray, Resume, ResumeCorrupted, kernelVars

LEMMA StatementKeepsCleared ==
  ASSUME BootInv, RangeInv, ClearedInv, Statement, version = 8, Consumed = 0
  PROVE  ClearedInv'
<1>1. /\ PlaceInv /\ ROWS \in Nat /\ ROWS >= 1 /\ pc \in 1 .. Len(Boot) /\ version \in {7, 8}
      /\ frame["handler"].label \in {"rest", "entered"} /\ ~echoed
  BY ScreenFacts DEF BootInv, PlaceInv, ClearedInv
<1>2. CASE LoadGdt \/ HandlerFields \/ HandlerHigh \/ IdtInit \/ EnableKeyboard \/ BlankCells
  <2>1. pc \in 1 .. 5
    BY <1>1, <1>2, StatementsOf8
       DEF LoadGdt, HandlerFields, HandlerHigh, IdtInit, EnableKeyboard, BlankCells, At
  <2>2. pc' = pc + 1 /\ UNCHANGED <<version, frame, echoed>>
    BY <1>2 DEF LoadGdt, HandlerFields, HandlerHigh, IdtInit, EnableKeyboard, BlankCells,
                NextStatement, history
  <2>3. pc' \in Nat /\ pc' <= 6
    BY <2>1, <2>2
  <2> QED
    BY <1>1, <2>2, <2>3, EarlyCleared
<1>3. CASE CallSetCursor
  <2> DEFINE f == SettingCursor(Boot[pc].arg, 0)
  <2>1. /\ Enter("main", f) /\ Boot[pc].op = "set_cursor" /\ ~echoed'
        /\ UNCHANGED <<version, pc, mem, keys>>
    BY <1>3 DEF CallSetCursor, At, boot, display
  <2>2. pc = 6 \/ pc = ROWS + 7 \/ pc = ROWS + 8
    BY <1>1, <2>1, StatementsOf8
  <2> HIDE DEF f
  <2>3. /\ Consumed' = 0
        /\ frame'["handler"].label \in {"rest", "entered"} /\ ~echoed'
    BY <1>1, <2>1, AloneKeepsCleared
  <2>4. pc = ROWS + 7 \/ pc = ROWS + 8 => Cleared(CELLS)'
    BY <2>1 DEF ClearedInv, Cleared
  <2>5. pc' \notin 7 .. ROWS + 6 /\ pc' # ROWS + 9 /\ pc' # ROWS + 10
    BY <1>1, <2>1, <2>2
  <2> QED
    BY <2>1, <2>3, <2>4, <2>5 DEF ClearedInv
<1>4. CASE CallWrite
  <2> DEFINE f == Started(Boot[pc].arg)
  <2>1. /\ Enter("main", f) /\ Boot[pc].op = "write" /\ frame["main"] = AtRest
        /\ UNCHANGED <<version, pc, mem, echoed, keys>>
    BY <1>4 DEF CallWrite, At, boot, display, history
  <2>2. pc \in 7 .. ROWS + 6 \/ pc = ROWS + 9
    BY <1>1, <2>1, StatementsOf8
  <2>3. f.label = "character" /\ f.text = Boot[pc].arg /\ f.address = cursor_position
    BY DEF Started, Frame
  <2> HIDE DEF f
  <2>4. /\ frame'["main"] = f /\ Consumed' = 0
        /\ frame'["handler"].label \in {"rest", "entered"} /\ ~echoed'
    BY <1>1, <2>1, AloneKeepsCleared
  <2>5. CASE pc \in 7 .. ROWS + 6
    <3>1. Boot[pc].arg = <<"newline">>
      BY <1>1, <2>1, <2>5, BootArguments
    <3>2. AtRest.label = "rest"
      BY DEF AtRest, Frame
    <3>3. cursor_position = Row(pc) /\ Cleared(Row(pc))
      BY <2>1, <2>5, <3>2 DEF ClearedInv, ClearingRow
    <3>4. Row(pc) \in Nat /\ COLS \in Nat \ {0} /\ Row(pc)' = Row(pc)
      BY <2>1, <2>5, RowFacts, ScreenFacts DEF Row
    <3>5. Cleared(frame["main"].address)'
      BY <2>1, <2>3, <2>4, <3>3 DEF Cleared
    <3>6. /\ frame'["main"].label = "character" /\ frame'["main"].text = <<"newline">>
          /\ frame'["main"].address = Row(pc)
      BY <2>3, <2>4, <3>1, <3>3
    <3>7. Row(pc) <= Row(pc) /\ Row(pc) < Row(pc) + COLS
      BY <3>4
    <3>8. ClearingRow(frame["main"])'
      BY <3>4, <3>5, <3>6, <3>7 DEF ClearingRow
    <3>9. pc' # ROWS + 7 /\ pc' # ROWS + 8 /\ pc' # ROWS + 9 /\ pc' # ROWS + 10
      BY <1>1, <2>1, <2>5
    <3> QED
      BY <2>4, <3>8, <3>9 DEF ClearedInv
  <2>6. CASE pc = ROWS + 9
    <3>1. OthersBlank'
      BY <2>1, <2>6 DEF ClearedInv, OthersBlank
    <3>2. pc' \notin 7 .. ROWS + 6 /\ pc' # ROWS + 7 /\ pc' # ROWS + 8
      BY <1>1, <2>1, <2>6
    <3> QED
      BY <2>4, <3>1, <3>2 DEF ClearedInv
  <2> QED
    BY <2>2, <2>5, <2>6
<1>5. CASE Idle
  <2> DEFINE f == Frame("idle", <<>>, 0, 0)
  <2>1. /\ Enter("main", f) /\ Boot[pc].op \in {"call_module", "loop"}
        /\ UNCHANGED <<version, pc, mem, echoed, keys>>
    BY <1>5 DEF Idle, At, boot, display, history
  <2>2. pc = ROWS + 10
    BY <1>1, <2>1, StatementsOf8
  <2> HIDE DEF f
  <2>3. /\ Consumed' = 0
        /\ frame'["handler"].label \in {"rest", "entered"} /\ ~echoed'
    BY <1>1, <2>1, AloneKeepsCleared
  <2>4. OthersBlank'
    BY <2>1, <2>2 DEF ClearedInv, OthersBlank
  <2>5. pc' \notin 7 .. ROWS + 6 /\ pc' # ROWS + 7 /\ pc' # ROWS + 8
    BY <1>1, <2>1, <2>2
  <2> QED
    BY <2>3, <2>4, <2>5 DEF ClearedInv
<1> QED
  BY <1>2, <1>3, <1>4, <1>5 DEF Statement

LEMMA MainKeepsCleared ==
  ASSUME BootInv, RangeInv, MainInv, GreetingInv, ClearedInv, CallStep("main"), version = 8,
         Consumed = 0
  PROVE  ClearedInv'
<1> DEFINE f == frame["main"]
<1>1. /\ PlaceInv /\ pc \in 1 .. Len(Boot) /\ ~echoed
  BY DEF BootInv, PlaceInv, ClearedInv
<1>2. CASE WriteBlank("main") \/ ScrollCell("main")
  <2>1. f.label \in {"character", "scroll"} /\ Runs("main")
        /\ (WriteBlank("main") => f.label = "character" /\ Head(f.text) \in {"newline", "tab"})
        /\ (ScrollCell("main") => f.label = "scroll")
    BY <1>2 DEF WriteBlank, ScrollCell
  <2>2. Boot[pc].op = "write"
    BY <2>1 DEF MainInv
  <2>3. pc \in 7 .. ROWS + 6 \/ pc = ROWS + 9
    BY <1>1, <2>2, StatementsOf8
  <2>4. pc # ROWS + 9
    <3>1. SUFFICES ASSUME pc = ROWS + 9 PROVE FALSE
      OBVIOUS
    <3>2. ~Echoing
      BY <1>1, <2>1, RunsAlone DEF Echoing
    <3>3. WritingGreeting(f)
      BY <1>1, <3>1, <3>2 DEF GreetingInv
    <3>4. Head(Greeting) = "H" /\ Tail(Greeting) = <<"w">> /\ Head(<<"w">>) = "w"
      BY GreetingFacts
    <3> QED
      BY <1>2, <2>1, <3>3, <3>4 DEF WritingGreeting
  <2> QED
    BY <1>2, <2>3, <2>4, BlankKeepsCleared, ScrollKeepsCleared
<1>3. CASE MoveOver("main")
  BY <1>3 DEF MoveOver
<1> QED
  BY <1>2, <1>3, StoreKeepsCleared, PortKeepsCleared, GlyphKeepsCleared DEF CallStep

LEMMA NextKeepsCleared ==
  ASSUME BootInv, RangeInv, MainInv, GreetingInv, ClearedInv, [KernelNext]_kernelVars
  PROVE  ClearedInv'
<1>1. version' = version
  BY DEF KernelNext, Statement, CallStep, Take, Return, LoadGdt, HandlerFields, HandlerHigh,
         IdtInit, EnableKeyboard, BlankCells, CallSetCursor, CallWrite, Idle, WriteGlyph,
         MoveOver, WriteBlank, ScrollCell, OutPort, StorePosition, Press, Interrupt,
         InterruptUnhandled, InterruptAstray, ReadKey, Resume, ResumeCorrupted, kernelVars
<1>2. CASE ~(version = 8 /\ Consumed' = 0)
  BY <1>1, <1>2 DEF ClearedInv
<1>3. CASE version = 8 /\ Consumed' = 0
  <2>1. Consumed = 0 /\ ~ReadKey /\ PlaceInv
    BY <1>3, NoKeyRead DEF BootInv
  <2>2. frame["handler"].label \in {"rest", "entered"}
    BY <1>3, <2>1 DEF ClearedInv
  <2>3. ~CallStep("handler")
    BY <2>2 DEF CallStep, WriteGlyph, MoveOver, WriteBlank, ScrollCell, OutPort, StorePosition
  <2>4. CASE Press \/ InterruptUnhandled \/ InterruptAstray \/ ResumeCorrupted
             \/ UNCHANGED kernelVars
    <3>1. UNCHANGED <<version, pc, mem, cursor_position, echoed, frame>>
      BY <2>4 DEF Press, InterruptUnhandled, InterruptAstray, ResumeCorrupted, kernelVars, boot,
                  display, history
    <3> QED
      BY <1>3, <2>1, <3>1, SameCleared
  <2>5. CASE Interrupt \/ Resume
    <3>1. PICK f : /\ Enter("handler", f) /\ f.label \in {"rest", "entered"}
                   /\ UNCHANGED <<version, pc, mem, cursor_position, echoed>>
      BY <2>5 DEF Interrupt, Resume, boot, display, history, AtRest, Frame
    <3>2. frame'["main"] = frame["main"] /\ frame'["handler"] = f
      BY <2>1, <3>1 DEF Enter, PlaceInv, Contexts
    <3> QED
      BY <1>3, <2>1, <3>1, <3>2, SameCleared
  <2> QED
    BY <1>3, <2>1, <2>3, <2>4, <2>5, StatementKeepsCleared, MainKeepsCleared
       DEF KernelNext, Take, Return, Contexts
<1> QED
  BY <1>2, <1>3

LEMMA GreetingInvariance ==
  KernelSpec => [](BootInv /\ RangeInv /\ EchoInv /\ MainInv /\ GreetingInv /\ ClearedInv)
<1>1. KernelInit => MainInv /\ GreetingInv /\ ClearedInv
  <2> SUFFICES ASSUME KernelInit PROVE MainInv /\ GreetingInv /\ ClearedInv
    OBVIOUS
  <2>1. /\ pc = 1 /\ ~echoed /\ frame["main"].label = "rest" /\ frame["handler"].label = "rest"
    BY DEF KernelInit, Contexts, AtRest, Frame
  <2>2. ROWS \in Nat
    BY ScreenFacts
  <2> QED
    BY <2>1, <2>2 DEF MainInv, GreetingInv, ClearedInv
<1>2. BootInv /\ RangeInv /\ EchoInv /\ MainInv /\ GreetingInv /\ ClearedInv
      /\ [KernelNext]_kernelVars => MainInv' /\ GreetingInv' /\ ClearedInv'
  BY NextKeepsMain, NextKeepsGreeting, NextKeepsCleared
<1> QED
  BY <1>1, <1>2, EchoInvariance, PTL DEF KernelSpec

(* Once the boot of tutorial 8 is over the greeting stands, whatever keys  *)
(* came before it, as long as none has been echoed since main began to set *)
(* the cursor for it; and it stands alone if no key has been read at all.  *)
THEOREM GreetingStands == KernelSpec => []GreetingShown
<1>1. BootInv /\ RangeInv /\ GreetingInv /\ ClearedInv => GreetingShown
  <2> SUFFICES ASSUME BootInv, RangeInv, GreetingInv, ClearedInv, Booted, version = 8, ~echoed
               PROVE  /\ \A i \in 1 .. Len(Greeting) : mem[GREETING_AT + i - 1] = Greeting[i]
                      /\ cursor_position = GREETING_AT + Len(Greeting)
                      /\ pressed = Len(keyboard) =>
                           \A a \in Cells \ (GREETING_AT .. GREETING_AT + Len(Greeting) - 1) :
                             mem[a] = Blank
    BY DEF GreetingShown
  <2>1. /\ ROWS \in Nat /\ pc \in 1 .. Len(Boot) /\ version \in {7, 8}
        /\ Boot[pc].op \in {"call_module", "loop"}
    BY ScreenFacts DEF BootInv, PlaceInv, Booted
  <2>2. pc = ROWS + 10
    BY <2>1, StatementsOf8
  <2>3. cursor_position = GREETING_AT + 2 /\ GreetingWritten /\ Len(Greeting) = 2
    BY <2>2, GreetingFacts DEF GreetingInv
  <2>4. GREETING_AT \in Nat /\ GREETING_AT + 1 - 1 = GREETING_AT
        /\ GREETING_AT + 2 - 1 = GREETING_AT + 1
    BY GreetingFacts
  <2>5. ASSUME NEW i \in 1 .. 2 PROVE mem[GREETING_AT + i - 1] = Greeting[i]
    <3>1. i = 1 \/ i = 2
      BY <2>5
    <3>2. mem[GREETING_AT + 1 - 1] = Greeting[1] /\ mem[GREETING_AT + 2 - 1] = Greeting[2]
      BY <2>3, <2>4 DEF GreetingWritten
    <3> QED
      BY <3>1, <3>2
  <2>6. ASSUME pressed = Len(keyboard), NEW a \in Cells \ (GREETING_AT .. GREETING_AT + 1)
        PROVE  mem[a] = Blank
    <3>1. Consumed = 0
      <4>1. pressed \in Nat
        BY ScreenFacts DEF RangeInv, KeysInv
      <4> QED
        BY <2>6, <4>1 DEF Consumed
    <3>2. OthersBlank
      BY <2>2, <3>1 DEF ClearedInv
    <3>3. a # GREETING_AT /\ a # GREETING_AT + 1
      BY <2>4, <2>6
    <3> QED
      BY <3>2, <3>3 DEF OthersBlank
  <2> QED
    BY <2>3, <2>4, <2>5, <2>6
<1> QED
  BY <1>1, GreetingInvariance, PTL

-----------------------------------------------------------------------------
(* The sum by loop, by threads and by child processes.                     *)

USE SizeAssumption, ValuesAssumption, ByteAssumption, GarbageAssumption

(* Between lock and unlock a thread holds the mutex, and what it has read  *)
(* is still the total: the inductive part of "no addition is lost".        *)
MutexInv ==
  program = "thread" =>
    /\ \A i \in Workers :
         worker[i] \in {"locked", "loaded", "stored"} => holder = i
    /\ \A i \in Workers : worker[i] = "loaded" => copy[i] = total
    /\ \A i \in Workers : i \in added <=> worker[i] \in {"stored", "ended"}
    /\ phase = "create" => \A i \in Workers : i >= next => worker[i] = "none"

(* What main has joined has ended.                                         *)
JoinInv ==
  program = "thread" =>
    /\ phase = "wait" => \A i \in 1 .. next - 1 : worker[i] = "ended"
    /\ phase = "print" => \A i \in Workers : worker[i] = "ended"
    /\ outcome = "printed" => phase = "print"

IInv == TypeOK /\ MutexInv /\ JoinInv

-----------------------------------------------------------------------------

LEMMA ValueIsInt ==
  ASSUME TypeOK, NEW i \in Workers
  PROVE  Value(i) \in Int /\ values[i] \in Int
<1>1. values[i] \in Values
  BY DEF TypeOK
<1>2. values[i] \in Int
  BY <1>1, ValuesAssumption
<1> QED
  BY <1>2 DEF Value, calculate_value

LEMMA SizeIsSmall == Size \in 1 .. N
BY DEF Size

LEMMA InitIInv == Init => IInv
<1> SUFFICES ASSUME Init PROVE IInv
  OBVIOUS
<1>1. TypeOK
  <2>1. total \in Int
    <3>1. CASE program \in {"join", "create"}
      <4>1. total \in Garbage
        BY <3>1 DEF Init
      <4> QED
        BY <4>1, GarbageAssumption
    <3>2. CASE program \notin {"join", "create"}
      BY <3>2 DEF Init
    <3> QED
      BY <3>1, <3>2
  <2>2. next \in 1 .. Size
    BY SizeIsSmall DEF Init
  <2> QED
    BY <2>1, <2>2 DEF Init, TypeOK, NoOne, Nothing
<1>2. MutexInv
  BY DEF Init, MutexInv
<1>3. JoinInv
  BY DEF Init, JoinInv
<1> QED
  BY <1>1, <1>2, <1>3 DEF IInv

LEMMA TypeStep == TypeOK /\ [Next]_vars => TypeOK'
<1> SUFFICES ASSUME TypeOK, [Next]_vars PROVE TypeOK'
  OBVIOUS
<1> USE DEF TypeOK
<1>s. Size \in 1 .. N /\ Workers = 1 .. N
  BY SizeIsSmall DEF Workers
<1>1. CASE AddInLoop
  <2>1. next \in Workers
    BY <1>s
  <2>2. Value(next) \in Int
    BY <2>1, ValueIsInt
  <2> QED
    BY <1>1, <1>s, <2>1, <2>2 DEF AddInLoop, Advance, Goto, Main, Size
<1>2. CASE Create
  BY <1>2, <1>s DEF Create, Advance, Goto, Main, Size
<1>3. CASE Fail
  BY <1>3 DEF Fail, Size
<1>4. CASE Join
  BY <1>4, <1>s DEF Join, Advance, Goto, Main, Size
<1>5. CASE WaitForChild
  <2>1. next \in Workers
    BY <1>s
  <2>2. status[next] \in Int
    BY <2>1
  <2>3. total' \in Int /\ added' \in SUBSET Workers
    <3>1. CASE status[next] = Nothing
      BY <1>5, <3>1 DEF WaitForChild
    <3>2. CASE status[next] # Nothing
      <4>1. total' = total + status[next] /\ added' = added \cup {next}
        BY <1>5, <3>2 DEF WaitForChild
      <4>2. total + status[next] \in Int
        BY <2>2
      <4> QED
        BY <4>1, <4>2, <2>1
    <3> QED
      BY <3>1, <3>2
  <2>4. phase' \in {"create", "wait", "print"} /\ next' \in 1 .. Size /\ Size' = Size
    BY <1>5, <1>s DEF WaitForChild, Advance, Goto, Size
  <2> QED
    BY <1>5, <2>3, <2>4 DEF WaitForChild
<1>6. CASE Output
  BY <1>6 DEF Output, Main, Size
<1>7. ASSUME NEW i \in Workers, WorkerNext(i) PROVE TypeOK'
  <2> USE DEF control, Step, Size
  <2>v. Value(i) \in Int /\ values[i] \in Int
    BY ValueIsInt
  <2>b. Value(i) % BYTE \in Int
    BY <2>v
  <2>1. CASE Lock(i)
    BY <2>1 DEF Lock
  <2>2. CASE Load(i)
    BY <2>2 DEF Load
  <2>3. CASE Store(i)
    BY <2>3, <2>v DEF Store
  <2>4. CASE Unlock(i)
    BY <2>4 DEF Unlock
  <2>5. CASE StoreOutput(i)
    BY <2>5, <2>v DEF StoreOutput
  <2>6. CASE Exit(i)
    BY <2>6, <2>b DEF Exit
  <2> QED
    BY <1>7, <2>1, <2>2, <2>3, <2>4, <2>5, <2>6 DEF WorkerNext
<1>8. ASSUME NEW i \in Workers, ThreadFails(i) \/ Killed(i) PROVE TypeOK'
  BY <1>8 DEF ThreadFails, Killed, control, Step, Size
<1>9. CASE UNCHANGED vars
  BY <1>9 DEF vars, control, Size
<1> QED
  BY <1>1, <1>2, <1>3, <1>4, <1>5, <1>6, <1>7, <1>8, <1>9
  DEF Next, MainNext, Failure

-----------------------------------------------------------------------------

(* Other programs have no mutex, and the steps of main touch nothing of it. *)
LEMMA MutexStep == TypeOK /\ MutexInv /\ [Next]_vars => MutexInv'
<1> SUFFICES ASSUME TypeOK, MutexInv, [Next]_vars, program' = "thread"
             PROVE  MutexInv'
  BY DEF MutexInv
<1>p. program' = program
  BY DEF Next, MainNext, WorkerNext, Failure, AddInLoop, Create, Fail, Join,
         WaitForChild, Output, Lock, Load, Store, Unlock, StoreOutput, Exit,
         ThreadFails, Killed, vars, control
<1>t. program = "thread"
  BY <1>p
<1> USE <1>p, <1>t DEF MutexInv
<1>w. worker \in [Workers -> {"none", "ready", "locked", "loaded", "stored",
                               "ended"}]
      /\ copy \in [Workers -> Int] /\ added \in SUBSET Workers
  BY DEF TypeOK
<1>s. Size = N /\ Workers = 1 .. N /\ next \in 1 .. N
  BY DEF Size, Workers, TypeOK
<1>1. CASE AddInLoop \/ WaitForChild
  BY <1>1 DEF AddInLoop, WaitForChild
<1>2. CASE Create
  <2>1. next \in Workers /\ worker[next] = "none"
    BY <1>2, <1>s DEF Create, Main
  <2>2. next \notin added
    BY <2>1
  <2>3. /\ worker' = [worker EXCEPT ![next] = "ready"]
        /\ holder' = holder /\ copy' = copy /\ total' = total /\ added' = added
    BY <1>2 DEF Create
  <2>4. \A i \in Workers : worker'[i] = IF i = next THEN "ready" ELSE worker[i]
    BY <2>3, <1>w
  <2>5. phase' = "create" => next' = next + 1
    BY <1>2 DEF Create, Advance, Goto
  <2>6. \A i \in Workers : i >= next + 1 => i >= next /\ i # next
    BY <1>s
  <2>7. phase = "create"
    BY <1>2 DEF Create, Main
  <2> QED
    BY <2>1, <2>2, <2>3, <2>4, <2>5, <2>6, <2>7
<1>3. CASE Join \/ Output
  <2>1. phase # "create" /\ phase' # "create"
    BY <1>3 DEF Join, Output, Main, Advance, Goto
  <2> QED
    BY <1>3, <2>1 DEF Join, Output
<1>4. CASE Fail \/ \E i \in Workers : ThreadFails(i)
  BY <1>4 DEF Fail, ThreadFails
<1>5. ASSUME NEW i \in Workers, StoreOutput(i) \/ Exit(i) \/ Killed(i)
      PROVE  MutexInv'
  BY <1>5 DEF StoreOutput, Exit, Killed
<1>6. ASSUME NEW i \in Workers, Lock(i) \/ Load(i) \/ Store(i) \/ Unlock(i)
      PROVE  MutexInv'
  <2>c. phase' = phase /\ next' = next
    BY <1>6 DEF Lock, Load, Store, Unlock, control
  <2>n. worker[i] # "none" /\ (phase = "create" => ~(i >= next))
    BY <1>6 DEF Lock, Load, Store, Unlock, Step
  <2>1. CASE Lock(i)
    BY <2>1, <2>c, <2>n, <1>w DEF Lock, Step, NoOne, Workers
  <2>2. CASE Load(i)
    BY <2>2, <2>c, <2>n, <1>w DEF Load, Step
  <2>3. CASE Store(i)
    <3>1. \A j \in Workers \ {i} : worker[j] # "loaded"
      BY <2>3 DEF Store, Step
    <3> QED
      BY <2>3, <3>1, <2>c, <2>n, <1>w DEF Store, Step
  <2>4. CASE Unlock(i)
    <3>1. \A j \in Workers \ {i} : worker[j] \notin {"locked", "loaded", "stored"}
      BY <2>4 DEF Unlock, Step
    <3> QED
      BY <2>4, <3>1, <2>c, <2>n, <1>w DEF Unlock, Step
  <2> QED
    BY <1>6, <2>1, <2>2, <2>3, <2>4
<1>7. CASE UNCHANGED vars
  BY <1>7 DEF vars, control
<1> QED
  BY <1>1, <1>2, <1>3, <1>4, <1>5, <1>6, <1>7
  DEF Next, MainNext, WorkerNext, Failure

LEMMA JoinStep == TypeOK /\ MutexInv /\ JoinInv /\ [Next]_vars => JoinInv'
<1> SUFFICES ASSUME TypeOK, JoinInv, [Next]_vars, program' = "thread"
             PROVE  JoinInv'
  BY DEF JoinInv
<1>p. program' = program
  BY DEF Next, MainNext, WorkerNext, Failure, AddInLoop, Create, Fail, Join,
         WaitForChild, Output, Lock, Load, Store, Unlock, StoreOutput, Exit,
         ThreadFails, Killed, vars, control
<1>t. program = "thread"
  BY <1>p
<1> USE <1>p, <1>t DEF JoinInv
<1>s. Size = N /\ Workers = 1 .. N /\ next \in 1 .. N
  BY DEF Size, Workers, TypeOK
<1>w. worker \in [Workers -> {"none", "ready", "locked", "loaded", "stored",
                               "ended"}]
  BY DEF TypeOK
<1>1. CASE AddInLoop \/ WaitForChild
  BY <1>1 DEF AddInLoop, WaitForChild
<1>2. CASE Create
  <2>1. phase' = "create" \/ (phase' = "wait" /\ next' = 1)
    BY <1>2 DEF Create, Main, Advance, Goto
  <2>2. outcome' = "running"
    BY <1>2 DEF Create, Main
  <2>3. 1 .. (1 - 1) = {}
    OBVIOUS
  <2> QED
    BY <2>1, <2>2, <2>3
<1>3. CASE Join
  <2>1. /\ phase = "wait" /\ worker[next] = "ended" /\ worker' = worker
        /\ outcome' = "running"
    BY <1>3 DEF Join, Main
  <2>2. \A i \in 1 .. next : worker[i] = "ended"
    <3>1. \A i \in 1 .. next : i \in 1 .. next - 1 \/ i = next
      BY <1>s
    <3> QED
      BY <2>1, <3>1
  <2>3. CASE next < N
    <3>1. phase' = "wait" /\ next' = next + 1 /\ 1 .. next' - 1 = 1 .. next
      BY <1>3, <1>s, <2>1, <2>3 DEF Join, Advance
    <3> QED
      BY <2>1, <2>2, <3>1
  <2>4. CASE next = N
    <3>1. phase' = "print"
      BY <1>3, <1>s, <2>4 DEF Join, Advance, Goto
    <3> QED
      BY <1>s, <2>1, <2>2, <2>4, <3>1
  <2> QED
    BY <1>s, <2>3, <2>4
<1>4. CASE Output
  BY <1>4 DEF Output, Main
<1>5. CASE Fail \/ \E i \in Workers : ThreadFails(i)
  BY <1>5 DEF Fail, ThreadFails, Main
<1>6. ASSUME NEW i \in Workers, StoreOutput(i) \/ Exit(i) \/ Killed(i)
      PROVE  JoinInv'
  BY <1>6 DEF StoreOutput, Exit, Killed
<1>7. ASSUME NEW i \in Workers, Lock(i) \/ Load(i) \/ Store(i) \/ Unlock(i)
      PROVE  JoinInv'
  <2>1. phase' = phase /\ next' = next /\ outcome' = outcome
    BY <1>7 DEF Lock, Load, Store, Unlock, control
  <2>2. worker[i] # "ended"
    BY <1>7 DEF Lock, Load, Store, Unlock, Step
  <2>3. \A j \in Workers : worker[j] = "ended" => worker'[j] = "ended"
    BY <1>7, <1>w, <2>2 DEF Lock, Load, Store, Unlock, Step
  <2>4. \A j \in 1 .. next - 1 : j \in Workers
    BY <1>s
  <2> QED
    BY <2>1, <2>3, <2>4
<1>8. CASE UNCHANGED vars
  BY <1>8 DEF vars, control
<1> QED
  BY <1>1, <1>2, <1>3, <1>4, <1>5, <1>6, <1>7, <1>8
  DEF Next, MainNext, WorkerNext, Failure

-----------------------------------------------------------------------------

LEMMA IInvHolds == Spec => []IInv
<1>1. IInv /\ [Next]_vars => IInv'
  BY TypeStep, MutexStep, JoinStep DEF IInv
<1> QED
  BY InitIInv, <1>1, PTL DEF Spec

\* Every variable has its type, for any number of workers and any values.

THEOREM TypeCorrect == Spec => []TypeOK
<1>1. IInv => TypeOK
  BY DEF IInv
<1> QED
  BY IInvHolds, <1>1, PTL

\* No two threads are between lock and unlock: the mutual exclusion that the
\* additions of thread.c rest on.

THEOREM MutualExclusion ==
  Spec => [](program = "thread" =>
              \A i, j \in Workers :
                /\ worker[i] \in {"locked", "loaded", "stored"}
                /\ worker[j] \in {"locked", "loaded", "stored"}
                => i = j)
<1>1. IInv => (program = "thread" =>
                \A i, j \in Workers :
                  /\ worker[i] \in {"locked", "loaded", "stored"}
                  /\ worker[j] \in {"locked", "loaded", "stored"}
                  => i = j)
  BY DEF IInv, MutexInv
<1> QED
  BY IInvHolds, <1>1, PTL

\* No addition of a thread is lost and none is made twice, however the threads
\* are interleaved.

THEOREM NoUpdateLost == Spec => NoLostUpdate
<1>1. IInv /\ [Next]_vars =>
        [program = "thread" /\ total' # total =>
           \E i \in Workers \ added :
             total' = total + Value(i) /\ added' = added \cup {i}]_vars
  <2> SUFFICES ASSUME IInv, Next, program = "thread", total' # total
               PROVE  \E i \in Workers \ added :
                        total' = total + Value(i) /\ added' = added \cup {i}
    BY DEF vars
  <2>1. PICK i \in Workers : Store(i)
    BY DEF Next, MainNext, WorkerNext, Failure, AddInLoop, Create, Fail, Join,
           WaitForChild, Output, Lock, Load, Unlock, StoreOutput, Exit,
           ThreadFails, Killed, control
  <2>2. worker[i] = "loaded" /\ total' = copy[i] + Value(i)
        /\ added' = added \cup {i}
    BY <2>1 DEF Store, Step
  <2>3. copy[i] = total /\ i \notin added
    BY <2>2 DEF IInv, MutexInv
  <2> QED
    BY <2>2, <2>3
<1> QED
  BY IInvHolds, <1>1, PTL DEF Spec, NoLostUpdate

\* What thread.c prints has had every value added to it.

THEOREM PrintedTotalComplete == Spec => []EveryThreadAdded
<1>1. IInv => EveryThreadAdded
  BY DEF IInv, TypeOK, MutexInv, JoinInv, EveryThreadAdded
<1> QED
  BY IInvHolds, <1>1, PTL

-----------------------------------------------------------------------------
(* The total is always the sum of what has been brought into it.           *)
Contributions == [i \in Workers |-> Contribution(i)]

SumInv ==
  program \in {"loop", "thread", "fork"} => total = Total(Contributions, Workers)

(* What main has printed is the total, which does not change after it.     *)
OutcomeInv == outcome = "printed" => printed = total /\ phase = "print"

(* The values added are those before next, and all of them at the end.     *)
LoopInv ==
  program = "loop" =>
    \/ phase = "create" /\ added = 1 .. next - 1
    \/ phase = "print" /\ added = Workers

(* Statuses are added in the order of the children, once each.             *)
ForkInv ==
  program = "fork" =>
    /\ \A i \in Workers : status[i] \in {Nothing, Value(i) % BYTE}
    /\ phase = "create" => added = {}
    /\ phase = "wait" => added \subseteq 1 .. next - 1

(* The output field holds what it held before, until the thread has ended. *)
OutputInv ==
  program \in {"join", "create"} =>
    /\ total \in Garbage \cup {values[1]}
    /\ worker[1] = "ended" => total = values[1]
    /\ program = "join" /\ phase = "print" => worker[1] = "ended"

AInv == IInv /\ SumInv /\ OutcomeInv /\ LoopInv /\ ForkInv /\ OutputInv

LEMMA WorkersAreFinite ==
  /\ IsFiniteSet(Workers) /\ 1 \in Workers /\ N \in Workers
  /\ \A n \in 0 .. N : 1 .. n \subseteq Workers
<1>1. 1 \in Int /\ N \in Int /\ Workers = 1 .. N
  BY DEF Workers
<1>2. IsFiniteSet(1 .. N)
  BY <1>1, FS_Interval
<1> QED
  BY <1>1, <1>2

LEMMA ContributionsAreInts ==
  ASSUME TypeOK, NEW i \in Workers
  PROVE  /\ Contributions[i] \in Int
         /\ Contributions[i] = IF i \notin added THEN 0
                               ELSE IF program = "fork" THEN Value(i) % BYTE
                               ELSE Value(i)
         /\ Value(i) % BYTE \in Nat
<1>1. Value(i) \in Int /\ Value(i) % BYTE \in Nat
  BY ValueIsInt
<1> QED
  BY <1>1 DEF Contributions, Contribution

(* The program that runs and its input stay.                               *)
LEMMA SameInput == [Next]_vars => UNCHANGED <<program, values>>
BY DEF Next, MainNext, WorkerNext, Failure, AddInLoop, Create, Fail, Join,
       WaitForChild, Output, Lock, Load, Store, Unlock, StoreOutput, Exit,
       ThreadFails, Killed, vars, control

(* A worker's value is brought in: the sum grows by it.                    *)
LEMMA OneAdded ==
  ASSUME TypeOK, TypeOK', SumInv, UNCHANGED <<program, values>>,
         NEW i \in Workers, i \notin added, added' = added \cup {i},
         total' = total + (IF program = "fork" THEN Value(i) % BYTE ELSE Value(i))
  PROVE  SumInv'
<1> DEFINE old == Contributions
           new == Contributions'
<1>1. \A j \in Workers : /\ old[j] \in Int
                         /\ old[j] = IF j \notin added THEN 0
                                     ELSE IF program = "fork" THEN Value(j) % BYTE
                                     ELSE Value(j)
  BY ContributionsAreInts
<1>2. \A j \in Workers : Value(j)' = Value(j)
  BY DEF Value
<1>3. \A j \in Workers : new[j] = IF j \notin added' THEN 0
                                  ELSE IF program = "fork" THEN Value(j) % BYTE
                                  ELSE Value(j)
  BY <1>2 DEF Contributions, Contribution
<1>4. \A j \in Workers : Value(j) \in Int /\ Value(j) % BYTE \in Int
  BY ValueIsInt
<1> HIDE DEF old, new
<1>5. \A j \in Workers : old[j] \in Int /\ new[j] \in Int /\ (j # i => old[j] = new[j])
  BY <1>1, <1>3, <1>4
<1>6. old[i] = 0 /\ new[i] = IF program = "fork" THEN Value(i) % BYTE ELSE Value(i)
  BY <1>1, <1>3
<1>7. Total(old, Workers) - old[i] = Total(new, Workers) - new[i]
  <2> DEFINE W == Workers
  <2>1. /\ IsFiniteSet(W) /\ i \in W
        /\ \A j \in W : old[j] \in Int /\ new[j] \in Int /\ (j # i => old[j] = new[j])
    BY <1>5, WorkersAreFinite
  <2> HIDE DEF W
  <2>2. Total(old, W) - old[i] = Total(new, W) - new[i]
    BY <2>1, TotalUpdate
  <2> QED
    BY <2>2 DEF W
<1>8. Total(old, Workers) \in Int /\ Total(new, Workers) \in Int
  BY <1>5, WorkersAreFinite, TotalInt
<1>9. program \in {"loop", "thread", "fork"} => total' = Total(new, Workers)
  <2>1. program \in {"loop", "thread", "fork"} => total = Total(old, Workers)
    BY DEF SumInv, old
  <2> QED
    BY <2>1, <1>4, <1>6, <1>7, <1>8
<1> QED
  BY <1>9 DEF SumInv, new

LEMMA NoneAdded ==
  ASSUME SumInv, UNCHANGED <<program, values, total, added>>
  PROVE  SumInv'
<1>1. \A i \in Workers : Contribution(i)' = Contribution(i)
  BY DEF Contribution, Value
<1>2. Contributions' = Contributions
  BY <1>1 DEF Contributions
<1> QED
  BY <1>2 DEF SumInv

LEMMA SumStep ==
  ASSUME AInv, [Next]_vars
  PROVE  SumInv'
<1>t. TypeOK /\ TypeOK' /\ SumInv /\ UNCHANGED <<program, values>>
  BY TypeStep, SameInput DEF AInv, IInv
<1>n. next \in Workers /\ next \in Nat
  BY <1>t, SizeIsSmall DEF TypeOK, Workers
<1>1. CASE AddInLoop
  <2>1. /\ program = "loop" /\ phase = "create" /\ total' = total + Value(next)
        /\ added' = added \cup {next}
    BY <1>1 DEF AddInLoop, Main
  <2>2. next \notin added
    BY <2>1, <1>n DEF AInv, LoopInv
  <2>3. total' = total + (IF program = "fork" THEN Value(next) % BYTE ELSE Value(next))
    BY <2>1
  <2> QED
    BY <1>t, <1>n, <2>1, <2>2, <2>3, OneAdded
<1>2. CASE WaitForChild
  <2>1. CASE status[next] = Nothing
    BY <1>2, <2>1, <1>t, NoneAdded DEF WaitForChild
  <2>2. CASE status[next] # Nothing
    <3>1. /\ program = "fork" /\ phase = "wait" /\ total' = total + status[next]
          /\ added' = added \cup {next}
      BY <1>2, <2>2 DEF WaitForChild, Main
    <3>2. next \notin added /\ status[next] = Value(next) % BYTE
      BY <2>2, <3>1, <1>n DEF AInv, ForkInv
    <3>3. total' = total + (IF program = "fork" THEN Value(next) % BYTE ELSE Value(next))
      BY <3>1, <3>2
    <3> QED
      BY <1>t, <1>n, <3>1, <3>2, <3>3, OneAdded
  <2> QED
    BY <2>1, <2>2
<1>3. CASE \E i \in Workers : Store(i)
  <2>1. PICK i \in Workers : Store(i)
    BY <1>3
  <2>2. /\ program = "thread" /\ worker[i] = "loaded" /\ total' = copy[i] + Value(i)
        /\ added' = added \cup {i}
    BY <2>1 DEF Store, Step
  <2>3. copy[i] = total /\ i \notin added
    BY <2>2 DEF AInv, IInv, MutexInv
  <2>4. total' = total + (IF program = "fork" THEN Value(i) % BYTE ELSE Value(i))
    BY <2>2, <2>3
  <2> QED
    BY <1>t, <2>2, <2>3, <2>4, OneAdded
<1>4. CASE \E i \in Workers : StoreOutput(i)
  BY <1>4, <1>t DEF StoreOutput, SumInv
<1>5. CASE Create \/ Fail \/ Join \/ Output
  <2>1. UNCHANGED <<total, added>>
    BY <1>5 DEF Create, Fail, Join, Output
  <2> QED
    BY <1>t, <2>1, NoneAdded
<1>6. ASSUME NEW i \in Workers,
             Lock(i) \/ Load(i) \/ Unlock(i) \/ Exit(i) \/ ThreadFails(i) \/ Killed(i)
      PROVE  SumInv'
  <2>1. UNCHANGED <<total, added>>
    BY <1>6 DEF Lock, Load, Unlock, Exit, ThreadFails, Killed
  <2> QED
    BY <1>t, <2>1, NoneAdded
<1>7. CASE UNCHANGED vars
  BY <1>7, <1>t, NoneAdded DEF vars
<1> QED
  BY <1>1, <1>2, <1>3, <1>4, <1>5, <1>6, <1>7 DEF Next, MainNext, WorkerNext, Failure

LEMMA OutcomeStep ==
  ASSUME AInv, [Next]_vars
  PROVE  OutcomeInv'
<1> SUFFICES ASSUME outcome' = "printed" PROVE printed' = total' /\ phase' = "print"
  BY DEF OutcomeInv
<1>1. CASE AddInLoop \/ Create \/ Join \/ WaitForChild
  BY <1>1 DEF AddInLoop, Create, Join, WaitForChild, Main
<1>2. CASE Output
  BY <1>2 DEF Output, Main
<1>3. CASE Fail \/ \E i \in Workers : ThreadFails(i)
  BY <1>3 DEF Fail, ThreadFails
<1>4. ASSUME NEW i \in Workers,
             Lock(i) \/ Load(i) \/ Unlock(i) \/ Exit(i) \/ Killed(i)
      PROVE  printed' = total' /\ phase' = "print"
  BY <1>4 DEF Lock, Load, Unlock, Exit, Killed, control, AInv, OutcomeInv
<1>5. ASSUME NEW i \in Workers, Store(i) \/ StoreOutput(i)
      PROVE  FALSE
  BY <1>5 DEF Store, StoreOutput, Step, Alive, control
<1>6. CASE UNCHANGED vars
  BY <1>6 DEF vars, control, AInv, OutcomeInv
<1> QED
  BY <1>1, <1>2, <1>3, <1>4, <1>5, <1>6 DEF Next, MainNext, WorkerNext, Failure

LEMMA LoopStep ==
  ASSUME AInv, [Next]_vars
  PROVE  LoopInv'
<1> SUFFICES ASSUME program' = "loop"
             PROVE  \/ phase' = "create" /\ added' = 1 .. next' - 1
                    \/ phase' = "print" /\ added' = Workers
  BY DEF LoopInv
<1>1. program = "loop" /\ Size = N /\ next \in 1 .. N /\ Workers = 1 .. N
  <2>1. program = "loop"
    BY SameInput
  <2> QED
    BY <2>1 DEF AInv, IInv, TypeOK, Size, Workers
<1>2. CASE AddInLoop
  <2>1. added = 1 .. next - 1 /\ added' = added \cup {next}
    BY <1>1, <1>2 DEF AddInLoop, Main, AInv, LoopInv
  <2>2. added' = 1 .. next
    BY <1>1, <2>1
  <2>3. IF next < N THEN next' = next + 1 /\ phase' = phase /\ phase = "create"
        ELSE phase' = "print"
    BY <1>1, <1>2 DEF AddInLoop, Advance, Goto, Main
  <2> QED
    BY <1>1, <2>2, <2>3
<1>3. CASE Output \/ UNCHANGED vars
  BY <1>1, <1>3 DEF Output, vars, control, AInv, LoopInv
<1>4. ~Create /\ ~Fail /\ ~Join /\ ~WaitForChild
  BY <1>1 DEF Create, Fail, Join, WaitForChild
<1>5. \A i \in Workers : ~WorkerNext(i) /\ ~ThreadFails(i) /\ ~Killed(i)
  BY <1>1 DEF WorkerNext, Lock, Load, Store, Unlock, StoreOutput, Exit, ThreadFails, Killed
<1> QED
  BY <1>2, <1>3, <1>4, <1>5 DEF Next, MainNext, Failure

LEMMA ForkStep ==
  ASSUME AInv, [Next]_vars
  PROVE  ForkInv'
<1> SUFFICES ASSUME program' = "fork"
             PROVE  /\ \A i \in Workers : status'[i] \in {Nothing, Value(i)' % BYTE}
                    /\ phase' = "create" => added' = {}
                    /\ phase' = "wait" => added' \subseteq 1 .. next' - 1
  BY DEF ForkInv
<1>1. /\ program = "fork" /\ Size = N /\ next \in 1 .. N /\ Workers = 1 .. N
      /\ status \in [Workers -> Int]
      /\ \A i \in Workers : Value(i)' = Value(i)
  <2>1. program = "fork" /\ UNCHANGED values
    BY SameInput
  <2> QED
    BY <2>1 DEF AInv, IInv, TypeOK, Size, Workers, Value
<1>2. /\ \A i \in Workers : status[i] \in {Nothing, Value(i) % BYTE}
      /\ phase = "create" => added = {}
      /\ phase = "wait" => added \subseteq 1 .. next - 1
  BY <1>1 DEF AInv, ForkInv
<1>3. CASE Create
  BY <1>1, <1>2, <1>3 DEF Create, Advance, Goto, Main
<1>4. CASE WaitForChild
  <2>1. /\ phase = "wait" /\ status' = status
        /\ added' \subseteq added \cup {next}
    BY <1>4 DEF WaitForChild, Main
  <2>2. added' \subseteq 1 .. next
    BY <2>1, <1>1, <1>2
  <2>3. IF next < N THEN next' = next + 1 /\ phase' = "wait" ELSE phase' = "print"
    BY <1>1, <1>4 DEF WaitForChild, Advance, Goto, Main
  <2>4. next < N => added' \subseteq 1 .. next' - 1
    BY <1>1, <2>2, <2>3
  <2> QED
    BY <1>1, <1>2, <2>1, <2>3, <2>4
<1>5. CASE Fail \/ Output \/ UNCHANGED vars
  BY <1>1, <1>2, <1>5 DEF Fail, Output, vars, control
<1>6. ASSUME NEW i \in Workers, Exit(i) \/ Killed(i)
      PROVE  /\ \A j \in Workers : status'[j] \in {Nothing, Value(j)' % BYTE}
             /\ UNCHANGED <<phase, next, added>>
  BY <1>1, <1>2, <1>6 DEF Exit, Killed, control
<1>7. ~AddInLoop /\ ~Join
  BY <1>1 DEF AddInLoop, Join
<1>8. \A i \in Workers : /\ ~Lock(i) /\ ~Load(i) /\ ~Store(i) /\ ~Unlock(i)
                         /\ ~StoreOutput(i) /\ ~ThreadFails(i)
  BY <1>1 DEF Lock, Load, Store, Unlock, StoreOutput, ThreadFails
<1>9. CASE \E i \in Workers : Exit(i) \/ Killed(i)
  BY <1>2, <1>6, <1>9
<1> QED
  BY <1>3, <1>4, <1>5, <1>7, <1>8, <1>9 DEF Next, MainNext, WorkerNext, Failure

LEMMA OutputStep ==
  ASSUME AInv, [Next]_vars
  PROVE  OutputInv'
<1> SUFFICES ASSUME program' \in {"join", "create"}
             PROVE  /\ total' \in Garbage \cup {values'[1]}
                    /\ worker'[1] = "ended" => total' = values'[1]
                    /\ program' = "join" /\ phase' = "print" => worker'[1] = "ended"
  BY DEF OutputInv
<1>1. /\ program \in {"join", "create"} /\ program' = program /\ values' = values
      /\ Size = 1 /\ next = 1 /\ 1 \in Workers
      /\ worker \in [Workers -> {"none", "ready", "locked", "loaded", "stored", "ended"}]
  <2>1. program \in {"join", "create"} /\ program' = program /\ values' = values
    BY SameInput
  <2>2. Size = 1 /\ next \in 1 .. Size
    BY <2>1 DEF AInv, IInv, TypeOK, Size
  <2> QED
    BY <2>1, <2>2, WorkersAreFinite DEF AInv, IInv, TypeOK
<1>2. /\ total \in Garbage \cup {values[1]}
      /\ worker[1] = "ended" => total = values[1]
      /\ program = "join" /\ phase = "print" => worker[1] = "ended"
  BY <1>1 DEF AInv, OutputInv
<1>3. CASE Create
  <2>1. /\ total' = total /\ worker'[1] = "ready" /\ phase = "create"
        /\ program = "join" => phase' = "wait"
    BY <1>1, <1>3 DEF Create, Main, Advance, Goto
  <2> QED
    BY <1>1, <1>2, <2>1
<1>4. CASE Join
  BY <1>1, <1>2, <1>4 DEF Join
<1>5. CASE Fail \/ Output \/ UNCHANGED vars
  BY <1>1, <1>2, <1>5 DEF Fail, Output, vars, control
<1>6. CASE \E i \in Workers : StoreOutput(i)
  <2>1. PICK i \in Workers : StoreOutput(i)
    BY <1>6
  <2>2. i = 1 /\ total' = values[i] /\ worker' = [worker EXCEPT ![i] = "ended"]
    BY <1>1, <2>1 DEF StoreOutput, Step, Alive
  <2> QED
    BY <1>1, <2>2
<1>7. ~AddInLoop /\ ~WaitForChild
  BY <1>1 DEF AddInLoop, WaitForChild
<1>8. \A i \in Workers : /\ ~Lock(i) /\ ~Load(i) /\ ~Store(i) /\ ~Unlock(i)
                         /\ ~Exit(i) /\ ~ThreadFails(i) /\ ~Killed(i)
  BY <1>1 DEF Lock, Load, Store, Unlock, Exit, ThreadFails, Killed
<1> QED
  BY <1>3, <1>4, <1>5, <1>6, <1>7, <1>8 DEF Next, MainNext, WorkerNext, Failure

LEMMA InitAInv == Init => AInv
<1> SUFFICES ASSUME Init PROVE AInv
  OBVIOUS
<1>1. IInv
  BY InitIInv
<1>2. \A i \in Workers : Contributions[i] = 0
  BY DEF Init, Contributions, Contribution
<1>3. Total(Contributions, Workers) = 0
  BY <1>2, WorkersAreFinite, TotalZero
<1>4. SumInv /\ OutcomeInv
  BY <1>3 DEF Init, SumInv, OutcomeInv
<1>5. 1 .. 1 - 1 = {}
  OBVIOUS
<1>6. LoopInv /\ ForkInv
  BY <1>5 DEF Init, LoopInv, ForkInv
<1>7. OutputInv
  BY WorkersAreFinite DEF Init, OutputInv
<1> QED
  BY <1>1, <1>4, <1>6, <1>7 DEF AInv

LEMMA AInvHolds == Spec => []AInv
<1>1. AInv /\ [Next]_vars => AInv'
  BY TypeStep, MutexStep, JoinStep, SumStep, OutcomeStep, LoopStep, ForkStep, OutputStep
     DEF AInv, IInv
<1> QED
  BY InitAInv, <1>1, PTL DEF Spec

(* The sum in the order of the loop, a recursive function, is that sum.    *)
LEMMA SumToIsTotal ==
  ASSUME TypeOK
  PROVE  SumTo[N] = Total(Contributions, Workers)
<1> DEFINE P(f) == f = [n \in 0 .. N |-> IF n = 0 THEN 0 ELSE f[n - 1] + Contribution(n)]
           sums == [n \in 0 .. N |-> Total(Contributions, 1 .. n)]
<1>1. Total(Contributions, 1 .. 0) = 0
  <2>1. 1 .. 0 = {}
    OBVIOUS
  <2> QED
    BY <2>1, TotalEmpty
<1>2. ASSUME NEW n \in 1 .. N
      PROVE  /\ n - 1 \in 0 .. N
             /\ Total(Contributions, 1 .. n)
                  = Total(Contributions, 1 .. n - 1) + Contribution(n)
  <2> DEFINE S == 1 .. n - 1
  <2>1. /\ n - 1 \in 0 .. N /\ n \notin S /\ S \cup {n} = 1 .. n
        /\ S \cup {n} \subseteq Workers /\ S \subseteq Workers
    BY DEF Workers
  <2>2. IsFiniteSet(S)
    BY <2>1, WorkersAreFinite, FS_Subset
  <2>3. \A i \in S \cup {n} : Contributions[i] \in Int
    BY <2>1, ContributionsAreInts
  <2>4. n \in Workers /\ Contributions[n] = Contribution(n)
    BY <2>1 DEF Contributions
  <2>5. Contributions[n] \in Int
    BY <2>4, ContributionsAreInts
  <2> DEFINE w == Contributions
  <2> HIDE DEF S, w
  <2>6. IsFiniteSet(S) /\ n \notin S /\ (\A i \in S \cup {n} : w[i] \in Int)
        /\ \A i \in S : w[i] \in Int
    BY <2>1, <2>2, <2>3 DEF w
  <2>7. Total(w, S \cup {n}) = w[n] + Total(w, S)
    BY <2>6, TotalAdd
  <2>8. Total(w, S) \in Int
    BY <2>6, TotalInt
  <2>9. Total(w, 1 .. n) = w[n] + Total(w, 1 .. n - 1)
    BY <2>1, <2>7 DEF S
  <2>10. Total(w, 1 .. n - 1) \in Int /\ w[n] \in Int /\ w[n] = Contribution(n)
    BY <2>4, <2>5, <2>8 DEF S, w
  <2>11. Total(w, 1 .. n) = Total(w, 1 .. n - 1) + Contribution(n)
    BY <2>9, <2>10
  <2> QED
    BY <2>1, <2>11 DEF w
<1>3. P(sums)
  <2>1. \A n \in 0 .. N : n = 0 \/ n \in 1 .. N
    OBVIOUS
  <2> QED
    BY <1>1, <1>2, <2>1
<1>4. P(SumTo)
  <2> HIDE DEF P, sums
  <2>1. P(CHOOSE f : P(f))
    BY <1>3
  <2>2. SumTo = CHOOSE f : P(f)
    BY DEF SumTo, P
  <2> QED
    BY <2>1, <2>2
<1> DEFINE agreed == {n \in Nat : n <= N => SumTo[n] = Total(Contributions, 1 .. n)}
<1>5. 0 \in agreed
  BY <1>1, <1>4
<1>6. ASSUME NEW n \in Nat, n \in agreed PROVE n + 1 \in agreed
  <2> SUFFICES ASSUME n + 1 <= N PROVE SumTo[n + 1] = Total(Contributions, 1 .. n + 1)
    BY <1>6
  <2>1. n + 1 \in 1 .. N /\ n + 1 \in 0 .. N /\ n + 1 # 0 /\ (n + 1) - 1 = n /\ n <= N
    BY <1>6
  <2>2. SumTo[n + 1] = SumTo[n] + Contribution(n + 1)
    BY <1>4, <2>1
  <2>3. SumTo[n] = Total(Contributions, 1 .. n)
    BY <1>6, <2>1
  <2>4. Total(Contributions, 1 .. n + 1)
          = Total(Contributions, 1 .. (n + 1) - 1) + Contribution(n + 1)
    BY <1>2, <2>1
  <2> QED
    BY <2>1, <2>2, <2>3, <2>4
<1>7. N \in agreed
  <2> HIDE DEF agreed
  <2>1. Nat \subseteq agreed
    BY <1>5, <1>6, InductionOnNat
  <2> QED
    BY <2>1
<1> QED
  BY <1>7 DEF Workers

(* However the threads and the children are scheduled, the total that is   *)
(* printed is the sum of the loop, of what was not killed; the output of a *)
(* thread that was waited for is its own.                                  *)
THEOREM PrintedTotalIsSum == Spec => []PrintedTotal
<1>1. AInv => PrintedTotal
  <2> SUFFICES ASSUME AInv, outcome = "printed"
               PROVE  /\ EveryThreadAdded
                      /\ program = "loop" => added = Workers
                      /\ program \in {"loop", "thread", "fork"} => printed = SumTo[N]
                      /\ program = "join" => printed = values[1]
                      /\ program = "create" => printed \in Garbage \cup {values[1]}
    BY DEF PrintedTotal
  <2>1. printed = total /\ phase = "print"
    BY DEF AInv, OutcomeInv
  <2>2. EveryThreadAdded
    BY DEF AInv, IInv, TypeOK, MutexInv, JoinInv, EveryThreadAdded
  <2>3. program \in {"loop", "thread", "fork"} => printed = SumTo[N]
    BY <2>1, SumToIsTotal DEF AInv, IInv, SumInv
  <2>4. program = "loop" => added = Workers
    BY <2>1 DEF AInv, LoopInv
  <2>5. /\ program = "join" => printed = values[1]
        /\ program = "create" => printed \in Garbage \cup {values[1]}
    BY <2>1 DEF AInv, OutputInv
  <2> QED
    BY <2>2, <2>3, <2>4, <2>5
<1> QED
  BY AInvHolds, <1>1, PTL
=============================================================================

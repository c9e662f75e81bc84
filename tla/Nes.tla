--------------------------------- MODULE Nes --------------------------------
(***************************************************************************)
(* The processor of the NES emulator (src/litenes/src/cpu.c and            *)
(* cpu-addressing.c), the bus (memory.c), the cartridge (mmc.c) and the    *)
(* joystick (psg.c).  n is the whole console: the registers, ram, rom (the *)
(* cartridge's memory), the joystick's shift position joy and keys, the    *)
(* picture unit ppu, and the operand of the current instruction.           *)
(* Instruction bytes and stacks lie in ram or rom; an operand may be a     *)
(* register of a device, whose read has an effect.                         *)
(***************************************************************************)
EXTENDS NesPpu, Sequences

CARRY == 0
ZERO == 1
INTERRUPT == 2
DECIMAL == 3
BREAK == 4
UNUSED == 5
OVERFLOW == 6
NEGATIVE == 7

Byte(x) == x % 256
Word(x) == x % 65536

-----------------------------------------------------------------------------
(* The bus *)

\* After a strobe the reads shift through the eight buttons; keys maps the
\* position to the state of its key, and later reads give 0.
psgio_value(n, a) ==
  IF a = 16406 /\ n.joy < 9 THEN Get(n.keys, n.joy + 1) ELSE 0
psgio_read(n, a) == IF a = 16406 THEN [n EXCEPT !.joy = @ + 1] ELSE n
psgio_write(n, a, v) ==
  [n EXCEPT !.joy = IF a = 16406 /\ v % 2 = 0 /\ n.prev_write = 1 THEN 0 ELSE @,
            !.prev_write = v % 2]

memory_value(n, a) ==
  LET w == Word(a) IN
  CASE w \div 8192 \in {0, 3} -> Get(n.ram, w % 2048)
    [] w \div 8192 = 1 -> ppuio_value(n.ppu, w)
    [] w \div 8192 = 2 -> psgio_value(n, w)
    [] OTHER -> Get(n.rom, w)

\* What a read changes.
memory_readb(n, a) ==
  LET w == Word(a) IN
  CASE w \div 8192 = 1 -> [n EXCEPT !.ppu = ppuio_read(@, w)]
    [] w \div 8192 = 2 -> psgio_read(n, w)
    [] OTHER -> n

\* A store to 0x4014 copies a page of ram to the sprites.  The cartridge is
\* the plain one (mmc_id 0), whose stores switch no page.
memory_writeb(n, a, v) ==
  LET w == Word(a)
      dma[i \in 0..256] ==
        IF i = 0 THEN n.ppu
        ELSE ppu_sprram_write(dma[i - 1], Get(n.ram, (256 * v + i - 1) % 2048))
  IN CASE w = 16404 -> [n EXCEPT !.ppu = dma[256]]
       [] w \div 8192 \in {0, 3} -> [n EXCEPT !.ram = Put(@, w % 2048, v)]
       [] w \div 8192 = 1 -> [n EXCEPT !.ppu = ppuio_write(@, w, v)]
       [] w \div 8192 = 2 -> psgio_write(n, w, v)
       [] OTHER -> [n EXCEPT !.rom = Put(@, w, v)]

memory_readw(n, a) == memory_value(n, a) + 256 * memory_value(n, a + 1)
memory_writew(n, a, v) == memory_writeb(memory_writeb(n, a, v % 256), a + 1, v \div 256)

\* The stack: a word is stored at 0xFF + SP, so that it wraps out of the page
\* when SP is 0.
cpu_stack_pushb(n, v) == [memory_writeb(n, 256 + n.SP, v) EXCEPT !.SP = Byte(@ - 1)]
cpu_stack_pushw(n, v) == [memory_writew(n, 255 + n.SP, v) EXCEPT !.SP = Byte(@ - 2)]
cpu_stack_top(n) == memory_value(n, 256 + Byte(n.SP + 1))
cpu_stack_popb(n) == [n EXCEPT !.SP = Byte(@ + 1)]
cpu_stack_topw(n) == memory_readw(n, 255 + Byte(n.SP + 2))
cpu_stack_popw(n) == [n EXCEPT !.SP = Byte(@ + 2)]

cpu_nmi_interrupt_address(n) == memory_readw(n, 65530)
cpu_reset_interrupt_address(n) == memory_readw(n, 65532)

-----------------------------------------------------------------------------
(* Addressing: op_address, op_value, op_cycles and the new PC *)

Operand(n, addr, size) ==
  [memory_readb(n, addr) EXCEPT !.op_address = addr, !.op_value = memory_value(n, addr),
                                !.PC = Word(@ + size)]

\* A cycle more when the address is not in the page of the next instruction.
Paged(n) == IF n.op_address \div 256 # n.PC \div 256
            THEN [n EXCEPT !.op_cycles = @ + 1] ELSE n

\* The zero page is read past the bus.
ZeroPage(n, a) == [n EXCEPT !.op_address = a, !.op_value = Get(n.ram, a), !.PC = Word(@ + 1)]

Indirect(n, a) == memory_value(n, Byte(a)) + 256 * memory_value(n, Byte(a + 1))

cpu_address(n, mode) ==
  LET arg == memory_value(n, n.PC)
      argw == memory_readw(n, n.PC)
      rel == IF arg >= 128 THEN arg - 256 ELSE arg
  IN CASE mode = "implied" -> n
       [] mode = "immediate" -> [n EXCEPT !.op_value = arg, !.PC = Word(@ + 1)]
       [] mode = "zero_page" -> ZeroPage(n, arg)
       [] mode = "zero_page_x" -> ZeroPage(n, Byte(arg + n.X))
       [] mode = "zero_page_y" -> ZeroPage(n, Byte(arg + n.Y))
       [] mode = "absolute" -> Operand(n, argw, 2)
       [] mode = "absolute_x" -> Paged(Operand(n, argw + n.X, 2))
       [] mode = "absolute_y" -> Paged(Operand(n, Word(argw + n.Y), 2))
       [] mode = "relative" ->
            Paged([n EXCEPT !.PC = Word(@ + 1), !.op_address = Word(n.PC + 1) + rel])
       [] mode = "indirect" ->
            [n EXCEPT !.PC = Word(@ + 2),
                      !.op_address = memory_value(n, argw) + 256 *
                        memory_value(n, IF argw % 256 = 255 THEN argw - 255 ELSE argw + 1)]
       [] mode = "indirect_x" -> Operand(n, Indirect(n, arg + n.X), 1)
       [] mode = "indirect_y" -> Paged(Operand(n, Word(Indirect(n, arg) + n.Y), 1))

-----------------------------------------------------------------------------
(* The operations *)

Flag(n, k) == common_bit_set(n.P, k)
SetFlag(n, k, b) == [n EXCEPT !.P = common_modify_bitb(@, k, b)]
cpu_update_zn_flags(n, v) == SetFlag(SetFlag(n, ZERO, v = 0), NEGATIVE, v >= 128)

\* r := v, with the flags of v.
Load(n, r, v) == cpu_update_zn_flags([n EXCEPT ![r] = v], v)
cpu_branch(n, b) == IF b THEN [n EXCEPT !.PC = Word(n.op_address)] ELSE n
cpu_compare(n, reg) ==
  LET result == reg - n.op_value
  IN SetFlag(SetFlag(SetFlag(n, CARRY, result >= 0), ZERO, result = 0),
             NEGATIVE, common_bit_set(result % 256, 7))

\* Signed overflow, from the sign bits of the operands and of the result.
Sign(x) == common_bit_set(x % 256, 7)

cpu_op_adc(n) ==
  LET result == n.A + n.op_value + (IF Flag(n, CARRY) THEN 1 ELSE 0)
  IN Load(SetFlag(SetFlag(n, CARRY, result >= 256), OVERFLOW,
                  Sign(n.A) = Sign(n.op_value) /\ Sign(n.A) # Sign(result)),
          "A", Byte(result))

cpu_op_sbc(n) ==
  LET result == n.A - n.op_value - (IF Flag(n, CARRY) THEN 0 ELSE 1)
  IN Load(SetFlag(SetFlag(n, CARRY, result >= 0), OVERFLOW,
                  Sign(n.A) # Sign(n.op_value) /\ Sign(n.A) # Sign(result)),
          "A", Byte(result))

\* The shifts and rotations of a byte v: the result and the carry out.
Shift(n, op, v) ==
  LET c == IF Flag(n, CARRY) THEN 1 ELSE 0
  IN CASE op = "asl" -> [v |-> Byte(2 * v), c |-> v >= 128]
       [] op = "lsr" -> [v |-> v \div 2, c |-> v % 2 = 1]
       [] op = "rol" -> [v |-> Byte(2 * v + c), c |-> v >= 128]
       [] op = "ror" -> [v |-> v \div 2 + 128 * c, c |-> v % 2 = 1]

ShiftA(n, op) == LET s == Shift(n, op, n.A) IN Load(SetFlag(n, CARRY, s.c), "A", s.v)
ShiftM(n, op) ==
  LET s == Shift(n, op, n.op_value)
  IN [cpu_update_zn_flags(memory_writeb(SetFlag(n, CARRY, s.c), n.op_address, s.v), s.v)
        EXCEPT !.op_value = s.v]

\* inc and dec write v; the undocumented forms keep it as the operand too.
Modify(n, v) == cpu_update_zn_flags(memory_writeb(n, n.op_address, v), v)
Modified(n, v) == [memory_writeb(n, n.op_address, v) EXCEPT !.op_value = v]

cpu_op_jsr(n) == [cpu_stack_pushw(n, Word(n.PC - 1)) EXCEPT !.PC = Word(n.op_address)]
cpu_op_rts(n) == [cpu_stack_popw(n) EXCEPT !.PC = Word(cpu_stack_topw(n) + 1)]
cpu_op_brk(n) ==
  LET pushed == cpu_stack_pushb(cpu_stack_pushw(n, Word(n.PC - 1)), n.P)
  IN [pushed EXCEPT !.P = common_set_bitb(common_set_bitb(@, UNUSED), BREAK),
                    !.PC = cpu_nmi_interrupt_address(pushed)]

\* Flags first, then the return address.
cpu_op_rti_Swapped(n) ==
  LET m == cpu_stack_popw(n)
  IN [cpu_stack_popb(m) EXCEPT !.P = common_set_bitb(cpu_stack_top(m), UNUSED),
                               !.PC = cpu_stack_topw(n)]
cpu_op_rti(n) ==
  LET m == cpu_stack_popb(n)
  IN [cpu_stack_popw(m) EXCEPT !.P = common_set_bitb(cpu_stack_top(n), UNUSED),
                               !.PC = cpu_stack_topw(m)]

\* cpu_op_handler[op]: the effect of each operation on its operand.
cpu_op_handler(n, op) ==
  LET v == n.op_value IN
  CASE op \in {"nop", "____FE____"} -> n
    [] op = "adc" -> cpu_op_adc(n)
    [] op = "sbc" -> cpu_op_sbc(n)
    [] op = "and" -> Load(n, "A", n.A & v)
    [] op = "eor" -> Load(n, "A", n.A ^^ v)
    [] op = "ora" -> Load(n, "A", n.A | v)
    [] op = "bit" -> SetFlag(SetFlag(SetFlag(n, ZERO, n.A & v = 0),
                       OVERFLOW, common_bit_set(v, 6)), NEGATIVE, common_bit_set(v, 7))
    [] op = "asla" -> ShiftA(n, "asl")
    [] op = "lsra" -> ShiftA(n, "lsr")
    [] op = "rola" -> ShiftA(n, "rol")
    [] op = "rora" -> ShiftA(n, "ror")
    [] op \in {"asl", "lsr", "rol", "ror"} -> ShiftM(n, op)
    [] op = "lda" -> Load(n, "A", v)
    [] op = "ldx" -> Load(n, "X", v)
    [] op = "ldy" -> Load(n, "Y", v)
    [] op = "sta" -> memory_writeb(n, n.op_address, n.A)
    [] op = "stx" -> memory_writeb(n, n.op_address, n.X)
    [] op = "sty" -> memory_writeb(n, n.op_address, n.Y)
    [] op = "tax" -> Load(n, "X", n.A)
    [] op = "txa" -> Load(n, "A", n.X)
    [] op = "tay" -> Load(n, "Y", n.A)
    [] op = "tya" -> Load(n, "A", n.Y)
    [] op = "tsx" -> Load(n, "X", n.SP)
    [] op = "txs" -> [n EXCEPT !.SP = n.X]
    [] op = "bcs" -> cpu_branch(n, Flag(n, CARRY))
    [] op = "beq" -> cpu_branch(n, Flag(n, ZERO))
    [] op = "bmi" -> cpu_branch(n, Flag(n, NEGATIVE))
    [] op = "bvs" -> cpu_branch(n, Flag(n, OVERFLOW))
    [] op = "bcc" -> cpu_branch(n, ~Flag(n, CARRY))
    [] op = "bne" -> cpu_branch(n, ~Flag(n, ZERO))
    [] op = "bpl" -> cpu_branch(n, ~Flag(n, NEGATIVE))
    [] op = "bvc" -> cpu_branch(n, ~Flag(n, OVERFLOW))
    [] op = "jmp" -> cpu_branch(n, TRUE)
    [] op = "jsr" -> cpu_op_jsr(n)
    [] op = "rts" -> cpu_op_rts(n)
    [] op = "brk" -> cpu_op_brk(n)
    [] op = "rti" -> cpu_op_rti(n)
    [] op = "clc" -> SetFlag(n, CARRY, FALSE)
    [] op = "cld" -> SetFlag(n, DECIMAL, FALSE)
    [] op = "cli" -> SetFlag(n, INTERRUPT, FALSE)
    [] op = "clv" -> SetFlag(n, OVERFLOW, FALSE)
    [] op = "sec" -> SetFlag(n, CARRY, TRUE)
    [] op = "sed" -> SetFlag(n, DECIMAL, TRUE)
    [] op = "sei" -> SetFlag(n, INTERRUPT, TRUE)
    [] op = "cmp" -> cpu_compare(n, n.A)
    [] op = "cpx" -> cpu_compare(n, n.X)
    [] op = "cpy" -> cpu_compare(n, n.Y)
    [] op = "inc" -> Modify(n, Byte(v + 1))
    [] op = "dec" -> Modify(n, Byte(v - 1))
    [] op = "inx" -> Load(n, "X", Byte(n.X + 1))
    [] op = "iny" -> Load(n, "Y", Byte(n.Y + 1))
    [] op = "dex" -> Load(n, "X", Byte(n.X - 1))
    [] op = "dey" -> Load(n, "Y", Byte(n.Y - 1))
    [] op = "php" -> cpu_stack_pushb(n, common_set_bitb(common_set_bitb(n.P, BREAK), UNUSED))
    [] op = "pha" -> cpu_stack_pushb(n, n.A)
    [] op = "pla" -> Load(cpu_stack_popb(n), "A", cpu_stack_top(n))
    [] op = "plp" -> [cpu_stack_popb(n) EXCEPT
                        !.P = common_set_bitb(common_unset_bitb(cpu_stack_top(n), BREAK), UNUSED)]
    [] op = "aso" -> LET m == ShiftM(n, "asl") IN Load(m, "A", m.A | m.op_value)
    [] op = "lse" -> LET m == ShiftM(n, "lsr") IN Load(m, "A", m.A ^^ m.op_value)
    [] op = "rla" -> LET m == ShiftM(n, "rol") IN Load(m, "A", m.A & m.op_value)
    [] op = "rra" -> cpu_op_adc(ShiftM(n, "ror"))
    [] op = "axa" -> memory_writeb(n, n.op_address, (n.A & n.X) & (n.op_address \div 256))
    [] op = "axs" -> memory_writeb(n, n.op_address, n.A & n.X)
    [] op = "dcm" -> LET m == Modified(n, Byte(v - 1)) IN cpu_compare(m, m.A)
    [] op = "ins" -> cpu_op_sbc(Modified(n, Byte(v + 1)))
    [] op = "lax" -> Load([n EXCEPT !.X = v], "A", v)

-----------------------------------------------------------------------------
(***************************************************************************)
(* cpu_init's tables.  An opcode is a row (its top three bits), a column   *)
(* (the next three) and a quarter (the last two); "" where the tables have *)
(* no entry and the instruction is skipped at no cost.                     *)
(***************************************************************************)
Row(o) == (o \div 32) + 1
Col(o) == ((o \div 4) % 8) + 1

\* The operations of the four quarters.
Quarter0 == <<
  <<"brk", "jsr", "rti", "rts", "____FE____", "ldy", "cpy", "cpx">>,
  <<"____FE____", "bit", "____FE____", "____FE____", "sty", "ldy", "cpy", "cpx">>,
  <<"php", "plp", "pha", "pla", "dey", "tay", "iny", "inx">>,
  <<"____FE____", "bit", "jmp", "jmp", "sty", "ldy", "cpy", "cpx">>,
  <<"bpl", "bmi", "bvc", "bvs", "bcc", "bcs", "bne", "beq">>,
  <<"____FE____", "____FE____", "____FE____", "____FE____", "sty", "ldy",
    "____FE____", "____FE____">>,
  <<"clc", "sec", "cli", "sei", "tya", "clv", "cld", "sed">>,
  <<"____FE____", "____FE____", "____FE____", "____FE____", "", "ldy",
    "____FE____", "____FE____">> >>
Group1 == <<"ora", "and", "eor", "adc", "sta", "lda", "cmp", "sbc">>
Group2 == <<"asl", "rol", "lsr", "ror", "stx", "ldx", "dec", "inc">>
Quarter2Implied == <<
  <<"asla", "rola", "lsra", "rora", "txa", "tax", "dex", "nop">>,
  <<"____FE____", "____FE____", "____FE____", "____FE____", "txs", "tsx",
    "____FE____", "____FE____">> >>
Group3 == <<"aso", "rla", "lse", "rra", "axs", "lax", "dcm", "ins">>

Handler(o) ==
  LET r == Row(o)
      c == Col(o)
  IN CASE o % 4 = 0 -> Quarter0[c][r]
       [] o % 4 = 1 -> IF o = 137 THEN "" ELSE Group1[r]
       [] o % 4 = 2 -> CASE c = 1 -> IF r = 6 THEN "ldx" ELSE ""
                         [] c = 3 -> Quarter2Implied[1][r]
                         [] c = 5 -> ""
                         [] c = 7 -> Quarter2Implied[2][r]
                         [] OTHER -> IF o = 158 THEN "" ELSE Group2[r]
       [] OTHER -> CASE c = 3 -> IF o = 235 THEN "sbc" ELSE ""
                     [] r = 5 /\ c \in {5, 8} -> "axa"
                     [] c = 7 /\ r \in {5, 6} -> ""
                     [] OTHER -> Group3[r]

\* The columns' addressing modes; row 5 and 6 index the X forms by Y.
Modes1 == <<"indirect_x", "zero_page", "immediate", "absolute",
            "indirect_y", "zero_page_x", "absolute_y", "absolute_x">>
Mode(o) ==
  LET r == Row(o)
      c == Col(o)
      byY == r \in {5, 6}
  IN CASE o % 4 = 0 ->
            CASE c = 1 -> IF r >= 5 THEN "immediate" ELSE IF r = 2 THEN "absolute" ELSE "implied"
              [] c \in {3, 7} -> "implied"
              [] c = 5 -> "relative"
              [] o = 108 -> "indirect"
              [] OTHER -> Modes1[c]
       [] o % 4 = 1 -> Modes1[c]
       [] o % 4 = 2 -> CASE c = 1 -> "immediate"
                         [] c \in {3, 7} -> "implied"
                         [] c = 6 /\ byY -> "zero_page_y"
                         [] c = 8 /\ byY -> "absolute_y"
                         [] OTHER -> Modes1[c]
       [] OTHER -> CASE c = 6 /\ byY -> "zero_page_y"
                     [] c = 8 /\ byY -> "absolute_y"
                     [] OTHER -> Modes1[c]

\* Cycles: by the mode and what the operation does with its operand.  AND
\* absolute has the cycles of the immediate form.
Cycles(o) ==
  LET op == Handler(o)
      c == Col(o)
  IN CASE op = "" -> 0
       [] op = "____FE____" -> 1
       [] op \in {"brk"} -> 7
       [] op \in {"jsr", "rti", "rts"} -> 6
       [] op \in {"php", "pha"} -> 3
       [] op \in {"plp", "pla"} -> 4
       [] op = "jmp" -> IF o = 108 THEN 5 ELSE 3
       [] o = 45 -> 2
       [] Mode(o) \in {"implied", "relative", "immediate"} -> 2
       [] op \in {"sta", "axa"} -> <<6, 3, 0, 4, 6, 4, 5, 5>>[c]
       [] o % 4 = 2 /\ op \notin {"stx", "ldx"} -> <<0, 5, 0, 6, 0, 6, 0, 7>>[c]
       [] o % 4 = 3 /\ op \notin {"axs", "lax", "axa"} -> <<8, 5, 0, 6, 8, 6, 7, 7>>[c]
       [] OTHER -> <<6, 3, 2, 4, 5, 4, 4, 4>>[c]

-----------------------------------------------------------------------------
(* The life of the processor *)

cpu_reset(n) == [n EXCEPT !.PC = cpu_reset_interrupt_address(n), !.SP = Byte(@ - 3),
                          !.P = common_set_bitb(@, INTERRUPT)]

\* fce_load_rom: the program, a single block of it twice, and the first page of
\* pictures.  -1 for a bad signature or mapper; a second page of pictures fails
\* the assertion of mmc_append_chr_rom_page.
Panic == "panic"
fce_load_rom(cart) ==
  LET once == cart.prg_block_count = 1
      at == {32768 + d + k : d \in DOMAIN cart.prg, k \in IF once THEN {0, 16384} ELSE {0}}
  IN CASE cart.signature # "NES" \/ cart.mmc_id \notin {0, 3} -> [ret |-> -1]
       [] cart.chr_block_count > 1 -> [ret |-> Panic]
       [] OTHER -> [ret |-> 0, chr |-> cart.chr, rom_type |-> cart.rom_type,
                    rom |-> [a \in at |-> cart.prg[IF once THEN a % 16384 ELSE a - 32768]]]

\* cpu_init, ppu_init, ppu_set_mirroring, cpu_reset.
fce_init(loaded) ==
  cpu_reset([A |-> 0, X |-> 0, Y |-> 0, P |-> 36, SP |-> 0, PC |-> 0,
             ram |-> Empty, rom |-> loaded.rom,
             ppu |-> [ppu_init(loaded.rom_type % 2) EXCEPT !.ram = loaded.chr],
             joy |-> 10, prev_write |-> 0, keys |-> Empty,
             op_value |-> 0, op_address |-> 0, op_cycles |-> 0, cycles |-> 0])

\* The pending key events reach the joystick: key -> down.
psg_detect_key(n, events) == [n EXCEPT !.keys = events @@ @]

\* The interrupt flag is set before the flags are saved.
cpu_interrupt(n) ==
  LET m == [n EXCEPT !.P = common_unset_bitb(common_set_bitb(@, INTERRUPT), UNUSED)]
      pushed == cpu_stack_pushb(cpu_stack_pushw(m, m.PC), m.P)
  IN IF ppu_generates_nmi(n.ppu)
     THEN [pushed EXCEPT !.PC = cpu_nmi_interrupt_address(pushed)]
     ELSE n

\* One turn of cpu_run's loop and its cost.  cpu_cycles is unsigned and counts
\* down from 0: it is kept as 0 or, once it has wrapped, as -1.
cpu_step(n) ==
  LET o == memory_value(n, n.PC)
      m == [memory_readb(n, n.PC) EXCEPT !.PC = Word(@ + 1)]
      done == IF Handler(o) = "" THEN m
              ELSE cpu_op_handler(cpu_address(m, Mode(o)), Handler(o))
      cost == Cycles(o) + done.op_cycles
  IN [n |-> [done EXCEPT !.cycles = IF cost = 0 THEN @ ELSE -1, !.op_cycles = 0],
      op |-> Handler(o), cost |-> cost]

\* cpu_clock() > 29658.
cpu_clock_passed(n) == n.cycles # 0
=============================================================================

------------------------------- MODULE NesPpu -------------------------------
(***************************************************************************)
(* The picture unit of the NES emulator (src/litenes/src/ppu.c): its eight *)
(* registers as the game sees them, its memory, and the scanlines.  p is   *)
(* the unit's state.  A memory is kept as the bytes that were written to   *)
(* it, the rest being zero.  Pixels are not kept, except the colour of the *)
(* background, which the sprite-0 test reads.                              *)
(***************************************************************************)
EXTENDS Integers, FiniteSets, Bitwise, TLC

CONSTANTS
  SCR_W,        \* width of the picture: 256
  SCR_H,        \* visible scanlines: 240
  VBLANK,       \* the scanline that starts the vertical blank: 241
  LAST          \* the scanline that ends the frame: 262

Get(m, a) == IF a \in DOMAIN m THEN m[a] ELSE 0
Put(m, a, v) == (a :> v) @@ m
Empty == [a \in {} |-> 0]

common_bit_set(x, k) == (x \div 2^k) % 2 = 1
common_set_bitb(x, k) == IF common_bit_set(x, k) THEN x ELSE x + 2^k
common_unset_bitb(x, k) == IF common_bit_set(x, k) THEN x - 2^k ELSE x
common_modify_bitb(x, k, b) == IF b THEN common_set_bitb(x, k) ELSE common_unset_bitb(x, k)

ppu_init(mirroring) ==
  [PPUCTRL |-> 0, PPUMASK |-> 0, PPUSTATUS |-> 160, OAMADDR |-> 0,
   PPUSCROLL_X |-> 0, PPUSCROLL_Y |-> 0, PPUADDR |-> 0,
   scroll_received_x |-> 0, addr_received_high_byte |-> 0, ready |-> FALSE,
   mirroring_xor |-> 1024 * 2^mirroring, scanline |-> 0, first_read |-> TRUE,
   addr_latch |-> 0, latch |-> 0, hit_occured |-> FALSE,
   ram |-> Empty, sprram |-> Empty, background |-> Empty]

\* What the bits of the control and mask registers select.
ppu_base_nametable_address(p) == 8192 + 1024 * (p.PPUCTRL % 4)
ppu_vram_address_increment(p) == IF common_bit_set(p.PPUCTRL, 2) THEN 32 ELSE 1
ppu_sprite_pattern_table_address(p) == IF common_bit_set(p.PPUCTRL, 3) THEN 4096 ELSE 0
ppu_background_pattern_table_address(p) == IF common_bit_set(p.PPUCTRL, 4) THEN 4096 ELSE 0
ppu_sprite_height(p) == IF common_bit_set(p.PPUCTRL, 5) THEN 16 ELSE 8
ppu_generates_nmi(p) == common_bit_set(p.PPUCTRL, 7)
ppu_shows_background_in_leftmost_8px(p) == common_bit_set(p.PPUMASK, 1)
ppu_shows_background(p) == common_bit_set(p.PPUMASK, 3)
ppu_shows_sprites(p) == common_bit_set(p.PPUMASK, 4)
ppu_set_status(p, k, b) == [p EXCEPT !.PPUSTATUS = common_modify_bitb(@, k, b)]

\* The palette repeats every 32 bytes, and its sprite half shares the first
\* colour of each group with the background half.
ppu_get_real_ram_address(a) ==
  LET c == 16128 + (a % 32) IN
  CASE a < 16128 -> a
    [] a \in 16128..16383 -> IF c \in {16144, 16148, 16152, 16156} THEN c - 16 ELSE c
    [] OTHER -> 65535

ppu_ram_read(p, a) == Get(p.ram, ppu_get_real_ram_address(a))
ppu_ram_write(p, a, v) == [p EXCEPT !.ram = Put(@, ppu_get_real_ram_address(a), v)]

-----------------------------------------------------------------------------
(* The registers *)

\* A read of a register returns ppuio_value and leaves ppuio_read.
ppuio_value(p, a) ==
  CASE a % 8 = 2 -> p.PPUSTATUS
    [] a % 8 = 4 -> Get(p.sprram, p.OAMADDR)
    [] a % 8 = 7 -> ppu_ram_read(p, p.PPUADDR % 16384)
    [] OTHER -> 255

\* Forgetting that a status read also restarts the address pair.
ppuio_read_KeepsPair(p, a) ==
  LET q == [p EXCEPT !.PPUADDR = @ % 16384] IN
  CASE a % 8 = 2 ->
         [ppu_set_status(ppu_set_status(q, 7, FALSE), 6, FALSE) EXCEPT
            !.scroll_received_x = 0, !.latch = p.PPUSTATUS, !.addr_latch = 0,
            !.first_read = TRUE]
    [] a % 8 = 4 -> [q EXCEPT !.latch = ppuio_value(p, a)]
    [] a % 8 = 7 ->
         [q EXCEPT !.latch = IF q.PPUADDR < 16128 THEN ppuio_value(p, a) ELSE 0,
                   !.first_read = FALSE,
                   !.PPUADDR = IF q.first_read THEN @
                               ELSE @ + ppu_vram_address_increment(q)]
    [] OTHER -> q

ppuio_read(p, a) ==
  LET q == [p EXCEPT !.PPUADDR = @ % 16384] IN
  CASE a % 8 = 2 ->
         [ppu_set_status(ppu_set_status(q, 7, FALSE), 6, FALSE) EXCEPT
            !.scroll_received_x = 0, !.addr_received_high_byte = 0,
            !.latch = p.PPUSTATUS, !.addr_latch = 0, !.first_read = TRUE]
    [] a % 8 = 4 -> [q EXCEPT !.latch = ppuio_value(p, a)]
    [] a % 8 = 7 ->
         [q EXCEPT !.latch = IF q.PPUADDR < 16128 THEN ppuio_value(p, a) ELSE 0,
                   !.first_read = FALSE,
                   !.PPUADDR = IF q.first_read THEN @
                               ELSE @ + ppu_vram_address_increment(q)]
    [] OTHER -> q

ppu_sprram_write(p, v) ==
  [p EXCEPT !.sprram = Put(@, p.OAMADDR, v), !.OAMADDR = (@ + 1) % 256]

\* Writes to control, mask and address are dropped until the unit is ready.
ppuio_write(p, a, v) ==
  LET q == [p EXCEPT !.PPUADDR = @ % 16384, !.latch = v]
      r == a % 8
  IN CASE r = 0 -> IF q.ready THEN [q EXCEPT !.PPUCTRL = v] ELSE q
       [] r = 1 -> IF q.ready THEN [q EXCEPT !.PPUMASK = v] ELSE q
       [] r = 2 -> q
       [] r = 3 -> [q EXCEPT !.OAMADDR = v]
       [] r = 4 -> ppu_sprram_write(q, v)
       [] r = 5 -> IF q.scroll_received_x = 1
                   THEN [q EXCEPT !.PPUSCROLL_Y = v, !.scroll_received_x = 0]
                   ELSE [q EXCEPT !.PPUSCROLL_X = v, !.scroll_received_x = 1]
       [] r = 6 -> IF ~q.ready THEN q
                   ELSE IF q.addr_received_high_byte = 1
                        THEN [q EXCEPT !.PPUADDR = 256 * q.addr_latch + v,
                                       !.addr_received_high_byte = 0, !.first_read = TRUE]
                        ELSE [q EXCEPT !.addr_latch = v,
                                       !.addr_received_high_byte = 1, !.first_read = TRUE]
       [] OTHER -> ppu_ram_write(ppu_ram_write(q, q.PPUADDR ^^ q.mirroring_xor, v),
                                 q.PPUADDR, v)

-----------------------------------------------------------------------------
(* The scanlines *)

\* Two bits of colour at x, from the low and high bytes of a tile's row.
l_h_addition(l, h, x) == 2 * ((h \div 2^(7 - x)) % 2) + ((l \div 2^(7 - x)) % 2)
l_h_addition_flip(l, h, x) == 2 * ((h \div 2^x) % 2) + ((l \div 2^x) % 2)

\* The colours the tiles of a name table give to the pixels of the line; colour
\* 0 leaves the pixel as it was.
ppu_draw_background_scanline(p, mirror) ==
  LET off == IF mirror THEN SCR_W ELSE 0
      tiles == {t \in (IF ppu_shows_background_in_leftmost_8px(p) THEN 0 ELSE 1)
                        ..(SCR_W \div 8 - 1) : 8 * t - p.PPUSCROLL_X + off <= SCR_W}
      Index(t) == ppu_ram_read(p, ppu_base_nametable_address(p) + t
                    + 32 * (p.scanline \div 8) + (IF mirror THEN 1024 ELSE 0))
      Row(t) == ppu_background_pattern_table_address(p) + 16 * Index(t) + (p.scanline % 8)
      Color(t, x) == l_h_addition(ppu_ram_read(p, Row(t)), ppu_ram_read(p, Row(t) + 8), x)
      drawn == {tx \in tiles \X (0..7) : Color(tx[1], tx[2]) # 0}
  IN [p EXCEPT !.background =
        [xy \in {<<8 * tx[1] + tx[2], p.scanline>> : tx \in drawn}
           |-> Color(xy[1] \div 8, xy[1] % 8)] @@ @]

\* The sprites that cover the line, and the colours of sprite n on it.
OnLine(p) == {n \in 0..63 : /\ Get(p.sprram, 4 * n) <= p.scanline
                            /\ Get(p.sprram, 4 * n) + ppu_sprite_height(p) >= p.scanline}
SpriteColor(p, n, x) ==
  LET attr == Get(p.sprram, 4 * n + 2)
      y == IF common_bit_set(attr, 7) THEN 7 - (p.scanline % 8) ELSE p.scanline % 8
      row == ppu_sprite_pattern_table_address(p) + 16 * Get(p.sprram, 4 * n + 1) + y
      l == ppu_ram_read(p, row)
      h == ppu_ram_read(p, row + 8)
  IN IF common_bit_set(attr, 6) THEN l_h_addition_flip(l, h, x) ELSE l_h_addition(l, h, x)

\* Sprite 0 hits where its colour equals the background's, once a frame.
Hits(p) ==
  /\ ppu_shows_background(p) /\ ~p.hit_occured /\ 0 \in OnLine(p)
  /\ \E x \in 0..7 :
        LET c == SpriteColor(p, 0, x)
        IN c # 0 /\ Get(p.background, <<Get(p.sprram, 3) + x,
                          Get(p.sprram, 0) + (p.scanline % 8)>>) = c

ppu_draw_sprite_scanline(p) ==
  LET s == IF Cardinality(OnLine(p)) > 8 THEN ppu_set_status(p, 5, TRUE) ELSE p
  IN IF Hits(p) THEN [ppu_set_status(s, 6, TRUE) EXCEPT !.hit_occured = TRUE] ELSE s

-----------------------------------------------------------------------------
(***************************************************************************)
(* ppu_cycle: a scanline.  The processor runs before, between and after    *)
(* the two drawing phases; cpu_clock is compared once, at the start.       *)
(***************************************************************************)
PpuPowerUp(p, passed) == [p EXCEPT !.ready = @ \/ passed]

PpuBackground(p) ==
  LET q == [p EXCEPT !.scanline = @ + 1]
  IN IF q.scanline < SCR_H /\ ppu_shows_background(q)
     THEN ppu_draw_background_scanline(ppu_draw_background_scanline(q, FALSE), TRUE)
     ELSE q

PpuSprites(p) ==
  IF p.scanline < SCR_H /\ ppu_shows_sprites(p) THEN ppu_draw_sprite_scanline(p) ELSE p

\* The sprite hit of the last frame kept.
PpuEndLine_HitKept(p) ==
  CASE p.scanline = VBLANK -> ppu_set_status(ppu_set_status(p, 7, TRUE), 6, FALSE)
    [] p.scanline = LAST -> [ppu_set_status(p, 7, FALSE) EXCEPT !.scanline = -1]
    [] OTHER -> p

\* The end of the line: the vertical blank begins, or the frame ends.
PpuEndLine(p) ==
  CASE p.scanline = VBLANK -> ppu_set_status(ppu_set_status(p, 7, TRUE), 6, FALSE)
    [] p.scanline = LAST ->
         [ppu_set_status(p, 7, FALSE) EXCEPT !.scanline = -1, !.hit_occured = FALSE]
    [] OTHER -> p

\* cpu_interrupt is called when the blank begins, fce_update_screen when the
\* frame ends.
CallsInterrupt(p) == p.scanline = VBLANK
=============================================================================

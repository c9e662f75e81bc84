------------------------------ MODULE Console ------------------------------
(***************************************************************************)
(* The NES emulator at work (fce_run in src/litenes/src/fce.c, ppu_cycle   *)
(* in ppu.c, cpu_run in cpu.c): a frame is LINES scanlines, a scanline     *)
(* lets the processor run three times, around the two drawing phases, and  *)
(* ends with the interrupt or the end of the frame.  The cartridge is one  *)
(* of Carts.  saved is history: what the interrupts and calls in progress  *)
(* have to restore, and whether a handler has touched the picture unit in  *)
(* the middle of them.                                                     *)
(***************************************************************************)
EXTENDS Nes, SequencesExt

CONSTANTS
  Carts,       \* the cartridges
  LINES,       \* scanlines that fce_run gives a frame: 262
  SLICES,      \* cycles of the three calls of cpu_run: <<85, 23, 5>>
  Buttons,     \* buttons that are pressed and released
  Top,         \* the address of the game's main loop
  Upload       \* of the end of its upload: [pc, addr, bytes], bytes being where
               \* the game's memory has what it uploads

VARIABLES
  nes,         \* the console
  phase,       \* where fce_run and ppu_cycle are
  scanlines,   \* scanlines left of the frame
  cycles,      \* cycles left to cpu_run
  saved,       \* history
  tick         \* alternates with every step
vars == <<nes, phase, scanlines, cycles, saved, tick>>

Context(n) == [PC |-> n.PC, SP |-> n.SP, A |-> n.A, X |-> n.X, Y |-> n.Y,
               flags |-> {k \in {CARRY, ZERO, DECIMAL, OVERFLOW, NEGATIVE} : Flag(n, k)}]

Init ==
  /\ \E c \in Carts : /\ fce_load_rom(c).ret = 0
                      /\ nes = fce_init(fce_load_rom(c))
  /\ phase = "wait" /\ scanlines = 0 /\ cycles = 0 /\ saved = <<>> /\ tick = 0

\* The next frame's time has come.
wait_for_frame ==
  /\ phase = "wait"
  /\ phase' = "line" /\ scanlines' = LINES
  /\ UNCHANGED <<nes, cycles, saved>>

\* ppu_cycle up to its first cpu_run.
StartLine ==
  /\ phase = "line"
  /\ nes' = [nes EXCEPT !.ppu = PpuPowerUp(@, cpu_clock_passed(nes))]
  /\ phase' = "background" /\ cycles' = SLICES[1]
  /\ UNCHANGED <<scanlines, saved>>

Displaced(context, nmi) == [context |-> context, nmi |-> nmi, clean |-> TRUE]

\* The frames below an interrupt, once its handler has touched the picture unit.
Touched(frames) ==
  [i \in DOMAIN frames |->
     [frames[i] EXCEPT !.clean = @ /\ \A j \in i + 1..Len(frames) : ~frames[j].nmi]]

\* An instruction; the history keeps what a call is to return to.
cpu_run ==
  LET s == cpu_step(nes)
      frames == IF s.n.ppu # nes.ppu THEN Touched(saved) ELSE saved
  IN
  /\ phase \in {"background", "sprites", "end"} /\ cycles > 0
  /\ nes' = s.n /\ cycles' = cycles - s.cost
  /\ saved' = CASE s.op = "jsr" ->
                     Append(frames, Displaced([PC |-> Word(nes.PC + 3), SP |-> nes.SP], FALSE))
                [] s.op \in {"rts", "rti"} /\ saved # <<>> -> Front(frames)
                [] OTHER -> frames
  /\ UNCHANGED <<phase, scanlines>>

Draw ==
  /\ cycles <= 0
  /\ \/ /\ phase = "background"
        /\ nes' = [nes EXCEPT !.ppu = PpuBackground(@)]
        /\ phase' = "sprites" /\ cycles' = SLICES[2]
     \/ /\ phase = "sprites"
        /\ nes' = [nes EXCEPT !.ppu = PpuSprites(@)]
        /\ phase' = "end" /\ cycles' = SLICES[3]
  /\ UNCHANGED <<scanlines, saved>>

\* The end of ppu_cycle; then psg_detect_key takes the key events.
EndLine ==
  LET line == nes.ppu
      n == [nes EXCEPT !.ppu = PpuEndLine(line)]
      interrupted == CallsInterrupt(line) /\ ppu_generates_nmi(line)
      m == IF CallsInterrupt(line) THEN cpu_interrupt(n) ELSE n
  IN /\ phase = "end" /\ cycles <= 0
     /\ saved' = IF interrupted THEN Append(saved, Displaced(Context(nes), TRUE)) ELSE saved
     /\ \E B \in SUBSET Buttons :
          nes' = psg_detect_key(m, [b \in B |-> 1 - Get(m.keys, b)])
     /\ scanlines' = scanlines - 1
     /\ phase' = IF scanlines = 1 THEN "wait" ELSE "line"
     /\ UNCHANGED cycles

Tick == tick' = 1 - tick
Next == Tick /\ (wait_for_frame \/ StartLine \/ cpu_run \/ Draw \/ EndLine)

\* The emulator's loop never ends, and time passes.
Spec == Init /\ [][Next]_vars /\ WF_tick(Tick)

(***************************************************************************)
(* What an interrupt or a call displaced comes back: rti restores the      *)
(* registers, the stack pointer and the flags the game can tell apart (all *)
(* but the interrupt mask, which cpu_interrupt sets before it saves it),   *)
(* and rts goes on after the jsr, wherever the scanline cut the program.   *)
(***************************************************************************)
ReturnsRestore ==
  [][Len(saved') < Len(saved) =>
       LET c == Last(saved).context IN \A f \in DOMAIN c : Context(nes')[f] = c[f]]_vars

(***************************************************************************)
(* When the game or its interrupt handler has read the status, sent an     *)
(* address and stored bytes to the data port, the bytes are in the picture *)
(* memory from that address on, though every store first reads the port    *)
(* and the code before, or the code the handler cut into, may have left a  *)
(* half-sent address or stopped between two stores (ppuio_read,            *)
(* ppuio_write).  Of an upload that a handler cut into and that touched    *)
(* the picture unit nothing is said: the handler's status read forgets its *)
(* first half, or an increment.                                            *)
(***************************************************************************)
UploadLands ==
  nes.PC = Upload.pc /\ Last(saved).clean =>
    \A i \in DOMAIN Upload.bytes :
      ppu_ram_read(nes.ppu, Upload.addr + i - 1) = memory_value(nes, Upload.bytes[i])

(***************************************************************************)
(* The game's main loop comes round for ever: a wait for the vertical      *)
(* blank or for sprite 0 ends, and so do its calls and interrupts          *)
(* (ppu_cycle's end of line, ppu_draw_sprite_scanline).                    *)
(***************************************************************************)
LoopsRound == []<>(nes.PC = Top)
=============================================================================

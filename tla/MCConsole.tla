----------------------------- MODULE MCConsole -----------------------------
(***************************************************************************)
(* Cartridges for Console.  A game waits twice for the vertical blank,     *)
(* then repeats two blocks of code; its interrupt handler and subroutines  *)
(* lie at fixed addresses.                                                 *)
(***************************************************************************)
EXTENDS Console

Bytes(at, s) == [d \in at..(at + Len(s) - 1) |-> s[d - at + 1]]

\* lda status; bpl back.  lda status; and #0x40; beq back.
WaitBlank  == <<173, 2, 32, 16, 251>>
WaitSprite == <<173, 2, 32, 41, 64, 240, 249>>
Enable     == <<169, 128, 141, 0, 32>>             \* nmi on
Show       == <<169, 26, 141, 1, 32>>              \* background and sprites on
HalfSent   == <<169, 33, 141, 6, 32>>              \* one byte of an address
CallUpload == <<32, 0, 144>>                       \* jsr 0x9000
Shuffle    == <<56, 162, 5, 8, 72, 202, 138, 104, 40>>  \* sec ldx php pha dex txa pla plp

\* 0x9000: lda status; the address 0x2001; two bytes, other ones each time, to
\* 0x11 and 0x12 and to the data port; rts.
UploadCode == <<173, 2, 32, 169, 32, 141, 6, 32, 169, 1, 141, 6, 32,
                165, 17, 73, 1, 133, 17, 141, 7, 32, 73, 2, 133, 18, 141, 7, 32, 96>>
MCUpload == [pc |-> 36864 + 29, addr |-> 8193, bytes |-> <<17, 18>>]

\* 0xA000, the interrupt: saves and restores what it uses.
Quiet == {<<64>>,                                               \* rti
          <<72, 138, 72, 232, 32, 0, 176, 104, 170, 104, 64>>}  \* calls 0xB000
\* These read the status, which hides the blank from a game that waits for it.
Readers == {<<72, 173, 2, 32, 104, 64>>,                        \* reads it
            <<72, 32, 0, 144, 104, 64>>}                        \* uploads
\* 0xB000: strobes the joystick, adds its first button to a counter.
ReadStick == <<169, 1, 141, 22, 64, 10, 141, 22, 64, 173, 22, 64, 101, 16, 41, 1, 133, 16, 96>>

MCSlices == <<12, 4, 2>>

Blocks(h) == {Show \o WaitSprite, HalfSent, CallUpload, Shuffle}
             \cup (IF h \in Quiet THEN {WaitBlank} ELSE {})

MCTop == 32768 + 10 + 5
Game(b, c) == WaitBlank \o WaitBlank \o Enable \o b \o c \o <<76, MCTop % 256, MCTop \div 256>>

\* Tile 0 is a solid line, so that sprite 0 meets the background.
Tile == [d \in 0..7 |-> 255]

MCCarts ==
  UNION {{[signature |-> "NES", mmc_id |-> 0, prg_block_count |-> 2, chr_block_count |-> 1,
    rom_type |-> 1, chr |-> Tile,
    prg |-> Bytes(0, Game(b, c)) @@ Bytes(4096, UploadCode) @@ Bytes(8192, h)
              @@ Bytes(12288, ReadStick) @@ Bytes(32762, <<0, 160, 0, 128>>)]
    : b \in Blocks(h), c \in Blocks(h)} : h \in Quiet \cup Readers}
=============================================================================

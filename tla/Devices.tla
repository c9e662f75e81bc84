------------------------------ MODULE Devices ------------------------------
(***************************************************************************)
(* Device memory and the keyboard: the table of MMIO maps                  *)
(* (src/memory/mmio.c), its place behind physical memory                   *)
(* (src/memory/pmem.c) and the i8042 with its ring of scan codes           *)
(* (src/device/keyboard.c).  Everything is an operator on the record       *)
(*   d = [space, key_queue, key_f, key_r, dead]                            *)
(* space being the registers of the devices by address, and dead whether   *)
(* an assertion has failed.                                                *)
(***************************************************************************)
EXTENDS Integers, Sequences

CONSTANTS
  KEY_QUEUE_LEN,
  Keymap,               \* scan codes that keymap maps to a key
  MBASE, MSIZE,         \* physical memory
  FB_ADDR, FB_SIZE,     \* the frame buffer, reached directly
  maps                  \* the table: a sequence of [name, low, high]

KEY_NONE == 0
Addresses == UNION {maps[i].low..maps[i].high : i \in DOMAIN maps}
Asserted(d, cond) == [d EXCEPT !.dead = @ \/ ~cond]

-----------------------------------------------------------------------------
(* keyboard.c *)

\* Mutant: the overflow is not noticed.
key_enqueue_NoAssert(d, key) ==
  [d EXCEPT !.key_queue[d.key_r] = key, !.key_r = (@ + 1) % KEY_QUEUE_LEN]

key_enqueue(d, key) ==
  LET e == [d EXCEPT !.key_queue[d.key_r] = key, !.key_r = (@ + 1) % KEY_QUEUE_LEN]
  IN Asserted(e, e.key_r # e.key_f)

NextKey(d) == IF d.key_f = d.key_r THEN KEY_NONE ELSE d.key_queue[d.key_f]
key_dequeue(d) ==
  IF d.key_f = d.key_r THEN d ELSE [d EXCEPT !.key_f = (@ + 1) % KEY_QUEUE_LEN]

\* What a key press or release puts in the ring: a positive code for a press.
Code(scancode, is_keydown) == IF is_keydown THEN scancode ELSE -scancode

Accepts(running, scancode) == running /\ scancode \in Keymap
send_key(d, running, scancode, is_keydown) ==
  IF Accepts(running, scancode) THEN key_enqueue(d, Code(scancode, is_keydown)) ELSE d

i8042_data_io_handler(d, low, offset, is_write) ==
  [Asserted(key_dequeue(d), ~is_write /\ offset = 0) EXCEPT !.space[low] = NextKey(d)]

-----------------------------------------------------------------------------
(* mmio.c *)

\* The first map that holds addr, 0 if none does.
map_inside(map, addr) == addr \in map.low..map.high
find_mapid_by_addr(addr) ==
  LET inside == {i \in DOMAIN maps : map_inside(maps[i], addr)}
  IN IF inside = {} THEN 0 ELSE CHOOSE i \in inside : \A j \in inside : i <= j

\* The other devices have no callback, or one that only prints.
invoke_callback(d, map, offset, is_write) ==
  IF map.name = "keyboard" THEN i8042_data_io_handler(d, map.low, offset, is_write) ELSE d

\* Reading: the callback first, then the register.  Writing: the other way.
map_read(d, addr, map) == invoke_callback(d, map, addr - map.low, FALSE)
map_write(d, addr, data, map) ==
  invoke_callback([d EXCEPT !.space[addr] = data], map, addr - map.low, TRUE)

mmio_read(d, addr) ==
  LET id == find_mapid_by_addr(addr)
  IN IF id = 0 THEN Asserted(d, FALSE) ELSE map_read(d, addr, maps[id])

mmio_write(d, addr, data) ==
  LET id == find_mapid_by_addr(addr)
  IN IF id = 0 THEN Asserted(d, FALSE) ELSE map_write(d, addr, data, maps[id])

-----------------------------------------------------------------------------
(* pmem.c, beyond physical memory: the frame buffer without its map.       *)

InMemory(addr) == addr \in MBASE..MBASE + MSIZE - 1
InFrame(addr) == addr \in FB_ADDR..FB_ADDR + FB_SIZE - 1

\* The devices after the access; a read then returns space[addr].
paddr_read(d, addr) == IF InMemory(addr) \/ InFrame(addr) THEN d ELSE mmio_read(d, addr)
paddr_write(d, addr, data) ==
  IF InMemory(addr) THEN d
  ELSE IF InFrame(addr) THEN [d EXCEPT !.space[addr] = data]
       ELSE mmio_write(d, addr, data)

init_devices ==
  [space |-> [a \in Addresses |-> 0], key_queue |-> [i \in 0..KEY_QUEUE_LEN - 1 |-> KEY_NONE],
   key_f |-> 0, key_r |-> 0, dead |-> FALSE]

\* The keys in the ring, oldest first.
Queued(d) ==
  [i \in 1..(d.key_r - d.key_f) % KEY_QUEUE_LEN |-> d.key_queue[(d.key_f + i - 1) % KEY_QUEUE_LEN]]
=============================================================================

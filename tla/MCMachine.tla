----------------------------- MODULE MCMachine -----------------------------
(***************************************************************************)
(* Machine on a small address map: a byte-wide serial port, the keyboard   *)
(* and a frame buffer of one word, above memory.                           *)
(***************************************************************************)
EXTENDS Machine

MCMaps == <<[name |-> "serial", low |-> 2, high |-> 2],
            [name |-> "keyboard", low |-> 3, high |-> 4],
            [name |-> "vmem", low |-> 6, high |-> 6]>>

\* One sets watchpoints, one types.
MCUsers == {[watches |-> TRUE, keys |-> 0], [watches |-> FALSE, keys |-> 4]}
=============================================================================

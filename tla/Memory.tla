------------------------------- MODULE Memory -------------------------------
(***************************************************************************)
(* What the caches promise the engines: a memory whose reads and writes    *)
(* take effect one at a time.                                              *)
(***************************************************************************)
EXTENDS Integers

CONSTANTS Harts, Blocks, Offsets, Values

VARIABLES
    store,  \* the contents of every block
    reply   \* the last read and its value

memoryVars == <<store, reply>>

Data  == [Offsets -> Values]
NoReply == [hart |-> -1]

MemoryInit ==
    /\ store \in [Blocks -> Data]
    /\ reply = NoReply

Read(h, b, o) ==
    /\ reply' = [hart |-> h, block |-> b, offset |-> o, value |-> store[b][o]]
    /\ UNCHANGED store

Write(h, b, o, v) ==
    /\ store' = [store EXCEPT ![b] = [@ EXCEPT ![o] = v]]
    /\ reply' = NoReply

MemoryNext ==
    \E h \in Harts, b \in Blocks, o \in Offsets :
        Read(h, b, o) \/ \E v \in Values : Write(h, b, o, v)

MemorySpec == MemoryInit /\ [][MemoryNext]_memoryVars
=============================================================================

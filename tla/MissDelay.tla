----------------------------- MODULE MissDelay -----------------------------
(***************************************************************************)
(* What the miss penalty of the data cache promises: a block is brought in *)
(* by the call that is the delay-th in a row, among those that miss, to    *)
(* miss that block; a miss of another block in between starts over.        *)
(***************************************************************************)
EXTENDS Naturals

CONSTANT Blocks

VARIABLES
    delay,       \* calls a miss takes, 0 as long as there is no cache
    resident,    \* the blocks held
    block,       \* the block missed last
    waited       \* the calls in a row that have missed it, 0 after it came

Init == delay = 0 /\ resident = {} /\ block = 0 /\ waited = 0

Create ==
    /\ delay = 0
    /\ delay' \in Nat \ {0}
    /\ UNCHANGED <<resident, block, waited>>

Calls(b) == IF waited > 0 /\ block = b THEN waited + 1 ELSE 1

Wait(b) ==
    /\ Calls(b) < delay
    /\ waited' = Calls(b)
    /\ block' = b
    /\ UNCHANGED <<delay, resident>>

\* A cache that is not implemented holds nothing afterwards either.
Bring(b) ==
    /\ Calls(b) = delay
    /\ waited' = 0
    /\ block' = b
    /\ resident' \subseteq resident \cup {b}
    /\ UNCHANGED delay

Next == Create \/ \E b \in Blocks : Wait(b) \/ Bring(b)

Spec == Init /\ [][Next]_<<delay, resident, block, waited>>
=============================================================================

----------------------------- MODULE FlatMemory -----------------------------
(***************************************************************************)
(* What the memory of mem.c and ptable.c promises its callers: an array of *)
(* bytes, zero at first.  A store of several bytes takes effect at once    *)
(* when it is called, a load returns what the array then holds.            *)
(***************************************************************************)
EXTENDS AddressSpace

VARIABLES
    bytes,       \* the array
    call,        \* the access under way, or Idle
    result       \* what the last load returned

Init ==
    /\ bytes = [a \in Addr |-> 0]
    /\ call = Idle
    /\ result = <<>>

Load(addr, width) ==
    /\ call = Idle
    /\ call' = [kind |-> "read", addr |-> addr, width |-> width]
    /\ UNCHANGED <<bytes, result>>

LoadReturn ==
    /\ call.kind = "read"
    /\ call' = Idle
    /\ result' = [n \in 1..call.width |-> bytes[Plus(call.addr, n - 1)]]
    /\ UNCHANGED bytes

Store(addr, d) ==
    /\ call = Idle
    /\ call' = [kind |-> "write", addr |-> addr, data |-> d]
    /\ bytes' = Overlay(bytes, addr, 0, d)
    /\ UNCHANGED result

StoreReturn ==
    /\ call.kind = "write"
    /\ call' = Idle
    /\ UNCHANGED <<bytes, result>>

Next ==
    \/ \E addr \in Addr, width \in Widths : Load(addr, width)
    \/ \E addr \in Addr, d \in Data : Store(addr, d)
    \/ LoadReturn \/ StoreReturn

Spec == Init /\ [][Next]_<<bytes, call, result>>
=============================================================================

----------------------------- MODULE AddressMap -----------------------------
(***************************************************************************)
(* What CompactAddressMap promises: a map from addresses to the size and   *)
(* the hash of the call stack they were last inserted with.  A size is     *)
(* kept modulo SizeWord.                                                   *)
(***************************************************************************)
EXTENDS Integers

CONSTANTS Addr, Size, Hash, NoHash, NotFound, SizeWord

VARIABLES
    map,        \* address -> [size, hash], or NotFound
    call,       \* the arguments of the latest call
    result      \* what the latest call found

vars == <<map, call, result>>

Init == map = [addr \in Addr |-> NotFound] /\ call = <<>> /\ result = NotFound

Insert(addr, size, hash) ==
    /\ call' = <<addr, size, hash>>
    /\ result' = NotFound
    /\ map' = [map EXCEPT ![addr] = [size |-> size % SizeWord, hash |-> hash]]

FindAndRemove(addr) ==
    /\ call' = <<addr>>
    /\ result' = map[addr]
    /\ map' = [map EXCEPT ![addr] = NotFound]

(* The end of one map and the beginning of the next. *)
Clear == map' = [addr \in Addr |-> NotFound] /\ call' = <<>> /\ result' = NotFound

Next ==
    \/ \E addr \in Addr, size \in Size, hash \in Hash \union {NoHash} : Insert(addr, size, hash)
    \/ \E addr \in Addr : FindAndRemove(addr)
    \/ Clear

Spec == Init /\ [][Next]_vars
=============================================================================

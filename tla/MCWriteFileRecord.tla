------------------------- MODULE MCWriteFileRecord -------------------------
(***************************************************************************)
(* WriteFileRecord with headers of 3 bytes, at most 2 registers in a       *)
(* sub-request and 10 bytes in a request, size counting modulo 32: up to   *)
(* three sub-requests, each check failing in turn, and a wrap of size      *)
(* after which 20 bytes of memory may still look like sub-requests.        *)
(***************************************************************************)
EXTENDS WriteFileRecord

Good(n) == [type |-> 6, file |-> 1, record |-> 1, length |-> n]
MCHeaders == {Good(0), Good(1), Good(2), Good(3)} \cup
             {[Good(0) EXCEPT !.type = 7], [Good(1) EXCEPT !.file = 0], [Good(1) EXCEPT !.record = 2]}
=============================================================================

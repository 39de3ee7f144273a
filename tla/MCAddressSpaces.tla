--------------------------- MODULE MCAddressSpaces ---------------------------
(* An instance of AddressSpaces: programs of one page with TLS, and of two *)
(* pages, one of them shared by two segments, without.                     *)
EXTENDS AddressSpaces

Seg(from, to) == [from |-> USER_VIRTUAL_BASE + from, to |-> USER_VIRTUAL_BASE + to]
Programs == {[segs |-> <<Seg(0, 1)>>, tls |-> 1],
             [segs |-> <<Seg(0, 1), Seg(0, 2)>>, tls |-> 0]}
Sizes == {24, 30}
=============================================================================

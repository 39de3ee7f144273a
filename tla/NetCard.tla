------------------------------- MODULE NetCard -------------------------------
(***************************************************************************)
(* The two network cards of src/drivers/network.c, an Intel e1000 and an   *)
(* AMD PCnet, as the driver's part of g_net: the receive and transmit      *)
(* rings, the driver's place in each and the card's.                       *)
(*                                                                         *)
(* The e1000 owns the receive slots from its head rdh up to the tail rdt   *)
(* the driver wrote last, whatever their status says, and marks a slot it  *)
(* has filled with DD.  A PCnet slot carries an OWN bit instead.  "full"   *)
(* is DD set or OWN clear of a receive slot, "busy" is DD clear or OWN set *)
(* of a transmit slot.                                                     *)
(***************************************************************************)
EXTENDS Naturals, Sequences

CONSTANTS
    RX_COUNT,    \* NET_RX_DESC_COUNT
    TX_COUNT     \* NET_TX_DESC_COUNT

ASSUME RingAssumption == RX_COUNT \in Nat \ {0, 1} /\ TX_COUNT \in Nat \ {0, 1}

RxSlots == 0..(RX_COUNT - 1)
TxSlots == 0..(TX_COUNT - 1)

\* g_net after memset.
NoCard ==
    [backend |-> "none", present |-> FALSE, ready |-> FALSE,
     rx |-> <<>>, tx |-> <<>>, rx_index |-> 0, tx_index |-> 0,
     rdh |-> 0, rdt |-> 0, tdh |-> 0, tdt |-> 0]

Empty == [full |-> FALSE, bad |-> FALSE, frame |-> <<>>, serial |-> 0]
Idle == [busy |-> FALSE, packet |-> <<>>]

-----------------------------------------------------------------------------
(* Finding and starting a card.  A device is [kind, bar, fault]: its       *)
(* identity on the PCI bus, whether it has a base address, and what of its *)
(* set-up fails ("map", "memory", "high", "idon" or "none").               *)

net_map_mmio(d) == d.fault # "map"
e1000_alloc_dma(d) == d.fault # "memory"

\* The PCnet reaches only buffers below 4 GiB.
pcnet_alloc_dma(d) == d.fault \notin {"memory", "high"}

\* Every receive slot is the card's, every transmit slot the driver's.
e1000_init_rings(c) ==
    [c EXCEPT !.rx = [i \in RxSlots |-> Empty], !.tx = [i \in TxSlots |-> Idle],
              !.rdt = RX_COUNT - 1]

pcnet_init_rings(c) ==
    [c EXCEPT !.rx = [i \in RxSlots |-> Empty], !.tx = [i \in TxSlots |-> Idle]]

\* The first device of the kind is the one tried, and g_net starts afresh
\* with it.  Without one, g_net stays as it was.
Found(kind, devices) == SelectSeq(devices, LAMBDA d : d.kind = kind)
Fresh(kind) == [NoCard EXCEPT !.backend = kind, !.present = TRUE]

e1000_probe_device(c, devices) ==
    IF Found("e1000", devices) = <<>> THEN c
    ELSE LET d == Found("e1000", devices)[1]
         IN  IF d.bar /\ net_map_mmio(d) /\ e1000_alloc_dma(d)
             THEN [e1000_init_rings(Fresh("e1000")) EXCEPT !.ready = TRUE]
             ELSE Fresh("e1000")

\* The card must also report IDON in time.
pcnet_probe_device(c, devices) ==
    IF Found("pcnet", devices) = <<>> THEN c
    ELSE LET d == Found("pcnet", devices)[1]
         IN  IF d.bar /\ pcnet_alloc_dma(d) /\ d.fault # "idon"
             THEN [pcnet_init_rings(Fresh("pcnet")) EXCEPT !.ready = TRUE]
             ELSE Fresh("pcnet")

net_init(devices) ==
    LET c == e1000_probe_device(NoCard, devices)
    IN  IF c.ready THEN c ELSE pcnet_probe_device(c, devices)

-----------------------------------------------------------------------------
(* The driver's side of the rings.                                         *)

\* Mutant: the index moves on first, and the slot it then names is given back.
ReturnNextSlot(c, i) ==
    [c EXCEPT !.rx[(i + 1) % RX_COUNT] = Empty,
              !.rdt = IF c.backend = "e1000" THEN c.rx_index ELSE @,
              !.rx_index = (@ + 1) % RX_COUNT]

\* After a frame: the slot the loop started from is given back, and the
\* index, read again, moves on.  Only the e1000 has a tail to write.
ReturnSlot(c, i) ==
    [c EXCEPT !.rx[i] = Empty,
              !.rdt = IF c.backend = "e1000" THEN c.rx_index ELSE @,
              !.rx_index = (@ + 1) % RX_COUNT]

\* A frame is put in the slot the sender found free.
e1000_send_frame(c, i, p) ==
    [c EXCEPT !.tx[i] = [busy |-> TRUE, packet |-> p],
              !.tx_index = (i + 1) % TX_COUNT, !.tdt = (i + 1) % TX_COUNT]

pcnet_send_frame(c, i, p) ==
    [c EXCEPT !.tx[i] = [busy |-> TRUE, packet |-> p], !.tx_index = (i + 1) % TX_COUNT]

-----------------------------------------------------------------------------
(* The card's side (outside the repository).                               *)

CanReceive(c) ==
    /\ c.ready
    /\ IF c.backend = "e1000" THEN c.rdh # c.rdt ELSE ~c.rx[c.rdh].full

\* Only the PCnet hands a damaged frame to the driver.
Receive(c, f, n, bad) ==
    [c EXCEPT !.rx[c.rdh] = [full |-> TRUE, bad |-> bad, frame |-> f, serial |-> n],
              !.rdh = (@ + 1) % RX_COUNT]

CanTransmit(c) ==
    /\ c.ready
    /\ IF c.backend = "e1000" THEN c.tdh # c.tdt ELSE c.tx[c.tdh].busy

Transmit(c) == [c EXCEPT !.tx[c.tdh] = Idle, !.tdh = (@ + 1) % TX_COUNT]
=============================================================================

-------------------------------- MODULE Tcp ---------------------------------
(***************************************************************************)
(* The TCP client of src/drivers/network.c: the table of connections, the  *)
(* segment handler net_handle_tcp and the four calls connect, send, recv   *)
(* and close, over a network that loses, duplicates, delays and reorders   *)
(* segments, against a peer that follows TCP.                              *)
(*                                                                         *)
(* A call is a loop that looks at its connection, transmits when a resend  *)
(* is due, polls the card and yields with schedule().  Its steps are       *)
(* separate actions because timer_handler runs net_poll from the timer     *)
(* interrupt (timer.c:137) and system calls run with interrupts on         *)
(* (syscall.c:1035): a segment can be handled between any two of them.     *)
(* Processes switch only in schedule(), that is, at the top of a loop.     *)
(*                                                                         *)
(* Bytes of a stream are their positions 1, 2, 3...  The ring rx_buffer is *)
(* the sequence of the bytes in it.                                        *)
(***************************************************************************)
EXTENDS Integers, Sequences, FiniteSets

CONSTANTS
    Procs,       \* processes that use the network
    MAX_CONN,    \* NET_TCP_MAX_CONNECTIONS
    PORTS,       \* ephemeral ports: port k stands for NET_TCP_EPHEMERAL_BASE + k - 1
    RX_SIZE,     \* NET_TCP_RECV_BUFFER_SIZE
    TX_MSS,      \* NET_TCP_TX_MSS
    SEQ,         \* number of sequence numbers (2^32 in the code)
    ISS,         \* the initial sequence number of this side
    PEER_ISS,    \* the initial sequence number of the peer
    Worlds       \* the workloads and surroundings considered: see World

Hardships ==
    {"irq",      \* the timer interrupt polls the card inside a call's steps
     "late",     \* a loop iteration may find both the ACK in and the resend due
     "partial",  \* the peer may take only the first bytes of a segment
     "retry",    \* after a short send the caller sends the rest (tcp_send_all)
     "fault",    \* the card or ARP may refuse a frame
     "reset"}    \* the peer may refuse or abort the connection

ASSUME TcpAssumption ==
    /\ MAX_CONN \in Nat \ {0} /\ PORTS > MAX_CONN
    /\ RX_SIZE > 1 /\ TX_MSS > 0
    /\ ISS \in 0..(SEQ - 1) /\ PEER_ISS \in 0..(SEQ - 1)

\* What the processes and the surroundings do.
World ==
    [procs : SUBSET Procs,       \* the processes that use the network
     out : Nat,                  \* bytes a process has to send on a connection
     written : Nat,              \* bytes the peer may write on a connection
     lens : SUBSET (Nat \ {0}),  \* lengths passed to recv
     opens : Nat,                \* bound on the number of connect calls
     env : SUBSET Hardships]     \* what goes wrong

ASSUME WorldsAssumption ==
    \A w \in Worlds : w \in World /\ SEQ > 2 * (w.out + w.written + 4)

VARIABLES
    world,         \* one of Worlds, chosen once
    tcp,           \* g_net.tcp
    next_tcp_port, \* g_net.next_tcp_port
    call,          \* the system call each process is in, and where in it
    app,           \* what each process knows and has done with its connection
    peer,          \* the other end of the connection of each port
    wire,          \* every segment transmitted: each may arrive late, often or never
    opens          \* connect calls so far

state == <<tcp, next_tcp_port, call, app, peer, wire, opens>>
vars == <<world, state>>

Slots == 1..MAX_CONN
Ports == 1..PORTS

States == {"CLOSED", "SYN_SENT", "ESTABLISHED", "CLOSE_WAIT", "FIN_WAIT_1",
           "FIN_WAIT_2", "CLOSING", "LAST_ACK", "RESET"}

\* A connection cleared by memset.
NoConn ==
    [used |-> FALSE, state |-> "CLOSED", remote_closed |-> FALSE,
     reset |-> FALSE, local_port |-> 0, snd_una |-> 0, snd_nxt |-> 0,
     rcv_nxt |-> 0, rx |-> <<>>]

NoCall ==
    [op |-> "none", pc |-> "idle", slot |-> 0, first |-> FALSE, off |-> 0,
     len |-> 0, expected |-> 0]

NoApp ==
    [slot |-> 0, port |-> 0, handed |-> 0, sent |-> 0, got |-> <<>>,
     eof |-> FALSE, failed |-> FALSE]

NoPeer ==
    [state |-> "none", rcv_nxt |-> 0, acks |-> {}, got |-> <<>>, fin |-> FALSE,
     written |-> 0, closed |-> FALSE]

Positions(n) == [i \in 1..n |-> i]

-----------------------------------------------------------------------------
(* Sequence numbers and the receive buffer.                                *)

Plus(a, n) == (a + n) % SEQ

\* The signed 32-bit difference is negative, or positive.
tcp_seq_before(a, b) == (a - b) % SEQ >= SEQ \div 2
tcp_seq_after(a, b) == (a - b) % SEQ \in 1..(SEQ \div 2 - 1)

tcp_conn_rx_space(c) == (RX_SIZE - 1) - Len(c.rx)

tcp_conn_ack_valid(c, ack) ==
    ~tcp_seq_before(ack, c.snd_una) /\ ~tcp_seq_after(ack, c.snd_nxt)

-----------------------------------------------------------------------------
(* Ports and slots.                                                        *)

\* The port tried at each attempt: past the last one the search restarts at
\* the base plus the number of the attempt.
PortAt(start, attempt) ==
    IF start + attempt <= PORTS THEN start + attempt ELSE 1 + attempt

PortUsed(port) == \E s \in Slots : tcp[s].used /\ tcp[s].local_port = port

\* The first attempt whose port is free.
tcp_pick_local_port ==
    LET tries == {a \in 0..(PORTS - 1) : ~PortUsed(PortAt(next_tcp_port, a))}
    IN  PortAt(next_tcp_port, CHOOSE a \in tries : \A b \in tries : a <= b)

NextPort(port) == IF port = PORTS THEN 1 ELSE port + 1

FreeSlots == {s \in Slots : ~tcp[s].used}

tcp_conn_alloc == CHOOSE s \in FreeSlots : \A t \in FreeSlots : s <= t

\* The connection a segment for a port belongs to: the first match.
Matches(port) == {s \in Slots : tcp[s].used /\ tcp[s].local_port = port}
tcp_conn_find(port) == CHOOSE s \in Matches(port) : \A t \in Matches(port) : s <= t

tcp_conn_release(s) == tcp' = [tcp EXCEPT ![s] = NoConn]

-----------------------------------------------------------------------------
(* net_handle_tcp: what a segment makes of its connection.                 *)

tcp_conn_update_ack(c, ack) ==
    IF ~tcp_conn_ack_valid(c, ack) THEN c
    ELSE LET una == IF tcp_seq_after(ack, c.snd_una) THEN ack ELSE c.snd_una
             all == una = c.snd_nxt
         IN  [c EXCEPT !.snd_una = una,
                       !.state = CASE @ = "FIN_WAIT_1" /\ all ->
                                          IF c.remote_closed THEN "CLOSED" ELSE "FIN_WAIT_2"
                                   [] @ \in {"CLOSING", "LAST_ACK"} /\ all -> "CLOSED"
                                   [] OTHER -> @]

\* Only the segment that comes next is taken, and only if all of it fits.
tcp_conn_queue(c, seq, data) ==
    IF seq = c.rcv_nxt /\ Len(data) <= tcp_conn_rx_space(c)
    THEN [c EXCEPT !.rx = @ \o data, !.rcv_nxt = Plus(@, Len(data))]
    ELSE c

\* Mutant: a FIN closes the stream whether or not it comes next.
FinAnywhere(c, seq) ==
    [c EXCEPT !.remote_closed = TRUE,
              !.rcv_nxt = Plus(@, 1),
              !.state = IF @ = "ESTABLISHED" THEN "CLOSE_WAIT" ELSE "CLOSED"]

tcp_conn_handle_fin(c, seq) ==
    IF seq # c.rcv_nxt THEN c
    ELSE [c EXCEPT !.remote_closed = TRUE,
                   !.rcv_nxt = Plus(@, 1),
                   !.state = CASE @ = "ESTABLISHED" -> "CLOSE_WAIT"
                               [] @ = "FIN_WAIT_1" ->
                                      IF c.snd_una = c.snd_nxt THEN "CLOSED" ELSE "CLOSING"
                               [] @ = "FIN_WAIT_2" -> "CLOSED"
                               [] OTHER -> @]

HandleReset(c) == [c EXCEPT !.reset = TRUE, !.state = "RESET", !.remote_closed = TRUE]

\* In SYN_SENT only a SYN+ACK of everything sent counts.
HandleSynSent(c, seg) ==
    IF seg.syn /\ tcp_conn_ack_valid(c, seg.ack) /\ seg.ack = c.snd_nxt
    THEN [c EXCEPT !.snd_una = seg.ack, !.rcv_nxt = Plus(seg.seq, 1),
                   !.state = "ESTABLISHED"]
    ELSE c

HandleOpen(c, seg) ==
    LET acked == tcp_conn_update_ack(c, seg.ack)
        read == IF seg.data = <<>> THEN acked ELSE tcp_conn_queue(acked, seg.seq, seg.data)
    IN  IF seg.fin THEN tcp_conn_handle_fin(read, Plus(seg.seq, Len(seg.data))) ELSE read

net_handle_tcp(c, seg) ==
    CASE seg.rst -> HandleReset(c)
      [] ~seg.rst /\ c.state = "SYN_SENT" -> HandleSynSent(c, seg)
      [] OTHER -> HandleOpen(c, seg)

-----------------------------------------------------------------------------
(* The peer and the network (outside the repository).                      *)

Segment(syn, rst, seq, ack, data, fin) ==
    [syn |-> syn, rst |-> rst, seq |-> seq, ack |-> ack, data |-> data, fin |-> fin]

\* Every segment the peer of a port may have sent so far: the SYN+ACK, any
\* stretch of what it wrote with any acknowledgement it ever stood at, its
\* FIN, its RST.  A lost segment is one that is never handled.
PeerSegments(port) ==
    LET p == peer[port]
        At(a) == Plus(PEER_ISS, 1 + a)
    IN  {Segment(TRUE, FALSE, PEER_ISS, ack, <<>>, FALSE) : ack \in p.acks \cap {Plus(ISS, 1)}}
        \cup {Segment(FALSE, FALSE, At(ab[1]), ack,
                      SubSeq(Positions(p.written), ab[1] + 1, ab[2]), FALSE) :
                 ack \in p.acks, ab \in {xy \in (0..p.written) \X (0..p.written) : xy[1] <= xy[2]}}
        \cup {Segment(FALSE, FALSE, At(a), ack,
                      SubSeq(Positions(p.written), a + 1, p.written), TRUE) :
                 ack \in (IF p.closed THEN p.acks ELSE {}), a \in 0..p.written}
        \cup {Segment(FALSE, TRUE, 0, 0, <<>>, FALSE) : x \in {p.state} \cap {"reset"}}

\* The peer takes a segment off the wire: the SYN, the new bytes of a data
\* segment that overlaps what it expects, the FIN that comes next.
PeerTake(port) ==
    /\ \E seg \in {x \in wire : x.port = port} :
           LET p == peer[port]
               old == (p.rcv_nxt - seg.seq) % SEQ
               Advance(n) == [p EXCEPT !.rcv_nxt = Plus(@, n), !.acks = @ \cup {Plus(p.rcv_nxt, n)}]
           IN  \/ /\ seg.kind = "SYN" /\ p.state = "none"
                  /\ peer' = [peer EXCEPT ![port].state = "open",
                                          ![port].rcv_nxt = Plus(seg.seq, 1),
                                          ![port].acks = {Plus(seg.seq, 1)}]
               \/ /\ seg.kind = "DATA" /\ p.state = "open" /\ ~p.fin
                  /\ old < Len(seg.data)
                  /\ \E n \in (IF "partial" \in world.env THEN 1 ELSE Len(seg.data) - old)
                                  ..(Len(seg.data) - old) :
                         peer' = [peer EXCEPT ![port] =
                             [Advance(n) EXCEPT !.got = @ \o SubSeq(seg.data, old + 1, old + n)]]
               \/ /\ seg.kind = "FIN" /\ p.state = "open" /\ ~p.fin
                  /\ seg.seq = p.rcv_nxt
                  /\ peer' = [peer EXCEPT ![port] = [Advance(1) EXCEPT !.fin = TRUE]]
    /\ UNCHANGED <<tcp, next_tcp_port, call, app, wire, opens>>

PeerWrites(port) ==
    /\ peer[port].state = "open" /\ ~peer[port].closed
    /\ \/ /\ peer[port].written < world.written
          /\ peer' = [peer EXCEPT ![port].written = @ + 1]
       \/ peer' = [peer EXCEPT ![port].closed = TRUE]
    /\ UNCHANGED <<tcp, next_tcp_port, call, app, wire, opens>>

\* The peer refuses the SYN, or aborts.
PeerResets(port) ==
    /\ "reset" \in world.env
    /\ \E seg \in wire : seg.port = port
    /\ peer[port].state # "reset"
    /\ peer' = [peer EXCEPT ![port].state = "reset"]
    /\ UNCHANGED <<tcp, next_tcp_port, call, app, wire, opens>>

-----------------------------------------------------------------------------
(* Where a call stands.  "loop" is the top of its loop, reached through    *)
(* schedule(); the other places are between two statements.                *)

AtRest(p) == call[p].pc \in {"idle", "loop"}

\* Process p runs: no other process is between two of its statements.
Runs(p) == \A q \in Procs \ {p} : AtRest(q)

At(p, op, pc) == Runs(p) /\ call[p].op = op /\ call[p].pc = pc

Goto(p, pc) == call' = [call EXCEPT ![p].pc = pc]
Return(p) == call' = [call EXCEPT ![p] = NoCall]

Conn(p) == tcp[call[p].slot]

\* net_poll handles a frame that has arrived: called at the bottom of every
\* loop, and by the timer interrupt anywhere.
net_poll(s) ==
    /\ tcp[s].used /\ tcp_conn_find(tcp[s].local_port) = s
    /\ "irq" \in world.env \/ \A p \in Procs : AtRest(p)
    /\ \E c \in {net_handle_tcp(tcp[s], seg) : seg \in PeerSegments(tcp[s].local_port)} :
           tcp' = [tcp EXCEPT ![s] = c]
    /\ UNCHANGED <<next_tcp_port, call, app, peer, wire, opens>>

\* net_send_tcp_segment, up to the frame: the segment starts at snd_nxt.
\* snd_nxt moves on only after the frame has left (Transmitted).
Frame(kind, port, seq, data) == [kind |-> kind, port |-> port, seq |-> seq, data |-> data]

Transmitted(p, n) == tcp' = [tcp EXCEPT ![call[p].slot].snd_nxt = Plus(@, n)]

-----------------------------------------------------------------------------
(* net_tcp_connect_ipv4.                                                   *)

\* The port is taken before the slot: a full table still moves the port on.
\* Segments of the port's last use have left the network by now (the search
\* goes through all the other ports first).
net_tcp_connect_ipv4(p) ==
    /\ p \in world.procs /\ At(p, "none", "idle") /\ app[p].slot = 0 /\ opens < world.opens
    /\ opens' = opens + 1
    /\ LET port == tcp_pick_local_port
       IN  /\ next_tcp_port' = NextPort(port)
           /\ IF FreeSlots = {}
              THEN UNCHANGED <<tcp, call, app, peer, wire>>
              ELSE /\ tcp' = [tcp EXCEPT ![tcp_conn_alloc] =
                                 [NoConn EXCEPT !.used = TRUE, !.local_port = port,
                                                !.snd_una = ISS, !.snd_nxt = ISS,
                                                !.state = "SYN_SENT"]]
                   /\ call' = [call EXCEPT ![p] =
                                  [NoCall EXCEPT !.op = "connect", !.pc = "loop",
                                                 !.slot = tcp_conn_alloc, !.first = TRUE]]
                   /\ app' = [app EXCEPT ![p] = [NoApp EXCEPT !.port = port]]
                   /\ peer' = [peer EXCEPT ![port] = NoPeer]
                   /\ wire' = {seg \in wire : seg.port # port}

ConnectLoop(p) ==
    /\ At(p, "connect", "loop")
    /\ \/ /\ Conn(p).state = "ESTABLISHED"
          /\ app' = [app EXCEPT ![p].slot = call[p].slot]
          /\ Return(p) /\ UNCHANGED tcp
       \/ /\ Conn(p).state = "RESET"
          /\ tcp_conn_release(call[p].slot)
          /\ Return(p) /\ UNCHANGED app
       \/ /\ Conn(p).state \notin {"ESTABLISHED", "RESET"}
          /\ Goto(p, "due") /\ UNCHANGED <<tcp, app>>
    /\ UNCHANGED <<next_tcp_port, peer, wire, opens>>

ConnectSend(p) ==
    /\ At(p, "connect", "due")
    /\ LET c == Conn(p)
       IN  \/ /\ wire' = wire \cup {Frame("SYN", c.local_port, c.snd_una, <<>>)}
              /\ tcp' = [tcp EXCEPT ![call[p].slot].snd_nxt = c.snd_una]
              /\ Goto(p, "sent")
           \/ /\ "fault" \in world.env
              /\ tcp_conn_release(call[p].slot)
              /\ Return(p) /\ UNCHANGED wire
    /\ UNCHANGED <<next_tcp_port, app, peer, opens>>

ConnectSent(p) ==
    /\ At(p, "connect", "sent")
    /\ Transmitted(p, 1)
    /\ call' = [call EXCEPT ![p].pc = "loop", ![p].first = FALSE]
    /\ UNCHANGED <<next_tcp_port, app, peer, wire, opens>>

\* Mutant: the slot is not given back.
ConnectExpiresHolding(p) ==
    /\ At(p, "connect", "loop") /\ ~call[p].first
    /\ Return(p)
    /\ UNCHANGED <<tcp, next_tcp_port, app, peer, wire, opens>>

\* The deadline is looked at first: even an established connection is dropped.
ConnectExpires(p) ==
    /\ At(p, "connect", "loop") /\ ~call[p].first
    /\ tcp_conn_release(call[p].slot)
    /\ Return(p)
    /\ UNCHANGED <<next_tcp_port, app, peer, wire, opens>>

-----------------------------------------------------------------------------
(* net_tcp_send: stop and wait, a chunk of at most TX_MSS at a time.       *)

Chunk(c) == IF c.len - c.off > TX_MSS THEN TX_MSS ELSE c.len - c.off

\* The call is about to send the chunk at offset off.
ChunkCall(c, off, una) ==
    LET d == [c EXCEPT !.off = off, !.first = TRUE, !.pc = "loop"]
    IN  [d EXCEPT !.expected = Plus(una, Chunk(d))]

\* send returns n: what the caller makes of it (tcp_send_all, net_client.c).
SendReturns(p, n) ==
    /\ Return(p)
    /\ app' = [app EXCEPT ![p].sent = @ + n,
                          ![p].failed = n = 0 \/ (n < call[p].len /\ "retry" \notin world.env)]

\* The chunk is acknowledged: the next one, or the end.
NextChunk(p) ==
    LET off == call[p].off + Chunk(call[p])
    IN  IF off = call[p].len THEN SendReturns(p, off)
        ELSE /\ call' = [call EXCEPT ![p] = ChunkCall(@, off, Conn(p).snd_una)]
             /\ UNCHANGED app

\* Mutant: what has been sent counts as acknowledged.
AckedWhenSent(p) == ~tcp_seq_before(Conn(p).snd_nxt, call[p].expected)

Acked(p) == ~tcp_seq_before(Conn(p).snd_una, call[p].expected)

net_tcp_send(p) ==
    /\ At(p, "none", "idle") /\ app[p].slot # 0 /\ ~app[p].failed
    /\ LET c == tcp[app[p].slot]
       IN  \E len \in 1..(world.out - app[p].sent) :
           IF c.state # "ESTABLISHED" \/ c.reset
           THEN app' = [app EXCEPT ![p].failed = TRUE] /\ UNCHANGED call
           ELSE /\ call' = [call EXCEPT ![p] =
                       ChunkCall([NoCall EXCEPT !.op = "send", !.slot = app[p].slot,
                                                !.len = len], 0, c.snd_una)]
                /\ app' = [app EXCEPT ![p].handed =
                               IF app[p].sent + len > @ THEN app[p].sent + len ELSE @]
    /\ UNCHANGED <<tcp, next_tcp_port, peer, wire, opens>>

SendLoop(p) ==
    /\ At(p, "send", "loop")
    /\ LET c == Conn(p)
           broken == \/ c.reset \/ c.remote_closed
                     \/ c.state \notin {"ESTABLISHED", "CLOSE_WAIT"}
       IN  \/ broken /\ SendReturns(p, call[p].off)
           \/ /\ ~broken
              /\ call[p].first \/ "late" \in world.env \/ ~Acked(p)
              /\ Goto(p, "due") /\ UNCHANGED app
           \/ /\ ~broken /\ ~call[p].first
              /\ Goto(p, "test") /\ UNCHANGED app
    /\ UNCHANGED <<tcp, next_tcp_port, peer, wire, opens>>

\* A chunk, sent or resent, starts at the first unacknowledged byte.
ChunkStart(c) == c.snd_una

\* The chunk goes out at snd_una, whatever has been acknowledged meanwhile.
SendChunk(p) ==
    /\ At(p, "send", "due")
    /\ LET c == Conn(p)
           from == app[p].sent + call[p].off
           data == [i \in 1..Chunk(call[p]) |-> from + i]
       IN  /\ tcp' = [tcp EXCEPT ![call[p].slot].snd_nxt = ChunkStart(c)]
           /\ \/ /\ wire' = wire \cup {Frame("DATA", c.local_port, ChunkStart(c), data)}
                 /\ Goto(p, "sent") /\ UNCHANGED app
              \/ /\ "fault" \in world.env
                 /\ SendReturns(p, call[p].off) /\ UNCHANGED wire
    /\ UNCHANGED <<next_tcp_port, peer, opens>>

SendSent(p) ==
    /\ At(p, "send", "sent")
    /\ Transmitted(p, Chunk(call[p]))
    /\ Goto(p, "test")
    /\ UNCHANGED <<next_tcp_port, app, peer, wire, opens>>

SendTest(p) ==
    /\ At(p, "send", "test")
    /\ IF Acked(p) THEN NextChunk(p)
       ELSE /\ call' = [call EXCEPT ![p].pc = "loop", ![p].first = FALSE]
            /\ UNCHANGED app
    /\ UNCHANGED <<tcp, next_tcp_port, peer, wire, opens>>

\* The chunk's deadline has passed; an ACK that came in with it still counts.
SendExpires(p) ==
    /\ At(p, "send", "loop") /\ ~call[p].first
    /\ IF Acked(p) THEN NextChunk(p) ELSE SendReturns(p, call[p].off)
    /\ UNCHANGED <<tcp, next_tcp_port, peer, wire, opens>>

-----------------------------------------------------------------------------
(* net_tcp_recv.                                                           *)

net_tcp_recv(p) ==
    /\ At(p, "none", "idle") /\ app[p].slot # 0 /\ ~app[p].eof /\ ~app[p].failed
    /\ \E len \in world.lens :
           call' = [call EXCEPT ![p] = [NoCall EXCEPT !.op = "recv", !.pc = "loop",
                                            !.slot = app[p].slot, !.len = len, !.first = TRUE]]
    /\ UNCHANGED <<tcp, next_tcp_port, app, peer, wire, opens>>

\* The buffer is looked at first: what is there is handed out.
RecvLoop(p) ==
    /\ At(p, "recv", "loop")
    /\ LET rx == Conn(p).rx
           n == IF Len(rx) < call[p].len THEN Len(rx) ELSE call[p].len
       IN  IF rx = <<>> THEN Goto(p, "empty") /\ UNCHANGED <<tcp, app>>
           ELSE /\ tcp' = [tcp EXCEPT ![call[p].slot].rx = SubSeq(@, n + 1, Len(@))]
                /\ app' = [app EXCEPT ![p].got = @ \o SubSeq(rx, 1, n)]
                /\ Return(p)
    /\ UNCHANGED <<next_tcp_port, peer, wire, opens>>

\* Then, with the buffer found empty, the state.
RecvEmpty(p) ==
    /\ At(p, "recv", "empty")
    /\ LET c == Conn(p)
       IN  CASE c.reset -> Return(p) /\ app' = [app EXCEPT ![p].failed = TRUE]
             [] ~c.reset /\ (c.remote_closed \/ c.state = "CLOSED") ->
                    Return(p) /\ app' = [app EXCEPT ![p].eof = TRUE]
             [] OTHER -> /\ call' = [call EXCEPT ![p].pc = "loop", ![p].first = FALSE]
                         /\ UNCHANGED app
    /\ UNCHANGED <<tcp, next_tcp_port, peer, wire, opens>>

RecvExpires(p) ==
    /\ At(p, "recv", "loop") /\ ~call[p].first
    /\ Return(p)
    /\ UNCHANGED <<tcp, next_tcp_port, app, peer, wire, opens>>

-----------------------------------------------------------------------------
(* net_tcp_close.  The FIN is sent once.  Its callers (net_client.c, pkg,  *)
(* install) ignore the result: a close that times out leaves its slot in   *)
(* use with nobody to release it.                                          *)

net_tcp_close(p) ==
    /\ At(p, "none", "idle") /\ app[p].slot # 0
    /\ LET s == app[p].slot
           c == tcp[s]
           Enter(pc) == call' = [call EXCEPT ![p] =
                            [NoCall EXCEPT !.op = "close", !.pc = pc, !.slot = s, !.first = TRUE]]
       IN  \/ /\ c.state \in {"RESET", "CLOSED"}
              /\ tcp_conn_release(s)
              /\ app' = [app EXCEPT ![p] = NoApp]
              /\ UNCHANGED <<call, wire>>
           \/ /\ c.state \in {"ESTABLISHED", "CLOSE_WAIT"}
              /\ Enter(c.state)
              /\ wire' = wire \cup {Frame("FIN", c.local_port, c.snd_nxt, <<>>)}
              /\ UNCHANGED <<tcp, app>>
           \/ /\ "fault" \in world.env /\ c.state \in {"ESTABLISHED", "CLOSE_WAIT"}
              /\ app' = [app EXCEPT ![p] = NoApp]
              /\ UNCHANGED <<tcp, call, wire>>
    /\ UNCHANGED <<next_tcp_port, peer, opens>>

\* The FIN has left: snd_nxt counts it, and then the state says so.
CloseSent(p) ==
    /\ \E pc \in {"ESTABLISHED", "CLOSE_WAIT"} :
           /\ At(p, "close", pc)
           /\ Goto(p, IF pc = "ESTABLISHED" THEN "FIN_WAIT_1" ELSE "LAST_ACK")
    /\ Transmitted(p, 1)
    /\ UNCHANGED <<next_tcp_port, app, peer, wire, opens>>

CloseState(p) ==
    /\ \E pc \in {"FIN_WAIT_1", "LAST_ACK"} :
           /\ At(p, "close", pc)
           /\ tcp' = [tcp EXCEPT ![call[p].slot].state = pc]
    /\ Goto(p, "loop")
    /\ UNCHANGED <<next_tcp_port, app, peer, wire, opens>>

CloseLoop(p) ==
    /\ At(p, "close", "loop")
    /\ Conn(p).state \in {"CLOSED", "RESET"}
    /\ tcp_conn_release(call[p].slot)
    /\ app' = [app EXCEPT ![p] = NoApp]
    /\ Return(p)
    /\ UNCHANGED <<next_tcp_port, peer, wire, opens>>

\* Mutant: only the passive close has a deadline.
CloseExpiresPassive(p) ==
    /\ At(p, "close", "loop") /\ Conn(p).state = "LAST_ACK"
    /\ app' = [app EXCEPT ![p] = NoApp]
    /\ Return(p)
    /\ UNCHANGED <<tcp, next_tcp_port, peer, wire, opens>>

CloseExpires(p) ==
    /\ At(p, "close", "loop")
    /\ app' = [app EXCEPT ![p] = NoApp]
    /\ Return(p)
    /\ UNCHANGED <<tcp, next_tcp_port, peer, wire, opens>>

-----------------------------------------------------------------------------
Init ==
    /\ world \in Worlds
    /\ tcp = [s \in Slots |-> NoConn]
    /\ next_tcp_port = 1
    /\ call = [p \in Procs |-> NoCall]
    /\ app = [p \in Procs |-> NoApp]
    /\ peer = [port \in Ports |-> NoPeer]
    /\ wire = {}
    /\ opens = 0

Connect(p) == net_tcp_connect_ipv4(p) \/ ConnectLoop(p) \/ ConnectSend(p) \/ ConnectSent(p)
Send(p) == net_tcp_send(p) \/ SendLoop(p) \/ SendChunk(p) \/ SendSent(p) \/ SendTest(p)
Recv(p) == net_tcp_recv(p) \/ RecvLoop(p) \/ RecvEmpty(p)
Close(p) == net_tcp_close(p) \/ CloseSent(p) \/ CloseState(p) \/ CloseLoop(p)

\* The deadline of the call has passed when its loop comes round.
Expires(p) == ConnectExpires(p) \/ SendExpires(p) \/ RecvExpires(p) \/ CloseExpires(p)

Next ==
    /\ UNCHANGED world
    /\ \/ \E p \in Procs : Connect(p) \/ Send(p) \/ Recv(p) \/ Close(p) \/ Expires(p)
       \/ \E s \in Slots : net_poll(s)
       \/ \E port \in Ports : PeerTake(port) \/ PeerWrites(port) \/ PeerResets(port)

Spec == Init /\ [][Next]_vars

\* The steps of a call that are between two statements.
Inner(p) ==
    \/ ConnectSend(p) \/ ConnectSent(p) \/ SendChunk(p) \/ SendSent(p) \/ SendTest(p)
    \/ RecvEmpty(p) \/ CloseSent(p) \/ CloseState(p)

\* A process inside a call keeps running, and the uptime clock reaches the
\* deadline of a loop that keeps coming round.
Fairness ==
    \A p \in Procs :
        /\ WF_vars(UNCHANGED world /\ Inner(p))
        /\ WF_vars(UNCHANGED world /\ (ConnectLoop(p) \/ SendLoop(p) \/ RecvLoop(p) \/ CloseLoop(p)))
        /\ SF_vars(UNCHANGED world /\ Expires(p))

FairSpec == Spec /\ Fairness

-----------------------------------------------------------------------------
(* Properties.                                                             *)

TypeOK ==
    /\ \A s \in Slots :
           /\ tcp[s].state \in States
           /\ tcp[s].local_port \in 0..PORTS
           /\ {tcp[s].snd_una, tcp[s].snd_nxt, tcp[s].rcv_nxt} \subseteq 0..(SEQ - 1)
           /\ Len(tcp[s].rx) < RX_SIZE
    /\ next_tcp_port \in Ports
    /\ \A p \in Procs : call[p].slot \in 0..MAX_CONN /\ app[p].slot \in 0..MAX_CONN

Live(p) == app[p].slot # 0
PeerOf(p) == peer[app[p].port]

\* What recv has handed out, followed by what the receive buffer holds, is
\* the beginning of what the peer wrote: no byte is lost, repeated or out of
\* place, whatever the network does and wherever in a call an interrupt falls
\* (net_handle_tcp takes only seq = rcv_nxt, network.c:1647).
InOrder ==
    TypeOK /\ \A p \in Procs : Live(p) =>
        LET all == app[p].got \o tcp[app[p].slot].rx
        IN  Len(all) <= PeerOf(p).written /\ all = Positions(Len(all))

\* Every byte send has reported as sent has been taken by the peer: the
\* count send returns is never ahead of the other end, in spite of resends,
\* old acknowledgements and an snd_nxt that is set back (network.c:2004).
ReportedArrived ==
    \A p \in Procs : Live(p) => app[p].sent <= Len(PeerOf(p).got)

\* No byte is reported as sent that the peer has not taken (ReportedArrived).
\* And what the peer has is the beginning of what the caller handed to send,
\* and when the peer has seen the FIN it has at least all that was reported
\* sent, in a world without irq, late, partial and retry: a peer that takes
\* whole segments, a loop that notices an ACK before its resend is due,
\* callers that give up after a short send.
Gentle == world.env \subseteq {"fault", "reset"}
OutgoingExact ==
    /\ ReportedArrived
    /\ Gentle => \A p \in Procs : Live(p) =>
          LET got == PeerOf(p).got
          IN  /\ Len(got) <= app[p].handed /\ got = Positions(Len(got))
              /\ PeerOf(p).fin => app[p].sent <= Len(got)

\* Both directions of a connection: InOrder and OutgoingExact.
StreamsExact == InOrder /\ OutgoingExact

\* The slot of a process is in use and its own, in a call or between calls: no
\* release of one process takes the connection of another.  And two connections
\* never share a local port, so that a segment finds its own connection
\* (tcp_pick_local_port, tcp_conn_find), also after the search has wrapped.
Holds(p) == {app[p].slot, call[p].slot} \ {0}
SlotsOwned ==
    /\ \A p \in Procs : \A s \in Holds(p) :
           tcp[s].used /\ (app[p].port = tcp[s].local_port)
    /\ \A p, q \in Procs : p # q => Holds(p) \cap Holds(q) = {}
    /\ \A s, t \in Slots :
           tcp[s].used /\ tcp[t].used /\ tcp[s].local_port = tcp[t].local_port => s = t

\* Slots belong to whoever was given them, and come back: every step keeps
\* SlotsOwned, and a slot is given up without being released only by a close
\* that did not finish: a connect that fails, whatever the reason, leaves
\* nothing behind.
SlotsKept ==
    [][SlotsOwned' /\ \A s \in Slots : \A p \in Procs :
           (s \in Holds(p) /\ s \notin Holds(p)' /\ tcp'[s].used) => call[p].op # "connect"]_vars

\* Every call returns: the loops of connect, send, recv and close all end at
\* their deadline if not before.
CallsReturn ==
    \A p \in Procs : call[p].op # "none" ~> call[p].op = "none"

\* The stream from the peer to a process, as a pipe.  Nothing is claimed
\* (the mapping stands still) in a world that is not gentle or has several
\* processes.
Claimed == Gentle /\ Cardinality(world.procs) = 1
ReaderApp == IF Claimed THEN app[CHOOSE p \in world.procs : TRUE] ELSE NoApp
WriterPeer == IF ReaderApp.port = 0 THEN NoPeer ELSE peer[ReaderApp.port]
Incoming ==
    INSTANCE Pipe WITH written <- WriterPeer.written, closed <- WriterPeer.closed,
                       read <- ReaderApp.got, eof <- ReaderApp.eof

\* recv behaves like the reading end of a pipe: bytes once and in order, and
\* the end of the stream only after the peer's last byte (network.c:2036-2049).
IncomingImplemented == Incoming!Spec

=============================================================================

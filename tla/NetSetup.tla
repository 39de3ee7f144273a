------------------------------ MODULE NetSetup -------------------------------
(***************************************************************************)
(* How NumOS gets an address and uses it: DHCP, ARP and ping of            *)
(* src/drivers/network.c over one of its cards.                            *)
(*                                                                         *)
(* The kernel is a stack of activations, because these functions call one  *)
(* another while they wait: a call sends and polls; net_poll hands a frame *)
(* to its handler, which may send; a send waits for a free slot or for an  *)
(* ARP answer by polling again.  timer_handler polls as well (timer.c:137) *)
(* and may interrupt all of it, since system calls run with interrupts on  *)
(* (syscall.c:1035).  Inside the interrupt the clock stands still, so no   *)
(* wait there ever expires.  The calls do not yield: there is one at most. *)
(*                                                                         *)
(* An address is <<net, host>>.  A mask is 1 (the net counts) or 0 (all    *)
(* addresses are near).  Deadlines expire at any test of the clock.        *)
(***************************************************************************)
EXTENDS NetCard, SequencesExt, FiniteSets

CONSTANTS
    ARP_SIZE,    \* NET_ARP_CACHE_SIZE
    MaxDepth,    \* bound on nested activations (the kernel's stack)
    Worlds       \* the surroundings considered: see World

VARIABLES
    world,       \* one of Worlds, chosen once
    card,        \* the rings
    conf,        \* ipv4, netmask, gateway, dhcp_server, dhcp_configured
    dhcp,        \* g_net.dhcp
    ping,        \* g_net.ping and next_ping_seq
    arp,         \* g_net.arp_cache
    stack,       \* the kernel's activations, the running one last
    ret,         \* what the last activation to end returned
    now,         \* the clock: timer interrupts so far
    left,        \* calls the program still makes
    done,        \* the last call that returned, and its result
    sent,        \* every packet the card transmitted
    came,        \* the offers, ACKs and echo replies the card received
    arrived,     \* how many frames it put in the ring
    taken,       \* how many frames polls took from the ring
    nested       \* how a poll came to run inside a poll or a send, if ever

vars == <<world, card, conf, dhcp, ping, arp, stack, ret, now, left, done, sent,
          came, arrived, taken, nested>>

Zero == <<0, 0>>
Broadcast == <<255, 255>>
NoOption == <<>>
NoMask == 2

NoConf == [configured |-> FALSE, ipv4 |-> Zero, netmask |-> 0, gateway |-> Zero, server |-> Zero]

NoDhcp ==
    [xid |-> 0, offer_valid |-> FALSE, ack_received |-> FALSE, nak_received |-> FALSE,
     msg_type |-> "none", offered_ip |-> Zero, server_id |-> Zero, subnet_mask |-> 0,
     router |-> Zero]

NoPing == [active |-> FALSE, done |-> FALSE, seq |-> 0, target |-> Zero]

NoEntry == [valid |-> FALSE, ip |-> Zero, mac |-> 0, seen |-> 0]

NoCall == [op |-> "none", result |-> "none", seq |-> 0, target |-> Zero]

\* A packet on its way out: its kind, where it goes, the number it carries
\* (xid or seq), the addresses in it and the card it is addressed to.
Packet(type, dst, number, ip, id) ==
    [type |-> type, dst |-> dst, number |-> number, ip |-> ip, id |-> id, mac |-> 0]

dhcp_build_discover == Packet("discover", Broadcast, dhcp.xid, Zero, Zero)
dhcp_build_request == Packet("request", Broadcast, dhcp.xid, dhcp.offered_ip, dhcp.server_id)

\* An activation: the function, where in it, its slot and its packet, the
\* next hop it looks for, and whether it is the timer interrupt.
Activation(fn, pc, packet) ==
    [fn |-> fn, pc |-> pc, slot |-> 0, packet |-> packet, hop |-> Zero, irq |-> FALSE]

net_send_ipv4(p) == Activation("ipv4", "resolve", p)
net_send_frame(p, mac) == Activation("frame", "start", [p EXCEPT !.mac = mac])
net_send_arp(type, target, mac) == net_send_frame(Packet(type, target, 0, conf.ipv4, Zero), mac)
net_poll == Activation("poll", "loop", <<>>)

Running(fn, pc) == stack # <<>> /\ Last(stack).fn = fn /\ Last(stack).pc = pc
Top == Last(stack)
With(a) == Append(Front(stack), a)
At(pc) == [Top EXCEPT !.pc = pc]
InIrq == \E i \in DOMAIN stack : stack[i].irq

-----------------------------------------------------------------------------
(* The ARP cache.                                                          *)

SameIp(ip) == {i \in 1..ARP_SIZE : arp[i].valid /\ arp[i].ip = ip}
FreeEntries == {i \in 1..ARP_SIZE : ~arp[i].valid}
First(s) == CHOOSE i \in s : \A j \in s : i <= j
Oldest == First({i \in 1..ARP_SIZE : \A j \in 1..ARP_SIZE : arp[i].seen <= arp[j].seen})

\* The entry of the address, else a free one, else the oldest.
arp_cache_update(ip, mac) ==
    LET slot == CASE SameIp(ip) # {} -> First(SameIp(ip))
                  [] SameIp(ip) = {} /\ FreeEntries # {} -> First(FreeEntries)
                  [] OTHER -> Oldest
    IN  [arp EXCEPT ![slot] = [valid |-> TRUE, ip |-> ip, mac |-> mac, seen |-> now]]

Cached(ip) == SameIp(ip) # {}
arp_cache_lookup(ip) == arp[First(SameIp(ip))].mac

ip_same_subnet(a, b, mask) == mask = 0 \/ a[1] = b[1]

-----------------------------------------------------------------------------
(* The frames of the network.  A frame names its sender's address and      *)
(* card; the other fields depend on its type.                              *)

Frame(type, src, mac, dst, number) ==
    [type |-> type, src |-> src, mac |-> mac, dst |-> dst, number |-> number,
     yiaddr |-> Zero, id |-> NoOption, mask |-> NoMask, router |-> NoOption]

Given(option, old) == IF option = NoOption THEN old ELSE option

\* An option a message leaves out keeps the value of the message before.
dhcp_parse_options(d, f) ==
    [d EXCEPT !.msg_type = f.type, !.server_id = Given(f.id, @),
              !.subnet_mask = IF f.mask = NoMask THEN @ ELSE f.mask,
              !.router = Given(f.router, @)]

dhcp_configure_from_state(d) ==
    [configured |-> TRUE, ipv4 |-> d.offered_ip, netmask |-> d.subnet_mask,
     gateway |-> d.router, server |-> d.server_id]

\* Mutant: the transaction number is not compared.
HandleAnyXid(f) ==
    LET d == [dhcp_parse_options(dhcp, f) EXCEPT !.offered_ip = f.yiaddr]
    IN  /\ dhcp' = CASE f.type = "offer" -> [d EXCEPT !.offer_valid = TRUE]
                     [] f.type = "ack" -> [d EXCEPT !.ack_received = TRUE]
                     [] OTHER -> [d EXCEPT !.nak_received = TRUE]
        /\ conf' = IF f.type = "ack" THEN dhcp_configure_from_state(d) ELSE conf

net_handle_dhcp(f) ==
    IF f.number # dhcp.xid THEN UNCHANGED <<dhcp, conf>>
    ELSE LET d == [dhcp_parse_options(dhcp, f) EXCEPT !.offered_ip = f.yiaddr]
         IN  /\ dhcp' = CASE f.type = "offer" -> [d EXCEPT !.offer_valid = TRUE]
                          [] f.type = "ack" -> [d EXCEPT !.ack_received = TRUE]
                          [] OTHER -> [d EXCEPT !.nak_received = TRUE]
             /\ conf' = IF f.type = "ack" THEN dhcp_configure_from_state(d) ELSE conf

\* Mutant: the sequence number is not compared.
HandleAnySeq(f) ==
    IF ping.active /\ f.src = ping.target
    THEN ping' = [ping EXCEPT !.active = FALSE, !.done = TRUE]
    ELSE UNCHANGED ping

\* The identifier is the same for every ping, the number is not.
HandleEchoReply(f) ==
    IF ping.active /\ f.number = ping.seq /\ f.src = ping.target
    THEN ping' = [ping EXCEPT !.active = FALSE, !.done = TRUE]
    ELSE UNCHANGED ping

\* Mutant: the sender is remembered only if it is not asking for anything.
LearnLate(f) == IF f.type = "echo_request" THEN arp ELSE arp_cache_update(f.src, f.mac)

\* Every ARP and IPv4 frame teaches where its sender is, before it is
\* looked at.
Learn(f) == arp_cache_update(f.src, f.mac)

\* What a handler sends in answer: an ARP reply goes to the card at once, an
\* echo reply is routed like any packet.
Answer(f) ==
    CASE f.type = "arp_request" /\ conf.configured /\ f.dst = conf.ipv4 ->
             <<net_send_arp("arp_reply", f.src, f.mac)>>
      [] f.type = "echo_request" /\ f.dst = conf.ipv4 ->
             <<net_send_ipv4(Packet("echo_reply", f.src, f.number, Zero, Zero))>>
      [] OTHER -> <<>>

net_process_frame(f) ==
    /\ arp' = Learn(f)
    /\ IF f.type \in {"offer", "ack", "nak"} THEN net_handle_dhcp(f) ELSE UNCHANGED <<dhcp, conf>>
    /\ IF f.type = "echo_reply" THEN HandleEchoReply(f) ELSE UNCHANGED ping

-----------------------------------------------------------------------------
(* net_poll.                                                               *)

\* A poll or a send is under way and another poll would get in between.
Inside == \E i \in DOMAIN stack : \/ stack[i].fn = "poll" /\ stack[i].pc = "next"
                                  \/ stack[i].fn = "frame" /\ stack[i].pc # "start"

\* A loop of the running activation polls and then goes on at pc.
PollAndGoTo(pc) ==
    /\ Len(stack) < MaxDepth
    /\ stack' = Append(With(At(pc)), net_poll)
    /\ nested' = IF Inside THEN nested \cup {"wait"} ELSE nested

Return(result) == stack' = Front(stack) /\ ret' = result

PollTake ==
    /\ Running("poll", "loop")
    /\ LET slot == card.rx[card.rx_index]
           here == [At("next") EXCEPT !.slot = card.rx_index]
       IN  /\ slot.full
           /\ IF slot.bad
              THEN stack' = With(here) /\ UNCHANGED <<arp, dhcp, conf, ping>>
              ELSE stack' = With(here) \o Answer(slot.frame) /\ net_process_frame(slot.frame)
    /\ taken' = taken + 1
    /\ UNCHANGED <<world, card, ret, now, left, done, sent, came, arrived, nested>>

PollNext ==
    /\ Running("poll", "next")
    /\ card' = ReturnSlot(card, Top.slot)
    /\ stack' = With(At("loop"))
    /\ UNCHANGED <<world, conf, dhcp, ping, arp, ret, now, left, done, sent, came, arrived,
                   taken, nested>>

PollEnd ==
    /\ Running("poll", "loop") /\ ~card.rx[card.rx_index].full
    /\ Return("ok")
    /\ UNCHANGED <<world, card, conf, dhcp, ping, arp, now, left, done, sent, came, arrived,
                   taken, nested>>

-----------------------------------------------------------------------------
(* net_send_frame, in the shape both cards share: read the index, wait for *)
(* its slot to be free, fill the slot and move on from the index read.     *)

Frozen == UNCHANGED <<world, conf, dhcp, ping, arp, now, left, done, came, arrived, taken>>

FrameStart ==
    /\ Running("frame", "start")
    /\ stack' = With([At(IF card.tx[card.tx_index].busy THEN "wait" ELSE "put")
                        EXCEPT !.slot = card.tx_index])
    /\ Frozen /\ UNCHANGED <<card, ret, sent, nested>>

FrameReady ==
    /\ Running("frame", "wait") /\ ~card.tx[Top.slot].busy
    /\ stack' = With(At("put"))
    /\ Frozen /\ UNCHANGED <<card, ret, sent, nested>>

FrameWaits ==
    /\ Running("frame", "wait") /\ card.tx[Top.slot].busy
    /\ PollAndGoTo("wait")
    /\ Frozen /\ UNCHANGED <<card, ret, sent>>

FrameExpires ==
    /\ Running("frame", "wait") /\ card.tx[Top.slot].busy /\ ~InIrq
    /\ Return("err")
    /\ Frozen /\ UNCHANGED <<card, sent, nested>>

\* A prompt card has sent the frame when the call returns.
FramePut ==
    /\ Running("frame", "put")
    /\ LET c == IF card.backend = "e1000" THEN e1000_send_frame(card, Top.slot, Top.packet)
                ELSE pcnet_send_frame(card, Top.slot, Top.packet)
       IN  IF world.prompt /\ CanTransmit(c)
           THEN card' = Transmit(c) /\ sent' = sent \cup {c.tx[c.tdh].packet}
           ELSE card' = c /\ UNCHANGED sent
    /\ Return("ok")
    /\ Frozen /\ UNCHANGED nested

-----------------------------------------------------------------------------
(* net_send_ipv4.                                                          *)

\* The next hop of a packet, if it has one.
NextHop(dst) ==
    CASE ip_same_subnet(dst, conf.ipv4, conf.netmask) -> {dst}
      [] ~ip_same_subnet(dst, conf.ipv4, conf.netmask) /\ conf.gateway # Zero -> {conf.gateway}
      [] OTHER -> {}

Steps == Frozen /\ UNCHANGED <<card, sent>>

ResolveRefused ==
    /\ Running("ipv4", "resolve")
    /\ Top.packet.dst # Broadcast /\ (~conf.configured \/ NextHop(Top.packet.dst) = {})
    /\ Return("err")
    /\ Steps /\ UNCHANGED nested

\* Broadcast, or the neighbour is known: the rest is net_send_frame's.
ResolveKnown ==
    /\ Running("ipv4", "resolve")
    /\ \/ /\ Top.packet.dst = Broadcast
          /\ stack' = With(net_send_frame(Top.packet, 0))
       \/ /\ Top.packet.dst # Broadcast /\ conf.configured
          /\ \E hop \in NextHop(Top.packet.dst) :
                /\ Cached(hop)
                /\ stack' = With(net_send_frame(Top.packet, arp_cache_lookup(hop)))
    /\ Steps /\ UNCHANGED <<ret, nested>>

ResolveAsks ==
    /\ Running("ipv4", "resolve")
    /\ Top.packet.dst # Broadcast /\ conf.configured
    /\ \E hop \in NextHop(Top.packet.dst) :
          /\ ~Cached(hop)
          /\ stack' = Append(With([At("asked") EXCEPT !.hop = hop]),
                             net_send_arp("arp_request", hop, 0))
    /\ Steps /\ UNCHANGED <<ret, nested>>

Asked ==
    /\ Running("ipv4", "asked")
    /\ IF ret = "ok" THEN stack' = With(At("wait")) /\ UNCHANGED ret ELSE Return("err")
    /\ Steps /\ UNCHANGED nested

ArpWaits ==
    /\ Running("ipv4", "wait")
    /\ PollAndGoTo("look")
    /\ Steps /\ UNCHANGED ret

ArpLooks ==
    /\ Running("ipv4", "look")
    /\ stack' = With(IF Cached(Top.hop)
                     THEN net_send_frame(Top.packet, arp_cache_lookup(Top.hop))
                     ELSE At("wait"))
    /\ Steps /\ UNCHANGED <<ret, nested>>

\* An answer that came just in time still counts.
ArpExpires ==
    /\ Running("ipv4", "wait") /\ ~InIrq
    /\ IF Cached(Top.hop)
       THEN /\ stack' = With(net_send_frame(Top.packet, arp_cache_lookup(Top.hop)))
            /\ UNCHANGED ret
       ELSE Return("err")
    /\ Steps /\ UNCHANGED nested

-----------------------------------------------------------------------------
(* net_request_dhcp.                                                       *)

Calm == UNCHANGED <<world, card, arp, now, sent, came, arrived, taken>>

Finish(result) == Return(result) /\ done' = [done EXCEPT !.result = result]

\* A new attempt: nothing is left of the one before, and the number comes
\* from the clock.
dhcp_reset_state == [NoDhcp EXCEPT !.xid = now + 1]

net_request_dhcp ==
    /\ stack = <<>> /\ left.dhcps > 0
    /\ left' = [left EXCEPT !.dhcps = @ - 1]
    /\ IF ~card.ready
       THEN /\ done' = [NoCall EXCEPT !.op = "dhcp", !.result = "err"]
            /\ UNCHANGED <<conf, dhcp, stack>>
       ELSE /\ done' = [NoCall EXCEPT !.op = "dhcp"]
            /\ conf' = NoConf
            /\ dhcp' = dhcp_reset_state
            /\ stack' = <<Activation("dhcp", "discover", <<>>),
                          net_send_ipv4([dhcp_build_discover EXCEPT !.number = dhcp'.xid])>>
    /\ Calm /\ UNCHANGED <<ping, ret, nested>>

\* The DISCOVER or the REQUEST is out, or could not be sent.
DhcpSent ==
    /\ \/ Running("dhcp", "discover") \/ Running("dhcp", "request")
    /\ IF ret = "ok"
       THEN /\ stack' = With(At(IF Top.pc = "discover" THEN "offer" ELSE "ack"))
            /\ UNCHANGED <<ret, done>>
       ELSE Finish("err")
    /\ Calm /\ UNCHANGED <<conf, dhcp, ping, left, nested>>

SendRequest == Append(With(At("request")), net_send_ipv4(dhcp_build_request))

DhcpWaits ==
    /\ \/ Running("dhcp", "offer") /\ PollAndGoTo("offered")
       \/ Running("dhcp", "ack") /\ PollAndGoTo("acked")
    /\ Calm /\ UNCHANGED <<conf, dhcp, ping, ret, left, done>>

DhcpOffered ==
    /\ Running("dhcp", "offered")
    /\ stack' = IF dhcp.offer_valid THEN SendRequest ELSE With(At("offer"))
    /\ Calm /\ UNCHANGED <<conf, dhcp, ping, ret, left, done, nested>>

DhcpAcked ==
    /\ Running("dhcp", "acked")
    /\ CASE dhcp.ack_received -> Finish("ok")
         [] ~dhcp.ack_received /\ dhcp.nak_received -> Finish("err")
         [] OTHER -> stack' = With(At("ack")) /\ UNCHANGED <<ret, done>>
    /\ Calm /\ UNCHANGED <<conf, dhcp, ping, left, nested>>

\* An offer that came just in time still counts, an ACK does not.
DhcpExpires ==
    /\ \/ /\ Running("dhcp", "offer")
          /\ IF dhcp.offer_valid THEN stack' = SendRequest /\ UNCHANGED <<ret, done>>
             ELSE Finish("timeout")
       \/ Running("dhcp", "ack") /\ Finish("timeout")
    /\ Calm /\ UNCHANGED <<conf, dhcp, ping, left, nested>>

-----------------------------------------------------------------------------
(* net_ping_ipv4.                                                          *)

\* g_net.ping is cleared, next_ping_seq is kept.
NewPing(seq, addr) == [active |-> TRUE, done |-> FALSE, seq |-> seq, target |-> addr]

net_ping_ipv4(addr) ==
    /\ stack = <<>> /\ left.pings > 0
    /\ left' = [left EXCEPT !.pings = @ - 1, !.seq = IF conf.configured THEN @ + 1 ELSE @]
    /\ IF ~conf.configured
       THEN /\ done' = [NoCall EXCEPT !.op = "ping", !.result = "err"]
            /\ UNCHANGED <<ping, stack>>
       ELSE /\ done' = [op |-> "ping", result |-> "none", seq |-> left'.seq, target |-> addr]
            /\ ping' = NewPing(left'.seq, addr)
            /\ stack' = <<Activation("ping", "request", <<>>),
                          net_send_ipv4(Packet("echo_request", addr, left'.seq, Zero, Zero))>>
    /\ Calm /\ UNCHANGED <<conf, dhcp, ret, nested>>

EndPing(result) == Finish(result) /\ ping' = NoPing

PingSent ==
    /\ Running("ping", "request")
    /\ IF ret = "ok" THEN stack' = With(At("wait")) /\ UNCHANGED <<ret, done, ping>>
       ELSE EndPing("err")
    /\ Calm /\ UNCHANGED <<conf, dhcp, left, nested>>

PingWaits ==
    /\ Running("ping", "wait") /\ PollAndGoTo("waited")
    /\ Calm /\ UNCHANGED <<conf, dhcp, ping, ret, left, done>>

PingWaited ==
    /\ Running("ping", "waited")
    /\ IF ping.done THEN EndPing("ok")
       ELSE stack' = With(At("wait")) /\ UNCHANGED <<ret, done, ping>>
    /\ Calm /\ UNCHANGED <<conf, dhcp, left, nested>>

PingExpires ==
    /\ Running("ping", "wait")
    /\ EndPing(IF ping.done THEN "ok" ELSE "timeout")
    /\ Calm /\ UNCHANGED <<conf, dhcp, left, nested>>

-----------------------------------------------------------------------------
(* The timer interrupt, the card and the network around it.                *)

\* timer_handler: the clock moves on and the ring is polled.
timer_handler ==
    /\ now < world.ticks /\ ~InIrq /\ card.ready
    /\ now' = now + 1
    /\ stack' = Append(stack, [net_poll EXCEPT !.irq = TRUE])
    /\ nested' = IF Inside THEN nested \cup {"irq"} ELSE nested
    /\ UNCHANGED <<world, card, conf, dhcp, ping, arp, ret, left, done, sent, came, arrived, taken>>

\* What a DHCP server says: an offer to a DISCOVER, an ACK or a refusal to a
\* REQUEST that names it.
FromServers ==
    LET Says(s, type, xid) ==
            [Frame(type, s.ip, s.mac, Broadcast, xid) EXCEPT
                !.yiaddr = IF type = "nak" THEN Zero ELSE s.gives,
                !.id = s.ip,
                !.mask = IF type = "nak" THEN NoMask ELSE s.mask,
                !.router = IF type = "nak" THEN NoOption ELSE s.router]
        Heard(type) == {p \in sent : p.type = type}
    IN  {Says(s, "offer", p.number) : s \in world.servers, p \in Heard("discover")}
        \cup UNION {{Says(s, type, p.number) : p \in {q \in Heard("request") : q.id = s.ip},
                                              type \in {"ack"} \cup world.refusals} :
                      s \in world.servers}

\* A machine on the link, or one behind the gateway whose frames carry the
\* gateway's card.
Leases == {s.gives : s \in world.servers}

FromHosts ==
    {Frame("arp_reply", h.ip, h.mac, p.ip, 0) :
        <<h, p>> \in {x \in world.near \X sent : x[2].type = "arp_request" /\ x[1].ip = x[2].dst}}
    \cup {Frame("echo_reply", h.ip, h.mac, Zero, p.number) :
        <<h, p>> \in {x \in (world.near \cup world.far) \X sent :
                          x[2].type = "echo_request" /\ x[1].ip = x[2].dst}}
    \cup {Frame(type, h.ip, h.mac, ip, 0) : type \in world.asks, h \in world.near, ip \in Leases}
    \cup {Frame("echo_request", h.ip, h.mac, ip, 0) :
              type \in world.asks \cap {"echo_request"}, h \in world.far, ip \in Leases}

Answers == {"offer", "ack", "echo_reply"}

\* A frame makes no difference before a poll looks for it, so it comes then.
CardReceives ==
    /\ arrived < world.frames /\ CanReceive(card) /\ Running("poll", "loop")
    /\ \E f \in FromServers \cup FromHosts, bad \in {FALSE} \cup {card.backend = "pcnet"} :
           /\ card' = Receive(card, f, arrived + 1, bad)
           /\ came' = IF bad \/ f.type \notin Answers THEN came ELSE came \cup {f}
    /\ arrived' = arrived + 1
    /\ UNCHANGED <<world, conf, dhcp, ping, arp, stack, ret, now, left, done, sent, taken, nested>>

CardTransmits ==
    /\ CanTransmit(card)
    /\ card' = Transmit(card)
    /\ sent' = sent \cup {card.tx[card.tdh].packet}
    /\ UNCHANGED <<world, conf, dhcp, ping, arp, stack, ret, now, left, done, came, arrived,
                   taken, nested>>

-----------------------------------------------------------------------------
Init ==
    /\ world \in Worlds
    /\ card = net_init(world.devices)
    /\ conf = NoConf /\ dhcp = NoDhcp /\ ping = NoPing
    /\ arp = [i \in 1..ARP_SIZE |-> NoEntry]
    /\ stack = <<>> /\ ret = "none" /\ now = 0
    /\ left = [dhcps |-> world.dhcps, pings |-> world.pings, seq |-> 0]
    /\ done = NoCall /\ sent = {} /\ came = {} /\ arrived = 0 /\ taken = 0 /\ nested = {}

Expires == FrameExpires \/ ArpExpires \/ DhcpExpires \/ PingExpires

Works ==
    \/ PollTake \/ PollNext \/ PollEnd
    \/ FrameStart \/ FrameReady \/ FrameWaits \/ FramePut
    \/ ResolveRefused \/ ResolveKnown \/ ResolveAsks \/ Asked \/ ArpWaits \/ ArpLooks
    \/ DhcpSent \/ DhcpWaits \/ DhcpOffered \/ DhcpAcked
    \/ PingSent \/ PingWaits \/ PingWaited

Next ==
    \/ Works \/ Expires
    \/ net_request_dhcp
    \/ \E addr \in world.targets : net_ping_ipv4(addr)
    \/ timer_handler \/ CardReceives \/ CardTransmits

Spec == Init /\ [][Next]_vars

\* The processor runs, the card sends what it was given, and the clock makes
\* every wait outside the interrupt expire.
FairSpec ==
    Spec /\ WF_vars(Works) /\ WF_vars(CardTransmits)
         /\ SF_vars(FrameExpires) /\ SF_vars(ArpExpires)
         /\ SF_vars(DhcpExpires) /\ SF_vars(PingExpires)

-----------------------------------------------------------------------------
(* Properties.                                                             *)

\* The address in use is one a server acknowledged in this attempt, with
\* that server's name, and mask and gateway are those of the acknowledgement;
\* what it leaves out comes from another message of the same attempt or is
\* unset.  A call that returned success left such an address, however polls
\* nested, answers were repeated and late answers of an attempt before
\* arrived (net_handle_dhcp, net_request_dhcp).
LeaseIsAcked ==
    /\ conf.configured =>
           \E m \in came :
               /\ m.type = "ack" /\ m.number = dhcp.xid
               /\ conf.ipv4 = m.yiaddr /\ conf.server = m.id
               /\ IF m.mask # NoMask THEN conf.netmask = m.mask
                  ELSE conf.netmask \in {0} \cup {f.mask : f \in {x \in came : x.number = dhcp.xid}}
               /\ IF m.router # NoOption THEN conf.gateway = m.router
                  ELSE conf.gateway \in {Zero} \cup {f.router : f \in {x \in came : x.number = dhcp.xid}}
    /\ done.op = "dhcp" /\ done.result = "ok" => conf.configured

\* A ping succeeds only if its target answered this very request, and every
\* frame the kernel addresses to a neighbour carries that neighbour's card
\* (net_handle_icmp, arp_cache_update, net_send_ipv4).
PingAnswered ==
    /\ done.op = "ping" /\ done.result = "ok" =>
           \E f \in came : f.type = "echo_reply" /\ f.src = done.target /\ f.number = done.seq
    /\ \A p \in sent : p.mac # 0 =>
           \E h \in world.near \cup world.far \cup {[ip |-> s.ip, mac |-> s.mac] : s \in world.servers} :
               h.ip = p.dst /\ h.mac = p.mac
    /\ \A i, j \in 1..ARP_SIZE : i # j /\ arp[i].valid /\ arp[j].valid => arp[i].ip # arp[j].ip

\* As long as no poll ran inside a poll or a send and a transmit slot was
\* free, driver and card agree on the rings: the frames not yet taken lie in
\* the order of their arrival from rx_index on, and the busy transmit slots
\* are exactly the ones the card has still to send (net_poll,
\* e1000_send_frame, pcnet_send_frame).
RingsAgree ==
    card.ready /\ nested = {} =>
        LET held == Cardinality({i \in DOMAIN stack : stack[i].fn = "poll" /\ stack[i].pc = "next"})
            old == taken - held
            busy == {i \in TxSlots : card.tx[i].busy}
        IN  /\ \A k \in RxSlots :
                   LET slot == card.rx[(card.rx_index + k) % RX_COUNT]
                   IN  /\ slot.full <=> k < arrived - old
                       /\ slot.full => slot.serial = old + k + 1
            /\ busy = TxSlots \/ busy = {i \in TxSlots :
                                      (i + TX_COUNT - card.tdh) % TX_COUNT
                                          < (card.tx_index + TX_COUNT - card.tdh) % TX_COUNT}
            /\ card.backend = "e1000" => card.tdt = card.tx_index

\* A call returns, whatever is lost on the way: with the machines it talks to
\* on its own network and a card that sends at once, no handler waits inside
\* the interrupt, where no wait expires (net_send_ipv4, net_request_dhcp,
\* net_ping_ipv4).
SetupReturns ==
    (world.prompt /\ world.far = {} /\ stack # <<>>) ~> (stack = <<>> \/ "irq" \in nested)
=============================================================================

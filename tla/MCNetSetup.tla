----------------------------- MODULE MCNetSetup ------------------------------
(***************************************************************************)
(* NetSetup for TLC.                                                       *)
(***************************************************************************)
EXTENDS NetSetup

Device(kind, bar, fault) == [kind |-> kind, bar |-> bar, fault |-> fault]

ServerA == [ip |-> <<1, 1>>, mac |-> 1, gives |-> <<1, 7>>, mask |-> 1, router |-> <<1, 1>>]
ServerB == [ip |-> <<1, 2>>, mac |-> 2, gives |-> <<1, 8>>, mask |-> 1, router |-> NoOption]
HostA == [ip |-> <<1, 1>>, mac |-> 1]
HostC == [ip |-> <<1, 3>>, mac |-> 3]
Far == [ip |-> <<2, 4>>, mac |-> 1]

World(devices, servers, near, far) ==
    [devices |-> devices, servers |-> servers, near |-> near, far |-> far, asks |-> {},
     refusals |-> {}, targets |-> {}, dhcps |-> 1, pings |-> 0, ticks |-> 0, frames |-> 2,
     prompt |-> TRUE]

E1000 == <<Device("other", TRUE, "none"), Device("e1000", TRUE, "none")>>
Pcnet == <<Device("e1000", TRUE, "map"), Device("pcnet", TRUE, "none")>>

MCWorlds ==
    {\* no card can be started
     World(<<Device("e1000", FALSE, "none"), Device("pcnet", TRUE, "idon")>>, {ServerA}, {}, {}),
     \* two servers
     [World(E1000, {ServerA, ServerB}, {}, {}) EXCEPT !.ticks = 1, !.frames = 4],
     \* two attempts, and refusals
     [World(E1000, {ServerA}, {}, {}) EXCEPT
         !.dhcps = 2, !.ticks = 2, !.frames = 3, !.refusals = {"nak"}],
     \* an address, then pings of a neighbour
     [World(Pcnet, {ServerA}, {HostC}, {}) EXCEPT
         !.pings = 2, !.targets = {HostC.ip}, !.ticks = 1, !.frames = 4],
     \* a ping of a machine behind the gateway, which asks as well
     [World(E1000, {ServerA}, {HostA}, {Far}) EXCEPT
         !.pings = 1, !.targets = {Far.ip}, !.ticks = 1, !.frames = 4, !.asks = {"echo_request"}],
     \* neighbours ask while the program pings
     [World(E1000, {ServerA}, {HostA, HostC}, {}) EXCEPT
         !.pings = 1, !.targets = {HostA.ip}, !.ticks = 1, !.frames = 4,
         !.asks = {"arp_request", "echo_request"}],
     \* a server that names no gateway
     [World(E1000, {ServerB}, {}, {Far}) EXCEPT !.pings = 1, !.targets = {Far.ip}],
     \* cards that take their time
     [World(E1000, {ServerA}, {}, {}) EXCEPT !.dhcps = 4, !.frames = 1, !.prompt = FALSE],
     [World(Pcnet, {ServerA}, {HostC}, {}) EXCEPT
         !.frames = 4, !.ticks = 1, !.asks = {"echo_request"}, !.prompt = FALSE]}
=============================================================================

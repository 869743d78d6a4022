------------------------------- MODULE IpReport -------------------------------
(***************************************************************************)
(* What NetworkManager learns of a tunnel that came up: pppd runs the      *)
(* plugin's nm_ip_up, which makes two D-Bus calls to the service; the      *)
(* service puts the address of the VPN server into the first and re-emits  *)
(* both.  Service has the same two calls among all others, this module     *)
(* their contents.                                                         *)
(***************************************************************************)
EXTENDS NetParams

CONSTANT Links   \* the links and environments nm_ip_up may find

(* routes, dns    CROSSWIRE_ROUTES and CROSSWIRE_DNS                       *)
(* suffix         CROSSWIRE_DNS_SUFFIX, None when absent or empty          *)
(* ipcp           the two servers pppd negotiated, None when there is none *)
(* bus            the system bus can be reached                            *)
(* local, peer    the addresses of the interface, None without one         *)
(* server         the addresses the host of Shared.gateway resolves to,    *)
(*                None when no host is named or it does not resolve        *)
ASSUME LinksAssumption ==
  /\ \A l \in Links :
       /\ {l.routes, l.dns} \subseteq Seq(Chars)
       /\ l.ipcp \in (Address \cup {None}) \X (Address \cup {None})
       /\ {l.local, l.peer} \subseteq Address \cup {None}
       /\ l.server # None => l.server \in Seq(Address \cup {"v6"})
  /\ "v6" \notin Address \cup {None}

VARIABLES
  link,     \* one of Links
  step,     \* the call nm_ip_up makes next
  config,   \* what NetworkManager got as Config, None before
  ip4       \* what it got as Ip4Config

vars == <<link, step, config, ip4>>

TypeOK ==
  /\ step \in {"up", "SetConfig", "SetIp4Config", "done"}
  /\ config # None => config.gateway \in Address \cup {None}
  /\ ip4 # None =>
       /\ ip4.address \in Address /\ ip4.ptp \in Address \cup {None}
       /\ ip4.routes \in Seq(RouteType) /\ Len(ip4.routes) <= MaxRoutes
       /\ ip4.dns \in Seq(Address) /\ Len(ip4.dns) <= IF MaxServers < 2 THEN 2 ELSE MaxServers
       /\ ip4.never_default \in BOOLEAN

Init ==
  /\ link \in Links
  /\ step = "up"
  /\ config = None /\ ip4 = None

(* Without the bus, or without an address, nothing is reported. *)
nm_ip_up ==
  /\ step = "up"
  /\ step' = IF link.bus /\ link.local # None THEN "SetConfig" ELSE "done"
  /\ UNCHANGED <<link, config, ip4>>

(* Broken variant: the first address, of whatever family. *)
resolve_gateway_first(addresses) ==
  IF addresses = None \/ addresses = <<>> THEN None ELSE Head(addresses)

(* resolve_gateway_u32: the first IPv4 address. *)
resolve_gateway(addresses) ==
  IF addresses = None THEN None
  ELSE LET i == SelectInSeq(addresses, LAMBDA a : a \in Address)
       IN IF i = 0 THEN None ELSE addresses[i]

(* A failed call is logged, and the next one made all the same. *)
SetConfig ==
  /\ step = "SetConfig"
  /\ step' = "SetIp4Config"
  /\ LET server == resolve_gateway(link.server)
     IN \/ config' = [gateway |-> IF server # None THEN server ELSE link.peer]
        \/ UNCHANGED config
  /\ UNCHANGED <<link, ip4>>

SetIp4Config ==
  /\ step = "SetIp4Config"
  /\ step' = "done"
  /\ LET split == add_split_routes(link.routes)
     IN \/ ip4' = [address |-> link.local, prefix |-> 32, ptp |-> link.peer,
                   dns |-> add_dns(link.dns, link.ipcp), domain |-> link.suffix,
                   routes |-> split.routes, never_default |-> split.never_default]
        \/ UNCHANGED ip4
  /\ UNCHANGED <<link, config>>

Next == nm_ip_up \/ SetConfig \/ SetIp4Config

Spec == Init /\ [][Next]_vars

------------------------------------------------------------------------------
(* The entries of a comma-separated text, by their places in it, and the   *)
(* ways to write a prefix length: what the parsers are measured against.   *)
Starts(text) ==
  {i \in DOMAIN text : text[i] # Comma /\ (i = 1 \/ text[i - 1] = Comma)}
EntryAt(text, i) ==
  CHOOSE w \in {SubSeq(text, i, j) : j \in i .. Len(text)} :
    /\ \A k \in DOMAIN w : w[k] # Comma
    /\ i + Len(w) > Len(text) \/ text[i + Len(w)] = Comma
Decimal(n) ==
  IF n < 10 THEN <<Digits[n + 1]>> ELSE <<Digits[n \div 10 + 1], Digits[(n % 10) + 1]>>
Signs(n) == {<<>>, <<"+">>} \cup IF n = 0 THEN {<<"-">>} ELSE {}
Spells(text, n) ==
  \E blanks, zeros \in 0 .. Len(text) : \E sign \in Signs(n) :
    text = [i \in 1 .. blanks |-> Space]
             \o (sign \o ([i \in 1 .. zeros |-> "0"] \o Decimal(n)))

RouteWritten(entry, route) ==
  /\ Len(entry) > 2 /\ entry[1] = route.network /\ entry[2] = "/"
  /\ Spells(SubSeq(entry, 3, Len(entry)), route.prefix)
RoutePlaces(text)  ==
  {i \in Starts(text) : \E route \in RouteType : RouteWritten(EntryAt(text, i), route)}
ServerPlaces(text) == {i \in Starts(text) : EntryAt(text, i) \in {<<a>> : a \in Address}}

(* A list of n is made from the places it was read at: in order, none      *)
(* twice, and none passed over but for want of room.                       *)
InPlace(at, n, places, max) ==
  /\ n <= max
  /\ \A k, l \in 1 .. n : k < l => at[k] < at[l]
  /\ \A i \in places : (\E k \in 1 .. n : at[k] = i) \/ (n = max /\ \A k \in 1 .. n : at[k] < i)

(* NetworkManager installs the gateway's split routes as they stand in the *)
(* environment, in order and without a gap, up to the size of the          *)
(* plugin's array; a malformed entry costs only itself                     *)
(* (nmo_parse_routes, add_split_routes).                                   *)
RoutesAreInstalled ==
  ip4 # None =>
    \E at \in [DOMAIN ip4.routes -> RoutePlaces(link.routes)] :
      /\ InPlace(at, Len(ip4.routes), RoutePlaces(link.routes), MaxRoutes)
      /\ \A k \in DOMAIN ip4.routes :
           RouteWritten(EntryAt(link.routes, at[k]), ip4.routes[k])

(* A split tunnel never becomes the default route, unless not one of its   *)
(* routes is well formed: then it does (the comment of add_split_routes).  *)
SplitStaysSplit ==
  ip4 # None => (ip4.never_default <=> RoutePlaces(link.routes) # {})

(* The names are asked of the gateway's servers if it names any that can   *)
(* be read, in their order, up to the size of the plugin's array, and of   *)
(* those pppd negotiated otherwise, never of both (add_dns).               *)
ServersAreTheGateways ==
  ip4 # None =>
    IF ServerPlaces(link.dns) = {} THEN ToSet(ip4.dns) = ToSet(link.ipcp) \ {None}
    ELSE \E at \in [DOMAIN ip4.dns -> ServerPlaces(link.dns)] :
           /\ InPlace(at, Len(ip4.dns), ServerPlaces(link.dns), MaxServers)
           /\ \A k \in DOMAIN ip4.dns : EntryAt(link.dns, at[k]) = <<ip4.dns[k]>>

(* The host route NetworkManager pins leads to the VPN server, by IPv4,    *)
(* whenever the server has such an address: else the tunnel would carry    *)
(* its own transport (the comment of set_config).                          *)
ServerIsPinned ==
  /\ config # None /\ link.server # None
  /\ ToSet(link.server) \cap Address # {}
  => config.gateway \in ToSet(link.server) \cap Address
==============================================================================

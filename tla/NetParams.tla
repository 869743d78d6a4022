------------------------------- MODULE NetParams -------------------------------
(***************************************************************************)
(* The parsers of nm-crosswire-netparams.c, which turn the environment     *)
(* crosswire gives to pppd into routes and name servers, and what the      *)
(* pppd plugin makes of them.  A character of Address stands for the text  *)
(* of an IPv4 address.                                                     *)
(***************************************************************************)
EXTENDS Text

CONSTANTS
  Chars,        \* the characters of a text
  Address,      \* texts of IPv4 addresses
  None,         \* no value
  MaxRoutes,    \* the elements of parsed[]: 256
  MaxServers    \* the elements of servers[]: 16

Digits    == <<"0", "1", "2", "3", "4", "5", "6", "7", "8", "9">>
Comma     == ","
Space     == " "
Marks     == {Comma, "/", Space, "+", "-"}
RouteType == [network : Address, prefix : 0 .. 32]

ASSUME ParamsAssumption ==
  /\ Address \cup Marks \cup ToSet(Digits) \subseteq Chars
  /\ Address \cap (Marks \cup ToSet(Digits)) = {}
  /\ None \notin Address \cup RouteType
  /\ MaxRoutes \in Nat \ {0} /\ MaxServers \in Nat \ {0}

(* strtol of the C library: what it reads, and what it leaves (the whole    *)
(* text when there is no number).                                          *)
Strtol(text) ==
  LET signed == After(text, {Space})
      minus  == signed # <<>> /\ Head(signed) = "-"
      body   == IF signed # <<>> /\ Head(signed) \in {"+", "-"}
                THEN Tail(signed) ELSE signed
      digits == Leading(body, ToSet(Digits))
      Add(n, d) == 10 * n + SelectInSeq(Digits, LAMBDA e : e = d) - 1
      n      == Along(Add, 0, digits)
  IN IF digits = <<>> THEN [value |-> 0, rest |-> text]
     ELSE [value |-> IF minus THEN 0 - n ELSE n, rest |-> After(body, ToSet(Digits))]

(* inet_pton reads an address and nothing else. *)
InetPton(text) == IF Len(text) = 1 /\ Head(text) \in Address THEN Head(text) ELSE None

(* Broken variant: what follows the number is not looked at. *)
RouteLax(token) ==
  LET slash   == SelectInSeq(token, LAMBDA c : c = "/")
      network == InetPton(SubSeq(token, 1, slash - 1))
      prefix  == Strtol(SubSeq(token, slash + 1, Len(token)))
  IN IF /\ slash # 0 /\ network # None
        /\ prefix.rest # SubSeq(token, slash + 1, Len(token))
        /\ prefix.value \in 0 .. 32
     THEN [network |-> network, prefix |-> prefix.value] ELSE None

(* One entry of CROSSWIRE_ROUTES, None when it is malformed. *)
Route(token) ==
  LET slash   == SelectInSeq(token, LAMBDA c : c = "/")
      network == InetPton(SubSeq(token, 1, slash - 1))
      prefix  == Strtol(SubSeq(token, slash + 1, Len(token)))
  IN IF /\ slash # 0 /\ network # None
        /\ slash < Len(token) /\ prefix.rest = <<>>
        /\ prefix.value \in 0 .. 32
     THEN [network |-> network, prefix |-> prefix.value] ELSE None

(* Broken variant: one entry is written past the array. *)
ParsePast(entries, max) ==
  LET Step(out, e) == IF Len(out) <= max /\ e # None THEN Append(out, e) ELSE out
  IN Along(Step, <<>>, entries)

(* The loop of both parsers over the entries as they are read: malformed   *)
(* ones are skipped, until the array is full.                              *)
Parse(entries, max) ==
  LET Step(out, e) == IF Len(out) < max /\ e # None THEN Append(out, e) ELSE out
  IN Along(Step, <<>>, entries)

(* An absent variable is the empty text. *)
nmo_parse_routes(env) ==
  LET tokens == Words(env, {Comma})
  IN Parse([i \in DOMAIN tokens |-> Route(tokens[i])], MaxRoutes)

nmo_parse_dns(env) ==
  LET tokens == Words(env, {Comma})
  IN Parse([i \in DOMAIN tokens |-> InetPton(tokens[i])], MaxServers)

(* A server pppd negotiated. *)
Negotiated(d) == IF d = None THEN <<>> ELSE <<d>>

(* Broken variant: both sources are reported. *)
add_dns_both(env, ipcp) ==
  nmo_parse_dns(env) \o Negotiated(ipcp[1]) \o Negotiated(ipcp[2])

(* add_dns: what pppd negotiated counts only if crosswire names no server. *)
add_dns(env, ipcp) ==
  IF nmo_parse_dns(env) # <<>> THEN nmo_parse_dns(env)
  ELSE Negotiated(ipcp[1]) \o Negotiated(ipcp[2])

(* Broken variant: routes are reported next to the default route. *)
add_split_routes_besides(env) ==
  [routes |-> nmo_parse_routes(env), never_default |-> FALSE]

(* add_split_routes *)
add_split_routes(env) ==
  [routes |-> nmo_parse_routes(env), never_default |-> nmo_parse_routes(env) # <<>>]
==============================================================================

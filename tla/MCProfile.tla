------------------------------ MODULE MCProfile ------------------------------
(* Profile for TLC: files with up to two connections, and profiles that     *)
(* another tool may have written.                                           *)
EXTENDS Profile, TLC

Leaf(tag, chunks) == [tag |-> tag, chunks |-> chunks]
Optional(tag, texts) == {<<>>} \cup {<<Leaf(tag, t)>> : t \in texts}

Names(n)   == Optional("name", {<<n>>})
Servers(g) == Optional("server", {<<" ", g, ":443", " ">>, <<" ">>})
Users(u)   == Optional("username", {<<u>>})
Ssos       == Optional("sso_enabled", {<<"true">>, <<"0">>})
Others     == {<<>>, <<Leaf("description", <<"text">>), Leaf("ui", <<"text">>)>>}

AnyConnection(n, g, u) ==
  {a \o b \o c \o d : a \in Names(n), b \in Servers(g), c \in Users(u), d \in Ssos}
Section(tag, cs) == [tag |-> tag, connections |-> cs]
File(sections)   == [fortinet |-> TRUE, whole |-> TRUE, sections |-> sections]

Pairs == AnyConnection("n1", "gw1", "u1") \X AnyConnection("n2", "gw2", "u2")

MCChars ==
  {"n1", "n2", " ", "gw1", ":443", "gw2", "u1", "u2", "true", "1", "0", "text",
   "gw", "u", "pw", "otp", "ck", "new", "given"}

MCDocuments ==
  {File(<<Section("sslvpn", <<c[1], c[2]>>)>>) : c \in Pairs}
    \cup {File(<<Section("ipsecvpn", <<c>>), Section("sslvpn", <<d>>)>>) :
            c \in AnyConnection("n1", "gw1", "u1"), d \in {b \o e : b \in Servers("gw2"), e \in Others}}
    \cup {[File(<<Section("sslvpn", <<<<Leaf("server", <<"gw1">>)>>>>)>>) EXCEPT !.whole = b, !.fortinet = ~b] :
            b \in BOOLEAN}
    \cup {File(<<Section("sslvpn", <<<<Leaf("server", <<":443">>)>>>>)>>)}

Foreign(gateways, insecures, secrets) ==
  [gateway : gateways, port : {<<>>}, user : {<<"u">>}, pins : {<<>>, <<"d1">>},
   auth : {"password", "saml", "cookie", "other"}, insecure : insecures,
   password : secrets \cup {<<"pw">>}, otp : secrets \cup {<<"otp">>},
   cookie : secrets \cup {<<"ck">>}, own : {FALSE}]

MCProfiles ==
  Foreign({<<"gw">>}, {FALSE, TRUE}, {<<>>}) \cup Foreign({<<"--port">>}, {FALSE}, {})
==============================================================================

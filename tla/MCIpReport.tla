------------------------------ MODULE MCIpReport ------------------------------
(* IpReport for TLC: every short text, and up to four entries of any kind. *)
EXTENDS IpReport

MCChars == Address \cup Marks \cup ToSet(Digits) \cup {"x"}
Typed   == {"a", "x", ",", "/", "0", "2", "3", "+", "-", " "}
Entry   ==
  {<<"a", "/", "0">>, <<"b", "/", "3", "2">>, <<"a", "/", "3", "3">>, <<"x", "/", "2">>,
   <<"a", "/", "2", "x">>, <<"a", "/", " ", "+", "2">>, <<"a">>, <<>>}
Join(entries) == Tail(FlattenSeq([i \in DOMAIN entries |-> <<",">> \o entries[i]]))
Lists   == {Join(s) : s \in UNION {[1 .. n -> Entry] : n \in 1 .. 4}}

Plain ==
  [routes |-> <<>>, dns |-> <<>>, suffix |-> "s", ipcp |-> <<None, None>>, bus |-> TRUE,
   local |-> "a", peer |-> "p", server |-> <<"b">>]

(* The parts of a report are independent of each other. *)
MCLinks ==
  {[Plain EXCEPT !.routes = t] : t \in Lists \cup SeqOf(Typed, 4)}
    \cup {[Plain EXCEPT !.dns = t, !.ipcp = i] :
            t \in SeqOf({"a", "b", "x", ","}, 5), i \in {None, "a"} \X {None, "b"}}
    \cup {[Plain EXCEPT !.bus = b, !.local = l, !.peer = p, !.server = s] :
            b \in BOOLEAN, l \in {None, "a"}, p \in {None, "p"},
            s \in {None} \cup SeqOf({"a", "b", "v6"}, 3)}
==============================================================================

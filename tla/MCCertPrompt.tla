----------------------------- MODULE MCCertPrompt -----------------------------
(* CertPrompt for TLC: the orders of a marker, a hint and unrelated digits *)
(* on two streams of two runs, and a small town of sessions.               *)
EXTENDS CertPrompt

CONSTANTS d1, d2

BothDigests == {d1, d2}

Output ==
  {<<>>, <<<<"#", " ", d1, " ", d2>>>>, <<<<"F", d1, " ">>, <<"!", "#", d2>>>>,
   <<<<"?">>, <<"!">>>>}

MCScripts == {[i \in DOMAIN o |-> LineOf(o[i])] : o \in Output}

Session(owner, active, remote, type) ==
  [User |-> owner, Active |-> active, Remote |-> remote, Type |-> type]

Desktop  ==
  [s1 |-> Session("u1", "yes", "no", "wayland"), s2 |-> Session("u2", "yes", "yes", "x11")]
Switched ==
  [s3 |-> Session("u3", "yes", "no", "x11")]

MCWorlds == {Desktop, Switched}

MCRequests ==
  [digest : {<<d>> : d \in BothDigests}, uuid : {<<"u">>},
   gateway : {<<"a", " ", "'", "\\">>}]
==============================================================================

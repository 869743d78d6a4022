---------------------------- MODULE ProfileProofs ----------------------------
(***************************************************************************)
(* Theorems about Profile for every file, every profile of another tool,   *)
(* and any number of edits and certificates.                               *)
(***************************************************************************)
EXTENDS Profile, TextProofs

(* What the importer reads, keeps and yields. *)
TagType   == STRING \cup {"connection"}
EventType == [kind : {"start", "end"}, what : TagType] \cup [kind : {"text"}, what : Chars]
ParseType ==
  [inSslvpn : BOOLEAN, inConnection : BOOLEAN, done : BOOLEAN, reading : Fields \cup {None},
   text : Seq(Chars), got : [Kept -> Seq(Chars)], sso : BOOLEAN]
YieldType ==
  [gateway : Seq(Chars), port : Seq(Chars), auth : {"saml", "password"},
   user : Seq(Chars), id : Seq(Chars)]

ImportTyped ==
  /\ doc \in DocumentType \cup {None}
  /\ todo \in Seq(EventType)
  /\ p \in ParseType
  /\ imported \in YieldType \cup {None, Failed}

LEMMA ElementTyped ==
  ASSUME NEW tag \in TagType, NEW inner \in Seq(EventType)
  PROVE  Element(tag, inner) \in Seq(EventType)
<1>1. Event("start", tag) \in EventType /\ Event("end", tag) \in EventType
  BY DEF Event, EventType
<1> HIDE DEF EventType
<1>2. <<Event("start", tag)>> \in Seq(EventType) /\ <<Event("end", tag)>> \in Seq(EventType)
  BY <1>1
<1> QED
  BY <1>2 DEF Element

LEMMA LeafTyped ==
  ASSUME NEW l \in LeafType
  PROVE  LeafEvents(l) \in Seq(EventType)
<1> DEFINE inner == [i \in DOMAIN l.chunks |-> Event("text", l.chunks[i])]
<1>1. l.tag \in STRING /\ l.chunks \in Seq(Chars)
  BY DEF LeafType
<1>2. \A i \in DOMAIN l.chunks : Event("text", l.chunks[i]) \in EventType
  BY <1>1 DEF Event, EventType
<1>3. inner \in Seq(EventType)
  BY <1>1, <1>2
<1> QED
  BY <1>1, <1>3, ElementTyped DEF LeafEvents, TagType

LEMMA ConnectionTyped ==
  ASSUME NEW c \in Seq(LeafType)
  PROVE  ConnectionEvents(c) \in Seq(EventType)
<1> DEFINE parts == [i \in DOMAIN c |-> LeafEvents(c[i])]
<1>1. \A i \in DOMAIN c : LeafEvents(c[i]) \in Seq(EventType)
  BY LeafTyped
<1>2. parts \in Seq(Seq(EventType))
  BY <1>1
<1>3. FlattenSeq(parts) \in Seq(EventType)
  <2> HIDE DEF parts
  <2> QED
    BY <1>2, FlattenTyped
<1>4. ConnectionEvents(c) = Element("connection", FlattenSeq(parts))
  BY DEF ConnectionEvents, MapSeq
<1> DEFINE inner == FlattenSeq(parts)
           tag   == "connection"
<1>5. tag \in TagType /\ inner \in Seq(EventType)
  BY <1>3 DEF TagType
<1> HIDE DEF inner, tag
<1>6. Element(tag, inner) \in Seq(EventType)
  BY <1>5, ElementTyped
<1> QED
  BY <1>4, <1>6 DEF inner, tag

LEMMA SectionTyped ==
  ASSUME NEW section \in SectionType
  PROVE  SectionEvents(section) \in Seq(EventType)
<1> DEFINE cs    == section.connections
           parts == [i \in DOMAIN cs |-> ConnectionEvents(cs[i])]
<1>1. section.tag \in STRING /\ cs \in Seq(Seq(LeafType))
  BY DEF SectionType
<1>2. \A i \in DOMAIN cs : ConnectionEvents(cs[i]) \in Seq(EventType)
  BY <1>1, ConnectionTyped
<1>3. parts \in Seq(Seq(EventType))
  <2> DEFINE A == Seq(LeafType)
  <2>1. cs \in Seq(A)
    BY <1>1
  <2> HIDE DEF cs, A
  <2> QED
    BY <2>1, <1>2
<1>4. FlattenSeq(parts) \in Seq(EventType)
  <2> HIDE DEF parts
  <2> QED
    BY <1>3, FlattenTyped
<1> QED
  BY <1>1, <1>4, ElementTyped DEF SectionEvents, MapSeq, TagType

LEMMA EventsTyped ==
  ASSUME NEW d \in DocumentType
  PROVE  Events(d) \in Seq(EventType)
<1> DEFINE parts == [i \in DOMAIN d.sections |-> SectionEvents(d.sections[i])]
<1>1. d.sections \in Seq(SectionType)
  BY DEF DocumentType
<1>2. \A i \in DOMAIN d.sections : SectionEvents(d.sections[i]) \in Seq(EventType)
  BY <1>1, SectionTyped
<1>3. parts \in Seq(Seq(EventType))
  BY <1>1, <1>2
<1>4. FlattenSeq(parts) \in Seq(EventType)
  <2> HIDE DEF parts
  <2> QED
    BY <1>3, FlattenTyped
<1> QED
  BY <1>4 DEF Events, MapSeq

LEMMA StripTyped ==
  ASSUME NEW C, NEW s \in Seq(C)
  PROVE  Strip(s) \in Seq(C)
<1> DEFINE ink == {i \in DOMAIN s : s[i] # Blank}
<1>0. <<>> \in Seq(C)
  OBVIOUS
<1>1. CASE ink = {}
  BY <1>0, <1>1 DEF Strip
<1>2. CASE ink # {}
  <2>1. ink \subseteq 0 .. Len(s) /\ ink \subseteq 1 .. Len(s) /\ Len(s) \in Nat /\ ink \subseteq Nat
    OBVIOUS
  <2>2. Min(ink) \in ink /\ Max(ink) \in ink
    <3> HIDE DEF ink
    <3> QED
      BY <1>2, <2>1, Least, Greatest
  <2>3. Min(ink) \in 1 .. Len(s) /\ Max(ink) \in 1 .. Len(s)
    BY <2>1, <2>2
  <2> DEFINE a == Min(ink)
             b == Max(ink)
  <2>4. Strip(s) = SubSeq(s, a, b)
    BY <1>2 DEF Strip
  <2>5. SubSeq(s, a, b) \in Seq(C)
    <3> HIDE DEF a, b, ink
    <3> QED
      BY <2>3 DEF a, b
  <2> QED
    BY <2>4, <2>5
<1> QED
  BY <1>1, <1>2

LEMMA YieldTyped ==
  ASSUME NEW got \in [Kept -> Seq(Chars)], NEW sso \in BOOLEAN, got["server"] # <<>>
  PROVE  Yield(got, sso) \in YieldType
<1> DEFINE s == got["server"]
<1>1. /\ s \in Seq(Chars) /\ got["username"] \in Seq(Chars)
      /\ got["name"] \in Seq(Chars) /\ got["description"] \in Seq(Chars)
  BY DEF Kept
<1>2. Front(s) \in Seq(Chars) /\ Last(s) \in Chars
  <2> HIDE DEF s
  <2> QED
    BY <1>1, FrontAndLast DEF s
<1>3. <<>> \in Seq(Chars) /\ <<Last(s)>> \in Seq(Chars)
  <2> HIDE DEF s
  <2> QED
    BY <1>2
<1> DEFINE y == Yield(got, sso)
<1>4. /\ y = [gateway |-> y.gateway, port |-> y.port, auth |-> y.auth, user |-> y.user, id |-> y.id]
      /\ y.gateway \in {Front(s), s} /\ y.port \in {<<Last(s)>>, <<>>}
      /\ y.auth \in {"saml", "password"} /\ y.user \in {<<>>, got["username"]}
      /\ y.id \in {got["name"], got["description"]}
  BY DEF Yield
<1> HIDE DEF y, s
<1>5. /\ y.gateway \in Seq(Chars) /\ y.port \in Seq(Chars) /\ y.user \in Seq(Chars)
      /\ y.id \in Seq(Chars)
  BY <1>1, <1>2, <1>3, <1>4
<1>6. y \in YieldType
  BY <1>4, <1>5 DEF YieldType
<1> QED
  BY <1>6 DEF y

LEMMA HeadTyped ==
  ASSUME ImportTyped, todo # <<>>
  PROVE  Tail(todo) \in Seq(EventType) /\ Head(todo) \in EventType
<1>1. todo \in Seq(EventType)
  BY DEF ImportTyped
<1> HIDE DEF EventType
<1> QED
  BY <1>1

LEMMA CommitTyped ==
  ASSUME NEW q \in ParseType
  PROVE  Commit(q) \in ParseType
<1>1. q.text \in Seq(Chars) /\ q.reading \in Fields \cup {None}
  BY DEF ParseType
<1> DEFINE val == Strip(q.text)
<1>2. val \in Seq(Chars)
  BY <1>1, StripTyped
<1>3. CASE q.reading = None
  BY <1>3, ImportAssumption DEF Commit, Fields
<1>4. CASE q.reading # None /\ q.reading \in Kept
  <2>1. Commit(q) = [q EXCEPT !.got[q.reading] = val, !.reading = None]
    BY <1>4 DEF Commit
  <2> HIDE DEF val
  <2> QED
    BY <1>2, <1>4, <2>1 DEF ParseType
<1>5. CASE q.reading # None /\ q.reading \notin Kept
  <2> DEFINE b == val \in {<<t>> : t \in Truths}
  <2>1. Commit(q) = [q EXCEPT !.sso = b, !.reading = None]
    BY <1>5 DEF Commit
  <2>2. b \in BOOLEAN
    OBVIOUS
  <2> HIDE DEF b
  <2> QED
    BY <2>1, <2>2 DEF ParseType
<1> QED
  BY <1>3, <1>4, <1>5

LEMMA ImportStepTyped ==
  ASSUME ImportTyped, ImportStep
  PROVE  ImportTyped'
<1>0. p \in ParseType /\ <<>> \in Seq(Chars)
  BY DEF ImportTyped
<1>1. CASE StartElement
  <2>1. Tail(todo) \in Seq(EventType) /\ Advance
    BY <1>1, HeadTyped DEF StartElement, Due
  <2>2. p' \in ParseType
    <3> DEFINE tag == Head(todo).what
    <3>1. \/ p' = [p EXCEPT !.inSslvpn = TRUE]
          \/ p' = [p EXCEPT !.inConnection = TRUE]
          \/ tag \in Fields /\ p' = [p EXCEPT !.reading = tag, !.text = <<>>]
          \/ p' = p
      BY <1>1 DEF StartElement
    <3> HIDE DEF tag
    <3> QED
      BY <1>0, <3>1 DEF ParseType
  <2> QED
    BY <2>1, <2>2 DEF Advance, ImportTyped
<1>2. CASE Text
  <2>1. Tail(todo) \in Seq(EventType) /\ Head(todo) \in EventType /\ Advance
    BY <1>2, HeadTyped DEF Text, Due
  <2>2. p' \in ParseType
    <3> DEFINE c == Head(todo).what
    <3>1. c \in Chars
      BY <1>2, <2>1 DEF Text, Due, EventType
    <3>2. p' = p \/ p' = [p EXCEPT !.text = Append(@, c)]
      BY <1>2 DEF Text
    <3>3. p.text \in Seq(Chars)
      BY <1>0 DEF ParseType
    <3> HIDE DEF c
    <3>4. Append(p.text, c) \in Seq(Chars)
      BY <3>1, <3>3
    <3> QED
      BY <1>0, <3>2, <3>4 DEF ParseType
  <2> QED
    BY <2>1, <2>2 DEF Advance, ImportTyped
<1>3. CASE EndElement
  <2>1. Tail(todo) \in Seq(EventType) /\ Advance
    BY <1>3, HeadTyped DEF EndElement, Due
  <2>2. p' \in ParseType
    <3> DEFINE q == Commit(p)
    <3>1. q \in ParseType
      BY <1>0, CommitTyped
    <3>2. \/ p' = [q EXCEPT !.inConnection = FALSE, !.done = @ \/ q.got["server"] # <<>>]
          \/ p' = [q EXCEPT !.inSslvpn = FALSE]
          \/ p' = q
      BY <1>3 DEF EndElement
    <3> DEFINE b == q.done \/ q.got["server"] # <<>>
    <3>3. b \in BOOLEAN
      OBVIOUS
    <3>4. \/ p' = [q EXCEPT !.inConnection = FALSE, !.done = b]
          \/ p' = [q EXCEPT !.inSslvpn = FALSE]
          \/ p' = q
      BY <3>1, <3>2 DEF ParseType
    <3> HIDE DEF q, b
    <3> QED
      BY <3>1, <3>3, <3>4 DEF ParseType
  <2> QED
    BY <2>1, <2>2 DEF Advance, ImportTyped
<1>4. CASE Finish
  <2>1. imported' \in YieldType \cup {None, Failed}
    <3>1. CASE doc.fortinet /\ doc.whole /\ p.got["server"] # <<>>
      <4>1. imported' = Yield(p.got, p.sso)
        BY <1>4, <3>1 DEF Finish
      <4>2. p.got \in [Kept -> Seq(Chars)] /\ p.sso \in BOOLEAN
        BY <1>0 DEF ParseType
      <4> QED
        BY <3>1, <4>1, <4>2, YieldTyped
    <3>2. CASE ~(doc.fortinet /\ doc.whole /\ p.got["server"] # <<>>)
      BY <1>4, <3>2 DEF Finish
    <3> QED
      BY <3>1, <3>2
  <2> QED
    BY <1>4, <2>1 DEF Finish, ImportTyped
<1> QED
  BY <1>1, <1>2, <1>3, <1>4 DEF ImportStep

LEMMA FreshTyped == Fresh \in ParseType /\ <<>> \in Seq(EventType)
  BY DEF Fresh, ParseType

LEMMA ImportInitTyped ==
  ASSUME ImportInit
  PROVE  ImportTyped
<1>1. doc \in DocumentType
  BY ImportAssumption DEF ImportInit
<1>2. todo \in Seq(EventType)
  BY <1>1, EventsTyped, FreshTyped DEF ImportInit
<1> QED
  BY <1>1, <1>2, FreshTyped DEF ImportInit, ImportTyped

LEMMA PinsTyped ==
  /\ <<>> \in PinTexts
  /\ \A d \in Digests : <<d>> \in PinTexts
  /\ \A d \in Digests, t \in PinTexts : t \o <<",", d>> \in PinTexts
<1> DEFINE C == Digests \cup {",", " "}
<1>0. /\ Digests \subseteq C /\ "," \in C
      /\ \A t : t \in PinTexts <=>
           /\ t \in Seq(C)
           /\ \A i \in 1 .. Len(t) - 1 : t[i] \notin Digests \/ t[i + 1] \notin Digests
  BY DEF PinTexts
<1> HIDE DEF C
<1>1. <<>> \in PinTexts
  <2>1. <<>> \in Seq(C) /\ Len(<<>>) = 0
    OBVIOUS
  <2>2. 1 .. Len(<<>>) - 1 = {}
    BY <2>1
  <2> QED
    BY <1>0, <2>1, <2>2
<1>2. ASSUME NEW d \in Digests PROVE <<d>> \in PinTexts
  <2>0. d \in C
    BY <1>0
  <2>1. <<d>> \in Seq(C) /\ Len(<<d>>) = 1
    BY <2>0
  <2>2. 1 .. Len(<<d>>) - 1 = {}
    BY <2>1
  <2> QED
    BY <1>0, <2>1, <2>2
<1>3. ASSUME NEW d \in Digests, NEW t \in PinTexts PROVE t \o <<",", d>> \in PinTexts
  <2> DEFINE more == t \o <<",", d>>
             n    == Len(t)
  <2>1. /\ t \in Seq(C) /\ n \in Nat
        /\ \A i \in 1 .. n - 1 : t[i] \notin Digests \/ t[i + 1] \notin Digests
    <3>1. t \in Seq(C)
      BY <1>0
    <3>2. Len(t) \in Nat
      BY <3>1
    <3> QED
      BY <1>0, <3>1, <3>2
  <2>2. /\ more \in Seq(C) /\ Len(more) - 1 = n + 1 /\ more[n + 1] = ","
        /\ \A i \in 1 .. n : more[i] = t[i]
    <3> DEFINE x == ","
    <3>1. d \in C /\ x \in C
      BY <1>0
    <3> HIDE DEF x
    <3>2. t \in Seq(C)
      BY <2>1
    <3>3. /\ t \o <<x, d>> \in Seq(C) /\ Len(t \o <<x, d>>) - 1 = Len(t) + 1
          /\ (t \o <<x, d>>)[Len(t) + 1] = x
          /\ \A i \in 1 .. Len(t) : (t \o <<x, d>>)[i] = t[i]
      BY ONLY <3>1, <3>2, TwoMore
    <3> QED
      BY <3>3, Zenon DEF x
  <2>3. "," \notin Digests
    BY ProfileAssumption
  <2> HIDE DEF more, n
  <2>4. ASSUME NEW i \in 1 .. Len(more) - 1
        PROVE  more[i] \notin Digests \/ more[i + 1] \notin Digests
    <3>0. i \in Nat \ {0} /\ i <= n + 1
      <4>1. Len(more) - 1 = n + 1 /\ n \in Nat
        BY ONLY <2>1, <2>2
      <4> QED
        BY ONLY <4>1, i \in 1 .. Len(more) - 1
    <3>1. CASE i \in 1 .. n - 1
      <4>1. i \in 1 .. n /\ i + 1 \in 1 .. n
        BY <2>1, <3>1
      <4> QED
        BY <2>1, <2>2, <3>1, <4>1
    <3>2. CASE i = n
      BY <2>1, <2>2, <2>3, <3>0, <3>2
    <3>3. CASE i = n + 1
      BY <2>1, <2>2, <2>3, <3>3
    <3> QED
      BY <2>1, <3>0, <3>1, <3>2, <3>3
  <2>5. more \in PinTexts
    BY <1>0, <2>2, <2>4
  <2> QED
    BY <2>5 DEF more
<1> QED
  BY <1>1, <1>2, <1>3

------------------------------------------------------------------------------
(* What the editor and the importer write: a gateway or a port, an         *)
(* authentication the service knows, and a cookie only where it is the     *)
(* credential.                                                             *)
PortOrGateway(r) == r.gateway = <<>> => r.port # <<>>
OwnAuth(r) ==
  /\ r.auth \in {"password", "saml", "cookie"}
  /\ r.auth # "cookie" => r.cookie = <<>>
Stored(r) == r \in ProfileType /\ (r.own => PortOrGateway(r) /\ OwnAuth(r))

(* What is stored, shown, read by the dialog and imported. *)
StoredInv ==
  /\ profile # None => Stored(profile)
  /\ dialog \in [digest : Digests \cup {None}, read : ProfileType \cup {None}]
  /\ dialog.read # None => Stored(dialog.read) /\ dialog.digest # None
  /\ editor # None => /\ profile # None /\ editor \in ProfileType /\ editor.own
                      /\ editor.auth \in {"password", "saml", "cookie"}
  /\ imported \notin {None, Failed} => PortOrGateway(imported)
  /\ ImportTyped

(* ... and the activation, of which what was asked for is kept. *)
ActiveInv ==
  /\ applied # None => Stored(applied)
  /\ asked # None => applied # None /\ asked = Missing(applied)
  /\ answered \subseteq Secret
  /\ applied # None => \A s \in answered : applied[s] # <<>>

CountInv ==
  /\ edits \in 0 .. MaxEdits /\ leaf \in Digests /\ leaves \in 1 .. MaxLeaves
  /\ trusted \in Digests \cup {None}

LEMMA NoneApart ==
  /\ None \notin ProfileType /\ None \notin Digests /\ None \notin DocumentType
BY ImportAssumption, ProfileAssumption

LEMMA UpdateStored ==
  ASSUME NEW w \in ProfileType, w.auth \in {"password", "saml", "cookie"}, w.gateway # <<>>
  PROVE  Stored(Update(w)) /\ Update(w).own = w.own
<1>1. <<>> \in Seq(Chars)
  OBVIOUS
<1> QED
  BY <1>1 DEF Stored, OwnAuth, PortOrGateway, Update, ProfileType

LEMMA FillTyped ==
  ASSUME NEW r \in ProfileType
  PROVE  /\ Fill(r) \in ProfileType /\ Fill(r).own = TRUE
         /\ Fill(r).auth \in {"password", "saml", "cookie"}
<1>1. <<>> \in Seq(Chars) /\ {Auths[i] : i \in DOMAIN Auths} = {"password", "saml", "cookie"}
  BY DEF Auths
<1>2. Fill(r) = [r EXCEPT !.auth = Fill(r).auth, !.otp = <<>>, !.own = TRUE]
  BY DEF Fill, ProfileType
<1>3. Fill(r).auth \in {Auths[i] : i \in DOMAIN Auths}
  BY DEF Fill, ProfileType, Auths
<1> QED
  BY <1>1, <1>2, <1>3 DEF ProfileType

LEMMA ImportedStored ==
  ASSUME NEW y \in YieldType, PortOrGateway(y)
  PROVE  Stored(Imported(y))
<1>1. <<>> \in Seq(Chars) /\ Seq(Chars) \subseteq Seq(Chars \cup Options)
  OBVIOUS
<1>2. {"password", "saml"} \subseteq {Auths[i] : i \in DOMAIN Auths} \cup OtherAuths
  BY DEF Auths
<1>3. <<>> \in PinTexts
  BY PinsTyped
<1> QED
  BY <1>1, <1>2, <1>3 DEF Stored, OwnAuth, PortOrGateway, Imported, ProfileType, YieldType

LEMMA CommittedStored ==
  ASSUME StoredInv, DialogCommit
  PROVE  Stored(profile') /\ applied' = profile' /\ applied' # None
<1> DEFINE t == <<dialog.digest>>
           r == dialog.read
<1>1. Stored(r) /\ dialog.digest \in Digests
  BY DEF DialogCommit, StoredInv
<1>2. t \in PinTexts /\ profile' = [r EXCEPT !.pins = t] /\ applied' = profile'
  BY <1>1, PinsTyped DEF DialogCommit
<1> HIDE DEF t, r
<1>3. Stored([r EXCEPT !.pins = t])
  BY <1>1, <1>2 DEF Stored, OwnAuth, PortOrGateway, ProfileType
<1> QED
  BY <1>2, <1>3, NoneApart DEF Stored

LEMMA StoredStep ==
  ASSUME StoredInv, CountInv, [Next]_vars
  PROVE  StoredInv'
<1>1. CASE UNCHANGED vars
  BY <1>1 DEF vars, importVars, profileVars, StoredInv, ImportTyped
<1>2. CASE Import
  <2>1. UNCHANGED profileVars /\ ImportTyped'
    BY <1>2, ImportStepTyped DEF Import, StoredInv
  <2>2. imported' \notin {None, Failed} => PortOrGateway(imported')
    BY <1>2 DEF Import, ImportStep, StartElement, Text, EndElement, Finish, Advance,
      Yield, StoredInv, PortOrGateway
  <2> QED
    BY <2>1, <2>2 DEF profileVars, StoredInv
<1>3. CASE Adopt
  <2>1. Stored(Imported(imported))
    BY <1>3, ImportedStored DEF Adopt, StoredInv, ImportTyped
  <2>2. ImportTyped'
    BY <1>3, FreshTyped DEF Adopt, StoredInv, ImportTyped
  <2> QED
    BY <1>3, <2>1, <2>2, NoneApart DEF Adopt, StoredInv, Stored, trust
<1>4. CASE EditorOpen
  <2>1. editor' \in ProfileType /\ editor'.own /\ editor'.auth \in {"password", "saml", "cookie"}
    BY <1>4, FillTyped DEF EditorOpen, StoredInv, Stored
  <2> QED
    BY <1>4, <2>1 DEF EditorOpen, StoredInv, importVars, trust, ImportTyped
<1>5. CASE EditorChange
  <2>0. editor \in ProfileType /\ editor.own /\ editor.auth \in {"password", "saml", "cookie"}
    BY <1>5 DEF EditorChange, StoredInv
  <2>1. editor' \in ProfileType /\ editor'.own /\ editor'.auth \in {"password", "saml", "cookie"}
    <3>1. CASE \E i \in DOMAIN Auths : editor' = [editor EXCEPT !.auth = Auths[i]]
      <4>1. \A i \in DOMAIN Auths : /\ Auths[i] \in {"password", "saml", "cookie"}
                                    /\ Auths[i] \in {Auths[j] : j \in DOMAIN Auths}
        BY DEF Auths
      <4> QED
        BY <2>0, <3>1, <4>1 DEF ProfileType
    <3>2. CASE \E s \in Secret : editor' = [editor EXCEPT ![s] = <<"new">>]
      <4>1. "new" \in Chars
        BY ProfileAssumption
      <4>2. <<"new">> \in Seq(Chars)
        BY ONLY <4>1
      <4> QED
        BY <2>0, <3>2, <4>2 DEF ProfileType, Secret
    <3>3. CASE editor' = [editor EXCEPT !.gateway = <<>>]
      <4>1. <<>> \in Seq(Chars \cup Options)
        OBVIOUS
      <4> QED
        BY <2>0, <3>3, <4>1 DEF ProfileType
    <3>4. CASE \E d \in Digests : editor' = [editor EXCEPT !.pins = @ \o <<",", d>>]
      <4>1. PICK d \in Digests : editor' = [editor EXCEPT !.pins = @ \o <<",", d>>]
        BY <3>4
      <4>2. editor.pins \in PinTexts
        BY <2>0 DEF ProfileType
      <4> DEFINE t == editor.pins \o <<",", d>>
      <4>3. t \in PinTexts /\ editor' = [editor EXCEPT !.pins = t]
        BY <4>1, <4>2, PinsTyped
      <4> HIDE DEF t
      <4> QED
        BY <2>0, <4>3 DEF ProfileType
    <3> QED
      BY <1>5, <3>1, <3>2, <3>3, <3>4 DEF EditorChange
  <2> QED
    BY <1>5, <2>1 DEF EditorChange, StoredInv, importVars, trust, ImportTyped
<1>6. CASE EditorSave
  <2>1. Stored(Update(editor)) /\ Update(editor) \in ProfileType
    BY <1>6, UpdateStored DEF EditorSave, StoredInv, Stored
  <2> QED
    BY <1>6, <2>1 DEF EditorSave, StoredInv, importVars, ImportTyped
<1>7. CASE Activate \/ NeedSecrets \/ SupplySecret \/ Rotate
  BY <1>7 DEF Activate, NeedSecrets, SupplySecret, Rotate, StoredInv, importVars,
    user, trust, ImportTyped
<1>8. CASE Connect
  <2>1. UNCHANGED <<importVars, profile, editor>>
    BY <1>8 DEF Connect, user
  <2>2. dialog' \in {dialog, [Closed EXCEPT !.digest = leaf]}
    BY <1>8 DEF Connect
  <2>3. /\ dialog' \in [digest : Digests \cup {None}, read : ProfileType \cup {None}]
        /\ dialog'.read # None => dialog' = dialog
    BY <2>2 DEF Closed, StoredInv, CountInv
  <2> QED
    BY <2>1, <2>3 DEF StoredInv, importVars, ImportTyped
<1>9. CASE DialogRead
  <2>1. dialog' \in [digest : Digests \cup {None}, read : ProfileType \cup {None}]
        /\ dialog'.read = profile
    BY <1>9 DEF DialogRead, StoredInv, Stored
  <2> QED
    BY <1>9, <2>1 DEF DialogRead, StoredInv, importVars, user, ImportTyped
<1>10. CASE DialogCommit
  <2>2. Stored(profile')
    BY <1>10, CommittedStored
  <2> QED
    BY <1>10, <2>2, NoneApart DEF DialogCommit, StoredInv, Stored, importVars, Closed, ImportTyped
<1>11. CASE DialogCancel
  BY <1>11 DEF DialogCancel, StoredInv, importVars, user, Closed, ImportTyped
<1> QED
  BY <1>1, <1>2, <1>3, <1>4, <1>5, <1>6, <1>7, <1>8, <1>9, <1>10, <1>11
  DEF Next, Editor, Dialog

LEMMA SuppliedStored ==
  ASSUME ActiveInv, SupplySecret
  PROVE  /\ applied # None /\ asked \in Secret /\ Stored(applied') /\ applied' # None
         /\ applied'[asked] # <<>> /\ \A s \in Secret : s # asked => applied'[s] = applied[s]
<1>1. applied # None /\ applied \in ProfileType /\ asked \in Secret
  BY DEF SupplySecret, ActiveInv, Stored, Missing, Secret
<1> DEFINE t == <<"given">>
<1>2. t \in Seq(Chars)
  <2>1. "given" \in Chars
    BY ProfileAssumption
  <2> QED
    BY ONLY <2>1
<1>3. applied' = [applied EXCEPT ![asked] = t] /\ t # <<>>
  BY DEF SupplySecret
<1> HIDE DEF t
<1>4. /\ applied' \in ProfileType /\ applied'.own = applied.own
      /\ applied'.gateway = applied.gateway /\ applied'.port = applied.port
      /\ applied'.auth = applied.auth
      /\ applied'[asked] = t /\ \A s \in Secret : s # asked => applied'[s] = applied[s]
  BY <1>1, <1>2, <1>3 DEF ProfileType, Secret
<1>5. asked = "cookie" => applied.auth = "cookie"
  BY DEF SupplySecret, ActiveInv, Missing
<1>6. Stored(applied')
  <2>1. asked # "cookie" => applied'["cookie"] = applied["cookie"]
    BY <1>4 DEF Secret
  <2> QED
    BY <1>1, <1>4, <1>5, <2>1 DEF ActiveInv, Stored, OwnAuth, PortOrGateway
<1> QED
  BY <1>1, <1>3, <1>4, <1>6, NoneApart

LEMMA ActiveStep ==
  ASSUME StoredInv, StoredInv', ActiveInv, [Next]_vars
  PROVE  ActiveInv'
<1>1. CASE SupplySecret
  <2>1. /\ applied # None /\ asked \in Secret /\ Stored(applied')
        /\ applied'[asked] # <<>> /\ \A s \in Secret : s # asked => applied'[s] = applied[s]
    BY <1>1, SuppliedStored
  <2> QED
    BY <1>1, <2>1 DEF SupplySecret, ActiveInv
<1>2. CASE NeedSecrets
  BY <1>2 DEF NeedSecrets, ActiveInv
<1>3. CASE Activate
  BY <1>3 DEF Activate, ActiveInv, StoredInv, Stored, user
<1>4. CASE Connect
  BY <1>4 DEF Connect, ActiveInv
<1>5. CASE DialogCommit
  <2>1. Stored(profile') /\ applied' = profile' /\ asked' = None /\ answered' = {}
    BY <1>5, CommittedStored DEF DialogCommit
  <2> QED
    BY <2>1 DEF ActiveInv, Stored
<1>6. CASE UNCHANGED activation
  BY <1>6 DEF activation, ActiveInv
<1> QED
  BY <1>1, <1>2, <1>3, <1>4, <1>5, <1>6
  DEF Next, Import, Adopt, Editor, EditorOpen, EditorChange, EditorSave, Rotate,
    Dialog, DialogRead, DialogCancel, vars, profileVars, activation

LEMMA CountStep ==
  ASSUME CountInv, [Next]_vars
  PROVE  CountInv'
<1>0. MaxEdits \in Nat /\ MaxLeaves \in Nat \ {0}
  BY ProfileAssumption
<1>1. CASE Rotate
  BY <1>0, <1>1 DEF Rotate, CountInv, user
<1>2. CASE EditorChange
  <2>1. /\ edits < MaxEdits /\ edits' = edits + 1
        /\ UNCHANGED <<leaf, leaves, trusted>>
    BY <1>2 DEF EditorChange, gateway, trust
  <2> QED
    BY <1>0, <2>1 DEF CountInv
<1>3. CASE EditorSave
  BY <1>3 DEF EditorSave, CountInv, gateway
<1>4. CASE DialogCommit
  BY <1>4 DEF DialogCommit, CountInv, gateway
<1>5. CASE UNCHANGED <<edits, gateway, trusted>>
  BY <1>5 DEF gateway, CountInv
<1> QED
  BY <1>1, <1>2, <1>3, <1>4, <1>5
  DEF Next, Import, Adopt, Editor, EditorOpen, Activate, NeedSecrets, SupplySecret,
    Connect, Dialog, DialogRead, DialogCancel, vars, profileVars, user, gateway, trust

LEMMA ProfileInvariant == Spec => [](StoredInv /\ ActiveInv /\ CountInv)
<1> DEFINE Inv == StoredInv /\ ActiveInv /\ CountInv
<1>1. Init => Inv
  <2> SUFFICES ASSUME Init PROVE Inv
    OBVIOUS
  <2>1. ImportTyped /\ imported = None /\ (profile # None => profile \in Profiles)
    BY ImportInitTyped, FreshTyped DEF Init, ImportInit, ImportTyped
  <2>2. profile # None => Stored(profile)
    BY <2>1, ProfileAssumption DEF Stored
  <2>3. CountInv
    <3>1. MaxEdits \in Nat /\ MaxLeaves \in Nat \ {0}
      BY ProfileAssumption
    <3> QED
      BY <3>1 DEF Init, CountInv
  <2> QED
    BY <2>1, <2>2, <2>3 DEF Init, StoredInv, ActiveInv, Closed
<1>2. Inv /\ [Next]_vars => Inv'
  BY StoredStep, ActiveStep, CountStep
<1> QED
  BY <1>1, <1>2, PTL DEF Spec

(* Every process finds a profile of the right shape, and one the editor or *)
(* the importer wrote has a gateway or, an import of a bare port, a port.  *)
THEOREM TypeCorrect == Spec => []TypeOK
<1>1. StoredInv /\ ActiveInv /\ CountInv => TypeOK
  <2> SUFFICES ASSUME StoredInv, ActiveInv, CountInv PROVE TypeOK
    OBVIOUS
  <2>1. {profile, editor, applied} \subseteq ProfileType \cup {None}
    BY DEF StoredInv, ActiveInv, Stored
  <2>2. editor # None =>
          profile # None /\ editor.own /\ editor.auth \in {Auths[i] : i \in DOMAIN Auths}
    BY DEF StoredInv, Auths
  <2>3. asked \in Secret \cup {None}
    BY DEF ActiveInv, Missing, Secret
  <2>4. ASSUME NEW r \in {profile, applied, dialog.read} \ {None}, r.own, r.gateway = <<>>
        PROVE  r.port # <<>>
    BY <2>4 DEF StoredInv, ActiveInv, Stored, PortOrGateway
  <2> QED
    BY <2>1, <2>2, <2>3, <2>4 DEF TypeOK, StoredInv, ActiveInv, CountInv
<1> QED
  BY <1>1, ProfileInvariant, PTL

------------------------------------------------------------------------------
(* Opening and saving a profile keeps what crosswire is launched with. *)
LEMMA SaveLaunch ==
  ASSUME NEW r \in ProfileType
  PROVE  Launch(Update(Fill(r))) = Launch([r EXCEPT !.otp = <<>>])
<1> DEFINE w == Update(Fill(r))
           q == [r EXCEPT !.otp = <<>>]
<1>0. DOMAIN r = {"gateway", "port", "user", "pins", "auth", "insecure",
                  "password", "otp", "cookie", "own"}
  BY DEF ProfileType
<1>1. /\ w.gateway = r.gateway /\ w.port = r.port /\ w.user = r.user
      /\ w.pins = r.pins /\ w.insecure = r.insecure /\ w.otp = <<>>
  BY <1>0 DEF Update, Fill
<1>2. /\ q.gateway = r.gateway /\ q.port = r.port /\ q.user = r.user
      /\ q.pins = r.pins /\ q.insecure = r.insecure /\ q.otp = <<>>
      /\ q.auth = r.auth /\ q.password = r.password /\ q.cookie = r.cookie
  BY <1>0
<1>3. w.auth = IF r.auth \in {"password", "saml", "cookie"} THEN r.auth ELSE "password"
  BY <1>0 DEF Update, Fill, Auths
<1>4. r.auth \notin {"saml", "cookie"} => w.password = r.password
  BY <1>0 DEF Update, Fill, Auths
<1>5. r.auth = "cookie" => w.cookie = r.cookie
  BY <1>0 DEF Update, Fill, Auths
<1> HIDE DEF w, q
<1>6. Credential(w) = Credential(q)
  BY <1>1, <1>2, <1>3, <1>4 DEF Credential
<1>7. Pins(w) = Pins(q)
  BY <1>1, <1>2 DEF Pins
<1>8. Arguments(w) = Arguments(q)
  BY <1>1, <1>2, <1>6, <1>7 DEF Arguments
<1>9. (w.auth = "cookie") <=> (q.auth = "cookie")
  BY <1>2, <1>3
<1>10. Launch(w) = Launch(q)
  BY <1>2, <1>5, <1>8, <1>9 DEF Launch
<1> QED
  BY <1>10 DEF w, q

(* ... and a profile of our own has its secret or not, as before. *)
LEMMA SaveMissing ==
  ASSUME NEW r \in ProfileType, OwnAuth(r)
  PROVE  Missing(Update(Fill(r))) = Missing(r)
BY SMTT(30) DEF OwnAuth, Missing, Update, Fill, ProfileType, Auths

(* Whatever another tool has written: opening a profile and saving it as   *)
(* it is shown changes nothing crosswire is launched with, and loses no    *)
(* secret of a profile of our own (the editor, map_connection).            *)
THEOREM SaveKept == Spec => []SaveKeepsLaunch
<1>1. StoredInv => SaveKeepsLaunch
  <2> SUFFICES ASSUME StoredInv, profile # None, editor = Fill(profile)
               PROVE  /\ Launch(Update(editor)) = Launch([profile EXCEPT !.otp = <<>>])
                      /\ profile.own => Missing(Update(editor)) = Missing(profile)
    BY DEF SaveKeepsLaunch
  <2>1. profile \in ProfileType /\ (profile.own = TRUE => OwnAuth(profile))
    BY DEF StoredInv, Stored
  <2> QED
    BY <2>1, SaveLaunch, SaveMissing
<1> QED
  BY <1>1, ProfileInvariant, PTL

(* For any profile whatsoever, one activation never asks twice for the     *)
(* same secret (need_secrets, new_secrets and connect decide on one map).  *)
THEOREM SecretOnce == Spec => []SecretAskedOnce
<1>1. ActiveInv => SecretAskedOnce
  BY DEF ActiveInv, SecretAskedOnce, Missing
<1> QED
  BY <1>1, ProfileInvariant, PTL


------------------------------------------------------------------------------
(* Reading arguments: what crosswire has read of them so far. *)
Letters   == Chars \cup Options \cup Digests \cup {"false", "ppp0", "plugin.so"}
ArgType   == Seq(Letters)
OptionSet == SUBSET ((Valued \cup Switches) \X ArgType)
ReadType  ==
  [options : OptionSet, host : ArgType \cup {None}, wants : Valued \cup {None}, rest : BOOLEAN]
Reading(options, wants) == [options |-> options, host |-> None, wants |-> wants, rest |-> FALSE]
ReadMachine == [arg \in ArgType |-> [read \in ReadType |-> ReadArgument(read, arg)]]

LEMMA ReadArgumentTyped ==
  ASSUME NEW read \in ReadType, NEW arg \in ArgType
  PROVE  ReadArgument(read, arg) \in ReadType
<1>1. <<>> \in ArgType
  BY DEF ArgType
<1>2. /\ read.options \in OptionSet /\ read.wants \in Valued \cup {None}
      /\ read.host \in ArgType \cup {None} /\ read.rest \in BOOLEAN
      /\ read = [options |-> read.options, host |-> read.host, wants |-> read.wants,
                 rest |-> read.rest]
  BY DEF ReadType
<1>3. ASSUME NEW name \in Valued \cup Switches, NEW text \in ArgType
      PROVE  read.options \cup {<<name, text>>} \in OptionSet
  BY <1>2 DEF OptionSet
<1>4. CASE read.wants # None /\ Head(arg) \notin Options
  <2>1. ReadArgument(read, arg)
          = [read EXCEPT !.options = @ \cup {<<read.wants, arg>>}, !.wants = None]
    BY <1>4 DEF ReadArgument
  <2>2. read.options \cup {<<read.wants, arg>>} \in OptionSet
    BY <1>2, <1>3, <1>4
  <2> QED
    BY <1>2, <2>1, <2>2 DEF ReadType
<1>5. CASE ~(read.wants # None /\ Head(arg) \notin Options)
  <2>1. CASE ~read.rest /\ Head(arg) \in Switches \cup {"--saml-login"}
    <3> DEFINE w == IF Head(arg) \in Valued THEN Head(arg) ELSE None
               o == read.options \cup {<<Head(arg), <<>>>>}
    <3>1. ReadArgument(read, arg) = [read EXCEPT !.options = o, !.wants = w]
      BY <1>5, <2>1 DEF ReadArgument
    <3>2. o \in OptionSet
      <4>1. Head(arg) \in Valued \cup Switches
        BY <2>1 DEF Valued
      <4> QED
        BY <1>1, <1>3, <4>1
    <3>3. w \in Valued \cup {None}
      OBVIOUS
    <3> HIDE DEF w, o
    <3> QED
      BY <1>2, <3>1, <3>2, <3>3 DEF ReadType
  <2>2. CASE ~(~read.rest /\ Head(arg) \in Switches \cup {"--saml-login"})
    <3>1. \/ Head(arg) \in Valued /\ ReadArgument(read, arg) = [read EXCEPT !.wants = Head(arg)]
          \/ ReadArgument(read, arg) = [read EXCEPT !.rest = TRUE, !.wants = None]
          \/ ReadArgument(read, arg) = [read EXCEPT !.host = arg]
      BY <1>5, <2>2 DEF ReadArgument
    <3> DEFINE h == Head(arg)
    <3> HIDE DEF h
    <3> QED
      BY <1>2, <3>1 DEF ReadType
  <2> QED
    BY <2>1, <2>2
<1> QED
  BY <1>4, <1>5

LEMMA ReadMachineType ==
  /\ ReadMachine \in Machines(ArgType, ReadType)
  /\ \A arg \in ArgType, read \in ReadType : ReadMachine[arg][read] = ReadArgument(read, arg)
  /\ \A o \in OptionSet, w \in Valued \cup {None} : Reading(o, w) \in ReadType
<1>1. \A arg \in ArgType, read \in ReadType : ReadArgument(read, arg) \in ReadType
  BY ReadArgumentTyped
<1>2. \A o \in OptionSet, w \in Valued \cup {None} : Reading(o, w) \in ReadType
  BY DEF Reading, ReadType
<1> QED
  BY <1>1, <1>2 DEF ReadMachine, Machines

LEMMA ReadDrive ==
  ASSUME NEW args \in Seq(ArgType)
  PROVE  Read(args) = Drive(ReadMachine, Reading({}, None), args)
<1> DEFINE n     == Len(args)
           A     == ReadType
           B     == ArgType
           op    == ReadMachine
           start == Reading({}, None)
           made[i \in 0 .. n] ==
             IF i = 0 THEN start ELSE ReadArgument(made[i - 1], args[i])
<1>1. n \in Nat /\ \A i \in 1 .. n : args[i] \in B
  <2> HIDE DEF B
  <2>1. args \in Seq(B)
    BY DEF B
  <2> QED
    BY <2>1
<1>2. Read(args) = made[n]
  BY DEF Read, Along, Reading
<1>3. op \in Machines(B, A) /\ \A c \in B, read \in A : op[c][read] = ReadArgument(read, c)
  BY ReadMachineType
<1>4. start \in A /\ args \in Seq(B)
  <2>1. {} \in OptionSet
    BY DEF OptionSet
  <2> QED
    BY <2>1, ReadMachineType
<1> HIDE DEF op, A, B, n, start
<1>5. PICK g \in [0 .. n -> A] :
        /\ g[0] = start
        /\ \A i \in 1 .. n : g[i] = op[args[i]][g[i - 1]]
  BY <1>3, <1>4, DriveTrace DEF n
<1>6. g = [i \in 0 .. n |-> IF i = 0 THEN start ELSE ReadArgument(g[i - 1], args[i])]
  <2>1. ASSUME NEW i \in 1 .. n PROVE g[i] = ReadArgument(g[i - 1], args[i])
    <3>1. i - 1 \in 0 .. n
      BY <1>1
    <3>2. g[i - 1] \in A /\ args[i] \in B
      BY <1>1, <1>5, <3>1
    <3>3. g[i] = op[args[i]][g[i - 1]]
      BY <1>5
    <3> QED
      BY <1>3, <3>2, <3>3
  <2>2. \A i \in 0 .. n : i # 0 => i \in 1 .. n
    BY <1>1
  <2>3. g = [i \in 0 .. n |-> g[i]]
    BY <1>5
  <2> QED
    BY <1>5, <2>1, <2>2, <2>3
<1>7. made = [i \in 0 .. n |-> IF i = 0 THEN start ELSE ReadArgument(made[i - 1], args[i])]
  BY <1>6
<1> HIDE DEF made
<1>8. made[0] = start
  <2>1. 0 \in 0 .. n
    BY <1>1
  <2> QED
    BY <1>7, <2>1
<1>9. ASSUME NEW i \in 1 .. n, made[i - 1] \in A PROVE made[i] = op[args[i]][made[i - 1]]
  <2>1. i \in 0 .. n /\ i # 0
    BY <1>1
  <2>2. made[i] = ReadArgument(made[i - 1], args[i])
    BY <1>7, <2>1
  <2> QED
    BY <1>1, <1>3, <1>9, <2>2
<1>10. made[n] = Drive(op, start, args)
  BY <1>3, <1>4, <1>8, <1>9, DriveUnique DEF n
<1> QED
  BY <1>2, <1>10 DEF op, start

(* Arguments that add options, and leave none waiting for its value. *)
Adds(args, options) ==
  /\ args \in Seq(ArgType) /\ options \in OptionSet
  /\ \A o \in OptionSet :
       Drive(ReadMachine, Reading(o, None), args) = Reading(o \cup options, None)

LEMMA AddsNothing == Adds(<<>>, {})
<1>1. <<>> \in Seq(ArgType) /\ {} \in OptionSet
  BY DEF OptionSet
<1>2. ASSUME NEW o \in OptionSet
      PROVE  Drive(ReadMachine, Reading(o, None), <<>>) = Reading(o \cup {}, None)
  <2>1. Reading(o, None) \in ReadType
    BY ReadMachineType
  <2>2. Drive(ReadMachine, Reading(o, None), <<>>) = Reading(o, None)
    BY <2>1, ReadMachineType, DriveEmpty
  <2>3. o \cup {} = o
    OBVIOUS
  <2> QED
    BY <2>2, <2>3
<1> QED
  BY <1>1, <1>2 DEF Adds

LEMMA AddsBoth ==
  ASSUME NEW a, NEW b, NEW q, NEW r, Adds(a, q), Adds(b, r)
  PROVE  Adds(a \o b, q \cup r)
<1> DEFINE A == ArgType
           R == ReadType
<1>1. a \in Seq(A) /\ b \in Seq(A) /\ q \in OptionSet /\ r \in OptionSet
  BY DEF Adds
<1>2. ReadMachine \in Machines(A, R)
  BY ReadMachineType
<1>3. \A o, o2 \in OptionSet : o \cup o2 \in OptionSet
  BY DEF OptionSet
<1>4. \A o \in OptionSet : Reading(o, None) \in R
  BY ReadMachineType
<1> HIDE DEF A, R
<1>5. a \o b \in Seq(A)
  BY <1>1
<1>6. ASSUME NEW o \in OptionSet
      PROVE  Drive(ReadMachine, Reading(o, None), a \o b) = Reading(o \cup (q \cup r), None)
  <2>1. Drive(ReadMachine, Reading(o, None), a \o b)
          = Drive(ReadMachine, Drive(ReadMachine, Reading(o, None), a), b)
    BY <1>1, <1>2, <1>4, DriveConcat
  <2>2. Drive(ReadMachine, Reading(o, None), a) = Reading(o \cup q, None)
    BY DEF Adds
  <2>3. Drive(ReadMachine, Reading(o \cup q, None), b) = Reading((o \cup q) \cup r, None)
    BY <1>1, <1>3 DEF Adds
  <2>4. (o \cup q) \cup r = o \cup (q \cup r)
    OBVIOUS
  <2> QED
    BY <2>1, <2>2, <2>3, <2>4
<1> QED
  BY <1>1, <1>3, <1>5, <1>6 DEF Adds, A

LEMMA OneRead ==
  ASSUME NEW o \in OptionSet, NEW w \in Valued \cup {None}, NEW arg \in ArgType
  PROVE  /\ <<arg>> \in Seq(ArgType)
         /\ Drive(ReadMachine, Reading(o, w), <<arg>>) = ReadArgument(Reading(o, w), arg)
<1> DEFINE A     == ArgType
           R     == ReadType
           start == Reading(o, w)
<1>1. ReadMachine \in Machines(A, R) /\ start \in R
  BY ReadMachineType
<1>2. ReadMachine[arg][start] = ReadArgument(start, arg) /\ arg \in A
  BY <1>1, ReadMachineType
<1> HIDE DEF A, R, start
<1>3. <<arg>> \in Seq(A) /\ Drive(ReadMachine, start, <<arg>>) = ReadMachine[arg][start]
  BY <1>1, <1>2, DriveOne
<1> QED
  BY <1>2, <1>3 DEF A, start

LEMMA TwoRead ==
  ASSUME NEW o \in OptionSet, NEW w \in Valued \cup {None}, NEW one \in ArgType, NEW two \in ArgType
  PROVE  /\ <<one, two>> \in Seq(ArgType)
         /\ Drive(ReadMachine, Reading(o, w), <<one, two>>)
              = ReadArgument(ReadArgument(Reading(o, w), one), two)
<1> DEFINE A     == ArgType
           R     == ReadType
           start == Reading(o, w)
<1>1. ReadMachine \in Machines(A, R) /\ start \in R
  BY ReadMachineType
<1>2. ReadMachine[one][start] = ReadArgument(start, one) /\ one \in A /\ two \in A
  BY <1>1, ReadMachineType
<1>3. ReadArgument(start, one) \in R
  BY <1>1, ReadArgumentTyped
<1>4. ReadMachine[two][ReadArgument(start, one)] = ReadArgument(ReadArgument(start, one), two)
  BY <1>3, ReadMachineType
<1> HIDE DEF A, R, start
<1>5. /\ <<one, two>> \in Seq(A)
      /\ Drive(ReadMachine, start, <<one, two>>) = ReadMachine[two][ReadMachine[one][start]]
  BY <1>1, <1>2, DriveTwo
<1> QED
  BY <1>2, <1>4, <1>5 DEF A, start

(* The name of an option is an argument; a value is none of them. *)
Value == {text \in ArgType : text # <<>> /\ Head(text) \notin Options}

LEMMA NameTyped ==
  ASSUME NEW name \in Options
  PROVE  <<name>> \in ArgType /\ Head(<<name>>) = name
<1>1. name \in Letters
  BY DEF Letters
<1> QED
  BY <1>1 DEF ArgType

LEMMA PairTyped ==
  ASSUME NEW name \in Valued \cup Switches, NEW text \in ArgType
  PROVE  {<<name, text>>} \in OptionSet
BY DEF OptionSet

LEMMA AddsOption ==
  ASSUME NEW name \in Valued \ {"--saml-login"}, NEW text \in Value
  PROVE  Adds(<<<<name>>, text>>, {<<name, text>>})
<1>1. /\ name \in Options /\ name \in Valued /\ name \notin Switches \cup {"--saml-login"}
      /\ name # None
  BY NoneApart, ProfileAssumption DEF Options, Valued, Switches
<1>2. <<name>> \in ArgType /\ Head(<<name>>) = name
  BY <1>1, NameTyped
<1>3. text \in ArgType /\ Head(text) \notin Options
  BY DEF Value
<1>4. {<<name, text>>} \in OptionSet
  BY <1>1, <1>3, PairTyped
<1> DEFINE one == <<name>>
<1>5. one \in ArgType /\ Head(one) = name
  BY <1>2
<1> HIDE DEF one
<1>6. ASSUME NEW o \in OptionSet
      PROVE  /\ <<one, text>> \in Seq(ArgType)
             /\ Drive(ReadMachine, Reading(o, None), <<one, text>>)
                  = Reading(o \cup {<<name, text>>}, None)
  <2>1. ReadArgument(Reading(o, None), one) = Reading(o, name)
    BY <1>1, <1>5 DEF ReadArgument, Reading
  <2>2. ReadArgument(Reading(o, name), text) = Reading(o \cup {<<name, text>>}, None)
    BY <1>1, <1>3 DEF ReadArgument, Reading
  <2> QED
    BY <1>3, <1>5, <2>1, <2>2, TwoRead
<1>7. {} \in OptionSet
  BY DEF OptionSet
<1>8. <<one, text>> \in Seq(ArgType)
  BY <1>6, <1>7
<1> QED
  BY <1>4, <1>6, <1>8 DEF Adds, one

LEMMA AddsSwitch ==
  ASSUME NEW name \in Switches
  PROVE  Adds(<<<<name>>>>, {<<name, <<>>>>})
<1>1. name \in Options /\ name \notin Valued /\ name # None
  BY NoneApart, ProfileAssumption DEF Options, Valued, Switches
<1>2. <<>> \in ArgType
  BY DEF ArgType
<1>3. {<<name, <<>>>>} \in OptionSet /\ {} \in OptionSet
  BY <1>2, PairTyped DEF OptionSet
<1> DEFINE one == <<name>>
<1>4. one \in ArgType /\ Head(one) = name
  BY <1>1, NameTyped
<1> HIDE DEF one
<1>5. <<one>> \in Seq(ArgType)
  BY <1>3, <1>4, OneRead
<1>6. ASSUME NEW o \in OptionSet
      PROVE  Drive(ReadMachine, Reading(o, None), <<one>>) = Reading(o \cup {<<name, <<>>>>}, None)
  <2>1. ReadArgument(Reading(o, None), one) = Reading(o \cup {<<name, <<>>>>}, None)
    BY <1>1, <1>4 DEF ReadArgument, Reading
  <2> QED
    BY <1>4, <2>1, OneRead
<1> QED
  BY <1>3, <1>5, <1>6 DEF Adds, one

(* An option with a text of the profile, if there is one. *)
Given(name, text) == IF text = <<>> THEN {} ELSE {<<name, text>>}

LEMMA TextValue ==
  ASSUME NEW text \in Seq(Chars \cup Digests \cup {"false", "ppp0", "plugin.so"}), text # <<>>
  PROVE  text \in Value
<1> DEFINE C == Chars \cup Digests \cup {"false", "ppp0", "plugin.so"}
<1>1. C \subseteq Letters /\ C \cap Options = {}
  BY ProfileAssumption DEF Letters, Options, Valued, Switches
<1> HIDE DEF C
<1>2. text \in Seq(C)
  BY DEF C
<1>3. text \in Seq(Letters) /\ Head(text) \in C
  BY <1>1, <1>2
<1> QED
  BY <1>1, <1>3 DEF Value, ArgType

LEMMA AddsGiven ==
  ASSUME NEW name \in Valued \ {"--saml-login"}, NEW text \in Seq(Chars)
  PROVE  Adds(Option(name, text), Given(name, text))
<1>1. CASE text = <<>>
  BY <1>1, AddsNothing DEF Option, Given
<1>2. CASE text # <<>>
  <2>1. text \in Seq(Chars \cup Digests \cup {"false", "ppp0", "plugin.so"})
    OBVIOUS
  <2>2. text \in Value
    BY <1>2, <2>1, TextValue
  <2>3. Adds(<<<<name>>, text>>, {<<name, text>>})
    BY <2>2, AddsOption
  <2> QED
    BY <1>2, <2>3 DEF Option, Given
<1> QED
  BY <1>1, <1>2

(* The host, behind `--', is the host, whatever came before. *)
LEMMA HostRead ==
  ASSUME NEW o \in OptionSet, NEW w \in Valued \cup {None}, NEW host \in Seq(Chars \cup Options)
  PROVE  /\ <<<<"--">>, host>> \in Seq(ArgType)
         /\ Drive(ReadMachine, Reading(o, w), <<<<"--">>, host>>)
              = [options |-> o, host |-> host, wants |-> None, rest |-> TRUE]
<1> DEFINE one == <<"--">>
           C   == Chars \cup Options
<1>1. /\ "--" \in Options /\ "--" \notin Valued /\ "--" \notin Switches \cup {"--saml-login"}
  BY DEF Options, Valued, Switches
<1>2. one \in ArgType /\ Head(one) = "--"
  BY <1>1, NameTyped
<1>3. host \in ArgType
  <2>1. C \subseteq Letters
    BY DEF Letters
  <2> HIDE DEF C
  <2>2. host \in Seq(C)
    BY DEF C
  <2> QED
    BY <2>1, <2>2 DEF ArgType
<1> HIDE DEF one
<1>4. ReadArgument(Reading(o, w), one)
        = [options |-> o, host |-> None, wants |-> None, rest |-> TRUE]
  BY <1>1, <1>2 DEF ReadArgument, Reading
<1> DEFINE r == [options |-> o, host |-> None, wants |-> None, rest |-> TRUE]
<1>5. ReadArgument(r, host) = [options |-> o, host |-> host, wants |-> None, rest |-> TRUE]
  BY DEF ReadArgument
<1> QED
  BY <1>2, <1>3, <1>4, <1>5, TwoRead DEF one

(* The first of the arguments that delegate the network, and their options. *)
DelegatedArgs(m)    == [i \in 1 .. m |-> <<Delegated[i]>>]
DelegatedOptions(m) ==
  {<<Delegated[i], <<Delegated[i + 1]>>>> : i \in {1, 3, 5, 7, 9} \cap 1 .. m}

LEMMA DelegatedTyped ==
  /\ DOMAIN Delegated = 1 .. 10
  /\ \A i \in {1, 3, 5, 7, 9} : /\ Delegated[i] \in Valued \ {"--saml-login"}
                                /\ Delegated[i + 1] \in {"false", "ppp0", "plugin.so"}
BY DEF Delegated, Valued

LEMMA AddsTwoMore ==
  ASSUME NEW m \in {0, 2, 4, 6, 8}, Adds(DelegatedArgs(m), DelegatedOptions(m))
  PROVE  Adds(DelegatedArgs(m + 2), DelegatedOptions(m + 2))
<1> DEFINE n == Delegated[m + 1]
           v == Delegated[m + 2]
           s == DelegatedArgs(m)
           u == DelegatedArgs(m + 2)
           t == <<<<n>>, <<v>>>>
           A == ArgType
<1>1. /\ m + 1 \in {1, 3, 5, 7, 9} /\ (m + 1) + 1 = m + 2
      /\ {1, 3, 5, 7, 9} \cap 1 .. m + 2 = ({1, 3, 5, 7, 9} \cap 1 .. m) \cup {m + 1}
  OBVIOUS
<1>2. n \in Valued \ {"--saml-login"} /\ v \in {"false", "ppp0", "plugin.so"}
  BY <1>1, DelegatedTyped
<1>3. <<v>> \in Value
  <2> DEFINE C == Chars \cup Digests \cup {"false", "ppp0", "plugin.so"}
             w == <<v>>
  <2>1. v \in C
    BY <1>2
  <2> HIDE DEF C, v
  <2>2. w \in Seq(C) /\ w # <<>>
    BY <2>1
  <2> HIDE DEF w
  <2>3. w \in Value
    BY <2>2, TextValue DEF C
  <2> QED
    BY <2>3 DEF w
<1>4. Adds(t, {<<n, <<v>>>>})
  BY <1>2, <1>3, AddsOption
<1>5. DelegatedOptions(m + 2) = DelegatedOptions(m) \cup {<<n, <<v>>>>}
  BY <1>1 DEF DelegatedOptions
<1>6. Adds(s \o t, DelegatedOptions(m + 2))
  <2> HIDE DEF s, t, n, v
  <2> QED
    BY <1>4, <1>5, AddsBoth DEF s
<1>7. s \o t = u
  <2>1. /\ \A i \in 1 .. m : s[i] = u[i]
        /\ u[m + 1] = <<n>> /\ u[m + 2] = <<v>>
        /\ u = [i \in 1 .. m + 2 |-> u[i]] /\ s = [i \in 1 .. m |-> s[i]]
    BY DEF DelegatedArgs
  <2>2. s \in Seq(A) /\ t \in Seq(A)
    BY <1>4 DEF Adds
  <2>3. t[1] = <<n>> /\ t[2] = <<v>> /\ Len(t) = 2
    OBVIOUS
  <2> DEFINE x == <<n>>
             y == <<v>>
  <2>4. x \in A /\ y \in A
    <3>1. <<n>> \in ArgType
      BY <1>2, NameTyped DEF Options
    <3>2. <<v>> \in ArgType
      BY <1>3 DEF Value
    <3> QED
      BY <3>1, <3>2
  <2> HIDE DEF s, t, u, A, x, y
  <2>5. \A i \in 1 .. m + 2 : u[i] \in A
    <3>1. ASSUME NEW i \in 1 .. m + 2 PROVE i \in 1 .. m \/ i = m + 1 \/ i = m + 2
      OBVIOUS
    <3>2. Len(s) = m
      BY <2>1, <2>2
    <3>3. \A i \in 1 .. m : s[i] \in A
      BY <2>2, <3>2
    <3> QED
      BY <2>1, <2>4, <3>1, <3>3 DEF x, y
  <2>6. u \in Seq(A) /\ Len(u) = m + 2
    BY <2>1, <2>5, SMTT(30)
  <2>7. Len(s) = m
    BY <2>1, <2>2
  <2>8. \A i \in 1 .. Len(t) : u[Len(s) + i] = t[i]
    <3>1. 1 .. Len(t) = {1, 2}
      BY <2>3
    <3>2. u[Len(s) + 1] = t[1] /\ u[Len(s) + 2] = t[2]
      BY <2>1, <2>3, <2>7
    <3> QED
      BY <3>1, <3>2
  <2>9. \A i \in 1 .. Len(s) : u[i] = s[i]
    BY <2>1, <2>7
  <2>10. Len(u) = Len(s) + Len(t)
    BY <2>3, <2>6, <2>7
  <2> QED
    BY <2>2, <2>6, <2>8, <2>9, <2>10, ConcatIs
<1> QED
  BY <1>6, <1>7

LEMMA AddsDelegated ==
  Adds([i \in DOMAIN Delegated |-> <<Delegated[i]>>],
       {<<Delegated[i], <<Delegated[i + 1]>>>> : i \in {1, 3, 5, 7, 9}})
<1>1. Adds(DelegatedArgs(0), DelegatedOptions(0))
  <2>1. DelegatedArgs(0) = <<>> /\ DelegatedOptions(0) = {}
    BY DEF DelegatedArgs, DelegatedOptions
  <2> QED
    BY <2>1, AddsNothing
<1>2. Adds(DelegatedArgs(2), DelegatedOptions(2))
  <2>1. 0 \in {0, 2, 4, 6, 8} /\ 0 + 2 = 2
    OBVIOUS
  <2> QED
    BY <1>1, <2>1, AddsTwoMore
<1>3. Adds(DelegatedArgs(4), DelegatedOptions(4))
  <2>1. 2 \in {0, 2, 4, 6, 8} /\ 2 + 2 = 4
    OBVIOUS
  <2> QED
    BY <1>2, <2>1, AddsTwoMore
<1>4. Adds(DelegatedArgs(6), DelegatedOptions(6))
  <2>1. 4 \in {0, 2, 4, 6, 8} /\ 4 + 2 = 6
    OBVIOUS
  <2> QED
    BY <1>3, <2>1, AddsTwoMore
<1>5. Adds(DelegatedArgs(8), DelegatedOptions(8))
  <2>1. 6 \in {0, 2, 4, 6, 8} /\ 6 + 2 = 8
    OBVIOUS
  <2> QED
    BY <1>4, <2>1, AddsTwoMore
<1>6. Adds(DelegatedArgs(10), DelegatedOptions(10))
  <2>1. 8 \in {0, 2, 4, 6, 8} /\ 8 + 2 = 10
    OBVIOUS
  <2> QED
    BY <1>5, <2>1, AddsTwoMore
<1>7. DelegatedArgs(10) = [i \in DOMAIN Delegated |-> <<Delegated[i]>>]
  BY DelegatedTyped DEF DelegatedArgs
<1>8. {1, 3, 5, 7, 9} \cap 1 .. 10 = {1, 3, 5, 7, 9}
  OBVIOUS
<1>9. DelegatedOptions(10) = {<<Delegated[i], <<Delegated[i + 1]>>>> : i \in {1, 3, 5, 7, 9}}
  BY <1>8 DEF DelegatedOptions
<1> QED
  BY <1>6, <1>7, <1>9

PinSeps  == {",", " "}
PinWords == {<<d>> : d \in Digests}

LEMMA PinsAreDigests ==
  ASSUME NEW t \in PinTexts
  PROVE  /\ Words(t, PinSeps) \in Seq(PinWords)
         /\ ToSet(Words(t, PinSeps)) = {<<d>> : d \in Digests \cap ToSet(t)}
<1> DEFINE C  == Digests \cup PinSeps
           ws == Words(t, PinSeps)
           n  == Len(t)
<1>1. /\ t \in Seq(C)
      /\ \A i \in 1 .. Len(t) - 1 : t[i] \notin Digests \/ t[i + 1] \notin Digests
  BY DEF PinTexts, PinSeps
<1>2. \A c \in C : c \in Digests <=> c \notin PinSeps
  BY ProfileAssumption DEF PinSeps
<1> HIDE DEF C
<1>3. ws \in Seq(Seq(C)) /\ \E at, to : Segments(t, PinSeps, ws, at, to)
  BY <1>1, WordsSegmented
<1>4. PICK at, to : Segments(t, PinSeps, ws, at, to)
  BY <1>3
<1> HIDE DEF ws
<1>5. n \in Nat /\ \A i \in 1 .. n : t[i] \in C
  BY <1>1
<1>6. ASSUME NEW k \in 1 .. Len(ws)
      PROVE  at[k] \in 1 .. n /\ t[at[k]] \in Digests /\ ws[k] = <<t[at[k]]>>
  <2> DEFINE i == at[k]
             j == to[k]
  <2>1. Segment(t, PinSeps, ws[k], i, j)
    BY <1>4 DEF Segments
  <2> HIDE DEF i, j
  <2>2. /\ i \in 1 .. n /\ j \in i .. n
        /\ ws[k] = [m \in 1 .. (j - i) + 1 |-> t[(i + m) - 1]]
        /\ \A m \in i .. j : t[m] \notin PinSeps
    BY <2>1 DEF Segment, WordStarts
  <2>3. \A m \in i .. j : t[m] \in Digests
    BY <1>2, <1>5, <2>2
  <2>4. j = i
    <3> SUFFICES ASSUME j # i PROVE FALSE
      OBVIOUS
    <3>1. i \in i .. j /\ i + 1 \in i .. j /\ i \in 1 .. n - 1
      BY <1>5, <2>2
    <3> QED
      BY <1>1, <2>3, <3>1
  <2>5. (j - i) + 1 = 1 /\ (i + 1) - 1 = i /\ i \in i .. j
    BY <2>2, <2>4
  <2>6. ws[k] = [m \in 1 .. 1 |-> t[i]]
    BY <2>2, <2>5
  <2>7. ws[k] = <<t[i]>>
    <3>1. \A x : [m \in 1 .. 1 |-> x] = <<x>>
      OBVIOUS
    <3> QED
      BY <2>6, <3>1
  <2>8. t[i] \in Digests
    BY <2>3, <2>5
  <2> QED
    BY <2>2, <2>7, <2>8 DEF i
<1>7. ws \in Seq(PinWords)
  <2>1. \A k \in 1 .. Len(ws) : ws[k] \in PinWords
    BY <1>6 DEF PinWords
  <2> DEFINE A == Seq(C)
  <2>2. ws \in Seq(A)
    BY <1>3
  <2> HIDE DEF A
  <2> QED
    BY <2>1, <2>2
<1>8. DOMAIN t = 1 .. n /\ DOMAIN ws = 1 .. Len(ws)
  BY <1>1, <1>7
<1>9. ASSUME NEW k \in 1 .. Len(ws)
      PROVE  ws[k] \in {<<d>> : d \in Digests \cap ToSet(t)}
  BY <1>6, <1>8 DEF ToSet
<1>10. ASSUME NEW d \in Digests \cap ToSet(t)
       PROVE  \E k \in 1 .. Len(ws) : ws[k] = <<d>>
  <2>1. PICK i \in 1 .. n : t[i] = d
    BY <1>8 DEF ToSet
  <2>2. t[i] \notin PinSeps
    BY <1>2, <1>5, <2>1
  <2>3. i # 1 => t[i - 1] \in PinSeps
    <3> SUFFICES ASSUME i # 1 PROVE t[i - 1] \in PinSeps
      OBVIOUS
    <3>1. i - 1 \in 1 .. n - 1 /\ i - 1 \in 1 .. n /\ (i - 1) + 1 = i
      BY <1>5
    <3>2. t[i - 1] \notin Digests
      BY <1>1, <2>1, <3>1
    <3> QED
      BY <1>2, <1>5, <3>1, <3>2
  <2>4. i \in WordStarts(t, PinSeps)
    BY <2>2, <2>3 DEF WordStarts
  <2>5. PICK k \in 1 .. Len(ws) : at[k] = i
    BY <1>4, <2>4 DEF Segments
  <2> QED
    BY <1>6, <2>1, <2>5
<1>11. ToSet(ws) = {<<d>> : d \in Digests \cap ToSet(t)}
  BY <1>8, <1>9, <1>10 DEF ToSet
<1> QED
  BY <1>7, <1>11 DEF ws

PinArgs(ws) == [i \in DOMAIN ws |-> Option("--trusted-cert", ws[i])]
PinOptions(ws) == {<<"--trusted-cert", w>> : w \in ToSet(ws)}

LEMMA AddsPin ==
  ASSUME NEW w \in PinWords
  PROVE  /\ Adds(Option("--trusted-cert", w), {<<"--trusted-cert", w>>})
         /\ Option("--trusted-cert", w) \in Seq(ArgType)
<1> DEFINE name == "--trusted-cert"
           C    == Chars \cup Digests \cup {"false", "ppp0", "plugin.so"}
<1>1. name \in Valued \ {"--saml-login"}
  BY DEF Valued
<1>2. PICK d \in Digests : w = <<d>>
  BY DEF PinWords
<1>3. w \in Value
  <2>1. d \in C
    OBVIOUS
  <2> HIDE DEF C
  <2>2. w \in Seq(C) /\ w # <<>>
    BY <1>2, <2>1
  <2> QED
    BY <2>2, TextValue DEF C
<1>4. Adds(<<<<name>>, w>>, {<<name, w>>})
  <2> HIDE DEF name
  <2> QED
    BY <1>1, <1>3, AddsOption
<1>5. Option(name, w) = <<<<name>>, w>>
  BY <1>2 DEF Option
<1> QED
  BY <1>4, <1>5 DEF Adds

LEMMA AddsPins ==
  ASSUME NEW pins \in Seq(PinWords)
  PROVE  Adds(FlattenSeq(PinArgs(pins)), PinOptions(pins))
<1> DEFINE A == Seq(ArgType)
           S == {ws \in Seq(PinWords) : /\ PinArgs(ws) \in Seq(A)
                                        /\ Adds(FlattenSeq(PinArgs(ws)), PinOptions(ws))}
<1>1. <<>> \in S
  <2>1. PinArgs(<<>>) = <<>> /\ PinOptions(<<>>) = {} /\ <<>> \in Seq(PinWords)
    BY DEF PinArgs, PinOptions, ToSet
  <2> HIDE DEF A
  <2>2. <<>> \in Seq(A)
    OBVIOUS
  <2> QED
    BY <2>1, <2>2, FlattenEmpty, AddsNothing
<1>2. ASSUME NEW ws \in Seq(PinWords), NEW w \in PinWords, ws \in S
      PROVE  Append(ws, w) \in S
  <2> DEFINE more == Append(ws, w)
             o    == Option("--trusted-cert", w)
             args == PinArgs(ws)
  <2>1. args \in Seq(A) /\ Adds(FlattenSeq(args), PinOptions(ws))
    BY <1>2
  <2>2. o \in A /\ Adds(o, {<<"--trusted-cert", w>>})
    BY AddsPin
  <2>3. /\ more \in Seq(PinWords) /\ Len(ws) \in Nat
        /\ more = [i \in 1 .. Len(ws) + 1 |-> more[i]]
        /\ more[Len(ws) + 1] = w /\ \A i \in 1 .. Len(ws) : more[i] = ws[i]
    BY AppendParts
  <2> HIDE DEF A, more
  <2>4. DOMAIN ws = 1 .. Len(ws) /\ DOMAIN more = 1 .. Len(ws) + 1
    BY <2>3
  <2>5. PinArgs(more) = Append(args, o)
    <3> DEFINE two == Append(args, o)
    <3>1. Len(args) = Len(ws)
      BY <2>1, <2>4 DEF PinArgs
    <3>2. /\ two = [i \in 1 .. Len(args) + 1 |-> two[i]]
          /\ two[Len(args) + 1] = o /\ \A i \in 1 .. Len(args) : two[i] = args[i]
      <4> HIDE DEF args, o
      <4> QED
        BY <2>1, <2>2, AppendParts
    <3> HIDE DEF two
    <3>3. \A i \in 1 .. Len(ws) + 1 : i \in 1 .. Len(ws) \/ i = Len(ws) + 1
      BY <2>3
    <3>4. \A i \in 1 .. Len(ws) : args[i] = Option("--trusted-cert", ws[i])
      BY <2>4 DEF PinArgs
    <3>5. \A i \in 1 .. Len(ws) + 1 : two[i] = Option("--trusted-cert", more[i])
      BY <2>3, <3>1, <3>2, <3>3, <3>4
    <3>6. two = [i \in 1 .. Len(ws) + 1 |-> Option("--trusted-cert", more[i])]
      BY <3>1, <3>2, <3>5
    <3> QED
      BY <2>4, <3>6 DEF PinArgs, two
  <2>6. PinOptions(more) = PinOptions(ws) \cup {<<"--trusted-cert", w>>}
    <3>1. ToSet(more) = ToSet(ws) \cup {w}
      <4>1. \A i \in 1 .. Len(ws) + 1 : i \in 1 .. Len(ws) \/ i = Len(ws) + 1
        BY <2>3
      <4>2. \A i \in 1 .. Len(ws) : i \in 1 .. Len(ws) + 1
        BY <2>3
      <4>3. Len(ws) + 1 \in 1 .. Len(ws) + 1
        BY <2>3
      <4> QED
        BY <2>3, <2>4, <4>1, <4>2, <4>3 DEF ToSet
    <3> QED
      BY <3>1 DEF PinOptions
  <2> HIDE DEF args, o
  <2>7. /\ FlattenSeq(Append(args, o)) = FlattenSeq(args) \o o
        /\ Append(args, o) \in Seq(A)
    <3>1. FlattenSeq(Append(args, o)) = FlattenSeq(args) \o o
      BY <2>1, <2>2, FlattenAppend DEF A
    <3>2. Append(args, o) \in Seq(A)
      BY <2>1, <2>2
    <3> QED
      BY <3>1, <3>2
  <2>8. Adds(FlattenSeq(args) \o o, PinOptions(ws) \cup {<<"--trusted-cert", w>>})
    BY <2>1, <2>2, AddsBoth
  <2> QED
    BY <2>3, <2>5, <2>6, <2>7, <2>8 DEF more, o
<1>3. Seq(PinWords) \subseteq S
  <2> HIDE DEF S
  <2> QED
    BY <1>1, <1>2, TextInduction
<1> QED
  BY <1>3

CredentialOptions(r) ==
  IF r.auth = "saml" THEN {<<"--saml-login", <<>>>>}
  ELSE IF r.auth = "cookie" THEN {<<"--cookie-on-stdin", <<>>>>}
  ELSE (Given("--username", r.user) \cup Given("--password", r.password))
         \cup Given("--otp", r.otp)

(* The credential ends the options, perhaps with one that waits for a value. *)
LEMMA CredentialRead ==
  ASSUME NEW r \in ProfileType
  PROVE  /\ Credential(r) \in Seq(ArgType) /\ CredentialOptions(r) \in OptionSet
         /\ \E w \in Valued \cup {None} : \A o \in OptionSet :
              Drive(ReadMachine, Reading(o, None), Credential(r))
                = Reading(o \cup CredentialOptions(r), w)
<1>1. CASE r.auth = "saml"
  <2> DEFINE name == "--saml-login"
             one  == <<name>>
  <2>1. name \in Valued /\ name \in Options /\ name # None
    BY NoneApart, ProfileAssumption DEF Options, Valued
  <2>2. one \in ArgType /\ Head(one) = name
    BY <2>1, NameTyped
  <2>3. {<<name, <<>>>>} \in OptionSet /\ {} \in OptionSet
    <3>1. <<>> \in ArgType
      BY DEF ArgType
    <3> QED
      BY <2>1, <3>1, PairTyped DEF OptionSet
  <2> HIDE DEF one
  <2>4. ASSUME NEW o \in OptionSet
        PROVE  /\ <<one>> \in Seq(ArgType)
               /\ Drive(ReadMachine, Reading(o, None), <<one>>)
                    = Reading(o \cup {<<name, <<>>>>}, name)
    <3>1. ReadArgument(Reading(o, None), one) = Reading(o \cup {<<name, <<>>>>}, name)
      BY <2>1, <2>2 DEF ReadArgument, Reading
    <3> QED
      BY <2>2, <3>1, OneRead
  <2>5. Credential(r) = <<one>> /\ CredentialOptions(r) = {<<name, <<>>>>}
    BY <1>1 DEF Credential, CredentialOptions, one
  <2>6. <<one>> \in Seq(ArgType)
    BY <2>3, <2>4
  <2> HIDE DEF name
  <2> QED
    BY <2>1, <2>3, <2>4, <2>5, <2>6
<1>2. CASE r.auth # "saml"
  <2>1. Adds(Credential(r), CredentialOptions(r))
    <3>1. CASE r.auth = "cookie"
      <4>1. "--cookie-on-stdin" \in Switches
        BY DEF Switches
      <4>2. Adds(<<<<"--cookie-on-stdin">>>>, {<<"--cookie-on-stdin", <<>>>>})
        BY <4>1, AddsSwitch
      <4> QED
        BY <1>2, <3>1, <4>2 DEF Credential, CredentialOptions
    <3>2. CASE r.auth # "cookie"
      <4>1. /\ "--username" \in Valued \ {"--saml-login"}
            /\ "--password" \in Valued \ {"--saml-login"}
            /\ "--otp" \in Valued \ {"--saml-login"}
        BY DEF Valued
      <4>2. r.user \in Seq(Chars) /\ r.password \in Seq(Chars) /\ r.otp \in Seq(Chars)
        BY DEF ProfileType
      <4> DEFINE u == Option("--username", r.user)
                 p1 == Option("--password", r.password)
                 c == Option("--otp", r.otp)
                 uo == Given("--username", r.user)
                 po == Given("--password", r.password)
                 co == Given("--otp", r.otp)
      <4>3. Adds(u, uo) /\ Adds(p1, po) /\ Adds(c, co)
        BY <4>1, <4>2, AddsGiven
      <4>4. Credential(r) = (u \o p1) \o c /\ CredentialOptions(r) = (uo \cup po) \cup co
        BY <1>2, <3>2 DEF Credential, CredentialOptions
      <4> HIDE DEF u, p1, c, uo, po, co
      <4>5. Adds(u \o p1, uo \cup po)
        BY <4>3, AddsBoth
      <4>6. Adds((u \o p1) \o c, (uo \cup po) \cup co)
        BY <4>3, <4>5, AddsBoth
      <4> QED
        BY <4>4, <4>6
    <3> QED
      BY <3>1, <3>2
  <2> QED
    BY <2>1 DEF Adds
<1> QED
  BY <1>1, <1>2

SwitchOptions(r) == IF r.insecure THEN {<<"--insecure-ssl", <<>>>>} ELSE {}

LEMMA LaunchRead ==
  ASSUME NEW r \in ProfileType
  PROVE  Read(Arguments(r)).host = r.gateway /\ Read(Arguments(r)).options = Asks(r)
<1> DEFINE op == ReadMachine
           D  == [i \in DOMAIN Delegated |-> <<Delegated[i]>>]
           dO == {<<Delegated[i], <<Delegated[i + 1]>>>> : i \in {1, 3, 5, 7, 9}}
           P  == Option("--port", r.port)
           pO == Given("--port", r.port)
           F  == FlattenSeq([i \in DOMAIN Pins(r) |-> Option("--trusted-cert", Pins(r)[i])])
           fO == PinOptions(Pins(r))
           I  == IF r.insecure THEN <<<<"--insecure-ssl">>>> ELSE <<>>
           iO == SwitchOptions(r)
           K  == Credential(r)
           kO == CredentialOptions(r)
           H  == <<<<"--">>, r.gateway>>
           A  == ArgType
           R  == ReadType
<1>1. Adds(D, dO)
  BY AddsDelegated
<1>2. Adds(P, pO)
  <2>1. "--port" \in Valued \ {"--saml-login"} /\ r.port \in Seq(Chars)
    BY DEF Valued, ProfileType
  <2> QED
    BY <2>1, AddsGiven
<1>3. /\ Pins(r) \in Seq(PinWords)
      /\ ToSet(Pins(r)) = {<<d>> : d \in Digests \cap ToSet(r.pins)}
  <2>1. r.pins \in PinTexts
    BY DEF ProfileType
  <2> QED
    BY <2>1, PinsAreDigests DEF Pins, PinSeps
<1>4. Adds(F, fO)
  <2>1. F = FlattenSeq(PinArgs(Pins(r)))
    BY DEF PinArgs
  <2> HIDE DEF F
  <2> QED
    BY <1>3, <2>1, AddsPins
<1>5. Adds(I, iO)
  <2>1. "--insecure-ssl" \in Switches
    BY DEF Switches
  <2>2. Adds(<<<<"--insecure-ssl">>>>, {<<"--insecure-ssl", <<>>>>})
    BY <2>1, AddsSwitch
  <2> QED
    BY <2>2, AddsNothing DEF SwitchOptions
<1>6. K \in Seq(A) /\ kO \in OptionSet
  BY CredentialRead
<1>7. PICK w \in Valued \cup {None} : \A o \in OptionSet :
        Drive(op, Reading(o, None), K) = Reading(o \cup kO, w)
  BY CredentialRead
<1>8. /\ H \in Seq(A)
      /\ \A o \in OptionSet : Drive(op, Reading(o, w), H)
           = [options |-> o, host |-> r.gateway, wants |-> None, rest |-> TRUE]
  <2>1. r.gateway \in Seq(Chars \cup Options)
    BY DEF ProfileType
  <2>2. {} \in OptionSet
    BY DEF OptionSet
  <2> QED
    BY <2>1, <2>2, HostRead
<1>9. Arguments(r) = ((((D \o P) \o F) \o I) \o K) \o H
  BY DEF Arguments
<1>10. Asks(r) = (((dO \cup pO) \cup fO) \cup iO) \cup kO
  BY <1>3 DEF Asks, Given, PinOptions, SwitchOptions, CredentialOptions
<1>11. \A o \in OptionSet, v \in Valued \cup {None} : Reading(o, v) \in R
  BY ReadMachineType
<1>12. op \in Machines(A, R) /\ {} \in OptionSet
  BY ReadMachineType DEF OptionSet
<1>13. \A o, o2 \in OptionSet : o \cup o2 \in OptionSet
  BY DEF OptionSet
<1>14. None \in Valued \cup {None}
  OBVIOUS
<1> HIDE DEF D, P, F, I, K, H, dO, pO, fO, iO, kO, A, R, op
<1> DEFINE front == ((D \o P) \o F) \o I
           q     == ((dO \cup pO) \cup fO) \cup iO
<1>16. Adds(front, q)
  <2>1. Adds(D \o P, dO \cup pO)
    BY <1>1, <1>2, AddsBoth
  <2>2. Adds((D \o P) \o F, (dO \cup pO) \cup fO)
    BY <1>4, <2>1, AddsBoth
  <2> QED
    BY <1>5, <2>2, AddsBoth
<1> HIDE DEF front, q
<1>17. /\ front \in Seq(A) /\ q \in OptionSet
       /\ Drive(op, Reading({}, None), front) = Reading(q, None)
  <2>1. {} \cup q = q
    OBVIOUS
  <2> QED
    BY <1>12, <1>16, <2>1 DEF Adds, A, op
<1> DEFINE start == Reading({}, None)
<1>18. start \in R /\ Reading(q, None) \in R /\ Reading(q \cup kO, w) \in R
       /\ q \cup kO \in OptionSet
  BY <1>6, <1>11, <1>12, <1>13, <1>17
<1>19. front \o K \in Seq(A) /\ (front \o K) \o H \in Seq(A)
  BY <1>6, <1>8, <1>17
<1>20. Drive(op, start, front \o K) = Reading(q \cup kO, w)
  <2>1. Drive(op, start, front \o K) = Drive(op, Drive(op, start, front), K)
    BY <1>6, <1>12, <1>17, <1>18, DriveConcat
  <2> QED
    BY <1>7, <1>17, <2>1
<1>21. Drive(op, start, (front \o K) \o H)
         = [options |-> q \cup kO, host |-> r.gateway, wants |-> None, rest |-> TRUE]
  <2> DEFINE all == front \o K
  <2>1. all \in Seq(A)
    BY <1>19
  <2> HIDE DEF all, start
  <2>2. Drive(op, start, all \o H) = Drive(op, Drive(op, start, all), H)
    BY <1>8, <1>12, <1>18, <2>1, DriveConcat
  <2> QED
    BY <1>8, <1>18, <1>20, <2>2 DEF all
<1>22. Arguments(r) = (front \o K) \o H /\ Asks(r) = q \cup kO
  BY <1>9, <1>10 DEF front, q
<1>23. Read(Arguments(r)) = Drive(op, start, Arguments(r))
  <2>1. Arguments(r) \in Seq(ArgType)
    BY <1>19, <1>22 DEF A
  <2> QED
    BY <2>1, ReadDrive DEF op
<1> QED
  BY <1>21, <1>22, <1>23

------------------------------------------------------------------------------
(* For every profile, whoever wrote it, crosswire reads from its arguments *)
(* what the profile says and nothing else (map_connection).                *)
THEOREM ArgumentsCorrect == Spec => []ArgumentsAreRead
<1>1. ActiveInv => ArgumentsAreRead
  <2> SUFFICES ASSUME ActiveInv, applied # None
               PROVE  /\ Read(Launch(applied).args).host = applied.gateway
                      /\ Read(Launch(applied).args).options = Asks(applied)
    BY DEF ArgumentsAreRead
  <2>1. applied \in ProfileType
    BY DEF ActiveInv, Stored
  <2> QED
    BY <2>1, LaunchRead DEF Launch
<1> QED
  BY <1>1, ProfileInvariant, PTL

LEMMA OwnCredential ==
  ASSUME NEW r \in ProfileType, OwnAuth(r), Missing(r) = None
  PROVE  HasCredential(Launch(r))
<1> DEFINE options == Read(Launch(r).args).options
<1>1. options = Asks(r) /\ Launch(r).stdin = (IF r.auth = "cookie" THEN r.cookie ELSE <<>>)
  BY LaunchRead DEF Launch
<1>2. \/ r.auth = "saml"
      \/ r.auth = "cookie" /\ r.cookie # <<>>
      \/ r.auth = "password" /\ r.password # <<>>
  <2>1. None \notin Secret
    BY ProfileAssumption
  <2> QED
    BY <2>1 DEF OwnAuth, Missing, Secret
<1>3. CASE r.auth = "saml"
  BY <1>1, <1>3 DEF HasCredential, Asks
<1>4. CASE r.auth = "cookie" /\ r.cookie # <<>>
  BY <1>1, <1>4 DEF HasCredential, Asks
<1>5. CASE r.auth = "password" /\ r.password # <<>>
  <2> DEFINE o == <<"--password", r.password>>
  <2>1. o \in options
    BY <1>1, <1>5 DEF Asks
  <2>2. o[1] = "--password"
    OBVIOUS
  <2> HIDE DEF o, options
  <2>3. \E o2 \in options : o2[1] = "--password"
    BY <2>1, <2>2
  <2> QED
    BY <2>3 DEF HasCredential, options
<1> QED
  BY <1>2, <1>3, <1>4, <1>5

(* An activation ends by a launch. *)
LEMMA ConnectEnds ==
  ASSUME StoredInv, ActiveInv, [Next]_vars, applied # None, applied' = None
  PROVE  Connect
<1>1. ~SupplySecret
  BY SuppliedStored
<1>2. ~DialogCommit
  BY CommittedStored
<1>3. ~Activate
  BY DEF Activate
<1> QED
  BY <1>1, <1>2, <1>3 DEF Next, Import, Adopt, Editor, EditorOpen, EditorChange, EditorSave, NeedSecrets, Rotate,
    Dialog, DialogRead, DialogCancel, vars, profileVars, activation

(* No launch of a profile the editor or the importer wrote goes without a  *)
(* credential, whatever was typed under another authentication before      *)
(* (update_connection, map_connection).                                    *)
THEOREM OwnLaunched == Spec => OwnLaunchHasCredential
<1>1. ASSUME StoredInv, ActiveInv, [Next]_vars,
             applied # None, applied' = None, applied.own
      PROVE  HasCredential(Launch(applied))
  <2>1. Connect
    BY <1>1, ConnectEnds
  <2>2. applied \in ProfileType /\ OwnAuth(applied) /\ Missing(applied) = None
    BY <1>1, <2>1 DEF Connect, ActiveInv, Stored
  <2> QED
    BY <2>2, OwnCredential
<1>2. StoredInv /\ ActiveInv /\ CountInv /\ [Next]_vars
        => [applied # None /\ applied' = None /\ applied.own => HasCredential(Launch(applied))]_vars
  BY <1>1
<1> QED
  BY <1>2, ProfileInvariant, PTL DEF Spec, OwnLaunchHasCredential

(* A certificate that is trusted is the gateway's, and pinned wherever a   *)
(* launch can come from; and nothing is imported once there is a profile.  *)
TrustInv ==
  /\ trusted # None => /\ trusted = leaf
                       /\ profile # None /\ profile.pins = <<leaf>>
                       /\ applied # None => applied.pins = <<leaf>>
  /\ doc # None => profile = None /\ editor = None /\ applied = None /\ dialog = Closed
  /\ imported \notin {None, Failed} => doc # None

LEMMA TrustStep ==
  ASSUME StoredInv, ActiveInv, CountInv, TrustInv, [Next]_vars
  PROVE  TrustInv'
<1>1. CASE UNCHANGED vars
  BY <1>1 DEF vars, importVars, profileVars, TrustInv
<1>2. CASE Import
  BY <1>2 DEF Import, ImportStep, StartElement, Text, EndElement, Finish, Advance,
    profileVars, TrustInv
<1>3. CASE Adopt
  BY <1>3 DEF Adopt, TrustInv, activation, gateway, trust
<1>4. CASE EditorOpen \/ EditorChange \/ Rotate \/ DialogRead \/ DialogCancel \/ NeedSecrets
  BY <1>4 DEF EditorOpen, EditorChange, Rotate, DialogRead, DialogCancel, NeedSecrets,
    TrustInv, importVars, activation, gateway, trust, user, Closed
<1>5. CASE EditorSave
  BY <1>5 DEF EditorSave, TrustInv, importVars, activation, gateway
<1>6. CASE Activate
  BY <1>6 DEF Activate, TrustInv, importVars, user, gateway, trust
<1>7. CASE SupplySecret
  <2>1. applied # None /\ applied \in ProfileType /\ asked \in Secret
    BY <1>7, SuppliedStored DEF ActiveInv, Stored
  <2>2. applied'.pins = applied.pins
    BY <1>7, <2>1 DEF SupplySecret, ProfileType, Secret
  <2> QED
    BY <1>7, <2>1, <2>2 DEF SupplySecret, TrustInv, importVars, user, gateway, trust
<1>8. CASE Connect
  BY <1>8 DEF Connect, TrustInv, importVars, user, gateway
<1>9. CASE DialogCommit
  <2>1. dialog # Closed /\ profile' # None /\ applied' = profile'
    BY <1>9, CommittedStored DEF DialogCommit, Closed
  <2>2. profile'.pins = <<dialog.digest>>
    <3>1. dialog.read \in ProfileType
      BY <1>9 DEF DialogCommit, StoredInv, Stored
    <3> QED
      BY <1>9, <3>1 DEF DialogCommit, ProfileType
  <2> QED
    BY <1>9, <2>1, <2>2 DEF DialogCommit, TrustInv, importVars, gateway
<1> QED
  BY <1>1, <1>2, <1>3, <1>4, <1>5, <1>6, <1>7, <1>8, <1>9 DEF Next, Editor, Dialog

LEMMA TrustInvariant == Spec => []TrustInv
<1>1. Init => TrustInv
  BY DEF Init, ImportInit, TrustInv
<1> QED
  BY <1>1, TrustStep, ProfileInvariant, PTL DEF Spec

(* Whatever the user and the gateway do, a certificate the user has        *)
(* trusted is not put to him again, unless the gateway rotates it or an    *)
(* editor opened earlier is saved over it (trust_and_reconnect).           *)
THEOREM TrustKept == Spec => TrustIsNotAskedAgain
<1>1. ASSUME StoredInv, ActiveInv, CountInv, TrustInv, [Next]_vars,
             dialog = Closed, dialog' # Closed
      PROVE  trusted # dialog'.digest
  <2>1. Connect
    <3>1. dialog.digest = None /\ dialog.read = None
      BY <1>1 DEF Closed
    <3>2. dialog' # dialog
      BY <1>1
    <3> QED
      BY <1>1, <3>1, <3>2 DEF Next, Import, Adopt, Editor, EditorOpen, EditorChange, EditorSave,
        Activate, NeedSecrets, SupplySecret, Rotate, Dialog, DialogRead, DialogCommit,
        DialogCancel, vars, profileVars, trust
  <2>2. applied # None /\ applied \in ProfileType
    BY <1>1, <2>1 DEF Connect, ActiveInv, Stored
  <2> DEFINE options == Read(Launch(applied).args).options
  <2>3. options = Asks(applied)
    BY <2>2, LaunchRead DEF Launch
  <2>4. ~Accepts(options, leaf) /\ dialog'.digest = leaf
    BY <1>1, <2>1 DEF Connect, Closed
  <2>5. leaf \in Digests
    BY <1>1 DEF CountInv
  <2> SUFFICES ASSUME trusted = leaf PROVE FALSE
    BY <2>4
  <2>6. applied.pins = <<leaf>>
    BY <1>1, <2>2, <2>5, NoneApart DEF TrustInv
  <2>7. leaf \in Digests \cap ToSet(applied.pins)
    BY <2>5, <2>6 DEF ToSet
  <2>8. <<"--trusted-cert", <<leaf>>>> \in Asks(applied)
    BY <2>7 DEF Asks
  <2> QED
    BY <2>3, <2>4, <2>8 DEF Accepts
<1>2. StoredInv /\ ActiveInv /\ CountInv /\ TrustInv /\ [Next]_vars
        => [dialog = Closed /\ dialog' # Closed => trusted # dialog'.digest]_vars
  BY <1>1
<1> QED
  BY <1>2, ProfileInvariant, TrustInvariant, PTL DEF Spec, TrustIsNotAskedAgain

------------------------------------------------------------------------------
(* The import.  The callbacks are a machine driven by the events of the    *)
(* file; what it does to a leaf, to a connection, to a section and to the  *)
(* whole file is proved from the inside out, by induction over the leaves, *)
(* the connections and the sections.                                       *)
(* What the importer makes of an event. *)
Started(q, tag) ==
  CASE tag = "sslvpn" -> [q EXCEPT !.inSslvpn = TRUE]
    [] tag = "connection" /\ q.inSslvpn /\ ~q.done -> [q EXCEPT !.inConnection = TRUE]
    [] q.inConnection /\ tag \in Fields -> [q EXCEPT !.reading = tag, !.text = <<>>]
    [] OTHER -> q
Heard(q, c) == IF q.reading = None THEN q ELSE [q EXCEPT !.text = Append(@, c)]
Closing(q, tag) ==
  CASE tag = "connection" /\ q.inConnection ->
         [q EXCEPT !.inConnection = FALSE, !.done = @ \/ q.got["server"] # <<>>]
    [] tag = "sslvpn" -> [q EXCEPT !.inSslvpn = FALSE]
    [] OTHER -> q
Ended(q, tag) == Closing(Commit(q), tag)
Delivered(q, e) ==
  IF e.kind = "start" THEN Started(q, e.what)
  ELSE IF e.kind = "text" THEN Heard(q, e.what) ELSE Ended(q, e.what)
Importer == [e \in EventType |-> [q \in ParseType |-> Delivered(q, e)]]

LEMMA StartedTyped ==
  ASSUME NEW q \in ParseType, NEW tag
  PROVE  Started(q, tag) \in ParseType
<1>1. \/ Started(q, tag) = [q EXCEPT !.inSslvpn = TRUE]
      \/ Started(q, tag) = [q EXCEPT !.inConnection = TRUE]
      \/ tag \in Fields /\ Started(q, tag) = [q EXCEPT !.reading = tag, !.text = <<>>]
      \/ Started(q, tag) = q
  BY DEF Started
<1>2. <<>> \in Seq(Chars)
  OBVIOUS
<1> QED
  BY <1>1, <1>2 DEF ParseType

LEMMA HeardTyped ==
  ASSUME NEW q \in ParseType, NEW c \in Chars
  PROVE  Heard(q, c) \in ParseType
<1>1. q.text \in Seq(Chars)
  BY DEF ParseType
<1>2. Append(q.text, c) \in Seq(Chars)
  BY <1>1
<1> QED
  BY <1>2 DEF Heard, ParseType

LEMMA EndedTyped ==
  ASSUME NEW q \in ParseType, NEW tag
  PROVE  Ended(q, tag) \in ParseType
<1> DEFINE r == Commit(q)
<1>1. r \in ParseType
  BY CommitTyped
<1> HIDE DEF r
<1> DEFINE b == r.done \/ r.got["server"] # <<>>
<1>2. b \in BOOLEAN
  OBVIOUS
<1>3. \/ Closing(r, tag) = [r EXCEPT !.inConnection = FALSE, !.done = b]
      \/ Closing(r, tag) = [r EXCEPT !.inSslvpn = FALSE]
      \/ Closing(r, tag) = r
  BY <1>1 DEF Closing, ParseType
<1> HIDE DEF b
<1>4. Closing(r, tag) \in ParseType
  BY <1>1, <1>2, <1>3 DEF ParseType
<1> QED
  BY <1>4 DEF Ended, r

LEMMA ImporterType ==
  /\ Importer \in Machines(EventType, ParseType)
  /\ \A e \in EventType, q \in ParseType : Importer[e][q] = Delivered(q, e)
<1>1. ASSUME NEW e \in EventType, NEW q \in ParseType PROVE Delivered(q, e) \in ParseType
  <2>1. e.kind = "text" => e.what \in Chars
    BY DEF EventType
  <2> QED
    BY <2>1, StartedTyped, HeardTyped, EndedTyped DEF Delivered
<1> HIDE DEF EventType, ParseType
<1> QED
  BY <1>1 DEF Importer, Machines

(* The events of a step of the import, and their order. *)
LEMMA StepDelivers ==
  ASSUME ImportTyped, StartElement \/ Text \/ EndElement
  PROVE  /\ todo # <<>> /\ Advance
         /\ p' = Delivered(p, Head(todo))
<1>1. CASE StartElement
  BY <1>1 DEF StartElement, Due, Delivered, Started
<1>2. CASE Text
  BY <1>2 DEF Text, Due, Delivered, Heard
<1>3. CASE EndElement
  BY <1>3 DEF EndElement, Due, Delivered, Ended, Closing
<1> QED
  BY <1>1, <1>2, <1>3

(* What is delivered ends as the whole file read at once. *)
Whole(d) == IF d.fortinet THEN Events(d) ELSE <<>>
ReadInv ==
  /\ doc # None => Drive(Importer, p, todo) = Drive(Importer, Fresh, Whole(doc))
  /\ imported # None =>
       /\ doc # None /\ todo = <<>>
       /\ imported = IF doc.fortinet /\ doc.whole /\ p.got["server"] # <<>>
                     THEN Yield(p.got, p.sso) ELSE Failed

LEMMA ReadStep ==
  ASSUME StoredInv, TrustInv, ReadInv, [Next]_vars
  PROVE  ReadInv'
<1>1. CASE StartElement \/ Text \/ EndElement
  <2>1. todo # <<>> /\ Advance /\ p' = Delivered(p, Head(todo))
    BY <1>1, StepDelivers DEF StoredInv
  <2>2. /\ Importer \in Machines(EventType, ParseType) /\ p \in ParseType /\ todo \in Seq(EventType)
        /\ Head(todo) \in EventType
    BY <2>1, ImporterType, HeadTyped DEF StoredInv, ImportTyped
  <2>3. Importer[Head(todo)][p] = p'
    BY <2>1, <2>2, ImporterType
  <2>4. Drive(Importer, p, todo) = Drive(Importer, p', todo')
    BY <2>1, <2>2, <2>3, DriveHead DEF Advance
  <2> QED
    BY <2>1, <2>4 DEF ReadInv, Advance
<1>2. CASE Finish
  BY <1>2 DEF Finish, ReadInv
<1>3. CASE Adopt
  BY <1>3 DEF Adopt, ReadInv
<1>4. CASE UNCHANGED importVars
  BY <1>4 DEF importVars, ReadInv
<1> QED
  BY <1>1, <1>2, <1>3, <1>4 DEF Next, Import, ImportStep, Editor, EditorOpen, EditorChange,
    EditorSave, Activate, NeedSecrets, SupplySecret, Connect, Rotate, Dialog, DialogRead,
    DialogCommit, DialogCancel, vars

LEMMA ReadInvariant == Spec => []ReadInv
<1>1. Init => ReadInv
  BY DEF Init, ImportInit, ReadInv, Whole
<1> QED
  BY <1>1, ReadStep, ProfileInvariant, TrustInvariant, PTL DEF Spec

(* Reading an element: its start, what is in it, its end. *)
LEMMA ElementRead ==
  ASSUME NEW q \in ParseType, NEW tag \in TagType, NEW inner \in Seq(EventType)
  PROVE  /\ Drive(Importer, Started(q, tag), inner) \in ParseType
         /\ Drive(Importer, q, Element(tag, inner))
              = Ended(Drive(Importer, Started(q, tag), inner), tag)
<1> DEFINE C  == EventType
           A  == ParseType
           s  == Event("start", tag)
           e  == Event("end", tag)
           q1 == Started(q, tag)
           q2 == Drive(Importer, q1, inner)
           first == <<s>>
           last  == <<e>>
<1>1. s \in C /\ e \in C /\ s.kind = "start" /\ s.what = tag /\ e.kind = "end" /\ e.what = tag
  BY DEF Event, EventType
<1>2. Importer \in Machines(C, A) /\ q1 \in A
  BY ImporterType, StartedTyped
<1>3. Importer[s][q] = q1
  BY <1>1, ImporterType DEF Delivered
<1>4. q2 \in A
  <2>1. \E g \in [0 .. Len(inner) -> A] : q2 = g[Len(inner)]
    <3> HIDE DEF C, A, q1
    <3>1. inner \in Seq(C) /\ q1 \in A
      BY <1>2 DEF C
    <3> QED
      BY <1>2, <3>1, DriveTrace
  <2>2. Len(inner) \in 0 .. Len(inner)
    <3> HIDE DEF C
    <3>1. inner \in Seq(C)
      BY DEF C
    <3> QED
      BY <3>1
  <2> QED
    BY <2>1, <2>2
<1>5. Importer[e][q2] = Ended(q2, tag)
  BY <1>1, <1>4, ImporterType DEF Delivered
<1>6. inner \in Seq(C) /\ q \in A
  OBVIOUS
<1> HIDE DEF C, A, s, e, q1
<1>7. first \in Seq(C) /\ Drive(Importer, q, first) = Importer[s][q]
  BY <1>1, <1>2, <1>6, DriveOne
<1>8. last \in Seq(C) /\ Drive(Importer, q2, last) = Importer[e][q2]
  BY <1>1, <1>2, <1>4, DriveOne
<1> HIDE DEF first, last, q2
<1>10. Drive(Importer, q, first \o inner) = q2
  BY <1>2, <1>3, <1>6, <1>7, DriveConcat DEF q2
<1> DEFINE front == first \o inner
<1>9. front \in Seq(C)
  BY <1>6, <1>7
<1> HIDE DEF front
<1>11. Drive(Importer, q, front \o last) = Drive(Importer, Drive(Importer, q, front), last)
  BY <1>2, <1>6, <1>8, <1>9, DriveConcat
<1>12. Element(tag, inner) = front \o last
  BY DEF Element, front, first, last, s, e
<1> QED
  BY <1>4, <1>5, <1>8, <1>10, <1>11, <1>12 DEF front, A, q2, q1

(* The text of a leaf that is not being read, and of one that is. *)
TextEvents(chunks) == [i \in DOMAIN chunks |-> Event("text", chunks[i])]

LEMMA TextsTyped ==
  /\ TextEvents(<<>>) = <<>>
  /\ \A chunks \in Seq(Chars) : TextEvents(chunks) \in Seq(EventType)
  /\ \A chunks \in Seq(Chars), c \in Chars :
       TextEvents(Append(chunks, c)) = Append(TextEvents(chunks), Event("text", c))
<1>1. TextEvents(<<>>) = <<>>
  BY DEF TextEvents
<1> DEFINE op == [c \in Chars |-> Event("text", c)]
           C  == EventType
<1>2. \A c \in Chars : op[c] = Event("text", c) /\ op[c] \in C
  BY DEF Event, EventType
<1>3. op \in Mappings(Chars, C)
  BY <1>2 DEF Mappings
<1>4. ASSUME NEW chunks \in Seq(Chars) PROVE TextEvents(chunks) = Parts(op, chunks)
  BY <1>2 DEF TextEvents, Parts
<1> HIDE DEF op, C
<1>5. ASSUME NEW chunks \in Seq(Chars), NEW c \in Chars
      PROVE  /\ TextEvents(chunks) \in Seq(C)
             /\ TextEvents(Append(chunks, c)) = Append(TextEvents(chunks), Event("text", c))
  <2>1. Append(chunks, c) \in Seq(Chars)
    OBVIOUS
  <2>2. Parts(op, chunks) \in Seq(C) /\ Parts(op, Append(chunks, c)) = Append(Parts(op, chunks), op[c])
    BY <1>3, PartsAppend
  <2> QED
    BY <1>2, <1>4, <2>1, <2>2
<1>6. ASSUME NEW chunks \in Seq(Chars) PROVE TextEvents(chunks) \in Seq(C)
  <2>1. Blank \in Chars
    BY ImportAssumption
  <2> QED
    BY <1>5, <2>1
<1> QED
  BY <1>1, <1>5, <1>6 DEF C

LEMMA TextsRead ==
  ASSUME NEW q \in ParseType, NEW chunks \in Seq(Chars),
         q.reading # None => q.text = <<>>
  PROVE  Drive(Importer, q, TextEvents(chunks))
           = IF q.reading = None THEN q ELSE [q EXCEPT !.text = chunks]
<1> DEFINE C == EventType
           A == ParseType
           After1(t) == IF q.reading = None THEN q ELSE [q EXCEPT !.text = t]
           S == {t \in Seq(Chars) : Drive(Importer, q, TextEvents(t)) = After1(t)}
<1>1. Importer \in Machines(C, A)
  BY ImporterType
<1>2. <<>> \in S
  <2>1. After1(<<>>) = q
    BY DEF ParseType
  <2> HIDE DEF After1, A, C
  <2>2. Drive(Importer, q, <<>>) = q
    BY <1>1, DriveEmpty DEF A
  <2> QED
    BY <2>1, <2>2, TextsTyped
<1>3. ASSUME NEW t \in Seq(Chars), NEW c \in Chars, t \in S
      PROVE  Append(t, c) \in S
  <2> DEFINE e    == Event("text", c)
             sofar == TextEvents(t)
  <2>1. e \in C /\ e.kind = "text" /\ e.what = c
    BY DEF Event, EventType
  <2>2. sofar \in Seq(C) /\ TextEvents(Append(t, c)) = Append(sofar, e) /\ Append(t, c) \in Seq(Chars)
    BY TextsTyped
  <2>3. Drive(Importer, q, sofar) = After1(t)
    BY <1>3
  <2>4. After1(t) \in A
    BY DEF ParseType
  <2>5. Importer[e][After1(t)] = Delivered(After1(t), e)
    BY <2>1, <2>4, ImporterType
  <2>6. Delivered(After1(t), e) = After1(Append(t, c))
    BY <2>1 DEF Delivered, Heard, ParseType
  <2> HIDE DEF e, sofar, C, A, After1
  <2>7. Drive(Importer, q, Append(sofar, e)) = Importer[e][Drive(Importer, q, sofar)]
    BY <1>1, <2>1, <2>2, DriveAppend DEF A
  <2> QED
    BY <2>2, <2>3, <2>5, <2>6, <2>7 DEF After1, sofar, e
<1>4. Seq(Chars) \subseteq S
  <2> HIDE DEF S
  <2> QED
    BY <1>2, <1>3, TextInduction
<1> QED
  BY <1>4

Truth(val) == val \in {<<t>> : t \in Truths}

(* Between leaves nothing is being read. *)
Idle(q, r) ==
  /\ r \in ParseType /\ r.reading = None
  /\ r.inSslvpn = q.inSslvpn /\ r.inConnection = q.inConnection /\ r.done = q.done

LEMMA LeafRead ==
  ASSUME NEW q \in ParseType, q.reading = None, NEW l \in LeafType,
         NEW r, r = Drive(Importer, q, LeafEvents(l))
  PROVE  /\ Idle(q, r)
         /\ ~q.inConnection => r = q
         /\ q.inConnection =>
              /\ \A f \in Kept : r.got[f] = IF l.tag = f THEN Strip(l.chunks) ELSE q.got[f]
              /\ r.sso = IF l.tag = "sso_enabled" THEN Truth(Strip(l.chunks)) ELSE q.sso
<1> DEFINE tag    == l.tag
           chunks == l.chunks
           inner  == TextEvents(chunks)
           q1     == Started(q, tag)
           q2     == Drive(Importer, q1, inner)
<1>1. /\ tag \in STRING /\ tag \notin {"connection", "sslvpn"} /\ chunks \in Seq(Chars)
      /\ tag \in TagType
  BY DEF LeafType, TagType
<1>2. LeafEvents(l) = Element(tag, inner)
  BY DEF LeafEvents, TextEvents
<1>3. inner \in Seq(EventType)
  BY <1>1, TextsTyped
<1>4. r = Ended(q2, tag)
  <2> HIDE DEF tag, inner
  <2> QED
    BY <1>1, <1>2, <1>3, ElementRead DEF q2, q1
<1>5. q1 \in ParseType /\ None \notin Fields
  BY StartedTyped, ImportAssumption
<1>6. ASSUME NEW q3 PROVE Closing(q3, tag) = q3
  BY <1>1 DEF Closing
<1>7. CASE ~(q.inConnection /\ tag \in Fields)
  <2>1. q1 = q
    BY <1>1, <1>7 DEF Started
  <2>2. q2 = q
    BY <1>1, <2>1, TextsRead
  <2>3. r = q
    <3>1. Commit(q) = q
      BY <1>5 DEF Commit, Fields
    <3> HIDE DEF tag, q2
    <3> QED
      BY <1>4, <1>6, <2>2, <3>1 DEF Ended
  <2> HIDE DEF tag
  <2>4. q.inConnection => \A f \in Kept : tag # f
    BY <1>7 DEF Fields
  <2>5. q.inConnection => tag # "sso_enabled"
    BY <1>7 DEF Fields
  <2> QED
    BY <2>3, <2>4, <2>5 DEF Idle, tag
<1>8. CASE q.inConnection /\ tag \in Fields
  <2>1. q1 = [q EXCEPT !.reading = tag, !.text = <<>>]
    BY <1>1, <1>8 DEF Started
  <2>2. q1.text = <<>> /\ q1.reading = tag /\ tag # None
    BY <1>5, <1>8, <2>1 DEF ParseType
  <2>3. q2 = [q1 EXCEPT !.text = chunks]
    BY <1>1, <1>5, <2>2, TextsRead
  <2>4. q2 = [q EXCEPT !.reading = tag, !.text = chunks]
    BY <2>1, <2>3 DEF ParseType
  <2> DEFINE val == Strip(chunks)
  <2>5. r = Commit(q2)
    BY <1>4, <1>6 DEF Ended
  <2> HIDE DEF tag, chunks, q2
  <2>6. q2.reading = tag /\ q2.text = chunks
    BY <2>4 DEF ParseType
  <2>7. CASE tag \in Kept
    <3>1. r = [q2 EXCEPT !.got[tag] = val, !.reading = None]
      BY <2>2, <2>5, <2>6, <2>7 DEF Commit
    <3>2. val \in Seq(Chars) /\ tag # "sso_enabled"
      BY <1>1, <2>7, StripTyped DEF Kept
    <3> HIDE DEF val
    <3>3. /\ r.reading = None /\ r.sso = q.sso /\ r.inSslvpn = q.inSslvpn
          /\ r.inConnection = q.inConnection /\ r.done = q.done
          /\ r.got = [q.got EXCEPT ![tag] = val]
      BY <2>4, <3>1 DEF ParseType
    <3>4. q.got \in [Kept -> Seq(Chars)]
      BY DEF ParseType
    <3>5. \A f \in Kept : r.got[f] = IF tag = f THEN val ELSE q.got[f]
      BY <3>3, <3>4
    <3>6. q2 \in ParseType
      BY <1>1, <1>8, <2>4 DEF ParseType
    <3>7. r \in ParseType
      BY <2>5, <3>6, CommitTyped
    <3> QED
      BY <1>8, <3>2, <3>3, <3>5, <3>7 DEF Idle, val, tag, chunks
  <2>8. CASE tag \notin Kept
    <3> DEFINE b == Truth(val)
    <3>1. r = [q2 EXCEPT !.sso = b, !.reading = None]
      BY <2>2, <2>5, <2>6, <2>8 DEF Commit, Truth
    <3>2. b \in BOOLEAN /\ tag = "sso_enabled"
      BY <1>8, <2>8 DEF Fields, Truth
    <3> HIDE DEF b, val
    <3>3. /\ r.reading = None /\ r.sso = b /\ r.inSslvpn = q.inSslvpn
          /\ r.inConnection = q.inConnection /\ r.done = q.done /\ r.got = q.got
      BY <2>4, <3>1 DEF ParseType
    <3>4. r \in ParseType
      BY <1>1, <2>4, <3>1, <3>2 DEF ParseType
    <3>5. \A f \in Kept : f # tag
      BY <2>8
    <3> QED
      BY <1>8, <3>2, <3>3, <3>4, <3>5 DEF Idle, b, val, tag, chunks
  <2> QED
    BY <2>7, <2>8
<1> QED
  BY <1>7, <1>8

(* A connection is what its leaves say. *)
Filled(q, c) ==
  /\ \A f \in Kept : q.got[f] = Said(c, f)
  /\ q.sso = Truth(Said(c, "sso_enabled"))

LEMMA SaidEmpty == \A f : Said(<<>>, f) = <<>>
BY DEF Said

LEMMA SaidAppend ==
  ASSUME NEW c \in Seq(LeafType), NEW l \in LeafType, NEW f
  PROVE  Said(Append(c, l), f) = IF l.tag = f THEN Strip(l.chunks) ELSE Said(c, f)
<1> DEFINE more == Append(c, l)
           n    == Len(c)
           at   == {i \in 1 .. n : c[i].tag = f}
           two  == {i \in 1 .. n + 1 : more[i].tag = f}
<1>1. /\ n \in Nat /\ DOMAIN c = 1 .. n /\ DOMAIN more = 1 .. n + 1
      /\ more[n + 1] = l /\ \A i \in 1 .. n : more[i] = c[i]
  OBVIOUS
<1>2. /\ Said(c, f) = IF at = {} THEN <<>> ELSE Strip(c[Max(at)].chunks)
      /\ Said(more, f) = IF two = {} THEN <<>> ELSE Strip(more[Max(two)].chunks)
  <2> HIDE DEF more, n
  <2> QED
    BY <1>1 DEF Said
<1> HIDE DEF more, n
<1>3. two \subseteq 0 .. n + 1 /\ n + 1 \in Nat /\ at \subseteq 0 .. n
  BY <1>1
<1>4. CASE l.tag = f
  <2>1. n + 1 \in two
    BY <1>1, <1>4
  <2>2. Max(two) \in two /\ \A i \in two : i <= Max(two)
    <3> HIDE DEF two
    <3> QED
      BY <1>3, <2>1, Greatest
  <2>3. Max(two) = n + 1
    BY <1>1, <2>1, <2>2
  <2> QED
    BY <1>1, <1>2, <1>4, <2>1, <2>3 DEF more
<1>5. CASE l.tag # f
  <2>1. two = at
    BY <1>1, <1>5
  <2>2. CASE at = {}
    BY <1>2, <1>5, <2>1, <2>2 DEF more
  <2>3. CASE at # {}
    <3>1. Max(at) \in at
      <4> HIDE DEF at
      <4> QED
        BY <1>1, <1>3, <2>3, Greatest
    <3>2. more[Max(at)] = c[Max(at)]
      BY <1>1, <3>1
    <3> QED
      BY <1>2, <1>5, <2>1, <2>3, <3>2 DEF more
  <2> QED
    BY <2>2, <2>3
<1> QED
  BY <1>4, <1>5

LeafMap == [l \in LeafType |-> LeafEvents(l)]

LEMMA LeafMapType ==
  /\ LeafMap \in Mappings(LeafType, Seq(EventType))
  /\ \A l \in LeafType : LeafMap[l] = LeafEvents(l)
  /\ \A c \in Seq(LeafType) : MapSeq(LeafEvents, c) = Spread(LeafMap, c)
<1>1. ASSUME NEW l \in LeafType PROVE LeafEvents(l) \in Seq(EventType)
  BY LeafTyped
<1>2. LeafMap \in Mappings(LeafType, Seq(EventType)) /\ \A l \in LeafType : LeafMap[l] = LeafEvents(l)
  BY <1>1 DEF LeafMap, Mappings
<1>3. ASSUME NEW c \in Seq(LeafType)
      PROVE  MapSeq(LeafEvents, c) = Spread(LeafMap, c)
  <2>1. \A i \in DOMAIN c : c[i] \in LeafType
    OBVIOUS
  <2>2. [i \in DOMAIN c |-> LeafEvents(c[i])] = Parts(LeafMap, c)
    BY <1>2, <2>1 DEF Parts
  <2> QED
    BY <2>2 DEF MapSeq, Spread
<1> QED
  BY <1>2, <1>3

LEMMA LeavesRead ==
  ASSUME NEW q \in ParseType, q.reading = None, NEW c \in Seq(LeafType),
         NEW r, r = Drive(Importer, q, MapSeq(LeafEvents, c))
  PROVE  /\ Idle(q, r)
         /\ ~q.inConnection => r = q
         /\ q.inConnection /\ Filled(q, <<>>) => Filled(r, c)
<1> DEFINE Reached(x) == Drive(Importer, q, Spread(LeafMap, x))
           Fits(x) == /\ Idle(q, Reached(x))
                      /\ ~q.inConnection => Reached(x) = q
                      /\ q.inConnection /\ Filled(q, <<>>) => Filled(Reached(x), x)
           S == {x \in Seq(LeafType) : Fits(x)}
           C == EventType
           A == ParseType
<1>1. Importer \in Machines(C, A) /\ q \in A
  BY ImporterType
<1>2. <<>> \in S
  <2>1. Reached(<<>>) = q
    <3> HIDE DEF C, A
    <3> QED
      BY <1>1, SpreadEmpty, DriveEmpty
  <2> HIDE DEF Reached
  <2> QED
    BY <2>1 DEF Idle
<1>3. ASSUME NEW x \in Seq(LeafType), NEW l \in LeafType, x \in S
      PROVE  Append(x, l) \in S
  <2> DEFINE more == Append(x, l)
             text == Spread(LeafMap, x)
             rest == LeafEvents(l)
             q1   == Reached(x)
  <2>1. /\ text \in Seq(C) /\ rest \in Seq(C)
        /\ Spread(LeafMap, more) = text \o rest
    <3> HIDE DEF C
    <3>1. LeafMap \in Mappings(LeafType, Seq(C))
      BY LeafMapType DEF C
    <3>2. LeafMap[l] = rest
      BY LeafMapType
    <3>3. /\ Spread(LeafMap, x) \in Seq(C) /\ LeafMap[l] \in Seq(C)
          /\ Spread(LeafMap, Append(x, l)) = Spread(LeafMap, x) \o LeafMap[l]
      BY ONLY <3>1, SpreadAppend, x \in Seq(LeafType), l \in LeafType
    <3> QED
      BY <3>2, <3>3
  <2>2. Reached(more) = Drive(Importer, Reached(x), rest)
    <3> HIDE DEF C, A, text, rest, more
    <3> QED
      BY <1>1, <2>1, DriveConcat DEF text
  <2>3. Fits(x)
    BY <1>3
  <2>4. q1 \in ParseType /\ q1.reading = None
    BY <2>3 DEF Idle
  <2> HIDE DEF rest, more, q1
  <2>5. Reached(more) = Drive(Importer, q1, LeafEvents(l))
    BY <2>2 DEF q1, rest
  <2> HIDE DEF Reached
  <2>6. /\ Idle(q1, Reached(more))
        /\ ~q1.inConnection => Reached(more) = q1
        /\ q1.inConnection =>
             /\ \A f \in Kept : Reached(more).got[f] = IF l.tag = f THEN Strip(l.chunks) ELSE q1.got[f]
             /\ Reached(more).sso = IF l.tag = "sso_enabled" THEN Truth(Strip(l.chunks)) ELSE q1.sso
    BY <2>4, <2>5, LeafRead
  <2>7. Idle(q, q1) /\ (~q.inConnection => q1 = q) /\ (q.inConnection /\ Filled(q, <<>>) => Filled(q1, x))
    BY <2>3 DEF q1
  <2>8. Idle(q, Reached(more)) /\ (~q.inConnection => Reached(more) = q)
    BY <2>6, <2>7 DEF Idle
  <2>9. ASSUME q.inConnection, Filled(q, <<>>) PROVE Filled(Reached(more), more)
    <3>1. \A f : Said(more, f) = IF l.tag = f THEN Strip(l.chunks) ELSE Said(x, f)
      BY SaidAppend DEF more
    <3>2. q1.inConnection /\ Filled(q1, x)
      BY <2>7, <2>9 DEF Idle
    <3> QED
      BY <2>6, <3>1, <3>2 DEF Filled
  <2>10. more \in Seq(LeafType)
    BY DEF more
  <2> QED
    BY <2>8, <2>9, <2>10 DEF more
<1>4. Seq(LeafType) \subseteq S
  <2> HIDE DEF S
  <2> QED
    BY <1>2, <1>3, TextInduction
<1>5. Fits(c)
  BY <1>4
<1>6. r = Reached(c)
  BY LeafMapType
<1> QED
  BY <1>5, <1>6

LEMMA ConnectionRead ==
  ASSUME NEW q \in ParseType, q.reading = None, ~q.inConnection, NEW c \in Seq(LeafType),
         NEW r, r = Drive(Importer, q, ConnectionEvents(c))
  PROVE  /\ ~(q.inSslvpn /\ ~q.done) => r = q
         /\ q.inSslvpn /\ ~q.done /\ Filled(q, <<>>) =>
              /\ r \in ParseType /\ r.reading = None /\ ~r.inConnection
              /\ r.inSslvpn /\ (r.done <=> Usable(c)) /\ Filled(r, c)
<1> DEFINE tag   == "connection"
           inner == MapSeq(LeafEvents, c)
           q1    == Started(q, tag)
           q2    == Drive(Importer, q1, inner)
<1>1. tag \in TagType /\ ConnectionEvents(c) = Element(tag, inner)
  BY DEF TagType, ConnectionEvents
<1>2. inner \in Seq(EventType)
  <2>1. LeafMap \in Mappings(LeafType, Seq(EventType)) /\ inner = Spread(LeafMap, c)
    BY LeafMapType
  <2> HIDE DEF inner
  <2> QED
    BY <2>1, SpreadTyped
<1>3. q1 \in ParseType
  BY StartedTyped
<1>4. r = Ended(q2, tag)
  <2> HIDE DEF tag, inner
  <2> QED
    BY <1>1, <1>2, ElementRead DEF q1, q2
<1>5. q1 = IF q.inSslvpn /\ ~q.done THEN [q EXCEPT !.inConnection = TRUE] ELSE q
  BY DEF Started
<1>6. q1.reading = None
  BY <1>5 DEF ParseType
<1>7. /\ Idle(q1, q2) /\ (~q1.inConnection => q2 = q1)
      /\ q1.inConnection /\ Filled(q1, <<>>) => Filled(q2, c)
  BY <1>3, <1>6, LeavesRead
<1> HIDE DEF q2, inner
<1>8. Commit(q2) = q2
  BY <1>7, ImportAssumption DEF Commit, Idle, Fields
<1>9. r = IF q2.inConnection
          THEN [q2 EXCEPT !.inConnection = FALSE, !.done = @ \/ q2.got["server"] # <<>>] ELSE q2
  BY <1>4, <1>8 DEF Ended, Closing
<1>10. CASE ~(q.inSslvpn /\ ~q.done)
  BY <1>5, <1>7, <1>9, <1>10
<1>11. CASE q.inSslvpn /\ ~q.done
  <2>1. /\ q1.inConnection /\ q1.inSslvpn /\ ~q1.done /\ q1.got = q.got /\ q1.sso = q.sso
    BY <1>5, <1>11 DEF ParseType
  <2>2. q2 \in ParseType /\ q2.reading = None /\ q2.inConnection /\ q2.inSslvpn /\ ~q2.done
    BY <1>7, <2>1 DEF Idle
  <2> DEFINE b == q2.got["server"] # <<>>
  <2>3. r = [q2 EXCEPT !.inConnection = FALSE, !.done = b]
    BY <1>9, <2>2
  <2>4. b \in BOOLEAN
    OBVIOUS
  <2>5. Filled(q, <<>>) => Filled(q2, c)
    BY <1>7, <2>1 DEF Filled
  <2>6. Filled(q, <<>>) => (b <=> Usable(c))
    BY <2>5 DEF Filled, Usable, Kept
  <2> HIDE DEF b
  <2>7. /\ r \in ParseType /\ r.reading = None /\ ~r.inConnection /\ r.inSslvpn
        /\ r.done = b /\ r.got = q2.got /\ r.sso = q2.sso
    BY <2>2, <2>3, <2>4 DEF ParseType
  <2> QED
    BY <1>11, <2>5, <2>6, <2>7 DEF Filled
<1> QED
  BY <1>10, <1>11

ConnectionType == Seq(LeafType)

(* What has been taken from the connections read so far. *)
HasUsable(cs) == \E i \in DOMAIN cs : Usable(cs[i])
FirstOf(cs)   == cs[Min({i \in DOMAIN cs : Usable(cs[i])})]
Taken(cs)     == IF HasUsable(cs) THEN FirstOf(cs) ELSE <<>>
Unskipped(cs) == \A i \in DOMAIN cs : (\A j \in 1 .. i : ~Usable(cs[j])) => cs[i] = <<>>
Matches(q, cs) ==
  /\ q \in ParseType /\ q.reading = None /\ ~q.inConnection
  /\ q.done <=> HasUsable(cs)
  /\ Filled(q, Taken(cs))

LEMMA UsableAppend ==
  ASSUME NEW C, NEW cs \in Seq(C), NEW c \in C
  PROVE  /\ HasUsable(Append(cs, c)) <=> HasUsable(cs) \/ Usable(c)
         /\ Taken(Append(cs, c)) = IF HasUsable(cs) THEN Taken(cs)
                                   ELSE IF Usable(c) THEN c ELSE <<>>
         /\ Unskipped(Append(cs, c)) =>
              Unskipped(cs) /\ (~HasUsable(cs) /\ ~Usable(c) => c = <<>>)
<1> DEFINE more == Append(cs, c)
           n    == Len(cs)
           S    == {i \in 1 .. n : Usable(cs[i])}
           T    == {i \in 1 .. n + 1 : Usable(more[i])}
<1>1. /\ n \in Nat /\ DOMAIN cs = 1 .. n /\ DOMAIN more = 1 .. n + 1
      /\ more[n + 1] = c /\ \A i \in 1 .. n : more[i] = cs[i]
  OBVIOUS
<1> HIDE DEF more, n
<1>2. \A i \in 1 .. n + 1 : i \in 1 .. n \/ i = n + 1
  BY <1>1
<1>3. n + 1 \in 1 .. n + 1 /\ \A i \in 1 .. n : i \in 1 .. n + 1
  BY <1>1
<1>4. HasUsable(more) <=> HasUsable(cs) \/ Usable(c)
  BY <1>1, <1>2, <1>3 DEF HasUsable
<1>5. T = IF Usable(c) THEN S \cup {n + 1} ELSE S
  BY <1>1, <1>2, <1>3
<1>6. FirstOf(cs) = cs[Min(S)] /\ FirstOf(more) = more[Min(T)]
  BY <1>1 DEF FirstOf
<1>7. (HasUsable(cs) <=> S # {}) /\ S \subseteq Nat /\ T \subseteq Nat /\ S \subseteq 1 .. n
  BY <1>1 DEF HasUsable
<1>8. ASSUME HasUsable(cs) PROVE FirstOf(more) = FirstOf(cs)
  <2> HIDE DEF S, T
  <2>1. Min(S) \in S /\ \A i \in S : Min(S) <= i
    BY <1>7, <1>8, Least
  <2>2. T # {} /\ S \subseteq T
    BY <1>5, <1>7, <1>8
  <2>3. Min(T) \in T /\ \A i \in T : Min(T) <= i
    BY <1>7, <2>2, Least
  <2>4. Min(T) <= Min(S) /\ Min(S) \in 1 .. n /\ Min(T) \in Nat
    BY <1>7, <2>1, <2>2, <2>3
  <2>5. Min(T) \in S
    BY <1>1, <1>5, <2>3, <2>4
  <2>6. Min(T) = Min(S)
    BY <2>1, <2>4, <2>5
  <2> QED
    BY <1>1, <1>6, <2>4, <2>6
<1>9. ASSUME ~HasUsable(cs), Usable(c) PROVE FirstOf(more) = c
  <2>1. T = {n + 1}
    BY <1>5, <1>7, <1>9
  <2>2. Min(T) \in T
    <3> HIDE DEF T
    <3> QED
      BY <1>7, <2>1, Least
  <2> QED
    BY <1>1, <1>6, <2>1, <2>2
<1>10. Taken(more) = IF HasUsable(cs) THEN Taken(cs) ELSE IF Usable(c) THEN c ELSE <<>>
  BY <1>4, <1>8, <1>9 DEF Taken
<1>11. ASSUME Unskipped(more) PROVE Unskipped(cs)
  <2> SUFFICES ASSUME NEW i \in DOMAIN cs, \A j \in 1 .. i : ~Usable(cs[j])
               PROVE  cs[i] = <<>>
    BY DEF Unskipped
  <2>1. i \in 1 .. n /\ i \in DOMAIN more /\ more[i] = cs[i]
    BY <1>1, <1>3
  <2>2. \A j \in 1 .. i : j \in 1 .. n
    BY <1>1, <2>1
  <2>3. \A j \in 1 .. i : ~Usable(more[j])
    BY <1>1, <2>2
  <2> QED
    BY <1>11, <2>1, <2>3 DEF Unskipped
<1>12. ASSUME Unskipped(more), ~HasUsable(cs), ~Usable(c) PROVE c = <<>>
  <2>1. \A j \in 1 .. n + 1 : ~Usable(more[j])
    BY <1>1, <1>2, <1>12 DEF HasUsable
  <2>2. n + 1 \in DOMAIN more
    BY <1>1, <1>3
  <2> QED
    BY <1>1, <1>12, <2>1, <2>2 DEF Unskipped
<1> QED
  BY <1>4, <1>10, <1>11, <1>12 DEF more

ConnectionMap == [c \in ConnectionType |-> ConnectionEvents(c)]

LEMMA ConnectionMapType ==
  /\ ConnectionMap \in Mappings(ConnectionType, Seq(EventType))
  /\ \A c \in ConnectionType : ConnectionMap[c] = ConnectionEvents(c)
  /\ \A cs \in Seq(ConnectionType) : MapSeq(ConnectionEvents, cs) = Spread(ConnectionMap, cs)
<1>1. ASSUME NEW c \in ConnectionType PROVE ConnectionEvents(c) \in Seq(EventType)
  BY ConnectionTyped DEF ConnectionType
<1>2. /\ ConnectionMap \in Mappings(ConnectionType, Seq(EventType))
      /\ \A c \in ConnectionType : ConnectionMap[c] = ConnectionEvents(c)
  BY <1>1 DEF ConnectionMap, Mappings
<1>3. ASSUME NEW cs \in Seq(ConnectionType)
      PROVE  MapSeq(ConnectionEvents, cs) = Spread(ConnectionMap, cs)
  <2>1. \A i \in DOMAIN cs : cs[i] \in ConnectionType
    OBVIOUS
  <2>2. [i \in DOMAIN cs |-> ConnectionEvents(cs[i])] = Parts(ConnectionMap, cs)
    BY <1>2, <2>1 DEF Parts
  <2> QED
    BY <2>2 DEF MapSeq, Spread
<1> QED
  BY <1>2, <1>3

(* One more connection of an SSL-VPN section. *)
LEMMA ConnectionTaken ==
  ASSUME NEW q, NEW cs \in Seq(ConnectionType), NEW c \in ConnectionType,
         Unskipped(Append(cs, c)), Matches(q, cs), q.inSslvpn,
         NEW r, r = Drive(Importer, q, ConnectionEvents(c))
  PROVE  Matches(r, Append(cs, c)) /\ r.inSslvpn
<1>1. /\ q \in ParseType /\ q.reading = None /\ ~q.inConnection
      /\ q.done <=> HasUsable(cs)
      /\ Filled(q, Taken(cs))
  BY DEF Matches
<1>2. /\ ~(q.inSslvpn /\ ~q.done) => r = q
      /\ q.inSslvpn /\ ~q.done /\ Filled(q, <<>>) =>
           /\ r \in ParseType /\ r.reading = None /\ ~r.inConnection
           /\ r.inSslvpn /\ (r.done <=> Usable(c)) /\ Filled(r, c)
  BY <1>1, ConnectionRead DEF ConnectionType
<1>3. /\ HasUsable(Append(cs, c)) <=> HasUsable(cs) \/ Usable(c)
      /\ Taken(Append(cs, c)) = IF HasUsable(cs) THEN Taken(cs)
                                ELSE IF Usable(c) THEN c ELSE <<>>
      /\ ~HasUsable(cs) /\ ~Usable(c) => c = <<>>
  BY UsableAppend
<1>4. ~HasUsable(cs) => Taken(cs) = <<>>
  BY DEF Taken
<1>5. CASE HasUsable(cs)
  BY <1>1, <1>2, <1>3, <1>5 DEF Matches
<1>6. CASE ~HasUsable(cs)
  BY <1>1, <1>2, <1>3, <1>4, <1>6 DEF Matches
<1> QED
  BY <1>5, <1>6

(* The connections of a section: taken in an SSL-VPN section, else passed. *)
LEMMA ConnectionsRead ==
  ASSUME NEW q \in ParseType, q.reading = None, ~q.inConnection,
         NEW before \in Seq(ConnectionType), NEW cs \in Seq(ConnectionType),
         NEW r, r = Drive(Importer, q, MapSeq(ConnectionEvents, cs))
  PROVE  /\ ~q.inSslvpn => r = q
         /\ q.inSslvpn /\ Matches(q, before) /\ Unskipped(before \o cs) =>
              Matches(r, before \o cs) /\ r.inSslvpn
<1> DEFINE C == EventType
           A == ParseType
           D == ConnectionType
           Reached(x) == Drive(Importer, q, Spread(ConnectionMap, x))
           Fits(x) == /\ ~q.inSslvpn => Reached(x) = q
                      /\ q.inSslvpn /\ Matches(q, before) /\ Unskipped(before \o x) =>
                           Matches(Reached(x), before \o x) /\ Reached(x).inSslvpn
           S == {x \in Seq(D) : Fits(x)}
<1>1. Importer \in Machines(C, A) /\ q \in A
  BY ImporterType
<1>2. <<>> \in S
  <2>1. Reached(<<>>) = q
    <3> HIDE DEF C, A
    <3> QED
      BY <1>1, SpreadEmpty, DriveEmpty
  <2>2. before \o <<>> = before
    BY ConcatEmpty
  <2> HIDE DEF Reached
  <2> QED
    BY <2>1, <2>2
<1>3. ASSUME NEW x \in Seq(D), NEW c \in D, x \in S
      PROVE  Append(x, c) \in S
  <2> DEFINE text == Spread(ConnectionMap, x)
             rest == ConnectionEvents(c)
             q1   == Reached(x)
             q2   == Reached(Append(x, c))
             all  == before \o x
  <2>1. /\ text \in Seq(C) /\ rest \in Seq(C)
        /\ Spread(ConnectionMap, Append(x, c)) = text \o rest
    <3>1. ConnectionMap \in Mappings(D, Seq(C))
      BY ConnectionMapType
    <3>2. ConnectionMap[c] = rest
      BY ConnectionMapType
    <3> HIDE DEF C, D
    <3>3. /\ Spread(ConnectionMap, x) \in Seq(C) /\ ConnectionMap[c] \in Seq(C)
          /\ Spread(ConnectionMap, Append(x, c)) = Spread(ConnectionMap, x) \o ConnectionMap[c]
      BY ONLY <3>1, SpreadAppend, x \in Seq(D), c \in D
    <3> QED
      BY <3>2, <3>3
  <2>2. q2 = Drive(Importer, q1, ConnectionEvents(c))
    <3> HIDE DEF C, A, text, rest
    <3>1. Drive(Importer, q, text \o rest) = Drive(Importer, Drive(Importer, q, text), rest)
      BY <1>1, <2>1, DriveConcat
    <3> QED
      BY <2>1, <3>1 DEF text, rest
  <2>3. Fits(x)
    BY <1>3
  <2>4. /\ ~q.inSslvpn => q1 = q
        /\ q.inSslvpn /\ Matches(q, before) /\ Unskipped(all) =>
             Matches(q1, all) /\ q1.inSslvpn
    BY <2>3
  <2>5. /\ all \in Seq(D) /\ Append(x, c) \in Seq(D) /\ before \in Seq(D)
        /\ before \o Append(x, c) = Append(all, c)
    <3> HIDE DEF D
    <3>1. before \in Seq(D)
      BY DEF D
    <3> QED
      BY <3>1, ConcatIn, ConcatAppend
  <2> HIDE DEF q1, q2, all
  <2>6. ~q.inSslvpn => q2 = q
    BY <2>2, <2>4, ConnectionRead DEF ConnectionType
  <2>7. ASSUME q.inSslvpn, Matches(q, before), Unskipped(Append(all, c))
        PROVE  Matches(q2, Append(all, c)) /\ q2.inSslvpn
    <3>1. Unskipped(all)
      BY <2>5, <2>7, UsableAppend
    <3>2. Matches(q1, all) /\ q1.inSslvpn
      BY <2>4, <2>7, <3>1
    <3> QED
      BY <2>2, <2>5, <2>7, <3>2, ConnectionTaken
  <2> HIDE DEF D
  <2>8. Fits(Append(x, c))
    BY <2>5, <2>6, <2>7 DEF q2
  <2> QED
    BY <2>5, <2>8
<1>4. Seq(D) \subseteq S
  <2> HIDE DEF S, D
  <2> QED
    BY <1>2, <1>3, TextInduction
<1>5. Fits(cs)
  BY <1>4
<1>6. r = Reached(cs)
  BY ConnectionMapType
<1> QED
  BY <1>5, <1>6

SectionMap == [s \in SectionType |-> SectionEvents(s)]
OfVpn == [s \in SectionType |-> IF s.tag = "sslvpn" THEN s.connections ELSE <<>>]

LEMMA SectionMapType ==
  /\ SectionMap \in Mappings(SectionType, Seq(EventType))
  /\ \A s \in SectionType : SectionMap[s] = SectionEvents(s)
  /\ OfVpn \in Mappings(SectionType, Seq(ConnectionType))
  /\ \A s \in SectionType : OfVpn[s] = IF s.tag = "sslvpn" THEN s.connections ELSE <<>>
  /\ \A d \in DocumentType :
       /\ d.sections \in Seq(SectionType)
       /\ Events(d) = Spread(SectionMap, d.sections)
       /\ Connections(d) = Spread(OfVpn, d.sections)
<1>1. ASSUME NEW s \in SectionType
      PROVE  /\ SectionEvents(s) \in Seq(EventType)
             /\ (IF s.tag = "sslvpn" THEN s.connections ELSE <<>>) \in Seq(ConnectionType)
  <2>1. s.connections \in Seq(ConnectionType)
    BY DEF SectionType, ConnectionType
  <2>2. <<>> \in Seq(ConnectionType)
    OBVIOUS
  <2> QED
    BY <2>1, <2>2, SectionTyped
<1>2. /\ SectionMap \in Mappings(SectionType, Seq(EventType))
      /\ \A s \in SectionType : SectionMap[s] = SectionEvents(s)
  BY <1>1 DEF SectionMap, Mappings
<1>3. /\ OfVpn \in Mappings(SectionType, Seq(ConnectionType))
      /\ \A s \in SectionType : OfVpn[s] = IF s.tag = "sslvpn" THEN s.connections ELSE <<>>
  BY <1>1 DEF OfVpn, Mappings
<1>4. ASSUME NEW d \in DocumentType
      PROVE  /\ d.sections \in Seq(SectionType)
             /\ Events(d) = Spread(SectionMap, d.sections)
             /\ Connections(d) = Spread(OfVpn, d.sections)
  <2> DEFINE s == d.sections
  <2>1. s \in Seq(SectionType)
    BY DEF DocumentType
  <2>2. \A i \in DOMAIN s : s[i] \in SectionType
    BY <2>1
  <2>3. [i \in DOMAIN s |-> SectionEvents(s[i])] = Parts(SectionMap, s)
    BY <1>2, <2>2 DEF Parts
  <2>4. [i \in DOMAIN s |-> IF s[i].tag = "sslvpn" THEN s[i].connections ELSE <<>>]
          = Parts(OfVpn, s)
    BY <1>3, <2>2 DEF Parts
  <2> QED
    BY <2>1, <2>3, <2>4 DEF Events, Connections, MapSeq, Spread
<1> QED
  BY <1>2, <1>3, <1>4

(* One more section. *)
LEMMA SectionRead ==
  ASSUME NEW q, NEW before \in Seq(ConnectionType), NEW s \in SectionType,
         Matches(q, before), ~q.inSslvpn, Unskipped(before \o OfVpn[s]),
         NEW r, r = Drive(Importer, q, SectionEvents(s))
  PROVE  Matches(r, before \o OfVpn[s]) /\ ~r.inSslvpn
<1> DEFINE tag   == s.tag
           cs    == s.connections
           inner == MapSeq(ConnectionEvents, cs)
           q1    == Started(q, tag)
           q2    == Drive(Importer, q1, inner)
<1>1. tag \in TagType /\ SectionEvents(s) = Element(tag, inner) /\ cs \in Seq(ConnectionType)
  BY DEF TagType, SectionEvents, SectionType, ConnectionType
<1>2. inner \in Seq(EventType)
  <2>1. /\ ConnectionMap \in Mappings(ConnectionType, Seq(EventType))
        /\ inner = Spread(ConnectionMap, cs)
    BY <1>1, ConnectionMapType
  <2> HIDE DEF inner, cs
  <2> QED
    BY <1>1, <2>1, SpreadTyped
<1>3. /\ q \in ParseType /\ q.reading = None /\ ~q.inConnection
      /\ q.done <=> HasUsable(before)
      /\ Filled(q, Taken(before))
  BY DEF Matches
<1>4. q1 \in ParseType
  BY <1>3, StartedTyped
<1>5. r = Ended(q2, tag)
  <2> HIDE DEF tag, inner
  <2> QED
    BY <1>1, <1>2, <1>3, ElementRead DEF q1, q2
<1>6. CASE tag = "sslvpn"
  <2>1. q1 = [q EXCEPT !.inSslvpn = TRUE]
    BY <1>3, <1>6 DEF Started
  <2>2. /\ q1.reading = None /\ ~q1.inConnection /\ q1.inSslvpn
        /\ q1.done = q.done /\ q1.got = q.got /\ q1.sso = q.sso
    BY <1>3, <2>1 DEF ParseType
  <2>3. Matches(q1, before)
    BY <1>3, <1>4, <2>2 DEF Matches, Filled
  <2>4. OfVpn[s] = cs
    BY <1>6, SectionMapType
  <2> HIDE DEF cs, q1
  <2>5. Matches(q2, before \o cs) /\ q2.inSslvpn
    BY <1>1, <1>4, <2>2, <2>3, <2>4, ConnectionsRead
  <2> HIDE DEF q2, tag
  <2>6. r = [q2 EXCEPT !.inSslvpn = FALSE]
    <3>1. Commit(q2) = q2
      BY <2>5, ImportAssumption DEF Commit, Fields, Matches
    <3>2. Closing(q2, tag) = [q2 EXCEPT !.inSslvpn = FALSE]
      BY <1>6 DEF Closing
    <3> QED
      BY <1>5, <3>1, <3>2 DEF Ended
  <2>7. q2 \in ParseType
    BY <2>5 DEF Matches
  <2>8. /\ r \in ParseType /\ r.reading = q2.reading /\ r.inConnection = q2.inConnection
        /\ ~r.inSslvpn /\ r.done = q2.done /\ r.got = q2.got /\ r.sso = q2.sso
    BY <2>6, <2>7 DEF ParseType
  <2> QED
    BY <2>4, <2>5, <2>8 DEF Matches, Filled
<1>7. CASE tag # "sslvpn"
  <2>1. q1 = q
    BY <1>3, <1>7 DEF Started
  <2>2. OfVpn[s] = <<>>
    BY <1>7, SectionMapType
  <2>3. before \o <<>> = before
    BY ConcatEmpty
  <2> HIDE DEF cs, q1
  <2>4. q2 = q
    BY <1>1, <1>3, <2>1, ConnectionsRead
  <2> HIDE DEF q2, tag
  <2>5. Commit(q) = q
    BY <1>3, ImportAssumption DEF Commit, Fields
  <2>6. Closing(q, tag) = q
    BY <1>3, <1>7 DEF Closing
  <2>7. r = q
    BY <1>5, <2>4, <2>5, <2>6 DEF Ended
  <2> QED
    BY <2>2, <2>3, <2>7
<1> QED
  BY <1>6, <1>7

LEMMA UnskippedConcat ==
  ASSUME NEW C, NEW a \in Seq(C), NEW b \in Seq(C), Unskipped(a \o b)
  PROVE  Unskipped(a)
<1> DEFINE n == Len(a)
           c == a \o b
<1>1. /\ n \in Nat /\ DOMAIN a = 1 .. n /\ Len(c) \in Nat /\ n <= Len(c) /\ DOMAIN c = 1 .. Len(c)
      /\ \A i \in 1 .. n : c[i] = a[i]
  OBVIOUS
<1> SUFFICES ASSUME NEW i \in 1 .. n, \A j \in 1 .. i : ~Usable(a[j])
             PROVE  a[i] = <<>>
  BY <1>1 DEF Unskipped
<1>2. Unskipped(c)
  OBVIOUS
<1> HIDE DEF n, c
<1>3. i \in DOMAIN c /\ \A j \in 1 .. i : j \in 1 .. n
  BY <1>1
<1>4. \A j \in 1 .. i : ~Usable(c[j])
  BY <1>1, <1>3
<1> QED
  BY <1>1, <1>2, <1>3, <1>4 DEF Unskipped

(* A whole file. *)
LEMMA SectionsRead ==
  ASSUME NEW secs \in Seq(SectionType), Unskipped(Spread(OfVpn, secs))
  PROVE  Matches(Drive(Importer, Fresh, Spread(SectionMap, secs)), Spread(OfVpn, secs))
<1> DEFINE C == EventType
           A == ParseType
           D == ConnectionType
           E == SectionType
           Reached(x) == Drive(Importer, Fresh, Spread(SectionMap, x))
           Named(x)   == Spread(OfVpn, x)
           Fits(x)    == Unskipped(Named(x)) => Matches(Reached(x), Named(x)) /\ ~Reached(x).inSslvpn
           S == {x \in Seq(E) : Named(x) \in Seq(D) /\ Fits(x)}
<1>1. Importer \in Machines(C, A) /\ Fresh \in A
  BY ImporterType, FreshTyped
<1>2. <<>> \in S
  <2>1. Reached(<<>>) = Fresh
    <3> HIDE DEF C, A
    <3> QED
      BY <1>1, SpreadEmpty, DriveEmpty
  <2>2. Named(<<>>) = <<>>
    BY SpreadEmpty
  <2>3. ~HasUsable(<<>>) /\ Taken(<<>>) = <<>>
    BY DEF Taken, HasUsable
  <2>4. Filled(Fresh, <<>>)
    <3>1. Fresh.sso = FALSE /\ \A f \in Kept : Fresh.got[f] = <<>>
      BY DEF Fresh
    <3>2. Truth(<<>>) = FALSE
      BY DEF Truth
    <3> QED
      BY <3>1, <3>2, SaidEmpty DEF Filled
  <2>5. Fresh.reading = None /\ ~Fresh.inConnection /\ ~Fresh.done /\ ~Fresh.inSslvpn
    BY DEF Fresh
  <2>6. Matches(Fresh, <<>>)
    BY <1>1, <2>3, <2>4, <2>5 DEF Matches
  <2>7. <<>> \in Seq(D) /\ <<>> \in Seq(E)
    OBVIOUS
  <2> HIDE DEF Reached, Named
  <2> QED
    BY <2>1, <2>2, <2>5, <2>6, <2>7
<1>3. ASSUME NEW x \in Seq(E), NEW s \in E, x \in S
      PROVE  Append(x, s) \in S
  <2> DEFINE more == Append(x, s)
             text == Spread(SectionMap, x)
             rest == SectionEvents(s)
             q1   == Reached(x)
             q2   == Reached(more)
             g1   == Named(x)
             g2   == Named(more)
             own  == OfVpn[s]
  <2>1. /\ text \in Seq(C) /\ rest \in Seq(C)
        /\ Spread(SectionMap, more) = text \o rest
    <3>1. SectionMap \in Mappings(E, Seq(C))
      BY SectionMapType
    <3>2. SectionMap[s] = rest
      BY SectionMapType
    <3> HIDE DEF C, E
    <3>3. /\ Spread(SectionMap, x) \in Seq(C) /\ SectionMap[s] \in Seq(C)
          /\ Spread(SectionMap, Append(x, s)) = Spread(SectionMap, x) \o SectionMap[s]
      BY ONLY <3>1, SpreadAppend, x \in Seq(E), s \in E
    <3> QED
      BY <3>2, <3>3
  <2>2. g1 \in Seq(D) /\ own \in Seq(D) /\ g2 = g1 \o own
    <3>1. OfVpn \in Mappings(E, Seq(D))
      BY SectionMapType
    <3> HIDE DEF D, E
    <3>2. /\ Spread(OfVpn, x) \in Seq(D) /\ OfVpn[s] \in Seq(D)
          /\ Spread(OfVpn, Append(x, s)) = Spread(OfVpn, x) \o OfVpn[s]
      BY ONLY <3>1, SpreadAppend, x \in Seq(E), s \in E
    <3> QED
      BY <3>2
  <2>3. q2 = Drive(Importer, q1, SectionEvents(s))
    <3> HIDE DEF C, A, text, rest
    <3>1. Drive(Importer, Fresh, text \o rest) = Drive(Importer, Drive(Importer, Fresh, text), rest)
      BY <1>1, <2>1, DriveConcat
    <3> QED
      BY <2>1, <3>1 DEF text, rest
  <2>4. Unskipped(g1) => Matches(q1, g1) /\ ~q1.inSslvpn
    BY <1>3
  <2> HIDE DEF q1, q2, g1, g2, own
  <2>5. Unskipped(g1 \o own) => Unskipped(g1)
    BY <2>2, UnskippedConcat
  <2>6. ASSUME Unskipped(g2) PROVE Matches(q2, g2) /\ ~q2.inSslvpn
    BY <2>2, <2>3, <2>4, <2>5, <2>6, SectionRead DEF own
  <2>7. more \in Seq(E) /\ g2 \in Seq(D)
    BY <2>2, ConcatIn
  <2> HIDE DEF Reached, Named, more
  <2> QED
    BY <2>6, <2>7 DEF q2, g2, more
<1>4. Seq(E) \subseteq S
  <2> HIDE DEF S, E
  <2> QED
    BY <1>2, <1>3, TextInduction
<1>5. Fits(secs)
  BY <1>4
<1> QED
  BY <1>5

LEMMA ImportedIsExpected ==
  ASSUME ImportTyped, ReadInv
  PROVE  ImportsFirst
<1> SUFFICES ASSUME imported # None, NothingSkipped(doc)
             PROVE  imported = Expected(doc)
  BY DEF ImportsFirst
<1> DEFINE cs == Connections(doc)
<1>1. /\ doc \in DocumentType /\ todo = <<>>
      /\ imported = IF doc.fortinet /\ doc.whole /\ p.got["server"] # <<>>
                    THEN Yield(p.got, p.sso) ELSE Failed
      /\ Drive(Importer, p, todo) = Drive(Importer, Fresh, Whole(doc))
  BY DEF ImportTyped, ReadInv
<1>2. p = Drive(Importer, Fresh, Whole(doc))
  <2> DEFINE A == ParseType
             C == EventType
  <2>1. Importer \in Machines(C, A) /\ p \in A
    BY ImporterType DEF ImportTyped
  <2> HIDE DEF A, C
  <2>2. Drive(Importer, p, <<>>) = p
    BY <2>1, DriveEmpty
  <2> QED
    BY <1>1, <2>2
<1>3. Unskipped(cs)
  BY DEF Unskipped, NothingSkipped
<1>4. CASE ~doc.fortinet
  BY <1>1, <1>4 DEF Expected
<1>5. CASE doc.fortinet
  <2>1. Whole(doc) = Spread(SectionMap, doc.sections) /\ cs = Spread(OfVpn, doc.sections)
        /\ doc.sections \in Seq(SectionType)
    BY <1>1, <1>5, SectionMapType DEF Whole
  <2> HIDE DEF cs
  <2>2. Matches(p, cs)
    BY <1>2, <1>3, <2>1, SectionsRead
  <2>3. /\ p \in ParseType /\ (p.done <=> HasUsable(cs)) /\ Filled(p, Taken(cs))
    BY <2>2 DEF Matches
  <2>4. CASE ~HasUsable(cs)
    <3>1. p.got["server"] = <<>>
      BY <2>3, <2>4, SaidEmpty DEF Filled, Taken, Kept
    <3>2. \A i \in DOMAIN cs : ~Usable(cs[i])
      BY <2>4 DEF HasUsable
    <3> QED
      BY <1>1, <3>1, <3>2 DEF Expected, cs
  <2>5. CASE HasUsable(cs)
    <3> DEFINE c == FirstUsable(doc)
               S == {i \in DOMAIN cs : Usable(cs[i])}
    <3>1. c = FirstOf(cs) /\ Taken(cs) = c
      BY <2>5 DEF FirstUsable, FirstOf, Taken, cs
    <3>2. Usable(c)
      <4>1. cs \in Seq(ConnectionType)
        <5> DEFINE D == ConnectionType
        <5>1. OfVpn \in Mappings(SectionType, Seq(D))
          BY SectionMapType
        <5> HIDE DEF D
        <5>2. Spread(OfVpn, doc.sections) \in Seq(D)
          BY <2>1, <5>1, SpreadTyped
        <5> QED
          BY <2>1, <5>2 DEF D
      <4>2. S \subseteq Nat /\ S # {}
        BY <2>5, <4>1 DEF HasUsable
      <4>3. Min(S) \in S
        <5> HIDE DEF S
        <5> QED
          BY <4>2, Least
      <4> QED
        BY <3>1, <4>3 DEF FirstOf
    <3> HIDE DEF c
    <3>3. p.got["server"] # <<>>
      BY <2>3, <3>1, <3>2 DEF Filled, Usable, Kept
    <3>4. p.got = [f \in Kept |-> Said(c, f)]
      <4>1. p.got = [f \in Kept |-> p.got[f]]
        BY <2>3 DEF ParseType
      <4> QED
        BY <2>3, <3>1, <4>1 DEF Filled
    <3>5. p.sso = (Said(c, "sso_enabled") \in {<<t>> : t \in Truths})
      BY <2>3, <3>1 DEF Filled, Truth
    <3>6. ~\A i \in DOMAIN cs : ~Usable(cs[i])
      BY <2>5 DEF HasUsable
    <3>7. CASE ~doc.whole
      BY <1>1, <3>7 DEF Expected
    <3>8. CASE doc.whole
      <4>1. imported = Yield(p.got, p.sso)
        BY <1>1, <1>5, <3>3, <3>8
      <4>2. Expected(doc) = Yield([f \in Kept |-> Said(c, f)],
                                  Said(c, "sso_enabled") \in {<<t>> : t \in Truths})
        BY <1>5, <3>6, <3>8 DEF Expected, c, cs
      <4> QED
        BY <3>4, <3>5, <4>1, <4>2
    <3> QED
      BY <3>7, <3>8
  <2> QED
    BY <2>4, <2>5
<1> QED
  BY <1>4, <1>5

(* What is imported is the first SSL-VPN connection that names a server,   *)
(* whole and alone, for every file whose connections in front of it are    *)
(* empty, and a file that has none, is of another format or breaks off     *)
(* fails the import (fortinet_parse, crosswire_import_from_file).          *)
THEOREM ImportCorrect == Spec => []ImportsFirst
<1>1. StoredInv /\ ReadInv => ImportsFirst
  BY ImportedIsExpected DEF StoredInv
<1> QED
  BY <1>1, ProfileInvariant, ReadInvariant, PTL
==============================================================================

--------------------------- MODULE FortinetImport ---------------------------
(***************************************************************************)
(* The importer of FortiClient exports (nm-crosswire-import-fortinet.c):   *)
(* GMarkup calls back for every start tag, text and end tag, and the       *)
(* callbacks keep an FParse between calls.  A text is the sequence of      *)
(* chunks GMarkup delivers it in.                                          *)
(***************************************************************************)
EXTENDS SequencesExt, Naturals

CONSTANTS
  Documents,   \* the files a user may import
  Chars,       \* the chunks texts are made of
  Blank,       \* a chunk of white space
  Truths,      \* the chunks that read "1" or "true"
  PortTails,   \* the chunks that read ":" and digits
  None,        \* an absent value
  Failed       \* the outcome of an import that failed

(* A document is [fortinet, whole, sections]: whether it has the root tag  *)
(* the importer sniffs for, whether it is well formed to its end, and its  *)
(* sections; a section is a tag and its connections, a connection a        *)
(* sequence of leaves, a leaf a tag and its chunks; what is nested in a    *)
(* connection does not reuse the names the importer goes by.               *)
Kept   == {"name", "description", "server", "username"}
Fields == Kept \cup {"sso_enabled"}

LeafType     == [tag : STRING \ {"connection", "sslvpn"}, chunks : Seq(Chars)]
SectionType  == [tag : STRING, connections : Seq(Seq(LeafType))]
DocumentType == [fortinet : BOOLEAN, whole : BOOLEAN, sections : Seq(SectionType)]

ASSUME ImportAssumption ==
  /\ {Blank} \cup Truths \cup PortTails \subseteq Chars
  /\ Documents \subseteq DocumentType
  /\ None \notin DocumentType \cup Fields

VARIABLES
  doc,         \* the file, None when nothing is being imported
  todo,        \* the events GMarkup has still to deliver
  p,           \* FParse
  imported     \* what the import has yielded, None until it ends

importVars == <<doc, todo, p, imported>>

(* What GMarkup makes of a document. *)
Event(kind, what) == [kind |-> kind, what |-> what]
Element(tag, inner) == <<Event("start", tag)>> \o inner \o <<Event("end", tag)>>
MapSeq(Op(_), s) == FlattenSeq([i \in DOMAIN s |-> Op(s[i])])

LeafEvents(leaf) ==
  Element(leaf.tag, [i \in DOMAIN leaf.chunks |-> Event("text", leaf.chunks[i])])
ConnectionEvents(c)    == Element("connection", MapSeq(LeafEvents, c))
SectionEvents(section) == Element(section.tag, MapSeq(ConnectionEvents, section.connections))
Events(d)              == MapSeq(SectionEvents, d.sections)

Fresh ==
  [inSslvpn |-> FALSE, inConnection |-> FALSE, done |-> FALSE,
   reading |-> None, text |-> <<>>, got |-> [f \in Kept |-> <<>>], sso |-> FALSE]

ImportInit ==
  /\ doc \in Documents
  /\ todo = IF doc.fortinet THEN Events(doc) ELSE <<>>
  /\ p = Fresh
  /\ imported = None

------------------------------------------------------------------------------
(* g_strstrip *)
Strip(s) ==
  LET ink == {i \in DOMAIN s : s[i] # Blank}
  IN IF ink = {} THEN <<>> ELSE SubSeq(s, Min(ink), Max(ink))

Due(kind) == todo # <<>> /\ Head(todo).kind = kind
Advance     == todo' = Tail(todo) /\ UNCHANGED <<doc, imported>>

(* Broken variant: connections of other sections count. *)
StartElementAnywhere ==
  LET tag == Head(todo).what IN
  /\ Due("start")
  /\ p' = CASE tag = "sslvpn" -> [p EXCEPT !.inSslvpn = TRUE]
            [] tag = "connection" /\ ~p.done -> [p EXCEPT !.inConnection = TRUE]
            [] p.inConnection /\ tag \in Fields -> [p EXCEPT !.reading = tag, !.text = <<>>]
            [] OTHER -> p
  /\ Advance

StartElement ==
  LET tag == Head(todo).what IN
  /\ Due("start")
  /\ p' = CASE tag = "sslvpn" -> [p EXCEPT !.inSslvpn = TRUE]
            [] tag = "connection" /\ p.inSslvpn /\ ~p.done ->
                 [p EXCEPT !.inConnection = TRUE]
            [] p.inConnection /\ tag \in Fields ->
                 [p EXCEPT !.reading = tag, !.text = <<>>]
            [] OTHER -> p
  /\ Advance

Text ==
  /\ Due("text")
  /\ p' = IF p.reading = None THEN p ELSE [p EXCEPT !.text = Append(@, Head(todo).what)]
  /\ Advance

(* commit_leaf *)
Commit(q) ==
  LET val == Strip(q.text)
  IN CASE q.reading = None -> q
       [] q.reading \in Kept -> [q EXCEPT !.got[q.reading] = val, !.reading = None]
       [] OTHER -> [q EXCEPT !.sso = val \in {<<t>> : t \in Truths}, !.reading = None]

EndElement ==
  LET tag == Head(todo).what
      q   == Commit(p)
  IN
  /\ Due("end")
  /\ p' = CASE tag = "connection" /\ q.inConnection ->
                 [q EXCEPT !.inConnection = FALSE, !.done = @ \/ q.got["server"] # <<>>]
            [] tag = "sslvpn" -> [q EXCEPT !.inSslvpn = FALSE]
            [] OTHER -> q
  /\ Advance

(* apply_server and the rest of vpn.data; out_id. *)
Yield(got, sso) ==
  LET server   == got["server"]
      hasPort  == Last(server) \in PortTails
  IN [gateway |-> IF hasPort THEN Front(server) ELSE server,
      port    |-> IF hasPort THEN <<Last(server)>> ELSE <<>>,
      auth    |-> IF sso THEN "saml" ELSE "password",
      user    |-> IF sso THEN <<>> ELSE got["username"],
      id      |-> IF got["name"] # <<>> THEN got["name"] ELSE got["description"]]

(* crosswire_import_from_file and fortinet_parse end: an unknown format, a *)
(* syntax error or no server fail the import.                              *)
Finish ==
  /\ doc # None /\ imported = None
  /\ todo = <<>>
  /\ imported' = IF doc.fortinet /\ doc.whole /\ p.got["server"] # <<>>
                 THEN Yield(p.got, p.sso) ELSE Failed
  /\ UNCHANGED <<doc, todo, p>>

ImportStep == StartElement \/ Text \/ EndElement \/ Finish

ImportSpec == ImportInit /\ [][ImportStep]_importVars

------------------------------------------------------------------------------
(* The connections of the file, in order, and what one says of a field:    *)
(* its last leaf with that tag.                                            *)
Connections(d) ==
  MapSeq(LAMBDA section : IF section.tag = "sslvpn" THEN section.connections ELSE <<>>,
         d.sections)

Said(c, tag) ==
  LET at == {i \in DOMAIN c : c[i].tag = tag}
  IN IF at = {} THEN <<>> ELSE Strip(c[Max(at)].chunks)

Usable(c) == Said(c, "server") # <<>>

(* The connection an import is about. *)
FirstUsable(d) ==
  LET cs == Connections(d)
  IN cs[Min({i \in DOMAIN cs : Usable(cs[i])})]

Expected(d) ==
  LET cs == Connections(d) IN
  IF ~d.fortinet \/ ~d.whole \/ \A i \in DOMAIN cs : ~Usable(cs[i])
  THEN Failed
  ELSE Yield([f \in Kept |-> Said(FirstUsable(d), f)],
             Said(FirstUsable(d), "sso_enabled") \in {<<t>> : t \in Truths})

(* Every connection in front of the one imported is empty. *)
NothingSkipped(d) ==
  LET cs == Connections(d) IN
  \A i \in DOMAIN cs : (\A j \in 1 .. i : ~Usable(cs[j])) => cs[i] = <<>>

(* What is imported is the first SSL-VPN connection that names a server,   *)
(* whole and alone, whatever stands before it in other sections or behind  *)
(* it (fortinet_parse; "first SSL-VPN connection wins").                   *)
ImportsFirst ==
  imported # None /\ NothingSkipped(doc) => imported = Expected(doc)

(* ... even when connections without a server were skipped (the head of    *)
(* the file: "extracts the first SSL-VPN connection").                     *)
ImportsOnlyOne == imported # None => imported = Expected(doc)
==============================================================================
